--------------------------- MODULE RateLimiterProofs ---------------------------
(***************************************************************************)
(* Proofs about the token bucket, for every set of hosts, rate, interval    *)
(* and length of run.  The inductive invariant ties the tokens left in a    *)
(* bucket to the grants made: they never exceed what any window still       *)
(* allows (Envelope), and they equal what some window still allows (Tight). *)
(***************************************************************************)
EXTENDS RateLimiter, TLAPS

\* What the window that begins at the i-th grant still allows at time t.
Slack(g, i, t) == Capacity + (t - g[i]) * Rate - (Len(g) - i + 1) * Cost

Fresh ==
  \A k \in Keys \ DOMAIN buckets : grants[k] = <<>>

Past ==
  \A k \in DOMAIN buckets : \A i \in 1..Len(grants[k]) :
    grants[k][i] <= buckets[k].last

Envelope ==
  \A k \in DOMAIN buckets : \A i \in 1..Len(grants[k]) :
    buckets[k].tokens <= Slack(grants[k], i, buckets[k].last)

Tight ==
  \A k \in DOMAIN buckets : \E i \in 1..Len(grants[k]) :
    buckets[k].tokens = Slack(grants[k], i, buckets[k].last)

IInv ==
  /\ TypeOK
  /\ Fresh
  /\ Past
  /\ Envelope
  /\ Tight
  /\ WindowBound
  /\ RefusalJustified

-----------------------------------------------------------------------------
\* A full bucket holds at least one token.
LEMMA CapacityFact ==
  Capacity \in Nat /\ Cost \in Nat \ {0} /\ Cost <= Capacity
<1>1. Rate \in Nat \ {0} /\ Interval \in Nat \ {0}
  BY RateAssumption
<1>2. Rate * Interval \in Nat
  BY <1>1
<1>3. Rate * Interval = Interval + (Rate - 1) * Interval
  BY <1>1
<1>4. (Rate - 1) * Interval >= 0
  BY <1>1
<1> QED  BY <1>1, <1>2, <1>3, <1>4 DEF Capacity, Cost

\* The refill of a stored bucket stays between its tokens and a full bucket,
\* and is exact below the cap.
LEMMA RefilledFact ==
  ASSUME NEW b \in [tokens : 0..Capacity, last : 0..MaxTime],
         now \in 0..MaxTime, b.last <= now
  PROVE  /\ Refilled(b) \in 0..Capacity
         /\ Refilled(b) <= b.tokens + (now - b.last) * Rate
         /\ \/ Refilled(b) = Capacity
            \/ Refilled(b) = b.tokens + (now - b.last) * Rate
<1>1. (now - b.last) * Rate \in Nat
  BY RateAssumption
<1>2. b.tokens \in 0..Capacity /\ Capacity \in Nat
  BY CapacityFact
<1> DEFINE t == b.tokens + (now - b.last) * Rate
<1>3. t \in Nat
  BY <1>1, <1>2
<1>4. Refilled(b) = IF t > Capacity THEN Capacity ELSE t
  BY DEF Refilled
<1> HIDE DEF t
<1>5. /\ Refilled(b) \in 0..Capacity
      /\ Refilled(b) <= t
      /\ Refilled(b) = Capacity \/ Refilled(b) = t
  BY <1>2, <1>3, <1>4
<1> QED  BY <1>5 DEF t

\* Credit for two adjacent spans of time adds up.
LEMMA Spans ==
  ASSUME NEW a \in Int, NEW b \in Int, NEW c \in Int
  PROVE  (a - b) * Rate + (b - c) * Rate = (a - c) * Rate
  BY RateAssumption

-----------------------------------------------------------------------------
\* What a call of allow(k) finds after the refill: no more than any window
\* still allows at this moment, and, below a full bucket, exactly what some
\* window still allows.
LEMMA CallFact ==
  ASSUME IInv, NEW k \in Keys
  PROVE  /\ Refilled(BucketOf(k)) \in 0..Capacity
         /\ \A i \in 1..Len(grants[k]) :
              /\ grants[k][i] <= now
              /\ Refilled(BucketOf(k)) <= Slack(grants[k], i, now)
         /\ \/ Refilled(BucketOf(k)) = Capacity
            \/ \E i \in 1..Len(grants[k]) :
                 Refilled(BucketOf(k)) = Slack(grants[k], i, now)
<1> DEFINE b == BucketOf(k)
           g == grants[k]
<1>0. /\ now \in 0..MaxTime /\ MaxTime \in Nat
      /\ g \in Seq(0..MaxTime)
      /\ DOMAIN buckets \subseteq Keys
  BY RateAssumption DEF IInv, TypeOK
<1>a. \A i \in 1..Len(g) : g[i] \in Int /\ Slack(g, i, now) \in Int
  BY <1>0, CapacityFact, RateAssumption DEF Slack
<1>1. CASE k \notin DOMAIN buckets
  <2>1. g = <<>>
    BY <1>1 DEF IInv, Fresh
  <2>2. b = [tokens |-> Capacity, last |-> now]
    BY <1>1 DEF BucketOf
  <2>3. b \in [tokens : 0..Capacity, last : 0..MaxTime] /\ b.last <= now
    BY <2>2, <1>0, CapacityFact
  <2>4. Refilled(b) = Capacity
    BY <2>2, <1>0, CapacityFact, RateAssumption DEF Refilled
  <2> QED  BY <2>1, <2>4, CapacityFact
<1>2. CASE k \in DOMAIN buckets
  <2>1. b = buckets[k] /\ b \in [tokens : 0..Capacity, last : 0..MaxTime]
        /\ b.last <= now
    BY <1>2 DEF BucketOf, IInv, TypeOK
  <2>2. /\ Refilled(b) \in 0..Capacity
        /\ Refilled(b) <= b.tokens + (now - b.last) * Rate
        /\ \/ Refilled(b) = Capacity
           \/ Refilled(b) = b.tokens + (now - b.last) * Rate
    BY <2>1, <1>0, RefilledFact
  <2>3. ASSUME NEW i \in 1..Len(g)
        PROVE  /\ Slack(g, i, now)
                    = Slack(g, i, b.last) + (now - b.last) * Rate
               /\ Slack(g, i, b.last) \in Int
    <3>1. g[i] \in Int /\ now \in Int /\ b.last \in Int
      BY <1>0, <2>1
    <3>2. (now - b.last) * Rate + (b.last - g[i]) * Rate = (now - g[i]) * Rate
      BY <3>1, Spans
    <3>3. /\ (now - b.last) * Rate \in Int
          /\ (b.last - g[i]) * Rate \in Int
          /\ (Len(g) - i + 1) * Cost \in Int
          /\ Capacity \in Int
      BY <3>1, <1>0, CapacityFact, RateAssumption
    <3> QED  BY <3>2, <3>3 DEF Slack
  <2>4. \A i \in 1..Len(g) : b.tokens <= Slack(g, i, b.last) /\ g[i] <= b.last
    BY <1>2, <2>1 DEF IInv, Envelope, Past
  <2>5. \E i \in 1..Len(g) : b.tokens = Slack(g, i, b.last)
    BY <1>2, <2>1 DEF IInv, Tight
  <2>6. (now - b.last) * Rate \in Nat /\ b.tokens \in Nat
    BY <2>1, <1>0, RateAssumption, CapacityFact
  <2>7. ASSUME NEW i \in 1..Len(g)
        PROVE  g[i] <= now /\ Refilled(b) <= Slack(g, i, now)
    <3>1. g[i] <= now
      BY <2>1, <2>4, <1>0, <1>a
    <3>2. b.tokens <= Slack(g, i, b.last)
      BY <2>4
    <3> QED  BY <3>1, <3>2, <2>2, <2>3, <2>6, CapacityFact
  <2>8. \/ Refilled(b) = Capacity
        \/ \E i \in 1..Len(g) : Refilled(b) = Slack(g, i, now)
    BY <2>2, <2>3, <2>5
  <2> QED  BY <2>2, <2>7, <2>8
<1> QED  BY <1>1, <1>2

-----------------------------------------------------------------------------
\* The initial state satisfies the inductive invariant.
LEMMA InitIInv == Init => IInv
  BY RateAssumption, CapacityFact
  DEF Init, IInv, TypeOK, Fresh, Past, Envelope, Tight, WindowBound,
      RefusalJustified, NoCall

\* A granted call spends one token and adds one grant: every window loses
\* exactly that token, and the one beginning now has a full bucket less one.
LEMMA GrantKeeps ==
  ASSUME IInv, NEW k \in Keys, Grant(k)
  PROVE  IInv'
<1> DEFINE g == grants[k]
           T == Refilled(BucketOf(k))
           n == Len(grants[k])
<1>0. /\ now \in 0..MaxTime /\ MaxTime \in Nat
      /\ g \in Seq(0..MaxTime) /\ n \in Nat
      /\ DOMAIN buckets \subseteq Keys
      /\ Capacity \in Nat /\ Cost \in Nat \ {0} /\ Cost <= Capacity
      /\ Rate \in Nat
  BY RateAssumption, CapacityFact DEF IInv, TypeOK
<1>1. /\ T \in 0..Capacity /\ T >= Cost
      /\ \A i \in 1..n : g[i] <= now /\ T <= Slack(g, i, now)
      /\ T = Capacity \/ \E i \in 1..n : T = Slack(g, i, now)
  BY CallFact DEF Grant
<1>2. /\ grants' = [grants EXCEPT ![k] = Append(g, now)]
      /\ buckets' = [x \in DOMAIN buckets \cup {k} |->
                       IF x = k THEN [tokens |-> T - Cost, last |-> now]
                                ELSE buckets[x]]
      /\ now' = now
      /\ verdict' = [made |-> TRUE, key |-> k, at |-> now, ok |-> TRUE]
  BY DEF Grant, Store
<1>3. /\ grants'[k] = Append(g, now)
      /\ Len(grants'[k]) = n + 1
      /\ \A i \in 1..n : grants'[k][i] = g[i]
      /\ grants'[k][n + 1] = now
      /\ \A x \in Keys \ {k} : grants'[x] = grants[x]
      /\ grants' \in [Keys -> Seq(0..MaxTime)]
  BY <1>0, <1>2 DEF IInv, TypeOK
<1>4. /\ DOMAIN buckets' = DOMAIN buckets \cup {k}
      /\ buckets'[k] = [tokens |-> T - Cost, last |-> now]
      /\ \A x \in DOMAIN buckets \ {k} : buckets'[x] = buckets[x]
  BY <1>2
<1>5. ASSUME NEW i \in 1..n
      PROVE  /\ Slack(grants'[k], i, now) = Slack(g, i, now) - Cost
             /\ Slack(g, i, now) \in Int
  <2>1. g[i] \in Int
    BY <1>0
  <2>2. (n + 1 - i + 1) * Cost = (n - i + 1) * Cost + Cost
    BY <1>0
  <2> DEFINE credit == (now - g[i]) * Rate
             owed == (n - i + 1) * Cost
  <2>3. credit \in Int /\ owed \in Int
    BY <1>0, <2>1
  <2>4. Slack(g, i, now) = Capacity + credit - owed
    BY DEF Slack
  <2>5. Slack(grants'[k], i, now) = Capacity + credit - (owed + Cost)
    BY <1>3, <2>2 DEF Slack
  <2> HIDE DEF credit, owed
  <2> QED  BY <1>0, <2>3, <2>4, <2>5
<1>6. Slack(grants'[k], n + 1, now) = Capacity - Cost
  <2>1. (now - now) * Rate = 0 /\ (n + 1 - (n + 1) + 1) * Cost = Cost
    BY <1>0
  <2> QED  BY <1>0, <1>3, <2>1 DEF Slack
<1> HIDE DEF T
<1>7. TypeOK'
  <2>1. [tokens |-> T - Cost, last |-> now] \in
           [tokens : 0..Capacity, last : 0..MaxTime]
    BY <1>0, <1>1
  <2>2. /\ DOMAIN buckets' \subseteq Keys
        /\ buckets' \in [DOMAIN buckets' ->
                           [tokens : 0..Capacity, last : 0..MaxTime]]
        /\ \A x \in DOMAIN buckets' : buckets'[x].last <= now
    BY <1>0, <1>2, <1>4, <2>1 DEF IInv, TypeOK
  <2> QED  BY <1>0, <1>2, <1>3, <2>2 DEF TypeOK
<1>8. Fresh'
  BY <1>3, <1>4 DEF IInv, Fresh
<1>9. Past'
  <2> SUFFICES ASSUME NEW x \in DOMAIN buckets', NEW i \in 1..Len(grants'[x])
               PROVE  grants'[x][i] <= buckets'[x].last
    BY DEF Past
  <2>1. CASE x = k
    <3>1. buckets'[k].last = now /\ now <= now
      BY <1>0, <1>4
    <3>2. i \in 1..n \/ i = n + 1
      BY <2>1, <1>0, <1>3
    <3> QED  BY <2>1, <3>1, <3>2, <1>1, <1>3
  <2>2. CASE x # k
    BY <2>2, <1>0, <1>3, <1>4 DEF IInv, Past
  <2> QED  BY <2>1, <2>2
<1>10. Envelope'
  <2> SUFFICES ASSUME NEW x \in DOMAIN buckets', NEW i \in 1..Len(grants'[x])
               PROVE  buckets'[x].tokens
                        <= Slack(grants'[x], i, buckets'[x].last)
    BY DEF Envelope, Slack
  <2>1. CASE x = k
    <3>1. CASE i = n + 1
      BY <2>1, <3>1, <1>0, <1>1, <1>4, <1>6
    <3>2. CASE i \in 1..n
      BY <2>1, <3>2, <1>0, <1>1, <1>4, <1>5
    <3> QED  BY <2>1, <3>1, <3>2, <1>0, <1>3
  <2>2. CASE x # k
    BY <2>2, <1>0, <1>3, <1>4 DEF IInv, Envelope
  <2> QED  BY <2>1, <2>2
<1>11. Tight'
  <2> SUFFICES ASSUME NEW x \in DOMAIN buckets'
               PROVE  \E i \in 1..Len(grants'[x]) :
                        buckets'[x].tokens
                          = Slack(grants'[x], i, buckets'[x].last)
    BY DEF Tight, Slack
  <2>1. CASE x = k /\ T = Capacity
    BY <2>1, <1>0, <1>3, <1>4, <1>6
  <2>2. CASE x = k /\ \E i \in 1..n : T = Slack(g, i, now)
    <3>1. PICK i \in 1..n : T = Slack(g, i, now)
      BY <2>2
    <3>2. i \in 1..Len(grants'[k])
      BY <1>0, <1>3
    <3> QED  BY <2>2, <3>1, <3>2, <1>4, <1>5
  <2>3. CASE x # k
    BY <2>3, <1>0, <1>3, <1>4 DEF IInv, Tight
  <2> QED  BY <2>1, <2>2, <2>3, <1>1
<1>12. WindowBound'
  <2> SUFFICES ASSUME NEW x \in Keys, NEW j \in 1..Len(grants'[x]),
                      NEW i \in 1..j
               PROVE  (j - i + 1) * Cost
                        <= Capacity + (grants'[x][j] - grants'[x][i]) * Rate
    BY DEF WindowBound
  <2>1. CASE x # k
    BY <2>1, <1>3 DEF IInv, WindowBound
  <2>2. CASE x = k /\ j \in 1..n
    <3>1. i \in 1..n
      BY <2>2, <1>0
    <3> QED  BY <2>2, <3>1, <1>3 DEF IInv, WindowBound
  <2>3. CASE x = k /\ j = n + 1
    <3>1. 0 <= Slack(grants'[k], i, now)
      BY <2>3, <1>0, <1>1, <1>5, <1>6, SMTT(30)
    <3>2. i \in 1..(n + 1) /\ i \in Int
      BY <2>3, <1>0
    <3>3. \A m \in 1..n : g[m] \in Int
      BY <1>0
    <3>4. grants'[k][i] \in Int
      <4>1. CASE i = n + 1
        BY <4>1, <1>0, <1>3
      <4>2. CASE i \in 1..n
        BY <4>2, <1>3, <3>3
      <4> QED  BY <3>2, <4>1, <4>2, <1>0
    <3>5. (n + 1 - i + 1) * Cost \in Int /\ (now - grants'[k][i]) * Rate \in Int
      BY <3>2, <3>4, <1>0
    <3> DEFINE owed == (n + 1 - i + 1) * Cost
               credit == (now - grants'[k][i]) * Rate
    <3>a. Slack(grants'[k], i, now)
            = Capacity + credit - (Len(grants'[k]) - i + 1) * Cost
      BY DEF Slack
    <3>b. Len(grants'[k]) = n + 1 /\ n \in Int /\ i \in Int /\ now \in Int
      BY <1>0, <1>3, <3>2
    <3>6. Slack(grants'[k], i, now) = Capacity + credit - owed
      BY <3>a, <3>b
    <3>7. owed \in Int /\ credit \in Int
      BY <3>5
    <3> HIDE DEF owed, credit
    <3>8. owed <= Capacity + credit
      BY <3>1, <3>6, <3>7, <1>0
    <3>9. (n + 1 - i + 1) * Cost <= Capacity + (now - grants'[k][i]) * Rate
      BY <3>8 DEF owed, credit
    <3> QED  BY <2>3, <3>9, <1>3
  <2>4. x = k => j \in 1..(n + 1)
    BY <1>3
  <2>5. x = k => j \in 1..n \/ j = n + 1
    BY <2>4, <1>0
  <2> QED  BY <2>1, <2>2, <2>3, <2>5
<1>13. RefusalJustified'
  BY <1>2 DEF RefusalJustified
<1> QED  BY <1>7, <1>8, <1>9, <1>10, <1>11, <1>12, <1>13 DEF IInv

\* A refused call only writes the refilled tokens back; having less than one
\* token, the bucket is not full, so some window is used up.
LEMMA RefuseKeeps ==
  ASSUME IInv, NEW k \in Keys, Refuse(k)
  PROVE  IInv'
<1> DEFINE g == grants[k]
           T == Refilled(BucketOf(k))
           n == Len(grants[k])
<1>0. /\ now \in 0..MaxTime /\ MaxTime \in Nat
      /\ g \in Seq(0..MaxTime) /\ n \in Nat
      /\ DOMAIN buckets \subseteq Keys
      /\ Capacity \in Nat /\ Cost \in Nat \ {0} /\ Cost <= Capacity
      /\ Rate \in Nat
  BY RateAssumption, CapacityFact DEF IInv, TypeOK
<1>1. /\ T \in 0..Capacity /\ T < Cost
      /\ \A i \in 1..n : g[i] <= now /\ T <= Slack(g, i, now)
      /\ \E i \in 1..n : T = Slack(g, i, now)
  BY CallFact, <1>0 DEF Refuse
<1>2. /\ grants' = grants
      /\ buckets' = [x \in DOMAIN buckets \cup {k} |->
                       IF x = k THEN [tokens |-> T, last |-> now]
                                ELSE buckets[x]]
      /\ now' = now
      /\ verdict' = [made |-> TRUE, key |-> k, at |-> now, ok |-> FALSE]
  BY DEF Refuse, Store
<1>3. /\ DOMAIN buckets' = DOMAIN buckets \cup {k}
      /\ buckets'[k] = [tokens |-> T, last |-> now]
      /\ \A x \in DOMAIN buckets \ {k} : buckets'[x] = buckets[x]
  BY <1>2
<1> HIDE DEF T
<1>4. TypeOK'
  <2>1. [tokens |-> T, last |-> now] \in
           [tokens : 0..Capacity, last : 0..MaxTime]
    BY <1>0, <1>1
  <2>2. /\ DOMAIN buckets' \subseteq Keys
        /\ buckets' \in [DOMAIN buckets' ->
                           [tokens : 0..Capacity, last : 0..MaxTime]]
        /\ \A x \in DOMAIN buckets' : buckets'[x].last <= now
    BY <1>0, <1>2, <1>3, <2>1 DEF IInv, TypeOK
  <2> QED  BY <1>0, <1>2, <2>2 DEF IInv, TypeOK
<1>5. Fresh'
  BY <1>2, <1>3 DEF IInv, Fresh
<1>6. Past'
  BY <1>0, <1>1, <1>2, <1>3 DEF IInv, Past
<1>7. Envelope'
  <2> SUFFICES ASSUME NEW x \in DOMAIN buckets', NEW i \in 1..Len(grants[x])
               PROVE  buckets'[x].tokens
                        <= Slack(grants[x], i, buckets'[x].last)
    BY <1>2, ZenonT(60) DEF Envelope, Slack
  <2> QED  BY <1>1, <1>3 DEF IInv, Envelope
<1>8. Tight'
  <2> SUFFICES ASSUME NEW x \in DOMAIN buckets'
               PROVE  \E i \in 1..Len(grants[x]) :
                        buckets'[x].tokens
                          = Slack(grants[x], i, buckets'[x].last)
    BY <1>2 DEF Tight, Slack
  <2> QED  BY <1>1, <1>3 DEF IInv, Tight
<1>9. WindowBound'
  BY <1>2 DEF IInv, WindowBound
<1>10. RefusalJustified'
  <2>1. PICK i \in 1..n : T = Slack(g, i, now)
    BY <1>1
  <2>2. g[i] \in Int /\ i \in Int /\ n \in Int /\ now \in Int
    BY <1>0
  <2> DEFINE credit == (now - g[i]) * Rate
             owed == (n - i + 1) * Cost
  <2>3. credit \in Int /\ owed \in Int
    BY <1>0, <2>2
  <2>4. Slack(g, i, now) = Capacity + credit - owed
    BY DEF Slack
  <2>5. (n - i + 1 + 1) * Cost = owed + Cost
    BY <1>0, <2>2
  <2> HIDE DEF credit, owed
  <2>6. ~((n - i + 1 + 1) * Cost <= Capacity + credit)
    BY <1>0, <1>1, <2>1, <2>3, <2>4, <2>5
  <2>7. ~FitsSince(g, i, 1, now)
    BY <2>6 DEF FitsSince, credit
  <2> QED  BY <1>2, <2>7 DEF RefusalJustified, FitsSince
<1> QED  BY <1>4, <1>5, <1>6, <1>7, <1>8, <1>9, <1>10 DEF IInv

\* The passing of time changes no bucket and no history.
LEMMA TickKeeps ==
  ASSUME IInv, Tick
  PROVE  IInv'
<1>1. /\ now' = now + 1 /\ now' \in 0..MaxTime /\ now \in Int
      /\ UNCHANGED <<buckets, grants, verdict>>
  BY RateAssumption DEF IInv, TypeOK, Tick
<1>2. \A k \in DOMAIN buckets : buckets[k].last \in Int
  BY DEF IInv, TypeOK
<1>3. TypeOK'
  <2>1. \A k \in DOMAIN buckets : buckets[k].last <= now
    BY DEF IInv, TypeOK
  <2>2. \A k \in DOMAIN buckets' : buckets'[k].last <= now'
    BY <1>1, <1>2, <2>1
  <2>3. /\ DOMAIN buckets \subseteq Keys
        /\ buckets \in [DOMAIN buckets ->
                          [tokens : 0..Capacity, last : 0..MaxTime]]
        /\ grants \in [Keys -> Seq(0..MaxTime)]
        /\ verdict \in {NoCall} \cup
              [made : {TRUE}, key : Keys, at : 0..MaxTime, ok : BOOLEAN]
    BY DEF IInv, TypeOK
  <2> QED  BY <1>1, <2>2, <2>3 DEF TypeOK
<1>4. Fresh' /\ Past' /\ WindowBound'
  BY <1>1 DEF IInv, Fresh, Past, WindowBound
<1>5. Envelope' /\ Tight'
  BY <1>1 DEF IInv, Envelope, Tight, Slack
<1>6. RefusalJustified'
  BY <1>1 DEF IInv, RefusalJustified, FitsSince
<1> QED  BY <1>3, <1>4, <1>5, <1>6 DEF IInv

LEMMA StutterKeeps ==
  ASSUME IInv, UNCHANGED vars
  PROVE  IInv'
<1>1. UNCHANGED <<now, buckets, grants, verdict>>
  BY DEF vars
<1>2. TypeOK' /\ Fresh' /\ Past' /\ WindowBound'
  BY <1>1 DEF IInv, TypeOK, Fresh, Past, WindowBound
<1>3. Envelope' /\ Tight' /\ RefusalJustified'
  BY <1>1 DEF IInv, Envelope, Tight, Slack, RefusalJustified, FitsSince
<1> QED  BY <1>2, <1>3 DEF IInv

\* Every call of allow and every clock step preserves the invariant.
LEMMA StepKeeps == IInv /\ [Next]_vars => IInv'
<1> SUFFICES ASSUME IInv, [Next]_vars PROVE IInv'
  OBVIOUS
<1>1. CASE \E k \in Keys : Grant(k) \/ Refuse(k)
  BY <1>1, GrantKeeps, RefuseKeeps
<1>2. CASE Tick
  BY <1>2, TickKeeps
<1>3. CASE UNCHANGED vars
  BY <1>3, StutterKeeps
<1> QED  BY <1>1, <1>2, <1>3 DEF Next

-----------------------------------------------------------------------------
LEMMA Invariance == Spec => []IInv
<1> QED  BY InitIInv, StepKeeps, PTL DEF Spec

\* The variables of the limiter keep their types.
THEOREM TypeCorrect == Spec => []TypeOK
<1>1. IInv => TypeOK  BY DEF IInv
<1> QED  BY <1>1, Invariance, PTL

\* relay.go:62-66: no interval of time, for any host, any rate and any
\* interleaving of calls, sees more than the burst and the rate allow.
THEOREM LimiterBounds == Spec => []WindowBound
<1>1. IInv => WindowBound  BY DEF IInv
<1> QED  BY <1>1, Invariance, PTL

\* relay.go:56-67: a request is refused only when granting it would have
\* broken that bound, so the limiter is exactly its contract.
THEOREM LimiterTight == Spec => []RefusalJustified
<1>1. IInv => RefusalJustified  BY DEF IInv
<1> QED  BY <1>1, Invariance, PTL
=============================================================================
