----------------------------- MODULE RateLimiter -----------------------------
(***************************************************************************)
(* The per-host token bucket of fronter/relay.go (rateLimiter, 26-68),      *)
(* which Do consults before it does anything else (relay.go:198-201).       *)
(*                                                                         *)
(* allow runs from its first to its last line under rl.mu and reads the     *)
(* clock inside the lock, so one call is one action.  Time is a number of   *)
(* clock units; a bucket's float64 tokens are counted in Interval-ths of a  *)
(* token, which makes the refill elapsed * rate / interval exact: the       *)
(* rounding of float64 is abstracted.                                      *)
(***************************************************************************)
EXTENDS Integers, Sequences

CONSTANTS
  Keys,       \* the hosts requests are addressed to
  Rate,       \* rl.rate: tokens a bucket holds, and gains per Interval
  Interval,   \* rl.interval, in clock units
  MaxTime     \* bound: the clock stops here

ASSUME RateAssumption ==
  /\ Rate \in Nat \ {0}
  /\ Interval \in Nat \ {0}
  /\ MaxTime \in Nat

VARIABLES
  now,        \* time.Now()
  buckets,    \* rl.buckets: a function on the hosts seen so far
  grants,     \* history: the times at which each host was let through
  verdict     \* history: the latest call and what it returned

vars == <<now, buckets, grants, verdict>>

\* One token, and a full bucket, in the scaled unit.
Cost == Interval
Capacity == Rate * Interval

NoCall == [made |-> FALSE]

TypeOK ==
  /\ now \in 0..MaxTime
  /\ DOMAIN buckets \subseteq Keys
  /\ buckets \in [DOMAIN buckets -> [tokens : 0..Capacity, last : 0..MaxTime]]
  /\ \A k \in DOMAIN buckets : buckets[k].last <= now
  /\ grants \in [Keys -> Seq(0..MaxTime)]
  /\ verdict \in {NoCall} \cup
        [made : {TRUE}, key : Keys, at : 0..MaxTime, ok : BOOLEAN]

-----------------------------------------------------------------------------
\* The bucket a call finds: a host never seen starts full.
BucketOf(k) ==
  IF k \in DOMAIN buckets THEN buckets[k]
                          ELSE [tokens |-> Capacity, last |-> now]

\* Fault: the refill is not capped at a full bucket.
RefilledUncapped(b) == b.tokens + (now - b.last) * Rate

\* Fault: the refill is rounded down to whole tokens, so that each refused
\* call throws a fraction away.
RefilledWhole(b) ==
  LET t == b.tokens + (((now - b.last) * Rate) \div Interval) * Interval
  IN  IF t > Capacity THEN Capacity ELSE t

\* Its tokens after the refill for the time since its last call, capped.
Refilled(b) ==
  LET t == b.tokens + (now - b.last) * Rate
  IN  IF t > Capacity THEN Capacity ELSE t

\* Fault: b.last is not advanced, so the same time is credited twice.
StoreKeepingLast(k, tokens) ==
  buckets' = [x \in DOMAIN buckets \cup {k} |->
                 IF x = k THEN [tokens |-> tokens, last |-> BucketOf(k).last]
                          ELSE buckets[x]]

\* b.tokens and b.last are written back, whatever the answer.
Store(k, tokens) ==
  buckets' = [x \in DOMAIN buckets \cup {k} |->
                 IF x = k THEN [tokens |-> tokens, last |-> now]
                          ELSE buckets[x]]

Init ==
  /\ now = 0
  /\ buckets = [k \in {} |-> [tokens |-> 0, last |-> 0]]
  /\ grants = [k \in Keys |-> <<>>]
  /\ verdict = NoCall

\* allow(k) with at least one token: spend it.
Grant(k) ==
  /\ Refilled(BucketOf(k)) >= Cost
  /\ Store(k, Refilled(BucketOf(k)) - Cost)
  /\ grants' = [grants EXCEPT ![k] = Append(@, now)]
  /\ verdict' = [made |-> TRUE, key |-> k, at |-> now, ok |-> TRUE]
  /\ UNCHANGED now

\* allow(k) without a whole token: keep the fraction.
Refuse(k) ==
  /\ Refilled(BucketOf(k)) < Cost
  /\ Store(k, Refilled(BucketOf(k)))
  /\ verdict' = [made |-> TRUE, key |-> k, at |-> now, ok |-> FALSE]
  /\ UNCHANGED <<now, grants>>

Tick ==
  /\ now < MaxTime
  /\ now' = now + 1
  /\ UNCHANGED <<buckets, grants, verdict>>

Next ==
  \/ \E k \in Keys : Grant(k) \/ Refuse(k)
  \/ Tick

Spec == Init /\ [][Next]_vars

-----------------------------------------------------------------------------
(* What the limiter promises, said of the history alone.                    *)

\* The requests let through from the i-th grant on, were one more let
\* through at time t, would they still fit a burst of Rate plus Rate per
\* Interval?
FitsSince(g, i, extra, t) ==
  (Len(g) - i + 1 + extra) * Cost <= Capacity + (t - g[i]) * Rate

\* No window, wherever it starts and however calls of several hosts fall in
\* it, lets through more than a burst of Rate and Rate per Interval.
WindowBound ==
  \A k \in Keys : \A j \in 1..Len(grants[k]) : \A i \in 1..j :
    (j - i + 1) * Cost <= Capacity + (grants[k][j] - grants[k][i]) * Rate

\* A request is turned away only when letting it through would have broken
\* that bound for some window: tokens are never lost, whatever the pattern
\* of refused calls in between (each of which rewrites tokens and last).
RefusalJustified ==
  (verdict.made /\ ~verdict.ok) =>
    \E i \in 1..Len(grants[verdict.key]) :
      ~FitsSince(grants[verdict.key], i, 1, verdict.at)
=============================================================================
