--------------------------- MODULE ScriptPoolProofs ---------------------------
(***************************************************************************)
(* Proofs about the script pool, for every set of scripts, every list of    *)
(* deployment ids, every number of requests and every BlacklistFor.         *)
(*                                                                         *)
(* A request's loop is covered (Covered): each slot is still to be done, or *)
(* its script was asked, or was excused.  That an excuse is honest follows  *)
(* from Dated: an entry of the blacklist that is in force was made for an   *)
(* error younger than BlacklistFor.  Two more invariants rest on these:     *)
(* what a request has asked is a slot it has left behind (Asked), and where  *)
(* no target and no key is at fault, a script that failed for good was out   *)
(* of quota (OwnFault).                                                    *)
(***************************************************************************)
EXTENDS ScriptPool, TLAPS

\* A process that waits for, or has, an answer is at a slot of its loop, and
\* a request has been noted as having asked that slot's script.
InLoop ==
  \A p \in Procs : pc[p] \in {"wait", "settle"} =>
    /\ at[p] \in Slots
    /\ p \in Reqs => ids[at[p]] \in tried[p]

\* Only a request that has ended has a result.
Pending ==
  \A r \in Reqs : pc[r] # "done" => result[r] = "none"

Covered ==
  \A r \in Reqs :
    (Kind[r] # "single" /\ pc[r] \in {"send", "wait", "settle"}) =>
      \A i \in Slots : i \in todo[r] \/ ids[i] \in tried[r] \cup excused[r]

Dated ==
  \A s \in Scripts :
    /\ lastPerm[s] <= now
    /\ Blacklisted(s) => /\ lastPerm[s] # Never
                         /\ blacklist[s] <= lastPerm[s] + BlacklistFor

IInv ==
  /\ TypeOK
  /\ InLoop
  /\ Pending
  /\ Covered
  /\ Dated
  /\ FailureJustified
  /\ NeverDry
  /\ BlacklistPersists

-----------------------------------------------------------------------------
\* A script in force on the blacklist has failed for good lately.
LEMMA BlacklistedMisbehaved ==
  ASSUME IInv, NEW s \in Scripts, Blacklisted(s)
  PROVE  s \in Misbehaved
<1>1. /\ now \in Int /\ BlacklistFor \in Int
      /\ blacklist[s] \in Int /\ lastPerm[s] \in Int
  BY PoolAssumption DEF IInv, TypeOK, Never
<1> QED  BY <1>1 DEF IInv, Dated, Blacklisted, Misbehaved

LEMMA InitIInv == Init => IInv
<1> SUFFICES ASSUME Init PROVE IInv
  OBVIOUS
<1>1. TypeOK
  <2>1. ids \in Seq(Scripts)
    BY PoolAssumption DEF Init
  <2>2. /\ now \in 0..MaxTime
        /\ blacklist \in [Scripts -> 0..(MaxTime + BlacklistFor)]
        /\ devAvailable \in BOOLEAN
    <3>1. 0 \in 0..MaxTime /\ 0 \in 0..(MaxTime + BlacklistFor)
      BY PoolAssumption
    <3> QED  BY <3>1 DEF Init
  <2>3. /\ pc \in [Procs -> {"idle", "send", "wait", "settle", "done"}]
        /\ todo \in [Procs -> SUBSET Slots]
        /\ at \in [Procs -> {0} \cup Slots]
        /\ dev \in [Procs -> BOOLEAN]
        /\ answer \in [Procs -> {"none", "ok", "transient", "permanent"}]
        /\ result \in [Reqs -> {"none", "ok", "failed", "noids", "limited"}]
    BY DEF Init
  <2>4. /\ tried \in [Reqs -> SUBSET Scripts]
        /\ excused \in [Reqs -> SUBSET Scripts]
        /\ lastPerm \in [Scripts -> {Never} \cup 0..MaxTime]
        /\ cleared \subseteq Scripts
        /\ ills \in [Scripts -> SUBSET (Conds \ {"up"})]
    BY DEF Init
  <2> QED  BY <2>1, <2>2, <2>3, <2>4 DEF TypeOK
<1>2. InLoop /\ Pending /\ Covered
  BY DEF Init, InLoop, Pending, Covered, Procs
<1>3. Dated
  BY DEF Init, Dated, Blacklisted, Never
<1>4. FailureJustified /\ NeverDry
  BY DEF Init, FailureJustified, NeverDry
<1>5. BlacklistPersists
  BY DEF Init, BlacklistPersists, Misbehaved
<1> QED  BY <1>1, <1>2, <1>3, <1>4, <1>5 DEF IInv

\* A request refused by the limiter has asked nothing and failed at nothing.
LEMMA LimitedKeeps ==
  ASSUME IInv, NEW r \in Reqs, Limited(r)
  PROVE  IInv'
<1> USE DEF poolVars, histVars
<1>1. TypeOK'
  BY DEF IInv, TypeOK, Limited, Procs, Slots
<1>2. InLoop' /\ Pending' /\ Covered'
  BY DEF IInv, TypeOK, InLoop, Pending, Covered, Limited, Procs, Slots
<1>3. Dated' /\ BlacklistPersists'
  BY DEF IInv, Dated, BlacklistPersists, Limited, Blacklisted, Misbehaved
<1>4. FailureJustified' /\ NeverDry'
  <2>1. /\ UNCHANGED <<ids, tried, excused>>
        /\ \A x \in Reqs : \/ result'[x] = result[x]
                           \/ result'[x] \notin {"failed", "noids"}
    BY DEF IInv, TypeOK, Limited
  <2>2. FailureJustified'
    BY <2>1 DEF IInv, FailureJustified, Configured, Slots
  <2>3. NeverDry'
    BY <2>1 DEF IInv, NeverDry, Configured, Slots
  <2> QED  BY <2>2, <2>3
<1> QED  BY <1>1, <1>2, <1>3, <1>4 DEF IInv

\* Without candidates there is no slot at all.
LEMMA GetNoIDsKeeps ==
  ASSUME IInv, NEW r \in Reqs, GetNoIDs(r)
  PROVE  IInv'
<1> USE DEF poolVars, histVars
<1>1. TypeOK'
  BY DEF IInv, TypeOK, GetNoIDs, Procs, Slots
<1>2. InLoop' /\ Pending' /\ Covered'
  BY DEF IInv, TypeOK, InLoop, Pending, Covered, GetNoIDs, Procs, Slots
<1>3. Dated' /\ BlacklistPersists'
  BY DEF IInv, Dated, BlacklistPersists, GetNoIDs, Blacklisted, Misbehaved
<1>4. Slots = {} /\ Configured = {}
  BY DEF GetNoIDs, Candidates, Healthy, Configured
<1>5. FailureJustified' /\ NeverDry'
  BY <1>4 DEF IInv, TypeOK, FailureJustified, NeverDry, GetNoIDs,
              Configured, Slots
<1> QED  BY <1>1, <1>2, <1>3, <1>5 DEF IInv

\* A slot left out of the candidates is blacklisted, hence excused; and no
\* entry in force is deleted.
LEMMA GetIDsKeeps ==
  ASSUME IInv, NEW r \in Reqs, GetIDs(r)
  PROVE  IInv'
<1>0. /\ now \in Nat /\ BlacklistFor \in Nat
      /\ \A s \in Scripts : blacklist[s] \in Nat /\ lastPerm[s] \in Int
      /\ \A i \in Slots : ids[i] \in Scripts
      /\ Candidates \subseteq Slots
  BY PoolAssumption
  DEF IInv, TypeOK, Never, Slots, Candidates, Healthy
<1>1. TypeOK'
  <2>1. First(Candidates) \subseteq Slots
    BY <1>0 DEF First
  <2>2. blacklist' \in [Scripts -> 0..(MaxTime + BlacklistFor)]
    BY PoolAssumption DEF IInv, TypeOK, GetIDs, Kept
  <2>3. Misbehaved \subseteq Scripts
    BY DEF Misbehaved
  <2> QED  BY <1>0, <2>1, <2>2, <2>3 DEF IInv, TypeOK, GetIDs, Procs, Slots
<1>2. InLoop' /\ Pending'
  BY DEF IInv, TypeOK, InLoop, Pending, GetIDs, Procs, Slots
<1>3. Covered'
  <2>1. \A i \in Slots : i \in Candidates \/ ids[i] \in Misbehaved
    BY <1>0, BlacklistedMisbehaved DEF Candidates, Healthy
  <2>2. /\ pc' = [pc EXCEPT ![r] = "send"]
        /\ Kind[r] # "single" => todo'[r] = Candidates
        /\ \A x \in Reqs \ {r} : /\ todo'[x] = todo[x]
                                 /\ excused'[x] = excused[x]
        /\ excused'[r] = Misbehaved
        /\ UNCHANGED <<ids, tried>>
    BY DEF IInv, TypeOK, GetIDs, Procs
  <2> QED  BY <2>1, <2>2 DEF IInv, TypeOK, Covered, Slots, Procs
<1>4. \A s \in Scripts : Blacklisted(s) => blacklist'[s] = blacklist[s]
  BY <1>0 DEF GetIDs, Kept, Expired, Blacklisted, IInv, TypeOK
<1>5. \A s \in Scripts : blacklist'[s] = blacklist[s] \/ blacklist'[s] = 0
  BY <1>0 DEF GetIDs, Kept, IInv, TypeOK
<1>6. Dated'
  BY <1>0, <1>5 DEF IInv, Dated, Blacklisted, GetIDs
<1>7. BlacklistPersists'
  <2>1. SUFFICES ASSUME NEW s \in Scripts \ cleared, s \in Misbehaved
                 PROVE  blacklist'[s] = lastPerm[s] + BlacklistFor
    BY DEF BlacklistPersists, GetIDs, Misbehaved
  <2>2. blacklist[s] = lastPerm[s] + BlacklistFor
    BY <2>1 DEF IInv, BlacklistPersists
  <2>3. Blacklisted(s)
    BY <2>1, <2>2 DEF Misbehaved, Blacklisted
  <2> QED  BY <1>4, <2>2, <2>3
<1>8. FailureJustified' /\ NeverDry'
  <2>1. /\ UNCHANGED <<ids, result, tried>>
        /\ \A x \in Reqs \ {r} : excused'[x] = excused[x]
    BY DEF IInv, TypeOK, GetIDs
  <2>2. result[r] = "none"
    BY DEF IInv, Pending, GetIDs
  <2>3. FailureJustified'
    BY <2>1, <2>2 DEF IInv, FailureJustified, Configured, Slots
  <2>4. NeverDry'
    BY <2>1 DEF IInv, NeverDry, Configured, Slots
  <2> QED  BY <2>3, <2>4
<1> QED  BY <1>1, <1>2, <1>3, <1>6, <1>7, <1>8 DEF IInv

\* The health checker starts a round: requests are not concerned.
LEMMA HealthTickKeeps ==
  ASSUME IInv, HealthTick
  PROVE  IInv'
<1> USE DEF poolVars, histVars
<1>0. \A r \in Reqs : r # Health
  BY PoolAssumption
<1>1. TypeOK'
  BY DEF IInv, TypeOK, HealthTick, Procs, Slots
<1>2. InLoop' /\ Pending' /\ Covered'
  BY <1>0 DEF IInv, TypeOK, InLoop, Pending, Covered, HealthTick, Procs, Slots
<1>3. Dated' /\ BlacklistPersists'
  BY DEF IInv, Dated, BlacklistPersists, HealthTick, Blacklisted, Misbehaved
<1>4. FailureJustified' /\ NeverDry'
  BY DEF IInv, FailureJustified, NeverDry, HealthTick, Configured, Slots
<1> QED  BY <1>1, <1>2, <1>3, <1>4 DEF IInv

\* Asking a script only adds to what its request has tried.
LEMMA SendKeeps ==
  ASSUME IInv, NEW p \in Procs, Send(p)
  PROVE  IInv'
<1> USE DEF poolVars
<1>1. PICK i \in First(todo[p]) :
        /\ at' = [at EXCEPT ![p] = i]
        /\ tried' = [r \in Reqs |->
                      IF r = p THEN tried[r] \cup {ids[i]} ELSE tried[r]]
  BY DEF Send
<1>2. i \in Slots /\ ids[i] \in Scripts
  BY <1>1 DEF IInv, TypeOK, First, Slots
<1>3. \E d \in BOOLEAN : dev' = [dev EXCEPT ![p] = d]
  BY DEF Send, DevSeen, IInv, TypeOK
<1>4. /\ pc' = [pc EXCEPT ![p] = "wait"]
      /\ UNCHANGED <<ids, now, todo, answer, result, blacklist, devAvailable,
                     excused, lastPerm, cleared, ills>>
      /\ pc[p] = "send"
  BY DEF Send
<1>5. tried' \in [Reqs -> SUBSET Scripts]
  BY <1>1, <1>2 DEF IInv, TypeOK
<1>6. TypeOK'
  BY <1>1, <1>2, <1>3, <1>4, <1>5 DEF IInv, TypeOK, Slots
<1>7. \A r \in Reqs : tried[r] \subseteq tried'[r]
  BY <1>1
<1>8. InLoop'
  <2> SUFFICES ASSUME NEW q \in Procs, pc'[q] \in {"wait", "settle"}
               PROVE  /\ at'[q] \in Slots
                      /\ q \in Reqs => ids[at'[q]] \in tried'[q]
    BY <1>4 DEF InLoop, Slots
  <2>1. CASE q = p
    BY <2>1, <1>1, <1>2 DEF IInv, TypeOK
  <2>2. CASE q # p
    <3>1. pc[q] = pc'[q] /\ at'[q] = at[q]
      BY <2>2, <1>1, <1>4 DEF IInv, TypeOK
    <3>2. at[q] \in Slots /\ (q \in Reqs => ids[at[q]] \in tried[q])
      BY <3>1 DEF IInv, InLoop
    <3> QED  BY <3>1, <3>2, <1>7
  <2> QED  BY <2>1, <2>2
<1>9. Pending'
  BY <1>4 DEF IInv, TypeOK, Pending, Procs
<1>10. Covered'
  <2> SUFFICES ASSUME NEW r \in Reqs, Kind[r] # "single",
                      pc'[r] \in {"send", "wait", "settle"}, NEW j \in Slots
               PROVE  j \in todo[r] \/ ids[j] \in tried'[r] \cup excused[r]
    BY <1>4 DEF Covered, Slots
  <2>1. pc[r] \in {"send", "wait", "settle"}
    BY <1>4 DEF IInv, TypeOK, Procs
  <2> QED  BY <2>1, <1>7 DEF IInv, Covered
<1>11. Dated' /\ BlacklistPersists'
  BY <1>4 DEF IInv, Dated, BlacklistPersists, Blacklisted, Misbehaved
<1>12. FailureJustified' /\ NeverDry'
  BY <1>4, <1>7 DEF IInv, FailureJustified, NeverDry, Configured, Slots
<1> QED  BY <1>6, <1>8, <1>9, <1>10, <1>11, <1>12 DEF IInv

\* An answer changes the position of its process and the latch.
LEMMA AnswerKeeps ==
  ASSUME IInv, NEW p \in Procs, AnswerTransient(p) \/ AnswerJSON(p)
  PROVE  IInv'
<1>1. PICK c \in Conds : AnswerIn(p, c)
  BY DEF AnswerTransient, AnswerJSON
<1>2. /\ pc[p] = "wait" /\ pc' = [pc EXCEPT ![p] = "settle"]
      /\ UNCHANGED <<ids, now, todo, at, dev, result, blacklist,
                     tried, excused, lastPerm, cleared>>
  BY <1>1 DEF AnswerIn
<1>3. ills' \in [Scripts -> SUBSET (Conds \ {"up"})]
  BY <1>1 DEF IInv, TypeOK, AnswerIn
<1>4. /\ answer' \in [Procs -> {"none", "ok", "transient", "permanent"}]
      /\ devAvailable' \in BOOLEAN
  BY DEF AnswerTransient, AnswerJSON, IInv, TypeOK
<1>5. TypeOK'
  BY <1>2, <1>3, <1>4 DEF IInv, TypeOK, Slots
<1>6. InLoop' /\ Pending' /\ Covered'
  BY <1>2 DEF IInv, TypeOK, InLoop, Pending, Covered, Procs, Slots
<1>7. Dated' /\ BlacklistPersists'
  BY <1>2 DEF IInv, Dated, BlacklistPersists, Blacklisted, Misbehaved
<1>8. FailureJustified' /\ NeverDry'
  BY <1>2 DEF IInv, FailureJustified, NeverDry, Configured, Slots
<1> QED  BY <1>5, <1>6, <1>7, <1>8 DEF IInv

\* A request that succeeds has not failed.
LEMMA SucceedKeeps ==
  ASSUME IInv, NEW r \in Reqs, Succeed(r)
  PROVE  IInv'
<1> USE DEF poolVars, histVars
<1>1. TypeOK'
  BY DEF IInv, TypeOK, Succeed, Procs, Slots
<1>2. InLoop' /\ Pending' /\ Covered'
  BY DEF IInv, TypeOK, InLoop, Pending, Covered, Succeed, Procs, Slots
<1>3. Dated' /\ BlacklistPersists'
  BY DEF IInv, Dated, BlacklistPersists, Succeed, Blacklisted, Misbehaved
<1>4. FailureJustified' /\ NeverDry'
  <2>1. /\ UNCHANGED <<ids, tried, excused>>
        /\ \A x \in Reqs : \/ result'[x] = result[x]
                           \/ result'[x] \notin {"failed", "noids"}
    BY DEF IInv, TypeOK, Succeed
  <2>2. FailureJustified'
    BY <2>1 DEF IInv, FailureJustified, Configured, Slots
  <2>3. NeverDry'
    BY <2>1 DEF IInv, NeverDry, Configured, Slots
  <2> QED  BY <2>2, <2>3
<1> QED  BY <1>1, <1>2, <1>3, <1>4 DEF IInv

-----------------------------------------------------------------------------
\* What the end of a turn of the loop does to the loops: the slot that is
\* struck off has been asked, so the loop stays covered; and when it was the
\* last one, every script was asked or excused.
LEMMA AdvanceFact ==
  ASSUME IInv, NEW p \in Procs, pc[p] = "settle", Advance(p),
         UNCHANGED <<ids, tried, excused>>
  PROVE  /\ InLoop' /\ Pending' /\ Covered'
         /\ FailureJustified' /\ NeverDry'
         /\ pc' \in [Procs -> {"idle", "send", "wait", "settle", "done"}]
         /\ todo' \in [Procs -> SUBSET Slots]
         /\ at' \in [Procs -> {0} \cup Slots]
         /\ dev' \in [Procs -> BOOLEAN]
         /\ answer' \in [Procs -> {"none", "ok", "transient", "permanent"}]
         /\ result' \in [Reqs -> {"none", "ok", "failed", "noids", "limited"}]
<1>0. \A r \in Reqs : r # Health /\ r \in Procs
  BY PoolAssumption DEF Procs
<1>1. /\ at[p] \in Slots
      /\ p \in Reqs => ids[at[p]] \in tried[p]
  BY DEF IInv, InLoop
<1>2. /\ pc' \in [Procs -> {"idle", "send", "wait", "settle", "done"}]
      /\ todo' \in [Procs -> SUBSET Slots]
      /\ at' \in [Procs -> {0} \cup Slots]
      /\ dev' \in [Procs -> BOOLEAN]
      /\ answer' \in [Procs -> {"none", "ok", "transient", "permanent"}]
      /\ result' \in [Reqs -> {"none", "ok", "failed", "noids", "limited"}]
  BY DEF IInv, TypeOK, Advance
<1>3. /\ \A q \in Procs \ {p} : /\ pc'[q] = pc[q]
                                /\ at'[q] = at[q]
                                /\ todo'[q] = todo[q]
      /\ \A r \in Reqs \ {p} : result'[r] = result[r]
      /\ todo'[p] = todo[p] \ {at[p]}
      /\ pc'[p] \in {"send", "idle", "done"}
  BY DEF IInv, TypeOK, Advance
<1>4. InLoop'
  BY <1>3 DEF IInv, InLoop, Slots
<1>5. p \in Reqs =>
        \/ pc'[p] = "send" /\ result'[p] = result[p]
        \/ pc'[p] = "done" /\ result'[p] = "failed" /\ todo[p] = {at[p]}
  BY <1>0 DEF IInv, TypeOK, Advance
<1>6. Pending'
  <2> SUFFICES ASSUME NEW r \in Reqs, pc'[r] # "done"
               PROVE  result'[r] = "none"
    BY DEF Pending
  <2>1. CASE r = p
    BY <2>1, <1>5 DEF IInv, Pending
  <2>2. CASE r # p
    BY <2>2, <1>0, <1>3 DEF IInv, Pending
  <2> QED  BY <2>1, <2>2
<1>7. Covered'
  <2> SUFFICES ASSUME NEW r \in Reqs, Kind[r] # "single",
                      pc'[r] \in {"send", "wait", "settle"}, NEW j \in Slots
               PROVE  j \in todo'[r] \/ ids[j] \in tried[r] \cup excused[r]
    BY DEF Covered, Slots
  <2>1. CASE r = p
    <3>1. j \in todo[p] \/ ids[j] \in tried[p] \cup excused[p]
      BY <2>1 DEF IInv, Covered
    <3> QED  BY <2>1, <3>1, <1>1, <1>3
  <2>2. CASE r # p
    BY <2>2, <1>0, <1>3 DEF IInv, Covered
  <2> QED  BY <2>1, <2>2
<1>8. FailureJustified'
  <2> SUFFICES ASSUME NEW r \in Reqs, Kind[r] # "single",
                      result'[r] = "failed", NEW j \in Slots
               PROVE  ids[j] \in tried[r] \cup excused[r]
    BY DEF FailureJustified, Configured, Slots
  <2>1. CASE r = p
    <3>1. j \in todo[p] \/ ids[j] \in tried[p] \cup excused[p]
      BY <2>1 DEF IInv, Covered
    <3>2. result[p] = "none"
      BY <2>1 DEF IInv, Pending
    <3>3. todo[p] = {at[p]}
      BY <2>1, <3>2, <1>5
    <3> QED  BY <2>1, <3>1, <3>3, <1>1
  <2>2. CASE r # p
    BY <2>2, <1>3 DEF IInv, FailureJustified, Configured
  <2> QED  BY <2>1, <2>2
<1>9. NeverDry'
  <2> SUFFICES ASSUME NEW r \in Reqs, result'[r] \in {"failed", "noids"},
                      tried[r] = {}
               PROVE  Configured = {}
    BY DEF NeverDry, Configured, Slots
  <2> QED  BY <1>1, <1>3 DEF IInv, NeverDry
<1> QED  BY <1>2, <1>4, <1>6, <1>7, <1>8, <1>9

\* An error that blacklists nobody.
LEMMA FailKeeps ==
  ASSUME IInv, NEW p \in Procs, Fail(p)
  PROVE  IInv'
<1>1. /\ pc[p] = "settle" /\ Advance(p)
      /\ UNCHANGED <<ids, now, blacklist, devAvailable, tried, excused,
                     lastPerm, cleared, ills>>
  BY DEF Fail, poolVars, histVars
<1>2. TypeOK'
  BY <1>1, AdvanceFact DEF IInv, TypeOK, Slots
<1>3. Dated' /\ BlacklistPersists'
  BY <1>1 DEF IInv, Dated, BlacklistPersists, Blacklisted, Misbehaved
<1> QED  BY <1>1, <1>2, <1>3, AdvanceFact DEF IInv

\* A new entry runs for the whole term from now on, whatever it replaces.
LEMMA FailForGoodKeeps ==
  ASSUME IInv, NEW p \in Procs, FailForGood(p)
  PROVE  IInv'
<1> DEFINE s == ids[at[p]]
<1>1. /\ pc[p] = "settle" /\ Advance(p) /\ Blacklist(s)
      /\ UNCHANGED <<ids, now, devAvailable, tried, excused, ills>>
  BY DEF FailForGood
<1>2. s \in Scripts
  BY <1>1 DEF IInv, InLoop, TypeOK, Slots
<1>3. /\ now \in 0..MaxTime /\ MaxTime \in Nat /\ BlacklistFor \in Nat \ {0}
      /\ \A x \in Scripts : blacklist[x] \in Nat /\ lastPerm[x] \in Int
  BY PoolAssumption DEF IInv, TypeOK, Never
<1>4. /\ blacklist' = [blacklist EXCEPT ![s] = now + BlacklistFor]
      /\ lastPerm' = [lastPerm EXCEPT ![s] = now]
      /\ cleared' = cleared \ {s}
  BY <1>1 DEF Blacklist
<1> HIDE DEF s
<1>5. /\ blacklist' \in [Scripts -> 0..(MaxTime + BlacklistFor)]
      /\ lastPerm' \in [Scripts -> {Never} \cup 0..MaxTime]
      /\ cleared' \subseteq Scripts
  BY <1>2, <1>3, <1>4 DEF IInv, TypeOK
<1>6. TypeOK'
  BY <1>1, <1>5, AdvanceFact DEF IInv, TypeOK, Slots
<1>7. /\ blacklist'[s] = now + BlacklistFor /\ lastPerm'[s] = now
      /\ \A x \in Scripts \ {s} : /\ blacklist'[x] = blacklist[x]
                                  /\ lastPerm'[x] = lastPerm[x]
  BY <1>2, <1>4 DEF IInv, TypeOK
<1>8. Dated'
  <2> SUFFICES ASSUME NEW x \in Scripts
               PROVE  /\ lastPerm'[x] <= now
                      /\ now < blacklist'[x] =>
                           /\ lastPerm'[x] # Never
                           /\ blacklist'[x] <= lastPerm'[x] + BlacklistFor
    BY <1>1 DEF Dated, Blacklisted
  <2>1. CASE x = s
    BY <2>1, <1>3, <1>7 DEF Never
  <2>2. CASE x # s
    BY <2>2, <1>7 DEF IInv, Dated, Blacklisted
  <2> QED  BY <2>1, <2>2
<1>9. BlacklistPersists'
  BY <1>1, <1>4, <1>7 DEF IInv, BlacklistPersists, Misbehaved
<1> QED  BY <1>1, <1>6, <1>8, <1>9, AdvanceFact DEF IInv

\* An entry is deleted together with the claim that it must be there.
LEMMA HealthOkPreserves ==
  ASSUME IInv, HealthOk
  PROVE  IInv'
<1> DEFINE s == ids[at[Health]]
<1>0. Health \in Procs
  BY DEF Procs
<1>1. /\ pc[Health] = "settle" /\ Advance(Health)
      /\ blacklist' = [blacklist EXCEPT ![s] = 0]
      /\ cleared' = cleared \cup {s}
      /\ UNCHANGED <<ids, now, devAvailable, tried, excused, lastPerm, ills>>
  BY DEF HealthOk
<1>2. s \in Scripts
  BY <1>0, <1>1 DEF IInv, InLoop, TypeOK, Slots
<1>3. now \in Nat /\ MaxTime + BlacklistFor \in Nat
  BY PoolAssumption DEF IInv, TypeOK
<1> HIDE DEF s
<1>4. TypeOK'
  <2>1. /\ blacklist' \in [Scripts -> 0..(MaxTime + BlacklistFor)]
        /\ cleared' \subseteq Scripts
    BY <1>1, <1>2, <1>3 DEF IInv, TypeOK
  <2> QED  BY <1>0, <1>1, <2>1, AdvanceFact DEF IInv, TypeOK, Slots
<1>5. Dated'
  BY <1>1, <1>2, <1>3 DEF IInv, TypeOK, Dated, Blacklisted
<1>6. BlacklistPersists'
  BY <1>1, <1>2 DEF IInv, TypeOK, BlacklistPersists, Misbehaved
<1> QED  BY <1>0, <1>1, <1>4, <1>5, <1>6, AdvanceFact DEF IInv

\* Time passes: entries only go out of force.
LEMMA TickKeeps ==
  ASSUME IInv, Tick
  PROVE  IInv'
<1> USE DEF procVars, poolVars, histVars
<1>1. /\ now' = now + 1 /\ now' \in 0..MaxTime /\ now \in Int
      /\ UNCHANGED <<ids, pc, todo, at, dev, answer, result, blacklist,
                     devAvailable, tried, excused, lastPerm, cleared, ills>>
      /\ BlacklistFor \in Int
      /\ \A s \in Scripts : blacklist[s] \in Int /\ lastPerm[s] \in Int
  BY PoolAssumption DEF IInv, TypeOK, Tick, Never
<1>2. TypeOK'
  BY <1>1 DEF IInv, TypeOK, Slots
<1>3. InLoop' /\ Pending' /\ Covered'
  BY <1>1 DEF IInv, InLoop, Pending, Covered, Slots
<1>4. Dated' /\ BlacklistPersists'
  BY <1>1 DEF IInv, Dated, BlacklistPersists, Blacklisted, Misbehaved
<1>5. FailureJustified' /\ NeverDry'
  BY <1>1 DEF IInv, FailureJustified, NeverDry, Configured, Slots
<1> QED  BY <1>2, <1>3, <1>4, <1>5 DEF IInv

LEMMA StutterKeeps ==
  ASSUME IInv, UNCHANGED vars
  PROVE  IInv'
<1>1. UNCHANGED <<ids, now, pc, todo, at, dev, answer, result, blacklist,
                  devAvailable, tried, excused, lastPerm, cleared, ills>>
  BY DEF vars, procVars, poolVars, histVars
<1>2. TypeOK'
  BY <1>1 DEF IInv, TypeOK, Slots
<1>3. InLoop' /\ Pending' /\ Covered'
  BY <1>1 DEF IInv, InLoop, Pending, Covered, Slots
<1>4. Dated' /\ BlacklistPersists'
  BY <1>1 DEF IInv, Dated, BlacklistPersists, Blacklisted, Misbehaved
<1>5. FailureJustified' /\ NeverDry'
  BY <1>1 DEF IInv, FailureJustified, NeverDry, Configured, Slots
<1> QED  BY <1>2, <1>3, <1>4, <1>5 DEF IInv

\* Every step of every process, and of the clock, preserves the invariant.
LEMMA StepKeeps == IInv /\ [Next]_vars => IInv'
<1> SUFFICES ASSUME IInv, [Next]_vars PROVE IInv'
  OBVIOUS
<1>1. CASE \E r \in Reqs : ReqStep(r)
  BY <1>1, LimitedKeeps, GetNoIDsKeeps, GetIDsKeeps, SucceedKeeps DEF ReqStep
<1>2. CASE \E p \in Procs : CallStep(p)
  BY <1>2, SendKeeps, AnswerKeeps, FailKeeps, FailForGoodKeeps DEF CallStep
<1>3. CASE HealthTick
  BY <1>3, HealthTickKeeps
<1>4. CASE HealthOk
  BY <1>4, HealthOkPreserves
<1>5. CASE Tick
  BY <1>5, TickKeeps
<1>6. CASE UNCHANGED vars
  BY <1>6, StutterKeeps
<1> QED  BY <1>1, <1>2, <1>3, <1>4, <1>5, <1>6 DEF Next

LEMMA Invariance == Spec => []IInv
<1> QED  BY InitIInv, StepKeeps, PTL DEF Spec

-----------------------------------------------------------------------------
\* The variables of the pool keep their types.
THEOREM TypeCorrect == Spec => []TypeOK
<1>1. IInv => TypeOK  BY DEF IInv
<1> QED  BY <1>1, Invariance, PTL

\* relay.go:217-235, 296-308: a request that fails was refused by every
\* configured script, or by all but those that failed for good within
\* BlacklistFor before it looked - for any list of ids, repeated ones too,
\* and any interleaving with other requests and the health checker.
THEOREM FailuresAreJustified == Spec => []FailureJustified
<1>1. IInv => FailureJustified  BY DEF IInv
<1> QED  BY <1>1, Invariance, PTL

\* relay.go:163-170: blacklisting alone never makes a request fail unasked.
THEOREM PoolNeverDry == Spec => []NeverDry
<1>1. IInv => NeverDry  BY DEF IInv
<1> QED  BY <1>1, Invariance, PTL

\* relay.go:174-177: an entry lasts its whole term unless the health checker
\* found the script well after it was made.
THEOREM EntriesPersist == Spec => []BlacklistPersists
<1>1. IInv => BlacklistPersists  BY DEF IInv
<1> QED  BY <1>1, Invariance, PTL

-----------------------------------------------------------------------------
(* A script that has been well throughout and can be reached, and that no    *)
(* request for a bad target has asked, has answered everyone who asked it:    *)
(* whoever it has answered is done, and has not failed.                     *)

Spotless(s) ==
  /\ ills[s] = {}
  /\ Reachable(s)
  /\ \A b \in BadTarget : s \notin tried[b]

Answers(s) ==
  /\ lastPerm[s] = Never
  /\ \A r \in Reqs : s \notin excused[r]
  /\ \A p \in Procs : pc[p] = "settle" /\ ids[at[p]] = s => answer[p] = "ok"
  /\ \A r \in Reqs : s \in tried[r] =>
       \/ pc[r] \in {"wait", "settle"} /\ ids[at[r]] = s
       \/ pc[r] = "done" /\ result[r] = "ok"

WellInv ==
  /\ \A p \in Procs : dev[p] => devAvailable
  /\ \A s \in Scripts : Spotless(s) => Answers(s)

\* What spoils a script is never forgotten.
LEMMA Grows ==
  ASSUME IInv, Next
  PROVE  /\ ids' = ids /\ (devAvailable => devAvailable')
         /\ \A s \in Scripts : ills[s] \subseteq ills'[s]
         /\ \A r \in Reqs : tried[r] \subseteq tried'[r]
<1> USE DEF poolVars, histVars
<1>1. CASE \E r \in Reqs : ReqStep(r)
  BY <1>1 DEF ReqStep, Limited, GetNoIDs, GetIDs, Succeed
<1>2. CASE \E p \in Procs : Send(p)
  BY <1>2 DEF Send
<1>3. ASSUME NEW p \in Procs, AnswerTransient(p) \/ AnswerJSON(p)
      PROVE  /\ ids' = ids /\ (devAvailable => devAvailable') /\ tried' = tried
             /\ \A s \in Scripts : ills[s] \subseteq ills'[s]
  <2>1. devAvailable => devAvailable'
    BY <1>3 DEF AnswerTransient, AnswerJSON
  <2>2. PICK c \in Conds : AnswerIn(p, c)
    BY <1>3 DEF AnswerTransient, AnswerJSON
  <2>3. /\ ids' = ids /\ tried' = tried
        /\ ills' = [ills EXCEPT ![ids[at[p]]] = @ \cup ({c} \ {"up"})]
    BY <2>2 DEF AnswerIn
  <2> QED  BY <2>1, <2>3 DEF IInv, TypeOK
<1>4. CASE \E p \in Procs : Fail(p) \/ FailForGood(p)
  BY <1>4 DEF Fail, FailForGood
<1>5. CASE HealthTick \/ HealthOk \/ Tick
  BY <1>5 DEF HealthTick, HealthOk, Tick
<1> QED  BY <1>1, <1>2, <1>3, <1>4, <1>5 DEF Next, CallStep

LEMMA StaysSpotted ==
  ASSUME IInv, Next, NEW s \in Scripts, Spotless(s)'
  PROVE  Spotless(s)
<1>1. BadTarget \subseteq Reqs
  BY PoolAssumption
<1> QED  BY <1>1, Grows DEF Spotless, Reachable, KeyFor

\* Nobody calls /dev before the latch is set, and it stays set.
LEMMA LatchKept ==
  ASSUME IInv, Next, \A p \in Procs : dev[p] => devAvailable
  PROVE  \A p \in Procs : dev'[p] => devAvailable'
<1> USE DEF poolVars, IInv, TypeOK
<1>1. ASSUME NEW r \in Reqs, ReqStep(r)
      PROVE  \A q \in Procs : dev'[q] => devAvailable'
  <2>0. r \in Procs
    BY DEF Procs
  <2>1. devAvailable' = devAvailable
    BY <1>1 DEF ReqStep, Limited, GetNoIDs, GetIDs, Succeed
  <2>2. CASE Limited(r) \/ GetNoIDs(r) \/ GetIDs(r)
    <3>1. dev' = dev
      BY <2>2 DEF Limited, GetNoIDs, GetIDs
    <3> QED  BY <2>1, <3>1
  <2>3. CASE Succeed(r)
    <3>1. dev' = [dev EXCEPT ![r] = FALSE]
      BY <2>3 DEF Succeed
    <3>2. \A q \in Procs : dev'[q] => dev[q]
      BY <2>0, <3>1
    <3> QED  BY <2>1, <3>2
  <2> QED  BY <1>1, <2>2, <2>3 DEF ReqStep
<1>2. ASSUME NEW p \in Procs, Send(p)
      PROVE  \A q \in Procs : dev'[q] => devAvailable'
  <2>1. devAvailable' = devAvailable
    BY <1>2 DEF Send
  <2>2. CASE ~devAvailable
    <3>1. DevSeen(p) = {FALSE}
      BY <2>2 DEF DevSeen
    <3>2. dev' = [dev EXCEPT ![p] = FALSE]
      BY <1>2, <3>1 DEF Send
    <3>3. \A q \in Procs : ~dev'[q]
      BY <2>2, <3>2
    <3> QED  BY <3>3
  <2> QED  BY <2>1, <2>2
<1>3. ASSUME NEW p \in Procs, AnswerTransient(p) \/ AnswerJSON(p)
      PROVE  dev' = dev
  BY <1>3 DEF AnswerTransient, AnswerJSON, AnswerIn
<1>4. ASSUME NEW p \in Procs, Fail(p) \/ FailForGood(p)
      PROVE  \A q \in Procs : dev'[q] => devAvailable'
  BY <1>4 DEF Fail, FailForGood, Advance
<1>5. CASE HealthTick \/ Tick
  BY <1>5 DEF HealthTick, Tick, procVars
<1>6. CASE HealthOk
  BY <1>6 DEF HealthOk, Advance
<1> QED  BY <1>1, <1>2, <1>3, <1>4, <1>5, <1>6, Grows DEF Next, CallStep

\* A request that has not asked the script yet learns nothing bad of it from
\* the blacklist.
LEMMA AnswersReqStep ==
  ASSUME IInv, NEW s \in Scripts, Answers(s), NEW r \in Reqs, ReqStep(r)
  PROVE  Answers(s)'
<1> USE DEF poolVars, histVars, IInv, TypeOK, Answers
<1>0. r \in Procs
  BY DEF Procs
<1>1. CASE Limited(r)
  BY <1>0, <1>1 DEF Limited
<1>2. CASE GetNoIDs(r)
  BY <1>0, <1>2 DEF GetNoIDs
<1>3. CASE GetIDs(r)
  <2>1. s \notin Misbehaved
    BY DEF Misbehaved
  <2> QED  BY <1>0, <1>3, <2>1 DEF GetIDs
<1>4. CASE Succeed(r)
  BY <1>0, <1>4 DEF Succeed
<1> QED  BY <1>1, <1>2, <1>3, <1>4 DEF ReqStep

LEMMA AnswersSend ==
  ASSUME IInv, NEW s \in Scripts, Answers(s), NEW p \in Procs, Send(p)
  PROVE  Answers(s)'
<1> USE DEF IInv, TypeOK, Answers
<1>1. PICK i \in First(todo[p]) :
        /\ at' = [at EXCEPT ![p] = i]
        /\ tried' = [r \in Reqs |->
                      IF r = p THEN tried[r] \cup {ids[i]} ELSE tried[r]]
  BY DEF Send
<1>2. /\ pc[p] = "send" /\ pc' = [pc EXCEPT ![p] = "wait"]
      /\ UNCHANGED <<ids, answer, result, excused, lastPerm>>
  BY DEF Send
<1>3. \A r \in Reqs : s \in tried'[r] =>
        \/ pc'[r] \in {"wait", "settle"} /\ ids[at'[r]] = s
        \/ pc'[r] = "done" /\ result[r] = "ok"
  <2> SUFFICES ASSUME NEW r \in Reqs, s \in tried'[r]
               PROVE  \/ pc'[r] \in {"wait", "settle"} /\ ids[at'[r]] = s
                      \/ pc'[r] = "done" /\ result[r] = "ok"
    OBVIOUS
  <2>0. r \in Procs
    BY DEF Procs
  <2>1. CASE r = p
    <3>1. s \notin tried[p]
      BY <1>2, <2>1
    <3> QED  BY <1>1, <1>2, <2>0, <2>1, <3>1
  <2>2. CASE r # p
    BY <1>1, <1>2, <2>0, <2>2
  <2> QED  BY <2>1, <2>2
<1>4. \A q \in Procs : pc'[q] = "settle" /\ ids[at'[q]] = s => answer[q] = "ok"
  BY <1>1, <1>2
<1> QED  BY <1>2, <1>3, <1>4

\* A spotless script was up, has the key, was asked under an address it
\* answers at, and for a target it can fetch.
LEMMA AnswersAnswer ==
  ASSUME IInv, NEW s \in Scripts, Answers(s), Spotless(s), Spotless(s)',
         \A p \in Procs : dev[p] => devAvailable,
         NEW p \in Procs, AnswerTransient(p) \/ AnswerJSON(p)
  PROVE  Answers(s)'
<1>1. PICK c \in Conds :
        /\ AnswerIn(p, c)
        /\ \/ Unreadable(p, c)
           \/ /\ ~Unreadable(p, c)
              /\ answer' = [answer EXCEPT ![p] =
                              IF Refused(p, c) THEN "permanent" ELSE "ok"]
        /\ \E a \in {"ok", "transient", "permanent"} :
              answer' = [answer EXCEPT ![p] = a]
  BY DEF AnswerTransient, AnswerJSON
<1>2. /\ pc[p] = "wait" /\ pc' = [pc EXCEPT ![p] = "settle"]
      /\ ills' = [ills EXCEPT ![ids[at[p]]] = @ \cup ({c} \ {"up"})]
      /\ UNCHANGED <<ids, at, dev, result, tried, excused, lastPerm>>
  BY <1>1 DEF AnswerIn
<1>3. ids[at[p]] = s => answer'[p] = "ok"
  <2> SUFFICES ASSUME ids[at[p]] = s PROVE answer'[p] = "ok"
    OBVIOUS
  <2>1. c = "up"
    BY <1>2 DEF Spotless, IInv, TypeOK
  <2>2. ~Unreadable(p, c)
    BY <2>1 DEF Unreadable, Spotless, Reachable
  <2>3. p \notin BadTarget
    BY <1>2, PoolAssumption DEF Spotless, IInv, InLoop
  <2>4. ~Refused(p, c)
    BY <2>1, <2>3 DEF Refused, Spotless, Reachable
  <2> QED  BY <1>1, <2>2, <2>4 DEF IInv, TypeOK
<1>4. \A q \in Procs \ {p} : answer'[q] = answer[q] /\ pc'[q] = pc[q]
  BY <1>1, <1>2 DEF IInv, TypeOK
<1>5. \A q \in Procs : pc'[q] = "settle" /\ ids[at[q]] = s => answer'[q] = "ok"
  BY <1>3, <1>4 DEF Answers
<1>6. \A r \in Reqs : s \in tried[r] =>
        \/ pc'[r] \in {"wait", "settle"} /\ ids[at[r]] = s
        \/ pc'[r] = "done" /\ result[r] = "ok"
  BY <1>2 DEF Answers, IInv, TypeOK
<1> QED  BY <1>2, <1>5, <1>6 DEF Answers

\* The loop goes on, or ends, without having asked the script.
LEMMA AnswersAdvance ==
  ASSUME IInv, NEW s \in Scripts, Answers(s), NEW p \in Procs,
         pc[p] = "settle", Advance(p), ids[at[p]] # s \/ p = Health,
         UNCHANGED <<ids, tried, excused>>, lastPerm'[s] = lastPerm[s]
  PROVE  Answers(s)'
<1>0. \A r \in Reqs : r # Health /\ r \in Procs
  BY PoolAssumption DEF Procs
<1>1. /\ pc'[p] # "settle"
      /\ \A q \in Procs \ {p} : /\ pc'[q] = pc[q] /\ at'[q] = at[q]
                                /\ answer'[q] = answer[q]
      /\ \A r \in Reqs \ {p} : result'[r] = result[r]
  BY DEF Advance, IInv, TypeOK
<1>2. p \in Reqs => s \notin tried[p]
  BY <1>0 DEF Answers
<1> QED  BY <1>0, <1>1, <1>2 DEF Answers

LEMMA WellKept == IInv /\ WellInv /\ [Next]_vars => WellInv'
<1> SUFFICES ASSUME IInv, WellInv, [Next]_vars PROVE WellInv'
  OBVIOUS
<1>1. CASE UNCHANGED vars
  BY <1>1 DEF vars, procVars, poolVars, histVars, WellInv, Spotless, Reachable,
              KeyFor, Answers
<1>2. CASE Next
  <2>1. \A p \in Procs : dev'[p] => devAvailable'
    BY <1>2, LatchKept DEF WellInv
  <2>2. ASSUME NEW s \in Scripts, Spotless(s)'
        PROVE  Answers(s)'
    <3>1. Spotless(s) /\ Answers(s)
      BY <1>2, <2>2, StaysSpotted DEF WellInv
    <3>2. CASE \E r \in Reqs : ReqStep(r)
      BY <3>1, <3>2, AnswersReqStep
    <3>3. CASE \E p \in Procs : Send(p)
      BY <3>1, <3>3, AnswersSend
    <3>4. CASE \E p \in Procs : AnswerTransient(p) \/ AnswerJSON(p)
      BY <2>2, <3>1, <3>4, AnswersAnswer DEF WellInv
    <3>5. ASSUME NEW p \in Procs, Fail(p)
          PROVE  Answers(s)'
      <4>1. pc[p] = "settle" /\ answer[p] # "ok" /\ Advance(p)
            /\ UNCHANGED <<ids, tried, excused, lastPerm>>
        BY <3>5 DEF Fail, histVars
      <4> QED  BY <3>1, <4>1, AnswersAdvance DEF Answers
    <3>6. ASSUME NEW p \in Procs, FailForGood(p)
          PROVE  Answers(s)'
      <4>1. /\ pc[p] = "settle" /\ answer[p] # "ok" /\ Advance(p)
            /\ lastPerm' = [lastPerm EXCEPT ![ids[at[p]]] = now]
            /\ UNCHANGED <<ids, tried, excused>>
        BY <3>6 DEF FailForGood, Blacklist
      <4>2. ids[at[p]] # s
        BY <3>1, <4>1 DEF Answers
      <4>3. lastPerm'[s] = lastPerm[s]
        BY <4>1, <4>2 DEF IInv, TypeOK
      <4> QED  BY <3>1, <4>1, <4>2, <4>3, AnswersAdvance
    <3>7. CASE HealthOk
      <4>1. Health \in Procs
        BY DEF Procs
      <4> QED  BY <3>1, <3>7, <4>1, AnswersAdvance DEF HealthOk
    <3>8. CASE HealthTick
      BY <3>1, <3>8, PoolAssumption
      DEF HealthTick, poolVars, histVars, Answers, IInv, TypeOK, Procs
    <3>9. CASE Tick
      BY <3>1, <3>9 DEF Tick, procVars, poolVars, histVars, Answers
    <3> QED
      BY <1>2, <3>2, <3>3, <3>4, <3>5, <3>6, <3>7, <3>8, <3>9 DEF Next, CallStep
  <2> QED  BY <2>1, <2>2 DEF WellInv
<1> QED  BY <1>1, <1>2

\* relay.go:222-235: nobody fails while a configured script that can be
\* reached is well, however the others fare and whatever the health checker
\* and other requests do to the blacklist.
THEOREM WellScriptServes == Spec => []Served
<1>1. Init => WellInv
  BY DEF Init, WellInv, Answers
<1>2. IInv /\ WellInv => Served
  <2> SUFFICES ASSUME IInv, WellInv, NEW r \in Reqs \ BadTarget,
                      NEW s \in Configured, Kind[r] # "single",
                      result[r] = "failed", Spotless(s)
               PROVE  FALSE
    BY DEF Served, Spotless
  <2>1. s \in Scripts
    BY DEF Configured, Slots, IInv, TypeOK
  <2>2. s \in tried[r] /\ result[r] # "ok" /\ pc[r] = "done"
    BY <2>1 DEF IInv, FailureJustified, Pending, WellInv, Answers
  <2> QED  BY <2>1, <2>2 DEF WellInv, Answers
<1>3. IInv /\ WellInv /\ [Next]_vars => WellInv'
  BY WellKept
<1> QED  BY <1>1, <1>2, <1>3, Invariance, PTL DEF Spec

-----------------------------------------------------------------------------
(* What a request did already it does not do again: every script it has      *)
(* asked is that of a slot it has done with, or is at.                      *)

LeftBehind(r) ==
  IF pc[r] \in {"wait", "settle"} THEN (Slots \ todo[r]) \cup {at[r]}
                                  ELSE Slots \ todo[r]

Asked ==
  \A r \in Reqs :
    /\ pc[r] = "idle" => tried[r] = {}
    /\ pc[r] # "done" => \A s \in tried[r] : \E j \in LeftBehind(r) : ids[j] = s

\* relay.go:222-235: one request goes through a script a second time only if
\* that script is listed a second time - whatever it does, and even when the
\* first call timed out and may have been carried out all the same.
AskedOnce ==
  [][\A r \in Reqs :
       (pc[r] = "send" /\ pc'[r] = "wait" /\ ids[at'[r]] \in tried[r]) =>
          \E j \in Slots : j # at'[r] /\ ids[j] = ids[at'[r]]]_vars

\* A step that is not of r, or is none of its loop.
LEMMA AskedUnmoved ==
  ASSUME IInv, NEW r \in Reqs, ids' = ids, pc'[r] = pc[r],
         todo'[r] = todo[r], at'[r] = at[r], tried'[r] = tried[r],
         Asked
  PROVE  /\ pc'[r] = "idle" => tried'[r] = {}
         /\ pc'[r] # "done" =>
              \A s \in tried'[r] : \E j \in LeftBehind(r)' : ids'[j] = s
  BY DEF Asked, LeftBehind, Slots

LEMMA AskedAdvance ==
  ASSUME IInv, Asked, NEW p \in Procs, pc[p] = "settle", Advance(p),
         UNCHANGED <<ids, tried>>
  PROVE  Asked'
<1> USE DEF IInv, TypeOK
<1>0. \A r \in Reqs : r # Health /\ r \in Procs
  BY PoolAssumption DEF Procs
<1>1. SUFFICES ASSUME NEW r \in Reqs
               PROVE  /\ pc'[r] = "idle" => tried[r] = {}
                      /\ pc'[r] # "done" => \A s \in tried[r] :
                           \E j \in LeftBehind(r)' : ids[j] = s
  BY DEF Asked
<1>2. CASE r # p
  BY <1>0, <1>2, AskedUnmoved DEF Advance
<1>3. CASE r = p
  <2>1. pc'[r] \in {"send", "done"} /\ todo'[r] = todo[r] \ {at[r]}
    BY <1>0, <1>3 DEF Advance
  <2>2. at[r] \in Slots /\ Slots' = Slots
    BY <1>0, <1>3 DEF InLoop, Slots
  <2>3. LeftBehind(r)' = LeftBehind(r)
    BY <2>1, <2>2, <1>3 DEF LeftBehind
  <2>4. \A s \in tried[r] : \E j \in LeftBehind(r) : ids[j] = s
    BY <1>3 DEF Asked
  <2> QED  BY <1>3, <2>1, <2>3, <2>4
<1> QED  BY <1>2, <1>3

LEMMA AskedReqStep ==
  ASSUME IInv, Asked, NEW r \in Reqs, ReqStep(r)
  PROVE  Asked'
<1> USE DEF IInv, TypeOK, poolVars, histVars
<1>0. r \in Procs /\ ids' = ids /\ tried' = tried
  BY DEF Procs, ReqStep, Limited, GetNoIDs, GetIDs, Succeed
<1>1. ASSUME NEW q \in Reqs, q # r
      PROVE  pc'[q] = pc[q] /\ todo'[q] = todo[q] /\ at'[q] = at[q]
  BY <1>0, <1>1 DEF Procs, ReqStep, Limited, GetNoIDs, GetIDs, Succeed
<1>2. pc'[r] = "done" \/ (pc[r] = "idle" /\ pc'[r] = "send")
  BY <1>0 DEF ReqStep, Limited, GetNoIDs, GetIDs, Succeed
<1>3. pc[r] = "idle" => tried[r] = {}
  BY DEF Asked
<1> QED  BY <1>0, <1>1, <1>2, <1>3, AskedUnmoved DEF Asked

\* The slot asked now was still to be done, so a script asked before was at
\* another one.
LEMMA AskedSend ==
  ASSUME IInv, Asked, NEW p \in Procs, Send(p)
  PROVE  /\ Asked'
         /\ p \in Reqs => \E i \in todo[p] :
              /\ at'[p] = i /\ i \in Slots
              /\ ids[i] \in tried[p] =>
                   \E j \in Slots \ todo[p] : ids[j] = ids[i]
<1> USE DEF IInv, TypeOK
<1>1. PICK i \in First(todo[p]) :
        /\ at' = [at EXCEPT ![p] = i]
        /\ tried' = [r \in Reqs |->
                      IF r = p THEN tried[r] \cup {ids[i]} ELSE tried[r]]
  BY DEF Send
<1>2. /\ pc[p] = "send" /\ pc' = [pc EXCEPT ![p] = "wait"]
      /\ UNCHANGED <<ids, todo>> /\ i \in todo[p] /\ i \in Slots
      /\ Slots' = Slots
  BY <1>1 DEF Send, First, Slots
<1>3. ASSUME NEW r \in Reqs, r # p
      PROVE  /\ pc'[r] = "idle" => tried'[r] = {}
             /\ pc'[r] # "done" =>
                  \A s \in tried'[r] : \E j \in LeftBehind(r)' : ids'[j] = s
  BY <1>1, <1>2, <1>3, AskedUnmoved DEF Procs
<1>4. ASSUME p \in Reqs
      PROVE  \A s \in tried[p] : \E j \in Slots \ todo[p] : ids[j] = s
  BY <1>2, <1>4 DEF Asked, LeftBehind
<1>5. ASSUME p \in Reqs
      PROVE  \A s \in tried'[p] : \E j \in LeftBehind(p)' : ids'[j] = s
  <2>1. LeftBehind(p)' = (Slots \ todo[p]) \cup {i}
    BY <1>1, <1>2 DEF LeftBehind
  <2> QED  BY <1>1, <1>2, <1>4, <1>5, <2>1
<1>6. Asked'
  BY <1>2, <1>3, <1>5 DEF Asked
<1> QED  BY <1>1, <1>2, <1>4, <1>6

LEMMA AskedKept == IInv /\ Asked /\ [Next]_vars => Asked'
<1> SUFFICES ASSUME IInv, Asked, [Next]_vars PROVE Asked'
  OBVIOUS
<1>1. CASE \E r \in Reqs : ReqStep(r)
  BY <1>1, AskedReqStep
<1>2. CASE \E p \in Procs : Send(p)
  BY <1>2, AskedSend
<1>3. ASSUME NEW p \in Procs, AnswerTransient(p) \/ AnswerJSON(p)
      PROVE  Asked'
  <2>1. /\ pc[p] = "wait" /\ pc' = [pc EXCEPT ![p] = "settle"]
        /\ UNCHANGED <<ids, todo, at, tried>>
    BY <1>3 DEF AnswerTransient, AnswerJSON, AnswerIn
  <2> QED  BY <2>1 DEF Asked, LeftBehind, Slots, IInv, TypeOK
<1>4. ASSUME NEW p \in Procs, Fail(p) \/ FailForGood(p)
      PROVE  Asked'
  BY <1>4, AskedAdvance DEF Fail, FailForGood, histVars
<1>5. CASE HealthOk
  BY <1>5, AskedAdvance DEF HealthOk, Procs
<1>6. CASE HealthTick
  BY <1>6, AskedUnmoved, PoolAssumption
  DEF HealthTick, histVars, Asked, Procs, IInv, TypeOK
<1>7. CASE Tick \/ UNCHANGED vars
  BY <1>7 DEF Tick, vars, procVars, histVars, Asked, LeftBehind, Slots
<1> QED
  BY <1>1, <1>2, <1>3, <1>4, <1>5, <1>6, <1>7 DEF Next, CallStep

\* relay.go:222-235: for every list of ids and every interleaving, a request
\* asks a script once for each time the script is listed.
THEOREM NoneAskedTwice == Spec => AskedOnce
<1> DEFINE Once == \A r \in Reqs :
             (pc[r] = "send" /\ pc'[r] = "wait" /\ ids[at'[r]] \in tried[r]) =>
                \E j \in Slots : j # at'[r] /\ ids[j] = ids[at'[r]]
<1>1. Init => Asked
  BY DEF Init, Asked, Procs
<1>2. ASSUME IInv, Asked, [Next]_vars
      PROVE  [Once]_vars
  <2> SUFFICES ASSUME Next, NEW r \in Reqs, pc[r] = "send", pc'[r] = "wait",
                      ids[at'[r]] \in tried[r]
               PROVE  \E j \in Slots : j # at'[r] /\ ids[j] = ids[at'[r]]
    BY <1>2
  <2>1. Send(r)
    <3>1. pc'[r] # pc[r] /\ pc'[r] = "wait"
      OBVIOUS
    <3>2. ASSUME NEW q \in Reqs, ReqStep(q)
          PROVE  pc'[r] = pc[r] \/ pc'[r] # "wait"
      BY <1>2, <3>2 DEF ReqStep, Limited, GetNoIDs, GetIDs, Succeed, IInv,
                        TypeOK, Procs
    <3>3. ASSUME NEW p \in Procs, Send(p)
          PROVE  p = r \/ pc'[r] = pc[r]
      BY <1>2, <3>3 DEF Send, IInv, TypeOK, Procs
    <3>4. ASSUME NEW p \in Procs, AnswerTransient(p) \/ AnswerJSON(p)
          PROVE  pc'[r] = pc[r] \/ pc'[r] # "wait"
      <4>1. pc' = [pc EXCEPT ![p] = "settle"]
        BY <3>4 DEF AnswerTransient, AnswerJSON, AnswerIn
      <4> QED  BY <1>2, <4>1 DEF IInv, TypeOK, Procs
    <3>5. ASSUME NEW p \in Procs, Advance(p)
          PROVE  pc'[r] = pc[r] \/ pc'[r] # "wait"
      BY <1>2, <3>5 DEF Advance, IInv, TypeOK, Procs
    <3>6. HealthTick \/ Tick => pc'[r] = pc[r]
      BY <1>2, PoolAssumption DEF HealthTick, Tick, procVars, IInv, TypeOK, Procs
    <3>7. Health \in Procs
      BY DEF Procs
    <3> QED
      BY <3>1, <3>2, <3>3, <3>4, <3>5, <3>6, <3>7
      DEF Next, CallStep, Fail, FailForGood, HealthOk
  <2> QED  BY <1>2, <2>1, AskedSend DEF Procs
<1>3. IInv /\ Asked /\ [Next]_vars => Asked'
  BY AskedKept
<1> QED  BY <1>1, <1>2, <1>3, Invariance, PTL DEF Spec, AskedOnce

-----------------------------------------------------------------------------
(* BlacklistMeansScriptFault is not so (relay.go:189).  It fails for two      *)
(* causes only: a target that the script cannot fetch, and a key that is not *)
(* the script's.  Without them a script on the blacklist was out of quota.   *)

OwnFault ==
  /\ \A p \in Procs :
       pc[p] = "settle" /\ answer[p] = "permanent" =>
          "exhausted" \in ills[ids[at[p]]]
  /\ BlacklistMeansScriptFault

LEMMA OwnFaultKept ==
  ASSUME BadTarget = {}, \A s \in Scripts : AccountKey[s] = AuthKey,
         IInv, OwnFault, [Next]_vars
  PROVE  OwnFault'
<1> USE DEF IInv, TypeOK
<1>1. CASE \E r \in Reqs : ReqStep(r)
  <2>1. PICK r \in Reqs : ReqStep(r)
    BY <1>1
  <2>2. r \in Procs /\ UNCHANGED <<ids, ills>>
    BY <2>1 DEF Procs, ReqStep, Limited, GetNoIDs, GetIDs, Succeed, histVars
  <2>3. \A p \in Procs : pc'[p] = "settle" =>
          pc[p] = "settle" /\ at'[p] = at[p] /\ answer'[p] = answer[p]
    BY <2>1, <2>2 DEF ReqStep, Limited, GetNoIDs, GetIDs, Succeed
  <2>4. \A s \in Scripts : blacklist'[s] # 0 => blacklist[s] # 0
    BY <2>1 DEF ReqStep, Limited, GetNoIDs, GetIDs, Succeed, poolVars, Kept
  <2> QED  BY <2>2, <2>3, <2>4 DEF OwnFault, BlacklistMeansScriptFault
<1>2. ASSUME NEW p \in Procs, Send(p)
      PROVE  OwnFault'
  BY <1>2 DEF Send, poolVars, OwnFault, BlacklistMeansScriptFault
<1>3. ASSUME NEW p \in Procs, AnswerTransient(p) \/ AnswerJSON(p)
      PROVE  OwnFault'
  <2>1. PICK c \in Conds :
          /\ AnswerIn(p, c)
          /\ answer'[p] = "permanent" => Refused(p, c)
          /\ \A q \in Procs \ {p} : answer'[q] = answer[q]
    BY <1>3 DEF AnswerTransient, AnswerJSON
  <2>2. /\ pc[p] = "wait" /\ pc' = [pc EXCEPT ![p] = "settle"]
        /\ ills' = [ills EXCEPT ![ids[at[p]]] = @ \cup ({c} \ {"up"})]
        /\ UNCHANGED <<ids, at, blacklist>>
    BY <2>1 DEF AnswerIn
  <2>3. ids[at[p]] \in Scripts
    BY <2>2 DEF InLoop, Slots
  <2>4. answer'[p] = "permanent" => c = "exhausted"
    BY <2>1, <2>3 DEF Refused, KeyFor
  <2>5. answer'[p] = "permanent" => "exhausted" \in ills'[ids[at[p]]]
    BY <2>2, <2>3, <2>4
  <2>6. \A s \in Scripts : ills[s] \subseteq ills'[s]
    BY <2>2
  <2>7. \A q \in Procs : pc'[q] = "settle" => ids[at[q]] \in Scripts
    BY <2>2, <2>3 DEF InLoop, Slots
  <2> QED  BY <2>1, <2>2, <2>5, <2>6, <2>7
           DEF OwnFault, BlacklistMeansScriptFault
<1>4. ASSUME NEW p \in Procs, Fail(p)
      PROVE  OwnFault'
  BY <1>4 DEF Fail, Advance, poolVars, histVars, OwnFault,
              BlacklistMeansScriptFault
<1>5. ASSUME NEW p \in Procs, FailForGood(p)
      PROVE  OwnFault'
  <2>1. "exhausted" \in ills[ids[at[p]]]
    BY <1>5 DEF FailForGood, OwnFault
  <2> QED  BY <1>5, <2>1 DEF FailForGood, Blacklist, Advance, OwnFault,
                             BlacklistMeansScriptFault
<1>6. CASE HealthOk
  BY <1>6 DEF HealthOk, Advance, OwnFault, BlacklistMeansScriptFault
<1>7. CASE HealthTick
  BY <1>7 DEF HealthTick, poolVars, histVars, OwnFault,
              BlacklistMeansScriptFault
<1>8. CASE Tick \/ UNCHANGED vars
  BY <1>8 DEF Tick, vars, procVars, poolVars, histVars, OwnFault,
              BlacklistMeansScriptFault
<1> QED
  BY <1>1, <1>2, <1>3, <1>4, <1>5, <1>6, <1>7, <1>8 DEF Next, CallStep

\* relay.go:188-196: if every target can be fetched and every script has the
\* key it is sent, only a script that was out of quota is blacklisted.
THEOREM OnlyOutOfQuota ==
  ASSUME BadTarget = {}, \A s \in Scripts : AccountKey[s] = AuthKey
  PROVE  Spec => []BlacklistMeansScriptFault
<1>1. Init => OwnFault
  BY DEF Init, OwnFault, BlacklistMeansScriptFault
<1>2. OwnFault => BlacklistMeansScriptFault
  BY DEF OwnFault
<1>3. IInv /\ OwnFault /\ [Next]_vars => OwnFault'
  BY OwnFaultKept
<1> QED  BY <1>1, <1>2, <1>3, Invariance, PTL DEF Spec
=============================================================================
