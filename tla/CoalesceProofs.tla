---------------------------- MODULE CoalesceProofs ----------------------------
(***************************************************************************)
(* Proofs about coalescing, for any callers and URLs: at most one shared    *)
(* fetch per URL, clean-up that deletes its own group only, and that every  *)
(* behaviour is one of SharedFetch.  What carries them is that a group      *)
(* stays in the map from before its fetch until its own clean-up           *)
(* (Leading, Entries): nothing else ever deletes it.  So nobody waits for a  *)
(* group that nobody will finish (NobodyStranded), and nobody is given the   *)
(* answer for another URL (OwnAnswer).                                     *)
(***************************************************************************)
EXTENDS Coalesce, TLAPS

\* A caller that has not come has left no trace; one that may share belongs
\* to a group from then on, and one that may not never does.
Grouped ==
  \A c \in Callers :
    /\ pc[c] = "new" => group[c] = NoGroup
    /\ (Coalesced(c) /\ pc[c] # "new") => group[c] # NoGroup
    /\ ~Coalesced(c) => group[c] = NoGroup /\ pc[c] \notin {"publish", "wait"}

\* A leader that fetches leads its own group, which is in the map.
Leading ==
  \A c \in Callers :
    (Coalesced(c) /\ pc[c] \in {"fetch", "publish"}) =>
       group[c] = c /\ coalesceMap[Url[c]] = c /\ ~done[c]

\* A group has a result exactly when it is done, and then its leader is back.
Results ==
  \A c \in Callers :
    /\ pc[c] \in {"publish", "returned", "end"} => local[c] \in Values
    /\ done[c] => pc[c] \in {"returned", "end"} /\ result[c] \in Values
    /\ ~done[c] => result[c] = NoValue

\* A caller's group is for its URL, and is done or still in the map.
Joined ==
  \A c \in Callers : group[c] # NoGroup =>
    /\ Url[group[c]] = Url[c]
    /\ done[group[c]] \/ coalesceMap[Url[c]] = group[c]

\* A group in the map has its fetch or its clean-up ahead.
Entries ==
  \A u \in Urls : coalesceMap[u] # NoGroup =>
    /\ Url[coalesceMap[u]] = u
    /\ group[coalesceMap[u]] = coalesceMap[u]
    /\ \/ pc[coalesceMap[u]] \in {"fetch", "publish"}
       \/ coalesceMap[u] \in timers

\* What has been returned by a member of a group is the group's result.
Returned ==
  \A c \in Callers :
    (pc[c] \in {"returned", "end"} /\ group[c] # NoGroup) =>
       done[group[c]] /\ local[c] = result[group[c]]

IInv ==
  /\ TypeOK
  /\ Grouped
  /\ Leading
  /\ Results
  /\ Joined
  /\ Entries
  /\ Returned
  /\ TimerOwnsEntry

-----------------------------------------------------------------------------
LEMMA InitIInv == Init => IInv
  BY CallerAssumption
  DEF Init, IInv, TypeOK, Grouped, Leading, Results, Joined, Entries,
      Returned, TimerOwnsEntry

LEMMA DirectKeeps ==
  ASSUME IInv, NEW c \in Callers, Direct(c)
  PROVE  IInv'
<1> USE DEF groupVars, bodyVars
<1>1. TypeOK'
  BY DEF IInv, TypeOK, Direct
<1>2. Grouped' /\ Leading' /\ Results'
  BY DEF IInv, TypeOK, Grouped, Leading, Results, Direct, Coalesced
<1>3. Joined' /\ Entries' /\ Returned' /\ TimerOwnsEntry'
  BY DEF IInv, TypeOK, Grouped, Joined, Entries, Returned, TimerOwnsEntry,
         Direct
<1> QED  BY <1>1, <1>2, <1>3 DEF IInv

\* The map has no entry for the URL, so no timer and no other leader has one.
LEMMA LeadKeeps ==
  ASSUME IInv, NEW c \in Callers, Lead(c)
  PROVE  IInv'
<1> USE DEF bodyVars
<1>0. Url \in [Callers -> Urls] /\ NoGroup \notin Callers
  BY CallerAssumption
<1>1. /\ pc[c] = "new" /\ Coalesced(c) /\ group[c] = NoGroup /\ ~done[c]
      /\ coalesceMap[Url[c]] = NoGroup /\ Url[c] \in Urls
      /\ pc' = [pc EXCEPT ![c] = "fetch"]
      /\ group' = [group EXCEPT ![c] = c]
      /\ coalesceMap' = [coalesceMap EXCEPT ![Url[c]] = c]
      /\ UNCHANGED <<local, done, result, timers, drained, got>>
  BY <1>0 DEF Lead, IInv, Grouped, Results
<1>2. TypeOK'
  BY <1>1 DEF IInv, TypeOK
<1>3. Grouped' /\ Results'
  BY <1>0, <1>1 DEF IInv, TypeOK, Grouped, Results, Coalesced
<1>4. Leading'
  BY <1>0, <1>1 DEF IInv, TypeOK, Leading, Coalesced
<1>5. Joined'
  BY <1>0, <1>1 DEF IInv, TypeOK, Joined
<1>6. Entries'
  BY <1>0, <1>1 DEF IInv, TypeOK, Entries
<1>7. Returned' /\ TimerOwnsEntry'
  BY <1>0, <1>1 DEF IInv, TypeOK, Returned, TimerOwnsEntry
<1> QED  BY <1>2, <1>3, <1>4, <1>5, <1>6, <1>7 DEF IInv

LEMMA JoinKeeps ==
  ASSUME IInv, NEW c \in Callers, Join(c)
  PROVE  IInv'
<1> USE DEF groupVars, bodyVars
<1>0. Url \in [Callers -> Urls] /\ NoGroup \notin Callers
  BY CallerAssumption
<1>1. /\ pc[c] = "new" /\ Coalesced(c) /\ group[c] = NoGroup /\ ~done[c]
      /\ coalesceMap[Url[c]] \in Callers /\ coalesceMap[Url[c]] # c
      /\ Url[coalesceMap[Url[c]]] = Url[c]
      /\ pc' = [pc EXCEPT ![c] = "wait"]
      /\ group' = [group EXCEPT ![c] = coalesceMap[Url[c]]]
      /\ UNCHANGED <<local, coalesceMap, done, result, timers, drained, got>>
  BY <1>0, ZenonT(60) DEF Join, IInv, TypeOK, Grouped, Results, Entries
<1>2. TypeOK'
  BY <1>1 DEF IInv, TypeOK
<1>3. Grouped' /\ Results' /\ Leading'
  BY <1>0, <1>1 DEF IInv, TypeOK, Grouped, Results, Leading, Coalesced
<1>4. Joined'
  BY <1>0, <1>1 DEF IInv, TypeOK, Joined
<1>5. Entries'
  BY <1>0, <1>1 DEF IInv, TypeOK, Entries
<1>6. Returned' /\ TimerOwnsEntry'
  BY <1>0, <1>1 DEF IInv, TypeOK, Returned, TimerOwnsEntry
<1> QED  BY <1>2, <1>3, <1>4, <1>5, <1>6 DEF IInv

LEMMA FetchKeeps ==
  ASSUME IInv, NEW c \in Callers, Fetch(c)
  PROVE  IInv'
<1> USE DEF groupVars, bodyVars
<1>0. Url \in [Callers -> Urls] /\ NoGroup \notin Callers
  BY CallerAssumption
<1>1. PICK w \in Values : local' = [local EXCEPT ![c] = w]
  BY DEF Fetch, Values
<1>2. /\ pc[c] = "fetch"
      /\ pc' = [pc EXCEPT ![c] =
                  IF group[c] = c THEN "publish" ELSE "returned"]
      /\ UNCHANGED <<group, coalesceMap, done, result, timers, drained, got>>
  BY DEF Fetch
<1>3. Coalesced(c) => group[c] = c
  BY <1>2 DEF IInv, Leading
<1>4. ~Coalesced(c) => group[c] = NoGroup
  BY DEF IInv, Grouped
<1>5. TypeOK'
  BY <1>1, <1>2 DEF IInv, TypeOK
<1>6. Grouped' /\ Leading'
  BY <1>0, <1>2, <1>3, <1>4 DEF IInv, TypeOK, Grouped, Leading, Coalesced
<1>7. Results'
  BY <1>1, <1>2 DEF IInv, TypeOK, Results
<1>8. Joined' /\ TimerOwnsEntry'
  BY <1>2 DEF IInv, Joined, TimerOwnsEntry
<1>9. Entries'
  BY <1>0, <1>2, <1>3, <1>4 DEF IInv, TypeOK, Entries
<1>10. Returned'
  BY <1>0, <1>1, <1>2, <1>3, <1>4 DEF IInv, TypeOK, Returned
<1> QED  BY <1>5, <1>6, <1>7, <1>8, <1>9, <1>10 DEF IInv

\* The group's result is written once, so those who have it keep it.
LEMMA PublishKeeps ==
  ASSUME IInv, NEW c \in Callers, Publish(c)
  PROVE  IInv'
<1> USE DEF bodyVars
<1>0. Url \in [Callers -> Urls] /\ NoGroup \notin Callers
  BY CallerAssumption
<1>1. /\ pc[c] = "publish" /\ Coalesced(c) /\ group[c] = c
      /\ coalesceMap[Url[c]] = c /\ ~done[c] /\ local[c] \in Values
      /\ pc' = [pc EXCEPT ![c] = "returned"]
      /\ done' = [done EXCEPT ![c] = TRUE]
      /\ result' = [result EXCEPT ![c] = local[c]]
      /\ timers' = timers \cup {c}
      /\ UNCHANGED <<group, local, coalesceMap, drained, got>>
  BY DEF Publish, IInv, Grouped, Leading, Results
<1>2. TypeOK'
  BY <1>1 DEF IInv, TypeOK
<1>3. Grouped' /\ Results'
  BY <1>0, <1>1 DEF IInv, TypeOK, Grouped, Results, Coalesced
<1>4. Leading'
  BY <1>0, <1>1 DEF IInv, TypeOK, Leading, Coalesced
<1>5. Joined'
  BY <1>0, <1>1 DEF IInv, TypeOK, Joined
<1>6. Entries'
  BY <1>0, <1>1 DEF IInv, TypeOK, Entries
<1>7. Returned'
  <2>1. \A d \in Callers : group[d] = c =>
          d = c \/ pc[d] \notin {"returned", "end"}
    BY <1>1, <1>0 DEF IInv, Returned
  <2> QED  BY <2>1, <1>0, <1>1 DEF IInv, TypeOK, Returned
<1>8. TimerOwnsEntry'
  BY <1>0, <1>1 DEF IInv, TypeOK, TimerOwnsEntry
<1> QED  BY <1>2, <1>3, <1>4, <1>5, <1>6, <1>7, <1>8 DEF IInv

LEMMA PollKeeps ==
  ASSUME IInv, NEW c \in Callers, Poll(c)
  PROVE  IInv'
<1> USE DEF groupVars, bodyVars
<1>0. Url \in [Callers -> Urls] /\ NoGroup \notin Callers
  BY CallerAssumption
<1>1. /\ pc[c] = "wait" /\ Coalesced(c) /\ group[c] \in Callers
      /\ done[group[c]] /\ result[group[c]] \in Values
      /\ local' = [local EXCEPT ![c] = result[group[c]]]
      /\ pc' = [pc EXCEPT ![c] = "returned"]
      /\ UNCHANGED <<group, coalesceMap, done, result, timers, drained, got>>
  BY DEF Poll, IInv, TypeOK, Grouped, Results
<1>2. TypeOK'
  BY <1>1 DEF IInv, TypeOK
<1>3. Grouped' /\ Results' /\ Leading'
  BY <1>0, <1>1 DEF IInv, TypeOK, Grouped, Results, Leading, Coalesced
<1>4. Joined' /\ TimerOwnsEntry'
  BY <1>1 DEF IInv, Joined, TimerOwnsEntry
<1>5. Entries'
  BY <1>0, <1>1 DEF IInv, TypeOK, Entries
<1>6. Returned'
  BY <1>0, <1>1 DEF IInv, TypeOK, Returned
<1> QED  BY <1>2, <1>3, <1>4, <1>5, <1>6 DEF IInv

\* The deleted entry is the timer's own group, which is done.
LEMMA TimerFiresKeeps ==
  ASSUME IInv, NEW g \in Callers, TimerFires(g)
  PROVE  IInv'
<1> USE DEF bodyVars
<1>0. Url \in [Callers -> Urls] /\ NoGroup \notin Callers
  BY CallerAssumption
<1>1. /\ g \in timers /\ done[g] /\ coalesceMap[Url[g]] = g
      /\ coalesceMap' = [coalesceMap EXCEPT ![Url[g]] = NoGroup]
      /\ timers' = timers \ {g}
      /\ UNCHANGED <<pc, group, local, done, result, drained, got>>
  BY DEF TimerFires, IInv, TypeOK, TimerOwnsEntry
<1>2. TypeOK'
  BY <1>1 DEF IInv, TypeOK
<1>3. Grouped' /\ Results' /\ Returned'
  BY <1>1 DEF IInv, Grouped, Results, Returned, Coalesced
<1>4. Leading'
  BY <1>0, <1>1 DEF IInv, TypeOK, Leading, Coalesced
<1>5. Joined'
  BY <1>0, <1>1 DEF IInv, TypeOK, Joined
<1>6. Entries'
  BY <1>0, <1>1 DEF IInv, TypeOK, Entries
<1>7. TimerOwnsEntry'
  BY <1>0, <1>1 DEF IInv, TypeOK, TimerOwnsEntry
<1> QED  BY <1>2, <1>3, <1>4, <1>5, <1>6, <1>7 DEF IInv

LEMMA ReadKeeps ==
  ASSUME IInv, NEW c \in Callers, Read(c)
  PROVE  IInv'
<1> USE DEF groupVars, bodyVars
<1>0. NoGroup \notin Callers
  BY CallerAssumption
<1>1. /\ pc[c] = "returned" /\ local[c] \in Values
      /\ pc' = [pc EXCEPT ![c] = "end"]
      /\ UNCHANGED <<group, local, coalesceMap, done, result, timers>>
  BY DEF Read, IInv, Results
<1>2. /\ drained' \subseteq Callers
      /\ got' \in [Callers -> {"none", "whole", "nothing"}]
  BY <1>1 DEF Read, IInv, TypeOK, Values
<1>3. TypeOK'
  BY <1>1, <1>2 DEF IInv, TypeOK
<1>4. Grouped' /\ Results' /\ Leading'
  BY <1>1 DEF IInv, TypeOK, Grouped, Results, Leading, Coalesced
<1>5. Joined' /\ TimerOwnsEntry' /\ Returned'
  BY <1>1 DEF IInv, TypeOK, Joined, TimerOwnsEntry, Returned
<1>6. Entries'
  BY <1>0, <1>1 DEF IInv, TypeOK, Entries
<1> QED  BY <1>3, <1>4, <1>5, <1>6 DEF IInv

LEMMA StutterKeeps ==
  ASSUME IInv, UNCHANGED vars
  PROVE  IInv'
<1>1. UNCHANGED <<pc, group, local, coalesceMap, done, result, timers,
                  drained, got>>
  BY DEF vars, groupVars, bodyVars
<1> QED  BY <1>1 DEF IInv, TypeOK, Grouped, Leading, Results, Joined, Entries,
                     Returned, TimerOwnsEntry, Coalesced

LEMMA StepKeeps == IInv /\ [Next]_vars => IInv'
<1> SUFFICES ASSUME IInv, [Next]_vars PROVE IInv'
  OBVIOUS
<1>1. CASE \E c \in Callers : Step(c)
  BY <1>1, DirectKeeps, LeadKeeps, JoinKeeps, FetchKeeps, PublishKeeps,
     PollKeeps, ReadKeeps DEF Step
<1>2. CASE \E c \in Callers : TimerFires(c)
  BY <1>2, TimerFiresKeeps
<1>3. CASE UNCHANGED vars
  BY <1>3, StutterKeeps
<1> QED  BY <1>1, <1>2, <1>3 DEF Next

LEMMA Invariance == Spec => []IInv
<1> QED  BY InitIInv, StepKeeps, PTL DEF Spec

-----------------------------------------------------------------------------
\* The variables of coalescing keep their types.
THEOREM TypeCorrect == Spec => []TypeOK
<1>1. IInv => TypeOK  BY DEF IInv
<1> QED  BY <1>1, Invariance, PTL

\* relay.go:314-318: at most one shared fetch per URL, at any time.
THEOREM OneFlight == Spec => []SingleFlight
<1>1. IInv => SingleFlight  BY DEF IInv, Leading, SingleFlight
<1> QED  BY <1>1, Invariance, PTL

\* relay.go:326-331: deleting by key deletes one's own group.
THEOREM CleanUpIsOwn == Spec => []TimerOwnsEntry
<1>1. IInv => TimerOwnsEntry  BY DEF IInv
<1> QED  BY <1>1, Invariance, PTL

-----------------------------------------------------------------------------
(* The response bodies.  A response that more than one caller holds is of a  *)
(* group, whose leader may share; a caller that may not share holds its own, *)
(* and until it has read that nobody has.                                   *)

\* Whose fetch it is that a caller, or a group, has the result of.
Own ==
  /\ \A c \in Callers :
       /\ group[c] # NoGroup => Coalesced(group[c])
       /\ (group[c] \in {c, NoGroup} /\ pc[c] \in {"publish", "returned", "end"})
             => local[c].by = c
  /\ \A g \in Callers : done[g] => result[g].by = g

BodyInv ==
  /\ Own
  /\ \A d \in drained : Coalesced(d) \/ pc[d] = "end"
  /\ WholeBody

\* What a caller returns is its group's, or its own.
LEMMA ReturnsFrom ==
  ASSUME IInv, Own, NEW c \in Callers, pc[c] = "returned"
  PROVE  local[c].by = c \/ Coalesced(local[c].by)
<1>1. CASE group[c] = NoGroup
  BY <1>1 DEF Own
<1>2. CASE group[c] # NoGroup
  <2>1. done[group[c]] /\ local[c] = result[group[c]] /\ group[c] \in Callers
    BY <1>2 DEF IInv, TypeOK, Returned
  <2> QED  BY <1>2, <2>1 DEF Own
<1> QED  BY <1>1, <1>2

LEMMA OwnKept ==
  ASSUME IInv, Own, NEW c \in Callers, Step(c) \/ TimerFires(c)
  PROVE  Own'
<1> USE DEF groupVars, bodyVars
<1>0. NoGroup \notin Callers /\ Url \in [Callers -> Urls]
  BY CallerAssumption
<1>1. CASE Direct(c)
  BY <1>1 DEF Direct, IInv, TypeOK, Own, Coalesced
<1>2. CASE Lead(c)
  BY <1>0, <1>2 DEF Lead, IInv, TypeOK, Own, Coalesced
<1>3. CASE Join(c)
  <2>1. Coalesced(coalesceMap[Url[c]]) /\ coalesceMap[Url[c]] \in Callers
    BY <1>0, <1>3 DEF Join, IInv, TypeOK, Entries, Grouped
  <2> QED  BY <1>3, <2>1 DEF Join, IInv, TypeOK, Own, Coalesced
<1>4. CASE Fetch(c)
  BY <1>4 DEF Fetch, IInv, TypeOK, Own, Coalesced
<1>5. CASE Publish(c)
  <2>1. group[c] = c
    BY <1>5 DEF Publish, IInv, Grouped, Leading
  <2> QED  BY <1>5, <2>1 DEF Publish, IInv, TypeOK, Own, Coalesced
<1>6. CASE Poll(c)
  <2>1. group[c] \in Callers
    BY <1>6 DEF Poll, IInv, TypeOK, Grouped
  <2> QED  BY <1>0, <1>6, <2>1 DEF Poll, IInv, TypeOK, Own, Coalesced
<1>7. CASE Read(c)
  BY <1>7 DEF Read, IInv, TypeOK, Own, Coalesced
<1>8. CASE TimerFires(c)
  BY <1>8 DEF TimerFires, Own, Coalesced
<1> QED  BY <1>1, <1>2, <1>3, <1>4, <1>5, <1>6, <1>7, <1>8 DEF Step

LEMMA BodyKept ==
  ASSUME IInv, BodyInv, [Next]_vars
  PROVE  BodyInv'
<1> USE DEF groupVars, bodyVars
<1>1. ASSUME NEW c \in Callers, Read(c)
      PROVE  (\A d \in drained : Coalesced(d) \/ pc[d] = "end")' /\ WholeBody'
  <2>1. local[c].by = c \/ Coalesced(local[c].by)
    BY <1>1, ReturnsFrom DEF Read, BodyInv
  <2>2. pc'[c] = "end" /\ \A d \in Callers : pc[d] = "end" => pc'[d] = "end"
    BY <1>1 DEF Read, IInv, TypeOK
  <2>3. (\A d \in drained : Coalesced(d) \/ pc[d] = "end")'
    BY <1>1, <2>1, <2>2 DEF Read, BodyInv, IInv, TypeOK, Coalesced
  <2>4. Body[c] # "nil" => local[c].by = c /\ c \notin drained
    BY <1>1 DEF Read, BodyInv, Own, IInv, Grouped, Coalesced
  <2>5. WholeBody'
    BY <1>1, <2>4 DEF Read, BodyInv, WholeBody, IInv, TypeOK
  <2> QED  BY <2>3, <2>5
<1>2. ASSUME NEW c \in Callers,
             Direct(c) \/ Lead(c) \/ Join(c) \/ Fetch(c) \/ Publish(c) \/ Poll(c)
      PROVE  (\A d \in drained : Coalesced(d) \/ pc[d] = "end")' /\ WholeBody'
  <2>1. pc[c] # "end" /\ drained' = drained /\ got' = got
        /\ \A d \in Callers : d # c => pc'[d] = pc[d]
    BY <1>2 DEF Direct, Lead, Join, Fetch, Publish, Poll, IInv, TypeOK
  <2> QED  BY <2>1 DEF BodyInv, WholeBody, IInv, TypeOK, Coalesced
<1>3. ASSUME NEW c \in Callers, TimerFires(c)
      PROVE  (\A d \in drained : Coalesced(d) \/ pc[d] = "end")' /\ WholeBody'
  BY <1>3 DEF TimerFires, BodyInv, WholeBody, Coalesced
<1>4. CASE UNCHANGED vars
  BY <1>4 DEF vars, BodyInv, Own, WholeBody, Coalesced
<1>5. CASE Next
  BY <1>1, <1>2, <1>3, <1>5, OwnKept DEF Next, Step, BodyInv
<1> QED  BY <1>4, <1>5

\* proxy/http.go:60, proxy/connect.go:158: whoever has a body of its own reads
\* all of its response, however many share theirs.
THEOREM BodiesWhole == Spec => []WholeBody
<1>1. Init => BodyInv
  BY DEF Init, BodyInv, Own, WholeBody
<1>2. BodyInv => WholeBody  BY DEF BodyInv
<1>3. IInv /\ BodyInv /\ [Next]_vars => BodyInv'  BY BodyKept
<1> QED  BY <1>1, <1>2, <1>3, Invariance, PTL DEF Spec

\* relay.go:313-347: nobody is answered with a fetch for another URL, or with
\* that of a caller who may not share: a response is handed on only from one
\* who may share to another, and between those for the same URL.
OwnAnswer ==
  \A c \in Callers : pc[c] \in {"returned", "end"} =>
    LET d == local[c].by IN
      d = c \/ (Coalesced(c) /\ Coalesced(d) /\ Url[d] = Url[c])

\* relay.go:209-213, 313-347: however groups follow each other in the map and
\* whenever callers look, an answer is the caller's own or its URL's.
THEOREM AnswersAreOwn == Spec => []OwnAnswer
<1>1. Init => Own
  BY DEF Init, Own
<1>2. IInv /\ Own /\ [Next]_vars => Own'
  <2>1. Own /\ UNCHANGED vars => Own'
    BY DEF Own, vars, groupVars, bodyVars, Coalesced
  <2> QED  BY <2>1, OwnKept DEF Next
<1>3. IInv /\ Own => OwnAnswer
  <2> SUFFICES ASSUME IInv, Own, NEW c \in Callers,
                      pc[c] \in {"returned", "end"}, local[c].by # c
               PROVE  /\ Coalesced(c) /\ Coalesced(local[c].by)
                      /\ Url[local[c].by] = Url[c]
    BY DEF OwnAnswer
  <2> DEFINE g == group[c]
  <2>1. g \in Callers /\ g # NoGroup
    BY DEF Own, IInv, TypeOK
  <2>2. local[c] = result[g] /\ result[g].by = g
    BY <2>1 DEF IInv, Returned, Own
  <2>3. Coalesced(g) /\ Coalesced(c) /\ Url[g] = Url[c]
    BY <2>1 DEF IInv, Joined, Grouped, Own
  <2> QED  BY <2>2, <2>3
<1> QED  BY <1>1, <1>2, <1>3, Invariance, PTL DEF Spec

-----------------------------------------------------------------------------
(* What liveness rests on, as far as it is a matter of states.              *)

\* relay.go:326-341: one who waits has a result to find or a leader still on
\* its way to one, and a group in the map has its leader or its clean-up
\* ahead of it: nobody polls a group that is given up.
NobodyStranded ==
  /\ \A c \in Callers : pc[c] = "wait" =>
       done[group[c]] \/ pc[group[c]] \in {"fetch", "publish"}
  /\ \A u \in Urls : coalesceMap[u] # NoGroup =>
       \/ pc[coalesceMap[u]] \in {"fetch", "publish"}
       \/ coalesceMap[u] \in timers

\* relay.go:326-341: whatever fetches fail and however late a caller looks.
THEOREM NoneStranded == Spec => []NobodyStranded
<1>1. IInv => NobodyStranded
  <2> SUFFICES ASSUME IInv PROVE NobodyStranded
    OBVIOUS
  <2>1. ASSUME NEW c \in Callers, pc[c] = "wait", ~done[group[c]]
        PROVE  pc[group[c]] \in {"fetch", "publish"}
    <3>1. Coalesced(c) /\ group[c] # NoGroup /\ Url[c] \in Urls
      BY <2>1, CallerAssumption DEF IInv, Grouped
    <3>2. coalesceMap[Url[c]] = group[c]
      BY <2>1, <3>1 DEF IInv, Joined
    <3>3. group[c] \notin timers
      BY <2>1 DEF IInv, TypeOK
    <3> QED  BY <3>1, <3>2, <3>3 DEF IInv, Entries
  <2>2. \A u \in Urls : coalesceMap[u] # NoGroup =>
          \/ pc[coalesceMap[u]] \in {"fetch", "publish"}
          \/ coalesceMap[u] \in timers
    BY DEF IInv, Entries
  <2> QED  BY <2>1, <2>2 DEF NobodyStranded
<1> QED  BY <1>1, Invariance, PTL

\* GetsCoalesce is not so (relay.go:209), and for one cause only: the body of
\* a GET that is there and empty.  If that of every GET were nil, no two GETs
\* for a URL would be fetched at the same time.
THEOREM NilBodiesCoalesce ==
  ASSUME \A c \in Callers : Method[c] = "GET" => Body[c] = "nil"
  PROVE  Spec => []GetsCoalesce
<1>1. SingleFlight => GetsCoalesce
  BY DEF SingleFlight, GetsCoalesce, Coalesced
<1> QED  BY <1>1, OneFlight, PTL

-----------------------------------------------------------------------------
(* The refinement of SharedFetch, one lemma per action.                     *)

LEMMA InitRefines == Init => Promise!Init
  BY CallerAssumption
  DEF Init, Promise!Init, absPhase, absValue, absState, absOutcome,
      PhaseOf, ValueOf, StateOf, OutcomeOf, Decided

\* What the rounds depend on: the map and the groups in it.
LEMMA SameRounds ==
  ASSUME UNCHANGED <<coalesceMap, done, result>>
  PROVE  absPhase' = absPhase /\ absValue' = absValue
  BY DEF absPhase, absValue, PhaseOf, ValueOf

LEMMA DirectRefines ==
  ASSUME IInv, NEW c \in Callers, Direct(c)
  PROVE  Promise!GoAlone(c)
<1>1. /\ pc[c] = "new" /\ ~Coalesced(c) /\ group[c] = NoGroup
      /\ pc' = [pc EXCEPT ![c] = "fetch"]
      /\ UNCHANGED <<group, local, coalesceMap, done, result>>
  BY DEF Direct, groupVars, IInv, Grouped
<1>2. absPhase' = absPhase /\ absValue' = absValue
  BY <1>1, SameRounds
<1>3. absState[c] = "new" /\ absState' = [absState EXCEPT ![c] = "alone"]
  BY <1>1 DEF absState, StateOf, Decided, IInv, TypeOK
<1>4. absOutcome' = absOutcome
  BY <1>1 DEF absOutcome, OutcomeOf, Decided, IInv, TypeOK
<1> QED  BY <1>1, <1>2, <1>3, <1>4 DEF Promise!GoAlone, Sharers

LEMMA LeadRefines ==
  ASSUME IInv, NEW c \in Callers, Lead(c)
  PROVE  Promise!Wait(c)
<1>0. Url \in [Callers -> Urls] /\ NoGroup \notin Callers
  BY CallerAssumption
<1>1. /\ pc[c] = "new" /\ Coalesced(c) /\ group[c] = NoGroup /\ ~done[c]
      /\ coalesceMap[Url[c]] = NoGroup /\ Url[c] \in Urls
      /\ result[c] = NoValue
      /\ pc' = [pc EXCEPT ![c] = "fetch"]
      /\ group' = [group EXCEPT ![c] = c]
      /\ coalesceMap' = [coalesceMap EXCEPT ![Url[c]] = c]
      /\ UNCHANGED <<local, done, result>>
  BY <1>0 DEF Lead, IInv, Grouped, Results
<1>2. /\ absPhase[Url[c]] # "ready"
      /\ absPhase' = [absPhase EXCEPT ![Url[c]] = "fetching"]
  BY <1>0, <1>1 DEF absPhase, PhaseOf, IInv, TypeOK
<1>3. absValue' = absValue
  BY <1>0, <1>1 DEF absValue, ValueOf, IInv, TypeOK
<1>4. absState[c] = "new" /\ absState' = [absState EXCEPT ![c] = "waiting"]
  BY <1>0, <1>1 DEF absState, StateOf, Decided, IInv, TypeOK
<1>5. absOutcome' = absOutcome
  BY <1>0, <1>1 DEF absOutcome, OutcomeOf, Decided, IInv, TypeOK
<1> QED  BY <1>1, <1>2, <1>3, <1>4, <1>5 DEF Promise!Wait, Sharers

\* Joining a group at work is to wait; joining one that is done is to be
\* answered at once.
LEMMA JoinRefines ==
  ASSUME IInv, NEW c \in Callers, Join(c)
  PROVE  Promise!Wait(c) \/ Promise!Late(c)
<1>0. Url \in [Callers -> Urls] /\ NoGroup \notin Callers
  BY CallerAssumption
<1> DEFINE g == coalesceMap[Url[c]]
<1>1. /\ pc[c] = "new" /\ Coalesced(c) /\ group[c] = NoGroup
      /\ g \in Callers /\ Url[c] \in Urls
      /\ pc' = [pc EXCEPT ![c] = "wait"]
      /\ group' = [group EXCEPT ![c] = g]
      /\ UNCHANGED <<local, coalesceMap, done, result>>
  BY <1>0 DEF Join, groupVars, IInv, TypeOK, Grouped
<1>2. absPhase' = absPhase /\ absValue' = absValue
  BY <1>1, SameRounds
<1>3. absState[c] = "new"
  BY <1>1 DEF absState, StateOf
<1>4. CASE done[g]
  <2>1. absPhase[Url[c]] = "ready" /\ absValue[Url[c]] = result[g]
    BY <1>0, <1>1, <1>4 DEF absPhase, PhaseOf, absValue, ValueOf
  <2>2. absState' = [absState EXCEPT ![c] = "answered"]
    BY <1>0, <1>1, <1>4 DEF absState, StateOf, Decided, IInv, TypeOK
  <2>3. absOutcome' = [absOutcome EXCEPT ![c] = result[g]]
    BY <1>0, <1>1, <1>4 DEF absOutcome, OutcomeOf, Decided, IInv, TypeOK
  <2> QED  BY <1>1, <1>2, <1>3, <2>1, <2>2, <2>3 DEF Promise!Late, Sharers
<1>5. CASE ~done[g]
  <2>1. absPhase[Url[c]] = "fetching"
    BY <1>0, <1>1, <1>5 DEF absPhase, PhaseOf
  <2>2. absPhase' = [absPhase EXCEPT ![Url[c]] = "fetching"]
    BY <1>1, <1>2, <2>1 DEF absPhase
  <2>3. absState' = [absState EXCEPT ![c] = "waiting"]
    BY <1>0, <1>1, <1>5 DEF absState, StateOf, Decided, IInv, TypeOK
  <2>4. absOutcome' = absOutcome
    BY <1>0, <1>1, <1>5 DEF absOutcome, OutcomeOf, Decided, IInv, TypeOK
  <2> QED  BY <1>1, <1>2, <1>3, <2>1, <2>2, <2>3, <2>4
           DEF Promise!Wait, Sharers
<1> QED  BY <1>4, <1>5

\* A leader's own fetch is not seen until it publishes.
LEMMA FetchRefines ==
  ASSUME IInv, NEW c \in Callers, Fetch(c)
  PROVE  \/ UNCHANGED <<absPhase, absValue, absState, absOutcome>>
         \/ \E w \in Values : Promise!ReturnAlone(c, w)
<1>0. NoGroup \notin Callers
  BY CallerAssumption
<1>1. PICK w \in Values : local' = [local EXCEPT ![c] = w]
  BY DEF Fetch, Values
<1>2. /\ pc[c] = "fetch"
      /\ pc' = [pc EXCEPT ![c] =
                  IF group[c] = c THEN "publish" ELSE "returned"]
      /\ UNCHANGED <<group, coalesceMap, done, result>>
  BY DEF Fetch, groupVars
<1>3. absPhase' = absPhase /\ absValue' = absValue
  BY <1>2, SameRounds
<1>4. CASE Coalesced(c)
  <2>1. group[c] = c /\ ~done[c]
    BY <1>2, <1>4 DEF IInv, Leading
  <2>2. absState' = absState
    BY <2>1, <1>0, <1>2 DEF absState, StateOf, Decided, IInv, TypeOK
  <2>3. absOutcome' = absOutcome
    BY <2>1, <1>0, <1>1, <1>2 DEF absOutcome, OutcomeOf, Decided, IInv, TypeOK
  <2> QED  BY <1>3, <2>2, <2>3
<1>5. CASE ~Coalesced(c)
  <2>1. group[c] = NoGroup
    BY <1>5 DEF IInv, Grouped
  <2>2. absState[c] = "alone" /\ absState' = [absState EXCEPT ![c] = "answered"]
    BY <2>1, <1>0, <1>2 DEF absState, StateOf, Decided, IInv, TypeOK
  <2>3. absOutcome' = [absOutcome EXCEPT ![c] = w]
    BY <2>1, <1>0, <1>1, <1>2 DEF absOutcome, OutcomeOf, Decided, IInv, TypeOK
  <2> QED  BY <1>3, <2>2, <2>3 DEF Promise!ReturnAlone
<1> QED  BY <1>4, <1>5

\* Publishing answers all who wait for the URL: they are all in this group.
LEMMA PublishRefines ==
  ASSUME IInv, NEW c \in Callers, Publish(c)
  PROVE  Promise!Finish(Url[c], local[c])
<1>0. Url \in [Callers -> Urls] /\ NoGroup \notin Callers
  BY CallerAssumption
<1>1. /\ pc[c] = "publish" /\ Coalesced(c) /\ group[c] = c
      /\ coalesceMap[Url[c]] = c /\ ~done[c] /\ local[c] \in Values
      /\ Url[c] \in Urls
      /\ pc' = [pc EXCEPT ![c] = "returned"]
      /\ done' = [done EXCEPT ![c] = TRUE]
      /\ result' = [result EXCEPT ![c] = local[c]]
      /\ UNCHANGED <<group, local, coalesceMap>>
  BY <1>0 DEF Publish, IInv, Grouped, Leading, Results
<1>2. \A u \in Urls : coalesceMap[u] = c => u = Url[c]
  BY <1>0 DEF IInv, Entries
<1>3. /\ absPhase[Url[c]] = "fetching"
      /\ absPhase' = [absPhase EXCEPT ![Url[c]] = "ready"]
  BY <1>0, <1>1, <1>2 DEF absPhase, PhaseOf, IInv, TypeOK
<1>4. absValue' = [absValue EXCEPT ![Url[c]] = local[c]]
  BY <1>0, <1>1, <1>2 DEF absValue, ValueOf, IInv, TypeOK
<1>5. ASSUME NEW d \in Callers
      PROVE  absState[d] = "waiting" /\ Url[d] = Url[c] <=> group[d] = c
  <2>1. group[d] = c => /\ Url[d] = Url[c]
                        /\ pc[d] \notin {"new", "returned", "end"}
    BY <1>0, <1>1 DEF IInv, Joined, Grouped, Returned
  <2>2. group[d] = c => absState[d] = "waiting"
    BY <2>1, <1>0, <1>1 DEF absState, StateOf, Decided
  <2>3. ASSUME absState[d] = "waiting", Url[d] = Url[c]
        PROVE  group[d] = c
    <3>1. group[d] # NoGroup /\ ~done[group[d]]
      BY <2>3 DEF absState, StateOf, Decided
    <3> QED  BY <3>1, <2>3, <1>1 DEF IInv, Joined
  <2> QED  BY <2>1, <2>2, <2>3
<1>6. ASSUME NEW d \in Callers
      PROVE  /\ absState'[d] = IF group[d] = c THEN "answered" ELSE absState[d]
             /\ absOutcome'[d] = IF group[d] = c THEN local[c]
                                                 ELSE absOutcome[d]
  <2>1. CASE d = c
    BY <2>1, <1>0, <1>1 DEF absState, StateOf, Decided, absOutcome, OutcomeOf,
                            IInv, TypeOK
  <2>2. CASE d # c /\ group[d] = c
    <3>1. pc[d] \notin {"new", "returned", "end"}
      BY <2>2, <1>0, <1>1 DEF IInv, Grouped, Returned
    <3> QED  BY <3>1, <2>2, <1>0, <1>1
             DEF absState, StateOf, Decided, absOutcome, OutcomeOf,
                 IInv, TypeOK
  <2>3. CASE d # c /\ group[d] # c
    BY <2>3, <1>0, <1>1 DEF absState, StateOf, Decided, absOutcome, OutcomeOf,
                            IInv, TypeOK
  <2> QED  BY <2>1, <2>2, <2>3
<1>7. absState' = [d \in Callers |->
                     IF d \in Promise!Waiting(Url[c]) THEN "answered"
                                                      ELSE absState[d]]
  BY <1>5, <1>6 DEF absState, Promise!Waiting
<1>8. absOutcome' = [d \in Callers |->
                       IF d \in Promise!Waiting(Url[c]) THEN local[c]
                                                        ELSE absOutcome[d]]
  BY <1>5, <1>6 DEF absOutcome, Promise!Waiting
<1> QED  BY <1>3, <1>4, <1>7, <1>8 DEF Promise!Finish

\* One who finds the group done has been answered since it was published.
LEMMA PollRefines ==
  ASSUME IInv, NEW c \in Callers, Poll(c)
  PROVE  UNCHANGED <<absPhase, absValue, absState, absOutcome>>
<1>0. NoGroup \notin Callers
  BY CallerAssumption
<1>1. /\ pc[c] = "wait" /\ group[c] # NoGroup /\ done[group[c]]
      /\ local' = [local EXCEPT ![c] = result[group[c]]]
      /\ pc' = [pc EXCEPT ![c] = "returned"]
      /\ UNCHANGED <<group, coalesceMap, done, result>>
  BY DEF Poll, groupVars, IInv, Grouped
<1>2. absState' = absState
  BY <1>1 DEF absState, StateOf, Decided, IInv, TypeOK
<1>3. absOutcome' = absOutcome
  BY <1>1 DEF absOutcome, OutcomeOf, Decided, IInv, TypeOK
<1> QED  BY <1>1, <1>2, <1>3, SameRounds

LEMMA ReadRefines ==
  ASSUME IInv, NEW c \in Callers, Read(c)
  PROVE  UNCHANGED <<absPhase, absValue, absState, absOutcome>>
<1>1. /\ pc[c] = "returned"
      /\ pc' = [pc EXCEPT ![c] = "end"]
      /\ UNCHANGED <<group, local, coalesceMap, done, result>>
  BY DEF Read, groupVars
<1>2. absState' = absState
  BY <1>1 DEF absState, StateOf, Decided, IInv, TypeOK
<1>3. absOutcome' = absOutcome
  BY <1>1 DEF absOutcome, OutcomeOf, Decided, IInv, TypeOK
<1> QED  BY <1>1, <1>2, <1>3, SameRounds

LEMMA TimerFiresRefines ==
  ASSUME IInv, NEW g \in Callers, TimerFires(g)
  PROVE  Promise!Forget(Url[g])
<1>0. Url \in [Callers -> Urls] /\ NoGroup \notin Callers
  BY CallerAssumption
<1>1. /\ done[g] /\ coalesceMap[Url[g]] = g /\ Url[g] \in Urls
      /\ coalesceMap' = [coalesceMap EXCEPT ![Url[g]] = NoGroup]
      /\ UNCHANGED <<pc, group, local, done, result>>
  BY <1>0 DEF TimerFires, IInv, TypeOK, TimerOwnsEntry
<1>2. /\ absPhase[Url[g]] = "ready"
      /\ absPhase' = [absPhase EXCEPT ![Url[g]] = "idle"]
  BY <1>0, <1>1, ZenonT(60) DEF absPhase, PhaseOf, IInv, TypeOK
<1>3. absValue' = [absValue EXCEPT ![Url[g]] = NoValue]
  BY <1>0, <1>1 DEF absValue, ValueOf, IInv, TypeOK
<1>4. absState' = absState /\ absOutcome' = absOutcome
  BY <1>1 DEF absState, StateOf, absOutcome, OutcomeOf, Decided
<1> QED  BY <1>2, <1>3, <1>4 DEF Promise!Forget

LEMMA StepRefines == IInv /\ [Next]_vars => [Promise!Next]_(Promise!vars)
<1> SUFFICES ASSUME IInv, [Next]_vars
             PROVE  [Promise!Next]_(Promise!vars)
  OBVIOUS
<1>0. Url \in [Callers -> Urls]
  BY CallerAssumption
<1>1. ASSUME NEW c \in Callers, Step(c)
      PROVE  [Promise!Next]_(Promise!vars)
  <2>1. CASE Direct(c)
    BY <2>1, DirectRefines DEF Promise!Next
  <2>2. CASE Lead(c)
    BY <2>2, LeadRefines DEF Promise!Next
  <2>3. CASE Join(c)
    BY <2>3, JoinRefines DEF Promise!Next
  <2>4. CASE Fetch(c)
    BY <2>4, FetchRefines DEF Promise!Next, Promise!vars
  <2>5. CASE Publish(c)
    <3>1. local[c] \in Values
      BY <2>5 DEF Publish, IInv, Results
    <3> QED  BY <2>5, <3>1, <1>0, PublishRefines DEF Promise!Next
  <2>6. CASE Poll(c)
    BY <2>6, PollRefines DEF Promise!vars
  <2>7. CASE Read(c)
    BY <2>7, ReadRefines DEF Promise!vars
  <2> QED  BY <1>1, <2>1, <2>2, <2>3, <2>4, <2>5, <2>6, <2>7 DEF Step
<1>2. ASSUME NEW g \in Callers, TimerFires(g)
      PROVE  [Promise!Next]_(Promise!vars)
  BY <1>0, <1>2, TimerFiresRefines DEF Promise!Next
<1>3. CASE UNCHANGED vars
  BY <1>3 DEF vars, groupVars, Promise!vars, absPhase, absValue, absState,
              absOutcome, PhaseOf, ValueOf, StateOf, OutcomeOf, Decided
<1> QED  BY <1>1, <1>2, <1>3 DEF Next

\* relay.go:313-347: whatever the interleaving of leaders, waiters and
\* clean-ups, callers get what SharedFetch promises: one fetch a round, and
\* the same answer for all of the round.
THEOREM Refinement == Spec => KeepsPromise
<1> QED  BY InitRefines, StepRefines, Invariance, PTL
         DEF Spec, KeepsPromise, Promise!Spec
=============================================================================
