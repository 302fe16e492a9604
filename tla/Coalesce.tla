------------------------------- MODULE Coalesce -------------------------------
(***************************************************************************)
(* Request coalescing of fronter/relay.go: the test in Do (209-213) and     *)
(* coalescedGet (313-347), with its groups, the polling of those who wait   *)
(* and the goroutine that drops the group from coalesceMap five seconds     *)
(* after its result is in; and what callers then do with the response they  *)
(* may share (proxy/http.go:55-60, proxy/connect.go:147-161).               *)
(*                                                                         *)
(* Each caller is one call of Do that got past the limiter and the exit     *)
(* node.  A caller that finds no group leads one, which bears its name.     *)
(* The fetch itself - doRequestSingle, or the loop of Do for a caller that  *)
(* is not coalesced - is one step here; ScriptPool opens it up.             *)
(***************************************************************************)
CONSTANTS
  Callers,
  Urls,
  Url,         \* targetURL of each caller
  Method,      \* its method
  Body,        \* its body: "nil", "empty" (not nil) or "data"
  NoGroup,
  NoValue

ASSUME CallerAssumption ==
  /\ Url \in [Callers -> Urls]
  /\ Method \in [Callers -> {"GET", "POST"}]
  /\ Body \in [Callers -> {"nil", "empty", "data"}]
  /\ NoGroup \notin Callers
  /\ NoValue \notin [by : Callers, ok : BOOLEAN]

\* A response or an error, and the caller whose fetch it is.
Values == [by : Callers, ok : BOOLEAN]

VARIABLES
  pc,          \* where each caller stands
  group,       \* the group it leads or has joined
  local,       \* resp and err in its call: what it will return
  coalesceMap, \* r.coalesceMap; its keys are URLs, the method being GET
  done,        \* group.done, by leader
  result,      \* group.result and group.err, by leader
  timers,      \* leaders whose clean-up goroutine sleeps
  drained,     \* fetches whose response body has been read
  got          \* how much of its response body a caller read

groupVars == <<coalesceMap, done, result, timers>>
bodyVars == <<drained, got>>
vars == <<pc, group, local, groupVars, bodyVars>>

TypeOK ==
  /\ pc \in [Callers ->
              {"new", "fetch", "publish", "wait", "returned", "end"}]
  /\ group \in [Callers -> Callers \cup {NoGroup}]
  /\ local \in [Callers -> Values \cup {NoValue}]
  /\ coalesceMap \in [Urls -> Callers \cup {NoGroup}]
  /\ done \in [Callers -> BOOLEAN]
  /\ result \in [Callers -> Values \cup {NoValue}]
  /\ timers \subseteq {c \in Callers : done[c]}
  /\ drained \subseteq Callers
  /\ got \in [Callers -> {"none", "whole", "nothing"}]

Init ==
  /\ pc = [c \in Callers |-> "new"]
  /\ group = [c \in Callers |-> NoGroup]
  /\ local = [c \in Callers |-> NoValue]
  /\ coalesceMap = [u \in Urls |-> NoGroup]
  /\ done = [c \in Callers |-> FALSE]
  /\ result = [c \in Callers |-> NoValue]
  /\ timers = {}
  /\ drained = {}
  /\ got = [c \in Callers |-> "none"]

-----------------------------------------------------------------------------
\* Fault: the test forgets the body.
CoalescedAnyBody(c) == Method[c] = "GET"

\* if method == "GET" && body == nil
Coalesced(c) == Method[c] = "GET" /\ Body[c] = "nil"

\* Not coalesced: Do goes on to its own loop over the scripts.
Direct(c) ==
  /\ pc[c] = "new"
  /\ ~Coalesced(c)
  /\ pc' = [pc EXCEPT ![c] = "fetch"]
  /\ UNCHANGED <<group, local, groupVars, bodyVars>>

\* Fault: the clean-up goroutine is started before the fetch.
LeadTimerFirst(c) ==
  /\ pc[c] = "new"
  /\ Coalesced(c)
  /\ coalesceMap[Url[c]] = NoGroup
  /\ pc' = [pc EXCEPT ![c] = "fetch"]
  /\ group' = [group EXCEPT ![c] = c]
  /\ coalesceMap' = [coalesceMap EXCEPT ![Url[c]] = c]
  /\ timers' = timers \cup {c}
  /\ UNCHANGED <<local, done, result, bodyVars>>

\* coalescedGet finds no group and enters one, under coalesceMu.
Lead(c) ==
  /\ pc[c] = "new"
  /\ Coalesced(c)
  /\ coalesceMap[Url[c]] = NoGroup
  /\ pc' = [pc EXCEPT ![c] = "fetch"]
  /\ group' = [group EXCEPT ![c] = c]
  /\ coalesceMap' = [coalesceMap EXCEPT ![Url[c]] = c]
  /\ UNCHANGED <<local, done, result, timers, bodyVars>>

\* coalescedGet finds a group, finished or not.
Join(c) ==
  /\ pc[c] = "new"
  /\ Coalesced(c)
  /\ coalesceMap[Url[c]] # NoGroup
  /\ pc' = [pc EXCEPT ![c] = "wait"]
  /\ group' = [group EXCEPT ![c] = coalesceMap[Url[c]]]
  /\ UNCHANGED <<local, groupVars, bodyVars>>

\* The fetch of a leader, or of a caller on its own, returns.
Fetch(c) ==
  /\ pc[c] = "fetch"
  /\ \E ok \in BOOLEAN : local' = [local EXCEPT ![c] = [by |-> c, ok |-> ok]]
  /\ pc' = [pc EXCEPT ![c] = IF group[c] = c THEN "publish" ELSE "returned"]
  /\ UNCHANGED <<group, groupVars, bodyVars>>

\* Fault: the leader returns an error before it has marked the group done.
PublishOkOnly(c) ==
  /\ pc[c] = "publish"
  /\ done' = [done EXCEPT ![c] = local[c].ok]
  /\ result' = [result EXCEPT ![c] = local[c]]
  /\ timers' = timers \cup {c}
  /\ pc' = [pc EXCEPT ![c] = "returned"]
  /\ UNCHANGED <<group, local, coalesceMap, bodyVars>>

\* Fault: no clean-up goroutine after an error.
PublishNoTimer(c) ==
  /\ pc[c] = "publish"
  /\ done' = [done EXCEPT ![c] = TRUE]
  /\ result' = [result EXCEPT ![c] = local[c]]
  /\ timers' = IF local[c].ok THEN timers \cup {c} ELSE timers
  /\ pc' = [pc EXCEPT ![c] = "returned"]
  /\ UNCHANGED <<group, local, coalesceMap, bodyVars>>

\* The leader writes the group under its lock, starts the clean-up goroutine
\* and returns.
Publish(c) ==
  /\ pc[c] = "publish"
  /\ done' = [done EXCEPT ![c] = TRUE]
  /\ result' = [result EXCEPT ![c] = local[c]]
  /\ timers' = timers \cup {c}
  /\ pc' = [pc EXCEPT ![c] = "returned"]
  /\ UNCHANGED <<group, local, coalesceMap, bodyVars>>

\* Fault: one who waits looks at the result without looking at done.
PollImpatient(c) ==
  /\ pc[c] = "wait"
  /\ local' = [local EXCEPT ![c] = result[group[c]]]
  /\ pc' = [pc EXCEPT ![c] = "returned"]
  /\ UNCHANGED <<group, groupVars, bodyVars>>

\* One who waits looks again, every 10 ms, and finds the group done.  It
\* returns the very response its leader returned.
Poll(c) ==
  /\ pc[c] = "wait"
  /\ done[group[c]]
  /\ local' = [local EXCEPT ![c] = result[group[c]]]
  /\ pc' = [pc EXCEPT ![c] = "returned"]
  /\ UNCHANGED <<group, groupVars, bodyVars>>

\* The clean-up goroutine wakes and deletes the key, whatever it maps to.
TimerFires(g) ==
  /\ g \in timers
  /\ coalesceMap' = [coalesceMap EXCEPT ![Url[g]] = NoGroup]
  /\ timers' = timers \ {g}
  /\ UNCHANGED <<pc, group, local, done, result, bodyVars>>

\* The caller writes the response to its client, which reads the body to its
\* end; an error is answered with a 502.  Whoever holds the same response
\* later finds the body at its end.
Read(c) ==
  /\ pc[c] = "returned"
  /\ pc' = [pc EXCEPT ![c] = "end"]
  /\ IF local[c].ok
     THEN /\ got' = [got EXCEPT ![c] =
                       IF local[c].by \in drained THEN "nothing" ELSE "whole"]
          /\ drained' = drained \cup {local[c].by}
     ELSE UNCHANGED bodyVars
  /\ UNCHANGED <<group, local, groupVars>>

Step(c) ==
  \/ Direct(c) \/ Lead(c) \/ Join(c)
  \/ Fetch(c) \/ Publish(c) \/ Poll(c) \/ Read(c)

Next == \E c \in Callers : Step(c) \/ TimerFires(c)

Spec == Init /\ [][Next]_vars

\* A call that has been made runs on, a fetch ends, if only by the client's
\* 25-second timeout, and a sleeping goroutine wakes.  Callers need not come.
Fairness ==
  \A c \in Callers :
    /\ WF_vars(Fetch(c))
    /\ WF_vars(Publish(c))
    /\ WF_vars(Poll(c))
    /\ WF_vars(Read(c))
    /\ WF_vars(TimerFires(c))

FairSpec == Spec /\ Fairness

-----------------------------------------------------------------------------
(* Safety.                                                                  *)

\* relay.go:314-318: of all the callers of a URL that may share, at most one
\* fetches, at any time and over any succession of groups.
SingleFlight ==
  \A c, d \in Callers :
    (/\ Coalesced(c) /\ pc[c] \in {"fetch", "publish"}
     /\ Coalesced(d) /\ pc[d] \in {"fetch", "publish"}
     /\ Url[c] = Url[d])
       => c = d

\* relay.go:326-331: the clean-up deletes by key, not by group; it is the
\* group it was started for that it deletes, never one that came after.
TimerOwnsEntry ==
  \A g \in timers : coalesceMap[Url[g]] = g

\* proxy/http.go:60, proxy/connect.go:158: a caller with a body that is not
\* nil, as both handlers' always is, can write all of the response's body to
\* its client: nobody else is handed that response.
WholeBody ==
  \A c \in Callers : Body[c] # "nil" => got[c] # "nothing"

\* A caller whose group is done is answered, though it has not looked yet.
Decided(c) == group[c] # NoGroup /\ done[group[c]]

StateOf(c) ==
  IF pc[c] = "new" THEN "new"
  ELSE IF pc[c] \in {"returned", "end"} \/ Decided(c) THEN "answered"
  ELSE IF group[c] = NoGroup THEN "alone" ELSE "waiting"

OutcomeOf(c) ==
  IF pc[c] \in {"returned", "end"} THEN local[c]
  ELSE IF Decided(c) THEN result[group[c]] ELSE NoValue

\* A group is the round of its URL while it is in the map.
PhaseOf(u) ==
  IF coalesceMap[u] = NoGroup THEN "idle"
  ELSE IF done[coalesceMap[u]] THEN "ready" ELSE "fetching"

ValueOf(u) ==
  IF coalesceMap[u] = NoGroup THEN NoValue ELSE result[coalesceMap[u]]

absPhase == [u \in Urls |-> PhaseOf(u)]
absValue == [u \in Urls |-> ValueOf(u)]
absState == [c \in Callers |-> StateOf(c)]
absOutcome == [c \in Callers |-> OutcomeOf(c)]
Sharers == {c \in Callers : Coalesced(c)}

Promise == INSTANCE SharedFetch WITH
  Sharing <- Sharers, phase <- absPhase, value <- absValue,
  state <- absState, outcome <- absOutcome

\* relay.go:313-347: callers see what SharedFetch promises.
KeepsPromise == Promise!Spec

-----------------------------------------------------------------------------
(* Liveness.                                                                *)

\* relay.go:336-341: one who waits is released, though the leader's fetch
\* fails and though its group is gone from the map before it looks again.
WaitersReturn ==
  \A c \in Callers : pc[c] = "wait" ~> pc[c] = "end"

\* relay.go:326-331: a result is not kept for good.
EntriesForgotten ==
  \A u \in Urls : coalesceMap[u] # NoGroup ~> coalesceMap[u] = NoGroup

-----------------------------------------------------------------------------
(* What the repository says of coalescing, and the program does not do.     *)

\* relay.go:209, "Coalescing for GET requests": two GET requests for the same
\* URL are never fetched at the same time.
GetsCoalesce ==
  \A c, d \in Callers :
    (/\ Method[c] = "GET" /\ pc[c] = "fetch"
     /\ Method[d] = "GET" /\ pc[d] = "fetch"
     /\ Url[c] = Url[d])
       => c = d
=============================================================================
