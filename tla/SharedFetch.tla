------------------------------ MODULE SharedFetch ------------------------------
(***************************************************************************)
(* What coalescing promises its callers (fronter/relay.go:209-213,          *)
(* 313-347), with nothing said of groups, locks, polling or timers: the     *)
(* callers of one URL that may share a fetch gather in rounds.  A round has *)
(* one fetch; when it ends, all who wait are answered alike, at once, and   *)
(* those who come before the round is forgotten get the same answer.        *)
(***************************************************************************)
CONSTANTS
  Callers,
  Urls,
  Url,        \* the URL each caller asks for
  Sharing,    \* callers that may share a fetch
  Values,     \* what a fetch can return
  NoValue

VARIABLES
  phase,      \* of the round of each URL: "idle", "fetching" or "ready"
  value,      \* what its fetch returned
  state,      \* of each caller: "new", "waiting", "alone" or "answered"
  outcome     \* what each caller was answered

vars == <<phase, value, state, outcome>>

Init ==
  /\ phase = [u \in Urls |-> "idle"]
  /\ value = [u \in Urls |-> NoValue]
  /\ state = [c \in Callers |-> "new"]
  /\ outcome = [c \in Callers |-> NoValue]

\* The first caller opens the round and fetches for it; others wait.
Wait(c) ==
  /\ c \in Sharing
  /\ state[c] = "new"
  /\ phase[Url[c]] # "ready"
  /\ phase' = [phase EXCEPT ![Url[c]] = "fetching"]
  /\ state' = [state EXCEPT ![c] = "waiting"]
  /\ UNCHANGED <<value, outcome>>

\* A late caller is answered with what the round has.
Late(c) ==
  /\ c \in Sharing
  /\ state[c] = "new"
  /\ phase[Url[c]] = "ready"
  /\ state' = [state EXCEPT ![c] = "answered"]
  /\ outcome' = [outcome EXCEPT ![c] = value[Url[c]]]
  /\ UNCHANGED <<phase, value>>

Waiting(u) == {c \in Callers : state[c] = "waiting" /\ Url[c] = u}

\* The fetch of the round ends: everyone who waits is answered.
Finish(u, v) ==
  /\ phase[u] = "fetching"
  /\ phase' = [phase EXCEPT ![u] = "ready"]
  /\ value' = [value EXCEPT ![u] = v]
  /\ state' = [c \in Callers |->
                 IF c \in Waiting(u) THEN "answered" ELSE state[c]]
  /\ outcome' = [c \in Callers |->
                   IF c \in Waiting(u) THEN v ELSE outcome[c]]

\* The round is over; the next caller opens another.
Forget(u) ==
  /\ phase[u] = "ready"
  /\ phase' = [phase EXCEPT ![u] = "idle"]
  /\ value' = [value EXCEPT ![u] = NoValue]
  /\ UNCHANGED <<state, outcome>>

\* A caller that may not share has a fetch of its own.
GoAlone(c) ==
  /\ c \notin Sharing
  /\ state[c] = "new"
  /\ state' = [state EXCEPT ![c] = "alone"]
  /\ UNCHANGED <<phase, value, outcome>>

ReturnAlone(c, v) ==
  /\ state[c] = "alone"
  /\ state' = [state EXCEPT ![c] = "answered"]
  /\ outcome' = [outcome EXCEPT ![c] = v]
  /\ UNCHANGED <<phase, value>>

Next ==
  \/ \E c \in Callers : Wait(c) \/ Late(c) \/ GoAlone(c)
  \/ \E c \in Callers, v \in Values : ReturnAlone(c, v)
  \/ \E u \in Urls : Forget(u) \/ \E v \in Values : Finish(u, v)

Spec == Init /\ [][Next]_vars
=============================================================================
