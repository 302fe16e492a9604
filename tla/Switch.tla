-------------------------------- MODULE Switch --------------------------------
(***************************************************************************)
(* What turning the proxy on and off promises to a user who waits for one    *)
(* to end before the next (gui/server.go:613-648), with nothing said of       *)
(* globals, handlers, listeners or the goroutines behind them: the status     *)
(* goes on first, then something serves or the status goes off again;         *)
(* what serves is taken off first, and the status follows.  One server        *)
(* serves at a time, only under a status that says so, and never again once   *)
(* it was taken off.                                                       *)
(***************************************************************************)
CONSTANT Servers

VARIABLES
  status,   \* what the panel shows
  serving,  \* servers that take connections
  retired,  \* servers that did
  turn      \* what is under way: "none", "on" or "off"

vars == <<status, serving, retired, turn>>

Init ==
  /\ status = FALSE /\ serving = {} /\ retired = {}
  /\ turn = "none"

TurnOn ==
  /\ turn = "none" /\ ~status /\ serving = {}
  /\ turn' = "on" /\ status' = TRUE
  /\ UNCHANGED <<serving, retired>>

Serve(s) ==
  /\ turn = "on" /\ status /\ serving = {} /\ s \notin retired
  /\ turn' = "none" /\ serving' = {s}
  /\ UNCHANGED <<status, retired>>

Fail ==
  /\ turn = "on" /\ serving = {}
  /\ turn' = "none" /\ status' = FALSE
  /\ UNCHANGED <<serving, retired>>

TurnOff(s) ==
  /\ turn = "none" /\ status /\ serving = {s}
  /\ turn' = "off" /\ serving' = {} /\ retired' = retired \cup {s}
  /\ UNCHANGED status

Say ==
  /\ turn = "off" /\ serving = {}
  /\ turn' = "none" /\ status' = FALSE
  /\ UNCHANGED <<serving, retired>>

Next ==
  \/ TurnOn \/ Fail \/ Say
  \/ \E s \in Servers : Serve(s) \/ TurnOff(s)

Spec == Init /\ [][Next]_vars
=============================================================================
