------------------------------ MODULE Controller ------------------------------
(***************************************************************************)
(* What one process of the program holds beside the proxy: configuration,    *)
(* certificate authority, status and log hub.  They meet where it ends: the   *)
(* window is closed, or a goroutine of one of them panics, and all of them    *)
(* lose what is in memory; then StartGUI begins anew (gui/server.go:502-561). *)
(***************************************************************************)
EXTENDS Configuration, CAStore, LogHub

vars == <<configVars, caVars, hubVars>>

TypeOK == ConfigTypeOK /\ CATypeOK /\ HubTypeOK

Init == ConfigInit /\ CAInit /\ HubInit

Restart == ConfigRestart /\ CARestart /\ HubRestart

Dies == (CAPanic \/ HubPanic) /\ Restart

Next ==
  \/ ConfigNext /\ UNCHANGED <<caVars, hubVars>>
  \/ CANext /\ UNCHANGED <<configVars, hubVars>>
  \/ HubNext /\ UNCHANGED <<configVars, caVars>>
  \/ Dies
  \/ Restart

Spec == Init /\ [][Next]_vars

\* Every goroutine goes on, and a panic ends the program; nobody has to come,
\* to read, or to close the window.
Fairness == HubFairness /\ WF_vars(Dies)

=============================================================================
