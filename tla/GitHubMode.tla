----------------------------- MODULE GitHubMode -----------------------------
(***************************************************************************)
(* The GitHub section of the panel: Codespaces and the Xray that connects    *)
(* through one, which meet where handleXrayStart reads the VLESS link of     *)
(* ghState without its mutex (gui/github_codespace.go:516-520).             *)
(***************************************************************************)
EXTENDS Codespace, XrayProcess

vars == <<csVars, xrayVars>>

TypeOK == CodespaceTypeOK /\ XrayTypeOK

HasVLESS == ghState.codespace.name # None

Init == CodespaceInit /\ XrayInit

\* The window is closed, and StartGUI begins anew.
Restart == CodespaceRestart /\ XrayRestart

Next ==
  \/ CodespaceNext /\ UNCHANGED xrayVars
  \/ XrayNext(HasVLESS) /\ UNCHANGED csVars
  \/ Restart

Spec == Init /\ [][Next]_vars

FairSpec == Spec /\ JobFairness

=============================================================================
