----------------------------- MODULE MCGitHubMode -----------------------------
(* The instance of GitHubMode for TLC: every interleaving of the Codespace   *)
(* requests without Xray, and of Xray's beside a Codespace that one login,   *)
(* one create and one delete make come and go.                               *)
EXTENDS GitHubMode

CONSTANTS l1, c1, d1

XrayIdle == \A x \in Cmds \cup XrayStops : xpc[x] = "idle"

OneCodespace == \A c \in Calls \ {l1, c1, d1} : at[c] = "idle"

MCSpec == Init /\ [][Next /\ (XrayIdle \/ OneCodespace)']_vars /\ JobFairness

=============================================================================
