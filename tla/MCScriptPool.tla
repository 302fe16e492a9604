----------------------------- MODULE MCScriptPool -----------------------------
(* Instances of ScriptPool for TLC. *)
EXTENDS ScriptPool, TLC

CONSTANTS a, b, r1, r2

\* Two accounts with a script each.
MCTwo == {[script |-> NoScript, list |-> <<a, b>>, accounts |-> <<>>]}

\* Nothing configured; one script; and a script that is cfg.ScriptID and
\* again the first of cfg.ScriptIDs, as the GUI writes it for one account.
MCVarious ==
  {[script |-> NoScript, list |-> <<>>, accounts |-> <<>>],
   [script |-> a, list |-> <<>>, accounts |-> <<>>],
   [script |-> a, list |-> <<a>>, accounts |-> <<b>>]}

MCKeys == [s \in Scripts |-> "k1"]

MCRelay == [r \in Reqs |-> "relay"]
MCMixed == [r \in Reqs |-> IF r = r1 THEN "relay" ELSE "exit"]
MCSingle == [r \in Reqs |-> IF r = r1 THEN "relay" ELSE "single"]
=============================================================================
