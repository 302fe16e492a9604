---------------------------- MODULE MCProxyControl ----------------------------
(* Instances of ProxyControl for TLC. *)
EXTENDS ProxyControl, TLC

CONSTANTS a1, a2, a3, z1, z2, v1, p, q

\* The user changes the port before the third start.
MCPort == [s \in Servers |-> IF s = a3 THEN q ELSE p]
=============================================================================
