---------------------------- MODULE MCController ----------------------------
(* The instance of Controller for TLC: all behaviours in which requests come  *)
(* to one of the three components only, three at most to the configuration    *)
(* and to the hub.  Of two that are alike the first by name comes first, and  *)
(* the login before the logout; the first save changes the settings, the      *)
(* second puts them back.                                                  *)
EXTENDS Controller, FiniteSets

CONSTANTS a1, a2, s1, s2, g1, o1, k1, k2, c1, c2, l1, l2, f1, f2

Limit == 3

ConfigIdle == panel = DefaultConfig(Main) /\ \A r \in Requests : at[r] = "idle"
CAIdle == \A m \in Makers : caPc[m] = "idle"
HubIdle == \A p \in Clients \cup Senders : hubPc[p] = "idle"

Few(pc) == Cardinality({p \in DOMAIN pc : pc[p] # "idle"}) <= Limit
Before(pc, p, q) == pc[p] = "idle" => pc[q] = "idle"

OneActive ==
  \/ /\ CAIdle /\ HubIdle
     /\ Few(at) /\ Before(at, a1, a2) /\ Before(at, s1, s2) /\ Before(at, g1, o1)
     /\ \A s \in Saves : at[s] # "idle" => (data[s].settings = Default <=> s = s2)
  \/ /\ ConfigIdle /\ HubIdle
     /\ Before(caPc, k1, k2)
  \/ /\ ConfigIdle /\ CAIdle
     /\ Few(hubPc)
     /\ Before(hubPc, c1, c2) /\ Before(hubPc, l1, l2) /\ Before(hubPc, f1, f2)

MCSpec == Init /\ [][Next /\ OneActive']_vars /\ Fairness

=============================================================================
