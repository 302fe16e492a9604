------------------------------ MODULE MCCoalesce ------------------------------
(* Instances of Coalesce for TLC. *)
EXTENDS Coalesce, TLC

CONSTANTS c1, c2, c3, c4, u, v

\* Three callers of one URL that may share, and one that may not, for its
\* body is not nil.
MCUrl == [c \in Callers |-> u]
MCMethod == [c \in Callers |-> "GET"]
MCNilBody == [c \in Callers |-> IF c = c4 THEN "empty" ELSE "nil"]

\* The callers of the program: handleHTTP and handleMITMRelay hand over what
\* io.ReadAll returned, which is empty but never nil for a GET.
MCProxyUrl == [c \in Callers |-> IF c = c4 THEN v ELSE u]
MCProxyMethod == [c \in Callers |-> IF c = c3 THEN "POST" ELSE "GET"]
MCProxyBody == [c \in Callers |-> IF c = c3 THEN "data" ELSE "empty"]
=============================================================================
