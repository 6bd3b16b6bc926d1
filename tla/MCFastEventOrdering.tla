-------------------------- MODULE MCFastEventOrdering --------------------------
(***************************************************************************)
(* A small instance of fast event ordering for TLC.                        *)
(***************************************************************************)
EXTENDS FastEventOrdering

\* Each client is one frame away from the other: the first is shifted against
\* the second, which is the reference.
Apart == [m \in Client |-> [p \in Client |-> IF m = p THEN 0 ELSE 1]]

================================================================================
