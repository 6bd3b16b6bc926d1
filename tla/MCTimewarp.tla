------------------------------- MODULE MCTimewarp -------------------------------
(***************************************************************************)
(* Small instances of the timewarp clients for TLC.                        *)
(***************************************************************************)
EXTENDS Timewarp

Pair == 0 .. 1

\* The lags of the source in small: the matrix is not symmetric, the events of
\* client 1 come late to client 0 and those of client 0 at once to client 1.
SourceLags ==
    [m \in Client |-> [p \in Client |-> IF p = 1 /\ m = 0 THEN 1 ELSE 0]]

\* local_lag, the same constant in every client.
LocalLag == [m \in Client |-> [p \in Client |-> 1]]

===============================================================================
