----------------------------- MODULE MCSimulation -----------------------------
(***************************************************************************)
(* A small instance of the simulation for TLC.                             *)
(***************************************************************************)
EXTENDS Simulation

\* The right and the left key.
RightLeft == {<<0, TRUE>>, <<0, FALSE>>, <<2, TRUE>>}
\* The memory a state is read into: clear, or with something left there.
OldSet == {0, 7}

================================================================================
