--------------------------- MODULE MCDeadReckoning ---------------------------
(***************************************************************************)
(* Small instances of dead reckoning for TLC.                              *)
(***************************************************************************)
EXTENDS DeadReckoning

\* The lags of the source in small: the second player gets its states late, and
\* both execute their own events some frames after the summoning.
SourceInputLags == [c \in Client |-> IF c = 1 THEN 1 ELSE 0]
SourceLocalLags == [c \in Client |-> 1]

\* One player uses its keys, the other one is there.
FirstKeys == [c \in Client |-> IF c = 0 THEN 1 ELSE 0]

==============================================================================
