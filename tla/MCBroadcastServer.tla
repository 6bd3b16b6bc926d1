--------------------------- MODULE MCBroadcastServer ---------------------------
(***************************************************************************)
(* Small instances of the broadcast server for TLC.                        *)
(***************************************************************************)
EXTENDS BroadcastServer

\* Who sends how much: one packet is enough for a newcomer to be registered
\* between the history and the broadcast of it, the second shows the order.
FirstOne  == [c \in Client |-> IF c = 0 THEN 1 ELSE 0]
FirstTwo  == [c \in Client |-> IF c = 0 THEN 2 ELSE 0]

===============================================================================
