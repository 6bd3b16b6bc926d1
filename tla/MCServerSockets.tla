---------------------------- MODULE MCServerSockets ----------------------------
(***************************************************************************)
(* Small instances of the server with its sockets for TLC.                 *)
(***************************************************************************)
EXTENDS ServerSockets

\* Who sends how much, as in MCBroadcastServer.
FirstOne == [c \in Client |-> IF c = 0 THEN 1 ELSE 0]
FirstTwo == [c \in Client |-> IF c = 0 THEN 2 ELSE 0]
Both     == [c \in Client |-> IF c < 2 THEN 1 ELSE 0]

================================================================================
