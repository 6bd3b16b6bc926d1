------------------------------ MODULE PacketQueue ------------------------------
(***************************************************************************)
(* What the receive pool promises to a client: the packets of the stream,  *)
(* in the order in which they were sent, each of them once.                *)
(***************************************************************************)
EXTENDS Naturals, Sequences

VARIABLES
    queue,  \* numbers of the packets received and not yet taken
    taken   \* numbers of the packets taken by the client

Init == queue = <<>> /\ taken = <<>>

Put ==
    /\ queue' = Append(queue, Len(taken) + Len(queue) + 1)
    /\ UNCHANGED taken

Take ==
    /\ queue # <<>>
    /\ taken' = Append(taken, Head(queue))
    /\ queue' = Tail(queue)

Next == Put \/ Take

Spec == Init /\ [][Next]_<<queue, taken>>

================================================================================
