-------------------------------- MODULE RecvPool --------------------------------
(***************************************************************************)
(* The receive pool of a client (src/src/recvpool.c): a thread that reads  *)
(* the connection, cuts the stream into packets and pushes them to a       *)
(* linked list under a mutex, and the client's own thread, which in every  *)
(* frame retrieves packets until there is none left.                       *)
(*                                                                         *)
(* The n-th packet of the stream is put into node n, as every push         *)
(* allocates a node: an address that malloc gives out again is not told    *)
(* apart from a new one, but freed nodes are remembered as such.           *)
(***************************************************************************)
EXTENDS Integers, SequencesExt

CONSTANTS
    Packets,  \* bound: how many packets the server sends
    Bad,      \* those that packet_deserialize rejects
    Tails     \* what a recv may leave of an incomplete packet (see partial)

ASSUME RecvPoolConstants ==
    /\ Packets \in Nat
    /\ Bad \subseteq 1 .. Packets
    /\ Tails \subseteq {1, 2}

Node == 1 .. Packets
Null == 0

VARIABLES
    sent,     \* packets the server has sent
    closed,   \* the server has closed the connection
    got,      \* complete packets received
    partial,  \* of the next packet: 0 nothing, 1 at most 2 bytes, 2 more
    cut,      \* packets cut off the vector and pushed
    pc,       \* where the pool's thread is
    mutex,    \* who holds pqueue.mutex
    head, tail, next,
    heap,     \* each node: not allocated, in use, or freed
    client,   \* where the client's thread is
    node,     \* the node it has popped
    taken,    \* nodes popped
    given     \* packets that recvpool_retrieve has returned

stream == <<sent, closed>>
reader == <<got, partial, cut, pc>>
queue  == <<head, tail, next>>
owner  == <<client, node, taken, given>>
vars == <<sent, closed, got, partial, cut, pc, mutex, head, tail, next, heap,
          client, node, taken, given>>

\* recvpool_start: an empty queue, and the thread before its first recv.
Init ==
    /\ sent = 0 /\ closed = FALSE
    /\ got = 0 /\ partial = 0 /\ cut = 0 /\ pc = "recv"
    /\ mutex = "free"
    /\ head = Null /\ tail = Null
    /\ next = [n \in Node |-> Null]
    /\ heap = [n \in Node |-> "new"]
    /\ client = "run" /\ node = Null /\ taken = <<>> /\ given = <<>>

-------------------------------------------------------------------------------
(* The server at the other end *)

Send ==
    /\ ~ closed
    /\ sent < Packets
    /\ sent' = sent + 1
    /\ UNCHANGED <<closed, reader, mutex, queue, heap, owner>>

Close ==
    /\ closed' = TRUE
    /\ UNCHANGED <<sent, reader, mutex, queue, heap, owner>>

-------------------------------------------------------------------------------
(* thread, the pool's own *)

Recv ==
    /\ pc = "recv"
    /\ \E g \in got .. sent, t \in Tails \cup {0} :
         /\ g > got \/ t > partial
         /\ t > 0 => g < sent
         /\ got' = g
         /\ partial' = t
    /\ pc' = "cut"
    /\ UNCHANGED <<stream, cut, mutex, queue, heap, owner>>

\* Mutant: the end of the stream is taken for an error and tried again.
RecvEnd_Retry ==
    /\ pc = "recv"
    /\ closed /\ got = sent
    /\ UNCHANGED vars

RecvEnd ==
    /\ pc = "recv"
    /\ closed /\ got = sent
    /\ pc' = "ended"
    /\ UNCHANGED <<stream, got, partial, cut, mutex, queue, heap, owner>>

\* The loop over the vector ends: as in the server it does not, and the thread
\* receives no more, with more than 2 bytes of an incomplete packet.
CutDone ==
    /\ pc = "cut"
    /\ cut = got
    /\ partial < 2
    /\ pc' = "recv"
    /\ UNCHANGED <<stream, got, partial, cut, mutex, queue, heap, owner>>

\* Mutant: the packet is taken off the vector before it is complete.
PushLock_Incomplete ==
    /\ pc = "cut"
    /\ cut <= got
    /\ mutex = "free"
    /\ mutex' = "pool"
    /\ heap' = [heap EXCEPT ![cut + 1] = "used"]
    /\ next' = [next EXCEPT ![cut + 1] = Null]
    /\ pc' = "link"
    /\ UNCHANGED <<stream, got, partial, cut, head, tail, owner>>

\* A complete packet is in front: pqueue_push locks and makes a node of it.
PushLock ==
    /\ pc = "cut"
    /\ cut < got
    /\ mutex = "free"
    /\ mutex' = "pool"
    /\ heap' = [heap EXCEPT ![cut + 1] = "used"]
    /\ next' = [next EXCEPT ![cut + 1] = Null]
    /\ pc' = "link"
    /\ UNCHANGED <<stream, got, partial, cut, head, tail, owner>>

\* pqueue_push is over, and the packet is moved out of the vector.
PushUnlock ==
    /\ mutex' = "free"
    /\ cut' = cut + 1
    /\ pc' = "cut"

PushFirst ==
    /\ pc = "link"
    /\ head = Null
    /\ head' = cut + 1
    /\ tail' = cut + 1
    /\ PushUnlock
    /\ UNCHANGED <<stream, got, partial, next, heap, owner>>

PushLast ==
    /\ pc = "link"
    /\ head # Null
    /\ next' = [next EXCEPT ![tail] = cut + 1]
    /\ pc' = "tail"
    /\ UNCHANGED <<stream, got, partial, cut, mutex, head, tail, heap, owner>>

\* Mutant: the last node stays what it was.
PushTail_Missing ==
    /\ pc = "tail"
    /\ PushUnlock
    /\ UNCHANGED <<stream, got, partial, queue, heap, owner>>

PushTail ==
    /\ pc = "tail"
    /\ tail' = cut + 1
    /\ PushUnlock
    /\ UNCHANGED <<stream, got, partial, head, next, heap, owner>>

-------------------------------------------------------------------------------
(* recvpool_retrieve and recvpool_join, called by the client *)

\* The client begins to retrieve, as it does in every frame.
Drain ==
    /\ client = "run"
    /\ client' = "lock"
    /\ UNCHANGED <<stream, reader, mutex, queue, heap, node, taken, given>>

\* Mutant: the queue is read without its mutex.
PopLock_NoMutex ==
    /\ client = "lock"
    /\ node' = head
    /\ client' = "pop"
    /\ UNCHANGED <<stream, reader, mutex, queue, heap, taken, given>>

PopLock ==
    /\ client = "lock"
    /\ mutex = "free"
    /\ mutex' = "client"
    /\ node' = head
    /\ client' = "pop"
    /\ UNCHANGED <<stream, reader, queue, heap, taken, given>>

\* The queue is empty, and the client's loop over it ends.
PopNothing ==
    /\ client = "pop"
    /\ node = Null
    /\ mutex' = "free"
    /\ client' = "run"
    /\ UNCHANGED <<stream, reader, queue, heap, node, taken, given>>

PopHead ==
    /\ client = "pop"
    /\ node # Null
    /\ head' = next[head]
    /\ client' = "tail"
    /\ UNCHANGED <<stream, reader, mutex, tail, next, heap, node, taken, given>>

PopTail ==
    /\ client = "tail"
    /\ tail' = IF head = Null THEN Null ELSE tail
    /\ mutex' = "free"
    /\ taken' = Append(taken, node)
    /\ client' = "parse"
    /\ UNCHANGED <<stream, reader, head, next, heap, node, given>>

\* Mutant: a packet that was parsed is not freed.
Parse_NoFree ==
    /\ client = "parse"
    /\ IF node \in Bad
         THEN client' = "run" /\ UNCHANGED <<given, heap>>
         ELSE /\ given' = Append(given, node)
              /\ client' = "lock"
              /\ UNCHANGED heap
    /\ UNCHANGED <<stream, reader, mutex, queue, node, taken>>

\* A packet that cannot be parsed ends the client's loop as an empty queue
\* does, and its node is not freed; one that can is returned and freed.
Parse ==
    /\ client = "parse"
    /\ IF node \in Bad
         THEN client' = "run" /\ UNCHANGED <<given, heap>>
         ELSE /\ given' = Append(given, node)
              /\ heap' = [heap EXCEPT ![node] = "freed"]
              /\ client' = "lock"
    /\ UNCHANGED <<stream, reader, mutex, queue, node, taken>>

Quit ==
    /\ client = "run"
    /\ client' = "join"
    /\ UNCHANGED <<stream, reader, mutex, queue, heap, node, taken, given>>

\* The nodes of the list from n on.
Chain[n \in Node \cup {Null}] == IF n = Null THEN {} ELSE {n} \cup Chain[next[n]]

\* recvpool_join waits for the thread, then frees what is in the queue.
Join ==
    /\ client = "join"
    /\ pc = "ended"
    /\ heap' = [n \in Node |-> IF n \in Chain[head] THEN "freed" ELSE heap[n]]
    /\ client' = "joined"
    /\ UNCHANGED <<stream, reader, mutex, queue, node, taken, given>>

-------------------------------------------------------------------------------
Thread ==
    Recv \/ RecvEnd \/ CutDone \/ PushLock \/ PushFirst \/ PushLast \/ PushTail

Retrieve == Drain \/ PopLock \/ PopNothing \/ PopHead \/ PopTail \/ Parse

Next == Send \/ Close \/ Thread \/ Retrieve \/ Quit \/ Join

Spec == Init /\ [][Next]_vars

\* Both threads run.  The client sleeps between two frames with the mutex free,
\* so that the pool's thread gets it in the end.
Fairness ==
    /\ WF_vars(Thread) /\ SF_vars(PushLock)
    /\ WF_vars(Retrieve) /\ WF_vars(Join)

FairSpec == Spec /\ Fairness

-------------------------------------------------------------------------------

TypeOK ==
    /\ sent \in 0 .. Packets /\ closed \in BOOLEAN
    /\ got \in 0 .. Packets /\ partial \in 0 .. 2 /\ cut \in 0 .. Packets
    /\ pc \in {"recv", "cut", "link", "tail", "ended"}
    /\ mutex \in {"free", "pool", "client"}
    /\ head \in Node \cup {Null} /\ tail \in Node \cup {Null}
    /\ next \in [Node -> Node \cup {Null}]
    /\ heap \in [Node -> {"new", "used", "freed"}]
    /\ client \in {"run", "lock", "pop", "tail", "parse", "join", "joined"}
    /\ node \in Node \cup {Null}
    /\ taken \in Seq(Node) /\ given \in Seq(Node)

\* The packets that have been linked and not yet taken.
Queued ==
    LET linked == IF pc = "tail" THEN cut + 1 ELSE cut IN
      [i \in 1 .. linked - Len(taken) |-> Len(taken) + i]

\* The linked list is a queue: whatever the order in which the two threads get
\* at it, the client takes every packet once, in the order of the stream.
Fifo == INSTANCE PacketQueue WITH queue <- Queued
IsFifo == Fifo!Spec

\* No thread can reach a node that is not in use: neither in the queue, nor at
\* the end of it, where push writes, nor the one popped.
NodesInUse ==
    /\ client # "joined" /\ head # Null => heap[head] = "used"
    /\ client # "joined" =>
         \A n \in Node :
           heap[n] = "used" /\ ~ Contains(taken, n) /\ next[n] # Null =>
             heap[next[n]] = "used"
    /\ pc \in {"link", "tail"} /\ head # Null => tail # Null /\ heap[tail] = "used"
    /\ client \in {"pop", "tail", "parse"} /\ node # Null => heap[node] = "used"

\* When the pool has been joined all is freed but the packets that could not be
\* parsed.
OnlyBadLeaked ==
    client = "joined" =>
      \A n \in Node : heap[n] = "used" => n \in Bad /\ Contains(taken, n)

\* Every packet that is sent and can be parsed is given to the client in the
\* end, if it goes on retrieving.
Received ==
    \A n \in Node \ Bad :
      (sent >= n) ~> (Contains(given, n) \/ client \in {"join", "joined"})

\* A client that joins the pool goes on once the server has closed.
JoinReturns == (client = "join" /\ closed) ~> (client = "joined")

================================================================================
