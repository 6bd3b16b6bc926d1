----------------------------- MODULE RecvPoolProofs -----------------------------
(***************************************************************************)
(* Proofs about the receive pool, for any number of packets, whichever of  *)
(* them cannot be parsed, and every way in which the stream is received:   *)
(* the linked list that two threads share is a queue.                      *)
(***************************************************************************)
EXTENDS RecvPool, WellFoundedInduction, TLAPS

\* The last node of the list, and how many nodes are out of it.
Linked == IF pc = "tail" THEN cut + 1 ELSE cut
Popped == IF client = "tail" THEN Len(taken) + 1 ELSE Len(taken)

\* What is cut off has been received, what is received has been sent.
CountInv ==
    /\ cut <= got /\ got <= sent
    /\ pc \in {"link", "tail"} => cut < got
    /\ client = "joined" => pc = "ended"

\* Each thread holds the mutex exactly while it is in pqueue_push or pqueue_pop.
MutexInv ==
    /\ mutex = "pool" <=> pc \in {"link", "tail"}
    /\ mutex = "client" <=> client \in {"pop", "tail"}

\* The nodes were taken in their order, and the one in hand is the next, or, when
\* it is being parsed, the last of them.
TakenInv ==
    /\ \A i \in 1 .. Len(taken) : taken[i] = i
    /\ client = "pop" => node = head
    /\ client = "tail" => node = Len(taken) + 1 /\ next[node] = head
    /\ client = "parse" => node = Len(taken) /\ node # Null

\* The list has the nodes from Popped + 1 to Linked, in this order; its tail is
\* the last but the one that is being linked.
ListInv ==
    /\ Popped <= Linked
    /\ head = IF Popped < Linked THEN Popped + 1 ELSE Null
    /\ \A n \in Node : Popped < n /\ n < Linked => next[n] = n + 1
    /\ \A n \in Node : Popped < n /\ n = Linked => next[n] = Null
    /\ pc = "link" => next[cut + 1] = Null
    /\ head # Null => tail = cut
    /\ pc = "tail" => Popped < cut

\* The nodes of the list, the one that is being made, and the one in hand are in
\* use, and those of packets to come are not allocated yet.
HeapInv ==
    client # "joined" =>
      /\ \A n \in Node : Popped < n /\ n <= Linked => heap[n] = "used"
      /\ \A n \in Node : n > Linked =>
           heap[n] = IF pc = "link" /\ n = cut + 1 THEN "used" ELSE "new"
      /\ client \in {"pop", "tail", "parse"} /\ node # Null => heap[node] = "used"

IInv == TypeOK /\ CountInv /\ MutexInv /\ TakenInv /\ ListInv /\ HeapInv

\* The numbers of the packets are those of the nodes.
LEMMA PacketsNat == Packets \in Nat
BY RecvPoolConstants DEF RecvPoolConstants

-------------------------------------------------------------------------------
(* The invariant *)

LEMMA InitInv == Init => IInv
<1> SUFFICES ASSUME Init PROVE IInv
  OBVIOUS
<1>1. taken = <<>> /\ Len(taken) = 0 /\ Linked = 0 /\ Popped = 0
  BY SMT DEF Init, Linked, Popped
<1>2. TypeOK
  <2>1. taken \in Seq(Node) /\ given \in Seq(Node)
    BY SMT DEF Init
  <2>2. /\ sent \in 0 .. Packets /\ got \in 0 .. Packets /\ cut \in 0 .. Packets
        /\ partial \in 0 .. 2
    BY PacketsNat, SMT DEF Init
  <2> QED
    BY <2>1, <2>2 DEF Init, TypeOK
<1>3. CountInv /\ MutexInv
  BY SMT DEF Init, CountInv, MutexInv
<1>4. TakenInv
  BY <1>1, SMT DEF Init, TakenInv
<1>5. ListInv
  BY <1>1, SMT DEF Init, ListInv, Node, Null
<1>6. HeapInv
  BY <1>1, SMT DEF Init, HeapInv, Node
<1> QED
  BY <1>2, <1>3, <1>4, <1>5, <1>6 DEF IInv

LEMMA SendInv == IInv /\ Send => IInv'
<1> SUFFICES ASSUME IInv, Send PROVE IInv'
  OBVIOUS
<1>1. TypeOK'
  BY PacketsNat, SMT DEF IInv, TypeOK, Node, Null, Send, reader, queue, owner
<1>2. CountInv'
  BY SMT DEF IInv, CountInv, TypeOK, Send, reader, queue, owner
<1>3. MutexInv'
  BY SMT DEF IInv, MutexInv, Send, reader, queue, owner
<1>4. TakenInv'
  BY SMT DEF IInv, TakenInv, Node, Null, Send, reader, queue, owner
<1>5. ListInv'
  BY SMT DEF IInv, ListInv, Linked, Popped, Node, Null, Send, reader, queue,
     owner
<1>6. HeapInv'
  BY SMT DEF IInv, HeapInv, Linked, Popped, Node, Null, Send, reader, queue,
     owner
<1> QED
  BY <1>1, <1>2, <1>3, <1>4, <1>5, <1>6 DEF IInv

LEMMA CloseInv == IInv /\ Close => IInv'
<1> SUFFICES ASSUME IInv, Close PROVE IInv'
  OBVIOUS
<1>1. TypeOK'
  BY SMT DEF IInv, TypeOK, Node, Null, Close, reader, queue, owner
<1>2. CountInv'
  BY SMT DEF IInv, CountInv, Close, reader, queue, owner
<1>3. MutexInv'
  BY SMT DEF IInv, MutexInv, Close, reader, queue, owner
<1>4. TakenInv'
  BY SMT DEF IInv, TakenInv, Node, Null, Close, reader, queue, owner
<1>5. ListInv'
  BY SMT DEF IInv, ListInv, Linked, Popped, Node, Null, Close, reader, queue,
     owner
<1>6. HeapInv'
  BY SMT DEF IInv, HeapInv, Linked, Popped, Node, Null, Close, reader, queue,
     owner
<1> QED
  BY <1>1, <1>2, <1>3, <1>4, <1>5, <1>6 DEF IInv

LEMMA RecvInv == IInv /\ Recv => IInv'
<1> SUFFICES ASSUME IInv, Recv PROVE IInv'
  OBVIOUS
<1>1. TypeOK'
  <2>1. PICK g \in got .. sent, t \in Tails \cup {0} : got' = g /\ partial' = t
    BY DEF Recv
  <2>2. g \in 0 .. Packets /\ t \in 0 .. 2
    BY PacketsNat, RecvPoolConstants, SMT DEF RecvPoolConstants, IInv, TypeOK
  <2> QED
    BY <2>1, <2>2 DEF IInv, TypeOK, Recv, stream, queue, owner
<1>2. CountInv'
  BY SMT DEF IInv, CountInv, TypeOK, Recv, stream, queue, owner
<1>3. MutexInv'
  BY SMT DEF IInv, MutexInv, Recv, stream, queue, owner
<1>4. TakenInv'
  BY SMT DEF IInv, TakenInv, Node, Null, Recv, stream, queue, owner
<1>5. ListInv'
  BY SMT DEF IInv, ListInv, Linked, Popped, Node, Null, Recv, stream, queue,
     owner
<1>6. HeapInv'
  BY SMT DEF IInv, HeapInv, Linked, Popped, Node, Null, Recv, stream, queue,
     owner
<1> QED
  BY <1>1, <1>2, <1>3, <1>4, <1>5, <1>6 DEF IInv

LEMMA RecvEndInv == IInv /\ RecvEnd => IInv'
<1> SUFFICES ASSUME IInv, RecvEnd PROVE IInv'
  OBVIOUS
<1>1. TypeOK'
  BY SMT DEF IInv, TypeOK, Node, Null, RecvEnd, stream, queue, owner
<1>2. CountInv'
  BY SMT DEF IInv, CountInv, RecvEnd, stream, queue, owner
<1>3. MutexInv'
  BY SMT DEF IInv, MutexInv, RecvEnd, stream, queue, owner
<1>4. TakenInv'
  BY SMT DEF IInv, TakenInv, Node, Null, RecvEnd, stream, queue, owner
<1>5. ListInv'
  BY SMT DEF IInv, ListInv, Linked, Popped, Node, Null, RecvEnd, stream, queue,
     owner
<1>6. HeapInv'
  BY SMT DEF IInv, HeapInv, Linked, Popped, Node, Null, RecvEnd, stream, queue,
     owner
<1> QED
  BY <1>1, <1>2, <1>3, <1>4, <1>5, <1>6 DEF IInv

LEMMA CutDoneInv == IInv /\ CutDone => IInv'
<1> SUFFICES ASSUME IInv, CutDone PROVE IInv'
  OBVIOUS
<1>1. TypeOK'
  BY SMT DEF IInv, TypeOK, Node, Null, CutDone, stream, queue, owner
<1>2. CountInv'
  BY SMT DEF IInv, CountInv, CutDone, stream, queue, owner
<1>3. MutexInv'
  BY SMT DEF IInv, MutexInv, CutDone, stream, queue, owner
<1>4. TakenInv'
  BY SMT DEF IInv, TakenInv, Node, Null, CutDone, stream, queue, owner
<1>5. ListInv'
  BY SMT DEF IInv, ListInv, Linked, Popped, Node, Null, CutDone, stream, queue,
     owner
<1>6. HeapInv'
  BY SMT DEF IInv, HeapInv, Linked, Popped, Node, Null, CutDone, stream, queue,
     owner
<1> QED
  BY <1>1, <1>2, <1>3, <1>4, <1>5, <1>6 DEF IInv

LEMMA PushLockInv == IInv /\ PushLock => IInv'
<1> SUFFICES ASSUME IInv, PushLock PROVE IInv'
  OBVIOUS
<1>1. TypeOK'
  BY PacketsNat, SMT DEF IInv, TypeOK, Node, Null, PushLock, stream, owner
<1>2. CountInv'
  BY SMT DEF IInv, CountInv, PushLock, stream, owner
<1>3. MutexInv'
  BY SMT DEF IInv, MutexInv, PushLock, stream, owner
<1>4. TakenInv'
  BY PacketsNat, SMT DEF IInv, TakenInv, TypeOK, CountInv, MutexInv, Linked,
     Popped, Node, Null, PushLock, stream, owner
<1>5. ListInv'
  BY PacketsNat, SMT DEF IInv, ListInv, TypeOK, Linked, Popped, Node, Null,
     PushLock, stream, owner
<1>6. HeapInv'
  BY SMT DEF IInv, HeapInv, TypeOK, Linked, Popped, Node, Null, PushLock,
     stream, owner
<1> QED
  BY <1>1, <1>2, <1>3, <1>4, <1>5, <1>6 DEF IInv

LEMMA PushFirstInv == IInv /\ PushFirst => IInv'
<1> SUFFICES ASSUME IInv, PushFirst PROVE IInv'
  OBVIOUS
<1>1. TypeOK'
  BY PacketsNat, SMT DEF IInv, TypeOK, CountInv, MutexInv, Linked, Popped,
     Node, Null, PushFirst, PushUnlock, stream, owner
<1>2. CountInv'
  BY SMT DEF IInv, CountInv, TypeOK, PushFirst, PushUnlock, stream, owner
<1>3. MutexInv'
  BY SMT DEF IInv, MutexInv, PushFirst, PushUnlock, stream, owner
<1>4. TakenInv'
  BY PacketsNat, SMT DEF IInv, TakenInv, TypeOK, CountInv, MutexInv, Linked,
     Popped, Node, Null, PushFirst, PushUnlock, stream, owner
<1>5. ListInv'
  BY SMTT(30) DEF IInv, ListInv, TypeOK, Linked, Popped, Node, Null, PushFirst,
     PushUnlock, stream, owner
<1>6. HeapInv'
  BY SMT DEF IInv, HeapInv, TypeOK, Linked, Popped, Node, Null, PushFirst,
     PushUnlock, stream, owner
<1> QED
  BY <1>1, <1>2, <1>3, <1>4, <1>5, <1>6 DEF IInv

LEMMA PushLastInv == IInv /\ PushLast => IInv'
<1> SUFFICES ASSUME IInv, PushLast PROVE IInv'
  OBVIOUS
<1>1. TypeOK'
  BY PacketsNat, SMT DEF IInv, TypeOK, CountInv, MutexInv, TakenInv, ListInv,
     Linked, Popped, Node, Null, PushLast, stream, owner
<1>2. CountInv'
  BY SMT DEF IInv, CountInv, PushLast, stream, owner
<1>3. MutexInv'
  BY SMT DEF IInv, MutexInv, PushLast, stream, owner
<1>4. TakenInv'
  BY PacketsNat, SMT DEF IInv, TakenInv, TypeOK, CountInv, MutexInv, Linked,
     Popped, Node, Null, PushLast, stream, owner
<1>5. ListInv'
  BY PacketsNat, SMTT(30) DEF IInv, ListInv, TypeOK, CountInv, MutexInv, Linked,
     Popped, Node, Null, PushLast, stream, owner
<1>6. HeapInv'
  BY SMT DEF IInv, HeapInv, TypeOK, Linked, Popped, Node, Null, PushLast,
     stream, owner
<1> QED
  BY <1>1, <1>2, <1>3, <1>4, <1>5, <1>6 DEF IInv

LEMMA PushTailInv == IInv /\ PushTail => IInv'
<1> SUFFICES ASSUME IInv, PushTail PROVE IInv'
  OBVIOUS
<1>1. TypeOK'
  BY PacketsNat, SMT DEF IInv, TypeOK, CountInv, MutexInv, Linked, Popped,
     Node, Null, PushTail, PushUnlock, stream, owner
<1>2. CountInv'
  BY SMT DEF IInv, CountInv, TypeOK, PushTail, PushUnlock, stream, owner
<1>3. MutexInv'
  BY SMT DEF IInv, MutexInv, PushTail, PushUnlock, stream, owner
<1>4. TakenInv'
  BY SMT DEF IInv, TakenInv, Node, Null, PushTail, PushUnlock, stream, owner
<1>5. ListInv'
  BY SMT DEF IInv, ListInv, Linked, Popped, Node, Null, PushTail, PushUnlock,
     stream, owner
<1>6. HeapInv'
  BY SMT DEF IInv, HeapInv, Linked, Popped, Node, Null, PushTail, PushUnlock,
     stream, owner
<1> QED
  BY <1>1, <1>2, <1>3, <1>4, <1>5, <1>6 DEF IInv

LEMMA DrainInv == IInv /\ Drain => IInv'
<1> SUFFICES ASSUME IInv, Drain PROVE IInv'
  OBVIOUS
<1>1. TypeOK'
  BY SMT DEF IInv, TypeOK, Node, Null, Drain, stream, reader, queue
<1>2. CountInv'
  BY SMT DEF IInv, CountInv, Drain, stream, reader, queue
<1>3. MutexInv'
  BY SMT DEF IInv, MutexInv, Drain, stream, reader, queue
<1>4. TakenInv'
  BY SMT DEF IInv, TakenInv, Node, Null, Drain, stream, reader, queue
<1>5. ListInv'
  BY SMT DEF IInv, ListInv, Linked, Popped, Node, Null, Drain, stream, reader,
     queue
<1>6. HeapInv'
  BY SMT DEF IInv, HeapInv, Linked, Popped, Node, Null, Drain, stream, reader,
     queue
<1> QED
  BY <1>1, <1>2, <1>3, <1>4, <1>5, <1>6 DEF IInv

LEMMA PopLockInv == IInv /\ PopLock => IInv'
<1> SUFFICES ASSUME IInv, PopLock PROVE IInv'
  OBVIOUS
<1>1. TypeOK'
  BY SMT DEF IInv, TypeOK, Node, Null, PopLock, stream, reader, queue
<1>2. CountInv'
  BY SMT DEF IInv, CountInv, PopLock, stream, reader, queue
<1>3. MutexInv'
  BY SMT DEF IInv, MutexInv, PopLock, stream, reader, queue
<1>4. TakenInv'
  BY SMT DEF IInv, TakenInv, Node, Null, PopLock, stream, reader, queue
<1>5. ListInv'
  BY SMT DEF IInv, ListInv, Linked, Popped, Node, Null, PopLock, stream,
     reader, queue
<1>6. HeapInv'
  BY PacketsNat, SMT DEF IInv, HeapInv, TypeOK, CountInv, MutexInv, TakenInv,
     ListInv, Linked, Popped, Node, Null, PopLock, stream, reader, queue
<1> QED
  BY <1>1, <1>2, <1>3, <1>4, <1>5, <1>6 DEF IInv

LEMMA PopNothingInv == IInv /\ PopNothing => IInv'
<1> SUFFICES ASSUME IInv, PopNothing PROVE IInv'
  OBVIOUS
<1>1. TypeOK'
  BY SMT DEF IInv, TypeOK, Node, Null, PopNothing, stream, reader, queue
<1>2. CountInv'
  BY SMT DEF IInv, CountInv, PopNothing, stream, reader, queue
<1>3. MutexInv'
  BY SMT DEF IInv, MutexInv, PopNothing, stream, reader, queue
<1>4. TakenInv'
  BY SMT DEF IInv, TakenInv, Node, Null, PopNothing, stream, reader, queue
<1>5. ListInv'
  BY SMT DEF IInv, ListInv, Linked, Popped, Node, Null, PopNothing, stream,
     reader, queue
<1>6. HeapInv'
  BY SMT DEF IInv, HeapInv, Linked, Popped, Node, Null, PopNothing, stream,
     reader, queue
<1> QED
  BY <1>1, <1>2, <1>3, <1>4, <1>5, <1>6 DEF IInv

LEMMA PopHeadInv == IInv /\ PopHead => IInv'
<1> SUFFICES ASSUME IInv, PopHead PROVE IInv'
  OBVIOUS
<1>1. TypeOK'
  BY PacketsNat, SMT DEF IInv, TypeOK, CountInv, MutexInv, TakenInv, ListInv,
     Linked, Popped, Node, Null, PopHead, stream, reader
<1>2. CountInv'
  BY SMT DEF IInv, CountInv, PopHead, stream, reader
<1>3. MutexInv'
  BY SMT DEF IInv, MutexInv, PopHead, stream, reader
<1>4. TakenInv'
  BY PacketsNat, SMT DEF IInv, TakenInv, TypeOK, CountInv, MutexInv, ListInv,
     Linked, Popped, Node, Null, PopHead, stream, reader
<1>5. ListInv'
  BY PacketsNat, SMT DEF IInv, ListInv, TypeOK, CountInv, MutexInv, TakenInv,
     Linked, Popped, Node, Null, PopHead, stream, reader
<1>6. HeapInv'
  BY SMT DEF IInv, HeapInv, Linked, Popped, Node, Null, PopHead, stream, reader
<1> QED
  BY <1>1, <1>2, <1>3, <1>4, <1>5, <1>6 DEF IInv

LEMMA PopTailInv == IInv /\ PopTail => IInv'
<1> SUFFICES ASSUME IInv, PopTail PROVE IInv'
  OBVIOUS
<1>1. TypeOK'
  BY PacketsNat, SMT DEF IInv, TypeOK, CountInv, MutexInv, TakenInv, ListInv,
     Linked, Popped, Node, Null, PopTail, stream, reader
<1>2. CountInv'
  BY SMT DEF IInv, CountInv, PopTail, stream, reader
<1>3. MutexInv'
  BY SMT DEF IInv, MutexInv, PopTail, stream, reader
<1>4. TakenInv'
  BY SMT DEF IInv, TakenInv, Node, Null, PopTail, stream, reader
<1>5. ListInv'
  BY SMT DEF IInv, ListInv, Linked, Popped, Node, Null, PopTail, stream, reader
<1>6. HeapInv'
  BY SMT DEF IInv, HeapInv, Linked, Popped, Node, Null, PopTail, stream, reader
<1> QED
  BY <1>1, <1>2, <1>3, <1>4, <1>5, <1>6 DEF IInv

LEMMA ParseInv == IInv /\ Parse => IInv'
<1> SUFFICES ASSUME IInv, Parse PROVE IInv'
  OBVIOUS
<1>1. TypeOK'
  <2>1. node \in Node
    BY DEF IInv, TypeOK, TakenInv, Parse
  <2>2. given' \in Seq(Node)
    BY <2>1, SMTT(30) DEF IInv, TypeOK, Parse
  <2>3. heap' \in [Node -> {"new", "used", "freed"}]
    BY <2>1 DEF IInv, TypeOK, Parse
  <2> QED
    BY <2>2, <2>3 DEF IInv, TypeOK, Parse, stream, reader, queue
<1>2. CountInv'
  BY SMT DEF IInv, CountInv, Parse, stream, reader, queue
<1>3. MutexInv'
  BY SMT DEF IInv, MutexInv, Parse, stream, reader, queue
<1>4. TakenInv'
  BY SMT DEF IInv, TakenInv, Node, Null, Parse, stream, reader, queue
<1>5. ListInv'
  BY SMT DEF IInv, ListInv, Linked, Popped, Node, Null, Parse, stream, reader,
     queue
<1>6. HeapInv'
  BY PacketsNat, SMTT(30) DEF IInv, HeapInv, TypeOK, CountInv, MutexInv, TakenInv,
     ListInv, Linked, Popped, Node, Null, Parse, stream, reader, queue
<1> QED
  BY <1>1, <1>2, <1>3, <1>4, <1>5, <1>6 DEF IInv

LEMMA QuitInv == IInv /\ Quit => IInv'
<1> SUFFICES ASSUME IInv, Quit PROVE IInv'
  OBVIOUS
<1>1. TypeOK'
  BY SMT DEF IInv, TypeOK, Node, Null, Quit, stream, reader, queue
<1>2. CountInv'
  BY SMT DEF IInv, CountInv, Quit, stream, reader, queue
<1>3. MutexInv'
  BY SMT DEF IInv, MutexInv, Quit, stream, reader, queue
<1>4. TakenInv'
  BY SMT DEF IInv, TakenInv, Node, Null, Quit, stream, reader, queue
<1>5. ListInv'
  BY SMT DEF IInv, ListInv, Linked, Popped, Node, Null, Quit, stream, reader,
     queue
<1>6. HeapInv'
  BY SMT DEF IInv, HeapInv, Linked, Popped, Node, Null, Quit, stream, reader,
     queue
<1> QED
  BY <1>1, <1>2, <1>3, <1>4, <1>5, <1>6 DEF IInv

LEMMA JoinInv == IInv /\ Join => IInv'
<1> SUFFICES ASSUME IInv, Join PROVE IInv'
  OBVIOUS
<1>1. TypeOK'
  BY SMT DEF IInv, TypeOK, Node, Null, Join, stream, reader, queue
<1>2. CountInv'
  BY SMT DEF IInv, CountInv, Join, stream, reader, queue
<1>3. MutexInv'
  BY SMT DEF IInv, MutexInv, Join, stream, reader, queue
<1>4. TakenInv'
  BY SMT DEF IInv, TakenInv, Node, Null, Join, stream, reader, queue
<1>5. ListInv'
  BY SMT DEF IInv, ListInv, Linked, Popped, Node, Null, Join, stream, reader,
     queue
<1>6. HeapInv'
  BY SMT DEF IInv, HeapInv, Linked, Popped, Node, Null, Join, stream, reader,
     queue
<1> QED
  BY <1>1, <1>2, <1>3, <1>4, <1>5, <1>6 DEF IInv

LEMMA StutterInv == IInv /\ UNCHANGED vars => IInv'
BY DEF vars, IInv, TypeOK, CountInv, MutexInv, TakenInv, ListInv, HeapInv, Linked,
   Popped

\* Where the threads are, what they hold and what is in the list, in every
\* reachable state.
THEOREM Invariance == Spec => []IInv
<1>1. IInv /\ [Next]_vars => IInv'
  <2>1. IInv /\ Thread => IInv'
    BY RecvInv, RecvEndInv, CutDoneInv, PushLockInv, PushFirstInv, PushLastInv,
       PushTailInv DEF Thread
  <2>2. IInv /\ Retrieve => IInv'
    BY DrainInv, PopLockInv, PopNothingInv, PopHeadInv, PopTailInv, ParseInv
       DEF Retrieve
  <2> QED
    BY <2>1, <2>2, SendInv, CloseInv, QuitInv, JoinInv, StutterInv DEF Next
<1> QED
  BY <1>1, InitInv, PTL DEF Spec

\* Every variable has its type.
THEOREM Typing == Spec => []TypeOK
<1>1. IInv => TypeOK
  BY DEF IInv
<1> QED
  BY <1>1, Invariance, PTL

-------------------------------------------------------------------------------
(* The nodes *)

\* What the list links, and what the threads hold, is in use (pqueue_push,
\* pqueue_pop and the free in recvpool_retrieve).
THEOREM NodesInUseHolds == Spec => []NodesInUse
<1>1. IInv => NodesInUse
  <2> SUFFICES ASSUME IInv PROVE NodesInUse
    OBVIOUS
  <2>1. client # "joined" /\ head # Null => heap[head] = "used"
    BY PacketsNat, SMT DEF IInv, TypeOK, CountInv, ListInv, HeapInv, Linked, Popped, Node,
       Null
  <2>2. ASSUME client # "joined", NEW n \in Node, heap[n] = "used",
               ~ Contains(taken, n), next[n] # Null
        PROVE  heap[next[n]] = "used"
    <3>1. n > Len(taken)
      BY <2>2, SMTT(30) DEF IInv, TypeOK, TakenInv, Contains, Node
    <3>2. n <= Linked /\ (n = Linked => n = Popped)
      BY <2>2, <3>1, PacketsNat, SMT
         DEF IInv, TypeOK, CountInv, ListInv, HeapInv, Linked, Popped, Node
    <3>3. (next[n] = n + 1 /\ n + 1 <= Linked) \/ next[n] = head
      BY <3>1, <3>2, SMT DEF IInv, TypeOK, CountInv, TakenInv, ListInv, Linked, Popped, Node
    <3>4. n + 1 <= Linked => heap[n + 1] = "used"
      BY <2>2, <3>1, PacketsNat, SMT
         DEF IInv, TypeOK, CountInv, HeapInv, Linked, Popped, Node
    <3> QED
      BY <2>1, <2>2, <3>3, <3>4
  <2>3. pc \in {"link", "tail"} /\ head # Null => tail # Null /\ heap[tail] = "used"
    BY PacketsNat, SMT
       DEF IInv, TypeOK, CountInv, ListInv, HeapInv, Linked, Popped, Node, Null
  <2>4. client \in {"pop", "tail", "parse"} /\ node # Null => heap[node] = "used"
    BY DEF IInv, HeapInv
  <2> QED
    BY <2>1, <2>2, <2>3, <2>4 DEF NodesInUse
<1> QED
  BY <1>1, Invariance, PTL

-------------------------------------------------------------------------------
(* The queue that the list implements *)

\* Numbers in a row: with one more at the end, and without the first.
LEMMA RowAppend ==
    ASSUME NEW a \in Nat, NEW b \in Nat, a <= b
    PROVE  [i \in 1 .. (b + 1) - a |-> a + i] =
             Append([i \in 1 .. b - a |-> a + i], b + 1)
<1> DEFINE s == [i \in 1 .. b - a |-> a + i]
<1>1. b - a \in Nat /\ (b + 1) - a = (b - a) + 1
  BY SMT
<1>2. s \in Seq(Nat) /\ Len(s) = b - a
  BY <1>1, SMT
<1> QED
  BY <1>1, <1>2, SMT

LEMMA RowTail ==
    ASSUME NEW a \in Nat, NEW b \in Nat, a < b
    PROVE  LET s == [i \in 1 .. b - a |-> a + i] IN
             /\ s # <<>> /\ Head(s) = a + 1
             /\ [i \in 1 .. b - (a + 1) |-> (a + 1) + i] = Tail(s)
<1> DEFINE s == [i \in 1 .. b - a |-> a + i]
<1>1. b - a \in Nat /\ b - a > 0 /\ b - (a + 1) = (b - a) - 1
  BY SMT
<1>2. s \in Seq(Nat) /\ Len(s) = b - a
  BY <1>1, SMT
<1>3. s # <<>> /\ Head(s) = a + 1
  BY <1>1, <1>2, SMT
<1>4. [i \in 1 .. b - (a + 1) |-> (a + 1) + i] = Tail(s)
  <2>1. Tail(s) = [i \in 1 .. (b - a) - 1 |-> s[i + 1]]
    BY <1>2, <1>3, SMTT(30)
  <2>2. \A i \in 1 .. (b - a) - 1 : s[i + 1] = (a + 1) + i
    BY <1>1, SMT
  <2> QED
    BY <1>1, <2>1, <2>2
<1> QED
  BY <1>3, <1>4

\* The queue that is seen is determined by how many nodes are linked and taken.
LEMMA QueuedIs == Queued = [i \in 1 .. Linked - Len(taken) |-> Len(taken) + i]
BY DEF Queued, Linked

\* A step that links a node puts it into the queue.
LEMMA PutStep ==
    ASSUME IInv, PushFirst \/ PushLast
    PROVE  Fifo!Put
<1>1. /\ taken' = taken /\ Len(taken) \in Nat /\ Linked \in Nat
      /\ Len(taken) <= Linked /\ Linked' = Linked + 1
  BY SMTT(30) DEF IInv, TypeOK, CountInv, MutexInv, ListInv, Linked, Popped, PushFirst,
     PushLast, PushUnlock, owner
<1>2. Len(Queued) = Linked - Len(taken)
  BY <1>1, QueuedIs, SMT
<1>3. Queued' = [i \in 1 .. (Linked + 1) - Len(taken) |-> Len(taken) + i]
  BY <1>1, SMT DEF Queued, Linked
<1>4. Queued' = Append(Queued, Linked + 1)
  BY <1>1, <1>3, QueuedIs, RowAppend
<1>5. Len(taken) + Len(Queued) + 1 = Linked + 1
  BY <1>1, <1>2, SMT
<1> QED
  BY <1>1, <1>4, <1>5 DEF Fifo!Put

\* The step that ends a pop takes the first one of the queue.
LEMMA TakeStep ==
    ASSUME IInv, PopTail
    PROVE  Fifo!Take
<1>1. /\ Len(taken) \in Nat /\ Linked \in Nat /\ Len(taken) < Linked
      /\ Linked' = Linked /\ taken' = Append(taken, Len(taken) + 1)
      /\ Len(taken') = Len(taken) + 1
  BY SMT DEF IInv, TypeOK, CountInv, TakenInv, ListInv, Linked, Popped, PopTail, stream,
     reader
<1>2. Queued' = [i \in 1 .. Linked - (Len(taken) + 1) |-> (Len(taken) + 1) + i]
  BY <1>1, SMT DEF Queued, Linked
<1>3. Queued # <<>> /\ Head(Queued) = Len(taken) + 1 /\ Queued' = Tail(Queued)
  BY <1>1, <1>2, QueuedIs, RowTail
<1> QED
  BY <1>1, <1>3 DEF Fifo!Take

\* No other step changes the queue that is seen, or what was taken from it.
LEMMA OtherStep ==
    ASSUME IInv,
           \/ Send \/ Close \/ Recv \/ RecvEnd \/ CutDone \/ PushLock \/ PushTail
           \/ Drain \/ PopLock \/ PopNothing \/ PopHead \/ Parse \/ Quit \/ Join
           \/ UNCHANGED vars
    PROVE  UNCHANGED <<Queued, taken>>
<1>1. taken' = taken /\ Linked' = Linked
  <2>1. CASE Send \/ Close \/ UNCHANGED vars
    BY <2>1 DEF Send, Close, vars, reader, owner, Linked
  <2>2. CASE Recv \/ RecvEnd \/ CutDone \/ PushLock
    BY <2>2 DEF Recv, RecvEnd, CutDone, PushLock, owner, Linked
  <2>3. CASE PushTail
    BY <2>3 DEF PushTail, PushUnlock, owner, Linked
  <2>4. CASE Drain \/ PopLock \/ PopNothing \/ PopHead \/ Parse \/ Quit \/ Join
    BY <2>4 DEF Drain, PopLock, PopNothing, PopHead, Parse, Quit, Join, reader, Linked
  <2> QED
    BY <2>1, <2>2, <2>3, <2>4
<1> QED
  BY <1>1 DEF Queued, Linked

\* The linked list is a queue: the two threads, one linking and one unlinking
\* nodes, implement the abstract packet queue.
THEOREM Refinement == Spec => IsFifo
<1>1. Init => Fifo!Init
  <2> SUFFICES ASSUME Init PROVE Fifo!Init
    OBVIOUS
  <2>1. taken = <<>> /\ Len(taken) = 0 /\ Linked = 0
    BY SMT DEF Init, Linked
  <2>2. Queued = <<>>
    BY <2>1, QueuedIs, SMT
  <2> QED
    BY <2>1, <2>2 DEF Fifo!Init
<1>2. IInv /\ [Next]_vars => [Fifo!Next]_<<Queued, taken>>
  BY PutStep, TakeStep, OtherStep DEF Next, Thread, Retrieve, Fifo!Next
<1> QED
  BY <1>1, <1>2, Invariance, PTL DEF Spec, IsFifo, Fifo!Spec

-------------------------------------------------------------------------------
(* What has been freed when the pool has been joined *)

\* A node points to the one of the next packet, or to none.
NextInv == \A n \in Node : next[n] \in {Null, n + 1}

\* Of the nodes that were taken only those of packets that could not be parsed,
\* and the one in hand, are still in use.
LeakInv ==
    client # "joined" =>
      \A n \in Node : n <= Popped /\ heap[n] = "used" =>
        n \in Bad \/ (client \in {"tail", "parse"} /\ n = node)

\* The list from n on is n and the list from its successor on.
LEMMA ChainIs ==
    ASSUME TypeOK, NextInv
    PROVE  /\ Chain[Null] = {}
           /\ \A n \in Node : Chain[n] = {n} \cup Chain[next[n]]
<1> DEFINE dom == Node \cup {Null}
           from(n) == {m \in Node : n <= m /\ \A k \in Node : n <= k /\ k < m => next[k] = k + 1}
           f == [n \in dom |-> IF n = Null THEN {} ELSE from(n)]
<1>1. ASSUME NEW n \in Node, next[n] = Null
      PROVE  from(n) = {n}
  <2>1. /\ n \in Nat /\ n <= n /\ n # n + 1
        /\ \A m \in Node : m # n /\ n <= m => n < m
        /\ \A k \in Node : n <= k => ~ (k < n)
        /\ n + 1 # Null
    BY PacketsNat, SMT DEF Node, Null
  <2> QED
    BY <1>1, <2>1
<1>2. ASSUME NEW n \in Node, next[n] # Null
      PROVE  /\ next[n] \in Node /\ next[n] = n + 1
             /\ from(n) = {n} \cup from(n + 1)
  <2>1. next[n] \in Node /\ next[n] = n + 1
    BY <1>2 DEF TypeOK, NextInv
  <2>2. /\ n <= n
        /\ \A k \in Node : n <= k => ~ (k < n)
        /\ \A m \in Node : n <= m => m = n \/ n + 1 <= m
        /\ \A m \in Node : n + 1 <= m => n <= m /\ n < m
    BY PacketsNat, SMT DEF Node
  <2>3. \A m \in Node : m \in from(n) => m = n \/ m \in from(n + 1)
    BY <2>2
  <2>4. \A m \in Node : m \in from(n + 1) => m \in from(n)
    BY <2>1, <2>2
  <2>5. n \in from(n)
    BY <2>2
  <2> QED
    BY <2>1, <2>3, <2>4, <2>5
<1>3. Null \notin Node
  BY PacketsNat, SMT DEF Node, Null
<1>4. \A n \in dom : f[n] = IF n = Null THEN {} ELSE {n} \cup f[next[n]]
  <2>1. ASSUME NEW n \in Node
        PROVE  f[n] = {n} \cup f[next[n]]
    <3> HIDE DEF from
    <3>1. f[n] = from(n)
      BY <1>3
    <3>2. CASE next[n] = Null
      BY <1>1, <3>1, <3>2
    <3>3. CASE next[n] # Null
      <4>1. f[next[n]] = from(n + 1)
        BY <1>2, <1>3, <3>3
      <4> QED
        BY <1>2, <3>1, <3>3, <4>1
    <3> QED
      BY <3>2, <3>3
  <2> QED
    BY <1>3, <2>1
<1>5. f = [n \in dom |-> IF n = Null THEN {} ELSE {n} \cup f[next[n]]]
  BY <1>4
<1> HIDE DEF f
<1>6. Chain = [n \in dom |-> IF n = Null THEN {} ELSE {n} \cup Chain[next[n]]]
  BY <1>5 DEF Chain
<1> QED
  BY <1>3, <1>6

\* A set of numbers with an element has a least one.
LEMMA Least ==
    ASSUME NEW S \in SUBSET Nat, S # {}
    PROVE  \E m \in S : \A k \in S : m <= k
<1>1. PICK m \in S : \A k \in S : ~ (<<k, m>> \in OpToRel(<, Nat))
  BY NatLessThanWellFounded, WFMin
<1>2. \A k \in S : m <= k
  <2> TAKE k \in S
  <2>1. ~ (<<k, m>> \in {ss \in Nat \X Nat : ss[1] < ss[2]})
    BY <1>1 DEF OpToRel
  <2>2. ~ (k < m)
    BY <2>1
  <2> QED
    BY <2>2, SMT
<1> QED
  BY <1>2

\* While no node is being linked, the list from its head on has all that are linked.
LEMMA ChainHas ==
    ASSUME IInv, NextInv, pc # "tail", NEW n \in Node, Popped < n, n <= Linked
    PROVE  n \in Chain[head]
<1>1. /\ Popped \in Nat /\ Linked \in Nat /\ head = Popped + 1 /\ head \in Node
      /\ \A k \in Node : Popped < k /\ k < Linked => next[k] = k + 1
  BY SMT DEF IInv, TypeOK, ListInv, Popped, Linked, Null, Node
<1> DEFINE Missed == {k \in Node : head <= k /\ k <= Linked /\ ~ (Chain[k] \subseteq Chain[head])}
<1>2. Missed = {}
  <2> SUFFICES ASSUME Missed # {} PROVE FALSE
    OBVIOUS
  <2>1. Missed \in SUBSET Nat
    BY DEF Node
  <2>2. PICK m \in Missed : \A k \in Missed : m <= k
    BY <2>1, Least
  <2>3. /\ m \in Node /\ head <= m /\ m <= Linked /\ m # head
        /\ ~ (Chain[m] \subseteq Chain[head])
    BY <2>2
  <2>4. PICK j \in Node : j = m - 1 /\ head <= j /\ j <= Linked /\ j < Linked /\ j + 1 = m
    <3> HIDE DEF Missed
    <3>1. m - 1 \in Node /\ head <= m - 1 /\ m - 1 < Linked /\ (m - 1) + 1 = m
      BY <1>1, <2>3, PacketsNat, SMT DEF Node
    <3> QED
      BY <1>1, <3>1, PacketsNat, SMT DEF Node
  <2>5. Chain[j] \subseteq Chain[head]
    <3>1. j \notin Missed
      <4>1. ~ (m <= j)
        BY <2>3, <2>4, SMT DEF Node
      <4> QED
        BY <2>2, <4>1
    <3> QED
      BY <2>4, <3>1
  <2>6. next[j] = m
    <3>1. Popped < j
      BY <1>1, <2>4, SMT DEF Node
    <3> QED
      BY <1>1, <2>4, <3>1
  <2>7. Chain[m] \subseteq Chain[j]
    BY <2>6, ChainIs DEF IInv
  <2> QED
    BY <2>3, <2>5, <2>7
<1>3. head <= n
  BY <1>1, SMT DEF Node
<1>4. Chain[n] \subseteq Chain[head]
  BY <1>2, <1>3
<1> QED
  BY <1>4, ChainIs DEF IInv

\* Every step leaves every node pointing to the next one, or to none.
LEMMA NextNext == IInv /\ NextInv /\ [Next]_vars => NextInv'
<1> SUFFICES ASSUME IInv, NextInv, [Next]_vars PROVE NextInv'
  OBVIOUS
<1>1. CASE PushLock
  BY <1>1 DEF PushLock, NextInv, IInv, TypeOK
<1>2. CASE PushLast
  <2>1. tail = cut /\ next' = [next EXCEPT ![tail] = cut + 1]
    BY <1>2 DEF PushLast, IInv, ListInv
  <2> QED
    BY <2>1 DEF NextInv, IInv, TypeOK
<1>3. CASE UNCHANGED next
  BY <1>3 DEF NextInv
<1>4. Send \/ Close \/ Recv \/ RecvEnd \/ CutDone \/ PushFirst \/ PushTail => UNCHANGED next
  BY DEF Send, Close, Recv, RecvEnd, CutDone, PushFirst, PushTail, queue
<1>5. Retrieve \/ Quit \/ Join => UNCHANGED next
  BY DEF Retrieve, Drain, PopLock, PopNothing, PopHead, PopTail, Parse, Quit, Join, queue
<1> QED
  BY <1>1, <1>2, <1>3, <1>4, <1>5 DEF Next, Thread, vars

\* A node that is taken is freed as soon as its packet has been parsed.
LEMMA NextLeak == IInv /\ LeakInv /\ [Next]_vars => LeakInv'
<1> SUFFICES ASSUME IInv, LeakInv, [Next]_vars, client' # "joined" PROVE LeakInv'
  BY DEF LeakInv
<1>1. client # "joined"
  BY SMT DEF Next, Thread, Retrieve, Send, Close, Recv, RecvEnd, CutDone, PushLock,
     PushFirst, PushLast, PushTail, Drain, PopLock, PopNothing, PopHead, PopTail, Parse,
     Quit, Join, owner, vars
<1>2. \A n \in Node : n <= Popped /\ heap[n] = "used" =>
        n \in Bad \/ (client \in {"tail", "parse"} /\ n = node)
  BY <1>1 DEF LeakInv
<1>3. Popped \in Nat /\ Linked \in Nat /\ Popped <= Linked /\ Linked = IF pc = "tail" THEN cut + 1 ELSE cut
  BY SMT DEF IInv, TypeOK, ListInv, Popped, Linked
<1>4. CASE PushLock
  <2>1. /\ pc = "cut" /\ UNCHANGED <<client, taken, node>>
        /\ \A n \in Node : n # cut + 1 => heap'[n] = heap[n]
    BY <1>4 DEF PushLock, owner, IInv, TypeOK
  <2>2. Popped' = Popped /\ ~ (cut + 1 <= Popped)
    BY <1>3, <2>1, SMT DEF Popped, IInv, TypeOK
  <2> QED
    BY <1>2, <2>1, <2>2 DEF LeakInv
<1>5. CASE PopHead
  <2>1. /\ client = "pop" /\ client' = "tail" /\ UNCHANGED <<taken, node, heap>>
        /\ node = head /\ node # Null
    BY <1>5 DEF PopHead, IInv, TakenInv
  <2>2. /\ Popped = Len(taken) /\ Popped' = Len(taken) + 1
        /\ node = Len(taken) + 1
    BY <2>1 DEF Popped, IInv, ListInv
  <2>3. \A n \in Node : n <= Len(taken) + 1 => n <= Len(taken) \/ n = Len(taken) + 1
    BY <1>3, <2>2, SMT DEF Node
  <2> QED
    BY <1>2, <2>1, <2>2, <2>3 DEF LeakInv
<1>6. CASE PopTail
  <2>1. /\ client = "tail" /\ client' = "parse" /\ UNCHANGED <<node, heap>>
        /\ taken' = Append(taken, node)
    BY <1>6 DEF PopTail
  <2>2. node \in Node
    BY <2>1, SMT DEF IInv, TypeOK, TakenInv, Node, Null
  <2>3. Len(taken') = Len(taken) + 1
    BY <2>1, <2>2, SMT DEF IInv, TypeOK
  <2>4. Popped' = Popped
    BY <2>1, <2>3 DEF Popped
  <2> QED
    BY <1>2, <2>1, <2>4 DEF LeakInv
<1>7. CASE Parse
  <2>1. /\ client = "parse" /\ client' \in {"run", "lock"} /\ UNCHANGED <<node, taken>>
        /\ node \in Bad => heap' = heap
        /\ node \notin Bad => heap' = [heap EXCEPT ![node] = "freed"]
    BY <1>7 DEF Parse
  <2>2. Popped' = Popped
    BY <2>1 DEF Popped
  <2>3. \A n \in Node : heap'[n] = "used" => heap[n] = "used" /\ (n = node => node \in Bad)
    BY <2>1 DEF IInv, TypeOK
  <2> QED
    BY <1>2, <2>1, <2>2, <2>3 DEF LeakInv
<1>8. CASE \/ Send \/ Close \/ Recv \/ RecvEnd \/ CutDone \/ PushFirst \/ PushLast
           \/ PushTail \/ Drain \/ PopLock \/ PopNothing \/ Quit \/ UNCHANGED vars
  <2>1. /\ UNCHANGED <<heap, taken>>
        /\ client \in {"tail", "parse"} => client' = client /\ node' = node
        /\ client' = "tail" => client = "tail"
    BY <1>8
    DEF Send, Close, Recv, RecvEnd, CutDone, PushFirst, PushLast, PushTail, Drain, PopLock,
        PopNothing, Quit, owner, vars
  <2>2. Popped' = Popped
    BY <2>1 DEF Popped
  <2> QED
    BY <1>2, <2>1, <2>2 DEF LeakInv
<1>9. ~ Join
  BY DEF Join
<1> QED
  BY <1>4, <1>5, <1>6, <1>7, <1>8, <1>9 DEF Next, Thread, Retrieve

\* What has been taken are the first packets of the stream.
LEMMA TakenIs ==
    ASSUME IInv, NEW n \in Node
    PROVE  Contains(taken, n) <=> n <= Len(taken)
<1>1. DOMAIN taken = 1 .. Len(taken) /\ Len(taken) \in Nat /\ n \in Nat /\ 1 <= n
  BY SMT DEF IInv, TypeOK, Node
<1>2. \A i \in 1 .. Len(taken) : taken[i] = i
  BY DEF IInv, TakenInv
<1> QED
  BY <1>1, <1>2, SMT DEF Contains

LEMMA NextLeaked ==
    IInv /\ NextInv /\ LeakInv /\ OnlyBadLeaked /\ [Next]_vars => OnlyBadLeaked'
<1> SUFFICES ASSUME IInv, NextInv, LeakInv, OnlyBadLeaked, [Next]_vars,
                    client' = "joined", NEW n \in Node, heap'[n] = "used"
             PROVE  n \in Bad /\ Contains(taken', n)
  BY DEF OnlyBadLeaked
<1>1. CASE client = "joined"
  <2>1. pc = "ended"
    BY <1>1 DEF IInv, CountInv
  <2>2. UNCHANGED <<heap, taken>>
    BY <1>1, <2>1
    DEF Next, Thread, Retrieve, Send, Close, Recv, RecvEnd, CutDone, PushLock, PushFirst,
        PushLast, PushTail, Drain, PopLock, PopNothing, PopHead, PopTail, Parse, Quit, Join,
        owner, vars
  <2> QED
    BY <1>1, <2>2 DEF OnlyBadLeaked
<1>2. CASE client # "joined"
  <2>1. Join
    BY <1>2
    DEF Next, Thread, Retrieve, Send, Close, Recv, RecvEnd, CutDone, PushLock, PushFirst,
        PushLast, PushTail, Drain, PopLock, PopNothing, PopHead, PopTail, Parse, Quit, Join,
        owner, vars
  <2>2. /\ client = "join" /\ pc = "ended" /\ taken' = taken
        /\ n \notin Chain[head] /\ heap[n] = "used"
    BY <2>1 DEF Join
  <2>3. Popped = Len(taken) /\ Linked = cut
    BY <2>2 DEF Popped, Linked
  <2>4. ~ (Popped < n /\ n <= Linked)
    BY <2>2, ChainHas
  <2>5. ~ (n > Linked)
    BY <2>2 DEF IInv, HeapInv
  <2>6. n <= Popped
    BY <2>3, <2>4, <2>5, SMT DEF IInv, TypeOK, Node
  <2>7. n \in Bad
    BY <1>2, <2>2, <2>6 DEF LeakInv
  <2> QED
    BY <2>2, <2>3, <2>6, <2>7, TakenIs
<1> QED
  BY <1>1, <1>2

\* When the client has joined the pool, every node has been freed but those of
\* packets that could not be parsed: what was left in the list is reached by the
\* loop that frees it, and what was taken was freed when it had been parsed
\* (recvpool.c:24-75, 150-178).
THEOREM OnlyBadLeakedHolds == Spec => []OnlyBadLeaked
<1>1. Init => NextInv /\ LeakInv /\ OnlyBadLeaked
  BY DEF Init, NextInv, LeakInv, OnlyBadLeaked
<1> QED
  BY <1>1, Invariance, NextNext, NextLeak, NextLeaked, PTL DEF Spec

================================================================================
