------------------------- MODULE BroadcastServerProofs -------------------------
(***************************************************************************)
(* Proofs about the broadcast server, for every number of connections, of  *)
(* packets, every pipe capacity and every way reads split the stream.      *)
(***************************************************************************)
EXTENDS ServerSockets, SequenceTheorems, TLAPS

\* A loop over the list, or over what is left of it, only meets accepted ids.
ListInv ==
    /\ \A i \in DOMAIN clients : clients[i] < clientCount
    /\ \A t \in Thread : \A i \in DOMAIN todo[t] : todo[t][i] < clientCount

\* Who holds the mutexes: the context mutex is held by whoever walks the list,
\* a send buffer's by its owner while it sends, or by the broadcaster that has
\* appended to it and is about to notify.
MutexInv ==
    /\ pc[Main] = "replay" => ctxMutex = Main
    /\ \A c \in Client : pc[c] \in {"cast", "notify"} => ctxMutex = c
    /\ \A c \in Client : pc[c] = "flush" => sMutex[c] = c
    /\ \A c \in Client :
         pc[c] = "notify" => todo[c] # <<>> /\ sMutex[Head(todo[c])] = c
    /\ \A c, d \in Client :
         sMutex[d] = c => IF c = d THEN pc[c] = "flush"
                          ELSE pc[c] = "notify" /\ Head(todo[c]) = d

\* The client being set up exists, has its handshake notified and no thread.
NewInv ==
    /\ pc[Main] \in {"accept", "register", "replay", "spawn"}
    /\ \A c \in Client : pc[c] \notin {"accept", "register", "replay", "spawn"}
    /\ pc[Main] # "accept" => clientCount > 0 /\ pipe[New] > 0 /\ pc[New] = "none"
    /\ \A c \in Client : c >= clientCount => pc[c] = "none"

\* What is in a pipe and in the send buffer it announces.
PipeInv ==
    \A d \in Client :
      /\ pipe[d] <= Len(sbuffer[d])
      /\ pc[d] = "flush" => pipe[d] = 0
      /\ sMutex[d] \notin {d, Nobody} => pipe[d] < Len(sbuffer[d])
      /\ sbuffer[d] # <<>> => pipe[d] > 0 \/ sMutex[d] # Nobody

IInv == Typed /\ ListInv /\ MutexInv /\ NewInv /\ PipeInv

\* Ids and threads: the main thread and Nobody are no client.
LEMMA ThreadFacts ==
    /\ Client \subseteq Thread /\ Main \in Thread
    /\ Main \notin Client /\ Nobody \notin Client /\ Main # Nobody
    /\ Client \subseteq Nat /\ Nobody \notin Thread
    /\ \A k \in 0 .. MaxClients :
         k < MaxClients => k \in Client /\ k + 1 \in 0 .. MaxClients
    /\ \A k \in 0 .. MaxClients : k > 0 => k - 1 \in Client
BY SMT, ServerConstants DEF ServerConstants, Client, Main, Thread, Nobody

\* Pkt makes packets.
LEMMA PktType ==
    ASSUME NEW k \in Kind, NEW c \in Client, NEW m \in Nat
    PROVE  Pkt(k, c, m) \in Packet
BY DEF Pkt, Packet

\* What a thread broadcasts is a packet.
LEMMA InHandType ==
    ASSUME NEW c \in Client, TypeControl, TypeReading
    PROVE  InHand(c) \in Packet
<1>1. hand[c] \in Kind
  BY DEF TypeControl, Kind
<1>2. relayed[c] + 1 \in Nat /\ 0 \in Nat
  BY SMT DEF TypeReading
<1> QED
  BY <1>1, <1>2, PktType DEF InHand

\* The next element of a walk over the list is an id.
LEMMA TodoType ==
    ASSUME NEW t \in Thread, TypeControl, todo[t] # <<>>
    PROVE  Head(todo[t]) \in Client /\ Tail(todo[t]) \in Seq(Client)
BY SMT DEF TypeControl

\* The client being set up has an id.
LEMMA NewType ==
    ASSUME TypeShared, NewInv, pc[Main] # "accept"
    PROVE  New \in Client
BY SMT, ThreadFacts DEF TypeShared, NewInv, New

\* Accept leaves every variable in its type.
LEMMA AcceptType ==
    ASSUME IInv, Accept
    PROVE  Typed'
<1>1. TypeShared'
  BY SMT, ThreadFacts
  DEF IInv, Typed, TypeShared, Accept, Pkt, Packet, Kind, reading, network
<1>2. TypeBuffers'
  BY SMT, ThreadFacts
  DEF IInv, Typed, TypeBuffers, TypeShared, Accept, Pkt, Packet, Kind,
      reading, network
<1>3. TypeControl'
  BY SMT, ThreadFacts
  DEF IInv, Typed, TypeControl, Accept, Goto, Pkt, Packet, Kind, reading,
      network
<1>4. TypeReading'
  BY DEF IInv, Typed, TypeReading, Accept, reading, network
<1>5. TypeNetwork'
  BY DEF IInv, Typed, TypeNetwork, Accept, reading, network
<1> QED BY <1>1, <1>2, <1>3, <1>4, <1>5 DEF Typed

\* RegisterLock leaves every variable in its type.
LEMMA RegisterLockType ==
    ASSUME IInv, RegisterLock
    PROVE  Typed'
<1>1. TypeShared'
  BY SMT, ThreadFacts
  DEF IInv, Typed, TypeShared, RegisterLock, buffers, reading, network
<1>2. TypeBuffers'
  BY DEF IInv, Typed, TypeBuffers, RegisterLock, buffers, reading, network
<1>3. TypeControl'
  BY SMT, ThreadFacts
  DEF IInv, Typed, TypeControl, TypeShared, RegisterLock, Goto, buffers,
      reading, network
<1>4. TypeReading'
  BY DEF IInv, Typed, TypeReading, RegisterLock, buffers, reading, network
<1>5. TypeNetwork'
  BY DEF IInv, Typed, TypeNetwork, RegisterLock, buffers, reading, network
<1> QED BY <1>1, <1>2, <1>3, <1>4, <1>5 DEF Typed

\* RegisterReplay leaves every variable in its type.
LEMMA RegisterReplayType ==
    ASSUME IInv, RegisterReplay
    PROVE  Typed'
<1>1. TypeShared'
  BY DEF IInv, Typed, TypeShared, RegisterReplay, shared, reading, network
<1>2. TypeBuffers'
  <2>1. New \in Client
    BY NewType DEF IInv, Typed, RegisterReplay
  <2>2. Head(todo[Main]) \in Client
    BY TodoType, ThreadFacts DEF IInv, Typed, RegisterReplay
  <2>3. Pkt("CONNECTED", Head(todo[Main]), 0) \in Packet
    BY <2>2, PktType DEF Kind
  <2> QED
    BY SMT, <2>1, <2>2, <2>3
    DEF IInv, Typed, TypeBuffers, RegisterReplay
<1>3. TypeControl'
  BY SMT, ThreadFacts
  DEF IInv, Typed, TypeControl, RegisterReplay, New, Pkt, Packet, Kind,
      shared, reading, network
<1>4. TypeReading'
  BY DEF IInv, Typed, TypeReading, RegisterReplay, shared, reading, network
<1>5. TypeNetwork'
  BY DEF IInv, Typed, TypeNetwork, RegisterReplay, shared, reading, network
<1> QED BY <1>1, <1>2, <1>3, <1>4, <1>5 DEF Typed

\* RegisterLink leaves every variable in its type.
LEMMA RegisterLinkType ==
    ASSUME IInv, RegisterLink
    PROVE  Typed'
<1>1. TypeShared'
  BY SMT, ThreadFacts
  DEF IInv, Typed, TypeShared, NewInv, RegisterLink, New, buffers, reading,
      network
<1>2. TypeBuffers'
  BY DEF IInv, Typed, TypeBuffers, RegisterLink, buffers, reading, network
<1>3. TypeControl'
  BY SMT, ThreadFacts
  DEF IInv, Typed, TypeControl, RegisterLink, New, Goto, buffers, reading,
      network
<1>4. TypeReading'
  BY DEF IInv, Typed, TypeReading, RegisterLink, buffers, reading, network
<1>5. TypeNetwork'
  BY DEF IInv, Typed, TypeNetwork, RegisterLink, buffers, reading, network
<1> QED BY <1>1, <1>2, <1>3, <1>4, <1>5 DEF Typed

\* Spawn leaves every variable in its type.
LEMMA SpawnType ==
    ASSUME IInv, Spawn
    PROVE  Typed'
<1>1. TypeShared'
  BY DEF IInv, Typed, TypeShared, Spawn, shared, buffers, reading, network
<1>2. TypeBuffers'
  BY DEF IInv, Typed, TypeBuffers, Spawn, shared, buffers, reading, network
<1>3. TypeControl'
  <2>1. New \in Thread
    BY NewType, ThreadFacts DEF IInv, Typed, Spawn
  <2> QED
    BY SMTT(30), <2>1, ThreadFacts DEF IInv, Typed, TypeControl, Spawn
<1>4. TypeReading'
  BY DEF IInv, Typed, TypeReading, Spawn, shared, buffers, reading, network
<1>5. TypeNetwork'
  BY DEF IInv, Typed, TypeNetwork, Spawn, shared, buffers, reading, network
<1> QED BY <1>1, <1>2, <1>3, <1>4, <1>5 DEF Typed

\* BroadcastLock leaves every variable in its type.
LEMMA BroadcastLockType ==
    ASSUME NEW c \in Client, IInv, BroadcastLock(c)
    PROVE  Typed'
<1>1. TypeShared'
  BY SMT, ThreadFacts
  DEF IInv, Typed, TypeShared, BroadcastLock, buffers, reading, network
<1>2. TypeBuffers'
  BY DEF IInv, Typed, TypeBuffers, BroadcastLock, buffers, reading, network
<1>3. TypeControl'
  BY SMT, ThreadFacts
  DEF IInv, Typed, TypeControl, TypeShared, BroadcastLock, Goto, buffers,
      reading, network
<1>4. TypeReading'
  BY DEF IInv, Typed, TypeReading, BroadcastLock, buffers, reading, network
<1>5. TypeNetwork'
  BY DEF IInv, Typed, TypeNetwork, BroadcastLock, buffers, reading, network
<1> QED BY <1>1, <1>2, <1>3, <1>4, <1>5 DEF Typed

\* BroadcastSkip leaves every variable in its type.
LEMMA BroadcastSkipType ==
    ASSUME NEW c \in Client, IInv, BroadcastSkip(c)
    PROVE  Typed'
<1>1. TypeShared'
  BY DEF IInv, Typed, TypeShared, BroadcastSkip, shared, buffers, reading,
      network
<1>2. TypeBuffers'
  BY DEF IInv, Typed, TypeBuffers, BroadcastSkip, shared, buffers, reading,
      network
<1>3. TypeControl'
  BY SMT, ThreadFacts
  DEF IInv, Typed, TypeControl, BroadcastSkip, shared, buffers, reading,
      network
<1>4. TypeReading'
  BY DEF IInv, Typed, TypeReading, BroadcastSkip, shared, buffers, reading,
      network
<1>5. TypeNetwork'
  BY DEF IInv, Typed, TypeNetwork, BroadcastSkip, shared, buffers, reading,
      network
<1> QED BY <1>1, <1>2, <1>3, <1>4, <1>5 DEF Typed

\* BroadcastAppend leaves every variable in its type.
LEMMA BroadcastAppendType ==
    ASSUME NEW c \in Client, IInv, BroadcastAppend(c)
    PROVE  Typed'
<1>1. TypeShared'
  BY SMT, ThreadFacts
  DEF IInv, Typed, TypeShared, TypeControl, BroadcastAppend, Pkt, Packet,
      Kind, InHand, shared, reading, network
<1>2. TypeBuffers'
  <2>1. Head(todo[c]) \in Client
    BY TodoType, ThreadFacts DEF IInv, Typed, BroadcastAppend
  <2>2. InHand(c) \in Packet
    BY InHandType DEF IInv, Typed
  <2> QED
    BY SMTT(30), <2>1, <2>2 DEF IInv, Typed, TypeBuffers, BroadcastAppend
<1>3. TypeControl'
  BY SMT, ThreadFacts
  DEF IInv, Typed, TypeControl, BroadcastAppend, Goto, Pkt, Packet, Kind,
      InHand, shared, reading, network
<1>4. TypeReading'
  BY DEF IInv, Typed, TypeReading, BroadcastAppend, shared, reading, network
<1>5. TypeNetwork'
  BY DEF IInv, Typed, TypeNetwork, BroadcastAppend, shared, reading, network
<1> QED BY <1>1, <1>2, <1>3, <1>4, <1>5 DEF Typed

\* BroadcastNotify leaves every variable in its type.
LEMMA BroadcastNotifyType ==
    ASSUME NEW c \in Client, IInv, BroadcastNotify(c)
    PROVE  Typed'
<1>1. TypeShared'
  BY SMT, ThreadFacts
  DEF IInv, Typed, TypeShared, TypeControl, MutexInv, BroadcastNotify, shared,
      reading, network
<1>2. TypeBuffers'
  <2>1. Head(todo[c]) \in Client
    BY TodoType, ThreadFacts DEF IInv, Typed, MutexInv, BroadcastNotify
  <2>2. pipe[Head(todo[c])] + 1 \in Nat
    BY SMT, <2>1 DEF IInv, Typed, TypeBuffers
  <2>3. pipe' \in [Client -> Nat]
    BY <2>1, <2>2 DEF IInv, Typed, TypeBuffers, BroadcastNotify
  <2> QED
    BY <2>3 DEF IInv, Typed, TypeBuffers, BroadcastNotify
<1>3. TypeControl'
  BY SMT, ThreadFacts
  DEF IInv, Typed, TypeControl, MutexInv, BroadcastNotify, Goto, shared,
      reading, network
<1>4. TypeReading'
  BY DEF IInv, Typed, TypeReading, BroadcastNotify, shared, reading, network
<1>5. TypeNetwork'
  BY DEF IInv, Typed, TypeNetwork, BroadcastNotify, shared, reading, network
<1> QED BY <1>1, <1>2, <1>3, <1>4, <1>5 DEF Typed

\* BroadcastUnlock leaves every variable in its type.
LEMMA BroadcastUnlockType ==
    ASSUME NEW c \in Client, IInv, BroadcastUnlock(c)
    PROVE  Typed'
<1>1. TypeShared'
  BY SMT, ThreadFacts
  DEF IInv, Typed, TypeShared, BroadcastUnlock, buffers, network
<1>2. TypeBuffers'
  BY DEF IInv, Typed, TypeBuffers, BroadcastUnlock, buffers, network
<1>3. TypeControl'
  BY SMTT(30), ThreadFacts
  DEF IInv, Typed, TypeControl, BroadcastUnlock, Goto, buffers, network
<1>4. TypeReading'
  <2>1. relayed' \in [Client -> Nat]
    <3>1. relayed[c] + 1 \in Nat
      BY SMT DEF IInv, Typed, TypeReading
    <3>2. CASE UNCHANGED relayed
      BY <3>2 DEF IInv, Typed, TypeReading
    <3>3. CASE relayed' = [relayed EXCEPT ![c] = @ + 1]
      BY <3>1, <3>3 DEF IInv, Typed, TypeReading
    <3> QED
      BY <3>2, <3>3 DEF BroadcastUnlock
  <2> QED
    BY <2>1 DEF IInv, Typed, TypeReading, BroadcastUnlock
<1>5. TypeNetwork'
  BY DEF IInv, Typed, TypeNetwork, BroadcastUnlock, buffers, network
<1> QED BY <1>1, <1>2, <1>3, <1>4, <1>5 DEF Typed

\* Read leaves every variable in its type.
LEMMA ReadType ==
    ASSUME NEW c \in Client, IInv, Read(c)
    PROVE  Typed'
<1>1. TypeShared'
  BY DEF IInv, Typed, TypeShared, Read, shared, buffers, network
<1>2. TypeBuffers'
  BY DEF IInv, Typed, TypeBuffers, Read, shared, buffers, network
<1>3. TypeControl'
  BY SMT, ThreadFacts
  DEF IInv, Typed, TypeControl, Read, Goto, shared, buffers, network
<1>4. TypeReading'
  <2>1. pipeReady' \in [Client -> BOOLEAN]
    BY DEF IInv, Typed, TypeReading, Read
  <2>2. PICK g \in got[c] .. sent[c], t \in Tails \cup {0} :
          got' = [got EXCEPT ![c] = g] /\ tail' = [tail EXCEPT ![c] = t]
    BY DEF Read
  <2>3. g \in Nat /\ t \in 0 .. 2
    BY SMT, <2>2, ServerConstants
    DEF IInv, Typed, TypeReading, TypeNetwork, ServerConstants
  <2>4. got' \in [Client -> Nat] /\ tail' \in [Client -> 0 .. 2]
    BY <2>2, <2>3 DEF IInv, Typed, TypeReading
  <2> QED
    BY <2>1, <2>4 DEF IInv, Typed, TypeReading, Read
<1>5. TypeNetwork'
  BY DEF IInv, Typed, TypeNetwork, Read, shared, buffers, network
<1> QED BY <1>1, <1>2, <1>3, <1>4, <1>5 DEF Typed

\* Cut leaves every variable in its type.
LEMMA CutType ==
    ASSUME NEW c \in Client, IInv, Cut(c)
    PROVE  Typed'
<1>1. TypeShared'
  BY DEF IInv, Typed, TypeShared, Cut, shared, reading, network
<1>2. TypeBuffers'
  BY SMTT(30), ThreadFacts
  DEF IInv, Typed, TypeBuffers, TypeReading, Cut, Pkt, Packet, Kind, shared,
      reading, network
<1>3. TypeControl'
  BY SMT, ThreadFacts
  DEF IInv, Typed, TypeControl, Cut, Goto, Pkt, Packet, Kind, shared, reading,
      network
<1>4. TypeReading'
  BY DEF IInv, Typed, TypeReading, Cut, shared, reading, network
<1>5. TypeNetwork'
  BY DEF IInv, Typed, TypeNetwork, Cut, shared, reading, network
<1> QED BY <1>1, <1>2, <1>3, <1>4, <1>5 DEF Typed

\* CutDone leaves every variable in its type.
LEMMA CutDoneType ==
    ASSUME NEW c \in Client, IInv, CutDone(c)
    PROVE  Typed'
<1>1. TypeShared'
  BY DEF IInv, Typed, TypeShared, CutDone, shared, buffers, reading, network
<1>2. TypeBuffers'
  BY DEF IInv, Typed, TypeBuffers, CutDone, shared, buffers, reading, network
<1>3. TypeControl'
  BY SMT, ThreadFacts
  DEF IInv, Typed, TypeControl, CutDone, Goto, shared, buffers, reading,
      network
<1>4. TypeReading'
  BY DEF IInv, Typed, TypeReading, CutDone, shared, buffers, reading, network
<1>5. TypeNetwork'
  BY DEF IInv, Typed, TypeNetwork, CutDone, shared, buffers, reading, network
<1> QED BY <1>1, <1>2, <1>3, <1>4, <1>5 DEF Typed

\* ReadEnd leaves every variable in its type.
LEMMA ReadEndType ==
    ASSUME NEW c \in Client, IInv, ReadEnd(c)
    PROVE  Typed'
<1>1. TypeShared'
  BY DEF IInv, Typed, TypeShared, ReadEnd, shared, buffers, reading, network
<1>2. TypeBuffers'
  BY DEF IInv, Typed, TypeBuffers, ReadEnd, shared, buffers, reading, network
<1>3. TypeControl'
  BY SMT, ThreadFacts
  DEF IInv, Typed, TypeControl, ReadEnd, Goto, shared, buffers, reading,
      network
<1>4. TypeReading'
  BY DEF IInv, Typed, TypeReading, ReadEnd, shared, buffers, reading, network
<1>5. TypeNetwork'
  BY DEF IInv, Typed, TypeNetwork, ReadEnd, shared, buffers, reading, network
<1> QED BY <1>1, <1>2, <1>3, <1>4, <1>5 DEF Typed

\* SelectPipe leaves every variable in its type.
LEMMA SelectPipeType ==
    ASSUME NEW c \in Client, IInv, SelectPipe(c)
    PROVE  Typed'
<1>1. TypeShared'
  BY DEF IInv, Typed, TypeShared, SelectPipe, shared, buffers, reading, network
<1>2. TypeBuffers'
  BY DEF IInv, Typed, TypeBuffers, SelectPipe, shared, buffers, reading,
      network
<1>3. TypeControl'
  BY SMT, ThreadFacts
  DEF IInv, Typed, TypeControl, SelectPipe, Goto, shared, buffers, reading,
      network
<1>4. TypeReading'
  BY DEF IInv, Typed, TypeReading, SelectPipe, shared, buffers, reading,
      network
<1>5. TypeNetwork'
  BY DEF IInv, Typed, TypeNetwork, SelectPipe, shared, buffers, reading,
      network
<1> QED BY <1>1, <1>2, <1>3, <1>4, <1>5 DEF Typed

\* SendLock leaves every variable in its type.
LEMMA SendLockType ==
    ASSUME NEW c \in Client, IInv, SendLock(c)
    PROVE  Typed'
<1>1. TypeShared'
  BY SMT, ThreadFacts
  DEF IInv, Typed, TypeShared, SendLock, shared, reading, network
<1>2. TypeBuffers'
  BY SMT, ThreadFacts
  DEF IInv, Typed, TypeBuffers, SendLock, shared, reading, network
<1>3. TypeControl'
  BY SMT, ThreadFacts
  DEF IInv, Typed, TypeControl, SendLock, Goto, shared, reading, network
<1>4. TypeReading'
  BY DEF IInv, Typed, TypeReading, SendLock, shared, reading, network
<1>5. TypeNetwork'
  BY DEF IInv, Typed, TypeNetwork, SendLock, shared, reading, network
<1> QED BY <1>1, <1>2, <1>3, <1>4, <1>5 DEF Typed

\* SendAll leaves every variable in its type.
LEMMA SendAllType ==
    ASSUME NEW c \in Client, IInv, SendAll(c)
    PROVE  Typed'
<1>1. TypeShared'
  BY SMT, ThreadFacts DEF IInv, Typed, TypeShared, SendAll, shared, reading
<1>2. TypeBuffers'
  BY SMT, ThreadFacts DEF IInv, Typed, TypeBuffers, SendAll, shared, reading
<1>3. TypeControl'
  BY SMT, ThreadFacts
  DEF IInv, Typed, TypeControl, SendAll, Goto, shared, reading
<1>4. TypeReading'
  BY DEF IInv, Typed, TypeReading, SendAll, shared, reading
<1>5. TypeNetwork'
  <2>1. out' \in [Client -> Seq(Packet)]
    <3>1. CASE UNCHANGED out
      BY <3>1 DEF IInv, Typed, TypeNetwork
    <3>2. CASE out' = [out EXCEPT ![c] = @ \o sbuffer[c]]
      BY SMT, <3>2 DEF IInv, Typed, TypeNetwork, TypeBuffers
    <3> QED
      BY <3>1, <3>2 DEF SendAll
  <2>2. reset' \in [Client -> BOOLEAN]
    BY Zenon DEF IInv, Typed, TypeNetwork, SendAll
  <2> QED
    BY <2>1, <2>2 DEF IInv, Typed, TypeNetwork, SendAll
<1> QED BY <1>1, <1>2, <1>3, <1>4, <1>5 DEF Typed

\* SendKilled leaves every variable in its type.
LEMMA SendKilledType ==
    ASSUME NEW c \in Client, IInv, SendKilled(c)
    PROVE  Typed'
<1>1. TypeShared'
  BY DEF IInv, Typed, TypeShared, SendKilled, shared, buffers, reading
<1>2. TypeBuffers'
  BY DEF IInv, Typed, TypeBuffers, SendKilled, shared, buffers, reading
<1>3. TypeControl'
  BY DEF IInv, Typed, TypeControl, SendKilled, shared, buffers, reading
<1>4. TypeReading'
  BY DEF IInv, Typed, TypeReading, SendKilled, shared, buffers, reading
<1>5. TypeNetwork'
  <2>1. up' \in BOOLEAN
    BY Zenon DEF SendKilled
  <2> QED
    BY <2>1 DEF IInv, Typed, TypeNetwork, SendKilled
<1> QED BY <1>1, <1>2, <1>3, <1>4, <1>5 DEF Typed

\* Shutdown leaves every variable in its type.
LEMMA ShutdownType ==
    ASSUME NEW c \in Client, IInv, Shutdown(c)
    PROVE  Typed'
<1>1. TypeShared'
  <2>1. PICK i \in DOMAIN clients : clients' = RemoveAt(clients, i)
    BY DEF Shutdown
  <2>2. clients \in Seq(Client)
    BY DEF IInv, Typed, TypeShared
  <2>3. clients' \in Seq(Client)
    BY SMT, <2>1, <2>2 DEF RemoveAt
  <2> QED
    BY <2>3 DEF IInv, Typed, TypeShared, Shutdown
<1>2. TypeBuffers'
  BY SMT, ThreadFacts DEF IInv, Typed, TypeBuffers, Shutdown, reading, network
<1>3. TypeControl'
  BY SMT, ThreadFacts
  DEF IInv, Typed, TypeControl, Shutdown, Goto, reading, network
<1>4. TypeReading'
  BY DEF IInv, Typed, TypeReading, Shutdown, reading, network
<1>5. TypeNetwork'
  BY DEF IInv, Typed, TypeNetwork, Shutdown, reading, network
<1> QED BY <1>1, <1>2, <1>3, <1>4, <1>5 DEF Typed

\* PeerSend leaves every variable in its type.
LEMMA PeerSendType ==
    ASSUME NEW c \in Client, IInv, PeerSend(c)
    PROVE  Typed'
<1>1. TypeShared'
  BY DEF IInv, Typed, TypeShared, PeerSend, shared, buffers, reading
<1>2. TypeBuffers'
  BY DEF IInv, Typed, TypeBuffers, PeerSend, shared, buffers, reading
<1>3. TypeControl'
  BY DEF IInv, Typed, TypeControl, PeerSend, shared, buffers, reading
<1>4. TypeReading'
  BY DEF IInv, Typed, TypeReading, PeerSend, shared, buffers, reading
<1>5. TypeNetwork'
  BY SMT, ThreadFacts
  DEF IInv, Typed, TypeNetwork, PeerSend, shared, buffers, reading
<1> QED BY <1>1, <1>2, <1>3, <1>4, <1>5 DEF Typed

\* PeerClose leaves every variable in its type.
LEMMA PeerCloseType ==
    ASSUME NEW c \in Client, IInv, PeerClose(c)
    PROVE  Typed'
<1>1. TypeShared'
  BY DEF IInv, Typed, TypeShared, PeerClose, shared, buffers, reading
<1>2. TypeBuffers'
  BY DEF IInv, Typed, TypeBuffers, PeerClose, shared, buffers, reading
<1>3. TypeControl'
  BY DEF IInv, Typed, TypeControl, PeerClose, shared, buffers, reading
<1>4. TypeReading'
  BY DEF IInv, Typed, TypeReading, PeerClose, shared, buffers, reading
<1>5. TypeNetwork'
  <2>1. closed' \in [Client -> BOOLEAN]
    BY Zenon DEF IInv, Typed, TypeNetwork, PeerClose
  <2>2. reset' \in [Client -> BOOLEAN]
    BY Zenon DEF IInv, Typed, TypeNetwork, PeerClose
  <2>3. sent' \in [Client -> Nat]
    <3>1. CASE UNCHANGED sent
      BY <3>1 DEF IInv, Typed, TypeNetwork
    <3>2. CASE \E m \in got[c] .. sent[c] : sent' = [sent EXCEPT ![c] = m]
      BY SMT, <3>2 DEF IInv, Typed, TypeNetwork, TypeReading
    <3> QED
      BY <3>1, <3>2 DEF PeerClose
  <2> QED
    BY <2>1, <2>2, <2>3 DEF IInv, Typed, TypeNetwork, PeerClose
<1> QED BY <1>1, <1>2, <1>3, <1>4, <1>5 DEF Typed

--------------------------------------------------------------------------------
\* Labels at which a thread holds no mutex.
Idle == {"lock", "select", "cut", "send", "shutdown", "done"}

MainSteps == ListInv /\ MutexInv /\ NewInv /\ PipeInv

\* The invariants depend on these variables only.
LEMMA FrameStep ==
    ASSUME IInv, UNCHANGED <<clientCount, clients, ctxMutex, sMutex, todo, pc,
                             pipe, sbuffer>>
    PROVE  MainSteps'
<1>1. ListInv'
  BY DEF IInv, ListInv
<1>2. MutexInv'
  BY DEF IInv, MutexInv
<1>3. NewInv'
  BY DEF IInv, NewInv, New
<1>4. PipeInv'
  BY DEF IInv, PipeInv
<1> QED
  BY <1>1, <1>2, <1>3, <1>4 DEF MainSteps

\* The mutexes are none of the business of a thread that holds none.
LEMMA LocalMutex ==
    ASSUME IInv, NEW c \in Client, NEW l \in Idle, pc[c] \in Idle,
           pc' = [pc EXCEPT ![c] = l],
           UNCHANGED <<ctxMutex, sMutex, todo>>
    PROVE  MutexInv'
<1>1. /\ pc'[Main] = pc[Main]
      /\ \A d \in Client : d # c => pc'[d] = pc[d]
      /\ pc'[c] \in Idle
  BY ThreadFacts DEF IInv, Typed, TypeControl
<1>2. pc'[Main] = "replay" => ctxMutex = Main
  BY <1>1 DEF IInv, MutexInv
<1>3. ASSUME NEW d \in Client
      PROVE  /\ pc'[d] \in {"cast", "notify"} => ctxMutex = d
             /\ pc'[d] = "flush" => sMutex[d] = d
             /\ pc'[d] = "notify" => todo[d] # <<>> /\ sMutex[Head(todo[d])] = d
  BY <1>1 DEF IInv, MutexInv, Idle
<1>4. ASSUME NEW e \in Client, NEW d \in Client, sMutex[d] = e
      PROVE  IF e = d THEN pc'[e] = "flush"
             ELSE pc'[e] = "notify" /\ Head(todo[e]) = d
  BY <1>1, <1>4 DEF IInv, MutexInv, Idle
<1> QED
  BY <1>2, <1>3, <1>4 DEF MutexInv

\* A thread that holds no mutex moves on to where it holds none.
LEMMA LocalStep ==
    ASSUME IInv, NEW c \in Client, NEW l \in Idle, pc[c] \in Idle,
           pc' = [pc EXCEPT ![c] = l],
           UNCHANGED <<clientCount, clients, ctxMutex, sMutex, todo, pipe,
               sbuffer>>
    PROVE  MainSteps'
<1>1. ListInv'
  BY DEF IInv, ListInv
<1>2. MutexInv'
  BY LocalMutex
<1>3. NewInv'
  BY SMT, ThreadFacts DEF IInv, Typed, TypeControl, NewInv, New, Idle
<1>4. PipeInv'
  BY SMT, ThreadFacts DEF IInv, Typed, TypeControl, PipeInv, Idle
<1> QED
  BY <1>1, <1>2, <1>3, <1>4 DEF MainSteps

\* A started thread moves on; the pipe of the client being set up keeps its byte.
LEMMA NewStep ==
    ASSUME IInv, NEW c \in Client, NEW l, pc[c] # "none",
           l \notin {"accept", "register", "replay", "spawn"},
           pc' = [pc EXCEPT ![c] = l],
           UNCHANGED clientCount,
           \A d \in Client : d # c => pipe'[d] \in Nat /\ pipe'[d] >= pipe[d]
    PROVE  NewInv'
<1>1. /\ pc'[Main] = pc[Main]
      /\ \A d \in Client : d # c => pc'[d] = pc[d]
      /\ pc'[c] = l
  BY ThreadFacts DEF IInv, Typed, TypeControl
<1>2. ASSUME pc[Main] # "accept"
      PROVE  pipe'[New] > 0 /\ New \in Client /\ New # c
  <2>1. New \in Client /\ pipe[New] > 0 /\ New # c
    BY <1>2, NewType DEF IInv, Typed, NewInv
  <2>2. pipe[New] \in Nat /\ pipe'[New] \in Nat /\ pipe'[New] >= pipe[New]
    BY SMT, <2>1, ThreadFacts DEF IInv, Typed, TypeBuffers
  <2> QED
    BY SMT, <2>1, <2>2
<1> QED
  BY <1>1, <1>2 DEF IInv, NewInv, New

\* Dropping one element of a sequence leaves elements of it.
LEMMA SpliceElements ==
    ASSUME NEW S, NEW q \in Seq(S), NEW i \in DOMAIN q,
           NEW j \in DOMAIN RemoveAt(q, i)
    PROVE  \E k \in DOMAIN q : RemoveAt(q, i)[j] = q[k]
<1> DEFINE r == RemoveAt(q, i)
           front == SubSeq(q, 1, i - 1)
           back  == SubSeq(q, i + 1, Len(q))
<1>1. i \in 1 .. Len(q) /\ Len(q) \in Nat /\ DOMAIN q = 1 .. Len(q)
  BY LenProperties
<1>2. \A k \in 1 .. Len(q) : q[k] \in S
  BY ElementOfSeq
<1>3. /\ front \in Seq(S) /\ Len(front) = i - 1
      /\ \A k \in 1 .. i - 1 : front[k] = q[k]
  <2>1. 1 \in Int /\ i - 1 \in Int /\ \A k \in 1 .. i - 1 : q[k] \in S
    BY SMT, <1>1, <1>2
  <2>2. /\ SubSeq(q, 1, i - 1) \in Seq(S)
        /\ Len(SubSeq(q, 1, i - 1)) = IF 1 <= i - 1 THEN i - 1 - 1 + 1 ELSE 0
        /\ \A k \in 1 .. i - 1 - 1 + 1 : SubSeq(q, 1, i - 1)[k] = q[1 + k - 1]
    BY <2>1, SubSeqProperties
  <2>3. \A k \in 1 .. i - 1 : 1 + k - 1 = k /\ k \in 1 .. i - 1 - 1 + 1
    BY SMT, <1>1
  <2>4. (IF 1 <= i - 1 THEN i - 1 - 1 + 1 ELSE 0) = i - 1
    BY SMT, <1>1
  <2> QED
    BY <2>2, <2>3, <2>4
<1>4. /\ back \in Seq(S) /\ Len(back) = Len(q) - i
      /\ \A k \in 1 .. Len(q) - i : back[k] = q[i + k]
  <2>1. i + 1 \in Int /\ Len(q) \in Int /\ \A k \in i + 1 .. Len(q) : q[k] \in S
    BY SMT, <1>1, <1>2
  <2>2. /\ SubSeq(q, i + 1, Len(q)) \in Seq(S)
        /\ Len(SubSeq(q, i + 1, Len(q))) =
             IF i + 1 <= Len(q) THEN Len(q) - (i + 1) + 1 ELSE 0
        /\ \A k \in 1 .. Len(q) - (i + 1) + 1 :
             SubSeq(q, i + 1, Len(q))[k] = q[i + 1 + k - 1]
    BY SMTT(30), <2>1, SubSeqProperties
  <2>3. (IF i + 1 <= Len(q) THEN Len(q) - (i + 1) + 1 ELSE 0) = Len(q) - i
    BY SMT, <1>1
  <2>4. \A k \in 1 .. Len(q) - i :
          k \in 1 .. Len(q) - (i + 1) + 1 /\ i + 1 + k - 1 = i + k
    BY SMT, <1>1
  <2> QED
    BY <2>2, <2>3, <2>4
<1> HIDE DEF r, front, back
<1>5. /\ front \o back \in Seq(S)
      /\ Len(front \o back) = Len(front) + Len(back)
      /\ \A k \in 1 .. Len(front) + Len(back) :
           (front \o back)[k] = IF k <= Len(front) THEN front[k]
                                ELSE back[k - Len(front)]
  BY SMTT(30), <1>3, <1>4, ConcatProperties
<1>6. r = front \o back
  BY DEF r, front, back, RemoveAt
<1>7. j \in 1 .. Len(q) - 1
  <2>1. DOMAIN r = 1 .. Len(r)
    BY <1>5, <1>6, LenProperties
  <2>2. j \in DOMAIN r /\ Len(r) = Len(q) - 1
    <3>1. Len(r) = Len(front) + Len(back)
      BY <1>5, <1>6
    <3>2. Len(front) = i - 1 /\ Len(back) = Len(q) - i
      BY <1>3, <1>4
    <3> QED
      BY SMTT(30), <3>1, <3>2, <1>1 DEF r
  <2> QED
    BY <2>1, <2>2
<1>8. CASE j < i
  <2>1. j \in 1 .. i - 1 /\ j \in 1 .. Len(q) /\ j <= Len(front)
        /\ j \in 1 .. Len(front) + Len(back)
    BY SMT, <1>8, <1>1, <1>3, <1>4, <1>7
  <2>2. r[j] = q[j]
    BY <2>1, <1>3, <1>5, <1>6
  <2> QED
    BY <2>1, <2>2, <1>1 DEF r
<1>9. CASE j >= i
  <2>0. Len(front) = i - 1 /\ Len(back) = Len(q) - i
    BY <1>3, <1>4
  <2>1. /\ j \in 1 .. Len(front) + Len(back) /\ ~ j <= Len(front)
        /\ j - Len(front) \in 1 .. Len(q) - i /\ i + (j - Len(front)) = j + 1
        /\ j + 1 \in 1 .. Len(q)
    BY SMTT(30), <1>9, <1>1, <1>7, <2>0
  <2>2. r[j] = back[j - Len(front)]
    BY <2>1, <1>5, <1>6
  <2>3. r[j] = q[j + 1]
    BY <2>1, <2>2, <1>4
  <2> QED
    BY <2>1, <2>3, <1>1 DEF r
<1> QED
  BY SMT, <1>1, <1>7, <1>8, <1>9

\* Every element of a list of clients is an id.
LEMMA ListElements ==
    ASSUME NEW q \in Seq(Client), NEW i \in DOMAIN q
    PROVE  q[i] \in Client /\ q[i] \in Int
<1>1. q[i] \in Client
  BY LenProperties
<1>2. Client \subseteq Int
  BY SMT, ThreadFacts
<1> QED
  BY <1>1, <1>2

\* Accept keeps the invariants of the list, mutexes, newcomer and pipes.
LEMMA AcceptStep ==
    ASSUME IInv, Accept
    PROVE  MainSteps'
<1>1. ListInv'
  <2>1. clients' = clients /\ todo' = todo /\ clientCount' = clientCount + 1
    BY DEF Accept
  <2>2. clientCount \in Int
    BY SMT DEF IInv, Typed, TypeShared
  <2>3. \A i \in DOMAIN clients : clients[i] \in Int
    BY ListElements DEF IInv, Typed, TypeShared
  <2>4. \A t \in Thread : \A i \in DOMAIN todo[t] : todo[t][i] \in Int
    BY ListElements DEF IInv, Typed, TypeControl
  <2> QED
    BY SMT, <2>1, <2>2, <2>3, <2>4 DEF IInv, ListInv
<1>2. MutexInv'
  <2>1. UNCHANGED <<ctxMutex, sMutex, todo>> /\ pc' = [pc EXCEPT ![Main] = "register"]
    BY DEF Accept, Goto
  <2>2. pc'[Main] = "register" /\ \A c \in Client : pc'[c] = pc[c]
    BY <2>1, ThreadFacts DEF IInv, Typed, TypeControl
  <2> QED
    BY <2>1, <2>2 DEF IInv, MutexInv
<1>3. NewInv'
  BY SMTT(30), ThreadFacts
  DEF IInv, Typed, TypeShared, TypeControl, TypeBuffers, NewInv, Accept,
      reading, network, Goto, New
<1>4. PipeInv'
  <2>1. clientCount \in Client /\ pc[clientCount] = "none"
    BY SMT, ThreadFacts DEF IInv, Typed, TypeShared, NewInv, Accept
  <2>2. /\ sMutex' = sMutex
        /\ \A d \in Client : pc'[d] = pc[d]
        /\ \A d \in Client : d # clientCount =>
             pipe'[d] = pipe[d] /\ sbuffer'[d] = sbuffer[d]
        /\ pipe'[clientCount] = 1 /\ Len(sbuffer'[clientCount]) = 1
    BY SMT, <2>1, ThreadFacts
    DEF IInv, Typed, TypeBuffers, TypeControl, Accept, Goto
  <2>3. sMutex[clientCount] \in {clientCount, Nobody}
    <3>1. SUFFICES ASSUME NEW t \in Client, t # clientCount,
        sMutex[clientCount] = t
                   PROVE  FALSE
      BY <2>1 DEF IInv, Typed, TypeShared
    <3>2. todo[t] # <<>> /\ Head(todo[t]) = clientCount
      BY <3>1, <2>1 DEF IInv, MutexInv
    <3>3. 1 \in DOMAIN todo[t] /\ todo[t][1] = clientCount
      BY SMT, <3>2, ThreadFacts DEF IInv, Typed, TypeControl
    <3>4. clientCount < clientCount
      BY <3>3, ThreadFacts DEF IInv, ListInv
    <3> QED
      BY SMT, <3>4, <2>1, ThreadFacts
  <2> QED
    BY SMTT(30), <2>1, <2>2, <2>3 DEF IInv, PipeInv
<1> QED BY <1>1, <1>2, <1>3, <1>4 DEF MainSteps

\* RegisterLock keeps the invariants of the list, mutexes, newcomer and pipes.
LEMMA RegisterLockStep ==
    ASSUME IInv, RegisterLock
    PROVE  MainSteps'
<1>1. ListInv'
  <2>1. \A u \in Thread : todo'[u] = IF u = Main THEN clients ELSE todo[u]
    BY ThreadFacts DEF IInv, Typed, TypeControl, RegisterLock
  <2> QED
    BY <2>1 DEF IInv, ListInv, RegisterLock
<1>2. MutexInv'
  BY SMTT(30), ThreadFacts
  DEF IInv, Typed, TypeShared, TypeControl, MutexInv, NewInv, RegisterLock,
      buffers, reading, network, Goto, New
<1>3. NewInv'
  BY SMTT(30), ThreadFacts
  DEF IInv, Typed, TypeShared, TypeControl, TypeBuffers, NewInv, RegisterLock,
      buffers, reading, network, Goto, New
<1>4. PipeInv'
  BY SMT, ThreadFacts
  DEF IInv, Typed, TypeShared, TypeBuffers, TypeControl, PipeInv, MutexInv,
      RegisterLock, buffers, reading, network, Goto, New
<1> QED BY <1>1, <1>2, <1>3, <1>4 DEF MainSteps

\* RegisterReplay keeps the invariants of the list, mutexes, newcomer and pipes.
LEMMA RegisterReplayStep ==
    ASSUME IInv, RegisterReplay
    PROVE  MainSteps'
<1>1. ListInv'
  BY SMTT(30), ThreadFacts
  DEF IInv, Typed, TypeShared, TypeControl, ListInv, RegisterReplay, shared,
      reading, network, New
<1>2. MutexInv'
  BY SMTT(30), ThreadFacts
  DEF IInv, Typed, TypeShared, TypeControl, MutexInv, NewInv, RegisterReplay,
      shared, reading, network, New
<1>3. NewInv'
  BY SMT, ThreadFacts
  DEF IInv, Typed, TypeShared, TypeControl, TypeBuffers, NewInv,
      RegisterReplay, shared, reading, network, New
<1>4. PipeInv'
  <2>1. New \in Client /\ pc[New] = "none" /\ pipe[New] > 0
    BY NewType DEF IInv, Typed, NewInv, RegisterReplay
  <2>2. /\ sMutex' = sMutex /\ pc' = pc /\ pipe' = pipe
        /\ \A d \in Client : d # New => sbuffer'[d] = sbuffer[d]
    BY SMTT(30), <2>1 DEF IInv, Typed, TypeBuffers, RegisterReplay
  <2>3. Len(sbuffer'[New]) >= Len(sbuffer[New])
    <3>1. Head(todo[Main]) \in Client
      BY TodoType, ThreadFacts DEF IInv, Typed, RegisterReplay
    <3>2. sbuffer'[New] =
            (sbuffer[New] \o <<Pkt("CONNECTED", Head(todo[Main]), 0)>>)
              \o hbuffer[Head(todo[Main])]
      BY <2>1 DEF IInv, Typed, TypeBuffers, RegisterReplay
    <3>3. /\ sbuffer[New] \in Seq(Packet)
          /\ hbuffer[Head(todo[Main])] \in Seq(Packet)
      BY <2>1, <3>1 DEF IInv, Typed, TypeBuffers
    <3>4. Pkt("CONNECTED", Head(todo[Main]), 0) \in Packet
      BY <3>1, PktType DEF Kind
    <3>5. <<Pkt("CONNECTED", Head(todo[Main]), 0)>> \in Seq(Packet)
      BY SMT, <3>4
    <3> DEFINE one == <<Pkt("CONNECTED", Head(todo[Main]), 0)>>
    <3>6. /\ sbuffer[New] \o one \in Seq(Packet)
          /\ Len(sbuffer[New] \o one) = Len(sbuffer[New]) + Len(one)
      BY <3>3, <3>5, ConcatProperties
    <3>7. Len(sbuffer'[New])
            = Len(sbuffer[New] \o one) + Len(hbuffer[Head(todo[Main])])
      BY <3>2, <3>3, <3>6, ConcatProperties
    <3>8. /\ Len(sbuffer[New]) \in Nat /\ Len(one) \in Nat
          /\ Len(hbuffer[Head(todo[Main])]) \in Nat
      BY <3>3, <3>5, LenProperties
    <3>9. \A x, y, z \in Nat : (x + y) + z >= x
      BY SMT
    <3> QED
      BY <3>6, <3>7, <3>8, <3>9
  <2>4. \A d \in Client : /\ pipe[d] \in Nat
                          /\ Len(sbuffer[d]) \in Nat /\ Len(sbuffer'[d]) \in Nat
    BY SMTT(30), RegisterReplayType, ThreadFacts DEF IInv, Typed, TypeBuffers
  <2> QED
    BY SMT, <2>1, <2>2, <2>3, <2>4 DEF IInv, PipeInv
<1> QED BY <1>1, <1>2, <1>3, <1>4 DEF MainSteps

\* RegisterLink keeps the invariants of the list, mutexes, newcomer and pipes.
LEMMA RegisterLinkStep ==
    ASSUME IInv, RegisterLink
    PROVE  MainSteps'
<1>1. ListInv'
  BY SMTT(30), ThreadFacts
  DEF IInv, Typed, TypeShared, TypeControl, ListInv, RegisterLink, buffers,
      reading, network, Goto, New
<1>2. MutexInv'
  BY SMTT(30), ThreadFacts
  DEF IInv, Typed, TypeShared, TypeControl, MutexInv, NewInv, RegisterLink,
      buffers, reading, network, Goto, New
<1>3. NewInv'
  BY SMTT(30), ThreadFacts
  DEF IInv, Typed, TypeShared, TypeControl, TypeBuffers, NewInv, RegisterLink,
      buffers, reading, network, Goto, New
<1>4. PipeInv'
  BY SMTT(30), ThreadFacts
  DEF IInv, Typed, TypeShared, TypeBuffers, TypeControl, PipeInv, MutexInv,
      RegisterLink, buffers, reading, network, Goto, New
<1> QED BY <1>1, <1>2, <1>3, <1>4 DEF MainSteps

\* Spawn keeps the invariants of the list, mutexes, newcomer and pipes.
LEMMA SpawnStep ==
    ASSUME IInv, Spawn
    PROVE  MainSteps'
<1>1. ListInv'
  BY SMT, ThreadFacts
  DEF IInv, Typed, TypeShared, TypeControl, ListInv, Spawn, shared, buffers,
      reading, network, New
<1>2. MutexInv'
  <2>1. New \in Client /\ pc[New] = "none"
    BY NewType DEF IInv, Typed, NewInv, Spawn
  <2>2. /\ ctxMutex' = ctxMutex /\ sMutex' = sMutex /\ todo' = todo
        /\ pc'[Main] = "accept"
        /\ \A d \in Client : pc'[d] = IF d = New THEN "lock" ELSE pc[d]
    BY SMT, <2>1, ThreadFacts DEF IInv, Typed, TypeControl, Spawn, shared
  <2> QED
    BY SMT, <2>1, <2>2, ThreadFacts DEF IInv, MutexInv
<1>3. NewInv'
  BY SMTT(30), ThreadFacts
  DEF IInv, Typed, TypeShared, TypeControl, TypeBuffers, NewInv, Spawn,
      shared, buffers, reading, network, New
<1>4. PipeInv'
  BY SMTT(30), ThreadFacts
  DEF IInv, Typed, TypeShared, TypeBuffers, TypeControl, PipeInv, MutexInv,
      Spawn, shared, buffers, reading, network, New
<1> QED BY <1>1, <1>2, <1>3, <1>4 DEF MainSteps

\* BroadcastLock keeps the invariants of the list, mutexes, newcomer and pipes.
LEMMA BroadcastLockStep ==
    ASSUME NEW c \in Client, IInv, BroadcastLock(c)
    PROVE  MainSteps'
<1>1. ListInv'
  <2>1. \A u \in Thread : todo'[u] = IF u = c THEN clients ELSE todo[u]
    BY ThreadFacts DEF IInv, Typed, TypeControl, BroadcastLock
  <2> QED
    BY <2>1 DEF IInv, ListInv, BroadcastLock
<1>2. MutexInv'
  BY SMTT(30), ThreadFacts
  DEF IInv, Typed, TypeShared, TypeControl, MutexInv, NewInv, BroadcastLock,
      buffers, reading, network, Goto, New
<1>3. NewInv'
  <2>1. \A d \in Client : d # c => pipe'[d] \in Nat /\ pipe'[d] >= pipe[d]
    BY SMT, ThreadFacts DEF IInv, Typed, TypeBuffers, BroadcastLock, buffers
  <2>2. pc' = [pc EXCEPT ![c] = "cast"] /\ pc[c] # "none"
    BY DEF BroadcastLock, Goto
  <2> QED
    BY <2>1, <2>2, NewStep DEF BroadcastLock, Goto, buffers
<1>4. PipeInv'
  BY SMTT(30), ThreadFacts
  DEF IInv, Typed, TypeShared, TypeBuffers, TypeControl, PipeInv, MutexInv,
      BroadcastLock, buffers, reading, network, Goto, New
<1> QED BY <1>1, <1>2, <1>3, <1>4 DEF MainSteps

\* BroadcastSkip keeps the invariants of the list, mutexes, newcomer and pipes.
LEMMA BroadcastSkipStep ==
    ASSUME NEW c \in Client, IInv, BroadcastSkip(c)
    PROVE  MainSteps'
<1>1. ListInv'
  BY SMTT(30), ThreadFacts
  DEF IInv, Typed, TypeShared, TypeControl, ListInv, BroadcastSkip, shared,
      buffers, reading, network, New
<1>2. MutexInv'
  BY SMTT(30), ThreadFacts
  DEF IInv, Typed, TypeShared, TypeControl, MutexInv, NewInv, BroadcastSkip,
      shared, buffers, reading, network, New
<1>3. NewInv'
  BY SMT, ThreadFacts
  DEF IInv, Typed, TypeShared, TypeControl, TypeBuffers, NewInv,
      BroadcastSkip, shared, buffers, reading, network, New
<1>4. PipeInv'
  BY SMTT(30), ThreadFacts
  DEF IInv, Typed, TypeShared, TypeBuffers, TypeControl, PipeInv, MutexInv,
      BroadcastSkip, shared, buffers, reading, network, New
<1> QED BY <1>1, <1>2, <1>3, <1>4 DEF MainSteps

\* BroadcastAppend keeps the invariants of the list, mutexes, newcomer and pipes.
LEMMA BroadcastAppendStep ==
    ASSUME NEW c \in Client, IInv, BroadcastAppend(c)
    PROVE  MainSteps'
<1>1. ListInv'
  BY DEF IInv, ListInv, BroadcastAppend, shared
<1>2. MutexInv'
  BY SMTT(30), ThreadFacts
  DEF IInv, Typed, TypeShared, TypeControl, MutexInv, NewInv, BroadcastAppend,
      shared, reading, network, Goto, New
<1>3. NewInv'
  <2>1. \A d \in Client : d # c => pipe'[d] \in Nat /\ pipe'[d] >= pipe[d]
    BY SMT, ThreadFacts DEF IInv, Typed, TypeBuffers, BroadcastAppend
  <2>2. pc' = [pc EXCEPT ![c] = "notify"] /\ pc[c] # "none"
    BY DEF BroadcastAppend, Goto
  <2> QED
    BY <2>1, <2>2, NewStep DEF BroadcastAppend, Goto, shared
<1>4. PipeInv'
  <2> DEFINE h == Head(todo[c])
  <2>1. h \in Client /\ h # c /\ sMutex[h] = Nobody /\ pc[h] # "flush"
    <3>1. h \in Client
      BY TodoType, ThreadFacts DEF IInv, Typed, BroadcastAppend
    <3> QED
      BY <3>1, ThreadFacts DEF IInv, MutexInv, BroadcastAppend
  <2>2. /\ pipe' = pipe
        /\ \A d \in Client : pc'[d] = IF d = c THEN "notify" ELSE pc[d]
        /\ \A d \in Client : d # h => sbuffer'[d] = sbuffer[d]
        /\ \A d \in Client : sMutex'[d] = IF d = h THEN c ELSE sMutex[d]
    BY <2>1, ThreadFacts
    DEF IInv, Typed, TypeShared, TypeBuffers, TypeControl, BroadcastAppend,
        Goto
  <2>3. Len(sbuffer'[h]) = Len(sbuffer[h]) + 1
    <3>1. sbuffer'[h] = Append(sbuffer[h],
        InHand(c)) /\ sbuffer[h] \in Seq(Packet)
      BY <2>1 DEF IInv, Typed, TypeBuffers, BroadcastAppend
    <3> QED
      BY SMT, <3>1
  <2>4. \A d \in Client : pipe[d] \in Nat /\ Len(sbuffer[d]) \in Nat
    BY SMT, ThreadFacts DEF IInv, Typed, TypeBuffers
  <2> HIDE DEF h
  <2> QED
    BY SMTT(30), <2>1, <2>2, <2>3, <2>4, ThreadFacts DEF IInv, PipeInv
<1> QED BY <1>1, <1>2, <1>3, <1>4 DEF MainSteps

\* BroadcastNotify keeps the invariants of the list, mutexes, newcomer and pipes.
LEMMA BroadcastNotifyStep ==
    ASSUME NEW c \in Client, IInv, BroadcastNotify(c)
    PROVE  MainSteps'
<1>1. ListInv'
  BY SMTT(30), ThreadFacts
  DEF IInv, Typed, TypeShared, TypeControl, ListInv, BroadcastNotify, shared,
      reading, network, Goto, New
<1>2. MutexInv'
  BY SMTT(30), ThreadFacts
  DEF IInv, Typed, TypeShared, TypeControl, MutexInv, NewInv, BroadcastNotify,
      shared, reading, network, Goto, New
<1>3. NewInv'
  <2>1. \A d \in Client : d # c => pipe'[d] \in Nat /\ pipe'[d] >= pipe[d]
    BY SMTT(30), ThreadFacts, TodoType
    DEF IInv, Typed, TypeBuffers, BroadcastNotify, MutexInv, TypeControl
  <2>2. pc' = [pc EXCEPT ![c] = "cast"] /\ pc[c] # "none"
    BY DEF BroadcastNotify, Goto
  <2> QED
    BY <2>1, <2>2, NewStep DEF BroadcastNotify, Goto, shared
<1>4. PipeInv'
  BY SMTT(30), ThreadFacts
  DEF IInv, Typed, TypeShared, TypeBuffers, TypeControl, PipeInv, MutexInv,
      BroadcastNotify, shared, reading, network, Goto, New
<1> QED BY <1>1, <1>2, <1>3, <1>4 DEF MainSteps

\* BroadcastUnlock keeps the invariants of the list, mutexes, newcomer and pipes.
LEMMA BroadcastUnlockStep ==
    ASSUME NEW c \in Client, IInv, BroadcastUnlock(c)
    PROVE  MainSteps'
<1>1. ListInv'
  BY SMT, ThreadFacts
  DEF IInv, Typed, TypeShared, TypeControl, ListInv, BroadcastUnlock, buffers,
      network, Goto, New
<1>2. MutexInv'
  <2>1. sMutex' = sMutex /\ todo' = todo /\ pc[c] = "cast" /\ ctxMutex = c
    BY DEF BroadcastUnlock, IInv, MutexInv
  <2>2. PICK l \in Idle : pc' = [pc EXCEPT ![c] = l]
    BY DEF BroadcastUnlock, Goto, Idle
  <2>3. pc'[Main] = pc[Main] /\ pc'[c] = l /\ \A d \in Client : d # c => pc'[d] = pc[d]
    BY <2>2, ThreadFacts DEF IInv, Typed, TypeControl
  <2>4. pc'[Main] # "replay"
    BY <2>1, <2>3, ThreadFacts DEF IInv, MutexInv
  <2>5. ASSUME NEW d \in Client PROVE pc'[d] \notin {"cast", "notify"}
    BY <2>1, <2>3 DEF IInv, MutexInv, Idle
  <2>6. ASSUME NEW d \in Client
        PROVE  /\ pc'[d] = "flush" => sMutex[d] = d
               /\ pc[d] # "notify"
    BY <2>1, <2>3 DEF IInv, MutexInv, Idle
  <2>7. ASSUME NEW e \in Client, NEW d \in Client, sMutex[d] = e
        PROVE  IF e = d THEN pc'[e] = "flush"
               ELSE pc'[e] = "notify" /\ Head(todo[e]) = d
    BY <2>1, <2>3, <2>6, <2>7 DEF IInv, MutexInv
  <2> QED
    BY <2>1, <2>4, <2>5, <2>6, <2>7 DEF MutexInv
<1>3. NewInv'
  <2>1. \E l \in {"select", "cut", "shutdown"} : pc' = [pc EXCEPT ![c] = l]
    BY DEF BroadcastUnlock, Goto
  <2>2. \A d \in Client : pipe'[d] \in Nat /\ pipe'[d] >= pipe[d]
    BY SMT, ThreadFacts DEF IInv, Typed, TypeBuffers, BroadcastUnlock, buffers
  <2> QED
    BY <2>1, <2>2, NewStep DEF BroadcastUnlock
<1>4. PipeInv'
  BY SMTT(30), ThreadFacts
  DEF IInv, Typed, TypeShared, TypeBuffers, TypeControl, PipeInv, MutexInv,
      BroadcastUnlock, buffers, network, Goto, New
<1> QED BY <1>1, <1>2, <1>3, <1>4 DEF MainSteps

\* Read keeps the invariants of the list, mutexes, newcomer and pipes.
LEMMA ReadStep ==
    ASSUME NEW c \in Client, IInv, Read(c)
    PROVE  MainSteps'
BY LocalStep DEF Read, Goto, Idle, shared, buffers, network

\* Cut keeps the invariants of the list, mutexes, newcomer and pipes.
LEMMA CutStep ==
    ASSUME NEW c \in Client, IInv, Cut(c)
    PROVE  MainSteps'
BY LocalStep DEF Cut, Goto, Idle, shared, reading, network

\* CutDone keeps the invariants of the list, mutexes, newcomer and pipes.
LEMMA CutDoneStep ==
    ASSUME NEW c \in Client, IInv, CutDone(c)
    PROVE  MainSteps'
BY LocalStep DEF CutDone, Goto, Idle, shared, buffers, reading, network

\* ReadEnd keeps the invariants of the list, mutexes, newcomer and pipes.
LEMMA ReadEndStep ==
    ASSUME NEW c \in Client, IInv, ReadEnd(c)
    PROVE  MainSteps'
BY LocalStep DEF ReadEnd, Goto, Idle, shared, buffers, reading, network

\* SelectPipe keeps the invariants of the list, mutexes, newcomer and pipes.
LEMMA SelectPipeStep ==
    ASSUME NEW c \in Client, IInv, SelectPipe(c)
    PROVE  MainSteps'
BY LocalStep DEF SelectPipe, Goto, Idle, shared, buffers, reading, network

\* SendLock keeps the invariants of the list, mutexes, newcomer and pipes.
LEMMA SendLockStep ==
    ASSUME NEW c \in Client, IInv, SendLock(c)
    PROVE  MainSteps'
<1>1. ListInv'
  BY SMT, ThreadFacts
  DEF IInv, Typed, TypeShared, TypeControl, ListInv, SendLock, shared,
      reading, network, Goto, New
<1>2. MutexInv'
  BY SMTT(30), ThreadFacts
  DEF IInv, Typed, TypeShared, TypeControl, MutexInv, NewInv, SendLock,
      shared, reading, network, Goto, New
<1>3. NewInv'
  <2>1. \A d \in Client : d # c => pipe'[d] \in Nat /\ pipe'[d] >= pipe[d]
    BY SMT, ThreadFacts DEF IInv, Typed, TypeBuffers, SendLock
  <2>2. pc' = [pc EXCEPT ![c] = "flush"] /\ pc[c] # "none"
    BY DEF SendLock, Goto
  <2> QED
    BY <2>1, <2>2, NewStep DEF SendLock, Goto, shared
<1>4. PipeInv'
  BY SMTT(30), ThreadFacts
  DEF IInv, Typed, TypeShared, TypeBuffers, TypeControl, PipeInv, MutexInv,
      SendLock, shared, reading, network, Goto, New
<1> QED BY <1>1, <1>2, <1>3, <1>4 DEF MainSteps

\* SendAll keeps the invariants of the list, mutexes, newcomer and pipes.
LEMMA SendAllStep ==
    ASSUME NEW c \in Client, IInv, SendAll(c)
    PROVE  MainSteps'
<1>1. ListInv'
  BY DEF IInv, ListInv, SendAll, shared
<1>2. MutexInv'
  BY SMTT(30), ThreadFacts
  DEF IInv, Typed, TypeShared, TypeControl, MutexInv, NewInv, SendAll, shared,
      reading, Goto, New
<1>3. NewInv'
  <2>1. pipe' = pipe /\ pipe \in [Client -> Nat]
    BY ThreadFacts, SMT DEF IInv, Typed, TypeBuffers, SendAll
  <2>2. \A d \in Client : d # c => pipe'[d] \in Nat /\ pipe'[d] >= pipe[d]
    BY <2>1
  <2>3. pc' = [pc EXCEPT ![c] = "select"] /\ pc[c] # "none"
    BY DEF SendAll, Goto
  <2> QED
    BY <2>2, <2>3, NewStep DEF SendAll, Goto, shared
<1>4. PipeInv'
  BY SMTT(30), ThreadFacts
  DEF IInv, Typed, TypeShared, TypeBuffers, TypeControl, PipeInv, MutexInv,
      SendAll, shared, reading, Goto, New
<1> QED BY <1>1, <1>2, <1>3, <1>4 DEF MainSteps

\* SendKilled keeps the invariants of the list, mutexes, newcomer and pipes.
LEMMA SendKilledStep ==
    ASSUME NEW c \in Client, IInv, SendKilled(c)
    PROVE  MainSteps'
BY FrameStep DEF SendKilled, shared, buffers, reading

\* Shutdown keeps the invariants of the list, mutexes, newcomer and pipes.
LEMMA ShutdownStep ==
    ASSUME NEW c \in Client, IInv, Shutdown(c)
    PROVE  MainSteps'
<1>1. ListInv'
  <2>1. PICK i \in DOMAIN clients : clients' = RemoveAt(clients, i)
    BY DEF Shutdown
  <2>2. ASSUME NEW j \in DOMAIN clients'
        PROVE  clients'[j] < clientCount
    <3>1. clients \in Seq(Client)
      BY DEF IInv, Typed, TypeShared
    <3>2. PICK k \in DOMAIN clients : clients'[j] = clients[k]
      BY <2>1, <2>2, <3>1, SpliceElements
    <3> QED
      BY <3>2 DEF IInv, ListInv
  <2> QED
    BY <2>2 DEF IInv, ListInv, Shutdown
<1>2. MutexInv'
  BY LocalMutex DEF Shutdown, Goto, Idle
<1>3. NewInv'
  <2>1. \A d \in Client : d # c => pipe'[d] \in Nat /\ pipe'[d] >= pipe[d]
    BY SMT, ThreadFacts DEF IInv, Typed, TypeBuffers, Shutdown
  <2>2. pc' = [pc EXCEPT ![c] = "done"] /\ pc[c] # "none"
    BY DEF Shutdown, Goto
  <2> QED
    BY <2>1, <2>2, NewStep DEF Shutdown, Goto
<1>4. PipeInv'
  <2>1. /\ sMutex' = sMutex
        /\ \A d \in Client : pc'[d] = IF d = c THEN "done" ELSE pc[d]
        /\ \A d \in Client : d # c =>
             pipe'[d] = pipe[d] /\ sbuffer'[d] = sbuffer[d]
        /\ pipe'[c] = 0 /\ sbuffer'[c] = <<>>
    BY SMTT(30), ThreadFacts DEF IInv, Typed, TypeBuffers, TypeControl, Shutdown, Goto
  <2>2. sMutex[c] \in {c, Nobody}
    <3>1. SUFFICES ASSUME NEW t \in Client, t # c, sMutex[c] = t PROVE FALSE
      BY DEF IInv, Typed, TypeShared
    <3>2. ctxMutex = t
      BY <3>1 DEF IInv, MutexInv
    <3> QED
      BY <3>2, ThreadFacts DEF Shutdown
  <2>3. Len(<<>>) = 0
    BY EmptySeq
  <2> QED
    BY SMT, <2>1, <2>2, <2>3 DEF IInv, PipeInv
<1> QED BY <1>1, <1>2, <1>3, <1>4 DEF MainSteps

\* PeerSend keeps the invariants of the list, mutexes, newcomer and pipes.
LEMMA PeerSendStep ==
    ASSUME NEW c \in Client, IInv, PeerSend(c)
    PROVE  MainSteps'
BY FrameStep DEF PeerSend, shared, buffers, reading

\* PeerClose keeps the invariants of the list, mutexes, newcomer and pipes.
LEMMA PeerCloseStep ==
    ASSUME NEW c \in Client, IInv, PeerClose(c)
    PROVE  MainSteps'
BY FrameStep DEF PeerClose, shared, buffers, reading

--------------------------------------------------------------------------------
\* The inductive invariant holds initially.
LEMMA InitInv == Init => IInv
<1> SUFFICES ASSUME Init PROVE IInv
  OBVIOUS
<1>1. Typed
  <2>1. TypeShared
    BY SMT, ServerConstants, EmptySeq
    DEF Init, TypeShared, ServerConstants, Client, Thread, Nobody
  <2>2. TypeBuffers
    BY SMT, ThreadFacts DEF Init, TypeBuffers
  <2>3. TypeControl
    BY SMT DEF Init, TypeControl
  <2>4. TypeReading
    BY SMT DEF Init, TypeReading
  <2>5. TypeNetwork
    BY SMT DEF Init, TypeNetwork
  <2> QED
    BY <2>1, <2>2, <2>3, <2>4, <2>5 DEF Typed
<1>2. ListInv
  BY SMT DEF Init, ListInv
<1>3. MutexInv
  BY SMT, ThreadFacts DEF Init, MutexInv
<1>4. NewInv
  BY SMT, ThreadFacts DEF Init, NewInv
<1>5. PipeInv
  BY SMT, ThreadFacts, EmptySeq DEF Init, PipeInv
<1> QED
  BY <1>1, <1>2, <1>3, <1>4, <1>5 DEF IInv

\* Every step of the server or a peer keeps the inductive invariant.
LEMMA NextInv == IInv /\ [Next]_vars => IInv'
<1> SUFFICES ASSUME IInv, [Next]_vars PROVE IInv'
  OBVIOUS
<1>1. Typed' /\ MainSteps' => IInv'
  BY DEF IInv, MainSteps
<1>2. CASE Accept
  BY <1>1, <1>2, AcceptType, AcceptStep
<1>3. CASE RegisterLock
  BY <1>1, <1>3, RegisterLockType, RegisterLockStep
<1>4. CASE RegisterReplay
  BY <1>1, <1>4, RegisterReplayType, RegisterReplayStep
<1>5. CASE RegisterLink
  BY <1>1, <1>5, RegisterLinkType, RegisterLinkStep
<1>6. CASE Spawn
  BY <1>1, <1>6, SpawnType, SpawnStep
<1>7. ASSUME NEW c \in Client, ClientTask(c) \/ PeerSend(c) \/ PeerClose(c)
      PROVE  IInv'
  <2>1. CASE BroadcastLock(c)
    BY <1>1, <2>1, BroadcastLockType, BroadcastLockStep
  <2>2. CASE BroadcastSkip(c)
    BY <1>1, <2>2, BroadcastSkipType, BroadcastSkipStep
  <2>3. CASE BroadcastAppend(c)
    BY <1>1, <2>3, BroadcastAppendType, BroadcastAppendStep
  <2>4. CASE BroadcastNotify(c)
    BY <1>1, <2>4, BroadcastNotifyType, BroadcastNotifyStep
  <2>5. CASE BroadcastUnlock(c)
    BY <1>1, <2>5, BroadcastUnlockType, BroadcastUnlockStep
  <2>6. CASE Read(c)
    BY <1>1, <2>6, ReadType, ReadStep
  <2>7. CASE Cut(c)
    BY <1>1, <2>7, CutType, CutStep
  <2>8. CASE CutDone(c)
    BY <1>1, <2>8, CutDoneType, CutDoneStep
  <2>9. CASE ReadEnd(c)
    BY <1>1, <2>9, ReadEndType, ReadEndStep
  <2>10. CASE SelectPipe(c)
    BY <1>1, <2>10, SelectPipeType, SelectPipeStep
  <2>11. CASE SendLock(c)
    BY <1>1, <2>11, SendLockType, SendLockStep
  <2>12. CASE SendAll(c)
    BY <1>1, <2>12, SendAllType, SendAllStep
  <2>13. CASE SendKilled(c)
    BY <1>1, <2>13, SendKilledType, SendKilledStep
  <2>14. CASE Shutdown(c)
    BY <1>1, <2>14, ShutdownType, ShutdownStep
  <2>15. CASE PeerSend(c)
    BY <1>1, <2>15, PeerSendType, PeerSendStep
  <2>16. CASE PeerClose(c)
    BY <1>1, <2>16, PeerCloseType, PeerCloseStep
  <2> QED
    BY <1>7, <2>1, <2>2, <2>3, <2>4, <2>5, <2>6, <2>7, <2>8, <2>9, <2>10,
        <2>11, <2>12, <2>13, <2>14, <2>15, <2>16 DEF ClientTask
<1>8. CASE UNCHANGED vars
  <2>1. Typed'
    BY <1>8 DEF vars, IInv, Typed, TypeShared, TypeBuffers, TypeControl,
       TypeReading, TypeNetwork
  <2>2. MainSteps'
    BY <1>8, FrameStep DEF vars
  <2> QED
    BY <1>1, <2>1, <2>2
<1> QED
  BY <1>2, <1>3, <1>4, <1>5, <1>6, <1>7, <1>8 DEF Next, Register

--------------------------------------------------------------------------------
\* The inductive invariant holds in every reachable state.
THEOREM Invariance == Spec => []IInv
BY InitInv, NextInv, PTL DEF Spec

\* A thread on its way through a broadcast, from taking the lock to leaving it.
Announcing == {"lock", "cast", "notify"}

\* How far c's stream has come at each stage: the packet in hand is one that has
\* been read and not been counted as relayed, and a thread not yet started will
\* begin with CONNECTED.
CountOK(c) ==
    /\ relayed[c] <= got[c] /\ got[c] <= sent[c]
    /\ pc[c] \in Announcing /\ hand[c] = "DATA" => relayed[c] < got[c]
    /\ pc[c] = "none" => hand[c] = "CONNECTED"

CountInv == \A c \in Client : CountOK(c)

\* The counts of d are of no concern to a step that leaves them alone and takes
\* d's thread no further than where a thread without a packet in hand stands.
LEMMA CountFrame ==
    ASSUME NEW d \in Client, CountOK(d),
           relayed'[d] = relayed[d], got'[d] = got[d], sent'[d] = sent[d],
           hand'[d] = hand[d],
           \/ pc'[d] = pc[d]
           \/ pc[d] \in Announcing /\ pc'[d] \in Announcing
           \/ pc'[d] \notin Announcing \cup {"none"}
    PROVE  CountOK(d)'
BY DEF CountOK, Announcing

\* Of the main thread's steps only Spawn moves a client's thread.
LEMMA MainCounts ==
    ASSUME IInv, CountInv, Accept \/ Register
    PROVE  CountInv'
<1> SUFFICES ASSUME NEW d \in Client PROVE CountOK(d)'
  BY DEF CountInv
<1>0. CountOK(d)
  BY DEF CountInv
<1>1. UNCHANGED <<relayed, got, sent, hand>>
  BY DEF Accept, Register, RegisterLock, RegisterReplay, RegisterLink, Spawn, reading,
         network
<1>2. CASE Spawn
  <2>1. pc[New] = "none"
    BY <1>2 DEF Spawn, IInv, NewInv
  <2>2. CASE d = New
    <3>1. hand'[d] = "CONNECTED"
      BY <1>0, <1>1, <2>1, <2>2 DEF CountOK
    <3>2. pc'[d] = "lock"
      BY <1>2, <2>2, ThreadFacts DEF Spawn, IInv, Typed, TypeControl
    <3> QED
      BY <1>0, <1>1, <3>1, <3>2 DEF CountOK
  <2>3. CASE d # New
    <3>1. pc'[d] = pc[d]
      BY <1>2, <2>3, ThreadFacts DEF Spawn, IInv, Typed, TypeControl
    <3> QED
      BY <1>0, <1>1, <3>1, CountFrame
  <2> QED
    BY <2>2, <2>3
<1>3. CASE Accept \/ RegisterLock \/ RegisterReplay \/ RegisterLink
  <2>1. pc'[d] = pc[d]
    BY ZenonT(60), <1>3, ThreadFacts
    DEF Accept, RegisterLock, RegisterReplay, RegisterLink, Goto, IInv, Typed, TypeControl
  <2> QED
    BY <1>0, <1>1, <2>1, CountFrame
<1> QED
  BY <1>2, <1>3 DEF Register

\* A broadcast counts its packet when it is over, and only then.
LEMMA BroadcastCounts ==
    ASSUME IInv, CountInv, NEW c \in Client,
           \/ BroadcastLock(c) \/ BroadcastSkip(c) \/ BroadcastAppend(c)
           \/ BroadcastNotify(c) \/ BroadcastUnlock(c)
    PROVE  CountInv'
<1> SUFFICES ASSUME NEW d \in Client PROVE CountOK(d)'
  BY DEF CountInv
<1>0. CountOK(d)
  BY DEF CountInv
<1>1. UNCHANGED <<got, sent, hand>>
  BY DEF BroadcastLock, BroadcastSkip, BroadcastAppend, BroadcastNotify, BroadcastUnlock,
         reading, network
<1>2. CASE BroadcastLock(c) \/ BroadcastSkip(c) \/ BroadcastAppend(c) \/ BroadcastNotify(c)
  <2>1. relayed' = relayed
    BY SMTT(30), <1>2 DEF BroadcastLock, BroadcastSkip, BroadcastAppend, BroadcastNotify, reading
  <2>2. pc'[d] = pc[d] \/ (pc[d] \in Announcing /\ pc'[d] \in Announcing)
    BY <1>2, ThreadFacts
    DEF BroadcastLock, BroadcastSkip, BroadcastAppend, BroadcastNotify, Goto, Announcing,
        IInv, Typed, TypeControl
  <2> QED
    BY SMTT(30), <1>0, <1>1, <2>1, <2>2, CountFrame
<1>3. CASE BroadcastUnlock(c)
  <2>1. CASE d # c
    <3>1. pc'[d] = pc[d] /\ relayed'[d] = relayed[d]
      BY <1>3, <2>1, ThreadFacts
      DEF BroadcastUnlock, Goto, IInv, Typed, TypeControl, TypeReading
    <3> QED
      BY <1>0, <1>1, <3>1, CountFrame
  <2>2. CASE d = c
    <3>1. pc'[d] \in {"select", "cut", "shutdown"}
      BY <1>3, <2>2, ThreadFacts DEF BroadcastUnlock, Goto, IInv, Typed, TypeControl
    <3>2. CASE relayed' = relayed
      BY <1>0, <1>1, <3>1, <3>2, CountFrame DEF Announcing
    <3>3. CASE hand[c] = "DATA" /\ relayed' = [relayed EXCEPT ![c] = @ + 1]
      <4>1. relayed[d] < got[d] /\ got[d] <= sent[d]
        BY <1>0, <1>3, <2>2, <3>3 DEF BroadcastUnlock, CountOK, Announcing
      <4>2. relayed'[d] = relayed[d] + 1 /\ relayed[d] \in Nat /\ got[d] \in Nat
        BY <2>2, <3>3 DEF IInv, Typed, TypeReading
      <4>3. relayed'[d] <= got[d]
        BY <4>1, <4>2, SMT
      <4> QED
        BY <1>1, <3>1, <4>1, <4>3 DEF CountOK, Announcing
    <3> QED
      BY <1>3, <3>2, <3>3 DEF BroadcastUnlock
  <2> QED
    BY <2>1, <2>2
<1> QED
  BY <1>2, <1>3

\* The select loop takes a packet in hand only when it has been read to its end.
LEMMA LoopCounts ==
    ASSUME IInv, CountInv, NEW c \in Client,
           \/ Read(c) \/ Cut(c) \/ CutDone(c) \/ ReadEnd(c) \/ SelectPipe(c)
           \/ SendLock(c) \/ SendAll(c) \/ SendKilled(c) \/ Shutdown(c)
    PROVE  CountInv'
<1> SUFFICES ASSUME NEW d \in Client PROVE CountOK(d)'
  BY DEF CountInv
<1>0. CountOK(d)
  BY DEF CountInv
<1>1. UNCHANGED <<relayed, sent>>
  BY DEF Read, Cut, CutDone, ReadEnd, SelectPipe, SendLock, SendAll, SendKilled, Shutdown,
         reading, network
<1>2. CASE d # c
  <2>1. pc'[d] = pc[d] /\ got'[d] = got[d] /\ hand'[d] = hand[d]
    BY ZenonT(60), <1>2, ThreadFacts
    DEF Read, Cut, CutDone, ReadEnd, SelectPipe, SendLock, SendAll, SendKilled, Shutdown,
        Goto, reading, IInv, Typed, TypeControl, TypeReading
  <2> QED
    BY <1>0, <1>1, <2>1, CountFrame
<1>3. CASE d = c
  <2>1. CASE Read(c)
    <3>1. PICK g \in got[c] .. sent[c] : got' = [got EXCEPT ![c] = g]
      BY <2>1 DEF Read
    <3>2. got[c] \in Nat /\ sent[c] \in Nat /\ relayed[c] \in Nat /\ got'[c] = g
      BY <3>1 DEF IInv, Typed, TypeReading, TypeNetwork
    <3>3. relayed[c] <= g /\ g <= sent[c]
      BY <1>0, <1>3, <3>2, SMT DEF CountOK
    <3>4. pc'[c] = "cut"
      BY <2>1, ThreadFacts DEF Read, Goto, IInv, Typed, TypeControl
    <3> QED
      BY <1>1, <1>3, <3>2, <3>3, <3>4 DEF CountOK, Announcing
  <2>2. CASE Cut(c)
    <3>1. pc'[c] = "lock" /\ got' = got /\ relayed[c] < got[c]
      BY <2>2, ThreadFacts DEF Cut, Goto, reading, IInv, Typed, TypeControl
    <3> QED
      BY <1>0, <1>1, <1>3, <3>1 DEF CountOK
  <2>3. CASE ReadEnd(c)
    <3>1. pc'[c] = "lock" /\ got' = got /\ hand'[c] = "DISCONNECTED"
      BY <2>3, ThreadFacts DEF ReadEnd, Goto, reading, IInv, Typed, TypeControl
    <3> QED
      BY <1>0, <1>1, <1>3, <3>1 DEF CountOK
  <2>4. CASE CutDone(c) \/ SelectPipe(c) \/ SendLock(c) \/ SendAll(c) \/ SendKilled(c)
             \/ Shutdown(c)
    <3>1. got' = got /\ hand' = hand
      BY <2>4
      DEF CutDone, SelectPipe, SendLock, SendAll, SendKilled, Shutdown, reading
    <3>2. pc'[c] = pc[c] \/ pc'[c] \in {"select", "send", "flush", "done"}
      BY <2>4, ThreadFacts
      DEF CutDone, SelectPipe, SendLock, SendAll, SendKilled, Shutdown, Goto, IInv, Typed,
          TypeControl
    <3> QED
      BY <1>0, <1>1, <1>3, <3>1, <3>2, CountFrame DEF Announcing
  <2> QED
    BY <2>1, <2>2, <2>3, <2>4
<1> QED
  BY <1>2, <1>3

\* A peer that sends adds to its stream; one that resets loses no packet already
\* read by the server.
LEMMA PeerCounts ==
    ASSUME IInv, CountInv, NEW c \in Client, PeerSend(c) \/ PeerClose(c)
    PROVE  CountInv'
<1> SUFFICES ASSUME NEW d \in Client PROVE CountOK(d)'
  BY DEF CountInv
<1>0. CountOK(d)
  BY DEF CountInv
<1>1. UNCHANGED <<relayed, got, hand, pc>>
  BY DEF PeerSend, PeerClose, reading
<1>2. got[d] \in Nat /\ sent[d] \in Nat
  BY DEF IInv, Typed, TypeReading, TypeNetwork
<1>3. got[d] <= sent'[d]
  <2>1. CASE PeerSend(c)
    <3>1. sent'[d] = sent[d] \/ sent'[d] = sent[d] + 1
      BY <2>1 DEF PeerSend, IInv, Typed, TypeNetwork
    <3> QED
      BY <1>0, <1>2, <3>1, SMT DEF CountOK
  <2>2. CASE PeerClose(c)
    <3>1. CASE sent' = sent
      BY <1>0, <3>1 DEF CountOK
    <3>2. ASSUME NEW m \in got[c] .. sent[c], sent' = [sent EXCEPT ![c] = m]
          PROVE  got[d] <= sent'[d]
      <4>1. CASE d = c
        <5>1. sent'[d] = m
          BY <3>2, <4>1 DEF IInv, Typed, TypeNetwork
        <5> QED
          BY <1>2, <4>1, <5>1, SMT
      <4>2. CASE d # c
        <5>1. sent'[d] = sent[d]
          BY <3>2, <4>2 DEF IInv, Typed, TypeNetwork
        <5> QED
          BY <1>0, <5>1 DEF CountOK
      <4> QED
        BY <4>1, <4>2
    <3> QED
      BY <2>2, <3>1, <3>2 DEF PeerClose
  <2> QED
    BY <2>1, <2>2
<1> QED
  BY <1>0, <1>1, <1>3 DEF CountOK

\* Every variable keeps its type, and in every interleaving a packet is relayed
\* only when it has been read to its end (server.c:288), for any number of clients
\* and packets and wherever reads split the stream.
THEOREM Typing == Spec => []TypeOK
<1>1. Init => CountInv
  BY DEF Init, CountInv, CountOK, Announcing, Thread, Client, Main
<1>2. IInv /\ CountInv /\ [Next]_vars => CountInv'
  <2> SUFFICES ASSUME IInv, CountInv, [Next]_vars PROVE CountInv'
    OBVIOUS
  <2>1. ASSUME NEW c \in Client, ClientTask(c) \/ PeerSend(c) \/ PeerClose(c)
        PROVE  CountInv'
    BY <2>1, BroadcastCounts, LoopCounts, PeerCounts DEF ClientTask
  <2>2. CASE UNCHANGED vars
    BY <2>2 DEF vars, CountInv, CountOK
  <2> QED
    BY <2>1, <2>2, MainCounts DEF Next
<1>3. IInv /\ CountInv => TypeOK
  BY DEF IInv, CountInv, CountOK, TypeOK
<1> QED
  BY <1>1, <1>2, <1>3, Invariance, PTL DEF Spec

\* No client thread is left asleep in select with packets in its send buffer,
\* however broadcasts, registrations, sends and departures interleave.
THEOREM NoLostWakeupHolds == Spec => []NoLostWakeup
<1>1. IInv => NoLostWakeup
  <2> SUFFICES ASSUME IInv, NEW d \in Client, sbuffer[d] # <<>>, ~ pipe[d] > 0
               PROVE  \/ pc[d] = "flush"
                      \/ \E t \in Client : pc[t] = "notify" /\ Head(todo[t]) = d
    BY DEF NoLostWakeup
  <2>1. PICK t \in Client : sMutex[d] = t
    BY DEF IInv, PipeInv, Typed, TypeShared
  <2> QED
    BY <2>1 DEF IInv, MutexInv
<1> QED
  BY <1>1, Invariance, PTL

\* A notification pipe never holds more bytes than packets are waiting.
THEOREM PipeBoundedHolds == Spec => []PipeBounded
<1>1. IInv => PipeBounded
  BY DEF IInv, PipeInv, PipeBounded
<1> QED
  BY <1>1, Invariance, PTL

--------------------------------------------------------------------------------
(* The threads do not wait for one another's locks in a circle. *)

Walking == {"replay", "cast", "notify"}

\* The context mutex is only held by a thread that walks the list.
CtxInv == ctxMutex # Nobody => pc[ctxMutex] \in Walking

\* A step by which no walk ends leaves the holder of the context mutex walking.
LEMMA CtxFrame ==
    ASSUME IInv, CtxInv, NEW t \in Thread, NEW l,
           pc' = [pc EXCEPT ![t] = l],
           pc[t] \notin Walking \/ l \in Walking,
           ctxMutex' = ctxMutex
    PROVE  CtxInv'
<1>1. pc \in [Thread -> {"accept", "register", "replay", "spawn", "none", "lock",
                        "cast", "notify", "select", "cut", "send", "flush",
                        "shutdown", "done"}]
  BY DEF IInv, Typed, TypeControl
<1>2. ctxMutex \in Thread \cup {Nobody}
  BY DEF IInv, Typed, TypeShared
<1> QED
  BY <1>1, <1>2 DEF CtxInv

\* The next label of a thread that takes a step, and the context mutex after it.
LEMMA CtxStep ==
    ASSUME IInv, CtxInv, NEW c \in Client, ClientTask(c)
    PROVE  CtxInv'
<1>0. c \in Thread /\ c # Nobody
  BY ThreadFacts
<1>1. CASE BroadcastLock(c)
  <2>1. pc'[c] = "cast"
    BY <1>0, <1>1 DEF BroadcastLock, Goto, IInv, Typed, TypeControl
  <2> QED
    BY <1>1, <2>1 DEF BroadcastLock, CtxInv, Walking
<1>2. CASE BroadcastSkip(c)
  BY <1>2 DEF BroadcastSkip, shared, CtxInv
<1>3. CASE BroadcastAppend(c) \/ BroadcastNotify(c)
  BY <1>0, <1>3, CtxFrame DEF BroadcastAppend, BroadcastNotify, Goto, shared, Walking
<1>4. CASE BroadcastUnlock(c)
  BY <1>4 DEF BroadcastUnlock, CtxInv
<1>5. CASE Read(c) \/ Cut(c) \/ CutDone(c) \/ ReadEnd(c)
  BY <1>0, <1>5, CtxFrame DEF Read, Cut, CutDone, ReadEnd, Goto, shared, Walking
<1>6. CASE SelectPipe(c) \/ SendLock(c) \/ SendAll(c)
  BY <1>0, <1>6, CtxFrame DEF SelectPipe, SendLock, SendAll, Goto, shared, Walking
<1>7. CASE SendKilled(c)
  BY <1>7 DEF SendKilled, shared, CtxInv
<1>8. CASE Shutdown(c)
  BY <1>0, <1>8, CtxFrame DEF Shutdown, Goto, Walking
<1> QED
  BY <1>1, <1>2, <1>3, <1>4, <1>5, <1>6, <1>7, <1>8 DEF ClientTask

\* Every step keeps the context mutex with a thread that walks the list.
LEMMA CtxNext == IInv /\ CtxInv /\ [Next]_vars => CtxInv'
<1> SUFFICES ASSUME IInv, CtxInv, [Next]_vars PROVE CtxInv'
  OBVIOUS
<1>0. Main \in Thread /\ Main # Nobody
  BY ThreadFacts
<1>1. CASE Accept
  BY <1>0, <1>1, CtxFrame DEF Accept, Goto, Walking
<1>2. CASE RegisterLock
  <2>1. pc'[Main] = "replay"
    BY <1>0, <1>2 DEF RegisterLock, Goto, IInv, Typed, TypeControl
  <2> QED
    BY <1>2, <2>1 DEF RegisterLock, CtxInv, Walking
<1>3. CASE RegisterReplay
  BY <1>3 DEF RegisterReplay, CtxInv, shared
<1>4. CASE RegisterLink
  BY <1>4 DEF RegisterLink, CtxInv
<1>5. CASE Spawn
  <2>1. pc[Main] = "spawn" /\ pc[New] = "none" /\ ctxMutex' = ctxMutex
    BY <1>5 DEF Spawn, shared, IInv, NewInv
  <2>2. \A t \in Thread \ {Main, New} : pc'[t] = pc[t]
    BY <1>5 DEF Spawn, IInv, Typed, TypeControl
  <2>3. ctxMutex \in Thread \cup {Nobody}
    BY DEF IInv, Typed, TypeShared
  <2> QED
    BY <2>1, <2>2, <2>3 DEF CtxInv, Walking
<1>6. ASSUME NEW c \in Client, ClientTask(c)
      PROVE  CtxInv'
  BY <1>6, CtxStep
<1>7. ASSUME NEW c \in Client, PeerSend(c) \/ PeerClose(c)
      PROVE  CtxInv'
  BY <1>7 DEF PeerSend, PeerClose, shared, CtxInv
<1>8. CASE UNCHANGED vars
  BY <1>8 DEF vars, CtxInv
<1> QED
  BY <1>1, <1>2, <1>3, <1>4, <1>5, <1>6, <1>7, <1>8 DEF Next, Register

\* Whoever holds a send buffer is busy and at no lock.
LEMMA HolderGoesOn ==
    ASSUME IInv, NEW d \in Client, sMutex[d] # Nobody
    PROVE  \E t \in Thread : Busy(t) /\ ~ AtMutex(t)
<1>1. PICK t \in Client : sMutex[d] = t
  BY DEF IInv, Typed, TypeShared
<1>2. t \in Thread /\ pc[t] \in {"flush", "notify"}
  BY <1>1, ThreadFacts DEF IInv, MutexInv
<1>3. Busy(t) /\ ~ AtMutex(t)
  BY <1>2 DEF Busy, AtMutex
<1> QED
  BY <1>2, <1>3

\* The threads of the server never wait for one another's locks in a circle: the
\* holder of a send buffer waits for none, and the holder of the context mutex
\* for nothing but a send buffer (server.c:144-220, 306-339).
THEOREM NoCircularWaitHolds == Spec => []NoCircularWait
<1>1. IInv /\ CtxInv => NoCircularWait
  <2> SUFFICES ASSUME IInv, CtxInv, NEW t \in Thread, Busy(t)
               PROVE  \E u \in Thread : Busy(u) /\ ~ AtMutex(u)
    BY DEF NoCircularWait
  <2>1. \A u \in Thread : pc[u] = "send" => u \in Client
    <3>1. Thread \ {Main} \subseteq Client
      BY ServerConstants, SMT DEF ServerConstants, Thread, Client, Main
    <3>2. pc[Main] # "send"
      BY DEF IInv, NewInv
    <3> QED
      BY <3>1, <3>2
  <2>2. ASSUME NEW u \in Thread, pc[u] = "cast", AtMutex(u)
        PROVE  \E d \in Client : sMutex[d] # Nobody
    <3>1. todo[u] # <<>> /\ sMutex[Head(todo[u])] # Nobody
      BY <2>2 DEF AtMutex
    <3>2. Head(todo[u]) \in Client
      BY <3>1, TodoType DEF IInv, Typed
    <3> QED
      BY <3>1, <3>2
  <2>3. CASE ctxMutex # Nobody
    <3>1. ctxMutex \in Thread /\ pc[ctxMutex] \in Walking
      BY <2>3 DEF CtxInv, IInv, Typed, TypeShared
    <3>2. CASE AtMutex(ctxMutex)
      <4>1. pc[ctxMutex] = "cast"
        BY <3>1, <3>2 DEF AtMutex, Walking
      <4> QED
        BY <2>2, <3>1, <3>2, <4>1, HolderGoesOn
    <3>3. CASE ~ AtMutex(ctxMutex)
      BY <3>1, <3>3 DEF Busy, Walking
    <3> QED
      BY <3>2, <3>3
  <2>4. CASE ctxMutex = Nobody /\ AtMutex(t)
    <3>1. \E d \in Client : sMutex[d] # Nobody
      BY <2>1, <2>2, <2>4 DEF AtMutex
    <3> QED
      BY <3>1, HolderGoesOn
  <2> QED
    BY <2>3, <2>4
<1>2. Init => CtxInv
  BY DEF Init, CtxInv
<1> QED
  BY <1>1, <1>2, CtxNext, Invariance, PTL DEF Spec

--------------------------------------------------------------------------------
(* What has been broadcast has been told to all. *)

\* The elements of a longer sequence.
LEMMA SetOfAppend ==
    ASSUME NEW S, NEW q \in Seq(S), NEW e \in S
    PROVE  ToSet(Append(q, e)) = ToSet(q) \cup {e}
<1>1. /\ DOMAIN q = 1 .. Len(q) /\ Len(q) \in Nat
      /\ DOMAIN Append(q, e) = 1 .. Len(q) + 1
      /\ Append(q, e)[Len(q) + 1] = e
      /\ \A i \in 1 .. Len(q) : Append(q, e)[i] = q[i]
  BY SMT
<1>2. /\ \A i \in 1 .. Len(q) + 1 : i \in 1 .. Len(q) \/ i = Len(q) + 1
      /\ \A i \in 1 .. Len(q) : i \in 1 .. Len(q) + 1
      /\ Len(q) + 1 \in 1 .. Len(q) + 1
  BY <1>1, SMT
<1> QED
  BY <1>1, <1>2 DEF ToSet

\* The elements of a sequence are its head and those of its tail.
LEMMA SetOfTail ==
    ASSUME NEW S, NEW q \in Seq(S), q # <<>>
    PROVE  ToSet(q) = {Head(q)} \cup ToSet(Tail(q))
<1>1. /\ DOMAIN q = 1 .. Len(q) /\ Len(q) \in Nat /\ Len(q) >= 1
      /\ DOMAIN Tail(q) = 1 .. Len(q) - 1
      /\ \A i \in 1 .. Len(q) - 1 : Tail(q)[i] = q[i + 1]
      /\ Head(q) = q[1]
  BY SMT
<1>2. /\ \A i \in 1 .. Len(q) : i = 1 \/ (i - 1 \in 1 .. Len(q) - 1 /\ (i - 1) + 1 = i)
      /\ \A i \in 1 .. Len(q) - 1 : i + 1 \in 1 .. Len(q)
      /\ 1 \in 1 .. Len(q)
  BY <1>1, SMT
<1>3. ASSUME NEW i \in 1 .. Len(q)
      PROVE  q[i] \in {Head(q)} \cup ToSet(Tail(q))
  <2>1. CASE i = 1
    BY <1>1, <2>1
  <2>2. CASE i # 1
    <3>1. PICK j \in 1 .. Len(q) - 1 : j + 1 = i
      BY <1>2, <2>2
    <3>2. Tail(q)[j] = q[i] /\ j \in DOMAIN Tail(q)
      BY <1>1, <3>1
    <3> QED
      BY <3>2 DEF ToSet
  <2> QED
    BY <2>1, <2>2
<1>4. ASSUME NEW j \in 1 .. Len(q) - 1
      PROVE  Tail(q)[j] \in ToSet(q)
  <2>1. Tail(q)[j] = q[j + 1] /\ j + 1 \in DOMAIN q
    BY <1>1, <1>2
  <2> QED
    BY <2>1 DEF ToSet
<1>5. Head(q) \in ToSet(q)
  BY <1>1, <1>2 DEF ToSet
<1> QED
  BY ZenonT(60), <1>1, <1>3, <1>4, <1>5 DEF ToSet

\* The set of a sequence of one.
LEMMA SetOfOne ==
    ASSUME NEW S, NEW x \in S
    PROVE  <<x>> \in Seq(S) /\ ToSet(<<x>>) = {x}
<1>1. DOMAIN <<x>> = {1} /\ <<x>>[1] = x /\ <<x>> \in Seq(S)
  BY SMT
<1> QED
  BY <1>1 DEF ToSet

\* The elements of two sequences, one after the other.
LEMMA SetOfConcat ==
    ASSUME NEW S, NEW q \in Seq(S), NEW r \in Seq(S)
    PROVE  ToSet(q \o r) = ToSet(q) \cup ToSet(r)
<1>1. /\ DOMAIN q = 1 .. Len(q) /\ DOMAIN r = 1 .. Len(r)
      /\ Len(q) \in Nat /\ Len(r) \in Nat
      /\ DOMAIN (q \o r) = 1 .. Len(q) + Len(r)
      /\ \A i \in 1 .. Len(q) + Len(r) :
           (q \o r)[i] = IF i <= Len(q) THEN q[i] ELSE r[i - Len(q)]
  BY SMT
<1>2. ASSUME NEW i \in DOMAIN (q \o r)
      PROVE  (q \o r)[i] \in ToSet(q) \cup ToSet(r)
  <2>1. CASE i <= Len(q)
    <3>1. i \in DOMAIN q /\ (q \o r)[i] = q[i]
      BY <1>1, <2>1, SMT
    <3> QED
      BY <3>1 DEF ToSet
  <2>2. CASE ~ (i <= Len(q))
    <3>1. i - Len(q) \in DOMAIN r /\ (q \o r)[i] = r[i - Len(q)]
      BY <1>1, <2>2, SMT
    <3> QED
      BY <3>1 DEF ToSet
  <2> QED
    BY <2>1, <2>2
<1>3. ASSUME NEW i \in DOMAIN q
      PROVE  q[i] \in ToSet(q \o r)
  <2>1. i \in DOMAIN (q \o r) /\ (q \o r)[i] = q[i]
    BY <1>1, SMT
  <2> QED
    BY <2>1 DEF ToSet
<1>4. ASSUME NEW i \in DOMAIN r
      PROVE  r[i] \in ToSet(q \o r)
  <2>1. Len(q) + i \in DOMAIN (q \o r) /\ (q \o r)[Len(q) + i] = r[i]
    BY <1>1, SMT
  <2> QED
    BY <2>1 DEF ToSet
<1> QED
  BY <1>2, <1>3, <1>4 DEF ToSet

\* There is nothing in the empty sequence.
LEMMA SetOfEmpty == ToSet(<<>>) = {}
BY SMT DEF ToSet

Data(s, m) == Pkt("DATA", s, m)

\* What c has been told.
InTold(c) == ToSet(out[c]) \cup ToSet(sbuffer[c])

\* Nobody is in the list twice, nor when its thread has ended, nor before it is
\* started, but for the one that is about to be.
ListedInv ==
    /\ \A i, j \in DOMAIN clients : clients[i] = clients[j] => i = j
    /\ \A c \in Listed : /\ pc[c] # "done"
                         /\ pc[c] = "none" => pc[Main] = "spawn" /\ c = New

\* A history has what has been relayed, and the packet that is being relayed.
HistInv ==
    \A s \in Client :
      /\ pc[s] = "none" => relayed[s] = 0 /\ hand[s] = "CONNECTED"
      /\ pc[s] # "done" => \A m \in 1 .. relayed[s] : Data(s, m) \in ToSet(hbuffer[s])
      /\ pc[s] \in Announcing /\ hand[s] = "DATA" =>
           Data(s, relayed[s] + 1) \in ToSet(hbuffer[s])

\* Whom the broadcast of s has still to visit.
Left(s) == IF pc[s] = "cast" THEN ToSet(todo[s]) ELSE ToSet(Tail(todo[s]))

\* c has been told of all that s has relayed.
Knows(c, s) == \A m \in 1 .. relayed[s] : Data(s, m) \in InTold(c)

\* Clients in the list know what has been relayed; the newcomer what those have
\* relayed whose history it has got; and a packet that is being broadcast is
\* known to those whom the broadcast has visited.
HeardInv ==
    /\ \A c, s \in Listed : c # s /\ ~ reset[c] => Knows(c, s)
    /\ pc[Main] = "replay" => \A s \in Listed \ ToSet(todo[Main]) : Knows(New, s)
    /\ \A s \in Client : pc[s] \in {"cast", "notify"} /\ hand[s] = "DATA" =>
         \A c \in Listed \ {s} :
           ~ reset[c] => c \in Left(s) \/ Data(s, relayed[s] + 1) \in InTold(c)

RelayInv == ListedInv /\ HistInv /\ HeardInv

\* Ids in the list and in loops over it.
LEMMA ListedType ==
    ASSUME IInv
    PROVE  /\ Listed \subseteq Client
           /\ \A t \in Thread : ToSet(todo[t]) \subseteq Client
<1>1. ASSUME NEW q \in Seq(Client)
      PROVE  ToSet(q) \subseteq Client
  BY ListElements DEF ToSet
<1> QED
  BY <1>1 DEF IInv, Typed, TypeShared, TypeControl, Listed

LEMMA InitRelay == Init => RelayInv
<1> SUFFICES ASSUME Init PROVE RelayInv
  OBVIOUS
<1>1. DOMAIN clients = {} /\ Listed = {}
  BY SMT DEF Init, Listed, ToSet
<1>2. \A s \in Client : pc[s] = "none" /\ relayed[s] = 0 /\ hand[s] = "CONNECTED"
  BY ThreadFacts DEF Init
<1>3. 1 .. 0 = {}
  BY SMT
<1>4. ListedInv
  BY <1>1 DEF ListedInv
<1>5. HistInv
  BY <1>2, <1>3 DEF HistInv, Announcing
<1>6. pc[Main] = "accept"
  BY ThreadFacts DEF Init
<1>7. HeardInv
  BY <1>1, <1>2, <1>6 DEF HeardInv
<1> QED
  BY <1>4, <1>5, <1>7 DEF RelayInv

\* A step that relays nothing, tells nothing and links nobody.
LEMMA RelayFrame ==
    ASSUME IInv, RelayInv, NEW c \in Client,
           UNCHANGED <<clients, clientCount, relayed, hbuffer, todo, hand>>,
           \/ pc' = pc
           \/ /\ pc[c] \notin {"none", "done"}
              /\ \E l \in {"select", "cut", "send", "flush", "shutdown"} :
                   pc' = [pc EXCEPT ![c] = l],
           \A d \in Client : reset[d] => reset'[d],
           \A d \in Client : ~ reset'[d] \/ pc[d] = "none" => InTold(d)' = InTold(d)
    PROVE  RelayInv'
<1>1. /\ pc'[Main] = pc[Main]
      /\ \A d \in Client : \/ pc'[d] = pc[d]
                           \/ /\ pc[d] \notin {"none", "done"}
                              /\ pc'[d] \in {"select", "cut", "send", "flush", "shutdown"}
  BY ThreadFacts DEF IInv, Typed, TypeControl
<1>2. Listed' = Listed /\ New' = New /\ Listed \subseteq Client
  BY ListedType DEF Listed, New
<1>3. ListedInv'
  BY <1>1, <1>2 DEF RelayInv, ListedInv
<1>4. HistInv'
  BY <1>1 DEF RelayInv, HistInv, Announcing
<1>5. ASSUME NEW a \in Listed, NEW s \in Listed, a # s, ~ reset'[a]
      PROVE  Knows(a, s)'
  <2>1. Knows(a, s) /\ InTold(a)' = InTold(a)
    BY <1>2, <1>5 DEF RelayInv, HeardInv
  <2> QED
    BY <2>1 DEF Knows
<1>6. ASSUME pc[Main] = "replay", NEW s \in Listed \ ToSet(todo[Main])
      PROVE  Knows(New, s)'
  <2>1. New \in Client /\ pc[New] = "none"
    BY <1>6, NewType DEF IInv, Typed, NewInv
  <2>2. PICK n \in Client : n = New
    BY <2>1
  <2>3. InTold(n)' = InTold(n) /\ Knows(n, s)
    BY <1>6, <2>1, <2>2 DEF RelayInv, HeardInv
  <2>4. Knows(n, s)'
    BY <2>3 DEF Knows
  <2> QED
    BY <1>2, <2>2, <2>4 DEF Knows, InTold
<1>7. ASSUME NEW s \in Client, pc'[s] \in {"cast", "notify"}, hand'[s] = "DATA",
             NEW d \in Listed \ {s}, ~ reset'[d]
      PROVE  d \in Left(s)' \/ (Data(s, relayed[s] + 1) \in InTold(d))'
  <2>1. pc'[s] = pc[s] /\ ~ reset[d] /\ d \in Client
    BY <1>1, <1>2, <1>7
  <2>2. Left(s)' = Left(s) /\ InTold(d)' = InTold(d)
    BY <1>7, <2>1 DEF Left
  <2>3. d \in Left(s) \/ Data(s, relayed[s] + 1) \in InTold(d)
    BY <1>7, <2>1 DEF RelayInv, HeardInv
  <2> QED
    BY <2>2, <2>3 DEF Data, Pkt
<1>8. HeardInv'
  BY <1>1, <1>2, <1>5, <1>6, <1>7 DEF HeardInv
<1> QED
  BY <1>3, <1>4, <1>8 DEF RelayInv

LEMMA AcceptRelay ==
    ASSUME IInv, RelayInv, Accept
    PROVE  RelayInv'
<1>1. PICK n \in Client : n = clientCount
  BY ThreadFacts, SMT DEF Accept, IInv, Typed, TypeShared
<1>2. pc[n] = "none" /\ n \notin Listed
  <2>1. pc[n] = "none"
    <3>1. n >= clientCount
      BY <1>1, ThreadFacts, SMT
    <3> QED
      BY <3>1 DEF IInv, NewInv
  <2> QED
    BY <2>1 DEF Accept, RelayInv, ListedInv
<1>3. /\ pc[Main] = "accept" /\ pc'[Main] = "register"
      /\ \A d \in Client : pc'[d] = pc[d]
      /\ \A d \in Client \ {n} : sbuffer'[d] = sbuffer[d]
      /\ UNCHANGED <<clients, relayed, hbuffer, todo, hand, out, reset>>
  BY <1>1, ThreadFacts
  DEF Accept, Goto, IInv, Typed, TypeControl, TypeBuffers, reading, network
<1>4. Listed' = Listed /\ Listed \subseteq Client
  BY <1>3, ListedType DEF Listed
<1>5. ListedInv'
  BY <1>3, <1>4 DEF RelayInv, ListedInv
<1>6. HistInv'
  BY <1>3 DEF RelayInv, HistInv, Announcing
<1>7. \A d \in Listed : d \in Client /\ InTold(d)' = InTold(d)
  BY <1>2, <1>3, <1>4 DEF InTold
<1>8. ASSUME NEW a \in Listed, NEW s \in Listed, a # s, ~ reset'[a]
      PROVE  Knows(a, s)'
  BY <1>3, <1>7, <1>8 DEF RelayInv, HeardInv, Knows
<1>9. ASSUME NEW s \in Client, pc'[s] \in {"cast", "notify"}, hand'[s] = "DATA",
             NEW d \in Listed \ {s}, ~ reset'[d]
      PROVE  d \in Left(s)' \/ (Data(s, relayed[s] + 1) \in InTold(d))'
  BY <1>3, <1>7, <1>9 DEF RelayInv, HeardInv, Left, Data, Pkt
<1>10. HeardInv'
  BY <1>3, <1>4, <1>8, <1>9 DEF HeardInv
<1> QED
  BY <1>5, <1>6, <1>10 DEF RelayInv

LEMMA RegisterLockRelay ==
    ASSUME IInv, RelayInv, RegisterLock
    PROVE  RelayInv'
<1>1. /\ pc[Main] = "register" /\ todo'[Main] = clients
      /\ \A d \in Client : pc'[d] = pc[d] /\ todo'[d] = todo[d]
      /\ UNCHANGED <<clients, clientCount, relayed, hbuffer, sbuffer, hand, out, reset>>
  BY ThreadFacts
  DEF RegisterLock, Goto, IInv, Typed, TypeControl, buffers, reading, network
<1>2. Listed' = Listed /\ Listed \subseteq Client /\ ToSet(todo[Main])' = Listed
  BY <1>1, ListedType DEF Listed
<1>3. ListedInv'
  BY <1>1, <1>2 DEF RelayInv, ListedInv
<1>4. HistInv'
  BY <1>1 DEF RelayInv, HistInv, Announcing
<1>5. \A d \in Client : InTold(d)' = InTold(d)
  BY <1>1 DEF InTold
<1>6. ASSUME NEW a \in Listed, NEW s \in Listed, a # s, ~ reset'[a]
      PROVE  Knows(a, s)'
  BY <1>1, <1>2, <1>5, <1>6 DEF RelayInv, HeardInv, Knows
<1>7. ASSUME NEW s \in Client, pc'[s] \in {"cast", "notify"}, hand'[s] = "DATA",
             NEW d \in Listed \ {s}, ~ reset'[d]
      PROVE  d \in Left(s)' \/ (Data(s, relayed[s] + 1) \in InTold(d))'
  BY <1>1, <1>2, <1>5, <1>7 DEF RelayInv, HeardInv, Left, Data, Pkt
<1>8. HeardInv'
  BY <1>2, <1>6, <1>7 DEF HeardInv
<1> QED
  BY <1>3, <1>4, <1>8 DEF RelayInv

LEMMA RegisterReplayRelay ==
    ASSUME IInv, RelayInv, RegisterReplay
    PROVE  RelayInv'
<1>1. PICK n \in Client : n = New
  BY SMTT(30), NewType DEF RegisterReplay, IInv, Typed
<1>2. PICK d \in Client : d = Head(todo[Main])
  BY TodoType, ThreadFacts DEF RegisterReplay, IInv, Typed
<1>3. /\ pc[Main] = "replay" /\ todo[Main] # <<>> /\ todo'[Main] = Tail(todo[Main])
      /\ sbuffer'[n] = (sbuffer[n] \o <<Pkt("CONNECTED", d, 0)>>) \o hbuffer[d]
      /\ \A a \in Client : todo'[a] = todo[a] /\ (a # n => sbuffer'[a] = sbuffer[a])
      /\ UNCHANGED <<pc, clients, clientCount, relayed, hbuffer, hand, out, reset>>
  BY <1>1, <1>2, ThreadFacts
  DEF RegisterReplay, IInv, Typed, TypeControl, TypeBuffers, shared, reading, network
<1>4. ToSet(sbuffer'[n]) = ToSet(sbuffer[n]) \cup {Pkt("CONNECTED", d, 0)} \cup ToSet(hbuffer[d])
  <2>1. PICK p \in Packet : p = Pkt("CONNECTED", d, 0)
    BY PktType DEF Kind
  <2>2. PICK q \in Seq(Packet) : q = sbuffer[n]
    BY DEF IInv, Typed, TypeBuffers
  <2>3. PICK h \in Seq(Packet) : h = hbuffer[d]
    BY DEF IInv, Typed, TypeBuffers
  <2>4. PICK one \in Seq(Packet) : one = <<p>>
    <3>1. <<p>> \in Seq(Packet)
      BY SMT
    <3> QED
      BY <3>1
  <2>5. ToSet(one) = {p}
    BY <2>4, SMT DEF ToSet
  <2>6. ToSet(q \o one) = ToSet(q) \cup {p}
    BY <2>5, SetOfConcat
  <2>7. PICK r \in Seq(Packet) : r = q \o one
    <3>1. q \o one \in Seq(Packet)
      BY SMT
    <3> QED
      BY <3>1
  <2>8. ToSet(r \o h) = ToSet(r) \cup ToSet(h)
    BY SetOfConcat
  <2>9. sbuffer'[n] = r \o h
    BY <1>3, <2>1, <2>2, <2>3, <2>4, <2>7
  <2> QED
    BY <2>1, <2>2, <2>3, <2>6, <2>7, <2>8, <2>9
<1>5. \A a \in Client : InTold(a) \subseteq InTold(a)'
  BY <1>3, <1>4 DEF InTold
<1>6. Listed' = Listed /\ New' = New /\ Listed \subseteq Client
  BY <1>3, ListedType DEF Listed, New
<1>7. ToSet(todo[Main]) = {d} \cup ToSet(todo[Main])'
  <2>1. todo[Main] \in Seq(Client)
    BY ThreadFacts DEF IInv, Typed, TypeControl
  <2> QED
    BY <1>2, <1>3, <2>1, SetOfTail
<1>8. ListedInv'
  BY <1>3, <1>6 DEF RelayInv, ListedInv
<1>9. HistInv'
  BY <1>3 DEF RelayInv, HistInv, Announcing
<1>10. ASSUME NEW a \in Listed, NEW s \in Listed, a # s, ~ reset'[a]
       PROVE  Knows(a, s)'
  BY <1>3, <1>5, <1>6, <1>10 DEF RelayInv, HeardInv, Knows, Data, Pkt
<1>11. ASSUME NEW s \in Listed, s \notin ToSet(todo[Main])'
       PROVE  Knows(n, s)'
  <2>1. CASE s = d
    <3>1. \A m \in 1 .. relayed[d] : Data(d, m) \in ToSet(hbuffer[d])
      BY <2>1 DEF RelayInv, ListedInv, HistInv
    <3> QED
      BY <1>3, <1>4, <2>1, <3>1 DEF Knows, InTold, Data, Pkt
  <2>2. CASE s # d
    <3>1. Knows(n, s)
      BY <1>1, <1>3, <1>7, <1>11, <2>2 DEF RelayInv, HeardInv
    <3> QED
      BY <1>3, <1>5, <3>1 DEF Knows, Data, Pkt
  <2> QED
    BY <2>1, <2>2
<1>12. ASSUME NEW s \in Client, pc'[s] \in {"cast", "notify"}, hand'[s] = "DATA",
              NEW a \in Listed \ {s}, ~ reset'[a]
       PROVE  a \in Left(s)' \/ (Data(s, relayed[s] + 1) \in InTold(a))'
  <2>1. a \in Left(s) \/ Data(s, relayed[s] + 1) \in InTold(a)
    BY <1>3, <1>12 DEF RelayInv, HeardInv
  <2> QED
    BY <1>3, <1>5, <1>6, <2>1 DEF Left, Data, Pkt
<1>13. HeardInv'
  <2>1. \A s \in Listed : s \notin ToSet(todo[Main])' => Knows(New, s)'
    BY <1>1, <1>6, <1>11 DEF Knows, InTold
  <2> QED
    BY <1>6, <1>10, <1>12, <2>1 DEF HeardInv
<1> QED
  BY <1>8, <1>9, <1>13 DEF RelayInv

\* While the main thread walks the list no broadcast does.
LEMMA OneWalk ==
    ASSUME IInv, pc[Main] = "replay", NEW c \in Client
    PROVE  pc[c] \notin {"cast", "notify"}
BY ThreadFacts DEF IInv, MutexInv

LEMMA RegisterLinkRelay ==
    ASSUME IInv, RelayInv, RegisterLink
    PROVE  RelayInv'
<1>1. PICK n \in Client : n = New
  BY NewType DEF RegisterLink, IInv, Typed
<1>2. /\ pc[Main] = "replay" /\ todo[Main] = <<>> /\ clients' = <<n>> \o clients
      /\ pc'[Main] = "spawn" /\ \A d \in Client : pc'[d] = pc[d]
      /\ UNCHANGED <<clientCount, relayed, hbuffer, sbuffer, hand, out, reset, todo>>
  BY <1>1, ThreadFacts
  DEF RegisterLink, Goto, IInv, Typed, TypeControl, buffers, reading, network
<1>3. pc[n] = "none" /\ n \notin Listed /\ relayed[n] = 0
  <2>1. pc[n] = "none"
    BY <1>1, <1>2 DEF IInv, NewInv
  <2> QED
    BY <1>2, <2>1 DEF RelayInv, ListedInv, HistInv
<1>4. clients \in Seq(Client) /\ DOMAIN clients = 1 .. Len(clients) /\ Len(clients) \in Nat
  BY SMT DEF IInv, Typed, TypeShared
<1>5. Listed' = {n} \cup Listed /\ Listed \subseteq Client /\ New' = New
  <2> DEFINE one == <<n>>
  <2>1. one \in Seq(Client) /\ ToSet(one) = {n}
    BY SetOfOne
  <2> HIDE DEF one
  <2>2. ToSet(one \o clients) = ToSet(one) \cup ToSet(clients)
    BY <1>4, <2>1, SetOfConcat
  <2> QED
    BY <1>2, <2>1, <2>2, ListedType DEF Listed, New, one
<1>6. ListedInv'
  <2>1. /\ DOMAIN clients' = 1 .. Len(clients) + 1
        /\ \A i \in 1 .. Len(clients) + 1 :
             clients'[i] = IF i = 1 THEN n ELSE clients[i - 1]
    BY <1>2, <1>4, SMT
  <2>2. \A i \in 1 .. Len(clients) + 1 : i # 1 => i - 1 \in 1 .. Len(clients)
    BY <1>4, SMT
  <2>3. \A i \in 1 .. Len(clients) : clients[i] # n
    BY <1>3, <1>4 DEF Listed, ToSet
  <2>4. ASSUME NEW i \in DOMAIN clients', NEW j \in DOMAIN clients',
               clients'[i] = clients'[j]
        PROVE  i = j
    <3>1. CASE i = 1 \/ j = 1
      BY <2>1, <2>2, <2>3, <2>4, <3>1
    <3>2. CASE i # 1 /\ j # 1
      <4>1. clients[i - 1] = clients[j - 1]
        BY <2>1, <2>4, <3>2
      <4>2. i - 1 = j - 1
        BY <1>4, <2>1, <2>2, <3>2, <4>1 DEF RelayInv, ListedInv
      <4> QED
        BY <1>4, <2>1, <4>2, SMT
    <3> QED
      BY <3>1, <3>2
  <2>5. \A c \in Listed' : pc'[c] # "done" /\ (pc'[c] = "none" => c = New')
    BY <1>1, <1>2, <1>3, <1>5 DEF RelayInv, ListedInv
  <2> QED
    BY <1>2, <2>4, <2>5 DEF ListedInv
<1>7. HistInv'
  BY <1>2 DEF RelayInv, HistInv, Announcing
<1>8. \A d \in Client : InTold(d)' = InTold(d)
  BY <1>2 DEF InTold
<1>9. ASSUME NEW a \in Listed', NEW s \in Listed', a # s, ~ reset'[a]
      PROVE  Knows(a, s)'
  <2>1. a \in Client /\ s \in Client
    BY <1>5
  <2>2. CASE s = n
    <3>1. 1 .. 0 = {}
      BY SMT
    <3> QED
      BY <1>2, <1>3, <2>2, <3>1 DEF Knows
  <2>3. CASE s # n /\ a = n
    <3>1. Knows(n, s)
      BY <1>1, <1>2, <1>5, <2>3, SetOfEmpty DEF RelayInv, HeardInv
    <3> QED
      BY <1>2, <1>8, <2>3, <3>1 DEF Knows
  <2>4. CASE s # n /\ a # n
    BY <1>2, <1>5, <1>8, <1>9, <2>1, <2>4 DEF RelayInv, HeardInv, Knows
  <2> QED
    BY <2>2, <2>3, <2>4
<1>10. \A s \in Client : pc'[s] \notin {"cast", "notify"}
  BY <1>2, OneWalk
<1>11. HeardInv'
  BY <1>2, <1>9, <1>10 DEF HeardInv
<1> QED
  BY <1>6, <1>7, <1>11 DEF RelayInv

LEMMA SpawnRelay ==
    ASSUME IInv, RelayInv, Spawn
    PROVE  RelayInv'
<1>1. PICK n \in Client : n = New
  BY NewType DEF Spawn, IInv, Typed
<1>2. /\ pc[Main] = "spawn" /\ pc'[Main] = "accept"
      /\ pc[n] = "none" /\ pc'[n] = "lock"
      /\ \A d \in Client \ {n} : pc'[d] = pc[d]
      /\ UNCHANGED <<clients, clientCount, relayed, hbuffer, sbuffer, hand, out, reset, todo>>
  BY <1>1, ThreadFacts
  DEF Spawn, IInv, NewInv, Typed, TypeControl, shared, buffers, reading, network
<1>3. Listed' = Listed /\ New' = New /\ Listed \subseteq Client
  BY <1>2, ListedType DEF Listed, New
<1>4. ListedInv'
  BY <1>1, <1>2, <1>3 DEF RelayInv, ListedInv
<1>5. HistInv'
  BY <1>2 DEF RelayInv, HistInv, Announcing
<1>6. \A d \in Client : InTold(d)' = InTold(d)
  BY <1>2 DEF InTold
<1>7. ASSUME NEW a \in Listed, NEW s \in Listed, a # s, ~ reset'[a]
      PROVE  Knows(a, s)'
  BY <1>2, <1>3, <1>6, <1>7 DEF RelayInv, HeardInv, Knows
<1>8. ASSUME NEW s \in Client, pc'[s] \in {"cast", "notify"}, hand'[s] = "DATA",
             NEW d \in Listed \ {s}, ~ reset'[d]
      PROVE  d \in Left(s)' \/ (Data(s, relayed[s] + 1) \in InTold(d))'
  <2>1. s # n
    BY <1>2, <1>8
  <2> QED
    BY <1>2, <1>3, <1>6, <1>8, <2>1 DEF RelayInv, HeardInv, Left, Data, Pkt
<1>9. HeardInv'
  BY <1>2, <1>3, <1>7, <1>8 DEF HeardInv
<1> QED
  BY <1>4, <1>5, <1>9 DEF RelayInv

LEMMA BroadcastLockRelay ==
    ASSUME IInv, RelayInv, NEW c \in Client, BroadcastLock(c)
    PROVE  RelayInv'
<1>1. /\ pc[c] = "lock" /\ pc'[c] = "cast" /\ todo'[c] = clients
      /\ \A t \in Thread \ {c} : pc'[t] = pc[t] /\ todo'[t] = todo[t]
      /\ UNCHANGED <<clients, clientCount, relayed, hbuffer, sbuffer, hand, out, reset>>
  BY ThreadFacts
  DEF BroadcastLock, Goto, IInv, Typed, TypeControl, buffers, reading, network
<1>2. Listed' = Listed /\ New' = New /\ Listed \subseteq Client /\ ToSet(todo[c])' = Listed
  BY <1>1, ListedType DEF Listed, New
<1>3. pc'[Main] = pc[Main] /\ todo'[Main] = todo[Main] /\ Client \subseteq Thread
  BY <1>1, ThreadFacts
<1>4. ListedInv'
  BY <1>1, <1>2, <1>3 DEF RelayInv, ListedInv
<1>5. HistInv'
  BY <1>1, <1>3 DEF RelayInv, HistInv, Announcing
<1>6. \A d \in Client : InTold(d)' = InTold(d)
  BY <1>1 DEF InTold
<1>7. ASSUME NEW a \in Listed, NEW s \in Listed, a # s, ~ reset'[a]
      PROVE  Knows(a, s)'
  BY <1>1, <1>2, <1>6, <1>7 DEF RelayInv, HeardInv, Knows
<1>8. pc'[Main] # "replay"
  BY <1>3, ThreadFacts DEF BroadcastLock, IInv, MutexInv
<1>9. ASSUME NEW s \in Client, pc'[s] \in {"cast", "notify"}, hand'[s] = "DATA",
             NEW d \in Listed \ {s}, ~ reset'[d]
      PROVE  d \in Left(s)' \/ (Data(s, relayed[s] + 1) \in InTold(d))'
  <2>1. CASE s = c
    BY <1>1, <1>2, <2>1 DEF Left
  <2>2. CASE s # c
    BY <1>1, <1>2, <1>3, <1>6, <1>9, <2>2 DEF RelayInv, HeardInv, Left, Data, Pkt
  <2> QED
    BY <2>1, <2>2
<1>10. HeardInv'
  BY <1>2, <1>7, <1>8, <1>9 DEF HeardInv
<1> QED
  BY <1>4, <1>5, <1>10 DEF RelayInv

\* A step of the walk of c over the list.
LEMMA WalkRelay ==
    ASSUME IInv, RelayInv, NEW c \in Client,
           pc[c] \in {"cast", "notify"}, pc'[c] \in {"cast", "notify"},
           \A t \in Thread \ {c} : pc'[t] = pc[t] /\ todo'[t] = todo[t],
           UNCHANGED <<clients, clientCount, relayed, hbuffer, hand, out, reset>>,
           \A d \in Client : ToSet(sbuffer[d]) \subseteq ToSet(sbuffer'[d]),
           \A d \in Client \ {c} :
             d \in Left(c) => \/ d \in Left(c)'
                              \/ hand[c] = "DATA" =>
                                   Data(c, relayed[c] + 1) \in ToSet(sbuffer'[d])
    PROVE  RelayInv'
<1>1. Listed' = Listed /\ New' = New /\ Listed \subseteq Client
  BY ListedType DEF Listed, New
<1>2. pc'[Main] = pc[Main] /\ pc[Main] # "replay" /\ Client \subseteq Thread
  BY ThreadFacts, OneWalk
<1>3. ListedInv'
  BY <1>1, <1>2 DEF RelayInv, ListedInv
<1>4. HistInv'
  BY <1>2 DEF RelayInv, HistInv, Announcing
<1>5. \A d \in Client : InTold(d) \subseteq InTold(d)'
  BY DEF InTold
<1>6. ASSUME NEW a \in Listed, NEW s \in Listed, a # s, ~ reset'[a]
      PROVE  Knows(a, s)'
  BY <1>1, <1>5, <1>6 DEF RelayInv, HeardInv, Knows, Data, Pkt
<1>7. ASSUME NEW s \in Client, pc'[s] \in {"cast", "notify"}, hand'[s] = "DATA",
             NEW d \in Listed \ {s}, ~ reset'[d]
      PROVE  d \in Left(s)' \/ (Data(s, relayed[s] + 1) \in InTold(d))'
  <2>1. CASE s = c
    <3>1. d \in Left(c) \/ Data(c, relayed[c] + 1) \in InTold(d)
      BY <1>7, <2>1 DEF RelayInv, HeardInv
    <3>2. CASE d \in Left(c)
      BY <1>1, <1>7, <2>1, <3>2 DEF InTold, Data, Pkt
    <3>3. CASE Data(c, relayed[c] + 1) \in InTold(d)
      BY <1>1, <1>5, <1>7, <2>1, <3>3 DEF Data, Pkt
    <3> QED
      BY <3>1, <3>2, <3>3
  <2>2. CASE s # c
    <3>1. pc'[s] = pc[s] /\ todo'[s] = todo[s]
      BY <1>2, <2>2
    <3>2. d \in Left(s) \/ Data(s, relayed[s] + 1) \in InTold(d)
      BY <1>7, <3>1 DEF RelayInv, HeardInv
    <3> QED
      BY <1>1, <1>5, <3>1, <3>2 DEF Left, Data, Pkt
  <2> QED
    BY <2>1, <2>2
<1>8. HeardInv'
  BY <1>1, <1>2, <1>6, <1>7 DEF HeardInv
<1> QED
  BY <1>3, <1>4, <1>8 DEF RelayInv

LEMMA BroadcastSkipRelay ==
    ASSUME IInv, RelayInv, NEW c \in Client, BroadcastSkip(c)
    PROVE  RelayInv'
<1>1. /\ pc[c] = "cast" /\ pc' = pc /\ todo[c] # <<>> /\ Head(todo[c]) = c
      /\ todo'[c] = Tail(todo[c])
      /\ \A t \in Thread \ {c} : todo'[t] = todo[t]
      /\ UNCHANGED <<clients, clientCount, relayed, hbuffer, sbuffer, hand, out, reset>>
  BY ThreadFacts
  DEF BroadcastSkip, IInv, Typed, TypeControl, shared, buffers, reading, network
<1>2. todo[c] \in Seq(Client)
  BY ThreadFacts DEF IInv, Typed, TypeControl
<1>3. ToSet(todo[c]) = {c} \cup ToSet(Tail(todo[c]))
  BY <1>1, <1>2, SetOfTail
<1>4. \A d \in Client \ {c} : d \in Left(c) => d \in Left(c)'
  BY <1>1, <1>3 DEF Left
<1> QED
  BY <1>1, <1>4, WalkRelay

LEMMA BroadcastAppendRelay ==
    ASSUME IInv, RelayInv, NEW c \in Client, BroadcastAppend(c)
    PROVE  RelayInv'
<1>1. PICK d \in Client : d = Head(todo[c])
  BY TodoType, ThreadFacts DEF BroadcastAppend, IInv, Typed
<1>2. PICK p \in Packet : p = InHand(c)
  BY InHandType DEF IInv, Typed
<1>3. /\ pc[c] = "cast" /\ pc'[c] = "notify" /\ todo[c] # <<>> /\ todo' = todo
      /\ \A t \in Thread \ {c} : pc'[t] = pc[t]
      /\ sbuffer'[d] = Append(sbuffer[d], p)
      /\ \A a \in Client \ {d} : sbuffer'[a] = sbuffer[a]
      /\ UNCHANGED <<clients, clientCount, relayed, hbuffer, hand, out, reset>>
  BY <1>1, <1>2, ThreadFacts
  DEF BroadcastAppend, Goto, IInv, Typed, TypeControl, TypeBuffers, shared, reading,
      network
<1>4. ToSet(sbuffer'[d]) = ToSet(sbuffer[d]) \cup {p}
  <2>1. sbuffer[d] \in Seq(Packet)
    BY DEF IInv, Typed, TypeBuffers
  <2> QED
    BY <1>3, <2>1, SetOfAppend
<1>5. todo[c] \in Seq(Client)
  BY ThreadFacts DEF IInv, Typed, TypeControl
<1>6. ToSet(todo[c]) = {d} \cup ToSet(Tail(todo[c]))
  BY <1>1, <1>3, <1>5, SetOfTail
<1>7. hand[c] = "DATA" => p = Data(c, relayed[c] + 1)
  BY <1>2 DEF InHand, Data
<1>8. \A a \in Client : ToSet(sbuffer[a]) \subseteq ToSet(sbuffer'[a])
  BY <1>3, <1>4
<1>9. \A a \in Client \ {c} :
        a \in Left(c) => \/ a \in Left(c)'
                         \/ hand[c] = "DATA" =>
                              Data(c, relayed[c] + 1) \in ToSet(sbuffer'[a])
  BY <1>3, <1>4, <1>6, <1>7 DEF Left
<1> QED
  BY SMTT(30), <1>3, <1>8, <1>9, WalkRelay

LEMMA BroadcastNotifyRelay ==
    ASSUME IInv, RelayInv, NEW c \in Client, BroadcastNotify(c)
    PROVE  RelayInv'
<1>1. /\ pc[c] = "notify" /\ pc'[c] = "cast" /\ todo'[c] = Tail(todo[c])
      /\ \A t \in Thread \ {c} : pc'[t] = pc[t] /\ todo'[t] = todo[t]
      /\ UNCHANGED <<clients, clientCount, relayed, hbuffer, sbuffer, hand, out, reset>>
  BY ThreadFacts
  DEF BroadcastNotify, Goto, IInv, Typed, TypeControl, shared, reading, network
<1>2. Left(c)' = Left(c)
  BY <1>1 DEF Left
<1> QED
  BY <1>1, <1>2, WalkRelay

LEMMA BroadcastUnlockRelay ==
    ASSUME IInv, RelayInv, NEW c \in Client, BroadcastUnlock(c)
    PROVE  RelayInv'
<1>1. /\ pc[c] = "cast" /\ todo[c] = <<>>
      /\ UNCHANGED <<clients, clientCount, hbuffer, sbuffer, hand, out, reset, todo>>
  BY DEF BroadcastUnlock, buffers, network
<1>2. CASE hand[c] # "DATA"
  <2>1. /\ \E l \in {"select", "shutdown"} : pc' = [pc EXCEPT ![c] = l]
        /\ UNCHANGED relayed
    BY <1>2 DEF BroadcastUnlock, Goto
  <2> QED
    BY <1>1, <2>1, RelayFrame DEF InTold
<1>3. CASE hand[c] = "DATA"
  <2>1. /\ pc'[c] = "cut" /\ \A t \in Thread \ {c} : pc'[t] = pc[t]
        /\ relayed'[c] = relayed[c] + 1
        /\ \A d \in Client \ {c} : relayed'[d] = relayed[d]
        /\ relayed[c] \in Nat
    BY <1>3, ThreadFacts
    DEF BroadcastUnlock, Goto, IInv, Typed, TypeControl, TypeReading
  <2>2. \A m \in 1 .. relayed'[c] : m \in 1 .. relayed[c] \/ m = relayed[c] + 1
    BY <2>1, SMT
  <2>3. Listed' = Listed /\ New' = New /\ Listed \subseteq Client
    BY <1>1, ListedType DEF Listed, New
  <2>4. pc'[Main] = pc[Main] /\ pc[Main] # "replay" /\ Client \subseteq Thread
    BY <1>1, <2>1, ThreadFacts, OneWalk
  <2>5. ListedInv'
    BY <1>1, <2>1, <2>3, <2>4 DEF RelayInv, ListedInv
  <2>6. ASSUME NEW s \in Client
        PROVE  /\ pc'[s] = "none" => relayed'[s] = 0 /\ hand'[s] = "CONNECTED"
               /\ pc'[s] # "done" =>
                    \A m \in 1 .. relayed'[s] : Data(s, m) \in ToSet(hbuffer[s])
               /\ pc'[s] \in Announcing /\ hand'[s] = "DATA" =>
                    Data(s, relayed'[s] + 1) \in ToSet(hbuffer[s])
    <3>1. CASE s = c
      <4>1. /\ \A m \in 1 .. relayed[c] : Data(c, m) \in ToSet(hbuffer[c])
            /\ Data(c, relayed[c] + 1) \in ToSet(hbuffer[c])
        BY <1>1, <1>3 DEF RelayInv, HistInv, Announcing
      <4> QED
        BY <2>1, <2>2, <3>1, <4>1 DEF Announcing
    <3>2. CASE s # c
      BY <1>1, <2>1, <2>4, <3>2 DEF RelayInv, HistInv
    <3> QED
      BY <3>1, <3>2
  <2>7. HistInv'
    BY <1>1, <2>6 DEF HistInv, Data, Pkt
  <2>8. \A d \in Client : InTold(d)' = InTold(d)
    BY <1>1 DEF InTold
  <2>9. ASSUME NEW a \in Listed, NEW s \in Listed, a # s, ~ reset'[a]
        PROVE  Knows(a, s)'
    <3>1. Knows(a, s) /\ InTold(a)' = InTold(a)
      BY <1>1, <2>3, <2>8, <2>9 DEF RelayInv, HeardInv
    <3>2. CASE s = c
      <4>1. a \in Left(c) \/ Data(c, relayed[c] + 1) \in InTold(a)
        BY <1>1, <1>3, <2>3, <2>9, <3>2 DEF RelayInv, HeardInv
      <4>2. Data(c, relayed[c] + 1) \in InTold(a)
        BY <1>1, <4>1, SetOfEmpty DEF Left
      <4> QED
        BY <2>2, <3>1, <3>2, <4>2 DEF Knows, Data, Pkt
    <3>3. CASE s # c
      BY <2>1, <2>3, <3>1, <3>3 DEF Knows, Data, Pkt
    <3> QED
      BY <3>2, <3>3
  <2>10. ASSUME NEW s \in Client, pc'[s] \in {"cast", "notify"}, hand'[s] = "DATA",
               NEW d \in Listed \ {s}, ~ reset'[d]
        PROVE  d \in Left(s)' \/ (Data(s, relayed[s] + 1) \in InTold(d))'
    <3>1. s # c
      BY <2>1, <2>10
    <3>2. pc'[s] = pc[s] /\ relayed'[s] = relayed[s]
      BY <2>1, <2>4, <3>1
    <3> QED
      BY <1>1, <2>3, <2>8, <2>10, <3>2 DEF RelayInv, HeardInv, Left, Data, Pkt
  <2>11. HeardInv'
    BY <2>3, <2>4, <2>9, <2>10 DEF HeardInv
  <2> QED
    BY <2>5, <2>7, <2>11 DEF RelayInv
<1> QED
  BY <1>2, <1>3

\* A thread takes the next packet, or the end of the stream, in hand.
LEMMA HandRelay ==
    ASSUME IInv, RelayInv, NEW c \in Client, Cut(c) \/ ReadEnd(c)
    PROVE  RelayInv'
<1>1. /\ pc[c] \in {"cut", "select"} /\ pc'[c] = "lock"
      /\ \A t \in Thread \ {c} : pc'[t] = pc[t]
      /\ \A d \in Client \ {c} : hand'[d] = hand[d] /\ hbuffer'[d] = hbuffer[d]
      /\ UNCHANGED <<clients, clientCount, relayed, sbuffer, out, reset, todo>>
  BY SMTT(30), ThreadFacts
  DEF Cut, ReadEnd, Goto, IInv, Typed, TypeControl, TypeBuffers, shared, buffers,
      reading, network
<1>2. /\ ToSet(hbuffer[c]) \subseteq ToSet(hbuffer'[c])
      /\ hand'[c] = "DATA" => Data(c, relayed[c] + 1) \in ToSet(hbuffer'[c])
  <2>1. CASE Cut(c)
    <3>1. PICK p \in Packet : p = Data(c, relayed[c] + 1)
      <4>1. relayed[c] + 1 \in Nat
        BY SMT DEF IInv, Typed, TypeReading
      <4> QED
        BY <4>1, PktType DEF Kind, Data
    <3>2. hbuffer[c] \in Seq(Packet) /\ hbuffer'[c] = Append(hbuffer[c], p)
      BY <2>1, <3>1 DEF Cut, IInv, Typed, TypeBuffers, Data
    <3> QED
      BY <3>1, <3>2, SetOfAppend
  <2>2. CASE ReadEnd(c)
    BY <2>2 DEF ReadEnd, buffers, IInv, Typed, TypeControl
  <2> QED
    BY <2>1, <2>2
<1>3. Listed' = Listed /\ New' = New /\ Listed \subseteq Client
  BY <1>1, ListedType DEF Listed, New
<1>4. pc'[Main] = pc[Main] /\ Client \subseteq Thread
  BY <1>1, ThreadFacts
<1>5. ListedInv'
  BY <1>1, <1>3, <1>4 DEF RelayInv, ListedInv
<1>6. ASSUME NEW s \in Client
      PROVE  /\ pc'[s] = "none" => relayed[s] = 0 /\ hand'[s] = "CONNECTED"
             /\ pc'[s] # "done" =>
                  \A m \in 1 .. relayed[s] : Data(s, m) \in ToSet(hbuffer'[s])
             /\ pc'[s] \in Announcing /\ hand'[s] = "DATA" =>
                  Data(s, relayed[s] + 1) \in ToSet(hbuffer'[s])
  <2>1. CASE s = c
    <3>1. \A m \in 1 .. relayed[c] : Data(c, m) \in ToSet(hbuffer[c])
      BY <1>1 DEF RelayInv, HistInv
    <3> QED
      BY <1>1, <1>2, <2>1, <3>1
  <2>2. CASE s # c
    BY <1>1, <1>4, <2>2 DEF RelayInv, HistInv
  <2> QED
    BY <2>1, <2>2
<1>7. HistInv'
  BY <1>1, <1>6 DEF HistInv, Data, Pkt
<1>8. \A d \in Client : InTold(d)' = InTold(d)
  BY <1>1 DEF InTold
<1>9. ASSUME NEW a \in Listed, NEW s \in Listed, a # s, ~ reset'[a]
      PROVE  Knows(a, s)'
  BY <1>1, <1>3, <1>8, <1>9 DEF RelayInv, HeardInv, Knows
<1>10. ASSUME pc[Main] = "replay", NEW s \in Listed \ ToSet(todo[Main])
       PROVE  Knows(New, s)'
  <2>1. PICK n \in Client : n = New
    BY <1>10, NewType DEF IInv, Typed
  <2>2. Knows(n, s)
    BY <1>10, <2>1 DEF RelayInv, HeardInv
  <2>3. Knows(n, s)'
    BY <1>1, <1>8, <2>2 DEF Knows
  <2> QED
    BY <1>3, <2>1, <2>3 DEF Knows, InTold
<1>11. ASSUME NEW s \in Client, pc'[s] \in {"cast", "notify"}, hand'[s] = "DATA",
              NEW d \in Listed \ {s}, ~ reset'[d]
       PROVE  d \in Left(s)' \/ (Data(s, relayed[s] + 1) \in InTold(d))'
  <2>1. s # c
    BY <1>1, <1>11
  <2> QED
    BY <1>1, <1>3, <1>4, <1>8, <1>11, <2>1 DEF RelayInv, HeardInv, Left, Data, Pkt
<1>12. HeardInv'
  BY <1>1, <1>3, <1>4, <1>9, <1>10, <1>11 DEF HeardInv
<1> QED
  BY <1>5, <1>7, <1>12 DEF RelayInv

LEMMA SendAllRelay ==
    ASSUME IInv, RelayInv, NEW c \in Client, SendAll(c)
    PROVE  RelayInv'
<1>1. /\ pc[c] = "flush" /\ pc' = [pc EXCEPT ![c] = "select"]
      /\ UNCHANGED <<clients, clientCount, relayed, hbuffer, todo, hand>>
      /\ \A d \in Client \ {c} : out'[d] = out[d] /\ sbuffer'[d] = sbuffer[d]
                                 /\ reset'[d] = reset[d]
      /\ reset[c] => reset'[c]
  BY SMTT(30) DEF SendAll, Goto, IInv, Typed, TypeBuffers, TypeNetwork, shared, reading
<1>2. ASSUME ~ reset'[c]
      PROVE  InTold(c)' = InTold(c)
  <2>1. PICK q \in Seq(Packet) : q = out[c]
    BY DEF IInv, Typed, TypeNetwork
  <2>2. PICK r \in Seq(Packet) : r = sbuffer[c]
    BY DEF IInv, Typed, TypeBuffers
  <2>3. out'[c] = q \o r /\ sbuffer'[c] = <<>>
    BY SMTT(30), <1>1, <1>2, <2>1, <2>2 DEF SendAll, IInv, Typed, TypeBuffers, TypeNetwork
  <2>4. ToSet(q \o r) = ToSet(q) \cup ToSet(r)
    BY SetOfConcat
  <2> QED
    BY <2>1, <2>2, <2>3, <2>4, SetOfEmpty DEF InTold
<1>3. \A d \in Client : reset[d] => reset'[d]
  BY <1>1
<1>4. \A d \in Client : ~ reset'[d] \/ pc[d] = "none" => InTold(d)' = InTold(d)
  BY <1>1, <1>2 DEF InTold
<1> QED
  BY <1>1, <1>3, <1>4, RelayFrame

\* Steps of a thread, or of its peer, that concern reading and sending only.
LEMMA OtherRelay ==
    ASSUME IInv, RelayInv, NEW c \in Client,
           \/ Read(c) \/ CutDone(c) \/ SelectPipe(c) \/ SendLock(c) \/ SendKilled(c)
           \/ PeerSend(c) \/ PeerClose(c)
    PROVE  RelayInv'
<1>1. /\ UNCHANGED <<clients, clientCount, relayed, hbuffer, sbuffer, out, todo, hand>>
      /\ \A d \in Client : reset[d] => reset'[d]
  BY DEF Read, CutDone, SelectPipe, SendLock, SendKilled, PeerSend, PeerClose, shared,
         buffers, reading, network, IInv, Typed, TypeNetwork
<1>2. \/ pc' = pc
      \/ /\ pc[c] \notin {"none", "done"}
         /\ \E l \in {"select", "cut", "send", "flush", "shutdown"} :
              pc' = [pc EXCEPT ![c] = l]
  BY DEF Read, CutDone, SelectPipe, SendLock, SendKilled, PeerSend, PeerClose, Goto
<1>3. \A d \in Client : InTold(d)' = InTold(d)
  BY <1>1 DEF InTold
<1> QED
  BY <1>1, <1>2, <1>3, RelayFrame

\* Dropping an element of a sequence without duplicates drops no other, and
\* leaves no duplicates.
LEMMA SpliceInjective ==
    ASSUME NEW S, NEW q \in Seq(S), NEW i \in DOMAIN q,
           \A j, k \in DOMAIN q : q[j] = q[k] => j = k
    PROVE  /\ \A j, k \in DOMAIN RemoveAt(q, i) :
                RemoveAt(q, i)[j] = RemoveAt(q, i)[k] => j = k
           /\ \A j \in DOMAIN RemoveAt(q, i) : RemoveAt(q, i)[j] # q[i]
<1>1. i \in 1 .. Len(q) /\ Len(q) \in Nat /\ DOMAIN q = 1 .. Len(q)
  BY LenProperties
<1>2. PICK r \in Seq(S) : r = RemoveAt(q, i)
  <2>1. RemoveAt(q, i) \in Seq(S)
    BY <1>1, SMT DEF RemoveAt
  <2> QED
    BY <2>1
<1>3. /\ DOMAIN r = 1 .. Len(q) - 1
      /\ \A j \in 1 .. Len(q) - 1 : r[j] = IF j < i THEN q[j] ELSE q[j + 1]
  <2>1. PICK front \in Seq(S) : front = SubSeq(q, 1, i - 1)
    <3>1. SubSeq(q, 1, i - 1) \in Seq(S)
      BY <1>1, SMT
    <3> QED
      BY <3>1
  <2>2. PICK back \in Seq(S) : back = SubSeq(q, i + 1, Len(q))
    <3>1. SubSeq(q, i + 1, Len(q)) \in Seq(S)
      BY <1>1, SMT
    <3> QED
      BY <3>1
  <2>3. Len(front) = i - 1 /\ \A j \in 1 .. i - 1 : front[j] = q[j]
    BY <1>1, <2>1, SMT
  <2>4. Len(back) = Len(q) - i /\ \A j \in 1 .. Len(q) - i : back[j] = q[i + j]
    BY <1>1, <2>2, SMTT(30)
  <2>5. r = front \o back
    BY <1>2, <2>1, <2>2 DEF RemoveAt
  <2>6. /\ DOMAIN r = 1 .. Len(front) + Len(back)
        /\ \A j \in 1 .. Len(front) + Len(back) :
             r[j] = IF j <= Len(front) THEN front[j] ELSE back[j - Len(front)]
    BY <2>5, SMT
  <2>7. Len(front) + Len(back) = Len(q) - 1
    BY <1>1, <2>3, <2>4, SMT
  <2>8. ASSUME NEW j \in 1 .. Len(q) - 1
        PROVE  r[j] = IF j < i THEN q[j] ELSE q[j + 1]
    <3>1. CASE j < i
      <4>1. j \in 1 .. i - 1 /\ j <= Len(front)
        BY <1>1, <2>3, <3>1, SMT
      <4> QED
        BY <2>3, <2>6, <2>7, <3>1, <4>1
    <3>2. CASE ~ (j < i)
      <4>1. /\ j - (i - 1) \in 1 .. Len(q) - i /\ i + (j - (i - 1)) = j + 1
            /\ ~ (j <= i - 1)
        BY <1>1, <3>2, SMTT(30)
      <4>2. r[j] = back[j - (i - 1)]
        BY <2>3, <2>6, <2>7, <4>1
      <4>3. back[j - (i - 1)] = q[i + (j - (i - 1))]
        BY <2>4, <4>1
      <4> QED
        BY <3>2, <4>1, <4>2, <4>3
    <3> QED
      BY <3>1, <3>2
  <2> QED
    BY <2>6, <2>7, <2>8
<1>4. \A j \in 1 .. Len(q) - 1 : j \in DOMAIN q /\ j + 1 \in DOMAIN q
  BY <1>1, SMT
<1>5. ASSUME NEW j \in 1 .. Len(q) - 1, NEW k \in 1 .. Len(q) - 1, r[j] = r[k]
      PROVE  j = k
  <2>1. PICK a \in DOMAIN q : r[j] = q[a] /\ a = IF j < i THEN j ELSE j + 1
    BY <1>3, <1>4
  <2>2. PICK b \in DOMAIN q : r[k] = q[b] /\ b = IF k < i THEN k ELSE k + 1
    BY <1>3, <1>4
  <2>3. a = b
    BY <1>5, <2>1, <2>2
  <2> QED
    BY <1>1, <2>1, <2>2, <2>3, SMT
<1>6. ASSUME NEW j \in 1 .. Len(q) - 1
      PROVE  r[j] # q[i]
  <2>1. PICK a \in DOMAIN q : r[j] = q[a] /\ a = IF j < i THEN j ELSE j + 1
    BY <1>3, <1>4
  <2>2. a # i
    BY <1>1, <2>1, SMT
  <2> QED
    BY <2>1, <2>2
<1> QED
  BY <1>2, <1>3, <1>5, <1>6

LEMMA ShutdownRelay ==
    ASSUME IInv, RelayInv, NEW c \in Client, Shutdown(c)
    PROVE  RelayInv'
<1>1. PICK i \in DOMAIN clients : clients[i] = c /\ clients' = RemoveAt(clients, i)
  BY DEF Shutdown
<1>2. /\ pc[c] = "shutdown" /\ pc'[c] = "done" /\ ctxMutex = Nobody
      /\ \A t \in Thread \ {c} : pc'[t] = pc[t]
      /\ \A d \in Client \ {c} : sbuffer'[d] = sbuffer[d] /\ hbuffer'[d] = hbuffer[d]
      /\ UNCHANGED <<clientCount, relayed, hand, out, reset, todo>>
  BY ThreadFacts
  DEF Shutdown, Goto, IInv, Typed, TypeControl, TypeBuffers, reading, network
<1>3. clients \in Seq(Client) /\ \A j, k \in DOMAIN clients : clients[j] = clients[k] => j = k
  BY DEF IInv, Typed, TypeShared, RelayInv, ListedInv
<1>4. /\ \A j, k \in DOMAIN clients' : clients'[j] = clients'[k] => j = k
      /\ \A j \in DOMAIN clients' : clients'[j] # c
  BY <1>1, <1>3, SpliceInjective
<1>5. \A j \in DOMAIN clients' : \E k \in DOMAIN clients : clients'[j] = clients[k]
  BY <1>1, <1>3, SpliceElements
<1>6. Listed' \subseteq Listed \ {c} /\ New' = New /\ Listed \subseteq Client
  BY <1>2, <1>4, <1>5, ListedType DEF Listed, ToSet, New
<1>7. pc'[Main] = pc[Main] /\ Client \subseteq Thread
  BY <1>2, ThreadFacts
<1>8. pc[Main] # "replay" /\ \A s \in Client : pc[s] \notin {"cast", "notify"}
  BY <1>2, ThreadFacts DEF IInv, MutexInv
<1>9. ListedInv'
  BY <1>2, <1>4, <1>6, <1>7 DEF RelayInv, ListedInv
<1>10. HistInv'
  BY <1>2, <1>7 DEF RelayInv, HistInv, Announcing
<1>11. \A d \in Client \ {c} : InTold(d)' = InTold(d)
  BY <1>2 DEF InTold
<1>12. ASSUME NEW a \in Listed', NEW s \in Listed', a # s, ~ reset'[a]
       PROVE  Knows(a, s)'
  BY <1>2, <1>6, <1>11, <1>12 DEF RelayInv, HeardInv, Knows
<1>13. \A s \in Client : pc'[s] \notin {"cast", "notify"}
  BY <1>2, <1>7, <1>8
<1>14. HeardInv'
  BY <1>7, <1>8, <1>12, <1>13 DEF HeardInv
<1> QED
  BY <1>9, <1>10, <1>14 DEF RelayInv

LEMMA NextRelay == IInv /\ RelayInv /\ [Next]_vars => RelayInv'
<1> SUFFICES ASSUME IInv, RelayInv, [Next]_vars PROVE RelayInv'
  OBVIOUS
<1>1. CASE Accept \/ Register
  BY <1>1, AcceptRelay, RegisterLockRelay, RegisterReplayRelay, RegisterLinkRelay,
     SpawnRelay DEF Register
<1>2. ASSUME NEW c \in Client,
             \/ BroadcastLock(c) \/ BroadcastSkip(c) \/ BroadcastAppend(c)
             \/ BroadcastNotify(c) \/ BroadcastUnlock(c)
      PROVE  RelayInv'
  BY <1>2, BroadcastLockRelay, BroadcastSkipRelay, BroadcastAppendRelay,
     BroadcastNotifyRelay, BroadcastUnlockRelay
<1>3. ASSUME NEW c \in Client,
             \/ Read(c) \/ Cut(c) \/ CutDone(c) \/ ReadEnd(c) \/ SelectPipe(c)
             \/ SendLock(c) \/ SendAll(c) \/ SendKilled(c) \/ Shutdown(c)
             \/ PeerSend(c) \/ PeerClose(c)
      PROVE  RelayInv'
  BY <1>3, HandRelay, SendAllRelay, ShutdownRelay, OtherRelay
<1>4. CASE UNCHANGED vars
  <2>1. PICK c : c \in Client
    BY ServerConstants, SMTT(30) DEF ServerConstants, Client
  <2>2. \A d \in Client : InTold(d)' = InTold(d) /\ reset'[d] = reset[d]
    BY <1>4 DEF vars, InTold
  <2> QED
    BY <1>4, <2>1, <2>2, RelayFrame DEF vars
<1> QED
  BY <1>1, <1>2, <1>3, <1>4 DEF Next, ClientTask

\* Once the broadcast of a packet is over, every client in the list has been told
\* of it, whether it was there when the broadcast began or was registered while
\* it was under way (server.c:140-170, 194-220, 290-302).
THEOREM RelayCompleteHolds == Spec => []RelayComplete
<1>1. IInv /\ RelayInv => RelayComplete
  <2> SUFFICES ASSUME IInv, RelayInv, NEW c \in Listed, NEW s \in Listed, c # s,
                      ~ reset[c], NEW m \in 1 .. relayed[s]
               PROVE  Pkt("DATA", s, m) \in ToSet(Told(c))
    BY DEF RelayComplete
  <2>1. Data(s, m) \in InTold(c)
    BY DEF RelayInv, HeardInv, Knows
  <2>2. out[c] \in Seq(Packet) /\ sbuffer[c] \in Seq(Packet)
    BY ListedType DEF IInv, Typed, TypeBuffers, TypeNetwork
  <2>3. ToSet(Told(c)) = InTold(c)
    BY <2>2, SetOfConcat DEF Told, InTold
  <2> QED
    BY <2>1, <2>3 DEF Data
<1> QED
  BY <1>1, Invariance, InitInv, NextInv, InitRelay, NextRelay, PTL DEF Spec

--------------------------------------------------------------------------------
(* What a client is told of another is a session without a gap. *)

\* Nobody is there twice.
Distinct(q) == \A i, j \in DOMAIN q : q[i] = q[j] => i = j

\* A thread that runs has its client in the list, a walk visits clients that are
\* in the list, each once, and a client's first broadcast is its CONNECTED, its
\* last the DISCONNECTED.
WalkInv ==
    /\ \A s \in Client : pc[s] \notin {"none", "done"} => s \in Listed
    /\ pc[Main] = "spawn" => New \in Listed
    /\ \A t \in Thread : pc[t] \in Walking =>
         Distinct(todo[t]) /\ ToSet(todo[t]) \subseteq Listed
    /\ \A s \in Client :
         /\ pc[s] \in {"shutdown", "done"} => hand[s] = "DISCONNECTED"
         /\ pc[s] \in Announcing /\ hand[s] = "CONNECTED" => relayed[s] = 0

\* How many packets of s are in its history.
Kept(s) == relayed[s] + (IF pc[s] \in Announcing /\ hand[s] = "DATA" THEN 1 ELSE 0)

\* A history is all of them, in their order.
KeptInv ==
    \A s \in Client : pc[s] # "done" =>
      Len(hbuffer[s]) = Kept(s) /\ \A i \in 1 .. Kept(s) : hbuffer[s][i] = Data(s, i)

\* The broadcast of what s has in hand, or will have first, has yet to reach c.
Ahead(c, s) ==
    pc[s] \in {"none", "lock"} \/ (pc[s] \in {"cast", "notify"} /\ c \in Left(s))

\* c is yet to be told by s itself that it is there, ...
Unknown(c, s) == hand[s] = "CONNECTED" /\ Ahead(c, s)

\* ... or has been told by s that it has gone.
Gone(c, s) ==
    /\ hand[s] = "DISCONNECTED"
    /\ pc[s] \in {"cast", "notify", "shutdown", "done"} /\ ~ Ahead(c, s)

\* Nothing of s has been replayed to c yet.
Fresh(c, s) ==
    \/ c >= clientCount
    \/ c = New /\ pc[Main] = "register"
    \/ c = New /\ pc[Main] = "replay" /\ s \in ToSet(todo[Main])

\* Someone, s or the main thread, has told c that s is there.
Introduced(c, s) ==
    /\ s \in Listed
    /\ \/ c \in Listed /\ ~ Unknown(c, s)
       \/ c = New /\ pc[Main] = "replay" /\ ~ Fresh(c, s)

\* c has been told that s is there.
Met(c, s) == \E i \in From(Told(c), s) : Told(c)[i].kind = "CONNECTED"

\* What c has been told of s, and how far s has come.
AtMostGreeted(t, s) ==
    \A i, k \in From(t, s) : t[i].kind = "CONNECTED" /\ i = k
NoneGone(t, s) == \A i \in From(t, s) : t[i].kind # "DISCONNECTED"
UpTo(t, s, m) == \A i \in DataFrom(t, s) : t[i].n <= m
NoneTwice(t, s) == \A i, k \in DataFrom(t, s) : t[i].n = t[k].n => i = k
Holds(t, s, m) == \E i \in DataFrom(t, s) : t[i].n = m

PairInv(c, s) ==
    LET t == Told(c) IN
      /\ InSession(t, s) /\ Unbroken(t, s) /\ UpTo(t, s, Kept(s))
      /\ Fresh(c, s) => From(t, s) = {}
      /\ Unknown(c, s) => AtMostGreeted(t, s)
      /\ ~ Gone(c, s) => NoneGone(t, s)
      /\ Ahead(c, s) /\ Holds(t, s, relayed[s] + 1) => NoneTwice(t, s)
      /\ Introduced(c, s) => Met(c, s)

SessionInv ==
    WalkInv /\ KeptInv /\ \A c, s \in Client : c # s /\ ~ reset[c] => PairInv(c, s)

\* u is what t has of s up to some place.
Part(t, u, s) ==
    /\ From(u, s) \subseteq From(t, s)
    /\ \A i \in From(u, s) : u[i] = t[i]
    /\ \A i \in From(u, s), j \in From(t, s) : j < i => j \in From(u, s)

\* What is said of a sequence of packets is true of its beginnings.
LEMMA PartStory ==
    ASSUME NEW t, NEW u, NEW s, Part(t, u, s)
    PROVE  /\ InSession(t, s) => InSession(u, s)
           /\ Unbroken(t, s) => Unbroken(u, s)
           /\ From(t, s) = {} => From(u, s) = {}
           /\ AtMostGreeted(t, s) => AtMostGreeted(u, s)
           /\ NoneGone(t, s) => NoneGone(u, s)
           /\ NoneTwice(t, s) => NoneTwice(u, s)
           /\ \A m : UpTo(t, s, m) => UpTo(u, s, m)
           /\ \A m : Holds(u, s, m) => Holds(t, s, m)
<1>1. \A i \in From(u, s) : i \in From(t, s) /\ u[i] = t[i]
  BY DEF Part
<1>2. ASSUME NEW j \in From(u, s)
      PROVE  {i \in From(u, s) : i < j} = {i \in From(t, s) : i < j}
  BY DEF Part
<1>3. /\ \A i \in DataFrom(u, s) : i \in DataFrom(t, s) /\ u[i] = t[i]
      /\ \A i \in DataFrom(u, s), j \in DataFrom(t, s) : j < i => j \in DataFrom(u, s)
  BY <1>1 DEF Part, DataFrom
<1>4. InSession(t, s) => InSession(u, s)
  BY <1>1, <1>2 DEF InSession
<1>5. Unbroken(t, s) => Unbroken(u, s)
  BY SMTT(30), <1>3 DEF Unbroken
<1> QED
  BY <1>1, <1>3, <1>4, <1>5 DEF AtMostGreeted, NoneGone, NoneTwice, UpTo, Holds

\* Where the packets of s are when more packets follow.
LEMMA FromConcat ==
    ASSUME NEW t \in Seq(Packet), NEW w \in Seq(Packet), NEW s,
           \A i \in DOMAIN w : w[i].from # s
    PROVE  /\ From(t \o w, s) = From(t, s)
           /\ \A i \in From(t, s) : (t \o w)[i] = t[i]
<1>1. /\ DOMAIN t = 1 .. Len(t) /\ DOMAIN w = 1 .. Len(w)
      /\ Len(t) \in Nat /\ Len(w) \in Nat
      /\ DOMAIN (t \o w) = 1 .. Len(t) + Len(w)
      /\ \A i \in 1 .. Len(t) + Len(w) :
           (t \o w)[i] = IF i <= Len(t) THEN t[i] ELSE w[i - Len(t)]
  BY SMT
<1>2. /\ \A i \in 1 .. Len(t) : i \in 1 .. Len(t) + Len(w) /\ i <= Len(t)
      /\ \A i \in 1 .. Len(t) + Len(w) : i <= Len(t) => i \in 1 .. Len(t)
      /\ \A i \in 1 .. Len(t) + Len(w) : ~ (i <= Len(t)) => i - Len(t) \in 1 .. Len(w)
  BY <1>1, SMT
<1>3. \A i \in 1 .. Len(t) : (t \o w)[i] = t[i]
  BY <1>1, <1>2
<1>4. \A i \in 1 .. Len(t) + Len(w) : (t \o w)[i].from = s => i \in 1 .. Len(t)
  BY <1>1, <1>2
<1> QED
  BY <1>1, <1>2, <1>3, <1>4 DEF From

\* u has, after what t has of s, the packet p of s at z.
Grows(t, u, s, z, p) ==
    /\ From(u, s) = From(t, s) \cup {z} /\ u[z] = p /\ ~ (z < z)
    /\ \A i \in From(t, s) : u[i] = t[i] /\ i < z /\ ~ (z < i) /\ ~ (i < i)

LEMMA AppendGrows ==
    ASSUME NEW t \in Seq(Packet), NEW p \in Packet
    PROVE  Grows(t, Append(t, p), p.from, Len(t) + 1, p)
<1> DEFINE u == Append(t, p)
<1> DEFINE z == Len(t) + 1
<1>1. /\ DOMAIN t = 1 .. Len(t) /\ Len(t) \in Nat
      /\ DOMAIN u = 1 .. z
      /\ u[z] = p
      /\ \A i \in 1 .. Len(t) : u[i] = t[i]
  BY SMT
<1>2. /\ \A i \in 1 .. z : i \in 1 .. Len(t) \/ i = z
      /\ \A i \in 1 .. Len(t) : i \in 1 .. z /\ i < z /\ ~ (z < i) /\ ~ (i < i)
      /\ z \in 1 .. z /\ ~ (z < z)
  BY <1>1, SMT
<1> HIDE DEF u, z
<1>3. \A i \in From(t, p.from) : i \in 1 .. Len(t) /\ t[i].from = p.from
  BY <1>1 DEF From
<1>4. From(u, p.from) = From(t, p.from) \cup {z}
  BY <1>1, <1>2 DEF From
<1>5. Grows(t, u, p.from, z, p)
  BY <1>1, <1>2, <1>3, <1>4 DEF Grows
<1> QED
  BY <1>5 DEF u, z

\* The types of a packet's fields.
LEMMA PktFields ==
    ASSUME NEW k \in Kind, NEW s \in Client, NEW m \in Nat
    PROVE  /\ Pkt(k, s, m) \in Packet
           /\ Pkt(k, s, m).kind = k /\ Pkt(k, s, m).from = s /\ Pkt(k, s, m).n = m
BY DEF Pkt, Packet

Greeted(t, s) == \E i \in From(t, s) : t[i].kind = "CONNECTED"

\* One more CONNECTED, to who has at most been told the same.
LEMMA TellConnected ==
    ASSUME NEW t, NEW u, NEW s, NEW z, NEW p, Grows(t, u, s, z, p),
           p.kind = "CONNECTED", AtMostGreeted(t, s)
    PROVE  /\ InSession(u, s) /\ Unbroken(u, s) /\ NoneGone(u, s) /\ Greeted(u, s)
           /\ DataFrom(u, s) = {}
<1>1. /\ From(u, s) = From(t, s) \cup {z} /\ u[z].kind = "CONNECTED" /\ ~ (z < z)
      /\ \A i \in From(t, s) : u[i] = t[i] /\ i < z /\ ~ (z < i)
  BY DEF Grows
<1>2. \A i \in From(u, s) : u[i].kind = "CONNECTED"
  BY <1>1 DEF AtMostGreeted
<1>3. DataFrom(u, s) = {}
  BY <1>2 DEF DataFrom
<1>4. \A j \in From(u, s) : \A i, k \in {h \in From(u, s) : h < j} : i = k
  BY <1>1 DEF AtMostGreeted
<1> QED
  BY <1>1, <1>2, <1>3, <1>4 DEF InSession, Unbroken, NoneGone, Greeted

\* A packet, or the DISCONNECTED, after a CONNECTED and no DISCONNECTED.
LEMMA TellOn ==
    ASSUME NEW t, NEW u, NEW s, NEW z, NEW p, Grows(t, u, s, z, p),
           p.kind \in {"DATA", "DISCONNECTED"},
           InSession(t, s), NoneGone(t, s), Greeted(t, s)
    PROVE  InSession(u, s) /\ Greeted(u, s)
<1>1. /\ From(u, s) = From(t, s) \cup {z} /\ u[z] = p /\ ~ (z < z)
      /\ \A i \in From(t, s) : u[i] = t[i] /\ i < z /\ ~ (z < i)
  BY DEF Grows
<1>2. \A j \in From(t, s) : {i \in From(u, s) : i < j} = {i \in From(t, s) : i < j}
  BY <1>1
<1>3. {i \in From(u, s) : i < z} = From(t, s)
  BY <1>1
<1>4. ASSUME NEW j \in From(u, s)
      PROVE  LET before == {i \in From(u, s) : i < j} IN
               \/ /\ u[j].kind = "CONNECTED"
                  /\ \A i, k \in before : u[i].kind = "CONNECTED" /\ i = k
               \/ /\ u[j].kind \in {"DATA", "DISCONNECTED"}
                  /\ before # {}
                  /\ \A i \in before : u[i].kind # "DISCONNECTED"
  <2>1. CASE j = z
    BY <1>1, <1>3, <2>1 DEF NoneGone, Greeted
  <2>2. CASE j # z
    <3>1. j \in From(t, s)
      BY <1>1, <2>2
    <3> QED
      BY <1>1, <1>2, <3>1 DEF InSession
  <2> QED
    BY <2>1, <2>2
<1>5. InSession(u, s)
  BY <1>4 DEF InSession
<1> QED
  BY <1>1, <1>5 DEF Greeted

\* The next packet, after the ones before it, or once more the one that is next.
LEMMA TellData ==
    ASSUME NEW t, NEW u, NEW s, NEW z, NEW p, Grows(t, u, s, z, p),
           NEW m \in Nat, p.kind = "DATA", p.n = m + 1,
           InSession(t, s), NoneGone(t, s), Greeted(t, s),
           Unbroken(t, s), UpTo(t, s, m + 1), m = 0 \/ Holds(t, s, m),
           Holds(t, s, m + 1) => NoneTwice(t, s)
    PROVE  /\ InSession(u, s) /\ Greeted(u, s) /\ NoneGone(u, s)
           /\ Unbroken(u, s) /\ UpTo(u, s, m + 1)
<1>1. /\ From(u, s) = From(t, s) \cup {z} /\ u[z] = p /\ ~ (z < z)
      /\ \A i \in From(t, s) : u[i] = t[i] /\ i < z /\ ~ (z < i) /\ ~ (i < i)
  BY DEF Grows
<1>2. PICK q : q = m + 1
  OBVIOUS
<1>3. q - 1 = m /\ q <= q /\ (m = 0 => q = 1)
  BY <1>2, SMT
<1>4. /\ DataFrom(u, s) = DataFrom(t, s) \cup {z}
      /\ \A i \in DataFrom(t, s) : u[i] = t[i] /\ i < z /\ ~ (z < i) /\ ~ (i < i)
      /\ u[z].n = q /\ ~ (z < z)
  BY <1>1, <1>2 DEF DataFrom
<1>5. /\ UpTo(t, s, q) /\ (Holds(t, s, q) => NoneTwice(t, s))
      /\ m = 0 \/ Holds(t, s, m)
  BY <1>2
<1>6. UpTo(u, s, q)
  BY <1>3, <1>4, <1>5 DEF UpTo
<1>7. \A j \in DataFrom(u, s) :
        u[j].n = 1 \/ \E i \in DataFrom(u, s) : i < j /\ u[i].n = u[j].n - 1
  <2>1. ASSUME NEW j \in DataFrom(t, s)
        PROVE  u[j].n = 1 \/ \E i \in DataFrom(u, s) : i < j /\ u[i].n = u[j].n - 1
    <3>1. t[j].n = 1 \/ \E i \in DataFrom(t, s) : i < j /\ t[i].n = t[j].n - 1
      BY DEF Unbroken
    <3> QED
      BY <1>4, <3>1
  <2>2. u[z].n = 1 \/ \E i \in DataFrom(u, s) : i < z /\ u[i].n = u[z].n - 1
    <3>1. m = 0 \/ \E i \in DataFrom(t, s) : t[i].n = m
      BY <1>5 DEF Holds
    <3> QED
      BY <1>3, <1>4, <3>1
  <2> QED
    BY <1>4, <2>1, <2>2
<1>8. \A i, j \in DataFrom(u, s) : i < j => u[i].n <= u[j].n
  <2>1. \A i, j \in DataFrom(t, s) : i < j => t[i].n <= t[j].n
    BY DEF Unbroken
  <2>2. \A i \in DataFrom(t, s) : t[i].n <= q
    BY <1>5 DEF UpTo
  <2> QED
    BY <1>4, <2>1, <2>2
<1>9. ASSUME NEW i \in DataFrom(u, s), NEW j \in DataFrom(u, s),
             NEW k \in DataFrom(u, s), NEW l \in DataFrom(u, s),
             i < j, u[i].n = u[j].n, k < l, u[k].n = u[l].n
      PROVE  i = k /\ j = l
  <2>1. /\ i \in DataFrom(t, s) /\ k \in DataFrom(t, s)
        /\ u[i] = t[i] /\ u[k] = t[k]
    BY <1>4, <1>9
  <2>2. CASE j = z \/ l = z
    <3>1. Holds(t, s, q)
      BY <1>4, <1>9, <2>1, <2>2 DEF Holds
    <3>2. \A a, b \in DataFrom(t, s) : t[a].n = t[b].n => a = b
      BY <1>5, <3>1 DEF NoneTwice
    <3>3. j = z /\ l = z
      <4>1. ASSUME j # z PROVE FALSE
        BY <1>4, <1>9, <2>1, <3>2, <4>1
      <4>2. ASSUME l # z PROVE FALSE
        BY <1>4, <1>9, <2>1, <3>2, <4>2
      <4> QED
        BY <4>1, <4>2
    <3> QED
      BY <1>4, <1>9, <2>1, <3>2, <3>3
  <2>3. CASE j # z /\ l # z
    <3>1. /\ j \in DataFrom(t, s) /\ l \in DataFrom(t, s)
          /\ u[j] = t[j] /\ u[l] = t[l]
      BY <1>4, <2>3
    <3> QED
      BY <1>9, <2>1, <3>1 DEF Unbroken
  <2> QED
    BY <2>2, <2>3
<1>10. Unbroken(u, s)
  BY <1>7, <1>8, <1>9 DEF Unbroken
<1>11. NoneGone(u, s)
  BY <1>1 DEF NoneGone
<1>12. InSession(u, s) /\ Greeted(u, s)
  BY TellOn
<1> QED
  BY <1>2, <1>6, <1>10, <1>11, <1>12

\* The end of a session.
LEMMA TellGone ==
    ASSUME NEW t, NEW u, NEW s, NEW z, NEW p, Grows(t, u, s, z, p),
           NEW m, p.kind = "DISCONNECTED",
           InSession(t, s), NoneGone(t, s), Greeted(t, s),
           Unbroken(t, s), UpTo(t, s, m)
    PROVE  InSession(u, s) /\ Greeted(u, s) /\ Unbroken(u, s) /\ UpTo(u, s, m)
<1>1. /\ From(u, s) = From(t, s) \cup {z} /\ u[z] = p
      /\ \A i \in From(t, s) : u[i] = t[i] /\ i < z
  BY DEF Grows
<1>2. DataFrom(u, s) = DataFrom(t, s) /\ \A i \in DataFrom(t, s) : u[i] = t[i]
  BY <1>1 DEF DataFrom
<1>3. Unbroken(u, s) /\ UpTo(u, s, m)
  BY <1>2 DEF Unbroken, UpTo
<1> QED
  BY <1>3, TellOn

\* A client that has been told nothing of s is told that it is there, and of its
\* first k packets.
LEMMA Replayed ==
    ASSUME NEW t \in Seq(Packet), NEW w \in Seq(Packet), NEW s \in Client,
           NEW k \in Nat, From(t, s) = {},
           Len(w) = k + 1, w[1] = Pkt("CONNECTED", s, 0),
           \A i \in 1 .. k : w[i + 1] = Data(s, i)
    PROVE  LET u == t \o w IN
             /\ InSession(u, s) /\ Unbroken(u, s) /\ UpTo(u, s, k)
             /\ NoneGone(u, s) /\ NoneTwice(u, s) /\ Greeted(u, s)
             /\ k = 0 => AtMostGreeted(u, s)
<1> DEFINE u == t \o w
<1> DEFINE z == Len(t) + 1
<1>1. /\ DOMAIN t = 1 .. Len(t) /\ Len(t) \in Nat
      /\ DOMAIN u = 1 .. Len(t) + (k + 1)
      /\ \A i \in 1 .. Len(t) + (k + 1) :
           u[i] = IF i <= Len(t) THEN t[i] ELSE w[i - Len(t)]
  BY SMTT(30)
<1>2. z \in Nat /\ z + k = Len(t) + (k + 1)
  BY <1>1, SMT
<1> HIDE DEF u
<1>3. \A i \in 1 .. Len(t) : t[i].from # s
  BY <1>1 DEF From
<1>4. /\ Pkt("CONNECTED", s, 0).kind = "CONNECTED" /\ Pkt("CONNECTED", s, 0).from = s
      /\ \A i \in 1 .. k : /\ Data(s, i).kind = "DATA" /\ Data(s, i).from = s
                           /\ Data(s, i).n = i
  BY PktFields, SMT DEF Data, Kind
<1>5. u[z] = w[1]
  <2>1. z \in 1 .. Len(t) + (k + 1) /\ ~ (z <= Len(t)) /\ z - Len(t) = 1
    BY <1>1, SMT
  <2> QED
    BY <1>1, <2>1
<1>6. ASSUME NEW i \in z + 1 .. z + k
      PROVE  u[i] = Data(s, i - z) /\ i - z \in 1 .. k
  <2>1. /\ i \in 1 .. Len(t) + (k + 1) /\ ~ (i <= Len(t))
        /\ i - z \in 1 .. k /\ (i - z) + 1 = i - Len(t)
    BY <1>1, <1>6, SMT
  <2>2. u[i] = w[i - Len(t)]
    BY <1>1, <2>1
  <2>3. w[(i - z) + 1] = Data(s, i - z)
    BY <2>1
  <2> QED
    BY <2>1, <2>2, <2>3
<1>7. From(u, s) = {z} \cup (z + 1 .. z + k)
  <2>1. ASSUME NEW i \in From(u, s)
        PROVE  i \in {z} \cup (z + 1 .. z + k)
    <3>1. i \in 1 .. Len(t) + (k + 1) /\ u[i].from = s
      BY <1>1 DEF From
    <3>2. ~ (i <= Len(t))
      <4>1. i <= Len(t) => i \in 1 .. Len(t) /\ u[i] = t[i]
        BY <1>1, <3>1, SMT
      <4> QED
        BY <1>3, <3>1, <4>1
    <3> QED
      BY <1>1, <3>1, <3>2, SMTT(30)
  <2>2. z \in DOMAIN u /\ \A i \in z + 1 .. z + k : i \in DOMAIN u
    BY <1>1, SMT
  <2>3. z \in From(u, s)
    BY <1>4, <1>5, <2>2 DEF From
  <2>4. \A i \in z + 1 .. z + k : i \in From(u, s)
    <3> TAKE i \in z + 1 .. z + k
    <3> DEFINE m == i - z
    <3>1. u[i] = Data(s, m) /\ m \in 1 .. k /\ i \in DOMAIN u
      BY <1>6, <2>2
    <3> HIDE DEF m
    <3> QED
      BY <1>4, <3>1 DEF From
  <2> QED
    BY <2>1, <2>3, <2>4
<1>8. u[z].kind = "CONNECTED"
  BY <1>4, <1>5
<1>9. \A i \in z + 1 .. z + k : u[i].kind = "DATA" /\ u[i].n = i - z /\ i - z \in 1 .. k
  <2> TAKE i \in z + 1 .. z + k
  <2> DEFINE m == i - z
  <2>1. u[i] = Data(s, m) /\ m \in 1 .. k
    BY <1>6
  <2> HIDE DEF m
  <2>2. u[i].kind = "DATA" /\ u[i].n = m
    BY <1>4, <2>1
  <2> QED
    BY <2>1, <2>2 DEF m
<1>10. DataFrom(u, s) = z + 1 .. z + k
  BY <1>7, <1>8, <1>9 DEF DataFrom
<1> HIDE DEF z
<1>11. InSession(u, s)
  <2>1. {i \in From(u, s) : i < z} = {}
    BY <1>2, <1>7, SMT
  <2>2. \A j \in z + 1 .. z + k : z \in {i \in From(u, s) : i < j}
    BY <1>2, <1>7, SMT
  <2> QED
    BY <1>7, <1>8, <1>9, <2>1, <2>2 DEF InSession
<1>12. Unbroken(u, s)
  <2>1. ASSUME NEW j \in z + 1 .. z + k, j - z # 1
        PROVE  \E i \in z + 1 .. z + k : i < j /\ u[i].n = u[j].n - 1
    <3>1. j - 1 \in z + 1 .. z + k /\ j - 1 < j /\ (j - 1) - z = (j - z) - 1
      BY <1>2, <2>1, SMT
    <3> QED
      BY <1>9, <3>1
  <2>2. \A i, j \in z + 1 .. z + k : i < j => i - z <= j - z /\ i - z # j - z
    BY <1>2, SMT
  <2>3. \A j \in DataFrom(u, s) :
          u[j].n = 1 \/ \E i \in DataFrom(u, s) : i < j /\ u[i].n = u[j].n - 1
    BY <1>9, <1>10, <2>1
  <2>4. \A i, j \in DataFrom(u, s) : i < j => u[i].n <= u[j].n /\ u[i].n # u[j].n
    BY SMTT(30), <1>9, <1>10, <2>2
  <2> QED
    BY <2>3, <2>4 DEF Unbroken
<1>13. UpTo(u, s, k)
  <2>1. \A i \in 1 .. k : i <= k
    BY SMT
  <2> QED
    BY <1>9, <1>10, <2>1 DEF UpTo
<1>14. NoneTwice(u, s)
  <2>1. \A i, j \in z + 1 .. z + k : i - z = j - z => i = j
    BY <1>2, SMT
  <2> QED
    BY <1>9, <1>10, <2>1 DEF NoneTwice
<1>15. NoneGone(u, s) /\ Greeted(u, s)
  BY <1>7, <1>8, <1>9 DEF NoneGone, Greeted
<1>16. k = 0 => AtMostGreeted(u, s)
  <2>1. z + 1 .. z + 0 = {}
    BY <1>2, SMT
  <2> QED
    BY <1>7, <1>8, <2>1 DEF AtMostGreeted
<1> QED
  BY <1>11, <1>12, <1>13, <1>14, <1>15, <1>16 DEF u

\* What a client has been told are packets.
LEMMA ToldType ==
    ASSUME Typed, NEW c \in Client
    PROVE  Told(c) \in Seq(Packet)
<1>1. PICK q \in Seq(Packet) : q = out[c]
  BY DEF Typed, TypeNetwork
<1>2. PICK r \in Seq(Packet) : r = sbuffer[c]
  BY DEF Typed, TypeBuffers
<1>3. q \o r \in Seq(Packet)
  BY SMT
<1> QED
  BY <1>1, <1>2, <1>3 DEF Told

\* How many packets are kept is a number.
LEMMA KeptType ==
    ASSUME Typed, NEW s \in Client
    PROVE  Kept(s) \in Nat /\ relayed[s] \in Nat /\ relayed[s] <= Kept(s)
<1>1. relayed[s] \in Nat
  BY DEF Typed, TypeReading
<1> QED
  BY <1>1, SMT DEF Kept

\* A step that, as far as c and s go, changes little.
LEMMA PairStep ==
    ASSUME Typed, Typed', NEW c \in Client, NEW s \in Client, PairInv(c, s),
           Part(Told(c), Told(c)', s), Kept(s) <= Kept(s)',
           Fresh(c, s)' => Fresh(c, s),
           Unknown(c, s)' => Unknown(c, s),
           Gone(c, s) => Gone(c, s)',
           Ahead(c, s)' => \/ Ahead(c, s) /\ relayed'[s] = relayed[s]
                           \/ Kept(s) <= relayed'[s],
           Introduced(c, s)' => Introduced(c, s) /\ Part(Told(c)', Told(c), s)
    PROVE  PairInv(c, s)'
<1> DEFINE t == Told(c)
           u == Told(c)'
<1>1. /\ t \in Seq(Packet) /\ Kept(s) \in Nat
      /\ Kept(s)' \in Nat /\ relayed'[s] \in Nat
  <2>1. relayed'[s] \in Nat
    BY DEF Typed, TypeReading
  <2>2. Kept(s)' \in Nat
    BY <2>1, SMT DEF Kept
  <2> QED
    BY <2>1, <2>2, ToldType, KeptType DEF t
<1> HIDE DEF t, u
<1>2. /\ Part(t, u, s)
      /\ InSession(t, s) /\ Unbroken(t, s) /\ UpTo(t, s, Kept(s))
      /\ Fresh(c, s) => From(t, s) = {}
      /\ Unknown(c, s) => AtMostGreeted(t, s)
      /\ ~ Gone(c, s) => NoneGone(t, s)
      /\ Ahead(c, s) /\ Holds(t, s, relayed[s] + 1) => NoneTwice(t, s)
      /\ Introduced(c, s) => Met(c, s)
  BY DEF PairInv, t, u
<1>3. InSession(u, s) /\ Unbroken(u, s) /\ UpTo(u, s, Kept(s))
  BY <1>2, PartStory
<1>4. UpTo(u, s, Kept(s)')
  <2>1. ASSUME NEW i \in DataFrom(t, s)
        PROVE  t[i].n \in Nat
    <3>1. i \in DOMAIN t
      BY DEF DataFrom, From
    <3>2. t[i] \in Packet
      BY <1>1, <3>1, SMT
    <3> QED
      BY <3>2 DEF Packet
  <2>2. ASSUME NEW i \in DataFrom(u, s)
        PROVE  u[i].n <= Kept(s)'
    <3>1. i \in DataFrom(t, s) /\ u[i] = t[i]
      BY <1>2 DEF Part, DataFrom
    <3>2. t[i].n \in Nat /\ t[i].n <= Kept(s)
      BY <1>2, <2>1, <3>1 DEF UpTo
    <3> QED
      BY <1>1, <3>1, <3>2, SMT
  <2> QED
    BY <2>2 DEF UpTo
<1>5. Fresh(c, s)' => From(u, s) = {}
  BY <1>2, PartStory
<1>6. Unknown(c, s)' => AtMostGreeted(u, s)
  BY <1>2, PartStory
<1>7. ~ Gone(c, s)' => NoneGone(u, s)
  BY <1>2, PartStory
<1>8. Ahead(c, s)' /\ Holds(u, s, relayed'[s] + 1) => NoneTwice(u, s)
  <2> SUFFICES ASSUME Ahead(c, s)', Holds(u, s, relayed'[s] + 1)
               PROVE  NoneTwice(u, s)
    OBVIOUS
  <2>1. CASE Ahead(c, s) /\ relayed'[s] = relayed[s]
    BY <1>2, <2>1, PartStory
  <2>2. CASE Kept(s) <= relayed'[s]
    <3>1. PICK i \in DataFrom(u, s) : u[i].n = relayed'[s] + 1
      BY DEF Holds
    <3>2. u[i].n <= Kept(s)
      BY <1>3 DEF UpTo
    <3> QED
      BY <1>1, <2>2, <3>1, <3>2, SMT
  <2> QED
    BY <2>1, <2>2
<1>9. Introduced(c, s)' => Met(c, s)'
  <2> SUFFICES ASSUME Introduced(c, s)'
               PROVE  \E i \in From(u, s) : u[i].kind = "CONNECTED"
    BY DEF Met, u
  <2>1. Part(u, t, s) /\ \E i \in From(t, s) : t[i].kind = "CONNECTED"
    BY <1>2 DEF Met, t, u
  <2> QED
    BY <2>1 DEF Part
<1> QED
  BY <1>3, <1>4, <1>5, <1>6, <1>7, <1>8, <1>9 DEF PairInv, u

\* What is told is a part of itself.
LEMMA PartSame ==
    ASSUME NEW t, NEW u, NEW s, u = t
    PROVE  Part(t, u, s) /\ Part(u, t, s)
BY DEF Part

\* What is said of s is unchanged by what follows of others, ...
LEMMA PartMore ==
    ASSUME NEW t \in Seq(Packet), NEW w \in Seq(Packet), NEW s,
           \A i \in DOMAIN w : w[i].from # s
    PROVE  Part(t, t \o w, s) /\ Part(t \o w, t, s)
<1>1. PICK u : u = t \o w
  OBVIOUS
<1>2. From(u, s) = From(t, s) /\ \A i \in From(t, s) : u[i] = t[i]
  BY <1>1, FromConcat, ZenonT(60)
<1>3. Part(t, u, s) /\ Part(u, t, s)
  BY <1>2 DEF Part
<1> QED
  BY <1>1, <1>3

\* ... and what comes first is a part of all.
LEMMA PartPrefix ==
    ASSUME NEW t \in Seq(Packet), NEW w \in Seq(Packet), NEW s
    PROVE  Part(t \o w, t, s)
<1>1. /\ DOMAIN t = 1 .. Len(t) /\ Len(t) \in Nat /\ Len(w) \in Nat
      /\ DOMAIN (t \o w) = 1 .. Len(t) + Len(w)
      /\ \A i \in 1 .. Len(t) : (t \o w)[i] = t[i]
  BY SMT
<1>2. /\ \A i \in 1 .. Len(t) : i \in 1 .. Len(t) + Len(w)
      /\ \A i \in 1 .. Len(t), j \in 1 .. Len(t) + Len(w) : j < i => j \in 1 .. Len(t)
  BY <1>1, SMT
<1> QED
  BY <1>1, <1>2 DEF Part, From

\* The newcomer is not in the list before it is linked, and who is in the list
\* has got its replay.
LEMMA NotFresh ==
    ASSUME IInv, RelayInv, NEW c \in Listed, NEW s
    PROVE  /\ c \in Client /\ ~ Fresh(c, s)
           /\ pc[Main] \in {"register", "replay"} => c # New
<1>1. c \in Client
  BY ListedType
<1>2. pc[c] = "none" => pc[Main] = "spawn" /\ c = New
  BY DEF RelayInv, ListedInv
<1>3. c >= clientCount => pc[c] = "none"
  BY <1>1 DEF IInv, NewInv
<1>4. pc[Main] \in {"register", "replay"} => pc[New] = "none"
  BY DEF IInv, NewInv
<1>5. pc[Main] = "spawn" => clientCount > 0
  BY DEF IInv, NewInv
<1>6. pc[Main] = "spawn" /\ c = New => ~ (c >= clientCount)
  <2>1. clientCount \in Nat
    BY ThreadFacts, SMT DEF IInv, Typed, TypeShared
  <2> QED
    BY <2>1, SMT DEF New
<1> QED
  BY <1>1, <1>2, <1>3, <1>4, <1>6 DEF Fresh

\* A step of a thread, or of its peer, that concerns reading and sending only.
LEMMA SessionFrame ==
    ASSUME IInv, IInv', RelayInv, SessionInv, NEW c \in Client,
           UNCHANGED <<clients, clientCount, relayed, hbuffer, todo, hand>>,
           \/ pc' = pc
           \/ /\ pc[c] \in {"select", "cut", "send", "flush"}
              /\ \E l \in {"select", "cut", "send", "flush"} :
                   pc' = [pc EXCEPT ![c] = l],
           \A d \in Client : reset[d] => reset'[d],
           \A d \in Client : ~ reset'[d] => Told(d)' = Told(d)
    PROVE  SessionInv'
<1> DEFINE Local == {"select", "cut", "send", "flush"}
<1>1. /\ pc'[Main] = pc[Main]
      /\ \A t \in Thread : pc'[t] = pc[t] \/ (t = c /\ pc[t] \in Local /\ pc'[t] \in Local)
  BY ThreadFacts DEF IInv, Typed, TypeControl
<1>2. Listed' = Listed /\ New' = New
  BY DEF Listed, New
<1>3. Client \subseteq Thread
  BY ThreadFacts
<1>4. \A s \in Client :
        pc'[s] = pc[s] \/ (pc[s] \in Local /\ pc'[s] \in Local)
  BY <1>1, <1>3
<1>5. WalkInv'
  BY <1>1, <1>2, <1>4 DEF SessionInv, WalkInv, Walking, Announcing
<1>6. \A s \in Client : Kept(s)' = Kept(s)
  BY <1>4 DEF Kept, Announcing
<1>7. KeptInv'
  BY <1>4, <1>6 DEF SessionInv, KeptInv, Data, Pkt
<1>8. ASSUME NEW a \in Client, NEW s \in Client, a # s, ~ reset'[a]
      PROVE  PairInv(a, s)'
  <2>1. PairInv(a, s) /\ Told(a)' = Told(a)
    BY <1>8 DEF SessionInv
  <2>2. Ahead(a, s)' = Ahead(a, s)
    BY <1>4 DEF Ahead, Left
  <2>3. Unknown(a, s)' = Unknown(a, s) /\ Gone(a, s)' = Gone(a, s)
    BY <1>4, <2>2 DEF Unknown, Gone
  <2>4. Fresh(a, s)' = Fresh(a, s)
    BY <1>1, <1>2 DEF Fresh
  <2>5. Introduced(a, s)' = Introduced(a, s)
    BY <1>1, <1>2, <2>3, <2>4 DEF Introduced
  <2>6. Part(Told(a), Told(a)', s) /\ Part(Told(a)', Told(a), s)
    BY <2>1, PartSame
  <2>7. Kept(s) <= Kept(s)'
    BY <1>6, KeptType, SMT DEF IInv
  <2> QED
    BY <2>1, <2>2, <2>3, <2>4, <2>5, <2>6, <2>7, PairStep DEF IInv
<1> QED
  BY <1>5, <1>7, <1>8 DEF SessionInv

LEMMA OtherSession ==
    ASSUME IInv, IInv', RelayInv, SessionInv, NEW c \in Client,
           \/ Read(c) \/ CutDone(c) \/ SelectPipe(c) \/ SendLock(c) \/ SendKilled(c)
           \/ PeerSend(c) \/ PeerClose(c)
    PROVE  SessionInv'
<1>1. /\ UNCHANGED <<clients, clientCount, relayed, hbuffer, sbuffer, out, todo, hand>>
      /\ \A d \in Client : reset[d] => reset'[d]
  BY SMTT(30) DEF Read, CutDone, SelectPipe, SendLock, SendKilled, PeerSend, PeerClose, shared,
         buffers, reading, network, IInv, Typed, TypeNetwork
<1>2. \/ pc' = pc
      \/ /\ pc[c] \in {"select", "cut", "send", "flush"}
         /\ \E l \in {"select", "cut", "send", "flush"} : pc' = [pc EXCEPT ![c] = l]
  BY DEF Read, CutDone, SelectPipe, SendLock, SendKilled, PeerSend, PeerClose, Goto
<1>3. \A d \in Client : Told(d)' = Told(d)
  BY <1>1 DEF Told
<1> QED
  BY <1>1, <1>2, <1>3, SessionFrame

LEMMA SendAllSession ==
    ASSUME IInv, IInv', RelayInv, SessionInv, NEW c \in Client, SendAll(c)
    PROVE  SessionInv'
<1>1. /\ pc[c] = "flush" /\ pc' = [pc EXCEPT ![c] = "select"]
      /\ UNCHANGED <<clients, clientCount, relayed, hbuffer, todo, hand>>
      /\ \A d \in Client \ {c} : out'[d] = out[d] /\ sbuffer'[d] = sbuffer[d]
                                 /\ reset'[d] = reset[d]
      /\ reset[c] => reset'[c]
  BY DEF SendAll, Goto, IInv, Typed, TypeBuffers, TypeNetwork, shared, reading
<1>2. ASSUME ~ reset'[c]
      PROVE  Told(c)' = Told(c)
  <2>1. PICK q \in Seq(Packet) : q = Told(c)
    BY ToldType DEF IInv
  <2>2. out'[c] = q /\ sbuffer'[c] = <<>>
    BY <1>1, <1>2, <2>1
    DEF SendAll, Told, IInv, Typed, TypeBuffers, TypeNetwork
  <2>3. q \o <<>> = q
    BY SMT
  <2> QED
    BY <2>1, <2>2, <2>3 DEF Told
<1>3. \A d \in Client : reset[d] => reset'[d]
  BY <1>1
<1>4. \A d \in Client : ~ reset'[d] => Told(d)' = Told(d)
  BY <1>1, <1>2 DEF Told
<1> QED
  BY <1>1, <1>3, <1>4, SessionFrame

LEMMA AcceptSession ==
    ASSUME IInv, IInv', RelayInv, SessionInv, Accept
    PROVE  SessionInv'
<1>1. PICK n \in Client : n = clientCount /\ clientCount \in Nat
  BY ThreadFacts, SMT DEF Accept, IInv, Typed, TypeShared
<1>2. pc[n] = "none" /\ n \notin Listed
  <2>1. pc[n] = "none"
    <3>1. n >= clientCount
      BY <1>1, ThreadFacts, SMT
    <3> QED
      BY <3>1 DEF IInv, NewInv
  <2> QED
    BY <2>1 DEF Accept, RelayInv, ListedInv
<1>3. /\ pc[Main] = "accept" /\ pc'[Main] = "register"
      /\ \A d \in Client : pc'[d] = pc[d]
      /\ \A d \in Client \ {n} : sbuffer'[d] = sbuffer[d]
      /\ sbuffer'[n] = <<Pkt("HANDSHAKE", n, 0)>> /\ clientCount' = n + 1
      /\ UNCHANGED <<clients, relayed, hbuffer, todo, hand, out, reset>>
  BY <1>1, ThreadFacts
  DEF Accept, Goto, IInv, Typed, TypeControl, TypeBuffers, reading, network
<1>4. Listed' = Listed /\ New' = n
  BY <1>1, <1>3, SMT DEF Listed, New
<1>5. \A t \in Thread : pc'[t] \in Walking => t \in Client /\ pc'[t] = pc[t]
  <2>1. \A t \in Thread : t = Main \/ t \in Client
    BY SMT, ServerConstants DEF ServerConstants, Thread, Main, Client
  <2> QED
    BY <1>3, <2>1 DEF Walking
<1>6. WalkInv'
  BY <1>3, <1>4, <1>5 DEF SessionInv, WalkInv, Announcing
<1>7. \A s \in Client : Kept(s)' = Kept(s)
  BY <1>3 DEF Kept, Announcing
<1>8. KeptInv'
  BY <1>3, <1>7 DEF SessionInv, KeptInv, Data, Pkt
<1>9. ASSUME NEW a \in Client, NEW s \in Client, a # s, ~ reset'[a]
      PROVE  PairInv(a, s)'
  <2>1. PairInv(a, s)
    BY <1>3, <1>9 DEF SessionInv
  <2>2. Ahead(a, s)' = Ahead(a, s)
    BY <1>3 DEF Ahead, Left
  <2>3. Unknown(a, s)' = Unknown(a, s) /\ Gone(a, s)' = Gone(a, s)
    BY <1>3, <2>2 DEF Unknown, Gone
  <2>4. Kept(s) <= Kept(s)'
    BY <1>7, KeptType, SMT DEF IInv
  <2>5. Fresh(a, s)' => Fresh(a, s)
    <3>1. a >= n + 1 => a >= n
      BY <1>1, SMT DEF Client
    <3>2. n >= n
      BY <1>1, SMT
    <3> QED
      BY <1>1, <1>3, <1>4, <3>1, <3>2 DEF Fresh
  <2>6. Introduced(a, s)' => Introduced(a, s) /\ a # n
    BY <1>2, <1>3, <1>4, <2>3 DEF Introduced
  <2>7. CASE a # n
    <3>1. Told(a)' = Told(a)
      BY <1>3, <2>7 DEF Told
    <3>2. Part(Told(a), Told(a)', s) /\ Part(Told(a)', Told(a), s)
      BY <3>1, PartSame
    <3> QED
      BY <1>3, <2>1, <2>2, <2>3, <2>4, <2>5, <2>6, <3>2, PairStep DEF IInv
  <2>8. CASE a = n
    <3>1. PICK q \in Seq(Packet), r \in Seq(Packet) : q = out[n] /\ r = sbuffer[n]
      BY DEF IInv, Typed, TypeBuffers, TypeNetwork
    <3>2. PICK p \in Packet : p = Pkt("HANDSHAKE", n, 0) /\ p.from = n
      BY PktFields DEF Kind
    <3>3. PICK one \in Seq(Packet) : one = <<p>> /\ \A i \in DOMAIN one : one[i].from # s
      <4>1. <<p>> \in Seq(Packet) /\ \A i \in DOMAIN <<p>> : <<p>>[i] = p
        BY SMT
      <4> QED
        BY <1>9, <2>8, <3>2, <4>1
    <3>4. Told(n) = q \o r /\ Told(n)' = q \o one
      BY <1>3, <3>1, <3>2, <3>3 DEF Told
    <3>5. Part(Told(n), q, s)
      BY <3>4, PartPrefix
    <3>6. Part(q, Told(n)', s)
      BY <3>3, <3>4, PartMore
    <3>7. Part(Told(n), Told(n)', s)
      BY <3>5, <3>6 DEF Part
    <3> QED
      BY SMTT(30), <1>3, <2>1, <2>2, <2>3, <2>4, <2>5, <2>6, <2>8, <3>7, PairStep DEF IInv
  <2> QED
    BY <2>7, <2>8
<1> QED
  BY <1>6, <1>8, <1>9 DEF SessionInv

LEMMA RegisterLockSession ==
    ASSUME IInv, IInv', RelayInv, SessionInv, RegisterLock
    PROVE  SessionInv'
<1>1. /\ pc[Main] = "register" /\ pc'[Main] = "replay" /\ todo'[Main] = clients
      /\ \A t \in Thread \ {Main} : pc'[t] = pc[t] /\ todo'[t] = todo[t]
      /\ \A d \in Client : pc'[d] = pc[d] /\ todo'[d] = todo[d]
      /\ UNCHANGED <<clients, clientCount, relayed, hbuffer, sbuffer, hand, out, reset>>
  BY ThreadFacts
  DEF RegisterLock, Goto, IInv, Typed, TypeControl, buffers, reading, network
<1>2. Listed' = Listed /\ New' = New /\ ToSet(todo[Main])' = Listed
  BY <1>1 DEF Listed, New
<1>3. WalkInv'
  <2>1. ASSUME NEW t \in Thread, pc'[t] \in Walking
        PROVE  Distinct(todo'[t]) /\ ToSet(todo'[t]) \subseteq Listed
    <3>1. CASE t = Main
      BY <1>1, <3>1 DEF RelayInv, ListedInv, Distinct, Listed
    <3>2. CASE t # Main
      BY <1>1, <2>1, <3>2 DEF SessionInv, WalkInv
    <3> QED
      BY <3>1, <3>2
  <2> QED
    BY <1>1, <1>2, <2>1 DEF SessionInv, WalkInv, Announcing, ToSet, Distinct
<1>4. \A s \in Client : Kept(s)' = Kept(s)
  BY <1>1 DEF Kept, Announcing
<1>5. KeptInv'
  BY <1>1, <1>4 DEF SessionInv, KeptInv, Data, Pkt
<1>6. ASSUME NEW a \in Client, NEW s \in Client, a # s, ~ reset'[a]
      PROVE  PairInv(a, s)'
  <2>1. PairInv(a, s) /\ Told(a)' = Told(a)
    BY <1>1, <1>6 DEF SessionInv, Told
  <2>2. Ahead(a, s)' = Ahead(a, s)
    BY <1>1 DEF Ahead, Left
  <2>3. Unknown(a, s)' = Unknown(a, s) /\ Gone(a, s)' = Gone(a, s)
    BY <1>1, <2>2 DEF Unknown, Gone
  <2>4. Kept(s) <= Kept(s)'
    BY <1>4, KeptType, SMT DEF IInv
  <2>5. Fresh(a, s)' => Fresh(a, s)
    BY <1>1, <1>2 DEF Fresh
  <2>6. Introduced(a, s)' => Introduced(a, s)
    <3>1. s \in Listed /\ a = New => Fresh(a, s)'
      BY <1>1, <1>2 DEF Fresh
    <3> QED
      BY <1>1, <1>2, <2>3, <3>1 DEF Introduced
  <2>7. Part(Told(a), Told(a)', s) /\ Part(Told(a)', Told(a), s)
    BY <2>1, PartSame
  <2> QED
    BY <1>1, <2>1, <2>2, <2>3, <2>4, <2>5, <2>6, <2>7, PairStep DEF IInv
<1> QED
  BY <1>3, <1>5, <1>6 DEF SessionInv

LEMMA SpawnSession ==
    ASSUME IInv, IInv', RelayInv, SessionInv, Spawn
    PROVE  SessionInv'
<1>1. PICK n \in Client : n = New
  BY NewType DEF Spawn, IInv, Typed
<1>2. /\ pc[Main] = "spawn" /\ pc'[Main] = "accept"
      /\ pc[n] = "none" /\ pc'[n] = "lock"
      /\ \A t \in Thread \ {n, Main} : pc'[t] = pc[t]
      /\ \A d \in Client \ {n} : pc'[d] = pc[d]
      /\ UNCHANGED <<clients, clientCount, relayed, hbuffer, sbuffer, hand, out, reset, todo>>
  BY <1>1, ThreadFacts
  DEF Spawn, IInv, NewInv, Typed, TypeControl, shared, buffers, reading, network
<1>3. Listed' = Listed /\ New' = New /\ n \in Listed
  BY <1>1, <1>2 DEF Listed, New, SessionInv, WalkInv
<1>4. hand[n] = "CONNECTED" /\ relayed[n] = 0
  BY <1>2 DEF RelayInv, HistInv
<1>5. WalkInv'
  <2>1. \A t \in Thread : pc'[t] \in Walking => pc'[t] = pc[t]
    BY <1>2 DEF Walking
  <2> QED
    BY <1>2, <1>3, <1>4, <2>1 DEF SessionInv, WalkInv, Announcing
<1>6. \A s \in Client : Kept(s)' = Kept(s)
  BY <1>2, <1>4 DEF Kept, Announcing
<1>7. KeptInv'
  BY <1>2, <1>6 DEF SessionInv, KeptInv, Data, Pkt
<1>8. ASSUME NEW a \in Client, NEW s \in Client, a # s, ~ reset'[a]
      PROVE  PairInv(a, s)'
  <2>1. PairInv(a, s) /\ Told(a)' = Told(a)
    BY <1>2, <1>8 DEF SessionInv, Told
  <2>2. Ahead(a, s)' = Ahead(a, s)
    BY <1>2 DEF Ahead, Left
  <2>3. Unknown(a, s)' = Unknown(a, s) /\ Gone(a, s)' = Gone(a, s)
    BY <1>2, <1>4, <2>2 DEF Unknown, Gone
  <2>4. Kept(s) <= Kept(s)'
    BY <1>6, KeptType, SMT DEF IInv
  <2>5. Fresh(a, s)' => Fresh(a, s)
    BY <1>2, <1>3 DEF Fresh
  <2>6. Introduced(a, s)' => Introduced(a, s)
    BY <1>2, <1>3, <2>3 DEF Introduced
  <2>7. Part(Told(a), Told(a)', s) /\ Part(Told(a)', Told(a), s)
    BY <2>1, PartSame
  <2> QED
    BY <1>2, <2>1, <2>2, <2>3, <2>4, <2>5, <2>6, <2>7, PairStep DEF IInv
<1> QED
  BY <1>5, <1>7, <1>8 DEF SessionInv

LEMMA RegisterLinkSession ==
    ASSUME IInv, IInv', RelayInv, SessionInv, RegisterLink
    PROVE  SessionInv'
<1>1. PICK n \in Client : n = New
  BY NewType DEF RegisterLink, IInv, Typed
<1>2. /\ pc[Main] = "replay" /\ todo[Main] = <<>> /\ clients' = <<n>> \o clients
      /\ pc'[Main] = "spawn" /\ \A d \in Client : pc'[d] = pc[d]
      /\ UNCHANGED <<clientCount, relayed, hbuffer, sbuffer, hand, out, reset, todo>>
  BY <1>1, ThreadFacts
  DEF RegisterLink, Goto, IInv, Typed, TypeControl, buffers, reading, network
<1>3. pc[n] = "none" /\ hand[n] = "CONNECTED"
  BY <1>1, <1>2 DEF IInv, NewInv, RelayInv, HistInv
<1>4. Listed' = {n} \cup Listed /\ New' = n
  <2> DEFINE one == <<n>>
  <2>1. one \in Seq(Client) /\ ToSet(one) = {n}
    BY SetOfOne
  <2> HIDE DEF one
  <2>2. clients \in Seq(Client)
    BY DEF IInv, Typed, TypeShared
  <2>3. ToSet(one \o clients) = ToSet(one) \cup ToSet(clients)
    BY <2>1, <2>2, SetOfConcat
  <2> QED
    BY <1>1, <1>2, <2>1, <2>3 DEF Listed, New, one
<1>5. \A t \in Thread : pc'[t] \notin Walking
  <2>1. \A t \in Thread : t = Main \/ t \in Client
    BY SMT, ServerConstants DEF ServerConstants, Thread, Main, Client
  <2> QED
    BY <1>2, <2>1, OneWalk DEF Walking, IInv, NewInv
<1>6. WalkInv'
  BY <1>2, <1>4, <1>5 DEF SessionInv, WalkInv, Announcing
<1>7. \A s \in Client : Kept(s)' = Kept(s)
  BY <1>2 DEF Kept, Announcing
<1>8. KeptInv'
  BY <1>2, <1>7 DEF SessionInv, KeptInv, Data, Pkt
<1>9. ASSUME NEW a \in Client, NEW s \in Client, a # s, ~ reset'[a]
      PROVE  PairInv(a, s)'
  <2>1. PairInv(a, s) /\ Told(a)' = Told(a)
    BY <1>2, <1>9 DEF SessionInv, Told
  <2>2. Ahead(a, s)' = Ahead(a, s)
    BY <1>2 DEF Ahead, Left
  <2>3. Unknown(a, s)' = Unknown(a, s) /\ Gone(a, s)' = Gone(a, s)
    BY <1>2, <2>2 DEF Unknown, Gone
  <2>4. Kept(s) <= Kept(s)'
    BY <1>7, KeptType, SMT DEF IInv
  <2>5. Fresh(a, s)' => Fresh(a, s)
    BY <1>2 DEF Fresh
  <2>6. Introduced(a, s)' => Introduced(a, s)
    <3> SUFFICES ASSUME Introduced(a, s)'
                 PROVE  Introduced(a, s)
      OBVIOUS
    <3>1. s \in Listed' /\ a \in Listed' /\ ~ Unknown(a, s)
      BY <1>2, <2>3 DEF Introduced
    <3>2. Unknown(a, n)
      BY <1>3 DEF Unknown, Ahead
    <3>3. s \in Listed
      BY <1>4, <3>1, <3>2
    <3>4. CASE a = n
      <4>1. ~ (a >= clientCount)
        <5>1. clientCount \in Nat /\ clientCount > 0
          BY <1>2, ThreadFacts, SMT DEF IInv, NewInv, Typed, TypeShared
        <5> QED
          BY <1>1, <3>4, <5>1, SMT DEF New
      <4>2. ~ Fresh(a, s)
        BY <1>2, <4>1, SetOfEmpty DEF Fresh
      <4> QED
        BY <1>1, <1>2, <3>3, <3>4, <4>2 DEF Introduced
    <3>5. CASE a # n
      BY <1>4, <3>1, <3>3, <3>5 DEF Introduced
    <3> QED
      BY <3>4, <3>5
  <2>7. Part(Told(a), Told(a)', s) /\ Part(Told(a)', Told(a), s)
    BY <2>1, PartSame
  <2> QED
    BY <1>2, <2>1, <2>2, <2>3, <2>4, <2>5, <2>6, <2>7, PairStep DEF IInv
<1> QED
  BY <1>6, <1>8, <1>9 DEF SessionInv

\* What is left of a walk that meets each client once.
LEMMA TailDistinct ==
    ASSUME NEW S, NEW q \in Seq(S), q # <<>>, Distinct(q)
    PROVE  Distinct(Tail(q)) /\ Head(q) \notin ToSet(Tail(q))
<1>1. /\ DOMAIN q = 1 .. Len(q) /\ Len(q) \in Nat /\ Len(q) >= 1
      /\ DOMAIN Tail(q) = 1 .. Len(q) - 1
      /\ \A i \in 1 .. Len(q) - 1 : Tail(q)[i] = q[i + 1]
      /\ Head(q) = q[1]
  BY SMT
<1>2. /\ \A i \in 1 .. Len(q) - 1 : i + 1 \in 1 .. Len(q) /\ i + 1 # 1
      /\ \A i, j \in 1 .. Len(q) - 1 : i + 1 = j + 1 => i = j
      /\ 1 \in 1 .. Len(q)
  BY <1>1, SMT
<1>3. Distinct(Tail(q))
  BY <1>1, <1>2 DEF Distinct
<1>4. \A i \in 1 .. Len(q) - 1 : Tail(q)[i] # Head(q)
  BY <1>1, <1>2 DEF Distinct
<1> QED
  BY <1>1, <1>3, <1>4 DEF ToSet

\* A step of the walk of s over the list that shortens it by its head.
LEMMA WalkOn ==
    ASSUME IInv, SessionInv, NEW t \in Thread, pc[t] \in Walking, todo[t] # <<>>
    PROVE  /\ Head(todo[t]) \in Listed /\ Distinct(Tail(todo[t]))
           /\ ToSet(Tail(todo[t])) \subseteq Listed
           /\ ToSet(todo[t]) = {Head(todo[t])} \cup ToSet(Tail(todo[t]))
           /\ Head(todo[t]) \notin ToSet(Tail(todo[t]))
<1>1. todo[t] \in Seq(Client)
  BY DEF IInv, Typed, TypeControl
<1>2. Distinct(todo[t]) /\ ToSet(todo[t]) \subseteq Listed
  BY DEF SessionInv, WalkInv
<1>3. ToSet(todo[t]) = {Head(todo[t])} \cup ToSet(Tail(todo[t]))
  BY <1>1, SetOfTail
<1>4. Distinct(Tail(todo[t])) /\ Head(todo[t]) \notin ToSet(Tail(todo[t]))
  BY <1>1, <1>2, TailDistinct
<1> QED
  BY <1>2, <1>3, <1>4

LEMMA RegisterReplaySession ==
    ASSUME IInv, IInv', RelayInv, SessionInv, RegisterReplay
    PROVE  SessionInv'
<1>1. PICK n \in Client : n = New
  BY NewType DEF RegisterReplay, IInv, Typed
<1>2. PICK d \in Client : d = Head(todo[Main])
  BY TodoType, ThreadFacts DEF RegisterReplay, IInv, Typed
<1>3. /\ pc[Main] = "replay" /\ todo[Main] # <<>> /\ todo'[Main] = Tail(todo[Main])
      /\ sbuffer'[n] = (sbuffer[n] \o <<Pkt("CONNECTED", d, 0)>>) \o hbuffer[d]
      /\ \A a \in Client : todo'[a] = todo[a] /\ (a # n => sbuffer'[a] = sbuffer[a])
      /\ \A t \in Thread \ {Main} : todo'[t] = todo[t]
      /\ UNCHANGED <<pc, clients, clientCount, relayed, hbuffer, hand, out, reset>>
  BY ZenonT(60), <1>1, <1>2, ThreadFacts
  DEF RegisterReplay, IInv, Typed, TypeControl, TypeBuffers, shared, reading, network
<1>4. Listed' = Listed /\ New' = New
  BY <1>3 DEF Listed, New
<1>5. /\ d \in Listed /\ Distinct(todo[Main])' /\ ToSet(todo[Main])' \subseteq Listed
      /\ ToSet(todo[Main]) = {d} \cup ToSet(todo[Main])'
      /\ d \notin ToSet(todo[Main])'
  <2>1. Main \in Thread /\ pc[Main] \in Walking
    BY <1>3, ThreadFacts DEF Walking
  <2> QED
    BY <1>2, <1>3, <2>1, WalkOn
<1>6. d # n /\ pc[d] # "done"
  BY <1>1, <1>3, <1>5, NotFresh DEF RelayInv, ListedInv
<1>7. WalkInv'
  <2>1. ASSUME NEW t \in Thread, pc'[t] \in Walking
        PROVE  (Distinct(todo[t]) /\ ToSet(todo[t]) \subseteq Listed)'
    <3>1. CASE t = Main
      BY <1>4, <1>5, <3>1
    <3>2. CASE t # Main
      BY <1>3, <1>4, <2>1, <3>2 DEF SessionInv, WalkInv
    <3> QED
      BY <3>1, <3>2
  <2> QED
    BY <1>3, <1>4, <2>1 DEF SessionInv, WalkInv, Announcing
<1>8. \A s \in Client : Kept(s)' = Kept(s)
  BY <1>3 DEF Kept, Announcing
<1>9. KeptInv'
  BY <1>3, <1>8 DEF SessionInv, KeptInv, Data, Pkt
<1>10. PICK w \in Seq(Packet) :
         /\ w = <<Pkt("CONNECTED", d, 0)>> \o hbuffer[d]
         /\ Len(w) = Kept(d) + 1 /\ w[1] = Pkt("CONNECTED", d, 0)
         /\ \A i \in 1 .. Kept(d) : w[i + 1] = Data(d, i)
         /\ Told(n)' = Told(n) \o w
  <2>1. PICK p \in Packet : p = Pkt("CONNECTED", d, 0)
    BY PktType DEF Kind
  <2>2. PICK q \in Seq(Packet), r \in Seq(Packet), h \in Seq(Packet) :
          q = out[n] /\ r = sbuffer[n] /\ h = hbuffer[d]
    BY DEF IInv, Typed, TypeBuffers, TypeNetwork
  <2>3. /\ <<p>> \o h \in Seq(Packet) /\ Len(<<p>> \o h) = Len(h) + 1
        /\ (<<p>> \o h)[1] = p
        /\ \A i \in 1 .. Len(h) : (<<p>> \o h)[i + 1] = h[i]
    BY SMT
  <2>4. q \o ((r \o <<p>>) \o h) = (q \o r) \o (<<p>> \o h)
    BY SMTT(30)
  <2>5. Len(h) = Kept(d) /\ \A i \in 1 .. Kept(d) : h[i] = Data(d, i)
    BY SMTT(30), <1>6, <2>2 DEF SessionInv, KeptInv
  <2>6. Told(n)' = (q \o r) \o (<<p>> \o h) /\ Told(n) = q \o r
    BY <1>3, <2>1, <2>2, <2>4 DEF Told
  <2> QED
    BY <2>1, <2>2, <2>3, <2>5, <2>6
<1>11. ~ (n >= clientCount)
  <2>1. clientCount \in Nat /\ clientCount > 0
    BY <1>3, ThreadFacts, SMT DEF IInv, NewInv, Typed, TypeShared
  <2> QED
    BY <1>1, <2>1, SMT DEF New
<1>12. ~ reset[n] => PairInv(n, d)'
  <2> SUFFICES ASSUME ~ reset[n] PROVE PairInv(n, d)'
    OBVIOUS
  <2> DEFINE u == Told(n)'
  <2>1. From(Told(n), d) = {}
    <3>1. Fresh(n, d)
      BY <1>1, <1>3, <1>5 DEF Fresh
    <3> QED
      BY <1>6, <3>1 DEF SessionInv, PairInv
  <2>2. Told(n) \in Seq(Packet) /\ Kept(d) \in Nat
    BY ToldType, KeptType DEF IInv
  <2>3. u = Told(n) \o w
    BY <1>10
  <2> HIDE DEF u
  <2>4. /\ InSession(u, d) /\ Unbroken(u, d) /\ UpTo(u, d, Kept(d))
        /\ NoneGone(u, d) /\ NoneTwice(u, d) /\ Greeted(u, d)
        /\ Kept(d) = 0 => AtMostGreeted(u, d)
    BY <1>10, <2>1, <2>2, <2>3, Replayed
  <2>5. Kept(d)' = Kept(d)
    BY <1>8
  <2>6. ~ Fresh(n, d)'
    BY <1>3, <1>4, <1>5, <1>11 DEF Fresh
  <2>7. Unknown(n, d)' => Kept(d) = 0
    <3>1. Unknown(n, d)' => hand[d] = "CONNECTED" /\ pc[d] \in {"none", "lock", "cast", "notify"}
      BY <1>3 DEF Unknown, Ahead
    <3>2. Unknown(n, d)' => relayed[d] = 0
      BY <3>1 DEF RelayInv, HistInv, SessionInv, WalkInv, Announcing
    <3> QED
      BY <3>1, <3>2, SMT DEF Kept
  <2> QED
    BY <2>4, <2>5, <2>6, <2>7 DEF PairInv, u, Met, Greeted
<1>13. ASSUME NEW a \in Client, NEW s \in Client, a # s, ~ reset'[a], a # n \/ s # d
       PROVE  PairInv(a, s)'
  <2>1. PairInv(a, s)
    BY <1>3, <1>13 DEF SessionInv
  <2>2. Ahead(a, s)' = Ahead(a, s)
    BY <1>3 DEF Ahead, Left
  <2>3. Unknown(a, s)' = Unknown(a, s) /\ Gone(a, s)' = Gone(a, s)
    BY <1>3, <2>2 DEF Unknown, Gone
  <2>4. Kept(s) <= Kept(s)'
    BY <1>8, KeptType, SMT DEF IInv
  <2>5. Fresh(a, s)' => Fresh(a, s)
    BY <1>3, <1>4, <1>5 DEF Fresh
  <2>6. Introduced(a, s)' => Introduced(a, s)
    <3>1. a = New => Fresh(a, s)' = Fresh(a, s)
      BY <1>1, <1>3, <1>4, <1>5, <1>13 DEF Fresh
    <3> QED
      BY <1>3, <1>4, <2>3, <3>1 DEF Introduced
  <2>7. Part(Told(a), Told(a)', s) /\ Part(Told(a)', Told(a), s)
    <3>1. CASE a # n
      <4>1. Told(a)' = Told(a)
        BY <1>3, <3>1 DEF Told
      <4> QED
        BY SMTT(30), <4>1, PartSame
    <3>2. CASE a = n
      <4>1. \A i \in DOMAIN w : w[i].from # s
        <5>1. DOMAIN w = 1 .. Kept(d) + 1 /\ Kept(d) \in Nat
          BY <1>10, KeptType, SMT DEF IInv
        <5>2. \A i \in 1 .. Kept(d) + 1 : i = 1 \/ (i - 1 \in 1 .. Kept(d) /\ (i - 1) + 1 = i)
          BY <5>1, SMT
        <5>3. Pkt("CONNECTED", d, 0).from = d /\ \A i \in 1 .. Kept(d) : Data(d, i).from = d
          BY DEF Pkt, Data
        <5> QED
          BY <1>10, <1>13, <3>2, <5>1, <5>2, <5>3
      <4>2. Told(n) \in Seq(Packet)
        BY ToldType DEF IInv
      <4> QED
        BY <1>10, <3>2, <4>1, <4>2, PartMore
    <3> QED
      BY <3>1, <3>2
  <2> QED
    BY <1>3, <2>1, <2>2, <2>3, <2>4, <2>5, <2>6, <2>7, PairStep DEF IInv
<1> QED
  BY <1>3, <1>7, <1>9, <1>12, <1>13 DEF SessionInv

LEMMA BroadcastLockSession ==
    ASSUME IInv, IInv', RelayInv, SessionInv, NEW c \in Client, BroadcastLock(c)
    PROVE  SessionInv'
<1>1. /\ pc[c] = "lock" /\ pc'[c] = "cast" /\ todo'[c] = clients
      /\ \A t \in Thread \ {c} : pc'[t] = pc[t] /\ todo'[t] = todo[t]
      /\ UNCHANGED <<clients, clientCount, relayed, hbuffer, sbuffer, hand, out, reset>>
  BY ThreadFacts
  DEF BroadcastLock, Goto, IInv, Typed, TypeControl, buffers, reading, network
<1>2. Listed' = Listed /\ New' = New /\ ToSet(todo[c])' = Listed
  BY <1>1 DEF Listed, New
<1>3. /\ pc'[Main] = pc[Main] /\ todo'[Main] = todo[Main] /\ pc[Main] # "replay"
      /\ \A s \in Client \ {c} : pc'[s] = pc[s] /\ todo'[s] = todo[s]
  BY <1>1, ThreadFacts DEF BroadcastLock, IInv, MutexInv
<1>4. WalkInv'
  <2>1. ASSUME NEW t \in Thread, pc'[t] \in Walking
        PROVE  (Distinct(todo[t]) /\ ToSet(todo[t]) \subseteq Listed)'
    <3>1. CASE t = c
      BY <1>1, <1>2, <3>1 DEF RelayInv, ListedInv, Distinct
    <3>2. CASE t # c
      BY <1>1, <1>2, <2>1, <3>2 DEF SessionInv, WalkInv
    <3> QED
      BY <3>1, <3>2
  <2> QED
    BY <1>1, <1>2, <1>3, <2>1 DEF SessionInv, WalkInv, Announcing
<1>5. \A s \in Client : Kept(s)' = Kept(s)
  BY <1>1, <1>3 DEF Kept, Announcing
<1>6. KeptInv'
  BY <1>1, <1>3, <1>5 DEF SessionInv, KeptInv, Data, Pkt
<1>7. ASSUME NEW a \in Client, NEW s \in Client, a # s, ~ reset'[a]
      PROVE  PairInv(a, s)'
  <2>1. PairInv(a, s) /\ Told(a)' = Told(a)
    BY <1>1, <1>7 DEF SessionInv, Told
  <2>2. Ahead(a, s)' => Ahead(a, s)
    BY <1>1, <1>3 DEF Ahead, Left
  <2>3. Unknown(a, s)' => Unknown(a, s)
    BY <1>1, <2>2 DEF Unknown
  <2>4. Gone(a, s) => Gone(a, s)'
    <3>1. s # c => Ahead(a, s)' = Ahead(a, s)
      BY <1>3 DEF Ahead, Left
    <3> QED
      BY <1>1, <1>3, <3>1 DEF Gone
  <2>5. Fresh(a, s)' => Fresh(a, s)
    BY <1>1, <1>2, <1>3 DEF Fresh
  <2>6. Introduced(a, s)' => Introduced(a, s)
    <3>1. a \in Listed => Unknown(a, s)' = Unknown(a, s)
      BY <1>1, <1>2, <1>3 DEF Unknown, Ahead, Left
    <3> QED
      BY <1>2, <1>3, <3>1 DEF Introduced
  <2>7. Part(Told(a), Told(a)', s) /\ Part(Told(a)', Told(a), s)
    BY <2>1, PartSame
  <2>8. Kept(s) <= Kept(s)'
    BY <1>5, KeptType, SMT DEF IInv
  <2> QED
    BY <1>1, <2>1, <2>2, <2>3, <2>4, <2>5, <2>6, <2>7, <2>8, PairStep DEF IInv
<1> QED
  BY <1>4, <1>6, <1>7 DEF SessionInv

\* A step of the walk of c that tells nobody anything.
LEMMA WalkSession ==
    ASSUME IInv, IInv', RelayInv, SessionInv, NEW c \in Client,
           pc[c] \in {"cast", "notify"}, pc'[c] = "cast",
           todo[c] # <<>>, todo'[c] = Tail(todo[c]),
           \A t \in Thread \ {c} : pc'[t] = pc[t] /\ todo'[t] = todo[t],
           UNCHANGED <<clients, clientCount, relayed, hbuffer, sbuffer, hand, out, reset>>,
           \A d \in Client \ {c} : d \in Left(c) <=> d \in Left(c)'
    PROVE  SessionInv'
<1>1. Listed' = Listed /\ New' = New
  BY DEF Listed, New
<1>2. /\ pc'[Main] = pc[Main] /\ todo'[Main] = todo[Main]
      /\ \A s \in Client \ {c} : pc'[s] = pc[s] /\ todo'[s] = todo[s]
  BY ThreadFacts
<1>3. WalkInv'
  <2>1. ASSUME NEW t \in Thread, pc'[t] \in Walking
        PROVE  (Distinct(todo[t]) /\ ToSet(todo[t]) \subseteq Listed)'
    <3>1. CASE t = c
      BY <1>1, <3>1, WalkOn DEF Walking
    <3>2. CASE t # c
      BY <1>1, <2>1, <3>2 DEF SessionInv, WalkInv
    <3> QED
      BY <3>1, <3>2
  <2> QED
    BY <1>1, <1>2, <2>1 DEF SessionInv, WalkInv, Announcing
<1>4. \A s \in Client : Kept(s)' = Kept(s)
  BY <1>2 DEF Kept, Announcing
<1>5. KeptInv'
  BY <1>2, <1>4 DEF SessionInv, KeptInv, Data, Pkt
<1>6. ASSUME NEW a \in Client, NEW s \in Client, a # s, ~ reset'[a]
      PROVE  PairInv(a, s)'
  <2>1. PairInv(a, s) /\ Told(a)' = Told(a)
    BY <1>6 DEF SessionInv, Told
  <2>2. Ahead(a, s)' = Ahead(a, s)
    <3>1. CASE s = c
      BY <1>6, <3>1 DEF Ahead
    <3>2. CASE s # c
      BY <1>2, <3>2 DEF Ahead, Left
    <3> QED
      BY <3>1, <3>2
  <2>3. Unknown(a, s)' = Unknown(a, s) /\ Gone(a, s)' = Gone(a, s)
    BY <1>2, <2>2 DEF Unknown, Gone
  <2>4. Fresh(a, s)' = Fresh(a, s)
    BY <1>1, <1>2 DEF Fresh
  <2>5. Introduced(a, s)' = Introduced(a, s)
    BY <1>1, <1>2, <2>3, <2>4 DEF Introduced
  <2>6. Part(Told(a), Told(a)', s) /\ Part(Told(a)', Told(a), s)
    BY <2>1, PartSame
  <2>7. Kept(s) <= Kept(s)'
    BY <1>4, KeptType, SMT DEF IInv
  <2> QED
    BY <2>1, <2>2, <2>3, <2>4, <2>5, <2>6, <2>7, PairStep DEF IInv
<1> QED
  BY <1>3, <1>5, <1>6 DEF SessionInv

LEMMA BroadcastSkipSession ==
    ASSUME IInv, IInv', RelayInv, SessionInv, NEW c \in Client, BroadcastSkip(c)
    PROVE  SessionInv'
<1>1. /\ pc[c] = "cast" /\ pc' = pc /\ todo[c] # <<>> /\ Head(todo[c]) = c
      /\ todo'[c] = Tail(todo[c])
      /\ \A t \in Thread \ {c} : todo'[t] = todo[t]
      /\ UNCHANGED <<clients, clientCount, relayed, hbuffer, sbuffer, hand, out, reset>>
  BY ThreadFacts
  DEF BroadcastSkip, IInv, Typed, TypeControl, shared, buffers, reading, network
<1>2. todo[c] \in Seq(Client)
  BY ThreadFacts DEF IInv, Typed, TypeControl
<1>3. ToSet(todo[c]) = {c} \cup ToSet(Tail(todo[c]))
  BY <1>1, <1>2, SetOfTail
<1>4. \A d \in Client \ {c} : d \in Left(c) <=> d \in Left(c)'
  BY <1>1, <1>3 DEF Left
<1> QED
  BY <1>1, <1>4, WalkSession

LEMMA BroadcastNotifySession ==
    ASSUME IInv, IInv', RelayInv, SessionInv, NEW c \in Client, BroadcastNotify(c)
    PROVE  SessionInv'
<1>1. /\ pc[c] = "notify" /\ pc'[c] = "cast" /\ todo'[c] = Tail(todo[c])
      /\ \A t \in Thread \ {c} : pc'[t] = pc[t] /\ todo'[t] = todo[t]
      /\ UNCHANGED <<clients, clientCount, relayed, hbuffer, sbuffer, hand, out, reset>>
  BY ThreadFacts
  DEF BroadcastNotify, Goto, IInv, Typed, TypeControl, shared, reading, network
<1>2. todo[c] # <<>>
  BY <1>1 DEF IInv, MutexInv
<1>3. Left(c)' = Left(c)
  BY <1>1 DEF Left
<1> QED
  BY <1>1, <1>2, <1>3, WalkSession

\* The broadcast reaches d: what d then has been told of c.
LEMMA Reached ==
    ASSUME IInv, RelayInv, SessionInv, NEW c \in Client, NEW d \in Listed, c # d,
           pc[c] = "cast", d \in Left(c), ~ reset[d],
           NEW u, u = Append(Told(d), InHand(c))
    PROVE  /\ InSession(u, c) /\ Unbroken(u, c) /\ UpTo(u, c, Kept(c)) /\ Greeted(u, c)
           /\ hand[c] # "DISCONNECTED" => NoneGone(u, c)
<1>1. d \in Client /\ c \in Listed
  BY ListedType DEF SessionInv, WalkInv
<1>2. PICK t \in Seq(Packet) : t = Told(d)
  BY <1>1, ToldType DEF IInv
<1>3. PICK p \in Packet : /\ p = InHand(c) /\ p.from = c /\ p.kind = hand[c]
                          /\ hand[c] = "DATA" => p.n = relayed[c] + 1
  <2>1. InHand(c) \in Packet
    BY InHandType DEF IInv, Typed
  <2> QED
    BY <2>1 DEF InHand, Pkt
<1>4. PICK z : Grows(t, u, c, z, p)
  BY <1>2, <1>3, AppendGrows
<1>5. /\ InSession(t, c) /\ Unbroken(t, c) /\ UpTo(t, c, Kept(c))
      /\ hand[c] = "CONNECTED" => AtMostGreeted(t, c)
      /\ NoneGone(t, c)
      /\ Holds(t, c, relayed[c] + 1) => NoneTwice(t, c)
      /\ hand[c] # "CONNECTED" => Greeted(t, c)
  <2>1. PairInv(d, c)
    BY <1>1 DEF SessionInv
  <2>2. Ahead(d, c)
    BY DEF Ahead
  <2>3. ~ Gone(d, c)
    BY <2>2 DEF Gone
  <2>4. hand[c] # "CONNECTED" => Introduced(d, c)
    BY <1>1 DEF Introduced, Unknown
  <2> QED
    BY <1>2, <2>1, <2>2, <2>3, <2>4 DEF PairInv, Unknown, Met, Greeted
<1>6. hand[c] \in {"CONNECTED", "DATA", "DISCONNECTED"}
  BY DEF IInv, Typed, TypeControl
<1>7. CASE hand[c] = "CONNECTED"
  <2>1. /\ InSession(u, c) /\ Unbroken(u, c) /\ NoneGone(u, c) /\ Greeted(u, c)
        /\ DataFrom(u, c) = {}
    BY <1>3, <1>4, <1>5, <1>7, TellConnected
  <2> QED
    BY <2>1 DEF UpTo
<1>8. CASE hand[c] = "DATA"
  <2>1. Kept(c) = relayed[c] + 1 /\ relayed[c] \in Nat
    BY <1>8, KeptType DEF Kept, Announcing, IInv
  <2>2. relayed[c] = 0 \/ Holds(t, c, relayed[c])
    <3>1. ASSUME relayed[c] # 0
          PROVE  Holds(t, c, relayed[c])
      <4>1. relayed[c] \in 1 .. relayed[c]
        BY <2>1, <3>1, SMT
      <4>2. Data(c, relayed[c]) \in InTold(d)
        BY <1>1, <4>1 DEF RelayInv, HeardInv, Knows
      <4>3. InTold(d) = ToSet(t)
        <5>1. out[d] \in Seq(Packet) /\ sbuffer[d] \in Seq(Packet)
          BY <1>1 DEF IInv, Typed, TypeBuffers, TypeNetwork
        <5> QED
          BY <1>2, <5>1, SetOfConcat DEF Told, InTold
      <4>4. PICK i \in DOMAIN t : t[i] = Data(c, relayed[c])
        BY <4>2, <4>3 DEF ToSet
      <4>5. i \in DataFrom(t, c) /\ t[i].n = relayed[c]
        BY <4>4 DEF DataFrom, From, Data, Pkt
      <4> QED
        BY <4>5 DEF Holds
    <3> QED
      BY <3>1
  <2>3. UpTo(t, c, relayed[c] + 1)
    BY <1>5, <2>1
  <2>4. /\ InSession(u, c) /\ Greeted(u, c) /\ NoneGone(u, c)
        /\ Unbroken(u, c) /\ UpTo(u, c, relayed[c] + 1)
    BY <1>3, <1>4, <1>5, <1>8, <2>1, <2>2, <2>3, TellData
  <2> QED
    BY <2>1, <2>4
<1>9. CASE hand[c] = "DISCONNECTED"
  BY <1>3, <1>4, <1>5, <1>9, TellGone
<1> QED
  BY <1>6, <1>7, <1>8, <1>9

LEMMA BroadcastAppendSession ==
    ASSUME IInv, IInv', RelayInv, SessionInv, NEW c \in Client, BroadcastAppend(c)
    PROVE  SessionInv'
<1>1. PICK d \in Client : d = Head(todo[c])
  BY TodoType, ThreadFacts DEF BroadcastAppend, IInv, Typed
<1>2. PICK p \in Packet : p = InHand(c) /\ p.from = c
  BY InHandType DEF IInv, Typed, InHand, Pkt
<1>3. /\ pc[c] = "cast" /\ pc'[c] = "notify" /\ todo[c] # <<>> /\ todo' = todo /\ d # c
      /\ \A t \in Thread \ {c} : pc'[t] = pc[t]
      /\ sbuffer'[d] = Append(sbuffer[d], p)
      /\ \A a \in Client \ {d} : sbuffer'[a] = sbuffer[a]
      /\ UNCHANGED <<clients, clientCount, relayed, hbuffer, hand, out, reset>>
  BY SMTT(30), <1>1, <1>2, ThreadFacts
  DEF BroadcastAppend, Goto, IInv, Typed, TypeControl, TypeBuffers, shared, reading,
      network
<1>4. Listed' = Listed /\ New' = New
  BY <1>3 DEF Listed, New
<1>5. /\ pc'[Main] = pc[Main]
      /\ \A s \in Client \ {c} : pc'[s] = pc[s]
  BY <1>3, ThreadFacts
<1>6. /\ d \in Listed /\ d \in Left(c) /\ d \notin Left(c)'
      /\ \A a : a # d => (a \in Left(c) <=> a \in Left(c)')
  <2>1. /\ d \in Listed /\ d \notin ToSet(Tail(todo[c]))
        /\ ToSet(todo[c]) = {d} \cup ToSet(Tail(todo[c]))
    BY <1>1, <1>3, ThreadFacts, WalkOn DEF Walking
  <2> QED
    BY <1>3, <2>1 DEF Left
<1>7. WalkInv'
  BY <1>3, <1>4, <1>5 DEF SessionInv, WalkInv, Walking, Announcing
<1>8. \A s \in Client : Kept(s)' = Kept(s)
  BY <1>3, <1>5 DEF Kept, Announcing
<1>9. KeptInv'
  BY <1>3, <1>5, <1>8 DEF SessionInv, KeptInv, Data, Pkt
<1>10. Told(d)' = Append(Told(d), p) /\ Told(d)' = Told(d) \o <<p>>
  <2>1. PICK q \in Seq(Packet), r \in Seq(Packet) : q = out[d] /\ r = sbuffer[d]
    BY DEF IInv, Typed, TypeBuffers, TypeNetwork
  <2>2. q \o Append(r, p) = Append(q \o r, p) /\ Append(q \o r, p) = (q \o r) \o <<p>>
    BY SMTT(30)
  <2> QED
    BY <1>3, <2>1, <2>2 DEF Told
<1>11. ~ reset[d] => PairInv(d, c)'
  <2> SUFFICES ASSUME ~ reset[d] PROVE PairInv(d, c)'
    OBVIOUS
  <2>1. PICK u : u = Told(d)'
    OBVIOUS
  <2>2. /\ InSession(u, c) /\ Unbroken(u, c) /\ UpTo(u, c, Kept(c)) /\ Greeted(u, c)
        /\ hand[c] # "DISCONNECTED" => NoneGone(u, c)
    BY <1>2, <1>3, <1>6, <1>10, <2>1, Reached
  <2>3. ~ Ahead(d, c)' /\ ~ Unknown(d, c)'
    BY <1>3, <1>6 DEF Ahead, Unknown
  <2>4. hand[c] = "DISCONNECTED" => Gone(d, c)'
    BY <1>3, <2>3 DEF Gone
  <2>5. ~ Fresh(d, c)'
    <3>1. ~ Fresh(d, c)
      BY <1>6, NotFresh
    <3> QED
      BY <1>3, <1>4, <1>5, <3>1 DEF Fresh
  <2> QED
    BY <1>8, <2>1, <2>2, <2>3, <2>4, <2>5 DEF PairInv, Met, Greeted
<1>12. ASSUME NEW a \in Client, NEW s \in Client, a # s, ~ reset'[a], a # d \/ s # c
       PROVE  PairInv(a, s)'
  <2>1. PairInv(a, s)
    BY <1>3, <1>12 DEF SessionInv
  <2>2. Ahead(a, s)' = Ahead(a, s)
    <3>1. CASE s = c
      BY <1>3, <1>6, <1>12, <3>1 DEF Ahead
    <3>2. CASE s # c
      BY <1>3, <1>5, <3>2 DEF Ahead, Left
    <3> QED
      BY <3>1, <3>2
  <2>3. Unknown(a, s)' = Unknown(a, s) /\ Gone(a, s)' = Gone(a, s)
    BY <1>3, <1>5, <2>2 DEF Unknown, Gone
  <2>4. Fresh(a, s)' = Fresh(a, s)
    BY <1>3, <1>4, <1>5 DEF Fresh
  <2>5. Introduced(a, s)' = Introduced(a, s)
    BY <1>4, <1>5, <2>3, <2>4 DEF Introduced
  <2>6. Part(Told(a), Told(a)', s) /\ Part(Told(a)', Told(a), s)
    <3>1. CASE a # d
      <4>1. Told(a)' = Told(a)
        BY <1>3, <3>1 DEF Told
      <4> QED
        BY <4>1, PartSame
    <3>2. CASE a = d
      <4>1. PICK one \in Seq(Packet) : one = <<p>> /\ \A i \in DOMAIN one : one[i].from # s
        <5>1. <<p>> \in Seq(Packet) /\ \A i \in DOMAIN <<p>> : <<p>>[i] = p
          BY SMT
        <5> QED
          BY <1>2, <1>12, <3>2, <5>1
      <4>2. Told(d) \in Seq(Packet)
        BY ToldType DEF IInv
      <4> QED
        BY <1>10, <3>2, <4>1, <4>2, PartMore
    <3> QED
      BY <3>1, <3>2
  <2>7. Kept(s) <= Kept(s)'
    BY <1>8, KeptType, SMT DEF IInv
  <2> QED
    BY <1>3, <2>1, <2>2, <2>3, <2>4, <2>5, <2>6, <2>7, PairStep DEF IInv
<1> QED
  BY <1>3, <1>7, <1>9, <1>11, <1>12 DEF SessionInv

LEMMA BroadcastUnlockSession ==
    ASSUME IInv, IInv', RelayInv, SessionInv, NEW c \in Client, BroadcastUnlock(c)
    PROVE  SessionInv'
<1>1. /\ pc[c] = "cast" /\ todo[c] = <<>>
      /\ \A t \in Thread \ {c} : pc'[t] = pc[t]
      /\ \A s \in Client \ {c} : relayed'[s] = relayed[s]
      /\ UNCHANGED <<clients, clientCount, hbuffer, sbuffer, hand, out, reset, todo>>
      /\ hand[c] \in {"CONNECTED", "DATA", "DISCONNECTED"} /\ relayed[c] \in Nat
  BY SMTT(30), ThreadFacts
  DEF BroadcastUnlock, Goto, buffers, network, IInv, Typed, TypeControl, TypeReading
<1>2. /\ hand[c] = "CONNECTED" => pc'[c] = "select" /\ relayed'[c] = relayed[c]
      /\ hand[c] = "DATA" => pc'[c] = "cut" /\ relayed'[c] = relayed[c] + 1
      /\ hand[c] = "DISCONNECTED" => pc'[c] = "shutdown" /\ relayed'[c] = relayed[c]
  BY ThreadFacts
  DEF BroadcastUnlock, Goto, IInv, Typed, TypeControl, TypeReading
<1>3. Listed' = Listed /\ New' = New
  BY <1>1 DEF Listed, New
<1>4. /\ pc'[Main] = pc[Main]
      /\ \A s \in Client \ {c} : pc'[s] = pc[s]
  BY <1>1, ThreadFacts
<1>5. WalkInv'
  <2>1. \A t \in Thread : pc'[t] \in Walking => pc'[t] = pc[t]
    BY <1>1, <1>2 DEF Walking
  <2> QED
    BY <1>1, <1>2, <1>3, <1>4, <2>1 DEF SessionInv, WalkInv, Announcing
<1>6. \A s \in Client : Kept(s)' = Kept(s)
  <2>1. Kept(c)' = Kept(c)
    BY <1>1, <1>2, SMT DEF Kept, Announcing
  <2> QED
    BY <1>1, <1>4, <2>1 DEF Kept
<1>7. KeptInv'
  BY <1>1, <1>4, <1>6 DEF SessionInv, KeptInv, Data, Pkt
<1>8. ASSUME NEW a \in Client, NEW s \in Client, a # s, ~ reset'[a]
      PROVE  PairInv(a, s)'
  <2>1. PairInv(a, s) /\ Told(a)' = Told(a)
    BY <1>1, <1>8 DEF SessionInv, Told
  <2>2. /\ Ahead(a, s)' <=> Ahead(a, s)
        /\ s = c => ~ Ahead(a, s)
    <3>1. s = c => ~ Ahead(a, s)
      BY <1>1, SetOfEmpty DEF Ahead, Left
    <3>2. s = c => ~ Ahead(a, s)'
      BY <1>1, <1>2 DEF Ahead
    <3>3. s # c => Ahead(a, s)' = Ahead(a, s)
      BY <1>1, <1>4 DEF Ahead, Left
    <3> QED
      BY <3>1, <3>2, <3>3
  <2>3. Unknown(a, s)' = Unknown(a, s) /\ (Gone(a, s) => Gone(a, s)')
    BY <1>1, <1>2, <1>4, <2>2 DEF Unknown, Gone
  <2>4. Fresh(a, s)' = Fresh(a, s)
    BY <1>1, <1>3, <1>4 DEF Fresh
  <2>5. Introduced(a, s)' = Introduced(a, s)
    BY <1>3, <1>4, <2>3, <2>4 DEF Introduced
  <2>6. Part(Told(a), Told(a)', s) /\ Part(Told(a)', Told(a), s)
    BY <2>1, PartSame
  <2>7. Kept(s) <= Kept(s)'
    BY <1>6, KeptType, SMT DEF IInv
  <2>8. Ahead(a, s)' => Ahead(a, s) /\ relayed'[s] = relayed[s]
    BY <1>1, <2>2
  <2> QED
    BY <2>1, <2>3, <2>4, <2>5, <2>6, <2>7, <2>8, PairStep DEF IInv
<1> QED
  BY <1>5, <1>7, <1>8 DEF SessionInv

LEMMA HandSession ==
    ASSUME IInv, IInv', RelayInv, SessionInv, NEW c \in Client, Cut(c) \/ ReadEnd(c)
    PROVE  SessionInv'
<1>1. /\ pc[c] \in {"cut", "select"} /\ pc'[c] = "lock"
      /\ hand'[c] \in {"DATA", "DISCONNECTED"}
      /\ \A t \in Thread \ {c} : pc'[t] = pc[t]
      /\ \A d \in Client \ {c} : hand'[d] = hand[d] /\ hbuffer'[d] = hbuffer[d]
      /\ UNCHANGED <<clients, clientCount, relayed, sbuffer, out, reset, todo>>
  BY SMTT(30), ThreadFacts
  DEF Cut, ReadEnd, Goto, IInv, Typed, TypeControl, TypeBuffers, shared, buffers,
      reading, network
<1>2. Listed' = Listed /\ New' = New
  BY <1>1 DEF Listed, New
<1>3. /\ pc'[Main] = pc[Main]
      /\ \A s \in Client \ {c} : pc'[s] = pc[s]
  BY <1>1, ThreadFacts
<1>4. WalkInv'
  <2>1. \A t \in Thread : pc'[t] \in Walking => pc'[t] = pc[t]
    BY <1>1 DEF Walking
  <2> QED
    BY <1>1, <1>2, <1>3, <2>1 DEF SessionInv, WalkInv, Announcing
<1>5. \A s \in Client \ {c} : Kept(s)' = Kept(s)
  BY <1>1, <1>3 DEF Kept
<1>6. Kept(c) = relayed[c] /\ relayed[c] \in Nat
  BY <1>1 DEF Kept, Announcing, IInv, Typed, TypeReading
<1>7. /\ Kept(c) <= Kept(c)' /\ Len(hbuffer'[c]) = Kept(c)'
      /\ \A i \in 1 .. Kept(c)' : hbuffer'[c][i] = Data(c, i)
  <2>1. PICK h \in Seq(Packet) : h = hbuffer[c]
    BY DEF IInv, Typed, TypeBuffers
  <2>2. Len(h) = relayed[c] /\ \A i \in 1 .. relayed[c] : h[i] = Data(c, i)
    BY <1>1, <1>6, <2>1 DEF SessionInv, KeptInv
  <2>3. CASE Cut(c)
    <3>1. PICK p \in Packet : p = Data(c, relayed[c] + 1)
      <4>1. relayed[c] + 1 \in Nat
        BY <1>6, SMT
      <4> QED
        BY <4>1, PktType DEF Kind, Data
    <3>2. hbuffer'[c] = Append(h, p) /\ hand'[c] = "DATA"
      BY <2>1, <2>3, <3>1 DEF Cut, IInv, Typed, TypeBuffers, TypeControl, Data
    <3>3. Kept(c)' = relayed[c] + 1
      BY <1>1, <3>2 DEF Kept, Announcing
    <3>4. /\ Len(Append(h, p)) = relayed[c] + 1 /\ Append(h, p)[relayed[c] + 1] = p
          /\ \A i \in 1 .. relayed[c] : Append(h, p)[i] = h[i]
          /\ \A i \in 1 .. relayed[c] + 1 : i \in 1 .. relayed[c] \/ i = relayed[c] + 1
          /\ relayed[c] <= relayed[c] + 1
      BY <1>6, <2>2, SMT
    <3> QED
      BY <1>6, <2>2, <3>1, <3>2, <3>3, <3>4
  <2>4. CASE ReadEnd(c)
    <3>1. hand'[c] = "DISCONNECTED" /\ hbuffer'[c] = h
      BY <2>1, <2>4 DEF ReadEnd, buffers, IInv, Typed, TypeControl
    <3>2. Kept(c)' = relayed[c]
      BY <1>1, <1>6, <3>1, SMT DEF Kept
    <3> QED
      BY <1>6, <2>2, <3>1, <3>2, SMT
  <2> QED
    BY <2>3, <2>4
<1>8. KeptInv'
  <2>1. ASSUME NEW s \in Client, pc'[s] # "done"
        PROVE  Len(hbuffer'[s]) = Kept(s)' /\ \A i \in 1 .. Kept(s)' : hbuffer'[s][i] = Data(s, i)
    <3>1. CASE s = c
      BY <1>7, <3>1
    <3>2. CASE s # c
      BY <1>1, <1>3, <1>5, <2>1, <3>2 DEF SessionInv, KeptInv
    <3> QED
      BY <3>1, <3>2
  <2> QED
    BY <2>1 DEF KeptInv, Data, Pkt
<1>9. ASSUME NEW a \in Client, NEW s \in Client, a # s, ~ reset'[a]
      PROVE  PairInv(a, s)'
  <2>1. PairInv(a, s) /\ Told(a)' = Told(a)
    BY <1>1, <1>9 DEF SessionInv, Told
  <2>2. Unknown(a, s)' = Unknown(a, s)
    BY <1>1, <1>3 DEF Unknown, Ahead, Left
  <2>3. Gone(a, s) => Gone(a, s)'
    BY <1>1, <1>3 DEF Gone, Ahead, Left
  <2>4. Fresh(a, s)' = Fresh(a, s)
    BY <1>1, <1>2, <1>3 DEF Fresh
  <2>5. Introduced(a, s)' = Introduced(a, s)
    BY <1>2, <1>3, <2>2, <2>4 DEF Introduced
  <2>6. Part(Told(a), Told(a)', s) /\ Part(Told(a)', Told(a), s)
    BY <2>1, PartSame
  <2>7. Kept(s) <= Kept(s)'
    <3>1. Kept(s) \in Nat
      BY KeptType DEF IInv
    <3>2. CASE s # c
      BY <1>5, <3>1, <3>2, SMT
    <3> QED
      BY <1>7, <3>2
  <2>8. Ahead(a, s)' => \/ Ahead(a, s) /\ relayed'[s] = relayed[s]
                        \/ Kept(s) <= relayed'[s]
    <3>1. CASE s = c
      BY <1>1, <1>6, <3>1, SMT
    <3>2. CASE s # c
      BY <1>1, <1>3, <3>2 DEF Ahead, Left
    <3> QED
      BY <3>1, <3>2
  <2> QED
    BY <2>1, <2>2, <2>3, <2>4, <2>5, <2>6, <2>7, <2>8, PairStep DEF IInv
<1> QED
  BY <1>4, <1>8, <1>9 DEF SessionInv

\* Dropping an element of a sequence drops no other.
LEMMA SpliceKeeps ==
    ASSUME NEW S, NEW q \in Seq(S), NEW i \in DOMAIN q
    PROVE  ToSet(q) \subseteq ToSet(RemoveAt(q, i)) \cup {q[i]}
<1>1. i \in 1 .. Len(q) /\ Len(q) \in Nat /\ DOMAIN q = 1 .. Len(q)
  BY LenProperties
<1>2. PICK front \in Seq(S) :
        front = SubSeq(q, 1, i - 1) /\ \A j \in 1 .. i - 1 : j \in DOMAIN front /\ front[j] = q[j]
  <2>1. /\ SubSeq(q, 1, i - 1) \in Seq(S)
        /\ \A j \in 1 .. i - 1 : j \in DOMAIN SubSeq(q, 1, i - 1) /\ SubSeq(q, 1, i - 1)[j] = q[j]
    BY <1>1, SMT
  <2> QED
    BY <2>1
<1>3. PICK back \in Seq(S) :
        /\ back = SubSeq(q, i + 1, Len(q))
        /\ \A j \in 1 .. Len(q) - i : j \in DOMAIN back /\ back[j] = q[i + j]
  <2>1. /\ SubSeq(q, i + 1, Len(q)) \in Seq(S)
        /\ \A j \in 1 .. Len(q) - i : /\ j \in DOMAIN SubSeq(q, i + 1, Len(q))
                                      /\ SubSeq(q, i + 1, Len(q))[j] = q[i + j]
    BY <1>1, SMTT(30)
  <2> QED
    BY <2>1
<1>4. ToSet(RemoveAt(q, i)) = ToSet(front) \cup ToSet(back)
  <2>1. RemoveAt(q, i) = front \o back
    BY <1>2, <1>3 DEF RemoveAt
  <2> QED
    BY <2>1, SetOfConcat
<1>5. ASSUME NEW j \in DOMAIN q, j # i
      PROVE  q[j] \in ToSet(front) \cup ToSet(back)
  <2>1. CASE j < i
    <3>1. j \in 1 .. i - 1
      BY <1>1, <2>1, SMT
    <3> QED
      BY <1>2, <3>1 DEF ToSet
  <2>2. CASE ~ (j < i)
    <3>1. j - i \in 1 .. Len(q) - i /\ i + (j - i) = j
      BY <1>1, <1>5, <2>2, SMT
    <3> QED
      BY <1>3, <3>1 DEF ToSet
  <2> QED
    BY <2>1, <2>2
<1> QED
  BY <1>4, <1>5 DEF ToSet

LEMMA ShutdownSession ==
    ASSUME IInv, IInv', RelayInv, SessionInv, NEW c \in Client, Shutdown(c)
    PROVE  SessionInv'
<1>1. PICK i \in DOMAIN clients : clients[i] = c /\ clients' = RemoveAt(clients, i)
  BY DEF Shutdown
<1>2. /\ pc[c] = "shutdown" /\ pc'[c] = "done" /\ ctxMutex = Nobody
      /\ \A t \in Thread \ {c} : pc'[t] = pc[t]
      /\ \A d \in Client \ {c} : sbuffer'[d] = sbuffer[d] /\ hbuffer'[d] = hbuffer[d]
      /\ sbuffer'[c] = <<>>
      /\ UNCHANGED <<clientCount, relayed, hand, out, reset, todo>>
  BY ThreadFacts
  DEF Shutdown, Goto, IInv, Typed, TypeControl, TypeBuffers, reading, network
<1>3. clients \in Seq(Client) /\ \A j, k \in DOMAIN clients : clients[j] = clients[k] => j = k
  BY DEF IInv, Typed, TypeShared, RelayInv, ListedInv
<1>4. Listed' = Listed \ {c} /\ New' = New
  <2>1. \A j \in DOMAIN clients' : clients'[j] # c
    BY <1>1, <1>3, SpliceInjective
  <2>2. \A j \in DOMAIN clients' : \E k \in DOMAIN clients : clients'[j] = clients[k]
    BY <1>1, <1>3, SpliceElements
  <2>3. Listed \subseteq Listed' \cup {c}
    BY <1>1, <1>3, SpliceKeeps DEF Listed
  <2>4. Listed' \subseteq Listed \ {c}
    BY <2>1, <2>2 DEF Listed, ToSet
  <2> QED
    BY <1>2, <2>3, <2>4 DEF New
<1>5. /\ pc'[Main] = pc[Main] /\ pc[Main] # "replay"
      /\ \A s \in Client \ {c} : pc'[s] = pc[s]
      /\ \A s \in Client : pc[s] \notin {"cast", "notify"}
  BY <1>2, ThreadFacts DEF IInv, MutexInv
<1>6. WalkInv'
  <2>1. \A t \in Thread : pc'[t] \notin Walking
    <3>1. \A t \in Thread : t = Main \/ t \in Client
      BY SMT, ServerConstants DEF ServerConstants, Thread, Main, Client
    <3>2. pc[Main] \notin Walking
      BY <1>5 DEF IInv, NewInv, Walking
    <3>3. \A s \in Client : pc[s] \notin Walking
      BY <1>5 DEF IInv, NewInv, Walking
    <3> QED
      BY <1>2, <1>5, <3>1, <3>2, <3>3 DEF Walking
  <2>2. pc[Main] = "spawn" => New # c
    BY <1>2 DEF IInv, NewInv
  <2> QED
    BY <1>2, <1>4, <1>5, <2>1, <2>2 DEF SessionInv, WalkInv, Announcing
<1>7. \A s \in Client : Kept(s)' = Kept(s)
  BY <1>2, <1>5 DEF Kept, Announcing
<1>8. KeptInv'
  BY <1>2, <1>5, <1>7 DEF SessionInv, KeptInv, Data, Pkt
<1>9. ASSUME NEW a \in Client, NEW s \in Client, a # s, ~ reset'[a]
      PROVE  PairInv(a, s)'
  <2>1. PairInv(a, s)
    BY <1>2, <1>9 DEF SessionInv
  <2>2. Ahead(a, s)' = Ahead(a, s)
    BY <1>2, <1>5 DEF Ahead, Left
  <2>3. Unknown(a, s)' = Unknown(a, s) /\ (Gone(a, s) => Gone(a, s)')
    BY <1>2, <1>5, <2>2 DEF Unknown, Gone
  <2>4. Fresh(a, s)' = Fresh(a, s)
    BY <1>2, <1>4, <1>5 DEF Fresh
  <2>5. Introduced(a, s)' => Introduced(a, s) /\ a # c
    BY <1>4, <1>5, <2>3, <2>4 DEF Introduced
  <2>6. Kept(s) <= Kept(s)'
    BY <1>7, KeptType, SMT DEF IInv
  <2>7. Part(Told(a), Told(a)', s) /\ (a # c => Part(Told(a)', Told(a), s))
    <3>1. CASE a # c
      <4>1. Told(a)' = Told(a)
        BY <1>2, <3>1 DEF Told
      <4> QED
        BY <4>1, PartSame
    <3>2. CASE a = c
      <4>1. PICK q \in Seq(Packet), r \in Seq(Packet) : q = out[c] /\ r = sbuffer[c]
        BY DEF IInv, Typed, TypeBuffers, TypeNetwork
      <4>2. q \o <<>> = q
        BY SMT
      <4>3. Told(c) = q \o r /\ Told(c)' = q
        BY <1>2, <4>1, <4>2 DEF Told
      <4> QED
        BY <3>2, <4>3, PartPrefix
    <3> QED
      BY <3>1, <3>2
  <2> QED
    BY <1>2, <2>1, <2>2, <2>3, <2>4, <2>5, <2>6, <2>7, PairStep DEF IInv
<1> QED
  BY <1>6, <1>8, <1>9 DEF SessionInv

LEMMA InitSession == Init => SessionInv
<1> SUFFICES ASSUME Init PROVE SessionInv
  OBVIOUS
<1>1. /\ \A s \in Client : /\ pc[s] = "none" /\ relayed[s] = 0 /\ hand[s] = "CONNECTED"
                           /\ hbuffer[s] = <<>> /\ out[s] = <<>> /\ sbuffer[s] = <<>>
      /\ pc[Main] = "accept" /\ \A t \in Thread : pc[t] \in {"accept", "none"}
      /\ Listed = {}
  BY ThreadFacts, SetOfEmpty DEF Init, Listed
<1>2. Len(<<>>) = 0 /\ 1 .. 0 = {} /\ DOMAIN (<<>> \o <<>>) = {}
  BY SMT
<1>3. WalkInv
  BY <1>1 DEF WalkInv, Walking, Announcing
<1>4. \A s \in Client : Kept(s) = 0
  BY <1>1, SMT DEF Kept, Announcing
<1>5. KeptInv
  BY <1>1, <1>2, <1>4 DEF KeptInv
<1>6. ASSUME NEW c \in Client, NEW s \in Client
      PROVE  PairInv(c, s)
  <2>1. From(Told(c), s) = {}
    BY <1>1, <1>2 DEF Told, From
  <2>2. DataFrom(Told(c), s) = {}
    BY <2>1 DEF DataFrom
  <2>3. InSession(Told(c), s) /\ AtMostGreeted(Told(c), s) /\ NoneGone(Told(c), s)
    BY <2>1 DEF InSession, AtMostGreeted, NoneGone
  <2>4. /\ Unbroken(Told(c), s) /\ UpTo(Told(c), s, Kept(s)) /\ NoneTwice(Told(c), s)
    BY <2>2 DEF Unbroken, UpTo, NoneTwice
  <2>5. ~ Introduced(c, s)
    BY <1>1 DEF Introduced
  <2> QED
    BY <2>1, <2>3, <2>4, <2>5 DEF PairInv
<1> QED
  BY <1>3, <1>5, <1>6 DEF SessionInv

LEMMA NextSession == IInv /\ RelayInv /\ SessionInv /\ [Next]_vars => SessionInv'
<1> SUFFICES ASSUME IInv, RelayInv, SessionInv, [Next]_vars PROVE SessionInv'
  OBVIOUS
<1>1. IInv'
  BY NextInv
<1>2. CASE Accept \/ Register
  BY <1>1, <1>2, AcceptSession, RegisterLockSession, RegisterReplaySession,
     RegisterLinkSession, SpawnSession DEF Register
<1>3. ASSUME NEW c \in Client,
             \/ BroadcastLock(c) \/ BroadcastSkip(c) \/ BroadcastAppend(c)
             \/ BroadcastNotify(c) \/ BroadcastUnlock(c)
      PROVE  SessionInv'
  BY <1>1, <1>3, BroadcastLockSession, BroadcastSkipSession, BroadcastAppendSession,
     BroadcastNotifySession, BroadcastUnlockSession
<1>4. ASSUME NEW c \in Client,
             \/ Read(c) \/ Cut(c) \/ CutDone(c) \/ ReadEnd(c) \/ SelectPipe(c)
             \/ SendLock(c) \/ SendAll(c) \/ SendKilled(c) \/ Shutdown(c)
             \/ PeerSend(c) \/ PeerClose(c)
      PROVE  SessionInv'
  BY <1>1, <1>4, HandSession, SendAllSession, ShutdownSession, OtherSession
<1>5. CASE UNCHANGED vars
  <2>1. PICK c : c \in Client
    BY ServerConstants, SMTT(30) DEF ServerConstants, Client
  <2>2. \A d \in Client : Told(d)' = Told(d) /\ reset'[d] = reset[d]
    BY <1>5 DEF vars, Told
  <2> QED
    BY <1>1, <1>5, <2>1, <2>2, SessionFrame DEF vars
<1> QED
  BY <1>2, <1>3, <1>4, <1>5 DEF Next, ClientTask

\* What the server tells one client of another is in the order of a session:
\* CONNECTED, at most twice, then data, then DISCONNECTED and nothing more
\* (server.c:140-220, 256-316).
THEOREM SessionOrderHolds == Spec => []SessionOrder
<1>1. SessionInv => SessionOrder
  BY DEF SessionInv, PairInv, SessionOrder
<1> QED
  BY <1>1, Invariance, InitInv, NextInv, InitRelay, NextRelay, InitSession, NextSession,
     PTL DEF Spec

\* A client gets the packets of another from the first on, none left out, in the
\* order in which they were sent, and at most one of them twice: the one that was
\* in the history, but not yet broadcast, when the client was registered
\* (server.c:140-220, 276-302).
THEOREM NoGapHolds == Spec => []NoGap
<1>1. SessionInv => NoGap
  BY DEF SessionInv, PairInv, NoGap
<1> QED
  BY <1>1, Invariance, InitInv, NextInv, InitRelay, NextRelay, InitSession, NextSession,
     PTL DEF Spec

-------------------------------------------------------------------------------
(***************************************************************************)
(* The server with its sockets implements the server whose send sections   *)
(* are one step, for every capacity of the sockets, so that what is proved *)
(* of one holds for the other.                                             *)
(***************************************************************************)

\* Every step with sockets is a step of the server without, or changes nothing
\* that it knows of.
LEMMA StepRefines == [SNext]_svars => [Next]_vars
<1> SUFFICES ASSUME [SNext]_svars PROVE [Next]_vars
  OBVIOUS
<1>1. CASE up /\ (Accept \/ Register)
  BY <1>1 DEF Next
<1>2. ASSUME up, NEW c \in Client, Task(c) \/ PeerRead(c) \/ Peer(c)
      PROVE  [Next]_vars
  <2>1. CASE Others(c)
    BY <1>2, <2>1 DEF Others, ClientTask, Next
  <2>2. CASE SendSome(c) \/ PeerRead(c)
    BY <2>2 DEF SendSome, PeerRead
  <2>3. CASE SendEnd(c) \/ SendSignal(c)
    BY <1>2, <2>3 DEF SendEnd, SendSignal, ClientTask, Next
  <2>4. CASE Peer(c)
    BY <1>2, <2>4 DEF Peer, Next
  <2> QED
    BY <1>2, <2>1, <2>2, <2>3, <2>4 DEF Task
<1>3. CASE UNCHANGED svars
  BY <1>3 DEF svars
<1> QED
  BY <1>1, <1>2, <1>3 DEF SNext

\* The server whose send sections block in the middle, packet by packet,
\* implements the server whose send sections are atomic: what is shown of that
\* one holds however long send waits for a peer (server.c:316-330).
THEOREM Refinement == SSpec => Spec
<1>1. SInit => Init
  BY DEF SInit
<1> QED
  BY <1>1, StepRefines, PTL DEF SSpec, Spec

SType == part \in [Client -> Nat] /\ unread \in [Client -> Nat]

\* What a step may do with a client's socket in order: no more than queue
\* packets, while its thread is in a send section.
LEMMA SocketKept ==
    ASSUME IInv, IInv', SType, NEW d \in Client, SocketOK(d),
           part'[d] = part[d], unread'[d] = unread[d], out'[d] = out[d],
           closed'[d] \/ (closed'[d] = closed[d] /\ reset'[d] = reset[d]),
           pc[d] = "flush" => /\ pc'[d] = "flush"
                              /\ Len(sbuffer'[d]) >= Len(sbuffer[d])
    PROVE  SocketOK(d)'
<1>1. Len(sbuffer'[d]) \in Nat /\ Len(sbuffer[d]) \in Nat /\ part[d] \in Nat
  BY SMTT(30) DEF IInv, Typed, TypeBuffers, SType
<1> QED
  BY <1>1, SMT DEF SocketOK

\* The main thread only touches the buffer of a client that has no thread.
LEMMA MainSockets ==
    ASSUME IInv, IInv', SType, \A d \in Client : SocketOK(d),
           Accept \/ Register, UNCHANGED sockets, NEW d \in Client
    PROVE  SocketOK(d)'
<1>1. out' = out /\ closed' = closed /\ reset' = reset
  BY DEF Accept, Register, RegisterLock, RegisterReplay, RegisterLink, Spawn, network
<1>2. part' = part /\ unread' = unread
  BY DEF sockets
<1>3. ASSUME pc[d] = "flush"
      PROVE  pc'[d] = "flush" /\ sbuffer'[d] = sbuffer[d]
  <2>1. d # Main /\ d \in Thread
    BY ThreadFacts
  <2>2. CASE Accept
    <3>1. d # clientCount
      <4>1. d \in Nat /\ clientCount \in Nat
        BY SMTT(30), ThreadFacts DEF IInv, Typed, TypeShared
      <4> QED
        BY <1>3, <4>1, SMT DEF IInv, NewInv
    <3> QED
      BY <1>3, <2>1, <2>2, <3>1
      DEF Accept, Goto, IInv, Typed, TypeControl, TypeBuffers
  <2>3. CASE RegisterLock \/ RegisterLink
    BY <1>3, <2>1, <2>3
    DEF RegisterLock, RegisterLink, Goto, buffers, IInv, Typed, TypeControl
  <2>4. CASE RegisterReplay
    <3>1. d # New
      BY <1>3, <2>4 DEF RegisterReplay, IInv, NewInv
    <3> QED
      BY <1>3, <2>4, <3>1 DEF RegisterReplay, IInv, Typed, TypeBuffers
  <2>5. CASE Spawn
    <3>1. d # New
      BY <1>3, <2>5 DEF Spawn, IInv, NewInv
    <3> QED
      BY <1>3, <2>1, <2>5, <3>1 DEF Spawn, buffers, IInv, Typed, TypeControl
  <2> QED
    BY <2>2, <2>3, <2>4, <2>5 DEF Register
<1>4. pc[d] = "flush" => Len(sbuffer'[d]) >= Len(sbuffer[d])
  <2>1. Len(sbuffer[d]) \in Nat
    BY DEF IInv, Typed, TypeBuffers
  <2> QED
    BY <1>3, <2>1, SMT
<1> QED
  BY <1>1, <1>2, <1>3, <1>4, SocketKept

\* Outside its send section a client's thread leaves every socket alone; to the
\* buffers of the others it only adds.
LEMMA OthersSockets ==
    ASSUME IInv, IInv', SType, \A d \in Client : SocketOK(d),
           NEW c \in Client, Others(c), NEW d \in Client
    PROVE  SocketOK(d)'
<1>0. c \in Thread /\ d \in Thread
  BY ThreadFacts
<1>1. out' = out /\ closed' = closed /\ reset' = reset
  BY DEF Others, BroadcastLock, BroadcastSkip, BroadcastAppend, BroadcastNotify,
     BroadcastUnlock, Read, Cut, CutDone, ReadEnd, SelectPipe, SendLock, Shutdown,
     network
<1>2. part' = part /\ unread' = unread
  BY DEF Others, sockets
<1>3. ASSUME pc[d] = "flush" PROVE pc'[d] = "flush"
  <2>1. pc[c] # "flush"
    BY DEF Others, BroadcastLock, BroadcastSkip, BroadcastAppend, BroadcastNotify,
       BroadcastUnlock, Read, Cut, CutDone, ReadEnd, SelectPipe, SendLock, Shutdown
  <2>2. \E l : pc' = [pc EXCEPT ![c] = l]
    <3>1. CASE BroadcastSkip(c)
      BY <1>0, <3>1 DEF BroadcastSkip, IInv, Typed, TypeControl
    <3>2. CASE ~ BroadcastSkip(c)
      BY <3>2 DEF Others, BroadcastLock, BroadcastAppend, BroadcastNotify,
         BroadcastUnlock, Read, Cut, CutDone, ReadEnd, SelectPipe, SendLock,
         Shutdown, Goto
    <3> QED
      BY <3>1, <3>2
  <2> QED
    BY SMTT(30), <1>0, <1>3, <2>1, <2>2 DEF IInv, Typed, TypeControl
<1>4. ASSUME pc[d] = "flush" PROVE Len(sbuffer'[d]) >= Len(sbuffer[d])
  <2>0. sbuffer[d] \in Seq(Packet) /\ Len(sbuffer[d]) \in Nat
    BY DEF IInv, Typed, TypeBuffers
  <2>1. CASE BroadcastAppend(c)
    <3>1. InHand(c) \in Packet
      BY InHandType DEF IInv, Typed
    <3>2. sbuffer'[d] = sbuffer[d] \/ sbuffer'[d] = Append(sbuffer[d], InHand(c))
      BY <2>1 DEF BroadcastAppend, IInv, Typed, TypeBuffers
    <3> QED
      BY <2>0, <3>1, <3>2, SMTT(30)
  <2>2. CASE Shutdown(c)
    <3>1. d # c
      BY <1>4, <2>2 DEF Shutdown
    <3>2. sbuffer'[d] = sbuffer[d]
      BY <2>2, <3>1 DEF Shutdown, IInv, Typed, TypeBuffers
    <3> QED
      BY <2>0, <3>2, SMT
  <2>3. CASE ~ BroadcastAppend(c) /\ ~ Shutdown(c)
    <3>1. sbuffer' = sbuffer
      BY <2>3 DEF Others, BroadcastLock, BroadcastSkip, BroadcastNotify,
         BroadcastUnlock, Read, Cut, CutDone, ReadEnd, SelectPipe, SendLock, buffers
    <3> QED
      BY <2>0, <3>1, SMT
  <2> QED
    BY <2>1, <2>2, <2>3
<1> QED
  BY <1>1, <1>2, <1>3, <1>4, SocketKept

\* A send section sends no more than there is, nor than the socket can hold, and
\* starts again from the beginning when it has ended.
LEMMA SendSockets ==
    ASSUME IInv, IInv', SType, \A d \in Client : SocketOK(d),
           NEW c \in Client, SendSome(c) \/ SendEnd(c) \/ SendSignal(c)
    PROVE  SType' /\ \A d \in Client : SocketOK(d)'
<1>0. /\ \A d \in Client : Len(sbuffer[d]) \in Nat /\ Len(out[d]) \in Nat
      /\ \A d \in Client : part[d] \in Nat /\ unread[d] \in Nat
      /\ SocketCapacity \in Nat /\ c \in Thread
  <2>1. ASSUME NEW d \in Client
        PROVE  Len(sbuffer[d]) \in Nat /\ Len(out[d]) \in Nat
    <3>1. sbuffer[d] \in Seq(Packet) /\ out[d] \in Seq(Packet)
      BY DEF IInv, Typed, TypeBuffers, TypeNetwork
    <3> QED
      BY <3>1, LenProperties
  <2>2. \A d \in Client : part[d] \in Nat /\ unread[d] \in Nat
    BY DEF SType
  <2>3. SocketCapacity \in Nat
    BY SocketConstants DEF SocketConstants
  <2>4. c \in Thread
    BY ThreadFacts
  <2> QED
    BY <2>1, <2>2, <2>3, <2>4
<1>1. CASE SendSome(c)
  <2>1. part' = [part EXCEPT ![c] = part[c] + 1]
        /\ unread' = [unread EXCEPT ![c] = unread[c] + 1]
        /\ UNCHANGED <<sbuffer, pc, closed, reset, out>>
    BY <1>1 DEF SendSome, vars
  <2>2. SType'
    BY <1>0, <2>1, SMT DEF SType
  <2>3. SocketOK(c)'
    <3>1. part'[c] = part[c] + 1 /\ unread'[c] = unread[c] + 1
      BY <2>1 DEF SType
    <3> QED
      BY <1>0, <1>1, <2>1, <3>1, SMTT(30) DEF SendSome, SocketOK
  <2>4. \A d \in Client \ {c} : SocketOK(d)'
    BY <2>1 DEF SType, SocketOK
  <2> QED
    BY <2>2, <2>3, <2>4
<1>2. CASE SendEnd(c)
  <2>1. /\ part' = [part EXCEPT ![c] = 0] /\ unread' = unread
        /\ sbuffer' = [sbuffer EXCEPT ![c] = <<>>] /\ closed' = closed
    BY <1>2 DEF SendEnd, SendAll
  <2>2. SType'
    BY <1>0, <2>1 DEF SType
  <2>3. SocketOK(c)'
    <3>1. part'[c] = 0 /\ sbuffer'[c] = <<>> /\ Len(sbuffer'[c]) = 0
      BY <2>1, EmptySeq DEF SType, IInv, Typed, TypeBuffers
    <3>2. ASSUME ~ closed[c]
          PROVE  ~ reset'[c] /\ unread[c] <= SocketCapacity
                 /\ unread[c] <= Len(out'[c])
      <4>1. ~ reset[c] /\ part[c] = Len(sbuffer[c])
        BY <1>2, <3>2 DEF SendEnd, SocketOK
      <4>2. reset' = reset /\ out'[c] = out[c] \o sbuffer[c]
        BY <1>2, <3>2, <4>1 DEF SendEnd, SendAll, IInv, Typed, TypeNetwork
      <4>3. Len(out'[c]) = Len(out[c]) + Len(sbuffer[c])
        BY <4>2, SMT DEF IInv, Typed, TypeNetwork, TypeBuffers
      <4> QED
        BY <1>0, <3>2, <4>1, <4>2, <4>3 DEF SocketOK
    <3> QED
      BY <1>0, <2>1, <3>1, <3>2, SMT DEF SocketOK
  <2>4. ASSUME NEW d \in Client \ {c} PROVE SocketOK(d)'
    <3>1. /\ part'[d] = part[d] /\ sbuffer'[d] = sbuffer[d] /\ unread'[d] = unread[d]
          /\ closed'[d] = closed[d]
      BY <2>1 DEF SType, IInv, Typed, TypeBuffers
    <3>2. pc'[d] = pc[d] /\ reset'[d] = reset[d] /\ out'[d] = out[d]
      BY SMTT(30), <1>2, ThreadFacts
      DEF SendEnd, SendAll, Goto, IInv, Typed, TypeControl, TypeNetwork
    <3> QED
      BY <3>1, <3>2 DEF SocketOK
  <2> QED
    BY <2>2, <2>3, <2>4
<1>3. CASE SendSignal(c)
  <2>1. UNCHANGED <<part, unread, sbuffer, pc, closed, reset, out>>
    BY <1>3 DEF SendSignal, SendKilled, sockets, buffers
  <2> QED
    BY <2>1 DEF SType, SocketOK
<1> QED
  BY <1>1, <1>2, <1>3

\* A peer only takes from its socket; what it closes is of no concern any more.
LEMMA PeerSockets ==
    ASSUME IInv, IInv', SType, \A d \in Client : SocketOK(d),
           NEW c \in Client, PeerRead(c) \/ Peer(c)
    PROVE  SType' /\ \A d \in Client : SocketOK(d)'
<1>1. CASE PeerRead(c)
  <2>1. unread' = [unread EXCEPT ![c] = unread[c] - 1]
        /\ UNCHANGED <<part, sbuffer, pc, closed, reset, out>>
    BY <1>1 DEF PeerRead, vars
  <2>2. \A d \in Client : unread[d] \in Nat /\ unread'[d] \in Nat /\ unread'[d] <= unread[d]
    BY <1>1, <2>1, SMT DEF PeerRead, SType
  <2>3. SType'
    BY <2>1, <2>2 DEF SType
  <2>4. ASSUME NEW d \in Client PROVE SocketOK(d)'
    <3>1. Len(out[d]) \in Nat /\ part[d] \in Nat /\ SocketCapacity \in Nat
      BY SocketConstants DEF IInv, Typed, TypeNetwork, SType, SocketConstants
    <3> QED
      BY <2>1, <2>2, <3>1, SMT DEF SocketOK
  <2> QED
    BY <2>3, <2>4
<1>2. CASE Peer(c)
  <2>1. UNCHANGED <<part, unread, sbuffer, pc, out>>
    BY <1>2 DEF Peer, PeerSend, PeerClose, sockets, buffers
  <2>2. ASSUME NEW d \in Client
        PROVE  closed'[d] \/ (closed'[d] = closed[d] /\ reset'[d] = reset[d])
    BY <1>2 DEF Peer, PeerSend, PeerClose, IInv, Typed, TypeNetwork
  <2>3. ASSUME NEW d \in Client
        PROVE  Len(sbuffer'[d]) >= Len(sbuffer[d])
    BY <2>1, SMT DEF IInv, Typed, TypeBuffers
  <2> QED
    BY <2>1, <2>2, <2>3, SocketKept DEF SType
<1> QED
  BY <1>1, <1>2

\* Every step leaves the sockets in order.
LEMMA SocketsNext == IInv /\ IInv' /\ SocketsOK /\ [SNext]_svars => SocketsOK'
<1> SUFFICES ASSUME IInv, IInv', SocketsOK, [SNext]_svars PROVE SocketsOK'
  OBVIOUS
<1>0. /\ SType /\ \A d \in Client : SocketOK(d)
      /\ (SType' /\ \A d \in Client : SocketOK(d)') => SocketsOK'
  BY DEF SocketsOK, SType
<1>1. CASE (Accept \/ Register) /\ UNCHANGED sockets
  BY <1>0, <1>1, MainSockets DEF sockets, SType
<1>2. ASSUME NEW c \in Client, Task(c) \/ PeerRead(c) \/ Peer(c)
      PROVE  SocketsOK'
  <2>1. CASE Others(c)
    BY <1>0, <2>1, OthersSockets DEF Others, sockets, SType
  <2> QED
    BY <1>0, <1>2, <2>1, SendSockets, PeerSockets DEF Task
<1>3. CASE UNCHANGED svars
  BY <1>0, <1>3 DEF svars, vars, SType, SocketOK
<1> QED
  BY <1>1, <1>2, <1>3 DEF SNext

\* In every reachable state the sockets are in order: a send section has sent no
\* more than its buffer, a connection holds no more than it can.
THEOREM SocketsInOrder == SSpec => []SocketsOK
<1>1. SInit => SocketsOK
  <2> SUFFICES ASSUME SInit PROVE SocketsOK
    OBVIOUS
  <2>1. \A c \in Client : sbuffer[c] = <<>> /\ out[c] = <<>> /\ reset[c] = FALSE
    BY DEF SInit, Init
  <2>2. SocketCapacity \in Nat
    BY SocketConstants DEF SocketConstants
  <2> QED
    BY <2>1, <2>2, EmptySeq, SMT DEF SInit, SocketsOK, SocketOK
<1>2. IInv /\ IInv' /\ SocketsOK /\ [SNext]_svars => SocketsOK'
  BY SocketsNext
<1> QED
  BY <1>1, <1>2, Refinement, Invariance, PTL DEF SSpec

\* With sockets too, the threads do not wait for one another's locks in a circle.
THEOREM NoCircularWaitWithSockets == SSpec => []NoCircularWait
  BY Refinement, NoCircularWaitHolds, PTL

\* With sockets too, what a client has been sent of a session of another is that
\* client's packets one after the other, whoever blocks whom and who leaves when.
THEOREM NoGapWithSockets == SSpec => []NoGap
  BY Refinement, NoGapHolds, PTL

\* With sockets too, the sessions of a client come one after the other, each
\* announced before it and, if it is over, ended after it.
THEOREM SessionOrderWithSockets == SSpec => []SessionOrder
  BY Refinement, SessionOrderHolds, PTL

\* With sockets too, no client that is in the list misses a packet whose broadcast
\* is over.
THEOREM RelayCompleteWithSockets == SSpec => []RelayComplete
  BY Refinement, RelayCompleteHolds, PTL

================================================================================
