---------------------------- MODULE BroadcastServer ----------------------------
(***************************************************************************)
(* The broadcast server of the peer-to-peer protocols (src/src/server.c).  *)
(*                                                                         *)
(* The main thread accepts connections: it gives each client an id, queues *)
(* its handshake, replays to it the history of the clients already in the  *)
(* list, links it and starts its thread.  A client's thread announces it,  *)
(* cuts what the peer sends into packets, relays each packet to every      *)
(* other client's send buffer, and sends its own send buffer to its peer   *)
(* when the notification pipe says there is something in it.               *)
(*                                                                         *)
(* The list of clients and client_count are under ctx->mutex, each send    *)
(* buffer under its sbuffer_mutex.  A critical section of a hbuffer_mutex  *)
(* holds no other lock request and is one step here.  A send buffer is a   *)
(* sequence of packets: every writer appends whole packets.                *)
(***************************************************************************)
EXTENDS Integers, SequencesExt

CONSTANTS
    MaxClients,    \* bound: connections the main thread accepts
    Packets,       \* bound: how many packets each peer may send
    PipeCapacity,  \* bytes a notification pipe holds before a write blocks
    Tails,         \* what a read may leave of an incomplete packet (see tail)
    Closers        \* ids whose peer may close its connection

ASSUME ServerConstants ==
    /\ MaxClients \in Nat \ {0}
    /\ Packets \in [0 .. MaxClients - 1 -> Nat]
    /\ PipeCapacity \in Nat \ {0}
    /\ Tails \subseteq {1, 2}

Client == 0 .. MaxClients - 1   \* client_count is never reused as an id
Main   == MaxClients
Thread == 0 .. MaxClients
Nobody == -1                    \* a mutex that no thread holds

Kind   == {"HANDSHAKE", "CONNECTED", "DATA", "DISCONNECTED"}
Packet == [kind : Kind, from : Client, n : Nat]
Pkt(k, s, m) == [kind |-> k, from |-> s, n |-> m]

VARIABLES
    \* shared state of the server
    clientCount,  \* ctx.client_count
    clients,      \* ctx.clients, the linked list from its head on
    ctxMutex,     \* the thread that holds ctx.mutex
    sMutex,       \* the thread that holds each sbuffer_mutex
    hbuffer,      \* each client's own packets, for those who join later
    sbuffer,      \* each client's packets to be sent
    pipe,         \* bytes in each notification pipe
    \* the threads
    pc,
    todo,         \* the part of the list a loop over it has still to visit
    hand,         \* kind of the packet a client's thread is broadcasting
    pipeReady,    \* FD_ISSET(npipe) of the current select
    got,          \* complete packets read from the peer
    tail,         \* of the next packet: 0 nothing, 1 at most 2 bytes, 2 more
    relayed,      \* packets cut off the accumulation vector
    \* peers and network
    sent,         \* packets the peer has sent
    closed,       \* the peer has closed its socket
    reset,        \* its RST has reached the server
    out,          \* what the server has passed to the peer's socket
    up            \* the server process is running

shared  == <<clientCount, clients, ctxMutex>>
buffers == <<hbuffer, sbuffer, pipe>>
reading == <<pipeReady, got, tail, relayed>>
network == <<sent, closed, reset, out, up>>
vars == <<clientCount, clients, ctxMutex, sMutex, hbuffer, sbuffer, pipe, pc,
          todo, hand, pipeReady, got, tail, relayed, sent, closed, reset, out,
          up>>

Init ==
    /\ clientCount = 0
    /\ clients = <<>>
    /\ ctxMutex = Nobody
    /\ sMutex = [c \in Client |-> Nobody]
    /\ hbuffer = [c \in Client |-> <<>>]
    /\ sbuffer = [c \in Client |-> <<>>]
    /\ pipe = [c \in Client |-> 0]
    /\ pc = [t \in Thread |-> IF t = Main THEN "accept" ELSE "none"]
    /\ todo = [t \in Thread |-> <<>>]
    /\ hand = [c \in Client |-> "CONNECTED"]
    /\ pipeReady = [c \in Client |-> FALSE]
    /\ got = [c \in Client |-> 0]
    /\ tail = [c \in Client |-> 0]
    /\ relayed = [c \in Client |-> 0]
    /\ sent = [c \in Client |-> 0]
    /\ closed = [c \in Client |-> FALSE]
    /\ reset = [c \in Client |-> FALSE]
    /\ out = [c \in Client |-> <<>>]
    /\ up = TRUE

Goto(t, label) == pc' = [pc EXCEPT ![t] = label]

-------------------------------------------------------------------------------
(* The main thread *)

New == clientCount - 1          \* the client the main thread is setting up

\* A peer connects: it gets the next id, and its handshake is queued.
Accept ==
    /\ pc[Main] = "accept"
    /\ clientCount < MaxClients
    /\ clientCount' = clientCount + 1
    /\ sbuffer' = [sbuffer EXCEPT
                     ![clientCount] = <<Pkt("HANDSHAKE", clientCount, 0)>>]
    /\ pipe' = [pipe EXCEPT ![clientCount] = 1]
    /\ Goto(Main, "register")
    /\ UNCHANGED <<clients, ctxMutex, sMutex, hbuffer, todo, hand>>
    /\ UNCHANGED <<reading, network>>

\* Mutant: the list is read without taking the context mutex.
RegisterLock_NoMutex ==
    /\ pc[Main] = "register"
    /\ todo' = [todo EXCEPT ![Main] = clients]
    /\ Goto(Main, "replay")
    /\ UNCHANGED <<shared, sMutex, hand, buffers, reading, network>>

RegisterLock ==
    /\ pc[Main] = "register"
    /\ ctxMutex = Nobody
    /\ ctxMutex' = Main
    /\ todo' = [todo EXCEPT ![Main] = clients]
    /\ Goto(Main, "replay")
    /\ UNCHANGED <<clientCount, clients, sMutex, hand>>
    /\ UNCHANGED <<buffers, reading, network>>

\* Mutant: the history is copied before the client is announced.
RegisterReplay_HistoryFirst ==
    /\ pc[Main] = "replay"
    /\ todo[Main] # <<>>
    /\ LET d == Head(todo[Main]) IN
         sbuffer' = [sbuffer EXCEPT
                       ![New] = (@ \o hbuffer[d]) \o <<Pkt("CONNECTED", d, 0)>>]
    /\ todo' = [todo EXCEPT ![Main] = Tail(@)]
    /\ UNCHANGED <<shared, sMutex, hbuffer, pipe, pc, hand>>
    /\ UNCHANGED <<reading, network>>

\* The newcomer is told of one listed client and of all it has sent so far.
RegisterReplay ==
    /\ pc[Main] = "replay"
    /\ todo[Main] # <<>>
    /\ LET d == Head(todo[Main]) IN
         sbuffer' = [sbuffer EXCEPT
                       ![New] = (@ \o <<Pkt("CONNECTED", d, 0)>>) \o hbuffer[d]]
    /\ todo' = [todo EXCEPT ![Main] = Tail(@)]
    /\ UNCHANGED <<shared, sMutex, hbuffer, pipe, pc, hand>>
    /\ UNCHANGED <<reading, network>>

RegisterLink ==
    /\ pc[Main] = "replay"
    /\ todo[Main] = <<>>
    /\ clients' = <<New>> \o clients
    /\ ctxMutex' = Nobody
    /\ Goto(Main, "spawn")
    /\ UNCHANGED <<clientCount, sMutex, todo, hand>>
    /\ UNCHANGED <<buffers, reading, network>>

\* pthread_create: the new thread begins with the broadcast of CONNECTED.
Spawn ==
    /\ pc[Main] = "spawn"
    /\ pc' = [pc EXCEPT ![Main] = "accept", ![New] = "lock"]
    /\ UNCHANGED <<shared, sMutex, todo, hand>>
    /\ UNCHANGED <<buffers, reading, network>>

-------------------------------------------------------------------------------
(* server_broadcast, called by the thread of client c *)

InHand(c) == Pkt(hand[c], c, IF hand[c] = "DATA" THEN relayed[c] + 1 ELSE 0)

BroadcastLock(c) ==
    /\ pc[c] = "lock"
    /\ ctxMutex = Nobody
    /\ ctxMutex' = c
    /\ todo' = [todo EXCEPT ![c] = clients]
    /\ Goto(c, "cast")
    /\ UNCHANGED <<clientCount, clients, sMutex, hand>>
    /\ UNCHANGED <<buffers, reading, network>>

BroadcastSkip(c) ==
    /\ pc[c] = "cast"
    /\ todo[c] # <<>>
    /\ Head(todo[c]) = c
    /\ todo' = [todo EXCEPT ![c] = Tail(@)]
    /\ UNCHANGED <<shared, sMutex, pc, hand, buffers, reading, network>>

BroadcastAppend(c) ==
    /\ pc[c] = "cast"
    /\ todo[c] # <<>>
    /\ LET d == Head(todo[c]) IN
         /\ d # c
         /\ sMutex[d] = Nobody
         /\ sMutex' = [sMutex EXCEPT ![d] = c]
         /\ sbuffer' = [sbuffer EXCEPT ![d] = Append(@, InHand(c))]
    /\ Goto(c, "notify")
    /\ UNCHANGED <<shared, hbuffer, pipe, todo, hand, reading, network>>

\* Mutant: the owner of the buffer is not notified.
BroadcastNotify_Missing(c) ==
    /\ pc[c] = "notify"
    /\ sMutex' = [sMutex EXCEPT ![Head(todo[c])] = Nobody]
    /\ todo' = [todo EXCEPT ![c] = Tail(@)]
    /\ Goto(c, "cast")
    /\ UNCHANGED <<shared, buffers, hand, reading, network>>

\* Mutant: the broadcast goes on with the send buffer still locked.
BroadcastNotify_KeepsLock(c) ==
    /\ pc[c] = "notify"
    /\ pipe[Head(todo[c])] < PipeCapacity
    /\ pipe' = [pipe EXCEPT ![Head(todo[c])] = @ + 1]
    /\ todo' = [todo EXCEPT ![c] = Tail(@)]
    /\ Goto(c, "cast")
    /\ UNCHANGED <<shared, sMutex, hbuffer, sbuffer, hand, reading, network>>

\* client_notify: the write blocks, both mutexes held, while the pipe is full.
BroadcastNotify(c) ==
    /\ pc[c] = "notify"
    /\ LET d == Head(todo[c]) IN
         /\ pipe[d] < PipeCapacity
         /\ pipe' = [pipe EXCEPT ![d] = @ + 1]
         /\ sMutex' = [sMutex EXCEPT ![d] = Nobody]
    /\ todo' = [todo EXCEPT ![c] = Tail(@)]
    /\ Goto(c, "cast")
    /\ UNCHANGED <<shared, hbuffer, sbuffer, hand, reading, network>>

\* The end of the broadcast and what its caller does next: a relayed packet
\* is shifted out of the accumulation vector.
BroadcastUnlock(c) ==
    /\ pc[c] = "cast"
    /\ todo[c] = <<>>
    /\ ctxMutex' = Nobody
    /\ \/ /\ hand[c] = "CONNECTED"
          /\ Goto(c, "select")
          /\ UNCHANGED relayed
       \/ /\ hand[c] = "DATA"
          /\ relayed' = [relayed EXCEPT ![c] = @ + 1]
          /\ Goto(c, "cut")
       \/ /\ hand[c] = "DISCONNECTED"
          /\ Goto(c, "shutdown")
          /\ UNCHANGED relayed
    /\ UNCHANGED <<clientCount, clients, sMutex, todo, hand, buffers>>
    /\ UNCHANGED <<pipeReady, got, tail, network>>

-------------------------------------------------------------------------------
(* client_task: the select loop of client c's thread *)

\* A read takes some of the bytes that have arrived.  It may stop inside a
\* packet; a later read then resumes there.
Read(c) ==
    /\ pc[c] = "select"
    /\ \E g \in got[c] .. sent[c], t \in Tails \cup {0} :
         /\ g > got[c] \/ t > tail[c]
         /\ t > 0 => g < sent[c]
         /\ got' = [got EXCEPT ![c] = g]
         /\ tail' = [tail EXCEPT ![c] = t]
    /\ pipeReady' = [pipeReady EXCEPT ![c] = pipe[c] > 0]
    /\ Goto(c, "cut")
    /\ UNCHANGED <<shared, sMutex, todo, hand, buffers, relayed, network>>

\* Mutant: the packet is broadcast without going into the history.
Cut_NoHistory(c) ==
    /\ pc[c] = "cut"
    /\ relayed[c] < got[c]
    /\ hand' = [hand EXCEPT ![c] = "DATA"]
    /\ Goto(c, "lock")
    /\ UNCHANGED <<shared, sMutex, buffers, todo, reading, network>>

\* Mutant: with the size of the next packet there, it is taken for complete.
Cut_Incomplete(c) ==
    /\ pc[c] = "cut"
    /\ relayed[c] < got[c] \/ tail[c] = 2
    /\ hbuffer' = [hbuffer EXCEPT
                     ![c] = Append(@, Pkt("DATA", c, relayed[c] + 1))]
    /\ hand' = [hand EXCEPT ![c] = "DATA"]
    /\ Goto(c, "lock")
    /\ UNCHANGED <<shared, sMutex, sbuffer, pipe, todo, reading, network>>

\* A complete packet is in front: it goes into the history, then is broadcast.
Cut(c) ==
    /\ pc[c] = "cut"
    /\ relayed[c] < got[c]
    /\ hbuffer' = [hbuffer EXCEPT
                     ![c] = Append(@, Pkt("DATA", c, relayed[c] + 1))]
    /\ hand' = [hand EXCEPT ![c] = "DATA"]
    /\ Goto(c, "lock")
    /\ UNCHANGED <<shared, sMutex, sbuffer, pipe, todo, reading, network>>

\* The loop `while (bv_size(vec) > 2)' ends.  With more than 2 bytes of an
\* incomplete packet it does not: the thread stays at "cut" for ever.
CutDone(c) ==
    /\ pc[c] = "cut"
    /\ relayed[c] = got[c]
    /\ tail[c] < 2
    /\ Goto(c, IF pipeReady[c] THEN "send" ELSE "select")
    /\ UNCHANGED <<shared, sMutex, todo, hand, buffers, reading, network>>

\* Mutant: the client is shut down without a goodbye.
ReadEnd_NoGoodbye(c) ==
    /\ pc[c] = "select"
    /\ closed[c]
    /\ got[c] = sent[c]
    /\ hand' = [hand EXCEPT ![c] = "DISCONNECTED"]
    /\ Goto(c, "shutdown")
    /\ UNCHANGED <<shared, sMutex, todo, buffers, reading, network>>

\* read returns 0: the peer closed and all it had sent has been read.
ReadEnd(c) ==
    /\ pc[c] = "select"
    /\ closed[c]
    /\ got[c] = sent[c]
    /\ hand' = [hand EXCEPT ![c] = "DISCONNECTED"]
    /\ Goto(c, "lock")
    /\ UNCHANGED <<shared, sMutex, todo, buffers, reading, network>>

\* Only the pipe is ready: nothing more of the peer's data has arrived yet.
SelectPipe(c) ==
    /\ pc[c] = "select"
    /\ pipe[c] > 0
    /\ Goto(c, "send")
    /\ UNCHANGED <<shared, sMutex, todo, hand, buffers, reading, network>>

\* Mutant: the pipe is not drained.
SendLock_NoDrain(c) ==
    /\ pc[c] = "send"
    /\ sMutex[c] = Nobody
    /\ sMutex' = [sMutex EXCEPT ![c] = c]
    /\ Goto(c, "flush")
    /\ UNCHANGED <<shared, buffers, todo, hand, reading, network>>

\* The send section begins: lock the send buffer, drain the pipe.
SendLock(c) ==
    /\ pc[c] = "send"
    /\ sMutex[c] = Nobody
    /\ sMutex' = [sMutex EXCEPT ![c] = c]
    /\ pipe' = [pipe EXCEPT ![c] = 0]
    /\ Goto(c, "flush")
    /\ UNCHANGED <<shared, hbuffer, sbuffer, todo, hand, reading, network>>

\* All the send buffer goes to the socket; what is sent to a socket the peer
\* has closed is answered by a RST, after which a send fails and the buffer is
\* dropped, ...
SendAll(c) ==
    /\ pc[c] = "flush"
    /\ \/ /\ ~ reset[c]
          /\ out' = [out EXCEPT ![c] = @ \o sbuffer[c]]
          /\ \/ closed[c] /\ reset' = [reset EXCEPT ![c] = TRUE]
             \/ UNCHANGED reset
       \/ /\ reset[c]
          /\ UNCHANGED <<out, reset>>
    /\ sbuffer' = [sbuffer EXCEPT ![c] = <<>>]
    /\ sMutex' = [sMutex EXCEPT ![c] = Nobody]
    /\ Goto(c, "select")
    /\ UNCHANGED <<shared, hbuffer, pipe, todo, hand, reading>>
    /\ UNCHANGED <<sent, closed, up>>

\* ... or raises SIGPIPE, for which the server installs no handler.
SendKilled(c) ==
    /\ pc[c] = "flush"
    /\ reset[c]
    /\ sbuffer[c] # <<>>
    /\ up' = FALSE
    /\ UNCHANGED <<shared, sMutex, pc, todo, hand, buffers, reading>>
    /\ UNCHANGED <<sent, closed, reset, out>>

\* server_client_shutdown: unlink the client and free its buffers.
Shutdown(c) ==
    /\ pc[c] = "shutdown"
    /\ ctxMutex = Nobody
    /\ \E i \in DOMAIN clients :
         /\ clients[i] = c
         /\ clients' = RemoveAt(clients, i)
    /\ hbuffer' = [hbuffer EXCEPT ![c] = <<>>]
    /\ sbuffer' = [sbuffer EXCEPT ![c] = <<>>]
    /\ pipe' = [pipe EXCEPT ![c] = 0]
    /\ Goto(c, "done")
    /\ UNCHANGED <<clientCount, ctxMutex, sMutex, todo, hand>>
    /\ UNCHANGED <<reading, network>>

-------------------------------------------------------------------------------
(* The peers: they send once they have their handshake, which they may read
   before the end of the send section that sends it, and may close. *)

PeerSend(c) ==
    /\ out[c] # <<>> \/ pc[c] = "flush"
    /\ ~ closed[c]
    /\ sent[c] < Packets[c]
    /\ sent' = [sent EXCEPT ![c] = @ + 1]
    /\ UNCHANGED <<shared, sMutex, pc, todo, hand, buffers, reading>>
    /\ UNCHANGED <<closed, reset, out, up>>

\* Closing with unread data in the peer's socket sends a RST at once, and what
\* has not yet reached the server is lost.
PeerClose(c) ==
    /\ c \in Closers
    /\ out[c] # <<>> \/ pc[c] = "flush"
    /\ ~ closed[c]
    /\ closed' = [closed EXCEPT ![c] = TRUE]
    /\ \/ UNCHANGED <<sent, reset>>
       \/ /\ \E m \in got[c] .. sent[c] : sent' = [sent EXCEPT ![c] = m]
          /\ reset' = [reset EXCEPT ![c] = TRUE]
    /\ UNCHANGED <<shared, sMutex, pc, todo, hand, buffers, reading, out, up>>

-------------------------------------------------------------------------------
Register == RegisterLock \/ RegisterReplay \/ RegisterLink \/ Spawn

ClientTask(c) ==
    \/ BroadcastLock(c) \/ BroadcastSkip(c) \/ BroadcastAppend(c)
    \/ BroadcastNotify(c) \/ BroadcastUnlock(c)
    \/ Read(c) \/ Cut(c) \/ CutDone(c) \/ ReadEnd(c)
    \/ SelectPipe(c) \/ SendLock(c) \/ SendAll(c) \/ SendKilled(c)
    \/ Shutdown(c)

Next ==
    /\ up
    /\ \/ Accept
       \/ Register
       \/ \E c \in Client : ClientTask(c) \/ PeerSend(c) \/ PeerClose(c)

Spec == Init /\ [][Next]_vars

\* The operating system runs every thread; mutexes are handed on in time, as
\* the packets are finitely many.  Peers are free to connect, send or close.
Fairness ==
    /\ WF_vars(up /\ Register)
    /\ \A c \in Client : WF_vars(up /\ ClientTask(c))

FairSpec == Spec /\ Fairness

-------------------------------------------------------------------------------
(* What a client is told *)

Told(c) == out[c] \o sbuffer[c]
DataOf(c, s) == {p \in ToSet(Told(c)) : p.from = s /\ p.kind = "DATA"}

\* The places in t of the packets of s, and of its data.
From(t, s) == {i \in DOMAIN t : t[i].from = s}
DataFrom(t, s) == {i \in From(t, s) : t[i].kind = "DATA"}

Listed == ToSet(clients)

TypeShared ==
    /\ clientCount \in 0 .. MaxClients
    /\ clients \in Seq(Client)
    /\ ctxMutex \in Thread \cup {Nobody}
    /\ sMutex \in [Client -> Client \cup {Nobody}]

TypeBuffers ==
    /\ hbuffer \in [Client -> Seq(Packet)]
    /\ sbuffer \in [Client -> Seq(Packet)]
    /\ pipe \in [Client -> Nat]

TypeControl ==
    /\ pc \in [Thread -> {"accept", "register", "replay", "spawn", "none", "lock",
                         "cast", "notify", "select", "cut", "send", "flush",
                         "shutdown", "done"}]
    /\ todo \in [Thread -> Seq(Client)]
    /\ hand \in [Client -> {"CONNECTED", "DATA", "DISCONNECTED"}]

TypeReading ==
    /\ pipeReady \in [Client -> BOOLEAN]
    /\ got \in [Client -> Nat]
    /\ tail \in [Client -> 0 .. 2]
    /\ relayed \in [Client -> Nat]

TypeNetwork ==
    /\ sent \in [Client -> Nat]
    /\ closed \in [Client -> BOOLEAN]
    /\ reset \in [Client -> BOOLEAN]
    /\ out \in [Client -> Seq(Packet)]
    /\ up \in BOOLEAN

Typed ==
    TypeShared /\ TypeBuffers /\ TypeControl /\ TypeReading /\ TypeNetwork

\* Every variable has its type, and what is cut off and relayed was read before
\* to its end, as what is read was sent, wherever reads split the stream.
TypeOK ==
    Typed /\ \A c \in Client : relayed[c] <= got[c] /\ got[c] <= sent[c]

\* The packets of s in t are those of a session: CONNECTED, at most twice, then
\* data, then DISCONNECTED and nothing more.
InSession(t, s) ==
    \A j \in From(t, s) :
      LET before == {i \in From(t, s) : i < j} IN
        \/ /\ t[j].kind = "CONNECTED"
           /\ \A i, k \in before : t[i].kind = "CONNECTED" /\ i = k
        \/ /\ t[j].kind \in {"DATA", "DISCONNECTED"}
           /\ before # {}
           /\ \A i \in before : t[i].kind # "DISCONNECTED"

\* A client hears of another in the order of a session: it is told twice of its
\* connection only if it was registered between the linking of the other, which
\* the replay told it of, and the broadcast that all get.
SessionOrder ==
    \A c, s \in Client : c # s /\ ~ reset[c] => InSession(Told(c), s)

\* The data of s in t are its packets from the first on, each after the one sent
\* before it and none after a later one, and at most one packet is there twice.
Unbroken(t, s) ==
    LET I == DataFrom(t, s) IN
      /\ \A j \in I : t[j].n = 1 \/ \E i \in I : i < j /\ t[i].n = t[j].n - 1
      /\ \A i, j \in I : i < j => t[i].n <= t[j].n
      /\ \A i, j, k, l \in I :
           i < j /\ t[i].n = t[j].n /\ k < l /\ t[k].n = t[l].n => i = k /\ j = l

\* A client gets the packets of another without a gap and in the order they
\* were sent; the only packet it may get twice is the one that was in the
\* history, but not yet broadcast, when the client was registered.
NoGap ==
    \A c, s \in Client : c # s /\ ~ reset[c] => Unbroken(Told(c), s)

\* Once the broadcast of a packet is over, every client in the list has been
\* told of it, those who joined while it was under way included.
RelayComplete ==
    \A c, s \in Listed :
      c # s /\ ~ reset[c] =>
        \A m \in 1 .. relayed[s] :
          Pkt("DATA", s, m) \in ToSet(Told(c))

\* A client's thread is never left asleep on packets to send: when its send
\* buffer is not empty, either the pipe will wake it, or the thread that filled
\* the buffer is about to write to the pipe, or it is in its send section.
NoLostWakeup ==
    \A c \in Client :
      sbuffer[c] # <<>> =>
        \/ pipe[c] > 0
        \/ pc[c] = "flush"
        \/ \E t \in Client : pc[t] = "notify" /\ Head(todo[t]) = c

\* A pipe holds no more bytes than there are packets waiting, so a writer can
\* only block on it after PipeCapacity packets that the owner has not taken.
PipeBounded == \A c \in Client : pipe[c] <= Len(sbuffer[c])

Busy(t) == pc[t] \notin {"accept", "select", "none", "done"}

\* Thread t stands at a lock that another thread holds.
AtMutex(t) ==
    \/ pc[t] \in {"register", "lock", "shutdown"} /\ ctxMutex # Nobody
    \/ pc[t] = "send" /\ sMutex[t] # Nobody
    \/ /\ pc[t] = "cast" /\ todo[t] # <<>>
       /\ Head(todo[t]) # t /\ sMutex[Head(todo[t])] # Nobody

\* The threads of the server never wait for one another's locks in a circle:
\* while any of them is busy, one is not at a lock.  It may still wait with
\* locks held, in its send section for its peer or for room in a pipe.
NoCircularWait ==
    (\E t \in Thread : Busy(t)) => \E t \in Thread : Busy(t) /\ ~ AtMutex(t)

\* Nothing is left to do: no bytes under way, no packet queued, every thread
\* waiting in select, every departure dealt with.
Quiet ==
    /\ up
    /\ pc[Main] = "accept"
    /\ \A c \in Client :
         /\ pc[c] \in {"none", "select", "done"}
         /\ sbuffer[c] = <<>> /\ pipe[c] = 0
         /\ got[c] = sent[c]
         /\ closed[c] => pc[c] = "done"

\* When nothing is left to do, all listed clients know the same packets,
\* wherever in time they joined.
Synchronised ==
    Quiet =>
      \A c, d \in Listed, s \in Client : s \notin {c, d} =>
        DataOf(c, s) = DataOf(d, s)

\* Every packet that reaches the accumulation vector is cut off and relayed.
CutInTime ==
    \A s \in Client : \A m \in 1 .. Packets[s] :
      (sent[s] >= m) ~> (relayed[s] >= m)

===============================================================================
