----------------------------- MODULE ServerSockets -----------------------------
(***************************************************************************)
(* The broadcast server together with the sockets of its clients.  In      *)
(* BroadcastServer a send section ends in one step; here send blocks       *)
(* while the kernel's buffers for the connection are full, with            *)
(* sbuffer_mutex held, until the peer reads (server.c:312-339).            *)
(*                                                                         *)
(* out[c] is what the completed send sections of c have sent, and `part'   *)
(* counts the packets that the present one has sent: the socket has got    *)
(* out[c] and the first part[c] packets of sbuffer[c].  Each step is one   *)
(* of BroadcastServer or leaves its variables as they are.                 *)
(***************************************************************************)
EXTENDS BroadcastServer

CONSTANT SocketCapacity   \* packets the kernel holds for a connection

ASSUME SocketConstants == SocketCapacity \in Nat \ {0}

VARIABLES
    part,     \* the local variable `sent' of the send section
    unread    \* packets sent to the socket that the peer has not read

sockets == <<part, unread>>
svars == <<vars, part, unread>>

SInit ==
    /\ Init
    /\ part = [c \in Client |-> 0]
    /\ unread = [c \in Client |-> 0]

\* What the peer of c has read, the handshake first.
Taken(c) == Len(out[c]) + part[c] - unread[c]

\* One more packet goes to the socket.
SendSome(c) ==
    /\ pc[c] = "flush"
    /\ ~ reset[c]
    /\ part[c] < Len(sbuffer[c])
    /\ closed[c] \/ unread[c] < SocketCapacity
    /\ part' = [part EXCEPT ![c] = @ + 1]
    /\ unread' = [unread EXCEPT ![c] = @ + 1]
    /\ UNCHANGED vars

\* Mutant: what the kernel did not take at once is dropped.
SendEnd_Short(c) ==
    /\ pc[c] = "flush"
    /\ part[c] > 0
    /\ out' = [out EXCEPT ![c] = @ \o SubSeq(sbuffer[c], 1, part[c])]
    /\ sbuffer' = [sbuffer EXCEPT ![c] = <<>>]
    /\ sMutex' = [sMutex EXCEPT ![c] = Nobody]
    /\ Goto(c, "select")
    /\ part' = [part EXCEPT ![c] = 0]
    /\ UNCHANGED <<shared, hbuffer, pipe, todo, hand, reading>>
    /\ UNCHANGED <<sent, closed, reset, up, unread>>

\* Mutant: `sent' lives on from one send section to the next.
SendEnd_Carry(c) ==
    /\ SendAll(c)
    /\ reset[c] \/ part[c] = Len(sbuffer[c])
    /\ UNCHANGED sockets

\* The loop ends when all is sent, or with the error of a connection reset.
SendEnd(c) ==
    /\ SendAll(c)
    /\ reset[c] \/ part[c] = Len(sbuffer[c])
    /\ part' = [part EXCEPT ![c] = 0]
    /\ UNCHANGED unread

SendSignal(c) ==
    /\ SendKilled(c)
    /\ part[c] < Len(sbuffer[c])
    /\ UNCHANGED sockets

PeerRead(c) ==
    /\ unread[c] > 0
    /\ ~ closed[c]
    /\ unread' = [unread EXCEPT ![c] = @ - 1]
    /\ UNCHANGED <<vars, part>>

\* A peer knows its id before it sends or closes; a close is answered by a RST
\* of the peer's kernel only when it had something left to read.
Peer(c) ==
    /\ Taken(c) > 0
    /\ \/ PeerSend(c)
       \/ PeerClose(c) /\ (reset'[c] => unread[c] > 0)
    /\ UNCHANGED sockets

\* The steps of a client's thread in which its socket takes no part.
Others(c) ==
    /\ \/ BroadcastLock(c) \/ BroadcastSkip(c) \/ BroadcastAppend(c)
       \/ BroadcastNotify(c) \/ BroadcastUnlock(c)
       \/ Read(c) \/ Cut(c) \/ CutDone(c) \/ ReadEnd(c)
       \/ SelectPipe(c) \/ SendLock(c) \/ Shutdown(c)
    /\ UNCHANGED sockets

Task(c) == Others(c) \/ SendSome(c) \/ SendEnd(c) \/ SendSignal(c)

SNext ==
    /\ up
    /\ \/ (Accept \/ Register) /\ UNCHANGED sockets
       \/ \E c \in Client : Task(c) \/ PeerRead(c) \/ Peer(c)

SSpec == SInit /\ [][SNext]_svars

\* As in BroadcastServer; and the peers read: the receiving thread of a client
\* program does nothing but call recv (recvpool.c:93-108).
SFairness ==
    /\ WF_svars(up /\ Register /\ UNCHANGED sockets)
    /\ \A c \in Client :
         /\ WF_svars(up /\ Task(c))
         /\ WF_svars(up /\ PeerRead(c))

SFairSpec == SSpec /\ SFairness

-------------------------------------------------------------------------------
SocketOK(c) ==
    /\ part[c] <= Len(sbuffer[c])
    /\ part[c] > 0 => pc[c] = "flush"
    /\ ~ closed[c] => /\ ~ reset[c]
                      /\ unread[c] <= SocketCapacity
                      /\ unread[c] <= Len(out[c]) + part[c]

\* Every variable has its type; no more is sent than there is to send, only a
\* send section has a part of it sent, and the connection holds no more than its
\* capacity, nor more than was sent.
SocketsOK ==
    /\ part \in [Client -> Nat] /\ unread \in [Client -> Nat]
    /\ \A c \in Client : SocketOK(c)

\* What the peer of c has read of all that the server has for it.
Heard(c) == SubSeq(Told(c), 1, Taken(c))

\* As long as the peers read, a peer that never reads again excepted, every
\* packet the server has read from a listed client is in the end read by the
\* peer of every other one, though a send section may have to wait, with its
\* mutex held, for a peer and the whole server for it.
HeardInTime ==
    \A c, s \in Client : \A m \in 1 .. Packets[s] :
      (c # s /\ {c, s} \subseteq Listed /\ got[s] >= m)
        ~> (~ up \/ closed[c] \/ Pkt("DATA", s, m) \in ToSet(Heard(c)))

\* When a peer has closed and its thread waits in select, the peer of every other
\* listed client reads in the end that it has gone.
GoodbyeHeard ==
    \A c, s \in Client :
      (c # s /\ {c, s} \subseteq Listed /\ closed[s] /\ pc[s] = "select")
        ~> (~ up \/ closed[c] \/ Pkt("DISCONNECTED", s, 0) \in ToSet(Heard(c)))

================================================================================
