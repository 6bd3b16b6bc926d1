----------------------------- MODULE DeadReckoning -----------------------------
(***************************************************************************)
(* The dead reckoning server (src/src/dr_server.c) and its clients         *)
(* (src/src/game_deadreckoning.c).                                         *)
(*                                                                         *)
(* In every tick the server accepts at most one player, takes the events   *)
(* that have arrived, advances the state of the game and sends it to every *)
(* player, with the summon frame of the last event it took from that       *)
(* player (_lie).  A client sends its events when they are summoned, keeps *)
(* the states it receives, loads in each of its frames at most one that is *)
(* old enough, and computes from there to its own frame with its own       *)
(* events, executed local_lags frames after their summoning.               *)
(*                                                                         *)
(* A state is the sequence of the sets of events executed in its frames,   *)
(* as in Timewarp: its frame is the length.  Player ids are given out in   *)
(* the order of acceptance, and client c is the one that is given c.       *)
(***************************************************************************)
EXTENDS Integers, SequencesExt

CONSTANTS
    N,          \* bound: how many clients connect
    InputLags,  \* input_lags: how long a client holds back a state
    LocalLags,  \* local_lags: from an event's summoning to its execution
    Key,        \* the key events: a button, pressed or released
    Connect,    \* the event that puts a player into the game
    MaxKeys,    \* bound: how many key events a player makes
    Quitters,   \* clients that may close their window
    LastTick,   \* bound: how many ticks the server makes
    LastFrame   \* bound: how many frames a client makes

Client == 0 .. N - 1

ASSUME DeadReckoningConstants ==
    /\ N \in 1 .. 8
    /\ InputLags \in [Client -> Nat] /\ LocalLags \in [Client -> Nat]
    /\ Connect \notin Key
    /\ MaxKeys \in [Client -> Nat]
    /\ LastTick \in Nat /\ LastFrame \in Nat \ {0}

Event == [player : Client, summon : 1 .. LastFrame, frame : Nat,
          button : Key \cup {Connect}]

VARIABLES
    \* the server
    at,           \* the part of the tick it is in
    turn,         \* the player its loop has come to
    playerCount,  \* player_count
    lie,          \* players[i].lie
    evs,          \* events collected in this tick
    world,        \* the server's stat
    up,           \* the server process is running
    \* the connections
    toServer,     \* events sent and not yet retrieved
    toClient,     \* states sent and not yet retrieved
    reset,        \* the RST of a client that has gone has reached the server
    \* the clients
    pc,
    running,      \* game_state.running
    frame,
    eventTrace,   \* event_trace, a client's own events by summon frame
    memory,       \* state_memory
    access,       \* state_memory_access
    stat

tick == <<at, turn, playerCount, lie, evs, world, up>>
clients == <<pc, running, frame, eventTrace, memory, access, stat>>
vars == <<at, turn, playerCount, lie, evs, world, up, toServer, toClient, reset,
          pc, running, frame, eventTrace, memory, access, stat>>

Init ==
    /\ at = "accept" /\ turn = 0 /\ playerCount = 0
    /\ lie = [c \in Client |-> 0]
    /\ evs = <<>> /\ world = <<>> /\ up = TRUE
    /\ toServer = [c \in Client |-> <<>>]
    /\ toClient = [c \in Client |-> <<>>]
    /\ reset = [c \in Client |-> FALSE]
    /\ pc = [c \in Client |-> "off"]
    /\ running = [c \in Client |-> TRUE]
    /\ frame = [c \in Client |-> 1]
    /\ eventTrace = [c \in Client |-> [f \in 1 .. LastFrame |-> {}]]
    /\ memory = [c \in Client |-> <<>>]
    /\ access = [c \in Client |-> 0]
    /\ stat = [c \in Client |-> <<>>]

-------------------------------------------------------------------------------
(* A tick of the server *)

\* At most one client is accepted; its handshake is the first it is sent.
Accept ==
    /\ at = "accept"
    /\ Len(world) < LastTick
    /\ \/ /\ playerCount < N
          /\ playerCount' = playerCount + 1
          /\ lie' = [lie EXCEPT ![playerCount] = 0]
       \/ UNCHANGED <<playerCount, lie>>
    /\ at' = "collect" /\ turn' = 0
    /\ UNCHANGED <<evs, world, up, toServer, toClient, reset, clients>>

Collect ==
    /\ at = "collect"
    /\ turn < playerCount
    /\ toServer[turn] # <<>>
    /\ LET e == Head(toServer[turn]) IN
         /\ lie' = [lie EXCEPT ![turn] = e.summon]
         /\ evs' = Append(evs, e)
    /\ toServer' = [toServer EXCEPT ![turn] = Tail(@)]
    /\ UNCHANGED <<at, turn, playerCount, world, up, toClient, reset, clients>>

\* The player's queue is empty, though events may be under way.
NextPlayer ==
    /\ at = "collect"
    /\ turn < playerCount
    /\ turn' = turn + 1
    /\ UNCHANGED <<at, playerCount, lie, evs, world, up>>
    /\ UNCHANGED <<toServer, toClient, reset, clients>>

Advance ==
    /\ at = "collect"
    /\ turn = playerCount
    /\ world' = Append(world, ToSet(evs))
    /\ at' = "send" /\ turn' = 0
    /\ UNCHANGED <<playerCount, lie, evs, up, toServer, toClient, reset, clients>>

\* Mutant: _lie is set once, before the loop.
SendState_SharedLie ==
    /\ at = "send"
    /\ turn < playerCount
    /\ pc[turn] # "exit"
    /\ toClient' = [toClient EXCEPT
                      ![turn] = Append(@, [hist |-> world, lie |-> lie[0]])]
    /\ turn' = turn + 1
    /\ UNCHANGED <<at, playerCount, lie, evs, world, up, toServer, reset, clients>>

SendState ==
    /\ at = "send"
    /\ turn < playerCount
    /\ pc[turn] # "exit"
    /\ toClient' = [toClient EXCEPT
                      ![turn] = Append(@, [hist |-> world, lie |-> lie[turn]])]
    /\ turn' = turn + 1
    /\ UNCHANGED <<at, playerCount, lie, evs, world, up, toServer, reset, clients>>

\* A player that has gone stays in the list.  What is sent to it is answered by
\* a RST, after which a send fails, or raises SIGPIPE, for which the server
\* installs no handler.
SendGone ==
    /\ at = "send"
    /\ turn < playerCount
    /\ pc[turn] = "exit"
    /\ \/ reset' = [reset EXCEPT ![turn] = TRUE] /\ UNCHANGED up
       \/ reset[turn] /\ up' = FALSE /\ UNCHANGED reset
    /\ turn' = turn + 1
    /\ UNCHANGED <<at, playerCount, lie, evs, world, toServer, toClient, clients>>

\* Mutant: ev_count keeps its value.
EndTick_NoReset ==
    /\ at = "send"
    /\ turn = playerCount
    /\ at' = "accept"
    /\ UNCHANGED <<turn, playerCount, lie, evs, world, up>>
    /\ UNCHANGED <<toServer, toClient, reset, clients>>

EndTick ==
    /\ at = "send"
    /\ turn = playerCount
    /\ evs' = <<>>
    /\ at' = "accept"
    /\ UNCHANGED <<turn, playerCount, lie, world, up>>
    /\ UNCHANGED <<toServer, toClient, reset, clients>>

Server ==
    /\ up
    /\ \/ Accept \/ Collect \/ NextPlayer \/ Advance
       \/ SendState \/ SendGone \/ EndTick

-------------------------------------------------------------------------------
(* A client *)

Summoned(c, b) == [player |-> c, summon |-> frame[c],
                   frame |-> frame[c] + LocalLags[c], button |-> b]

\* The handshake has come: the connect event is sent, and put into the bucket of
\* the first frame, in which it will be sent again.
Start(c) ==
    /\ pc[c] = "off"
    /\ c < playerCount
    /\ eventTrace' = [eventTrace EXCEPT ![c][frame[c]] = {Summoned(c, Connect)}]
    /\ toServer' = [toServer EXCEPT ![c] = Append(@, Summoned(c, Connect))]
    /\ pc' = [pc EXCEPT ![c] = "poll"]
    /\ UNCHANGED <<tick, toClient, reset, running, frame, memory, access, stat>>

KeyFrames(c) ==
    {f \in 1 .. LastFrame : \E e \in eventTrace[c][f] : e.button # Connect}

\* The keys polled, at most one in a frame here, go into the bucket of the
\* frame, and all that is in the bucket is sent: in the first frame that is the
\* connect event once more.
Poll(c) ==
    /\ pc[c] = "poll"
    /\ frame[c] <= LastFrame
    /\ \E keys \in {<<>>} \cup {<<k>> : k \in Key} :
         /\ keys # <<>> => Cardinality(KeyFrames(c)) < MaxKeys[c]
         /\ LET bucket == eventTrace[c][frame[c]]
                again == IF Summoned(c, Connect) \in bucket
                         THEN <<Summoned(c, Connect)>> ELSE <<>>
                new == [i \in DOMAIN keys |-> Summoned(c, keys[i])] IN
              /\ eventTrace' =
                   [eventTrace EXCEPT ![c][frame[c]] = bucket \cup ToSet(new)]
              /\ toServer' = [toServer EXCEPT ![c] = @ \o again \o new]
    /\ \E quit \in BOOLEAN :
         /\ quit => c \in Quitters
         /\ running' = [running EXCEPT ![c] = ~ quit]
    /\ pc' = [pc EXCEPT ![c] = "receive"]
    /\ UNCHANGED <<tick, toClient, reset, frame, memory, access, stat>>

Receive(c) ==
    /\ pc[c] = "receive"
    /\ toClient[c] # <<>>
    /\ memory' = [memory EXCEPT ![c] = Append(@, Head(toClient[c]))]
    /\ toClient' = [toClient EXCEPT ![c] = Tail(@)]
    /\ UNCHANGED <<tick, toServer, reset, pc, running, frame, eventTrace>>
    /\ UNCHANGED <<access, stat>>

\* There is a state not yet loaded, and it has waited out the input lag.
Loadable(c) ==
    /\ access[c] < Len(memory[c])
    /\ frame[c] >= Len(memory[c][access[c] + 1].hist) + InputLags[c]

\* Mutant: the events are executed one frame late.
Own_Late(c, i) ==
    IF i - 1 - LocalLags[c] \in 1 .. LastFrame
    THEN eventTrace[c][i - 1 - LocalLags[c]]
    ELSE {}

\* The own events that c executes between the frames i and i + 1.
Own(c, i) ==
    IF i - LocalLags[c] \in 1 .. LastFrame
    THEN eventTrace[c][i - LocalLags[c]]
    ELSE {}

\* Mutant: the loop ends one frame early.
Predict_Short(c, st) ==
    st \o [k \in 1 .. frame[c] - 1 - Len(st) |-> Own(c, Len(st) + k - 1)]

\* Mutant: each turn takes the events of the next frame.
Predict_Early(c, st) ==
    st \o [k \in 1 .. frame[c] - Len(st) |-> Own(c, Len(st) + k)]

\* The loop that brings a state to the frame of the client.  The test that would
\* leave out events the server has executed is disabled.
Predict(c, st) ==
    st \o [k \in 1 .. frame[c] - Len(st) |-> Own(c, Len(st) + k - 1)]

\* No packet is left in the queue: a state may be loaded, and what is drawn is
\* computed up to the client's frame.
Finish(c) ==
    /\ pc[c] = "receive"
    /\ running[c]
    /\ IF Loadable(c)
         THEN /\ access' = [access EXCEPT ![c] = @ + 1]
              /\ stat' = [stat EXCEPT
                            ![c] = Predict(c, memory[c][access[c] + 1].hist)]
         ELSE /\ stat' = [stat EXCEPT ![c] = Predict(c, stat[c])]
              /\ UNCHANGED access
    /\ frame' = [frame EXCEPT ![c] = @ + 1]
    /\ pc' = [pc EXCEPT ![c] = "poll"]
    /\ UNCHANGED <<tick, toServer, toClient, reset, running, eventTrace, memory>>

\* The frame in which the window was closed is the last one.  The end of the
\* process closes the connection; what has not been read on either side is lost
\* when a RST is sent.
Exit(c) ==
    /\ pc[c] = "receive"
    /\ ~ running[c]
    /\ pc' = [pc EXCEPT ![c] = "exit"]
    /\ toClient' = [toClient EXCEPT ![c] = <<>>]
    /\ \/ /\ reset' = [reset EXCEPT ![c] = TRUE]
          /\ \E k \in 0 .. Len(toServer[c]) :
               toServer' = [toServer EXCEPT ![c] = SubSeq(@, 1, k)]
       \/ UNCHANGED <<toServer, reset>>
    /\ frame' = [frame EXCEPT ![c] = 1]
    /\ eventTrace' = [eventTrace EXCEPT ![c] = [f \in 1 .. LastFrame |-> {}]]
    /\ memory' = [memory EXCEPT ![c] = <<>>]
    /\ access' = [access EXCEPT ![c] = 0]
    /\ stat' = [stat EXCEPT ![c] = <<>>]
    /\ UNCHANGED <<tick, running>>

Next ==
    \/ Server
    \/ \E c \in Client :
         Start(c) \/ Poll(c) \/ Receive(c) \/ Finish(c) \/ Exit(c)

Spec == Init /\ [][Next]_vars

-------------------------------------------------------------------------------

History == Seq(SUBSET Event)

TypeOK ==
    /\ at \in {"accept", "collect", "send"}
    /\ turn \in 0 .. playerCount
    /\ playerCount \in 0 .. N
    /\ lie \in [Client -> 0 .. LastFrame]
    /\ evs \in Seq(Event)
    /\ world \in History
    /\ up \in BOOLEAN
    /\ toServer \in [Client -> Seq(Event)]
    /\ toClient \in [Client -> Seq([hist : History, lie : 0 .. LastFrame])]
    /\ reset \in [Client -> BOOLEAN]
    /\ pc \in [Client -> {"off", "poll", "receive", "exit"}]
    /\ running \in [Client -> BOOLEAN]
    /\ frame \in [Client -> 1 .. LastFrame + 1]
    /\ eventTrace \in [Client -> [1 .. LastFrame -> SUBSET Event]]
    /\ memory \in [Client -> Seq([hist : History, lie : 0 .. LastFrame])]
    /\ \A c \in Client : access[c] \in 0 .. Len(memory[c])
    /\ \A c \in Client : stat[c] \in History /\ Len(stat[c]) = frame[c] - 1

OwnIn(c, es) == {e \in es : e.player = c}

\* The events of c that a state has executed.
Executed(c, st) == UNION {OwnIn(c, st[k]) : k \in DOMAIN st}

\* The server executes each event of a player once, in the order in which they
\* were summoned, and forgets none of a player that stays: what has been sent is
\* executed, collected, or under way.
EachOnce ==
    \A c \in Client :
      /\ \A j, k \in DOMAIN world : j < k =>
           \A e \in OwnIn(c, world[j]), d \in OwnIn(c, world[k]) :
             e.summon < d.summon \/ e.button = Connect
               \/ (e.summon = d.summon /\ e # d)
      /\ pc[c] # "exit" =>
           \A f \in 1 .. LastFrame :
             eventTrace[c][f] \subseteq
               Executed(c, world) \cup ToSet(evs) \cup ToSet(toServer[c])

\* A state tells its receiver exactly which of its events it has executed: none
\* summoned after _lie, and all that were summoned before it.
LieExact ==
    \A c \in Client : \A m \in ToSet(memory[c]) \cup ToSet(toClient[c]) :
      /\ \A e \in Executed(c, m.hist) : e.summon <= m.lie
      /\ m.lie > 0 => \E e \in Executed(c, m.hist) : e.summon = m.lie
      /\ \A f \in 1 .. m.lie - 1 : eventTrace[c][f] \subseteq Executed(c, m.hist)

\* The state c loaded last.
Base(c) == IF access[c] = 0 THEN <<>> ELSE memory[c][access[c]].hist

\* What a client draws is the state it has loaded last, then its own events, each
\* in its execution frame, whether computed at once or over many frames.
Predicted ==
    \A c \in Client : \A k \in DOMAIN stat[c] :
      stat[c][k] = IF k <= Len(Base(c)) THEN Base(c)[k]
                   ELSE {e \in UNION {eventTrace[c][f] : f \in 1 .. LastFrame} :
                           e.frame = k - 1}

\* So far the server has executed each event of c in its execution frame.
WellAdjusted(c) ==
    \A k \in DOMAIN world :
      OwnIn(c, world[k]) =
        {e \in UNION {eventTrace[c][f] : f \in 1 .. LastFrame} : e.frame = k - 1}

\* "Adjust the local lag so that its execution frame is that in which the event
\* reaches the server": then the client has drawn its own events as the server
\* has executed them, and no state that is loaded takes one back.
Unnoticed ==
    \A c \in Client : WellAdjusted(c) =>
      \A k \in DOMAIN stat[c] : k \in DOMAIN world =>
        OwnIn(c, stat[c][k]) = OwnIn(c, world[k])

\* "Apply all events that have not been applied in server side": an event that
\* is executed in the loaded state is not executed again.
NotTwice ==
    \A c \in Client : \A e \in Executed(c, stat[c]) :
      e.button # Connect =>
        Cardinality({k \in DOMAIN stat[c] : e \in stat[c][k]}) = 1

================================================================================
