-------------------------------- MODULE Timewarp --------------------------------
(***************************************************************************)
(* The timewarp clients of a game (src/src/game_timewarp.c).               *)
(*                                                                         *)
(* Every client runs the whole simulation on a frame clock of its own,     *)
(* which begins when it connects.  A key pressed in a frame is an event to *)
(* be executed local_lag frames later; it is put into the client's own     *)
(* event trace and broadcast.  In every frame a client takes the packets   *)
(* that have arrived, holds each back by the simulated lag of its sender,  *)
(* puts those whose time has come into its event trace, and recomputes its *)
(* state trace from the earliest frame they touch.                         *)
(*                                                                         *)
(* advance_state (balls.c) sorts the events of a frame "so that they work  *)
(* as a set and the function is deterministic".  So a frame's vector of    *)
(* events is modelled by its set, and a state, a function of the sets      *)
(* executed so far, by the sequence of them: two modelled states that are  *)
(* equal are equal for every simulation.                                   *)
(***************************************************************************)
EXTENDS Integers, FiniteSets, SequencesExt

CONSTANTS
    Client,
    Lags,       \* Lags[m][p]: how long m holds back the events of p
    Delay,      \* Delay[m][p]: from the summoning of p's events to their
                \* execution on m; local_lag, 8, for all
    Key,        \* the key events: a button, pressed or released
    Connect,    \* the event that puts a player into the game
    MaxKeys,    \* bound: how many key events a player makes
    LastFrame,  \* bound: how many frames a client computes
    Horizon     \* bound: the last frame for which an event can be scheduled

ASSUME TimewarpConstants ==
    /\ Connect \notin Key
    /\ MaxKeys \in Nat
    /\ LastFrame \in Nat \ {0}
    /\ Horizon \in Nat
    /\ Lags \in [Client -> [Client -> Nat]]
    /\ Delay \in [Client -> [Client -> Nat]]
    /\ \A m, p \in Client :
         /\ LastFrame + Lags[m][p] <= Horizon
         /\ LastFrame + Delay[m][p] <= Horizon

Frame == 0 .. Horizon
Event == [player : Client, summon : 1 .. LastFrame, button : Key \cup {Connect}]

\* Mutant: m executes an event when it takes it out of the buffer.
ExecFrame_OnArrival(m, e) ==
    e.summon + (IF e.player = m THEN Delay[m][m] ELSE Lags[m][e.player])

\* The frame in which m executes an event.
ExecFrame(m, e) == e.summon + Delay[m][e.player]

VARIABLES
    pc,           \* where in its loop a client is; "off" and "exit" outside
    running,      \* game_state.running
    frame,
    minFrame,     \* min_frame, and from there on the loop's i
    stat,
    stateTrace,   \* state_trace
    eventTrace,   \* event_trace
    eventBuffer,  \* event_buffer
    wire,         \* wire[s][c]: events sent by s that c has not yet retrieved
    missed        \* senders whose history was gone when the client connected

local == <<stat, stateTrace, eventTrace, eventBuffer>>
vars == <<pc, running, frame, minFrame, stat, stateTrace, eventTrace,
          eventBuffer, wire, missed>>

Init ==
    /\ pc = [c \in Client |-> "off"]
    /\ running = [c \in Client |-> TRUE]
    /\ frame = [c \in Client |-> 1]
    /\ minFrame = [c \in Client |-> 1]
    /\ stat = [c \in Client |-> <<>>]
    /\ stateTrace = [c \in Client |-> [f \in Frame |-> <<>>]]
    /\ eventTrace = [c \in Client |-> [f \in Frame |-> {}]]
    /\ eventBuffer = [c \in Client |-> [f \in Frame |-> {}]]
    /\ wire = [s \in Client |-> [c \in Client |-> <<>>]]
    /\ missed = [c \in Client |-> {}]

Goto(c, label) == pc' = [pc EXCEPT ![c] = label]

\* send_packet: the server passes what c sends to every other client, and to
\* those who connect later.
Broadcast(c, es) ==
    wire' = [wire EXCEPT ![c] =
               [d \in Client |-> IF d = c THEN @[d] ELSE @[d] \o es]]

\* The bucket in which c's events of the current frame go.
OwnFrame(c) == frame[c] + Delay[c][c]

\* The event with which c enters the game.
Connection(c) == [player |-> c, summon |-> 1, button |-> Connect]

\* A client connects, schedules its connect event and sends it.  What a client
\* sent that left before is lost when it left before this one was registered.
Start(c) ==
    /\ pc[c] = "off"
    /\ eventTrace' = [eventTrace EXCEPT ![c][OwnFrame(c)] = {Connection(c)}]
    /\ \E lost \in SUBSET {s \in Client : pc[s] = "exit"} :
         /\ wire' = [s \in Client |-> [d \in Client |->
                       IF s = c /\ d # c THEN Append(wire[s][d], Connection(c))
                       ELSE IF d = c /\ s \in lost THEN <<>>
                       ELSE wire[s][d]]]
         /\ missed' = [missed EXCEPT ![c] = lost]
    /\ Goto(c, "poll")
    /\ UNCHANGED <<running, frame, minFrame, stat, stateTrace, eventBuffer>>

\* The frames for which c has scheduled a key.
KeyFrames(c) ==
    {f \in Frame : \E e \in eventTrace[c][f] : e.player = c /\ e.button # Connect}

\* The frame begins: the keys polled, at most one in a frame here, go into the
\* bucket, and all the client's own events of the bucket are sent: in the first
\* frame that is the connect event once more.
Poll(c) ==
    /\ pc[c] = "poll"
    /\ frame[c] <= LastFrame
    /\ stateTrace' = [stateTrace EXCEPT ![c][frame[c]] = stat[c]]
    /\ \E keys \in {<<>>} \cup {<<k>> : k \in Key} :
         /\ keys # <<>> => Cardinality(KeyFrames(c)) < MaxKeys
         /\ LET bucket == eventTrace[c][OwnFrame(c)]
                again == IF Connection(c) \in bucket THEN <<Connection(c)>> ELSE <<>>
                new == [i \in DOMAIN keys |->
                          [player |-> c, summon |-> frame[c], button |-> keys[i]]] IN
              /\ eventTrace' =
                   [eventTrace EXCEPT ![c][OwnFrame(c)] = bucket \cup ToSet(new)]
              /\ Broadcast(c, again \o new)
    /\ \E quit \in BOOLEAN : running' = [running EXCEPT ![c] = ~ quit]
    /\ Goto(c, "receive")
    /\ UNCHANGED <<frame, minFrame, stat, eventBuffer, missed>>

\* Mutant: an event later than its lag is put into a frame already over.
BufferFrame_NoLate(c, e) ==
    IF Lags[c][e.player] = 0 THEN frame[c] ELSE e.summon + Lags[c][e.player]

\* The frame in which c takes e, which it has just received, out of the buffer.
BufferFrame(c, e) ==
    LET q == e.summon + Lags[c][e.player] IN
      IF Lags[c][e.player] = 0 \/ q < frame[c] THEN frame[c] ELSE q

Receive(c, s) ==
    /\ pc[c] = "receive"
    /\ wire[s][c] # <<>>
    /\ LET e == Head(wire[s][c]) IN
         eventBuffer' = [eventBuffer EXCEPT ![c][BufferFrame(c, e)] = @ \cup {e}]
    /\ wire' = [wire EXCEPT ![s][c] = Tail(@)]
    /\ UNCHANGED <<pc, running, frame, minFrame, stat, stateTrace, eventTrace>>
    /\ UNCHANGED missed

\* Mutant: a late event does not bring the states after it to be recomputed.
Drain_NoRollback(c) ==
    /\ pc[c] = "receive"
    /\ LET due == eventBuffer[c][frame[c]] IN
         eventTrace' = [eventTrace EXCEPT ![c] =
           [f \in Frame |->
              @[f] \cup {e \in due : ExecFrame(c, e) = f}]]
    /\ Goto(c, "sync")
    /\ UNCHANGED <<running, frame, minFrame, stat, stateTrace, eventBuffer>>
    /\ UNCHANGED <<wire, missed>>

\* No packet is left in the queue, though some may be under way: the events
\* due in this frame go into the trace, and the earliest one says from where
\* on the states have to be computed again.
Drain(c) ==
    /\ pc[c] = "receive"
    /\ LET due == eventBuffer[c][frame[c]]
           touched == {frame[c]} \cup {ExecFrame(c, e) : e \in due} IN
         /\ eventTrace' = [eventTrace EXCEPT ![c] =
              [f \in Frame |->
                 @[f] \cup {e \in due : ExecFrame(c, e) = f}]]
         /\ \E m \in touched :
              /\ \A f \in touched : m <= f
              /\ minFrame' = [minFrame EXCEPT ![c] = m]
    /\ Goto(c, "sync")
    /\ UNCHANGED <<running, frame, stat, stateTrace, eventBuffer, wire, missed>>

\* advance_state, on the set of a frame's events.
Advance(st, es) == Append(st, es)

\* Mutant: the loop runs one frame too far.
Synchronize_OneMore(c) ==
    /\ pc[c] = "sync"
    /\ minFrame[c] <= frame[c] + 1
    /\ LET i == minFrame[c]
           st == Advance(stateTrace[c][i - 1], eventTrace[c][i]) IN
         /\ stat' = [stat EXCEPT ![c] = st]
         /\ stateTrace' = [stateTrace EXCEPT ![c][i] = st]
         /\ minFrame' = [minFrame EXCEPT ![c] = i + 1]
    /\ UNCHANGED <<pc, running, frame, eventTrace, eventBuffer, wire, missed>>

\* Mutant: the new state overwrites the one it was computed from.
Synchronize_WrongSlot(c) ==
    /\ pc[c] = "sync"
    /\ minFrame[c] <= frame[c]
    /\ LET i == minFrame[c]
           st == Advance(stateTrace[c][i - 1], eventTrace[c][i]) IN
         /\ stat' = [stat EXCEPT ![c] = st]
         /\ stateTrace' = [stateTrace EXCEPT ![c][i - 1] = st]
         /\ minFrame' = [minFrame EXCEPT ![c] = i + 1]
    /\ UNCHANGED <<pc, running, frame, eventTrace, eventBuffer, wire, missed>>

\* One turn of the loop that recomputes the state trace.
Synchronize(c) ==
    /\ pc[c] = "sync"
    /\ minFrame[c] <= frame[c]
    /\ LET i == minFrame[c]
           st == Advance(stateTrace[c][i - 1], eventTrace[c][i]) IN
         /\ stat' = [stat EXCEPT ![c] = st]
         /\ stateTrace' = [stateTrace EXCEPT ![c][i] = st]
         /\ minFrame' = [minFrame EXCEPT ![c] = i + 1]
    /\ UNCHANGED <<pc, running, frame, eventTrace, eventBuffer, wire, missed>>

\* The frame ends, and with it the loop when the window was closed.
EndFrame(c) ==
    /\ pc[c] = "sync"
    /\ minFrame[c] > frame[c]
    /\ frame' = [frame EXCEPT ![c] = @ + 1]
    /\ minFrame' = [minFrame EXCEPT ![c] = frame[c] + 1]
    /\ Goto(c, IF running[c] THEN "poll" ELSE "exit")
    /\ UNCHANGED <<running, local, wire, missed>>

GameLoop(c) ==
    \/ Poll(c)
    \/ \E s \in Client : Receive(c, s)
    \/ Drain(c)
    \/ Synchronize(c)
    \/ EndFrame(c)

Next == \E c \in Client : Start(c) \/ GameLoop(c)

Spec == Init /\ [][Next]_vars

-------------------------------------------------------------------------------

TypeOK ==
    /\ pc \in [Client -> {"off", "poll", "receive", "sync", "exit"}]
    /\ running \in [Client -> BOOLEAN]
    /\ frame \in [Client -> 1 .. LastFrame + 1]
    /\ minFrame \in [Client -> 1 .. LastFrame + 1]
    /\ stat \in [Client -> Seq(SUBSET Event)]
    /\ stateTrace \in [Client -> [Frame -> Seq(SUBSET Event)]]
    /\ eventTrace \in [Client -> [Frame -> SUBSET Event]]
    /\ eventBuffer \in [Client -> [Frame -> SUBSET Event]]
    /\ wire \in [Client -> [Client -> Seq(Event)]]
    /\ missed \in [Client -> SUBSET Client]

\* The state that the trace of c's events determines for a frame.
History(c, f) == [k \in 1 .. f |-> eventTrace[c][k]]

\* The frames whose state is not waiting to be computed again.
Settled(c) == IF pc[c] = "sync" THEN 0 .. minFrame[c] - 1 ELSE 0 .. frame[c] - 1

\* Every settled state is what the event trace says, whatever arrived late and
\* however far back, and the state that is drawn is the last one.
TraceCoherent ==
    \A c \in Client :
      /\ \A f \in Settled(c) : stateTrace[c][f] = History(c, f)
      /\ pc[c] # "sync" => stat[c] = stateTrace[c][frame[c] - 1]

\* No event stays behind in the buffer: one put there for a frame is in the
\* event trace when that frame is over.
NoneStranded ==
    \A c \in Client : \A f \in Frame :
      f < frame[c] \/ (f = frame[c] /\ pc[c] = "sync") =>
        \A e \in eventBuffer[c][f] : e \in eventTrace[c][ExecFrame(c, e)]

\* All that was sent to c and not lost is in its event trace.
CaughtUp(c) ==
    /\ pc[c] \in {"poll", "exit"}
    /\ \A s \in Client : wire[s][c] = <<>>
    /\ \A f \in Frame : f >= frame[c] => eventBuffer[c][f] = {}

\* Clients that have caught up have the same state in every frame that both
\* have computed, unless they missed different clients.
Converged ==
    \A c, d \in Client :
      CaughtUp(c) /\ CaughtUp(d) /\ missed[c] = missed[d] =>
        \A f \in 0 .. LastFrame : f < frame[c] /\ f < frame[d] =>
          stateTrace[c][f] = stateTrace[d][f]

\* A state already computed is only computed anew, with another result, on
\* account of an event of another client that came after its frame.
RollbackJustified ==
    [][\A c \in Client : \A f \in 1 .. frame[c] - 1 :
         stateTrace[c][f]' # stateTrace[c][f] =>
           \E e \in eventBuffer[c][frame[c]] :
             e.player # c /\ ExecFrame(c, e) <= f]_vars

===============================================================================
