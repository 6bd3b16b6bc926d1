----------------------------- MODULE TimewarpProofs -----------------------------
(***************************************************************************)
(* Proofs about the timewarp clients, for every number of clients, every   *)
(* lag matrix, every delay, set of keys and number of frames.              *)
(***************************************************************************)
EXTENDS Timewarp, TLAPS

\* Where min_frame is in each part of the loop, and that a client that is not
\* yet connected has its clock at the first frame.
LoopInv ==
    \A c \in Client :
      /\ pc[c] = "off" => frame[c] = 1
      /\ pc[c] = "sync" => minFrame[c] <= frame[c] + 1
      /\ pc[c] # "sync" => minFrame[c] = frame[c]
      /\ pc[c] \in {"off", "receive", "sync"} => frame[c] <= LastFrame

\* When the loop has run to the current frame, its last state is that frame's.
DrawnInv ==
    \A c \in Client :
      pc[c] = "sync" /\ minFrame[c] > frame[c] => stat[c] = stateTrace[c][frame[c]]

\* What is under way from a client is its own, and nothing comes back to it.
WireInv ==
    /\ \A s, d \in Client : \A i \in DOMAIN wire[s][d] : wire[s][d][i].player = s
    /\ \A c \in Client : wire[c][c] = <<>>
    /\ \A c \in Client : \A f \in Frame : \A e \in eventBuffer[c][f] :
         e.player # c /\ pc[c] # "off"

\* The loop goes back behind the current frame on account of an event that is
\* to be executed at or before the frame it has come to.
RewindInv ==
    \A c \in Client :
      pc[c] = "sync" /\ minFrame[c] < frame[c] =>
        \E e \in eventBuffer[c][frame[c]] : ExecFrame(c, e) <= minFrame[c]

IInv ==
    /\ TypeOK /\ LoopInv /\ DrawnInv /\ TraceCoherent
    /\ NoneStranded /\ WireInv /\ RewindInv

-------------------------------------------------------------------------------
(* Frames and events *)

\* The bounds are natural numbers.
LEMMA Bounds == Horizon \in Nat /\ LastFrame \in Nat \ {0}
BY TimewarpConstants DEF TimewarpConstants

\* What is scheduled from a frame of the game is scheduled for a frame that
\* exists and is not earlier.
LEMMA Scheduled ==
    ASSUME NEW m \in Client, NEW p \in Client, NEW f \in 1 .. LastFrame
    PROVE  /\ f \in Frame /\ f - 1 \in Frame
           /\ f + Delay[m][p] \in Frame /\ f + Delay[m][p] >= f
           /\ f + Lags[m][p] \in Frame /\ f + Lags[m][p] >= f
<1>1. /\ LastFrame \in Nat /\ Horizon \in Nat
      /\ Delay[m][p] \in Nat /\ Lags[m][p] \in Nat
      /\ LastFrame + Delay[m][p] <= Horizon
      /\ LastFrame + Lags[m][p] <= Horizon
  BY TimewarpConstants DEF TimewarpConstants
<1> QED
  BY <1>1, SMT DEF Frame

\* An event is executed in a frame that exists, and never in frame 0.
LEMMA ExecFrameType ==
    ASSUME NEW m \in Client, NEW e \in Event
    PROVE  ExecFrame(m, e) \in Frame /\ ExecFrame(m, e) >= 1
<1>1. e.player \in Client /\ e.summon \in 1 .. LastFrame
  BY DEF Event
<1>2. /\ e.summon + Delay[m][e.player] \in Frame
      /\ e.summon + Delay[m][e.player] >= e.summon
  BY <1>1, Scheduled
<1> QED
  BY <1>1, <1>2, SMT DEF ExecFrame, Frame

\* The connect event and the key events are events.
LEMMA EventTypes ==
    ASSUME NEW c \in Client
    PROVE  /\ Connection(c) \in Event
           /\ \A f \in 1 .. LastFrame, k \in Key :
                [player |-> c, summon |-> f, button |-> k] \in Event
<1>1. 1 \in 1 .. LastFrame
  BY SMT, TimewarpConstants DEF TimewarpConstants
<1> QED
  BY <1>1 DEF Connection, Event

\* An event received is put into the buffer for a frame that exists and is not
\* over, whether it is held back or came late.
LEMMA BufferFrameType ==
    ASSUME NEW c \in Client, NEW e \in Event, frame[c] \in 1 .. LastFrame
    PROVE  BufferFrame(c, e) \in Frame /\ BufferFrame(c, e) >= frame[c]
<1>1. e.player \in Client /\ e.summon \in 1 .. LastFrame
  BY DEF Event
<1>2. e.summon + Lags[c][e.player] \in Frame /\ frame[c] \in Frame
  BY <1>1, Scheduled
<1> QED
  BY <1>2, SMT DEF BufferFrame, Frame

\* What a client sends in a frame goes to the others as a sequence of events.
LEMMA BroadcastType ==
    ASSUME TypeOK, NEW c \in Client, NEW es \in Seq(Event), Broadcast(c, es)
    PROVE  wire' \in [Client -> [Client -> Seq(Event)]]
<1>1. \A d \in Client : wire[c][d] \in Seq(Event) /\ wire[c][d] \o es \in Seq(Event)
  BY SMT DEF TypeOK
<1>2. [d \in Client |-> IF d = c THEN wire[c][d] ELSE wire[c][d] \o es]
        \in [Client -> Seq(Event)]
  BY <1>1
<1> QED
  BY <1>2 DEF TypeOK, Broadcast

-------------------------------------------------------------------------------
(* Every variable keeps its type. *)

\* Start leaves every variable in its type.
LEMMA StartType ==
    ASSUME IInv, NEW c \in Client, Start(c)
    PROVE  TypeOK'
<1>1. frame[c] = 1 /\ 1 \in 1 .. LastFrame
  BY SMT, TimewarpConstants DEF IInv, LoopInv, Start, TimewarpConstants
<1>2. OwnFrame(c) \in Frame
  BY <1>1, Scheduled DEF OwnFrame
<1>3. Connection(c) \in Event
  BY EventTypes
<1>4. eventTrace' \in [Client -> [Frame -> SUBSET Event]]
  BY <1>2, <1>3 DEF IInv, TypeOK, Start
<1>5. wire' \in [Client -> [Client -> Seq(Event)]]
  <2>1. \A s, d \in Client : /\ wire[s][d] \in Seq(Event)
                             /\ Append(wire[s][d], Connection(c)) \in Seq(Event)
                             /\ <<>> \in Seq(Event)
    BY <1>3, SMT DEF IInv, TypeOK
  <2> QED
    BY <2>1 DEF Start
<1>6. missed' \in [Client -> SUBSET Client]
  BY DEF IInv, TypeOK, Start
<1> QED
  BY <1>4, <1>5, <1>6 DEF IInv, TypeOK, Start, Goto

\* Poll leaves every variable in its type.
LEMMA PollType ==
    ASSUME IInv, NEW c \in Client, Poll(c)
    PROVE  TypeOK'
<1>1. frame[c] \in 1 .. LastFrame
  BY SMT, TimewarpConstants DEF IInv, TypeOK, Poll, TimewarpConstants
<1>2. OwnFrame(c) \in Frame /\ frame[c] \in Frame
  BY <1>1, Scheduled DEF OwnFrame
<1>3. PICK keys \in {<<>>} \cup {<<k>> : k \in Key} :
        LET bucket == eventTrace[c][OwnFrame(c)]
            again == IF Connection(c) \in bucket THEN <<Connection(c)>> ELSE <<>>
            new == [i \in DOMAIN keys |->
                      [player |-> c, summon |-> frame[c], button |-> keys[i]]] IN
          /\ eventTrace' =
               [eventTrace EXCEPT ![c][OwnFrame(c)] = bucket \cup ToSet(new)]
          /\ Broadcast(c, again \o new)
  BY DEF Poll
<1> DEFINE bucket == eventTrace[c][OwnFrame(c)]
           again == IF Connection(c) \in bucket THEN <<Connection(c)>> ELSE <<>>
           new == [i \in DOMAIN keys |->
                     [player |-> c, summon |-> frame[c], button |-> keys[i]]]
<1>4. new \in Seq(Event)
  <2>1. CASE keys = <<>>
    BY <2>1, SMT
  <2>2. CASE \E k \in Key : keys = <<k>>
    <3>1. PICK k \in Key : keys = <<k>>
      BY <2>2
    <3>2. [player |-> c, summon |-> frame[c], button |-> k] \in Event
      BY <1>1, EventTypes
    <3>3. new = <<[player |-> c, summon |-> frame[c], button |-> k]>>
      BY <3>1, SMT
    <3> QED
      BY <3>2, <3>3, SMT
  <2> QED
    BY <2>1, <2>2
<1>5. again \in Seq(Event)
  BY EventTypes, SMT
<1>6. again \o new \in Seq(Event)
  BY <1>4, <1>5, SMT
<1>7. ToSet(new) \subseteq Event
  <2> HIDE DEF new
  <2> QED BY <1>4, SMT DEF ToSet
<1>8. eventTrace' \in [Client -> [Frame -> SUBSET Event]]
  <2> HIDE DEF new
  <2>1. bucket \cup ToSet(new) \in SUBSET Event
    BY <1>2, <1>7 DEF IInv, TypeOK
  <2>2. eventTrace' = [eventTrace EXCEPT ![c][OwnFrame(c)] = bucket \cup ToSet(new)]
    BY <1>3 DEF new
  <2> QED
    BY <1>2, <2>1, <2>2 DEF IInv, TypeOK
<1>9. wire' \in [Client -> [Client -> Seq(Event)]]
  <2>1. Broadcast(c, again \o new)
    BY <1>3
  <2> HIDE DEF again, new
  <2> QED
    BY <1>6, <2>1, BroadcastType DEF IInv
<1>10. stateTrace' \in [Client -> [Frame -> Seq(SUBSET Event)]]
  BY <1>2 DEF IInv, TypeOK, Poll
<1>11. running' \in [Client -> BOOLEAN]
  BY DEF IInv, TypeOK, Poll
<1>12. pc' \in [Client -> {"off", "poll", "receive", "sync", "exit"}]
  BY DEF IInv, TypeOK, Poll, Goto
<1> QED
  BY <1>8, <1>9, <1>10, <1>11, <1>12 DEF IInv, TypeOK, Poll

\* Receive leaves every variable in its type.
LEMMA ReceiveType ==
    ASSUME IInv, NEW c \in Client, NEW s \in Client, Receive(c, s)
    PROVE  TypeOK'
<1>1. frame[c] \in 1 .. LastFrame
  BY SMT, TimewarpConstants DEF IInv, TypeOK, LoopInv, Receive, TimewarpConstants
<1>2. wire[s][c] \in Seq(Event) /\ wire[s][c] # <<>>
  BY DEF IInv, TypeOK, Receive
<1>3. Head(wire[s][c]) \in Event /\ Tail(wire[s][c]) \in Seq(Event)
  BY <1>2, SMT
<1>4. BufferFrame(c, Head(wire[s][c])) \in Frame
  BY <1>1, <1>3, BufferFrameType
<1>5. eventBuffer' \in [Client -> [Frame -> SUBSET Event]]
  BY SMTT(30), <1>3, <1>4 DEF IInv, TypeOK, Receive
<1>6. wire' \in [Client -> [Client -> Seq(Event)]]
  BY <1>3 DEF IInv, TypeOK, Receive
<1> QED
  BY <1>5, <1>6 DEF IInv, TypeOK, Receive

\* Drain leaves every variable in its type.
LEMMA DrainType ==
    ASSUME IInv, NEW c \in Client, Drain(c)
    PROVE  TypeOK'
<1>1. frame[c] \in 1 .. LastFrame /\ frame[c] \in Frame
  <2>1. frame[c] \in 1 .. LastFrame
    BY SMT, TimewarpConstants DEF IInv, TypeOK, LoopInv, Drain, TimewarpConstants
  <2> QED
    BY <2>1, Scheduled
<1> DEFINE due == eventBuffer[c][frame[c]]
           touched == {frame[c]} \cup {ExecFrame(c, e) : e \in due}
<1>2. due \subseteq Event
  BY <1>1 DEF IInv, TypeOK
<1>3. eventTrace' \in [Client -> [Frame -> SUBSET Event]]
  BY <1>2 DEF IInv, TypeOK, Drain
<1>4. PICK m \in touched : /\ \A f \in touched : m <= f
                           /\ minFrame' = [minFrame EXCEPT ![c] = m]
  BY DEF Drain
<1>5. m \in 1 .. LastFrame + 1
  <2>1. m <= frame[c]
    BY <1>4
  <2>2. m \in Frame /\ m >= 1
    BY <1>1, <1>2, <1>4, ExecFrameType, SMT
  <2> QED
    BY <1>1, <2>1, <2>2, SMT, TimewarpConstants DEF Frame, TimewarpConstants
<1>6. minFrame' \in [Client -> 1 .. LastFrame + 1]
  BY <1>4, <1>5 DEF IInv, TypeOK
<1>7. pc' \in [Client -> {"off", "poll", "receive", "sync", "exit"}]
  BY DEF IInv, TypeOK, Drain, Goto
<1> QED
  BY <1>3, <1>6, <1>7 DEF IInv, TypeOK, Drain

\* Synchronize leaves every variable in its type.
LEMMA SynchronizeType ==
    ASSUME IInv, NEW c \in Client, Synchronize(c)
    PROVE  TypeOK'
<1>1. minFrame[c] \in 1 .. LastFrame /\ minFrame[c] + 1 \in 1 .. LastFrame + 1
  BY SMTT(30), TimewarpConstants
  DEF IInv, TypeOK, LoopInv, Synchronize, TimewarpConstants
<1>2. minFrame[c] \in Frame /\ minFrame[c] - 1 \in Frame
  BY <1>1, Scheduled
<1>3. /\ stateTrace[c][minFrame[c] - 1] \in Seq(SUBSET Event)
      /\ eventTrace[c][minFrame[c]] \in SUBSET Event
  BY <1>2 DEF IInv, TypeOK
<1> DEFINE st == Advance(stateTrace[c][minFrame[c] - 1], eventTrace[c][minFrame[c]])
<1>4. st \in Seq(SUBSET Event)
  BY <1>3, SMT DEF Advance
<1>5. /\ stat' = [stat EXCEPT ![c] = st]
      /\ stateTrace' = [stateTrace EXCEPT ![c][minFrame[c]] = st]
      /\ minFrame' = [minFrame EXCEPT ![c] = minFrame[c] + 1]
  BY DEF Synchronize
<1> HIDE DEF st
<1>6. stat' \in [Client -> Seq(SUBSET Event)]
  BY <1>4, <1>5 DEF IInv, TypeOK
<1>7. stateTrace' \in [Client -> [Frame -> Seq(SUBSET Event)]]
  BY <1>2, <1>4, <1>5 DEF IInv, TypeOK
<1>8. minFrame' \in [Client -> 1 .. LastFrame + 1]
  BY <1>1, <1>5 DEF IInv, TypeOK
<1> QED
  BY <1>6, <1>7, <1>8 DEF IInv, TypeOK, Synchronize

\* EndFrame leaves every variable in its type.
LEMMA EndFrameType ==
    ASSUME IInv, NEW c \in Client, EndFrame(c)
    PROVE  TypeOK'
<1>1. frame[c] + 1 \in 1 .. LastFrame + 1
  BY SMT, TimewarpConstants
  DEF IInv, TypeOK, LoopInv, EndFrame, TimewarpConstants
<1> QED
  BY <1>1 DEF IInv, TypeOK, EndFrame, Goto, local

-------------------------------------------------------------------------------
(* Where a client is in its loop *)

\* Every step of a client keeps its clock and min_frame together.
LEMMA LoopStep ==
    ASSUME IInv, NEW c \in Client, Start(c) \/ GameLoop(c)
    PROVE  LoopInv'
<1> USE DEF LoopInv
<1>1. CASE Start(c)
  <2>1. frame[c] <= LastFrame /\ minFrame[c] = frame[c]
    BY <1>1 DEF IInv, Start
  <2> QED
    BY <1>1, <2>1 DEF IInv, TypeOK, Start, Goto
<1>2. CASE Poll(c)
  BY <1>2 DEF IInv, TypeOK, Poll, Goto
<1>3. CASE \E s \in Client : Receive(c, s)
  BY <1>3 DEF IInv, Receive
<1>4. CASE Drain(c)
  <2>1. frame[c] \in Int /\ frame[c] <= LastFrame
    BY <1>4 DEF IInv, TypeOK, Drain
  <2>2. minFrame'[c] <= frame[c] /\ minFrame'[c] \in Int
    BY <1>4, <2>1, DrainType DEF IInv, TypeOK, Drain
  <2>3. minFrame'[c] <= frame[c] + 1
    BY <2>1, <2>2, SMT
  <2>4. \A d \in Client \ {c} : minFrame'[d] = minFrame[d]
    BY <1>4 DEF IInv, TypeOK, Drain
  <2> QED
    BY <1>4, <2>1, <2>3, <2>4 DEF IInv, TypeOK, Drain, Goto
<1>5. CASE Synchronize(c)
  <2>1. minFrame[c] + 1 <= frame[c] + 1
    BY <1>5, SMT DEF IInv, TypeOK, Synchronize
  <2> QED
    BY <1>5, <2>1 DEF IInv, TypeOK, Synchronize
<1>6. CASE EndFrame(c)
  BY <1>6 DEF IInv, TypeOK, EndFrame, Goto
<1> QED
  BY <1>1, <1>2, <1>3, <1>4, <1>5, <1>6 DEF GameLoop

-------------------------------------------------------------------------------
(* The state trace *)

\* What TraceCoherent and DrawnInv say of one client.
CoherentAt(c) ==
    /\ \A f \in Settled(c) : stateTrace[c][f] = History(c, f)
    /\ pc[c] # "sync" => stat[c] = stateTrace[c][frame[c] - 1]
    /\ pc[c] = "sync" /\ minFrame[c] > frame[c] => stat[c] = stateTrace[c][frame[c]]

\* A settled frame is one of the game, and is before the current one or it.
LEMMA SettledFrames ==
    ASSUME IInv, NEW c \in Client
    PROVE  /\ Settled(c) \subseteq Frame
           /\ \A f \in Settled(c) : f < frame[c] \/ (pc[c] = "sync" /\ f < minFrame[c])
<1>1. /\ frame[c] \in 1 .. LastFrame + 1 /\ minFrame[c] \in 1 .. LastFrame + 1
      /\ LastFrame \in 1 .. LastFrame
  BY SMT, TimewarpConstants DEF IInv, TypeOK, TimewarpConstants
<1>2. LastFrame \in Frame
  BY <1>1, Scheduled
<1> QED
  BY <1>1, <1>2, Bounds, SMT DEF Settled, Frame

\* What the steps of other clients leave of one client.
LEMMA OthersUntouched ==
    ASSUME IInv, NEW c \in Client, Start(c) \/ GameLoop(c),
           NEW d \in Client, d # c
    PROVE  /\ pc'[d] = pc[d] /\ frame'[d] = frame[d] /\ minFrame'[d] = minFrame[d]
           /\ stat'[d] = stat[d] /\ stateTrace'[d] = stateTrace[d]
           /\ eventTrace'[d] = eventTrace[d] /\ eventBuffer'[d] = eventBuffer[d]
<1> USE DEF IInv, TypeOK
<1>1. CASE Start(c)
  BY <1>1 DEF Start, Goto
<1>2. CASE Poll(c)
  BY <1>2 DEF Poll, Goto
<1>3. CASE \E s \in Client : Receive(c, s)
  BY <1>3 DEF Receive
<1>4. CASE Drain(c)
  BY <1>4 DEF Drain, Goto
<1>5. CASE Synchronize(c)
  BY <1>5 DEF Synchronize
<1>6. CASE EndFrame(c)
  BY <1>6 DEF EndFrame, Goto, local
<1> QED
  BY <1>1, <1>2, <1>3, <1>4, <1>5, <1>6 DEF GameLoop

\* A history does not change when the events up to its frame do not.
LEMMA HistorySame ==
    ASSUME NEW c \in Client, NEW f \in Nat,
           \A k \in 1 .. f : eventTrace'[c][k] = eventTrace[c][k]
    PROVE  History(c, f)' = History(c, f)
BY DEF History

\* Advancing the history of a frame gives that of the next.
LEMMA HistoryNext ==
    ASSUME NEW c \in Client, NEW i \in Nat \ {0},
           \A k \in 1 .. i : eventTrace[c][k] \in SUBSET Event
    PROVE  Advance(History(c, i - 1), eventTrace[c][i]) = History(c, i)
<1> DEFINE h == History(c, i - 1)
<1>1. h \in Seq(SUBSET Event) /\ Len(h) = i - 1 /\ DOMAIN h = 1 .. i - 1
  BY SMT DEF History
<1>2. \A k \in 1 .. i - 1 : h[k] = eventTrace[c][k]
  BY DEF History
<1> HIDE DEF h
<1>3. Append(h, eventTrace[c][i])
        = [k \in 1 .. i |-> IF k = i THEN eventTrace[c][i] ELSE h[k]]
  BY <1>1, SMT
<1>4. \A k \in 1 .. i : k # i => k \in 1 .. i - 1
  BY SMT
<1>5. [k \in 1 .. i |-> IF k = i THEN eventTrace[c][i] ELSE h[k]] = History(c, i)
  BY <1>2, <1>4 DEF History
<1> QED
  BY <1>3, <1>5 DEF Advance, h

\* Start does not disturb the trace: nothing is settled but the initial state.
LEMMA StartCoherent ==
    ASSUME IInv, NEW c \in Client, Start(c)
    PROVE  CoherentAt(c)'
<1>1. frame[c] = 1 /\ frame'[c] = 1 /\ pc'[c] = "poll" /\ pc[c] = "off"
  BY DEF IInv, TypeOK, LoopInv, Start, Goto
<1>2. Settled(c) = {0} /\ Settled(c)' = {0}
  BY <1>1, SMT DEF Settled
<1>3. History(c, 0)' = History(c, 0)
  BY HistorySame, SMT
<1>4. stateTrace[c][0] = History(c, 0) /\ stat[c] = stateTrace[c][0]
  BY <1>1, <1>2, SMT DEF IInv, TraceCoherent
<1>5. stateTrace' = stateTrace /\ stat' = stat
  BY DEF Start
<1> QED
  BY <1>1, <1>2, <1>3, <1>4, <1>5, SMT DEF CoherentAt

\* Poll writes the state of the new frame and schedules events from the new
\* frame on, so nothing that is settled changes.
LEMMA PollCoherent ==
    ASSUME IInv, NEW c \in Client, Poll(c)
    PROVE  CoherentAt(c)'
<1>1. frame[c] \in 1 .. LastFrame /\ frame'[c] = frame[c]
  BY SMT, TimewarpConstants DEF IInv, TypeOK, Poll, TimewarpConstants
<1>2. pc[c] = "poll" /\ pc'[c] = "receive"
  BY DEF IInv, TypeOK, Poll, Goto
<1>3. Settled(c) = 0 .. frame[c] - 1 /\ Settled(c)' = 0 .. frame[c] - 1
  BY <1>1, <1>2 DEF Settled
<1>4. OwnFrame(c) \in Frame /\ OwnFrame(c) >= frame[c] /\ frame[c] \in Frame
  BY <1>1, Scheduled DEF OwnFrame
<1>5. \A f \in Frame : f # OwnFrame(c) => eventTrace'[c][f] = eventTrace[c][f]
  BY <1>4 DEF IInv, TypeOK, Poll
<1>6. \A f \in Frame : f # frame[c] => stateTrace'[c][f] = stateTrace[c][f]
  BY <1>4 DEF IInv, TypeOK, Poll
<1>7. ASSUME NEW f \in 0 .. frame[c] - 1
      PROVE  stateTrace'[c][f] = History(c, f)'
  <2>1. f \in Nat /\ f # frame[c]
    BY <1>1, SMT
  <2>2. f \in Frame /\ \A k \in 1 .. f : k \in Frame /\ k # OwnFrame(c)
    BY <1>1, <1>4, Bounds, SMT DEF Frame
  <2>3. History(c, f)' = History(c, f)
    BY <1>5, <2>1, <2>2, HistorySame
  <2>4. stateTrace[c][f] = History(c, f)
    BY <1>3 DEF IInv, TraceCoherent
  <2> QED
    BY <1>6, <2>1, <2>2, <2>3, <2>4
<1>8. stat'[c] = stateTrace'[c][frame[c] - 1]
  <2>1. frame[c] - 1 # frame[c] /\ frame[c] - 1 \in Frame
    BY <1>1, Scheduled, SMT
  <2> QED
    BY <1>2, <1>6, <2>1 DEF IInv, TraceCoherent, Poll
<1> QED
  BY <1>1, <1>2, <1>3, <1>7, <1>8 DEF CoherentAt

\* Receive only fills the buffer.
LEMMA ReceiveCoherent ==
    ASSUME IInv, NEW c \in Client, NEW s \in Client, Receive(c, s)
    PROVE  CoherentAt(c)'
BY DEF IInv, TraceCoherent, CoherentAt, Receive, Settled, History

\* Drain puts events into the trace, none of them for a frame that it leaves
\* settled.
LEMMA DrainCoherent ==
    ASSUME IInv, NEW c \in Client, Drain(c)
    PROVE  CoherentAt(c)'
<1>1. frame[c] \in 1 .. LastFrame /\ frame[c] \in Frame
  <2>1. frame[c] \in 1 .. LastFrame
    BY SMT, TimewarpConstants DEF IInv, TypeOK, LoopInv, Drain, TimewarpConstants
  <2> QED
    BY <2>1, Scheduled
<1> DEFINE due == eventBuffer[c][frame[c]]
           touched == {frame[c]} \cup {ExecFrame(c, e) : e \in due}
<1>2. PICK m \in touched : /\ \A f \in touched : m <= f
                           /\ minFrame' = [minFrame EXCEPT ![c] = m]
  BY DEF Drain
<1>3. minFrame'[c] = m /\ pc'[c] = "sync" /\ pc[c] = "receive"
  BY <1>2 DEF IInv, TypeOK, Drain, Goto
<1>4. m <= frame[c] /\ m \in 1 .. LastFrame + 1
  BY <1>2, <1>3, DrainType DEF TypeOK
<1>5. Settled(c) = 0 .. frame[c] - 1 /\ Settled(c)' = 0 .. m - 1
  BY <1>3 DEF Settled
<1>6. \A f \in Frame : eventTrace'[c][f]
                         = eventTrace[c][f] \cup {e \in due : ExecFrame(c, e) = f}
  BY DEF IInv, TypeOK, Drain
<1>7. \A f \in Frame : f < m => eventTrace'[c][f] = eventTrace[c][f]
  <2>1. ASSUME NEW f \in Frame, f < m
        PROVE  {e \in due : ExecFrame(c, e) = f} = {}
    <3>1. ~ (m <= f)
      BY <1>4, <2>1, SMT DEF Frame
    <3> QED
      BY <1>2, <3>1
  <2> QED
    BY <1>6, <2>1
<1>8. ASSUME NEW f \in 0 .. m - 1
      PROVE  stateTrace'[c][f] = History(c, f)'
  <2>1. f \in Nat /\ f \in 0 .. frame[c] - 1 /\ \A k \in 1 .. f : k \in Frame /\ k < m
    BY <1>1, <1>4, Bounds, SMT DEF Frame
  <2>2. History(c, f)' = History(c, f)
    BY <1>7, <2>1, HistorySame
  <2>3. stateTrace[c][f] = History(c, f)
    BY <1>5, <2>1 DEF IInv, TraceCoherent
  <2> QED
    BY <2>2, <2>3 DEF Drain
<1> QED
  <2>1. frame'[c] = frame[c] /\ ~ (m > frame[c])
    BY <1>1, <1>4, SMT DEF Drain
  <2> QED
    BY <1>3, <1>5, <1>8, <2>1 DEF CoherentAt

\* A turn of the loop settles one frame more, with the state its history gives.
LEMMA SynchronizeCoherent ==
    ASSUME IInv, NEW c \in Client, Synchronize(c)
    PROVE  CoherentAt(c)'
<1> DEFINE i == minFrame[c]
<1>1. i \in 1 .. LastFrame /\ pc[c] = "sync" /\ pc' = pc
  BY SMT, TimewarpConstants
  DEF IInv, TypeOK, LoopInv, Synchronize, TimewarpConstants
<1>2. i \in Frame /\ i - 1 \in Frame
  BY <1>1, Scheduled
<1>3. minFrame'[c] = i + 1 /\ eventTrace' = eventTrace
  BY DEF IInv, TypeOK, Synchronize
<1>4. Settled(c) = 0 .. i - 1 /\ Settled(c)' = 0 .. i
  BY <1>1, <1>3, SMT DEF Settled
<1>5. stateTrace[c][i - 1] = History(c, i - 1)
  BY <1>1, <1>4, SMT DEF IInv, TraceCoherent
<1>6. \A k \in 1 .. i : eventTrace[c][k] \in SUBSET Event
  <2>1. \A k \in 1 .. i : k \in Frame
    BY <1>1, <1>2, Bounds, SMT DEF Frame
  <2> QED
    BY <2>1 DEF IInv, TypeOK
<1>7. Advance(stateTrace[c][i - 1], eventTrace[c][i]) = History(c, i)
  BY <1>1, <1>5, <1>6, HistoryNext, SMT
<1>8. stateTrace' = [stateTrace EXCEPT ![c][i] = History(c, i)]
  BY <1>7 DEF Synchronize
<1> HIDE DEF i
<1>9. stateTrace'[c][i] = History(c, i)
  BY <1>2, <1>8 DEF IInv, TypeOK
<1>10. \A f \in Frame : f # i => stateTrace'[c][f] = stateTrace[c][f]
  BY <1>2, <1>8 DEF IInv, TypeOK
<1>11. \A f \in Nat : History(c, f)' = History(c, f)
  BY <1>3 DEF History
<1>12. ASSUME NEW f \in 0 .. i
       PROVE  stateTrace'[c][f] = History(c, f)'
  <2>1. f \in Nat /\ f \in Frame
    BY <1>1, <1>2, Bounds, SMT DEF Frame
  <2>2. CASE f = i
    BY <1>9, <1>11, <2>1, <2>2
  <2>3. CASE f # i
    <3>1. f \in 0 .. i - 1
      BY <1>1, <2>3, SMT
    <3>2. stateTrace[c][f] = History(c, f)
      BY <1>4, <3>1 DEF IInv, TraceCoherent
    <3> QED
      BY <1>10, <1>11, <2>1, <2>3, <3>2
  <2> QED
    BY <2>2, <2>3
<1> QED
  <2>1. frame' = frame /\ stat'[c] = History(c, i)
    BY <1>7 DEF IInv, TypeOK, Synchronize, i
  <2>2. i <= frame[c] /\ frame[c] \in Int
    BY DEF IInv, TypeOK, Synchronize, i
  <2>3. minFrame'[c] > frame[c] => frame[c] = i
    BY <1>1, <1>3, <2>2, SMT
  <2> QED
    BY <1>1, <1>4, <1>9, <1>12, <2>1, <2>3 DEF CoherentAt

\* The frame is over when the loop has settled it.
LEMMA EndFrameCoherent ==
    ASSUME IInv, NEW c \in Client, EndFrame(c)
    PROVE  CoherentAt(c)'
<1>1. /\ frame[c] \in 1 .. LastFrame /\ minFrame[c] = frame[c] + 1
      /\ frame'[c] = frame[c] + 1
  BY SMT, Bounds DEF IInv, TypeOK, LoopInv, EndFrame
<1>2. pc[c] = "sync" /\ pc'[c] # "sync"
  BY DEF IInv, TypeOK, EndFrame, Goto
<1>3. Settled(c) = 0 .. frame[c] /\ Settled(c)' = 0 .. frame[c]
  BY <1>1, <1>2, SMT DEF Settled
<1>4. \A f \in 0 .. frame[c] : stateTrace'[c][f] = History(c, f)'
  <2>1. \A f \in 0 .. frame[c] : History(c, f)' = History(c, f)
    BY DEF EndFrame, local, History
  <2> QED
    BY <1>3, <2>1 DEF IInv, TraceCoherent, EndFrame, local
<1>5. stat'[c] = stateTrace'[c][frame'[c] - 1]
  <2>1. frame'[c] - 1 = frame[c] /\ minFrame[c] > frame[c]
    BY <1>1, SMT
  <2>2. stat[c] = stateTrace[c][frame[c]]
    BY <1>2, <2>1 DEF IInv, DrawnInv
  <2> QED
    BY <2>1, <2>2 DEF EndFrame, local
<1> QED
  BY <1>2, <1>3, <1>4, <1>5 DEF CoherentAt

-------------------------------------------------------------------------------
(* The event buffer and the wire *)

\* What NoneStranded says of one client.
UnstrandedAt(c) ==
    \A f \in Frame :
      f < frame[c] \/ (f = frame[c] /\ pc[c] = "sync") =>
        \A e \in eventBuffer[c][f] : e \in eventTrace[c][ExecFrame(c, e)]

\* Receive puts an event only into the bucket of a frame that is not over, and
\* Drain empties the one of the current frame into the trace.
LEMMA UnstrandedStep ==
    ASSUME IInv, NEW c \in Client, Start(c) \/ GameLoop(c)
    PROVE  UnstrandedAt(c)'
<1>1. CASE Start(c)
  <2>1. \A f \in Frame : eventBuffer[c][f] = {}
    BY <1>1 DEF IInv, WireInv, Start
  <2>2. eventBuffer' = eventBuffer
    BY <1>1 DEF Start
  <2> QED
    BY <2>1, <2>2 DEF UnstrandedAt
<1>2. CASE Poll(c)
  <2>1. pc[c] = "poll" /\ pc'[c] = "receive" /\ frame' = frame
        /\ eventBuffer' = eventBuffer
    BY <1>2 DEF IInv, TypeOK, Poll, Goto
  <2>2. \A f \in Frame : eventTrace[c][f] \subseteq eventTrace'[c][f]
    BY <1>2 DEF IInv, TypeOK, Poll
  <2>3. \A f \in Frame : \A e \in eventBuffer[c][f] : ExecFrame(c, e) \in Frame
    BY ExecFrameType DEF IInv, TypeOK
  <2> QED
    BY <2>1, <2>2, <2>3 DEF IInv, NoneStranded, UnstrandedAt, ExecFrame
<1>3. CASE \E s \in Client : Receive(c, s)
  <2>1. PICK s \in Client : Receive(c, s)
    BY <1>3
  <2> DEFINE e == Head(wire[s][c])
  <2>2. frame[c] \in 1 .. LastFrame /\ pc[c] = "receive"
    BY <2>1, Bounds, SMT DEF IInv, TypeOK, LoopInv, Receive
  <2>3. e \in Event
    <3>1. wire[s][c] \in Seq(Event) /\ wire[s][c] # <<>>
      BY <2>1 DEF IInv, TypeOK, Receive
    <3> QED BY <3>1, SMT
  <2>4. BufferFrame(c, e) \in Frame /\ BufferFrame(c, e) >= frame[c]
    BY <2>2, <2>3, BufferFrameType
  <2>5. eventBuffer' = [eventBuffer EXCEPT
          ![c][BufferFrame(c, e)] = eventBuffer[c][BufferFrame(c, e)] \cup {e}]
    BY <2>1 DEF Receive
  <2> HIDE DEF e
  <2>6. \A f \in Frame : f < frame[c] => eventBuffer'[c][f] = eventBuffer[c][f]
    <3>1. \A f \in Frame : f < frame[c] => f # BufferFrame(c, e)
      BY <2>2, <2>4, SMT DEF Frame
    <3> QED BY <2>4, <2>5, <3>1 DEF IInv, TypeOK
  <2>7. pc' = pc /\ frame' = frame /\ eventTrace' = eventTrace
    BY <2>1 DEF Receive
  <2> QED
    BY <2>2, <2>6, <2>7 DEF IInv, NoneStranded, UnstrandedAt, ExecFrame
<1>4. CASE Drain(c)
  <2>1. pc[c] = "receive" /\ pc'[c] = "sync" /\ frame' = frame
        /\ eventBuffer' = eventBuffer
    BY <1>4 DEF IInv, TypeOK, Drain, Goto
  <2>2. \A f \in Frame : eventTrace'[c][f] = eventTrace[c][f]
           \cup {e \in eventBuffer[c][frame[c]] : ExecFrame(c, e) = f}
    BY <1>4 DEF IInv, TypeOK, Drain
  <2>3. \A f \in Frame : \A e \in eventBuffer[c][f] : ExecFrame(c, e) \in Frame
    BY ExecFrameType DEF IInv, TypeOK
  <2> QED
    BY <2>1, <2>2, <2>3 DEF IInv, NoneStranded, UnstrandedAt, ExecFrame
<1>5. CASE Synchronize(c)
  BY <1>5 DEF IInv, NoneStranded, UnstrandedAt, Synchronize, ExecFrame
<1>6. CASE EndFrame(c)
  <2>1. /\ pc[c] = "sync" /\ pc'[c] # "sync" /\ frame'[c] = frame[c] + 1
        /\ eventBuffer' = eventBuffer /\ eventTrace' = eventTrace
    BY <1>6 DEF IInv, TypeOK, EndFrame, Goto, local
  <2>2. \A f \in Frame : f < frame[c] + 1 => f < frame[c] \/ f = frame[c]
    BY SMTT(30), Bounds DEF IInv, TypeOK, Frame
  <2> QED
    BY <2>1, <2>2 DEF IInv, NoneStranded, UnstrandedAt, ExecFrame
<1> QED
  BY <1>1, <1>2, <1>3, <1>4, <1>5, <1>6 DEF GameLoop

\* What each client sends is its own and goes to the others.
LEMMA WireStep ==
    ASSUME IInv, NEW c \in Client, Start(c) \/ GameLoop(c)
    PROVE  WireInv'
<1>1. CASE Start(c)
  <2>1. PICK lost \in SUBSET {s \in Client : pc[s] = "exit"} :
          wire' = [s \in Client |-> [d \in Client |->
                     IF s = c /\ d # c THEN Append(wire[s][d], Connection(c))
                     ELSE IF d = c /\ s \in lost THEN <<>>
                     ELSE wire[s][d]]]
    BY <1>1 DEF Start
  <2>2. ASSUME NEW s \in Client, NEW d \in Client, NEW i \in DOMAIN wire'[s][d]
        PROVE  wire'[s][d][i].player = s
    <3>1. wire[s][d] \in Seq(Event)
      BY DEF IInv, TypeOK
    <3>2. CASE s = c /\ d # c
      <4>1. wire'[s][d] = Append(wire[s][d], Connection(c))
        BY <2>1, <3>2
      <4>2. CASE i \in DOMAIN wire[s][d]
        BY <3>1, <4>1, <4>2, SMT DEF IInv, WireInv
      <4>3. CASE i \notin DOMAIN wire[s][d]
        <5>1. wire'[s][d][i] = Connection(c)
          BY <3>1, <4>1, <4>3, SMT
        <5> QED
          BY <3>2, <5>1 DEF Connection
      <4> QED
        BY <4>2, <4>3
    <3>3. CASE ~ (s = c /\ d # c)
      <4>1. wire'[s][d] = wire[s][d] \/ wire'[s][d] = <<>>
        BY <2>1, <3>3
      <4> QED
        BY <4>1, SMT DEF IInv, WireInv
    <3> QED
      BY <3>2, <3>3
  <2>3. \A d \in Client : wire'[d][d] = <<>>
    BY <2>1 DEF IInv, WireInv
  <2>4. eventBuffer' = eventBuffer /\ \A d \in Client : pc'[d] = "off" => pc[d] = "off"
    BY <1>1 DEF IInv, TypeOK, Start, Goto
  <2> QED
    BY <2>2, <2>3, <2>4 DEF IInv, WireInv
<1>2. CASE Poll(c)
  <2>1. PICK keys \in {<<>>} \cup {<<k>> : k \in Key} :
          LET bucket == eventTrace[c][OwnFrame(c)]
              again == IF Connection(c) \in bucket THEN <<Connection(c)>> ELSE <<>>
              new == [i \in DOMAIN keys |->
                        [player |-> c, summon |-> frame[c], button |-> keys[i]]] IN
            Broadcast(c, again \o new)
    BY <1>2 DEF Poll
  <2> DEFINE again == IF Connection(c) \in eventTrace[c][OwnFrame(c)]
                        THEN <<Connection(c)>> ELSE <<>>
             new == [i \in DOMAIN keys |->
                       [player |-> c, summon |-> frame[c], button |-> keys[i]]]
             Own == [player : {c}, summon : {1, frame[c]}, button : Key \cup {Connect}]
  <2>2. new \in Seq(Own)
    <3>1. CASE keys = <<>>
      BY <3>1, SMT
    <3>2. CASE \E k \in Key : keys = <<k>>
      <4>1. PICK k \in Key : keys = <<k>>
        BY <3>2
      <4>2. new = <<[player |-> c, summon |-> frame[c], button |-> k]>>
        BY <4>1, SMT
      <4>3. [player |-> c, summon |-> frame[c], button |-> k] \in Own
        OBVIOUS
      <4> QED
        BY <4>2, <4>3, SMT
    <3> QED
      BY <3>1, <3>2
  <2>3. again \in Seq(Own)
    <3>1. Connection(c) \in Own
      BY DEF Connection
    <3>2. <<Connection(c)>> \in Seq(Own) /\ <<>> \in Seq(Own)
      <4> HIDE DEF Own
      <4> QED BY <3>1, SMT
    <3> QED BY <3>2
  <2>4. Broadcast(c, again \o new)
    BY <2>1
  <2>5. \A e \in Own : e.player = c
    OBVIOUS
  <2> HIDE DEF again, new, Own
  <2> DEFINE es == again \o new
  <2>6. es \in Seq(Own)
    BY <2>2, <2>3, SMT
  <2>7. \A i \in DOMAIN es : es[i].player = c
    BY <2>5, <2>6, SMT
  <2>8. wire' = [wire EXCEPT ![c] =
                   [d \in Client |-> IF d = c THEN wire[c][d] ELSE wire[c][d] \o es]]
    BY <2>4 DEF Broadcast
  <2> HIDE DEF es
  <2>9. ASSUME NEW s \in Client, NEW d \in Client, NEW i \in DOMAIN wire'[s][d]
        PROVE  wire'[s][d][i].player = s
    <3>1. wire[s][d] \in Seq(Event)
      BY DEF IInv, TypeOK
    <3>2. CASE s = c /\ d # c
      <4>1. wire'[s][d] = wire[s][d] \o es
        BY <2>8, <3>2 DEF IInv, TypeOK
      <4>2. CASE i \in DOMAIN wire[s][d]
        <5>1. wire'[s][d][i] = wire[s][d][i]
          BY <2>6, <3>1, <4>1, <4>2, SMT
        <5> QED BY <4>2, <5>1 DEF IInv, WireInv
      <4>3. CASE i \notin DOMAIN wire[s][d]
        <5>1. \E j \in DOMAIN es : wire'[s][d][i] = es[j]
          <6>1. i - Len(wire[s][d]) \in DOMAIN es
            BY <2>6, <3>1, <4>1, <4>3, SMT
          <6>2. wire'[s][d][i] = es[i - Len(wire[s][d])]
            BY <2>6, <3>1, <4>1, <4>3, SMT
          <6> QED BY <6>1, <6>2
        <5> QED
          BY <2>7, <3>2, <5>1
      <4> QED
        BY <4>2, <4>3
    <3>3. CASE ~ (s = c /\ d # c)
      <4>1. wire'[s][d] = wire[s][d]
        BY <2>8, <3>3 DEF IInv, TypeOK
      <4> QED
        BY <4>1 DEF IInv, WireInv
    <3> QED
      BY <3>2, <3>3
  <2>10. \A d \in Client : wire'[d][d] = <<>>
    BY <2>8 DEF IInv, WireInv, TypeOK
  <2>11. eventBuffer' = eventBuffer /\ \A d \in Client : pc'[d] = "off" => pc[d] = "off"
    BY <1>2 DEF IInv, TypeOK, Poll, Goto
  <2> QED
    BY <2>9, <2>10, <2>11 DEF IInv, WireInv
<1>3. CASE \E s \in Client : Receive(c, s)
  <2>1. PICK s \in Client : Receive(c, s)
    BY <1>3
  <2>2. wire[s][c] \in Seq(Event) /\ wire[s][c] # <<>> /\ s # c
    BY <2>1 DEF IInv, TypeOK, WireInv, Receive
  <2> DEFINE e == Head(wire[s][c])
  <2>3. e.player = s /\ e \in Event
    BY <2>2, SMT DEF IInv, WireInv
  <2>4. wire' = [wire EXCEPT ![s][c] = Tail(wire[s][c])]
    BY <2>1 DEF Receive
  <2>5. eventBuffer' = [eventBuffer EXCEPT
          ![c][BufferFrame(c, e)] = eventBuffer[c][BufferFrame(c, e)] \cup {e}]
    BY <2>1 DEF Receive
  <2>6. pc' = pc /\ pc[c] = "receive"
    BY <2>1 DEF Receive
  <2> HIDE DEF e
  <2>7. ASSUME NEW r \in Client, NEW d \in Client, NEW i \in DOMAIN wire'[r][d]
        PROVE  wire'[r][d][i].player = r
    <3>1. CASE r = s /\ d = c
      <4>1. wire'[r][d] = Tail(wire[s][c])
        BY <2>4, <3>1 DEF IInv, TypeOK
      <4>2. i + 1 \in DOMAIN wire[s][c] /\ wire'[r][d][i] = wire[s][c][i + 1]
        BY <2>2, <4>1, SMT
      <4> QED
        BY <3>1, <4>2 DEF IInv, WireInv
    <3>2. CASE ~ (r = s /\ d = c)
      <4>1. wire'[r][d] = wire[r][d]
        BY <2>4, <3>2 DEF IInv, TypeOK
      <4> QED
        BY <4>1 DEF IInv, WireInv
    <3> QED
      BY <3>1, <3>2
  <2>8. \A d \in Client : wire'[d][d] = <<>>
    BY <2>2, <2>4 DEF IInv, TypeOK, WireInv
  <2>9. ASSUME NEW d \in Client, NEW f \in Frame, NEW x \in eventBuffer'[d][f]
        PROVE  x.player # d /\ pc'[d] # "off"
    <3>1. x \in eventBuffer[d][f] \/ (d = c /\ x = e)
      BY <2>5 DEF IInv, TypeOK
    <3> QED
      BY <2>2, <2>3, <2>6, <3>1 DEF IInv, WireInv
  <2> QED
    BY <2>7, <2>8, <2>9 DEF WireInv
<1>4. CASE Drain(c)
  BY <1>4 DEF IInv, TypeOK, WireInv, Drain, Goto
<1>5. CASE Synchronize(c)
  BY <1>5 DEF IInv, TypeOK, WireInv, Synchronize
<1>6. CASE EndFrame(c)
  BY <1>6 DEF IInv, TypeOK, WireInv, EndFrame, Goto, local
<1> QED
  BY <1>1, <1>2, <1>3, <1>4, <1>5, <1>6 DEF GameLoop

\* What RewindInv says of one client.
RewindAt(c) ==
    pc[c] = "sync" /\ minFrame[c] < frame[c] =>
      \E e \in eventBuffer[c][frame[c]] : ExecFrame(c, e) <= minFrame[c]

\* Drain goes back only for an event that is due, and the loop only forward.
LEMMA RewindStep ==
    ASSUME IInv, NEW c \in Client, Start(c) \/ GameLoop(c)
    PROVE  RewindAt(c)'
<1>1. CASE Start(c) \/ Poll(c) \/ EndFrame(c)
  <2>1. pc'[c] # "sync"
    BY <1>1 DEF IInv, TypeOK, Start, Poll, EndFrame, Goto
  <2> QED
    BY <2>1 DEF RewindAt
<1>2. CASE \E s \in Client : Receive(c, s)
  BY <1>2 DEF Receive, RewindAt
<1>3. CASE Drain(c)
  <2> DEFINE due == eventBuffer[c][frame[c]]
             touched == {frame[c]} \cup {ExecFrame(c, e) : e \in due}
  <2>1. PICK m \in touched : minFrame' = [minFrame EXCEPT ![c] = m]
    BY <1>3 DEF Drain
  <2>2. minFrame'[c] = m /\ frame' = frame /\ eventBuffer' = eventBuffer
    BY <1>3, <2>1 DEF IInv, TypeOK, Drain
  <2>3. CASE m = frame[c]
    <3>1. ~ (minFrame'[c] < frame'[c])
      BY <2>2, <2>3, SMT DEF IInv, TypeOK
    <3> QED
      BY <3>1 DEF RewindAt
  <2>4. CASE \E e \in due : m = ExecFrame(c, e)
    <3>1. PICK e \in due : m = ExecFrame(c, e)
      BY <2>4
    <3>2. minFrame'[c] \in Int
      BY <1>3, DrainType DEF TypeOK
    <3>3. ExecFrame(c, e) <= minFrame'[c]
      BY <2>2, <3>1, <3>2, SMT
    <3> QED
      BY <2>2, <3>3 DEF RewindAt, ExecFrame
  <2> QED
    BY <2>3, <2>4
<1>4. CASE Synchronize(c)
  <2>1. /\ minFrame'[c] = minFrame[c] + 1 /\ pc' = pc /\ frame' = frame
        /\ eventBuffer' = eventBuffer /\ pc[c] = "sync"
    BY <1>4 DEF IInv, TypeOK, Synchronize
  <2>2. SUFFICES ASSUME minFrame[c] + 1 < frame[c]
        PROVE  \E e \in eventBuffer[c][frame[c]] : ExecFrame(c, e) <= minFrame[c] + 1
    BY <2>1 DEF RewindAt, ExecFrame
  <2>3. frame[c] \in 1 .. LastFrame /\ minFrame[c] \in Int /\ minFrame[c] < frame[c]
    BY <2>1, <2>2, Bounds, SMT DEF IInv, TypeOK, LoopInv
  <2>4. PICK e \in eventBuffer[c][frame[c]] : ExecFrame(c, e) <= minFrame[c]
    BY <2>1, <2>3 DEF IInv, RewindInv
  <2>5. e \in Event
    BY <2>3, Scheduled DEF IInv, TypeOK
  <2>6. ExecFrame(c, e) <= minFrame[c] + 1
    BY <2>3, <2>4, <2>5, ExecFrameType, Bounds, SMT DEF Frame
  <2> QED
    BY <2>6
<1> QED
  BY <1>1, <1>2, <1>3, <1>4 DEF GameLoop

-------------------------------------------------------------------------------
(* The invariant and what follows from it *)

\* No client has started, nothing is scheduled: the invariant holds.
LEMMA InitInv == Init => IInv
<1> SUFFICES ASSUME Init PROVE IInv
  OBVIOUS
<1>1. TypeOK
  <2>1. 1 \in 1 .. LastFrame + 1
    BY Bounds, SMT
  <2>2. <<>> \in Seq(SUBSET Event) /\ <<>> \in Seq(Event)
    BY SMT
  <2> QED
    BY <2>1, <2>2 DEF Init, TypeOK
<1>2. LoopInv
  <2>1. 1 <= LastFrame
    BY Bounds, SMT
  <2> QED
    BY <2>1 DEF Init, LoopInv
<1>3. DrawnInv /\ RewindInv
  BY DEF Init, DrawnInv, RewindInv
<1>4. TraceCoherent
  <2> SUFFICES ASSUME NEW c \in Client
      PROVE  /\ \A f \in Settled(c) : stateTrace[c][f] = History(c, f)
             /\ stat[c] = stateTrace[c][frame[c] - 1]
    BY DEF TraceCoherent
  <2>1. Settled(c) = {0} /\ 0 \in Frame /\ frame[c] - 1 = 0
    BY SMT, Bounds DEF Init, Settled, Frame
  <2>2. History(c, 0) = <<>>
    BY SMT DEF History
  <2>3. stateTrace[c][0] = <<>> /\ stat[c] = <<>>
    BY <2>1 DEF Init
  <2> QED
    BY <2>1, <2>2, <2>3
<1>5. NoneStranded /\ WireInv
  BY SMT DEF Init, NoneStranded, WireInv
<1> QED
  BY <1>1, <1>2, <1>3, <1>4, <1>5 DEF IInv

\* A step of a client keeps the invariant: its own part by what the step does,
\* that of the others because the step does not touch it.
LEMMA StepInv ==
    ASSUME IInv, NEW c \in Client, Start(c) \/ GameLoop(c)
    PROVE  IInv'
<1>1. TypeOK'
  BY StartType, PollType, ReceiveType, DrainType, SynchronizeType, EndFrameType
  DEF GameLoop
<1>2. LoopInv' /\ WireInv'
  BY LoopStep, WireStep
<1>3. CoherentAt(c)'
  BY StartCoherent, PollCoherent, ReceiveCoherent, DrainCoherent,
     SynchronizeCoherent, EndFrameCoherent DEF GameLoop
<1>4. UnstrandedAt(c)' /\ RewindAt(c)'
  BY UnstrandedStep, RewindStep
<1>5. ASSUME NEW d \in Client, d # c
      PROVE  CoherentAt(d)' /\ UnstrandedAt(d)' /\ RewindAt(d)'
  <2>1. /\ pc'[d] = pc[d] /\ frame'[d] = frame[d] /\ minFrame'[d] = minFrame[d]
        /\ stat'[d] = stat[d] /\ stateTrace'[d] = stateTrace[d]
        /\ eventTrace'[d] = eventTrace[d] /\ eventBuffer'[d] = eventBuffer[d]
    BY <1>5, OthersUntouched
  <2>2. CoherentAt(d)'
    BY <2>1 DEF IInv, TraceCoherent, DrawnInv, CoherentAt, Settled, History
  <2>3. UnstrandedAt(d)' /\ RewindAt(d)'
    BY <2>1 DEF IInv, NoneStranded, RewindInv, UnstrandedAt, RewindAt, ExecFrame
  <2> QED
    BY <2>2, <2>3
<1>6. \A d \in Client : CoherentAt(d)' /\ UnstrandedAt(d)' /\ RewindAt(d)'
  BY <1>3, <1>4, <1>5
<1>7. TraceCoherent' /\ DrawnInv'
  BY <1>6 DEF TraceCoherent, DrawnInv, CoherentAt
<1>8. NoneStranded' /\ RewindInv'
  BY <1>6 DEF NoneStranded, RewindInv, UnstrandedAt, RewindAt
<1> QED
  BY <1>1, <1>2, <1>7, <1>8 DEF IInv

\* Every step of the specification keeps the invariant.
LEMMA NextInv == IInv /\ [Next]_vars => IInv'
<1> SUFFICES ASSUME IInv, [Next]_vars PROVE IInv'
  OBVIOUS
<1>1. CASE Next
  BY <1>1, StepInv DEF Next
<1>2. CASE UNCHANGED vars
  BY <1>2
  DEF vars, IInv, TypeOK, LoopInv, DrawnInv, TraceCoherent, NoneStranded,
      WireInv, RewindInv, Settled, History, ExecFrame
<1> QED
  BY <1>1, <1>2

\* The inductive invariant holds in every reachable state.
THEOREM Invariance == Spec => []IInv
<1> QED BY InitInv, NextInv, PTL DEF Spec

\* Every variable has its type: no index into a trace runs out of the frames
\* for which an event can be scheduled (vec_get and vec_set of the loop).
THEOREM Typing == Spec => []TypeOK
<1>1. IInv => TypeOK
  BY DEF IInv
<1> QED BY <1>1, Invariance, PTL

\* The state trace is always what the event trace says, however late and in
\* whatever order the events of the others come (the loop "Synchronize").
THEOREM TraceCoherentHolds == Spec => []TraceCoherent
<1>1. IInv => TraceCoherent
  BY DEF IInv
<1> QED BY <1>1, Invariance, PTL

\* No event stays behind in the buffer (the choice of q in "Receive events").
THEOREM NoneStrandedHolds == Spec => []NoneStranded
<1>1. IInv => NoneStranded
  BY DEF IInv
<1> QED BY <1>1, Invariance, PTL

\* A computed state changes only on account of a late event of another client
\* (min_frame).
THEOREM RollbackJustifiedHolds == Spec => RollbackJustified
<1> DEFINE A == \A c \in Client : \A f \in 1 .. frame[c] - 1 :
                  stateTrace[c][f]' # stateTrace[c][f] =>
                    \E e \in eventBuffer[c][frame[c]] :
                      e.player # c /\ ExecFrame(c, e) <= f
<1>1. IInv /\ [Next]_vars => [A]_vars
  <2> SUFFICES ASSUME IInv, Next,
                      NEW c \in Client, NEW f \in 1 .. frame[c] - 1,
                      stateTrace'[c][f] # stateTrace[c][f]
      PROVE  \E e \in eventBuffer[c][frame[c]] :
               e.player # c /\ ExecFrame(c, e) <= f
    OBVIOUS
  <2>1. frame[c] \in 1 .. LastFrame + 1 /\ LastFrame \in Nat
    BY Bounds DEF IInv, TypeOK
  <2>2. f \in 1 .. LastFrame /\ f < frame[c]
    BY <2>1, SMT
  <2>3. f \in Frame
    BY <2>2, Scheduled
  <2>4. Start(c) \/ GameLoop(c)
    BY SMTT(30), OthersUntouched DEF Next
  <2>5. CASE Start(c) \/ Drain(c) \/ EndFrame(c) \/ \E s \in Client : Receive(c, s)
    BY <2>5 DEF Start, Drain, EndFrame, Receive, local
  <2>6. CASE Poll(c)
    <3>1. f # frame[c]
      BY <2>1, <2>2, SMT
    <3> QED
      BY <2>3, <2>6, <3>1 DEF IInv, TypeOK, Poll
  <2>7. CASE Synchronize(c)
    <3>1. f = minFrame[c] /\ pc[c] = "sync"
      BY <2>3, <2>7 DEF IInv, TypeOK, Synchronize
    <3>2. PICK e \in eventBuffer[c][frame[c]] : ExecFrame(c, e) <= minFrame[c]
      BY <2>2, <3>1 DEF IInv, RewindInv
    <3>3. frame[c] \in Frame
      <4>1. frame[c] \in 1 .. LastFrame
        BY <2>1, <3>1, SMT DEF IInv, LoopInv
      <4> QED
        BY <4>1, Scheduled
    <3>4. e.player # c
      BY <3>3 DEF IInv, WireInv
    <3> QED
      BY <3>1, <3>2, <3>4
  <2> QED
    BY <2>4, <2>5, <2>6, <2>7 DEF GameLoop
<1> QED
  BY <1>1, Invariance, PTL DEF Spec, RollbackJustified

-------------------------------------------------------------------------------
(* What clients know of each other *)

\* The events in c's trace, and in its buffer, where they stay when they have
\* been taken into the trace.
Trace(c) == UNION {eventTrace[c][f] : f \in Frame}
Held(c)  == UNION {eventBuffer[c][f] : f \in Frame}

Of(s, es) == {e \in es : e.player = s}

\* The events of s that c has or will receive.
Known(c, s) == Of(s, Trace(c) \cup Held(c)) \cup ToSet(wire[s][c])

\* In every trace an event stands where its receiver executes it.
PlacedAt(c) ==
    /\ \A f \in Frame : \A e \in eventTrace[c][f] : ExecFrame(c, e) = f
    /\ pc[c] = "off" => missed[c] = {} /\ Trace(c) = {}
    /\ c \notin missed[c]

\* Of a client that it has not missed, c knows what that client knows of itself;
\* of one that it has missed, which is gone, nothing.
KnowsOf(c, s) ==
    IF s \in missed[c] THEN pc[s] = "exit" /\ Known(c, s) = {}
    ELSE Known(c, s) = Of(s, Trace(s))

KnowInv ==
    /\ \A c \in Client : PlacedAt(c)
    /\ \A c, s \in Client : c # s => KnowsOf(c, s)

LEMMA SetOfAppend ==
    ASSUME NEW S, NEW q \in Seq(S), NEW x \in S
    PROVE  ToSet(Append(q, x)) = ToSet(q) \cup {x}
<1>1. /\ DOMAIN q = 1 .. Len(q) /\ Len(q) \in Nat
      /\ DOMAIN Append(q, x) = 1 .. Len(q) + 1
      /\ \A i \in 1 .. Len(q) : Append(q, x)[i] = q[i]
      /\ Append(q, x)[Len(q) + 1] = x
  BY SMT
<1>2. DOMAIN Append(q, x) = DOMAIN q \cup {Len(q) + 1}
  BY <1>1, SMT
<1> QED
  BY <1>1, <1>2 DEF ToSet

LEMMA SetOfTail ==
    ASSUME NEW S, NEW q \in Seq(S), q # <<>>
    PROVE  ToSet(q) = ToSet(Tail(q)) \cup {Head(q)}
<1>1. /\ DOMAIN q = 1 .. Len(q) /\ Len(q) \in Nat \ {0} /\ Head(q) = q[1]
      /\ DOMAIN Tail(q) = 1 .. Len(q) - 1
      /\ \A i \in 1 .. Len(q) - 1 : Tail(q)[i] = q[i + 1]
  BY SMT
<1>2. \A i \in DOMAIN q : i = 1 \/ (i - 1 \in DOMAIN Tail(q) /\ Tail(q)[i - 1] = q[i])
  BY <1>1, SMT
<1>3. \A i \in DOMAIN Tail(q) : i + 1 \in DOMAIN q
  BY <1>1, SMT
<1>4. 1 \in DOMAIN q
  BY <1>1, SMT
<1>5. \A x \in ToSet(q) : x \in ToSet(Tail(q)) \cup {Head(q)}
  BY <1>1, <1>2 DEF ToSet
<1>6. \A x \in ToSet(Tail(q)) : x \in ToSet(q)
  BY <1>1, <1>3 DEF ToSet
<1>7. Head(q) \in ToSet(q)
  BY <1>1, <1>4 DEF ToSet
<1> QED
  BY <1>5, <1>6, <1>7

LEMMA SetOfConcat ==
    ASSUME NEW S, NEW q \in Seq(S), NEW r \in Seq(S)
    PROVE  ToSet(q \o r) = ToSet(q) \cup ToSet(r)
<1>1. /\ DOMAIN q = 1 .. Len(q) /\ DOMAIN r = 1 .. Len(r)
      /\ Len(q) \in Nat /\ Len(r) \in Nat
      /\ DOMAIN (q \o r) = 1 .. Len(q) + Len(r)
      /\ \A i \in 1 .. Len(q) + Len(r) :
           (q \o r)[i] = IF i <= Len(q) THEN q[i] ELSE r[i - Len(q)]
  BY SMT
<1>2. ASSUME NEW i \in DOMAIN (q \o r)
      PROVE  (q \o r)[i] \in ToSet(q) \cup ToSet(r)
  <2>1. CASE i <= Len(q)
    <3>1. i \in DOMAIN q /\ (q \o r)[i] = q[i]
      BY <1>1, <2>1, SMT
    <3> QED
      BY <3>1 DEF ToSet
  <2>2. CASE ~ (i <= Len(q))
    <3>1. i - Len(q) \in DOMAIN r /\ (q \o r)[i] = r[i - Len(q)]
      BY <1>1, <2>2, SMT
    <3> QED
      BY <3>1 DEF ToSet
  <2> QED
    BY <2>1, <2>2
<1>3. ASSUME NEW i \in DOMAIN q
      PROVE  q[i] \in ToSet(q \o r)
  <2>1. i \in DOMAIN (q \o r) /\ (q \o r)[i] = q[i]
    BY <1>1, SMT
  <2> QED
    BY <2>1 DEF ToSet
<1>4. ASSUME NEW i \in DOMAIN r
      PROVE  r[i] \in ToSet(q \o r)
  <2>1. Len(q) + i \in DOMAIN (q \o r) /\ (q \o r)[Len(q) + i] = r[i]
    BY <1>1, SMT
  <2> QED
    BY <2>1 DEF ToSet
<1> QED
  BY <1>2, <1>3, <1>4 DEF ToSet

LEMMA InitKnow == Init => KnowInv
<1> SUFFICES ASSUME Init PROVE KnowInv
  OBVIOUS
<1>1. ToSet(<<>>) = {}
  BY SMT DEF ToSet
<1>2. \A c \in Client : Trace(c) = {} /\ Held(c) = {}
  BY DEF Init, Trace, Held
<1> QED
  BY <1>1, <1>2 DEF Init, KnowInv, PlacedAt, KnowsOf, Known, Of

\* What c knows of s does not change when neither's part of it does.
LEMMA KnowsKept ==
    ASSUME NEW c \in Client, NEW s \in Client, KnowsOf(c, s),
           missed'[c] = missed[c], pc[s] = "exit" => pc'[s] = "exit",
           Known(c, s)' = Known(c, s), Of(s, Trace(s))' = Of(s, Trace(s))
    PROVE  KnowsOf(c, s)'
  BY DEF KnowsOf

\* A step leaves to the other clients what they have, and who has left has left.
LEMMA OthersKnow ==
    ASSUME IInv, NEW c \in Client, Start(c) \/ GameLoop(c)
    PROVE  \A d \in Client \ {c} :
             /\ Trace(d)' = Trace(d) /\ Held(d)' = Held(d)
             /\ missed'[d] = missed[d] /\ pc'[d] = pc[d] /\ eventTrace'[d] = eventTrace[d]
<1>1. ASSUME NEW d \in Client \ {c}
      PROVE  /\ eventTrace'[d] = eventTrace[d] /\ eventBuffer'[d] = eventBuffer[d]
             /\ pc'[d] = pc[d]
  BY OthersUntouched
<1>2. ASSUME NEW d \in Client \ {c}
      PROVE  missed'[d] = missed[d]
  <2>1. CASE Start(c)
    BY SMTT(30), <2>1 DEF Start, IInv, TypeOK
  <2>2. CASE GameLoop(c)
    BY <2>2 DEF GameLoop, Poll, Receive, Drain, Synchronize, EndFrame
  <2> QED
    BY <2>1, <2>2
<1> QED
  BY <1>1, <1>2 DEF Trace, Held

\* c's step concerns the pairs in which c is one: the others know what they knew.
LEMMA PairsLeft ==
    ASSUME IInv, KnowInv, NEW c \in Client, Start(c) \/ GameLoop(c),
           PlacedAt(c)',
           \A s \in Client \ {c} : KnowsOf(c, s)' /\ KnowsOf(s, c)',
           \A s, d \in Client \ {c} : wire'[s][d] = wire[s][d]
    PROVE  KnowInv'
<1>1. ASSUME NEW d \in Client \ {c}
      PROVE  PlacedAt(d)'
  BY OthersKnow DEF KnowInv, PlacedAt, ExecFrame
<1>2. ASSUME NEW d \in Client \ {c}, NEW s \in Client \ {c}, d # s
      PROVE  KnowsOf(d, s)'
  <2>1. KnowsOf(d, s)
    BY <1>2 DEF KnowInv
  <2>2. Known(d, s)' = Known(d, s) /\ Of(s, Trace(s))' = Of(s, Trace(s))
    BY OthersKnow DEF Known, Of
  <2> QED
    BY <2>1, <2>2, OthersKnow, KnowsKept
<1> QED
  BY <1>1, <1>2 DEF KnowInv

LEMMA StartKnow ==
    ASSUME IInv, KnowInv, NEW c \in Client, Start(c)
    PROVE  KnowInv'
<1>1. PICK lost \in SUBSET {s \in Client : pc[s] = "exit"} :
        /\ wire' = [s \in Client |-> [d \in Client |->
                      IF s = c /\ d # c THEN Append(wire[s][d], Connection(c))
                      ELSE IF d = c /\ s \in lost THEN <<>>
                      ELSE wire[s][d]]]
        /\ missed' = [missed EXCEPT ![c] = lost]
  BY DEF Start
<1>2. /\ pc[c] = "off" /\ pc' = [pc EXCEPT ![c] = "poll"] /\ frame[c] = 1
      /\ eventTrace' = [eventTrace EXCEPT ![c][OwnFrame(c)] = {Connection(c)}]
      /\ eventBuffer' = eventBuffer
  BY DEF Start, Goto, IInv, LoopInv
<1>3. OwnFrame(c) \in Frame
  <2>1. frame[c] \in 1 .. LastFrame
    BY <1>2, Bounds, SMT
  <2> QED
    BY <2>1, Scheduled DEF OwnFrame
<1>4. PlacedAt(c) /\ Trace(c) = {} /\ missed[c] = {}
  BY <1>2 DEF KnowInv, PlacedAt
<1>5. Held(c) = {} /\ Held(c)' = {}
  BY <1>2 DEF IInv, WireInv, Held
<1>6. \A f \in Frame : eventTrace'[c][f] = IF f = OwnFrame(c) THEN {Connection(c)} ELSE {}
  <2>1. \A f \in Frame : eventTrace[c][f] = {}
    BY <1>4 DEF Trace
  <2> QED
    BY <1>2, <1>3, <2>1 DEF IInv, TypeOK
<1>7. Trace(c)' = {Connection(c)}
  BY <1>3, <1>6 DEF Trace
<1>8. Connection(c).player = c /\ ExecFrame(c, Connection(c)) = OwnFrame(c)
  BY <1>2 DEF Connection, ExecFrame, OwnFrame
<1>9. PlacedAt(c)'
  <2>1. missed'[c] = lost /\ c \notin lost /\ pc'[c] # "off"
    BY <1>1, <1>2 DEF IInv, TypeOK
  <2>2. \A f \in Frame : \A e \in eventTrace'[c][f] : ExecFrame(c, e) = f
    BY <1>6, <1>8
  <2> QED
    BY <2>1, <2>2 DEF PlacedAt, ExecFrame
<1>10. ASSUME NEW s \in Client \ {c}
       PROVE  KnowsOf(c, s)'
  <2>1. missed'[c] = lost /\ s \notin missed[c]
    BY <1>1, <1>4 DEF IInv, TypeOK
  <2>2. Known(c, s)' = ToSet(wire'[s][c])
    BY <1>5, <1>7, <1>8 DEF Known, Of
  <2>3. CASE s \in lost
    <3>1. wire'[s][c] = <<>>
      BY <1>1, <2>3
    <3>2. ToSet(<<>>) = {}
      BY SMT DEF ToSet
    <3>3. pc'[s] = "exit"
      BY <1>2, <2>3 DEF IInv, TypeOK
    <3> QED
      BY <2>1, <2>2, <2>3, <3>1, <3>2, <3>3 DEF KnowsOf
  <2>4. CASE s \notin lost
    <3>1. wire'[s][c] = wire[s][c]
      BY <1>1, <2>4
    <3>2. Known(c, s) = ToSet(wire[s][c])
      BY <1>4, <1>5 DEF Known, Of
    <3>3. Known(c, s) = Of(s, Trace(s))
      BY <2>1 DEF KnowInv, KnowsOf
    <3>4. Of(s, Trace(s))' = Of(s, Trace(s))
      BY OthersKnow DEF Of
    <3> QED
      BY <2>1, <2>2, <2>4, <3>1, <3>2, <3>3, <3>4 DEF KnowsOf
  <2> QED
    BY <2>3, <2>4
<1>11. ASSUME NEW d \in Client \ {c}
       PROVE  KnowsOf(d, c)'
  <2>1. c \notin missed[d] /\ missed'[d] = missed[d]
    BY <1>2, OthersKnow DEF KnowInv, KnowsOf
  <2>2. Known(d, c) = {}
    BY <1>4, <2>1 DEF KnowInv, KnowsOf, Of
  <2>3. ToSet(wire'[c][d]) = ToSet(wire[c][d]) \cup {Connection(c)}
    <3>1. wire[c][d] \in Seq(Event) /\ Connection(c) \in Event
      BY EventTypes DEF IInv, TypeOK
    <3>2. wire'[c][d] = Append(wire[c][d], Connection(c))
      BY <1>1
    <3> QED
      BY <3>1, <3>2, SetOfAppend
  <2>4. Known(d, c)' = {Connection(c)}
    BY <2>2, <2>3, OthersKnow DEF Known, Of
  <2>5. Of(c, Trace(c))' = {Connection(c)}
    BY <1>7, <1>8 DEF Of
  <2> QED
    BY <2>1, <2>4, <2>5 DEF KnowsOf
<1>12. \A s, d \in Client \ {c} : wire'[s][d] = wire[s][d]
  BY <1>1
<1> QED
  BY <1>9, <1>10, <1>11, <1>12, PairsLeft

\* What Poll does to bucket and wire.
LEMMA PollSends ==
    ASSUME IInv, NEW c \in Client, Poll(c)
    PROVE  \E again \in Seq(Event), new \in Seq(Event) :
             /\ eventTrace' = [eventTrace EXCEPT ![c][OwnFrame(c)] = @ \cup ToSet(new)]
             /\ Broadcast(c, again \o new)
             /\ ToSet(again) \subseteq eventTrace[c][OwnFrame(c)]
             /\ ToSet(again) \subseteq {Connection(c)}
             /\ \A e \in ToSet(new) : e.player = c /\ e.summon = frame[c]
<1>1. frame[c] \in 1 .. LastFrame
  BY SMT, TimewarpConstants DEF IInv, TypeOK, Poll, TimewarpConstants
<1>2. PICK keys \in {<<>>} \cup {<<k>> : k \in Key} :
        LET bucket == eventTrace[c][OwnFrame(c)]
            again == IF Connection(c) \in bucket THEN <<Connection(c)>> ELSE <<>>
            new == [i \in DOMAIN keys |->
                      [player |-> c, summon |-> frame[c], button |-> keys[i]]] IN
          /\ eventTrace' =
               [eventTrace EXCEPT ![c][OwnFrame(c)] = bucket \cup ToSet(new)]
          /\ Broadcast(c, again \o new)
  BY DEF Poll
<1> DEFINE bucket == eventTrace[c][OwnFrame(c)]
           again == IF Connection(c) \in bucket THEN <<Connection(c)>> ELSE <<>>
           new == [i \in DOMAIN keys |->
                     [player |-> c, summon |-> frame[c], button |-> keys[i]]]
<1>3. again \in Seq(Event)
  BY EventTypes, SMT
<1>4. ToSet(again) \subseteq bucket /\ ToSet(again) \subseteq {Connection(c)}
  BY SMT DEF ToSet
<1>5. new \in Seq(Event) /\ \A e \in ToSet(new) : e.player = c /\ e.summon = frame[c]
  <2>1. CASE keys = <<>>
    <3>1. new = <<>>
      BY <2>1, SMT
    <3> HIDE DEF new
    <3> QED
      BY <3>1, SMT DEF ToSet
  <2>2. CASE \E k \in Key : keys = <<k>>
    <3>1. PICK k \in Key : keys = <<k>>
      BY <2>2
    <3>2. PICK e \in Event : e = [player |-> c, summon |-> frame[c], button |-> k]
      BY <1>1, EventTypes
    <3>3. new = <<e>>
      BY <3>1, <3>2, SMT
    <3> HIDE DEF new
    <3>4. new \in Seq(Event) /\ ToSet(new) = {e}
      BY <3>3, SMT DEF ToSet
    <3> QED
      BY <3>2, <3>4
  <2> QED
    BY <2>1, <2>2
<1>6. /\ eventTrace' = [eventTrace EXCEPT ![c][OwnFrame(c)] = bucket \cup ToSet(new)]
      /\ Broadcast(c, again \o new)
  BY <1>2
<1> HIDE DEF again, new
<1> QED
  BY <1>3, <1>4, <1>5, <1>6

LEMMA PollKnow ==
    ASSUME IInv, KnowInv, NEW c \in Client, Poll(c)
    PROVE  KnowInv'
<1>1. frame[c] \in 1 .. LastFrame
  BY SMT, TimewarpConstants DEF IInv, TypeOK, Poll, TimewarpConstants
<1>2. OwnFrame(c) \in Frame
  BY <1>1, Scheduled DEF OwnFrame
<1>3. PICK again \in Seq(Event), new \in Seq(Event) :
         /\ eventTrace' = [eventTrace EXCEPT ![c][OwnFrame(c)] = @ \cup ToSet(new)]
         /\ Broadcast(c, again \o new)
         /\ ToSet(again) \subseteq eventTrace[c][OwnFrame(c)]
         /\ ToSet(again) \subseteq {Connection(c)}
         /\ \A e \in ToSet(new) : e.player = c /\ e.summon = frame[c]
  BY PollSends
<1>4. /\ pc[c] = "poll" /\ pc'[c] = "receive" /\ UNCHANGED <<eventBuffer, missed>>
  BY DEF Poll, Goto, IInv, TypeOK
<1>5. \A f \in Frame : eventTrace'[c][f] =
        IF f = OwnFrame(c) THEN eventTrace[c][f] \cup ToSet(new) ELSE eventTrace[c][f]
  BY <1>2, <1>3 DEF IInv, TypeOK
<1>6. Trace(c)' = Trace(c) \cup ToSet(new) /\ Held(c)' = Held(c)
  BY <1>2, <1>4, <1>5 DEF Trace, Held
<1>7. \A e \in ToSet(new) : ExecFrame(c, e) = OwnFrame(c)
  BY <1>3 DEF ExecFrame, OwnFrame
<1>8. PlacedAt(c)'
  <2>1. PlacedAt(c) /\ missed'[c] = missed[c] /\ pc'[c] # "off"
    BY <1>4 DEF KnowInv
  <2>2. ASSUME NEW f \in Frame, NEW e \in eventTrace'[c][f]
        PROVE  ExecFrame(c, e) = f
    <3>1. CASE e \in eventTrace[c][f]
      BY <2>1, <3>1 DEF PlacedAt
    <3>2. CASE e \notin eventTrace[c][f]
      BY <1>5, <1>7, <3>2
    <3> QED
      BY <3>1, <3>2
  <2>3. \A f \in Frame : \A e \in eventTrace'[c][f] : ExecFrame(c, e)' = f
    BY <2>2 DEF ExecFrame
  <2> QED
    BY <2>1, <2>3 DEF PlacedAt
<1>9. ToSet(again \o new) = ToSet(again) \cup ToSet(new) /\ again \o new \in Seq(Event)
  <2>1. again \o new \in Seq(Event)
    BY SMT
  <2> QED
    BY <2>1, SetOfConcat
<1>10. \A s, d \in Client :
         wire'[s][d] = IF s = c /\ d # c THEN wire[s][d] \o (again \o new) ELSE wire[s][d]
  BY <1>3 DEF Broadcast, IInv, TypeOK
<1>11. ASSUME NEW s \in Client \ {c}
       PROVE  KnowsOf(c, s)'
  <2>1. Known(c, s)' = Known(c, s)
    BY <1>3, <1>6, <1>10 DEF Known, Of
  <2>2. Of(s, Trace(s))' = Of(s, Trace(s)) /\ pc'[s] = pc[s]
    BY OthersKnow DEF Of, GameLoop
  <2> QED
    BY <1>4, <2>1, <2>2, KnowsKept DEF KnowInv
<1>12. ASSUME NEW d \in Client \ {c}
       PROVE  KnowsOf(d, c)'
  <2>1. c \notin missed[d] /\ missed'[d] = missed[d]
    BY <1>4 DEF KnowInv, KnowsOf
  <2>2. Known(d, c) = Of(c, Trace(c))
    BY <2>1 DEF KnowInv, KnowsOf
  <2>3. ToSet(wire'[c][d]) = ToSet(wire[c][d]) \cup ToSet(again) \cup ToSet(new)
    <3>1. PICK q \in Seq(Event) : q = wire[c][d]
      BY DEF IInv, TypeOK
    <3>2. PICK r \in Seq(Event) : r = again \o new
      BY <1>9
    <3>3. wire'[c][d] = q \o r
      BY <1>10, <3>1, <3>2
    <3>4. ToSet(q \o r) = ToSet(q) \cup ToSet(r)
      BY SetOfConcat
    <3>5. ToSet(r) = ToSet(again) \cup ToSet(new)
      BY <1>9, <3>2
    <3> QED
      BY <3>1, <3>3, <3>4, <3>5
  <2>4. Known(d, c)' = Known(d, c) \cup ToSet(again) \cup ToSet(new)
    BY <2>3, OthersKnow DEF Known, Of, GameLoop
  <2>5. ToSet(again) \subseteq Of(c, Trace(c))
    BY <1>2, <1>3 DEF Of, Trace, Connection
  <2>6. Of(c, Trace(c))' = Of(c, Trace(c)) \cup ToSet(new)
    BY <1>3, <1>6 DEF Of
  <2> QED
    BY <2>1, <2>2, <2>4, <2>5, <2>6 DEF KnowsOf
<1>13. \A s, d \in Client \ {c} : wire'[s][d] = wire[s][d]
  BY <1>10
<1> QED
  BY <1>8, <1>11, <1>12, <1>13, PairsLeft DEF GameLoop

LEMMA ReceiveKnow ==
    ASSUME IInv, KnowInv, NEW c \in Client, NEW s \in Client, Receive(c, s)
    PROVE  KnowInv'
<1>1. frame[c] \in 1 .. LastFrame
  BY SMT, TimewarpConstants DEF IInv, TypeOK, LoopInv, Receive, TimewarpConstants
<1>2. wire[s][c] \in Seq(Event) /\ wire[s][c] # <<>> /\ s # c
  BY DEF IInv, TypeOK, WireInv, Receive
<1>3. PICK e \in Event : e = Head(wire[s][c])
  BY <1>2, SMT
<1>4. e.player = s
  BY <1>2, <1>3, SMT DEF IInv, WireInv
<1>5. BufferFrame(c, e) \in Frame
  BY <1>1, BufferFrameType
<1>6. /\ eventBuffer' = [eventBuffer EXCEPT
           ![c][BufferFrame(c, e)] = eventBuffer[c][BufferFrame(c, e)] \cup {e}]
      /\ wire' = [wire EXCEPT ![s][c] = Tail(wire[s][c])]
      /\ UNCHANGED <<pc, eventTrace, missed>> /\ pc[c] # "off"
  BY <1>3 DEF Receive
<1>7. Trace(c)' = Trace(c) /\ Held(c)' = Held(c) \cup {e}
  <2>1. \A f \in Frame : eventBuffer'[c][f] =
          IF f = BufferFrame(c, e) THEN eventBuffer[c][f] \cup {e} ELSE eventBuffer[c][f]
    BY <1>5, <1>6 DEF IInv, TypeOK
  <2>2. \A x : (\E f \in Frame : x \in eventBuffer'[c][f])
               <=> (\E f \in Frame : x \in eventBuffer[c][f]) \/ x = e
    BY <1>5, <2>1
  <2>3. Held(c)' = Held(c) \cup {e}
    BY <2>2 DEF Held
  <2> QED
    BY <1>6, <2>3 DEF Trace
<1>8. \A r, d \in Client :
        wire'[r][d] = IF r = s /\ d = c THEN Tail(wire[s][c]) ELSE wire[r][d]
  BY <1>6 DEF IInv, TypeOK
<1>9. PlacedAt(c)'
  BY <1>6, <1>7 DEF KnowInv, PlacedAt, ExecFrame
<1>10. ASSUME NEW r \in Client \ {c}
       PROVE  KnowsOf(c, r)'
  <2>1. Known(c, r)' = Known(c, r)
    <3>1. CASE r = s
      <4>1. ToSet(wire[s][c]) = ToSet(wire'[s][c]) \cup {e}
        BY <1>2, <1>3, <1>8, SetOfTail
      <4> QED
        BY <1>4, <1>7, <3>1, <4>1 DEF Known, Of
    <3>2. CASE r # s
      BY <1>4, <1>7, <1>8, <3>2 DEF Known, Of
    <3> QED
      BY <3>1, <3>2
  <2>2. Of(r, Trace(r))' = Of(r, Trace(r))
    BY <1>6 DEF Of, Trace
  <2> QED
    BY <1>6, <2>1, <2>2, KnowsKept DEF KnowInv
<1>11. ASSUME NEW d \in Client \ {c}
       PROVE  KnowsOf(d, c)'
  <2>1. Known(d, c)' = Known(d, c) /\ Of(c, Trace(c))' = Of(c, Trace(c))
    BY <1>7, <1>8, OthersKnow DEF Known, Of, GameLoop
  <2> QED
    BY <1>6, <2>1, KnowsKept DEF KnowInv
<1>12. \A r, d \in Client \ {c} : wire'[r][d] = wire[r][d]
  BY <1>8
<1> QED
  BY <1>9, <1>10, <1>11, <1>12, PairsLeft DEF GameLoop

LEMMA DrainKnow ==
    ASSUME IInv, KnowInv, NEW c \in Client, Drain(c)
    PROVE  KnowInv'
<1>1. frame[c] \in Frame
  <2>1. frame[c] \in 1 .. LastFrame
    BY SMT, TimewarpConstants DEF IInv, TypeOK, LoopInv, Drain, TimewarpConstants
  <2> QED
    BY <2>1, Scheduled
<1> DEFINE due == eventBuffer[c][frame[c]]
<1>2. /\ eventTrace' = [eventTrace EXCEPT ![c] =
           [f \in Frame |-> eventTrace[c][f] \cup {e \in due : ExecFrame(c, e) = f}]]
      /\ pc[c] = "receive" /\ pc' = [pc EXCEPT ![c] = "sync"]
      /\ UNCHANGED <<eventBuffer, wire, missed>>
  BY DEF Drain, Goto
<1>3. due \subseteq Event /\ due \subseteq Held(c) /\ \A e \in due : e.player # c
  BY <1>1 DEF IInv, TypeOK, WireInv, Held
<1>4. \A e \in due : ExecFrame(c, e) \in Frame
  BY <1>3, ExecFrameType
<1> HIDE DEF due
<1>5. \A f \in Frame : eventTrace'[c][f] =
        eventTrace[c][f] \cup {e \in due : ExecFrame(c, e) = f}
  BY <1>2 DEF IInv, TypeOK
<1>6. Trace(c)' = Trace(c) \cup due /\ Held(c)' = Held(c)
  BY <1>2, <1>4, <1>5 DEF Trace, Held
<1>7. PlacedAt(c)'
  BY <1>2, <1>5 DEF KnowInv, PlacedAt, ExecFrame, IInv, TypeOK
<1>8. ASSUME NEW s \in Client \ {c}
      PROVE  KnowsOf(c, s)' /\ KnowsOf(s, c)'
  <2>1. Known(c, s)' = Known(c, s) /\ Known(s, c)' = Known(s, c)
    BY ZenonT(60), <1>2, <1>3, <1>6, OthersKnow DEF Known, Of, GameLoop
  <2>2. Of(s, Trace(s))' = Of(s, Trace(s)) /\ Of(c, Trace(c))' = Of(c, Trace(c))
    BY <1>3, <1>6, OthersKnow DEF Of, GameLoop
  <2>3. pc'[s] = pc[s] /\ pc[c] # "exit"
    BY <1>2, OthersKnow DEF GameLoop
  <2> QED
    BY <1>2, <2>1, <2>2, <2>3, KnowsKept DEF KnowInv
<1> QED
  BY <1>2, <1>7, <1>8, PairsLeft DEF GameLoop

\* A step that moves no events changes nothing in what is known.
LEMMA KnowSame ==
    ASSUME KnowInv, UNCHANGED <<eventTrace, eventBuffer, wire, missed>>,
           \A c \in Client : /\ pc'[c] = "off" => pc[c] = "off"
                             /\ pc[c] = "exit" => pc'[c] = "exit"
    PROVE  KnowInv'
<1>1. \A c, s \in Client : /\ Known(c, s)' = Known(c, s)
                           /\ Of(s, Trace(s))' = Of(s, Trace(s)) /\ Trace(s)' = Trace(s)
  BY DEF Known, Of, Trace, Held
<1>2. \A c \in Client : PlacedAt(c)'
  BY <1>1 DEF KnowInv, PlacedAt, ExecFrame
<1>3. ASSUME NEW c \in Client, NEW s \in Client, c # s
      PROVE  KnowsOf(c, s)'
  BY <1>1, <1>3, KnowsKept DEF KnowInv
<1> QED
  BY <1>2, <1>3 DEF KnowInv

LEMMA NextKnow == IInv /\ KnowInv /\ [Next]_vars => KnowInv'
<1> SUFFICES ASSUME IInv, KnowInv, [Next]_vars PROVE KnowInv'
  OBVIOUS
<1>1. ASSUME NEW c \in Client, Synchronize(c) \/ EndFrame(c)
      PROVE  KnowInv'
  <2>1. /\ UNCHANGED <<eventTrace, eventBuffer, wire, missed>>
        /\ \A d \in Client : /\ pc'[d] = "off" => pc[d] = "off"
                             /\ pc[d] = "exit" => pc'[d] = "exit"
    BY <1>1 DEF Synchronize, EndFrame, Goto, local, IInv, TypeOK
  <2> QED
    BY <2>1, KnowSame
<1>2. CASE UNCHANGED vars
  BY <1>2, KnowSame DEF vars
<1> QED
  BY <1>1, <1>2, StartKnow, PollKnow, ReceiveKnow, DrainKnow DEF Next, GameLoop

-------------------------------------------------------------------------------
(* Convergence *)

\* All that one of two clients that have caught up has in its trace, the other
\* has too.
LEMMA SameEvents ==
    ASSUME IInv, KnowInv, NEW c \in Client, NEW d \in Client,
           CaughtUp(c), CaughtUp(d), missed[c] = missed[d]
    PROVE  Trace(c) \subseteq Trace(d)
<1>1. Trace(c) \subseteq Event
  BY DEF IInv, TypeOK, Trace
<1>2. Held(d) \subseteq Trace(d)
  <2> SUFFICES ASSUME NEW f \in Frame, NEW e \in eventBuffer[d][f]
               PROVE  e \in Trace(d)
    BY DEF Held
  <2>1. e \in Event
    BY DEF IInv, TypeOK
  <2>2. ExecFrame(d, e) \in Frame
    BY <2>1, ExecFrameType
  <2>3. ~ (f >= frame[d])
    BY DEF CaughtUp
  <2>4. f \in Int /\ frame[d] \in Int
    BY Bounds DEF IInv, TypeOK, Frame
  <2>5. f < frame[d]
    BY <2>3, <2>4, SMT
  <2>6. e \in eventTrace[d][ExecFrame(d, e)]
    BY <2>5 DEF IInv, NoneStranded
  <2> QED
    BY <2>2, <2>6 DEF Trace
<1>3. ASSUME NEW s \in Client, s # d
      PROVE  Known(d, s) = Of(s, Trace(d))
  <2>1. ToSet(wire[s][d]) = {}
    <3>1. ToSet(<<>>) = {}
      BY SMT DEF ToSet
    <3> QED
      BY <3>1 DEF CaughtUp
  <2> QED
    BY <1>2, <2>1 DEF Known, Of
<1> SUFFICES ASSUME NEW e \in Trace(c), c # d
             PROVE  e \in Trace(d)
  OBVIOUS
<1>4. PICK s \in Client : s = e.player
  BY <1>1 DEF Event
<1>5. CASE s = c
  <2>1. c \notin missed[d] /\ KnowsOf(d, c)
    BY DEF KnowInv, PlacedAt
  <2> QED
    BY <1>3, <1>4, <1>5, <2>1 DEF KnowsOf, Of
<1>6. CASE s # c
  <2>1. e \in Known(c, s) /\ KnowsOf(c, s)
    BY <1>4, <1>6 DEF KnowInv, Known, Of
  <2>2. s \notin missed[c] /\ e \in Of(s, Trace(s))
    BY <2>1 DEF KnowsOf
  <2>3. CASE s = d
    BY <2>2, <2>3 DEF Of
  <2>4. CASE s # d
    <3>1. Known(d, s) = Of(s, Trace(s))
      BY <2>2, <2>4 DEF KnowInv, KnowsOf
    <3> QED
      BY <1>3, <2>2, <2>4, <3>1 DEF Of
  <2> QED
    BY <2>3, <2>4
<1> QED
  BY <1>5, <1>6

\* What clients that have caught up execute in a frame.
LEMMA SameBucket ==
    ASSUME IInv, KnowInv, NEW c \in Client, NEW d \in Client,
           CaughtUp(c), CaughtUp(d), missed[c] = missed[d],
           NEW f \in Frame, NEW e \in eventTrace[c][f]
    PROVE  /\ e \in Event /\ ExecFrame(c, e) = f
           /\ ExecFrame(d, e) \in Frame /\ e \in eventTrace[d][ExecFrame(d, e)]
<1>1. e \in Event /\ ExecFrame(c, e) = f /\ e \in Trace(c)
  BY DEF IInv, TypeOK, KnowInv, PlacedAt, Trace
<1>2. e \in Trace(d)
  BY <1>1, SameEvents
<1>3. PICK g \in Frame : e \in eventTrace[d][g]
  BY <1>2 DEF Trace
<1>4. ExecFrame(d, e) = g
  BY <1>3 DEF KnowInv, PlacedAt
<1> QED
  BY <1>1, <1>3, <1>4

\* The state of a frame that a client has left behind is its history.
LEMMA StateIsHistory ==
    ASSUME IInv, NEW c \in Client, CaughtUp(c), NEW f \in 0 .. frame[c] - 1
    PROVE  stateTrace[c][f] = History(c, f)
  BY DEF IInv, TraceCoherent, Settled, CaughtUp

LEMMA ConvergedFromInv ==
    ASSUME \A c, d, p \in Client : Delay[c][p] = Delay[d][p],
           IInv, KnowInv
    PROVE  Converged
<1> SUFFICES ASSUME NEW c \in Client, NEW d \in Client,
                    CaughtUp(c), CaughtUp(d), missed[c] = missed[d],
                    NEW f \in 0 .. LastFrame, f < frame[c], f < frame[d]
             PROVE  stateTrace[c][f] = stateTrace[d][f]
  BY DEF Converged
<1>1. /\ LastFrame \in Nat /\ frame[c] \in Int /\ frame[d] \in Int
      /\ f \in 0 .. frame[c] - 1 /\ f \in 0 .. frame[d] - 1
  <2>1. LastFrame \in Nat /\ frame[c] \in Int /\ frame[d] \in Int
    BY Bounds DEF IInv, TypeOK
  <2> QED
    BY <2>1, SMT
<1>2. \A e \in Event : ExecFrame(c, e) = ExecFrame(d, e)
  BY DEF Event, ExecFrame
<1>3. \A k \in Frame : eventTrace[c][k] = eventTrace[d][k]
  <2> SUFFICES ASSUME NEW k \in Frame
               PROVE  eventTrace[c][k] = eventTrace[d][k]
    OBVIOUS
  <2>1. ASSUME NEW e \in eventTrace[c][k]
        PROVE  e \in eventTrace[d][k]
    <3>1. /\ e \in Event /\ ExecFrame(c, e) = k
          /\ e \in eventTrace[d][ExecFrame(d, e)]
      BY SameBucket
    <3> QED
      BY <1>2, <3>1
  <2>2. ASSUME NEW e \in eventTrace[d][k]
        PROVE  e \in eventTrace[c][k]
    <3>1. /\ e \in Event /\ ExecFrame(d, e) = k
          /\ e \in eventTrace[c][ExecFrame(c, e)]
      BY SameBucket
    <3> QED
      BY <1>2, <3>1
  <2> QED
    BY <2>1, <2>2
<1>4. \A k \in 1 .. f : k \in Frame
  <2>1. \A k \in 1 .. f : k \in 1 .. LastFrame
    BY <1>1, SMT
  <2> QED
    BY <2>1, Scheduled
<1>5. History(c, f) = History(d, f)
  BY <1>3, <1>4 DEF History
<1> QED
  BY <1>1, <1>5, StateIsHistory

LEMMA KnowHolds == Spec => []KnowInv
BY Invariance, InitInv, NextInv, InitKnow, NextKnow, PTL DEF Spec

\* For any number of clients with the same delays, any lags, and any delay of the
\* network: clients that have caught up have computed the same states, unless
\* they missed different clients (game_timewarp.c:174-285).
THEOREM ConvergedHolds ==
    ASSUME \A c, d, p \in Client : Delay[c][p] = Delay[d][p]
    PROVE  Spec => []Converged
<1>1. IInv /\ KnowInv => Converged
  BY ConvergedFromInv
<1> QED
  BY <1>1, Invariance, KnowHolds, PTL

===============================================================================
