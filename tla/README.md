# Formal models of sasd-protocols

TLA+ models of the three network protocols of this repository, of the server
and the receive pool they run on, TLC configurations that check them on small
instances, and proofs that TLAPS checks for all values of the parameters.

Paths such as `server.c:278` are below `src/src/` unless said otherwise.

## 1. The system

A game of twelve balls (`balls/balls.c`) is run by every player on a clock of
its own, one frame every 25 ms. What players share is what they did, not when
they computed it. Three protocols keep their games alike:

| program | protocol | server |
|---|---|---|
| `game_timewarp` | events are broadcast; an event that comes late rolls the game back to its frame | `server` |
| `game_fasteventordering` | as timewarp, but events wait so long that none comes late (perceptive consistency) | `server` |
| `game_deadreckoning` | the server computes the game and sends whole states; clients compute ahead of them | `dr_server` |

### Components

**Broadcast server** (`server.c`, `bvec.c`). *State:* the linked list of clients
and the client counter under `ctx->mutex`; for every client a history buffer
(what it has sent), a send buffer, a notification pipe, an accumulation vector
for what has been read. *Operations:* the main thread accepts, hands out an id,
queues the handshake, replays the histories, links the client, starts its
thread; a client's thread announces it, cuts the stream into packets, keeps each
in the history, broadcasts it, sends what others have queued for it, and on the
end of the stream says goodbye and unlinks it. *Hard:* list, send buffers and
history buffers have a mutex each; the history and the broadcast of a packet are
two critical sections, and so are the goodbye and the unlinking; the writer of a
full pipe blocks with two mutexes held; reads end anywhere in a packet; the peer
may close or reset at any time. *Correct when:* a client hears of another in
the order of a session, gets every packet of it without a gap, no packet is
forgotten in a send buffer, and no thread waits for ever.

**Receive pool** (`recvpool.c`). *State:* the vector of received bytes, a linked
list of packets under a mutex. *Operations:* a thread receives, cuts, pushes;
the client retrieves (pop, parse, free) until nothing is left, in every frame;
join. *Hard:* two threads on one linked list; nodes are freed; a packet that
cannot be parsed looks like an empty queue; join waits for the server to close.
*Correct when:* the list is a FIFO queue, no freed node is reached, and what
arrives is given to the client.

**Timewarp client** (`game_timewarp.c`). *State:* the frame, a trace of states, a
trace of events (one vector for each frame in which they are to be executed), a
buffer of received events (one vector for each frame in which the simulated lag
lets them through). *Operations,* in every frame: poll and send own events,
retrieve the packets, take the due events into the trace, recompute the states
from the earliest frame that has changed, draw. *Hard:* clocks that drift,
events in any order and arbitrarily late, duplicated connect events, several
late events in one frame, loops whose bounds are off by one so easily. *Correct
when:* after each frame the state trace is what the event trace says, no event
is lost between buffer and trace, a state is only recomputed for cause, and
clients that know the same events have computed the same game.

**Fast event ordering** (`game_fasteventordering.c`). `compute_delays` computes,
before the game, how many frames after its summoning each client executes the
events of each player; the game loop is that of timewarp with these delays in
place of `local_lag`, and the receiver rewrites the execution frame. *Correct
when:* no delay is below its lag, so that nothing is rolled back; all clients
see the same game with a constant shift; nobody waits longer than necessary.

**Dead reckoning** (`game_deadreckoning.c`, `dr_server.c`). The server accepts
at most one client in a tick, takes all events that have arrived, advances the
state, and sends it to every client, with the frame in which the last event of
that client was summoned (`_lie`). A client holds states back by a simulated
lag, loads at most one in a frame, and computes from it to its own frame with
its own events. *Correct when:* every event is applied once and in order by the
server, `_lie` says which events are in a state, and what a client draws is the
last state it loaded and its own events.

**Simulation of the balls** (`balls/balls.c`). *State:* balls with position, speed,
player and buttons; scores, frame, count of deaths. *Operations:*
`initial_state`, `advance_state`, which sorts the events of the frame, executes
them, moves and collides the balls. *Hard:* events come in any order and some
twice, `qsort` is not stable, and `collide_balls` and `reset_ball` work in place,
ball after ball. *Correct when:* the events of a frame work as a set, as the
comment at `balls.c:88` claims, and everyone who has the same state and the same
events computes the same next state.

**Packet codec and buffers** (`packets.c`, `buffer.c`). *State:* a buffer with its
allocated size; a cursor. *Operations:* serialize and deserialize each kind of
packet, and the broadcast server's rewriting of a packet with its sender.
*Correct when:* a packet is as long as it says, its buffer was never too small,
and what is read is what was written.

**Frame table and event vectors** (`vec.c`, `ev_vec_t` in `game_timewarp.c`).
*State:* a growing table with the address of each frame's vector; growing
vectors. *Hard:* a vector that is moved by `realloc`. *Correct when:* each frame
has its own events and no others.

**Console client** (`client.c`), **local demo and drawing** (`game.c`, `main.c`,
`balls/draw.c`), **network helpers** (`netutils/`), and the **Java prototype**
(`extra/java`) complete the list; `PROJECT.json` says of each why it is not
modelled.

### How they interact

A client program calls its receive pool (shared linked list, one mutex), which
reads the connection the server writes. The server's threads share the list of
clients and write to each other's send buffers. Clients share no memory: they
are bound together by what the server relays, a FIFO stream from each sender to
each receiver, and by the determinism of `advance_state`.

## 2. The modules

| module | models | state and actions |
|---|---|---|
| `BroadcastServer` | `server.c` | one action for each critical section or call that may block, for the main thread (`Accept` … `Spawn`) and for each client's thread (`BroadcastLock` … `Shutdown`); `PeerSend`, `PeerClose` are the programs at the other end |
| `ServerSockets` | `server.c:306-339`, and the reading of a client program | extends `BroadcastServer`: the send section takes a step for each packet the kernel accepts (`SendSome`, `SendEnd`, or `SendSignal`, the SIGPIPE), and blocks with the send buffer's mutex held while the socket is full; `PeerRead` |
| `RecvPool` | `recvpool.c` | the pool's thread (`Recv` … `PushTail`), the client (`Drain` … `Parse`, `Quit`, `Join`), `Send`, `Close` the server's end |
| `PacketQueue` | what the pool promises | `Put`, `Take`; `RecvPool` refines it |
| `Timewarp` | `game_timewarp.c`, `main` | the parts of the frame in their order: `Poll`, `Receive`, `Drain`, `Synchronize` (one turn of the loop), `EndFrame`; `Start` connects |
| `EventVectors` | `vec.c`, `ev_vec_t` | the memory behind a client's event trace: `Open` looks a frame's vector up or creates it, `Push` adds an event; addresses, and which of them are in use |
| `FEODelays` | `compute_delays` | the three nested loops, a step for each turn (`Compare`, `SetDif`, `SkipRef`) and the decision on a reference (`Judge`) |
| `DelayTable` | what `compute_delays` returns | closed form of the delays; `FEODelays` shows that the loops compute it |
| `FastEventOrdering` | `game_fasteventordering.c`, `main` | composes `Timewarp` (its actions, by INSTANCE) and `DelayTable` |
| `DeadReckoning` | `dr_server.c`, `game_deadreckoning.c` | a tick of the server (`Accept`, `Collect`, `NextPlayer`, `Advance`, `SendState`, `SendGone`, `EndTick`), the frame of a client (`Poll`, `Receive`, `Finish`), `Start` and `Exit` |
| `Balls` | `balls/balls.c` | operators only: `InitialState`, `Sort`, `AdvanceState` and its parts, in the order of the C functions, with truncating division |
| `Packets` | `packets.c`, `buffer.c`, `server.c:132` | operators only: the layout of every payload, `Serialize`, `Deserialize`, `Relay`, a buffer as bytes, size, and whether a push had to grow it |
| `Simulation` | the game of balls over its packets | a tick of the dead reckoning server and the frame of a client, with the real state of the game and real packets: `Send`, `Load`, `Predict` |
| `*Proofs` | | theorems about the module of that name; those of `ServerSockets` are in `BroadcastServerProofs` |
| `MC*` | | values of the constants for TLC |

Operators named with an underscore (`Drain_NoRollback`) are what a definition
would be with a plausible mistake in the code. No specification uses them; each
property has been seen to fail when one is put in the place of the definition
whose name it begins with.

### What is abstracted

*Packets and events* outside `Packets`. A packet is its kind, sender and number;
an event is its player, the frame of its summoning and its button. The framing
loop sees whether a packet is complete, and of the next one whether nothing, at
most two bytes, or more than two bytes are there (`tail`, `partial`), which is
all its conditions tell apart.

*A state of the game* outside `Balls` is the sequence of the sets of events that
were executed in its frames. `advance_state` sorts its events "so that they work
as a set", so a state is a function of that sequence; equal sequences are equal
states for every simulation, and an error in the order, place or number of
executions cannot hide behind the arithmetic of the balls. That the comment is
right about the code is `EventsAreASet` of `Simulation`. The vectors of events of
a frame are sets for the same reason; what can go wrong in their memory is in
`EventVectors`.

*Time.* The clients' clocks are independent: each client's frame is advanced on
its own, at any moment. Every drift, and every network delay, is covered.

*The network between two timewarp clients* is a FIFO channel for each pair
(`wire`), which is what `BroadcastServer` shows of the server (`NoGap`,
`SessionOrder`), with the loss that `Synchronised` is about: a client that
connects after another has left may or may not get what it sent (`missed`).

*The lag matrix* is any matrix: the models fix no reading of rows and columns
beyond that of the code, `lags[receiver][sender]` (`game_timewarp.c:231`;
`README.md:98` describes the same cell as the lag from row to column).

*In dead reckoning* the server and every client advance on their own, so drift,
delay and simulated lag appear as the order of their steps. The server's arrays
of players and events, and the client's `state_memory`, have no capacity in the
model. A client that exits closes its connection: what it has not read is lost,
and so may be a part of what it has sent. The server keeps a player that has gone
in its list; the first send to it provokes a RST, and a later one may end the
server by SIGPIPE (`SendGone`). The receive pools on both sides are the queues
that `RecvPool` shows them to be.

*Nodes of the receive pool* are numbered by their packets; a freed node is
remembered as freed, so that a use after free is visible.

*In `Simulation`* server and client are in step, and the client's player executes
its events in the frame in which the server does. How their steps interleave is
the subject of `DeadReckoning`; here the question is what the arithmetic and the
bytes do. The arena, the speeds and the number of balls are parameters, as they
are macros in the code. `death_count`, which a state packet does not carry
(`packets.c:54-66`), has after a load the value of the memory the state is read
into (`OldCounts`).

## 3. Runs

| run | question | result |
|---|---|---|
| `server_join` | Three clients join, one of them sends twice, in pieces of any size, and may leave or reset, the pipe holds three bytes. Is everybody told everything, in order, is nothing relayed that is not complete, does no thread sleep on what it has to send, and do locks never close a circle? | holds |
| `server_sockets` | Two clients, one of which may leave or reset at any time, sockets that hold one packet. Is there no gap, and under fair scheduling is every packet and every departure read by those who stay? | holds |
| `server_late_joiner` | Do all clients know the same packets whenever they joined? (`tex/04_implementacion.tex:69`) | **violated**: histories of clients that left are gone |
| `server_partial` | Is every packet cut off the vector in the end, if a read can end anywhere? (`tex/04_implementacion.tex:60`) | **violated**: the loop at `server.c:278` never ends on more than two bytes of an incomplete packet |
| `timewarp` | Two clients with clocks and delays of any kind, one may leave: are rollbacks exact and justified, do clients converge? | holds |
| `event_vectors` | Three frames' vectors in a table that grows: does each frame have its own events? | holds as long as no vector is moved |
| `feo_delays` | Over all matrices of three clients: are the delays sufficient, tight, and the same order for all? | holds |
| `feo_game` | Two clients with these delays: no rollback unless an event exceeds its lag, and the same game with a constant shift? | holds |
| `recv_pool` | Is the linked list a FIFO queue under two threads, are nodes used only while they live, is what arrives given to the client? | holds |
| `dead_reckoning` | A server and two clients, one of which may leave: is every event executed once and in order, is `_lie` exact, is what a client draws its last state and its own events? | holds |
| `dead_reckoning_twice` | Is an event that a loaded state has executed left out when the client computes on? (`game_deadreckoning.c:260`) | **violated**: the test for it is disabled, `game_deadreckoning.c:263` |
| `simulation` | Three balls, two players, every packet byte by byte: do the events of a tick work as a set, does what is sent arrive, and where can a client that computes ahead be wrong? | holds |

The three violations are disagreements of the code with what the repository says
of it; `PROJECT.json` quotes both sides under `findings`.

### Properties worth a word

* `RelayComplete`, `NoGap`, `SessionOrder`, `HeardInTime`, `GoodbyeHeard`: the
  replay of histories and the broadcasts interleave at every point of the
  registration. The history is written before the broadcast, so a client
  registered in between gets a packet twice (`NoGap` allows exactly this), never
  not at all. Both `NoGap` and `SessionOrder` speak of the positions in what a
  client has been told: before each packet of a sender there is its predecessor.
  `HeardInTime` and `GoodbyeHeard` are about what the program at the other end has
  read, not about what the server has queued. They say nothing once the process
  has ended (`SendKilled`, `SendSignal`: SIGPIPE at `server.c:319`), and
  `GoodbyeHeard` is about the clients that are listed together with the one that
  leaves: a newcomer registered between its goodbye and its unlinking
  (`server.c:266`) is told that it is connected and nothing more.
* `TypeOK` of `BroadcastServer` also says that nothing is relayed that was not read
  to its end (`server.c:288`), wherever reads split the stream.
* `NoLostWakeup`, `PipeBounded`: drained pipe and emptied buffer belong to one
  critical section; were they not, a client's thread would sleep on packets, or
  bytes would add up in a pipe with little to announce.
* `NoCircularWait`: threads wait for each other's locks, but never in a circle.
  One of them may still wait with locks held, for its peer or for room in a pipe.
  With a pipe of three bytes and sockets of one packet TLC finds such a state of
  `ServerSockets` in which all wait: the writer at `server.c:214` for room in the
  pipe, with the mutex its owner needs to drain it. No property excludes this
  state, in which `PipeBounded`, `TypeOK` and `NoCircularWait` all hold. A Linux
  pipe has 65536 bytes, and so the run of `ServerSockets`, whose liveness it would
  break, gives the pipe room for every packet there is.
* `TraceCoherent`, `NoneStranded`, `RollbackJustified`, `Converged`: the rollback
  is exact (no stale state left, none recomputed without cause), nothing is lost
  between buffer and trace, and so the clients' games are equal.
* `KeptWhileSmall`: `ev_vec_push` may move the vector, and only a local variable
  of its caller gets the new address (`game_timewarp.c:105`, 213, 238, 251). So
  the property has the condition that no vector has been moved, that is, that no
  frame has more events than a vector first has room for, or that `realloc` found
  room in place; beyond it the table has the address of freed memory.
* `Perceptive`, `LagsCovered`, `Tight`, and in the game `SameGameShifted` and
  `RollbackOnlyWhenLate`: the promise of the protocol and its price. Perceptive
  consistency has two halves (`tex/01_modelos_consistencia.tex:30-32`):
  `Perceptive` is simultaneity. Delta-legality, that between two events as much
  time passes in their execution as in their making, compares the clocks of two
  players, and each client counts its frames from its own start.
* `IsFifo`, `NodesInUse`, `OnlyBadLeaked`, `Received`, `JoinReturns`: the list
  under its mutex, and what becomes of a packet that cannot be parsed. `JoinReturns`
  begins when the server has closed the connection; until it does, the join at
  `recvpool.c:152` waits, and nothing bounds how long.
* `EachOnce`, `LieExact`: the server's side of dead reckoning. The queues of
  several players, the reset of the event array in each tick and the frame
  stamped into each player's copy of the state must fit together, and the
  connect event, which every client sends twice, is the one exception.
* `Predicted`, `Unnoticed`: the client's side. What is drawn was computed by
  turns, in part from states that have been loaded since and in part before, and
  is still what the last state and the own events say; if the local lag is chosen
  as the repository intends, no state the server sends takes an own event back.
* `EventsAreASet`, `OnlyResetsDiverge`, `PacketsIntact`: every order into which
  `qsort` may bring the events, and every repetition, leads to the same state; a
  client goes wrong only by the events of others and by the place in which a ball
  starts anew, which depends on the one field that is not sent; and every packet
  is as long as it says, with and without the sender's id. `OnlyResetsDiverge` ends
  when a ball starts anew, and `PacketsIntact` leaves `death_count` out, so neither
  says that the states sent are complete, as `tex/02_protocolos.tex:37` has it
  ("estados completos"). They are not: without the condition on `deathCount` TLC
  refutes `OnlyResetsDiverge`, even if the memory into which the client reads the
  state is clear (`OldCounts = {0}`): a ball starts anew on the server, the client
  loads the state, and the next ball that starts anew does so in different places.

### Bounds, and why they are enough

* *Three connections* in `server_join`: a sender, a client that is already
  listed, a newcomer. The races are between the registration of one and the
  broadcast of another, and the third shows what both do to a bystander. The
  sender has two packets and may leave, so that its session has a beginning, an
  order and an end; the others broadcast their connection. Its reads may end
  inside a packet, before or after the two bytes of its size (`Tails`); after
  them its thread is lost in the loop, which safety properties outlast.
  `server_sockets` has two clients, one of which sends twice, so that an order
  can be wrong, and may leave.
* *Pipe of three bytes* in `server_join`: it fills, with the handshake and the
  broadcasts of two others. *Socket of one packet* in `server_sockets`: every
  second packet blocks the sender until the peer reads.
* *Two timewarp clients, three frames, one key each:* an event can be executed
  in the frame of its arrival, or have missed one, two or three frames, two late
  events can come in one frame, and a rollback can reach the first frame. One
  frame of delay and an asymmetric matrix tell execution, arrival and lag apart.
* *A table of two cells, frames 1, 3 and 5, vectors for two events, up to four
  events in a frame* in `event_vectors`: the table grows more than once and by more than one step at a
  time, a vector is filled and enlarged, in place and elsewhere, and freed
  addresses are given again.
* *All matrices of three clients with lags up to 2:* a reference, a client that
  is shifted, one that is not.
* *Four packets, the second of which cannot be parsed,* in `recv_pool`: the list
  can be empty, have one node, in which head and tail meet, and several.
* *Two clients, three ticks, three frames, one key* in `dead_reckoning`: the
  server can be ahead of and behind a client, a state can be loaded late or not
  at all, and local lag and input lag of one frame tell summoning, execution,
  arrival and loading apart. The second client receives its states late, and may
  leave. `dead_reckoning_twice` needs one client and one frame more.
* *Three balls in an arena of twelve, three ticks, two events in each* in
  `simulation`: balls hit the border, one another and each other's players, die
  and start anew within the three ticks; two events are the fewest that have an
  order. The lag of 300 frames makes frame numbers longer than a byte.

All bounds are constants of the modules. The theorems hold for any of them;
`NumbersFit`, in `Simulation`, relates the length of a game to the width of a field.

### Fairness and deadlock

The operating system runs every thread (weak fairness for each thread of the
server and for both threads of a client program). In `ServerSockets` peers read:
the receiving thread of every client program does nothing else
(`recvpool.c:93-108`), so `PeerRead` is weakly fair. Peers need not send, nor
close, nor connect. In `RecvPool` the thread's request for the mutex has strong
fairness: the client takes the mutex again and again, but sleeps between frames
with the mutex free, so the other thread gets it. The server needs none, as
packets, and so requests, are finitely many.

Deadlock is not checked as such: all these systems come to rest, when no peer
connects or sends, when the clocks reach their bound, when the process was ended
by a signal. That nobody waits for ever is what `GoodbyeHeard`, `HeardInTime`,
`Received`, `JoinReturns`, `NoLostWakeup` and `NoCircularWait` are for.

## 4. Refinement and proofs

Every step of `ServerSockets` is one of `BroadcastServer` or leaves its variables
as they are, so that what is shown of the server holds with blocking sends too.
`RecvPool` implements `PacketQueue`. Both are proved, and TLC checks the second
(`IsFifo`).

The theorems are of the form `Spec => ...`, for every value of the constants that
satisfies the named assumptions of their module. Two are of another form:
`EventsWorkAsASet` is about any state of the game and any sequence of events, and
`ConvergedHolds` assumes what its run has too, that the delays of the clients agree.
Steps that take a prover longer than a moment name it with a time limit
(`SMTT(30)`, `ZenonT(60)`), so that they do not depend on the speed of a machine.

* `BroadcastServerProofs`, for any number of clients, packets, pipe capacity.
  `Typing` rests on `CountInv`, that a packet in hand has been read and not yet
  been counted. `NoLostWakeupHolds`, `PipeBoundedHolds`: the invariant `IInv` adds to
  the types who holds which mutex where (`MutexInv`), that lists and loops over
  them meet only accepted ids (`ListInv`), what is known of the client being set
  up (`NewInv`), and how pipe, send buffer and mutex account for each other
  (`PipeInv`): between the append and the notification the buffer is one packet
  ahead of the pipe, and exactly then a stranger holds the mutex. Without it
  neither property is inductive. `NoCircularWaitHolds` adds that the holder of
  the context mutex is walking over the list (`CtxInv`): it waits for a send
  buffer at most, whose holder waits for no lock. `RelayCompleteHolds` adds
  `RelayInv`: nobody is in the list twice or after its end (`ListedInv`), a
  history has all that was relayed and the packet in hand before it is broadcast
  (`HistInv`), and listed clients know all that was relayed, the newcomer what
  those relayed whose history it has got, and of the packet being broadcast those
  know whom the broadcast has visited (`HeardInv`). `NoGapHolds` and
  `SessionOrderHolds` rest on `SessionInv`: that a walk over the list visits listed
  clients, each once, and which broadcast is a client's first and last (`WalkInv`),
  that a history is what its client has sent, in its order (`KeptInv`), and for
  every pair of clients, which part of the one's session the other has been told
  at each point of a registration, a relay or a goodbye (`PairInv`), so that
  whatever comes next fits behind it.
* The same module, on `ServerSockets`: `Refinement`; `SocketsInOrder`, that a
  socket has a beginning of what the server has told its client and the peer has
  read a beginning of that; and from the refinement `NoCircularWaitWithSockets`,
  `NoGapWithSockets`, `SessionOrderWithSockets`, `RelayCompleteWithSockets`.
* `TimewarpProofs`: `Typing` (no write beyond the traces), `TraceCoherentHolds`,
  `NoneStrandedHolds`, `RollbackJustifiedHolds`, for any number of clients, any
  lags, delays, keys and frames. `IInv` adds where the loop's index stands
  (`LoopInv`), that the state drawn is the last computed (`DrawnInv`), that only
  others' events come over the wire (`WireInv`), and that the loop is behind the
  frame only on account of a buffered event that old (`RewindInv`).
  `ConvergedHolds` assumes that the delay is the same on all clients, as
  `local_lag` is, and rests on `KnowInv`: trace, buffer and wire of a client
  together have exactly the events that another has in its own trace.
* `FEODelaysProofs`: `LastIsReferenceHolds`, `LagsCoveredHolds`,
  `PerceptiveHolds`, `TightHolds`, `ComputedHolds`, for up to eight clients
  (`MAX_PLAYERS`) and any matrix. The invariant says of the running maximum that
  it bounds the rows seen and is attained in one of them.
* `FastEventOrderingProofs`: `RollbackOnlyWhenLateHolds`. The delays of
  `DelayTable` cover the lags (`DelaysCoverLags`), so they satisfy the
  assumption of `TimewarpProofs`, whose theorems are then used by INSTANCE.
  `SameGameShiftedHolds`: the delays of two clients differ by the same number for
  the events of all players (`ConstantShift`), so that by `KnowInv` the events
  that one client executes in a frame the other executes in the frame shifted by
  it (`BucketShift`), and a shift cannot be seen (`ShiftSeenAlike`).
* `RecvPoolProofs`: `Typing`, `NodesInUseHolds`, and `Refinement`, `Spec =>
  IsFifo`, for any number of packets and any of them unreadable. The invariant
  says how far sending, receiving and cutting have come (`CountInv`), who holds
  the mutex (`MutexInv`), which node is in hand (`TakenInv`), that the list has
  the nodes from `Popped` to `Linked` in their order and that its tail is the
  last (`ListInv`), and which nodes are allocated (`HeapInv`). `Popped` and
  `Linked` count the node that is being unlinked or linked, so that the list is
  described in the middle of a critical section too. `PushFirst` and `PushLast`
  are `Put`, `PopTail` is `Take`, every other step stutters. `OnlyBadLeakedHolds`
  needs that a node's pointer is that of the next packet or null (`NextInv`) and
  that whatever is allocated and not in the list is in a thread's hands or could
  not be parsed (`LeakInv`); that following the pointers from the head gives
  exactly the nodes of the list (`ChainHas`) is proved with a least
  counterexample.
* `DeadReckoningProofs`, for any number of clients, any local and input lags:
  `Typing`, `PredictedHolds`, `UnnoticedHolds`. `DrawInv` says that a bucket has
  only its player's events of its frame (`BucketsOK`), where the state stands
  from which the client computes (`BaseOK`), and that what is drawn is that state
  and the own events since (`DrawnOK`); `PrefixInv`, that every state on its way
  is a beginning of what the server has computed.
  `EachOnceHolds`, `LieExactHolds`: `StreamInv` says that a client's events on
  their way and those in the server's array are in the order of their summoning
  and later than those executed, but for the connect event; `MessageInv`, that the
  `_lie` in a state on its way is the summoning of the last event of its receiver
  in it.
* `EventVectorsProofs`, for any number of frames, any first capacity, any addresses:
  `TypeCorrect`, which needs that the vector in hand is at an address and that the
  table and the vectors keep the room they began with (`MemoryInv`), and
  `KeptWhileSmallHolds` from `SoundInv`: the addresses in the
  table are in use and no two frames share one, and the vector there has the events
  pushed for its frame, as long as nothing has been moved, for which a frame must
  have had more events than a vector first has room for. `GrownIs` says what the
  loop of `__vec_grow` computes.
* `SimulationProofs`, for any number of balls and players, any sizes and speeds, any
  events. `EventsWorkAsASet`: what `compare_events` orders can be sorted
  (`OrderExists`), every result of sorting has the same set of events (`ArrangedIs`),
  and as presses come first, what the loops over the events do to a button or a
  player's place is a function of that set (`After`, `ReactSorted`,
  `ConnectSorted`). The loops are folds; the lemmas on `IsFold` and `Rounds` give
  the result of a fold as the last of its rounds, by induction over a set of
  numbers, which has a least element. The other loops do not depend on the events
  (`SameMove`), so the whole of `advance_state` does not on their order
  (`SameAdvance`). `AdvanceType` and `InitialStateType` say that balls stay in the
  arena, within their speed, and their own player's or nobody's; `Lockstep`, that
  states that differ in `death_count` and `_lie` only stay so in every round in which
  no ball starts anew.

  The codec is proved from its bytes up: a number that fits a field is what the
  bytes of the field mean (`RoundTrip`), wherever they are in the data (`ReadIs`);
  numbers pushed one after another are where `Offsets` says, and are popped from
  there (`BodyIs`, `PopIs`); the sums in `PayloadSize`, written by hand in the
  code, are the sums of the layouts for any number of balls and players (`Sized`,
  `StateSized`), so that no push moves a buffer; and the broadcast server's copy
  has the same payload four bytes later (`FilledIs`). `StateFits`, `StateReadsBack`,
  `EventFieldsIs` and `HandshakeIs` apply this to what the game sends, if its
  numbers fit (`Sendable`).

  That they do is part of the inductive invariant, `SimInv`: the frame, `_lie` and
  the frames of events are bounded by the ticks of the game, and a score by
  N_BALLS^2 for each frame, since `advance_state` looks at a pair of balls once at
  most (`AdvanceScores`). The other parts need it: a number that did not fit would
  come back as another one, and client and server would go apart. `SimInv` also
  says that the events have come as they were made, that both states are of the
  game and in the same frame, and that they are alike since the client's last load
  if nothing else has happened. `TypeCorrect`, `EventsAreASetHolds`,
  `OnlyResetsDivergeHolds` and `PacketsIntactHolds` follow from it. What is assumed
  of the constants, `NumbersFit`, is that a state is shorter than 32 KB, that the
  arena and the speeds are 32-bit numbers, and that a game ends before N_BALLS^2
  times its frames, or its frames and the lag, exceed 2^31 - 1: for the 12 balls
  of the program, within 14.9 million frames. The code has no check for it.

Only model-checked: liveness under fairness, which is out of the prover's reach
(`GoodbyeHeard`, `HeardInTime`, `Received`, `JoinReturns`). Every other property of a
passing run is a theorem.

## 5. Not modelled

* *Console client* (`client.c`): a test program without state; it is a peer of
  `BroadcastServer`. *Local demo and drawing*: a loop without a network, and
  output. *Network helpers*: wrappers around system calls. *Java prototype*: an
  earlier version of the server and of the state trace.
* In the codec, floats and strings that the reader allocates, which no program
  uses, and `print_packet`.
* What a program does beyond the end of an array is not determined by its source.
  So three limits are kept as hazards without a property: ids from `MAX_PLAYERS`
  on, which are handed out after eight connections whoever has left
  (`server.c:372`), the eighty events and the players of the dead reckoning
  server's arrays (`dr_server.c:68`, 85), and `bv_append`, which grows a vector
  once, whatever is appended (`bvec.c:17`).
* The receive pool has the framing loop of the server and the same way to turn for
  ever (`recvpool.c:110`); `recv_pool` takes reads that leave at most two bytes of
  a packet, `server_partial` shows what the others do.
* Failures of `accept`, `pipe`, `malloc` and `select`, and the real-time delay
  between frames.

What would come next: a composition of `RecvPool` with the sockets of the server,
in place of the peers that read.
