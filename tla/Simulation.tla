------------------------------ MODULE Simulation ------------------------------
(***************************************************************************)
(* The game itself as the dead reckoning server and one of its clients     *)
(* compute it (src/src/dr_server.c, src/src/game_deadreckoning.c), with    *)
(* the balls of balls.c and the packets of packets.c.                      *)
(*                                                                         *)
(* In a tick the server executes the events that have reached it and sends *)
(* the state.  The client loads it, or computes the next state from its    *)
(* own with the events of its player, which it executes in the same frame: *)
(* the case for which its local lag is adjusted.  How ticks, frames and    *)
(* packets interleave is the subject of DeadReckoning.                     *)
(***************************************************************************)
EXTENDS Packets

CONSTANTS
    Viewer,      \* the player of the client
    Keys,        \* the key events there are, as pairs <<button, pressed>>
    LocalLag,    \* from an event's summoning to its execution
    MaxEvents,   \* bound: events in a tick
    LastTick,    \* bound: ticks
    OldCounts    \* what death_count may be in the memory a state is read into

ASSUME SimulationConstants ==
    /\ Viewer \in Player
    /\ Keys \subseteq Button \X BOOLEAN
    /\ {LocalLag, MaxEvents, LastTick} \subseteq Nat
    /\ OldCounts \subseteq Int

\* Within the bounds every number fits the field it is sent in: the size of a state
\* with the id of a sender an int16_t, and the others, among them a score, which
\* grows by less than N_BALLS^2 in a frame, an int32_t.
ASSUME NumbersFit ==
    /\ PayloadSize["state"] + 7 <= MaxShort
    /\ {ARENA_SIZE, MAX_SPEED} \subseteq 0 .. MaxInt
    /\ LastTick + LocalLag <= MaxInt
    /\ LastTick * Square(N_BALLS) <= MaxInt

VARIABLES
    world,   \* the server's state
    made,    \* the events summoned in this tick, as their players made them
    evs,     \* the same as they have arrived at the server
    view,    \* the client's state
    loaded,  \* the server's death_count at the last load
    alone    \* since then only the client's own events have been executed

vars == <<world, made, evs, view, loaded, alone>>

Init ==
    /\ world = InitialState
    /\ made = <<>> /\ evs = <<>>
    /\ view = InitialState
    /\ loaded = 0
    /\ alone = TRUE

\* The id a client reads from its handshake.
PlayerId(p) == Deserialize(Cut(Serialize("handshake", <<p>>).data), "handshake", FALSE)[1]

Made(p, button, pressed) ==
    [frame |-> world.frame + LocalLag, summon |-> world.frame, player |-> PlayerId(p),
     button |-> button, pressed |-> pressed]

\* An event as it arrives.
Arrived(e) == EventOf(Deserialize(Cut(Serialize("event", EventFields(e)).data), "event", FALSE))

Joined(p) ==
    \/ world.balls[p].player = p
    \/ \E i \in DOMAIN made : made[i].player = p

\* A client sends its connect event, more than once, then the keys.
Send(p) ==
    /\ Len(made) < MaxEvents
    /\ world.frame < LastTick
    /\ \E k \in {<<N_BUTTONS, TRUE>>} \cup (IF Joined(p) THEN Keys ELSE {}) :
         LET e == Made(p, k[1], k[2]) IN
           /\ made' = Append(made, e)
           /\ evs' = Append(evs, Arrived(e))
    /\ UNCHANGED <<world, view, loaded, alone>>

\* _lie: the summon frame of the last event of the client's player.
SetLie(lie, e) == IF e.player = Viewer THEN e.summon ELSE lie
Lie == FoldLeft(SetLie, world.lie, evs)

\* A state as the client has it after receiving it.
Received(st, old) ==
    StateOf(Deserialize(Cut(Serialize("state", StateFields(st)).data), "state", FALSE), old)

Advanced == [AdvanceState(world, evs) EXCEPT !.lie = Lie]

Load ==
    /\ world.frame < LastTick
    /\ world' = Advanced
    /\ \E old \in OldCounts : view' = Received(Advanced, old)
    /\ loaded' = Advanced.deathCount
    /\ alone' = TRUE
    /\ made' = <<>> /\ evs' = <<>>

\* The client's own events.
AddOwn(own, e) == IF e.player = Viewer THEN Append(own, e) ELSE own
Own == FoldLeft(AddOwn, <<>>, made)

Predict ==
    /\ world.frame < LastTick
    /\ world' = Advanced
    /\ view' = AdvanceState(view, Own)
    /\ alone' = (alone /\ \A i \in DOMAIN made : made[i].player = Viewer)
    /\ made' = <<>> /\ evs' = <<>>
    /\ UNCHANGED loaded

Next == Load \/ Predict \/ \E p \in Player : Send(p)

Spec == Init /\ [][Next]_vars

-------------------------------------------------------------------------------

Ball ==
    [x : 0 .. ARENA_SIZE - 1, y : 0 .. ARENA_SIZE - 1,
     vx : - MAX_SPEED .. MAX_SPEED, vy : - MAX_SPEED .. MAX_SPEED,
     player : Player \cup {-1}, buttons : [Button -> BOOLEAN]]

State ==
    [paused : BOOLEAN, frame : Nat, deathCount : Int, lie : Nat,
     scores : [Player -> Nat], balls : [Index -> Ball]]

StateOK(st) ==
    /\ st \in State
    /\ st.frame <= LastTick
    /\ \A i \in Index : st.balls[i].player \in {-1, i}

\* Every variable has its type: on the server as on the client each ball is in
\* the arena, no faster than allowed, and nobody's or its own player's, and no
\* score is below 0, whatever count of deaths the client computes with.
TypeOK ==
    /\ StateOK(world) /\ StateOK(view)
    /\ made \in Seq(Event) /\ evs \in Seq(Event)
    /\ loaded \in Nat /\ alone \in BOOLEAN

\* "Sort events so that they work as a set and the function is deterministic":
\* in whatever order the events of a frame have come, and if one has come twice,
\* every order they may be sorted into leads to the same state.
EventsAreASet ==
    \A again \in {<<>>} \cup {<<evs[i]>> : i \in DOMAIN evs} :
      LET es == evs \o again IN
        \A s \in Orders(es) :
          Advance(world, [i \in DOMAIN s |-> es[s[i]]]) = AdvanceState(world, evs)

\* A client that has loaded a state and goes on with its own events sees what the
\* server computes, as long as nobody else does anything and no ball starts anew;
\* from then on the two may differ for good, since death_count, which chooses the
\* place where it starts, is not sent.
OnlyResetsDiverge ==
    alone /\ world.deathCount = loaded =>
      [view EXCEPT !.deathCount = 0, !.lie = 0] = [world EXCEPT !.deathCount = 0, !.lie = 0]

Exact(b) ==
    /\ ~ b.lost
    /\ Len(b.data) = b.size
    /\ Value(SubSeq(b.data, 1, 2)) = Len(b.data)

Filled(kind, fields) ==
    LET b == Serialize(kind, fields) IN
      /\ Exact(b)
      /\ \A id \in Player :
           LET r == Relay(b.data, id) IN
             /\ Value(SubSeq(r, 1, 2)) = Len(r)
             /\ Sender(r) = id
             /\ Deserialize(Cut(r), kind, TRUE) = Deserialize(Cut(b.data), kind, FALSE)

\* The packets whose contents are not of the game; texts have up to 255 characters.
OthersFilled ==
    /\ Filled("test1", <<-3, 97>>) /\ Filled("test2", <<MaxShort + 1, -2>>)
    /\ Filled("connected", <<>>) /\ Filled("disconnected", <<>>)
    /\ \A p \in Player : Filled("handshake", <<p>>)
    /\ \A n \in {0, 1, 254, 255} :
         LET text == [i \in 1 .. n |-> 97 + (i % 26)]
             b == SerializeText(text) IN
           Exact(b) /\ PopText(Cut(b.data)) = text

\* The size every packet announces is its size, its buffer is exactly large
\* enough, never grown while it is filled, and the broadcast server's copy with
\* the sender's id is a packet with the same contents.
PacketsFilled ==
    /\ OthersFilled
    /\ Filled("state", StateFields(world))
    /\ \A i \in Index : Filled("ball", BallFields(world.balls[i]))
    /\ \A i \in DOMAIN made : Filled("event", EventFields(made[i]))

\* Every packet is as long as it says, and what arrives is what was sent: every
\* event, in the same order, and every state but for the count of deaths.
PacketsIntact ==
    /\ PacketsFilled
    /\ evs = made /\ \A p \in Player : PlayerId(p) = p
    /\ \A old \in OldCounts : Received(world, old) = [world EXCEPT !.deathCount = old]

================================================================================
