-------------------------------- MODULE Packets --------------------------------
(***************************************************************************)
(* The packets that the programs of the game exchange, byte by byte: the   *)
(* buffers they are written into and read from (src/src/buffer.c), their   *)
(* layouts (src/src/packets.c) and what the broadcast server makes of them *)
(* (src/src/server.c).                                                     *)
(*                                                                         *)
(* A buffer is written by functions that get it by value: when one of them *)
(* has to grow it, realloc may move it, and the caller is left with the    *)
(* old address.  `lost' says that this has happened.                       *)
(***************************************************************************)
EXTENDS Balls

\* enum payload_type, the letters by their codes.
Code == [test1 |-> 97, test2 |-> 50, handshake |-> 104, text |-> 116,
         disconnected |-> 100, connected |-> 99, ball |-> 98, state |-> 115, event |-> 101]

\* An integer in two's complement, w bytes in the order of the network: a char, an
\* int16_t or an int32_t.
Shifted(n) == <<n, n \div 256, (n \div 256) \div 256, ((n \div 256) \div 256) \div 256>>
Bytes(n, w) == [i \in 1 .. w |-> Shifted(n)[w - i + 1] % 256]

Signed(b) == IF b >= 128 THEN b - 256 ELSE b
Value(bytes) ==
    LET top == Signed(bytes[1]) IN
      IF Len(bytes) = 1 THEN top
      ELSE IF Len(bytes) = 2 THEN 256 * top + bytes[2]
      ELSE 256 * (256 * (256 * top + bytes[2]) + bytes[3]) + bytes[4]

\* What fits into w bytes.
MaxShort == 32767
MaxInt == MaxShort * 65536 + 65535
Fits(w) ==
    IF w = 1 THEN -128 .. 127
    ELSE IF w = 2 THEN - MaxShort - 1 .. MaxShort ELSE - MaxInt - 1 .. MaxInt

Flag(b) == IF b THEN 1 ELSE 0

-------------------------------------------------------------------------------
(* Buffers *)

Buffer(n) == [data |-> <<>>, size |-> n, lost |-> FALSE]

\* Where each of the numbers of the given widths begins that are written one after
\* another, and where the last one ends.
AddOffset(offsets, width) == Append(offsets, Last(offsets) + width)
Offsets(widths) == FoldLeft(AddOffset, <<0>>, widths)

\* For each byte of these numbers, which of them it belongs to, and which of its
\* bytes it is.
Places(widths) ==
    LET at == Offsets(widths) IN
      [j \in 1 .. Last(at) |->
         LET i == CHOOSE i \in DOMAIN widths : at[i] < j /\ j <= at[i + 1] IN
           <<i, j - at[i]>>]

\* Numbers pushed one after another, their bytes being at the given places.  A
\* push for which there is no room makes the buffer grow, by half its size.
Push(b, places, widths, values) ==
    [data |-> b.data \o [j \in DOMAIN places |->
                           LET i == places[j][1] IN
                             Bytes(values[i], widths[i])[places[j][2]]],
     size |-> b.size,
     lost |-> b.lost \/ Len(places) > b.size - Len(b.data)]

\* The numbers at the given offsets, popped one after another after a header.
Pop(data, header, at) ==
    [i \in 1 .. Len(at) - 1 |-> Value(SubSeq(data, header + at[i] + 1, header + at[i + 1]))]

-------------------------------------------------------------------------------
(* The layouts of the payloads, with the sizes the headers announce *)

BallLayout  == <<4, 4, 4, 4, 4>> \o [r \in 1 .. N_BUTTONS |-> 1]
StateLayout ==
    <<1, 4>> \o [p \in 1 .. MAX_PLAYERS |-> 4]
      \o [k \in 1 .. Len(BallLayout) * N_BALLS |-> BallLayout[((k - 1) % Len(BallLayout)) + 1]]
      \o <<4>>

\* The kinds but texts, whose length varies.
Layout ==
    [test1 |-> <<4, 1>>, test2 |-> <<4, 2>>, handshake |-> <<4>>, disconnected |-> <<>>,
     connected |-> <<>>, ball |-> BallLayout, state |-> StateLayout,
     event |-> <<4, 4, 4, 1, 1>>]
LayoutPlaces == [k \in DOMAIN Layout |-> Places(Layout[k])]
LayoutOffsets == [k \in DOMAIN Layout |-> Offsets(Layout[k])]

PayloadSize ==
    [test1 |-> 4 + 1, test2 |-> 4 + 2, handshake |-> 4, disconnected |-> 0, connected |-> 0,
     ball |-> 20 + N_BUTTONS, event |-> 12 + 2,
     state |-> 1 + 4 + 4 * MAX_PLAYERS + (20 + N_BUTTONS) * N_BALLS + 4]

BallFields(b) ==
    <<b.x, b.y, b.vx, b.vy, b.player>> \o [r \in 1 .. N_BUTTONS |-> Flag(b.buttons[r - 1])]

\* Everything in a state but death_count.
StateFields(st) ==
    LET n == 5 + N_BUTTONS
        balls == [i \in Index |-> BallFields(st.balls[i])] IN
      <<Flag(st.paused), st.frame>> \o [p \in 1 .. MAX_PLAYERS |-> st.scores[p - 1]]
        \o [k \in 1 .. n * N_BALLS |-> balls[(k - 1) \div n][((k - 1) % n) + 1]]
        \o <<st.lie>>

EventFields(e) == <<e.frame, e.summon, e.player, e.button, Flag(e.pressed)>>

\* Size and type of a packet, in a buffer made for that size.
HeaderPlaces == Places(<<2, 1>>)
Header(kind, psize) ==
    Push(Buffer(2 + 1 + psize), HeaderPlaces, <<2, 1>>, <<2 + 1 + psize, Code[kind]>>)

\* packet_serialize; a text comes with its length.
Serialize(kind, fields) ==
    Push(Header(kind, PayloadSize[kind]), LayoutPlaces[kind], Layout[kind], fields)
SerializeText(chars) ==
    Push(Push(Header("text", 2 + Len(chars)), Places(<<2>>), <<2>>, <<Len(chars)>>),
         [i \in DOMAIN chars |-> <<i, 1>>], [i \in DOMAIN chars |-> 1], chars)

\* Mutant: the sender's id is not counted in the size of the packet.
Relay_SameSize(data, id) == SubSeq(data, 1, 2) \o Bytes(id, 4) \o SubSeq(data, 3, Len(data))

\* bv_append_with_sender_id: the id of the sender goes in after the size.
Relay(data, id) ==
    Bytes(Value(SubSeq(data, 1, 2)) + 4, 2) \o Bytes(id, 4) \o SubSeq(data, 3, Len(data))

\* What a receiver cuts off its stream: as much as the size field says.
Cut(data) == SubSeq(data, 1, Value(SubSeq(data, 1, 2)))

\* packet_deserialize of a packet of a known type, with or without a sender's
\* id; -1 when a field is missing, which is never the case of a packet cut off
\* a stream that is well formed.
Deserialize(data, kind, withSender) ==
    LET head == IF withSender THEN 2 + 4 + 1 ELSE 2 + 1 IN
      IF \/ Len(data) < head + Len(LayoutPlaces[kind])
         \/ data[head] # Code[kind]
      THEN <<-1>>
      ELSE Pop(data, head, LayoutOffsets[kind])

\* buffer_pop_string of a text from a client, into 256 bytes with the 0.
PopText(data) ==
    LET n == Value(SubSeq(data, 4, 5)) IN
      SubSeq(data, 6, 5 + (IF n < 255 THEN n ELSE 255))

Sender(data) == Value(SubSeq(data, 3, 6))

\* Mutant: the buttons of a ball are not read.
BallOf_NoButtons(f) ==
    [x |-> f[1], y |-> f[2], vx |-> f[3], vy |-> f[4], player |-> f[5],
     buttons |-> [r \in Button |-> FALSE]]

BallOf(f) ==
    [x |-> f[1], y |-> f[2], vx |-> f[3], vy |-> f[4], player |-> f[5],
     buttons |-> [r \in Button |-> f[6 + r] # 0]]

\* A state read from a packet into a place where death_count has some old value.
StateOf(f, old) ==
    LET first(i) == 3 + MAX_PLAYERS + i * (5 + N_BUTTONS) IN
      [paused |-> f[1] # 0, frame |-> f[2], deathCount |-> old, lie |-> f[Len(f)],
       scores |-> [p \in Player |-> f[3 + p]],
       balls |-> [i \in Index |-> BallOf(SubSeq(f, first(i), first(i) + 4 + N_BUTTONS))]]

EventOf(f) ==
    [frame |-> f[1], summon |-> f[2], player |-> f[3], button |-> f[4],
     pressed |-> f[5] # 0]

================================================================================
