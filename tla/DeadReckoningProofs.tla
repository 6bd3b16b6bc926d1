-------------------------- MODULE DeadReckoningProofs --------------------------
(***************************************************************************)
(* Proofs about the dead reckoning server and its clients, for every       *)
(* number of clients, all lags, keys and quitters, and any number of ticks *)
(* and frames.                                                             *)
(***************************************************************************)
EXTENDS DeadReckoning, SequenceTheorems, TLAPS

Message == [hist : History, lie : 0 .. LastFrame]

\* A client that is not in the game is at its first frame, and one in the middle
\* of a frame is not beyond the last.
LoopInv ==
    /\ access \in [Client -> Nat]
    /\ stat \in [Client -> History]
    /\ \A c \in Client :
         /\ pc[c] = "off" => frame[c] = 1
         /\ pc[c] = "receive" => frame[c] <= LastFrame

TInv == TypeOK /\ LoopInv

-------------------------------------------------------------------------------
(* Sequences *)

LEMMA ToSetIn ==
    ASSUME NEW S, NEW s \in Seq(S)
    PROVE  ToSet(s) \subseteq S
BY DEF ToSet

\* The element of a sequence of one.
LEMMA ToSetOne == ASSUME NEW x PROVE ToSet(<<x>>) = {x}
<1>1. DOMAIN <<x>> = {1} /\ <<x>>[1] = x
  BY SMT
<1> QED
  BY <1>1 DEF ToSet

\* The elements of a sequence with one more at its end, and without its first.
LEMMA ToSetAppend ==
    ASSUME NEW S, NEW s \in Seq(S), NEW x \in S
    PROVE  ToSet(Append(s, x)) = ToSet(s) \cup {x}
<1>1. ToSet(Append(s, x)) \subseteq ToSet(s) \cup {x}
  BY SMT DEF ToSet
<1>2. ToSet(s) \cup {x} \subseteq ToSet(Append(s, x))
  <2>1. x \in ToSet(Append(s, x))
    <3>1. Len(s) + 1 \in DOMAIN Append(s, x) /\ Append(s, x)[Len(s) + 1] = x
      BY SMT
    <3> QED
      BY <3>1 DEF ToSet
  <2>2. ASSUME NEW i \in DOMAIN s
        PROVE  s[i] \in ToSet(Append(s, x))
    <3>1. i \in DOMAIN Append(s, x) /\ Append(s, x)[i] = s[i]
      BY SMT
    <3> QED
      BY <3>1 DEF ToSet
  <2> QED
    BY <2>1, <2>2 DEF ToSet
<1> QED
  BY <1>1, <1>2

LEMMA ToSetTail ==
    ASSUME NEW S, NEW s \in Seq(S), s # <<>>
    PROVE  /\ Head(s) \in S /\ Tail(s) \in Seq(S)
           /\ Len(Tail(s)) = Len(s) - 1
           /\ \A i \in 1 .. Len(s) - 1 : Tail(s)[i] = s[i + 1]
           /\ ToSet(s) = ToSet(Tail(s)) \cup {Head(s)}
<1>1. /\ Head(s) \in S /\ Tail(s) \in Seq(S) /\ Head(s) = s[1]
      /\ Len(s) \in Nat \ {0} /\ Len(Tail(s)) = Len(s) - 1
      /\ \A i \in 1 .. Len(s) - 1 : Tail(s)[i] = s[i + 1]
  BY SMT
<1>2. ToSet(s) \subseteq ToSet(Tail(s)) \cup {Head(s)}
  <2>1. ASSUME NEW i \in DOMAIN s, i # 1
        PROVE  s[i] \in ToSet(Tail(s))
    <3>1. i - 1 \in DOMAIN Tail(s) /\ Tail(s)[i - 1] = s[i]
      BY <1>1, <2>1, SMT
    <3> QED
      BY <3>1 DEF ToSet
  <2> QED
    BY <1>1, <2>1 DEF ToSet
<1>3. ToSet(Tail(s)) \cup {Head(s)} \subseteq ToSet(s)
  <2>1. ASSUME NEW i \in DOMAIN Tail(s)
        PROVE  Tail(s)[i] \in ToSet(s)
    <3>1. i + 1 \in DOMAIN s /\ Tail(s)[i] = s[i + 1]
      BY <1>1, <2>1, SMT
    <3> QED
      BY <3>1 DEF ToSet
  <2>2. 1 \in DOMAIN s
    BY <1>1, SMT
  <2> QED
    BY <1>1, <2>1, <2>2 DEF ToSet
<1> QED
  BY <1>1, <1>2, <1>3

LEMMA ToSetConcat ==
    ASSUME NEW S, NEW s \in Seq(S), NEW t \in Seq(S)
    PROVE  ToSet(s \o t) = ToSet(s) \cup ToSet(t)
<1>1. /\ s \o t \in Seq(S) /\ Len(s \o t) = Len(s) + Len(t)
      /\ Len(s) \in Nat /\ Len(t) \in Nat
      /\ DOMAIN s = 1 .. Len(s) /\ DOMAIN t = 1 .. Len(t)
      /\ DOMAIN (s \o t) = 1 .. Len(s) + Len(t)
      /\ \A i \in 1 .. Len(s) : (s \o t)[i] = s[i]
      /\ \A i \in 1 .. Len(t) : (s \o t)[Len(s) + i] = t[i]
  BY ConcatProperties, SMT
<1>2. ASSUME NEW i \in DOMAIN (s \o t)
      PROVE  (s \o t)[i] \in ToSet(s) \cup ToSet(t)
  <2>1. CASE i <= Len(s)
    BY <1>1, <2>1, SMT DEF ToSet
  <2>2. CASE ~ (i <= Len(s))
    <3>1. i - Len(s) \in DOMAIN t /\ (s \o t)[i] = t[i - Len(s)]
      <4>1. i - Len(s) \in 1 .. Len(t) /\ i = Len(s) + (i - Len(s))
        BY <1>1, <2>2, SMT
      <4> QED
        BY <1>1, <4>1
    <3> QED
      BY <3>1 DEF ToSet
  <2> QED
    BY <2>1, <2>2
<1>3. ASSUME NEW i \in DOMAIN s
      PROVE  s[i] \in ToSet(s \o t)
  <2>1. i \in DOMAIN (s \o t)
    BY <1>1, SMT
  <2> QED
    BY <1>1, <2>1 DEF ToSet
<1>4. ASSUME NEW i \in DOMAIN t
      PROVE  t[i] \in ToSet(s \o t)
  <2>1. Len(s) + i \in DOMAIN (s \o t)
    BY <1>1, SMT
  <2> QED
    BY <1>1, <2>1 DEF ToSet
<1> QED
  BY <1>2, <1>3, <1>4 DEF ToSet

-------------------------------------------------------------------------------
(* Types *)

LEMMA ConstantFacts ==
    /\ N \in Nat /\ LastFrame \in Nat \ {0}
    /\ InputLags \in [Client -> Nat] /\ LocalLags \in [Client -> Nat]
    /\ 1 \in 1 .. LastFrame
    /\ \A n \in Int : 0 <= n /\ n < N => n \in Client
BY DeadReckoningConstants, SMT DEF DeadReckoningConstants, Client

\* What the type of the variables says of one client.
LEMMA ClientFacts ==
    ASSUME TInv, NEW c \in Client
    PROVE  /\ frame[c] \in 1 .. LastFrame + 1 /\ frame[c] \in Nat
           /\ InputLags[c] \in Nat /\ LocalLags[c] \in Nat /\ LastFrame \in Nat
           /\ memory[c] \in Seq(Message) /\ Len(memory[c]) \in Nat
           /\ access[c] \in 0 .. Len(memory[c]) /\ access[c] \in Nat
           /\ stat[c] \in History /\ Len(stat[c]) = frame[c] - 1
<1>1. /\ frame[c] \in 1 .. LastFrame + 1
      /\ memory[c] \in Seq(Message) /\ access[c] \in 0 .. Len(memory[c])
      /\ stat[c] \in History /\ Len(stat[c]) = frame[c] - 1
  BY DEF TInv, TypeOK, Message
<1>2. InputLags[c] \in Nat /\ LocalLags[c] \in Nat /\ LastFrame \in Nat
  BY ConstantFacts
<1>3. Len(memory[c]) \in Nat
  BY <1>1
<1>4. frame[c] \in Nat /\ access[c] \in Nat
  BY <1>1, <1>2, <1>3, SMT
<1> QED
  BY <1>1, <1>2, <1>3, <1>4

LEMMA SummonedType ==
    ASSUME TInv, NEW c \in Client, NEW b \in Key \cup {Connect}, frame[c] <= LastFrame
    PROVE  /\ Summoned(c, b) \in Event
           /\ frame[c] \in 1 .. LastFrame
<1>1. /\ frame[c] \in 1 .. LastFrame + 1 /\ LastFrame \in Nat
      /\ frame[c] \in Nat /\ LocalLags[c] \in Nat
  BY ClientFacts
<1>2. frame[c] \in 1 .. LastFrame /\ frame[c] + LocalLags[c] \in Nat
  BY <1>1, SMT
<1> QED
  BY <1>2 DEF Summoned, Event

LEMMA OwnType ==
    ASSUME TInv, NEW c \in Client, NEW i \in Int
    PROVE  Own(c, i) \in SUBSET Event
BY ConstantFacts, SMTT(30) DEF TInv, TypeOK, Own

\* What the prediction of a state that is not ahead of the client is.
LEMMA PredictType ==
    ASSUME TInv, NEW c \in Client, NEW st \in History, Len(st) <= frame[c]
    PROVE  /\ Predict(c, st) \in History
           /\ Len(Predict(c, st)) = frame[c]
           /\ \A k \in 1 .. Len(st) : Predict(c, st)[k] = st[k]
           /\ \A k \in Len(st) + 1 .. frame[c] : Predict(c, st)[k] = Own(c, k - 1)
<1> DEFINE n == frame[c] - Len(st)
           new == [k \in 1 .. n |-> Own(c, Len(st) + k - 1)]
<1>1. frame[c] \in Nat /\ Len(st) \in Nat /\ n \in Nat
  <2>1. frame[c] \in Nat /\ st \in Seq(SUBSET Event)
    BY ClientFacts DEF History
  <2>2. Len(st) \in Nat
    BY <2>1, LenProperties
  <2> QED
    BY <2>1, <2>2, SMT
<1>2. \A k \in 1 .. n : Own(c, Len(st) + k - 1) \in SUBSET Event
  <2>1. \A k \in 1 .. n : Len(st) + k - 1 \in Int
    BY <1>1, SMT
  <2> QED
    BY <2>1, OwnType
<1> HIDE DEF n
<1>3. new \in Seq(SUBSET Event) /\ Len(new) = n
  <2>1. new \in [1 .. n -> SUBSET Event]
    BY <1>2
  <2> HIDE DEF new
  <2> QED
    BY <1>1, <2>1, SeqDef, SMT
<1>4. Predict(c, st) = st \o new
  BY DEF Predict, n
<1> HIDE DEF new
<1>5. /\ st \o new \in History
      /\ Len(st \o new) = Len(st) + Len(new)
      /\ \A i \in 1 .. Len(st) : (st \o new)[i] = st[i]
      /\ \A i \in Len(st) + 1 .. Len(st) + Len(new) : (st \o new)[i] = new[i - Len(st)]
  BY <1>3, ConcatProperties, SMT DEF History
<1>6. Len(st) + Len(new) = frame[c]
  BY <1>1, <1>3, SMT DEF n
<1>7. ASSUME NEW k \in Len(st) + 1 .. frame[c]
      PROVE  (st \o new)[k] = Own(c, k - 1)
  <2>1. k - Len(st) \in 1 .. n /\ Len(st) + (k - Len(st)) - 1 = k - 1
    BY <1>1, <1>7, SMT DEF n
  <2> QED
    BY <1>5, <1>6, <1>7, <2>1 DEF new
<1> QED
  BY <1>4, <1>5, <1>6, <1>7


LEMMA InitTInv == Init => TInv
BY ConstantFacts, SMT DEF Init, TInv, TypeOK, LoopInv, History

LEMMA AcceptTInv == TInv /\ Accept => TInv'
<1> SUFFICES ASSUME TInv, Accept
             PROVE  TInv'
  OBVIOUS
<1>1. playerCount' \in 0 .. N /\ lie' \in [Client -> 0 .. LastFrame]
  <2>1. playerCount \in 0 .. N /\ lie \in [Client -> 0 .. LastFrame]
    BY DEF TInv, TypeOK
  <2>2. 0 \in 0 .. LastFrame /\ (playerCount < N => playerCount + 1 \in 0 .. N)
    BY <2>1, ConstantFacts, SMT
  <2> QED
    BY <2>1, <2>2 DEF Accept
<1>2. at' = "collect" /\ turn' = 0 /\ turn' \in 0 .. playerCount'
  BY <1>1, ConstantFacts, SMT DEF Accept
<1>3. UNCHANGED <<evs, world, up, toServer, toClient, reset, clients>>
  BY DEF Accept
<1> QED
  BY <1>1, <1>2, <1>3 DEF TInv, TypeOK, LoopInv, clients

LEMMA CollectTInv == TInv /\ Collect => TInv'
<1> SUFFICES ASSUME TInv, Collect
             PROVE  TInv'
  OBVIOUS
<1>1. turn \in Client
  BY ConstantFacts, SMT DEF TInv, TypeOK, Collect
<1>2. Head(toServer[turn]) \in Event /\ Tail(toServer[turn]) \in Seq(Event)
  BY <1>1, ToSetTail DEF TInv, TypeOK, Collect
<1>3. Head(toServer[turn]).summon \in 0 .. LastFrame
  BY <1>2, ConstantFacts, SMTT(30) DEF Event
<1>4. /\ lie' \in [Client -> 0 .. LastFrame]
      /\ evs' \in Seq(Event)
      /\ toServer' \in [Client -> Seq(Event)]
  <2>1. /\ lie' = [lie EXCEPT ![turn] = Head(toServer[turn]).summon]
        /\ evs' = Append(evs, Head(toServer[turn]))
        /\ toServer' = [toServer EXCEPT ![turn] = Tail(@)]
    BY DEF Collect
  <2>2. /\ lie \in [Client -> 0 .. LastFrame] /\ evs \in Seq(Event)
        /\ toServer \in [Client -> Seq(Event)]
    BY DEF TInv, TypeOK
  <2> QED
    BY <1>1, <1>2, <1>3, <2>1, <2>2
<1>5. UNCHANGED <<at, turn, playerCount, world, up, toClient, reset, clients>>
  BY DEF Collect
<1> QED
  BY <1>4, <1>5 DEF TInv, TypeOK, LoopInv, clients

LEMMA NextPlayerTInv == TInv /\ NextPlayer => TInv'
<1> SUFFICES ASSUME TInv, NextPlayer
             PROVE  TInv'
  OBVIOUS
<1>1. turn' \in 0 .. playerCount
  BY ConstantFacts, SMT DEF TInv, TypeOK, NextPlayer
<1> QED
  BY <1>1 DEF TInv, TypeOK, LoopInv, NextPlayer, clients

LEMMA AdvanceTInv == TInv /\ Advance => TInv'
<1> SUFFICES ASSUME TInv, Advance
             PROVE  TInv'
  OBVIOUS
<1>1. ToSet(evs) \in SUBSET Event
  BY ToSetIn DEF TInv, TypeOK
<1>2. world' \in History
  BY <1>1, SMT DEF TInv, TypeOK, Advance, History
<1>3. at' = "send" /\ turn' \in 0 .. playerCount
  BY ConstantFacts, SMT DEF TInv, TypeOK, Advance
<1> QED
  BY <1>2, <1>3 DEF TInv, TypeOK, LoopInv, Advance, clients

LEMMA SendStateTInv == TInv /\ SendState => TInv'
<1> SUFFICES ASSUME TInv, SendState
             PROVE  TInv'
  OBVIOUS
<1>1. turn \in Client /\ turn' \in 0 .. playerCount
  BY ConstantFacts, SMT DEF TInv, TypeOK, SendState
<1>2. [hist |-> world, lie |-> lie[turn]] \in Message
  BY <1>1 DEF TInv, TypeOK, Message
<1>3. toClient' \in [Client -> Seq(Message)]
  <2>1. toClient \in [Client -> Seq(Message)]
    BY DEF TInv, TypeOK, Message
  <2>2. Append(toClient[turn], [hist |-> world, lie |-> lie[turn]]) \in Seq(Message)
    BY <1>1, <1>2, <2>1, SMT
  <2> QED
    BY <2>1, <2>2 DEF SendState
<1> QED
  BY <1>1, <1>3 DEF TInv, TypeOK, LoopInv, SendState, clients, Message

LEMMA SendGoneTInv == TInv /\ SendGone => TInv'
<1> SUFFICES ASSUME TInv, SendGone
             PROVE  TInv'
  OBVIOUS
<1>1. turn \in Client /\ turn' \in 0 .. playerCount
  BY ConstantFacts, SMT DEF TInv, TypeOK, SendGone
<1>2. reset' \in [Client -> BOOLEAN] /\ up' \in BOOLEAN
  BY <1>1 DEF TInv, TypeOK, SendGone
<1> QED
  BY <1>1, <1>2 DEF TInv, TypeOK, LoopInv, SendGone, clients

LEMMA EndTickTInv == TInv /\ EndTick => TInv'
<1>1. <<>> \in Seq(Event)
  BY SMT
<1> QED
  BY <1>1 DEF TInv, TypeOK, LoopInv, EndTick, clients

LEMMA StartTInv == ASSUME TInv, NEW c \in Client, Start(c) PROVE TInv'
<1>1. frame[c] = 1 /\ frame[c] <= LastFrame
  BY ConstantFacts, SMT DEF TInv, LoopInv, Start
<1>2. Summoned(c, Connect) \in Event /\ frame[c] \in 1 .. LastFrame
  BY <1>1, SummonedType
<1>3. /\ eventTrace' \in [Client -> [1 .. LastFrame -> SUBSET Event]]
      /\ toServer' \in [Client -> Seq(Event)]
      /\ pc' \in [Client -> {"off", "poll", "receive", "exit"}]
  BY <1>2, SMTT(30) DEF TInv, TypeOK, Start
<1>4. \A d \in Client : pc'[d] = IF d = c THEN "poll" ELSE pc[d]
  BY DEF TInv, TypeOK, Start
<1>5. UNCHANGED <<tick, toClient, reset, running, frame, memory, access, stat>>
  BY DEF Start
<1> QED
  BY <1>3, <1>4, <1>5 DEF TInv, TypeOK, LoopInv, tick

\* What a client sends when it has polled its keys, and puts into the bucket.
LEMMA PollFacts ==
    ASSUME TInv, NEW c \in Client, Poll(c)
    PROVE  \E again \in Seq(Event), new \in Seq(Event) :
             /\ eventTrace' = [eventTrace EXCEPT ![c][frame[c]] = @ \cup ToSet(new)]
             /\ toServer' = [toServer EXCEPT ![c] = @ \o again \o new]
             /\ again = <<>> \/ /\ again = <<Summoned(c, Connect)>>
                                /\ Summoned(c, Connect) \in eventTrace[c][frame[c]]
             /\ new = <<>> \/ \E k \in Key : new = <<Summoned(c, k)>>
<1>1. PICK keys \in {<<>>} \cup {<<k>> : k \in Key} :
         LET bucket == eventTrace[c][frame[c]]
             again == IF Summoned(c, Connect) \in bucket
                      THEN <<Summoned(c, Connect)>> ELSE <<>>
             new == [i \in DOMAIN keys |-> Summoned(c, keys[i])] IN
           /\ eventTrace' =
                [eventTrace EXCEPT ![c][frame[c]] = bucket \cup ToSet(new)]
           /\ toServer' = [toServer EXCEPT ![c] = @ \o again \o new]
  BY DEF Poll
<1> DEFINE bucket == eventTrace[c][frame[c]]
           again == IF Summoned(c, Connect) \in bucket
                    THEN <<Summoned(c, Connect)>> ELSE <<>>
           new == [i \in DOMAIN keys |-> Summoned(c, keys[i])]
<1>2. frame[c] \in 1 .. LastFrame
  BY ConstantFacts, SMT DEF TInv, TypeOK, Poll
<1>3. again \in Seq(Event)
  BY <1>2, SummonedType, SMT
<1>4. new = <<>> \/ \E k \in Key : new = <<Summoned(c, k)>>
  <2>1. CASE keys = <<>>
    BY <2>1, SMT
  <2>2. CASE keys # <<>>
    <3>1. PICK k \in Key : keys = <<k>>
      BY <2>2
    <3>2. new = <<Summoned(c, k)>>
      BY <3>1, SMT
    <3> QED
      BY <3>2
  <2> QED
    BY <2>1, <2>2
<1>5. new \in Seq(Event)
  <2>1. \A k \in Key : Summoned(c, k) \in Event
    BY <1>2, SummonedType, SMT
  <2>2. \A e \in Event : <<e>> \in Seq(Event)
    BY SMT
  <2>3. <<>> \in Seq(Event)
    BY SMT
  <2> HIDE DEF new
  <2> QED
    BY <1>4, <2>1, <2>2, <2>3
<1>6. /\ eventTrace' = [eventTrace EXCEPT ![c][frame[c]] = @ \cup ToSet(new)]
      /\ toServer' = [toServer EXCEPT ![c] = @ \o again \o new]
  BY <1>1
<1> QED
  BY <1>3, <1>4, <1>5, <1>6

LEMMA PollTInv == ASSUME TInv, NEW c \in Client, Poll(c) PROVE TInv'
<1>1. PICK again \in Seq(Event), new \in Seq(Event) :
         /\ eventTrace' = [eventTrace EXCEPT ![c][frame[c]] = @ \cup ToSet(new)]
         /\ toServer' = [toServer EXCEPT ![c] = @ \o again \o new]
  BY ZenonT(60), PollFacts
<1>2. frame[c] \in 1 .. LastFrame /\ frame[c] <= LastFrame
  BY ConstantFacts, SMT DEF TInv, TypeOK, Poll
<1>3. eventTrace' \in [Client -> [1 .. LastFrame -> SUBSET Event]]
  <2>1. ToSet(new) \subseteq Event
    BY ToSetIn
  <2> QED
    BY ZenonT(60), <1>1, <1>2, <2>1 DEF TInv, TypeOK
<1>4. toServer' \in [Client -> Seq(Event)]
  <2>1. toServer[c] \o again \o new \in Seq(Event)
    BY SMT DEF TInv, TypeOK
  <2> QED
    BY <1>1, <2>1 DEF TInv, TypeOK
<1>5. running' \in [Client -> BOOLEAN]
  BY DEF TInv, TypeOK, Poll
<1>6. /\ pc' \in [Client -> {"off", "poll", "receive", "exit"}]
      /\ \A d \in Client : pc'[d] = IF d = c THEN "receive" ELSE pc[d]
  BY DEF TInv, TypeOK, Poll
<1>7. UNCHANGED <<tick, toClient, reset, frame, memory, access, stat>>
  BY DEF Poll
<1> QED
  BY <1>2, <1>3, <1>4, <1>5, <1>6, <1>7 DEF TInv, TypeOK, LoopInv, tick

LEMMA ReceiveTInv == ASSUME TInv, NEW c \in Client, Receive(c) PROVE TInv'
<1>1. toClient[c] \in Seq(Message) /\ memory[c] \in Seq(Message)
  BY DEF TInv, TypeOK, Message
<1>2. Head(toClient[c]) \in Message /\ Tail(toClient[c]) \in Seq(Message)
  BY <1>1, ToSetTail DEF Receive
<1>3. /\ Append(memory[c], Head(toClient[c])) \in Seq(Message)
      /\ Len(Append(memory[c], Head(toClient[c]))) = Len(memory[c]) + 1
      /\ Len(memory[c]) \in Nat
  BY <1>1, <1>2, SMT
<1>4. memory' \in [Client -> Seq(Message)] /\ toClient' \in [Client -> Seq(Message)]
  BY <1>2, <1>3 DEF TInv, TypeOK, Receive, Message
<1>5. \A d \in Client : access'[d] \in 0 .. Len(memory'[d])
  <2>1. \A d \in Client : access'[d] = access[d] /\ access[d] \in 0 .. Len(memory[d])
    BY DEF TInv, TypeOK, Receive
  <2>2. \A d \in Client : d # c => memory'[d] = memory[d]
    BY DEF TInv, TypeOK, Receive
  <2>3. Len(memory'[c]) = Len(memory[c]) + 1
    BY <1>3 DEF TInv, TypeOK, Receive
  <2> QED
    BY <1>3, <2>1, <2>2, <2>3, SMT
<1>6. /\ UNCHANGED <<tick, toServer, reset, pc, running, frame, eventTrace>>
      /\ UNCHANGED <<access, stat>>
  BY DEF Receive
<1> QED
  BY <1>4, <1>5, <1>6 DEF TInv, TypeOK, LoopInv, tick, Message

\* A state that is loaded is of a frame the client has reached.
LEMMA FinishFacts ==
    ASSUME TInv, NEW c \in Client, Finish(c)
    PROVE  \E st \in History :
             /\ Len(st) <= frame[c]
             /\ stat' = [stat EXCEPT ![c] = Predict(c, st)]
             /\ \/ /\ access[c] < Len(memory[c])
                   /\ access' = [access EXCEPT ![c] = @ + 1]
                   /\ st = memory[c][access[c] + 1].hist
                \/ access' = access /\ st = stat[c]
<1>1. CASE Loadable(c)
  <2>1. access[c] + 1 \in 1 .. Len(memory[c]) /\ access[c] < Len(memory[c])
    <3>1. access[c] < Len(memory[c])
      BY <1>1 DEF Loadable
    <3>2. access[c] \in Nat /\ Len(memory[c]) \in Nat
      BY ClientFacts
    <3> QED
      BY <3>1, <3>2, SMT
  <2>2. memory[c][access[c] + 1] \in Message
    BY <2>1, ClientFacts, ElementOfSeq
  <2>3. Len(memory[c][access[c] + 1].hist) <= frame[c]
    <3> DEFINE l == Len(memory[c][access[c] + 1].hist)
    <3>1. memory[c][access[c] + 1].hist \in Seq(SUBSET Event)
      BY <2>2 DEF Message, History
    <3>2. l \in Nat /\ frame[c] \in Nat /\ InputLags[c] \in Nat
      BY <3>1, ClientFacts, LenProperties
    <3>3. frame[c] >= l + InputLags[c]
      BY <1>1 DEF Loadable
    <3> HIDE DEF l
    <3>4. l <= frame[c]
      BY <3>2, <3>3, SMT
    <3> QED
      BY <3>4 DEF l
  <2> QED
    BY <1>1, <2>1, <2>2, <2>3 DEF Finish, Message
<1>2. CASE ~ Loadable(c)
  <2>1. stat[c] \in History /\ Len(stat[c]) <= frame[c]
    <3>1. stat[c] \in History /\ Len(stat[c]) = frame[c] - 1 /\ frame[c] \in Nat
      BY ClientFacts
    <3> QED
      BY <3>1, SMT
  <2> QED
    BY <1>2, <2>1 DEF Finish
<1> QED
  BY <1>1, <1>2

LEMMA FinishTInv == ASSUME TInv, NEW c \in Client, Finish(c) PROVE TInv'
<1>1. PICK st \in History :
         /\ Len(st) <= frame[c]
         /\ stat' = [stat EXCEPT ![c] = Predict(c, st)]
         /\ \/ /\ access[c] < Len(memory[c])
               /\ access' = [access EXCEPT ![c] = @ + 1]
               /\ st = memory[c][access[c] + 1].hist
            \/ access' = access /\ st = stat[c]
  BY FinishFacts
<1>2. Predict(c, st) \in History /\ Len(Predict(c, st)) = frame[c]
  BY <1>1, PredictType
<1>3. frame[c] \in 1 .. LastFrame /\ frame[c] + 1 \in 1 .. LastFrame + 1
  <2>1. frame[c] <= LastFrame
    BY DEF TInv, LoopInv, Finish
  <2>2. frame[c] \in 1 .. LastFrame + 1 /\ LastFrame \in Nat
    BY ClientFacts
  <2> QED
    BY <2>1, <2>2, SMT
<1>4. /\ frame' \in [Client -> 1 .. LastFrame + 1]
      /\ pc' \in [Client -> {"off", "poll", "receive", "exit"}]
      /\ \A d \in Client : /\ pc'[d] = IF d = c THEN "poll" ELSE pc[d]
                           /\ frame'[d] = IF d = c THEN frame[c] + 1 ELSE frame[d]
  BY <1>3 DEF TInv, TypeOK, Finish
<1>5. stat' \in [Client -> History]
  BY <1>1, <1>2 DEF TInv, LoopInv
<1>6. \A d \in Client : Len(stat'[d]) = frame'[d] - 1
  <2>1. Len(stat'[c]) = frame'[c] - 1
    BY <1>1, <1>2, <1>3, <1>4, SMT DEF TInv, LoopInv
  <2>2. \A d \in Client : d # c => Len(stat'[d]) = frame'[d] - 1
    BY <1>1, <1>4 DEF TInv, LoopInv, TypeOK
  <2> QED
    BY <2>1, <2>2
<1>7. memory' = memory
  BY DEF Finish
<1>8. /\ access' \in [Client -> Nat]
      /\ \A d \in Client : access'[d] \in 0 .. Len(memory'[d])
  <2>1. CASE access' = access
    BY SMTT(30), <1>7, <2>1 DEF TInv, TypeOK, LoopInv
  <2>2. CASE access[c] < Len(memory[c]) /\ access' = [access EXCEPT ![c] = @ + 1]
    <3>1. Len(memory[c]) \in Nat /\ access[c] \in Nat
      BY SMT DEF TInv, TypeOK, LoopInv
    <3>2. access[c] + 1 \in 0 .. Len(memory[c]) /\ access[c] + 1 \in Nat
      BY <2>2, <3>1, SMT
    <3> QED
      BY <1>7, <2>2, <3>2 DEF TInv, TypeOK, LoopInv
  <2> QED
    BY <1>1, <2>1, <2>2
<1>9. UNCHANGED <<tick, toServer, toClient, reset, running, eventTrace, memory>>
  BY DEF Finish
<1> QED
  BY <1>4, <1>5, <1>6, <1>8, <1>9 DEF TInv, TypeOK, LoopInv, tick

LEMMA ExitTInv == ASSUME TInv, NEW c \in Client, Exit(c) PROVE TInv'
<1>1. toServer' \in [Client -> Seq(Event)] /\ reset' \in [Client -> BOOLEAN]
  <2>1. \A k \in 0 .. Len(toServer[c]) : SubSeq(toServer[c], 1, k) \in Seq(Event)
    BY SMT DEF TInv, TypeOK
  <2> QED
    BY ZenonT(60), <2>1 DEF TInv, TypeOK, Exit
<1>2. /\ pc' \in [Client -> {"off", "poll", "receive", "exit"}]
      /\ frame' \in [Client -> 1 .. LastFrame + 1]
      /\ \A d \in Client : /\ pc'[d] = IF d = c THEN "exit" ELSE pc[d]
                           /\ frame'[d] = IF d = c THEN 1 ELSE frame[d]
  BY ConstantFacts, SMTT(30) DEF TInv, TypeOK, Exit
<1>3. /\ toClient' \in [Client -> Seq(Message)]
      /\ memory' \in [Client -> Seq(Message)]
      /\ stat' \in [Client -> History]
      /\ eventTrace' \in [Client -> [1 .. LastFrame -> SUBSET Event]]
      /\ access' \in [Client -> Nat]
  <2>1. <<>> \in Seq(Message) /\ <<>> \in History /\ 0 \in Nat
    BY SMT DEF History
  <2>2. [f \in 1 .. LastFrame |-> {}] \in [1 .. LastFrame -> SUBSET Event]
    OBVIOUS
  <2>3. toClient \in [Client -> Seq(Message)] /\ memory \in [Client -> Seq(Message)]
    BY DEF TInv, TypeOK, Message
  <2> QED
    BY <2>1, <2>2, <2>3 DEF TInv, TypeOK, LoopInv, Exit
<1>4. \A d \in Client : access'[d] \in 0 .. Len(memory'[d])
  <2>1. access'[c] = 0 /\ memory'[c] = <<>> /\ 0 \in 0 .. Len(<<>>)
    <3>1. access'[c] = 0 /\ memory'[c] = <<>>
      BY DEF TInv, TypeOK, LoopInv, Exit
    <3> QED
      BY <3>1, SMT
  <2>2. \A d \in Client : d # c => access'[d] = access[d] /\ memory'[d] = memory[d]
    BY DEF TInv, TypeOK, LoopInv, Exit
  <2> QED
    BY <2>1, <2>2 DEF TInv, TypeOK
<1>5. \A d \in Client : Len(stat'[d]) = frame'[d] - 1
  <2>1. stat'[c] = <<>> /\ frame'[c] = 1 /\ Len(<<>>) = 1 - 1
    <3>1. stat'[c] = <<>> /\ frame'[c] = 1
      BY <1>2 DEF TInv, LoopInv, Exit
    <3> QED
      BY <3>1, SMT
  <2>2. \A d \in Client : d # c => stat'[d] = stat[d]
    BY DEF TInv, LoopInv, Exit
  <2> QED
    BY <1>2, <2>1, <2>2 DEF TInv, TypeOK
<1>6. UNCHANGED <<tick, running>>
  BY DEF Exit
<1> QED
  BY <1>1, <1>2, <1>3, <1>4, <1>5, <1>6 DEF TInv, TypeOK, LoopInv, tick, Message

LEMMA NextTInv == TInv /\ [Next]_vars => TInv'
<1> SUFFICES ASSUME TInv, [Next]_vars
             PROVE  TInv'
  OBVIOUS
<1>1. CASE Server
  BY <1>1, AcceptTInv, CollectTInv, NextPlayerTInv, AdvanceTInv, SendStateTInv,
     SendGoneTInv, EndTickTInv DEF Server
<1>2. ASSUME NEW c \in Client, Start(c) \/ Poll(c) \/ Receive(c) \/ Finish(c) \/ Exit(c)
      PROVE  TInv'
  BY <1>2, StartTInv, PollTInv, ReceiveTInv, FinishTInv, ExitTInv
<1>3. CASE UNCHANGED vars
  BY <1>3 DEF vars, TInv, TypeOK, LoopInv
<1> QED
  BY <1>1, <1>2, <1>3 DEF Next

\* Every variable has its type, for any number of clients, ticks and frames: in
\* particular a client is never ahead of a state it computes on from
\* (game_deadreckoning.c:252-272).
THEOREM Typing == Spec => []TypeOK
<1>1. TInv => TypeOK
  BY DEF TInv
<1> QED
  BY <1>1, InitTInv, NextTInv, PTL DEF Spec
-------------------------------------------------------------------------------
(* What a client draws *)

\* The events of c that it is to draw from frame i to frame i + 1.
Due(c, i) == {e \in UNION {eventTrace[c][f] : f \in 1 .. LastFrame} : e.frame = i}

\* Events lie in the bucket of the frame they were summoned in.
BucketsOK(c) ==
    \A f \in 1 .. LastFrame : \A e \in eventTrace[c][f] :
      e.player = c /\ e.summon = f /\ e.frame = f + LocalLags[c]

\* The state loaded last is of a frame before the client's.
BaseOK(c) == Base(c) \in History /\ Len(Base(c)) <= frame[c] - 1

DrawnOK(c) ==
    \A k \in DOMAIN stat[c] :
      stat[c][k] = IF k <= Len(Base(c)) THEN Base(c)[k] ELSE Due(c, k - 1)

DrawInv == \A c \in Client : BucketsOK(c) /\ BaseOK(c) /\ DrawnOK(c)

\* What the loop of a client applies in a turn is what is due in that frame.
LEMMA OwnIsDue ==
    ASSUME TInv, NEW c \in Client, BucketsOK(c), NEW i \in Int
    PROVE  Own(c, i) = Due(c, i)
<1>1. LocalLags[c] \in Nat /\ LastFrame \in Nat
  BY ConstantFacts
<1>2. ASSUME NEW e \in Own(c, i)
      PROVE  e \in Due(c, i)
  <2>1. i - LocalLags[c] \in 1 .. LastFrame /\ e \in eventTrace[c][i - LocalLags[c]]
    BY <1>2 DEF Own
  <2>2. e.frame = i
    BY <1>1, <2>1, SMT DEF BucketsOK
  <2> QED
    BY <2>1, <2>2 DEF Due
<1>3. ASSUME NEW e \in Due(c, i)
      PROVE  e \in Own(c, i)
  <2>1. PICK f \in 1 .. LastFrame : e \in eventTrace[c][f]
    BY DEF Due
  <2>2. e.frame = i /\ e.frame = f + LocalLags[c]
    BY <2>1 DEF Due, BucketsOK
  <2>3. f = i - LocalLags[c]
    BY <1>1, <2>2, SMT
  <2> QED
    BY <2>1, <2>3 DEF Own
<1> QED
  BY <1>2, <1>3

LEMMA DrawKept ==
    ASSUME NEW c \in Client, BucketsOK(c), BaseOK(c), DrawnOK(c),
           frame'[c] = frame[c], eventTrace'[c] = eventTrace[c],
           memory'[c] = memory[c], access'[c] = access[c], stat'[c] = stat[c]
    PROVE  (BucketsOK(c) /\ BaseOK(c) /\ DrawnOK(c))'
<1>1. Base(c)' = Base(c)
  BY DEF Base
<1>2. \A i : Due(c, i)' = Due(c, i)
  BY DEF Due
<1> QED
  BY <1>1, <1>2 DEF BucketsOK, BaseOK, DrawnOK

LEMMA InitDraw == Init => DrawInv
<1> SUFFICES ASSUME Init, NEW c \in Client
             PROVE  BucketsOK(c) /\ BaseOK(c) /\ DrawnOK(c)
  BY DEF DrawInv
<1>1. Base(c) = <<>> /\ stat[c] = <<>> /\ frame[c] = 1
  BY DEF Init, Base
<1>2. <<>> \in History /\ Len(<<>>) = 0 /\ DOMAIN <<>> = {}
  BY SMT DEF History
<1>3. BucketsOK(c)
  BY DEF Init, BucketsOK
<1> QED
  BY <1>1, <1>2, <1>3, SMT DEF BaseOK, DrawnOK

\* An event put into the bucket of the present frame is due in a frame that has
\* not been drawn.
LEMMA NotDrawnYet ==
    ASSUME TInv, NEW c \in Client, frame[c] \in 1 .. LastFrame,
           NEW bucket, eventTrace'[c] = [eventTrace[c] EXCEPT ![frame[c]] = bucket],
           eventTrace[c][frame[c]] \subseteq bucket,
           \A e \in bucket \ eventTrace[c][frame[c]] : \E b : e = Summoned(c, b),
           BucketsOK(c), BaseOK(c), DrawnOK(c),
           frame'[c] = frame[c], memory'[c] = memory[c], access'[c] = access[c],
           stat'[c] = stat[c]
    PROVE  (BucketsOK(c) /\ BaseOK(c) /\ DrawnOK(c))'
<1>1. eventTrace[c] \in [1 .. LastFrame -> SUBSET Event]
  BY DEF TInv, TypeOK
<1>2. Base(c)' = Base(c)
  BY DEF Base
<1>3. BucketsOK(c)'
  <2> SUFFICES ASSUME NEW f \in 1 .. LastFrame, NEW e \in eventTrace'[c][f]
               PROVE  e.player = c /\ e.summon = f /\ e.frame = f + LocalLags[c]
    BY DEF BucketsOK
  <2>1. CASE e \in eventTrace[c][f]
    BY <2>1 DEF BucketsOK
  <2>2. CASE e \notin eventTrace[c][f]
    <3>1. f = frame[c] /\ \E b : e = Summoned(c, b)
      BY <1>1, <2>2
    <3> QED
      BY <3>1 DEF Summoned
  <2> QED
    BY <2>1, <2>2
<1>4. ASSUME NEW k \in DOMAIN stat[c]
      PROVE  Due(c, k - 1)' = Due(c, k - 1)
  <2>1. k \in 1 .. frame[c] - 1 /\ frame[c] \in Nat /\ LocalLags[c] \in Nat
    <3>1. stat[c] \in Seq(SUBSET Event) /\ Len(stat[c]) = frame[c] - 1
      BY ClientFacts DEF History
    <3>2. DOMAIN stat[c] = 1 .. Len(stat[c])
      BY <3>1, LenProperties
    <3> QED
      BY <1>4, <3>1, <3>2, ClientFacts
  <2>2. ASSUME NEW f \in 1 .. LastFrame, NEW e \in eventTrace'[c][f], e.frame = k - 1
        PROVE  e \in eventTrace[c][f]
    <3>1. CASE f # frame[c]
      BY <1>1, <2>2, <3>1
    <3>2. CASE f = frame[c]
      <4>1. e \in bucket
        BY <1>1, <2>2, <3>2
      <4>2. ASSUME NEW b, e = Summoned(c, b)
            PROVE  FALSE
        <5>1. e.frame = frame[c] + LocalLags[c]
          BY <4>2 DEF Summoned
        <5> QED
          BY <2>1, <2>2, <5>1, SMT
      <4> QED
        BY <3>2, <4>1, <4>2
    <3> QED
      BY <3>1, <3>2
  <2>3. \A f \in 1 .. LastFrame : eventTrace[c][f] \subseteq eventTrace'[c][f]
    BY <1>1
  <2> QED
    BY <2>2, <2>3 DEF Due
<1> QED
  BY <1>2, <1>3, <1>4 DEF BaseOK, DrawnOK

LEMMA StartDraw ==
    ASSUME TInv, DrawInv, NEW c \in Client, Start(c)
    PROVE  (BucketsOK(c) /\ BaseOK(c) /\ DrawnOK(c))'
<1>1. frame[c] = 1 /\ frame[c] \in 1 .. LastFrame
  BY ConstantFacts, SMT DEF TInv, LoopInv, Start
<1>2. /\ frame'[c] = frame[c] /\ memory'[c] = memory[c] /\ access'[c] = access[c]
      /\ stat'[c] = stat[c]
      /\ eventTrace'[c] = [eventTrace[c] EXCEPT ![frame[c]] = {Summoned(c, Connect)}]
  BY DEF Start, TInv, TypeOK
<1>3. Base(c)' = Base(c)
  BY <1>2 DEF Base
<1>4. BucketsOK(c)'
  <2> SUFFICES ASSUME NEW f \in 1 .. LastFrame, NEW e \in eventTrace'[c][f]
               PROVE  e.player = c /\ e.summon = f /\ e.frame = f + LocalLags[c]
    BY DEF BucketsOK
  <2>1. CASE f = frame[c]
    <3>1. eventTrace[c] \in [1 .. LastFrame -> SUBSET Event]
      BY DEF TInv, TypeOK
    <3>2. eventTrace'[c][frame[c]] = {Summoned(c, Connect)}
      BY <1>1, <1>2, <3>1
    <3>3. e = Summoned(c, Connect)
      BY <2>1, <3>2
    <3> QED
      BY <2>1, <3>3 DEF Summoned
  <2>2. CASE f # frame[c]
    BY <1>2, <2>2 DEF TInv, TypeOK, DrawInv, BucketsOK
  <2> QED
    BY <2>1, <2>2
<1>5. DOMAIN stat'[c] = {}
  BY <1>1, <1>2, SMTT(30) DEF TInv, TypeOK, History
<1> QED
  BY <1>2, <1>3, <1>4, <1>5 DEF DrawInv, BaseOK, DrawnOK

LEMMA PollDraw ==
    ASSUME TInv, DrawInv, NEW c \in Client, Poll(c)
    PROVE  (BucketsOK(c) /\ BaseOK(c) /\ DrawnOK(c))'
<1>1. PICK new \in Seq(Event) :
         /\ eventTrace' = [eventTrace EXCEPT ![c][frame[c]] = @ \cup ToSet(new)]
         /\ new = <<>> \/ \E k \in Key : new = <<Summoned(c, k)>>
  BY PollFacts
<1>2. frame[c] \in 1 .. LastFrame
  BY ConstantFacts, SMT DEF TInv, TypeOK, Poll
<1>3. eventTrace'[c] =
        [eventTrace[c] EXCEPT ![frame[c]] = eventTrace[c][frame[c]] \cup ToSet(new)]
  BY <1>1, <1>2 DEF TInv, TypeOK
<1>4. \A e \in ToSet(new) : \E b : e = Summoned(c, b)
  <2>1. CASE new = <<>>
    BY <2>1, SMT DEF ToSet
  <2>2. ASSUME NEW k \in Key, new = <<Summoned(c, k)>>
        PROVE  ToSet(new) = {Summoned(c, k)}
    <3> DEFINE e == Summoned(c, k)
    <3> HIDE DEF e
    <3>1. new = <<e>>
      BY <2>2 DEF e
    <3> QED
      BY <3>1, ToSetOne DEF e
  <2> QED
    BY <1>1, <2>1, <2>2
<1>5. /\ frame'[c] = frame[c] /\ memory'[c] = memory[c] /\ access'[c] = access[c]
      /\ stat'[c] = stat[c]
  BY DEF Poll
<1> QED
  BY ZenonT(60), <1>2, <1>3, <1>4, <1>5, NotDrawnYet DEF DrawInv

LEMMA ReceiveDraw ==
    ASSUME TInv, DrawInv, NEW c \in Client, Receive(c)
    PROVE  (BucketsOK(c) /\ BaseOK(c) /\ DrawnOK(c))'
<1>1. /\ memory[c] \in Seq(Message) /\ access[c] \in 0 .. Len(memory[c])
      /\ memory'[c] = Append(memory[c], Head(toClient[c]))
  BY DEF TInv, TypeOK, Receive, Message
<1>2. /\ frame'[c] = frame[c] /\ eventTrace'[c] = eventTrace[c]
      /\ access'[c] = access[c] /\ stat'[c] = stat[c]
  BY DEF Receive
<1>3. access[c] # 0 => memory'[c][access[c]] = memory[c][access[c]]
  BY <1>1, SMT
<1>4. Base(c)' = Base(c)
  BY <1>2, <1>3 DEF Base
<1>5. \A i : Due(c, i)' = Due(c, i)
  BY <1>2 DEF Due
<1> QED
  BY <1>2, <1>4, <1>5 DEF DrawInv, BucketsOK, BaseOK, DrawnOK

LEMMA FinishDraw ==
    ASSUME TInv, DrawInv, NEW c \in Client, Finish(c)
    PROVE  (BucketsOK(c) /\ BaseOK(c) /\ DrawnOK(c))'
<1>1. PICK st \in History :
         /\ Len(st) <= frame[c]
         /\ stat' = [stat EXCEPT ![c] = Predict(c, st)]
         /\ \/ /\ access[c] < Len(memory[c])
               /\ access' = [access EXCEPT ![c] = @ + 1]
               /\ st = memory[c][access[c] + 1].hist
            \/ access' = access /\ st = stat[c]
  BY FinishFacts
<1>2. /\ frame[c] \in Nat /\ frame'[c] = frame[c] + 1
      /\ eventTrace'[c] = eventTrace[c] /\ memory'[c] = memory[c]
  BY SMT DEF TInv, TypeOK, Finish
<1>3. /\ Predict(c, st) \in History /\ Len(Predict(c, st)) = frame[c]
      /\ \A k \in 1 .. Len(st) : Predict(c, st)[k] = st[k]
      /\ \A k \in Len(st) + 1 .. frame[c] : Predict(c, st)[k] = Own(c, k - 1)
  BY <1>1, PredictType
<1>4. stat'[c] = Predict(c, st)
  BY <1>1 DEF TInv, LoopInv
<1>5. BucketsOK(c) /\ BaseOK(c) /\ DrawnOK(c)
  BY DEF DrawInv
<1>6. BucketsOK(c)'
  BY <1>2, <1>5 DEF BucketsOK
<1>7. \A i \in Int : Own(c, i) = Due(c, i)' /\ Due(c, i)' = Due(c, i)
  BY <1>2, <1>5, OwnIsDue DEF Due
<1>8. Len(st) \in Nat /\ DOMAIN Predict(c, st) = 1 .. frame[c]
  BY <1>3, SMT DEF History
<1>9. \A k \in Len(st) + 1 .. frame[c] : stat'[c][k] = Due(c, k - 1)'
  BY <1>2, <1>3, <1>4, <1>7, <1>8, SMT
<1>10. CASE access[c] < Len(memory[c]) /\ access' = [access EXCEPT ![c] = @ + 1]
              /\ st = memory[c][access[c] + 1].hist
  <2>1. Base(c)' = st
    <3>1. access'[c] = access[c] + 1 /\ access[c] \in Nat /\ access'[c] # 0
      BY <1>10, SMT DEF TInv, LoopInv
    <3> QED
      BY <1>2, <1>10, <3>1 DEF Base
  <2>2. BaseOK(c)'
    BY <1>1, <1>2, <1>8, <2>1, SMT DEF BaseOK
  <2>3. DrawnOK(c)'
    <3> SUFFICES ASSUME NEW k \in 1 .. frame[c]
                 PROVE  stat'[c][k] = IF k <= Len(st) THEN st[k] ELSE Due(c, k - 1)'
      BY <1>4, <1>8, <2>1 DEF DrawnOK
    <3>1. CASE k <= Len(st)
      <4>1. k \in 1 .. Len(st)
        BY <1>8, <3>1, SMT
      <4> QED
        BY <1>3, <1>4, <3>1, <4>1
    <3>2. CASE ~ (k <= Len(st))
      <4>1. k \in Len(st) + 1 .. frame[c]
        BY <1>2, <1>8, <3>2, SMT
      <4> QED
        BY <1>9, <3>2, <4>1
    <3> QED
      BY <3>1, <3>2
  <2> QED
    BY <1>6, <2>2, <2>3
<1>11. CASE access' = access /\ st = stat[c]
  <2>1. Base(c)' = Base(c)
    BY <1>2, <1>11 DEF Base
  <2>2. /\ Len(Base(c)) \in Nat /\ Len(Base(c)) <= frame[c] - 1
        /\ Len(st) = frame[c] - 1
    <3>1. Len(Base(c)) \in Nat
      BY <1>5, SMT DEF BaseOK, History
    <3> QED
      BY <1>5, <1>11, <3>1 DEF BaseOK, TInv, TypeOK
  <2>3. BaseOK(c)'
    BY <1>2, <1>5, <2>1, <2>2, SMT DEF BaseOK
  <2>4. DrawnOK(c)'
    <3> SUFFICES ASSUME NEW k \in 1 .. frame[c]
                 PROVE  stat'[c][k] = IF k <= Len(Base(c)) THEN Base(c)[k]
                                      ELSE Due(c, k - 1)'
      BY <1>4, <1>8, <2>1 DEF DrawnOK
    <3>1. CASE k <= Len(st)
      <4>1. k \in 1 .. Len(st) /\ k - 1 \in Int
        BY <1>8, <3>1, SMT
      <4>2. k \in DOMAIN stat[c]
        BY <1>11, <4>1, SMT DEF History
      <4>3. stat'[c][k] = stat[c][k]
        BY <1>3, <1>4, <1>11, <4>1
      <4> QED
        BY <1>5, <1>7, <4>1, <4>2, <4>3 DEF DrawnOK
    <3>2. CASE ~ (k <= Len(st))
      <4>1. k \in Len(st) + 1 .. frame[c] /\ ~ (k <= Len(Base(c)))
        BY <1>2, <1>8, <2>2, <3>2, SMT
      <4> QED
        BY <1>9, <4>1
    <3> QED
      BY <3>1, <3>2
  <2> QED
    BY <1>6, <2>3, <2>4
<1> QED
  BY <1>1, <1>10, <1>11

LEMMA ExitDraw ==
    ASSUME TInv, DrawInv, NEW c \in Client, Exit(c)
    PROVE  (BucketsOK(c) /\ BaseOK(c) /\ DrawnOK(c))'
<1>1. /\ access'[c] = 0 /\ stat'[c] = <<>> /\ frame'[c] = 1
      /\ eventTrace'[c] = [f \in 1 .. LastFrame |-> {}]
  BY DEF Exit, TInv, TypeOK, LoopInv
<1>2. Base(c)' = <<>>
  BY <1>1 DEF Base
<1>3. <<>> \in History /\ Len(<<>>) = 0 /\ DOMAIN <<>> = {}
  BY SMT DEF History
<1>4. BucketsOK(c)'
  BY <1>1 DEF BucketsOK
<1> QED
  BY <1>1, <1>2, <1>3, <1>4, SMT DEF BaseOK, DrawnOK

\* A client's step leaves the variables of the others alone.
LEMMA OthersKept ==
    ASSUME TInv, NEW c \in Client, NEW d \in Client, d # c,
           Start(c) \/ Poll(c) \/ Receive(c) \/ Finish(c) \/ Exit(c)
    PROVE  /\ pc'[d] = pc[d] /\ frame'[d] = frame[d]
           /\ eventTrace'[d] = eventTrace[d] /\ memory'[d] = memory[d]
           /\ access'[d] = access[d] /\ stat'[d] = stat[d]
           /\ toClient'[d] = toClient[d] /\ toServer'[d] = toServer[d]
<1>1. CASE Start(c)
  BY SMTT(30), <1>1 DEF TInv, TypeOK, Start
<1>2. CASE Poll(c)
  BY ZenonT(60), <1>2, PollFacts DEF TInv, TypeOK, Poll
<1>3. CASE Receive(c)
  BY <1>3 DEF TInv, TypeOK, Receive
<1>4. CASE Finish(c)
  BY ZenonT(60), <1>4, FinishFacts DEF TInv, TypeOK, LoopInv, Finish
<1>5. CASE Exit(c)
  BY <1>5 DEF TInv, TypeOK, LoopInv, Exit
<1> QED
  BY <1>1, <1>2, <1>3, <1>4, <1>5

LEMMA NextDraw == TInv /\ DrawInv /\ [Next]_vars => DrawInv'
<1> SUFFICES ASSUME TInv, DrawInv, [Next]_vars, NEW d \in Client
             PROVE  (BucketsOK(d) /\ BaseOK(d) /\ DrawnOK(d))'
  BY DEF DrawInv
<1>1. CASE Server \/ UNCHANGED vars
  <2>1. UNCHANGED clients
    BY <1>1 DEF Server, Accept, Collect, NextPlayer, Advance, SendState, SendGone,
       EndTick, vars, clients
  <2> QED
    BY <2>1, DrawKept DEF DrawInv, clients
<1>2. ASSUME NEW c \in Client, Start(c) \/ Poll(c) \/ Receive(c) \/ Finish(c) \/ Exit(c)
      PROVE  (BucketsOK(d) /\ BaseOK(d) /\ DrawnOK(d))'
  <2>1. CASE d = c
    BY <1>2, <2>1, StartDraw, PollDraw, ReceiveDraw, FinishDraw, ExitDraw
  <2>2. CASE d # c
    BY <1>2, <2>2, OthersKept, DrawKept DEF DrawInv
  <2> QED
    BY <2>1, <2>2
<1> QED
  BY <1>1, <1>2 DEF Next

\* For any lags and however states come, what a client draws is the state it has
\* loaded last, then its own events, each in its execution frame: computing on
\* from its own last result is the same as computing from the loaded state
\* (game_deadreckoning.c:252-272).
THEOREM PredictedHolds == Spec => []Predicted
<1>1. DrawInv => Predicted
  BY DEF DrawInv, DrawnOK, Predicted, Due
<1> QED
  BY <1>1, InitTInv, NextTInv, InitDraw, NextDraw, PTL DEF Spec

-------------------------------------------------------------------------------
(* Every state that was sent is a beginning of the world *)

\* h is a beginning of w.
Beginning(h, w) == Len(h) <= Len(w) /\ \A k \in 1 .. Len(h) : h[k] = w[k]

\* States are sent, kept and loaded, and never changed.
PrefixInv ==
    \A c \in Client : \A m \in ToSet(toClient[c]) \cup ToSet(memory[c]) :
      Beginning(m.hist, world)

LEMMA InitPrefix == Init => PrefixInv
  BY SMT DEF Init, PrefixInv, ToSet

\* Whatever neither sends a state, nor moves one, nor makes a new one.
LEMMA PrefixKept ==
    ASSUME PrefixInv, UNCHANGED <<toClient, memory, world>>
    PROVE  PrefixInv'
  BY DEF PrefixInv, ToSet, Beginning

LEMMA AdvancePrefix ==
    ASSUME TInv, PrefixInv, Advance
    PROVE  PrefixInv'
<1>1. world \in Seq(SUBSET Event) /\ world' = Append(world, ToSet(evs))
  BY DEF TInv, TypeOK, History, Advance
<1>2. toClient' = toClient /\ memory' = memory
  BY DEF Advance, clients
<1> SUFFICES ASSUME NEW c \in Client,
                    NEW m \in ToSet(toClient[c]) \cup ToSet(memory[c])
             PROVE  Beginning(m.hist, world')
  BY <1>2 DEF PrefixInv, ToSet
<1>3. Beginning(m.hist, world)
  BY DEF PrefixInv
<1>4. m.hist \in Seq(SUBSET Event)
  <2>1. m \in Message
    BY ToSetIn DEF TInv, TypeOK, Message
  <2> QED
    BY <2>1 DEF Message, History
<1>5. Len(m.hist) \in Nat /\ Len(world) \in Nat
  BY <1>1, <1>4
<1>6. Len(world') = Len(world) + 1 /\ \A k \in 1 .. Len(world) : world'[k] = world[k]
  BY <1>1, SMT
<1> QED
  BY <1>3, <1>5, <1>6, SMT DEF Beginning

LEMMA SendPrefix ==
    ASSUME TInv, PrefixInv, SendState
    PROVE  PrefixInv'
<1>0. turn \in Client
  BY ConstantFacts, SMT DEF TInv, TypeOK, SendState
<1>1. /\ turn \in Client
      /\ toClient \in [Client -> Seq(Message)] /\ memory' = memory /\ world' = world
  BY <1>0 DEF TInv, TypeOK, SendState, clients, Message
<1> DEFINE sent == [hist |-> world, lie |-> lie[turn]]
<1>2. toClient' = [toClient EXCEPT ![turn] = Append(toClient[turn], sent)]
  BY DEF SendState
<1>3. sent \in Message
  BY <1>1 DEF TInv, TypeOK, Message
<1>4. world \in Seq(SUBSET Event)
  BY DEF TInv, TypeOK, History
<1> HIDE DEF sent
<1>5. Beginning(sent.hist, world)
  BY <1>4, SMT DEF sent, Beginning
<1> SUFFICES ASSUME NEW c \in Client,
                    NEW m \in ToSet(toClient'[c]) \cup ToSet(memory[c])
             PROVE  Beginning(m.hist, world)
  BY <1>1 DEF PrefixInv, ToSet, Beginning
<1>6. ToSet(toClient'[c]) \subseteq ToSet(toClient[c]) \cup {sent}
  <2>1. CASE c = turn
    BY <1>1, <1>2, <1>3, <2>1, ToSetAppend
  <2>2. CASE c # turn
    BY <1>1, <1>2, <2>2
  <2> QED
    BY <2>1, <2>2
<1> QED
  BY <1>5, <1>6 DEF PrefixInv

LEMMA ReceivePrefix ==
    ASSUME TInv, PrefixInv, NEW d \in Client, Receive(d)
    PROVE  PrefixInv'
<1>1. /\ toClient \in [Client -> Seq(Message)] /\ memory \in [Client -> Seq(Message)]
      /\ toClient[d] # <<>> /\ world' = world
  BY DEF TInv, TypeOK, Receive, tick, Message
<1> DEFINE got == Head(toClient[d])
<1>2. /\ toClient' = [toClient EXCEPT ![d] = Tail(toClient[d])]
      /\ memory' = [memory EXCEPT ![d] = Append(memory[d], got)]
  BY DEF Receive
<1>3. got \in ToSet(toClient[d]) /\ got \in Message
  <2>1. toClient[d] \in Seq(Message) /\ toClient[d] # <<>>
    BY <1>1
  <2>2. 1 \in DOMAIN toClient[d] /\ got = toClient[d][1]
    BY <2>1, SMT
  <2> QED
    BY <2>1, <2>2, ToSetIn DEF ToSet
<1> HIDE DEF got
<1> SUFFICES ASSUME NEW c \in Client,
                    NEW m \in ToSet(toClient'[c]) \cup ToSet(memory'[c])
             PROVE  Beginning(m.hist, world)
  BY <1>1 DEF PrefixInv, ToSet, Beginning
<1>4. m \in ToSet(toClient[c]) \cup ToSet(memory[c])
  <2>1. CASE c = d
    BY <1>1, <1>2, <1>3, <2>1, ToSetAppend, ToSetTail
  <2>2. CASE c # d
    BY <1>1, <1>2, <2>2
  <2> QED
    BY <2>1, <2>2
<1> QED
  BY <1>4 DEF PrefixInv

LEMMA ExitPrefix ==
    ASSUME TInv, PrefixInv, NEW d \in Client, Exit(d)
    PROVE  PrefixInv'
<1>1. /\ toClient \in [Client -> Seq(Message)] /\ memory \in [Client -> Seq(Message)]
      /\ world' = world
      /\ toClient' = [toClient EXCEPT ![d] = <<>>]
      /\ memory' = [memory EXCEPT ![d] = <<>>]
  BY DEF TInv, TypeOK, Exit, tick, Message
<1>2. ToSet(<<>>) = {}
  BY SMT DEF ToSet
<1>3. \A c \in Client : /\ ToSet(toClient'[c]) \subseteq ToSet(toClient[c])
                        /\ ToSet(memory'[c]) \subseteq ToSet(memory[c])
  <2> SUFFICES ASSUME NEW c \in Client
               PROVE  /\ ToSet(toClient'[c]) \subseteq ToSet(toClient[c])
                      /\ ToSet(memory'[c]) \subseteq ToSet(memory[c])
    OBVIOUS
  <2>1. CASE c = d
    BY <1>1, <1>2, <2>1
  <2>2. CASE c # d
    BY <1>1, <2>2
  <2> QED
    BY <2>1, <2>2
<1> QED
  BY <1>1, <1>3 DEF PrefixInv, Beginning

LEMMA NextPrefix == TInv /\ PrefixInv /\ [Next]_vars => PrefixInv'
<1> SUFFICES ASSUME TInv, PrefixInv, [Next]_vars
             PROVE  PrefixInv'
  OBVIOUS
<1>1. CASE UNCHANGED vars
  BY <1>1, PrefixKept DEF vars
<1>2. CASE Accept
  BY <1>2, PrefixKept DEF Accept, clients
<1>3. CASE Collect
  BY <1>3, PrefixKept DEF Collect, clients
<1>4. CASE NextPlayer
  BY <1>4, PrefixKept DEF NextPlayer, clients
<1>5. CASE SendGone
  BY <1>5, PrefixKept DEF SendGone, clients
<1>6. CASE EndTick
  BY SMTT(30), <1>6, PrefixKept DEF EndTick, clients
<1>7. ASSUME NEW c \in Client, Start(c) \/ Poll(c) \/ Finish(c)
      PROVE  PrefixInv'
  BY <1>7, PrefixKept DEF Start, Poll, Finish, tick
<1> QED
  BY <1>1, <1>2, <1>3, <1>4, <1>5, <1>6, <1>7, AdvancePrefix, SendPrefix,
     ReceivePrefix, ExitPrefix DEF Next, Server

LEMMA UnnoticedFromInv == TInv /\ DrawInv /\ PrefixInv => Unnoticed
<1> SUFFICES ASSUME TInv, DrawInv, PrefixInv, NEW c \in Client, WellAdjusted(c),
                    NEW k \in DOMAIN stat[c], k \in DOMAIN world
             PROVE  OwnIn(c, stat[c][k]) = OwnIn(c, world[k])
  BY DEF Unnoticed
<1> DEFINE own == {e \in UNION {eventTrace[c][f] : f \in 1 .. LastFrame} :
                     e.frame = k - 1}
<1>1. stat[c][k] = IF k <= Len(Base(c)) THEN Base(c)[k] ELSE own
  BY DEF DrawInv, DrawnOK, Due
<1>2. k \in 1 .. Len(world)
  BY SMTT(30) DEF TInv, TypeOK, History
<1>3. CASE k <= Len(Base(c))
  <2>1. access[c] # 0
    <3>1. Len(<<>>) = 0 /\ ~ (k <= 0)
      BY <1>2, SMT
    <3> QED
      BY <1>2, <1>3, <3>1 DEF Base
  <2>2. memory[c] \in Seq(Message) /\ access[c] \in 1 .. Len(memory[c])
    <3>1. memory[c] \in Seq(Message) /\ access[c] \in 0 .. Len(memory[c])
      BY DEF TInv, TypeOK, Message
    <3> QED
      BY <2>1, <3>1, SMT
  <2>3. memory[c][access[c]] \in ToSet(memory[c])
    BY <2>2 DEF ToSet
  <2>4. Beginning(Base(c), world)
    BY <2>1, <2>3 DEF PrefixInv, Base
  <2>5. Base(c)[k] = world[k]
    BY <1>2, <1>3, <2>4, SMT DEF Beginning
  <2> QED
    BY <1>1, <1>3, <2>5
<1>4. CASE ~ (k <= Len(Base(c)))
  <2>1. OwnIn(c, world[k]) = own
    BY DEF WellAdjusted
  <2>2. OwnIn(c, own) = own
    BY DEF OwnIn, DrawInv, BucketsOK
  <2> QED
    BY <1>1, <1>4, <2>1, <2>2
<1> QED
  BY <1>3, <1>4

\* For any lags: a client whose events the server has executed in the frames the
\* client foresaw has drawn its own events as the server executed them, so no
\* state that it loads takes back what it has shown
\* (tex/02_protocolos.tex:40; game_deadreckoning.c:237-272).
THEOREM UnnoticedHolds == Spec => []Unnoticed
  BY InitTInv, NextTInv, InitDraw, NextDraw, InitPrefix, NextPrefix,
     UnnoticedFromInv, PTL DEF Spec

-------------------------------------------------------------------------------
(***************************************************************************)
(* What the server does with a client's events: it executes each once, in  *)
(* the order of their summoning, and tells the client exactly which.       *)
(***************************************************************************)

\* What the server has taken of c's events, and what it has not.
Seen(c) == Executed(c, world) \cup OwnIn(c, ToSet(evs))
Sent(c) == ToSet(toServer[c])

\* e was sent before d: only the connect event is sent again.
Earlier(e, d) == e.summon < d.summon \/ e.button = Connect

Ordered(s) == \A i, j \in DOMAIN s : i < j => Earlier(s[i], s[j])

\* Where a tick stands, and who can be in the game.
PhaseInv ==
    /\ at = "accept" => evs = <<>>
    /\ at = "send" => world # <<>> /\ world[Len(world)] = ToSet(evs)
    /\ \A c \in Client : c >= playerCount => pc[c] = "off"

\* An event of c anywhere between c and the world: in the middle of a frame the
\* keys of that frame have been sent, before it they have not.
EventOK(c, e) ==
    /\ pc[c] # "off"
    /\ e.player = c
    /\ e.button = Connect => e.summon = 1
    /\ pc[c] # "exit" => e.summon <= frame[c]
    /\ pc[c] = "poll" /\ e.button # Connect => e.summon < frame[c]

\* World, events of the tick and queue hold c's events in the order of their
\* summoning, and all of them.
StreamOK(c) ==
    /\ \A e \in Seen(c) \cup Sent(c) : EventOK(c, e)
    /\ \A j, k \in DOMAIN world : j < k =>
         \A e \in OwnIn(c, world[j]), d \in OwnIn(c, world[k]) : Earlier(e, d)
    /\ at = "collect" =>
         \A e \in Executed(c, world), d \in OwnIn(c, ToSet(evs)) : Earlier(e, d)
    /\ \A e \in Seen(c), d \in Sent(c) : Earlier(e, d)
    /\ Ordered(toServer[c])
    /\ \A f \in 1 .. LastFrame : eventTrace[c][f] \subseteq Seen(c) \cup Sent(c)

\* The events that have been taken are those summoned up to a frame n; of those
\* summoned in n some may still come.
UpTo(c, es, n) ==
    /\ \A e \in es : e.summon <= n
    /\ n > 0 => \E e \in es : e.summon = n
    /\ \A f \in 1 .. LastFrame : f < n => eventTrace[c][f] \subseteq es

StreamInv ==
    /\ PhaseInv
    /\ \A c \in Client : StreamOK(c) /\ UpTo(c, Seen(c), lie[c])

MessageOK(c, m) ==
    /\ UpTo(c, Executed(c, m.hist), m.lie)
    /\ pc[c] # "exit" => m.lie <= frame[c]

\* What a state says of itself stays true on its way and in the client's memory.
MessageInv ==
    \A c \in Client : \A m \in ToSet(toClient[c]) \cup ToSet(memory[c]) :
      MessageOK(c, m)

-------------------------------------------------------------------------------
(* Sequences in order *)

LEMMA OrderedAppend ==
    ASSUME NEW s \in Seq(Event), NEW x \in Event, Ordered(s),
           \A e \in ToSet(s) : Earlier(e, x)
    PROVE  Ordered(Append(s, x))
<1>1. /\ DOMAIN s = 1 .. Len(s) /\ Len(s) \in Nat
      /\ DOMAIN Append(s, x) = 1 .. Len(s) + 1
      /\ \A i \in 1 .. Len(s) : Append(s, x)[i] = s[i]
      /\ Append(s, x)[Len(s) + 1] = x
  BY SMT
<1> SUFFICES ASSUME NEW i \in 1 .. Len(s) + 1, NEW j \in 1 .. Len(s) + 1, i < j
             PROVE  Earlier(Append(s, x)[i], Append(s, x)[j])
  BY <1>1 DEF Ordered
<1>2. i \in 1 .. Len(s)
  BY <1>1, SMT
<1>3. CASE j = Len(s) + 1
  <2>1. s[i] \in ToSet(s)
    BY <1>1, <1>2 DEF ToSet
  <2> QED
    BY <1>1, <1>2, <1>3, <2>1
<1>4. CASE j # Len(s) + 1
  <2>1. j \in 1 .. Len(s)
    BY <1>1, <1>4, SMT
  <2> QED
    BY <1>1, <1>2, <2>1 DEF Ordered
<1> QED
  BY <1>3, <1>4

LEMMA OrderedTail ==
    ASSUME NEW s \in Seq(Event), s # <<>>, Ordered(s)
    PROVE  /\ Ordered(Tail(s))
           /\ \A d \in ToSet(Tail(s)) : Earlier(Head(s), d)
<1>1. /\ Head(s) = s[1] /\ Len(s) \in Nat \ {0} /\ DOMAIN s = 1 .. Len(s)
      /\ DOMAIN Tail(s) = 1 .. Len(s) - 1
      /\ \A i \in 1 .. Len(s) - 1 : Tail(s)[i] = s[i + 1]
  BY SMT
<1>2. ASSUME NEW i \in 1 .. Len(s) - 1, NEW j \in 1 .. Len(s) - 1, i < j
      PROVE  Earlier(Tail(s)[i], Tail(s)[j])
  <2>1. i + 1 \in DOMAIN s /\ j + 1 \in DOMAIN s /\ i + 1 < j + 1
    BY <1>1, <1>2, SMT
  <2> QED
    BY <1>1, <2>1 DEF Ordered
<1>3. ASSUME NEW i \in 1 .. Len(s) - 1
      PROVE  Earlier(Head(s), Tail(s)[i])
  <2>1. 1 \in DOMAIN s /\ i + 1 \in DOMAIN s /\ 1 < i + 1
    BY <1>1, SMT
  <2> QED
    BY <1>1, <2>1 DEF Ordered
<1> QED
  BY <1>1, <1>2, <1>3 DEF Ordered, ToSet

LEMMA OrderedPart ==
    ASSUME NEW s \in Seq(Event), NEW k \in 0 .. Len(s), Ordered(s)
    PROVE  /\ Ordered(SubSeq(s, 1, k))
           /\ ToSet(SubSeq(s, 1, k)) \subseteq ToSet(s)
<1>1. /\ DOMAIN s = 1 .. Len(s) /\ Len(s) \in Nat
      /\ DOMAIN SubSeq(s, 1, k) = 1 .. k
      /\ \A i \in 1 .. k : SubSeq(s, 1, k)[i] = s[i] /\ i \in DOMAIN s
  BY SMT
<1> QED
  BY <1>1 DEF Ordered, ToSet

-------------------------------------------------------------------------------
(* What has been executed *)

LEMMA ExecutedAppend ==
    ASSUME NEW w \in History, NEW es \in SUBSET Event, NEW c \in Client
    PROVE  Executed(c, Append(w, es)) = Executed(c, w) \cup OwnIn(c, es)
<1>1. /\ DOMAIN w = 1 .. Len(w) /\ Len(w) \in Nat
      /\ DOMAIN Append(w, es) = 1 .. Len(w) + 1
      /\ \A i \in 1 .. Len(w) : Append(w, es)[i] = w[i]
      /\ Append(w, es)[Len(w) + 1] = es
  BY SMT DEF History
<1>2. DOMAIN Append(w, es) = DOMAIN w \cup {Len(w) + 1}
  BY <1>1, SMT
<1> QED
  BY <1>1, <1>2 DEF Executed

LEMMA SeenType ==
    ASSUME TInv, NEW c \in Client, NEW e \in Seen(c) \cup Sent(c)
    PROVE  e \in Event /\ e.summon \in 1 .. LastFrame
<1>1. e \in Event
  <2>1. ToSet(evs) \subseteq Event /\ Sent(c) \subseteq Event
    BY ToSetIn DEF TInv, TypeOK, Sent
  <2>2. \A k \in DOMAIN world : world[k] \subseteq Event
    BY DEF TInv, TypeOK, History
  <2> QED
    BY <2>1, <2>2 DEF Seen, Executed, OwnIn
<1> QED
  BY <1>1 DEF Event

\* After the world has advanced, all that was collected is in it.
LEMMA SeenIsExecuted ==
    ASSUME TInv, PhaseInv, at = "send", NEW c \in Client
    PROVE  Seen(c) = Executed(c, world)
<1>1. world \in Seq(SUBSET Event) /\ world # <<>>
  BY DEF TInv, TypeOK, History, PhaseInv
<1>2. Len(world) \in DOMAIN world
  BY <1>1, SMT
<1>3. OwnIn(c, world[Len(world)]) = OwnIn(c, ToSet(evs))
  BY DEF PhaseInv
<1> QED
  BY <1>2, <1>3 DEF Seen, Executed

-------------------------------------------------------------------------------
(* The server's steps *)

LEMMA InitStream == Init => StreamInv /\ MessageInv
<1> SUFFICES ASSUME Init
             PROVE  StreamInv /\ MessageInv
  OBVIOUS
<1>1. ToSet(<<>>) = {} /\ DOMAIN <<>> = {}
  BY SMT DEF ToSet
<1>2. \A c \in Client : Seen(c) = {} /\ Sent(c) = {}
  BY <1>1 DEF Init, Seen, Sent, Executed, OwnIn
<1>3. PhaseInv
  BY DEF Init, PhaseInv
<1>4. ASSUME NEW c \in Client
      PROVE  StreamOK(c) /\ UpTo(c, Seen(c), lie[c])
  BY <1>1, <1>2, SMT DEF Init, StreamOK, UpTo, Ordered
<1>5. MessageInv
  BY <1>1 DEF Init, MessageInv
<1> QED
  BY <1>3, <1>4, <1>5 DEF StreamInv

\* A step that concerns neither the stream of c nor where c stands.
LEMMA StreamKept ==
    ASSUME NEW c \in Client, StreamOK(c), UpTo(c, Seen(c), lie[c]),
           world' = world, evs' = evs, toServer'[c] = toServer[c],
           pc'[c] = pc[c], frame'[c] = frame[c], eventTrace'[c] = eventTrace[c],
           lie'[c] = lie[c], at' = "collect" => at = "collect" \/ evs = <<>>
    PROVE  StreamOK(c)' /\ UpTo(c, Seen(c), lie[c])'
<1>1. Seen(c)' = Seen(c) /\ Sent(c)' = Sent(c) /\ Executed(c, world)' = Executed(c, world)
  BY DEF Seen, Sent, Executed
<1>2. UpTo(c, Seen(c), lie[c])'
  BY <1>1 DEF UpTo
<1>3. \A e : EventOK(c, e)' = EventOK(c, e)
  BY DEF EventOK
<1>4. at' = "collect" =>
        \A e \in Executed(c, world), d \in OwnIn(c, ToSet(evs)) : Earlier(e, d)
  <2>1. CASE evs = <<>>
    <3>1. ToSet(<<>>) = {}
      BY SMT DEF ToSet
    <3> QED
      BY <2>1, <3>1 DEF OwnIn
  <2>2. CASE at = "collect"
    BY <2>2 DEF StreamOK
  <2> QED
    BY <2>1, <2>2
<1>5. StreamOK(c)'
  BY <1>1, <1>3, <1>4 DEF StreamOK, Ordered, Earlier, OwnIn
<1> QED
  BY <1>2, <1>5

LEMMA AcceptStream ==
    ASSUME TInv, StreamInv, Accept
    PROVE  StreamInv'
<1>1. /\ UNCHANGED <<world, evs, toServer, pc, frame, eventTrace>>
      /\ at = "accept" /\ at' = "collect"
      /\ playerCount \in Nat /\ playerCount' \in {playerCount, playerCount + 1}
  BY DEF Accept, clients, TInv, TypeOK
<1>2. PhaseInv'
  <2>1. ASSUME NEW c \in Client, c >= playerCount'
        PROVE  c >= playerCount
    BY <1>1, <2>1, SMT DEF Client
  <2> QED
    BY <1>1, <2>1 DEF StreamInv, PhaseInv
<1>3. ASSUME NEW c \in Client
      PROVE  lie'[c] = lie[c]
  <2>1. CASE UNCHANGED lie
    BY <2>1
  <2>2. CASE lie' = [lie EXCEPT ![playerCount] = 0]
    <3>1. CASE c = playerCount
      <4>1. pc[c] = "off"
        BY <3>1, <1>1, SMT DEF StreamInv, PhaseInv
      <4>2. \A e \in Seen(c) : FALSE
        BY <4>1 DEF StreamInv, StreamOK, EventOK
      <4>3. ~ (lie[c] > 0) /\ lie[c] \in 0 .. LastFrame
        BY <4>2 DEF StreamInv, UpTo, TInv, TypeOK
      <4> QED
        BY <2>2, <3>1, <4>3, SMT DEF TInv, TypeOK
    <3>2. CASE c # playerCount
      BY <2>2, <3>2 DEF TInv, TypeOK
    <3> QED
      BY <3>1, <3>2
  <2> QED
    BY <2>1, <2>2 DEF Accept
<1>4. evs = <<>>
  BY <1>1 DEF StreamInv, PhaseInv
<1> QED
  BY <1>1, <1>2, <1>3, <1>4, StreamKept DEF StreamInv

LEMMA CollectStream ==
    ASSUME TInv, DrawInv, StreamInv, Collect
    PROVE  StreamInv'
<1>0. PICK c \in Client : c = turn
  BY ConstantFacts, SMT DEF TInv, TypeOK, Collect
<1> DEFINE x == Head(toServer[c])
<1>1. /\ toServer[c] \in Seq(Event) /\ toServer[c] # <<>>
      /\ evs \in Seq(Event) /\ x \in Event
      /\ lie' = [lie EXCEPT ![c] = x.summon]
      /\ evs' = Append(evs, x)
      /\ toServer' = [toServer EXCEPT ![c] = Tail(toServer[c])]
      /\ at = "collect" /\ at' = "collect"
      /\ UNCHANGED <<world, pc, frame, eventTrace, playerCount>>
  <2>1. toServer[c] \in Seq(Event) /\ toServer[c] # <<>>
    BY <1>0 DEF TInv, TypeOK, Collect
  <2>2. x \in Event
    BY <2>1, ToSetTail
  <2> QED
    BY <1>0, <2>1, <2>2 DEF Collect, clients, TInv, TypeOK
<1>2. ToSet(evs') = ToSet(evs) \cup {x}
  BY <1>1, ToSetAppend
<1>3. ToSet(toServer[c]) = ToSet(toServer'[c]) \cup {x}
  <2>1. toServer'[c] = Tail(toServer[c])
    BY <1>1 DEF TInv, TypeOK
  <2> QED
    BY <1>1, <2>1, ToSetTail
<1>4. PhaseInv'
  BY <1>1 DEF StreamInv, PhaseInv
<1> HIDE DEF x
<1>5. EventOK(c, x)
  BY <1>1, <1>3 DEF StreamInv, StreamOK, Sent
<1>6. StreamOK(c) /\ UpTo(c, Seen(c), lie[c])
  BY <1>1 DEF StreamInv
<1>7. /\ Seen(c)' = Seen(c) \cup {x}
      /\ OwnIn(c, ToSet(evs')) = OwnIn(c, ToSet(evs)) \cup {x}
      /\ Executed(c, world)' = Executed(c, world)
      /\ Sent(c) = Sent(c)' \cup {x}
  BY <1>1, <1>2, <1>3, <1>5 DEF Seen, Sent, OwnIn, Executed, EventOK
<1>8. Ordered(toServer'[c]) /\ \A d \in Sent(c)' : Earlier(x, d)
  <2>1. toServer'[c] = Tail(toServer[c])
    BY <1>1 DEF TInv, TypeOK
  <2>2. Ordered(toServer[c])
    BY <1>6 DEF StreamOK
  <2> QED
    BY <1>1, <2>1, <2>2, OrderedTail DEF Sent, x
<1>9. StreamOK(c)'
  <2>1. \A e \in Seen(c)' \cup Sent(c)' : EventOK(c, e)'
    BY <1>1, <1>5, <1>6, <1>7 DEF StreamOK, EventOK
  <2>2. \A e \in Executed(c, world)', d \in OwnIn(c, ToSet(evs')) : Earlier(e, d)
    BY <1>1, <1>6, <1>7 DEF StreamOK, Seen
  <2>3. \A e \in Seen(c)', d \in Sent(c)' : Earlier(e, d)
    BY <1>6, <1>7, <1>8 DEF StreamOK
  <2>4. \A f \in 1 .. LastFrame : eventTrace'[c][f] \subseteq Seen(c)' \cup Sent(c)'
    BY <1>1, <1>6, <1>7 DEF StreamOK
  <2>5. \A j, k \in DOMAIN world' : j < k =>
          \A e \in OwnIn(c, world'[j]), d \in OwnIn(c, world'[k]) : Earlier(e, d)
    BY <1>1, <1>6 DEF StreamOK
  <2> QED
    BY <1>8, <2>1, <2>2, <2>3, <2>4, <2>5 DEF StreamOK, Ordered, Earlier, OwnIn
<1>10. UpTo(c, Seen(c), lie[c])'
  <2>1. lie'[c] = x.summon /\ x.summon \in 1 .. LastFrame
    BY <1>1 DEF TInv, TypeOK, Event
  <2>2. ASSUME NEW e \in Seen(c)
        PROVE  e.summon <= x.summon
    <3>1. Earlier(e, x) /\ (e.button = Connect => e.summon = 1)
      BY <1>6, <1>7 DEF StreamOK, EventOK
    <3>2. e.summon \in 1 .. LastFrame
      BY SeenType
    <3> QED
      BY <2>1, <3>1, <3>2, SMT DEF Earlier
  <2>3. ASSUME NEW f \in 1 .. LastFrame, f < x.summon, NEW e \in eventTrace[c][f]
        PROVE  e \in Seen(c)
    <3>1. e.player = c /\ e.summon = f
      BY <1>1 DEF DrawInv, BucketsOK
    <3>2. e = x \/ e \notin Sent(c)'
      <4> SUFFICES ASSUME e \in Sent(c)'
                   PROVE  FALSE
        OBVIOUS
      <4>1. Earlier(x, e) /\ (x.button = Connect => x.summon = 1)
        BY <1>5, <1>8 DEF EventOK
      <4> QED
        BY <2>1, <2>3, <3>1, <4>1, SMT DEF Earlier
    <3> QED
      BY <1>6, <1>7, <3>1, <3>2, <2>1, <2>3, SMT DEF StreamOK
  <2> QED
    BY <1>1, <1>7, <2>1, <2>2, <2>3, SMT DEF UpTo
<1>11. ASSUME NEW d \in Client, d # c
       PROVE  StreamOK(d)' /\ UpTo(d, Seen(d), lie[d])'
  <2>1. OwnIn(d, ToSet(evs')) = OwnIn(d, ToSet(evs))
    BY <1>2, <1>5, <1>11 DEF OwnIn, EventOK
  <2>2. toServer'[d] = toServer[d] /\ lie'[d] = lie[d]
    BY <1>1, <1>11 DEF TInv, TypeOK
  <2>3. /\ Seen(d)' = Seen(d) /\ Sent(d)' = Sent(d)
        /\ Executed(d, world)' = Executed(d, world)
    BY <1>1, <2>1, <2>2 DEF Seen, Sent, Executed
  <2>4. \A e : EventOK(d, e)' = EventOK(d, e)
    BY <1>1 DEF EventOK
  <2>5. StreamOK(d) /\ UpTo(d, Seen(d), lie[d])
    BY DEF StreamInv
  <2>6. StreamOK(d)'
    BY SMTT(30), <1>1, <2>1, <2>2, <2>3, <2>4, <2>5 DEF StreamOK, Ordered, Earlier
  <2>7. UpTo(d, Seen(d), lie[d])'
    BY <1>1, <2>2, <2>3, <2>5 DEF UpTo
  <2> QED
    BY <2>6, <2>7
<1> QED
  BY <1>4, <1>9, <1>10, <1>11 DEF StreamInv

LEMMA AdvanceStream ==
    ASSUME TInv, StreamInv, Advance
    PROVE  StreamInv'
<1>1. /\ world \in History /\ ToSet(evs) \in SUBSET Event
      /\ world' = Append(world, ToSet(evs))
      /\ at = "collect" /\ at' = "send"
      /\ UNCHANGED <<evs, toServer, pc, frame, eventTrace, playerCount, lie>>
  BY ToSetIn DEF TInv, TypeOK, Advance, clients
<1>2. /\ DOMAIN world = 1 .. Len(world) /\ Len(world) \in Nat
      /\ DOMAIN world' = 1 .. Len(world) + 1 /\ Len(world') = Len(world) + 1
      /\ \A i \in 1 .. Len(world) : world'[i] = world[i]
      /\ world'[Len(world) + 1] = ToSet(evs)
      /\ world' # <<>>
  BY <1>1, SMT DEF History
<1>3. PhaseInv'
  BY <1>1, <1>2 DEF StreamInv, PhaseInv
<1>4. ASSUME NEW c \in Client
      PROVE  StreamOK(c)' /\ UpTo(c, Seen(c), lie[c])'
  <2>1. Executed(c, world)' = Executed(c, world) \cup OwnIn(c, ToSet(evs))
    BY <1>1, ExecutedAppend DEF Executed
  <2>2. Seen(c)' = Seen(c) /\ Sent(c)' = Sent(c)
    BY <1>1, <2>1 DEF Seen, Sent
  <2>3. \A e : EventOK(c, e)' = EventOK(c, e)
    BY <1>1 DEF EventOK
  <2>4. StreamOK(c) /\ UpTo(c, Seen(c), lie[c])
    BY DEF StreamInv
  <2>5. ASSUME NEW j \in DOMAIN world', NEW k \in DOMAIN world', j < k,
               NEW e \in OwnIn(c, world'[j]), NEW d \in OwnIn(c, world'[k])
        PROVE  Earlier(e, d)
    <3>1. j \in DOMAIN world /\ world'[j] = world[j]
      BY <1>2, <2>5, SMT
    <3>2. CASE k = Len(world) + 1
      <4>1. e \in Executed(c, world)
        BY <3>1 DEF Executed
      <4> QED
        BY <1>1, <1>2, <2>4, <3>2, <4>1 DEF StreamOK
    <3>3. CASE k # Len(world) + 1
      <4>1. k \in DOMAIN world /\ world'[k] = world[k]
        BY <1>2, <3>3, SMT
      <4> QED
        BY <2>4, <2>5, <3>1, <4>1 DEF StreamOK
    <3> QED
      BY <3>2, <3>3
  <2>6. StreamOK(c)'
    BY <1>1, <2>2, <2>3, <2>4, <2>5 DEF StreamOK, Ordered, Earlier, OwnIn
  <2>7. UpTo(c, Seen(c), lie[c])'
    BY <1>1, <2>2, <2>4 DEF UpTo
  <2> QED
    BY <2>6, <2>7
<1> QED
  BY <1>3, <1>4 DEF StreamInv

LEMMA EndTickStream ==
    ASSUME TInv, StreamInv, EndTick
    PROVE  StreamInv'
<1>1. /\ at = "send" /\ at' = "accept" /\ evs' = <<>>
      /\ UNCHANGED <<world, toServer, pc, frame, eventTrace, playerCount, lie>>
  BY DEF EndTick, clients
<1>2. ToSet(<<>>) = {}
  BY SMT DEF ToSet
<1>3. PhaseInv'
  BY <1>1 DEF StreamInv, PhaseInv
<1>4. ASSUME NEW c \in Client
      PROVE  StreamOK(c)' /\ UpTo(c, Seen(c), lie[c])'
  <2>1. Seen(c)' = Seen(c) /\ Sent(c)' = Sent(c)
    BY <1>1, <1>2, SeenIsExecuted DEF StreamInv, Seen, Sent, OwnIn, Executed
  <2>2. \A e : EventOK(c, e)' = EventOK(c, e)
    BY <1>1 DEF EventOK
  <2>3. StreamOK(c) /\ UpTo(c, Seen(c), lie[c])
    BY DEF StreamInv
  <2>4. StreamOK(c)'
    BY <1>1, <2>1, <2>2, <2>3 DEF StreamOK, Ordered, Earlier, OwnIn
  <2>5. UpTo(c, Seen(c), lie[c])'
    BY <1>1, <2>1, <2>3 DEF UpTo
  <2> QED
    BY <2>4, <2>5
<1> QED
  BY <1>3, <1>4 DEF StreamInv

LEMMA ServerStream ==
    ASSUME TInv, DrawInv, StreamInv, Server
    PROVE  StreamInv'
<1>1. ASSUME NextPlayer \/ SendState \/ SendGone
      PROVE  StreamInv'
  <2>1. UNCHANGED <<at, world, evs, toServer, pc, frame, eventTrace, playerCount, lie>>
    BY <1>1 DEF NextPlayer, SendState, SendGone, clients
  <2>2. PhaseInv'
    BY <2>1 DEF StreamInv, PhaseInv
  <2> QED
    BY <2>1, <2>2, StreamKept DEF StreamInv
<1> QED
  BY <1>1, AcceptStream, CollectStream, AdvanceStream, EndTickStream DEF Server

-------------------------------------------------------------------------------
(* The clients' steps *)

\* c sends x, which is its connect event or younger than all it has sent.
LEMMA SendOne ==
    ASSUME NEW c \in Client, NEW s \in Seq(Event), NEW x \in Event, NEW done,
           Ordered(s), \A e \in done \cup ToSet(s) : Earlier(e, x),
           \A e \in done, d \in ToSet(s) : Earlier(e, d)
    PROVE  /\ Append(s, x) \in Seq(Event) /\ ToSet(Append(s, x)) = ToSet(s) \cup {x}
           /\ Ordered(Append(s, x))
           /\ \A e \in done, d \in ToSet(Append(s, x)) : Earlier(e, d)
<1>1. ToSet(Append(s, x)) = ToSet(s) \cup {x}
  BY ToSetAppend
<1>2. Ordered(Append(s, x))
  BY OrderedAppend
<1>3. Append(s, x) \in Seq(Event)
  BY SMT
<1> QED
  BY <1>1, <1>2, <1>3

\* The server's part is as it was, and so is the stream of every other client.
LEMMA ClientStream ==
    ASSUME TInv, StreamInv, NEW c \in Client, UNCHANGED tick,
           toServer' = [toServer EXCEPT ![c] = toServer'[c]],
           pc' = [pc EXCEPT ![c] = pc'[c]],
           frame' = [frame EXCEPT ![c] = frame'[c]],
           eventTrace' = [eventTrace EXCEPT ![c] = eventTrace'[c]],
           pc[c] = "off" => ~ (c >= playerCount),
           StreamOK(c)', UpTo(c, Seen(c), lie[c])'
    PROVE  StreamInv'
<1>1. UNCHANGED <<at, world, evs, playerCount, lie>>
  BY DEF tick
<1>2. ASSUME NEW d \in Client, d # c
      PROVE  StreamOK(d)' /\ UpTo(d, Seen(d), lie[d])' /\ pc'[d] = pc[d]
  <2>1. /\ toServer'[d] = toServer[d] /\ pc'[d] = pc[d] /\ frame'[d] = frame[d]
        /\ eventTrace'[d] = eventTrace[d] /\ lie'[d] = lie[d]
    BY <1>1, <1>2 DEF TInv, TypeOK
  <2>2. StreamOK(d) /\ UpTo(d, Seen(d), lie[d])
    BY DEF StreamInv
  <2> QED
    BY <1>1, <2>1, <2>2, StreamKept
<1>3. PhaseInv'
  BY <1>1, <1>2 DEF StreamInv, PhaseInv
<1> QED
  BY <1>2, <1>3 DEF StreamInv

\* The server knows no event of c from a frame to come.
LEMMA StreamBound ==
    ASSUME TInv, StreamInv, NEW c \in Client, pc[c] # "exit"
    PROVE  lie[c] <= frame[c]
<1>1. UpTo(c, Seen(c), lie[c]) /\ \A e \in Seen(c) : e.summon <= frame[c]
  BY DEF StreamInv, StreamOK, EventOK
<1>2. lie[c] \in 0 .. LastFrame /\ frame[c] \in 1 .. LastFrame + 1
  BY DEF TInv, TypeOK
<1>3. CASE lie[c] > 0
  BY <1>1, <1>3 DEF UpTo
<1>4. CASE ~ (lie[c] > 0)
  BY <1>2, <1>4, SMT
<1> QED
  BY <1>3, <1>4

\* What the proof of a step of c needs of the stream before it.
LEMMA StreamFacts ==
    ASSUME TInv, StreamInv, NEW c \in Client, UNCHANGED <<world, evs, lie>>
    PROVE  /\ Seen(c)' = Seen(c) /\ Executed(c, world)' = Executed(c, world)
           /\ StreamOK(c) /\ UpTo(c, Seen(c), lie[c])
           /\ lie'[c] = lie[c] /\ lie[c] \in 0 .. LastFrame
           /\ pc[c] = "off" => lie[c] = 0 /\ Seen(c) \cup Sent(c) = {}
           /\ pc[c] # "exit" => lie[c] <= frame[c]
<1>1. Seen(c)' = Seen(c) /\ Executed(c, world)' = Executed(c, world)
  BY DEF Seen, Executed
<1>2. StreamOK(c) /\ UpTo(c, Seen(c), lie[c])
  BY DEF StreamInv
<1>3. lie'[c] = lie[c] /\ lie[c] \in 0 .. LastFrame /\ frame[c] \in 1 .. LastFrame + 1
  BY DEF TInv, TypeOK
<1>4. pc[c] = "off" => Seen(c) \cup Sent(c) = {}
  BY <1>2 DEF StreamOK, EventOK
<1>5. ASSUME Seen(c) = {}
      PROVE  lie[c] = 0
  <2>1. ~ (lie[c] > 0)
    BY <1>2, <1>5 DEF UpTo
  <2> QED
    BY <1>3, <2>1, SMT
<1> QED
  BY <1>1, <1>2, <1>3, <1>4, <1>5, StreamBound

LEMMA StartStream ==
    ASSUME TInv, StreamInv, NEW c \in Client, Start(c)
    PROVE  StreamInv'
<1> DEFINE x == Summoned(c, Connect)
<1>1. frame[c] = 1 /\ frame[c] \in 1 .. LastFrame /\ frame[c] <= LastFrame
  BY ConstantFacts, SMT DEF TInv, LoopInv, Start
<1>2. x \in Event /\ x.player = c /\ x.summon = 1 /\ x.button = Connect
  <2>1. x \in Event
    BY <1>1, SummonedType
  <2> QED
    BY <1>1, <2>1 DEF Summoned
<1>3. /\ UNCHANGED tick /\ frame' = frame
      /\ toServer' = [toServer EXCEPT ![c] = Append(toServer[c], x)]
      /\ eventTrace' = [eventTrace EXCEPT ![c][frame[c]] = {x}]
      /\ pc[c] = "off" /\ pc' = [pc EXCEPT ![c] = "poll"]
      /\ ~ (c >= playerCount)
  <2>1. ~ (c >= playerCount)
    BY SMT DEF Start, TInv, TypeOK, Client
  <2> QED
    BY <2>1 DEF Start
<1> HIDE DEF x
<1>4. /\ Seen(c)' = Seen(c) /\ Executed(c, world)' = Executed(c, world)
      /\ StreamOK(c) /\ UpTo(c, Seen(c), lie[c])
      /\ lie'[c] = lie[c] /\ lie[c] = 0 /\ Seen(c) = {} /\ Sent(c) = {}
  BY <1>3, StreamFacts DEF tick
<1>5. /\ toServer[c] \in Seq(Event) /\ eventTrace[c] \in [1 .. LastFrame -> SUBSET Event]
      /\ toServer'[c] = Append(toServer[c], x)
      /\ eventTrace'[c] = [eventTrace[c] EXCEPT ![frame[c]] = {x}]
      /\ pc'[c] = "poll" /\ frame'[c] = 1
  BY <1>1, <1>3 DEF TInv, TypeOK
<1>6. Ordered(toServer'[c]) /\ Sent(c)' = {x}
  <2>1. Ordered(toServer[c]) /\ ToSet(toServer[c]) = {}
    BY <1>4 DEF StreamOK, Sent
  <2>2. Ordered(Append(toServer[c], x))
    BY <1>2, <1>5, <2>1, OrderedAppend
  <2>3. ToSet(Append(toServer[c], x)) = {x}
    BY <1>2, <1>5, <2>1, ToSetAppend
  <2> QED
    BY <1>5, <2>2, <2>3 DEF Sent
<1>7. \A e \in Seen(c)' \cup Sent(c)' : EventOK(c, e)'
  BY <1>2, <1>4, <1>5, <1>6 DEF EventOK
<1>8. \A f \in 1 .. LastFrame : eventTrace'[c][f] \subseteq Seen(c)' \cup Sent(c)'
  BY <1>1, <1>4, <1>5, <1>6 DEF StreamOK
<1>9. StreamOK(c)'
  BY <1>3, <1>4, <1>6, <1>7, <1>8 DEF StreamOK, Ordered, Earlier, OwnIn, tick
<1>10. UpTo(c, Seen(c), lie[c])'
  BY <1>4, SMT DEF UpTo
<1> QED
  BY <1>3, <1>5, <1>9, <1>10, ClientStream DEF TInv, TypeOK

LEMMA PollStream ==
    ASSUME TInv, DrawInv, StreamInv, NEW c \in Client, Poll(c)
    PROVE  StreamInv'
<1>0. PICK x : x = Summoned(c, Connect)
  OBVIOUS
<1>1. frame[c] \in 1 .. LastFrame /\ frame[c] <= LastFrame
  BY ConstantFacts, SMT DEF TInv, TypeOK, Poll
<1>2. PICK again \in Seq(Event), new \in Seq(Event) :
         /\ eventTrace' = [eventTrace EXCEPT ![c][frame[c]] = @ \cup ToSet(new)]
         /\ toServer' = [toServer EXCEPT ![c] = @ \o again \o new]
         /\ again = <<>> \/ /\ again = <<Summoned(c, Connect)>>
                            /\ Summoned(c, Connect) \in eventTrace[c][frame[c]]
         /\ new = <<>> \/ \E k \in Key : new = <<Summoned(c, k)>>
  BY PollFacts
<1>3. /\ UNCHANGED tick /\ frame' = frame
      /\ pc[c] = "poll" /\ pc' = [pc EXCEPT ![c] = "receive"]
  BY DEF Poll
<1>4. /\ Seen(c)' = Seen(c) /\ Executed(c, world)' = Executed(c, world)
      /\ StreamOK(c) /\ UpTo(c, Seen(c), lie[c])
      /\ lie'[c] = lie[c] /\ lie[c] <= frame[c] /\ lie[c] \in 0 .. LastFrame
  BY <1>3, StreamFacts DEF tick
<1>5. /\ toServer[c] \in Seq(Event) /\ eventTrace[c] \in [1 .. LastFrame -> SUBSET Event]
      /\ toServer'[c] = (toServer[c] \o again) \o new
      /\ eventTrace'[c] =
           [eventTrace[c] EXCEPT ![frame[c]] = eventTrace[c][frame[c]] \cup ToSet(new)]
      /\ pc'[c] = "receive" /\ frame'[c] = frame[c]
  BY <1>1, <1>2, <1>3 DEF TInv, TypeOK
\* The connect event stands in the first bucket only.
<1>6. ASSUME x \in eventTrace[c][frame[c]]
      PROVE  /\ x \in Event /\ x.player = c /\ x.button = Connect
             /\ x.summon = frame[c] /\ frame[c] = 1
  <2>1. x \in Event
    BY <1>0, <1>1, SummonedType
  <2>2. x.player = c /\ x.button = Connect /\ x.summon = frame[c]
    BY <1>0 DEF Summoned
  <2>3. EventOK(c, x)
    BY <1>1, <1>4, <1>6 DEF StreamOK
  <2> QED
    BY <2>1, <2>2, <2>3 DEF EventOK
<1>7. \A k \in Key : /\ Summoned(c, k) \in Event
                     /\ Summoned(c, k).player = c /\ Summoned(c, k).summon = frame[c]
                     /\ Summoned(c, k).button # Connect
  <2>1. \A k \in Key : Summoned(c, k) \in Event
    BY <1>1, SummonedType
  <2> QED
    BY <2>1, DeadReckoningConstants DEF Summoned, DeadReckoningConstants
<1> DEFINE s1 == toServer[c] \o again
\* Whatever of c has been sent is a connect event or from an earlier frame.
<1>8. \A e \in Seen(c) \cup Sent(c) :
        /\ EventOK(c, e) /\ (e.button = Connect \/ e.summon < frame[c])
  BY <1>3, <1>4 DEF StreamOK, EventOK
<1>9. /\ s1 \in Seq(Event) /\ Ordered(s1)
      /\ ToSet(s1) \subseteq Sent(c) \cup {x} /\ Sent(c) \subseteq ToSet(s1)
      /\ x \in ToSet(s1) => x \in Sent(c) \/ x \in eventTrace[c][frame[c]]
      /\ \A e \in Seen(c), d \in ToSet(s1) : Earlier(e, d)
  <2>1. Ordered(toServer[c]) /\ \A e \in Seen(c), d \in ToSet(toServer[c]) : Earlier(e, d)
    BY <1>4 DEF StreamOK, Sent
  <2>2. CASE again = <<>>
    <3>1. s1 = toServer[c]
      BY <1>5, <2>2, SMT
    <3> QED
      BY <1>5, <2>1, <3>1 DEF Sent
  <2>3. CASE again = <<x>> /\ x \in eventTrace[c][frame[c]]
    <3>1. s1 = Append(toServer[c], x)
      BY <1>5, <1>6, <2>3, SMT
    <3>2. \A e \in Seen(c) \cup ToSet(toServer[c]) : Earlier(e, x)
      BY <1>6, <1>8, <2>3 DEF Earlier, Sent
    <3> HIDE DEF s1
    <3>3. /\ s1 \in Seq(Event) /\ ToSet(s1) = ToSet(toServer[c]) \cup {x}
          /\ Ordered(s1) /\ \A e \in Seen(c), d \in ToSet(s1) : Earlier(e, d)
      <4>1. x \in Event /\ toServer[c] \in Seq(Event)
        BY <1>5, <1>6, <2>3
      <4>2. ToSet(s1) = ToSet(toServer[c]) \cup {x}
        BY <3>1, <4>1, ToSetAppend
      <4>3. Ordered(s1)
        BY <2>1, <3>1, <3>2, <4>1, OrderedAppend
      <4>4. s1 \in Seq(Event)
        BY <3>1, <4>1, SMT
      <4> QED
        BY <2>1, <3>2, <4>2, <4>3, <4>4
    <3> QED
      BY <2>3, <3>3 DEF Sent
  <2> QED
    BY <1>0, <1>2, <2>2, <2>3
<1>10. \A e \in ToSet(s1) : e.button = Connect \/ e.summon < frame[c]
  BY <1>6, <1>8, <1>9
<1> HIDE DEF s1
<1>11. /\ Ordered(toServer'[c]) /\ Sent(c)' = ToSet(s1) \cup ToSet(new)
       /\ \A e \in Seen(c), d \in Sent(c)' : Earlier(e, d)
       /\ \A e \in ToSet(new) : e.player = c /\ e.summon = frame[c] /\ e.button # Connect
  <2>1. CASE new = <<>>
    <3>1. toServer'[c] = s1 /\ ToSet(new) = {}
      BY <1>5, <1>9, <2>1, SMT DEF s1, ToSet
    <3> QED
      BY <1>9, <3>1 DEF Sent
  <2>2. ASSUME NEW k \in Key, new = <<Summoned(c, k)>>
        PROVE  <1>11!:
    <3> DEFINE y == Summoned(c, k)
    <3>1. y \in Event
      BY <1>7
    <3>2. \A e \in Seen(c) \cup ToSet(s1) : Earlier(e, y)
      BY <1>7, <1>8, <1>10 DEF Earlier
    <3>3. toServer'[c] = s1 \o <<y>>
      BY <1>5, <2>2 DEF s1
    <3>4. y.player = c /\ y.summon = frame[c] /\ y.button # Connect
      BY <1>7
    <3> HIDE DEF y
    <3>5. toServer'[c] = Append(s1, y) /\ ToSet(<<y>>) = {y}
      BY <1>9, <3>1, <3>3, SMT DEF ToSet
    <3>6. /\ ToSet(Append(s1, y)) = ToSet(s1) \cup {y} /\ Ordered(Append(s1, y))
          /\ \A e \in Seen(c), d \in ToSet(Append(s1, y)) : Earlier(e, d)
      BY SMTT(30), <1>9, <3>1, <3>2, SendOne
    <3>7. ToSet(new) = {y}
      BY <2>2, <3>5 DEF y
    <3> QED
      BY <3>4, <3>5, <3>6, <3>7 DEF Sent
  <2> QED
    BY <1>2, <2>1, <2>2
<1>12. \A e \in Seen(c)' \cup Sent(c)' : EventOK(c, e)'
  <2>1. ASSUME NEW e \in Seen(c) \cup Sent(c)
        PROVE  EventOK(c, e)'
    BY <1>3, <1>5, <1>8 DEF EventOK
  <2>2. ASSUME x \in eventTrace[c][frame[c]]
        PROVE  EventOK(c, x)'
    BY <1>5, <1>6, <2>2, SMT DEF EventOK
  <2>3. ASSUME NEW e \in ToSet(new)
        PROVE  EventOK(c, e)'
    BY <1>1, <1>5, <1>11, SMT DEF EventOK
  <2> QED
    BY <1>4, <1>9, <1>11, <2>1, <2>2, <2>3
<1>13. \A f \in 1 .. LastFrame : eventTrace'[c][f] \subseteq Seen(c)' \cup Sent(c)'
  <2>1. ASSUME NEW f \in 1 .. LastFrame
        PROVE  eventTrace'[c][f] \subseteq eventTrace[c][f] \cup ToSet(new)
    BY <1>1, <1>5
  <2> QED
    BY <1>4, <1>9, <1>11, <2>1 DEF StreamOK
<1>14. StreamOK(c)'
  <2>1. UNCHANGED <<at, world, evs>>
    BY <1>3 DEF tick
  <2> QED
    BY <1>4, <1>11, <1>12, <1>13, <2>1 DEF StreamOK, Ordered, Earlier, OwnIn
<1>15. UpTo(c, Seen(c), lie[c])'
  <2>1. ASSUME NEW f \in 1 .. LastFrame, f < lie[c]
        PROVE  eventTrace'[c][f] = eventTrace[c][f]
    <3>1. f # frame[c]
      BY <1>1, <1>4, <2>1, SMT
    <3> QED
      BY <1>5, <3>1
  <2> QED
    BY <1>4, <2>1 DEF UpTo
<1> QED
  BY <1>2, <1>3, <1>5, <1>14, <1>15, ClientStream DEF TInv, TypeOK

LEMMA FinishStream ==
    ASSUME TInv, StreamInv, NEW c \in Client, Finish(c)
    PROVE  StreamInv'
<1>1. /\ UNCHANGED <<tick, toServer, eventTrace>>
      /\ pc[c] = "receive" /\ pc' = [pc EXCEPT ![c] = "poll"]
      /\ frame' = [frame EXCEPT ![c] = frame[c] + 1]
  BY DEF Finish
<1>2. pc'[c] = "poll" /\ frame'[c] = frame[c] + 1 /\ frame[c] \in Nat
  BY <1>1 DEF TInv, TypeOK
<1>3. /\ Seen(c)' = Seen(c) /\ Executed(c, world)' = Executed(c, world)
      /\ StreamOK(c) /\ UpTo(c, Seen(c), lie[c]) /\ Sent(c)' = Sent(c)
  BY <1>1, StreamFacts DEF tick, Sent
<1>4. ASSUME NEW e \in Seen(c) \cup Sent(c)
      PROVE  EventOK(c, e)'
  <2>1. EventOK(c, e) /\ e.summon \in Nat
    BY <1>3, SeenType, SMT DEF StreamOK
  <2> QED
    BY <1>1, <1>2, <2>1, SMT DEF EventOK
<1>5. StreamOK(c)'
  BY <1>1, <1>3, <1>4 DEF StreamOK, Ordered, Earlier, OwnIn, tick
<1>6. UpTo(c, Seen(c), lie[c])'
  BY <1>1, <1>3 DEF UpTo, tick
<1> QED
  BY <1>1, <1>2, <1>5, <1>6, ClientStream DEF TInv, TypeOK

LEMMA ExitStream ==
    ASSUME TInv, StreamInv, NEW c \in Client, Exit(c)
    PROVE  StreamInv'
<1>1. /\ UNCHANGED tick
      /\ pc[c] = "receive" /\ pc' = [pc EXCEPT ![c] = "exit"]
      /\ frame' = [frame EXCEPT ![c] = 1]
      /\ eventTrace' = [eventTrace EXCEPT ![c] = [f \in 1 .. LastFrame |-> {}]]
  BY DEF Exit
<1>2. PICK k \in 0 .. Len(toServer[c]) :
        toServer' = toServer \/ toServer' = [toServer EXCEPT ![c] = SubSeq(toServer[c], 1, k)]
  <2>1. toServer[c] \in Seq(Event)
    BY DEF TInv, TypeOK
  <2>2. 0 \in 0 .. Len(toServer[c])
    BY <2>1, SMT
  <2> QED
    BY <2>2 DEF Exit
<1>3. /\ Seen(c)' = Seen(c) /\ Executed(c, world)' = Executed(c, world)
      /\ StreamOK(c) /\ UpTo(c, Seen(c), lie[c])
  BY <1>1, StreamFacts DEF tick
<1>4. Ordered(toServer'[c]) /\ Sent(c)' \subseteq Sent(c)
  <2>1. toServer[c] \in Seq(Event) /\ Ordered(toServer[c])
    BY <1>3 DEF TInv, TypeOK, StreamOK
  <2>2. toServer'[c] = toServer[c] \/ toServer'[c] = SubSeq(toServer[c], 1, k)
    BY <1>2 DEF TInv, TypeOK
  <2> QED
    BY <2>1, <2>2, OrderedPart DEF Sent
<1>5. pc'[c] = "exit" /\ \A f \in 1 .. LastFrame : eventTrace'[c][f] = {}
  BY <1>1 DEF TInv, TypeOK
<1>6. \A e \in Seen(c)' \cup Sent(c)' : EventOK(c, e)'
  BY <1>3, <1>4, <1>5 DEF StreamOK, EventOK
<1>7. StreamOK(c)'
  BY <1>1, <1>3, <1>4, <1>5, <1>6 DEF StreamOK, Ordered, Earlier, OwnIn, tick
<1>8. UpTo(c, Seen(c), lie[c])'
  BY <1>1, <1>3, <1>5 DEF UpTo, tick
<1> QED
  BY <1>1, <1>2, <1>5, <1>7, <1>8, ClientStream DEF TInv, TypeOK

LEMMA NextStream == TInv /\ DrawInv /\ StreamInv /\ [Next]_vars => StreamInv'
<1> SUFFICES ASSUME TInv, DrawInv, StreamInv, [Next]_vars
             PROVE  StreamInv'
  OBVIOUS
<1>1. ASSUME UNCHANGED <<tick, toServer, pc, frame, eventTrace>>
      PROVE  StreamInv'
  BY <1>1, StreamKept DEF StreamInv, PhaseInv, tick
<1>2. ASSUME NEW c \in Client, Receive(c)
      PROVE  StreamInv'
  BY <1>1, <1>2 DEF Receive
<1>3. CASE UNCHANGED vars
  BY <1>1, <1>3 DEF vars, tick
<1> QED
  BY <1>2, <1>3, ServerStream, StartStream, PollStream, FinishStream, ExitStream DEF Next

-------------------------------------------------------------------------------
(* What a state says of itself *)

LEMMA MessageType ==
    ASSUME TInv, NEW c \in Client, NEW m \in ToSet(toClient[c]) \cup ToSet(memory[c])
    PROVE  m \in Message /\ m.lie \in 0 .. LastFrame
<1>1. ToSet(toClient[c]) \subseteq Message /\ ToSet(memory[c]) \subseteq Message
  BY ToSetIn DEF TInv, TypeOK, Message
<1> QED
  BY <1>1 DEF Message

\* A step that brings c no new state, and changes no bucket that a state it has
\* speaks of.
LEMMA MessageKept ==
    ASSUME MessageInv, NEW c \in Client,
           ToSet(toClient'[c]) \cup ToSet(memory'[c])
             \subseteq ToSet(toClient[c]) \cup ToSet(memory[c]),
           pc'[c] # "exit" => pc[c] # "exit" /\ \A n \in 0 .. LastFrame :
                                n <= frame[c] => n <= frame'[c],
           \A m \in ToSet(toClient[c]) \cup ToSet(memory[c]) :
             /\ m.lie \in 0 .. LastFrame
             /\ MessageOK(c, m) =>
                  \A f \in 1 .. LastFrame : f < m.lie =>
                    eventTrace'[c][f] \subseteq eventTrace[c][f]
    PROVE  \A m \in ToSet(toClient'[c]) \cup ToSet(memory'[c]) : MessageOK(c, m)'
<1> SUFFICES ASSUME NEW m \in ToSet(toClient[c]) \cup ToSet(memory[c])
             PROVE  MessageOK(c, m)'
  OBVIOUS
<1>1. MessageOK(c, m)
  BY DEF MessageInv
<1>2. UpTo(c, Executed(c, m.hist), m.lie)'
  BY <1>1 DEF MessageOK, UpTo, Executed, OwnIn
<1>3. pc'[c] # "exit" => m.lie <= frame'[c]
  BY <1>1 DEF MessageOK
<1> QED
  BY <1>2, <1>3 DEF MessageOK

\* A step that changes neither states nor buckets nor where a client stands.
LEMMA MessageSame ==
    ASSUME MessageInv, UNCHANGED <<toClient, memory, pc, frame, eventTrace>>
    PROVE  MessageInv'
<1>1. \A c \in Client : \A m : MessageOK(c, m)' = MessageOK(c, m)
  BY DEF MessageOK, UpTo, Executed, OwnIn
<1> QED
  BY <1>1 DEF MessageInv, ToSet

LEMMA SendMessage ==
    ASSUME TInv, StreamInv, MessageInv, SendState
    PROVE  MessageInv'
<1>0. PICK c \in Client : c = turn
  BY ConstantFacts, SMT DEF TInv, TypeOK, SendState
<1>1. PICK m \in Message : m = [hist |-> world, lie |-> lie[c]]
  BY DEF TInv, TypeOK, Message
<1>2. /\ toClient \in [Client -> Seq(Message)] /\ at = "send" /\ pc[c] # "exit"
      /\ toClient' = [toClient EXCEPT ![c] = Append(toClient[c], m)]
      /\ UNCHANGED <<memory, pc, frame, eventTrace>>
  BY <1>0, <1>1 DEF TInv, TypeOK, SendState, clients, Message
<1>3. MessageOK(c, m)
  <2>1. Executed(c, m.hist) = Seen(c) /\ m.lie = lie[c]
    BY <1>1, <1>2, SeenIsExecuted DEF StreamInv
  <2>2. UpTo(c, Seen(c), lie[c])
    BY DEF StreamInv
  <2>3. lie[c] <= frame[c]
    BY <1>2, StreamBound
  <2> QED
    BY <2>1, <2>2, <2>3 DEF MessageOK
<1>4. \A d \in Client : \A n : MessageOK(d, n)' = MessageOK(d, n)
  BY <1>2 DEF MessageOK, UpTo, Executed, OwnIn
<1>5. ASSUME NEW d \in Client
      PROVE  ToSet(toClient'[d]) \subseteq ToSet(toClient[d]) \cup (IF d = c THEN {m} ELSE {})
  <2>1. CASE d = c
    <3>1. toClient'[d] = Append(toClient[d], m) /\ toClient[d] \in Seq(Message)
      BY <1>2, <2>1
    <3> QED
      BY <2>1, <3>1, ToSetAppend
  <2>2. CASE d # c
    BY <1>2, <2>2
  <2> QED
    BY <2>1, <2>2
<1> QED
  BY <1>2, <1>3, <1>4, <1>5 DEF MessageInv, ToSet

\* The step of c, and the states of the others.
LEMMA ClientMessage ==
    ASSUME TInv, MessageInv, NEW c \in Client,
           toClient' = [toClient EXCEPT ![c] = toClient'[c]],
           memory' = [memory EXCEPT ![c] = memory'[c]],
           pc' = [pc EXCEPT ![c] = pc'[c]],
           frame' = [frame EXCEPT ![c] = frame'[c]],
           eventTrace' = [eventTrace EXCEPT ![c] = eventTrace'[c]],
           \A m \in ToSet(toClient'[c]) \cup ToSet(memory'[c]) : MessageOK(c, m)'
    PROVE  MessageInv'
<1>1. ASSUME NEW d \in Client, d # c
      PROVE  /\ toClient'[d] = toClient[d] /\ memory'[d] = memory[d]
             /\ pc'[d] = pc[d] /\ frame'[d] = frame[d] /\ eventTrace'[d] = eventTrace[d]
  BY <1>1 DEF TInv, TypeOK
<1>2. ASSUME NEW d \in Client, d # c,
             NEW m \in ToSet(toClient'[d]) \cup ToSet(memory'[d])
      PROVE  MessageOK(d, m)'
  <2>1. MessageOK(d, m)
    BY <1>1, <1>2 DEF MessageInv
  <2> QED
    BY <1>1, <1>2, <2>1 DEF MessageOK, UpTo, Executed, OwnIn
<1> QED
  BY <1>2 DEF MessageInv

LEMMA StartMessage ==
    ASSUME TInv, MessageInv, NEW c \in Client, Start(c)
    PROVE  MessageInv'
<1>1. /\ UNCHANGED <<toClient, memory, frame>>
      /\ pc[c] = "off" /\ pc' = [pc EXCEPT ![c] = "poll"]
      /\ eventTrace' = [eventTrace EXCEPT ![c][frame[c]] = {Summoned(c, Connect)}]
      /\ frame[c] = 1 /\ eventTrace[c] \in [1 .. LastFrame -> SUBSET Event]
  BY DEF Start, TInv, TypeOK, LoopInv
<1>2. eventTrace'[c] = [eventTrace[c] EXCEPT ![frame[c]] = {Summoned(c, Connect)}]
  BY <1>1 DEF TInv, TypeOK
<1>3. ASSUME NEW m \in ToSet(toClient[c]) \cup ToSet(memory[c]), MessageOK(c, m),
             NEW f \in 1 .. LastFrame, f < m.lie
      PROVE  eventTrace'[c][f] \subseteq eventTrace[c][f]
  <2>1. m.lie <= 1 /\ m.lie \in 0 .. LastFrame
    BY <1>1, <1>3, MessageType DEF MessageOK
  <2> QED
    BY <1>3, <2>1, SMT
<1>4. \A m \in ToSet(toClient'[c]) \cup ToSet(memory'[c]) : MessageOK(c, m)'
  BY <1>1, <1>3, MessageKept, MessageType
<1> QED
  BY ZenonT(60), <1>1, <1>4, ClientMessage DEF TInv, TypeOK

LEMMA PollMessage ==
    ASSUME TInv, MessageInv, NEW c \in Client, Poll(c)
    PROVE  MessageInv'
<1>1. /\ UNCHANGED <<toClient, memory, frame>>
      /\ pc[c] = "poll" /\ pc' = [pc EXCEPT ![c] = "receive"]
      /\ frame[c] \in Nat /\ eventTrace[c] \in [1 .. LastFrame -> SUBSET Event]
  BY SMTT(30) DEF Poll, TInv, TypeOK
<1>2. PICK new \in Seq(Event) :
         eventTrace' = [eventTrace EXCEPT ![c][frame[c]] = @ \cup ToSet(new)]
  BY PollFacts
<1>3. eventTrace'[c] =
        [eventTrace[c] EXCEPT ![frame[c]] = eventTrace[c][frame[c]] \cup ToSet(new)]
  BY <1>1, <1>2 DEF TInv, TypeOK
<1>4. ASSUME NEW m \in ToSet(toClient[c]) \cup ToSet(memory[c]), MessageOK(c, m),
             NEW f \in 1 .. LastFrame, f < m.lie
      PROVE  eventTrace'[c][f] \subseteq eventTrace[c][f]
  <2>1. m.lie <= frame[c] /\ m.lie \in 0 .. LastFrame
    BY <1>1, <1>4, MessageType DEF MessageOK
  <2>2. f # frame[c]
    BY <1>1, <1>4, <2>1, SMT
  <2> QED
    BY <1>1, <1>3, <2>2
<1>5. \A m \in ToSet(toClient'[c]) \cup ToSet(memory'[c]) : MessageOK(c, m)'
  BY <1>1, <1>4, MessageKept, MessageType
<1> QED
  BY ZenonT(60), <1>1, <1>2, <1>5, ClientMessage DEF TInv, TypeOK

LEMMA ReceiveMessage ==
    ASSUME TInv, MessageInv, NEW c \in Client, Receive(c)
    PROVE  MessageInv'
<1>1. /\ toClient[c] \in Seq(Message) /\ memory[c] \in Seq(Message) /\ toClient[c] # <<>>
      /\ toClient' = [toClient EXCEPT ![c] = Tail(toClient[c])]
      /\ memory' = [memory EXCEPT ![c] = Append(memory[c], Head(toClient[c]))]
      /\ UNCHANGED <<pc, frame, eventTrace>>
  BY DEF Receive, TInv, TypeOK, Message
<1>2. /\ toClient'[c] = Tail(toClient[c])
      /\ memory'[c] = Append(memory[c], Head(toClient[c]))
  BY <1>1 DEF TInv, TypeOK
<1>3. /\ Head(toClient[c]) \in Message
      /\ ToSet(toClient[c]) = ToSet(Tail(toClient[c])) \cup {Head(toClient[c])}
  BY <1>1, ToSetTail
<1>4. ToSet(Append(memory[c], Head(toClient[c]))) = ToSet(memory[c]) \cup {Head(toClient[c])}
  BY <1>1, <1>3, ToSetAppend
<1>5. ToSet(toClient'[c]) \cup ToSet(memory'[c])
        \subseteq ToSet(toClient[c]) \cup ToSet(memory[c])
  BY <1>2, <1>3, <1>4
<1>6. \A m \in ToSet(toClient'[c]) \cup ToSet(memory'[c]) : MessageOK(c, m)'
  BY <1>1, <1>5, MessageKept, MessageType
<1> QED
  BY ZenonT(60), <1>1, <1>6, ClientMessage DEF TInv, TypeOK

LEMMA FinishMessage ==
    ASSUME TInv, MessageInv, NEW c \in Client, Finish(c)
    PROVE  MessageInv'
<1>1. /\ UNCHANGED <<toClient, memory, eventTrace>>
      /\ pc[c] = "receive" /\ pc' = [pc EXCEPT ![c] = "poll"]
      /\ frame' = [frame EXCEPT ![c] = frame[c] + 1] /\ frame[c] \in Nat
  BY DEF Finish, TInv, TypeOK
<1>2. frame'[c] = frame[c] + 1
  BY <1>1 DEF TInv, TypeOK
<1>3. \A n \in 0 .. LastFrame : n <= frame[c] => n <= frame'[c]
  BY <1>1, <1>2, SMT
<1>4. \A m \in ToSet(toClient'[c]) \cup ToSet(memory'[c]) : MessageOK(c, m)'
  BY <1>1, <1>3, MessageKept, MessageType
<1> QED
  BY ZenonT(60), <1>1, <1>4, ClientMessage DEF TInv, TypeOK

LEMMA ExitMessage ==
    ASSUME TInv, MessageInv, NEW c \in Client, Exit(c)
    PROVE  MessageInv'
<1>1. /\ toClient' = [toClient EXCEPT ![c] = <<>>]
      /\ memory' = [memory EXCEPT ![c] = <<>>]
      /\ pc' = [pc EXCEPT ![c] = "exit"]
      /\ frame' = [frame EXCEPT ![c] = 1]
      /\ eventTrace' = [eventTrace EXCEPT ![c] = [f \in 1 .. LastFrame |-> {}]]
  BY DEF Exit
<1>2. toClient'[c] = <<>> /\ memory'[c] = <<>>
  BY <1>1 DEF TInv, TypeOK
<1>3. ToSet(toClient'[c]) \cup ToSet(memory'[c]) = {}
  <2>1. ToSet(<<>>) = {}
    BY SMT DEF ToSet
  <2> QED
    BY <1>2, <2>1
<1> QED
  BY <1>1, <1>3, ClientMessage DEF TInv, TypeOK

LEMMA NextMessage == TInv /\ StreamInv /\ MessageInv /\ [Next]_vars => MessageInv'
<1> SUFFICES ASSUME TInv, StreamInv, MessageInv, [Next]_vars
             PROVE  MessageInv'
  OBVIOUS
<1>1. CASE Server
  <2>1. ASSUME Accept \/ Collect \/ NextPlayer \/ Advance \/ SendGone \/ EndTick
        PROVE  UNCHANGED <<toClient, memory, pc, frame, eventTrace>>
    BY <2>1 DEF Accept, Collect, NextPlayer, Advance, SendGone, EndTick, clients
  <2> QED
    BY <1>1, <2>1, MessageSame, SendMessage DEF Server
<1>2. CASE UNCHANGED vars
  BY <1>2, MessageSame DEF vars
<1> QED
  BY <1>1, <1>2, StartMessage, PollMessage, ReceiveMessage, FinishMessage, ExitMessage
     DEF Next

-------------------------------------------------------------------------------

LEMMA EachOnceFromInv == StreamInv => EachOnce
<1> SUFFICES ASSUME StreamInv, NEW c \in Client
             PROVE  /\ \A j, k \in DOMAIN world : j < k =>
                         \A e \in OwnIn(c, world[j]), d \in OwnIn(c, world[k]) : Earlier(e, d)
                    /\ \A f \in 1 .. LastFrame :
                         eventTrace[c][f] \subseteq
                           Executed(c, world) \cup ToSet(evs) \cup ToSet(toServer[c])
  BY DEF EachOnce, Earlier
<1> QED
  BY DEF StreamInv, StreamOK, Seen, Sent, OwnIn

\* For any number of clients: the server executes the events of a client in the
\* order in which they were summoned, none but the connect event twice, and
\* forgets none, whatever the order of the steps (dr_server.c:78-105).
THEOREM EachOnceHolds == Spec => []EachOnce
  BY InitTInv, NextTInv, InitDraw, NextDraw, InitStream, NextStream,
     EachOnceFromInv, PTL DEF Spec

LEMMA LieExactFromInv == TInv /\ MessageInv => LieExact
<1> SUFFICES ASSUME TInv, MessageInv, NEW c \in Client,
                    NEW m \in ToSet(memory[c]) \cup ToSet(toClient[c])
             PROVE  /\ \A e \in Executed(c, m.hist) : e.summon <= m.lie
                    /\ m.lie > 0 => \E e \in Executed(c, m.hist) : e.summon = m.lie
                    /\ \A f \in 1 .. m.lie - 1 : eventTrace[c][f] \subseteq Executed(c, m.hist)
  BY DEF LieExact
<1>1. UpTo(c, Executed(c, m.hist), m.lie) /\ m.lie \in 0 .. LastFrame
  BY MessageType DEF MessageInv, MessageOK
<1>2. \A f \in 1 .. m.lie - 1 : f \in 1 .. LastFrame /\ f < m.lie
  BY <1>1, ConstantFacts, SMT
<1> QED
  BY <1>1, <1>2 DEF UpTo

\* For any number of clients and however late a state comes: its _lie is the frame
\* in which the last of the receiver's events in it was summoned, and all that the
\* receiver summoned before are in it (dr_server.c:83-95).
THEOREM LieExactHolds == Spec => []LieExact
  BY InitTInv, NextTInv, InitDraw, NextDraw, InitStream, NextStream, NextMessage,
     LieExactFromInv, PTL DEF Spec

================================================================================
