--------------------------- MODULE EventVectorsProofs ---------------------------
(***************************************************************************)
(* Proofs about the event vectors of a client, for any set of frames, any  *)
(* size of the table and of the vectors, and whatever malloc and realloc   *)
(* return.                                                                 *)
(***************************************************************************)
EXTENDS EventVectors, FiniteSetTheorems, SequenceTheorems, WellFoundedInduction, TLAPS

\* A set of numbers with an element has a least one.
LEMMA Least ==
    ASSUME NEW S \in SUBSET Nat, S # {}
    PROVE  \E m \in S : \A k \in S : m <= k
<1>1. PICK m \in S : \A k \in S : ~ (<<k, m>> \in OpToRel(<, Nat))
  BY NatLessThanWellFounded, WFMin
<1>2. \A k \in S : m <= k
  <2> TAKE k \in S
  <2>1. ~ (<<k, m>> \in {ss \in Nat \X Nat : ss[1] < ss[2]})
    BY <1>1 DEF OpToRel
  <2>2. ~ (k < m)
    BY <2>1
  <2> QED
    BY <2>2, SMT
<1> QED
  BY <1>2

-------------------------------------------------------------------------------
(* The growth of the table *)

\* There is a function that does what Grown's does at each step, built from the
\* largest size down.
LEMMA StepExists ==
    ASSUME NEW n \in Nat \ {0, 1}, NEW i \in Nat
    PROVE  \E s : s = [m \in n .. 2 * (n + i) |->
                         IF i >= m THEN s[m + m \div 2] ELSE m]
<1> DEFINE K == 2 * (n + i)
           dom == n .. K
           F(s, m) == IF i >= m THEN s[m + m \div 2] ELSE m
           Till(d) == \E s \in [dom -> Nat] : \A m \in dom : m > K - d => s[m] = F(s, m)
           bad == {d \in Nat : ~ Till(d)}
<1>1. /\ K \in Nat /\ dom \subseteq Nat
      /\ \A m \in dom : i >= m => m + m \div 2 \in dom /\ m + m \div 2 > m
  BY SMT
<1>2. Till(0)
  <2>1. [m \in dom |-> 0] \in [dom -> Nat] /\ \A m \in dom : ~ (m > K - 0)
    BY <1>1, SMT
  <2> QED
    BY <2>1
<1>3. ASSUME NEW d \in Nat, Till(d)
      PROVE  Till(d + 1)
  <2>1. PICK s \in [dom -> Nat] : \A m \in dom : m > K - d => s[m] = F(s, m)
    BY <1>3
  <2> DEFINE p == K - d
             t == [m \in dom |-> IF m = p THEN F(s, m) ELSE s[m]]
  <2>2. \A m \in dom : F(s, m) \in Nat
    BY <1>1, <2>1
  <2>3. t \in [dom -> Nat]
    BY <2>1, <2>2
  <2>4. ASSUME NEW m \in dom, m > K - (d + 1)
        PROVE  t[m] = F(t, m)
    <3>1. m >= p
      BY <1>1, <2>4, SMT
    <3>2. t[m] = F(s, m)
      <4>1. CASE m = p
        BY <4>1
      <4>2. CASE m # p
        <5>1. m > K - d
          BY <1>1, <3>1, <4>2, SMT
        <5> QED
          BY <2>1, <4>2, <5>1
      <4> QED
        BY <4>1, <4>2
    <3>3. F(t, m) = F(s, m)
      <4>1. CASE i >= m
        <5>1. m + m \div 2 \in dom /\ m + m \div 2 # p
          BY <1>1, <3>1, <4>1, SMT
        <5> QED
          BY <4>1, <5>1
      <4>2. CASE ~ (i >= m)
        BY <4>2
      <4> QED
        BY <4>1, <4>2
    <3> QED
      BY <3>2, <3>3
  <2> QED
    BY <2>3, <2>4
<1> HIDE DEF Till
<1>4. bad = {}
  <2> SUFFICES ASSUME bad # {} PROVE FALSE
    OBVIOUS
  <2>1. PICK d \in bad : \A k \in bad : d <= k
    <3>1. bad \in SUBSET Nat
      OBVIOUS
    <3> HIDE DEF bad
    <3> QED
      BY <3>1, Least
  <2>2. d # 0
    BY <1>2
  <2>3. d - 1 \in Nat /\ ~ (d <= d - 1) /\ (d - 1) + 1 = d
    BY <2>2, SMT
  <2>4. Till(d - 1)
    BY <2>1, <2>3
  <2> QED
    BY <1>3, <2>3, <2>4
<1>5. Till(K + 1)
  BY <1>1, <1>4
<1>6. PICK s \in [dom -> Nat] : \A m \in dom : m > K - (K + 1) => s[m] = F(s, m)
  BY <1>5 DEF Till
<1>7. \A m \in dom : s[m] = F(s, m)
  <2>1. \A m \in dom : m > K - (K + 1)
    BY <1>1, SMT
  <2> QED
    BY <1>6, <2>1
<1>8. s = [m \in dom |-> F(s, m)]
  BY <1>6, <1>7
<1> QED
  BY <1>8

\* The table grows until it has the cell, and never shrinks.
LEMMA GrownIs ==
    ASSUME NEW n \in Nat \ {0, 1}, NEW i \in Nat
    PROVE  Grown(n, i) \in Nat /\ Grown(n, i) >= n /\ Grown(n, i) > i
<1> DEFINE K == 2 * (n + i)
           dom == n .. K
<1>1. \E s : /\ s = [m \in dom |-> IF i >= m THEN s[m + m \div 2] ELSE m]
             /\ Grown(n, i) = s[n]
  BY StepExists DEF Grown
<1>2. PICK s : /\ s = [m \in dom |-> IF i >= m THEN s[m + m \div 2] ELSE m]
               /\ Grown(n, i) = s[n]
  BY <1>1
<1> DEFINE Good(m) == s[m] \in Nat /\ s[m] >= m /\ s[m] > i
           bad == {d \in Nat : K - d \in dom /\ ~ Good(K - d)}
<1>3. /\ K \in Nat /\ dom \subseteq Nat /\ n \in dom
      /\ \A m \in dom : i >= m => m + m \div 2 \in dom /\ m + m \div 2 > m
      /\ \A m \in dom : K - m \in Nat /\ K - (K - m) = m
  BY SMT
<1>4. \A m \in dom : s[m] = IF i >= m THEN s[m + m \div 2] ELSE m
  BY <1>2
<1>5. bad = {}
  <2> SUFFICES ASSUME bad # {} PROVE FALSE
    OBVIOUS
  <2>1. PICK d \in bad : \A k \in bad : d <= k
    <3>1. bad \in SUBSET Nat
      OBVIOUS
    <3> HIDE DEF bad
    <3> QED
      BY <3>1, Least
  <2> DEFINE m == K - d
  <2>2. m \in dom /\ ~ Good(m) /\ m \in Nat
    BY <1>3, <2>1
  <2>3. CASE i >= m
    <3> DEFINE l == m + m \div 2
    <3>1. l \in dom /\ l > m /\ l \in Nat /\ K - l \in Nat /\ K - (K - l) = l
      BY <1>3, <2>2, <2>3
    <3>2. ~ (d <= K - l)
      BY <1>3, <2>2, <3>1, SMT
    <3>3. Good(l)
      <4> HIDE DEF Good, l, m
      <4> QED
        BY <2>1, <3>1, <3>2
    <3>4. s[m] = s[l]
      BY <1>4, <2>2, <2>3
    <3> HIDE DEF l, m
    <3>5. Good(m)
      BY <2>2, <3>1, <3>3, <3>4, SMT
    <3> QED
      BY <2>2, <3>5
  <2>4. CASE ~ (i >= m)
    <3>1. s[m] = m
      BY <1>4, <2>2, <2>4
    <3> HIDE DEF m
    <3> QED
      BY <2>2, <2>4, <3>1, SMT
  <2> QED
    BY <2>3, <2>4
<1>6. Good(n)
  <2> HIDE DEF Good
  <2> QED
    BY <1>3, <1>5
<1> QED
  BY <1>2, <1>6

-------------------------------------------------------------------------------
(* The type invariant *)

\* The vector in hand is at an address, every vector has at least the room it began
\* with, and the table can grow.
MemoryInv ==
    /\ current # 0 => evVec \in Address
    /\ \A a \in Address : Live(a) => heap[a].count >= Initial
    /\ Size \in Nat \ {0, 1}

LEMMA Constants == /\ Frames \subseteq Nat /\ 0 \notin Address
                   /\ TraceSize \in Nat \ {0, 1} /\ Initial \in Nat /\ Initial >= 2
                   /\ MaxEvents \in Nat
<1>1. \A a \in Address : a # 0
  BY SMT DEF Address
<1> QED
  BY <1>1, EventVectorConstants, SMT

\* The size is how many indices there are from 0 on.
LEMMA SizeOf ==
    ASSUME NEW n \in Nat, NEW t, DOMAIN t = 0 .. n - 1
    PROVE  Cardinality(DOMAIN t) = n
<1>1. Cardinality(0 .. n - 1) = IF 0 > n - 1 THEN 0 ELSE (n - 1) - 0 + 1
  BY FS_Interval
<1>2. (IF 0 > n - 1 THEN 0 ELSE (n - 1) - 0 + 1) = n
  BY SMT
<1> QED
  BY <1>1, <1>2

\* What a cell holds is an address or 0.
LEMMA GotIs ==
    ASSUME TypeOK, MemoryInv, NEW f \in Frames
    PROVE  Got(f) \in Address \cup {0}
<1>1. CASE f < Size
  <2>1. f \in DOMAIN table
    BY <1>1, Constants, SMT DEF TypeOK, MemoryInv
  <2> QED
    BY <1>1, <2>1 DEF TypeOK, Got
<1>2. CASE ~ (f < Size)
  BY <1>2 DEF Got
<1> QED
  BY <1>1, <1>2

\* vec_set changes the one cell, whether the table had it or not.
LEMMA SetCell ==
    ASSUME TypeOK, MemoryInv, NEW f \in Frames, NEW a \in Address, table' = TableSet(f, a)
    PROVE  /\ Size' \in Nat \ {0, 1}
           /\ DOMAIN table' = 0 .. Size' - 1
           /\ table' \in [DOMAIN table' -> Address \cup {0}]
           /\ \A g \in Frames : Got(g)' = IF g = f THEN a ELSE Got(g)
<1> DEFINE n == Grown(Size, f)
<1>1. Size \in Nat \ {0, 1} /\ n \in Nat /\ n >= Size /\ n > f
  BY GrownIs, Constants DEF MemoryInv
<1>2. table' = [i \in 0 .. n - 1 |-> IF i = f THEN a ELSE IF i < Size THEN table[i] ELSE 0]
  BY DEF TableSet
<1>3. \A i \in 0 .. n - 1 : i < Size => table[i] \in Address \cup {0}
  <2>1. \A i \in 0 .. n - 1 : i < Size => i \in 0 .. Size - 1
    BY <1>1, SMT
  <2> QED
    BY <2>1 DEF TypeOK
<1> HIDE DEF n
<1>4. DOMAIN table' = 0 .. n - 1 /\ table' \in [0 .. n - 1 -> Address \cup {0}]
  BY <1>2, <1>3
<1>5. Size' = n
  <2>1. Cardinality(DOMAIN table') = n
    BY <1>1, <1>4, SizeOf
  <2> QED
    BY <2>1 DEF Size
<1>6. ASSUME NEW g \in Frames
      PROVE  Got(g)' = IF g = f THEN a ELSE Got(g)
  <2>1. Got(g)' = IF g < n THEN table'[g] ELSE 0
    BY <1>5 DEF Got
  <2>2. CASE g < n
    <3>1. g \in 0 .. n - 1
      BY <1>1, <2>2, Constants, SMT
    <3> QED
      BY <1>2, <2>1, <2>2, <3>1 DEF Got
  <2>3. CASE ~ (g < n)
    <3>1. g # f /\ ~ (g < Size)
      BY <1>1, <2>3, Constants, SMT
    <3> QED
      BY <2>1, <2>3, <3>1 DEF Got
  <2> QED
    BY <2>2, <2>3
<1>7. Size' \in Nat \ {0, 1}
  BY <1>1, <1>5, SMT
<1> QED
  BY <1>4, <1>5, <1>6, <1>7

\* A vector that a push has written to: it has the event at its end, and room for it.
Written(v, w) ==
    /\ w \in Vector /\ Len(w.evs) <= w.count /\ w.count >= Initial
    /\ w # Free
    /\ w.evs = Append(v.evs, NewEvent)

\* A vector with room is written to as it is, a full one when it has been enlarged.
LEMMA Writes ==
    ASSUME TypeOK, MemoryInv, NewEvent \in Event, NEW a \in Address, Live(a)
    PROVE  /\ ~ Full(heap[a]) => Written(heap[a], Put(heap[a]))
           /\ Full(heap[a]) => Written(heap[a], Put(Larger(heap[a])))
<1> DEFINE v == heap[a]
           s == Append(v.evs, NewEvent)
<1>1. /\ v \in Vector /\ v.count \in Nat /\ v.evs \in Seq(Event)
      /\ Len(v.evs) <= v.count /\ v.count >= Initial
  BY DEF TypeOK, MemoryInv, Vector
<1>2. s \in Seq(Event) /\ Len(s) = Len(v.evs) + 1 /\ Len(v.evs) \in Nat
  BY <1>1
<1>3. Put(v) = [count |-> v.count, evs |-> s]
  <2> HIDE DEF v
  <2>1. v = [count |-> v.count, evs |-> v.evs]
    BY <1>1 DEF Vector
  <2>2. Put(v) = [v EXCEPT !.evs = s]
    BY DEF Put
  <2> HIDE DEF s
  <2> QED
    BY <2>1, <2>2
<1>4. Put(Larger(v)) = [count |-> v.count + v.count \div 2, evs |-> s]
  <2>1. Larger(v) = [count |-> v.count + v.count \div 2, evs |-> v.evs]
    <3> HIDE DEF v
    <3> QED
      BY <1>1 DEF Larger, Vector
  <2> DEFINE w == Larger(v)
             n == v.count + v.count \div 2
  <2>2. Put(w) = [w EXCEPT !.evs = Append(w.evs, NewEvent)]
    BY DEF Put
  <2>3. w.evs = v.evs
    BY <2>1
  <2> HIDE DEF v, w, n
  <2>4. w = [count |-> n, evs |-> v.evs]
    BY <2>1 DEF w, n
  <2>5. Put(w) = [w EXCEPT !.evs = s]
    BY <2>2, <2>3
  <2> HIDE DEF s
  <2> QED
    BY <2>4, <2>5 DEF w, n
<1>5. ASSUME NEW c \in Nat, c >= Initial, Len(s) <= c
      PROVE  Written(v, [count |-> c, evs |-> s])
  <2>1. [count |-> c, evs |-> s] \in Vector
    BY <1>2 DEF Vector
  <2>2. c # 0
    BY <1>5, Constants, SMT
  <2>3. [count |-> c, evs |-> s] # Free
    BY <2>2 DEF Free
  <2> QED
    BY <1>5, <2>1, <2>3 DEF Written
<1> HIDE DEF s
<1>6. ~ Full(v) => Len(s) <= v.count
  BY <1>1, <1>2, SMT DEF Full
<1>7. /\ v.count + v.count \div 2 \in Nat /\ v.count + v.count \div 2 >= Initial
      /\ Full(v) => Len(s) <= v.count + v.count \div 2
  BY <1>1, <1>2, Constants, SMTT(30) DEF Full
<1> QED
  BY <1>1, <1>3, <1>4, <1>5, <1>6, <1>7

\* What a step needs of the state for its vectors: the event is one, and the vector
\* in hand has an address.
LEMMA PushIs ==
    ASSUME TypeOK, MemoryInv, current # 0, Len(pushed[current]) < MaxEvents
    PROVE  /\ current \in Frames /\ evVec \in Address
           /\ NewEvent \in Event
           /\ pushed[current] \in Seq(Event)
<1>1. current \in Frames /\ evVec \in Address /\ pushed[current] \in Seq(Event)
  BY DEF TypeOK, MemoryInv
<1>2. Len(pushed[current]) + 1 \in 1 .. MaxEvents
  BY <1>1, Constants, LenProperties, SMT
<1> QED
  BY <1>1, <1>2 DEF NewEvent, Event

\* Init puts no vector anywhere.
LEMMA InitType == Init => TypeOK /\ MemoryInv
<1> SUFFICES ASSUME Init PROVE TypeOK /\ MemoryInv
  OBVIOUS
<1>1. Size = TraceSize
  BY Constants, SizeOf DEF Init, Size
<1>2. Free \in Vector /\ Len(Free.evs) <= Free.count
  BY SMT DEF Free, Vector
<1>3. \A a \in Address : heap[a] = Free
  BY DEF Init
<1>4. heap \in [Address -> Vector]
  BY <1>2 DEF Init
<1>5. pushed \in [Frames -> Seq(Event)]
  BY DEF Init
<1>6. DOMAIN table = 0 .. Size - 1 /\ table \in [DOMAIN table -> Address \cup {0}]
  BY <1>1 DEF Init
<1>7. evVec = 0 /\ current = 0 /\ {moved, defined} \subseteq BOOLEAN
  BY DEF Init
<1> QED
  BY <1>1, <1>2, <1>3, <1>4, <1>5, <1>6, <1>7, Constants DEF TypeOK, MemoryInv, Live

\* A frame's vector is found or created.
LEMMA OpenType ==
    ASSUME TypeOK, MemoryInv, NEW f \in Frames, Open(f)
    PROVE  TypeOK' /\ MemoryInv'
<1>1. /\ current' = f /\ pushed' = pushed /\ moved' = moved /\ defined' = defined
  BY DEF Open
<1>2. CASE /\ Got(f) # 0
           /\ evVec' = Got(f)
           /\ UNCHANGED <<heap, table>>
  <2>1. evVec' \in Address /\ Size' = Size
    BY <1>2, GotIs DEF Size
  <2> QED
    BY <1>1, <1>2, <2>1 DEF TypeOK, MemoryInv, Live
<1>3. CASE /\ Got(f) = 0
           /\ \E a \in Available :
                /\ heap' = [heap EXCEPT ![a] = [count |-> Initial, evs |-> <<>>]]
                /\ table' = TableSet(f, a)
                /\ evVec' = a
  <2>1. PICK a \in Available :
                /\ heap' = [heap EXCEPT ![a] = [count |-> Initial, evs |-> <<>>]]
                /\ table' = TableSet(f, a)
                /\ evVec' = a
    BY <1>3
  <2> DEFINE v == [count |-> Initial, evs |-> <<>>]
  <2>2. /\ a \in Address /\ v \in Vector /\ Len(v.evs) <= v.count /\ v.count >= Initial
    BY Constants, SMT DEF Available, Vector
  <2>3. /\ Size' \in Nat \ {0, 1}
        /\ DOMAIN table' = 0 .. Size' - 1
        /\ table' \in [DOMAIN table' -> Address \cup {0}]
    BY <2>1, <2>2, SetCell
  <2>4. \A b \in Address : heap'[b] = IF b = a THEN v ELSE heap[b]
    BY <2>1 DEF TypeOK
  <2>5. heap' \in [Address -> Vector]
    BY <2>1, <2>2 DEF TypeOK
  <2> HIDE DEF v
  <2> QED
    BY <1>1, <2>1, <2>2, <2>3, <2>4, <2>5 DEF TypeOK, MemoryInv, Live
<1> QED
  BY <1>2, <1>3 DEF Open

\* A push writes where the vector is, or where realloc has moved it.
LEMMA PushType ==
    ASSUME TypeOK, MemoryInv, Push
    PROVE  TypeOK' /\ MemoryInv'
<1> DEFINE e == evVec
           v == heap[e]
<1>1. /\ current \in Frames /\ e \in Address /\ NewEvent \in Event
      /\ pushed[current] \in Seq(Event) /\ Live(e)
  BY PushIs DEF Push
<1>2. /\ ~ Full(v) => Written(v, Put(v))
      /\ Full(v) => Written(v, Put(Larger(v)))
  BY <1>1, Writes
<1>3. pushed' \in [Frames -> Seq(Event)]
  <2>1. Append(pushed[current], NewEvent) \in Seq(Event)
    BY <1>1
  <2>2. pushed' = [pushed EXCEPT ![current] = Append(pushed[current], NewEvent)]
    BY DEF Push
  <2> QED
    BY <2>1, <2>2 DEF TypeOK
<1>4. table' = table /\ current' = current /\ defined' = defined /\ Size' = Size
  BY DEF Push, Size
<1>5. CASE /\ heap' = [heap EXCEPT ![e] = Put(IF Full(v) THEN Larger(v) ELSE v)]
           /\ UNCHANGED <<evVec, moved>>
  <2> DEFINE w == Put(IF Full(v) THEN Larger(v) ELSE v)
  <2>1. Written(v, w)
    BY <1>2
  <2> HIDE DEF w
  <2>2. heap' = [heap EXCEPT ![e] = w]
    BY <1>5 DEF w
  <2>3. \A b \in Address : heap'[b] = IF b = e THEN w ELSE heap[b]
    BY <2>2 DEF TypeOK
  <2>4. heap' \in [Address -> Vector]
    BY <2>1, <2>2 DEF TypeOK, Written
  <2> QED
    BY SMTT(30), <1>1, <1>3, <1>4, <1>5, <2>1, <2>3, <2>4 DEF TypeOK, MemoryInv, Live, Written
<1>6. CASE /\ Full(v)
           /\ \E a \in Available :
                /\ heap' = [heap EXCEPT ![a] = Put(Larger(v)), ![e] = Free]
                /\ evVec' = a
           /\ moved' = TRUE
  <2>1. PICK a \in Available :
                /\ heap' = [heap EXCEPT ![a] = Put(Larger(v)), ![e] = Free]
                /\ evVec' = a
    BY <1>6
  <2> DEFINE w == Put(Larger(v))
  <2>2. Written(v, w)
    BY <1>2, <1>6
  <2> HIDE DEF w
  <2>3. heap' = [heap EXCEPT ![a] = w, ![e] = Free] /\ evVec' = a /\ a \in Address
    BY <2>1 DEF w, Available
  <2>4. Free \in Vector /\ Len(Free.evs) <= Free.count
    BY SMT DEF Free, Vector
  <2>5. \A b \in Address : heap'[b] = IF b = e THEN Free ELSE IF b = a THEN w ELSE heap[b]
    BY <1>1, <2>3 DEF TypeOK
  <2>6. heap' \in [Address -> Vector]
    BY <2>2, <2>3, <2>4 DEF TypeOK, Written
  <2> QED
    BY <1>1, <1>3, <1>4, <1>6, <2>2, <2>3, <2>4, <2>5, <2>6
    DEF TypeOK, MemoryInv, Live, Written
<1> QED
  BY <1>5, <1>6 DEF Push

LEMMA FreedType ==
    ASSUME TypeOK, MemoryInv, PushFreed
    PROVE  TypeOK' /\ MemoryInv'
  BY DEF PushFreed, TypeOK, MemoryInv, Live, Size

LEMMA NextType == TypeOK /\ MemoryInv /\ [Next]_vars => TypeOK' /\ MemoryInv'
<1> SUFFICES ASSUME TypeOK, MemoryInv, [Next]_vars PROVE TypeOK' /\ MemoryInv'
  OBVIOUS
<1>1. CASE UNCHANGED vars
  BY <1>1 DEF vars, TypeOK, MemoryInv, Live, Size
<1> QED
  BY <1>1, OpenType, PushType, FreedType DEF Next

\* Every variable keeps its type, the table its indices, and no vector is ever
\* written beyond its room.
THEOREM TypeCorrect == Spec => []TypeOK
  BY InitType, NextType, PTL DEF Spec

-------------------------------------------------------------------------------
(* What a frame is executed with *)

\* Every vector in the table is in use, no two frames have the same one, the one in
\* hand is the current frame's, and each has its frame's events.
Sound ==
    /\ defined
    /\ \A f \in Frames : Got(f) # 0 => Live(Got(f))
    /\ \A f, g \in Frames : Got(f) # 0 /\ Got(f) = Got(g) => f = g
    /\ current # 0 => evVec = Got(current)
    /\ \A f \in Frames : Bucket(f) = pushed[f]

\* That ends with the first move, for which a frame must have had more events than
\* a vector has room for at first.
SoundInv ==
    IF moved THEN \E f \in Frames : Len(pushed[f]) > Initial ELSE Sound

LEMMA InitSound == Init => SoundInv
<1> SUFFICES ASSUME Init PROVE SoundInv
  OBVIOUS
<1>1. Size = TraceSize
  BY Constants, SizeOf DEF Init, Size
<1>2. \A f \in Frames : Got(f) = 0
  <2> TAKE f \in Frames
  <2>1. f < Size => f \in 0 .. TraceSize - 1
    BY <1>1, Constants, SMT
  <2> QED
    BY <2>1 DEF Init, Got
<1> QED
  BY <1>2 DEF Init, SoundInv, Sound, Bucket

LEMMA OpenSound ==
    ASSUME TypeOK, MemoryInv, SoundInv, NEW f \in Frames, Open(f)
    PROVE  SoundInv'
<1>1. current' = f /\ pushed' = pushed /\ moved' = moved /\ defined' = defined
  BY DEF Open
<1>2. CASE moved
  BY <1>1, <1>2 DEF SoundInv
<1>3. CASE ~ moved
  <2>1. Sound
    BY <1>3 DEF SoundInv
  <2>2. CASE /\ Got(f) # 0
             /\ evVec' = Got(f)
             /\ UNCHANGED <<heap, table>>
    <3>1. /\ \A g \in Frames : Got(g)' = Got(g) /\ Bucket(g)' = Bucket(g)
          /\ \A a : Live(a)' <=> Live(a)
      BY <2>2 DEF Got, Size, Bucket, Live
    <3>2. Sound'
      BY <1>1, <2>1, <2>2, <3>1 DEF Sound, Live
    <3> QED
      BY <1>1, <1>3, <3>2 DEF SoundInv
  <2>3. CASE /\ Got(f) = 0
             /\ \E a \in Available :
                  /\ heap' = [heap EXCEPT ![a] = [count |-> Initial, evs |-> <<>>]]
                  /\ table' = TableSet(f, a)
                  /\ evVec' = a
    <3>1. PICK a \in Available :
                  /\ heap' = [heap EXCEPT ![a] = [count |-> Initial, evs |-> <<>>]]
                  /\ table' = TableSet(f, a)
                  /\ evVec' = a
      BY <2>3
    <3>2. a \in Address /\ a # 0 /\ ~ Live(a)
      BY Constants DEF Available
    <3>3. \A g \in Frames : Got(g)' = IF g = f THEN a ELSE Got(g)
      BY <3>1, <3>2, SetCell
    <3>4. \A b \in Address : heap'[b] = IF b = a THEN [count |-> Initial, evs |-> <<>>] ELSE heap[b]
      BY <3>1 DEF TypeOK
    <3>5. [count |-> Initial, evs |-> <<>>] # Free
      <4>1. Initial # 0
        BY Constants, SMT
      <4> QED
        BY <4>1 DEF Free
    <3>6. \A g \in Frames : Got(g) \in Address \cup {0}
      BY GotIs
    <3>7. \A g \in Frames : Got(g) # a
      BY <2>1, <3>2 DEF Sound
    <3>8. \A g \in Frames : Got(g)' # 0 => heap'[Got(g)'] # Free
      BY <2>1, <3>2, <3>3, <3>4, <3>5, <3>6 DEF Sound, Live
    <3>9. \A g \in Frames : Bucket(g)' = pushed'[g]
      <4> TAKE g \in Frames
      <4>1. Bucket(g)' = IF Got(g)' = 0 THEN <<>> ELSE heap'[Got(g)'].evs
        BY DEF Bucket
      <4>2. CASE g = f
        <5>1. Bucket(g)' = <<>>
          BY <3>2, <3>3, <3>4, <4>1, <4>2
        <5>2. pushed[g] = <<>>
          BY <2>1, <2>3, <4>2 DEF Sound, Bucket
        <5> QED
          BY <1>1, <5>1, <5>2
      <4>3. CASE g # f
        <5>1. Bucket(g)' = Bucket(g)
          BY <3>3, <3>4, <3>6, <3>7, <4>1, <4>3 DEF Bucket
        <5> QED
          BY <1>1, <2>1, <5>1 DEF Sound
      <4> QED
        BY <4>2, <4>3
    <3>10. \A g, h \in Frames : Got(g)' # 0 /\ Got(g)' = Got(h)' => g = h
      BY <2>1, <3>3, <3>7 DEF Sound
    <3>11. Sound'
      BY <1>1, <2>1, <3>1, <3>3, <3>8, <3>9, <3>10 DEF Sound, Live
    <3> QED
      BY <1>1, <1>3, <3>11 DEF SoundInv
  <2> QED
    BY <2>2, <2>3 DEF Open
<1> QED
  BY <1>2, <1>3

LEMMA PushSound ==
    ASSUME TypeOK, MemoryInv, SoundInv, Push
    PROVE  SoundInv'
<1> DEFINE c == current
           e == evVec
           v == heap[e]
           p == Append(pushed[c], NewEvent)
<1>1. /\ c \in Frames /\ e \in Address /\ NewEvent \in Event /\ e # 0
      /\ pushed[c] \in Seq(Event) /\ Live(e) /\ c # 0
  BY PushIs, Constants DEF Push
<1>2. /\ table' = table /\ current' = c /\ defined' = defined
      /\ \A g \in Frames : Got(g)' = Got(g)
      /\ pushed' = [pushed EXCEPT ![c] = p]
  BY DEF Push, Size, Got
<1>3. \A g \in Frames : pushed'[g] = IF g = c THEN p ELSE pushed[g]
  BY <1>2 DEF TypeOK
<1>4. Len(p) = Len(pushed[c]) + 1 /\ Len(pushed[c]) \in Nat
  BY <1>1
<1> HIDE DEF p
<1>5. CASE moved
  <2>1. PICK f \in Frames : Len(pushed[f]) > Initial
    BY <1>5 DEF SoundInv
  <2>2. Len(pushed'[f]) > Initial
    BY <1>3, <1>4, <2>1, Constants, SMT
  <2>3. moved'
    BY <1>5 DEF Push
  <2> QED
    BY <2>2, <2>3 DEF SoundInv
<1>6. CASE ~ moved
  <2>1. Sound /\ e = Got(c) /\ v.evs = pushed[c]
    BY <1>1, <1>6 DEF SoundInv, Sound, Bucket
  <2>2. CASE /\ heap' = [heap EXCEPT ![e] = Put(IF Full(v) THEN Larger(v) ELSE v)]
             /\ UNCHANGED <<evVec, moved>>
    <3> DEFINE w == Put(IF Full(v) THEN Larger(v) ELSE v)
    <3>1. Written(v, w)
      BY <1>1, Writes
    <3> HIDE DEF w
    <3>2. \A b \in Address : heap'[b] = IF b = e THEN w ELSE heap[b]
      BY <2>2 DEF w, TypeOK
    <3>3. w.evs = p /\ w # Free
      BY <2>1, <3>1 DEF Written, p
    <3>4. \A g \in Frames : Got(g) \in Address \cup {0}
      BY GotIs
    <3>5. \A g \in Frames : Got(g)' # 0 => heap'[Got(g)'] # Free
      BY <1>2, <2>1, <3>2, <3>3, <3>4 DEF Sound, Live
    <3>6. \A g \in Frames : Bucket(g)' = pushed'[g]
      <4> TAKE g \in Frames
      <4>1. Bucket(g)' = IF Got(g) = 0 THEN <<>> ELSE heap'[Got(g)].evs
        BY <1>2 DEF Bucket
      <4>2. CASE g = c
        BY <1>1, <1>3, <2>1, <3>2, <3>3, <4>1, <4>2
      <4>3. CASE g # c
        <5>1. Got(g) # 0 => Got(g) # e
          BY <1>1, <2>1, <4>3 DEF Sound
        <5>2. Bucket(g)' = Bucket(g)
          BY <3>2, <3>4, <4>1, <5>1 DEF Bucket
        <5> QED
          BY <1>3, <2>1, <4>3, <5>2 DEF Sound
      <4> QED
        BY <4>2, <4>3
    <3>7. \A f, g \in Frames : Got(f)' # 0 /\ Got(f)' = Got(g)' => f = g
      BY <1>2, <2>1 DEF Sound
    <3>8. evVec' = Got(current)'
      BY <1>2, <2>1, <2>2 DEF Got, Size
    <3>9. Sound'
      BY <1>2, <2>1, <3>5, <3>6, <3>7, <3>8 DEF Sound, Live
    <3> QED
      BY <1>6, <2>2, <3>9 DEF SoundInv
  <2>3. CASE Full(v) /\ moved' = TRUE
    <3>1. Len(pushed[c]) = v.count /\ v.count >= Initial
      BY <1>1, <2>1, <2>3 DEF Full, MemoryInv
    <3>2. Len(pushed'[c]) > Initial
      BY <1>1, <1>3, <1>4, <3>1, Constants, SMT
    <3> QED
      BY <1>1, <2>3, <3>2 DEF SoundInv
  <2> QED
    BY <2>2, <2>3 DEF Push
<1> QED
  BY <1>5, <1>6

\* As long as the memory is sound freed memory is not written to.
LEMMA FreedSound ==
    ASSUME TypeOK, MemoryInv, SoundInv, PushFreed
    PROVE  SoundInv'
<1>1. current # 0 /\ current \in Frames /\ evVec \in Address /\ evVec # 0 /\ ~ Live(evVec)
  BY Constants DEF PushFreed, TypeOK, MemoryInv
<1>2. moved
  BY <1>1 DEF SoundInv, Sound
<1> QED
  BY <1>2 DEF PushFreed, SoundInv

LEMMA NextSound == TypeOK /\ MemoryInv /\ SoundInv /\ [Next]_vars => SoundInv'
<1> SUFFICES ASSUME TypeOK, MemoryInv, SoundInv, [Next]_vars PROVE SoundInv'
  OBVIOUS
<1>1. CASE UNCHANGED vars
  BY <1>1 DEF vars, SoundInv, Sound, Live, Got, Size, Bucket
<1> QED
  BY <1>1, OpenSound, PushSound, FreedSound DEF Next

\* Each frame is executed with exactly its own events, in their order, until a vector
\* moves, and as long as no frame has had more events than a vector's first room:
\* for every table, every order of opening and pushing and every choice of addresses.
THEOREM KeptWhileSmallHolds == Spec => []KeptWhileSmall
<1>1. TypeOK /\ SoundInv => KeptWhileSmall
  <2> SUFFICES ASSUME TypeOK, SoundInv PROVE KeptWhileSmall
    OBVIOUS
  <2>1. \A f \in Frames : Len(pushed[f]) \in Nat
    BY LenProperties DEF TypeOK
  <2>2. ~ (moved /\ \A f \in Frames : Len(pushed[f]) <= Initial)
    BY <2>1, Constants, SMT DEF SoundInv
  <2>3. Sound => KeptWhileSmall
    BY DEF Sound, KeptWhileSmall
  <2> QED
    BY <2>2, <2>3 DEF SoundInv, KeptWhileSmall
<1> QED
  BY <1>1, InitType, NextType, InitSound, NextSound, PTL DEF Spec

================================================================================
