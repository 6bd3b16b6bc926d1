----------------------------- MODULE EventVectors -----------------------------
(***************************************************************************)
(* The memory of a client of the peer-to-peer protocols: the table of its  *)
(* frames' event vectors (src/src/vec.c), and the vectors (ev_vec_t in     *)
(* src/src/game_timewarp.c).  A cell of the table is the address of a      *)
(* vector, or 0.                                                           *)
(*                                                                         *)
(* The loop gets a frame's vector into the local variable ev_vec, or       *)
(* creates it, and pushes events to it.  A push to a full vector           *)
(* reallocates it; when that moves it the new address goes into the local  *)
(* variable only, and the cell of the table is left with the address of    *)
(* freed memory, which the next vector may be given.                       *)
(***************************************************************************)
EXTENDS Integers, FiniteSets, Sequences

CONSTANTS
    Frames,     \* the frames for which there are events
    TraceSize,  \* trace_size, the cells the table begins with
    Initial,    \* the events a vector has room for at first
    MaxAddress, \* bound: vectors in memory at a time
    MaxEvents   \* bound: events pushed for a frame

ASSUME EventVectorConstants ==
    /\ Frames \subseteq Nat
    /\ TraceSize \in Nat \ {0, 1} /\ Initial \in Nat \ {0, 1}
    /\ MaxAddress \in Nat /\ MaxEvents \in Nat

Address == 1 .. MaxAddress
Event == Frames \X (1 .. MaxEvents)
Vector == [count : Nat, evs : Seq(Event)]
Free == [count |-> 0, evs |-> <<>>]

VARIABLES
    heap,     \* the vector at each address, Free where there is none
    table,    \* event_trace, from index 0 on
    evVec,    \* ev_vec
    current,  \* the frame whose vector was got last, 0 at first
    pushed,   \* the events pushed for each frame, which number them as they come
    moved,    \* a vector has been moved
    defined   \* no freed memory has been used

vars == <<heap, table, evVec, current, pushed, moved, defined>>

Init ==
    /\ heap = [a \in Address |-> Free]
    /\ table = [i \in 0 .. TraceSize - 1 |-> 0]
    /\ evVec = 0
    /\ current = 0
    /\ pushed = [f \in Frames |-> <<>>]
    /\ moved = FALSE
    /\ defined = TRUE

Live(a) == heap[a] # Free
Available == {a \in Address : ~ Live(a)}

Size == Cardinality(DOMAIN table)

\* vec_get, with -1 for an index beyond the table taken for no vector.
Got(f) == IF f < Size THEN table[f] ELSE 0

\* Mutant: the table grows only once.
Grown_Once(n, i) == IF i >= n THEN n + n \div 2 ELSE n

\* The size, from n on, at which the table holds index i.
Grown(n, i) ==
    LET step[m \in n .. 2 * (n + i)] == IF i >= m THEN step[m + m \div 2] ELSE m
    IN  step[n]

\* vec_set: the table grows until it has the cell, its new part filled with 0.
TableSet(f, a) ==
    [i \in 0 .. Grown(Size, f) - 1 |-> IF i = f THEN a
                                     ELSE IF i < Size THEN table[i] ELSE 0]

\* The vector of frame f is looked up, and created if there is none.
Open(f) ==
    /\ defined
    /\ \/ /\ Got(f) # 0
          /\ evVec' = Got(f)
          /\ UNCHANGED <<heap, table>>
       \/ /\ Got(f) = 0
          /\ \E a \in Available :
               /\ heap' = [heap EXCEPT ![a] = [count |-> Initial, evs |-> <<>>]]
               /\ table' = TableSet(f, a)
               /\ evVec' = a
    /\ current' = f
    /\ UNCHANGED <<pushed, moved, defined>>

\* The next event of the current frame.
NewEvent == <<current, Len(pushed[current]) + 1>>

Put(v) == [v EXCEPT !.evs = Append(@, NewEvent)]

\* Mutant: one event too many in a vector.
Full_Late(v) == Len(v.evs) > v.count

Full(v) == Len(v.evs) = v.count

\* A vector with half as much room again.
Larger(v) == [v EXCEPT !.count = @ + @ \div 2]

\* ev_vec_push: realloc enlarges a full vector in its place or moves it.
Push ==
    /\ defined /\ current # 0
    /\ Len(pushed[current]) < MaxEvents
    /\ Live(evVec)
    /\ LET v == heap[evVec] IN
         \/ /\ heap' = [heap EXCEPT ![evVec] = Put(IF Full(v) THEN Larger(v) ELSE v)]
            /\ UNCHANGED <<evVec, moved>>
         \/ /\ Full(v)
            /\ \E a \in Available :
                 /\ heap' = [heap EXCEPT ![a] = Put(Larger(v)), ![evVec] = Free]
                 /\ evVec' = a
            /\ moved' = TRUE
    /\ pushed' = [pushed EXCEPT ![current] = Append(@, NewEvent)]
    /\ UNCHANGED <<table, current, defined>>

\* A push to freed memory: what happens from here on is undefined.
PushFreed ==
    /\ defined /\ current # 0
    /\ Len(pushed[current]) < MaxEvents
    /\ ~ Live(evVec)
    /\ defined' = FALSE
    /\ UNCHANGED <<heap, table, evVec, current, pushed, moved>>

Next == Push \/ PushFreed \/ \E f \in Frames : Open(f)

Spec == Init /\ [][Next]_vars

-------------------------------------------------------------------------------

\* Every variable has its type, the table has the indices from 0 on, and no vector
\* is written beyond its room.
TypeOK ==
    /\ heap \in [Address -> Vector]
    /\ \A a \in Address : Len(heap[a].evs) <= heap[a].count
    /\ DOMAIN table = 0 .. Size - 1 /\ table \in [DOMAIN table -> Address \cup {0}]
    /\ evVec \in Address \cup {0} /\ current \in Frames \cup {0}
    /\ pushed \in [Frames -> Seq(Event)]
    /\ {moved, defined} \subseteq BOOLEAN

\* The events a frame is executed with: those of the vector of its cell.
Bucket(f) == IF Got(f) = 0 THEN <<>> ELSE heap[Got(f)].evs

\* Each frame is executed with exactly the events pushed for it, in their order,
\* until a vector has been moved, and in any case as long as no frame has had more
\* events than a vector has room for at first, however the table has grown.
KeptWhileSmall ==
    ~ moved \/ (\A f \in Frames : Len(pushed[f]) <= Initial) =>
      defined /\ \A f \in Frames : Bucket(f) = pushed[f]

================================================================================
