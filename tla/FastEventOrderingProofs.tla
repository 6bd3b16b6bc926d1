------------------------ MODULE FastEventOrderingProofs ------------------------
(***************************************************************************)
(* Proofs about fast event ordering: the loop is the timewarp loop with    *)
(* delays that cover the lags, so what is proved of timewarp for every     *)
(* delay gives the absence of rollbacks.                                   *)
(***************************************************************************)
EXTENDS FastEventOrdering, WellFoundedInduction, TLAPS

Loop == INSTANCE TimewarpProofs WITH Lags <- lags, Delay <- delays

\* A set of integers that is not empty and is bounded has a largest element.
LEMMA LargestExists ==
    ASSUME NEW S \in SUBSET Int, S # {}, NEW b \in Int, \A x \in S : x <= b
    PROVE  \E x \in S : \A y \in S : x >= y
<1> DEFINE T == {b - x : x \in S}
<1>1. T \subseteq Nat /\ T # {}
  <2>1. \A x \in S : b - x \in Nat
    BY SMT
  <2> QED
    BY <2>1
<1>2. PICK m \in T : \A k \in T : ~ (<<k, m>> \in OpToRel(<, Nat))
  <2> HIDE DEF T
  <2> QED
    BY <1>1, NatLessThanWellFounded, WFMin
<1>3. \A k \in T : m <= k
  <2> TAKE k \in T
  <2>1. m \in Nat /\ k \in Nat
    BY <1>1
  <2>2. ~ (<<k, m>> \in {ss \in Nat \X Nat : ss[1] < ss[2]})
    BY <1>2 DEF OpToRel
  <2>3. ~ (k < m)
    BY <2>1, <2>2
  <2> QED
    BY <2>1, <2>3, SMT
<1>4. PICK x \in S : m = b - x
  BY <1>2
<1>5. \A y \in S : m <= b - y
  BY <1>3
<1> QED
  BY <1>4, <1>5, SMT

\* The shift of a player bounds, on every client, by how much that client gets
\* its events later than those of the reference.
LEMMA ShiftCovers ==
    ASSUME NEW p \in Client
    PROVE  /\ Shift(N, lags, p) \in Int
           /\ \A m \in Client : Shift(N, lags, p) >= lags[m][p] - lags[m][N - 1]
<1>1. N \in Nat /\ N - 1 \in Client /\ \A m, q \in Client : lags[m][q] \in Nat
  BY FastEventOrderingConstants, SMTT(30) DEF FastEventOrderingConstants, Client
<1>2. CASE p = N - 1
  BY <1>1, <1>2, SMT DEF Shift
<1>3. CASE p # N - 1
  <2> DEFINE S == {-1} \cup {lags[j][p] - lags[j][N - 1] : j \in Client}
  <2>1. S \in SUBSET Int /\ S # {} /\ Horizon \in Int
    BY <1>1, FastEventOrderingConstants, SMT DEF FastEventOrderingConstants
  <2>2. \A x \in S : x <= Horizon
    <3>1. \A j \in Client : lags[j][p] - lags[j][N - 1] <= Horizon
      <4> TAKE j \in Client
      <4>1. /\ LastFrame \in Nat /\ Horizon \in Nat
            /\ LastFrame + lags[j][p] <= Horizon
        BY FastEventOrderingConstants DEF FastEventOrderingConstants
      <4> QED
        BY <1>1, <4>1, SMT
    <3>2. -1 <= Horizon
      BY FastEventOrderingConstants, SMT DEF FastEventOrderingConstants
    <3> QED
      BY <3>1, <3>2
  <2>3. \E x \in S : \A y \in S : x >= y
    <3> HIDE DEF S
    <3> QED
      BY <2>1, <2>2, LargestExists
  <2>4. Max(S) \in S /\ \A y \in S : Max(S) >= y
    BY <2>3 DEF Max
  <2>5. Shift(N, lags, p) = Max(S)
    BY <1>3 DEF Shift, Client
  <2> QED
    BY <2>1, <2>4, <2>5
<1> QED
  BY <1>2, <1>3

\* Delays are never shorter than lags.
LEMMA DelaysCoverLags ==
    /\ delays \in [Client -> [Client -> Nat]]
    /\ \A m, p \in Client : delays[m][p] >= lags[m][p]
<1>1. ASSUME NEW m \in Client, NEW p \in Client
      PROVE  /\ Shift(N, lags, p) + lags[m][N - 1] \in Nat
             /\ Shift(N, lags, p) + lags[m][N - 1] >= lags[m][p]
  <2>1. N - 1 \in Client /\ lags[m][p] \in Nat /\ lags[m][N - 1] \in Nat
    BY FastEventOrderingConstants, SMTT(30) DEF FastEventOrderingConstants, Client
  <2>2. Shift(N, lags, p) \in Int /\ Shift(N, lags, p) >= lags[m][p] - lags[m][N - 1]
    BY ShiftCovers
  <2> QED
    BY <2>1, <2>2, SMT
<1>2. delays = [m \in Client |-> [p \in Client |-> Shift(N, lags, p) + lags[m][N - 1]]]
  BY DEF delays, Delays, Client
<1> QED
  BY <1>1, <1>2

\* The delays that are computed are ones with which the timewarp loop works.
LEMMA LoopConstants == Loop!TimewarpConstants
BY FastEventOrderingConstants, DelaysCoverLags
   DEF FastEventOrderingConstants, Loop!TimewarpConstants

\* The game is the timewarp loop with these delays.
LEMMA GameIsLoop == Spec => Loop!Spec
<1>1. Init => Loop!Init
  BY DEF Init, Game!Init, Loop!Init, Game!Frame, Loop!Frame
<1>2. ASSUME NEW c \in Client
      PROVE  Game!Start(c) \/ Game!GameLoop(c) => Loop!Start(c) \/ Loop!GameLoop(c)
  <2>1. Game!Start(c) => Loop!Start(c)
    BY DEF Game!Start, Loop!Start, Game!OwnFrame, Loop!OwnFrame, Game!Connection,
           Loop!Connection, Game!Goto, Loop!Goto
  <2>2. Game!Poll(c) => Loop!Poll(c)
    <3>1. /\ Game!OwnFrame(c) = Loop!OwnFrame(c)
          /\ Game!Connection(c) = Loop!Connection(c)
          /\ Game!KeyFrames(c) = Loop!KeyFrames(c)
      BY DEF Game!OwnFrame, Loop!OwnFrame, Game!Connection, Loop!Connection,
             Game!KeyFrames, Loop!KeyFrames, Game!Frame, Loop!Frame
    <3>2. \A es : Game!Broadcast(c, es) = Loop!Broadcast(c, es)
      BY DEF Game!Broadcast, Loop!Broadcast
    <3>3. \A x : /\ Game!ToSet(x) = Loop!ToSet(x)
                 /\ Game!Cardinality(x) = Loop!Cardinality(x)
      BY SMTT(30) DEF Game!ToSet, Loop!ToSet, Game!Cardinality, Loop!Cardinality
    <3> QED
      BY <3>1, <3>2, <3>3 DEF Game!Poll, Loop!Poll, Game!Goto, Loop!Goto
  <2>3. ASSUME NEW s \in Client
        PROVE  Game!Receive(c, s) => Loop!Receive(c, s)
    BY DEF Game!Receive, Loop!Receive, Game!BufferFrame, Loop!BufferFrame
  <2>4. Game!Drain(c) => Loop!Drain(c)
    BY DEF Game!Drain, Loop!Drain, Game!ExecFrame, Loop!ExecFrame, Game!Goto,
           Loop!Goto, Game!Frame, Loop!Frame
  <2>5. Game!Synchronize(c) => Loop!Synchronize(c)
    BY DEF Game!Synchronize, Loop!Synchronize, Game!Advance, Loop!Advance
  <2>6. Game!EndFrame(c) => Loop!EndFrame(c)
    BY DEF Game!EndFrame, Loop!EndFrame, Game!Goto, Loop!Goto, Game!local, Loop!local
  <2> QED
    BY <2>1, <2>2, <2>3, <2>4, <2>5, <2>6 DEF Game!GameLoop, Loop!GameLoop
<1>3. [Next]_vars => [Loop!Next]_Loop!vars
  BY <1>2 DEF Next, vars, Loop!Next, Loop!vars
<1> QED
  BY <1>1, <1>3, PTL DEF Spec, Loop!Spec

\* Every variable of the loop has its type.
LEMMA GameTyping == Spec => []Loop!TypeOK
BY GameIsLoop, LoopConstants, Loop!Typing, PTL

\* A computed state changes only on account of an event that came later than its
\* lag allows (the delays of compute_delays, against the rollback of the loop).
THEOREM RollbackOnlyWhenLateHolds == Spec => RollbackOnlyWhenLate
<1> DEFINE A == \A c \in Client : \A f \in 1 .. frame[c] - 1 :
                  stateTrace[c][f]' # stateTrace[c][f] =>
                    \E e \in eventBuffer[c][frame[c]] :
                      e.player # c /\ Loop!ExecFrame(c, e) <= f
           B == \A c \in Client : \A f \in 1 .. frame[c] - 1 :
                  stateTrace[c][f]' # stateTrace[c][f] =>
                    \E e \in eventBuffer[c][frame[c]] :
                      e.summon + lags[c][e.player] < frame[c]
<1>1. Loop!TypeOK /\ [A]_vars => [B]_vars
  <2> SUFFICES ASSUME Loop!TypeOK, A, NEW c \in Client, NEW f \in 1 .. frame[c] - 1,
                      stateTrace[c][f]' # stateTrace[c][f]
      PROVE  \E e \in eventBuffer[c][frame[c]] :
               e.summon + lags[c][e.player] < frame[c]
    OBVIOUS
  <2>1. PICK e \in eventBuffer[c][frame[c]] : Loop!ExecFrame(c, e) <= f
    OBVIOUS
  <2> HIDE DEF A
  <2>2. LastFrame \in Nat /\ frame[c] \in 1 .. LastFrame + 1
    BY FastEventOrderingConstants DEF FastEventOrderingConstants, Loop!TypeOK
  <2>3. frame[c] \in Loop!Frame
    BY <2>2, FastEventOrderingConstants, SMT DEF FastEventOrderingConstants, Loop!Frame
  <2>4. e \in Loop!Event
    BY <2>1, <2>3 DEF Loop!TypeOK
  <2>5. e.player \in Client /\ e.summon \in 1 .. LastFrame
    BY <2>4 DEF Loop!Event
  <2>6. e.summon + delays[c][e.player] <= f
    BY <2>1 DEF Loop!ExecFrame
  <2>7. /\ delays[c][e.player] \in Nat /\ lags[c][e.player] \in Nat
        /\ delays[c][e.player] >= lags[c][e.player]
    BY <2>5, DelaysCoverLags, FastEventOrderingConstants DEF FastEventOrderingConstants
  <2> QED
    BY <2>2, <2>5, <2>6, <2>7, SMT
<1>2. Spec => [][A]_vars
  <2>1. Loop!RollbackJustified => [][A]_vars
    BY PTL DEF Loop!RollbackJustified, Loop!vars, vars
  <2> QED
    BY <2>1, GameIsLoop, LoopConstants, Loop!RollbackJustifiedHolds, PTL
<1> QED
  BY <1>1, <1>2, GameTyping, PTL DEF RollbackOnlyWhenLate

-------------------------------------------------------------------------------
(* The same game, shifted *)

\* A set of positive integers that is not empty has a least element, and Min is it.
LEMMA LeastIsMin ==
    ASSUME NEW S \in SUBSET Nat, S # {}
    PROVE  Min(S) \in S /\ \A y \in S : Min(S) <= y
<1>1. PICK m \in S : \A k \in S : ~ (<<k, m>> \in OpToRel(<, Nat))
  BY NatLessThanWellFounded, WFMin
<1>2. \A k \in S : m <= k
  <2> TAKE k \in S
  <2>1. m \in Nat /\ k \in Nat
    OBVIOUS
  <2>2. ~ (<<k, m>> \in {ss \in Nat \X Nat : ss[1] < ss[2]})
    BY <1>1 DEF OpToRel
  <2>3. ~ (k < m)
    BY <2>1, <2>2
  <2> QED
    BY <2>1, <2>3, SMT
<1> QED
  BY <1>2 DEF Min

\* The frames of a game in which a player connects.
Starts(st) == {i \in DOMAIN st : \E e \in st[i] : e.button = Connect}

\* b, of g frames, is a, of f frames, shifted by k frames in which nothing happens.
IsShifted(a, b, f, g, k) ==
    /\ f \in Nat /\ g \in Nat /\ k \in Int /\ g = f + k
    /\ a \in Seq(SUBSET Loop!Event) /\ Len(a) = f
    /\ b \in Seq(SUBSET Loop!Event) /\ Len(b) = g
    /\ \A i \in 1 .. f : i + k \in 1 .. g => a[i] = b[i + k]
    /\ \A i \in 1 .. f : i + k \in 1 .. g \/ a[i] = {}
    /\ \A j \in 1 .. g : j - k \in 1 .. f \/ b[j] = {}

\* Two games are seen alike when one is the other shifted.
LEMMA ShiftSeenAlike ==
    ASSUME NEW a, NEW b, NEW f, NEW g, NEW k, IsShifted(a, b, f, g, k)
    PROVE  Played(a) = Played(b)
<1>0. /\ f \in Nat /\ g \in Nat /\ k \in Int /\ g = f + k
      /\ a \in [1 .. f -> SUBSET Loop!Event] /\ b \in [1 .. g -> SUBSET Loop!Event]
      /\ \A i \in 1 .. f : i + k \in 1 .. g => a[i] = b[i + k]
      /\ \A i \in 1 .. f : i + k \in 1 .. g \/ a[i] = {}
      /\ \A j \in 1 .. g : j - k \in 1 .. f \/ b[j] = {}
  BY SMT DEF IsShifted
<1> USE <1>0
<1>1. ASSUME NEW i \in Starts(a)
      PROVE  i \in 1 .. f /\ i + k \in 1 .. g /\ i + k \in Starts(b)
  <2>1. i \in 1 .. f /\ \E e \in a[i] : e.button = Connect
    BY DEF Starts
  <2>2. i + k \in 1 .. g /\ a[i] = b[i + k]
    BY <2>1
  <2> QED
    BY <2>1, <2>2 DEF Starts
<1>2. ASSUME NEW j \in Starts(b)
      PROVE  j \in 1 .. g /\ j - k \in 1 .. f /\ j - k \in Starts(a)
  <2>1. j \in 1 .. g /\ \E e \in b[j] : e.button = Connect
    BY DEF Starts
  <2>2. j - k \in 1 .. f
    BY <2>1
  <2>3. PICK i \in 1 .. f : i = j - k
    BY <2>2
  <2>4. i + k = j
    BY <2>1, <2>3, SMT
  <2>5. a[i] = b[j]
    BY <2>1, <2>4
  <2> QED
    BY <2>1, <2>3, <2>5 DEF Starts
<1>3. Len(a) = f /\ Len(b) = g /\ Starts(a) \in SUBSET Nat /\ Starts(b) \in SUBSET Nat
  <2>1. Len(a) = f /\ Len(b) = g
    BY SMT
  <2>2. \A i \in 1 .. f : i \in Nat
    BY SMT
  <2>3. \A i \in 1 .. g : i \in Nat
    BY SMT
  <2> QED
    BY <1>1, <1>2, <2>1, <2>2, <2>3
<1>4. /\ Played(a) = IF Starts(a) = {} THEN <<>> ELSE SubSeq(a, Min(Starts(a)), Len(a))
      /\ Played(b) = IF Starts(b) = {} THEN <<>> ELSE SubSeq(b, Min(Starts(b)), Len(b))
  BY DEF Played, Starts
<1>5. CASE Starts(a) = {} \/ Starts(b) = {}
  <2>1. Starts(a) = {} /\ Starts(b) = {}
    BY <1>1, <1>2, <1>5
  <2> QED
    BY <1>4, <2>1
<1>6. CASE Starts(a) # {} /\ Starts(b) # {}
  <2>1. PICK m \in Nat : m = Min(Starts(a))
    BY <1>3, <1>6, LeastIsMin
  <2>2. PICK n \in Nat : n = Min(Starts(b))
    BY <1>3, <1>6, LeastIsMin
  <2>3. m \in Starts(a) /\ n \in Starts(b) /\ \A i \in Starts(a) : m <= i
        /\ \A j \in Starts(b) : n <= j
    BY <1>3, <1>6, <2>1, <2>2, LeastIsMin
  <2>4. m \in 1 .. f /\ n \in 1 .. g /\ n = m + k
    <3>1. m \in 1 .. f /\ m + k \in Starts(b) /\ n \in 1 .. g /\ n - k \in Starts(a)
      BY <1>1, <1>2, <2>3
    <3>2. n <= m + k /\ m <= n - k
      BY <2>3, <3>1
    <3> QED
      BY <3>1, <3>2, SMT
  <2>5. SubSeq(a, m, f) = SubSeq(b, n, g)
    <3>1. SubSeq(a, m, f) = [i \in 1 .. (1 + f - m) |-> a[i + m - 1]]
      BY <2>4, SMT
    <3>2. SubSeq(b, n, g) = [i \in 1 .. (1 + g - n) |-> b[i + n - 1]]
      BY <2>4, SMT
    <3>3. 1 + f - m = 1 + g - n
      BY <2>4, SMT
    <3>4. ASSUME NEW i \in 1 .. (1 + f - m)
          PROVE  a[i + m - 1] = b[i + n - 1]
      <4>1. /\ i + m - 1 \in 1 .. f /\ i + n - 1 \in 1 .. g
            /\ i + n - 1 = (i + m - 1) + k
        BY <2>4, SMT
      <4>2. PICK x \in 1 .. f : x = i + m - 1
        BY <4>1
      <4>3. a[x] = b[x + k] /\ x + k = i + n - 1
        BY <4>1, <4>2
      <4> QED
        BY <4>1, <4>2, <4>3
    <3> QED
      BY ZenonT(60), <3>1, <3>2, <3>3, <3>4
  <2> QED
    BY <1>3, <1>4, <1>6, <2>1, <2>2, <2>5
<1> QED
  BY <1>5, <1>6

\* How much later than c client d executes, the same for the events of all players.
LEMMA ConstantShift ==
    ASSUME NEW c \in Client, NEW d \in Client
    PROVE  \A p, q \in Client :
             /\ delays[d][p] - delays[c][p] \in Int
             /\ delays[d][p] - delays[c][p] = delays[d][q] - delays[c][q]
<1>1. ASSUME NEW p \in Client
      PROVE  delays[d][p] - delays[c][p] = lags[d][N - 1] - lags[c][N - 1]
  <2>1. /\ delays[d][p] = Shift(N, lags, p) + lags[d][N - 1]
        /\ delays[c][p] = Shift(N, lags, p) + lags[c][N - 1]
    BY DEF delays, Delays, Client
  <2>2. N - 1 \in Client
    BY FastEventOrderingConstants, SMT DEF FastEventOrderingConstants, Client
  <2>3. lags[d][N - 1] \in Nat /\ lags[c][N - 1] \in Nat
    BY <2>2, FastEventOrderingConstants DEF FastEventOrderingConstants
  <2>4. Shift(N, lags, p) \in Int
    BY ShiftCovers
  <2> QED
    BY <2>1, <2>3, <2>4, SMT
<1>2. ASSUME NEW p \in Client
      PROVE  delays[d][p] - delays[c][p] \in Int
  <2>1. delays[d][p] \in Nat /\ delays[c][p] \in Nat
    BY DelaysCoverLags
  <2> QED
    BY <2>1, SMT
<1> QED
  BY <1>1, <1>2

\* An event that c executes in frame f is executed by d in frame f + k.
LEMMA BucketShift ==
    ASSUME Loop!IInv, Loop!KnowInv, NEW c \in Client, NEW d \in Client,
           Loop!CaughtUp(c), Loop!CaughtUp(d), missed[c] = missed[d],
           NEW k \in Int, \A p \in Client : delays[d][p] = delays[c][p] + k,
           NEW f \in Loop!Frame, NEW e \in eventTrace[c][f]
    PROVE  f + k \in Loop!Frame /\ f + k >= 1 /\ e \in eventTrace[d][f + k]
<1>1. /\ e \in Loop!Event /\ Loop!ExecFrame(c, e) = f
      /\ Loop!ExecFrame(d, e) \in Loop!Frame /\ e \in eventTrace[d][Loop!ExecFrame(d, e)]
  BY LoopConstants, Loop!SameBucket
<1>2. e.player \in Client /\ e.summon \in 1 .. LastFrame
  BY <1>1 DEF Loop!Event
<1>3. Loop!ExecFrame(d, e) = f + k
  <2>1. delays[c][e.player] \in Nat /\ delays[d][e.player] = delays[c][e.player] + k
    BY <1>2, DelaysCoverLags
  <2>2. /\ e.summon + delays[c][e.player] = f
        /\ Loop!ExecFrame(d, e) = e.summon + delays[d][e.player]
    BY <1>1 DEF Loop!ExecFrame
  <2> QED
    BY <1>2, <2>1, <2>2, SMT
<1>4. Loop!ExecFrame(d, e) >= 1
  <2>1. delays[d][e.player] \in Nat /\ LastFrame \in Nat
    BY <1>2, DelaysCoverLags, FastEventOrderingConstants DEF FastEventOrderingConstants
  <2> QED
    BY <1>2, <2>1, SMT DEF Loop!ExecFrame
<1> QED
  BY <1>1, <1>3, <1>4

\* For any lags: clients that have caught up have seen the same game, each with a
\* shift of its own, unless they missed different clients
\* (game_fasteventordering.c:59-66, 260-320).
THEOREM SameGameShiftedHolds == Spec => []SameGameShifted
<1>1. Loop!IInv /\ Loop!KnowInv => SameGameShifted
  <2> SUFFICES ASSUME Loop!IInv, Loop!KnowInv, NEW c \in Client, NEW d \in Client,
                      Game!CaughtUp(c), Game!CaughtUp(d), missed[c] = missed[d],
                      NEW f \in 0 .. frame[c] - 1, NEW g \in 0 .. frame[d] - 1,
                      NEW p \in Client, g - f = delays[d][p] - delays[c][p]
               PROVE  Played(stateTrace[c][f]) = Played(stateTrace[d][g])
    BY DEF SameGameShifted
  <2>1. Loop!CaughtUp(c) /\ Loop!CaughtUp(d)
    BY DEF Game!CaughtUp, Loop!CaughtUp, Game!Frame, Loop!Frame
  <2>2. /\ stateTrace[c][f] = [i \in 1 .. f |-> eventTrace[c][i]]
        /\ stateTrace[d][g] = [j \in 1 .. g |-> eventTrace[d][j]]
    BY <2>1, LoopConstants, Loop!StateIsHistory DEF Loop!History
  <2>3. /\ LastFrame \in Nat /\ frame[c] \in 1 .. LastFrame + 1
        /\ frame[d] \in 1 .. LastFrame + 1 /\ Horizon \in Nat /\ LastFrame < Horizon
    BY FastEventOrderingConstants DEF FastEventOrderingConstants, Loop!IInv, Loop!TypeOK
  <2>4. f \in Nat /\ g \in Nat /\ \A i \in 1 .. f : i \in Loop!Frame
    BY <2>3, SMT DEF Loop!Frame
  <2>5. \A i \in 1 .. g : i \in Loop!Frame
    BY <2>3, SMT DEF Loop!Frame
  <2>6. PICK k \in Int : k = delays[d][p] - delays[c][p]
    BY ConstantShift
  <2>7. g = f + k
    BY <2>4, <2>6, SMT
  <2>8. ASSUME NEW q \in Client
        PROVE  delays[d][q] = delays[c][q] + k /\ delays[c][q] = delays[d][q] + (- k)
    <3>1. delays[d][q] \in Nat /\ delays[c][q] \in Nat
      BY DelaysCoverLags
    <3>2. k = delays[d][q] - delays[c][q]
      BY <2>6, ConstantShift
    <3> QED
      BY <3>1, <3>2, SMT
  <2>9. ASSUME NEW i \in 1 .. f
        PROVE  /\ i + k \in 1 .. g => eventTrace[c][i] = eventTrace[d][i + k]
               /\ i + k \in 1 .. g \/ eventTrace[c][i] = {}
    <3>1. ASSUME NEW e \in eventTrace[c][i]
          PROVE  i + k \in 1 .. g /\ e \in eventTrace[d][i + k]
      <4>1. i + k >= 1 /\ e \in eventTrace[d][i + k]
        BY <2>1, <2>4, <2>8, LoopConstants, BucketShift
      <4>2. i + k \in 1 .. g
        BY <2>4, <2>7, <4>1, SMT
      <4> QED
        BY <4>1, <4>2
    <3>2. ASSUME i + k \in 1 .. g, NEW e \in eventTrace[d][i + k]
          PROVE  e \in eventTrace[c][i]
      <4>1. PICK j \in 1 .. g : j = i + k
        BY <3>2
      <4>2. - k \in Int /\ j + (- k) = i
        BY <2>4, <4>1, SMT
      <4>3. e \in eventTrace[c][j + (- k)]
        BY <2>1, <2>5, <2>8, <3>2, <4>1, <4>2, BucketShift
      <4> QED
        BY <4>2, <4>3
    <3>3. i + k \in 1 .. g => eventTrace[c][i] = eventTrace[d][i + k]
      <4>1. ASSUME i + k \in 1 .. g
            PROVE  /\ eventTrace[c][i] \subseteq eventTrace[d][i + k]
                   /\ eventTrace[d][i + k] \subseteq eventTrace[c][i]
        BY <3>1, <3>2, <4>1
      <4> QED
        BY <4>1
    <3>4. i + k \in 1 .. g \/ eventTrace[c][i] = {}
      BY <3>1
    <3> QED
      BY <3>3, <3>4
  <2>10. ASSUME NEW j \in 1 .. g, j - k \notin 1 .. f
         PROVE  eventTrace[d][j] = {}
    <3> SUFFICES ASSUME NEW e \in eventTrace[d][j] PROVE FALSE
      OBVIOUS
    <3>1. - k \in Int
      BY SMT
    <3>2. j + (- k) >= 1
      BY <2>1, <2>5, <2>8, <3>1, BucketShift
    <3> QED
      BY <2>4, <2>7, <2>10, <3>2, SMT
  <2>11. PICK st \in [1 .. f -> SUBSET Loop!Event] : st = stateTrace[c][f]
    <3>1. \A h \in Loop!Frame : eventTrace[c][h] \in SUBSET Loop!Event
      BY DEF Loop!IInv, Loop!TypeOK
    <3> QED
      BY <2>2, <2>4, <3>1
  <2>12. PICK tt \in [1 .. g -> SUBSET Loop!Event] : tt = stateTrace[d][g]
    <3>1. \A h \in Loop!Frame : eventTrace[d][h] \in SUBSET Loop!Event
      BY DEF Loop!IInv, Loop!TypeOK
    <3> QED
      BY <2>2, <2>5, <3>1
  <2>13. ASSUME NEW i \in 1 .. f
         PROVE  (i + k \in 1 .. g => st[i] = tt[i + k]) /\ (i + k \in 1 .. g \/ st[i] = {})
    BY <2>2, <2>9, <2>11, <2>12
  <2>14. ASSUME NEW j \in 1 .. g
         PROVE  j - k \in 1 .. f \/ tt[j] = {}
    BY <2>2, <2>10, <2>12
  <2>15. /\ st \in Seq(SUBSET Loop!Event) /\ Len(st) = f
         /\ tt \in Seq(SUBSET Loop!Event) /\ Len(tt) = g
    BY <2>4, SMTT(30)
  <2>16. Played(st) = Played(tt)
    <3>1. IsShifted(st, tt, f, g, k)
      BY <2>4, <2>7, <2>13, <2>14, <2>15 DEF IsShifted
    <3> QED
      BY <3>1, ShiftSeenAlike
  <2> QED
    BY <2>11, <2>12, <2>16
<1>2. Spec => [](Loop!IInv /\ Loop!KnowInv)
  BY GameIsLoop, LoopConstants, Loop!Invariance, Loop!KnowHolds, PTL
<1> QED
  BY <1>1, <1>2, PTL

================================================================================
