---------------------------- MODULE SimulationProofs ----------------------------
(***************************************************************************)
(* Proofs about the simulation of the balls, for any number of balls and   *)
(* players, any sizes and speeds, and any events.                          *)
(***************************************************************************)
EXTENDS Simulation, FiniteSetTheorems, SequenceTheorems, WellFoundedInduction, TLAPS

-------------------------------------------------------------------------------
(* Folds: induction on how far a loop has come *)

\* A set of numbers with an element has a least one.
LEMMA Least ==
    ASSUME NEW S \in SUBSET Nat, S # {}
    PROVE  \E m \in S : \A k \in S : m <= k
<1>1. PICK m \in S : \A k \in S : ~ (<<k, m>> \in OpToRel(<, Nat))
  BY NatLessThanWellFounded, WFMin
<1>2. \A k \in S : m <= k
  <2> TAKE k \in S
  <2>1. ~ (<<k, m>> \in {ss \in Nat \X Nat : ss[1] < ss[2]})
    BY <1>1 DEF OpToRel
  <2>2. ~ (k < m)
    BY <2>1
  <2> QED
    BY <2>2, SMT
<1> QED
  BY <1>2

\* What holds at the beginning and is kept by each round of a loop holds after each.
LEMMA UpTo ==
    ASSUME NEW n \in Nat, NEW P, 0 \in P, \A k \in 1 .. n : k - 1 \in P => k \in P
    PROVE  \A k \in 0 .. n : k \in P
<1> DEFINE bad == {k \in 0 .. n : k \notin P}
<1> SUFFICES ASSUME bad # {} PROVE FALSE
  OBVIOUS
<1>1. PICK m \in bad : \A k \in bad : m <= k
  <2>1. bad \in SUBSET Nat
    BY SMT
  <2> HIDE DEF bad
  <2> QED
    BY <2>1, Least
<1>2. m \in 0 .. n /\ m \notin P /\ m # 0
  BY <1>1
<1>3. m \in 1 .. n /\ m - 1 \in 0 .. n /\ ~ (m <= m - 1)
  BY <1>2, SMT
<1>4. m - 1 \in P
  BY <1>1, <1>3
<1> QED
  BY <1>2, <1>3, <1>4

\* The greatest of the first k numbers is k.
LEMMA Prefix ==
    ASSUME NEW k \in Nat \ {0}
    PROVE  1 .. k # {} /\ Max(1 .. k) = k /\ (1 .. k) \ {k} = 1 .. (k - 1)
<1>1. \A s : k \in s /\ (\A x \in s : x \in Int /\ k >= x) => Max(s) = k
  <2> TAKE s
  <2> SUFFICES ASSUME k \in s, \A x \in s : x \in Int /\ k >= x PROVE Max(s) = k
    OBVIOUS
  <2>1. \A x \in s : (\A y \in s : x >= y) => x = k
    BY SMT
  <2> QED
    BY <2>1 DEF Max
<1>2. k \in 1 .. k /\ \A x \in 1 .. k : x \in Int /\ k >= x
  BY SMT
<1>3. (1 .. k) \ {k} = 1 .. (k - 1)
  BY SMT
<1> QED
  BY <1>1, <1>2, <1>3

\* A set of indices has a greatest one.
LEMMA MaxIn ==
    ASSUME NEW n \in Nat, NEW s \in SUBSET (1 .. n), s # {}
    PROVE  Max(s) \in s /\ \A y \in s : Max(s) >= y
<1> DEFINE down == {n - x : x \in s}
<1>1. down \in SUBSET Nat /\ down # {}
  <2>1. \A x \in s : n - x \in Nat
    BY SMT
  <2> QED
    BY <2>1
<1>2. PICK m \in down : \A k \in down : m <= k
  <2> HIDE DEF down
  <2> QED
    BY <1>1, Least
<1>3. PICK x \in s : m = n - x
  BY <1>2
<1>4. \A y \in s : n - x <= n - y
  BY <1>2, <1>3
<1>5. \A y \in s : x >= y
  BY <1>4, SMT
<1> QED
  BY <1>5 DEF Max

\* g has, for each set of indices, what F makes of the elements there, from the first
\* to the last, beginning with base.
IsFold(g, S, F, base, seq) ==
    /\ g[{}] = base
    /\ \A s \in SUBSET (DOMAIN seq) :
         s # {} /\ g[s \ {Max(s)}] \in S => g[s] = F[<<g[s \ {Max(s)}], seq[Max(s)]>>]

\* The results r of the rounds of a loop that F stands for, and what comes of them.
Rounds(r, S, F, base, seq, result) ==
    /\ r \in [0 .. Len(seq) -> S]
    /\ r[0] = base
    /\ \A k \in 1 .. Len(seq) : r[k] = F[<<r[k - 1], seq[k]>>]
    /\ result = r[Len(seq)]

\* A fold over a sequence is defined: there is a function that takes each set of
\* indices to what the loop makes of the elements there.
LEMMA FoldExists ==
    ASSUME NEW S, NEW T, NEW F \in [S \X T -> S], NEW base \in S, NEW seq \in Seq(T)
    PROVE  \E g \in [SUBSET (DOMAIN seq) -> S] : IsFold(g, S, F, base, seq)
<1> DEFINE n == Len(seq)
           Does(g, s) == g[s] = IF s = {} THEN base ELSE F[<<g[s \ {Max(s)}], seq[Max(s)]>>]
           Till(k) == \E g \in [SUBSET (1 .. k) -> S] : \A s \in SUBSET (1 .. k) : Does(g, s)
           P == {k \in 0 .. n : Till(k)}
<1>1. n \in Nat /\ DOMAIN seq = 1 .. n /\ \A k \in 1 .. n : seq[k] \in T
  BY LenProperties, ElementOfSeq
<1>2. Till(0)
  <2> DEFINE g == [s \in SUBSET (1 .. 0) |-> base]
  <2>1. \A s \in SUBSET (1 .. 0) : s = {}
    BY SMT
  <2>2. g \in [SUBSET (1 .. 0) -> S] /\ \A s \in SUBSET (1 .. 0) : Does(g, s)
    BY <2>1
  <2> QED
    BY <2>2
<1>3. ASSUME NEW k \in 1 .. n, Till(k - 1)
      PROVE  Till(k)
  <2>1. PICK g \in [SUBSET (1 .. (k - 1)) -> S] : \A s \in SUBSET (1 .. (k - 1)) : Does(g, s)
    BY <1>3
  <2> DEFINE below == 1 .. (k - 1)
             h == [s \in SUBSET (1 .. k) |->
                     IF k \in s THEN F[<<g[s \ {k}], seq[k]>>] ELSE g[s]]
  <2>2. /\ \A s \in SUBSET (1 .. k) : s \ {k} \in SUBSET below
        /\ \A s \in SUBSET (1 .. k) : k \notin s => s \in SUBSET below
        /\ \A s : k \notin s \ {k}
    BY <1>1, SMT
  <2>3. h \in [SUBSET (1 .. k) -> S]
    <3> SUFFICES ASSUME NEW s \in SUBSET (1 .. k)
                 PROVE  (IF k \in s THEN F[<<g[s \ {k}], seq[k]>>] ELSE g[s]) \in S
      OBVIOUS
    <3>1. CASE k \in s
      <4>1. g[s \ {k}] \in S /\ seq[k] \in T
        BY <1>1, <2>1, <2>2
      <4>2. F[<<g[s \ {k}], seq[k]>>] \in S
        BY <4>1
      <4> QED
        BY <3>1, <4>2
    <3>2. CASE k \notin s
      BY <2>1, <2>2, <3>2
    <3> QED
      BY <3>1, <3>2
  <2>4. ASSUME NEW s \in SUBSET (1 .. k)
        PROVE  Does(h, s)
    <3>1. CASE k \in s
      <4>1. Max(s) = k
        <5>1. s \in SUBSET (1 .. n) /\ k \in Nat /\ \A x \in s : x \in Int /\ k >= x
          BY <1>1, SMT
        <5>2. \A x \in s : (\A y \in s : x >= y) => x = k
          BY <3>1, <5>1, SMT
        <5> QED
          BY <3>1, <5>1, <5>2 DEF Max
      <4>2. h[s \ {k}] = g[s \ {k}]
        <5>1. s \ {k} \in SUBSET (1 .. k)
          OBVIOUS
        <5> QED
          BY <2>2, <5>1
      <4>3. h[s] = F[<<g[s \ {k}], seq[k]>>]
        BY <3>1
      <4> HIDE DEF h
      <4> QED
        BY <3>1, <4>1, <4>2, <4>3
    <3>2. CASE k \notin s
      <4>1. s \in SUBSET below /\ s \ {Max(s)} \in SUBSET below
        BY <2>2, <3>2
      <4>2. h[s] = g[s] /\ h[s \ {Max(s)}] = g[s \ {Max(s)}]
        <5>1. s \ {Max(s)} \in SUBSET (1 .. k) /\ k \notin s \ {Max(s)}
          BY <3>2
        <5> QED
          BY <3>2, <5>1
      <4> HIDE DEF h
      <4> QED
        BY <2>1, <4>1, <4>2
    <3> QED
      BY <3>1, <3>2
  <2> QED
    BY <2>3, <2>4
<1> HIDE DEF Till
<1>4. 0 \in P /\ \A k \in 1 .. n : k - 1 \in P => k \in P
  <2>1. 0 \in 0 .. n /\ \A k \in 1 .. n : k \in 0 .. n
    BY <1>1, SMT
  <2> QED
    BY <1>2, <1>3, <2>1
<1>5. \A k \in 0 .. n : k \in P
  <2> HIDE DEF P
  <2> QED
    BY <1>1, <1>4, UpTo
<1>6. Till(n)
  <2>1. n \in 0 .. n
    BY <1>1, SMT
  <2> QED
    BY <1>5, <2>1
<1>7. PICK g \in [SUBSET (DOMAIN seq) -> S] : \A s \in SUBSET (DOMAIN seq) : Does(g, s)
  BY <1>1, <1>6 DEF Till
<1>8. g[{}] = base /\ \A s \in SUBSET (DOMAIN seq) : s # {} => g[s] = F[<<g[s \ {Max(s)}], seq[Max(s)]>>]
  BY <1>7
<1> QED
  BY <1>7, <1>8 DEF IsFold

\* The rounds of the loop that a fold stands for, one for each element.
LEMMA FoldRounds ==
    ASSUME NEW S, NEW T, NEW F \in [S \X T -> S], NEW base \in S, NEW seq \in Seq(T),
           NEW h, IsFold(h, S, F, base, seq)
    PROVE  \E r : Rounds(r, S, F, base, seq, h[DOMAIN seq])
<1> DEFINE n == Len(seq)
           r == [k \in 0 .. n |-> h[1 .. k]]
           P == {k \in 0 .. n : r[k] \in S}
<1>1. n \in Nat /\ DOMAIN seq = 1 .. n /\ \A k \in 1 .. n : seq[k] \in T
  BY LenProperties, ElementOfSeq
<1>2. r[0] = base /\ 0 \in 0 .. n
  <2>1. 1 .. 0 = {} /\ 0 \in 0 .. n
    BY <1>1, SMT
  <2> QED
    BY <2>1 DEF IsFold
<1>3. ASSUME NEW k \in 1 .. n, r[k - 1] \in S
      PROVE  r[k] \in S /\ r[k] = F[<<r[k - 1], seq[k]>>]
  <2>1. /\ k \in Nat \ {0} /\ k \in 0 .. n /\ k - 1 \in 0 .. n
        /\ 1 .. k \in SUBSET (1 .. n)
    BY <1>1, SMT
  <2>2. 1 .. k # {} /\ Max(1 .. k) = k /\ (1 .. k) \ {k} = 1 .. (k - 1)
    BY <2>1, Prefix
  <2>3. r[k] = h[1 .. k] /\ r[k - 1] = h[1 .. (k - 1)]
    BY <2>1
  <2>4. h[1 .. k] = F[<<h[1 .. (k - 1)], seq[k]>>]
    <3>1. h[(1 .. k) \ {Max(1 .. k)}] \in S
      BY <1>3, <2>2, <2>3
    <3> QED
      BY <1>1, <2>1, <2>2, <3>1 DEF IsFold
  <2> HIDE DEF r
  <2> QED
    BY <1>1, <1>3, <2>3, <2>4
<1>4. \A k \in 0 .. n : r[k] \in S
  <2>1. 0 \in P /\ \A k \in 1 .. n : k - 1 \in P => k \in P
    <3>1. \A k \in 1 .. n : k \in 0 .. n
      BY <1>1, SMT
    <3> HIDE DEF r
    <3> QED
      BY <1>2, <1>3, <3>1
  <2>2. \A k \in 0 .. n : k \in P
    <3> HIDE DEF P
    <3> QED
      BY <1>1, <2>1, UpTo
  <2> HIDE DEF r
  <2> QED
    BY <2>2
<1>5. \A k \in 1 .. n : r[k] = F[<<r[k - 1], seq[k]>>]
  <2>1. \A k \in 1 .. n : k - 1 \in 0 .. n
    BY <1>1, SMT
  <2> HIDE DEF r
  <2> QED
    BY <1>3, <1>4, <2>1
<1>6. r \in [0 .. n -> S] /\ h[DOMAIN seq] = r[n]
  <2>1. n \in 0 .. n
    BY <1>1, SMT
  <2>2. r[n] = h[1 .. n]
    BY <2>1
  <2>3. r = [k \in 0 .. n |-> r[k]]
    OBVIOUS
  <2> HIDE DEF r
  <2> QED
    BY <1>1, <1>4, <2>2, <2>3
<1> HIDE DEF r
<1> QED
  BY <1>2, <1>5, <1>6 DEF Rounds

-------------------------------------------------------------------------------
(* The events of a frame *)

\* A state of the game, each of whose balls is nobody's or its own player's.
Game == {st \in State : \A i \in Index : st.balls[i].player \in {-1, i}}

LEMMA Sizes ==
    /\ N_BALLS \in Nat /\ MAX_PLAYERS \in Nat /\ MAX_PLAYERS >= 1 /\ MAX_PLAYERS <= N_BALLS
    /\ ARENA_SIZE \in Nat \ {0} /\ ACCEL \in Nat \ {0} /\ MAX_SPEED \in Nat \ {0}
    /\ BALL_RADIOUS \in Nat \ {0}
    /\ Player \subseteq Index /\ Player \subseteq Nat /\ Index \subseteq Nat
    /\ -1 \notin Player /\ \A p \in Player \cup {-1} : p >= 0 <=> p \in Player
<1>1. /\ N_BALLS \in Nat /\ MAX_PLAYERS \in Nat /\ MAX_PLAYERS >= 1 /\ MAX_PLAYERS <= N_BALLS
  BY BallsConstants, SMT
<1>2. /\ Player \subseteq Index /\ Player \subseteq Nat /\ Index \subseteq Nat
      /\ -1 \notin Player /\ \A p \in Player \cup {-1} : p >= 0 <=> p \in Player
  BY <1>1, SMT DEF Player, Index
<1> QED
  BY <1>1, <1>2, BallsConstants

LEMMA ConnectType ==
    ASSUME NEW st \in Game, NEW e \in Event
    PROVE  /\ Connect(st, e) \in Game
           /\ Connect(st, e).deathCount = st.deathCount
           /\ Connect(st, e).frame = st.frame /\ Connect(st, e).lie = st.lie
           /\ Connect(st, e).scores = st.scores
           /\ Connect(st, e).paused = (st.paused /\ e.button # N_BUTTONS)
           /\ \A i \in Index : Connect(st, e).balls[i] =
                IF e.button = N_BUTTONS /\ e.player = i
                THEN [st.balls[i] EXCEPT !.player = IF e.pressed THEN i ELSE -1]
                ELSE st.balls[i]
<1>1. CASE e.button # N_BUTTONS
  <2>1. Connect(st, e) = st
    BY <1>1 DEF Connect
  <2> QED
    BY <1>1, <2>1 DEF Game, State
<1>2. CASE e.button = N_BUTTONS
  <2> DEFINE p == e.player
             q == IF e.pressed THEN p ELSE -1
             b == [st.balls[p] EXCEPT !.player = q]
             t == Connect(st, e)
  <2>1. p \in Index /\ q \in Player \cup {-1} /\ q \in {-1, p} /\ e.pressed \in BOOLEAN
    BY Sizes DEF Event
  <2>2. st \in State /\ st.balls \in [Index -> Ball] /\ st.balls[p] \in Ball
    BY <2>1 DEF Game, State
  <2>3. b \in Ball /\ b.player = q
    BY <2>1, <2>2 DEF Ball
  <2>4. t = [st EXCEPT !.balls = [st.balls EXCEPT ![p] = b], !.paused = FALSE]
    BY <1>2, <2>2 DEF Connect, State
  <2> HIDE DEF b, t
  <2>5. [st.balls EXCEPT ![p] = b] \in [Index -> Ball]
    BY <2>2, <2>3
  <2>6. t \in State /\ t.balls = [st.balls EXCEPT ![p] = b]
    BY <2>2, <2>4, <2>5 DEF State
  <2>7. /\ t.deathCount = st.deathCount /\ t.frame = st.frame /\ t.lie = st.lie
        /\ t.scores = st.scores /\ t.paused = FALSE
    BY <2>2, <2>4 DEF State
  <2>8. \A i \in Index : t.balls[i] = IF p = i THEN b ELSE st.balls[i]
    BY <2>2, <2>6
  <2>9. t \in Game
    BY ZenonT(60), <2>1, <2>3, <2>6, <2>8 DEF Game
  <2> QED
    BY <1>2, <2>7, <2>8, <2>9 DEF b, t
<1> QED
  BY <1>1, <1>2

\* The loop that connects players.
LEMMA ConnectRounds ==
    ASSUME NEW ini \in Game, NEW es \in Seq(Event)
    PROVE  \E r \in [0 .. Len(es) -> Game] :
             /\ r[0] = ini
             /\ \A k \in 1 .. Len(es) : r[k] = Connect(r[k - 1], es[k])
             /\ FoldLeft(Connect, ini, es) = r[Len(es)]
<1> DEFINE F == [x \in Game \X Event |-> Connect(x[1], x[2])]
<1>1. F \in [Game \X Event -> Game]
  BY ConnectType
<1>2. \A st \in Game, e \in Event : F[<<st, e>>] = Connect(st, e)
  OBVIOUS
<1> HIDE DEF F
<1>3. /\ DOMAIN es = 1 .. Len(es) /\ Len(es) \in Nat
      /\ \A k \in DOMAIN es : es[k] \in Event
      /\ \A s \in SUBSET (DOMAIN es) : s # {} => Max(s) \in DOMAIN es
  BY LenProperties, ElementOfSeq, MaxIn
<1>4. PICK g \in [SUBSET (DOMAIN es) -> Game] : IsFold(g, Game, F, ini, es)
  BY <1>1, FoldExists
<1>5. \A s \in SUBSET (DOMAIN es) : s # {} => g[s] = Connect(g[s \ {Max(s)}], es[Max(s)])
  <2> TAKE s \in SUBSET (DOMAIN es)
  <2> HAVE s # {}
  <2>1. g[s \ {Max(s)}] \in Game /\ es[Max(s)] \in Event
    BY <1>3, <1>4
  <2> QED
    BY <1>2, <1>4, <2>1 DEF IsFold
<1>6. g = [s \in SUBSET (DOMAIN es) |->
             IF s = {} THEN ini ELSE Connect(g[s \ {Max(s)}], es[Max(s)])]
  BY <1>4, <1>5 DEF IsFold
<1>7. PICK h : /\ h = [s \in SUBSET (DOMAIN es) |->
                       IF s = {} THEN ini ELSE Connect(h[s \ {Max(s)}], es[Max(s)])]
               /\ FoldLeft(Connect, ini, es) = h[DOMAIN es]
  BY <1>6 DEF FoldLeft, MapThenFoldSet
<1>8. IsFold(h, Game, F, ini, es)
  <2>1. h[{}] = ini
    BY <1>7
  <2>2. ASSUME NEW s \in SUBSET (DOMAIN es), s # {}, h[s \ {Max(s)}] \in Game
        PROVE  h[s] = F[<<h[s \ {Max(s)}], es[Max(s)]>>]
    <3>1. h[s] = Connect(h[s \ {Max(s)}], es[Max(s)])
      BY <1>7, <2>2
    <3>2. es[Max(s)] \in Event
      BY <1>3, <2>2
    <3> QED
      BY <1>2, <2>2, <3>1, <3>2
  <2> QED
    BY <2>1, <2>2 DEF IsFold
<1>9. PICK r : Rounds(r, Game, F, ini, es, h[DOMAIN es])
  BY <1>1, <1>8, FoldRounds
<1>10. ASSUME NEW k \in 1 .. Len(es)
       PROVE  r[k] = Connect(r[k - 1], es[k])
  <2>1. k - 1 \in 0 .. Len(es)
    BY <1>3, SMT
  <2>2. r[k - 1] \in Game /\ es[k] \in Event
    BY <1>3, <1>9, <2>1 DEF Rounds
  <2> QED
    BY <1>2, <1>9, <2>2 DEF Rounds
<1> QED
  BY <1>7, <1>9, <1>10 DEF Rounds

LEMMA PressType ==
    ASSUME NEW b \in Ball, NEW e \in Event
    PROVE  /\ Press(b, e) \in Ball
           /\ Press(b, e) = [b EXCEPT !.buttons = Press(b, e).buttons]
           /\ \A k \in Button : Press(b, e).buttons[k] =
                IF e.button = k /\ e.player = b.player THEN e.pressed ELSE b.buttons[k]
<1>1. b.buttons \in [Button -> BOOLEAN] /\ e.pressed \in BOOLEAN
  BY DEF Ball, Event
<1>2. CASE e.button \in Button /\ e.player = b.player
  <2> DEFINE bs == [b.buttons EXCEPT ![e.button] = e.pressed]
  <2>1. bs \in [Button -> BOOLEAN] /\ Press(b, e) = [b EXCEPT !.buttons = bs]
    BY <1>1, <1>2 DEF Press, Ball
  <2>2. \A k \in Button : bs[k] = IF e.button = k THEN e.pressed ELSE b.buttons[k]
    BY <1>1, <1>2
  <2> HIDE DEF bs
  <2>3. [b EXCEPT !.buttons = bs] \in Ball /\ [b EXCEPT !.buttons = bs].buttons = bs
    BY <2>1 DEF Ball
  <2> QED
    BY <1>2, <2>1, <2>2, <2>3
<1>3. CASE ~ (e.button \in Button /\ e.player = b.player)
  <2>1. Press(b, e) = b /\ b = [b EXCEPT !.buttons = b.buttons]
    BY <1>3 DEF Press, Ball
  <2> QED
    BY <1>1, <1>3, <2>1
<1> QED
  BY <1>2, <1>3

\* The loop that sets a ball's buttons.
LEMMA PressRounds ==
    ASSUME NEW ini \in Ball, NEW es \in Seq(Event)
    PROVE  \E r \in [0 .. Len(es) -> Ball] :
             /\ r[0] = ini
             /\ \A k \in 1 .. Len(es) : r[k] = Press(r[k - 1], es[k])
             /\ React(ini, es) = r[Len(es)]
<1> DEFINE F == [x \in Ball \X Event |-> Press(x[1], x[2])]
<1>1. F \in [Ball \X Event -> Ball]
  BY PressType
<1>2. \A x \in Ball, y \in Event : F[<<x, y>>] = Press(x, y)
  OBVIOUS
<1> HIDE DEF F
<1>3. /\ DOMAIN es = 1 .. Len(es) /\ Len(es) \in Nat
      /\ \A k \in DOMAIN es : es[k] \in Event
      /\ \A s \in SUBSET (DOMAIN es) : s # {} => Max(s) \in DOMAIN es
  BY LenProperties, ElementOfSeq, MaxIn
<1>4. PICK g \in [SUBSET (DOMAIN es) -> Ball] : IsFold(g, Ball, F, ini, es)
  BY <1>1, FoldExists
<1>5. \A s \in SUBSET (DOMAIN es) : s # {} => g[s] = Press(g[s \ {Max(s)}], es[Max(s)])
  <2> TAKE s \in SUBSET (DOMAIN es)
  <2> HAVE s # {}
  <2>1. g[s \ {Max(s)}] \in Ball /\ es[Max(s)] \in Event
    BY <1>3, <1>4
  <2> QED
    BY <1>2, <1>4, <2>1 DEF IsFold
<1>6. g = [s \in SUBSET (DOMAIN es) |->
             IF s = {} THEN ini ELSE Press(g[s \ {Max(s)}], es[Max(s)])]
  BY <1>4, <1>5 DEF IsFold
<1>7. PICK h : /\ h = [s \in SUBSET (DOMAIN es) |->
                       IF s = {} THEN ini ELSE Press(h[s \ {Max(s)}], es[Max(s)])]
               /\ React(ini, es) = h[DOMAIN es]
  BY <1>6 DEF FoldLeft, MapThenFoldSet, React
<1>8. IsFold(h, Ball, F, ini, es)
  <2>1. h[{}] = ini
    BY <1>7
  <2>2. ASSUME NEW s \in SUBSET (DOMAIN es), s # {}, h[s \ {Max(s)}] \in Ball
        PROVE  h[s] = F[<<h[s \ {Max(s)}], es[Max(s)]>>]
    <3>1. h[s] = Press(h[s \ {Max(s)}], es[Max(s)])
      BY <1>7, <2>2
    <3>2. es[Max(s)] \in Event
      BY <1>3, <2>2
    <3> QED
      BY <1>2, <2>2, <3>1, <3>2
  <2> QED
    BY <2>1, <2>2 DEF IsFold
<1>9. PICK r : Rounds(r, Ball, F, ini, es, h[DOMAIN es])
  BY <1>1, <1>8, FoldRounds
<1>10. ASSUME NEW k \in 1 .. Len(es)
       PROVE  r[k] = Press(r[k - 1], es[k])
  <2>1. k - 1 \in 0 .. Len(es)
    BY <1>3, SMT
  <2>2. r[k - 1] \in Ball /\ es[k] \in Event
    BY <1>3, <1>9, <2>1 DEF Rounds
  <2> QED
    BY <1>2, <1>9, <2>2 DEF Rounds
<1> QED
  BY <1>7, <1>9, <1>10 DEF Rounds

-------------------------------------------------------------------------------
(* Sorted events work as a set *)

Sorted(es) == \A i, j \in DOMAIN es : i < j => ~ Before(es[j], es[i])

\* The events up to the kth, as a set.
UpToEvent(es, k) == {es[i] : i \in 1 .. k}

\* What is left of old after player p's events E for button b: off if there was a
\* release, and else on if there was a press.
After(E, p, b, off, on, old) ==
    IF \E e \in E : e.player = p /\ e.button = b /\ ~ e.pressed THEN off
    ELSE IF \E e \in E : e.player = p /\ e.button = b /\ e.pressed THEN on
    ELSE old

\* Presses come first, so that the next event for the button decides.
LEMMA AfterNext ==
    ASSUME NEW es \in Seq(Event), Sorted(es), NEW k \in 1 .. Len(es),
           NEW p, NEW b, NEW off, NEW on, NEW old
    PROVE  After(UpToEvent(es, k), p, b, off, on, old) =
             IF es[k].player = p /\ es[k].button = b
             THEN IF es[k].pressed THEN on ELSE off
             ELSE After(UpToEvent(es, k - 1), p, b, off, on, old)
<1> DEFINE E == UpToEvent(es, k)
           D == UpToEvent(es, k - 1)
<1>1. Len(es) \in Nat /\ DOMAIN es = 1 .. Len(es) /\ es[k] \in Event
  BY LenProperties, ElementOfSeq
<1>2. E = D \cup {es[k]}
  <2>1. 1 .. k = (1 .. (k - 1)) \cup {k}
    BY <1>1, SMT
  <2> QED
    BY <2>1 DEF UpToEvent
<1>3. es[k].pressed => \A e \in D : e.pressed
  <2> SUFFICES ASSUME es[k].pressed, NEW e \in D
               PROVE  e.pressed
    OBVIOUS
  <2>1. PICK i \in 1 .. (k - 1) : e = es[i]
    BY DEF UpToEvent
  <2>2. i \in DOMAIN es /\ k \in DOMAIN es /\ i < k
    BY <1>1, <2>1, SMT
  <2>3. ~ Before(es[k], es[i])
    BY <2>2 DEF Sorted
  <2> QED
    BY <2>1, <2>3 DEF Before
<1> HIDE DEF E, D
<1>4. CASE es[k].player = p /\ es[k].button = b /\ es[k].pressed
  <2>1. \A e \in E : e.pressed
    BY <1>2, <1>3, <1>4
  <2>2. es[k] \in E
    BY <1>2
  <2> QED
    BY <1>4, <2>1, <2>2 DEF After, E, D
<1>5. CASE es[k].player = p /\ es[k].button = b /\ ~ es[k].pressed
  <2>1. es[k] \in E
    BY <1>2
  <2> QED
    BY <1>5, <2>1 DEF After, E, D
<1>6. CASE ~ (es[k].player = p /\ es[k].button = b)
  <2>1. /\ (\E e \in E : e.player = p /\ e.button = b /\ ~ e.pressed)
             <=> (\E e \in D : e.player = p /\ e.button = b /\ ~ e.pressed)
        /\ (\E e \in E : e.player = p /\ e.button = b /\ e.pressed)
             <=> (\E e \in D : e.player = p /\ e.button = b /\ e.pressed)
    BY <1>2, <1>6
  <2>2. After(E, p, b, off, on, old) = After(D, p, b, off, on, old)
    BY <2>1 DEF After
  <2> QED
    BY <1>6, <2>2 DEF E, D
<1> QED
  BY <1>4, <1>5, <1>6

LEMMA AfterNone ==
    ASSUME NEW es, NEW p, NEW b, NEW off, NEW on, NEW old
    PROVE  UpToEvent(es, 0) = {} /\ After({}, p, b, off, on, old) = old
<1>1. 1 .. 0 = {}
  BY SMT
<1> QED
  BY <1>1 DEF UpToEvent, After

\* t is the ball b after the events E.
Reacted(b, t, E) ==
    /\ t \in Ball
    /\ t = [b EXCEPT !.buttons = t.buttons]
    /\ \A k \in Button : t.buttons[k] = After(E, b.player, k, FALSE, TRUE, b.buttons[k])

\* The buttons of a ball are determined by the set of the events.
LEMMA ReactSorted ==
    ASSUME NEW b \in Ball, NEW es \in Seq(Event), Sorted(es)
    PROVE  Reacted(b, React(b, es), UpToEvent(es, Len(es)))
<1> DEFINE n == Len(es)
<1>1. n \in Nat /\ \A k \in 1 .. n : es[k] \in Event
  BY LenProperties, ElementOfSeq
<1>2. PICK r \in [0 .. Len(es) -> Ball] :
        /\ r[0] = b
        /\ \A k \in 1 .. Len(es) : r[k] = Press(r[k - 1], es[k])
        /\ React(b, es) = r[Len(es)]
  BY PressRounds
<1> DEFINE P == {k \in 0 .. n : Reacted(b, r[k], UpToEvent(es, k))}
<1>3. 0 \in P
  <2>1. 0 \in 0 .. n
    BY <1>1, SMT
  <2>2. b = [b EXCEPT !.buttons = b.buttons]
    BY DEF Ball
  <2>3. \A k \in Button : After({}, b.player, k, FALSE, TRUE, b.buttons[k]) = b.buttons[k]
    BY DEF After
  <2>4. Reacted(b, b, {})
    BY <2>2, <2>3, Zenon DEF Reacted
  <2> QED
    BY <1>2, <2>1, <2>4, AfterNone
<1>4. ASSUME NEW k \in 1 .. n, k - 1 \in P
      PROVE  k \in P
  <2> DEFINE s == r[k - 1]
             t == r[k]
             e == es[k]
  <2>1. /\ k \in 0 .. n /\ k - 1 \in 0 .. n
        /\ e \in Event /\ s \in Ball /\ t = Press(s, e) /\ t \in Ball
        /\ Reacted(b, s, UpToEvent(es, k - 1))
    <3>1. k \in 0 .. n /\ k - 1 \in 0 .. n
      BY <1>1, SMT
    <3> QED
      BY <1>1, <1>2, <1>4, <3>1
  <2> HIDE DEF s, t, e
  <2>2. s.player = b.player
    <3>1. s = [b EXCEPT !.buttons = s.buttons]
      BY <2>1 DEF Reacted
    <3>2. [b EXCEPT !.buttons = s.buttons].player = b.player
      BY DEF Ball
    <3> QED
      BY <3>1, <3>2
  <2>3. /\ t = [s EXCEPT !.buttons = t.buttons]
        /\ \A c \in Button : t.buttons[c] =
             IF e.button = c /\ e.player = s.player THEN e.pressed ELSE s.buttons[c]
    <3>1. s \in Ball /\ e \in Event
      BY <2>1
    <3> HIDE <2>1
    <3>2. /\ Press(s, e) = [s EXCEPT !.buttons = Press(s, e).buttons]
          /\ \A c \in Button : Press(s, e).buttons[c] =
               IF e.button = c /\ e.player = s.player THEN e.pressed ELSE s.buttons[c]
      BY <3>1, PressType
    <3> QED
      BY <2>1, <3>2
  <2>4. t = [b EXCEPT !.buttons = t.buttons]
    BY <2>1, <2>2, <2>3 DEF Reacted, Ball
  <2>5. ASSUME NEW c \in Button
        PROVE  t.buttons[c] = After(UpToEvent(es, k), b.player, c, FALSE, TRUE, b.buttons[c])
    <3>1. t.buttons[c] = IF e.button = c /\ e.player = s.player THEN e.pressed ELSE s.buttons[c]
      BY <2>3
    <3>2. s.buttons[c] = After(UpToEvent(es, k - 1), b.player, c, FALSE, TRUE, b.buttons[c])
      BY <2>1 DEF Reacted
    <3>3. After(UpToEvent(es, k), b.player, c, FALSE, TRUE, b.buttons[c]) =
            IF e.player = b.player /\ e.button = c
            THEN IF e.pressed THEN TRUE ELSE FALSE
            ELSE After(UpToEvent(es, k - 1), b.player, c, FALSE, TRUE, b.buttons[c])
      <4>1. \A off, on, old :
              After(UpToEvent(es, k), b.player, c, off, on, old) =
                IF es[k].player = b.player /\ es[k].button = c
                THEN IF es[k].pressed THEN on ELSE off
                ELSE After(UpToEvent(es, k - 1), b.player, c, off, on, old)
        BY AfterNext
      <4> QED
        BY <4>1, Zenon DEF e
    <3>4. (IF e.pressed THEN TRUE ELSE FALSE) = e.pressed
      BY <2>1 DEF Event
    <3> QED
      BY <2>2, <3>1, <3>2, <3>3, <3>4, Zenon
  <2>6. Reacted(b, t, UpToEvent(es, k))
    BY <2>1, <2>4, <2>5 DEF Reacted
  <2> QED
    BY <2>1, <2>6 DEF t
<1>5. \A k \in 0 .. n : k \in P
  <2> HIDE DEF P
  <2> QED
    BY <1>1, <1>3, <1>4, UpTo
<1>6. n \in 0 .. n
  BY <1>1, SMT
<1> QED
  BY <1>2, <1>5, <1>6

\* t is the state ini after the connect events among E.
Joins(ini, t, E) ==
    /\ t \in Game
    /\ t.deathCount = ini.deathCount /\ t.frame = ini.frame /\ t.lie = ini.lie
    /\ t.scores = ini.scores
    /\ t.paused = (ini.paused /\ \A e \in E : e.button # N_BUTTONS)
    /\ \A i \in Index : t.balls[i] =
         [ini.balls[i] EXCEPT !.player = After(E, i, N_BUTTONS, -1, i, ini.balls[i].player)]

\* Who is in the game is determined by the set of the events.
LEMMA ConnectSorted ==
    ASSUME NEW ini \in Game, NEW es \in Seq(Event), Sorted(es)
    PROVE  Joins(ini, FoldLeft(Connect, ini, es), UpToEvent(es, Len(es)))
<1> DEFINE n == Len(es)
<1>1. n \in Nat /\ \A k \in 1 .. n : es[k] \in Event
  BY LenProperties, ElementOfSeq
<1>2. PICK r \in [0 .. Len(es) -> Game] :
        /\ r[0] = ini
        /\ \A k \in 1 .. Len(es) : r[k] = Connect(r[k - 1], es[k])
        /\ FoldLeft(Connect, ini, es) = r[Len(es)]
  BY ConnectRounds
<1>3. /\ ini.balls \in [Index -> Ball] /\ ini.paused \in BOOLEAN
      /\ \A i \in Index : ini.balls[i] = [ini.balls[i] EXCEPT !.player = ini.balls[i].player]
  BY DEF Game, State, Ball
<1> DEFINE P == {k \in 0 .. n : Joins(ini, r[k], UpToEvent(es, k))}
<1>4. 0 \in P
  <2>1. 0 \in 0 .. n
    BY <1>1, SMT
  <2>2. \A i \in Index : After({}, i, N_BUTTONS, -1, i, ini.balls[i].player) = ini.balls[i].player
    BY AfterNone
  <2>3. ini.paused = (ini.paused /\ \A e \in {} : e.button # N_BUTTONS)
    BY <1>3
  <2>4. Joins(ini, ini, {})
    BY <1>3, <2>2, <2>3 DEF Joins
  <2> QED
    BY <1>2, <2>1, <2>4, AfterNone
<1>5. ASSUME NEW k \in 1 .. n, k - 1 \in P
      PROVE  k \in P
  <2> DEFINE s == r[k - 1]
             t == r[k]
             e == es[k]
             E == UpToEvent(es, k)
             D == UpToEvent(es, k - 1)
  <2>1. /\ k \in 0 .. n /\ k - 1 \in 0 .. n
        /\ e \in Event /\ s \in Game /\ t = Connect(s, e) /\ t \in Game
        /\ Joins(ini, s, D)
    <3>1. k \in 0 .. n /\ k - 1 \in 0 .. n
      BY <1>1, SMT
    <3> QED
      BY <1>1, <1>2, <1>5, <3>1
  <2>2. E = D \cup {e}
    <3>1. 1 .. k = (1 .. (k - 1)) \cup {k}
      BY <1>1, SMT
    <3> QED
      BY <3>1 DEF UpToEvent
  <2>3. ASSUME NEW i \in Index
        PROVE  After(E, i, N_BUTTONS, -1, i, ini.balls[i].player) =
                 IF e.player = i /\ e.button = N_BUTTONS
                 THEN IF e.pressed THEN i ELSE -1
                 ELSE After(D, i, N_BUTTONS, -1, i, ini.balls[i].player)
    BY AfterNext
  <2> HIDE DEF s, t, e, E, D
  <2>4. /\ t.deathCount = s.deathCount /\ t.frame = s.frame /\ t.lie = s.lie
        /\ t.scores = s.scores
        /\ t.paused = (s.paused /\ e.button # N_BUTTONS)
        /\ \A i \in Index : t.balls[i] =
             IF e.button = N_BUTTONS /\ e.player = i
             THEN [s.balls[i] EXCEPT !.player = IF e.pressed THEN i ELSE -1]
             ELSE s.balls[i]
    BY ZenonT(60), <2>1, ConnectType
  <2>5. t.paused = (ini.paused /\ \A d \in E : d.button # N_BUTTONS)
    BY <1>3, <2>1, <2>2, <2>4 DEF Joins
  <2>6. ASSUME NEW i \in Index
        PROVE  t.balls[i] =
                 [ini.balls[i] EXCEPT !.player = After(E, i, N_BUTTONS, -1, i, ini.balls[i].player)]
    <3> DEFINE a == After(D, i, N_BUTTONS, -1, i, ini.balls[i].player)
    <3>1. s.balls[i] = [ini.balls[i] EXCEPT !.player = a]
      BY <2>1 DEF Joins
    <3>2. CASE e.button = N_BUTTONS /\ e.player = i
      <4> DEFINE q == IF e.pressed THEN i ELSE -1
      <4>1. t.balls[i] = [s.balls[i] EXCEPT !.player = q]
        BY <2>4, <3>2
      <4>2. After(E, i, N_BUTTONS, -1, i, ini.balls[i].player) = q
        BY <2>3, <3>2
      <4> HIDE DEF q, a
      <4>3. [s.balls[i] EXCEPT !.player = q] = [ini.balls[i] EXCEPT !.player = q]
        BY <1>3, <3>1 DEF Ball
      <4> QED
        BY <4>1, <4>2, <4>3
    <3>3. CASE ~ (e.button = N_BUTTONS /\ e.player = i)
      BY <2>3, <2>4, <3>1, <3>3
    <3> QED
      BY <3>2, <3>3
  <2>7. Joins(ini, t, E)
    BY <2>1, <2>4, <2>5, <2>6 DEF Joins
  <2> QED
    BY <2>1, <2>7 DEF t, E
<1>6. \A k \in 0 .. n : k \in P
  <2> HIDE DEF P
  <2> QED
    BY <1>1, <1>4, <1>5, UpTo
<1>7. n \in 0 .. n
  BY <1>1, SMT
<1> QED
  BY <1>2, <1>6, <1>7

-------------------------------------------------------------------------------
(* Sorting *)

\* compare_events orders the events, those that are alike for it together.
LEMMA BeforeIsOrder ==
    ASSUME NEW a \in Event, NEW b \in Event, NEW c \in Event
    PROVE  /\ ~ (Before(a, b) /\ Before(b, a))
           /\ Before(a, b) /\ Before(b, c) => Before(a, c)
<1>1. \A e \in Event : /\ e.player \in Int /\ e.button \in Int /\ e.frame \in Int
                       /\ e.pressed \in BOOLEAN
  <2> TAKE e \in Event
  <2>1. e.player \in Player /\ e.button \in 0 .. N_BUTTONS /\ e.frame \in Nat /\ e.pressed \in BOOLEAN
    BY DEF Event
  <2>2. Player \subseteq Nat
    BY Sizes
  <2>3. 0 .. N_BUTTONS \subseteq Int
    BY DEF N_BUTTONS
  <2>4. Nat \subseteq Int
    OBVIOUS
  <2> QED
    BY <2>1, <2>2, <2>3, <2>4
<1> QED
  BY <1>1, SMT DEF Before

\* f is an order of the first k events, as it may come of sorting them.
Arranges(f, es, k) ==
    /\ f \in [1 .. k -> 1 .. k]
    /\ \A i, j \in 1 .. k : i # j => f[i] # f[j]
    /\ \A i, j \in 1 .. k : i < j => ~ Before(es[f[j]], es[f[i]])

\* The next event goes before the first one that it comes before.
LEMMA InsertNext ==
    ASSUME NEW es \in Seq(Event), NEW k \in 1 .. Len(es), NEW f, Arranges(f, es, k - 1)
    PROVE  \E g : Arranges(g, es, k)
<1> DEFINE m == k - 1
           later == {j \in 1 .. m : Before(es[k], es[f[j]])} \cup {k}
<1>1. /\ Len(es) \in Nat /\ k \in Nat /\ k <= Len(es) /\ m \in Nat
      /\ \A i \in 1 .. k : es[i] \in Event
      /\ \A i \in 1 .. m : f[i] \in 1 .. m /\ f[i] \in 1 .. k
  BY LenProperties, ElementOfSeq, SMTT(30) DEF Arranges
<1>2. PICK p \in later : \A j \in later : p <= j
  <2>1. later \in SUBSET Nat /\ later # {}
    BY <1>1, SMT
  <2> HIDE DEF later
  <2> QED
    BY <2>1, Least
<1>3. p \in 1 .. k
  BY <1>1, SMT
<1> DEFINE g == [i \in 1 .. k |-> IF i < p THEN f[i] ELSE IF i = p THEN k ELSE f[i - 1]]
<1>4. /\ \A i \in 1 .. k : i < p => i \in 1 .. m /\ g[i] = f[i]
      /\ g[p] = k
      /\ \A i \in 1 .. k : p < i => i - 1 \in 1 .. m /\ i - 1 >= p /\ g[i] = f[i - 1]
  <2>1. \A i \in 1 .. k : i < p => i \in 1 .. m
    BY <1>1, <1>3, SMT
  <2>2. \A i \in 1 .. k : p < i => i - 1 \in 1 .. m /\ i - 1 >= p /\ ~ (i < p) /\ i # p
    BY <1>1, <1>3, SMT
  <2>3. ~ (p < p)
    BY <1>3, SMT
  <2> QED
    BY <1>3, <2>1, <2>2, <2>3
<1>5. \A i \in 1 .. k : g[i] \in 1 .. k
  <2> TAKE i \in 1 .. k
  <2>1. i < p \/ i = p \/ p < i
    BY <1>3, SMT
  <2> HIDE DEF g
  <2> QED
    BY SMTT(30), <1>1, <1>3, <1>4, <2>1
<1>6. \A i \in 1 .. m : f[i] # k /\ f[i] \in Int
  BY <1>1, SMT
<1>7. \A i \in 1 .. k : i < p => ~ Before(es[k], es[f[i]])
  <2> TAKE i \in 1 .. k
  <2> HAVE i < p
  <2>1. ~ (p <= i) /\ i \in 1 .. m
    BY <1>3, <1>4, SMT
  <2> QED
    BY <1>2, <2>1
<1>8. ASSUME NEW i \in 1 .. m, p <= i
      PROVE  ~ Before(es[f[i]], es[k])
  <2>1. p \in 1 .. m /\ Before(es[k], es[f[p]])
    <3>1. p # k /\ p \in 1 .. m
      BY <1>1, <1>3, <1>8, SMT
    <3> QED
      BY <1>2, <3>1
  <2>2. es[k] \in Event /\ es[f[p]] \in Event /\ es[f[i]] \in Event
    <3>1. k \in 1 .. k
      BY <1>1, SMT
    <3> QED
      BY <1>1, <2>1, <3>1
  <2>3. CASE i = p
    BY <2>1, <2>2, <2>3, BeforeIsOrder
  <2>4. CASE i # p
    <3>1. p < i
      BY <1>3, <1>8, <2>4, SMT
    <3>2. ~ Before(es[f[i]], es[f[p]])
      BY <2>1, <3>1 DEF Arranges
    <3> QED
      BY <2>1, <2>2, <3>2, BeforeIsOrder
  <2> QED
    BY <2>3, <2>4
<1>9. ASSUME NEW i \in 1 .. k, NEW j \in 1 .. k, i < j
      PROVE  g[i] # g[j] /\ ~ Before(es[g[j]], es[g[i]])
  <2> HIDE DEF g
  <2>1. CASE j < p
    <3>1. i < p
      BY <1>3, <1>9, <2>1, SMT
    <3>2. i \in 1 .. m /\ j \in 1 .. m /\ g[i] = f[i] /\ g[j] = f[j] /\ i # j
      BY <1>4, <1>9, <2>1, <3>1, SMT
    <3> QED
      BY <1>9, <3>2 DEF Arranges
  <2>2. CASE j = p
    <3>1. g[j] = k /\ g[i] = f[i] /\ i \in 1 .. m /\ i < p
      BY <1>4, <1>9, <2>2
    <3> QED
      BY <1>6, <1>7, <3>1
  <2>3. CASE p < j
    <3>1. j - 1 \in 1 .. m /\ j - 1 >= p /\ g[j] = f[j - 1]
      BY <1>4, <2>3
    <3>2. CASE i < p
      <4>1. i \in 1 .. m /\ g[i] = f[i] /\ i < j - 1
        BY <1>3, <1>4, <3>1, <3>2, SMT
      <4>2. i # j - 1
        BY <4>1, SMT
      <4> QED
        BY <3>1, <4>1, <4>2 DEF Arranges
    <3>3. CASE i = p
      <4>1. p <= j - 1
        BY <1>3, <3>1, SMT
      <4>2. g[i] = k
        BY <1>4, <3>3
      <4> QED
        BY <1>6, <1>8, <3>1, <4>1, <4>2
    <3>4. CASE p < i
      <4>1. i - 1 \in 1 .. m /\ g[i] = f[i - 1]
        BY <1>4, <3>4
      <4>2. i - 1 < j - 1 /\ i - 1 # j - 1
        BY <1>9, SMT
      <4> QED
        BY <3>1, <4>1, <4>2 DEF Arranges
    <3>5. i < p \/ i = p \/ p < i
      BY <1>3, SMT
    <3> QED
      BY <3>2, <3>3, <3>4, <3>5
  <2>4. j < p \/ j = p \/ p < j
    BY <1>3, SMT
  <2> QED
    BY <2>1, <2>2, <2>3, <2>4
<1>10. \A i, j \in 1 .. k : i # j => i < j \/ j < i
  BY SMT
<1>11. \A i, j \in 1 .. k : i # j => g[i] # g[j]
  <2> HIDE DEF g
  <2> QED
    BY <1>9, <1>10
<1>12. g \in [1 .. k -> 1 .. k]
  <2>1. g = [i \in 1 .. k |-> g[i]]
    OBVIOUS
  <2> HIDE DEF g
  <2> QED
    BY <1>5, <2>1
<1> HIDE DEF g
<1>13. Arranges(g, es, k)
  BY <1>9, <1>11, <1>12 DEF Arranges
<1> QED
  BY <1>13

\* Every array of events can be sorted.
LEMMA OrderExists ==
    ASSUME NEW es \in Seq(Event)
    PROVE  \E f : Arranges(f, es, Len(es))
<1> DEFINE n == Len(es)
           P == {k \in 0 .. n : \E f : Arranges(f, es, k)}
<1>1. n \in Nat
  BY LenProperties
<1>2. 0 \in P
  <2>1. 0 \in 0 .. n /\ 1 .. 0 = {}
    BY <1>1, SMT
  <2>2. Arranges([i \in 1 .. 0 |-> i], es, 0)
    BY <2>1 DEF Arranges
  <2> QED
    BY <2>1, <2>2
<1>3. ASSUME NEW k \in 1 .. n, k - 1 \in P
      PROVE  k \in P
  <2>1. k \in 0 .. n
    BY <1>1, SMT
  <2>2. PICK f : Arranges(f, es, k - 1)
    BY <1>3
  <2> QED
    BY <2>1, <2>2, InsertNext
<1>4. \A k \in 0 .. n : k \in P
  <2> HIDE DEF P
  <2> QED
    BY <1>1, <1>2, <1>3, UpTo
<1>5. n \in 0 .. n
  BY <1>1, SMT
<1> QED
  BY <1>4, <1>5

\* What Orders has are the orders that sort the events.
LEMMA OrdersAre ==
    ASSUME NEW es \in Seq(Event), NEW f
    PROVE  f \in Orders(es) <=> Arranges(f, es, Len(es))
<1> DEFINE n == Len(es)
           D == 1 .. n
<1>1. n \in Nat /\ DOMAIN es = D
  BY LenProperties
<1>2. Cardinality(D) = n
  <2>1. Cardinality(D) = IF 1 > n THEN 0 ELSE n - 1 + 1
    BY SMTT(30), <1>1, FS_Interval
  <2> QED
    BY <1>1, <2>1, SMT
<1>3. SetToSeqs(DOMAIN es) = {s \in [D -> D] : \A i, j \in D : i # j => s[i] # s[j]}
  BY <1>1, <1>2 DEF SetToSeqs
<1>4. f \in [D -> D] => DOMAIN f = D
  OBVIOUS
<1> HIDE DEF D
<1>5. f \in Orders(es) <=>
        /\ f \in [D -> D] /\ \A i, j \in D : i # j => f[i] # f[j]
        /\ \A i, j \in DOMAIN f : i < j => ~ Before(es[f[j]], es[f[i]])
  BY <1>3 DEF Orders
<1> QED
  BY <1>4, <1>5 DEF Arranges, D

\* es in the order f.
InOrder(es, f) == [i \in DOMAIN f |-> es[f[i]]]

\* The events in such an order are sorted, and the same ones.
LEMMA ArrangedIs ==
    ASSUME NEW es \in Seq(Event), NEW f, Arranges(f, es, Len(es))
    PROVE  /\ InOrder(es, f) \in Seq(Event)
           /\ Sorted(InOrder(es, f))
           /\ UpToEvent(InOrder(es, f), Len(InOrder(es, f))) = {es[i] : i \in DOMAIN es}
<1> DEFINE n == Len(es)
           D == 1 .. n
           q == InOrder(es, f)
<1>1. n \in Nat /\ DOMAIN es = D /\ \A i \in D : es[i] \in Event
  BY LenProperties, ElementOfSeq
<1>2. f \in [D -> D] /\ DOMAIN f = D
  BY DEF Arranges
<1>3. q = [i \in D |-> es[f[i]]]
  BY <1>2 DEF InOrder
<1>4. q \in Seq(Event) /\ Len(q) = n /\ DOMAIN q = D
  <2>1. q \in [D -> Event]
    BY <1>1, <1>2, <1>3
  <2>2. q \in Seq(Event)
    BY <1>1, <2>1, SeqDef
  <2>3. DOMAIN q = 1 .. Len(q) /\ Len(q) \in Nat
    BY <2>2, LenProperties
  <2>4. Len(q) = n
    BY <1>1, <2>1, <2>2, LenProperties
  <2> QED
    BY <2>2, <2>3, <2>4
<1>5. Sorted(q)
  BY SMTT(30), <1>3, <1>4 DEF Sorted, Arranges
<1>6. \A d \in D : \E i \in D : f[i] = d
  <2>1. f \in Injection(D, D)
    BY <1>2 DEF Arranges, Injection, IsInjective
  <2>2. IsFiniteSet(D)
    BY <1>1, FS_Interval
  <2>3. f \in Surjection(D, D)
    BY <2>1, <2>2, FS_Injection
  <2> QED
    BY <2>3 DEF Surjection
<1>7. {q[i] : i \in D} = {es[i] : i \in D}
  <2> HIDE DEF q, D
  <2>1. \A i \in D : f[i] \in D /\ q[i] = es[f[i]]
    BY <1>2, <1>3
  <2>2. \A d \in D : \E i \in D : q[i] = es[d]
    BY <1>6, <2>1
  <2> QED
    BY <2>1, <2>2
<1> HIDE DEF q
<1> QED
  BY <1>1, <1>4, <1>5, <1>7 DEF UpToEvent, q

\* What Sort returns.
LEMMA SortIs ==
    ASSUME NEW es \in Seq(Event)
    PROVE  /\ Sort(es) \in Seq(Event) /\ Sorted(Sort(es))
           /\ UpToEvent(Sort(es), Len(Sort(es))) = {es[i] : i \in DOMAIN es}
<1>1. \E f : f \in Orders(es)
  BY OrderExists, OrdersAre
<1>2. PICK f \in Orders(es) : Sort(es) = InOrder(es, f)
  BY <1>1 DEF Sort, InOrder
<1>3. Arranges(f, es, Len(es))
  BY <1>2, OrdersAre
<1> QED
  BY <1>2, <1>3, ArrangedIs

-------------------------------------------------------------------------------
(* The motion of a ball *)

\* A ball that may have left the arena, or be too fast.
Flying ==
    [x : Int, y : Int, vx : Int, vy : Int,
     player : Player \cup {-1}, buttons : [Button -> BOOLEAN]]

LEMMA AccelerateType ==
    ASSUME NEW b \in Ball, NEW es \in Seq(Event), Sorted(es)
    PROVE  Accelerate(b, es) \in Flying /\ Accelerate(b, es).player = b.player
<1> DEFINE t == React(b, es)
<1>1. t \in Ball /\ t.player = b.player
  <2>1. t \in Ball /\ t = [b EXCEPT !.buttons = t.buttons]
    BY ReactSorted DEF Reacted
  <2>2. [b EXCEPT !.buttons = t.buttons].player = b.player
    BY DEF Ball
  <2> QED
    BY <2>1, <2>2
<1>2. \A o \in BOOLEAN : On(o) \in Int
  BY Sizes DEF On
<1>3. \A z \in Int : Inwards(z) \in Int
  <2> TAKE z \in Int
  <2>1. ACCEL \in Int
    BY Sizes
  <2> QED
    BY <2>1 DEF Inwards
<1>4. \A d \in Ball : d.x \in Int /\ d.y \in Int /\ d.vx \in Int /\ d.vy \in Int
  <2>1. 0 .. ARENA_SIZE - 1 \subseteq Int /\ - MAX_SPEED .. MAX_SPEED \subseteq Int
    BY SMT
  <2> QED
    BY <2>1 DEF Ball
<1> DEFINE sped(d, v, w) == [d EXCEPT !.vx = v, !.vy = w]
<1>5. ASSUME NEW d \in Ball, NEW v \in Int, NEW w \in Int
      PROVE  sped(d, v, w) \in Flying /\ sped(d, v, w).player = d.player
  <2> PICK u : u = sped(d, v, w)
    OBVIOUS
  <2>1. u = [x |-> d.x, y |-> d.y, vx |-> v, vy |-> w, player |-> d.player, buttons |-> d.buttons]
    BY DEF Ball
  <2>2. /\ d.x \in Int /\ d.y \in Int
        /\ d.player \in Player \cup {-1} /\ d.buttons \in [Button -> BOOLEAN]
    BY <1>4 DEF Ball
  <2> QED
    BY <2>1, <2>2 DEF Flying
<1> HIDE DEF t
<1>6. CASE b.player >= 0
  <2> DEFINE v == t.vx + On(t.buttons[0]) - On(t.buttons[2])
             w == t.vy + On(t.buttons[3]) - On(t.buttons[1])
  <2>1. \A k \in Button : t.buttons[k] \in BOOLEAN
    BY <1>1 DEF Ball
  <2>2. 0 \in Button /\ 1 \in Button /\ 2 \in Button /\ 3 \in Button
    BY SMT DEF Button, N_BUTTONS
  <2>3. v \in Int /\ w \in Int
    BY SMTT(30), <1>1, <1>2, <1>4, <2>1, <2>2
  <2>4. Accelerate(b, es) = sped(t, v, w)
    BY <1>1, <1>6 DEF Accelerate, t, Ball
  <2> HIDE DEF v, w, sped
  <2> QED
    BY <1>1, <1>5, <2>3, <2>4
<1>7. CASE ~ (b.player >= 0)
  <2> DEFINE v == b.vx + Inwards(b.x)
             w == b.vy + Inwards(b.y)
  <2>1. b.x \in Int /\ b.y \in Int /\ b.vx \in Int /\ b.vy \in Int
    BY <1>4
  <2>2. Inwards(b.x) \in Int /\ Inwards(b.y) \in Int
    BY <1>3, <2>1
  <2>3. v \in Int /\ w \in Int
    BY SMTT(30), <2>1, <2>2
  <2>4. Accelerate(b, es) = sped(b, v, w)
    BY <1>7 DEF Accelerate, Ball
  <2> HIDE DEF v, w, sped
  <2> QED
    BY <1>5, <2>3, <2>4
<1> QED
  BY <1>6, <1>7

LEMMA MovedType ==
    ASSUME NEW b \in Flying
    PROVE  /\ Moved(b) \in Flying /\ Moved(b).player = b.player
           /\ Moved(b).vx \in - MAX_SPEED .. MAX_SPEED
           /\ Moved(b).vy \in - MAX_SPEED .. MAX_SPEED
           /\ Inside(Moved(b)) => Moved(b) \in Ball
<1> DEFINE vx == Limit(b.vx)
           vy == Limit(b.vy)
           x == b.x + vx
           y == b.y + vy
<1>1. /\ \A v \in Int : Limit(v) \in - MAX_SPEED .. MAX_SPEED
      /\ - MAX_SPEED .. MAX_SPEED \subseteq Int
  BY Sizes, SMT DEF Limit
<1>2. /\ vx \in - MAX_SPEED .. MAX_SPEED /\ vy \in - MAX_SPEED .. MAX_SPEED
      /\ vx \in Int /\ vy \in Int /\ x \in Int /\ y \in Int
  BY <1>1 DEF Flying
<1>3. Moved(b) = [b EXCEPT !.vx = vx, !.vy = vy, !.x = x, !.y = y]
  BY DEF Moved, Flying
<1> HIDE DEF vx, vy, x, y
<1>4. /\ Moved(b) \in Flying /\ Moved(b).player = b.player
      /\ Moved(b).vx = vx /\ Moved(b).vy = vy
  BY <1>2, <1>3 DEF Flying
<1>5. Inside(Moved(b)) => Moved(b) \in Ball
  BY <1>2, <1>4 DEF Inside, Flying, Ball
<1> QED
  BY <1>2, <1>4, <1>5

\* The remainder of C is less than what was divided by, on either side of zero.
LEMMA RemOf3 ==
    ASSUME NEW a \in Int
    PROVE  Quot(a, 3) \in Int /\ Rem(a, 3) \in -2 .. 2
BY SMT DEF Rem, Quot

LEMMA ResetBallType ==
    ASSUME NEW b \in Flying, NEW seed \in Int
    PROVE  ResetBall(b, seed) \in Ball /\ ResetBall(b, seed).player = b.player
<1> DEFINE place(r) == ((3 + r) * ARENA_SIZE) \div 9
           x == place(Rem(11 * seed, 3))
           y == place(Rem(Quot(11 * seed, 3), 3))
<1>1. \A r \in -2 .. 2 : place(r) \in 0 .. ARENA_SIZE - 1
  <2>1. ARENA_SIZE \in Nat /\ ARENA_SIZE >= 1
    BY Sizes, SMT
  <2>2. \A k \in 1 .. 5 : (k * ARENA_SIZE) \div 9 \in 0 .. ARENA_SIZE - 1
    <3>1. /\ (1 * ARENA_SIZE) \div 9 \in 0 .. ARENA_SIZE - 1
          /\ (2 * ARENA_SIZE) \div 9 \in 0 .. ARENA_SIZE - 1
          /\ (3 * ARENA_SIZE) \div 9 \in 0 .. ARENA_SIZE - 1
          /\ (4 * ARENA_SIZE) \div 9 \in 0 .. ARENA_SIZE - 1
          /\ (5 * ARENA_SIZE) \div 9 \in 0 .. ARENA_SIZE - 1
      BY <2>1, SMT
    <3>2. \A k \in 1 .. 5 : k = 1 \/ k = 2 \/ k = 3 \/ k = 4 \/ k = 5
      BY SMT
    <3> QED
      BY <3>1, <3>2
  <2>3. \A r \in -2 .. 2 : 3 + r \in 1 .. 5
    BY SMT
  <2> QED
    BY <2>2, <2>3
<1>2. 11 * seed \in Int
  BY SMT
<1>3. x \in 0 .. ARENA_SIZE - 1 /\ y \in 0 .. ARENA_SIZE - 1
  BY <1>1, <1>2, RemOf3
<1>4. ResetBall(b, seed) = [b EXCEPT !.vx = 0, !.vy = 0, !.x = x, !.y = y]
  BY DEF ResetBall
<1> HIDE DEF x, y
<1>5. 0 \in - MAX_SPEED .. MAX_SPEED
  BY Sizes, SMT
<1> QED
  BY <1>3, <1>4, <1>5 DEF Flying, Ball

-------------------------------------------------------------------------------
(* The initial state *)

\* The grid on which the balls are set up lies in the arena.
LEMMA GridInArena ==
    /\ legionSize \in Nat \ {0} /\ N_BALLS <= legionSize * legionSize
    /\ \A k \in 0 .. legionSize - 1 : GridAt(k) \in 0 .. ARENA_SIZE - 1
<1>1. N_BALLS \in Nat \ {0} /\ ARENA_SIZE \in Nat \ {0}
  BY Sizes, SMT
<1> DEFINE large == {k \in 0 .. N_BALLS : k * k >= N_BALLS}
<1>2. PICK m \in large : \A k \in large : m <= k
  <2>1. N_BALLS \in 0 .. N_BALLS /\ N_BALLS * N_BALLS >= N_BALLS
    BY <1>1, SMT
  <2>2. large \in SUBSET Nat /\ large # {}
    BY <2>1, SMT
  <2> HIDE DEF large
  <2> QED
    BY <2>2, Least
<1>3. m \in 0 .. N_BALLS /\ m * m >= N_BALLS
  BY <1>2
<1>4. \A j \in 0 .. m - 1 : j * j < N_BALLS
  <2> TAKE j \in 0 .. m - 1
  <2>1. j \in 0 .. N_BALLS /\ ~ (m <= j)
    BY <1>1, <1>3, SMT
  <2>2. ~ (j * j >= N_BALLS)
    BY <1>2, <2>1
  <2>3. j * j \in Int
    BY <2>1, SMT
  <2> QED
    BY <1>1, <2>2, <2>3, SMT
<1> DEFINE n == legionSize
<1>5. n \in 0 .. N_BALLS /\ n * n >= N_BALLS
  BY <1>3, <1>4 DEF legionSize
<1>6. n \in Nat \ {0} /\ N_BALLS <= n * n
  <2>1. n # 0
    <3>1. 0 * 0 = 0 /\ ~ (0 >= N_BALLS)
      BY <1>1, SMT
    <3> HIDE DEF n
    <3> QED
      BY <1>5, <3>1
  <2> HIDE DEF n
  <2> QED
    BY <1>1, <1>5, <2>1, SMT
<1>7. ASSUME NEW k \in 0 .. n - 1
      PROVE  ((1 + 2 * k) * ARENA_SIZE) \div (2 * n) \in 0 .. ARENA_SIZE - 1
  <2> DEFINE odd == 1 + 2 * k
             a == odd * ARENA_SIZE
             d == 2 * n
             q == a \div d
  <2> HIDE DEF n
  <2>1. odd \in Nat /\ d \in Nat \ {0} /\ odd <= d - 1
    BY <1>6, SMT
  <2> HIDE DEF odd, d
  <2>2. a \in Nat /\ a < d * ARENA_SIZE
    BY <1>1, <2>1, SMT
  <2> HIDE DEF a
  <2>3. q \in Int /\ d * q <= a /\ a < d * (q + 1)
    BY <2>1, <2>2, SMT
  <2> HIDE DEF q
  <2>4. q >= 0
    <3> SUFFICES ASSUME q + 1 <= 0 PROVE FALSE
      BY <2>3, SMT
    <3>1. d * (q + 1) <= 0
      BY <2>1, <2>3, SMT
    <3> QED
      BY <2>1, <2>2, <2>3, <3>1, SMT
  <2>5. q < ARENA_SIZE
    <3> SUFFICES ASSUME q >= ARENA_SIZE PROVE FALSE
      BY <1>1, <2>3, SMT
    <3>1. d * q >= d * ARENA_SIZE
      BY <1>1, <2>1, <2>3, SMT
    <3> QED
      BY <1>1, <2>1, <2>2, <2>3, <3>1, SMT
  <2>6. q \in 0 .. ARENA_SIZE - 1
    BY <1>1, <2>3, <2>4, <2>5, SMT
  <2> QED
    BY <2>6 DEF q, a, d, odd
<1> QED
  BY <1>6, <1>7 DEF GridAt

LEMMA InitialStateType == InitialState \in Game /\ InitialState.frame = 0
<1> DEFINE n == legionSize
           ball(i) == [x |-> GridAt(i % n), y |-> GridAt(i \div n), vx |-> 0, vy |-> 0,
                       player |-> -1, buttons |-> [r \in Button |-> FALSE]]
           balls == [i \in Index |-> ball(i)]
           scores == [p \in Player |-> 0]
<1>1. n \in Nat \ {0} /\ N_BALLS \in Nat /\ N_BALLS <= n * n
  BY Sizes, GridInArena
<1>2. ASSUME NEW i \in Index
      PROVE  ball(i) \in Ball
  <2>1. i % n \in 0 .. n - 1 /\ i \div n \in 0 .. n - 1
    <3>1. i \in Nat /\ i < N_BALLS
      BY <1>1, SMT DEF Index
    <3> DEFINE q == i \div n
    <3> HIDE DEF n
    <3>2. q \in Int /\ n * q <= i /\ i < n * (q + 1) /\ i % n \in 0 .. n - 1
      BY <1>1, <3>1, SMT
    <3> HIDE DEF q
    <3>3. q >= 0
      <4> SUFFICES ASSUME q + 1 <= 0 PROVE FALSE
        BY <3>2, SMT
      <4>1. n * (q + 1) <= 0
        BY <1>1, <3>2, SMT
      <4> QED
        BY <1>1, <3>1, <3>2, <4>1, SMT
    <3>4. q < n
      <4> SUFFICES ASSUME q >= n PROVE FALSE
        BY <1>1, <3>2, SMT
      <4>1. n * q >= n * n
        BY <1>1, <3>2, SMT
      <4> QED
        BY <1>1, <3>1, <3>2, <4>1, SMT
    <3>5. q \in 0 .. n - 1
      BY <1>1, <3>2, <3>3, <3>4, SMT
    <3> QED
      BY <3>2, <3>5 DEF q
  <2>2. GridAt(i % n) \in 0 .. ARENA_SIZE - 1 /\ GridAt(i \div n) \in 0 .. ARENA_SIZE - 1
    BY <2>1, GridInArena
  <2>3. 0 \in - MAX_SPEED .. MAX_SPEED
    BY Sizes, SMT
  <2> QED
    BY <2>2, <2>3 DEF Ball
<1>3. balls \in [Index -> Ball] /\ scores \in [Player -> Nat]
  BY <1>2
<1>4. \A i \in Index : balls[i].player = -1
  OBVIOUS
<1>5. InitialState = [paused |-> TRUE, frame |-> 0, deathCount |-> 0, lie |-> 0,
                      scores |-> scores, balls |-> balls]
  BY DEF InitialState
<1> HIDE DEF balls, scores
<1>6. InitialState \in State /\ InitialState.balls = balls
  BY <1>3, <1>5 DEF State
<1> QED
  BY <1>4, <1>5, <1>6 DEF Game

-------------------------------------------------------------------------------
(* The rounds of the loops over the balls *)

\* t is a state that may come of s within a frame.
Onward(s, t) ==
    /\ t \in Game
    /\ t.paused = s.paused /\ t.frame = s.frame /\ t.lie = s.lie
    /\ t.deathCount >= s.deathCount

\* Two states that are the same but for what the server does not send, or changes.
Alike(s, t) ==
    s.paused = t.paused /\ s.frame = t.frame /\ s.scores = t.scores /\ s.balls = t.balls

\* A ball is replaced.
SetBall(st, i, b) == [st EXCEPT !.balls[i] = b]

LEMMA SetBallType ==
    ASSUME NEW st \in Game, NEW i \in Index, NEW b \in Ball, b.player = st.balls[i].player
    PROVE  /\ Onward(st, SetBall(st, i, b))
           /\ SetBall(st, i, b).scores = st.scores
           /\ SetBall(st, i, b).deathCount = st.deathCount
           /\ SetBall(st, i, b).balls = [st.balls EXCEPT ![i] = b]
<1> DEFINE balls == [st.balls EXCEPT ![i] = b]
           t == SetBall(st, i, b)
<1>1. st \in State /\ st.balls \in [Index -> Ball] /\ \A j \in Index : st.balls[j].player \in {-1, j}
  BY DEF Game, State
<1>2. t = [st EXCEPT !.balls = balls]
  BY <1>1 DEF SetBall, State
<1>3. balls \in [Index -> Ball] /\ \A j \in Index : balls[j] = IF j = i THEN b ELSE st.balls[j]
  BY <1>1
<1> HIDE DEF balls, t
<1>4. t \in State /\ t.balls = balls
  BY <1>1, <1>2, <1>3 DEF State
<1>5. /\ t.paused = st.paused /\ t.frame = st.frame /\ t.lie = st.lie /\ t.scores = st.scores
      /\ t.deathCount = st.deathCount /\ st.deathCount \in Int
  BY <1>1, <1>2 DEF State
<1>6. \A j \in Index : t.balls[j].player \in {-1, j}
  BY <1>1, <1>3, <1>4
<1>7. t \in Game
  BY <1>4, <1>6 DEF Game
<1>8. t.deathCount >= st.deathCount
  BY <1>5
<1> QED
  BY <1>4, <1>5, <1>7, <1>8 DEF Onward, balls, t

\* A state with other scores and another count.
Scored(st, scores, n) == [st EXCEPT !.scores = scores, !.deathCount = n]

LEMMA ScoredType ==
    ASSUME NEW st \in Game, NEW scores \in [Player -> Nat], NEW n \in Int, n >= st.deathCount
    PROVE  /\ Onward(st, Scored(st, scores, n))
           /\ Scored(st, scores, n).scores = scores
           /\ Scored(st, scores, n).deathCount = n
           /\ Scored(st, scores, n).balls = st.balls
<1> DEFINE t == Scored(st, scores, n)
<1>1. st \in State /\ \A j \in Index : st.balls[j].player \in {-1, j}
  BY DEF Game
<1>2. t = [st EXCEPT !.scores = scores, !.deathCount = n]
  BY DEF Scored
<1> HIDE DEF t
<1>3. /\ t \in State /\ t.balls = st.balls /\ t.scores = scores /\ t.deathCount = n
      /\ t.paused = st.paused /\ t.frame = st.frame /\ t.lie = st.lie
  BY <1>1, <1>2 DEF State
<1>4. t \in Game
  BY <1>1, <1>3 DEF Game
<1> QED
  BY <1>3, <1>4 DEF Onward, t

\* What Update does: the ball moves on, or starts anew, which is counted.
LEMMA UpdateIs ==
    ASSUME NEW st \in Game, NEW i \in Index, NEW es \in Seq(Event), Sorted(es)
    PROVE  LET b == Moved(Accelerate(st.balls[i], es)) IN
             /\ Onward(st, Update(st, i, es))
             /\ Inside(b) => /\ b \in Ball /\ b.player = st.balls[i].player
                             /\ Update(st, i, es) = SetBall(st, i, b)
             /\ ~ Inside(b) => Update(st, i, es).deathCount > st.deathCount
<1> DEFINE a == st.balls[i]
           c == Accelerate(a, es)
           b == Moved(c)
           p == a.player
           t == Update(st, i, es)
<1>1. /\ st \in State /\ st.balls \in [Index -> Ball] /\ a \in Ball
      /\ st.scores \in [Player -> Nat] /\ st.deathCount \in Int
  BY DEF Game, State
<1>2. c \in Flying /\ c.player = p
  BY <1>1, AccelerateType
<1>3. b \in Flying /\ b.player = p /\ (Inside(b) => b \in Ball)
  BY <1>2, MovedType
<1>4. [st EXCEPT !.balls[i] = Moved(Accelerate(@, es))] = SetBall(st, i, b)
  BY <1>1 DEF SetBall, State
<1> DEFINE new == SetBall(st, i, b)
<1>5. new.balls[i] = b /\ new.deathCount = st.deathCount /\ new.scores = st.scores
  BY <1>1 DEF SetBall, State
<1>6. CASE Inside(b)
  <2>1. t = new
    BY <1>4, <1>5, <1>6 DEF Update
  <2>2. b \in Ball /\ b.player = a.player
    BY <1>3, <1>6
  <2> HIDE DEF b, t
  <2>3. Onward(st, new)
    BY <2>2, SetBallType
  <2> QED
    BY <1>6, <2>1, <2>2, <2>3 DEF b, t
<1>7. CASE ~ Inside(b)
  <2> DEFINE r == ResetBall(b, st.deathCount)
             die == Scored(SetBall(st, i, r), st.scores, st.deathCount + 1)
             less == [st.scores EXCEPT ![p] = IF @ > 0 THEN @ - 1 ELSE 0]
             fined == Scored(SetBall(st, i, r), less, st.deathCount + 1)
  <2>1. r \in Ball /\ r.player = st.balls[i].player
    BY <1>1, <1>3, ResetBallType
  <2> HIDE DEF b
  <2>2. Die(new, i) = die
    BY <1>1, <1>5 DEF Die, SetBall, Scored, State
  <2>3. st.deathCount + 1 \in Int /\ st.deathCount + 1 >= st.deathCount
        /\ st.deathCount + 1 > st.deathCount
    BY <1>1
  <2> HIDE DEF r, new
  <2>4. Onward(st, SetBall(st, i, r)) /\ SetBall(st, i, r).deathCount = st.deathCount
    BY ZenonT(60), <2>1, SetBallType
  <2> DEFINE u == SetBall(st, i, r)
  <2> HIDE DEF u
  <2>5. ASSUME NEW s \in [Player -> Nat]
        PROVE  /\ Onward(st, Scored(u, s, st.deathCount + 1))
               /\ Scored(u, s, st.deathCount + 1).deathCount = st.deathCount + 1
               /\ Scored(u, s, st.deathCount + 1).scores = s
    <3>1. u \in Game /\ u.deathCount = st.deathCount
      BY <2>4 DEF Onward, u
    <3> DEFINE n == st.deathCount + 1
    <3>2. n \in Int /\ n >= u.deathCount /\ n >= st.deathCount
      BY <2>3, <3>1
    <3> HIDE DEF n
    <3>3. /\ Onward(u, Scored(u, s, n))
          /\ Scored(u, s, n).deathCount = n /\ Scored(u, s, n).scores = s
      BY <3>1, <3>2, ScoredType
    <3>4. Onward(st, Scored(u, s, n))
      BY <2>4, <3>2, <3>3 DEF Onward, u
    <3> QED
      BY <3>3, <3>4 DEF n
  <2>6. CASE p < 0
    <3>1. t = die
      BY <1>4, <1>5, <1>7, <2>2, <2>6 DEF Update, new, b
    <3>2. Onward(st, die) /\ die.deathCount = st.deathCount + 1
      BY SMTT(30), <1>1, <2>5 DEF u
    <3> QED
      BY <1>7, <2>3, <3>1, <3>2 DEF b
  <2>7. CASE ~ (p < 0)
    <3>1. p \in Player
      <4>1. p \in Player \cup {-1}
        BY <1>1 DEF Ball
      <4>2. p # -1
        BY <2>7, SMT
      <4> QED
        BY <4>1, <4>2
    <3>2. less \in [Player -> Nat]
      <4>1. \A k \in Nat : (IF k > 0 THEN k - 1 ELSE 0) \in Nat
        BY SMT
      <4>2. st.scores[p] \in Nat
        BY <1>1, <3>1
      <4> DEFINE k == IF st.scores[p] > 0 THEN st.scores[p] - 1 ELSE 0
      <4>3. k \in Nat
        BY <4>1, <4>2
      <4>4. less = [st.scores EXCEPT ![p] = k]
        OBVIOUS
      <4> HIDE DEF k, less
      <4> QED
        BY <1>1, <4>3, <4>4
    <3>3. t = fined
      <4>1. t = [die EXCEPT !.scores[p] = IF @ > 0 THEN @ - 1 ELSE 0]
        BY <1>4, <1>5, <1>7, <2>2, <2>7 DEF Update, new, b
      <4>2. u \in State
        BY <2>4 DEF Onward, Game, u
      <4> QED
        BY <1>1, <4>1, <4>2 DEF Scored, State, u
    <3>4. Onward(st, fined) /\ fined.deathCount = st.deathCount + 1
      BY <2>5, <3>2 DEF u
    <3> QED
      BY <1>7, <2>3, <3>3, <3>4 DEF b
  <2> QED
    BY <2>6, <2>7
<1> QED
  BY <1>6, <1>7

\* A ball takes over the speed of another, or keeps its own.
LEMMA BouncedType ==
    ASSUME NEW A \in Ball, NEW B \in Ball
    PROVE  Bounced(A, B) \in Ball /\ Bounced(A, B).player = A.player
<1> DEFINE vx == IF (B.x - A.x) * (A.vx - B.vx) >= 0 THEN B.vx ELSE A.vx
           vy == IF (B.y - A.y) * (A.vy - B.vy) >= 0 THEN B.vy ELSE A.vy
           V  == - MAX_SPEED .. MAX_SPEED
<1>1. /\ A.vx \in V /\ B.vx \in V /\ A.vy \in V /\ B.vy \in V
  BY DEF Ball
<1> HIDE DEF V
<1>2. vx \in V /\ vy \in V
  BY <1>1
<1>3. Bounced(A, B) = [A EXCEPT !.vx = vx, !.vy = vy]
  BY DEF Bounced, Ball
<1> HIDE DEF vx, vy
<1> QED
  BY <1>2, <1>3 DEF V, Ball

\* An exchange of speeds depends on nothing but the two balls.
LEMMA BounceIs ==
    ASSUME NEW st \in Game, NEW a \in Index, NEW b \in Index
    PROVE  /\ Onward(st, Bounce(st, a, b))
           /\ Bounce(st, a, b).scores = st.scores
           /\ Bounce(st, a, b).deathCount = st.deathCount
           /\ \A s \in Game : s.balls = st.balls => Bounce(s, a, b).balls = Bounce(st, a, b).balls
<1> DEFINE A == st.balls[a]
           B == st.balls[b]
           p == Bounced(A, B)
           q == Bounced(B, A)
           u == SetBall(st, a, p)
           t == SetBall(u, b, q)
<1>1. /\ st \in State /\ st.balls \in [Index -> Ball] /\ A \in Ball /\ B \in Ball
      /\ st.deathCount \in Int
  BY DEF Game, State
<1>2. p \in Ball /\ p.player = A.player /\ q \in Ball /\ q.player = B.player
  BY <1>1, BouncedType
<1>3. Bounce(st, a, b) = t
  BY <1>1 DEF Bounce, SetBall, State
<1>4. \A s \in Game : s.balls = st.balls => Bounce(s, a, b).balls = Bounce(st, a, b).balls
  BY <1>1 DEF Bounce, Game, State
<1> HIDE DEF p, q
<1>5. /\ Onward(st, u) /\ u.scores = st.scores /\ u.deathCount = st.deathCount
      /\ u.balls = [st.balls EXCEPT ![a] = p]
  BY <1>2, SetBallType
<1> HIDE DEF u
<1>6. u \in Game /\ q.player = u.balls[b].player
  BY <1>1, <1>2, <1>5 DEF Onward
<1>7. Onward(u, t) /\ t.scores = u.scores /\ t.deathCount = u.deathCount
  BY ZenonT(60), <1>2, <1>6, SetBallType
<1> HIDE DEF t
<1> QED
  BY <1>1, <1>3, <1>4, <1>5, <1>7 DEF Onward

LEMMA KillIs ==
    ASSUME NEW st \in Game, NEW a \in Index, NEW b \in Index, ~ (st.balls[b].player < 0)
    PROVE  /\ Onward(st, Kill(st, a, b))
           /\ Kill(st, a, b).deathCount > st.deathCount
<1> DEFINE A == st.balls[a]
           p == st.balls[b].player
           n == st.deathCount + 1
           scores == [st.scores EXCEPT ![p] = @ + 1]
           r == ResetBall(A, st.deathCount)
           u == SetBall(st, a, r)
           t == Scored(u, scores, n)
<1>1. /\ st \in State /\ st.balls \in [Index -> Ball] /\ A \in Ball /\ st.balls[b] \in Ball
      /\ st.scores \in [Player -> Nat] /\ st.deathCount \in Int
  BY DEF Game, State
<1>2. p \in Player
  <2>1. p \in Player \cup {-1}
    BY <1>1 DEF Ball
  <2>2. p # -1
    BY SMT
  <2> QED
    BY <2>1, <2>2
<1>3. scores \in [Player -> Nat]
  <2>1. st.scores[p] + 1 \in Nat
    BY <1>1, <1>2
  <2> QED
    BY <1>1, <2>1
<1>4. n \in Int /\ n > st.deathCount /\ n >= st.deathCount
  BY <1>1
<1>5. A \in Flying
  <2>1. 0 .. ARENA_SIZE - 1 \subseteq Int /\ - MAX_SPEED .. MAX_SPEED \subseteq Int
    BY SMT
  <2> QED
    BY <1>1, <2>1 DEF Ball, Flying
<1>6. r \in Ball /\ r.player = A.player
  BY <1>1, <1>5, ResetBallType
<1>7. Kill(st, a, b) = t
  BY <1>1 DEF Kill, Die, SetBall, Scored, State
<1> HIDE DEF r, n, scores
<1>8. Onward(st, u) /\ u.deathCount = st.deathCount
  BY ZenonT(60), <1>6, SetBallType
<1> HIDE DEF u
<1>9. Onward(u, t) /\ t.deathCount = n
  <2>1. u \in Game /\ n >= u.deathCount
    BY <1>4, <1>8 DEF Onward
  <2> QED
    BY <1>3, <1>4, <2>1, ScoredType
<1> HIDE DEF t
<1>10. t.deathCount > st.deathCount /\ t.deathCount >= st.deathCount
  BY <1>4, <1>9
<1> QED
  BY <1>7, <1>8, <1>9, <1>10 DEF Onward

\* What CollideBalls does: nothing, an exchange of speeds, or a ball starts anew, which
\* is counted.  Without that, it does the same in a state that is alike.
LEMMA CollideBallsIs ==
    ASSUME NEW st \in Game, NEW a \in Index, NEW b \in Index
    PROVE  /\ Onward(st, CollideBalls(st, a, b))
           /\ \A s \in Game :
                Alike(st, s) /\ CollideBalls(st, a, b).deathCount = st.deathCount
                  => Alike(CollideBalls(st, a, b), CollideBalls(s, a, b))
<1> DEFINE A == st.balls[a]
           B == st.balls[b]
           apart(s) == Square(s.balls[b].x - s.balls[a].x) + Square(s.balls[b].y - s.balls[a].y)
                          >= 4 * Square(BALL_RADIOUS)
           free(s) == s.balls[a].player < 0 \/ s.balls[b].player < 0
<1>1. \A s \in Game : s.deathCount \in Int
  BY DEF Game, State
<1>2. CASE apart(st)
  <2>1. \A s \in Game : s.balls = st.balls => CollideBalls(s, a, b) = s
    BY <1>2 DEF CollideBalls
  <2>2. Onward(st, st)
    BY <1>1 DEF Onward
  <2> QED
    BY <2>1, <2>2 DEF Alike
<1>3. CASE ~ apart(st) /\ free(st)
  <2>1. \A s \in Game : s.balls = st.balls => CollideBalls(s, a, b) = Bounce(s, a, b)
    BY <1>3 DEF CollideBalls
  <2>2. Onward(st, Bounce(st, a, b))
    BY BounceIs
  <2>3. ASSUME NEW s \in Game, Alike(st, s)
        PROVE  Alike(Bounce(st, a, b), Bounce(s, a, b))
    <3>1. /\ Onward(st, Bounce(st, a, b)) /\ Onward(s, Bounce(s, a, b))
          /\ Bounce(st, a, b).scores = st.scores /\ Bounce(s, a, b).scores = s.scores
          /\ Bounce(s, a, b).balls = Bounce(st, a, b).balls
      BY <2>3, BounceIs DEF Alike
    <3> QED
      BY <2>3, <3>1 DEF Alike, Onward
  <2> QED
    BY <2>1, <2>2, <2>3 DEF Alike
<1>4. CASE ~ apart(st) /\ ~ free(st)
  <2>1. CollideBalls(st, a, b) \in {Kill(st, b, a), Kill(st, a, b)}
    BY <1>4 DEF CollideBalls
  <2>2. /\ Onward(st, CollideBalls(st, a, b))
        /\ CollideBalls(st, a, b).deathCount > st.deathCount
    BY <1>4, <2>1, KillIs
  <2>3. CollideBalls(st, a, b).deathCount # st.deathCount
    BY <1>1, <2>2 DEF Onward
  <2> QED
    BY <2>2, <2>3
<1> QED
  BY <1>2, <1>3, <1>4

LEMMA OrderType == Order \in Seq(Index) /\ Len(Order) = N_BALLS
<1>1. N_BALLS \in Nat /\ \A i \in 1 .. N_BALLS : i - 1 \in Index
  BY Sizes, SMT DEF Index
<1>2. Order \in [1 .. N_BALLS -> Index]
  BY <1>1 DEF Order
<1> QED
  BY <1>1, <1>2, SeqDef, LenProperties

\* The loops of advance_state: the balls move, a ball collides with those after it, all do.
Move(st, es)   == FoldLeft(LAMBDA s, i : Update(s, i, es), st, Order)
Others(a)      == SubSeq(Order, a + 2, N_BALLS)
Against(st, a) == FoldLeft(LAMBDA s, b : CollideBalls(s, a, b), st, Others(a))
Collide(st)    == FoldLeft(LAMBDA s, a : Against(s, a), st, Order)

LEMMA AdvanceIs ==
    ASSUME NEW ini, NEW es
    PROVE  LET joined == FoldLeft(Connect, [ini EXCEPT !.frame = @ + 1], es) IN
             Advance(ini, es) = IF joined.paused THEN joined ELSE Collide(Move(joined, es))
BY Zenon DEF Advance, Collide, Against, Others, Move

LEMMA OthersType == \A a \in Index : Others(a) \in Seq(Index)
<1> TAKE a \in Index
<1>1. N_BALLS \in Nat /\ a + 2 \in Nat /\ a + 2 >= 1
  BY Sizes, SMT DEF Index
<1>2. CASE a + 2 <= N_BALLS
  <2>1. a + 2 \in 1 .. N_BALLS /\ N_BALLS \in a + 2 .. N_BALLS
    BY <1>1, <1>2, SMT
  <2> QED
    BY <1>1, <2>1, OrderType, SubSeqProperties DEF Others
<1>3. CASE ~ (a + 2 <= N_BALLS)
  <2>1. N_BALLS < a + 2
    BY <1>1, <1>3, SMT
  <2> QED
    BY <1>1, <2>1, OrderType, SubSeqProperties DEF Others
<1> QED
  BY <1>2, <1>3

\* Rounds that each lead onward do so together; and if no ball starts anew, two loops
\* that begin alike end alike.
LEMMA Lockstep ==
    ASSUME NEW n \in Nat, NEW r \in [0 .. n -> Game], NEW q \in [0 .. n -> Game],
           \A k \in 1 .. n : Onward(r[k - 1], r[k]),
           \A k \in 1 .. n : Alike(r[k - 1], q[k - 1]) /\ r[k].deathCount = r[k - 1].deathCount
                               => Alike(r[k], q[k])
    PROVE  /\ Onward(r[0], r[n])
           /\ Alike(r[0], q[0]) /\ r[n].deathCount = r[0].deathCount => Alike(r[n], q[n])
<1> DEFINE P == {k \in 0 .. n : Onward(r[0], r[k])}
           Q == {k \in 0 .. n : Alike(r[0], q[0]) /\ r[k].deathCount = r[0].deathCount
                                  => Alike(r[k], q[k])}
<1>1. 0 \in 0 .. n /\ n \in 0 .. n /\ \A k \in 1 .. n : k \in 0 .. n /\ k - 1 \in 0 .. n
  BY SMT
<1>2. \A k \in 0 .. n : r[k] \in Game /\ r[k].deathCount \in Int
  BY DEF Game, State
<1>3. 0 \in P
  BY <1>1, <1>2 DEF Onward
<1>4. ASSUME NEW k \in 1 .. n, k - 1 \in P
      PROVE  k \in P
  <2>1. Onward(r[0], r[k - 1]) /\ Onward(r[k - 1], r[k])
    BY <1>4
  <2>2. r[0].deathCount \in Int /\ r[k - 1].deathCount \in Int /\ r[k].deathCount \in Int
    BY <1>1, <1>2
  <2>3. Onward(r[0], r[k])
    BY <2>1, <2>2 DEF Onward
  <2> QED
    BY <1>1, <2>3
<1>5. \A k \in 0 .. n : k \in P
  <2> HIDE DEF P
  <2> QED
    BY <1>3, <1>4, UpTo
<1>6. 0 \in Q
  BY <1>1
<1>7. ASSUME NEW k \in 1 .. n, k - 1 \in Q
      PROVE  k \in Q
  <2> SUFFICES ASSUME Alike(r[0], q[0]), r[k].deathCount = r[0].deathCount
               PROVE  Alike(r[k], q[k])
    BY <1>1
  <2>1. r[k - 1].deathCount >= r[0].deathCount /\ r[k].deathCount >= r[k - 1].deathCount
    BY <1>1, <1>5 DEF Onward
  <2>2. r[0].deathCount \in Int /\ r[k - 1].deathCount \in Int /\ r[k].deathCount \in Int
    BY <1>1, <1>2
  <2>3. r[k - 1].deathCount = r[0].deathCount /\ r[k].deathCount = r[k - 1].deathCount
    BY <2>1, <2>2, SMT
  <2>4. Alike(r[k - 1], q[k - 1])
    BY <1>7, <2>3
  <2> QED
    BY <2>3, <2>4
<1>8. \A k \in 0 .. n : k \in Q
  <2> HIDE DEF Q
  <2> QED
    BY <1>6, <1>7, UpTo
<1> QED
  BY <1>1, <1>5, <1>8

\* The loop that moves the balls.
LEMMA MoveRounds ==
    ASSUME NEW ini \in Game, NEW es \in Seq(Event), Sorted(es)
    PROVE  \E r \in [0 .. Len(Order) -> Game] :
             /\ r[0] = ini
             /\ \A k \in 1 .. Len(Order) : r[k] = Update(r[k - 1], Order[k], es)
             /\ Move(ini, es) = r[Len(Order)]
<1> DEFINE F == [x \in Game \X Index |-> Update(x[1], x[2], es)]
<1>1. F \in [Game \X Index -> Game]
  BY UpdateIs DEF Onward
<1>2. \A x \in Game, y \in Index : F[<<x, y>>] = Update(x, y, es)
  OBVIOUS
<1> HIDE DEF F
<1>3. /\ DOMAIN Order = 1 .. Len(Order) /\ Len(Order) \in Nat
      /\ \A k \in DOMAIN Order : Order[k] \in Index
      /\ \A s \in SUBSET (DOMAIN Order) : s # {} => Max(s) \in DOMAIN Order
  BY OrderType, LenProperties, ElementOfSeq, MaxIn
<1>4. PICK g \in [SUBSET (DOMAIN Order) -> Game] : IsFold(g, Game, F, ini, Order)
  BY <1>1, OrderType, FoldExists
<1>5. \A s \in SUBSET (DOMAIN Order) : s # {} => g[s] = Update(g[s \ {Max(s)}], Order[Max(s)], es)
  <2> TAKE s \in SUBSET (DOMAIN Order)
  <2> HAVE s # {}
  <2>1. g[s \ {Max(s)}] \in Game /\ Order[Max(s)] \in Index
    BY <1>3, <1>4
  <2> QED
    BY <1>2, <1>4, <2>1 DEF IsFold
<1>6. g = [s \in SUBSET (DOMAIN Order) |->
             IF s = {} THEN ini ELSE Update(g[s \ {Max(s)}], Order[Max(s)], es)]
  BY <1>4, <1>5 DEF IsFold
<1>7. PICK h : /\ h = [s \in SUBSET (DOMAIN Order) |->
                       IF s = {} THEN ini ELSE Update(h[s \ {Max(s)}], Order[Max(s)], es)]
               /\ Move(ini, es) = h[DOMAIN Order]
  BY <1>6 DEF FoldLeft, MapThenFoldSet, Move
<1>8. IsFold(h, Game, F, ini, Order)
  <2>1. h[{}] = ini
    BY <1>7
  <2>2. ASSUME NEW s \in SUBSET (DOMAIN Order), s # {}, h[s \ {Max(s)}] \in Game
        PROVE  h[s] = F[<<h[s \ {Max(s)}], Order[Max(s)]>>]
    <3>1. h[s] = Update(h[s \ {Max(s)}], Order[Max(s)], es)
      BY <1>7, <2>2
    <3>2. Order[Max(s)] \in Index
      BY <1>3, <2>2
    <3> QED
      BY <1>2, <2>2, <3>1, <3>2
  <2> QED
    BY <2>1, <2>2 DEF IsFold
<1>9. PICK r : Rounds(r, Game, F, ini, Order, h[DOMAIN Order])
  BY <1>1, <1>8, OrderType, FoldRounds
<1>10. ASSUME NEW k \in 1 .. Len(Order)
       PROVE  r[k] = Update(r[k - 1], Order[k], es)
  <2>1. k - 1 \in 0 .. Len(Order)
    BY <1>3, SMT
  <2>2. r[k - 1] \in Game /\ Order[k] \in Index
    BY <1>3, <1>9, <2>1 DEF Rounds
  <2> QED
    BY <1>2, <1>9, <2>2 DEF Rounds
<1> QED
  BY <1>7, <1>9, <1>10 DEF Rounds

\* The loop in which a ball collides with the others.
LEMMA AgainstRounds ==
    ASSUME NEW ini \in Game, NEW a \in Index
    PROVE  \E r \in [0 .. Len(Others(a)) -> Game] :
             /\ r[0] = ini
             /\ \A k \in 1 .. Len(Others(a)) : r[k] = CollideBalls(r[k - 1], a, Others(a)[k])
             /\ Against(ini, a) = r[Len(Others(a))]
<1> DEFINE F == [x \in Game \X Index |-> CollideBalls(x[1], a, x[2])]
<1>1. F \in [Game \X Index -> Game]
  BY CollideBallsIs DEF Onward
<1>2. \A x \in Game, y \in Index : F[<<x, y>>] = CollideBalls(x, a, y)
  OBVIOUS
<1> HIDE DEF F
<1>3. /\ DOMAIN Others(a) = 1 .. Len(Others(a)) /\ Len(Others(a)) \in Nat
      /\ \A k \in DOMAIN Others(a) : Others(a)[k] \in Index
      /\ \A s \in SUBSET (DOMAIN Others(a)) : s # {} => Max(s) \in DOMAIN Others(a)
  BY OthersType, LenProperties, ElementOfSeq, MaxIn
<1>4. PICK g \in [SUBSET (DOMAIN Others(a)) -> Game] : IsFold(g, Game, F, ini, Others(a))
  BY <1>1, OthersType, FoldExists
<1>5. \A s \in SUBSET (DOMAIN Others(a)) : s # {} => g[s] = CollideBalls(g[s \ {Max(s)}], a, Others(a)[Max(s)])
  <2> TAKE s \in SUBSET (DOMAIN Others(a))
  <2> HAVE s # {}
  <2>1. g[s \ {Max(s)}] \in Game /\ Others(a)[Max(s)] \in Index
    BY <1>3, <1>4
  <2> QED
    BY <1>2, <1>4, <2>1 DEF IsFold
<1>6. g = [s \in SUBSET (DOMAIN Others(a)) |->
             IF s = {} THEN ini ELSE CollideBalls(g[s \ {Max(s)}], a, Others(a)[Max(s)])]
  BY <1>4, <1>5 DEF IsFold
<1>7. PICK h : /\ h = [s \in SUBSET (DOMAIN Others(a)) |->
                       IF s = {} THEN ini ELSE CollideBalls(h[s \ {Max(s)}], a, Others(a)[Max(s)])]
               /\ Against(ini, a) = h[DOMAIN Others(a)]
  BY <1>6 DEF FoldLeft, MapThenFoldSet, Against
<1>8. IsFold(h, Game, F, ini, Others(a))
  <2>1. h[{}] = ini
    BY <1>7
  <2>2. ASSUME NEW s \in SUBSET (DOMAIN Others(a)), s # {}, h[s \ {Max(s)}] \in Game
        PROVE  h[s] = F[<<h[s \ {Max(s)}], Others(a)[Max(s)]>>]
    <3>1. h[s] = CollideBalls(h[s \ {Max(s)}], a, Others(a)[Max(s)])
      BY <1>7, <2>2
    <3>2. Others(a)[Max(s)] \in Index
      BY <1>3, <2>2
    <3> QED
      BY <1>2, <2>2, <3>1, <3>2
  <2> QED
    BY <2>1, <2>2 DEF IsFold
<1>9. PICK r : Rounds(r, Game, F, ini, Others(a), h[DOMAIN Others(a)])
  BY <1>1, <1>8, OthersType, FoldRounds
<1>10. ASSUME NEW k \in 1 .. Len(Others(a))
       PROVE  r[k] = CollideBalls(r[k - 1], a, Others(a)[k])
  <2>1. k - 1 \in 0 .. Len(Others(a))
    BY <1>3, SMT
  <2>2. r[k - 1] \in Game /\ Others(a)[k] \in Index
    BY <1>3, <1>9, <2>1 DEF Rounds
  <2> QED
    BY <1>2, <1>9, <2>2 DEF Rounds
<1> QED
  BY <1>7, <1>9, <1>10 DEF Rounds

LEMMA UpdateAlike ==
    ASSUME NEW st \in Game, NEW s \in Game, NEW i \in Index, NEW es \in Seq(Event), Sorted(es),
           Alike(st, s), Update(st, i, es).deathCount = st.deathCount
    PROVE  Alike(Update(st, i, es), Update(s, i, es))
<1> DEFINE b == Moved(Accelerate(st.balls[i], es))
           c == Moved(Accelerate(s.balls[i], es))
<1>1. b = c /\ st.balls[i] = s.balls[i]
  BY DEF Alike
<1>2. /\ Onward(st, Update(st, i, es))
      /\ Inside(b) => b \in Ball /\ b.player = st.balls[i].player /\ Update(st, i, es) = SetBall(st, i, b)
      /\ ~ Inside(b) => Update(st, i, es).deathCount > st.deathCount
  BY UpdateIs
<1>3. Inside(c) => Update(s, i, es) = SetBall(s, i, c)
  BY UpdateIs
<1> HIDE DEF b, c
<1>4. Inside(b)
  <2>1. st.deathCount \in Int
    BY DEF Game, State
  <2> QED
    BY <1>2, <2>1
<1>5. b \in Ball /\ b.player = st.balls[i].player /\ b.player = s.balls[i].player
  BY <1>1, <1>2, <1>4
<1>6. Alike(SetBall(st, i, b), SetBall(s, i, b))
  <2>1. /\ Onward(st, SetBall(st, i, b)) /\ SetBall(st, i, b).scores = st.scores
        /\ SetBall(st, i, b).balls = [st.balls EXCEPT ![i] = b]
    BY ZenonT(60), <1>5, SetBallType
  <2>2. /\ Onward(s, SetBall(s, i, b)) /\ SetBall(s, i, b).scores = s.scores
        /\ SetBall(s, i, b).balls = [s.balls EXCEPT ![i] = b]
    BY <1>5, SetBallType
  <2> QED
    BY <2>1, <2>2 DEF Onward, Alike
<1> QED
  BY <1>1, <1>2, <1>3, <1>4, <1>6

LEMMA MoveIs ==
    ASSUME NEW st \in Game, NEW es \in Seq(Event), Sorted(es)
    PROVE  /\ Onward(st, Move(st, es))
           /\ \A s \in Game : Alike(st, s) /\ Move(st, es).deathCount = st.deathCount
                                => Alike(Move(st, es), Move(s, es))
<1> SUFFICES ASSUME NEW s \in Game
             PROVE  /\ Onward(st, Move(st, es))
                    /\ Alike(st, s) /\ Move(st, es).deathCount = st.deathCount
                         => Alike(Move(st, es), Move(s, es))
  OBVIOUS
<1> DEFINE n == Len(Order)
<1>1. n \in Nat /\ \A k \in 1 .. n : Order[k] \in Index /\ k - 1 \in 0 .. n
  BY OrderType, LenProperties, ElementOfSeq
<1>2. PICK r \in [0 .. n -> Game] :
        /\ r[0] = st
        /\ \A k \in 1 .. n : r[k] = Update(r[k - 1], Order[k], es)
        /\ Move(st, es) = r[n]
  BY MoveRounds
<1>3. PICK q \in [0 .. n -> Game] :
        /\ q[0] = s
        /\ \A k \in 1 .. n : q[k] = Update(q[k - 1], Order[k], es)
        /\ Move(s, es) = q[n]
  BY MoveRounds
<1> HIDE DEF n
<1>4. ASSUME NEW k \in 1 .. n
      PROVE  r[k - 1] \in Game /\ q[k - 1] \in Game /\ Order[k] \in Index
  BY <1>1
<1>5. \A k \in 1 .. n : Onward(r[k - 1], r[k])
  <2> TAKE k \in 1 .. n
  <2>1. Onward(r[k - 1], Update(r[k - 1], Order[k], es))
    BY <1>4, UpdateIs
  <2> QED
    BY <1>2, <2>1
<1>6. ASSUME NEW k \in 1 .. n, Alike(r[k - 1], q[k - 1]), r[k].deathCount = r[k - 1].deathCount
      PROVE  Alike(r[k], q[k])
  <2>1. r[k] = Update(r[k - 1], Order[k], es) /\ q[k] = Update(q[k - 1], Order[k], es)
    BY <1>2, <1>3
  <2> QED
    BY <1>4, <1>6, <2>1, UpdateAlike
<1>7. Onward(r[0], r[n]) /\ (Alike(r[0], q[0]) /\ r[n].deathCount = r[0].deathCount => Alike(r[n], q[n]))
  BY <1>1, <1>5, <1>6, Lockstep
<1> QED
  BY <1>2, <1>3, <1>7

LEMMA AgainstIs ==
    ASSUME NEW st \in Game, NEW a \in Index
    PROVE  /\ Onward(st, Against(st, a))
           /\ \A s \in Game : Alike(st, s) /\ Against(st, a).deathCount = st.deathCount
                                => Alike(Against(st, a), Against(s, a))
<1> SUFFICES ASSUME NEW s \in Game
             PROVE  /\ Onward(st, Against(st, a))
                    /\ Alike(st, s) /\ Against(st, a).deathCount = st.deathCount
                         => Alike(Against(st, a), Against(s, a))
  OBVIOUS
<1> DEFINE w == Others(a)
           n == Len(w)
<1>1. n \in Nat /\ \A k \in 1 .. n : w[k] \in Index /\ k - 1 \in 0 .. n
  BY OthersType, LenProperties, ElementOfSeq
<1>2. PICK r \in [0 .. n -> Game] :
        /\ r[0] = st
        /\ \A k \in 1 .. n : r[k] = CollideBalls(r[k - 1], a, w[k])
        /\ Against(st, a) = r[n]
  BY AgainstRounds
<1>3. PICK q \in [0 .. n -> Game] :
        /\ q[0] = s
        /\ \A k \in 1 .. n : q[k] = CollideBalls(q[k - 1], a, w[k])
        /\ Against(s, a) = q[n]
  BY AgainstRounds
<1> HIDE DEF n, w
<1>4. ASSUME NEW k \in 1 .. n
      PROVE  /\ r[k - 1] \in Game /\ q[k - 1] \in Game /\ w[k] \in Index
             /\ r[k] = CollideBalls(r[k - 1], a, w[k]) /\ q[k] = CollideBalls(q[k - 1], a, w[k])
  BY <1>1, <1>2, <1>3
<1>5. \A k \in 1 .. n : Onward(r[k - 1], r[k])
  <2> TAKE k \in 1 .. n
  <2>1. Onward(r[k - 1], CollideBalls(r[k - 1], a, w[k]))
    BY <1>4, CollideBallsIs
  <2> QED
    BY <1>4, <2>1
<1>6. ASSUME NEW k \in 1 .. n, Alike(r[k - 1], q[k - 1]), r[k].deathCount = r[k - 1].deathCount
      PROVE  Alike(r[k], q[k])
  BY <1>4, <1>6, CollideBallsIs
<1>7. Onward(r[0], r[n]) /\ (Alike(r[0], q[0]) /\ r[n].deathCount = r[0].deathCount => Alike(r[n], q[n]))
  BY <1>1, <1>5, <1>6, Lockstep
<1> QED
  BY <1>2, <1>3, <1>7

\* The loop in which all balls collide with each other.
LEMMA CollideRounds ==
    ASSUME NEW ini \in Game
    PROVE  \E r \in [0 .. Len(Order) -> Game] :
             /\ r[0] = ini
             /\ \A k \in 1 .. Len(Order) : r[k] = Against(r[k - 1], Order[k])
             /\ Collide(ini) = r[Len(Order)]
<1> DEFINE F == [x \in Game \X Index |-> Against(x[1], x[2])]
<1>1. F \in [Game \X Index -> Game]
  BY AgainstIs DEF Onward
<1>2. \A x \in Game, y \in Index : F[<<x, y>>] = Against(x, y)
  OBVIOUS
<1> HIDE DEF F
<1>3. /\ DOMAIN Order = 1 .. Len(Order) /\ Len(Order) \in Nat
      /\ \A k \in DOMAIN Order : Order[k] \in Index
      /\ \A s \in SUBSET (DOMAIN Order) : s # {} => Max(s) \in DOMAIN Order
  BY OrderType, LenProperties, ElementOfSeq, MaxIn
<1>4. PICK g \in [SUBSET (DOMAIN Order) -> Game] : IsFold(g, Game, F, ini, Order)
  BY <1>1, OrderType, FoldExists
<1>5. \A s \in SUBSET (DOMAIN Order) : s # {} => g[s] = Against(g[s \ {Max(s)}], Order[Max(s)])
  <2> TAKE s \in SUBSET (DOMAIN Order)
  <2> HAVE s # {}
  <2>1. g[s \ {Max(s)}] \in Game /\ Order[Max(s)] \in Index
    BY <1>3, <1>4
  <2> QED
    BY <1>2, <1>4, <2>1 DEF IsFold
<1>6. g = [s \in SUBSET (DOMAIN Order) |->
             IF s = {} THEN ini ELSE Against(g[s \ {Max(s)}], Order[Max(s)])]
  BY <1>4, <1>5 DEF IsFold
<1>7. PICK h : /\ h = [s \in SUBSET (DOMAIN Order) |->
                       IF s = {} THEN ini ELSE Against(h[s \ {Max(s)}], Order[Max(s)])]
               /\ Collide(ini) = h[DOMAIN Order]
  BY <1>6 DEF FoldLeft, MapThenFoldSet, Collide
<1>8. IsFold(h, Game, F, ini, Order)
  <2>1. h[{}] = ini
    BY <1>7
  <2>2. ASSUME NEW s \in SUBSET (DOMAIN Order), s # {}, h[s \ {Max(s)}] \in Game
        PROVE  h[s] = F[<<h[s \ {Max(s)}], Order[Max(s)]>>]
    <3>1. h[s] = Against(h[s \ {Max(s)}], Order[Max(s)])
      BY <1>7, <2>2
    <3>2. Order[Max(s)] \in Index
      BY <1>3, <2>2
    <3> QED
      BY <1>2, <2>2, <3>1, <3>2
  <2> QED
    BY <2>1, <2>2 DEF IsFold
<1>9. PICK r : Rounds(r, Game, F, ini, Order, h[DOMAIN Order])
  BY <1>1, <1>8, OrderType, FoldRounds
<1>10. ASSUME NEW k \in 1 .. Len(Order)
       PROVE  r[k] = Against(r[k - 1], Order[k])
  <2>1. k - 1 \in 0 .. Len(Order)
    BY <1>3, SMT
  <2>2. r[k - 1] \in Game /\ Order[k] \in Index
    BY <1>3, <1>9, <2>1 DEF Rounds
  <2> QED
    BY <1>2, <1>9, <2>2 DEF Rounds
<1> QED
  BY <1>7, <1>9, <1>10 DEF Rounds

LEMMA CollideIs ==
    ASSUME NEW st \in Game
    PROVE  /\ Onward(st, Collide(st))
           /\ \A s \in Game : Alike(st, s) /\ Collide(st).deathCount = st.deathCount
                                => Alike(Collide(st), Collide(s))
<1> SUFFICES ASSUME NEW s \in Game
             PROVE  /\ Onward(st, Collide(st))
                    /\ Alike(st, s) /\ Collide(st).deathCount = st.deathCount
                         => Alike(Collide(st), Collide(s))
  OBVIOUS
<1> DEFINE n == Len(Order)
<1>1. n \in Nat /\ \A k \in 1 .. n : Order[k] \in Index /\ k - 1 \in 0 .. n
  BY OrderType, LenProperties, ElementOfSeq
<1>2. PICK r \in [0 .. n -> Game] :
        /\ r[0] = st
        /\ \A k \in 1 .. n : r[k] = Against(r[k - 1], Order[k])
        /\ Collide(st) = r[n]
  BY CollideRounds
<1>3. PICK q \in [0 .. n -> Game] :
        /\ q[0] = s
        /\ \A k \in 1 .. n : q[k] = Against(q[k - 1], Order[k])
        /\ Collide(s) = q[n]
  BY CollideRounds
<1> HIDE DEF n
<1>4. ASSUME NEW k \in 1 .. n
      PROVE  /\ r[k - 1] \in Game /\ q[k - 1] \in Game /\ Order[k] \in Index
             /\ r[k] = Against(r[k - 1], Order[k]) /\ q[k] = Against(q[k - 1], Order[k])
  BY <1>1, <1>2, <1>3
<1>5. \A k \in 1 .. n : Onward(r[k - 1], r[k])
  <2> TAKE k \in 1 .. n
  <2>1. Onward(r[k - 1], Against(r[k - 1], Order[k]))
    BY <1>4, AgainstIs
  <2> QED
    BY <1>4, <2>1
<1>6. ASSUME NEW k \in 1 .. n, Alike(r[k - 1], q[k - 1]), r[k].deathCount = r[k - 1].deathCount
      PROVE  Alike(r[k], q[k])
  BY <1>4, <1>6, AgainstIs
<1>7. Onward(r[0], r[n]) /\ (Alike(r[0], q[0]) /\ r[n].deathCount = r[0].deathCount => Alike(r[n], q[n]))
  BY <1>1, <1>5, <1>6, Lockstep
<1> QED
  BY <1>2, <1>3, <1>7

-------------------------------------------------------------------------------
(* advance_state *)

\* The state at the beginning of the next frame.
Later(ini) == [ini EXCEPT !.frame = @ + 1]

LEMMA LaterType ==
    ASSUME NEW ini \in Game
    PROVE  /\ Later(ini) \in Game /\ Later(ini).frame = ini.frame + 1
           /\ Later(ini).deathCount = ini.deathCount /\ Later(ini).lie = ini.lie
           /\ Later(ini).paused = ini.paused /\ Later(ini).scores = ini.scores
           /\ Later(ini).balls = ini.balls
<1>1. ini \in State /\ ini.frame + 1 \in Nat /\ \A i \in Index : ini.balls[i].player \in {-1, i}
  BY DEF Game, State
<1> DEFINE f == ini.frame + 1
           t == Later(ini)
<1>2. t = [ini EXCEPT !.frame = f]
  BY DEF Later
<1> HIDE DEF f, t
<1>3. /\ t \in State /\ t.frame = f /\ t.deathCount = ini.deathCount /\ t.lie = ini.lie
      /\ t.paused = ini.paused /\ t.scores = ini.scores /\ t.balls = ini.balls
  BY <1>1, <1>2 DEF State, f
<1> QED
  BY <1>1, <1>3 DEF Game, f, t

\* The state after the players have been connected.
Connected(ini, es) == FoldLeft(Connect, Later(ini), es)

\* advance_state keeps what a state must be, counts the frame once, and takes no death
\* back; and without a death it does the same with a state that is alike.
LEMMA AdvanceType ==
    ASSUME NEW ini \in Game, NEW es \in Seq(Event), Sorted(es)
    PROVE  /\ Advance(ini, es) \in Game
           /\ Advance(ini, es).frame = ini.frame + 1
           /\ Advance(ini, es).deathCount >= ini.deathCount
           /\ \A s \in Game : Alike(ini, s) /\ Advance(ini, es).deathCount = ini.deathCount
                                => Alike(Advance(ini, es), Advance(s, es))
<1> SUFFICES ASSUME NEW s \in Game
             PROVE  /\ Advance(ini, es) \in Game
                    /\ Advance(ini, es).frame = ini.frame + 1
                    /\ Advance(ini, es).deathCount >= ini.deathCount
                    /\ Alike(ini, s) /\ Advance(ini, es).deathCount = ini.deathCount
                         => Alike(Advance(ini, es), Advance(s, es))
  OBVIOUS
<1> DEFINE j == Connected(ini, es)
           k == Connected(s, es)
           E == UpToEvent(es, Len(es))
           m == Move(j, es)
           t == Collide(m)
<1>1. /\ Advance(ini, es) = IF j.paused THEN j ELSE Collide(Move(j, es))
      /\ Advance(s, es) = IF k.paused THEN k ELSE Collide(Move(k, es))
  BY AdvanceIs DEF Connected, Later
<1>2. Joins(Later(ini), j, E) /\ Joins(Later(s), k, E)
  BY LaterType, ConnectSorted DEF Connected
<1>3. /\ j \in Game /\ k \in Game
      /\ j.frame = ini.frame + 1 /\ j.deathCount = ini.deathCount /\ j.deathCount \in Int
  BY <1>2, LaterType DEF Joins, Game, State
<1>4. Alike(ini, s) => Alike(j, k)
  <2> SUFFICES ASSUME Alike(ini, s) PROVE Alike(j, k)
    OBVIOUS
  <2> DEFINE a == Later(ini)
             b == Later(s)
  <2>1. /\ a.paused = b.paused /\ a.frame = b.frame /\ a.scores = b.scores /\ a.balls = b.balls
    BY LaterType DEF Alike
  <2> HIDE DEF a, b, j, k, E
  <2>2. j.frame = k.frame /\ j.scores = k.scores
    BY <1>2, <2>1 DEF Joins, a, b
  <2>3. j.paused = k.paused
    BY <1>2, <2>1, Zenon DEF Joins, a, b
  <2>4. \A i \in Index : j.balls[i] = k.balls[i]
    <3> TAKE i \in Index
    <3>1. j.balls[i] = [a.balls[i] EXCEPT !.player = After(E, i, N_BUTTONS, -1, i, a.balls[i].player)]
      BY <1>2 DEF Joins, a
    <3>2. k.balls[i] = [b.balls[i] EXCEPT !.player = After(E, i, N_BUTTONS, -1, i, b.balls[i].player)]
      BY <1>2 DEF Joins, b
    <3> QED
      BY <2>1, <3>1, <3>2
  <2>5. j.balls \in [Index -> Ball] /\ k.balls \in [Index -> Ball]
    BY <1>3 DEF Game, State
  <2>6. j.balls = k.balls
    BY <2>4, <2>5
  <2> QED
    BY <2>2, <2>3, <2>6 DEF Alike
<1> HIDE DEF j, k
<1>5. CASE j.paused
  <2>1. Advance(ini, es) = j
    BY <1>1, <1>5
  <2>2. ASSUME Alike(ini, s)
        PROVE  Alike(j, Advance(s, es))
    <3>1. Alike(j, k)
      BY <1>4, <2>2
    <3>2. k.paused
      BY <1>5, <3>1 DEF Alike
    <3> QED
      BY <1>1, <3>1, <3>2
  <2>3. j.deathCount >= ini.deathCount
    BY <1>3
  <2> QED
    BY <1>3, <2>1, <2>2, <2>3
<1>6. CASE ~ j.paused
  <2>1. Advance(ini, es) = t
    BY <1>1, <1>6
  <2>2. Onward(j, m) /\ m \in Game
    BY <1>3, MoveIs DEF Onward
  <2>3. Onward(m, t)
    BY <2>2, CollideIs
  <2>4. m.deathCount \in Int /\ t.deathCount \in Int
    BY <2>2, <2>3 DEF Onward, Game, State
  <2>5. Onward(j, t)
    BY <1>3, <2>2, <2>3, <2>4 DEF Onward
  <2>6. Alike(ini, s) /\ t.deathCount = ini.deathCount => Alike(t, Advance(s, es))
    <3> SUFFICES ASSUME Alike(ini, s), t.deathCount = ini.deathCount
                 PROVE  Alike(t, Advance(s, es))
      OBVIOUS
    <3>1. Alike(j, k) /\ Advance(s, es) = Collide(Move(k, es))
      BY <1>1, <1>4, <1>6 DEF Alike
    <3>2. m.deathCount = j.deathCount /\ t.deathCount = m.deathCount
      BY <1>3, <2>2, <2>3, <2>4 DEF Onward
    <3>3. Alike(m, Move(k, es)) /\ Move(k, es) \in Game
      BY <1>3, <3>1, <3>2, MoveIs DEF Onward
    <3>4. Alike(t, Collide(Move(k, es)))
      BY <2>2, <3>2, <3>3, CollideIs
    <3> QED
      BY <3>1, <3>4
  <2> HIDE DEF t
  <2> QED
    BY <1>3, <2>1, <2>5, <2>6 DEF Onward
<1> QED
  BY <1>5, <1>6

\* Two arrays of sorted events with the same set of events.
SameSet(es, fs) ==
    /\ es \in Seq(Event) /\ Sorted(es)
    /\ fs \in Seq(Event) /\ Sorted(fs)
    /\ UpToEvent(es, Len(es)) = UpToEvent(fs, Len(fs))

LEMMA SameReact ==
    ASSUME NEW es, NEW fs, SameSet(es, fs), NEW b \in Ball
    PROVE  Accelerate(b, es) = Accelerate(b, fs)
<1> DEFINE t == React(b, es)
           u == React(b, fs)
           E == UpToEvent(es, Len(es))
<1>1. Reacted(b, t, E) /\ Reacted(b, u, E)
  BY ReactSorted DEF SameSet
<1> HIDE DEF t, u, E
<1>2. t.buttons \in [Button -> BOOLEAN] /\ u.buttons \in [Button -> BOOLEAN]
  BY <1>1 DEF Reacted, Ball
<1>3. \A k \in Button : t.buttons[k] = u.buttons[k]
  BY <1>1, Zenon DEF Reacted
<1>4. t.buttons = u.buttons
  BY <1>2, <1>3
<1>5. t = u
  BY <1>1, <1>4 DEF Reacted
<1> QED
  BY <1>5, Zenon DEF Accelerate, t, u

LEMMA SameMove ==
    ASSUME NEW es, NEW fs, SameSet(es, fs), NEW st \in Game
    PROVE  Move(st, es) = Move(st, fs)
<1> DEFINE n == Len(Order)
<1>1. n \in Nat /\ \A k \in 1 .. n : Order[k] \in Index /\ k - 1 \in 0 .. n /\ k \in 0 .. n
  BY OrderType, LenProperties, ElementOfSeq
<1>2. PICK r \in [0 .. n -> Game] :
        /\ r[0] = st
        /\ \A k \in 1 .. n : r[k] = Update(r[k - 1], Order[k], es)
        /\ Move(st, es) = r[n]
  BY MoveRounds DEF SameSet
<1>3. PICK q \in [0 .. n -> Game] :
        /\ q[0] = st
        /\ \A k \in 1 .. n : q[k] = Update(q[k - 1], Order[k], fs)
        /\ Move(st, fs) = q[n]
  BY SMTT(30), MoveRounds DEF SameSet
<1> HIDE DEF n
<1>4. ASSUME NEW s \in Game, NEW i \in Index
      PROVE  Update(s, i, es) = Update(s, i, fs)
  <2>1. s \in State /\ s.balls[i] \in Ball
    BY DEF Game, State
  <2>2. Accelerate(s.balls[i], es) = Accelerate(s.balls[i], fs)
    BY <2>1, SameReact
  <2>3. [s EXCEPT !.balls[i] = Moved(Accelerate(@, es))] = [s EXCEPT !.balls[i] = Moved(Accelerate(@, fs))]
    BY <2>1, <2>2 DEF State
  <2> QED
    BY <2>3, Zenon DEF Update
<1> DEFINE P == {k \in 0 .. n : r[k] = q[k]}
<1>5. 0 \in P /\ n \in 0 .. n
  <2>1. 0 \in 0 .. n /\ n \in 0 .. n
    BY <1>1, SMT
  <2> QED
    BY <1>2, <1>3, <2>1
<1>6. ASSUME NEW k \in 1 .. n, k - 1 \in P
      PROVE  k \in P
  <2>1. /\ r[k - 1] \in Game /\ Order[k] \in Index /\ r[k - 1] = q[k - 1]
        /\ r[k] = Update(r[k - 1], Order[k], es) /\ q[k] = Update(q[k - 1], Order[k], fs)
    BY <1>1, <1>2, <1>3, <1>6
  <2>2. r[k] = q[k]
    BY <1>4, <2>1
  <2> QED
    BY <1>1, <2>2
<1>7. \A k \in 0 .. n : k \in P
  <2> HIDE DEF P
  <2> QED
    BY <1>1, <1>5, <1>6, UpTo
<1> QED
  BY <1>2, <1>3, <1>5, <1>7

\* The order in which events that are alike are sorted does not matter, nor that one is
\* there twice.
LEMMA SameAdvance ==
    ASSUME NEW es, NEW fs, SameSet(es, fs), NEW ini \in Game
    PROVE  Advance(ini, es) = Advance(ini, fs)
<1> DEFINE j == Connected(ini, es)
           k == Connected(ini, fs)
           a == Later(ini)
           E == UpToEvent(es, Len(es))
<1>1. /\ Advance(ini, es) = IF j.paused THEN j ELSE Collide(Move(j, es))
      /\ Advance(ini, fs) = IF k.paused THEN k ELSE Collide(Move(k, fs))
  BY AdvanceIs DEF Connected, Later
<1>2. Joins(a, j, E) /\ Joins(a, k, E)
  BY LaterType, ConnectSorted DEF Connected, SameSet
<1> HIDE DEF j, k, a, E
<1>3. j \in State /\ k \in State /\ j \in Game /\ j.balls \in [Index -> Ball] /\ k.balls \in [Index -> Ball]
  BY <1>2 DEF Joins, Game, State
<1>4. \A i \in Index : j.balls[i] = k.balls[i]
  BY <1>2 DEF Joins
<1>5. j.balls = k.balls
  BY <1>3, <1>4
<1>6. j.paused = k.paused
  BY <1>2, Zenon DEF Joins
<1>7. /\ j.frame = k.frame /\ j.deathCount = k.deathCount /\ j.lie = k.lie /\ j.scores = k.scores
  BY <1>2 DEF Joins
<1>8. j = k
  BY <1>3, <1>5, <1>6, <1>7 DEF State
<1> QED
  BY <1>1, <1>3, <1>8, SameMove

\* What a sort returns, for events that are the same as a set.
LEMMA OrderedSame ==
    ASSUME NEW es \in Seq(Event), NEW fs \in Seq(Event), NEW f \in Orders(fs),
           {es[i] : i \in DOMAIN es} = {fs[i] : i \in DOMAIN fs}
    PROVE  SameSet([i \in DOMAIN f |-> fs[f[i]]], Sort(es))
<1>1. Arranges(f, fs, Len(fs))
  BY OrdersAre
<1>2. [i \in DOMAIN f |-> fs[f[i]]] = InOrder(fs, f)
  BY DEF InOrder
<1> DEFINE q == InOrder(fs, f)
           t == Sort(es)
<1>3. /\ q \in Seq(Event) /\ Sorted(q)
      /\ UpToEvent(q, Len(q)) = {fs[i] : i \in DOMAIN fs}
  BY <1>1, ArrangedIs
<1>4. /\ t \in Seq(Event) /\ Sorted(t)
      /\ UpToEvent(t, Len(t)) = {es[i] : i \in DOMAIN es}
  BY SortIs
<1> HIDE DEF q, t
<1>5. SameSet(q, t)
  BY <1>3, <1>4 DEF SameSet
<1> QED
  BY <1>2, <1>5 DEF q, t

\* The events of a frame work as a set, as the comment in advance_state has it: in
\* whatever order they have come, and if one has come twice, every order that qsort may
\* return leads to the same state.
THEOREM EventsWorkAsASet ==
    ASSUME world \in Game, evs \in Seq(Event)
    PROVE  EventsAreASet
<1> SUFFICES ASSUME NEW again \in {<<>>} \cup {<<evs[i]>> : i \in DOMAIN evs},
                    NEW s \in Orders(evs \o again)
             PROVE  Advance(world, [i \in DOMAIN s |-> (evs \o again)[s[i]]])
                      = AdvanceState(world, evs)
  BY DEF EventsAreASet
<1> DEFINE es == evs \o again
<1>1. Len(evs) \in Nat /\ DOMAIN evs = 1 .. Len(evs) /\ \A i \in DOMAIN evs : evs[i] \in Event
  BY LenProperties, ElementOfSeq
<1>2. /\ again \in Seq(Event) /\ Len(again) \in 0 .. 1
      /\ \A i \in 1 .. Len(again) : \E j \in DOMAIN evs : again[i] = evs[j]
  <2>1. CASE again = <<>>
    BY <2>1
  <2>2. CASE \E j \in DOMAIN evs : again = <<evs[j]>>
    <3>1. PICK j \in DOMAIN evs : again = <<evs[j]>>
      BY <2>2
    <3>2. evs[j] \in Event
      BY <1>1
    <3> QED
      BY <3>1, <3>2
  <2> QED
    BY <2>1, <2>2
<1>3. /\ es \in Seq(Event) /\ Len(es) = Len(evs) + Len(again) /\ DOMAIN es = 1 .. Len(es)
      /\ \A i \in 1 .. Len(es) :
           es[i] = IF i <= Len(evs) THEN evs[i] ELSE again[i - Len(evs)]
  BY <1>2, ConcatProperties, LenProperties
<1>4. {es[i] : i \in DOMAIN es} = {evs[i] : i \in DOMAIN evs}
  <2> HIDE DEF es
  <2>1. ASSUME NEW i \in DOMAIN es
        PROVE  \E j \in DOMAIN evs : es[i] = evs[j]
    <3>1. CASE i <= Len(evs)
      <4>1. i \in DOMAIN evs
        BY <1>1, <1>3, <3>1, SMT
      <4> QED
        BY <1>3, <3>1, <4>1
    <3>2. CASE ~ (i <= Len(evs))
      <4>1. i - Len(evs) \in 1 .. Len(again)
        BY <1>1, <1>2, <1>3, <3>2, SMT
      <4> QED
        BY <1>2, <1>3, <3>2, <4>1
    <3> QED
      BY <3>1, <3>2
  <2>2. ASSUME NEW j \in DOMAIN evs
        PROVE  j \in DOMAIN es /\ es[j] = evs[j]
    <3>1. j \in 1 .. Len(es) /\ j <= Len(evs)
      BY <1>1, <1>2, <1>3, SMT
    <3> QED
      BY <1>3, <3>1
  <2> QED
    BY <2>1, <2>2
<1>5. SameSet([i \in DOMAIN s |-> es[s[i]]], Sort(evs))
  <2> HIDE DEF es
  <2>1. s \in Orders(es)
    BY DEF es
  <2> QED
    BY <1>3, <1>4, <2>1, OrderedSame
<1>6. Advance(world, [i \in DOMAIN s |-> es[s[i]]]) = Advance(world, Sort(evs))
  BY <1>5, SameAdvance
<1> QED
  BY <1>6 DEF AdvanceState

LEMMA AdvanceStateType ==
    ASSUME NEW ini \in Game, NEW es \in Seq(Event)
    PROVE  /\ AdvanceState(ini, es) \in Game
           /\ AdvanceState(ini, es).frame = ini.frame + 1
           /\ AdvanceState(ini, es).deathCount >= ini.deathCount
           /\ \A s \in Game : Alike(ini, s) /\ AdvanceState(ini, es).deathCount = ini.deathCount
                                => Alike(AdvanceState(ini, es), AdvanceState(s, es))
BY SortIs, AdvanceType DEF AdvanceState

-------------------------------------------------------------------------------
(* Packets: what is read is what was written *)

LEMMA Digit ==
    ASSUME NEW m \in Int
    PROVE  /\ m = 256 * (m \div 256) + (m % 256)
           /\ m \div 256 \in Int /\ m % 256 \in 0 .. 255
  BY SMT

LEMMA MaxAre ==
    /\ MaxShort \in Nat /\ MaxInt \in Nat /\ MaxShort >= 300 /\ MaxInt >= MaxShort
  BY SMT DEF MaxShort, MaxInt

LEMMA FitsAre ==
    /\ Fits(1) = -128 .. 127
    /\ Fits(2) = - MaxShort - 1 .. MaxShort
    /\ Fits(4) = - MaxInt - 1 .. MaxInt
    /\ \A w \in {1, 2, 4} : w = 1 \/ w = 2 \/ w = 4
BY DEF Fits

LEMMA FitsInt ==
    ASSUME NEW w \in {1, 2, 4}, NEW n \in Fits(w)
    PROVE  n \in Int
<1>1. CASE w = 1
  <2>1. n \in -128 .. 127
    BY <1>1 DEF Fits
  <2> QED
    BY <2>1, SMT
<1>2. CASE w = 2
  <2>1. n \in - MaxShort - 1 .. MaxShort
    BY <1>2 DEF Fits
  <2> QED
    BY <2>1, MaxAre, SMT
<1>3. CASE w = 4
  <2>1. n \in - MaxInt - 1 .. MaxInt
    BY <1>3 DEF Fits
  <2> QED
    BY <2>1, MaxAre, SMT
<1> QED
  BY <1>1, <1>2, <1>3

\* A number that fits its bytes is read from them.
Reads(n, w) ==
    /\ Bytes(n, w) \in [1 .. w -> 0 .. 255]
    /\ Value(Bytes(n, w)) = n

LEMMA RoundTrip ==
    ASSUME NEW w \in {1, 2, 4}, NEW n \in Fits(w)
    PROVE  Reads(n, w)
<1> DEFINE a == n \div 256
           b == a \div 256
           c == b \div 256
           bs == Bytes(n, w)
           r == n % 256
           s == a % 256
           t == b % 256
<1>1. n \in Int /\ a \in Int /\ b \in Int /\ c \in Int
  BY FitsInt, Digit
<1>2. /\ n = 256 * a + r /\ r \in 0 .. 255
      /\ a = 256 * b + s /\ s \in 0 .. 255
      /\ b = 256 * c + t /\ t \in 0 .. 255
      /\ c % 256 \in 0 .. 255
  BY <1>1, Digit
<1>3. /\ Shifted(n)[1] = n /\ Shifted(n)[2] = a
      /\ Shifted(n)[3] = b /\ Shifted(n)[4] = c
  BY DEF Shifted
<1>4. bs = [i \in 1 .. w |-> Shifted(n)[w - i + 1] % 256]
  BY DEF Bytes
<1> HIDE DEF a, b, c, bs, r, s, t
<1>5. \A i \in 1 .. w : bs[i] = Shifted(n)[w - i + 1] % 256
  BY <1>4
<1>6. ASSUME \A i \in 1 .. w : bs[i] \in 0 .. 255
       PROVE  bs \in [1 .. w -> 0 .. 255]
  BY <1>4, <1>6, ZenonT(60)
<1>7. \A m \in -128 .. 127 : Signed(m % 256) = m
  BY SMT DEF Signed
<1>8. ASSUME w = 1
      PROVE  bs \in [1 .. w -> 0 .. 255] /\ Value(bs) = n
  <2>1. 1 \in 1 .. w /\ w - 1 + 1 = 1 /\ \A i \in 1 .. w : i = 1
    BY <1>8, SMT
  <2>2. bs[1] = r
    BY <1>3, <1>5, <2>1 DEF r
  <2>3. bs \in [1 .. w -> 0 .. 255]
    BY SMTT(30), <1>2, <1>6, <2>1, <2>2
  <2>4. Len(bs) = 1
    BY <1>8, <2>3, LenProperties
  <2>5. n \in -128 .. 127
    BY <1>8 DEF Fits
  <2>6. Signed(bs[1]) = n
    BY <1>7, <2>2, <2>5 DEF r
  <2> QED
    BY SMTT(30), <2>3, <2>4, <2>6 DEF Value
<1>9. ASSUME w = 2
      PROVE  bs \in [1 .. w -> 0 .. 255] /\ Value(bs) = n
  <2>1. /\ 1 \in 1 .. w /\ 2 \in 1 .. w /\ w - 1 + 1 = 2 /\ w - 2 + 1 = 1
        /\ \A i \in 1 .. w : i = 1 \/ i = 2
    BY <1>9, SMT
  <2>2. bs[1] = a % 256 /\ bs[2] = r
    <3>1. bs[1] = Shifted(n)[w - 1 + 1] % 256 /\ bs[2] = Shifted(n)[w - 2 + 1] % 256
      BY <1>5, <2>1
    <3> QED
      BY <1>3, <2>1, <3>1 DEF r
  <2>3. bs \in [1 .. w -> 0 .. 255]
    <3>1. bs[1] \in 0 .. 255 /\ bs[2] \in 0 .. 255
      BY <1>2, <2>2 DEF s
    <3> QED
      BY <1>6, <2>1, <3>1
  <2>4. Len(bs) = 2
    BY <1>9, <2>3, LenProperties
  <2>5. n \in - MaxShort - 1 .. MaxShort
    BY <1>9 DEF Fits
  <2>6. a \in -128 .. 127
    <3>1. n <= MaxShort /\ n >= - MaxShort - 1
      BY <2>5, MaxAre, SMT
    <3>2. a <= 127 /\ a >= -128
      BY <1>1, <1>2, <3>1, SMT DEF MaxShort
    <3> QED
      BY <1>1, <3>2, SMT
  <2>7. Value(bs) = 256 * a + r
    <3>1. Signed(bs[1]) = a
      BY <1>7, <2>2, <2>6
    <3> QED
      BY <2>2, <2>4, <3>1 DEF Value
  <2> QED
    BY ZenonT(60), <1>2, <2>3, <2>7
<1>10. ASSUME w = 4
      PROVE  bs \in [1 .. w -> 0 .. 255] /\ Value(bs) = n
  <2>1. /\ 1 \in 1 .. w /\ 2 \in 1 .. w /\ 3 \in 1 .. w /\ 4 \in 1 .. w
        /\ w - 1 + 1 = 4 /\ w - 2 + 1 = 3 /\ w - 3 + 1 = 2 /\ w - 4 + 1 = 1
        /\ \A i \in 1 .. w : i = 1 \/ i = 2 \/ i = 3 \/ i = 4
    BY <1>10, SMT
  <2>2. bs[1] = c % 256 /\ bs[2] = t /\ bs[3] = s /\ bs[4] = r
    <3>1. /\ bs[1] = Shifted(n)[w - 1 + 1] % 256 /\ bs[2] = Shifted(n)[w - 2 + 1] % 256
          /\ bs[3] = Shifted(n)[w - 3 + 1] % 256 /\ bs[4] = Shifted(n)[w - 4 + 1] % 256
      BY <1>5, <2>1
    <3> QED
      BY <1>3, <2>1, <3>1 DEF r, s, t
  <2>3. bs \in [1 .. w -> 0 .. 255]
    <3>1. /\ bs[1] \in 0 .. 255 /\ bs[2] \in 0 .. 255
          /\ bs[3] \in 0 .. 255 /\ bs[4] \in 0 .. 255
      BY <1>2, <2>2
    <3> QED
      BY <1>6, <2>1, <3>1
  <2>4. Len(bs) = 4
    BY <1>10, <2>3, LenProperties
  <2>5. n \in - MaxInt - 1 .. MaxInt
    BY <1>10 DEF Fits
  <2>6. c \in -128 .. 127
    <3>1. n <= MaxInt /\ n >= - MaxInt - 1
      BY <2>5, MaxAre, SMT
    <3>2. c <= 127 /\ c >= -128
      BY <1>1, <1>2, <3>1, SMT DEF MaxInt, MaxShort
    <3> QED
      BY <1>1, <3>2, SMT
  <2>7. Value(bs) = 256 * (256 * (256 * c + t) + s) + r
    <3>1. Signed(bs[1]) = c
      BY <1>7, <2>2, <2>6
    <3> QED
      BY <2>2, <2>4, <3>1 DEF Value
  <2> QED
    BY SMTT(30), <1>2, <2>3, <2>7
<1> QED
  BY <1>8, <1>9, <1>10 DEF bs, Reads
-------------------------------------------------------------------------------
(* Where the numbers of a payload are *)

\* The widths and the offsets of numbers.
Widths == {1, 2, 4}
OffsetSeq == Seq(Nat) \ {<<>>}

\* Each number begins where the one before it ends.
Spaced(at, ws) ==
    /\ at \in Seq(Nat) /\ Len(at) = Len(ws) + 1 /\ at[1] = 0
    /\ \A i \in 1 .. Len(ws) : at[i + 1] = at[i] + ws[i]

LEMMA AddOffsetType ==
    ASSUME NEW at \in OffsetSeq, NEW w \in Nat
    PROVE  /\ AddOffset(at, w) \in OffsetSeq
           /\ Len(at) \in Nat /\ Len(at) >= 1
           /\ Len(AddOffset(at, w)) = Len(at) + 1
           /\ AddOffset(at, w)[Len(at) + 1] = at[Len(at)] + w
           /\ \A i \in 1 .. Len(at) : AddOffset(at, w)[i] = at[i]
<1>1. at \in Seq(Nat) /\ Len(at) \in Nat /\ Len(at) >= 1
  BY EmptySeq, SMT DEF OffsetSeq
<1>2. at[Len(at)] + w \in Nat
  <2>1. Len(at) \in 1 .. Len(at)
    BY <1>1, SMT
  <2>2. at[Len(at)] \in Nat
    BY <1>1, <2>1, ElementOfSeq
  <2> QED
    BY <2>2, SMT
<1> DEFINE e == at[Len(at)] + w
<1>3. AddOffset(at, w) = Append(at, e)
  BY DEF AddOffset, Last
<1> HIDE DEF e
<1>4. /\ Append(at, e) \in Seq(Nat) /\ Len(Append(at, e)) = Len(at) + 1
      /\ Append(at, e)[Len(at) + 1] = e
      /\ \A i \in 1 .. Len(at) : Append(at, e)[i] = at[i]
  BY <1>1, <1>2, AppendProperties DEF e
<1>5. Append(at, e) # <<>>
  BY <1>1, <1>4, EmptySeq, SMT
<1> QED
  BY <1>1, <1>3, <1>4, <1>5 DEF OffsetSeq, e

\* The loop that adds up the widths.
LEMMA OffsetsRounds ==
    ASSUME NEW ws \in Seq(Nat)
    PROVE  \E r \in [0 .. Len(ws) -> OffsetSeq] :
             /\ r[0] = <<0>>
             /\ \A k \in 1 .. Len(ws) : r[k] = AddOffset(r[k - 1], ws[k])
             /\ FoldLeft(AddOffset, <<0>>, ws) = r[Len(ws)]
<1>0. <<0>> \in OffsetSeq
  BY DEF OffsetSeq
<1> DEFINE F == [x \in OffsetSeq \X Nat |-> AddOffset(x[1], x[2])]
<1>1. F \in [OffsetSeq \X Nat -> OffsetSeq]
  BY AddOffsetType
<1>2. \A x \in OffsetSeq, y \in Nat : F[<<x, y>>] = AddOffset(x, y)
  OBVIOUS
<1> HIDE DEF F
<1>3. /\ DOMAIN ws = 1 .. Len(ws) /\ Len(ws) \in Nat
      /\ \A k \in DOMAIN ws : ws[k] \in Nat
      /\ \A s \in SUBSET (DOMAIN ws) : s # {} => Max(s) \in DOMAIN ws
  BY LenProperties, ElementOfSeq, MaxIn
<1>4. PICK g \in [SUBSET (DOMAIN ws) -> OffsetSeq] : IsFold(g, OffsetSeq, F, <<0>>, ws)
  BY <1>0, <1>1, FoldExists
<1>5. \A s \in SUBSET (DOMAIN ws) : s # {} => g[s] = AddOffset(g[s \ {Max(s)}], ws[Max(s)])
  <2> TAKE s \in SUBSET (DOMAIN ws)
  <2> HAVE s # {}
  <2>1. g[s \ {Max(s)}] \in OffsetSeq /\ ws[Max(s)] \in Nat
    BY <1>3, <1>4
  <2> QED
    BY <1>2, <1>4, <2>1 DEF IsFold
<1>6. g = [s \in SUBSET (DOMAIN ws) |->
             IF s = {} THEN <<0>> ELSE AddOffset(g[s \ {Max(s)}], ws[Max(s)])]
  BY <1>4, <1>5 DEF IsFold
<1>7. PICK h : /\ h = [s \in SUBSET (DOMAIN ws) |->
                       IF s = {} THEN <<0>> ELSE AddOffset(h[s \ {Max(s)}], ws[Max(s)])]
               /\ FoldLeft(AddOffset, <<0>>, ws) = h[DOMAIN ws]
  BY <1>6 DEF FoldLeft, MapThenFoldSet
<1>8. IsFold(h, OffsetSeq, F, <<0>>, ws)
  <2>1. h[{}] = <<0>>
    BY <1>7
  <2>2. ASSUME NEW s \in SUBSET (DOMAIN ws), s # {}, h[s \ {Max(s)}] \in OffsetSeq
        PROVE  h[s] = F[<<h[s \ {Max(s)}], ws[Max(s)]>>]
    <3>1. h[s] = AddOffset(h[s \ {Max(s)}], ws[Max(s)])
      BY <1>7, <2>2
    <3>2. ws[Max(s)] \in Nat
      BY <1>3, <2>2
    <3> QED
      BY <1>2, <2>2, <3>1, <3>2
  <2> QED
    BY <2>1, <2>2 DEF IsFold
<1>9. PICK r : Rounds(r, OffsetSeq, F, <<0>>, ws, h[DOMAIN ws])
  BY <1>1, <1>0, <1>8, FoldRounds
<1>10. ASSUME NEW k \in 1 .. Len(ws)
       PROVE  r[k] = AddOffset(r[k - 1], ws[k])
  <2>1. k - 1 \in 0 .. Len(ws)
    BY <1>3, SMT
  <2>2. r[k - 1] \in OffsetSeq /\ ws[k] \in Nat
    BY <1>3, <1>9, <2>1 DEF Rounds
  <2> QED
    BY <1>2, <1>9, <2>2 DEF Rounds
<1> QED
  BY <1>7, <1>9, <1>10 DEF Rounds

LEMMA OffsetsAre ==
    ASSUME NEW ws \in Seq(Nat)
    PROVE  Spaced(Offsets(ws), ws) /\ Last(Offsets(ws)) = Offsets(ws)[Len(ws) + 1]
<1> DEFINE n == Len(ws)
<1>1. n \in Nat
  BY LenProperties
<1>2. PICK r \in [0 .. Len(ws) -> OffsetSeq] :
        /\ r[0] = <<0>>
        /\ \A k \in 1 .. Len(ws) : r[k] = AddOffset(r[k - 1], ws[k])
        /\ FoldLeft(AddOffset, <<0>>, ws) = r[Len(ws)]
  BY OffsetsRounds
<1> DEFINE P == {k \in 0 .. n : /\ Len(r[k]) = k + 1 /\ r[k][1] = 0
                                /\ \A i \in 1 .. k : r[k][i + 1] = r[k][i] + ws[i]}
<1>3. 0 \in P
  <2>1. 0 \in 0 .. n /\ 1 .. 0 = {} /\ 0 + 1 = 1
    BY <1>1, SMT
  <2>2. Len(r[0]) = 1 /\ r[0][1] = 0
    BY <1>2
  <2> QED
    BY <2>1, <2>2
<1>4. ASSUME NEW k \in 1 .. n, k - 1 \in P
      PROVE  k \in P
  <2>1. k \in 0 .. n /\ k - 1 \in 0 .. n /\ k \in Nat /\ k - 1 + 1 = k
    BY <1>1, SMT
  <2> DEFINE s == r[k - 1]
             t == r[k]
  <2>2. /\ s \in OffsetSeq /\ ws[k] \in Nat /\ t = AddOffset(s, ws[k])
        /\ Len(s) = k /\ s[1] = 0 /\ \A i \in 1 .. k - 1 : s[i + 1] = s[i] + ws[i]
    BY <1>2, <1>4, <2>1, ElementOfSeq
  <2> HIDE DEF s, t
  <2>3. Len(t) = k + 1 /\ t[k + 1] = s[k] + ws[k] /\ \A i \in 1 .. k : t[i] = s[i]
    BY <2>2, AddOffsetType
  <2>4. t[1] = 0
    <3>1. 1 \in 1 .. k
      BY SMT
    <3> QED
      BY <2>2, <2>3, <3>1
  <2>5. ASSUME NEW i \in 1 .. k
        PROVE  t[i + 1] = t[i] + ws[i]
    <3>1. CASE i = k
      BY <2>3, <3>1
    <3>2. CASE i # k
      <4>1. i \in 1 .. k - 1 /\ i + 1 \in 1 .. k
        BY <2>1, <3>2, SMT
      <4> QED
        BY <2>2, <2>3, <4>1
    <3> QED
      BY <3>1, <3>2
  <2> QED
    BY <2>1, <2>3, <2>4, <2>5 DEF t
<1>5. \A k \in 0 .. n : k \in P
  <2> HIDE DEF P
  <2> QED
    BY <1>1, <1>3, <1>4, UpTo
<1>6. n \in P /\ n \in 0 .. n
  <2>1. n \in 0 .. n
    BY <1>1, SMT
  <2> QED
    BY <1>5, <2>1
<1>7. Offsets(ws) = r[n] /\ r[n] \in Seq(Nat)
  BY <1>2, <1>6 DEF Offsets, OffsetSeq
<1> QED
  BY <1>6, <1>7 DEF Spaced, Last

\* Numbers that are at least a byte wide begin one after another, and every byte up
\* to the end of the last one belongs to one of them.
LEMMA SpacedGrows ==
    ASSUME NEW ws \in Seq(Nat \ {0}), NEW at, Spaced(at, ws)
    PROVE  /\ Len(ws) \in Nat
           /\ \A i \in 1 .. Len(ws) + 1 : at[i] \in Nat
           /\ \A i \in 1 .. Len(ws) : ws[i] \in Nat \ {0} /\ at[i + 1] = at[i] + ws[i]
           /\ \A i, k \in 1 .. Len(ws) + 1 : i < k => at[i] < at[k]
           /\ \A j \in 1 .. at[Len(ws) + 1] : \E i \in 1 .. Len(ws) : at[i] < j /\ j <= at[i + 1]
<1> DEFINE n == Len(ws)
<1>1. /\ n \in Nat /\ at[1] = 0
      /\ \A i \in 1 .. n + 1 : at[i] \in Nat
      /\ \A i \in 1 .. n : ws[i] \in Nat \ {0} /\ at[i + 1] = at[i] + ws[i]
  BY LenProperties, ElementOfSeq DEF Spaced
<1> HIDE DEF n
<1> DEFINE P == {k \in 0 .. n : \A i \in 1 .. k : at[i] < at[k + 1]}
           Q == {k \in 0 .. n : \A j \in 1 .. at[k + 1] : \E i \in 1 .. k : at[i] < j /\ j <= at[i + 1]}
<1>2. 0 \in P /\ 0 \in Q
  <2>1. 0 \in 0 .. n /\ 1 .. 0 = {} /\ 0 + 1 = 1
    BY <1>1, SMT
  <2> QED
    BY <1>1, <2>1
<1>3. ASSUME NEW k \in 1 .. n
      PROVE  /\ k \in 0 .. n /\ k - 1 + 1 = k /\ at[k] \in Nat /\ at[k + 1] \in Nat
             /\ at[k] < at[k + 1]
             /\ \A i \in 1 .. k : i = k \/ i \in 1 .. k - 1
             /\ \A i \in 1 .. k : at[i] \in Nat
  <2>1. /\ k \in 1 .. n + 1 /\ k + 1 \in 1 .. n + 1 /\ k \in 0 .. n /\ k - 1 + 1 = k
        /\ \A i \in 1 .. k : i = k \/ i \in 1 .. k - 1
        /\ \A i \in 1 .. k : i \in 1 .. n + 1
    BY <1>1, SMT
  <2>2. at[k] \in Nat /\ at[k + 1] \in Nat /\ ws[k] \in Nat \ {0} /\ at[k + 1] = at[k] + ws[k]
    BY <1>1, <2>1
  <2>3. at[k] < at[k + 1]
    BY <2>2, SMTT(30)
  <2> QED
    BY <1>1, <2>1, <2>2, <2>3
<1>4. ASSUME NEW k \in 1 .. n, k - 1 \in P
      PROVE  k \in P
  <2>1. \A i \in 1 .. k - 1 : at[i] < at[k]
    BY <1>3, <1>4
  <2>2. ASSUME NEW i \in 1 .. k
        PROVE  at[i] < at[k + 1]
    <3>1. i = k \/ at[i] < at[k]
      BY <1>3, <2>1
    <3>2. /\ at[i] \in Nat /\ at[k] \in Nat /\ at[k + 1] \in Nat /\ at[k] < at[k + 1]
      BY <1>3
    <3> QED
      BY <3>1, <3>2, SMT
  <2> QED
    BY <1>3, <2>2
<1>5. ASSUME NEW k \in 1 .. n, k - 1 \in Q
      PROVE  k \in Q
  <2>1. ASSUME NEW j \in 1 .. at[k + 1]
        PROVE  \E i \in 1 .. k : at[i] < j /\ j <= at[i + 1]
    <3>1. j \in Nat /\ j <= at[k + 1] /\ (j <= at[k] => j \in 1 .. at[k]) /\ k \in 1 .. k
      BY <1>3, SMT
    <3>2. CASE j <= at[k]
      <4>1. PICK i \in 1 .. k - 1 : at[i] < j /\ j <= at[i + 1]
        BY <1>3, <1>5, <3>1, <3>2
      <4>2. i \in 1 .. k
        BY SMT
      <4> QED
        BY <4>1, <4>2
    <3>3. CASE ~ (j <= at[k])
      <4>1. at[k] < j
        BY <1>3, <3>1, <3>3, SMT
      <4> QED
        BY <3>1, <4>1
    <3> QED
      BY <3>2, <3>3
  <2> QED
    BY <1>3, <2>1
<1>6. \A k \in 0 .. n : k \in P /\ k \in Q
  <2> HIDE DEF P, Q
  <2>1. \A k \in 0 .. n : k \in P
    BY <1>1, <1>2, <1>4, UpTo
  <2>2. \A k \in 0 .. n : k \in Q
    BY <1>1, <1>2, <1>5, UpTo
  <2> QED
    BY <2>1, <2>2
<1>7. \A i, k \in 1 .. n + 1 : i < k => at[i] < at[k]
  <2> TAKE i, k \in 1 .. n + 1
  <2> HAVE i < k
  <2>1. k - 1 \in 0 .. n /\ i \in 1 .. k - 1 /\ k - 1 + 1 = k
    BY <1>1, SMT
  <2> QED
    BY <1>6, <2>1
<1>8. n \in Q
  <2>1. n \in 0 .. n
    BY <1>1, SMT
  <2> QED
    BY <1>6, <2>1
<1> QED
  BY <1>1, <1>7, <1>8 DEF n

\* Two ways to space the same numbers put the same number at the same place.
Steps(f, ws) == f[1] = 0 /\ \A i \in 1 .. Len(ws) : f[i + 1] = f[i] + ws[i]

LEMMA SpacedOnce ==
    ASSUME NEW ws \in Seq(Nat), NEW at, Spaced(at, ws), NEW f, Steps(f, ws)
    PROVE  \A i \in 1 .. Len(ws) + 1 : at[i] = f[i]
<1> DEFINE n == Len(ws)
           P == {k \in 0 .. n : at[k + 1] = f[k + 1]}
<1>1. n \in Nat
  BY LenProperties
<1>2. /\ at[1] = 0 /\ \A i \in 1 .. n : at[i + 1] = at[i] + ws[i]
      /\ f[1] = 0 /\ \A i \in 1 .. n : f[i + 1] = f[i] + ws[i]
  BY DEF Spaced, Steps
<1> HIDE DEF n
<1>3. 0 \in P
  <2>1. 0 \in 0 .. n /\ 0 + 1 = 1
    BY <1>1, SMT
  <2> QED
    BY <1>2, <2>1
<1>4. ASSUME NEW k \in 1 .. n, k - 1 \in P
      PROVE  k \in P
  <2>1. k \in 0 .. n /\ k - 1 + 1 = k
    BY <1>1, SMT
  <2>2. at[k + 1] = at[k] + ws[k] /\ f[k + 1] = f[k] + ws[k]
    BY <1>2
  <2> QED
    BY <1>4, <2>1, <2>2
<1>5. \A k \in 0 .. n : k \in P
  <2> HIDE DEF P
  <2> QED
    BY <1>1, <1>3, <1>4, UpTo
<1>6. \A i \in 1 .. n + 1 : i - 1 \in 0 .. n /\ i - 1 + 1 = i
  BY <1>1, SMT
<1> QED
  BY <1>5, <1>6 DEF n

LEMMA FunctionIsSeq ==
    ASSUME NEW k \in Nat, NEW S, NEW f \in [1 .. k -> S]
    PROVE  f \in Seq(S) /\ Len(f) = k
<1>1. f \in Seq(S)
  BY SeqDef
<1>2. Len(f) \in Nat /\ 1 .. Len(f) = 1 .. k
  BY <1>1, LenProperties
<1> QED
  BY <1>1, <1>2, SMT

\* One sequence of bytes after another.
Glued(r, a, b) ==
    /\ r \in Seq(0 .. 255) /\ Len(r) = Len(a) + Len(b)
    /\ \A i \in 1 .. Len(a) + Len(b) : r[i] = IF i <= Len(a) THEN a[i] ELSE b[i - Len(a)]

LEMMA GlueIs ==
    ASSUME NEW a \in Seq(0 .. 255), NEW b \in Seq(0 .. 255)
    PROVE  Glued(a \o b, a, b)
BY ConcatProperties DEF Glued

\* The numbers of some widths, each of which fits.
Fitting(ws, fields) ==
    /\ ws \in Seq(Widths) /\ fields \in Seq(Int) /\ Len(fields) = Len(ws)
    /\ \A i \in 1 .. Len(ws) : fields[i] \in Fits(ws[i])

LEMMA WidthsAre ==
    ASSUME NEW ws \in Seq(Widths)
    PROVE  /\ ws \in Seq(Nat) /\ ws \in Seq(Nat \ {0})
           /\ DOMAIN ws = 1 .. Len(ws) /\ Len(ws) \in Nat
           /\ \A i \in 1 .. Len(ws) : ws[i] \in {1, 2, 4}
<1>1. Widths \subseteq Nat \ {0} /\ Widths \subseteq Nat
  BY SMT DEF Widths
<1>2. \A i \in 1 .. Len(ws) : ws[i] \in Widths
  BY ElementOfSeq
<1>3. ws \in Seq(Nat \ {0}) /\ ws \in Seq(Nat)
  BY <1>1, SeqMonotonic
<1> QED
  BY <1>2, <1>3, LenProperties DEF Widths

\* What byte is where.
LEMMA PlacesAre ==
    ASSUME NEW ws \in Seq(Widths)
    PROVE  LET at == Offsets(ws)
               n  == Len(ws) IN
             /\ at[n + 1] \in Nat
             /\ DOMAIN Places(ws) = 1 .. at[n + 1]
             /\ Len(Places(ws)) = at[n + 1]
             /\ \A j \in 1 .. at[n + 1] :
                  \E i \in 1 .. n : \E m \in 1 .. ws[i] : j = at[i] + m /\ Places(ws)[j] = <<i, m>>
             /\ \A i \in 1 .. n : \A m \in 1 .. ws[i] :
                  at[i] + m \in 1 .. at[n + 1] /\ Places(ws)[at[i] + m] = <<i, m>>
<1> DEFINE at == Offsets(ws)
           n  == Len(ws)
           ps == Places(ws)
           In(i, j) == at[i] < j /\ j <= at[i + 1]
           pick(j) == CHOOSE i \in 1 .. n : In(i, j)
<1>1. ws \in Seq(Nat) /\ ws \in Seq(Nat \ {0}) /\ DOMAIN ws = 1 .. n
  BY WidthsAre
<1>2. Spaced(at, ws) /\ Last(at) = at[n + 1]
  BY <1>1, OffsetsAre
<1>3. ps = [j \in 1 .. at[n + 1] |-> <<pick(j), j - at[pick(j)]>>]
  BY <1>1, <1>2 DEF Places
<1> HIDE DEF at, ps
<1>4. /\ n \in Nat
      /\ \A i \in 1 .. n + 1 : at[i] \in Nat
      /\ \A i \in 1 .. n : ws[i] \in Nat \ {0} /\ at[i + 1] = at[i] + ws[i]
      /\ \A i, k \in 1 .. n + 1 : i < k => at[i] < at[k]
      /\ \A j \in 1 .. at[n + 1] : \E i \in 1 .. n : at[i] < j /\ j <= at[i + 1]
  BY <1>1, <1>2, SpacedGrows
<1> HIDE DEF n
<1>5. \A j \in 1 .. at[n + 1] : pick(j) \in 1 .. n /\ In(pick(j), j)
  BY <1>4
<1>6. /\ n + 1 \in 1 .. n + 1 /\ 1 .. n \subseteq 1 .. n + 1 /\ 1 .. n \subseteq Nat
      /\ \A i \in 1 .. n : i + 1 \in 1 .. n + 1
  BY <1>4, SMT
<1>7. at[n + 1] \in Nat
  BY <1>4, <1>6
<1>8. ASSUME NEW j \in 1 .. at[n + 1], NEW i \in 1 .. n, In(i, j)
      PROVE  pick(j) = i
  <2>1. \A k \in 1 .. n : In(k, j) => k = i
    <3> SUFFICES ASSUME NEW k \in 1 .. n, In(k, j), k # i PROVE FALSE
      OBVIOUS
    <3>1. /\ at[i] \in Nat /\ at[i + 1] \in Nat /\ at[k] \in Nat /\ at[k + 1] \in Nat
          /\ j \in Int
      BY <1>4, <1>6, SMTT(30)
    <3>2. i + 1 = k \/ i + 1 < k \/ k + 1 = i \/ k + 1 < i
      BY <1>6, SMT
    <3>3. /\ i + 1 < k => at[i + 1] < at[k]
          /\ k + 1 < i => at[k + 1] < at[i]
      BY <1>4, <1>6
    <3> HIDE DEF pick
    <3> QED
      BY <1>8, <3>1, <3>2, <3>3, SMTT(30)
  <2> QED
    BY <1>5, <2>1
<1>9. ASSUME NEW j \in 1 .. at[n + 1]
      PROVE  \E i \in 1 .. n : \E m \in 1 .. ws[i] : j = at[i] + m /\ ps[j] = <<i, m>>
  <2> DEFINE i == pick(j)
             m == j - at[i]
  <2>1. i \in 1 .. n /\ In(i, j) /\ ps[j] = <<i, m>>
    BY <1>3, <1>5
  <2> HIDE DEF i, pick
  <2>2. at[i] \in Nat /\ ws[i] \in Nat /\ at[i + 1] = at[i] + ws[i]
    BY <1>4, <1>6, <2>1
  <2>3. m \in 1 .. ws[i] /\ j = at[i] + m
    BY <2>1, <2>2, SMT
  <2> QED
    BY <2>1, <2>3
<1>10. ASSUME NEW i \in 1 .. n, NEW m \in 1 .. ws[i]
       PROVE  at[i] + m \in 1 .. at[n + 1] /\ ps[at[i] + m] = <<i, m>>
  <2> DEFINE j == at[i] + m
  <2>1. /\ at[i] \in Nat /\ ws[i] \in Nat /\ at[i + 1] = at[i] + ws[i] /\ at[i + 1] \in Nat
    BY <1>4, <1>6
  <2>2. at[i + 1] <= at[n + 1]
    <3>1. i + 1 = n + 1 \/ i + 1 < n + 1
      BY <1>6, SMT
    <3>2. at[i + 1] = at[n + 1] \/ at[i + 1] < at[n + 1]
      BY <1>4, <1>6, <3>1
    <3> QED
      BY <1>7, <2>1, <3>2, SMT
  <2>3. j \in 1 .. at[n + 1] /\ at[i] < j /\ j <= at[i + 1] /\ j - at[i] = m
    BY <1>7, <2>1, <2>2, SMTT(30)
  <2>4. pick(j) = i
    BY <1>8, <2>3
  <2> HIDE DEF j, pick
  <2>5. ps[j] = <<pick(j), j - at[pick(j)]>>
    BY <1>3, <2>3
  <2> QED
    BY <2>3, <2>4, <2>5 DEF j
<1>11. DOMAIN ps = 1 .. at[n + 1] /\ Len(ps) = at[n + 1]
  <2> HIDE DEF pick
  <2> DEFINE k == at[n + 1]
             S == {<<pick(j), j - at[pick(j)]>> : j \in 1 .. k}
  <2>1. k \in Nat /\ ps \in [1 .. k -> S] /\ DOMAIN ps = 1 .. k
    BY <1>3, <1>7
  <2> HIDE DEF k, S
  <2>2. Len(ps) = k
    BY <2>1, FunctionIsSeq
  <2> QED
    BY <2>1, <2>2 DEF k
<1> QED
  BY <1>7, <1>9, <1>10, <1>11 DEF at, n, ps

\* The bytes of numbers, one number after another.
Body(ws, fields) ==
    [j \in DOMAIN Places(ws) |->
       LET i == Places(ws)[j][1] IN Bytes(fields[i], ws[i])[Places(ws)[j][2]]]

LEMMA BodyIs ==
    ASSUME NEW ws, NEW fields, Fitting(ws, fields)
    PROVE  LET at == Offsets(ws)
               n  == Len(ws) IN
             /\ at[n + 1] \in Nat /\ Len(Places(ws)) = at[n + 1]
             /\ Body(ws, fields) \in Seq(0 .. 255) /\ Len(Body(ws, fields)) = at[n + 1]
             /\ \A i \in 1 .. n : \A m \in 1 .. ws[i] :
                  /\ at[i] + m \in 1 .. at[n + 1]
                  /\ Body(ws, fields)[at[i] + m] = Bytes(fields[i], ws[i])[m]
<1> DEFINE at == Offsets(ws)
           n  == Len(ws)
           ps == Places(ws)
           body == Body(ws, fields)
<1>1. ws \in Seq(Widths) /\ \A i \in 1 .. n : ws[i] \in {1, 2, 4} /\ fields[i] \in Fits(ws[i])
  BY WidthsAre DEF Fitting
<1>2. /\ at[n + 1] \in Nat /\ DOMAIN ps = 1 .. at[n + 1] /\ Len(ps) = at[n + 1]
      /\ \A j \in 1 .. at[n + 1] :
           \E i \in 1 .. n : \E m \in 1 .. ws[i] : j = at[i] + m /\ ps[j] = <<i, m>>
      /\ \A i \in 1 .. n : \A m \in 1 .. ws[i] :
           at[i] + m \in 1 .. at[n + 1] /\ ps[at[i] + m] = <<i, m>>
  BY <1>1, PlacesAre
<1>3. \A i \in 1 .. n : Bytes(fields[i], ws[i]) \in [1 .. ws[i] -> 0 .. 255]
  <2> TAKE i \in 1 .. n
  <2> DEFINE f == fields[i]
             w == ws[i]
  <2>1. w \in {1, 2, 4} /\ f \in Fits(w)
    BY <1>1
  <2> HIDE DEF f, w
  <2>2. Reads(f, w)
    BY <2>1, RoundTrip
  <2> QED
    BY <2>2 DEF Reads, f, w
<1> DEFINE byte(j) == Bytes(fields[ps[j][1]], ws[ps[j][1]])[ps[j][2]]
<1>4. body = [j \in 1 .. at[n + 1] |-> byte(j)]
  BY <1>2 DEF Body
<1> HIDE DEF at, n, ps, body, byte
<1>5. ASSUME NEW j \in 1 .. at[n + 1]
      PROVE  byte(j) \in 0 .. 255
  <2>1. PICK i \in 1 .. n : \E m \in 1 .. ws[i] : ps[j] = <<i, m>>
    BY <1>2
  <2>2. PICK m \in 1 .. ws[i] : ps[j] = <<i, m>>
    BY <2>1
  <2>3. Bytes(fields[i], ws[i])[m] \in 0 .. 255
    <3> DEFINE bs == Bytes(fields[i], ws[i])
               w == ws[i]
    <3>1. bs \in [1 .. w -> 0 .. 255] /\ m \in 1 .. w
      BY <1>3
    <3> HIDE DEF bs, w
    <3>2. bs[m] \in 0 .. 255
      BY ZenonT(60), <3>1
    <3> QED
      BY <3>2 DEF bs
  <2>4. ps[j][1] = i /\ ps[j][2] = m
    BY <2>2
  <2> QED
    BY <2>3, <2>4, Zenon DEF byte
<1>6. body \in [1 .. at[n + 1] -> 0 .. 255]
  BY <1>4, <1>5, Zenon
<1>7. body \in Seq(0 .. 255) /\ Len(body) = at[n + 1]
  <2> DEFINE k == at[n + 1]
  <2>1. k \in Nat /\ body \in [1 .. k -> 0 .. 255]
    BY <1>2, <1>6
  <2> HIDE DEF k
  <2>2. body \in Seq(0 .. 255) /\ Len(body) = k
    BY <2>1, FunctionIsSeq
  <2> QED
    BY <2>2 DEF k
<1>8. ASSUME NEW i \in 1 .. n, NEW m \in 1 .. ws[i]
      PROVE  body[at[i] + m] = Bytes(fields[i], ws[i])[m]
  <2> DEFINE j == at[i] + m
  <2>1. j \in 1 .. at[n + 1] /\ ps[j] = <<i, m>>
    BY <1>2
  <2> HIDE DEF j
  <2>2. ps[j][1] = i /\ ps[j][2] = m /\ body[j] = byte(j)
    BY <1>4, <2>1
  <2> QED
    BY <2>2, Zenon DEF byte, j
<1> QED
  BY <1>2, <1>7, <1>8 DEF at, n, ps, body

\* A number is read from wherever its bytes are.
LEMMA ReadIs ==
    ASSUME NEW w \in {1, 2, 4}, NEW n \in Fits(w), NEW head \in Nat, NEW data,
           \A m \in 1 .. w : data[head + m] = Bytes(n, w)[m]
    PROVE  Value(SubSeq(data, head + 1, head + w)) = n
<1> DEFINE lo == head + 1
           hi == head + w
           bs == Bytes(n, w)
           sub == SubSeq(data, lo, hi)
<1>1. bs \in [1 .. w -> 0 .. 255] /\ Value(bs) = n
  <2>1. Reads(n, w)
    BY RoundTrip
  <2> QED
    BY <2>1, Zenon DEF Reads
<1> HIDE DEF bs
<1>2. /\ w \in Nat /\ w >= 1 /\ lo \in Int /\ hi \in Int /\ lo <= hi /\ hi - lo + 1 = w
      /\ \A m \in 1 .. w : lo + m - 1 = head + m
      /\ \A k \in lo .. hi : k - head \in 1 .. w /\ head + (k - head) = k
  BY SMT
<1>3. \A k \in lo .. hi : data[k] \in 0 .. 255
  <2> TAKE k \in lo .. hi
  <2>1. k - head \in 1 .. w /\ head + (k - head) = k
    BY <1>2
  <2>2. bs[k - head] \in 0 .. 255 /\ data[head + (k - head)] = bs[k - head]
    BY <1>1, <2>1 DEF bs
  <2> QED
    BY <2>1, <2>2
<1> HIDE DEF lo, hi
<1>4. /\ sub \in Seq(0 .. 255) /\ Len(sub) = w
      /\ \A m \in 1 .. w : sub[m] = data[lo + m - 1]
  <2>1. lo \in Int /\ hi \in Int /\ lo <= hi
    BY <1>2
  <2>2. /\ SubSeq(data, lo, hi) \in Seq(0 .. 255)
        /\ Len(SubSeq(data, lo, hi)) = (IF lo <= hi THEN hi - lo + 1 ELSE 0)
        /\ \A m \in 1 .. hi - lo + 1 : SubSeq(data, lo, hi)[m] = data[lo + m - 1]
    BY <1>3, <2>1, SubSeqProperties
  <2> HIDE DEF sub
  <2>3. /\ sub \in Seq(0 .. 255) /\ Len(sub) = hi - lo + 1
        /\ \A m \in 1 .. hi - lo + 1 : sub[m] = data[lo + m - 1]
    BY <2>1, <2>2 DEF sub
  <2> QED
    BY <1>2, <2>3
<1>5. bs \in Seq(0 .. 255) /\ Len(bs) = w
  BY <1>1, <1>2, FunctionIsSeq
<1> HIDE DEF sub
<1>6. \A m \in 1 .. w : sub[m] = bs[m]
  BY <1>2, <1>4 DEF bs
<1>7. sub = bs
  BY <1>4, <1>5, <1>6, SeqEqual
<1> QED
  BY <1>1, <1>7 DEF sub, lo, hi

\* These bytes are in the data, after a header.
Behind(head, data, ws, fields) ==
    \A j \in 1 .. Len(Body(ws, fields)) : data[head + j] = Body(ws, fields)[j]

\* The numbers are read from wherever these bytes are.
LEMMA PopIs ==
    ASSUME NEW ws, NEW fields, Fitting(ws, fields), NEW head \in Nat, NEW data,
           Behind(head, data, ws, fields)
    PROVE  Pop(data, head, Offsets(ws)) = fields
<1> DEFINE at == Offsets(ws)
           n  == Len(ws)
           body == Body(ws, fields)
           got == Pop(data, head, at)
<1>1. /\ ws \in Seq(Widths) /\ fields \in Seq(Int) /\ Len(fields) = n
      /\ ws \in Seq(Nat) /\ ws \in Seq(Nat \ {0})
      /\ \A i \in 1 .. n : ws[i] \in {1, 2, 4} /\ fields[i] \in Fits(ws[i]) /\ fields[i] \in Int
  BY WidthsAre, ElementOfSeq DEF Fitting
<1>2. /\ at[n + 1] \in Nat /\ Len(body) = at[n + 1]
      /\ \A i \in 1 .. n : \A m \in 1 .. ws[i] :
           at[i] + m \in 1 .. at[n + 1] /\ body[at[i] + m] = Bytes(fields[i], ws[i])[m]
  BY BodyIs
<1>3. Spaced(at, ws)
  BY <1>1, OffsetsAre
<1> HIDE DEF at, body
<1>4. /\ n \in Nat /\ Len(at) - 1 = n
      /\ \A i \in 1 .. n : at[i] \in Nat /\ at[i + 1] = at[i] + ws[i]
  <2>1. Len(at) = n + 1
    BY <1>3 DEF Spaced
  <2>2. n \in Nat /\ \A i \in 1 .. n + 1 : at[i] \in Nat
    BY <1>1, <1>3, SpacedGrows
  <2>3. \A i \in 1 .. n : at[i + 1] = at[i] + ws[i] /\ i \in 1 .. n + 1
    BY <1>3, <2>2, SMT DEF Spaced
  <2> QED
    BY <2>1, <2>2, <2>3, SMT
<1>5. ASSUME NEW i \in 1 .. n
      PROVE  Value(SubSeq(data, head + at[i] + 1, head + at[i + 1])) = fields[i]
  <2> DEFINE h == head + at[i]
             w == ws[i]
  <2>1. w \in {1, 2, 4} /\ fields[i] \in Fits(w) /\ at[i] \in Nat /\ at[i + 1] = at[i] + w
    BY <1>1, <1>4
  <2>2. ASSUME NEW m \in 1 .. w
        PROVE  data[h + m] = Bytes(fields[i], w)[m]
    <3>1. at[i] + m \in 1 .. at[n + 1] /\ body[at[i] + m] = Bytes(fields[i], w)[m]
      BY <1>2
    <3>2. data[head + (at[i] + m)] = body[at[i] + m]
      BY <1>2, <3>1 DEF body, Behind
    <3>3. head + (at[i] + m) = h + m
      <4> HIDE DEF w
      <4> QED
        BY <2>1, SMT
    <3> QED
      BY <3>1, <3>2, <3>3
  <2>3. h \in Nat /\ h + 1 = head + at[i] + 1 /\ h + w = head + at[i + 1]
    <3> HIDE DEF w
    <3> QED
      BY <2>1, SMTT(30)
  <2> HIDE DEF h, w
  <2>4. \A m \in 1 .. w : data[h + m] = Bytes(fields[i], w)[m]
    BY <2>2
  <2>5. Value(SubSeq(data, h + 1, h + w)) = fields[i]
    <3> DEFINE v == fields[i]
    <3>1. w \in {1, 2, 4} /\ v \in Fits(w)
      BY <2>1
    <3>2. h \in Nat
      BY <2>3
    <3>3. \A m \in 1 .. w : data[h + m] = Bytes(v, w)[m]
      BY <2>4
    <3> HIDE DEF v
    <3>4. Value(SubSeq(data, h + 1, h + w)) = v
      BY <3>1, <3>2, <3>3, ReadIs
    <3> QED
      BY <3>4 DEF v
  <2> QED
    BY <2>3, <2>5
<1>6. got = [i \in 1 .. n |-> Value(SubSeq(data, head + at[i] + 1, head + at[i + 1]))]
  BY <1>4 DEF Pop
<1>7. got = [i \in 1 .. n |-> fields[i]]
  BY <1>5, <1>6
<1>8. fields = [i \in 1 .. n |-> fields[i]]
  BY <1>1, LenProperties
<1> QED
  BY <1>7, <1>8 DEF at

-------------------------------------------------------------------------------
(* Packets *)

\* What a packet is made of: its size and its kind, and the numbers of its payload.
FrontOf(kind, psize) == Body(<<2, 1>>, <<2 + 1 + psize, Code[kind]>>)

\* The payload is as long as it is said to be, and a packet as its size field can say.
Sized(kind) ==
    /\ kind \in DOMAIN Layout
    /\ Layout[kind] \in Seq(Widths)
    /\ PayloadSize[kind] = Offsets(Layout[kind])[Len(Layout[kind]) + 1]
    /\ PayloadSize[kind] \in Nat /\ PayloadSize[kind] + 7 <= MaxShort
    /\ Code[kind] \in 0 .. 127

PushedTo(b, ws, fields) ==
    [data |-> b.data \o Body(ws, fields), size |-> b.size,
     lost |-> b.lost \/ Len(Places(ws)) > b.size - Len(b.data)]

LEMMA PushIs ==
    ASSUME NEW b, NEW ws, NEW fields
    PROVE  Push(b, Places(ws), ws, fields) = PushedTo(b, ws, fields)
BY DEF Push, Body, PushedTo

\* What fits.
LEMMA InFits ==
    ASSUME NEW n \in Int
    PROVE  /\ n >= -128 /\ n <= 127 => n \in Fits(1)
           /\ n >= - MaxShort - 1 /\ n <= MaxShort => n \in Fits(2)
           /\ n >= - MaxInt - 1 /\ n <= MaxInt => n \in Fits(4)
<1>1. n >= -128 /\ n <= 127 => n \in -128 .. 127
  BY SMT
<1>2. n >= - MaxShort - 1 /\ n <= MaxShort => n \in - MaxShort - 1 .. MaxShort
  BY MaxAre, SMT
<1>3. n >= - MaxInt - 1 /\ n <= MaxInt => n \in - MaxInt - 1 .. MaxInt
  BY MaxAre, SMT
<1> QED
  BY ZenonT(60), <1>1, <1>2, <1>3, FitsAre

\* Three bytes with the size and the kind of a packet with a payload of psize bytes.
Headed(head, kind, psize) ==
    /\ head \in Seq(0 .. 255) /\ Len(head) = 3
    /\ head[3] = Code[kind]
    /\ \A m \in 1 .. 2 : head[m] = Bytes(3 + psize, 2)[m]

LEMMA HeadIs ==
    ASSUME NEW kind, Code[kind] \in 0 .. 127, NEW psize \in Nat, psize + 7 <= MaxShort
    PROVE  Headed(FrontOf(kind, psize), kind, psize) /\ Len(HeaderPlaces) = 3
<1> DEFINE ws == <<2, 1>>
           size == 2 + 1 + psize
           code == Code[kind]
           fs == <<size, code>>
           at == Offsets(ws)
           off == <<0, 2, 3>>
<1>1. /\ size = 3 + psize /\ size \in Int /\ size >= - MaxShort - 1 /\ size <= MaxShort
      /\ code \in Int /\ code >= -128 /\ code <= 127 /\ code % 256 = code
  <2>1. psize \in Nat /\ psize + 7 <= MaxShort /\ Code[kind] \in 0 .. 127
    OBVIOUS
  <2>2. \A n \in 0 .. 127 : n \in Int /\ n >= -128 /\ n <= 127 /\ n % 256 = n
    BY SMT
  <2>3. \A n \in Nat : n + 7 <= MaxShort =>
          /\ 2 + 1 + n = 3 + n /\ 2 + 1 + n \in Int
          /\ 2 + 1 + n >= - MaxShort - 1 /\ 2 + 1 + n <= MaxShort
    BY MaxAre, SMT
  <2> QED
    BY <2>1, <2>2, <2>3
<1>2. size \in Fits(2) /\ code \in Fits(1)
  BY <1>1, InFits
<1> HIDE DEF size, code
<1>3. /\ ws \in Seq(Widths) /\ ws \in Seq(Nat) /\ Len(ws) = 2 /\ ws[1] = 2 /\ ws[2] = 1
      /\ fs \in Seq(Int) /\ Len(fs) = 2 /\ fs[1] = size /\ fs[2] = code
  <2>1. ws \in Seq(Widths) /\ ws \in Seq(Nat) /\ Len(ws) = 2 /\ ws[1] = 2 /\ ws[2] = 1
    BY DEF Widths
  <2>2. size \in Int /\ code \in Int
    BY <1>1
  <2>3. fs \in Seq(Int) /\ Len(fs) = 2 /\ fs[1] = size /\ fs[2] = code
    BY <2>2
  <2> QED
    BY <2>1, <2>3
<1>4. \A i \in 1 .. 2 : i = 1 \/ i = 2
  BY SMT
<1>5. Fitting(ws, fs)
  <2>1. \A i \in 1 .. 2 : fs[i] \in Fits(ws[i])
    BY <1>2, <1>3, <1>4
  <2> HIDE DEF ws, fs
  <2> QED
    BY <1>3, <2>1 DEF Fitting
<1>6. Spaced(at, ws)
  BY <1>3, OffsetsAre
<1>7. at[1] = 0 /\ at[2] = 2 /\ at[3] = 3
  <2>1. off[1] = 0 /\ off[2] = 2 /\ off[3] = 3
    OBVIOUS
  <2>2. \A i \in 1 .. Len(ws) : off[i + 1] = off[i] + ws[i]
    BY <1>3, <1>4, <2>1
  <2> HIDE DEF at, off, ws
  <2>3. \A i \in 1 .. Len(ws) + 1 : at[i] = off[i]
    <3>1. Steps(off, ws) /\ ws \in Seq(Nat)
      BY <1>3, <2>1, <2>2 DEF Steps
    <3> QED
      BY <1>6, <3>1, SpacedOnce
  <2>4. 1 \in 1 .. Len(ws) + 1 /\ 2 \in 1 .. Len(ws) + 1 /\ 3 \in 1 .. Len(ws) + 1
    BY <1>3
  <2> QED
    BY <2>1, <2>3, <2>4
<1>8. /\ at[3] \in Nat /\ Len(Places(ws)) = at[3]
      /\ Body(ws, fs) \in Seq(0 .. 255) /\ Len(Body(ws, fs)) = at[3]
      /\ \A i \in 1 .. 2 : \A m \in 1 .. ws[i] : Body(ws, fs)[at[i] + m] = Bytes(fs[i], ws[i])[m]
  <2> HIDE DEF at, ws, fs
  <2>1. Len(ws) + 1 = 3 /\ Len(ws) = 2
    BY <1>3
  <2>2. /\ at[Len(ws) + 1] \in Nat /\ Len(Places(ws)) = at[Len(ws) + 1]
        /\ Body(ws, fs) \in Seq(0 .. 255) /\ Len(Body(ws, fs)) = at[Len(ws) + 1]
        /\ \A i \in 1 .. Len(ws) : \A m \in 1 .. ws[i] :
             Body(ws, fs)[at[i] + m] = Bytes(fs[i], ws[i])[m]
    BY <1>5, BodyIs DEF at
  <2> QED
    BY <2>1, <2>2
<1> HIDE DEF at, ws, fs, off
<1>9. Body(ws, fs)[3] = code
  <2>1. 2 \in 1 .. 2 /\ 1 \in 1 .. ws[2] /\ at[2] + 1 = 3
    BY <1>3, <1>7
  <2>2. Body(ws, fs)[3] = Bytes(code, 1)[1]
    BY <1>3, <1>8, <2>1
  <2>3. Bytes(code, 1)[1] = code % 256
    <3>1. 1 \in 1 .. 1 /\ 1 - 1 + 1 = 1
      BY SMT
    <3> QED
      BY <3>1 DEF Bytes, Shifted
  <2> QED
    BY <1>1, <2>2, <2>3
<1>10. \A m \in 1 .. 2 : Body(ws, fs)[m] = Bytes(size, 2)[m]
  <2>1. 1 \in 1 .. 2 /\ \A m \in 1 .. 2 : m \in 1 .. ws[1] /\ at[1] + m = m
    BY <1>3, <1>7
  <2> QED
    BY <1>3, <1>8, <2>1
<1>11. FrontOf(kind, psize) = Body(ws, fs) /\ HeaderPlaces = Places(ws)
  BY DEF FrontOf, HeaderPlaces, ws, fs, size, code
<1>12. Len(Body(ws, fs)) = 3 /\ Len(Places(ws)) = 3
  BY <1>7, <1>8
<1>13. \A m \in 1 .. 2 : Body(ws, fs)[m] = Bytes(3 + psize, 2)[m]
  BY <1>1, <1>10
<1>14. Body(ws, fs)[3] = Code[kind]
  BY <1>9 DEF code
<1>15. Headed(Body(ws, fs), kind, psize)
  BY <1>8, <1>12, <1>13, <1>14 DEF Headed
<1> QED
  BY <1>11, <1>12, <1>15

LEMMA HeaderIs ==
    ASSUME NEW kind, Code[kind] \in 0 .. 127, NEW psize \in Nat, psize + 7 <= MaxShort
    PROVE  Header(kind, psize) = [data |-> FrontOf(kind, psize), size |-> 2 + 1 + psize, lost |-> FALSE]
<1> DEFINE size == 2 + 1 + psize
           head == FrontOf(kind, psize)
<1>1. size \in Nat /\ size >= 3
  BY SMT
<1>2. head \in Seq(0 .. 255) /\ Len(HeaderPlaces) = 3
  <2>1. Headed(head, kind, psize) /\ Len(HeaderPlaces) = 3
    BY HeadIs
  <2> HIDE DEF head
  <2> QED
    BY <2>1 DEF Headed
<1> HIDE DEF size, head
<1> DEFINE none == [data |-> <<>>, size |-> size, lost |-> FALSE]
<1>3. Header(kind, psize) = Push(none, Places(<<2, 1>>), <<2, 1>>, <<size, Code[kind]>>)
  BY DEF Header, Buffer, HeaderPlaces, size
<1>4. <<>> \in Seq(0 .. 255) /\ Len(<<>>) = 0
  BY EmptySeq
<1>5. Header(kind, psize) = [data |-> <<>> \o Body(<<2, 1>>, <<size, Code[kind]>>), size |-> size,
                             lost |-> FALSE \/ Len(Places(<<2, 1>>)) > size - Len(<<>>)]
  <2> DEFINE ws == <<2, 1>>
             fs == <<size, Code[kind]>>
  <2>1. none.data = <<>> /\ none.size = size /\ none.lost = FALSE
    OBVIOUS
  <2> HIDE DEF ws, fs, none
  <2>2. Push(none, Places(ws), ws, fs) = PushedTo(none, ws, fs)
    BY PushIs
  <2> QED
    BY <1>3, <2>1, <2>2, Zenon DEF PushedTo, ws, fs
<1>6. head = Body(<<2, 1>>, <<size, Code[kind]>>)
  BY DEF head, FrontOf, size
<1>7. <<>> \o head = head
  BY <1>2, ConcatEmptySeq
<1>8. ~ (Len(Places(<<2, 1>>)) > size - Len(<<>>))
  <2>1. Len(Places(<<2, 1>>)) = 3 /\ Len(<<>>) = 0
    BY <1>2, <1>4 DEF HeaderPlaces
  <2>2. ~ (3 > size - 0)
    BY <1>1, SMT
  <2> QED
    BY <2>1, <2>2
<1> QED
  BY <1>5, <1>6, <1>7, <1>8 DEF head, size

\* A packet of some kind with these numbers, as a program makes it.
Written(data, kind, fields) ==
    /\ data \in Seq(0 .. 255)
    /\ Len(data) = 3 + PayloadSize[kind]
    /\ Value(SubSeq(data, 1, 2)) = 3 + PayloadSize[kind]
    /\ data[3] = Code[kind]
    /\ \A j \in 1 .. PayloadSize[kind] : data[3 + j] = Body(Layout[kind], fields)[j]

\* The payload is as long as it is said to be.
PayloadIs(kind, fields) ==
    /\ Len(Body(Layout[kind], fields)) = PayloadSize[kind]
    /\ Len(LayoutPlaces[kind]) = PayloadSize[kind]
    /\ LayoutOffsets[kind] = Offsets(Layout[kind])
    /\ PayloadSize[kind] \in Nat /\ PayloadSize[kind] + 7 <= MaxShort

\* A packet is what its header says, and what is behind the header can be read.
LEMMA SerializeIs ==
    ASSUME NEW kind, Sized(kind), NEW fields, Fitting(Layout[kind], fields)
    PROVE  /\ Written(Serialize(kind, fields).data, kind, fields)
           /\ Serialize(kind, fields).size = 3 + PayloadSize[kind]
           /\ Serialize(kind, fields).lost = FALSE
           /\ PayloadIs(kind, fields)
<1> DEFINE ws == Layout[kind]
           psize == PayloadSize[kind]
           size == 2 + 1 + psize
           head == FrontOf(kind, psize)
           body == Body(ws, fields)
           b == Serialize(kind, fields)
<1>1. /\ psize \in Nat /\ psize + 7 <= MaxShort /\ kind \in DOMAIN Layout
      /\ size \in Nat /\ size = 3 + psize
  <2>1. psize \in Nat /\ psize + 7 <= MaxShort /\ kind \in DOMAIN Layout
    BY DEF Sized
  <2>2. \A n \in Nat : 2 + 1 + n \in Nat /\ 2 + 1 + n = 3 + n
    BY SMT
  <2> QED
    BY <2>1, <2>2
<1>2. /\ head \in Seq(0 .. 255) /\ Len(head) = 3 /\ head[3] = Code[kind]
      /\ \A m \in 1 .. 2 : head[m] = Bytes(3 + psize, 2)[m]
      /\ Header(kind, psize) = [data |-> head, size |-> size, lost |-> FALSE]
  <2>1. Code[kind] \in 0 .. 127
    BY DEF Sized
  <2>2. psize \in Nat /\ psize + 7 <= MaxShort
    BY <1>1
  <2> HIDE DEF psize
  <2>3. Headed(head, kind, psize)
    BY <2>1, <2>2, HeadIs
  <2>4. Header(kind, psize) = [data |-> head, size |-> 2 + 1 + psize, lost |-> FALSE]
    BY <2>1, <2>2, HeaderIs
  <2> HIDE DEF head
  <2> QED
    BY <2>3, <2>4 DEF Headed
<1>3. /\ Len(Places(ws)) = psize
      /\ body \in Seq(0 .. 255) /\ Len(body) = psize
  <2>1. psize = Offsets(ws)[Len(ws) + 1]
    BY DEF Sized
  <2> HIDE DEF psize, body, ws
  <2>2. /\ Len(Places(ws)) = Offsets(ws)[Len(ws) + 1]
        /\ body \in Seq(0 .. 255) /\ Len(body) = Offsets(ws)[Len(ws) + 1]
    BY BodyIs DEF body, ws
  <2> QED
    BY <2>1, <2>2
<1>4. LayoutPlaces[kind] = Places(ws) /\ LayoutOffsets[kind] = Offsets(ws)
  BY <1>1 DEF LayoutPlaces, LayoutOffsets
<1> HIDE DEF ws, psize, size, head, body
<1>6. b = [data |-> head \o body, size |-> size, lost |-> FALSE]
  <2>1. b = Push([data |-> head, size |-> size, lost |-> FALSE], Places(ws), ws, fields)
    BY <1>2, <1>4 DEF Serialize, ws, psize
  <2>2. b = [data |-> head \o body, size |-> size,
             lost |-> FALSE \/ Len(Places(ws)) > size - Len(head)]
    <3> DEFINE front == [data |-> head, size |-> size, lost |-> FALSE]
    <3>1. body = Body(ws, fields)
      BY DEF body, ws
    <3>2. front.data = head /\ front.size = size /\ front.lost = FALSE
      OBVIOUS
    <3>3. b = Push(front, Places(ws), ws, fields)
      BY <2>1
    <3> HIDE DEF ws, front
    <3>4. Push(front, Places(ws), ws, fields) = PushedTo(front, ws, fields)
      BY PushIs
    <3> QED
      BY <3>1, <3>2, <3>3, <3>4, Zenon DEF PushedTo
  <2>3. ~ (Len(Places(ws)) > size - Len(head))
    BY <1>1, <1>2, <1>3, SMT
  <2> QED
    BY <2>2, <2>3
<1> HIDE DEF b
<1> DEFINE data == b.data
<1>7. /\ data \in Seq(0 .. 255) /\ Len(data) = 3 + psize
      /\ \A i \in 1 .. 3 + psize : data[i] = IF i <= 3 THEN head[i] ELSE body[i - 3]
  <2>1. data = head \o body
    BY <1>6
  <2> HIDE DEF data
  <2>2. Glued(data, head, body)
    BY <1>2, <1>3, <2>1, GlueIs
  <2> QED
    BY <1>2, <1>3, <2>2 DEF Glued
<1> HIDE DEF data
<1>8. \A i \in 1 .. 3 : data[i] = head[i]
  <2>1. \A i \in 1 .. 3 : i \in 1 .. 3 + psize /\ i <= 3
    BY <1>1, SMT
  <2> QED
    BY <1>7, <2>1
<1>9. \A j \in 1 .. psize : data[3 + j] = body[j]
  <2>1. \A j \in 1 .. psize : 3 + j \in 1 .. 3 + psize /\ ~ (3 + j <= 3) /\ 3 + j - 3 = j
    BY <1>1, SMT
  <2> QED
    BY <1>7, <2>1
<1>10. Value(SubSeq(data, 1, 2)) = 3 + psize
  <2> DEFINE k == 3 + psize
             w == 2
             h == 0
  <2>1. k \in Fits(w) /\ w \in {1, 2, 4} /\ h \in Nat
    <3>1. 3 + psize \in Int /\ 3 + psize >= - MaxShort - 1 /\ 3 + psize <= MaxShort
      BY <1>1, MaxAre, SMT
    <3> QED
      BY <3>1, InFits
  <2>2. \A m \in 1 .. w : data[h + m] = Bytes(k, w)[m]
    <3>1. \A m \in 1 .. 2 : m \in 1 .. 3 /\ 0 + m = m
      BY SMT
    <3> QED
      BY <1>2, <1>8, <3>1
  <2>3. h + 1 = 1 /\ h + w = 2
    OBVIOUS
  <2> HIDE DEF k, w, h
  <2>4. Value(SubSeq(data, h + 1, h + w)) = k
    BY <2>1, <2>2, ReadIs
  <2> QED
    BY <2>3, <2>4 DEF k
<1>11. b.size = 3 + psize /\ b.lost = FALSE
  BY <1>1, <1>6
<1>12. data[3] = Code[kind]
  <2>1. 3 \in 1 .. 3
    OBVIOUS
  <2> QED
    BY <1>2, <1>8, <2>1
<1>13. Written(data, kind, fields)
  BY <1>7, <1>9, <1>10, <1>12 DEF Written, psize, body, ws
<1>14. PayloadIs(kind, fields)
  BY <1>1, <1>3, <1>4 DEF PayloadIs, psize, body, ws
<1> QED
  BY <1>11, <1>13, <1>14 DEF b, data, psize

\* A packet of the size that it announces is cut off the stream as it is.
LEMMA CutIs ==
    ASSUME NEW data \in Seq(0 .. 255), Value(SubSeq(data, 1, 2)) = Len(data)
    PROVE  Cut(data) = data
BY SubSeqFull DEF Cut

\* The payload of a packet is read, with or without a sender's id before it.
Fetched(head, data, kind, sender, fields) ==
    /\ head \in Nat /\ head = IF sender THEN 2 + 4 + 1 ELSE 2 + 1
    /\ Len(data) = head + PayloadSize[kind] /\ data[head] = Code[kind]
    /\ Behind(head, data, Layout[kind], fields)

LEMMA DeserializeIs ==
    ASSUME NEW kind, Sized(kind), NEW fields, Fitting(Layout[kind], fields),
           NEW sender, NEW head, NEW data, Fetched(head, data, kind, sender, fields)
    PROVE  Deserialize(data, kind, sender) = fields
<1>0. /\ head \in Nat /\ head = IF sender THEN 2 + 4 + 1 ELSE 2 + 1
      /\ Len(data) = head + PayloadSize[kind] /\ data[head] = Code[kind]
      /\ Behind(head, data, Layout[kind], fields)
  BY DEF Fetched
<1> DEFINE ws == Layout[kind]
           p == PayloadSize[kind]
           q == Len(LayoutPlaces[kind])
           l == Len(data)
           h == IF sender THEN 2 + 4 + 1 ELSE 2 + 1
<1>1. p \in Nat /\ q = p /\ LayoutOffsets[kind] = Offsets(ws)
  <2>1. PayloadIs(kind, fields)
    BY SerializeIs
  <2> QED
    BY <2>1 DEF PayloadIs
<1>2. ~ (l < head + q)
  <2>1. l = head + p
    BY <1>0
  <2> HIDE DEF p, q, l
  <2> QED
    BY <1>0, <1>1, <2>1, SMT
<1>3. Pop(data, head, Offsets(ws)) = fields
  <2>1. Fitting(ws, fields) /\ Behind(head, data, ws, fields) /\ head \in Nat
    BY <1>0
  <2> HIDE DEF ws
  <2> QED
    BY <2>1, PopIs
<1>4. Deserialize(data, kind, sender) =
        IF l < h + q \/ data[h] # Code[kind]
        THEN <<-1>> ELSE Pop(data, h, LayoutOffsets[kind])
  BY DEF Deserialize
<1>5. h = head
  BY <1>0
<1> HIDE DEF h, q, l, ws
<1> QED
  BY <1>0, <1>1, <1>2, <1>3, <1>4, <1>5, Zenon

\* What has been written is read.
LEMMA Delivered ==
    ASSUME NEW kind, Sized(kind), NEW fields, Fitting(Layout[kind], fields)
    PROVE  /\ Cut(Serialize(kind, fields).data) = Serialize(kind, fields).data
           /\ Deserialize(Serialize(kind, fields).data, kind, FALSE) = fields
<1> DEFINE data == Serialize(kind, fields).data
<1>1. Written(data, kind, fields) /\ PayloadIs(kind, fields)
  BY SerializeIs
<1> HIDE DEF data
<1>2. Cut(data) = data
  <2>1. data \in Seq(0 .. 255) /\ Value(SubSeq(data, 1, 2)) = Len(data)
    BY <1>1 DEF Written
  <2> QED
    BY <2>1, CutIs
<1>3. Deserialize(data, kind, FALSE) = fields
  <2> DEFINE sender == FALSE
             head == 3
  <2>1. head \in Nat /\ head = IF sender THEN 2 + 4 + 1 ELSE 2 + 1
    OBVIOUS
  <2>2. Len(data) = head + PayloadSize[kind] /\ data[head] = Code[kind]
    BY <1>1 DEF Written
  <2>3. Behind(head, data, Layout[kind], fields)
    BY <1>1, Zenon DEF Written, PayloadIs, Behind
  <2> HIDE DEF sender, head
  <2>4. Fetched(head, data, kind, sender, fields)
    BY <2>1, <2>2, <2>3 DEF Fetched
  <2>5. Deserialize(data, kind, sender) = fields
    BY <2>4, DeserializeIs
  <2> QED
    BY <2>5 DEF sender
<1> QED
  BY <1>2, <1>3 DEF data

\* The copy of a packet with the id of its sender.
Relayed(data, kind, fields, id) ==
    /\ Value(SubSeq(data, 1, 2)) = Len(data) /\ Cut(data) = data
    /\ Sender(data) = id
    /\ Deserialize(data, kind, TRUE) = fields

\* The copy that the broadcast server makes is a packet, with the id of its sender.
LEMMA RelayIs ==
    ASSUME NEW kind, Sized(kind), NEW fields, Fitting(Layout[kind], fields), NEW id \in Fits(4)
    PROVE  Relayed(Relay(Serialize(kind, fields).data, id), kind, fields, id)
<1> DEFINE data == Serialize(kind, fields).data
           psize == PayloadSize[kind]
           body == Body(Layout[kind], fields)
           n == 3 + psize
           front == Bytes(n + 4, 2)
           mark == Bytes(id, 4)
           rest == SubSeq(data, 3, n)
           r == Relay(data, id)
<1>1. /\ data \in Seq(0 .. 255)
      /\ Len(data) = 3 + psize
      /\ Value(SubSeq(data, 1, 2)) = 3 + psize
      /\ data[3] = Code[kind]
      /\ \A j \in 1 .. psize : data[3 + j] = body[j]
      /\ psize \in Nat /\ psize + 7 <= MaxShort /\ Len(body) = psize
  <2>1. Written(data, kind, fields) /\ PayloadIs(kind, fields)
    BY SerializeIs
  <2> HIDE DEF data
  <2> QED
    BY <2>1 DEF Written, PayloadIs
<1> HIDE DEF data, psize, body
<1>2. n + 4 \in Fits(2)
  <2>1. n + 4 \in Int /\ n + 4 >= - MaxShort - 1 /\ n + 4 <= MaxShort
    BY <1>1, MaxAre, SMT
  <2> QED
    BY <2>1, InFits
<1>3. r = front \o mark \o rest
  BY <1>1 DEF Relay
<1>4. /\ front \in Seq(0 .. 255) /\ Len(front) = 2
      /\ mark \in Seq(0 .. 255) /\ Len(mark) = 4
  <2>1. front \in [1 .. 2 -> 0 .. 255] /\ mark \in [1 .. 4 -> 0 .. 255]
    <3>1. 2 \in {1, 2, 4} /\ 4 \in {1, 2, 4}
      OBVIOUS
    <3> DEFINE k == n + 4
               w == 2
               v == 4
    <3>2. k \in Fits(w) /\ id \in Fits(v) /\ w \in {1, 2, 4} /\ v \in {1, 2, 4}
      BY <1>2, <3>1
    <3> HIDE DEF k, w, v
    <3>3. Reads(k, w)
      BY <3>2, RoundTrip
    <3>4. Reads(id, v)
      BY <3>2, RoundTrip
    <3>5. front \in [1 .. 2 -> 0 .. 255]
      BY <3>3, Zenon DEF Reads, k, w
    <3>6. mark \in [1 .. 4 -> 0 .. 255]
      BY <3>4, Zenon DEF Reads, v
    <3> QED
      BY <3>5, <3>6
  <2> HIDE DEF front, mark
  <2>2. 2 \in Nat /\ 4 \in Nat
    OBVIOUS
  <2>3. front \in Seq(0 .. 255) /\ Len(front) = 2
    BY ZenonT(60), <2>1, <2>2, FunctionIsSeq
  <2>4. mark \in Seq(0 .. 255) /\ Len(mark) = 4
    BY ZenonT(60), <2>1, <2>2, FunctionIsSeq
  <2> QED
    BY <2>3, <2>4
<1>5. /\ rest \in Seq(0 .. 255) /\ Len(rest) = psize + 1
      /\ \A i \in 1 .. psize + 1 : rest[i] = data[i + 2]
  <2>1. n \in Int /\ 3 \in Int /\ 3 <= n /\ n - 3 + 1 = psize + 1
    BY <1>1, SMT
  <2>2. \A i \in 3 .. n : data[i] \in 0 .. 255
    <3>1. \A i \in 3 .. n : i \in 1 .. 3 + psize
      BY <1>1, SMT
    <3> QED
      BY ZenonT(60), <1>1, <3>1, ElementOfSeq
  <2> HIDE DEF n
  <2>3. /\ rest \in Seq(0 .. 255) /\ Len(rest) = n - 3 + 1
        /\ \A i \in 1 .. n - 3 + 1 : rest[i] = data[3 + i - 1]
    BY <2>1, <2>2, SubSeqProperties
  <2>4. \A i \in 1 .. psize + 1 : 3 + i - 1 = i + 2
    BY SMT
  <2> QED
    BY <2>1, <2>3, <2>4
<1> HIDE DEF front, mark, rest, r
<1>6. /\ r \in Seq(0 .. 255) /\ Len(r) = psize + 7
      /\ \A i \in 1 .. psize + 7 : r[i] = IF i <= 2 THEN front[i]
                                          ELSE IF i <= 6 THEN mark[i - 2] ELSE rest[i - 6]
  <2> DEFINE a == front \o mark
  <2>1. /\ a \in Seq(0 .. 255) /\ Len(a) = 6
        /\ \A i \in 1 .. 6 : a[i] = IF i <= 2 THEN front[i] ELSE mark[i - 2]
    <3>1. Glued(a, front, mark)
      BY <1>4, GlueIs
    <3>2. 2 + 4 = 6
      OBVIOUS
    <3> HIDE DEF a
    <3> QED
      BY <1>4, <3>1, <3>2 DEF Glued
  <2>2. r = a \o rest
    BY <1>3
  <2> HIDE DEF a
  <2>3. /\ r \in Seq(0 .. 255) /\ Len(r) = 6 + (psize + 1)
        /\ \A i \in 1 .. 6 + (psize + 1) : r[i] = IF i <= 6 THEN a[i] ELSE rest[i - 6]
    <3>1. Glued(r, a, rest)
      BY <1>5, <2>1, <2>2, GlueIs
    <3> QED
      BY <1>5, <2>1, <3>1 DEF Glued
  <2>4. 6 + (psize + 1) = psize + 7 /\ \A i \in 1 .. psize + 7 : i <= 6 => i \in 1 .. 6
    BY <1>1, SMT
  <2>5. \A i \in 1 .. psize + 7 : i <= 2 => i <= 6
    BY SMT
  <2> QED
    BY SMTT(30), <2>1, <2>3, <2>4, <2>5
<1>7. Value(SubSeq(r, 1, 2)) = Len(r)
  <2> DEFINE k == n + 4
             w == 2
             h == 0
  <2>1. k \in Fits(w) /\ w \in {1, 2, 4} /\ h \in Nat
    BY <1>2
  <2>2. \A m \in 1 .. w : r[h + m] = Bytes(k, w)[m]
    <3>1. \A m \in 1 .. 2 : m \in 1 .. psize + 7 /\ m <= 2 /\ 0 + m = m
      BY <1>1, SMT
    <3> QED
      BY <1>6, <3>1 DEF front
  <2>3. h + 1 = 1 /\ h + w = 2 /\ k = Len(r)
    BY <1>1, <1>6, SMT
  <2> HIDE DEF k, w, h, n
  <2>4. Value(SubSeq(r, h + 1, h + w)) = k
    BY <2>1, <2>2, ReadIs
  <2> QED
    BY <2>3, <2>4
<1>8. Sender(r) = id
  <2> DEFINE w == 4
             h == 2
  <2>1. id \in Fits(w) /\ w \in {1, 2, 4} /\ h \in Nat
    OBVIOUS
  <2>2. \A m \in 1 .. w : r[h + m] = Bytes(id, w)[m]
    <3>1. \A m \in 1 .. 4 : 2 + m \in 1 .. psize + 7 /\ ~ (2 + m <= 2) /\ 2 + m <= 6 /\ 2 + m - 2 = m
      BY <1>1, SMT
    <3> QED
      BY <1>6, <3>1 DEF mark
  <2>3. h + 1 = 3 /\ h + w = 6
    OBVIOUS
  <2> HIDE DEF h, w
  <2>4. Value(SubSeq(r, h + 1, h + w)) = id
    BY <2>1, <2>2, ReadIs
  <2> QED
    BY <2>3, <2>4 DEF Sender
<1>9. Deserialize(r, kind, TRUE) = fields
  <2> DEFINE sender == TRUE
             head == 7
  <2>1. head \in Nat /\ head = IF sender THEN 2 + 4 + 1 ELSE 2 + 1
    OBVIOUS
  <2>2. r[7] = data[3]
    <3>1. 7 \in 1 .. psize + 7 /\ ~ (7 <= 2) /\ ~ (7 <= 6) /\ 7 - 6 = 1 /\ 1 \in 1 .. psize + 1 /\ 1 + 2 = 3
      BY <1>1, SMT
    <3> QED
      BY <1>5, <1>6, <3>1
  <2>3. \A j \in 1 .. psize : r[7 + j] = data[3 + j]
    <3>1. \A j \in 1 .. psize :
            /\ 7 + j \in 1 .. psize + 7 /\ ~ (7 + j <= 2) /\ ~ (7 + j <= 6) /\ 7 + j - 6 = j + 1
            /\ j + 1 \in 1 .. psize + 1 /\ j + 1 + 2 = 3 + j
      BY <1>1, SMT
    <3> QED
      BY <1>5, <1>6, <3>1
  <2>4. Len(r) = head + PayloadSize[kind] /\ r[head] = Code[kind]
    <3>1. Len(r) = 7 + psize
      BY <1>1, <1>6, SMT
    <3> QED
      BY <1>1, <2>2, <3>1 DEF psize
  <2>5. Behind(head, r, Layout[kind], fields)
    <3>1. \A j \in 1 .. Len(body) : r[7 + j] = body[j]
      BY <1>1, <2>3
    <3> QED
      BY <3>1 DEF Behind, body
  <2> HIDE DEF sender, head
  <2>6. Fetched(head, r, kind, sender, fields)
    BY <2>1, <2>4, <2>5 DEF Fetched
  <2>7. Deserialize(r, kind, sender) = fields
    BY <2>6, DeserializeIs
  <2> QED
    BY <2>7 DEF sender
<1>10. Cut(r) = r
  BY <1>6, <1>7, CutIs
<1> QED
  BY <1>7, <1>8, <1>9, <1>10 DEF Relayed, r, data

LEMMA FilledIs ==
    ASSUME NEW kind, Sized(kind), NEW fields, Fitting(Layout[kind], fields), Player \subseteq Fits(4)
    PROVE  /\ Filled(kind, fields)
           /\ Deserialize(Cut(Serialize(kind, fields).data), kind, FALSE) = fields
<1> DEFINE b == Serialize(kind, fields)
<1>1. /\ Written(b.data, kind, fields) /\ PayloadIs(kind, fields)
      /\ b.size = 3 + PayloadSize[kind] /\ b.lost = FALSE
  BY SerializeIs
<1>2. Cut(b.data) = b.data /\ Deserialize(b.data, kind, FALSE) = fields
  BY Delivered
<1>3. \A id \in Player : Relayed(Relay(b.data, id), kind, fields, id)
  BY RelayIs
<1> HIDE DEF b
<1>4. Exact(b)
  BY <1>1 DEF Exact, Written
<1>5. Filled(kind, fields)
  BY <1>2, <1>3, <1>4 DEF Filled, Relayed, b
<1> QED
  BY <1>2, <1>5 DEF b

-------------------------------------------------------------------------------
(* The packets of the programs *)

\* Where the last number ends.
LEMMA EndsAre ==
    ASSUME NEW ws \in Seq(Nat), NEW f, f[1] = 0, \A i \in 1 .. Len(ws) : f[i + 1] = f[i] + ws[i]
    PROVE  Offsets(ws)[Len(ws) + 1] = f[Len(ws) + 1]
<1>1. Spaced(Offsets(ws), ws) /\ Steps(f, ws)
  BY OffsetsAre DEF Steps
<1>2. \A i \in 1 .. Len(ws) + 1 : Offsets(ws)[i] = f[i]
  BY <1>1, SpacedOnce
<1>3. Len(ws) + 1 \in 1 .. Len(ws) + 1
  BY LenProperties, SMT
<1> QED
  BY <1>2, <1>3

LEMMA Test1Sized == Sized("test1") /\ Layout["test1"] = <<4, 1>>
<1> DEFINE ws == <<4, 1>>
           off == <<0, 4, 5>>
<1>1. /\ Layout["test1"] = ws /\ PayloadSize["test1"] = 5
      /\ Code["test1"] = 97 /\ "test1" \in DOMAIN Layout
  BY DEF Layout, PayloadSize, Code
<1>2. ws \in Seq(Widths) /\ ws \in Seq(Nat) /\ Len(ws) = 2 /\ ws[1] = 4 /\ ws[2] = 1
  BY EmptySeq DEF Widths
<1>3. off[1] = 0 /\ off[2] = 4 /\ off[3] = 5
  OBVIOUS
<1>4. \A i \in 1 .. Len(ws) : off[i + 1] = off[i] + ws[i]
  <2>1. \A i \in 1 .. 2 : i = 1 \/ i = 2
    BY SMT
  <2> QED
    BY <1>2, <1>3, <2>1
<1> HIDE DEF ws, off
<1>5. Offsets(ws)[Len(ws) + 1] = off[Len(ws) + 1]
  BY <1>2, <1>3, <1>4, EndsAre
<1>6. Offsets(ws)[Len(ws) + 1] = 5
  BY <1>2, <1>3, <1>5
<1>7. 5 \in Nat /\ 5 + 7 <= MaxShort /\ 97 \in 0 .. 127
  BY MaxAre, SMT
<1> QED
  BY <1>1, <1>2, <1>6, <1>7 DEF Sized, ws

LEMMA Test2Sized == Sized("test2") /\ Layout["test2"] = <<4, 2>>
<1> DEFINE ws == <<4, 2>>
           off == <<0, 4, 6>>
<1>1. /\ Layout["test2"] = ws /\ PayloadSize["test2"] = 6
      /\ Code["test2"] = 50 /\ "test2" \in DOMAIN Layout
  BY DEF Layout, PayloadSize, Code
<1>2. ws \in Seq(Widths) /\ ws \in Seq(Nat) /\ Len(ws) = 2 /\ ws[1] = 4 /\ ws[2] = 2
  BY EmptySeq DEF Widths
<1>3. off[1] = 0 /\ off[2] = 4 /\ off[3] = 6
  OBVIOUS
<1>4. \A i \in 1 .. Len(ws) : off[i + 1] = off[i] + ws[i]
  <2>1. \A i \in 1 .. 2 : i = 1 \/ i = 2
    BY SMT
  <2> QED
    BY <1>2, <1>3, <2>1
<1> HIDE DEF ws, off
<1>5. Offsets(ws)[Len(ws) + 1] = off[Len(ws) + 1]
  BY <1>2, <1>3, <1>4, EndsAre
<1>6. Offsets(ws)[Len(ws) + 1] = 6
  BY <1>2, <1>3, <1>5
<1>7. 6 \in Nat /\ 6 + 7 <= MaxShort /\ 50 \in 0 .. 127
  BY MaxAre, SMT
<1> QED
  BY <1>1, <1>2, <1>6, <1>7 DEF Sized, ws

LEMMA HandshakeSized == Sized("handshake") /\ Layout["handshake"] = <<4>>
<1> DEFINE ws == <<4>>
           off == <<0, 4>>
<1>1. /\ Layout["handshake"] = ws /\ PayloadSize["handshake"] = 4
      /\ Code["handshake"] = 104 /\ "handshake" \in DOMAIN Layout
  BY DEF Layout, PayloadSize, Code
<1>2. ws \in Seq(Widths) /\ ws \in Seq(Nat) /\ Len(ws) = 1 /\ ws[1] = 4
  BY EmptySeq DEF Widths
<1>3. off[1] = 0 /\ off[2] = 4
  OBVIOUS
<1>4. \A i \in 1 .. Len(ws) : off[i + 1] = off[i] + ws[i]
  <2>1. \A i \in 1 .. 1 : i = 1
    BY SMT
  <2> QED
    BY <1>2, <1>3, <2>1
<1> HIDE DEF ws, off
<1>5. Offsets(ws)[Len(ws) + 1] = off[Len(ws) + 1]
  BY <1>2, <1>3, <1>4, EndsAre
<1>6. Offsets(ws)[Len(ws) + 1] = 4
  BY <1>2, <1>3, <1>5
<1>7. 4 \in Nat /\ 4 + 7 <= MaxShort /\ 104 \in 0 .. 127
  BY MaxAre, SMT
<1> QED
  BY <1>1, <1>2, <1>6, <1>7 DEF Sized, ws

LEMMA DisconnectedSized == Sized("disconnected") /\ Layout["disconnected"] = <<>>
<1> DEFINE ws == <<>>
           off == <<0>>
<1>1. /\ Layout["disconnected"] = ws /\ PayloadSize["disconnected"] = 0
      /\ Code["disconnected"] = 100 /\ "disconnected" \in DOMAIN Layout
  BY DEF Layout, PayloadSize, Code
<1>2. ws \in Seq(Widths) /\ ws \in Seq(Nat) /\ Len(ws) = 0
  BY EmptySeq DEF Widths
<1>3. off[1] = 0
  OBVIOUS
<1>4. \A i \in 1 .. Len(ws) : off[i + 1] = off[i] + ws[i]
  BY <1>2, SMT
<1> HIDE DEF ws, off
<1>5. Offsets(ws)[Len(ws) + 1] = off[Len(ws) + 1]
  BY <1>2, <1>3, <1>4, EndsAre
<1>6. Offsets(ws)[Len(ws) + 1] = 0
  BY <1>2, <1>3, <1>5
<1>7. 0 \in Nat /\ 0 + 7 <= MaxShort /\ 100 \in 0 .. 127
  BY MaxAre, SMT
<1> QED
  BY <1>1, <1>2, <1>6, <1>7 DEF Sized, ws

LEMMA ConnectedSized == Sized("connected") /\ Layout["connected"] = <<>>
<1> DEFINE ws == <<>>
           off == <<0>>
<1>1. /\ Layout["connected"] = ws /\ PayloadSize["connected"] = 0
      /\ Code["connected"] = 99 /\ "connected" \in DOMAIN Layout
  BY DEF Layout, PayloadSize, Code
<1>2. ws \in Seq(Widths) /\ ws \in Seq(Nat) /\ Len(ws) = 0
  BY EmptySeq DEF Widths
<1>3. off[1] = 0
  OBVIOUS
<1>4. \A i \in 1 .. Len(ws) : off[i + 1] = off[i] + ws[i]
  BY <1>2, SMT
<1> HIDE DEF ws, off
<1>5. Offsets(ws)[Len(ws) + 1] = off[Len(ws) + 1]
  BY <1>2, <1>3, <1>4, EndsAre
<1>6. Offsets(ws)[Len(ws) + 1] = 0
  BY <1>2, <1>3, <1>5
<1>7. 0 \in Nat /\ 0 + 7 <= MaxShort /\ 99 \in 0 .. 127
  BY MaxAre, SMT
<1> QED
  BY <1>1, <1>2, <1>6, <1>7 DEF Sized, ws

LEMMA EventSized == Sized("event") /\ Layout["event"] = <<4, 4, 4, 1, 1>>
<1> DEFINE ws == <<4, 4, 4, 1, 1>>
           off == <<0, 4, 8, 12, 13, 14>>
<1>1. /\ Layout["event"] = ws /\ PayloadSize["event"] = 14
      /\ Code["event"] = 101 /\ "event" \in DOMAIN Layout
  BY DEF Layout, PayloadSize, Code
<1>2. ws \in Seq(Widths) /\ ws \in Seq(Nat) /\ Len(ws) = 5 /\ ws[1] = 4 /\ ws[2] = 4 /\ ws[3] = 4 /\ ws[4] = 1 /\ ws[5] = 1
  BY EmptySeq DEF Widths
<1>3. off[1] = 0 /\ off[2] = 4 /\ off[3] = 8 /\ off[4] = 12 /\ off[5] = 13 /\ off[6] = 14
  OBVIOUS
<1>4. \A i \in 1 .. Len(ws) : off[i + 1] = off[i] + ws[i]
  <2>1. \A i \in 1 .. 5 : i = 1 \/ i = 2 \/ i = 3 \/ i = 4 \/ i = 5
    BY SMT
  <2> QED
    BY <1>2, <1>3, <2>1
<1> HIDE DEF ws, off
<1>5. Offsets(ws)[Len(ws) + 1] = off[Len(ws) + 1]
  BY <1>2, <1>3, <1>4, EndsAre
<1>6. Offsets(ws)[Len(ws) + 1] = 14
  BY <1>2, <1>3, <1>5
<1>7. 14 \in Nat /\ 14 + 7 <= MaxShort /\ 101 \in 0 .. 127
  BY MaxAre, SMT
<1> QED
  BY <1>1, <1>2, <1>6, <1>7 DEF Sized, ws

\* A sequence made of two elements, two sequences and an element.
Parted(s, S, x, y, p, q, z) ==
    /\ s \in Seq(S) /\ Len(s) = Len(p) + Len(q) + 3
    /\ s[1] = x /\ s[2] = y
    /\ \A i \in 1 .. Len(p) : s[2 + i] = p[i]
    /\ \A i \in 1 .. Len(q) : s[2 + Len(p) + i] = q[i]
    /\ s[Len(s)] = z

LEMMA PartsAre ==
    ASSUME NEW S, NEW x \in S, NEW y \in S, NEW z \in S, NEW p \in Seq(S), NEW q \in Seq(S)
    PROVE  Parted(<<x, y>> \o p \o q \o <<z>>, S, x, y, p, q, z)
<1> DEFINE a == <<x, y>>
           e == <<z>>
           u == a \o p
           v == u \o q
           s == v \o e
           m == Len(p)
           n == Len(q)
<1>1. /\ a \in Seq(S) /\ Len(a) = 2 /\ a[1] = x /\ a[2] = y
      /\ e \in Seq(S) /\ Len(e) = 1 /\ e[1] = z
  OBVIOUS
<1>2. m \in Nat /\ n \in Nat
  BY LenProperties
<1> HIDE DEF a, e, m, n
<1>3. /\ u \in Seq(S) /\ Len(u) = 2 + m
      /\ \A i \in 1 .. 2 + m : u[i] = IF i <= 2 THEN a[i] ELSE p[i - 2]
  <2>1. /\ u \in Seq(S) /\ Len(u) = Len(a) + Len(p)
        /\ \A i \in 1 .. Len(a) + Len(p) : u[i] = IF i <= Len(a) THEN a[i] ELSE p[i - Len(a)]
    BY <1>1, ConcatProperties
  <2> HIDE DEF u
  <2> QED
    BY <1>1, <2>1 DEF m
<1> HIDE DEF u
<1>4. /\ v \in Seq(S) /\ Len(v) = 2 + m + n
      /\ \A i \in 1 .. 2 + m + n : v[i] = IF i <= 2 + m THEN u[i] ELSE q[i - (2 + m)]
  <2>1. /\ v \in Seq(S) /\ Len(v) = Len(u) + Len(q)
        /\ \A i \in 1 .. Len(u) + Len(q) : v[i] = IF i <= Len(u) THEN u[i] ELSE q[i - Len(u)]
    BY <1>3, ConcatProperties
  <2> HIDE DEF v
  <2> QED
    BY <1>3, <2>1 DEF n
<1> HIDE DEF v
<1>5. /\ s \in Seq(S) /\ Len(s) = 2 + m + n + 1
      /\ \A i \in 1 .. 2 + m + n + 1 : s[i] = IF i <= 2 + m + n THEN v[i] ELSE e[i - (2 + m + n)]
  <2>1. /\ s \in Seq(S) /\ Len(s) = Len(v) + Len(e)
        /\ \A i \in 1 .. Len(v) + Len(e) : s[i] = IF i <= Len(v) THEN v[i] ELSE e[i - Len(v)]
    BY <1>1, <1>4, ConcatProperties
  <2> HIDE DEF s
  <2> QED
    BY <1>1, <1>4, <2>1
<1> HIDE DEF s
<1>6. \A i \in 1 .. 2 + m + n : s[i] = v[i]
  <2>1. \A i \in 1 .. 2 + m + n : i \in 1 .. 2 + m + n + 1 /\ i <= 2 + m + n
    BY <1>2, SMT
  <2> QED
    BY <1>5, <2>1
<1>7. \A i \in 1 .. 2 + m : s[i] = u[i]
  <2>1. \A i \in 1 .. 2 + m : i \in 1 .. 2 + m + n /\ i <= 2 + m
    BY <1>2, SMT
  <2> QED
    BY <1>4, <1>6, <2>1
<1>8. s[1] = x /\ s[2] = y
  <2>1. 1 \in 1 .. 2 + m /\ 2 \in 1 .. 2 + m
    BY <1>2, SMT
  <2> QED
    BY <1>1, <1>3, <1>7, <2>1
<1>9. \A i \in 1 .. m : s[2 + i] = p[i]
  <2>1. \A i \in 1 .. m : 2 + i \in 1 .. 2 + m /\ ~ (2 + i <= 2) /\ 2 + i - 2 = i
    BY <1>2, SMT
  <2> QED
    BY <1>3, <1>7, <2>1
<1>10. \A i \in 1 .. n : s[2 + m + i] = q[i]
  <2> TAKE i \in 1 .. n
  <2> DEFINE j == 2 + m + i
  <2>2. j \in 1 .. 2 + m + n /\ ~ (j <= 2 + m) /\ j - (2 + m) = i
    BY <1>2, SMT
  <2> HIDE DEF j
  <2>3. s[j] = q[i]
    BY <1>4, <1>6, <2>2
  <2> QED
    BY <2>3 DEF j
<1>11. s[Len(s)] = z
  <2> DEFINE l == 2 + m + n + 1
  <2>1. l \in 1 .. l /\ ~ (l <= 2 + m + n) /\ l - (2 + m + n) = 1
    BY <1>2, SMT
  <2> QED
    BY <1>1, <1>5, <2>1
<1>12. Len(s) = m + n + 3
  BY <1>2, <1>5, SMT
<1>13. Parted(s, S, x, y, p, q, z)
  BY <1>5, <1>8, <1>9, <1>10, <1>11, <1>12 DEF Parted, m, n
<1> QED
  BY <1>13 DEF s, v, u, a, e

\* Every place of such a sequence is in one of its parts.
LEMMA PartsCover ==
    ASSUME NEW m \in Nat, NEW n \in Nat, NEW i \in 1 .. m + n + 3
    PROVE  \/ i = 1 \/ i = 2
           \/ \E j \in 1 .. m : i = 2 + j
           \/ \E j \in 1 .. n : i = 2 + m + j
           \/ i = m + n + 3
<1>1. i <= 2 => i = 1 \/ i = 2
  BY SMT
<1>2. ~ (i <= 2) /\ i <= 2 + m => i - 2 \in 1 .. m /\ i = 2 + (i - 2)
  BY SMT
<1>3. ~ (i <= 2 + m) /\ i <= 2 + m + n => i - (2 + m) \in 1 .. n /\ i = 2 + m + (i - (2 + m))
  BY SMT
<1>4. ~ (i <= 2 + m + n) => i = m + n + 3
  BY SMT
<1> QED
  BY <1>1, <1>2, <1>3, <1>4

\* The numbers of a ball.
LEMMA BallLayoutIs == BallLayout = <<4, 4, 4, 4, 4, 1, 1, 1, 1>>
<1> DEFINE a == <<4, 4, 4, 4, 4>>
           b == [r \in 1 .. 4 |-> 1]
           c == <<4, 4, 4, 4, 4, 1, 1, 1, 1>>
<1>1. a \in Seq(Int) /\ Len(a) = 5 /\ a[1] = 4 /\ a[2] = 4 /\ a[3] = 4 /\ a[4] = 4 /\ a[5] = 4
  OBVIOUS
<1>2. b \in Seq(Int) /\ Len(b) = 4 /\ b[1] = 1 /\ b[2] = 1 /\ b[3] = 1 /\ b[4] = 1
  <2>1. b \in [1 .. 4 -> Int] /\ 4 \in Nat
    OBVIOUS
  <2>2. b \in Seq(Int) /\ Len(b) = 4
    BY <2>1, FunctionIsSeq
  <2>3. 1 \in 1 .. 4 /\ 2 \in 1 .. 4 /\ 3 \in 1 .. 4 /\ 4 \in 1 .. 4
    OBVIOUS
  <2> QED
    BY <2>2, <2>3
<1>3. /\ c \in Seq(Int) /\ Len(c) = 9
      /\ c[1] = 4 /\ c[2] = 4 /\ c[3] = 4 /\ c[4] = 4 /\ c[5] = 4
      /\ c[6] = 1 /\ c[7] = 1 /\ c[8] = 1 /\ c[9] = 1
  OBVIOUS
<1>4. BallLayout = a \o b
  BY DEF BallLayout, N_BUTTONS
<1> HIDE DEF a, b, c
<1> DEFINE s == a \o b
<1>5. /\ s \in Seq(Int) /\ Len(s) = 5 + 4
      /\ \A i \in 1 .. 5 + 4 : s[i] = IF i <= 5 THEN a[i] ELSE b[i - 5]
  <2>1. /\ s \in Seq(Int) /\ Len(s) = Len(a) + Len(b)
        /\ \A i \in 1 .. Len(a) + Len(b) : s[i] = IF i <= Len(a) THEN a[i] ELSE b[i - Len(a)]
    BY <1>1, <1>2, ConcatProperties
  <2> HIDE DEF s
  <2> QED
    BY <1>1, <1>2, <2>1
<1> HIDE DEF s
<1>6. \A i \in 1 .. 9 : \/ i = 1 \/ i = 2 \/ i = 3 \/ i = 4 \/ i = 5
                        \/ i = 6 \/ i = 7 \/ i = 8 \/ i = 9
  BY SMT
<1>7. /\ s[1] = 4 /\ s[2] = 4 /\ s[3] = 4 /\ s[4] = 4 /\ s[5] = 4
      /\ s[6] = 1 /\ s[7] = 1 /\ s[8] = 1 /\ s[9] = 1
  BY <1>1, <1>2, <1>5, SMT
<1>8. \A i \in 1 .. 9 : s[i] = c[i]
  BY <1>3, <1>6, <1>7
<1>9. Len(s) = 9
  BY <1>5, SMT
<1>10. s = c
  BY <1>3, <1>5, <1>8, <1>9, SeqEqual
<1> QED
  BY <1>4, <1>10 DEF s, c

\* Where the numbers of a ball begin, and where the last one ends.
BallOffsets == <<0, 4, 8, 12, 16, 20, 21, 22, 23, 24>>

LEMMA BallOffsetsAre ==
    /\ BallLayout \in Seq(Widths) /\ BallLayout \in Seq(Nat) /\ Len(BallLayout) = 9
    /\ BallOffsets[1] = 0 /\ BallOffsets[10] = 24
    /\ \A i \in 1 .. 10 : BallOffsets[i] \in Nat
    /\ \A i \in 1 .. 9 : BallOffsets[i + 1] = BallOffsets[i] + BallLayout[i]
<1> DEFINE ws == <<4, 4, 4, 4, 4, 1, 1, 1, 1>>
<1>1. /\ ws \in Seq(Widths) /\ ws \in Seq(Nat) /\ Len(ws) = 9
  BY DEF Widths
<1>2. /\ ws[1] = 4 /\ ws[2] = 4 /\ ws[3] = 4 /\ ws[4] = 4 /\ ws[5] = 4
      /\ ws[6] = 1 /\ ws[7] = 1 /\ ws[8] = 1 /\ ws[9] = 1
  OBVIOUS
<1>3. /\ BallOffsets[1] = 0 /\ BallOffsets[2] = 4 /\ BallOffsets[3] = 8 /\ BallOffsets[4] = 12 /\ BallOffsets[5] = 16
      /\ BallOffsets[6] = 20 /\ BallOffsets[7] = 21 /\ BallOffsets[8] = 22 /\ BallOffsets[9] = 23 /\ BallOffsets[10] = 24
  BY DEF BallOffsets
<1>4. \A i \in 1 .. 10 : \/ i = 1 \/ i = 2 \/ i = 3 \/ i = 4 \/ i = 5
                         \/ i = 6 \/ i = 7 \/ i = 8 \/ i = 9 \/ i = 10
  BY SMT
<1>5. \A i \in 1 .. 9 : \/ i = 1 \/ i = 2 \/ i = 3 \/ i = 4 \/ i = 5
                        \/ i = 6 \/ i = 7 \/ i = 8 \/ i = 9
  BY SMT
<1> HIDE DEF ws
<1>6. \A i \in 1 .. 10 : BallOffsets[i] \in Nat
  BY <1>3, <1>4
<1>7. \A i \in 1 .. 9 : BallOffsets[i + 1] = BallOffsets[i] + ws[i]
  BY <1>2, <1>3, <1>5
<1> QED
  BY <1>1, <1>3, <1>6, <1>7, BallLayoutIs DEF ws

LEMMA BallSized == Sized("ball") /\ Layout["ball"] = BallLayout
<1>1. /\ Layout["ball"] = BallLayout /\ PayloadSize["ball"] = 24
      /\ Code["ball"] = 98 /\ "ball" \in DOMAIN Layout
  BY DEF Layout, PayloadSize, Code, N_BUTTONS
<1>2. \A i \in 1 .. Len(BallLayout) : BallOffsets[i + 1] = BallOffsets[i] + BallLayout[i]
  BY BallOffsetsAre
<1>3. Offsets(BallLayout)[Len(BallLayout) + 1] = BallOffsets[Len(BallLayout) + 1]
  BY <1>2, BallOffsetsAre, EndsAre
<1>4. Len(BallLayout) + 1 = 10
  BY BallOffsetsAre
<1>5. Offsets(BallLayout)[Len(BallLayout) + 1] = 24
  BY <1>3, <1>4, BallOffsetsAre
<1>6. 24 \in Nat /\ 24 + 7 <= MaxShort /\ 98 \in 0 .. 127
  BY MaxAre, SMT
<1> QED
  BY <1>1, <1>5, <1>6, BallOffsetsAre DEF Sized

\* The numbers of a state.
ScoreWidths == [p \in 1 .. MAX_PLAYERS |-> 4]
BallsWidths == [k \in 1 .. 9 * N_BALLS |-> BallLayout[((k - 1) % 9) + 1]]

\* The remainder and the quotient by the numbers of a ball, from one number to the next.
LEMMA Nines ==
    ASSUME NEW k \in Nat
    PROVE  /\ k % 9 \in 0 .. 8 /\ k \div 9 \in Nat /\ k = 9 * (k \div 9) + (k % 9)
           /\ k % 9 = 8 => (k + 1) % 9 = 0 /\ (k + 1) \div 9 = (k \div 9) + 1
           /\ k % 9 # 8 => (k + 1) % 9 = (k % 9) + 1 /\ (k + 1) \div 9 = k \div 9
  BY SMT

LEMMA StateLayoutIs ==
    /\ Parted(StateLayout, Widths, 1, 4, ScoreWidths, BallsWidths, 4)
    /\ Len(ScoreWidths) = MAX_PLAYERS /\ Len(BallsWidths) = 9 * N_BALLS
    /\ ScoreWidths \in Seq(Widths) /\ BallsWidths \in Seq(Widths)
    /\ 9 * N_BALLS \in Nat
    /\ \A k \in 1 .. 9 * N_BALLS : ((k - 1) % 9) + 1 \in 1 .. 9
<1> DEFINE n == 9 * N_BALLS
<1>1. n \in Nat /\ MAX_PLAYERS \in Nat
  BY Sizes, SMT
<1>2. 1 \in Widths /\ 4 \in Widths
  BY DEF Widths
<1>3. \A k \in 1 .. n : ((k - 1) % 9) + 1 \in 1 .. 9
  BY <1>1, SMT
<1>4. ScoreWidths \in Seq(Widths) /\ Len(ScoreWidths) = MAX_PLAYERS
  <2>1. ScoreWidths \in [1 .. MAX_PLAYERS -> Widths]
    BY <1>2 DEF ScoreWidths
  <2> QED
    BY <1>1, <2>1, FunctionIsSeq
<1>5. BallsWidths \in Seq(Widths) /\ Len(BallsWidths) = n
  <2>1. \A i \in 1 .. 9 : BallLayout[i] \in Widths
    BY BallOffsetsAre, ElementOfSeq
  <2>2. BallsWidths \in [1 .. n -> Widths]
    BY <1>3, <2>1 DEF BallsWidths
  <2> HIDE DEF n
  <2> QED
    BY <1>1, <2>2, FunctionIsSeq
<1>6. StateLayout = <<1, 4>> \o ScoreWidths \o BallsWidths \o <<4>>
  <2>1. Len(BallLayout) = 9
    BY BallOffsetsAre
  <2> QED
    BY <2>1, Zenon DEF StateLayout, ScoreWidths, BallsWidths
<1>7. Parted(StateLayout, Widths, 1, 4, ScoreWidths, BallsWidths, 4)
  BY <1>2, <1>4, <1>5, <1>6, PartsAre
<1> QED
  BY <1>1, <1>3, <1>4, <1>5, <1>7

\* Where the numbers of a state begin.
LEMMA StateSized == Sized("state") /\ Layout["state"] = StateLayout
<1> DEFINE ws == StateLayout
           m == MAX_PLAYERS
           n == 9 * N_BALLS
           b == 5 + 4 * m
           g(k) == b + 24 * (k \div 9) + BallOffsets[(k % 9) + 1]
           e == b + 24 * N_BALLS
           f == [i \in 1 .. m + n + 4 |->
                   IF i = 1 THEN 0
                   ELSE IF i < 3 + m THEN 1 + 4 * (i - 2)
                   ELSE IF i <= 3 + m + n THEN g(i - (3 + m)) ELSE e + 4]
<1>1. /\ m \in Nat /\ N_BALLS \in Nat /\ n \in Nat /\ b \in Nat /\ e \in Nat
  BY Sizes, SMT
<1>2. /\ ws \in Seq(Widths) /\ ws \in Seq(Nat) /\ Len(ws) = m + n + 3
      /\ ws[1] = 1 /\ ws[2] = 4 /\ ws[m + n + 3] = 4
      /\ \A j \in 1 .. m : ws[2 + j] = 4
      /\ \A j \in 1 .. n : ws[2 + m + j] = BallLayout[((j - 1) % 9) + 1]
  <2>1. /\ Parted(ws, Widths, 1, 4, ScoreWidths, BallsWidths, 4)
        /\ Len(ScoreWidths) = m /\ Len(BallsWidths) = n
    BY StateLayoutIs
  <2>2. \A j \in 1 .. m : ScoreWidths[j] = 4
    BY DEF ScoreWidths
  <2>3. \A j \in 1 .. n : BallsWidths[j] = BallLayout[((j - 1) % 9) + 1]
    BY DEF BallsWidths
  <2> HIDE DEF ws, m, n
  <2>4. /\ ws \in Seq(Widths) /\ Len(ws) = m + n + 3
        /\ ws[1] = 1 /\ ws[2] = 4 /\ ws[m + n + 3] = 4
        /\ \A j \in 1 .. m : ws[2 + j] = ScoreWidths[j]
        /\ \A j \in 1 .. n : ws[2 + m + j] = BallsWidths[j]
    BY <2>1 DEF Parted
  <2> QED
    BY <2>2, <2>3, <2>4, WidthsAre
<1> HIDE DEF ws, m, n
<1>3. g(0) = b
  <2>1. 0 \div 9 = 0 /\ 0 % 9 = 0 /\ 0 + 1 = 1
    BY SMT
  <2>2. g(0) = b + 24 * 0 + 0
    BY <2>1, BallOffsetsAre
  <2> HIDE DEF g
  <2> QED
    BY <1>1, <2>2, SMT
<1>4. ASSUME NEW k \in Nat
      PROVE  g(k + 1) = g(k) + BallLayout[(k % 9) + 1]
  <2> DEFINE q == k \div 9
             r == k % 9
             o == BallOffsets[r + 1]
  <2>1. q \in Nat /\ r \in 0 .. 8 /\ r + 1 \in 1 .. 9
    BY Nines, SMT
  <2>2. /\ o \in Nat
        /\ BallOffsets[(r + 1) + 1] = o + BallLayout[r + 1]
        /\ BallLayout[r + 1] \in Nat
    <3>1. r + 1 \in 1 .. 10
      BY <2>1, SMT
    <3> HIDE DEF r
    <3> QED
      BY <2>1, <3>1, BallOffsetsAre, ElementOfSeq
  <2>3. CASE r = 8
    <3>1. (k + 1) \div 9 = q + 1 /\ (k + 1) % 9 = 0
      BY <2>3, Nines
    <3>2. o + BallLayout[r + 1] = 24
      <4>1. (r + 1) + 1 = 10
        BY <2>3
      <4> HIDE DEF r, o
      <4> QED
        BY <2>2, <4>1, BallOffsetsAre
    <3>3. g(k + 1) = b + 24 * (q + 1) + 0
      <4>1. 0 + 1 = 1
        OBVIOUS
      <4> HIDE DEF q, r, o, b
      <4> QED
        BY <3>1, <4>1, BallOffsetsAre
    <3>4. g(k) = b + 24 * q + o
      OBVIOUS
    <3> DEFINE x == BallLayout[r + 1]
               y == g(k + 1)
               z == g(k)
    <3>5. /\ y = b + 24 * (q + 1) + 0 /\ z = b + 24 * q + o /\ o + x = 24
          /\ q \in Nat /\ o \in Nat /\ x \in Nat /\ b \in Nat
      BY <1>1, <2>1, <2>2, <3>2, <3>3, <3>4
    <3> HIDE DEF x, y, z, q, r, o, b
    <3>6. y = z + x
      BY <3>5, SMT
    <3> QED
      BY <3>6 DEF x, y, z, r
  <2>4. CASE r # 8
    <3>1. (k + 1) \div 9 = q /\ (k + 1) % 9 = r + 1
      BY <2>4, Nines
    <3>2. g(k + 1) = b + 24 * q + (o + BallLayout[r + 1])
      <4> HIDE DEF q, r, o, b
      <4> QED
        BY <2>2, <3>1
    <3>3. g(k) = b + 24 * q + o
      OBVIOUS
    <3> DEFINE x == BallLayout[r + 1]
               y == g(k + 1)
               z == g(k)
    <3>4. /\ y = b + 24 * q + (o + x) /\ z = b + 24 * q + o
          /\ q \in Nat /\ o \in Nat /\ x \in Nat /\ b \in Nat
      BY <1>1, <2>1, <2>2, <3>2, <3>3
    <3> HIDE DEF x, y, z, q, r, o, b
    <3>5. y = z + x
      BY <3>4, SMT
    <3> QED
      BY <3>5 DEF x, y, z, r
  <2> QED
    BY <2>3, <2>4
<1>5. g(n) = e
  <2>1. n \div 9 = N_BALLS /\ n % 9 = 0
    BY <1>1, SMT DEF n
  <2>2. g(n) = b + 24 * N_BALLS + 0
    <3>1. 0 + 1 = 1
      OBVIOUS
    <3> HIDE DEF b
    <3> QED
      BY <2>1, <3>1, BallOffsetsAre
  <2> HIDE DEF g
  <2> QED
    BY <1>1, <2>2, SMT
<1> HIDE DEF g
<1>6. /\ f[1] = 0
      /\ \A i \in 2 .. 2 + m : f[i] = 1 + 4 * (i - 2)
      /\ \A k \in 0 .. n : f[3 + m + k] = g(k)
      /\ f[m + n + 4] = e + 4
  <2>1. 1 \in 1 .. m + n + 4
    BY <1>1, SMT
  <2>2. \A i \in 2 .. 2 + m : i \in 1 .. m + n + 4 /\ i # 1 /\ i < 3 + m
    BY <1>1, SMT
  <2>3. ASSUME NEW k \in 0 .. n
        PROVE  f[3 + m + k] = g(k)
    <3> DEFINE i == 3 + m + k
    <3>1. i \in 1 .. m + n + 4 /\ i # 1 /\ ~ (i < 3 + m) /\ i <= 3 + m + n /\ i - (3 + m) = k
      BY <1>1, SMT
    <3> HIDE DEF i
    <3>2. f[i] = g(k)
      BY <3>1
    <3> QED
      BY <3>2 DEF i
  <2>4. f[m + n + 4] = e + 4
    <3> DEFINE i == m + n + 4
    <3>1. i \in 1 .. i /\ i # 1 /\ ~ (i < 3 + m) /\ ~ (i <= 3 + m + n)
      BY <1>1, SMT
    <3> HIDE DEF e
    <3> QED
      BY <3>1
  <2> QED
    BY <2>1, <2>2, <2>3, <2>4
<1> HIDE DEF f
<1>7. ASSUME NEW i \in 1 .. m + n + 3
      PROVE  f[i + 1] = f[i] + ws[i]
  <2>1. \/ i = 1 \/ i = 2
        \/ \E j \in 1 .. m : i = 2 + j
        \/ \E j \in 1 .. n : i = 2 + m + j
        \/ i = m + n + 3
    BY <1>1, PartsCover
  <2>2. 0 \in 0 .. n /\ n \in 0 .. n
    BY <1>1, SMT
  <2>3. f[3 + m] = b
    <3>1. f[3 + m + 0] = b
      BY <1>3, <1>6, <2>2
    <3>2. 3 + m + 0 = 3 + m
      BY <1>1, SMT
    <3> QED
      BY <3>1, <3>2
  <2>4. CASE i = 1
    <3>1. 2 \in 2 .. 2 + m
      BY <1>1, SMT
    <3>2. f[2] = 1 + 4 * (2 - 2)
      BY <1>6, <3>1
    <3>3. f[2] = 0 + 1
      BY <3>2, SMT
    <3> QED
      BY <1>2, <1>6, <2>4, <3>3
  <2>5. CASE \E j \in 0 .. m : i = 2 + j
    <3>1. PICK j \in 0 .. m : i = 2 + j
      BY <2>5
    <3>2. ws[i] = 4
      <4>1. j = 0 \/ j \in 1 .. m
        BY <1>1, SMT
      <4>2. j = 0 => i = 2
        BY <3>1
      <4> QED
        BY <1>2, <3>1, <4>1, <4>2
    <3>3. i \in 2 .. 2 + m /\ i - 2 = j /\ j \in Nat
      BY <1>1, <3>1, SMT
    <3>4. f[i] = 1 + 4 * j
      BY <1>6, <3>3
    <3>5. CASE j = m
      <4>1. i + 1 = 3 + m
        BY <1>1, <3>1, <3>5, SMT
      <4>2. f[i + 1] = b
        BY <2>3, <4>1
      <4>3. b = 1 + 4 * j + 4
        BY <1>1, <3>5, SMT
      <4> QED
        BY <3>2, <3>4, <4>2, <4>3
    <3>6. CASE j # m
      <4>1. i + 1 \in 2 .. 2 + m /\ (i + 1) - 2 = j + 1
        BY <1>1, <3>1, <3>6, SMT
      <4>2. f[i + 1] = 1 + 4 * (j + 1)
        BY <1>6, <4>1
      <4>3. 1 + 4 * (j + 1) = 1 + 4 * j + 4
        BY <3>3, SMT
      <4> QED
        BY <3>2, <3>4, <4>2, <4>3
    <3> QED
      BY <3>5, <3>6
  <2>6. CASE \E j \in 1 .. n : i = 2 + m + j
    <3>1. PICK j \in 1 .. n : i = 2 + m + j
      BY <2>6
    <3> DEFINE k == j - 1
    <3>2. k \in Nat /\ k \in 0 .. n /\ k + 1 \in 0 .. n /\ k + 1 = j
          /\ 3 + m + k = i /\ 3 + m + (k + 1) = i + 1
      BY <1>1, <3>1, SMT
    <3>3. ws[i] = BallLayout[(k % 9) + 1]
      BY <1>2, <3>1
    <3> HIDE DEF k
    <3>4. f[i] = g(k) /\ f[i + 1] = g(k + 1)
      BY <1>6, <3>2
    <3> QED
      BY <1>4, <3>2, <3>3, <3>4
  <2>7. CASE i = m + n + 3
    <3>1. i = 3 + m + n /\ i + 1 = m + n + 4
      BY <1>1, <2>7, SMT
    <3>2. f[i] = e /\ f[i + 1] = e + 4
      BY <1>5, <1>6, <2>2, <3>1
    <3> QED
      BY <1>2, <2>7, <3>2
  <2>8. 0 \in 0 .. m /\ 2 + 0 = 2 /\ \A j \in 1 .. m : j \in 0 .. m
    BY <1>1, SMT
  <2> QED
    BY <2>1, <2>4, <2>5, <2>6, <2>7, <2>8
<1>8. Offsets(ws)[Len(ws) + 1] = f[Len(ws) + 1]
  <2>1. \A i \in 1 .. Len(ws) : f[i + 1] = f[i] + ws[i]
    BY <1>2, <1>7
  <2> QED
    BY <1>2, <1>6, <2>1, EndsAre
<1>9. Offsets(ws)[Len(ws) + 1] = e + 4
  <2>1. Len(ws) + 1 = m + n + 4
    BY <1>1, <1>2, SMT
  <2> QED
    BY <1>6, <1>8, <2>1
<1>10. PayloadSize["state"] = e + 4
  <2>1. PayloadSize["state"] = 1 + 4 + 4 * MAX_PLAYERS + (20 + 4) * N_BALLS + 4
    BY DEF PayloadSize, N_BUTTONS
  <2>2. 1 + 4 + 4 * MAX_PLAYERS + (20 + 4) * N_BALLS + 4 = 5 + 4 * MAX_PLAYERS + 24 * N_BALLS + 4
    BY Sizes, SMT
  <2> QED
    BY <2>1, <2>2 DEF m
<1>11. Layout["state"] = ws /\ "state" \in DOMAIN Layout /\ Code["state"] \in 0 .. 127
  <2>1. 115 \in 0 .. 127
    BY SMT
  <2> QED
    BY <2>1 DEF Layout, Code, ws
<1>12. e + 4 \in Nat
  BY <1>1, SMT
<1> HIDE DEF e
<1> QED
  BY <1>2, <1>9, <1>10, <1>11, <1>12, NumbersFit DEF Sized, ws

\* What is in the fields.
LEMMA FlagIs ==
    ASSUME NEW b \in BOOLEAN
    PROVE  Flag(b) \in Fits(1) /\ Flag(b) \in Int /\ (Flag(b) # 0) = b
<1>1. 0 \in Fits(1) /\ 1 \in Fits(1) /\ 0 \in Int /\ 1 \in Int /\ 1 # 0
  BY InFits, SMT
<1> QED
  BY <1>1 DEF Flag

LEMMA NumbersAre ==
    /\ \A p \in Player \cup {-1} : p \in Fits(4) /\ p \in Int
    /\ \A n \in Nat : n <= MaxInt => n \in Fits(4)
    /\ \A n \in - MAX_SPEED .. MAX_SPEED : n \in Fits(4) /\ n \in Int
    /\ \A n \in 0 .. ARENA_SIZE - 1 : n \in Fits(4) /\ n \in Int
<1>1. MAX_PLAYERS <= MaxInt
  <2> DEFINE e == 5 + 4 * MAX_PLAYERS + 24 * N_BALLS + 4
  <2>1. PayloadSize["state"] = 1 + 4 + 4 * MAX_PLAYERS + (20 + 4) * N_BALLS + 4
    BY DEF PayloadSize, N_BUTTONS
  <2>2. 1 + 4 + 4 * MAX_PLAYERS + (20 + 4) * N_BALLS + 4 = e
    BY Sizes, SMT
  <2>3. PayloadSize["state"] + 7 <= MaxShort
    BY NumbersFit
  <2>4. e + 7 <= MaxShort
    BY <2>1, <2>2, <2>3
  <2> QED
    BY <2>4, Sizes, MaxAre, SMT
<1>2. \A p \in Player \cup {-1} : p \in Int /\ p >= - MaxInt - 1 /\ p <= MaxInt
  BY <1>1, Sizes, MaxAre, SMT DEF Player
<1>3. \A n \in Nat : n <= MaxInt => n \in Int /\ n >= - MaxInt - 1
  BY MaxAre, SMT
<1>4. ARENA_SIZE \in 0 .. MaxInt /\ MAX_SPEED \in 0 .. MaxInt
  BY NumbersFit
<1>5. \A n \in - MAX_SPEED .. MAX_SPEED : n \in Int /\ n >= - MaxInt - 1 /\ n <= MaxInt
  BY <1>4, MaxAre, SMT
<1>6. \A n \in 0 .. ARENA_SIZE - 1 : n \in Int /\ n >= - MaxInt - 1 /\ n <= MaxInt
  BY <1>4, MaxAre, SMT
<1>7. \A n \in Int : n >= - MaxInt - 1 /\ n <= MaxInt => n \in Fits(4)
  BY InFits
<1> QED
  BY <1>2, <1>3, <1>5, <1>6, <1>7

\* An event can be sent, and is read as it was.
LEMMA EventFieldsIs ==
    ASSUME NEW e \in Event, e.frame <= MaxInt, e.summon <= MaxInt
    PROVE  Fitting(Layout["event"], EventFields(e)) /\ EventOf(EventFields(e)) = e
<1> DEFINE ws == <<4, 4, 4, 1, 1>>
           a == e.frame
           b == e.summon
           c == e.player
           d == e.button
           f == Flag(e.pressed)
           fs == <<a, b, c, d, f>>
<1>1. /\ a \in Fits(4) /\ a \in Int /\ b \in Fits(4) /\ b \in Int
      /\ c \in Fits(4) /\ c \in Int /\ d \in Fits(1) /\ d \in Int
      /\ f \in Fits(1) /\ f \in Int /\ (f # 0) = e.pressed
  <2>1. e.frame \in Nat /\ e.summon \in Nat /\ e.player \in Player /\ e.pressed \in BOOLEAN
    BY DEF Event
  <2>2. e.button \in 0 .. 4
    BY DEF Event, N_BUTTONS
  <2>3. \A n \in 0 .. 4 : n \in Fits(1) /\ n \in Int
    <3>1. \A n \in 0 .. 4 : n \in Int /\ n >= -128 /\ n <= 127
      BY SMT
    <3> QED
      BY <3>1, InFits
  <2> QED
    BY <2>1, <2>2, <2>3, NumbersAre, FlagIs
<1>2. e = [frame |-> a, summon |-> b, player |-> c, button |-> d, pressed |-> e.pressed]
  BY DEF Event
<1> HIDE DEF a, b, c, d, f
<1>3. /\ fs \in Seq(Int) /\ Len(fs) = 5
      /\ fs[1] = a /\ fs[2] = b /\ fs[3] = c /\ fs[4] = d /\ fs[5] = f
  BY <1>1
<1>4. ws \in Seq(Widths) /\ Len(ws) = 5 /\ ws[1] = 4 /\ ws[2] = 4 /\ ws[3] = 4 /\ ws[4] = 1 /\ ws[5] = 1
  BY DEF Widths
<1>5. \A i \in 1 .. 5 : i = 1 \/ i = 2 \/ i = 3 \/ i = 4 \/ i = 5
  BY SMT
<1>6. EventFields(e) = fs
  BY DEF EventFields, a, b, c, d, f
<1> HIDE DEF fs, ws
<1>7. \A i \in 1 .. 5 : fs[i] \in Fits(ws[i])
  BY <1>1, <1>3, <1>4, <1>5
<1>8. Fitting(ws, fs)
  BY <1>3, <1>4, <1>7 DEF Fitting
<1>9. EventOf(fs) = e
  BY <1>1, <1>2, <1>3 DEF EventOf
<1> QED
  BY <1>6, <1>8, <1>9, EventSized DEF ws

\* A ball can be sent, and is read as it was.
LEMMA BallFieldsIs ==
    ASSUME NEW b \in Ball
    PROVE  /\ Fitting(BallLayout, BallFields(b)) /\ Len(BallFields(b)) = 9
           /\ BallOf(BallFields(b)) = b
<1> DEFINE x == b.x
           y == b.y
           vx == b.vx
           vy == b.vy
           p == b.player
           head == <<x, y, vx, vy, p>>
           tail == [r \in 1 .. 4 |-> Flag(b.buttons[r - 1])]
           fs == head \o tail
<1>1. /\ x \in Fits(4) /\ x \in Int /\ y \in Fits(4) /\ y \in Int
      /\ vx \in Fits(4) /\ vx \in Int /\ vy \in Fits(4) /\ vy \in Int
      /\ p \in Fits(4) /\ p \in Int
  BY NumbersAre DEF Ball
<1>2. /\ b.buttons \in [Button -> BOOLEAN]
      /\ b = [x |-> x, y |-> y, vx |-> vx, vy |-> vy, player |-> p, buttons |-> b.buttons]
  BY DEF Ball
<1> HIDE DEF x, y, vx, vy, p
<1>3. /\ head \in Seq(Int) /\ Len(head) = 5
      /\ head[1] = x /\ head[2] = y /\ head[3] = vx /\ head[4] = vy /\ head[5] = p
  BY <1>1
<1>4. \A r \in 1 .. 4 : b.buttons[r - 1] \in BOOLEAN
  <2>1. \A r \in 1 .. 4 : r - 1 \in Button
    BY SMT DEF Button, N_BUTTONS
  <2> QED
    BY <1>2, <2>1
<1>5. tail \in Seq(Int) /\ Len(tail) = 4 /\ \A r \in 1 .. 4 : tail[r] = Flag(b.buttons[r - 1])
  <2>1. tail \in [1 .. 4 -> Int] /\ 4 \in Nat
    BY <1>4, FlagIs
  <2> QED
    BY <2>1, FunctionIsSeq
<1>6. BallFields(b) = fs
  BY DEF BallFields, N_BUTTONS, x, y, vx, vy, p
<1> HIDE DEF head, tail
<1>7. /\ fs \in Seq(Int) /\ Len(fs) = 5 + 4
      /\ \A i \in 1 .. 5 + 4 : fs[i] = IF i <= 5 THEN head[i] ELSE tail[i - 5]
  <2>1. /\ fs \in Seq(Int) /\ Len(fs) = Len(head) + Len(tail)
        /\ \A i \in 1 .. Len(head) + Len(tail) :
             fs[i] = IF i <= Len(head) THEN head[i] ELSE tail[i - Len(head)]
    BY <1>3, <1>5, ConcatProperties
  <2> HIDE DEF fs
  <2> QED
    BY <1>3, <1>5, <2>1
<1> HIDE DEF fs
<1>8. /\ Len(fs) = 9 /\ fs[1] = x /\ fs[2] = y /\ fs[3] = vx /\ fs[4] = vy /\ fs[5] = p
      /\ \A r \in 1 .. 4 : fs[5 + r] = Flag(b.buttons[r - 1])
  <2>1. 5 + 4 = 9 /\ \A i \in 1 .. 5 : i \in 1 .. 5 + 4 /\ i <= 5
    BY SMT
  <2>2. \A i \in 1 .. 5 : fs[i] = head[i]
    BY <1>7, <2>1
  <2>3. \A r \in 1 .. 4 : 5 + r \in 1 .. 5 + 4 /\ ~ (5 + r <= 5) /\ 5 + r - 5 = r
    BY SMT
  <2>4. ASSUME NEW r \in 1 .. 4
        PROVE  fs[5 + r] = tail[r]
    <3> DEFINE i == 5 + r
    <3>1. i \in 1 .. 5 + 4 /\ ~ (i <= 5) /\ i - 5 = r
      BY SMT
    <3> HIDE DEF i
    <3>2. fs[i] = tail[r]
      BY <1>7, <3>1
    <3> QED
      BY <3>2 DEF i
  <2>5. 1 \in 1 .. 5 /\ 2 \in 1 .. 5 /\ 3 \in 1 .. 5 /\ 4 \in 1 .. 5 /\ 5 \in 1 .. 5
    OBVIOUS
  <2> QED
    BY <1>3, <1>5, <1>7, <2>1, <2>2, <2>4, <2>5
<1>9. Fitting(BallLayout, fs)
  <2> DEFINE ws == <<4, 4, 4, 4, 4, 1, 1, 1, 1>>
  <2>1. /\ ws[1] = 4 /\ ws[2] = 4 /\ ws[3] = 4 /\ ws[4] = 4 /\ ws[5] = 4
        /\ ws[6] = 1 /\ ws[7] = 1 /\ ws[8] = 1 /\ ws[9] = 1
    OBVIOUS
  <2>2. BallLayout = ws /\ ws \in Seq(Widths) /\ Len(ws) = 9
    BY BallLayoutIs, BallOffsetsAre
  <2> HIDE DEF ws
  <2>3. \A i \in 1 .. 9 : \/ i = 1 \/ i = 2 \/ i = 3 \/ i = 4 \/ i = 5
                          \/ i = 6 \/ i = 7 \/ i = 8 \/ i = 9
    BY SMT
  <2>4. fs[6] \in Fits(1) /\ fs[7] \in Fits(1) /\ fs[8] \in Fits(1) /\ fs[9] \in Fits(1)
    <3>1. \A r \in 1 .. 4 : fs[5 + r] \in Fits(1)
      BY <1>4, <1>8, FlagIs
    <3>2. 1 \in 1 .. 4 /\ 2 \in 1 .. 4 /\ 3 \in 1 .. 4 /\ 4 \in 1 .. 4
          /\ 5 + 1 = 6 /\ 5 + 2 = 7 /\ 5 + 3 = 8 /\ 5 + 4 = 9
      OBVIOUS
    <3>3. fs[5 + 1] \in Fits(1) /\ fs[5 + 2] \in Fits(1) /\ fs[5 + 3] \in Fits(1) /\ fs[5 + 4] \in Fits(1)
      BY <3>1, <3>2
    <3> QED
      BY <3>2, <3>3
  <2>5. \A i \in 1 .. 9 : fs[i] \in Fits(ws[i])
    BY <1>1, <1>8, <2>1, <2>3, <2>4
  <2> QED
    BY <1>7, <1>8, <2>2, <2>5 DEF Fitting
<1>10. BallOf(fs) = b
  <2>1. \A r \in Button : (fs[6 + r] # 0) = b.buttons[r]
    <3> TAKE r \in Button
    <3>1. r \in 0 .. 3 /\ b.buttons[r] \in BOOLEAN
      <4>1. r \in 0 .. 3
        BY SMT DEF Button, N_BUTTONS
      <4> QED
        BY <1>2, <4>1
    <3> DEFINE q == r + 1
    <3>2. q \in 1 .. 4 /\ 5 + q = 6 + r /\ q - 1 = r
      BY <3>1, SMT
    <3> HIDE DEF q
    <3>3. fs[5 + q] = Flag(b.buttons[q - 1])
      BY <1>8, <3>2
    <3> QED
      BY <3>1, <3>2, <3>3, FlagIs
  <2>2. [r \in Button |-> fs[6 + r] # 0] = b.buttons
    BY <1>2, <2>1
  <2>3. BallOf(fs) = [x |-> fs[1], y |-> fs[2], vx |-> fs[3], vy |-> fs[4], player |-> fs[5],
                      buttons |-> b.buttons]
    BY <2>2 DEF BallOf
  <2> QED
    BY <1>2, <1>8, <2>3
<1> QED
  BY <1>6, <1>8, <1>9, <1>10

\* A state can be sent, and is read as it was, but for the count of deaths.
Sendable(st) ==
    /\ st \in Game
    /\ st.frame <= MaxInt /\ st.lie <= MaxInt
    /\ \A p \in Player : st.scores[p] <= MaxInt

ScoreFields(st) == [p \in 1 .. MAX_PLAYERS |-> st.scores[p - 1]]
BallsFields(st) ==
    [k \in 1 .. 9 * N_BALLS |-> BallFields(st.balls[(k - 1) \div 9])[((k - 1) % 9) + 1]]

\* Every number of the balls is one of a ball.
LEMMA BallAt ==
    /\ \A k \in 1 .. 9 * N_BALLS : (k - 1) \div 9 \in Index /\ ((k - 1) % 9) + 1 \in 1 .. 9
    /\ \A i \in Index, j \in 1 .. 9 :
         /\ 9 * i + j \in 1 .. 9 * N_BALLS
         /\ (9 * i + j - 1) \div 9 = i /\ ((9 * i + j - 1) % 9) + 1 = j
<1>1. N_BALLS \in Nat
  BY Sizes
<1>2. ASSUME NEW k \in 1 .. 9 * N_BALLS
      PROVE  (k - 1) \div 9 \in Index /\ ((k - 1) % 9) + 1 \in 1 .. 9
  BY <1>1, SMT DEF Index
<1>3. ASSUME NEW i \in Index, NEW j \in 1 .. 9
      PROVE  /\ 9 * i + j \in 1 .. 9 * N_BALLS
             /\ (9 * i + j - 1) \div 9 = i /\ ((9 * i + j - 1) % 9) + 1 = j
  BY <1>1, SMT DEF Index
<1> QED
  BY <1>2, <1>3

LEMMA StateParts ==
    ASSUME NEW st, Sendable(st)
    PROVE  /\ Parted(StateFields(st), Int, Flag(st.paused), st.frame, ScoreFields(st),
                     BallsFields(st), st.lie)
           /\ Len(ScoreFields(st)) = MAX_PLAYERS /\ Len(BallsFields(st)) = 9 * N_BALLS
           /\ \A i \in Index : st.balls[i] \in Ball
<1>1. /\ st.paused \in BOOLEAN /\ st.frame \in Int /\ st.lie \in Int
      /\ st.scores \in [Player -> Nat] /\ st.balls \in [Index -> Ball]
  BY DEF Sendable, Game, State
<1>2. Flag(st.paused) \in Int
  BY <1>1, FlagIs
<1>3. ScoreFields(st) \in Seq(Int) /\ Len(ScoreFields(st)) = MAX_PLAYERS
  <2>1. MAX_PLAYERS \in Nat /\ \A p \in 1 .. MAX_PLAYERS : p - 1 \in Player
    BY Sizes, SMT DEF Player
  <2>2. ScoreFields(st) \in [1 .. MAX_PLAYERS -> Int]
    BY <1>1, <2>1 DEF ScoreFields
  <2> QED
    BY <2>1, <2>2, FunctionIsSeq
<1>4. BallsFields(st) \in Seq(Int) /\ Len(BallsFields(st)) = 9 * N_BALLS
  <2> DEFINE n == 9 * N_BALLS
  <2>1. n \in Nat
    BY Sizes, SMT
  <2>2. \A k \in 1 .. n : (k - 1) \div 9 \in Index /\ ((k - 1) % 9) + 1 \in 1 .. 9
    BY BallAt
  <2>3. \A i \in Index : \A j \in 1 .. 9 : BallFields(st.balls[i])[j] \in Int
    <3> TAKE i \in Index
    <3>1. BallFields(st.balls[i]) \in Seq(Int) /\ Len(BallFields(st.balls[i])) = 9
      BY <1>1, BallFieldsIs DEF Fitting
    <3> QED
      BY <3>1, ElementOfSeq
  <2>4. BallsFields(st) \in [1 .. n -> Int]
    BY <2>2, <2>3 DEF BallsFields
  <2> HIDE DEF n
  <2>5. BallsFields(st) \in Seq(Int) /\ Len(BallsFields(st)) = n
    BY SMTT(30), <2>1, <2>4, FunctionIsSeq
  <2> QED
    BY <2>5 DEF n
<1>5. StateFields(st) = <<Flag(st.paused), st.frame>> \o ScoreFields(st) \o BallsFields(st) \o <<st.lie>>
  <2> DEFINE balls == [i \in Index |-> BallFields(st.balls[i])]
             q == [k \in 1 .. 9 * N_BALLS |-> balls[(k - 1) \div 9][((k - 1) % 9) + 1]]
  <2> DEFINE w == 5 + N_BUTTONS
             r == [k \in 1 .. w * N_BALLS |-> balls[(k - 1) \div w][((k - 1) % w) + 1]]
  <2>1. w = 9
    BY DEF N_BUTTONS
  <2>2. StateFields(st) = <<Flag(st.paused), st.frame>> \o ScoreFields(st) \o r \o <<st.lie>>
    BY DEF StateFields, ScoreFields
  <2> HIDE DEF w
  <2>4. r = q
    <3> HIDE DEF balls
    <3> QED
      BY <2>1
  <2> HIDE DEF r
  <2>3. q = BallsFields(st)
    <3>1. \A k \in 1 .. 9 * N_BALLS : (k - 1) \div 9 \in Index
      BY BallAt
    <3>2. \A k \in 1 .. 9 * N_BALLS :
            balls[(k - 1) \div 9][((k - 1) % 9) + 1]
              = BallFields(st.balls[(k - 1) \div 9])[((k - 1) % 9) + 1]
      BY <3>1
    <3> HIDE DEF balls
    <3> QED
      BY <3>2 DEF BallsFields
  <2> QED
    BY <2>2, <2>3, <2>4
<1> QED
  BY <1>1, <1>2, <1>3, <1>4, <1>5, PartsAre

LEMMA StateFits ==
    ASSUME NEW st, Sendable(st)
    PROVE  Fitting(StateLayout, StateFields(st))
<1> DEFINE ws == StateLayout
           fs == StateFields(st)
           m == MAX_PLAYERS
           n == 9 * N_BALLS
           sw == ScoreWidths
           bw == BallsWidths
           sf == ScoreFields(st)
           bf == BallsFields(st)
           flag == Flag(st.paused)
<1>1. /\ Parted(ws, Widths, 1, 4, sw, bw, 4) /\ Len(sw) = m /\ Len(bw) = n
  BY StateLayoutIs
<1>2. /\ Parted(fs, Int, flag, st.frame, sf, bf, st.lie) /\ Len(sf) = m /\ Len(bf) = n
  BY StateParts
<1>3. \A p \in 1 .. m : sw[p] = 4 /\ sf[p] \in Fits(4)
  <2> TAKE p \in 1 .. m
  <2>1. p - 1 \in Player
    BY Sizes, SMT DEF Player
  <2>2. st.scores[p - 1] \in Nat /\ st.scores[p - 1] <= MaxInt
    BY <2>1 DEF Sendable, Game, State
  <2> QED
    BY <2>2, NumbersAre DEF ScoreWidths, ScoreFields
<1>4. \A k \in 1 .. n : bf[k] \in Fits(bw[k])
  <2> TAKE k \in 1 .. n
  <2> DEFINE i == (k - 1) \div 9
             j == ((k - 1) % 9) + 1
  <2>1. i \in Index /\ j \in 1 .. 9
    BY BallAt
  <2>2. bf[k] = BallFields(st.balls[i])[j] /\ bw[k] = BallLayout[j]
    BY DEF BallsFields, BallsWidths
  <2> HIDE DEF i, j
  <2>3. st.balls[i] \in Ball
    BY <2>1, StateParts
  <2>4. Fitting(BallLayout, BallFields(st.balls[i]))
    BY <2>3, BallFieldsIs
  <2>5. BallFields(st.balls[i])[j] \in Fits(BallLayout[j])
    BY <2>1, <2>4, BallOffsetsAre DEF Fitting
  <2> QED
    BY <2>2, <2>5
<1>5. flag \in Fits(1) /\ st.frame \in Fits(4) /\ st.lie \in Fits(4)
  <2>1. st.paused \in BOOLEAN /\ st.frame \in Nat /\ st.lie \in Nat /\ st.frame <= MaxInt /\ st.lie <= MaxInt
    BY DEF Sendable, Game, State
  <2> QED
    BY <2>1, FlagIs, NumbersAre
<1>6. m \in Nat /\ n \in Nat
  BY Sizes, SMT
<1> HIDE DEF ws, fs, m, n, sw, bw, sf, bf, flag
<1>7. /\ ws \in Seq(Widths) /\ Len(ws) = m + n + 3
      /\ ws[1] = 1 /\ ws[2] = 4 /\ ws[m + n + 3] = 4
      /\ \A j \in 1 .. m : ws[2 + j] = sw[j]
      /\ \A j \in 1 .. n : ws[2 + m + j] = bw[j]
  BY <1>1 DEF Parted
<1>8. /\ fs \in Seq(Int) /\ Len(fs) = m + n + 3
      /\ fs[1] = flag /\ fs[2] = st.frame /\ fs[m + n + 3] = st.lie
      /\ \A j \in 1 .. m : fs[2 + j] = sf[j]
      /\ \A j \in 1 .. n : fs[2 + m + j] = bf[j]
  BY SMTT(30), <1>2 DEF Parted
<1>9. ASSUME NEW i \in 1 .. m + n + 3
      PROVE  fs[i] \in Fits(ws[i])
  <2>1. \/ i = 1 \/ i = 2
        \/ \E j \in 1 .. m : i = 2 + j
        \/ \E j \in 1 .. n : i = 2 + m + j
        \/ i = m + n + 3
    BY <1>6, PartsCover
  <2>2. CASE i = 1
    BY <1>5, <1>7, <1>8, <2>2
  <2>3. CASE i = 2
    BY <1>5, <1>7, <1>8, <2>3
  <2>4. CASE \E j \in 1 .. m : i = 2 + j
    BY SMTT(30), <1>3, <1>7, <1>8, <2>4
  <2>5. CASE \E j \in 1 .. n : i = 2 + m + j
    BY <1>4, <1>7, <1>8, <2>5
  <2>6. CASE i = m + n + 3
    BY <1>5, <1>7, <1>8, <2>6
  <2> QED
    BY <2>1, <2>2, <2>3, <2>4, <2>5, <2>6
<1> QED
  BY <1>7, <1>8, <1>9 DEF Fitting, ws, fs

LEMMA StateReadsBack ==
    ASSUME NEW st, Sendable(st), NEW old
    PROVE  StateOf(StateFields(st), old) = [st EXCEPT !.deathCount = old]
<1> DEFINE fs == StateFields(st)
           m == MAX_PLAYERS
           n == 9 * N_BALLS
           sf == ScoreFields(st)
           bf == BallsFields(st)
           flag == Flag(st.paused)
           first(i) == 3 + m + i * 9
           last(i) == first(i) + 4 + 4
<1>1. /\ Parted(fs, Int, flag, st.frame, sf, bf, st.lie) /\ Len(sf) = m /\ Len(bf) = n
      /\ \A i \in Index : st.balls[i] \in Ball
  BY StateParts
<1>2. m \in Nat /\ n \in Nat
  BY Sizes, SMT
<1>3. st \in State
  BY DEF Sendable, Game
<1>4. /\ \A p \in 1 .. m : sf[p] = st.scores[p - 1]
      /\ \A k \in 1 .. n : bf[k] = BallFields(st.balls[(k - 1) \div 9])[((k - 1) % 9) + 1]
  BY DEF ScoreFields, BallsFields
<1>5. (flag # 0) = st.paused
  BY <1>3, FlagIs DEF State
<1> HIDE DEF fs, sf, bf, flag
<1>6. /\ fs \in Seq(Int) /\ Len(fs) = m + n + 3
      /\ fs[1] = flag /\ fs[2] = st.frame /\ fs[Len(fs)] = st.lie
      /\ \A j \in 1 .. m : fs[2 + j] = sf[j]
      /\ \A j \in 1 .. n : fs[2 + m + j] = bf[j]
  <2> HIDE DEF m, n
  <2> QED
    BY <1>1 DEF Parted
<1>7. [p \in Player |-> fs[3 + p]] = st.scores
  <2>1. \A p \in Player : fs[3 + p] = st.scores[p]
    <3> TAKE p \in Player
    <3> DEFINE j == p + 1
    <3>1. j \in 1 .. m /\ 2 + j = 3 + p /\ j - 1 = p
      BY Sizes, SMT DEF Player
    <3> HIDE DEF j, m, n
    <3>2. fs[2 + j] = st.scores[j - 1]
      BY <1>4, <1>6, <3>1
    <3> QED
      BY <3>1, <3>2
  <2> QED
    BY <1>3, <2>1 DEF State
<1>8. ASSUME NEW i \in Index
      PROVE  BallOf(SubSeq(fs, first(i), last(i))) = st.balls[i]
  <2> DEFINE lo == first(i)
             hi == last(i)
             sub == SubSeq(fs, lo, hi)
             b == BallFields(st.balls[i])
  <2>1. /\ i \in Nat /\ lo \in Int /\ hi \in Int /\ lo <= hi /\ hi - lo + 1 = 9
        /\ lo >= 1 /\ hi <= m + n + 3
    <3>1. i \in Nat /\ i + 1 <= N_BALLS /\ N_BALLS \in Nat
      BY Sizes, SMT DEF Index
    <3> QED
      BY <1>2, <3>1, SMT
  <2>2. ASSUME NEW j \in 1 .. 9
        PROVE  fs[lo + j - 1] = b[j]
    <3> DEFINE k == 9 * i + j
    <3>1. k \in 1 .. n /\ (k - 1) \div 9 = i /\ ((k - 1) % 9) + 1 = j
      BY Sizes, SMT DEF Index
    <3>2. lo + j - 1 = 2 + m + k
      BY <1>2, <2>1, SMT
    <3> HIDE DEF k, lo, n, m
    <3>3. fs[2 + m + k] = bf[k]
      BY <1>6, <3>1
    <3>4. bf[k] = b[j]
      BY <1>4, <3>1
    <3> QED
      BY <3>2, <3>3, <3>4
  <2>3. b \in Seq(Int) /\ Len(b) = 9 /\ BallOf(b) = st.balls[i]
    BY <1>1, BallFieldsIs DEF Fitting
  <2> HIDE DEF b
  <2>4. \A k \in lo .. hi : fs[k] \in Int
    <3>1. \A k \in lo .. hi : k \in 1 .. Len(fs)
      <4> HIDE DEF lo, hi, m, n
      <4> QED
        BY <1>2, <1>6, <2>1, SMT
    <3> QED
      BY <1>6, <3>1, ElementOfSeq
  <2> HIDE DEF lo, hi, first, last
  <2>5. /\ sub \in Seq(Int) /\ Len(sub) = hi - lo + 1
        /\ \A j \in 1 .. hi - lo + 1 : sub[j] = fs[lo + j - 1]
    BY <2>1, <2>4, SubSeqProperties
  <2> HIDE DEF sub
  <2>6. Len(sub) = 9 /\ \A j \in 1 .. 9 : sub[j] = b[j]
    BY <2>1, <2>2, <2>5
  <2>7. sub = b
    BY <2>3, <2>5, <2>6, SeqEqual
  <2> QED
    BY <2>3, <2>7 DEF sub, lo, hi
<1>9. [i \in Index |-> BallOf(SubSeq(fs, first(i), last(i)))] = st.balls
  <2> HIDE DEF first, last
  <2> QED
    BY <1>3, <1>8 DEF State
<1>10. StateOf(fs, old) =
         [paused |-> fs[1] # 0, frame |-> fs[2], deathCount |-> old, lie |-> fs[Len(fs)],
          scores |-> [p \in Player |-> fs[3 + p]],
          balls |-> [i \in Index |-> BallOf(SubSeq(fs, first(i), last(i)))]]
  <2>1. 5 + N_BUTTONS = 9 /\ N_BUTTONS = 4
    BY DEF N_BUTTONS
  <2> QED
    BY <2>1, Zenon DEF StateOf
<1> HIDE DEF first, last
<1>11. StateOf(fs, old) =
         [paused |-> st.paused, frame |-> st.frame, deathCount |-> old, lie |-> st.lie,
          scores |-> st.scores, balls |-> st.balls]
  BY SMTT(30), <1>5, <1>6, <1>7, <1>9, <1>10
<1>12. [st EXCEPT !.deathCount = old] =
         [paused |-> st.paused, frame |-> st.frame, deathCount |-> old, lie |-> st.lie,
          scores |-> st.scores, balls |-> st.balls]
  BY <1>3 DEF State
<1> QED
  BY <1>11, <1>12 DEF fs

\* A text of at most 255 characters is read as it was written.
LEMMA TextIs ==
    ASSUME NEW chars \in Seq(0 .. 127), Len(chars) <= 255
    PROVE  /\ Exact(SerializeText(chars))
           /\ PopText(Cut(SerializeText(chars).data)) = chars
<1> DEFINE n == Len(chars)
           psize == 2 + n
           size == 2 + 1 + psize
           head == FrontOf("text", psize)
           mark == Body(<<2>>, <<n>>)
           b == SerializeText(chars)
<1>1. /\ n \in Nat /\ n <= 255 /\ psize \in Nat /\ psize + 7 <= MaxShort
      /\ size = 5 + n /\ size \in Nat
  <2>1. n \in Nat /\ n <= 255
    BY LenProperties
  <2> HIDE DEF n
  <2> QED
    BY <2>1, MaxAre, SMT
<1>2. Code["text"] \in 0 .. 127
  <2>1. 116 \in 0 .. 127
    BY SMT
  <2> QED
    BY <2>1 DEF Code
<1>3. /\ head \in Seq(0 .. 255) /\ Len(head) = 3
      /\ \A m \in 1 .. 2 : head[m] = Bytes(3 + psize, 2)[m]
  <2> HIDE DEF psize
  <2>1. Headed(head, "text", psize)
    BY <1>1, <1>2, HeadIs
  <2> HIDE DEF head
  <2> QED
    BY <2>1 DEF Headed
<1>4. Header("text", psize) = [data |-> head, size |-> size, lost |-> FALSE]
  <2> HIDE DEF psize
  <2> QED
    BY <1>1, <1>2, HeaderIs
<1>5. /\ mark \in Seq(0 .. 255) /\ Len(mark) = 2 /\ Len(Places(<<2>>)) = 2
      /\ \A m \in 1 .. 2 : mark[m] = Bytes(n, 2)[m]
      /\ n \in Fits(2)
  <2> DEFINE ws == <<2>>
             fs == <<n>>
             at == Offsets(ws)
             off == <<0, 2>>
  <2>1. n \in Int /\ n \in Fits(2)
    <3> HIDE DEF n
    <3>1. n \in Int /\ n >= - MaxShort - 1 /\ n <= MaxShort
      BY <1>1, MaxAre, SMT
    <3> QED
      BY <3>1, InFits
  <2> HIDE DEF n
  <2>2. /\ ws \in Seq(Widths) /\ ws \in Seq(Nat) /\ Len(ws) = 1 /\ ws[1] = 2
        /\ fs \in Seq(Int) /\ Len(fs) = 1 /\ fs[1] = n
        /\ off[1] = 0 /\ off[2] = 2
    BY <2>1 DEF Widths
  <2>3. \A i \in 1 .. 1 : i = 1
    BY SMT
  <2> HIDE DEF ws, fs, off
  <2>4. Fitting(ws, fs)
    BY <2>1, <2>2, <2>3 DEF Fitting
  <2>5. at[Len(ws) + 1] = off[Len(ws) + 1]
    <3>1. \A i \in 1 .. Len(ws) : off[i + 1] = off[i] + ws[i]
      BY <2>2, <2>3
    <3> QED
      BY <2>2, <3>1, EndsAre
  <2>6. at[1] = 0 /\ at[2] = 2
    <3>1. Spaced(at, ws)
      BY <2>2, OffsetsAre
    <3> HIDE DEF at
    <3>2. at[1] = 0
      BY <3>1 DEF Spaced
    <3> QED
      BY <2>2, <2>5, <3>2
  <2> HIDE DEF at
  <2>7. /\ Len(Places(ws)) = at[Len(ws) + 1]
        /\ Body(ws, fs) \in Seq(0 .. 255) /\ Len(Body(ws, fs)) = at[Len(ws) + 1]
        /\ \A i \in 1 .. Len(ws) : \A m \in 1 .. ws[i] :
             Body(ws, fs)[at[i] + m] = Bytes(fs[i], ws[i])[m]
    BY <2>4, BodyIs DEF at
  <2>8. Len(Places(ws)) = 2 /\ Body(ws, fs) \in Seq(0 .. 255) /\ Len(Body(ws, fs)) = 2
    BY <2>2, <2>6, <2>7
  <2>9. \A m \in 1 .. 2 : Body(ws, fs)[m] = Bytes(n, 2)[m]
    <3>1. 1 \in 1 .. 1 /\ \A m \in 1 .. 2 : 0 + m = m
      BY SMT
    <3> QED
      BY SMTT(30), <2>2, <2>6, <2>7, <3>1
  <2> QED
    BY <2>1, <2>8, <2>9 DEF ws, fs
<1>6. \A i \in 1 .. n : Bytes(chars[i], 1)[1] = chars[i]
  <2> TAKE i \in 1 .. n
  <2>1. chars[i] \in 0 .. 127
    BY ElementOfSeq
  <2>2. \A c \in 0 .. 127 : c % 256 = c
    BY SMT
  <2>3. 1 \in 1 .. 1 /\ 1 - 1 + 1 = 1
    BY SMT
  <2>4. Bytes(chars[i], 1)[1] = chars[i] % 256
    BY <2>3 DEF Bytes, Shifted
  <2> QED
    BY ZenonT(60), <2>1, <2>2, <2>4
<1>7. Push(Header("text", psize), Places(<<2>>), <<2>>, <<n>>)
        = [data |-> head \o mark, size |-> size, lost |-> FALSE]
  <2> HIDE DEF psize, size, head, n
  <2>1. Push([data |-> head, size |-> size, lost |-> FALSE], Places(<<2>>), <<2>>, <<n>>)
          = [data |-> head \o mark, size |-> size,
             lost |-> FALSE \/ Len(Places(<<2>>)) > size - Len(head)]
    <3> DEFINE front == [data |-> head, size |-> size, lost |-> FALSE]
               ws == <<2>>
               fs == <<n>>
    <3>1. front.data = head /\ front.size = size /\ front.lost = FALSE
      OBVIOUS
    <3> HIDE DEF front, ws, fs
    <3>2. Push(front, Places(ws), ws, fs) = PushedTo(front, ws, fs)
      BY PushIs
    <3>3. mark = Body(ws, fs)
      BY DEF ws, fs
    <3> HIDE DEF mark
    <3>4. Push(front, Places(ws), ws, fs)
            = [data |-> head \o mark, size |-> size,
               lost |-> FALSE \/ Len(Places(ws)) > size - Len(head)]
      BY <3>1, <3>2, <3>3, Zenon DEF PushedTo
    <3> QED
      BY <3>4, Zenon DEF front, ws, fs
  <2>2. ~ (2 > size - 3)
    BY <1>1, SMT
  <2>3. ~ (Len(Places(<<2>>)) > size - Len(head))
    BY <1>3, <1>5, <2>2
  <2> QED
    BY <1>4, <2>1, <2>3
<1> DEFINE u == head \o mark
           pl == [i \in DOMAIN chars |-> <<i, 1>>]
           on == [i \in DOMAIN chars |-> 1]
<1>8. u \in Seq(0 .. 255) /\ Len(u) = 5 /\ \A i \in 1 .. 5 : u[i] = IF i <= 3 THEN head[i] ELSE mark[i - 3]
  <2> HIDE DEF head, mark
  <2>1. Glued(u, head, mark)
    BY <1>3, <1>5, GlueIs
  <2>2. 3 + 2 = 5
    OBVIOUS
  <2> HIDE DEF u
  <2> QED
    BY <1>3, <1>5, <2>1, <2>2 DEF Glued
<1>9. DOMAIN chars = 1 .. n /\ chars \in Seq(0 .. 255) /\ chars = [i \in 1 .. n |-> chars[i]]
  <2>1. DOMAIN chars = 1 .. n /\ chars \in [1 .. n -> 0 .. 127]
    BY ZenonT(60), LenProperties
  <2>2. \A c \in 0 .. 127 : c \in 0 .. 255
    BY SMT
  <2>3. chars \in [1 .. n -> 0 .. 255]
    BY SMTT(30), <2>1, <2>2
  <2>4. chars \in Seq(0 .. 255)
    <3> HIDE DEF n
    <3> QED
      BY <1>1, <2>3, FunctionIsSeq
  <2> QED
    BY <2>1, <2>4
<1>10. [j \in DOMAIN pl |-> LET i == pl[j][1] IN Bytes(chars[i], on[i])[pl[j][2]]] = chars
  <2>1. DOMAIN pl = 1 .. n /\ \A j \in 1 .. n : pl[j] = <<j, 1>> /\ on[j] = 1
    BY <1>9
  <2>2. \A j \in 1 .. n : pl[j][1] = j /\ pl[j][2] = 1
    BY <2>1
  <2> HIDE DEF pl, on
  <2>3. \A j \in 1 .. n : (LET i == pl[j][1] IN Bytes(chars[i], on[i])[pl[j][2]]) = chars[j]
    BY <1>6, <2>1, <2>2
  <2> HIDE DEF n
  <2>4. [j \in 1 .. n |-> LET i == pl[j][1] IN Bytes(chars[i], on[i])[pl[j][2]]]
          = [j \in 1 .. n |-> chars[j]]
    BY <2>3
  <2> QED
    BY <1>9, <2>1, <2>4
<1>11. Len(pl) = n
  <2>1. pl \in [1 .. n -> Nat \X {1}]
    <3>1. \A i \in 1 .. n : <<i, 1>> \in Nat \X {1}
      <4> HIDE DEF n
      <4> QED
        BY <1>1, SMT
    <3>2. pl = [i \in 1 .. n |-> <<i, 1>>]
      BY <1>9, ZenonT(60)
    <3> HIDE DEF pl, n
    <3> QED
      BY <3>1, <3>2, Zenon
  <2> HIDE DEF pl, n
  <2> QED
    BY <1>1, <2>1, FunctionIsSeq
<1>12. b = [data |-> u \o chars, size |-> size, lost |-> FALSE]
  <2> DEFINE c == [data |-> u, size |-> size, lost |-> FALSE]
  <2>1. b = Push(c, pl, on, chars)
    BY <1>7 DEF SerializeText
  <2>2. c.data = u /\ c.size = size /\ c.lost = FALSE
    OBVIOUS
  <2> HIDE DEF c, pl, on, b, u, size
  <2>3. Push(c, pl, on, chars) =
          [data |-> c.data \o [j \in DOMAIN pl |-> LET i == pl[j][1] IN
                                                     Bytes(chars[i], on[i])[pl[j][2]]],
           size |-> c.size,
           lost |-> c.lost \/ Len(pl) > c.size - Len(c.data)]
    BY DEF Push
  <2>4. ~ (n > size - 5)
    <3> HIDE DEF n
    <3> QED
      BY <1>1, SMT
  <2>5. ~ (Len(pl) > c.size - Len(c.data))
    BY <1>8, <1>11, <2>2, <2>4
  <2> QED
    BY <1>10, <2>1, <2>2, <2>3, <2>5
<1> HIDE DEF b
<1> DEFINE data == b.data
<1>13. /\ data \in Seq(0 .. 255) /\ Len(data) = 5 + n
       /\ \A i \in 1 .. 5 + n : data[i] = IF i <= 5 THEN u[i] ELSE chars[i - 5]
  <2>1. data = u \o chars
    BY <1>12
  <2> HIDE DEF u, data
  <2>2. Glued(data, u, chars)
    <3>1. u \in Seq(0 .. 255) /\ chars \in Seq(0 .. 255)
      BY <1>8, <1>9
    <3> QED
      BY <2>1, <3>1, GlueIs
  <2> QED
    BY <1>8, <2>2 DEF Glued
<1>14. b.size = 5 + n /\ b.lost = FALSE
  BY <1>1, <1>12
<1> HIDE DEF data, u, pl, on, head, mark, size
<1>15. /\ \A m \in 1 .. 2 : data[0 + m] = Bytes(3 + psize, 2)[m]
       /\ \A m \in 1 .. 2 : data[3 + m] = Bytes(n, 2)[m]
       /\ \A i \in 1 .. n : data[5 + i] = chars[i]
  <2> HIDE DEF n, psize
  <2>1. \A m \in 1 .. 2 : m \in 1 .. 5 + n /\ m \in 1 .. 5 /\ m <= 5 /\ m <= 3 /\ 0 + m = m
    BY <1>1, SMT
  <2>2. \A m \in 1 .. 2 : data[0 + m] = Bytes(3 + psize, 2)[m]
    BY <1>3, <1>8, <1>13, <2>1
  <2>3. ASSUME NEW m \in 1 .. 2
        PROVE  data[3 + m] = Bytes(n, 2)[m]
    <3> DEFINE k == 3 + m
    <3>1. k \in 1 .. 5 + n /\ k \in 1 .. 5 /\ k <= 5 /\ ~ (k <= 3) /\ k - 3 = m
      BY <1>1, SMT
    <3> HIDE DEF k
    <3>2. data[k] = mark[m]
      BY <1>8, <1>13, <3>1
    <3> QED
      BY <1>5, <3>2 DEF k
  <2>4. ASSUME NEW i \in 1 .. n
        PROVE  data[5 + i] = chars[i]
    <3> DEFINE k == 5 + i
    <3>1. k \in 1 .. 5 + n /\ ~ (k <= 5) /\ k - 5 = i
      BY <1>1, SMT
    <3> HIDE DEF k
    <3>2. data[k] = chars[i]
      BY <1>13, <3>1
    <3> QED
      BY <3>2 DEF k
  <2> QED
    BY <2>2, <2>3, <2>4
<1>16. Value(SubSeq(data, 1, 2)) = 5 + n
  <2> DEFINE k == 3 + psize
             w == 2
             h == 0
  <2>1. k = 5 + n /\ k \in Int /\ k >= - MaxShort - 1 /\ k <= MaxShort
    <3> HIDE DEF n
    <3> QED
      BY <1>1, MaxAre, SMT
  <2>2. k \in Fits(w) /\ w \in {1, 2, 4} /\ h \in Nat
    BY <2>1, InFits
  <2>3. \A m \in 1 .. w : data[h + m] = Bytes(k, w)[m]
    BY <1>15
  <2>4. h + 1 = 1 /\ h + w = 2
    OBVIOUS
  <2> HIDE DEF k, w, h
  <2>5. Value(SubSeq(data, h + 1, h + w)) = k
    BY <2>2, <2>3, ReadIs
  <2> QED
    BY <2>1, <2>4, <2>5
<1>17. Value(SubSeq(data, 4, 5)) = n
  <2> DEFINE w == 2
             h == 3
  <2>1. n \in Fits(w) /\ w \in {1, 2, 4} /\ h \in Nat
    BY <1>5
  <2>2. \A m \in 1 .. w : data[h + m] = Bytes(n, w)[m]
    BY <1>15
  <2>3. h + 1 = 4 /\ h + w = 5
    OBVIOUS
  <2> HIDE DEF w, h, n
  <2>4. Value(SubSeq(data, h + 1, h + w)) = n
    BY <2>1, <2>2, ReadIs
  <2> QED
    BY <2>3, <2>4
<1>18. Exact(b)
  BY <1>13, <1>14, <1>16 DEF Exact, data
<1>19. Cut(data) = data
  BY <1>13, <1>16, CutIs
<1>20. SubSeq(data, 6, 5 + n) = chars
  <2> DEFINE hi == 5 + n
             sub == SubSeq(data, 6, hi)
  <2>1. 6 \in Int /\ hi \in Int /\ hi - 6 + 1 = n /\ (~ (6 <= hi) => n = 0)
    <3> HIDE DEF n
    <3> QED
      BY <1>1, SMT
  <2>2. \A k \in 6 .. hi : data[k] \in 0 .. 255
    <3>1. \A k \in 6 .. hi : k \in 1 .. 5 + n
      <4> HIDE DEF n
      <4> QED
        BY <1>1, SMT
    <3> QED
      BY ZenonT(60), <1>13, <3>1, ElementOfSeq
  <2>3. \A i \in 1 .. n : data[6 + i - 1] = chars[i]
    <3>1. \A i \in 1 .. n : 6 + i - 1 = 5 + i
      BY SMT
    <3> QED
      BY <1>15, <3>1
  <2> HIDE DEF hi, n
  <2>4. /\ sub \in Seq(0 .. 255) /\ Len(sub) = (IF 6 <= hi THEN hi - 6 + 1 ELSE 0)
        /\ \A i \in 1 .. hi - 6 + 1 : sub[i] = data[6 + i - 1]
    BY <2>1, <2>2, SubSeqProperties
  <2> HIDE DEF sub
  <2>5. Len(sub) = n /\ \A i \in 1 .. n : sub[i] = chars[i]
    BY <2>1, <2>3, <2>4
  <2>6. sub = chars
    BY SMTT(30), <1>9, <2>4, <2>5, SeqEqual DEF n
  <2> QED
    BY <2>6 DEF sub, hi
<1>21. PopText(data) = chars
  <2>1. (IF n < 255 THEN n ELSE 255) = n
    <3> HIDE DEF n
    <3> QED
      BY <1>1, SMT
  <2> HIDE DEF n
  <2> QED
    BY <1>17, <1>20, <2>1 DEF PopText
<1> QED
  BY <1>18, <1>19, <1>21 DEF data, b

\* The packets arrive as they were sent, to the server and to the others.
LEMMA PlayerFits == Player \subseteq Fits(4)
BY NumbersAre

LEMMA HandshakeIs ==
    ASSUME NEW p \in Player
    PROVE  Filled("handshake", <<p>>) /\ PlayerId(p) = p
<1> DEFINE ws == <<4>>
           fs == <<p>>
<1>1. p \in Int /\ p \in Fits(4)
  BY NumbersAre
<1>2. /\ ws \in Seq(Widths) /\ Len(ws) = 1 /\ ws[1] = 4
      /\ fs \in Seq(Int) /\ Len(fs) = 1 /\ fs[1] = p
  BY <1>1 DEF Widths
<1>3. \A i \in 1 .. 1 : i = 1
  BY SMT
<1>4. Sized("handshake") /\ Layout["handshake"] = ws
  BY HandshakeSized
<1>5. PlayerId(p) = Deserialize(Cut(Serialize("handshake", fs).data), "handshake", FALSE)[1]
  BY DEF PlayerId
<1> HIDE DEF ws, fs
<1>6. Fitting(Layout["handshake"], fs)
  BY <1>1, <1>2, <1>3, <1>4 DEF Fitting
<1>7. /\ Filled("handshake", fs)
      /\ Deserialize(Cut(Serialize("handshake", fs).data), "handshake", FALSE) = fs
  BY <1>4, <1>6, FilledIs, PlayerFits
<1> QED
  BY <1>2, <1>5, <1>7 DEF fs

LEMMA ArrivedIs ==
    ASSUME NEW e \in Event, e.frame <= MaxInt, e.summon <= MaxInt
    PROVE  Filled("event", EventFields(e)) /\ Arrived(e) = e
<1> DEFINE fs == EventFields(e)
<1>1. Sized("event") /\ Fitting(Layout["event"], fs) /\ EventOf(fs) = e
  BY EventSized, EventFieldsIs
<1>2. Arrived(e) = EventOf(Deserialize(Cut(Serialize("event", fs).data), "event", FALSE))
  BY DEF Arrived
<1> HIDE DEF fs
<1>3. /\ Filled("event", fs)
      /\ Deserialize(Cut(Serialize("event", fs).data), "event", FALSE) = fs
  BY <1>1, FilledIs, PlayerFits
<1> QED
  BY <1>1, <1>2, <1>3 DEF fs

LEMMA ReceivedIs ==
    ASSUME NEW st, Sendable(st)
    PROVE  /\ Filled("state", StateFields(st))
           /\ \A old : Received(st, old) = [st EXCEPT !.deathCount = old]
<1> DEFINE fs == StateFields(st)
<1>1. Sized("state") /\ Fitting(Layout["state"], fs)
  BY StateSized, StateFits
<1>2. \A old : StateOf(fs, old) = [st EXCEPT !.deathCount = old]
  BY StateReadsBack
<1>3. \A old : Received(st, old) =
        StateOf(Deserialize(Cut(Serialize("state", fs).data), "state", FALSE), old)
  BY DEF Received
<1> HIDE DEF fs
<1>4. /\ Filled("state", fs)
      /\ Deserialize(Cut(Serialize("state", fs).data), "state", FALSE) = fs
  BY <1>1, FilledIs, PlayerFits
<1> QED
  BY <1>2, <1>3, <1>4 DEF fs

LEMMA BallFilled == \A b \in Ball : Filled("ball", BallFields(b))
<1> TAKE b \in Ball
<1>1. Sized("ball") /\ Fitting(Layout["ball"], BallFields(b))
  BY BallSized, BallFieldsIs
<1> QED
  BY <1>1, FilledIs, PlayerFits

LEMMA OthersAre == OthersFilled
<1>1. Filled("test1", <<-3, 97>>)
  <2> DEFINE ws == <<4, 1>>
             fs == <<-3, 97>>
  <2>1. -3 \in Int /\ 97 \in Int /\ -3 \in Fits(4) /\ 97 \in Fits(1)
    <3>1. /\ -3 >= - MaxInt - 1 /\ -3 <= MaxInt /\ -3 \in Int
          /\ 97 >= -128 /\ 97 <= 127 /\ 97 \in Int
      BY MaxAre, SMT
    <3> QED
      BY <3>1, InFits
  <2>2. /\ ws \in Seq(Widths) /\ Len(ws) = 2 /\ ws[1] = 4 /\ ws[2] = 1
        /\ fs \in Seq(Int) /\ Len(fs) = 2 /\ fs[1] = -3 /\ fs[2] = 97
    BY <2>1 DEF Widths
  <2>3. \A i \in 1 .. 2 : i = 1 \/ i = 2
    BY SMT
  <2>4. Sized("test1") /\ Layout["test1"] = ws
    BY Test1Sized
  <2> HIDE DEF ws, fs
  <2>5. Fitting(Layout["test1"], fs)
    BY ZenonT(60), <2>1, <2>2, <2>3, <2>4 DEF Fitting
  <2>6. Filled("test1", fs)
    BY <2>4, <2>5, FilledIs, PlayerFits
  <2> QED
    BY <2>6 DEF fs
<1>2. Filled("test2", <<MaxShort + 1, -2>>)
  <2> DEFINE a == MaxShort + 1
             ws == <<4, 2>>
             fs == <<a, -2>>
  <2>1. a \in Int /\ -2 \in Int /\ a \in Fits(4) /\ -2 \in Fits(2)
    <3>1. /\ a >= - MaxInt - 1 /\ a \in Int
          /\ -2 >= - MaxShort - 1 /\ -2 <= MaxShort /\ -2 \in Int
      BY MaxAre, SMT
    <3>2. a <= MaxInt
      BY SMT DEF MaxInt, MaxShort
    <3> HIDE DEF a
    <3> QED
      BY <3>1, <3>2, InFits
  <2> HIDE DEF a
  <2>2. /\ ws \in Seq(Widths) /\ Len(ws) = 2 /\ ws[1] = 4 /\ ws[2] = 2
        /\ fs \in Seq(Int) /\ Len(fs) = 2 /\ fs[1] = a /\ fs[2] = -2
    BY <2>1 DEF Widths
  <2>3. \A i \in 1 .. 2 : i = 1 \/ i = 2
    BY SMT
  <2>4. Sized("test2") /\ Layout["test2"] = ws
    BY Test2Sized
  <2> HIDE DEF ws, fs
  <2>5. Fitting(Layout["test2"], fs)
    BY <2>1, <2>2, <2>3, <2>4 DEF Fitting
  <2>6. Filled("test2", fs)
    BY <2>4, <2>5, FilledIs, PlayerFits
  <2> QED
    BY <2>6 DEF fs, a
<1>3. Filled("connected", <<>>) /\ Filled("disconnected", <<>>)
  <2> DEFINE fs == <<>>
  <2>1. fs \in Seq(Widths) /\ fs \in Seq(Int) /\ Len(fs) = 0 /\ 1 .. 0 = {}
    BY EmptySeq
  <2>2. /\ Sized("connected") /\ Layout["connected"] = fs
        /\ Sized("disconnected") /\ Layout["disconnected"] = fs
    BY ConnectedSized, DisconnectedSized
  <2>3. Fitting(fs, fs)
    BY <2>1 DEF Fitting
  <2> HIDE DEF fs
  <2>4. Fitting(Layout["connected"], fs) /\ Fitting(Layout["disconnected"], fs)
    BY <2>2, <2>3
  <2>5. Filled("connected", fs) /\ Filled("disconnected", fs)
    BY <2>2, <2>4, FilledIs, PlayerFits
  <2> QED
    BY <2>5 DEF fs
<1>4. \A p \in Player : Filled("handshake", <<p>>)
  BY HandshakeIs
<1>5. ASSUME NEW n \in {0, 1, 254, 255}
      PROVE  LET text == [i \in 1 .. n |-> 97 + (i % 26)]
                 b == SerializeText(text) IN
               Exact(b) /\ PopText(Cut(b.data)) = text
  <2> DEFINE text == [i \in 1 .. n |-> 97 + (i % 26)]
  <2>1. n \in Nat /\ n <= 255
    BY SMT
  <2>2. \A i \in 1 .. n : 97 + (i % 26) \in 0 .. 127
    BY SMT
  <2>3. text \in [1 .. n -> 0 .. 127]
    BY <2>2
  <2> HIDE DEF text
  <2>4. text \in Seq(0 .. 127) /\ Len(text) <= 255
    BY <2>1, <2>3, FunctionIsSeq
  <2>5. Exact(SerializeText(text)) /\ PopText(Cut(SerializeText(text).data)) = text
    BY <2>4, TextIs
  <2> QED
    BY <2>5 DEF text
<1> QED
  BY <1>1, <1>2, <1>3, <1>4, <1>5 DEF OthersFilled

-------------------------------------------------------------------------------
(* Scores grow slowly *)

\* No score is above c.
Below(st, c) == \A p \in Player : st.scores[p] <= c

\* A state, whatever is in its fields.
IsState(st) ==
    st = [paused |-> st.paused, frame |-> st.frame, deathCount |-> st.deathCount,
          lie |-> st.lie, scores |-> st.scores, balls |-> st.balls]

LEMMA GameIsState == \A st \in Game : IsState(st) /\ st.scores \in [Player -> Nat]
BY DEF Game, State, IsState

\* A ball that starts anew leaves the scores as they are.
LEMMA DieScores ==
    ASSUME NEW st, IsState(st), NEW i
    PROVE  IsState(Die(st, i)) /\ Die(st, i).scores = st.scores
<1> DEFINE balls == [st.balls EXCEPT ![i] = ResetBall(@, st.deathCount)]
           n == st.deathCount + 1
           placed == [st EXCEPT !.balls = balls]
<1>1. Die(st, i) = [placed EXCEPT !.deathCount = n]
  BY DEF Die
<1> HIDE DEF balls, n
<1>2. /\ placed = [paused |-> st.paused, frame |-> st.frame, deathCount |-> st.deathCount,
                   lie |-> st.lie, scores |-> st.scores, balls |-> balls]
      /\ IsState(placed) /\ placed.scores = st.scores
  BY DEF IsState
<1> HIDE DEF placed
<1>3. /\ IsState([placed EXCEPT !.deathCount = n])
      /\ [placed EXCEPT !.deathCount = n].scores = placed.scores
  BY <1>2 DEF IsState
<1> QED
  BY <1>1, <1>2, <1>3

LEMMA UpdateScores ==
    ASSUME NEW st \in Game, NEW i \in Index, NEW es, NEW c \in Nat, Below(st, c)
    PROVE  Below(Update(st, i, es), c)
<1> DEFINE balls == [st.balls EXCEPT ![i] = Moved(Accelerate(@, es))]
           new == [st EXCEPT !.balls = balls]
           p == st.balls[i].player
           die == Die(new, i)
           s == [st.scores EXCEPT ![p] = IF @ > 0 THEN @ - 1 ELSE 0]
           fined == [die EXCEPT !.scores = s]
<1>1. IsState(st) /\ st.scores \in [Player -> Nat]
  BY GameIsState
<1>2. Update(st, i, es) = IF Inside(new.balls[i]) THEN new
                          ELSE IF p < 0 THEN die
                          ELSE [die EXCEPT !.scores[p] = IF @ > 0 THEN @ - 1 ELSE 0]
  BY <1>1, Zenon DEF Update, IsState
<1> HIDE DEF balls
<1>3. IsState(new) /\ new.scores = st.scores
  BY <1>1 DEF IsState
<1> HIDE DEF new
<1>4. IsState(die) /\ die.scores = st.scores
  BY <1>3, DieScores
<1> HIDE DEF die
<1>5. [die EXCEPT !.scores[p] = IF @ > 0 THEN @ - 1 ELSE 0] = fined
  BY SMTT(30), <1>4 DEF IsState
<1>6. Update(st, i, es) \in {new, die, fined}
  BY <1>2, <1>5
<1>7. \A q \in Player : s[q] <= c
  <2> TAKE q \in Player
  <2>1. st.scores[q] \in Nat /\ st.scores[q] <= c /\ q \in DOMAIN st.scores
    BY <1>1 DEF Below
  <2>2. CASE q = p
    <3>1. s[q] = IF st.scores[q] > 0 THEN st.scores[q] - 1 ELSE 0
      BY <2>1, <2>2
    <3> HIDE DEF s
    <3> QED
      BY <2>1, <3>1, SMT
  <2>3. CASE q # p
    <3>1. s[q] = st.scores[q]
      BY <2>1, <2>3
    <3> QED
      BY <2>1, <3>1
  <2> QED
    BY <2>2, <2>3
<1> HIDE DEF s
<1>8. fined.scores = s
  BY <1>4 DEF IsState
<1> HIDE DEF fined
<1> QED
  BY <1>3, <1>4, <1>6, <1>7, <1>8 DEF Below

LEMMA CollideScores ==
    ASSUME NEW st \in Game, NEW a \in Index, NEW b \in Index, NEW c \in Nat, Below(st, c)
    PROVE  Below(CollideBalls(st, a, b), c + 1)
<1>1. IsState(st) /\ st.scores \in [Player -> Nat]
  BY GameIsState
<1>2. \A q \in Player : st.scores[q] \in Nat /\ st.scores[q] <= c /\ st.scores[q] <= c + 1
                          /\ st.scores[q] + 1 <= c + 1
  <2> TAKE q \in Player
  <2>1. st.scores[q] \in Nat /\ st.scores[q] <= c
    BY <1>1 DEF Below
  <2> QED
    BY <2>1, SMT
<1>3. ASSUME NEW x, NEW y
      PROVE  Below(Kill(st, x, y), c + 1)
  <2> DEFINE p == st.balls[y].player
             s == [st.scores EXCEPT ![p] = @ + 1]
             u == [st EXCEPT !.scores = s]
  <2>1. Kill(st, x, y) = Die(u, x)
    BY <1>1 DEF Kill, IsState
  <2>2. \A q \in Player : s[q] <= c + 1
    <3> TAKE q \in Player
    <3>1. q \in DOMAIN st.scores
      BY <1>1
    <3>2. s[q] = st.scores[q] \/ s[q] = st.scores[q] + 1
      BY <3>1
    <3> HIDE DEF s
    <3> QED
      BY <1>2, <3>2
  <2> HIDE DEF s
  <2>3. IsState(u) /\ u.scores = s
    BY <1>1 DEF IsState
  <2> HIDE DEF u
  <2>4. Die(u, x).scores = s
    BY <2>3, DieScores
  <2> QED
    BY <2>1, <2>2, <2>4 DEF Below
<1>4. Below(Bounce(st, a, b), c + 1)
  <2>1. Bounce(st, a, b).scores = st.scores
    BY BounceIs
  <2> QED
    BY <1>2, <2>1 DEF Below
<1>5. Below(st, c + 1)
  BY <1>2 DEF Below
<1>6. CollideBalls(st, a, b) \in {st, Bounce(st, a, b), Kill(st, b, a), Kill(st, a, b)}
  BY Zenon DEF CollideBalls
<1> QED
  BY <1>3, <1>4, <1>5, <1>6

\* A loop in which no score grows by more than d in a round.
LEMMA Creep ==
    ASSUME NEW n \in Nat, NEW r \in [0 .. n -> Game], NEW c \in Nat, NEW d \in Nat, Below(r[0], c),
           \A k \in 1 .. n : \A x \in Nat : Below(r[k - 1], x) => Below(r[k], x + d)
    PROVE  Below(r[n], c + n * d) /\ c + n * d \in Nat
<1> DEFINE P == {k \in 0 .. n : Below(r[k], c + k * d)}
<1>1. 0 \in P
  <2>1. c + 0 * d = c /\ 0 \in 0 .. n
    BY SMT
  <2> QED
    BY <2>1
<1>2. ASSUME NEW k \in 1 .. n, k - 1 \in P
      PROVE  k \in P
  <2> DEFINE x == c + (k - 1) * d
  <2>1. x \in Nat /\ x + d = c + k * d /\ k \in 0 .. n
    <3>1. k - 1 \in Nat /\ k \in 0 .. n /\ k \in Nat
      BY SMT
    <3>2. \A i, j \in Nat : i * j \in Nat
      BY SMT
    <3>3. (k - 1) * d \in Nat /\ (k - 1) * d + d = k * d
      BY <3>1, <3>2, SMT
    <3> QED
      BY <3>1, <3>3, SMT
  <2>2. Below(r[k - 1], x)
    BY <1>2
  <2> HIDE DEF x
  <2> QED
    BY <2>1, <2>2
<1>3. \A k \in 0 .. n : k \in P
  <2> HIDE DEF P
  <2> QED
    BY <1>1, <1>2, UpTo
<1>4. n \in 0 .. n /\ c + n * d \in Nat
  <2>1. n * d \in Nat
    BY SMT
  <2> QED
    BY <2>1, SMT
<1> QED
  BY <1>3, <1>4

LEMMA MoveScores ==
    ASSUME NEW st \in Game, NEW es \in Seq(Event), Sorted(es), NEW c \in Nat, Below(st, c)
    PROVE  Below(Move(st, es), c)
<1> DEFINE n == Len(Order)
<1>1. n \in Nat /\ \A k \in 1 .. n : Order[k] \in Index /\ k - 1 \in 0 .. n
  BY OrderType, LenProperties, ElementOfSeq
<1>2. PICK r \in [0 .. n -> Game] :
        /\ r[0] = st
        /\ \A k \in 1 .. n : r[k] = Update(r[k - 1], Order[k], es)
        /\ Move(st, es) = r[n]
  BY MoveRounds
<1> HIDE DEF n
<1>3. \A k \in 1 .. n : \A x \in Nat : Below(r[k - 1], x) => Below(r[k], x + 0)
  <2> TAKE k \in 1 .. n
  <2> TAKE x \in Nat
  <2> HAVE Below(r[k - 1], x)
  <2>1. r[k - 1] \in Game /\ Order[k] \in Index /\ r[k] = Update(r[k - 1], Order[k], es)
    BY <1>1, <1>2
  <2>2. Below(r[k], x)
    BY <2>1, UpdateScores
  <2>3. x + 0 = x
    BY SMT
  <2> QED
    BY <2>2, <2>3
<1>4. Below(r[n], c + n * 0)
  <2> DEFINE d == 0
  <2>1. d \in Nat /\ \A k \in 1 .. n : \A x \in Nat : Below(r[k - 1], x) => Below(r[k], x + d)
    BY <1>3
  <2> HIDE DEF d
  <2>2. Below(r[n], c + n * d)
    BY <1>1, <1>2, <2>1, Creep
  <2> QED
    BY <2>2 DEF d
<1>5. c + n * 0 = c
  BY <1>1, SMT
<1> QED
  BY <1>2, <1>4, <1>5

LEMMA BelowMore ==
    ASSUME NEW st \in Game, NEW c \in Nat, NEW d \in Nat, c <= d, Below(st, c)
    PROVE  Below(st, d)
<1>1. \A p \in Player : st.scores[p] \in Nat /\ st.scores[p] <= c
  BY GameIsState DEF Below
<1>2. \A p \in Player : st.scores[p] <= d
  <2> TAKE p \in Player
  <2>1. st.scores[p] \in Nat /\ st.scores[p] <= c
    BY <1>1
  <2> QED
    BY <2>1, SMT
<1> QED
  BY <1>2 DEF Below

LEMMA AgainstScores ==
    ASSUME NEW st \in Game, NEW a \in Index, NEW c \in Nat, Below(st, c)
    PROVE  Below(Against(st, a), c + N_BALLS)
<1> DEFINE w == Others(a)
           n == Len(w)
<1>1. n \in Nat /\ \A k \in 1 .. n : w[k] \in Index /\ k - 1 \in 0 .. n
  BY OthersType, LenProperties, ElementOfSeq
<1>2. PICK r \in [0 .. n -> Game] :
        /\ r[0] = st
        /\ \A k \in 1 .. n : r[k] = CollideBalls(r[k - 1], a, w[k])
        /\ Against(st, a) = r[n]
  BY AgainstRounds
<1>3. n <= N_BALLS /\ N_BALLS \in Nat
  <2>1. N_BALLS \in Nat /\ a \in Nat /\ a + 2 \in Int
    BY Sizes, SMT DEF Index
  <2>2. \A i \in a + 2 .. N_BALLS : Order[i] \in Index
    <3>1. \A i \in a + 2 .. N_BALLS : i \in 1 .. N_BALLS
      BY <2>1, SMT
    <3> QED
      BY <3>1, OrderType, ElementOfSeq
  <2> DEFINE lo == a + 2
             l == N_BALLS
  <2> HIDE DEF lo, n
  <2>3. Len(SubSeq(Order, lo, l)) = (IF lo <= l THEN l - lo + 1 ELSE 0)
    BY <2>1, <2>2, SubSeqProperties DEF lo
  <2>4. n = Len(SubSeq(Order, lo, l))
    BY DEF n, Others, lo
  <2>5. lo = a + 2
    BY DEF lo
  <2> QED
    BY <2>1, <2>3, <2>4, <2>5, SMT
<1> HIDE DEF n, w
<1>4. \A k \in 1 .. n : \A x \in Nat : Below(r[k - 1], x) => Below(r[k], x + 1)
  <2> TAKE k \in 1 .. n
  <2> TAKE x \in Nat
  <2> HAVE Below(r[k - 1], x)
  <2>1. r[k - 1] \in Game /\ w[k] \in Index /\ r[k] = CollideBalls(r[k - 1], a, w[k])
    BY <1>1, <1>2
  <2> QED
    BY <2>1, CollideScores
<1>5. Below(r[n], c + n * 1)
  <2> DEFINE d == 1
  <2>1. d \in Nat /\ \A k \in 1 .. n : \A x \in Nat : Below(r[k - 1], x) => Below(r[k], x + d)
    BY <1>4
  <2> HIDE DEF d
  <2>2. Below(r[n], c + n * d)
    BY <1>1, <1>2, <2>1, Creep
  <2> QED
    BY <2>2 DEF d
<1>6. c + n * 1 = c + n /\ c + n \in Nat /\ c + N_BALLS \in Nat /\ c + n <= c + N_BALLS
  BY <1>1, <1>3, SMT
<1>7. r[n] \in Game
  <2>1. n \in 0 .. n
    BY <1>1, SMT
  <2> QED
    BY <2>1
<1>8. Below(r[n], c + n)
  BY <1>5, <1>6
<1>9. Below(r[n], c + N_BALLS)
  BY <1>6, <1>7, <1>8, BelowMore
<1> QED
  BY <1>2, <1>9

\* In a frame no score grows by more than the number of pairs of balls.
LEMMA AdvanceScores ==
    ASSUME NEW ini \in Game, NEW es \in Seq(Event), NEW c \in Nat, Below(ini, c)
    PROVE  Below(AdvanceState(ini, es), c + Square(N_BALLS))
<1> DEFINE fs == Sort(es)
           j == Connected(ini, fs)
           m == Move(j, fs)
           E == UpToEvent(fs, Len(fs))
           n == Len(Order)
<1>1. fs \in Seq(Event) /\ Sorted(fs)
  BY SortIs
<1>2. AdvanceState(ini, es) = IF j.paused THEN j ELSE Collide(m)
  BY AdvanceIs DEF AdvanceState, Connected, Later
<1> HIDE DEF fs
<1>3. Joins(Later(ini), j, E)
  BY <1>1, LaterType, ConnectSorted DEF Connected
<1> HIDE DEF j
<1>4. j \in Game /\ Below(j, c)
  BY <1>3, LaterType DEF Joins, Below
<1>5. m \in Game /\ Below(m, c)
  BY <1>1, <1>4, MoveIs, MoveScores DEF Onward
<1> HIDE DEF m
<1>6. n \in Nat /\ n = N_BALLS /\ \A k \in 1 .. n : Order[k] \in Index /\ k - 1 \in 0 .. n
  BY OrderType, LenProperties, ElementOfSeq
<1>7. PICK r \in [0 .. n -> Game] :
        /\ r[0] = m
        /\ \A k \in 1 .. n : r[k] = Against(r[k - 1], Order[k])
        /\ Collide(m) = r[n]
  BY <1>5, CollideRounds
<1> HIDE DEF n
<1>8. \A k \in 1 .. n : \A x \in Nat : Below(r[k - 1], x) => Below(r[k], x + N_BALLS)
  <2> TAKE k \in 1 .. n
  <2> TAKE x \in Nat
  <2> HAVE Below(r[k - 1], x)
  <2>1. r[k - 1] \in Game /\ Order[k] \in Index /\ r[k] = Against(r[k - 1], Order[k])
    BY <1>6, <1>7
  <2> QED
    BY <2>1, AgainstScores
<1>9. Below(r[n], c + n * N_BALLS) /\ c + n * N_BALLS \in Nat
  BY <1>5, <1>6, <1>7, <1>8, Creep
<1>10. Below(Collide(m), c + Square(N_BALLS)) /\ c + Square(N_BALLS) \in Nat
  BY <1>6, <1>7, <1>9 DEF Square
<1>11. Below(j, c + Square(N_BALLS))
  <2>1. c <= c + Square(N_BALLS)
    <3>1. Square(N_BALLS) \in Nat
      <4>1. \A i \in Nat : i * i \in Nat
        BY SMT
      <4> QED
        BY <4>1, Sizes DEF Square
    <3> QED
      BY <3>1, SMT
  <2> QED
    BY <1>4, <1>10, <2>1, BelowMore
<1> QED
  BY <1>2, <1>10, <1>11

-------------------------------------------------------------------------------
(* The server and the client *)

LEMMA SetLieType == \A l \in Nat, e \in Event : SetLie(l, e) \in Nat
BY DEF SetLie, Event

LEMMA AddOwnType == \A own \in Seq(Event), e \in Event : AddOwn(own, e) \in Seq(Event)
BY AppendProperties DEF AddOwn

\* The loop that finds the summon frame of the client's last event.
LEMMA LieRounds ==
    ASSUME NEW ini \in Nat, NEW es \in Seq(Event)
    PROVE  \E r \in [0 .. Len(es) -> Nat] :
             /\ r[0] = ini
             /\ \A k \in 1 .. Len(es) : r[k] = SetLie(r[k - 1], es[k])
             /\ FoldLeft(SetLie, ini, es) = r[Len(es)]
<1> DEFINE F == [x \in Nat \X Event |-> SetLie(x[1], x[2])]
<1>1. F \in [Nat \X Event -> Nat]
  BY SetLieType
<1>2. \A x \in Nat, y \in Event : F[<<x, y>>] = SetLie(x, y)
  OBVIOUS
<1> HIDE DEF F
<1>3. /\ DOMAIN es = 1 .. Len(es) /\ Len(es) \in Nat
      /\ \A k \in DOMAIN es : es[k] \in Event
      /\ \A s \in SUBSET (DOMAIN es) : s # {} => Max(s) \in DOMAIN es
  BY LenProperties, ElementOfSeq, MaxIn
<1>4. PICK g \in [SUBSET (DOMAIN es) -> Nat] : IsFold(g, Nat, F, ini, es)
  BY <1>1, FoldExists
<1>5. \A s \in SUBSET (DOMAIN es) : s # {} => g[s] = SetLie(g[s \ {Max(s)}], es[Max(s)])
  <2> TAKE s \in SUBSET (DOMAIN es)
  <2> HAVE s # {}
  <2>1. g[s \ {Max(s)}] \in Nat /\ es[Max(s)] \in Event
    BY <1>3, <1>4
  <2> QED
    BY <1>2, <1>4, <2>1 DEF IsFold
<1>6. g = [s \in SUBSET (DOMAIN es) |->
             IF s = {} THEN ini ELSE SetLie(g[s \ {Max(s)}], es[Max(s)])]
  BY <1>4, <1>5 DEF IsFold
<1>7. PICK h : /\ h = [s \in SUBSET (DOMAIN es) |->
                       IF s = {} THEN ini ELSE SetLie(h[s \ {Max(s)}], es[Max(s)])]
               /\ FoldLeft(SetLie, ini, es) = h[DOMAIN es]
  BY <1>6 DEF FoldLeft, MapThenFoldSet
<1>8. IsFold(h, Nat, F, ini, es)
  <2>1. h[{}] = ini
    BY <1>7
  <2>2. ASSUME NEW s \in SUBSET (DOMAIN es), s # {}, h[s \ {Max(s)}] \in Nat
        PROVE  h[s] = F[<<h[s \ {Max(s)}], es[Max(s)]>>]
    <3>1. h[s] = SetLie(h[s \ {Max(s)}], es[Max(s)])
      BY <1>7, <2>2
    <3>2. es[Max(s)] \in Event
      BY <1>3, <2>2
    <3> QED
      BY <1>2, <2>2, <3>1, <3>2
  <2> QED
    BY <2>1, <2>2 DEF IsFold
<1>9. PICK r : Rounds(r, Nat, F, ini, es, h[DOMAIN es])
  BY <1>1, <1>8, FoldRounds
<1>10. ASSUME NEW k \in 1 .. Len(es)
       PROVE  r[k] = SetLie(r[k - 1], es[k])
  <2>1. k - 1 \in 0 .. Len(es)
    BY <1>3, SMT
  <2>2. r[k - 1] \in Nat /\ es[k] \in Event
    BY <1>3, <1>9, <2>1 DEF Rounds
  <2> QED
    BY <1>2, <1>9, <2>2 DEF Rounds
<1> QED
  BY <1>7, <1>9, <1>10 DEF Rounds

\* The loop that picks the client's own events.
LEMMA OwnRounds ==
    ASSUME NEW es \in Seq(Event)
    PROVE  \E r \in [0 .. Len(es) -> Seq(Event)] :
             /\ r[0] = <<>>
             /\ \A k \in 1 .. Len(es) : r[k] = AddOwn(r[k - 1], es[k])
             /\ FoldLeft(AddOwn, <<>>, es) = r[Len(es)]
<1>0. <<>> \in Seq(Event)
  BY EmptySeq
<1> DEFINE F == [x \in Seq(Event) \X Event |-> AddOwn(x[1], x[2])]
<1>1. F \in [Seq(Event) \X Event -> Seq(Event)]
  BY AddOwnType
<1>2. \A x \in Seq(Event), y \in Event : F[<<x, y>>] = AddOwn(x, y)
  OBVIOUS
<1> HIDE DEF F
<1>3. /\ DOMAIN es = 1 .. Len(es) /\ Len(es) \in Nat
      /\ \A k \in DOMAIN es : es[k] \in Event
      /\ \A s \in SUBSET (DOMAIN es) : s # {} => Max(s) \in DOMAIN es
  BY LenProperties, ElementOfSeq, MaxIn
<1>4. PICK g \in [SUBSET (DOMAIN es) -> Seq(Event)] : IsFold(g, Seq(Event), F, <<>>, es)
  BY <1>0, <1>1, FoldExists
<1>5. \A s \in SUBSET (DOMAIN es) : s # {} => g[s] = AddOwn(g[s \ {Max(s)}], es[Max(s)])
  <2> TAKE s \in SUBSET (DOMAIN es)
  <2> HAVE s # {}
  <2>1. g[s \ {Max(s)}] \in Seq(Event) /\ es[Max(s)] \in Event
    BY <1>3, <1>4
  <2> QED
    BY <1>2, <1>4, <2>1 DEF IsFold
<1>6. g = [s \in SUBSET (DOMAIN es) |->
             IF s = {} THEN <<>> ELSE AddOwn(g[s \ {Max(s)}], es[Max(s)])]
  BY <1>4, <1>5 DEF IsFold
<1>7. PICK h : /\ h = [s \in SUBSET (DOMAIN es) |->
                       IF s = {} THEN <<>> ELSE AddOwn(h[s \ {Max(s)}], es[Max(s)])]
               /\ FoldLeft(AddOwn, <<>>, es) = h[DOMAIN es]
  BY <1>6 DEF FoldLeft, MapThenFoldSet
<1>8. IsFold(h, Seq(Event), F, <<>>, es)
  <2>1. h[{}] = <<>>
    BY <1>7
  <2>2. ASSUME NEW s \in SUBSET (DOMAIN es), s # {}, h[s \ {Max(s)}] \in Seq(Event)
        PROVE  h[s] = F[<<h[s \ {Max(s)}], es[Max(s)]>>]
    <3>1. h[s] = AddOwn(h[s \ {Max(s)}], es[Max(s)])
      BY <1>7, <2>2
    <3>2. es[Max(s)] \in Event
      BY <1>3, <2>2
    <3> QED
      BY <1>2, <2>2, <3>1, <3>2
  <2> QED
    BY <2>1, <2>2 DEF IsFold
<1>9. PICK r : Rounds(r, Seq(Event), F, <<>>, es, h[DOMAIN es])
  BY <1>1, <1>0, <1>8, FoldRounds
<1>10. ASSUME NEW k \in 1 .. Len(es)
       PROVE  r[k] = AddOwn(r[k - 1], es[k])
  <2>1. k - 1 \in 0 .. Len(es)
    BY <1>3, SMT
  <2>2. r[k - 1] \in Seq(Event) /\ es[k] \in Event
    BY <1>3, <1>9, <2>1 DEF Rounds
  <2> QED
    BY <1>2, <1>9, <2>2 DEF Rounds
<1> QED
  BY <1>7, <1>9, <1>10 DEF Rounds

\* The summon frame of the client's last event is that of an event, or as it was.
LEMMA LieType ==
    ASSUME world.lie \in Nat, world.lie <= LastTick, evs \in Seq(Event),
           \A i \in DOMAIN evs : evs[i].summon <= LastTick
    PROVE  Lie \in Nat /\ Lie <= LastTick
<1> DEFINE n == Len(evs)
<1>1. PICK r \in [0 .. Len(evs) -> Nat] :
        /\ r[0] = world.lie
        /\ \A k \in 1 .. Len(evs) : r[k] = SetLie(r[k - 1], evs[k])
        /\ FoldLeft(SetLie, world.lie, evs) = r[Len(evs)]
  BY LieRounds
<1>2. n \in Nat /\ n \in 0 .. n /\ DOMAIN evs = 1 .. n
  BY LenProperties, SMT
<1> DEFINE P == {k \in 0 .. n : r[k] <= LastTick}
<1>3. 0 \in P
  <2>1. 0 \in 0 .. n
    BY <1>2, SMT
  <2> QED
    BY <1>1, <2>1
<1>4. ASSUME NEW k \in 1 .. n, k - 1 \in P
      PROVE  k \in P
  <2>1. r[k] = evs[k].summon \/ r[k] = r[k - 1]
    BY <1>1 DEF SetLie
  <2>2. k \in 0 .. n
    BY <1>2, SMT
  <2>3. r[k - 1] <= LastTick
    BY <1>4
  <2>4. evs[k].summon <= LastTick
    BY <1>2
  <2> QED
    BY <2>1, <2>2, <2>3, <2>4
<1>5. \A k \in 0 .. n : k \in P
  <2> HIDE DEF P
  <2> QED
    BY <1>2, <1>3, <1>4, UpTo
<1>6. r[n] \in Nat /\ r[n] <= LastTick
  BY <1>1, <1>2, <1>5
<1> QED
  BY <1>1, <1>6 DEF Lie

\* The client's own events, which are all events if only it has made any.
LEMMA OwnIs ==
    ASSUME made \in Seq(Event)
    PROVE  /\ Own \in Seq(Event)
           /\ (\A i \in DOMAIN made : made[i].player = Viewer) => Own = made
<1> DEFINE n == Len(made)
           all == \A i \in DOMAIN made : made[i].player = Viewer
<1>1. n \in Nat /\ DOMAIN made = 1 .. n /\ \A k \in 1 .. n : made[k] \in Event
  BY LenProperties, ElementOfSeq
<1>2. PICK r \in [0 .. Len(made) -> Seq(Event)] :
        /\ r[0] = <<>>
        /\ \A k \in 1 .. Len(made) : r[k] = AddOwn(r[k - 1], made[k])
        /\ FoldLeft(AddOwn, <<>>, made) = r[Len(made)]
  BY OwnRounds
<1>3. n \in 0 .. n /\ 0 \in 0 .. n
  BY <1>1, SMT
<1>4. Own \in Seq(Event)
  BY <1>2, <1>3 DEF Own
<1>5. ASSUME all
      PROVE  Own = made
  <2> DEFINE P == {k \in 0 .. n : Len(r[k]) = k /\ \A i \in 1 .. k : r[k][i] = made[i]}
  <2>1. 0 \in P
    <3>1. r[0] = <<>> /\ Len(r[0]) = 0 /\ 1 .. 0 = {}
      BY <1>2
    <3> QED
      BY <1>3, <3>1
  <2>2. ASSUME NEW k \in 1 .. n, k - 1 \in P
        PROVE  k \in P
    <3>1. k \in 0 .. n /\ k - 1 \in 0 .. n /\ k \in Nat
      BY <1>1, SMT
    <3> DEFINE s == r[k - 1]
    <3>2. /\ s \in Seq(Event) /\ made[k] \in Event
          /\ Len(s) = k - 1 /\ \A i \in 1 .. k - 1 : s[i] = made[i]
      BY <1>1, <1>2, <2>2, <3>1
    <3>3. r[k] = Append(s, made[k])
      BY <1>1, <1>2, <1>5 DEF AddOwn
    <3> HIDE DEF s
    <3>4. /\ Len(r[k]) = (k - 1) + 1 /\ r[k][(k - 1) + 1] = made[k]
          /\ \A i \in 1 .. k - 1 : r[k][i] = made[i]
      BY <3>2, <3>3, AppendProperties
    <3>5. (k - 1) + 1 = k
      BY <3>1, SMT
    <3>6. \A i \in 1 .. k : i = k \/ i \in 1 .. k - 1
      BY <3>1, SMT
    <3>7. \A i \in 1 .. k : r[k][i] = made[i]
      BY <3>4, <3>5, <3>6
    <3> QED
      BY <3>1, <3>4, <3>5, <3>7
  <2>3. \A k \in 0 .. n : k \in P
    <3> HIDE DEF P
    <3> QED
      BY <1>1, <2>1, <2>2, UpTo
  <2>4. n \in P
    BY <1>3, <2>3
  <2>5. Len(Own) = Len(made) /\ \A i \in 1 .. Len(Own) : Own[i] = made[i]
    BY <1>2, <2>4 DEF Own
  <2> QED
    BY <1>4, <2>5, SeqEqual
<1> QED
  BY <1>4, <1>5

\* The numbers of a state are as small as its frame makes them.
Small(st) ==
    st.frame <= LastTick /\ st.lie <= LastTick /\ Below(st, st.frame * Square(N_BALLS))

LEMMA SquareType == Square(N_BALLS) \in Nat
<1>1. \A i \in Nat : i * i \in Nat
  BY SMT
<1> QED
  BY <1>1, Sizes DEF Square

\* Such a state can be sent.
LEMMA SmallFits ==
    ASSUME NEW st \in Game, Small(st)
    PROVE  Sendable(st)
<1> DEFINE q == Square(N_BALLS)
           f == st.frame
           m == MaxInt
           l == LastTick
<1>1. q \in Nat /\ f \in Nat /\ l \in Nat /\ m \in Nat /\ LocalLag \in Nat /\ st.lie \in Nat
  BY SquareType, SimulationConstants, MaxAre DEF Game, State
<1>2. l + LocalLag <= m /\ l * q <= m
  BY NumbersFit
<1>3. f <= l /\ st.lie <= l /\ Below(st, f * q)
  BY DEF Small
<1> HIDE DEF q, f, m, l
<1>4. f <= m /\ st.lie <= m
  BY <1>1, <1>2, <1>3, SMT
<1>5. f * q <= m /\ f * q \in Nat
  <2>1. l * q = f * q + (l - f) * q
    BY <1>1, SMT
  <2>2. \A i, j \in Nat : i * j \in Nat
    BY SMT
  <2>3. l - f \in Nat
    BY <1>1, <1>3, SMT
  <2>4. f * q \in Nat /\ (l - f) * q \in Nat
    BY <1>1, <2>2, <2>3
  <2> QED
    BY <1>1, <1>2, <2>1, <2>4, SMT
<1>6. Below(st, m)
  BY <1>1, <1>3, <1>5, BelowMore
<1> QED
  BY <1>4, <1>6 DEF Sendable, Below, f, m

\* The frames of an event are no later than the bounds allow.
Soon(e) == e.frame <= LastTick + LocalLag /\ e.summon <= LastTick

LEMMA SoonFits ==
    ASSUME NEW e \in Event, Soon(e)
    PROVE  e.frame <= MaxInt /\ e.summon <= MaxInt
<1> DEFINE m == MaxInt
<1>1. e.frame \in Nat /\ e.summon \in Nat
  BY DEF Event
<1>2. LastTick \in Nat /\ LocalLag \in Nat /\ m \in Nat /\ LastTick + LocalLag <= m
  BY SimulationConstants, NumbersFit, MaxAre
<1> HIDE DEF m
<1>3. e.frame <= m /\ e.summon <= m
  BY <1>1, <1>2, SMT DEF Soon
<1> QED
  BY <1>3 DEF m

\* The server's state and the client's are states of the game in the same frame, and
\* since the client's last load they have been alike if nothing else has happened; the
\* events have come as they were made; and no number has outgrown the field it is sent
\* in, without which neither would stay so.
SimInv ==
    /\ world \in Game /\ Small(world) /\ world.deathCount >= 0
    /\ view \in Game /\ view.frame = world.frame
    /\ made \in Seq(Event) /\ evs = made
    /\ \A i \in DOMAIN made : Soon(made[i])
    /\ loaded \in Nat /\ loaded <= world.deathCount
    /\ alone \in BOOLEAN
    /\ alone /\ world.deathCount = loaded => Alike(world, view)

LEMMA InitInv == Init => SimInv
<1> SUFFICES ASSUME Init PROVE SimInv
  OBVIOUS
<1>1. /\ world = InitialState /\ view = InitialState /\ made = <<>> /\ evs = <<>>
      /\ loaded = 0 /\ alone = TRUE
  BY DEF Init
<1>2. /\ InitialState \in Game /\ InitialState.frame = 0 /\ InitialState.deathCount = 0
      /\ InitialState.lie = 0 /\ InitialState.scores = [p \in Player |-> 0]
  BY InitialStateType DEF InitialState
<1>3. LastTick \in Nat /\ <<>> \in Seq(Event) /\ DOMAIN made = {}
  BY <1>1, SimulationConstants, EmptySeq
<1> HIDE DEF Init
<1>4. world.frame <= LastTick /\ world.deathCount >= 0 /\ loaded \in Nat /\ loaded <= world.deathCount
  BY <1>1, <1>2, <1>3
<1>5. Small(world)
  <2>1. 0 * Square(N_BALLS) = 0
    BY SquareType, SMT
  <2>2. Below(world, 0)
    BY <1>1, <1>2 DEF Below
  <2> QED
    BY <1>1, <1>2, <1>3, <1>4, <2>1, <2>2 DEF Small
<1> QED
  BY <1>1, <1>2, <1>3, <1>4, <1>5 DEF SimInv, Alike

\* The server's next state.
LEMMA AdvancedIs ==
    ASSUME SimInv, world.frame < LastTick
    PROVE  /\ Advanced \in Game /\ Advanced.frame = world.frame + 1 /\ Small(Advanced)
           /\ Advanced.deathCount >= world.deathCount /\ Advanced.deathCount \in Nat
           /\ Advanced.deathCount = AdvanceState(world, evs).deathCount
           /\ Alike(AdvanceState(world, evs), Advanced)
<1> DEFINE a == AdvanceState(world, evs)
<1>1. /\ world \in Game /\ evs \in Seq(Event) /\ world.lie \in Nat /\ world.frame \in Nat
      /\ world.deathCount \in Int /\ world.deathCount >= 0
  BY DEF SimInv, Game, State
<1>2. a \in Game /\ a.frame = world.frame + 1 /\ a.deathCount >= world.deathCount
  BY <1>1, AdvanceStateType
<1>3. Lie \in Nat /\ Lie <= LastTick
  <2>1. world.lie <= LastTick /\ \A i \in DOMAIN evs : evs[i].summon <= LastTick
    BY DEF SimInv, Small, Soon
  <2> QED
    BY <1>1, <2>1, LieType
<1>4. Advanced = [a EXCEPT !.lie = Lie]
  BY DEF Advanced
<1> HIDE DEF a
<1>5. a \in State /\ a.deathCount \in Int
  BY <1>2 DEF Game, State
<1> DEFINE t == Advanced
<1>6. /\ t \in State /\ t.balls = a.balls /\ t.frame = a.frame /\ t.deathCount = a.deathCount
      /\ t.paused = a.paused /\ t.scores = a.scores /\ t.lie = Lie
  BY <1>3, <1>4, <1>5 DEF State
<1> HIDE DEF t
<1>7. t \in Game /\ Alike(a, t)
  BY <1>2, <1>6 DEF Game, Alike
<1>8. t.deathCount \in Nat /\ t.deathCount >= world.deathCount
  BY <1>1, <1>2, <1>5, <1>6, SMT
<1>9. t.frame = world.frame + 1 /\ t.frame <= LastTick
  <2>1. LastTick \in Nat
    BY SimulationConstants
  <2> QED
    BY <1>1, <1>2, <1>6, <2>1, SMT
<1>10. Below(t, t.frame * Square(N_BALLS))
  <2> DEFINE q == Square(N_BALLS)
             f == world.frame
             c == f * q
  <2>1. q \in Nat /\ f \in Nat /\ Below(world, c)
    BY <1>1, SquareType DEF SimInv, Small
  <2>2. c \in Nat
    <3>1. \A i, j \in Nat : i * j \in Nat
      BY SMT
    <3> QED
      BY <2>1, <3>1
  <2> HIDE DEF c
  <2>3. Below(a, c + q)
    BY <1>1, <2>1, <2>2, AdvanceScores DEF a
  <2>4. c + q = (f + 1) * q
    BY <2>1, SMT DEF c
  <2> QED
    BY <1>6, <1>9, <2>3, <2>4 DEF Below
<1>11. Small(t)
  BY <1>3, <1>6, <1>9, <1>10 DEF Small
<1> QED
  BY <1>6, <1>7, <1>8, <1>9, <1>11 DEF a, t

\* An event that reaches the server is the one that was made.
LEMMA SendKeeps ==
    ASSUME SimInv, NEW p \in Player, Send(p)
    PROVE  SimInv'
<1>1. PICK k \in {<<N_BUTTONS, TRUE>>} \cup (IF Joined(p) THEN Keys ELSE {}) :
        /\ made' = Append(made, Made(p, k[1], k[2]))
        /\ evs' = Append(evs, Arrived(Made(p, k[1], k[2])))
  BY DEF Send
<1>2. UNCHANGED <<world, view, loaded, alone>>
  BY DEF Send
<1>3. k[1] \in 0 .. N_BUTTONS /\ k[2] \in BOOLEAN
  <2>1. N_BUTTONS \in 0 .. N_BUTTONS /\ Button \subseteq 0 .. N_BUTTONS
    BY SMT DEF Button, N_BUTTONS
  <2>2. CASE k = <<N_BUTTONS, TRUE>>
    BY <2>1, <2>2
  <2>3. CASE k \in Keys
    BY <2>1, <2>3, SimulationConstants
  <2> QED
    BY <2>2, <2>3
<1> DEFINE e == Made(p, k[1], k[2])
<1>4. e \in Event /\ e.frame = world.frame + LocalLag /\ e.summon = world.frame
  <2>1. world.frame \in Nat /\ world.frame + LocalLag \in Nat
    BY SMTT(30), SimulationConstants DEF SimInv, Game, State
  <2>2. PlayerId(p) \in Player
    BY HandshakeIs
  <2> QED
    BY <1>3, <2>1, <2>2 DEF Made, Event
<1> HIDE DEF e
<1>5. Soon(e)
  <2>1. world.frame \in Nat /\ LocalLag \in Nat /\ LastTick \in Nat /\ world.frame <= LastTick
    BY SimulationConstants DEF SimInv, Small, Game, State
  <2>2. world.frame + LocalLag <= LastTick + LocalLag
    BY <2>1, SMT
  <2> QED
    BY <1>4, <2>1, <2>2 DEF Soon
<1>6. Arrived(e) = e
  BY <1>4, <1>5, SoonFits, ArrivedIs
<1>7. made' = Append(made, e) /\ evs' = made'
  BY <1>1, <1>6 DEF SimInv, e
<1>8. /\ made \in Seq(Event) /\ Len(made) \in Nat /\ DOMAIN made = 1 .. Len(made)
      /\ \A i \in 1 .. Len(made) : Soon(made[i])
  BY LenProperties DEF SimInv
<1>9. /\ made' \in Seq(Event) /\ Len(made') = Len(made) + 1
      /\ \A i \in 1 .. Len(made) : made'[i] = made[i]
      /\ made'[Len(made) + 1] = e
  BY <1>4, <1>7, <1>8, AppendProperties
<1>10. \A i \in DOMAIN made' : Soon(made'[i])
  <2>1. DOMAIN made' = 1 .. Len(made) + 1
    BY <1>9, LenProperties
  <2>2. \A i \in 1 .. Len(made) + 1 : i \in 1 .. Len(made) \/ i = Len(made) + 1
    BY <1>8, SMT
  <2> QED
    BY <1>5, <1>8, <1>9, <2>1, <2>2
<1> QED
  BY <1>2, <1>7, <1>9, <1>10 DEF SimInv, Alike, Small, Below

\* A state that reaches the client is the server's but for the count of deaths.
LEMMA LoadKeeps ==
    ASSUME SimInv, Load
    PROVE  SimInv'
<1>1. /\ world.frame < LastTick /\ world' = Advanced
      /\ loaded' = Advanced.deathCount /\ alone' = TRUE /\ made' = <<>> /\ evs' = <<>>
  BY DEF Load
<1>2. PICK old \in OldCounts : view' = Received(Advanced, old)
  BY DEF Load
<1>3. /\ world' \in Game /\ Small(Advanced)
      /\ world'.deathCount \in Nat /\ loaded' = world'.deathCount
  BY <1>1, AdvancedIs
<1>4. view' = [world' EXCEPT !.deathCount = old]
  <2>1. Sendable(Advanced)
    BY <1>1, <1>3, SmallFits
  <2> QED
    BY <1>1, <1>2, <2>1, ReceivedIs
<1>5. world' \in State /\ old \in Int
  BY <1>3, SimulationConstants DEF Game
<1> DEFINE w == world'
           v == view'
<1> HIDE DEF w, v
<1>6. /\ v \in State /\ v.balls = w.balls /\ v.frame = w.frame
      /\ v.paused = w.paused /\ v.scores = w.scores
  BY <1>4, <1>5 DEF State, w, v
<1>7. v \in Game /\ Alike(w, v)
  BY <1>3, <1>6 DEF Game, Alike, w
<1>8. <<>> \in Seq(Event) /\ DOMAIN made' = {}
  BY <1>1, EmptySeq
<1>9. w.deathCount >= 0 /\ loaded' \in Nat /\ loaded' <= w.deathCount
  BY <1>3 DEF w
<1>10. Small(world)'
  BY <1>1, <1>3 DEF Small, Below
<1> QED
  BY <1>1, <1>3, <1>6, <1>7, <1>8, <1>9, <1>10 DEF SimInv, Alike, w, v

\* As long as there are only the client's own events, it executes what the server does.
LEMMA PredictKeeps ==
    ASSUME SimInv, Predict
    PROVE  SimInv'
<1> DEFINE a == AdvanceState(world, evs)
           v == AdvanceState(view, Own)
           w == Advanced
<1>1. /\ world.frame < LastTick /\ world' = w /\ view' = v /\ loaded' = loaded
      /\ alone' = (alone /\ \A i \in DOMAIN made : made[i].player = Viewer)
      /\ made' = <<>> /\ evs' = <<>>
  BY DEF Predict
<1>2. /\ w \in Game /\ w.frame = world.frame + 1 /\ Small(w)
      /\ w.deathCount >= world.deathCount /\ w.deathCount \in Nat
      /\ w.deathCount = a.deathCount /\ Alike(a, w)
  BY SMTT(30), <1>1, AdvancedIs
<1>3. /\ world \in Game /\ view \in Game /\ view.frame = world.frame
      /\ evs \in Seq(Event) /\ made \in Seq(Event) /\ evs = made
      /\ world.deathCount \in Int /\ loaded \in Nat /\ loaded <= world.deathCount
      /\ alone \in BOOLEAN /\ (alone /\ world.deathCount = loaded => Alike(world, view))
  BY DEF SimInv, Game, State
<1>4. /\ Own \in Seq(Event)
      /\ (\A i \in DOMAIN made : made[i].player = Viewer) => Own = made
  BY <1>3, OwnIs
<1>5. v \in Game /\ v.frame = view.frame + 1
  BY <1>3, <1>4, AdvanceStateType
<1> HIDE DEF v, w
<1>6. alone' /\ w.deathCount = loaded => Alike(w, v)
  <2> SUFFICES ASSUME alone', w.deathCount = loaded PROVE Alike(w, v)
    OBVIOUS
  <2>1. alone /\ \A i \in DOMAIN made : made[i].player = Viewer
    BY <1>1, Zenon
  <2>2. Own = evs
    BY <1>3, <1>4, <2>1
  <2>3. world.deathCount = loaded /\ a.deathCount = world.deathCount
    BY <1>2, <1>3, SMT
  <2>4. Alike(world, view)
    BY <1>3, <2>1, <2>3
  <2>5. Alike(a, AdvanceState(view, evs))
    BY <1>3, <2>3, <2>4, AdvanceStateType
  <2> QED
    BY <1>2, <2>2, <2>5 DEF Alike, v
<1>7. w.deathCount >= 0 /\ loaded <= w.deathCount /\ v.frame = w.frame
  BY <1>2, <1>3, <1>5, SMT
<1>8. <<>> \in Seq(Event) /\ alone' \in BOOLEAN /\ DOMAIN made' = {}
  BY <1>1, EmptySeq
<1>9. alone' /\ w.deathCount = loaded' => Alike(w, v)
  BY <1>1, <1>6
<1>10. Small(world)'
  BY <1>1, <1>2 DEF Small, Below
<1> QED
  BY <1>1, <1>2, <1>3, <1>5, <1>7, <1>8, <1>9, <1>10 DEF SimInv

LEMMA NextKeeps ==
    ASSUME SimInv, [Next]_vars
    PROVE  SimInv'
<1>1. CASE Load
  BY <1>1, LoadKeeps
<1>2. CASE Predict
  BY <1>2, PredictKeeps
<1>3. CASE \E p \in Player : Send(p)
  BY <1>3, SendKeeps
<1>4. CASE UNCHANGED vars
  BY <1>4 DEF vars, SimInv, Alike, Small, Below
<1> QED
  BY <1>1, <1>2, <1>3, <1>4 DEF Next

LEMMA InvHolds == Spec => []SimInv
<1>1. SimInv /\ [Next]_vars => SimInv'
  BY NextKeeps
<1> QED
  BY InitInv, <1>1, PTL DEF Spec

\* Whatever the players do, the state of the server and that of the client keep their
\* type: no ball leaves the arena or is too fast, and no score falls below 0.
THEOREM TypeCorrect == Spec => []TypeOK
<1>1. SimInv => TypeOK
  <2> SUFFICES ASSUME SimInv PROVE TypeOK
    OBVIOUS
  <2>1. StateOK(world) /\ StateOK(view)
    BY DEF SimInv, StateOK, Small, Game
  <2> QED
    BY <2>1 DEF SimInv, TypeOK
<1> QED
  BY InvHolds, <1>1, PTL

\* At each tick the events that have reached the server work as a set.
THEOREM EventsAreASetHolds == Spec => []EventsAreASet
<1>1. SimInv => EventsAreASet
  BY EventsWorkAsASet DEF SimInv
<1> QED
  BY InvHolds, <1>1, PTL

\* The client, on its own events, computes what the server computes until a ball starts
\* anew: only the count of deaths, which is not sent, can come between them.
THEOREM OnlyResetsDivergeHolds == Spec => []OnlyResetsDiverge
<1>1. SimInv => OnlyResetsDiverge
  <2> SUFFICES ASSUME SimInv, alone, world.deathCount = loaded
               PROVE  [view EXCEPT !.deathCount = 0, !.lie = 0]
                        = [world EXCEPT !.deathCount = 0, !.lie = 0]
    BY DEF OnlyResetsDiverge
  <2>1. world \in State /\ view \in State /\ Alike(world, view)
    BY DEF SimInv, Game
  <2> QED
    BY <2>1 DEF Alike, State
<1> QED
  BY InvHolds, <1>1, PTL

\* Every packet of a game is as long as it says, the server's copy with the id of the
\* sender too, and what is read from it is what was written: events, the ids of the
\* players, and states but for the count of deaths.
THEOREM PacketsIntactHolds == Spec => []PacketsIntact
<1>1. SimInv => PacketsIntact
  <2> SUFFICES ASSUME SimInv PROVE PacketsIntact
    OBVIOUS
  <2>1. /\ Filled("state", StateFields(world))
        /\ \A old : Received(world, old) = [world EXCEPT !.deathCount = old]
    BY SmallFits, ReceivedIs DEF SimInv
  <2>2. \A i \in Index : Filled("ball", BallFields(world.balls[i]))
    <3>1. \A i \in Index : world.balls[i] \in Ball
      BY DEF SimInv, Game, State
    <3> QED
      BY <3>1, BallFilled
  <2>3. \A i \in DOMAIN made : Filled("event", EventFields(made[i]))
    <3> TAKE i \in DOMAIN made
    <3>1. made[i] \in Event /\ Soon(made[i])
      BY LenProperties, ElementOfSeq DEF SimInv
    <3> QED
      BY <3>1, SoonFits, ArrivedIs
  <2>4. PacketsFilled
    BY <2>1, <2>2, <2>3, OthersAre DEF PacketsFilled
  <2>5. \A p \in Player : PlayerId(p) = p
    BY HandshakeIs
  <2> QED
    BY <2>1, <2>4, <2>5 DEF PacketsIntact, SimInv
<1> QED
  BY InvHolds, <1>1, PTL

================================================================================
