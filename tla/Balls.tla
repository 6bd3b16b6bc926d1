--------------------------------- MODULE Balls ---------------------------------
(***************************************************************************)
(* The simulation that all programs share (src/src/balls/balls.c): the     *)
(* state of the game, and the function that advances it by one frame with  *)
(* the events executed in that frame.  Players, balls and buttons are      *)
(* numbered from 0, as in the code, and the state of a button is a         *)
(* Boolean.  _lie is set where a state is sent; initial_state leaves it    *)
(* uninitialised, and nothing reads it before it is set.                   *)
(***************************************************************************)
EXTENDS Integers, SequencesExt

CONSTANTS
    N_BALLS, MAX_PLAYERS, ARENA_SIZE, ACCEL, MAX_SPEED, BALL_RADIOUS

ASSUME BallsConstants ==
    /\ MAX_PLAYERS \in 1 .. N_BALLS /\ N_BALLS \in Nat
    /\ {ARENA_SIZE, ACCEL, MAX_SPEED, BALL_RADIOUS} \subseteq Nat \ {0}

N_BUTTONS == 4   \* a button state; as a button of an event: connect

Index  == 0 .. N_BALLS - 1
Player == 0 .. MAX_PLAYERS - 1
Button == 0 .. N_BUTTONS - 1
Event  == [frame : Nat, summon : Nat, player : Player,
           button : 0 .. N_BUTTONS, pressed : BOOLEAN]

\* Division and remainder of C, which round towards zero.
Quot(a, n) == IF a >= 0 THEN a \div n ELSE - ((- a) \div n)
Rem(a, n)  == a - n * Quot(a, n)

\* The balls are set up on the smallest square grid that holds them all.
legionSize == CHOOSE k \in 0 .. N_BALLS :
                k * k >= N_BALLS /\ \A j \in 0 .. k - 1 : j * j < N_BALLS
GridAt(k) == ((1 + 2 * k) * ARENA_SIZE) \div (2 * legionSize)

InitialState ==
    [paused |-> TRUE, frame |-> 0, deathCount |-> 0, lie |-> 0,
     scores |-> [p \in Player |-> 0],
     balls  |-> [i \in Index |->
                   [x |-> GridAt(i % legionSize), y |-> GridAt(i \div legionSize),
                    vx |-> 0, vy |-> 0, player |-> -1,
                    buttons |-> [r \in Button |-> FALSE]]]]

\* Mutant: presses and releases are not told apart.
Before_NoPressed(a, b) ==
    \/ a.player < b.player
    \/ a.player = b.player /\ a.button < b.button

\* compare_events: presses first, then by player, by button and by frame.
Before(a, b) ==
    \/ a.pressed /\ ~ b.pressed
    \/ /\ a.pressed = b.pressed
       /\ \/ a.player < b.player
          \/ a.player = b.player /\ a.button < b.button
          \/ a.player = b.player /\ a.button = b.button /\ a.frame < b.frame

\* What qsort may return: any order that compare_events does not contradict.
Orders(events) ==
    {s \in SetToSeqs(DOMAIN events) : \A i, j \in DOMAIN s :
       i < j => ~ Before(events[s[j]], events[s[i]])}

Sort(events) ==
    LET s == CHOOSE s \in Orders(events) : TRUE IN [i \in DOMAIN s |-> events[s[i]]]

Connect(st, e) ==
    IF e.button = N_BUTTONS
    THEN [st EXCEPT !.balls[e.player].player = IF e.pressed THEN e.player ELSE -1,
                    !.paused = FALSE]
    ELSE st

\* A ball's button is set by an event of its player.
Press(b, e) ==
    IF e.button \in Button /\ e.player = b.player
    THEN [b EXCEPT !.buttons[e.button] = e.pressed] ELSE b

\* A ball's buttons after the events, in their order.
React(ball, evs) == FoldLeft(Press, ball, evs)

On(b) == IF b THEN ACCEL ELSE 0

\* The dummy AI pushes a ball of nobody back from the borders.
Inwards(p) ==
    (IF p <= ARENA_SIZE \div 5 THEN ACCEL ELSE 0)
      - (IF p >= (4 * ARENA_SIZE) \div 5 THEN ACCEL ELSE 0)

Accelerate(ball, evs) ==
    IF ball.player >= 0
    THEN LET b == React(ball, evs) IN
           [b EXCEPT !.vx = @ + On(b.buttons[0]) - On(b.buttons[2]),
                     !.vy = @ + On(b.buttons[3]) - On(b.buttons[1])]
    ELSE [ball EXCEPT !.vx = @ + Inwards(ball.x), !.vy = @ + Inwards(ball.y)]

Limit(v) == IF v > MAX_SPEED THEN MAX_SPEED
            ELSE IF v < - MAX_SPEED THEN - MAX_SPEED ELSE v

Moved(ball) ==
    LET vx == Limit(ball.vx)
        vy == Limit(ball.vy) IN
      [ball EXCEPT !.vx = vx, !.vy = vy, !.x = @ + vx, !.y = @ + vy]

\* One of nine places in the middle of the arena, chosen by the seed.
ResetBall(ball, seed) ==
    LET s == 11 * seed IN
      [ball EXCEPT !.vx = 0, !.vy = 0,
                   !.x = ((3 + Rem(s, 3)) * ARENA_SIZE) \div 9,
                   !.y = ((3 + Rem(Quot(s, 3), 3)) * ARENA_SIZE) \div 9]

Inside(ball) ==
    ball.x \in 0 .. ARENA_SIZE - 1 /\ ball.y \in 0 .. ARENA_SIZE - 1

Die(st, i) ==
    [st EXCEPT !.balls[i] = ResetBall(@, st.deathCount), !.deathCount = @ + 1]

\* Mutant: a ball that reaches the border stays outside.
Update_NoReset(st, i, evs) ==
    [st EXCEPT !.balls[i] = Moved(Accelerate(@, evs))]

\* A ball that leaves the arena starts anew, at the cost of a point.
Update(st, i, evs) ==
    LET new == [st EXCEPT !.balls[i] = Moved(Accelerate(@, evs))]
        p == st.balls[i].player IN
      IF Inside(new.balls[i]) THEN new
      ELSE IF p < 0 THEN Die(new, i)
      ELSE [Die(new, i) EXCEPT !.scores[p] = IF @ > 0 THEN @ - 1 ELSE 0]

Square(n) == n * n
Speed2(ball) == Square(ball.vx) + Square(ball.vy)

\* A ball that touches another takes over its speed, on each axis on which they do
\* not move apart: the condition is the same for both.
Bounced(A, B) ==
    [A EXCEPT !.vx = IF (B.x - A.x) * (A.vx - B.vx) >= 0 THEN B.vx ELSE @,
              !.vy = IF (B.y - A.y) * (A.vy - B.vy) >= 0 THEN B.vy ELSE @]

\* Two balls touch and one of them is nobody's.
Bounce(st, a, b) ==
    [st EXCEPT !.balls[a] = Bounced(st.balls[a], st.balls[b]),
               !.balls[b] = Bounced(st.balls[b], st.balls[a])]

\* One player's ball is hit by another's: it starts anew, the other scores.
Kill(st, killed, killer) ==
    Die([st EXCEPT !.scores[st.balls[killer].player] = @ + 1], killed)

CollideBalls(st, a, b) ==
    LET A == st.balls[a]
        B == st.balls[b] IN
      IF Square(B.x - A.x) + Square(B.y - A.y) >= 4 * Square(BALL_RADIOUS) THEN st
      ELSE IF A.player < 0 \/ B.player < 0 THEN Bounce(st, a, b)
      ELSE IF Speed2(A) > Speed2(B) THEN Kill(st, b, a) ELSE Kill(st, a, b)

Order == [i \in 1 .. N_BALLS |-> i - 1]

\* What advance_state does with the events in the order they are sorted into.
Advance(ini, evs) ==
    LET joined == FoldLeft(Connect, [ini EXCEPT !.frame = @ + 1], evs)
        moved == FoldLeft(LAMBDA st, i : Update(st, i, evs), joined, Order) IN
      IF joined.paused THEN joined
      ELSE FoldLeft(LAMBDA st, a :
                      FoldLeft(LAMBDA s, b : CollideBalls(s, a, b), st,
                               SubSeq(Order, a + 2, N_BALLS)),
                    moved, Order)

AdvanceState(ini, events) == Advance(ini, Sort(events))

================================================================================
