--------------------------- MODULE FastEventOrdering ---------------------------
(***************************************************************************)
(* The clients of a game with fast event ordering                          *)
(* (src/src/game_fasteventordering.c).                                     *)
(*                                                                         *)
(* Their loop is that of the timewarp clients, with one difference: an     *)
(* event is executed delays[m][p] frames after its summoning, on the       *)
(* client that sent it as on those that receive it, which rewrite its      *)
(* execution frame.  The delays are those of compute_delays, called before *)
(* the game, so large that an event that has waited out its lag is never   *)
(* late; what comes later still is handled as in timewarp, by a rollback.  *)
(***************************************************************************)
EXTENDS Integers, Sequences, DelayTable

CONSTANTS
    N,          \* n_clients
    lags,       \* how long each client holds back the events of each
    Key, Connect, MaxKeys, LastFrame, Horizon  \* as in Timewarp

Client == 0 .. N - 1

\* What compute_delays has written.
delays == Delays(N, lags)

ASSUME FastEventOrderingConstants ==
    /\ N \in 1 .. 8
    /\ lags \in [Client -> [Client -> Nat]]
    /\ Connect \notin Key
    /\ MaxKeys \in Nat
    /\ LastFrame \in Nat \ {0}
    /\ Horizon \in Nat /\ LastFrame < Horizon
    /\ \A m, p \in Client :
         LastFrame + lags[m][p] <= Horizon /\ LastFrame + delays[m][p] <= Horizon

VARIABLES pc, running, frame, minFrame, stat, stateTrace, eventTrace,
          eventBuffer, wire, missed

vars == <<pc, running, frame, minFrame, stat, stateTrace, eventTrace,
          eventBuffer, wire, missed>>

Game == INSTANCE Timewarp WITH Lags <- lags, Delay <- delays

Init == Game!Init

Next == \E c \in Client : Game!Start(c) \/ Game!GameLoop(c)

Spec == Init /\ [][Next]_vars

-------------------------------------------------------------------------------

\* "It is not necessary to apply rollbacks": a state already computed changes
\* only on account of an event that came later than its lag allows.
RollbackOnlyWhenLate ==
    [][\A c \in Client : \A f \in 1 .. frame[c] - 1 :
         stateTrace[c][f]' # stateTrace[c][f] =>
           \E e \in eventBuffer[c][frame[c]] :
             e.summon + lags[c][e.player] < frame[c]]_vars

\* A state as the player sees it: until a player connects the game is paused,
\* and advance_state changes nothing but the number of the frame.
Played(st) ==
    LET started == {i \in DOMAIN st : \E e \in st[i] : e.button = Connect} IN
      IF started = {} THEN <<>> ELSE SubSeq(st, Min(started), Len(st))

\* Clients that have caught up have seen the same game, each with a shift of its
\* own in time, the same for the events of all players.
SameGameShifted ==
    \A c, d \in Client :
      Game!CaughtUp(c) /\ Game!CaughtUp(d) /\ missed[c] = missed[d] =>
        \A f \in 0 .. frame[c] - 1, g \in 0 .. frame[d] - 1 :
          (\E p \in Client : g - f = delays[d][p] - delays[c][p]) =>
            Played(stateTrace[c][f]) = Played(stateTrace[d][g])

================================================================================
