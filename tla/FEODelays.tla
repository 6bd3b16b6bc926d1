------------------------------- MODULE FEODelays -------------------------------
(***************************************************************************)
(* compute_delays, by which every client of fast event ordering computes,  *)
(* before the game, how long after its summoning each client executes the  *)
(* events of each player (src/src/game_fasteventordering.c).               *)
(*                                                                         *)
(* lags[m][p] is how long the events of p take to m, delays[m][p] how long *)
(* m waits with them.  A reference client is searched for from the last on *)
(* down, and difs[p] is by how much p has to be shifted against it.  The   *)
(* lag matrix, a constant of the source, is whatever Init chooses.         *)
(***************************************************************************)
EXTENDS Integers, DelayTable

CONSTANTS
    N,      \* n_clients
    MaxLag  \* bound: of the entries of the matrix

ASSUME FEOConstants == N \in 1 .. 8 /\ MaxLag \in Nat

Client == 0 .. N - 1

VARIABLES
    lags,
    pRef,    \* the reference tried, p_ref
    pI,      \* the client being shifted, p_i
    pJ,      \* the client it is looked at from, p_j
    maxDif,
    difs,
    delays,
    pc       \* "search", then what compute_delays returns: "done" or "failed"

vars == <<lags, pRef, pI, pJ, maxDif, difs, delays, pc>>

NoDifs == [p \in Client |-> 0]

Init ==
    /\ lags \in [Client -> [Client -> 0 .. MaxLag]]
    /\ pRef = N - 1
    /\ pI = 0
    /\ pJ = 0
    /\ maxDif = -1
    /\ difs = NoDifs
    /\ delays = [m \in Client |-> [p \in Client |-> 0]]
    /\ pc = "search"

SkipRef ==
    /\ pc = "search"
    /\ pI = pRef
    /\ pI' = pI + 1
    /\ UNCHANGED <<lags, pRef, pJ, maxDif, difs, delays, pc>>

\* Mutant: the last difference is kept, not the largest.
Compare_Last ==
    /\ pc = "search"
    /\ pI < N /\ pI # pRef
    /\ pJ < N
    /\ maxDif' = lags[pJ][pI] - lags[pJ][pRef]
    /\ pJ' = pJ + 1
    /\ UNCHANGED <<lags, pRef, pI, difs, delays, pc>>

Compare ==
    /\ pc = "search"
    /\ pI < N /\ pI # pRef
    /\ pJ < N
    /\ LET dif == lags[pJ][pI] - lags[pJ][pRef] IN
         maxDif' = IF dif > maxDif THEN dif ELSE maxDif
    /\ pJ' = pJ + 1
    /\ UNCHANGED <<lags, pRef, pI, difs, delays, pc>>

\* Mutant: the largest difference of a client is carried over to the next.
SetDif_NoReset ==
    /\ pc = "search"
    /\ pI < N /\ pI # pRef
    /\ pJ = N
    /\ difs' = [difs EXCEPT ![pI] = maxDif]
    /\ pI' = pI + 1
    /\ pJ' = 0
    /\ UNCHANGED <<lags, pRef, maxDif, delays, pc>>

SetDif ==
    /\ pc = "search"
    /\ pI < N /\ pI # pRef
    /\ pJ = N
    /\ difs' = [difs EXCEPT ![pI] = maxDif]
    /\ pI' = pI + 1
    /\ pJ' = 0
    /\ maxDif' = -1
    /\ UNCHANGED <<lags, pRef, delays, pc>>

\* Mutant: the client's own shift against the reference is forgotten.
Adjusted_NoShift ==
    [m \in Client |-> [p \in Client |-> lags[m][p] + difs[p]]]

\* Mutant: the lag to the reference is taken off, not added.
Adjusted_Sign ==
    [m \in Client |-> [p \in Client |-> difs[p] - lags[m][pRef]]]

\* The delays that follow from the shifts: the lag and an adjustment to it.
Adjusted ==
    [m \in Client |-> [p \in Client |->
       lags[m][p] + (difs[p] - (lags[m][p] - lags[m][pRef]))]]

\* Mutant: a smallest shift of 0 is not good enough.
Rejected_Zero == \A p \in Client : difs[p] >= 0

\* The smallest shift is above 0: the loop goes on to the next reference.
Rejected == \A p \in Client : difs[p] > 0

Judge ==
    /\ pc = "search"
    /\ pI = N
    /\ pI' = 0
    /\ IF Rejected
         THEN /\ pRef' = pRef - 1
              /\ difs' = NoDifs
              /\ pc' = IF pRef = 0 THEN "failed" ELSE "search"
              /\ UNCHANGED delays
         ELSE /\ delays' = Adjusted
              /\ pc' = "done"
              /\ UNCHANGED <<pRef, difs>>
    /\ UNCHANGED <<lags, pJ, maxDif>>

Next == SkipRef \/ Compare \/ SetDif \/ Judge

Spec == Init /\ [][Next]_vars

-------------------------------------------------------------------------------

TypeOK ==
    /\ lags \in [Client -> [Client -> 0 .. MaxLag]]
    /\ pRef \in -1 .. N - 1
    /\ pI \in 0 .. N
    /\ pJ \in 0 .. N
    /\ maxDif \in -1 .. MaxLag
    /\ difs \in [Client -> -1 .. MaxLag]
    /\ delays \in [Client -> [Client -> Nat]]
    /\ pc \in {"search", "done", "failed"}

\* The search is over with its first candidate, whatever the matrix: the last
\* client is the reference.
LastIsReference == pRef = N - 1 /\ pc # "failed"

\* "Delays large enough that no rollback is needed": no client executes an
\* event before it can have arrived.
LagsCovered ==
    pc = "done" => \A m, p \in Client : delays[m][p] >= lags[m][p]

\* Perceptive consistency, as far as it is simultaneity: the clients see the same
\* game, each shifted by a time of its own, since between the events of two players
\* as much time passes on every client.
Perceptive ==
    pc = "done" =>
      \A m, n, p, q \in Client :
        delays[m][p] - delays[m][q] = delays[n][p] - delays[n][q]

\* "The delays are minimised": every player's events are executed without any
\* waiting on some client, if a client's lag to itself is 0.
Tight ==
    pc = "done" /\ lags[pRef][pRef] = 0 =>
      \A p \in Client : \E m \in Client : delays[m][p] = lags[m][p]

\* What the loops compute is the closed form from which the game's model takes
\* its delays.
Computed == pc = "done" => delays = Delays(N, lags)

===============================================================================
