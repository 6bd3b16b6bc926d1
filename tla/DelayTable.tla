------------------------------- MODULE DelayTable -------------------------------
(***************************************************************************)
(* The delays of fast event ordering as a function of the lag matrix, in   *)
(* closed form.  FEODelays shows that the loops of compute_delays return   *)
(* it; FastEventOrdering takes the delays of the game from here.           *)
(***************************************************************************)
EXTENDS Integers, FiniteSetsExt

\* By how much p comes later than the reference, the last of the n clients, on
\* the client where it does so most.
Shift(n, lags, p) ==
    IF p = n - 1 THEN 0
    ELSE Max({-1} \cup {lags[j][p] - lags[j][n - 1] : j \in 0 .. n - 1})

\* Mutant: the difference to the lag is not added to the lag.
Delays_NoAdjust(n, lags) == [m \in 0 .. n - 1 |-> [p \in 0 .. n - 1 |-> lags[m][p]]]

\* Mutant: the receiver's own lag to the reference is left out.
Delays_ShiftOnly(n, lags) ==
    [m \in 0 .. n - 1 |-> [p \in 0 .. n - 1 |-> Shift(n, lags, p)]]

\* How long m waits from the summoning of an event of p to its execution.
Delays(n, lags) ==
    [m \in 0 .. n - 1 |-> [p \in 0 .. n - 1 |-> Shift(n, lags, p) + lags[m][n - 1]]]

================================================================================
