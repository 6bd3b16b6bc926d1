---------------------------- MODULE FEODelaysProofs ----------------------------
(***************************************************************************)
(* Proofs about compute_delays, for every number of clients and every lag  *)
(* matrix, symmetric or not.                                               *)
(***************************************************************************)
EXTENDS FEODelays, TLAPS

\* How far the two inner loops are, and that the first reference is kept.
LoopInv ==
    /\ pRef = N - 1
    /\ pc = "search" \/ pc = "done"
    /\ difs[pRef] = 0
    /\ pI = N \/ pI = pRef => pJ = 0
    /\ pJ = 0 => maxDif = -1

\* The largest difference so far is at least each one looked at, and is one of
\* them or still the initial -1.
MaxInv ==
    /\ \A j \in Client : j < pJ => maxDif >= lags[j][pI] - lags[j][pRef]
    /\ maxDif = -1 \/ \E j \in Client : j < pJ /\ maxDif = lags[j][pI] - lags[j][pRef]

\* A shift found is at least every difference, and is one of them or -1.
DifsInv ==
    \A p \in Client : p < pI \/ pc = "done" =>
      /\ \A j \in Client : difs[p] >= lags[j][p] - lags[j][pRef]
      /\ p = pRef \/ difs[p] = -1 \/ \E j \in Client : difs[p] = lags[j][p] - lags[j][pRef]

\* What is returned is the shift seen from each client.
DoneInv ==
    pc = "done" =>
      \A m, p \in Client : delays[m][p] = difs[p] + lags[m][pRef]

IInv == TypeOK /\ LoopInv /\ MaxInv /\ DifsInv /\ DoneInv

\* The clients are numbers, the last of them the first reference.
LEMMA Clients ==
    /\ N \in Nat \ {0} /\ MaxLag \in Nat /\ N - 1 \in Client
    /\ \A p \in Client : p \in Nat /\ p < N /\ p + 1 \in 0 .. N
    /\ \A p \in 0 .. N : p \in Int /\ (p < N => p \in Client)
BY FEOConstants, SMT DEF FEOConstants, Client

\* A lag is an entry of the matrix, a number between 0 and MaxLag.
LEMMA LagType ==
    ASSUME TypeOK, NEW m \in Client, NEW p \in Client
    PROVE  lags[m][p] \in 0 .. MaxLag /\ lags[m][p] \in Int
BY SMT DEF TypeOK

\* Initially nothing has been compared.
LEMMA InitInv == Init => IInv
<1> SUFFICES ASSUME Init PROVE IInv
  OBVIOUS
<1>1. TypeOK
  BY Clients, SMT DEF Init, TypeOK, NoDifs
<1>2. LoopInv
  BY Clients DEF Init, LoopInv, NoDifs
<1>3. MaxInv
  BY Clients, SMT DEF Init, MaxInv
<1>4. DifsInv /\ DoneInv
  BY Clients, SMT DEF Init, DifsInv, DoneInv
<1> QED
  BY <1>1, <1>2, <1>3, <1>4 DEF IInv

\* The reference is not compared with itself: its shift is 0.
LEMMA SkipRefInv == IInv /\ SkipRef => IInv'
<1> SUFFICES ASSUME IInv, SkipRef PROVE IInv'
  OBVIOUS
<1>1. /\ pI = pRef /\ pI' = pI + 1 /\ pI \in Client /\ pJ = 0 /\ maxDif = -1
      /\ difs[pI] = 0 /\ pc = "search"
  BY Clients DEF IInv, LoopInv, SkipRef
<1>2. TypeOK'
  BY <1>1, Clients DEF IInv, TypeOK, SkipRef
<1>3. LoopInv'
  BY <1>1 DEF IInv, LoopInv, SkipRef
<1>4. MaxInv'
  BY <1>1, Clients, SMT DEF MaxInv, SkipRef
<1>5. DifsInv'
  <2> SUFFICES ASSUME NEW p \in Client, p < pI + 1
      PROVE  /\ \A j \in Client : difs[p] >= lags[j][p] - lags[j][pRef]
             /\ \/ p = pRef \/ difs[p] = -1
                \/ \E j \in Client : difs[p] = lags[j][p] - lags[j][pRef]
    BY <1>1 DEF DifsInv, SkipRef
  <2>1. CASE p < pI
    BY <2>1 DEF IInv, DifsInv
  <2>2. CASE p = pI
    BY <1>1, <2>2, LagType, SMT DEF IInv
  <2> QED
    BY <1>1, <2>1, <2>2, Clients, SMT
<1>6. DoneInv'
  BY <1>1 DEF DoneInv, SkipRef
<1> QED
  BY <1>2, <1>3, <1>4, <1>5, <1>6 DEF IInv

\* A comparison keeps the largest difference.
LEMMA CompareInv == IInv /\ Compare => IInv'
<1> SUFFICES ASSUME IInv, Compare PROVE IInv'
  OBVIOUS
<1> DEFINE dif == lags[pJ][pI] - lags[pJ][pRef]
<1>1. /\ pI \in Client /\ pJ \in Client /\ pI # pRef /\ pRef \in Client
      /\ pc = "search" /\ pJ' = pJ + 1
      /\ maxDif' = IF dif > maxDif THEN dif ELSE maxDif
  BY Clients DEF IInv, TypeOK, LoopInv, Compare
<1>2. \A j \in Client : /\ lags[j][pI] \in 0 .. MaxLag /\ lags[j][pRef] \in 0 .. MaxLag
                        /\ lags[j][pI] - lags[j][pRef] \in Int
  BY <1>1, LagType, SMT DEF IInv
<1>3. maxDif \in -1 .. MaxLag /\ dif \in Int /\ dif <= MaxLag /\ MaxLag \in Nat
  BY <1>1, <1>2, Clients, SMT DEF IInv, TypeOK
<1> HIDE DEF dif
<1>4. TypeOK'
  <2>1. maxDif' \in -1 .. MaxLag
    BY <1>1, <1>3, SMT
  <2> QED
    BY <1>1, <2>1, Clients DEF IInv, TypeOK, Compare
<1>5. LoopInv'
  <2>1. pI # N /\ ~ (pJ + 1 = 0)
    BY <1>1, Clients, SMT
  <2> QED
    BY <1>1, <2>1 DEF IInv, LoopInv, Compare
<1>6. MaxInv'
  <2>1. ASSUME NEW j \in Client, j < pJ + 1
        PROVE  maxDif' >= lags[j][pI] - lags[j][pRef]
    <3>1. CASE j < pJ
      <4>1. maxDif >= lags[j][pI] - lags[j][pRef]
        BY <3>1 DEF IInv, MaxInv
      <4> QED
        BY <1>1, <1>2, <1>3, <4>1, SMT
    <3>2. CASE j = pJ
      BY <1>1, <1>3, <3>2, SMT DEF dif
    <3> QED
      BY <1>1, <2>1, <3>1, <3>2, Clients, SMT
  <2>2. maxDif' = -1 \/ \E j \in Client :
                          j < pJ + 1 /\ maxDif' = lags[j][pI] - lags[j][pRef]
    <3>1. CASE maxDif' = dif
      <4>1. pJ < pJ + 1
        BY <1>1, Clients, SMT
      <4> QED
        BY <1>1, <3>1, <4>1 DEF dif
    <3>2. CASE maxDif' = maxDif
      <4>1. \A j \in Client : j < pJ => j < pJ + 1
        BY <1>1, Clients, SMT
      <4> QED
        BY <3>2, <4>1 DEF IInv, MaxInv
    <3> QED
      BY <1>1, <3>1, <3>2
  <2> QED
    BY <1>1, <2>1, <2>2 DEF MaxInv, Compare
<1>7. DifsInv' /\ DoneInv'
  BY <1>1 DEF IInv, DifsInv, DoneInv, Compare
<1> QED
  BY <1>4, <1>5, <1>6, <1>7 DEF IInv

\* When all have been compared the largest difference is the shift.
LEMMA SetDifInv == IInv /\ SetDif => IInv'
<1> SUFFICES ASSUME IInv, SetDif PROVE IInv'
  OBVIOUS
<1>1. /\ pI \in Client /\ pI # pRef /\ pJ = N /\ pRef \in Client /\ pc = "search"
      /\ pI' = pI + 1 /\ pJ' = 0 /\ maxDif' = -1 /\ maxDif \in -1 .. MaxLag
  BY Clients DEF IInv, TypeOK, LoopInv, SetDif
<1>2. difs'[pI] = maxDif /\ \A p \in Client : p # pI => difs'[p] = difs[p]
  BY <1>1 DEF IInv, TypeOK, SetDif
<1>3. TypeOK'
  <2>1. difs' \in [Client -> -1 .. MaxLag]
    BY <1>1 DEF IInv, TypeOK, SetDif
  <2>2. pI' \in 0 .. N /\ pJ' \in 0 .. N /\ maxDif' \in -1 .. MaxLag
    BY <1>1, Clients, SMT
  <2> QED
    BY <2>1, <2>2 DEF IInv, TypeOK, SetDif
<1>4. LoopInv'
  BY <1>1, <1>2 DEF IInv, LoopInv, SetDif
<1>5. MaxInv'
  BY <1>1, Clients, SMT DEF MaxInv
<1>6. DifsInv'
  <2> SUFFICES ASSUME NEW p \in Client, p < pI + 1
      PROVE  /\ \A j \in Client : difs'[p] >= lags[j][p] - lags[j][pRef]
             /\ \/ p = pRef \/ difs'[p] = -1
                \/ \E j \in Client : difs'[p] = lags[j][p] - lags[j][pRef]
    BY <1>1 DEF DifsInv, SetDif
  <2>1. CASE p < pI
    <3>1. p # pI
      BY <1>1, <2>1, Clients, SMT
    <3> QED
      BY <1>2, <2>1, <3>1 DEF IInv, DifsInv
  <2>2. CASE p = pI
    BY <1>1, <1>2, <2>2, Clients DEF IInv, MaxInv
  <2> QED
    BY <1>1, <2>1, <2>2, Clients, SMT
<1>7. DoneInv'
  BY <1>1 DEF DoneInv, SetDif
<1> QED
  BY <1>3, <1>4, <1>5, <1>6, <1>7 DEF IInv

\* The shift of the reference is 0, so the smallest one is not above 0 and the
\* delays are those that follow from the shifts.
LEMMA JudgeInv == IInv /\ Judge => IInv'
<1> SUFFICES ASSUME IInv, Judge PROVE IInv'
  OBVIOUS
<1>1. /\ pRef \in Client /\ difs[pRef] = 0 /\ pI = N /\ pI' = 0 /\ pJ = 0
      /\ maxDif = -1 /\ pc = "search"
  BY Clients DEF IInv, TypeOK, LoopInv, Judge
<1>2. ~ Rejected
  BY <1>1, SMT DEF Rejected
<1>3. /\ delays' = Adjusted /\ pc' = "done"
      /\ UNCHANGED <<pRef, difs, lags, pJ, maxDif>>
  BY <1>2 DEF Judge
<1>4. \A p, j \in Client : difs[p] >= lags[j][p] - lags[j][pRef]
  BY <1>1, Clients DEF IInv, DifsInv
<1>5. \A m, p \in Client :
        /\ delays'[m][p] = difs[p] + lags[m][pRef]
        /\ difs[p] + lags[m][pRef] \in Nat
  <2> TAKE m, p \in Client
  <2>1. /\ lags[m][p] \in 0 .. MaxLag /\ lags[m][pRef] \in 0 .. MaxLag
        /\ difs[p] \in Int /\ difs[p] >= lags[m][p] - lags[m][pRef]
    BY <1>1, <1>4, LagType, SMT DEF IInv, TypeOK
  <2>2. delays'[m][p] = lags[m][p] + (difs[p] - (lags[m][p] - lags[m][pRef]))
    BY <1>3 DEF Adjusted
  <2> QED
    BY <2>1, <2>2, Clients, SMT
<1>6. TypeOK'
  <2>1. delays' \in [Client -> [Client -> Nat]]
    <3>1. \A m, p \in Client :
            lags[m][p] + (difs[p] - (lags[m][p] - lags[m][pRef])) \in Nat
      <4> TAKE m, p \in Client
      <4>1. /\ lags[m][p] \in 0 .. MaxLag /\ lags[m][pRef] \in 0 .. MaxLag
            /\ difs[p] \in Int /\ difs[p] >= lags[m][p] - lags[m][pRef]
        BY <1>1, <1>4, LagType, SMT DEF IInv, TypeOK
      <4> QED
        BY <4>1, Clients, SMT
    <3> QED
      BY <1>3, <3>1 DEF Adjusted
  <2>2. pI' \in 0 .. N
    BY <1>1, Clients, SMT
  <2> QED
    BY <1>3, <2>1, <2>2 DEF IInv, TypeOK
<1>7. LoopInv'
  BY <1>1, <1>3 DEF IInv, LoopInv
<1>8. MaxInv'
  BY <1>1, <1>3, Clients, SMT DEF MaxInv
<1>9. DifsInv'
  BY <1>1, <1>3, Clients DEF IInv, DifsInv
<1>10. DoneInv'
  BY <1>3, <1>5 DEF DoneInv
<1> QED
  BY <1>6, <1>7, <1>8, <1>9, <1>10 DEF IInv

\* Every step keeps the invariant.
LEMMA NextInv == IInv /\ [Next]_vars => IInv'
<1>1. IInv /\ UNCHANGED vars => IInv'
  BY DEF vars, IInv, TypeOK, LoopInv, MaxInv, DifsInv, DoneInv
<1> QED
  BY <1>1, SkipRefInv, CompareInv, SetDifInv, JudgeInv DEF Next

\* The inductive invariant holds in every reachable state.
THEOREM Invariance == Spec => []IInv
<1> QED BY InitInv, NextInv, PTL DEF Spec

\* Every variable has its type; the delays are natural numbers, so that no event
\* is scheduled before the frame in which it was summoned.
THEOREM Typing == Spec => []TypeOK
<1>1. IInv => TypeOK
  BY DEF IInv
<1> QED BY <1>1, Invariance, PTL

\* The test of min_dif never sends the search on: the algorithm does not fail
\* and its reference is always the last client.
THEOREM LastIsReferenceHolds == Spec => []LastIsReference
<1>1. IInv => LastIsReference
  BY DEF IInv, LoopInv, LastIsReference
<1> QED BY <1>1, Invariance, PTL

\* No client executes an event before its lag is over, for every lag matrix.
THEOREM LagsCoveredHolds == Spec => []LagsCovered
<1>1. IInv => LagsCovered
  <2> SUFFICES ASSUME IInv, pc = "done", NEW m \in Client, NEW p \in Client
      PROVE  delays[m][p] >= lags[m][p]
    BY DEF LagsCovered
  <2>1. /\ delays[m][p] = difs[p] + lags[m][pRef]
        /\ difs[p] >= lags[m][p] - lags[m][pRef]
    BY DEF IInv, DoneInv, DifsInv
  <2>2. /\ lags[m][p] \in Int /\ lags[m][pRef] \in Int /\ difs[p] \in Int
        /\ delays[m][p] \in Int
    BY LagType, Clients, SMT DEF IInv, TypeOK, LoopInv
  <2> QED
    BY <2>1, <2>2, SMT
<1> QED BY <1>1, Invariance, PTL

\* The delays are perceptively consistent, for every lag matrix.
THEOREM PerceptiveHolds == Spec => []Perceptive
<1>1. IInv => Perceptive
  <2> SUFFICES ASSUME IInv, pc = "done", NEW m \in Client, NEW n \in Client,
                      NEW p \in Client, NEW q \in Client
      PROVE  delays[m][p] - delays[m][q] = delays[n][p] - delays[n][q]
    BY DEF Perceptive
  <2>1. /\ delays[m][p] = difs[p] + lags[m][pRef]
        /\ delays[m][q] = difs[q] + lags[m][pRef]
        /\ delays[n][p] = difs[p] + lags[n][pRef]
        /\ delays[n][q] = difs[q] + lags[n][pRef]
    BY DEF IInv, DoneInv
  <2>2. /\ lags[m][pRef] \in Int /\ lags[n][pRef] \in Int
        /\ difs[p] \in Int /\ difs[q] \in Int
    BY LagType, Clients, SMT DEF IInv, TypeOK, LoopInv
  <2> QED
    BY <2>1, <2>2, SMT
<1> QED BY <1>1, Invariance, PTL

\* No delay is longer than it has to be, for every lag matrix in which the
\* reference has no lag to itself.
THEOREM TightHolds == Spec => []Tight
<1>1. IInv => Tight
  <2> SUFFICES ASSUME IInv, pc = "done", lags[pRef][pRef] = 0, NEW p \in Client
      PROVE  \E m \in Client : delays[m][p] = lags[m][p]
    BY DEF Tight
  <2>1. pRef \in Client /\ difs[pRef] = 0
    BY Clients DEF IInv, LoopInv
  <2>2. \A m \in Client : /\ delays[m][p] = difs[p] + lags[m][pRef]
                          /\ lags[m][p] \in 0 .. MaxLag /\ lags[m][pRef] \in 0 .. MaxLag
    BY <2>1, LagType DEF IInv, DoneInv
  <2>3. difs[p] \in Int /\ difs[p] >= lags[pRef][p]
    BY <2>1, <2>2, Clients, SMT DEF IInv, TypeOK, DifsInv
  <2>4. CASE p = pRef
    BY <2>1, <2>2, <2>4, SMT
  <2>5. CASE p # pRef
    <3>1. difs[p] # -1
      BY <2>1, <2>2, <2>3, Clients, SMT
    <3>2. PICK j \in Client : difs[p] = lags[j][p] - lags[j][pRef]
      BY <2>5, <3>1 DEF IInv, DifsInv
    <3>3. delays[j][p] = lags[j][p]
      BY <2>2, <3>2, SMT
    <3> QED
      BY <3>3
  <2> QED
    BY <2>4, <2>5
<1> QED BY <1>1, Invariance, PTL

\* compute_delays returns the closed form, for every lag matrix.
THEOREM ComputedHolds == Spec => []Computed
<1>1. IInv => Computed
  <2> SUFFICES ASSUME IInv, pc = "done"
      PROVE  delays = Delays(N, lags)
    BY DEF Computed
  <2>1. pRef = N - 1 /\ pRef \in Client /\ difs[pRef] = 0
    BY Clients DEF IInv, LoopInv
  <2>2. ASSUME NEW p \in Client
        PROVE  difs[p] = Shift(N, lags, p)
    <3>1. CASE p = pRef
      BY <2>1, <3>1 DEF Shift
    <3>2. CASE p # pRef
      <4> DEFINE S == {-1} \cup {lags[j][p] - lags[j][N - 1] : j \in Client}
      <4>1. difs[p] \in S
        BY <2>1, <3>2 DEF IInv, DifsInv
      <4>2. S \subseteq Int
        BY <2>1, LagType, SMT DEF IInv
      <4>3. difs[p] \in -1 .. MaxLag
        BY DEF IInv, TypeOK
      <4>4. \A x \in S : difs[p] >= x
        <5>1. difs[p] >= -1
          BY <4>3, Clients, SMT
        <5>2. \A j \in Client : difs[p] >= lags[j][p] - lags[j][N - 1]
          BY <2>1 DEF IInv, DifsInv
        <5> QED
          BY <5>1, <5>2
      <4>5. Shift(N, lags, p) = Max(S)
        BY <2>1, <3>2 DEF Shift, Client
      <4> HIDE DEF S
      <4>6. Max(S) \in S /\ Max(S) >= difs[p] /\ difs[p] >= Max(S)
        BY <4>1, <4>4 DEF Max
      <4>7. difs[p] \in Int /\ Max(S) \in Int
        BY <4>1, <4>2, <4>6
      <4> QED
        BY <4>5, <4>6, <4>7, SMT
    <3> QED
      BY <3>1, <3>2
  <2>3. \A m, p \in Client : delays[m][p] = Shift(N, lags, p) + lags[m][N - 1]
    BY <2>1, <2>2 DEF IInv, DoneInv
  <2>4. delays = [m \in Client |-> [p \in Client |-> delays[m][p]]]
    BY DEF IInv, TypeOK
  <2> QED
    BY <2>3, <2>4 DEF Delays, Client
<1> QED BY <1>1, Invariance, PTL

================================================================================
