------------------------- MODULE DecisionGateProofs -------------------------
(***************************************************************************)
(* Proofs about the decision gate, for every margin, every confirm streak, *)
(* every cooldown and every set of probability vectors.                    *)
(***************************************************************************)
EXTENDS DecisionGate, TLAPS

-----------------------------------------------------------------------------
(***************************************************************************)
(* argmax.                                                                 *)
(***************************************************************************)
\* "i is the first index of S with the largest probability".
IsFirstMax(probs, S, i) ==
    \A j \in S : probs[j] < probs[i] \/ (probs[j] = probs[i] /\ i <= j)

\* The scan of argmax over all four actions finds the first largest one.
LEMMA TopIsFirstMax ==
    ASSUME NEW probs \in [Actions -> Nat]
    PROVE  /\ Top(probs) \in Actions
           /\ IsFirstMax(probs, Actions, Top(probs))
<1>1. \E i \in Actions : IsFirstMax(probs, Actions, i)
  <2>. DEFINE a == probs[0]  b == probs[1]  c == probs[2]  d == probs[3]
  <2>1. a \in Nat /\ b \in Nat /\ c \in Nat /\ d \in Nat
    BY DEF Actions
  <2>2. \A j \in Actions : j = 0 \/ j = 1 \/ j = 2 \/ j = 3
    BY DEF Actions
  <2>3. CASE a >= b /\ a >= c /\ a >= d
    <3>1. IsFirstMax(probs, Actions, 0)
      BY <2>1, <2>2, <2>3 DEF IsFirstMax
    <3>. QED  BY <3>1 DEF Actions
  <2>4. CASE b > a /\ b >= c /\ b >= d
    <3>1. IsFirstMax(probs, Actions, 1)
      BY <2>1, <2>2, <2>4 DEF IsFirstMax
    <3>. QED  BY <3>1 DEF Actions
  <2>5. CASE c > a /\ c > b /\ c >= d
    <3>1. IsFirstMax(probs, Actions, 2)
      BY <2>1, <2>2, <2>5 DEF IsFirstMax
    <3>. QED  BY <3>1 DEF Actions
  <2>6. CASE d > a /\ d > b /\ d > c
    <3>1. IsFirstMax(probs, Actions, 3)
      BY <2>1, <2>2, <2>6 DEF IsFirstMax
    <3>. QED  BY <3>1 DEF Actions
  <2>. QED  BY <2>1, <2>3, <2>4, <2>5, <2>6
<1>. QED  BY <1>1 DEF Top, argmax, IsFirstMax

\* The same over the KEMs alone, which is what a rekey escalates to.
LEMMA BestKemIsKem ==
    ASSUME NEW probs \in [Actions -> Nat]
    PROVE  argmax(probs, Kems) \in Kems
<1>1. \E i \in Kems : IsFirstMax(probs, Kems, i)
  <2>. DEFINE a == probs[0]  b == probs[1]  c == probs[2]
  <2>1. a \in Nat /\ b \in Nat /\ c \in Nat
    BY DEF Actions
  <2>2. \A j \in Kems : j = 0 \/ j = 1 \/ j = 2
    BY DEF Kems
  <2>3. CASE a >= b /\ a >= c
    <3>1. IsFirstMax(probs, Kems, 0)
      BY <2>1, <2>2, <2>3 DEF IsFirstMax
    <3>. QED  BY <3>1 DEF Kems
  <2>4. CASE b > a /\ b >= c
    <3>1. IsFirstMax(probs, Kems, 1)
      BY <2>1, <2>2, <2>4 DEF IsFirstMax
    <3>. QED  BY <3>1 DEF Kems
  <2>5. CASE c > a /\ c > b
    <3>1. IsFirstMax(probs, Kems, 2)
      BY <2>1, <2>2, <2>5 DEF IsFirstMax
    <3>. QED  BY <3>1 DEF Kems
  <2>. QED  BY <2>1, <2>3, <2>4, <2>5
<1>. QED  BY <1>1 DEF argmax, IsFirstMax

\* A KEM leads, in the observer's sense, exactly when it is the top action and
\* the gate counts the tick towards a streak.
LEMMA LeadsIsExtends ==
    ASSUME NEW probs \in [Actions -> Nat], in_force \in Kems, NEW k \in Kems
    PROVE  Leads(probs, k) <=> (extends_streak(probs) /\ Top(probs) = k)
<1>. DEFINE t == Top(probs)
<1>1. t \in Actions /\ IsFirstMax(probs, Actions, t)
  BY TopIsFirstMax
<1>2. k \in Actions /\ in_force \in Actions /\ Kems \subseteq Actions
  BY DEF Actions, Kems
<1>3. probs[k] \in Nat /\ probs[in_force] \in Nat /\ probs[t] \in Nat
  BY <1>1, <1>2
<1>4. ASSUME Leads(probs, k)  PROVE t = k
  <2>. SUFFICES ASSUME t # k PROVE FALSE
    OBVIOUS
  <2>1. probs[t] < probs[k] \/ (probs[t] = probs[k] /\ k < t)
    BY <1>1, <1>4 DEF Leads
  <2>2. probs[k] < probs[t] \/ (probs[k] = probs[t] /\ t <= k)
    BY <1>1, <1>2 DEF IsFirstMax
  <2>. QED  BY <1>1, <1>3, <2>1, <2>2 DEF Actions, Kems
<1>5. ASSUME Leads(probs, k)  PROVE extends_streak(probs)
  <2>1. t = k /\ probs[k] >= probs[in_force] + MIN_MARGIN
    BY <1>4, <1>5 DEF Leads
  <2>. HIDE DEF t
  <2>2. k # in_force /\ k # REKEY_ACTION_INDEX
    BY <1>3, <2>1, MarginAssumption DEF Kems, REKEY_ACTION_INDEX
  <2>. QED  BY <1>3, <2>1, <2>2, MarginAssumption DEF extends_streak, t
<1>6. ASSUME extends_streak(probs), t = k  PROVE Leads(probs, k)
  <2>1. probs[k] >= probs[in_force] + MIN_MARGIN
    BY <1>3, <1>6, MarginAssumption DEF extends_streak
  <2>2. ASSUME NEW j \in Actions \ {k}
        PROVE  probs[j] < probs[k] \/ (probs[j] = probs[k] /\ k < j)
    BY <1>1, <1>6, <2>2 DEF IsFirstMax, Actions
  <2>. QED  BY <2>1, <2>2 DEF Leads
<1>. QED  BY <1>4, <1>5, <1>6

-----------------------------------------------------------------------------
(***************************************************************************)
(* The counters and the observer.                                          *)
(***************************************************************************)
USE DEF Kems, None

\* A tick either extends the streak of one challenger, the only KEM that
\* leads, or clears it, and then no KEM leads.
LEMMA TickCounts ==
    ASSUME GateInv, NEW probs \in Probs, Observe(probs)
    PROVE  /\ ~extends_streak(probs) =>
                 /\ StreakNow(probs) = <<None, 0>>
                 /\ wins' = [k \in Kems |-> 0]
           /\ extends_streak(probs) =>
                 /\ Top(probs) \in Kems \ {in_force}
                 /\ StreakNow(probs)[1] = Top(probs)
                 /\ StreakNow(probs)[2] \in 1..CONFIRM_TICKS
                 /\ wins' = [k \in Kems |-> IF k = Top(probs)
                                           THEN StreakNow(probs)[2] ELSE 0]
<1>. DEFINE t == Top(probs)
<1>0. probs \in [Actions -> Nat]
  BY ProbsAssumption
<1>1. in_force \in Kems /\ CONFIRM_TICKS \in Nat \ {0}
  BY TicksAssumption DEF GateInv, TypeOK
<1>2. \A k \in Kems : Leads(probs, k) <=> (extends_streak(probs) /\ t = k)
  BY <1>0, <1>1, LeadsIsExtends
<1>3. t \in Actions
  BY <1>0, TopIsFirstMax
<1>4. CASE ~extends_streak(probs)
  <2>1. wins' = [k \in Kems |-> 0]
    BY <1>2, <1>4 DEF Observe
  <2>. QED  BY <1>4, <2>1 DEF StreakNow
<1>5. CASE extends_streak(probs)
  <2>1. t \in Kems \ {in_force}
    BY <1>3, <1>5 DEF extends_streak, Actions, REKEY_ACTION_INDEX
  <2>2. wins' = [k \in Kems |-> IF k = t THEN AtMost(wins[k] + 1, CONFIRM_TICKS) ELSE 0]
    BY <1>2, <1>5 DEF Observe
  <2>3. CASE candidate = t
    <3>1. StreakNow(probs) = <<t, streak + 1>>
      BY <1>5, <2>3 DEF StreakNow
    <3>2. streak \in 0..(CONFIRM_TICKS - 1) /\ wins[t] = streak
      BY <2>1, <2>3 DEF GateInv, TypeOK, StreakCountsWins
    <3>3. AtMost(wins[t] + 1, CONFIRM_TICKS) = streak + 1
      BY <1>1, <3>2 DEF AtMost
    <3>. QED  BY <1>1, <1>5, <2>1, <2>2, <3>1, <3>2, <3>3
  <2>4. CASE candidate # t
    <3>1. StreakNow(probs) = <<t, 1>>
      BY <1>5, <2>4 DEF StreakNow
    <3>2. wins[t] = 0
      BY <2>1, <2>4 DEF GateInv, StreakCountsWins
    <3>3. AtMost(wins[t] + 1, CONFIRM_TICKS) = 1
      BY <1>1, <3>2 DEF AtMost
    <3>. QED  BY <1>1, <1>5, <2>1, <2>2, <3>1, <3>3
  <2>. QED  BY <2>3, <2>4
<1>. QED  BY <1>4, <1>5

\* After the tick is counted down, what is left of the cooldown is what the
\* observer of the rekeys expects.
LEMMA TickCoolsDown ==
    ASSUME GateInv, NEW probs \in Probs, Observe(probs)
    PROVE  /\ quiet' \in 0..REKEY_COOLDOWN_TICKS
           /\ saturating_dec(rekey_blocked_for) = REKEY_COOLDOWN_TICKS - quiet'
<1>1. /\ quiet \in 0..REKEY_COOLDOWN_TICKS
      /\ rekey_blocked_for \in 0..REKEY_COOLDOWN_TICKS
      /\ REKEY_COOLDOWN_TICKS \in Nat \ {0}
  BY TicksAssumption DEF GateInv, TypeOK
<1>2. CASE decision.rekey
  <2>1. quiet' = 1 /\ rekey_blocked_for = REKEY_COOLDOWN_TICKS
    BY <1>2 DEF Observe, GateInv, CooldownCountsDown
  <2>. QED  BY <1>1, <2>1 DEF saturating_dec
<1>3. CASE ~decision.rekey
  <2>1. /\ quiet' = AtMost(quiet + 1, REKEY_COOLDOWN_TICKS)
        /\ rekey_blocked_for = REKEY_COOLDOWN_TICKS - quiet
    BY <1>3 DEF Observe, GateInv, CooldownCountsDown
  <2>. QED  BY <1>1, <2>1 DEF saturating_dec, AtMost
<1>. QED  BY <1>2, <1>3

\* A new gate is in the state its observer expects.
LEMMA GateInvInit == Init => GateInv
<1>. SUFFICES ASSUME Init  PROVE GateInv
  OBVIOUS
<1>1. CONFIRM_TICKS \in Nat \ {0} /\ REKEY_COOLDOWN_TICKS \in Nat \ {0}
  BY TicksAssumption
<1>2. decision.rekey = FALSE /\ decision.change_algorithm = FALSE
  BY DEF Init
<1>3. decision \in [change_algorithm: BOOLEAN, rekey: BOOLEAN]
  BY DEF Init
<1>4. TypeOK
  <2>1. in_force \in Kems /\ candidate \in Kems \cup {None} /\ streak \in 0..(CONFIRM_TICKS - 1)
    BY <1>1 DEF Init
  <2>2. rekey_blocked_for \in 0..REKEY_COOLDOWN_TICKS /\ quiet \in 0..REKEY_COOLDOWN_TICKS
    BY <1>1 DEF Init
  <2>3. wins \in [Kems -> 0..CONFIRM_TICKS]
    BY <1>1 DEF Init
  <2>4. asked \in BOOLEAN
    BY DEF Init
  <2>. QED  BY <1>3, <2>1, <2>2, <2>3, <2>4 DEF TypeOK
<1>5. StreakCountsWins
  BY <1>2 DEF Init, StreakCountsWins
<1>6. CooldownCountsDown
  BY <1>1, <1>2 DEF Init, CooldownCountsDown
<1>. QED  BY <1>4, <1>5, <1>6 DEF GateInv

\* Every tick keeps the gate's counters and the observer's in step.
LEMMA GateInvNext == GateInv /\ [Next]_vars => GateInv'
<1>. SUFFICES ASSUME GateInv, [Next]_vars  PROVE GateInv'
  OBVIOUS
<1>1. CASE UNCHANGED vars
  BY <1>1 DEF vars, gateVars, GateInv, TypeOK, StreakCountsWins, CooldownCountsDown
<1>2. ASSUME NEW probs \in Probs, update(probs), Observe(probs)
      PROVE  GateInv'
  <2>1. TypeOK /\ probs \in [Actions -> Nat]
    BY ProbsAssumption DEF GateInv
  <2>2. CONFIRM_TICKS \in Nat \ {0} /\ REKEY_COOLDOWN_TICKS \in Nat \ {0}
    BY TicksAssumption
  <2>3. /\ quiet' \in 0..REKEY_COOLDOWN_TICKS
        /\ saturating_dec(rekey_blocked_for) = REKEY_COOLDOWN_TICKS - quiet'
    BY <1>2, TickCoolsDown
  <2>3a. REKEY_COOLDOWN_TICKS - quiet' \in 0..REKEY_COOLDOWN_TICKS
    <3>1. \A r \in Nat : \A q \in 0..r : r - q \in 0..r
      OBVIOUS
    <3>. QED  BY <2>2, <2>3, <3>1
  <2>4. ~extends_streak(probs) =>
              /\ StreakNow(probs) = <<None, 0>>
              /\ wins' = [k \in Kems |-> 0]
    BY <1>2, TickCounts
  <2>5. extends_streak(probs) =>
              /\ Top(probs) \in Kems \ {in_force}
              /\ StreakNow(probs)[1] = Top(probs)
              /\ StreakNow(probs)[2] \in 1..CONFIRM_TICKS
              /\ wins' = [k \in Kems |-> IF k = Top(probs)
                                        THEN StreakNow(probs)[2] ELSE 0]
    BY <1>2, TickCounts
  <2>6. asked' \in BOOLEAN
    BY <1>2 DEF Observe
  <2>7. Top(probs) = REKEY_ACTION_INDEX => ~extends_streak(probs)
    BY DEF extends_streak
  <2>8. \A c, r \in BOOLEAN :
           Decide(c, r) => /\ decision' \in [change_algorithm: BOOLEAN, rekey: BOOLEAN]
                           /\ decision'.change_algorithm = c
                           /\ decision'.rekey = r
    BY DEF Decide
  <2>9. wins' \in [Kems -> 0..CONFIRM_TICKS]
    <3>1. CASE extends_streak(probs)
      BY <2>2, <2>5, <3>1
    <3>2. CASE ~extends_streak(probs)
      BY <2>2, <2>4, <3>2
    <3>. QED  BY <3>1, <3>2
  <2>10. CASE RekeySuppressed(probs)
    <3>1. /\ candidate' = None /\ streak' = 0 /\ in_force' \in Kems
          /\ rekey_blocked_for' = REKEY_COOLDOWN_TICKS - quiet'
          /\ rekey_blocked_for' \in 0..REKEY_COOLDOWN_TICKS
      BY <2>1, <2>3, <2>3a, <2>4, <2>7, <2>10 DEF RekeySuppressed, SetStreak, TypeOK
    <3>2. wins' = [k \in Kems |-> 0]
      BY <2>4, <2>7, <2>10 DEF RekeySuppressed
    <3>3. /\ decision' \in [change_algorithm: BOOLEAN, rekey: BOOLEAN]
          /\ ~decision'.change_algorithm /\ ~decision'.rekey
      BY <2>8, <2>10 DEF RekeySuppressed
    <3>4. TypeOK'
      <4>1. candidate' \in Kems \cup {None} /\ streak' \in 0..(CONFIRM_TICKS - 1)
        BY <2>2, <3>1
      <4>. QED  BY <2>3, <2>6, <2>9, <3>1, <3>3, <4>1 DEF TypeOK
    <3>5. StreakCountsWins'
      BY <3>1, <3>2, <3>3 DEF StreakCountsWins
    <3>6. CooldownCountsDown'
      BY <3>1, <3>3 DEF CooldownCountsDown
    <3>. QED  BY <3>4, <3>5, <3>6 DEF GateInv
  <2>11. CASE Rekey(probs)
    <3>1. /\ candidate' = None /\ streak' = 0
          /\ rekey_blocked_for' = REKEY_COOLDOWN_TICKS
      BY <2>4, <2>7, <2>11 DEF Rekey, SetStreak
    <3>2. wins' = [k \in Kems |-> 0]
      BY <2>4, <2>7, <2>11 DEF Rekey
    <3>3. /\ decision' \in [change_algorithm: BOOLEAN, rekey: BOOLEAN]
          /\ ~decision'.change_algorithm /\ decision'.rekey
      BY <2>8, <2>11 DEF Rekey
    <3>4. in_force' \in Kems
      BY <2>1, <2>11, BestKemIsKem DEF Rekey, RekeyLevel, TypeOK
    <3>5. TypeOK'
      BY <2>2, <2>3, <2>6, <2>9, <3>1, <3>3, <3>4 DEF TypeOK
    <3>6. StreakCountsWins'
      BY <3>1, <3>2, <3>3 DEF StreakCountsWins
    <3>7. CooldownCountsDown'
      BY <3>1, <3>3 DEF CooldownCountsDown
    <3>. QED  BY <3>5, <3>6, <3>7 DEF GateInv
  <2>12. CASE Hold(probs)
    <3>1. /\ in_force' = in_force /\ in_force \in Kems
          /\ candidate' = StreakNow(probs)[1] /\ streak' = StreakNow(probs)[2]
          /\ rekey_blocked_for' = REKEY_COOLDOWN_TICKS - quiet'
          /\ rekey_blocked_for' \in 0..REKEY_COOLDOWN_TICKS
          /\ extends_streak(probs) => StreakNow(probs)[2] < CONFIRM_TICKS
      BY <2>1, <2>3, <2>3a, <2>12 DEF Hold, SetStreak, TypeOK
    <3>2. /\ decision' \in [change_algorithm: BOOLEAN, rekey: BOOLEAN]
          /\ ~decision'.change_algorithm /\ ~decision'.rekey
      BY <2>8, <2>12 DEF Hold
    <3>3. candidate' \in Kems \cup {None} /\ streak' \in 0..(CONFIRM_TICKS - 1)
      BY <2>2, <2>4, <2>5, <3>1
    <3>4. TypeOK'
      BY <2>3, <2>6, <2>9, <3>1, <3>2, <3>3 DEF TypeOK
    <3>5. StreakCountsWins'
      <4>1. CASE extends_streak(probs)
        BY <2>2, <2>5, <3>1, <3>2, <4>1 DEF StreakCountsWins
      <4>2. CASE ~extends_streak(probs)
        BY <2>4, <3>1, <3>2, <4>2 DEF StreakCountsWins
      <4>. QED  BY <4>1, <4>2
    <3>6. CooldownCountsDown'
      BY <3>1, <3>2 DEF CooldownCountsDown
    <3>. QED  BY <3>4, <3>5, <3>6 DEF GateInv
  <2>13. CASE Confirm(probs)
    <3>1. /\ candidate' = None /\ streak' = 0 /\ in_force' = Top(probs)
          /\ extends_streak(probs)
          /\ rekey_blocked_for' = REKEY_COOLDOWN_TICKS - quiet'
          /\ rekey_blocked_for' \in 0..REKEY_COOLDOWN_TICKS
      BY <2>3, <2>3a, <2>13 DEF Confirm, SetStreak
    <3>2. /\ decision' \in [change_algorithm: BOOLEAN, rekey: BOOLEAN]
          /\ decision'.change_algorithm /\ ~decision'.rekey
      BY <2>8, <2>13 DEF Confirm
    <3>3. TypeOK'
      <4>1. /\ candidate' \in Kems \cup {None} /\ streak' \in 0..(CONFIRM_TICKS - 1)
            /\ in_force' \in Kems
        BY <2>2, <2>5, <3>1
      <4>. QED  BY <2>3, <2>6, <2>9, <3>1, <3>2, <4>1 DEF TypeOK
    <3>4. StreakCountsWins'
      BY <2>5, <3>1, <3>2 DEF StreakCountsWins
    <3>5. CooldownCountsDown'
      BY <3>1, <3>2 DEF CooldownCountsDown
    <3>. QED  BY <3>3, <3>4, <3>5 DEF GateInv
  <2>. QED  BY <1>2, <2>10, <2>11, <2>12, <2>13 DEF update
<1>. QED  BY <1>1, <1>2 DEF Next

\* The counters of update always agree with the observer of its inputs.
THEOREM GateInvariant == Spec => []GateInv
BY GateInvInit, GateInvNext, PTL DEF Spec

-----------------------------------------------------------------------------
(***************************************************************************)
(* What one tick may decide.                                               *)
(***************************************************************************)
\* A tick decides a change exactly when the observer counts a full streak, a
\* change goes to the KEM that has it, and a rekey is decided exactly when it
\* is asked for after the cooldown.
LEMMA TickDecides ==
    ASSUME GateInv, NEW probs \in Probs, update(probs), Observe(probs)
    PROVE  /\ decision'.change_algorithm <=> \E k \in Kems : wins'[k] = CONFIRM_TICKS
           /\ decision'.change_algorithm => wins'[in_force'] = CONFIRM_TICKS
           /\ in_force' < in_force => decision'.change_algorithm
           /\ in_force' > in_force => decision'.change_algorithm \/ decision'.rekey
           /\ decision'.rekey <=> asked' /\ quiet' = REKEY_COOLDOWN_TICKS
<1>1. CONFIRM_TICKS \in Nat \ {0} /\ REKEY_COOLDOWN_TICKS \in Nat \ {0}
  BY TicksAssumption
<1>2. in_force \in Kems /\ probs \in [Actions -> Nat]
  BY ProbsAssumption DEF GateInv, TypeOK
<1>3. quiet' \in 0..REKEY_COOLDOWN_TICKS
  BY TickCoolsDown
<1>4. saturating_dec(rekey_blocked_for) = 0 <=> quiet' = REKEY_COOLDOWN_TICKS
  <2>1. saturating_dec(rekey_blocked_for) = REKEY_COOLDOWN_TICKS - quiet'
    BY TickCoolsDown
  <2>2. \A r \in Nat : \A q \in 0..r : r - q = 0 <=> q = r
    OBVIOUS
  <2>. QED  BY <1>1, <1>3, <2>1, <2>2
<1>5. saturating_dec(rekey_blocked_for) > 0 => saturating_dec(rekey_blocked_for) # 0
  BY DEF saturating_dec
<1>6. ~extends_streak(probs) => \A k \in Kems : wins'[k] # CONFIRM_TICKS
  BY <1>1, TickCounts
<1>7. extends_streak(probs) =>
         /\ Top(probs) \in Kems
         /\ StreakNow(probs)[2] \in 1..CONFIRM_TICKS
         /\ \A k \in Kems : wins'[k] = IF k = Top(probs) THEN StreakNow(probs)[2] ELSE 0
  BY TickCounts
<1>8. \A c, r \in BOOLEAN :
         Decide(c, r) => decision'.change_algorithm = c /\ decision'.rekey = r
  BY DEF Decide
<1>9. asked' <=> Top(probs) = REKEY_ACTION_INDEX
  BY DEF Observe
<1>10. Top(probs) = REKEY_ACTION_INDEX => ~extends_streak(probs)
  BY DEF extends_streak
<1>11. CASE RekeySuppressed(probs)
  <2>1. /\ ~decision'.change_algorithm /\ ~decision'.rekey
        /\ ~extends_streak(probs) /\ in_force' = in_force
        /\ quiet' # REKEY_COOLDOWN_TICKS
    BY <1>4, <1>5, <1>8, <1>10, <1>11 DEF RekeySuppressed
  <2>. QED  BY <1>2, <1>6, <2>1
<1>12. CASE Rekey(probs)
  <2>1. /\ ~decision'.change_algorithm /\ decision'.rekey
        /\ asked' /\ quiet' = REKEY_COOLDOWN_TICKS
        /\ ~extends_streak(probs)
    BY <1>4, <1>8, <1>9, <1>10, <1>12 DEF Rekey
  <2>2. ~(in_force' < in_force)
    BY <1>2, <1>12, BestKemIsKem DEF Rekey, RekeyLevel
  <2>. QED  BY <1>6, <2>1, <2>2
<1>13. CASE Hold(probs)
  <2>1. /\ ~decision'.change_algorithm /\ ~decision'.rekey
        /\ ~asked' /\ in_force' = in_force
        /\ extends_streak(probs) => StreakNow(probs)[2] < CONFIRM_TICKS
    BY <1>8, <1>9, <1>13 DEF Hold
  <2>2. \A k \in Kems : wins'[k] # CONFIRM_TICKS
    BY <1>1, <1>6, <1>7, <1>13 DEF Hold
  <2>. QED  BY <1>2, <2>1, <2>2
<1>14. CASE Confirm(probs)
  <2>1. /\ decision'.change_algorithm /\ ~decision'.rekey
        /\ in_force' = Top(probs)
        /\ extends_streak(probs)
    BY <1>8, <1>14 DEF Confirm
  <2>2. Top(probs) \in Kems /\ wins'[Top(probs)] = CONFIRM_TICKS
    BY <1>1, <1>7, <1>14 DEF Confirm
  <2>3. ~asked'
    BY <1>9, <1>10, <2>1
  <2>. QED  BY <2>1, <2>2, <2>3
<1>. QED  BY <1>11, <1>12, <1>13, <1>14 DEF update

\* The algorithm changes exactly after CONFIRM_TICKS consecutive led ticks.
THEOREM ChangeNeedsFullStreak == Spec => ChangesOnFullStreak
<1>1. GateInv /\ [Next]_vars =>
        [decision'.change_algorithm <=> \E k \in Kems : wins'[k] = CONFIRM_TICKS]_vars
  BY TickDecides DEF Next
<1>. QED  BY <1>1, GateInvariant, PTL DEF Spec, ChangesOnFullStreak

\* Nothing but such a change weakens the algorithm in force.
THEOREM OnlyChangeWeakens == Spec => WeakensOnlyByChange
<1>1. GateInv /\ [Next]_vars =>
        [/\ decision'.change_algorithm => wins'[in_force'] = CONFIRM_TICKS
         /\ in_force' < in_force => decision'.change_algorithm
         /\ in_force' > in_force => decision'.change_algorithm \/ decision'.rekey]_vars
  BY TickDecides DEF Next
<1>. QED  BY <1>1, GateInvariant, PTL DEF Spec, WeakensOnlyByChange

\* A rekey that is asked for is made exactly when the cooldown has passed.
THEOREM RekeysAreSpaced == Spec => RekeysSpacedByCooldown
<1>1. GateInv /\ [Next]_vars =>
        [decision'.rekey <=> asked' /\ quiet' = REKEY_COOLDOWN_TICKS]_vars
  BY TickDecides DEF Next
<1>. QED  BY <1>1, GateInvariant, PTL DEF Spec, RekeysSpacedByCooldown
=============================================================================
