---------------------------- MODULE DecisionGate ----------------------------
(***************************************************************************)
(* The decision gate (gate.rs, the port of decision_gate.py): it turns the *)
(* policy's noisy output, one probability vector per tick, into changes of *)
(* algorithm and rekeys.                                                   *)
(*                                                                         *)
(* Actions 0, 1 and 2 are the KEMs by strength (their index is the wire    *)
(* code), action 3 is rekey-now. Probabilities are integers: shares of a   *)
(* fixed total. The reasons given to the session log are left out.         *)
(***************************************************************************)
EXTENDS Integers

CONSTANTS
    Probs,                  \* the probability vectors a tick can bring
    CONFIRM_TICKS,
    MIN_MARGIN,
    REKEY_COOLDOWN_TICKS,
    REKEY_ESCALATES

Kems == 0..2
REKEY_ACTION_INDEX == 3
Actions == 0..3
None == -1                  \* no candidate

ASSUME ProbsAssumption == Probs \subseteq [Actions -> Nat]
ASSUME TicksAssumption ==
    CONFIRM_TICKS \in Nat \ {0} /\ REKEY_COOLDOWN_TICKS \in Nat \ {0}
ASSUME MarginAssumption == MIN_MARGIN \in Nat \ {0}
ASSUME EscalatesAssumption == REKEY_ESCALATES \in BOOLEAN

VARIABLES
    in_force,           \* the algorithm in force
    candidate,          \* the challenger on a streak, or None
    streak,             \* its length
    rekey_blocked_for,  \* ticks the cooldown still runs
    decision,           \* the last Decision: change_algorithm, rekey
    (***********************************************************************)
    (* Observation of the input, independent of the gate's own counters.   *)
    (***********************************************************************)
    asked,              \* whether the last tick's top action was rekey-now
    wins,               \* for each KEM, for how many ticks in a row it has led
                        \* the algorithm in force by the margin (up to CONFIRM_TICKS)
    quiet               \* ticks since the last rekey (up to REKEY_COOLDOWN_TICKS)

gateVars == <<in_force, candidate, streak, rekey_blocked_for, decision>>
vars == <<gateVars, asked, wins, quiet>>

TypeOK ==
    /\ in_force \in Kems
    /\ candidate \in Kems \cup {None}
    /\ streak \in 0..(CONFIRM_TICKS - 1)
    /\ rekey_blocked_for \in 0..REKEY_COOLDOWN_TICKS
    /\ decision \in [change_algorithm: BOOLEAN, rekey: BOOLEAN]
    /\ asked \in BOOLEAN
    /\ wins \in [Kems -> 0..CONFIRM_TICKS]
    /\ quiet \in 0..REKEY_COOLDOWN_TICKS

\* A gate is made per session, for the algorithm negotiated at connect time.
Init ==
    /\ in_force \in Kems
    /\ candidate = None
    /\ streak = 0
    /\ rekey_blocked_for = 0
    /\ decision = [change_algorithm |-> FALSE, rekey |-> FALSE]
    /\ asked = FALSE
    /\ wins = [k \in Kems |-> 0]
    /\ quiet = REKEY_COOLDOWN_TICKS

-----------------------------------------------------------------------------
\* The first index of S with the largest probability.
argmax(probs, S) ==
    CHOOSE i \in S : \A j \in S :
        probs[j] < probs[i] \/ (probs[j] = probs[i] /\ i <= j)

Top(probs) == argmax(probs, Actions)

\* Bug: the last tick of the cooldown is never counted down.
BugStuckDec(n) == IF n > 1 THEN n - 1 ELSE n

\* Bug: the decrement does not saturate.
BugWrappingDec(n) == n - 1

saturating_dec(n) == IF n > 0 THEN n - 1 ELSE 0

extends_streak(probs) ==
    /\ Top(probs) # REKEY_ACTION_INDEX
    /\ Top(probs) # in_force
    /\ probs[Top(probs)] - probs[in_force] >= MIN_MARGIN

\* Bug (Week 4): a rekey leaves the streak alive.
BugStreakNow(probs) ==
    IF Top(probs) = REKEY_ACTION_INDEX THEN <<candidate, streak>>
    ELSE IF ~extends_streak(probs) THEN <<None, 0>>
    ELSE IF candidate = Top(probs) THEN <<candidate, streak + 1>>
    ELSE <<Top(probs), 1>>

\* The candidate and its streak once this tick is counted.
StreakNow(probs) ==
    IF ~extends_streak(probs) THEN <<None, 0>>
    ELSE IF candidate = Top(probs) THEN <<candidate, streak + 1>>
    ELSE <<Top(probs), 1>>

SetStreak(s) == candidate' = s[1] /\ streak' = s[2]

Decide(change, rekeys) ==
    decision' = [change_algorithm |-> change, rekey |-> rekeys]

\* Bug: a rekey is made at the policy's favourite KEM, weaker ones included.
BugRekeyLevel(probs) == IF REKEY_ESCALATES THEN argmax(probs, Kems) ELSE in_force

\* The algorithm a rekey is made at.
RekeyLevel(probs) ==
    IF REKEY_ESCALATES /\ argmax(probs, Kems) > in_force
    THEN argmax(probs, Kems)
    ELSE in_force

(***************************************************************************)
(* update: its return paths.                                               *)
(***************************************************************************)
RekeySuppressed(probs) ==
    /\ Top(probs) = REKEY_ACTION_INDEX
    /\ saturating_dec(rekey_blocked_for) > 0
    /\ rekey_blocked_for' = saturating_dec(rekey_blocked_for)
    /\ SetStreak(StreakNow(probs))
    /\ Decide(FALSE, FALSE)
    /\ UNCHANGED in_force

Rekey(probs) ==
    /\ Top(probs) = REKEY_ACTION_INDEX
    /\ saturating_dec(rekey_blocked_for) = 0
    /\ rekey_blocked_for' = REKEY_COOLDOWN_TICKS
    /\ SetStreak(StreakNow(probs))
    /\ in_force' = RekeyLevel(probs)
    /\ Decide(FALSE, TRUE)

\* The policy agrees, leads by too little, or is on an unconfirmed streak.
Hold(probs) ==
    /\ Top(probs) # REKEY_ACTION_INDEX
    /\ extends_streak(probs) => StreakNow(probs)[2] < CONFIRM_TICKS
    /\ rekey_blocked_for' = saturating_dec(rekey_blocked_for)
    /\ SetStreak(StreakNow(probs))
    /\ Decide(FALSE, FALSE)
    /\ UNCHANGED in_force

Confirm(probs) ==
    /\ extends_streak(probs)
    /\ StreakNow(probs)[2] >= CONFIRM_TICKS
    /\ rekey_blocked_for' = saturating_dec(rekey_blocked_for)
    /\ SetStreak(<<None, 0>>)
    /\ in_force' = Top(probs)
    /\ Decide(TRUE, FALSE)

update(probs) ==
    RekeySuppressed(probs) \/ Rekey(probs) \/ Hold(probs) \/ Confirm(probs)

\* What an observer of the inputs and of the algorithm in force would note.
AtMost(n, bound) == IF n <= bound THEN n ELSE bound

Leads(probs, k) ==
    /\ \A j \in Actions \ {k} : probs[j] < probs[k] \/ (probs[j] = probs[k] /\ k < j)
    /\ probs[k] >= probs[in_force] + MIN_MARGIN

Observe(probs) ==
    /\ asked' = (Top(probs) = REKEY_ACTION_INDEX)
    /\ wins' = [k \in Kems |->
                  IF Leads(probs, k) THEN AtMost(wins[k] + 1, CONFIRM_TICKS) ELSE 0]
    /\ quiet' = IF decision.rekey THEN 1 ELSE AtMost(quiet + 1, REKEY_COOLDOWN_TICKS)

Next == \E probs \in Probs : update(probs) /\ Observe(probs)

Spec == Init /\ [][Next]_vars

-----------------------------------------------------------------------------
(***************************************************************************)
(* Properties.                                                             *)
(***************************************************************************)
\* The streak counter is the number of consecutive ticks its candidate has
\* really led, and nobody else is on one: update clears or moves it on every
\* path that does not extend it.
StreakCountsWins ==
    /\ candidate = None <=> streak = 0
    /\ candidate # None => candidate # in_force /\ wins[candidate] = streak
    /\ \A k \in Kems : k # candidate =>
           wins[k] = 0 \/ (decision.change_algorithm /\ k = in_force)
    /\ decision.change_algorithm => candidate = None

\* The cooldown counter is what is left of the cooldown since the last rekey.
CooldownCountsDown ==
    rekey_blocked_for =
        IF decision.rekey THEN REKEY_COOLDOWN_TICKS ELSE REKEY_COOLDOWN_TICKS - quiet

\* The gate's private counters always agree with what an observer of its
\* inputs counts, and stay in range.
GateInv == TypeOK /\ StreakCountsWins /\ CooldownCountsDown

\* The algorithm changes exactly when a challenger has led the algorithm in
\* force by the margin for CONFIRM_TICKS consecutive ticks, this one included:
\* no earlier, whatever rekeys, ties and weak leads come between, and no later.
ChangesOnFullStreak ==
    [][decision'.change_algorithm <=> \E k \in Kems : wins'[k] = CONFIRM_TICKS]_vars

\* A change moves to the KEM that earned it, and nothing weakens the algorithm
\* in force but such a change: a rekey keeps it or raises it.
WeakensOnlyByChange ==
    [][/\ decision'.change_algorithm => wins'[in_force'] = CONFIRM_TICKS
       /\ in_force' < in_force => decision'.change_algorithm
       /\ in_force' > in_force => decision'.change_algorithm \/ decision'.rekey]_vars

\* A tick that asks for a rekey gets it exactly when REKEY_COOLDOWN_TICKS ticks
\* have passed since the last one: never sooner, and never refused for longer.
RekeysSpacedByCooldown ==
    [][decision'.rekey <=> asked' /\ quiet' = REKEY_COOLDOWN_TICKS]_vars

-----------------------------------------------------------------------------
\* "the gate never returns a decision that contradicts [the negotiated
\* algorithm] without an explicit change_algorithm" (decision_gate.py, class
\* DecisionGate): the algorithm in force moves only with change_algorithm.
MovesOnlyByChange == [][in_force' # in_force => decision'.change_algorithm]_vars
=============================================================================
