--------------------------- MODULE StatePipeline ----------------------------
(***************************************************************************)
(* The state pipeline: it turns the readings of a device (any              *)
(* implementation of the trait) and a threat score into the policy's       *)
(* vector, and keeps the time since the last rekey, which the control loop *)
(* advances by the time since its last tick. The loop is its caller: it    *)
(* may rekey at any moment of a tick and observe at any moment.            *)
(*                                                                         *)
(* A fraction is a number of steps, SCALE of them to one; NaN is the       *)
(* floating-point value that is none.                                      *)
(***************************************************************************)
EXTENDS Integers, Sequences

CONSTANTS
    SCALE,          \* steps of a fraction
    NaN,
    None,           \* no latency reading
    MAX_DURATION,   \* Duration::MAX
    MaxNow,         \* bound: time steps
    MaxTick,        \* the longest time between two ticks
    Caps,           \* values of NormalizationCaps
    Fractions,      \* raw fractions a device or the anomaly pipeline reports
    Latencies,      \* raw latencies, None among them
    Rates           \* raw upload rates

ASSUME PipelineAssumption ==
    /\ SCALE \in Nat \ {0} /\ MAX_DURATION \in Nat /\ MaxTick \in Nat \ {0}
    /\ NaN \notin Int /\ None \notin Int

\* A Duration is not negative; the cap of the upload rate is a finite number.
ASSUME ReadingsAssumption ==
    /\ Caps \subseteq [latency: Nat, upload: Int, rekey: Nat]
    /\ Fractions \subseteq Int \cup {NaN} /\ Rates \subseteq Int \cup {NaN}
    /\ Latencies \subseteq Nat \cup {None}

VARIABLES
    caps,             \* the pipeline's caps
    time_since_rekey, \* and its rekey timer
    vector,           \* the last vector observed
    now,              \* the time
    ticked,           \* when the loop last advanced the timer
    rekeyed,          \* when the last rekey completed
    raw               \* whether a raw fraction of the vector was NaN

pipelineVars == <<caps, time_since_rekey, vector, now, ticked, rekeyed, raw>>

-----------------------------------------------------------------------------
AtMost(a, b) == IF a < b THEN a ELSE b

\* f32::clamp and f64::clamp leave NaN alone; f64::max does not.
clamp(v) == IF v = NaN THEN NaN ELSE IF v < 0 THEN 0 ELSE AtMost(v, SCALE)
max0(v) == IF v = NaN THEN 0 ELSE IF v < 0 THEN 0 ELSE v

normalize_duration(value, cap) ==
    IF cap = 0 THEN SCALE ELSE clamp((value * SCALE) \div cap)

normalize_latency(latency, cap) ==
    IF latency = None THEN SCALE ELSE normalize_duration(latency, cap)

\* Bug: the rate is clamped only after the division.
BugRate(value, cap) ==
    IF cap <= 0 THEN SCALE
    ELSE IF value = NaN THEN NaN ELSE clamp((value * SCALE) \div cap)

normalize_rate(value, cap) ==
    IF cap <= 0 THEN SCALE ELSE clamp((max0(value) * SCALE) \div cap)

\* ConnectionType::score.
score(link) ==
    CASE link = "Wired" -> 0 [] link = "WifiOrUnknown" -> SCALE \div 2
      [] link = "Cellular" -> SCALE

Links == {"Wired", "WifiOrUnknown", "Cellular"}

-----------------------------------------------------------------------------
\* StatePipeline::with_caps.
PipelineInit ==
    /\ caps \in Caps
    /\ time_since_rekey = 0 /\ vector = <<>>
    /\ now = 0 /\ ticked = 0 /\ rekeyed = 0 /\ raw = FALSE

\* Time passes; a tick is never longer than MaxTick.
Elapse ==
    /\ now < MaxNow /\ now - ticked < MaxTick
    /\ now' = now + 1
    /\ UNCHANGED <<caps, time_since_rekey, vector, ticked, rekeyed, raw>>

\* Bug: the timer wraps.
BugAdvance ==
    /\ now > ticked
    /\ time_since_rekey' = (time_since_rekey + (now - ticked)) % (MAX_DURATION + 1)
    /\ ticked' = now
    /\ UNCHANGED <<caps, vector, now, rekeyed, raw>>

\* advance, called by the loop with the time since its last tick.
advance ==
    /\ now > ticked
    /\ time_since_rekey' = AtMost(time_since_rekey + (now - ticked), MAX_DURATION)
    /\ ticked' = now
    /\ UNCHANGED <<caps, vector, now, rekeyed, raw>>

\* mark_rekey, called when a key rotation completes.
mark_rekey ==
    /\ time_since_rekey' = 0
    /\ rekeyed' = now
    /\ UNCHANGED <<caps, vector, now, ticked, raw>>

\* observe: seven readings, each clamped.
observe(threat_score) ==
    /\ \E cpu_load, ram \in Fractions, latency \in Latencies, rate \in Rates, link \in Links :
          /\ vector' = <<clamp(cpu_load), clamp(ram),
                         clamp(normalize_latency(latency, caps.latency)),
                         clamp(normalize_rate(rate, caps.upload)),
                         clamp(score(link)),
                         clamp(normalize_duration(time_since_rekey, caps.rekey)),
                         clamp(threat_score)>>
          /\ raw' = (NaN \in {cpu_load, ram, threat_score})
    /\ UNCHANGED <<caps, time_since_rekey, now, ticked, rekeyed>>

PipelineNext ==
    \/ Elapse
    \/ advance
    \/ mark_rekey
    \/ \E threat_score \in Fractions : observe(threat_score)

PipelineSpec == PipelineInit /\ [][PipelineNext]_pipelineVars

-----------------------------------------------------------------------------
\* Whatever the device reports and whatever finite numbers the caps are (zero
\* too), every element of the vector is in [0, 1], unless a fraction that is
\* handed through was no number to begin with: no quotient makes one (observe,
\* normalize_*).
VectorInRange ==
    \A i \in DOMAIN vector :
        \/ vector[i] \in 0..SCALE
        \/ raw /\ i \in {1, 2, 7}

\* At a tick the rekey timer shows no less than the time that really passed
\* since the last rekey and at most one tick more, also when the rekey fell
\* into the middle of a tick and when the timer has reached the largest
\* Duration (advance, mark_rekey).
RekeyTimerIsHonest ==
    ticked > rekeyed =>
        /\ time_since_rekey >= AtMost(ticked - rekeyed, MAX_DURATION)
        /\ time_since_rekey <= ticked - rekeyed + MaxTick
=============================================================================
