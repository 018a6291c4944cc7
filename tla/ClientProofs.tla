---------------------------- MODULE ClientProofs ----------------------------
(***************************************************************************)
(* Proofs about the client's side besides the handshake: the state         *)
(* pipeline, for any caps, readings and ticks, and the desktop             *)
(* application, for any number of clicks, pages, readings and changes of   *)
(* the machine.                                                            *)
(***************************************************************************)
EXTENDS DesktopApp, StatePipeline, TLAPS

(***************************************************************************)
(* The state pipeline.                                                     *)
(***************************************************************************)

\* Clamping a number gives one between 0 and 1.
LEMMA ClampInRange == ASSUME NEW v \in Int  PROVE clamp(v) \in 0..SCALE
BY PipelineAssumption DEF clamp, AtMost

\* A quotient by a positive cap is a number, and so is in range once clamped.
LEMMA QuotientInRange ==
    ASSUME NEW v \in Int, NEW cap \in Int, cap > 0
    PROVE  clamp((v * SCALE) \div cap) \in 0..SCALE
<1>1. v * SCALE \in Int
  BY PipelineAssumption
<1>2. (v * SCALE) \div cap \in Int
  BY <1>1
<1>. QED  BY <1>2, ClampInRange

\* No normalisation of a reading makes anything but a number in range.
LEMMA NormalizedInRange ==
    /\ \A v, cap \in Nat : normalize_duration(v, cap) \in 0..SCALE
    /\ \A v \in Nat \cup {None}, cap \in Nat : normalize_latency(v, cap) \in 0..SCALE
    /\ \A v \in Int \cup {NaN}, cap \in Int : normalize_rate(v, cap) \in 0..SCALE
    /\ \A link \in Links : score(link) \in 0..SCALE
<1>0. SCALE \in 0..SCALE
  BY PipelineAssumption
<1>1. ASSUME NEW v \in Nat, NEW cap \in Nat  PROVE normalize_duration(v, cap) \in 0..SCALE
  BY <1>0, <1>1, QuotientInRange DEF normalize_duration
<1>2. ASSUME NEW v \in Nat \cup {None}, NEW cap \in Nat
      PROVE  normalize_latency(v, cap) \in 0..SCALE
  BY <1>0, <1>1, <1>2 DEF normalize_latency
<1>3. ASSUME NEW v \in Int \cup {NaN}, NEW cap \in Int
      PROVE  normalize_rate(v, cap) \in 0..SCALE
  <2>1. max0(v) \in Int
    BY <1>3 DEF max0
  <2>. QED  BY <1>0, <2>1, QuotientInRange DEF normalize_rate
<1>4. ASSUME NEW link \in Links  PROVE score(link) \in 0..SCALE
  <2>1. SCALE \div 2 \in 0..SCALE
    BY PipelineAssumption
  <2>. QED  BY <1>0, <1>4, <2>1 DEF score, Links
<1>. QED  BY <1>1, <1>2, <1>3, <1>4

\* What the pipeline keeps, and the clock and the loop around it. The timer
\* is zero while the last rekey is later than the last tick; from the next
\* tick on it is what RekeyTimerIsHonest says, also at a tick that falls on
\* the moment of the rekey.
TimerInv ==
    /\ caps \in Caps
    /\ now \in Nat /\ ticked \in Nat /\ rekeyed \in Nat /\ time_since_rekey \in Nat
    /\ ticked <= now /\ rekeyed <= now /\ now - ticked <= MaxTick
    /\ IF ticked < rekeyed
       THEN time_since_rekey = 0
       ELSE /\ time_since_rekey >= AtMost(ticked - rekeyed, MAX_DURATION)
            /\ time_since_rekey <= ticked - rekeyed + MaxTick

\* Every step of the pipeline and its loop keeps it.
LEMMA TimerNext == TimerInv /\ [PipelineNext]_pipelineVars => TimerInv'
<1>. SUFFICES ASSUME TimerInv, [PipelineNext]_pipelineVars  PROVE TimerInv'
  OBVIOUS
<1>. USE PipelineAssumption DEF TimerInv, AtMost
<1>1. CASE Elapse
  BY <1>1 DEF Elapse
<1>2. CASE advance
  BY <1>2 DEF advance
<1>3. CASE mark_rekey
  BY <1>3 DEF mark_rekey
<1>4. CASE \E threat_score \in Fractions : observe(threat_score)
  BY <1>4 DEF observe
<1>5. CASE UNCHANGED pipelineVars
  BY <1>5 DEF pipelineVars
<1>. QED  BY <1>1, <1>2, <1>3, <1>4, <1>5 DEF PipelineNext

\* The invariant of the rekey timer.
LEMMA TimerInvariant == PipelineSpec => []TimerInv
<1>1. PipelineInit => TimerInv
  BY PipelineAssumption DEF PipelineInit, TimerInv, AtMost
<1>. QED  BY <1>1, TimerNext, PTL DEF PipelineSpec

\* The timer the policy sees is never behind the time that really passed since
\* the last rekey and never more than one tick ahead of it, for any length of
\* ticks, any moments of rekeys and any largest Duration (advance, mark_rekey).
THEOREM RekeyTimerStaysHonest == PipelineSpec => []RekeyTimerIsHonest
<1>1. TimerInv => RekeyTimerIsHonest
  BY DEF TimerInv, RekeyTimerIsHonest
<1>. QED  BY <1>1, TimerInvariant, PTL

\* One observation gives a vector in range.
LEMMA ObservedInRange ==
    ASSUME TimerInv, NEW threat_score \in Fractions, observe(threat_score)
    PROVE  VectorInRange'
<1>1. PICK cpu_load \in Fractions, ram \in Fractions, latency \in Latencies, rate \in Rates,
           link \in Links :
          /\ vector' = <<clamp(cpu_load), clamp(ram),
                         clamp(normalize_latency(latency, caps.latency)),
                         clamp(normalize_rate(rate, caps.upload)),
                         clamp(score(link)),
                         clamp(normalize_duration(time_since_rekey, caps.rekey)),
                         clamp(threat_score)>>
          /\ raw' = (NaN \in {cpu_load, ram, threat_score})
  BY DEF observe
<1>2. caps.latency \in Nat /\ caps.upload \in Int /\ caps.rekey \in Nat
  BY ReadingsAssumption DEF TimerInv
<1>3. /\ clamp(normalize_latency(latency, caps.latency)) \in 0..SCALE
      /\ clamp(normalize_rate(rate, caps.upload)) \in 0..SCALE
      /\ clamp(score(link)) \in 0..SCALE
      /\ clamp(normalize_duration(time_since_rekey, caps.rekey)) \in 0..SCALE
  <2>1. time_since_rekey \in Nat
    BY DEF TimerInv
  <2>2. latency \in Nat \cup {None} /\ rate \in Int \cup {NaN}
    BY ReadingsAssumption
  <2>3. /\ normalize_latency(latency, caps.latency) \in 0..SCALE
        /\ normalize_rate(rate, caps.upload) \in 0..SCALE
        /\ score(link) \in 0..SCALE
        /\ normalize_duration(time_since_rekey, caps.rekey) \in 0..SCALE
    BY <1>2, <2>1, <2>2, NormalizedInRange
  <2>. QED  BY <2>3, ClampInRange, PipelineAssumption
<1>4. ASSUME NEW v \in Fractions  PROVE clamp(v) \in 0..SCALE \/ v = NaN
  BY ClampInRange, ReadingsAssumption
<1>5. ASSUME NEW i \in DOMAIN vector'
      PROVE  vector'[i] \in 0..SCALE \/ (raw' /\ i \in {1, 2, 7})
  <2>1. i \in 1..7
    BY <1>1, <1>5
  <2>2. CASE i \in {3, 4, 5, 6}
    BY <1>1, <1>3, <2>2
  <2>3. CASE i = 1
    BY <1>1, <1>4, <2>3
  <2>4. CASE i = 2
    BY <1>1, <1>4, <2>4
  <2>5. CASE i = 7
    BY <1>1, <1>4, <2>5
  <2>. QED  BY <2>1, <2>2, <2>3, <2>4, <2>5
<1>. QED  BY <1>5 DEF VectorInRange

\* Every element of the vector is in [0, 1], for any finite caps (zero and
\* negative ones too) and any readings, unless a fraction handed through was no number
\* (observe, normalize_duration, normalize_latency, normalize_rate).
THEOREM VectorStaysInRange == PipelineSpec => []VectorInRange
<1>1. PipelineInit => VectorInRange
  BY DEF PipelineInit, VectorInRange
<1>2. TimerInv /\ VectorInRange /\ [PipelineNext]_pipelineVars => VectorInRange'
  BY ObservedInRange DEF PipelineNext, Elapse, advance, mark_rekey, pipelineVars, VectorInRange
<1>. QED  BY <1>1, <1>2, TimerInvariant, PTL DEF PipelineSpec

-----------------------------------------------------------------------------
(***************************************************************************)
(* The device readings of the desktop.                                     *)
(***************************************************************************)

\* The total sent before a moment.
Before(t) == IF t = 0 THEN 0 ELSE history[t - 1]

\* What the interfaces on sysinfo's list have sent since it was refreshed.
Fresh(i) == IF i \in DOMAIN networks THEN counter[i] - networks[i] ELSE 0
SentSinceRefresh == Fresh(Wifi) + Fresh(Wired) + Fresh(Cellular) + Fresh(Other)

\* The machine's counters and their history, and the list, which is never
\* ahead of them.
ClockInv ==
    /\ clock \in 0..MaxClock /\ last_sample \in 0..clock
    /\ present \subseteq Interfaces
    /\ counter \in [Interfaces -> Nat] /\ history \in [0..MaxClock -> Nat]
    /\ history[clock] = Total(counter)
    /\ \A t \in 1..clock : history[t - 1] <= history[t]
    /\ DOMAIN networks \subseteq Interfaces
    /\ \A i \in DOMAIN networks : networks[i] \in 0..counter[i]

\* What was sent since the refresh was sent since the moment of the refresh
\* began.
SentInv == SentSinceRefresh <= history[clock] - Before(last_sample)

DeviceInv == ClockInv /\ SentInv

\* An upload reading, as the snapshot that holds it has to have it.
RateFits(s) ==
    /\ s.at \in 0..clock /\ s.rate.over \in 0..s.at /\ s.rate.sent \in Nat
    /\ s.rate.sent <= history[s.at] - Before(s.at - s.rate.over)

\* The numbers an interface has sent are numbers.
LEMMA FreshFacts ==
    ASSUME ClockInv, NEW i \in Interfaces
    PROVE  Fresh(i) \in Nat /\ counter[i] \in Nat
BY DEF ClockInv, Fresh

\* The machine's steps keep the readings in order, the ones taken too.
LEMMA MachineKeeps ==
    ASSUME DeviceInv, OsStep
    PROVE  DeviceInv' /\ \A s : RateFits(s) => RateFits(s)'
<1>0. ClockInv /\ SentInv
  BY DEF DeviceInv
<1>1. CASE Pass
  <2>1. /\ clock < MaxClock /\ clock' = clock + 1 /\ present' = present /\ counter' = counter
        /\ networks' = networks /\ last_sample' = last_sample
        /\ history' = [history EXCEPT ![clock + 1] = Total(counter)]
    BY <1>1 DEF Pass, deviceVars
  <2>2. Total(counter) \in Nat /\ Total(counter)' = Total(counter)
    BY <1>0, <2>1 DEF ClockInv, Total, Interfaces
  <2>3. /\ history'[clock + 1] = Total(counter) /\ history' \in [0..MaxClock -> Nat]
        /\ \A t \in 0..clock : history'[t] = history[t]
    BY <1>0, <2>1, <2>2, BoundsAssumption DEF ClockInv
  <2>4. ClockInv'
    <3>1. ASSUME NEW t \in 1..(clock + 1)  PROVE history'[t - 1] <= history'[t]
      <4>1. CASE t = clock + 1
        BY <1>0, <2>3, <4>1 DEF ClockInv
      <4>2. CASE t \in 1..clock
        BY <1>0, <2>3, <4>2 DEF ClockInv
      <4>. QED  BY <1>0, <3>1, <4>1, <4>2 DEF ClockInv
    <3>2. clock' \in 0..MaxClock /\ last_sample' \in 0..clock'
      BY <1>0, <2>1, BoundsAssumption DEF ClockInv
    <3>. QED  BY <1>0, <2>1, <2>2, <2>3, <3>1, <3>2 DEF ClockInv
  <2>5. \A t \in 0..clock : Before(t)' = Before(t)
    BY <1>0, <2>3 DEF ClockInv, Before
  <2>6. SentSinceRefresh' = SentSinceRefresh
    BY <2>1 DEF SentSinceRefresh, Fresh
  <2>7. SentInv'
    BY <1>0, <2>1, <2>2, <2>3, <2>5, <2>6 DEF ClockInv, SentInv
  <2>8. ASSUME NEW s, RateFits(s)  PROVE RateFits(s)'
    BY <1>0, <2>1, <2>3, <2>5, <2>8 DEF ClockInv, RateFits
  <2>. QED  BY <2>4, <2>7, <2>8 DEF DeviceInv
<1>2. ASSUME NEW i \in Interfaces, Transmit(i)
      PROVE  DeviceInv' /\ \A s : RateFits(s) => RateFits(s)'
  <2>1. /\ clock' = clock /\ present' = present
        /\ networks' = networks /\ last_sample' = last_sample
        /\ counter' = [counter EXCEPT ![i] = @ + 1]
        /\ history' = [history EXCEPT ![clock] = @ + 1]
    BY <1>2 DEF Transmit, deviceVars
  <2>2. /\ counter' \in [Interfaces -> Nat] /\ counter'[i] = counter[i] + 1
        /\ \A j \in Interfaces \ {i} : counter'[j] = counter[j]
    BY <1>0, <2>1 DEF ClockInv
  <2>3. /\ history' \in [0..MaxClock -> Nat] /\ history'[clock] = history[clock] + 1
        /\ \A t \in 0..MaxClock : t # clock => history'[t] = history[t]
    BY <1>0, <2>1 DEF ClockInv
  <2>4. Total(counter)' = Total(counter) + 1
    <3>1. \A j \in Interfaces : counter[j] \in Nat
      BY <1>0 DEF ClockInv
    <3>. QED  BY <2>2, <3>1, InterfacesAssumption DEF Total, Interfaces
  <2>5. ClockInv'
    BY <1>0, <2>1, <2>2, <2>3, <2>4, BoundsAssumption DEF ClockInv
  <2>6. \A t \in 0..clock : Before(t)' = Before(t) /\ Before(t) \in Nat
    BY <1>0, <2>3, BoundsAssumption DEF ClockInv, Before
  <2>7. SentSinceRefresh' <= SentSinceRefresh + 1
    <3>1. \A j \in Interfaces : Fresh(j) \in Nat /\ Fresh(j)' \in Nat
      BY <1>0, <2>5, FreshFacts DEF ClockInv, Fresh
    <3>2. \A j \in Interfaces \ {i} : Fresh(j)' = Fresh(j)
      BY <2>1, <2>2 DEF Fresh
    <3>3. Fresh(i)' <= Fresh(i) + 1
      BY <1>0, <2>1, <2>2 DEF ClockInv, Fresh
    <3>. QED  BY <3>1, <3>2, <3>3, InterfacesAssumption DEF SentSinceRefresh, Interfaces
  <2>8. SentInv'
    <3>1. SentSinceRefresh \in Nat /\ SentSinceRefresh' \in Nat
      <4>1. \A j \in Interfaces : Fresh(j) \in Nat /\ Fresh(j)' \in Nat
        BY <1>0, <2>5, FreshFacts DEF ClockInv, Fresh
      <4>. QED  BY <4>1 DEF SentSinceRefresh, Interfaces
    <3>. QED  BY <1>0, <2>1, <2>3, <2>6, <2>7, <3>1 DEF ClockInv, SentInv
  <2>9. ASSUME NEW s, RateFits(s)  PROVE RateFits(s)'
    <3>1. s.at \in 0..clock /\ s.at - s.rate.over \in 0..clock
      BY <1>0, <2>9 DEF ClockInv, RateFits
    <3>2. history[s.at] \in Nat /\ history'[s.at] \in Nat /\ history[s.at] <= history'[s.at]
      <4>1. \A t \in 0..MaxClock : history[t] \in Nat /\ history[t] <= history'[t]
        BY <1>0, <2>3 DEF ClockInv
      <4>2. s.at \in 0..MaxClock
        BY <1>0, <3>1, BoundsAssumption DEF ClockInv
      <4>. QED  BY <2>3, <4>1, <4>2
    <3>. QED  BY <2>1, <2>6, <2>9, <3>1, <3>2 DEF RateFits
  <2>. QED  BY <2>5, <2>8, <2>9 DEF DeviceInv
<1>3. ASSUME NEW i \in Interfaces, Switch(i)
      PROVE  DeviceInv' /\ \A s : RateFits(s) => RateFits(s)'
  <2>1. /\ clock' = clock /\ counter' = counter /\ history' = history
        /\ networks' = networks /\ last_sample' = last_sample
        /\ present' \subseteq present \union {i}
    BY <1>3 DEF Switch, deviceVars, SymDiff
  <2>2. ClockInv'
    BY <1>0, <2>1 DEF ClockInv, Total
  <2>3. SentInv'
    BY <1>0, <2>1 DEF SentInv, SentSinceRefresh, Fresh, Before
  <2>4. ASSUME NEW s, RateFits(s)  PROVE RateFits(s)'
    BY <2>1, <2>4 DEF RateFits, Before
  <2>. QED  BY <2>2, <2>3, <2>4 DEF DeviceInv
<1>. QED  BY <1>1, <1>2, <1>3 DEF OsStep

\* Refreshing the list keeps the readings in order, and the bytes it returns
\* were sent in the time it returns with them.
LEMMA ReadingFits ==
    ASSUME DeviceInv, upload_rate, UNCHANGED osVars
    PROVE  /\ DeviceInv'
           /\ elapsed \in 0..clock /\ transmitted \in Nat
           /\ transmitted <= history[clock] - Before(clock - elapsed)
           /\ \A s : RateFits(s) => RateFits(s)'
<1>0. ClockInv /\ SentInv
  BY DEF DeviceInv
<1>1. /\ clock' = clock /\ present' = present /\ counter' = counter /\ history' = history
      /\ networks' = [i \in present |-> counter[i]] /\ last_sample' = clock
  BY DEF upload_rate, Refreshed, osVars
<1>2. elapsed \in 0..clock /\ clock - elapsed = last_sample
  BY <1>0 DEF ClockInv, elapsed
<1>3. transmitted \in Nat /\ transmitted <= SentSinceRefresh /\ SentSinceRefresh \in Nat
  <2>. DEFINE sent(i) ==
         IF i \in present \intersect DOMAIN networks THEN counter[i] - networks[i] ELSE 0
  <2>1. ASSUME NEW i \in Interfaces
        PROVE  sent(i) \in Nat /\ Fresh(i) \in Nat /\ sent(i) <= Fresh(i)
    BY <1>0, FreshFacts DEF ClockInv, Fresh
  <2>2. transmitted = sent(Wifi) + sent(Wired) + sent(Cellular) + sent(Other)
    BY DEF transmitted, Total, Interfaces
  <2>. HIDE DEF sent
  <2>. QED  BY <2>1, <2>2 DEF SentSinceRefresh, Interfaces
<1>4. history[clock] - Before(last_sample) \in Int
  BY <1>0, BoundsAssumption DEF ClockInv, Before
<1>5. transmitted <= history[clock] - Before(clock - elapsed)
  BY <1>0, <1>2, <1>3, <1>4 DEF SentInv
<1>6. ClockInv'
  <2>1. Total(counter)' = Total(counter)
    BY <1>1 DEF Total
  <2>2. DOMAIN networks' = present /\ \A i \in present : networks'[i] = counter[i]
    BY <1>1
  <2>3. \A i \in present : counter[i] \in Nat
    BY <1>0 DEF ClockInv
  <2>. QED  BY <1>0, <1>1, <2>1, <2>2, <2>3 DEF ClockInv
<1>7. SentInv'
  <2>1. ASSUME NEW i \in Interfaces  PROVE Fresh(i)' = 0
    BY <1>0, <1>1 DEF ClockInv, Fresh
  <2>2. SentSinceRefresh' = 0
    BY <2>1 DEF SentSinceRefresh, Interfaces
  <2>3. Before(clock) <= history[clock] /\ Before(clock) \in Nat /\ history[clock] \in Nat
    BY <1>0, BoundsAssumption DEF ClockInv, Before
  <2>4. Before(clock)' = Before(clock)
    BY <1>1 DEF Before
  <2>5. (Before(last_sample))' = Before(clock)
    BY <1>1 DEF Before
  <2>. QED  BY <1>1, <2>2, <2>3, <2>5 DEF SentInv
<1>8. \A s : RateFits(s) => RateFits(s)'
  BY <1>1 DEF RateFits, Before
<1>. QED  BY <1>2, <1>3, <1>5, <1>6, <1>7, <1>8 DEF DeviceInv

-----------------------------------------------------------------------------
(***************************************************************************)
(* Snapshots: the one under way and the ones taken. While one is under way *)
(* the list it will read the link from is one the machine has had.         *)
(***************************************************************************)
Snapshot ==
    [at: Int, rate: [sent: Int, over: Int],
     link: {"none", "Wired", "WifiOrUnknown", "Cellular"}, seen: SUBSET (SUBSET Interfaces)]

LinkFits(s) == s.link \in {classify_connection_type(i) : i \in s.seen}

SampleInv ==
    /\ DeviceInv
    /\ seen \subseteq SUBSET Interfaces
    /\ sample \in Snapshot
    /\ reading = "sampled" => DOMAIN networks \in seen /\ RateFits(sample)
    /\ \A s \in Snapshots : RateFits(s) /\ LinkFits(s)

\* What touches neither the machine nor the snapshot under way, and makes no
\* snapshot.
LEMMA SampleKept ==
    ASSUME SampleInv, UNCHANGED <<osVars, deviceVars, reading, seen, sample>>,
           Snapshots' \subseteq Snapshots
    PROVE  SampleInv'
<1>1. DeviceInv'
  BY DEF SampleInv, DeviceInv, ClockInv, SentInv, SentSinceRefresh, Fresh, Before, Total,
         osVars, deviceVars
<1>2. \A s : RateFits(s) => RateFits(s)'
  BY DEF RateFits, Before, osVars
<1>3. \A s : LinkFits(s)' = LinkFits(s)
  BY DEF LinkFits, classify_connection_type
<1>. QED  BY <1>1, <1>2, <1>3 DEF SampleInv, deviceVars, Snapshot

\* The machine goes on.
LEMMA MachineSample == ASSUME SampleInv, Machine  PROVE SampleInv'
<1>1. DeviceInv' /\ \A s : RateFits(s) => RateFits(s)'
  BY MachineKeeps DEF SampleInv, Machine
<1>2. /\ networks' = networks /\ reading' = reading /\ sample' = sample
      /\ device' = device /\ answers' = answers
      /\ seen' = IF reading = "sampled" THEN seen \union {present'} ELSE seen
  BY DEF Machine, OsStep, Pass, Transmit, Switch, deviceVars, windowVars
<1>3. present' \subseteq Interfaces
  BY <1>1 DEF DeviceInv, ClockInv
<1>4. Snapshots' = Snapshots
  BY <1>2 DEF Snapshots
<1>. QED  BY <1>1, <1>2, <1>3, <1>4 DEF SampleInv, LinkFits, classify_connection_type, Snapshot

\* A snapshot begins.
LEMMA BeginSample == ASSUME SampleInv, SnapshotSample  PROVE SampleInv'
<1>1. /\ reading' = "sampled" /\ seen' = {present} /\ answers' = answers /\ device' = device
      /\ sample' = [NoSnapshot EXCEPT !.rate = upload_rate_bytes_per_sec, !.at = clock]
      /\ upload_rate /\ UNCHANGED osVars
  BY DEF SnapshotSample, windowVars
<1>2. /\ DeviceInv'
      /\ elapsed \in 0..clock /\ transmitted \in Nat
      /\ transmitted <= history[clock] - Before(clock - elapsed)
      /\ \A s : RateFits(s) => RateFits(s)'
  BY <1>1, ReadingFits DEF SampleInv
<1>3. clock \in Nat /\ present \subseteq Interfaces
  BY DEF SampleInv, DeviceInv, ClockInv
<1>4. /\ sample' \in Snapshot /\ sample'.at = clock
      /\ sample'.rate.sent = transmitted /\ sample'.rate.over = elapsed
  <2>1. sample' = [at |-> clock, rate |-> [sent |-> transmitted, over |-> elapsed],
                   link |-> "none", seen |-> {}]
    BY <1>1 DEF NoSnapshot, upload_rate_bytes_per_sec
  <2>. QED  BY <1>2, <1>3, <2>1 DEF Snapshot
<1>5. RateFits(sample)'
  <2>1. clock' = clock /\ history' = history
    BY <1>1 DEF osVars
  <2>2. Before(clock - elapsed) = IF clock - elapsed = 0 THEN 0 ELSE history'[clock - elapsed - 1]
    BY <2>1 DEF Before
  <2>. QED  BY <1>2, <1>3, <1>4, <2>1, <2>2 DEF RateFits, Before
<1>6. DOMAIN networks' = present
  BY <1>1 DEF upload_rate, Refreshed
<1>7. Snapshots' = Snapshots
  BY <1>1 DEF Snapshots
<1>8. \A s \in Snapshots' : RateFits(s)' /\ LinkFits(s)'
  BY <1>2, <1>7 DEF SampleInv, LinkFits, classify_connection_type
<1>9. seen' \subseteq SUBSET Interfaces /\ DOMAIN networks' \in seen'
  BY <1>1, <1>3, <1>6
<1>. QED  BY <1>2, <1>4, <1>5, <1>8, <1>9 DEF SampleInv, Snapshot

\* A snapshot is complete and on its way.
LEMMA EndSample == ASSUME SampleInv, SnapshotLink  PROVE SampleInv'
<1>. DEFINE new == [sample EXCEPT !.link = connection_type, !.seen = seen]
<1>1. /\ reading = "sampled" /\ reading' = "idle" /\ seen' = {} /\ sample' = NoSnapshot
      /\ device' = device /\ UNCHANGED <<osVars, deviceVars>>
      /\ answers' = answers \union {[state |-> status, snap |-> new, of |-> Head(queue)]}
  BY DEF SnapshotLink, Answer, windowVars
<1>2. new.at = sample.at /\ new.rate = sample.rate /\ new.link = connection_type
      /\ new.seen = seen
  BY DEF SampleInv, Snapshot
<1>3. RateFits(new) /\ LinkFits(new)
  BY <1>1, <1>2 DEF SampleInv, RateFits, LinkFits, connection_type
<1>4. Snapshots' \subseteq Snapshots \union {new}
  BY <1>1 DEF Snapshots
<1>. HIDE DEF new
<1>5. DeviceInv'
  BY <1>1 DEF SampleInv, DeviceInv, ClockInv, SentInv, SentSinceRefresh, Fresh, Before, Total,
         osVars, deviceVars
<1>6. \A s : (RateFits(s) => RateFits(s)') /\ (LinkFits(s) => LinkFits(s)')
  BY <1>1 DEF RateFits, LinkFits, Before, osVars
<1>7. sample' \in Snapshot
  BY <1>1 DEF NoSnapshot, Snapshot
<1>. QED  BY <1>1, <1>3, <1>4, <1>5, <1>6, <1>7 DEF SampleInv, Snapshot

\* Every step of the desktop keeps the snapshots in order.
LEMMA SampleNext == SampleInv /\ [DesktopNext]_desktopVars => SampleInv'
<1>. SUFFICES ASSUME SampleInv, [DesktopNext]_desktopVars  PROVE SampleInv'
  OBVIOUS
<1>1. CASE Reload \/ toggleConnection \/ refreshDevice \/ Dropped \/ MountAnswer \/ ToggleAnswer
  <2>1. UNCHANGED <<osVars, deviceVars, reading, seen, sample>>
    BY <1>1 DEF Reload, toggleConnection, refreshDevice, Dropped, MountAnswer, ToggleAnswer
  <2>2. device' \in {device, NoSnapshot} /\ answers' \subseteq answers
    BY <1>1 DEF Reload, FirstPage, toggleConnection, refreshDevice, Dropped, MountAnswer,
                ToggleAnswer, windowVars
  <2>3. Snapshots' \subseteq Snapshots
    BY <2>2 DEF Snapshots
  <2>. QED  BY <2>1, <2>3, SampleKept
<1>2. CASE DeviceAnswer
  <2>1. UNCHANGED <<osVars, deviceVars, reading, seen, sample>>
    BY <1>2 DEF DeviceAnswer
  <2>2. device' \in {a.snap : a \in answers} /\ answers' \subseteq answers
    BY <1>2 DEF DeviceAnswer
  <2>3. Snapshots' \subseteq Snapshots
    BY <2>2 DEF Snapshots
  <2>. QED  BY <2>1, <2>3, SampleKept
<1>3. CASE connect \/ disconnect \/ connection_status
  <2>1. UNCHANGED <<osVars, deviceVars, reading, seen, sample>>
    BY <1>3 DEF connect, disconnect, connection_status, StatusCommand
  <2>2. /\ device' = device
        /\ \E a : a.snap = NoSnapshot /\ answers' = answers \union {a}
    BY <1>3 DEF connect, disconnect, connection_status, StatusCommand, Answer, windowVars
  <2>3. Snapshots' \subseteq Snapshots
    BY <2>2 DEF Snapshots
  <2>. QED  BY <2>1, <2>3, SampleKept
<1>4. CASE UNCHANGED desktopVars
  <2>1. UNCHANGED <<osVars, deviceVars, reading, seen, sample, device, answers>>
    BY <1>4 DEF desktopVars, appVars, windowVars
  <2>2. Snapshots' \subseteq Snapshots
    BY <2>1 DEF Snapshots
  <2>. QED  BY <2>1, <2>2, SampleKept
<1>. QED  BY <1>1, <1>2, <1>3, <1>4, MachineSample, BeginSample, EndSample DEF DesktopNext

\* The invariant of the snapshots.
LEMMA SampleInvariant == DesktopSpec => []SampleInv
<1>1. ASSUME DesktopInit  PROVE SampleInv
  <2>1. /\ clock = 0 /\ last_sample = 0 /\ present \subseteq Interfaces
        /\ counter = [i \in Interfaces |-> 0] /\ history = [t \in 0..MaxClock |-> 0]
        /\ networks = [i \in present |-> 0]
    BY <1>1 DEF DesktopInit, DeviceInit, Interfaces
  <2>2. ClockInv
    <3>1. Total(counter) = 0
      BY <2>1 DEF Total, Interfaces
    <3>. QED  BY <2>1, <3>1, BoundsAssumption DEF ClockInv
  <2>3. SentInv
    <3>1. \A i \in Interfaces : Fresh(i) = 0
      BY <2>1 DEF Fresh
    <3>2. SentSinceRefresh = 0
      BY <3>1 DEF SentSinceRefresh, Interfaces
    <3>. QED  BY <2>1, <3>2, BoundsAssumption DEF SentInv, Before
  <2>4. reading = "idle" /\ seen = {} /\ sample = NoSnapshot /\ Snapshots = {}
    BY <1>1 DEF DesktopInit, Snapshots
  <2>5. sample \in Snapshot
    BY <2>4 DEF NoSnapshot, Snapshot
  <2>. QED  BY <2>2, <2>3, <2>4, <2>5 DEF SampleInv, DeviceInv
<1>. QED  BY <1>1, SampleNext, PTL DEF DesktopSpec

\* The link of every snapshot is one the machine had while it was taken, for
\* any interfaces that come and go (device_snapshot, connection_type).
THEOREM LinkStaysCurrent == DesktopSpec => []LinkIsCurrent
<1>1. SampleInv => LinkIsCurrent
  BY DEF SampleInv, LinkFits, LinkIsCurrent
<1>. QED  BY <1>1, SampleInvariant, PTL

\* No snapshot shows an upload rate the machine did not have, whatever is sent
\* and however the interfaces come and go (upload_rate_bytes_per_sec).
THEOREM RateStaysReal == DesktopSpec => []RateIsReal
<1>1. SampleInv => RateIsReal
  BY DEF SampleInv, RateFits, Before, RateIsReal
<1>. QED  BY <1>1, SampleInvariant, PTL

-----------------------------------------------------------------------------
(***************************************************************************)
(* The window's status. Commands wait in the order they were sent, so      *)
(* those of the page on screen are the last ones, and the first of them is *)
(* the status it asked for at mount. Until that one has run nothing is     *)
(* known of the status; from then on only the page's own clicks change it, *)
(* and at most one of them is under way.                                   *)
(***************************************************************************)
CommandNames == {"connection_status", "connect", "disconnect", "device_snapshot"}
Commands == [cmd: CommandNames, page: Nat, left: Nat]

Places == 1..Len(queue)
MountAt(i) == queue[i].page = page /\ queue[i].cmd = "connection_status"
ToggleAt(i) == queue[i].page = page /\ queue[i].cmd \in {"connect", "disconnect"}
MountIn(a) == a.of.page = page /\ a.of.cmd = "connection_status"
ToggleIn(a) == a.of.page = page /\ a.of.cmd \in {"connect", "disconnect"}

\* Commands are in the order of their pages. One that takes long stays at the
\* head until it is answered.
QueueInv ==
    /\ page \in Nat /\ budget \in [Inputs -> Nat] /\ pending \in BOOLEAN
    /\ queue \in Seq(Commands)
    /\ \A i \in Places : queue[i].page <= page
    /\ \A i, j \in Places : i <= j => queue[i].page <= queue[j].page
    /\ \A a \in answers : a.of \in Commands /\ a.of.page <= page
    /\ reading = "sampled" => queue # <<>> /\ queue[1].cmd = "device_snapshot"

\* The button is disabled exactly while one click is under way.
ClickInv ==
    /\ \A i, j \in Places : ToggleAt(i) /\ ToggleAt(j) => i = j
    /\ \A a, b \in answers : ToggleIn(a) /\ ToggleIn(b) => a = b
    /\ \A i \in Places, a \in answers : ~(ToggleAt(i) /\ ToggleIn(a))
    /\ (\E i \in Places : ToggleAt(i)) => pending
    /\ (\E a \in answers : ToggleIn(a)) => pending
    /\ pending => (\E i \in Places : ToggleAt(i)) \/ (\E a \in answers : ToggleIn(a))

\* A command that was sent when so many clicks were left: none was made since,
\* or one was, as when the button is disabled.
SentBefore(left) == budget.toggle <= left /\ (pending => budget.toggle < left)

\* The page's first status is still to be read.
MountWaits ==
    /\ \E i \in Places :
          /\ MountAt(i) /\ SentBefore(queue[i].left)
          /\ \A j \in Places : queue[j].page = page /\ j # i => i < j /\ ~MountAt(j)
    /\ \A a \in answers : ~MountIn(a) /\ ~ToggleIn(a)

\* It has been read, and is on its way or shown.
MountDone ==
    /\ \A i \in Places : queue[i].page = page /\ ~MountAt(i)
    /\ \A a \in answers : ToggleIn(a) => a.state = status
    /\ \A a \in answers : MountIn(a) =>
          SentBefore(a.of.left) /\ (budget.toggle = a.of.left => a.state = status)
    /\ (\A a \in answers : ~MountIn(a)) /\ ~pending /\ ~overtaken => shown = status

WindowInv == QueueInv /\ ClickInv /\ (MountWaits \/ MountDone)

\* A command that is sent comes last.
Pushed(n, x) ==
    /\ queue' \in Seq(Commands) /\ queue' # <<>>
    /\ Places' = Places \union {n} /\ queue'[n] = x
    /\ \A i \in Places : queue'[i] = queue[i] /\ i \in Nat /\ i < n

\* Appending puts it there.
LEMMA PushFacts ==
    ASSUME QueueInv, NEW x \in Commands, queue' = Append(queue, x)
    PROVE  \E n \in Nat : Pushed(n, x)
<1>1. queue \in Seq(Commands) /\ Len(queue) \in Nat
  BY DEF QueueInv
<1>2. /\ Len(queue') = Len(queue) + 1 /\ queue' \in Seq(Commands)
      /\ queue'[Len(queue) + 1] = x /\ \A i \in 1..Len(queue) : queue'[i] = queue[i]
  BY <1>1
<1>3. queue' # <<>>
  BY <1>1, <1>2
<1>4. Places' = Places \union {Len(queue) + 1}
  BY <1>1, <1>2 DEF Places
<1>5. /\ \A i \in Places : queue'[i] = queue[i] /\ i \in Nat /\ i < Len(queue) + 1
      /\ Len(queue) + 1 \in Nat
  BY <1>1, <1>2 DEF Places
<1>. QED  BY <1>2, <1>3, <1>4, <1>5 DEF Pushed

\* A command that was run leaves the head.
Popped ==
    /\ queue' \in Seq(Commands) /\ 1 \in Places
    /\ \A i \in Places : i \in Nat
    /\ \A i \in Places' : /\ i \in Nat /\ i >= 1
                         /\ i + 1 \in Places /\ queue'[i] = queue[i + 1]
    /\ \A i \in Places : i # 1 => i - 1 \in Places' /\ queue'[i - 1] = queue[i]

\* Taking the head off does that.
LEMMA PopFacts ==
    ASSUME QueueInv, queue # <<>>, queue' = Tail(queue)
    PROVE  Popped /\ Head(queue) = queue[1]
<1>1. queue \in Seq(Commands) /\ Len(queue) \in Nat /\ Len(queue) >= 1
  BY DEF QueueInv
<1>2. Len(queue') = Len(queue) - 1 /\ queue' \in Seq(Commands)
  BY <1>1
<1>3. Head(queue) = queue[1]
  BY <1>1
<1>4. \A i \in 1..(Len(queue) - 1) : queue'[i] = queue[i + 1]
  BY <1>1
<1>5. \A i \in 2..Len(queue) : queue'[i - 1] = queue[i]
  BY <1>1, <1>4
<1>. QED  BY <1>1, <1>2, <1>3, <1>4, <1>5 DEF Places, Popped

\* The commands under way have numbers.
LEMMA CommandFacts ==
    ASSUME QueueInv
    PROVE  /\ \A i \in Places : /\ queue[i] \in Commands /\ queue[i].page <= page
                              /\ queue[i].page \in Nat /\ queue[i].left \in Nat
           /\ \A a \in answers : /\ a.of \in Commands /\ a.of.page <= page
                                /\ a.of.page \in Nat /\ a.of.left \in Nat
<1>1. \A x \in Commands : x.page \in Nat /\ x.left \in Nat
  BY DEF Commands
<1>2. \A i \in Places : queue[i] \in Commands
  BY DEF QueueInv, Places
<1>. QED  BY <1>1, <1>2 DEF QueueInv

\* What touches neither commands nor answers nor window nor status.
LEMMA QuietWindow ==
    ASSUME WindowInv, UNCHANGED <<status, queue, answers, shown, pending, page, overtaken>>,
           budget' \in [Inputs -> Nat], budget'.toggle = budget.toggle,
           reading' = "sampled" => queue # <<>> /\ queue[1].cmd = "device_snapshot"
    PROVE  WindowInv'
<1>1. QueueInv'
  BY DEF WindowInv, QueueInv, Places
<1>2. ClickInv'
  BY DEF WindowInv, ClickInv, Places, ToggleAt, ToggleIn
<1>3. MountWaits => MountWaits'
  BY DEF MountWaits, Places, MountAt, MountIn, ToggleIn, SentBefore
<1>4. MountDone => MountDone'
  BY DEF MountDone, Places, MountAt, MountIn, ToggleIn, SentBefore
<1>. QED  BY <1>1, <1>2, <1>3, <1>4 DEF WindowInv

\* An input is spent.
LEMMA SpendFacts ==
    ASSUME budget \in [Inputs -> Nat], NEW input \in Inputs, Spend(input)
    PROVE  /\ budget' \in [Inputs -> Nat]
           /\ budget'[input] = budget[input] - 1
           /\ \A i \in Inputs \ {input} : budget'[i] = budget[i]
BY DEF Spend

\* The machine goes on, or a snapshot begins.
LEMMA MachineWindow == ASSUME WindowInv, Machine \/ SnapshotSample  PROVE WindowInv'
<1>0. QueueInv
  BY DEF WindowInv
<1>1. CASE Machine
  <2>1. \E i \in {"time", "send", "switch"} : Spend(i)
    BY <1>1 DEF Machine, OsStep, Pass, Transmit, Switch
  <2>2. budget' \in [Inputs -> Nat] /\ budget'.toggle = budget.toggle
    BY <1>0, <2>1, SpendFacts DEF QueueInv, Inputs
  <2>. QED  BY <1>0, <1>1, <2>2, QuietWindow DEF Machine, windowVars, QueueInv
<1>2. CASE SnapshotSample
  <2>1. queue[1].cmd = "device_snapshot" /\ queue # <<>>
    BY <1>0, <1>2 DEF SnapshotSample, QueueInv
  <2>. QED  BY <1>0, <1>2, <2>1, QuietWindow DEF SnapshotSample, windowVars, QueueInv
<1>. QED  BY <1>1, <1>2

\* A command of the page on screen keeps the order of the queue.
LEMMA PushQueue ==
    ASSUME QueueInv, NEW x \in Commands, NEW n \in Nat, Pushed(n, x), x.page = page',
           page' \in Nat, page <= page', pending' \in BOOLEAN, budget' \in [Inputs -> Nat],
           reading' = reading, answers' = answers
    PROVE  QueueInv'
<1>1. queue' \in Seq(Commands) /\ queue' # <<>>
  BY DEF Pushed
<1>2. /\ Places' = Places \union {n} /\ queue'[n].page = page'
      /\ \A i \in Places : queue'[i] = queue[i] /\ i \in Nat /\ i < n
  BY DEF Pushed
<1>3. /\ \A i \in Places : queue[i].page <= page /\ queue[i].page \in Nat
      /\ \A a \in answers : a.of \in Commands /\ a.of.page <= page /\ a.of.page \in Nat
      /\ page \in Nat
  BY CommandFacts DEF QueueInv
<1>4. ASSUME NEW i \in Places'  PROVE queue'[i].page <= page'
  <2>1. CASE i = n
    BY <1>2, <2>1
  <2>2. CASE i \in Places
    <3>1. queue'[i].page <= page /\ queue'[i].page \in Nat
      BY <1>2, <1>3, <2>2
    <3>. QED  BY <1>3, <3>1
  <2>. QED  BY <1>2, <1>4, <2>1, <2>2
<1>5. ASSUME NEW i \in Places', NEW j \in Places', i <= j
      PROVE  queue'[i].page <= queue'[j].page
  <2>1. CASE j = n
    BY <1>2, <1>4, <2>1
  <2>2. CASE i \in Places /\ j \in Places
    BY <1>2, <1>5, <2>2 DEF QueueInv
  <2>3. CASE i = n /\ j \in Places
    <3>1. j \in Nat /\ j < n /\ n <= j
      BY <1>2, <1>5, <2>3
    <3>. QED  BY <3>1
  <2>. QED  BY <1>2, <1>5, <2>1, <2>2, <2>3
<1>6. \A a \in answers' : a.of \in Commands /\ a.of.page <= page'
  BY <1>3
<1>7. reading' = "sampled" => queue' # <<>> /\ queue'[1].cmd = "device_snapshot"
  BY <1>1, <1>2 DEF QueueInv, Places
<1>. QED  BY <1>1, <1>4, <1>5, <1>6, <1>7 DEF QueueInv

\* The page is loaded again: its status is the last command to run.
LEMMA ReloadWindow == ASSUME WindowInv, Reload  PROVE WindowInv'
<1>0. QueueInv /\ Spend("load") /\ budget.toggle \in Nat /\ page \in Nat
  BY DEF WindowInv, Reload, QueueInv, Inputs
<1>1. /\ page' = page + 1 /\ pending' = FALSE /\ reading' = reading /\ answers' = answers
  BY DEF Reload, FirstPage
<1>2. PICK x \in Commands :
         /\ queue' = Append(queue, x)
         /\ x.cmd = "connection_status" /\ x.page = page + 1 /\ x.left = budget.toggle
  <2>1. Command("connection_status", page + 1) \in Commands
    BY <1>0 DEF Command, Commands, CommandNames
  <2>. QED  BY <2>1 DEF Reload, Command
<1>3. budget' \in [Inputs -> Nat] /\ budget'.toggle = budget.toggle
  BY <1>0, SpendFacts DEF QueueInv, Inputs
<1>4. PICK n \in Nat : Pushed(n, x)
  BY <1>0, <1>2, PushFacts
<1>5. /\ queue'[n].cmd = "connection_status" /\ queue'[n].page = page + 1
      /\ queue'[n].left = budget.toggle
  BY <1>2, <1>4 DEF Pushed
<1>6. /\ \A i \in Places : queue[i].page <= page /\ queue[i].page \in Nat
      /\ \A a \in answers : a.of \in Commands /\ a.of.page <= page /\ a.of.page \in Nat
  BY <1>0, CommandFacts
<1>7. QueueInv'
  <2>1. x.page = page' /\ page' \in Nat /\ page <= page'
    BY <1>0, <1>1, <1>2
  <2>2. pending' \in BOOLEAN
    BY <1>1
  <2>. QED  BY <1>0, <1>1, <1>3, <1>4, <2>1, <2>2, PushQueue
<1>8. \A a \in answers' : ~MountIn(a)' /\ ~ToggleIn(a)'
  BY <1>0, <1>1, <1>6 DEF MountIn, ToggleIn
<1>9. ASSUME NEW i \in Places'  PROVE ~ToggleAt(i)' /\ (queue'[i].page = page' => i = n)
  <2>1. CASE i = n
    BY <1>5, <2>1 DEF ToggleAt
  <2>2. CASE i \in Places
    BY <1>0, <1>1, <1>4, <1>6, <2>2 DEF ToggleAt, Pushed
  <2>. QED  BY <1>4, <1>9, <2>1, <2>2 DEF Pushed
<1>10. ClickInv'
  BY <1>1, <1>8, <1>9 DEF ClickInv
<1>11. MountWaits'
  <2>1. n \in Places' /\ MountAt(n)' /\ SentBefore(queue[n].left)'
    BY <1>0, <1>1, <1>3, <1>4, <1>5 DEF MountAt, SentBefore, Pushed
  <2>. QED  BY <1>8, <1>9, <2>1 DEF MountWaits
<1>. QED  BY <1>7, <1>10, <1>11 DEF WindowInv

\* A click: the button was enabled, so this one is alone.
LEMMA ToggleWindow == ASSUME WindowInv, toggleConnection  PROVE WindowInv'
<1>0. QueueInv /\ ClickInv /\ Spend("toggle") /\ budget.toggle \in Nat /\ page \in Nat /\ ~pending
  BY DEF WindowInv, toggleConnection, QueueInv, Inputs
<1>1. /\ page' = page /\ pending' = TRUE /\ reading' = reading /\ answers' = answers
      /\ status' = status
  BY DEF toggleConnection
<1>2. PICK x \in Commands :
         /\ queue' = Append(queue, x)
         /\ x.cmd \in {"connect", "disconnect"} /\ x.page = page /\ x.left = budget.toggle
  <2>1. \A c \in CommandNames : Command(c, page) \in Commands
    BY <1>0 DEF Command, Commands
  <2>2. "connect" \in CommandNames /\ "disconnect" \in CommandNames
    BY DEF CommandNames
  <2>. QED  BY <2>1, <2>2 DEF toggleConnection, Command
<1>3. budget' \in [Inputs -> Nat] /\ budget'.toggle = budget.toggle - 1
  BY <1>0, SpendFacts DEF QueueInv, Inputs
<1>3a. PICK n \in Nat : Pushed(n, x)
  BY <1>0, <1>2, PushFacts
<1>4. /\ Places' = Places \union {n} /\ queue'[n] = x
      /\ \A i \in Places : queue'[i] = queue[i] /\ i \in Nat /\ i < n
  BY <1>3a DEF Pushed
<1>5. queue'[n].cmd \in {"connect", "disconnect"} /\ queue'[n].page = page
  BY <1>2, <1>4
<1>6. QueueInv'
  <2>1. x.page = page' /\ page' \in Nat /\ page <= page' /\ pending' \in BOOLEAN
    BY <1>0, <1>1, <1>2
  <2>. QED  BY <1>0, <1>1, <1>3, <1>3a, <2>1, PushQueue
<1>7. /\ ToggleAt(n)' /\ ~MountAt(n)'
      /\ \A i \in Places : ~ToggleAt(i)' /\ MountAt(i)' = MountAt(i)
      /\ \A a \in answers : ~ToggleIn(a)' /\ ~ToggleIn(a) /\ MountIn(a)' = MountIn(a)
  <2>1. /\ \A i \in Places : ~ToggleAt(i)
        /\ \A a \in answers : ~ToggleIn(a)
    BY <1>0 DEF ClickInv
  <2>. QED  BY <1>1, <1>4, <1>5, <2>1 DEF ToggleAt, MountAt, ToggleIn, MountIn
<1>8. ClickInv'
  BY <1>1, <1>4, <1>7 DEF ClickInv
<1>9. \A left \in Nat : SentBefore(left) => SentBefore(left)'
  BY <1>0, <1>3 DEF SentBefore
<1>10. CASE MountWaits
  <2>1. PICK i \in Places :
           /\ MountAt(i) /\ SentBefore(queue[i].left)
           /\ \A j \in Places : queue[j].page = page /\ j # i => i < j /\ ~MountAt(j)
    BY <1>10 DEF MountWaits
  <2>2. queue[i].left \in Nat
    BY <1>0, CommandFacts
  <2>3. i \in Places' /\ MountAt(i)' /\ SentBefore(queue[i].left)'
    BY <1>4, <1>7, <1>9, <2>1, <2>2 DEF SentBefore
  <2>4. ASSUME NEW j \in Places', queue'[j].page = page', j # i  PROVE i < j /\ ~MountAt(j)'
    BY <1>1, <1>4, <1>7, <2>1, <2>4
  <2>5. \A a \in answers' : ~MountIn(a)' /\ ~ToggleIn(a)'
    BY <1>1, <1>7, <1>10 DEF MountWaits
  <2>6. MountWaits'
    BY <2>3, <2>4, <2>5 DEF MountWaits
  <2>. QED  BY <1>6, <1>8, <2>6 DEF WindowInv
<1>11. CASE MountDone
  <2>1. \A i \in Places' : queue'[i].page = page' /\ ~MountAt(i)'
    BY <1>1, <1>4, <1>5, <1>7, <1>11 DEF MountDone
  <2>2. ASSUME NEW a \in answers', MountIn(a)'
        PROVE  SentBefore(a.of.left)' /\ ~(budget'.toggle = a.of.left)
    <3>1. SentBefore(a.of.left) /\ a.of.left \in Nat
      BY <1>0, <1>1, <1>7, <1>11, <2>2, CommandFacts DEF MountDone
    <3>. QED  BY <1>0, <1>3, <1>9, <3>1 DEF SentBefore
  <2>3. MountDone'
    BY <1>1, <1>7, <2>1, <2>2 DEF MountDone
  <2>. QED  BY <1>6, <1>8, <2>3 DEF WindowInv
<1>. QED  BY <1>10, <1>11 DEF WindowInv

\* A snapshot is asked for.
LEMMA RefreshWindow == ASSUME WindowInv, refreshDevice  PROVE WindowInv'
<1>0. QueueInv /\ ClickInv /\ Spend("refresh") /\ budget.toggle \in Nat /\ page \in Nat
  BY DEF WindowInv, refreshDevice, QueueInv, Inputs
<1>1. /\ page' = page /\ pending' = pending /\ reading' = reading /\ answers' = answers
      /\ status' = status /\ shown' = shown /\ overtaken' = overtaken
  BY DEF refreshDevice
<1>2. PICK x \in Commands :
         /\ queue' = Append(queue, x) /\ x.cmd = "device_snapshot" /\ x.page = page
  <2>1. Command("device_snapshot", page) \in Commands
    BY <1>0 DEF Command, Commands, CommandNames
  <2>. QED  BY <2>1 DEF refreshDevice, Command
<1>3. budget' \in [Inputs -> Nat] /\ budget'.toggle = budget.toggle
  BY <1>0, SpendFacts DEF QueueInv, Inputs
<1>3a. PICK n \in Nat : Pushed(n, x)
  BY <1>0, <1>2, PushFacts
<1>4. /\ Places' = Places \union {n} /\ queue'[n] = x
      /\ \A i \in Places : queue'[i] = queue[i] /\ i \in Nat /\ i < n
  BY <1>3a DEF Pushed
<1>5. queue'[n].cmd = "device_snapshot" /\ queue'[n].page = page
  BY <1>2, <1>4
<1>6. QueueInv'
  <2>1. x.page = page' /\ page' \in Nat /\ page <= page' /\ pending' \in BOOLEAN
    BY <1>0, <1>1, <1>2 DEF QueueInv
  <2>. QED  BY <1>0, <1>1, <1>3, <1>3a, <2>1, PushQueue
<1>7. /\ ~ToggleAt(n)' /\ ~MountAt(n)'
      /\ \A i \in Places : ToggleAt(i)' = ToggleAt(i) /\ MountAt(i)' = MountAt(i)
      /\ \A a \in answers : ToggleIn(a)' = ToggleIn(a) /\ MountIn(a)' = MountIn(a)
      /\ \A left : SentBefore(left) => SentBefore(left)'
  BY <1>1, <1>3, <1>4, <1>5 DEF ToggleAt, MountAt, ToggleIn, MountIn, SentBefore
<1>8. ClickInv'
  BY <1>0, <1>1, <1>4, <1>7 DEF ClickInv
<1>9. CASE MountWaits
  <2>1. PICK i \in Places :
           /\ MountAt(i) /\ SentBefore(queue[i].left)
           /\ \A j \in Places : queue[j].page = page /\ j # i => i < j /\ ~MountAt(j)
    BY <1>9 DEF MountWaits
  <2>2. i \in Places' /\ MountAt(i)' /\ SentBefore(queue[i].left)'
    BY <1>4, <1>7, <2>1 DEF SentBefore
  <2>3. ASSUME NEW j \in Places', queue'[j].page = page', j # i  PROVE i < j /\ ~MountAt(j)'
    BY <1>1, <1>4, <1>7, <2>1, <2>3
  <2>4. MountWaits'
    BY <1>1, <1>7, <1>9, <2>2, <2>3 DEF MountWaits
  <2>. QED  BY <1>6, <1>8, <2>4 DEF WindowInv
<1>10. CASE MountDone
  <2>1. \A i \in Places' : queue'[i].page = page' /\ ~MountAt(i)'
    BY <1>1, <1>4, <1>5, <1>7, <1>10 DEF MountDone
  <2>2. MountDone'
    BY <1>1, <1>3, <1>7, <1>10, <2>1 DEF MountDone
  <2>. QED  BY <1>6, <1>8, <2>2 DEF WindowInv
<1>. QED  BY <1>9, <1>10 DEF WindowInv

\* A command of the process runs: the head of the queue becomes an answer.
RunsHead(a) ==
    /\ Popped /\ a.of = queue[1] /\ answers' = answers \union {a}
    /\ page' = page /\ budget' = budget /\ pending' = pending /\ shown' = shown
    /\ overtaken' = overtaken /\ reading' # "sampled"
    /\ IF queue[1].cmd \in {"connect", "disconnect"} THEN TRUE ELSE status' = status
    /\ queue[1].cmd # "device_snapshot" => a.state = status'

\* The queue stays in order.
LEMMA RunQueue == ASSUME QueueInv, NEW a, RunsHead(a)  PROVE QueueInv'
<1>1. Popped /\ a.of = queue[1] /\ answers' = answers \union {a}
      /\ page' = page /\ budget' = budget /\ pending' = pending /\ reading' # "sampled"
  BY DEF RunsHead
<1>2. \A i \in Places : queue[i] \in Commands /\ queue[i].page <= page
  BY CommandFacts
<1>3. \A i \in Places' : queue'[i].page <= page'
  BY <1>1, <1>2 DEF Popped
<1>4. ASSUME NEW i \in Places', NEW j \in Places', i <= j
      PROVE  queue'[i].page <= queue'[j].page
  <2>1. /\ i + 1 \in Places /\ j + 1 \in Places /\ i + 1 <= j + 1
        /\ queue'[i] = queue[i + 1] /\ queue'[j] = queue[j + 1]
    BY <1>1, <1>4 DEF Popped
  <2>. QED  BY <2>1 DEF QueueInv
<1>5. \A b \in answers' : b.of \in Commands /\ b.of.page <= page'
  BY <1>1, <1>2 DEF QueueInv, Popped
<1>. QED  BY <1>1, <1>3, <1>4, <1>5 DEF QueueInv, Popped

\* The click under way is run, or another command is.
LEMMA RunClick == ASSUME QueueInv, ClickInv, NEW a, RunsHead(a)  PROVE ClickInv'
<1>1. answers' = answers \union {a} /\ pending' = pending /\ 1 \in Places
  BY DEF RunsHead, Popped
<1>2. /\ \A i \in Places' : /\ i \in Nat /\ i + 1 \in Places /\ i + 1 # 1
                            /\ ToggleAt(i)' = ToggleAt(i + 1)
      /\ \A i \in Places : i # 1 => i - 1 \in Places' /\ ToggleAt(i - 1)' = ToggleAt(i)
      /\ \A b : ToggleIn(b)' = ToggleIn(b)
      /\ ToggleIn(a) = ToggleAt(1)
  BY DEF RunsHead, Popped, ToggleAt, ToggleIn
<1>3. \A i, j \in Places' : ToggleAt(i)' /\ ToggleAt(j)' => i = j
  <2>. SUFFICES ASSUME NEW i \in Places', NEW j \in Places', ToggleAt(i)', ToggleAt(j)'
                PROVE  i = j
    OBVIOUS
  <2>1. i + 1 = j + 1
    BY <1>2 DEF ClickInv
  <2>. QED  BY <1>2, <2>1
<1>4. \A b, d \in answers' : ToggleIn(b)' /\ ToggleIn(d)' => b = d
  BY <1>1, <1>2 DEF ClickInv
<1>5. \A i \in Places', b \in answers' : ~(ToggleAt(i)' /\ ToggleIn(b)')
  BY <1>1, <1>2 DEF ClickInv
<1>6. /\ (\E i \in Places' : ToggleAt(i)') => pending'
      /\ (\E b \in answers' : ToggleIn(b)') => pending'
  BY <1>1, <1>2 DEF ClickInv
<1>7. ASSUME pending'
      PROVE  (\E i \in Places' : ToggleAt(i)') \/ (\E b \in answers' : ToggleIn(b)')
  <2>1. CASE \E i \in Places : ToggleAt(i)
    BY <1>1, <1>2, <2>1
  <2>2. CASE \E b \in answers : ToggleIn(b)
    BY <1>1, <1>2, <2>2
  <2>. QED  BY <1>1, <1>7, <2>1, <2>2 DEF ClickInv
<1>. QED  BY <1>3, <1>4, <1>5, <1>6, <1>7 DEF ClickInv

\* Running a command keeps the window in order.
LEMMA RunWindow == ASSUME WindowInv, NEW a, RunsHead(a)  PROVE WindowInv'
<1>0. QueueInv /\ ClickInv /\ QueueInv' /\ ClickInv'
  BY RunQueue, RunClick DEF WindowInv
<1>1. /\ Popped /\ 1 \in Places /\ a.of = queue[1] /\ answers' = answers \union {a}
      /\ page' = page /\ budget' = budget /\ pending' = pending /\ shown' = shown
      /\ overtaken' = overtaken
  BY DEF RunsHead, Popped
<1>2. /\ \A i \in Places' : i \in Nat /\ i >= 1 /\ i + 1 \in Places /\ queue'[i] = queue[i + 1]
      /\ \A i \in Places : i # 1 => i - 1 \in Places' /\ queue'[i - 1] = queue[i]
      /\ \A i \in Places : i \in Nat
  BY <1>1 DEF Popped
<1>3. /\ \A i \in Places' : MountAt(i)' = MountAt(i + 1)
      /\ \A i \in Places : i # 1 => MountAt(i - 1)' = MountAt(i)
      /\ \A b : ToggleIn(b)' = ToggleIn(b) /\ MountIn(b)' = MountIn(b)
      /\ ToggleIn(a) = ToggleAt(1) /\ MountIn(a) = MountAt(1)
      /\ \A left : SentBefore(left)' = SentBefore(left)
  BY <1>1, <1>2 DEF MountAt, ToggleAt, ToggleIn, MountIn, SentBefore
<1>4. CASE MountWaits
  <2>1. PICK i \in Places :
           /\ MountAt(i) /\ SentBefore(queue[i].left)
           /\ \A j \in Places : queue[j].page = page /\ j # i => i < j /\ ~MountAt(j)
    BY <1>4 DEF MountWaits
  <2>2. CASE i # 1
    <3>1. queue[1].page # page
      <4>1. i \in Nat /\ i >= 1
        BY <1>0 DEF QueueInv, Places
      <4>. QED  BY <1>1, <2>1, <2>2, <4>1
    <3>2. i - 1 \in Places' /\ queue'[i - 1] = queue[i] /\ MountAt(i - 1)'
      BY <1>2, <1>3, <2>1, <2>2
    <3>3. SentBefore(queue[i - 1].left)'
      BY <1>1, <2>1, <3>2 DEF SentBefore
    <3>4. ASSUME NEW j \in Places', queue'[j].page = page', j # i - 1
          PROVE  i - 1 < j /\ ~MountAt(j)'
      <4>1. j + 1 \in Places /\ queue[j + 1].page = page /\ j + 1 # i /\ j \in Nat /\ i \in Nat
        BY <1>1, <1>2, <3>4
      <4>2. i < j + 1 /\ ~MountAt(j + 1)
        BY <2>1, <4>1
      <4>. QED  BY <1>3, <4>1, <4>2
    <3>5. \A b \in answers' : ~MountIn(b)' /\ ~ToggleIn(b)'
      BY <1>1, <1>3, <1>4, <3>1 DEF MountWaits, MountAt, ToggleAt
    <3>6. MountWaits'
      BY <3>2, <3>3, <3>4, <3>5 DEF MountWaits
    <3>. QED  BY <1>0, <3>6 DEF WindowInv
  <2>3. CASE i = 1
    <3>1. ASSUME NEW j \in Places'  PROVE queue'[j].page = page' /\ ~MountAt(j)'
      <4>1. /\ j \in Nat /\ j + 1 \in Places /\ 1 <= j + 1 /\ j + 1 # 1
            /\ queue'[j] = queue[j + 1]
        BY <1>2
      <4>2. queue[1].page <= queue[j + 1].page /\ queue[j + 1].page <= page
        BY <1>0, <1>1, <4>1 DEF QueueInv
      <4>3. queue[1].page = page /\ page \in Nat /\ queue[j + 1].page \in Nat
        BY <1>0, <2>1, <2>3, <4>1, CommandFacts DEF MountAt, QueueInv
      <4>4. queue[j + 1].page = page
        BY <4>2, <4>3
      <4>. QED  BY <1>1, <1>3, <2>1, <2>3, <4>1, <4>4
    <3>2. /\ MountIn(a)' /\ ~ToggleIn(a)' /\ SentBefore(a.of.left)'
          /\ a.state = status'
      BY <1>1, <1>3, <2>1, <2>3 DEF RunsHead, MountAt, ToggleAt
    <3>3. \A b \in answers : ~MountIn(b)' /\ ~ToggleIn(b)'
      BY <1>3, <1>4 DEF MountWaits
    <3>4. MountDone'
      BY <1>1, <3>1, <3>2, <3>3 DEF MountDone
    <3>. QED  BY <1>0, <3>4 DEF WindowInv
  <2>. QED  BY <2>2, <2>3
<1>5. CASE MountDone
  <2>1. \A i \in Places' : queue'[i].page = page' /\ ~MountAt(i)'
    BY <1>1, <1>2, <1>3, <1>5 DEF MountDone
  <2>2. ~MountIn(a)' /\ queue[1].page = page
    BY <1>1, <1>3, <1>5 DEF MountDone
  <2>3. CASE queue[1].cmd \in {"connect", "disconnect"}
    <3>1. ToggleAt(1) /\ pending /\ a.state = status' /\ \A b \in answers : ~ToggleIn(b)
      BY <1>0, <1>1, <2>2, <2>3 DEF ToggleAt, ClickInv, RunsHead
    <3>2. ASSUME NEW b \in answers, MountIn(b)'
          PROVE  SentBefore(b.of.left)' /\ ~(budget'.toggle = b.of.left)
      <4>1. SentBefore(b.of.left) /\ b.of.left \in Nat /\ budget.toggle \in Nat
        BY <1>0, <1>3, <1>5, <3>2, CommandFacts DEF MountDone, QueueInv, Inputs
      <4>. QED  BY <1>1, <3>1, <4>1 DEF SentBefore
    <3>3. MountDone'
      BY <1>1, <1>3, <2>1, <2>2, <3>1, <3>2 DEF MountDone
    <3>. QED  BY <1>0, <3>3 DEF WindowInv
  <2>4. CASE queue[1].cmd \notin {"connect", "disconnect"}
    <3>1. status' = status /\ ~ToggleIn(a)'
      BY <1>1, <1>3, <2>4 DEF RunsHead, ToggleAt
    <3>2. MountDone'
      BY <1>1, <1>3, <1>5, <2>1, <2>2, <3>1 DEF MountDone
    <3>. QED  BY <1>0, <3>2 DEF WindowInv
  <2>. QED  BY <2>3, <2>4
<1>. QED  BY <1>4, <1>5 DEF WindowInv

\* The four commands of the process.
LEMMA CommandWindow ==
    ASSUME WindowInv, connect \/ disconnect \/ connection_status \/ SnapshotLink
    PROVE  WindowInv'
<1>0. QueueInv
  BY DEF WindowInv
<1>1. ASSUME NEW cmd \in CommandNames \ {"device_snapshot"}, NEW next,
             StatusCommand(cmd, next), cmd = "connection_status" => next = status
      PROVE  WindowInv'
  <2>1. Popped /\ Head(queue) = queue[1]
    BY <1>0, <1>1, PopFacts DEF StatusCommand, Answer
  <2>2. queue[1].cmd = cmd /\ reading' = reading /\ status' = next
    BY <1>1, <2>1 DEF StatusCommand
  <2>3. reading # "sampled"
    BY <1>0, <1>1, <2>2 DEF QueueInv
  <2>4. /\ page' = page /\ budget' = budget /\ pending' = pending /\ shown' = shown
        /\ overtaken' = overtaken
    BY <1>1 DEF StatusCommand, windowVars
  <2>5. PICK a : a.of = queue[1] /\ a.state = next /\ answers' = answers \union {a}
    BY <1>1, <2>1 DEF StatusCommand, Answer
  <2>6. RunsHead(a)
    BY <1>1, <2>1, <2>2, <2>3, <2>4, <2>5 DEF RunsHead, CommandNames
  <2>. QED  BY <2>6, RunWindow
<1>2. CASE SnapshotLink
  <2>1. queue # <<>> /\ queue[1].cmd = "device_snapshot" /\ queue' = Tail(queue)
    BY <1>0, <1>2 DEF SnapshotLink, Answer, QueueInv
  <2>2. Popped /\ Head(queue) = queue[1]
    BY <1>0, <2>1, PopFacts
  <2>3. /\ page' = page /\ budget' = budget /\ pending' = pending /\ shown' = shown
        /\ overtaken' = overtaken /\ reading' # "sampled" /\ status' = status
    BY <1>2 DEF SnapshotLink, windowVars
  <2>4. PICK a : a.of = queue[1] /\ answers' = answers \union {a}
    BY <1>2, <2>2 DEF SnapshotLink, Answer
  <2>5. RunsHead(a)
    BY <2>1, <2>2, <2>3, <2>4 DEF RunsHead
  <2>. QED  BY <2>5, RunWindow
<1>3. {"connect", "disconnect", "connection_status"} \subseteq CommandNames \ {"device_snapshot"}
  BY DEF CommandNames
<1>. QED  BY <1>1, <1>2, <1>3 DEF connect, disconnect, connection_status

\* Removing an answer leaves the queue alone.
LEMMA TakenQueue ==
    ASSUME QueueInv, answers' \subseteq answers, pending' \in BOOLEAN,
           UNCHANGED <<queue, reading, page, budget>>
    PROVE  QueueInv'
BY DEF QueueInv, Places

\* The tests on commands and answers, when the page stays.
LEMMA SameTests ==
    ASSUME UNCHANGED <<queue, page, budget>>
    PROVE  /\ Places' = Places
           /\ \A i : ToggleAt(i)' = ToggleAt(i) /\ MountAt(i)' = MountAt(i)
           /\ \A a : ToggleIn(a)' = ToggleIn(a) /\ MountIn(a)' = MountIn(a)
           /\ pending' = pending => \A left : SentBefore(left)' = SentBefore(left)
BY DEF Places, ToggleAt, MountAt, ToggleIn, MountIn, SentBefore

\* An answer that is no status of this page: of an old page, or a snapshot.
LEMMA OtherAnswer ==
    ASSUME WindowInv, NEW a \in answers, ~ToggleIn(a), ~MountIn(a), answers' = answers \ {a},
           UNCHANGED <<status, queue, reading, shown, pending, page, overtaken, budget>>
    PROVE  WindowInv'
<1>0. QueueInv' /\ Places' = Places
  BY TakenQueue, SameTests DEF WindowInv, QueueInv
<1>1. ClickInv'
  BY <1>0, SameTests DEF WindowInv, ClickInv
<1>2. MountWaits => MountWaits'
  <2>. SUFFICES ASSUME MountWaits  PROVE MountWaits'
    OBVIOUS
  <2>1. \E i \in Places' :
          /\ MountAt(i)' /\ SentBefore(queue[i].left)'
          /\ \A j \in Places' : queue'[j].page = page' /\ j # i => i < j /\ ~MountAt(j)'
    BY <1>0, SameTests DEF MountWaits, SentBefore
  <2>. QED  BY <2>1, SameTests DEF MountWaits
<1>3. MountDone => MountDone'
  BY <1>0, SameTests DEF MountDone
<1>. QED  BY <1>0, <1>1, <1>2, <1>3 DEF WindowInv

\* The status asked for at mount arrives.
LEMMA MountAnswerWindow == ASSUME WindowInv, MountAnswer  PROVE WindowInv'
<1>1. PICK a \in answers :
         /\ MountIn(a) /\ shown' = a.state /\ answers' = answers \ {a}
         /\ overtaken' = (budget.toggle < a.of.left /\ ~pending)
  BY DEF MountAnswer, MountIn
<1>2. UNCHANGED <<status, queue, reading, pending, page, budget>>
  BY DEF MountAnswer
<1>3. QueueInv /\ QueueInv' /\ Places' = Places /\ ClickInv
  BY <1>1, <1>2, TakenQueue, SameTests DEF WindowInv, QueueInv
<1>4. ~ToggleIn(a)
  BY <1>1 DEF ToggleIn, MountIn
<1>5. ClickInv'
  BY <1>1, <1>2, <1>3, <1>4, SameTests DEF ClickInv
<1>6. MountDone
  BY <1>1 DEF WindowInv, MountWaits
<1>7. ASSUME ~pending, ~overtaken'  PROVE shown' = status
  <2>1. budget.toggle <= a.of.left /\ (budget.toggle = a.of.left => a.state = status)
    BY <1>1, <1>6 DEF MountDone, SentBefore
  <2>2. budget.toggle \in Nat /\ a.of.left \in Nat
    BY <1>3, CommandFacts DEF QueueInv, Inputs
  <2>3. ~(budget.toggle < a.of.left)
    BY <1>1, <1>7, Zenon
  <2>4. budget.toggle = a.of.left
    BY <2>1, <2>2, <2>3
  <2>. QED  BY <1>1, <2>1, <2>4
<1>8. MountDone'
  BY <1>1, <1>2, <1>3, <1>6, <1>7, SameTests DEF MountDone
<1>. QED  BY <1>3, <1>5, <1>8 DEF WindowInv

\* The answer to the click arrives.
LEMMA ToggleAnswerWindow == ASSUME WindowInv, ToggleAnswer  PROVE WindowInv'
<1>1. PICK a \in answers : ToggleIn(a) /\ shown' = a.state /\ answers' = answers \ {a}
  BY DEF ToggleAnswer, ToggleIn
<1>2. UNCHANGED <<status, queue, reading, page, budget>> /\ pending' = FALSE
  BY DEF ToggleAnswer
<1>3. QueueInv /\ QueueInv' /\ Places' = Places /\ ClickInv
  <2>1. pending' \in BOOLEAN
    BY <1>2
  <2>. QED  BY <1>1, <1>2, <2>1, TakenQueue, SameTests DEF WindowInv
<1>4. (\A i \in Places : ~ToggleAt(i)) /\ (\A b \in answers' : ~ToggleIn(b))
  BY <1>1, <1>3 DEF ClickInv
<1>5. ClickInv'
  BY <1>2, <1>3, <1>4, SameTests DEF ClickInv
<1>6. MountDone
  BY <1>1 DEF WindowInv, MountWaits
<1>7. shown' = status'
  BY <1>1, <1>2, <1>6 DEF MountDone
<1>8. \A left : SentBefore(left) => SentBefore(left)'
  BY <1>2 DEF SentBefore
<1>9. MountDone'
  BY <1>1, <1>2, <1>3, <1>4, <1>6, <1>7, <1>8, SameTests DEF MountDone
<1>. QED  BY <1>3, <1>5, <1>9 DEF WindowInv

\* Every step of the desktop keeps the window in order.
LEMMA WindowNext == WindowInv /\ [DesktopNext]_desktopVars => WindowInv'
<1>. SUFFICES ASSUME WindowInv, [DesktopNext]_desktopVars  PROVE WindowInv'
  OBVIOUS
<1>1. CASE Dropped
  <2>1. PICK a \in answers : a.of.page # page /\ answers' = answers \ {a}
    BY <1>1 DEF Dropped
  <2>2. ~ToggleIn(a) /\ ~MountIn(a)
    BY <2>1 DEF ToggleIn, MountIn
  <2>3. UNCHANGED <<status, queue, reading, shown, pending, page, overtaken, budget>>
    BY <1>1 DEF Dropped, windowVars
  <2>. QED  BY <2>1, <2>2, <2>3, OtherAnswer
<1>2. CASE DeviceAnswer
  <2>1. PICK a \in answers : a.of.cmd = "device_snapshot" /\ answers' = answers \ {a}
    BY <1>2 DEF DeviceAnswer
  <2>2. ~ToggleIn(a) /\ ~MountIn(a)
    BY <2>1 DEF ToggleIn, MountIn
  <2>3. UNCHANGED <<status, queue, reading, shown, pending, page, overtaken, budget>>
    BY <1>2 DEF DeviceAnswer
  <2>. QED  BY <2>1, <2>2, <2>3, OtherAnswer
<1>3. CASE UNCHANGED desktopVars
  BY <1>3, QuietWindow DEF desktopVars, appVars, windowVars, WindowInv, QueueInv
<1>. QED  BY <1>1, <1>2, <1>3, MachineWindow, ReloadWindow, ToggleWindow, RefreshWindow,
             CommandWindow, MountAnswerWindow, ToggleAnswerWindow DEF DesktopNext

\* The invariant of the window.
LEMMA WindowInvariant == DesktopSpec => []WindowInv
<1>1. ASSUME DesktopInit  PROVE WindowInv
  <2>0. /\ page = 1 /\ pending = FALSE /\ answers = {} /\ reading = "idle"
        /\ budget \in [Inputs -> Nat] /\ budget.toggle \in Nat
    BY <1>1, BoundsAssumption DEF DesktopInit, DeviceInit, Inputs
  <2>1. PICK x \in Commands : /\ queue = <<x>> /\ x.cmd = "connection_status" /\ x.page = 1
                              /\ x.left = budget.toggle
    <3>1. Command("connection_status", 1) \in Commands
      BY <2>0 DEF Command, Commands, CommandNames
    <3>. QED  BY <1>1, <3>1 DEF DesktopInit, Command
  <2>2. queue \in Seq(Commands) /\ Places = {1} /\ queue[1] = x
    BY <2>1 DEF Places
  <2>3. QueueInv
    <3>1. pending \in BOOLEAN
      BY <2>0
    <3>. QED  BY <2>0, <2>1, <2>2, <3>1 DEF QueueInv
  <2>4. MountAt(1) /\ ~ToggleAt(1)
    BY <2>0, <2>1, <2>2 DEF MountAt, ToggleAt
  <2>5. ClickInv
    BY <2>0, <2>2, <2>4 DEF ClickInv
  <2>6. MountWaits
    BY <2>0, <2>1, <2>2, <2>4 DEF MountWaits, SentBefore
  <2>. QED  BY <2>3, <2>5, <2>6 DEF WindowInv
<1>. QED  BY <1>1, WindowNext, PTL DEF DesktopSpec

\* With nothing under way the window shows the status the process holds, for
\* any number of clicks and pages and any order of the answers, unless the
\* status asked for at mount was the last to arrive (App.tsx, lib.rs).
THEOREM WindowStaysTrue == DesktopSpec => []WindowShowsStatus
<1>1. WindowInv => WindowShowsStatus
  <2>. SUFFICES ASSUME WindowInv, queue = <<>>, {a \in answers : a.of.page = page} = {},
                       ~overtaken
                PROVE  shown = status
    BY DEF WindowShowsStatus
  <2>1. Places = {}
    BY DEF Places
  <2>2. \A a \in answers : ~MountIn(a) /\ ~ToggleIn(a)
    BY DEF MountIn, ToggleIn
  <2>3. MountDone
    BY <2>1 DEF WindowInv, MountWaits
  <2>4. ~pending
    BY <2>1, <2>2 DEF WindowInv, ClickInv
  <2>. QED  BY <2>2, <2>3, <2>4 DEF MountDone
<1>. QED  BY <1>1, WindowInvariant, PTL
=============================================================================
