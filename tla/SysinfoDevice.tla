--------------------------- MODULE SysinfoDevice ----------------------------
(***************************************************************************)
(* The desktop's device readings (SysinfoDeviceState) over the operating   *)
(* system they are taken from. Only the network readings keep state: the   *)
(* list of interfaces with their byte counters, as of the last refresh,    *)
(* and the time of that refresh. CPU, memory and ping readings are         *)
(* forgotten as soon as they are returned and are left out.                *)
(***************************************************************************)
EXTENDS Integers, FiniteSetsExt

CONSTANTS
    Wifi, Wired, Cellular, Other,  \* interfaces, by what their name says
    MaxClock,                      \* bound: time steps
    Budgets                        \* bounds: how often each input may come

Interfaces == {Wifi, Wired, Cellular, Other}

ASSUME InterfacesAssumption ==
    /\ Wifi \notin {Wired, Cellular, Other}
    /\ Wired \notin {Cellular, Other}
    /\ Cellular # Other

Inputs == {"toggle", "refresh", "load", "time", "send", "switch"}

ASSUME BoundsAssumption == MaxClock \in Nat /\ Budgets \subseteq [Inputs -> Nat]

VARIABLES
    clock,        \* the time
    present,      \* the machine's interfaces
    counter,      \* units each interface has ever sent
    history,      \* the total sent by the end of each moment so far
    budget,       \* inputs that may still come
    networks,     \* sysinfo's list: counter of each interface at the refresh
    last_sample   \* last_network_sample

osVars == <<clock, present, counter, history>>
deviceVars == <<networks, last_sample>>

Total(c) == c[Wifi] + c[Wired] + c[Cellular] + c[Other]

\* Bug: interfaces that are gone stay on the list (refresh(false)).
BugRefreshed == [i \in present \union DOMAIN networks |-> counter[i]]

\* Networks::refresh(true): interfaces that are gone leave the list.
Refreshed == [i \in present |-> counter[i]]

\* SysinfoDeviceState::with_ping_target on a running machine.
DeviceInit ==
    /\ clock = 0 /\ budget \in Budgets
    /\ present \in {{Wifi, Other}, {Wired, Cellular}}
    /\ counter = [i \in Interfaces |-> 0]
    /\ history = [t \in 0..MaxClock |-> 0]
    /\ networks = [i \in present |-> 0] /\ last_sample = 0

Spend(input) == budget[input] > 0 /\ budget' = [budget EXCEPT ![input] = @ - 1]

\* Time passes.
Pass ==
    /\ clock < MaxClock /\ Spend("time")
    /\ clock' = clock + 1
    /\ history' = [history EXCEPT ![clock + 1] = Total(counter)]
    /\ UNCHANGED <<present, counter, deviceVars>>

\* An interface sends.
Transmit(i) ==
    /\ i \in present /\ Spend("send")
    /\ counter' = [counter EXCEPT ![i] = @ + 1]
    /\ history' = [history EXCEPT ![clock] = @ + 1]
    /\ UNCHANGED <<clock, present, deviceVars>>

\* An interface comes or goes.
Switch(i) ==
    /\ Spend("switch")
    /\ present' = SymDiff({i}, present)
    /\ UNCHANGED <<clock, counter, history, deviceVars>>

OsStep == Pass \/ \E i \in Interfaces : Transmit(i) \/ Switch(i)

-----------------------------------------------------------------------------
\* transmitted(): what the interfaces on the list have sent between the last
\* two refreshes; one that is new on the list starts from its own counter.
transmitted ==
    Total([i \in Interfaces |->
             IF i \in present \intersect DOMAIN networks THEN counter[i] - networks[i] ELSE 0])

\* Bug: the elapsed time is taken after the sample time was set.
BugElapsed == 0

\* The time since the last sample. The refresh and the new sample time are one
\* moment here; the code's lower limit of a microsecond, which keeps the
\* quotient finite, is below the clock's unit.
elapsed == clock - last_sample

\* upload_rate_bytes_per_sec, under both mutexes: the bytes and the time they
\* are divided by.
upload_rate_bytes_per_sec == [sent |-> transmitted, over |-> elapsed]

upload_rate ==
    /\ networks' = Refreshed
    /\ last_sample' = clock

\* classify_connection_type: Wi-Fi wins over a wired link, that one over a
\* cellular one, and no known name counts as Wi-Fi.
classify_connection_type(names) ==
    CASE Wifi \in names -> "WifiOrUnknown"
      [] Wifi \notin names /\ Wired \in names -> "Wired"
      [] names \intersect {Wifi, Wired} = {} /\ Cellular \in names -> "Cellular"
      [] OTHER -> "WifiOrUnknown"

\* connection_type does not refresh the list.
connection_type == classify_connection_type(DOMAIN networks)
=============================================================================
