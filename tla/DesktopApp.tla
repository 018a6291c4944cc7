----------------------------- MODULE DesktopApp -----------------------------
(***************************************************************************)
(* The desktop application: the window (App.tsx) and the process behind it *)
(* (lib.rs). The window sends commands and goes on; the process runs them  *)
(* one at a time, in the order they were sent; the answers reach the       *)
(* window in any order. A page that is loaded again starts from nothing,   *)
(* and the answers to the old page's commands go nowhere.                  *)
(***************************************************************************)
EXTENDS SysinfoDevice, Sequences

NoSnapshot == [at |-> -1, rate |-> [sent |-> 0, over |-> 0], link |-> "none", seen |-> {}]

VARIABLES
    status,       \* AppState.status
    queue,        \* commands sent and not yet run
    reading,      \* device_snapshot: "idle", or "sampled" (upload rate read)
    seen,         \* the interfaces the machine had while it runs
    sample,       \* and the upload rate it has read
    answers,      \* answers on their way
    shown,        \* the window's status
    pending,      \* and its pending flag
    device,       \* the snapshot it shows
    deviceLoading,
    page,         \* number of the page
    overtaken     \* the page's first status was applied after a later one

windowVars == <<shown, pending, device, deviceLoading, page, overtaken>>
appVars == <<status, queue, reading, seen, sample, answers>>
desktopVars == <<osVars, budget, deviceVars, appVars, windowVars>>

\* A command, its page, and how many clicks on the connect button may still
\* come after it.
Command(c, p) == [cmd |-> c, page |-> p, left |-> budget.toggle]

\* The first render, whose effect asks for the status.
FirstPage ==
    /\ shown' = "disconnected" /\ pending' = FALSE
    /\ device' = NoSnapshot /\ deviceLoading' = FALSE

DesktopInit ==
    /\ DeviceInit
    /\ status = "disconnected" /\ reading = "idle" /\ seen = {} /\ sample = NoSnapshot
    /\ answers = {}
    /\ shown = "disconnected" /\ pending = FALSE
    /\ device = NoSnapshot /\ deviceLoading = FALSE
    /\ page = 1 /\ overtaken = FALSE
    /\ queue = <<Command("connection_status", 1)>>

\* The page is loaded again.
Reload ==
    /\ Spend("load")
    /\ page' = page + 1
    /\ FirstPage
    /\ overtaken' = FALSE
    /\ queue' = Append(queue, Command("connection_status", page + 1))
    /\ UNCHANGED <<status, reading, seen, sample, answers, osVars, deviceVars>>

\* Bug: the button is not disabled while a command is on its way.
BugToggle ==
    /\ Spend("toggle")
    /\ pending' = TRUE
    /\ queue' = Append(queue, Command(IF shown = "connected" THEN "disconnect" ELSE "connect", page))
    /\ UNCHANGED <<status, reading, seen, sample, answers, shown, device, deviceLoading,
                   page, overtaken, osVars, deviceVars>>

\* toggleConnection, up to its await: the button is disabled while pending.
toggleConnection ==
    /\ ~pending /\ Spend("toggle")
    /\ pending' = TRUE
    /\ queue' = Append(queue, Command(IF shown = "connected" THEN "disconnect" ELSE "connect", page))
    /\ UNCHANGED <<status, reading, seen, sample, answers, shown, device, deviceLoading,
                   page, overtaken, osVars, deviceVars>>

\* refreshDevice, up to its await.
refreshDevice ==
    /\ ~deviceLoading /\ Spend("refresh")
    /\ deviceLoading' = TRUE
    /\ queue' = Append(queue, Command("device_snapshot", page))
    /\ UNCHANGED <<status, reading, seen, sample, answers, shown, pending, device,
                   page, overtaken, osVars, deviceVars>>

-----------------------------------------------------------------------------
Answer(state, snap) ==
    /\ answers' = answers \union {[state |-> state, snap |-> snap, of |-> Head(queue)]}
    /\ queue' = Tail(queue)

\* The commands connect, disconnect and connection_status.
StatusCommand(cmd, next) ==
    /\ queue # <<>> /\ Head(queue).cmd = cmd
    /\ status' = next
    /\ Answer(next, NoSnapshot)
    /\ UNCHANGED <<reading, seen, sample, windowVars, osVars, deviceVars, budget>>

connect == StatusCommand("connect", "connected")
disconnect == StatusCommand("disconnect", "disconnected")
connection_status == StatusCommand("connection_status", status)

\* device_snapshot reads the upload rate, which refreshes the list of
\* interfaces ...
SnapshotSample ==
    /\ queue # <<>> /\ Head(queue).cmd = "device_snapshot" /\ reading = "idle"
    /\ reading' = "sampled"
    /\ seen' = {present}
    /\ sample' = [NoSnapshot EXCEPT !.rate = upload_rate_bytes_per_sec, !.at = clock]
    /\ upload_rate
    /\ UNCHANGED <<status, queue, answers, windowVars, osVars, budget>>

\* ... then the link, from that list, and answers.
SnapshotLink ==
    /\ reading = "sampled"
    /\ reading' = "idle"
    /\ Answer(status, [sample EXCEPT !.link = connection_type, !.seen = seen])
    /\ seen' = {} /\ sample' = NoSnapshot
    /\ UNCHANGED <<status, windowVars, osVars, deviceVars, budget>>

\* The machine goes on while a snapshot is taken.
Machine ==
    /\ OsStep
    /\ seen' = IF reading = "sampled" THEN seen \union {present'} ELSE seen
    /\ UNCHANGED <<status, queue, reading, sample, answers, windowVars>>

-----------------------------------------------------------------------------
\* An answer to an old page is dropped.
Dropped ==
    /\ \E a \in answers : a.of.page # page /\ answers' = answers \ {a}
    /\ UNCHANGED <<status, queue, reading, seen, sample, windowVars, osVars, deviceVars, budget>>

\* The status asked for at mount arrives (setStatus), maybe after the answer
\* to a click made later.
MountAnswer ==
    /\ \E a \in answers :
          /\ a.of.page = page /\ a.of.cmd = "connection_status"
          /\ shown' = a.state
          /\ overtaken' = (budget.toggle < a.of.left /\ ~pending)
          /\ answers' = answers \ {a}
    /\ UNCHANGED <<status, queue, reading, seen, sample, pending, device, deviceLoading,
                   page, osVars, deviceVars, budget>>

\* toggleConnection after its await.
ToggleAnswer ==
    /\ \E a \in answers :
          /\ a.of.page = page /\ a.of.cmd \in {"connect", "disconnect"}
          /\ shown' = a.state
          /\ answers' = answers \ {a}
    /\ pending' = FALSE /\ overtaken' = FALSE
    /\ UNCHANGED <<status, queue, reading, seen, sample, device, deviceLoading,
                   page, osVars, deviceVars, budget>>

\* refreshDevice after its await.
DeviceAnswer ==
    /\ \E a \in answers :
          /\ a.of.page = page /\ a.of.cmd = "device_snapshot"
          /\ device' = a.snap
          /\ answers' = answers \ {a}
    /\ deviceLoading' = FALSE
    /\ UNCHANGED <<status, queue, reading, seen, sample, shown, pending, page, overtaken, osVars, deviceVars, budget>>

DesktopNext ==
    \/ Machine
    \/ Reload
    \/ toggleConnection
    \/ refreshDevice
    \/ connect
    \/ disconnect
    \/ connection_status
    \/ SnapshotSample
    \/ SnapshotLink
    \/ Dropped
    \/ MountAnswer
    \/ ToggleAnswer
    \/ DeviceAnswer

DesktopSpec == DesktopInit /\ [][DesktopNext]_desktopVars

-----------------------------------------------------------------------------
\* With no command under way the window shows the status the process holds,
\* whatever was clicked, in whatever order the answers came and however often
\* the page was loaded. The one exception is the status asked for at mount
\* when it arrives after the answer to a click: then the window is wrong, and
\* the next click, which sends a command that names the state it wants, puts
\* it right (App.tsx: useEffect, toggleConnection; lib.rs: connect,
\* disconnect).
WindowShowsStatus ==
    queue = <<>> /\ {a \in answers : a.of.page = page} = {} /\ ~overtaken
        => shown = status

\* The snapshots taken so far that are on their way or on screen.
Snapshots ==
    ({device} \union {a.snap : a \in answers}) \ {NoSnapshot}

\* The link a snapshot names is one the machine had while the snapshot was
\* taken: it is read from a list that only the upload reading refreshes, so it
\* depends on that reading coming first and on interfaces that are gone being
\* dropped (device_snapshot, connection_type).
LinkIsCurrent ==
    \A s \in Snapshots : s.link \in {classify_connection_type(i) : i \in s.seen}

\* The bytes of an upload reading were all sent within the time they are
\* divided by, so the rate is never one the machine did not have, also when
\* interfaces come and go between two readings (upload_rate_bytes_per_sec).
RateIsReal ==
    \A s \in Snapshots :
        LET start == s.at - s.rate.over
            before == IF start = 0 THEN 0 ELSE history[start - 1]
        IN  s.rate.sent <= history[s.at] - before
=============================================================================
