----------------------------- MODULE Supervisor -----------------------------
(***************************************************************************)
(* The process supervisor of the web GUI: ProcessManager                   *)
(* (processManager.ts), the instance records of ServiceManager             *)
(* (services.ts) and the routes, exit handler, auto-restart timer,         *)
(* self-update and start-up of index.ts that drive them.                   *)
(*                                                                         *)
(* The GUI is one JavaScript thread, so a handler runs alone up to its     *)
(* next await; an action is such a stretch.  A handler between two awaits  *)
(* is a task.  A record is changed in memory at once and saved afterwards: *)
(* the file is taken to hold what memory holds when the GUI goes down.     *)
(*                                                                         *)
(* Times (the 100 ms polls, the 2 s and 10 s limits, the 1 s back-off) are *)
(* left out: a wait ends when its condition holds or, at any moment, by    *)
(* its limit.  Ports and tokens of the manager API are left out, every     *)
(* instance has them from its creation; autoStart is a free choice at      *)
(* every boot.                                                             *)
(***************************************************************************)
EXTENDS Naturals, FiniteSets

CONSTANTS
    Instance,      \* instance identifiers, each created at most once
    Handler,       \* request handlers that can be between two awaits at a time
    Pid,           \* process identifiers of the operating system, reused
    MaxAttempts,   \* restarts before the exit handler gives up (5 in the code)
    MaxPending,    \* bound: exit handlers, and restart timers, of an instance
    MaxBoots,      \* bound: times the GUI goes down and starts again
    None,          \* an undefined pid, no entry of a map
    Absent,        \* the pid key is missing from the record
    Ghost          \* the entry of a spawn that failed

ASSUME SupervisorAssumption ==
    /\ MaxAttempts \in Nat \ {0} /\ MaxPending \in Nat \ {0} /\ MaxBoots \in Nat
    /\ None # Absent /\ None # Ghost /\ Absent # Ghost /\ {None, Absent, Ghost} \cap Pid = {}
    /\ None \notin Instance

VARIABLES
    record,        \* ServiceManager.data.instances, with the ids not yet used
    binary,        \* is there a file at the instance's binaryPath?
    processes,     \* ProcessManager.processes: a pid, Ghost or None
    child,         \* the operating system's processes
    orphans,       \* the processes started by a GUI that is gone
    intentional,   \* intentionalStops
    attempts,      \* restartAttempts, the counts; 0 is a missing entry
    exiting,       \* exit handlers awaiting setPid, by the autoRestart they read
    restarts,      \* auto-restart timers: armed, past the checks, past the start
    task,          \* the request handlers between two awaits
    guiUpdating, startsBlocked,
    gui,           \* "up", "booting" or "down"
    boots,         \* times the GUI has gone down (for MaxBoots)
    stopped        \* history: instances stopped on request with no restart pending

vars == <<record, binary, processes, child, orphans, intentional, attempts,
          exiting, restarts, task, guiUpdating, startsBlocked, gui, boots, stopped>>

Idle == [op |-> "none", of |-> None, pc |-> "none", snap |-> None]
Free == [of |-> None, asked |-> FALSE]
NoRestart == [armed |-> 0, preparing |-> 0, settling |-> 0]
NoExit == [a \in BOOLEAN |-> 0]

RecordType == [state : {"new", "present", "gone"}, auto : BOOLEAN,
               pid : Pid \cup {None, Absent}]

Present(i) == record[i].state = "present"
Alive(p) == child[p].of # None
isRunning(i) == processes[i] # None
Running == {i \in Instance : isRunning(i)}
InFlight(h, op, pc) == task[h].op = op /\ task[h].pc = pc

Init ==
    /\ record = [i \in Instance |-> [state |-> "new", auto |-> FALSE, pid |-> Absent]]
    /\ binary = [i \in Instance |-> FALSE]
    /\ processes = [i \in Instance |-> None]
    /\ child = [p \in Pid |-> Free]
    /\ orphans = {}
    /\ intentional = {}
    /\ attempts = [i \in Instance |-> 0]
    /\ exiting = [i \in Instance |-> NoExit]
    /\ restarts = [i \in Instance |-> NoRestart]
    /\ task = [h \in Handler |-> Idle]
    /\ guiUpdating = FALSE /\ startsBlocked = FALSE
    /\ gui = "up" /\ boots = 0
    /\ stopped = {}

-----------------------------------------------------------------------------
(* ProcessManager and ServiceManager.                                      *)

\* serviceManager.setPid: rejects, changing nothing, when the record is gone.
setPid(i, p) ==
    record' = [record EXCEPT ![i].pid = IF Present(i) THEN p ELSE @]

StartRefused_unblocked(i) == isRunning(i)
StartRefused_blockedOnly(i) == startsBlocked

\* start() throws before it spawns: an update is stopping the processes, or
\* the map has an entry.
StartRefused(i) == startsBlocked \/ isRunning(i)

\* spawn() succeeds: the entry is set and the child runs.
Spawned(i, p) ==
    /\ ~StartRefused(i)
    /\ ~Alive(p)
    /\ child' = [child EXCEPT ![p] = [of |-> i, asked |-> FALSE]]
    /\ processes' = [processes EXCEPT ![i] = p]
    /\ stopped' = stopped \ {i}

\* spawn() fails: the entry is set all the same, the child has no pid, start()
\* throws and no exit event will ever remove the entry.  (Under sudo the
\* command is sudo itself, which does start.)
SpawnFailed(i) ==
    /\ ~StartRefused(i)
    /\ ~binary[i]
    /\ processes' = [processes EXCEPT ![i] = Ghost]
    /\ UNCHANGED <<child, stopped>>

\* start() called for its effect, with the pid saved when it returns one.
StartAndSave(i) ==
    \/ \E p \in Pid : Spawned(i, p) /\ setPid(i, p)
    \/ SpawnFailed(i) /\ UNCHANGED record
    \/ StartRefused(i) /\ UNCHANGED <<processes, child, stopped, record>>

\* stop(): SIGTERM or, forced, SIGKILL to the child of the entry; a ghost gets
\* none.  A process may take any time to end, asked or not.
Signalled(ids) ==
    child' = [p \in Pid |-> [child[p] EXCEPT !.asked = @ \/ \E i \in ids : processes[i] = p]]

Quiet(i) == restarts[i] = NoRestart /\ exiting[i] = NoExit

\* markIntentionalStop, for every instance of ids.
Marked(ids) ==
    /\ intentional' = intentional \cup ids
    /\ attempts' = [i \in Instance |-> IF i \in ids THEN 0 ELSE attempts[i]]
    /\ stopped' = stopped \cup {i \in ids : Quiet(i)}

-----------------------------------------------------------------------------
(* A process ends; the exit event and the handler's two halves.            *)

ChildExits(p) ==
    LET i == child[p].of IN
    /\ Alive(p)
    /\ child' = [child EXCEPT ![p] = Free]
    /\ IF p \in orphans
       THEN /\ orphans' = orphans \ {p}
            /\ UNCHANGED <<processes, record, exiting, intentional>>
       ELSE /\ processes' = [processes EXCEPT ![i] = None]
            /\ setPid(i, None)
            /\ IF Present(i)
               THEN /\ exiting[i][record[i].auto] < MaxPending
                    /\ exiting' = [exiting EXCEPT ![i][record[i].auto] = @ + 1]
                    /\ UNCHANGED intentional
               ELSE /\ intentional' = intentional \ {i}
                    /\ UNCHANGED exiting
            /\ UNCHANGED orphans
    /\ UNCHANGED <<binary, attempts, restarts, task, guiUpdating, startsBlocked,
                   gui, boots, stopped>>

WithinLimit(count) == count < MaxAttempts

ArmRestart(i, count) ==
    /\ restarts[i].armed < MaxPending
    /\ restarts' = [restarts EXCEPT ![i].armed = @ + 1]
    /\ attempts' = [attempts EXCEPT ![i] = count + 1]

\* The stop was asked for: the marker is there, and is used up.
Excused(i) == i \in intentional

\* An entry of restartAttempts older than 60 s counts from 0 again.
ExitHandled(i, auto) ==
    /\ exiting[i][auto] > 0
    /\ exiting' = [exiting EXCEPT ![i][auto] = @ - 1]
    /\ intentional' = intentional \ {i}
    /\ \E count \in {0, attempts[i]} :
        IF ~Excused(i) /\ ~guiUpdating /\ auto /\ WithinLimit(count)
        THEN ArmRestart(i, count)
        ELSE UNCHANGED <<restarts, attempts>>
    /\ UNCHANGED <<record, binary, processes, child, orphans, task, guiUpdating,
                   startsBlocked, gui, boots, stopped>>

TimerFires(i) ==
    /\ restarts[i].armed > 0
    /\ IF guiUpdating \/ ~Present(i) \/ isRunning(i)
       THEN restarts' = [restarts EXCEPT ![i].armed = @ - 1]
       ELSE /\ restarts[i].preparing < MaxPending
            /\ restarts' = [restarts EXCEPT ![i].armed = @ - 1, ![i].preparing = @ + 1]
    /\ attempts' = IF ~guiUpdating /\ Present(i) /\ isRunning(i)
                   THEN [attempts EXCEPT ![i] = 0] ELSE attempts
    /\ UNCHANGED <<record, binary, processes, child, orphans, intentional, exiting,
                   task, guiUpdating, startsBlocked, gui, boots, stopped>>

\* After the two awaits the timer starts the process.  An error is only logged.
AutoRestart(i) ==
    /\ restarts[i].preparing > 0
    /\ StartAndSave(i)
    /\ IF processes'[i] \in Pid /\ ~isRunning(i) /\ Present(i)
       THEN /\ restarts[i].settling < MaxPending
            /\ restarts' = [restarts EXCEPT ![i].preparing = @ - 1, ![i].settling = @ + 1]
       ELSE restarts' = [restarts EXCEPT ![i].preparing = @ - 1]
    /\ UNCHANGED <<binary, orphans, intentional, attempts, exiting, task,
                   guiUpdating, startsBlocked, gui, boots>>

\* The pid is saved; the attempts are forgotten.
RestartSettles(i) ==
    /\ restarts[i].settling > 0
    /\ restarts' = [restarts EXCEPT ![i].settling = @ - 1]
    /\ attempts' = [attempts EXCEPT ![i] = 0]
    /\ UNCHANGED <<record, binary, processes, child, orphans, intentional, exiting,
                   task, guiUpdating, startsBlocked, gui, boots, stopped>>

-----------------------------------------------------------------------------
(* Requests.  The middleware turns every change away while guiUpdating.    *)

Accepted(h) == gui = "up" /\ ~guiUpdating /\ task[h] = Idle

Begin(h, op, i, pc, snap) ==
    task' = [task EXCEPT ![h] = [op |-> op, of |-> i, pc |-> pc, snap |-> snap]]
Proceed(h, pc) == task' = [task EXCEPT ![h].pc = pc]
End(h) == task' = [task EXCEPT ![h] = Idle]

\* What only the GUI's own life changes.
Steady == UNCHANGED <<orphans, exiting, restarts, gui, boots>>

PostStart(h, i) ==
    /\ Accepted(h)
    /\ Present(i) /\ ~isRunning(i)
    /\ Begin(h, "start", i, "prep", None)
    /\ Steady
    /\ UNCHANGED <<record, binary, processes, child, intentional, attempts,
                   guiUpdating, startsBlocked, stopped>>

StartPrepared(h) ==
    /\ InFlight(h, "start", "prep")
    /\ StartAndSave(task[h].of)
    /\ End(h)
    /\ Steady
    /\ UNCHANGED <<binary, intentional, attempts, guiUpdating, startsBlocked>>

PostStop(h, i) ==
    /\ Accepted(h)
    /\ isRunning(i)
    /\ Marked({i})
    /\ Signalled({i})
    /\ setPid(i, None)
    /\ Steady
    /\ UNCHANGED <<binary, processes, task, guiUpdating, startsBlocked>>

PostRestart(h, i) ==
    /\ Accepted(h)
    /\ Present(i)
    /\ Begin(h, "restart", i, "prep", None)
    /\ Steady
    /\ UNCHANGED <<record, binary, processes, child, intentional, attempts,
                   guiUpdating, startsBlocked, stopped>>

RestartPrepared_markAnyway(h) ==
    LET i == task[h].of IN
    /\ InFlight(h, "restart", "prep")
    /\ Marked({i})
    /\ Signalled({i})
    /\ Proceed(h, "wait")
    /\ Steady
    /\ UNCHANGED <<record, binary, processes, guiUpdating, startsBlocked>>

\* After the awaits: mark, stop and wait when it runs; otherwise start at once.
RestartPrepared(h) ==
    LET i == task[h].of IN
    /\ InFlight(h, "restart", "prep")
    /\ \/ /\ isRunning(i)
          /\ Marked({i})
          /\ Signalled({i})
          /\ Proceed(h, "wait")
          /\ UNCHANGED <<record, processes>>
       \/ /\ ~isRunning(i)
          /\ StartAndSave(i)
          /\ End(h)
          /\ UNCHANGED <<intentional, attempts>>
    /\ Steady
    /\ UNCHANGED <<binary, guiUpdating, startsBlocked>>

\* The poll sees the entry gone, or 10 s are over: start() either way.
RestartWaited(h) ==
    /\ InFlight(h, "restart", "wait")
    /\ StartAndSave(task[h].of)
    /\ End(h)
    /\ Steady
    /\ UNCHANGED <<binary, intentional, attempts, guiUpdating, startsBlocked>>

PutSettings(h, i) ==
    /\ Accepted(h)
    /\ Present(i)
    /\ record' = [record EXCEPT ![i].auto = ~@]
    /\ Steady
    /\ UNCHANGED <<binary, processes, child, intentional, attempts, task,
                   guiUpdating, startsBlocked, stopped>>

-----------------------------------------------------------------------------
(* Creating, updating and deleting an instance.                            *)

PostCreate(h, i) ==
    /\ Accepted(h)
    /\ record[i].state = "new"
    /\ \A g \in Handler : task[g].of # i
    /\ Begin(h, "create", i, "download", None)
    /\ Steady
    /\ UNCHANGED <<record, binary, processes, child, intentional, attempts,
                   guiUpdating, startsBlocked, stopped>>

CreateDownloaded(h) ==
    LET i == task[h].of IN
    /\ InFlight(h, "create", "download")
    /\ \/ /\ record' = [record EXCEPT ![i].state = "present"]
          /\ binary' = [binary EXCEPT ![i] = TRUE]
          /\ Proceed(h, "prep")
       \/ End(h) /\ UNCHANGED <<record, binary>>
    /\ Steady
    /\ UNCHANGED <<processes, child, intentional, attempts, guiUpdating,
                   startsBlocked, stopped>>

\* The first run of a new instance: its pid is not saved.
CreatePrepared(h) ==
    LET i == task[h].of IN
    /\ InFlight(h, "create", "prep")
    /\ \/ (\E p \in Pid : Spawned(i, p)) /\ Proceed(h, "settle")
       \/ SpawnFailed(i) /\ End(h)
       \/ StartRefused(i) /\ End(h) /\ UNCHANGED <<processes, child, stopped>>
    /\ Steady
    /\ UNCHANGED <<record, binary, intentional, attempts, guiUpdating, startsBlocked>>

\* Two seconds later it is stopped, when it still runs.
CreateSettled(h) ==
    LET i == task[h].of IN
    /\ InFlight(h, "create", "settle")
    /\ Marked({i} \cap Running)
    /\ Signalled({i})
    /\ End(h)
    /\ Steady
    /\ UNCHANGED <<record, binary, processes, guiUpdating, startsBlocked>>

\* The update route keeps the record object it looked up first (snap).
PostUpdate(h, i) ==
    /\ Accepted(h)
    /\ Present(i)
    /\ IF isRunning(i)
       THEN /\ Marked({i})
            /\ Signalled({i})
            /\ setPid(i, None)
            /\ Begin(h, "update", i, "wait", record[i])
       ELSE /\ Begin(h, "update", i, "fetch", record[i])
            /\ UNCHANGED <<intentional, attempts, child, record, stopped>>
    /\ Steady
    /\ UNCHANGED <<binary, processes, guiUpdating, startsBlocked>>

\* The entry is gone, or 2 s are over: the update goes on either way.
UpdateWaited(h) ==
    /\ InFlight(h, "update", "wait")
    /\ Proceed(h, "fetch")
    /\ Steady
    /\ UNCHANGED <<record, binary, processes, child, intentional, attempts,
                   guiUpdating, startsBlocked, stopped>>

\* No such release, or the old binary is removed and the download begins.
UpdateFetched(h) ==
    /\ InFlight(h, "update", "fetch")
    /\ \/ Proceed(h, "download") /\ binary' = [binary EXCEPT ![task[h].of] = FALSE]
       \/ End(h) /\ UNCHANGED binary
    /\ Steady
    /\ UNCHANGED <<record, processes, child, intentional, attempts, guiUpdating,
                   startsBlocked, stopped>>

\* {...current, ...instance}: the object looked up first wins over what other
\* handlers saved since; only a key it does not have keeps the newer value.
Overlaid(current, snap) ==
    [snap EXCEPT !.pid = IF @ = Absent THEN current.pid ELSE @]

\* The download fails and the binary stays missing, or the record is replaced.
UpdateDownloaded(h) ==
    LET i == task[h].of IN
    /\ InFlight(h, "update", "download")
    /\ \/ /\ Present(i)
          /\ record' = [record EXCEPT ![i] = Overlaid(@, task[h].snap)]
          /\ binary' = [binary EXCEPT ![i] = TRUE]
       \/ UNCHANGED <<record, binary>>
    /\ End(h)
    /\ Steady
    /\ UNCHANGED <<processes, child, intentional, attempts, guiUpdating,
                   startsBlocked, stopped>>

Delete(h, i) ==
    /\ Accepted(h)
    /\ Present(i)
    /\ Marked({i} \cap Running)
    /\ Signalled({i})
    /\ record' = [record EXCEPT ![i] = [state |-> "gone", auto |-> FALSE, pid |-> None]]
    /\ Begin(h, "delete", i, "rm", None)
    /\ Steady
    /\ UNCHANGED <<binary, processes, guiUpdating, startsBlocked>>

\* fs.rm of the data directory.
DeleteRemoved(h) ==
    /\ InFlight(h, "delete", "rm")
    /\ binary' = [binary EXCEPT ![task[h].of] = FALSE]
    /\ End(h)
    /\ Steady
    /\ UNCHANGED <<record, processes, child, intentional, attempts, guiUpdating,
                   startsBlocked, stopped>>

-----------------------------------------------------------------------------
(* The GUI replaces itself.                                                *)

PostSelfUpdate(h) ==
    /\ Accepted(h)
    /\ guiUpdating' = TRUE
    /\ Begin(h, "self", None, "download", None)
    /\ Steady
    /\ UNCHANGED <<record, binary, processes, child, intentional, attempts,
                   startsBlocked, stopped>>

\* Every failure of the route: both flags are reset, what was stopped stays so.
SelfUpdateFailed(h) ==
    /\ guiUpdating' = FALSE /\ startsBlocked' = FALSE
    /\ End(h)
    /\ UNCHANGED <<intentional, attempts, child, stopped>>

\* No newer release or no asset for the platform, an incomplete download, or a
\* service that cannot restart the GUI: before anything is stopped.
SelfUpdateAborted(h) ==
    /\ InFlight(h, "self", "download")
    /\ SelfUpdateFailed(h)
    /\ Steady
    /\ UNCHANGED <<record, binary, processes>>

\* The download is verified and the restart plan accepted; beforeInstall marks
\* the recorded instances that run, blocks starts and stops every process.
SelfUpdateDownloaded(h) ==
    /\ InFlight(h, "self", "download")
    /\ Marked({i \in Running : Present(i)})
    /\ startsBlocked' = TRUE
    /\ Signalled(Running)
    /\ Proceed(h, "term")
    /\ Steady
    /\ UNCHANGED <<record, binary, processes, guiUpdating>>

\* this.processes.size is 0.
AllStopped == Running = {}

\* stopAllAndWait: all gone within 10 s, or SIGKILL and 2 s more.
SelfUpdateTermWaited(h) ==
    /\ InFlight(h, "self", "term")
    /\ IF AllStopped
       THEN Proceed(h, "install") /\ UNCHANGED child
       ELSE Proceed(h, "kill") /\ Signalled(Running)
    /\ Steady
    /\ UNCHANGED <<record, binary, processes, intentional, attempts, guiUpdating,
                   startsBlocked, stopped>>

SelfUpdateKillWaited(h) ==
    /\ InFlight(h, "self", "kill")
    /\ \/ /\ AllStopped
          /\ Proceed(h, "install")
          /\ UNCHANGED <<child, intentional, attempts, guiUpdating, startsBlocked, stopped>>
       \/ Running # {} /\ SelfUpdateFailed(h)
    /\ Steady
    /\ UNCHANGED <<record, binary, processes>>

\* The installer is prepared, or the attempt fails.
SelfUpdateInstalled(h) ==
    /\ InFlight(h, "self", "install")
    /\ \/ /\ Proceed(h, "ready")
          /\ UNCHANGED <<child, intentional, attempts, guiUpdating, startsBlocked, stopped>>
       \/ SelfUpdateFailed(h)
    /\ Steady
    /\ UNCHANGED <<record, binary, processes>>

\* result.restart() rejects: systemd refused.
RestartRefused(h) ==
    /\ InFlight(h, "self", "ready")
    /\ SelfUpdateFailed(h)
    /\ Steady
    /\ UNCHANGED <<record, binary, processes>>

-----------------------------------------------------------------------------
(* The GUI goes down and comes back.                                       *)

\* The GUI's memory is lost and its children live on without it.
GuiGone ==
    /\ gui' = "down" /\ boots' = boots + 1
    /\ orphans' = {p \in Pid : Alive(p)}
    /\ processes' = [i \in Instance |-> None]
    /\ intentional' = {} /\ stopped' = {}
    /\ attempts' = [i \in Instance |-> 0]
    /\ exiting' = [i \in Instance |-> NoExit]
    /\ restarts' = [i \in Instance |-> NoRestart]
    /\ task' = [h \in Handler |-> Idle]
    /\ guiUpdating' = FALSE /\ startsBlocked' = FALSE
    /\ UNCHANGED <<record, binary, child>>

\* result.restart() exits, and the helper or systemd starts the new GUI.
GuiReplaced(h) ==
    /\ boots < MaxBoots
    /\ InFlight(h, "self", "ready")
    /\ GuiGone

\* The GUI is killed, or its SIGINT handler exits after stopAll().
GuiDies ==
    /\ boots < MaxBoots
    /\ gui # "down"
    /\ GuiGone

\* SIGINT: every process is asked to stop; nothing waits for them.
Sigint ==
    /\ gui = "up" /\ boots < MaxBoots
    /\ Signalled(Running)
    /\ Steady
    /\ UNCHANGED <<record, binary, processes, intentional, attempts, task,
                   guiUpdating, startsBlocked, stopped>>

\* load(): JSON has no undefined pid.  A pid that is no process is cleared.
Loaded(r) ==
    [r EXCEPT !.pid = IF @ \in Pid THEN IF Alive(@) THEN @ ELSE None ELSE Absent]

Boot ==
    /\ gui = "down"
    /\ gui' = "booting"
    /\ record' = [i \in Instance |-> Loaded(record[i])]
    /\ UNCHANGED <<binary, processes, child, orphans, intentional, attempts,
                   exiting, restarts, task, guiUpdating, startsBlocked, boots, stopped>>

\* autoStart: the binary is there and this GUI has no entry for the instance.
\* A process an earlier GUI left behind is not looked for.
AutoStart(i) ==
    /\ gui = "booting"
    /\ Present(i) /\ binary[i] /\ ~isRunning(i)
    /\ StartAndSave(i)
    /\ UNCHANGED <<binary, orphans, intentional, attempts, exiting, restarts, task,
                   guiUpdating, startsBlocked, gui, boots>>

Listen ==
    /\ gui = "booting"
    /\ gui' = "up"
    /\ UNCHANGED <<record, binary, processes, child, orphans, intentional, attempts,
                   exiting, restarts, task, guiUpdating, startsBlocked, boots, stopped>>

-----------------------------------------------------------------------------
Next ==
    \/ \E p \in Pid : ChildExits(p)
    \/ \E i \in Instance :
        \/ \E auto \in BOOLEAN : ExitHandled(i, auto)
        \/ TimerFires(i) \/ AutoRestart(i) \/ RestartSettles(i)
        \/ AutoStart(i)
    \/ \E h \in Handler, i \in Instance :
        \/ PostStart(h, i) \/ PostStop(h, i) \/ PostRestart(h, i) \/ PutSettings(h, i)
        \/ PostCreate(h, i) \/ PostUpdate(h, i) \/ Delete(h, i)
    \/ \E h \in Handler :
        \/ StartPrepared(h) \/ RestartPrepared(h) \/ RestartWaited(h)
        \/ CreateDownloaded(h) \/ CreatePrepared(h) \/ CreateSettled(h)
        \/ UpdateWaited(h) \/ UpdateFetched(h) \/ UpdateDownloaded(h)
        \/ DeleteRemoved(h)
        \/ PostSelfUpdate(h) \/ SelfUpdateAborted(h) \/ SelfUpdateDownloaded(h)
        \/ SelfUpdateTermWaited(h)
        \/ SelfUpdateKillWaited(h) \/ SelfUpdateInstalled(h) \/ RestartRefused(h)
        \/ GuiReplaced(h)
    \/ GuiDies \/ Sigint \/ Boot \/ Listen

Spec == Init /\ [][Next]_vars

-----------------------------------------------------------------------------
(* Properties.                                                             *)

\* Every variable has its type.
TypeOK ==
    /\ record \in [Instance -> RecordType]
    /\ binary \in [Instance -> BOOLEAN]
    /\ processes \in [Instance -> Pid \cup {Ghost, None}]
    /\ child \in [Pid -> [of : Instance \cup {None}, asked : BOOLEAN]]
    /\ orphans \subseteq Pid
    /\ intentional \subseteq Instance /\ stopped \subseteq Instance
    /\ attempts \in [Instance -> 0 .. MaxAttempts]
    /\ exiting \in [Instance -> [BOOLEAN -> 0 .. MaxPending]]
    /\ restarts \in [Instance -> [armed : 0 .. MaxPending, preparing : 0 .. MaxPending,
                                  settling : 0 .. MaxPending]]
    /\ task \in [Handler -> [op : {"none", "start", "restart", "create", "update", "delete",
                                  "self"},
                            of : Instance \cup {None},
                            pc : {"none", "prep", "wait", "download", "settle", "fetch", "rm",
                                  "term", "kill", "install", "ready"},
                            snap : RecordType \cup {None}]]
    /\ {guiUpdating, startsBlocked} \subseteq BOOLEAN
    /\ gui \in {"up", "booting", "down"} /\ boots \in 0 .. MaxBoots

\* However start, restart, create, the auto-restart timer and the boot
\* interleave at their awaits, this GUI runs at most one process of an
\* instance, and it is the one the processes map can stop.
OneProcess ==
    \A p \in Pid : Alive(p) /\ p \notin orphans => processes[child[p].of] = p

\* A marker of intentionalStops always has an exit to excuse: an exit handler
\* is about to use it up, or the entry is that of a process that was asked to
\* stop (or a ghost, which never exits).  A marker left over would pass the
\* crash of a later process off as a requested stop.
MarkerHasExit ==
    \A i \in intentional :
        \/ exiting[i] # NoExit
        \/ processes[i] = Ghost
        \/ processes[i] \in Pid /\ child[processes[i]].asked

\* An instance stopped on request, at a moment when no earlier crash of it was
\* still being handled, is not restarted by a timer.
StopStays ==
    \A i \in stopped : restarts[i].armed = 0 /\ restarts[i].preparing = 0

\* From the moment stopAllAndWait() has returned until the old GUI is gone or
\* the update is given up, no managed process runs: handlers and timers that
\* were between two awaits when the update began cannot start one.
UpdateQuiet ==
    (\E h \in Handler : InFlight(h, "self", "install") \/ InFlight(h, "self", "ready"))
        => \A p \in Pid : Alive(p) => p \in orphans

\* guiUpdating and startsBlocked belong to one running self-update: they are
\* set while it runs and never outlive it, whichever step fails.
UpdateFlagsOwned ==
    LET updates == {h \in Handler : task[h].op = "self"} IN
    /\ Cardinality(updates) = IF guiUpdating THEN 1 ELSE 0
    /\ startsBlocked => guiUpdating

\* What the pages show as a running instance (a record with a pid) is one:
\* with no request or exit in progress, the pid is a process of the instance.
PidTruthful ==
    \A i \in Instance :
        (/\ Present(i) /\ record[i].pid \in Pid
         /\ exiting[i] = NoExit
         /\ \A h \in Handler : task[h].of # i)
            => child[record[i].pid].of = i

\* Processes are accounted for: the types, and one process of an instance at most.
ProcessesSound == TypeOK /\ OneProcess

\* A requested stop is told from a crash: no marker outlives the exit it excuses, and no
\* timer restarts what was stopped.
StopsTold == MarkerHasExit /\ StopStays

\* The self-update has the instances to itself: its flags are its own, and nothing runs
\* while it replaces the GUI.
UpdateAlone == UpdateQuiet /\ UpdateFlagsOwned
=============================================================================
