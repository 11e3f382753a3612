-------------------------- MODULE SupervisorProofs --------------------------
(***************************************************************************)
(* The process supervisor of the web GUI, for any number of instances,     *)
(* handlers and process identifiers.  Most steps are alike as far as       *)
(* processes are concerned: they start a process, mark and signal some,    *)
(* or leave them alone.  ProcessSteps sorts them, and the invariants are   *)
(* then shown for each sort.                                               *)
(***************************************************************************)
EXTENDS Supervisor, FiniteSetTheorems, TLAPS

TaskState ==
    [op : {"none", "start", "restart", "create", "update", "delete", "self"},
     of : Instance \cup {None},
     pc : {"none", "prep", "wait", "download", "settle", "fetch", "rm",
           "term", "kill", "install", "ready"},
     snap : RecordType \cup {None}]

ChildState == [of : Instance \cup {None}, asked : BOOLEAN]

RestartState == [armed : 0 .. MaxPending, preparing : 0 .. MaxPending,
                 settling : 0 .. MaxPending]

\* A handler in flight has its instance, and an update the record it looked up first.
TasksKnown ==
    \A h \in Handler :
       /\ task[h].op \notin {"none", "self"} => task[h].of \in Instance
       /\ task[h].op = "update" => task[h].snap \in RecordType

\* An entry of the map with a pid is a child of this GUI that runs the instance; an orphan is
\* still running.
EntryOwned ==
    /\ \A i \in Instance : processes[i] \in Pid =>
          child[processes[i]].of = i /\ processes[i] \notin orphans
    /\ \A p \in orphans : Alive(p)

\* An instance stopped on request either still runs with its marker set, or its exit is the
\* only one being handled and has the marker, or nothing of it is left to handle.
OnePending(i) == \E a \in BOOLEAN : exiting[i] = [NoExit EXCEPT ![a] = 1]

StopAwaited ==
    \A i \in stopped :
       /\ \/ exiting[i] = NoExit
          \/ OnePending(i) /\ i \in intentional /\ processes[i] \notin Pid
       /\ processes[i] \in Pid => i \in intentional

\* The flags belong to one self-update, which blocks starts once it has downloaded.
OneUpdate ==
    /\ IF guiUpdating THEN \E h \in Handler : \A g \in Handler : task[g].op = "self" <=> g = h
                      ELSE \A g \in Handler : task[g].op # "self"
    /\ startsBlocked => guiUpdating
    /\ \A h \in Handler : task[h].op = "self" /\ task[h].pc # "download" => startsBlocked

-----------------------------------------------------------------------------
(* The sorts of steps.                                                     *)

Untouched == UNCHANGED <<processes, child, orphans, intentional, exiting, stopped>>

\* A process of i is started, or the attempt leaves a ghost, or start() refuses.
Starts(i) ==
    /\ (\E p \in Pid : Spawned(i, p)) \/ SpawnFailed(i)
    /\ UNCHANGED <<orphans, intentional, exiting, startsBlocked>>

\* Every instance of ids is marked and, with others maybe, asked to stop.
Stops(ids, asked) ==
    /\ ids \subseteq asked /\ asked \subseteq Instance /\ ids \subseteq Running
    /\ Marked(ids) /\ Signalled(asked)
    /\ UNCHANGED <<processes, orphans, exiting, restarts>>

Signals == Signalled(Running) /\ UNCHANGED <<processes, orphans, intentional, exiting, restarts, stopped>>

\* StartAndSave as far as processes are concerned.
LEMMA StartSorts ==
    ASSUME NEW i \in Instance, StartAndSave(i),
           UNCHANGED <<orphans, intentional, exiting, startsBlocked>>
    PROVE  Starts(i) \/ Untouched
BY Zenon DEF StartAndSave, Starts, Untouched

\* Every step is of one of the sorts.
LEMMA ProcessSteps ==
    ASSUME TypeOK, TasksKnown, [Next]_vars
    PROVE  \/ \E p \in Pid : ChildExits(p)
           \/ \E i \in Instance, auto \in BOOLEAN : ExitHandled(i, auto)
           \/ \E i \in Instance : Untouched /\ (TimerFires(i) \/ RestartSettles(i))
           \/ \E i \in Instance : (Starts(i) \/ Untouched) /\ AutoRestart(i)
           \/ \E i \in Instance : Starts(i) /\ UNCHANGED restarts
           \/ \E ids, asked \in SUBSET Instance : Stops(ids, asked)
           \/ Signals
           \/ GuiGone
           \/ Untouched /\ UNCHANGED restarts
<1> DEFINE Goal == \/ \E i \in Instance : Starts(i) /\ UNCHANGED restarts
                   \/ \E ids, asked \in SUBSET Instance : Stops(ids, asked)
                   \/ Signals \/ GuiGone
                   \/ Untouched /\ UNCHANGED restarts
<1>0. task \in [Handler -> TaskState]
  BY Zenon DEF TypeOK, TaskState
<1>1. ASSUME NEW i \in Instance, TimerFires(i) \/ RestartSettles(i)
      PROVE  Untouched
  BY <1>1, Zenon DEF TimerFires, RestartSettles, Untouched
<1>2. ASSUME NEW i \in Instance, AutoRestart(i)
      PROVE  Starts(i) \/ Untouched
  BY <1>2, StartSorts, Zenon DEF AutoRestart
<1>3. ASSUME NEW i \in Instance, AutoStart(i)
      PROVE  Goal
  BY <1>3, StartSorts, Zenon DEF AutoStart
<1>4. ASSUME NEW h \in Handler, NEW i \in Instance,
             \/ PostStart(h, i) \/ PostRestart(h, i) \/ PutSettings(h, i) \/ PostCreate(h, i)
      PROVE  Goal
  BY <1>4, Zenon DEF PostStart, PostRestart, PutSettings, PostCreate, Steady, Untouched
<1>5. ASSUME NEW i \in Instance, Marked({i} \cap Running), Signalled({i}), Steady,
             UNCHANGED processes
      PROVE  Goal
  <2>1. Stops({i} \cap Running, {i})
    BY <1>5, Zenon DEF Stops, Steady
  <2> QED
    BY <2>1, Zenon
<1>6. ASSUME NEW i \in Instance, isRunning(i), Marked({i}), Signalled({i}), Steady,
             UNCHANGED processes
      PROVE  Goal
  <2>1. {i} \cap Running = {i}
    BY <1>6, Zenon DEF Running
  <2> QED
    BY <1>5, <1>6, <2>1, Zenon
<1>7. ASSUME NEW h \in Handler, NEW i \in Instance, PostStop(h, i)
      PROVE  Goal
  BY <1>6, <1>7, Zenon DEF PostStop
<1>8. ASSUME NEW h \in Handler, NEW i \in Instance, PostUpdate(h, i)
      PROVE  Goal
  <2>1. CASE isRunning(i)
    BY <1>6, <1>8, <2>1, Zenon DEF PostUpdate
  <2>2. CASE ~isRunning(i)
    BY <1>8, <2>2, Zenon DEF PostUpdate, Steady, Untouched
  <2> QED
    BY <2>1, <2>2, Zenon
<1>9. ASSUME NEW h \in Handler, NEW i \in Instance, Delete(h, i)
      PROVE  Goal
  BY <1>5, <1>9, Zenon DEF Delete
<1>10. ASSUME NEW h \in Handler,
              StartPrepared(h) \/ RestartPrepared(h) \/ RestartWaited(h) \/ CreatePrepared(h)
                 \/ CreateSettled(h)
       PROVE  Goal
  <2>1. task[h].of \in Instance
    BY <1>10, Zenon DEF StartPrepared, RestartPrepared, RestartWaited, CreatePrepared, CreateSettled,
                 InFlight, TasksKnown
  <2> PICK i \in Instance : i = task[h].of
    BY <2>1, Zenon
  <2>2. CASE StartPrepared(h) \/ RestartWaited(h)
    BY <2>2, StartSorts, Zenon DEF StartPrepared, RestartWaited, Steady
  <2>3. CASE RestartPrepared(h)
    <3>1. CASE isRunning(i)
      BY <1>6, <2>3, <3>1, Zenon DEF RestartPrepared
    <3>2. CASE ~isRunning(i)
      BY <2>3, <3>2, StartSorts, Zenon DEF RestartPrepared, Steady
    <3> QED
      BY <3>1, <3>2, Zenon
  <2>4. CASE CreatePrepared(h)
    BY <2>4, Zenon DEF CreatePrepared, Steady, Starts, Untouched
  <2>5. CASE CreateSettled(h)
    BY <1>5, <2>5, Zenon DEF CreateSettled
  <2> QED
    BY <1>10, <2>2, <2>3, <2>4, <2>5, Zenon
<1>11. ASSUME NEW h \in Handler,
              CreateDownloaded(h) \/ UpdateWaited(h) \/ UpdateFetched(h) \/ UpdateDownloaded(h)
                 \/ DeleteRemoved(h) \/ PostSelfUpdate(h)
       PROVE  Goal
  BY <1>11, Zenon DEF CreateDownloaded, UpdateWaited, UpdateFetched, UpdateDownloaded, DeleteRemoved,
               PostSelfUpdate, Steady, Untouched
<1>12. ASSUME NEW h \in Handler,
              SelfUpdateAborted(h) \/ SelfUpdateKillWaited(h) \/ SelfUpdateInstalled(h)
                 \/ RestartRefused(h)
       PROVE  Goal
  BY <1>12, Zenon DEF SelfUpdateAborted, SelfUpdateKillWaited, SelfUpdateInstalled, RestartRefused,
               SelfUpdateFailed, Steady, Untouched
<1>13. ASSUME NEW h \in Handler, SelfUpdateDownloaded(h)
       PROVE  Goal
  <2>1. Stops({i \in Running : Present(i)}, Running)
    BY <1>13, Zenon DEF SelfUpdateDownloaded, Stops, Steady, Running
  <2>2. {i \in Running : Present(i)} \in SUBSET Instance /\ Running \in SUBSET Instance
    BY Zenon DEF Running
  <2> QED
    BY <2>1, <2>2, Zenon
<1>14. ASSUME NEW h \in Handler, SelfUpdateTermWaited(h)
       PROVE  Goal
  BY <1>14, Zenon DEF SelfUpdateTermWaited, Steady, Untouched, Signals
<1>15. ASSUME NEW h \in Handler, GuiReplaced(h)
       PROVE  Goal
  BY <1>15, Zenon DEF GuiReplaced
<1>16. ASSUME GuiDies \/ Sigint \/ Boot \/ Listen
       PROVE  Goal
  BY <1>16, Zenon DEF GuiDies, Sigint, Boot, Listen, Signals, Steady, Untouched
<1>17. ASSUME UNCHANGED vars
       PROVE  Goal
  BY <1>17, Zenon DEF vars, Untouched
<1> HIDE DEF Goal
<1>18. \/ \E p \in Pid : ChildExits(p)
       \/ \E i \in Instance, auto \in BOOLEAN : ExitHandled(i, auto)
       \/ \E i \in Instance : TimerFires(i) \/ RestartSettles(i)
       \/ \E i \in Instance : AutoRestart(i)
       \/ Goal
  BY <1>3, <1>4, <1>7, <1>8, <1>9, <1>10, <1>11, <1>12, <1>13, <1>14, <1>15, <1>16, <1>17, Zenon
     DEF Next
<1> QED
  BY <1>1, <1>2, <1>18, Zenon DEF Goal

-----------------------------------------------------------------------------
(* Types, variable by variable.                                            *)

ProcessTypes ==
    /\ processes \in [Instance -> Pid \cup {Ghost, None}]
    /\ child \in [Pid -> ChildState]
    /\ orphans \subseteq Pid
    /\ intentional \subseteq Instance /\ stopped \subseteq Instance
    /\ exiting \in [Instance -> [BOOLEAN -> 0 .. MaxPending]]

\* TypeOK, with the sets of records named.
LEMMA NamedTypes ==
    TypeOK <=> /\ record \in [Instance -> RecordType]
               /\ binary \in [Instance -> BOOLEAN]
               /\ ProcessTypes
               /\ attempts \in [Instance -> 0 .. MaxAttempts]
               /\ restarts \in [Instance -> RestartState]
               /\ task \in [Handler -> TaskState]
               /\ {guiUpdating, startsBlocked} \subseteq BOOLEAN
               /\ gui \in {"up", "booting", "down"} /\ boots \in 0 .. MaxBoots
BY Zenon DEF TypeOK, ProcessTypes, ChildState, RestartState, TaskState

\* What a signal does: some children have been asked to stop, which are the ones of the
\* entries meant.
LEMMA SignalledEffect ==
    ASSUME ProcessTypes, NEW ids, Signalled(ids)
    PROVE  /\ child' \in [Pid -> ChildState]
           /\ \A p \in Pid :
                 /\ child'[p].of = child[p].of
                 /\ child'[p].asked = (child[p].asked \/ \E i \in ids : processes[i] = p)
<1>1. child \in [Pid -> ChildState]
  BY Zenon DEF ProcessTypes
<1> DEFINE a(p) == child[p].asked \/ \E i \in ids : processes[i] = p
           c(p) == [child[p] EXCEPT !.asked = a(p)]
<1>2. child' = [p \in Pid |-> c(p)]
  BY Zenon DEF Signalled
<1>3. ASSUME NEW p \in Pid
      PROVE  c(p) \in ChildState /\ c(p).of = child[p].of /\ c(p).asked = a(p)
  <2>1. child[p] \in ChildState /\ a(p) \in BOOLEAN
    BY <1>1, Zenon
  <2> HIDE DEF a
  <2> QED
    BY <2>1, Zenon DEF ChildState
<1> HIDE DEF c
<1> QED
  BY <1>2, <1>3, Zenon

\* What a successful start does.
LEMMA SpawnedEffect ==
    ASSUME ProcessTypes, NEW i \in Instance, NEW p \in Pid, Spawned(i, p)
    PROVE  /\ ~startsBlocked /\ processes[i] = None /\ child[p].of = None
           /\ child' \in [Pid -> ChildState] /\ child'[p].of = i
           /\ \A q \in Pid : q # p => child'[q] = child[q]
           /\ processes' \in [Instance -> Pid \cup {Ghost, None}] /\ processes'[i] = p
           /\ \A j \in Instance : j # i => processes'[j] = processes[j]
           /\ stopped' = stopped \ {i}
<1>1. child \in [Pid -> ChildState] /\ processes \in [Instance -> Pid \cup {Ghost, None}]
  BY Zenon DEF ProcessTypes
<1>2. [of |-> i, asked |-> FALSE] \in ChildState /\ [of |-> i, asked |-> FALSE].of = i
  BY Zenon DEF ChildState
<1> QED
  BY <1>1, <1>2, Zenon DEF Spawned, StartRefused, isRunning, Alive

\* What the exit of a child does: an orphan's changes nothing in the GUI's memory.
LEMMA ExitEffect ==
    ASSUME TypeOK, NEW p \in Pid, ChildExits(p)
    PROVE  /\ child[p].of \in Instance
           /\ child' \in [Pid -> ChildState] /\ child'[p].of = None
           /\ \A q \in Pid : q # p => child'[q] = child[q]
           /\ p \in orphans =>
                 orphans' = orphans \ {p} /\ UNCHANGED <<processes, exiting, intentional>>
           /\ p \notin orphans =>
                 /\ orphans' = orphans
                 /\ processes' = [processes EXCEPT ![child[p].of] = None]
                 /\ \/ exiting' = exiting /\ intentional' = intentional \ {child[p].of}
                    \/ /\ intentional' = intentional
                       /\ \E a \in BOOLEAN :
                             /\ exiting[child[p].of][a] < MaxPending
                             /\ exiting' = [exiting EXCEPT ![child[p].of][a] = @ + 1]
           /\ stopped' = stopped /\ UNCHANGED <<restarts, task, startsBlocked, guiUpdating>>
<1>1. child \in [Pid -> ChildState] /\ Free \in ChildState /\ Free.of = None
  BY Zenon DEF TypeOK, ChildState, Free
<1>2. child[p] \in ChildState /\ child[p].of # None
  BY <1>1, Zenon DEF ChildExits, Alive
<1>3. child[p].of \in Instance
  BY <1>2, Zenon DEF ChildState
<1>4. child' = [child EXCEPT ![p] = Free]
  BY Zenon DEF ChildExits
<1>5. ASSUME p \notin orphans, Present(child[p].of)
      PROVE  \E a \in BOOLEAN : /\ exiting[child[p].of][a] < MaxPending
                                /\ exiting' = [exiting EXCEPT ![child[p].of][a] = @ + 1]
  <2>1. record[child[p].of].auto \in BOOLEAN
    BY <1>3, Zenon DEF TypeOK, RecordType
  <2> QED
    BY <1>5, <2>1, Zenon DEF ChildExits
<1> QED
  BY <1>1, <1>3, <1>4, <1>5, Zenon DEF ChildExits

\* The handler of an exit takes one pending exit, and the marker if there is one.
LEMMA HandledEffect ==
    ASSUME TypeOK, NEW i \in Instance, NEW auto \in BOOLEAN, ExitHandled(i, auto)
    PROVE  /\ exiting[i][auto] > 0
           /\ exiting' \in [Instance -> [BOOLEAN -> 0 .. MaxPending]]
           /\ \A j \in Instance : j # i => exiting'[j] = exiting[j]
           /\ exiting'[i] = [exiting[i] EXCEPT ![auto] = exiting[i][auto] - 1]
           /\ intentional' = intentional \ {i}
           /\ UNCHANGED <<processes, child, orphans, stopped, task, startsBlocked, guiUpdating>>
           /\ restarts' = restarts \/ (i \notin intentional
                                         /\ restarts' = [restarts EXCEPT ![i].armed = @ + 1])
           /\ restarts' \in [Instance -> RestartState]
           /\ attempts' \in [Instance -> 0 .. MaxAttempts]
<1>1. exiting \in [Instance -> [BOOLEAN -> 0 .. MaxPending]]
      /\ attempts \in [Instance -> 0 .. MaxAttempts]
      /\ restarts \in [Instance -> RestartState]
  BY NamedTypes, Zenon DEF ProcessTypes
<1>2. exiting' = [exiting EXCEPT ![i][auto] = exiting[i][auto] - 1] /\ exiting[i][auto] > 0
      /\ intentional' = intentional \ {i}
      /\ UNCHANGED <<processes, child, orphans, stopped, task, startsBlocked, guiUpdating>>
  BY Zenon DEF ExitHandled
<1>3. exiting[i][auto] - 1 \in 0 .. MaxPending
  BY <1>1, <1>2, SupervisorAssumption
<1>4. exiting[i] \in [BOOLEAN -> 0 .. MaxPending]
  BY <1>1, Zenon
<1>5. [exiting[i] EXCEPT ![auto] = exiting[i][auto] - 1] \in [BOOLEAN -> 0 .. MaxPending]
  BY <1>3, <1>4, Zenon
<1>6. exiting' = [exiting EXCEPT ![i] = [exiting[i] EXCEPT ![auto] = exiting[i][auto] - 1]]
  BY <1>1, <1>2, Zenon
<1>7. /\ exiting' \in [Instance -> [BOOLEAN -> 0 .. MaxPending]]
      /\ \A j \in Instance : j # i => exiting'[j] = exiting[j]
      /\ exiting'[i] = [exiting[i] EXCEPT ![auto] = exiting[i][auto] - 1]
  BY <1>1, <1>5, <1>6, Zenon
<1>8. PICK count \in {0, attempts[i]} :
         \/ UNCHANGED <<restarts, attempts>>
         \/ ~Excused(i) /\ WithinLimit(count) /\ ArmRestart(i, count)
  BY Zenon DEF ExitHandled
<1>9. CASE UNCHANGED <<restarts, attempts>>
  BY <1>1, <1>2, <1>7, <1>9, Zenon
<1>10. CASE ~Excused(i) /\ WithinLimit(count) /\ ArmRestart(i, count)
  <2>1. attempts' = [attempts EXCEPT ![i] = count + 1] /\ count < MaxAttempts /\ count \in Nat
    BY <1>1, <1>10 DEF ArmRestart, WithinLimit
  <2>2. count + 1 \in 0 .. MaxAttempts
    BY <2>1, SupervisorAssumption
  <2>3. attempts' \in [Instance -> 0 .. MaxAttempts]
    BY <1>1, <2>1, <2>2, Zenon
  <2>4. restarts[i].armed + 1 \in 0 .. MaxPending
    BY <1>1, <1>10, SupervisorAssumption DEF ArmRestart, RestartState
  <2>5. restarts' = [restarts EXCEPT ![i].armed = @ + 1]
    BY <1>10, Zenon DEF ArmRestart
  <2> DEFINE r == [restarts[i] EXCEPT !.armed = restarts[i].armed + 1]
  <2>6. r \in RestartState
    BY <1>1, <2>4, Zenon DEF RestartState
  <2>7. restarts' = [restarts EXCEPT ![i] = r]
    BY <1>1, <2>5, Zenon
  <2>8. restarts' \in [Instance -> RestartState]
    BY <1>1, <2>6, <2>7, Zenon
  <2>9. i \notin intentional
    BY <1>10, Zenon DEF Excused
  <2> QED
    BY <1>2, <1>7, <2>3, <2>5, <2>8, <2>9, Zenon
<1> QED
  BY <1>8, <1>9, <1>10, Zenon

\* The processes, children, markers and pending exits keep their types.
LEMMA ProcessTypesStep ==
    ASSUME TypeOK, TasksKnown, [Next]_vars
    PROVE  ProcessTypes'
<1>0. ProcessTypes
  BY NamedTypes, Zenon
<1>1. ASSUME NEW p \in Pid, ChildExits(p)
      PROVE  ProcessTypes'
  <2>1. child[p].of \in Instance /\ child' \in [Pid -> ChildState] /\ stopped' = stopped
    BY <1>1, ExitEffect, Zenon
  <2> PICK i \in Instance : i = child[p].of
    BY <2>1, Zenon
  <2>2. CASE p \in orphans
    BY <1>0, <1>1, <2>1, <2>2, ExitEffect, Zenon DEF ProcessTypes
  <2>3. CASE p \notin orphans
    <3>1. processes' = [processes EXCEPT ![i] = None] /\ orphans' = orphans
      BY <1>1, <2>3, ExitEffect, Zenon
    <3>2. processes' \in [Instance -> Pid \cup {Ghost, None}]
      BY <1>0, <3>1, Zenon DEF ProcessTypes
    <3>3. intentional' \subseteq Instance
      BY <1>0, <1>1, <2>3, ExitEffect, Zenon DEF ProcessTypes
    <3>4. \/ exiting' = exiting
          \/ \E a \in BOOLEAN : /\ exiting[i][a] < MaxPending
                                /\ exiting' = [exiting EXCEPT ![i][a] = @ + 1]
      BY <1>1, <2>3, ExitEffect, Zenon
    <3>5. ASSUME NEW a \in BOOLEAN, exiting[i][a] < MaxPending,
                 exiting' = [exiting EXCEPT ![i][a] = @ + 1]
          PROVE  exiting' \in [Instance -> [BOOLEAN -> 0 .. MaxPending]]
      <4>1. exiting[i][a] + 1 \in 0 .. MaxPending
        BY <1>0, <3>5, SupervisorAssumption DEF ProcessTypes
      <4> QED
        BY <1>0, <3>5, <4>1, Zenon DEF ProcessTypes
    <3> QED
      BY <1>0, <2>1, <3>1, <3>2, <3>3, <3>4, <3>5, Zenon DEF ProcessTypes
  <2> QED
    BY <2>2, <2>3, Zenon
<1>2. ASSUME NEW i \in Instance, NEW auto \in BOOLEAN, ExitHandled(i, auto)
      PROVE  ProcessTypes'
  BY <1>0, <1>2, HandledEffect, Zenon DEF ProcessTypes
<1>3. CASE Untouched
  BY <1>0, <1>3, Zenon DEF Untouched, ProcessTypes
<1>4. ASSUME NEW i \in Instance, Starts(i)
      PROVE  ProcessTypes'
  <2>1. CASE SpawnFailed(i)
    BY <1>0, <1>4, <2>1, Zenon DEF Starts, SpawnFailed, ProcessTypes
  <2>2. ASSUME NEW p \in Pid, Spawned(i, p)
        PROVE  ProcessTypes'
    BY <1>0, <1>4, <2>2, SpawnedEffect DEF Starts, ProcessTypes
  <2> QED
    BY <1>4, <2>1, <2>2, Zenon DEF Starts
<1>5. ASSUME NEW ids \in SUBSET Instance, NEW asked \in SUBSET Instance, Stops(ids, asked)
      PROVE  ProcessTypes'
  <2>1. child' \in [Pid -> ChildState]
    BY <1>0, <1>5, SignalledEffect, Zenon DEF Stops
  <2> QED
    BY <1>0, <1>5, <2>1, Zenon DEF Stops, Marked, ProcessTypes
<1>6. CASE Signals
  <2>1. child' \in [Pid -> ChildState]
    BY <1>0, <1>6, SignalledEffect, Zenon DEF Signals
  <2> QED
    BY <1>0, <1>6, <2>1, Zenon DEF Signals, ProcessTypes
<1>7. CASE GuiGone
  <2>1. NoExit \in [BOOLEAN -> 0 .. MaxPending]
    BY SupervisorAssumption DEF NoExit
  <2> QED
    BY <1>0, <1>7, <2>1, Zenon DEF GuiGone, ProcessTypes
<1> QED
  BY <1>1, <1>2, <1>3, <1>4, <1>5, <1>6, <1>7, ProcessSteps, Zenon

\* A record that changes is one setPid, the settings, the creation, the update, the deletion or
\* the boot has written.
LEMMA RecordStep ==
    ASSUME TypeOK, TasksKnown, [Next]_vars
    PROVE  record' \in [Instance -> RecordType] /\ binary' \in [Instance -> BOOLEAN]
<1>0. record \in [Instance -> RecordType] /\ binary \in [Instance -> BOOLEAN]
  BY NamedTypes, Zenon
<1>1. ASSUME NEW i \in Instance, NEW p \in Pid \cup {None}, setPid(i, p)
      PROVE  record' \in [Instance -> RecordType]
  <2>1. record[i] \in RecordType
    BY <1>0, Zenon
  <2> DEFINE r == [record[i] EXCEPT !.pid = IF Present(i) THEN p ELSE record[i].pid]
  <2>2. r \in RecordType
    BY <2>1, Zenon DEF RecordType
  <2>3. record' = [record EXCEPT ![i] = r]
    BY <1>0, <1>1, Zenon DEF setPid
  <2> HIDE DEF r
  <2> QED
    BY <1>0, <2>2, <2>3, Zenon
<1>2. ASSUME NEW i \in Instance, StartAndSave(i)
      PROVE  record' \in [Instance -> RecordType]
  BY <1>0, <1>1, <1>2, Zenon DEF StartAndSave
<1>3. ASSUME NEW p \in Pid, ChildExits(p)
      PROVE  record' \in [Instance -> RecordType] /\ binary' = binary
  <2>1. child[p].of \in Instance
    BY <1>3, ExitEffect, Zenon
  <2> QED
    BY <1>0, <1>1, <1>3, <2>1, Zenon DEF ChildExits
<1>4. ASSUME NEW h \in Handler, NEW i \in Instance, PostStop(h, i) \/ PostUpdate(h, i)
      PROVE  record' \in [Instance -> RecordType] /\ binary' = binary
  <2>1. binary' = binary /\ (record' = record \/ setPid(i, None))
    BY <1>4, Zenon DEF PostStop, PostUpdate
  <2> QED
    BY <1>0, <1>1, <2>1, Zenon
<1>5. ASSUME NEW h \in Handler, NEW i \in Instance, PutSettings(h, i) \/ Delete(h, i)
      PROVE  record' \in [Instance -> RecordType] /\ binary' = binary
  <2>1. record[i] \in RecordType
    BY <1>0, Zenon
  <2>2. CASE PutSettings(h, i)
    <3> DEFINE r == [record[i] EXCEPT !.auto = ~record[i].auto]
    <3>1. r \in RecordType
      BY <2>1, Zenon DEF RecordType
    <3>2. record' = [record EXCEPT ![i] = r] /\ binary' = binary
      BY <1>0, <2>2, Zenon DEF PutSettings
    <3> HIDE DEF r
    <3> QED
      BY <1>0, <3>1, <3>2, Zenon
  <2>3. CASE Delete(h, i)
    <3>1. [state |-> "gone", auto |-> FALSE, pid |-> None] \in RecordType
      BY Zenon DEF RecordType
    <3> QED
      BY <1>0, <2>3, <3>1, Zenon DEF Delete
  <2> QED
    BY <1>5, <2>2, <2>3, Zenon
<1>6. ASSUME NEW h \in Handler,
             StartPrepared(h) \/ RestartPrepared(h) \/ RestartWaited(h)
      PROVE  record' \in [Instance -> RecordType] /\ binary' = binary
  <2>1. task[h].of \in Instance
    BY <1>6, Zenon DEF StartPrepared, RestartPrepared, RestartWaited, InFlight, TasksKnown
  <2>2. binary' = binary /\ (record' = record \/ StartAndSave(task[h].of))
    BY <1>6, Zenon DEF StartPrepared, RestartPrepared, RestartWaited
  <2> QED
    BY <1>0, <1>2, <2>1, <2>2, Zenon
<1>7. ASSUME NEW h \in Handler, CreateDownloaded(h) \/ UpdateDownloaded(h)
                                   \/ UpdateFetched(h) \/ DeleteRemoved(h)
      PROVE  record' \in [Instance -> RecordType] /\ binary' \in [Instance -> BOOLEAN]
  <2>1. task[h].of \in Instance
    BY <1>7, Zenon DEF CreateDownloaded, UpdateDownloaded, UpdateFetched, DeleteRemoved, InFlight,
                TasksKnown
  <2> PICK i \in Instance : i = task[h].of
    BY <2>1, Zenon
  <2>2. record[i] \in RecordType
    BY <1>0, Zenon
  <2>3. CASE CreateDownloaded(h)
    <3> DEFINE r == [record[i] EXCEPT !.state = "present"]
    <3>1. r \in RecordType
      BY <2>2, Zenon DEF RecordType
    <3>2. record' = record \/ record' = [record EXCEPT ![i] = r]
      BY <1>0, <2>3, Zenon DEF CreateDownloaded
    <3>3. binary' \in [Instance -> BOOLEAN]
      BY <1>0, <2>3, Zenon DEF CreateDownloaded
    <3> HIDE DEF r
    <3> QED
      BY <1>0, <3>1, <3>2, <3>3, Zenon
  <2>4. CASE UpdateDownloaded(h)
    <3>1. task[h].snap \in RecordType
      BY <2>4, Zenon DEF UpdateDownloaded, InFlight, TasksKnown
    <3>2. Overlaid(record[i], task[h].snap) \in RecordType
      BY <2>2, <3>1, Zenon DEF Overlaid, RecordType
    <3>3. record' = record \/ record' = [record EXCEPT ![i] = Overlaid(@, task[h].snap)]
      BY <2>4, Zenon DEF UpdateDownloaded
    <3>4. binary' \in [Instance -> BOOLEAN]
      BY <1>0, <2>4, Zenon DEF UpdateDownloaded
    <3> QED
      BY <1>0, <3>2, <3>3, <3>4
  <2>5. CASE UpdateFetched(h) \/ DeleteRemoved(h)
    BY <1>0, <2>5, Zenon DEF UpdateFetched, DeleteRemoved
  <2> QED
    BY <1>7, <2>3, <2>4, <2>5, Zenon
<1>8. ASSUME Boot
      PROVE  record' \in [Instance -> RecordType] /\ binary' = binary
  <2>1. ASSUME NEW i \in Instance
        PROVE  Loaded(record[i]) \in RecordType
    <3>1. record[i] \in RecordType
      BY <1>0, Zenon
    <3> DEFINE q == IF record[i].pid \in Pid
                    THEN IF Alive(record[i].pid) THEN record[i].pid ELSE None ELSE Absent
    <3>2. q \in Pid \cup {None, Absent}
      BY Zenon
    <3>3. Loaded(record[i]) = [record[i] EXCEPT !.pid = q]
      BY Zenon DEF Loaded
    <3> HIDE DEF q
    <3> QED
      BY <3>1, <3>2, <3>3, Zenon DEF RecordType
  <2> QED
    BY <1>0, <1>8, <2>1, Zenon DEF Boot
<1>9. ASSUME NEW i \in Instance, AutoRestart(i) \/ AutoStart(i)
      PROVE  record' \in [Instance -> RecordType] /\ binary' = binary
  BY <1>2, <1>9, Zenon DEF AutoRestart, AutoStart
<1>10. \/ UNCHANGED <<record, binary>>
       \/ \E p \in Pid : ChildExits(p)
       \/ \E h \in Handler, i \in Instance : \/ PostStop(h, i) \/ PostUpdate(h, i)
                                             \/ PutSettings(h, i) \/ Delete(h, i)
       \/ \E h \in Handler : \/ StartPrepared(h) \/ RestartPrepared(h) \/ RestartWaited(h)
                             \/ CreateDownloaded(h) \/ UpdateDownloaded(h)
                             \/ UpdateFetched(h) \/ DeleteRemoved(h)
       \/ \E i \in Instance : AutoRestart(i) \/ AutoStart(i)
       \/ Boot
  BY Zenon DEF Next, vars, ExitHandled, TimerFires, RestartSettles, PostStart, PostRestart,
         PostCreate, CreatePrepared, CreateSettled, UpdateWaited, PostSelfUpdate,
         SelfUpdateAborted, SelfUpdateDownloaded, SelfUpdateTermWaited, SelfUpdateKillWaited,
         SelfUpdateInstalled, RestartRefused, GuiReplaced, GuiGone, GuiDies, Sigint, Listen
<1> QED
  BY <1>0, <1>3, <1>4, <1>5, <1>6, <1>7, <1>8, <1>9, <1>10, Zenon

\* What the steps of a timer do to the restarts of an instance: with none armed and none
\* prepared, none gets armed or prepared.
LEMMA TimerEffect ==
    ASSUME TypeOK, NEW i \in Instance, TimerFires(i) \/ RestartSettles(i) \/ AutoRestart(i)
    PROVE  /\ restarts' \in [Instance -> RestartState]
           /\ \A j \in Instance : j # i => restarts'[j] = restarts[j]
           /\ \/ restarts[i].armed > 0 \/ restarts[i].preparing > 0
              \/ /\ restarts'[i].armed = restarts[i].armed
                 /\ restarts'[i].preparing = restarts[i].preparing
<1>0. restarts \in [Instance -> RestartState] /\ restarts[i] \in RestartState
  BY NamedTypes, Zenon
<1>1. ASSUME NEW a \in 0 .. MaxPending, NEW b \in 0 .. MaxPending, NEW c \in 0 .. MaxPending,
             restarts' = [restarts EXCEPT ![i] = [armed |-> a, preparing |-> b, settling |-> c]]
      PROVE  /\ restarts' \in [Instance -> RestartState]
             /\ \A j \in Instance : j # i => restarts'[j] = restarts[j]
             /\ restarts'[i].armed = a /\ restarts'[i].preparing = b
  <2> DEFINE r == [armed |-> a, preparing |-> b, settling |-> c]
  <2>1. r \in RestartState /\ r.armed = a /\ r.preparing = b
    BY Zenon DEF RestartState
  <2>2. restarts' = [restarts EXCEPT ![i] = r]
    BY <1>1, Zenon
  <2> HIDE DEF r
  <2> QED
    BY <1>0, <2>1, <2>2, Zenon
<1> DEFINE a == restarts[i].armed
           b == restarts[i].preparing
           c == restarts[i].settling
<1>2. a \in 0 .. MaxPending /\ b \in 0 .. MaxPending /\ c \in 0 .. MaxPending
  BY <1>0, Zenon DEF RestartState
<1>3. CASE TimerFires(i)
  <2>1. a > 0 /\ a - 1 \in 0 .. MaxPending
    BY <1>2, <1>3, SupervisorAssumption, SMTT(30) DEF TimerFires
  <2>2. \/ restarts' = [restarts EXCEPT ![i].armed = @ - 1]
        \/ /\ b < MaxPending
           /\ restarts' = [restarts EXCEPT ![i].armed = @ - 1, ![i].preparing = @ + 1]
    BY <1>3, Zenon DEF TimerFires
  <2>3. CASE restarts' = [restarts EXCEPT ![i].armed = @ - 1]
    <3>1. restarts' = [restarts EXCEPT ![i] = [armed |-> a - 1, preparing |-> b, settling |-> c]]
      <4>1. [restarts[i] EXCEPT !.armed = a - 1]
               = [armed |-> a - 1, preparing |-> b, settling |-> c]
        BY <1>0 DEF RestartState
      <4>2. restarts' = [restarts EXCEPT ![i] = [restarts[i] EXCEPT !.armed = a - 1]]
        BY <1>0, <2>3, Zenon
      <4> QED
        BY <4>1, <4>2, Zenon
    <3> QED
      BY <1>1, <1>2, <2>1, <3>1, Zenon
  <2>4. CASE /\ b < MaxPending
             /\ restarts' = [restarts EXCEPT ![i].armed = @ - 1, ![i].preparing = @ + 1]
    <3>1. restarts' = [restarts EXCEPT ![i] = [armed |-> a - 1, preparing |-> b + 1,
                                               settling |-> c]]
      BY <1>0, <2>4 DEF RestartState
    <3>2. b + 1 \in 0 .. MaxPending
      BY <1>2, <2>4, SupervisorAssumption, SMTT(30)
    <3> QED
      BY <1>1, <1>2, <2>1, <3>1, <3>2, Zenon
  <2> QED
    BY <2>2, <2>3, <2>4, Zenon
<1>4. CASE RestartSettles(i)
  <2>1. c - 1 \in 0 .. MaxPending
    BY <1>2, <1>4, SupervisorAssumption DEF RestartSettles
  <2>2. restarts' = [restarts EXCEPT ![i].settling = @ - 1]
    BY <1>4, Zenon DEF RestartSettles
  <2>3. restarts' = [restarts EXCEPT ![i] = [armed |-> a, preparing |-> b, settling |-> c - 1]]
    <3>1. [restarts[i] EXCEPT !.settling = c - 1]
             = [armed |-> a, preparing |-> b, settling |-> c - 1]
      BY <1>0 DEF RestartState
    <3>2. restarts' = [restarts EXCEPT ![i] = [restarts[i] EXCEPT !.settling = c - 1]]
      BY <1>0, <2>2, Zenon
    <3> QED
      BY <3>1, <3>2, Zenon
  <2> QED
    BY <1>1, <1>2, <2>1, <2>3, Zenon
<1>5. CASE AutoRestart(i)
  <2>1. b > 0 /\ b - 1 \in 0 .. MaxPending
    BY <1>2, <1>5, SupervisorAssumption, SMTT(30) DEF AutoRestart
  <2>2. \/ restarts' = [restarts EXCEPT ![i].preparing = @ - 1]
        \/ /\ c < MaxPending
           /\ restarts' = [restarts EXCEPT ![i].preparing = @ - 1, ![i].settling = @ + 1]
    BY <1>5, Zenon DEF AutoRestart
  <2>3. CASE restarts' = [restarts EXCEPT ![i].preparing = @ - 1]
    <3>1. restarts' = [restarts EXCEPT ![i] = [armed |-> a, preparing |-> b - 1, settling |-> c]]
      <4>1. [restarts[i] EXCEPT !.preparing = b - 1]
               = [armed |-> a, preparing |-> b - 1, settling |-> c]
        BY <1>0 DEF RestartState
      <4>2. restarts' = [restarts EXCEPT ![i] = [restarts[i] EXCEPT !.preparing = b - 1]]
        BY <1>0, <2>3, Zenon
      <4> QED
        BY <4>1, <4>2, Zenon
    <3> QED
      BY <1>1, <1>2, <2>1, <3>1, Zenon
  <2>4. CASE /\ c < MaxPending
             /\ restarts' = [restarts EXCEPT ![i].preparing = @ - 1, ![i].settling = @ + 1]
    <3>1. restarts' = [restarts EXCEPT ![i] = [armed |-> a, preparing |-> b - 1,
                                               settling |-> c + 1]]
      BY <1>0, <2>4 DEF RestartState
    <3>2. c + 1 \in 0 .. MaxPending
      BY <1>2, <2>4, SupervisorAssumption
    <3> QED
      BY <1>1, <1>2, <2>1, <3>1, <3>2, Zenon
  <2> QED
    BY <2>2, <2>3, <2>4, Zenon
<1> QED
  BY <1>3, <1>4, <1>5, Zenon

\* The restart timers and the counts of attempts keep their types.
LEMMA RestartsStep ==
    ASSUME TypeOK, TasksKnown, [Next]_vars
    PROVE  restarts' \in [Instance -> RestartState] /\ attempts' \in [Instance -> 0 .. MaxAttempts]
<1>0. restarts \in [Instance -> RestartState] /\ attempts \in [Instance -> 0 .. MaxAttempts]
      /\ 0 \in 0 .. MaxAttempts
  BY NamedTypes, SupervisorAssumption
<1>1. ASSUME NEW i \in Instance, NEW auto \in BOOLEAN, ExitHandled(i, auto)
      PROVE  restarts' \in [Instance -> RestartState] /\ attempts' \in [Instance -> 0 .. MaxAttempts]
  BY <1>1, HandledEffect, Zenon
<1>2. ASSUME NEW i \in Instance, TimerFires(i) \/ RestartSettles(i) \/ AutoRestart(i)
      PROVE  restarts' \in [Instance -> RestartState] /\ attempts' \in [Instance -> 0 .. MaxAttempts]
  <2>1. attempts' = attempts \/ attempts' = [attempts EXCEPT ![i] = 0]
    BY <1>2, Zenon DEF TimerFires, RestartSettles, AutoRestart
  <2> QED
    BY <1>0, <1>2, <2>1, TimerEffect, Zenon
<1>3. ASSUME NEW ids, Marked(ids)
      PROVE  attempts' \in [Instance -> 0 .. MaxAttempts]
  BY <1>0, <1>3, Zenon DEF Marked
<1>4. CASE GuiGone
  <2>1. NoRestart \in RestartState
    BY SupervisorAssumption DEF NoRestart, RestartState
  <2> QED
    BY <1>0, <1>4, <2>1, Zenon DEF GuiGone
<1>5. \/ UNCHANGED <<restarts, attempts>>
      \/ UNCHANGED restarts /\ \E ids \in SUBSET Instance : Marked(ids)
      \/ GuiGone
      \/ \E i \in Instance, auto \in BOOLEAN : ExitHandled(i, auto)
      \/ \E i \in Instance : TimerFires(i) \/ RestartSettles(i) \/ AutoRestart(i)
  <2>1. ASSUME NEW h \in Handler, NEW i \in Instance,
               PostStop(h, i) \/ PostUpdate(h, i) \/ Delete(h, i)
        PROVE  UNCHANGED restarts /\ (UNCHANGED attempts \/ \E ids \in SUBSET Instance : Marked(ids))
    <3>1. UNCHANGED restarts
      BY <2>1, Zenon DEF PostStop, PostUpdate, Delete, Steady
    <3>2. UNCHANGED attempts \/ Marked({i}) \/ Marked({i} \cap Running)
      BY <2>1, Zenon DEF PostStop, PostUpdate, Delete
    <3>3. {i} \in SUBSET Instance /\ {i} \cap Running \in SUBSET Instance
      BY Zenon
    <3> QED
      BY <3>1, <3>2, <3>3, Zenon
  <2>2. ASSUME NEW h \in Handler, RestartPrepared(h) \/ CreateSettled(h)
        PROVE  UNCHANGED restarts /\ (UNCHANGED attempts \/ \E ids \in SUBSET Instance : Marked(ids))
    <3>1. task[h].of \in Instance
      BY <2>2, Zenon DEF RestartPrepared, CreateSettled, InFlight, TasksKnown
    <3> PICK i \in Instance : i = task[h].of
      BY <3>1, Zenon
    <3>2. UNCHANGED restarts
      BY <2>2, Zenon DEF RestartPrepared, CreateSettled, Steady
    <3>3. UNCHANGED attempts \/ Marked({i}) \/ Marked({i} \cap Running)
      BY <2>2, Zenon DEF RestartPrepared, CreateSettled
    <3>4. {i} \in SUBSET Instance /\ {i} \cap Running \in SUBSET Instance
      BY Zenon
    <3> QED
      BY <3>2, <3>3, <3>4, Zenon
  <2>3. ASSUME NEW h \in Handler, SelfUpdateDownloaded(h)
        PROVE  UNCHANGED restarts /\ \E ids \in SUBSET Instance : Marked(ids)
    <3>1. Marked({i \in Running : Present(i)}) /\ UNCHANGED restarts
      BY <2>3, Zenon DEF SelfUpdateDownloaded, Steady
    <3>2. {i \in Running : Present(i)} \in SUBSET Instance
      BY Zenon DEF Running
    <3> QED
      BY <3>1, <3>2, Zenon
  <2>4. \/ UNCHANGED <<restarts, attempts>> \/ GuiGone
        \/ \E i \in Instance, auto \in BOOLEAN : ExitHandled(i, auto)
        \/ \E i \in Instance : TimerFires(i) \/ RestartSettles(i) \/ AutoRestart(i)
        \/ \E h \in Handler, i \in Instance : PostStop(h, i) \/ PostUpdate(h, i) \/ Delete(h, i)
        \/ \E h \in Handler : RestartPrepared(h) \/ CreateSettled(h) \/ SelfUpdateDownloaded(h)
    BY Zenon DEF Next, vars, ChildExits, AutoStart, PostStart, PostRestart, PutSettings, PostCreate,
           StartPrepared, RestartWaited, CreateDownloaded, CreatePrepared, UpdateWaited,
           UpdateFetched, UpdateDownloaded, DeleteRemoved, PostSelfUpdate, SelfUpdateAborted,
           SelfUpdateTermWaited, SelfUpdateKillWaited, SelfUpdateInstalled, RestartRefused,
           SelfUpdateFailed, GuiReplaced, GuiDies, Sigint, Boot, Listen, Steady
  <2> QED
    BY <2>1, <2>2, <2>3, <2>4, Zenon
<1> QED
  BY <1>0, <1>1, <1>2, <1>3, <1>4, <1>5, Zenon

\* What the forms of a handler's step do to its task.
LEMMA TaskMoves ==
    ASSUME task \in [Handler -> TaskState], NEW h \in Handler
    PROVE  /\ \A op, pc, of, snap :
                 [op |-> op, of |-> of, pc |-> pc, snap |-> snap] \in TaskState
                    /\ Begin(h, op, of, pc, snap)
                 => /\ task' \in [Handler -> TaskState]
                    /\ task'[h].op = op /\ task'[h].pc = pc
                    /\ task'[h].of = of /\ task'[h].snap = snap
                    /\ \A g \in Handler : g # h => task'[g] = task[g]
           /\ \A pc \in {"prep", "wait", "download", "settle", "fetch", "term", "kill",
                         "install", "ready"} :
                 Proceed(h, pc) =>
                    /\ task' \in [Handler -> TaskState]
                    /\ task'[h].op = task[h].op /\ task'[h].pc = pc
                    /\ task'[h].of = task[h].of /\ task'[h].snap = task[h].snap
                    /\ \A g \in Handler : g # h => task'[g] = task[g]
           /\ End(h) => /\ task' \in [Handler -> TaskState] /\ task'[h].op = "none"
                        /\ \A g \in Handler : g # h => task'[g] = task[g]
<1>1. ASSUME NEW op, NEW pc, NEW of, NEW snap,
             [op |-> op, of |-> of, pc |-> pc, snap |-> snap] \in TaskState,
             Begin(h, op, of, pc, snap)
      PROVE  /\ task' \in [Handler -> TaskState]
             /\ task'[h].op = op /\ task'[h].pc = pc
             /\ task'[h].of = of /\ task'[h].snap = snap
             /\ \A g \in Handler : g # h => task'[g] = task[g]
  BY <1>1, Zenon DEF Begin
<1>2. ASSUME NEW pc \in {"prep", "wait", "download", "settle", "fetch", "term", "kill",
                         "install", "ready"},
             Proceed(h, pc)
      PROVE  /\ task' \in [Handler -> TaskState]
             /\ task'[h].op = task[h].op /\ task'[h].pc = pc
             /\ task'[h].of = task[h].of /\ task'[h].snap = task[h].snap
             /\ \A g \in Handler : g # h => task'[g] = task[g]
  <2> DEFINE t == [task[h] EXCEPT !.pc = pc]
  <2>1. t \in TaskState /\ t.op = task[h].op /\ t.pc = pc /\ t.of = task[h].of
        /\ t.snap = task[h].snap
    BY Zenon DEF TaskState
  <2>2. task' = [task EXCEPT ![h] = t]
    BY <1>2, Zenon DEF Proceed
  <2> HIDE DEF t
  <2> QED
    BY <2>1, <2>2, Zenon
<1>3. ASSUME End(h)
      PROVE  /\ task' \in [Handler -> TaskState] /\ task'[h].op = "none"
             /\ \A g \in Handler : g # h => task'[g] = task[g]
  <2>1. Idle \in TaskState /\ Idle.op = "none"
    BY Zenon DEF Idle, TaskState
  <2> QED
    BY <1>3, <2>1, Zenon DEF End
<1> QED
  BY <1>1, <1>2, <1>3, Zenon

-----------------------------------------------------------------------------
(* Handlers and the flags of the self-update.                              *)

\* The four ways in which the step of a handler can matter to the flags.
OwnTask(h) ==
    /\ task[h].op # "self" /\ task'[h].op # "self"
    /\ task'[h].op # "none" => task'[h].of \in Instance
    /\ task'[h].op = "update" => task'[h].snap \in RecordType
    /\ UNCHANGED <<guiUpdating, startsBlocked>>

UpdateBegins(h) ==
    /\ ~guiUpdating /\ guiUpdating' = TRUE /\ UNCHANGED startsBlocked
    /\ task[h].op # "self" /\ task'[h].op = "self" /\ task'[h].pc = "download"

UpdateGoesOn(h) ==
    /\ task[h].op = "self" /\ task'[h].op = "self" /\ UNCHANGED guiUpdating
    /\ startsBlocked' = TRUE \/ (UNCHANGED startsBlocked /\ task[h].pc # "download")
    /\ task'[h].pc \in {"install", "ready"} =>
          task[h].pc # "download" /\ (AllStopped \/ task[h].pc = "install")

UpdateEnds(h) ==
    /\ task[h].op = "self" /\ task'[h].op = "none"
    /\ guiUpdating' = FALSE /\ startsBlocked' = FALSE

HandlerMoves(h) ==
    /\ task' \in [Handler -> TaskState]
    /\ \A g \in Handler : g # h => task'[g] = task[g]
    /\ OwnTask(h) \/ UpdateBegins(h) \/ UpdateGoesOn(h) \/ UpdateEnds(h)

\* Every step is such a step of a handler, or leaves tasks and flags alone, or is the end of
\* the GUI.
LEMMA HandlerSteps ==
    ASSUME TypeOK, TasksKnown, [Next]_vars
    PROVE  \/ UNCHANGED <<task, guiUpdating, startsBlocked>>
           \/ GuiGone
           \/ \E h \in Handler : HandlerMoves(h)
<1>0. task \in [Handler -> TaskState] /\ record \in [Instance -> RecordType]
  BY NamedTypes, Zenon
<1>1. ASSUME NEW h \in Handler, NEW i \in Instance,
             \/ PostStart(h, i) \/ PostRestart(h, i)
             \/ PostCreate(h, i) \/ PostUpdate(h, i) \/ Delete(h, i)
      PROVE  HandlerMoves(h)
  <2>1. UNCHANGED <<guiUpdating, startsBlocked>> /\ task[h] = Idle
    BY <1>1, Zenon DEF PostStart, PostRestart, PostCreate, PostUpdate, Delete, Accepted
  <2>2. task[h].op # "self"
    BY <2>1 DEF Idle
  <2>3. \/ Begin(h, "start", i, "prep", None) \/ Begin(h, "restart", i, "prep", None)
        \/ Begin(h, "create", i, "download", None)
        \/ Begin(h, "update", i, "wait", record[i]) \/ Begin(h, "update", i, "fetch", record[i])
        \/ Begin(h, "delete", i, "rm", None)
    BY <1>1, Zenon DEF PostStart, PostRestart, PostCreate, PostUpdate, Delete
  <2>4. PICK op \in {"start", "restart", "create", "update", "delete"},
             pc \in {"prep", "download", "wait", "fetch", "rm"},
             snap \in RecordType \cup {None} :
               /\ Begin(h, op, i, pc, snap) /\ (op = "update" => snap \in RecordType)
    <3>1. record[i] \in RecordType
      BY <1>0, Zenon
    <3> QED
      BY <2>3, <3>1, Zenon
  <2>5. [op |-> op, of |-> i, pc |-> pc, snap |-> snap] \in TaskState
    BY Zenon DEF TaskState
  <2>6. /\ task' \in [Handler -> TaskState] /\ task'[h].op = op /\ task'[h].of = i
        /\ task'[h].snap = snap /\ \A g \in Handler : g # h => task'[g] = task[g]
    BY <1>0, <2>4, <2>5, TaskMoves
  <2>7. OwnTask(h)
    BY <2>1, <2>2, <2>4, <2>6, Zenon DEF OwnTask
  <2> QED
    BY <2>6, <2>7, Zenon DEF HandlerMoves
<1>2. ASSUME NEW h \in Handler, task[h].op \notin {"none", "self"},
             \/ End(h)
             \/ \E pc \in {"prep", "wait", "settle", "fetch", "download"} : Proceed(h, pc),
             UNCHANGED <<guiUpdating, startsBlocked>>
      PROVE  HandlerMoves(h)
  <2>1. CASE End(h)
    BY <1>0, <1>2, <2>1, TaskMoves, Zenon DEF HandlerMoves, OwnTask
  <2>2. ASSUME NEW pc \in {"prep", "wait", "settle", "fetch", "download"}, Proceed(h, pc)
        PROVE  HandlerMoves(h)
    <3>1. /\ task' \in [Handler -> TaskState] /\ task'[h].op = task[h].op
          /\ task'[h].of = task[h].of /\ task'[h].snap = task[h].snap
          /\ \A g \in Handler : g # h => task'[g] = task[g]
      BY <1>0, <2>2, TaskMoves, Zenon
    <3> QED
      BY <1>2, <3>1, Zenon DEF HandlerMoves, OwnTask, TasksKnown
  <2> QED
    BY <1>2, <2>1, <2>2, Zenon
<1>3. ASSUME NEW h \in Handler,
             \/ StartPrepared(h) \/ RestartPrepared(h) \/ RestartWaited(h)
             \/ CreateDownloaded(h) \/ CreatePrepared(h) \/ CreateSettled(h)
             \/ UpdateWaited(h) \/ UpdateFetched(h) \/ UpdateDownloaded(h) \/ DeleteRemoved(h)
      PROVE  HandlerMoves(h)
  <2>1. task[h].op \notin {"none", "self"} /\ UNCHANGED <<guiUpdating, startsBlocked>>
    BY <1>3, Zenon DEF StartPrepared, RestartPrepared, RestartWaited, CreateDownloaded,
                CreatePrepared, CreateSettled, UpdateWaited, UpdateFetched, UpdateDownloaded,
                DeleteRemoved, InFlight
  <2>2. \/ End(h)
        \/ \E pc \in {"prep", "wait", "settle", "fetch", "download"} : Proceed(h, pc)
    BY <1>3, Zenon DEF StartPrepared, RestartPrepared, RestartWaited, CreateDownloaded,
                CreatePrepared, CreateSettled, UpdateWaited, UpdateFetched, UpdateDownloaded,
                DeleteRemoved
  <2> QED
    BY <1>2, <2>1, <2>2, Zenon
<1>4. ASSUME NEW h \in Handler, PostSelfUpdate(h)
      PROVE  HandlerMoves(h)
  <2>1. /\ ~guiUpdating /\ guiUpdating' = TRUE /\ UNCHANGED startsBlocked /\ task[h] = Idle
        /\ Begin(h, "self", None, "download", None)
    BY <1>4, Zenon DEF PostSelfUpdate, Accepted
  <2>2. [op |-> "self", of |-> None, pc |-> "download", snap |-> None] \in TaskState
    BY Zenon DEF TaskState
  <2>3. /\ task' \in [Handler -> TaskState] /\ task'[h].op = "self"
        /\ task'[h].pc = "download" /\ \A g \in Handler : g # h => task'[g] = task[g]
    BY <1>0, <2>1, <2>2, TaskMoves
  <2> QED
    BY <2>1, <2>3 DEF HandlerMoves, UpdateBegins, Idle
<1>5. ASSUME NEW h \in Handler, task[h].op = "self", SelfUpdateFailed(h)
      PROVE  HandlerMoves(h)
  BY <1>0, <1>5, TaskMoves, Zenon DEF SelfUpdateFailed, HandlerMoves, UpdateEnds
<1>6. ASSUME NEW h \in Handler, task[h].op = "self", UNCHANGED guiUpdating,
             startsBlocked' = TRUE \/ (UNCHANGED startsBlocked /\ task[h].pc # "download"),
             NEW pc \in {"term", "kill", "install", "ready"}, Proceed(h, pc),
             pc \in {"install", "ready"} =>
                task[h].pc # "download" /\ (AllStopped \/ task[h].pc = "install")
      PROVE  HandlerMoves(h)
  <2>1. /\ task' \in [Handler -> TaskState] /\ task'[h].op = task[h].op /\ task'[h].pc = pc
        /\ \A g \in Handler : g # h => task'[g] = task[g]
    BY <1>0, <1>6, TaskMoves, Zenon
  <2> QED
    BY <1>6, <2>1, Zenon DEF HandlerMoves, UpdateGoesOn
<1>7. ASSUME NEW h \in Handler,
             \/ SelfUpdateAborted(h) \/ SelfUpdateDownloaded(h) \/ SelfUpdateTermWaited(h)
             \/ SelfUpdateKillWaited(h) \/ SelfUpdateInstalled(h) \/ RestartRefused(h)
      PROVE  HandlerMoves(h)
  <2>1. task[h].op = "self"
    BY <1>7, Zenon DEF SelfUpdateAborted, SelfUpdateDownloaded, SelfUpdateTermWaited,
                SelfUpdateKillWaited, SelfUpdateInstalled, RestartRefused, InFlight
  <2>2. CASE SelfUpdateAborted(h) \/ RestartRefused(h)
    BY <1>5, <2>1, <2>2, Zenon DEF SelfUpdateAborted, RestartRefused
  <2>3. CASE SelfUpdateDownloaded(h)
    BY <1>6, <2>1, <2>3, Zenon DEF SelfUpdateDownloaded
  <2>4. CASE SelfUpdateTermWaited(h)
    BY <1>6, <2>1, <2>4, Zenon DEF SelfUpdateTermWaited, InFlight
  <2>5. CASE SelfUpdateKillWaited(h)
    BY <1>5, <1>6, <2>1, <2>5, Zenon DEF SelfUpdateKillWaited, InFlight
  <2>6. CASE SelfUpdateInstalled(h)
    BY <1>5, <1>6, <2>1, <2>6, Zenon DEF SelfUpdateInstalled, InFlight
  <2> QED
    BY <1>7, <2>2, <2>3, <2>4, <2>5, <2>6, Zenon
<1>8. \/ UNCHANGED <<task, guiUpdating, startsBlocked>>
      \/ GuiGone
      \/ \E h \in Handler, i \in Instance : \/ PostStart(h, i) \/ PostRestart(h, i)
             \/ PostCreate(h, i) \/ PostUpdate(h, i) \/ Delete(h, i)
      \/ \E h \in Handler : \/ StartPrepared(h) \/ RestartPrepared(h) \/ RestartWaited(h)
             \/ CreateDownloaded(h) \/ CreatePrepared(h) \/ CreateSettled(h)
             \/ UpdateWaited(h) \/ UpdateFetched(h) \/ UpdateDownloaded(h) \/ DeleteRemoved(h)
      \/ \E h \in Handler : PostSelfUpdate(h)
      \/ \E h \in Handler : \/ SelfUpdateAborted(h) \/ SelfUpdateDownloaded(h)
             \/ SelfUpdateTermWaited(h)
             \/ SelfUpdateKillWaited(h) \/ SelfUpdateInstalled(h) \/ RestartRefused(h)
  BY Zenon DEF Next, vars, ChildExits, ExitHandled, TimerFires, RestartSettles, AutoRestart,
         AutoStart, PostStop, PutSettings, GuiReplaced, GuiDies, Sigint, Boot, Listen
<1> QED
  BY <1>1, <1>3, <1>4, <1>7, <1>8, Zenon

\* Handlers in flight stay known.
LEMMA TasksStep ==
    ASSUME TypeOK, TasksKnown, [Next]_vars
    PROVE  /\ task' \in [Handler -> TaskState] /\ TasksKnown'
           /\ {guiUpdating, startsBlocked}' \subseteq BOOLEAN
<1>0. task \in [Handler -> TaskState] /\ {guiUpdating, startsBlocked} \subseteq BOOLEAN
  BY NamedTypes, Zenon
<1>1. CASE UNCHANGED <<task, guiUpdating, startsBlocked>>
  BY <1>0, <1>1, Zenon DEF TasksKnown
<1>2. CASE GuiGone
  <2>1. Idle \in TaskState /\ Idle.op = "none"
    BY Zenon DEF Idle, TaskState
  <2> QED
    BY <1>2, <2>1, Zenon DEF GuiGone, TasksKnown
<1>3. ASSUME NEW h \in Handler, HandlerMoves(h)
      PROVE  /\ task' \in [Handler -> TaskState] /\ TasksKnown'
             /\ {guiUpdating, startsBlocked}' \subseteq BOOLEAN
  <2>1. {guiUpdating, startsBlocked}' \subseteq BOOLEAN
    BY <1>0, <1>3, Zenon DEF HandlerMoves, OwnTask, UpdateBegins, UpdateGoesOn, UpdateEnds
  <2>2. /\ task'[h].op \notin {"none", "self"} => task'[h].of \in Instance
        /\ task'[h].op = "update" => task'[h].snap \in RecordType
    BY <1>3, Zenon DEF HandlerMoves, OwnTask, UpdateBegins, UpdateGoesOn, UpdateEnds
  <2>3. TasksKnown'
    BY <1>3, <2>2, Zenon DEF TasksKnown, HandlerMoves
  <2> QED
    BY <1>3, <2>1, <2>3, Zenon DEF HandlerMoves
<1> QED
  BY <1>1, <1>2, <1>3, HandlerSteps, Zenon

\* The flags stay those of one self-update, whichever step of it fails.
LEMMA OneUpdateStep ==
    ASSUME TypeOK, TasksKnown, OneUpdate, [Next]_vars
    PROVE  OneUpdate'
<1>0. guiUpdating \in BOOLEAN /\ startsBlocked \in BOOLEAN
  BY NamedTypes, Zenon
<1>1. CASE UNCHANGED <<task, guiUpdating, startsBlocked>>
  BY <1>1, Zenon DEF OneUpdate
<1>2. CASE GuiGone
  BY <1>2, Zenon DEF GuiGone, OneUpdate, Idle
<1>3. ASSUME NEW h \in Handler, HandlerMoves(h)
      PROVE  OneUpdate'
  <2>0. \A g \in Handler : g # h => task'[g] = task[g]
    BY <1>3, Zenon DEF HandlerMoves
  <2>1. CASE OwnTask(h)
    <3>1. \A g \in Handler : (task'[g].op = "self") <=> (task[g].op = "self")
      BY <2>0, <2>1, Zenon DEF OwnTask
    <3>2. \A g \in Handler : task'[g].op = "self" => task'[g] = task[g]
      BY <2>0, <2>1, Zenon DEF OwnTask
    <3>3. guiUpdating' = guiUpdating /\ startsBlocked' = startsBlocked
      BY <2>1, Zenon DEF OwnTask
    <3> QED
      BY <3>1, <3>2, <3>3, Zenon DEF OneUpdate
  <2>2. CASE UpdateBegins(h)
    BY <2>0, <2>2, Zenon DEF UpdateBegins, OneUpdate
  <2>3. CASE UpdateGoesOn(h)
    <3>1. guiUpdating /\ \A g \in Handler : task[g].op = "self" <=> g = h
      BY <1>0, <2>3, Zenon DEF UpdateGoesOn, OneUpdate
    <3>2. guiUpdating' /\ \A g \in Handler : task'[g].op = "self" <=> g = h
      BY <2>0, <2>3, <3>1, Zenon DEF UpdateGoesOn
    <3>3. startsBlocked'
      BY <2>3 DEF UpdateGoesOn, OneUpdate
    <3> QED
      BY <3>2, <3>3, Zenon DEF OneUpdate
  <2>4. CASE UpdateEnds(h)
    <3>1. guiUpdating /\ \A g \in Handler : task[g].op = "self" <=> g = h
      BY <1>0, <2>4, Zenon DEF UpdateEnds, OneUpdate
    <3>2. ~guiUpdating' /\ ~startsBlocked' /\ \A g \in Handler : task'[g].op # "self"
      BY <2>0, <2>4, <3>1, Zenon DEF UpdateEnds
    <3> QED
      BY <3>2, Zenon DEF OneUpdate
  <2> QED
    BY <1>3, <2>1, <2>2, <2>3, <2>4, Zenon DEF HandlerMoves
<1> QED
  BY <1>1, <1>2, <1>3, HandlerSteps, Zenon

\* Every step keeps the types.
LEMMA TypeStep ==
    ASSUME TypeOK, TasksKnown, [Next]_vars
    PROVE  TypeOK'
<1>1. gui' \in {"up", "booting", "down"} /\ boots' \in 0 .. MaxBoots
  <2>0. gui \in {"up", "booting", "down"} /\ boots \in 0 .. MaxBoots
    BY NamedTypes, Zenon
  <2>1. ASSUME GuiGone, boots < MaxBoots
        PROVE  gui' \in {"up", "booting", "down"} /\ boots' \in 0 .. MaxBoots
    BY <2>0, <2>1, SupervisorAssumption, SMTT(30) DEF GuiGone
  <2>2. \/ UNCHANGED <<gui, boots>> \/ (GuiGone /\ boots < MaxBoots) \/ Boot \/ Listen
    <3>1. \A p \in Pid : ChildExits(p) => UNCHANGED <<gui, boots>>
      BY Zenon DEF ChildExits, Steady
    <3>2. \A i \in Instance :
             \/ \E auto \in BOOLEAN : ExitHandled(i, auto)
             \/ TimerFires(i) \/ AutoRestart(i) \/ RestartSettles(i) \/ AutoStart(i)
             => UNCHANGED <<gui, boots>>
      BY Zenon DEF ExitHandled, TimerFires, AutoRestart, RestartSettles, AutoStart, Steady
    <3>3. \A h \in Handler, i \in Instance :
             \/ PostStart(h, i) \/ PostStop(h, i) \/ PostRestart(h, i) \/ PutSettings(h, i)
             \/ PostCreate(h, i) \/ PostUpdate(h, i) \/ Delete(h, i)
             => UNCHANGED <<gui, boots>>
      BY Zenon DEF PostStart, PostStop, PostRestart, PutSettings, PostCreate, PostUpdate, Delete, Steady
    <3>4. \A h \in Handler :
             \/ StartPrepared(h) \/ RestartPrepared(h) \/ RestartWaited(h)
             \/ CreateDownloaded(h) \/ CreatePrepared(h) \/ CreateSettled(h)
             \/ UpdateWaited(h) \/ UpdateFetched(h) \/ UpdateDownloaded(h) \/ DeleteRemoved(h)
             => UNCHANGED <<gui, boots>>
      BY Zenon DEF StartPrepared, RestartPrepared, RestartWaited, CreateDownloaded, CreatePrepared,
                   CreateSettled, UpdateWaited, UpdateFetched, UpdateDownloaded, DeleteRemoved, Steady
    <3>5. \A h \in Handler :
             \/ PostSelfUpdate(h) \/ SelfUpdateAborted(h) \/ SelfUpdateDownloaded(h)
             \/ SelfUpdateTermWaited(h) \/ SelfUpdateKillWaited(h) \/ SelfUpdateInstalled(h)
             \/ RestartRefused(h)
             => UNCHANGED <<gui, boots>>
      BY Zenon DEF PostSelfUpdate, SelfUpdateAborted, SelfUpdateDownloaded, SelfUpdateTermWaited,
                   SelfUpdateKillWaited, SelfUpdateInstalled, RestartRefused, Steady
    <3>6. (GuiDies \/ Sigint \/ \E h \in Handler : GuiReplaced(h)) =>
             UNCHANGED <<gui, boots>> \/ (GuiGone /\ boots < MaxBoots)
      BY Zenon DEF GuiDies, Sigint, GuiReplaced, Steady
    <3>7. CASE UNCHANGED vars
      BY <3>7, Zenon DEF vars
    <3> QED
      BY <3>1, <3>2, <3>3, <3>4, <3>5, <3>6, <3>7, Zenon DEF Next
  <2> QED
    BY <2>0, <2>1, <2>2, Zenon DEF Boot, Listen
<1>2. ProcessTypes'
  BY ProcessTypesStep, Zenon
<1>3. record' \in [Instance -> RecordType] /\ binary' \in [Instance -> BOOLEAN]
  BY RecordStep, Zenon
<1>4. restarts' \in [Instance -> RestartState] /\ attempts' \in [Instance -> 0 .. MaxAttempts]
  BY RestartsStep, Zenon
<1>5. task' \in [Handler -> TaskState] /\ {guiUpdating, startsBlocked}' \subseteq BOOLEAN
  BY TasksStep, Zenon
<1> QED
  BY <1>1, <1>2, <1>3, <1>4, <1>5, Zenon
     DEF TypeOK, ProcessTypes, ChildState, RestartState, TaskState

-----------------------------------------------------------------------------
(* Processes, markers and stops.                                           *)

\* The map and the children of this GUI belong together, both ways.
LEMMA OwnedStep ==
    ASSUME TypeOK, TasksKnown, OneProcess, EntryOwned, [Next]_vars
    PROVE  OneProcess' /\ EntryOwned'
<1>0. /\ ProcessTypes /\ child \in [Pid -> ChildState]
      /\ processes \in [Instance -> Pid \cup {Ghost, None}]
      /\ None \notin Pid /\ Ghost \notin Pid /\ None \notin Instance
  BY NamedTypes, SupervisorAssumption, Zenon DEF ProcessTypes
<1>1. ASSUME NEW p \in Pid, ChildExits(p)
      PROVE  OneProcess' /\ EntryOwned'
  <2>1. /\ child[p].of \in Instance /\ child'[p].of = None
        /\ \A q \in Pid : q # p => child'[q] = child[q]
    BY <1>1, ExitEffect, Zenon
  <2>2. CASE p \in orphans
    <3>1. orphans' = orphans \ {p} /\ processes' = processes
      BY <1>1, <2>2, ExitEffect, Zenon
    <3>2. OneProcess'
      BY <2>1, <3>1, Zenon DEF OneProcess, Alive
    <3>3. EntryOwned'
      BY <1>0, <2>1, <2>2, <3>1, Zenon DEF EntryOwned, Alive, ProcessTypes
    <3> QED
      BY <3>2, <3>3, Zenon
  <2>3. CASE p \notin orphans
    <3>1. orphans' = orphans /\ processes' = [processes EXCEPT ![child[p].of] = None]
      BY <1>1, <2>3, ExitEffect, Zenon
    <3>2. processes[child[p].of] = p
      BY <1>0, <2>1, <2>3, Zenon DEF OneProcess, Alive
    <3>3. \A i \in Instance : processes'[i] = IF i = child[p].of THEN None ELSE processes[i]
      BY <1>0, <3>1, Zenon
    <3>4. OneProcess'
      <4> SUFFICES ASSUME NEW q \in Pid, child'[q].of # None, q \notin orphans'
                   PROVE  processes'[child'[q].of] = q
        BY Zenon DEF OneProcess, Alive
      <4>1. q # p /\ child'[q] = child[q] /\ child[q].of \in Instance
        BY <1>0, <2>1 DEF ChildState
      <4>2. processes[child[q].of] = q
        BY <3>1, <4>1, Zenon DEF OneProcess, Alive
      <4>3. child[q].of # child[p].of
        BY <3>2, <4>1, <4>2, Zenon
      <4> QED
        BY <3>3, <4>1, <4>2, <4>3, Zenon
    <3>5. EntryOwned'
      <4>0. \A q \in orphans' : Alive(q)'
        BY <1>0, <2>1, <2>3, <3>1, Zenon DEF EntryOwned, Alive, ProcessTypes
      <4> SUFFICES ASSUME NEW i \in Instance, processes'[i] \in Pid
                   PROVE  child'[processes'[i]].of = i /\ processes'[i] \notin orphans'
        BY <4>0, Zenon DEF EntryOwned
      <4>1. i # child[p].of /\ processes'[i] = processes[i]
        BY <1>0, <3>3, Zenon
      <4>2. child[processes[i]].of = i /\ processes[i] \notin orphans
        BY <4>1, Zenon DEF EntryOwned
      <4> QED
        BY <2>1, <3>1, <4>1, <4>2
    <3> QED
      BY <3>4, <3>5, Zenon
  <2> QED
    BY <2>2, <2>3, Zenon
<1>2. ASSUME NEW i \in Instance, NEW auto \in BOOLEAN, ExitHandled(i, auto)
      PROVE  OneProcess' /\ EntryOwned'
  <2>1. UNCHANGED <<processes, child, orphans>>
    BY <1>2, HandledEffect, Zenon
  <2> QED
    BY <2>1, Zenon DEF OneProcess, EntryOwned, Alive
<1>3. CASE Untouched
  BY <1>3, Zenon DEF Untouched, OneProcess, EntryOwned, Alive
<1>4. ASSUME NEW i \in Instance, Starts(i)
      PROVE  OneProcess' /\ EntryOwned'
  <2>0. orphans' = orphans
    BY <1>4, Zenon DEF Starts
  <2>1. CASE SpawnFailed(i)
    <3>1. /\ processes[i] = None /\ child' = child
          /\ \A j \in Instance : processes'[j] = IF j = i THEN Ghost ELSE processes[j]
      BY <1>0, <2>1, Zenon DEF SpawnFailed, StartRefused, isRunning
    <3>2. OneProcess'
      <4> SUFFICES ASSUME NEW q \in Pid, child[q].of # None, q \notin orphans
                   PROVE  processes'[child[q].of] = q
        BY <2>0, <3>1, Zenon DEF OneProcess, Alive
      <4>1. processes[child[q].of] = q /\ child[q].of \in Instance
        BY <1>0, Zenon DEF OneProcess, Alive, ChildState
      <4>2. child[q].of # i
        BY <1>0, <3>1, <4>1, Zenon
      <4> QED
        BY <3>1, <4>1, <4>2, Zenon
    <3>3. EntryOwned'
      BY <1>0, <2>0, <3>1, Zenon DEF EntryOwned, Alive
    <3> QED
      BY <3>2, <3>3, Zenon
  <2>2. ASSUME NEW p \in Pid, Spawned(i, p)
        PROVE  OneProcess' /\ EntryOwned'
    <3>1. /\ processes[i] = None /\ child[p].of = None /\ child'[p].of = i
          /\ \A q \in Pid : q # p => child'[q] = child[q]
          /\ processes'[i] = p /\ \A j \in Instance : j # i => processes'[j] = processes[j]
      BY <1>0, <2>2, SpawnedEffect
    <3>2. OneProcess'
      <4> SUFFICES ASSUME NEW q \in Pid, child'[q].of # None, q \notin orphans
                   PROVE  processes'[child'[q].of] = q
        BY <2>0, Zenon DEF OneProcess, Alive
      <4>1. CASE q = p
        BY <3>1, <4>1, Zenon
      <4>2. CASE q # p
        <5>1. processes[child[q].of] = q /\ child[q].of \in Instance /\ child'[q] = child[q]
          BY <1>0, <3>1, <4>2 DEF OneProcess, Alive, ChildState
        <5>2. child[q].of # i
          BY <1>0, <3>1, <5>1, Zenon
        <5> QED
          BY <3>1, <5>1, <5>2, Zenon
      <4> QED
        BY <4>1, <4>2, Zenon
    <3>3. EntryOwned'
      <4>0. \A q \in orphans' : q \in Pid /\ q # p /\ Alive(q)'
        BY <1>0, <2>0, <3>1, Zenon DEF EntryOwned, Alive, ProcessTypes
      <4> SUFFICES ASSUME NEW j \in Instance, processes'[j] \in Pid
                   PROVE  child'[processes'[j]].of = j /\ processes'[j] \notin orphans
        BY <2>0, <4>0, Zenon DEF EntryOwned
      <4>1. CASE j = i
        BY <2>0, <3>1, <4>0, <4>1, Zenon
      <4>2. CASE j # i
        <5>1. processes'[j] = processes[j] /\ child[processes[j]].of = j
              /\ processes[j] \notin orphans
          BY <3>1, <4>2, Zenon DEF EntryOwned
        <5>2. processes[j] # p
          BY <1>0, <3>1, <5>1, Zenon
        <5> QED
          BY <3>1, <5>1, <5>2, Zenon
      <4> QED
        BY <4>1, <4>2, Zenon
    <3> QED
      BY <3>2, <3>3, Zenon
  <2> QED
    BY <1>4, <2>1, <2>2, Zenon DEF Starts
<1>5. ASSUME NEW ids, Signalled(ids), UNCHANGED <<processes, orphans>>
      PROVE  OneProcess' /\ EntryOwned'
  <2>1. \A p \in Pid : child'[p].of = child[p].of
    BY <1>0, <1>5, SignalledEffect, Zenon
  <2> QED
    BY <1>0, <1>5, <2>1, Zenon DEF OneProcess, EntryOwned, Alive, ProcessTypes
<1>6. CASE GuiGone
  BY <1>0, <1>6, Zenon DEF GuiGone, OneProcess, EntryOwned, Alive
<1>7. \/ \E p \in Pid : ChildExits(p)
      \/ \E i \in Instance, auto \in BOOLEAN : ExitHandled(i, auto)
      \/ Untouched \/ GuiGone
      \/ \E i \in Instance : Starts(i)
      \/ \E ids \in SUBSET Instance : Signalled(ids) /\ UNCHANGED <<processes, orphans>>
  <2>1. Running \in SUBSET Instance
    BY Zenon DEF Running
  <2> QED
    BY <2>1, ProcessSteps, Zenon DEF Stops, Signals
<1> QED
  BY <1>1, <1>2, <1>3, <1>4, <1>5, <1>6, <1>7, Zenon

\* A marker keeps an exit to excuse: the process it was set for is still asked to stop, or its
\* exit is being handled.
LEMMA MarkerStep ==
    ASSUME TypeOK, TasksKnown, OneProcess, EntryOwned, MarkerHasExit, [Next]_vars
    PROVE  MarkerHasExit'
<1>0. /\ ProcessTypes /\ child \in [Pid -> ChildState]
      /\ processes \in [Instance -> Pid \cup {Ghost, None}]
      /\ exiting \in [Instance -> [BOOLEAN -> 0 .. MaxPending]]
      /\ intentional \subseteq Instance
      /\ None \notin Pid /\ Ghost \notin Pid /\ None # Ghost /\ None \notin Instance
  BY NamedTypes, SupervisorAssumption, Zenon DEF ProcessTypes
<1>1. ASSUME NEW p \in Pid, ChildExits(p)
      PROVE  MarkerHasExit'
  <2>1. /\ child[p].of \in Instance
        /\ \A q \in Pid : q # p => child'[q] = child[q]
    BY <1>1, ExitEffect, Zenon
  <2>2. CASE p \in orphans
    <3>1. UNCHANGED <<processes, exiting, intentional>>
      BY <1>1, <2>2, ExitEffect, Zenon
    <3>2. \A i \in Instance : processes[i] # p
      BY <2>2, Zenon DEF EntryOwned
    <3> QED
      BY <1>0, <2>1, <3>1, <3>2, Zenon DEF MarkerHasExit
  <2>3. CASE p \notin orphans
    <3>1. processes' = [processes EXCEPT ![child[p].of] = None]
      BY <1>1, <2>3, ExitEffect, Zenon
    <3>2. processes[child[p].of] = p
      BY <1>0, <2>1, <2>3, Zenon DEF OneProcess, Alive
    <3>3. \A i \in Instance : i # child[p].of => processes'[i] = processes[i] /\ processes[i] # p
      BY <1>0, <3>1, Zenon DEF EntryOwned
    <3>4. CASE exiting' = exiting /\ intentional' = intentional \ {child[p].of}
      BY <1>0, <2>1, <3>3, <3>4, SMTT(30) DEF MarkerHasExit
    <3>5. ASSUME intentional' = intentional, NEW a \in BOOLEAN,
                 exiting[child[p].of][a] < MaxPending,
                 exiting' = [exiting EXCEPT ![child[p].of][a] = @ + 1]
          PROVE  MarkerHasExit'
      <4>1. exiting'[child[p].of][a] = exiting[child[p].of][a] + 1
            /\ exiting[child[p].of][a] \in Nat
        BY <1>0, <2>1, <3>5, SMTT(30)
      <4>2. exiting'[child[p].of] # NoExit
        BY <4>1, SMTT(30) DEF NoExit
      <4>3. \A i \in Instance : i # child[p].of => exiting'[i] = exiting[i]
        BY <1>0, <2>1, <3>5, Zenon
      <4> QED
        BY <1>0, <2>1, <3>3, <3>5, <4>2, <4>3, SMTT(30) DEF MarkerHasExit
    <3> QED
      BY <1>1, <2>3, <3>4, <3>5, ExitEffect, Zenon
  <2> QED
    BY <2>2, <2>3, Zenon
<1>2. ASSUME NEW i \in Instance, NEW auto \in BOOLEAN, ExitHandled(i, auto)
      PROVE  MarkerHasExit'
  <2>1. UNCHANGED <<processes, child>> /\ intentional' = intentional \ {i}
    BY <1>2, HandledEffect, Zenon
  <2>2. \A j \in Instance : j # i => exiting'[j] = exiting[j]
    BY <1>2, HandledEffect, Zenon
  <2> QED
    BY <1>0, <2>1, <2>2, Zenon DEF MarkerHasExit
<1>3. CASE Untouched
  BY <1>3, Zenon DEF Untouched, MarkerHasExit
<1>4. ASSUME NEW i \in Instance, Starts(i)
      PROVE  MarkerHasExit'
  <2>0. intentional' = intentional /\ exiting' = exiting
    BY <1>4, Zenon DEF Starts
  <2>1. CASE SpawnFailed(i)
    <3>1. /\ child' = child
          /\ \A j \in Instance : processes'[j] = IF j = i THEN Ghost ELSE processes[j]
      BY <1>0, <2>1, Zenon DEF SpawnFailed
    <3> QED
      BY <1>0, <2>0, <3>1, Zenon DEF MarkerHasExit
  <2>2. ASSUME NEW p \in Pid, Spawned(i, p)
        PROVE  MarkerHasExit'
    <3>1. /\ processes[i] = None /\ child[p].of = None
          /\ \A q \in Pid : q # p => child'[q] = child[q]
          /\ \A j \in Instance : j # i => processes'[j] = processes[j]
      BY <1>0, <2>2, SpawnedEffect, SMTT(30)
    <3>2. i \in intentional => exiting[i] # NoExit
      BY <1>0, <3>1, Zenon DEF MarkerHasExit
    <3>3. \A j \in Instance : processes[j] # p
      BY <1>0, <3>1 DEF EntryOwned
    <3> QED
      BY <1>0, <2>0, <3>1, <3>2, <3>3, SMTT(30) DEF MarkerHasExit
  <2> QED
    BY <1>4, <2>1, <2>2, Zenon DEF Starts
<1>5. ASSUME NEW ids \in SUBSET Instance, NEW asked \in SUBSET Instance, Stops(ids, asked)
      PROVE  MarkerHasExit'
  <2>1. \A p \in Pid :
           child'[p].asked = (child[p].asked \/ \E i \in asked : processes[i] = p)
    BY <1>0, <1>5, SignalledEffect, Zenon DEF Stops
  <2>2. /\ UNCHANGED <<processes, exiting>> /\ intentional' = intentional \cup ids
        /\ ids \subseteq asked
    BY <1>5, Zenon DEF Stops, Marked
  <2>3. \A i \in ids : processes[i] # None
    BY <1>5, Zenon DEF Stops, Running, isRunning
  <2>4. ASSUME NEW i \in intentional'
        PROVE  \/ exiting'[i] # NoExit \/ processes'[i] = Ghost
               \/ processes'[i] \in Pid /\ child'[processes'[i]].asked
    <3>1. CASE i \in ids
      <4>1. processes[i] = Ghost \/ processes[i] \in Pid
        BY <1>0, <2>3, <3>1, Zenon
      <4> QED
        BY <2>1, <2>2, <3>1, <4>1, Zenon
    <3>2. CASE i \in intentional
      BY <2>1, <2>2, <3>2, Zenon DEF MarkerHasExit
    <3> QED
      BY <2>2, <3>1, <3>2, Zenon
  <2> QED
    BY <2>4, Zenon DEF MarkerHasExit
<1>6. CASE Signals
  <2>1. \A p \in Pid :
           child'[p].asked = (child[p].asked \/ \E i \in Running : processes[i] = p)
    BY <1>0, <1>6, SignalledEffect, Zenon DEF Signals
  <2>2. UNCHANGED <<processes, intentional, exiting>>
    BY <1>6, Zenon DEF Signals
  <2> QED
    BY <2>1, <2>2, Zenon DEF MarkerHasExit
<1>7. CASE GuiGone
  BY <1>7, Zenon DEF GuiGone, MarkerHasExit
<1> QED
  BY <1>1, <1>2, <1>3, <1>4, <1>5, <1>6, <1>7, ProcessSteps, Zenon

\* A stopped instance is not restarted: its one exit finds the marker.
LEMMA StopStep ==
    ASSUME TypeOK, TasksKnown, OneProcess, EntryOwned, StopAwaited, StopStays, [Next]_vars
    PROVE  StopAwaited' /\ StopStays'
<1>0. /\ ProcessTypes /\ child \in [Pid -> ChildState]
      /\ processes \in [Instance -> Pid \cup {Ghost, None}]
      /\ exiting \in [Instance -> [BOOLEAN -> 0 .. MaxPending]]
      /\ intentional \subseteq Instance /\ stopped \subseteq Instance
      /\ restarts \in [Instance -> RestartState]
      /\ None \notin Pid /\ Ghost \notin Pid /\ None # Ghost /\ None \notin Instance
  BY NamedTypes, SupervisorAssumption, Zenon DEF ProcessTypes
<1>1. ASSUME NEW p \in Pid, ChildExits(p)
      PROVE  StopAwaited' /\ StopStays'
  <2>1. child[p].of \in Instance /\ stopped' = stopped /\ restarts' = restarts
    BY <1>1, ExitEffect, Zenon
  <2>2. StopStays'
    BY <2>1, Zenon DEF StopStays
  <2>3. CASE p \in orphans
    <3>1. UNCHANGED <<processes, exiting, intentional>>
      BY <1>1, <2>3, ExitEffect, Zenon
    <3> QED
      BY <2>1, <2>2, <3>1, Zenon DEF StopAwaited, OnePending
  <2>4. CASE p \notin orphans
    <3> PICK i \in Instance : i = child[p].of
      BY <2>1, Zenon
    <3>1. processes' = [processes EXCEPT ![i] = None]
      BY <1>1, <2>4, ExitEffect, Zenon
    <3>2. processes[i] = p
      BY <1>0, <2>1, <2>4, Zenon DEF OneProcess, Alive
    <3>3. processes'[i] = None /\ \A j \in Instance : j # i => processes'[j] = processes[j]
      BY <1>0, <3>1, Zenon
    <3>4. i \in stopped => exiting[i] = NoExit /\ i \in intentional
      BY <3>2, Zenon DEF StopAwaited
    <3>5. CASE exiting' = exiting /\ intentional' = intentional \ {i}
      BY <1>0, <2>1, <2>2, <3>3, <3>4, <3>5, Zenon DEF StopAwaited, OnePending
    <3>6. ASSUME intentional' = intentional, NEW a \in BOOLEAN,
                 exiting' = [exiting EXCEPT ![i][a] = @ + 1]
          PROVE  StopAwaited'
      <4>1. \A j \in Instance : j # i => exiting'[j] = exiting[j]
        BY <1>0, <3>6, Zenon
      <4>2. i \in stopped => exiting'[i] = [NoExit EXCEPT ![a] = 1]
        <5>1. exiting'[i] = [exiting[i] EXCEPT ![a] = exiting[i][a] + 1]
          BY <1>0, <3>6, Zenon
        <5>2. NoExit[a] + 1 = 1
          BY DEF NoExit
        <5> QED
          BY <3>4, <5>1, <5>2, Zenon
      <4>3. i \in stopped => OnePending(i)'
        BY <4>2, Zenon DEF OnePending
      <4>4. \A j \in Instance : j # i => (OnePending(j)' <=> OnePending(j))
        BY <4>1, Zenon DEF OnePending
      <4> QED
        BY <1>0, <2>1, <3>3, <3>4, <3>6, <4>1, <4>3, <4>4, Zenon DEF StopAwaited
    <3> QED
      BY <1>1, <2>2, <2>4, <3>5, <3>6, ExitEffect, Zenon
  <2> QED
    BY <2>3, <2>4, Zenon
<1>2. ASSUME NEW i \in Instance, NEW auto \in BOOLEAN, ExitHandled(i, auto)
      PROVE  StopAwaited' /\ StopStays'
  <2>1. UNCHANGED <<processes, stopped>> /\ intentional' = intentional \ {i}
    BY <1>2, HandledEffect, Zenon
  <2>2. \A j \in Instance : j # i => exiting'[j] = exiting[j]
    BY <1>2, HandledEffect, Zenon
  <2>3. exiting'[i] = [exiting[i] EXCEPT ![auto] = exiting[i][auto] - 1] /\ exiting[i][auto] > 0
    BY <1>2, HandledEffect, Zenon
  <2>4. exiting[i] # NoExit
    BY <2>3 DEF NoExit
  <2>5. i \in stopped => /\ exiting'[i] = NoExit /\ i \in intentional
                         /\ processes[i] \notin Pid
    <3> HAVE i \in stopped
    <3>1. i \in intentional /\ processes[i] \notin Pid
      BY <2>4, Zenon DEF StopAwaited
    <3>2. PICK a \in BOOLEAN : exiting[i] = [NoExit EXCEPT ![a] = 1]
      BY <2>4, Zenon DEF StopAwaited, OnePending
    <3>3. a = auto
      BY <2>3, <3>2 DEF NoExit
    <3>4. \A b \in BOOLEAN : exiting'[i][b] = 0
      BY <2>3, <3>2, <3>3 DEF NoExit
    <3>5. exiting'[i] \in [BOOLEAN -> 0 .. MaxPending]
      BY <1>2, HandledEffect, Zenon
    <3>6. exiting'[i] = NoExit
      BY <3>4, <3>5, Zenon DEF NoExit
    <3> QED
      BY <3>1, <3>6, Zenon
  <2>6. StopAwaited'
    <3>1. \A j \in Instance : j # i => (OnePending(j)' <=> OnePending(j))
      BY <2>2, Zenon DEF OnePending
    <3> QED
      BY <1>0, <2>1, <2>2, <2>5, <3>1, Zenon DEF StopAwaited
  <2>7. restarts' = restarts
        \/ (i \notin intentional /\ restarts' = [restarts EXCEPT ![i].armed = @ + 1])
    BY <1>2, HandledEffect, Zenon
  <2>8. \A j \in stopped : restarts'[j] = restarts[j]
    BY <1>0, <2>5, <2>7, Zenon
  <2>9. StopStays'
    BY <2>1, <2>8, Zenon DEF StopStays
  <2> QED
    BY <2>6, <2>9, Zenon
<1>3. ASSUME UNCHANGED <<processes, exiting, intentional, stopped>>
      PROVE  StopAwaited'
  BY <1>3, Zenon DEF StopAwaited, OnePending
<1>4. ASSUME NEW i \in Instance, Starts(i)
      PROVE  StopAwaited' /\ stopped' \subseteq stopped
  <2>0. intentional' = intentional /\ exiting' = exiting
    BY <1>4, Zenon DEF Starts
  <2>1. CASE SpawnFailed(i)
    <3>1. stopped' = stopped
          /\ \A j \in Instance : processes'[j] = IF j = i THEN Ghost ELSE processes[j]
      BY <1>0, <2>1, Zenon DEF SpawnFailed
    <3> QED
      BY <1>0, <2>0, <3>1, Zenon DEF StopAwaited, OnePending
  <2>2. ASSUME NEW p \in Pid, Spawned(i, p)
        PROVE  StopAwaited' /\ stopped' \subseteq stopped
    <3>1. stopped' = stopped \ {i}
          /\ \A j \in Instance : j # i => processes'[j] = processes[j]
      BY <1>0, <2>2, SpawnedEffect, Zenon
    <3> QED
      BY <1>0, <2>0, <3>1, Zenon DEF StopAwaited, OnePending
  <2> QED
    BY <1>4, <2>1, <2>2, Zenon DEF Starts
<1>5. ASSUME NEW ids \in SUBSET Instance, NEW asked \in SUBSET Instance, Stops(ids, asked)
      PROVE  StopAwaited' /\ StopStays'
  <2>1. /\ UNCHANGED <<processes, exiting, restarts>> /\ intentional' = intentional \cup ids
        /\ stopped' = stopped \cup {i \in ids : Quiet(i)}
    BY <1>5, Zenon DEF Stops, Marked
  <2>2. \A i \in Instance : OnePending(i)' <=> OnePending(i)
    BY <2>1, Zenon DEF OnePending
  <2>3. StopAwaited'
    BY <1>0, <2>1, <2>2, Zenon DEF StopAwaited, Quiet
  <2>4. NoRestart.armed = 0 /\ NoRestart.preparing = 0
    BY Zenon DEF NoRestart
  <2>5. StopStays'
    BY <2>1, <2>4, Zenon DEF StopStays, Quiet
  <2> QED
    BY <2>3, <2>5, Zenon
<1>6. CASE GuiGone
  BY <1>6, Zenon DEF GuiGone, StopAwaited, StopStays
<1>7. ASSUME NEW i \in Instance, TimerFires(i) \/ RestartSettles(i) \/ AutoRestart(i),
             stopped' \subseteq stopped
      PROVE  StopStays'
  <2>1. \A j \in Instance : j # i => restarts'[j] = restarts[j]
    BY <1>7, TimerEffect, Zenon
  <2>2. i \in stopped => restarts'[i].armed = 0 /\ restarts'[i].preparing = 0
    BY <1>7, TimerEffect DEF StopStays
  <2> QED
    BY <1>0, <1>7, <2>1, <2>2, Zenon DEF StopStays
<1>8. CASE \E i \in Instance : Untouched /\ (TimerFires(i) \/ RestartSettles(i))
  BY <1>3, <1>7, <1>8, Zenon DEF Untouched
<1>9. CASE \E i \in Instance : (Starts(i) \/ Untouched) /\ AutoRestart(i)
  BY <1>3, <1>4, <1>7, <1>9, Zenon DEF Untouched
<1>10. CASE \E i \in Instance : Starts(i) /\ UNCHANGED restarts
  <2>1. StopAwaited' /\ stopped' \subseteq stopped /\ restarts' = restarts
    BY <1>4, <1>10, Zenon
  <2> QED
    BY <2>1, Zenon DEF StopStays
<1>11. CASE Signals \/ (Untouched /\ UNCHANGED restarts)
  <2>1. UNCHANGED <<processes, exiting, intentional, stopped, restarts>>
    BY <1>11, Zenon DEF Signals, Untouched
  <2> QED
    BY <1>3, <2>1, Zenon DEF StopStays
<1> QED
  BY <1>1, <1>2, <1>5, <1>6, <1>8, <1>9, <1>10, <1>11, ProcessSteps, Zenon

\* With every start blocked, no process of this GUI appears.
LEMMA NothingStarts ==
    ASSUME TypeOK, TasksKnown, [Next]_vars, startsBlocked,
           \A p \in Pid : Alive(p) => p \in orphans
    PROVE  \A p \in Pid : Alive(p)' => p \in orphans'
<1>0. ProcessTypes
  BY NamedTypes, Zenon
<1>1. ASSUME NEW q \in Pid, ChildExits(q)
      PROVE  \A p \in Pid : Alive(p)' => p \in orphans'
  BY <1>1, ExitEffect, Zenon DEF Alive
<1>2. ASSUME NEW ids, Signalled(ids), UNCHANGED orphans
      PROVE  \A p \in Pid : Alive(p)' => p \in orphans'
  BY <1>0, <1>2, SignalledEffect, Zenon DEF Alive
<1>3. CASE UNCHANGED <<child, orphans>>
  BY <1>3, Zenon DEF Alive
<1>4. CASE GuiGone
  BY <1>4, Zenon DEF GuiGone, Alive
<1>5. \A i \in Instance : ~Starts(i)
  BY Zenon DEF Starts, Spawned, SpawnFailed, StartRefused
<1>6. \/ \E q \in Pid : ChildExits(q)
      \/ \E ids \in SUBSET Instance : Signalled(ids) /\ UNCHANGED orphans
      \/ UNCHANGED <<child, orphans>> \/ GuiGone
  <2>1. Running \in SUBSET Instance
    BY Zenon DEF Running
  <2> QED
    BY <1>5, <2>1, ProcessSteps, Zenon DEF Stops, Signals, Untouched, ExitHandled
<1> QED
  BY <1>1, <1>2, <1>3, <1>4, <1>6, Zenon

\* From the end of stopAllAndWait on, nothing this GUI started runs.
LEMMA QuietStep ==
    ASSUME TypeOK, TasksKnown, OneProcess, OneUpdate, UpdateQuiet, [Next]_vars
    PROVE  UpdateQuiet'
<1> SUFFICES ASSUME NEW h \in Handler,
                    InFlight(h, "self", "install")' \/ InFlight(h, "self", "ready")'
             PROVE  \A p \in Pid : Alive(p)' => p \in orphans'
  BY Zenon DEF UpdateQuiet
<1>0. task'[h].op = "self" /\ task'[h].pc \in {"install", "ready"} /\ h \in Handler
  BY Zenon DEF InFlight
<1>1. /\ task[h].op = "self" /\ task[h].pc # "download"
      /\ AllStopped \/ task[h].pc \in {"install", "ready"}
  <2>1. CASE UNCHANGED <<task, guiUpdating, startsBlocked>>
    BY <1>0, <2>1, Zenon
  <2>2. CASE GuiGone
    BY <1>0, <2>2, Zenon DEF GuiGone, Idle
  <2>3. ASSUME NEW g \in Handler, HandlerMoves(g)
        PROVE  /\ task[h].op = "self" /\ task[h].pc # "download"
               /\ AllStopped \/ task[h].pc \in {"install", "ready"}
    <3>1. CASE g # h
      BY <1>0, <2>3, <3>1, Zenon DEF HandlerMoves
    <3>2. CASE g = h
      <4>1. UpdateGoesOn(h)
        BY <1>0, <2>3, <3>2, Zenon DEF HandlerMoves, OwnTask, UpdateBegins, UpdateEnds
      <4> QED
        BY <1>0, <4>1, Zenon DEF UpdateGoesOn
    <3> QED
      BY <3>1, <3>2, Zenon
  <2> QED
    BY <2>1, <2>2, <2>3, HandlerSteps, Zenon
<1>2. startsBlocked
  BY <1>1, Zenon DEF OneUpdate
<1>3. \A p \in Pid : Alive(p) => p \in orphans
  <2>1. CASE AllStopped
    <3> SUFFICES ASSUME NEW p \in Pid, Alive(p), p \notin orphans
                 PROVE  FALSE
      BY Zenon
    <3>1. processes[child[p].of] = p /\ child[p].of \in Instance
      BY NamedTypes, Zenon DEF OneProcess, Alive, ProcessTypes, ChildState
    <3>2. processes[child[p].of] # None
      BY <3>1, SupervisorAssumption, Zenon
    <3> QED
      BY <2>1, <3>1, <3>2, Zenon DEF AllStopped, Running, isRunning
  <2>2. CASE task[h].pc \in {"install", "ready"}
    BY <1>1, <2>2, Zenon DEF UpdateQuiet, InFlight
  <2> QED
    BY <1>1, <2>1, <2>2, Zenon
<1> QED
  BY <1>2, <1>3, NothingStarts, Zenon

-----------------------------------------------------------------------------
(* The theorems.                                                           *)

SupervisorInvariant ==
    /\ TypeOK /\ TasksKnown /\ OneProcess /\ EntryOwned
    /\ MarkerHasExit /\ StopAwaited /\ StopStays
    /\ OneUpdate /\ UpdateQuiet

\* The invariant holds initially.
LEMMA SupervisorInit == Init => SupervisorInvariant
<1> SUFFICES ASSUME Init
             PROVE  SupervisorInvariant
  BY Zenon
<1>1. /\ Idle \in TaskState /\ Idle.op = "none" /\ Free \in ChildState /\ Free.of = None
      /\ NoRestart \in RestartState /\ NoExit \in [BOOLEAN -> 0 .. MaxPending]
      /\ [state |-> "new", auto |-> FALSE, pid |-> Absent] \in RecordType
  BY SupervisorAssumption
     DEF Idle, TaskState, Free, ChildState, NoRestart, RestartState, NoExit, RecordType
<1>2. /\ task \in [Handler -> TaskState] /\ child \in [Pid -> ChildState]
      /\ \A h \in Handler : task[h].op = "none"
      /\ \A p \in Pid : child[p].of = None
  BY <1>1, Zenon DEF Init
<1>3. ProcessTypes
  BY <1>1, <1>2, Zenon DEF Init, ProcessTypes
<1>4. TypeOK
  <2>1. record \in [Instance -> RecordType] /\ binary \in [Instance -> BOOLEAN]
    BY <1>1, Zenon DEF Init
  <2>2. restarts \in [Instance -> RestartState]
    BY <1>1, Zenon DEF Init
  <2>3. attempts \in [Instance -> 0 .. MaxAttempts] /\ boots \in 0 .. MaxBoots
    BY SupervisorAssumption DEF Init
  <2>4. {guiUpdating, startsBlocked} \subseteq BOOLEAN /\ gui \in {"up", "booting", "down"}
    BY Zenon DEF Init
  <2> QED
    BY <1>2, <1>3, <2>1, <2>2, <2>3, <2>4, NamedTypes, Zenon
<1>5. TasksKnown /\ OneUpdate /\ UpdateQuiet
  BY <1>2, Zenon DEF Init, TasksKnown, OneUpdate, UpdateQuiet, Alive
<1>6. OneProcess /\ EntryOwned /\ MarkerHasExit /\ StopAwaited /\ StopStays
  <2>1. \A p \in Pid : ~Alive(p)
    BY <1>2, Zenon DEF Alive
  <2>2. /\ \A i \in Instance : processes[i] = None
        /\ orphans = {} /\ intentional = {} /\ stopped = {} /\ None \notin Pid
    BY SupervisorAssumption, Zenon DEF Init
  <2> QED
    BY <2>1, <2>2, Zenon DEF OneProcess, EntryOwned, MarkerHasExit, StopAwaited, StopStays
<1> QED
  BY <1>4, <1>5, <1>6, Zenon DEF SupervisorInvariant

\* The invariant holds in every behaviour.
THEOREM SupervisorInvariantCorrect == Spec => []SupervisorInvariant
<1>1. SupervisorInvariant /\ [Next]_vars => SupervisorInvariant'
  <2> SUFFICES ASSUME SupervisorInvariant, [Next]_vars
               PROVE  SupervisorInvariant'
    BY Zenon
  <2>1. /\ TypeOK /\ TasksKnown /\ OneProcess /\ EntryOwned
        /\ MarkerHasExit /\ StopAwaited /\ StopStays
        /\ OneUpdate /\ UpdateQuiet
    BY Zenon DEF SupervisorInvariant
  <2>2. TypeOK' /\ TasksKnown'
    BY <2>1, TypeStep, TasksStep, Zenon
  <2>3. OneProcess' /\ EntryOwned'
    BY <2>1, OwnedStep, Zenon
  <2>4. MarkerHasExit' /\ StopAwaited' /\ StopStays'
    BY <2>1, MarkerStep, StopStep, Zenon
  <2>5. OneUpdate' /\ UpdateQuiet'
    BY <2>1, OneUpdateStep, QuietStep, Zenon
  <2> QED
    BY <2>2, <2>3, <2>4, <2>5, Zenon DEF SupervisorInvariant
<1> QED
  BY <1>1, SupervisorInit, PTL DEF Spec

\* This GUI runs at most one process of an instance, the one its map can stop, however the
\* handlers, timers and the boot interleave (processManager.ts start, index.ts).
THEOREM ProcessesSoundCorrect == Spec => []ProcessesSound
<1>1. SupervisorInvariant => ProcessesSound
  BY Zenon DEF SupervisorInvariant, ProcessesSound
<1> QED
  BY <1>1, SupervisorInvariantCorrect, PTL

\* A marker of intentionalStops never outlives the exit it excuses, and a requested stop is
\* never undone by a restart timer (index.ts, the exit handler and markIntentionalStop).
THEOREM StopsToldCorrect == Spec => []StopsTold
<1>1. SupervisorInvariant => StopsTold
  BY Zenon DEF SupervisorInvariant, StopsTold
<1> QED
  BY <1>1, SupervisorInvariantCorrect, PTL

\* While the GUI is replaced no managed process runs, and the two flags belong to exactly one
\* self-update (index.ts, the self-update route; processManager.ts, stopAllAndWait).
THEOREM UpdateAloneCorrect == Spec => []UpdateAlone
<1>1. SupervisorInvariant => UpdateAlone
  <2> SUFFICES ASSUME SupervisorInvariant
               PROVE  UpdateAlone
    BY Zenon
  <2> DEFINE updates == {h \in Handler : task[h].op = "self"}
  <2>1. OneUpdate /\ UpdateQuiet /\ guiUpdating \in BOOLEAN
    BY NamedTypes, Zenon DEF SupervisorInvariant
  <2>2. CASE guiUpdating
    <3>1. PICK h \in Handler : \A g \in Handler : task[g].op = "self" <=> g = h
      BY <2>1, <2>2, Zenon DEF OneUpdate
    <3>2. updates = {h}
      BY <3>1, Zenon
    <3>3. Cardinality(updates) = 1
      BY <3>2, FS_Singleton, Zenon
    <3> QED
      BY <2>1, <2>2, <3>3, Zenon DEF UpdateAlone, UpdateFlagsOwned
  <2>3. CASE ~guiUpdating
    <3>1. updates = {}
      BY <2>1, <2>3, Zenon DEF OneUpdate
    <3>2. Cardinality(updates) = 0
      BY <3>1, FS_EmptySet, Zenon
    <3> QED
      BY <2>1, <2>3, <3>2, Zenon DEF UpdateAlone, UpdateFlagsOwned, OneUpdate
  <2> QED
    BY <2>2, <2>3, Zenon
<1> QED
  BY <1>1, SupervisorInvariantCorrect, PTL
=============================================================================
