----------------------------- MODULE SelfUpdate -----------------------------
(***************************************************************************)
(* How the web GUI replaces its own executable (selfUpdate.ts,             *)
(* selfUpdateInstaller.ts and systemdUpdate.ts of src/FerrumGUI/src): the  *)
(* download into <exec>.new, the swap (by the GUI itself under systemd, by *)
(* a script that outlives it elsewhere), the restart, and what a failure   *)
(* or a power cut between two steps leaves behind.  The managed proxies    *)
(* it stops in between are in module Supervisor.                           *)
(***************************************************************************)
EXTENDS Common, FiniteSetsExt

CONSTANTS
    MaxRelease,     \* bound: versions are 1 .. MaxRelease
    MaxCuts,        \* bound: power cuts
    ExitCode,       \* exit codes, from 0
    Partial         \* an incomplete file

Build == 1 .. MaxRelease

ASSUME SelfUpdateAssumption ==
    /\ MaxRelease \in Nat \ {0} /\ MaxCuts \in Nat
    /\ ExitCode \subseteq Nat /\ 0 \in ExitCode
    /\ None \notin Build \cup ExitCode /\ Partial \notin Build \cup {None}

VARIABLES
    way,            \* "systemd", "unix" or "windows"
    unit,           \* systemd: the properties of the unit and the right to restart it
    released,       \* the version the release tag holds
    file,           \* <exec>, <exec>.new and <exec>.old
    running,        \* the version of the running GUI, or None
    updateStep,     \* performGuiSelfUpdate and the route that calls it
    helper,         \* the installer script
    exitCode,       \* the code the GUI exited with
    unwritten,      \* places whose file the system has not written to the disk: nothing syncs it
    cuts,
    stranded,       \* history: an error of the script or a power cut left the GUI down
    torn,           \* history: a power cut left no complete executable to start or to put back
    unreverted      \* history: the executable could not be put back after a failed restart

marks == <<stranded, torn, unreverted>>
selfVars == <<way, unit, released, file, running, updateStep, helper, exitCode, unwritten, cuts,
              marks>>

Place == {"target", "new", "old"}

SystemdUnit == [canRestart : BOOLEAN, ExitType : {"main", "cgroup"},
                Restart : {"no", "always", "on-success", "on-failure"},
                prevent : SUBSET ExitCode, success : SUBSET ExitCode]

SelfInit ==
    /\ way \in {"systemd", "unix", "windows"}
    /\ unit \in IF way = "systemd" THEN SystemdUnit ELSE {None}
    /\ released = 1 /\ running = 1 /\ file = [target |-> 1, new |-> None, old |-> None]
    /\ updateStep = "idle" /\ helper = "none" /\ exitCode = None
    /\ unwritten = {} /\ cuts = 0 /\ stranded = FALSE /\ torn = FALSE /\ unreverted = FALSE

PublishBuild ==
    /\ released < MaxRelease /\ released' = released + 1
    /\ UNCHANGED <<way, unit, file, running, updateStep, helper, exitCode, unwritten, cuts, marks>>

\* The system writes its caches back.
WriteBack ==
    /\ unwritten # {} /\ unwritten' = {}
    /\ UNCHANGED <<way, unit, released, file, running, updateStep, helper, exitCode, cuts, marks>>

\* A rename takes along what is not yet on the disk.
Renamed(from, to) ==
    IF from \in unwritten THEN (unwritten \ {from}) \cup {to} ELSE unwritten \ {to}

-----------------------------------------------------------------------------
(* performGuiSelfUpdate.                                                   *)

Go(from, to) == running # None /\ updateStep = from /\ updateStep' = to

\* systemd restarts a service that ends with this code (external).  A unit of ExitType=cgroup
\* does not end with its main process.
SystemdRestarts(code) ==
    /\ unit.ExitType = "main" /\ code \notin unit.prevent
    /\ \/ unit.Restart = "always"
       \/ unit.Restart = "on-success" /\ code \in unit.success \cup {0}
       \/ unit.Restart = "on-failure" /\ code \notin unit.success \cup {0}

automaticRestartExitCode_first ==
    IF unit.ExitType = "main" /\ unit.Restart # "no" THEN 0 ELSE None

\* The least code after which the unit's policy starts the GUI again.
automaticRestartExitCode ==
    LET success == unit.success \cup {0}
        wanted == CASE unit.Restart = "always" -> ExitCode
                    [] unit.Restart = "on-success" -> success
                    [] unit.Restart = "on-failure" -> ExitCode \ success
                    [] OTHER -> {}
    IN  IF unit.ExitType = "cgroup" \/ wanted \ unit.prevent = {} THEN None
        ELSE Min(wanted \ unit.prevent)

\* systemdRestartPlan refuses a unit that would not come back.
MayPrepare == way = "systemd" => (unit.canRestart \/ automaticRestartExitCode # None)

\* The route takes one update at a time.  No manifest, no newer version, or no asset for
\* this platform ends it.  What an earlier attempt left in .new is removed.
PostUpdate ==
    /\ Go("idle", "download") /\ released # running
    /\ file' = [file EXCEPT !.new = None] /\ unwritten' = unwritten \ {"new"}
    /\ UNCHANGED <<way, unit, released, running, helper, exitCode, cuts, marks>>

Download ==
    /\ \/ Go("download", "downloading") /\ file' = [file EXCEPT !.new = Partial]
       \/ Go("download", "idle") /\ UNCHANGED file
    /\ UNCHANGED <<way, unit, released, running, helper, exitCode, unwritten, cuts, marks>>

\* The bytes received are those the manifest promises.
Verified(content) == content # Partial

\* The stream ends, complete or not; an incomplete file is removed.
DownloadEnds ==
    /\ \E content \in {released, Partial} :
           IF Verified(content)
           THEN /\ Go("downloading", "prepare") /\ file' = [file EXCEPT !.new = content]
                /\ unwritten' = unwritten \cup {"new"}
           ELSE /\ Go("downloading", "idle") /\ file' = [file EXCEPT !.new = None]
                /\ unwritten' = unwritten \ {"new"}
    /\ UNCHANGED <<way, unit, released, running, helper, exitCode, cuts, marks>>

\* startGuiUpdateInstaller fails before the swap: the download is removed.
PrepareFails ==
    /\ \E s \in {"prepare", "backup", "swap", "script"} : Go(s, "idle")
    /\ file' = [file EXCEPT !.new = None] /\ unwritten' = unwritten \ {"new"}
    /\ UNCHANGED <<way, unit, released, running, helper, exitCode, cuts, marks>>

\* The plan is accepted and the managed proxies have stopped.
Prepared ==
    /\ MayPrepare /\ Go("prepare", IF way = "systemd" THEN "backup" ELSE "script")
    /\ UNCHANGED <<way, unit, released, file, running, helper, exitCode, unwritten, cuts, marks>>

-----------------------------------------------------------------------------
(* Under systemd the GUI swaps the files itself.                           *)

BackedUp_moved == [file EXCEPT !.old = file.target, !.target = None]

\* A copy, so that the executable is never missing.
BackedUp == [file EXCEPT !.old = file.target]

Backup ==
    /\ Go("backup", "swap") /\ file' = BackedUp /\ unwritten' = unwritten \cup {"old"}
    /\ UNCHANGED <<way, unit, released, running, helper, exitCode, cuts, marks>>

Swap ==
    /\ Go("swap", "ready") /\ file' = [file EXCEPT !.target = file.new, !.new = None]
    /\ unwritten' = Renamed("new", "target")
    /\ UNCHANGED <<way, unit, released, running, helper, exitCode, cuts, marks>>

\* systemctl restart is queued, or the GUI exits with the code of its plan.
Restart ==
    /\ way = "systemd" /\ Go("ready", "idle")
    /\ exitCode' = IF unit.canRestart THEN 0 ELSE automaticRestartExitCode
    /\ running' = None
    /\ UNCHANGED <<way, unit, released, file, helper, unwritten, cuts, marks>>

\* rename(backup, target)
RolledBack == [file EXCEPT !.target = file.old, !.old = None]

\* systemctl fails: the old executable is put back, if it can be, and the GUI goes on.
RestartFails ==
    /\ way = "systemd" /\ unit.canRestart /\ Go("ready", "idle")
    /\ \/ file' = RolledBack /\ unwritten' = Renamed("old", "target") /\ UNCHANGED unreverted
       \/ unreverted' = TRUE /\ UNCHANGED <<file, unwritten>>
    /\ UNCHANGED <<way, unit, released, running, helper, exitCode, cuts, stranded, torn>>

\* The process starts: cleanupOldBinary removes the backup, or ignores that it cannot.
Starts ==
    /\ running = None /\ file.target \in Build
    /\ running' = file.target /\ exitCode' = None
    /\ \/ file' = [file EXCEPT !.old = None] /\ unwritten' = unwritten \ {"old"}
       \/ UNCHANGED <<file, unwritten>>
    /\ torn' = FALSE /\ unreverted' = FALSE

SystemdStarts ==
    /\ way = "systemd" /\ exitCode # None /\ (unit.canRestart \/ SystemdRestarts(exitCode))
    /\ Starts
    /\ UNCHANGED <<way, unit, released, updateStep, helper, cuts, stranded>>

-----------------------------------------------------------------------------
(* Elsewhere a script waits for the GUI to go and swaps the files.         *)

\* The script is written and spawned; the GUI exits once it has answered.
SpawnHelper ==
    /\ Go("script", "ready") /\ helper' = "waiting"
    /\ UNCHANGED <<way, unit, released, file, running, exitCode, unwritten, cuts, marks>>

ExitForHelper ==
    /\ way # "systemd" /\ Go("ready", "idle") /\ running' = None
    /\ UNCHANGED <<way, unit, released, file, helper, exitCode, unwritten, cuts, marks>>

HelperStep(from, to) == helper = from /\ helper' = to

\* The GUI is gone, .new is there: an older backup is removed, the executable becomes it.
HelperBackup ==
    /\ running = None /\ file.new # None
    /\ HelperStep("waiting", "moved")
    /\ file' = [file EXCEPT !.old = file.target, !.target = None]
    /\ unwritten' = Renamed("target", "old")
    /\ UNCHANGED <<way, unit, released, running, updateStep, exitCode, cuts, marks>>

HelperPlace ==
    /\ HelperStep("moved", "placed") /\ file' = [file EXCEPT !.target = file.new, !.new = None]
    /\ unwritten' = Renamed("new", "target")
    /\ UNCHANGED <<way, unit, released, running, updateStep, exitCode, cuts, marks>>

\* .new cannot be moved: the backup goes back to its place, and is started.
HelperPlaceFails ==
    /\ HelperStep("moved", "placed")
    /\ file' = [file EXCEPT !.target = file.old, !.old = None]
    /\ unwritten' = Renamed("old", "target")
    /\ UNCHANGED <<way, unit, released, running, updateStep, exitCode, cuts, marks>>

\* Nor can the backup be moved back: nothing is started.
HelperRestoreFails ==
    /\ HelperStep("moved", "none") /\ stranded' = TRUE
    /\ UNCHANGED <<way, unit, released, file, running, updateStep, exitCode, unwritten, cuts, torn,
                   unreverted>>

\* PowerShell sees that the new executable does not start, and puts the backup back; a move
\* that fails ends the script, before or after the new executable has been moved away.
HelperStartFails ==
    /\ way = "windows" /\ file.old # None /\ helper = "placed"
    /\ \/ /\ file' = [file EXCEPT !.new = file.target, !.target = file.old, !.old = None]
          /\ unwritten' = {p \in Place : (p = "new" /\ "target" \in unwritten)
                                        \/ (p = "target" /\ "old" \in unwritten)}
          /\ UNCHANGED <<helper, stranded>>
       \/ /\ file' = [file EXCEPT !.new = file.target, !.target = None]
          /\ unwritten' = Renamed("target", "new") /\ helper' = "none" /\ stranded' = TRUE
       \/ UNCHANGED <<file, unwritten>> /\ helper' = "none" /\ stranded' = TRUE
    /\ UNCHANGED <<way, unit, released, running, updateStep, exitCode, cuts, torn, unreverted>>

HelperStarts ==
    /\ HelperStep("placed", "none") /\ Starts
    /\ UNCHANGED <<way, unit, released, updateStep, cuts, stranded>>

\* The GUI has not gone after 60 s, .new or the working directory is missing, or the
\* executable cannot be moved: the script gives up and starts nothing.
HelperGivesUp ==
    /\ HelperStep("waiting", "none") /\ stranded' = TRUE
    /\ UNCHANGED <<way, unit, released, file, running, updateStep, exitCode, unwritten, cuts, torn,
                   unreverted>>

-----------------------------------------------------------------------------
\* Everything stops; a rename has happened or not, but a file that was not yet written to the
\* disk, or a copy under way, may be torn.
PowerCut ==
    /\ cuts < MaxCuts /\ cuts' = cuts + 1
    /\ running' = None /\ helper' = "none" /\ updateStep' = "idle" /\ exitCode' = None
    /\ stranded' = TRUE
    /\ \E lost \in SUBSET (unwritten \cup IF updateStep = "backup" THEN {"old"} ELSE {}) :
           LET Left(p) == IF p \in lost THEN Partial ELSE file[p]
           IN  file' = [target |-> Left("target"), new |-> Left("new"), old |-> Left("old")]
    /\ unwritten' = {}
    /\ torn' = (torn \/ file'.target = Partial \/ (file'.target = None /\ file'.old = Partial))
    /\ UNCHANGED <<way, unit, released, unreverted>>

\* The machine, or its owner, starts the GUI again.
Boots ==
    /\ stranded /\ helper = "none" /\ Starts /\ stranded' = FALSE
    /\ UNCHANGED <<way, unit, released, updateStep, helper, cuts>>

SelfNext ==
    \/ PublishBuild \/ WriteBack \/ PostUpdate \/ Download \/ DownloadEnds \/ PrepareFails \/ Prepared
    \/ Backup \/ Swap \/ Restart \/ RestartFails \/ SystemdStarts
    \/ SpawnHelper \/ ExitForHelper \/ HelperBackup \/ HelperPlace \/ HelperPlaceFails
    \/ HelperRestoreFails \/ HelperStartFails \/ HelperStarts \/ HelperGivesUp
    \/ PowerCut \/ Boots

SelfSpec == SelfInit /\ [][SelfNext]_selfVars

\* The GUI exits a second after its answer, the script runs on, and systemd restarts.
SelfFairness ==
    /\ WF_selfVars(Restart) /\ WF_selfVars(SystemdStarts) /\ WF_selfVars(ExitForHelper)
    /\ WF_selfVars(HelperBackup) /\ WF_selfVars(HelperPlace) /\ WF_selfVars(HelperStarts)

-----------------------------------------------------------------------------
(* Properties.                                                             *)

\* Every variable has its type.
SelfTypeOK ==
    /\ way \in {"systemd", "unix", "windows"}
    /\ way = "systemd" => unit \in SystemdUnit
    /\ file \in [target : Build \cup {None, Partial}, new : Build \cup {None, Partial},
                old : Build \cup {None, Partial}]
    /\ running \in Build \cup {None} /\ released \in Build
    /\ updateStep \in {"idle", "download", "downloading", "prepare", "backup", "swap",
                       "script", "ready"}
    /\ helper \in {"none", "waiting", "moved", "placed"}
    /\ exitCode \in ExitCode \cup {None} /\ unwritten \subseteq Place
    /\ {stranded, torn, unreverted} \subseteq BOOLEAN

\* There is a complete executable to start, or, only between the two moves of the script and
\* after a failure there, one to put back: systemd never finds its ExecStart gone.  A power cut
\* at any step leaves it so, unless it tears a file that had not reached the disk.
ExecutableKept ==
    ~torn => \/ file.target \in Build
             \/ file.target = None /\ way # "systemd" /\ file.old \in Build

\* A GUI that is not being updated runs the file it was started from: every failure, the
\* refused restart after the swap included, leaves the installed version the running one,
\* so the next restart brings no version the user was not told of; unless after that refusal
\* the old executable could not be put back.
IdleRunsInstalled ==
    (running # None /\ updateStep = "idle" /\ helper = "none" /\ ~unreverted)
        => file.target = running

\* An update that was announced ends with a running GUI: the exit code of the plan is one
\* the unit's policy restarts, and the script starts the new executable or the old one,
\* unless it gave up or the power failed.
ComesBack == (updateStep = "ready") ~> ((running # None /\ updateStep = "idle") \/ stranded)

\* The files of the self-update are sound: the types, an executable to start at every step,
\* and the running version installed when no update is under way.
SelfSound == SelfTypeOK /\ ExecutableKept /\ IdleRunsInstalled
====
