----------------------------- MODULE ClientView -----------------------------
(***************************************************************************)
(* Two more parts of the desktop client's window (App.tsx of               *)
(* src/FerrumClient/frontend/src) that share no state: the share session,  *)
(* polled from the backend, and the Leaflet map.  The backend runs the     *)
(* synchronous Tauri commands in the order of their invocation             *)
(* (src-tauri/src/main.rs).                                                *)
(***************************************************************************)
EXTENDS Common, Sequences

CONSTANTS
    MaxCalls,       \* bound: commands the backend has not answered
    MaxStale        \* bound: cancelled runs of the map effect that wait for the script

VARIABLES
    backendSession,            \* the backend's session
    shareSession,       \* what the window shows of it
    calls, answers      \* commands invoked and not run, answers on their way

sessionVars == <<backendSession, shareSession, calls, answers>>

VARIABLES
    mapEnabled,         \* form.statusMapEnabled
    mappable,           \* has a server of mappableServers a place?
    script,             \* the Leaflet script
    waitingRun,         \* does the present run of the effect wait for it?
    staleRuns,          \* cancelled runs that wait for it
    leafletMap          \* is a map alive?

mapVars == <<mapEnabled, mappable, script, waitingRun, staleRuns, leafletMap>>

-----------------------------------------------------------------------------
(* The share session.                                                      *)

Live == {"waiting", "running"}
ShareStatus == Live \cup {"none", "failed"}

SessionInit == backendSession = "none" /\ shareSession = "none" /\ calls = <<>> /\ answers = <<>>

Calling(op) == Len(calls) + Len(answers) < MaxCalls /\ calls' = Append(calls, op)

\* The button shows "start" unless a live session is shown; nothing disables it while the
\* two commands are under way.  start_sharing follows the answer of save_client_config.
StartSharing ==
    /\ shareSession \notin Live /\ Calling("save")
    /\ UNCHANGED <<backendSession, shareSession, answers>>

\* The same button, and the one of the queue dialog.
StopSharing ==
    /\ shareSession \in Live /\ Calling("stop")
    /\ UNCHANGED <<backendSession, shareSession, answers>>

Polled_running == {"running"}

\* The statuses for which the effect keeps its interval of one second.
Polled == Live

\* One poll waits at a time: the interval is far longer than a command.
Poll ==
    /\ shareSession \in Polled /\ ~ \E n \in DOMAIN calls : calls[n] = "poll"
    /\ Calling("poll")
    /\ UNCHANGED <<backendSession, shareSession, answers>>

\* The loading effect runs again after a change of language and asks once.
AskAgain ==
    /\ Calling("poll")
    /\ UNCHANGED <<backendSession, shareSession, answers>>

\* The backend runs the next command.  start_sharing refuses while a session is live, or
\* when the relay does not answer its probe.
Execute ==
    /\ calls # <<>> /\ calls' = Tail(calls)
    /\ LET op == Head(calls)
           Answer(value) == answers' = Append(answers, [op |-> op, value |-> value])
       IN  \/ op = "save" /\ Answer("none") /\ UNCHANGED backendSession
           \/ op = "start" /\ backendSession \notin Live /\ backendSession' = "waiting" /\ Answer("waiting")
           \/ op = "start" /\ Answer("error") /\ UNCHANGED backendSession
           \/ op = "stop" /\ backendSession' = "none" /\ Answer("none")
           \/ op = "poll" /\ Answer(backendSession) /\ UNCHANGED backendSession
    /\ UNCHANGED shareSession

\* run_share_session gets its port, or fails.
SessionMoves ==
    /\ \/ backendSession = "waiting" /\ backendSession' = "running"
       \/ backendSession \in Live /\ backendSession' = "failed"
    /\ UNCHANGED <<shareSession, calls, answers>>

AfterRefusal_cleared == "none"

\* A refused start leaves the session as it is shown.
AfterRefusal == shareSession

Answered ==
    LET a == Head(answers) IN
    /\ answers # <<>> /\ answers' = Tail(answers)
    /\ calls' = IF a.op = "save" THEN Append(calls, "start") ELSE calls
    /\ shareSession' = IF a.op = "save" THEN shareSession
                       ELSE IF a.value = "error" THEN AfterRefusal ELSE a.value
    /\ UNCHANGED backendSession

SessionNext ==
    StartSharing \/ StopSharing \/ Poll \/ AskAgain \/ Execute \/ SessionMoves \/ Answered

\* The window polls as long as it is open, and the backend answers.
SessionFairness ==
    WF_sessionVars(Poll) /\ WF_sessionVars(Execute) /\ WF_sessionVars(Answered)

-----------------------------------------------------------------------------
(* The map.                                                                *)

MapInit ==
    /\ mapEnabled = TRUE /\ mappable = FALSE /\ script = "absent"
    /\ waitingRun = FALSE /\ staleRuns = 0 /\ leafletMap = FALSE

\* ensureLeafletAssets: every run waits until the one script element has loaded.
Waits(shown) == shown /\ script # "loaded"

\* A dependency changed: the run before is cancelled, and cleaned up, and the effect runs:
\* the stage is mounted while the map is enabled.  A script element whose load has failed
\* is still in the document, and the new run waits for an event that has been and gone.
MapEffect ==
    LET shown == mapEnabled' /\ mappable' IN
    /\ staleRuns < MaxStale
    /\ leafletMap' = (shown /\ script = "loaded")
    /\ waitingRun' = Waits(shown)
    /\ staleRuns' = IF waitingRun THEN staleRuns + 1 ELSE staleRuns
    /\ script' = IF shown /\ script = "absent" THEN "loading" ELSE script

ToggleMap == mapEnabled' = ~mapEnabled /\ UNCHANGED mappable /\ MapEffect

\* New locations, every 15 s, a new list, or another language.
Locations == UNCHANGED mapEnabled /\ mappable' \in BOOLEAN /\ MapEffect

\* if (cancelled) return;
Resumes == waitingRun

ScriptLoads ==
    /\ script = "loading" /\ script' = "loaded"
    /\ leafletMap' = (leafletMap \/ Resumes)
    /\ waitingRun' = FALSE /\ staleRuns' = 0
    /\ UNCHANGED <<mapEnabled, mappable>>

ScriptFails ==
    /\ script = "loading" /\ script' = "failed"
    /\ waitingRun' = FALSE /\ staleRuns' = 0
    /\ UNCHANGED <<mapEnabled, mappable, leafletMap>>

MapNext == ToggleMap \/ Locations \/ ScriptLoads \/ ScriptFails

\* The browser ends the load one way or the other.
MapFairness == WF_mapVars(ScriptLoads \/ ScriptFails)

-----------------------------------------------------------------------------
(* Properties.                                                             *)

\* Every variable has its type.
ClientTypeOK ==
    /\ backendSession \in ShareStatus /\ shareSession \in ShareStatus
    /\ Len(calls) + Len(answers) <= MaxCalls
    /\ {mapEnabled, mappable, waitingRun, leafletMap} \subseteq BOOLEAN
    /\ script \in {"absent", "loading", "loaded", "failed"} /\ staleRuns \in 0 .. MaxStale

\* No session runs behind the user's back: while the window shows none and no command is
\* under way, the backend has none, although the start button can be pressed twice and the
\* second start is refused.
NoHiddenSession ==
    (shareSession \notin Live /\ calls = <<>> /\ answers = <<>>) => backendSession \notin Live

\* No map object outlives its panel: with the map switched off, or no server to show, none
\* is alive, although a run that was cancelled may still wait for the script.
NoMapBehind == leafletMap => (mapEnabled /\ mappable)

\* Again and again the window agrees with the backend on whether a session is live: the
\* poll never stops while it shows one.
WindowFollows == []<>((shareSession \in Live) <=> (backendSession \in Live))

\* A map that can be shown appears once the script is loaded, whichever run asked for it.
MapAppears ==
    (mapEnabled /\ mappable) ~> (leafletMap \/ ~mapEnabled \/ ~mappable \/ script = "failed")

\* The window is sound: the types, no session and no map object behind it.
ViewSound == ClientTypeOK /\ NoHiddenSession /\ NoMapBehind

\* The window catches up: with the sessions of the backend, and with the script of the map.
ViewFollows == WindowFollows /\ MapAppears
====
