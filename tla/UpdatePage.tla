----------------------------- MODULE UpdatePage -----------------------------
(***************************************************************************)
(* Updates as the browser sees them (App.tsx and guiRestart.ts of          *)
(* src/FerrumGUI/frontend/src): which instances it shows as being updated  *)
(* (an entry made by the click and by every progress message, taken away   *)
(* by the instanceUpdated message or by the failed answer), the button     *)
(* that updates all of them in turn, and the wait for the GUI itself to    *)
(* come back with its new version.                                         *)
(***************************************************************************)
EXTENDS Common, Sequences, SequencesExt

CONSTANTS
    Target,         \* instances
    Clicked,        \* bound: those whose own button is used
    Shared,         \* bound: those another user updates too
    MaxMessages,    \* bound: messages on the WebSocket
    RestartPolls    \* polls of waitForGuiRestart before its deadline

VARIABLES
    updating,       \* updatingInstances
    request,        \* POST update of an instance: where it is, by who sent it
    checking,       \* handleCheckAndUpdateAll: "no", "asked", "running"
    known,          \* the updatingInstances its click closed over
    queueAll,       \* the targets it has still to ask for
    messages, online,
    unowned,        \* history: entries a progress message made without a request of this page
    abandoned,      \* history: targets the rate limit made it give up
    gui,            \* the update of the GUI: "idle", "confirm", "posted", "waiting", "reloaded", "failed"
    polls, guiServer, guiBusy

updateVars == <<updating, request, checking, known, queueAll, messages, online, unowned, abandoned>>
guiVars == <<gui, polls, guiServer, guiBusy>>

\* A click, the update of all, the page of another user: each has one request per instance.
Request == (Target \X {"all"}) \cup (Clicked \X {"click"}) \cup (Shared \X {"other"})

UpdateInit ==
    /\ updating = {} /\ request = [r \in Request |-> "none"]
    /\ checking = "no" /\ known = {} /\ queueAll = <<>>
    /\ messages = <<>> /\ online = TRUE /\ unowned = {} /\ abandoned = {}

GuiInit == gui = "idle" /\ polls = 0 /\ guiServer = "old" /\ guiBusy = FALSE

-----------------------------------------------------------------------------
(* handleUpdateInstance and handleCheckAndUpdateAll.                       *)

\* The button is disabled while the instance is shown as being updated.
HandleUpdateInstance(i) ==
    /\ i \notin updating /\ request[<<i, "click">>] = "none"
    /\ updating' = updating \cup {i} /\ request' = [request EXCEPT ![<<i, "click">>] = "sent"]
    /\ unowned' = unowned \ {i} /\ abandoned' = abandoned \ {i}
    /\ UNCHANGED <<checking, known, queueAll, messages, online>>

\* The page of another user.
AnotherUpdates(i) ==
    /\ request[<<i, "other">>] = "none" /\ request' = [request EXCEPT ![<<i, "other">>] = "sent"]
    /\ UNCHANGED <<updating, checking, known, queueAll, messages, online, unowned, abandoned>>

CheckUpdates ==
    /\ checking = "no" /\ checking' = "asked" /\ known' = updating
    /\ UNCHANGED <<updating, request, queueAll, messages, online, unowned, abandoned>>

\* All targets are marked before the first is asked for.  No targets, a failed check and
\* a refusal in the dialog end here.
CheckAnswered ==
    /\ checking = "asked"
    /\ \E found \in SUBSET Target :
           LET targets == found \ known IN
           /\ updating' = updating \cup targets /\ queueAll' = SetToSeq(targets)
           /\ unowned' = unowned \ targets /\ abandoned' = abandoned \ targets
           /\ checking' = IF targets = {} THEN "no" ELSE "running"
    /\ known' = {}
    /\ UNCHANGED <<request, messages, online>>

UpdateNextTarget ==
    LET i == Head(queueAll) IN
    /\ checking = "running" /\ queueAll # <<>> /\ request[<<i, "all">>] = "none"
    /\ request' = [request EXCEPT ![<<i, "all">>] = "sent"]
    /\ UNCHANGED <<updating, checking, known, queueAll, messages, online, unowned, abandoned>>

-----------------------------------------------------------------------------
(* The server.                                                             *)

Tell(m) ==
    /\ online => Len(messages) < MaxMessages
    /\ messages' = IF online THEN Append(messages, m) ELSE messages

ServerProgress(r) ==
    /\ request[r] = "sent" /\ Tell([type |-> "updateProgress", of |-> r])
    /\ request' = [request EXCEPT ![r] = "downloading"]
    /\ UNCHANGED <<updating, checking, known, queueAll, online, unowned, abandoned>>

ServerUpdated(r) ==
    /\ request[r] = "downloading" /\ Tell([type |-> "instanceUpdated", of |-> r])
    /\ request' = [request EXCEPT ![r] = "done"]
    /\ UNCHANGED <<updating, checking, known, queueAll, online, unowned, abandoned>>

\* The version is the same, there is no asset, the download fails, or GitHub has had
\* enough, which only the update of all tells from the rest.
ServerFails(r) ==
    /\ request[r] \in {"sent", "downloading"}
    /\ \E how \in {"failed"} \cup (IF r[2] = "all" THEN {"limited"} ELSE {}) : request' = [request EXCEPT ![r] = how]
    /\ UNCHANGED <<updating, checking, known, queueAll, messages, online, unowned, abandoned>>

-----------------------------------------------------------------------------
(* The page again.                                                         *)

Failed_kept(i) == updating
Failed(i) == updating \ {i}

\* The loop over the targets is left, one way or the other: finally.
AllDone(stop) == stop \/ Len(queueAll) = 1

\* A successful answer takes nothing away: the message does.
UpdateAnswered(r) ==
    /\ request[r] \in {"done", "failed", "limited"}
    /\ request' = [request EXCEPT ![r] = "none"]
    /\ updating' = IF request[r] # "done" /\ r[2] # "other" THEN Failed(r[1]) ELSE updating
    /\ unowned' = unowned \cap updating'
    /\ IF r[2] # "all" THEN UNCHANGED <<checking, queueAll, abandoned>>
       ELSE LET stop == request[r] = "limited" IN
            /\ queueAll' = IF stop THEN <<>> ELSE Tail(queueAll)
            /\ abandoned' = IF stop THEN abandoned \cup ToSet(Tail(queueAll)) ELSE abandoned
            /\ checking' = IF AllDone(stop) THEN "no" ELSE checking
    /\ UNCHANGED <<known, messages, online>>

\* A progress message makes an entry whether or not there is one, or a request.
ReceiveMessage ==
    LET m == Head(messages)
        i == m.of[1] IN
    /\ messages # <<>> /\ messages' = Tail(messages)
    /\ IF m.type = "updateProgress"
       THEN /\ updating' = updating \cup {i}
            /\ unowned' = IF m.of[2] # "other" /\ request[m.of] # "none" THEN unowned ELSE unowned \cup {i}
       ELSE updating' = updating \ {i} /\ unowned' = unowned \ {i}
    /\ UNCHANGED <<request, checking, known, queueAll, online, abandoned>>

GoOffline ==
    /\ online /\ online' = FALSE /\ messages' = <<>>
    /\ UNCHANGED <<updating, request, checking, known, queueAll, unowned, abandoned>>

UpdateNext ==
    \/ \E i \in Clicked : HandleUpdateInstance(i)
    \/ \E i \in Shared : AnotherUpdates(i)
    \/ \E r \in Request : ServerProgress(r) \/ ServerUpdated(r) \/ ServerFails(r) \/ UpdateAnswered(r)
    \/ CheckUpdates \/ CheckAnswered \/ UpdateNextTarget \/ ReceiveMessage \/ GoOffline

\* The server answers, in its own time, and the browser handles what it gets.
ServerAnswers(r) == ServerUpdated(r) \/ ServerProgress(r) \/ ServerFails(r)

UpdateFairness ==
    /\ \A r \in Request : WF_updateVars(ServerAnswers(r)) /\ WF_updateVars(UpdateAnswered(r))
    /\ WF_updateVars(CheckAnswered) /\ WF_updateVars(UpdateNextTarget) /\ WF_updateVars(ReceiveMessage)

-----------------------------------------------------------------------------
(* handleGuiSelfUpdate, confirmGuiSelfUpdate and waitForGuiRestart.        *)

AskGuiUpdate ==
    /\ gui \in {"idle", "failed"} /\ ~guiBusy /\ gui' = "confirm"
    /\ UNCHANGED <<polls, guiServer, guiBusy>>

CancelGuiUpdate ==
    /\ gui = "confirm" /\ gui' = "idle"
    /\ UNCHANGED <<polls, guiServer, guiBusy>>

ConfirmGuiUpdate ==
    /\ gui = "confirm" /\ gui' = "posted" /\ guiBusy' = TRUE
    /\ UNCHANGED <<polls, guiServer>>

\* The answer to POST self/update, or its failure.
GuiUpdatePosted ==
    /\ gui = "posted"
    /\ \/ gui' = "waiting" /\ polls' = RestartPolls /\ UNCHANGED guiBusy
       \/ gui' = "failed" /\ guiBusy' = FALSE /\ UNCHANGED polls
    /\ UNCHANGED guiServer

\* The old server answers until it goes; the new one comes up, or the old one again.
GuiServerStep ==
    /\ \/ gui = "waiting" /\ guiServer = "old" /\ guiServer' = "down"
       \/ guiServer = "down" /\ guiServer' \in {"old", "new"}
    /\ UNCHANGED <<gui, polls, guiBusy>>

\* readVersion() === version; no answer is not yet one.
Ready == guiServer = "new"

TimeLeft == polls > 0

WaitForGuiRestart ==
    /\ gui = "waiting"
    /\ IF ~TimeLeft THEN gui' = "failed" /\ guiBusy' = FALSE /\ UNCHANGED polls
       ELSE IF Ready THEN gui' = "reloaded" /\ UNCHANGED <<polls, guiBusy>>
       ELSE polls' = Down(polls) /\ UNCHANGED <<gui, guiBusy>>
    /\ UNCHANGED guiServer

\* A page that has been reloaded starts afresh, with the next version to come.
Reload ==
    /\ gui = "reloaded" /\ gui' = "idle" /\ polls' = 0 /\ guiServer' = "old" /\ guiBusy' = FALSE

GuiNext ==
    \/ AskGuiUpdate \/ CancelGuiUpdate \/ ConfirmGuiUpdate \/ GuiUpdatePosted
    \/ GuiServerStep \/ WaitForGuiRestart \/ Reload

GuiFairness == WF_guiVars(GuiUpdatePosted) /\ WF_guiVars(WaitForGuiRestart)

-----------------------------------------------------------------------------

\* Each variable has its type; targets remain only while the update of all runs, and guiBusy, which
\* disables the button, is set exactly while an update of the GUI is posted or awaited.
UpdateTypeOK ==
    /\ updating \subseteq Target /\ unowned \subseteq updating /\ abandoned \subseteq Target
    /\ (queueAll # <<>> => checking = "running") /\ Len(messages) <= MaxMessages
    /\ polls \in 0 .. RestartPolls /\ (guiBusy <=> gui \in {"posted", "waiting", "reloaded"})

\* No instance is shown as being updated for ever, which would keep its update button
\* disabled, however single updates, the update of all, messages and failures interleave:
\* it takes a closed socket, a progress message that outlives the request or belongs to
\* another page, or the targets that a rate limit left marked.
UpdateShownEnds ==
    \A i \in Target : i \in updating ~> (i \notin updating \/ ~online \/ i \in unowned \cup abandoned)

\* handleCheckAndUpdateAll comes to its end, and its button is enabled again.
UpdateAllEnds == checking # "no" ~> checking = "no"

\* The page is reloaded only when the version that was installed answers, not the old
\* server before it goes or after it came back.
ReloadsNewVersion == gui = "reloaded" => guiServer = "new"

\* Waiting for the new GUI ends, with it or with the error after the deadline.
GuiWaitEnds == gui = "waiting" ~> gui \in {"reloaded", "failed"}

\* The types hold, and whatever the page shows as under way comes to an end: updates of
\* instances, the update of all of them, and the wait for the new GUI, which does not end
\* with a reload into the old server.
UpdatesEnd ==
    [](UpdateTypeOK /\ ReloadsNewVersion) /\ UpdateShownEnds /\ UpdateAllEnds /\ GuiWaitEnds
=============================================================================
