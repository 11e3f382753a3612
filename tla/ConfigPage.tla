----------------------------- MODULE ConfigPage -----------------------------
(***************************************************************************)
(* The configuration editor of the GUI in the browser (App.tsx,            *)
(* ConfigEditor.tsx and ListenerItem.tsx of src/FerrumGUI/frontend/src):   *)
(* what it shows while configurations are loaded, edited, saved, and       *)
(* pushed by the server over the WebSocket.  React runs the effects of a   *)
(* change before the next event, so an event and its effects are one step; *)
(* what waits is a request, and the closure that goes on with its answer.  *)
(***************************************************************************)
EXTENDS Common, Sequences

CONSTANTS
    Page,       \* instances, each with a configuration
    Content,    \* what the server leaves alone in a configuration
    Typed,      \* what can be typed into the editor
    MaxEvents   \* bound: messages on the WebSocket

\* A text has a content and, or not, parts that PUT config changes before it writes (raw:
\* listeners in shared relay mode, certificates to be provisioned) and parts that the write
\* changes (loose: spaces around names, empty tokens).
Text == [content : Content, raw : BOOLEAN, loose : BOOLEAN]

ASSUME ConfigPageAssumption == Typed \subseteq Text

\* A configuration says whose it is: the editor never compares, the properties do.
Config == [of : Page, value : Text]

\* What PUT config tells the pages, and what write and its sanitize put on the disk.
Told(c) == [c EXCEPT !.value.raw = FALSE]
Stored(c) == [c EXCEPT !.value.raw = FALSE, !.value.loose = FALSE]

VARIABLES
    disk,       \* the configuration the server has for each instance
    selected, config, savedConfig,
    configEdited, configDrafts,
    load,       \* GET config of each instance, at most one in flight (bound)
    saving,
    issuing,    \* a certificate upload or order in flight, with the render it started from
    events, isConnected,
    mixed,      \* history: the page had the server write one instance's configuration to another
    work,       \* history: what the user typed last and has not seen saved
    overtaken,  \* history: an answer about an older state of the disk came after a push of a newer
    belated     \* history: a certificate arrived on a page that was no longer as it had been

view == <<selected, config, savedConfig, configEdited>>
marks == <<mixed, work, overtaken, belated>>
configPageVars ==
    <<disk, view, configDrafts, load, saving, issuing, events, isConnected, marks>>

Asked == [data |-> None, passed |-> FALSE]

NoConfig == [i \in Page |-> None]

ConfigPageInit ==
    /\ disk \in {[i \in Page |-> [of |-> i, value |-> v]] :
                    v \in [content : Content, raw : {FALSE}, loose : {FALSE}]}
    /\ selected = None /\ config = None /\ savedConfig = None
    /\ configEdited = FALSE /\ configDrafts = NoConfig
    /\ load = NoConfig /\ saving = None /\ issuing = None
    /\ events = <<>> /\ isConnected = TRUE
    /\ mixed = FALSE /\ work = NoConfig /\ overtaken = FALSE /\ belated = FALSE

configDirty == config # None /\ config # savedConfig

-----------------------------------------------------------------------------
(* Selecting an instance, and loading its configuration.                   *)

\* The effect of a new selection forgets the old instance and asks for the new one.
Select(i) ==
    /\ selected # i /\ load[i] = None
    /\ load' = [load EXCEPT ![i] = Asked]
    /\ selected' = i /\ config' = None /\ savedConfig' = None
    /\ configEdited' = FALSE
    /\ UNCHANGED <<disk, configDrafts, saving, issuing, events, isConnected, marks>>

\* The selected instance is deleted, or the user logs out.
Deselect ==
    /\ selected # None
    /\ selected' = None /\ config' = None /\ savedConfig' = None
    /\ configEdited' = FALSE
    /\ UNCHANGED <<disk, configDrafts, load, saving, issuing, events, isConnected, marks>>

ServerReads(i) ==
    /\ load[i] # None /\ load[i].data = None
    /\ load' = [load EXCEPT ![i].data = disk[i]]
    /\ UNCHANGED <<disk, view, configDrafts, saving, issuing, events, isConnected, marks>>

StillSelected(i) == selected = i

\* What the user typed before comes back instead of what was loaded.
Shown(i, data) == IF configDrafts[i] # None THEN configDrafts[i] ELSE data

LoadConfig(i) ==
    /\ load[i] # None /\ load[i].data # None
    /\ IF StillSelected(i)
       THEN /\ config' = Shown(i, load[i].data)
            /\ configEdited' = (configDrafts[i] # None)
            /\ savedConfig' = load[i].data /\ overtaken' = (overtaken \/ load[i].passed)
       ELSE UNCHANGED <<config, configEdited, savedConfig, overtaken>>
    /\ load' = [load EXCEPT ![i] = None]
    /\ UNCHANGED <<disk, selected, configDrafts, saving, issuing, events, isConnected, mixed, work, belated>>

\* The request fails; the button Retry asks again.
LoadFails(i) ==
    /\ load[i] # None
    /\ load' = [load EXCEPT ![i] = None]
    /\ UNCHANGED <<disk, view, configDrafts, saving, issuing, events, isConnected, marks>>

Retry ==
    /\ selected # None /\ config = None /\ load[selected] = None
    /\ load' = [load EXCEPT ![selected] = Asked]
    /\ UNCHANGED <<disk, view, configDrafts, saving, issuing, events, isConnected, marks>>

-----------------------------------------------------------------------------
(* Editing.                                                                *)

\* editConfig, as the render with this selection and this saved text closed over it.
editConfig(i, saved, updated) ==
    /\ config' = updated /\ configEdited' = (updated # saved)
    /\ configDrafts' = IF i = None THEN configDrafts
                       ELSE [configDrafts EXCEPT ![i] = IF updated = saved THEN None ELSE updated]
    /\ work' = IF i = None THEN work ELSE [work EXCEPT ![i] = IF updated = saved THEN None ELSE updated]

\* The fields are disabled while a save is in flight, of whatever instance.
MayEdit == config # None /\ saving = None

Edit ==
    /\ MayEdit
    /\ \E v \in Typed \ {config.value} : editConfig(selected, savedConfig, [config EXCEPT !.value = v])
    /\ UNCHANGED <<disk, selected, savedConfig, load, saving, issuing, events, isConnected, mixed, overtaken, belated>>

\* A certificate: the handler of ListenerItem keeps the configuration of the render it
\* was started from, and puts the paths of the files into that one.
RequestCertificate ==
    /\ MayEdit /\ issuing = None
    /\ issuing' = [inst |-> selected, config |-> config, saved |-> savedConfig]
    /\ UNCHANGED <<disk, view, configDrafts, load, saving, events, isConnected, marks>>

\* The answer.  An order from Let's Encrypt has also written the configuration before,
\* which is a step of AnotherSaves.
CertificateIssued ==
    \E v \in Content :
        /\ issuing # None
        /\ editConfig(issuing.inst, issuing.saved, [issuing.config EXCEPT !.value.content = v])
        /\ belated' = (belated \/ saving # None \/ <<selected, config, savedConfig>>
                                             # <<issuing.inst, issuing.config, issuing.saved>>)
        /\ issuing' = None
        /\ UNCHANGED <<disk, selected, savedConfig, load, saving, events, isConnected, mixed, overtaken>>

CertificateFails ==
    /\ issuing # None /\ issuing' = None
    /\ UNCHANGED <<disk, view, configDrafts, load, saving, events, isConnected, marks>>

-----------------------------------------------------------------------------
(* Saving.                                                                 *)

SaveConfig ==
    /\ selected # None /\ configDirty /\ saving = None
    /\ saving' = [inst |-> selected, snapshot |-> config, written |-> FALSE, passed |-> FALSE]
    /\ UNCHANGED <<disk, view, configDrafts, load, issuing, events, isConnected, marks>>

Push(i, c) == IF isConnected THEN Append(events, [inst |-> i, config |-> c]) ELSE events

\* PUT config writes, and tells every page before it answers.
ServerWrites ==
    /\ saving # None /\ ~saving.written /\ Len(events) < MaxEvents
    /\ disk' = [disk EXCEPT ![saving.inst] = Stored(saving.snapshot)]
    /\ events' = Push(saving.inst, Told(saving.snapshot))
    /\ saving' = [saving EXCEPT !.written = TRUE]
    /\ mixed' = (mixed \/ saving.snapshot.of # saving.inst)
    /\ UNCHANGED <<view, configDrafts, load, issuing, isConnected, work, overtaken, belated>>

SaveSucceeds ==
    LET i == saving.inst IN
    /\ saving # None /\ saving.written
    /\ configDrafts' = [configDrafts EXCEPT ![i] = None]
    /\ work' = [work EXCEPT ![i] = IF @ = saving.snapshot THEN None ELSE @]
    /\ IF selected = i
       THEN /\ savedConfig' = saving.snapshot /\ configEdited' = FALSE
            /\ overtaken' = (overtaken \/ saving.passed)
       ELSE UNCHANGED <<savedConfig, configEdited, overtaken>>
    /\ saving' = None
    /\ UNCHANGED <<disk, selected, config, load, issuing, events, isConnected, mixed, belated>>

\* Refused by the server, or the answer is lost.
SaveFails ==
    /\ saving # None /\ saving' = None
    /\ UNCHANGED <<disk, view, configDrafts, load, issuing, events, isConnected, marks>>

-----------------------------------------------------------------------------
(* The server pushes what anybody saved.                                   *)

AnotherSaves(i) ==
    /\ Len(events) < MaxEvents
    /\ \E v \in Typed \ {disk[i].value} :
           LET c == [disk[i] EXCEPT !.value = v] IN
           disk' = [disk EXCEPT ![i] = Stored(c)] /\ events' = Push(i, Told(c))
    /\ UNCHANGED <<view, configDrafts, load, saving, issuing, isConnected, marks>>

SavedAfterPush_unlessEdited(c) == IF configEdited THEN savedConfig ELSE c
SavedAfterPush(c) == c

\* configUpdated: an edited text stays, but what counts as saved does not.
ConfigUpdated ==
    LET e == Head(events) IN
    /\ events # <<>> /\ events' = Tail(events)
    /\ IF selected = e.inst
       THEN /\ config' = IF configEdited THEN config ELSE e.config
            /\ savedConfig' = SavedAfterPush(e.config)
       ELSE UNCHANGED <<config, savedConfig>>
    /\ load' = IF load[e.inst] # None /\ load[e.inst].data # None
               THEN [load EXCEPT ![e.inst].passed = TRUE] ELSE load
    /\ saving' = IF saving # None /\ saving.inst = e.inst /\ saving.written /\ Told(saving.snapshot) # e.config
                 THEN [saving EXCEPT !.passed = TRUE] ELSE saving
    /\ UNCHANGED <<disk, selected, configEdited, configDrafts, issuing, isConnected,
                   marks>>

\* useWebSocket opens one socket and never another.
Disconnect ==
    /\ isConnected /\ isConnected' = FALSE /\ events' = <<>>
    /\ UNCHANGED <<disk, view, configDrafts, load, saving, issuing, marks>>

ConfigPageNext ==
    \/ \E i \in Page : Select(i) \/ ServerReads(i) \/ LoadConfig(i) \/ LoadFails(i) \/ AnotherSaves(i)
    \/ Deselect \/ Retry \/ Edit
    \/ RequestCertificate \/ CertificateIssued \/ CertificateFails
    \/ SaveConfig \/ ServerWrites \/ SaveSucceeds \/ SaveFails
    \/ ConfigUpdated \/ Disconnect

ConfigPageSpec == ConfigPageInit /\ [][ConfigPageNext]_configPageVars

-----------------------------------------------------------------------------

\* Each variable has its type; a page with no instance selected holds no configuration, and no event
\* waits for a page whose socket is closed (broadcast skips it).
ConfigPageTypeOK ==
    /\ disk \in [Page -> Config] /\ selected \in Page \cup {None}
    /\ config \in Config \cup {None} /\ savedConfig \in Config \cup {None}
    /\ configDrafts \in [Page -> Config \cup {None}]
    /\ selected = None /\ ~belated => config = None
    /\ Len(events) <= MaxEvents /\ (~isConnected => events = <<>>)

\* The page never has the server write the configuration of one instance into another,
\* whatever is selected while answers are out: loadConfig and the save compare the
\* instance they were started for with the one selected.  The certificate handler does
\* not, and that is the only way to it.
SavesOwnConfig == ~belated => ~mixed

\* What the user typed stays until it is saved: it is kept for the next load of the
\* instance and is what an edited page shows, through selections, pushes, failed saves.
\* A page that shows something else instead (a push came in while it was loading) does
\* not call it edited.
DraftKept ==
    ~belated => \A i \in Page : work[i] # None =>
        configDrafts[i] = work[i] /\ (selected = i /\ configEdited => config = work[i])

\* "All changes saved" is true up to what the server changes: once nothing is in flight,
\* what the page compares with is stored as what the server has, if the socket lived and no
\* answer was overtaken by a push.  It need not be the same text: the page that saved takes
\* its own snapshot for saved, although listeners were dropped or names trimmed.
SavedIsOnDisk ==
    /\ isConnected /\ ~overtaken /\ ~belated /\ events = <<>> /\ saving = None
    /\ savedConfig # None
    => Stored(savedConfig) = disk[selected]

\* The configuration page is honest: the types, no instance's configuration saved as
\* another's, the user's typing kept, and "saved" meaning saved.
PageHonest == ConfigPageTypeOK /\ SavesOwnConfig /\ DraftKept /\ SavedIsOnDisk
=============================================================================
