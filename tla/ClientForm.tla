----------------------------- MODULE ClientForm -----------------------------
(***************************************************************************)
(* The form of the desktop client's window (App.tsx of                     *)
(* src/FerrumClient/frontend/src): relay, token and debounced save, filled *)
(* by a saved configuration and two lists of official servers that arrive  *)
(* while the user types.  An event of React and the effects it triggers    *)
(* are one step.  The backend runs the synchronous Tauri commands in the   *)
(* order of their invocation (src-tauri/src/main.rs).                      *)
(***************************************************************************)
EXTENDS Common, Sequences, FiniteSets

CONSTANTS
    Official,       \* ids of official servers
    Custom,         \* customRelayValue
    Address, DefaultAddress, RelayToken, NoToken,
    ServerLists,    \* what the bundled and the remote list may hold: id -> address
    MaxLanguages    \* bound: how often the window is set up, once and per language change

VARIABLES
    form,               \* relayAddress and token; relayAddressRef always holds the same address
    relaySelection, customRelayAddress, relayTokens, officialServers,
    configReady,
    saveTimer,          \* is the debounced save of the form pending?
    stored,             \* config.json
    commands,           \* commands of the form the backend has not run, in order
    languages,          \* runs of the two loading effects so far
    asking,             \* remote lists on their way: have the bundled servers been shown?
    original,           \* history: config.json at the start
    changed,              \* history: the user changed something
    moved,              \* history: a list moved the selection after the first load, or the file failed
    unsaved             \* history: the last save failed

formMarks == <<changed, moved, unsaved>>
formVars == <<form, relaySelection, customRelayAddress, relayTokens, officialServers,
              configReady, saveTimer, stored, commands, languages,
              asking, original, formMarks>>

RelayKey == Official \cup {Custom}
RelayForm == [address : Address, token : RelayToken \cup {NoToken}]
DefaultForm == [address |-> DefaultAddress, token |-> NoToken]

FormInit ==
    /\ original \in RelayForm /\ stored = original
    /\ form = DefaultForm
    /\ relaySelection = Custom /\ customRelayAddress = DefaultAddress
    /\ relayTokens = [k \in RelayKey |-> NoToken] /\ officialServers = <<>>
    /\ configReady = FALSE /\ saveTimer = FALSE
    /\ commands = <<[op |-> "list"], [op |-> "load"]>>
    /\ languages = 1 /\ asking = [shown \in BOOLEAN |-> 0]
    /\ changed = FALSE /\ moved = FALSE /\ unsaved = FALSE

-----------------------------------------------------------------------------
(* The form.                                                               *)

\* The first server of the list at this address.
selectRelayForAddress(servers, a) ==
    IF \E s \in DOMAIN servers : servers[s] = a
    THEN CHOOSE s \in DOMAIN servers : servers[s] = a ELSE Custom

\* The two effects that follow a change of the selection: the form takes the address and
\* the token of the selected relay.  A save follows every change of the form.
Synced(selection, custom, tokens, servers) ==
    /\ relaySelection' = selection /\ customRelayAddress' = custom
    /\ relayTokens' = tokens /\ officialServers' = servers
    /\ form' = [address |-> IF selection = Custom THEN custom ELSE servers[selection],
                token |-> tokens[selection]]

\* The effect on [configReady, form] arms its timer anew.
Rearm == saveTimer' = IF form' # form THEN configReady ELSE saveTimer

Waiting(op) == {n \in DOMAIN commands : commands[n].op = op}
FirstLoadPending == Cardinality(Waiting("load")) = languages

\* A list arrives: the selection is looked up again by the address in use.
ShowServers(servers) ==
    LET selection == selectRelayForAddress(servers, form.address)
    IN  /\ Synced(selection, customRelayAddress, relayTokens, servers)
        /\ moved' = (moved \/ (selection # relaySelection /\ ~FirstLoadPending))
        /\ Rearm /\ UNCHANGED <<changed, unsaved>>

\* The bundled list, and after it the request for the remote one; it may be missing or empty.
LoadOfficialServers ==
    /\ commands # <<>> /\ Head(commands).op = "list" /\ commands' = Tail(commands)
    /\ \/ /\ \E servers \in ServerLists \ {<<>>} : ShowServers(servers)
          /\ asking' = [asking EXCEPT ![TRUE] = @ + 1]
       \/ /\ asking' = [asking EXCEPT ![FALSE] = @ + 1]
          /\ UNCHANGED <<form, relaySelection, customRelayAddress, relayTokens,
                         officialServers, saveTimer, formMarks>>
    /\ UNCHANGED <<configReady, stored, languages, original>>

\* The remote list replaces it; without either the window is left with a manual address.
RemoteServers(loadedLocal) ==
    /\ asking[loadedLocal] > 0 /\ asking' = [asking EXCEPT ![loadedLocal] = @ - 1]
    /\ \/ \E servers \in ServerLists \ {<<>>} : ShowServers(servers)
       \/ ~loadedLocal /\ ShowServers(<<>>)
       \/ loadedLocal /\ UNCHANGED <<form, relaySelection, customRelayAddress, relayTokens,
                                     officialServers, saveTimer, formMarks>>
    /\ UNCHANGED <<configReady, stored, commands, languages, original>>

LoadedTokens_unchanged(selection) == relayTokens

\* The saved token becomes the token of the relay the saved address selects.
LoadedTokens(selection) == [relayTokens EXCEPT ![selection] = stored.token]

\* load_client_config answers: every field is replaced by what the file holds.  The window
\* is ready once the connection has been probed.
LoadClientConfig ==
    LET selection == selectRelayForAddress(officialServers, stored.address)
    IN  /\ commands # <<>> /\ Head(commands).op = "load"
        /\ commands' = Append(Tail(commands), [op |-> "probe"])
        /\ Synced(selection, IF selection = Custom THEN stored.address ELSE customRelayAddress,
                  LoadedTokens(selection), officialServers)
        /\ saveTimer' = configReady
        /\ UNCHANGED <<configReady, stored, languages, asking, original, formMarks>>

\* The file cannot be read: the window goes on with the defaults, and saves them.
LoadConfigFails ==
    /\ commands # <<>> /\ Head(commands).op = "load" /\ commands' = Tail(commands)
    /\ configReady' = TRUE /\ saveTimer' = (saveTimer \/ ~configReady) /\ moved' = TRUE
    /\ UNCHANGED <<form, relaySelection, customRelayAddress, relayTokens, officialServers,
                   stored, languages, asking, original, changed, unsaved>>

ProbeEnds ==
    /\ commands # <<>> /\ Head(commands).op = "probe" /\ commands' = Tail(commands)
    /\ configReady' = TRUE /\ saveTimer' = (saveTimer \/ ~configReady)
    /\ UNCHANGED <<form, relaySelection, customRelayAddress, relayTokens, officialServers,
                   stored, languages, asking, original, formMarks>>

\* Both loading effects depend on the translated texts.
ChangeLanguage ==
    /\ languages < MaxLanguages /\ languages' = languages + 1
    /\ commands' = commands \o <<[op |-> "list"], [op |-> "load"]>>
    /\ UNCHANGED <<form, relaySelection, customRelayAddress, relayTokens, officialServers,
                   configReady, saveTimer, stored, asking, original, formMarks>>

SelectRelay(k) ==
    /\ k \in DOMAIN officialServers \cup {Custom} /\ k # relaySelection
    /\ Synced(k, customRelayAddress, relayTokens, officialServers)
    /\ Rearm /\ changed' = TRUE
    /\ UNCHANGED <<configReady, stored, commands, languages, asking, original, moved, unsaved>>

\* The manual address; the field is shown when no official server is selected.
TypeAddress(a) ==
    /\ relaySelection = Custom /\ a # form.address
    /\ Synced(Custom, a, relayTokens, officialServers)
    /\ Rearm /\ changed' = TRUE
    /\ UNCHANGED <<configReady, stored, commands, languages, asking, original, moved, unsaved>>

TypeToken(t) ==
    /\ t # form.token
    /\ Synced(relaySelection, customRelayAddress, [relayTokens EXCEPT ![relaySelection] = t],
              officialServers)
    /\ Rearm /\ changed' = TRUE
    /\ UNCHANGED <<configReady, stored, commands, languages, asking, original, moved, unsaved>>

\* 250 ms after the last change; bound: one save waits at a time.
SaveTimerFires ==
    /\ saveTimer /\ saveTimer' = FALSE /\ Waiting("save") = {}
    /\ commands' = Append(commands, [op |-> "save", config |-> form])
    /\ UNCHANGED <<form, relaySelection, customRelayAddress, relayTokens, officialServers,
                   configReady, stored, languages, asking, original, formMarks>>

SaveClientConfig ==
    /\ commands # <<>> /\ Head(commands).op = "save" /\ commands' = Tail(commands)
    /\ stored' = Head(commands).config /\ unsaved' = FALSE
    /\ UNCHANGED <<form, relaySelection, customRelayAddress, relayTokens, officialServers,
                   configReady, saveTimer, languages, asking, original, changed, moved>>

\* The write fails, which is only logged: the file is as it was, or cut short, and then read as
\* the defaults.
SaveClientConfigFails ==
    /\ commands # <<>> /\ Head(commands).op = "save" /\ commands' = Tail(commands)
    /\ stored' \in {stored, DefaultForm} /\ unsaved' = TRUE /\ moved' = TRUE
    /\ UNCHANGED <<form, relaySelection, customRelayAddress, relayTokens, officialServers,
                   configReady, saveTimer, languages, asking, original, changed>>

FormNext ==
    \/ LoadOfficialServers \/ LoadClientConfig \/ LoadConfigFails \/ ProbeEnds \/ ChangeLanguage
    \/ SaveTimerFires \/ SaveClientConfig \/ SaveClientConfigFails
    \/ \E l \in BOOLEAN : RemoteServers(l)
    \/ \E k \in RelayKey : SelectRelay(k)
    \/ \E a \in Address : TypeAddress(a)
    \/ \E t \in RelayToken \cup {NoToken} : TypeToken(t)

-----------------------------------------------------------------------------
(* Properties.                                                             *)

\* Every variable has its type; the selected server is one of the list.
FormTypeOK ==
    /\ form \in RelayForm /\ stored \in RelayForm /\ original \in RelayForm
    /\ relaySelection \in DOMAIN officialServers \cup {Custom}
    /\ customRelayAddress \in Address
    /\ relayTokens \in [RelayKey -> RelayToken \cup {NoToken}]
    /\ {configReady, saveTimer, changed, moved, unsaved} \subseteq BOOLEAN
    /\ languages \in 1 .. MaxLanguages /\ asking \in [BOOLEAN -> 0 .. MaxLanguages]

\* A window that is only looked at leaves config.json as it found it: whatever order the
\* saved configuration and the two lists of servers arrive in, the effects that copy the
\* address and the token of the selected relay into the form never save anything else,
\* unless a list that came after the configuration files the saved address under another
\* relay, or no longer has it, or the file could not be read or written.  Even then no
\* address and no token get into the file but the saved ones and the defaults.
StoredConfigKept ==
    ~changed => /\ ~moved => stored = original
              /\ stored.address \in {original.address, DefaultAddress}
              /\ stored.token \in {original.token, NoToken}

\* What the user sees is what the next start of the program will load: when no save is
\* pending, config.json holds the form, although a reload may have replaced the form.  A
\* save that failed is not repeated: the two differ until the next change is saved.
FormIsStored ==
    (configReady /\ ~saveTimer /\ ~unsaved /\ Waiting("save") = {} /\ Waiting("load") = {}) => stored = form

\* The form and config.json agree: the types, nothing saved that nobody changed, and
\* nothing shown that is not saved.
FormSound == FormTypeOK /\ StoredConfigKept /\ FormIsStored
====
