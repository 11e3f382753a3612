---------------------------- MODULE InstanceList ----------------------------
(***************************************************************************)
(* The list of instances in the browser (App.tsx and useWebSocket.ts of    *)
(* src/FerrumGUI/frontend/src) and what the server tells it: small changes *)
(* and whole lists pushed in order over one WebSocket, and answers to GET  *)
(* instances, which overtake each other and the pushes.                    *)
(***************************************************************************)
EXTENDS Common, Sequences

CONSTANTS
    Member,     \* instances
    Load,       \* GET instances requests in flight
    MaxQueue    \* bound: messages on the WebSocket

Status == {"absent", "stopped", "running"}

VARIABLES
    record,         \* the status of each instance in the records of the server
    beingMade,      \* instances the server is initialising
    instances, initializingInstances,
    isAuthenticated,
    listFetches,    \* what each GET in flight has read
    queue, connected,
    stale,          \* history: since the last good list a GET failed, or brought an older one
    missed          \* history: instances that were being initialised when the page was opened

listVars ==
    <<record, beingMade, instances, initializingInstances, isAuthenticated, listFetches, queue, connected,
      stale, missed>>
server == <<record, beingMade>>

NoList == [pc |-> "free", data |-> None, passed |-> FALSE]
Sent == [pc |-> "sent", data |-> None, passed |-> FALSE]

\* The server starts with instances or without; the socket's first message is the list.
ListInit ==
    /\ record \in [Member -> {"absent", "stopped"}] /\ beingMade = {} /\ missed = {}
    /\ instances = [i \in Member |-> "absent"] /\ initializingInstances = {}
    /\ isAuthenticated = FALSE /\ listFetches = [f \in Load |-> NoList]
    /\ queue = <<[type |-> "instances", data |-> record]>> /\ connected = TRUE /\ stale = FALSE

broadcast(messages) ==
    /\ connected => Len(queue) + Len(messages) <= MaxQueue
    /\ queue' = IF connected THEN queue \o messages ELSE queue

Event(t, i) == [type |-> t, inst |-> i]
TheList == [type |-> "instances", data |-> record']

-----------------------------------------------------------------------------
(* The server: every handler that changes a record, with what it pushes.   *)

Becomes(i, status, events) ==
    /\ record' = [record EXCEPT ![i] = status]
    /\ broadcast(events)
    /\ UNCHANGED <<instances, initializingInstances, isAuthenticated, listFetches, connected, stale>>
    /\ missed' = IF status = "stopped" /\ record[i] = "absent" THEN missed \ {i} ELSE missed

\* start, restart and the automatic restart.
Starts(i) ==
    /\ record[i] = "stopped" /\ i \notin beingMade
    /\ Becomes(i, "running", <<Event("instanceStarted", i), TheList>>) /\ UNCHANGED beingMade

\* stop, the stop before an update, and the exit of the process.
Stops(i) ==
    /\ record[i] = "running"
    /\ Becomes(i, "stopped", <<Event("instanceStopped", i), TheList>>) /\ UNCHANGED beingMade

Creates(i) ==
    /\ record[i] = "absent" /\ i \notin beingMade
    /\ Becomes(i, "stopped", <<Event("instanceAdded", i), Event("instanceInitializing", i)>>)
    /\ beingMade' = beingMade \cup {i}

Initialised(i) ==
    /\ i \in beingMade /\ beingMade' = beingMade \ {i}
    /\ Becomes(i, record[i], <<Event("instanceInitialized", i)>>)

Deletes(i) ==
    /\ record[i] # "absent"
    /\ Becomes(i, "absent", <<Event("instanceRemoved", i)>>) /\ UNCHANGED beingMade

ReadsRecords(f) ==
    /\ listFetches[f].pc = "sent"
    /\ listFetches' = [listFetches EXCEPT ![f] = [pc |-> "read", data |-> record, passed |-> FALSE]]
    /\ UNCHANGED <<server, instances, initializingInstances, isAuthenticated, queue, connected, stale, missed>>

-----------------------------------------------------------------------------
(* The page.                                                               *)

Reloads_ofNew == {"instanceAdded", "instanceInitialized"}

Reloads == {"instanceAdded", "instanceRemoved", "instanceInitialized"}

FreeFetch == {f \in Load : listFetches[f].pc = "free"}

\* Every answer that has been read already is older than what is applied now.
Outdated(g) == IF g.pc = "read" THEN [g EXCEPT !.passed = TRUE] ELSE g

\* loadInstances needs one more request; the bound makes the message wait for one.
Asks(f) == [g \in Load |-> IF g = f THEN Sent ELSE Outdated(listFetches[g])]

setInstances(e) ==
    CASE e.type = "instances" -> e.data
      [] e.type = "instanceStarted" /\ instances[e.inst] # "absent" -> [instances EXCEPT ![e.inst] = "running"]
      [] e.type = "instanceStopped" /\ instances[e.inst] # "absent" -> [instances EXCEPT ![e.inst] = "stopped"]
      [] OTHER -> instances

setInitializing(e) ==
    CASE e.type = "instanceInitializing" -> initializingInstances \cup {e.inst}
      [] e.type = "instanceInitialized" -> initializingInstances \ {e.inst}
      [] OTHER -> initializingInstances

Receive ==
    LET e == Head(queue) IN
    /\ queue # <<>> /\ queue' = Tail(queue)
    /\ instances' = setInstances(e) /\ initializingInstances' = setInitializing(e)
    /\ IF e.type \in Reloads THEN \E f \in FreeFetch : listFetches' = Asks(f)
       ELSE listFetches' = [g \in Load |-> Outdated(listFetches[g])]
    /\ stale' = (stale /\ e.type # "instances")
    /\ UNCHANGED <<server, isAuthenticated, connected, missed>>

LoadInstances(f) ==
    /\ listFetches[f].pc = "read" /\ instances' = listFetches[f].data
    /\ stale' = listFetches[f].passed
    /\ listFetches' = [g \in Load |-> IF g = f THEN NoList ELSE Outdated(listFetches[g])]
    /\ UNCHANGED <<server, initializingInstances, isAuthenticated, queue, connected, missed>>

LoadInstancesFails(f) ==
    /\ listFetches[f].pc # "free" /\ stale' = TRUE
    /\ listFetches' = [listFetches EXCEPT ![f] = NoList]
    /\ UNCHANGED <<server, instances, initializingInstances, isAuthenticated, queue, connected, missed>>

\* checkAuth after a login, and the effect that loads the list.
Authenticated ==
    /\ ~isAuthenticated /\ isAuthenticated' = TRUE
    /\ \E f \in FreeFetch : listFetches' = [listFetches EXCEPT ![f] = Sent]
    /\ UNCHANGED <<server, instances, initializingInstances, queue, connected, stale, missed>>

HandleLogout ==
    /\ isAuthenticated /\ isAuthenticated' = FALSE
    /\ instances' = [i \in Member |-> "absent"]
    /\ UNCHANGED <<server, initializingInstances, listFetches, queue, connected, stale, missed>>

\* useWebSocket opens one socket and never another.
Closes ==
    /\ connected /\ connected' = FALSE /\ queue' = <<>>
    /\ UNCHANGED <<server, instances, initializingInstances, isAuthenticated, listFetches, stale, missed>>

\* The page is opened anew, or reloaded: it starts empty, on a new socket.  The server's first
\* message is the list, and nothing tells which instances are being initialised.
Opens ==
    /\ instances' = [i \in Member |-> "absent"] /\ initializingInstances' = {}
    /\ isAuthenticated' = FALSE /\ listFetches' = [f \in Load |-> NoList]
    /\ queue' = <<[type |-> "instances", data |-> record]>> /\ connected' = TRUE
    /\ stale' = FALSE /\ missed' = beingMade
    /\ UNCHANGED server

ListNext ==
    \/ \E i \in Member : Starts(i) \/ Stops(i) \/ Creates(i) \/ Initialised(i) \/ Deletes(i)
    \/ \E f \in Load : ReadsRecords(f) \/ LoadInstances(f) \/ LoadInstancesFails(f)
    \/ Receive \/ Authenticated \/ HandleLogout \/ Closes \/ Opens

ListSpec == ListInit /\ [][ListNext]_listVars

-----------------------------------------------------------------------------

\* Each variable has its type; a closed socket has nothing queued, and a GET /api/instances carries
\* a list exactly from when the server read it to when the page got it.
ListTypeOK ==
    /\ record \in [Member -> Status] /\ instances \in [Member -> Status]
    /\ initializingInstances \subseteq Member /\ missed \subseteq Member /\ Len(queue) <= MaxQueue /\ (~connected => queue = <<>>)
    /\ \A f \in Load : (listFetches[f].data # None <=> listFetches[f].pc = "read")

\* Once nothing is under way the page of a user who is logged in shows the instances the
\* server has, each with its status, however starts, exits, creations, deletions, logins,
\* reloads and answers interleave.  What it takes to show something else is a closed socket,
\* or a request that failed or was overtaken, and then only until the next list.  It also
\* shows which instances are being initialised, but for those that already were when it
\* was opened.
ListSettles ==
    /\ connected /\ isAuthenticated /\ ~stale /\ queue = <<>> /\ \A f \in Load : listFetches[f].pc = "free"
    => instances = record /\ initializingInstances = beingMade \ missed

\* The list of instances is sound: the types, and what it shows once all is quiet.
ListSound == ListTypeOK /\ ListSettles
=============================================================================
