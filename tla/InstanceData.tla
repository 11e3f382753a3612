---------------------------- MODULE InstanceData ----------------------------
(***************************************************************************)
(* Two things the record of an instance gets while a handler waits         *)
(* (src/FerrumGUI/src/index.ts): the place on the map, typed in by the     *)
(* operator or looked up by GET public-metadata, and the port of its       *)
(* manager API, searched for among those of the other instances.  The      *)
(* update of a binary also writes both back, from the record as it was     *)
(* before the download.  An update of the record is one assignment,        *)
(* followed by the disk.                                                   *)
(***************************************************************************)
EXTENDS Common, FiniteSetsExt

CONSTANTS
    Lookup,         \* GET public-metadata requests in flight
    Inst,           \* instances
    ManagerPort,    \* MANAGER_PORT_START .. MANAGER_PORT_END
    Foreign         \* ports that other programs hold

\* A coordinate is one field: latitude and longitude are treated alike.
Field == {"region", "coordinate"}

VARIABLES
    metadata,       \* publicMetadata of an instance: who filled each field
    looking,        \* what each lookup in flight found in the record
    updatingMeta,   \* publicMetadata in the record an update of the binary holds
    settled,        \* history: fields the operator filled while neither was in flight
    managerPort,    \* of the record of each instance
    listening,      \* the port the process of each instance has bound
    search,         \* allocateManagerPort for each instance: the used ports, and where it is
    updatingPort,   \* managerPort in the record an update of each instance holds
    typed,          \* history: instances whose port was typed in, or written back by an update
    crossed         \* history: two searches overlapped

metaVars == <<metadata, looking, updatingMeta, settled>>
portVars == <<managerPort, listening, search, updatingPort, typed, crossed>>

Empty == [f \in Field |-> None]
NoSearch == [used |-> {}, port |-> None]

MetaInit ==
    /\ metadata = Empty /\ looking = [l \in Lookup |-> None]
    /\ updatingMeta = None /\ settled = {}

PortInit ==
    /\ managerPort = [i \in Inst |-> None] /\ listening = [i \in Inst |-> None]
    /\ search = [i \in Inst |-> NoSearch]
    /\ updatingPort = [i \in Inst |-> None] /\ typed = {} /\ crossed = FALSE

-----------------------------------------------------------------------------
(* The place on the map.                                                   *)

missingLocation(m) == \E f \in Field : m[f] = None

GetPublicMetadata(l) ==
    /\ looking[l] = None /\ missingLocation(metadata)
    /\ looking' = [looking EXCEPT ![l] = metadata]
    /\ UNCHANGED <<metadata, updatingMeta, settled>>

\* resolveLocationFromIpInfo: the fields the answer has, none if there is none.
Answer == [Field -> {None, "ipinfo"}]

nextMetadata(m, answer) == [f \in Field |-> IF m[f] # None THEN m[f] ELSE answer[f]]

\* What is written back starts from what the request found before it waited.
LookupEnds(l) ==
    /\ looking[l] # None
    /\ \E answer \in Answer :
           LET next == nextMetadata(looking[l], answer) IN
           metadata' = IF answer # Empty /\ next # looking[l] THEN next ELSE metadata
    /\ looking' = [looking EXCEPT ![l] = None]
    /\ UNCHANGED <<updatingMeta, settled>>

\* A field the request leaves out stays, an empty one is cleared.
PutPublicMetadata ==
    \E sent \in [Field -> {"kept", "operator", None}] :
        /\ metadata' = [f \in Field |-> IF sent[f] = "kept" THEN metadata[f] ELSE sent[f]]
        /\ settled' = {f \in Field :
               \/ sent[f] = "kept" /\ f \in settled
               \/ sent[f] = "operator" /\ updatingMeta = None /\ \A l \in Lookup : looking[l] = None}
        /\ UNCHANGED <<looking, updatingMeta>>

\* The update of the binary takes the record before it waits for releases and download.
UpdateTakesMetadata ==
    /\ updatingMeta = None /\ updatingMeta' = metadata
    /\ UNCHANGED <<metadata, looking, settled>>

\* serviceManager.update(instanceId, instance): all that record had is written, except by a
\* record from before the instance had any metadata.  An update that fails writes nothing.
UpdateWritesMetadata ==
    /\ updatingMeta # None /\ updatingMeta' = None
    /\ metadata' \in {updatingMeta} \cup (IF updatingMeta = Empty THEN {metadata} ELSE {})
    /\ UNCHANGED <<looking, settled>>

UpdateLeavesMetadata ==
    /\ updatingMeta # None /\ updatingMeta' = None
    /\ UNCHANGED <<metadata, looking, settled>>

MetaNext ==
    \/ PutPublicMetadata \/ UpdateTakesMetadata \/ UpdateWritesMetadata \/ UpdateLeavesMetadata
    \/ \E l \in Lookup : GetPublicMetadata(l) \/ LookupEnds(l)

-----------------------------------------------------------------------------
(* The port of the manager API.                                            *)

usedPorts_running(i) == {listening[k] : k \in Inst \ {i}} \ {None}

\* The ports in the records of the others, whether they run or not.
usedPorts(i) == {managerPort[k] : k \in Inst \ {i}} \ {None}

Candidates(used, p) == {q \in ManagerPort \ used : q >= p}

\* ensureManagerApi for an instance that has no port, at its creation, its start or the
\* start of the GUI, and the request that clears the port of an instance.
AllocateManagerPort(i) ==
    LET used == usedPorts(i)
        candidates == Candidates(used, Min(ManagerPort)) IN
    /\ search[i] = NoSearch /\ candidates # {}
    /\ search' = [search EXCEPT ![i] = [used |-> used, port |-> Min(candidates)]]
    /\ crossed' = (crossed \/ \E k \in Inst : search[k] # NoSearch)
    /\ UNCHANGED <<managerPort, listening, updatingPort, typed>>

canBindLocalPort(p) == p \notin Foreign /\ \A k \in Inst : listening[k] # p

\* The search ends with a port, goes on to the next, or has tried them all and throws.
TryPort(i) ==
    LET p == search[i].port
        rest == Candidates(search[i].used, p + 1) IN
    /\ p # None
    /\ IF canBindLocalPort(p)
       THEN /\ managerPort' = [managerPort EXCEPT ![i] = p] /\ typed' = typed \ {i}
            /\ search' = [search EXCEPT ![i] = NoSearch]
       ELSE /\ search' = [search EXCEPT ![i] = IF rest = {} THEN NoSearch
                                               ELSE [@ EXCEPT !.port = Min(rest)]]
            /\ UNCHANGED <<managerPort, typed>>
    /\ UNCHANGED <<listening, updatingPort, crossed>>

\* PUT instances/:id takes any port number.
PutManagerPort(i) ==
    /\ \E p \in ManagerPort : managerPort' = [managerPort EXCEPT ![i] = p]
    /\ typed' = typed \cup {i}
    /\ UNCHANGED <<listening, search, updatingPort, crossed>>

\* A process binds the port of the record it was started from, and keeps it.
ProcessStarts(i) ==
    /\ listening[i] = None /\ managerPort[i] # None /\ canBindLocalPort(managerPort[i])
    /\ listening' = [listening EXCEPT ![i] = managerPort[i]]
    /\ UNCHANGED <<managerPort, search, updatingPort, typed, crossed>>

ProcessEnds(i) ==
    /\ listening[i] # None /\ listening' = [listening EXCEPT ![i] = None]
    /\ UNCHANGED <<managerPort, search, updatingPort, typed, crossed>>

\* The update of the binary takes the record of the instance, and writes all of it back when
\* the download is there, or fails.  One update of an instance is followed at a time.
UpdateTakesPort(i) ==
    /\ updatingPort[i] = None /\ managerPort[i] # None
    /\ updatingPort' = [updatingPort EXCEPT ![i] = managerPort[i]]
    /\ UNCHANGED <<managerPort, listening, search, typed, crossed>>

UpdateEnds(i) ==
    /\ updatingPort[i] # None /\ updatingPort' = [updatingPort EXCEPT ![i] = None]
    /\ \/ UNCHANGED <<managerPort, typed>>
       \/ /\ managerPort' = [managerPort EXCEPT ![i] = updatingPort[i]]
          /\ typed' = IF managerPort[i] = updatingPort[i] THEN typed ELSE typed \cup {i}
    /\ UNCHANGED <<listening, search, crossed>>

\* A deleted instance gives its port back, and its place here to a new one; an update of it
\* finds no record to write to.
DeleteInstance(i) ==
    /\ managerPort[i] # None /\ listening[i] = None /\ search[i] = NoSearch
    /\ managerPort' = [managerPort EXCEPT ![i] = None] /\ typed' = typed \ {i}
    /\ updatingPort' = [updatingPort EXCEPT ![i] = None]
    /\ UNCHANGED <<listening, search, crossed>>

PortNext ==
    \E i \in Inst :
        \/ AllocateManagerPort(i) \/ TryPort(i) \/ PutManagerPort(i)
        \/ ProcessStarts(i) \/ ProcessEnds(i) \/ DeleteInstance(i)
        \/ UpdateTakesPort(i) \/ UpdateEnds(i)

-----------------------------------------------------------------------------

\* Each variable has its type; a lookup of the place is out only for metadata with a gap, and
\* allocateManagerPort only ever tries a port that no other instance had when it began.
InstanceTypeOK ==
    /\ metadata \in [Field -> {None, "operator", "ipinfo"}] /\ settled \subseteq Field
    /\ \A l \in Lookup : looking[l] # None => missingLocation(looking[l])
    /\ managerPort \in [Inst -> ManagerPort \cup {None}] /\ typed \subseteq Inst
    /\ listening \in [Inst -> ManagerPort \cup {None}] /\ updatingPort \in [Inst -> ManagerPort \cup {None}]
    /\ \A i \in Inst : search[i] # NoSearch => search[i].port \in ManagerPort \ search[i].used

\* The lookup fills gaps and never replaces what the operator typed in, although several
\* lookups, and the update of a binary, write the whole place back from what they had
\* read: a field the operator filled stays the operator's unless one of these was already
\* waiting when they did, and then the field goes back to what that one had found.
OperatorKept == \A f \in settled : metadata[f] = "operator"

\* No two instances are given one port, also when the holder of a port is stopped and
\* the port can be bound: it takes two searches at the same time, a number that the
\* operator typed in, which nothing compares with the others, or the update of a binary
\* that writes back the port its instance had given up meanwhile.
PortsDistinct ==
    ~crossed => \A i, k \in Inst \ typed :
        i # k /\ managerPort[i] # None => managerPort[i] # managerPort[k]

\* What an instance was given stays its own: the types, the fields that the operator
\* filled, and its port.
InstanceSound == InstanceTypeOK /\ OperatorKept /\ PortsDistinct
=============================================================================
