----------------------------- MODULE UdpSession -----------------------------
(***************************************************************************)
(* The UDP proxy of a listener (src/src/udp.rs): one loop that receives    *)
(* datagrams, a session with its own upstream socket for every peer, and a *)
(* task per session that carries answers back and ends the session when it *)
(* has been idle.  The loop and the tasks interleave at every await and    *)
(* between two uses of the session map's lock.                             *)
(*                                                                         *)
(* Time is a tick of about a second, and every clock is an age that stops  *)
(* counting at the largest threshold it is compared with.  The backend is  *)
(* Cloudburst's RakNet server behind PROXY v2, as the comments of the code *)
(* describe it: it maps an upstream socket to a client when it sees a      *)
(* header, forgets the mapping after MappingTimeout of silence, and drops  *)
(* what comes without header from a socket it has no mapping for.          *)
(***************************************************************************)
EXTENDS Integers, FiniteSets

CONSTANTS
    Peer, Session,          \* upstream sockets (reused once nothing refers to them)
    Targets,                \* number of configured UDP targets
    Raknet,                 \* uses_raknet_udp
    Haproxy,
    FastReconnectIdle, ReconnectIdle, EstablishedGrace,
    MappingTimeout,         \* CLOUDBURST_PROXY_MAPPING_TIMEOUT_MS
    IdleBudget,             \* udp_session_idle
    SendMayFail,            \* may a send or a name lookup fail?
    LossMayHappen,          \* may the network lose a datagram?
    None

ASSUME UdpSessionAssumption ==
    /\ IsFiniteSet(Peer)
    /\ Targets \in Nat \ {0}
    /\ {FastReconnectIdle, ReconnectIdle, MappingTimeout, IdleBudget} \subseteq Nat
    /\ 0 < FastReconnectIdle /\ FastReconnectIdle < ReconnectIdle
    /\ ReconnectIdle <= MappingTimeout /\ MappingTimeout <= IdleBudget
    /\ EstablishedGrace \in Nat
    /\ None \notin Session \cup Peer

VARIABLES
    sessions,   \* SessionMap: the session of each peer
    session,    \* the sessions
    loop,       \* where the datagram loop is, and with what
    gauge,      \* metrics: sessions opened minus sessions closed
    mapping     \* the backend: idle age of the mapping of each socket, per target

vars == <<sessions, session, loop, gauge, mapping>>

\* OpenConnectionRequest1, frame sets, and everything else, pings included.
Kind == {"ocr1", "frame", "other"}
Target == 1 .. Targets
NotEstablished == -1
Idle == [pc |-> "recv", peer |-> None, kind |-> "other", session |-> None, index |-> 1]

NewSession(p) ==
    [peer |-> p, task |-> "recv", idle |-> 0, established |-> NotEstablished,
     header_sent |-> FALSE, target |-> 1, trouble |-> FALSE]

Gone == [NewSession(None) EXCEPT !.task = "dead"]

Init ==
    /\ sessions = [p \in Peer |-> None]
    /\ session = [s \in Session |-> Gone]
    /\ loop = Idle /\ gauge = 0
    /\ mapping = [s \in Session |-> [t \in Target |-> MappingTimeout]]

\* The task of a session is over; the loop may still hold an Arc of the session.
Ended(id) == IF loop.session = id THEN [session[id] EXCEPT !.task = "dead"] ELSE Gone

\* The loop lets go of a session.
Dropped(s) == IF s.task = "dead" THEN Gone ELSE s

Mapped(s, t) == mapping[s][t] < MappingTimeout

-----------------------------------------------------------------------------
(* handle_datagram and obtain_session.                                     *)

ShouldReset_anyOcr1(p, kind) == Raknet /\ kind = "ocr1" /\ sessions[p] # None

\* A new handshake from a peer whose established session has fallen silent.
ShouldReset(p, kind) ==
    /\ Raknet /\ kind = "ocr1" /\ sessions[p] # None
    /\ LET s == session[sessions[p]] IN
       /\ s.established # NotEstablished
       /\ \/ s.idle >= ReconnectIdle
          \/ s.established >= EstablishedGrace /\ s.idle >= FastReconnectIdle

\* A datagram that the IP block and the DDoS guard let pass and that is no ping the
\* shared pong cache has an answer for.
Datagram(p, kind) ==
    /\ loop.pc = "recv"
    /\ loop' = [Idle EXCEPT !.pc = IF ShouldReset(p, kind) THEN "reset" ELSE "get",
                            !.peer = p, !.kind = kind]
    /\ UNCHANGED <<sessions, session, gauge, mapping>>

\* metrics.udp_session_closed for a session that was in the map.
Closed(removed) == IF removed = None THEN gauge ELSE gauge - 1

MapAfterReset_kept(p) == sessions

MapAfterReset(p) == [sessions EXCEPT ![p] = None]

\* The stale session leaves the map and its task is aborted, which has no effect on
\* a task that is past its last await.
Reset ==
    /\ loop.pc = "reset"
    /\ LET old == sessions[loop.peer] IN
       /\ sessions' = MapAfterReset(loop.peer)
       /\ gauge' = Closed(old)
       /\ session' = IF old = None \/ session[old].task = "remove" THEN session
                     ELSE [session EXCEPT ![old] = Ended(old)]
    /\ loop' = [loop EXCEPT !.pc = "get"]
    /\ UNCHANGED mapping

Rearmed_onOcr1(s, kind) ==
    IF Raknet /\ Haproxy /\ (s.idle >= MappingTimeout \/ kind = "ocr1") THEN FALSE ELSE s.header_sent

\* header_sent once the re-arm of handle_datagram has looked at it.
Rearmed(s, kind) ==
    IF Raknet /\ Haproxy /\ s.idle >= MappingTimeout THEN FALSE ELSE s.header_sent

\* The session is known: on to sending through it, from its active target on.
Obtained(id, s) ==
    /\ session' = [session EXCEPT ![id] = [s EXCEPT !.header_sent = Rearmed(s, loop.kind)]]
    /\ loop' = [loop EXCEPT !.pc = "send", !.session = id, !.index = s.target]

GetExisting ==
    /\ loop.pc = "get" /\ sessions[loop.peer] # None
    /\ Obtained(sessions[loop.peer], session[sessions[loop.peer]])
    /\ UNCHANGED <<sessions, gauge, mapping>>

Unreferenced(id) == session[id].task = "dead" /\ \A p \in Peer : sessions[p] # id

\* A new upstream socket: bound, entered in the map, its task spawned.
OpenSession(id) ==
    /\ loop.pc = "get" /\ sessions[loop.peer] = None /\ Unreferenced(id)
    /\ sessions' = [sessions EXCEPT ![loop.peer] = id]
    /\ gauge' = gauge + 1
    /\ mapping' = [mapping EXCEPT ![id] = [t \in Target |-> MappingTimeout]]
    /\ Obtained(id, NewSession(loop.peer))

OpenFails ==
    /\ loop.pc = "get" /\ sessions[loop.peer] = None /\ SendMayFail
    /\ loop' = Idle
    /\ UNCHANGED <<sessions, session, gauge, mapping>>

-----------------------------------------------------------------------------
(* try_send_udp and send_to_target, then the rest of handle_datagram.      *)

NeedHeader == Raknet /\ Haproxy /\ ~session[loop.session].header_sent

\* The session after a datagram left for the current target: touch, mark_established.
Sent(s, arrives) ==
    [s EXCEPT !.header_sent = @ \/ NeedHeader,
              !.target = loop.index, !.idle = 0,
              !.established = IF Raknet /\ loop.kind = "frame" /\ @ = NotEstablished
                              THEN 0 ELSE @,
              !.trouble = @ \/ ~arrives]

\* The datagram leaves; touch, mark_established and the connect notice follow without an
\* await before the touch.
Send(arrives) ==
    /\ loop.pc = "send"
    /\ arrives \/ LossMayHappen
    /\ LET id == loop.session  t == loop.index IN
       /\ session' = [session EXCEPT ![id] = Dropped(Sent(session[id], arrives))]
       /\ mapping' = IF arrives /\ (NeedHeader \/ Mapped(id, t))
                     THEN [mapping EXCEPT ![id][t] = 0] ELSE mapping
    /\ loop' = Idle
    /\ UNCHANGED <<sessions, gauge>>

HasNextTarget == loop.index < Targets

\* The lookup or the send fails: the header is due again, for the next target or,
\* when there is none, for the next datagram.
SendFails ==
    /\ loop.pc = "send" /\ SendMayFail
    /\ LET s == [session[loop.session] EXCEPT !.header_sent = FALSE, !.trouble = TRUE] IN
       \/ /\ HasNextTarget
          /\ session' = [session EXCEPT ![loop.session] = s]
          /\ loop' = [loop EXCEPT !.index = @ + 1]
       \/ /\ ~HasNextTarget
          /\ session' = [session EXCEPT ![loop.session] = Dropped(s)]
          /\ loop' = Idle
    /\ UNCHANGED <<sessions, gauge, mapping>>

-----------------------------------------------------------------------------
(* spawn_backend_recv: the task of a session.                              *)

\* A datagram from the backend goes to the peer (a pong also fills the cache).  The
\* backend uses its mapping to send, and has nobody to send to without one.
BackendAnswers(id) ==
    /\ session[id].task = "recv"
    /\ Raknet /\ Haproxy => \E t \in Target : Mapped(id, t)
    /\ session' = [session EXCEPT ![id].idle = 0]
    /\ mapping' = [mapping EXCEPT ![id] =
                      [t \in Target |-> IF Mapped(id, t) THEN 0 ELSE mapping[id][t]]]
    /\ UNCHANGED <<sessions, loop, gauge>>

\* The upstream socket or the send to the peer fails.
RecvBreaks(id) ==
    /\ session[id].task = "recv" /\ SendMayFail
    /\ session' = [session EXCEPT ![id].task = "remove"]
    /\ UNCHANGED <<sessions, loop, gauge, mapping>>

IdleExpired_never(s) == FALSE

IdleExpired(s) == s.idle >= IdleBudget

\* The one-second poll finds the session idle; the disconnect notice is awaited.
IdleTimeout(id) ==
    /\ session[id].task = "recv" /\ IdleExpired(session[id])
    /\ session' = [session EXCEPT ![id].task = "notify"]
    /\ UNCHANGED <<sessions, loop, gauge, mapping>>

NotifiedDisconnect(id) ==
    /\ session[id].task = "notify"
    /\ session' = [session EXCEPT ![id].task = "remove"]
    /\ UNCHANGED <<sessions, loop, gauge, mapping>>

\* The task takes the entry of its peer out of the map, whichever session that is.
Remove(id) ==
    /\ session[id].task = "remove"
    /\ sessions' = [sessions EXCEPT ![session[id].peer] = None]
    /\ gauge' = Closed(sessions[session[id].peer])
    /\ session' = [session EXCEPT ![id] = Ended(id)]
    /\ UNCHANGED <<loop, mapping>>

-----------------------------------------------------------------------------

Older(age, cap) == IF age < cap THEN age + 1 ELSE age

\* Time passes, except while a datagram is handed to the kernel: a send takes far
\* less than a tick.  Nobody reads the clocks of a session whose task is dead.
Tick ==
    /\ loop.pc # "send"
    /\ session' = [s \in Session |->
          IF session[s].task = "dead" THEN session[s]
          ELSE [session[s] EXCEPT !.idle = Older(@, IdleBudget),
                                  !.established = IF @ = NotEstablished THEN @
                                                  ELSE Older(@, EstablishedGrace)]]
    /\ mapping' = [s \in Session |->
          IF session[s].task = "dead" THEN mapping[s]
          ELSE [t \in Target |-> Older(mapping[s][t], MappingTimeout)]]
    /\ UNCHANGED <<sessions, loop, gauge>>

LoopStep == \/ Reset \/ GetExisting \/ OpenFails \/ SendFails
            \/ \E id \in Session : OpenSession(id)
            \/ \E arrives \in BOOLEAN : Send(arrives)

TaskStep(id) == IdleTimeout(id) \/ NotifiedDisconnect(id) \/ Remove(id)

Next ==
    \/ \E p \in Peer, kind \in Kind : Datagram(p, kind)
    \/ LoopStep
    \/ \E id \in Session : TaskStep(id) \/ RecvBreaks(id) \/ BackendAnswers(id)
    \/ Tick

Spec == Init /\ [][Next]_vars

\* Tokio runs what is runnable and time passes; nothing obliges a peer or a backend
\* to send, or a socket to break.  Time passes however often a datagram is being sent,
\* hence strong fairness of Tick.
Fairness == WF_vars(LoopStep) /\ SF_vars(Tick) /\ \A id \in Session : WF_vars(TaskStep(id))

FairSpec == Spec /\ Fairness

-----------------------------------------------------------------------------
(* Properties.                                                             *)

\* Type correctness.
TypeOK ==
    /\ sessions \in [Peer -> Session \cup {None}]
    /\ session \in [Session ->
          [peer : Peer \cup {None}, task : {"recv", "notify", "remove", "dead"},
           idle : 0 .. IdleBudget, established : NotEstablished .. EstablishedGrace,
           header_sent : BOOLEAN, target : Target, trouble : BOOLEAN]]
    /\ loop \in [pc : {"recv", "reset", "get", "send"}, peer : Peer \cup {None}, kind : Kind,
                 session : Session \cup {None}, index : Target]
    /\ gauge \in Int
    /\ mapping \in [Session -> [Target -> 0 .. MappingTimeout]]

\* A peer in the map has a task that carries answers to it or is about to take it
\* out: resets, failing sockets and idle time-outs never leave an entry behind
\* that swallows a peer's datagrams.
MapServed ==
    \A p \in Peer : sessions[p] # None =>
        session[sessions[p]].task # "dead" /\ session[sessions[p]].peer = p

\* The session gauge of the metrics is the size of the map, however a session ended.
GaugeMatches == gauge = Cardinality({p \in Peer : sessions[p] # None})

\* A duplicate OpenConnectionRequest1 during a handshake is a retransmission: it
\* never aborts the session.
HandshakeKept ==
    [][\A s \in Session :
          session[s].task = "recv" /\ session[s].established = NotEstablished
             => session'[s].task # "dead"]_vars

\* Proxy and backend agree about the mapping, although each keeps its own clock and
\* the proxy's is also moved by answers: a header goes out exactly when the backend
\* has no mapping for the socket, unless a send failed or a datagram was lost.
HeaderAgrees ==
    loop.pc = "send" /\ Raknet /\ Haproxy /\ ~session[loop.session].trouble
       => NeedHeader = ~Mapped(loop.session, loop.index)

\* "While cached, subsequent datagrams must contain RakNet only": no header goes to
\* a backend that has a mapping for the socket.
NoHeaderIntoMapping ==
    loop.pc = "send" => ~(NeedHeader /\ Mapped(loop.session, loop.index))

\* A session that neither side uses any more ends.
IdleSessionsEnd ==
    \A s \in Session : []<>(session[s].task = "dead" \/ session[s].idle = 0)

\* The session table is sound: the types, a task behind every entry, and the gauge.
SessionsSound == TypeOK /\ MapServed /\ GaugeMatches
=============================================================================
