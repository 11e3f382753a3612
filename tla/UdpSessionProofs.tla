-------------------------- MODULE UdpSessionProofs --------------------------
(***************************************************************************)
(* The session table of the UDP proxy, for any number of peers, sockets    *)
(* and targets, and any time limits in the order the code's constants      *)
(* have.  MapServed and LoopKnown carry each other; ResetIsDue says that   *)
(* the session a reset is about to take has finished its handshake, and    *)
(* ClocksAgree that the proxy's idle clock and the backend's mapping show  *)
(* the same age unless a datagram was lost.                                *)
(***************************************************************************)
EXTENDS UdpSession, FiniteSetTheorems, TLAPS

SessionState ==
    [peer : Peer \cup {None}, task : {"recv", "notify", "remove", "dead"},
     idle : 0 .. IdleBudget, established : NotEstablished .. EstablishedGrace,
     header_sent : BOOLEAN, target : Target, trouble : BOOLEAN]

LoopState ==
    [pc : {"recv", "reset", "get", "send"}, peer : Peer \cup {None}, kind : Kind,
     session : Session \cup {None}, index : Target]

\* A loop that is busy has a peer, and a session exactly when it sends; a task that is not
\* over has a peer.
LoopKnown ==
    /\ loop.pc # "recv" => loop.peer \in Peer
    /\ loop.session # None <=> loop.pc = "send"
    /\ \A s \in Session : session[s].task # "dead" => session[s].peer \in Peer

\* The session that a reset is about to take out of the map has been established, although
\* its task may have removed it since the loop looked.
ResetIsDue ==
    loop.pc = "reset" /\ sessions[loop.peer] # None =>
       session[sessions[loop.peer]].established # NotEstablished

\* Without a loss the mapping of the active target is as old as the session is idle, and no
\* other target has one.
Agreed(s) ==
    ~session[s].trouble =>
       /\ \A t \in Target : t # session[s].target => mapping[s][t] = MappingTimeout
       /\ session[s].header_sent /\ session[s].idle < MappingTimeout =>
             mapping[s][session[s].target] = session[s].idle
       /\ ~session[s].header_sent \/ session[s].idle >= MappingTimeout =>
             mapping[s][session[s].target] = MappingTimeout

\* Both clocks agree for every session that runs or is being sent through; one that is sent
\* through without a header was not idle for long.
ClocksAgree ==
    Raknet /\ Haproxy =>
       /\ \A s \in Session : session[s].task # "dead" \/ loop.session = s => Agreed(s)
       /\ loop.pc = "send" =>
             /\ session[loop.session].header_sent => session[loop.session].idle < MappingTimeout
             /\ ~session[loop.session].trouble => loop.index = session[loop.session].target

-----------------------------------------------------------------------------
(* Types.                                                                  *)

\* The records the code puts in the session table have the type of a session.
LEMMA RecordTypes ==
    /\ \A p \in Peer \cup {None} : /\ NewSession(p) \in SessionState
                                   /\ NewSession(p).peer = p /\ NewSession(p).task = "recv"
                                   /\ NewSession(p).idle = 0 /\ ~NewSession(p).header_sent
                                   /\ NewSession(p).target = 1 /\ ~NewSession(p).trouble
                                   /\ NewSession(p).header_sent = FALSE
                                   /\ NewSession(p).trouble = FALSE
    /\ Gone \in SessionState /\ Gone.task = "dead"
    /\ Idle \in LoopState /\ Idle.pc = "recv" /\ Idle.session = None
<1>1. 1 \in Target /\ 0 \in 0 .. IdleBudget /\ NotEstablished \in NotEstablished .. EstablishedGrace
  BY UdpSessionAssumption DEF Target, NotEstablished
<1>2. \A p \in Peer \cup {None} : NewSession(p) \in SessionState
  BY <1>1, Zenon DEF NewSession, SessionState
<1>3. Gone \in SessionState /\ Gone.task = "dead"
  BY <1>1, <1>2, Zenon DEF Gone, NewSession, SessionState
<1>4. Idle \in LoopState /\ Idle.pc = "recv" /\ Idle.session = None
  BY <1>1, Zenon DEF Idle, LoopState, Kind
<1> QED
  BY <1>2, <1>3, <1>4, Zenon DEF NewSession

\* What a send does to the session it goes through.
LEMMA SentEffect ==
    ASSUME TypeOK, NEW s \in SessionState, NEW arrives \in BOOLEAN
    PROVE  /\ Sent(s, arrives) \in SessionState
           /\ Sent(s, arrives).peer = s.peer /\ Sent(s, arrives).task = s.task
           /\ Sent(s, arrives).header_sent = (s.header_sent \/ NeedHeader)
           /\ Sent(s, arrives).target = loop.index /\ Sent(s, arrives).idle = 0
           /\ Sent(s, arrives).trouble = (s.trouble \/ ~arrives)
           /\ s.established # NotEstablished => Sent(s, arrives).established # NotEstablished
<1> DEFINE e == IF Raknet /\ loop.kind = "frame" /\ s.established = NotEstablished
                THEN 0 ELSE s.established
           h == s.header_sent \/ NeedHeader
           w == s.trouble \/ ~arrives
<1>1. e \in NotEstablished .. EstablishedGrace
  BY UdpSessionAssumption DEF SessionState, NotEstablished
<1>2. s.established # NotEstablished => e # NotEstablished
  BY Zenon
<1>3. h \in BOOLEAN /\ w \in BOOLEAN
  BY Zenon
<1>4. 0 \in 0 .. IdleBudget /\ loop.index \in Target
  BY UdpSessionAssumption DEF TypeOK
<1>5. Sent(s, arrives) = [s EXCEPT !.header_sent = h, !.target = loop.index, !.idle = 0,
                                   !.established = e, !.trouble = w]
  BY Zenon DEF Sent
<1> HIDE DEF e, h, w
<1>6. Sent(s, arrives) = [peer |-> s.peer, task |-> s.task, idle |-> 0, established |-> e,
                          header_sent |-> h, target |-> loop.index, trouble |-> w]
  BY <1>5, Zenon DEF SessionState
<1>7. s.peer \in Peer \cup {None} /\ s.task \in {"recv", "notify", "remove", "dead"}
  BY Zenon DEF SessionState
<1>8. Sent(s, arrives) \in SessionState
  BY <1>1, <1>3, <1>4, <1>6, <1>7 DEF SessionState
<1> QED
  BY <1>2, <1>6, <1>8 DEF h, w

\* The types of the session table and of the loop, by name.
LEMMA Named ==
    ASSUME TypeOK
    PROVE  /\ session \in [Session -> SessionState] /\ loop \in LoopState
           /\ sessions \in [Peer -> Session \cup {None}]
           /\ mapping \in [Session -> [Target -> 0 .. MappingTimeout]]
BY Zenon DEF TypeOK, SessionState, LoopState

\* A session whose task is over keeps its other fields as long as the loop holds it.
LEMMA EndedEffect ==
    ASSUME TypeOK, NEW id \in Session
    PROVE  /\ Ended(id) \in SessionState /\ Ended(id).task = "dead"
           /\ loop.session = id =>
                 /\ Ended(id).header_sent = session[id].header_sent
                 /\ Ended(id).idle = session[id].idle /\ Ended(id).target = session[id].target
                 /\ Ended(id).trouble = session[id].trouble
                 /\ Ended(id).established = session[id].established
<1>1. session[id] \in SessionState
  BY Named, Zenon
<1>2. Gone \in SessionState /\ Gone.task = "dead"
  BY RecordTypes, Zenon
<1> DEFINE e == [session[id] EXCEPT !.task = "dead"]
<1>3. /\ e \in SessionState /\ e.task = "dead" /\ e.header_sent = session[id].header_sent
      /\ e.idle = session[id].idle /\ e.target = session[id].target
      /\ e.trouble = session[id].trouble /\ e.established = session[id].established
  BY <1>1, Zenon DEF SessionState
<1>4. Ended(id) = IF loop.session = id THEN e ELSE Gone
  BY Zenon DEF Ended
<1> HIDE DEF e
<1> QED
  BY <1>2, <1>3, <1>4, Zenon

\* handle_datagram goes on with a session: the header may be due again, nothing else changes.
LEMMA ObtainedEffect ==
    ASSUME TypeOK, NEW id \in Session, NEW s \in SessionState, Obtained(id, s)
    PROVE  /\ session' \in [Session -> SessionState] /\ loop' \in LoopState
           /\ \A c \in Session : c # id => session'[c] = session[c]
           /\ session'[id].peer = s.peer /\ session'[id].task = s.task
           /\ session'[id].idle = s.idle /\ session'[id].established = s.established
           /\ session'[id].target = s.target /\ session'[id].trouble = s.trouble
           /\ session'[id].header_sent = Rearmed(s, loop.kind)
           /\ loop'.pc = "send" /\ loop'.peer = loop.peer /\ loop'.session = id
           /\ loop'.index = s.target
<1>1. session \in [Session -> SessionState] /\ loop \in LoopState
  BY Named, Zenon
<1>2. Rearmed(s, loop.kind) \in BOOLEAN
  BY Zenon DEF Rearmed, SessionState
<1> DEFINE e == [s EXCEPT !.header_sent = Rearmed(s, loop.kind)]
<1>3. /\ e \in SessionState /\ e.peer = s.peer /\ e.task = s.task /\ e.idle = s.idle
      /\ e.established = s.established /\ e.target = s.target /\ e.trouble = s.trouble
      /\ e.header_sent = Rearmed(s, loop.kind)
  BY <1>2, Zenon DEF SessionState
<1>4. session' = [session EXCEPT ![id] = e]
  BY Zenon DEF Obtained
<1> HIDE DEF e
<1>5. session' \in [Session -> SessionState] /\ session'[id] = e
      /\ \A c \in Session : c # id => session'[c] = session[c]
  BY <1>1, <1>3, <1>4, Zenon
<1>6. s.target \in Target
  BY Zenon DEF SessionState
<1>7. loop' = [loop EXCEPT !.pc = "send", !.session = id, !.index = s.target]
  BY Zenon DEF Obtained
<1>8. /\ loop' \in LoopState /\ loop'.pc = "send" /\ loop'.peer = loop.peer
      /\ loop'.session = id /\ loop'.index = s.target
  BY <1>1, <1>6, <1>7, Zenon DEF LoopState
<1> QED
  BY <1>3, <1>5, <1>8, Zenon

\* What a send does to the table: only the loop's session changes, and it is forgotten if its
\* task is over.
LEMMA SendEffect ==
    ASSUME TypeOK, LoopKnown, NEW arrives \in BOOLEAN, Send(arrives)
    PROVE  /\ loop.session \in Session /\ loop' = Idle
           /\ session' \in [Session -> SessionState]
           /\ \A c \in Session : c # loop.session => session'[c] = session[c]
           /\ session'[loop.session] = IF session[loop.session].task = "dead" THEN Gone
                                       ELSE Sent(session[loop.session], arrives)
           /\ session'[loop.session].task = session[loop.session].task
<1>1. session \in [Session -> SessionState] /\ loop \in LoopState
  BY Named, Zenon
<1>2. loop.session \in Session
  BY <1>1, Zenon DEF LoopKnown, LoopState, Send
<1> PICK id \in Session : id = loop.session
  BY <1>2, Zenon
<1>3. session[id] \in SessionState
  BY <1>1, Zenon
<1> DEFINE e == Dropped(Sent(session[id], arrives))
<1>4. Sent(session[id], arrives) \in SessionState
      /\ Sent(session[id], arrives).task = session[id].task
  BY <1>3, SentEffect
<1>5. e = IF session[id].task = "dead" THEN Gone ELSE Sent(session[id], arrives)
  BY <1>4, Zenon DEF Dropped
<1>6. e \in SessionState /\ e.task = session[id].task
  BY <1>4, <1>5, RecordTypes, Zenon
<1>7. session' = [session EXCEPT ![id] = e] /\ loop' = Idle
  BY Zenon DEF Send
<1> HIDE DEF e
<1> QED
  BY <1>1, <1>5, <1>6, <1>7, Zenon

\* What a failing send does to the table.
LEMMA SendFailsEffect ==
    ASSUME TypeOK, LoopKnown, SendFails
    PROVE  /\ loop.session \in Session
           /\ session' \in [Session -> SessionState] /\ loop' \in LoopState
           /\ \A c \in Session : c # loop.session => session'[c] = session[c]
           /\ session'[loop.session].task = session[loop.session].task
           /\ \/ /\ session'[loop.session] = Gone /\ session[loop.session].task = "dead"
                 /\ loop' = Idle
              \/ /\ session'[loop.session].peer = session[loop.session].peer
                 /\ session'[loop.session].established = session[loop.session].established
                 /\ session'[loop.session].trouble = TRUE
                 /\ session'[loop.session].header_sent = FALSE
                 /\ \/ loop' = Idle
                    \/ /\ loop'.pc = "send" /\ loop'.peer = loop.peer
                       /\ loop'.session = loop.session
<1>1. session \in [Session -> SessionState] /\ loop \in LoopState
  BY Named, Zenon
<1>2. loop.session \in Session
  BY <1>1, Zenon DEF LoopKnown, LoopState, SendFails
<1> PICK id \in Session : id = loop.session
  BY <1>2, Zenon
<1>3. session[id] \in SessionState
  BY <1>1, Zenon
<1> DEFINE e == [session[id] EXCEPT !.header_sent = FALSE, !.trouble = TRUE]
<1>4. /\ e \in SessionState /\ e.task = session[id].task /\ e.peer = session[id].peer
      /\ e.established = session[id].established /\ e.trouble = TRUE
      /\ e.header_sent = FALSE
  BY <1>3, Zenon DEF SessionState
<1>5. \/ /\ HasNextTarget /\ session' = [session EXCEPT ![id] = e]
         /\ loop' = [loop EXCEPT !.index = @ + 1]
      \/ /\ session' = [session EXCEPT ![id] = Dropped(e)] /\ loop' = Idle
  BY Zenon DEF SendFails
<1> HIDE DEF e
<1>6. CASE /\ HasNextTarget /\ session' = [session EXCEPT ![id] = e]
           /\ loop' = [loop EXCEPT !.index = @ + 1]
  <2>1. loop.index + 1 \in Target
    BY <1>1, <1>6, UdpSessionAssumption DEF HasNextTarget, Target, LoopState
  <2>2. loop' = [loop EXCEPT !.index = loop.index + 1]
    BY <1>6, Zenon
  <2>3. /\ loop' \in LoopState /\ loop'.pc = loop.pc /\ loop'.peer = loop.peer
        /\ loop'.session = loop.session
    BY <1>1, <2>1, <2>2, Zenon DEF LoopState
  <2>4. loop.pc = "send"
    BY Zenon DEF SendFails
  <2>5. session' \in [Session -> SessionState] /\ session'[id] = e
        /\ \A c \in Session : c # id => session'[c] = session[c]
    BY <1>1, <1>4, <1>6, Zenon
  <2> QED
    BY <1>2, <1>4, <2>3, <2>4, <2>5, Zenon
<1>7. CASE session' = [session EXCEPT ![id] = Dropped(e)] /\ loop' = Idle
  <2>1. Dropped(e) = IF session[id].task = "dead" THEN Gone ELSE e
    BY <1>4, Zenon DEF Dropped
  <2>2. Dropped(e) \in SessionState /\ Dropped(e).task = session[id].task
    BY <1>4, <2>1, RecordTypes, Zenon
  <2>3. session' \in [Session -> SessionState] /\ session'[id] = Dropped(e)
        /\ \A c \in Session : c # id => session'[c] = session[c]
    BY <1>1, <1>7, <2>2, Zenon
  <2> QED
    BY <1>2, <1>4, <1>7, <2>1, <2>2, <2>3, RecordTypes, Zenon
<1> QED
  BY <1>5, <1>6, <1>7, Zenon

\* What the passing of time does to a session: the clocks move, the rest stays.
LEMMA TickEffect ==
    ASSUME TypeOK, Tick
    PROVE  /\ session' \in [Session -> SessionState]
           /\ mapping' \in [Session -> [Target -> 0 .. MappingTimeout]]
           /\ \A c \in Session :
                 /\ session'[c].peer = session[c].peer /\ session'[c].task = session[c].task
                 /\ session'[c].header_sent = session[c].header_sent
                 /\ session'[c].target = session[c].target
                 /\ session'[c].trouble = session[c].trouble
                 /\ session[c].established # NotEstablished =>
                       session'[c].established # NotEstablished
                 /\ session[c].task # "dead" =>
                       /\ session'[c].idle = Older(session[c].idle, IdleBudget)
                       /\ \A t \in Target :
                             mapping'[c][t] = Older(mapping[c][t], MappingTimeout)
<1>1. session \in [Session -> SessionState]
      /\ mapping \in [Session -> [Target -> 0 .. MappingTimeout]]
  BY Named, Zenon
<1> DEFINE a(c) == Older(session[c].idle, IdleBudget)
           e(c) == IF session[c].established = NotEstablished THEN session[c].established
                   ELSE Older(session[c].established, EstablishedGrace)
           f(c) == IF session[c].task = "dead" THEN session[c]
                   ELSE [session[c] EXCEPT !.idle = a(c), !.established = e(c)]
           m(c) == IF session[c].task = "dead" THEN mapping[c]
                   ELSE [t \in Target |-> Older(mapping[c][t], MappingTimeout)]
<1>2. session' = [c \in Session |-> f(c)] /\ mapping' = [c \in Session |-> m(c)]
  BY Zenon DEF Tick
<1>3. ASSUME NEW c \in Session
      PROVE  /\ f(c) \in SessionState /\ f(c).peer = session[c].peer
             /\ f(c).task = session[c].task /\ f(c).header_sent = session[c].header_sent
             /\ f(c).target = session[c].target /\ f(c).trouble = session[c].trouble
             /\ session[c].established # NotEstablished => f(c).established # NotEstablished
             /\ session[c].task # "dead" => f(c).idle = a(c)
  <2>1. session[c] \in SessionState
    BY <1>1, Zenon
  <2>2. a(c) \in 0 .. IdleBudget
    BY <2>1, UdpSessionAssumption DEF SessionState, Older
  <2>3. e(c) \in NotEstablished .. EstablishedGrace
        /\ (session[c].established # NotEstablished => e(c) # NotEstablished)
    BY <2>1, UdpSessionAssumption DEF SessionState, Older, NotEstablished
  <2> HIDE DEF a, e
  <2>4. CASE session[c].task = "dead"
    BY <2>1, <2>4, Zenon
  <2>5. CASE session[c].task # "dead"
    BY <2>1, <2>2, <2>3, <2>5, Zenon DEF SessionState
  <2> QED
    BY <2>4, <2>5, Zenon
<1>4. ASSUME NEW c \in Session
      PROVE  m(c) \in [Target -> 0 .. MappingTimeout]
  <2>1. mapping[c] \in [Target -> 0 .. MappingTimeout]
    BY <1>1, Zenon
  <2>2. \A t \in Target : Older(mapping[c][t], MappingTimeout) \in 0 .. MappingTimeout
    BY <2>1, UdpSessionAssumption DEF Older
  <2> QED
    BY <2>1, <2>2, Zenon
<1>5. \A c \in Session : session[c].task # "dead" =>
          \A t \in Target : m(c)[t] = Older(mapping[c][t], MappingTimeout)
  BY Zenon
<1> HIDE DEF f, m
<1>6. session' \in [Session -> SessionState] /\ \A c \in Session : session'[c] = f(c)
  BY <1>2, <1>3, Zenon
<1>7. mapping' \in [Session -> [Target -> 0 .. MappingTimeout]]
      /\ \A c \in Session : mapping'[c] = m(c)
  BY <1>2, <1>4, Zenon
<1> QED
  BY <1>3, <1>5, <1>6, <1>7

\* What a step of a session's task, other than its removal, does.
LEMMA TaskEffect ==
    ASSUME TypeOK, NEW id \in Session,
           \/ IdleTimeout(id) \/ NotifiedDisconnect(id) \/ RecvBreaks(id) \/ BackendAnswers(id)
    PROVE  /\ session' \in [Session -> SessionState]
           /\ mapping' \in [Session -> [Target -> 0 .. MappingTimeout]]
           /\ UNCHANGED <<sessions, loop, gauge>>
           /\ \A c \in Session : c # id => session'[c] = session[c] /\ mapping'[c] = mapping[c]
           /\ session[id].task # "dead" /\ session'[id].task # "dead"
           /\ session'[id].peer = session[id].peer
           /\ session'[id].established = session[id].established
           /\ session'[id].header_sent = session[id].header_sent
           /\ session'[id].target = session[id].target
           /\ session'[id].trouble = session[id].trouble
           /\ \/ session'[id].idle = session[id].idle /\ mapping'[id] = mapping[id]
              \/ BackendAnswers(id) /\ session'[id].idle = 0
<1>1. session \in [Session -> SessionState] /\ session[id] \in SessionState
      /\ mapping \in [Session -> [Target -> 0 .. MappingTimeout]]
  BY Named, Zenon
<1>2. CASE IdleTimeout(id) \/ NotifiedDisconnect(id) \/ RecvBreaks(id)
  <2>1. PICK k \in {"notify", "remove"} : session' = [session EXCEPT ![id].task = k]
    BY <1>2, Zenon DEF IdleTimeout, NotifiedDisconnect, RecvBreaks
  <2>2. mapping' = mapping /\ UNCHANGED <<sessions, loop, gauge>> /\ session[id].task # "dead"
    BY <1>2, Zenon DEF IdleTimeout, NotifiedDisconnect, RecvBreaks
  <2> DEFINE e == [session[id] EXCEPT !.task = k]
  <2>3. /\ e \in SessionState /\ e.task = k /\ e.peer = session[id].peer
        /\ e.established = session[id].established /\ e.header_sent = session[id].header_sent
        /\ e.target = session[id].target /\ e.trouble = session[id].trouble
        /\ e.idle = session[id].idle
    BY <1>1, Zenon DEF SessionState
  <2>4. session' = [session EXCEPT ![id] = e]
    BY <1>1, <2>1, Zenon
  <2> HIDE DEF e
  <2> QED
    BY <1>1, <2>2, <2>3, <2>4, Zenon
<1>3. CASE BackendAnswers(id)
  <2>1. session' = [session EXCEPT ![id].idle = 0]
    BY <1>3, Zenon DEF BackendAnswers
  <2>2. UNCHANGED <<sessions, loop, gauge>> /\ session[id].task = "recv"
    BY <1>3, Zenon DEF BackendAnswers
  <2> DEFINE e == [session[id] EXCEPT !.idle = 0]
             m == [t \in Target |-> IF Mapped(id, t) THEN 0 ELSE mapping[id][t]]
  <2>3. /\ e \in SessionState /\ e.task = session[id].task /\ e.peer = session[id].peer
        /\ e.established = session[id].established /\ e.header_sent = session[id].header_sent
        /\ e.target = session[id].target /\ e.trouble = session[id].trouble
        /\ e.idle = 0
    <3>1. 0 \in 0 .. IdleBudget
      BY UdpSessionAssumption
    <3> QED
      BY <1>1, <3>1, Zenon DEF SessionState
  <2>4. session' = [session EXCEPT ![id] = e]
    BY <1>1, <2>1, Zenon
  <2>5. m \in [Target -> 0 .. MappingTimeout]
    BY <1>1, UdpSessionAssumption
  <2>6. mapping' = [mapping EXCEPT ![id] = m]
    BY <1>3, Zenon DEF BackendAnswers
  <2> HIDE DEF e, m
  <2> QED
    BY <1>1, <1>3, <2>2, <2>3, <2>4, <2>5, <2>6, Zenon
<1> QED
  BY <1>2, <1>3, Zenon

\* What a reset does: the peer's entry goes, and the task behind it may be aborted.
LEMMA ResetEffect ==
    ASSUME TypeOK, LoopKnown, Reset
    PROVE  /\ loop.peer \in Peer /\ loop.session = None
           /\ session' \in [Session -> SessionState] /\ loop' \in LoopState
           /\ loop'.pc = "get" /\ loop'.peer = loop.peer /\ loop'.session = None
           /\ sessions' = [sessions EXCEPT ![loop.peer] = None]
           /\ mapping' = mapping /\ gauge' = Closed(sessions[loop.peer])
           /\ \A c \in Session : c # sessions[loop.peer] => session'[c] = session[c]
           /\ \A c \in Session : session'[c] = session[c] \/ session'[c].task = "dead"
<1>1. session \in [Session -> SessionState] /\ loop \in LoopState
      /\ sessions \in [Peer -> Session \cup {None}]
  BY Named, Zenon
<1>2. loop.peer \in Peer /\ loop.session = None
  BY <1>1, Zenon DEF LoopKnown, LoopState, Reset
<1>3. loop' = [loop EXCEPT !.pc = "get"]
  BY Zenon DEF Reset
<1>4. loop' \in LoopState /\ loop'.pc = "get" /\ loop'.peer = loop.peer /\ loop'.session = None
  BY <1>1, <1>2, <1>3, Zenon DEF LoopState
<1>5. sessions' = [sessions EXCEPT ![loop.peer] = None] /\ mapping' = mapping
      /\ gauge' = Closed(sessions[loop.peer])
  BY Zenon DEF Reset, MapAfterReset
<1>6. sessions[loop.peer] \in Session \cup {None}
  BY <1>1, <1>2, Zenon
<1>7. CASE session' = session
  BY <1>1, <1>2, <1>4, <1>5, <1>7, Zenon
<1>8. CASE session' # session
  <2>1. sessions[loop.peer] \in Session
        /\ session' = [session EXCEPT ![sessions[loop.peer]] = Ended(sessions[loop.peer])]
    BY <1>6, <1>8, Zenon DEF Reset
  <2>2. Ended(sessions[loop.peer]) \in SessionState /\ Ended(sessions[loop.peer]).task = "dead"
    BY <2>1, EndedEffect, Zenon
  <2> QED
    BY <1>1, <1>2, <1>4, <1>5, <2>1, <2>2, Zenon
<1> QED
  BY <1>7, <1>8, Zenon

\* What the end of a session's task does.
LEMMA RemoveEffect ==
    ASSUME TypeOK, LoopKnown, NEW id \in Session, Remove(id)
    PROVE  /\ session[id].peer \in Peer /\ session[id].task = "remove"
           /\ session' \in [Session -> SessionState]
           /\ sessions' = [sessions EXCEPT ![session[id].peer] = None]
           /\ gauge' = Closed(sessions[session[id].peer])
           /\ UNCHANGED <<loop, mapping>>
           /\ \A c \in Session : c # id => session'[c] = session[c]
           /\ session'[id] = Ended(id) /\ session'[id].task = "dead"
<1>1. session \in [Session -> SessionState]
  BY Named, Zenon
<1>2. session' = [session EXCEPT ![id] = Ended(id)]
  BY Zenon DEF Remove
<1>3. Ended(id) \in SessionState /\ Ended(id).task = "dead"
  BY EndedEffect, Zenon
<1>4. session[id].peer \in Peer /\ session[id].task = "remove"
  BY Zenon DEF Remove, LoopKnown
<1>5. /\ sessions' = [sessions EXCEPT ![session[id].peer] = None]
      /\ gauge' = Closed(sessions[session[id].peer]) /\ UNCHANGED <<loop, mapping>>
  BY Zenon DEF Remove
<1> QED
  BY <1>1, <1>2, <1>3, <1>4, <1>5, Zenon

\* What the arrival of a datagram does.
LEMMA DatagramEffect ==
    ASSUME TypeOK, NEW p \in Peer, NEW kind \in Kind, Datagram(p, kind)
    PROVE  /\ loop' \in LoopState /\ loop'.peer = p /\ loop'.session = None
           /\ loop'.pc \in {"reset", "get"} /\ loop.pc = "recv"
           /\ loop'.pc = "reset" => ShouldReset(p, kind)
           /\ UNCHANGED <<sessions, session, gauge, mapping>>
<1>1. Idle \in LoopState /\ Idle.session = None
  BY RecordTypes, Zenon
<1> DEFINE k == IF ShouldReset(p, kind) THEN "reset" ELSE "get"
<1>2. loop' = [Idle EXCEPT !.pc = k, !.peer = p, !.kind = kind]
  BY Zenon DEF Datagram
<1>3. k \in {"reset", "get"} /\ (k = "reset" => ShouldReset(p, kind))
  BY Zenon
<1> HIDE DEF k
<1>4. loop' \in LoopState /\ loop'.peer = p /\ loop'.session = None /\ loop'.pc = k
  BY <1>1, <1>2, <1>3, Zenon DEF LoopState
<1> QED
  BY <1>3, <1>4, Zenon DEF Datagram

-----------------------------------------------------------------------------
(* The session table is sound.                                             *)

\* The invariants hold initially.
LEMMA SessionInit ==
    ASSUME Init
    PROVE  TypeOK /\ LoopKnown /\ MapServed /\ GaugeMatches /\ ResetIsDue /\ ClocksAgree
<1>1. Gone \in SessionState /\ Gone.task = "dead" /\ Idle \in LoopState /\ Idle.pc = "recv"
      /\ Idle.session = None
  BY RecordTypes, Zenon
<1>2. session \in [Session -> SessionState] /\ \A s \in Session : session[s] = Gone
  BY <1>1, Zenon DEF Init
<1>3. loop = Idle /\ gauge = 0 /\ \A p \in Peer : sessions[p] = None
  BY Zenon DEF Init
<1>4. mapping \in [Session -> [Target -> 0 .. MappingTimeout]]
  BY UdpSessionAssumption DEF Init
<1>5. TypeOK
  BY <1>1, <1>2, <1>3, <1>4 DEF Init, TypeOK, SessionState, LoopState
<1>6. LoopKnown /\ MapServed /\ ResetIsDue
  BY <1>1, <1>2, <1>3, Zenon DEF LoopKnown, MapServed, ResetIsDue
<1>7. {p \in Peer : sessions[p] # None} = {}
  BY <1>3, Zenon
<1>8. GaugeMatches
  BY <1>3, <1>7, FS_EmptySet, Zenon DEF GaugeMatches
<1>9. ClocksAgree
  <2>1. \A s \in Session : session[s].task = "dead" /\ loop.session # s
    BY <1>1, <1>2, <1>3, UdpSessionAssumption, Zenon
  <2> QED
    BY <1>1, <1>3, <2>1, Zenon DEF ClocksAgree
<1> QED
  BY <1>5, <1>6, <1>8, <1>9, Zenon

\* Every step keeps the types.
LEMMA TypeStep ==
    ASSUME TypeOK, LoopKnown, [Next]_vars
    PROVE  TypeOK'
<1>0. /\ session \in [Session -> SessionState] /\ loop \in LoopState
      /\ sessions \in [Peer -> Session \cup {None}]
      /\ mapping \in [Session -> [Target -> 0 .. MappingTimeout]]
      /\ gauge \in Int
  BY Named, Zenon DEF TypeOK
<1> SUFFICES /\ session' \in [Session -> SessionState] /\ loop' \in LoopState
             /\ sessions' \in [Peer -> Session \cup {None}]
             /\ mapping' \in [Session -> [Target -> 0 .. MappingTimeout]]
             /\ gauge' \in Int
  BY Zenon DEF TypeOK, SessionState, LoopState
<1>1. ASSUME NEW p \in Peer, NEW kind \in Kind, Datagram(p, kind)
      PROVE  /\ session' \in [Session -> SessionState] /\ loop' \in LoopState
             /\ sessions' \in [Peer -> Session \cup {None}]
             /\ mapping' \in [Session -> [Target -> 0 .. MappingTimeout]]
             /\ gauge' \in Int
  BY <1>0, <1>1, DatagramEffect, Zenon
<1>2. CASE Reset
  BY <1>0, <1>2, ResetEffect DEF Closed
<1>3. CASE GetExisting
  <2>1. loop.peer \in Peer /\ sessions[loop.peer] \in Session
    BY <1>0, <1>3, Zenon DEF GetExisting, LoopKnown
  <2>2. session[sessions[loop.peer]] \in SessionState
    BY <1>0, <2>1, Zenon
  <2>3. Obtained(sessions[loop.peer], session[sessions[loop.peer]])
        /\ UNCHANGED <<sessions, gauge, mapping>>
    BY <1>3, Zenon DEF GetExisting
  <2> QED
    BY <1>0, <2>1, <2>2, <2>3, ObtainedEffect, Zenon
<1>4. ASSUME NEW id \in Session, OpenSession(id)
      PROVE  /\ session' \in [Session -> SessionState] /\ loop' \in LoopState
             /\ sessions' \in [Peer -> Session \cup {None}]
             /\ mapping' \in [Session -> [Target -> 0 .. MappingTimeout]]
             /\ gauge' \in Int
  <2>1. loop.peer \in Peer /\ NewSession(loop.peer) \in SessionState
    BY <1>0, <1>4, RecordTypes, Zenon DEF OpenSession, LoopKnown
  <2>2. Obtained(id, NewSession(loop.peer))
    BY <1>4, Zenon DEF OpenSession
  <2>3. session' \in [Session -> SessionState] /\ loop' \in LoopState
    BY <2>1, <2>2, ObtainedEffect, Zenon
  <2>4. [t \in Target |-> MappingTimeout] \in [Target -> 0 .. MappingTimeout]
    BY UdpSessionAssumption
  <2>5. mapping' = [mapping EXCEPT ![id] = [t \in Target |-> MappingTimeout]]
    BY <1>4, Zenon DEF OpenSession
  <2>6. mapping' \in [Session -> [Target -> 0 .. MappingTimeout]]
    BY <1>0, <2>4, <2>5, Zenon
  <2> QED
    BY <1>0, <1>4, <2>1, <2>3, <2>6 DEF OpenSession
<1>5. CASE OpenFails
  BY <1>0, <1>5, RecordTypes, Zenon DEF OpenFails
<1>6. ASSUME NEW arrives \in BOOLEAN, Send(arrives)
      PROVE  /\ session' \in [Session -> SessionState] /\ loop' \in LoopState
             /\ sessions' \in [Peer -> Session \cup {None}]
             /\ mapping' \in [Session -> [Target -> 0 .. MappingTimeout]]
             /\ gauge' \in Int
  <2>1. session' \in [Session -> SessionState] /\ loop' \in LoopState
        /\ loop.session \in Session
    BY <1>6, SendEffect, RecordTypes, Zenon
  <2>2. loop.index \in Target /\ 0 \in 0 .. MappingTimeout
    BY <1>0, UdpSessionAssumption DEF LoopState
  <2>3. \/ mapping' = mapping
        \/ mapping' = [mapping EXCEPT ![loop.session][loop.index] = 0]
    BY <1>6, Zenon DEF Send
  <2>4. mapping' \in [Session -> [Target -> 0 .. MappingTimeout]]
    BY <1>0, <2>1, <2>2, <2>3
  <2> QED
    BY <1>0, <1>6, <2>1, <2>4, Zenon DEF Send
<1>7. CASE SendFails
  BY <1>0, <1>7, SendFailsEffect, Zenon DEF SendFails
<1>8. ASSUME NEW id \in Session, TaskStep(id) \/ RecvBreaks(id) \/ BackendAnswers(id)
      PROVE  /\ session' \in [Session -> SessionState] /\ loop' \in LoopState
             /\ sessions' \in [Peer -> Session \cup {None}]
             /\ mapping' \in [Session -> [Target -> 0 .. MappingTimeout]]
             /\ gauge' \in Int
  <2>1. CASE Remove(id)
    BY <1>0, <2>1, RemoveEffect, SMTT(30) DEF Closed
  <2>2. CASE IdleTimeout(id) \/ NotifiedDisconnect(id) \/ RecvBreaks(id) \/ BackendAnswers(id)
    BY <1>0, <2>2, TaskEffect, Zenon
  <2> QED
    BY <1>8, <2>1, <2>2, Zenon DEF TaskStep
<1>9. CASE Tick
  BY <1>0, <1>9, TickEffect, Zenon DEF Tick
<1>10. CASE UNCHANGED vars
  BY <1>0, <1>10, Zenon DEF vars
<1> QED
  BY <1>1, <1>2, <1>3, <1>4, <1>5, <1>6, <1>7, <1>8, <1>9, <1>10, Zenon DEF Next, LoopStep

\* How a step changes the table seen from one session: a session that runs after the step ran
\* before it for the same peer, or was opened for the loop's peer; one that ends was taken out
\* of the map by this very step; an established one stays so while it runs.
Opened(c) ==
    /\ OpenSession(c) /\ loop.peer \in Peer /\ session'[c].task = "recv"
    /\ session'[c].peer = loop.peer

Kept(c) ==
    /\ session'[c].task # "dead" => session[c].task # "dead"
    /\ session[c].task # "dead" /\ session'[c].task # "dead" =>
          /\ session'[c].peer = session[c].peer
          /\ session[c].established # NotEstablished => session'[c].established # NotEstablished

\* Every session is opened or kept.
LEMMA SessionKept ==
    ASSUME TypeOK, LoopKnown, [Next]_vars, NEW c \in Session
    PROVE  Opened(c) \/ Kept(c)
<1>0. /\ session \in [Session -> SessionState] /\ loop \in LoopState
      /\ sessions \in [Peer -> Session \cup {None}]
  BY Named, Zenon
<1>1. ASSUME NEW p \in Peer, NEW kind \in Kind, Datagram(p, kind)
      PROVE  Kept(c)
  BY <1>1, Zenon DEF Datagram, Kept
<1>2. CASE Reset
  BY <1>2, ResetEffect, Zenon DEF Kept
<1>3. CASE GetExisting
  <2>1. loop.peer \in Peer /\ sessions[loop.peer] \in Session
    BY <1>0, <1>3, Zenon DEF GetExisting, LoopKnown
  <2>2. session[sessions[loop.peer]] \in SessionState
    BY <1>0, <2>1, Zenon
  <2>3. Obtained(sessions[loop.peer], session[sessions[loop.peer]])
    BY <1>3, Zenon DEF GetExisting
  <2> QED
    BY <2>1, <2>2, <2>3, ObtainedEffect DEF Kept
<1>4. ASSUME NEW id \in Session, OpenSession(id)
      PROVE  Opened(c) \/ Kept(c)
  <2>1. loop.peer \in Peer /\ NewSession(loop.peer) \in SessionState
        /\ NewSession(loop.peer).peer = loop.peer /\ NewSession(loop.peer).task = "recv"
    BY <1>0, <1>4, RecordTypes, Zenon DEF OpenSession, LoopKnown
  <2>2. Obtained(id, NewSession(loop.peer))
    BY <1>4, Zenon DEF OpenSession
  <2>3. CASE c = id
    BY <1>4, <2>1, <2>2, <2>3, ObtainedEffect, Zenon DEF Opened
  <2>4. CASE c # id
    BY <2>1, <2>2, <2>4, ObtainedEffect, Zenon DEF Kept
  <2> QED
    BY <2>3, <2>4, Zenon
<1>5. CASE OpenFails
  BY <1>5, Zenon DEF OpenFails, Kept
<1>6. ASSUME NEW arrives \in BOOLEAN, Send(arrives)
      PROVE  Kept(c)
  <2>1. CASE c = loop.session
    <3>1. session[c] \in SessionState
      BY <1>0, Zenon
    <3> QED
      BY <1>6, <2>1, <3>1, SendEffect, SentEffect, SMTT(30) DEF Kept
  <2>2. CASE c # loop.session
    BY <1>6, <2>2, SendEffect, Zenon DEF Kept
  <2> QED
    BY <2>1, <2>2, Zenon
<1>7. CASE SendFails
  BY <1>7, SendFailsEffect, Zenon DEF Kept
<1>8. ASSUME NEW id \in Session, TaskStep(id) \/ RecvBreaks(id) \/ BackendAnswers(id)
      PROVE  Kept(c)
  <2>1. CASE Remove(id)
    BY <2>1, RemoveEffect, Zenon DEF Kept
  <2>2. CASE IdleTimeout(id) \/ NotifiedDisconnect(id) \/ RecvBreaks(id) \/ BackendAnswers(id)
    BY <2>2, TaskEffect, Zenon DEF Kept
  <2> QED
    BY <1>8, <2>1, <2>2, Zenon DEF TaskStep
<1>9. CASE Tick
  BY <1>9, TickEffect, Zenon DEF Kept
<1>10. CASE UNCHANGED vars
  BY <1>10, Zenon DEF vars, Kept
<1> QED
  BY <1>1, <1>2, <1>3, <1>4, <1>5, <1>6, <1>7, <1>8, <1>9, <1>10, Zenon DEF Next, LoopStep

\* A session ends only by the reset of its peer's entry or by its own removal.
LEMMA SessionEnds ==
    ASSUME TypeOK, LoopKnown, [Next]_vars, NEW c \in Session,
           session[c].task # "dead", session'[c].task = "dead"
    PROVE  \/ Reset /\ sessions[loop.peer] = c /\ session[c].task # "remove"
           \/ Remove(c)
<1>0. /\ session \in [Session -> SessionState] /\ loop \in LoopState
      /\ sessions \in [Peer -> Session \cup {None}]
  BY Named, Zenon
<1>1. ASSUME NEW p \in Peer, NEW kind \in Kind, Datagram(p, kind)
      PROVE  FALSE
  BY <1>1, Zenon DEF Datagram
<1>2. CASE Reset
  <2>1. sessions[loop.peer] = c
    BY <1>2, ResetEffect, Zenon
  <2>2. session[c].task # "remove"
    BY <1>2, <2>1, Zenon DEF Reset
  <2> QED
    BY <1>2, <2>1, <2>2, Zenon
<1>3. CASE GetExisting
  <2>1. loop.peer \in Peer /\ sessions[loop.peer] \in Session
    BY <1>0, <1>3, Zenon DEF GetExisting, LoopKnown
  <2>2. session[sessions[loop.peer]] \in SessionState
    BY <1>0, <2>1, Zenon
  <2>3. Obtained(sessions[loop.peer], session[sessions[loop.peer]])
    BY <1>3, Zenon DEF GetExisting
  <2> QED
    BY <2>1, <2>2, <2>3, ObtainedEffect, SMTT(30)
<1>4. ASSUME NEW id \in Session, OpenSession(id)
      PROVE  FALSE
  <2>1. NewSession(loop.peer) \in SessionState /\ NewSession(loop.peer).task = "recv"
    BY <1>0, <1>4, RecordTypes, Zenon DEF OpenSession, LoopKnown
  <2>2. Obtained(id, NewSession(loop.peer))
    BY <1>4, Zenon DEF OpenSession
  <2> QED
    BY <2>1, <2>2, ObtainedEffect, Zenon
<1>5. CASE OpenFails
  BY <1>5, Zenon DEF OpenFails
<1>6. ASSUME NEW arrives \in BOOLEAN, Send(arrives)
      PROVE  FALSE
  BY <1>6, SendEffect, Zenon
<1>7. CASE SendFails
  BY <1>7, SendFailsEffect, Zenon
<1>8. ASSUME NEW id \in Session, TaskStep(id) \/ RecvBreaks(id) \/ BackendAnswers(id)
      PROVE  Remove(c)
  <2>1. CASE Remove(id)
    BY <2>1, RemoveEffect, Zenon
  <2>2. CASE IdleTimeout(id) \/ NotifiedDisconnect(id) \/ RecvBreaks(id) \/ BackendAnswers(id)
    BY <2>2, TaskEffect, Zenon
  <2> QED
    BY <1>8, <2>1, <2>2, Zenon DEF TaskStep
<1>9. CASE Tick
  BY <1>9, TickEffect, Zenon
<1>10. CASE UNCHANGED vars
  BY <1>10, Zenon DEF vars
<1> QED
  BY <1>1, <1>2, <1>3, <1>4, <1>5, <1>6, <1>7, <1>8, <1>9, <1>10, Zenon DEF Next, LoopStep

\* The map changes only by a reset, a removal or the opening of a session.
LEMMA MapMoves ==
    ASSUME TypeOK, LoopKnown, [Next]_vars
    PROVE  \/ UNCHANGED <<sessions, gauge>>
           \/ /\ Reset /\ loop.peer \in Peer
              /\ sessions' = [sessions EXCEPT ![loop.peer] = None]
              /\ gauge' = Closed(sessions[loop.peer])
           \/ \E id \in Session : /\ Remove(id) /\ session[id].peer \in Peer
                                  /\ sessions' = [sessions EXCEPT ![session[id].peer] = None]
                                  /\ gauge' = Closed(sessions[session[id].peer])
           \/ \E id \in Session : /\ OpenSession(id) /\ loop.peer \in Peer
                                  /\ sessions[loop.peer] = None
                                  /\ sessions' = [sessions EXCEPT ![loop.peer] = id]
                                  /\ gauge' = gauge + 1
<1>1. CASE Reset
  BY <1>1, ResetEffect, Zenon
<1>2. ASSUME NEW id \in Session, Remove(id)
      PROVE  /\ Remove(id) /\ session[id].peer \in Peer
             /\ sessions' = [sessions EXCEPT ![session[id].peer] = None]
             /\ gauge' = Closed(sessions[session[id].peer])
  BY <1>2, RemoveEffect, Zenon
<1>3. ASSUME NEW id \in Session, OpenSession(id)
      PROVE  /\ OpenSession(id) /\ loop.peer \in Peer /\ sessions[loop.peer] = None
             /\ sessions' = [sessions EXCEPT ![loop.peer] = id]
             /\ gauge' = gauge + 1
  BY <1>3, Zenon DEF OpenSession, LoopKnown
<1>4. \/ UNCHANGED <<sessions, gauge>> \/ Reset
      \/ \E id \in Session : Remove(id)
      \/ \E id \in Session : OpenSession(id)
  BY Zenon DEF Next, LoopStep, TaskStep, vars, Datagram, GetExisting, OpenFails, Send, SendFails,
         BackendAnswers, RecvBreaks, IdleTimeout, NotifiedDisconnect, Tick
<1> QED
  BY <1>1, <1>2, <1>3, <1>4, Zenon

\* An entry of the map keeps a running task, because only the two steps that take an entry
\* out end a task, and a socket is opened only when no entry refers to it.
LEMMA ServedStep ==
    ASSUME TypeOK, LoopKnown, MapServed, [Next]_vars
    PROVE  MapServed'
<1>0. sessions \in [Peer -> Session \cup {None}] /\ sessions' \in [Peer -> Session \cup {None}]
  BY Named, TypeStep, Zenon DEF TypeOK
<1> SUFFICES ASSUME NEW p \in Peer, sessions'[p] # None
             PROVE  session'[sessions'[p]].task # "dead" /\ session'[sessions'[p]].peer = p
  BY Zenon DEF MapServed
<1> PICK c \in Session : c = sessions'[p]
  BY <1>0, Zenon
<1>1. CASE sessions'[p] = sessions[p]
  <2>1. session[c].task # "dead" /\ session[c].peer = p
    BY <1>1, Zenon DEF MapServed
  <2>2. ~OpenSession(c)
    BY <1>1, Zenon DEF OpenSession, Unreferenced
  <2>3. Kept(c)
    BY <2>2, SessionKept, Zenon DEF Opened
  <2>4. ASSUME session'[c].task = "dead"
        PROVE  FALSE
    <3>1. CASE Reset /\ sessions[loop.peer] = c
      <4>1. loop.peer \in Peer /\ sessions' = [sessions EXCEPT ![loop.peer] = None]
        BY <3>1, ResetEffect, Zenon
      <4>2. loop.peer = p
        BY <1>1, <2>1, <3>1, <4>1, UdpSessionAssumption, Zenon DEF MapServed
      <4> QED
        BY <1>0, <4>1, <4>2, Zenon
    <3>2. CASE Remove(c)
      BY <1>0, <2>1, <3>2, RemoveEffect, Zenon
    <3> QED
      BY <2>1, <2>4, <3>1, <3>2, SessionEnds, Zenon
  <2> QED
    BY <2>1, <2>3, <2>4, Zenon DEF Kept
<1>2. CASE sessions'[p] # sessions[p]
  <2>1. loop.peer = p /\ OpenSession(c)
    BY <1>0, <1>2, MapMoves, Zenon
  <2>2. ~Kept(c) \/ session'[c].task = "recv"
    <3>1. session[c].task = "dead" /\ NewSession(p) \in SessionState
          /\ NewSession(p).task = "recv"
      BY <2>1, RecordTypes, Zenon DEF OpenSession, Unreferenced
    <3>2. Obtained(c, NewSession(p))
      BY <2>1, Zenon DEF OpenSession
    <3> QED
      BY <3>1, <3>2, ObtainedEffect, Zenon
  <2>3. session[c].task = "dead"
    BY <2>1, Zenon DEF OpenSession, Unreferenced
  <2>4. Opened(c)
    <3>1. CASE Kept(c)
      BY <2>2, <2>3, <3>1, Zenon DEF Kept
    <3> QED
      BY <3>1, SessionKept, Zenon
  <2> QED
    BY <2>1, <2>4, Zenon DEF Opened
<1> QED
  BY <1>1, <1>2, Zenon

\* The loop is known after every step.
LEMMA KnownStep ==
    ASSUME TypeOK, LoopKnown, [Next]_vars
    PROVE  LoopKnown'
<1>0. loop \in LoopState /\ loop' \in LoopState /\ sessions \in [Peer -> Session \cup {None}]
      /\ session \in [Session -> SessionState]
  BY Named, TypeStep, Zenon DEF TypeOK, LoopState
<1>1. \A s \in Session : session'[s].task # "dead" => session'[s].peer \in Peer
  BY SessionKept, Zenon DEF Opened, Kept, LoopKnown
<1>2. \/ loop' = loop \/ loop' = Idle \/ Reset \/ SendFails
      \/ \E p \in Peer, kind \in Kind : Datagram(p, kind)
      \/ \E id \in Session, s \in SessionState : loop.pc = "get" /\ Obtained(id, s)
  <2>1. ASSUME GetExisting
        PROVE  \E id \in Session, s \in SessionState : loop.pc = "get" /\ Obtained(id, s)
    <3>1. loop.pc = "get" /\ sessions[loop.peer] \in Session
      BY <1>0, <2>1, Zenon DEF GetExisting, LoopKnown
    <3>2. session[sessions[loop.peer]] \in SessionState
      BY <1>0, <3>1, Zenon
    <3>3. Obtained(sessions[loop.peer], session[sessions[loop.peer]])
      BY <2>1, Zenon DEF GetExisting
    <3> QED
      BY <3>1, <3>2, <3>3, Zenon
  <2>2. ASSUME NEW id \in Session, OpenSession(id)
        PROVE  \E s \in SessionState : loop.pc = "get" /\ Obtained(id, s)
    BY <1>0, <2>2, RecordTypes, Zenon DEF OpenSession, LoopState
  <2>3. \/ loop' = loop \/ loop' = Idle \/ Reset \/ SendFails \/ GetExisting
        \/ \E p \in Peer, kind \in Kind : Datagram(p, kind)
        \/ \E id \in Session : OpenSession(id)
    BY Zenon DEF Next, LoopStep, TaskStep, vars, OpenFails, Send, Remove,
           BackendAnswers, RecvBreaks, IdleTimeout, NotifiedDisconnect, Tick
  <2> QED
    BY <2>1, <2>2, <2>3, Zenon
<1>3. /\ loop'.pc # "recv" => loop'.peer \in Peer
      /\ loop'.session # None <=> loop'.pc = "send"
  <2>1. CASE loop' = loop \/ loop' = Idle
    BY <2>1, RecordTypes, Zenon DEF LoopKnown
  <2>2. CASE Reset
    BY <2>2, ResetEffect, Zenon
  <2>3. CASE SendFails
    <3>1. loop.peer \in Peer /\ loop.session \in Session
      BY <2>3, SendFailsEffect, Zenon DEF SendFails, LoopKnown
    <3> QED
      BY <2>3, <3>1, SendFailsEffect, RecordTypes, UdpSessionAssumption, Zenon
  <2>4. ASSUME NEW p \in Peer, NEW kind \in Kind, Datagram(p, kind)
        PROVE  /\ loop'.pc # "recv" => loop'.peer \in Peer
               /\ loop'.session # None <=> loop'.pc = "send"
    BY <2>4, DatagramEffect, Zenon
  <2>5. ASSUME NEW id \in Session, NEW s \in SessionState, loop.pc = "get", Obtained(id, s)
        PROVE  /\ loop'.pc # "recv" => loop'.peer \in Peer
               /\ loop'.session # None <=> loop'.pc = "send"
    BY <2>5, ObtainedEffect, UdpSessionAssumption, Zenon DEF LoopKnown
  <2> QED
    BY <1>2, <2>1, <2>2, <2>3, <2>4, <2>5, Zenon
<1> QED
  BY <1>1, <1>3, Zenon DEF LoopKnown

\* Taking an entry out of the map and putting one in change its size by one.
LEMMA MapSize ==
    ASSUME TypeOK, GaugeMatches, NEW p \in Peer
    PROVE  /\ sessions' = [sessions EXCEPT ![p] = None] /\ gauge' = Closed(sessions[p])
                 => GaugeMatches'
           /\ \A id \in Session :
                 /\ sessions[p] = None /\ sessions' = [sessions EXCEPT ![p] = id]
                 /\ gauge' = gauge + 1
                 => GaugeMatches'
<1> DEFINE M == {q \in Peer : sessions[q] # None}
<1>0. IsFiniteSet(M) /\ gauge = Cardinality(M) /\ gauge \in Int
      /\ sessions \in [Peer -> Session \cup {None}]
  <2>1. IsFiniteSet(M)
    BY FS_Subset, UdpSessionAssumption, Zenon
  <2> QED
    BY <2>1, Zenon DEF GaugeMatches, TypeOK
<1>1. ASSUME sessions' = [sessions EXCEPT ![p] = None], gauge' = Closed(sessions[p])
      PROVE  GaugeMatches'
  <2>1. {q \in Peer : sessions'[q] # None} = M \ {p}
    BY <1>0, <1>1, Zenon
  <2>2. Cardinality(M \ {p}) = IF p \in M THEN Cardinality(M) - 1 ELSE Cardinality(M)
    BY <1>0, FS_RemoveElement, Zenon
  <2>3. gauge' = IF p \in M THEN gauge - 1 ELSE gauge
    BY <1>1, Zenon DEF Closed
  <2> QED
    BY <1>0, <2>1, <2>2, <2>3, Zenon DEF GaugeMatches
<1>2. ASSUME NEW id \in Session, sessions[p] = None,
             sessions' = [sessions EXCEPT ![p] = id], gauge' = gauge + 1
      PROVE  GaugeMatches'
  <2>1. {q \in Peer : sessions'[q] # None} = M \cup {p}
    BY <1>0, <1>2, UdpSessionAssumption, Zenon
  <2>2. Cardinality(M \cup {p}) = IF p \in M THEN Cardinality(M) ELSE Cardinality(M) + 1
    BY <1>0, FS_AddElement, Zenon
  <2>3. p \notin M
    BY <1>2, Zenon
  <2> QED
    BY <1>0, <1>2, <2>1, <2>2, <2>3, Zenon DEF GaugeMatches
<1> QED
  BY <1>1, <1>2, Zenon

\* The gauge follows the map.
LEMMA GaugeStep ==
    ASSUME TypeOK, LoopKnown, GaugeMatches, [Next]_vars
    PROVE  GaugeMatches'
<1>1. CASE UNCHANGED <<sessions, gauge>>
  BY <1>1, Zenon DEF GaugeMatches
<1>2. ASSUME NEW p \in Peer, sessions' = [sessions EXCEPT ![p] = None],
             gauge' = Closed(sessions[p])
      PROVE  GaugeMatches'
  BY <1>2, MapSize, Zenon
<1>3. ASSUME NEW p \in Peer, NEW id \in Session, sessions[p] = None,
             sessions' = [sessions EXCEPT ![p] = id], gauge' = gauge + 1
      PROVE  GaugeMatches'
  BY <1>3, MapSize, Zenon
<1> QED
  BY <1>1, <1>2, <1>3, MapMoves, Zenon

\* A reset stays due: between the look and the reset the task may have taken the entry out,
\* but only the loop itself can put another in.
LEMMA DueStep ==
    ASSUME TypeOK, LoopKnown, MapServed, ResetIsDue, [Next]_vars
    PROVE  ResetIsDue'
<1> SUFFICES ASSUME loop'.pc = "reset", sessions'[loop'.peer] # None
             PROVE  session'[sessions'[loop'.peer]].established # NotEstablished
  BY Zenon DEF ResetIsDue
<1>0. loop \in LoopState /\ sessions \in [Peer -> Session \cup {None}]
      /\ session \in [Session -> SessionState]
  BY Named, Zenon
<1>1. ASSUME NEW p \in Peer, NEW kind \in Kind, Datagram(p, kind)
      PROVE  session'[sessions'[loop'.peer]].established # NotEstablished
  BY <1>1, DatagramEffect, Zenon DEF ShouldReset
<1>2. CASE loop' = loop
  <2>1. loop.pc = "reset" /\ loop.peer \in Peer
    BY <1>2, Zenon DEF LoopKnown
  <2>2. sessions'[loop.peer] = sessions[loop.peer]
    <3>1. ~Reset /\ \A id \in Session : ~OpenSession(id)
      BY <1>2, <2>1, ResetEffect, Zenon DEF OpenSession
    <3> QED
      BY <1>0, <1>2, <2>1, <3>1, MapMoves, Zenon
  <2> PICK c \in Session : c = sessions[loop.peer]
    BY <1>0, <1>2, <2>1, <2>2, Zenon
  <2>3. session[c].established # NotEstablished /\ session[c].task # "dead"
    BY <1>2, <2>1, <2>2, Zenon DEF ResetIsDue, MapServed
  <2>4. session'[c].task # "dead"
    BY <1>2, <2>1, <2>2, ServedStep, Zenon DEF MapServed
  <2>5. Kept(c)
    BY <2>1, SessionKept, Zenon DEF Opened, OpenSession
  <2> QED
    BY <1>2, <2>2, <2>3, <2>4, <2>5, Zenon DEF Kept
<1>3. loop' = loop \/ \E p \in Peer, kind \in Kind : Datagram(p, kind)
  <2>1. ~Reset
    BY ResetEffect, Zenon
  <2>2. ~SendFails
    BY SendFailsEffect, RecordTypes, Zenon
  <2>3. ~GetExisting /\ \A id \in Session : ~OpenSession(id)
    <3>1. ASSUME NEW id, NEW s, Obtained(id, s)
          PROVE  loop'.pc = "send"
      BY <1>0, <3>1, Zenon DEF Obtained, LoopState
    <3> QED
      BY <3>1, Zenon DEF GetExisting, OpenSession
  <2>4. loop' # Idle
    BY RecordTypes, Zenon
  <2> QED
    BY <2>1, <2>2, <2>3, <2>4, Zenon DEF Next, LoopStep, TaskStep, vars, OpenFails, Send, Remove,
           BackendAnswers, RecvBreaks, IdleTimeout, NotifiedDisconnect, Tick
<1> QED
  BY <1>1, <1>2, <1>3, Zenon

TableInvariant == TypeOK /\ LoopKnown /\ MapServed /\ GaugeMatches /\ ResetIsDue

\* The invariant of the session table holds in every behaviour.
THEOREM TableInvariantCorrect == Spec => []TableInvariant
<1>1. Init => TableInvariant
  BY SessionInit, Zenon DEF TableInvariant
<1>2. TableInvariant /\ [Next]_vars => TableInvariant'
  <2> SUFFICES ASSUME TableInvariant, [Next]_vars
               PROVE  TableInvariant'
    BY Zenon
  <2>1. TypeOK /\ LoopKnown /\ MapServed /\ GaugeMatches /\ ResetIsDue
    BY Zenon DEF TableInvariant
  <2>2. TypeOK' /\ LoopKnown' /\ MapServed' /\ GaugeMatches' /\ ResetIsDue'
    BY <2>1, TypeStep, KnownStep, ServedStep, GaugeStep, DueStep, Zenon
  <2> QED
    BY <2>2, Zenon DEF TableInvariant
<1> QED
  BY <1>1, <1>2, PTL DEF Spec

\* A peer in the session map always has a task that serves it or is about to take it out, and
\* the metric is the size of the map (udp.rs, obtain_session and spawn_backend_recv).
THEOREM SessionsSoundCorrect == Spec => []SessionsSound
<1>1. TableInvariant => SessionsSound
  BY Zenon DEF TableInvariant, SessionsSound
<1> QED
  BY <1>1, TableInvariantCorrect, PTL

\* A retransmitted OpenConnectionRequest1 never aborts a session whose handshake is still
\* going on (udp.rs, obtain_session), although the map is unlocked between the look at the
\* session and its removal.
THEOREM HandshakeKeptCorrect == Spec => HandshakeKept
<1>1. TableInvariant /\ [Next]_vars =>
        [\A s \in Session :
            session[s].task = "recv" /\ session[s].established = NotEstablished
               => session'[s].task # "dead"]_vars
  <2> SUFFICES ASSUME TableInvariant, [Next]_vars, NEW s \in Session, session[s].task = "recv",
                      session[s].established = NotEstablished, session'[s].task = "dead"
               PROVE  FALSE
    BY Zenon
  <2>1. TypeOK /\ LoopKnown /\ ResetIsDue
    BY Zenon DEF TableInvariant
  <2>2. ~Remove(s)
    BY Zenon DEF Remove
  <2>3. Reset /\ sessions[loop.peer] = s
    BY <2>1, <2>2, SessionEnds, Zenon
  <2>4. s # None
    BY UdpSessionAssumption, Zenon
  <2> QED
    BY <2>1, <2>3, <2>4, Zenon DEF ResetIsDue, Reset
<1> QED
  BY <1>1, TableInvariantCorrect, PTL DEF Spec, HandshakeKept

-----------------------------------------------------------------------------
(* Proxy and backend agree about the mapping.                              *)

\* Agreement depends on four fields of the session and on its mapping.
LEMMA AgreedKept ==
    ASSUME NEW c \in Session, Agreed(c), mapping'[c] = mapping[c],
           session'[c].header_sent = session[c].header_sent,
           session'[c].idle = session[c].idle, session'[c].target = session[c].target,
           session'[c].trouble = session[c].trouble
    PROVE  Agreed(c)'
BY Zenon DEF Agreed

\* A datagram that arrives leaves both clocks at zero: the header went with it, or the backend
\* still had its mapping.
LEMMA SendAgrees ==
    ASSUME TypeOK, LoopKnown, ClocksAgree, Raknet, Haproxy, NEW arrives \in BOOLEAN,
           Send(arrives), NEW c \in Session, session'[c].task # "dead"
    PROVE  Agreed(c)'
<1>0. session \in [Session -> SessionState] /\ loop \in LoopState
      /\ mapping \in [Session -> [Target -> 0 .. MappingTimeout]]
  BY Named, Zenon
<1>1. loop.session \in Session /\ loop.index \in Target
  BY <1>0, SendEffect, Zenon DEF LoopState
<1>2. \/ mapping' = mapping
      \/ mapping' = [mapping EXCEPT ![loop.session][loop.index] = 0]
  BY Zenon DEF Send
<1>3. CASE c # loop.session
  <2>1. session'[c] = session[c] /\ mapping'[c] = mapping[c]
    BY <1>0, <1>1, <1>2, <1>3, SendEffect, Zenon
  <2>2. Agreed(c)
    BY <2>1, Zenon DEF ClocksAgree
  <2> QED
    BY <2>1, <2>2, AgreedKept, Zenon
<1>4. CASE c = loop.session
  <2>0. session[c] \in SessionState
    BY <1>0, Zenon
  <2>1. session[c].task # "dead" /\ session'[c] = Sent(session[c], arrives)
    BY <1>4, SendEffect, Zenon
  <2>2. /\ session'[c].header_sent = (session[c].header_sent \/ NeedHeader)
        /\ session'[c].target = loop.index /\ session'[c].idle = 0
        /\ session'[c].trouble = (session[c].trouble \/ ~arrives)
    BY <2>0, <2>1, SentEffect
  <2>3. CASE session'[c].trouble
    BY <2>3, Zenon DEF Agreed
  <2>4. CASE ~session'[c].trouble
    <3>1. ~session[c].trouble /\ arrives
      BY <2>2, <2>4, Zenon
    <3>2. Agreed(c) /\ loop.pc = "send"
      BY <2>1, Zenon DEF ClocksAgree, Send
    <3>3. loop.index = session[c].target
          /\ (session[c].header_sent => session[c].idle < MappingTimeout)
      BY <1>4, <3>1, <3>2, Zenon DEF ClocksAgree
    <3>4. NeedHeader = ~session[c].header_sent
      BY <1>4, Zenon DEF NeedHeader
    <3>5. session'[c].header_sent
      BY <2>2, <3>4, Zenon
    <3>6. NeedHeader \/ Mapped(c, loop.index)
      BY <3>1, <3>2, <3>3, <3>4, Zenon DEF Agreed, Mapped
    <3>7. mapping' = [mapping EXCEPT ![c][loop.index] = 0]
      BY <1>4, <3>1, <3>6, Zenon DEF Send
    <3>8. mapping'[c][loop.index] = 0
          /\ \A t \in Target : t # loop.index => mapping'[c][t] = mapping[c][t]
      BY <1>0, <1>1, <3>7, Zenon
    <3>9. \A t \in Target : t # session[c].target => mapping[c][t] = MappingTimeout
      BY <3>1, <3>2, Zenon DEF Agreed
    <3>10. 0 < MappingTimeout
      BY UdpSessionAssumption
    <3>11. \A t \in Target : t # session'[c].target => mapping'[c][t] = MappingTimeout
      BY <2>2, <3>3, <3>8, <3>9, Zenon
    <3>12. mapping'[c][session'[c].target] = session'[c].idle /\ session'[c].idle < MappingTimeout
           /\ ~(session'[c].idle >= MappingTimeout)
      BY <2>2, <3>8, <3>10, UdpSessionAssumption
    <3> QED
      BY <3>5, <3>11, <3>12, Zenon DEF Agreed
  <2> QED
    BY <2>3, <2>4, Zenon
<1> QED
  BY <1>3, <1>4, Zenon

\* An answer of the backend moves both clocks back to zero.
LEMMA AnswerAgrees ==
    ASSUME TypeOK, Raknet, Haproxy, NEW c \in Session, BackendAnswers(c), Agreed(c)
    PROVE  Agreed(c)'
<1>0. session \in [Session -> SessionState] /\ session[c] \in SessionState
      /\ mapping \in [Session -> [Target -> 0 .. MappingTimeout]]
  BY Named, Zenon
<1>1. /\ session'[c].header_sent = session[c].header_sent /\ session'[c].idle = 0
      /\ session'[c].target = session[c].target /\ session'[c].trouble = session[c].trouble
  BY <1>0, Zenon DEF BackendAnswers, SessionState
<1> SUFFICES ASSUME ~session[c].trouble
             PROVE  Agreed(c)'
  BY <1>1, Zenon DEF Agreed
<1>2. PICK u \in Target : Mapped(c, u)
  BY Zenon DEF BackendAnswers
<1>3. u = session[c].target
  BY <1>0, <1>2, UdpSessionAssumption DEF Agreed, Mapped
<1>4. session[c].header_sent
  BY <1>0, <1>2, <1>3, UdpSessionAssumption DEF Agreed, Mapped
<1>5. mapping'[c] = [t \in Target |-> IF Mapped(c, t) THEN 0 ELSE mapping[c][t]]
  BY <1>0, Zenon DEF BackendAnswers
<1>6. mapping'[c][session[c].target] = 0
  BY <1>2, <1>3, <1>5, Zenon
<1>7. \A t \in Target : t # session[c].target => mapping'[c][t] = MappingTimeout
  BY <1>5, UdpSessionAssumption DEF Agreed, Mapped
<1> QED
  BY <1>1, <1>4, <1>6, <1>7, UdpSessionAssumption DEF Agreed

\* Time passes for both clocks alike.
LEMMA TickAgrees ==
    ASSUME TypeOK, NEW c \in Session, Tick, Agreed(c), session[c].task # "dead"
    PROVE  Agreed(c)'
<1>0. session[c] \in SessionState /\ mapping[c] \in [Target -> 0 .. MappingTimeout]
  BY Named, Zenon
<1> SUFFICES ASSUME ~session[c].trouble
             PROVE  Agreed(c)'
  BY TickEffect, Zenon DEF Agreed
<1>1. /\ session'[c].header_sent = session[c].header_sent
      /\ session'[c].target = session[c].target /\ session'[c].trouble = session[c].trouble
      /\ session'[c].idle = Older(session[c].idle, IdleBudget)
      /\ \A t \in Target : mapping'[c][t] = Older(mapping[c][t], MappingTimeout)
  BY TickEffect, Zenon
<1>2. session[c].target \in Target /\ session[c].idle \in 0 .. IdleBudget
  BY <1>0, Zenon DEF SessionState
<1>3. \A t \in Target : t # session'[c].target => mapping'[c][t] = MappingTimeout
  BY <1>1, UdpSessionAssumption DEF Agreed, Older
<1>4. mapping[c][session[c].target] \in 0 .. MappingTimeout
  BY <1>0, <1>2, Zenon
<1>5. /\ session[c].header_sent /\ session[c].idle < MappingTimeout =>
            mapping[c][session[c].target] = session[c].idle
      /\ ~session[c].header_sent \/ session[c].idle >= MappingTimeout =>
            mapping[c][session[c].target] = MappingTimeout
  BY Zenon DEF Agreed
<1>6. mapping'[c][session[c].target] = Older(mapping[c][session[c].target], MappingTimeout)
  BY <1>1, <1>2, Zenon
<1>7. session[c].header_sent /\ session'[c].idle < MappingTimeout =>
         mapping'[c][session[c].target] = session'[c].idle
  BY <1>1, <1>2, <1>4, <1>5, <1>6, UdpSessionAssumption, SMTT(30) DEF Older
<1>8. ~session[c].header_sent \/ session'[c].idle >= MappingTimeout =>
         mapping'[c][session[c].target] = MappingTimeout
  BY <1>1, <1>2, <1>4, <1>5, <1>6, UdpSessionAssumption DEF Older
<1> QED
  BY <1>1, <1>3, <1>7, <1>8, Zenon DEF Agreed

\* Every step keeps the agreement of the clocks, as far as it is about the sessions.
LEMMA AgreedStep ==
    ASSUME TypeOK, LoopKnown, MapServed, ClocksAgree, Raknet, Haproxy, [Next]_vars,
           NEW c \in Session, session'[c].task # "dead" \/ loop'.session = c
    PROVE  Agreed(c)'
<1>0. /\ session \in [Session -> SessionState] /\ loop \in LoopState
      /\ sessions \in [Peer -> Session \cup {None}]
      /\ mapping \in [Session -> [Target -> 0 .. MappingTimeout]]
      /\ c # None
  BY Named, UdpSessionAssumption, Zenon
<1>1. session[c].task # "dead" \/ loop.session = c => Agreed(c)
  BY Zenon DEF ClocksAgree
<1>2. ASSUME NEW p \in Peer, NEW kind \in Kind, Datagram(p, kind)
      PROVE  Agreed(c)'
  BY <1>0, <1>1, <1>2, DatagramEffect, AgreedKept, Zenon
<1>3. CASE Reset
  <2>1. session'[c] = session[c] /\ mapping'[c] = mapping[c] /\ session[c].task # "dead"
    BY <1>0, <1>3, ResetEffect, Zenon
  <2> QED
    BY <1>1, <2>1, AgreedKept, Zenon
<1>4. CASE GetExisting
  <2>1. loop.peer \in Peer /\ sessions[loop.peer] \in Session
    BY <1>0, <1>4, Zenon DEF GetExisting, LoopKnown
  <2> PICK id \in Session : id = sessions[loop.peer]
    BY <2>1, Zenon
  <2>2. session[id] \in SessionState /\ session[id].task # "dead"
    BY <1>0, <2>1, UdpSessionAssumption, Zenon DEF MapServed
  <2>3. Obtained(id, session[id]) /\ mapping' = mapping
    BY <1>4, Zenon DEF GetExisting
  <2>4. CASE c # id
    <3>1. session'[c] = session[c] /\ loop'.session = id
      BY <2>2, <2>3, <2>4, ObtainedEffect, Zenon
    <3> QED
      BY <1>1, <2>3, <2>4, <3>1, AgreedKept, Zenon
  <2>5. CASE c = id
    <3>1. /\ session'[c].idle = session[c].idle /\ session'[c].target = session[c].target
          /\ session'[c].trouble = session[c].trouble
          /\ session'[c].header_sent = Rearmed(session[c], loop.kind)
      BY <2>2, <2>3, <2>5, ObtainedEffect, Zenon
    <3>2. CASE session[c].idle >= MappingTimeout
      <4>1. session'[c].header_sent = FALSE
        BY <3>1, <3>2, Zenon DEF Rearmed
      <4>2. Agreed(c)
        BY <1>1, <2>2, <2>5, Zenon
      <4> QED
        BY <2>3, <3>1, <3>2, <4>1, <4>2, Zenon DEF Agreed
    <3>3. CASE ~(session[c].idle >= MappingTimeout)
      <4>1. session'[c].header_sent = session[c].header_sent
        BY <3>1, <3>3, Zenon DEF Rearmed
      <4> QED
        BY <1>1, <2>2, <2>3, <2>5, <3>1, <4>1, AgreedKept, Zenon
    <3> QED
      BY <3>2, <3>3, Zenon
  <2> QED
    BY <2>4, <2>5, Zenon
<1>5. ASSUME NEW id \in Session, OpenSession(id)
      PROVE  Agreed(c)'
  <2>1. /\ NewSession(loop.peer) \in SessionState /\ NewSession(loop.peer).target = 1
        /\ NewSession(loop.peer).idle = 0 /\ NewSession(loop.peer).header_sent = FALSE
        /\ 1 \in Target
    BY <1>0, <1>5, RecordTypes, UdpSessionAssumption DEF OpenSession, LoopKnown, Target
  <2>2. Obtained(id, NewSession(loop.peer))
        /\ mapping' = [mapping EXCEPT ![id] = [t \in Target |-> MappingTimeout]]
    BY <1>5, Zenon DEF OpenSession
  <2>3. CASE c # id
    <3>1. session'[c] = session[c] /\ loop'.session = id
      BY <2>1, <2>2, <2>3, ObtainedEffect, Zenon
    <3>2. mapping'[c] = mapping[c]
      BY <1>0, <2>2, <2>3, Zenon
    <3> QED
      BY <1>1, <2>3, <3>1, <3>2, AgreedKept, Zenon
  <2>4. CASE c = id
    <3>1. /\ session'[c].header_sent = Rearmed(NewSession(loop.peer), loop.kind)
          /\ session'[c].target = 1
      BY <2>1, <2>2, <2>4, ObtainedEffect, Zenon
    <3>2. session'[c].header_sent = FALSE
      BY <2>1, <3>1, Zenon DEF Rearmed
    <3>3. \A t \in Target : mapping'[c][t] = MappingTimeout
      BY <1>0, <2>2, <2>4, Zenon
    <3> QED
      BY <2>1, <3>1, <3>2, <3>3, Zenon DEF Agreed
  <2> QED
    BY <2>3, <2>4, Zenon
<1>6. CASE OpenFails
  <2>1. session' = session /\ mapping' = mapping /\ loop'.session = None
    BY <1>6, RecordTypes, Zenon DEF OpenFails
  <2> QED
    BY <1>0, <1>1, <2>1, AgreedKept, Zenon
<1>7. ASSUME NEW arrives \in BOOLEAN, Send(arrives)
      PROVE  Agreed(c)'
  <2>1. session'[c].task # "dead"
    BY <1>0, <1>7, SendEffect, RecordTypes, Zenon
  <2> QED
    BY <1>7, <2>1, SendAgrees, Zenon
<1>8. CASE SendFails
  <2>1. mapping' = mapping
    BY <1>8, Zenon DEF SendFails
  <2>2. CASE c # loop.session
    <3>1. session'[c] = session[c] /\ session[c].task # "dead"
      BY <1>0, <1>8, <2>2, SendFailsEffect, RecordTypes, Zenon
    <3> QED
      BY <1>1, <2>1, <3>1, AgreedKept, Zenon
  <2>3. CASE c = loop.session
    <3>1. session'[c].trouble = TRUE
      BY <1>0, <1>8, <2>3, SendFailsEffect, RecordTypes, Zenon
    <3> QED
      BY <3>1, Zenon DEF Agreed
  <2> QED
    BY <2>2, <2>3, Zenon
<1>9. ASSUME NEW id \in Session,
             IdleTimeout(id) \/ NotifiedDisconnect(id) \/ RecvBreaks(id) \/ BackendAnswers(id)
      PROVE  Agreed(c)'
  <2>1. CASE c # id
    <3>1. session'[c] = session[c] /\ mapping'[c] = mapping[c] /\ loop' = loop
      BY <1>9, <2>1, TaskEffect, Zenon
    <3> QED
      BY <1>1, <3>1, AgreedKept, Zenon
  <2>2. CASE c = id
    <3>1. Agreed(c)
      BY <1>1, <1>9, <2>2, TaskEffect, Zenon
    <3>2. CASE BackendAnswers(c)
      BY <3>1, <3>2, AnswerAgrees, Zenon
    <3>3. CASE ~BackendAnswers(c)
      BY <1>9, <2>2, <3>1, <3>3, TaskEffect, AgreedKept, Zenon
    <3> QED
      BY <3>2, <3>3, Zenon
  <2> QED
    BY <2>1, <2>2
<1>10. ASSUME NEW id \in Session, Remove(id)
       PROVE  Agreed(c)'
  <2>1. mapping' = mapping /\ loop' = loop
    BY <1>10, RemoveEffect, Zenon
  <2>2. CASE c # id
    BY <1>1, <1>10, <2>1, <2>2, RemoveEffect, AgreedKept, Zenon
  <2>3. CASE c = id
    <3>1. loop.session = c /\ session'[c] = Ended(c)
      BY <1>10, <2>1, <2>3, RemoveEffect, Zenon
    <3> QED
      BY <1>1, <2>1, <3>1, EndedEffect, AgreedKept, Zenon
  <2> QED
    BY <2>2, <2>3
<1>11. CASE Tick
  <2>1. session[c].task # "dead"
    BY <1>0, <1>11, TickEffect, Zenon DEF Tick, LoopKnown
  <2> QED
    BY <1>1, <1>11, <2>1, TickAgrees, Zenon
<1>12. CASE UNCHANGED vars
  BY <1>1, <1>12, AgreedKept, Zenon DEF vars
<1> QED
  BY <1>2, <1>3, <1>4, <1>5, <1>6, <1>7, <1>8, <1>9, <1>10, <1>11, <1>12, Zenon
     DEF Next, LoopStep, TaskStep

\* What the loop took from the session stays true until the datagram is sent: the only other
\* step that touches the session in between is an answer, which makes it younger.
LEMMA HeldStep ==
    ASSUME TypeOK, LoopKnown, ClocksAgree, Raknet, Haproxy, [Next]_vars, loop'.pc = "send"
    PROVE  /\ session'[loop'.session].header_sent => session'[loop'.session].idle < MappingTimeout
           /\ ~session'[loop'.session].trouble => loop'.index = session'[loop'.session].target
<1>0. /\ session \in [Session -> SessionState] /\ loop \in LoopState
      /\ sessions \in [Peer -> Session \cup {None}] /\ 0 < MappingTimeout
  BY Named, UdpSessionAssumption
<1> DEFINE Goal == /\ session'[loop'.session].header_sent =>
                         session'[loop'.session].idle < MappingTimeout
                   /\ ~session'[loop'.session].trouble =>
                         loop'.index = session'[loop'.session].target
<1> SUFFICES Goal
  BY Zenon
<1>1. ASSUME NEW id \in Session, NEW s \in SessionState, Obtained(id, s)
      PROVE  Goal
  <2>1. /\ session'[id].header_sent = Rearmed(s, loop.kind) /\ session'[id].idle = s.idle
        /\ session'[id].target = s.target /\ loop'.session = id /\ loop'.index = s.target
    BY <1>1, ObtainedEffect, Zenon
  <2>2. s.idle \in Int /\ MappingTimeout \in Int
    BY UdpSessionAssumption DEF SessionState
  <2>3. Rearmed(s, loop.kind) => s.idle < MappingTimeout
    BY <2>2 DEF Rearmed
  <2> QED
    BY <2>1, <2>3, Zenon
<1>2. CASE GetExisting
  <2>1. loop.peer \in Peer /\ sessions[loop.peer] \in Session
    BY <1>0, <1>2, Zenon DEF GetExisting, LoopKnown
  <2>2. session[sessions[loop.peer]] \in SessionState
    BY <1>0, <2>1, Zenon
  <2>3. Obtained(sessions[loop.peer], session[sessions[loop.peer]])
    BY <1>2, Zenon DEF GetExisting
  <2> QED
    BY <1>1, <2>1, <2>2, <2>3, Zenon
<1>3. ASSUME NEW id \in Session, OpenSession(id)
      PROVE  Goal
  <2>1. NewSession(loop.peer) \in SessionState /\ Obtained(id, NewSession(loop.peer))
    BY <1>0, <1>3, RecordTypes, Zenon DEF OpenSession, LoopState
  <2> QED
    BY <1>1, <2>1, Zenon
<1>4. CASE SendFails
  <2>1. /\ session'[loop.session].trouble = TRUE /\ session'[loop.session].header_sent = FALSE
        /\ loop'.session = loop.session
    BY <1>4, SendFailsEffect, RecordTypes, Zenon
  <2> QED
    BY <2>1, Zenon
<1>5. CASE loop' = loop
  <2>1. loop.pc = "send"
    BY <1>5, Zenon
  <2> PICK c \in Session : c = loop.session
    BY <1>0, <2>1, Zenon DEF LoopKnown, LoopState
  <2>2. /\ session[c].header_sent => session[c].idle < MappingTimeout
        /\ ~session[c].trouble => loop.index = session[c].target
    BY <2>1, Zenon DEF ClocksAgree
  <2>3. /\ session'[c].header_sent = session[c].header_sent
        /\ session'[c].target = session[c].target /\ session'[c].trouble = session[c].trouble
        /\ session'[c].idle = session[c].idle \/ session'[c].idle = 0
    <3>1. ASSUME NEW id \in Session, Remove(id)
          PROVE  session'[c] = session[c] \/ session'[c] = Ended(c)
      BY <3>1, RemoveEffect, Zenon
    <3>2. ASSUME NEW id \in Session, IdleTimeout(id) \/ NotifiedDisconnect(id)
                                        \/ RecvBreaks(id) \/ BackendAnswers(id)
          PROVE  /\ session'[c].header_sent = session[c].header_sent
                 /\ session'[c].target = session[c].target
                 /\ session'[c].trouble = session[c].trouble
                 /\ session'[c].idle = session[c].idle \/ session'[c].idle = 0
      BY <3>2, TaskEffect, Zenon
    <3>3. \/ session' = session
          \/ \E id \in Session : Remove(id)
          \/ \E id \in Session : IdleTimeout(id) \/ NotifiedDisconnect(id)
                                    \/ RecvBreaks(id) \/ BackendAnswers(id)
      <4>1. ~Reset
        BY <2>1, Zenon DEF Reset
      <4>2. ~GetExisting /\ ~OpenFails /\ ~Tick /\ \A id \in Session : ~OpenSession(id)
        BY <2>1, Zenon DEF GetExisting, OpenFails, Tick, OpenSession
      <4>3. loop' # Idle
        BY RecordTypes, Zenon
      <4>4. \A arrives \in BOOLEAN : ~Send(arrives)
        BY <4>3, Zenon DEF Send
      <4>5. CASE SendFails
        <5>1. loop' = [loop EXCEPT !.index = @ + 1]
          BY <4>3, <4>5, Zenon DEF SendFails
        <5>2. loop'.index = loop.index + 1 /\ loop.index \in Int
          BY <1>0, <5>1 DEF LoopState, Target
        <5> QED
          BY <1>5, <5>2
      <4>6. \A p \in Peer, kind \in Kind : ~Datagram(p, kind)
        BY <2>1, Zenon DEF Datagram
      <4> QED
        BY <4>1, <4>2, <4>4, <4>5, <4>6, Zenon DEF Next, LoopStep, TaskStep, vars
    <3> QED
      BY <3>1, <3>2, <3>3, EndedEffect, Zenon
  <2> QED
    BY <1>0, <1>5, <2>2, <2>3, Zenon
<1>6. loop' = loop \/ SendFails \/ GetExisting \/ \E id \in Session : OpenSession(id)
  <2>1. ~Reset
    BY ResetEffect, Zenon
  <2>2. \A p \in Peer, kind \in Kind : ~Datagram(p, kind)
    BY DatagramEffect, Zenon
  <2>3. loop' # Idle
    BY RecordTypes, Zenon
  <2> QED
    BY <2>1, <2>2, <2>3, Zenon DEF Next, LoopStep, TaskStep, vars, OpenFails, Send, Remove,
           BackendAnswers, RecvBreaks, IdleTimeout, NotifiedDisconnect, Tick
<1> QED
  BY <1>2, <1>3, <1>4, <1>5, <1>6, Zenon

\* Proxy and backend agree about the mapping (udp.rs, handle_datagram and send_to_target): a
\* PROXY header goes out exactly when the backend has no mapping for the socket, whatever the
\* timing, as long as no send failed and no datagram was lost.
THEOREM HeaderAgreesCorrect == Spec => []HeaderAgrees
<1>1. Init => ClocksAgree
  BY SessionInit, Zenon
<1>2. TableInvariant /\ ClocksAgree /\ [Next]_vars => ClocksAgree'
  <2> SUFFICES ASSUME TableInvariant, ClocksAgree, [Next]_vars, Raknet, Haproxy
               PROVE  ClocksAgree'
    BY Zenon DEF ClocksAgree
  <2>1. TypeOK /\ LoopKnown /\ MapServed
    BY Zenon DEF TableInvariant
  <2>2. \A c \in Session : session'[c].task # "dead" \/ loop'.session = c => Agreed(c)'
    BY <2>1, AgreedStep, Zenon
  <2>3. loop'.pc = "send" =>
           /\ session'[loop'.session].header_sent =>
                 session'[loop'.session].idle < MappingTimeout
           /\ ~session'[loop'.session].trouble =>
                 loop'.index = session'[loop'.session].target
    BY <2>1, HeldStep, Zenon
  <2> QED
    BY <2>2, <2>3, Zenon DEF ClocksAgree
<1>3. TableInvariant /\ ClocksAgree => HeaderAgrees
  <2> SUFFICES ASSUME TableInvariant, ClocksAgree, loop.pc = "send", Raknet, Haproxy,
                      ~session[loop.session].trouble
               PROVE  NeedHeader = ~Mapped(loop.session, loop.index)
    BY Zenon DEF HeaderAgrees
  <2>1. loop.session \in Session /\ session[loop.session] \in SessionState
    BY Named, Zenon DEF TableInvariant, LoopKnown, LoopState
  <2>2. /\ Agreed(loop.session) /\ loop.index = session[loop.session].target
        /\ session[loop.session].header_sent => session[loop.session].idle < MappingTimeout
    BY <2>1, Zenon DEF ClocksAgree
  <2>3. session[loop.session].header_sent \in BOOLEAN /\ session[loop.session].idle \in Int
    BY <2>1 DEF SessionState
  <2>4. CASE session[loop.session].header_sent
    BY <2>2, <2>3, <2>4, Zenon DEF Agreed, NeedHeader, Mapped
  <2>5. CASE ~session[loop.session].header_sent
    BY <2>2, <2>3, <2>5, UdpSessionAssumption DEF Agreed, NeedHeader, Mapped
  <2> QED
    BY <2>4, <2>5, Zenon
<1> QED
  BY <1>1, <1>2, <1>3, TableInvariantCorrect, PTL DEF Spec
=============================================================================
