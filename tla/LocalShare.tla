----------------------------- MODULE LocalShare -----------------------------
(***************************************************************************)
(* The local share service (sharedServiceManager.ts of                     *)
(* src/FerrumClient/src): one TCP and one UDP socket that hand what they   *)
(* receive to a local server.  start and stop wait for the sockets, and    *)
(* each may be called while another call still waits.  A step is what the  *)
(* event loop runs between two waits.                                      *)
(***************************************************************************)
EXTENDS Common, FiniteSets

CONSTANTS
    Starter,    \* calls of start
    Stopper,    \* calls of stop, other than the one a failed start makes
    Conn,       \* TCP connections
    Peer,       \* UDP peers
    Budget,     \* maxBytesPerSecond; every chunk is one byte
    Timeout     \* udpSessionTimeoutSeconds

VARIABLES
    status,             \* None or [haproxy, tcp, udp]: the two counts of stats
    start,              \* what each start waits for: "tcp", "udp" or nothing
    stops,              \* what each stop waits for
    tcpServer, udpServer,
    open,               \* sockets that take traffic
    tcpConnections,
    udpPeers,           \* None or [idle, proxyHeaderSent]
    cleanupTimer,
    lostTimer,          \* an interval runs that the manager no longer knows
    windowBytes,
    headed,             \* history: peers that have sent the header in this share
    bare,               \* history: a first datagram went out without it
    straggler,          \* history: a datagram made a peer during a stop
    overlapped             \* history: a start began before another, or its clean-up, was over

shareVars == <<status, start, stops, tcpServer, udpServer, open, tcpConnections, udpPeers,
               cleanupTimer, lostTimer, windowBytes, headed, bare, straggler, overlapped>>
traffic == <<windowBytes, headed, bare, straggler, overlapped>>

StopCaller == Starter \cup Stopper
NoPeers == [p \in Peer |-> None]
Peers == {p \in Peer : udpPeers[p] # None}
Starting == {s \in Starter : start[s] # "no"}
Stopping == {k \in StopCaller : stops[k] # "no"}

ShareInit ==
    /\ status = None /\ start = [s \in Starter |-> "no"] /\ stops = [k \in StopCaller |-> "no"]
    /\ tcpServer = None /\ udpServer = None /\ open = {}
    /\ tcpConnections = {} /\ udpPeers = NoPeers
    /\ cleanupTimer = FALSE /\ lostTimer = FALSE
    /\ windowBytes = 0 /\ headed = {} /\ bare = FALSE /\ straggler = FALSE /\ overlapped = FALSE

-----------------------------------------------------------------------------
(* stop.                                                                   *)

\* Up to its first wait, with the sockets of the manager as the caller leaves them.  A UDP
\* socket that is being closed cannot be closed again, and the call fails.
StopFrom(k, tcp, udp, opened) ==
    LET wait == IF tcp # None THEN "tcp" ELSE IF <<"udp", udp>> \in opened THEN "udp" ELSE "no"
    IN  /\ stops' = [stops EXCEPT ![k] = wait]
        /\ tcpServer' = tcp /\ udpServer' = udp
        /\ open' = opened \ (IF wait = "tcp" THEN {<<"tcp", tcp>>}
                             ELSE IF wait = "udp" THEN {<<"udp", udp>>} ELSE {})
        /\ tcpConnections' = {} /\ udpPeers' = NoPeers /\ cleanupTimer' = FALSE
        /\ UNCHANGED lostTimer
        /\ status' = IF wait = "no" /\ udp = None THEN None ELSE status

StopShare(k) ==
    /\ stops[k] = "no"
    /\ StopFrom(k, tcpServer, udpServer, open)
    /\ UNCHANGED <<start, traffic>>

AfterClose(server) == None

\* The TCP server has closed: every stop that waited for it goes on, one to the UDP socket.
TcpClosed ==
    LET waiting == {k \in StopCaller : stops[k] = "tcp"}
        next == CHOOSE k \in waiting : TRUE
        closes == <<"udp", udpServer>> \in open
    IN  /\ waiting # {}
        /\ tcpServer' = AfterClose(tcpServer)
        /\ stops' = [k \in StopCaller |-> IF k \notin waiting THEN stops[k]
                                      ELSE IF closes /\ k = next THEN "udp" ELSE "no"]
        /\ open' = open \ {<<"udp", udpServer>>}
        /\ status' = IF udpServer = None THEN None ELSE status
        /\ UNCHANGED <<start, udpServer, tcpConnections, udpPeers, cleanupTimer, lostTimer, traffic>>

UdpClosed ==
    /\ \E k \in StopCaller : stops[k] = "udp"
    /\ udpServer' = AfterClose(udpServer) /\ status' = None
    /\ stops' = [k \in StopCaller |-> IF stops[k] = "udp" THEN "no" ELSE stops[k]]
    /\ UNCHANGED <<start, tcpServer, open, tcpConnections, udpPeers, cleanupTimer, lostTimer, traffic>>

-----------------------------------------------------------------------------
(* start.                                                                  *)

StartShare(s) ==
    \E first \in {"tcp", "both", "udp"}, haproxy \in BOOLEAN :
        /\ start[s] = "no" /\ stops[s] = "no" /\ status = None
        /\ status' = [haproxy |-> haproxy, tcp |-> 0, udp |-> 0]
        /\ start' = [start EXCEPT ![s] = first]
        /\ headed' = {} /\ overlapped' = (overlapped \/ Starting # {} \/ Stopping # {})
        /\ UNCHANGED <<stops, tcpServer, udpServer, open, tcpConnections, udpPeers,
                       cleanupTimer, lostTimer, windowBytes, bare, straggler>>

Abort_rethrow(s, tcp, udp, opened) ==
    /\ tcpServer' = tcp /\ udpServer' = udp /\ open' = opened
    /\ UNCHANGED <<status, stops, tcpConnections, udpPeers, cleanupTimer, lostTimer>>

\* catch: whatever this start has opened is closed, by a stop of its own.
Abort(s, tcp, udp, opened) == StopFrom(s, tcp, udp, opened)

\* One socket is there.  If the service was stopped meanwhile, noting its port throws.
Listening(s, next, tcp, udp, opened) ==
    IF status = None
    THEN start' = [start EXCEPT ![s] = "no"] /\ Abort(s, tcp, udp, opened)
    ELSE /\ start' = [start EXCEPT ![s] = next]
         /\ tcpServer' = tcp /\ udpServer' = udp /\ open' = opened
         /\ cleanupTimer' = (cleanupTimer \/ next = "no")
         /\ lostTimer' = (lostTimer \/ (cleanupTimer /\ next = "no"))
         /\ UNCHANGED <<status, stops, tcpConnections, udpPeers>>

TcpListens(s) ==
    /\ start[s] \in {"tcp", "both"}
    /\ Listening(s, IF start[s] = "both" THEN "udp" ELSE "no", s, udpServer, open \cup {<<"tcp", s>>})
    /\ UNCHANGED traffic

UdpBinds(s) ==
    /\ start[s] = "udp"
    /\ Listening(s, "no", tcpServer, s, open \cup {<<"udp", s>>})
    /\ UNCHANGED traffic

\* The port is taken, or not a port.
ShareFails(s) ==
    /\ start[s] # "no" /\ start' = [start EXCEPT ![s] = "no"]
    /\ Abort(s, tcpServer, udpServer, open)
    /\ UNCHANGED traffic

-----------------------------------------------------------------------------
(* Traffic.                                                                *)

\* consumeBandwidth counts the byte even when it refuses it.
consumeBandwidth == windowBytes' = IF status = None THEN windowBytes ELSE Up(windowBytes, Budget + 1)
WithinBudget == windowBytes < Budget

tcpCount(connections) ==
    IF status = None THEN None ELSE [status EXCEPT !.tcp = Cardinality(connections)]

HandleTcp(c) ==
    /\ status # None /\ c \notin tcpConnections /\ \E s \in Starter : <<"tcp", s>> \in open
    /\ tcpConnections' = tcpConnections \cup {c}
    /\ status' = tcpCount(tcpConnections')
    /\ UNCHANGED <<start, stops, tcpServer, udpServer, open, udpPeers, cleanupTimer, lostTimer, traffic>>

CloseTcp(c) ==
    /\ c \in tcpConnections /\ tcpConnections' = tcpConnections \ {c}
    /\ status' = tcpCount(tcpConnections')
    /\ UNCHANGED <<start, stops, tcpServer, udpServer, open, udpPeers, cleanupTimer, lostTimer, traffic>>

\* A chunk either way; over the limit it ends the connection.
Chunk(c) ==
    /\ c \in tcpConnections /\ consumeBandwidth
    /\ tcpConnections' = IF status # None /\ WithinBudget THEN tcpConnections ELSE tcpConnections \ {c}
    /\ status' = tcpCount(tcpConnections')
    /\ UNCHANGED <<start, stops, tcpServer, udpServer, open, udpPeers, cleanupTimer, lostTimer,
                   headed, bare, straggler, overlapped>>

\* A datagram of the local server, which takes from the same budget.
Reply(p) ==
    /\ p \in Peers /\ status # None /\ udpServer # None /\ consumeBandwidth
    /\ UNCHANGED <<status, start, stops, tcpServer, udpServer, open, tcpConnections, udpPeers,
                   cleanupTimer, lostTimer, headed, bare, straggler, overlapped>>

\* A datagram over the limit is dropped before the header is marked as sent.
HeaderSent(peer) == peer.proxyHeaderSent \/ (status.haproxy /\ WithinBudget)

HandleUdp(p) ==
    LET peer == IF udpPeers[p] # None THEN udpPeers[p] ELSE [idle |-> 0, proxyHeaderSent |-> FALSE]
        header == WithinBudget /\ status.haproxy /\ ~peer.proxyHeaderSent
    IN  /\ status # None /\ udpServer # None /\ \E s \in Starter : <<"udp", s>> \in open
        /\ udpPeers' = [udpPeers EXCEPT ![p] = [idle |-> 0, proxyHeaderSent |-> HeaderSent(peer)]]
        /\ status' = IF p \in Peers THEN status ELSE [status EXCEPT !.udp = Cardinality(Peers) + 1]
        /\ straggler' = (straggler \/ (p \notin Peers /\ Stopping # {}))
        /\ headed' = IF header THEN headed \cup {p} ELSE headed
        /\ bare' = (bare \/ (WithinBudget /\ status.haproxy /\ p \notin headed'))
        /\ consumeBandwidth
        /\ UNCHANGED <<start, stops, tcpServer, udpServer, open, tcpConnections, cleanupTimer,
                       lostTimer, overlapped>>

Gauge(gone) == [status EXCEPT !.udp = Cardinality(Peers \ gone)]

\* removeUdpPeer, after an error of its socket or by the timer.
removeUdpPeers(gone, peers) ==
    /\ udpPeers' = [p \in Peer |-> IF p \in gone THEN None ELSE peers[p]]
    /\ headed' = headed \ gone
    /\ status' = IF status = None \/ gone = {} THEN status ELSE Gauge(gone)

PeerError(p) ==
    /\ p \in Peers /\ removeUdpPeers({p}, udpPeers)
    /\ UNCHANGED <<start, stops, tcpServer, udpServer, open, tcpConnections, cleanupTimer,
                   lostTimer, windowBytes, bare, straggler, overlapped>>

\* A new window of bandwidth; cleanupIdleUdpPeers while the timer runs.
Second ==
    LET older == [p \in Peer |-> IF udpPeers[p] = None THEN None
                                 ELSE [udpPeers[p] EXCEPT !.idle = Up(@, Timeout)]]
        gone == {p \in Peers : (cleanupTimer \/ lostTimer) /\ status # None /\ older[p].idle >= Timeout}
    IN  /\ windowBytes' = 0 /\ removeUdpPeers(gone, older)
        /\ UNCHANGED <<start, stops, tcpServer, udpServer, open, tcpConnections, cleanupTimer,
                       lostTimer, bare, straggler, overlapped>>

ShareNext ==
    \/ \E s \in Starter : StartShare(s) \/ TcpListens(s) \/ UdpBinds(s) \/ ShareFails(s)
    \/ \E k \in Stopper : StopShare(k)
    \/ TcpClosed \/ UdpClosed \/ Second
    \/ \E c \in Conn : HandleTcp(c) \/ CloseTcp(c) \/ Chunk(c)
    \/ \E p \in Peer : HandleUdp(p) \/ Reply(p) \/ PeerError(p)

ShareSpec == ShareInit /\ [][ShareNext]_shareVars

-----------------------------------------------------------------------------
(* Properties.                                                             *)

\* Each variable has its type, and a server the manager holds takes traffic, or a stop is
\* waiting for it to close.
ShareTypeOK ==
    /\ status \in {None} \cup
         [haproxy : BOOLEAN, tcp : 0..Cardinality(Conn), udp : 0..Cardinality(Peer)]
    /\ start \in [Starter -> {"no", "tcp", "udp", "both"}]
    /\ stops \in [StopCaller -> {"no", "tcp", "udp"}]
    /\ {tcpServer, udpServer} \subseteq {None} \cup Starter
    /\ open \subseteq {"tcp", "udp"} \X Starter
    /\ tcpConnections \subseteq Conn
    /\ udpPeers \in [Peer -> {None} \cup [idle : 0..Timeout, proxyHeaderSent : BOOLEAN]]
    /\ {cleanupTimer, lostTimer, bare, straggler, overlapped} \subseteq BOOLEAN
    /\ windowBytes \in 0..(Budget + 1) /\ headed \subseteq Peer
    /\ tcpServer # None => <<"tcp", tcpServer>> \in open \/ \E k \in StopCaller : stops[k] = "tcp"
    /\ udpServer # None => <<"udp", udpServer>> \in open \/ \E k \in StopCaller : stops[k] = "udp"

\* Once the service is stopped and no call is waiting, no socket is left open and no
\* connection is left, although stop may run while start still waits for a socket and start
\* may fail half way.  Two things are excepted: a start that began before an earlier one, or
\* its clean-up, was over (the later socket replaces the earlier one in the manager, and the
\* clean-up clears the later status), and the peer of a datagram that
\* arrives while stop waits for the TCP server, which stop has already forgotten to close.
NothingLeft ==
    (status = None /\ Starting = {} /\ Stopping = {} /\ ~overlapped) =>
        /\ open = {} /\ tcpConnections = {}
        /\ straggler \/ Peers = {}

\* The first datagram of a peer that reaches the local server in a share carries the PROXY
\* header: a datagram dropped for bandwidth does not use it up, and neither a peer that was
\* removed and comes back nor one of an earlier share goes without.  Excepted is the peer a
\* stop left behind, whose header went to the earlier share's server.
HeaderFirst == bare => straggler

\* While nothing is stopping, the counts that getStatus shows are those of the connections and
\* peers, whichever of timeout, error, bandwidth limit or cleanup ended the others.  They miss a
\* peer left behind by an earlier stop, and what overlapping starts leave (as above).
CountsTrue ==
    (status # None /\ Stopping = {} /\ ~overlapped) =>
        /\ status.tcp = Cardinality(tcpConnections)
        /\ straggler \/ status.udp = Cardinality(Peers)

\* A local share is sound: the types, nothing left of one that ended, true counts, and a header
\* before anything else.
ShareSound == ShareTypeOK /\ NothingLeft /\ CountsTrue /\ HeaderFirst
=============================================================================
