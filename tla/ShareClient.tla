---------------------------- MODULE ShareClient ----------------------------
(***************************************************************************)
(* RelayShareClient (src/FerrumClient/src/relayShareClient.ts): clients    *)
(* that hold a lease of the shared relay, check it with a heartbeat,       *)
(* replace it when the heartbeat fails, and keep TCP tunnel loops, a UDP   *)
(* tunnel loop or both running for it. start() and stop() are the main     *)
(* task of a client and the heartbeat is a second one; they interleave at  *)
(* every await. The relay is the lease table of module LeaseTable as a     *)
(* client sees it: CONNECT takes a free port, RELEASE frees a port whoever *)
(* holds it. A command whose sender gave up may still be executed later.   *)
(***************************************************************************)
EXTENDS Naturals, FiniteSets

CONSTANTS
    Client, Port,
    Tokens,          \* clients that present a token: at most one lease each
    TcpClients,      \* clients whose protocol is tcp or both
    UdpClients,      \* clients whose protocol is udp or both
    MaxGeneration,   \* bound on the number of generations of a client
    MaxOutages,      \* bound on the number of relay restarts
    PingMayFail,     \* may a heartbeat fail although the relay is up?
    CommandMayFail,  \* may other commands fail although the relay is up?
    NoPort, Free

ASSUME ShareClientAssumption ==
    /\ MaxGeneration \in Nat /\ MaxGeneration >= 2 /\ MaxOutages \in Nat
    /\ Tokens \subseteq Client /\ TcpClients \subseteq Client /\ UdpClients \subseteq Client
    /\ NoPort \notin Port /\ Free \notin Client

VARIABLES
    lease,      \* the relay's table: port -> client
    up,         \* is the relay reachable?
    outages,    \* restarts so far
    late,       \* commands the relay has received from senders that gave up
    main,       \* start() and stop() of a client
    heartbeat,  \* checkRelayHeartbeat of a client
    cmd,        \* the command each of the two tasks waits for
    stopped, generation, endpoint, timer,   \* fields of RelayShareClient
    loop,       \* the two tunnel loops of each generation: place and port
    untidy      \* history: clients whose CONNECT or RELEASE went astray, or whose
                \* stop() met a heartbeat in flight

vars == <<lease, up, outages, late, main, heartbeat, cmd, stopped, generation,
          endpoint, timer, loop, untidy>>

Task == {"main", "heartbeat"}
Generation == 1 .. MaxGeneration
Kind == {"tcp", "udp"}
Loop == Kind \X Generation
NoCmd == [op |-> "none", port |-> NoPort, at |-> "none"]

Init ==
    /\ lease = [p \in Port |-> Free] /\ up = TRUE /\ outages = 0 /\ late = {}
    /\ main = [c \in Client |-> "idle"] /\ heartbeat = [c \in Client |-> "idle"]
    /\ cmd = [c \in Client |-> [t \in Task |-> NoCmd]]
    /\ stopped = [c \in Client |-> FALSE] /\ generation = [c \in Client |-> 0]
    /\ endpoint = [c \in Client |-> NoPort] /\ timer = [c \in Client |-> FALSE]
    /\ loop = [c \in Client |-> [l \in Loop |-> [at |-> "none", port |-> NoPort]]]
    /\ untidy = {}

relayVars == <<lease, up, outages, late>>

-----------------------------------------------------------------------------
(* sendRelayCommand: connect (the socket is not tracked yet), write, wait. *)

Sending(op, p) == [op |-> op, port |-> p, at |-> "dial"]

\* The connection is made and the command written: from here on the socket is in
\* this.sockets and the relay will execute the command.
Write(c, t) ==
    /\ cmd[c][t].at = "dial" /\ up
    /\ cmd' = [cmd EXCEPT ![c][t].at = "sent"]
    /\ UNCHANGED <<relayVars, main, heartbeat, stopped, generation, endpoint, timer,
                   loop, untidy>>

\* What the relay does to its table for a command; Free stands for no port granted.
Granted(c, p) == lease[p] = Free /\ (c \in Tokens => \A q \in Port : lease[q] # c)

\* The relay executes a command whose sender is gone.
ExecuteLate(m) ==
    /\ m \in late /\ up
    /\ late' = late \ {m}
    /\ \/ m.op = "RELEASE" /\ lease' = [lease EXCEPT ![m.port] = Free]
       \/ /\ m.op = "CONNECT"
          /\ \E p \in Port : Granted(m.from, p) /\ lease' = [lease EXCEPT ![p] = m.from]
    /\ UNCHANGED <<up, outages, main, heartbeat, cmd, stopped, generation, endpoint,
                   timer, loop, untidy>>

\* A command whose socket is destroyed, if it had one.
Broken(k) == IF k.at = "sent" THEN [k EXCEPT !.at = "broken"] ELSE k

\* A CONNECT or RELEASE that its sender no longer waits for.
Abandoned(c, t) ==
    IF cmd[c][t].at = "sent" /\ cmd[c][t].op # "PING"
    THEN {[op |-> cmd[c][t].op, port |-> cmd[c][t].port, from |-> c]} ELSE {}

-----------------------------------------------------------------------------
(* Tunnel loops.  One TCP loop stands for the pool of eight.               *)

\* socket.destroy() on everything tracked: a loop that reads from a connected socket
\* sees it close and goes back to its while condition; one that is still connecting, to
\* the relay or to the local service, is not reached.  A UDP loop that waits for bind()
\* has no listener on its tunnel then, and misses the event.
Closed(l) ==
    CASE l.at \in {"wait", "pipe", "serve"} -> [l EXCEPT !.at = "check"]
      [] l.at = "bind"                      -> [l EXCEPT !.at = "lost"]
      [] OTHER                              -> l

Destroyed(c) == [l \in Loop |-> Closed(loop[c][l])]

StartTunnelLoops_forgotten(c, p, loops) == loops

\* Does the client's protocol have loops of this kind?
Uses(c, k) == IF k = "tcp" THEN c \in TcpClients ELSE c \in UdpClients

LoopOf(c) == {l \in Loop : Uses(c, l[1])}

\* startTunnelLoops: the loops of the new generation.
StartTunnelLoops(c, p, loops) ==
    [l \in Loop |->
        IF l \in LoopOf(c) /\ l[2] = generation[c] + 1
        THEN [at |-> "check", port |-> p] ELSE loops[l]]

LoopMayRun_anyGeneration(c, l) == ~stopped[c]

\* The condition of the outer while of both loops.
LoopMayRun(c, l) == ~stopped[c] /\ l[2] = generation[c]

loopFrame == <<relayVars, main, heartbeat, cmd, stopped, generation, endpoint, timer, untidy>>

\* A loop goes from one place to another.
Moves(c, l, from, to) ==
    loop[c][l].at = from /\ loop' = [loop EXCEPT ![c][l].at = to]

LoopCheck(c, l) ==
    /\ Moves(c, l, "check", IF LoopMayRun(c, l) THEN "dial" ELSE "none")
    /\ UNCHANGED loopFrame

\* The connection to the relay fails, or succeeds and TUNNEL or UDP_TUNNEL is written.
LoopDial(c, l) ==
    /\ Moves(c, l, "dial", "check") \/ (up /\ Moves(c, l, "dial", "wait"))
    /\ UNCHANGED loopFrame

\* The while of openUdpTunnel looks at this.stopped, and not at the generation.
ReadyPlace(c) == IF stopped[c] THEN "check" ELSE "serve"

\* The relay answers START or READY (the port is leased, to whomever), or closes; a TCP
\* loop gives up after TCP_TUNNEL_WAIT_TIMEOUT_MS.
LoopWait(c, l) ==
    /\ \/ /\ Moves(c, l, "wait", IF l[1] = "tcp" THEN "local" ELSE ReadyPlace(c))
          /\ up /\ lease[loop[c][l].port] # Free
       \/ Moves(c, l, "wait", "check")
    /\ UNCHANGED loopFrame

\* The connection to the local service is made, or fails; nothing destroys the
\* tunnel socket then, and it stays in this.sockets.
LoopLocal(c, l) ==
    /\ \E next \in {"pipe", "check"} : Moves(c, l, "local", next)
    /\ UNCHANGED loopFrame

\* The piped connection ends, or nothing passes for TCP_ACTIVE_IDLE_TIMEOUT_MS.  A UDP
\* tunnel breaks, or a frame comes after stop() has begun.
LoopPipe(c, l) ==
    /\ \E from \in {"pipe", "serve"} : Moves(c, l, from, "check")
    /\ UNCHANGED loopFrame

\* A frame of a remote not seen before: createUdpPeer waits for bind(), and meanwhile
\* the tunnel may break.
UdpFrame(c, l) ==
    /\ Moves(c, l, "serve", "bind") \/ Moves(c, l, "bind", "lost")
    /\ UNCHANGED loopFrame

\* The socket to the local service is bound.  The next readExact on a tunnel that has
\* been destroyed waits for events that are over.
UdpBound(c, l) ==
    /\ \/ Moves(c, l, "bind", ReadyPlace(c))
       \/ Moves(c, l, "lost", IF stopped[c] THEN "check" ELSE "hung")
    /\ UNCHANGED loopFrame

-----------------------------------------------------------------------------
(* start() and stop().                                                     *)

\* validate and validateRelayApi: STATS and TOKEN are queries, and any failure of
\* theirs makes start() throw.
Start(c) ==
    /\ main[c] = "idle"
    /\ \/ /\ main' = [main EXCEPT ![c] = "connect"]
          /\ cmd' = [cmd EXCEPT ![c]["main"] = Sending("CONNECT", NoPort)]
       \/ main' = [main EXCEPT ![c] = "failed"] /\ UNCHANGED cmd
    /\ UNCHANGED <<relayVars, heartbeat, stopped, generation, endpoint, timer, loop,
                   untidy>>

\* CONNECT is answered OK: the endpoint is recorded, loops and heartbeat start.
StartConnected(c, p) ==
    /\ main[c] = "connect" /\ cmd[c]["main"].at = "sent" /\ up
    /\ Granted(c, p)
    /\ lease' = [lease EXCEPT ![p] = c]
    /\ endpoint' = [endpoint EXCEPT ![c] = p]
    /\ loop' = [loop EXCEPT ![c] = StartTunnelLoops(c, p, loop[c])]
    /\ generation' = [generation EXCEPT ![c] = @ + 1]
    /\ timer' = [timer EXCEPT ![c] = TRUE]
    /\ main' = [main EXCEPT ![c] = "running"]
    /\ cmd' = [cmd EXCEPT ![c]["main"] = NoCmd]
    /\ UNCHANGED <<up, outages, late, heartbeat, stopped, untidy>>

\* The command fails: no connection, no answer in time, the socket closed.
Fails(c, t) ==
    /\ cmd[c][t].at # "none"
    /\ \/ ~up \/ CommandMayFail \/ cmd[c][t].at = "broken"
       \/ PingMayFail /\ cmd[c][t].op = "PING"

\* The relay answers CONNECT with an error: it is full or the token has a lease.
Refused(c, t) == cmd[c][t].at = "sent" /\ up /\ \A p \in Port : ~Granted(c, p)

StartFails(c) ==
    /\ main[c] = "connect"
    /\ \/ Refused(c, "main") /\ UNCHANGED <<late, untidy>>
       \/ /\ Fails(c, "main")
          /\ late' = late \cup Abandoned(c, "main")
          /\ untidy' = untidy \cup {c}
    /\ main' = [main EXCEPT ![c] = "failed"]
    /\ cmd' = [cmd EXCEPT ![c]["main"] = NoCmd]
    /\ UNCHANGED <<lease, up, outages, heartbeat, stopped, generation, endpoint, timer, loop>>

StopCommand(c) == IF endpoint[c] = NoPort THEN NoCmd ELSE Sending("RELEASE", endpoint[c])

\* stop() up to its await: the endpoint it releases is the one known now.
Stop(c) ==
    /\ main[c] = "running"
    /\ stopped' = [stopped EXCEPT ![c] = TRUE]
    /\ generation' = [generation EXCEPT ![c] = @ + 1]
    /\ timer' = [timer EXCEPT ![c] = FALSE]
    /\ cmd' = [cmd EXCEPT ![c]["main"] = StopCommand(c)]
    /\ main' = [main EXCEPT ![c] = "release"]
    /\ untidy' = IF heartbeat[c] # "idle" THEN untidy \cup {c} ELSE untidy
    /\ UNCHANGED <<relayVars, heartbeat, endpoint, loop>>

\* The rest of stop(), once RELEASE is answered (ok), has failed, or there was none:
\* every tracked socket is destroyed, a pending heartbeat command's included.
StopEnds(c, ok) ==
    /\ main[c] = "release"
    /\ IF ok THEN /\ cmd[c]["main"].at = "sent" /\ up
                  /\ lease' = [lease EXCEPT ![cmd[c]["main"].port] = Free]
             ELSE /\ Fails(c, "main") \/ cmd[c]["main"] = NoCmd
                  /\ UNCHANGED lease
    /\ late' = late \cup (IF ok THEN {} ELSE Abandoned(c, "main"))
                    \cup Abandoned(c, "heartbeat")
    /\ untidy' = IF ~ok /\ cmd[c]["main"] # NoCmd THEN untidy \cup {c} ELSE untidy
    /\ cmd' = [cmd EXCEPT ![c] = [t \in Task |-> IF t = "main" THEN NoCmd ELSE Broken(cmd[c][t])]]
    /\ loop' = [loop EXCEPT ![c] = Destroyed(c)]
    /\ main' = [main EXCEPT ![c] = "stopped"]
    /\ UNCHANGED <<up, outages, heartbeat, stopped, generation, endpoint, timer>>

-----------------------------------------------------------------------------
(* checkRelayHeartbeat and refreshRelayAllocation.  One at a time: a PING  *)
(* fails within ten of the fifteen seconds between two ticks, and          *)
(* this.reconnecting guards the rest.                                      *)

Tick(c) ==
    /\ timer[c] /\ heartbeat[c] = "idle" /\ ~stopped[c]
    /\ heartbeat' = [heartbeat EXCEPT ![c] = "ping"]
    /\ cmd' = [cmd EXCEPT ![c]["heartbeat"] = Sending("PING", NoPort)]
    /\ UNCHANGED <<relayVars, main, stopped, generation, endpoint, timer, loop, untidy>>

Pong(c) ==
    /\ heartbeat[c] = "ping" /\ cmd[c]["heartbeat"].at = "sent" /\ up
    /\ heartbeat' = [heartbeat EXCEPT ![c] = "idle"]
    /\ cmd' = [cmd EXCEPT ![c]["heartbeat"] = NoCmd]
    /\ UNCHANGED <<relayVars, main, stopped, generation, endpoint, timer, loop, untidy>>

\* refreshRelayAllocation up to its first await.  Nothing looks at this.stopped, and
\* the sockets it destroys include the one on which stop() waits for its RELEASE.
\* The bound leaves room for this refresh and a stop().
Refresh(c) ==
    /\ heartbeat[c] = "ping" /\ Fails(c, "heartbeat")
    /\ generation[c] + 3 <= MaxGeneration
    /\ generation' = [generation EXCEPT ![c] = @ + 1]
    /\ loop' = [loop EXCEPT ![c] = Destroyed(c)]
    /\ heartbeat' = [heartbeat EXCEPT ![c] = "release"]
    /\ late' = late \cup Abandoned(c, "main")
    /\ cmd' = [cmd EXCEPT ![c] = [t \in Task |-> IF t = "main" THEN Broken(cmd[c][t])
                                                ELSE Sending("RELEASE", endpoint[c])]]
    /\ UNCHANGED <<lease, up, outages, main, stopped, endpoint, timer, untidy>>

\* RELEASE is answered, or fails and the error is swallowed; CONNECT follows.
RefreshReleased(c, ok) ==
    /\ heartbeat[c] = "release"
    /\ IF ok THEN /\ cmd[c]["heartbeat"].at = "sent" /\ up
                  /\ lease' = [lease EXCEPT ![cmd[c]["heartbeat"].port] = Free]
                  /\ UNCHANGED <<late, untidy>>
             ELSE /\ Fails(c, "heartbeat")
                  /\ late' = late \cup Abandoned(c, "heartbeat")
                  /\ untidy' = untidy \cup {c}
                  /\ UNCHANGED lease
    /\ heartbeat' = [heartbeat EXCEPT ![c] = "connect"]
    /\ cmd' = [cmd EXCEPT ![c]["heartbeat"] = Sending("CONNECT", NoPort)]
    /\ UNCHANGED <<up, outages, main, stopped, generation, endpoint, timer, loop>>

EndpointAfterRefresh_kept(c, p) == endpoint[c]

EndpointAfterRefresh(c, p) == p

RefreshConnected(c, p) ==
    /\ heartbeat[c] = "connect" /\ cmd[c]["heartbeat"].at = "sent" /\ up
    /\ Granted(c, p)
    /\ lease' = [lease EXCEPT ![p] = c]
    /\ endpoint' = [endpoint EXCEPT ![c] = EndpointAfterRefresh(c, p)]
    /\ loop' = [loop EXCEPT ![c] = StartTunnelLoops(c, p, loop[c])]
    /\ generation' = [generation EXCEPT ![c] = @ + 1]
    /\ heartbeat' = [heartbeat EXCEPT ![c] = "idle"]
    /\ cmd' = [cmd EXCEPT ![c]["heartbeat"] = NoCmd]
    /\ UNCHANGED <<up, outages, late, main, stopped, timer, untidy>>

\* CONNECT fails or is refused (a token still has a lease): the promise rejects and
\* this.reconnecting is cleared.  endpoint and generation stay as they are.
RefreshFails(c) ==
    /\ heartbeat[c] = "connect"
    /\ \/ Refused(c, "heartbeat") /\ UNCHANGED late
       \/ Fails(c, "heartbeat") /\ late' = late \cup Abandoned(c, "heartbeat")
    /\ untidy' = untidy \cup {c}
    /\ heartbeat' = [heartbeat EXCEPT ![c] = "idle"]
    /\ cmd' = [cmd EXCEPT ![c]["heartbeat"] = NoCmd]
    /\ UNCHANGED <<lease, up, outages, main, stopped, generation, endpoint, timer, loop>>

\* The same, where the runtime ends the process: nobody awaits checkRelayHeartbeat, so the
\* rejection is unhandled.  What a stop() has sent is still executed.
RefreshCrashes(c) ==
    /\ heartbeat[c] = "connect"
    /\ Refused(c, "heartbeat") \/ Fails(c, "heartbeat")
    /\ late' = late \cup Abandoned(c, "main")
                    \cup (IF Refused(c, "heartbeat") THEN {} ELSE Abandoned(c, "heartbeat"))
    /\ untidy' = untidy \cup {c}
    /\ heartbeat' = [heartbeat EXCEPT ![c] = "idle"] /\ main' = [main EXCEPT ![c] = "crashed"]
    /\ timer' = [timer EXCEPT ![c] = FALSE]
    /\ cmd' = [cmd EXCEPT ![c] = [t \in Task |-> NoCmd]]
    /\ loop' = [loop EXCEPT ![c] = [l \in Loop |-> [at |-> "none", port |-> NoPort]]]
    /\ UNCHANGED <<lease, up, outages, stopped, generation, endpoint>>

-----------------------------------------------------------------------------
(* External: the relay process goes away with everything it knew.          *)

Outage ==
    /\ up /\ outages < MaxOutages
    /\ up' = FALSE /\ outages' = outages + 1
    /\ lease' = [p \in Port |-> Free] /\ late' = {}
    /\ cmd' = [c \in Client |-> [t \in Task |-> Broken(cmd[c][t])]]
    /\ loop' = [c \in Client |-> Destroyed(c)]
    /\ untidy' = untidy \cup {c \in Client : main[c] # "idle"}
    /\ UNCHANGED <<main, heartbeat, stopped, generation, endpoint, timer>>

RelayReturns ==
    /\ ~up /\ up' = TRUE
    /\ UNCHANGED <<lease, outages, late, main, heartbeat, cmd, stopped, generation,
                   endpoint, timer, loop, untidy>>

LoopStep(c, l) == \/ LoopCheck(c, l) \/ LoopDial(c, l) \/ LoopWait(c, l)
                  \/ LoopLocal(c, l) \/ UdpBound(c, l)

MainStep(c) == \/ StartFails(c) \/ \E p \in Port : StartConnected(c, p)
               \/ \E ok \in BOOLEAN : StopEnds(c, ok)

HeartbeatStep(c) == \/ Tick(c) \/ Pong(c) \/ Refresh(c) \/ RefreshFails(c)
                    \/ RefreshCrashes(c)
                    \/ \E ok \in BOOLEAN : RefreshReleased(c, ok)
                    \/ \E p \in Port : RefreshConnected(c, p)

Next ==
    \/ \E c \in Client : \/ Start(c) \/ Stop(c) \/ MainStep(c) \/ HeartbeatStep(c)
                         \/ \E l \in LoopOf(c) : LoopStep(c, l) \/ LoopPipe(c, l) \/ UdpFrame(c, l)
                         \/ \E t \in Task : Write(c, t)
    \/ \E m \in late : ExecuteLate(m)
    \/ Outage \/ RelayReturns

Spec == Init /\ [][Next]_vars

\* The runtime runs every callback that is due and its timers fire; the kernel reports
\* connections made, refused or closed; the relay executes what it has received, answers
\* a tunnel or closes it, and comes back after an outage.  Nothing obliges a user to start
\* or stop, nor a session that is piped or a tunnel that is served to end.
Fairness ==
    /\ \A c \in Client : /\ WF_vars(MainStep(c) \/ Write(c, "main"))
                          /\ WF_vars(HeartbeatStep(c) \/ Write(c, "heartbeat"))
                          /\ \A l \in LoopOf(c) : WF_vars(LoopStep(c, l))
    /\ WF_vars(\E m \in late : ExecuteLate(m))
    /\ WF_vars(RelayReturns)

FairSpec == Spec /\ Fairness

-----------------------------------------------------------------------------
(* Properties.                                                             *)

\* Type correctness.
TypeOK ==
    /\ lease \in [Port -> Client \cup {Free}] /\ up \in BOOLEAN /\ outages \in 0 .. MaxOutages
    /\ late \subseteq [op : {"CONNECT", "RELEASE"}, port : Port \cup {NoPort}, from : Client]
    /\ main \in [Client -> {"idle", "connect", "running", "release", "stopped", "failed", "crashed"}]
    /\ heartbeat \in [Client -> {"idle", "ping", "release", "connect"}]
    /\ cmd \in [Client -> [Task -> [op   : {"none", "CONNECT", "RELEASE", "PING"},
                                    port : Port \cup {NoPort},
                                    at   : {"none", "dial", "sent", "broken"}]]]
    /\ stopped \in [Client -> BOOLEAN] /\ generation \in [Client -> 0 .. MaxGeneration]
    /\ endpoint \in [Client -> Port \cup {NoPort}] /\ timer \in [Client -> BOOLEAN]
    /\ loop \in [Client -> [Loop -> [at   : {"none", "check", "dial", "wait", "local", "pipe",
                                             "serve", "bind", "lost", "hung"},
                                     port : Port \cup {NoPort}]]]
    /\ untidy \subseteq Client

\* A client leaves no lease behind: what the relay holds for it is its endpoint,
\* and after stop() nothing, unless stop() met a heartbeat in flight or a command
\* was lost (untidy).
LeaseAccounted ==
    \A c \in Client \ untidy : \A p \in Port :
        lease[p] = c => endpoint[c] = p /\ main[c] \in {"running", "release"}

\* A running client keeps the port it shows its user: nobody else's RELEASE takes
\* it away.  RELEASE names a port and not its holder, so this rests on no client
\* ever releasing a port it has lost (untidy).
KeepsLease ==
    untidy = {} => \A c \in Client :
        main[c] = "running" /\ heartbeat[c] \in {"idle", "ping"} => lease[endpoint[c]] = c

\* The client holds the port it shows, and its tunnel loops run for it.
Served(c) ==
    /\ endpoint[c] # NoPort /\ lease[endpoint[c]] = c
    /\ \A k \in Kind : Uses(c, k) => loop[c][k, generation[c]].at \notin {"none", "hung"}

\* A heartbeat that fails although the relay is well does no harm: the client ends up
\* with a lease and its tunnel loops again, unless it is stopped or something is lost.
\* (When the relay really is gone this fails: CONNECT is tried once.)
FalseAlarmHarmless ==
    \A c \in Client : (heartbeat[c] = "release" /\ untidy = {})
                         ~> (stopped[c] \/ Served(c) \/ untidy # {})

\* The loops of a replaced lease and of a stopped client end, although nothing reaches a
\* loop that is still connecting when the sockets are destroyed.  Three stay: a TCP loop
\* whose session goes on, a UDP loop of a client that has not stopped and gets through to
\* the relay after all (its inner while does not look at the generation), and one whose
\* tunnel broke during bind().
OldLoopsEnd ==
    \A c \in Client : \A l \in LoopOf(c) :
        (loop[c][l].at # "none" /\ l[2] < generation[c])
            ~> \/ loop[c][l].at \in {"none", "pipe", "hung"}
               \/ loop[c][l].at = "serve" /\ ~stopped[c]

\* Ports are lent, never reserved for good: a port leased to a client that has
\* stopped becomes free again.
NoPermanentReservation ==
    \A c \in Client : \A p \in Port :
        (main[c] = "stopped" /\ lease[p] = c) ~> lease[p] # c

\* Client and relay agree about leases: the types, nothing left behind at the relay, and
\* nothing taken from a client that still shows its port.
LeaseAgreed == TypeOK /\ LeaseAccounted /\ KeepsLease
=============================================================================
