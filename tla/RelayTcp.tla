------------------------------ MODULE RelayTcp ------------------------------
(***************************************************************************)
(* The TCP side of a shared-relay lease (src/src/shared_relay.rs).  A      *)
(* granted CONNECT spawns an accept loop on the leased port                *)
(* (start_relay_port); the client of the lease keeps idle tunnels queued   *)
(* for it (TUNNEL); each public connection is a task that takes a tunnel   *)
(* and copies (relay_tcp_connection).  RELEASE tells the loop by           *)
(* connecting to the port itself.  The maps of SharedRelayState have a     *)
(* lock each, so a check of one and an update of another are two steps.    *)
(* Loops and tunnels are named after the lease (the CONNECT) they serve.   *)
(***************************************************************************)
EXTENDS PortLease

CONSTANTS
    Public,        \* public TCP connections that arrive at relay ports
    Tunnel,        \* control connections that send TUNNEL
    None

\* A wake-up is a connection of its own, and None is nobody's name.
ASSUME RelayTcpAssumption ==
    /\ None \notin Conn /\ None \notin Tunnel
    /\ Public \cap Releaser = {}

VARIABLES
    listener, accepted, \* start_relay_port of a lease, and the connection it holds
    tcp_tunnels,        \* port -> VecDeque of idle tunnels
    tunnel,             \* the TUNNEL handlers
    public,             \* the relay_tcp_connection tasks
    wake,               \* the connection a RELEASE makes to the port it released
    quiet,              \* history: leases granted on a port nothing else was using
    told                \* history: leases whose listener was bound at the last RELEASE

tcpVars == <<listener, accepted, tcp_tunnels, tunnel, public, wake, quiet, told>>
vars == <<leaseVars, tcpVars>>

\* The wake-up of a RELEASE reaches the accept loop as one more connection.
Connection == Public \cup Releaser

IdlePublic == [pc |-> "idle", port |-> NoPort, lease |-> None, tunnel |-> None]

Init ==
    /\ LeaseInit
    /\ listener = [c \in Conn |-> "none"] /\ accepted = [c \in Conn |-> None]
    /\ tcp_tunnels = [p \in Ports |-> <<>>]
    /\ tunnel = [t \in Tunnel |-> [pc |-> "idle", lease |-> None, stale |-> FALSE]]
    /\ public = [x \in Connection |-> IdlePublic]
    /\ wake = [r \in Releaser |-> NoPort]
    /\ quiet = {} /\ told = {}

Allocated(p) == p \in Ports /\ port_allocations[p] # Free      \* contains_key
LeaseHolder(p) == IF Allocated(p) THEN port_allocations[p].client_addr ELSE None

\* The TcpListener occupies its port until the accept loop returns.
Bound(c) == listener[c] \in {"accept", "check"}

\* Nothing that earlier leases started on port p is left.
Quiet(p) ==
    /\ \A r \in Releaser : release_port[r] # p /\ wake[r] # p
    /\ \A c \in Conn : port[c] = p => listener[c] = "stopped"
    /\ \A t \in Tunnel : tunnel[t].lease # None /\ port[tunnel[t].lease] = p
                            => tunnel[t].pc = "closed"
    /\ \A x \in Connection : public[x].port = p => public[x].pc = "closed"

-----------------------------------------------------------------------------
(* Leases.                                                                 *)

Connect(c) ==
    /\ ConnectStep(c)
    /\ IF port'[c] # port[c]
       THEN /\ quiet' = IF Quiet(port'[c]) THEN quiet \cup {c} ELSE quiet
            /\ told' = {d \in told : port[d] # port'[c]}
       ELSE UNCHANGED <<quiet, told>>
    /\ UNCHANGED <<listener, accepted, tcp_tunnels, tunnel, public, wake>>

\* The tail of handle_connect: the loop is spawned before "OK <port>" is written.
SpawnRelay(c) ==
    /\ pc[c] = "done" /\ reply[c] = "OK" /\ listener[c] = "none"
    /\ listener' = [listener EXCEPT ![c] = "bind"]
    /\ UNCHANGED <<leaseVars, accepted, tcp_tunnels, tunnel, public, wake, quiet, told>>

WakeAfterRelease_none(p) == NoPort

\* The port the self-connection of a RELEASE goes to.
WakeAfterRelease(p) == p

\* A RELEASE connection makes one wake-up at a time.
ReleasePort(r, p) ==
    /\ wake[r] = NoPort /\ public[r].pc \in {"idle", "closed"}
    /\ Release(r, p)
    /\ wake' = [wake EXCEPT ![r] = WakeAfterRelease(p)]
    /\ told' = told \cup {c \in Conn : port[c] = p /\ Bound(c)}
    /\ UNCHANGED <<listener, accepted, tcp_tunnels, tunnel, public, quiet>>

TunnelsAfterRelease_kept(p) == tcp_tunnels[p]

TunnelsAfterRelease(p) == <<>>

\* RELEASE drops the idle tunnels of the port; the UDP maps are RelayUdp's.
ReleaseCleanup(r) ==
    LET p == release_port[r]
        dropped == {tcp_tunnels[p][i] : i \in DOMAIN tcp_tunnels[p]} IN
    /\ CleanupStep(r)
    /\ \/ /\ release_pc[r] = "tcp_tunnels"
          /\ tunnel' = [t \in Tunnel |-> IF t \in dropped THEN [tunnel[t] EXCEPT !.pc = "closed"]
                                                          ELSE tunnel[t]]
          /\ tcp_tunnels' = [tcp_tunnels EXCEPT ![p] = TunnelsAfterRelease(p)]
       \/ /\ release_pc[r] # "tcp_tunnels"
          /\ UNCHANGED <<tunnel, tcp_tunnels>>
    /\ UNCHANGED <<listener, accepted, public, wake, quiet, told>>

\* config.yml is not edited here: PortLease covers what an edit changes.
OtherLeaseStep ==
    /\ UdpLoopNotify \/ \E r \in Releaser : ReleaseNotify(r)
    /\ UNCHANGED tcpVars

-----------------------------------------------------------------------------
(* start_relay_port and relay_tcp_connection.                              *)

\* A port whose previous listener still runs cannot be bound; the task gives up.
Bind(c) ==
    /\ listener[c] = "bind"
    /\ listener' = [listener EXCEPT ![c] =
                       IF \E d \in Conn : port[d] = port[c] /\ Bound(d)
                       THEN "stopped" ELSE "accept"]
    /\ UNCHANGED <<leaseVars, accepted, tcp_tunnels, tunnel, public, wake, quiet, told>>

Accept(c, x) ==
    /\ listener[c] = "accept"
    /\ \/ x \in Public /\ public[x].pc = "idle" /\ UNCHANGED wake
       \/ /\ x \in Releaser /\ wake[x] = port[c]
          /\ wake' = [wake EXCEPT ![x] = NoPort]
    /\ listener' = [listener EXCEPT ![c] = "check"]
    /\ accepted' = [accepted EXCEPT ![c] = x]
    /\ public' = [public EXCEPT ![x] = [IdlePublic EXCEPT !.pc = "accepted",
                                                          !.port = port[c]]]
    /\ UNCHANGED <<leaseVars, tcp_tunnels, tunnel, quiet, told>>

\* A wake-up that finds nobody listening is refused.
WakeRefused(r) ==
    /\ wake[r] # NoPort
    /\ ~\E c \in Conn : port[c] = wake[r] /\ Bound(c)
    /\ wake' = [wake EXCEPT ![r] = NoPort]
    /\ UNCHANGED <<leaseVars, listener, accepted, tcp_tunnels, tunnel, public, quiet, told>>

\* The loop looks at the port, not at the lease it was started for.
CheckAllocation(c) ==
    LET x == accepted[c] IN
    /\ listener[c] = "check"
    /\ IF Allocated(port[c])
       THEN /\ public' = [public EXCEPT ![x].pc = "waiting",
                                        ![x].lease = LeaseHolder(port[c])]
            /\ listener' = [listener EXCEPT ![c] = "accept"]
       ELSE /\ public' = [public EXCEPT ![x].pc = "closed"]
            /\ listener' = [listener EXCEPT ![c] = "stopped"]
    /\ accepted' = [accepted EXCEPT ![c] = None]
    /\ UNCHANGED <<leaseVars, tcp_tunnels, tunnel, wake, quiet, told>>

RemainingTunnels_peek(p) == tcp_tunnels[p]

RemainingTunnels(p) == Tail(tcp_tunnels[p])             \* pop_front

\* wait_for_ready_client_tunnel: take the oldest tunnel and write START to it; one
\* that cannot be written to is discarded and the connection keeps polling.  The
\* poll does not look at the allocation.
TakeTunnel(x) ==
    LET p == public[x].port
        t == Head(tcp_tunnels[p]) IN
    /\ public[x].pc = "waiting"
    /\ tcp_tunnels[p] # <<>>
    /\ tcp_tunnels' = [tcp_tunnels EXCEPT ![p] = RemainingTunnels(p)]
    /\ \/ /\ tunnel' = [tunnel EXCEPT ![t].pc = "serving"]
          /\ public' = [public EXCEPT ![x].pc = "served", ![x].tunnel = t]
       \/ /\ tunnel' = [tunnel EXCEPT ![t].pc = "closed"]
          /\ UNCHANGED public
    /\ UNCHANGED <<leaseVars, listener, accepted, wake, quiet, told>>

\* One copy direction ends (or the PROXY header cannot be written) and select! drops
\* both streams.
CloseRelay(x) ==
    /\ public[x].pc = "served"
    /\ public' = [public EXCEPT ![x].pc = "closed", ![x].tunnel = None]
    /\ tunnel' = [tunnel EXCEPT ![public[x].tunnel].pc = "closed"]
    /\ UNCHANGED <<leaseVars, listener, accepted, tcp_tunnels, wake, quiet, told>>

-----------------------------------------------------------------------------
(* TUNNEL.                                                                 *)

\* The client of lease c learns its port from "OK <port>", and may go on using it
\* after somebody released it (stale).
TunnelCheck(t, c) ==
    /\ tunnel[t].pc = "idle" /\ listener[c] # "none"
    /\ tunnel' = [tunnel EXCEPT ![t] =
                     [pc    |-> IF Allocated(port[c]) THEN "checked" ELSE "closed",
                      lease |-> c, stale |-> LeaseHolder(port[c]) # c]]
    /\ UNCHANGED <<leaseVars, listener, accepted, tcp_tunnels, public, wake, quiet, told>>

TunnelPush(t) ==
    /\ tunnel[t].pc = "checked"
    /\ tunnel' = [tunnel EXCEPT ![t].pc = "queued"]
    /\ tcp_tunnels' = [tcp_tunnels EXCEPT ![port[tunnel[t].lease]] = Append(@, t)]
    /\ UNCHANGED <<leaseVars, listener, accepted, public, wake, quiet, told>>

-----------------------------------------------------------------------------
Next ==
    \/ \E c \in Conn : \/ Connect(c) \/ SpawnRelay(c) \/ Bind(c) \/ CheckAllocation(c)
                       \/ \E x \in Connection : Accept(c, x)
    \/ \E r \in Releaser : \/ \E p \in Ports : ReleasePort(r, p)
                           \/ ReleaseCleanup(r) \/ WakeRefused(r)
    \/ OtherLeaseStep
    \/ \E x \in Connection : TakeTunnel(x) \/ CloseRelay(x)
    \/ \E t \in Tunnel : TunnelPush(t) \/ \E c \in Conn : TunnelCheck(t, c)

Spec == Init /\ [][Next]_vars

\* Tokio runs every runnable task, and a connection over the loopback interface
\* reaches a loop that accepts.  Nothing obliges clients or players to act.
Fairness ==
    /\ \A c \in Conn : /\ WF_vars(Bind(c) \/ CheckAllocation(c))
                       /\ WF_vars(\E r \in Releaser : Accept(c, r))

FairSpec == Spec /\ Fairness

-----------------------------------------------------------------------------
(* Properties.                                                             *)

\* Type correctness.
TypeOK ==
    /\ LeaseTypeOK
    /\ listener \in [Conn -> {"none", "bind", "accept", "check", "stopped"}]
    /\ accepted \in [Conn -> Connection \cup {None}]
    /\ tcp_tunnels \in [Ports -> Seq(Tunnel)]
    /\ tunnel \in [Tunnel -> [pc    : {"idle", "checked", "queued", "serving", "closed"},
                              lease : Conn \cup {None}, stale : BOOLEAN]]
    /\ public \in [Connection -> [pc     : {"idle", "accepted", "waiting", "served", "closed"},
                                  port   : Ports \cup {NoPort},
                                  lease  : Conn \cup {None},
                                  tunnel : Tunnel \cup {None}]]
    /\ wake \in [Releaser -> Ports \cup {NoPort}]
    /\ quiet \subseteq Conn /\ told \subseteq Conn

\* A client tunnel carries at most one public connection: the tasks that poll
\* tcp_tunnels never share one, and none that serves is still on offer.
TunnelServesOnce ==
    /\ \A x, y \in Connection :
          /\ public[x].pc = "served" /\ public[y].pc = "served"
          /\ public[x].tunnel = public[y].tunnel
          => x = y
    /\ \A p \in Ports : \A i \in DOMAIN tcp_tunnels[p] :
          tunnel[tcp_tunnels[p][i]].pc = "queued"

\* A lease granted on a quiet port (nothing that earlier leases started there is
\* left) keeps its listener for as long as it is held.
QuietLeaseServed ==
    \A c \in quiet : LeaseHolder(port[c]) = c => listener[c] # "stopped"

\* On such a lease the public meets only the tunnels of that lease's own client, or
\* of one that used a port which was no longer its own.
QuietLeaseIsolated ==
    \A c \in quiet : LeaseHolder(port[c]) = c =>
        LET Own(t) == tunnel[t].lease = c \/ tunnel[t].stale IN
        /\ \A i \in DOMAIN tcp_tunnels[port[c]] : Own(tcp_tunnels[port[c]][i])
        /\ \A x \in Connection : public[x].lease = c /\ public[x].pc = "served"
                                    => Own(public[x].tunnel)

\* After a RELEASE the listener goes away: one that was bound when the port was
\* released stops, unless the port is leased again first.
ReleasedListenerStops ==
    \A c \in Conn : c \in told ~> (listener[c] = "stopped" \/ Allocated(port[c]))

\* Tunnels are sound: the types, and no tunnel for two public connections.
TunnelsSound == TypeOK /\ TunnelServesOnce

\* A lease granted on a quiet port works: it keeps its listener, and the public meets its
\* own client's tunnels.
QuietLeaseKept == QuietLeaseServed /\ QuietLeaseIsolated
=============================================================================
