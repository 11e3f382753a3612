------------------------------ MODULE RelayUdp ------------------------------
(***************************************************************************)
(* The UDP side of a shared-relay lease (src/src/shared_relay.rs).  A      *)
(* granted CONNECT spawns a receive loop on the leased port                *)
(* (start_udp_relay_port) that registers its socket in udp_sockets; the    *)
(* client attaches a tunnel (UDP_TUNNEL), which clones the socket and      *)
(* registers a bounded channel in udp_tunnels; the loop forwards into that *)
(* channel.  RELEASE tells the loop by sending a datagram to the port.     *)
(* The contents of datagrams, and with them the cache of pongs, are left   *)
(* out: they change none of the state below.                               *)
(***************************************************************************)
EXTENDS PortLease

CONSTANTS
    UdpTunnel,     \* control connections that send UDP_TUNNEL
    ChannelSize,   \* capacity of a tunnel's channel (512 in the code)
    RecvErrors,    \* may recv_from fail?
    None

ASSUME RelayUdpAssumption ==
    /\ None \notin Conn \cup UdpTunnel
    /\ ChannelSize \in Nat

VARIABLES
    loop, sending,  \* start_udp_relay_port of a lease, and the tunnel it sends to
    udp_sockets,    \* port -> the lease whose socket is registered
    udp_tunnels,    \* port -> the registered tunnel
    tunnel,         \* the UDP_TUNNEL handlers
    wake,           \* the datagram a RELEASE sends to the port it released
    quiet,          \* history: leases granted on a port nothing else was using
    told            \* history: leases whose loop was receiving at the last RELEASE

udpVars == <<loop, sending, udp_sockets, udp_tunnels, tunnel, wake, quiet, told>>
vars == <<leaseVars, udpVars>>

IdleTunnel == [pc |-> "idle", lease |-> None, socket |-> None, client |-> "up",
               reader |-> FALSE, writer |-> FALSE, queue |-> 0]

Init ==
    /\ LeaseInit
    /\ loop = [c \in Conn |-> "none"] /\ sending = [c \in Conn |-> None]
    /\ udp_sockets = [p \in Ports |-> None]
    /\ udp_tunnels = [p \in Ports |-> None]
    /\ tunnel = [u \in UdpTunnel |-> IdleTunnel]
    /\ wake = [r \in Releaser |-> NoPort]
    /\ quiet = {} /\ told = {}

Allocated(p) == p \in Ports /\ port_allocations[p] # Free      \* contains_key
LeaseHolder(p) == IF Allocated(p) THEN port_allocations[p].client_addr ELSE None

Looping(c) == loop[c] \in {"register", "recv", "check", "serve", "send", "unregister", "notify"}

\* The Arc<UdpSocket> of a lease lives as long as its loop, its registration or a
\* tunnel handler that cloned it, and occupies the port until then.
Bound(c) ==
    \/ Looping(c)
    \/ \E p \in Ports : udp_sockets[p] = c
    \/ \E u \in UdpTunnel : tunnel[u].socket = c

\* Nothing that earlier leases started on port p is left.
Quiet(p) ==
    /\ \A r \in Releaser : release_port[r] # p /\ wake[r] # p
    /\ \A c \in Conn : port[c] = p => loop[c] = "stopped" /\ ~Bound(c)

-----------------------------------------------------------------------------
(* Leases.                                                                 *)

Connect(c) ==
    /\ ConnectStep(c)
    /\ IF port'[c] # port[c]
       THEN /\ quiet' = IF Quiet(port'[c]) THEN quiet \cup {c} ELSE quiet
            /\ told' = {d \in told : port[d] # port'[c]}
       ELSE UNCHANGED <<quiet, told>>
    /\ UNCHANGED <<loop, sending, udp_sockets, udp_tunnels, tunnel, wake>>

\* The tail of handle_connect: the loop is spawned before "OK <port>" is written.
SpawnRelay(c) ==
    /\ pc[c] = "done" /\ reply[c] = "OK" /\ loop[c] = "none"
    /\ loop' = [loop EXCEPT ![c] = "bind"]
    /\ UNCHANGED <<leaseVars, sending, udp_sockets, udp_tunnels, tunnel, wake, quiet, told>>

\* The port the datagram of a RELEASE goes to.
WakeAfterRelease(p) == p

\* A RELEASE connection makes one wake-up at a time.
ReleasePort(r, p) ==
    /\ wake[r] = NoPort
    /\ Release(r, p)
    /\ wake' = [wake EXCEPT ![r] = WakeAfterRelease(p)]
    /\ told' = told \cup {c \in Conn : port[c] = p /\ loop[c] \in {"recv", "check"}}
    /\ UNCHANGED <<loop, sending, udp_sockets, udp_tunnels, tunnel, quiet>>

\* RELEASE forgets the tunnel and the socket of the port; the loop and the tunnel
\* handlers keep the ones they hold.
ReleaseCleanup(r) ==
    LET p == release_port[r] IN
    /\ CleanupStep(r)
    /\ udp_tunnels' = IF release_pc[r] = "udp_tunnels"
                      THEN [udp_tunnels EXCEPT ![p] = None] ELSE udp_tunnels
    /\ udp_sockets' = IF release_pc[r] = "udp_sockets"
                      THEN [udp_sockets EXCEPT ![p] = None] ELSE udp_sockets
    /\ UNCHANGED <<loop, sending, tunnel, wake, quiet, told>>

\* config.yml is not edited here: PortLease covers what an edit changes.
ReleaseDone(r) == ReleaseNotify(r) /\ UNCHANGED udpVars

-----------------------------------------------------------------------------
(* start_udp_relay_port.                                                   *)

\* A port whose previous socket is still alive cannot be bound; the task gives up.
Bind(c) ==
    /\ loop[c] = "bind"
    /\ loop' = [loop EXCEPT ![c] =
                   IF \E d \in Conn : port[d] = port[c] /\ Bound(d)
                   THEN "stopped" ELSE "register"]
    /\ UNCHANGED <<leaseVars, sending, udp_sockets, udp_tunnels, tunnel, wake, quiet, told>>

RegisterSocket(c) ==
    /\ loop[c] = "register"
    /\ udp_sockets' = [udp_sockets EXCEPT ![port[c]] = c]
    /\ loop' = [loop EXCEPT ![c] = "recv"]
    /\ UNCHANGED <<leaseVars, sending, udp_tunnels, tunnel, wake, quiet, told>>

\* A player's datagram arrives ...
Recv(c) ==
    /\ loop[c] = "recv"
    /\ loop' = [loop EXCEPT ![c] = "check"]
    /\ UNCHANGED <<leaseVars, sending, udp_sockets, udp_tunnels, tunnel, wake, quiet, told>>

\* ... or the wake-up of a RELEASE.
RecvWake(c, r) ==
    /\ loop[c] = "recv" /\ wake[r] = port[c]
    /\ loop' = [loop EXCEPT ![c] = "check"]
    /\ wake' = [wake EXCEPT ![r] = NoPort]
    /\ UNCHANGED <<leaseVars, sending, udp_sockets, udp_tunnels, tunnel, quiet, told>>

\* The `?` on recv_from ends the loop without any of its clean-up.
RecvError(c) ==
    /\ RecvErrors /\ loop[c] = "recv"
    /\ loop' = [loop EXCEPT ![c] = "failed"]
    /\ UNCHANGED <<leaseVars, sending, udp_sockets, udp_tunnels, tunnel, wake, quiet, told>>

\* A datagram to a port without a loop is lost.
WakeLost(r) ==
    /\ wake[r] # NoPort
    /\ ~\E c \in Conn : port[c] = wake[r] /\ Looping(c)
    /\ wake' = [wake EXCEPT ![r] = NoPort]
    /\ UNCHANGED <<leaseVars, loop, sending, udp_sockets, udp_tunnels, tunnel, quiet, told>>

LoopAfterCheck_ignoringRelease(c) == "serve"

LoopAfterCheck_needingTunnel(c) ==
    IF Allocated(port[c]) /\ udp_tunnels[port[c]] # None THEN "serve" ELSE "unregister"

LoopAfterCheck(c) == IF Allocated(port[c]) THEN "serve" ELSE "unregister"

\* Every datagram makes the loop look at the port, not at the lease it was started
\* for; a loop that finds the port released unregisters the socket of the port,
\* notifies the queue and ends.
CheckAllocation(c) ==
    /\ loop[c] = "check"
    /\ loop' = [loop EXCEPT ![c] = LoopAfterCheck(c)]
    /\ UNCHANGED <<leaseVars, sending, udp_sockets, udp_tunnels, tunnel, wake, quiet, told>>

UnregisterSocket(c) ==
    /\ loop[c] = "unregister"
    /\ udp_sockets' = [udp_sockets EXCEPT ![port[c]] = None]
    /\ loop' = [loop EXCEPT ![c] = "notify"]
    /\ UNCHANGED <<leaseVars, sending, udp_tunnels, tunnel, wake, quiet, told>>

Exit(c) ==
    /\ loop[c] = "notify"
    /\ UdpLoopNotify
    /\ loop' = [loop EXCEPT ![c] = "stopped"]
    /\ UNCHANGED <<sending, udp_sockets, udp_tunnels, tunnel, wake, quiet, told>>

\* An offline ping may be answered from the cache; either way the datagram is for
\* the registered tunnel, or dropped when there is none.
Serve(c) ==
    LET u == udp_tunnels[port[c]] IN
    /\ loop[c] = "serve"
    /\ loop' = [loop EXCEPT ![c] = IF u = None THEN "recv" ELSE "send"]
    /\ sending' = [sending EXCEPT ![c] = u]
    /\ UNCHANGED <<leaseVars, udp_sockets, udp_tunnels, tunnel, wake, quiet, told>>

ChannelHasRoom(u) == tunnel[u].queue < ChannelSize

\* tunnel.send().await blocks while the channel is full and fails once its receiver
\* is gone; the loop goes on either way.
Send(c) ==
    LET u == sending[c] IN
    /\ loop[c] = "send"
    /\ \/ /\ tunnel[u].writer /\ ChannelHasRoom(u)
          /\ tunnel' = [tunnel EXCEPT ![u].queue = @ + 1]
       \/ ~tunnel[u].writer /\ UNCHANGED tunnel
    /\ loop' = [loop EXCEPT ![c] = "recv"]
    /\ sending' = [sending EXCEPT ![c] = None]
    /\ UNCHANGED <<leaseVars, udp_sockets, udp_tunnels, wake, quiet, told>>

-----------------------------------------------------------------------------
(* UDP_TUNNEL.                                                             *)

\* The client of lease c, which learned its port from "OK <port>".
TunnelCheck(u, c) ==
    /\ tunnel[u].pc = "idle" /\ loop[c] # "none"
    /\ tunnel' = [tunnel EXCEPT ![u].pc = IF Allocated(port[c]) THEN "lookup" ELSE "done",
                                ![u].lease = c]
    /\ UNCHANGED <<leaseVars, loop, sending, udp_sockets, udp_tunnels, wake, quiet, told>>

\* Without a registered socket the handler returns and the client sees a close.
TunnelLookup(u) ==
    LET s == udp_sockets[port[tunnel[u].lease]] IN
    /\ tunnel[u].pc = "lookup"
    /\ tunnel' = [tunnel EXCEPT ![u].pc = IF s = None THEN "done" ELSE "register",
                                ![u].socket = s]
    /\ UNCHANGED <<leaseVars, loop, sending, udp_sockets, udp_tunnels, wake, quiet, told>>

\* The newest tunnel of a port is the registered one.  When READY cannot be written
\* the handler returns and leaves its dead channel behind.
TunnelRegister(u) ==
    /\ tunnel[u].pc = "register"
    /\ udp_tunnels' = [udp_tunnels EXCEPT ![port[tunnel[u].lease]] = u]
    /\ \/ tunnel' = [tunnel EXCEPT ![u].pc = "open", ![u].reader = TRUE, ![u].writer = TRUE]
       \/ tunnel' = [tunnel EXCEPT ![u].pc = "done", ![u].socket = None]
    /\ UNCHANGED <<leaseVars, loop, sending, udp_sockets, wake, quiet, told>>

\* External: the client goes away.
ClientCloses(u) ==
    /\ tunnel[u].pc = "open" /\ tunnel[u].client = "up"
    /\ tunnel' = [tunnel EXCEPT ![u].client = "gone"]
    /\ UNCHANGED <<leaseVars, loop, sending, udp_sockets, udp_tunnels, wake, quiet, told>>

\* read_task sends the client's frames from the cloned socket (no state changes) and
\* ends, dropping the clone, when the client is gone or sends a frame that cannot be read.
ReaderEnds(u) ==
    /\ tunnel[u].reader
    /\ tunnel' = [tunnel EXCEPT ![u].reader = FALSE, ![u].socket = None]
    /\ UNCHANGED <<leaseVars, loop, sending, udp_sockets, udp_tunnels, wake, quiet, told>>

\* write_task: frames leave in order; only a failed write ends the task, because the
\* handler itself keeps a sender of the channel.
WriteFrame(u) ==
    /\ tunnel[u].writer /\ tunnel[u].queue > 0
    /\ \/ tunnel' = [tunnel EXCEPT ![u].queue = @ - 1]
       \/ /\ tunnel[u].client = "gone"
          /\ tunnel' = [tunnel EXCEPT ![u].writer = FALSE, ![u].queue = 0]
    /\ UNCHANGED <<leaseVars, loop, sending, udp_sockets, udp_tunnels, wake, quiet, told>>

Unregistered_always(u, p) == None

\* Only the registration of this very channel is removed (same_channel).
Unregistered(u, p) == IF udp_tunnels[p] = u THEN None ELSE udp_tunnels[p]

TunnelEnds(u) ==
    LET p == port[tunnel[u].lease] IN
    /\ tunnel[u].pc = "open" /\ ~tunnel[u].reader /\ ~tunnel[u].writer
    /\ udp_tunnels' = [udp_tunnels EXCEPT ![p] = Unregistered(u, p)]
    /\ tunnel' = [tunnel EXCEPT ![u].pc = "done"]
    /\ UNCHANGED <<leaseVars, loop, sending, udp_sockets, wake, quiet, told>>

-----------------------------------------------------------------------------
LoopStep(c) == \/ Bind(c) \/ RegisterSocket(c) \/ CheckAllocation(c) \/ UnregisterSocket(c)
               \/ Exit(c) \/ Serve(c) \/ Send(c)
               \/ \E r \in Releaser : RecvWake(c, r)

TunnelStep(u) == \/ TunnelLookup(u) \/ TunnelRegister(u) \/ ReaderEnds(u)
                 \/ WriteFrame(u) \/ TunnelEnds(u)

Next ==
    \/ \E c \in Conn : Connect(c) \/ SpawnRelay(c) \/ LoopStep(c) \/ Recv(c) \/ RecvError(c)
    \/ \E r \in Releaser : \/ \E p \in Ports : ReleasePort(r, p)
                           \/ ReleaseCleanup(r) \/ ReleaseDone(r) \/ WakeLost(r)
    \/ \E u \in UdpTunnel : \/ TunnelStep(u) \/ ClientCloses(u)
                            \/ \E c \in Conn : TunnelCheck(u, c)

Spec == Init /\ [][Next]_vars

\* Tokio runs every runnable task, and the wake-up datagram, which travels over the
\* loopback interface, is delivered to a loop that receives.  Nothing obliges
\* clients, players or operators to act: in particular write_task is not fair, a
\* client that does not read blocks it.
Fairness ==
    /\ \A c \in Conn :
        /\ WF_vars((TryAllocate(c) \/ Enqueue(c) \/ Notified(c) \/ Dequeue(c)) /\ Connect(c))
        /\ WF_vars(SpawnRelay(c))
        /\ WF_vars(LoopStep(c))
    /\ \A r \in Releaser : WF_vars(ReleaseCleanup(r) \/ ReleaseDone(r))

FairSpec == Spec /\ Fairness

-----------------------------------------------------------------------------
(* Properties.                                                             *)

\* Type correctness; a channel never holds more than its capacity, although the
\* loop chose the tunnel before it waited for room in it.
TypeOK ==
    /\ LeaseTypeOK
    /\ loop \in [Conn -> {"none", "bind", "register", "recv", "check", "serve", "send",
                          "unregister", "notify", "stopped", "failed"}]
    /\ sending \in [Conn -> UdpTunnel \cup {None}]
    /\ udp_sockets \in [Ports -> Conn \cup {None}]
    /\ udp_tunnels \in [Ports -> UdpTunnel \cup {None}]
    /\ tunnel \in [UdpTunnel ->
          [pc     : {"idle", "lookup", "register", "open", "done"},
           lease  : Conn \cup {None}, socket : Conn \cup {None}, client : {"up", "gone"},
           reader : BOOLEAN, writer : BOOLEAN, queue : 0 .. ChannelSize]]
    /\ wake \in [Releaser -> Ports \cup {NoPort}]
    /\ quiet \subseteq Conn /\ told \subseteq Conn

\* A tunnel that ends late never unregisters the one that replaced it: a
\* registration disappears only with its own handler or with a RELEASE of the port.
NewerTunnelKept ==
    [][\A p \in Ports : udp_tunnels[p] # None /\ udp_tunnels'[p] = None =>
          \/ tunnel[udp_tunnels[p]].pc = "open" /\ tunnel'[udp_tunnels[p]].pc = "done"
          \/ \E r \in Releaser : release_port[r] = p]_vars

\* A lease granted on a quiet port (nothing that earlier leases started there is
\* left) is served while it is held: its loop runs, unless receiving fails, and its
\* socket, once registered, stays registered.
QuietLeaseServed ==
    \A c \in quiet : LeaseHolder(port[c]) = c =>
        /\ loop[c] # "stopped"
        /\ loop[c] \in {"recv", "check", "serve", "send"} => udp_sockets[port[c]] = c

\* After a RELEASE a loop that was receiving ends and gives the port back, unless
\* the port is leased again first or the loop fails.
ReleasedLoopStops ==
    \A c \in Conn : c \in told ~> (loop[c] \in {"stopped", "failed"} \/ Allocated(port[c]))

\* A client that holds a port can attach its UDP tunnel: every lease gets a
\* registered socket, without which UDP_TUNNEL never answers READY, or it ends.
LeaseTakesUdpTunnel ==
    \A c \in Conn : (LeaseHolder(port[c]) = c)
                      ~> (LeaseHolder(port[c]) # c \/ udp_sockets[port[c]] # None)
=============================================================================
