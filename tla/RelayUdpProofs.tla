--------------------------- MODULE RelayUdpProofs ---------------------------
(***************************************************************************)
(* The UDP side of the relay, for any number of leases, tunnels and ports  *)
(* and any channel capacity.  RelayUdp only adds to the lease handlers, so *)
(* what PortLeaseProofs shows of them holds here too.  The type invariant  *)
(* is not inductive by itself: a tunnel looks up the socket of a port it   *)
(* read from a lease, and a loop sends to the tunnel it picked a step      *)
(* earlier, so PlacesKnown says that both are there.  QuietAlone says that *)
(* nothing joins a lease granted on a quiet port; SocketsOpened, that no   *)
(* socket is in use before its loop opened it.                             *)
(***************************************************************************)
EXTENDS RelayUdp, PortLeaseProofs

\* A lease that was granted, or has a loop, has a port; so has the lease of a tunnel
\* handler; and a loop that sends knows where to.
PlacesKnown ==
    /\ \A c \in Conn : reply[c] = "OK" \/ loop[c] # "none" => port[c] \in Ports
    /\ \A c \in Conn : loop[c] = "send" => sending[c] \in UdpTunnel
    /\ \A u \in UdpTunnel : tunnel[u].pc # "idle" =>
          tunnel[u].lease \in Conn /\ port[tunnel[u].lease] \in Ports

\* Whatever the loops and tunnels do, the lease handlers take their own steps or none.
LEMMA LeaseSide == [Next]_vars => [LeaseNext]_leaseVars
<1> SUFFICES ASSUME [Next]_vars PROVE [LeaseNext]_leaseVars
  BY Zenon
<1>1. ASSUME NEW c \in Conn, Connect(c) PROVE LeaseNext
  BY <1>1, Zenon DEF Connect, LeaseNext
<1>2. ASSUME NEW r \in Releaser, NEW p \in Ports, ReleasePort(r, p) PROVE LeaseNext
  BY <1>2, Zenon DEF ReleasePort, LeaseNext
<1>3. ASSUME NEW r \in Releaser, ReleaseCleanup(r) PROVE LeaseNext
  BY <1>3, Zenon DEF ReleaseCleanup, LeaseNext
<1>4. ASSUME NEW r \in Releaser, ReleaseDone(r) PROVE LeaseNext
  BY <1>4, Zenon DEF ReleaseDone, LeaseNext
<1>5. ASSUME NEW c \in Conn, Exit(c) PROVE LeaseNext
  BY <1>5, Zenon DEF Exit, LeaseNext
<1>6. ASSUME NEW c \in Conn,
             \/ SpawnRelay(c) \/ Bind(c) \/ RegisterSocket(c) \/ CheckAllocation(c)
             \/ UnregisterSocket(c) \/ Serve(c) \/ Send(c) \/ Recv(c) \/ RecvError(c)
             \/ \E r \in Releaser : RecvWake(c, r)
      PROVE  UNCHANGED leaseVars
  BY <1>6, Zenon DEF SpawnRelay, Bind, RegisterSocket, CheckAllocation, UnregisterSocket, Serve,
              Send, Recv, RecvError, RecvWake
<1>7. ASSUME NEW r \in Releaser, WakeLost(r) PROVE UNCHANGED leaseVars
  BY <1>7, Zenon DEF WakeLost
<1>8. ASSUME NEW u \in UdpTunnel,
             \/ TunnelLookup(u) \/ TunnelRegister(u) \/ ReaderEnds(u) \/ WriteFrame(u)
             \/ TunnelEnds(u) \/ ClientCloses(u) \/ \E c \in Conn : TunnelCheck(u, c)
      PROVE  UNCHANGED leaseVars
  BY <1>8, Zenon DEF TunnelLookup, TunnelRegister, ReaderEnds, WriteFrame, TunnelEnds,
              ClientCloses, TunnelCheck
<1>9. CASE UNCHANGED vars
  BY <1>9, Zenon DEF vars
<1> QED
  BY <1>1, <1>2, <1>3, <1>4, <1>5, <1>6, <1>7, <1>8, <1>9, Zenon DEF Next, LoopStep, TunnelStep

\* A handler keeps the port it was given, and is told OK only with a port.
LEMMA PortGiven ==
    ASSUME LeaseTypeOK, [LeaseNext]_leaseVars, NEW c \in Conn
    PROVE  /\ port[c] \in Ports => port'[c] \in Ports
           /\ reply'[c] = "OK" => reply[c] = "OK" \/ port'[c] \in Ports
<1>1. ASSUME NEW d \in Conn, NEW t \in Token \cup {NoToken}, NEW target \in Target,
             HandleConnect(d, t, target)
      PROVE  port' = port /\ (reply'[c] = "OK" => reply[c] = "OK")
  <2>1. Refusal(t, target) # "OK"
    BY RefusalType, Zenon
  <2> QED
    BY <1>1, <2>1, Zenon DEF HandleConnect, LeaseTypeOK
<1>2. ASSUME NEW d \in Conn, TryAllocate(d)
      PROVE  /\ port[c] \in Ports => port'[c] \in Ports
             /\ reply'[c] = "OK" => reply[c] = "OK" \/ port'[c] \in Ports
  BY <1>2, Zenon DEF TryAllocate, LeaveWith, Candidates, LeaseTypeOK
<1>3. ASSUME NEW d \in Conn, Enqueue(d) PROVE port' = port /\ (reply'[c] = "OK" => reply[c] = "OK")
  BY <1>3, Zenon DEF Enqueue, LeaseTypeOK
<1>4. ASSUME NEW d \in Conn, Notified(d) \/ Dequeue(d) PROVE UNCHANGED <<port, reply>>
  BY <1>4, Zenon DEF Notified, Dequeue
<1>5. ASSUME NEW r \in Releaser,
             CleanupStep(r) \/ ReleaseNotify(r) \/ \E p \in Ports : Release(r, p)
      PROVE  UNCHANGED <<port, reply>>
  BY <1>5, Zenon DEF CleanupStep, ReleaseNotify, Release
<1>6. ASSUME UdpLoopNotify \/ \E f \in AuthFiles \cup {Unreadable} : EditConfig(f)
      PROVE  UNCHANGED <<port, reply>>
  BY <1>6, Zenon DEF UdpLoopNotify, EditConfig
<1>7. CASE UNCHANGED leaseVars
  BY <1>7, Zenon DEF leaseVars
<1> QED
  BY <1>1, <1>2, <1>3, <1>4, <1>5, <1>6, <1>7, Zenon DEF LeaseNext, ConnectStep

-----------------------------------------------------------------------------
(* Type correctness, the capacity of a channel included.                   *)

TunnelState ==
    [pc     : {"idle", "lookup", "register", "open", "done"},
     lease  : Conn \cup {None}, socket : Conn \cup {None}, client : {"up", "gone"},
     reader : BOOLEAN, writer : BOOLEAN, queue : 0 .. ChannelSize]

\* The steps of the loop and of the handlers that leave every tunnel alone.
LEMMA LoopTypeStep ==
    ASSUME TypeOK, PlacesKnown, LeaseTypeOK', NEW c \in Conn,
           \/ SpawnRelay(c) \/ Bind(c) \/ RegisterSocket(c) \/ CheckAllocation(c)
           \/ UnregisterSocket(c) \/ Serve(c) \/ Recv(c) \/ RecvError(c) \/ Exit(c)
           \/ \E r \in Releaser : RecvWake(c, r)
    PROVE  TypeOK'
<1>1. CASE SpawnRelay(c)
  BY <1>1, Zenon DEF SpawnRelay, TypeOK
<1>2. CASE Bind(c)
  BY <1>2, Zenon DEF Bind, TypeOK
<1>3. CASE RegisterSocket(c)
  BY <1>3, Zenon DEF RegisterSocket, TypeOK
<1>4. CASE CheckAllocation(c)
  BY <1>4, Zenon DEF CheckAllocation, LoopAfterCheck, TypeOK
<1>5. CASE UnregisterSocket(c)
  BY <1>5, Zenon DEF UnregisterSocket, TypeOK
<1>6. CASE Serve(c)
  <2>1. port[c] \in Ports
    BY <1>6, Zenon DEF Serve, PlacesKnown
  <2> QED
    BY <1>6, <2>1, Zenon DEF Serve, TypeOK
<1>7. CASE Recv(c)
  BY <1>7, Zenon DEF Recv, TypeOK
<1>8. CASE RecvError(c)
  BY <1>8, Zenon DEF RecvError, TypeOK
<1>9. CASE Exit(c)
  BY <1>9, Zenon DEF Exit, TypeOK
<1>10. ASSUME NEW r \in Releaser, RecvWake(c, r) PROVE TypeOK'
  BY <1>10, Zenon DEF RecvWake, TypeOK
<1> QED
  BY <1>1, <1>2, <1>3, <1>4, <1>5, <1>6, <1>7, <1>8, <1>9, <1>10, Zenon

\* Send adds to a channel that has room.
LEMMA SendTypeStep ==
    ASSUME TypeOK, PlacesKnown, LeaseTypeOK', NEW c \in Conn, Send(c)
    PROVE  TypeOK'
<1> DEFINE u == sending[c]
<1>1. u \in UdpTunnel
  BY Zenon DEF Send, PlacesKnown
<1>2. tunnel \in [UdpTunnel -> TunnelState]
  BY Zenon DEF TypeOK, TunnelState
<1>3. CASE tunnel[u].writer /\ ChannelHasRoom(u) /\ tunnel' = [tunnel EXCEPT ![u].queue = @ + 1]
  <2>1. tunnel[u].queue + 1 \in 0 .. ChannelSize
    BY <1>1, <1>2, <1>3, RelayUdpAssumption DEF ChannelHasRoom, TunnelState
  <2>2. tunnel' \in [UdpTunnel -> TunnelState]
    BY <1>1, <1>2, <1>3, <2>1 DEF TunnelState
  <2> QED
    BY <2>2, Zenon DEF Send, TypeOK, TunnelState
<1>4. CASE UNCHANGED tunnel
  BY <1>4, Zenon DEF Send, TypeOK
<1> QED
  BY <1>3, <1>4, Zenon DEF Send

\* The steps of a tunnel handler.
LEMMA TunnelTypeStep ==
    ASSUME TypeOK, PlacesKnown, LeaseTypeOK', NEW u \in UdpTunnel,
           \/ TunnelLookup(u) \/ TunnelRegister(u) \/ ReaderEnds(u) \/ WriteFrame(u)
           \/ TunnelEnds(u) \/ ClientCloses(u) \/ \E c \in Conn : TunnelCheck(u, c)
    PROVE  TypeOK'
<1>0. tunnel \in [UdpTunnel -> TunnelState] /\ tunnel[u] \in TunnelState
  BY Zenon DEF TypeOK, TunnelState
<1>1. CASE TunnelLookup(u)
  <2>1. udp_sockets[port[tunnel[u].lease]] \in Conn \cup {None}
    BY <1>1, Zenon DEF TunnelLookup, PlacesKnown, TypeOK
  <2>2. tunnel' \in [UdpTunnel -> TunnelState]
    BY <1>0, <1>1, <2>1, Zenon DEF TunnelLookup, TunnelState
  <2> QED
    BY <1>1, <2>2, Zenon DEF TunnelLookup, TypeOK, TunnelState
<1>2. CASE TunnelRegister(u)
  <2>1. tunnel' \in [UdpTunnel -> TunnelState]
    BY <1>0, <1>2 DEF TunnelRegister, TunnelState
  <2> QED
    BY <1>2, <2>1, Zenon DEF TunnelRegister, TypeOK, TunnelState
<1>3. CASE ReaderEnds(u)
  <2>1. tunnel' \in [UdpTunnel -> TunnelState]
    BY <1>0, <1>3, Zenon DEF ReaderEnds, TunnelState
  <2> QED
    BY <1>3, <2>1, Zenon DEF ReaderEnds, TypeOK, TunnelState
<1>4. CASE WriteFrame(u)
  <2>1. tunnel[u].queue - 1 \in 0 .. ChannelSize /\ 0 \in 0 .. ChannelSize
    BY <1>0, <1>4, RelayUdpAssumption DEF WriteFrame, TunnelState
  <2>2. tunnel' \in [UdpTunnel -> TunnelState]
    BY <1>0, <1>4, <2>1 DEF WriteFrame, TunnelState
  <2> QED
    BY <1>4, <2>2, Zenon DEF WriteFrame, TypeOK, TunnelState
<1>5. CASE TunnelEnds(u)
  <2>1. tunnel' \in [UdpTunnel -> TunnelState]
    BY <1>0, <1>5, Zenon DEF TunnelEnds, TunnelState
  <2>2. Unregistered(u, port[tunnel[u].lease]) \in UdpTunnel \cup {None}
    BY <1>5, Zenon DEF TunnelEnds, Unregistered, PlacesKnown, TypeOK
  <2> QED
    BY <1>5, <2>1, <2>2, Zenon DEF TunnelEnds, TypeOK, TunnelState
<1>6. CASE ClientCloses(u)
  <2>1. tunnel' \in [UdpTunnel -> TunnelState]
    BY <1>0, <1>6, Zenon DEF ClientCloses, TunnelState
  <2> QED
    BY <1>6, <2>1, Zenon DEF ClientCloses, TypeOK, TunnelState
<1>7. ASSUME NEW c \in Conn, TunnelCheck(u, c) PROVE TypeOK'
  <2>1. tunnel' \in [UdpTunnel -> TunnelState]
    BY <1>0, <1>7, Zenon DEF TunnelCheck, TunnelState
  <2> QED
    BY <1>7, <2>1, Zenon DEF TunnelCheck, TypeOK, TunnelState
<1> QED
  BY <1>1, <1>2, <1>3, <1>4, <1>5, <1>6, <1>7, Zenon

\* Every step of the UDP side keeps the types.
LEMMA UdpTypeStep ==
    ASSUME TypeOK, PlacesKnown, [Next]_vars
    PROVE  TypeOK'
<1>l. LeaseTypeOK'
  BY LeaseSide, TypeStep, Zenon DEF TypeOK
<1>1. ASSUME NEW c \in Conn, Connect(c) PROVE TypeOK'
  BY <1>1, <1>l, Zenon DEF Connect, TypeOK
<1>2. ASSUME NEW r \in Releaser, NEW p \in Ports, ReleasePort(r, p) PROVE TypeOK'
  BY <1>2, <1>l, Zenon DEF ReleasePort, WakeAfterRelease, TypeOK
<1>3. ASSUME NEW r \in Releaser, ReleaseCleanup(r) PROVE TypeOK'
  BY <1>3, <1>l, Zenon DEF ReleaseCleanup, TypeOK
<1>4. ASSUME NEW r \in Releaser, ReleaseDone(r) PROVE TypeOK'
  BY <1>4, <1>l, Zenon DEF ReleaseDone, udpVars, TypeOK
<1>5. ASSUME NEW r \in Releaser, WakeLost(r) PROVE TypeOK'
  BY <1>5, <1>l, Zenon DEF WakeLost, TypeOK
<1>6. CASE UNCHANGED vars
  BY <1>6, <1>l, Zenon DEF vars, udpVars, TypeOK
<1> QED
  BY <1>l, <1>1, <1>2, <1>3, <1>4, <1>5, <1>6, LoopTypeStep, SendTypeStep, TunnelTypeStep, Zenon
     DEF Next, LoopStep, TunnelStep

\* A loop only comes to life after OK, and only Serve picks the tunnel to send to.
LEMMA LoopPlacesStep ==
    ASSUME TypeOK, PlacesKnown, [Next]_vars, NEW c \in Conn
    PROVE  /\ loop'[c] # "none" => loop[c] # "none" \/ reply[c] = "OK"
           /\ loop'[c] = "send" => sending'[c] \in UdpTunnel
<1>1. ASSUME NEW d \in Conn, SpawnRelay(d)
      PROVE  /\ loop'[c] # "none" => loop[c] # "none" \/ reply[c] = "OK"
             /\ loop'[c] = "send" => loop[c] = "send" /\ sending'[c] = sending[c]
  BY <1>1, Zenon DEF SpawnRelay, TypeOK
<1>2. ASSUME NEW d \in Conn,
             \/ Bind(d) \/ RegisterSocket(d) \/ CheckAllocation(d) \/ UnregisterSocket(d)
             \/ Exit(d) \/ Recv(d) \/ RecvError(d) \/ \E r \in Releaser : RecvWake(d, r)
      PROVE  /\ loop'[c] # "none" => loop[c] # "none"
             /\ loop'[c] = "send" => loop[c] = "send" /\ sending'[c] = sending[c]
  BY <1>2, Zenon DEF Bind, RegisterSocket, CheckAllocation, LoopAfterCheck, UnregisterSocket, Exit,
              Recv, RecvError, RecvWake, TypeOK
<1>3. ASSUME NEW d \in Conn, Serve(d)
      PROVE  /\ loop'[c] # "none" => loop[c] # "none"
             /\ loop'[c] = "send" => sending'[c] \in UdpTunnel
  <2>1. port[d] \in Ports
    BY <1>3, Zenon DEF Serve, PlacesKnown
  <2> QED
    BY <1>3, <2>1, Zenon DEF Serve, PlacesKnown, TypeOK
<1>4. ASSUME NEW d \in Conn, Send(d)
      PROVE  /\ loop'[c] # "none" => loop[c] # "none"
             /\ loop'[c] = "send" => loop[c] = "send" /\ sending'[c] = sending[c]
  BY <1>4, Zenon DEF Send, TypeOK
<1>5. CASE UNCHANGED <<loop, sending>>
  BY <1>5, Zenon DEF PlacesKnown
<1>6. \/ UNCHANGED <<loop, sending>>
      \/ \E d \in Conn :
            \/ SpawnRelay(d) \/ Serve(d) \/ Send(d)
            \/ Bind(d) \/ RegisterSocket(d) \/ CheckAllocation(d) \/ UnregisterSocket(d)
            \/ Exit(d) \/ Recv(d) \/ RecvError(d) \/ \E r \in Releaser : RecvWake(d, r)
  BY Zenon DEF Next, LoopStep, TunnelStep, Connect, ReleasePort, ReleaseCleanup, ReleaseDone,
         WakeLost, TunnelLookup, TunnelRegister, ReaderEnds, WriteFrame, TunnelEnds,
         ClientCloses, TunnelCheck, vars, udpVars
<1> QED
  BY <1>1, <1>2, <1>3, <1>4, <1>5, <1>6, Zenon DEF PlacesKnown

\* A tunnel handler that has a lease keeps it; it gets one that has a port.
LEMMA TunnelPlacesStep ==
    ASSUME TypeOK, PlacesKnown, [Next]_vars, NEW u \in UdpTunnel
    PROVE  tunnel'[u].pc # "idle" =>
              tunnel'[u].lease \in Conn /\ port[tunnel'[u].lease] \in Ports
<1>1. ASSUME NEW v \in UdpTunnel, NEW c \in Conn, TunnelCheck(v, c)
      PROVE  tunnel'[u].pc # "idle" =>
                tunnel'[u].lease \in Conn /\ port[tunnel'[u].lease] \in Ports
  <2>1. port[c] \in Ports
    BY <1>1, Zenon DEF TunnelCheck, PlacesKnown
  <2> QED
    BY <1>1, <2>1 DEF TunnelCheck, PlacesKnown, TypeOK
<1>2. ASSUME NEW v \in UdpTunnel,
             \/ TunnelLookup(v) \/ TunnelRegister(v) \/ ReaderEnds(v) \/ WriteFrame(v)
             \/ TunnelEnds(v) \/ ClientCloses(v)
      PROVE  tunnel'[u].lease = tunnel[u].lease /\ (tunnel'[u].pc # "idle" => tunnel[u].pc # "idle")
  BY <1>2 DEF TunnelLookup, TunnelRegister, ReaderEnds, WriteFrame, TunnelEnds,
              ClientCloses, TypeOK
<1>3. ASSUME NEW c \in Conn, Send(c)
      PROVE  tunnel'[u].lease = tunnel[u].lease /\ (tunnel'[u].pc # "idle" => tunnel[u].pc # "idle")
  BY <1>3 DEF Send, TypeOK
<1>4. \/ UNCHANGED tunnel
      \/ \E c \in Conn : Send(c)
      \/ \E v \in UdpTunnel :
            \/ TunnelLookup(v) \/ TunnelRegister(v) \/ ReaderEnds(v) \/ WriteFrame(v)
            \/ TunnelEnds(v) \/ ClientCloses(v) \/ \E c \in Conn : TunnelCheck(v, c)
  BY Zenon DEF Next, LoopStep, TunnelStep, Connect, ReleasePort, ReleaseCleanup, ReleaseDone,
         WakeLost, SpawnRelay, Bind, RegisterSocket, CheckAllocation, UnregisterSocket, Exit,
         Serve, Recv, RecvError, RecvWake, vars, udpVars
<1> QED
  BY <1>1, <1>2, <1>3, <1>4, Zenon DEF PlacesKnown

\* Every step leaves loops, tunnels and sockets with ports of the relay.
LEMMA PlacesStep ==
    ASSUME TypeOK, PlacesKnown, [Next]_vars
    PROVE  PlacesKnown'
<1>1. /\ \A c \in Conn : port[c] \in Ports => port'[c] \in Ports
      /\ \A c \in Conn : reply'[c] = "OK" => reply[c] = "OK" \/ port'[c] \in Ports
  BY LeaseSide, PortGiven, Zenon DEF TypeOK
<1>2. \A c \in Conn : reply'[c] = "OK" \/ loop'[c] # "none" => port'[c] \in Ports
  BY <1>1, LoopPlacesStep, Zenon DEF PlacesKnown
<1>3. \A c \in Conn : loop'[c] = "send" => sending'[c] \in UdpTunnel
  BY LoopPlacesStep, Zenon
<1>4. \A u \in UdpTunnel : tunnel'[u].pc # "idle" =>
         tunnel'[u].lease \in Conn /\ port'[tunnel'[u].lease] \in Ports
  BY <1>1, TunnelPlacesStep, Zenon
<1> QED
  BY <1>2, <1>3, <1>4, Zenon DEF PlacesKnown

\* The first state.
LEMMA UdpInit == Init => TypeOK /\ PlacesKnown
<1> SUFFICES ASSUME Init PROVE TypeOK /\ PlacesKnown
  BY Zenon
<1>1. LeaseTypeOK
  BY TypeInit, Zenon DEF Init
<1>2. IdleTunnel \in TunnelState
  BY RelayUdpAssumption DEF IdleTunnel, TunnelState
<1>3. TypeOK
  BY <1>1, <1>2, Zenon DEF Init, TypeOK, TunnelState
<1>4. PlacesKnown
  BY Zenon DEF Init, LeaseInit, IdleTunnel, PlacesKnown
<1> QED
  BY <1>3, <1>4, Zenon

\* Every variable of the UDP side keeps its type, and no channel of a tunnel ever holds
\* more than its capacity, for any number of loops that send to it.
THEOREM UdpTypeCorrect == Spec => []TypeOK
<1>1. Spec => [](TypeOK /\ PlacesKnown)
  BY UdpInit, UdpTypeStep, PlacesStep, PTL DEF Spec
<1> QED
  BY <1>1, PTL

\* The relay with its UDP side is still the relay of PortLease, so all that is proved
\* there holds: it implements the lease table, and so on.
THEOREM UdpKeepsLeases == Spec => LeaseSpec /\ ImplementsLeaseTable
<1>1. Init => LeaseInit
  BY Zenon DEF Init
<1>2. Spec => LeaseSpec
  BY <1>1, LeaseSide, PTL DEF Spec, LeaseSpec
<1> QED
  BY <1>2, LeaseTableImplemented, PTL

-----------------------------------------------------------------------------
(* The registered tunnel.                                                  *)

\* Only RELEASE of the port and the end of the registered handler clear a registration.
LEMMA TunnelKeptStep ==
    ASSUME TypeOK, PlacesKnown, [Next]_vars, NEW p \in Ports,
           udp_tunnels[p] # None, udp_tunnels'[p] = None
    PROVE  \/ tunnel[udp_tunnels[p]].pc = "open" /\ tunnel'[udp_tunnels[p]].pc = "done"
           \/ \E r \in Releaser : release_port[r] = p
<1>1. ASSUME NEW r \in Releaser, ReleaseCleanup(r) PROVE release_port[r] = p
  BY <1>1, Zenon DEF ReleaseCleanup, TypeOK
<1>2. ASSUME NEW u \in UdpTunnel, TunnelRegister(u) PROVE FALSE
  <2>1. u # None
    BY RelayUdpAssumption, Zenon
  <2> QED
    BY <1>2, <2>1, Zenon DEF TunnelRegister, TypeOK
<1>3. ASSUME NEW u \in UdpTunnel, TunnelEnds(u)
      PROVE  tunnel[udp_tunnels[p]].pc = "open" /\ tunnel'[udp_tunnels[p]].pc = "done"
  <2>1. udp_tunnels[p] = u
    BY <1>3, Zenon DEF TunnelEnds, Unregistered, TypeOK
  <2> QED
    BY <1>3, <2>1 DEF TunnelEnds, TypeOK
<1>4. \/ UNCHANGED udp_tunnels
      \/ \E r \in Releaser : ReleaseCleanup(r)
      \/ \E u \in UdpTunnel : TunnelRegister(u) \/ TunnelEnds(u)
  BY Zenon DEF Next, LoopStep, TunnelStep, Connect, ReleasePort, ReleaseDone, WakeLost, SpawnRelay,
         Bind, RegisterSocket, CheckAllocation, UnregisterSocket, Exit, Serve, Send, Recv,
         RecvError, RecvWake, TunnelLookup, ReaderEnds, WriteFrame, ClientCloses, TunnelCheck,
         vars, udpVars
<1> QED
  BY <1>1, <1>2, <1>3, <1>4, Zenon

\* A tunnel handler that ends late never takes away the registration of the one that
\* replaced it: same_channel keeps what is not its own.
THEOREM NewerTunnelCorrect == Spec => NewerTunnelKept
<1>1. Spec => [](TypeOK /\ PlacesKnown)
  BY UdpInit, UdpTypeStep, PlacesStep, PTL DEF Spec
<1>2. TypeOK /\ PlacesKnown /\ [Next]_vars =>
        [\A p \in Ports : udp_tunnels[p] # None /\ udp_tunnels'[p] = None =>
           \/ tunnel[udp_tunnels[p]].pc = "open" /\ tunnel'[udp_tunnels[p]].pc = "done"
           \/ \E r \in Releaser : release_port[r] = p]_vars
  BY TunnelKeptStep, Zenon
<1> QED
  BY <1>1, <1>2, PTL DEF Spec, NewerTunnelKept

-----------------------------------------------------------------------------
(* A lease granted on a quiet port is served.                              *)

\* A socket is registered, and cloned, only after its loop has registered it.
SocketsOpened ==
    \A c \in Conn :
       (\E p \in Ports : udp_sockets[p] = c) \/ (\E u \in UdpTunnel : tunnel[u].socket = c)
         => loop[c] \notin {"none", "bind", "register"}

\* As long as the lease is held its loop runs with the socket of the port, no other socket
\* occupies the port and no RELEASE is at work on it.
AloneOn(c) ==
    /\ loop[c] \notin {"unregister", "notify", "stopped"}
    /\ loop[c] \in {"recv", "check", "serve", "send"} => udp_sockets[port[c]] = c
    /\ \A d \in Conn : d # c /\ port[d] = port[c] => loop[d] = "stopped" /\ ~Bound(d)
    /\ \A r \in Releaser : release_port[r] # port[c]

QuietAlone ==
    \A c \in quiet : port[c] \in Ports /\ (LeaseHolder(port[c]) = c => AloneOn(c))

\* A tunnel handler gets a socket only by cloning the registered one.
LEMMA ClonedSocket ==
    ASSUME TypeOK, PlacesKnown, [Next]_vars, NEW u \in UdpTunnel
    PROVE  \/ tunnel'[u].socket \in {tunnel[u].socket, None}
           \/ \E p \in Ports : udp_sockets[p] = tunnel'[u].socket
<1>1. ASSUME NEW v \in UdpTunnel, TunnelLookup(v)
      PROVE  \/ tunnel'[u].socket \in {tunnel[u].socket, None}
             \/ \E p \in Ports : udp_sockets[p] = tunnel'[u].socket
  <2>1. port[tunnel[v].lease] \in Ports
    BY <1>1, Zenon DEF TunnelLookup, PlacesKnown
  <2> QED
    BY <1>1, <2>1, Zenon DEF TunnelLookup, TypeOK
<1>2. ASSUME NEW v \in UdpTunnel,
             \/ TunnelRegister(v) \/ ReaderEnds(v) \/ WriteFrame(v) \/ TunnelEnds(v)
             \/ ClientCloses(v) \/ \E c \in Conn : TunnelCheck(v, c)
      PROVE  tunnel'[u].socket \in {tunnel[u].socket, None}
  <2>1. CASE TunnelRegister(v)
    BY <2>1, SMTT(30) DEF TunnelRegister, TypeOK
  <2>2. CASE ReaderEnds(v)
    BY <2>2, Zenon DEF ReaderEnds, TypeOK
  <2>3. CASE WriteFrame(v)
    BY <2>3, SMTT(30) DEF WriteFrame, TypeOK
  <2>4. CASE TunnelEnds(v) \/ ClientCloses(v)
    BY <2>4 DEF TunnelEnds, ClientCloses, TypeOK
  <2>5. ASSUME NEW c \in Conn, TunnelCheck(v, c)
        PROVE  tunnel'[u].socket \in {tunnel[u].socket, None}
    BY <2>5, Zenon DEF TunnelCheck, TypeOK
  <2> QED
    BY <1>2, <2>1, <2>2, <2>3, <2>4, <2>5, Zenon
<1>3. ASSUME NEW c \in Conn, Send(c) PROVE tunnel'[u].socket = tunnel[u].socket
  BY <1>3 DEF Send, TypeOK
<1>4. \/ UNCHANGED tunnel
      \/ \E c \in Conn : Send(c)
      \/ \E v \in UdpTunnel :
            \/ TunnelLookup(v) \/ TunnelRegister(v) \/ ReaderEnds(v) \/ WriteFrame(v)
            \/ TunnelEnds(v) \/ ClientCloses(v) \/ \E c \in Conn : TunnelCheck(v, c)
  BY Zenon DEF Next, LoopStep, TunnelStep, Connect, ReleasePort, ReleaseCleanup, ReleaseDone,
         WakeLost, SpawnRelay, Bind, RegisterSocket, CheckAllocation, UnregisterSocket, Exit,
         Serve, Recv, RecvError, RecvWake, vars, udpVars
<1> QED
  BY <1>1, <1>2, <1>3, <1>4, Zenon

\* A registration is made by the loop that bound the socket, and removed by the loop that
\* ends on that port or by the RELEASE of the port.
LEMMA RegisteredSocket ==
    ASSUME TypeOK, PlacesKnown, [Next]_vars, NEW p \in Ports
    PROVE  \/ udp_sockets'[p] = udp_sockets[p]
           \/ \E d \in Conn : /\ udp_sockets'[p] = d /\ loop[d] = "register" /\ port[d] = p
                              /\ loop'[d] = "recv"
           \/ /\ udp_sockets'[p] = None
              /\ \/ \E d \in Conn : loop[d] = "unregister" /\ port[d] = p
                 \/ \E r \in Releaser : release_port[r] = p
<1>1. ASSUME NEW d \in Conn, RegisterSocket(d)
      PROVE  \/ udp_sockets'[p] = udp_sockets[p]
             \/ /\ udp_sockets'[p] = d /\ loop[d] = "register" /\ port[d] = p
                /\ loop'[d] = "recv"
  BY <1>1, Zenon DEF RegisterSocket, TypeOK
<1>2. ASSUME NEW d \in Conn, UnregisterSocket(d)
      PROVE  \/ udp_sockets'[p] = udp_sockets[p]
             \/ udp_sockets'[p] = None /\ loop[d] = "unregister" /\ port[d] = p
  BY <1>2, Zenon DEF UnregisterSocket, TypeOK
<1>3. ASSUME NEW r \in Releaser, ReleaseCleanup(r)
      PROVE  \/ udp_sockets'[p] = udp_sockets[p]
             \/ udp_sockets'[p] = None /\ release_port[r] = p
  BY <1>3, Zenon DEF ReleaseCleanup, TypeOK
<1>4. \/ UNCHANGED udp_sockets
      \/ \E d \in Conn : RegisterSocket(d) \/ UnregisterSocket(d)
      \/ \E r \in Releaser : ReleaseCleanup(r)
  BY Zenon DEF Next, LoopStep, TunnelStep, Connect, ReleasePort, ReleaseDone, WakeLost, SpawnRelay,
         Bind, CheckAllocation, Exit, Serve, Send, Recv, RecvError, RecvWake, TunnelLookup,
         TunnelRegister, ReaderEnds, WriteFrame, TunnelEnds, ClientCloses, TunnelCheck,
         vars, udpVars
<1> QED
  BY <1>1, <1>2, <1>3, <1>4, Zenon

\* How a loop goes on.
LEMMA LoopMoves ==
    ASSUME TypeOK, [Next]_vars, NEW c \in Conn
    PROVE  \/ loop'[c] = loop[c]
           \/ loop[c] = "none" /\ loop'[c] = "bind"
           \/ /\ loop[c] = "bind" /\ UNCHANGED port
              /\ loop'[c] = IF \E d \in Conn : port[d] = port[c] /\ Bound(d)
                            THEN "stopped" ELSE "register"
           \/ loop[c] = "register" /\ loop'[c] = "recv" /\ RegisterSocket(c)
           \/ loop[c] = "recv" /\ loop'[c] \in {"check", "failed"}
           \/ loop[c] = "check" /\ loop'[c] = LoopAfterCheck(c)
           \/ loop[c] = "unregister" /\ loop'[c] = "notify"
           \/ loop[c] = "notify" /\ loop'[c] = "stopped"
           \/ loop[c] = "serve" /\ loop'[c] \in {"recv", "send"}
           \/ loop[c] = "send" /\ loop'[c] = "recv"
<1> USE DEF TypeOK
<1> DEFINE Moved == \/ loop'[c] = loop[c]
                    \/ loop[c] = "none" /\ loop'[c] = "bind"
                    \/ /\ loop[c] = "bind" /\ UNCHANGED port
                       /\ loop'[c] = IF \E d \in Conn : port[d] = port[c] /\ Bound(d)
                                     THEN "stopped" ELSE "register"
                    \/ loop[c] = "register" /\ loop'[c] = "recv" /\ RegisterSocket(c)
                    \/ loop[c] = "recv" /\ loop'[c] \in {"check", "failed"}
                    \/ loop[c] = "check" /\ loop'[c] = LoopAfterCheck(c)
                    \/ loop[c] = "unregister" /\ loop'[c] = "notify"
                    \/ loop[c] = "notify" /\ loop'[c] = "stopped"
                    \/ loop[c] = "serve" /\ loop'[c] \in {"recv", "send"}
                    \/ loop[c] = "send" /\ loop'[c] = "recv"
<1>1. ASSUME NEW d \in Conn, d # c,
             \/ SpawnRelay(d) \/ Bind(d) \/ RegisterSocket(d) \/ CheckAllocation(d)
             \/ UnregisterSocket(d) \/ Exit(d) \/ Serve(d) \/ Send(d) \/ Recv(d) \/ RecvError(d)
             \/ \E r \in Releaser : RecvWake(d, r)
      PROVE  loop'[c] = loop[c]
  BY <1>1, Zenon DEF SpawnRelay, Bind, RegisterSocket, CheckAllocation, UnregisterSocket, Exit, Serve,
              Send, Recv, RecvError, RecvWake
<1>2. CASE SpawnRelay(c)
  BY <1>2, Zenon DEF SpawnRelay
<1>3. CASE Bind(c)
  BY <1>3, Zenon DEF Bind, leaseVars
<1>4. CASE RegisterSocket(c)
  <2>1. loop[c] = "register" /\ loop'[c] = "recv"
    BY <1>4, Zenon DEF RegisterSocket
  <2> QED
    BY <1>4, <2>1, Zenon
<1>5. CASE CheckAllocation(c)
  BY <1>5, Zenon DEF CheckAllocation
<1>6. CASE UnregisterSocket(c) \/ Exit(c)
  BY <1>6, Zenon DEF UnregisterSocket, Exit
<1>7. CASE Serve(c) \/ Send(c)
  BY <1>7, Zenon DEF Serve, Send
<1>8. CASE Recv(c) \/ RecvError(c) \/ \E r \in Releaser : RecvWake(c, r)
  BY <1>8, Zenon DEF Recv, RecvError, RecvWake
<1>9. CASE UNCHANGED loop
  BY <1>9, Zenon
<1>10. \/ UNCHANGED loop
       \/ \E d \in Conn :
             \/ SpawnRelay(d) \/ Bind(d) \/ RegisterSocket(d) \/ CheckAllocation(d)
             \/ UnregisterSocket(d) \/ Exit(d) \/ Serve(d) \/ Send(d) \/ Recv(d) \/ RecvError(d)
             \/ \E r \in Releaser : RecvWake(d, r)
  BY Zenon DEF Next, LoopStep, TunnelStep, Connect, ReleasePort, ReleaseCleanup, ReleaseDone,
         WakeLost, TunnelLookup, TunnelRegister, ReaderEnds, WriteFrame, TunnelEnds,
         ClientCloses, TunnelCheck, vars, udpVars
<1> QED
  BY <1>1, <1>2, <1>3, <1>4, <1>5, <1>6, <1>7, <1>8, <1>9, <1>10, Zenon

\* Every step keeps the sockets to loops that opened them.
LEMMA OpenedStep ==
    ASSUME TypeOK, PlacesKnown, SocketsOpened, [Next]_vars
    PROVE  SocketsOpened'
<1> SUFFICES ASSUME NEW c \in Conn,
                    \/ \E p \in Ports : udp_sockets'[p] = c
                    \/ \E u \in UdpTunnel : tunnel'[u].socket = c
             PROVE  loop'[c] \notin {"none", "bind", "register"}
  BY Zenon DEF SocketsOpened
<1>0. c # None
  BY RelayUdpAssumption, Zenon
<1>1. CASE loop[c] \notin {"none", "bind", "register"}
  BY <1>1, LoopMoves, Zenon DEF LoopAfterCheck
<1>2. CASE loop[c] \in {"none", "bind", "register"}
  <2>1. /\ ~\E p \in Ports : udp_sockets[p] = c
        /\ ~\E u \in UdpTunnel : tunnel[u].socket = c
    BY <1>2, Zenon DEF SocketsOpened
  <2>2. ~\E u \in UdpTunnel : tunnel'[u].socket = c
    BY <1>0, <2>1, ClonedSocket, Zenon
  <2>3. PICK p \in Ports : udp_sockets'[p] = c
    BY <2>2, Zenon
  <2>4. loop'[c] = "recv"
    BY <1>0, <2>1, <2>3, RegisteredSocket, Zenon
  <2> QED
    BY <2>4, Zenon
<1> QED
  BY <1>1, <1>2, Zenon

\* A loop that ended, and whose socket is gone, leaves its port for good.
LEMMA UnboundStays ==
    ASSUME TypeOK, PlacesKnown, [Next]_vars, NEW d \in Conn, loop[d] = "stopped", ~Bound(d)
    PROVE  loop'[d] = "stopped" /\ ~Bound(d)'
<1>0. d # None
  BY RelayUdpAssumption, Zenon
<1>1. loop'[d] = "stopped"
  BY LoopMoves, Zenon
<1>2. ~\E u \in UdpTunnel : tunnel'[u].socket = d
  BY <1>0, ClonedSocket, Zenon DEF Bound
<1>3. ~\E p \in Ports : udp_sockets'[p] = d
  BY <1>0, RegisteredSocket, Zenon DEF Bound
<1> QED
  BY <1>1, <1>2, <1>3, Zenon DEF Bound, Looping

\* A RELEASE goes to work on a port only by taking it out of the table.
LEMMA ReleaseBegins ==
    ASSUME TypeOK, [Next]_vars, NEW r \in Releaser, NEW p \in Ports,
           release_port'[r] = p, release_port[r] # p
    PROVE  port_allocations'[p] = Free
<1>0. NoPort \notin Ports
  BY PortLeaseAssumption DEF Ports
<1>1. ASSUME NEW q \in Releaser, NEW o \in Ports, ReleasePort(q, o)
      PROVE  port_allocations'[p] = Free
  BY <1>1, Zenon DEF ReleasePort, Release, TypeOK, LeaseTypeOK
<1>2. ASSUME NEW q \in Releaser, ReleaseDone(q) PROVE FALSE
  BY <1>0, <1>2, Zenon DEF ReleaseDone, ReleaseNotify, TypeOK, LeaseTypeOK
<1>3. ASSUME NEW q \in Releaser, ReleaseCleanup(q) \/ WakeLost(q) PROVE UNCHANGED release_port
  BY <1>3, Zenon DEF ReleaseCleanup, CleanupStep, WakeLost, leaseVars
<1>4. ASSUME NEW c \in Conn, Connect(c) PROVE UNCHANGED release_port
  BY <1>4, Zenon DEF Connect, ConnectStep, HandleConnect, TryAllocate, Enqueue, Notified, Dequeue
<1>5. ASSUME NEW c \in Conn, Exit(c) PROVE UNCHANGED release_port
  BY <1>5, Zenon DEF Exit, UdpLoopNotify
<1>6. ASSUME NEW c \in Conn,
             \/ SpawnRelay(c) \/ Bind(c) \/ RegisterSocket(c) \/ CheckAllocation(c)
             \/ UnregisterSocket(c) \/ Serve(c) \/ Send(c) \/ Recv(c) \/ RecvError(c)
             \/ \E q \in Releaser : RecvWake(c, q)
      PROVE  UNCHANGED release_port
  BY <1>6, Zenon DEF SpawnRelay, Bind, RegisterSocket, CheckAllocation, UnregisterSocket, Serve,
              Send, Recv, RecvError, RecvWake, leaseVars
<1>7. ASSUME NEW u \in UdpTunnel,
             \/ TunnelLookup(u) \/ TunnelRegister(u) \/ ReaderEnds(u) \/ WriteFrame(u)
             \/ TunnelEnds(u) \/ ClientCloses(u) \/ \E c \in Conn : TunnelCheck(u, c)
      PROVE  UNCHANGED release_port
  BY <1>7, Zenon DEF TunnelLookup, TunnelRegister, ReaderEnds, WriteFrame, TunnelEnds,
              ClientCloses, TunnelCheck, leaseVars
<1>8. CASE UNCHANGED vars
  BY <1>8, Zenon DEF vars, leaseVars
<1> QED
  BY <1>1, <1>2, <1>3, <1>4, <1>5, <1>6, <1>7, <1>8, Zenon DEF Next, LoopStep, TunnelStep

\* A port is given to a handler only when it is free.
LEMMA PortTaken ==
    ASSUME TypeOK, PortsTold, [Next]_vars, NEW d \in Conn, NEW p \in Ports,
           port'[d] = p, port[d] # p
    PROVE  port_allocations[p] = Free
<1>1. ASSUME NEW c \in Conn, Connect(c) PROVE port_allocations[p] = Free
  <2>1. \/ UNCHANGED port
        \/ \E q \in Ports : port_allocations[q] = Free /\ port' = [port EXCEPT ![c] = q]
    BY <1>1, ConnectEffect, Zenon DEF Connect, TypeOK
  <2> QED
    BY <2>1, Zenon DEF TypeOK, LeaseTypeOK
<1>2. ASSUME NEW r \in Releaser,
             ReleaseCleanup(r) \/ ReleaseDone(r) \/ WakeLost(r) \/ \E q \in Ports : ReleasePort(r, q)
      PROVE  UNCHANGED port
  BY <1>2, Zenon DEF ReleaseCleanup, CleanupStep, ReleaseDone, ReleaseNotify, WakeLost, ReleasePort,
              Release, leaseVars
<1>3. ASSUME NEW c \in Conn, Exit(c) PROVE UNCHANGED port
  BY <1>3, Zenon DEF Exit, UdpLoopNotify
<1>4. ASSUME NEW c \in Conn,
             \/ SpawnRelay(c) \/ Bind(c) \/ RegisterSocket(c) \/ CheckAllocation(c)
             \/ UnregisterSocket(c) \/ Serve(c) \/ Send(c) \/ Recv(c) \/ RecvError(c)
             \/ \E q \in Releaser : RecvWake(c, q)
      PROVE  UNCHANGED port
  BY <1>4, Zenon DEF SpawnRelay, Bind, RegisterSocket, CheckAllocation, UnregisterSocket, Serve,
              Send, Recv, RecvError, RecvWake, leaseVars
<1>5. ASSUME NEW u \in UdpTunnel,
             \/ TunnelLookup(u) \/ TunnelRegister(u) \/ ReaderEnds(u) \/ WriteFrame(u)
             \/ TunnelEnds(u) \/ ClientCloses(u) \/ \E c \in Conn : TunnelCheck(u, c)
      PROVE  UNCHANGED port
  BY <1>5, Zenon DEF TunnelLookup, TunnelRegister, ReaderEnds, WriteFrame, TunnelEnds,
              ClientCloses, TunnelCheck, leaseVars
<1>6. CASE UNCHANGED vars
  BY <1>6, Zenon DEF vars, leaseVars
<1> QED
  BY <1>1, <1>2, <1>3, <1>4, <1>5, <1>6, Zenon DEF Next, LoopStep, TunnelStep

\* A lease that has its port to itself keeps it so until it is released.
LEMMA AloneStep ==
    ASSUME TypeOK, PlacesKnown, PortsTold, SocketsOpened, [Next]_vars,
           NEW c \in Conn, NEW p \in Ports, port[c] = p, AloneOn(c),
           port_allocations[p] # Free, port_allocations'[p] # Free
    PROVE  AloneOn(c)'
<1>0. NoPort \notin Ports /\ None \notin Conn
  BY PortLeaseAssumption, RelayUdpAssumption DEF Ports
<1>1. port'[c] = p
  BY PortKept, LeaseSide, Zenon DEF TypeOK
<1>2. \A d \in Conn : d # c /\ port'[d] = p => loop'[d] = "stopped" /\ ~Bound(d)'
  BY PortTaken, UnboundStays, Zenon DEF AloneOn
<1>3. \A r \in Releaser : release_port'[r] # p
  BY ReleaseBegins, Zenon DEF AloneOn
<1>4. ~\E d \in Conn : loop[d] = "unregister" /\ port[d] = p
  BY Zenon DEF AloneOn
<1>5. \A r \in Releaser : release_port[r] # p
  BY Zenon DEF AloneOn
<1>6. ~\E d \in Conn : d # c /\ loop[d] = "register" /\ port[d] = p
  BY Zenon DEF AloneOn
<1>7. loop[c] = "bind" => ~\E d \in Conn : port[d] = port[c] /\ Bound(d)
  BY Zenon DEF AloneOn, Bound, Looping, SocketsOpened
<1>8. Allocated(port[c])
  BY Zenon DEF Allocated
<1>9. loop'[c] \notin {"unregister", "notify", "stopped"}
  BY <1>7, <1>8, LoopMoves, Zenon DEF AloneOn, LoopAfterCheck
<1>10. loop'[c] \in {"recv", "check", "serve", "send"} => udp_sockets'[p] = c
  <2>1. CASE loop[c] \in {"recv", "check", "serve", "send"}
    BY <1>4, <1>5, <1>6, <2>1, RegisteredSocket, Zenon DEF AloneOn
  <2>2. CASE RegisterSocket(c)
    BY <2>2, Zenon DEF RegisterSocket, TypeOK
  <2> QED
    BY <2>1, <2>2, LoopMoves, Zenon
<1> QED
  BY <1>1, <1>2, <1>3, <1>9, <1>10, Zenon DEF AloneOn

\* A lease on a quiet port has the port to itself from the moment it is granted.
LEMMA GrantedAlone ==
    ASSUME TypeOK, PlacesKnown, PortsTold, [Next]_vars, NEW c \in Conn, Connect(c),
           port'[c] # port[c], Quiet(port'[c])
    PROVE  port'[c] \in Ports /\ AloneOn(c)'
<1>0. NoPort \notin Ports
  BY PortLeaseAssumption DEF Ports
<1>1. UNCHANGED <<release_port, loop, udp_sockets, tunnel>>
  BY ConnectEffect, Zenon DEF Connect, TypeOK
<1>2. PICK p \in Ports : port' = [port EXCEPT ![c] = p] /\ port[c] = NoPort
  BY ConnectEffect DEF Connect, TypeOK
<1>3. port'[c] = p /\ \A d \in Conn : d # c => port'[d] = port[d]
  BY <1>2, Zenon DEF TypeOK, LeaseTypeOK
<1>4. loop[c] = "none"
  BY <1>0, <1>2, Zenon DEF PlacesKnown
<1>5. \A d \in Conn : d # c /\ port'[d] = p => loop[d] = "stopped" /\ ~Bound(d)
  BY <1>3, Zenon DEF Quiet
<1>6. \A d \in Conn : Bound(d)' <=> Bound(d)
  BY <1>1, Zenon DEF Bound, Looping
<1>7. \A r \in Releaser : release_port[r] # p
  BY <1>3, Zenon DEF Quiet
<1> QED
  BY <1>1, <1>3, <1>4, <1>5, <1>6, <1>7, Zenon DEF AloneOn

\* Every step keeps the quiet leases alone.
LEMMA QuietStep ==
    ASSUME TypeOK, PlacesKnown, PortsTold, SocketsOpened, QuietAlone, [Next]_vars
    PROVE  QuietAlone'
<1>1. ASSUME NEW c \in quiet
      PROVE  port'[c] \in Ports /\ (LeaseHolder(port[c])' = c => AloneOn(c)')
  <2>1. c \in Conn /\ port[c] \in Ports /\ (LeaseHolder(port[c]) = c => AloneOn(c))
    BY Zenon DEF QuietAlone, TypeOK
  <2>2. port'[c] = port[c]
    BY <2>1, LeaseSide, PortKept, Zenon DEF TypeOK
  <2>3. ASSUME LeaseHolder(port[c])' = c PROVE AloneOn(c)'
    <3>1. port_allocations'[port[c]] # Free /\ port_allocations'[port[c]].client_addr = c
      BY <2>1, <2>2, <2>3, RelayUdpAssumption, Zenon DEF LeaseHolder, Allocated
    <3>2. port_allocations[port[c]] # Free /\ port_allocations[port[c]].client_addr = c
      BY <2>1, <3>1, LeaseSide, HolderKept, Zenon DEF TypeOK
    <3>3. AloneOn(c)
      BY <2>1, <3>2, Zenon DEF LeaseHolder, Allocated
    <3> QED
      BY <2>1, <3>1, <3>2, <3>3, AloneStep, Zenon
  <2> QED
    BY <2>1, <2>2, <2>3, Zenon
<1>2. ASSUME NEW c \in Conn, Connect(c) PROVE QuietAlone'
  <2>1. CASE UNCHANGED quiet
    BY <1>1, <2>1, Zenon DEF QuietAlone
  <2>2. CASE port'[c] # port[c] /\ Quiet(port'[c]) /\ quiet' = quiet \cup {c}
    BY <1>1, <1>2, <2>2, GrantedAlone, Zenon DEF QuietAlone
  <2> QED
    BY <1>2, <2>1, <2>2, Zenon DEF Connect
<1>3. CASE UNCHANGED quiet
  BY <1>1, <1>3, Zenon DEF QuietAlone
<1>4. UNCHANGED quiet \/ \E c \in Conn : Connect(c)
  BY Zenon DEF Next, LoopStep, TunnelStep, ReleasePort, ReleaseCleanup, ReleaseDone, WakeLost,
         SpawnRelay, Bind, RegisterSocket, CheckAllocation, UnregisterSocket, Exit, Serve, Send,
         Recv, RecvError, RecvWake, TunnelLookup, TunnelRegister, ReaderEnds, WriteFrame,
         TunnelEnds, ClientCloses, TunnelCheck, vars, udpVars
<1> QED
  BY <1>2, <1>3, <1>4, Zenon

\* The inductive invariant of the UDP side.
UdpInvariant == TypeOK /\ PlacesKnown /\ SocketsOpened /\ QuietAlone

\* The invariant holds throughout, next to what is known of the leases.
THEOREM UdpInvariantCorrect == Spec => []UdpInvariant
<1>1. Init => UdpInvariant
  <2>1. Init => SocketsOpened /\ QuietAlone
    BY RelayUdpAssumption DEF Init, IdleTunnel, SocketsOpened, QuietAlone
  <2> QED
    BY <2>1, UdpInit, Zenon DEF UdpInvariant
<1>2. UdpInvariant /\ PortsTold /\ [Next]_vars => UdpInvariant'
  BY UdpTypeStep, PlacesStep, OpenedStep, QuietStep, Zenon DEF UdpInvariant
<1>3. Spec => []PortsTold
  BY UdpKeepsLeases, PortsToldCorrect, PTL
<1> QED
  BY <1>1, <1>2, <1>3, PTL DEF Spec

\* A lease granted on a quiet port is served for as long as it is held: its loop does not
\* end, and its socket stays registered, for any number of leases, tunnels and RELEASEs.
THEOREM QuietLeaseServedCorrect == Spec => []QuietLeaseServed
<1>1. UdpInvariant => QuietLeaseServed
  BY Zenon DEF UdpInvariant, QuietAlone, AloneOn, QuietLeaseServed
<1> QED
  BY <1>1, UdpInvariantCorrect, PTL
=============================================================================
