--------------------------- MODULE RelayTcpProofs ---------------------------
(***************************************************************************)
(* The TCP side of the relay, for any number of leases, public connections *)
(* and tunnels.  What PortLeaseProofs shows of the lease handlers holds    *)
(* here too (LeaseSide).  Four invariants lead to the properties of        *)
(* RelayTcp: PlacesKnown says that tasks agree on the port they work at,   *)
(* TunnelsDistinct that a tunnel is in one place, ServedHere that it       *)
(* serves connections of its port, and QuietAlone that nothing joins a     *)
(* lease that was granted on a quiet port.                                 *)
(***************************************************************************)
EXTENDS RelayTcp, PortLeaseProofs

\* A listener has a port; one that checks holds a connection no other listener holds.
ListenersKnown ==
    /\ \A c \in Conn : listener[c] # "none" => port[c] \in Ports
    /\ \A c \in Conn : listener[c] = "check" =>
          /\ accepted[c] \in Connection
          /\ public[accepted[c]].pc = "accepted" /\ public[accepted[c]].port = port[c]
    /\ \A c, d \in Conn :
          listener[c] = "check" /\ listener[d] = "check" /\ accepted[c] = accepted[d] => c = d

\* A wake-up that is still on its way is not yet a connection.
WakesKnown == \A r \in Releaser : wake[r] # NoPort => public[r].pc \in {"idle", "closed"}

\* A public connection was accepted at the port of the lease it is counted for.
PublicKnown ==
    \A x \in Connection :
       /\ public[x].pc # "idle" => public[x].port \in Ports
       /\ public[x].lease # None =>
             port[public[x].lease] \in Ports /\ port[public[x].lease] = public[x].port
       /\ public[x].pc = "served" => public[x].tunnel \in Tunnel

\* A tunnel that was announced belongs to a lease with a port.
TunnelsKnown ==
    \A t \in Tunnel :
       /\ tunnel[t].pc = "idle" => tunnel[t].lease = None
       /\ tunnel[t].pc # "idle" => tunnel[t].lease \in Conn
       /\ tunnel[t].lease # None => port[tunnel[t].lease] \in Ports

PlacesKnown == ListenersKnown /\ WakesKnown /\ PublicKnown /\ TunnelsKnown

\* A tunnel that serves a connection is not on offer, and one on offer is so once, at the
\* port of its lease.
TunnelsDistinct ==
    /\ \A x \in Connection : public[x].pc = "served" => tunnel[public[x].tunnel].pc = "serving"
    /\ \A p \in Ports : \A i \in DOMAIN tcp_tunnels[p] : port[tunnel[tcp_tunnels[p][i]].lease] = p
    /\ \A p \in Ports : \A i, j \in DOMAIN tcp_tunnels[p] :
          tcp_tunnels[p][i] = tcp_tunnels[p][j] => i = j

\* A public connection is served by a tunnel of the port it came to.
ServedHere ==
    \A x \in Connection : public[x].pc = "served" =>
       port[tunnel[public[x].tunnel].lease] = public[x].port

\* As long as the lease is held, its listener runs and nothing else is at work on its port.
AloneOn(c) ==
    /\ listener[c] # "stopped"
    /\ \A d \in Conn : d # c /\ port[d] = port[c] => listener[d] = "stopped"
    /\ \A r \in Releaser : release_port[r] # port[c] /\ wake[r] # port[c]
    /\ \A t \in Tunnel : tunnel[t].lease # None /\ port[tunnel[t].lease] = port[c] =>
          tunnel[t].lease = c \/ tunnel[t].stale \/ tunnel[t].pc = "closed"

QuietAlone ==
    \A c \in quiet : port[c] \in Ports /\ (LeaseHolder(port[c]) = c => AloneOn(c))

-----------------------------------------------------------------------------
(* The lease handlers.                                                     *)

\* Whatever listeners, tunnels and connections do, the lease handlers take their own steps
\* or none.
LEMMA LeaseSide == [Next]_vars => [LeaseNext]_leaseVars
<1> SUFFICES ASSUME [Next]_vars PROVE [LeaseNext]_leaseVars
  BY Zenon
<1>1. ASSUME NEW c \in Conn, Connect(c) PROVE LeaseNext
  BY <1>1, Zenon DEF Connect, LeaseNext
<1>2. ASSUME NEW r \in Releaser, NEW p \in Ports, ReleasePort(r, p) PROVE LeaseNext
  BY <1>2, Zenon DEF ReleasePort, LeaseNext
<1>3. ASSUME NEW r \in Releaser, ReleaseCleanup(r) PROVE LeaseNext
  BY <1>3, Zenon DEF ReleaseCleanup, LeaseNext
<1>4. CASE OtherLeaseStep
  BY <1>4, Zenon DEF OtherLeaseStep, LeaseNext
<1>5. ASSUME NEW c \in Conn,
             SpawnRelay(c) \/ Bind(c) \/ CheckAllocation(c) \/ \E x \in Connection : Accept(c, x)
      PROVE  UNCHANGED leaseVars
  BY <1>5, Zenon DEF SpawnRelay, Bind, CheckAllocation, Accept
<1>6. ASSUME NEW r \in Releaser, WakeRefused(r) PROVE UNCHANGED leaseVars
  BY <1>6, Zenon DEF WakeRefused
<1>7. ASSUME NEW x \in Connection, TakeTunnel(x) \/ CloseRelay(x) PROVE UNCHANGED leaseVars
  BY <1>7, Zenon DEF TakeTunnel, CloseRelay
<1>8. ASSUME NEW t \in Tunnel, TunnelPush(t) \/ \E c \in Conn : TunnelCheck(t, c)
      PROVE  UNCHANGED leaseVars
  BY <1>8, Zenon DEF TunnelPush, TunnelCheck
<1>9. CASE UNCHANGED vars
  BY <1>9, Zenon DEF vars
<1> QED
  BY <1>1, <1>2, <1>3, <1>4, <1>5, <1>6, <1>7, <1>8, <1>9, Zenon DEF Next

\* The relay with its TCP side is still the relay of PortLease, so all that is proved there
\* holds: the leases are sound, and the lease table is implemented.
THEOREM TcpKeepsLeases == Spec => LeaseSpec /\ []LeaseSound /\ ImplementsLeaseTable
<1>1. Init => LeaseInit
  BY Zenon DEF Init
<1>2. Spec => LeaseSpec
  BY <1>1, LeaseSide, PTL DEF Spec, LeaseSpec
<1> QED
  BY <1>2, LeaseSoundCorrect, LeaseTableImplemented, PTL

-----------------------------------------------------------------------------
(* Types.                                                                  *)

TunnelState ==
    [pc : {"idle", "checked", "queued", "serving", "closed"},
     lease : Conn \cup {None}, stale : BOOLEAN]

PublicState ==
    [pc : {"idle", "accepted", "waiting", "served", "closed"}, port : Ports \cup {NoPort},
     lease : Conn \cup {None}, tunnel : Tunnel \cup {None}]

\* What it means that a tunnel handler goes on.
LEMMA TunnelMoved ==
    ASSUME tunnel \in [Tunnel -> TunnelState], NEW t \in Tunnel,
           NEW s \in {"idle", "checked", "queued", "serving", "closed"},
           tunnel' = [tunnel EXCEPT ![t].pc = s]
    PROVE  /\ tunnel' \in [Tunnel -> TunnelState]
           /\ \A u \in Tunnel : /\ tunnel'[u].pc = IF u = t THEN s ELSE tunnel[u].pc
                                /\ tunnel'[u].lease = tunnel[u].lease
                                /\ tunnel'[u].stale = tunnel[u].stale
  BY Zenon DEF TunnelState

\* A public connection that is served keeps its port and its lease.
LEMMA PublicServed ==
    ASSUME public \in [Connection -> PublicState], NEW x \in Connection, NEW t \in Tunnel,
           public' = [public EXCEPT ![x].pc = "served", ![x].tunnel = t]
    PROVE  /\ public' \in [Connection -> PublicState]
           /\ \A y \in Connection : y # x => public'[y] = public[y]
           /\ /\ public'[x].pc = "served" /\ public'[x].tunnel = t
              /\ public'[x].port = public[x].port /\ public'[x].lease = public[x].lease
<1>1. public[x] \in PublicState
  BY Zenon
<1>2. public' = [public EXCEPT ![x] = [public[x] EXCEPT !.pc = "served", !.tunnel = t]]
  BY Zenon
<1> DEFINE s == [public[x] EXCEPT !.pc = "served", !.tunnel = t]
<1>3. /\ s \in PublicState /\ s.pc = "served" /\ s.tunnel = t
      /\ s.port = public[x].port /\ s.lease = public[x].lease
  BY <1>1, Zenon DEF PublicState
<1> HIDE DEF s
<1>4. public' = [public EXCEPT ![x] = s]
  BY <1>2, Zenon DEF s
<1> QED
  BY <1>3, <1>4, Zenon

\* A public connection takes the first tunnel on offer at its port, or discards it.
LEMMA TakeEffect ==
    ASSUME TypeOK, PlacesKnown, NEW x \in Connection, TakeTunnel(x)
    PROVE  \E p \in Ports, t \in Tunnel, s \in {"serving", "closed"} :
              /\ public[x].port = p /\ public[x].pc = "waiting"
              /\ tcp_tunnels[p] \in Seq(Tunnel) /\ tcp_tunnels[p] # <<>>
              /\ t = Head(tcp_tunnels[p])
              /\ tcp_tunnels' = [tcp_tunnels EXCEPT ![p] = Tail(tcp_tunnels[p])]
              /\ tunnel' = [tunnel EXCEPT ![t].pc = s]
              /\ \/ s = "serving"
                    /\ public' = [public EXCEPT ![x].pc = "served", ![x].tunnel = t]
                 \/ s = "closed" /\ UNCHANGED public
<1> DEFINE p == public[x].port
           t == Head(tcp_tunnels[p])
<1>1. /\ p \in Ports /\ public[x].pc = "waiting"
      /\ tcp_tunnels[p] \in Seq(Tunnel) /\ tcp_tunnels[p] # <<>>
  BY Zenon DEF TakeTunnel, PlacesKnown, ListenersKnown, WakesKnown, PublicKnown, TunnelsKnown, TypeOK
<1>2. t \in Tunnel
  BY <1>1, SMTT(30)
<1>3. tcp_tunnels' = [tcp_tunnels EXCEPT ![p] = Tail(tcp_tunnels[p])]
  BY Zenon DEF TakeTunnel, RemainingTunnels
<1>4. \/ /\ tunnel' = [tunnel EXCEPT ![t].pc = "serving"]
         /\ public' = [public EXCEPT ![x].pc = "served", ![x].tunnel = t]
      \/ tunnel' = [tunnel EXCEPT ![t].pc = "closed"] /\ UNCHANGED public
  BY Zenon DEF TakeTunnel
<1>5. CASE /\ tunnel' = [tunnel EXCEPT ![t].pc = "serving"]
           /\ public' = [public EXCEPT ![x].pc = "served", ![x].tunnel = t]
  BY <1>1, <1>2, <1>3, <1>5, Zenon
<1>6. CASE tunnel' = [tunnel EXCEPT ![t].pc = "closed"] /\ UNCHANGED public
  BY <1>1, <1>2, <1>3, <1>6, Zenon
<1> QED
  BY <1>4, <1>5, <1>6, Zenon

\* The clean-up of a RELEASE drops the tunnels on offer at its port.
LEMMA CleanupEffect ==
    ASSUME TypeOK, PortsTold, NEW r \in Releaser, ReleaseCleanup(r)
    PROVE  \/ UNCHANGED <<tunnel, tcp_tunnels>>
           \/ \E p \in Ports :
                 /\ tcp_tunnels' = [tcp_tunnels EXCEPT ![p] = <<>>]
                 /\ tunnel' = [t \in Tunnel |->
                                  IF \E i \in DOMAIN tcp_tunnels[p] : tcp_tunnels[p][i] = t
                                  THEN [tunnel[t] EXCEPT !.pc = "closed"] ELSE tunnel[t]]
<1>1. release_port[r] \in Ports
  BY Zenon DEF ReleaseCleanup, CleanupStep, PortsTold
<1> DEFINE p == release_port[r]
<1>2. CASE release_pc[r] = "tcp_tunnels"
  <2>1. tcp_tunnels' = [tcp_tunnels EXCEPT ![p] = <<>>]
    BY <1>2, Zenon DEF ReleaseCleanup, TunnelsAfterRelease
  <2>2. tunnel' = [t \in Tunnel |->
                     IF t \in {tcp_tunnels[p][i] : i \in DOMAIN tcp_tunnels[p]}
                     THEN [tunnel[t] EXCEPT !.pc = "closed"] ELSE tunnel[t]]
    BY <1>2, Zenon DEF ReleaseCleanup
  <2>3. \A t : t \in {tcp_tunnels[p][i] : i \in DOMAIN tcp_tunnels[p]}
                 <=> \E i \in DOMAIN tcp_tunnels[p] : tcp_tunnels[p][i] = t
    BY Zenon
  <2>4. tunnel' = [t \in Tunnel |->
                     IF \E i \in DOMAIN tcp_tunnels[p] : tcp_tunnels[p][i] = t
                     THEN [tunnel[t] EXCEPT !.pc = "closed"] ELSE tunnel[t]]
    BY <2>2, <2>3, Zenon
  <2> QED
    BY <1>1, <2>1, <2>4, Zenon
<1>3. CASE release_pc[r] # "tcp_tunnels"
  BY <1>3, Zenon DEF ReleaseCleanup
<1> QED
  BY <1>2, <1>3, Zenon

\* Every step keeps the types.
LEMMA TcpTypeStep ==
    ASSUME TypeOK, PlacesKnown, PortsTold, [Next]_vars
    PROVE  TypeOK'
<1>l. LeaseTypeOK'
  BY LeaseSide, TypeStep, Zenon DEF TypeOK
<1>0. tunnel \in [Tunnel -> TunnelState] /\ public \in [Connection -> PublicState]
  BY Zenon DEF TypeOK, TunnelState, PublicState
<1>t. ASSUME UNCHANGED <<listener, accepted, wake, quiet, told>>,
             tcp_tunnels' \in [Ports -> Seq(Tunnel)], tunnel' \in [Tunnel -> TunnelState],
             public' \in [Connection -> PublicState]
      PROVE  TypeOK'
  BY <1>l, <1>t, Zenon DEF TypeOK, TunnelState, PublicState
<1>1. ASSUME NEW c \in Conn, Connect(c) PROVE TypeOK'
  BY <1>1, <1>l, Zenon DEF Connect, TypeOK
<1>2. ASSUME NEW r \in Releaser, NEW p \in Ports, ReleasePort(r, p) PROVE TypeOK'
  BY <1>2, <1>l, Zenon DEF ReleasePort, WakeAfterRelease, TypeOK
<1>3. ASSUME NEW r \in Releaser, ReleaseCleanup(r) PROVE TypeOK'
  <2>1. CASE UNCHANGED <<tunnel, tcp_tunnels>>
    BY <1>0, <1>3, <1>t, <2>1, Zenon DEF ReleaseCleanup, TypeOK
  <2>2. ASSUME NEW p \in Ports, tcp_tunnels' = [tcp_tunnels EXCEPT ![p] = <<>>],
               tunnel' = [t \in Tunnel |->
                            IF \E i \in DOMAIN tcp_tunnels[p] : tcp_tunnels[p][i] = t
                            THEN [tunnel[t] EXCEPT !.pc = "closed"] ELSE tunnel[t]]
        PROVE  TypeOK'
    <3>1. tcp_tunnels' \in [Ports -> Seq(Tunnel)]
      BY <2>2 DEF TypeOK
    <3>2. tunnel' \in [Tunnel -> TunnelState]
      BY <1>0, <2>2, Zenon DEF TunnelState
    <3> QED
      BY <1>0, <1>3, <1>t, <3>1, <3>2, Zenon DEF ReleaseCleanup
  <2> QED
    BY <1>3, <2>1, <2>2, CleanupEffect, Zenon
<1>4. CASE OtherLeaseStep
  BY <1>4, <1>l, Zenon DEF OtherLeaseStep, tcpVars, TypeOK
<1>5. ASSUME NEW c \in Conn, SpawnRelay(c) PROVE TypeOK'
  BY <1>5, <1>l, Zenon DEF SpawnRelay, TypeOK
<1>6. ASSUME NEW c \in Conn, Bind(c) PROVE TypeOK'
  BY <1>6, <1>l, Zenon DEF Bind, TypeOK
<1>7. ASSUME NEW c \in Conn, NEW x \in Connection, Accept(c, x) PROVE TypeOK'
  <2>1. port[c] \in Ports
    BY <1>7, Zenon DEF Accept, PlacesKnown, ListenersKnown, WakesKnown, PublicKnown, TunnelsKnown
  <2>2. public' \in [Connection -> PublicState]
    BY <1>0, <1>7, <2>1, Zenon DEF Accept, IdlePublic, PublicState
  <2> QED
    BY <1>7, <1>l, <2>2, Zenon DEF Accept, TypeOK, PublicState
<1>8. ASSUME NEW c \in Conn, CheckAllocation(c) PROVE TypeOK'
  <2>1. accepted[c] \in Connection /\ port[c] \in Ports
    BY <1>8, Zenon DEF CheckAllocation, PlacesKnown, ListenersKnown, WakesKnown, PublicKnown, TunnelsKnown
  <2>2. LeaseHolder(port[c]) \in Conn \cup {None}
    BY <2>1, Zenon DEF LeaseHolder, Allocated, TypeOK, LeaseTypeOK, Allocation
  <2>3. public' \in [Connection -> PublicState]
    BY <1>0, <1>8, <2>1, <2>2, SMTT(30) DEF CheckAllocation, PublicState
  <2> QED
    BY <1>8, <1>l, <2>3, Zenon DEF CheckAllocation, TypeOK, PublicState
<1>9. ASSUME NEW r \in Releaser, WakeRefused(r) PROVE TypeOK'
  BY <1>9, <1>l, Zenon DEF WakeRefused, TypeOK
<1>10. ASSUME NEW x \in Connection, TakeTunnel(x) PROVE TypeOK'
  <2>1. PICK p \in Ports, t \in Tunnel, s \in {"serving", "closed"} :
           /\ public[x].port = p /\ public[x].pc = "waiting"
           /\ tcp_tunnels[p] \in Seq(Tunnel) /\ tcp_tunnels[p] # <<>>
           /\ t = Head(tcp_tunnels[p])
           /\ tcp_tunnels' = [tcp_tunnels EXCEPT ![p] = Tail(tcp_tunnels[p])]
           /\ tunnel' = [tunnel EXCEPT ![t].pc = s]
           /\ \/ s = "serving"
                 /\ public' = [public EXCEPT ![x].pc = "served", ![x].tunnel = t]
              \/ s = "closed" /\ UNCHANGED public
    BY <1>10, TakeEffect, Zenon
  <2>2. tcp_tunnels' \in [Ports -> Seq(Tunnel)]
    BY <2>1, SMTT(30) DEF TypeOK
  <2>3. tunnel' \in [Tunnel -> TunnelState]
    BY <1>0, <2>1, TunnelMoved, Zenon
  <2>4. public' \in [Connection -> PublicState]
    <3>1. CASE public' = [public EXCEPT ![x].pc = "served", ![x].tunnel = t]
      BY <1>0, <3>1, PublicServed, Zenon
    <3> QED
      BY <1>0, <2>1, <3>1, Zenon
  <2> QED
    BY <1>10, <1>t, <2>2, <2>3, <2>4, Zenon DEF TakeTunnel
<1>11. ASSUME NEW x \in Connection, CloseRelay(x) PROVE TypeOK'
  <2>1. public[x].tunnel \in Tunnel
    BY <1>11, Zenon DEF CloseRelay, PlacesKnown, ListenersKnown, WakesKnown, PublicKnown, TunnelsKnown
  <2>2. tunnel' \in [Tunnel -> TunnelState]
    BY <1>0, <1>11, <2>1, TunnelMoved, Zenon DEF CloseRelay
  <2>3. public' \in [Connection -> PublicState]
    BY <1>0, <1>11, Zenon DEF CloseRelay, PublicState
  <2> QED
    BY <1>11, <1>t, <2>2, <2>3, Zenon DEF CloseRelay, TypeOK
<1>12. ASSUME NEW t \in Tunnel, NEW c \in Conn, TunnelCheck(t, c) PROVE TypeOK'
  <2>1. tunnel' \in [Tunnel -> TunnelState]
    BY <1>0, <1>12, Zenon DEF TunnelCheck, TunnelState
  <2> QED
    BY <1>0, <1>12, <1>t, <2>1, Zenon DEF TunnelCheck, TypeOK
<1>13. ASSUME NEW t \in Tunnel, TunnelPush(t) PROVE TypeOK'
  <2> DEFINE p == port[tunnel[t].lease]
  <2>1. p \in Ports /\ Append(tcp_tunnels[p], t) \in Seq(Tunnel)
    BY <1>13, RelayTcpAssumption, SMTT(30) DEF TunnelPush, PlacesKnown, TunnelsKnown, TypeOK
  <2>2. tcp_tunnels' \in [Ports -> Seq(Tunnel)]
    BY <1>13, <2>1, Zenon DEF TunnelPush, TypeOK
  <2>3. tunnel' \in [Tunnel -> TunnelState]
    BY <1>0, <1>13, Zenon DEF TunnelPush, TunnelState
  <2> QED
    BY <1>0, <1>13, <1>t, <2>2, <2>3, Zenon DEF TunnelPush
<1>14. CASE UNCHANGED vars
  BY <1>14, <1>l, Zenon DEF vars, tcpVars, TypeOK
<1> QED
  BY <1>1, <1>2, <1>3, <1>4, <1>5, <1>6, <1>7, <1>8, <1>9, <1>10, <1>11, <1>12, <1>13, <1>14, Zenon
     DEF Next

-----------------------------------------------------------------------------
(* What an accept loop does to the connection it holds.                    *)

\* A connection that is accepted starts afresh at the port of the loop.
LEMMA AcceptEffect ==
    ASSUME TypeOK, NEW c \in Conn, NEW x \in Connection, Accept(c, x)
    PROVE  /\ public'[x].pc = "accepted" /\ public'[x].port = port[c]
           /\ public'[x].lease = None
           /\ \A y \in Connection : y # x => public'[y] = public[y]
  BY Zenon DEF Accept, IdlePublic, TypeOK

\* A connection that was checked waits for a tunnel of the lease found, or is closed.
LEMMA CheckEffect ==
    ASSUME TypeOK, PlacesKnown, NEW c \in Conn, CheckAllocation(c)
    PROVE  \E x \in Connection :
              /\ accepted[c] = x /\ public[x].pc = "accepted" /\ public[x].port = port[c]
              /\ port[c] \in Ports
              /\ public'[x].port = port[c]
              /\ \/ /\ Allocated(port[c]) /\ public'[x].pc = "waiting"
                    /\ public'[x].lease = LeaseHolder(port[c])
                    /\ listener' = [listener EXCEPT ![c] = "accept"]
                 \/ /\ ~Allocated(port[c]) /\ public'[x].pc = "closed"
                    /\ public'[x].lease = public[x].lease
                    /\ listener' = [listener EXCEPT ![c] = "stopped"]
              /\ \A y \in Connection : y # x => public'[y] = public[y]
<1>1. PICK x \in Connection : x = accepted[c]
  BY Zenon DEF CheckAllocation, PlacesKnown, ListenersKnown, WakesKnown, PublicKnown, TunnelsKnown
<1>2. public[x].pc = "accepted" /\ public[x].port = port[c] /\ port[c] \in Ports
  BY <1>1, Zenon DEF CheckAllocation, PlacesKnown, ListenersKnown, WakesKnown, PublicKnown, TunnelsKnown
<1>3. CASE Allocated(port[c])
  <2>1. public' = [public EXCEPT ![x].pc = "waiting", ![x].lease = LeaseHolder(port[c])]
    BY <1>1, <1>3, Zenon DEF CheckAllocation
  <2> DEFINE h == LeaseHolder(port[c])
             s == [public[x] EXCEPT !.pc = "waiting", !.lease = h]
  <2>2. public' = [public EXCEPT ![x] = s]
    BY <2>1, Zenon DEF TypeOK
  <2> HIDE DEF h
  <2>3. s.pc = "waiting" /\ s.lease = h /\ s.port = public[x].port
    BY Zenon DEF TypeOK
  <2> HIDE DEF s
  <2>4. public'[x] = s /\ \A y \in Connection : y # x => public'[y] = public[y]
    BY <2>2, Zenon DEF TypeOK
  <2>5. listener' = [listener EXCEPT ![c] = "accept"]
    BY <1>3, Zenon DEF CheckAllocation
  <2> QED
    BY <1>1, <1>2, <1>3, <2>3, <2>4, <2>5, Zenon DEF h
<1>4. CASE ~Allocated(port[c])
  <2>1. /\ public' = [public EXCEPT ![x].pc = "closed"]
        /\ listener' = [listener EXCEPT ![c] = "stopped"]
    BY <1>1, <1>4, Zenon DEF CheckAllocation
  <2>2. /\ public'[x].pc = "closed" /\ public'[x].lease = public[x].lease
        /\ public'[x].port = public[x].port
        /\ \A y \in Connection : y # x => public'[y] = public[y]
    BY <2>1, Zenon DEF TypeOK
  <2> QED
    BY <1>1, <1>2, <1>4, <2>1, <2>2, Zenon
<1> QED
  BY <1>3, <1>4, Zenon

\* A relay that ends keeps its port and its lease; its tunnel is closed.
LEMMA CloseEffect ==
    ASSUME TypeOK, PlacesKnown, NEW x \in Connection, CloseRelay(x)
    PROVE  \E t \in Tunnel :
              /\ public[x].pc = "served" /\ public[x].tunnel = t
              /\ tunnel' = [tunnel EXCEPT ![t].pc = "closed"]
              /\ public'[x].pc = "closed"
              /\ public'[x].port = public[x].port /\ public'[x].lease = public[x].lease
              /\ \A y \in Connection : y # x => public'[y] = public[y]
<1>1. PICK t \in Tunnel : t = public[x].tunnel
  BY Zenon DEF CloseRelay, PlacesKnown, ListenersKnown, WakesKnown, PublicKnown, TunnelsKnown
<1>2. tunnel' = [tunnel EXCEPT ![t].pc = "closed"]
  BY <1>1, Zenon DEF CloseRelay
<1>3. public' = [public EXCEPT ![x] = [public[x] EXCEPT !.pc = "closed", !.tunnel = None]]
  BY Zenon DEF CloseRelay, TypeOK
<1>4. /\ public'[x].pc = "closed"
      /\ public'[x].port = public[x].port /\ public'[x].lease = public[x].lease
      /\ \A y \in Connection : y # x => public'[y] = public[y]
  BY <1>3, Zenon DEF TypeOK
<1> QED
  BY <1>1, <1>2, <1>4, Zenon DEF CloseRelay

\* The clean-up closes tunnels that were on offer, and changes nothing else of a tunnel.
LEMMA CleanupTunnels ==
    ASSUME TypeOK, PortsTold, TunnelServesOnce, NEW r \in Releaser, ReleaseCleanup(r)
    PROVE  \A u \in Tunnel :
              /\ tunnel'[u].lease = tunnel[u].lease /\ tunnel'[u].stale = tunnel[u].stale
              /\ \/ tunnel'[u].pc = tunnel[u].pc
                 \/ tunnel[u].pc = "queued" /\ tunnel'[u].pc = "closed"
              /\ tunnel'[u].pc = "idle" <=> tunnel[u].pc = "idle"
<1> SUFFICES ASSUME NEW u \in Tunnel
             PROVE  /\ tunnel'[u].lease = tunnel[u].lease /\ tunnel'[u].stale = tunnel[u].stale
                    /\ \/ tunnel'[u].pc = tunnel[u].pc
                       \/ tunnel[u].pc = "queued" /\ tunnel'[u].pc = "closed"
  BY Zenon
<1>1. CASE UNCHANGED <<tunnel, tcp_tunnels>>
  BY <1>1, Zenon
<1>2. ASSUME NEW p \in Ports,
             tunnel' = [t \in Tunnel |->
                          IF \E i \in DOMAIN tcp_tunnels[p] : tcp_tunnels[p][i] = t
                          THEN [tunnel[t] EXCEPT !.pc = "closed"] ELSE tunnel[t]]
      PROVE  /\ tunnel'[u].lease = tunnel[u].lease /\ tunnel'[u].stale = tunnel[u].stale
             /\ \/ tunnel'[u].pc = tunnel[u].pc
                \/ tunnel[u].pc = "queued" /\ tunnel'[u].pc = "closed"
  <2>1. CASE \E i \in DOMAIN tcp_tunnels[p] : tcp_tunnels[p][i] = u
    <3>1. tunnel[u].pc = "queued"
      BY <2>1, Zenon DEF TunnelServesOnce
    <3>2. tunnel'[u] = [tunnel[u] EXCEPT !.pc = "closed"]
      BY <1>2, <2>1, Zenon
    <3> QED
      BY <3>1, <3>2 DEF TypeOK
  <2>2. CASE ~\E i \in DOMAIN tcp_tunnels[p] : tcp_tunnels[p][i] = u
    BY <1>2, <2>2, Zenon
  <2> QED
    BY <2>1, <2>2, Zenon
<1> QED
  BY <1>1, <1>2, CleanupEffect, Zenon

-----------------------------------------------------------------------------
(* Tasks agree on their ports.                                             *)

\* The steps that leave listeners, tunnels and public connections alone.
LEMMA PlacesFrame ==
    ASSUME TypeOK, PlacesKnown, PortsTold, [LeaseNext]_leaseVars,
           UNCHANGED <<listener, accepted, tunnel, public>>,
           \A r \in Releaser : wake'[r] # NoPort => public[r].pc \in {"idle", "closed"}
    PROVE  PlacesKnown'
<1>1. \A d \in Conn : port[d] \in Ports => port'[d] = port[d]
  BY PortKept, Zenon DEF TypeOK
<1>2. \A x \in Connection : public[x].lease # None => public[x].lease \in Conn
  BY Zenon DEF TypeOK
<1>3. \A t \in Tunnel : tunnel[t].lease # None => tunnel[t].lease \in Conn
  BY Zenon DEF TypeOK
<1> QED
  BY <1>1, <1>2, <1>3 DEF PlacesKnown, ListenersKnown, WakesKnown, PublicKnown, TunnelsKnown

\* The steps that only move tunnels.
LEMMA PlacesTunnel ==
    ASSUME TypeOK, PlacesKnown, NEW t \in Tunnel, UNCHANGED <<leaseVars, listener, accepted, public, wake>>,
           \A u \in Tunnel : u # t => tunnel'[u] = tunnel[u],
           tunnel'[t].pc # "idle", tunnel'[t].lease \in Conn, port[tunnel'[t].lease] \in Ports
    PROVE  PlacesKnown'
  BY RelayTcpAssumption DEF PlacesKnown, ListenersKnown, WakesKnown, PublicKnown, TunnelsKnown, leaseVars

\* Every step keeps what tasks know of their ports.
LEMMA PlacesStep ==
    ASSUME TypeOK, PlacesKnown, TunnelsDistinct, TunnelServesOnce, PortsTold, LeaseConsistent,
           [Next]_vars
    PROVE  PlacesKnown'
<1>l. [LeaseNext]_leaseVars
  BY LeaseSide, Zenon
<1>1. ASSUME NEW c \in Conn, Connect(c) PROVE PlacesKnown'
  BY <1>1, <1>l, PlacesFrame, Zenon DEF Connect, PlacesKnown, WakesKnown
<1>2. ASSUME NEW r \in Releaser, NEW p \in Ports, ReleasePort(r, p) PROVE PlacesKnown'
  <2>1. \A q \in Releaser : wake'[q] # NoPort => public[q].pc \in {"idle", "closed"}
    BY <1>2 DEF ReleasePort, PlacesKnown, ListenersKnown, WakesKnown, PublicKnown, TunnelsKnown, TypeOK
  <2> QED
    BY <1>2, <1>l, <2>1, PlacesFrame, Zenon DEF ReleasePort
<1>3. ASSUME NEW r \in Releaser, ReleaseCleanup(r) PROVE PlacesKnown'
  <2>0. /\ UNCHANGED <<listener, accepted, public, wake, port>>
    BY <1>3, Zenon DEF ReleaseCleanup, CleanupStep
  <2>1. \A u \in Tunnel : /\ tunnel'[u].lease = tunnel[u].lease
                          /\ tunnel'[u].pc = "idle" <=> tunnel[u].pc = "idle"
    BY <1>3, CleanupTunnels, Zenon
  <2> QED
    BY <2>0, <2>1 DEF PlacesKnown, ListenersKnown, WakesKnown, PublicKnown, TunnelsKnown
<1>4. CASE OtherLeaseStep
  BY <1>4, <1>l, PlacesFrame, Zenon DEF OtherLeaseStep, tcpVars, PlacesKnown, WakesKnown
<1>5. ASSUME NEW c \in Conn, SpawnRelay(c) PROVE PlacesKnown'
  <2>1. port[c] \in Ports
    BY <1>5, SMTT(30) DEF SpawnRelay, PortsTold, TypeOK, LeaseTypeOK
  <2> QED
    BY <1>5, <2>1 DEF SpawnRelay, PlacesKnown, ListenersKnown, WakesKnown, PublicKnown,
            TunnelsKnown, TypeOK, leaseVars
<1>6. ASSUME NEW c \in Conn, Bind(c) PROVE PlacesKnown'
  <2>1. PICK l \in {"stopped", "accept"} : listener' = [listener EXCEPT ![c] = l]
    BY <1>6, Zenon DEF Bind
  <2> QED
    BY <1>6, <2>1 DEF Bind, PlacesKnown, ListenersKnown, WakesKnown, PublicKnown,
            TunnelsKnown, TypeOK, leaseVars
<1>7. ASSUME NEW c \in Conn, NEW x \in Connection, Accept(c, x) PROVE PlacesKnown'
  <2>1. public[x].pc \in {"idle", "closed"} /\ port[c] \in Ports
    BY <1>7, PortLeaseAssumption DEF Accept, PlacesKnown, ListenersKnown, WakesKnown, Ports
  <2>2. /\ UNCHANGED <<port, tunnel>>
        /\ listener' = [listener EXCEPT ![c] = "check"] /\ listener[c] = "accept"
        /\ accepted' = [accepted EXCEPT ![c] = x]
    BY <1>7, Zenon DEF Accept, leaseVars
  <2>3. \A r \in Releaser : wake'[r] # NoPort => wake'[r] = wake[r] /\ r # x
    BY <1>7, RelayTcpAssumption, Zenon DEF Accept, TypeOK
  <2>4. /\ public'[x].pc = "accepted" /\ public'[x].port = port[c] /\ public'[x].lease = None
        /\ \A y \in Connection : y # x => public'[y] = public[y]
    BY <1>7, AcceptEffect, Zenon
  <2>5. /\ \A d \in Conn : d # c => listener'[d] = listener[d] /\ accepted'[d] = accepted[d]
        /\ listener'[c] = "check" /\ accepted'[c] = x
    BY <2>2, Zenon DEF TypeOK
  <2>6. ListenersKnown'
    BY <2>1, <2>2, <2>4, <2>5, SMTT(30) DEF PlacesKnown, ListenersKnown
  <2>7. WakesKnown'
    BY <2>3, <2>4, Zenon DEF PlacesKnown, WakesKnown, Connection
  <2>8. PublicKnown'
    BY <2>1, <2>2, <2>4, Zenon DEF PlacesKnown, PublicKnown
  <2>9. TunnelsKnown'
    BY <2>2, Zenon DEF PlacesKnown, TunnelsKnown
  <2> QED
    BY <2>6, <2>7, <2>8, <2>9, Zenon DEF PlacesKnown
<1>8. ASSUME NEW c \in Conn, CheckAllocation(c) PROVE PlacesKnown'
  <2>2. UNCHANGED <<port, tunnel, wake>> /\ listener[c] = "check"
    BY <1>8, Zenon DEF CheckAllocation, leaseVars
  <2>3. accepted' = [accepted EXCEPT ![c] = None]
    BY <1>8, Zenon DEF CheckAllocation
  <2>4. PICK x \in Connection :
           /\ accepted[c] = x /\ public[x].pc = "accepted" /\ public[x].port = port[c]
           /\ port[c] \in Ports
           /\ public'[x].port = port[c]
           /\ \/ /\ Allocated(port[c]) /\ public'[x].pc = "waiting"
                 /\ public'[x].lease = LeaseHolder(port[c])
                 /\ listener' = [listener EXCEPT ![c] = "accept"]
              \/ /\ ~Allocated(port[c]) /\ public'[x].pc = "closed"
                 /\ public'[x].lease = public[x].lease
                 /\ listener' = [listener EXCEPT ![c] = "stopped"]
           /\ \A y \in Connection : y # x => public'[y] = public[y]
    BY <1>8, CheckEffect, Zenon
  <2>5. /\ \A d \in Conn : d # c => listener'[d] = listener[d] /\ accepted'[d] = accepted[d]
        /\ listener'[c] \in {"accept", "stopped"}
    BY <2>3, <2>4, Zenon DEF TypeOK
  <2>6. ListenersKnown'
    <3>1. \A d \in Conn : listener[d] = "check" /\ d # c => accepted[d] # x
      BY <2>2, <2>4, Zenon DEF PlacesKnown, ListenersKnown
    <3> QED
      BY <2>2, <2>4, <2>5, <3>1, SMTT(30) DEF PlacesKnown, ListenersKnown
  <2>7. WakesKnown'
    BY <2>2, <2>4, Zenon DEF PlacesKnown, WakesKnown, Connection
  <2>8. PublicKnown'
    <3>1. Allocated(port[c]) => port[LeaseHolder(port[c])] = port[c]
      BY Zenon DEF LeaseConsistent, LeaseHolder, Allocated
    <3> QED
      BY <2>2, <2>4, <3>1, SMTT(30) DEF PlacesKnown, PublicKnown
  <2>9. TunnelsKnown'
    BY <2>2, Zenon DEF PlacesKnown, TunnelsKnown
  <2> QED
    BY <2>6, <2>7, <2>8, <2>9, Zenon DEF PlacesKnown
<1>9. ASSUME NEW r \in Releaser, WakeRefused(r) PROVE PlacesKnown'
  <2>1. \A q \in Releaser : wake'[q] # NoPort => public[q].pc \in {"idle", "closed"}
    BY <1>9 DEF WakeRefused, PlacesKnown, ListenersKnown, WakesKnown, PublicKnown, TunnelsKnown, TypeOK
  <2> QED
    BY <1>9, <1>l, <2>1, PlacesFrame, Zenon DEF WakeRefused
<1>10. ASSUME NEW x \in Connection, TakeTunnel(x) PROVE PlacesKnown'
  <2>0. UNCHANGED <<port, listener, accepted, wake>>
    BY <1>10, Zenon DEF TakeTunnel, leaseVars
  <2>1. PICK p \in Ports, t \in Tunnel, s \in {"serving", "closed"} :
           /\ public[x].port = p /\ public[x].pc = "waiting"
           /\ tcp_tunnels[p] \in Seq(Tunnel) /\ tcp_tunnels[p] # <<>>
           /\ t = Head(tcp_tunnels[p])
           /\ tcp_tunnels' = [tcp_tunnels EXCEPT ![p] = Tail(tcp_tunnels[p])]
           /\ tunnel' = [tunnel EXCEPT ![t].pc = s]
           /\ \/ s = "serving"
                 /\ public' = [public EXCEPT ![x].pc = "served", ![x].tunnel = t]
              \/ s = "closed" /\ UNCHANGED public
    BY <1>10, TakeEffect, Zenon
  <2>2. tunnel[t].pc = "queued"
    <3>1. 1 \in DOMAIN tcp_tunnels[p] /\ t = tcp_tunnels[p][1]
      BY <2>1, SMTT(30)
    <3> QED
      BY <3>1, Zenon DEF TunnelServesOnce
  <2>3. \A u \in Tunnel : /\ tunnel'[u].pc = IF u = t THEN s ELSE tunnel[u].pc
                          /\ tunnel'[u].lease = tunnel[u].lease
    <3>1. tunnel \in [Tunnel -> TunnelState]
      BY Zenon DEF TypeOK, TunnelState
    <3>2. tunnel' = [tunnel EXCEPT ![t].pc = s] /\ s \in {"idle", "checked", "queued", "serving", "closed"}
      BY <2>1, Zenon
    <3>3. \A u \in Tunnel : /\ tunnel'[u].pc = IF u = t THEN s ELSE tunnel[u].pc
                            /\ tunnel'[u].lease = tunnel[u].lease
                            /\ tunnel'[u].stale = tunnel[u].stale
      BY <3>1, <3>2, TunnelMoved, Zenon
    <3> QED
      BY <3>3, Zenon
  <2>4. /\ \A y \in Connection : y # x => public'[y] = public[y]
        /\ public'[x].port = public[x].port /\ public'[x].lease = public[x].lease
        /\ public'[x].pc \in {"waiting", "served"}
        /\ public'[x].pc = "served" => public'[x].tunnel \in Tunnel
    <3>1. CASE public' = [public EXCEPT ![x].pc = "served", ![x].tunnel = t]
      <4>1. public \in [Connection -> PublicState]
        BY Zenon DEF TypeOK, PublicState
      <4> QED
        BY <3>1, <4>1, PublicServed, Zenon
    <3>2. \/ public' = [public EXCEPT ![x].pc = "served", ![x].tunnel = t]
          \/ UNCHANGED public
      BY <2>1, Zenon
    <3>3. CASE UNCHANGED public
      BY <2>1, <3>3, Zenon
    <3> QED
      BY <3>1, <3>2, <3>3, Zenon
  <2>5. ListenersKnown'
    BY <2>0, <2>1, <2>4, Zenon DEF PlacesKnown, ListenersKnown
  <2>6. WakesKnown'
    BY <2>0, <2>1, <2>4, Zenon DEF PlacesKnown, WakesKnown, Connection
  <2>7. PublicKnown'
    BY <2>0, <2>1, <2>4, SMTT(30) DEF PlacesKnown, PublicKnown
  <2>8. TunnelsKnown'
    BY <2>0, <2>2, <2>3, Zenon DEF PlacesKnown, TunnelsKnown
  <2> QED
    BY <2>5, <2>6, <2>7, <2>8, Zenon DEF PlacesKnown
<1>11. ASSUME NEW x \in Connection, CloseRelay(x) PROVE PlacesKnown'
  <2>0. UNCHANGED <<port, listener, accepted, wake>>
    BY <1>11, Zenon DEF CloseRelay, leaseVars
  <2>1. PICK t \in Tunnel :
           /\ public[x].pc = "served" /\ public[x].tunnel = t
           /\ tunnel' = [tunnel EXCEPT ![t].pc = "closed"]
           /\ public'[x].pc = "closed"
           /\ public'[x].port = public[x].port /\ public'[x].lease = public[x].lease
           /\ \A y \in Connection : y # x => public'[y] = public[y]
    BY <1>11, CloseEffect, Zenon
  <2>2. tunnel[t].pc = "serving"
    BY <2>1, Zenon DEF TunnelsDistinct
  <2>3. \A u \in Tunnel : /\ tunnel'[u].pc = IF u = t THEN "closed" ELSE tunnel[u].pc
                          /\ tunnel'[u].lease = tunnel[u].lease
    <3>1. tunnel \in [Tunnel -> TunnelState]
      BY Zenon DEF TypeOK, TunnelState
    <3>2. tunnel' = [tunnel EXCEPT ![t].pc = "closed"] /\ "closed" \in {"idle", "checked", "queued", "serving", "closed"}
      BY <2>1, Zenon
    <3>3. \A u \in Tunnel : /\ tunnel'[u].pc = IF u = t THEN "closed" ELSE tunnel[u].pc
                            /\ tunnel'[u].lease = tunnel[u].lease
                            /\ tunnel'[u].stale = tunnel[u].stale
      BY <3>1, <3>2, TunnelMoved, Zenon
    <3> QED
      BY <3>3, Zenon
  <2>5. ListenersKnown'
    BY <2>0, <2>1, Zenon DEF PlacesKnown, ListenersKnown
  <2>6. WakesKnown'
    BY <2>0, <2>1, Zenon DEF PlacesKnown, WakesKnown, Connection
  <2>7. PublicKnown'
    BY <2>0, <2>1, Zenon DEF PlacesKnown, PublicKnown
  <2>8. TunnelsKnown'
    BY <2>0, <2>2, <2>3, Zenon DEF PlacesKnown, TunnelsKnown
  <2> QED
    BY <2>5, <2>6, <2>7, <2>8, Zenon DEF PlacesKnown
<1>12. ASSUME NEW t \in Tunnel, NEW c \in Conn, TunnelCheck(t, c) PROVE PlacesKnown'
  <2>1. port[c] \in Ports
    BY <1>12, Zenon DEF TunnelCheck, PlacesKnown, ListenersKnown
  <2>2. /\ \A u \in Tunnel : u # t => tunnel'[u] = tunnel[u]
        /\ tunnel'[t].pc # "idle" /\ tunnel'[t].lease = c
    BY <1>12, Zenon DEF TunnelCheck, TypeOK
  <2> QED
    BY <1>12, <2>1, <2>2, PlacesTunnel, Zenon DEF TunnelCheck
<1>13. ASSUME NEW t \in Tunnel, TunnelPush(t) PROVE PlacesKnown'
  <2>1. tunnel[t].lease \in Conn /\ port[tunnel[t].lease] \in Ports
    BY <1>13, RelayTcpAssumption, Zenon DEF TunnelPush, PlacesKnown, TunnelsKnown
  <2>2. /\ \A u \in Tunnel : u # t => tunnel'[u] = tunnel[u]
        /\ tunnel'[t].pc # "idle" /\ tunnel'[t].lease = tunnel[t].lease
    BY <1>13, Zenon DEF TunnelPush, TypeOK
  <2> QED
    BY <1>13, <2>1, <2>2, PlacesTunnel, Zenon DEF TunnelPush
<1>14. CASE UNCHANGED vars
  BY <1>14, <1>l, PlacesFrame, Zenon DEF vars, tcpVars, PlacesKnown, WakesKnown
<1> QED
  BY <1>1, <1>2, <1>3, <1>4, <1>5, <1>6, <1>7, <1>8, <1>9, <1>10, <1>11, <1>12, <1>13, <1>14, Zenon
     DEF Next

-----------------------------------------------------------------------------
(* A tunnel is in one place.                                               *)

\* The steps that leave the tunnels and what they serve alone.
LEMMA DistinctFrame ==
    ASSUME TypeOK, PlacesKnown, PortsTold, TunnelsDistinct, TunnelServesOnce,
           [LeaseNext]_leaseVars, UNCHANGED <<tunnel, tcp_tunnels>>,
           \A x \in Connection : public'[x].pc = "served" =>
              public[x].pc = "served" /\ public'[x].tunnel = public[x].tunnel
    PROVE  TunnelsDistinct' /\ TunnelServesOnce'
<1>1. \A d \in Conn : port[d] \in Ports => port'[d] = port[d]
  BY PortKept, Zenon DEF TypeOK
<1>2. \A p \in Ports : \A i \in DOMAIN tcp_tunnels[p] : tcp_tunnels[p][i] \in Tunnel
  BY DEF TypeOK
<1>3. \A p \in Ports : \A i \in DOMAIN tcp_tunnels[p] : tunnel[tcp_tunnels[p][i]].lease \in Conn
  BY <1>2, Zenon DEF TunnelServesOnce, PlacesKnown, TunnelsKnown
<1> QED
  BY <1>1, <1>2, <1>3, SMTT(30) DEF TunnelsDistinct, TunnelServesOnce

\* The steps after which exactly the tunnels in a set keep their place on offer, those that
\* serve still serve, and one tunnel at most comes into service.
LEMMA DistinctMove ==
    ASSUME TypeOK, PlacesKnown, TunnelsDistinct, TunnelServesOnce, UNCHANGED port,
           NEW t \in Tunnel,
           \A u \in Tunnel : u # t => tunnel'[u] = tunnel[u],
           tunnel'[t].pc # "queued",
           \A p \in Ports : \A i \in DOMAIN tcp_tunnels'[p] :
              tcp_tunnels'[p][i] # t
              /\ \E j \in DOMAIN tcp_tunnels[p] : tcp_tunnels'[p][i] = tcp_tunnels[p][j],
           \A p \in Ports : \A i, j \in DOMAIN tcp_tunnels'[p] :
              tcp_tunnels'[p][i] = tcp_tunnels'[p][j] => i = j,
           NEW x,
           \A y \in Connection : y # x => public'[y] = public[y],
           \A y \in Connection : y # x /\ public[y].pc = "served" => public[y].tunnel # t,
           x \in Connection /\ public'[x].pc = "served" =>
              \/ public'[x].tunnel = t /\ tunnel'[t].pc = "serving"
              \/ public'[x] = public[x] /\ public[x].tunnel # t
    PROVE  TunnelsDistinct' /\ TunnelServesOnce'
<1>1. \A p \in Ports : \A i \in DOMAIN tcp_tunnels[p] : tcp_tunnels[p][i] \in Tunnel
  BY DEF TypeOK
<1>2. \A p \in Ports : \A i \in DOMAIN tcp_tunnels'[p] :
         tunnel'[tcp_tunnels'[p][i]] = tunnel[tcp_tunnels'[p][i]]
         /\ port[tunnel[tcp_tunnels'[p][i]].lease] = p
         /\ tunnel[tcp_tunnels'[p][i]].pc = "queued"
  BY <1>1 DEF TunnelsDistinct, TunnelServesOnce
<1>3. \A y \in Connection : y # x /\ public[y].pc = "served" =>
         public[y].tunnel \in Tunnel /\ tunnel'[public[y].tunnel] = tunnel[public[y].tunnel]
  BY Zenon DEF PlacesKnown, PublicKnown
<1>4. \A y \in Connection : public'[y].pc = "served" => tunnel'[public'[y].tunnel].pc = "serving"
  <2>1. ASSUME NEW y \in Connection, y # x, public'[y].pc = "served"
        PROVE  tunnel'[public'[y].tunnel].pc = "serving"
    BY <1>3, <2>1, SMTT(30) DEF TunnelsDistinct
  <2>2. ASSUME x \in Connection, public'[x].pc = "served" PROVE tunnel'[public'[x].tunnel].pc = "serving"
    <3>1. CASE public'[x] = public[x] /\ public[x].tunnel # t
      BY <2>2, <3>1, SMTT(30) DEF TunnelsDistinct, PlacesKnown, PublicKnown
    <3> QED
      BY <2>2, <3>1, Zenon
  <2> QED
    BY <2>1, <2>2, Zenon
<1>5. TunnelsDistinct'
  BY <1>2, <1>4 DEF TunnelsDistinct
<1>6. \A y, z \in Connection :
         /\ public'[y].pc = "served" /\ public'[z].pc = "served"
         /\ public'[y].tunnel = public'[z].tunnel
         => y = z
  BY DEF TunnelServesOnce
<1> QED
  BY <1>2, <1>5, <1>6 DEF TunnelServesOnce

\* pop_front moves what is behind the first tunnel one place forward.
LEMMA TailShifts ==
    ASSUME NEW S, NEW q \in Seq(S), q # <<>>
    PROVE  \A i \in DOMAIN Tail(q) : /\ i + 1 \in DOMAIN q /\ i \in Nat \ {0}
                                     /\ Tail(q)[i] = q[i + 1]
<1>1. Len(Tail(q)) = Len(q) - 1 /\ Tail(q) \in Seq(S) /\ Len(q) \in Nat
  OBVIOUS
<1>2. \A i \in 1 .. Len(q) - 1 : Tail(q)[i] = q[i + 1]
  OBVIOUS
<1>3. DOMAIN Tail(q) = 1 .. Len(q) - 1 /\ DOMAIN q = 1 .. Len(q)
  BY <1>1
<1> QED
  BY <1>1, <1>2, <1>3

\* Every step keeps each tunnel in one place.
LEMMA DistinctStep ==
    ASSUME TypeOK, PlacesKnown, PortsTold, TunnelsDistinct, TunnelServesOnce, [Next]_vars
    PROVE  TunnelsDistinct' /\ TunnelServesOnce'
<1>l. [LeaseNext]_leaseVars
  BY LeaseSide, Zenon
<1>s. \A p \in Ports : /\ tcp_tunnels[p] \in Seq(Tunnel)
                      /\ \A i \in DOMAIN tcp_tunnels[p] : tcp_tunnels[p][i] \in Tunnel
  BY DEF TypeOK
<1>r. tunnel \in [Tunnel -> TunnelState] /\ public \in [Connection -> PublicState]
  BY Zenon DEF TypeOK, TunnelState, PublicState
<1>1. ASSUME NEW c \in Conn, Connect(c) \/ SpawnRelay(c) \/ Bind(c)
      PROVE  TunnelsDistinct' /\ TunnelServesOnce'
  BY <1>1, <1>l, DistinctFrame, Zenon DEF Connect, SpawnRelay, Bind
<1>2. ASSUME NEW r \in Releaser, WakeRefused(r) \/ \E p \in Ports : ReleasePort(r, p)
      PROVE  TunnelsDistinct' /\ TunnelServesOnce'
  BY <1>2, <1>l, DistinctFrame, Zenon DEF WakeRefused, ReleasePort
<1>3. ASSUME NEW r \in Releaser, ReleaseCleanup(r) PROVE TunnelsDistinct' /\ TunnelServesOnce'
  <2>1. CASE UNCHANGED <<tunnel, tcp_tunnels>>
    BY <1>3, <1>l, <2>1, DistinctFrame, Zenon DEF ReleaseCleanup
  <2>2. ASSUME NEW p \in Ports,
               tcp_tunnels' = [tcp_tunnels EXCEPT ![p] = <<>>],
               tunnel' = [t \in Tunnel |->
                            IF \E i \in DOMAIN tcp_tunnels[p] : tcp_tunnels[p][i] = t
                            THEN [tunnel[t] EXCEPT !.pc = "closed"] ELSE tunnel[t]]
        PROVE  TunnelsDistinct' /\ TunnelServesOnce'
    <3>0. UNCHANGED <<port, public>>
      BY <1>3, Zenon DEF ReleaseCleanup, CleanupStep
    <3>1. \A q \in Ports : \A i \in DOMAIN tcp_tunnels'[q] :
             q # p /\ tcp_tunnels'[q] = tcp_tunnels[q]
      BY <2>2 DEF TypeOK
    <3>2. \A q \in Ports : q # p => \A i \in DOMAIN tcp_tunnels[q] :
             tunnel'[tcp_tunnels[q][i]] = tunnel[tcp_tunnels[q][i]]
      <4> SUFFICES ASSUME NEW q \in Ports, q # p, NEW i \in DOMAIN tcp_tunnels[q]
                   PROVE  tunnel'[tcp_tunnels[q][i]] = tunnel[tcp_tunnels[q][i]]
        BY Zenon
      <4>1. PICK u \in Tunnel : u = tcp_tunnels[q][i]
        BY <1>s, Zenon
      <4>2. ~\E j \in DOMAIN tcp_tunnels[p] : tcp_tunnels[p][j] = u
        BY <4>1 DEF TunnelsDistinct
      <4> QED
        BY <2>2, <4>1, <4>2, Zenon
    <3>3. \A x \in Connection : public[x].pc = "served" =>
             tunnel'[public[x].tunnel] = tunnel[public[x].tunnel]
      <4> SUFFICES ASSUME NEW x \in Connection, public[x].pc = "served"
                   PROVE  tunnel'[public[x].tunnel] = tunnel[public[x].tunnel]
        BY Zenon
      <4>1. PICK u \in Tunnel : u = public[x].tunnel
        BY Zenon DEF PlacesKnown, PublicKnown
      <4>2. ~\E j \in DOMAIN tcp_tunnels[p] : tcp_tunnels[p][j] = u
        BY <4>1, Zenon DEF TunnelsDistinct, TunnelServesOnce
      <4> QED
        BY <2>2, <4>1, <4>2, Zenon
    <3> QED
      BY <3>0, <3>1, <3>2, <3>3 DEF TunnelsDistinct, TunnelServesOnce
  <2> QED
    BY <1>3, <2>1, <2>2, CleanupEffect, Zenon
<1>4. CASE OtherLeaseStep
  BY <1>4, <1>l, DistinctFrame, Zenon DEF OtherLeaseStep, tcpVars
<1>5. ASSUME NEW c \in Conn, NEW x \in Connection, Accept(c, x)
      PROVE  TunnelsDistinct' /\ TunnelServesOnce'
  BY <1>5, <1>l, AcceptEffect, DistinctFrame, Zenon DEF Accept
<1>6. ASSUME NEW c \in Conn, CheckAllocation(c) PROVE TunnelsDistinct' /\ TunnelServesOnce'
  <2>1. UNCHANGED <<tunnel, tcp_tunnels>>
    BY <1>6, Zenon DEF CheckAllocation
  <2>2. \E x \in Connection : /\ public'[x].pc # "served"
                              /\ \A y \in Connection : y # x => public'[y] = public[y]
    BY <1>6, CheckEffect, Zenon
  <2> QED
    BY <1>l, <2>1, <2>2, DistinctFrame, Zenon
<1>10. ASSUME NEW x \in Connection, TakeTunnel(x) PROVE TunnelsDistinct' /\ TunnelServesOnce'
  <2>0. UNCHANGED port
    BY <1>10, Zenon DEF TakeTunnel, leaseVars
  <2>1. PICK p \in Ports, t \in Tunnel, s \in {"serving", "closed"} :
           /\ public[x].port = p /\ public[x].pc = "waiting"
           /\ tcp_tunnels[p] \in Seq(Tunnel) /\ tcp_tunnels[p] # <<>>
           /\ t = Head(tcp_tunnels[p])
           /\ tcp_tunnels' = [tcp_tunnels EXCEPT ![p] = Tail(tcp_tunnels[p])]
           /\ tunnel' = [tunnel EXCEPT ![t].pc = s]
           /\ \/ s = "serving"
                 /\ public' = [public EXCEPT ![x].pc = "served", ![x].tunnel = t]
              \/ s = "closed" /\ UNCHANGED public
    BY <1>10, TakeEffect, Zenon
  <2>2. /\ 1 \in DOMAIN tcp_tunnels[p] /\ t = tcp_tunnels[p][1]
        /\ tunnel[t].pc = "queued" /\ port[tunnel[t].lease] = p
    <3>1. 1 \in DOMAIN tcp_tunnels[p] /\ t = tcp_tunnels[p][1]
      BY <2>1, SMTT(30)
    <3> QED
      BY <3>1, Zenon DEF TunnelServesOnce, TunnelsDistinct
  <2>3. /\ \A u \in Tunnel : u # t => tunnel'[u] = tunnel[u]
        /\ tunnel'[t].pc = s
    BY <1>r, <2>1, Zenon DEF TunnelState
  <2>4. /\ \A y \in Connection : y # x => public'[y] = public[y]
        /\ public'[x].pc = "served" => public'[x].tunnel = t /\ s = "serving"
    <3>1. CASE s = "serving" /\ public' = [public EXCEPT ![x].pc = "served", ![x].tunnel = t]
      BY <1>r, <3>1, PublicServed, Zenon
    <3>2. \/ s = "serving" /\ public' = [public EXCEPT ![x].pc = "served", ![x].tunnel = t]
          \/ UNCHANGED public
      BY <2>1, Zenon
    <3>3. CASE UNCHANGED public
      BY <2>1, <3>3, Zenon
    <3> QED
      BY <3>1, <3>2, <3>3, Zenon
  <2>5. \A y \in Connection : public[y].pc = "served" => public[y].tunnel # t
    BY <2>2, Zenon DEF TunnelsDistinct
  <2>6. \A q \in Ports : q # p => tcp_tunnels'[q] = tcp_tunnels[q]
    BY <2>1, Zenon DEF TypeOK
  <2>7. tcp_tunnels'[p] = Tail(tcp_tunnels[p])
    BY <2>1, Zenon DEF TypeOK
  <2>8. \A i \in DOMAIN tcp_tunnels'[p] :
           i + 1 \in DOMAIN tcp_tunnels[p] /\ i \in Nat \ {0}
           /\ tcp_tunnels'[p][i] = tcp_tunnels[p][i + 1]
    <3>1. tcp_tunnels[p] \in Seq(Tunnel) /\ tcp_tunnels[p] # <<>>
      BY <2>1, Zenon
    <3> QED
      BY <2>7, <3>1, TailShifts, Zenon
  <2>9. \A q \in Ports : \A i \in DOMAIN tcp_tunnels'[q] :
           tcp_tunnels'[q][i] # t
           /\ \E j \in DOMAIN tcp_tunnels[q] : tcp_tunnels'[q][i] = tcp_tunnels[q][j]
    <3>1. ASSUME NEW q \in Ports, q # p, NEW i \in DOMAIN tcp_tunnels'[q]
          PROVE  tcp_tunnels'[q][i] # t
                 /\ \E j \in DOMAIN tcp_tunnels[q] : tcp_tunnels'[q][i] = tcp_tunnels[q][j]
      BY <2>2, <2>6, <3>1 DEF TunnelsDistinct
    <3>2. ASSUME NEW i \in DOMAIN tcp_tunnels'[p]
          PROVE  tcp_tunnels'[p][i] # t
                 /\ \E j \in DOMAIN tcp_tunnels[p] : tcp_tunnels'[p][i] = tcp_tunnels[p][j]
      <4>1. PICK j \in DOMAIN tcp_tunnels[p] : j # 1 /\ tcp_tunnels'[p][i] = tcp_tunnels[p][j]
        BY <2>8, <3>2
      <4> QED
        BY <2>2, <4>1, Zenon DEF TunnelsDistinct
    <3> QED
      BY <3>1, <3>2, Zenon
  <2>10. \A q \in Ports : \A i, j \in DOMAIN tcp_tunnels'[q] :
            tcp_tunnels'[q][i] = tcp_tunnels'[q][j] => i = j
    <3>1. ASSUME NEW q \in Ports, q # p, NEW i \in DOMAIN tcp_tunnels'[q],
                 NEW j \in DOMAIN tcp_tunnels'[q], tcp_tunnels'[q][i] = tcp_tunnels'[q][j]
          PROVE  i = j
      BY <2>6, <3>1, Zenon DEF TunnelsDistinct
    <3>2. ASSUME NEW i \in DOMAIN tcp_tunnels'[p], NEW j \in DOMAIN tcp_tunnels'[p],
                 tcp_tunnels'[p][i] = tcp_tunnels'[p][j]
          PROVE  i = j
      <4>1. /\ i + 1 \in DOMAIN tcp_tunnels[p] /\ j + 1 \in DOMAIN tcp_tunnels[p]
            /\ i \in Nat /\ j \in Nat /\ tcp_tunnels[p][i + 1] = tcp_tunnels[p][j + 1]
        BY <2>8, <3>2, Zenon
      <4>2. i + 1 = j + 1
        BY <4>1, Zenon DEF TunnelsDistinct
      <4> QED
        BY <4>1, <4>2
    <3> QED
      BY <3>1, <3>2, Zenon
  <2> QED
    BY <2>0, <2>3, <2>4, <2>5, <2>9, <2>10, DistinctMove, SMTT(30)
<1>11. ASSUME NEW x \in Connection, CloseRelay(x) PROVE TunnelsDistinct' /\ TunnelServesOnce'
  <2>0. UNCHANGED <<port, tcp_tunnels>>
    BY <1>11, Zenon DEF CloseRelay, leaseVars
  <2>1. PICK t \in Tunnel :
           /\ public[x].pc = "served" /\ public[x].tunnel = t
           /\ tunnel' = [tunnel EXCEPT ![t].pc = "closed"]
           /\ public'[x].pc = "closed"
           /\ public'[x].port = public[x].port /\ public'[x].lease = public[x].lease
           /\ \A y \in Connection : y # x => public'[y] = public[y]
    BY <1>11, CloseEffect, Zenon
  <2>2. /\ \A u \in Tunnel : u # t => tunnel'[u] = tunnel[u]
        /\ tunnel'[t].pc = "closed"
    BY <1>r, <2>1, Zenon DEF TunnelState
  <2>3. \A p \in Ports : \A i \in DOMAIN tcp_tunnels[p] : tcp_tunnels[p][i] # t
    BY <2>1, Zenon DEF TunnelsDistinct, TunnelServesOnce
  <2>4. \A y \in Connection : y # x /\ public[y].pc = "served" => public[y].tunnel # t
    BY <2>1, Zenon DEF TunnelServesOnce
  <2>5. \A p \in Ports : \A i, j \in DOMAIN tcp_tunnels'[p] :
           tcp_tunnels'[p][i] = tcp_tunnels'[p][j] => i = j
    BY <2>0, Zenon DEF TunnelsDistinct
  <2> QED
    BY <2>0, <2>1, <2>2, <2>3, <2>4, <2>5, DistinctMove, SMTT(30)
<1>12. ASSUME NEW t \in Tunnel, NEW c \in Conn, TunnelCheck(t, c)
      PROVE  TunnelsDistinct' /\ TunnelServesOnce'
  <2>0. UNCHANGED <<port, tcp_tunnels, public>>
    BY <1>12, Zenon DEF TunnelCheck, leaseVars
  <2>1. /\ tunnel[t].pc = "idle"
        /\ \A u \in Tunnel : u # t => tunnel'[u] = tunnel[u]
        /\ tunnel'[t].pc # "queued"
    BY <1>12, Zenon DEF TunnelCheck, TypeOK
  <2>3. \A p \in Ports : \A i \in DOMAIN tcp_tunnels[p] : tcp_tunnels[p][i] # t
    BY <2>1, Zenon DEF TunnelServesOnce
  <2>4. \A y \in Connection : public[y].pc = "served" => public[y].tunnel # t
    BY <2>1, Zenon DEF TunnelsDistinct
  <2>5. \A p \in Ports : \A i, j \in DOMAIN tcp_tunnels'[p] :
           tcp_tunnels'[p][i] = tcp_tunnels'[p][j] => i = j
    BY <2>0, Zenon DEF TunnelsDistinct
  <2> QED
    BY <2>0, <2>1, <2>3, <2>4, <2>5, DistinctMove
<1>13. ASSUME NEW t \in Tunnel, TunnelPush(t) PROVE TunnelsDistinct' /\ TunnelServesOnce'
  <2>0. UNCHANGED <<port, public>>
    BY <1>13, Zenon DEF TunnelPush, leaseVars
  <2>1. PICK p \in Ports : p = port[tunnel[t].lease]
    BY <1>13, RelayTcpAssumption, Zenon DEF TunnelPush, PlacesKnown, TunnelsKnown
  <2>2. /\ \A u \in Tunnel : u # t => tunnel'[u] = tunnel[u]
        /\ tunnel'[t].pc = "queued" /\ tunnel'[t].lease = tunnel[t].lease
        /\ tunnel[t].pc = "checked"
    BY <1>13, <1>r, Zenon DEF TunnelPush, TunnelState
  <2>3. \A q \in Ports : \A i \in DOMAIN tcp_tunnels[q] :
           tcp_tunnels[q][i] # t /\ tcp_tunnels[q][i] \in Tunnel
    BY <1>s, <2>2, Zenon DEF TunnelServesOnce
  <2>4. /\ \A q \in Ports : q # p => tcp_tunnels'[q] = tcp_tunnels[q]
        /\ tcp_tunnels'[p] = Append(tcp_tunnels[p], t)
    BY <1>13, <2>1, Zenon DEF TunnelPush, TypeOK
  <2>5. \A i \in DOMAIN tcp_tunnels'[p] :
           \/ i \in DOMAIN tcp_tunnels[p] /\ tcp_tunnels'[p][i] = tcp_tunnels[p][i]
           \/ i = Len(tcp_tunnels[p]) + 1 /\ tcp_tunnels'[p][i] = t
    <3>1. tcp_tunnels[p] \in Seq(Tunnel)
      BY <1>s, Zenon
    <3> QED
      BY <2>4, <3>1
  <2>6. \A x \in Connection : public[x].pc = "served" =>
           public[x].tunnel \in Tunnel /\ public[x].tunnel # t
    BY <2>2, Zenon DEF TunnelsDistinct, PlacesKnown, PublicKnown
  <2>7. \A x \in Connection : public'[x].pc = "served" => tunnel'[public'[x].tunnel].pc = "serving"
    BY <2>0, <2>2, <2>6, Zenon DEF TunnelsDistinct
  <2>8. \A q \in Ports : \A i \in DOMAIN tcp_tunnels'[q] :
           /\ port'[tunnel'[tcp_tunnels'[q][i]].lease] = q
           /\ tunnel'[tcp_tunnels'[q][i]].pc = "queued"
    <3>1. ASSUME NEW q \in Ports, NEW i \in DOMAIN tcp_tunnels[q]
          PROVE  /\ port'[tunnel'[tcp_tunnels[q][i]].lease] = q
                 /\ tunnel'[tcp_tunnels[q][i]].pc = "queued"
      BY <2>0, <2>2, <2>3, SMTT(30) DEF TunnelsDistinct, TunnelServesOnce
    <3>2. ASSUME NEW i \in DOMAIN tcp_tunnels'[p]
          PROVE  /\ port'[tunnel'[tcp_tunnels'[p][i]].lease] = p
                 /\ tunnel'[tcp_tunnels'[p][i]].pc = "queued"
      <4>1. CASE i \in DOMAIN tcp_tunnels[p] /\ tcp_tunnels'[p][i] = tcp_tunnels[p][i]
        BY <3>1, <4>1
      <4>2. CASE tcp_tunnels'[p][i] = t
        BY <2>0, <2>1, <2>2, <4>2, Zenon
      <4> QED
        BY <2>5, <4>1, <4>2, Zenon
    <3>3. ASSUME NEW q \in Ports, q # p, NEW i \in DOMAIN tcp_tunnels'[q]
          PROVE  /\ port'[tunnel'[tcp_tunnels'[q][i]].lease] = q
                 /\ tunnel'[tcp_tunnels'[q][i]].pc = "queued"
      BY <2>4, <3>1, <3>3, SMTT(30)
    <3> QED
      BY <3>2, <3>3, Zenon
  <2>9. \A q \in Ports : \A i, j \in DOMAIN tcp_tunnels'[q] :
           tcp_tunnels'[q][i] = tcp_tunnels'[q][j] => i = j
    <3>1. ASSUME NEW q \in Ports, q # p, NEW i \in DOMAIN tcp_tunnels'[q],
                 NEW j \in DOMAIN tcp_tunnels'[q], tcp_tunnels'[q][i] = tcp_tunnels'[q][j]
          PROVE  i = j
      BY <2>4, <3>1, Zenon DEF TunnelsDistinct
    <3>2. ASSUME NEW i \in DOMAIN tcp_tunnels'[p], NEW j \in DOMAIN tcp_tunnels'[p],
                 tcp_tunnels'[p][i] = tcp_tunnels'[p][j]
          PROVE  i = j
      BY <2>3, <2>5, <3>2, SMTT(30) DEF TunnelsDistinct
    <3> QED
      BY <3>1, <3>2, Zenon
  <2> QED
    BY <2>0, <2>7, <2>8, <2>9 DEF TunnelsDistinct, TunnelServesOnce
<1>14. CASE UNCHANGED vars
  BY <1>14, <1>l, DistinctFrame, Zenon DEF vars, tcpVars
<1> QED
  BY <1>1, <1>2, <1>3, <1>4, <1>5, <1>6, <1>10, <1>11, <1>12, <1>13, <1>14, Zenon DEF Next

\* A tunnel's lease is settled when it is announced: afterwards no step changes it, nor
\* whether the port was still the client's own.
LEMMA TunnelKept ==
    ASSUME TypeOK, PlacesKnown, PortsTold, TunnelServesOnce, [Next]_vars,
           NEW u \in Tunnel, tunnel[u].pc # "idle"
    PROVE  /\ tunnel'[u].lease = tunnel[u].lease /\ tunnel'[u].stale = tunnel[u].stale
           /\ tunnel[u].pc = "closed" => tunnel'[u].pc = "closed"
<1> USE DEF TypeOK
<1>r. tunnel \in [Tunnel -> TunnelState]
  BY Zenon DEF TunnelState
<1>1. ASSUME NEW r \in Releaser, ReleaseCleanup(r)
      PROVE  /\ tunnel'[u].lease = tunnel[u].lease /\ tunnel'[u].stale = tunnel[u].stale
             /\ tunnel[u].pc = "closed" => tunnel'[u].pc = "closed"
  BY <1>1, CleanupTunnels, Zenon
<1>2. ASSUME NEW x \in Connection, TakeTunnel(x)
      PROVE  /\ tunnel'[u].lease = tunnel[u].lease /\ tunnel'[u].stale = tunnel[u].stale
             /\ tunnel[u].pc = "closed" => tunnel'[u].pc = "closed"
  <2>1. PICK p \in Ports, t \in Tunnel, s \in {"serving", "closed"} :
           /\ public[x].port = p /\ public[x].pc = "waiting"
           /\ tcp_tunnels[p] \in Seq(Tunnel) /\ tcp_tunnels[p] # <<>>
           /\ t = Head(tcp_tunnels[p])
           /\ tcp_tunnels' = [tcp_tunnels EXCEPT ![p] = Tail(tcp_tunnels[p])]
           /\ tunnel' = [tunnel EXCEPT ![t].pc = s]
           /\ \/ s = "serving"
                 /\ public' = [public EXCEPT ![x].pc = "served", ![x].tunnel = t]
              \/ s = "closed" /\ UNCHANGED public
    BY <1>2, TakeEffect, Zenon
  <2>2. tunnel[t].pc = "queued"
    <3>1. 1 \in DOMAIN tcp_tunnels[p] /\ t = tcp_tunnels[p][1]
      BY <2>1, SMTT(30)
    <3> QED
      BY <3>1, Zenon DEF TunnelServesOnce
  <2>3. /\ tunnel'[u].pc = IF u = t THEN s ELSE tunnel[u].pc
        /\ tunnel'[u].lease = tunnel[u].lease /\ tunnel'[u].stale = tunnel[u].stale
    BY <1>r, <2>1, TunnelMoved
  <2> QED
    BY <2>2, <2>3, Zenon
<1>3. ASSUME NEW x \in Connection, CloseRelay(x)
      PROVE  /\ tunnel'[u].lease = tunnel[u].lease /\ tunnel'[u].stale = tunnel[u].stale
             /\ tunnel[u].pc = "closed" => tunnel'[u].pc = "closed"
  <2>1. PICK t \in Tunnel : tunnel' = [tunnel EXCEPT ![t].pc = "closed"]
    BY <1>3, CloseEffect, Zenon
  <2> QED
    BY <1>r, <2>1, TunnelMoved
<1>4. ASSUME NEW t \in Tunnel, NEW c \in Conn, TunnelCheck(t, c) PROVE tunnel'[u] = tunnel[u]
  BY <1>4, Zenon DEF TunnelCheck
<1>5. ASSUME NEW t \in Tunnel, TunnelPush(t)
      PROVE  /\ tunnel'[u].lease = tunnel[u].lease /\ tunnel'[u].stale = tunnel[u].stale
             /\ tunnel[u].pc = "closed" => tunnel'[u].pc = "closed"
  BY <1>5, Zenon DEF TunnelPush
<1>6. ASSUME NEW c \in Conn, \/ Connect(c) \/ SpawnRelay(c) \/ Bind(c) \/ CheckAllocation(c)
                             \/ \E x \in Connection : Accept(c, x)
      PROVE  UNCHANGED tunnel
  BY <1>6, Zenon DEF Connect, SpawnRelay, Bind, CheckAllocation, Accept
<1>7. ASSUME NEW r \in Releaser, WakeRefused(r) \/ \E p \in Ports : ReleasePort(r, p)
      PROVE  UNCHANGED tunnel
  BY <1>7, Zenon DEF WakeRefused, ReleasePort
<1>8. CASE OtherLeaseStep \/ UNCHANGED vars
  BY <1>8, Zenon DEF OtherLeaseStep, vars, tcpVars
<1> QED
  BY <1>1, <1>2, <1>3, <1>4, <1>5, <1>6, <1>7, <1>8, Zenon DEF Next

\* A connection that is served, or comes to be, is served by a tunnel of its port.
LEMMA ServedStep ==
    ASSUME TypeOK, PlacesKnown, PortsTold, TunnelsDistinct, TunnelServesOnce, ServedHere, [Next]_vars
    PROVE  ServedHere'
<1>1. \A d \in Conn : port[d] \in Ports => port'[d] = port[d]
  BY PortKept, LeaseSide, Zenon DEF TypeOK
<1>2. \A u \in Tunnel : tunnel[u].pc # "idle" =>
         /\ tunnel'[u].lease = tunnel[u].lease
         /\ port'[tunnel'[u].lease] = port[tunnel[u].lease]
  BY <1>1, TunnelKept, RelayTcpAssumption, Zenon DEF PlacesKnown, TunnelsKnown
<1>3. \A x \in Connection : public[x].pc = "served" =>
         /\ public[x].tunnel \in Tunnel
         /\ port'[tunnel'[public[x].tunnel].lease] = public[x].port
  BY <1>2, Zenon DEF PlacesKnown, PublicKnown, TunnelsDistinct, ServedHere
<1>4. ASSUME \A x \in Connection : public'[x].pc = "served" => public'[x] = public[x]
      PROVE  ServedHere'
  BY <1>3, <1>4, Zenon DEF ServedHere
<1>5. ASSUME NEW c \in Conn, NEW x \in Connection, Accept(c, x) PROVE ServedHere'
  BY <1>4, <1>5, AcceptEffect, Zenon
<1>6. ASSUME NEW c \in Conn, CheckAllocation(c) PROVE ServedHere'
  <2>1. \E x \in Connection : /\ public'[x].pc # "served"
                              /\ \A y \in Connection : y # x => public'[y] = public[y]
    BY <1>6, CheckEffect, Zenon
  <2> QED
    BY <1>4, <2>1, Zenon
<1>7. ASSUME NEW x \in Connection, TakeTunnel(x) PROVE ServedHere'
  <2>1. PICK p \in Ports, t \in Tunnel, s \in {"serving", "closed"} :
           /\ public[x].port = p /\ public[x].pc = "waiting"
           /\ tcp_tunnels[p] \in Seq(Tunnel) /\ tcp_tunnels[p] # <<>>
           /\ t = Head(tcp_tunnels[p])
           /\ tcp_tunnels' = [tcp_tunnels EXCEPT ![p] = Tail(tcp_tunnels[p])]
           /\ tunnel' = [tunnel EXCEPT ![t].pc = s]
           /\ \/ s = "serving"
                 /\ public' = [public EXCEPT ![x].pc = "served", ![x].tunnel = t]
              \/ s = "closed" /\ UNCHANGED public
    BY <1>7, TakeEffect, Zenon
  <2>2. tunnel[t].pc = "queued" /\ port[tunnel[t].lease] = p
    <3>1. 1 \in DOMAIN tcp_tunnels[p] /\ t = tcp_tunnels[p][1]
      BY <2>1
    <3> QED
      BY <3>1, Zenon DEF TunnelServesOnce, TunnelsDistinct
  <2>3. /\ \A y \in Connection : y # x => public'[y] = public[y]
        /\ public'[x].pc = "served" => public'[x].tunnel = t /\ public'[x].port = p
    <3>1. CASE public' = [public EXCEPT ![x].pc = "served", ![x].tunnel = t]
      <4>1. public \in [Connection -> PublicState] /\ public[x].port = p
        BY <2>1, Zenon DEF TypeOK, PublicState
      <4> QED
        BY <3>1, <4>1, PublicServed, Zenon
    <3>2. \/ public' = [public EXCEPT ![x].pc = "served", ![x].tunnel = t]
          \/ UNCHANGED public
      BY <2>1, Zenon
    <3>3. CASE UNCHANGED public
      BY <2>1, <3>3, Zenon
    <3> QED
      BY <3>1, <3>2, <3>3, Zenon
  <2> QED
    BY <1>2, <1>3, <2>2, <2>3 DEF ServedHere
<1>8. ASSUME NEW x \in Connection, CloseRelay(x) PROVE ServedHere'
  <2>1. public'[x].pc = "closed" /\ \A y \in Connection : y # x => public'[y] = public[y]
    BY <1>8, CloseEffect, Zenon
  <2> QED
    BY <1>4, <2>1, Zenon
<1>9. CASE UNCHANGED public
  BY <1>4, <1>9, Zenon
<1>10. ASSUME NEW c \in Conn, Connect(c) \/ SpawnRelay(c) \/ Bind(c) PROVE UNCHANGED public
  BY <1>10, Zenon DEF Connect, SpawnRelay, Bind
<1>11. ASSUME NEW r \in Releaser,
              WakeRefused(r) \/ ReleaseCleanup(r) \/ \E p \in Ports : ReleasePort(r, p)
       PROVE  UNCHANGED public
  BY <1>11, Zenon DEF WakeRefused, ReleaseCleanup, ReleasePort
<1>12. ASSUME NEW t \in Tunnel, TunnelPush(t) \/ \E c \in Conn : TunnelCheck(t, c)
       PROVE  UNCHANGED public
  BY <1>12, Zenon DEF TunnelPush, TunnelCheck
<1>13. CASE OtherLeaseStep \/ UNCHANGED vars
  BY <1>9, <1>13, Zenon DEF OtherLeaseStep, vars, tcpVars
<1> QED
  BY <1>5, <1>6, <1>7, <1>8, <1>9, <1>10, <1>11, <1>12, <1>13, Zenon DEF Next

-----------------------------------------------------------------------------
(* A lease granted on a quiet port stays alone there.                      *)

\* Who holds a lease after a step, and had a port before, held it before.
LEMMA HeldBefore ==
    ASSUME LeaseTypeOK, PortsTold, [LeaseNext]_leaseVars, NEW c \in Conn, port[c] \in Ports
    PROVE  /\ port'[c] = port[c]
           /\ LeaseHolder(port[c])' = c => LeaseHolder(port[c]) = c
<1>1. port'[c] = port[c]
  BY PortKept, Zenon
<1>2. ASSUME LeaseHolder(port[c])' = c
      PROVE  port_allocations'[port[c]] # Free /\ port_allocations'[port[c]].client_addr = c
  BY <1>1, <1>2, RelayTcpAssumption, Zenon DEF LeaseHolder, Allocated
<1> QED
  BY <1>1, <1>2, HolderKept, Zenon DEF LeaseHolder, Allocated

\* The steps that leave the ports, the listeners and the wake-ups alone, and close tunnels.
LEMMA AloneFrame ==
    ASSUME TypeOK, PlacesKnown, PortsTold, TunnelServesOnce, [Next]_vars,
           NEW c \in Conn, port[c] \in Ports, AloneOn(c),
           UNCHANGED <<port, listener>>,
           \A r \in Releaser : /\ release_port'[r] \in {release_port[r], NoPort}
                               /\ wake'[r] \in {wake[r], NoPort},
           \A t \in Tunnel : tunnel[t].pc = "idle" => tunnel'[t].lease = None
    PROVE  AloneOn(c)'
<1>0. NoPort \notin Ports
  BY PortLeaseAssumption DEF Ports
<1>1. \A t \in Tunnel : tunnel'[t].lease # None /\ port[tunnel'[t].lease] = port[c] =>
         tunnel'[t].lease = c \/ tunnel'[t].stale \/ tunnel'[t].pc = "closed"
  BY TunnelKept, Zenon DEF AloneOn
<1> QED
  BY <1>0, <1>1, Zenon DEF AloneOn

\* A lease that has its port to itself keeps it so until it is released.
LEMMA AloneStep ==
    ASSUME TypeOK, PlacesKnown, PortsTold, TunnelServesOnce, LeaseConsistent, [Next]_vars,
           NEW c \in Conn, port[c] \in Ports, AloneOn(c),
           LeaseHolder(port[c]) = c, LeaseHolder(port[c])' = c
    PROVE  AloneOn(c)'
<1>0. NoPort \notin Ports
  BY PortLeaseAssumption DEF Ports
<1>k. \A d \in Conn : port[d] \in Ports => port'[d] = port[d]
  BY PortKept, LeaseSide, Zenon DEF TypeOK
<1>t. \A t \in Tunnel : tunnel[t].lease # None =>
         tunnel[t].lease \in Conn /\ port[tunnel[t].lease] \in Ports
  BY RelayTcpAssumption, Zenon DEF PlacesKnown, TunnelsKnown, TypeOK
<1>a. Allocated(port[c]) /\ port_allocations[port[c]] # Free
  BY RelayTcpAssumption, Zenon DEF LeaseHolder, Allocated
<1>i. \A t \in Tunnel : tunnel[t].pc = "idle" => tunnel[t].lease = None
  BY Zenon DEF PlacesKnown, TunnelsKnown
<1>1. ASSUME NEW d \in Conn, Connect(d) PROVE AloneOn(c)'
  <2>1. UNCHANGED <<release_port, wake, listener, tunnel>>
    BY <1>1, ConnectEffect, Zenon DEF Connect, TypeOK
  <2>2. \A e \in Conn : port'[e] = port[c] => port[e] = port[c]
    <3>1. \/ UNCHANGED port
          \/ \E p \in Ports : port_allocations[p] = Free /\ port' = [port EXCEPT ![d] = p]
      BY <1>1, ConnectEffect, Zenon DEF Connect, TypeOK
    <3> QED
      BY <1>a, <3>1, Zenon DEF TypeOK, LeaseTypeOK
  <2>3. \A t \in Tunnel : tunnel[t].lease # None => port'[tunnel[t].lease] = port[tunnel[t].lease]
    BY <1>k, <1>t, Zenon
  <2> QED
    BY <1>k, <2>1, <2>2, <2>3, Zenon DEF AloneOn
<1>2. ASSUME NEW r \in Releaser, NEW p \in Ports, ReleasePort(r, p) PROVE AloneOn(c)'
  <2>1. /\ UNCHANGED <<port, listener, tunnel>>
        /\ release_port' = [release_port EXCEPT ![r] = p] /\ wake' = [wake EXCEPT ![r] = p]
        /\ port_allocations' = [port_allocations EXCEPT ![p] = Free]
    BY <1>2, Zenon DEF ReleasePort, Release, WakeAfterRelease
  <2>2. p # port[c]
    BY <2>1, RelayTcpAssumption, Zenon DEF LeaseHolder, Allocated, TypeOK, LeaseTypeOK
  <2> QED
    BY <2>1, <2>2, Zenon DEF AloneOn, TypeOK, LeaseTypeOK
<1>3. ASSUME NEW r \in Releaser, ReleaseCleanup(r) PROVE AloneOn(c)'
  <2>1. UNCHANGED <<port, release_port, wake, listener>>
    BY <1>3, Zenon DEF ReleaseCleanup, CleanupStep
  <2>2. \A t \in Tunnel : tunnel'[t].lease = tunnel[t].lease
    BY <1>3, CleanupTunnels, SMTT(30), Zenon
  <2> QED
    BY <1>i, <2>1, <2>2, AloneFrame, Zenon
<1>4. CASE OtherLeaseStep
  <2>1. UNCHANGED <<port, wake, listener, tunnel>>
    BY <1>4, Zenon DEF OtherLeaseStep, UdpLoopNotify, ReleaseNotify, tcpVars
  <2>2. \A r \in Releaser : release_port'[r] \in {release_port[r], NoPort}
    BY <1>4, Zenon DEF OtherLeaseStep, UdpLoopNotify, ReleaseNotify, TypeOK, LeaseTypeOK
  <2> QED
    BY <1>i, <2>1, <2>2, AloneFrame, SMTT(30), Zenon
<1>5. ASSUME NEW d \in Conn, SpawnRelay(d) PROVE AloneOn(c)'
  BY <1>5, Zenon DEF SpawnRelay, leaseVars, AloneOn, TypeOK
<1>6. ASSUME NEW d \in Conn, Bind(d) PROVE AloneOn(c)'
  <2>0. UNCHANGED <<port, release_port, wake, tunnel>> /\ listener[d] = "bind"
    BY <1>6, Zenon DEF Bind, leaseVars
  <2>1. CASE d = c
    <3>1. ~\E e \in Conn : port[e] = port[c] /\ Bound(e)
      BY <2>0, <2>1, Zenon DEF AloneOn, Bound
    <3>2. listener' = [listener EXCEPT ![c] = "accept"]
      BY <1>6, <2>1, <3>1, SMTT(30), Zenon DEF Bind
    <3> QED
      BY <2>0, <3>2, Zenon DEF AloneOn, TypeOK
  <2>2. CASE d # c
    <3>1. port[d] # port[c] /\ \A e \in Conn : e # d => listener'[e] = listener[e]
      BY <1>6, <2>0, <2>2, Zenon DEF AloneOn, Bind, TypeOK
    <3> QED
      BY <2>0, <2>2, <3>1, Zenon DEF AloneOn
  <2> QED
    BY <2>1, <2>2, SMTT(30), Zenon
<1>7. ASSUME NEW d \in Conn, NEW x \in Connection, Accept(d, x) PROVE AloneOn(c)'
  <2>0. /\ UNCHANGED <<port, release_port, tunnel>> /\ listener[d] = "accept"
        /\ listener' = [listener EXCEPT ![d] = "check"]
    BY <1>7, Zenon DEF Accept, leaseVars
  <2>1. \A r \in Releaser : wake'[r] \in {wake[r], NoPort}
    BY <1>7, Zenon DEF Accept, TypeOK
  <2>2. \A e \in Conn : e # c /\ port[e] = port[c] => e # d
    BY <2>0, Zenon DEF AloneOn
  <2> QED
    BY <1>0, <2>0, <2>1, <2>2, Zenon DEF AloneOn, TypeOK
<1>8. ASSUME NEW d \in Conn, CheckAllocation(d) PROVE AloneOn(c)'
  <2>0. UNCHANGED <<port, release_port, wake, tunnel>> /\ listener[d] = "check"
    BY <1>8, Zenon DEF CheckAllocation, leaseVars
  <2>1. CASE d = c
    <3>1. listener' = [listener EXCEPT ![c] = "accept"]
      BY <1>8, <1>a, <2>1, Zenon DEF CheckAllocation
    <3> QED
      BY <2>0, <3>1, Zenon DEF AloneOn, TypeOK
  <2>2. CASE d # c
    <3>1. port[d] # port[c] /\ \A e \in Conn : e # d => listener'[e] = listener[e]
      BY <1>8, <2>0, <2>2, Zenon DEF AloneOn, CheckAllocation, TypeOK
    <3> QED
      BY <2>0, <2>2, <3>1, Zenon DEF AloneOn
  <2> QED
    BY <2>1, <2>2, Zenon
<1>9. ASSUME NEW r \in Releaser, WakeRefused(r) PROVE AloneOn(c)'
  <2>1. UNCHANGED <<port, release_port, listener, tunnel>>
    BY <1>9, Zenon DEF WakeRefused, leaseVars
  <2>2. \A q \in Releaser : wake'[q] \in {wake[q], NoPort}
    BY <1>9, Zenon DEF WakeRefused, TypeOK
  <2> QED
    BY <1>i, <2>1, <2>2, AloneFrame, Zenon
<1>10. ASSUME NEW x \in Connection, TakeTunnel(x) \/ CloseRelay(x) PROVE AloneOn(c)'
  <2>1. UNCHANGED <<port, release_port, wake, listener>>
    BY <1>10, Zenon DEF TakeTunnel, CloseRelay, leaseVars
  <2>2. \E t \in Tunnel, s \in {"serving", "closed"} : tunnel' = [tunnel EXCEPT ![t].pc = s]
    <3>1. CASE TakeTunnel(x)
      BY <3>1, TakeEffect, Zenon
    <3>2. CASE CloseRelay(x)
      BY <3>2, CloseEffect, Zenon
    <3> QED
      BY <1>10, <3>1, <3>2, Zenon
  <2>3. \A t \in Tunnel : tunnel'[t].lease = tunnel[t].lease
    BY <2>2 DEF TypeOK
  <2> QED
    BY <1>i, <2>1, <2>3, AloneFrame, SMTT(30), Zenon
<1>12. ASSUME NEW t \in Tunnel, NEW d \in Conn, TunnelCheck(t, d) PROVE AloneOn(c)'
  <2>1. UNCHANGED <<port, release_port, wake, listener>>
    BY <1>12, Zenon DEF TunnelCheck, leaseVars
  <2>2. /\ \A u \in Tunnel : u # t => tunnel'[u] = tunnel[u]
        /\ tunnel'[t].lease = d /\ tunnel'[t].stale = (LeaseHolder(port[d]) # d)
    BY <1>12, Zenon DEF TunnelCheck, TypeOK
  <2>3. port[d] = port[c] /\ d # c => tunnel'[t].stale
    BY <2>2, Zenon
  <2> QED
    BY <2>1, <2>2, <2>3, Zenon DEF AloneOn
<1>13. ASSUME NEW t \in Tunnel, TunnelPush(t) PROVE AloneOn(c)'
  <2>1. UNCHANGED <<port, release_port, wake, listener>>
    BY <1>13, Zenon DEF TunnelPush, leaseVars
  <2>2. \A u \in Tunnel : tunnel'[u].lease = tunnel[u].lease
    BY <1>13, Zenon DEF TunnelPush, TypeOK
  <2> QED
    BY <1>i, <2>1, <2>2, AloneFrame, Zenon
<1>14. CASE UNCHANGED vars
  BY <1>14, <1>i, AloneFrame, Zenon DEF vars, tcpVars, leaseVars
<1> QED
  BY <1>1, <1>2, <1>3, <1>4, <1>5, <1>6, <1>7, <1>8, <1>9, <1>10, <1>12, <1>13, <1>14, SMTT(30), Zenon DEF Next

\* A lease on a quiet port has the port to itself from the moment it is granted.
LEMMA GrantedAlone ==
    ASSUME TypeOK, PlacesKnown, PortsTold, [Next]_vars, NEW c \in Conn, Connect(c),
           port'[c] # port[c], Quiet(port'[c])
    PROVE  port'[c] \in Ports /\ AloneOn(c)'
<1>0. NoPort \notin Ports
  BY PortLeaseAssumption DEF Ports
<1>1. UNCHANGED <<release_port, wake, listener, tunnel>>
  BY ConnectEffect, Zenon DEF Connect, TypeOK
<1>2. PICK p \in Ports : port' = [port EXCEPT ![c] = p] /\ port[c] = NoPort
  BY ConnectEffect, Zenon DEF Connect, TypeOK
<1>3. port'[c] = p /\ \A d \in Conn : d # c => port'[d] = port[d]
  BY <1>2, Zenon DEF TypeOK, LeaseTypeOK
<1>4. listener[c] = "none"
  BY <1>0, <1>2, Zenon DEF PlacesKnown, ListenersKnown
<1>5. \A t \in Tunnel : tunnel[t].lease # None => tunnel[t].lease \in Conn /\ tunnel[t].lease # c
  BY <1>0, <1>2, Zenon DEF PlacesKnown, TunnelsKnown, TypeOK
<1>6. \A t \in Tunnel : tunnel[t].lease # None /\ port'[tunnel[t].lease] = p =>
         tunnel[t].pc = "closed"
  BY <1>3, <1>5, Zenon DEF Quiet
<1>7. \A d \in Conn : d # c /\ port'[d] = p => listener[d] = "stopped"
  BY <1>3, Zenon DEF Quiet
<1>8. \A r \in Releaser : release_port[r] # p /\ wake[r] # p
  BY <1>3, Zenon DEF Quiet
<1> QED
  BY <1>1, <1>3, <1>4, <1>6, <1>7, <1>8, Zenon DEF AloneOn

\* Every step keeps the quiet leases alone.
LEMMA QuietStep ==
    ASSUME TypeOK, PlacesKnown, PortsTold, TunnelServesOnce, LeaseConsistent, QuietAlone, [Next]_vars
    PROVE  QuietAlone'
<1>l. [LeaseNext]_leaseVars
  BY LeaseSide, Zenon
<1>1. ASSUME NEW c \in quiet
      PROVE  port'[c] \in Ports /\ (LeaseHolder(port[c])' = c => AloneOn(c)')
  <2>1. c \in Conn /\ port[c] \in Ports /\ (LeaseHolder(port[c]) = c => AloneOn(c))
    BY Zenon DEF QuietAlone, TypeOK
  <2>2. port'[c] = port[c] /\ (LeaseHolder(port[c])' = c => LeaseHolder(port[c]) = c)
    BY <1>l, <2>1, HeldBefore, Zenon DEF TypeOK
  <2> QED
    BY <2>1, <2>2, AloneStep, Zenon
<1>2. ASSUME NEW c \in Conn, Connect(c) PROVE QuietAlone'
  <2>1. CASE UNCHANGED quiet
    BY <1>1, <2>1, Zenon DEF QuietAlone
  <2>2. CASE port'[c] # port[c] /\ Quiet(port'[c]) /\ quiet' = quiet \cup {c}
    BY <1>1, <1>2, <2>2, GrantedAlone, Zenon DEF QuietAlone
  <2> QED
    BY <1>2, <2>1, <2>2, Zenon DEF Connect
<1>3. ASSUME UNCHANGED quiet PROVE QuietAlone'
  BY <1>1, <1>3, Zenon DEF QuietAlone
<1>4. ASSUME NEW c \in Conn, \/ SpawnRelay(c) \/ Bind(c) \/ CheckAllocation(c)
                             \/ \E x \in Connection : Accept(c, x)
      PROVE  UNCHANGED quiet
  BY <1>4, Zenon DEF SpawnRelay, Bind, CheckAllocation, Accept
<1>5. ASSUME NEW r \in Releaser,
             WakeRefused(r) \/ ReleaseCleanup(r) \/ \E p \in Ports : ReleasePort(r, p)
      PROVE  UNCHANGED quiet
  BY <1>5, Zenon DEF WakeRefused, ReleaseCleanup, ReleasePort
<1>6. ASSUME NEW x \in Connection, TakeTunnel(x) \/ CloseRelay(x) PROVE UNCHANGED quiet
  BY <1>6, Zenon DEF TakeTunnel, CloseRelay
<1>7. ASSUME NEW t \in Tunnel, TunnelPush(t) \/ \E c \in Conn : TunnelCheck(t, c)
      PROVE  UNCHANGED quiet
  BY <1>7, Zenon DEF TunnelPush, TunnelCheck
<1>8. CASE OtherLeaseStep \/ UNCHANGED vars
  BY <1>3, <1>8, Zenon DEF OtherLeaseStep, vars, tcpVars
<1> QED
  BY <1>2, <1>3, <1>4, <1>5, <1>6, <1>7, <1>8, Zenon DEF Next

-----------------------------------------------------------------------------
(* The theorems.                                                           *)

\* The inductive invariant of the TCP side.
TcpInvariant ==
    /\ TypeOK /\ PlacesKnown /\ TunnelsDistinct /\ TunnelServesOnce /\ ServedHere /\ QuietAlone

\* It holds at the start.
LEMMA TcpInit == Init => TcpInvariant
<1> SUFFICES ASSUME Init PROVE TcpInvariant
  BY Zenon
<1>1. LeaseTypeOK
  BY TypeInit, Zenon DEF Init
<1>2. tcp_tunnels \in [Ports -> Seq(Tunnel)] /\ \A p \in Ports : tcp_tunnels[p] = <<>>
  BY DEF Init
<1>3. /\ tunnel \in [Tunnel -> TunnelState] /\ public \in [Connection -> PublicState]
      /\ \A t \in Tunnel : tunnel[t].pc = "idle" /\ tunnel[t].lease = None
      /\ \A x \in Connection : public[x].pc = "idle" /\ public[x].lease = None
  BY Zenon DEF Init, IdlePublic, TunnelState, PublicState
<1>4. TypeOK
  BY <1>1, <1>2, <1>3, Zenon DEF Init, TypeOK, TunnelState, PublicState
<1>5. PlacesKnown
  BY <1>3, Zenon DEF Init, PlacesKnown, ListenersKnown, WakesKnown, PublicKnown, TunnelsKnown
<1>6. TunnelsDistinct /\ TunnelServesOnce /\ ServedHere
  BY <1>2, <1>3, SMTT(30) DEF TunnelsDistinct, TunnelServesOnce, ServedHere
<1>7. QuietAlone
  BY Zenon DEF Init, QuietAlone
<1> QED
  BY <1>4, <1>5, <1>6, <1>7, Zenon DEF TcpInvariant

\* The invariant holds throughout, next to what is known of the leases.
THEOREM TcpInvariantCorrect == Spec => []TcpInvariant
<1>1. TcpInvariant /\ PortsTold /\ LeaseSound /\ [Next]_vars => TcpInvariant'
  BY TcpTypeStep, PlacesStep, DistinctStep, ServedStep, QuietStep, Zenon DEF TcpInvariant, LeaseSound
<1>2. Spec => []PortsTold /\ []LeaseSound
  BY TcpKeepsLeases, PortsToldCorrect, PTL
<1> QED
  BY <1>1, <1>2, TcpInit, PTL DEF Spec

\* A client tunnel carries at most one public connection, for any number of listeners,
\* tunnels and connections that race for the queue of a port.
THEOREM TunnelsSoundCorrect == Spec => []TunnelsSound
<1>1. TcpInvariant => TunnelsSound
  BY Zenon DEF TcpInvariant, TunnelsSound
<1> QED
  BY <1>1, TcpInvariantCorrect, PTL

\* A lease granted on a quiet port keeps its listener and meets only the tunnels of its own
\* client, whatever RELEASEs, wake-ups and stale clients do meanwhile.
THEOREM QuietLeaseKeptCorrect == Spec => []QuietLeaseKept
<1>1. TcpInvariant => QuietLeaseKept
  <2> SUFFICES ASSUME TcpInvariant, NEW c \in quiet, LeaseHolder(port[c]) = c
               PROVE  /\ listener[c] # "stopped"
                      /\ \A i \in DOMAIN tcp_tunnels[port[c]] :
                            LET t == tcp_tunnels[port[c]][i]
                            IN  tunnel[t].lease = c \/ tunnel[t].stale
                      /\ \A x \in Connection : public[x].lease = c /\ public[x].pc = "served" =>
                            LET t == public[x].tunnel
                            IN  tunnel[t].lease = c \/ tunnel[t].stale
    BY Zenon DEF QuietLeaseKept, QuietLeaseServed, QuietLeaseIsolated
  <2>1. c \in Conn /\ port[c] \in Ports /\ AloneOn(c)
    BY Zenon DEF TcpInvariant, QuietAlone, TypeOK
  <2>2. \A t \in Tunnel : port[tunnel[t].lease] = port[c] /\ tunnel[t].pc \in {"queued", "serving"}
           => tunnel[t].lease = c \/ tunnel[t].stale
    BY <2>1, RelayTcpAssumption, Zenon DEF AloneOn, TcpInvariant, PlacesKnown, TunnelsKnown
  <2>3. ASSUME NEW i \in DOMAIN tcp_tunnels[port[c]]
        PROVE  LET t == tcp_tunnels[port[c]][i] IN tunnel[t].lease = c \/ tunnel[t].stale
    <3>1. tcp_tunnels[port[c]][i] \in Tunnel
      BY <2>1, <2>3 DEF TcpInvariant, TypeOK
    <3> QED
      BY <2>1, <2>2, <3>1, SMTT(30) DEF TcpInvariant, TunnelsDistinct, TunnelServesOnce
  <2>4. ASSUME NEW x \in Connection, public[x].lease = c, public[x].pc = "served"
        PROVE  LET t == public[x].tunnel IN tunnel[t].lease = c \/ tunnel[t].stale
    <3>1. public[x].tunnel \in Tunnel /\ public[x].port = port[c]
      BY <2>1, <2>4, RelayTcpAssumption, Zenon DEF TcpInvariant, PlacesKnown, PublicKnown
    <3>2. /\ port[tunnel[public[x].tunnel].lease] = port[c]
          /\ tunnel[public[x].tunnel].pc = "serving"
      BY <2>4, <3>1, Zenon DEF TcpInvariant, ServedHere, TunnelsDistinct
    <3> QED
      BY <2>2, <3>1, <3>2, Zenon
  <2> QED
    BY <2>1, <2>3, <2>4, SMTT(30), Zenon DEF AloneOn
<1> QED
  BY <1>1, TcpInvariantCorrect, PTL
=============================================================================
