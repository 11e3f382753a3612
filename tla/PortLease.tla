------------------------------ MODULE PortLease ------------------------------
(***************************************************************************)
(* The control plane of the shared relay: CONNECT and RELEASE of           *)
(* src/src/shared_relay.rs.  Every control connection is a Tokio task; a   *)
(* step of this module is what one task does between two awaits (or lock   *)
(* operations), so the tasks interleave exactly where the runtime lets     *)
(* them.  The public listeners and the client tunnels that a lease starts  *)
(* are in modules RelayTcp and RelayUdp, which extend this one.            *)
(***************************************************************************)
EXTENDS Integers, FiniteSets, Sequences

CONSTANTS
    Conn,               \* control connections that send CONNECT; also client_addr
    Releaser,           \* control connections that send RELEASE
    Token,              \* token values a client may present
    PortStart, PortEnd, \* config.port_range
    QueueEnabled,       \* config.queue.enabled
    QueueMaxSize,       \* config.queue.max_size
    AuthFiles,          \* sharedService sections that config.yml may hold
    StartupAuth,        \* the section the process was started with
    NoToken, NoPort, Free, Unreadable

Ports == PortStart .. PortEnd

\* The part of SharedServiceConfig that handle_connect consults: the tokens that
\* shared_token_is_valid accepts and the fixed port of the entry that matches.
AuthConfig == [allow_anonymous : BOOLEAN,
               valid           : SUBSET Token,
               fixed_port      : [Token -> Int \cup {NoPort}]]

Allocation == [token : Token \cup {NoToken}, client_addr : Conn]

ASSUME PortLeaseAssumption ==
    /\ IsFiniteSet(Conn)
    /\ PortStart \in Int /\ PortEnd \in Int
    /\ QueueEnabled \in BOOLEAN
    /\ QueueMaxSize \in Nat
    /\ AuthFiles \subseteq AuthConfig
    /\ StartupAuth \in AuthConfig
    /\ NoToken \notin Token
    /\ NoPort \notin Int
    /\ Free \notin Allocation
    /\ Free \notin [token : Token \cup {NoToken}, fixed_port : Ports \cup {NoPort}]
    /\ Unreadable \notin AuthConfig

VARIABLES
    auth_file,                \* sharedService of config.yml, or Unreadable
    port_allocations,         \* HashMap<u16, PortAllocation>
    waiting_clients,          \* length of the anonymous queue
    waiting_priority_clients, \* length of the token-bearing queue
    permit,                   \* allocation_notify: the one stored permit
    waiters,                  \* allocation_notify: tasks asleep in notified()
    pc, token, fixed_port,    \* the CONNECT handlers: place and locals
    reply, port,              \* its answer, and the port in an "OK <port>"
    release_pc, release_port  \* the RELEASE handlers

leaseVars == <<auth_file, port_allocations, waiting_clients,
               waiting_priority_clients, permit, waiters, pc, token, fixed_port,
               reply, port, release_pc, release_port>>

Priority(c) == token[c] # NoToken          \* is_priority_client

LeaseInit ==
    /\ auth_file = StartupAuth
    /\ port_allocations = [p \in Ports |-> Free]
    /\ waiting_clients = 0 /\ waiting_priority_clients = 0
    /\ permit = FALSE /\ waiters = <<>>
    /\ pc = [c \in Conn |-> "start"]
    /\ token = [c \in Conn |-> NoToken]
    /\ fixed_port = [c \in Conn |-> NoPort]
    /\ reply = [c \in Conn |-> "none"]
    /\ port = [c \in Conn |-> NoPort]
    /\ release_pc = [r \in Releaser |-> "idle"]
    /\ release_port = [r \in Releaser |-> NoPort]

-----------------------------------------------------------------------------
(* tokio::sync::Notify, as this code uses it.                              *)

\* notify_one: wake the oldest sleeper, or store a permit when nobody sleeps.
NotifyOne ==
    IF waiters = <<>>
    THEN /\ permit' = TRUE
         /\ UNCHANGED <<waiters, pc>>
    ELSE /\ pc' = [pc EXCEPT ![Head(waiters)] = "retry"]
         /\ waiters' = Tail(waiters)
         /\ UNCHANGED permit

\* notified().await: use up the permit, or go to sleep behind the others.
Notified(c) ==
    /\ pc[c] = "wait"
    /\ IF permit
       THEN /\ permit' = FALSE
            /\ pc' = [pc EXCEPT ![c] = "retry"]
            /\ UNCHANGED waiters
       ELSE /\ waiters' = Append(waiters, c)
            /\ pc' = [pc EXCEPT ![c] = "asleep"]
            /\ UNCHANGED permit
    /\ UNCHANGED <<auth_file, port_allocations, waiting_clients,
                   waiting_priority_clients, token, fixed_port, reply,
                   port, release_pc, release_port>>

-----------------------------------------------------------------------------
(* The CONNECT handler.                                                    *)

\* shared_service_auth_config: config.yml is read again for every request and
\* the startup section stands in for one that cannot be read.
CurrentAuth == IF auth_file = Unreadable THEN StartupAuth ELSE auth_file

\* The <host:port> part of a request: usable, with port 0, or not of that form.
Target == {"ok", "zero_port", "malformed"}

\* The checks of handle_connect, in its order; "none" lets the request through.
Refusal(t, target) ==
    LET fp == CurrentAuth.fixed_port[t] IN
    CASE target = "malformed"                                -> "InvalidFormat"
      [] t = NoToken /\ ~CurrentAuth.allow_anonymous         -> "TokenRequired"
      [] target = "zero_port"                                -> "InvalidPort"
      [] t # NoToken /\ t \notin CurrentAuth.valid           -> "InvalidToken"
      [] t # NoToken /\ fp # NoPort /\ fp \notin Ports       -> "FixedPortOutOfRange"
      [] OTHER                                               -> "none"

HandleConnect(c, t, target) ==
    /\ pc[c] = "start"
    /\ LET refusal == Refusal(t, target) IN
       IF refusal # "none"
       THEN /\ reply' = [reply EXCEPT ![c] = refusal]
            /\ pc' = [pc EXCEPT ![c] = "done"]
            /\ UNCHANGED <<token, fixed_port>>
       ELSE /\ token' = [token EXCEPT ![c] = t]
            /\ fixed_port' = [fixed_port EXCEPT ![c] =
                   IF t = NoToken THEN NoPort ELSE CurrentAuth.fixed_port[t]]
            /\ pc' = [pc EXCEPT ![c] = "try"]
            /\ UNCHANGED reply
    /\ UNCHANGED <<auth_file, port_allocations, waiting_clients,
                   waiting_priority_clients, permit, waiters, port,
                   release_pc, release_port>>

TokenInUse_unchecked(c) == FALSE

TokenInUse(c) ==
    Priority(c) /\ \E p \in Ports : /\ port_allocations[p] # Free
                                    /\ port_allocations[p].token = token[c]

\* The ports try_allocate_port may pick: the fixed one, or any free one, the scan
\* starting at an offset taken from the clock.
Candidates(c) ==
    {p \in Ports : /\ port_allocations[p] = Free
                   /\ fixed_port[c] \in {NoPort, p}}

LeaveWith_keepingCounter(c, answer) ==
    /\ reply' = [reply EXCEPT ![c] = answer]
    /\ pc' = [pc EXCEPT ![c] = "done"]

\* The handler leaves allocate_or_wait_for_port; a queued one must still lower
\* its counter, under another lock.
LeaveWith(c, answer) ==
    /\ reply' = [reply EXCEPT ![c] = answer]
    /\ pc' = [pc EXCEPT ![c] = IF pc[c] = "retry" THEN "dequeue" ELSE "done"]

\* try_allocate_port runs under the write lock of port_allocations.
TryAllocate(c) ==
    /\ pc[c] \in {"try", "retry"}
    /\ \/ /\ TokenInUse(c)
          /\ LeaveWith(c, "TokenInUse")
          /\ UNCHANGED <<port_allocations, port>>
       \/ /\ ~TokenInUse(c)
          /\ \E p \in Candidates(c) :
                /\ port_allocations' = [port_allocations EXCEPT ![p] =
                                           [token |-> token[c], client_addr |-> c]]
                /\ port' = [port EXCEPT ![c] = p]
          /\ LeaveWith(c, "OK")
       \/ /\ ~TokenInUse(c) /\ Candidates(c) = {}
          /\ pc' = [pc EXCEPT ![c] = IF pc[c] = "retry" THEN "wait" ELSE "full"]
          /\ UNCHANGED <<port_allocations, reply, port>>
    /\ UNCHANGED <<auth_file, waiting_clients, waiting_priority_clients, permit,
                   waiters, token, fixed_port, release_pc, release_port>>

QueueHasRoom == waiting_clients < QueueMaxSize

\* The first time it finds the relay full, a handler joins the queue or gives up.
\* Only anonymous clients are subject to the cap.
Enqueue(c) ==
    /\ pc[c] = "full"
    /\ \/ /\ ~QueueEnabled \/ (~Priority(c) /\ ~QueueHasRoom)
          /\ reply' = [reply EXCEPT ![c] = "QueueFull"]
          /\ pc' = [pc EXCEPT ![c] = "done"]
          /\ UNCHANGED <<waiting_clients, waiting_priority_clients>>
       \/ /\ QueueEnabled /\ ~Priority(c) /\ QueueHasRoom
          /\ waiting_clients' = waiting_clients + 1
          /\ pc' = [pc EXCEPT ![c] = "wait"]
          /\ UNCHANGED <<waiting_priority_clients, reply>>
       \/ /\ QueueEnabled /\ Priority(c)
          /\ waiting_priority_clients' = waiting_priority_clients + 1
          /\ pc' = [pc EXCEPT ![c] = "wait"]
          /\ UNCHANGED <<waiting_clients, reply>>
    /\ UNCHANGED <<auth_file, port_allocations, permit, waiters, token,
                   fixed_port, port, release_pc, release_port>>

Decremented(n) == IF n > 0 THEN n - 1 ELSE n

\* decrement_waiting_counter.
Dequeue(c) ==
    /\ pc[c] = "dequeue"
    /\ IF Priority(c)
       THEN /\ waiting_priority_clients' = Decremented(waiting_priority_clients)
            /\ UNCHANGED waiting_clients
       ELSE /\ waiting_clients' = Decremented(waiting_clients)
            /\ UNCHANGED waiting_priority_clients
    /\ pc' = [pc EXCEPT ![c] = "done"]
    /\ UNCHANGED <<auth_file, port_allocations, permit, waiters, token,
                   fixed_port, reply, port, release_pc, release_port>>

-----------------------------------------------------------------------------
(* The RELEASE handler, and the second source of notifications.            *)

\* RELEASE takes the port out of the table first ...
Release(r, p) ==
    /\ release_pc[r] = "idle"
    /\ port_allocations[p] # Free
    /\ port_allocations' = [port_allocations EXCEPT ![p] = Free]
    /\ release_pc' = [release_pc EXCEPT ![r] = "tcp_tunnels"]
    /\ release_port' = [release_port EXCEPT ![r] = p]
    /\ UNCHANGED <<auth_file, waiting_clients, waiting_priority_clients, permit,
                   waiters, pc, token, fixed_port, reply, port>>

\* ... then drops the port's tunnels and socket, each under its own lock ...
CleanupStep(r) ==
    /\ release_pc[r] \in {"tcp_tunnels", "udp_tunnels", "udp_sockets"}
    /\ release_pc' = [release_pc EXCEPT ![r] =
                         CASE release_pc[r] = "tcp_tunnels" -> "udp_tunnels"
                           [] release_pc[r] = "udp_tunnels" -> "udp_sockets"
                           [] OTHER                         -> "notify"]
    /\ UNCHANGED <<auth_file, port_allocations, waiting_clients,
                   waiting_priority_clients, permit, waiters, pc, token,
                   fixed_port, reply, port, release_port>>

ReleaseNotify_silent(r) ==
    /\ release_pc[r] = "notify"
    /\ release_pc' = [release_pc EXCEPT ![r] = "idle"]
    /\ release_port' = [release_port EXCEPT ![r] = NoPort]
    /\ UNCHANGED <<auth_file, port_allocations, waiting_clients,
                   waiting_priority_clients, permit, waiters, pc, token,
                   fixed_port, reply, port>>

\* ... and only then tells one waiting CONNECT handler.
ReleaseNotify(r) ==
    /\ release_pc[r] = "notify"
    /\ NotifyOne
    /\ release_pc' = [release_pc EXCEPT ![r] = "idle"]
    /\ release_port' = [release_port EXCEPT ![r] = NoPort]
    /\ UNCHANGED <<auth_file, port_allocations, waiting_clients,
                   waiting_priority_clients, token, fixed_port, reply, port>>

\* A UDP relay loop that ends notifies as well.  This module lets it happen at
\* any time; RelayUdp says when.
UdpLoopNotify ==
    /\ NotifyOne
    /\ UNCHANGED <<auth_file, port_allocations, waiting_clients,
                   waiting_priority_clients, token, fixed_port, reply, port,
                   release_pc, release_port>>

\* External: an operator or the manager API rewrites config.yml.
EditConfig(f) ==
    /\ auth_file' = f
    /\ UNCHANGED <<port_allocations, waiting_clients, waiting_priority_clients,
                   permit, waiters, pc, token, fixed_port, reply, port,
                   release_pc, release_port>>

ConnectStep(c) ==
    \/ \E t \in Token \cup {NoToken}, target \in Target : HandleConnect(c, t, target)
    \/ TryAllocate(c)
    \/ Enqueue(c)
    \/ Notified(c)
    \/ Dequeue(c)

LeaseNext ==
    \/ \E c \in Conn : ConnectStep(c)
    \/ \E r \in Releaser : \/ \E p \in Ports : Release(r, p)
                           \/ CleanupStep(r)
                           \/ ReleaseNotify(r)
    \/ UdpLoopNotify
    \/ \E f \in AuthFiles \cup {Unreadable} : EditConfig(f)

LeaseSpec == LeaseInit /\ [][LeaseNext]_leaseVars

-----------------------------------------------------------------------------
(* Properties.                                                             *)

ConnectPc == {"start", "try", "full", "wait", "asleep", "retry", "dequeue", "done"}

Reply == {"none", "OK", "TokenInUse", "QueueFull", "TokenRequired", "InvalidPort",
          "InvalidToken", "InvalidFormat", "FixedPortOutOfRange"}

\* Type correctness.  The anonymous queue never exceeds queue.max_size, although
\* the check and the increment are made by tasks that race for the same slot.
LeaseTypeOK ==
    /\ auth_file \in AuthConfig \cup {Unreadable}
    /\ port_allocations \in [Ports -> Allocation \cup {Free}]
    /\ waiting_clients \in 0 .. QueueMaxSize
    /\ waiting_priority_clients \in Nat
    /\ permit \in BOOLEAN
    /\ waiters \in Seq(Conn)
    /\ pc \in [Conn -> ConnectPc]
    /\ token \in [Conn -> Token \cup {NoToken}]
    /\ fixed_port \in [Conn -> Ports \cup {NoPort}]
    /\ reply \in [Conn -> Reply]
    /\ port \in [Conn -> Ports \cup {NoPort}]
    /\ release_pc \in [Releaser -> {"idle", "tcp_tunnels", "udp_tunnels", "udp_sockets", "notify"}]
    /\ release_port \in [Releaser -> Ports \cup {NoPort}]

\* The handlers that sit in allocate_or_wait_for_port with queued = true.
Queued == {c \in Conn : pc[c] \in {"wait", "asleep", "retry", "dequeue"}}

\* The counters that STATS reports and that the cap is checked against are exactly
\* the handlers still queued: no path out of allocate_or_wait_for_port (granted,
\* token in use, woken in vain) leaves a slot of the queue occupied for ever or
\* gives one back twice.
QueueAccounting ==
    /\ waiting_clients = Cardinality({c \in Queued : ~Priority(c)})
    /\ waiting_priority_clients = Cardinality({c \in Queued : Priority(c)})

\* A lease in the table belongs to a CONNECT handler that was told so, on the port
\* its token is pinned to, and has no second port: try_allocate_port never hands a
\* port to two handlers and a handler that was refused never holds one.
LeaseConsistent ==
    \A p \in Ports : port_allocations[p] # Free =>
        LET c == port_allocations[p].client_addr IN
        /\ reply[c] = "OK" /\ port[c] = p /\ pc[c] \in {"dequeue", "done"}
        /\ port_allocations[p].token = token[c]
        /\ fixed_port[c] \in {NoPort, p}

\* "ERROR Token already has an active relay": two leases never carry one token,
\* whatever the order in which the handlers of that token wake up.
OneRelayPerToken ==
    \A p, q \in Ports :
        /\ port_allocations[p] # Free /\ port_allocations[q] # Free
        /\ port_allocations[p].token = port_allocations[q].token
        /\ port_allocations[p].token # NoToken
        => p = q

\* Nobody sleeps out of reach of allocation_notify: the tasks asleep in notified()
\* are exactly those registered, once each, and a permit is stored only while
\* nobody sleeps.
SleepersRegistered ==
    /\ \A c \in Conn : pc[c] = "asleep" <=> \E i \in DOMAIN waiters : waiters[i] = c
    /\ \A i, j \in DOMAIN waiters : waiters[i] = waiters[j] => i = j
    /\ permit => waiters = <<>>

\* The refinement mapping: a lease is its token and the port its holder asked for.
LeaseView ==
    [p \in Ports |-> IF port_allocations[p] = Free THEN Free
                     ELSE [token      |-> port_allocations[p].token,
                           fixed_port |-> fixed_port[port_allocations[p].client_addr]]]

Leases == INSTANCE LeaseTable WITH Port <- Ports, lease <- LeaseView

\* The handlers implement the lease table: whatever their interleaving, a grant is
\* made only of a free port, to a token without another, on the pinned port, and
\* nothing but RELEASE takes a lease away.
ImplementsLeaseTable == Leases!Spec

\* With a queue of length one a waiting client is never forgotten: when a port it
\* could have is free it wakes up, although RELEASE may notify before the client
\* has registered with allocation_notify (the stored permit covers that window).
FreePortWakesWaiter ==
    \A c \in Conn : (pc[c] = "asleep" /\ Candidates(c) # {})
                      ~> (pc[c] # "asleep" \/ Candidates(c) = {})

\* The lease side of the relay is sound, whatever the interleaving of its handlers: types,
\* the queue's counters, who holds which port, one relay for a token, nobody asleep out of
\* reach of allocation_notify.
LeaseSound ==
    LeaseTypeOK /\ QueueAccounting /\ LeaseConsistent /\ OneRelayPerToken /\ SleepersRegistered
=============================================================================
