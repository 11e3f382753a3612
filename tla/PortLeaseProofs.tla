--------------------------- MODULE PortLeaseProofs ---------------------------
(***************************************************************************)
(* What PortLease promises, for any number of clients, tokens and ports    *)
(* and any queue length.  The inductive invariant is the conjunction of    *)
(* the five invariants of PortLease: the type invariant bounds the values, *)
(* SleepersRegistered says that notify_one wakes a handler that really     *)
(* sleeps (so that QueueAccounting survives it), and LeaseConsistent ties  *)
(* a lease to its handler (so that the refinement can read the pinned port *)
(* of a lease off the handler's locals).                                   *)
(***************************************************************************)
EXTENDS PortLease, TLAPS, FiniteSetTheorems

\* What handle_connect lets through has a usable fixed port, and what it refuses
\* gets one of its error replies.
LEMMA RefusalType ==
    ASSUME LeaseTypeOK, NEW t \in Token \cup {NoToken}, NEW target \in Target
    PROVE  /\ Refusal(t, target) \in (Reply \ {"OK", "TokenInUse", "QueueFull"})
           /\ (Refusal(t, target) = "none" /\ t # NoToken)
                => CurrentAuth.fixed_port[t] \in Ports \cup {NoPort}
<1>1. CurrentAuth \in AuthConfig
  BY PortLeaseAssumption, Zenon DEF LeaseTypeOK, CurrentAuth
<1>2. t # NoToken => CurrentAuth.fixed_port[t] \in Int \cup {NoPort}
  BY <1>1, Zenon DEF AuthConfig
<1> QED
  BY <1>2, Zenon DEF Refusal, Reply, Target

\* Waking one handler moves only that handler.
LEMMA NotifyOneType ==
    ASSUME LeaseTypeOK, NotifyOne
    PROVE  /\ permit' \in BOOLEAN
           /\ waiters' \in Seq(Conn)
           /\ pc' \in [Conn -> ConnectPc]
<1>1. CASE waiters = <<>>
  BY <1>1, Zenon DEF NotifyOne, LeaseTypeOK
<1>2. CASE waiters # <<>>
  <2>1. Head(waiters) \in Conn /\ Tail(waiters) \in Seq(Conn)
    BY <1>2 DEF LeaseTypeOK
  <2> QED
    BY <1>2, <2>1, Zenon DEF NotifyOne, LeaseTypeOK, ConnectPc
<1> QED
  BY <1>1, <1>2, Zenon

\* The type invariant, the queue cap included, is inductive by itself.
LEMMA TypeStep == LeaseTypeOK /\ [LeaseNext]_leaseVars => LeaseTypeOK'
<1> SUFFICES ASSUME LeaseTypeOK, [LeaseNext]_leaseVars
             PROVE  LeaseTypeOK'
  BY Zenon
<1> USE PortLeaseAssumption
<1>1. ASSUME NEW c \in Conn, NEW t \in Token \cup {NoToken}, NEW target \in Target,
             HandleConnect(c, t, target)
      PROVE  LeaseTypeOK'
  <2> DEFINE refusal == Refusal(t, target)
  <2>1. CASE refusal # "none"
    <3>1. refusal \in Reply
      BY RefusalType, Zenon
    <3> QED
      BY <1>1, <2>1, <3>1, SMTT(30) DEF HandleConnect, LeaseTypeOK, ConnectPc
  <2>2. CASE refusal = "none"
    <3>1. t # NoToken => CurrentAuth.fixed_port[t] \in Ports \cup {NoPort}
      BY <2>2, RefusalType, Zenon
    <3> QED
      BY <1>1, <2>2, <3>1, SMTT(30) DEF HandleConnect, LeaseTypeOK, ConnectPc
  <2> QED
    BY <2>1, <2>2, Zenon
<1>2. ASSUME NEW c \in Conn, TryAllocate(c)
      PROVE  LeaseTypeOK'
  <2>1. ASSUME NEW answer \in {"OK", "TokenInUse"}, LeaveWith(c, answer)
        PROVE  reply' \in [Conn -> Reply] /\ pc' \in [Conn -> ConnectPc]
    BY <2>1, Zenon DEF LeaveWith, LeaseTypeOK, ConnectPc, Reply
  <2>2. CASE UNCHANGED <<port_allocations, port>> /\ LeaveWith(c, "TokenInUse")
    BY <1>2, <2>1, <2>2, Zenon DEF TryAllocate, LeaseTypeOK
  <2>3. ASSUME NEW p \in Candidates(c),
               port_allocations' = [port_allocations EXCEPT ![p] =
                                       [token |-> token[c], client_addr |-> c]],
               port' = [port EXCEPT ![c] = p],
               LeaveWith(c, "OK")
        PROVE  LeaseTypeOK'
    <3>1. [token |-> token[c], client_addr |-> c] \in Allocation
      BY Zenon DEF Allocation, LeaseTypeOK
    <3>2. p \in Ports
      BY Zenon DEF Candidates
    <3>3. reply' \in [Conn -> Reply] /\ pc' \in [Conn -> ConnectPc]
      BY <2>1, <2>3, Zenon
    <3> QED
      BY <1>2, <2>3, <3>1, <3>2, <3>3, Zenon DEF TryAllocate, LeaseTypeOK
  <2>4. CASE /\ pc' = [pc EXCEPT ![c] = IF pc[c] = "retry" THEN "wait" ELSE "full"]
             /\ UNCHANGED <<port_allocations, reply, port>>
    BY <1>2, <2>4, Zenon DEF TryAllocate, LeaseTypeOK, ConnectPc
  <2> QED
    BY <1>2, <2>2, <2>3, <2>4, Zenon DEF TryAllocate
<1>3. ASSUME NEW c \in Conn, Enqueue(c)
      PROVE  LeaseTypeOK'
  <2>1. waiting_clients' \in 0 .. QueueMaxSize
    BY <1>3 DEF Enqueue, QueueHasRoom, LeaseTypeOK
  <2>2. waiting_priority_clients' \in Nat
    BY <1>3 DEF Enqueue, LeaseTypeOK
  <2>3. pc' \in [Conn -> ConnectPc] /\ reply' \in [Conn -> Reply]
    BY <1>3, Zenon DEF Enqueue, LeaseTypeOK, ConnectPc, Reply
  <2> QED
    BY <1>3, <2>1, <2>2, <2>3, Zenon DEF Enqueue, LeaseTypeOK
<1>4. ASSUME NEW c \in Conn, Notified(c)
      PROVE  LeaseTypeOK'
  <2>1. waiters' \in Seq(Conn)
    BY <1>4, SMTT(30) DEF Notified, LeaseTypeOK
  <2>3. permit' \in BOOLEAN
    BY <1>4, Zenon DEF Notified, LeaseTypeOK
  <2>2. pc' \in [Conn -> ConnectPc]
    BY <1>4, Zenon DEF Notified, LeaseTypeOK, ConnectPc
  <2> QED
    BY <1>4, <2>1, <2>2, <2>3, Zenon DEF Notified, LeaseTypeOK
<1>5. ASSUME NEW c \in Conn, Dequeue(c)
      PROVE  LeaseTypeOK'
  BY <1>5 DEF Dequeue, Decremented, LeaseTypeOK, ConnectPc
<1>6. ASSUME NEW r \in Releaser, NEW p \in Ports, Release(r, p)
      PROVE  LeaseTypeOK'
  BY <1>6, Zenon DEF Release, LeaseTypeOK
<1>7. ASSUME NEW r \in Releaser, CleanupStep(r)
      PROVE  LeaseTypeOK'
  BY <1>7, Zenon DEF CleanupStep, LeaseTypeOK
<1>8. ASSUME NEW r \in Releaser, ReleaseNotify(r)
      PROVE  LeaseTypeOK'
  <2>1. NotifyOne
    BY <1>8, Zenon DEF ReleaseNotify
  <2> QED
    BY <1>8, <2>1, NotifyOneType, Zenon DEF ReleaseNotify, LeaseTypeOK
<1>9. CASE UdpLoopNotify
  <2>1. NotifyOne
    BY <1>9, Zenon DEF UdpLoopNotify
  <2> QED
    BY <1>9, <2>1, NotifyOneType, Zenon DEF UdpLoopNotify, LeaseTypeOK
<1>10. ASSUME NEW f \in AuthFiles \cup {Unreadable}, EditConfig(f)
       PROVE  LeaseTypeOK'
  BY <1>10, Zenon DEF EditConfig, LeaseTypeOK
<1>11. CASE UNCHANGED leaseVars
  BY <1>11, Zenon DEF leaseVars, LeaseTypeOK
<1> QED
  BY <1>1, <1>2, <1>3, <1>4, <1>5, <1>6, <1>7, <1>8, <1>9, <1>10, <1>11, Zenon
     DEF LeaseNext, ConnectStep

\* The relay starts with every variable in its type.
LEMMA TypeInit == LeaseInit => LeaseTypeOK
<1> SUFFICES ASSUME LeaseInit PROVE LeaseTypeOK
  BY Zenon
<1>1. waiters \in Seq(Conn)
  BY DEF LeaseInit
<1>4. permit \in BOOLEAN
  BY Zenon DEF LeaseInit
<1>2. /\ waiting_clients \in 0 .. QueueMaxSize /\ waiting_priority_clients \in Nat
      /\ auth_file \in AuthConfig \cup {Unreadable}
  BY PortLeaseAssumption DEF LeaseInit
<1>3. pc \in [Conn -> ConnectPc] /\ reply \in [Conn -> Reply]
  BY Zenon DEF LeaseInit, ConnectPc, Reply
<1> QED
  BY <1>1, <1>2, <1>3, <1>4, Zenon DEF LeaseInit, LeaseTypeOK

\* Every behaviour of the CONNECT and RELEASE handlers keeps the types and the
\* bound of the anonymous queue.
THEOREM LeaseTypeCorrect == LeaseSpec => []LeaseTypeOK
  BY TypeInit, TypeStep, PTL DEF LeaseSpec

-----------------------------------------------------------------------------
(* allocation_notify never loses a sleeper.                                *)

\* The actions that leave allocation_notify and its sleepers alone.
LEMMA SleepersFrame ==
    ASSUME LeaseTypeOK, SleepersRegistered, UNCHANGED <<permit, waiters>>,
           pc' \in [Conn -> ConnectPc],
           \A c \in Conn : pc[c] = "asleep" <=> pc'[c] = "asleep"
    PROVE  SleepersRegistered'
  BY Zenon DEF SleepersRegistered

\* notify_one takes the oldest registered sleeper, so the rest stay registered.
LEMMA NotifyOneSleepers ==
    ASSUME LeaseTypeOK, SleepersRegistered, NotifyOne
    PROVE  SleepersRegistered'
<1>1. CASE waiters = <<>>
  BY <1>1 DEF SleepersRegistered, NotifyOne
<1>2. CASE waiters # <<>>
  <2>1. /\ waiters \in Seq(Conn) /\ Head(waiters) = waiters[1] /\ waiters[1] \in Conn
        /\ Len(waiters) \in Nat /\ Len(waiters) > 0 /\ DOMAIN waiters = 1 .. Len(waiters)
    BY <1>2 DEF LeaseTypeOK
  <2>2. /\ waiters' = Tail(waiters)
        /\ DOMAIN waiters' = 1 .. Len(waiters) - 1
        /\ \A i \in 1 .. Len(waiters) - 1 : waiters'[i] = waiters[i + 1]
    BY <1>2, <2>1, SMTT(30) DEF NotifyOne
  <2>3. pc' = [pc EXCEPT ![waiters[1]] = "retry"] /\ permit' = permit
    BY <1>2, <2>1, Zenon DEF NotifyOne
  <2>4. ~permit
    BY <1>2, Zenon DEF SleepersRegistered
  <2>5. \A i, j \in DOMAIN waiters' : waiters'[i] = waiters'[j] => i = j
    <3> SUFFICES ASSUME NEW i \in DOMAIN waiters', NEW j \in DOMAIN waiters',
                        waiters'[i] = waiters'[j]
                 PROVE  i = j
      BY Zenon
    <3>1. i + 1 \in DOMAIN waiters /\ j + 1 \in DOMAIN waiters
      BY <2>1, <2>2
    <3>2. i + 1 = j + 1
      BY <2>2, <3>1, Zenon DEF SleepersRegistered
    <3> QED
      BY <2>1, <2>2, <3>2
  <2>6. ASSUME NEW c \in Conn
        PROVE  pc'[c] = "asleep" <=> \E i \in DOMAIN waiters' : waiters'[i] = c
    <3>1. CASE c = waiters[1]
      <4>1. pc'[c] = "retry"
        BY <2>3, <3>1, Zenon DEF LeaseTypeOK
      <4>2. ASSUME NEW i \in DOMAIN waiters', waiters'[i] = c
            PROVE  FALSE
        <5>1. i + 1 \in DOMAIN waiters /\ 1 \in DOMAIN waiters /\ i + 1 # 1
          BY <2>1, <2>2
        <5>2. waiters[i + 1] = waiters[1]
          BY <2>2, <3>1, <4>2, Zenon
        <5> QED
          BY <5>1, <5>2, Zenon DEF SleepersRegistered
      <4> QED
        BY <4>1, <4>2, Zenon
    <3>2. CASE c # waiters[1]
      <4>1. pc'[c] = pc[c]
        BY <2>3, <3>2, Zenon DEF LeaseTypeOK
      <4>2. ASSUME NEW i \in DOMAIN waiters, waiters[i] = c
            PROVE  \E k \in DOMAIN waiters' : waiters'[k] = c
        <5>1. i - 1 \in DOMAIN waiters' /\ i - 1 + 1 = i
          BY <2>1, <2>2, <3>2, <4>2
        <5> QED
          BY <2>2, <4>2, <5>1, Zenon
      <4>3. ASSUME NEW k \in DOMAIN waiters', waiters'[k] = c
            PROVE  \E i \in DOMAIN waiters : waiters[i] = c
        <5>1. k + 1 \in DOMAIN waiters
          BY <2>1, <2>2
        <5> QED
          BY <2>2, <4>3, <5>1, Zenon
      <4> QED
        BY <4>1, <4>2, <4>3, Zenon DEF SleepersRegistered
    <3> QED
      BY <3>1, <3>2, Zenon
  <2> QED
    BY <2>3, <2>4, <2>5, <2>6, Zenon DEF SleepersRegistered
<1> QED
  BY <1>1, <1>2, Zenon

\* A handler that starts to wait takes the stored permit or registers.
LEMMA NotifiedSleepers ==
    ASSUME LeaseTypeOK, SleepersRegistered, NEW c \in Conn, Notified(c)
    PROVE  SleepersRegistered'
<1>1. CASE permit
  <2>1. waiters' = waiters /\ waiters = <<>>
    BY <1>1, Zenon DEF Notified, SleepersRegistered
  <2>2. pc' = [pc EXCEPT ![c] = "retry"] /\ pc[c] = "wait"
    BY <1>1, Zenon DEF Notified
  <2> QED
    BY <2>1, <2>2 DEF SleepersRegistered, LeaseTypeOK
<1>2. CASE ~permit
  <2>0. /\ waiters \in Seq(Conn) /\ Len(waiters) \in Nat
        /\ DOMAIN waiters = 1 .. Len(waiters)
        /\ waiters' = Append(waiters, c)
    BY <1>2 DEF Notified, LeaseTypeOK
  <2>1. /\ Len(waiters) \in Nat
        /\ DOMAIN waiters = 1 .. Len(waiters)
        /\ DOMAIN waiters' = 1 .. Len(waiters) + 1
        /\ \A i \in 1 .. Len(waiters) : waiters'[i] = waiters[i]
        /\ waiters'[Len(waiters) + 1] = c
    BY <2>0
  <2>2. pc' = [pc EXCEPT ![c] = "asleep"] /\ pc[c] = "wait" /\ permit' = permit
    BY <1>2, Zenon DEF Notified
  <2>3. \A i \in DOMAIN waiters : waiters[i] # c
    BY <2>2, Zenon DEF SleepersRegistered
  <2>4. \A i, j \in DOMAIN waiters' : waiters'[i] = waiters'[j] => i = j
    <3> SUFFICES ASSUME NEW i \in 1 .. Len(waiters) + 1, NEW j \in 1 .. Len(waiters) + 1,
                        waiters'[i] = waiters'[j]
                 PROVE  i = j
      BY <2>1, Zenon
    <3>1. CASE i \in DOMAIN waiters /\ j \in DOMAIN waiters
      BY <2>1, <3>1, Zenon DEF SleepersRegistered
    <3>2. CASE i = Len(waiters) + 1 \/ j = Len(waiters) + 1
      BY <2>1, <2>3, <3>2
    <3> QED
      BY <2>1, <3>1, <3>2
  <2>5. ASSUME NEW d \in Conn
        PROVE  pc'[d] = "asleep" <=> \E i \in DOMAIN waiters' : waiters'[i] = d
    <3>1. CASE d = c
      <4>1. pc'[d] = "asleep"
        BY <2>2, <3>1, Zenon DEF LeaseTypeOK
      <4>2. Len(waiters) + 1 \in DOMAIN waiters' /\ waiters'[Len(waiters) + 1] = d
        BY <2>1, <3>1
      <4> QED
        BY <4>1, <4>2, Zenon
    <3>2. CASE d # c
      <4>1. pc'[d] = pc[d]
        BY <2>2, <3>2, Zenon DEF LeaseTypeOK
      <4>2. (\E i \in DOMAIN waiters' : waiters'[i] = d)
              <=> (\E i \in DOMAIN waiters : waiters[i] = d)
        BY <2>1, <3>2
      <4> QED
        BY <4>1, <4>2, Zenon DEF SleepersRegistered
    <3> QED
      BY <3>1, <3>2, Zenon
  <2> QED
    BY <1>2, <2>2, <2>4, <2>5, Zenon DEF SleepersRegistered
<1> QED
  BY <1>1, <1>2, Zenon

\* In every step the registered waiters are exactly the handlers that sleep, each once.
LEMMA SleepersStep ==
    LeaseTypeOK /\ SleepersRegistered /\ [LeaseNext]_leaseVars => SleepersRegistered'
<1> SUFFICES ASSUME LeaseTypeOK, SleepersRegistered, [LeaseNext]_leaseVars
             PROVE  SleepersRegistered'
  BY Zenon
<1>t. pc' \in [Conn -> ConnectPc]
  BY TypeStep, Zenon DEF LeaseTypeOK
<1>1. ASSUME NEW c \in Conn, NEW t \in Token \cup {NoToken}, NEW target \in Target,
             HandleConnect(c, t, target)
      PROVE  SleepersRegistered'
  BY <1>1, <1>t, SleepersFrame, Zenon DEF HandleConnect, LeaseTypeOK
<1>2. ASSUME NEW c \in Conn, TryAllocate(c)
      PROVE  SleepersRegistered'
  BY <1>2, <1>t, SleepersFrame, Zenon DEF TryAllocate, LeaveWith, LeaseTypeOK
<1>3. ASSUME NEW c \in Conn, Enqueue(c)
      PROVE  SleepersRegistered'
  BY <1>3, <1>t, SleepersFrame, Zenon DEF Enqueue, LeaseTypeOK
<1>4. ASSUME NEW c \in Conn, Notified(c)
      PROVE  SleepersRegistered'
  BY <1>4, NotifiedSleepers, Zenon
<1>5. ASSUME NEW c \in Conn, Dequeue(c)
      PROVE  SleepersRegistered'
  BY <1>5, <1>t, SleepersFrame, Zenon DEF Dequeue, LeaseTypeOK
<1>6. ASSUME NEW r \in Releaser,
             (\E p \in Ports : Release(r, p)) \/ CleanupStep(r)
      PROVE  SleepersRegistered'
  BY <1>6 DEF Release, CleanupStep, SleepersRegistered
<1>7. ASSUME NEW r \in Releaser, ReleaseNotify(r)
      PROVE  SleepersRegistered'
  BY <1>7, NotifyOneSleepers, Zenon DEF ReleaseNotify
<1>8. CASE UdpLoopNotify
  BY <1>8, NotifyOneSleepers, Zenon DEF UdpLoopNotify
<1>9. ASSUME NEW f \in AuthFiles \cup {Unreadable}, EditConfig(f)
      PROVE  SleepersRegistered'
  BY <1>9, Zenon DEF EditConfig, SleepersRegistered
<1>10. CASE UNCHANGED leaseVars
  BY <1>10, Zenon DEF leaseVars, SleepersRegistered
<1> QED
  BY <1>1, <1>2, <1>3, <1>4, <1>5, <1>6, <1>7, <1>8, <1>9, <1>10, Zenon
     DEF LeaseNext, ConnectStep

\* A CONNECT handler asleep in notified() is always registered with
\* allocation_notify, so that some later RELEASE reaches it.
THEOREM SleepersCorrect == LeaseSpec => []SleepersRegistered
<1>1. LeaseInit => SleepersRegistered
  BY DEF LeaseInit, SleepersRegistered
<1> QED
  BY <1>1, LeaseTypeCorrect, SleepersStep, PTL DEF LeaseSpec

-----------------------------------------------------------------------------
(* Leases and the handlers that hold them.                                 *)

\* notify_one moves at most one handler, and one that was asleep.
LEMMA NotifyOneWakesSleeper ==
    ASSUME LeaseTypeOK, SleepersRegistered, NotifyOne, NEW c \in Conn
    PROVE  pc'[c] = pc[c] \/ (pc[c] = "asleep" /\ pc'[c] = "retry")
<1>1. CASE waiters = <<>>
  BY <1>1, Zenon DEF NotifyOne
<1>2. CASE waiters # <<>>
  <2>1. 1 \in DOMAIN waiters /\ Head(waiters) = waiters[1] /\ waiters[1] \in Conn
    BY <1>2 DEF LeaseTypeOK
  <2>2. pc[waiters[1]] = "asleep"
    BY <2>1, Zenon DEF SleepersRegistered
  <2>3. pc' = [pc EXCEPT ![waiters[1]] = "retry"]
    BY <1>2, <2>1, Zenon DEF NotifyOne
  <2> QED
    BY <2>1, <2>2, <2>3, Zenon DEF LeaseTypeOK
<1> QED
  BY <1>1, <1>2, Zenon

\* A step that leaves the table and the locals of the holders alone.
LEMMA LeaseFrame ==
    ASSUME LeaseTypeOK, LeaseConsistent, port_allocations' = port_allocations,
           \A c \in Conn : pc[c] \in {"dequeue", "done"} =>
               /\ pc'[c] \in {"dequeue", "done"}
               /\ reply'[c] = reply[c] /\ port'[c] = port[c]
               /\ token'[c] = token[c] /\ fixed_port'[c] = fixed_port[c]
    PROVE  LeaseConsistent'
<1> SUFFICES ASSUME NEW p \in Ports, port_allocations[p] # Free
             PROVE  LET c == port_allocations[p].client_addr IN
                    /\ reply'[c] = "OK" /\ port'[c] = p /\ pc'[c] \in {"dequeue", "done"}
                    /\ port_allocations[p].token = token'[c]
                    /\ fixed_port'[c] \in {NoPort, p}
  BY Zenon DEF LeaseConsistent
<1>1. port_allocations[p].client_addr \in Conn
  BY Zenon DEF LeaseTypeOK, Allocation
<1> QED
  BY <1>1 DEF LeaseConsistent

\* Every step keeps a lease tied to the handler that got it.
LEMMA LeaseStep ==
    LeaseTypeOK /\ SleepersRegistered /\ LeaseConsistent /\ [LeaseNext]_leaseVars
      => LeaseConsistent'
<1> SUFFICES ASSUME LeaseTypeOK, SleepersRegistered, LeaseConsistent, [LeaseNext]_leaseVars
             PROVE  LeaseConsistent'
  BY Zenon
<1>1. ASSUME NEW c \in Conn, NEW t \in Token \cup {NoToken}, NEW target \in Target,
             HandleConnect(c, t, target)
      PROVE  LeaseConsistent'
  BY <1>1, LeaseFrame, Zenon DEF HandleConnect, LeaseTypeOK
<1>2. ASSUME NEW c \in Conn, TryAllocate(c)
      PROVE  LeaseConsistent'
  <2>1. CASE port_allocations' = port_allocations /\ port' = port
    BY <1>2, <2>1, LeaseFrame, Zenon DEF TryAllocate, LeaveWith, LeaseTypeOK
  <2>2. ASSUME NEW q \in Candidates(c),
               port_allocations' = [port_allocations EXCEPT ![q] =
                                       [token |-> token[c], client_addr |-> c]],
               port' = [port EXCEPT ![c] = q],
               LeaveWith(c, "OK")
        PROVE  LeaseConsistent'
    <3>1. /\ q \in Ports /\ fixed_port[c] \in {NoPort, q}
          /\ pc[c] \in {"try", "retry"} /\ token' = token /\ fixed_port' = fixed_port
          /\ reply' = [reply EXCEPT ![c] = "OK"]
          /\ pc' = [pc EXCEPT ![c] = IF pc[c] = "retry" THEN "dequeue" ELSE "done"]
      BY <1>2, <2>2, Zenon DEF TryAllocate, Candidates, LeaveWith
    <3> SUFFICES ASSUME NEW p \in Ports, port_allocations'[p] # Free
                 PROVE  LET h == port_allocations'[p].client_addr IN
                        /\ reply'[h] = "OK" /\ port'[h] = p /\ pc'[h] \in {"dequeue", "done"}
                        /\ port_allocations'[p].token = token'[h]
                        /\ fixed_port'[h] \in {NoPort, p}
      BY Zenon DEF LeaseConsistent
    <3>2. CASE p = q
      BY <2>2, <3>1, <3>2, Zenon DEF LeaseTypeOK
    <3>3. CASE p # q
      <4>1. port_allocations'[p] = port_allocations[p]
        BY <2>2, <3>1, <3>3, Zenon DEF LeaseTypeOK
      <4>2. port_allocations[p].client_addr \in Conn
        BY <4>1, Zenon DEF LeaseTypeOK, Allocation
      <4>3. port_allocations[p].client_addr # c
        BY <3>1, <4>1, Zenon DEF LeaseConsistent
      <4> QED
        BY <2>2, <3>1, <4>1, <4>2, <4>3 DEF LeaseConsistent, LeaseTypeOK
    <3> QED
      BY <3>2, <3>3, Zenon
  <2> QED
    BY <1>2, <2>1, <2>2, Zenon DEF TryAllocate
<1>3. ASSUME NEW c \in Conn, Enqueue(c)
      PROVE  LeaseConsistent'
  BY <1>3, LeaseFrame, Zenon DEF Enqueue, LeaseTypeOK
<1>4. ASSUME NEW c \in Conn, Notified(c)
      PROVE  LeaseConsistent'
  BY <1>4, LeaseFrame, Zenon DEF Notified, LeaseTypeOK
<1>5. ASSUME NEW c \in Conn, Dequeue(c)
      PROVE  LeaseConsistent'
  BY <1>5, LeaseFrame, Zenon DEF Dequeue, LeaseTypeOK
<1>6. ASSUME NEW r \in Releaser, NEW p \in Ports, Release(r, p)
      PROVE  LeaseConsistent'
  <2>1. /\ port_allocations' = [port_allocations EXCEPT ![p] = Free]
        /\ UNCHANGED <<pc, token, fixed_port, reply, port>>
    BY <1>6, Zenon DEF Release
  <2>2. \A q \in Ports : port_allocations'[q] # Free => port_allocations'[q] = port_allocations[q]
    BY <2>1, Zenon DEF LeaseTypeOK
  <2> QED
    BY <2>1, <2>2 DEF LeaseConsistent
<1>7. ASSUME NEW r \in Releaser, CleanupStep(r)
      PROVE  LeaseConsistent'
  BY <1>7, LeaseFrame, Zenon DEF CleanupStep
<1>8. ASSUME NotifyOne,
             UNCHANGED <<port_allocations, token, fixed_port, reply, port>>
      PROVE  LeaseConsistent'
  BY <1>8, NotifyOneWakesSleeper, LeaseFrame, Zenon
<1>9. ASSUME NEW f \in AuthFiles \cup {Unreadable}, EditConfig(f)
      PROVE  LeaseConsistent'
  BY <1>9, LeaseFrame, Zenon DEF EditConfig
<1>10. CASE UNCHANGED leaseVars
  BY <1>10, LeaseFrame, Zenon DEF leaseVars
<1>11. ASSUME NEW r \in Releaser, ReleaseNotify(r)
       PROVE  LeaseConsistent'
  BY <1>8, <1>11, Zenon DEF ReleaseNotify
<1>12. CASE UdpLoopNotify
  BY <1>8, <1>12, Zenon DEF UdpLoopNotify
<1> QED
  BY <1>1, <1>2, <1>3, <1>4, <1>5, <1>6, <1>7, <1>9, <1>10, <1>11, <1>12, Zenon
     DEF LeaseNext, ConnectStep

\* A port in the table always belongs to the one handler that answered "OK" for
\* it, with that handler's token, on the port the token is pinned to.
THEOREM LeaseConsistentCorrect == LeaseSpec => []LeaseConsistent
<1>1. LeaseInit => LeaseConsistent
  BY DEF LeaseInit, LeaseConsistent
<1> QED
  BY <1>1, LeaseTypeCorrect, SleepersCorrect, LeaseStep, PTL DEF LeaseSpec

\* The table changes in two ways only: TryAllocate grants, RELEASE takes away.
LEMMA TableStep ==
    ASSUME [LeaseNext]_leaseVars
    PROVE  \/ port_allocations' = port_allocations
           \/ \E c \in Conn : \E p \in Candidates(c) :
                 /\ TryAllocate(c) /\ ~TokenInUse(c)
                 /\ port_allocations' = [port_allocations EXCEPT ![p] =
                                            [token |-> token[c], client_addr |-> c]]
           \/ \E p \in Ports : /\ port_allocations[p] # Free
                               /\ port_allocations' = [port_allocations EXCEPT ![p] = Free]
<1>1. ASSUME NEW c \in Conn, ConnectStep(c), ~TryAllocate(c)
      PROVE  port_allocations' = port_allocations
  BY <1>1, Zenon DEF ConnectStep, HandleConnect, Enqueue, Notified, Dequeue
<1>2. ASSUME NEW c \in Conn, TryAllocate(c)
      PROVE  \/ port_allocations' = port_allocations
             \/ \E p \in Candidates(c) :
                   /\ ~TokenInUse(c)
                   /\ port_allocations' = [port_allocations EXCEPT ![p] =
                                              [token |-> token[c], client_addr |-> c]]
  BY <1>2, Zenon DEF TryAllocate
<1>3. ASSUME NEW r \in Releaser, NEW p \in Ports, Release(r, p)
      PROVE  /\ port_allocations[p] # Free
             /\ port_allocations' = [port_allocations EXCEPT ![p] = Free]
  BY <1>3, Zenon DEF Release
<1>4. ASSUME NEW r \in Releaser, CleanupStep(r) \/ ReleaseNotify(r)
      PROVE  port_allocations' = port_allocations
  BY <1>4, Zenon DEF CleanupStep, ReleaseNotify
<1>5. ASSUME UdpLoopNotify \/ (\E f \in AuthFiles \cup {Unreadable} : EditConfig(f))
      PROVE  port_allocations' = port_allocations
  BY <1>5, Zenon DEF UdpLoopNotify, EditConfig
<1>6. CASE UNCHANGED leaseVars
  BY <1>6, Zenon DEF leaseVars
<1> QED
  BY <1>1, <1>2, <1>3, <1>4, <1>5, <1>6, Zenon DEF LeaseNext

\* Every step leaves a token at most one port (the scan and the entry share one lock).
LEMMA OneRelayStep ==
    LeaseTypeOK /\ OneRelayPerToken /\ [LeaseNext]_leaseVars => OneRelayPerToken'
<1> SUFFICES ASSUME LeaseTypeOK, OneRelayPerToken, [LeaseNext]_leaseVars
             PROVE  OneRelayPerToken'
  BY Zenon
<1>1. CASE port_allocations' = port_allocations
  BY <1>1, Zenon DEF OneRelayPerToken
<1>2. ASSUME NEW c \in Conn, NEW p \in Candidates(c), ~TokenInUse(c),
             port_allocations' = [port_allocations EXCEPT ![p] =
                                     [token |-> token[c], client_addr |-> c]]
      PROVE  OneRelayPerToken'
  <2>1. p \in Ports
    BY Zenon DEF Candidates
  <2>2. port_allocations'[p] = [token |-> token[c], client_addr |-> c]
    BY <1>2, <2>1, Zenon DEF LeaseTypeOK
  <2>3. \A q \in Ports : q # p => port_allocations'[q] = port_allocations[q]
    BY <1>2, <2>1, Zenon DEF LeaseTypeOK
  <2>4. token[c] = NoToken \/ \A q \in Ports :
            port_allocations[q] # Free => port_allocations[q].token # token[c]
    BY <1>2, Zenon DEF TokenInUse, Priority
  <2> QED
    BY <2>1, <2>2, <2>3, <2>4 DEF OneRelayPerToken
<1>3. ASSUME NEW p \in Ports, port_allocations' = [port_allocations EXCEPT ![p] = Free]
      PROVE  OneRelayPerToken'
  <2>1. \A q \in Ports : port_allocations'[q] # Free => port_allocations'[q] = port_allocations[q]
    BY <1>3, Zenon DEF LeaseTypeOK
  <2> QED
    BY <2>1, Zenon DEF OneRelayPerToken
<1> QED
  BY <1>1, <1>2, <1>3, TableStep, Zenon

\* Two leases never carry the same token, however many CONNECT handlers of that
\* token race or wait in the queue.
THEOREM OneRelayCorrect == LeaseSpec => []OneRelayPerToken
<1>1. LeaseInit => OneRelayPerToken
  BY DEF LeaseInit, OneRelayPerToken
<1> QED
  BY <1>1, LeaseTypeCorrect, OneRelayStep, PTL DEF LeaseSpec

-----------------------------------------------------------------------------
(* The queue counters.                                                     *)

Anonymous == {c \in Queued : ~Priority(c)}
Prioritised == {c \in Queued : Priority(c)}

\* The handlers in the two queues can be counted.
LEMMA QueuedFinite == IsFiniteSet(Anonymous) /\ IsFiniteSet(Prioritised)
<1>1. Anonymous \subseteq Conn /\ Prioritised \subseteq Conn
  BY Zenon DEF Anonymous, Prioritised, Queued
<1> QED
  BY <1>1, FS_Subset, PortLeaseAssumption, Zenon

\* A step after which the same handlers are queued, with the same tokens.
LEMMA QueueFrame ==
    ASSUME QueueAccounting, UNCHANGED <<waiting_clients, waiting_priority_clients>>,
           \A c \in Conn : (pc'[c] \in {"wait", "asleep", "retry", "dequeue"})
                             <=> (pc[c] \in {"wait", "asleep", "retry", "dequeue"}),
           \A c \in Conn : pc[c] \in {"wait", "asleep", "retry", "dequeue"}
                             => token'[c] = token[c]
    PROVE  QueueAccounting'
<1>1. Anonymous' = Anonymous /\ Prioritised' = Prioritised
  BY Zenon DEF Anonymous, Prioritised, Queued, Priority
<1> QED
  BY <1>1, Zenon DEF QueueAccounting, Anonymous, Prioritised

\* A handler that joins a queue is counted in it, and one that is refused is not.
LEMMA EnqueueAccounting ==
    ASSUME LeaseTypeOK, QueueAccounting, NEW c \in Conn, Enqueue(c)
    PROVE  QueueAccounting'
<1>1. CASE pc' = [pc EXCEPT ![c] = "done"] /\ UNCHANGED <<waiting_clients, waiting_priority_clients>>
  BY <1>1, QueueFrame, Zenon DEF Enqueue, LeaseTypeOK
<1>2. CASE /\ ~Priority(c) /\ waiting_clients' = waiting_clients + 1
           /\ pc' = [pc EXCEPT ![c] = "wait"] /\ UNCHANGED waiting_priority_clients
  <2>1. pc[c] = "full" /\ token' = token
    BY Zenon DEF Enqueue
  <2>2. Anonymous' = Anonymous \cup {c} /\ c \notin Anonymous /\ Prioritised' = Prioritised
    BY <1>2, <2>1, Zenon DEF Anonymous, Prioritised, Queued, Priority, LeaseTypeOK
  <2>3. Cardinality(Anonymous') = Cardinality(Anonymous) + 1
    BY <2>2, QueuedFinite, FS_AddElement, Zenon
  <2> QED
    BY <1>2, <2>2, <2>3, Zenon DEF QueueAccounting, Anonymous, Prioritised
<1>3. CASE /\ Priority(c) /\ waiting_priority_clients' = waiting_priority_clients + 1
           /\ pc' = [pc EXCEPT ![c] = "wait"] /\ UNCHANGED waiting_clients
  <2>1. pc[c] = "full" /\ token' = token
    BY DEF Enqueue
  <2>2. Prioritised' = Prioritised \cup {c} /\ c \notin Prioritised /\ Anonymous' = Anonymous
    BY <1>3, <2>1, Zenon DEF Anonymous, Prioritised, Queued, Priority, LeaseTypeOK
  <2>3. Cardinality(Prioritised') = Cardinality(Prioritised) + 1
    BY <2>2, QueuedFinite, FS_AddElement, Zenon
  <2> QED
    BY <1>3, <2>2, <2>3, Zenon DEF QueueAccounting, Anonymous, Prioritised
<1> QED
  BY <1>1, <1>2, <1>3, Zenon DEF Enqueue

\* A handler that leaves is taken from the queue it was counted in.
LEMMA DequeueAccounting ==
    ASSUME LeaseTypeOK, QueueAccounting, NEW c \in Conn, Dequeue(c)
    PROVE  QueueAccounting'
<1>1. pc[c] = "dequeue" /\ token' = token /\ pc' = [pc EXCEPT ![c] = "done"]
  BY Zenon DEF Dequeue
<1>2. CASE ~Priority(c)
  <2>1. Anonymous' = Anonymous \ {c} /\ c \in Anonymous /\ Prioritised' = Prioritised
    BY <1>1, <1>2, Zenon DEF Anonymous, Prioritised, Queued, Priority, LeaseTypeOK
  <2>2. Cardinality(Anonymous') = Cardinality(Anonymous) - 1
    BY <2>1, QueuedFinite, FS_RemoveElement, Zenon
  <2>3. Cardinality(Anonymous) \in Nat /\ Cardinality(Anonymous) # 0
    BY <2>1, QueuedFinite, FS_CardinalityType, FS_EmptySet, Zenon
  <2>4. waiting_clients = Cardinality(Anonymous) /\ waiting_priority_clients = Cardinality(Prioritised)
    BY Zenon DEF QueueAccounting, Anonymous, Prioritised
  <2>5. waiting_clients' = waiting_clients - 1 /\ UNCHANGED waiting_priority_clients
    BY <1>2, <2>3, <2>4 DEF Dequeue, Decremented
  <2>6. /\ waiting_clients' = Cardinality(Anonymous')
        /\ waiting_priority_clients' = Cardinality(Prioritised')
    BY <2>1, <2>2, <2>4, <2>5, Zenon
  <2> QED
    BY <2>6, Zenon DEF QueueAccounting, Anonymous, Prioritised
<1>3. CASE Priority(c)
  <2>1. Prioritised' = Prioritised \ {c} /\ c \in Prioritised /\ Anonymous' = Anonymous
    BY <1>1, <1>3, Zenon DEF Anonymous, Prioritised, Queued, Priority, LeaseTypeOK
  <2>2. Cardinality(Prioritised') = Cardinality(Prioritised) - 1
    BY <2>1, QueuedFinite, FS_RemoveElement, Zenon
  <2>3. Cardinality(Prioritised) \in Nat /\ Cardinality(Prioritised) # 0
    BY <2>1, QueuedFinite, FS_CardinalityType, FS_EmptySet, Zenon
  <2>4. waiting_clients = Cardinality(Anonymous) /\ waiting_priority_clients = Cardinality(Prioritised)
    BY DEF QueueAccounting, Anonymous, Prioritised
  <2>5. waiting_priority_clients' = waiting_priority_clients - 1 /\ UNCHANGED waiting_clients
    BY <1>3, <2>3, <2>4 DEF Dequeue, Decremented
  <2>6. /\ waiting_clients' = Cardinality(Anonymous')
        /\ waiting_priority_clients' = Cardinality(Prioritised')
    BY <2>1, <2>2, <2>4, <2>5, Zenon
  <2> QED
    BY <2>6 DEF QueueAccounting, Anonymous, Prioritised
<1> QED
  BY <1>2, <1>3, Zenon

\* Every step keeps the two counters equal to the numbers of waiting handlers.
LEMMA QueueStep ==
    LeaseTypeOK /\ SleepersRegistered /\ QueueAccounting /\ [LeaseNext]_leaseVars
      => QueueAccounting'
<1> SUFFICES ASSUME LeaseTypeOK, SleepersRegistered, QueueAccounting, [LeaseNext]_leaseVars
             PROVE  QueueAccounting'
  BY Zenon
<1>1. ASSUME NEW c \in Conn, NEW t \in Token \cup {NoToken}, NEW target \in Target,
             HandleConnect(c, t, target)
      PROVE  QueueAccounting'
  BY <1>1, QueueFrame, Zenon DEF HandleConnect, LeaseTypeOK
<1>2. ASSUME NEW c \in Conn, TryAllocate(c)
      PROVE  QueueAccounting'
  BY <1>2, QueueFrame, Zenon DEF TryAllocate, LeaveWith, LeaseTypeOK
<1>3. ASSUME NEW c \in Conn, Enqueue(c)
      PROVE  QueueAccounting'
  BY <1>3, EnqueueAccounting, Zenon
<1>4. ASSUME NEW c \in Conn, Notified(c)
      PROVE  QueueAccounting'
  BY <1>4, QueueFrame, Zenon DEF Notified, LeaseTypeOK
<1>5. ASSUME NEW c \in Conn, Dequeue(c)
      PROVE  QueueAccounting'
  BY <1>5, DequeueAccounting
<1>6. ASSUME NEW r \in Releaser, (\E p \in Ports : Release(r, p)) \/ CleanupStep(r)
      PROVE  QueueAccounting'
  BY <1>6, QueueFrame, Zenon DEF Release, CleanupStep
<1>7. ASSUME NotifyOne, UNCHANGED <<waiting_clients, waiting_priority_clients, token>>
      PROVE  QueueAccounting'
  BY <1>7, NotifyOneWakesSleeper, QueueFrame, Zenon
<1>8. ASSUME NEW r \in Releaser, ReleaseNotify(r)
      PROVE  QueueAccounting'
  BY <1>7, <1>8, Zenon DEF ReleaseNotify
<1>9. CASE UdpLoopNotify
  BY <1>7, <1>9, Zenon DEF UdpLoopNotify
<1>10. ASSUME NEW f \in AuthFiles \cup {Unreadable}, EditConfig(f)
       PROVE  QueueAccounting'
  BY <1>10, QueueFrame, Zenon DEF EditConfig
<1>11. CASE UNCHANGED leaseVars
  BY <1>11, QueueFrame, Zenon DEF leaseVars
<1> QED
  BY <1>1, <1>2, <1>3, <1>4, <1>5, <1>6, <1>8, <1>9, <1>10, <1>11, Zenon
     DEF LeaseNext, ConnectStep

\* The waiting counters always equal the handlers in the queue: no exit of
\* allocate_or_wait_for_port leaks a slot or returns one twice.
THEOREM QueueAccountingCorrect == LeaseSpec => []QueueAccounting
<1>1. LeaseInit => QueueAccounting
  <2> SUFFICES ASSUME LeaseInit PROVE QueueAccounting
    BY Zenon
  <2>1. Anonymous = {} /\ Prioritised = {}
    BY Zenon DEF LeaseInit, Anonymous, Prioritised, Queued
  <2>2. Cardinality(Anonymous) = 0 /\ Cardinality(Prioritised) = 0
    BY <2>1, FS_EmptySet, Zenon
  <2>3. waiting_clients = 0 /\ waiting_priority_clients = 0
    BY Zenon DEF LeaseInit
  <2> QED
    BY <2>2, <2>3, Zenon DEF QueueAccounting, Anonymous, Prioritised
<1> QED
  BY <1>1, LeaseTypeCorrect, SleepersCorrect, QueueStep, PTL DEF LeaseSpec

\* The lease side of the relay is sound for any number of ports, tokens and handlers: every
\* conjunct of LeaseSound at once.
THEOREM LeaseSoundCorrect == LeaseSpec => []LeaseSound
  BY LeaseTypeCorrect, SleepersCorrect, LeaseConsistentCorrect, OneRelayCorrect,
     QueueAccountingCorrect, PTL DEF LeaseSound

-----------------------------------------------------------------------------
(* Who was given a port: what RelayTcp and RelayUdp build on.              *)

\* Exactly the handlers that were told OK have a port, and they are past the queue; a RELEASE
\* under way knows its port.
PortsTold ==
    /\ \A c \in Conn : port[c] # NoPort <=> reply[c] = "OK"
    /\ \A c \in Conn : reply[c] = "OK" => pc[c] \in {"dequeue", "done"}
    /\ \A r \in Releaser : release_pc[r] # "idle" => release_port[r] \in Ports

\* A step of a CONNECT handler leaves the leases alone, or is the grant of a free port to a
\* handler that had none.
LEMMA ConnectEffect ==
    ASSUME LeaseTypeOK, PortsTold, NEW c \in Conn, ConnectStep(c)
    PROVE  /\ UNCHANGED <<release_pc, release_port>>
           /\ \A d \in Conn : d # c => reply'[d] = reply[d] /\ pc'[d] = pc[d]
           /\ reply[c] = "OK" => reply'[c] = "OK" /\ pc'[c] \in {"dequeue", "done"}
           /\ \/ /\ UNCHANGED <<port_allocations, port>>
                 /\ reply'[c] = "OK" => reply[c] = "OK"
              \/ /\ reply'[c] = "OK" /\ pc'[c] \in {"dequeue", "done"} /\ port[c] = NoPort
                 /\ \E p \in Ports :
                       /\ port_allocations[p] = Free /\ port' = [port EXCEPT ![c] = p]
                       /\ port_allocations' = [port_allocations EXCEPT ![p] =
                                                  [token |-> token[c], client_addr |-> c]]
<1>1. ASSUME NEW t \in Token \cup {NoToken}, NEW target \in Target, HandleConnect(c, t, target)
      PROVE  /\ UNCHANGED <<release_pc, release_port, port_allocations, port>>
             /\ \A d \in Conn : d # c => reply'[d] = reply[d] /\ pc'[d] = pc[d]
             /\ reply[c] # "OK" /\ reply'[c] # "OK"
  <2>1. Refusal(t, target) # "OK"
    BY RefusalType, Zenon
  <2> QED
    BY <1>1, <2>1, Zenon DEF HandleConnect, LeaseTypeOK, PortsTold
<1>2. CASE TryAllocate(c)
  <2>1. /\ UNCHANGED <<release_pc, release_port>> /\ reply[c] # "OK" /\ port[c] = NoPort
        /\ pc[c] \in {"try", "retry"}
    BY <1>2, Zenon DEF TryAllocate, PortsTold
  <2>2. CASE LeaveWith(c, "TokenInUse") /\ UNCHANGED <<port_allocations, port>>
    BY <2>1, <2>2, Zenon DEF LeaveWith, LeaseTypeOK
  <2>3. CASE /\ \E p \in Candidates(c) :
                   /\ port_allocations' = [port_allocations EXCEPT ![p] =
                                              [token |-> token[c], client_addr |-> c]]
                   /\ port' = [port EXCEPT ![c] = p]
             /\ LeaveWith(c, "OK")
    BY <2>1, <2>3, Zenon DEF LeaveWith, Candidates, LeaseTypeOK
  <2>4. CASE UNCHANGED <<port_allocations, reply, port>>
    BY <1>2, <2>1, <2>4, Zenon DEF TryAllocate, LeaveWith, LeaseTypeOK
  <2> QED
    BY <1>2, <2>2, <2>3, <2>4, Zenon DEF TryAllocate
<1>3. CASE Enqueue(c)
  BY <1>3, Zenon DEF Enqueue, LeaseTypeOK, PortsTold
<1>4. CASE Notified(c)
  BY <1>4, Zenon DEF Notified, LeaseTypeOK, PortsTold
<1>5. CASE Dequeue(c)
  BY <1>5, Zenon DEF Dequeue, LeaseTypeOK, PortsTold
<1> QED
  BY <1>1, <1>2, <1>3, <1>4, <1>5, Zenon DEF ConnectStep

\* Every step leaves a client that was told a port with that port.
LEMMA PortsToldStep ==
    LeaseTypeOK /\ SleepersRegistered /\ PortsTold /\ [LeaseNext]_leaseVars => PortsTold'
<1> SUFFICES ASSUME LeaseTypeOK, SleepersRegistered, PortsTold, [LeaseNext]_leaseVars
             PROVE  PortsTold'
  BY Zenon
<1>1. ASSUME NEW c \in Conn, ConnectStep(c) PROVE PortsTold'
  <2>1. \A d \in Conn : port'[d] # NoPort <=> reply'[d] = "OK"
    BY <1>1, ConnectEffect, PortLeaseAssumption DEF PortsTold, LeaseTypeOK, Ports
  <2>2. \A d \in Conn : reply'[d] = "OK" => pc'[d] \in {"dequeue", "done"}
    BY <1>1, ConnectEffect, Zenon DEF PortsTold
  <2>3. UNCHANGED <<release_pc, release_port>>
    BY <1>1, ConnectEffect, Zenon
  <2> QED
    BY <2>1, <2>2, <2>3, Zenon DEF PortsTold
<1>2. ASSUME NEW r \in Releaser, NEW p \in Ports, Release(r, p) PROVE PortsTold'
  BY <1>2, Zenon DEF Release, PortsTold, LeaseTypeOK
<1>3. ASSUME NEW r \in Releaser, CleanupStep(r) PROVE PortsTold'
  BY <1>3, Zenon DEF CleanupStep, PortsTold, LeaseTypeOK
<1>4. ASSUME NotifyOne, UNCHANGED <<reply, port>>,
             \A r \in Releaser : release_pc'[r] # "idle" => release_port'[r] \in Ports
      PROVE  PortsTold'
  BY <1>4, NotifyOneWakesSleeper, Zenon DEF PortsTold
<1>5. ASSUME NEW r \in Releaser, ReleaseNotify(r) PROVE PortsTold'
  BY <1>4, <1>5, Zenon DEF ReleaseNotify, PortsTold, LeaseTypeOK
<1>6. CASE UdpLoopNotify
  BY <1>4, <1>6, Zenon DEF UdpLoopNotify, PortsTold
<1>7. ASSUME NEW f \in AuthFiles \cup {Unreadable}, EditConfig(f) PROVE PortsTold'
  BY <1>7, Zenon DEF EditConfig, PortsTold
<1>8. CASE UNCHANGED leaseVars
  BY <1>8, Zenon DEF leaseVars, PortsTold
<1> QED
  BY <1>1, <1>2, <1>3, <1>5, <1>6, <1>7, <1>8, Zenon DEF LeaseNext

\* A handler has a port when it was told OK, and never before; so RELEASE and the tasks of a
\* lease always find the port they were started for.
THEOREM PortsToldCorrect == LeaseSpec => []PortsTold
<1>1. LeaseInit => PortsTold
  BY Zenon DEF LeaseInit, PortsTold
<1> QED
  BY <1>1, LeaseTypeCorrect, SleepersCorrect, PortsToldStep, PTL DEF LeaseSpec

\* A handler that was given a port keeps it: a RELEASE frees the port in the table only.
LEMMA PortKept ==
    ASSUME LeaseTypeOK, PortsTold, [LeaseNext]_leaseVars
    PROVE  \A d \in Conn : port[d] \in Ports => port'[d] = port[d]
<1>0. NoPort \notin Ports
  BY PortLeaseAssumption DEF Ports
<1>1. ASSUME NEW c \in Conn, ConnectStep(c)
      PROVE  \A d \in Conn : port[d] \in Ports => port'[d] = port[d]
  <2>1. \/ UNCHANGED port
        \/ port[c] = NoPort /\ \E p \in Ports : port' = [port EXCEPT ![c] = p]
    BY <1>1, ConnectEffect, Zenon
  <2> QED
    BY <1>0, <2>1, Zenon DEF LeaseTypeOK
<1>2. ASSUME NEW r \in Releaser, \/ \E p \in Ports : Release(r, p)
                                \/ CleanupStep(r) \/ ReleaseNotify(r)
      PROVE  UNCHANGED port
  BY <1>2, Zenon DEF Release, CleanupStep, ReleaseNotify
<1>3. CASE UdpLoopNotify \/ \E f \in AuthFiles \cup {Unreadable} : EditConfig(f)
  BY <1>3, Zenon DEF UdpLoopNotify, EditConfig
<1>4. CASE UNCHANGED leaseVars
  BY <1>4, Zenon DEF leaseVars
<1> QED
  BY <1>1, <1>2, <1>3, <1>4, Zenon DEF LeaseNext

\* A handler that was given a port is not given it again: who holds a lease after a step,
\* and had a port before, held it before.
LEMMA HolderKept ==
    ASSUME LeaseTypeOK, PortsTold, [LeaseNext]_leaseVars, NEW c \in Conn, port[c] \in Ports,
           port_allocations'[port[c]] # Free, port_allocations'[port[c]].client_addr = c
    PROVE  port_allocations[port[c]] # Free /\ port_allocations[port[c]].client_addr = c
<1>1. ASSUME NEW e \in Conn, NEW p \in Candidates(e), TryAllocate(e),
             port_allocations' = [port_allocations EXCEPT ![p] =
                                     [token |-> token[e], client_addr |-> e]]
      PROVE  port_allocations'[port[c]] = port_allocations[port[c]]
  <2>1. e # c /\ p \in Ports
    BY <1>1, PortLeaseAssumption DEF TryAllocate, PortsTold, Candidates, Ports
  <2> QED
    BY <1>1, <2>1, Zenon DEF LeaseTypeOK
<1>2. ASSUME NEW p \in Ports, port_allocations' = [port_allocations EXCEPT ![p] = Free]
      PROVE  port_allocations'[port[c]] = port_allocations[port[c]]
  BY <1>2, Zenon DEF LeaseTypeOK
<1> QED
  BY <1>1, <1>2, TableStep, Zenon

-----------------------------------------------------------------------------
(* The handlers implement the lease table.                                 *)

\* What the mapping shows of a port: Free exactly when the table has no entry.
LEMMA ViewOfPort ==
    ASSUME LeaseTypeOK, NEW p \in Ports
    PROVE  /\ port_allocations[p] = Free => LeaseView[p] = Free
           /\ port_allocations[p] # Free =>
                /\ LeaseView[p] = [token      |-> port_allocations[p].token,
                                   fixed_port |-> fixed_port[port_allocations[p].client_addr]]
                /\ LeaseView[p] \in Leases!Holder
                /\ LeaseView[p] # Free
<1>1. CASE port_allocations[p] = Free
  BY <1>1, Zenon DEF LeaseView
<1>2. CASE port_allocations[p] # Free
  <2>1. port_allocations[p].token \in Token \cup {NoToken} /\ port_allocations[p].client_addr \in Conn
    BY <1>2, Zenon DEF LeaseTypeOK, Allocation
  <2>2. LeaseView[p] = [token      |-> port_allocations[p].token,
                        fixed_port |-> fixed_port[port_allocations[p].client_addr]]
    BY <1>2, Zenon DEF LeaseView
  <2>3. fixed_port[port_allocations[p].client_addr] \in Ports \cup {NoPort}
    BY <2>1, Zenon DEF LeaseTypeOK
  <2> QED
    BY <1>2, <2>1, <2>2, <2>3, PortLeaseAssumption DEF Leases!Holder
<1> QED
  BY <1>1, <1>2, Zenon

\* Neither the table nor a holder's pinned port changes: the view does not either.
LEMMA ViewFrame ==
    ASSUME LeaseTypeOK, LeaseConsistent, [LeaseNext]_leaseVars
    PROVE  \A p \in Ports : port_allocations[p] # Free =>
               fixed_port'[port_allocations[p].client_addr]
                 = fixed_port[port_allocations[p].client_addr]
<1> SUFFICES ASSUME NEW p \in Ports, port_allocations[p] # Free
             PROVE  fixed_port'[port_allocations[p].client_addr]
                      = fixed_port[port_allocations[p].client_addr]
  BY Zenon
<1> DEFINE h == port_allocations[p].client_addr
<1>1. h \in Conn /\ pc[h] \in {"dequeue", "done"}
  BY DEF LeaseTypeOK, Allocation, LeaseConsistent
<1>2. CASE fixed_port' = fixed_port
  BY <1>2, Zenon
<1>3. ASSUME NEW c \in Conn, NEW t \in Token \cup {NoToken}, NEW target \in Target,
             HandleConnect(c, t, target)
      PROVE  fixed_port'[h] = fixed_port[h]
  <2>1. c # h
    BY <1>1, <1>3, Zenon DEF HandleConnect
  <2> QED
    BY <1>1, <1>3, <2>1, Zenon DEF HandleConnect, LeaseTypeOK
<1>4. ASSUME NEW c \in Conn, TryAllocate(c) \/ Enqueue(c) \/ Notified(c) \/ Dequeue(c)
      PROVE  fixed_port' = fixed_port
  BY <1>4, Zenon DEF TryAllocate, Enqueue, Notified, Dequeue
<1>5. ASSUME NEW r \in Releaser,
             (\E q \in Ports : Release(r, q)) \/ CleanupStep(r) \/ ReleaseNotify(r)
      PROVE  fixed_port' = fixed_port
  BY <1>5, Zenon DEF Release, CleanupStep, ReleaseNotify
<1>6. ASSUME \/ UdpLoopNotify \/ UNCHANGED leaseVars
             \/ \E f \in AuthFiles \cup {Unreadable} : EditConfig(f)
      PROVE  fixed_port' = fixed_port
  BY <1>6, Zenon DEF UdpLoopNotify, leaseVars, EditConfig
<1> QED
  BY <1>2, <1>3, <1>4, <1>5, <1>6, Zenon DEF LeaseNext, ConnectStep

\* Every step of the relay is a step of the lease table, or changes no lease.
LEMMA RefinementStep ==
    LeaseTypeOK /\ LeaseTypeOK' /\ LeaseConsistent /\ [LeaseNext]_leaseVars
      => [Leases!Next]_LeaseView
<1> SUFFICES ASSUME LeaseTypeOK, LeaseTypeOK', LeaseConsistent, [LeaseNext]_leaseVars
             PROVE  Leases!Next \/ LeaseView' = LeaseView
  BY Zenon
<1>0. \A p \in Ports : (port_allocations[p] # Free /\ port_allocations'[p] = port_allocations[p])
                          => LeaseView'[p] = LeaseView[p]
  BY ViewFrame, Zenon DEF LeaseView
<1>v. /\ LeaseView = [p \in Ports |-> LeaseView[p]]
      /\ LeaseView' = [p \in Ports |-> LeaseView'[p]]
  BY Zenon DEF LeaseView
<1>f. \A p \in Ports : (port_allocations[p] = Free /\ port_allocations'[p] = Free)
                          => LeaseView'[p] = LeaseView[p]
  BY Zenon DEF LeaseView
<1>1. CASE port_allocations' = port_allocations
  <2>1. \A p \in Ports : LeaseView'[p] = LeaseView[p]
    BY <1>0, <1>1, <1>f, Zenon
  <2> QED
    BY <2>1, <1>v, Zenon
<1>2. ASSUME NEW c \in Conn, NEW p \in Candidates(c), TryAllocate(c), ~TokenInUse(c),
             port_allocations' = [port_allocations EXCEPT ![p] =
                                     [token |-> token[c], client_addr |-> c]]
      PROVE  Leases!Next
  <2>1. p \in Ports /\ port_allocations[p] = Free /\ fixed_port[c] \in {NoPort, p}
    BY Zenon DEF Candidates
  <2>2. fixed_port' = fixed_port
    BY <1>2, Zenon DEF TryAllocate
  <2> DEFINE h == [token |-> token[c], fixed_port |-> fixed_port[c]]
  <2>3. h \in Leases!Holder
    BY Zenon DEF Leases!Holder, LeaseTypeOK
  <2>4. port_allocations'[p] = [token |-> token[c], client_addr |-> c]
    BY <1>2, <2>1, Zenon DEF LeaseTypeOK
  <2>5. LeaseView[p] = Free
    BY <2>1, ViewOfPort, Zenon
  <2>6. port_allocations'[p] # Free
    <3>1. [token |-> token[c], client_addr |-> c] \in Allocation
      BY Zenon DEF Allocation, LeaseTypeOK
    <3> QED
      BY <2>4, <3>1, PortLeaseAssumption, Zenon
  <2>7. LeaseView'[p] = h
    BY <2>1, <2>2, <2>4, <2>6 DEF LeaseView
  <2>8. \A q \in Ports : q # p => port_allocations'[q] = port_allocations[q]
    BY <1>2, <2>1, Zenon DEF LeaseTypeOK
  <2>9. \A q \in Ports : q # p => LeaseView'[q] = LeaseView[q]
    BY <1>0, <1>f, <2>8, Zenon
  <2>10. LeaseView' = [LeaseView EXCEPT ![p] = h]
    BY <1>v, <2>1, <2>7, <2>9, Zenon
  <2>11. token[c] = NoToken \/ \A q \in Ports : LeaseView[q] # Free => LeaseView[q].token # token[c]
    <3>1. token[c] = NoToken \/ \A q \in Ports :
              port_allocations[q] # Free => port_allocations[q].token # token[c]
      BY <1>2, Zenon DEF TokenInUse, Priority
    <3>2. ASSUME NEW q \in Ports, LeaseView[q] # Free
          PROVE  port_allocations[q] # Free /\ LeaseView[q].token = port_allocations[q].token
      BY <3>2, Zenon DEF LeaseView
    <3> QED
      BY <3>1, <3>2, Zenon
  <2>12. Leases!Grant(p, h)
    BY <2>1, <2>5, <2>10, <2>11, Zenon DEF Leases!Grant
  <2> QED
    BY <2>1, <2>3, <2>12, Zenon DEF Leases!Next
<1>3. ASSUME NEW p \in Ports, port_allocations[p] # Free,
             port_allocations' = [port_allocations EXCEPT ![p] = Free]
      PROVE  Leases!Next
  <2>1. LeaseView[p] # Free
    BY <1>3, ViewOfPort, Zenon
  <2>2. port_allocations'[p] = Free
    BY <1>3, Zenon DEF LeaseTypeOK
  <2>3. LeaseView'[p] = Free
    BY <2>2, Zenon DEF LeaseView
  <2>4. \A q \in Ports : q # p => port_allocations'[q] = port_allocations[q]
    BY <1>3, Zenon DEF LeaseTypeOK
  <2>5. \A q \in Ports : q # p => LeaseView'[q] = LeaseView[q]
    BY <1>0, <1>f, <2>4, Zenon
  <2>6. LeaseView' = [LeaseView EXCEPT ![p] = Free]
    BY <1>v, <2>3, <2>5, Zenon
  <2> QED
    BY <2>1, <2>6, Zenon DEF Leases!Next, Leases!Release
<1> QED
  BY <1>1, <1>2, <1>3, TableStep, Zenon

\* The CONNECT and RELEASE handlers implement the abstract lease table.
THEOREM LeaseTableImplemented == LeaseSpec => ImplementsLeaseTable
<1>1. LeaseInit => Leases!Init
  BY DEF LeaseInit, Leases!Init, LeaseView
<1> QED
  BY <1>1, LeaseTypeCorrect, LeaseConsistentCorrect, RefinementStep, PTL
     DEF LeaseSpec, ImplementsLeaseTable, Leases!Spec
=============================================================================
