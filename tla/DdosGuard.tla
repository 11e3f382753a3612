------------------------------ MODULE DdosGuard ------------------------------
(***************************************************************************)
(* The DDoS guard of the proxy (ddos_guard.rs of src/src): per remote      *)
(* address, connections at a time, three token buckets, violations and a   *)
(* temporary block, in a map behind one mutex from which every call first  *)
(* removes the idle addresses.  A permit is held by the task of a TCP or   *)
(* HTTP/3 connection (tcp.rs, http3.rs) and counted out when that task     *)
(* ends, however it ends.                                                  *)
(*                                                                         *)
(* The guard is enabled; otherwise it does nothing.  Instants are ages in  *)
(* ticks that stop counting where the code no longer tells the difference. *)
(* A last_violation of None is one older than VIOLATION_DECAY_AFTER.       *)
(***************************************************************************)
EXTENDS Common, FiniteSets

CONSTANTS
    Source,         \* remote addresses
    Permit,         \* permits that can be held at once (bound)
    MaxActive,      \* tcp_max_active_per_ip
    Rate, Burst,    \* of each bucket
    MaxDatagram,    \* udp_max_datagram_bytes
    Size,           \* sizes of datagrams
    DecayAfter,     \* VIOLATION_DECAY_AFTER
    TempBlockAfter, \* TEMP_BLOCK_AFTER_VIOLATIONS
    TempBlockBase,  \* TEMP_BLOCK_BASE
    TempBlockMax,   \* TEMP_BLOCK_MAX
    Retention       \* IDLE_STATE_RETENTION

Bucket == {"tcp", "packets", "bytes"}

\* Violations beyond this number no longer lengthen a block.
MaxViolations == TempBlockAfter + TempBlockMax

\* The ages are those of the last refills, the last violation, and last_seen; block is the time
\* that a temporary block still lasts.
IpProtectionState ==
    [active : Nat, tokens : [Bucket -> Nat], refill : [Bucket -> 0 .. Retention],
     violations : 0 .. MaxViolations, violation : 0 .. DecayAfter + 1,
     block : 0 .. TempBlockMax, seen : 0 .. Retention]

\* The constants of the code and the defaults of DdosGuardSettings satisfy these; the last one
\* is what a configuration with a slow refill and a large burst would break.
ASSUME DdosGuardAssumption ==
    /\ MaxActive \in Nat /\ MaxDatagram \in Nat /\ Size \subseteq Nat
    /\ Rate \in [Bucket -> Nat] /\ Burst \in [Bucket -> Nat]
    /\ {DecayAfter, TempBlockMax} \subseteq Nat /\ {TempBlockAfter, TempBlockBase} \subseteq Nat \ {0}
    /\ Retention \in Nat /\ Retention > DecayAfter
    /\ IsFiniteSet(Permit) /\ None \notin Source /\ None \notin IpProtectionState
    /\ \A b \in Bucket : Retention * Rate[b] >= Burst[b]

VARIABLES
    states,     \* inner: the state of each address in the map
    permits     \* the address for which each permit is held

guardVars == <<states, permits>>

\* IpProtectionState::new
FreshState ==
    [active |-> 0, tokens |-> Burst, refill |-> [b \in Bucket |-> 0],
     violations |-> 0, violation |-> DecayAfter + 1, block |-> 0, seen |-> 0]

GuardInit == states = [a \in Source |-> None] /\ permits = [p \in Permit |-> None]

-----------------------------------------------------------------------------
(* The state of an address.                                                *)

Available(st, b) == LeastOf(st.tokens[b] + st.refill[b] * Rate[b], Burst[b])

\* TokenBucket::consume: the refill takes place also when the tokens do not suffice.
consume(st, b, amount) ==
    LET tokens == Available(st, b) IN
    [st EXCEPT !.refill[b] = 0,
               !.tokens[b] = IF tokens < amount THEN tokens ELSE tokens - amount]

record_violation(st) ==
    LET v == Up(IF st.violation > DecayAfter THEN 0 ELSE st.violations, MaxViolations) IN
    [st EXCEPT !.violations = v, !.violation = 0, !.seen = 0,
               !.block = IF v >= TempBlockAfter
                         THEN LeastOf(TempBlockBase * (v - TempBlockAfter + 1), TempBlockMax) ELSE @]

Seen(st) == [st EXCEPT !.seen = 0]

Retained_unlessIdle(st) == st.block > 0 \/ st.seen < Retention
Retained_shortly(st) == st.active > 0 \/ st.block > 0 \/ st.seen < DecayAfter

Retained(st) == st.active > 0 \/ st.block > 0 \/ st.seen < Retention

prune_idle_states ==
    [a \in Source |-> IF states[a] # None /\ Retained(states[a]) THEN states[a] ELSE None]

\* The state a call works on, and the map it leaves.
StateOf(a) == IF prune_idle_states[a] = None THEN FreshState ELSE prune_idle_states[a]
Store(a, st) == states' = [prune_idle_states EXCEPT ![a] = st]

-----------------------------------------------------------------------------
(* tcp_connection_opened, udp_datagram_allowed, and the end of a permit.    *)

RefuseBlocked(a) ==
    /\ StateOf(a).block > 0
    /\ Store(a, Seen(StateOf(a))) /\ UNCHANGED permits

RefuseConnection(a) ==
    LET st == StateOf(a) IN
    /\ st.block = 0
    /\ \/ st.active >= MaxActive /\ Store(a, record_violation(st))
       \/ /\ st.active < MaxActive /\ Available(st, "tcp") < 1
          /\ Store(a, record_violation(consume(st, "tcp", 1)))
    /\ UNCHANGED permits

tcp_connection_opened(a, p) ==
    LET st == StateOf(a) IN
    /\ permits[p] = None
    /\ st.block = 0 /\ st.active < MaxActive /\ Available(st, "tcp") >= 1
    /\ Store(a, Seen([consume(st, "tcp", 1) EXCEPT !.active = @ + 1]))
    /\ permits' = [permits EXCEPT ![p] = a]

RefuseDatagram(a, n) ==
    LET st == StateOf(a) IN
    /\ st.block = 0
    /\ \/ n > MaxDatagram /\ Store(a, record_violation(st))
       \/ /\ n <= MaxDatagram /\ Available(st, "packets") < 1
          /\ Store(a, record_violation(consume(st, "packets", 1)))
       \/ /\ n <= MaxDatagram /\ Available(st, "packets") >= 1 /\ Available(st, "bytes") < n
          /\ Store(a, record_violation(consume(consume(st, "packets", 1), "bytes", n)))
    /\ UNCHANGED permits

udp_datagram_allowed(a, n) ==
    LET st == StateOf(a) IN
    /\ st.block = 0 /\ n <= MaxDatagram
    /\ Available(st, "packets") >= 1 /\ Available(st, "bytes") >= n
    /\ Store(a, Seen(consume(consume(st, "packets", 1), "bytes", n)))
    /\ UNCHANGED permits

Left(st) == Seen([st EXCEPT !.active = Down(@)])

tcp_connection_closed(p) ==
    LET a == permits[p] IN
    /\ a # None
    /\ states' = [states EXCEPT ![a] = IF @ = None THEN None ELSE Left(@)]
    /\ permits' = [permits EXCEPT ![p] = None]

Aged(st) ==
    [st EXCEPT !.refill = [b \in Bucket |-> Up(@[b], Retention)],
               !.violation = Up(@, DecayAfter + 1), !.block = Down(@), !.seen = Up(@, Retention)]

GuardTick ==
    /\ states' = [a \in Source |-> IF states[a] = None THEN None ELSE Aged(states[a])]
    /\ UNCHANGED permits

GuardNext ==
    \/ GuardTick
    \/ \E a \in Source :
           \/ RefuseBlocked(a) \/ RefuseConnection(a)
           \/ \E p \in Permit : tcp_connection_opened(a, p)
           \/ \E n \in Size : RefuseDatagram(a, n) \/ udp_datagram_allowed(a, n)
    \/ \E p \in Permit : tcp_connection_closed(p)

GuardSpec == GuardInit /\ [][GuardNext]_guardVars

-----------------------------------------------------------------------------
(* Properties.                                                             *)

\* Every variable has its type.
GuardTypeOK ==
    /\ states \in [Source -> IpProtectionState \cup {None}]
    /\ permits \in [Permit -> Source \cup {None}]

Held(a) == {p \in Permit : permits[p] = a}

\* The connections counted for an address are those that hold a permit, and no more than
\* allowed, although the state of the address may be removed and made again while tasks end
\* at any time: no count is lost with a state, and none is taken off twice.
PermitsCounted ==
    \A a \in Source :
        /\ (IF states[a] = None THEN 0 ELSE states[a].active) = Cardinality(Held(a))
        /\ Cardinality(Held(a)) <= MaxActive

\* The guard is sound: the types, and the counts.
GuardSound == GuardTypeOK /\ PermitsCounted

\* The refinement mapping: what the next call will make of a state.
Effective(st) ==
    LET strikes == IF st.violation > DecayAfter THEN 0 ELSE st.violations IN
    [active  |-> st.active, level |-> [b \in Bucket |-> Available(st, b)],
     strikes |-> strikes, calm |-> IF strikes = 0 THEN 0 ELSE st.violation, block |-> st.block]

Promise ==
    INSTANCE AddressLimits WITH
        limits <- [a \in Source |-> Effective(IF states[a] = None THEN FreshState ELSE states[a])]

\* Removing idle addresses saves memory and nothing else: a call is let through, refused as a
\* violation or refused as blocked exactly where a guard that keeps every address for ever
\* (AddressLimits) would do so, and leaves the same levels, strikes and blocks, since by
\* IDLE_STATE_RETENTION the buckets are full, the violations forgiven and the blocks over.
\* This needs every bucket to refill within that time (DdosGuardAssumption).
ForgetsNothing == Promise!Spec
=============================================================================
