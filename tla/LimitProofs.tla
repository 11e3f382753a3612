----------------------------- MODULE LimitProofs ----------------------------
(***************************************************************************)
(* Two guards that count what clients do, for any number of clients and    *)
(* any limits that satisfy the assumptions of their modules.               *)
(*                                                                         *)
(* The DDoS guard of the proxy: to the types and counts the inductive      *)
(* invariant adds how the ages of a state are related (AgesOrdered):       *)
(* whatever lowers a bucket or counts a violation also sets last_seen, so  *)
(* by the time last_seen is old enough for removal, the buckets are full   *)
(* and the violations forgiven.                                            *)
(*                                                                         *)
(* The gate of the web GUI: what passed since the last tick was drawn from *)
(* one bucket, and blocks and lock-outs last as long as what caused them   *)
(* counts (BucketDrawn, BlockCounts, LockOutlastsWindow).                  *)
(***************************************************************************)
EXTENDS DdosGuard, GuiGate, FiniteSetTheorems, TLAPS

AgesOrdered(st) ==
    /\ \A b \in Bucket : st.seen <= st.refill[b]
    /\ st.seen <= st.violation \/ st.violation = DecayAfter + 1

GuardInv ==
    /\ GuardSound
    /\ \A a \in Source : states[a] # None => AgesOrdered(states[a])

\* What counts for a call, of a state in the map or of none.
Count(x) == IF x = None THEN 0 ELSE x.active
View(x) == Effective(IF x = None THEN FreshState ELSE x)

-----------------------------------------------------------------------------
(* The operations on the state of one address.                             *)

\* What refill makes of a bucket is a natural number, and no more than its burst.
LEMMA AvailableType ==
    ASSUME NEW st \in IpProtectionState, NEW b \in Bucket
    PROVE  Available(st, b) \in Nat /\ Available(st, b) <= Burst[b]
<1>1. st.tokens[b] \in Nat /\ st.refill[b] \in Nat /\ Rate[b] \in Nat /\ Burst[b] \in Nat
  BY DdosGuardAssumption DEF IpProtectionState
<1>2. st.refill[b] * Rate[b] \in Nat
  BY <1>1
<1> QED
  BY <1>1, <1>2 DEF Available, LeastOf

\* A new state is one, and its buckets are full.
LEMMA FreshStateType ==
    /\ FreshState \in IpProtectionState /\ AgesOrdered(FreshState)
    /\ \A b \in Bucket : Available(FreshState, b) = Burst[b]
<1>1. FreshState \in IpProtectionState
  BY DdosGuardAssumption DEF FreshState, IpProtectionState, MaxViolations
<1>2. AgesOrdered(FreshState)
  BY DdosGuardAssumption DEF FreshState, AgesOrdered
<1>3. ASSUME NEW b \in Bucket PROVE Available(FreshState, b) = Burst[b]
  BY DdosGuardAssumption DEF FreshState, Available, LeastOf
<1> QED
  BY <1>1, <1>2, <1>3, Zenon

\* consume takes from one bucket what is there, or nothing, and leaves everything else.
LEMMA ConsumeBucket ==
    ASSUME NEW st \in IpProtectionState, NEW b \in Bucket, NEW n \in Nat
    PROVE  /\ consume(st, b, n) \in IpProtectionState
           /\ \A c \in Bucket : Available(consume(st, b, n), c) =
                  IF c = b /\ Available(st, b) >= n THEN Available(st, b) - n ELSE Available(st, c)
           /\ \A f \in {"active", "violations", "violation", "block", "seen"} :
                  consume(st, b, n)[f] = st[f]
<1> DEFINE level == Available(st, b)
           left == IF level < n THEN level ELSE level - n
           new == consume(st, b, n)
<1>1. level \in Nat /\ level <= Burst[b] /\ left \in Nat /\ left <= Burst[b]
  <2>1. level \in Nat /\ level <= Burst[b]
    BY AvailableType, Zenon
  <2> HIDE DEF level
  <2> QED
    BY <2>1, DdosGuardAssumption
<1>2. new = [st EXCEPT !.refill[b] = 0, !.tokens[b] = left]
  BY Zenon DEF consume
<1>3. new \in IpProtectionState
  <2>1. [st.tokens EXCEPT ![b] = left] \in [Bucket -> Nat]
    BY <1>1, Zenon DEF IpProtectionState
  <2>2. [st.refill EXCEPT ![b] = 0] \in [Bucket -> 0 .. Retention]
    BY DdosGuardAssumption DEF IpProtectionState
  <2> HIDE DEF left, new
  <2> QED
    BY <1>2, <2>1, <2>2, Zenon DEF IpProtectionState
<1>4. /\ new.tokens = [st.tokens EXCEPT ![b] = left]
      /\ new.refill = [st.refill EXCEPT ![b] = 0]
      /\ \A f \in {"active", "violations", "violation", "block", "seen"} : new[f] = st[f]
  <2> HIDE DEF left, new
  <2> QED
    BY <1>2, Zenon DEF IpProtectionState
<1>5. ASSUME NEW c \in Bucket, c # b PROVE Available(new, c) = Available(st, c)
  <2> HIDE DEF new, left
  <2> QED
    BY <1>4, <1>5, Zenon DEF Available, IpProtectionState
<1>6. Available(new, b) = left
  <2> HIDE DEF new, left
  <2>1. new.tokens[b] = left /\ new.refill[b] = 0
    BY <1>4, DdosGuardAssumption, Zenon DEF IpProtectionState
  <2>2. Rate[b] \in Nat /\ Burst[b] \in Nat
    BY DdosGuardAssumption, Zenon
  <2> QED
    BY <1>1, <2>1, <2>2 DEF Available, LeastOf
<1> QED
  <2>1. left = IF level >= n THEN level - n ELSE level
    <3> HIDE DEF level
    <3> QED
      BY <1>1
  <2> HIDE DEF left
  <2> QED
    BY <1>3, <1>4, <1>5, <1>6, <2>1, Zenon

\* record_violation is one more strike.
LEMMA RecordViolation ==
    ASSUME NEW st \in IpProtectionState, st.block = 0
    PROVE  /\ record_violation(st) \in IpProtectionState /\ AgesOrdered(record_violation(st))
           /\ record_violation(st).active = st.active
           /\ Effective(record_violation(st)) = Promise!Struck(Effective(st))
<1> DEFINE strikes == IF st.violation > DecayAfter THEN 0 ELSE st.violations
           v == LeastOf(strikes + 1, MaxViolations)
           block == IF v >= TempBlockAfter
                    THEN LeastOf(TempBlockBase * (v - TempBlockAfter + 1), TempBlockMax) ELSE 0
           new == record_violation(st)
           level == [b \in Bucket |-> Available(st, b)]
           calm == IF strikes = 0 THEN 0 ELSE st.violation
<1>1. /\ TempBlockAfter \in Nat \ {0} /\ TempBlockBase \in Nat \ {0} /\ TempBlockMax \in Nat
      /\ DecayAfter \in Nat /\ Retention \in Nat /\ MaxViolations \in Nat \ {0}
  BY DdosGuardAssumption DEF MaxViolations
<1>2. strikes \in Nat /\ v \in 0 .. MaxViolations /\ v # 0
  BY <1>1 DEF IpProtectionState, LeastOf
<1>3. block \in 0 .. TempBlockMax
  <2> HIDE DEF v
  <2>1. CASE v >= TempBlockAfter
    <3>1. TempBlockBase * (v - TempBlockAfter + 1) \in Nat
      <4>1. v - TempBlockAfter + 1 \in Nat
        BY <1>1, <1>2, <2>1
      <4> QED
        BY <1>1, <4>1
    <3> QED
      BY <1>1, <2>1, <3>1 DEF LeastOf
  <2>2. CASE ~(v >= TempBlockAfter)
    BY <1>1, <2>2
  <2> QED
    BY <2>1, <2>2, Zenon
<1>4. new = [st EXCEPT !.violations = v, !.violation = 0, !.seen = 0, !.block = block]
  BY Zenon DEF record_violation, Up
<1>5. Promise!Struck([active |-> st.active, level |-> level, strikes |-> strikes,
                      calm |-> calm, block |-> 0])
        = [active |-> st.active, level |-> level, strikes |-> v, calm |-> 0, block |-> block]
  <2>1. \A x, y : Promise!Least(x, y) = LeastOf(x, y)
    BY Zenon DEF Promise!Least, LeastOf
  <2> HIDE DEF strikes, level, calm
  <2> DEFINE before == [active |-> st.active, level |-> level, strikes |-> strikes,
                        calm |-> calm, block |-> 0]
  <2>2. Promise!Struck(before) = [before EXCEPT !.strikes = v, !.calm = 0, !.block = block]
    <3>1. before.strikes = strikes
      BY Zenon
    <3> HIDE DEF before
    <3> QED
      BY <2>1, <3>1, Zenon DEF Promise!Struck
  <2> HIDE DEF v, block
  <2> QED
    BY <2>2, Zenon
<1> HIDE DEF v, block, new, strikes, level, calm
<1>6. new \in IpProtectionState
  <2>1. 0 \in 0 .. DecayAfter + 1 /\ 0 \in 0 .. Retention
    BY <1>1
  <2> QED
    BY <1>2, <1>3, <1>4, <2>1, Zenon DEF IpProtectionState
<1>7. /\ new.active = st.active /\ new.tokens = st.tokens /\ new.refill = st.refill
      /\ new.violations = v /\ new.violation = 0 /\ new.seen = 0 /\ new.block = block
  BY <1>4, Zenon DEF IpProtectionState
<1>8. AgesOrdered(new)
  BY <1>7, <1>1 DEF AgesOrdered, IpProtectionState
<1>9. Effective(new) = [active |-> st.active, level |-> level, strikes |-> v, calm |-> 0,
                        block |-> block]
  <2>1. \A b \in Bucket : Available(new, b) = Available(st, b)
    BY <1>7, Zenon DEF Available
  <2> QED
    BY <1>1, <1>2, <1>7, <2>1 DEF Effective, level
<1>10. Effective(st) = [active |-> st.active, level |-> level, strikes |-> strikes,
                        calm |-> calm, block |-> 0]
  BY Zenon DEF Effective, strikes, level, calm
<1> QED
  BY <1>5, <1>6, <1>7, <1>8, <1>9, <1>10, Zenon DEF new

\* What consume means for the level of a bucket.
LEMMA ConsumeLowers ==
    ASSUME NEW st \in IpProtectionState, NEW b \in Bucket, NEW n \in Nat
    PROVE  Effective(consume(st, b, n)) =
               IF Available(st, b) >= n THEN [Effective(st) EXCEPT !.level[b] = @ - n]
                                        ELSE Effective(st)
<1> DEFINE new == consume(st, b, n)
           level == [c \in Bucket |-> Available(st, c)]
           lower == [level EXCEPT ![b] = @ - n]
           strikes == IF st.violation > DecayAfter THEN 0 ELSE st.violations
           calm == IF strikes = 0 THEN 0 ELSE st.violation
           Made(l) == [active |-> st.active, level |-> l, strikes |-> strikes, calm |-> calm,
                       block |-> st.block]
<1>1. /\ new.active = st.active /\ new.violations = st.violations
      /\ new.violation = st.violation /\ new.block = st.block
  BY ConsumeBucket, Zenon
<1>2. [c \in Bucket |-> Available(new, c)] = IF Available(st, b) >= n THEN lower ELSE level
  BY ConsumeBucket, Zenon
<1>3. Effective(new) = Made([c \in Bucket |-> Available(new, c)])
  <2> HIDE DEF new
  <2> QED
    BY <1>1, Zenon DEF Effective
<1>4. Effective(st) = Made(level)
  BY Zenon DEF Effective
<1>5. [Made(level) EXCEPT !.level[b] = @ - n] = Made(lower)
  <2> HIDE DEF level, strikes, calm
  <2> QED
    OBVIOUS
<1> HIDE DEF level, lower, Made
<1> QED
  BY <1>2, <1>3, <1>4, <1>5, Zenon

\* Setting last_seen changes nothing that counts.
LEMMA SeenNow ==
    ASSUME NEW st \in IpProtectionState
    PROVE  /\ Seen(st) \in IpProtectionState /\ AgesOrdered(Seen(st))
           /\ Seen(st).active = st.active /\ Effective(Seen(st)) = Effective(st)
<1>1. Seen(st) \in IpProtectionState
  BY DdosGuardAssumption DEF Seen, IpProtectionState
<1>2. /\ Seen(st).active = st.active /\ Seen(st).tokens = st.tokens /\ Seen(st).refill = st.refill
      /\ Seen(st).violations = st.violations /\ Seen(st).violation = st.violation
      /\ Seen(st).block = st.block /\ Seen(st).seen = 0
  BY Zenon DEF Seen, IpProtectionState
<1>3. AgesOrdered(Seen(st))
  BY <1>1, <1>2, DdosGuardAssumption DEF AgesOrdered, IpProtectionState
<1>4. \A b \in Bucket : Available(Seen(st), b) = Available(st, b)
  BY <1>2, Zenon DEF Available
<1> QED
  BY <1>1, <1>2, <1>3, <1>4, Zenon DEF Effective

\* A state that prune_idle_states removes counts as much as a new one.
LEMMA RemovedIsFresh ==
    ASSUME NEW st \in IpProtectionState, AgesOrdered(st), ~Retained(st)
    PROVE  st.active = 0 /\ Effective(st) = Effective(FreshState)
<1>1. st.active = 0 /\ st.block = 0 /\ st.seen = Retention
  BY DdosGuardAssumption DEF Retained, IpProtectionState
<1>2. st.violation = DecayAfter + 1
  BY <1>1, DdosGuardAssumption, SMTT(30) DEF AgesOrdered, IpProtectionState
<1>3. ASSUME NEW b \in Bucket PROVE Available(st, b) = Burst[b]
  <2>1. st.refill[b] = Retention
    BY <1>1, DdosGuardAssumption DEF AgesOrdered, IpProtectionState
  <2>2. st.tokens[b] \in Nat /\ Burst[b] \in Nat /\ Retention * Rate[b] \in Nat
    BY DdosGuardAssumption DEF IpProtectionState
  <2>3. Retention * Rate[b] >= Burst[b]
    BY DdosGuardAssumption, Zenon
  <2> QED
    BY <2>1, <2>2, <2>3 DEF Available, LeastOf
<1>4. \A b \in Bucket : Available(FreshState, b) = Burst[b]
  BY FreshStateType, Zenon
<1>5. Effective(st) = [active |-> 0, level |-> [b \in Bucket |-> Burst[b]],
                       strikes |-> 0, calm |-> 0, block |-> 0]
  BY <1>1, <1>2, <1>3, DdosGuardAssumption DEF Effective
<1>6. Effective(FreshState) = [active |-> 0, level |-> [b \in Bucket |-> Burst[b]],
                               strikes |-> 0, calm |-> 0, block |-> 0]
  <2>1. /\ FreshState.active = 0 /\ FreshState.violation = DecayAfter + 1
        /\ FreshState.block = 0
    BY Zenon DEF FreshState
  <2> QED
    BY <1>4, <2>1, DdosGuardAssumption DEF Effective
<1> QED
  BY <1>1, <1>5, <1>6, Zenon

\* A tick is a tick: the age of a bucket stands for what it refills, and is no longer counted
\* once the bucket is full.
LEMMA AgedRests ==
    ASSUME NEW st \in IpProtectionState, AgesOrdered(st)
    PROVE  /\ Aged(st) \in IpProtectionState /\ AgesOrdered(Aged(st))
           /\ Aged(st).active = st.active
           /\ Effective(Aged(st)) = Promise!Rested(Effective(st))
<1> DEFINE new == Aged(st)
<1>1. DecayAfter \in Nat /\ Retention \in Nat /\ Retention > DecayAfter /\ TempBlockMax \in Nat
  BY DdosGuardAssumption, Zenon
<1>2. /\ st.violation \in 0 .. DecayAfter + 1 /\ st.block \in 0 .. TempBlockMax
      /\ st.seen \in 0 .. Retention /\ st.refill \in [Bucket -> 0 .. Retention]
      /\ st.tokens \in [Bucket -> Nat] /\ st.violations \in Nat
  BY <1>1, DdosGuardAssumption DEF IpProtectionState, MaxViolations
<1>3. /\ Up(st.violation, DecayAfter + 1) \in 0 .. DecayAfter + 1
      /\ Down(st.block) \in 0 .. TempBlockMax /\ Up(st.seen, Retention) \in 0 .. Retention
      /\ [b \in Bucket |-> Up(st.refill[b], Retention)] \in [Bucket -> 0 .. Retention]
  BY <1>1, <1>2, SMTT(30) DEF Up, Down, LeastOf
<1>4. new \in IpProtectionState
  BY <1>3, Zenon DEF Aged, IpProtectionState
<1>5. /\ new.active = st.active /\ new.tokens = st.tokens /\ new.violations = st.violations
      /\ new.refill = [b \in Bucket |-> Up(st.refill[b], Retention)]
      /\ new.violation = Up(st.violation, DecayAfter + 1) /\ new.block = Down(st.block)
      /\ new.seen = Up(st.seen, Retention)
  BY Zenon DEF Aged, IpProtectionState
<1> HIDE DEF new
<1>6. AgesOrdered(new)
  BY <1>1, <1>2, <1>5 DEF AgesOrdered, Up, LeastOf
<1>7. ASSUME NEW b \in Bucket
      PROVE  Available(new, b) = LeastOf(Available(st, b) + Rate[b], Burst[b])
  <2>1. Rate[b] \in Nat /\ Burst[b] \in Nat /\ Retention * Rate[b] >= Burst[b]
    BY DdosGuardAssumption, Zenon
  <2>2. st.tokens[b] \in Nat /\ st.refill[b] \in 0 .. Retention
    BY <1>2, Zenon
  <2>3. st.refill[b] * Rate[b] \in Nat /\ Retention * Rate[b] \in Nat
    BY <1>1, <2>1, <2>2
  <2>4. CASE st.refill[b] = Retention
    <3>1. new.refill[b] = Retention
      BY <1>1, <1>5, <2>4 DEF Up, LeastOf
    <3> QED
      BY <1>5, <2>1, <2>2, <2>3, <2>4, <3>1 DEF Available, LeastOf
  <2>5. CASE st.refill[b] # Retention
    <3>1. new.refill[b] = st.refill[b] + 1
      BY <1>1, <1>5, <2>2, <2>5 DEF Up, LeastOf
    <3>2. (st.refill[b] + 1) * Rate[b] = st.refill[b] * Rate[b] + Rate[b]
      BY <1>1, <2>1, <2>2
    <3> QED
      BY <1>5, <2>1, <2>2, <2>3, <3>1, <3>2 DEF Available, LeastOf
  <2> QED
    BY <2>4, <2>5, Zenon
<1> DEFINE strikes == IF st.violation > DecayAfter THEN 0 ELSE st.violations
           forgiven == strikes = 0 \/ st.violation >= DecayAfter
           calm == IF strikes = 0 THEN 0 ELSE st.violation
           rested == [active |-> st.active,
                      level |-> [b \in Bucket |-> LeastOf(Available(st, b) + Rate[b], Burst[b])],
                      strikes |-> IF forgiven THEN 0 ELSE strikes,
                      calm |-> IF forgiven THEN 0 ELSE calm + 1,
                      block |-> Down(st.block)]
<1>8. Effective(new) = rested
  <2>1. (IF new.violation > DecayAfter THEN 0 ELSE new.violations)
          = (IF forgiven THEN 0 ELSE strikes)
    BY <1>1, <1>2, <1>5 DEF Up, LeastOf
  <2>2. ~forgiven => new.violation = calm + 1 /\ strikes # 0
    BY <1>1, <1>2, <1>5 DEF Up, LeastOf
  <2> HIDE DEF forgiven, strikes, calm
  <2> QED
    BY <1>5, <1>7, <2>1, <2>2, Zenon DEF Effective
<1>9. Promise!Rested(Effective(st)) = rested
  <2>1. forgiven <=> (strikes = 0 \/ calm >= DecayAfter)
    BY <1>1, <1>2, Zenon
  <2>2. Effective(st) = [active |-> st.active, level |-> [b \in Bucket |-> Available(st, b)],
                         strikes |-> strikes, calm |-> calm, block |-> st.block]
    BY Zenon DEF Effective
  <2>3. \A x, y : Promise!Least(x, y) = LeastOf(x, y)
    BY Zenon DEF Promise!Least, LeastOf
  <2> HIDE DEF forgiven, strikes, calm
  <2> DEFINE before == [active |-> st.active, level |-> [b \in Bucket |-> Available(st, b)],
                        strikes |-> strikes, calm |-> calm, block |-> st.block]
  <2>4. Promise!Rested(before) =
          [before EXCEPT !.level = [b \in Bucket |-> LeastOf(before.level[b] + Rate[b], Burst[b])],
                         !.strikes = IF forgiven THEN 0 ELSE before.strikes,
                         !.calm = IF forgiven THEN 0 ELSE before.calm + 1,
                         !.block = Down(before.block)]
    <3>1. before.strikes = strikes /\ before.calm = calm
      BY Zenon
    <3> HIDE DEF before
    <3> QED
      BY <2>1, <2>3, <3>1, Zenon DEF Promise!Rested, Down
  <2>5. [b \in Bucket |-> LeastOf(before.level[b] + Rate[b], Burst[b])]
          = [b \in Bucket |-> LeastOf(Available(st, b) + Rate[b], Burst[b])]
    <3>1. \A b \in Bucket : before.level[b] = Available(st, b)
      BY Zenon
    <3> HIDE DEF before
    <3> QED
      BY <3>1, Zenon
  <2>6. Promise!Rested(before) =
          [before EXCEPT !.level = [b \in Bucket |-> LeastOf(Available(st, b) + Rate[b], Burst[b])],
                         !.strikes = IF forgiven THEN 0 ELSE before.strikes,
                         !.calm = IF forgiven THEN 0 ELSE before.calm + 1,
                         !.block = Down(before.block)]
    <3> HIDE DEF before
    <3> QED
      BY <2>4, <2>5, Zenon
  <2> QED
    BY <2>2, <2>6, Zenon
<1> QED
  BY <1>4, <1>5, <1>6, <1>8, <1>9 DEF new

-----------------------------------------------------------------------------
(* What a call finds, and what it leaves.                                  *)

\* The state a call works on counts as much as the one from before the removal of idle addresses.
LEMMA StateFound ==
    ASSUME GuardInv, NEW a \in Source
    PROVE  /\ prune_idle_states[a] \in IpProtectionState \cup {None}
           /\ prune_idle_states[a] # None => AgesOrdered(prune_idle_states[a])
           /\ Count(prune_idle_states[a]) = Count(states[a])
           /\ View(prune_idle_states[a]) = View(states[a])
           /\ StateOf(a) \in IpProtectionState /\ AgesOrdered(StateOf(a))
           /\ StateOf(a).active = Count(states[a]) /\ Effective(StateOf(a)) = View(states[a])
<1>1. states[a] \in IpProtectionState \cup {None} /\ (states[a] # None => AgesOrdered(states[a]))
  BY Zenon DEF GuardInv, GuardSound, GuardTypeOK
<1>2. /\ FreshState \in IpProtectionState /\ AgesOrdered(FreshState) /\ FreshState.active = 0
      /\ None \notin IpProtectionState
  BY FreshStateType, DdosGuardAssumption, Zenon DEF FreshState
<1>3. CASE states[a] # None /\ Retained(states[a])
  <2>1. prune_idle_states[a] = states[a] /\ StateOf(a) = states[a]
    BY <1>3, Zenon DEF prune_idle_states, StateOf
  <2> QED
    BY <1>1, <1>3, <2>1, Zenon DEF Count, View
<1>4. CASE ~(states[a] # None /\ Retained(states[a]))
  <2>1. prune_idle_states[a] = None /\ StateOf(a) = FreshState
    BY <1>4, Zenon DEF prune_idle_states, StateOf
  <2>2. Count(states[a]) = 0 /\ View(states[a]) = Effective(FreshState)
    BY <1>1, <1>4, RemovedIsFresh, Zenon DEF Count, View
  <2> QED
    BY <1>2, <2>1, <2>2, Zenon DEF Count, View
<1> QED
  BY <1>3, <1>4, Zenon

\* What is stored for one address leaves the others as they counted.
LEMMA StateStored ==
    ASSUME GuardInv, NEW a \in Source, NEW st \in IpProtectionState, AgesOrdered(st),
           Store(a, st)
    PROVE  /\ states' \in [Source -> IpProtectionState \cup {None}]
           /\ \A c \in Source : states'[c] # None => AgesOrdered(states'[c])
           /\ \A c \in Source : Count(states'[c]) = IF c = a THEN st.active ELSE Count(states[c])
           /\ Promise!Becomes(a, Effective(st))
<1>1. states' = [prune_idle_states EXCEPT ![a] = st]
  BY Zenon DEF Store
<1>2. prune_idle_states \in [Source -> IpProtectionState \cup {None}]
  <2>1. prune_idle_states = [c \in Source |-> prune_idle_states[c]]
    BY Zenon DEF prune_idle_states
  <2>2. \A c \in Source : prune_idle_states[c] \in IpProtectionState \cup {None}
    BY StateFound, Zenon
  <2> HIDE DEF prune_idle_states
  <2> QED
    BY <2>1, <2>2, Zenon
<1>3. states'[a] = st /\ st # None
  BY <1>1, <1>2, DdosGuardAssumption, Zenon
<1>4. ASSUME NEW c \in Source, c # a PROVE states'[c] = prune_idle_states[c]
  BY <1>1, <1>2, <1>4, Zenon
<1>5. \A c \in Source : states'[c] # None => AgesOrdered(states'[c])
  BY <1>3, <1>4, StateFound, Zenon
<1>6. \A c \in Source : Count(states'[c]) = IF c = a THEN st.active ELSE Count(states[c])
  BY <1>3, <1>4, StateFound DEF Count
<1>7. \A c \in Source : View(states'[c]) = IF c = a THEN Effective(st) ELSE View(states[c])
  BY <1>3, <1>4, StateFound DEF View
<1>8. Promise!Becomes(a, Effective(st))
  <2>1. [c \in Source |-> View(states'[c])]
          = [[c \in Source |-> View(states[c])] EXCEPT ![a] = Effective(st)]
    BY <1>7, Zenon
  <2> QED
    BY <2>1, Zenon DEF Promise!Becomes, View
<1> QED
  BY <1>1, <1>2, <1>5, <1>6, <1>8, Zenon

\* The counts stay right when no permit changes hands.
LEMMA SameCounts ==
    ASSUME GuardInv, UNCHANGED permits,
           states' \in [Source -> IpProtectionState \cup {None}],
           \A c \in Source : states'[c] # None => AgesOrdered(states'[c]),
           \A c \in Source : Count(states'[c]) = Count(states[c])
    PROVE  GuardInv'
<1>1. \A c \in Source : Held(c)' = Held(c)
  BY Zenon DEF Held
<1>2. PermitsCounted'
  BY <1>1, Zenon DEF GuardInv, GuardSound, PermitsCounted, Count
<1> QED
  BY <1>2, Zenon DEF GuardInv, GuardSound, GuardTypeOK

\* A call that ends with a state stored, of the count it found.
LEMMA StoreKeepsInv ==
    ASSUME GuardInv, UNCHANGED permits, NEW a \in Source, NEW st \in IpProtectionState,
           AgesOrdered(st), st.active = Count(states[a]), Store(a, st)
    PROVE  GuardInv' /\ Promise!Becomes(a, Effective(st))
BY StateStored, SameCounts, Zenon

-----------------------------------------------------------------------------
(* One step of the guard keeps the invariant and is one of AddressLimits,  *)
(* or of no account to it.                                                 *)

\* The limits that AddressLimits keeps.
Lim == [a \in Source |-> View(states[a])]

\* What AddressLimits sees of the state a call works on.
LEMMA LimitsSeen ==
    ASSUME GuardInv, NEW a \in Source
    PROVE  /\ Lim[a] = Effective(StateOf(a))
           /\ Lim[a].active = StateOf(a).active /\ Lim[a].block = StateOf(a).block
           /\ \A b \in Bucket : Lim[a].level[b] = Available(StateOf(a), b)
<1>1. Lim[a] = Effective(StateOf(a))
  BY StateFound, Zenon DEF Lim
<1> QED
  BY <1>1 DEF Effective

\* Nothing spent is nothing changed.
LEMMA NothingSpent ==
    ASSUME NEW st \in IpProtectionState
    PROVE  [Effective(st) EXCEPT !.level["packets"] = @ - 0] = Effective(st)
<1> DEFINE level == [c \in Bucket |-> Available(st, c)]
<1>1. [level EXCEPT !["packets"] = @ - 0] = level
  BY AvailableType DEF Bucket
<1> HIDE DEF level
<1>2. Effective(st).level = level
  BY Zenon DEF Effective, level
<1>3. [Effective(st) EXCEPT !.level["packets"] = @ - 0]
        = [Effective(st) EXCEPT !.level = [level EXCEPT !["packets"] = @ - 0]]
  BY <1>2, Zenon DEF Effective
<1> QED
  BY <1>1, <1>2, <1>3, Zenon DEF Effective

\* A violation stored, after the packet was counted or not, is a strike.
LEMMA ViolationStrikes ==
    ASSUME GuardInv, UNCHANGED permits, NEW a \in Source, NEW st \in IpProtectionState,
           NEW packets \in {0, 1}, packets <= Available(StateOf(a), "packets"),
           StateOf(a).block = 0, st.block = 0, st.active = StateOf(a).active,
           Effective(st) = [Effective(StateOf(a)) EXCEPT !.level["packets"] = @ - packets],
           Store(a, record_violation(st))
    PROVE  GuardInv' /\ Promise!Strike(a, packets)
<1>1. GuardInv' /\ Promise!Becomes(a, Promise!Struck(Effective(st)))
  BY RecordViolation, StoreKeepsInv, StateFound, Zenon
<1>2. /\ Lim[a] = Effective(StateOf(a)) /\ Lim[a].block = 0
      /\ packets <= Lim[a].level["packets"]
  BY LimitsSeen, Zenon DEF Bucket
<1> QED
  BY <1>1, <1>2, Zenon DEF Promise!Strike, Lim, View

\* A refusal during a temporary block is of no account.
LEMMA RefuseBlockedStep ==
    ASSUME GuardInv, NEW a \in Source, RefuseBlocked(a)
    PROVE  GuardInv' /\ UNCHANGED Lim
<1>1. GuardInv' /\ Promise!Becomes(a, Effective(StateOf(a)))
  BY StateFound, SeenNow, StoreKeepsInv, Zenon DEF RefuseBlocked
<1>2. Lim' = [Lim EXCEPT ![a] = Lim[a]]
  BY <1>1, LimitsSeen, Zenon DEF Promise!Becomes, Lim, View
<1> QED
  BY <1>1, <1>2, Zenon DEF Lim

\* A refused connection is a strike.
LEMMA RefuseConnectionStep ==
    ASSUME GuardInv, NEW a \in Source, RefuseConnection(a)
    PROVE  GuardInv' /\ Promise!ConnectTooMany(a)
<1> DEFINE st == StateOf(a)
<1>1. st \in IpProtectionState /\ st.block = 0 /\ UNCHANGED permits
  BY StateFound, Zenon DEF RefuseConnection
<1>2. 0 <= Available(st, "packets")
  BY <1>1, AvailableType DEF Bucket
<1>2a. Lim[a].active >= MaxActive \/ Lim[a].level["tcp"] < 1
  BY LimitsSeen, Zenon DEF RefuseConnection, Bucket
<1> SUFFICES GuardInv' /\ Promise!Strike(a, 0)
  BY <1>2a, Zenon DEF Promise!ConnectTooMany, Lim, View
<1>3. CASE Store(a, record_violation(st))
  BY <1>1, <1>2, <1>3, NothingSpent, ViolationStrikes, Zenon
<1>4. CASE Available(st, "tcp") < 1 /\ Store(a, record_violation(consume(st, "tcp", 1)))
  <2>1. Available(st, "tcp") \in Nat
    BY <1>1, AvailableType, Zenon DEF Bucket
  <2>2. Effective(consume(st, "tcp", 1)) = Effective(st)
    BY <1>1, <1>4, <2>1, ConsumeLowers DEF Bucket
  <2>3. /\ consume(st, "tcp", 1) \in IpProtectionState /\ consume(st, "tcp", 1).block = 0
        /\ consume(st, "tcp", 1).active = st.active
    BY <1>1, ConsumeBucket, Zenon DEF Bucket
  <2> HIDE DEF st
  <2> QED
    BY <1>1, <1>2, <1>4, <2>2, <2>3, NothingSpent, ViolationStrikes, Zenon DEF st
<1> QED
  BY <1>3, <1>4, Zenon DEF RefuseConnection

\* A refused datagram is a strike, and may have used up its packet.
LEMMA RefuseDatagramStep ==
    ASSUME GuardInv, NEW a \in Source, NEW n \in Size, RefuseDatagram(a, n)
    PROVE  GuardInv' /\ Promise!DatagramTooMany(a, n)
<1> DEFINE st == StateOf(a)
           less == consume(st, "packets", 1)
<1>1. st \in IpProtectionState /\ st.block = 0 /\ UNCHANGED permits /\ n \in Nat
  BY StateFound, DdosGuardAssumption, Zenon DEF RefuseDatagram
<1>2. Available(st, "packets") \in Nat
  BY <1>1, AvailableType, Zenon DEF Bucket
<1>3. /\ less \in IpProtectionState /\ less.block = 0 /\ less.active = st.active
      /\ Available(less, "bytes") = Available(st, "bytes")
  BY <1>1, ConsumeBucket, Zenon DEF Bucket
<1>3a. /\ Lim[a].level["packets"] = Available(st, "packets")
       /\ Lim[a].level["bytes"] = Available(st, "bytes")
  BY LimitsSeen, Zenon DEF Bucket
<1>4. CASE n > MaxDatagram /\ Store(a, record_violation(st))
  <2>1. GuardInv' /\ Promise!Strike(a, 0)
    BY <1>1, <1>2, <1>4, NothingSpent, ViolationStrikes
  <2> QED
    BY <1>4, <2>1, Zenon DEF Promise!DatagramTooMany
<1>5. CASE Available(st, "packets") < 1 /\ Store(a, record_violation(less))
  <2>1. Effective(less) = Effective(st)
    BY <1>1, <1>2, <1>5, ConsumeLowers DEF Bucket
  <2> HIDE DEF st, less
  <2>2. GuardInv' /\ Promise!Strike(a, 0)
    BY <1>1, <1>2, <1>3, <1>5, <2>1, NothingSpent, ViolationStrikes DEF st
  <2> QED
    BY <1>3a, <1>5, <2>2, Zenon DEF Promise!DatagramTooMany, Lim, View
<1>6. CASE /\ n <= MaxDatagram
           /\ Available(st, "packets") >= 1 /\ Available(st, "bytes") < n
           /\ Store(a, record_violation(consume(less, "bytes", n)))
  <2> DEFINE new == consume(less, "bytes", n)
  <2>1. Effective(less) = [Effective(st) EXCEPT !.level["packets"] = @ - 1]
    BY <1>1, <1>6, ConsumeLowers, Zenon DEF Bucket
  <2>2. Available(less, "bytes") \in Nat /\ ~(Available(less, "bytes") >= n)
    BY <1>1, <1>3, <1>6, AvailableType DEF Bucket
  <2> HIDE DEF st, less
  <2>3. Effective(new) = Effective(less)
    BY <1>1, <1>3, <2>2, ConsumeLowers, Zenon DEF Bucket
  <2>4. new \in IpProtectionState /\ new.block = 0 /\ new.active = st.active
    BY <1>1, <1>3, ConsumeBucket, Zenon DEF Bucket
  <2> HIDE DEF new
  <2>5. Store(a, record_violation(new))
    BY <1>6, Zenon DEF new
  <2>6. GuardInv' /\ Promise!Strike(a, 1)
    BY <1>1, <1>2, <1>6, <2>1, <2>3, <2>4, <2>5, ViolationStrikes, Zenon DEF st
  <2> QED
    BY <1>3a, <1>6, <2>6, Zenon DEF Promise!DatagramTooMany, Lim, View
<1> QED
  BY <1>4, <1>5, <1>6, Zenon DEF RefuseDatagram

\* A datagram let through takes one packet and its bytes.
LEMMA DatagramStep ==
    ASSUME GuardInv, NEW a \in Source, NEW n \in Size, udp_datagram_allowed(a, n)
    PROVE  GuardInv' /\ Promise!Datagram(a, n)
<1> DEFINE st == StateOf(a)
           less == consume(st, "packets", 1)
           new == consume(less, "bytes", n)
<1>1. /\ st \in IpProtectionState /\ st.block = 0 /\ UNCHANGED permits
      /\ n \in Nat /\ n <= MaxDatagram /\ st.active = Count(states[a])
      /\ Available(st, "packets") >= 1 /\ Available(st, "bytes") >= n
      /\ Store(a, Seen(new))
  BY StateFound, DdosGuardAssumption, Zenon DEF udp_datagram_allowed
<1>2. /\ less \in IpProtectionState /\ less.active = st.active
      /\ Available(less, "bytes") = Available(st, "bytes")
  BY <1>1, ConsumeBucket, Zenon DEF Bucket
<1>3. Effective(less) = [Effective(st) EXCEPT !.level["packets"] = @ - 1]
  BY <1>1, ConsumeLowers, Zenon DEF Bucket
<1> HIDE DEF st, less
<1>4. new \in IpProtectionState /\ new.active = st.active
  BY <1>1, <1>2, ConsumeBucket, Zenon DEF Bucket
<1>5. Effective(new) = [Effective(less) EXCEPT !.level["bytes"] = @ - n]
  BY <1>1, <1>2, ConsumeLowers, Zenon DEF Bucket
<1> HIDE DEF new
<1>6. GuardInv' /\ Promise!Becomes(a, Effective(new))
  BY <1>1, <1>4, SeenNow, StoreKeepsInv, Zenon
<1>7. /\ Lim[a] = Effective(st) /\ Lim[a].block = 0
      /\ Lim[a].level["packets"] >= 1 /\ Lim[a].level["bytes"] >= n
  BY <1>1, LimitsSeen, Zenon DEF Bucket, st
<1>8. Effective(new) = [Lim[a] EXCEPT !.level =
                            Promise!Less(Promise!Less(@, "packets", 1), "bytes", n)]
  <2> DEFINE level == [c \in Bucket |-> Available(st, c)]
             strikes == IF st.violation > DecayAfter THEN 0 ELSE st.violations
             calm == IF strikes = 0 THEN 0 ELSE st.violation
             Made(l) == [active |-> st.active, level |-> l, strikes |-> strikes,
                         calm |-> calm, block |-> st.block]
  <2>1. Effective(st) = Made(level)
    BY Zenon DEF Effective
  <2> HIDE DEF strikes, calm
  <2> HIDE DEF level
  <2>3. Effective(less) = Made([level EXCEPT !["packets"] = @ - 1])
    BY <1>3, <2>1
  <2>4. Effective(new) = Made([[level EXCEPT !["packets"] = @ - 1] EXCEPT !["bytes"] = @ - n])
    BY <1>5, <2>3
  <2>5. [Made(level) EXCEPT !.level = Promise!Less(Promise!Less(@, "packets", 1), "bytes", n)]
          = Made([[level EXCEPT !["packets"] = @ - 1] EXCEPT !["bytes"] = @ - n])
    BY DEF Promise!Less
  <2> QED
    BY <1>7, <2>1, <2>4, <2>5, Zenon
<1> QED
  BY <1>1, <1>6, <1>7, <1>8, Zenon DEF Promise!Datagram, Lim, View

\* The count of connections is the only thing that a new count changes.
LEMMA CountChanged ==
    ASSUME NEW st \in IpProtectionState, NEW k \in Nat
    PROVE  LET new == [st EXCEPT !.active = k] IN
           /\ new \in IpProtectionState /\ new.active = k
           /\ Effective(new) = [Effective(st) EXCEPT !.active = k]
<1> DEFINE new == [st EXCEPT !.active = k]
<1>1. new \in IpProtectionState
  BY Zenon DEF IpProtectionState
<1>2. /\ new.active = k /\ new.tokens = st.tokens /\ new.refill = st.refill
      /\ new.violations = st.violations /\ new.violation = st.violation
      /\ new.block = st.block
  BY Zenon DEF IpProtectionState
<1> HIDE DEF new
<1>3. \A b \in Bucket : Available(new, b) = Available(st, b)
  BY <1>2, Zenon DEF Available
<1>4. Effective(new) = [Effective(st) EXCEPT !.active = k]
  <2> DEFINE level == [c \in Bucket |-> Available(st, c)]
             strikes == IF st.violation > DecayAfter THEN 0 ELSE st.violations
             calm == IF strikes = 0 THEN 0 ELSE st.violation
             Made(i) == [active |-> i, level |-> level, strikes |-> strikes,
                         calm |-> calm, block |-> st.block]
  <2>1. Effective(st) = Made(st.active) /\ Effective(new) = Made(k)
    BY <1>2, <1>3, Zenon DEF Effective
  <2> HIDE DEF level, strikes, calm
  <2>2. [Made(st.active) EXCEPT !.active = k] = Made(k)
    OBVIOUS
  <2> QED
    BY <2>1, <2>2, Zenon
<1> QED
  BY <1>1, <1>2, <1>4, Zenon DEF new

\* The permits held are finitely many.
LEMMA HeldFinite ==
    ASSUME NEW a \in Source
    PROVE  IsFiniteSet(Held(a)) /\ Cardinality(Held(a)) \in Nat
<1>1. Held(a) \subseteq Permit
  BY Zenon DEF Held
<1> QED
  BY <1>1, FS_Subset, FS_CardinalityType, DdosGuardAssumption, Zenon

\* The counts stay right when one permit of an address begins or ends with its count.
LEMMA OneCountChanged ==
    ASSUME GuardInv, NEW a \in Source,
           permits' \in [Permit -> Source \cup {None}],
           states' \in [Source -> IpProtectionState \cup {None}],
           \A c \in Source : states'[c] # None => AgesOrdered(states'[c]),
           \A c \in Source : c # a => Count(states'[c]) = Count(states[c]) /\ Held(c)' = Held(c),
           Count(states'[a]) = Cardinality(Held(a)'), Cardinality(Held(a)') <= MaxActive
    PROVE  GuardInv'
<1>1. ASSUME NEW c \in Source
      PROVE  /\ (IF states'[c] = None THEN 0 ELSE states'[c].active) = Cardinality(Held(c)')
             /\ Cardinality(Held(c)') <= MaxActive
  <2>1. CASE c = a
    BY <2>1, Zenon DEF Count
  <2>2. CASE c # a
    BY <2>2, Zenon DEF GuardInv, GuardSound, PermitsCounted, Count
  <2> QED
    BY <2>1, <2>2, Zenon
<1>2. PermitsCounted'
  BY <1>1, Zenon DEF PermitsCounted
<1> QED
  BY <1>2, Zenon DEF GuardInv, GuardSound, GuardTypeOK

\* A connection let in takes one token and is counted with its permit.
LEMMA OpenedStep ==
    ASSUME GuardInv, NEW a \in Source, NEW p \in Permit, tcp_connection_opened(a, p)
    PROVE  GuardInv' /\ Promise!Connect(a)
<1> DEFINE st == StateOf(a)
           less == consume(st, "tcp", 1)
           new == [less EXCEPT !.active = @ + 1]
<1>1. /\ st \in IpProtectionState /\ st.block = 0 /\ st.active = Count(states[a])
      /\ st.active < MaxActive /\ Available(st, "tcp") >= 1
      /\ Store(a, Seen(new)) /\ permits[p] = None /\ permits' = [permits EXCEPT ![p] = a]
  BY StateFound, Zenon DEF tcp_connection_opened
<1>2. less \in IpProtectionState /\ less.active = st.active
  BY <1>1, ConsumeBucket, Zenon DEF Bucket
<1>3. Effective(less) = [Effective(st) EXCEPT !.level["tcp"] = @ - 1]
  BY <1>1, ConsumeLowers, Zenon DEF Bucket
<1> HIDE DEF st, less
<1>4. st.active \in Nat /\ less.active + 1 \in Nat
  BY <1>1, <1>2 DEF IpProtectionState
<1>5. /\ new \in IpProtectionState /\ new.active = st.active + 1
      /\ Effective(new) = [Effective(less) EXCEPT !.active = st.active + 1]
  BY <1>2, <1>4, CountChanged, Zenon
<1> HIDE DEF new
<1>6. /\ states' \in [Source -> IpProtectionState \cup {None}]
      /\ \A c \in Source : states'[c] # None => AgesOrdered(states'[c])
      /\ \A c \in Source : Count(states'[c]) = IF c = a THEN st.active + 1 ELSE Count(states[c])
      /\ Promise!Becomes(a, Effective(new))
  BY <1>1, <1>5, SeenNow, StateStored
<1>7. permits \in [Permit -> Source \cup {None}] /\ PermitsCounted
  BY Zenon DEF GuardInv, GuardSound, GuardTypeOK
<1>8. \A c \in Source : Held(c)' = IF c = a THEN Held(a) \cup {p} ELSE Held(c)
  BY <1>1, <1>7, DdosGuardAssumption, Zenon DEF Held
<1>9. Cardinality(Held(a) \cup {p}) = Cardinality(Held(a)) + 1
  <2>1. p \notin Held(a)
    BY <1>1, DdosGuardAssumption, Zenon DEF Held
  <2> QED
    BY <2>1, HeldFinite, FS_AddElement, Zenon
<1>10. Count(states[a]) = Cardinality(Held(a)) /\ st.active + 1 <= MaxActive
  BY <1>1, <1>4, <1>7, DdosGuardAssumption DEF PermitsCounted, Count
<1>11. GuardInv'
  <2>1. permits' \in [Permit -> Source \cup {None}]
    BY <1>1, <1>7, Zenon
  <2>2. Held(a)' = Held(a) \cup {p} /\ \A c \in Source : c # a => Held(c)' = Held(c)
    BY <1>8, Zenon
  <2>3. Count(states'[a]) = Cardinality(Held(a)') /\ Cardinality(Held(a)') <= MaxActive
    BY <1>1, <1>6, <1>9, <1>10, <2>2, Zenon
  <2> QED
    BY <1>6, <2>1, <2>2, <2>3, OneCountChanged, Zenon
<1>12. /\ Lim[a] = Effective(st) /\ Lim[a].block = 0 /\ Lim[a].active = st.active
       /\ Lim[a].level["tcp"] >= 1
  BY <1>1, LimitsSeen, Zenon DEF Bucket, st
<1>13. Effective(new) = [Lim[a] EXCEPT !.active = @ + 1, !.level = Promise!Less(@, "tcp", 1)]
  <2> DEFINE level == [c \in Bucket |-> Available(st, c)]
             strikes == IF st.violation > DecayAfter THEN 0 ELSE st.violations
             calm == IF strikes = 0 THEN 0 ELSE st.violation
             Made(i, l) == [active |-> i, level |-> l, strikes |-> strikes,
                            calm |-> calm, block |-> st.block]
  <2>1. Effective(st) = Made(st.active, level)
    BY Zenon DEF Effective
  <2> HIDE DEF strikes, calm, level
  <2>2. Effective(less) = Made(st.active, [level EXCEPT !["tcp"] = @ - 1])
    BY <1>3, <2>1
  <2>3. Effective(new) = Made(st.active + 1, [level EXCEPT !["tcp"] = @ - 1])
    BY <1>5, <2>2, SMTT(30)
  <2>4. [Made(st.active, level) EXCEPT !.active = @ + 1, !.level = Promise!Less(@, "tcp", 1)]
          = Made(st.active + 1, [level EXCEPT !["tcp"] = @ - 1])
    <3>1. Made(st.active, level).active = st.active /\ Made(st.active, level).level = level
      BY Zenon
    <3>2. Promise!Less(level, "tcp", 1) = [level EXCEPT !["tcp"] = @ - 1]
      BY Zenon DEF Promise!Less
    <3>3. ASSUME NEW i, NEW l
          PROVE  [Made(st.active, level) EXCEPT !.active = i, !.level = l] = Made(i, l)
      <4> DEFINE before == Made(st.active, level)
      <4>1. [before EXCEPT !.active = i, !.level = l]
              = [[before EXCEPT !.active = i] EXCEPT !.level = l]
        BY Zenon
      <4>2. [before EXCEPT !.active = i] = Made(i, level)
        OBVIOUS
      <4>3. [Made(i, level) EXCEPT !.level = l] = Made(i, l)
        OBVIOUS
      <4> HIDE DEF before, Made
      <4> QED
        BY <4>1, <4>2, <4>3, Zenon DEF before
    <3> HIDE DEF Made
    <3> QED
      BY <3>1, <3>2, <3>3, Zenon
  <2> QED
    BY <1>12, <2>1, <2>3, <2>4, Zenon
<1> QED
  BY <1>1, <1>6, <1>11, <1>12, <1>13, Zenon DEF Promise!Connect, Lim, View

\* The end of a permit is counted for an address whose state is still there.
LEMMA ClosedStep ==
    ASSUME GuardInv, NEW p \in Permit, tcp_connection_closed(p)
    PROVE  GuardInv' /\ \E a \in Source : Promise!Disconnect(a)
<1>1. /\ permits \in [Permit -> Source \cup {None}] /\ PermitsCounted
      /\ states \in [Source -> IpProtectionState \cup {None}]
  BY Zenon DEF GuardInv, GuardSound, GuardTypeOK
<1>2. PICK a \in Source : a = permits[p]
  BY <1>1, Zenon DEF tcp_connection_closed
<1> DEFINE st == states[a]
           new == [st EXCEPT !.active = Down(@)]
<1>3. p \in Held(a) /\ permits' = [permits EXCEPT ![p] = None]
  BY <1>2, Zenon DEF Held, tcp_connection_closed
<1>4. /\ Cardinality(Held(a)) \in Nat \ {0}
      /\ Cardinality(Held(a) \ {p}) = Cardinality(Held(a)) - 1
  <2>1. Cardinality(Held(a)) \in Nat /\ IsFiniteSet(Held(a))
    BY <1>2, HeldFinite, Zenon
  <2>2. Cardinality(Held(a)) # 0
    BY <1>3, <2>1, FS_EmptySet, Zenon
  <2> QED
    BY <1>3, <2>1, <2>2, FS_RemoveElement, Zenon
<1>5. st # None /\ st \in IpProtectionState /\ st.active = Cardinality(Held(a))
  BY <1>1, <1>2, <1>4, Zenon DEF PermitsCounted
<1>6. states' = [states EXCEPT ![a] = Seen(new)]
  BY <1>2, <1>5, Zenon DEF tcp_connection_closed, Left
<1>7. Down(st.active) = st.active - 1 /\ Down(st.active) \in Nat
  BY <1>4, <1>5 DEF Down
<1>8. /\ new \in IpProtectionState /\ new.active = st.active - 1
      /\ Effective(new) = [Effective(st) EXCEPT !.active = st.active - 1]
  BY <1>5, <1>7, CountChanged, Zenon
<1> HIDE DEF new
<1>9. /\ Seen(new) \in IpProtectionState /\ AgesOrdered(Seen(new)) /\ Seen(new) # None
      /\ Seen(new).active = st.active - 1 /\ Effective(Seen(new)) = Effective(new)
  BY <1>8, SeenNow, DdosGuardAssumption, Zenon
<1>10. /\ states' \in [Source -> IpProtectionState \cup {None}]
       /\ states'[a] = Seen(new) /\ \A c \in Source : c # a => states'[c] = states[c]
  BY <1>1, <1>2, <1>6, <1>9, Zenon
<1>11. Held(a)' = Held(a) \ {p} /\ \A c \in Source : c # a => Held(c)' = Held(c)
  BY <1>1, <1>2, <1>3, DdosGuardAssumption, Zenon DEF Held
<1> HIDE DEF st
<1>12. Count(states'[a]) = Cardinality(Held(a)') /\ Cardinality(Held(a)') <= MaxActive
  <2>1. Cardinality(Held(a)) <= MaxActive
    BY <1>1, Zenon DEF PermitsCounted
  <2> QED
    BY <1>4, <1>5, <1>9, <1>10, <1>11, <2>1, DdosGuardAssumption DEF Count
<1>13. GuardInv'
  <2>1. permits' \in [Permit -> Source \cup {None}]
    BY <1>1, <1>3, Zenon
  <2>2. \A c \in Source : c # a => Count(states'[c]) = Count(states[c])
    BY <1>10, Zenon
  <2>3. \A c \in Source : states'[c] # None => AgesOrdered(states'[c])
    BY <1>9, <1>10, Zenon DEF GuardInv
  <2> QED
    BY <1>10, <1>11, <1>12, <2>1, <2>2, <2>3, OneCountChanged, Zenon
<1>14. Lim[a] = Effective(st) /\ Lim[a].active = st.active
  BY <1>2, <1>5, Zenon DEF Lim, View, Effective, st
<1>15. Lim' = [Lim EXCEPT ![a] = [Lim[a] EXCEPT !.active = st.active - 1]]
  <2>1. View(states'[a]) = [Lim[a] EXCEPT !.active = st.active - 1]
    BY <1>8, <1>9, <1>10, <1>14, Zenon DEF View
  <2> QED
    BY <1>2, <1>10, <2>1, Zenon DEF Lim
<1>16. Lim[a].active > 0 /\ Lim' = [Lim EXCEPT ![a] = [Lim[a] EXCEPT !.active = @ - 1]]
  BY <1>4, <1>5, <1>14, <1>15
<1>17. Promise!Disconnect(a)
  BY <1>16, Zenon DEF Promise!Disconnect, Promise!Becomes, Lim, View
<1> QED
  BY <1>13, <1>17, Zenon

\* With the clock, every address rests.
LEMMA TickStep ==
    ASSUME GuardInv, GuardTick
    PROVE  GuardInv' /\ Promise!Tick
<1>1. /\ states \in [Source -> IpProtectionState \cup {None}]
      /\ \A a \in Source : states[a] # None => AgesOrdered(states[a])
      /\ states' = [a \in Source |-> IF states[a] = None THEN None ELSE Aged(states[a])]
      /\ UNCHANGED permits
  BY Zenon DEF GuardInv, GuardSound, GuardTypeOK, GuardTick
<1>2. /\ FreshState \in IpProtectionState /\ AgesOrdered(FreshState)
      /\ None \notin IpProtectionState
  BY FreshStateType, DdosGuardAssumption, Zenon
<1>3. Promise!Rested(Effective(FreshState)) = Effective(FreshState)
  <2>1. Effective(Aged(FreshState)) = Promise!Rested(Effective(FreshState))
    BY <1>2, AgedRests, Zenon
  <2>2. /\ Aged(FreshState).active = FreshState.active
        /\ Aged(FreshState).violation = FreshState.violation
        /\ Aged(FreshState).violations = FreshState.violations
        /\ Aged(FreshState).block = FreshState.block
        /\ FreshState.tokens = Burst /\ Aged(FreshState).tokens = Burst
        /\ Aged(FreshState).refill \in [Bucket -> Nat]
    BY DdosGuardAssumption DEF FreshState, Aged, Up, Down, LeastOf
  <2>3. ASSUME NEW b \in Bucket PROVE Available(Aged(FreshState), b) = Available(FreshState, b)
    <3>1. /\ Aged(FreshState).refill[b] \in Nat /\ Rate[b] \in Nat /\ Burst[b] \in Nat
      BY <2>2, DdosGuardAssumption, Zenon
    <3>2. Aged(FreshState).refill[b] * Rate[b] \in Nat
      BY <3>1
    <3>3. Available(Aged(FreshState), b) = Burst[b]
      BY <2>2, <3>1, <3>2 DEF Available, LeastOf
    <3> QED
      BY <3>3, FreshStateType, Zenon
  <2> QED
    BY <2>1, <2>2, <2>3, Zenon DEF Effective
<1>4. ASSUME NEW a \in Source
      PROVE  /\ states'[a] \in IpProtectionState \cup {None}
             /\ states'[a] # None => AgesOrdered(states'[a])
             /\ Count(states'[a]) = Count(states[a])
             /\ View(states'[a]) = Promise!Rested(View(states[a]))
  <2>1. CASE states[a] = None
    BY <1>1, <1>3, <2>1, Zenon DEF Count, View
  <2>2. CASE states[a] # None
    <3>1. states[a] \in IpProtectionState /\ AgesOrdered(states[a]) /\ states'[a] = Aged(states[a])
      BY <1>1, <2>2, Zenon
    <3> QED
      BY <1>2, <2>2, <3>1, AgedRests, Zenon DEF Count, View
  <2> QED
    BY <2>1, <2>2, Zenon
<1>5. GuardInv'
  <2>1. states' \in [Source -> IpProtectionState \cup {None}]
    <3>1. states' = [a \in Source |-> states'[a]]
      BY <1>1, Zenon
    <3> QED
      BY <1>4, <3>1, Zenon
  <2> QED
    BY <1>1, <1>4, <2>1, SameCounts, Zenon
<1>6. Promise!Tick
  <2>1. [a \in Source |-> View(states'[a])] = [a \in Source |-> Promise!Rested(Lim[a])]
    BY <1>4, Zenon DEF Lim
  <2> QED
    BY <2>1, Zenon DEF Promise!Tick, Lim, View
<1> QED
  BY <1>5, <1>6, Zenon

-----------------------------------------------------------------------------
(* The two theorems.                                                       *)

\* Every step keeps the invariant and is one of AddressLimits, or of no account to it.
LEMMA GuardStep ==
    GuardInv /\ [GuardNext]_guardVars => GuardInv' /\ (Promise!Next \/ UNCHANGED Lim)
<1> SUFFICES ASSUME GuardInv, [GuardNext]_guardVars
             PROVE  GuardInv' /\ (Promise!Next \/ UNCHANGED Lim)
  BY Zenon
<1>1. CASE GuardTick
  BY <1>1, TickStep, Zenon DEF Promise!Next
<1>2. ASSUME NEW a \in Source, RefuseBlocked(a)
      PROVE  GuardInv' /\ UNCHANGED Lim
  BY <1>2, RefuseBlockedStep, Zenon
<1>3. ASSUME NEW a \in Source, RefuseConnection(a)
      PROVE  GuardInv' /\ Promise!Next
  BY <1>3, RefuseConnectionStep, Zenon DEF Promise!Next
<1>4. ASSUME NEW a \in Source, NEW p \in Permit, tcp_connection_opened(a, p)
      PROVE  GuardInv' /\ Promise!Next
  BY <1>4, OpenedStep, Zenon DEF Promise!Next
<1>5. ASSUME NEW a \in Source, NEW n \in Size, RefuseDatagram(a, n)
      PROVE  GuardInv' /\ Promise!Next
  BY <1>5, RefuseDatagramStep, Zenon DEF Promise!Next
<1>6. ASSUME NEW a \in Source, NEW n \in Size, udp_datagram_allowed(a, n)
      PROVE  GuardInv' /\ Promise!Next
  BY <1>6, DatagramStep, Zenon DEF Promise!Next
<1>7. ASSUME NEW p \in Permit, tcp_connection_closed(p)
      PROVE  GuardInv' /\ Promise!Next
  BY <1>7, ClosedStep, Zenon DEF Promise!Next
<1>8. CASE UNCHANGED guardVars
  BY <1>8, Zenon DEF guardVars, GuardInv, GuardSound, GuardTypeOK, PermitsCounted, Held, Lim
<1> QED
  BY <1>1, <1>2, <1>3, <1>4, <1>5, <1>6, <1>7, <1>8, Zenon DEF GuardNext

\* The guard starts with an empty map, which is a guard that has seen no one.
LEMMA GuardStarts ==
    GuardInit => GuardInv /\ Promise!Init
<1> SUFFICES ASSUME GuardInit PROVE GuardInv /\ Promise!Init
  BY Zenon
<1>1. /\ states = [a \in Source |-> None] /\ permits = [p \in Permit |-> None]
  BY Zenon DEF GuardInit
<1>2. \A a \in Source : Held(a) = {}
  BY <1>1, DdosGuardAssumption, Zenon DEF Held
<1>3. PermitsCounted
  <2>1. ASSUME NEW a \in Source
        PROVE  states[a] = None /\ Cardinality(Held(a)) = 0
    BY <1>1, <1>2, FS_EmptySet, Zenon
  <2>2. 0 <= MaxActive
    BY DdosGuardAssumption
  <2> QED
    BY <2>1, <2>2, Zenon DEF PermitsCounted
<1>4. GuardInv
  BY <1>1, <1>3, Zenon DEF GuardInv, GuardSound, GuardTypeOK
<1>5. Effective(FreshState) = Promise!Untouched
  <2>1. [b \in Bucket |-> Available(FreshState, b)] = Burst
    BY FreshStateType, DdosGuardAssumption, Zenon
  <2>2. /\ FreshState.active = 0 /\ FreshState.block = 0
        /\ FreshState.violation = DecayAfter + 1
    BY Zenon DEF FreshState
  <2> QED
    BY <2>1, <2>2, DdosGuardAssumption DEF Effective, Promise!Untouched
<1> QED
  BY <1>1, <1>4, <1>5, Zenon DEF Promise!Init

\* For any number of addresses and connections, the connections counted for an address are
\* those that hold a permit, and no more than tcp_max_active_per_ip.
THEOREM GuardCorrect == GuardSpec => []GuardSound
<1>1. GuardInv => GuardSound
  BY Zenon DEF GuardInv
<1> QED
  BY <1>1, GuardStarts, GuardStep, PTL DEF GuardSpec

\* Whatever the limits, as long as a bucket refills within IDLE_STATE_RETENTION, the guard
\* answers as one that never removes an address.
THEOREM GuardForgetsNothing == GuardSpec => ForgetsNothing
<1>1. GuardInv /\ [GuardNext]_guardVars
        => [Promise!Next]_([a \in Source |->
               Effective(IF states[a] = None THEN FreshState ELSE states[a])])
  BY GuardStep, Zenon DEF Lim, View
<1> QED
  BY <1>1, GuardStarts, GuardStep, PTL DEF GuardSpec, ForgetsNothing, Promise!Spec

-----------------------------------------------------------------------------
(* The gate of the web GUI.                                                *)

\* Since the last tick all scopes together have drawn on one bucket, which nothing filled again.
BucketDrawn ==
    \A c \in Browser, s \in Scope : burst[c][s] > 0 =>
        /\ sec[c] # None /\ sec[c].idle = 0
        /\ sec[c].tokens + burst[c][s] * Unit <= Capacity[s]

\* A client at the limit of violations is blocked, or has been quiet as long as a block lasts,
\* or long enough to be forgotten.
BlockCounts ==
    \A c \in Browser : sec[c] # None /\ sec[c].violations >= BlockAfter =>
        /\ sec[c].violations = BlockAfter
        /\ sec[c].block + sec[c].idle >= BlockTicks \/ sec[c].idle = PruneTicks + 1

\* A name at the threshold is locked out, or its first failure leaves the window with the lock.
LockOutlastsWindow ==
    failures # None /\ failures.count >= Threshold =>
        failures.count = Threshold /\ failures.lock + failures.age >= loginLockoutDuration

\* The state of one client within the limits of BlockCounts.
Counted(st) ==
    /\ st \in ClientState
    /\ st.violations >= BlockAfter =>
          /\ st.violations = BlockAfter
          /\ st.block + st.idle >= BlockTicks \/ st.idle = PruneTicks + 1

\* The bucket as it is when a request of scope s has refilled it.
LEMMA RefilledBucket ==
    ASSUME NEW st \in ClientState, NEW s \in Scope
    PROVE  /\ Refilled(st, s) \in Nat /\ Refilled(st, s) <= Capacity[s]
           /\ st.idle = 0 => Refilled(st, s) <= st.tokens
           /\ st.idle >= BlockTicks => Refilled(st, s) >= Unit
<1> USE GuiGateAssumption
<1>1. st.tokens \in Nat /\ st.idle \in Nat
  BY DEF ClientState
<1>2. Capacity[s] \in Nat /\ Refill[s] \in Nat /\ BlockTicks \in Nat /\ Unit \in Nat
  BY Zenon
<1>3. st.idle * Refill[s] \in Nat
  BY <1>1, <1>2
<1>4. st.idle = 0 => st.idle * Refill[s] = 0
  BY <1>2
<1>5. st.idle >= BlockTicks => st.idle * Refill[s] >= BlockTicks * Refill[s]
  <2>1. \A a, b, r \in Nat : a >= b => a * r >= b * r
    OBVIOUS
  <2> QED
    BY <1>1, <1>2, <2>1, Zenon
<1>6. BlockTicks * Refill[s] >= Unit /\ Capacity[s] >= Unit /\ BlockTicks * Refill[s] \in Nat
  BY <1>2
<1>7. Refilled(st, s) = IF Capacity[s] <= st.tokens + st.idle * Refill[s] THEN Capacity[s]
                        ELSE st.tokens + st.idle * Refill[s]
  BY Zenon DEF Refilled, LeastOf
<1> DEFINE r == st.idle * Refill[s]
           b == BlockTicks * Refill[s]
<1> HIDE DEF r, b
<1>8. Refilled(st, s) = IF Capacity[s] <= st.tokens + r THEN Capacity[s] ELSE st.tokens + r
  BY <1>7, Zenon DEF r
<1> QED
  BY <1>1, <1>2, <1>3, <1>4, <1>5, <1>6, <1>8 DEF r, b

\* What consumeSecurityToken does to the state of a client whose count of violations is right:
\* it stays so, and a request that passes has paid for itself from a bucket of its scope.
LEMMA ConsumeKeeps ==
    ASSUME NEW st, Counted(st), st.block = 0 => st.idle <= PruneTicks, NEW s \in Scope,
           NEW r, r = consumeSecurityToken(st, s)
    PROVE  /\ Counted(r.state) /\ r.allowed \in BOOLEAN
           /\ st.idle = 0 => r.state.idle = 0 /\ r.state.tokens <= st.tokens
           /\ r.allowed => /\ r.state.idle = 0 /\ r.state.tokens + Unit <= Capacity[s]
                           /\ st.idle = 0 => r.state.tokens + Unit <= st.tokens
<1> USE GuiGateAssumption
<1>0. /\ st \in ClientState /\ st.tokens \in Nat /\ st.idle \in 0 .. PruneTicks + 1
      /\ st.violations \in Nat /\ st.block \in 0 .. BlockTicks
  BY Zenon DEF Counted, ClientState
<1> DEFINE full == [st EXCEPT !.tokens = Refilled(st, s), !.idle = 0]
<1>1. /\ Refilled(st, s) \in Nat /\ Refilled(st, s) <= Capacity[s]
      /\ st.idle = 0 => Refilled(st, s) <= st.tokens
      /\ st.idle >= BlockTicks => Refilled(st, s) >= Unit
  BY <1>0, RefilledBucket, Zenon
<1>2. /\ full \in ClientState /\ full.tokens = Refilled(st, s) /\ full.idle = 0
      /\ full.violations = st.violations /\ full.block = st.block
  <2>1. 0 \in 0 .. PruneTicks + 1
    OBVIOUS
  <2> QED
    BY <1>0, <1>1, <2>1, Zenon DEF ClientState
<1>3. r = IF st.block > 0 THEN [state |-> st, allowed |-> FALSE]
          ELSE IF full.tokens < Unit THEN [state |-> Violation(full), allowed |-> FALSE]
          ELSE [state |-> Allowed(full), allowed |-> TRUE]
  BY Zenon DEF consumeSecurityToken, WhileBlocked
<1> HIDE DEF full
<1>4. CASE st.block > 0
  BY <1>0, <1>3, <1>4
<1>5. CASE st.block = 0 /\ full.tokens < Unit
  <2>1. r.state = Violation(full) /\ r.allowed = FALSE
    BY <1>3, <1>5
  <2>2. st.violations < BlockAfter
    BY <1>0, <1>1, <1>2, <1>5 DEF Counted
  <2>3. /\ Violation(full) \in ClientState
        /\ Violation(full).tokens = full.tokens /\ Violation(full).idle = 0
        /\ Violation(full).violations = full.violations + 1
        /\ full.violations + 1 >= BlockAfter => Violation(full).block = BlockTicks
    <3>1. BlockTicks \in 0 .. BlockTicks /\ full.violations + 1 \in Nat
      BY <1>0, <1>2
    <3> QED
      BY <1>2, <3>1, Zenon DEF Violation, ClientState
  <2>4. Counted(Violation(full))
    <3>1. PICK w : w = Violation(full)
      BY Zenon
    <3>2. /\ w \in ClientState /\ w.idle = 0 /\ w.violations = st.violations + 1
          /\ w.violations >= BlockAfter => w.block = BlockTicks
      BY <1>2, <2>3, <3>1, Zenon
    <3>3. w.violations >= BlockAfter => w.violations = BlockAfter /\ w.block + w.idle >= BlockTicks
      BY <1>0, <2>2, <3>2
    <3> QED
      BY <3>1, <3>2, <3>3, Zenon DEF Counted
  <2> QED
    BY <1>0, <1>1, <1>2, <2>1, <2>3, <2>4, Zenon
<1>6. CASE st.block = 0 /\ full.tokens >= Unit
  <2>1. r.state = Allowed(full) /\ r.allowed = TRUE
    BY <1>1, <1>2, <1>3, <1>6
  <2>2. full.tokens - Unit \in Nat /\ Down(full.violations) \in Nat
    BY <1>0, <1>1, <1>2, <1>6 DEF Down
  <2>3. /\ Allowed(full) \in ClientState
        /\ Allowed(full).tokens = full.tokens - Unit /\ Allowed(full).idle = 0
        /\ Allowed(full).violations = Down(full.violations)
    BY <1>2, <2>2, Zenon DEF Allowed, ClientState
  <2>4. Down(full.violations) < BlockAfter
    BY <1>0, <1>2 DEF Down, Counted
  <2>5. Counted(Allowed(full))
    BY <1>0, <2>2, <2>3, <2>4 DEF Counted
  <2>6. Capacity[s] \in Nat /\ Unit \in Nat
    BY Zenon
  <2>7. full.tokens \in Nat /\ full.tokens <= Capacity[s] /\ (st.idle = 0 => full.tokens <= st.tokens)
    BY <1>1, <1>2, Zenon
  <2>8. r.state.idle = 0 /\ r.state.tokens = full.tokens - Unit
    BY <2>1, <2>3, Zenon
  <2>9. /\ r.state.tokens + Unit <= Capacity[s]
        /\ st.idle = 0 => r.state.tokens + Unit <= st.tokens /\ r.state.tokens <= st.tokens
    BY <1>0, <2>6, <2>7, <2>8
  <2> QED
    BY <2>1, <2>5, <2>8, <2>9, Zenon
<1> QED
  BY <1>0, <1>1, <1>2, <1>4, <1>5, <1>6

\* The gate's part of the invariant.
GateCounts ==
    /\ sec \in [Browser -> ClientState \cup {None}] /\ burst \in [Browser -> [Scope -> Nat]]
    /\ BucketDrawn /\ BlockCounts

\* What BlockCounts says of a client that is known.
LEMMA KnownCounted ==
    GateCounts => \A c \in Browser : sec[c] # None => Counted(sec[c])
BY Zenon DEF GateCounts, BlockCounts, Counted

\* A request, refused or let through, keeps the counts of all clients.
LEMMA RequestStep ==
    ASSUME GateCounts, NEW c \in Browser, NEW s \in Scope, NEW passes \in BOOLEAN, Guard(c, s, passes)
    PROVE  GateCounts'
<1> USE GuiGateAssumption
<1>0. sec \in [Browser -> ClientState \cup {None}] /\ burst \in [Browser -> [Scope -> Nat]]
  BY Zenon DEF GateCounts
<1>1. PICK pruned : pruned = pruneExpiredSecurityStates
  BY Zenon
<1>2. PICK st : st = getSecurityState(pruned[c], s)
  BY Zenon
<1>3. PICK r : r = consumeSecurityToken(st, s)
  BY Zenon
<1>4. /\ r.allowed = passes /\ sec' = [pruned EXCEPT ![c] = r.state]
      /\ burst' = IF passes THEN [burst EXCEPT ![c][s] = @ + 1] ELSE burst
  BY <1>1, <1>2, <1>3, Zenon DEF Guard
<1>5. /\ pruned \in [Browser -> ClientState \cup {None}]
      /\ \A d \in Browser :
            /\ pruned[d] # None => pruned[d] = sec[d] /\ (sec[d].block = 0 => sec[d].idle <= PruneTicks)
            /\ pruned[d] = None => sec[d] = None \/ sec[d].idle > PruneTicks
  <2>1. pruned = [d \in Browser |-> IF sec[d] # None /\ sec[d].block = 0 /\ sec[d].idle > PruneTicks
                                    THEN None ELSE sec[d]]
    BY <1>1, Zenon DEF pruneExpiredSecurityStates
  <2>2. \A d \in Browser : sec[d] # None => sec[d].idle \in Nat
    BY <1>0 DEF ClientState
  <2> QED
    BY <1>0, <2>1, <2>2
<1>6. Counted(st) /\ (st.block = 0 => st.idle <= PruneTicks)
  <2>1. CASE pruned[c] = None
    <3> DEFINE new == [tokens |-> Capacity[s], idle |-> 0, violations |-> 0, block |-> 0]
    <3>1. st = new
      BY <1>2, <2>1, Zenon DEF getSecurityState
    <3>2. 0 \in 0 .. PruneTicks + 1 /\ 0 \in 0 .. BlockTicks /\ Capacity[s] \in Nat
      OBVIOUS
    <3>3. new \in ClientState
      BY <3>2, Zenon DEF ClientState
    <3> QED
      BY <3>1, <3>3 DEF Counted
  <2>2. CASE pruned[c] # None
    <3>1. st = sec[c] /\ sec[c] # None /\ (sec[c].block = 0 => sec[c].idle <= PruneTicks)
      BY <1>2, <1>5, <2>2, Zenon DEF getSecurityState
    <3> QED
      BY <3>1, KnownCounted, Zenon
  <2> QED
    BY <2>1, <2>2, Zenon
<1>7. /\ Counted(r.state) /\ r.allowed \in BOOLEAN
      /\ st.idle = 0 => r.state.idle = 0 /\ r.state.tokens <= st.tokens
      /\ r.allowed => /\ r.state.idle = 0 /\ r.state.tokens + Unit <= Capacity[s]
                      /\ st.idle = 0 => r.state.tokens + Unit <= st.tokens
  BY <1>3, <1>6, ConsumeKeeps, Zenon
<1>8. r.state \in ClientState /\ r.state # None /\ r.state.tokens \in Nat
  BY <1>7, Zenon DEF Counted, ClientState
<1>9. sec' \in [Browser -> ClientState \cup {None}] /\ burst' \in [Browser -> [Scope -> Nat]]
  <2>1. sec' \in [Browser -> ClientState \cup {None}]
    BY <1>4, <1>5, <1>8, Zenon
  <2>2. burst' \in [Browser -> [Scope -> Nat]]
    BY <1>0, <1>4
  <2> QED
    BY <2>1, <2>2, Zenon
<1>10. BlockCounts'
  <2> SUFFICES ASSUME NEW d \in Browser, sec'[d] # None
               PROVE  Counted(sec'[d])
    BY Zenon DEF BlockCounts, Counted
  <2>1. CASE d = c
    BY <1>4, <1>5, <1>7, <2>1, Zenon
  <2>2. CASE d # c
    BY <1>4, <1>5, <2>2, KnownCounted, Zenon
  <2> QED
    BY <2>1, <2>2, Zenon
<1>11. ASSUME NEW d \in Browser, NEW z \in Scope, burst[d][z] > 0
       PROVE  /\ sec[d] # None /\ sec[d].idle = 0 /\ sec[d].tokens + burst[d][z] * Unit <= Capacity[z]
              /\ pruned[d] = sec[d]
  <2>1. sec[d] # None /\ sec[d].idle = 0 /\ sec[d].tokens + burst[d][z] * Unit <= Capacity[z]
    BY <1>11, Zenon DEF GateCounts, BucketDrawn
  <2> QED
    BY <1>5, <2>1
<1>12. BucketDrawn'
  <2> SUFFICES ASSUME NEW d \in Browser, NEW z \in Scope, burst'[d][z] > 0
               PROVE  /\ sec'[d] # None /\ sec'[d].idle = 0
                      /\ sec'[d].tokens + burst'[d][z] * Unit <= Capacity[z]
    BY Zenon DEF BucketDrawn
  <2>1. CASE d # c
    <3>1. burst'[d][z] = burst[d][z] /\ sec'[d] = pruned[d]
      BY <1>0, <1>4, <1>5, <2>1, Zenon
    <3> QED
      BY <1>11, <3>1, Zenon
  <2>2. CASE d = c /\ burst'[d][z] = burst[d][z]
    <3>1. sec'[c] = r.state /\ st = sec[c] /\ sec[c].idle = 0
      BY <1>2, <1>4, <1>5, <1>11, <2>2, Zenon DEF getSecurityState
    <3>2. r.state.idle = 0 /\ r.state.tokens <= sec[c].tokens
      BY <1>7, <3>1, Zenon
    <3>3. PICK b \in Nat : b = burst[c][z] * Unit
      BY <1>0
    <3>4. sec[c].tokens \in Nat /\ sec[c].tokens + b <= Capacity[z] /\ Capacity[z] \in Nat
      BY <1>0, <1>11, <2>2, <3>3, Zenon DEF ClientState
    <3>5. r.state.tokens + b <= Capacity[z]
      BY <1>8, <3>2, <3>4
    <3> QED
      BY <1>8, <2>2, <3>1, <3>2, <3>3, <3>5, Zenon
  <2>3. CASE d = c /\ burst'[d][z] # burst[d][z]
    <3>1. passes /\ z = s /\ burst'[c][s] = burst[c][s] + 1 /\ sec'[c] = r.state
      BY <1>0, <1>4, <1>5, <2>3, Zenon
    <3>2. r.state.idle = 0 /\ r.state.tokens + Unit <= Capacity[s]
      BY <1>4, <1>7, <3>1, Zenon
    <3>3. PICK b \in Nat : b = burst[c][s] * Unit
      BY <1>0
    <3>4. burst'[c][s] * Unit = b + Unit
      BY <1>0, <3>1, <3>3
    <3>5. r.state.tokens + (b + Unit) <= Capacity[s]
      <4>1. CASE burst[c][s] = 0
        <5>1. b = 0 /\ Unit \in Nat
          BY <3>3, <4>1
        <5> QED
          BY <1>8, <3>2, <5>1
      <4>2. CASE burst[c][s] > 0
        <5>1. st = sec[c] /\ sec[c].idle = 0 /\ sec[c].tokens + b <= Capacity[s] /\ sec[c] \in ClientState
          BY <1>0, <1>2, <1>11, <3>3, <4>2, Zenon DEF getSecurityState
        <5>2. r.state.tokens + Unit <= sec[c].tokens /\ sec[c].tokens \in Nat
          BY <1>4, <1>7, <3>1, <5>1, Zenon DEF ClientState
        <5>3. Capacity[s] \in Nat /\ Unit \in Nat
          BY Zenon
        <5> QED
          BY <1>8, <3>3, <5>1, <5>2, <5>3
      <4> QED
        BY <1>0, <4>1, <4>2
    <3> QED
      BY <1>8, <2>3, <3>1, <3>2, <3>4, <3>5, Zenon
  <2> QED
    BY <2>1, <2>2, <2>3, Zenon
<1> QED
  BY <1>9, <1>10, <1>12, Zenon DEF GateCounts

\* A tick: the requests let through count anew, and a blocked client grows idle as its block ends.
LEMMA TimePassesStep ==
    ASSUME GateCounts, TimePasses
    PROVE  GateCounts'
<1> USE GuiGateAssumption
<1>0. sec \in [Browser -> ClientState \cup {None}] /\ burst \in [Browser -> [Scope -> Nat]]
  BY Zenon DEF GateCounts
<1>1. ASSUME NEW c \in Browser, sec[c] # None,
             NEW st, st = [sec[c] EXCEPT !.idle = Up(@, PruneTicks + 1), !.block = Down(@)]
      PROVE  Counted(st)
  <2>0. /\ sec[c] \in ClientState /\ sec[c].idle \in 0 .. PruneTicks + 1 /\ sec[c].block \in 0 .. BlockTicks
        /\ sec[c].violations \in Nat
    BY <1>0, <1>1, Zenon DEF ClientState
  <2>1. /\ Up(sec[c].idle, PruneTicks + 1) \in 0 .. PruneTicks + 1
        /\ Up(sec[c].idle, PruneTicks + 1) = sec[c].idle + 1 \/ Up(sec[c].idle, PruneTicks + 1) = PruneTicks + 1
    BY <2>0 DEF Up, LeastOf
  <2>2. Down(sec[c].block) \in 0 .. BlockTicks /\ Down(sec[c].block) + 1 >= sec[c].block
    BY <2>0 DEF Down
  <2>3. /\ st \in ClientState /\ st.violations = sec[c].violations
        /\ st.idle = Up(sec[c].idle, PruneTicks + 1) /\ st.block = Down(sec[c].block)
    BY <1>1, <2>0, <2>1, <2>2, Zenon DEF ClientState
  <2>4. Counted(sec[c])
    BY <1>1, KnownCounted, Zenon
  <2>5. CASE st.idle = sec[c].idle + 1
    <3>1. st.block + st.idle >= sec[c].block + sec[c].idle
      BY <2>0, <2>2, <2>3, <2>5
    <3>2. sec[c].idle # PruneTicks + 1
      BY <2>0, <2>1, <2>3, <2>5
    <3>3. st.block \in Nat /\ st.idle \in Nat
      BY <2>1, <2>2, <2>3
    <3> QED
      BY <2>0, <2>3, <2>4, <3>1, <3>2, <3>3 DEF Counted
  <2>6. CASE st.idle = PruneTicks + 1
    BY <2>3, <2>4, <2>6, Zenon DEF Counted
  <2> QED
    BY <2>1, <2>3, <2>5, <2>6, Zenon
<1>2. ASSUME NEW c \in Browser
      PROVE  sec'[c] = None \/ Counted(sec'[c])
  BY <1>1, Zenon DEF TimePasses
<1>3. sec' \in [Browser -> ClientState \cup {None}]
  <2>1. sec' = [c \in Browser |-> sec'[c]]
    BY Zenon DEF TimePasses
  <2>2. \A c \in Browser : sec'[c] \in ClientState \cup {None}
    BY <1>2, Zenon DEF Counted
  <2> QED
    BY <2>1, <2>2, Zenon
<1>4. burst' \in [Browser -> [Scope -> Nat]] /\ BucketDrawn'
  <2>1. burst' = [c \in Browser |-> [s \in Scope |-> 0]]
    BY Zenon DEF TimePasses, NoBurst
  <2>2. \A c \in Browser, s \in Scope : burst'[c][s] = 0
    BY <2>1, Zenon
  <2>3. BucketDrawn'
    BY <2>2 DEF BucketDrawn
  <2>4. burst' \in [Browser -> [Scope -> Nat]]
    BY <2>1, Zenon
  <2> QED
    BY <2>3, <2>4, Zenon
<1>5. BlockCounts'
  BY <1>2, Zenon DEF BlockCounts, Counted
<1> QED
  BY <1>3, <1>4, <1>5, Zenon DEF GateCounts

\* The rest of the invariant: the account, the lock-out, the sessions and the proxy.
AccountKept ==
    /\ failures \in LoginRecord \cup {None}
    /\ auth \in Password \cup {None} /\ settingUp \in [Browser -> 0 .. MaxSetups]
    /\ session \in [Browser -> 0 .. SessionTicks]
    /\ forwarded \in [caller : Bearer, session : BOOLEAN, sent : Bearer]
    /\ LockOutlastsWindow /\ NeverElevated

\* A failed login that is allowed: it counts, or counting starts again.
LEMMA FailureStep ==
    ASSUME failures \in LoginRecord \cup {None}, LockOutlastsWindow, canAttemptLogin,
           NEW f, f = registerFailedLogin
    PROVE  /\ f \in LoginRecord
           /\ f.count >= Threshold => f.count = Threshold /\ f.lock + f.age >= loginLockoutDuration
<1> USE GuiGateAssumption
<1>1. CASE AfterAttempt = None
  <2>1. f = [count |-> 1, age |-> 0, lock |-> 0]
    BY <1>1, Zenon DEF registerFailedLogin
  <2> QED
    BY <2>1 DEF LoginRecord, loginFailureWindow, loginLockoutDuration
<1>2. CASE AfterAttempt # None
  <2>1. failures # None /\ AfterAttempt = failures /\ failures.age <= loginFailureWindow /\ failures.lock = 0
    BY <1>2 DEF AfterAttempt, canAttemptLogin, LoginRecord, loginFailureWindow
  <2>2. /\ failures \in LoginRecord /\ failures.count \in Nat \ {0}
        /\ failures.age \in 0 .. loginFailureWindow + 1
    BY <2>1, Zenon DEF LoginRecord
  <2>3. failures.count < Threshold
    BY <2>1, <2>2 DEF LockOutlastsWindow, loginFailureWindow, loginLockoutDuration
  <2>4. f = [failures EXCEPT !.count = failures.count + 1,
                             !.lock = IF failures.count + 1 >= Threshold THEN loginLockoutDuration ELSE 0]
    BY <1>2, <2>1, Zenon DEF registerFailedLogin
  <2>5. PICK l \in 0 .. loginLockoutDuration :
          l = IF failures.count + 1 >= Threshold THEN loginLockoutDuration ELSE 0
    BY DEF loginLockoutDuration
  <2>6. f \in LoginRecord /\ f.count = failures.count + 1 /\ f.age = failures.age /\ f.lock = l
    <3>1. failures.count + 1 \in Nat \ {0}
      BY <2>2
    <3>2. f = [failures EXCEPT !.count = failures.count + 1, !.lock = l]
      BY <2>4, <2>5, Zenon
    <3>3. PICK n \in Nat \ {0} : n = failures.count + 1
      BY <3>1, Zenon
    <3>4. f = [failures EXCEPT !.count = n, !.lock = l]
      BY <3>2, <3>3, Zenon
    <3>5. f \in LoginRecord /\ f.count = n /\ f.age = failures.age /\ f.lock = l
      BY ONLY <2>2, <3>4, n \in Nat \ {0}, l \in 0 .. loginLockoutDuration, Zenon DEF LoginRecord
    <3> QED
      BY <3>3, <3>5, Zenon
  <2> QED
    <3>1. failures.count \in Nat /\ failures.age \in 0 .. 3 /\ Threshold \in Nat
      BY <2>2 DEF loginFailureWindow
    <3> HIDE GuiGateAssumption
    <3>2. CASE failures.count + 1 >= Threshold
      <4>1. l = 3 /\ failures.count + 1 = Threshold
        BY <2>3, <2>5, <3>1, <3>2 DEF loginLockoutDuration
      <4> QED
        BY <2>6, <3>1, <4>1 DEF loginLockoutDuration
    <3>3. CASE ~ failures.count + 1 >= Threshold
      BY <2>6, <3>1, <3>3, Zenon
    <3> QED
      BY <3>2, <3>3, Zenon
<1> QED
  BY <1>1, <1>2, Zenon

\* Every step keeps the account's part.
LEMMA AccountStep ==
    ASSUME AccountKept, [GateNext]_gateVars
    PROVE  AccountKept'
<1> USE GuiGateAssumption
<1>0. SessionTicks \in 0 .. SessionTicks /\ 0 \in 0 .. SessionTicks
  OBVIOUS
<1>1. CASE TimePasses
  <2>1. UNCHANGED <<auth, settingUp, forwarded>>
    BY <1>1, Zenon DEF TimePasses
  <2>2. session' \in [Browser -> 0 .. SessionTicks]
    <3>1. \A n \in 0 .. SessionTicks : Down(n) \in 0 .. SessionTicks
      BY SMTT(30) DEF Down
    <3> QED
      BY <1>1, <3>1, Zenon DEF TimePasses, AccountKept
  <2>3. CASE failures = None
    BY <1>1, <2>1, <2>2, <2>3, Zenon DEF TimePasses, AccountKept, LockOutlastsWindow, NeverElevated
  <2>4. CASE failures # None
    <3>1. /\ failures \in LoginRecord /\ failures.age \in 0 .. 3 /\ failures.lock \in 0 .. 3
          /\ failures.count \in Nat
      BY <2>4 DEF AccountKept, LoginRecord, loginFailureWindow, loginLockoutDuration
    <3>2. /\ Up(failures.age, loginFailureWindow + 1) \in 0 .. 3
          /\ Up(failures.age, loginFailureWindow + 1) + Down(failures.lock) >= 3
                \/ failures.age + failures.lock < 3
          /\ Down(failures.lock) \in 0 .. 3
      BY <3>1, SMTT(30) DEF Up, LeastOf, Down, loginFailureWindow
    <3>3. failures' = [failures EXCEPT !.age = Up(failures.age, loginFailureWindow + 1),
                                       !.lock = Down(failures.lock)]
      BY <1>1, <2>4, Zenon DEF TimePasses
    <3>4. /\ failures' \in LoginRecord /\ failures'.count = failures.count
          /\ failures'.age = Up(failures.age, loginFailureWindow + 1)
          /\ failures'.lock = Down(failures.lock)
      <4>1. /\ Up(failures.age, loginFailureWindow + 1) \in 0 .. loginFailureWindow + 1
            /\ Down(failures.lock) \in 0 .. loginLockoutDuration
        BY <3>2 DEF loginFailureWindow, loginLockoutDuration
      <4>2. PICK a \in 0 .. loginFailureWindow + 1 : a = Up(failures.age, loginFailureWindow + 1)
        BY <4>1, Zenon
      <4>3. PICK l \in 0 .. loginLockoutDuration : l = Down(failures.lock)
        BY <4>1, Zenon
      <4>4. failures' = [failures EXCEPT !.age = a, !.lock = l]
        BY <3>3, <4>2, <4>3, Zenon
      <4>5. PICK f \in LoginRecord : f = failures
        BY <3>1, Zenon
      <4>6. failures' = [f EXCEPT !.age = a, !.lock = l]
        BY <4>4, <4>5, Zenon
      <4>7. failures' \in LoginRecord /\ failures'.count = f.count /\ failures'.age = a /\ failures'.lock = l
        BY ONLY <4>6, f \in LoginRecord, a \in 0 .. loginFailureWindow + 1, l \in 0 .. loginLockoutDuration, Zenon
           DEF LoginRecord
      <4> QED
        BY <4>2, <4>3, <4>5, <4>7, Zenon
    <3>5. LockOutlastsWindow'
      <4>1. failures.count >= Threshold =>
              failures.count = Threshold /\ failures.lock + failures.age >= 3
        BY <2>4, Zenon DEF AccountKept, LockOutlastsWindow, loginLockoutDuration
      <4> QED
        BY <3>1, <3>2, <3>4, <4>1 DEF LockOutlastsWindow, loginLockoutDuration
    <3> QED
      BY <2>1, <2>2, <3>4, <3>5, Zenon DEF AccountKept, NeverElevated
  <2> QED
    BY <2>3, <2>4, Zenon
<1>2. ASSUME NEW c \in Browser, NEW p \in Password, Login(c, p)
      PROVE  AccountKept'
  <2>1. session' \in [Browser -> 0 .. SessionTicks] /\ UNCHANGED <<auth, settingUp, forwarded>>
    BY <1>0, <1>2, Zenon DEF Login, createSession, AccountKept
  <2>2. failures' \in LoginRecord \cup {None} /\ LockOutlastsWindow'
    <3>1. CASE failures' = None
      BY <3>1, Zenon DEF LockOutlastsWindow
    <3>2. CASE failures' = registerFailedLogin
      BY <1>2, <3>2, FailureStep, Zenon DEF Login, AccountKept, LockOutlastsWindow
    <3> QED
      BY <1>2, <3>1, <3>2, Zenon DEF Login
  <2> QED
    BY <2>1, <2>2, Zenon DEF AccountKept, NeverElevated
<1>3. ASSUME NEW c \in Browser, NEW p \in Password, Setup(c, p)
      PROVE  AccountKept'
  <2>1. settingUp' \in [Browser -> 0 .. MaxSetups]
    BY <1>3 DEF Setup, AccountKept
  <2> QED
    BY <1>3, <2>1, Zenon DEF Setup, AccountKept, LockOutlastsWindow, NeverElevated
<1>4. ASSUME NEW c \in Browser, SetupSaved(c) \/ SetupFailed(c)
      PROVE  AccountKept'
  <2>1. settingUp' \in [Browser -> 0 .. MaxSetups]
    BY <1>4 DEF SetupSaved, SetupFailed, AccountKept
  <2>2. session' \in [Browser -> 0 .. SessionTicks]
    BY <1>0, <1>4, Zenon DEF SetupSaved, SetupFailed, createSession, AccountKept
  <2> QED
    BY <1>4, <2>1, <2>2, Zenon DEF SetupSaved, SetupFailed, AccountKept, LockOutlastsWindow, NeverElevated
<1>5. ASSUME NEW c \in Browser,
             \/ \E s \in Scope : GateRefuse(c, s)
             \/ LoginLocked(c) \/ Logout(c) \/ Browse(c)
             \/ \E current, new \in Password : ChangePassword(c, current, new)
      PROVE  AccountKept'
  <2>1. UNCHANGED <<failures, settingUp, forwarded>> /\ auth' \in Password \cup {None}
    BY <1>5, Zenon DEF GateRefuse, LoginLocked, Logout, Browse, ChangePassword, AccountKept
  <2>2. session' \in [Browser -> 0 .. SessionTicks]
    BY <1>0, <1>5, Zenon DEF GateRefuse, LoginLocked, Logout, Browse, ChangePassword, AccountKept
  <2> QED
    BY <2>1, <2>2, Zenon DEF AccountKept, LockOutlastsWindow, NeverElevated
<1>6. ASSUME NEW c \in Browser, NEW bearer \in Bearer, ManagerProxy(c, bearer)
      PROVE  AccountKept'
  <2>1. PICK sent : sent = managerForwardHeaders(bearer, requestHasValidGuiSession(c))
    BY Zenon
  <2>2. PICK has \in BOOLEAN : has = requestHasValidGuiSession(c)
    BY Zenon DEF requestHasValidGuiSession
  <2>3. forwarded' = [caller |-> bearer, session |-> has, sent |-> sent]
    BY <1>6, <2>1, <2>2, Zenon DEF ManagerProxy
  <2>4. sent \in Bearer /\ (sent = "manager" => bearer = "manager" \/ (bearer = None /\ has))
    BY <2>1, <2>2, Zenon DEF managerForwardHeaders, Bearer
  <2>5. forwarded' \in [caller : Bearer, session : BOOLEAN, sent : Bearer] /\ NeverElevated'
    BY <2>3, <2>4, Zenon DEF NeverElevated
  <2> QED
    BY <1>6, <2>5, Zenon DEF ManagerProxy, AccountKept, LockOutlastsWindow
<1>7. CASE UNCHANGED gateVars
  BY <1>7, Zenon DEF gateVars, AccountKept, LockOutlastsWindow, NeverElevated
<1> QED
  BY <1>1, <1>2, <1>3, <1>4, <1>5, <1>6, <1>7, Zenon DEF GateNext, GateRequest

\* Every step keeps the gate's part.
LEMMA CountsStep ==
    ASSUME GateCounts, [GateNext]_gateVars
    PROVE  GateCounts'
<1>1. ASSUME NEW c \in Browser, NEW s \in Scope, NEW passes \in BOOLEAN, Guard(c, s, passes)
      PROVE  GateCounts'
  BY <1>1, RequestStep, Zenon
<1>2. CASE UNCHANGED <<sec, burst>>
  BY <1>2, Zenon DEF GateCounts, BucketDrawn, BlockCounts
<1>3. "api" \in Scope /\ "auth" \in Scope /\ {"api", "websocket"} \subseteq Scope
  BY Zenon DEF Scope
<1>4. ASSUME NEW c \in Browser, GateRequest(c)
      PROVE  GateCounts'
  BY <1>1, <1>2, <1>3, <1>4, Zenon DEF GateRequest, GateRefuse, Login, LoginLocked, Setup, SetupSaved, SetupFailed,
     ChangePassword, Logout, Browse, ManagerProxy, gate
<1> QED
  BY <1>2, <1>4, TimePassesStep, Zenon DEF GateNext, gateVars

\* No mixture of requests gets more through at once than a bucket holds, neither a block nor a
\* lock-out is renewed by what came before it, and no delegated credential becomes the manager's.
THEOREM GateSoundCorrect == GateSpec => []GateSound
<1> DEFINE Inv == GateCounts /\ AccountKept
<1>1. GateInit => Inv
  <2> SUFFICES ASSUME GateInit PROVE Inv
    BY Zenon
  <2>1. GateCounts
    BY DEF GateInit, GateCounts, NoBurst, BucketDrawn, BlockCounts
  <2>2. 0 \in 0 .. MaxSetups /\ 0 \in 0 .. SessionTicks
    BY GuiGateAssumption
  <2>3. NoForward \in [caller : Bearer, session : BOOLEAN, sent : Bearer] /\ NoForward.sent # "manager"
    BY GuiGateAssumption, Zenon DEF NoForward, Bearer
  <2>4. AccountKept
    BY <2>2, <2>3, Zenon DEF GateInit, AccountKept, LockOutlastsWindow, NeverElevated
  <2> QED
    BY <2>1, <2>4, Zenon
<1>2. Inv /\ [GateNext]_gateVars => Inv'
  BY CountsStep, AccountStep, Zenon
<1>3. Inv => GateSound
  <2> SUFFICES ASSUME Inv PROVE GateSound
    BY Zenon
  <2> USE GuiGateAssumption
  <2>1. GateTypeOK /\ NeverElevated
    BY Zenon DEF GateTypeOK, GateCounts, AccountKept
  <2>2. BurstBounded
    <3> SUFFICES ASSUME NEW c \in Browser, NEW s \in Scope PROVE burst[c][s] * Unit <= Capacity[s]
      BY Zenon DEF BurstBounded
    <3>1. burst[c][s] \in Nat /\ Capacity[s] \in Nat /\ Unit \in Nat
      BY Zenon DEF GateCounts
    <3>2. CASE burst[c][s] = 0
      BY <3>1, <3>2
    <3>3. CASE burst[c][s] > 0
      <4>1. sec[c].tokens \in Nat /\ sec[c].tokens + burst[c][s] * Unit <= Capacity[s]
        BY <3>3, Zenon DEF GateCounts, BucketDrawn, ClientState
      <4>2. PICK b \in Nat : b = burst[c][s] * Unit
        BY <3>1
      <4> QED
        BY <3>1, <4>1, <4>2
    <3> QED
      BY <3>1, <3>2, <3>3
  <2>3. NoRelapse
    BY DEF NoRelapse, GateCounts, BlockCounts, ClientState
  <2>4. FreshAfterLockout
    BY DEF FreshAfterLockout, AccountKept, LockOutlastsWindow, LoginRecord
  <2> QED
    BY <2>1, <2>2, <2>3, <2>4, Zenon DEF GateSound
<1> QED
  BY <1>1, <1>2, <1>3, PTL DEF GateSpec

\* Of two browsers that both saw the setup page only the first sets the account: afterwards it
\* changes only with the password, also while the first is still waiting for the disk.
THEOREM SetupWinsOnceCorrect == GateSpec => SetupWinsOnce
<1>1. ASSUME [GateNext]_gateVars, auth # None, auth' # auth
      PROVE  \E c \in Browser, new \in Password : ChangePassword(c, auth, new)
  BY <1>1, Zenon DEF GateNext, GateRequest, TimePasses, GateRefuse, Login, LoginLocked, Setup, setupAllowed,
     SetupSaved, SetupFailed, Logout, Browse, ManagerProxy, ChangePassword, gateVars
<1> QED
  BY <1>1, PTL DEF GateSpec, SetupWinsOnce
=============================================================================
