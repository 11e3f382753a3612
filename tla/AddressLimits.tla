---------------------------- MODULE AddressLimits ----------------------------
(***************************************************************************)
(* What the DDoS guard promises about one remote address, for as long as   *)
(* the proxy runs: levels that refill with time, strikes that are forgiven *)
(* after a calm while, blocks that grow with the strikes.  Nothing here is *)
(* ever forgotten to save memory.                                          *)
(***************************************************************************)
EXTENDS Integers

CONSTANTS Source, Bucket, Rate, Burst, MaxActive, MaxDatagram, Size,
          DecayAfter, TempBlockAfter, TempBlockBase, TempBlockMax, MaxViolations

VARIABLE limits

Least(a, b) == IF a <= b THEN a ELSE b

\* calm is the time since the last strike, and 0 of an address that has none.
Untouched ==
    [active |-> 0, level |-> Burst, strikes |-> 0, calm |-> 0, block |-> 0]

Init == limits = [a \in Source |-> Untouched]

Becomes(a, st) == limits' = [limits EXCEPT ![a] = st]

Less(level, b, n) == [level EXCEPT ![b] = @ - n]

Connect(a) ==
    /\ limits[a].block = 0 /\ limits[a].active < MaxActive /\ limits[a].level["tcp"] >= 1
    /\ Becomes(a, [limits[a] EXCEPT !.active = @ + 1, !.level = Less(@, "tcp", 1)])

Disconnect(a) ==
    /\ limits[a].active > 0
    /\ Becomes(a, [limits[a] EXCEPT !.active = @ - 1])

Datagram(a, n) ==
    /\ limits[a].block = 0 /\ n <= MaxDatagram
    /\ limits[a].level["packets"] >= 1 /\ limits[a].level["bytes"] >= n
    /\ Becomes(a, [limits[a] EXCEPT !.level = Less(Less(@, "packets", 1), "bytes", n)])

Struck(st) ==
    LET v == Least(st.strikes + 1, MaxViolations) IN
    [st EXCEPT !.strikes = v, !.calm = 0,
               !.block = IF v >= TempBlockAfter
                         THEN Least(TempBlockBase * (v - TempBlockAfter + 1), TempBlockMax) ELSE 0]

\* Against an address that is not blocked, for a call that used up this many packets.
Strike(a, packets) ==
    /\ limits[a].block = 0 /\ packets <= limits[a].level["packets"]
    /\ Becomes(a, Struck([limits[a] EXCEPT !.level["packets"] = @ - packets]))

ConnectTooMany(a) ==
    /\ limits[a].active >= MaxActive \/ limits[a].level["tcp"] < 1
    /\ Strike(a, 0)

\* A datagram that is refused for its bytes has used up its packet.
DatagramTooMany(a, n) ==
    \/ (n > MaxDatagram \/ limits[a].level["packets"] < 1) /\ Strike(a, 0)
    \/ n <= MaxDatagram /\ limits[a].level["bytes"] < n /\ Strike(a, 1)

Rested(st) ==
    LET forgiven == st.strikes = 0 \/ st.calm >= DecayAfter IN
    [st EXCEPT !.level = [b \in Bucket |-> Least(@[b] + Rate[b], Burst[b])],
               !.strikes = IF forgiven THEN 0 ELSE @,
               !.calm = IF forgiven THEN 0 ELSE @ + 1,
               !.block = IF @ > 0 THEN @ - 1 ELSE 0]

Tick == limits' = [a \in Source |-> Rested(limits[a])]

Next ==
    \/ Tick
    \/ \E a \in Source :
           \/ Connect(a) \/ Disconnect(a) \/ ConnectTooMany(a)
           \/ \E n \in Size : Datagram(a, n) \/ DatagramTooMany(a, n)

Spec == Init /\ [][Next]_limits
=============================================================================
