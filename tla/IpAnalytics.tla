---------------------------- MODULE IpAnalytics ----------------------------
(***************************************************************************)
(* The table of addresses on the performance page (ipAnalytics.ts and      *)
(* buildIpAnalytics in index.ts of src/FerrumGUI/src): the logins and the  *)
(* connections that FerrumProxy records, joined by address, and a place    *)
(* looked up for a few addresses at a time.                                *)
(***************************************************************************)
EXTENDS Common, Sequences, SequencesExt, FiniteSetsExt

CONSTANTS
    Ip, Username,
    PrivateIp,      \* isPublicIp is false of them
    MaxRecords,     \* bound: records in a file
    MaxCount,       \* bound: connections in a record
    LookupBatch     \* addresses looked up per request

VARIABLES
    players,        \* playerIP.json: a login record per address of a player
    connections,    \* connectionIP.json
    rest,           \* the records the request has not yet read
    byIp, tracked,
    geo             \* geo of the performance cache: None of an address not asked about

records == <<players, connections>>
analyticsVars == <<records, rest, byIp, tracked, geo>>

\* Records without a count are written as 0.
LoginRecord == [ip : Ip, connections : 0 .. MaxCount, username : Username]
ConnectionRecord == [ip : Ip, connections : 0 .. MaxCount]

NoIps == [order |-> <<>>, connections |-> [ip \in Ip |-> 0], players |-> [ip \in Ip |-> {}]]

AnalyticsInit ==
    /\ players \in BoundedSeq(LoginRecord, MaxRecords)
    /\ connections \in BoundedSeq(ConnectionRecord, MaxRecords)
    /\ rest = [players |-> players, connections |-> connections]
    /\ byIp = NoIps /\ tracked = {} /\ geo = [ip \in Ip |-> None]

-----------------------------------------------------------------------------
(* aggregateConnectionIps: a map in the order in which addresses appear.   *)

AtLeastOne(n) == IF n = 0 THEN 1 ELSE n

Listed(ip) == IF Contains(byIp.order, ip) THEN byIp.order ELSE Append(byIp.order, ip)

AddLogin ==
    LET r == Head(rest.players) IN
    /\ rest.players # <<>>
    /\ rest' = [rest EXCEPT !.players = Tail(@)]
    /\ byIp' = [byIp EXCEPT !.order = Listed(r.ip), !.connections[r.ip] = @ + AtLeastOne(r.connections),
                            !.players[r.ip] = @ \cup {r.username}]
    /\ UNCHANGED <<records, tracked, geo>>

Counted_onTop(ip) == byIp.connections[ip]

\* The first connection record of an address throws away what the logins counted.
Counted(ip) == IF ip \in tracked THEN byIp.connections[ip] ELSE 0

AddConnection ==
    LET r == Head(rest.connections) IN
    /\ rest.players = <<>> /\ rest.connections # <<>>
    /\ rest' = [rest EXCEPT !.connections = Tail(@)]
    /\ byIp' = [byIp EXCEPT !.order = Listed(r.ip),
                            !.connections[r.ip] = Counted(r.ip) + AtLeastOne(r.connections)]
    /\ tracked' = tracked \cup {r.ip}
    /\ UNCHANGED <<records, geo>>

-----------------------------------------------------------------------------
(* buildIpAnalytics.                                                       *)

\* resolveIpLocation: no place for a private address, or when the service fails.
Located(ip) == IF ip \in PrivateIp THEN {"nowhere"} ELSE {"place", "nowhere"}

Remembered_placesOnly(before, answer) == IF answer = "place" THEN answer ELSE before

\* An address without a place is remembered too.
Remembered(before, answer) == answer

Aggregated == rest.players = <<>> /\ rest.connections = <<>>

\* The table is complete: places for the first addresses without one, and the next request.
BuildIpAnalytics ==
    LET missing == SelectSeq(byIp.order, LAMBDA ip : geo[ip] = None)
        unresolved == ToSet(SubSeq(missing, 1, Min({LookupBatch, Len(missing)}))) IN
    /\ Aggregated
    /\ \E answer \in [unresolved -> {"place", "nowhere"}] :
           /\ \A ip \in unresolved : answer[ip] \in Located(ip)
           /\ geo' = [ip \in Ip |-> IF ip \in unresolved THEN Remembered(geo[ip], answer[ip]) ELSE geo[ip]]
    /\ rest' = [players |-> players, connections |-> connections]
    /\ byIp' = NoIps /\ tracked' = {}
    /\ UNCHANGED records

AnalyticsNext == AddLogin \/ AddConnection \/ BuildIpAnalytics

AnalyticsSpec == AnalyticsInit /\ [][AnalyticsNext]_analyticsVars /\ WF_analyticsVars(AnalyticsNext)

-----------------------------------------------------------------------------

\* Each variable has its type, and aggregateConnectionIps lists exactly the addresses it counted at
\* least one connection for, whatever the counts in the records are.
AnalyticsTypeOK ==
    /\ players \in Seq(LoginRecord) /\ connections \in Seq(ConnectionRecord)
    /\ geo \in [Ip -> {None, "place", "nowhere"}] /\ tracked \subseteq ToSet(byIp.order)
    /\ \A ip \in Ip : byIp.connections[ip] \in Nat /\ (byIp.connections[ip] > 0 <=> Contains(byIp.order, ip))

RecordsOf(s, ip) == SelectSeq(s, LAMBDA r : r.ip = ip)
CountOf(s) == FoldSeq(LAMBDA r, n : n + AtLeastOne(r.connections), 0, s)

\* Whatever the order of the records, an address is listed once, with the connections
\* recorded for it if there are any and else its logins, never both ("TCP/UDP totals are
\* authoritative for each IP"), and with every player who logged in from it.
AuthoritativeTotals ==
    Aggregated =>
        /\ IsInjective(byIp.order)
        /\ \A ip \in Ip :
               LET own == RecordsOf(connections, ip)
                   logins == RecordsOf(players, ip) IN
               /\ byIp.connections[ip] = CountOf(IF own = <<>> THEN logins ELSE own)
               /\ byIp.players[ip] = {r.username : r \in ToSet(logins)}

\* Every recorded address is asked about in the end: addresses that have no place do not
\* use up the few lookups of every request, because buildIpAnalytics remembers them.
EveryAddressAsked ==
    \A ip \in Ip : (\E r \in ToSet(players) \cup ToSet(connections) : r.ip = ip) ~> geo[ip] # None

\* The table of addresses is sound: the types, and the totals of every order of records.
AnalyticsSound == AnalyticsTypeOK /\ AuthoritativeTotals
=============================================================================
