------------------------------- MODULE MCParts --------------------------------
(* Parts of the system that share no state, side by side: a behaviour is one *)
(* of one part, and the others stand still.                                  *)
EXTENDS GuiConfig, ReleaseCache, PerfCache, InstanceData, ConfigPage,
        InstanceList, ClientForm, LocalShare, GuiGate, TLC

CONSTANTS o1, o2, a1, p1, p2

VARIABLE part

v1 == <<part, configVars>>
v2 == <<part, releaseVars>>
v3 == <<part, perfVars>>
v4 == <<part, metaVars>>
v5 == <<part, portVars>>
v6 == <<part, configPageVars>>
v7 == <<part, listVars>>
v8 == <<part, formVars>>
v9 == <<part, shareVars>>
v10 == <<part, gateVars>>
vars == <<v1, v2, v3, v4, v5, v6, v7, v8, v9, v10>>

Off == [enabled |-> FALSE, auto |-> FALSE, single |-> Plain("blank"), list |-> <<>>, cert |-> None]
On(list) == [Off EXCEPT !.enabled = TRUE, !.auto = TRUE, !.list = list]
Dotted(name) == [name |-> name, dot |-> TRUE]
Saves(endpoint, shared, sound, listeners) ==
    [endpoint |-> endpoint, shared |-> shared, sound |-> sound, listeners |-> listeners]

SmallDraft == {
    Saves(1, FALSE, TRUE, <<Off>>),
    Saves(2, FALSE, TRUE, <<On(<<Dotted("d1"), Plain("d1"), Plain("blank")>>),
                            [On(<<>>) EXCEPT !.single = Plain("d1")]>>),
    Saves(3, TRUE, TRUE, <<[On(<<Plain("blank")>>) EXCEPT !.single = Plain("d2")]>>),
    Saves(4, FALSE, FALSE, <<>>)}
SmallRequested == {<<Dotted("d1"), Plain("d2")>>, <<Plain("bad")>>}
SmallAdmin == {{"iptables"}}
SmallFirewalls == <<"ufw", "iptables">>

\* A clean text, and one that is changed on its way to the disk.
SmallTyped == {[content |-> "x", raw |-> FALSE, loose |-> FALSE], [content |-> "y", raw |-> TRUE, loose |-> TRUE]}

SmallLists == {<<>>, o1 :> a1, (o1 :> DefaultAddress) @@ (o2 :> a1)}

\* Limits with the shape of the defaults, scaled down.
SmallCapacity == [api |-> 6, auth |-> 4, websocket |-> 4]
SmallRefill == [api |-> 6, auth |-> 1, websocket |-> 2]

\* A part that stands still does so in one state.  Values of a configuration are alike: the disk
\* starts with any one of them.
Init ==
    /\ part \in {"config", "release", "perf", "metadata", "port", "page", "list", "form", "local",
                 "gate"}
    /\ ConfigInit
    /\ ConfigPageInit /\ \A i \in Page : disk[i].value.content = "x"
    /\ ListInit /\ (part # "list" => record = [i \in Member |-> "absent"])
    /\ FormInit /\ (part # "form" => original = DefaultForm)
    /\ GateInit /\ (part # "gate" => auth = None)
    /\ ReleaseInit /\ PerfInit /\ MetaInit /\ PortInit /\ ShareInit

Next ==
    /\ UNCHANGED part
    /\ \/ part = "config" /\ ConfigNext /\ UNCHANGED <<v2, v3, v4, v5, v6, v7, v8, v9, v10>>
       \/ part = "release" /\ ReleaseNext /\ UNCHANGED <<v1, v3, v4, v5, v6, v7, v8, v9, v10>>
       \/ part = "perf" /\ PerfNext /\ UNCHANGED <<v1, v2, v4, v5, v6, v7, v8, v9, v10>>
       \/ part = "metadata" /\ MetaNext /\ UNCHANGED <<v1, v2, v3, v5, v6, v7, v8, v9, v10>>
       \/ part = "port" /\ PortNext /\ UNCHANGED <<v1, v2, v3, v4, v6, v7, v8, v9, v10>>
       \/ part = "page" /\ ConfigPageNext /\ UNCHANGED <<v1, v2, v3, v4, v5, v7, v8, v9, v10>>
       \/ part = "list" /\ ListNext /\ UNCHANGED <<v1, v2, v3, v4, v5, v6, v8, v9, v10>>
       \/ part = "form" /\ FormNext /\ UNCHANGED <<v1, v2, v3, v4, v5, v6, v7, v9, v10>>
       \/ part = "local" /\ ShareNext /\ UNCHANGED <<v1, v2, v3, v4, v5, v6, v7, v8, v10>>
       \/ part = "gate" /\ GateNext /\ UNCHANGED <<v1, v2, v3, v4, v5, v6, v7, v8, v9>>

Spec == Init /\ [][Next]_vars

\* What a certificate does to a page that has changed meanwhile is not followed on, nor what else
\* is asked while it is ordered.  No more than two requests of the page and two of the releases are
\* in flight, there is one draft, one installation past its first answer, and one update of a
\* binary.  Of the two requests for the counters one only reads them, and not while the file or the
\* other request has a sample out of order.  A save of the form fails before the user has typed.
\* Nor is followed what their properties except: overlapping starts of the local share, an
\* overtaken answer to the page, a clean-up of port 80 that fails.
InFlight ==
    Cardinality({i \in Page : load[i] # None})
    + Cardinality({saving} \ {None}) + Cardinality({issuing} \ {None})
OutOfOrder(p) == poll[p].pc \in {"open", "fill"} /\ poll[p].cache.wrong
PerfBounds ==
    /\ poll[p2].pc \notin {"clear", "baseline"}
    /\ cacheFile \notin {None, Torn} /\ cacheFile.wrong => poll[p2] = NoPoll
    /\ \A p, q \in Poll : OutOfOrder(p) => poll[q].pc \notin {"name", "load", "clear", "baseline"}
Bounds ==
    /\ InFlight <= 2 /\ (issuing # None => InFlight = 1)
    /\ Cardinality({i \in Page : configDrafts[i] # None}) <= 1
    /\ Cardinality({c \in Caller : inFlight[c] # NoFetch}) <= 2 /\ \E c \in Install : target[c] = None
    /\ \E i \in Inst : updatingPort[i] = None
    /\ PerfBounds /\ (unsaved => ~changed)
    /\ ~belated /\ ~overlapped /\ ~overtaken /\ uncleaned = {}
=============================================================================
