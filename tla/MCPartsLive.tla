----------------------------- MODULE MCPartsLive -----------------------------
(* Parts of the system with a liveness property or an abstract specification, *)
(* side by side: a behaviour is one of one part, and the others stand still.  *)
EXTENDS IpAnalytics, UpdatePage, ClientView, SelfUpdate, CertificateSync, DdosGuard

VARIABLE part

v1 == <<part, analyticsVars>>
v2 == <<part, updateVars>>
v3 == <<part, guiVars>>
v4 == <<part, sessionVars>>
v5 == <<part, mapVars>>
v6 == <<part, selfVars>>
v7 == <<part, certificateVars>>
v8 == <<part, guardVars>>
vars == <<v1, v2, v3, v4, v5, v6, v7, v8>>

SmallRate == [b \in Bucket |-> 1]
SmallBurst == [b \in Bucket |-> 2]

\* A part that stands still does so in one state.
Init ==
    /\ part \in {"analytics", "update", "gui", "session", "map", "self", "certificate", "guard"}
    /\ SelfInit /\ (part # "self" => way = "unix")
    /\ AnalyticsInit /\ (part # "analytics" => players = <<>> /\ connections = <<>>)
    /\ UpdateInit /\ GuiInit /\ SessionInit /\ MapInit /\ CertificateInit /\ GuardInit

Next ==
    /\ UNCHANGED part
    /\ \/ part = "analytics" /\ AnalyticsNext /\ UNCHANGED <<v2, v3, v4, v5, v6, v7, v8>>
       \/ part = "update" /\ UpdateNext /\ UNCHANGED <<v1, v3, v4, v5, v6, v7, v8>>
       \/ part = "gui" /\ GuiNext /\ UNCHANGED <<v1, v2, v4, v5, v6, v7, v8>>
       \/ part = "session" /\ SessionNext /\ UNCHANGED <<v1, v2, v3, v5, v6, v7, v8>>
       \/ part = "map" /\ MapNext /\ UNCHANGED <<v1, v2, v3, v4, v6, v7, v8>>
       \/ part = "self" /\ SelfNext /\ UNCHANGED <<v1, v2, v3, v4, v5, v7, v8>>
       \/ part = "certificate" /\ CertificateNext /\ UNCHANGED <<v1, v2, v3, v4, v5, v6, v8>>
       \/ part = "guard" /\ GuardNext /\ UNCHANGED <<v1, v2, v3, v4, v5, v6, v7>>

\* The fairness of each part.  Of analytics and certificate it speaks only while they are the part
\* that moves: their steps are possible in the state in which they stand still.
FairSpec ==
    /\ Init /\ [][Next]_vars
    /\ WF_analyticsVars(part = "analytics" /\ AnalyticsNext)
    /\ WF_certificateVars(part = "certificate" /\ PluginStep)
    /\ WF_certificateVars(part = "certificate" /\ GeyserStep)
    /\ UpdateFairness /\ GuiFairness /\ SessionFairness /\ MapFairness /\ SelfFairness
=============================================================================
