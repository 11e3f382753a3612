---------------------------- MODULE ReleaseCache ----------------------------
(***************************************************************************)
(* Which release the web GUI installs (src/FerrumGUI/src/downloader.ts):   *)
(* the manifest version.json, the cache of one hour in front of it, and    *)
(* the requests that check, update and create by it.  Every request may    *)
(* have a fetch in flight, and fetches settle in any order.                *)
(*                                                                         *)
(* Version 0 is the placeholder "latest" that stands in for a manifest     *)
(* that could not be had; it has no assets.  A later version is a larger   *)
(* number.  The cached list "all" is left out: every caller forces a fetch *)
(* past it.  Two updates of one instance do not overlap, because the page  *)
(* offers none while it shows one in progress.                             *)
(***************************************************************************)
EXTENDS Common, FiniteSets

CONSTANTS
    Check,          \* forced requests for the release, of any page
    MaxVersion,     \* bound: versions that are published
    CacheTicks,     \* CACHE_DURATION
    FetchTicks      \* bound: how long a fetch is in flight, which has no time-out

Install == {"update", "create"}
Caller == Check \cup Install
Version == 1 .. MaxVersion

ASSUME ReleaseCacheAssumption ==
    /\ MaxVersion \in Nat \ {0} /\ CacheTicks \in Nat /\ FetchTicks \in Nat
    /\ Check \cap Install = {} /\ None \notin 0 .. MaxVersion /\ None \notin Install

VARIABLES
    published,      \* the version the manifest names
    superseded,     \* how long each version has not been the newest, and no longer counted at the limit
    latest,         \* releaseCache, key "latest"
    inFlight,       \* the manifest each caller is about to receive
    target,         \* what the update or create in progress found first
    inst            \* an instance: the version in its record, and that of its binary

releaseVars == <<published, superseded, latest, inFlight, target, inst>>

NoFetch == [version |-> None, age |-> 0]
NoInstance == [recorded |-> 0, installed |-> 0, by |-> None, stale |-> 0]
Limit == CacheTicks + FetchTicks + 1

ReleaseInit ==
    /\ published = 1 /\ superseded = [v \in Version |-> 0]
    /\ latest = NoFetch
    /\ inFlight = [c \in Caller |-> NoFetch]
    /\ target = [c \in Install |-> None]
    /\ inst = NoInstance

Publish ==
    /\ published < MaxVersion /\ published' = published + 1
    /\ UNCHANGED <<superseded, latest, inFlight, target, inst>>

\* ReleaseCache.get, which also forgets what has expired.
get == IF latest.version # None /\ latest.age <= CacheTicks THEN latest.version ELSE None

MayUseCache_forAsset(c) == c = "create" \/ (c = "update" /\ target["update"] # None)

\* "force refresh": only POST instances takes what is in the cache.
MayUseCache(c) == c = "create"

\* fetchVersionManifest: what the server answers now, or a failure.
Fetch(c) ==
    /\ inFlight[c] = NoFetch /\ (MayUseCache(c) => get = None)
    /\ \E v \in {published, 0} : inFlight' = [inFlight EXCEPT ![c] = [version |-> v, age |-> 0]]
    /\ UNCHANGED <<published, superseded, latest, target, inst>>

\* getLatestRelease keeps whatever came, the placeholder too.
Settle(c) ==
    /\ inFlight[c] # NoFetch
    /\ latest' = [version |-> inFlight[c].version, age |-> 0]
    /\ inFlight' = [inFlight EXCEPT ![c] = NoFetch]
    /\ UNCHANGED <<published, superseded>>

CheckSettles(c) == Settle(c) /\ UNCHANGED <<target, inst>>

\* The binary comes from the address in the manifest, behind which there is the release
\* it was resolved from or a later one.  The placeholder has no such address.
Installs(c, found) ==
    inst' \in IF found = 0 THEN {inst}
              ELSE {[recorded |-> target[c], installed |-> v, by |-> c,
                     stale |-> superseded[found]] : v \in found .. published}

\* POST update and POST instances ask twice: for the version, and for the asset.
Finds(c, found) ==
    \/ /\ target[c] = None
       /\ target' = [target EXCEPT ![c] =
              IF c = "update" /\ inst.recorded = found THEN None ELSE found]
       /\ UNCHANGED inst
    \/ /\ target[c] # None /\ Installs(c, found)
       /\ target' = [target EXCEPT ![c] = None]

InstallSettles(c) == Settle(c) /\ Finds(c, inFlight[c].version)

FindsInCache(c) ==
    /\ MayUseCache(c) /\ inFlight[c] = NoFetch /\ get # None
    /\ Finds(c, get)
    /\ UNCHANGED <<published, superseded, latest, inFlight>>

Older(e) == IF e.version = None THEN e ELSE [e EXCEPT !.age = Up(@, Limit)]

Hour ==
    /\ \A c \in Caller : inFlight[c].age < FetchTicks
    /\ superseded' = [v \in Version |-> IF v < published THEN Up(superseded[v], Limit) ELSE 0]
    /\ latest' = Older(latest)
    /\ inFlight' = [c \in Caller |-> IF inFlight[c] = NoFetch THEN NoFetch
                                     ELSE [inFlight[c] EXCEPT !.age = @ + 1]]
    /\ UNCHANGED <<published, target, inst>>

ReleaseNext ==
    \/ Publish \/ Hour
    \/ \E c \in Caller : Fetch(c)
    \/ \E c \in Check : CheckSettles(c)
    \/ \E c \in Install : InstallSettles(c) \/ FindsInCache(c)

ReleaseSpec == ReleaseInit /\ [][ReleaseNext]_releaseVars

-----------------------------------------------------------------------------

\* Each variable has its type, and what downloadBinary installed is a version that has been
\* published, never the placeholder of fallbackRelease.
ReleaseTypeOK ==
    /\ published \in Version /\ superseded \in [Version -> 0 .. Limit]
    /\ latest \in [version : 0 .. MaxVersion \cup {None}, age : 0 .. Limit]
    /\ inFlight \in [Caller -> [version : 0 .. MaxVersion \cup {None}, age : 0 .. FetchTicks]]
    /\ target \in [Install -> 0 .. MaxVersion \cup {None}]
    /\ inst \in [recorded : 0 .. MaxVersion, installed : 0 .. MaxVersion,
                 by : Install \cup {None}, stale : 0 .. Limit]
    /\ inst.by # None => inst.installed \in Version

\* The check for updates compares the recorded version with the newest one.  After an
\* update it never calls an instance current that runs an older binary, however its two
\* fetches and those of other pages overtook each other and whatever was published
\* meanwhile.
NeverFalselyCurrent ==
    inst.by = "update" /\ inst.recorded = published => inst.installed = published

\* What a new instance is made from had been replaced for no longer than the cache lives
\* and a fetch takes, also when a slow answer overwrote a newer one in the cache.
CreatedFresh == inst.by = "create" => inst.stale <= CacheTicks + FetchTicks

\* What is said about releases is true: the types, no instance wrongly called current, and
\* no new instance made from a release replaced long ago.
ReleaseSound == ReleaseTypeOK /\ NeverFalselyCurrent /\ CreatedFresh
=============================================================================
