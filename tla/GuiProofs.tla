----------------------------- MODULE GuiProofs -----------------------------
(***************************************************************************)
(* Parts of the web GUI that share no state, each for every value of its   *)
(* constants: the release it installs, the exchange of its own executable, *)
(* and the firewall rule it opens for a certificate.                       *)
(***************************************************************************)
EXTENDS ReleaseCache, SelfUpdate, GuiConfig, FiniteSetTheorems, TLAPS

-----------------------------------------------------------------------------
(* The release.                                                            *)

\* What is in flight or cached has been published, and has been replaced no longer than that
\* took; the second manifest of an update is not older than the first.
FetchesKnown ==
    /\ \A v \in Version : v >= published => superseded[v] = 0
    /\ \A c \in Caller : inFlight[c] # NoFetch =>
          /\ inFlight[c].version \in 0 .. published
          /\ inFlight[c].version # 0 => superseded[inFlight[c].version] <= inFlight[c].age
    /\ latest.version # None =>
          /\ latest.version \in 0 .. published
          /\ latest.version # 0 => superseded[latest.version] <= latest.age + FetchTicks
    /\ \A c \in Install : target[c] # None => target[c] \in 0 .. published
    /\ target["update"] # None /\ inFlight["update"] # NoFetch /\ inFlight["update"].version # 0 =>
          target["update"] <= inFlight["update"].version

\* An update records no later version than it installs.
RecordedFirst ==
    inst.by = "update" => inst.recorded <= inst.installed /\ inst.installed <= published

ReleaseInvariant == ReleaseTypeOK /\ FetchesKnown /\ RecordedFirst /\ CreatedFresh

\* The manifest as an answer carries it.
Manifest == [version : 0 .. MaxVersion \cup {None}, age : 0 .. FetchTicks]

\* A version an update or a create may come by: published, and replaced not too long ago.
Fresh(found) ==
    /\ found \in 0 .. published
    /\ found # 0 => superseded[found] <= CacheTicks + FetchTicks

\* One more hour, for a count that stops at the limit.
LEMMA HourCounts ==
    ASSUME NEW n \in 0 .. Limit
    PROVE  /\ Up(n, Limit) \in 0 .. Limit /\ n <= Up(n, Limit) /\ Up(n, Limit) <= n + 1
           /\ Up(n, Limit) = n + 1 \/ Up(n, Limit) = Limit
BY ReleaseCacheAssumption DEF Up, LeastOf, Limit

\* What the manifest says now.
LEMMA FetchStep ==
    ASSUME ReleaseInvariant, NEW c \in Caller, Fetch(c)
    PROVE  ReleaseInvariant'
<1> USE ReleaseCacheAssumption
<1>0. ReleaseTypeOK /\ FetchesKnown /\ RecordedFirst /\ CreatedFresh
  BY Zenon DEF ReleaseInvariant
<1>1. inFlight \in [Caller -> Manifest] /\ published \in Version
  BY <1>0, Zenon DEF ReleaseTypeOK, Manifest
<1>2. PICK v \in {published, 0} : inFlight' = [inFlight EXCEPT ![c] = [version |-> v, age |-> 0]]
  BY Zenon DEF Fetch
<1>3. UNCHANGED <<published, superseded, latest, target, inst>>
  BY Zenon DEF Fetch
<1>4. [version |-> v, age |-> 0] \in Manifest /\ v \in 0 .. published
  BY <1>1 DEF Manifest, Version
<1>5. inFlight' \in [Caller -> Manifest]
  BY <1>1, <1>2, <1>4, Zenon
<1>6. ReleaseTypeOK'
  BY <1>0, <1>3, <1>5, Zenon DEF ReleaseTypeOK, Manifest
<1>7. v # 0 => superseded[v] = 0
  BY <1>0, <1>1, SMTT(30) DEF FetchesKnown, Version
<1>8. ASSUME NEW d \in Caller, inFlight'[d] # NoFetch
      PROVE  /\ inFlight'[d].version \in 0 .. published
             /\ inFlight'[d].version # 0 => superseded[inFlight'[d].version] <= inFlight'[d].age
  <2>1. CASE d = c
    BY <1>1, <1>2, <1>4, <1>7, <2>1, SMTT(30)
  <2>2. CASE d # c
    BY <1>0, <1>1, <1>2, <1>8, <2>2, Zenon DEF FetchesKnown
  <2> QED
    BY <2>1, <2>2, Zenon
<1>9. target["update"] # None /\ inFlight'["update"] # NoFetch /\ inFlight'["update"].version # 0 =>
          target["update"] <= inFlight'["update"].version
  <2>1. CASE c = "update"
    <3>1. inFlight'["update"].version = v
      BY <1>1, <1>2, <2>1, Zenon
    <3>2. target["update"] # None => target["update"] \in 0 .. published
      BY <1>0, Zenon DEF FetchesKnown, Install
    <3> QED
      BY <1>1, <3>1, <3>2 DEF Version
  <2>2. CASE c # "update"
    BY <1>0, <1>1, <1>2, <2>2, SMTT(30) DEF FetchesKnown
  <2> QED
    BY <2>1, <2>2, Zenon
<1>10. FetchesKnown'
  BY <1>0, <1>3, <1>8, <1>9, Zenon DEF FetchesKnown
<1>11. RecordedFirst' /\ CreatedFresh'
  BY <1>0, <1>3, Zenon DEF RecordedFirst, CreatedFresh
<1> QED
  BY <1>6, <1>10, <1>11, Zenon DEF ReleaseInvariant

\* An answer that arrives is cached, and what it says is fresh enough.
LEMMA SettleStep ==
    ASSUME ReleaseInvariant, NEW c \in Caller, Settle(c),
           target' \in [Install -> 0 .. MaxVersion \cup {None}],
           \A d \in Install : target'[d] # None => target'[d] \in 0 .. published,
           target'["update"] = target["update"] \/ c = "update"
    PROVE  /\ FetchesKnown' /\ latest' \in Manifest
           /\ inFlight' \in [Caller -> Manifest]
           /\ Fresh(inFlight[c].version) /\ inFlight[c].version \in 0 .. MaxVersion
<1> USE ReleaseCacheAssumption
<1>0. ReleaseTypeOK /\ FetchesKnown
  BY Zenon DEF ReleaseInvariant
<1>1. inFlight \in [Caller -> Manifest] /\ published \in Version /\ superseded \in [Version -> 0 .. Limit]
  BY <1>0, Zenon DEF ReleaseTypeOK, Manifest
<1>2. PICK v, a : v = inFlight[c].version /\ a = inFlight[c].age
  BY Zenon
<1>3. /\ v \in 0 .. published /\ a \in 0 .. FetchTicks
      /\ v # 0 => superseded[v] <= a
  BY <1>0, <1>1, <1>2, Zenon DEF Settle, FetchesKnown, Manifest
<1>4. v \in 0 .. MaxVersion /\ (v # 0 => v \in Version)
  BY <1>1, <1>3 DEF Version
<1>5. latest' = [version |-> v, age |-> 0] /\ inFlight' = [inFlight EXCEPT ![c] = NoFetch]
  BY <1>2, Zenon DEF Settle
<1>6. NoFetch \in Manifest /\ [version |-> v, age |-> 0] \in Manifest
  BY <1>4 DEF NoFetch, Manifest
<1>7. inFlight' \in [Caller -> Manifest]
  BY <1>1, <1>5, <1>6, Zenon
<1>8. UNCHANGED <<published, superseded>>
  BY Zenon DEF Settle
<1>9. ASSUME NEW d \in Caller, inFlight'[d] # NoFetch
      PROVE  d # c /\ inFlight'[d] = inFlight[d]
  BY <1>1, <1>5, <1>9, Zenon
<1>10. v # 0 => superseded[v] <= FetchTicks
  BY <1>1, <1>3, <1>4
<1>11. target'["update"] # None /\ inFlight'["update"] # NoFetch /\ inFlight'["update"].version # 0 =>
          target'["update"] <= inFlight'["update"].version
  BY <1>0, <1>9, Zenon DEF FetchesKnown, Caller, Install
<1>12. FetchesKnown'
  BY <1>0, <1>3, <1>5, <1>8, <1>9, <1>10, <1>11, SMTT(30) DEF FetchesKnown
<1>13. Fresh(v)
  BY <1>1, <1>3, <1>4, <1>10 DEF Fresh
<1> QED
  BY <1>2, <1>4, <1>5, <1>6, <1>7, <1>12, <1>13, Zenon

\* What an update or a create does with a version it found.
LEMMA FindsStep ==
    ASSUME ReleaseInvariant, NEW c \in Install, NEW found \in 0 .. MaxVersion, Fresh(found),
           c = "update" /\ target["update"] # None /\ found # 0 => target["update"] <= found,
           Finds(c, found), UNCHANGED <<published, superseded>>
    PROVE  /\ target' \in [Install -> 0 .. MaxVersion \cup {None}]
           /\ \A d \in Install : target'[d] # None => target'[d] \in 0 .. published
           /\ c # "update" => target'["update"] = target["update"]
           /\ inst' \in [recorded : 0 .. MaxVersion, installed : 0 .. MaxVersion,
                         by : Install \cup {None}, stale : 0 .. Limit]
           /\ inst'.by # None => inst'.installed \in Version
           /\ RecordedFirst' /\ CreatedFresh'
<1> USE ReleaseCacheAssumption
<1>0. ReleaseTypeOK /\ FetchesKnown /\ RecordedFirst /\ CreatedFresh
  BY Zenon DEF ReleaseInvariant
<1>1. /\ published \in Version /\ superseded \in [Version -> 0 .. Limit]
      /\ target \in [Install -> 0 .. MaxVersion \cup {None}]
      /\ inst \in [recorded : 0 .. MaxVersion, installed : 0 .. MaxVersion,
                   by : Install \cup {None}, stale : 0 .. Limit]
      /\ inst.by # None => inst.installed \in Version
  BY <1>0, Zenon DEF ReleaseTypeOK
<1>2. /\ \A d \in Install : target[d] # None => target[d] \in 0 .. published
      /\ found \in 0 .. published
  BY <1>0, Zenon DEF FetchesKnown, Fresh
<1>3. PICK n \in 0 .. MaxVersion \cup {None} :
         /\ target' = [target EXCEPT ![c] = n]
         /\ n # None => n = found
  BY Zenon DEF Finds
<1>4. target' \in [Install -> 0 .. MaxVersion \cup {None}]
  BY <1>1, <1>3, Zenon
<1>5. \A d \in Install : target'[d] # None => target'[d] \in 0 .. published
  BY <1>1, <1>2, <1>3, Zenon
<1>6. c # "update" => target'["update"] = target["update"]
  BY <1>1, <1>3, Zenon DEF Install
<1>7. CASE UNCHANGED inst
  BY <1>0, <1>1, <1>4, <1>5, <1>6, <1>7, Zenon DEF RecordedFirst, CreatedFresh
<1>8. CASE inst' # inst
  <2>1. target[c] # None /\ Installs(c, found) /\ found # 0
    BY <1>8, Zenon DEF Finds, Installs
  <2>2. PICK v \in found .. published :
           inst' = [recorded |-> target[c], installed |-> v, by |-> c, stale |-> superseded[found]]
    BY <2>1, Zenon DEF Installs
  <2>3. /\ v \in Version /\ found \in Version /\ target[c] \in 0 .. MaxVersion
        /\ v \in 0 .. MaxVersion /\ superseded[found] \in 0 .. Limit /\ v <= published /\ found <= v
    BY <1>1, <1>2, <2>1, <2>2 DEF Version
  <2>4. superseded[found] <= CacheTicks + FetchTicks
    BY <2>1, Zenon DEF Fresh
  <2>5. c = "update" => target[c] <= found
    BY <2>1, Zenon
  <2>6. /\ inst' \in [recorded : 0 .. MaxVersion, installed : 0 .. MaxVersion,
                      by : Install \cup {None}, stale : 0 .. Limit]
        /\ inst'.recorded = target[c] /\ inst'.installed = v /\ inst'.by = c
        /\ inst'.stale = superseded[found]
    BY <2>2, <2>3, Zenon
  <2>7. inst'.by = "update" => inst'.recorded <= inst'.installed /\ inst'.installed <= published
    BY <1>1, <1>2, <2>3, <2>5, <2>6 DEF Version
  <2> QED
    BY <1>4, <1>5, <1>6, <2>3, <2>4, <2>6, <2>7, Zenon DEF RecordedFirst, CreatedFresh
<1> QED
  BY <1>7, <1>8, Zenon

\* A check of some page.
LEMMA CheckStep ==
    ASSUME ReleaseInvariant, NEW c \in Check, CheckSettles(c)
    PROVE  ReleaseInvariant'
<1> USE ReleaseCacheAssumption
<1>0. ReleaseTypeOK /\ FetchesKnown /\ RecordedFirst /\ CreatedFresh
  BY Zenon DEF ReleaseInvariant
<1>1. Settle(c) /\ UNCHANGED <<target, inst, published, superseded>> /\ c \in Caller
  BY Zenon DEF CheckSettles, Settle, Caller
<1>2. /\ target' \in [Install -> 0 .. MaxVersion \cup {None}]
      /\ \A d \in Install : target'[d] # None => target'[d] \in 0 .. published
  BY <1>0, <1>1, Zenon DEF ReleaseTypeOK, FetchesKnown
<1>3. FetchesKnown' /\ latest' \in Manifest /\ inFlight' \in [Caller -> Manifest]
  BY <1>1, <1>2, SettleStep, Zenon
<1>4. latest' \in [version : 0 .. MaxVersion \cup {None}, age : 0 .. Limit]
  BY <1>3 DEF Manifest, Limit
<1>5. ReleaseTypeOK'
  BY <1>0, <1>1, <1>3, <1>4, Zenon DEF ReleaseTypeOK, Manifest
<1> QED
  BY <1>0, <1>1, <1>3, <1>5, Zenon DEF ReleaseInvariant, RecordedFirst, CreatedFresh

\* An update or a create gets its answer.
LEMMA InstallStep ==
    ASSUME ReleaseInvariant, NEW c \in Install, InstallSettles(c)
    PROVE  ReleaseInvariant'
<1> USE ReleaseCacheAssumption
<1>0. ReleaseTypeOK /\ FetchesKnown
  BY Zenon DEF ReleaseInvariant
<1>1. /\ Settle(c) /\ UNCHANGED <<published, superseded>> /\ c \in Caller
      /\ Finds(c, inFlight[c].version)
  BY Zenon DEF InstallSettles, Settle, Caller
<1>2. /\ inFlight[c].version \in 0 .. MaxVersion /\ Fresh(inFlight[c].version)
  <2>1. inFlight \in [Caller -> Manifest] /\ published \in Version /\ superseded \in [Version -> 0 .. Limit]
    BY <1>0, Zenon DEF ReleaseTypeOK, Manifest
  <2>2. /\ inFlight[c].version \in 0 .. published
        /\ inFlight[c].version # 0 => superseded[inFlight[c].version] <= inFlight[c].age
    BY <1>0, <1>1, Zenon DEF FetchesKnown, Settle
  <2>3. inFlight[c].age \in 0 .. FetchTicks
    BY <1>1, <2>1, Zenon DEF Manifest
  <2> QED
    BY <2>1, <2>2, <2>3 DEF Fresh, Version
<1>3. c = "update" /\ target["update"] # None /\ inFlight[c].version # 0 =>
         target["update"] <= inFlight[c].version
  BY <1>0, <1>1, Zenon DEF FetchesKnown, Settle
<1>4. /\ target' \in [Install -> 0 .. MaxVersion \cup {None}]
      /\ \A d \in Install : target'[d] # None => target'[d] \in 0 .. published
      /\ c # "update" => target'["update"] = target["update"]
      /\ inst' \in [recorded : 0 .. MaxVersion, installed : 0 .. MaxVersion,
                    by : Install \cup {None}, stale : 0 .. Limit]
      /\ inst'.by # None => inst'.installed \in Version
      /\ RecordedFirst' /\ CreatedFresh'
  BY <1>1, <1>2, <1>3, FindsStep, Zenon
<1>5. FetchesKnown' /\ latest' \in Manifest /\ inFlight' \in [Caller -> Manifest]
  BY <1>1, <1>4, SettleStep, Zenon
<1>6. latest' \in [version : 0 .. MaxVersion \cup {None}, age : 0 .. Limit]
  BY <1>5, SMTT(30) DEF Manifest, Limit
<1>7. ReleaseTypeOK'
  BY <1>0, <1>1, <1>4, <1>5, <1>6, Zenon DEF ReleaseTypeOK, Manifest
<1> QED
  BY <1>4, <1>5, <1>7, Zenon DEF ReleaseInvariant

\* A create finds its version in the cache.
LEMMA CacheStep ==
    ASSUME ReleaseInvariant, NEW c \in Install, FindsInCache(c)
    PROVE  ReleaseInvariant'
<1> USE ReleaseCacheAssumption
<1>0. ReleaseTypeOK /\ FetchesKnown
  BY Zenon DEF ReleaseInvariant
<1>1. /\ c = "create" /\ get # None /\ Finds(c, get)
      /\ UNCHANGED <<published, superseded, latest, inFlight>>
  BY Zenon DEF FindsInCache, MayUseCache
<1>2. get = latest.version /\ latest.age <= CacheTicks
  BY <1>1, Zenon DEF get
<1>3. get \in 0 .. MaxVersion /\ Fresh(get)
  <2>1. /\ published \in Version /\ superseded \in [Version -> 0 .. Limit]
        /\ latest \in [version : 0 .. MaxVersion \cup {None}, age : 0 .. Limit]
    BY <1>0, Zenon DEF ReleaseTypeOK
  <2>2. /\ latest.version \in 0 .. published
        /\ latest.version # 0 => superseded[latest.version] <= latest.age + FetchTicks
    BY <1>0, <1>1, <1>2, Zenon DEF FetchesKnown
  <2>3. latest.age \in Nat
    BY <2>1 DEF Limit
  <2>4. latest.version # 0 => latest.version \in Version
    BY <2>1, <2>2 DEF Version
  <2> QED
    BY <1>2, <2>1, <2>2, <2>3, <2>4 DEF Fresh, Version, Limit
<1>4. /\ target' \in [Install -> 0 .. MaxVersion \cup {None}]
      /\ \A d \in Install : target'[d] # None => target'[d] \in 0 .. published
      /\ target'["update"] = target["update"]
      /\ inst' \in [recorded : 0 .. MaxVersion, installed : 0 .. MaxVersion,
                    by : Install \cup {None}, stale : 0 .. Limit]
      /\ inst'.by # None => inst'.installed \in Version
      /\ RecordedFirst' /\ CreatedFresh'
  BY <1>1, <1>3, FindsStep, Zenon
<1>5. FetchesKnown'
  BY <1>0, <1>1, <1>4, Zenon DEF FetchesKnown
<1>6. ReleaseTypeOK'
  BY <1>0, <1>1, <1>4, Zenon DEF ReleaseTypeOK
<1> QED
  BY <1>4, <1>5, <1>6, Zenon DEF ReleaseInvariant

\* A release appears.
LEMMA PublishStep ==
    ASSUME ReleaseInvariant, Publish
    PROVE  ReleaseInvariant'
<1> USE ReleaseCacheAssumption
<1>0. ReleaseTypeOK /\ FetchesKnown /\ RecordedFirst /\ CreatedFresh
  BY Zenon DEF ReleaseInvariant
<1>1. /\ published \in Version /\ published' \in Version /\ published' = published + 1
      /\ UNCHANGED <<superseded, latest, inFlight, target, inst>>
  BY <1>0 DEF Publish, Version, ReleaseTypeOK
<1>2. ReleaseTypeOK'
  BY <1>0, <1>1, Zenon DEF ReleaseTypeOK
<1>3. \A n : n \in 0 .. published => n \in 0 .. published'
  BY <1>1 DEF Version
<1>4. \A v \in Version : v >= published' => superseded[v] = 0
  BY <1>0, <1>1 DEF FetchesKnown, Version
<1>5. FetchesKnown'
  BY <1>0, <1>1, <1>3, <1>4, Zenon DEF FetchesKnown
<1>6. RecordedFirst' /\ CreatedFresh'
  BY <1>0, <1>1 DEF RecordedFirst, CreatedFresh, ReleaseTypeOK, Version
<1> QED
  BY <1>2, <1>5, <1>6, Zenon DEF ReleaseInvariant

\* Time: what is counted for a version is counted for the answers that name it.
LEMMA HourStep ==
    ASSUME ReleaseInvariant, Hour
    PROVE  ReleaseInvariant'
<1> USE ReleaseCacheAssumption
<1>0. ReleaseTypeOK /\ FetchesKnown /\ RecordedFirst /\ CreatedFresh
  BY Zenon DEF ReleaseInvariant
<1>1. /\ published \in Version /\ superseded \in [Version -> 0 .. Limit]
      /\ inFlight \in [Caller -> Manifest]
      /\ latest \in [version : 0 .. MaxVersion \cup {None}, age : 0 .. Limit]
      /\ UNCHANGED <<published, target, inst>>
  BY <1>0, Zenon DEF ReleaseTypeOK, Manifest, Hour
<1>2. superseded' = [v \in Version |-> IF v < published THEN Up(superseded[v], Limit) ELSE 0]
  BY Zenon DEF Hour
<1>3. /\ superseded' \in [Version -> 0 .. Limit]
      /\ \A v \in Version : /\ v >= published => superseded'[v] = 0
                            /\ superseded'[v] <= superseded[v] + 1
                            /\ superseded'[v] <= Limit
  <2>1. 0 \in 0 .. Limit
    BY DEF Limit
  <2>2. \A v \in Version : Up(superseded[v], Limit) \in 0 .. Limit /\ Up(superseded[v], Limit) <= superseded[v] + 1
    BY <1>1, HourCounts, Zenon
  <2>3. \A v \in Version : superseded'[v] = IF v < published THEN Up(superseded[v], Limit) ELSE 0
    BY <1>2, Zenon
  <2>4. superseded' \in [Version -> 0 .. Limit]
    BY <1>2, <2>1, <2>2, Zenon
  <2> QED
    BY <1>1, <2>2, <2>3, <2>4 DEF Version, Limit
<1>4. ASSUME NEW c \in Caller
      PROVE  /\ inFlight'[c] \in Manifest
             /\ inFlight'[c] # NoFetch => /\ inFlight[c] # NoFetch
                                          /\ inFlight'[c].version = inFlight[c].version
                                          /\ inFlight'[c].age = inFlight[c].age + 1
  <2>1. inFlight'[c] = IF inFlight[c] = NoFetch THEN NoFetch ELSE [inFlight[c] EXCEPT !.age = @ + 1]
    BY Zenon DEF Hour
  <2>2. inFlight[c] \in Manifest /\ inFlight[c].age < FetchTicks
    BY <1>1, Zenon DEF Hour
  <2>3. inFlight[c].age + 1 \in 0 .. FetchTicks
    BY <2>2 DEF Manifest
  <2> QED
    BY <2>1, <2>2, <2>3, Zenon DEF Manifest
<1>5. inFlight' \in [Caller -> Manifest]
  <2>1. inFlight' = [c \in Caller |-> IF inFlight[c] = NoFetch THEN NoFetch
                                      ELSE [inFlight[c] EXCEPT !.age = @ + 1]]
    BY Zenon DEF Hour
  <2> QED
    BY <2>1, <1>4, Zenon
<1>6. /\ latest' \in [version : 0 .. MaxVersion \cup {None}, age : 0 .. Limit]
      /\ latest'.version = latest.version
      /\ latest.version # None => latest'.age = latest.age + 1 \/ latest'.age = Limit
  <2>1. latest' = IF latest.version = None THEN latest ELSE [latest EXCEPT !.age = Up(latest.age, Limit)]
    BY Zenon DEF Hour, Older
  <2>2. /\ Up(latest.age, Limit) \in 0 .. Limit
        /\ Up(latest.age, Limit) = latest.age + 1 \/ Up(latest.age, Limit) = Limit
    BY <1>1, HourCounts, Zenon
  <2> QED
    BY <1>1, <2>1, <2>2, Zenon
<1>7. ReleaseTypeOK'
  BY <1>0, <1>1, <1>3, <1>5, <1>6, Zenon DEF ReleaseTypeOK, Manifest
<1>8. ASSUME NEW c \in Caller, inFlight'[c] # NoFetch
      PROVE  /\ inFlight'[c].version \in 0 .. published
             /\ inFlight'[c].version # 0 => superseded'[inFlight'[c].version] <= inFlight'[c].age
  <2>1. /\ inFlight[c].version \in 0 .. published
        /\ inFlight[c].version # 0 => superseded[inFlight[c].version] <= inFlight[c].age
    BY <1>0, <1>4, <1>8, Zenon DEF FetchesKnown
  <2>2. inFlight[c].version # 0 => inFlight[c].version \in Version
    BY <1>1, <2>1 DEF Version
  <2>3. inFlight[c].age \in Nat
    BY <1>1 DEF Manifest
  <2>4. inFlight[c].version # 0 => superseded'[inFlight[c].version] <= inFlight[c].age + 1
    BY <1>1, <1>3, <2>1, <2>2, <2>3 DEF Limit
  <2> QED
    BY <1>4, <1>8, <2>1, <2>4, Zenon
<1>9. ASSUME latest'.version # None
      PROVE  /\ latest'.version \in 0 .. published
             /\ latest'.version # 0 => superseded'[latest'.version] <= latest'.age + FetchTicks
  <2>1. /\ latest.version \in 0 .. published
        /\ latest.version # 0 => superseded[latest.version] <= latest.age + FetchTicks
    BY <1>0, <1>6, <1>9, Zenon DEF FetchesKnown
  <2>2. latest.version # 0 => latest.version \in Version
    BY <1>1, <2>1 DEF Version
  <2>3. latest.age \in Nat
    BY <1>1 DEF Limit
  <2>4. latest.version # 0 => /\ superseded[latest.version] \in Nat /\ superseded'[latest.version] \in Nat
                              /\ superseded'[latest.version] <= superseded[latest.version] + 1
                              /\ superseded'[latest.version] <= Limit
    BY <1>1, <1>3, <2>2 DEF Limit
  <2>5. CASE latest'.age = latest.age + 1
    BY <1>6, <2>1, <2>3, <2>4, <2>5
  <2>6. CASE latest'.age = Limit
    BY <1>6, <2>1, <2>4, <2>6 DEF Limit
  <2> QED
    BY <1>6, <1>9, <2>5, <2>6, Zenon
<1>10. target["update"] # None /\ inFlight'["update"] # NoFetch /\ inFlight'["update"].version # 0 =>
          target["update"] <= inFlight'["update"].version
  BY <1>0, <1>4, Zenon DEF FetchesKnown, Caller, Install
<1>11. FetchesKnown'
  BY <1>0, <1>1, <1>3, <1>8, <1>9, <1>10, Zenon DEF FetchesKnown
<1> QED
  BY <1>0, <1>1, <1>7, <1>11, Zenon DEF ReleaseInvariant, RecordedFirst, CreatedFresh

\* The check for updates never calls an instance current that runs an older binary, and a new
\* instance is made from a release no longer replaced than a cache entry lives and a fetch takes.
THEOREM ReleaseSoundCorrect == ReleaseSpec => []ReleaseSound
<1>1. ReleaseInit => ReleaseInvariant
  <2> SUFFICES ASSUME ReleaseInit PROVE ReleaseInvariant
    BY Zenon
  <2> USE ReleaseCacheAssumption
  <2>1. 0 \in 0 .. Limit /\ 1 \in Version /\ 0 \in 0 .. MaxVersion /\ 0 \in 0 .. FetchTicks
    BY DEF Limit, Version
  <2>2. NoFetch.version = None /\ NoFetch \in Manifest /\ NoInstance.by = None
    BY <2>1, Zenon DEF NoFetch, Manifest, NoInstance
  <2>3. ReleaseTypeOK
    BY <2>1, <2>2, Zenon DEF ReleaseInit, ReleaseTypeOK, NoFetch, NoInstance
  <2>4. "update" \in Install /\ "update" \in Caller
    BY Zenon DEF Install, Caller
  <2>5. FetchesKnown
    BY <2>2, <2>4, Zenon DEF ReleaseInit, FetchesKnown
  <2>6. RecordedFirst /\ CreatedFresh
    BY <2>2, Zenon DEF ReleaseInit, RecordedFirst, CreatedFresh, Install
  <2> QED
    BY <2>3, <2>5, <2>6, Zenon DEF ReleaseInvariant
<1>2. ReleaseInvariant /\ [ReleaseNext]_releaseVars => ReleaseInvariant'
  <2>1. ASSUME ReleaseInvariant, UNCHANGED releaseVars
        PROVE  ReleaseInvariant'
    BY <2>1, Zenon DEF releaseVars, ReleaseInvariant, ReleaseTypeOK, FetchesKnown, RecordedFirst, CreatedFresh
  <2> QED
    BY <2>1, FetchStep, CheckStep, InstallStep, CacheStep, PublishStep, HourStep, Zenon DEF ReleaseNext
<1>3. ReleaseInvariant => ReleaseSound
  BY ReleaseCacheAssumption
     DEF ReleaseInvariant, ReleaseSound, RecordedFirst, NeverFalselyCurrent, ReleaseTypeOK, Version
<1> QED
  BY <1>1, <1>2, <1>3, PTL DEF ReleaseSpec

-----------------------------------------------------------------------------
(* The executable.                                                         *)

\* Where the update is, who does it and what the files hold then.
StepsKnown ==
    /\ updateStep # "idle" => running # None
    /\ updateStep \in {"backup", "swap"} => way = "systemd"
    /\ updateStep = "script" => way # "systemd"
    /\ updateStep \in {"prepare", "backup", "swap", "script"} => file.new \in Build
    /\ helper # "none" => way # "systemd"
    /\ helper = "waiting" => /\ file.new \in Build
                             /\ running # None => updateStep = "ready"
    /\ helper \in {"moved", "placed"} => running = None
    /\ helper = "moved" => file.new \in Build /\ file.old \in Build
    /\ helper = "placed" => file.target \in Build /\ file.old \in Build \cup {None}

\* The executable is there, and is what runs, but for the moves and the swap, unless a power cut
\* tore it; the backup of a swap can be put back.
FilesKnown ==
    /\ torn => running = None /\ helper = "none"
    /\ ~torn => \/ file.target \in Build
                \/ /\ file.target = None /\ way # "systemd" /\ file.old \in Build
                   /\ running = None /\ helper \in {"moved", "none"}
    /\ unreverted => way = "systemd"
    /\ running # None /\ ~(way = "systemd" /\ updateStep = "ready") /\ ~unreverted
           => file.target = running
    /\ way = "systemd" /\ updateStep \in {"swap", "ready"} =>
           file.old \in Build /\ (~unreverted => file.old = running)

SelfInvariant == SelfTypeOK /\ StepsKnown /\ FilesKnown

\* What automaticRestartExitCode chooses is an exit code: a set of them has a least one.
LEMMA PlannedCode ==
    ASSUME SelfTypeOK, way = "systemd"
    PROVE  automaticRestartExitCode \in ExitCode \cup {None}
<1> USE SelfUpdateAssumption
<1>1. ASSUME NEW S \in SUBSET ExitCode, S # {}
      PROVE  Min(S) \in S
  <2>1. S \subseteq Nat
    BY Zenon
  <2>2. PICK x \in S : \A y \in S : ~(<<y, x>> \in OpToRel(<, Nat))
    BY <1>1, <2>1, NatLessThanWellFounded, WFMin, Zenon
  <2>3. ASSUME NEW y \in S PROVE x <= y
    <3>1. y < x => <<y, x>> \in OpToRel(<, Nat)
      BY <2>1, Zenon DEF OpToRel
    <3>2. ~(y < x)
      BY <2>2, <3>1, Zenon
    <3> QED
      BY <2>1, <3>2
  <2> QED
    BY <2>3, Zenon DEF Min
<1>2. unit.success \cup {0} \subseteq ExitCode
  BY Zenon DEF SelfTypeOK, SystemdUnit
<1> QED
  BY <1>1, <1>2, Zenon DEF automaticRestartExitCode

\* Every step keeps the types.
LEMMA SelfTypeStep ==
    ASSUME SelfInvariant, [SelfNext]_selfVars
    PROVE  SelfTypeOK'
<1> USE SelfUpdateAssumption
<1> USE DEF SelfTypeOK, Go, marks, Place, Renamed
<1>0. SelfTypeOK /\ StepsKnown /\ FilesKnown
  BY Zenon DEF SelfInvariant
<1>1. CASE PublishBuild
  BY <1>0, <1>1 DEF PublishBuild, Build, marks
<1>2. CASE PostUpdate \/ Download \/ PrepareFails
  BY <1>0, <1>2, Zenon DEF PostUpdate, Download, PrepareFails
<1>3. CASE DownloadEnds
  BY <1>0, <1>3, Zenon DEF DownloadEnds, Verified
<1>4. CASE Prepared \/ WriteBack
  BY <1>0, <1>4, Zenon DEF Prepared, WriteBack
<1>5. CASE Backup \/ Swap
  BY <1>0, <1>5, Zenon DEF Backup, Swap, BackedUp, StepsKnown
<1>6. CASE Restart
  BY <1>0, <1>6, PlannedCode, Zenon DEF Restart
<1>7. CASE RestartFails
  BY <1>0, <1>7, Zenon DEF RestartFails, RolledBack, FilesKnown
<1>8. CASE SystemdStarts \/ HelperStarts \/ Boots
  BY <1>0, <1>8, Zenon DEF SystemdStarts, HelperStarts, Boots, Starts, HelperStep
<1>9. CASE SpawnHelper \/ ExitForHelper \/ HelperGivesUp \/ HelperRestoreFails
  BY <1>0, <1>9, Zenon DEF SpawnHelper, ExitForHelper, HelperGivesUp, HelperRestoreFails, HelperStep
<1>10. CASE HelperBackup
  BY <1>0, <1>10, Zenon DEF HelperBackup, HelperStep
<1>11. CASE HelperPlace \/ HelperPlaceFails
  BY <1>0, <1>11, Zenon DEF HelperPlace, HelperPlaceFails, HelperStep, StepsKnown
<1>12. CASE HelperStartFails
  BY <1>0, <1>12, Zenon DEF HelperStartFails, HelperStep, StepsKnown
<1>13. CASE PowerCut
  <2>1. PICK lost : file' = [target |-> IF "target" \in lost THEN Partial ELSE file.target,
                             new    |-> IF "new" \in lost THEN Partial ELSE file.new,
                             old    |-> IF "old" \in lost THEN Partial ELSE file.old]
    BY <1>13, Zenon DEF PowerCut
  <2>2. file' \in [target : Build \cup {None, Partial}, new : Build \cup {None, Partial},
                   old : Build \cup {None, Partial}]
    BY <1>0, <2>1
  <2> QED
    BY <1>0, <1>13, <2>2, Zenon DEF PowerCut
<1>14. CASE UNCHANGED selfVars
  BY <1>0, <1>14 DEF selfVars, marks
<1> QED
  BY <1>1, <1>2, <1>3, <1>4, <1>5, <1>6, <1>7, <1>8, <1>9, <1>10, <1>11, <1>12, <1>13, <1>14, Zenon
     DEF SelfNext

\* Every step leaves the files as its place in the update has them.
LEMMA SelfFilesStep ==
    ASSUME SelfInvariant, [SelfNext]_selfVars
    PROVE  StepsKnown' /\ FilesKnown'
<1> USE SelfUpdateAssumption
<1> USE DEF SelfTypeOK, Go, StepsKnown, FilesKnown, marks
<1>0. SelfTypeOK /\ StepsKnown /\ FilesKnown
  BY Zenon DEF SelfInvariant
<1>1. CASE PublishBuild
  BY <1>0, <1>1, Zenon DEF PublishBuild
<1>2. CASE PostUpdate \/ Download \/ PrepareFails
  <2>1. CASE PostUpdate
    BY <1>0, <2>1, Zenon DEF PostUpdate
  <2>2. CASE Download
    BY <1>0, <2>2, Zenon DEF Download
  <2>3. CASE PrepareFails
    BY <1>0, <2>3, Zenon DEF PrepareFails
  <2> QED
    BY <1>2, <2>1, <2>2, <2>3, Zenon
<1>3. CASE DownloadEnds
  BY <1>0, <1>3, Zenon DEF DownloadEnds, Verified
<1>4. CASE Prepared \/ WriteBack
  <2>1. CASE Prepared
    BY <1>0, <2>1, Zenon DEF Prepared
  <2>2. CASE WriteBack
    BY <1>0, <2>2, Zenon DEF WriteBack
  <2> QED
    BY <1>4, <2>1, <2>2, Zenon
<1>5. CASE Backup
  BY <1>0, <1>5, Zenon DEF Backup, BackedUp
<1>6. CASE Swap
  BY <1>0, <1>6, Zenon DEF Swap
<1>7. CASE Restart
  BY <1>0, <1>7, Zenon DEF Restart
<1>8. CASE RestartFails
  <2>1. CASE file' = RolledBack /\ UNCHANGED unreverted
    BY <1>0, <1>8, <2>1, Zenon DEF RestartFails, RolledBack
  <2>2. CASE unreverted' = TRUE /\ UNCHANGED file
    BY <1>0, <1>8, <2>2, Zenon DEF RestartFails
  <2> QED
    BY <1>8, <2>1, <2>2, Zenon DEF RestartFails
<1>9. CASE SystemdStarts \/ HelperStarts \/ Boots
  BY <1>0, <1>9, Zenon DEF SystemdStarts, HelperStarts, Boots, Starts, HelperStep
<1>10. CASE SpawnHelper \/ ExitForHelper \/ HelperGivesUp \/ HelperRestoreFails
  <2>1. CASE SpawnHelper
    BY <1>0, <2>1, Zenon DEF SpawnHelper
  <2>2. CASE ExitForHelper
    BY <1>0, <2>2, Zenon DEF ExitForHelper
  <2>3. CASE HelperGivesUp
    BY <1>0, <2>3, Zenon DEF HelperGivesUp, HelperStep
  <2>4. CASE HelperRestoreFails
    BY <1>0, <2>4, Zenon DEF HelperRestoreFails, HelperStep
  <2> QED
    BY <1>10, <2>1, <2>2, <2>3, <2>4, Zenon
<1>11. CASE HelperBackup
  BY <1>0, <1>11, Zenon DEF HelperBackup, HelperStep
<1>12. CASE HelperPlace \/ HelperPlaceFails
  <2>1. CASE HelperPlace
    BY <1>0, <2>1, Zenon DEF HelperPlace, HelperStep
  <2>2. CASE HelperPlaceFails
    BY <1>0, <2>2, Zenon DEF HelperPlaceFails, HelperStep
  <2> QED
    BY <1>12, <2>1, <2>2, Zenon
<1>13. CASE HelperStartFails
  BY <1>0, <1>13, Zenon DEF HelperStartFails, HelperStep
<1>14. CASE PowerCut
  <2>1. /\ running' = None /\ helper' = "none" /\ updateStep' = "idle"
        /\ UNCHANGED <<way, unreverted>>
    BY <1>14, Zenon DEF PowerCut
  <2>2. ~torn' => /\ ~torn /\ file'.target # Partial
                  /\ file'.target = None => file'.old # Partial
    BY <1>14, Zenon DEF PowerCut
  <2>3. PICK lost : file' = [target |-> IF "target" \in lost THEN Partial ELSE file.target,
                             new    |-> IF "new" \in lost THEN Partial ELSE file.new,
                             old    |-> IF "old" \in lost THEN Partial ELSE file.old]
    BY <1>14, Zenon DEF PowerCut
  <2>4. file'.target \in {file.target, Partial} /\ file'.old \in {file.old, Partial}
    BY <2>3
  <2> QED
    BY <1>0, <2>1, <2>2, <2>4, Zenon
<1>15. CASE UNCHANGED selfVars
  BY <1>0, <1>15, Zenon DEF selfVars
<1> QED
  BY <1>1, <1>2, <1>3, <1>4, <1>5, <1>6, <1>7, <1>8, <1>9, <1>10, <1>11, <1>12, <1>13, <1>14, <1>15, Zenon
     DEF SelfNext

\* Whatever fails and wherever the power is cut, there is an executable to start or to put back,
\* unless the cut tears what had not reached the disk, and a GUI that is not being updated runs
\* the installed version, unless that could not be put back.
THEOREM SelfSoundCorrect == SelfSpec => []SelfSound
<1>1. SelfInit => SelfInvariant
  <2> SUFFICES ASSUME SelfInit PROVE SelfInvariant
    BY Zenon
  <2>1. 1 \in Build
    BY SelfUpdateAssumption DEF Build
  <2>2. way = "systemd" => unit \in SystemdUnit
    BY Zenon DEF SelfInit
  <2>3. SelfTypeOK
    BY <2>1, <2>2, SelfUpdateAssumption, Zenon DEF SelfInit, SelfTypeOK
  <2>4. StepsKnown /\ FilesKnown
    BY <2>1, SelfUpdateAssumption, Zenon DEF SelfInit, StepsKnown, FilesKnown
  <2> QED
    BY <2>3, <2>4, Zenon DEF SelfInvariant
<1>2. SelfInvariant /\ [SelfNext]_selfVars => SelfInvariant'
  BY SelfTypeStep, SelfFilesStep, Zenon DEF SelfInvariant
<1>3. SelfInvariant => SelfSound
  BY Zenon DEF SelfInvariant, SelfSound, StepsKnown, FilesKnown, ExecutableKept, IdleRunsInstalled
<1> QED
  BY <1>1, <1>2, <1>3, PTL DEF SelfSpec

-----------------------------------------------------------------------------
(* The firewall.                                                           *)

\* The fields of a handler's record.
HandlerFields == {"pc", "kind", "config", "n", "names", "tool", "changed", "ok", "due"}

\* Where a request in flight can be, which tool it is at, and whether it has opened a port.
Handling(h) ==
    /\ DOMAIN h = HandlerFields /\ h.tool \in Nat /\ h.changed \in BOOLEAN
    /\ h.pc \in {"check", "inspect", "open", "certbot", "close", "files", "read", "write"}
    /\ h.pc = "inspect" => h.tool >= 1
    /\ h.pc = "open" => h.tool \in 1 .. Len(Firewalls)
    /\ h.pc = "close" => h.changed
    /\ h.changed => h.pc \in {"certbot", "close", "files"} /\ h.tool \in 1 .. Len(Firewalls)

JobsKnown == DOMAIN job = Job /\ \A j \in Job : job[j] = Idle \/ Handling(job[j])

\* A request that has opened port 80 in tool t and has not closed it again.
Opened(h, t) == h # Idle /\ h.pc \in {"certbot", "close"} /\ h.changed /\ Tool(h) = t

Openers(t) == {j \in Job : Opened(job[j], t)}

\* What a rule for the administrator counts.
Own(t) == IF t \in admin THEN 1 ELSE 0

\* A rule is the administrator's or some request will remove it; no request opens what a tool
\* other than iptables already has.
RulesOwned ==
    \A t \in Tools :
       /\ t \notin uncleaned => rules[t] <= Own(t) + Cardinality(Openers(t))
       /\ t \in admin => rules[t] >= 1 + Cardinality(Openers(t))
       /\ t \in admin /\ t # "iptables" =>
             \A j \in Job : job[j] # Idle /\ job[j].pc = "open" => Tool(job[j]) # t

FirewallTypes ==
    /\ rules \in [Tools -> Nat] /\ admin \subseteq Tools /\ uncleaned \subseteq Tools

FirewallInvariant == FirewallTypes /\ JobsKnown /\ RulesOwned

\* A request at a tool is at one that is installed.
LEMMA ToolInstalled ==
    ASSUME NEW h, h.tool \in 1 .. Len(Firewalls)
    PROVE  Tool(h) \in Tools
  BY GuiConfigAssumption DEF Tool, Tools, Range

\* A request that is not idle has a place.
LEMMA HandlingBusy ==
    ASSUME NEW h, Handling(h)
    PROVE  h # Idle
  BY DEF Handling, Idle

\* How many requests have a tool open, when one of them goes on.
LEMMA OpenersStep ==
    ASSUME JobsKnown, NEW j \in Job, NEW h, job' = [job EXCEPT ![j] = h], NEW t
    PROVE  /\ Cardinality(Openers(t)) \in Nat /\ Cardinality(Openers(t))' \in Nat
           /\ (Opened(job[j], t) <=> Opened(h, t)) => Openers(t)' = Openers(t)
           /\ ~Opened(job[j], t) /\ Opened(h, t) =>
                 Cardinality(Openers(t))' = Cardinality(Openers(t)) + 1
           /\ Opened(job[j], t) /\ ~Opened(h, t) =>
                 Cardinality(Openers(t))' = Cardinality(Openers(t)) - 1
<1>1. job'[j] = h /\ \A i \in Job : i # j => job'[i] = job[i]
  BY Zenon DEF JobsKnown
<1>2. Openers(t)' = {i \in Job : Opened(job'[i], t)}
  BY Zenon DEF Openers, Opened, Tool
<1>3. IsFiniteSet(Openers(t)) /\ IsFiniteSet(Openers(t)')
  BY <1>2, FS_Subset, GuiConfigAssumption, Zenon DEF Openers
<1>4. Cardinality(Openers(t)) \in Nat /\ Cardinality(Openers(t)') \in Nat
  BY <1>3, FS_CardinalityType, Zenon
<1>5. ASSUME Opened(job[j], t) <=> Opened(h, t)
      PROVE  Openers(t)' = Openers(t)
  BY <1>1, <1>2, <1>5, Zenon DEF Openers
<1>6. ASSUME ~Opened(job[j], t), Opened(h, t)
      PROVE  Cardinality(Openers(t)') = Cardinality(Openers(t)) + 1
  <2>1. Openers(t)' = Openers(t) \cup {j} /\ j \notin Openers(t)
    BY <1>1, <1>2, <1>6, Zenon DEF Openers
  <2> QED
    BY <1>3, <2>1, FS_AddElement, Zenon
<1>7. ASSUME Opened(job[j], t), ~Opened(h, t)
      PROVE  Cardinality(Openers(t)') = Cardinality(Openers(t)) - 1
  <2>1. Openers(t)' = Openers(t) \ {j} /\ j \in Openers(t)
    BY <1>1, <1>2, <1>7, Zenon DEF Openers
  <2> QED
    BY <1>3, <2>1, FS_RemoveElement, Zenon
<1> QED
  BY <1>4, <1>5, <1>6, <1>7, Zenon

\* A request goes on without a change to the firewall: it neither had a port open before the step
\* nor has one after it, or it has the same one; and it may open a port only where no rule was.
LEMMA HandlerStep ==
    ASSUME FirewallInvariant, NEW j \in Job, NEW h, job' = [job EXCEPT ![j] = h],
           UNCHANGED <<rules, admin, uncleaned>>, h = Idle \/ Handling(h),
           \A t \in Tools : Opened(job[j], t) <=> Opened(h, t),
           h # Idle /\ h.pc = "open" => rules[Tool(h)] = 0 \/ Tool(h) = "iptables"
    PROVE  FirewallInvariant'
<1>1. job'[j] = h /\ DOMAIN job' = Job /\ \A i \in Job : i # j => job'[i] = job[i]
  BY Zenon DEF FirewallInvariant, JobsKnown
<1>2. JobsKnown' /\ FirewallTypes'
  BY <1>1, Zenon DEF FirewallInvariant, JobsKnown, FirewallTypes, Handling
<1>3. ASSUME NEW t \in Tools
      PROVE  /\ Openers(t)' = Openers(t) /\ Cardinality(Openers(t)) \in Nat
             /\ rules[t] \in Nat /\ Own(t)' = Own(t)
  BY OpenersStep, Zenon DEF FirewallInvariant, FirewallTypes, Own
<1>4. ASSUME NEW t \in Tools, t \in admin, t # "iptables", NEW i \in Job,
             job'[i] # Idle, job'[i].pc = "open"
      PROVE  Tool(job'[i]) # t
  <2>1. rules[t] >= 1 + Cardinality(Openers(t))
    BY <1>4, Zenon DEF FirewallInvariant, RulesOwned
  <2>2. rules[t] # 0
    BY <1>3, <2>1
  <2>3. CASE i = j
    BY <1>1, <1>4, <2>2, <2>3, Zenon
  <2>4. CASE i # j
    BY <1>1, <1>4, <2>4, Zenon DEF FirewallInvariant, RulesOwned
  <2> QED
    BY <2>3, <2>4, Zenon
<1>5. RulesOwned'
  <2> SUFFICES ASSUME NEW t \in Tools
               PROVE  /\ t \notin uncleaned => rules[t] <= Own(t) + Cardinality(Openers(t))
                      /\ t \in admin => rules[t] >= 1 + Cardinality(Openers(t))
                      /\ t \in admin /\ t # "iptables" =>
                            \A i \in Job : job'[i] # Idle /\ job'[i].pc = "open" => Tool(job'[i]) # t
    BY <1>3, Zenon DEF RulesOwned, Tool
  <2> QED
    BY <1>4, Zenon DEF FirewallInvariant, RulesOwned
<1> QED
  BY <1>2, <1>5, Zenon DEF FirewallInvariant

\* A request that has no port open.
Closed(h) == h = Idle \/ (Handling(h) /\ ~h.changed)

\* It counts for no tool, and going on to another place that is not the opening changes nothing.
LEMMA ClosedOpens ==
    ASSUME NEW h, Closed(h), NEW t
    PROVE  ~Opened(h, t)
  BY Zenon DEF Closed, Opened

\* What is left to do for a listener's certificate: a request with nothing open stays so.
LEMMA ProvisionCloses ==
    ASSUME NEW h, DOMAIN h = HandlerFields, h.tool \in Nat, h.changed = FALSE, NEW g, g = Provision(h)
    PROVE  Closed(g) /\ (g # Idle => g.pc # "open")
<1>1. PICK k, names : g = [h EXCEPT !.pc = "write"] \/ g = Idle
                      \/ g = [h EXCEPT !.pc = "check", !.n = k, !.names = names]
  BY Zenon DEF Provision
<1>2. CASE g = Idle
  BY <1>2, Zenon DEF Closed
<1>3. CASE g = [h EXCEPT !.pc = "write"]
  <2>1. DOMAIN g = HandlerFields /\ g.tool = h.tool /\ g.changed = FALSE /\ g.pc = "write"
    BY <1>3, Zenon DEF HandlerFields
  <2> QED
    BY <2>1, Zenon DEF Closed, Handling
<1>4. CASE g = [h EXCEPT !.pc = "check", !.n = k, !.names = names]
  <2>1. DOMAIN g = HandlerFields /\ g.tool = h.tool /\ g.changed = FALSE /\ g.pc = "check"
    BY <1>4, Zenon DEF HandlerFields
  <2> QED
    BY <2>1, Zenon DEF Closed, Handling
<1> QED
  BY <1>1, <1>2, <1>3, <1>4, Zenon

\* With a certificate the mark of an opened port goes.
LEMMA CertifiedCloses ==
    ASSUME NEW h, Handling(h), NEW g, g = Certified(h)
    PROVE  Closed(g) /\ (g # Idle => g.pc # "open")
<1>0. DOMAIN h = HandlerFields
  BY Zenon DEF Handling
<1>1. PICK done : done = [h EXCEPT !.tool = 0, !.changed = FALSE]
  BY Zenon
<1>2. DOMAIN done = HandlerFields /\ done.tool \in Nat /\ done.changed = FALSE
  BY <1>0, <1>1, Zenon DEF HandlerFields
<1>3. CASE h.kind = "letsencrypt"
  <2>1. g = [done EXCEPT !.pc = "read"]
    BY <1>1, <1>3, Zenon DEF Certified
  <2>2. DOMAIN g = HandlerFields /\ g.tool \in Nat /\ g.changed = FALSE /\ g.pc = "read"
    BY <1>2, <2>1, Zenon DEF HandlerFields
  <2> QED
    BY <2>2, Zenon DEF Closed, Handling
<1>4. CASE h.kind # "letsencrypt"
  <2>1. PICK x : x = [done EXCEPT !.config.listeners[h.n] = WithCertificate(@, h.names)]
    BY Zenon
  <2>2. g = Provision(x)
    BY <1>1, <1>4, <2>1, Zenon DEF Certified
  <2>3. DOMAIN x = HandlerFields /\ x.tool \in Nat /\ x.changed = FALSE
    BY <1>2, <2>1, Zenon DEF HandlerFields
  <2> QED
    BY <2>2, <2>3, ProvisionCloses, Zenon
<1> QED
  BY <1>3, <1>4, Zenon

\* The steps of a request that has nothing open before or after it.
LEMMA ClosedStep ==
    ASSUME FirewallInvariant, NEW j \in Job, Closed(job[j]), NEW h, job' = [job EXCEPT ![j] = h],
           UNCHANGED <<rules, admin, uncleaned>>, Closed(h),
           h # Idle /\ h.pc = "open" => rules[Tool(h)] = 0 \/ Tool(h) = "iptables"
    PROVE  FirewallInvariant'
  BY HandlerStep, ClosedOpens, Zenon DEF Closed

\* A new request.
LEMMA RequestStep ==
    ASSUME FirewallInvariant, NEW j \in Job,
           \/ \E draft \in Draft : PutConfig(j, draft)
           \/ \E n \in Index, entries \in Requested : PostLetsEncrypt(j, n, entries)
    PROVE  FirewallInvariant'
<1>1. job[j] = Idle /\ UNCHANGED <<rules, admin, uncleaned>>
  BY Zenon DEF PutConfig, PostLetsEncrypt, host
<1>2. ASSUME NEW kind, NEW config, NEW h, h = Handler(kind, config)
      PROVE  DOMAIN h = HandlerFields /\ h.tool \in Nat /\ h.changed = FALSE
  BY <1>2, Zenon DEF Handler, HandlerFields
<1>3. ASSUME NEW draft \in Draft, PutConfig(j, draft)
      PROVE  FirewallInvariant'
  <2>1. PICK config : job' = [job EXCEPT ![j] = ProvisionFirst(Handler("put", config))]
    BY <1>3, Zenon DEF PutConfig
  <2>2. PICK h : h = Handler("put", config)
    BY Zenon
  <2>3. PICK g : g = Provision(h)
    BY Zenon
  <2>4. job' = [job EXCEPT ![j] = g]
    BY <2>1, <2>2, <2>3, Zenon DEF ProvisionFirst
  <2>5. Closed(g) /\ (g # Idle => g.pc # "open")
    BY <1>2, <2>2, <2>3, ProvisionCloses, Zenon
  <2> QED
    BY <1>1, <2>4, <2>5, ClosedStep, Zenon DEF Closed
<1>4. ASSUME NEW n \in Index, NEW entries \in Requested, PostLetsEncrypt(j, n, entries)
      PROVE  FirewallInvariant'
  <2>1. PICK names, h : /\ h = Handler("letsencrypt", conf)
                        /\ job' = [job EXCEPT ![j] = [h EXCEPT !.pc = "check", !.n = n, !.names = names]]
    BY <1>4, Zenon DEF PostLetsEncrypt
  <2>2. PICK g : g = [h EXCEPT !.pc = "check", !.n = n, !.names = names]
    BY Zenon
  <2>3. DOMAIN h = HandlerFields /\ h.tool \in Nat /\ h.changed = FALSE
    BY <1>2, <2>1, Zenon
  <2>4. DOMAIN g = HandlerFields /\ g.tool \in Nat /\ g.changed = FALSE /\ g.pc = "check"
    BY <2>2, <2>3, Zenon DEF HandlerFields
  <2>5. Closed(g) /\ g.pc # "open"
    BY <2>4, Zenon DEF Closed, Handling
  <2>6. job' = [job EXCEPT ![j] = g]
    BY <2>1, <2>2, Zenon
  <2> QED
    BY <1>1, <2>5, <2>6, ClosedStep, Zenon DEF Closed
<1> QED
  BY <1>3, <1>4, Zenon

\* The steps before a port is opened, and those after it is closed.
LEMMA QuietStep ==
    ASSUME FirewallInvariant, NEW j \in Job,
           CheckCertificate(j) \/ Inspect(j) \/ OpenFails(j) \/ CheckFiles(j) \/ ReadConfig(j) \/ WriteFails(j)
    PROVE  FirewallInvariant'
<1>0. (job[j] = Idle \/ Handling(job[j])) /\ UNCHANGED <<rules, admin, uncleaned>>
  BY Zenon DEF FirewallInvariant, JobsKnown, CheckCertificate, Inspect, OpenFails, CheckFiles, ReadConfig,
     WriteFails, host
<1>1. job[j].pc \in {"check", "inspect", "open", "files", "read", "write"} /\ Idle.pc = "idle"
  BY Zenon DEF CheckCertificate, Inspect, OpenFails, CheckFiles, ReadConfig, WriteFails, Idle
<1>2. PICK h : h = job[j]
  BY Zenon
<1>3. Handling(h) /\ h.pc \in {"check", "inspect", "open", "files", "read", "write"}
  BY <1>0, <1>1, <1>2, Zenon
<1>4. ASSUME NEW g, job' = [job EXCEPT ![j] = g], Closed(g),
             g # Idle /\ g.pc = "open" => rules[Tool(g)] = 0 \/ Tool(g) = "iptables"
      PROVE  FirewallInvariant'
  <2>1. \A t \in Tools : ~Opened(job[j], t)
    BY <1>2, <1>3, Zenon DEF Opened
  <2>2. \A t \in Tools : ~Opened(g, t)
    BY <1>4, ClosedOpens, Zenon
  <2> QED
    BY <1>0, <1>4, <2>1, <2>2, HandlerStep, Zenon DEF Closed
<1>5. ASSUME NEW p \in {"inspect", "certbot", "open", "write"}, h.pc # "files",
             p = "inspect" => h.tool >= 1, p = "open" => h.tool \in 1 .. Len(Firewalls),
             NEW g, g = [h EXCEPT !.pc = p]
      PROVE  Closed(g) /\ g.pc = p /\ g.tool = h.tool
  <2>1. DOMAIN g = HandlerFields /\ g.tool = h.tool /\ g.changed = h.changed /\ g.pc = p
    BY <1>3, <1>5, Zenon DEF HandlerFields, Handling
  <2>2. h.changed = FALSE /\ h.tool \in Nat
    BY <1>3, <1>5, Zenon DEF Handling
  <2> QED
    BY <1>5, <2>1, <2>2, Zenon DEF Closed, Handling
<1>6. CASE CheckCertificate(j)
  <2>1. h.pc = "check"
    BY <1>2, <1>6, Zenon DEF CheckCertificate
  <2>2. CASE job' = [job EXCEPT ![j] = Certified(h)]
    <3>1. PICK g : g = Certified(h)
      BY Zenon
    <3>2. Closed(g) /\ (g # Idle => g.pc # "open")
      BY <1>3, <3>1, CertifiedCloses, Zenon
    <3> QED
      BY <1>4, <2>2, <3>1, <3>2, Zenon
  <2>3. CASE job' = [job EXCEPT ![j] = [h EXCEPT !.pc = "inspect", !.tool = 1]]
    <3>1. PICK g : g = [h EXCEPT !.pc = "inspect", !.tool = 1]
      BY Zenon
    <3>2. Closed(g) /\ g.pc = "inspect"
      <4>1. DOMAIN g = HandlerFields /\ g.tool \in Nat /\ g.tool >= 1 /\ g.changed = h.changed /\ g.pc = "inspect"
        BY <1>3, <3>1 DEF HandlerFields, Handling
      <4>2. h.changed = FALSE
        BY <1>3, <2>1, Zenon DEF Handling
      <4> QED
        BY <4>1, <4>2, Zenon DEF Closed, Handling
    <3> QED
      BY <1>4, <2>3, <3>1, <3>2, Zenon
  <2> QED
    BY <1>2, <1>6, <2>2, <2>3, Zenon DEF CheckCertificate
<1>7. CASE Inspect(j)
  <2>1. h.pc = "inspect" /\ h.tool \in Nat /\ h.tool >= 1 /\ Len(Firewalls) \in Nat
    BY <1>2, <1>3, <1>7, GuiConfigAssumption DEF Inspect, Handling
  <2>2. CASE job' = [job EXCEPT ![j] = [h EXCEPT !.pc = "certbot"]]
    <3>1. PICK g : g = [h EXCEPT !.pc = "certbot"]
      BY Zenon
    <3>2. Closed(g) /\ g.pc = "certbot"
      BY <1>5, <2>1, <3>1, Zenon
    <3> QED
      BY <1>4, <2>2, <3>1, <3>2, Zenon
  <2>3. CASE job' = [job EXCEPT ![j] = [h EXCEPT !.pc = "open"]] /\ ~Exhausted(h) /\ FindsNoRule(h)
    <3>1. PICK g : g = [h EXCEPT !.pc = "open"]
      BY Zenon
    <3>2. Closed(g) /\ g.tool = h.tool
      BY <1>5, <2>1, <2>3, <3>1 DEF Exhausted
    <3>3. rules[Tool(g)] = 0 \/ Tool(g) = "iptables"
      BY <2>3, <3>2, Zenon DEF FindsNoRule, Tool
    <3> QED
      BY <1>4, <2>3, <3>1, <3>2, <3>3, Zenon
  <2>4. CASE job' = [job EXCEPT ![j] = [h EXCEPT !.tool = h.tool + 1]]
    <3>1. PICK g : g = [h EXCEPT !.tool = h.tool + 1]
      BY Zenon
    <3>2. DOMAIN g = HandlerFields /\ g.tool = h.tool + 1 /\ g.changed = h.changed /\ g.pc = "inspect"
      BY <1>3, <2>1, <3>1, Zenon DEF HandlerFields, Handling
    <3>3. h.changed = FALSE /\ h.tool + 1 \in Nat /\ h.tool + 1 >= 1
      BY <1>3, <2>1, SMTT(30) DEF Handling
    <3>4. Closed(g) /\ g.pc # "open"
      BY <3>2, <3>3, Zenon DEF Closed, Handling
    <3> QED
      BY <1>4, <2>4, <3>1, <3>4, Zenon
  <2> QED
    BY <1>2, <1>7, <2>2, <2>3, <2>4, Zenon DEF Inspect, Goes
<1>8. CASE OpenFails(j)
  <2>1. h.pc = "open" /\ h.tool \in 1 .. Len(Firewalls) /\ h.tool + 1 \in Nat /\ h.tool + 1 >= 1
    BY <1>2, <1>3, <1>8 DEF OpenFails, Handling
  <2>2. CASE job' = [job EXCEPT ![j] = Idle]
    BY <1>4, <2>2, Zenon DEF Closed
  <2>3. CASE job' = [job EXCEPT ![j] = [h EXCEPT !.pc = "inspect", !.tool = h.tool + 1]]
    <3>1. PICK g : g = [h EXCEPT !.pc = "inspect", !.tool = h.tool + 1]
      BY Zenon
    <3>2. Closed(g) /\ g.pc = "inspect"
      <4>1. DOMAIN g = HandlerFields /\ g.tool = h.tool + 1 /\ g.changed = h.changed /\ g.pc = "inspect"
        BY <1>3, <3>1, Zenon DEF HandlerFields, Handling
      <4>2. h.changed = FALSE
        BY <1>3, <2>1, Zenon DEF Handling
      <4> QED
        BY <2>1, <4>1, <4>2, Zenon DEF Closed, Handling
    <3> QED
      BY <1>4, <2>3, <3>1, <3>2, Zenon
  <2> QED
    BY <1>2, <1>8, <2>2, <2>3, Zenon DEF OpenFails, Goes
<1>9. CASE CheckFiles(j)
  <2>1. PICK g : (g = Idle \/ g = Certified(h)) /\ job' = [job EXCEPT ![j] = g]
    BY <1>2, <1>9, Zenon DEF CheckFiles, Goes
  <2>2. Closed(g) /\ (g # Idle => g.pc # "open")
    BY <1>3, <2>1, CertifiedCloses, Zenon DEF Closed
  <2> QED
    BY <1>4, <2>1, <2>2, Zenon
<1>10. CASE ReadConfig(j)
  <2>1. PICK config, g : /\ g = Idle \/ g = [h EXCEPT !.pc = "write", !.config = config]
                         /\ job' = [job EXCEPT ![j] = g]
    BY <1>2, <1>10, Zenon DEF ReadConfig
  <2>2. CASE g = Idle
    BY <1>4, <2>1, <2>2, Zenon DEF Closed
  <2>3. CASE g = [h EXCEPT !.pc = "write", !.config = config]
    <3>1. DOMAIN g = HandlerFields /\ g.tool = h.tool /\ g.changed = h.changed /\ g.pc = "write"
      BY <1>3, <2>3, Zenon DEF HandlerFields, Handling
    <3>2. h.changed = FALSE /\ h.tool \in Nat
      BY <1>2, <1>3, <1>10, Zenon DEF Handling, ReadConfig
    <3>3. Closed(g) /\ g.pc # "open"
      BY <3>1, <3>2, Zenon DEF Closed, Handling
    <3> QED
      BY <1>4, <2>1, <3>3, Zenon
  <2> QED
    BY <2>1, <2>2, <2>3, Zenon
<1>11. CASE WriteFails(j)
  BY <1>4, <1>11, Zenon DEF WriteFails, Closed
<1> QED
  BY <1>6, <1>7, <1>8, <1>9, <1>10, <1>11, Zenon

\* A request that opens or closes a port at tool u leaves the other tools as they are.
LEMMA OtherTools ==
    ASSUME FirewallInvariant, NEW j \in Job, NEW h, job' = [job EXCEPT ![j] = h], Handling(h),
           h.pc # "open", NEW u \in Tools, Tool(job[j]) = u, Tool(h) = u,
           admin' = admin, uncleaned' \in {uncleaned, uncleaned \cup {u}},
           rules' \in [Tools -> Nat], \A t \in Tools : t # u => rules'[t] = rules[t],
           u \notin uncleaned' => rules'[u] <= Own(u) + Cardinality(Openers(u))',
           u \in admin => rules'[u] >= 1 + Cardinality(Openers(u))'
    PROVE  FirewallInvariant'
<1>1. job'[j] = h /\ DOMAIN job' = Job /\ \A i \in Job : i # j => job'[i] = job[i]
  BY Zenon DEF FirewallInvariant, JobsKnown
<1>2. JobsKnown' /\ FirewallTypes'
  BY <1>1, Zenon DEF FirewallInvariant, JobsKnown, FirewallTypes, Handling
<1>3. ASSUME NEW t \in Tools, t # u
      PROVE  Openers(t)' = Openers(t) /\ rules'[t] = rules[t] /\ (t \in uncleaned' <=> t \in uncleaned)
  <2>1. ~Opened(job[j], t) /\ ~Opened(h, t)
    BY <1>3, Zenon DEF Opened
  <2> QED
    BY <1>3, <2>1, OpenersStep, Zenon DEF FirewallInvariant
<1>4. \A t \in Tools : Own(t)' = Own(t)
  BY Zenon DEF Own
<1>5. ASSUME NEW t \in Tools, t \in admin, t # "iptables", NEW i \in Job,
             job'[i] # Idle, job'[i].pc = "open"
      PROVE  Tool(job'[i]) # t
  <2>1. i # j
    BY <1>1, <1>5, Zenon
  <2> QED
    BY <1>1, <1>5, <2>1, Zenon DEF FirewallInvariant, RulesOwned
<1>6. ASSUME NEW t \in Tools
      PROVE  /\ t \notin uncleaned' => rules'[t] <= Own(t) + Cardinality(Openers(t)')
             /\ t \in admin => rules'[t] >= 1 + Cardinality(Openers(t)')
  <2>1. CASE t = u
    BY <2>1, Zenon
  <2>2. CASE t # u
    BY <1>3, <2>2, Zenon DEF FirewallInvariant, RulesOwned
  <2> QED
    BY <2>1, <2>2, Zenon
<1>7. RulesOwned'
  BY <1>4, <1>5, <1>6, Zenon DEF RulesOwned, Tool
<1> QED
  BY <1>2, <1>7, Zenon DEF FirewallInvariant

\* A port is opened: one more rule, or the one there is, and one more request that will close it.
LEMMA OpenStep ==
    ASSUME FirewallInvariant, NEW j \in Job, OpenPort(j)
    PROVE  FirewallInvariant'
<1>1. PICK h : h = job[j]
  BY Zenon
<1>2. h.pc = "open" /\ Handling(h)
  <2>1. h.pc = "open" /\ (h = Idle \/ Handling(h)) /\ Idle.pc # "open"
    BY <1>1, Zenon DEF OpenPort, FirewallInvariant, JobsKnown, Idle
  <2> QED
    BY <2>1, Zenon
<1>3. PICK g : g = [h EXCEPT !.pc = "certbot", !.changed = TRUE]
  BY Zenon
<1>4. DOMAIN g = HandlerFields /\ g.tool = h.tool /\ g.changed = TRUE /\ g.pc = "certbot"
  BY <1>2, <1>3, Zenon DEF Handling, HandlerFields
<1>5. h.tool \in 1 .. Len(Firewalls) /\ h.tool \in Nat
  BY <1>2, Zenon DEF Handling
<1>6. Handling(g) /\ g # Idle
  BY <1>4, <1>5, HandlingBusy, Zenon DEF Handling
<1>7. PICK u \in Tools : u = Tool(h) /\ u = Tool(g)
  BY <1>4, <1>5, ToolInstalled, Zenon DEF Tool
<1>8. job' = [job EXCEPT ![j] = g] /\ admin' = admin /\ uncleaned' = uncleaned
  BY <1>1, <1>3, Zenon DEF OpenPort, Goes
<1>9. rules' = [rules EXCEPT ![u] = IF u = "iptables" THEN rules[u] + 1 ELSE 1]
  BY <1>1, <1>7, Zenon DEF OpenPort
<1>10. rules \in [Tools -> Nat] /\ rules[u] \in Nat
  BY Zenon DEF FirewallInvariant, FirewallTypes
<1>11. /\ rules' \in [Tools -> Nat] /\ rules'[u] = (IF u = "iptables" THEN rules[u] + 1 ELSE 1)
       /\ \A t \in Tools : t # u => rules'[t] = rules[t]
  BY <1>9, <1>10
<1>12. ~Opened(job[j], u) /\ Opened(g, u)
  BY <1>1, <1>2, <1>4, <1>6, <1>7, Zenon DEF Opened
<1>13. /\ Cardinality(Openers(u)) \in Nat
       /\ Cardinality(Openers(u))' = Cardinality(Openers(u)) + 1
  BY <1>8, <1>12, OpenersStep, Zenon DEF FirewallInvariant
<1>14. /\ u \notin uncleaned => rules[u] <= Own(u) + Cardinality(Openers(u))
       /\ u \in admin => rules[u] >= 1 + Cardinality(Openers(u))
       /\ Own(u) \in Nat
  BY Zenon DEF FirewallInvariant, RulesOwned, Own
<1>15. u \in admin => u = "iptables"
  BY <1>1, <1>2, <1>7, HandlingBusy, Zenon DEF FirewallInvariant, RulesOwned
<1>16. u \notin uncleaned' => rules'[u] <= Own(u) + Cardinality(Openers(u))'
  BY <1>8, <1>10, <1>11, <1>13, <1>14
<1>17. u \in admin => rules'[u] >= 1 + Cardinality(Openers(u))'
  BY <1>10, <1>11, <1>13, <1>14, <1>15
<1> QED
  BY <1>1, <1>4, <1>6, <1>7, <1>8, <1>11, <1>16, <1>17, OtherTools, Zenon

\* A port is closed, or the failure is recorded; the request no longer counts.
LEMMA CloseStep ==
    ASSUME FirewallInvariant, NEW j \in Job, ClosePort(j)
    PROVE  FirewallInvariant'
<1>1. PICK h : h = job[j]
  BY Zenon
<1>2. h.pc = "close" /\ Handling(h)
  <2>1. h.pc = "close" /\ (h = Idle \/ Handling(h)) /\ Idle.pc # "close"
    BY <1>1, Zenon DEF ClosePort, FirewallInvariant, JobsKnown, Idle
  <2> QED
    BY <2>1, Zenon
<1>3. PICK g : g = [h EXCEPT !.pc = "files"]
  BY Zenon
<1>4. DOMAIN g = HandlerFields /\ g.tool = h.tool /\ g.changed = h.changed /\ g.pc = "files"
  BY <1>2, <1>3, Zenon DEF Handling, HandlerFields
<1>5. h.changed = TRUE /\ h.tool \in 1 .. Len(Firewalls) /\ h.tool \in Nat /\ h # Idle
  BY <1>2, HandlingBusy, Zenon DEF Handling
<1>6. Handling(g)
  BY <1>4, <1>5, Zenon DEF Handling
<1>7. PICK u \in Tools : u = Tool(h) /\ u = Tool(g)
  BY <1>4, <1>5, ToolInstalled, Zenon DEF Tool
<1>8. job' = [job EXCEPT ![j] = g] /\ admin' = admin
  BY <1>1, <1>3, Zenon DEF ClosePort, Goes
<1>9. \/ rules[u] > 0 /\ rules' = [rules EXCEPT ![u] = rules[u] - 1] /\ uncleaned' = uncleaned
      \/ uncleaned' = uncleaned \cup {u} /\ rules' = rules
  BY <1>1, <1>7, Zenon DEF ClosePort
<1>10. rules \in [Tools -> Nat] /\ rules[u] \in Nat
  BY Zenon DEF FirewallInvariant, FirewallTypes
<1>11. /\ rules' \in [Tools -> Nat] /\ uncleaned' \in {uncleaned, uncleaned \cup {u}}
       /\ \/ rules'[u] = rules[u] - 1 /\ uncleaned' = uncleaned
          \/ rules'[u] = rules[u] /\ u \in uncleaned'
       /\ \A t \in Tools : t # u => rules'[t] = rules[t]
  <2>1. CASE rules[u] > 0 /\ rules' = [rules EXCEPT ![u] = rules[u] - 1] /\ uncleaned' = uncleaned
    <3>1. rules[u] - 1 \in Nat
      BY <1>10, <2>1
    <3> QED
      BY <1>10, <2>1, <3>1, Zenon
  <2>2. CASE uncleaned' = uncleaned \cup {u} /\ rules' = rules
    BY <1>10, <2>2, Zenon
  <2> QED
    BY <1>9, <2>1, <2>2, Zenon
<1>12. Opened(job[j], u) /\ ~Opened(g, u)
  BY <1>1, <1>2, <1>4, <1>5, <1>7, Zenon DEF Opened
<1>13. /\ Cardinality(Openers(u)) \in Nat
       /\ Cardinality(Openers(u))' = Cardinality(Openers(u)) - 1
  BY <1>8, <1>12, OpenersStep, Zenon DEF FirewallInvariant
<1>14. /\ u \notin uncleaned => rules[u] <= Own(u) + Cardinality(Openers(u))
       /\ u \in admin => rules[u] >= 1 + Cardinality(Openers(u))
       /\ Own(u) \in Nat
  BY Zenon DEF FirewallInvariant, RulesOwned, Own
<1>15. u \notin uncleaned' => rules'[u] <= Own(u) + Cardinality(Openers(u))'
  BY <1>10, <1>11, <1>13, <1>14
<1>16. u \in admin => rules'[u] >= 1 + Cardinality(Openers(u))'
  BY <1>10, <1>11, <1>13, <1>14
<1> QED
  BY <1>1, <1>4, <1>6, <1>7, <1>8, <1>11, <1>15, <1>16, OtherTools, Zenon

\* certbot leaves an opened port to be closed, whatever comes of it.
LEMMA CertbotStep ==
    ASSUME FirewallInvariant, NEW j \in Job, Certbot(j)
    PROVE  FirewallInvariant'
<1>1. PICK h : h = job[j]
  BY Zenon
<1>2. h.pc = "certbot" /\ Handling(h)
  <2>1. h.pc = "certbot" /\ (h = Idle \/ Handling(h)) /\ Idle.pc # "certbot"
    BY <1>1, Zenon DEF Certbot, FirewallInvariant, JobsKnown, Idle
  <2> QED
    BY <2>1, Zenon
<1>3. UNCHANGED <<rules, admin, uncleaned>>
  BY Zenon DEF Certbot
<1>4. PICK ok, x : /\ x = [h EXCEPT !.ok = ok]
                   /\ job' = [job EXCEPT ![j] = [x EXCEPT !.pc = IF CleanUp(x) THEN "close" ELSE "files"]]
  BY <1>1, Zenon DEF Certbot, Goes
<1>5. PICK g : g = [x EXCEPT !.pc = IF CleanUp(x) THEN "close" ELSE "files"]
  BY Zenon
<1>6. DOMAIN x = HandlerFields /\ x.tool = h.tool /\ x.changed = h.changed
  BY <1>2, <1>4, Zenon DEF Handling, HandlerFields
<1>7. /\ DOMAIN g = HandlerFields /\ g.tool = h.tool /\ g.changed = h.changed
      /\ g.pc = IF h.changed THEN "close" ELSE "files"
  BY <1>5, <1>6, Zenon DEF HandlerFields, CleanUp
<1>8. Handling(g)
  BY <1>2, <1>7, Zenon DEF Handling
<1>9. \A t \in Tools : Opened(job[j], t) <=> Opened(g, t)
  BY <1>1, <1>2, <1>7, <1>8, HandlingBusy, Zenon DEF Opened, Tool
<1>10. job' = [job EXCEPT ![j] = g] /\ g.pc # "open"
  BY <1>4, <1>5, <1>7
<1> QED
  BY <1>3, <1>8, <1>9, <1>10, HandlerStep, Zenon

\* The file is written; those who have yet to read it only note what they owe.
LEMMA WriteStep ==
    ASSUME FirewallInvariant, NEW j \in Job, WriteConfig(j)
    PROVE  FirewallInvariant'
<1>1. UNCHANGED <<rules, admin, uncleaned>>
  BY Zenon DEF WriteConfig, host
<1>2. ASSUME NEW i \in Job
      PROVE  \/ job'[i] = job[i]
             \/ i = j /\ job[i].pc = "write" /\ job'[i] = Idle
             \/ job[i] # Idle /\ \E x : job'[i] = [job[i] EXCEPT !.due = x]
  BY Zenon DEF WriteConfig, Idle
<1>3. ASSUME NEW i \in Job
      PROVE  /\ job'[i] = Idle \/ Handling(job'[i])
             /\ \A t \in Tools : Opened(job[i], t) <=> Opened(job'[i], t)
             /\ job'[i] # Idle /\ job'[i].pc = "open" =>
                   job[i] # Idle /\ job[i].pc = "open" /\ Tool(job'[i]) = Tool(job[i])
  <2>1. CASE job'[i] = job[i]
    BY <2>1, Zenon DEF FirewallInvariant, JobsKnown
  <2>2. CASE job[i].pc = "write" /\ job'[i] = Idle
    BY <2>2, Zenon DEF Opened
  <2>3. CASE job[i] # Idle /\ \E x : job'[i] = [job[i] EXCEPT !.due = x]
    <3>1. PICK h : h = job[i]
      BY Zenon
    <3>2. Handling(h) /\ h # Idle
      BY <2>3, <3>1, Zenon DEF FirewallInvariant, JobsKnown
    <3>3. PICK g, x : g = [h EXCEPT !.due = x] /\ job'[i] = g
      BY <2>3, <3>1, Zenon
    <3>4. DOMAIN g = HandlerFields /\ g.tool = h.tool /\ g.changed = h.changed /\ g.pc = h.pc
      BY <3>2, <3>3, Zenon DEF Handling, HandlerFields
    <3>5. Handling(g) /\ g # Idle
      BY <3>2, <3>4, HandlingBusy, Zenon DEF Handling
    <3> QED
      BY <3>1, <3>2, <3>3, <3>4, <3>5, Zenon DEF Opened, Tool
  <2> QED
    BY <1>2, <2>1, <2>2, <2>3, Zenon
<1>4. DOMAIN job' = Job
  BY Zenon DEF WriteConfig
<1>5. ASSUME NEW t \in Tools
      PROVE  Openers(t)' = Openers(t) /\ Own(t)' = Own(t)
  <2>1. Openers(t)' = {i \in Job : Opened(job'[i], t)}
    BY Zenon DEF Openers, Opened, Tool
  <2> QED
    BY <1>1, <1>3, <2>1, Zenon DEF Openers, Own
<1>6. JobsKnown' /\ FirewallTypes'
  BY <1>1, <1>3, <1>4, Zenon DEF FirewallInvariant, JobsKnown, FirewallTypes, Handling
<1>7. RulesOwned'
  <2> SUFFICES ASSUME NEW t \in Tools
               PROVE  /\ t \notin uncleaned => rules[t] <= Own(t) + Cardinality(Openers(t))
                      /\ t \in admin => rules[t] >= 1 + Cardinality(Openers(t))
                      /\ t \in admin /\ t # "iptables" =>
                            \A i \in Job : job'[i] # Idle /\ job'[i].pc = "open" => Tool(job'[i]) # t
    BY <1>1, <1>5, Zenon DEF RulesOwned, Tool
  <2> QED
    BY <1>3, Zenon DEF FirewallInvariant, RulesOwned
<1> QED
  BY <1>6, <1>7, Zenon DEF FirewallInvariant

\* Port 80 stays open where the administrator opened it, and when no request is in flight it is
\* open nowhere else, but where closing it failed: for any number of requests that overlap or
\* fail, and any firewall tools.
THEOREM FirewallKeptCorrect == ConfigSpec => []FirewallKept
<1>1. ConfigInit => FirewallInvariant
  <2> SUFFICES ASSUME ConfigInit PROVE FirewallInvariant
    BY Zenon
  <2>1. admin \subseteq Tools
    BY GuiConfigAssumption, Zenon DEF ConfigInit, Tools
  <2>2. FirewallTypes /\ JobsKnown
    BY <2>1, Zenon DEF ConfigInit, FirewallTypes, JobsKnown
  <2>3. \A t \in Tools : Openers(t) = {}
    BY Zenon DEF ConfigInit, Openers, Opened
  <2>4. Cardinality({}) = 0
    BY FS_EmptySet, Zenon
  <2>5. ASSUME NEW t \in Tools
        PROVE  rules[t] = Own(t) /\ Cardinality(Openers(t)) = 0 /\ Own(t) \in Nat
    BY <2>3, <2>4, Zenon DEF ConfigInit, Own
  <2>6. \A j \in Job : job[j] = Idle
    BY Zenon DEF ConfigInit
  <2>7. RulesOwned
    BY <2>5, <2>6 DEF RulesOwned, Own
  <2> QED
    BY <2>2, <2>7, Zenon DEF FirewallInvariant
<1>2. FirewallInvariant /\ [ConfigNext]_configVars => FirewallInvariant'
  <2> SUFFICES ASSUME FirewallInvariant, [ConfigNext]_configVars PROVE FirewallInvariant'
    BY Zenon
  <2>1. CASE UNCHANGED configVars
    <3>1. UNCHANGED <<job, rules, admin, uncleaned>>
      BY <2>1, Zenon DEF configVars
    <3>2. (FirewallTypes /\ JobsKnown)'
      BY <3>1, Zenon DEF FirewallInvariant, FirewallTypes, JobsKnown, Handling
    <3>3. \A t \in Tools : Openers(t)' = Openers(t) /\ Own(t)' = Own(t)
      BY <3>1, Zenon DEF Openers, Opened, Own, Tool
    <3>4. RulesOwned'
      BY <3>1, <3>3, Zenon DEF FirewallInvariant, RulesOwned, Tool
    <3> QED
      BY <3>2, <3>4, Zenon DEF FirewallInvariant
  <2>2. CASE ConfigNext
    BY <2>2, RequestStep, QuietStep, OpenStep, CertbotStep, CloseStep, WriteStep, Zenon DEF ConfigNext, Step
  <2> QED
    BY <2>1, <2>2, Zenon
<1>3. FirewallInvariant => FirewallKept
  <2> SUFFICES ASSUME FirewallInvariant PROVE FirewallKept
    BY Zenon
  <2>1. ASSUME NEW t \in Tools
        PROVE  rules[t] \in Nat /\ Cardinality(Openers(t)) \in Nat
    BY FS_Subset, FS_CardinalityType, GuiConfigAssumption, Zenon DEF FirewallInvariant, FirewallTypes, Openers
  <2>2. AdminRuleKept
    BY <2>1 DEF FirewallInvariant, FirewallTypes, RulesOwned, AdminRuleKept
  <2>3. ASSUME \A j \in Job : job[j] = Idle, NEW t \in Tools \ uncleaned
        PROVE  rules[t] = (IF t \in admin THEN 1 ELSE 0)
    <3>1. Openers(t) = {}
      BY <2>3, Zenon DEF Openers, Opened
    <3>2. Cardinality(Openers(t)) = 0
      BY <3>1, FS_EmptySet, Zenon
    <3> QED
      BY <2>1, <3>2 DEF FirewallInvariant, RulesOwned, Own
  <2> QED
    BY <2>2, <2>3, Zenon DEF FirewallKept, FirewallRestored
<1> QED
  BY <1>1, <1>2, <1>3, PTL DEF ConfigSpec
=============================================================================
