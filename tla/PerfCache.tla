------------------------------ MODULE PerfCache ------------------------------
(***************************************************************************)
(* The totals of the performance page (src/FerrumGUI/src/index.ts): the    *)
(* counters of a FerrumProxy process start again with it, so GET           *)
(* performance adds what is new to a file, performance-cache.json, and     *)
(* DELETE performance-cache clears it.  Both read the file, wait, and      *)
(* write it through one temporary file; nothing keeps two of them apart.   *)
(*                                                                         *)
(* All counters are treated alike, so one stands for them.  A request      *)
(* takes the counter from the answer of the process, and then asks the     *)
(* process manager when the process was started: the process may have      *)
(* ended in between, or another one be there.                              *)
(* Requests that find the API disabled or unreachable change nothing.      *)
(***************************************************************************)
EXTENDS Common

CONSTANTS
    Poll,       \* requests in flight
    MaxBytes,   \* bound: bytes the processes move in all
    MaxRuns,    \* bound: processes started one after the other
    Torn        \* a file that is empty, partly written or does not parse

VARIABLES
    proc,       \* the process: its start time, its counter, whether it runs
    produced,   \* bytes all processes have moved
    cacheFile, tmpFile,
    poll        \* the handler of each request in flight

perfVars == <<proc, produced, cacheFile, tmpFile, poll>>
files == <<cacheFile, tmpFile>>

\* since, at and wrong are history: what had been produced when the counting of this cache
\* started, and at the point from where the next sample adds; and whether one of its samples
\* came late or under another start time than that of its process.
EmptyCache ==
    [started |-> None, lastRaw |-> None, accumulated |-> 0, since |-> 0, at |-> 0, wrong |-> FALSE]

NoPoll == [pc |-> "free"]

PerfInit ==
    /\ proc = [started |-> 1, raw |-> 0, up |-> TRUE] /\ produced = 0
    /\ cacheFile = None /\ tmpFile = None
    /\ poll = [p \in Poll |-> NoPoll]

Traffic ==
    /\ proc.up /\ produced < MaxBytes
    /\ proc' = [proc EXCEPT !.raw = @ + 1] /\ produced' = produced + 1
    /\ UNCHANGED <<files, poll>>

Exit ==
    /\ proc.up /\ proc' = [proc EXCEPT !.up = FALSE, !.raw = 0]
    /\ UNCHANGED <<produced, files, poll>>

StartProcess ==
    /\ ~proc.up /\ proc.started < MaxRuns
    /\ proc' = [started |-> proc.started + 1, raw |-> 0, up |-> TRUE]
    /\ UNCHANGED <<produced, files, poll>>

-----------------------------------------------------------------------------
(* GET performance and DELETE performance-cache, up to the write.          *)

\* What the process answers; run is history, the process it came from.
Answered == [raw |-> proc.raw, run |-> proc.started, at |-> produced]

\* getStartedAt, and without a process the lastStarted of the record as it was when the
\* request came in: nothing, or the time at which one of the starts was recorded, seldom
\* the very time of the start (-k is the record of start k).
processStartedAt(answer) ==
    IF proc.up THEN {proc.started}
    ELSE {None, answer.run} \cup {-k : k \in 1 .. answer.run}

GetPerformance(p) ==
    /\ poll[p] = NoPoll /\ proc.up
    /\ poll' = [poll EXCEPT ![p] = [pc |-> "name", answer |-> Answered, late |-> FALSE]]
    /\ UNCHANGED <<proc, produced, files>>

NameSample(p) ==
    /\ poll[p].pc = "name"
    /\ \E started \in processStartedAt(poll[p].answer) :
           poll' = [poll EXCEPT ![p] = [pc |-> "load", answer |-> poll[p].answer,
                                        started |-> started, late |-> poll[p].late]]
    /\ UNCHANGED <<proc, produced, files>>

readPerformanceCache == IF cacheFile \in {None, Torn} THEN EmptyCache ELSE cacheFile

Previous(cache, started) == IF started # None /\ cache.started = started THEN cache.lastRaw ELSE None

addProtocolTotals_afresh(raw, previous) == raw

\* What a sample adds, given the one before of the same process.
addProtocolTotals(raw, previous) ==
    IF previous = None THEN raw ELSE IF raw >= previous THEN raw - previous ELSE raw

LoadAndAdd(p) ==
    LET cache == readPerformanceCache
        s == poll[p].answer
        started == poll[p].started
        previous == Previous(cache, started) IN
    /\ poll[p].pc = "load"
    /\ poll' = [poll EXCEPT ![p] =
           [pc |-> "open", cache |-> [cache EXCEPT
                !.accumulated = @ + addProtocolTotals(s.raw, previous),
                !.started = started, !.lastRaw = s.raw, !.at = s.at,
                !.wrong = @ \/ poll[p].late \/ started # s.run]]]
    /\ UNCHANGED <<proc, produced, files>>

DeletePerformanceCache(p) ==
    /\ poll[p] = NoPoll
    /\ poll' = [poll EXCEPT ![p] =
           [pc |-> "clear", cache |-> [readPerformanceCache EXCEPT !.accumulated = 0]]]
    /\ UNCHANGED <<proc, produced, files>>

\* No process, or it does not answer: the next sample counts all there is on its counter.
Forgotten(cache) ==
    [cache EXCEPT !.started = None, !.lastRaw = None, !.wrong = FALSE,
                  !.since = produced - proc.raw, !.at = produced - proc.raw]

\* The counter as it was answered is where counting starts again.
Baseline(cache, s, started) ==
    [cache EXCEPT !.started = started, !.lastRaw = s.raw, !.wrong = started # s.run,
                  !.since = s.at, !.at = s.at]

\* The process does not answer, refuses (which leaves the last sample), or answers.
ClearSampled(p) ==
    LET cache == poll[p].cache IN
    /\ poll[p].pc = "clear"
    /\ \/ poll' = [poll EXCEPT ![p] = [pc |-> "open", cache |-> Forgotten(cache)]]
       \/ proc.up /\ poll' = [poll EXCEPT ![p] =
              [pc |-> "open", cache |-> [cache EXCEPT !.since = cache.at]]]
       \/ proc.up /\ poll' = [poll EXCEPT ![p] =
              [pc |-> "baseline", cache |-> cache, answer |-> Answered]]
    /\ UNCHANGED <<proc, produced, files>>

NameBaseline(p) ==
    /\ poll[p].pc = "baseline"
    /\ \E started \in processStartedAt(poll[p].answer) :
           poll' = [poll EXCEPT ![p] =
               [pc |-> "open", cache |-> Baseline(poll[p].cache, poll[p].answer, started)]]
    /\ UNCHANGED <<proc, produced, files>>

-----------------------------------------------------------------------------
(* writePerformanceCache: the temporary file is truncated, written and     *)
(* renamed.  Who has it open while another renames it writes on in what is *)
(* now the cache.                                                          *)

OpenTemporary(p) ==
    /\ poll[p].pc = "open" /\ tmpFile' = Torn
    /\ poll' = [poll EXCEPT ![p] = [pc |-> "fill", cache |-> poll[p].cache, into |-> "tmp"]]
    /\ UNCHANGED <<proc, produced, cacheFile>>

\* A shorter text over a longer one leaves the end of the longer one.
Written(old, cache) == IF old = Torn THEN {cache} ELSE {cache, Torn}

Passed(h) == IF h.pc \in {"name", "load"} THEN [h EXCEPT !.late = TRUE] ELSE h

FillTemporary(p) ==
    /\ poll[p].pc = "fill"
    /\ \/ poll[p].into = "tmp" /\ tmpFile' \in Written(tmpFile, poll[p].cache) /\ UNCHANGED cacheFile
       \/ poll[p].into = "cache" /\ cacheFile' \in Written(cacheFile, poll[p].cache) /\ UNCHANGED tmpFile
       \/ poll[p].into = "gone" /\ UNCHANGED files
    /\ poll' = [q \in Poll |-> IF q = p THEN [pc |-> "rename"]
                               ELSE IF poll[p].into = "cache" THEN Passed(poll[q]) ELSE poll[q]]
    /\ UNCHANGED <<proc, produced>>

Moved(h) ==
    IF h.pc # "fill" THEN Passed(h)
    ELSE [h EXCEPT !.into = IF h.into = "tmp" THEN "cache" ELSE "gone"]

\* rename: without a temporary file it fails, and so does the request.
RenameTemporary(p) ==
    /\ poll[p].pc = "rename"
    /\ IF tmpFile = None THEN UNCHANGED files /\ poll' = [poll EXCEPT ![p] = NoPoll]
       ELSE /\ cacheFile' = tmpFile /\ tmpFile' = None
            /\ poll' = [q \in Poll |-> IF q = p THEN NoPoll ELSE Moved(poll[q])]
    /\ UNCHANGED <<proc, produced>>

PerfNext ==
    \/ Traffic \/ Exit \/ StartProcess
    \/ \E p \in Poll :
           \/ GetPerformance(p) \/ NameSample(p) \/ LoadAndAdd(p)
           \/ DeletePerformanceCache(p) \/ ClearSampled(p) \/ NameBaseline(p)
           \/ OpenTemporary(p) \/ FillTemporary(p) \/ RenameTemporary(p)

PerfSpec == PerfInit /\ [][PerfNext]_perfVars

-----------------------------------------------------------------------------

CacheType ==
    [started : -MaxRuns .. MaxRuns \cup {None}, lastRaw : 0 .. MaxBytes \cup {None},
     accumulated : Nat, since : 0 .. MaxBytes, at : 0 .. MaxBytes, wrong : BOOLEAN]

\* Each variable has its type; the totals addProtocolTotals writes stay natural numbers, also when
\* the raw counter falls because the process started anew.
PerfTypeOK ==
    /\ proc \in [started : 1 .. MaxRuns, raw : 0 .. MaxBytes, up : BOOLEAN]
    /\ produced \in 0 .. MaxBytes
    /\ cacheFile \in CacheType \cup {None, Torn} /\ tmpFile \in CacheType \cup {None, Torn}
    /\ \A p \in Poll : poll[p].pc \in {"open", "fill", "clear", "baseline"} => poll[p].cache \in CacheType

\* A byte is counted twice only through a sample that is itself out of order, whatever
\* restarts, lost updates, torn files and failed renames there are: GET performance read
\* the file after another request had written it since the process answered
\* (addProtocolTotals takes the smaller counter for a restart), or the process ended
\* between its answer and getStartedAt, so that the counter is filed under lastStarted.
\* Every other sample keeps to what was produced since the clear its file goes back to,
\* and DELETE performance-cache with an orderly sample, or none, ends the excess for
\* good.  (A GET that read the file before a DELETE and writes it afterwards undoes the
\* clear: total and beginning come back together.)
NeverCountsTwice ==
    cacheFile \notin {None, Torn} /\ ~cacheFile.wrong =>
        cacheFile.accumulated <= produced - cacheFile.since

\* The performance cache is sound: the types, and no byte counted twice.
PerfSound == PerfTypeOK /\ NeverCountsTwice
=============================================================================
