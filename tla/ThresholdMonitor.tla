--------------------------- MODULE ThresholdMonitor ---------------------------
(***************************************************************************)
(* The partials-threshold monitor: a job started by a timer, again and     *)
(* again and one at a time, that watches the CDR's read requests and posts *)
(* an alert for those that expire below their threshold. What it knows     *)
(* from one run to the next is a file that travels in the CI's cache: a    *)
(* run that dies leaves the cache as it was, and the cache may be lost.    *)
(*                                                                         *)
(* A read request is its place in the log of VaultRead events; every read  *)
(* has a requester key of its own.                                         *)
(***************************************************************************)
EXTENDS Integers, Sequences, FiniteSets, FiniteSetsExt

CONSTANTS
    Keys,           \* (uuid, ciphertext) pairs
    Rounds,         \* DKG rounds, in the order they become active
    Threshold,      \* partials a round needs
    Timeout,        \* DECRYPT_TIMEOUT_BLOCKS, and the keeper's decrypt timeout
    MaxHead,        \* bound: blocks; the last read expires before the last one
    MaxReads,       \* bound: reads made
    MaxMishaps,     \* bound: runs killed after their post, caches lost
    None            \* no block scanned yet

ASSUME RoundsAssumption == Rounds \subseteq Nat /\ Rounds # {}
ASSUME ThresholdAssumption == Threshold \in Nat \ {0} /\ Timeout \in Nat
ASSUME BoundsAssumption == MaxHead \in Nat /\ MaxReads \in Nat /\ MaxMishaps \in Nat
ASSUME NoneAssumption == None \notin Nat

VARIABLES
    \* --- the chain and the keeper
    head,           \* the latest block
    log,            \* VaultRead events, in order: [key, block]
    activeRound,
    outage,         \* the keeper, the RPC, Slack or the job's machine is down
    partials,       \* [Reads -> [Rounds -> 0..Threshold]]: partials accepted
    \* --- what survives a run
    cache,          \* read_requests.json: [lastScannedBlock, requests]
    mishaps,        \* runs that posted without saving, and caches lost
    lost,           \* of these, the caches lost
    \* --- the run
    at,             \* where it stands, "idle" between two runs
    now,            \* the head it read first
    remaining, expired, shortfalls,     \* sets of reads
    lagging,        \* (history) reads the keeper had the threshold for, but with its
                    \* flag down, when a run asked
    \* --- Slack
    alerts          \* [Reads -> Nat]: posted messages that name the read

chainVars == <<head, log, activeRound, outage, partials>>
keptVars == <<cache, mishaps, lost>>
runVars == <<at, now, remaining, expired, shortfalls>>
postVars == <<lagging, alerts>>
vars == <<chainVars, keptVars, runVars, postVars>>

Reads == 1..MaxReads
Blocks == 0..MaxHead
Made == 1..Len(log)

EmptyState == [lastScannedBlock |-> None, requests |-> {}]

\* `requests` holds reads: their key, block and deadline are those of the log.
Deadline(i) == log[i].block + Timeout

\* Mutant: >= for >.
IsExpiredAtDeadline(i, block) == block >= Deadline(i)

\* isExpired
IsExpired(i, block) == block > Deadline(i)

\* Mutant: one block short of the window.
NextScanFromShort(last, block) ==
    IF last = None THEN (IF block > Timeout THEN block - Timeout + 1 ELSE 0) ELSE last + 1

\* nextScanFrom
NextScanFrom(last, block) ==
    IF last = None THEN (IF block > Timeout THEN block - Timeout ELSE 0) ELSE last + 1

\* matchGroup: rounds whose group for the request is not empty; the newest counts.
Groups(i) == {r \in Rounds : partials[i][r] > 0}

\* The newest group, as it is now, lists as many partials as its round asks for.
Reached(i) == Groups(i) # {} /\ partials[i][Max(Groups(i))] >= Threshold

\* classifyExpired answers "met" when the keeper's own flag for that group says so too.
Met(i, thresholdMet) == thresholdMet /\ Reached(i)

------------------------------------------------------------------------------
Init ==
    /\ head = 0
    /\ log = <<>>
    /\ activeRound \in Rounds
    /\ outage = FALSE
    /\ partials = [i \in Reads |-> [r \in Rounds |-> 0]]
    /\ cache = EmptyState
    /\ mishaps = 0 /\ lost = 0
    /\ at = "idle"
    /\ now = 0
    /\ remaining = {} /\ expired = {} /\ shortfalls = {}
    /\ lagging = {}
    /\ alerts = [i \in Reads |-> 0]

------------------------------------------------------------------------------
(* The chain and the keeper. *)

MineBlock ==
    /\ head < MaxHead
    /\ head' = head + 1
    /\ UNCHANGED <<log, activeRound, outage, partials, keptVars, runVars, postVars>>

\* A read lands in the next block.
MineRead(k) ==
    /\ head + 1 + Timeout < MaxHead
    /\ Len(log) < MaxReads
    /\ head' = head + 1
    /\ log' = Append(log, [key |-> k, block |-> head + 1])
    /\ UNCHANGED <<activeRound, outage, partials, keptVars, runVars, postVars>>

\* The keeper takes partials for the active round until the deadline, inclusive.
AcceptPartial(i) ==
    /\ i \in Made
    /\ head <= Deadline(i)
    /\ partials[i][activeRound] < Threshold
    /\ partials' = [partials EXCEPT ![i][activeRound] = @ + 1]
    /\ UNCHANGED <<head, log, activeRound, outage, keptVars, runVars, postVars>>

RollOver ==
    /\ \E r \in Rounds : r > activeRound /\ activeRound' = r
    /\ UNCHANGED <<head, log, outage, partials, keptVars, runVars, postVars>>

Outage ==
    /\ outage' = ~outage
    /\ UNCHANGED <<head, log, activeRound, partials, keptVars, runVars, postVars>>

------------------------------------------------------------------------------
(* A run of main(). *)

\* The head and the file; the requests past their deadline are set apart.
StartRun ==
    /\ at = "idle"
    /\ at' = "sweep"
    /\ now' = head
    /\ expired' = {i \in cache.requests : IsExpired(i, head)}
    /\ remaining' = cache.requests \ expired'
    /\ shortfalls' = {}
    /\ UNCHANGED <<chainVars, keptVars, postVars>>

\* The keeper's flag may lag behind its own list; raised too early it decides nothing.
Answer(i) ==
    \E thresholdMet \in BOOLEAN :
        /\ shortfalls' = IF Met(i, thresholdMet) THEN shortfalls ELSE shortfalls \cup {i}
        /\ lagging' = IF Reached(i) /\ ~thresholdMet THEN lagging \cup {i} ELSE lagging

\* Mutant: "not found" is a failure like any other.
SweepRetryingNotFound(i) ==
    /\ at = "sweep"
    /\ i \in expired
    /\ expired' = expired \ {i}
    /\ \/ Groups(i) # {} /\ Answer(i) /\ UNCHANGED remaining
       \/ Groups(i) = {} /\ remaining' = remaining \cup {i} /\ UNCHANGED <<shortfalls, lagging>>
    /\ UNCHANGED <<chainVars, keptVars, at, now, alerts>>

\* The keeper answers for an expired request, a "not found" being no groups.
Sweep(i) ==
    /\ at = "sweep"
    /\ i \in expired
    /\ expired' = expired \ {i}
    /\ Answer(i)
    /\ UNCHANGED <<chainVars, keptVars, at, now, remaining, alerts>>

\* It does not answer: the request is kept for the next run.
SweepLater(i) ==
    /\ outage
    /\ at = "sweep"
    /\ i \in expired
    /\ expired' = expired \ {i}
    /\ remaining' = remaining \cup {i}
    /\ UNCHANGED <<chainVars, keptVars, at, now, shortfalls, postVars>>

\* The reads in the blocks to scan, of each key not seen yet the first.
Scanned == {i \in Made : NextScanFrom(cache.lastScannedBlock, now) <= log[i].block
                         /\ log[i].block <= now}
Seen == {log[i].key : i \in remaining}
Ingested == {i \in Scanned : /\ log[i].key \notin Seen
                             /\ \A j \in Scanned : j < i => log[j].key # log[i].key}

Ingest ==
    /\ at = "sweep"
    /\ expired = {}
    /\ remaining' = remaining \cup Ingested
    /\ at' = "alert"
    /\ UNCHANGED <<chainVars, keptVars, now, expired, shortfalls, postVars>>

\* One message for all shortfalls, if there are any.
Alert ==
    /\ at = "alert"
    /\ alerts' = [i \in Reads |-> IF i \in shortfalls THEN alerts[i] + 1 ELSE alerts[i]]
    /\ at' = "save"
    /\ UNCHANGED <<chainVars, keptVars, now, remaining, expired, shortfalls, lagging>>

\* Mutant: what was swept is not removed from the file.
SaveAppending ==
    /\ at = "save"
    /\ cache' = [lastScannedBlock |-> now, requests |-> remaining \cup cache.requests]
    /\ at' = "idle"
    /\ UNCHANGED <<chainVars, mishaps, lost, now, remaining, expired, shortfalls, postVars>>

\* saveState, and the workflow's step that puts the file in the cache.
Save ==
    /\ at = "save"
    /\ cache' = [lastScannedBlock |-> now, requests |-> remaining]
    /\ at' = "idle"
    /\ UNCHANGED <<chainVars, mishaps, lost, now, remaining, expired, shortfalls, postVars>>

\* Mutant: the state is saved before the post, so that a refused post loses it.
RunThrowsAfterSave ==
    /\ outage
    /\ at \in {"sweep", "alert"}
    /\ at' = "idle"
    /\ cache' = IF at = "alert" THEN [lastScannedBlock |-> now, requests |-> remaining] ELSE cache
    /\ UNCHANGED <<chainVars, mishaps, lost, now, remaining, expired, shortfalls, postVars>>

\* The logs or the active round cannot be read, the post is refused or has no
\* webhook, or the job dies: nothing is saved.
RunThrows ==
    /\ outage
    /\ at \in {"sweep", "alert"}
    /\ at' = "idle"
    /\ UNCHANGED <<chainVars, keptVars, now, remaining, expired, shortfalls, postVars>>

\* The post is delivered and the run dies, or hears of a failure, before the save.
RunKilledAfterPost ==
    /\ at = "save"
    /\ shortfalls # {}
    /\ mishaps < MaxMishaps
    /\ mishaps' = mishaps + 1
    /\ at' = "idle"
    /\ UNCHANGED <<chainVars, cache, lost, now, remaining, expired, shortfalls, postVars>>

\* loadState finds no file, or one that was cut short: an empty state.
LoseCache ==
    /\ at = "idle"
    /\ cache # EmptyState
    /\ mishaps < MaxMishaps
    /\ mishaps' = mishaps + 1
    /\ lost' = lost + 1
    /\ cache' = EmptyState
    /\ UNCHANGED <<chainVars, runVars, postVars>>

------------------------------------------------------------------------------
Chain ==
    \/ MineBlock \/ RollOver \/ Outage
    \/ \E k \in Keys : MineRead(k)
    \/ \E i \in Reads : AcceptPartial(i)

Progress == StartRun \/ Ingest \/ Alert \/ Save \/ \E i \in Reads : Sweep(i)

Next ==
    \/ Chain \/ Progress
    \/ \E i \in Reads : SweepLater(i)
    \/ RunThrows \/ RunKilledAfterPost \/ LoseCache

Spec == Init /\ [][Next]_vars

\* The timer starts runs again and again, blocks are mined, and the keeper, the RPC,
\* Slack and the job's machine fail for some time only.
FairSpec ==
    /\ Spec
    /\ WF_vars(MineBlock) /\ WF_vars(Progress)
    /\ <>[]~outage

------------------------------------------------------------------------------
(* Properties. *)

States == [lastScannedBlock : Blocks \cup {None}, requests : SUBSET Reads]

\* The type invariant.
TypeOK ==
    /\ head \in Blocks
    /\ log \in Seq([key : Keys, block : Blocks]) /\ Len(log) <= MaxReads
    /\ activeRound \in Rounds
    /\ outage \in BOOLEAN
    /\ partials \in [Reads -> [Rounds -> 0..Threshold]]
    /\ cache \in States
    /\ mishaps \in 0..MaxMishaps /\ lost \in 0..mishaps
    /\ at \in {"idle", "sweep", "alert", "save"}
    /\ now \in Blocks
    /\ remaining \subseteq Made /\ expired \subseteq Made /\ shortfalls \subseteq Made
    /\ cache.requests \subseteq Made
    /\ lagging \subseteq Made
    /\ alerts \in [Reads -> Nat]

\* Nobody else reads the same ciphertext of the same vault.
Sole(i) == \A j \in Made : log[j].key = log[i].key => j = i

Open(i, block) == log[i].block <= block /\ ~IsExpired(i, block)

\* The file is never missing a request that was open at the last block scanned,
\* over failed and killed runs and from the first run on after a lost cache: the
\* scan ranges of successive runs leave no gap, and the first one reaches back far
\* enough.
OpenReadsWatched ==
    cache.lastScannedBlock # None =>
        \A i \in Made :
            Sole(i) /\ Open(i, cache.lastScannedBlock) => i \in cache.requests

\* No alert is false: a request it names was past its deadline, and a round in which
\* the keeper has the threshold for it was overtaken by a newer one that began to serve
\* the request too; since the keeper takes nothing after the deadline, that is final. The
\* exception is a keeper whose flag was still down when it was asked, although its list
\* was full: then it is called a shortfall, as the keeper has it.
AlertsAreTrue ==
    \A i \in Made : alerts[i] > 0 =>
        /\ IsExpired(i, head)
        /\ \/ i \in lagging
           \/ \A r \in Rounds : partials[i][r] >= Threshold =>
                  \E q \in Rounds : q > r /\ partials[i][q] > 0

\* A shortfall is posted once, but for the runs that die between the post and the
\* save, and the caches lost.
RepeatsOnlyAfterMishap == \A i \in Reads : alerts[i] <= 1 + mishaps

\* A request leaves the file only when it met its threshold or was alerted (or with
\* the whole file): no failure of the keeper, of the RPC or of Slack drops it.
LeavesOnlyResolved ==
    [][lost' = lost =>
          \A i \in cache.requests \ cache'.requests : Reached(i) \/ alerts[i] > 0]_vars

\* No request stays in the file for ever; one without any partial does not either,
\* though the keeper reports it as an error.
Resolved == \A i \in Reads : (i \in cache.requests) ~> (i \notin cache.requests)
=============================================================================
