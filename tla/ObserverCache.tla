---------------------------- MODULE ObserverCache ----------------------------
(***************************************************************************)
(* Observer's caches of DKG networks and validator registrations, and the  *)
(* registry status Consumer.prefetchRegistry derives from them, against a  *)
(* DKG whose rounds are still moving.                                      *)
(*                                                                         *)
(* A cache entry is a promise: the number of the request it stands for.    *)
(* A request is sent, sampled by the server at some later moment, and its  *)
(* answer (or failure) reaches the client later still, in any order with   *)
(* respect to the others; a settled promise runs its eviction handler in   *)
(* the same turn.                                                          *)
(***************************************************************************)
EXTENDS Integers, FiniteSets

CONSTANTS
    Rounds,         \* DKG rounds, in the order they become active
    Validators,     \* the validators that register in a round
    Prefetches,     \* calls of prefetchRegistry, a set of numbers: k is the k-th
    MaxRequests,    \* bound: REST requests sent in a behaviour
    None            \* no promise, no answer

ASSUME RoundsAssumption == Rounds \subseteq Nat
ASSUME PrefetchAssumption == Prefetches \subseteq Nat \ {0}
ASSUME BoundAssumption == MaxRequests \in Nat

RequestIds == 1..MaxRequests

ASSUME NoneAssumption == None \notin RequestIds \cup Rounds

VARIABLES
    \* --- the DKG, as the Story-API serves it
    stage,          \* [Rounds -> Stages]
    finalized,      \* [Rounds -> SUBSET Validators]: registrations with status Finalized
    \* --- the REST requests
    req,            \* [RequestIds -> Requests]; ids are handed out in order
    sent,           \* how many have been
    \* --- the Observer
    networkSnapshots,        \* [Rounds -> RequestIds \cup {None}]
    registrationSnapshots,   \* [Rounds -> RequestIds \cup {None}]
    maxEncryptedDataSizePromise,   \* RequestIds \cup {None}
    \* --- the Consumer
    registryStatus,
    prefetch        \* [Prefetches -> [at, waits, late]]: where each call stands; late
                    \* (history): it settled after a later one had been started

serverVars == <<stage, finalized>>
requestVars == <<req, sent>>
roundVars == <<networkSnapshots, registrationSnapshots>>
cacheVars == <<roundVars, maxEncryptedDataSizePromise>>
prefetchVars == <<registryStatus, prefetch>>
vars == <<serverVars, requestVars, cacheVars, prefetchVars>>

\* "forming" stands for Registration, Dealing and Finalization.
Stages == {"forming", "active", "ended", "failed"}
Stable == {"active", "ended"}

Snapshots == [stage : Stages, members : SUBSET Validators]

Requests == [kind : {"network", "latest", "registrations", "size"},
             round : Rounds \cup {None},
             state : {"unsent", "sent", "sampled", "ok", "error"},
             data : Snapshots \cup {None},
             network : RequestIds \cup {None}]   \* networkPromise of a registrations load

PrefetchCalls == [at : {"idle", "round", "registrations", "resolved", "rejected"},
                  waits : RequestIds \cup {None},
                  late : BOOLEAN]

Unsent == [kind |-> "network", round |-> None, state |-> "unsent",
           data |-> None, network |-> None]

InFlight(i) == req[i].state \in {"sent", "sampled"}

------------------------------------------------------------------------------
Init ==
    /\ stage = [r \in Rounds |-> "forming"]
    /\ finalized = [r \in Rounds |-> {}]
    /\ req = [i \in RequestIds |-> Unsent]
    /\ sent = 0
    /\ networkSnapshots = [r \in Rounds |-> None]
    /\ registrationSnapshots = [r \in Rounds |-> None]
    /\ maxEncryptedDataSizePromise = None
    /\ registryStatus = "unbuilt"
    /\ prefetch = [p \in Prefetches |-> [at |-> "idle", waits |-> None, late |-> FALSE]]

------------------------------------------------------------------------------
(* The DKG. *)

Finalize(r, v) ==
    /\ stage[r] = "forming"
    /\ v \notin finalized[r]
    /\ finalized' = [finalized EXCEPT ![r] = @ \cup {v}]
    /\ UNCHANGED <<stage, requestVars, cacheVars, prefetchVars>>

\* A round with members becomes active and ends the one before it.
Activate(r) ==
    /\ stage[r] = "forming"
    /\ finalized[r] # {}
    /\ \A q \in Rounds : q < r => stage[q] # "forming"
    /\ stage' = [q \in Rounds |-> IF q = r THEN "active"
                                  ELSE IF stage[q] = "active" THEN "ended" ELSE stage[q]]
    /\ UNCHANGED <<finalized, requestVars, cacheVars, prefetchVars>>

Fail(r) ==
    /\ stage[r] = "forming"
    /\ stage' = [stage EXCEPT ![r] = "failed"]
    /\ UNCHANGED <<finalized, requestVars, cacheVars, prefetchVars>>

------------------------------------------------------------------------------
(* Requests. *)

Request(kind, r, net) ==
    [kind |-> kind, round |-> r, state |-> "sent", data |-> None, network |-> net]

\* The server looks at its state. latest_active answers for whatever round is
\* active then; a network without its public key yet does not decode. The size limit
\* is a constant of the CDR contract.
Sample(i) ==
    /\ req[i].state = "sent"
    /\ \/ /\ req[i].kind \in {"network", "registrations"}
          /\ req' = [req EXCEPT ![i].state = "sampled",
                                ![i].data = [stage |-> stage[req[i].round],
                                             members |-> finalized[req[i].round]]]
       \/ /\ req[i].kind = "latest"
          /\ \E r \in Rounds :
              /\ stage[r] = "active"
              /\ req' = [req EXCEPT ![i].state = "sampled", ![i].round = r,
                                    ![i].data = [stage |-> "active", members |-> finalized[r]]]
       \/ /\ req[i].kind = "size"
          /\ req' = [req EXCEPT ![i].state = "sampled"]
    /\ UNCHANGED <<serverVars, sent, cacheVars, prefetchVars>>

\* loadNetwork's handler: an unstable snapshot or a failure gives up the entry.
NetworkAfter(i, ok) ==
    LET keep == ok /\ req[i].data.stage \in Stable
    IN  [r \in Rounds |-> IF networkSnapshots[r] = i /\ ~keep THEN None
                          ELSE networkSnapshots[r]]

\* Mutant: the handler does not wait for the network's stage.
VerdictIgnoringStage(j, i, ok) ==
    LET state(k) == IF k = i THEN (IF ok THEN "ok" ELSE "error") ELSE req[k].state
    IN  IF state(j) = "error" \/ state(req[j].network) = "error" THEN "evict" ELSE "keep"

\* loadRegistrations' handler, run when both promises of an entry are resolved or
\* one of them rejects. i is the request settling now.
Verdict(j, i, ok) ==
    LET state(k) == IF k = i THEN (IF ok THEN "ok" ELSE "error") ELSE req[k].state
        net == req[j].network
    IN  IF state(j) = "error" \/ state(net) = "error" THEN "evict"
        ELSE IF state(j) = "ok" /\ state(net) = "ok"
             THEN (IF req[net].data.stage \in Stable THEN "keep" ELSE "evict")
             ELSE "wait"

\* The entries whose handler the settling request makes run.
RegistrationsAfter(i, ok) ==
    [r \in Rounds |->
        LET j == registrationSnapshots[r]
        IN  IF j # None /\ (j = i \/ req[j].network = i) /\ Verdict(j, i, ok) = "evict"
              THEN None ELSE j]

\* Mutant: it replaces the entry the round has.
LatestAfterOverwriting(i) ==
    [r \in Rounds |-> IF r = req[i].round THEN i ELSE networkSnapshots[r]]

\* fetchLatestActive caches what it got, unless the round has an entry already.
LatestAfter(i) ==
    [r \in Rounds |-> IF r = req[i].round /\ networkSnapshots[r] = None THEN i
                      ELSE networkSnapshots[r]]

SettleCaches(i, ok) ==
    /\ networkSnapshots' =
          CASE req[i].kind = "network" -> NetworkAfter(i, ok)
            [] req[i].kind = "latest" /\ ok -> LatestAfter(i)
            [] OTHER -> networkSnapshots
    /\ registrationSnapshots' = RegistrationsAfter(i, ok)
    /\ maxEncryptedDataSizePromise' =
          IF maxEncryptedDataSizePromise = i /\ ~ok THEN None ELSE maxEncryptedDataSizePromise

Receive(i) ==
    /\ req[i].state = "sampled"
    /\ req' = [req EXCEPT ![i].state = "ok"]
    /\ SettleCaches(i, TRUE)
    /\ UNCHANGED <<serverVars, sent, prefetchVars>>

\* The network is down, the server answers 5xx to every attempt, or the answer
\* does not decode.
Reject(i) ==
    /\ InFlight(i)
    /\ req' = [req EXCEPT ![i].state = "error", ![i].data = None]
    /\ SettleCaches(i, FALSE)
    /\ UNCHANGED <<serverVars, sent, prefetchVars>>

------------------------------------------------------------------------------
(* The Observer's methods. *)

\* loadNetwork(r), called by getThresholdAt and by loadRegistrations: the promise
\* to wait for, and what is sent when it is a new one.
NetworkPromise(r) == IF networkSnapshots[r] = None THEN sent + 1 ELSE networkSnapshots[r]

\* Mutant: the entry is made when the answer is used, so loads in flight are not
\* shared.
LoadNetworkUnshared(r) ==
    /\ sent < MaxRequests
    /\ sent' = sent + 1
    /\ req' = [req EXCEPT ![sent + 1] = Request("network", r, None)]
    /\ UNCHANGED <<serverVars, cacheVars, prefetchVars>>

LoadNetwork(r) ==
    /\ networkSnapshots[r] = None
    /\ sent < MaxRequests
    /\ sent' = sent + 1
    /\ req' = [req EXCEPT ![sent + 1] = Request("network", r, None)]
    /\ networkSnapshots' = [networkSnapshots EXCEPT ![r] = sent + 1]
    /\ UNCHANGED <<serverVars, registrationSnapshots, maxEncryptedDataSizePromise, prefetchVars>>

\* The new requests and entries of a loadRegistrations(r) that finds no entry: the
\* network request first, if there is one to send, then the registrations.
StartRegistrations(r) ==
    LET net == NetworkPromise(r)
        regs == IF net > sent THEN sent + 2 ELSE sent + 1
    IN  /\ regs <= MaxRequests
        /\ sent' = regs
        /\ req' = [i \in RequestIds |->
                      IF i = regs THEN Request("registrations", r, net)
                      ELSE IF i = net /\ net > sent THEN Request("network", r, None)
                      ELSE req[i]]
        /\ networkSnapshots' = [networkSnapshots EXCEPT ![r] = net]
        /\ registrationSnapshots' = [registrationSnapshots EXCEPT ![r] = regs]

\* getRegisteredValidators({round}) or getValidatorAttestations({round}); with an
\* entry there is nothing to do but wait for it.
LoadRegistrations(r) ==
    /\ registrationSnapshots[r] = None
    /\ StartRegistrations(r)
    /\ UNCHANGED <<serverVars, maxEncryptedDataSizePromise, prefetchVars>>

\* getMaxEncryptedDataSize: one read of the contract for the Observer's lifetime,
\* unless it fails.
GetMaxEncryptedDataSize ==
    /\ maxEncryptedDataSizePromise = None
    /\ sent < MaxRequests
    /\ sent' = sent + 1
    /\ req' = [req EXCEPT ![sent + 1] = Request("size", None, None)]
    /\ maxEncryptedDataSizePromise' = sent + 1
    /\ UNCHANGED <<serverVars, roundVars, prefetchVars>>

SendLatest ==
    /\ sent < MaxRequests
    /\ sent' = sent + 1
    /\ req' = [req EXCEPT ![sent + 1] = Request("latest", None, None)]

\* getActiveRound, getGlobalPubKey, getParticipantCount, getThreshold.
FetchLatestActive ==
    /\ SendLatest
    /\ UNCHANGED <<serverVars, cacheVars, prefetchVars>>

------------------------------------------------------------------------------
(* Consumer.prefetchRegistry. *)

Started(p) == prefetch[p].at # "idle"

\* The calls are made in order; each first asks for the active round.
StartPrefetch(p) ==
    /\ ~Started(p)
    /\ \A q \in Prefetches : q < p => Started(q)
    /\ SendLatest
    /\ registryStatus' = "building"
    /\ prefetch' = [prefetch EXCEPT ![p].at = "round", ![p].waits = sent + 1]
    /\ UNCHANGED <<serverVars, cacheVars>>

\* The active round is known: the registrations come from the entry or are loaded.
PrefetchRegistrations(p) ==
    LET i == prefetch[p].waits
        r == req[i].round
    IN  /\ prefetch[p].at = "round"
        /\ req[i].state = "ok"
        /\ \/ /\ registrationSnapshots[r] # None
              /\ UNCHANGED <<requestVars, roundVars>>
           \/ /\ registrationSnapshots[r] = None
              /\ StartRegistrations(r)
        /\ prefetch' = [prefetch EXCEPT ![p].at = "registrations",
                                       ![p].waits = registrationSnapshots'[r]]
        /\ UNCHANGED <<serverVars, maxEncryptedDataSizePromise, registryStatus>>

\* A call that ends as `how` writes the status, whichever calls were started since.
SettlePrefetch(p, how) ==
    prefetch' = [prefetch EXCEPT ![p].at = how,
                                 ![p].late = \E q \in Prefetches : q > p /\ Started(q)]

PrefetchDone(p) ==
    /\ prefetch[p].at = "registrations"
    /\ req[prefetch[p].waits].state = "ok"
    /\ registryStatus' = "ready"
    /\ SettlePrefetch(p, "resolved")
    /\ UNCHANGED <<serverVars, requestVars, cacheVars>>

\* Mutant: the catch clause rethrows without a status.
PrefetchFailedSilently(p) ==
    /\ prefetch[p].at \in {"round", "registrations"}
    /\ req[prefetch[p].waits].state = "error"
    /\ SettlePrefetch(p, "rejected")
    /\ UNCHANGED <<serverVars, requestVars, cacheVars, registryStatus>>

PrefetchFailed(p) ==
    /\ prefetch[p].at \in {"round", "registrations"}
    /\ req[prefetch[p].waits].state = "error"
    /\ registryStatus' = "failed"
    /\ SettlePrefetch(p, "rejected")
    /\ UNCHANGED <<serverVars, requestVars, cacheVars>>
------------------------------------------------------------------------------
DKGStep ==
    \/ \E r \in Rounds, v \in Validators : Finalize(r, v)
    \/ \E r \in Rounds : Activate(r) \/ Fail(r)

NetworkStep == \E i \in RequestIds : Sample(i) \/ Receive(i) \/ Reject(i)

PrefetchStep ==
    \E p \in Prefetches :
        StartPrefetch(p) \/ PrefetchRegistrations(p) \/ PrefetchDone(p) \/ PrefetchFailed(p)

ObserverStep ==
    \/ \E r \in Rounds : LoadNetwork(r) \/ LoadRegistrations(r)
    \/ FetchLatestActive
    \/ GetMaxEncryptedDataSize

Next == DKGStep \/ NetworkStep \/ PrefetchStep \/ ObserverStep

Spec == Init /\ [][Next]_vars

------------------------------------------------------------------------------
(* Properties. *)

\* The type invariant.
TypeOK ==
    /\ stage \in [Rounds -> Stages]
    /\ finalized \in [Rounds -> SUBSET Validators]
    /\ req \in [RequestIds -> Requests]
    /\ sent \in 0..MaxRequests
    /\ networkSnapshots \in [Rounds -> RequestIds \cup {None}]
    /\ registrationSnapshots \in [Rounds -> RequestIds \cup {None}]
    /\ maxEncryptedDataSizePromise \in RequestIds \cup {None}
    /\ registryStatus \in {"unbuilt", "building", "ready", "failed"}
    /\ prefetch \in [Prefetches -> PrefetchCalls]

\* A failed fetch is never left in a cache, so whoever asks next retries: no entry
\* stands for a rejected promise, of the round's network or of its registrations,
\* nor of the network they were loaded with, and the size limit's neither.
NoPoisonedEntry ==
    \A r \in Rounds :
        /\ networkSnapshots[r] # None => req[networkSnapshots[r]].state # "error"
        /\ registrationSnapshots[r] # None =>
               LET j == registrationSnapshots[r]
               IN  req[j].state # "error" /\ req[req[j].network].state # "error"
        /\ maxEncryptedDataSizePromise # None =>
               req[maxEncryptedDataSizePromise].state # "error"

Overlap(kind, i, j) ==
    /\ InFlight(i) /\ InFlight(j) /\ i # j
    /\ req[i].kind = kind /\ req[j].kind = kind /\ req[i].round = req[j].round

\* Callers that overlap share a request: never two in flight for one round's
\* network or for the size limit, whatever evictions happen in between.
SingleFlight ==
    \A i, j \in RequestIds : ~Overlap("network", i, j) /\ ~Overlap("size", i, j)

\* A network snapshot that is kept is the round's network for good: its stage was
\* immutable when the server read it, however long the answer took to come back.
NetworkEntryCurrent ==
    \A r \in Rounds : networkSnapshots[r] # None =>
        LET i == networkSnapshots[r]
        IN  req[i].state = "ok" =>
                /\ req[i].round = r
                /\ stage[r] \in Stable
                /\ req[i].data.members = finalized[r]

Settles(i) == InFlight(i) /\ req'[i].state \in {"ok", "error"}

\* An entry is given up only when one of its own promises settles, by failing or with
\* a stage that may still change: a late answer of another request, of latest_active
\* too, replaces nothing, and what is good stays for good.
EntriesAreKept ==
    [][\A r \in Rounds :
        LET i == networkSnapshots[r]
            j == registrationSnapshots[r]
        IN  /\ i \notin {None, networkSnapshots'[r]} =>
                   /\ networkSnapshots'[r] = None
                   /\ Settles(i)
                   /\ req'[i].state = "ok" => req'[i].data.stage \notin Stable
            /\ j \notin {None, registrationSnapshots'[r]} =>
                   /\ registrationSnapshots'[r] = None
                   /\ \E k \in {j, req[j].network} : Settles(k)
                   /\ req'[j].state # "error" /\ req'[req[j].network].state # "error" =>
                          req'[req[j].network].data.stage \notin Stable]_vars

\* "Cache is only retained when the round is in a stable stage; non-stable stages may
\* mutate, so they're evicted" (observer.ts:334): what is retained is what the round
\* ended up with.
RegistrationsEntryCurrent ==
    \A r \in Rounds : registrationSnapshots[r] # None =>
        LET j == registrationSnapshots[r]
        IN  req[j].state = "ok" /\ req[req[j].network].state = "ok"
                => req[j].data.members = finalized[r]

\* Registrations whose network's stage was not stable are not kept once both are in.
RegistrationsEntryStable ==
    \A r \in Rounds : registrationSnapshots[r] # None =>
        LET j == registrationSnapshots[r]
        IN  req[j].state = "ok" /\ req[req[j].network].state = "ok"
                => req[req[j].network].data.stage \in Stable /\ stage[r] \in Stable

\* What a caller can find in a cache: no failure, and, once it is there, nothing that
\* the round may still change, however the answers and evictions interleaved.
EntriesAreSound == NoPoisonedEntry /\ NetworkEntryCurrent /\ RegistrationsEntryStable

StatusOf(p) ==
    CASE prefetch[p].at = "resolved" -> "ready"
      [] prefetch[p].at = "rejected" -> "failed"
      [] OTHER -> "building"

MostRecent(p) == Started(p) /\ \A q \in Prefetches : q > p => ~Started(q)

\* "ready" and "failed" are the outcome of the most recent prefetch, and "building"
\* means that it is in flight (consumer.ts:101-107), unless an earlier one settled after
\* it was started: the status may then be that of this late one.
StatusJustified ==
    /\ registryStatus = "unbuilt" <=> \A p \in Prefetches : ~Started(p)
    /\ \A p \in Prefetches : MostRecent(p) =>
           \/ registryStatus = StatusOf(p)
           \/ \E q \in Prefetches : /\ q < p /\ prefetch[q].late
                                    /\ registryStatus = StatusOf(q)
=============================================================================
