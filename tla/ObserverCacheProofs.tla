-------------------------- MODULE ObserverCacheProofs --------------------------
(***************************************************************************)
(* What the Observer's caches may hold and share, and what a registry      *)
(* status means, for every number of rounds, requests and prefetches.      *)
(***************************************************************************)
EXTENDS ObserverCache, TLAPS

------------------------------------------------------------------------------
(* The inductive invariant. *)

Answered(i) == req[i].state \in {"sampled", "ok"}

\* What the server said of a round with a stable stage is still so.
AnswerHolds(i) ==
    /\ req[i].round \in Rounds
    /\ req[i].data \in Snapshots
    /\ req[i].kind = "latest" => req[i].data.stage = "active"
    /\ req[i].data.stage \in Stable =>
           stage[req[i].round] \in Stable /\ req[i].data.members = finalized[req[i].round]

\* A network promise of round r.
IsNetworkOf(i, r) ==
    /\ req[i].state # "unsent"
    /\ req[i].kind \in {"network", "latest"}
    /\ req[i].round = r
    /\ req[i].kind = "latest" => req[i].state = "ok"

\* A request that is not settled is the cache's entry, so that nobody sends another.
RequestPlace(i) ==
    /\ i > sent <=> req[i].state = "unsent"
    /\ req[i].state # "unsent" =>
           /\ req[i].kind \in {"network", "registrations"} => req[i].round \in Rounds
           /\ Answered(i) /\ req[i].kind # "size" => AnswerHolds(i)
           /\ req[i].kind = "registrations" =>
                  req[i].network \in RequestIds /\ IsNetworkOf(req[i].network, req[i].round)
           /\ req[i].kind = "network" /\ InFlight(i) => networkSnapshots[req[i].round] = i
           /\ req[i].kind = "size" /\ InFlight(i) => maxEncryptedDataSizePromise = i

\* A network promise that may stay in a cache.
Good(i) ==
    /\ req[i].state # "error"
    /\ req[i].state = "ok" => req[i].data.stage \in Stable

NetworkEntry(r) ==
    networkSnapshots[r] # None =>
        IsNetworkOf(networkSnapshots[r], r) /\ Good(networkSnapshots[r])

RegistrationEntry(r) ==
    registrationSnapshots[r] # None =>
        LET j == registrationSnapshots[r]
        IN  /\ req[j].state \notin {"unsent", "error"}
            /\ req[j].kind = "registrations" /\ req[j].round = r
            /\ req[req[j].network].state # "error"
            /\ req[j].state = "ok" => Good(req[j].network)

SizePlace ==
    maxEncryptedDataSizePromise # None =>
        /\ req[maxEncryptedDataSizePromise].kind = "size"
        /\ req[maxEncryptedDataSizePromise].state \notin {"unsent", "error"}

\* A prefetch that waits for the active round has asked for it.
PrefetchPlace(p) ==
    prefetch[p].at = "round" =>
        /\ prefetch[p].waits \in RequestIds
        /\ req[prefetch[p].waits].kind = "latest"
        /\ req[prefetch[p].waits].state # "unsent"

CacheInv ==
    /\ TypeOK
    /\ \A i \in RequestIds : RequestPlace(i)
    /\ \A r \in Rounds : NetworkEntry(r) /\ RegistrationEntry(r)
    /\ SizePlace
    /\ \A p \in Prefetches : PrefetchPlace(p)

\* Prefetches are numbered in the order they are started.
StatusInv ==
    /\ StatusJustified
    /\ \A p, q \in Prefetches : q < p /\ Started(p) => Started(q)

------------------------------------------------------------------------------
USE DEF vars, serverVars, requestVars, roundVars, cacheVars, prefetchVars

LEMMA CacheInvInit == Init => CacheInv
<1> SUFFICES ASSUME Init PROVE CacheInv
    OBVIOUS
<1> USE DEF Init
<1>1. Unsent \in Requests
    BY DEF Unsent, Requests
<1>2. TypeOK
    BY <1>1, BoundAssumption DEF TypeOK, Stages, PrefetchCalls
<1>3. \A i \in RequestIds : RequestPlace(i)
    BY DEF RequestPlace, Unsent, RequestIds, InFlight
<1>4. \A r \in Rounds : NetworkEntry(r) /\ RegistrationEntry(r)
    BY DEF NetworkEntry, RegistrationEntry
<1>5. SizePlace /\ \A p \in Prefetches : PrefetchPlace(p)
    BY DEF SizePlace, PrefetchPlace
<1> QED BY <1>2, <1>3, <1>4, <1>5 DEF CacheInv

\* What CacheInv says, for steps that hide it.
LEMMA CacheInvFacts ==
    ASSUME CacheInv
    PROVE  /\ TypeOK /\ SizePlace
           /\ \A i \in RequestIds : RequestPlace(i)
           /\ \A r \in Rounds : NetworkEntry(r) /\ RegistrationEntry(r)
           /\ \A p \in Prefetches : PrefetchPlace(p)
           /\ sent \in Nat /\ MaxRequests \in Nat /\ sent <= MaxRequests
           /\ None \notin RequestIds /\ None \notin Rounds
           /\ RequestIds \subseteq Nat
           /\ \A r \in Rounds : /\ networkSnapshots[r] \in RequestIds \cup {None}
                                /\ registrationSnapshots[r] \in RequestIds \cup {None}
           /\ maxEncryptedDataSizePromise \in RequestIds \cup {None}
BY BoundAssumption, NoneAssumption DEF CacheInv, TypeOK, RequestIds

------------------------------------------------------------------------------
(* The DKG's steps. *)

\* A round that became stable does not change again.
LEMMA StableRounds ==
    ASSUME TypeOK, DKGStep
    PROVE  /\ TypeOK'
           /\ UNCHANGED <<requestVars, cacheVars, prefetchVars>>
           /\ \A r \in Rounds : stage[r] \in Stable =>
                  stage'[r] \in Stable /\ finalized'[r] = finalized[r]
<1> USE DEF TypeOK, Stages, Stable
<1>1. ASSUME NEW r \in Rounds, NEW v \in Validators, Finalize(r, v)
      PROVE  /\ stage' = stage /\ finalized' \in [Rounds -> SUBSET Validators]
             /\ \A q \in Rounds : stage[q] \in Stable => finalized'[q] = finalized[q]
    BY <1>1 DEF Finalize
<1>2. ASSUME NEW r \in Rounds, Activate(r)
      PROVE  /\ finalized' = finalized /\ stage' \in [Rounds -> Stages]
             /\ \A q \in Rounds : stage[q] \in Stable => stage'[q] \in Stable
    BY <1>2 DEF Activate
<1>3. ASSUME NEW r \in Rounds, Fail(r)
      PROVE  /\ finalized' = finalized /\ stage' \in [Rounds -> Stages]
             /\ \A q \in Rounds : stage[q] \in Stable => stage'[q] \in Stable
    BY <1>3 DEF Fail
<1>4. UNCHANGED <<requestVars, cacheVars, prefetchVars>>
    BY DEF DKGStep, Finalize, Activate, Fail
<1> HIDE DEF Stages, Stable
<1> QED BY <1>1, <1>2, <1>3, <1>4 DEF DKGStep

LEMMA DKGKeeps == CacheInv /\ DKGStep => CacheInv'
<1> SUFFICES ASSUME CacheInv, DKGStep PROVE CacheInv'
    OBVIOUS
<1>0. /\ TypeOK'
      /\ UNCHANGED <<requestVars, cacheVars, prefetchVars>>
      /\ \A r \in Rounds : stage[r] \in Stable =>
             stage'[r] \in Stable /\ finalized'[r] = finalized[r]
    BY StableRounds DEF CacheInv
<1>1. ASSUME NEW i \in RequestIds PROVE RequestPlace(i)'
    <2>1. RequestPlace(i)
        BY DEF CacheInv
    <2> QED BY <1>0, <2>1 DEF RequestPlace, AnswerHolds, Answered, IsNetworkOf, InFlight
<1>2. ASSUME NEW r \in Rounds PROVE NetworkEntry(r)' /\ RegistrationEntry(r)'
    <2>1. NetworkEntry(r) /\ RegistrationEntry(r)
        BY DEF CacheInv
    <2> QED BY <1>0, <2>1 DEF NetworkEntry, RegistrationEntry, IsNetworkOf, Good
<1>3. SizePlace' /\ \A p \in Prefetches : PrefetchPlace(p)'
    BY <1>0 DEF CacheInv, SizePlace, PrefetchPlace
<1> QED BY <1>0, <1>1, <1>2, <1>3 DEF CacheInv

------------------------------------------------------------------------------
(* The server's sample and the settling of a promise. *)

LEMMA SampleKeeps ==
    ASSUME CacheInv, NEW i \in RequestIds, Sample(i)
    PROVE  CacheInv'
<1>0. /\ TypeOK /\ SizePlace
      /\ \A k \in RequestIds : RequestPlace(k)
      /\ \A r \in Rounds : NetworkEntry(r) /\ RegistrationEntry(r)
      /\ \A p \in Prefetches : PrefetchPlace(p)
      /\ \A r \in Rounds : /\ networkSnapshots[r] \in RequestIds \cup {None}
                           /\ registrationSnapshots[r] \in RequestIds \cup {None}
      /\ maxEncryptedDataSizePromise \in RequestIds \cup {None}
    BY CacheInvFacts
<1>1. /\ req[i].state = "sent" /\ RequestPlace(i)
      /\ UNCHANGED <<serverVars, sent, cacheVars, prefetchVars>>
    BY <1>0 DEF Sample
<1>2. /\ req' \in [RequestIds -> Requests]
      /\ \A k \in RequestIds \ {i} : req'[k] = req[k]
      /\ req'[i].state = "sampled" /\ req'[i].kind = req[i].kind
      /\ req'[i].network = req[i].network
      /\ req[i].kind # "latest" => req'[i].round = req[i].round
      /\ req[i].kind # "size" =>
             /\ req'[i].round \in Rounds
             /\ req'[i].data = [stage |-> stage[req'[i].round],
                                members |-> finalized[req'[i].round]]
             /\ req[i].kind = "latest" => stage[req'[i].round] = "active"
    <2>0. /\ req \in [RequestIds -> Requests] /\ stage \in [Rounds -> Stages]
          /\ finalized \in [Rounds -> SUBSET Validators]
        BY <1>0 DEF TypeOK
    <2>1. CASE /\ req[i].kind \in {"network", "registrations"}
               /\ req' = [req EXCEPT ![i].state = "sampled",
                                     ![i].data = [stage |-> stage[req[i].round],
                                                  members |-> finalized[req[i].round]]]
        <3>1. req[i].round \in Rounds
            BY <1>1, <2>1 DEF RequestPlace
        <3>2. [stage |-> stage[req[i].round], members |-> finalized[req[i].round]] \in Snapshots
            BY <2>0, <3>1 DEF Snapshots
        <3> HIDE DEF Snapshots
        <3> QED BY <2>0, <2>1, <3>1, <3>2 DEF Requests
    <2>2. ASSUME NEW r \in Rounds, req[i].kind = "latest", stage[r] = "active",
                 req' = [req EXCEPT ![i].state = "sampled", ![i].round = r,
                                    ![i].data = [stage |-> "active", members |-> finalized[r]]]
          PROVE  <1>2!:
        <3>2. [stage |-> "active", members |-> finalized[r]] \in Snapshots
            BY <2>0, <2>2 DEF Snapshots, Stages
        <3> HIDE DEF Snapshots
        <3> QED BY <2>0, <2>2, <3>2 DEF Requests
    <2>3. CASE req[i].kind = "size" /\ req' = [req EXCEPT ![i].state = "sampled"]
        BY <2>0, <2>3 DEF Requests
    <2> QED BY <2>1, <2>2, <2>3 DEF Sample
<1>3. TypeOK'
    BY <1>0, <1>1, <1>2 DEF TypeOK
<1>4. ASSUME NEW k \in RequestIds PROVE RequestPlace(k)'
    <2>0. RequestPlace(k)
        BY <1>0
    <2>1. ASSUME NEW r, IsNetworkOf(k, r), k \in RequestIds PROVE IsNetworkOf(k, r)'
        BY <1>1, <1>2, <2>1 DEF IsNetworkOf
    <2>2. CASE k = i
        <3>1. req[i].kind # "size" => AnswerHolds(i)'
            BY <1>0, <1>1, <1>2 DEF AnswerHolds, TypeOK, Snapshots
        <3> QED BY <1>0, <1>1, <1>2, <2>0, <2>2, <3>1 DEF RequestPlace, Answered, InFlight, IsNetworkOf
    <2>3. CASE k # i
        BY <1>1, <1>2, <2>0, <2>3 DEF RequestPlace, Answered, AnswerHolds, InFlight, IsNetworkOf
    <2> QED BY <2>2, <2>3
<1>5. ASSUME NEW r \in Rounds PROVE NetworkEntry(r)' /\ RegistrationEntry(r)'
    <2>0. NetworkEntry(r) /\ RegistrationEntry(r)
        BY <1>0
    <2>1. NetworkEntry(r)'
        BY <1>0, <1>1, <1>2, <2>0 DEF NetworkEntry, IsNetworkOf, Good
    <2>2. registrationSnapshots[r] # None => RequestPlace(registrationSnapshots[r])
        BY <1>0
    <2>3. RegistrationEntry(r)'
        <3> DEFINE j == registrationSnapshots[r]  n == req[j].network
        <3> SUFFICES ASSUME j # None
                     PROVE  /\ req'[j].state \notin {"unsent", "error"}
                            /\ req'[j].kind = "registrations" /\ req'[j].round = r
                            /\ req'[j].network = n /\ req'[n].state # "error"
                            /\ req'[j].state = "ok" /\ req'[n].state = "ok" =>
                                   req'[n].data.stage \in Stable
            BY <1>1 DEF RegistrationEntry, Good
        <3>1. /\ req[j].state \notin {"unsent", "error"}
              /\ req[j].kind = "registrations" /\ req[j].round = r
              /\ req[n].state # "error"
              /\ req[j].state = "ok" => Good(n)
            BY <2>0 DEF RegistrationEntry
        <3>2. j \in RequestIds /\ n \in RequestIds
            BY <1>0, <2>2, <3>1 DEF RequestPlace
        <3> HIDE DEF j, n
        <3>3. /\ req'[j].state \notin {"unsent", "error"}
              /\ req'[j].kind = "registrations" /\ req'[j].round = r
              /\ req'[j].network = req[j].network /\ req'[n].state # "error"
            BY <1>1, <1>2, <3>1, <3>2
        <3>4. req'[j].state = "ok" /\ req'[n].state = "ok" => req'[n].data.stage \in Stable
            <4>1. req'[j].state = "ok" => Good(n)
                BY <1>2, <3>1, <3>2
            <4>2. CASE n = i
                BY <1>2, <4>2
            <4>3. CASE n # i
                <5>1. req'[n] = req[n]
                    BY <1>2, <3>2, <4>3
                <5> QED BY <4>1, <5>1 DEF Good
            <4> QED BY <4>2, <4>3
        <3> QED BY <3>3, <3>4 DEF n
    <2> QED BY <2>1, <2>3
<1>6. SizePlace' /\ \A p \in Prefetches : PrefetchPlace(p)'
    BY <1>0, <1>1, <1>2 DEF SizePlace, PrefetchPlace
<1> QED BY <1>3, <1>4, <1>5, <1>6 DEF CacheInv

\* Receive and Reject: the promise i settles and the handlers run.
Settle(i, ok) ==
    /\ IF ok THEN req[i].state = "sampled" ELSE InFlight(i)
    /\ req' = IF ok THEN [req EXCEPT ![i].state = "ok"]
                    ELSE [req EXCEPT ![i].state = "error", ![i].data = None]
    /\ SettleCaches(i, ok)
    /\ UNCHANGED <<serverVars, sent, prefetchVars>>

\* What a settling promise changes of the requests and of the entries.
LEMMA SettleFrame ==
    ASSUME CacheInv, NEW i \in RequestIds, NEW ok \in BOOLEAN, Settle(i, ok)
    PROVE  /\ InFlight(i) /\ (ok => Answered(i))
           /\ req' \in [RequestIds -> Requests]
           /\ \A k \in RequestIds \ {i} : req'[k] = req[k]
           /\ req'[i].state = (IF ok THEN "ok" ELSE "error")
           /\ req'[i].kind = req[i].kind /\ req'[i].network = req[i].network
           /\ req'[i].round = req[i].round
           /\ ok => req'[i].data = req[i].data
           /\ \A r \in Rounds :
                  networkSnapshots'[r] =
                      IF req[i].kind = "network"
                      THEN IF networkSnapshots[r] = i /\ ~(ok /\ req[i].data.stage \in Stable)
                           THEN None ELSE networkSnapshots[r]
                      ELSE IF req[i].kind = "latest" /\ ok /\ r = req[i].round
                              /\ networkSnapshots[r] = None
                           THEN i ELSE networkSnapshots[r]
           /\ \A r \in Rounds : LET j == registrationSnapshots[r] IN
                  registrationSnapshots'[r] =
                      IF j # None /\ (j = i \/ req[j].network = i) /\ Verdict(j, i, ok) = "evict"
                      THEN None ELSE j
           /\ maxEncryptedDataSizePromise' =
                  IF maxEncryptedDataSizePromise = i /\ ~ok THEN None
                  ELSE maxEncryptedDataSizePromise
           /\ UNCHANGED <<serverVars, sent, prefetchVars>>
           /\ TypeOK'
<1>0. TypeOK
    BY DEF CacheInv
<1>1. /\ InFlight(i) /\ (ok => Answered(i))
      /\ UNCHANGED <<serverVars, sent, prefetchVars>>
      /\ registrationSnapshots' = RegistrationsAfter(i, ok)
      /\ maxEncryptedDataSizePromise' =
             IF maxEncryptedDataSizePromise = i /\ ~ok THEN None ELSE maxEncryptedDataSizePromise
    BY DEF Settle, InFlight, Answered, SettleCaches
<1>2. /\ req' \in [RequestIds -> Requests]
      /\ \A k \in RequestIds \ {i} : req'[k] = req[k]
      /\ req'[i].state = (IF ok THEN "ok" ELSE "error")
      /\ req'[i].kind = req[i].kind /\ req'[i].network = req[i].network
      /\ req'[i].round = req[i].round
      /\ ok => req'[i].data = req[i].data
    <2>0. req \in [RequestIds -> Requests]
        BY <1>0 DEF TypeOK
    <2> DEFINE kept == [req[i] EXCEPT !.state = "ok"]
               lost == [[req[i] EXCEPT !.state = "error"] EXCEPT !.data = None]
    <2>1. req[i] \in Requests
        BY <2>0
    <2>2. /\ kept \in Requests /\ kept.state = "ok" /\ kept.data = req[i].data
          /\ lost \in Requests /\ lost.state = "error"
          /\ \A q \in {kept, lost} : /\ q.kind = req[i].kind /\ q.network = req[i].network
                                   /\ q.round = req[i].round
        BY <2>1 DEF Requests
    <2>3. CASE ok
        <3>1. req' = [req EXCEPT ![i] = kept]
            BY <2>0, <2>3 DEF Settle
        <3> HIDE DEF kept, lost, Requests
        <3> QED BY <2>0, <2>2, <2>3, <3>1
    <2>4. CASE ~ok
        <3>1. req' = [req EXCEPT ![i] = lost]
            BY <2>0, <2>4 DEF Settle
        <3> HIDE DEF kept, lost, Requests
        <3> QED BY <2>0, <2>2, <2>4, <3>1
    <2> QED BY <2>3, <2>4
<1>3. \A r \in Rounds : LET j == registrationSnapshots[r] IN
         registrationSnapshots'[r] =
             IF j # None /\ (j = i \/ req[j].network = i) /\ Verdict(j, i, ok) = "evict"
             THEN None ELSE j
    BY <1>1 DEF RegistrationsAfter
<1>4. networkSnapshots' = [r \in Rounds |->
          IF req[i].kind = "network"
          THEN IF networkSnapshots[r] = i /\ ~(ok /\ req[i].data.stage \in Stable)
               THEN None ELSE networkSnapshots[r]
          ELSE IF req[i].kind = "latest" /\ ok /\ r = req[i].round /\ networkSnapshots[r] = None
               THEN i ELSE networkSnapshots[r]]
    <2>1. networkSnapshots \in [Rounds -> RequestIds \cup {None}]
        BY <1>0 DEF TypeOK
    <2>2. networkSnapshots' = CASE req[i].kind = "network" -> NetworkAfter(i, ok)
                                [] req[i].kind = "latest" /\ ok -> LatestAfter(i)
                                [] OTHER -> networkSnapshots
        BY DEF Settle, SettleCaches
    <2>3. CASE req[i].kind = "network"
        BY <2>2, <2>3 DEF NetworkAfter
    <2>4. CASE req[i].kind = "latest" /\ ok
        BY <2>2, <2>4 DEF LatestAfter
    <2>5. CASE req[i].kind # "network" /\ ~(req[i].kind = "latest" /\ ok)
        BY <2>1, <2>2, <2>5
    <2> QED BY <2>3, <2>4, <2>5
<1>5. TypeOK'
    <2>1. /\ networkSnapshots' \in [Rounds -> RequestIds \cup {None}]
          /\ maxEncryptedDataSizePromise' \in RequestIds \cup {None}
        BY <1>0, <1>1, <1>4 DEF TypeOK
    <2>2. registrationSnapshots' \in [Rounds -> RequestIds \cup {None}]
        BY <1>0, <1>1 DEF TypeOK, RegistrationsAfter
    <2> QED BY <1>0, <1>1, <1>2, <2>1, <2>2 DEF TypeOK
<1> QED BY <1>1, <1>2, <1>3, <1>4, <1>5

LEMMA SettleKeeps ==
    ASSUME CacheInv, NEW i \in RequestIds, NEW ok \in BOOLEAN, Settle(i, ok)
    PROVE  CacheInv'
<1>0. /\ TypeOK /\ SizePlace
      /\ \A k \in RequestIds : RequestPlace(k)
      /\ \A r \in Rounds : NetworkEntry(r) /\ RegistrationEntry(r)
      /\ \A p \in Prefetches : PrefetchPlace(p)
      /\ None \notin RequestIds
      /\ \A r \in Rounds : /\ networkSnapshots[r] \in RequestIds \cup {None}
                           /\ registrationSnapshots[r] \in RequestIds \cup {None}
      /\ maxEncryptedDataSizePromise \in RequestIds \cup {None}
    BY CacheInvFacts
<1>1. /\ InFlight(i) /\ (ok => Answered(i))
      /\ \A k \in RequestIds \ {i} : req'[k] = req[k]
      /\ req'[i].state = (IF ok THEN "ok" ELSE "error")
      /\ req'[i].kind = req[i].kind /\ req'[i].network = req[i].network
      /\ req'[i].round = req[i].round
      /\ ok => req'[i].data = req[i].data
      /\ UNCHANGED <<serverVars, sent, prefetchVars>>
      /\ TypeOK'
    BY SettleFrame
<1>2. \A r \in Rounds :
         networkSnapshots'[r] =
             IF req[i].kind = "network"
             THEN IF networkSnapshots[r] = i /\ ~(ok /\ req[i].data.stage \in Stable)
                  THEN None ELSE networkSnapshots[r]
             ELSE IF req[i].kind = "latest" /\ ok /\ r = req[i].round
                     /\ networkSnapshots[r] = None
                  THEN i ELSE networkSnapshots[r]
    BY SettleFrame
<1>3. \A r \in Rounds : LET j == registrationSnapshots[r] IN
         registrationSnapshots'[r] =
             IF j # None /\ (j = i \/ req[j].network = i) /\ Verdict(j, i, ok) = "evict"
             THEN None ELSE j
    BY SettleFrame
<1>4. maxEncryptedDataSizePromise' =
         IF maxEncryptedDataSizePromise = i /\ ~ok THEN None ELSE maxEncryptedDataSizePromise
    BY SettleFrame
<1>5. /\ req[i].state \in {"sent", "sampled"} /\ (ok => req[i].state = "sampled")
      /\ RequestPlace(i)
    BY <1>0, <1>1 DEF InFlight, Answered
<1>6. ASSUME NEW k \in RequestIds, NEW r, IsNetworkOf(k, r) PROVE IsNetworkOf(k, r)'
    BY <1>1, <1>5, <1>6 DEF IsNetworkOf
<1>7. ASSUME NEW k \in RequestIds PROVE RequestPlace(k)'
    <2>0. RequestPlace(k)
        BY <1>0
    <2>1. req'[k].kind = "registrations" /\ req'[k].state # "unsent" =>
              req'[k].network \in RequestIds /\ IsNetworkOf(req[k].network, req[k].round)'
        BY <1>1, <1>5, <1>6, <2>0 DEF RequestPlace
    <2>2. CASE k = i
        <3>1. ok /\ req[i].kind # "size" => AnswerHolds(i)'
            BY <1>1, <1>5 DEF RequestPlace, AnswerHolds, Answered
        <3> QED BY <1>1, <1>5, <2>0, <2>1, <2>2, <3>1 DEF RequestPlace, Answered, InFlight, IsNetworkOf
    <2>3. CASE k # i
        <3>1. k > sent' <=> req'[k].state = "unsent"
            BY <1>1, <2>0, <2>3 DEF RequestPlace
        <3>2. req[k].kind = "network" /\ InFlight(k) => networkSnapshots'[req[k].round] = k
            BY <1>0, <1>2, <2>0, <2>3 DEF RequestPlace, InFlight
        <3>3. req[k].kind = "size" /\ InFlight(k) => maxEncryptedDataSizePromise' = k
            BY <1>4, <2>0, <2>3 DEF RequestPlace, InFlight
        <3>4. Answered(k) /\ req[k].kind # "size" /\ AnswerHolds(k) => AnswerHolds(k)'
            BY <1>1, <2>3 DEF AnswerHolds
        <3> QED BY <1>1, <2>0, <2>1, <2>3, <3>1, <3>2, <3>3, <3>4
                DEF RequestPlace, Answered, InFlight, IsNetworkOf
    <2> QED BY <2>2, <2>3
<1>8. ASSUME NEW r \in Rounds PROVE NetworkEntry(r)'
    <2>0. NetworkEntry(r)
        BY <1>0
    <2>1. CASE networkSnapshots'[r] = networkSnapshots[r] /\ networkSnapshots[r] # None
        <3> DEFINE n == networkSnapshots[r]
        <3>1. n \in RequestIds /\ IsNetworkOf(n, r) /\ Good(n)
            BY <1>0, <2>0, <2>1 DEF NetworkEntry
        <3>2. IsNetworkOf(n, r)'
            BY <1>1, <1>5, <2>1, <3>1 DEF IsNetworkOf
        <3>3. n = i => ok /\ req[i].data.stage \in Stable
            BY <1>0, <1>2, <1>5, <2>1, <3>1 DEF IsNetworkOf
        <3>4. Good(n)'
            BY <1>1, <2>1, <3>1, <3>3 DEF Good
        <3> QED BY <3>2, <3>4 DEF NetworkEntry
    <2>2. CASE networkSnapshots'[r] = i /\ networkSnapshots[r] = None
        <3>1. req[i].kind = "latest" /\ ok /\ req[i].round = r
            BY <1>0, <1>2, <2>2
        <3>2. req[i].data.stage \in Stable
            BY <1>5, <3>1 DEF RequestPlace, Answered, AnswerHolds, Stable
        <3> QED BY <1>1, <2>2, <3>1, <3>2 DEF NetworkEntry, IsNetworkOf, Good
    <2>3. CASE networkSnapshots'[r] = None
        BY <2>3 DEF NetworkEntry
    <2> QED BY <1>2, <2>1, <2>2, <2>3
<1>9. ASSUME NEW r \in Rounds PROVE RegistrationEntry(r)'
    <2> DEFINE j == registrationSnapshots[r]
               net == req[j].network
    <2>0. RegistrationEntry(r)
        BY <1>0
    <2> SUFFICES ASSUME j # None, registrationSnapshots'[r] = j
                 PROVE  RegistrationEntry(r)'
        BY <1>3 DEF RegistrationEntry
    <2>1. /\ j \in RequestIds /\ req[j].state \notin {"unsent", "error"}
          /\ req[j].kind = "registrations" /\ req[j].round = r
          /\ req[net].state # "error"
          /\ req[j].state = "ok" => Good(net)
        BY <1>0, <2>0 DEF RegistrationEntry
    <2>2. net \in RequestIds /\ req[net].kind \in {"network", "latest"}
        BY <1>0, <2>1 DEF RequestPlace, IsNetworkOf
    <2>3. j # net
        BY <2>1, <2>2
    <2>4. (j = i \/ net = i) => Verdict(j, i, ok) # "evict"
        BY <1>0, <1>3
    <2>5. /\ req'[j].state \notin {"unsent", "error"} /\ req'[net].state # "error"
          /\ req'[j].state = "ok" => (req'[net].state = "ok" => req'[net].data.stage \in Stable)
          /\ req'[j].kind = "registrations" /\ req'[j].round = r /\ req'[j].network = net
        <3>1. CASE j = i
            BY <1>1, <2>1, <2>2, <2>3, <2>4, <3>1 DEF Verdict
        <3>2. CASE net = i
            BY <1>1, <2>1, <2>2, <2>3, <2>4, <3>2 DEF Verdict
        <3>3. CASE j # i /\ net # i
            BY <1>1, <2>1, <2>2, <3>3 DEF Good
        <3> QED BY <3>1, <3>2, <3>3
    <2> QED BY <2>5 DEF RegistrationEntry, Good
<1>10. SizePlace' /\ \A p \in Prefetches : PrefetchPlace(p)'
    <2>1. SizePlace'
        BY <1>0, <1>1, <1>4 DEF SizePlace
    <2>2. ASSUME NEW p \in Prefetches PROVE PrefetchPlace(p)'
        <3>1. PrefetchPlace(p)
            BY <1>0
        <3> QED BY <1>1, <3>1 DEF PrefetchPlace
    <2> QED BY <2>1, <2>2
<1> QED BY <1>1, <1>7, <1>8, <1>9, <1>10 DEF CacheInv

------------------------------------------------------------------------------
(* Sending. *)

\* A step that sends requests and gives entries only to the rounds that had none.
LEMMA SendKeeps ==
    ASSUME CacheInv, TypeOK',
           sent' \in Nat, sent <= sent',
           UNCHANGED serverVars,
           \A k \in RequestIds : k <= sent \/ k > sent' => req'[k] = req[k],
           \A k \in RequestIds : k > sent /\ k <= sent' => RequestPlace(k)',
           \A r \in Rounds : \/ networkSnapshots'[r] = networkSnapshots[r]
                             \/ networkSnapshots[r] = None /\ NetworkEntry(r)',
           \A r \in Rounds : \/ registrationSnapshots'[r] = registrationSnapshots[r]
                             \/ registrationSnapshots[r] = None /\ RegistrationEntry(r)',
           \/ maxEncryptedDataSizePromise' = maxEncryptedDataSizePromise
           \/ maxEncryptedDataSizePromise = None /\ SizePlace',
           \A p \in Prefetches : prefetch'[p] = prefetch[p] \/ PrefetchPlace(p)'
    PROVE  CacheInv'
<1>0. /\ TypeOK /\ SizePlace
      /\ \A k \in RequestIds : RequestPlace(k)
      /\ \A r \in Rounds : NetworkEntry(r) /\ RegistrationEntry(r)
      /\ \A p \in Prefetches : PrefetchPlace(p)
      /\ sent \in Nat /\ RequestIds \subseteq Nat /\ None \notin RequestIds
      /\ \A r \in Rounds : /\ networkSnapshots[r] \in RequestIds \cup {None}
                           /\ registrationSnapshots[r] \in RequestIds \cup {None}
      /\ maxEncryptedDataSizePromise \in RequestIds \cup {None}
    BY CacheInvFacts
<1>1. \A k \in RequestIds : req[k].state # "unsent" => req'[k] = req[k]
    BY <1>0 DEF RequestPlace
<1>2. ASSUME NEW k \in RequestIds PROVE RequestPlace(k)'
    <2>0. RequestPlace(k)
        BY <1>0
    <2>1. CASE req[k].state # "unsent"
        <3>1. req'[k] = req[k] /\ (k > sent' <=> req[k].state = "unsent")
            BY <1>0, <1>1, <2>0, <2>1 DEF RequestPlace
        <3>2. AnswerHolds(k) => AnswerHolds(k)'
            BY <3>1 DEF AnswerHolds
        <3>3. req[k].kind = "registrations" =>
                  req[k].network \in RequestIds /\ req'[req[k].network] = req[req[k].network]
                  /\ IsNetworkOf(req[k].network, req[k].round)
            BY <1>1, <2>0, <2>1 DEF RequestPlace, IsNetworkOf
        <3>4. req[k].kind = "network" /\ InFlight(k) => networkSnapshots'[req[k].round] = k
            BY <1>0, <2>0, <2>1 DEF RequestPlace
        <3>5. req[k].kind = "size" /\ InFlight(k) => maxEncryptedDataSizePromise' = k
            BY <1>0, <2>0, <2>1 DEF RequestPlace
        <3> QED BY <2>0, <2>1, <3>1, <3>2, <3>3, <3>4, <3>5
                DEF RequestPlace, Answered, InFlight, IsNetworkOf
    <2>2. CASE req[k].state = "unsent" /\ k <= sent'
        BY <1>0, <2>0, <2>2 DEF RequestPlace
    <2>3. CASE req[k].state = "unsent" /\ ~(k <= sent')
        BY <1>0, <2>0, <2>3 DEF RequestPlace
    <2> QED BY <2>1, <2>2, <2>3
<1>3. ASSUME NEW r \in Rounds PROVE NetworkEntry(r)' /\ RegistrationEntry(r)'
    <2>0. NetworkEntry(r) /\ RegistrationEntry(r)
        BY <1>0
    <2>1. NetworkEntry(r)'
        <3>1. CASE networkSnapshots'[r] = networkSnapshots[r] /\ networkSnapshots[r] # None
            <4>1. req'[networkSnapshots[r]] = req[networkSnapshots[r]]
                BY <1>0, <1>1, <2>0, <3>1 DEF NetworkEntry, IsNetworkOf
            <4> QED BY <2>0, <3>1, <4>1 DEF NetworkEntry, IsNetworkOf, Good
        <3>2. CASE networkSnapshots'[r] = None
            BY <3>2 DEF NetworkEntry
        <3> QED BY <3>1, <3>2
    <2>2. RegistrationEntry(r)'
        <3> DEFINE j == registrationSnapshots[r]
        <3>1. CASE registrationSnapshots'[r] = j /\ j # None
            <4>1. j \in RequestIds /\ req'[j] = req[j] /\ RequestPlace(j)
                BY <1>0, <1>1, <2>0, <3>1 DEF RegistrationEntry
            <4>2. req'[req[j].network] = req[req[j].network]
                BY <1>0, <1>1, <2>0, <3>1, <4>1 DEF RegistrationEntry, RequestPlace, IsNetworkOf
            <4> QED BY <2>0, <3>1, <4>1, <4>2 DEF RegistrationEntry, Good
        <3>2. CASE registrationSnapshots'[r] = None
            BY <3>2 DEF RegistrationEntry
        <3> QED BY <3>1, <3>2
    <2> QED BY <2>1, <2>2
<1>4. SizePlace' /\ \A p \in Prefetches : PrefetchPlace(p)'
    <2>1. SizePlace'
        BY <1>0, <1>1 DEF SizePlace
    <2>2. ASSUME NEW p \in Prefetches PROVE PrefetchPlace(p)'
        <3>1. PrefetchPlace(p)
            BY <1>0
        <3> QED BY <1>1, <3>1 DEF PrefetchPlace
    <2> QED BY <2>1, <2>2
<1> QED BY <1>2, <1>3, <1>4 DEF CacheInv

\* A new request on its own.
LEMMA NewRequest ==
    ASSUME CacheInv, sent < MaxRequests,
           NEW kind \in {"network", "latest", "size"}, NEW r \in Rounds \cup {None},
           req' = [req EXCEPT ![sent + 1] = Request(kind, r, None)], sent' = sent + 1
    PROVE  \E i \in RequestIds :
               /\ i = sent + 1 /\ req' \in [RequestIds -> Requests]
               /\ sent' \in 0..MaxRequests
               /\ req'[i].kind = kind /\ req'[i].round = r /\ req'[i].state = "sent"
               /\ \A k \in RequestIds : k <= sent \/ k > sent' => req'[k] = req[k]
               /\ \A k \in RequestIds : k > sent /\ k <= sent' => k = i
<1>1. sent \in Nat /\ MaxRequests \in Nat /\ req \in [RequestIds -> Requests]
    BY CacheInvFacts DEF TypeOK
<1>2. sent + 1 \in RequestIds
    BY <1>1 DEF RequestIds
<1>3. Request(kind, r, None) \in Requests
    BY DEF Request, Requests
<1>4. RequestIds \subseteq Nat
    BY CacheInvFacts
<1> QED BY <1>1, <1>2, <1>3, <1>4 DEF Request

LEMMA LoadNetworkKeeps ==
    ASSUME CacheInv, NEW r \in Rounds, LoadNetwork(r)
    PROVE  CacheInv'
<1>0. TypeOK /\ sent \in Nat
    BY CacheInvFacts
<1>1. /\ networkSnapshots[r] = None /\ sent' = sent + 1 /\ sent < MaxRequests
      /\ networkSnapshots' = [networkSnapshots EXCEPT ![r] = sent + 1]
      /\ UNCHANGED <<serverVars, registrationSnapshots, maxEncryptedDataSizePromise, prefetchVars>>
    BY DEF LoadNetwork
<1>2. PICK i \in RequestIds :
         /\ i = sent + 1 /\ req' \in [RequestIds -> Requests]
         /\ sent' \in 0..MaxRequests
         /\ req'[i].kind = "network" /\ req'[i].round = r /\ req'[i].state = "sent"
         /\ \A k \in RequestIds : k <= sent \/ k > sent' => req'[k] = req[k]
         /\ \A k \in RequestIds : k > sent /\ k <= sent' => k = i
    BY NewRequest DEF LoadNetwork
<1>3. TypeOK'
    BY <1>0, <1>1, <1>2 DEF TypeOK
<1>4. networkSnapshots'[r] = i
      /\ \A q \in Rounds \ {r} : networkSnapshots'[q] = networkSnapshots[q]
    BY <1>0, <1>1, <1>2 DEF TypeOK
<1>5. RequestPlace(i)'
    BY <1>0, <1>1, <1>2, <1>4 DEF RequestPlace, Answered
<1>6. NetworkEntry(r)'
    BY <1>1, <1>2, <1>4 DEF NetworkEntry, IsNetworkOf, Good
<1> QED BY <1>0, <1>1, <1>2, <1>3, <1>4, <1>5, <1>6, SendKeeps

LEMMA SizeKeeps ==
    ASSUME CacheInv, GetMaxEncryptedDataSize
    PROVE  CacheInv'
<1>0. TypeOK /\ sent \in Nat
    BY CacheInvFacts
<1>1. /\ maxEncryptedDataSizePromise = None /\ sent' = sent + 1 /\ sent < MaxRequests
      /\ maxEncryptedDataSizePromise' = sent + 1
      /\ req' = [req EXCEPT ![sent + 1] = Request("size", None, None)]
      /\ UNCHANGED <<serverVars, roundVars, prefetchVars>>
    BY DEF GetMaxEncryptedDataSize
<1>2. PICK i \in RequestIds :
         /\ i = sent + 1 /\ req' \in [RequestIds -> Requests]
         /\ sent' \in 0..MaxRequests
         /\ req'[i].kind = "size" /\ req'[i].round = None /\ req'[i].state = "sent"
         /\ \A k \in RequestIds : k <= sent \/ k > sent' => req'[k] = req[k]
         /\ \A k \in RequestIds : k > sent /\ k <= sent' => k = i
    <2>1. /\ "size" \in {"network", "latest", "size"} /\ None \in Rounds \cup {None}
          /\ req' = [req EXCEPT ![sent + 1] = Request("size", None, None)]
          /\ sent' = sent + 1 /\ sent < MaxRequests
        BY <1>1
    <2> QED BY <2>1, NewRequest
<1>3. TypeOK'
    BY <1>0, <1>1, <1>2 DEF TypeOK
<1>4. RequestPlace(i)'
    BY <1>0, <1>1, <1>2 DEF RequestPlace, Answered
<1>5. SizePlace'
    BY <1>1, <1>2 DEF SizePlace
<1> QED BY <1>0, <1>1, <1>2, <1>3, <1>4, <1>5, SendKeeps

LEMMA LatestKeeps ==
    ASSUME CacheInv, FetchLatestActive \/ \E p \in Prefetches : StartPrefetch(p)
    PROVE  CacheInv'
<1>0. TypeOK /\ sent \in Nat
    BY CacheInvFacts
<1>1. /\ sent' = sent + 1 /\ sent < MaxRequests /\ UNCHANGED <<serverVars, cacheVars>>
      /\ req' = [req EXCEPT ![sent + 1] = Request("latest", None, None)]
    BY DEF FetchLatestActive, StartPrefetch, SendLatest
<1>2. PICK i \in RequestIds :
         /\ i = sent + 1 /\ req' \in [RequestIds -> Requests]
         /\ sent' \in 0..MaxRequests
         /\ req'[i].kind = "latest" /\ req'[i].round = None /\ req'[i].state = "sent"
         /\ \A k \in RequestIds : k <= sent \/ k > sent' => req'[k] = req[k]
         /\ \A k \in RequestIds : k > sent /\ k <= sent' => k = i
    BY <1>1, NewRequest
<1>3. TypeOK'
    <2>1. CASE FetchLatestActive
        BY <1>0, <1>1, <1>2, <2>1 DEF FetchLatestActive, TypeOK
    <2>2. ASSUME NEW p \in Prefetches, StartPrefetch(p) PROVE TypeOK'
        BY <1>0, <1>1, <1>2, <2>2 DEF StartPrefetch, TypeOK, PrefetchCalls
    <2> QED BY <2>1, <2>2
<1>4. RequestPlace(i)'
    BY <1>0, <1>1, <1>2 DEF RequestPlace, Answered
<1>5. ASSUME NEW p \in Prefetches PROVE prefetch'[p] = prefetch[p] \/ PrefetchPlace(p)'
    <2>1. CASE FetchLatestActive
        BY <2>1 DEF FetchLatestActive
    <2>2. ASSUME NEW q \in Prefetches, StartPrefetch(q)
          PROVE  prefetch'[p] = prefetch[p] \/ PrefetchPlace(p)'
        <3>1. p = q => prefetch'[p].at = "round" /\ prefetch'[p].waits = i
            BY <1>0, <1>2, <2>2 DEF StartPrefetch, TypeOK, PrefetchCalls
        <3>2. p # q => prefetch'[p] = prefetch[p]
            BY <1>0, <2>2 DEF StartPrefetch, TypeOK
        <3> QED BY <1>2, <3>1, <3>2 DEF PrefetchPlace
    <2> QED BY <2>1, <2>2
<1> QED BY <1>0, <1>1, <1>2, <1>3, <1>4, <1>5, SendKeeps

\* The requests and entries that loadRegistrations adds.
LEMMA StartRegistrationsKeeps ==
    ASSUME CacheInv, NEW r \in Rounds, registrationSnapshots[r] = None,
           StartRegistrations(r),
           UNCHANGED <<serverVars, maxEncryptedDataSizePromise>>,
           prefetch' \in [Prefetches -> PrefetchCalls],
           registryStatus' = registryStatus,
           \A p \in Prefetches : prefetch'[p] = prefetch[p] \/ prefetch'[p].at # "round"
    PROVE  CacheInv'
<1>0. /\ TypeOK /\ NetworkEntry(r)
      /\ sent \in Nat /\ MaxRequests \in Nat /\ RequestIds \subseteq Nat /\ None \notin RequestIds
      /\ networkSnapshots[r] \in RequestIds \cup {None}
      /\ \A k \in RequestIds : RequestPlace(k)
    BY CacheInvFacts
<1>1. PICK net \in RequestIds, regs \in RequestIds :
         /\ net = NetworkPromise(r) /\ regs = IF net > sent THEN sent + 2 ELSE sent + 1
         /\ sent' = regs
         /\ req' = [i \in RequestIds |->
                       IF i = regs THEN Request("registrations", r, net)
                       ELSE IF i = net /\ net > sent THEN Request("network", r, None)
                       ELSE req[i]]
         /\ networkSnapshots' = [networkSnapshots EXCEPT ![r] = net]
         /\ registrationSnapshots' = [registrationSnapshots EXCEPT ![r] = regs]
    <2> DEFINE n == NetworkPromise(r)
               g == IF n > sent THEN sent + 2 ELSE sent + 1
    <2>1. /\ g <= MaxRequests /\ sent' = g
          /\ req' = [i \in RequestIds |->
                        IF i = g THEN Request("registrations", r, n)
                        ELSE IF i = n /\ n > sent THEN Request("network", r, None)
                        ELSE req[i]]
          /\ networkSnapshots' = [networkSnapshots EXCEPT ![r] = n]
          /\ registrationSnapshots' = [registrationSnapshots EXCEPT ![r] = g]
        BY DEF StartRegistrations
    <2>2. n \in RequestIds \/ n = sent + 1
        BY <1>0 DEF NetworkPromise
    <2>3. n \in RequestIds /\ g \in RequestIds
        BY <1>0, <2>1, <2>2 DEF RequestIds
    <2> QED BY <2>1, <2>3
<1>2. \/ net > sent /\ net = sent + 1 /\ regs = sent + 2 /\ networkSnapshots[r] = None
      \/ net <= sent /\ regs = sent + 1 /\ networkSnapshots[r] = net
    <2>1. networkSnapshots[r] # None => networkSnapshots[r] <= sent
        <3> SUFFICES ASSUME networkSnapshots[r] # None PROVE networkSnapshots[r] <= sent
            OBVIOUS
        <3>1. networkSnapshots[r] \in RequestIds /\ req[networkSnapshots[r]].state # "unsent"
            BY <1>0 DEF NetworkEntry, IsNetworkOf
        <3>2. networkSnapshots[r] \in Nat /\ ~(networkSnapshots[r] > sent)
            BY <1>0, <3>1 DEF RequestPlace
        <3> QED BY <1>0, <3>2
    <2> QED BY <1>0, <1>1, <2>1 DEF NetworkPromise
<1>3. /\ req'[regs] = Request("registrations", r, net)
      /\ net > sent => req'[net] = Request("network", r, None)
      /\ \A k \in RequestIds : k <= sent \/ k > sent' => req'[k] = req[k]
      /\ \A k \in RequestIds : k > sent /\ k <= sent' => k = regs \/ (k = net /\ net > sent)
    BY <1>0, <1>1, <1>2
<1>4. /\ networkSnapshots'[r] = net /\ registrationSnapshots'[r] = regs
      /\ \A q \in Rounds \ {r} : /\ networkSnapshots'[q] = networkSnapshots[q]
                                 /\ registrationSnapshots'[q] = registrationSnapshots[q]
    BY <1>0, <1>1 DEF TypeOK
<1>5. TypeOK'
    <2>1. /\ Request("registrations", r, net) \in Requests
          /\ Request("network", r, None) \in Requests
        BY DEF Request, Requests
    <2>2. req \in [RequestIds -> Requests]
        BY <1>0 DEF TypeOK
    <2>3. req' \in [RequestIds -> Requests]
        BY <1>1, <2>1, <2>2
    <2>4. sent' \in 0..MaxRequests
        BY <1>0, <1>1 DEF RequestIds
    <2>5. /\ networkSnapshots' \in [Rounds -> RequestIds \cup {None}]
          /\ registrationSnapshots' \in [Rounds -> RequestIds \cup {None}]
        BY <1>0, <1>1 DEF TypeOK
    <2> QED BY <1>0, <2>3, <2>4, <2>5 DEF TypeOK
<1>6. IsNetworkOf(net, r)' /\ Good(net)'
    <2>1. CASE net > sent
        BY <1>3, <2>1 DEF IsNetworkOf, Good, Request
    <2>2. CASE net <= sent /\ networkSnapshots[r] = net
        <3>1. IsNetworkOf(net, r) /\ Good(net)
            BY <1>0, <2>2 DEF NetworkEntry
        <3>2. req'[net] = req[net]
            BY <1>3, <2>2
        <3> QED BY <3>1, <3>2 DEF IsNetworkOf, Good
    <2> QED BY <1>0, <1>2, <2>1, <2>2
<1>7. RequestPlace(regs)'
    BY <1>0, <1>1, <1>2, <1>3, <1>6 DEF RequestPlace, Answered, Request
<1>8. net > sent => RequestPlace(net)'
    BY <1>0, <1>1, <1>2, <1>3, <1>4 DEF RequestPlace, Answered, Request
<1>9. NetworkEntry(r)'
    BY <1>4, <1>6 DEF NetworkEntry
<1>10. RegistrationEntry(r)'
    BY <1>3, <1>4, <1>6 DEF RegistrationEntry, Request, Good
<1>11. sent' \in Nat /\ sent <= sent'
    BY <1>0, <1>1, <1>2
<1>12. \A q \in Rounds : \/ networkSnapshots'[q] = networkSnapshots[q]
                         \/ networkSnapshots[q] = None /\ NetworkEntry(q)'
    BY <1>2, <1>4, <1>9
<1>13. \A q \in Rounds : \/ registrationSnapshots'[q] = registrationSnapshots[q]
                         \/ registrationSnapshots[q] = None /\ RegistrationEntry(q)'
    BY <1>4, <1>10
<1>14. \A p \in Prefetches : prefetch'[p] = prefetch[p] \/ PrefetchPlace(p)'
    BY DEF PrefetchPlace
<1>15. \A k \in RequestIds : k > sent /\ k <= sent' => RequestPlace(k)'
    BY <1>3, <1>7, <1>8
<1> QED BY <1>3, <1>5, <1>11, <1>12, <1>13, <1>14, <1>15, SendKeeps

LEMMA LoadRegistrationsKeeps ==
    ASSUME CacheInv, NEW r \in Rounds, LoadRegistrations(r)
    PROVE  CacheInv'
<1>1. prefetch \in [Prefetches -> PrefetchCalls]
    BY DEF CacheInv, TypeOK
<1> QED BY <1>1, StartRegistrationsKeeps DEF LoadRegistrations

------------------------------------------------------------------------------
(* The prefetches. *)

\* A prefetch moves and nothing else but the status does.
LEMMA PrefetchMoves ==
    ASSUME CacheInv, TypeOK', UNCHANGED <<serverVars, requestVars, cacheVars>>,
           \A p \in Prefetches : prefetch'[p] = prefetch[p] \/ prefetch'[p].at # "round"
    PROVE  CacheInv'
<1>0. /\ SizePlace
      /\ \A i \in RequestIds : RequestPlace(i)
      /\ \A r \in Rounds : NetworkEntry(r) /\ RegistrationEntry(r)
      /\ \A p \in Prefetches : PrefetchPlace(p)
    BY CacheInvFacts
<1>1. \A i \in RequestIds : RequestPlace(i)'
    BY <1>0 DEF RequestPlace, Answered, AnswerHolds, InFlight, IsNetworkOf
<1>2. \A r \in Rounds : NetworkEntry(r)' /\ RegistrationEntry(r)'
    BY <1>0 DEF NetworkEntry, RegistrationEntry, IsNetworkOf, Good
<1>3. SizePlace' /\ \A p \in Prefetches : PrefetchPlace(p)'
    BY <1>0 DEF SizePlace, PrefetchPlace
<1> QED BY <1>1, <1>2, <1>3 DEF CacheInv

LEMMA PrefetchRegistrationsKeeps ==
    ASSUME CacheInv, NEW p \in Prefetches, PrefetchRegistrations(p)
    PROVE  CacheInv'
<1> DEFINE i == prefetch[p].waits
           r == req[i].round
<1>0. /\ TypeOK /\ PrefetchPlace(p) /\ \A k \in RequestIds : RequestPlace(k)
      /\ \A q \in Rounds : registrationSnapshots[q] \in RequestIds \cup {None}
    BY CacheInvFacts
<1>1. /\ prefetch[p].at = "round" /\ req[i].state = "ok"
      /\ prefetch' = [prefetch EXCEPT ![p].at = "registrations",
                                     ![p].waits = registrationSnapshots'[r]]
      /\ UNCHANGED <<serverVars, maxEncryptedDataSizePromise, registryStatus>>
      /\ \/ /\ registrationSnapshots[r] # None
            /\ UNCHANGED <<requestVars, roundVars>>
         \/ /\ registrationSnapshots[r] = None
            /\ StartRegistrations(r)
    BY DEF PrefetchRegistrations
<1>2. r \in Rounds
    <2>1. i \in RequestIds /\ req[i].kind = "latest"
        BY <1>0, <1>1 DEF PrefetchPlace
    <2>2. RequestPlace(i)
        BY <1>0, <2>1
    <2> QED BY <1>1, <2>1, <2>2 DEF RequestPlace, Answered, AnswerHolds
<1>3. registrationSnapshots'[r] \in RequestIds \cup {None} =>
          /\ prefetch' \in [Prefetches -> PrefetchCalls]
          /\ \A q \in Prefetches : prefetch'[q] = prefetch[q] \/ prefetch'[q].at # "round"
    <2>1. prefetch \in [Prefetches -> PrefetchCalls]
        BY <1>0 DEF TypeOK
    <2> HIDE DEF r, i
    <2> QED BY <1>1, <2>1 DEF PrefetchCalls
<1>4. CASE UNCHANGED <<requestVars, roundVars>>
    <2>1. registrationSnapshots'[r] \in RequestIds \cup {None}
        BY <1>0, <1>2, <1>4
    <2>2. TypeOK'
        BY <1>0, <1>1, <1>3, <1>4, <2>1 DEF TypeOK
    <2> QED BY <1>1, <1>3, <1>4, <2>1, <2>2, PrefetchMoves
<1>5. CASE registrationSnapshots[r] = None /\ StartRegistrations(r)
    <2>1. registrationSnapshots'[r] \in RequestIds \cup {None}
        <3>1. registrationSnapshots'[r] = sent'
            BY <1>0, <1>2, <1>5 DEF StartRegistrations, TypeOK
        <3>2. sent' \in {sent + 1, sent + 2} /\ sent' <= MaxRequests
            BY <1>5 DEF StartRegistrations
        <3>3. sent \in Nat /\ MaxRequests \in Nat
            BY CacheInvFacts
        <3> QED BY <3>1, <3>2, <3>3 DEF RequestIds
    <2> HIDE DEF r
    <2> QED BY <1>1, <1>2, <1>3, <1>5, <2>1, StartRegistrationsKeeps
<1> QED BY <1>1, <1>4, <1>5

LEMMA PrefetchEndKeeps ==
    ASSUME CacheInv, NEW p \in Prefetches, PrefetchDone(p) \/ PrefetchFailed(p)
    PROVE  CacheInv'
<1>0. TypeOK
    BY CacheInvFacts
<1>1. /\ prefetch' \in [Prefetches -> PrefetchCalls]
      /\ \A q \in Prefetches : prefetch'[q] = prefetch[q] \/ prefetch'[q].at # "round"
    <2>1. prefetch \in [Prefetches -> PrefetchCalls]
        BY <1>0 DEF TypeOK
    <2>2. PICK how \in {"resolved", "rejected"} : SettlePrefetch(p, how)
        BY DEF PrefetchDone, PrefetchFailed
    <2>3. PICK late \in BOOLEAN :
              prefetch' = [prefetch EXCEPT ![p].at = how, ![p].late = late]
        BY <2>2 DEF SettlePrefetch
    <2> QED BY <2>1, <2>3 DEF PrefetchCalls
<1>2. /\ UNCHANGED <<serverVars, requestVars, cacheVars>>
      /\ registryStatus' \in {"ready", "failed"}
    BY DEF PrefetchDone, PrefetchFailed
<1>3. TypeOK'
    BY <1>0, <1>1, <1>2 DEF TypeOK
<1> QED BY <1>1, <1>2, <1>3, PrefetchMoves

------------------------------------------------------------------------------
LEMMA CacheInvStep == CacheInv /\ [Next]_vars => CacheInv'
<1> SUFFICES ASSUME CacheInv, [Next]_vars PROVE CacheInv'
    OBVIOUS
<1>1. CASE DKGStep
    BY <1>1, DKGKeeps
<1>2. ASSUME NEW i \in RequestIds, Sample(i) \/ Receive(i) \/ Reject(i)
      PROVE  CacheInv'
    <2>1. Receive(i) => Settle(i, TRUE)
        BY DEF Receive, Settle
    <2>2. Reject(i) => Settle(i, FALSE)
        BY DEF Reject, Settle
    <2> QED BY <1>2, <2>1, <2>2, SampleKeeps, SettleKeeps
<1>3. CASE PrefetchStep
    BY <1>3, LatestKeeps, PrefetchRegistrationsKeeps, PrefetchEndKeeps DEF PrefetchStep
<1>4. CASE ObserverStep
    BY <1>4, LatestKeeps, LoadNetworkKeeps, LoadRegistrationsKeeps, SizeKeeps DEF ObserverStep
<1>5. CASE UNCHANGED vars
    <2>1. TypeOK'
        BY <1>5 DEF CacheInv, TypeOK
    <2> QED BY <1>5, <2>1, PrefetchMoves
<1> QED BY <1>1, <1>2, <1>3, <1>4, <1>5 DEF Next, NetworkStep

------------------------------------------------------------------------------
(* The theorems. *)

LEMMA CacheInvariant == Spec => []CacheInv
BY CacheInvInit, CacheInvStep, PTL DEF Spec

\* Every variable keeps its type, however many rounds, requests and prefetches.
THEOREM TypeCorrect == Spec => []TypeOK
<1>1. CacheInv => TypeOK
    BY DEF CacheInv
<1> QED BY <1>1, CacheInvariant, PTL

\* What a caller of the Observer can find in a cache is no failure and, once it is
\* there, nothing the round may still change.
THEOREM CachesAreSound == Spec => []EntriesAreSound
<1>1. ASSUME CacheInv PROVE EntriesAreSound
    <2>0. /\ SizePlace
          /\ \A k \in RequestIds : RequestPlace(k)
          /\ \A r \in Rounds : NetworkEntry(r) /\ RegistrationEntry(r)
          /\ \A r \in Rounds : /\ networkSnapshots[r] \in RequestIds \cup {None}
                               /\ registrationSnapshots[r] \in RequestIds \cup {None}
        BY <1>1, CacheInvFacts
    <2>1. NoPoisonedEntry
        BY <2>0 DEF NoPoisonedEntry, NetworkEntry, RegistrationEntry, SizePlace, Good
    <2>2. ASSUME NEW i \in RequestIds, NEW r \in Rounds, IsNetworkOf(i, r), Good(i),
                 req[i].state = "ok"
          PROVE  /\ req[i].round = r /\ req[i].data.stage \in Stable /\ stage[r] \in Stable
                 /\ req[i].data.members = finalized[r]
        BY <2>0, <2>2 DEF IsNetworkOf, Good, RequestPlace, Answered, AnswerHolds
    <2>3. NetworkEntryCurrent
        BY <2>0, <2>2 DEF NetworkEntryCurrent, NetworkEntry
    <2>4. RegistrationsEntryStable
        <3> SUFFICES ASSUME NEW r \in Rounds, registrationSnapshots[r] # None,
                            req[registrationSnapshots[r]].state = "ok",
                            req[req[registrationSnapshots[r]].network].state = "ok"
                     PROVE  /\ req[req[registrationSnapshots[r]].network].data.stage \in Stable
                            /\ stage[r] \in Stable
            BY DEF RegistrationsEntryStable
        <3> DEFINE j == registrationSnapshots[r]
                   net == req[j].network
        <3>1. RegistrationEntry(r) /\ j \in RequestIds /\ RequestPlace(j)
            BY <2>0
        <3>2. net \in RequestIds /\ IsNetworkOf(net, r) /\ Good(net)
            BY <3>1 DEF RegistrationEntry, RequestPlace
        <3> QED BY <2>2, <3>2
    <2> QED BY <2>1, <2>3, <2>4 DEF EntriesAreSound
<1> QED BY <1>1, CacheInvariant, PTL

\* Callers that overlap share one request for a round's network, and one for the size
\* limit.
THEOREM FlightsAreShared == Spec => []SingleFlight
<1>1. ASSUME CacheInv PROVE SingleFlight
    <2>1. ASSUME NEW i \in RequestIds, InFlight(i)
          PROVE  /\ req[i].kind = "network" => networkSnapshots[req[i].round] = i
                 /\ req[i].kind = "size" => maxEncryptedDataSizePromise = i
        <3>1. RequestPlace(i)
            BY <1>1, CacheInvFacts
        <3> QED BY <2>1, <3>1 DEF RequestPlace, InFlight
    <2> QED BY <2>1 DEF SingleFlight, Overlap
<1> QED BY <1>1, CacheInvariant, PTL

\* Only the settling of one of its own promises takes an entry out of a cache.
LEMMA KeptBySettling ==
    ASSUME CacheInv, NEW i \in RequestIds, NEW ok \in BOOLEAN, Settle(i, ok),
           NEW r \in Rounds
    PROVE  /\ networkSnapshots[r] \notin {None, networkSnapshots'[r]} =>
                  /\ networkSnapshots'[r] = None
                  /\ Settles(networkSnapshots[r])
                  /\ req'[networkSnapshots[r]].state = "ok" =>
                         req'[networkSnapshots[r]].data.stage \notin Stable
           /\ LET j == registrationSnapshots[r]
              IN  j \notin {None, registrationSnapshots'[r]} =>
                      /\ registrationSnapshots'[r] = None
                      /\ \E k \in {j, req[j].network} : Settles(k)
                      /\ req'[j].state # "error" /\ req'[req[j].network].state # "error" =>
                             req'[req[j].network].data.stage \notin Stable
<1>1. /\ InFlight(i)
      /\ \A k \in RequestIds \ {i} : req'[k] = req[k]
      /\ req'[i].state = (IF ok THEN "ok" ELSE "error")
      /\ ok => req'[i].data = req[i].data
    BY SettleFrame
<1>2. networkSnapshots'[r] =
          IF req[i].kind = "network"
          THEN IF networkSnapshots[r] = i /\ ~(ok /\ req[i].data.stage \in Stable)
               THEN None ELSE networkSnapshots[r]
          ELSE IF req[i].kind = "latest" /\ ok /\ r = req[i].round /\ networkSnapshots[r] = None
               THEN i ELSE networkSnapshots[r]
    BY SettleFrame
<1>3. LET j == registrationSnapshots[r] IN
         registrationSnapshots'[r] =
             IF j # None /\ (j = i \/ req[j].network = i) /\ Verdict(j, i, ok) = "evict"
             THEN None ELSE j
    BY SettleFrame
<1>4. Settles(i)
    BY <1>1 DEF Settles
<1>5. networkSnapshots[r] \notin {None, networkSnapshots'[r]} =>
          /\ networkSnapshots'[r] = None
          /\ Settles(networkSnapshots[r])
          /\ req'[networkSnapshots[r]].state = "ok" =>
                 req'[networkSnapshots[r]].data.stage \notin Stable
    BY <1>1, <1>2, <1>4
<1>6. ASSUME registrationSnapshots[r] \notin {None, registrationSnapshots'[r]}
      PROVE  LET j == registrationSnapshots[r]
             IN  /\ registrationSnapshots'[r] = None
                 /\ \E k \in {j, req[j].network} : Settles(k)
                 /\ req'[j].state # "error" /\ req'[req[j].network].state # "error" =>
                        req'[req[j].network].data.stage \notin Stable
    <2> DEFINE j == registrationSnapshots[r]
               net == req[j].network
    <2>1. /\ registrationSnapshots'[r] = None
          /\ j = i \/ net = i
          /\ Verdict(j, i, ok) = "evict"
        BY <1>3, <1>6
    <2>2. j \in RequestIds /\ RegistrationEntry(r) /\ RequestPlace(j)
        BY <1>6, CacheInvFacts
    <2>3. net \in RequestIds
        BY <1>6, <2>2 DEF RegistrationEntry, RequestPlace
    <2>4. req'[j].state # "error" /\ req'[net].state # "error" =>
              req'[net].data.stage \notin Stable
        BY <1>1, <2>1, <2>2, <2>3 DEF Verdict
    <2> QED BY <1>3, <1>4, <1>6, <2>1, <2>4
<1> QED BY <1>5, <1>6

LEMMA KeptByOthers ==
    ASSUME CacheInv, Next, \A i \in RequestIds, ok \in BOOLEAN : ~Settle(i, ok), NEW r \in Rounds
    PROVE  /\ networkSnapshots[r] \in {None, networkSnapshots'[r]}
           /\ registrationSnapshots[r] \in {None, registrationSnapshots'[r]}
<1>0. /\ networkSnapshots \in [Rounds -> RequestIds \cup {None}]
      /\ registrationSnapshots \in [Rounds -> RequestIds \cup {None}]
    BY DEF CacheInv, TypeOK
<1>1. ASSUME NEW i \in RequestIds PROVE ~Receive(i) /\ ~Reject(i)
    <2>1. Receive(i) => Settle(i, TRUE)
        BY DEF Receive, Settle
    <2>2. Reject(i) => Settle(i, FALSE)
        BY DEF Reject, Settle
    <2> QED BY <2>1, <2>2
<1>2. ASSUME NEW q, registrationSnapshots[q] = None, StartRegistrations(q)
      PROVE  /\ networkSnapshots[r] \in {None, networkSnapshots'[r]}
             /\ registrationSnapshots[r] \in {None, registrationSnapshots'[r]}
    BY <1>0, <1>2 DEF StartRegistrations, NetworkPromise
<1>3. CASE DKGStep \/ \E i \in RequestIds : Sample(i)
    BY <1>3 DEF DKGStep, Finalize, Activate, Fail, Sample
<1>4. CASE PrefetchStep
    BY <1>2, <1>4 DEF PrefetchStep, StartPrefetch, PrefetchRegistrations, PrefetchDone,
                      PrefetchFailed
<1>5. CASE ObserverStep
    BY <1>0, <1>2, <1>5 DEF ObserverStep, LoadNetwork, LoadRegistrations, FetchLatestActive,
                            GetMaxEncryptedDataSize
<1> QED BY <1>1, <1>3, <1>4, <1>5 DEF Next, NetworkStep

\* A cached network or registration set is given up only by the failure, or the
\* unstable stage, of its own promises; a late answer replaces nothing.
THEOREM EntriesStay == Spec => EntriesAreKept
<1> DEFINE Kept ==
        \A r \in Rounds :
            LET i == networkSnapshots[r]
                j == registrationSnapshots[r]
            IN  /\ i \notin {None, networkSnapshots'[r]} =>
                       /\ networkSnapshots'[r] = None
                       /\ Settles(i)
                       /\ req'[i].state = "ok" => req'[i].data.stage \notin Stable
                /\ j \notin {None, registrationSnapshots'[r]} =>
                       /\ registrationSnapshots'[r] = None
                       /\ \E k \in {j, req[j].network} : Settles(k)
                       /\ req'[j].state # "error" /\ req'[req[j].network].state # "error" =>
                              req'[req[j].network].data.stage \notin Stable
<1>1. ASSUME CacheInv, Next PROVE Kept
    <2>1. ASSUME NEW i \in RequestIds, NEW ok \in BOOLEAN, Settle(i, ok) PROVE Kept
        BY <1>1, <2>1, KeptBySettling
    <2>2. CASE \A i \in RequestIds, ok \in BOOLEAN : ~Settle(i, ok)
        BY <1>1, <2>2, KeptByOthers
    <2> QED BY <2>1, <2>2
<1>2. CacheInv /\ [Next]_vars => [Kept]_vars
    <2> HIDE DEF Kept
    <2> QED BY <1>1
<1>3. Spec => [][Kept]_vars
    BY <1>2, CacheInvariant, PTL DEF Spec
<1> QED BY <1>3 DEF EntriesAreKept

------------------------------------------------------------------------------
(* The registry status. *)

LEMMA StatusInvInit == Init => StatusInv
BY DEF Init, StatusInv, StatusJustified, Started, MostRecent

\* What StatusInv reads of a prefetch is where it stands and whether it was late.
LEMMA StatusInvKept ==
    ASSUME StatusInv, registryStatus' = registryStatus,
           \A q \in Prefetches : /\ Started(q)' <=> Started(q)
                                 /\ StatusOf(q)' = StatusOf(q)
                                 /\ prefetch'[q].late = prefetch[q].late
    PROVE  StatusInv'
<1>1. \A p \in Prefetches : MostRecent(p)' <=> MostRecent(p)
    BY DEF MostRecent
<1> QED BY <1>1 DEF StatusInv, StatusJustified

\* The most recent prefetch writes its own outcome, an earlier one is late.
LEMMA SettleKeepsStatus ==
    ASSUME TypeOK, StatusInv, NEW p \in Prefetches, Started(p),
           NEW how \in {"resolved", "rejected"}, SettlePrefetch(p, how),
           registryStatus' = IF how = "resolved" THEN "ready" ELSE "failed"
    PROVE  StatusInv'
<1>0. \A q \in Prefetches : q \in Nat
    BY PrefetchAssumption
<1>1. prefetch \in [Prefetches -> PrefetchCalls]
    BY DEF TypeOK
<1>2. PICK late \in BOOLEAN :
          /\ late <=> \E q \in Prefetches : q > p /\ Started(q)
          /\ prefetch' = [prefetch EXCEPT ![p].at = how, ![p].late = late]
    BY DEF SettlePrefetch
<1>3. /\ prefetch'[p].at = how /\ prefetch'[p].late = late
      /\ \A q \in Prefetches \ {p} : prefetch'[q] = prefetch[q]
    BY <1>1, <1>2 DEF PrefetchCalls
<1>4. \A q \in Prefetches : Started(q)' <=> Started(q)
    BY <1>3 DEF Started
<1>5. StatusOf(p)' = registryStatus'
    BY <1>3 DEF StatusOf
<1>6. ASSUME NEW m \in Prefetches, MostRecent(m)', m # p
      PROVE  p < m /\ prefetch'[p].late
    <2>1. Started(m) /\ ~(p > m)
        BY <1>4, <1>6 DEF MostRecent
    <2>2. p < m
        BY <1>0, <1>6, <2>1
    <2>3. late
        BY <1>0, <1>2, <2>1, <2>2
    <2> QED BY <1>3, <2>2, <2>3
<1>7. StatusJustified'
    <2>1. registryStatus' # "unbuilt"
        OBVIOUS
    <2> QED BY <1>4, <1>5, <1>6, <2>1 DEF StatusJustified
<1> QED BY <1>4, <1>7 DEF StatusInv

LEMMA StatusInvStep == TypeOK /\ StatusInv /\ [Next]_vars => StatusInv'
<1> SUFFICES ASSUME TypeOK, StatusInv, [Next]_vars PROVE StatusInv'
    OBVIOUS
<1>0. /\ \A p \in Prefetches : p \in Nat
      /\ prefetch \in [Prefetches -> PrefetchCalls]
    BY PrefetchAssumption DEF TypeOK
<1>1. CASE UNCHANGED prefetchVars
    BY <1>1, StatusInvKept DEF Started, StatusOf
<1>2. ASSUME NEW p \in Prefetches, StartPrefetch(p) PROVE StatusInv'
    <2>1. /\ ~Started(p) /\ registryStatus' = "building"
          /\ \A q \in Prefetches : q < p => Started(q)
          /\ prefetch'[p].at = "round"
          /\ \A q \in Prefetches \ {p} : prefetch'[q] = prefetch[q]
        BY <1>0, <1>2 DEF StartPrefetch, PrefetchCalls
    <2>2. \A q \in Prefetches : q > p => ~Started(q)
        BY <1>0, <2>1 DEF StatusInv
    <2>3. Started(p)' /\ \A q \in Prefetches \ {p} : Started(q)' <=> Started(q)
        BY <2>1 DEF Started
    <2>4. \A q, u \in Prefetches : u < q /\ Started(q)' => Started(u)'
        BY <1>0, <2>1, <2>2, <2>3 DEF StatusInv
    <2>5. \A q \in Prefetches : MostRecent(q)' => q = p
        BY <1>0, <2>2, <2>3 DEF MostRecent
    <2>6. StatusOf(p)' = "building"
        BY <2>1 DEF StatusOf
    <2>7. StatusJustified'
        BY <2>1, <2>3, <2>5, <2>6 DEF StatusJustified
    <2> QED BY <2>4, <2>7 DEF StatusInv
<1>3. ASSUME NEW p \in Prefetches, PrefetchRegistrations(p) PROVE StatusInv'
    <2>1. /\ prefetch[p].at = "round" /\ registryStatus' = registryStatus
          /\ prefetch'[p].at = "registrations" /\ prefetch'[p].late = prefetch[p].late
          /\ \A q \in Prefetches \ {p} : prefetch'[q] = prefetch[q]
        BY <1>0, <1>3 DEF PrefetchRegistrations, PrefetchCalls
    <2>2. ASSUME NEW q \in Prefetches
          PROVE  /\ Started(q)' <=> Started(q)
                 /\ StatusOf(q)' = StatusOf(q)
                 /\ prefetch'[q].late = prefetch[q].late
        BY <2>1 DEF Started, StatusOf
    <2> QED BY <2>1, <2>2, StatusInvKept
<1>4. ASSUME NEW p \in Prefetches, PrefetchDone(p) PROVE StatusInv'
    <2>1. SettlePrefetch(p, "resolved") /\ registryStatus' = "ready" /\ Started(p)
        BY <1>4 DEF PrefetchDone, Started
    <2> QED BY <2>1, SettleKeepsStatus
<1>5. ASSUME NEW p \in Prefetches, PrefetchFailed(p) PROVE StatusInv'
    <2>1. SettlePrefetch(p, "rejected") /\ registryStatus' = "failed" /\ Started(p)
        BY <1>5 DEF PrefetchFailed, Started
    <2> QED BY <2>1, SettleKeepsStatus
<1>6. CASE DKGStep \/ NetworkStep \/ ObserverStep
    BY <1>1, <1>6 DEF DKGStep, NetworkStep, ObserverStep, Finalize, Activate, Fail, Sample,
                      Receive, Reject, LoadNetwork, LoadRegistrations, FetchLatestActive,
                      GetMaxEncryptedDataSize
<1> QED BY <1>1, <1>2, <1>3, <1>4, <1>5, <1>6 DEF Next, PrefetchStep

\* The status of a Consumer's registry is the outcome of its most recent prefetch, or of
\* an earlier one that settled after that was started.
THEOREM StatusIsJustified == Spec => []StatusJustified
<1>1. Init /\ [][Next]_vars => []StatusInv
    BY StatusInvInit, StatusInvStep, TypeCorrect, PTL DEF Spec
<1>2. StatusInv => StatusJustified
    BY DEF StatusInv
<1> QED BY <1>1, <1>2, PTL DEF Spec

==============================================================================
