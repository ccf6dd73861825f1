------------------------ MODULE ThresholdMonitorProofs ------------------------
(***************************************************************************)
(* That the monitor misses no read, raises no false alert and seldom two,  *)
(* for every length of the chain and number of reads and of mishaps.       *)
(***************************************************************************)
EXTENDS ThresholdMonitor, WellFoundedInduction, TLAPS

------------------------------------------------------------------------------
(* The inductive invariant. *)

\* Runs look back at the chain, and each at more of it than the last.
WindowPlace ==
    /\ now <= head
    /\ cache.lastScannedBlock # None => cache.lastScannedBlock <= now
    /\ \A i \in cache.requests :
           cache.lastScannedBlock # None /\ log[i].block <= cache.lastScannedBlock
    /\ \A i \in Made : log[i].block <= head
    /\ \A i \in remaining : log[i].block <= now

\* The run in progress sorts the file's requests.
RunPlace ==
    /\ at # "idle" => expired \cup shortfalls \subseteq cache.requests
    /\ at # "idle" => /\ remaining \cap expired = {}
                      /\ remaining \cap shortfalls = {}
                      /\ expired \cap shortfalls = {}
    /\ \A i \in expired \cup shortfalls : IsExpired(i, now)
    /\ at = "sweep" => remaining \subseteq cache.requests
    /\ at \in {"alert", "save"} => expired = {}

\* The file, and what a run past its scan will put in it, hold the reads still open.
Watched(requests, block) ==
    \A i \in Made : Sole(i) /\ Open(i, block) => i \in requests

CoverPlace ==
    /\ OpenReadsWatched
    /\ at \in {"alert", "save"} => Watched(remaining, now)

\* The keeper has the threshold for it in overtaken rounds at most.
Hopeless(i) ==
    \A r \in Rounds : partials[i][r] >= Threshold =>
        \E q \in Rounds : q > r /\ partials[i][q] > 0

\* An alert that names it is true, or was raised on a flag that lagged.
Justified(i) == i \in lagging \/ Hopeless(i)

\* No request of the file is dropped without a reason.
Accounted(i) ==
    at # "idle" /\ i \in cache.requests =>
        \/ i \in remaining \cup expired \cup shortfalls
        \/ IsExpired(i, now) /\ Reached(i)

\* A read that was alerted is never scanned again, and what may still be alerted has
\* an alert to its credit.
AlertPlace(i) ==
    /\ i \in shortfalls => Justified(i)
    /\ alerts[i] > 0 =>
           /\ i \in Made /\ IsExpired(i, now) /\ Justified(i)
           /\ cache.lastScannedBlock # None => log[i].block <= cache.lastScannedBlock
    /\ alerts[i] <= 1 + mishaps
    /\ at = "save" /\ i \in shortfalls => alerts[i] > 0
    /\ \/ i \in cache.requests /\ ~(at = "save" /\ i \in shortfalls)
       \/ at # "idle" /\ i \in remaining
       => alerts[i] <= mishaps

\* The keeper takes partials for rounds that were active.
PartialsPlace ==
    \A i \in Reads, r \in Rounds : partials[i][r] > 0 => r <= activeRound

MonitorInv ==
    /\ TypeOK
    /\ WindowPlace
    /\ RunPlace
    /\ CoverPlace
    /\ PartialsPlace
    /\ \A i \in Reads : Accounted(i) /\ AlertPlace(i)

------------------------------------------------------------------------------
\* A bounded set of naturals has a maximum.
LEMMA MaxOfRounds ==
    ASSUME NEW S, S \subseteq Nat, S # {}, NEW b \in Nat, \A x \in S : x <= b
    PROVE  Max(S) \in S /\ \A x \in S : x <= Max(S)
<1> DEFINE Below == {b - x : x \in S}
           R == OpToRel(<, Nat)
<1>1. Below \subseteq Nat /\ Below # {}
    <2>1. ASSUME NEW x \in S PROVE b - x \in Nat
        <3>1. x \in Nat /\ x <= b
            OBVIOUS
        <3> QED BY <3>1
    <2> QED BY <2>1
<1>2. IsWellFoundedOn(R, Nat)
    BY NatLessThanWellFounded
<1>3. \A x, y \in Nat : x < y => <<x, y>> \in R
    BY DEF OpToRel
<1> HIDE DEF R
<1>4. PICK m \in Below : \A y \in Below : ~(<<y, m>> \in R)
    <2> HIDE DEF Below
    <2> QED BY <1>1, <1>2, WFMin
<1>5. \A y \in Below : ~(y < m)
    BY <1>1, <1>3, <1>4
<1>6. PICK x \in S : m = b - x
    OBVIOUS
<1>7. \A y \in S : x >= y
    <2> SUFFICES ASSUME NEW y \in S PROVE x >= y
        OBVIOUS
    <2>1. b - y \in Below /\ x \in Nat /\ y \in Nat
        OBVIOUS
    <2>2. ~(b - y < b - x)
        BY <1>5, <1>6, <2>1
    <2> QED BY <2>1, <2>2
<1>8. Max(S) \in S /\ \A y \in S : Max(S) >= y
    BY <1>7 DEF Max
<1> QED BY <1>8

------------------------------------------------------------------------------
USE DEF vars, chainVars, keptVars, runVars, postVars
USE ThresholdAssumption

\* What MonitorInv says of the types, for steps that hide TypeOK.
LEMMA MonitorFacts ==
    ASSUME TypeOK
    PROVE  /\ head \in Nat /\ now \in Nat /\ mishaps \in Nat /\ None \notin Nat
           /\ activeRound \in Nat /\ Rounds \subseteq Nat
           /\ Made \subseteq Reads /\ Reads \subseteq Nat
           /\ \A i \in Made : log[i].block \in Nat
           /\ cache.lastScannedBlock \in Nat \cup {None} /\ cache.requests \subseteq Made
           /\ remaining \subseteq Made /\ expired \subseteq Made /\ shortfalls \subseteq Made
           /\ \A i \in Reads : alerts[i] \in Nat /\ \A r \in Rounds : partials[i][r] \in Nat
<1> USE BoundsAssumption, RoundsAssumption, NoneAssumption
<1>1. head \in Nat /\ now \in Nat /\ mishaps \in Nat
    BY DEF TypeOK, Blocks
<1>2. Made \subseteq Reads /\ Reads \subseteq Nat
    BY DEF TypeOK, Made, Reads
<1>3. \A i \in Made : log[i].block \in Nat
    <2> DEFINE Events == [key : Keys, block : Blocks]
    <2>1. log \in Seq(Events) /\ Blocks \subseteq Nat
        BY DEF TypeOK, Blocks
    <2>2. \A i \in 1..Len(log) : log[i] \in Events
        <3> HIDE DEF Events
        <3> QED BY <2>1
    <2> QED BY <2>1, <2>2 DEF Made
<1>4. cache.lastScannedBlock \in Nat \cup {None}
    BY DEF TypeOK, States, Blocks
<1>5. \A i \in Reads : alerts[i] \in Nat /\ \A r \in Rounds : partials[i][r] \in Nat
    BY DEF TypeOK
<1> QED BY <1>1, <1>2, <1>3, <1>4, <1>5 DEF TypeOK

LEMMA MonitorInvInit == Init => MonitorInv
<1> SUFFICES ASSUME Init PROVE MonitorInv
    OBVIOUS
<1>1. TypeOK
    <2>1. log \in Seq([key : Keys, block : Blocks]) /\ Len(log) = 0
        BY DEF Init
    <2>2. /\ head \in Blocks /\ now \in Blocks /\ mishaps \in 0..MaxMishaps /\ lost \in 0..mishaps
          /\ Len(log) <= MaxReads
        BY <2>1, BoundsAssumption DEF Init, Blocks
    <2>3. cache \in States /\ cache.requests \subseteq Made
        BY DEF Init, States, EmptyState
    <2>4. partials \in [Reads -> [Rounds -> 0..Threshold]] /\ alerts \in [Reads -> Nat]
        BY DEF Init
    <2> QED BY <2>1, <2>2, <2>3, <2>4 DEF Init, TypeOK
<1>2. WindowPlace /\ RunPlace /\ CoverPlace /\ PartialsPlace
    BY NoneAssumption, RoundsAssumption
       DEF Init, WindowPlace, RunPlace, CoverPlace, PartialsPlace, OpenReadsWatched,
           EmptyState, Made
<1>3. \A i \in Reads : Accounted(i) /\ AlertPlace(i)
    BY DEF Init, Accounted, AlertPlace, EmptyState
<1> QED BY <1>1, <1>2, <1>3 DEF MonitorInv

\* A request short of its threshold in its newest group has the threshold in no round, or
\* in overtaken ones only.
LEMMA NotReachedIsHopeless ==
    ASSUME TypeOK, PartialsPlace, NEW i \in Reads, ~Reached(i)
    PROVE  Hopeless(i)
<1>0. /\ Rounds \subseteq Nat /\ activeRound \in Nat
      /\ \A r \in Rounds : partials[i][r] \in Nat
    BY MonitorFacts
<1> SUFFICES ASSUME NEW r \in Rounds, partials[i][r] >= Threshold
             PROVE  \E q \in Rounds : q > r /\ partials[i][q] > 0
    BY DEF Hopeless
<1>1. r \in Groups(i) /\ Groups(i) \subseteq Nat /\ \A q \in Groups(i) : q <= activeRound
    <2>1. partials[i][r] > 0
        BY <1>0
    <2>2. \A q \in Rounds : partials[i][q] > 0 => q <= activeRound
        BY DEF PartialsPlace
    <2> QED BY <1>0, <2>1, <2>2 DEF Groups
<1>2. Max(Groups(i)) \in Groups(i) /\ \A q \in Groups(i) : q <= Max(Groups(i))
    <2> HIDE DEF Groups
    <2> QED BY <1>0, <1>1, MaxOfRounds
<1>3. Max(Groups(i)) # r
    BY <1>1 DEF Reached
<1> QED BY <1>0, <1>1, <1>2, <1>3 DEF Groups

------------------------------------------------------------------------------
(* The chain's steps. *)

\* The chain grows, and nothing is added to a read past its deadline.
LEMMA ChainFrame ==
    ASSUME MonitorInv, Chain
    PROVE  /\ TypeOK' /\ PartialsPlace'
           /\ UNCHANGED <<keptVars, runVars, postVars>>
           /\ head <= head' /\ head' \in Nat
           /\ \A i \in Made : i \in Made' /\ log'[i] = log[i]
           /\ \A i \in Made' \ Made : log'[i].block > head /\ log'[i].block <= head'
           /\ \A i \in Made' : log'[i].block \in Nat
           /\ \A i \in Made : IsExpired(i, head) => partials'[i] = partials[i]
<1>0. /\ TypeOK /\ PartialsPlace /\ head \in Nat /\ Rounds \subseteq Nat
      /\ activeRound \in Nat /\ MaxHead \in Nat /\ MaxReads \in Nat
      /\ \A i \in Made : log[i].block \in Nat
      /\ \A i \in Reads, r \in Rounds : partials[i][r] \in Nat
    BY MonitorFacts, BoundsAssumption DEF MonitorInv
<1>1. CASE MineBlock
    <2>1. TypeOK'
        <3>1. head' \in Blocks /\ UNCHANGED <<log, activeRound, outage, partials, keptVars, runVars, postVars>>
            BY <1>0, <1>1 DEF MineBlock, Blocks
        <3> QED BY <1>0, <3>1 DEF TypeOK, Made
    <2>2. head' = head + 1 /\ UNCHANGED <<log, activeRound, partials, keptVars, runVars, postVars>>
        BY <1>1 DEF MineBlock
    <2>3. head <= head' /\ head' \in Nat
        BY <1>0, <2>2
    <2>4. PartialsPlace'
        BY <1>0, <2>2 DEF PartialsPlace
    <2>5. Made' = Made
        BY <2>2 DEF Made
    <2> HIDE DEF Made
    <2> QED BY <1>0, <2>1, <2>2, <2>3, <2>4, <2>5
<1>2. CASE RollOver
    <2>1. PICK r \in Rounds : r > activeRound /\ activeRound' = r
        BY <1>2 DEF RollOver
    <2>2. UNCHANGED <<head, log, outage, partials, keptVars, runVars, postVars>>
        BY <1>2 DEF RollOver
    <2>3. TypeOK'
        BY <1>0, <2>1, <2>2 DEF TypeOK, Made
    <2>4. PartialsPlace'
        <3> SUFFICES ASSUME NEW i \in Reads, NEW q \in Rounds, partials[i][q] > 0
                     PROVE  q <= r
            BY <2>1, <2>2 DEF PartialsPlace
        <3>1. q <= activeRound
            BY DEF PartialsPlace, MonitorInv
        <3>2. q \in Nat /\ r \in Nat
            BY <1>0
        <3> QED BY <1>0, <2>1, <3>1, <3>2
    <2>5. Made' = Made
        BY <2>2 DEF Made
    <2> HIDE DEF Made
    <2> QED BY <1>0, <2>2, <2>3, <2>4, <2>5
<1>3. CASE Outage
    <2>1. TypeOK'
        <3>1. outage' \in BOOLEAN
            BY <1>3 DEF Outage
        <3>2. UNCHANGED <<head, log, activeRound, partials, keptVars, runVars, postVars>>
            BY <1>3 DEF Outage
        <3> QED BY <1>0, <3>1, <3>2 DEF TypeOK, Made
    <2>2. UNCHANGED <<head, log, activeRound, partials, keptVars, runVars, postVars>>
        BY <1>3 DEF Outage
    <2> QED BY <1>0, <2>1, <2>2 DEF PartialsPlace, Made
<1>4. ASSUME NEW k \in Keys, MineRead(k)
      PROVE  /\ TypeOK' /\ PartialsPlace' /\ head <= head' /\ head' \in Nat
             /\ UNCHANGED <<keptVars, runVars, postVars, partials>>
             /\ \A i \in Made' : log'[i].block \in Nat
             /\ \A i \in Made : i \in Made' /\ log'[i] = log[i]
             /\ \A i \in Made' \ Made : log'[i].block > head /\ log'[i].block <= head'
    <2>1. /\ head' = head + 1 /\ log' = Append(log, [key |-> k, block |-> head + 1])
          /\ Len(log) < MaxReads /\ head + 1 + Timeout < MaxHead
          /\ UNCHANGED <<activeRound, outage, partials, keptVars, runVars, postVars>>
        BY <1>4 DEF MineRead
    <2>2. log \in Seq([key : Keys, block : Blocks]) /\ Len(log) \in Nat
        BY <1>0 DEF TypeOK
    <2>3. [key |-> k, block |-> head + 1] \in [key : Keys, block : Blocks]
        BY <1>0, <2>1 DEF Blocks
    <2>4. /\ log' \in Seq([key : Keys, block : Blocks]) /\ Len(log') = Len(log) + 1
          /\ \A i \in 1..Len(log) : log'[i] = log[i]
          /\ log'[Len(log) + 1] = [key |-> k, block |-> head + 1]
        BY <2>1, <2>2, <2>3
    <2>5. /\ \A i \in Made : i \in Made' /\ log'[i] = log[i]
          /\ \A i \in Made' \ Made : log'[i] = [key |-> k, block |-> head + 1]
        BY <2>2, <2>4 DEF Made
    <2>6. TypeOK'
        <3>1. head' \in Blocks /\ Len(log') <= MaxReads
            BY <1>0, <2>1, <2>2, <2>4 DEF Blocks
        <3>2. /\ remaining \subseteq Made' /\ expired \subseteq Made' /\ shortfalls \subseteq Made'
              /\ cache.requests \subseteq Made' /\ lagging \subseteq Made'
            BY <1>0, <2>5 DEF TypeOK
        <3> HIDE DEF Made
        <3> QED BY <1>0, <2>1, <2>4, <3>1, <3>2 DEF TypeOK
    <2>7. /\ head <= head' /\ head' \in Nat
          /\ \A i \in Made' : log'[i].block \in Nat
          /\ \A i \in Made' \ Made : log'[i].block > head /\ log'[i].block <= head'
        <3> HIDE DEF Made
        <3>1. \A i \in Made' \ Made : log'[i].block = head + 1
            BY <2>5
        <3>2. \A i \in Made : log'[i].block \in Nat
            BY <1>0, <2>5
        <3>3. head' = head + 1 /\ head + 1 \in Nat /\ head <= head + 1 /\ head + 1 > head
            BY <1>0, <2>1
        <3>4. \A i \in Made' : log'[i].block \in Nat
            BY <3>1, <3>2, <3>3
        <3> QED BY <3>1, <3>3, <3>4
    <2>8. PartialsPlace'
        BY <1>0, <2>1 DEF PartialsPlace
    <2> QED BY <2>1, <2>5, <2>6, <2>7, <2>8
<1>5. ASSUME NEW j \in Reads, AcceptPartial(j)
      PROVE  /\ TypeOK' /\ PartialsPlace'
             /\ UNCHANGED <<head, log, keptVars, runVars, postVars>>
             /\ \A i \in Made : IsExpired(i, head) => partials'[i] = partials[i]
    <2>1. /\ j \in Made /\ head <= Deadline(j) /\ partials[j][activeRound] < Threshold
          /\ partials' = [partials EXCEPT ![j][activeRound] = partials[j][activeRound] + 1]
          /\ UNCHANGED <<head, log, activeRound, outage, keptVars, runVars, postVars>>
        BY <1>5 DEF AcceptPartial
    <2>2. partials \in [Reads -> [Rounds -> 0..Threshold]] /\ activeRound \in Rounds
        BY <1>0 DEF TypeOK
    <2>3. partials' \in [Reads -> [Rounds -> 0..Threshold]]
        BY <1>0, <2>1, <2>2
    <2>4. \A i \in Reads, r \in Rounds :
              partials'[i][r] = IF i = j /\ r = activeRound THEN partials[i][r] + 1
                                ELSE partials[i][r]
        BY <2>1, <2>2
    <2>5. TypeOK'
        BY <1>0, <2>1, <2>3 DEF TypeOK, Made
    <2>6. PartialsPlace'
        BY <1>0, <2>1, <2>4 DEF PartialsPlace
    <2>7. ~IsExpired(j, head)
        BY <1>0, <2>1 DEF IsExpired, Deadline
    <2>8. \A i \in Made : IsExpired(i, head) => partials'[i] = partials[i]
        BY <2>1, <2>2, <2>7
    <2> QED BY <2>1, <2>5, <2>6, <2>8
<1>6. CASE \E k \in Keys : MineRead(k)
    BY <1>4, <1>6
<1>7. CASE \E j \in Reads : AcceptPartial(j)
    <2>1. /\ TypeOK' /\ PartialsPlace'
          /\ UNCHANGED <<head, log, keptVars, runVars, postVars>>
          /\ \A i \in Made : IsExpired(i, head) => partials'[i] = partials[i]
        BY <1>5, <1>7
    <2>2. Made' = Made
        BY <2>1 DEF Made
    <2> HIDE DEF Made
    <2> QED BY <1>0, <2>1, <2>2
<1> QED BY <1>1, <1>2, <1>3, <1>6, <1>7 DEF Chain

LEMMA ChainKeeps == MonitorInv /\ Chain => MonitorInv'
<1> SUFFICES ASSUME MonitorInv, Chain PROVE MonitorInv'
    OBVIOUS
<1>0. /\ head \in Nat /\ now \in Nat /\ head' \in Nat /\ None \notin Nat
      /\ cache.lastScannedBlock \in Nat \cup {None} /\ cache.requests \subseteq Made
      /\ remaining \subseteq Made /\ expired \subseteq Made /\ shortfalls \subseteq Made
      /\ Made \subseteq Reads
      /\ \A i \in Made : log[i].block \in Nat
      /\ \A i \in Made' : log'[i].block \in Nat
    <2>1. TypeOK
        BY DEF MonitorInv
    <2> QED BY <2>1, MonitorFacts, ChainFrame
<1>1. /\ TypeOK' /\ PartialsPlace'
      /\ UNCHANGED <<keptVars, runVars, postVars>>
      /\ head <= head'
      /\ \A i \in Made : i \in Made' /\ log'[i] = log[i]
      /\ \A i \in Made' \ Made : log'[i].block > head /\ log'[i].block <= head'
      /\ \A i \in Made : IsExpired(i, head) => partials'[i] = partials[i]
    BY ChainFrame
<1>2. /\ WindowPlace /\ RunPlace /\ CoverPlace
      /\ \A i \in Reads : Accounted(i) /\ AlertPlace(i)
    BY DEF MonitorInv
<1>3. WindowPlace'
    BY <1>0, <1>1, <1>2 DEF WindowPlace
<1>4. RunPlace'
    BY <1>0, <1>1, <1>2 DEF RunPlace, IsExpired, Deadline
<1>5. ASSUME NEW b \in Nat, b <= head, NEW S, Watched(S, b) PROVE Watched(S, b)'
    <2> SUFFICES ASSUME NEW i \in Made', Sole(i)', Open(i, b)' PROVE i \in S
        BY DEF Watched
    <2>1. i \in Made
        BY <1>0, <1>1, <1>5 DEF Open
    <2>2. Sole(i) /\ Open(i, b)
        BY <1>1, <2>1 DEF Sole, Open, IsExpired, Deadline
    <2> QED BY <1>5, <2>1, <2>2 DEF Watched
<1>6. CoverPlace'
    <2>1. OpenReadsWatched <=>
              (cache.lastScannedBlock # None => Watched(cache.requests, cache.lastScannedBlock))
        BY DEF OpenReadsWatched, Watched
    <2>2. OpenReadsWatched' <=>
              (cache.lastScannedBlock # None =>
                   \A i \in Made' : Sole(i)' /\ (log'[i].block <= cache.lastScannedBlock
                                                 /\ ~(cache.lastScannedBlock > log'[i].block + Timeout))
                                        => i \in cache.requests)
        BY <1>1 DEF OpenReadsWatched, Open, IsExpired, Deadline
    <2>3. ASSUME NEW b \in Nat, b <= head, NEW S, Watched(S, b)
          PROVE  \A i \in Made' : Sole(i)' /\ (log'[i].block <= b /\ ~(b > log'[i].block + Timeout))
                                      => i \in S
        BY <1>5, <2>3 DEF Watched, Open, IsExpired, Deadline
    <2>4. OpenReadsWatched'
        BY <1>0, <1>2, <2>1, <2>2, <2>3 DEF CoverPlace, WindowPlace
    <2>5. at \in {"alert", "save"} =>
              \A i \in Made' : Sole(i)' /\ (log'[i].block <= now /\ ~(now > log'[i].block + Timeout))
                                   => i \in remaining
        BY <1>0, <1>2, <2>3 DEF CoverPlace, WindowPlace
    <2>6. at' \in {"alert", "save"} => Watched(remaining, now)'
        BY <1>1, <2>5 DEF Watched, Open, IsExpired, Deadline
    <2> QED BY <2>4, <2>6 DEF CoverPlace
<1>7. ASSUME NEW i \in Made, IsExpired(i, now)
      PROVE  /\ IsExpired(i, now)' /\ partials'[i] = partials[i]
             /\ Justified(i)' <=> Justified(i)
             /\ Reached(i)' <=> Reached(i)
    <2>1. IsExpired(i, head)
        BY <1>0, <1>2, <1>7 DEF IsExpired, Deadline, WindowPlace
    <2>2. partials'[i] = partials[i]
        BY <1>1, <2>1
    <2>3. Groups(i)' = Groups(i)
        BY <2>2 DEF Groups
    <2>4. IsExpired(i, now)'
        BY <1>1, <1>7 DEF IsExpired, Deadline
    <2> QED BY <1>1, <2>2, <2>3, <2>4 DEF Justified, Hopeless, Reached
<1>8. ASSUME NEW i \in Reads PROVE Accounted(i)' /\ AlertPlace(i)'
    <2>0. Accounted(i) /\ AlertPlace(i)
        BY <1>2
    <2>1. Accounted(i)'
        BY <1>0, <1>1, <1>7, <2>0 DEF Accounted
    <2>2. i \in shortfalls => i \in Made /\ IsExpired(i, now)
        BY <1>0, <1>2 DEF RunPlace
    <2>3. AlertPlace(i)'
        BY <1>0, <1>1, <1>7, <2>0, <2>2 DEF AlertPlace
    <2> QED BY <2>1, <2>3
<1> QED BY <1>1, <1>3, <1>4, <1>6, <1>8 DEF MonitorInv

------------------------------------------------------------------------------
(* The run's steps. *)

\* As long as the chain stands still, so does all that is said of it.
LEMMA ChainStill ==
    ASSUME UNCHANGED chainVars
    PROVE  /\ Made' = Made /\ (PartialsPlace => PartialsPlace')
           /\ \A i : /\ Sole(i)' <=> Sole(i)
                     /\ Hopeless(i)' <=> Hopeless(i)
                     /\ Reached(i)' <=> Reached(i)
           /\ \A i, b : /\ IsExpired(i, b)' <=> (b > log[i].block + Timeout)
                        /\ IsExpired(i, b) <=> (b > log[i].block + Timeout)
BY DEF Made, PartialsPlace, Sole, Hopeless, Reached, Groups, IsExpired, Deadline

LEMMA StartRunKeeps == MonitorInv /\ StartRun => MonitorInv'
<1> SUFFICES ASSUME MonitorInv, StartRun PROVE MonitorInv'
    OBVIOUS
<1>0. /\ TypeOK /\ WindowPlace /\ RunPlace /\ CoverPlace /\ PartialsPlace
      /\ \A j \in Reads : Accounted(j) /\ AlertPlace(j)
      /\ head \in Nat /\ now \in Nat /\ mishaps \in Nat /\ None \notin Nat
      /\ Made \subseteq Reads /\ \A j \in Made : log[j].block \in Nat
      /\ cache.lastScannedBlock \in Nat \cup {None} /\ cache.requests \subseteq Made
      /\ remaining \subseteq Made /\ expired \subseteq Made /\ shortfalls \subseteq Made
      /\ \A j \in Reads : alerts[j] \in Nat
    BY MonitorFacts DEF MonitorInv
<1>1. /\ at = "idle" /\ at' = "sweep" /\ now' = head /\ shortfalls' = {}
      /\ expired' = {i \in cache.requests : IsExpired(i, head)}
      /\ remaining' = cache.requests \ expired'
      /\ UNCHANGED <<chainVars, keptVars, postVars>>
    BY DEF StartRun
<1>2. TypeOK'
    BY <1>0, <1>1 DEF TypeOK, Made
<1>3. PartialsPlace' /\ Made' = Made
    BY <1>0, <1>1, ChainStill
<1>4. WindowPlace'
    BY <1>0, <1>1, <1>3 DEF WindowPlace
<1>5. RunPlace'
    BY <1>0, <1>1 DEF RunPlace, IsExpired, Deadline
<1>6. CoverPlace'
    BY <1>0, <1>1 DEF CoverPlace, OpenReadsWatched, Open, Sole, Made, IsExpired, Deadline
<1>7. ASSUME NEW i \in Reads PROVE Accounted(i)' /\ AlertPlace(i)'
    <2>0. AlertPlace(i)
        BY <1>0
    <2>1. Accounted(i)'
        BY <1>1 DEF Accounted
    <2>2. i \in Made /\ IsExpired(i, now) => IsExpired(i, now)'
        BY <1>0, <1>1 DEF WindowPlace, IsExpired, Deadline
    <2>3. Justified(i) => Justified(i)'
        BY <1>1, ChainStill DEF Justified
    <2>4. AlertPlace(i)'
        BY <1>0, <1>1, <1>3, <2>0, <2>2, <2>3 DEF AlertPlace
    <2> QED BY <2>1, <2>4
<1> QED BY <1>2, <1>3, <1>4, <1>5, <1>6, <1>7 DEF MonitorInv

LEMMA SweepKeeps ==
    ASSUME MonitorInv, NEW i \in Reads, Sweep(i) \/ SweepLater(i)
    PROVE  MonitorInv'
<1>0. /\ TypeOK /\ WindowPlace /\ RunPlace /\ CoverPlace /\ PartialsPlace
      /\ \A j \in Reads : Accounted(j) /\ AlertPlace(j)
      /\ head \in Nat /\ now \in Nat /\ mishaps \in Nat /\ None \notin Nat
      /\ Made \subseteq Reads /\ \A j \in Made : log[j].block \in Nat
      /\ cache.lastScannedBlock \in Nat \cup {None} /\ cache.requests \subseteq Made
      /\ remaining \subseteq Made /\ expired \subseteq Made /\ shortfalls \subseteq Made
      /\ \A j \in Reads : alerts[j] \in Nat
    BY MonitorFacts DEF MonitorInv
<1>1. /\ at = "sweep" /\ i \in expired /\ expired' = expired \ {i}
      /\ UNCHANGED <<chainVars, keptVars, at, now, alerts>>
      /\ \/ /\ Reached(i)
            /\ UNCHANGED <<remaining, shortfalls, lagging>>
         \/ /\ Reached(i) /\ shortfalls' = shortfalls \cup {i}
            /\ lagging' = lagging \cup {i} /\ remaining' = remaining
         \/ /\ ~Reached(i) /\ shortfalls' = shortfalls \cup {i}
            /\ UNCHANGED <<remaining, lagging>>
         \/ /\ remaining' = remaining \cup {i}
            /\ UNCHANGED <<shortfalls, lagging>>
    BY DEF Sweep, SweepLater, Answer, Met
<1>2. TypeOK'
    BY <1>0, <1>1 DEF TypeOK, Made
<1>3. PartialsPlace' /\ Made' = Made
    BY <1>0, <1>1, ChainStill
<1>4. i \in cache.requests /\ IsExpired(i, now) /\ log[i].block <= now
    BY <1>0, <1>1 DEF RunPlace, WindowPlace
<1>5. WindowPlace'
    BY <1>0, <1>1, <1>3, <1>4 DEF WindowPlace
<1>6. RunPlace'
    BY <1>0, <1>1, <1>4 DEF RunPlace, IsExpired, Deadline
<1>7. CoverPlace'
    BY <1>0, <1>1 DEF CoverPlace, OpenReadsWatched, Open, Sole, Made, IsExpired, Deadline
<1>8. ASSUME NEW j \in Reads PROVE Accounted(j)' /\ AlertPlace(j)'
    <2>0. Accounted(j) /\ AlertPlace(j)
        BY <1>0
    <2>1. /\ Reached(j)' <=> Reached(j)
          /\ (Justified(j) => Justified(j)')
          /\ IsExpired(j, now)' <=> IsExpired(j, now)
        BY <1>1, ChainStill DEF Justified, IsExpired, Deadline
    <2>2. Accounted(j)'
        BY <1>1, <1>4, <2>0, <2>1 DEF Accounted
    <2>3. ~Reached(i) \/ lagging' = lagging \cup {i} => Justified(i)'
        BY <1>0, <1>1, ChainStill, NotReachedIsHopeless DEF Justified
    <2>4. AlertPlace(j)'
        BY <1>0, <1>1, <1>3, <1>4, <2>0, <2>1, <2>3 DEF AlertPlace
    <2> QED BY <2>2, <2>4
<1> QED BY <1>2, <1>3, <1>5, <1>6, <1>7, <1>8 DEF MonitorInv

\* What a scan finds was not alerted, and with what was open before it makes all that
\* is open now.
LEMMA ScanFrame ==
    ASSUME MonitorInv, at = "sweep", expired = {}
    PROVE  /\ Ingested \subseteq Made
           /\ \A i \in Ingested : /\ log[i].block <= now /\ alerts[i] = 0
                                  /\ i \notin cache.requests
           /\ Watched(remaining \cup Ingested, now)
<1>0. /\ TypeOK /\ WindowPlace /\ RunPlace /\ CoverPlace /\ PartialsPlace
      /\ \A j \in Reads : Accounted(j) /\ AlertPlace(j)
      /\ head \in Nat /\ now \in Nat /\ mishaps \in Nat /\ None \notin Nat
      /\ Made \subseteq Reads /\ \A j \in Made : log[j].block \in Nat
      /\ cache.lastScannedBlock \in Nat \cup {None} /\ cache.requests \subseteq Made
      /\ remaining \subseteq Made /\ expired \subseteq Made /\ shortfalls \subseteq Made
      /\ \A j \in Reads : alerts[j] \in Nat
    BY MonitorFacts DEF MonitorInv
<1>1. ASSUME NEW i \in Scanned
      PROVE  /\ i \in Made /\ log[i].block <= now /\ ~(alerts[i] > 0) /\ i \notin cache.requests
    <2>1. /\ i \in Made /\ i \in Reads /\ log[i].block <= now
          /\ NextScanFrom(cache.lastScannedBlock, now) <= log[i].block
        BY <1>0 DEF Scanned
    <2>2. cache.lastScannedBlock # None => ~(log[i].block <= cache.lastScannedBlock)
        BY <1>0, <2>1 DEF NextScanFrom
    <2>3. cache.lastScannedBlock = None => ~(now > log[i].block + Timeout)
        BY <1>0, <2>1 DEF NextScanFrom
    <2>4. AlertPlace(i)
        BY <1>0, <2>1
    <2> QED BY <1>0, <2>1, <2>2, <2>3, <2>4 DEF AlertPlace, WindowPlace, IsExpired, Deadline
<1>2. ASSUME NEW i \in Made, Sole(i), Open(i, now)
      PROVE  i \in remaining \cup Ingested
    <2>1. log[i].block <= now /\ ~(now > log[i].block + Timeout)
        BY <1>2 DEF Open, IsExpired, Deadline
    <2>2. CASE cache.lastScannedBlock # None /\ log[i].block <= cache.lastScannedBlock
        <3>1. ~(cache.lastScannedBlock > log[i].block + Timeout)
            BY <1>0, <2>1, <2>2 DEF WindowPlace
        <3>2. i \in cache.requests
            BY <1>0, <1>2, <2>2, <3>1 DEF CoverPlace, OpenReadsWatched, Open, IsExpired, Deadline
        <3>3. i \notin shortfalls /\ ~IsExpired(i, now)
            BY <1>0, <2>1 DEF RunPlace, IsExpired, Deadline
        <3>4. Accounted(i)
            BY <1>0
        <3> QED BY <3>2, <3>3, <3>4 DEF Accounted
    <2>3. CASE ~(cache.lastScannedBlock # None /\ log[i].block <= cache.lastScannedBlock)
        <3>1. NextScanFrom(cache.lastScannedBlock, now) <= log[i].block
            BY <1>0, <2>1, <2>3 DEF NextScanFrom
        <3>2. i \in Scanned
            BY <2>1, <3>1 DEF Scanned
        <3>3. \A j \in Scanned : j < i => log[j].key # log[i].key
            <4> SUFFICES ASSUME NEW j \in Scanned, j < i, log[j].key = log[i].key PROVE FALSE
                OBVIOUS
            <4>1. j \in Made /\ i \in Nat /\ j \in Nat
                BY <1>0, MonitorFacts DEF Scanned
            <4>2. j = i
                BY <1>2, <4>1 DEF Sole
            <4> QED BY <4>1, <4>2
        <3>4. log[i].key \in Seen => i \in remaining
            BY <1>0, <1>2 DEF Seen, Sole
        <3> QED BY <3>2, <3>3, <3>4 DEF Ingested
    <2> QED BY <2>2, <2>3
<1>3. Ingested \subseteq Scanned
    BY DEF Ingested
<1>4. ASSUME NEW i \in Ingested
      PROVE  i \in Made /\ log[i].block <= now /\ alerts[i] = 0 /\ i \notin cache.requests
    <2>1. i \in Made /\ log[i].block <= now /\ ~(alerts[i] > 0) /\ i \notin cache.requests
        BY <1>1, <1>3
    <2>2. alerts[i] \in Nat
        BY <1>0, <2>1
    <2> QED BY <2>1, <2>2
<1> QED BY <1>2, <1>4 DEF Watched

LEMMA IngestKeeps == MonitorInv /\ Ingest => MonitorInv'
<1> SUFFICES ASSUME MonitorInv, Ingest PROVE MonitorInv'
    OBVIOUS
<1>0. /\ TypeOK /\ WindowPlace /\ RunPlace /\ CoverPlace /\ PartialsPlace
      /\ \A j \in Reads : Accounted(j) /\ AlertPlace(j)
      /\ head \in Nat /\ now \in Nat /\ mishaps \in Nat /\ None \notin Nat
      /\ Made \subseteq Reads /\ \A j \in Made : log[j].block \in Nat
      /\ cache.lastScannedBlock \in Nat \cup {None} /\ cache.requests \subseteq Made
      /\ remaining \subseteq Made /\ expired \subseteq Made /\ shortfalls \subseteq Made
      /\ \A j \in Reads : alerts[j] \in Nat
    BY MonitorFacts DEF MonitorInv
<1>1. /\ at = "sweep" /\ at' = "alert" /\ expired = {} /\ expired' = {}
      /\ remaining' = remaining \cup Ingested
      /\ UNCHANGED <<chainVars, keptVars, now, shortfalls, postVars>>
    BY DEF Ingest
<1>2. /\ Ingested \subseteq Made
      /\ \A i \in Ingested : log[i].block <= now /\ alerts[i] = 0 /\ i \notin cache.requests
      /\ Watched(remaining \cup Ingested, now)
    BY <1>1, ScanFrame
<1>3. TypeOK'
    BY <1>0, <1>1, <1>2 DEF TypeOK, Made
<1>4. PartialsPlace' /\ Made' = Made
    BY <1>0, <1>1, ChainStill
<1>5. WindowPlace'
    BY <1>0, <1>1, <1>2, <1>4 DEF WindowPlace
<1>6. RunPlace'
    BY <1>0, <1>1, <1>2 DEF RunPlace, IsExpired, Deadline
<1>7. CoverPlace'
    <2>1. Watched(remaining, now)'
        <3>1. \A i \in Made : Sole(i) /\ Open(i, now) => i \in remaining'
            BY <1>1, <1>2 DEF Watched
        <3> QED BY <1>1, <3>1 DEF Watched, Open, Sole, Made, IsExpired, Deadline
    <2>2. OpenReadsWatched'
        BY <1>0, <1>1 DEF CoverPlace, OpenReadsWatched, Open, Sole, Made, IsExpired, Deadline
    <2> QED BY <2>1, <2>2 DEF CoverPlace
<1>8. ASSUME NEW i \in Reads PROVE Accounted(i)' /\ AlertPlace(i)'
    <2>0. Accounted(i) /\ AlertPlace(i)
        BY <1>0
    <2>1. /\ Reached(i)' <=> Reached(i)
          /\ Justified(i)' <=> Justified(i)
          /\ IsExpired(i, now)' <=> IsExpired(i, now)
        BY <1>1, ChainStill DEF Justified, IsExpired, Deadline
    <2>2. Accounted(i)'
        BY <1>1, <2>0, <2>1 DEF Accounted
    <2>3. AlertPlace(i)'
        BY <1>0, <1>1, <1>2, <1>4, <2>0, <2>1 DEF AlertPlace
    <2> QED BY <2>2, <2>3
<1> QED BY <1>3, <1>4, <1>5, <1>6, <1>7, <1>8 DEF MonitorInv

LEMMA AlertKeeps == MonitorInv /\ Alert => MonitorInv'
<1> SUFFICES ASSUME MonitorInv, Alert PROVE MonitorInv'
    OBVIOUS
<1>0. /\ TypeOK /\ WindowPlace /\ RunPlace /\ CoverPlace /\ PartialsPlace
      /\ \A j \in Reads : Accounted(j) /\ AlertPlace(j)
      /\ head \in Nat /\ now \in Nat /\ mishaps \in Nat /\ None \notin Nat
      /\ Made \subseteq Reads /\ \A j \in Made : log[j].block \in Nat
      /\ cache.lastScannedBlock \in Nat \cup {None} /\ cache.requests \subseteq Made
      /\ remaining \subseteq Made /\ expired \subseteq Made /\ shortfalls \subseteq Made
      /\ \A j \in Reads : alerts[j] \in Nat
    BY MonitorFacts DEF MonitorInv
<1>1. /\ at = "alert" /\ at' = "save"
      /\ alerts' = [i \in Reads |-> IF i \in shortfalls THEN alerts[i] + 1 ELSE alerts[i]]
      /\ UNCHANGED <<chainVars, keptVars, now, remaining, expired, shortfalls, lagging>>
    BY DEF Alert
<1>2. TypeOK'
    <2>1. alerts' \in [Reads -> Nat]
        BY <1>0, <1>1
    <2> QED BY <1>0, <1>1, <2>1 DEF TypeOK, Made
<1>3. PartialsPlace' /\ Made' = Made
    BY <1>0, <1>1, ChainStill
<1>4. WindowPlace' /\ RunPlace' /\ CoverPlace'
    BY <1>0, <1>1 DEF WindowPlace, RunPlace, CoverPlace, OpenReadsWatched, Watched, Open, Sole,
                      Made, IsExpired, Deadline
<1>5. ASSUME NEW i \in Reads PROVE Accounted(i)' /\ AlertPlace(i)'
    <2>0. Accounted(i) /\ AlertPlace(i)
        BY <1>0
    <2>1. /\ Reached(i)' <=> Reached(i)
          /\ Justified(i)' <=> Justified(i)
          /\ IsExpired(i, now)' <=> IsExpired(i, now)
        BY <1>1, ChainStill DEF Justified, IsExpired, Deadline
    <2>2. Accounted(i)'
        BY <1>1, <2>0, <2>1 DEF Accounted
    <2>3. CASE i \in shortfalls
        <3>1. /\ i \in cache.requests /\ i \in Made /\ IsExpired(i, now) /\ i \notin remaining
              /\ cache.lastScannedBlock # None => log[i].block <= cache.lastScannedBlock
            BY <1>0, <1>1, <2>3 DEF RunPlace, WindowPlace
        <3>2. alerts'[i] = alerts[i] + 1 /\ alerts[i] <= mishaps
            BY <1>0, <1>1, <2>0, <2>3, <3>1 DEF AlertPlace
        <3>3. alerts'[i] > 0 /\ alerts'[i] <= 1 + mishaps
            BY <1>0, <3>2
        <3>4. UNCHANGED <<log, mishaps, cache, now, remaining, shortfalls>> /\ at' = "save"
            BY <1>1
        <3> QED BY <1>3, <2>0, <2>1, <2>2, <2>3, <3>1, <3>3, <3>4 DEF AlertPlace
    <2>4. CASE i \notin shortfalls
        <3>1. /\ UNCHANGED <<log, mishaps, cache, now, remaining, shortfalls>>
              /\ at = "alert" /\ at' = "save" /\ alerts'[i] = alerts[i]
            BY <1>1, <2>4
        <3> QED BY <1>3, <2>0, <2>1, <2>2, <2>4, <3>1 DEF AlertPlace
    <2> QED BY <2>2, <2>3, <2>4
<1> QED BY <1>2, <1>3, <1>4, <1>5 DEF MonitorInv

LEMMA SaveKeeps == MonitorInv /\ Save => MonitorInv'
<1> SUFFICES ASSUME MonitorInv, Save PROVE MonitorInv'
    OBVIOUS
<1>0. /\ TypeOK /\ WindowPlace /\ RunPlace /\ CoverPlace /\ PartialsPlace
      /\ \A j \in Reads : Accounted(j) /\ AlertPlace(j)
      /\ head \in Nat /\ now \in Nat /\ mishaps \in Nat /\ None \notin Nat
      /\ Made \subseteq Reads /\ \A j \in Made : log[j].block \in Nat
      /\ cache.lastScannedBlock \in Nat \cup {None} /\ cache.requests \subseteq Made
      /\ remaining \subseteq Made /\ expired \subseteq Made /\ shortfalls \subseteq Made
      /\ \A j \in Reads : alerts[j] \in Nat
    BY MonitorFacts DEF MonitorInv
<1>1. /\ at = "save" /\ at' = "idle"
      /\ cache' = [lastScannedBlock |-> now, requests |-> remaining]
      /\ cache'.lastScannedBlock = now /\ cache'.requests = remaining
      /\ UNCHANGED <<chainVars, mishaps, lost, now, remaining, expired, shortfalls, postVars>>
    BY DEF Save
<1>2. TypeOK'
    <2>1. cache' \in States
        BY <1>0, <1>1 DEF TypeOK, States
    <2> QED BY <1>0, <1>1, <2>1 DEF TypeOK, Made
<1>3. PartialsPlace' /\ Made' = Made
    BY <1>0, <1>1, ChainStill
<1>4. WindowPlace' /\ RunPlace'
    BY <1>0, <1>1, <1>3 DEF WindowPlace, RunPlace, IsExpired, Deadline
<1>5. CoverPlace'
    <2>1. \A i \in Made : Sole(i) /\ Open(i, now) => i \in remaining
        BY <1>0, <1>1 DEF CoverPlace, Watched
    <2> QED BY <1>1, <2>1 DEF CoverPlace, OpenReadsWatched, Open, Sole, Made, IsExpired, Deadline
<1>6. ASSUME NEW i \in Reads PROVE Accounted(i)' /\ AlertPlace(i)'
    <2>0. AlertPlace(i)
        BY <1>0
    <2>1. /\ Justified(i)' <=> Justified(i)
          /\ IsExpired(i, now)' <=> IsExpired(i, now)
        BY <1>1, ChainStill DEF Justified, IsExpired, Deadline
    <2>2. i \in Made /\ IsExpired(i, now) => log[i].block <= now
        BY <1>0 DEF IsExpired, Deadline
    <2>3. AlertPlace(i)'
        BY <1>0, <1>1, <1>3, <2>0, <2>1, <2>2 DEF AlertPlace, RunPlace
    <2> QED BY <1>1, <2>3 DEF Accounted
<1> QED BY <1>2, <1>3, <1>4, <1>5, <1>6 DEF MonitorInv

\* A run that ends without saving: before its post, or after, as one more mishap.
LEMMA BreakKeeps == MonitorInv /\ (RunThrows \/ RunKilledAfterPost) => MonitorInv'
<1> SUFFICES ASSUME MonitorInv, RunThrows \/ RunKilledAfterPost PROVE MonitorInv'
    OBVIOUS
<1>0. /\ TypeOK /\ WindowPlace /\ RunPlace /\ CoverPlace /\ PartialsPlace
      /\ \A j \in Reads : Accounted(j) /\ AlertPlace(j)
      /\ head \in Nat /\ now \in Nat /\ mishaps \in Nat /\ None \notin Nat
      /\ Made \subseteq Reads /\ \A j \in Made : log[j].block \in Nat
      /\ cache.lastScannedBlock \in Nat \cup {None} /\ cache.requests \subseteq Made
      /\ remaining \subseteq Made /\ expired \subseteq Made /\ shortfalls \subseteq Made
      /\ \A j \in Reads : alerts[j] \in Nat
    BY MonitorFacts DEF MonitorInv
<1>1. /\ at' = "idle"
      /\ \/ at # "save" /\ mishaps' = mishaps
         \/ mishaps' = mishaps + 1 /\ mishaps < MaxMishaps
      /\ UNCHANGED <<chainVars, cache, lost, now, remaining, expired, shortfalls, postVars>>
    BY DEF RunThrows, RunKilledAfterPost
<1>2. TypeOK'
    <2>1. mishaps' \in 0..MaxMishaps /\ lost' \in 0..mishaps'
        BY <1>0, <1>1, BoundsAssumption DEF TypeOK
    <2> QED BY <1>0, <1>1, <2>1 DEF TypeOK, Made
<1>3. PartialsPlace' /\ Made' = Made
    BY <1>0, <1>1, ChainStill
<1>4. WindowPlace' /\ RunPlace' /\ CoverPlace'
    BY <1>0, <1>1 DEF WindowPlace, RunPlace, CoverPlace, OpenReadsWatched, Open, Sole,
                      Made, IsExpired, Deadline
<1>5. ASSUME NEW i \in Reads PROVE Accounted(i)' /\ AlertPlace(i)'
    <2>0. AlertPlace(i)
        BY <1>0
    <2>1. /\ Justified(i)' <=> Justified(i)
          /\ IsExpired(i, now)' <=> IsExpired(i, now)
        BY <1>1, ChainStill DEF Justified, IsExpired, Deadline
    <2>2. AlertPlace(i)'
        BY <1>0, <1>1, <1>3, <2>0, <2>1 DEF AlertPlace
    <2> QED BY <1>1, <2>2 DEF Accounted
<1> QED BY <1>2, <1>3, <1>4, <1>5 DEF MonitorInv

LEMMA LoseCacheKeeps == MonitorInv /\ LoseCache => MonitorInv'
<1> SUFFICES ASSUME MonitorInv, LoseCache PROVE MonitorInv'
    OBVIOUS
<1>0. /\ TypeOK /\ WindowPlace /\ RunPlace /\ CoverPlace /\ PartialsPlace
      /\ \A j \in Reads : Accounted(j) /\ AlertPlace(j)
      /\ head \in Nat /\ now \in Nat /\ mishaps \in Nat /\ None \notin Nat
      /\ Made \subseteq Reads /\ \A j \in Made : log[j].block \in Nat
      /\ cache.lastScannedBlock \in Nat \cup {None} /\ cache.requests \subseteq Made
      /\ remaining \subseteq Made /\ expired \subseteq Made /\ shortfalls \subseteq Made
      /\ \A j \in Reads : alerts[j] \in Nat
    BY MonitorFacts DEF MonitorInv
<1>1. /\ at = "idle" /\ at' = at /\ mishaps' = mishaps + 1 /\ lost' = lost + 1
      /\ mishaps < MaxMishaps
      /\ cache' = EmptyState /\ cache'.lastScannedBlock = None /\ cache'.requests = {}
      /\ UNCHANGED <<chainVars, now, remaining, expired, shortfalls, postVars>>
    BY DEF LoseCache, EmptyState
<1>2. TypeOK'
    <2>1. mishaps' \in 0..MaxMishaps /\ lost' \in 0..mishaps'
        BY <1>0, <1>1, BoundsAssumption DEF TypeOK
    <2>2. cache' \in States
        BY <1>1 DEF EmptyState, States
    <2> QED BY <1>0, <1>1, <2>1, <2>2 DEF TypeOK, Made
<1>3. PartialsPlace' /\ Made' = Made
    BY <1>0, <1>1, ChainStill
<1>4. WindowPlace' /\ RunPlace' /\ CoverPlace'
    BY <1>0, <1>1, <1>3 DEF WindowPlace, RunPlace, CoverPlace, OpenReadsWatched, IsExpired, Deadline
<1>5. ASSUME NEW i \in Reads PROVE Accounted(i)' /\ AlertPlace(i)'
    <2>0. AlertPlace(i)
        BY <1>0
    <2>1. /\ Justified(i)' <=> Justified(i)
          /\ IsExpired(i, now)' <=> IsExpired(i, now)
        BY <1>1, ChainStill DEF Justified, IsExpired, Deadline
    <2>2. AlertPlace(i)'
        BY <1>0, <1>1, <1>3, <2>0, <2>1 DEF AlertPlace
    <2> QED BY <1>1, <2>2 DEF Accounted
<1> QED BY <1>2, <1>3, <1>4, <1>5 DEF MonitorInv

LEMMA MonitorInvStep == MonitorInv /\ [Next]_vars => MonitorInv'
<1> SUFFICES ASSUME MonitorInv, [Next]_vars PROVE MonitorInv'
    OBVIOUS
<1>1. CASE UNCHANGED vars
    <2>1. PartialsPlace' /\ Made' = Made
        BY <1>1, ChainStill DEF MonitorInv
    <2>2. TypeOK'
        BY <1>1, <2>1 DEF MonitorInv, TypeOK
    <2>3. WindowPlace' /\ RunPlace' /\ CoverPlace'
        BY <1>1 DEF MonitorInv, WindowPlace, RunPlace, CoverPlace, OpenReadsWatched, Watched, Open,
                    Sole, Made, IsExpired, Deadline
    <2>4. \A i \in Reads : Accounted(i)' /\ AlertPlace(i)'
        BY <1>1 DEF MonitorInv, Accounted, AlertPlace, Justified, Hopeless, Reached, Groups,
                    Made, IsExpired, Deadline
    <2> QED BY <2>1, <2>2, <2>3, <2>4 DEF MonitorInv
<1> QED BY <1>1, ChainKeeps, StartRunKeeps, SweepKeeps, IngestKeeps, AlertKeeps, SaveKeeps,
           BreakKeeps, LoseCacheKeeps DEF Next, Progress

------------------------------------------------------------------------------
(* The theorems. *)

LEMMA MonitorInvariant == Spec => []MonitorInv
BY MonitorInvInit, MonitorInvStep, PTL DEF Spec

\* Every variable keeps its type, however long the chain and the runs.
THEOREM TypeCorrect == Spec => []TypeOK
<1>1. MonitorInv => TypeOK
    BY DEF MonitorInv
<1> QED BY <1>1, MonitorInvariant, PTL

\* Whatever runs fail or are killed and whichever caches are lost, the file holds every
\* read that was open at the last block scanned.
THEOREM NoReadIsMissed == Spec => []OpenReadsWatched
<1>1. MonitorInv => OpenReadsWatched
    BY DEF MonitorInv, CoverPlace
<1> QED BY <1>1, MonitorInvariant, PTL

\* No alert is false: its request is past its deadline, and the rounds in which the keeper
\* has the threshold for it were overtaken by a newer one that serves it too, unless the
\* keeper's flag was still down, with its list full, when the run asked.
THEOREM NoFalseAlert == Spec => []AlertsAreTrue
<1>1. ASSUME MonitorInv PROVE AlertsAreTrue
    <2> SUFFICES ASSUME NEW i \in Made, alerts[i] > 0
                 PROVE  IsExpired(i, head) /\ Justified(i)
        BY DEF AlertsAreTrue, Justified, Hopeless
    <2>1. /\ TypeOK /\ now <= head /\ i \in Reads /\ now \in Nat /\ head \in Nat
          /\ log[i].block \in Nat
        BY <1>1, MonitorFacts DEF MonitorInv, WindowPlace
    <2>2. IsExpired(i, now) /\ Justified(i)
        BY <1>1, <2>1 DEF MonitorInv, AlertPlace
    <2> QED BY <2>1, <2>2 DEF IsExpired, Deadline
<1> QED BY <1>1, MonitorInvariant, PTL

\* A shortfall is posted once, and once more for every mishap at most.
THEOREM FewRepeats == Spec => []RepeatsOnlyAfterMishap
<1>1. MonitorInv => RepeatsOnlyAfterMishap
    BY DEF MonitorInv, AlertPlace, RepeatsOnlyAfterMishap
<1> QED BY <1>1, MonitorInvariant, PTL

\* Of the run's steps only the save takes a request out of the file.
LEMMA OnlySaveDrops ==
    ASSUME MonitorInv, Next, lost' = lost, cache'.requests # cache.requests
    PROVE  Save
<1>0. lost \in Nat /\ lost + 1 # lost
    <2>1. lost \in Nat
        BY MonitorFacts DEF MonitorInv, TypeOK
    <2> QED BY <2>1
<1>1. ~LoseCache
    BY <1>0 DEF LoseCache
<1>2. ~Chain
    BY ChainFrame
<1> QED BY <1>1, <1>2 DEF Next, Progress, StartRun, Ingest, Alert, Sweep, SweepLater, RunThrows,
                          RunKilledAfterPost

\* No failure of the keeper, of the RPC or of Slack drops a request: one that leaves
\* the file met its threshold or was alerted.
THEOREM NothingIsDropped == Spec => LeavesOnlyResolved
<1> DEFINE Kept ==
        lost' = lost => \A i \in cache.requests \ cache'.requests : Reached(i) \/ alerts[i] > 0
<1>1. ASSUME MonitorInv, Next PROVE Kept
    <2> SUFFICES ASSUME lost' = lost, NEW i \in cache.requests, i \notin cache'.requests
                 PROVE  Reached(i) \/ alerts[i] > 0
        OBVIOUS
    <2>1. Save
        BY <1>1, OnlySaveDrops
    <2>2. at = "save" /\ i \notin remaining
        BY <2>1 DEF Save
    <2>3. i \in Reads /\ expired = {}
        BY <1>1, <2>2, MonitorFacts DEF MonitorInv, RunPlace
    <2>4. Accounted(i) /\ AlertPlace(i)
        BY <1>1, <2>3 DEF MonitorInv
    <2> QED BY <2>2, <2>3, <2>4 DEF Accounted, AlertPlace
<1>2. MonitorInv /\ [Next]_vars => [Kept]_vars
    <2> HIDE DEF Kept
    <2> QED BY <1>1
<1>3. Spec => [][Kept]_vars
    BY <1>2, MonitorInvariant, PTL DEF Spec
<1> QED BY <1>3 DEF LeavesOnlyResolved

==============================================================================
