-------------------------- MODULE VaultAccessProofs --------------------------
(***************************************************************************)
(* CallInv is inductive, for every committee, threshold, fee and timeout   *)
(* the assumptions of VaultAccess allow; the safety properties follow.     *)
(***************************************************************************)
EXTENDS VaultAccess, FiniteSetTheorems, WellFoundedInduction, TLAPS

\* A set of validators is finite and its size a natural number.
LEMMA Committees ==
    ASSUME NEW S \in SUBSET Validators
    PROVE  IsFiniteSet(S) /\ Cardinality(S) \in Nat
BY CommitteeAssumption, FS_Subset, FS_CardinalityType

\* The effective threshold of a round is a natural number.
LEMMA ThresholdType ==
    ASSUME NEW r \in Rounds
    PROVE  ThresholdAt(r) \in Nat
<1>1. Cardinality(Members[r]) \in Nat
    BY Committees, CommitteeAssumption
<1>2. Cardinality(Members[r]) * RatioNum \in Nat
    BY <1>1, RatioAssumption
<1>3. \A a \in Nat, b \in Nat \ {0} : CeilDiv(a, b) \in Nat
    BY DEF CeilDiv
<1>4. CeilDiv(Cardinality(Members[r]) * RatioNum, RatioDen) \in Nat
    BY <1>2, <1>3, RatioAssumption
<1>5. Threshold[r] \in Nat
    BY CommitteeAssumption
<1> QED BY <1>4, <1>5 DEF ThresholdAt, MaxOf

\* A non-empty set of rounds has a greatest element: the sets of rounds above its
\* members have a smallest one, and it is empty.
LEMMA NewestRound ==
    ASSUME NEW S \in SUBSET Rounds, S # {}
    PROVE  /\ Max(S) \in S
           /\ \A r \in S : r <= Max(S)
<1> DEFINE Above(r) == {q \in S : q > r}
           T == {Above(r) : r \in S}
           R == StrictSubsetOrdering(S)
<1>1. IsFiniteSet(S)
    BY FS_Subset, RoundsAssumption
<1>2. T \subseteq FiniteSubsetsOf(S) /\ T # {}
    <2> SUFFICES ASSUME NEW r \in S PROVE Above(r) \in FiniteSubsetsOf(S)
        OBVIOUS
    <2>1. Above(r) \in SUBSET S
        OBVIOUS
    <2> QED BY <1>1, <2>1, FS_Subset DEF FiniteSubsetsOf
<1>3. PICK x \in T : \A y \in T : ~(<<y, x>> \in R)
    <2> HIDE DEF T, R
    <2>1. IsWellFoundedOn(R, FiniteSubsetsOf(S))
        BY FS_StrictSubsetOrderingWellFounded DEF R
    <2> QED BY <1>2, <2>1, WFMin
<1>4. PICK m \in S : x = Above(m)
    BY <1>3
<1>5. Above(m) = {}
    <2> SUFFICES ASSUME NEW q \in Above(m) PROVE FALSE
        OBVIOUS
    <2>0. S \subseteq Int /\ q \in S /\ q > m
        BY RoundsAssumption
    <2>1. Above(q) \subseteq Above(m)
        <3> SUFFICES ASSUME NEW z \in S, z > q PROVE z > m
            OBVIOUS
        <3> QED BY <2>0
    <2>2. q \in Above(m) /\ q \notin Above(q)
        BY <2>0
    <2>3. Above(q) # Above(m)
        <3> HIDE DEF Above
        <3> QED BY <2>2
    <2>4. <<Above(q), Above(m)>> \in R
        <3>1. Above(q) \in SUBSET S /\ Above(m) \in SUBSET S
            OBVIOUS
        <3> HIDE DEF Above
        <3> QED BY <2>1, <2>3, <3>1 DEF StrictSubsetOrdering
    <2>5. Above(q) \in T
        BY <2>0
    <2> HIDE DEF Above, T, R
    <2> QED BY <1>3, <1>4, <2>4, <2>5
<1>6. \A r \in S : m >= r
    BY <1>5, RoundsAssumption
<1>7. \E n \in S : \A r \in S : n >= r
    BY <1>6
<1> QED BY <1>7, RoundsAssumption DEF Max

------------------------------------------------------------------------------
(* The vocabulary of the invariant and of the actions' frames, which every step *)
(* below needs.                                                                 *)
USE DEF CallInv, TypeOK, PinPlace, GroupPlace, ShortagePlace, KeyPlace, ReadPlace,
        ResultPlace, RefusalsAreFree, ResultCombines, NoReadOfEmptyVault, KeyLifetime, TimeoutIsShortage,
        WakesWithinBudget, ReportsOnce, Shortage
USE DEF Polling, Ended, Places, Outcomes, Versions, Calls, CallOK, Groups, Results
USE DEF vars, chainVars, keeperVars, timeVars, pollVars, dataVars, Goto
USE VaultAssumption, NoneAssumption, MoneyAssumption, TimeAssumption

\* A call that has not begun satisfies the invariant.
LEMMA CallInvInit == Init => CallInv
BY DEF Init, EarlierReads, BucketKeys

\* Nothing the chain, the DKG or the keepers do disturbs it: fees are debited only
\* when the wallet holds them, and buckets only grow.
LEMMA EnvironmentStep == CallInv /\ Environment => CallInv'
<1> SUFFICES ASSUME CallInv, Environment PROVE CallInv'
    OBVIOUS
<1>1. CASE UpdateVault BY <1>1 DEF UpdateVault
<1>2. CASE ChangeFee BY <1>2 DEF ChangeFee
<1>3. CASE RollOver
    <2>1. requested' \subseteq BucketKeys
        BY <1>3 DEF RollOver, BucketKeys
    <2> QED BY <1>3, <2>1 DEF RollOver
<1>4. CASE MineRead
    <2>1. balance' \in Nat
        BY <1>4 DEF MineRead
    <2>2. requested' \subseteq BucketKeys
        BY <1>4 DEF MineRead, BucketKeys
    <2> QED BY <1>4, <2>1, <2>2 DEF MineRead
<1>5. CASE RevertRead BY <1>5 DEF RevertRead
<1>6. CASE Tick BY <1>6 DEF Tick
<1>7. ASSUME NEW v \in Validators, NEW b \in BucketKeys, SubmitPartial(v, b)
      PROVE  CallInv'
    <2>1. \A k \in BucketKeys : buckets[k] \subseteq buckets'[k]
        BY <1>7 DEF SubmitPartial
    <2>2. buckets' \in [BucketKeys -> SUBSET Validators]
        BY <1>7 DEF SubmitPartial
    <2>3. group # None => <<group.round, pinned>> \in BucketKeys
        BY DEF BucketKeys
    <2>4. result # None => <<result.round, pinned>> \in BucketKeys
        BY DEF BucketKeys
    <2>5. UNCHANGED <<chainVars, requested, timeVars, pollVars, dataVars, pc, outcome>>
        BY <1>7 DEF SubmitPartial
    <2>6. GroupPlace'
        BY <2>1, <2>3, <2>5
    <2>7. ResultCombines'
        BY <2>1, <2>4, <2>5
    <2>8. ReportsOnce'
        <3>1. \A r \in Rounds : pinned # None => <<r, pinned>> \in BucketKeys
            BY DEF BucketKeys
        <3>2. \A r \in Rounds : pinned # None =>
                  buckets[<<r, pinned>>] \subseteq buckets'[<<r, pinned>>]
            BY <2>1, <3>1
        <3>3. UNCHANGED <<reports, call, pinned>>
            BY <2>5
        <3> QED BY <3>2, <3>3
    <2> QED BY <2>2, <2>5, <2>6, <2>7, <2>8
<1> QED BY <1>1, <1>2, <1>3, <1>4, <1>5, <1>6, <1>7 DEF Environment

------------------------------------------------------------------------------
(* The client's steps that need more than their own definition. *)

LEMMA QueryFeeStep == CallInv /\ QueryFee => CallInv'
<1> SUFFICES ASSUME CallInv, QueryFee PROVE CallInv'
    OBVIOUS
<1>1. fee' \in Nat
    BY DEF QueryFee
<1> QED BY <1>1 DEF QueryFee, Settle

LEMMA SeedNeededStep == CallInv /\ SeedNeeded => CallInv'
<1> SUFFICES ASSUME CallInv, SeedNeeded PROVE CallInv'
    OBVIOUS
<1>1. lastNeeded' \in Nat
    BY ThresholdType DEF SeedNeeded
<1> QED BY <1>1 DEF SeedNeeded

LEMMA StartPollStep == CallInv /\ StartPoll => CallInv'
<1> SUFFICES ASSUME CallInv, StartPoll PROVE CallInv'
    OBVIOUS
<1>1. CASE Expired
    <2>1. elapsed = Timeout
        BY <1>1 DEF Expired
    <2> QED BY <1>1, <2>1 DEF StartPoll, Settle
<1>2. CASE ~Expired BY <1>2 DEF StartPoll
<1> QED BY <1>1, <1>2

\* The bucket looked at is one of the keeper's, for the pinned ciphertext.
LEMMA QueryAnswerStep == CallInv /\ QueryAnswer => CallInv'
<1> SUFFICES ASSUME CallInv, QueryAnswer PROVE CallInv'
    OBVIOUS
<1>1. CASE Matching = {} BY <1>1 DEF QueryAnswer
<1>2. CASE Matching # {}
    <2>1. PICK met \in BOOLEAN : group' = Selected(met)
        BY <1>2 DEF QueryAnswer
    <2>2. Max(Matching) \in Matching
        BY <1>2, NewestRound DEF Matching
    <2>3. pinned \in Ciphertexts
        BY DEF QueryAnswer
    <2>4. /\ group'.round \in Rounds
          /\ group'.submissions = buckets[<<group'.round, pinned>>]
          /\ group'.submissions # {}
          /\ group'.submissions \in SUBSET Validators
          /\ group' \in Groups
        BY <2>1, <2>2, <2>3 DEF Selected, Matching, BucketKeys
    <2>5. Cardinality(group'.submissions) \in Nat
        BY <2>4, Committees
    <2>6. /\ lastSeen' = Cardinality(group'.submissions)
          /\ pc' = "threshold"
          /\ UNCHANGED <<chainVars, keeperVars, timeVars, dataVars, needed, trustCache,
                         reports, lastNeeded, outcome>>
        BY <1>2 DEF QueryAnswer
    <2>7. group' # None
        BY <2>4
    <2>8. TypeOK'
        BY <2>4, <2>5, <2>6
    <2>9. GroupPlace'
        BY <2>4, <2>6, <2>7
    <2>10. pc = "query"
        BY DEF QueryAnswer
    <2>11. PinPlace' /\ ShortagePlace' /\ KeyPlace'
        BY <2>3, <2>6, <2>10
    <2>12. ResultCombines' /\ NoReadOfEmptyVault' /\ KeyLifetime'
        BY <2>6, <2>10
    <2>13. TimeoutIsShortage' /\ WakesWithinBudget' /\ ReportsOnce'
        BY <2>6, <2>10
    <2>14. ReadPlace' /\ ResultPlace' /\ RefusalsAreFree'
        BY <2>6, <2>10
    <2> QED BY <2>8, <2>9, <2>11, <2>12, <2>13, <2>14
<1> QED BY <1>1, <1>2

\* The verdict on a snapshot: what goes back to the loop is a shortage.
LEMMA EvaluateGroupStep == CallInv /\ EvaluateGroup => CallInv'
<1> SUFFICES ASSUME CallInv, EvaluateGroup PROVE CallInv'
    OBVIOUS
<1>1. group \in Groups /\ group # None
    BY DEF EvaluateGroup
<1>2. ThresholdAt(group.round) \in Nat /\ Cardinality(group.submissions) \in Nat
    BY <1>1, ThresholdType, Committees
<1>3. CASE needed' = ThresholdAt(group.round) /\ lastNeeded' = needed' /\ UNCHANGED key
    <2>1. TypeOK'
        BY <1>2, <1>3 DEF EvaluateGroup, Settle
    <2>2. ShortagePlace'
        BY <1>1, <1>2, <1>3 DEF EvaluateGroup, Settle
    <2> QED BY <1>1, <1>3, <2>1, <2>2 DEF EvaluateGroup, Settle
<1>4. CASE Settle("restError") /\ UNCHANGED <<needed, lastNeeded>>
    BY <1>4 DEF EvaluateGroup, Settle
<1> QED BY <1>3, <1>4 DEF EvaluateGroup

\* What the filter returns is a part of the trusted part of the snapshot, of the
\* size of the round's threshold.
LEMMA FilterStep == CallInv /\ FilterSubmissions => CallInv'
<1> SUFFICES ASSUME CallInv, FilterSubmissions PROVE CallInv'
    OBVIOUS
<1>1. group \in Groups /\ group # None /\ pc = "filter"
    BY DEF FilterSubmissions
<1>2. Admitted \in SUBSET Validators /\ Admitted \subseteq group.submissions
    BY <1>1 DEF Admitted
<1>3. Cardinality(Admitted) \in Nat
    BY <1>2, Committees
<1>4. /\ reports' \in [Reporters -> Nat]
      /\ ReportsOnce'
    <2>1. /\ reports' = [k \in Reporters |->
                            IF k \in Unreported THEN reports[k] + 1 ELSE reports[k]]
          /\ call' = call /\ buckets' = buckets /\ pinned' = pinned
        BY DEF FilterSubmissions
    <2>2. ASSUME NEW k \in Reporters
          PROVE  /\ reports'[k] \in Nat
                 /\ reports'[k] > 0 =>
                        /\ reports'[k] = 1
                        /\ call.attested /\ pinned # None
                        /\ \E r \in Rounds, v \in Validators :
                            /\ k = Reporter(r, v)
                            /\ v \in buckets[<<r, pinned>>] \ Trusted[r]
        <3>1. CASE k \in Unreported
            <4>1. reports[k] = 0 /\ reports'[k] = 1
                BY <2>1, <3>1 DEF Unreported
            <4>2. PICK v \in group.submissions \ Admitted : k = Reporter(group.round, v)
                BY <3>1 DEF Unreported
            <4>3. call.attested /\ v \notin Trusted[group.round]
                BY <4>2 DEF Admitted
            <4>4. v \in Validators /\ group.round \in Rounds
                BY <1>1, <4>2 DEF Groups
            <4>5. v \in buckets[<<group.round, pinned>>]
                BY <1>1, <4>2 DEF CallInv, GroupPlace
            <4>6. pinned # None
                BY <1>1 DEF CallInv, PinPlace
            <4> QED BY <4>1, <4>2, <4>3, <4>4, <4>5, <4>6
        <3>2. CASE k \notin Unreported
            BY <2>1, <3>2 DEF CallInv, TypeOK, ReportsOnce
        <3> QED BY <3>1, <3>2
    <2> QED BY <2>1, <2>2 DEF ReportsOnce
<1>5. CASE Cardinality(Admitted) >= needed /\ pc' = "decrypt"
    <2>1. PICK s \in kSubset(needed, Admitted) :
              result' = [round |-> group.round, submissions |-> s]
        BY <1>3, <1>5 DEF FilterSubmissions
    <2>2. s \subseteq Admitted /\ Cardinality(s) = ThresholdAt(group.round)
        BY <1>1 DEF kSubset
    <2>3. result' \in Results
        BY <1>1, <1>2, <2>1, <2>2
    <2>4. ResultCombines'
        BY <1>1, <1>2, <2>1, <2>2 DEF FilterSubmissions, Admitted
    <2> QED BY <1>3, <1>4, <1>5, <2>3, <2>4 DEF FilterSubmissions
<1>6. CASE Cardinality(Admitted) < needed /\ pc' = "wait"
    <2>1. lastSeen' = Cardinality(Admitted) /\ result' = result
        BY <1>3, <1>6 DEF FilterSubmissions
    <2>2. ShortagePlace'
        BY <1>1, <1>3, <1>6, <2>1 DEF FilterSubmissions
    <2> QED BY <1>1, <1>3, <1>4, <1>6, <2>1, <2>2 DEF FilterSubmissions
<1> QED BY <1>3, <1>5, <1>6 DEF FilterSubmissions

LEMMA StartWaitStep == CallInv /\ StartWait => CallInv'
<1> SUFFICES ASSUME CallInv, StartWait PROVE CallInv'
    OBVIOUS
<1>1. CASE Expired /\ Settle("timeout") /\ UNCHANGED <<interval, wakeAt>>
    <2>1. elapsed = Timeout
        BY <1>1 DEF Expired
    <2> QED BY <1>1, <2>1 DEF StartWait, Settle
<1>2. CASE ~Expired /\ Goto("sleep") /\ UNCHANGED key
    <2>1. wakeAt' \in Nat /\ wakeAt' <= Timeout
        BY <1>2 DEF StartWait, Expired, Clamped
    <2>2. interval' \in Nat \ {0}
        BY <1>2 DEF StartWait, NextInterval
    <2> QED BY <1>2, <2>1, <2>2 DEF StartWait
<1> QED BY <1>1, <1>2 DEF StartWait

------------------------------------------------------------------------------
LEMMA ClientStep == CallInv /\ Client => CallInv'
<1> SUFFICES ASSUME CallInv, Client PROVE CallInv'
    OBVIOUS
<1>1. CASE Begin BY <1>1 DEF Begin, ThrowEarly
<1>2. CASE GetGlobalPubKey BY <1>2 DEF GetGlobalPubKey, ThrowEarly
<1>3. CASE Preflight BY <1>3 DEF Preflight, Settle
<1>4. CASE QueryFee BY <1>4, QueryFeeStep
<1>5. CASE PreflightBalance BY <1>5 DEF PreflightBalance, Settle
<1>6. CASE SubmitRead BY <1>6 DEF SubmitRead, Settle
<1>7. CASE AwaitReceipt BY <1>7 DEF AwaitReceipt, Settle
<1>8. CASE StartCollect BY <1>8 DEF StartCollect, Settle
<1>9. CASE SeedNeeded BY <1>9, SeedNeededStep
<1>10. CASE StartPoll BY <1>10, StartPollStep
<1>11. CASE QueryAnswer BY <1>11, QueryAnswerStep
<1>12. CASE QueryError BY <1>12 DEF QueryError
<1>13. CASE EvaluateGroup BY <1>13, EvaluateGroupStep
<1>14. CASE LoadTrustSet BY <1>14 DEF LoadTrustSet, Settle
<1>15. CASE FilterSubmissions BY <1>15, FilterStep
<1>16. CASE StartWait BY <1>16, StartWaitStep
<1>17. CASE WakeUp BY <1>17 DEF WakeUp
<1>18. CASE Decrypt BY <1>18 DEF Decrypt, Settle
<1> QED BY <1>1, <1>2, <1>3, <1>4, <1>5, <1>6, <1>7, <1>8, <1>9, <1>10, <1>11,
           <1>12, <1>13, <1>14, <1>15, <1>16, <1>17, <1>18 DEF Client

LEMMA CallInvStep == CallInv /\ [Next]_vars => CallInv'
<1>1. CallInv /\ (Rest \/ UNCHANGED vars) => CallInv'
    BY DEF Rest
<1> QED BY <1>1, ClientStep, EnvironmentStep DEF Next

------------------------------------------------------------------------------
(* The steps the two action properties are about. *)

\* Only the preflight and a direct collectPartials pin, and neither has a pin yet.
LEMMA PinStep == CallInv /\ [Next]_vars => (pinned # None => pinned' = pinned)
<1> SUFFICES ASSUME CallInv, [Next]_vars, pinned # None PROVE pinned' = pinned
    OBVIOUS
<1>1. CASE Environment
    BY <1>1 DEF Environment, UpdateVault, ChangeFee, RollOver, MineRead, RevertRead,
                Tick, SubmitPartial
<1>2. CASE Begin \/ GetGlobalPubKey \/ QueryFee \/ PreflightBalance \/ SubmitRead \/ AwaitReceipt
    BY <1>2 DEF Begin, GetGlobalPubKey, QueryFee, PreflightBalance, SubmitRead, AwaitReceipt
<1>3. CASE Preflight BY <1>3 DEF Preflight
<1>4. CASE StartCollect BY <1>4 DEF StartCollect
<1>5. CASE SeedNeeded \/ StartPoll \/ QueryAnswer \/ QueryError \/ EvaluateGroup \/ LoadTrustSet
    BY <1>5 DEF SeedNeeded, StartPoll, QueryAnswer, QueryError, EvaluateGroup, LoadTrustSet
<1>6. CASE FilterSubmissions \/ StartWait \/ WakeUp \/ Decrypt
    BY <1>6 DEF FilterSubmissions, StartWait, WakeUp, Decrypt
<1>7. CASE Rest \/ UNCHANGED vars BY <1>7 DEF Rest
<1> QED BY <1>1, <1>2, <1>3, <1>4, <1>5, <1>6, <1>7 DEF Next, Client

\* A new snapshot comes from the newest matching round; the round of the one before
\* still matches, because buckets never lose a submission.
LEMMA RoundStep ==
    CallInv /\ [Next]_vars => [group # None => group'.round >= group.round]_group
<1> SUFFICES ASSUME CallInv, [Next]_vars, group' # group, group # None
             PROVE  group'.round >= group.round
    OBVIOUS
<1>1. QueryAnswer
    BY DEF Next, Client, Environment, UpdateVault, ChangeFee, RollOver, MineRead, RevertRead,
           Tick, SubmitPartial, Begin, GetGlobalPubKey, Preflight, QueryFee, PreflightBalance,
           SubmitRead, AwaitReceipt, StartCollect, SeedNeeded, StartPoll, QueryError,
           EvaluateGroup, LoadTrustSet, FilterSubmissions, StartWait, WakeUp, Decrypt, Rest
<1>2. group.round \in Matching
    BY DEF Matching
<1>3. PICK met \in BOOLEAN : group' = Selected(met)
    BY <1>1 DEF QueryAnswer
<1>4. Max(Matching) \in Matching /\ group.round <= Max(Matching)
    BY <1>2, NewestRound DEF Matching
<1>5. group'.round = Max(Matching)
    BY <1>3 DEF Selected
<1> QED BY <1>2, <1>4, <1>5, RoundsAssumption DEF Matching

------------------------------------------------------------------------------
(* The refinement: what each step of a call is to ThresholdAccess. *)

\* What the abstract call consists of stands still.
Still == UNCHANGED <<vault, buckets, tx, pinned, result, outcome>>

LEMMA StillIsStutter == Still => UNCHANGED Promise!vars
BY DEF Still, Promise!vars, Phase

\* A step that only ends the call, in anything but a key, refuses.
LEMMA ThrowIsRefusal ==
    ASSUME CallInv, pc \notin Ended, outcome' \in Outcomes \ {"none", "key"},
           tx = "success" <=> tx' = "success", UNCHANGED <<vault, buckets, pinned, result>>
    PROVE  Promise!Refuse
BY DEF Promise!Refuse, Phase

\* The chain and the keepers write, pay, produce, or do what is not spoken of.
LEMMA EnvironmentRefines == CallInv /\ Environment => [Promise!Next]_(Promise!vars)
<1> SUFFICES ASSUME CallInv, Environment PROVE [Promise!Next]_(Promise!vars)
    OBVIOUS
<1>1. CASE UpdateVault
    <2>1. Promise!Write
        BY <1>1 DEF UpdateVault, Promise!Write, Phase
    <2> QED BY <2>1 DEF Promise!Next
<1>2. CASE ChangeFee \/ RollOver \/ Tick
    <2>1. Still
        BY <1>2 DEF ChangeFee, RollOver, Tick, Still
    <2> QED BY <2>1, StillIsStutter
<1>3. CASE MineRead
    <2>1. Promise!Pay
        BY <1>3 DEF MineRead, Promise!Pay, Phase
    <2> QED BY <2>1 DEF Promise!Next
<1>4. CASE RevertRead
    BY <1>4 DEF RevertRead, Promise!vars, Phase
<1>5. ASSUME NEW v \in Validators, NEW b \in BucketKeys, SubmitPartial(v, b)
      PROVE  [Promise!Next]_(Promise!vars)
    <2>1. Promise!Produce
        BY <1>5 DEF SubmitPartial, Promise!Produce, Phase, BucketKeys
    <2> QED BY <2>1 DEF Promise!Next
<1> QED BY <1>1, <1>2, <1>3, <1>4, <1>5 DEF Environment

\* Sizes are the same on both sides.
LEMMA SameSize == \A S : Promise!Cardinality(S) = Cardinality(S)
BY DEF Promise!Cardinality, Cardinality

\* What the filter returns is put together as the promise says.
LEMMA FilterRefines == CallInv /\ FilterSubmissions => [Promise!Next]_(Promise!vars)
<1> SUFFICES ASSUME CallInv, FilterSubmissions PROVE [Promise!Next]_(Promise!vars)
    OBVIOUS
<1>1. group \in Groups /\ group # None /\ pc = "filter" /\ needed = ThresholdAt(group.round)
    BY DEF FilterSubmissions
<1>2. UNCHANGED <<vault, buckets, tx, pinned, outcome>>
    BY DEF FilterSubmissions
<1>3. CASE UNCHANGED result
    <2>1. Still
        BY <1>2, <1>3 DEF Still
    <2> QED BY <2>1, StillIsStutter
<1>4. CASE Cardinality(Admitted) >= needed /\ pc' = "decrypt"
    <2>1. Admitted \subseteq group.submissions /\ Admitted \in SUBSET Validators
        BY <1>1 DEF Admitted
    <2>2. Cardinality(Admitted) \in Nat
        BY <2>1, Committees
    <2>3. PICK s \in kSubset(needed, Admitted) :
              result' = [round |-> group.round, submissions |-> s]
        BY <1>4, <2>2 DEF FilterSubmissions
    <2>4. s \in SUBSET buckets[<<group.round, pinned>>] /\ Cardinality(s) = needed
        BY <1>1, <2>1, <2>3 DEF kSubset
    <2>5. \E r \in Rounds : \E t \in SUBSET buckets[<<r, pinned>>] :
              /\ Cardinality(t) = [q \in Rounds |-> ThresholdAt(q)][r]
              /\ result' = [round |-> r, submissions |-> t]
        BY <1>1, <2>3, <2>4
    <2>6. outcome = "none" /\ tx = "success" /\ pinned # None /\ result = None
        BY <1>1
    <2>7. Phase = "open" /\ Phase' = "open"
        BY <1>2, <2>6 DEF Phase
    <2>8. Promise!Combine
        <3> HIDE DEF CallInv, Phase
        <3> QED BY <1>2, <2>5, <2>6, <2>7, SameSize DEF Promise!Combine
    <2> QED BY <2>8 DEF Promise!Next
<1> QED BY <1>3, <1>4 DEF FilterSubmissions

\* Only two steps of the client choose, one combines, one delivers; the others refuse
\* or are not spoken of.
LEMMA ClientRefines == CallInv /\ Client => [Promise!Next]_(Promise!vars)
<1> SUFFICES ASSUME CallInv, Client PROVE [Promise!Next]_(Promise!vars)
    OBVIOUS
<1> USE DEF Settle, ThrowEarly
<1>1. CASE Still
    BY <1>1, StillIsStutter
<1>2. CASE Promise!Refuse \/ Promise!Choose \/ Promise!Deliver
    BY <1>2 DEF Promise!Next
<1>3. CASE Begin \/ GetGlobalPubKey \/ QueryFee \/ PreflightBalance \/ AwaitReceipt
    <2>1. Still \/ Promise!Refuse
        BY <1>3, ThrowIsRefusal
           DEF Begin, GetGlobalPubKey, QueryFee, PreflightBalance, AwaitReceipt, Still
    <2> QED BY <1>1, <1>2, <2>1
<1>4. CASE Preflight
    <2>1. Promise!Choose \/ Promise!Refuse
        BY <1>4, ThrowIsRefusal DEF Preflight, Promise!Choose, Phase
    <2> QED BY <1>2, <2>1
<1>5. CASE SubmitRead
    <2>1. CASE outcome' = outcome
        BY <1>5, <2>1 DEF SubmitRead, Promise!vars, Phase
    <2>2. CASE outcome' # outcome
        <3>1. Promise!Refuse
            BY <1>5, <2>2, ThrowIsRefusal DEF SubmitRead
        <3> QED BY <1>2, <3>1
    <2> QED BY <2>1, <2>2
<1>6. CASE StartCollect
    <2>1. Still \/ Promise!Choose \/ Promise!Refuse
        BY <1>6, ThrowIsRefusal DEF StartCollect, Promise!Choose, Phase, Still
    <2> QED BY <1>1, <1>2, <2>1
<1>7. CASE SeedNeeded \/ StartPoll \/ QueryAnswer \/ QueryError \/ WakeUp
    <2>1. Still \/ Promise!Refuse
        BY <1>7, ThrowIsRefusal
           DEF SeedNeeded, StartPoll, QueryAnswer, QueryError, WakeUp, Still
    <2> QED BY <1>1, <1>2, <2>1
<1>8. CASE EvaluateGroup \/ LoadTrustSet \/ StartWait
    <2>1. Still \/ Promise!Refuse
        BY <1>8, ThrowIsRefusal DEF EvaluateGroup, LoadTrustSet, StartWait, Still
    <2> QED BY <1>1, <1>2, <2>1
<1>9. CASE FilterSubmissions
    BY <1>9, FilterRefines
<1>10. CASE Decrypt
    <2>1. Promise!Deliver \/ Promise!Refuse
        BY <1>10, ThrowIsRefusal DEF Decrypt, Promise!Deliver, Phase
    <2> QED BY <1>2, <2>1
<1> QED BY <1>3, <1>4, <1>5, <1>6, <1>7, <1>8, <1>9, <1>10 DEF Client

LEMMA PromiseStep == CallInv /\ [Next]_vars => [Promise!Next]_(Promise!vars)
<1>1. Rest \/ UNCHANGED vars => Still
    BY DEF Rest, Still
<1> QED BY <1>1, StillIsStutter, ClientRefines, EnvironmentRefines DEF Next

\* No vault holds anything the promise does not know, and no call starts paid.
LEMMA PromiseInit == Init => Promise!Init
BY DEF Init, Promise!Init, Phase, BucketKeys

------------------------------------------------------------------------------
(* The theorems. *)

HIDE DEF CallInv

\* The invariant holds of every reachable state.
THEOREM Invariance == Spec => []CallInv
BY CallInvInit, CallInvStep, PTL DEF Spec

\* Every variable keeps its type.
THEOREM TypeCorrect == Spec => []TypeOK
<1>1. CallInv => TypeOK
    BY DEF CallInv
<1> HIDE DEF TypeOK
<1> QED BY <1>1, Invariance, PTL

\* Whatever is written to the vault and however often the DKG rolls over during the
\* call, collectPartials returns exactly its bucket's own threshold of partials, all
\* submitted for the pinned ciphertext and, when asked, all attested.
THEOREM ResultsCombine == Spec => []ResultCombines
<1>1. CallInv => ResultCombines
    BY DEF CallInv
<1> HIDE DEF ResultCombines
<1> QED BY <1>1, Invariance, PTL

\* accessCDR never sends a read, and so never pays, for a vault it saw empty.
THEOREM NoReadOfEmpty == Spec => []NoReadOfEmptyVault
<1>1. CallInv => NoReadOfEmptyVault
    BY DEF CallInv
<1> HIDE DEF NoReadOfEmptyVault
<1> QED BY <1>1, Invariance, PTL

\* A call refused before its read is mined, or whose read reverts, costs no fee.
THEOREM RefusalsCostNothing == Spec => []RefusalsAreFree
<1>1. CallInv => RefusalsAreFree
    BY DEF CallInv
<1> HIDE DEF RefusalsAreFree
<1> QED BY <1>1, Invariance, PTL

\* A generated key is cleared on every way out of the try block, a caller's key on
\* none, and neither before the partials are decrypted.
THEOREM KeysLiveLongEnough == Spec => []KeyLifetime
<1>1. CallInv => KeyLifetime
    BY DEF CallInv
<1> HIDE DEF KeyLifetime
<1> QED BY <1>1, Invariance, PTL

\* A timeout comes at the deadline and reports a shortage; no sleep runs past the
\* deadline; a validator is reported at most once under each of its pids, and only for a
\* partial submitted in a round in which its attestation does not verify.
THEOREM PollLoopIsHonest ==
    Spec => [](TimeoutIsShortage /\ WakesWithinBudget /\ ReportsOnce)
<1>1. CallInv => TimeoutIsShortage /\ WakesWithinBudget /\ ReportsOnce
    BY DEF CallInv
<1> HIDE DEF TimeoutIsShortage, WakesWithinBudget, ReportsOnce
<1> QED BY <1>1, Invariance, PTL

\* The pinned ciphertext is pinned for good.
THEOREM PinnedOnce == Spec => OnePin
<1> HIDE DEF vars
<1> QED BY Invariance, PinStep, PTL DEF Spec, OnePin

\* The loop never falls back to an older round's bucket.
THEOREM RoundsAdvance == Spec => RoundsOnlyAdvance
<1> HIDE DEF vars
<1> QED BY Invariance, RoundStep, PTL DEF Spec, RoundsOnlyAdvance

\* Whatever the owner, the fee, the network and the keepers do, a call does what
\* ThresholdAccess promises: it settles on one ciphertext the vault held and hands out
\* its key only for a paid read and for as many of one round's partials as that round
\* asks for.
THEOREM Refinement == Spec => ImplementsThresholdAccess
<1> HIDE DEF vars
<1> QED BY Invariance, PromiseInit, PromiseStep, PTL
        DEF Spec, ImplementsThresholdAccess, Promise!Spec
==============================================================================
