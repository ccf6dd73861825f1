----------------------------- MODULE VaultAccess -----------------------------
(***************************************************************************)
(* One reader taking a data key out of a vault: Consumer.accessCDR, or     *)
(* Consumer.read followed by Consumer.collectPartials, against             *)
(*   - the CDR contract (the vault's ciphertext, the read fee),            *)
(*   - the DKG network, which may roll over to a later round at any time,  *)
(*   - the keeper's REST endpoint, whose buckets of partial decryptions    *)
(*     are indexed by (round, ciphertext).                                 *)
(* Every `await` of the code is a point where the environment may step.    *)
(*                                                                         *)
(* The keeper lists the submissions of a bucket in an order of its own;    *)
(* a bucket is modelled as the set of validators that have submitted, and  *)
(* "the first N of them" as some N of them.                                *)
(***************************************************************************)
EXTENDS Integers, FiniteSets, FiniteSetsExt

CONSTANTS
    Rounds,         \* DKG rounds, a set of naturals; they become active in order
    Ciphertexts,    \* values a written vault can hold
    Empty,          \* encryptedData of a vault never written
    Validators,     \* every validator of every round
    Members,        \* [Rounds -> SUBSET Validators]: the committee of a round
    Threshold,      \* [Rounds -> Nat]: the round's threshold, as the chain has it
    Pid,            \* [Rounds -> [Validators -> Nat]]: the pid of a validator in a round
    RatioNum, RatioDen,  \* minThresholdRatio = RatioNum / RatioDen (0 when unset)
    Trusted,        \* [Rounds -> SUBSET Validators]: attestations that verify
    Fees,           \* read fees the contract may ask
    Balances,       \* wallet balances at the start of the call
    Timeout,        \* timeoutMs
    IntervalFloor,  \* pollIntervalMs ?? minIntervalMs ?? 2000
    IntervalCeil,   \* pollIntervalMs ?? maxIntervalMs ?? Infinity
    None            \* no ciphertext, no bucket, no result

ASSUME RoundsAssumption ==
    /\ Rounds \subseteq Nat
    /\ Rounds # {}
    /\ IsFiniteSet(Rounds)

ASSUME CommitteeAssumption ==
    /\ IsFiniteSet(Validators)
    /\ Members \in [Rounds -> SUBSET Validators]
    /\ Trusted \in [Rounds -> SUBSET Validators]
    /\ Threshold \in [Rounds -> Nat]
    /\ Pid \in [Rounds -> [Validators -> Nat]]

\* The constructor of Observer refuses a ratio outside [0, 1].
ASSUME RatioAssumption ==
    /\ RatioNum \in Nat
    /\ RatioDen \in Nat \ {0}
    /\ RatioNum <= RatioDen

ASSUME VaultAssumption == Empty \notin Ciphertexts

ASSUME MoneyAssumption == Fees \subseteq Nat /\ Balances \subseteq Nat

\* collectPartials refuses a floor that is not positive or above the ceiling.
ASSUME TimeAssumption ==
    /\ Timeout \in Nat
    /\ IntervalFloor \in Nat \ {0}
    /\ IntervalCeil \in Nat
    /\ IntervalFloor <= IntervalCeil

VARIABLES
    \* --- the chain and the keeper
    vault,          \* the vault's encryptedData now
    readFee,        \* the contract's read fee now
    activeRound,    \* the active DKG round
    balance,        \* the wallet's balance
    tx,             \* the read transaction
    requested,      \* (round, ciphertext) pairs the keeper serves this reader
    buckets,        \* submissions of each (round, ciphertext)
    \* --- the call
    call,           \* its parameters
    pc,             \* the await it stands at
    outcome,        \* how it ended
    key,            \* the recipient private key's bytes
    pinned,         \* vaultCiphertext
    fee,            \* the fee read's value is set from
    group,          \* the last bucket snapshot selected
    needed,         \* sdkThreshold
    trustCache,     \* rounds trustSetByRound holds
    reports,        \* [Reporters -> Nat]: calls of onInvalidPartial
    lastSeen, lastNeeded,    \* what a timeout error would report
    result,         \* the partials collectPartials returned
    \* --- time, in the poll loop only
    elapsed,        \* Date.now() - (deadline - timeoutMs), capped at Timeout
    interval,       \* the adaptive backoff's next wait
    wakeAt          \* when the current sleep is over

chainVars  == <<vault, readFee, activeRound, balance, tx>>
keeperVars == <<requested, buckets>>
timeVars   == <<elapsed, interval, wakeAt>>
pollVars   == <<group, needed, trustCache, reports, lastSeen, lastNeeded>>
dataVars   == <<call, key, pinned, fee, result>>
vars == <<chainVars, keeperVars, timeVars, pollVars, dataVars, pc, outcome>>

Versions == Ciphertexts \cup {Empty}
BucketKeys == Rounds \X Ciphertexts

\* A submission names its validator and the pid it has in the round's committee; the
\* committee of the next round may give it the same pid or another one.
Reporter(r, v) == <<v, Pid[r][v]>>
Reporters == {Reporter(r, v) : r \in Rounds, v \in Validators}

Calls == [flow : {"access", "direct"},   \* accessCDR, or read then collectPartials
          ephemeral : BOOLEAN,           \* the key pair was generated by accessCDR
          attested : BOOLEAN]            \* attestationConfig was passed in

\* accessCDR makes a key pair of its own when it is given none; whoever calls
\* read and collectPartials directly brings one.
CallOK(c) == c.flow = "direct" => ~c.ephemeral

Groups == [round : Rounds, submissions : SUBSET Validators, thresholdMet : BOOLEAN]
Results == [round : Rounds, submissions : SUBSET Validators]

ASSUME NoneAssumption == None \notin Versions \cup Groups \cup Results

Ended == {"done", "failed"}
Polling == {"seed", "poll", "query", "threshold", "trust", "filter", "wait", "sleep"}

------------------------------------------------------------------------------
(* Pure parts of the code. *)

MaxOf(a, b) == IF a >= b THEN a ELSE b

CeilDiv(a, b) == (a + b - 1) \div b

\* Observer.getThresholdAt(r); participants of a round are its members.
ThresholdAt(r) ==
    MaxOf(Threshold[r], CeilDiv(Cardinality(Members[r]) * RatioNum, RatioDen))

\* The rounds of the non-empty buckets that match the pinned ciphertext.
Matching == {r \in Rounds : buckets[<<r, pinned>>] # {}}

\* Mutant: buckets of every ciphertext of the round are taken together.
SelectedAnyVersion(met) ==
    LET r == Max(Matching)
    IN  [round |-> r, submissions |-> UNION {buckets[<<r, c>>] : c \in Ciphertexts},
         thresholdMet |-> met]

\* Mutant: the sort is ascending.
SelectedOldest(met) ==
    LET r == Min(Matching)
    IN  [round |-> r, submissions |-> buckets[<<r, pinned>>], thresholdMet |-> met]

\* The bucket a reply of the keeper makes the loop look at; its thresholdMet
\* flag is the keeper's and may lag behind its own list.
Selected(met) ==
    LET r == Max(Matching)
    IN  [round |-> r, submissions |-> buckets[<<r, pinned>>], thresholdMet |-> met]

\* interval * 1.5, rounded down to the clock's unit, under the ceiling.
NextInterval(i) == IF i + (i \div 2) <= IntervalCeil THEN i + (i \div 2) ELSE IntervalCeil

\* The sleep is clamped to what is left of the budget.
Clamped(i) == IF i <= Timeout - elapsed THEN i ELSE Timeout - elapsed

\* Mutant: the comparison is strict.
ExpiredStrictly == elapsed > Timeout

Expired == elapsed >= Timeout

\* A key pair the caller brings may have served an earlier read, whose request
\* the keepers still hold; a generated one is new to them.
EarlierReads ==
    {{}} \cup (IF call.ephemeral THEN {} ELSE {{<<activeRound, c>>} : c \in Ciphertexts})

------------------------------------------------------------------------------
Init ==
    /\ vault \in Versions
    /\ readFee \in Fees
    /\ activeRound \in Rounds
    /\ balance \in Balances
    /\ tx = "none"
    /\ call \in {c \in Calls : CallOK(c)}
    /\ requested \in EarlierReads
    /\ buckets = [b \in BucketKeys |-> {}]
    /\ pc = "start"
    /\ outcome = "none"
    /\ key = "absent"
    /\ pinned = None
    /\ fee = 0
    /\ group = None
    /\ needed = 0
    /\ trustCache = {}
    /\ reports = [k \in Reporters |-> 0]
    /\ lastSeen = 0 /\ lastNeeded = 0
    /\ result = None
    /\ elapsed = 0 /\ interval = IntervalFloor /\ wakeAt = 0

------------------------------------------------------------------------------
(* The environment. *)

\* The owner of an updatable vault writes it (again).
UpdateVault ==
    /\ \E c \in Ciphertexts \ {vault} : vault' = c
    /\ UNCHANGED <<readFee, activeRound, balance, tx, keeperVars,
                   timeVars, pollVars, dataVars, pc, outcome>>

ChangeFee ==
    /\ tx \in {"none", "pending"}
    /\ \E f \in Fees \ {readFee} : readFee' = f
    /\ UNCHANGED <<vault, activeRound, balance, tx, keeperVars,
                   timeVars, pollVars, dataVars, pc, outcome>>

\* The next DKG round takes over; its committee serves the open requests again
\* or leaves them to the old one.
RollOver ==
    /\ \E r \in Rounds :
        /\ r > activeRound
        /\ activeRound' = r
        /\ requested' \in {requested,
                           requested \cup {<<r, b[2]>> : b \in requested}}
    /\ UNCHANGED <<vault, readFee, balance, tx, buckets,
                   timeVars, pollVars, dataVars, pc, outcome>>

\* The read is mined: it pays when its value is the fee asked now and the
\* read condition admits the reader, and the keepers get a request for the
\* ciphertext the vault holds at that block. A vault without one gets none.
MineRead ==
    /\ tx = "pending"
    /\ fee = readFee
    /\ balance >= fee
    /\ tx' = "success"
    /\ balance' = balance - fee
    /\ requested' = requested \cup
                      (IF vault = Empty THEN {} ELSE {<<activeRound, vault>>})
    /\ UNCHANGED <<vault, readFee, activeRound, buckets,
                   timeVars, pollVars, dataVars, pc, outcome>>

\* The read reverts: wrong fee, or the read condition says no.
RevertRead ==
    /\ tx = "pending"
    /\ tx' = "reverted"
    /\ UNCHANGED <<vault, readFee, activeRound, balance, keeperVars,
                   timeVars, pollVars, dataVars, pc, outcome>>

SubmitPartial(v, b) ==
    /\ b \in requested
    /\ v \in Members[b[1]] \ buckets[b]
    /\ buckets' = [buckets EXCEPT ![b] = @ \cup {v}]
    /\ UNCHANGED <<chainVars, requested, timeVars, pollVars, dataVars, pc, outcome>>

\* Time passes; it matters from collectPartials' deadline on.
Tick ==
    /\ pc \in Polling
    /\ elapsed < Timeout
    /\ elapsed' = elapsed + 1
    /\ UNCHANGED <<chainVars, keeperVars, interval, wakeAt, pollVars, dataVars, pc, outcome>>

------------------------------------------------------------------------------
(* accessCDR up to its read. *)

\* Mutant: no finally clause.
SettleKeepingKey(how) ==
    /\ outcome' = how
    /\ pc' = IF how = "key" THEN "done" ELSE "failed"
    /\ UNCHANGED key

\* The call throws (or returns) and, inside accessCDR's try block, the finally
\* clause clears a generated private key.
Settle(how) ==
    /\ outcome' = how
    /\ pc' = IF how = "key" THEN "done" ELSE "failed"
    /\ key' = IF call.ephemeral THEN "zeroed" ELSE key

\* A throw before the try block.
ThrowEarly(how) ==
    /\ outcome' = how
    /\ pc' = "failed"
    /\ UNCHANGED key

Goto(where) == pc' = where /\ UNCHANGED outcome

\* One key of the caller's pair is missing, or the pair is complete or made here;
\* the caller may have passed globalPubKey too.
Begin ==
    /\ pc = "start"
    /\ \/ /\ call.flow = "access"
          /\ key' = "live"
          /\ \E next \in {"globalKey", "preflight"} : Goto(next)
       \/ /\ call.flow = "access" /\ ~call.ephemeral
          /\ ThrowEarly("invalidParams")
       \/ /\ call.flow = "direct"
          /\ key' = "live"
          /\ Goto("fee")
    /\ UNCHANGED <<chainVars, keeperVars, timeVars, pollVars, call, pinned, fee, result>>

\* globalPubKey ?? await observer.getGlobalPubKey(), outside the try block.
GetGlobalPubKey ==
    /\ pc = "globalKey"
    /\ \/ Goto("preflight") /\ UNCHANGED key
       \/ ThrowEarly("restError")
    /\ UNCHANGED <<chainVars, keeperVars, timeVars, pollVars, call, pinned, fee, result>>

\* Mutant: accessCDR leaves the look at the vault to collectPartials.
PreflightLeftToCollect ==
    /\ pc = "preflight"
    /\ Goto("fee") /\ UNCHANGED <<key, pinned>>
    /\ UNCHANGED <<chainVars, keeperVars, timeVars, pollVars, call, fee, result>>

\* loadAndCheckVault, before any fee is paid.
Preflight ==
    /\ pc = "preflight"
    /\ \/ /\ vault # Empty
          /\ pinned' = vault
          /\ Goto("fee") /\ UNCHANGED key
       \/ vault = Empty /\ Settle("emptyVault") /\ UNCHANGED pinned
       \/ Settle("rpcError") /\ UNCHANGED pinned
    /\ UNCHANGED <<chainVars, keeperVars, timeVars, pollVars, call, fee, result>>

\* read: the fee is the contract's fee now, or feeOverride, which may be any.
QueryFee ==
    /\ pc = "fee"
    /\ \/ fee' \in Fees /\ Goto("balance") /\ UNCHANGED key
       \/ Settle("rpcError") /\ UNCHANGED fee
    /\ UNCHANGED <<chainVars, keeperVars, timeVars, pollVars, call, pinned, result>>

\* preflightBalance; a wallet without an address, or a client without
\* getBalance, skips it.
PreflightBalance ==
    /\ pc = "balance"
    /\ \/ Goto("submit") /\ UNCHANGED key
       \/ balance < fee /\ Settle("insufficientBalance")
       \/ Settle("rpcError")
    /\ UNCHANGED <<chainVars, keeperVars, timeVars, pollVars, call, pinned, fee, result>>

\* safeWriteContract: the read is in the mempool, or it throws, which it also does
\* when the answer to a submission that was accepted is lost.
SubmitRead ==
    /\ pc = "submit"
    /\ \/ /\ balance >= fee
          /\ tx' = "pending"
          /\ Goto("receipt") /\ UNCHANGED key
       \/ Settle("submitFailed") /\ tx' \in {"none"} \cup (IF balance >= fee THEN {"pending"} ELSE {})
    /\ UNCHANGED <<vault, readFee, activeRound, balance, keeperVars,
                   timeVars, pollVars, call, pinned, fee, result>>

\* Mutant: any receipt will do.
AwaitReceiptUnread ==
    /\ pc = "receipt"
    /\ \/ tx \in {"success", "reverted"} /\ Goto("collect") /\ UNCHANGED key
       \/ Settle("receiptTimeout")
    /\ UNCHANGED <<chainVars, keeperVars, timeVars, pollVars, call, pinned, fee, result>>

\* waitForReceiptResilient: a receipt of either kind, or none by its deadline.
AwaitReceipt ==
    /\ pc = "receipt"
    /\ \/ tx = "success" /\ Goto("collect") /\ UNCHANGED key
       \/ tx = "reverted" /\ Settle("reverted")
       \/ Settle("receiptTimeout")
    /\ UNCHANGED <<chainVars, keeperVars, timeVars, pollVars, call, pinned, fee, result>>

------------------------------------------------------------------------------
(* collectPartials. *)

\* Mutant: pinnedCiphertext is ignored and the vault read again.
StartCollectRereading ==
    /\ pc = "collect"
    /\ vault # Empty
    /\ pinned' = vault
    /\ Goto("seed") /\ UNCHANGED key
    /\ UNCHANGED <<chainVars, keeperVars, timeVars, pollVars, call, fee, result>>

\* The poll intervals do not pass validation, or they do; then the pin, when the
\* caller did not pass one.
StartCollect ==
    /\ pc = "collect"
    /\ \/ Settle("invalidParams") /\ UNCHANGED pinned
       \/ /\ pinned # None
          /\ Goto("seed") /\ UNCHANGED <<key, pinned>>
       \/ /\ pinned = None
          /\ \/ /\ vault # Empty
                /\ pinned' = vault
                /\ Goto("seed") /\ UNCHANGED key
             \/ vault = Empty /\ Settle("emptyVault") /\ UNCHANGED pinned
             \/ Settle("rpcError") /\ UNCHANGED pinned
    /\ UNCHANGED <<chainVars, keeperVars, timeVars, pollVars, call, fee, result>>

\* lastNeeded = await getThreshold().catch(() => 0), with the deadline running.
SeedNeeded ==
    /\ pc = "seed"
    /\ lastNeeded' \in {ThresholdAt(activeRound), 0}
    /\ Goto("poll")
    /\ UNCHANGED <<chainVars, keeperVars, timeVars, dataVars,
                   group, needed, trustCache, reports, lastSeen>>

\* The loop condition.
StartPoll ==
    /\ pc = "poll"
    /\ IF Expired THEN Settle("timeout") ELSE Goto("query") /\ UNCHANGED key
    /\ UNCHANGED <<chainVars, keeperVars, timeVars, pollVars, call, pinned, fee, result>>

\* queryCDRPartials answers with the buckets as they are now ...
QueryAnswer ==
    /\ pc = "query"
    /\ \/ /\ Matching = {}
          /\ Goto("wait")
          /\ UNCHANGED <<group, lastSeen>>
       \/ /\ Matching # {}
          /\ \E met \in BOOLEAN :
              /\ met => Cardinality(Selected(met).submissions) >= Threshold[Selected(met).round]
              /\ group' = Selected(met)
          /\ lastSeen' = Cardinality(group'.submissions)
          /\ Goto("threshold")
    /\ UNCHANGED <<chainVars, keeperVars, timeVars, dataVars,
                   needed, trustCache, reports, lastNeeded>>

\* ... or fails, and the loop goes on with no groups.
QueryError ==
    /\ pc = "query"
    /\ Goto("wait")
    /\ UNCHANGED <<chainVars, keeperVars, timeVars, pollVars, dataVars>>

\* Mutant: the bucket is measured against the active round's threshold.
EvaluateGroupByActiveRound ==
    /\ pc = "threshold"
    /\ needed' = ThresholdAt(activeRound)
    /\ lastNeeded' = needed'
    /\ IF Cardinality(group.submissions) >= needed' /\ group.thresholdMet
         THEN Goto(IF call.attested THEN "trust" ELSE "filter")
         ELSE Goto("wait")
    /\ UNCHANGED <<chainVars, keeperVars, timeVars, dataVars,
                   group, trustCache, reports, lastSeen>>

\* await getThresholdAt(group.round), which aborts the collection if it throws;
\* then the two exit conditions on the snapshot.
EvaluateGroup ==
    /\ pc = "threshold"
    /\ \/ /\ needed' = ThresholdAt(group.round)
          /\ lastNeeded' = needed'
          /\ IF Cardinality(group.submissions) >= needed' /\ group.thresholdMet
               THEN Goto(IF call.attested THEN "trust" ELSE "filter")
               ELSE Goto("wait")
          /\ UNCHANGED key
       \/ Settle("restError") /\ UNCHANGED <<needed, lastNeeded>>
    /\ UNCHANGED <<chainVars, keeperVars, timeVars, call, pinned, fee, result,
                   group, trustCache, reports, lastSeen>>

\* getTrustSet: a cached round costs no request, so it cannot fail.
LoadTrustSet ==
    /\ pc = "trust"
    /\ \/ /\ trustCache' = trustCache \cup {group.round}
          /\ Goto("filter") /\ UNCHANGED key
       \/ /\ group.round \notin trustCache
          /\ Settle("restError") /\ UNCHANGED trustCache
    /\ UNCHANGED <<chainVars, keeperVars, timeVars, call, pinned, fee, result,
                   group, needed, reports, lastSeen, lastNeeded>>

\* The submissions the trust set lets through (all without attestationConfig).
Admitted ==
    IF call.attested THEN group.submissions \cap Trusted[group.round]
                     ELSE group.submissions

\* The dropped submissions whose (validator, pid) has not been reported in this call.
Unreported ==
    {k \in {Reporter(group.round, v) : v \in group.submissions \ Admitted} : reports[k] = 0}

\* Mutant: the timeout goes on reporting the raw size of the bucket.
FilterKeepingLastSeen ==
    /\ pc = "filter"
    /\ reports' = [k \in Reporters |-> IF k \in Unreported THEN reports[k] + 1 ELSE reports[k]]
    /\ \/ /\ Cardinality(Admitted) >= needed
          /\ \E s \in kSubset(needed, Admitted) :
                result' = [round |-> group.round, submissions |-> s]
          /\ Goto("decrypt")
       \/ Cardinality(Admitted) < needed /\ Goto("wait") /\ UNCHANGED result
    /\ UNCHANGED <<chainVars, keeperVars, timeVars, call, key, pinned, fee,
                   group, needed, trustCache, lastSeen, lastNeeded>>

\* The submissions are filtered, the dropped ones reported; with enough left the
\* first sdkThreshold of them are the result, otherwise the loop goes on.
FilterSubmissions ==
    /\ pc = "filter"
    /\ reports' = [k \in Reporters |-> IF k \in Unreported THEN reports[k] + 1 ELSE reports[k]]
    /\ \/ /\ Cardinality(Admitted) >= needed
          /\ \E s \in kSubset(needed, Admitted) :
                result' = [round |-> group.round, submissions |-> s]
          /\ Goto("decrypt")
          /\ UNCHANGED lastSeen
       \/ /\ Cardinality(Admitted) < needed
          /\ lastSeen' = Cardinality(Admitted)
          /\ Goto("wait")
          /\ UNCHANGED result
    /\ UNCHANGED <<chainVars, keeperVars, timeVars, call, key, pinned, fee,
                   group, needed, trustCache, lastNeeded>>

\* Nothing usable this time: give up at the deadline, else sleep until the next
\* poll and grow the interval.
StartWait ==
    /\ pc = "wait"
    /\ \/ Expired /\ Settle("timeout") /\ UNCHANGED <<interval, wakeAt>>
       \/ /\ ~Expired
          /\ wakeAt' = elapsed + Clamped(interval)
          /\ interval' = NextInterval(interval)
          /\ Goto("sleep") /\ UNCHANGED key
    /\ UNCHANGED <<chainVars, keeperVars, elapsed, pollVars, call, pinned, fee, result>>

WakeUp ==
    /\ pc = "sleep"
    /\ elapsed >= wakeAt
    /\ Goto("poll")
    /\ UNCHANGED <<chainVars, keeperVars, timeVars, pollVars, dataVars>>

\* decryptDataKey with the partials collected: the data key comes out, or a
\* partial is malformed and the combine throws.
Decrypt ==
    /\ pc = "decrypt"
    /\ \/ key = "live" /\ Settle("key")
       \/ Settle("combineFailed")
    /\ UNCHANGED <<chainVars, keeperVars, timeVars, pollVars, call, pinned, fee, result>>

\* The call is over; nothing is left to do for it.
Rest == pc \in Ended /\ UNCHANGED vars

------------------------------------------------------------------------------
Client ==
    \/ Begin \/ GetGlobalPubKey \/ Preflight
    \/ QueryFee \/ PreflightBalance \/ SubmitRead \/ AwaitReceipt
    \/ StartCollect \/ SeedNeeded \/ StartPoll \/ QueryAnswer \/ QueryError
    \/ EvaluateGroup \/ LoadTrustSet \/ FilterSubmissions
    \/ StartWait \/ WakeUp \/ Decrypt

Environment ==
    \/ UpdateVault \/ ChangeFee \/ RollOver \/ MineRead \/ RevertRead \/ Tick
    \/ \E v \in Validators, b \in BucketKeys : SubmitPartial(v, b)

Next == Client \/ Environment \/ Rest

\* Awaits of a Story-API request: fetchJSON sets no timeout and is given no signal here,
\* so an endpoint that accepts the request and never answers is waited for for good.
StoryApiWaits == {"globalKey", "seed", "query", "threshold", "trust"}

\* Every other await settles (viem's transport and the receipt wait have deadlines of
\* their own) and time passes; nothing is assumed of the REST endpoint, the chain or the
\* keepers.
Fairness == WF_vars(Client /\ pc \notin StoryApiWaits) /\ WF_vars(Tick)

Spec == Init /\ [][Next]_vars
FairSpec == Spec /\ Fairness
------------------------------------------------------------------------------
(* Properties. *)

Places == {"start", "globalKey", "preflight", "fee", "balance", "submit",
           "receipt", "collect", "decrypt"} \cup Polling \cup Ended

Outcomes == {"none", "key", "invalidParams", "restError", "rpcError", "emptyVault",
             "insufficientBalance", "submitFailed", "reverted", "receiptTimeout",
             "timeout", "combineFailed"}

\* The type invariant.
TypeOK ==
    /\ vault \in Versions
    /\ readFee \in Fees
    /\ activeRound \in Rounds
    /\ balance \in Nat
    /\ tx \in {"none", "pending", "success", "reverted"}
    /\ requested \subseteq BucketKeys
    /\ buckets \in [BucketKeys -> SUBSET Validators]
    /\ call \in Calls /\ CallOK(call)
    /\ pc \in Places
    /\ outcome \in Outcomes
    /\ key \in {"absent", "live", "zeroed"}
    /\ pinned \in Ciphertexts \cup {None}
    /\ fee \in Nat
    /\ group \in Groups \cup {None}
    /\ needed \in Nat
    /\ trustCache \subseteq Rounds
    /\ reports \in [Reporters -> Nat]
    /\ lastSeen \in Nat
    /\ lastNeeded \in Nat
    /\ result \in Results \cup {None}
    /\ elapsed \in 0..Timeout
    /\ interval \in Nat \ {0}
    /\ wakeAt \in Nat

\* What collectPartials hands to the combine is exactly the threshold of the round
\* the partials belong to (its own, not the active round's), all of them were
\* submitted for the ciphertext the call decrypts, and with attestationConfig all
\* come from validators whose attestation verifies in that very round; whatever
\* the owner writes and however often the DKG rolls over meanwhile.
ResultCombines ==
    result # None =>
        /\ result.submissions \subseteq buckets[<<result.round, pinned>>]
        /\ Cardinality(result.submissions) = ThresholdAt(result.round)
        /\ call.attested => result.submissions \subseteq Trusted[result.round]

\* accessCDR sends no read, and so pays no fee, unless the vault had been written
\* when it looked: the preflight comes before the transaction on every path.
NoReadOfEmptyVault ==
    call.flow = "access" /\ tx # "none" => pinned \in Ciphertexts

\* A call that is refused costs nothing: no fee leaves the wallet when its balance is
\* too low, when the read reverts because the fee moved or the condition says no,
\* and, in accessCDR, when the vault is empty or the public key cannot be had. What
\* can still fail after the fee is paid is the wait for the receipt and whatever
\* collectPartials does, its own parameter checks included.
RefusalsAreFree ==
    /\ outcome \in {"insufficientBalance", "reverted"} => tx # "success"
    /\ call.flow = "access" /\ outcome \in {"emptyVault", "rpcError"} => tx # "success"
    /\ outcome = "restError" /\ pinned = None => tx # "success"

\* Once accessCDR is inside its try block every way out clears a generated key,
\* no way out clears a key the caller owns, and the key is intact when the
\* partials are decrypted.
KeyLifetime ==
    /\ call.ephemeral /\ pc \in Ended =>
           key = "zeroed" \/ (outcome = "restError" /\ pinned = None)
    /\ ~call.ephemeral => key # "zeroed"
    /\ pc = "decrypt" => key = "live"

\* A timeout is raised only when the budget is spent, and what it reports is a
\* shortage: fewer partials seen than needed, unless the keeper kept its flag down
\* or never showed a bucket (got 0 of whatever the seed was).
TimeoutIsShortage ==
    outcome = "timeout" =>
        /\ elapsed = Timeout
        /\ \/ lastSeen < lastNeeded
           \/ group = None /\ lastSeen = 0
           \/ group # None /\ ~group.thresholdMet

\* No sleep of the poll loop ends after the deadline, though the interval grows by
\* half at each poll without any ceiling of its own.
WakesWithinBudget == wakeAt <= Timeout

\* onInvalidPartial hears of a validator at most once under each pid, however many
\* polls drop it: a rollover that gives it another pid is reported anew, one that keeps
\* its pid is not. It hears only of one that has submitted a partial for the pinned
\* ciphertext in a round where it has that pid and its attestation does not verify.
ReportsOnce ==
    \A k \in Reporters : reports[k] > 0 =>
        /\ reports[k] = 1
        /\ call.attested /\ pinned # None
        /\ \E r \in Rounds, v \in Validators :
            /\ k = Reporter(r, v)
            /\ v \in buckets[<<r, pinned>>] \ Trusted[r]

\* What holds at each await of a call, and makes the properties above inductive.
\* The pin is taken where the flow takes it and not before.
PinPlace ==
    /\ pc \in {"start", "globalKey", "preflight"} => pinned = None /\ tx = "none"
    /\ call.flow = "access" /\ pc \in {"fee", "balance", "submit", "receipt", "collect"}
           => pinned # None
    /\ pc \in Polling \cup {"decrypt"} => pinned # None
    /\ group # None \/ result # None => pinned # None

\* The snapshot is a part of its bucket; from the threshold check on it is what the
\* verdict is about.
GroupPlace ==
    /\ group # None =>
        /\ group.submissions # {}
        /\ group.submissions \subseteq buckets[<<group.round, pinned>>]
    /\ pc \in {"threshold", "trust", "filter"} => group # None
    /\ pc = "threshold" => lastSeen = Cardinality(group.submissions)
    /\ pc \in {"trust", "filter"} =>
        /\ needed = ThresholdAt(group.round)
        /\ lastNeeded = needed

\* Whenever the loop may give up, the pair it would report is a shortage.
Shortage ==
    \/ lastSeen < lastNeeded
    \/ group = None /\ lastSeen = 0
    \/ group # None /\ ~group.thresholdMet

ShortagePlace ==
    /\ pc \in {"poll", "query", "wait", "sleep"} => Shortage
    /\ pc \notin Polling \cup Ended \cup {"decrypt"} \/ pc = "seed"
           => group = None /\ lastSeen = 0

KeyPlace ==
    /\ pc = "start" => key = "absent"
    /\ pc \notin Ended \cup {"start"} => key = "live"
    /\ outcome = "none" <=> pc \notin Ended

\* The read is sent at one await; whatever collects has seen it succeed, and whoever was
\* refused before has sent nothing, or seen it revert.
ReadPlace ==
    /\ pc \in {"start", "globalKey", "preflight", "fee", "balance", "submit"} => tx = "none"
    /\ pc \in Polling \cup {"collect", "decrypt"} => tx = "success"
    /\ outcome = "insufficientBalance" => tx = "none"
    /\ outcome = "reverted" => tx = "reverted"
    /\ call.flow = "access" /\ outcome \in {"emptyVault", "rpcError"} => tx = "none"
    /\ outcome = "restError" /\ pinned = None => tx = "none"

\* There is a result from the filter on, and no key without one.
ResultPlace ==
    /\ pc \notin Ended \cup {"decrypt"} => result = None
    /\ pc = "decrypt" \/ outcome = "key" => result # None

\* The inductive invariant.
CallInv ==
    /\ TypeOK
    /\ PinPlace
    /\ GroupPlace
    /\ ShortagePlace
    /\ KeyPlace
    /\ ReadPlace
    /\ ResultPlace
    /\ ResultCombines
    /\ RefusalsAreFree
    /\ NoReadOfEmptyVault
    /\ KeyLifetime
    /\ TimeoutIsShortage
    /\ WakesWithinBudget
    /\ ReportsOnce

\* The ciphertext a call works on is settled once: a vault written between the
\* preflight, the read and the polls changes neither the bucket nor the combine.
OnePin == [][pinned # None => pinned' = pinned]_vars

\* The loop never falls back from a newer round's bucket to an older one's.
RoundsOnlyAdvance ==
    [][group # None => group'.round >= group.round]_group

Phase ==
    CASE outcome = "none" -> "open"
      [] outcome = "key" -> "key"
      [] OTHER -> "error"

\* The abstract promise: its read is paid when the read is mined, its target is the
\* pinned ciphertext, its partials are the result of collectPartials.
Promise == INSTANCE ThresholdAccess WITH
    shares <- buckets,
    paid <- (tx = "success"),
    target <- pinned,
    used <- result,
    phase <- Phase,
    Needed <- [r \in Rounds |-> ThresholdAt(r)]

\* Whatever the owner, the fee, the network and the keeper do, a call does what
\* ThresholdAccess promises and nothing else.
ImplementsThresholdAccess == Promise!Spec

\* A call whose Story-API requests all come back, with whatever answer or error, ends: by
\* timeoutMs at the latest if no partials come, however the interval grows. One that
\* waits for such a request for good need not, whatever timeoutMs is.
EndsOnceAnswered == []<>(pc \notin StoryApiWaits) => <>(pc \in Ended)
=============================================================================
