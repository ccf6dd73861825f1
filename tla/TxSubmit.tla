------------------------------ MODULE TxSubmit ------------------------------
(***************************************************************************)
(* safeWriteContract and waitForReceiptResilient: the SDK's transactions   *)
(* from one wallet, over a transport that delivers a submission again when *)
(* its answer is slow, to a node that refuses a second transaction with a  *)
(* nonce already in its pool.                                              *)
(*                                                                         *)
(* A transaction is the call's payload with a nonce; its hash stands for   *)
(* it. The node (and the wallet behind a JSON-RPC account, which chooses   *)
(* the nonce of a request the first time it sees it) is not part of the    *)
(* repository and is modelled as the code's comments rely on it.           *)
(***************************************************************************)
EXTENDS Integers, FiniteSets

CONSTANTS
    Calls,          \* calls of safeWriteContract
    Payloads,       \* what they ask the contract to do
    Payload,        \* [Calls -> Payloads]
    Settings,       \* the wallets and the callers considered
    MaxDeliveries,  \* bound: times the transport delivers one submission
    None            \* no nonce, no transaction

ASSUME CallsAssumption == IsFiniteSet(Calls) /\ Payload \in [Calls -> Payloads]

\* The wallet's key is in-process, so that the SDK signs, or the node signs; the caller
\* lets calls overlap, or waits for each before the next.
ASSUME SettingsAssumption == Settings \subseteq [local : BOOLEAN, overlap : BOOLEAN]

ASSUME BoundAssumption == MaxDeliveries \in Nat \ {0}

\* One nonce per call is enough: a call never takes a second one.
Nonces == 0..(Cardinality(Calls) - 1)

Txs == [payload : Payloads, nonce : Nonces]

ASSUME NoneAssumption == None \notin Nonces \cup Txs \cup Payloads

VARIABLES
    setting,    \* one of Settings, for good
    pool,       \* [Nonces -> Txs \cup {None}]: pending transactions of the wallet
    mined,      \* [Nonces -> Txs \cup {None}]
    status,     \* [Nonces -> {"success", "reverted"}]: receipts of the mined ones
    pc,         \* [Calls -> Places]
    nonce,      \* [Calls -> Nonces \cup {None}]: read before sending
    wire,       \* [Calls -> Txs \cup {None}]: the transaction being delivered
    deliveries, \* [Calls -> Nat]
    reply,      \* [Calls -> Replies]: the node's last answer
    hash,       \* [Calls -> Txs \cup {None}]: what safeWriteContract returned
    outcome     \* [Calls -> Outcomes]

nodeVars == <<pool, mined, status>>
callVars == <<pc, nonce, wire, deliveries, reply, hash, outcome>>
vars == <<setting, nodeVars, callVars>>

Places == {"idle", "capture", "send", "recover", "receipt", "over"}
Replies == {"none", "accepted", "already known", "underpriced", "nonce too low"}
Outcomes == {"none", "success", "reverted", "networkError", "nonceTooLow",
             "alreadySubmitted", "recoveryTimeout", "receiptTimeout"}

Used(n) == pool[n] # None \/ mined[n] # None

\* Mutant: eth_getTransactionCount(from, "latest").
LatestCount == Cardinality({n \in Nonces : mined[n] # None})

\* eth_getTransactionCount(from, "pending")
PendingCount == Cardinality({n \in Nonces : Used(n)})

------------------------------------------------------------------------------
Init ==
    /\ setting \in Settings
    /\ pool = [n \in Nonces |-> None]
    /\ mined = [n \in Nonces |-> None]
    /\ status = [n \in Nonces |-> "success"]
    /\ pc = [c \in Calls |-> "idle"]
    /\ nonce = [c \in Calls |-> None]
    /\ wire = [c \in Calls |-> None]
    /\ deliveries = [c \in Calls |-> 0]
    /\ reply = [c \in Calls |-> "none"]
    /\ hash = [c \in Calls |-> None]
    /\ outcome = [c \in Calls |-> "none"]

\* The node mines the wallet's transactions in nonce order.
Mine(n) ==
    /\ pool[n] # None
    /\ \A m \in Nonces : m < n => mined[m] # None
    /\ mined' = [mined EXCEPT ![n] = pool[n]]
    /\ pool' = [pool EXCEPT ![n] = None]
    /\ \E s \in {"success", "reverted"} : status' = [status EXCEPT ![n] = s]
    /\ UNCHANGED <<setting, callVars>>

------------------------------------------------------------------------------
(* safeWriteContract. *)

Running(c) == pc[c] \notin {"idle", "over"}

Start(c) ==
    /\ pc[c] = "idle"
    /\ setting.overlap \/ \A d \in Calls : ~Running(d)
    /\ pc' = [pc EXCEPT ![c] = "capture"]
    /\ UNCHANGED <<setting, nodeVars, nonce, wire, deliveries, reply, hash, outcome>>

Throw(c, why) ==
    /\ pc' = [pc EXCEPT ![c] = "over"]
    /\ outcome' = [outcome EXCEPT ![c] = why]

\* prepareTransactionRequest fills in the pending nonce and the transaction is
\* signed with it; a JSON-RPC account only notes it, and goes on without when the
\* read fails.
Capture(c) ==
    /\ pc[c] = "capture"
    /\ \/ /\ PendingCount \in Nonces
          /\ nonce' = [nonce EXCEPT ![c] = PendingCount]
          /\ pc' = [pc EXCEPT ![c] = "send"]
          /\ wire' = [wire EXCEPT ![c] =
                         IF setting.local THEN [payload |-> Payload[c], nonce |-> PendingCount]
                                         ELSE None]
          /\ UNCHANGED outcome
       \/ /\ ~setting.local
          /\ pc' = [pc EXCEPT ![c] = "send"]
          /\ UNCHANGED <<nonce, wire, outcome>>
       \/ /\ setting.local
          /\ Throw(c, "networkError")
          /\ UNCHANGED <<nonce, wire>>
    /\ UNCHANGED <<setting, nodeVars, deliveries, reply, hash>>

\* Mutant: a submission delivered again is prepared again.
SubmissionPreparedAgain(c) == [payload |-> Payload[c], nonce |-> PendingCount]

\* The transaction of a submission: signed here, or given its nonce by the node the
\* first time.
Submission(c) ==
    IF wire[c] # None THEN wire[c] ELSE [payload |-> Payload[c], nonce |-> PendingCount]

Answer(tx) ==
    IF mined[tx.nonce] # None THEN "nonce too low"
    ELSE IF pool[tx.nonce] = tx THEN "already known"
    ELSE IF pool[tx.nonce] # None THEN "underpriced"
    ELSE "accepted"

\* The submission reaches the node: first, or again because the transport saw no
\* answer to the one before.
Deliver(c) ==
    LET tx == Submission(c) IN
    /\ pc[c] = "send"
    /\ deliveries[c] < MaxDeliveries
    /\ tx.nonce \in Nonces
    /\ wire' = [wire EXCEPT ![c] = tx]
    /\ deliveries' = [deliveries EXCEPT ![c] = @ + 1]
    /\ reply' = [reply EXCEPT ![c] = Answer(tx)]
    /\ pool' = IF Answer(tx) = "accepted" THEN [pool EXCEPT ![tx.nonce] = tx] ELSE pool
    /\ UNCHANGED <<setting, mined, status, pc, nonce, hash, outcome>>

\* The transport gives up, with or without having been heard.
LoseSubmission(c) ==
    /\ pc[c] = "send"
    /\ Throw(c, "networkError")
    /\ UNCHANGED <<setting, nodeVars, nonce, wire, deliveries, reply, hash>>

Return(c, tx) ==
    /\ hash' = [hash EXCEPT ![c] = tx]
    /\ pc' = [pc EXCEPT ![c] = "receipt"]
    /\ UNCHANGED outcome

\* isAlreadySubmittedError
AlreadySubmitted(r) == r \in {"already known", "underpriced"}

Accepted(c) ==
    /\ pc[c] = "send"
    /\ reply[c] = "accepted"
    /\ Return(c, wire[c])
    /\ UNCHANGED <<setting, nodeVars, nonce, wire, deliveries, reply>>

\* A pre-signed transaction's hash is known, so a collision returns it; the hash of
\* one the node signed is looked for by the nonce noted before, if it was noted.
Collision(c) ==
    /\ pc[c] = "send"
    /\ AlreadySubmitted(reply[c])
    /\ \/ setting.local /\ Return(c, wire[c])
       \/ /\ ~setting.local /\ nonce[c] # None
          /\ pc' = [pc EXCEPT ![c] = "recover"]
          /\ UNCHANGED <<hash, outcome>>
       \/ /\ ~setting.local /\ nonce[c] = None
          /\ Throw(c, "alreadySubmitted")
          /\ UNCHANGED hash
    /\ UNCHANGED <<setting, nodeVars, nonce, wire, deliveries, reply>>

\* Any other refusal is thrown as it is.
Refused(c) ==
    /\ pc[c] = "send"
    /\ reply[c] = "nonce too low"
    /\ Throw(c, "nonceTooLow")
    /\ UNCHANGED <<setting, nodeVars, nonce, wire, deliveries, reply, hash>>

\* recoverHashBySenderNonce finds the wallet's mined transaction with that nonce.
Recover(c) ==
    /\ pc[c] = "recover"
    /\ mined[nonce[c]] # None
    /\ Return(c, mined[nonce[c]])
    /\ UNCHANGED <<setting, nodeVars, nonce, wire, deliveries, reply>>

\* Mutant: the scan has no deadline.
RecoverForever(c) == pc[c] = "recover" /\ UNCHANGED vars

RecoverTimeout(c) ==
    /\ pc[c] = "recover"
    /\ Throw(c, "recoveryTimeout")
    /\ UNCHANGED <<setting, nodeVars, nonce, wire, deliveries, reply, hash>>

------------------------------------------------------------------------------
(* waitForReceiptResilient: a reverted receipt is a receipt. *)

\* Mutant: any receipt will do.
ReceiptUnread(c) ==
    /\ pc[c] = "receipt"
    /\ mined[hash[c].nonce] = hash[c]
    /\ Throw(c, "success")
    /\ UNCHANGED <<setting, nodeVars, nonce, wire, deliveries, reply, hash>>

Receipt(c) ==
    /\ pc[c] = "receipt"
    /\ mined[hash[c].nonce] = hash[c]
    /\ Throw(c, status[hash[c].nonce])
    /\ UNCHANGED <<setting, nodeVars, nonce, wire, deliveries, reply, hash>>

ReceiptTimeout(c) ==
    /\ pc[c] = "receipt"
    /\ Throw(c, "receiptTimeout")
    /\ UNCHANGED <<setting, nodeVars, nonce, wire, deliveries, reply, hash>>

------------------------------------------------------------------------------
CallStep(c) ==
    \/ Capture(c) \/ Deliver(c) \/ LoseSubmission(c)
    \/ Accepted(c) \/ Collision(c) \/ Refused(c)
    \/ Recover(c) \/ RecoverTimeout(c)
    \/ Receipt(c) \/ ReceiptTimeout(c)

Next ==
    \/ \E c \in Calls : Start(c) \/ CallStep(c)
    \/ \E n \in Nonces : Mine(n)

Spec == Init /\ [][Next]_vars

\* The transport, the recovery and the receipt wait all have deadlines.
FairSpec == Spec /\ \A c \in Calls : WF_vars(CallStep(c))

------------------------------------------------------------------------------
(* Properties. *)

\* The type invariant.
TypeOK ==
    /\ setting \in Settings
    /\ pool \in [Nonces -> Txs \cup {None}]
    /\ mined \in [Nonces -> Txs \cup {None}]
    /\ status \in [Nonces -> {"success", "reverted"}]
    /\ pc \in [Calls -> Places]
    /\ nonce \in [Calls -> Nonces \cup {None}]
    /\ wire \in [Calls -> Txs \cup {None}]
    /\ deliveries \in [Calls -> 0..MaxDeliveries]
    /\ reply \in [Calls -> Replies]
    /\ hash \in [Calls -> Txs \cup {None}]
    /\ outcome \in [Calls -> Outcomes]

Landed(tx) == pool[tx.nonce] = tx \/ mined[tx.nonce] = tx

Own(c) == hash[c].payload = Payload[c]

\* "Both end at the real tx hash" (_tx-submit.ts:46): the hash safeWriteContract returns
\* is that of the call's own transaction, and the transaction is pending or mined. How
\* much of that the code keeps: a wallet that makes one call at a time gets the
\* real hash, however often its submission is delivered and whatever an earlier call
\* left behind in the pool. Of calls that overlap, one that is signed here gets a hash
\* of its own, and one the node signs gets a hash that is in flight.
ReturnedIsHalfReal ==
    \A c \in Calls : hash[c] # None =>
        /\ setting.local \/ ~setting.overlap => Own(c)
        /\ ~setting.local \/ ~setting.overlap => Landed(hash[c])

PayloadAt(n) ==
    IF pool[n] # None THEN pool[n].payload
    ELSE IF mined[n] # None THEN mined[n].payload ELSE None

\* However often a submission is delivered and whatever it collides with, it makes at
\* most one transaction: a payload is executed no more often than it was asked for.
LandsOnce ==
    \A p \in Payloads :
        Cardinality({n \in Nonces : PayloadAt(n) = p}) <= Cardinality({c \in Calls : Payload[c] = p})

Kind == IF ~setting.overlap THEN "own" ELSE IF setting.local THEN "shared" ELSE "traded"

\* The entry that serves a call: its transaction, once the node has answered for it.
Slot(c) == IF reply[c] # "none" /\ Landed(wire[c]) THEN wire[c].nonce ELSE None

Result(c) == IF outcome[c] \in {"none", "success", "reverted"} THEN outcome[c] ELSE "error"

\* The abstract promise: its ledger is what is pending or mined, nonce by nonce.
Promise == INSTANCE WalletLedger WITH
    Slots <- Nonces,
    kind <- Kind,
    ledger <- [n \in Nonces |-> PayloadAt(n)],
    receipt <- [n \in Nonces |-> IF mined[n] # None THEN status[n] ELSE "none"],
    slot <- [c \in Calls |-> Slot(c)],
    result <- [c \in Calls |-> Result(c)]

\* Whatever is delivered, collides or is lost, the calls of a wallet do what WalletLedger
\* promises: a call enters one transaction at most, and reports a receipt only when its
\* own payload has entered, and then that transaction's receipt, unless the node signs
\* and calls overlap.
ImplementsWalletLedger == Promise!Spec

\* Every call that is made ends.
EveryCallEnds == \A c \in Calls : (pc[c] = "capture") ~> (pc[c] = "over")
=============================================================================
