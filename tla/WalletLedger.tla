---------------------------- MODULE WalletLedger ----------------------------
(***************************************************************************)
(* What safeWriteContract followed by waitForReceiptResilient promises the *)
(* callers of one wallet, with no word of nonces read, transports, pools   *)
(* or scans: a call makes at most one entry in the wallet's ledger, at its *)
(* end, and reports a receipt only when it has an entry; the receipt is    *)
(* that entry's, but where overlapping calls may trade receipts.           *)
(***************************************************************************)
EXTENDS Naturals

CONSTANTS
    Calls, Payloads,
    Payload,   \* [Calls -> Payloads]: what a call asks for
    Slots,     \* places in the ledger, in the order the chain executes them
    None       \* no entry, no slot

VARIABLES
    kind,      \* how calls may get in each other's way, for good
    ledger,    \* [Slots -> Payloads \cup {None}]
    receipt,   \* [Slots -> {"none", "success", "reverted"}]
    slot,      \* [Calls -> Slots \cup {None}]: the entry that serves a call
    result     \* [Calls -> {"none", "success", "reverted", "error"}]

vars == <<kind, ledger, receipt, slot, result>>

\* A call has an entry to itself and its receipt; or calls that ask for the same may be
\* served by one entry; or each has its entry and they may trade receipts.
Kinds == {"own", "shared", "traded"}

Init ==
    /\ kind \in Kinds
    /\ ledger = [n \in Slots |-> None]
    /\ receipt = [n \in Slots |-> "none"]
    /\ slot = [c \in Calls |-> None]
    /\ result = [c \in Calls |-> "none"]

Open(c) == slot[c] = None /\ result[c] = "none"

\* The call's payload enters the ledger, at its end; once at most.
Enter(c) ==
    /\ Open(c)
    /\ \E n \in Slots :
        /\ ledger[n] = None
        /\ \A m \in Slots : m < n => ledger[m] # None
        /\ ledger' = [ledger EXCEPT ![n] = Payload[c]]
        /\ slot' = [slot EXCEPT ![c] = n]
    /\ UNCHANGED <<kind, receipt, result>>

\* The call is served by an entry that asks for the same.
Join(c) ==
    /\ kind = "shared"
    /\ Open(c)
    /\ \E n \in Slots :
        /\ ledger[n] = Payload[c]
        /\ slot' = [slot EXCEPT ![c] = n]
    /\ UNCHANGED <<kind, ledger, receipt, result>>

\* The chain executes the ledger in its order, whether anyone still waits or not.
Execute(n) ==
    /\ ledger[n] # None /\ receipt[n] = "none"
    /\ \A m \in Slots : m < n => receipt[m] # "none"
    /\ \E s \in {"success", "reverted"} : receipt' = [receipt EXCEPT ![n] = s]
    /\ UNCHANGED <<kind, ledger, slot, result>>

\* A call that has an entry reports a receipt: that entry's, unless receipts are traded.
Settle(c) ==
    /\ result[c] = "none" /\ slot[c] # None
    /\ \E n \in Slots :
        /\ receipt[n] # "none"
        /\ kind # "traded" => n = slot[c]
        /\ result' = [result EXCEPT ![c] = receipt[n]]
    /\ UNCHANGED <<kind, ledger, receipt, slot>>

\* A call gives up, with an entry or without.
Fail(c) ==
    /\ result[c] = "none"
    /\ result' = [result EXCEPT ![c] = "error"]
    /\ UNCHANGED <<kind, ledger, receipt, slot>>

Next ==
    \/ \E c \in Calls : Enter(c) \/ Join(c) \/ Settle(c) \/ Fail(c)
    \/ \E n \in Slots : Execute(n)

Spec == Init /\ [][Next]_vars
=============================================================================
