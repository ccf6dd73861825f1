------------------------------- MODULE Uploader -------------------------------
(***************************************************************************)
(* Uploader: calls of uploadCDR, uploadFile and write that overlap, each a *)
(* chain of awaits any of which may fail, against the CDR contract and the *)
(* process's WASM instance (WasmLoader), which may be missing.             *)
(*                                                                         *)
(* A vault is its uuid. A ciphertext is the label it was encrypted with    *)
(* and the call it comes from. A transaction's hash is its call's own      *)
(* (TxSubmit says when that is so); whether one is mined or reverts is the *)
(* contract's affair: its fee moved, a write condition refused, the vault  *)
(* may be written once only.                                               *)
(***************************************************************************)
EXTENDS WasmLoader, FiniteSets

CONSTANTS
    Uploads,    \* the calls
    Empty       \* encryptedData of a vault never written

ASSUME UploadsAssumption == IsFiniteSet(Uploads)

\* Each call allocates one vault at most.
Uuids == 1..Cardinality(Uploads)

\* A ciphertext may have been encrypted without a label.
Ciphertexts == [label : Uuids \cup {None}, call : Uploads]

ASSUME UploadNoneAssumption ==
    None \notin Uuids /\ None # Empty /\ {None, Empty} \cap Ciphertexts = {}

VARIABLES
    \* --- the contract
    vaults,         \* [Uuids -> Ciphertexts \cup {Empty, None}], None if not allocated
    granted,        \* [Uploads -> Uuids \cup {None}]: uuid of the call's VaultAllocated event
    allocateTx, writeTx,    \* [Uploads -> TxStates]
    \* --- the storage provider
    stored,         \* calls whose encrypted file is stored
    \* --- the calls
    flow,           \* [Uploads -> Flows]
    pc, outcome,
    conditions,     \* [Uploads -> what is true of the condition contracts]
    uuid,           \* [Uploads -> Uuids \cup {None}]: the vault the call works on
    encryptedData,  \* [Uploads -> Ciphertexts \cup {None}]: what it writes there
    checked         \* calls whose label check could be made

chainVars == <<vaults, granted, allocateTx, writeTx>>
callVars == <<flow, pc, outcome, conditions, uuid, encryptedData, checked>>
vars == <<loaderVars, chainVars, stored, callVars>>

Flows == {"uploadCDR", "uploadFile", "write"}
TxStates == {"none", "pending", "success", "reverted"}
Places == {"start", "conditions", "allocate", "allocated", "encrypt",
           "label", "size", "write", "written", "over"}
Outcomes == {"none", "resolved", "storageError", "rpcError", "restError", "submitFailed",
             "invalidCondition", "eventNotFound", "receiptTimeout", "noWasm",
             "labelMismatch", "tooLarge"}

Allocated == {v \in Uuids : vaults[v] # None}

------------------------------------------------------------------------------
(* What an address answers to the two probes of validateConditionContract. *)

Kinds == {"zero", "condition", "eoa", "other", "returningFallback", "revertingFallback"}

\* What the real function and the sentinel, a function nobody implements, do.
Probes(kind) ==
    CASE kind = "condition" -> {[real |-> a, sentinel |-> "emptyRevert"] : a \in {"value", "payload"}}
      [] kind = "eoa" -> {[real |-> "zeroData", sentinel |-> "zeroData"]}
      [] kind = "other" -> {[real |-> "emptyRevert", sentinel |-> "emptyRevert"]}
      [] kind = "returningFallback" -> {[real |-> "value", sentinel |-> "value"]}
      [] kind = "revertingFallback" -> {[real |-> "payload", sentinel |-> "payload"]}

\* Mutant: the answer to the real function is trusted.
AcceptedUnlessMissed(kind) == kind = "zero" \/ \E p \in Probes(kind) : p.real \in {"value", "payload"}

\* The zero address is not looked at; of the others the real function must answer,
\* with a value or a reverted payload, and the sentinel must miss.
Accepted(kind) ==
    \/ kind = "zero"
    \/ \E p \in Probes(kind) : /\ p.real \in {"value", "payload"}
                               /\ p.sentinel \in {"emptyRevert", "zeroData"}

Implements(kind) == kind \in {"zero", "condition"}

------------------------------------------------------------------------------
Init ==
    /\ LoaderInit
    /\ vaults = [v \in Uuids |-> None]
    /\ granted = [u \in Uploads |-> None]
    /\ allocateTx = [u \in Uploads |-> "none"]
    /\ writeTx = [u \in Uploads |-> "none"]
    /\ stored = {}
    /\ flow \in [Uploads -> Flows]
    /\ pc = [u \in Uploads |-> "start"]
    /\ outcome = [u \in Uploads |-> "none"]
    /\ conditions = [u \in Uploads |-> "unseen"]
    /\ uuid = [u \in Uploads |-> None]
    /\ encryptedData = [u \in Uploads |-> None]
    /\ checked = {}

Goto(u, where) == pc' = [pc EXCEPT ![u] = where] /\ UNCHANGED outcome

End(u, how) ==
    /\ pc' = [pc EXCEPT ![u] = "over"]
    /\ outcome' = [outcome EXCEPT ![u] = how]

------------------------------------------------------------------------------
(* The contract. *)

MineAllocate(u) ==
    /\ allocateTx[u] = "pending"
    /\ \/ \E v \in Uuids :
            /\ Allocated = 1..(v - 1)
            /\ vaults' = [vaults EXCEPT ![v] = Empty]
            /\ granted' = [granted EXCEPT ![u] = v]
            /\ allocateTx' = [allocateTx EXCEPT ![u] = "success"]
       \/ /\ allocateTx' = [allocateTx EXCEPT ![u] = "reverted"]
          /\ UNCHANGED <<vaults, granted>>
    /\ UNCHANGED <<loaderVars, writeTx, stored, callVars>>

MineWrite(u) ==
    /\ writeTx[u] = "pending"
    /\ \/ /\ vaults' = [vaults EXCEPT ![uuid[u]] = encryptedData[u]]
          /\ writeTx' = [writeTx EXCEPT ![u] = "success"]
       \/ /\ writeTx' = [writeTx EXCEPT ![u] = "reverted"]
          /\ UNCHANGED vaults
    /\ UNCHANGED <<loaderVars, granted, allocateTx, stored, callVars>>

------------------------------------------------------------------------------
(* allocate, within uploadCDR and uploadFile. *)

\* uploadFile encrypts the file and stores it first.
StoreFile(u) ==
    /\ pc[u] = "start" /\ flow[u] = "uploadFile"
    /\ \/ stored' = stored \cup {u} /\ Goto(u, "conditions")
       \/ End(u, "storageError") /\ UNCHANGED stored
    /\ UNCHANGED <<loaderVars, chainVars, flow, conditions, uuid, encryptedData, checked>>

StartUpload(u) ==
    /\ pc[u] = "start" /\ flow[u] = "uploadCDR"
    /\ Goto(u, "conditions")
    /\ UNCHANGED <<loaderVars, chainVars, stored, flow, conditions, uuid, encryptedData, checked>>

\* Both condition addresses are validated, unless the caller says not to.
ValidateConditions(u) ==
    /\ pc[u] = "conditions"
    /\ \/ /\ conditions' = [conditions EXCEPT ![u] = "skipped"]
          /\ Goto(u, "allocate")
       \/ \E w, r \in Kinds :
            /\ conditions' = [conditions EXCEPT ![u] =
                                IF Implements(w) /\ Implements(r) THEN "sound" ELSE "unsound"]
            /\ IF Accepted(w) /\ Accepted(r) THEN Goto(u, "allocate")
                                             ELSE End(u, "invalidCondition")
       \/ End(u, "rpcError") /\ UNCHANGED conditions
    /\ UNCHANGED <<loaderVars, chainVars, stored, flow, uuid, encryptedData, checked>>

\* The fee is read, or given, and the transaction submitted; an answer that is lost
\* fails the call though the transaction may be in the pool.
Allocate(u) ==
    /\ pc[u] = "allocate"
    /\ \/ /\ allocateTx' = [allocateTx EXCEPT ![u] = "pending"]
          /\ \/ Goto(u, "allocated")
             \/ End(u, "submitFailed")
       \/ /\ \E how \in {"rpcError", "submitFailed"} : End(u, how)
          /\ UNCHANGED allocateTx
    /\ UNCHANGED <<loaderVars, vaults, granted, writeTx, stored,
                   flow, conditions, uuid, encryptedData, checked>>

\* Mutant: the uuid is read from the contract's counter.
AwaitAllocationByCounter(u) ==
    /\ pc[u] = "allocated"
    /\ \/ /\ allocateTx[u] = "success"
          /\ uuid' = [uuid EXCEPT ![u] = Cardinality(Allocated)]
          /\ Goto(u, "encrypt")
       \/ allocateTx[u] = "reverted" /\ End(u, "eventNotFound") /\ UNCHANGED uuid
       \/ End(u, "receiptTimeout") /\ UNCHANGED uuid
    /\ UNCHANGED <<loaderVars, chainVars, stored, flow, conditions, encryptedData, checked>>

\* The receipt; one of a reverted transaction holds no VaultAllocated event.
AwaitAllocation(u) ==
    /\ pc[u] = "allocated"
    /\ \/ /\ allocateTx[u] = "success"
          /\ uuid' = [uuid EXCEPT ![u] = granted[u]]
          /\ Goto(u, "encrypt")
       \/ allocateTx[u] = "reverted" /\ End(u, "eventNotFound") /\ UNCHANGED uuid
       \/ End(u, "receiptTimeout") /\ UNCHANGED uuid
    /\ UNCHANGED <<loaderVars, chainVars, stored, flow, conditions, encryptedData, checked>>

\* encryptDataKey, with the label of the uuid, to the global public key given or
\* fetched.
Encrypt(u) ==
    /\ pc[u] = "encrypt"
    /\ \/ /\ wasmInstance # None
          /\ encryptedData' = [encryptedData EXCEPT ![u] = [label |-> uuid[u], call |-> u]]
          /\ Goto(u, "label")
       \/ wasmInstance = None /\ End(u, "noWasm") /\ UNCHANGED encryptedData
       \/ End(u, "restError") /\ UNCHANGED encryptedData
    /\ UNCHANGED <<loaderVars, chainVars, stored, flow, conditions, uuid, checked>>

------------------------------------------------------------------------------
(* write. *)

\* A caller of its own writes a ciphertext it has to a vault that exists, and may say
\* that its label is not to be looked at.
CallWrite(u) ==
    /\ pc[u] = "start" /\ flow[u] = "write"
    /\ \E v \in Allocated, l \in Uuids \cup {None}, next \in {"label", "size"} :
        /\ uuid' = [uuid EXCEPT ![u] = v]
        /\ encryptedData' = [encryptedData EXCEPT ![u] = [label |-> l, call |-> u]]
        /\ Goto(u, next)
    /\ UNCHANGED <<loaderVars, chainVars, stored, flow, conditions, checked>>

\* Mutant: the label is looked at and the verdict not thrown.
CheckLabelQuietly(u) ==
    /\ pc[u] = "label"
    /\ checked' = IF wasmInstance # None THEN checked \cup {u} ELSE checked
    /\ Goto(u, "size")
    /\ UNCHANGED <<loaderVars, chainVars, stored, flow, conditions, uuid, encryptedData>>

\* Without an instance to extract the label with, and for a ciphertext without one,
\* the check passes.
CheckLabel(u) ==
    /\ pc[u] = "label"
    /\ IF wasmInstance = None THEN Goto(u, "size") /\ UNCHANGED checked
       ELSE /\ checked' = checked \cup {u}
            /\ IF encryptedData[u].label \in {uuid[u], None} THEN Goto(u, "size")
                                                              ELSE End(u, "labelMismatch")
    /\ UNCHANGED <<loaderVars, chainVars, stored, flow, conditions, uuid, encryptedData>>

CheckSize(u) ==
    /\ pc[u] = "size"
    /\ \/ Goto(u, "write")
       \/ \E how \in {"rpcError", "tooLarge"} : End(u, how)
    /\ UNCHANGED <<loaderVars, chainVars, stored, flow, conditions, uuid, encryptedData, checked>>

Write(u) ==
    /\ pc[u] = "write"
    /\ \/ /\ writeTx' = [writeTx EXCEPT ![u] = "pending"]
          /\ \/ Goto(u, "written")
             \/ End(u, "submitFailed")
       \/ /\ \E how \in {"rpcError", "submitFailed"} : End(u, how)
          /\ UNCHANGED writeTx
    /\ UNCHANGED <<loaderVars, vaults, granted, allocateTx, stored,
                   flow, conditions, uuid, encryptedData, checked>>

\* Any receipt will do: its status is not looked at.
AwaitWrite(u) ==
    /\ pc[u] = "written"
    /\ \/ writeTx[u] \in {"success", "reverted"} /\ End(u, "resolved")
       \/ End(u, "receiptTimeout")
    /\ UNCHANGED <<loaderVars, chainVars, stored, flow, conditions, uuid, encryptedData, checked>>

------------------------------------------------------------------------------
UploadStep(u) ==
    \/ StoreFile(u) \/ StartUpload(u) \/ ValidateConditions(u) \/ Allocate(u)
    \/ AwaitAllocation(u) \/ Encrypt(u)
    \/ CallWrite(u) \/ CheckLabel(u) \/ CheckSize(u) \/ Write(u) \/ AwaitWrite(u)

Next ==
    \/ \E u \in Uploads : UploadStep(u) \/ MineAllocate(u) \/ MineWrite(u)
    \/ LoaderNext /\ UNCHANGED <<chainVars, stored, callVars>>

Spec == Init /\ [][Next]_vars

------------------------------------------------------------------------------
(* Properties. *)

\* The type invariant; past the allocation a call works on a vault, past the
\* encryption it has a ciphertext.
TypeOK ==
    /\ LoaderTypeOK
    /\ vaults \in [Uuids -> Ciphertexts \cup {Empty, None}]
    /\ granted \in [Uploads -> Uuids \cup {None}]
    /\ allocateTx \in [Uploads -> TxStates] /\ writeTx \in [Uploads -> TxStates]
    /\ stored \subseteq Uploads /\ checked \subseteq Uploads
    /\ flow \in [Uploads -> Flows]
    /\ pc \in [Uploads -> Places] /\ outcome \in [Uploads -> Outcomes]
    /\ conditions \in [Uploads -> {"unseen", "skipped", "sound", "unsound"}]
    /\ uuid \in [Uploads -> Uuids \cup {None}]
    /\ encryptedData \in [Uploads -> Ciphertexts \cup {None}]
    /\ \A u \in Uploads :
        /\ pc[u] \in {"encrypt", "label", "size", "write", "written"} => uuid[u] # None
        /\ pc[u] \in {"label", "size", "write", "written"} => encryptedData[u] # None

\* Validators decrypt under the label of the vault: whatever the calls that overlap,
\* the vault holds a ciphertext with its own label, or without any, unless a direct
\* write chose to skip the check or found no WASM instance to make it with.
LabelBound ==
    \A v \in Allocated : vaults[v] # Empty =>
        LET c == vaults[v]
        IN  c.label \in {v, None} \/ (flow[c.call] = "write" /\ c.call \notin checked)

\* uploadCDR and uploadFile write nothing but the vault they allocated, however their
\* transactions interleave with others', and what uploadFile writes refers to a file
\* that is stored. Neither resolves before both its transactions are mined.
OwnVault ==
    /\ \A v \in Allocated : vaults[v] # Empty =>
           LET u == vaults[v].call
           IN  flow[u] # "write" =>
                   granted[u] = v /\ (flow[u] = "uploadFile" => u \in stored)
    /\ \A u \in Uploads : outcome[u] = "resolved" =>
           /\ writeTx[u] \in {"success", "reverted"}
           /\ flow[u] # "write" => allocateTx[u] = "success" /\ uuid[u] = granted[u]

\* No vault is bound to an address that does not implement the condition interface,
\* a catch-all fallback included, unless the caller skipped the validation.
ConditionsImplement ==
    \A u \in Uploads : allocateTx[u] # "none" => conditions[u] \in {"sound", "skipped"}

\* "On-chain transaction reverted" is thrown as an error (USER_GUIDE.md:456): a call
\* that resolves has written its vault.
ResolvedIsWritten == \A u \in Uploads : outcome[u] = "resolved" => writeTx[u] = "success"
=============================================================================
