---------------------------- MODULE UploaderProofs ----------------------------
(***************************************************************************)
(* What uploads write and where, what their vaults are bound to, and that  *)
(* they share WASM loads, for every number of calls, of calls of           *)
(* initWasm and of resets.                                                 *)
(***************************************************************************)
EXTENDS Uploader, FiniteSetTheorems, TLAPS

------------------------------------------------------------------------------
(* The inductive invariant. *)

\* Who joins a load does nothing but settle as it does; until a reset every load in
\* flight is the one in the slot.
LoaderInv ==
    /\ LoaderTypeOK
    /\ LoaderIsShared
    /\ \A i \in Inits : /\ initAt[i] = "joined" => joins[i] # None
                        /\ joins[i] # None => initAt[i] \in {"joined", "resolved", "failed"}
    /\ resets = 0 => \A i \in Inits :
           initAt[i] \in {"loading", "loaded", "rejected"} => wasmInitPromise = i

\* The functions of the module, without what a place says of the call.
Shapes ==
    /\ vaults \in [Uuids -> Ciphertexts \cup {Empty, None}]
    /\ granted \in [Uploads -> Uuids \cup {None}]
    /\ allocateTx \in [Uploads -> TxStates] /\ writeTx \in [Uploads -> TxStates]
    /\ stored \subseteq Uploads /\ checked \subseteq Uploads
    /\ flow \in [Uploads -> Flows]
    /\ pc \in [Uploads -> Places] /\ outcome \in [Uploads -> Outcomes]
    /\ conditions \in [Uploads -> {"unseen", "skipped", "sound", "unsound"}]
    /\ uuid \in [Uploads -> Uuids \cup {None}]
    /\ encryptedData \in [Uploads -> Ciphertexts \cup {None}]

\* A vault holds what a call sent to it, in a transaction that was mined.
VaultPlace ==
    \A v \in Uuids : vaults[v] \in Ciphertexts =>
        LET u == vaults[v].call
        IN  writeTx[u] = "success" /\ uuid[u] = v /\ encryptedData[u] = vaults[v]

\* The contract grants a vault once.
GrantPlace ==
    /\ \A u \in Uploads : granted[u] # None => granted[u] \in Allocated
    /\ \A u, w \in Uploads : granted[u] # None /\ granted[u] = granted[w] => u = w

\* The label is the vault's, or nobody looked at it.
Labelled(u) ==
    \/ encryptedData[u].label \in {uuid[u], None}
    \/ flow[u] = "write" /\ u \notin checked

\* What a call has done at each of its places, and what its transactions carry.
CallPlace(u) ==
    /\ pc[u] \in {"start", "conditions", "allocate"} => allocateTx[u] = "none"
    /\ pc[u] \notin {"written", "over"} => writeTx[u] = "none"
    /\ pc[u] \notin {"size", "write", "written", "over"} => u \notin checked
    /\ pc[u] = "allocate" \/ allocateTx[u] # "none" => conditions[u] \in {"sound", "skipped"}
    /\ allocateTx[u] = "success" => granted[u] # None
    /\ flow[u] # "write" /\ uuid[u] # None => allocateTx[u] = "success" /\ uuid[u] = granted[u]
    /\ pc[u] = "encrypt" => uuid[u] # None
    /\ pc[u] \in {"label", "size", "write", "written"} \/ writeTx[u] # "none" =>
           uuid[u] # None /\ encryptedData[u] # None /\ encryptedData[u].call = u
    /\ pc[u] = "label" /\ flow[u] # "write" => encryptedData[u].label = uuid[u]
    /\ pc[u] \in {"size", "write", "written"} \/ writeTx[u] # "none" => Labelled(u)
    /\ flow[u] = "uploadFile" /\ (pc[u] \notin {"start", "over"} \/ writeTx[u] # "none") =>
           u \in stored
    /\ outcome[u] = "resolved" => writeTx[u] \in {"success", "reverted"}

UploadInv ==
    /\ LoaderInv
    /\ Shapes
    /\ VaultPlace
    /\ GrantPlace
    /\ \A u \in Uploads : CallPlace(u)

------------------------------------------------------------------------------

LEMMA UuidsAreNaturals == Uuids \subseteq Nat
BY UploadsAssumption, FS_CardinalityType DEF Uuids

\* validateConditionContract accepts nothing but the zero address and contracts that
\* implement the interface: a fallback answers the sentinel too.
LEMMA AcceptedImplement == ASSUME NEW kind \in Kinds, Accepted(kind) PROVE Implements(kind)
BY DEF Kinds, Accepted, Probes, Implements

------------------------------------------------------------------------------
USE DEF vars, chainVars, callVars, loaderVars, InitPlaces, Flows, TxStates, Places, Outcomes
USE LoaderAssumption, UploadNoneAssumption

(* The loader. *)

LEMMA LoaderInvInit == LoaderInit => LoaderInv
BY DEF LoaderInit, LoaderInv, LoaderTypeOK, LoaderIsShared

LEMMA LoaderInvStep == LoaderInv /\ LoaderNext => LoaderInv'
<1> SUFFICES ASSUME LoaderInv, LoaderNext PROVE LoaderInv'
    OBVIOUS
<1> USE DEF LoaderInv, LoaderTypeOK, LoaderIsShared
<1>1. ASSUME NEW i \in Inits, InitReturns(i) \/ InitJoins(i) PROVE LoaderInv'
    BY <1>1 DEF InitReturns, InitJoins
<1>2. ASSUME NEW i \in Inits, InitStarts(i) PROVE LoaderInv'
    BY <1>2 DEF InitStarts
<1>3. ASSUME NEW i \in Inits, Load(i) \/ LoadFails(i) PROVE LoaderInv'
    BY <1>3 DEF Load, LoadFails
<1>4. ASSUME NEW i \in Inits, Finally(i) PROVE LoaderInv'
    BY <1>4 DEF Finally
<1>5. ASSUME NEW i \in Inits, JoinSettles(i) PROVE LoaderInv'
    BY <1>5 DEF JoinSettles
<1>6. ASSUME ResetWasm PROVE LoaderInv'
    BY <1>6 DEF ResetWasm
<1> QED BY <1>1, <1>2, <1>3, <1>4, <1>5, <1>6 DEF LoaderNext

------------------------------------------------------------------------------
(* What a step of one call leaves alone. *)

\* Nothing of w moves; others may store their files and have their labels checked.
Still(w) ==
    /\ flow'[w] = flow[w] /\ pc'[w] = pc[w] /\ outcome'[w] = outcome[w]
    /\ conditions'[w] = conditions[w] /\ granted'[w] = granted[w]
    /\ uuid'[w] = uuid[w] /\ encryptedData'[w] = encryptedData[w]
    /\ allocateTx'[w] = allocateTx[w] /\ writeTx'[w] = writeTx[w]
    /\ w \in stored => w \in stored'
    /\ w \in checked' <=> w \in checked

LEMMA CallStill ==
    ASSUME NEW w \in Uploads, CallPlace(w), Still(w)
    PROVE  CallPlace(w)'
BY DEF CallPlace, Labelled, Still

\* A step of one call that does not rewrite what it has sent.
LEMMA OneCallMoves ==
    ASSUME UploadInv, NEW u \in Uploads, Shapes', CallPlace(u)',
           UNCHANGED <<loaderVars, vaults, granted>>,
           \A w \in Uploads \ {u} : Still(w),
           writeTx[u] # "none" => UNCHANGED <<writeTx, uuid, encryptedData>>
    PROVE  UploadInv'
<1>1. LoaderInv'
    BY DEF UploadInv, LoaderInv, LoaderTypeOK, LoaderIsShared
<1>2. VaultPlace'
    <2> SUFFICES ASSUME NEW v \in Uuids, vaults[v] \in Ciphertexts, NEW w, w = vaults[v].call
                 PROVE  writeTx'[w] = "success" /\ uuid'[w] = v /\ encryptedData'[w] = vaults[v]
        BY DEF VaultPlace
    <2>1. w \in Uploads /\ writeTx[w] = "success" /\ uuid[w] = v /\ encryptedData[w] = vaults[v]
        BY DEF UploadInv, VaultPlace, Ciphertexts
    <2> QED BY <2>1 DEF Still
<1>3. GrantPlace'
    BY DEF UploadInv, GrantPlace, Allocated
<1>4. ASSUME NEW w \in Uploads PROVE CallPlace(w)'
    BY <1>4, CallStill DEF UploadInv
<1> QED BY <1>1, <1>2, <1>3, <1>4 DEF UploadInv

------------------------------------------------------------------------------
(* The steps of a call. *)

LEMMA UploadStepKeeps ==
    ASSUME UploadInv, NEW u \in Uploads, UploadStep(u)
    PROVE  UploadInv'
<1>0. Shapes /\ CallPlace(u)
    BY DEF UploadInv
<1> USE DEF Goto, End
<1>1. CASE StoreFile(u)
    <2>1. Shapes'
        BY <1>0, <1>1 DEF StoreFile, Shapes
    <2>2. CallPlace(u)'
        BY <1>0, <1>1 DEF StoreFile, Shapes, CallPlace, Labelled
    <2>3. /\ \A w \in Uploads \ {u} : Still(w)
          /\ UNCHANGED <<loaderVars, vaults, granted>>
          /\ writeTx[u] # "none" => UNCHANGED <<writeTx, uuid, encryptedData>>
        BY <1>0, <1>1 DEF StoreFile, Shapes, Still, CallPlace
    <2> QED BY <2>1, <2>2, <2>3, OneCallMoves
<1>2. CASE StartUpload(u)
    <2>1. Shapes'
        BY <1>0, <1>2 DEF StartUpload, Shapes
    <2>2. CallPlace(u)'
        BY <1>0, <1>2 DEF StartUpload, Shapes, CallPlace, Labelled
    <2>3. /\ \A w \in Uploads \ {u} : Still(w)
          /\ UNCHANGED <<loaderVars, vaults, granted>>
          /\ writeTx[u] # "none" => UNCHANGED <<writeTx, uuid, encryptedData>>
        BY <1>0, <1>2 DEF StartUpload, Shapes, Still, CallPlace
    <2> QED BY <2>1, <2>2, <2>3, OneCallMoves
<1>3. CASE ValidateConditions(u)
    <2>1. Shapes'
        BY <1>0, <1>3 DEF ValidateConditions, Shapes
    <2>2. CallPlace(u)'
        BY <1>0, <1>3, AcceptedImplement DEF ValidateConditions, Shapes, CallPlace, Labelled
    <2>3. /\ \A w \in Uploads \ {u} : Still(w)
          /\ UNCHANGED <<loaderVars, vaults, granted>>
          /\ writeTx[u] # "none" => UNCHANGED <<writeTx, uuid, encryptedData>>
        BY <1>0, <1>3 DEF ValidateConditions, Shapes, Still, CallPlace
    <2> QED BY <2>1, <2>2, <2>3, OneCallMoves
<1>4. CASE Allocate(u)
    <2>1. Shapes'
        BY <1>0, <1>4 DEF Allocate, Shapes
    <2>2. CallPlace(u)'
        BY <1>0, <1>4 DEF Allocate, Shapes, CallPlace, Labelled
    <2>3. /\ \A w \in Uploads \ {u} : Still(w)
          /\ UNCHANGED <<loaderVars, vaults, granted>>
          /\ writeTx[u] # "none" => UNCHANGED <<writeTx, uuid, encryptedData>>
        BY <1>0, <1>4 DEF Allocate, Shapes, Still, CallPlace
    <2> QED BY <2>1, <2>2, <2>3, OneCallMoves
<1>5. CASE AwaitAllocation(u)
    <2>1. Shapes'
        BY <1>0, <1>5 DEF AwaitAllocation, Shapes
    <2>2. CallPlace(u)'
        BY <1>0, <1>5 DEF AwaitAllocation, Shapes, CallPlace, Labelled
    <2>3. /\ \A w \in Uploads \ {u} : Still(w)
          /\ UNCHANGED <<loaderVars, vaults, granted>>
          /\ writeTx[u] # "none" => UNCHANGED <<writeTx, uuid, encryptedData>>
        BY <1>0, <1>5 DEF AwaitAllocation, Shapes, Still, CallPlace
    <2> QED BY <2>1, <2>2, <2>3, OneCallMoves
<1>6. CASE Encrypt(u)
    <2>1. Shapes'
        <3>1. /\ encryptedData' = encryptedData
                 \/ encryptedData' = [encryptedData EXCEPT ![u] = [label |-> uuid[u], call |-> u]]
              /\ Goto(u, "label") \/ End(u, "noWasm") \/ End(u, "restError")
              /\ UNCHANGED <<loaderVars, chainVars, stored, flow, conditions, uuid, checked>>
            BY <1>6 DEF Encrypt
        <3>2. [label |-> uuid[u], call |-> u] \in Ciphertexts
            BY <1>0 DEF Shapes, Ciphertexts
        <3>3. encryptedData' \in [Uploads -> Ciphertexts \cup {None}]
            <4> HIDE DEF Ciphertexts
            <4> QED BY <1>0, <3>1, <3>2 DEF Shapes
        <3>4. pc' \in [Uploads -> Places] /\ outcome' \in [Uploads -> Outcomes]
            BY <1>0, <3>1 DEF Shapes
        <3> HIDE DEF Ciphertexts
        <3> QED BY <1>0, <3>1, <3>3, <3>4 DEF Shapes
    <2>2. CallPlace(u)'
        <3>1. CASE pc'[u] = "label"
            <4>1. /\ encryptedData'[u] = [label |-> uuid[u], call |-> u]
                  /\ UNCHANGED <<chainVars, stored, flow, conditions, uuid, outcome, checked>>
                BY <1>0, <1>6, <3>1 DEF Encrypt, Shapes
            <4>2. /\ encryptedData'[u] # None
                  /\ encryptedData'[u].label = uuid[u] /\ encryptedData'[u].call = u
                BY <1>0, <4>1 DEF Shapes, Ciphertexts
            <4> QED BY <1>0, <1>6, <3>1, <4>1, <4>2 DEF Encrypt, CallPlace
        <3>2. CASE pc'[u] # "label"
            <4>1. pc' = [pc EXCEPT ![u] = "over"] /\ UNCHANGED encryptedData
                BY <1>0, <1>6, <3>2 DEF Encrypt, Shapes
            <4> QED BY <1>0, <1>6, <4>1 DEF Encrypt, Shapes, CallPlace, Labelled
        <3> QED BY <3>1, <3>2
    <2>3. /\ \A w \in Uploads \ {u} : Still(w)
          /\ UNCHANGED <<loaderVars, vaults, granted>>
          /\ writeTx[u] # "none" => UNCHANGED <<writeTx, uuid, encryptedData>>
        BY <1>0, <1>6 DEF Encrypt, Shapes, Still, CallPlace
    <2> QED BY <2>1, <2>2, <2>3, OneCallMoves
<1>7. CASE CallWrite(u)
    <2>1. PICK v \in Allocated, l \in Uuids \cup {None}, next \in {"label", "size"} :
              /\ uuid' = [uuid EXCEPT ![u] = v]
              /\ encryptedData' = [encryptedData EXCEPT ![u] = [label |-> l, call |-> u]]
              /\ pc' = [pc EXCEPT ![u] = next] /\ UNCHANGED outcome
        BY <1>7 DEF CallWrite
    <2>2. v \in Uuids /\ [label |-> l, call |-> u] \in Ciphertexts
        BY DEF Allocated, Ciphertexts
    <2>3. Shapes'
        BY <1>0, <1>7, <2>1, <2>2 DEF CallWrite, Shapes
    <2>4. CallPlace(u)'
        <3>1. /\ uuid'[u] = v /\ encryptedData'[u] = [label |-> l, call |-> u]
              /\ pc'[u] = next /\ pc[u] = "start" /\ flow[u] = "write"
              /\ UNCHANGED <<chainVars, stored, flow, conditions, outcome, checked>>
            BY <1>0, <1>7, <2>1 DEF CallWrite, Shapes
        <3>2. uuid'[u] # None /\ encryptedData'[u] # None /\ encryptedData'[u].call = u
            BY <2>2, <3>1
        <3> QED BY <1>0, <3>1, <3>2 DEF CallPlace, Labelled
    <2>5. /\ \A w \in Uploads \ {u} : Still(w)
          /\ UNCHANGED <<loaderVars, vaults, granted>>
          /\ writeTx[u] # "none" => UNCHANGED <<writeTx, uuid, encryptedData>>
        BY <1>0, <1>7, <2>1 DEF CallWrite, Shapes, Still, CallPlace
    <2> QED BY <2>3, <2>4, <2>5, OneCallMoves
<1>8. CASE CheckLabel(u)
    <2>1. Shapes'
        BY <1>0, <1>8 DEF CheckLabel, Shapes
    <2>2. CallPlace(u)'
        BY <1>0, <1>8 DEF CheckLabel, Shapes, CallPlace, Labelled
    <2>3. /\ \A w \in Uploads \ {u} : Still(w)
          /\ UNCHANGED <<loaderVars, vaults, granted>>
          /\ writeTx[u] # "none" => UNCHANGED <<writeTx, uuid, encryptedData>>
        BY <1>0, <1>8 DEF CheckLabel, Shapes, Still, CallPlace
    <2> QED BY <2>1, <2>2, <2>3, OneCallMoves
<1>9. CASE CheckSize(u)
    <2>1. Shapes'
        BY <1>0, <1>9 DEF CheckSize, Shapes
    <2>2. CallPlace(u)'
        BY <1>0, <1>9 DEF CheckSize, Shapes, CallPlace, Labelled
    <2>3. /\ \A w \in Uploads \ {u} : Still(w)
          /\ UNCHANGED <<loaderVars, vaults, granted>>
          /\ writeTx[u] # "none" => UNCHANGED <<writeTx, uuid, encryptedData>>
        BY <1>0, <1>9 DEF CheckSize, Shapes, Still, CallPlace
    <2> QED BY <2>1, <2>2, <2>3, OneCallMoves
<1>10. CASE Write(u)
    <2>1. Shapes'
        BY <1>0, <1>10 DEF Write, Shapes
    <2>2. CallPlace(u)'
        BY <1>0, <1>10 DEF Write, Shapes, CallPlace, Labelled
    <2>3. /\ \A w \in Uploads \ {u} : Still(w)
          /\ UNCHANGED <<loaderVars, vaults, granted>>
          /\ writeTx[u] # "none" => UNCHANGED <<writeTx, uuid, encryptedData>>
        BY <1>0, <1>10 DEF Write, Shapes, Still, CallPlace
    <2> QED BY <2>1, <2>2, <2>3, OneCallMoves
<1>11. CASE AwaitWrite(u)
    <2>1. Shapes'
        BY <1>0, <1>11 DEF AwaitWrite, Shapes
    <2>2. CallPlace(u)'
        BY <1>0, <1>11 DEF AwaitWrite, Shapes, CallPlace, Labelled
    <2>3. /\ \A w \in Uploads \ {u} : Still(w)
          /\ UNCHANGED <<loaderVars, vaults, granted>>
          /\ writeTx[u] # "none" => UNCHANGED <<writeTx, uuid, encryptedData>>
        BY <1>0, <1>11 DEF AwaitWrite, Shapes, Still, CallPlace
    <2> QED BY <2>1, <2>2, <2>3, OneCallMoves
<1> QED BY <1>1, <1>2, <1>3, <1>4, <1>5, <1>6, <1>7, <1>8, <1>9, <1>10, <1>11 DEF UploadStep

LEMMA MineAllocateKeeps ==
    ASSUME UploadInv, NEW u \in Uploads, MineAllocate(u)
    PROVE  UploadInv'
<1>0. Shapes /\ VaultPlace /\ GrantPlace /\ CallPlace(u) /\ LoaderInv
    BY DEF UploadInv
<1>1. LoaderInv'
    BY <1>0 DEF MineAllocate, LoaderInv, LoaderTypeOK, LoaderIsShared
<1>2. Shapes'
    BY <1>0 DEF MineAllocate, Shapes
<1>3. ASSUME NEW w \in Uploads PROVE CallPlace(w)'
    <2>1. CASE w # u
        <3>1. Still(w)
            BY <1>0, <2>1 DEF MineAllocate, Shapes, Still
        <3> QED BY <2>1, <3>1, CallStill DEF UploadInv
    <2>2. CASE w = u
        BY <1>0, <2>2 DEF MineAllocate, Shapes, CallPlace, Labelled
    <2> QED BY <2>1, <2>2
<1>4. CASE UNCHANGED <<vaults, granted>>
    <2>1. VaultPlace' /\ GrantPlace'
        BY <1>0, <1>4 DEF MineAllocate, VaultPlace, GrantPlace, Allocated
    <2> QED BY <1>1, <1>2, <1>3, <2>1 DEF UploadInv
<1>5. ASSUME NEW v \in Uuids, Allocated = 1..(v - 1),
             vaults' = [vaults EXCEPT ![v] = Empty], granted' = [granted EXCEPT ![u] = v]
      PROVE  VaultPlace' /\ GrantPlace'
    <2>1. v \in Nat /\ v \notin Allocated
        BY <1>5, UuidsAreNaturals
    <2>2. Allocated' = Allocated \cup {v}
        BY <1>0, <1>5 DEF Allocated, Shapes
    <2>3. GrantPlace'
        BY <1>0, <1>5, <2>1, <2>2 DEF GrantPlace, Shapes
    <2>4. VaultPlace'
        BY <1>0, <1>5 DEF MineAllocate, VaultPlace, Shapes
    <2> QED BY <2>3, <2>4
<1>6. \/ UNCHANGED <<vaults, granted>>
      \/ \E v \in Uuids : /\ Allocated = 1..(v - 1)
                          /\ vaults' = [vaults EXCEPT ![v] = Empty]
                          /\ granted' = [granted EXCEPT ![u] = v]
    BY DEF MineAllocate
<1> QED BY <1>1, <1>2, <1>3, <1>4, <1>5, <1>6 DEF UploadInv

LEMMA MineWriteKeeps ==
    ASSUME UploadInv, NEW u \in Uploads, MineWrite(u)
    PROVE  UploadInv'
<1>0. Shapes /\ VaultPlace /\ GrantPlace /\ CallPlace(u) /\ LoaderInv
    BY DEF UploadInv
<1>1. LoaderInv'
    BY <1>0 DEF MineWrite, LoaderInv, LoaderTypeOK, LoaderIsShared
<1>2. uuid[u] \in Uuids /\ encryptedData[u] \in Ciphertexts /\ encryptedData[u].call = u
    BY <1>0 DEF MineWrite, Shapes, CallPlace
<1>3. Shapes'
    BY <1>0, <1>2 DEF MineWrite, Shapes
<1>4. ASSUME NEW w \in Uploads PROVE CallPlace(w)'
    <2>1. CASE w # u
        <3>1. Still(w)
            BY <1>0, <2>1 DEF MineWrite, Shapes, Still
        <3> QED BY <2>1, <3>1, CallStill DEF UploadInv
    <2>2. CASE w = u
        BY <1>0, <2>2 DEF MineWrite, Shapes, CallPlace, Labelled
    <2> QED BY <2>1, <2>2
<1>5. GrantPlace'
    <2>1. Allocated \subseteq Allocated' /\ granted' = granted
        BY <1>0, <1>2 DEF MineWrite, Allocated, Shapes
    <2> QED BY <1>0, <2>1 DEF GrantPlace
<1>6. VaultPlace'
    <2> SUFFICES ASSUME NEW v \in Uuids, vaults'[v] \in Ciphertexts, NEW w, w = vaults'[v].call
                 PROVE  writeTx'[w] = "success" /\ uuid'[w] = v /\ encryptedData'[w] = vaults'[v]
        BY DEF VaultPlace
    <2>1. UNCHANGED <<uuid, encryptedData>> /\ writeTx[u] = "pending"
        BY DEF MineWrite
    <2>2. CASE vaults'[v] = vaults[v]
        <3>1. /\ writeTx[w] = "success" /\ uuid[w] = v /\ encryptedData[w] = vaults[v]
              /\ w \in Uploads
            BY <1>0, <2>2 DEF VaultPlace, Ciphertexts
        <3> QED BY <1>0, <2>1, <2>2, <3>1 DEF MineWrite, Shapes
    <2>3. CASE vaults'[v] # vaults[v]
        <3>1. /\ v = uuid[u] /\ vaults'[v] = encryptedData[u]
              /\ writeTx' = [writeTx EXCEPT ![u] = "success"]
            BY <1>0, <2>3 DEF MineWrite, Shapes
        <3> QED BY <1>0, <1>2, <2>1, <3>1 DEF Shapes
    <2> QED BY <2>2, <2>3
<1> QED BY <1>1, <1>3, <1>4, <1>5, <1>6 DEF UploadInv

------------------------------------------------------------------------------
LEMMA UploadInvInit == Init => UploadInv
<1> SUFFICES ASSUME Init PROVE UploadInv
    OBVIOUS
<1>1. LoaderInv
    BY LoaderInvInit DEF Init
<1>2. Shapes
    BY DEF Init, Shapes
<1>3. VaultPlace /\ GrantPlace
    BY DEF Init, VaultPlace, GrantPlace
<1>4. \A u \in Uploads : CallPlace(u)
    BY DEF Init, CallPlace
<1> QED BY <1>1, <1>2, <1>3, <1>4 DEF UploadInv

LEMMA UploadInvStep == UploadInv /\ [Next]_vars => UploadInv'
<1> SUFFICES ASSUME UploadInv, [Next]_vars PROVE UploadInv'
    OBVIOUS
<1>1. ASSUME NEW u \in Uploads, UploadStep(u) PROVE UploadInv'
    BY <1>1, UploadStepKeeps
<1>2. ASSUME NEW u \in Uploads, MineAllocate(u) PROVE UploadInv'
    BY <1>2, MineAllocateKeeps
<1>3. ASSUME NEW u \in Uploads, MineWrite(u) PROVE UploadInv'
    BY <1>3, MineWriteKeeps
<1>4. ASSUME LoaderInv', UNCHANGED <<chainVars, stored, callVars>> PROVE UploadInv'
    <2>1. Shapes' /\ VaultPlace' /\ GrantPlace'
        BY <1>4 DEF UploadInv, Shapes, VaultPlace, GrantPlace, Allocated
    <2>2. ASSUME NEW w \in Uploads PROVE CallPlace(w)'
        BY <1>4, <2>2, CallStill DEF UploadInv, Still
    <2> QED BY <1>4, <2>1, <2>2 DEF UploadInv
<1>5. CASE LoaderNext /\ UNCHANGED <<chainVars, stored, callVars>>
    BY <1>4, <1>5, LoaderInvStep DEF UploadInv
<1>6. CASE UNCHANGED vars
    <2>1. LoaderInv'
        BY <1>6 DEF UploadInv, LoaderInv, LoaderTypeOK, LoaderIsShared
    <2> QED BY <1>4, <1>6, <2>1
<1> QED BY <1>1, <1>2, <1>3, <1>5, <1>6 DEF Next

\* At every place a call holds what its steps gave it, and the slots what was written.
THEOREM UploadInvariant == Spec => []UploadInv
BY UploadInvInit, UploadInvStep, PTL DEF Spec

\* Calls and slots keep their types, and a call past its allocation has a vault, one
\* past its encryption a ciphertext.
THEOREM TypeCorrect == Spec => []TypeOK
<1>1. UploadInv => TypeOK
    BY DEF UploadInv, Shapes, CallPlace, LoaderInv, TypeOK
<1> QED BY <1>1, UploadInvariant, PTL

\* A load whose caller was told its end is given to nobody any more, and those who were
\* given it end as it did; until a reset one load is in flight at a time, and a call that
\* resolved finds the module loaded.
THEOREM LoadsAreShared == Spec => []LoaderIsShared
<1>1. UploadInv => LoaderIsShared
    BY DEF UploadInv, LoaderInv
<1> QED BY <1>1, UploadInvariant, PTL

\* A vault's ciphertext has the vault's label, or none, or was written without the check.
THEOREM LabelsAreBound == Spec => []LabelBound
<1>1. ASSUME UploadInv PROVE LabelBound
    <2> SUFFICES ASSUME NEW v \in Uuids, vaults[v] # None, vaults[v] # Empty
                 PROVE  \/ vaults[v].label \in {v, None}
                        \/ flow[vaults[v].call] = "write" /\ vaults[v].call \notin checked
        BY DEF LabelBound, Allocated
    <2>1. vaults[v] \in Ciphertexts /\ vaults[v].call \in Uploads
        BY <1>1 DEF UploadInv, Shapes, Ciphertexts
    <2>2. Labelled(vaults[v].call)
        BY <1>1, <2>1 DEF UploadInv, VaultPlace, CallPlace
    <2> QED BY <1>1, <2>1, <2>2 DEF UploadInv, VaultPlace, Labelled
<1> QED BY <1>1, UploadInvariant, PTL

\* An upload writes to the vault it allocated and after it stored its file, and resolves
\* after both its transactions.
THEOREM WritesStayHome == Spec => []OwnVault
<1>1. ASSUME UploadInv PROVE OwnVault
    <2>1. ASSUME NEW v \in Uuids, vaults[v] # None, vaults[v] # Empty,
                 NEW u, u = vaults[v].call, flow[u] # "write"
          PROVE  granted[u] = v /\ (flow[u] = "uploadFile" => u \in stored)
        <3>1. vaults[v] \in Ciphertexts /\ u \in Uploads
            BY <1>1, <2>1 DEF UploadInv, Shapes, Ciphertexts
        <3>2. CallPlace(u) /\ writeTx[u] = "success" /\ uuid[u] = v
            BY <1>1, <2>1, <3>1 DEF UploadInv, VaultPlace
        <3> QED BY <2>1, <3>2 DEF CallPlace
    <2>2. ASSUME NEW u \in Uploads, outcome[u] = "resolved"
          PROVE  /\ writeTx[u] \in {"success", "reverted"}
                 /\ flow[u] # "write" => allocateTx[u] = "success" /\ uuid[u] = granted[u]
        BY <1>1, <2>2 DEF UploadInv, CallPlace
    <2> QED BY <2>1, <2>2 DEF OwnVault, Allocated
<1> QED BY <1>1, UploadInvariant, PTL

\* Two uploads never work on the same vault, so that neither writes over the other.
THEOREM VaultsAreNotShared ==
    Spec => [](\A u, w \in Uploads :
                   /\ flow[u] # "write" /\ flow[w] # "write"
                   /\ uuid[u] # None /\ uuid[u] = uuid[w]
                   => u = w)
<1>1. UploadInv => \A u, w \in Uploads :
          /\ flow[u] # "write" /\ flow[w] # "write"
          /\ uuid[u] # None /\ uuid[u] = uuid[w]
          => u = w
    BY DEF UploadInv, CallPlace, GrantPlace
<1> QED BY <1>1, UploadInvariant, PTL

\* No allocation is submitted with a condition that was seen not to implement the
\* interface.
THEOREM ConditionsAreSound == Spec => []ConditionsImplement
<1>1. UploadInv => ConditionsImplement
    BY DEF UploadInv, CallPlace, ConditionsImplement
<1> QED BY <1>1, UploadInvariant, PTL

==============================================================================
