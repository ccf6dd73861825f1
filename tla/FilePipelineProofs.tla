-------------------------- MODULE FilePipelineProofs --------------------------
(***************************************************************************)
(* What downloadFile returns, what it calls a corruption, and that a vault *)
(* keeps its file, for every number of files and every way the library     *)
(* calls end.                                                              *)
(***************************************************************************)
EXTENDS FilePipeline, TLAPS

------------------------------------------------------------------------------
(* The inductive invariant. *)

UpPlaces == {"idle", "store", "pin", "allocate", "encrypt", "write", "label", "send",
             "done", "failed"}
DownPlaces == {"idle", "combine", "fetch", "verify", "ok", "AccessError", "PayloadError",
               "StorageError", "CidIntegrityError", "DecryptionError"}

\* No bytes but those of encryptFile, and garbage.
Sealed == {EncryptFile(f) : f \in Files} \cup {Garbage}

Shapes ==
    /\ provider \in Providers /\ size \in [Files -> Sizes]
    /\ pin \in BOOLEAN /\ skip \in BOOLEAN /\ served \in BOOLEAN
    /\ up \in [Files -> [pc : UpPlaces, bytes : Sealed, cid : Cids \cup {None}]]
    /\ stored \subseteq [cid : Cids, pinned : BOOLEAN]
    /\ vault \in [Files -> Payloads \cup {None, Other}]
    /\ down \in [pc : DownPlaces, of : Files \cup {None},
                 payload : Payloads \cup {None, Other},
                 bytes : Sealed, content : Files \cup {None}]

\* A vault payload that names f's file and opens it.
Names(payload, f) == payload.key = f /\ payload.cid.bytes = EncryptFile(f)

Kept(f) == \E s \in stored : s.cid = up[f].cid /\ s.pinned

\* What an upload has behind it: the file sealed, its CID, the pin if asked for (but
\* from Helia), and only at the end the vault.
UpPlace(f) ==
    /\ up[f].pc # "idle" => up[f].bytes = EncryptFile(f)
    /\ up[f].pc \notin {"idle", "store", "failed"} =>
           up[f].cid \in Cids /\ up[f].cid.bytes = EncryptFile(f)
    /\ vault[f] # None => up[f].pc = "done"
    /\ vault[f] \in Payloads => Names(vault[f], f)
    /\ pin /\ provider # "helia" /\ up[f].pc \notin {"idle", "store", "pin", "failed"} =>
           Kept(f)

\* What a download holds: a payload of the vault it asked for, and other bytes than
\* the stored ones only once it was served them.
DownPlace ==
    /\ down.payload \in Payloads => down.of \in Files /\ Names(down.payload, down.of)
    /\ down.pc = "idle" => down.payload = None
    /\ down.pc = "combine" => down.payload # None
    /\ down.pc \in {"fetch", "verify"} => down.payload \in Payloads
    /\ down.pc \in {"idle", "combine", "fetch"} => ~served
    /\ down.pc = "verify" /\ served => down.bytes # down.payload.cid.bytes
    /\ down.pc \in {"ok", "DecryptionError"} /\ ~skip => ~served
    /\ down.pc = "ok" => down.content = down.of

FileInv ==
    /\ Shapes
    /\ \A f \in Files : UpPlace(f)
    /\ DownPlace

------------------------------------------------------------------------------
(* Keys, bytes and CIDs. *)

\* Every file has a key of its own, so bytes that open with it are its own.
LEMMA SealedBytes ==
    /\ Sealed \subseteq Bytes
    /\ \A b \in Sealed : b.content = b.key
    /\ \A f \in Files : EncryptFile(f) \in Sealed /\ EncryptFile(f).key = f
BY DEF Sealed, Bytes, Garbage, EncryptFile, RandomKey

LEMMA CodecsOfCids == \A f \in Files : Codecs(f) \subseteq {"raw", "node", "piece"}
BY DEF Codecs

------------------------------------------------------------------------------
USE DEF vars, fileVars, UpPlaces, DownPlaces
USE ValuesAssumption

\* A step that touches one upload, and no pin of another's.
LEMMA OneUploadMoves ==
    ASSUME FileInv, NEW f \in Files, Shapes', UpPlace(f)',
           UNCHANGED <<provider, pin, skip, down, served>>,
           \A g \in Files \ {f} : /\ up'[g] = up[g] /\ vault'[g] = vault[g]
                                  /\ Kept(g) => Kept(g)'
    PROVE  FileInv'
<1>1. ASSUME NEW g \in Files PROVE UpPlace(g)'
    <2>1. CASE g # f
        BY <2>1 DEF FileInv, UpPlace, Names
    <2> QED BY <2>1
<1>2. DownPlace'
    BY DEF FileInv, DownPlace, Names
<1> QED BY <1>1, <1>2 DEF FileInv

\* A step of the download, or of nobody.
LEMMA NoUploadMoves ==
    ASSUME FileInv, Shapes', DownPlace', UNCHANGED <<provider, pin, up, vault, stored>>
    PROVE  FileInv'
<1>1. ASSUME NEW g \in Files PROVE UpPlace(g)'
    BY <1>1 DEF FileInv, UpPlace, Names, Kept
<1> QED BY <1>1 DEF FileInv

------------------------------------------------------------------------------
(* The upload. *)

LEMMA UploadKeeps ==
    ASSUME FileInv, Fixed, NEW f \in Files,
           \/ StartUpload(f) \/ Add(f) \/ AddFails(f) \/ Pin(f) \/ PinUniterated(f)
           \/ Allocate(f) \/ Encrypted(f) \/ CheckLabel(f) \/ Labelled(f) \/ Write(f)
    PROVE  FileInv'
<1>0. Shapes /\ UpPlace(f)
    BY DEF FileInv
<1> USE DEF Fixed, Upload, UpTo
<1>1. CASE StartUpload(f)
    <2>1. Shapes'
        <3>1. EncryptFile(f) \in Sealed
            BY SealedBytes
        <3> DEFINE r == [[up[f] EXCEPT !.pc = "store"] EXCEPT !.bytes = EncryptFile(f)]
        <3>2. up' = [up EXCEPT ![f] = r]
            BY <1>0, <1>1 DEF StartUpload, Shapes
        <3>3. up[f] \in [pc : UpPlaces, bytes : Sealed, cid : Cids \cup {None}]
            BY <1>0 DEF Shapes
        <3>4. r \in [pc : UpPlaces, bytes : Sealed, cid : Cids \cup {None}]
            BY <3>1, <3>3
        <3> HIDE DEF r
        <3>5. up' \in [Files -> [pc : UpPlaces, bytes : Sealed, cid : Cids \cup {None}]]
            <4> HIDE DEF UpPlaces
            <4> QED BY <1>0, <3>2, <3>4 DEF Shapes
        <3> QED BY <1>0, <1>1, <3>5 DEF StartUpload, Shapes
    <2>2. UpPlace(f)'
        BY <1>0, <1>1 DEF StartUpload, Shapes, UpPlace
    <2>3. \A g \in Files \ {f} : up'[g] = up[g] /\ vault'[g] = vault[g] /\ (Kept(g) => Kept(g)')
        BY <1>0, <1>1 DEF StartUpload, Shapes, Kept
    <2> QED BY <1>1, <2>1, <2>2, <2>3, OneUploadMoves DEF StartUpload
<1>2. CASE Add(f)
    <2>1. PICK codec \in Codecs(f) :
              LET cid == [of |-> codec, bytes |-> up[f].bytes]
              IN  /\ stored' = stored \cup {[cid |-> cid, pinned |-> ~Pinning]}
                  /\ up' = [up EXCEPT ![f].cid = cid,
                                      ![f].pc = IF Pinning /\ pin THEN "pin" ELSE "allocate"]
        BY <1>2 DEF Add
    <2> DEFINE cid == [of |-> codec, bytes |-> up[f].bytes]
               next == IF Pinning /\ pin THEN "pin" ELSE "allocate"
    <2>2. cid \in Cids /\ cid.bytes = EncryptFile(f) /\ up[f].pc = "store"
        BY <1>0, <1>2, SealedBytes, CodecsOfCids DEF Add, Shapes, UpPlace, Cids
    <2>3. [cid |-> cid, pinned |-> ~Pinning] \in [cid : Cids, pinned : BOOLEAN]
        BY <2>2 DEF Pinning
    <2> DEFINE Uploaded == [pc : UpPlaces, bytes : Sealed, cid : Cids \cup {None}]
               r == [[up[f] EXCEPT !.cid = cid] EXCEPT !.pc = next]
    <2>4. /\ stored' = stored \cup {[cid |-> cid, pinned |-> ~Pinning]}
          /\ up' = [up EXCEPT ![f] = r]
        BY <1>0, <2>1 DEF Shapes
    <2>5. r \in Uploaded /\ r.cid = cid /\ r.bytes = up[f].bytes /\ r.pc = next
        <3>1. up[f] \in Uploaded
            BY <1>0 DEF Shapes
        <3>2. next \in UpPlaces
            OBVIOUS
        <3> HIDE DEF cid, next, UpPlaces
        <3> QED BY <2>2, <3>1, <3>2
    <2> HIDE DEF cid, r
    <2>6. /\ Shapes'
          /\ up'[f].cid = cid /\ up'[f].bytes = up[f].bytes
          /\ up'[f].pc = IF Pinning /\ pin THEN "pin" ELSE "allocate"
        <3>1. up' \in [Files -> Uploaded]
            <4> HIDE DEF UpPlaces
            <4> QED BY <1>0, <2>4, <2>5 DEF Shapes
        <3>2. /\ up'[f] = r
              /\ stored' \subseteq [cid : Cids, pinned : BOOLEAN]
            BY <1>0, <2>3, <2>4 DEF Shapes
        <3>3. UNCHANGED <<provider, size, pin, skip, vault, down, served>>
            BY <1>2 DEF Add
        <3>4. Shapes'
            BY <1>0, <3>1, <3>2, <3>3 DEF Shapes
        <3> QED BY <2>5, <3>2, <3>3, <3>4
    <2>7. up'[f].pc = "allocate" /\ pin => Kept(f)'
        <3> SUFFICES ASSUME ~Pinning PROVE Kept(f)'
            BY <2>6
        <3>1. [cid |-> cid, pinned |-> TRUE] \in stored'
            BY <2>4
        <3> QED BY <2>6, <3>1 DEF Kept
    <2>8. UpPlace(f)'
        BY <1>0, <1>2, <2>2, <2>6, <2>7 DEF Add, UpPlace
    <2>9. \A g \in Files \ {f} : up'[g] = up[g] /\ vault'[g] = vault[g] /\ (Kept(g) => Kept(g)')
        BY <1>0, <1>2, <2>4 DEF Add, Shapes, Kept
    <2> QED BY <1>2, <2>6, <2>8, <2>9, OneUploadMoves DEF Add
<1>3. CASE AddFails(f)
    <2>1. Shapes'
        BY <1>0, <1>3 DEF AddFails, Shapes
    <2>2. UpPlace(f)'
        BY <1>0, <1>3 DEF AddFails, Shapes, UpPlace
    <2>3. \A g \in Files \ {f} : up'[g] = up[g] /\ vault'[g] = vault[g] /\ (Kept(g) => Kept(g)')
        BY <1>0, <1>3 DEF AddFails, Shapes, Kept
    <2> QED BY <1>3, <2>1, <2>2, <2>3, OneUploadMoves DEF AddFails
<1>4. CASE Pin(f)
    <2> DEFINE pinned == {[s EXCEPT !.pinned = @ \/ s.cid = up[f].cid] : s \in stored}
    <2>1. CASE stored' = pinned /\ up' = [up EXCEPT ![f].pc = "allocate"]
                   /\ \E s \in stored : s.cid = up[f].cid
        <3>1. /\ up'[f].pc = "allocate" /\ up'[f].cid = up[f].cid /\ up'[f].bytes = up[f].bytes
              /\ up[f].pc = "pin" /\ UNCHANGED <<vault, down, served>>
            BY <1>0, <1>4, <2>1 DEF Pin, Shapes
        <3>2. ASSUME NEW s \in stored
              PROVE  LET t == [s EXCEPT !.pinned = @ \/ s.cid = up[f].cid]
                     IN  /\ t \in stored' /\ t \in [cid : Cids, pinned : BOOLEAN]
                         /\ t.cid = s.cid /\ (s.pinned \/ s.cid = up[f].cid => t.pinned)
            <4> DEFINE t == [s EXCEPT !.pinned = @ \/ s.cid = up[f].cid]
            <4>1. s \in [cid : Cids, pinned : BOOLEAN]
                BY <1>0 DEF Shapes
            <4>2. t = [cid |-> s.cid, pinned |-> (s.pinned \/ s.cid = up[f].cid)]
                BY <4>1
            <4>3. t \in stored'
                BY <2>1
            <4>4. (s.pinned \/ s.cid = up[f].cid) \in BOOLEAN
                BY <4>1
            <4> QED BY <4>1, <4>2, <4>3, <4>4
        <3>3. stored' \subseteq [cid : Cids, pinned : BOOLEAN]
            BY <2>1, <3>2
        <3>4. Shapes'
            BY <1>0, <2>1, <3>1, <3>3 DEF Shapes
        <3>5. Kept(f)'
            BY <2>1, <3>1, <3>2 DEF Kept
        <3>6. UpPlace(f)'
            BY <1>0, <3>1, <3>5 DEF UpPlace
        <3>7. \A g \in Files \ {f} : up'[g] = up[g] /\ vault'[g] = vault[g]
            BY <1>0, <2>1, <3>1 DEF Shapes
        <3>8. \A g \in Files \ {f} : Kept(g) => Kept(g)'
            <4> SUFFICES ASSUME NEW g \in Files \ {f}, NEW s \in stored, s.cid = up[g].cid, s.pinned
                         PROVE  \E t \in stored' : t.cid = up'[g].cid /\ t.pinned
                BY DEF Kept
            <4> QED BY <3>2, <3>7
        <3> QED BY <3>1, <3>4, <3>6, <3>7, <3>8, OneUploadMoves
    <2>2. CASE up' = [up EXCEPT ![f].pc = "failed"] /\ UNCHANGED stored
        <3>1. Shapes'
            BY <1>0, <1>4, <2>2 DEF Pin, Shapes
        <3>2. UpPlace(f)'
            BY <1>0, <1>4, <2>2 DEF Pin, Shapes, UpPlace
        <3>3. \A g \in Files \ {f} : up'[g] = up[g] /\ vault'[g] = vault[g] /\ (Kept(g) => Kept(g)')
            BY <1>0, <1>4, <2>2 DEF Pin, Shapes, Kept
        <3> QED BY <1>4, <3>1, <3>2, <3>3, OneUploadMoves DEF Pin
    <2> QED BY <1>4, <2>1, <2>2 DEF Pin
<1>5. ASSUME NEW where \in {"encrypt", "write", "label", "send", "failed"},
             up' = [up EXCEPT ![f].pc = where], UNCHANGED <<stored, vault, down, served>>,
             up[f].pc \notin {"idle", "store", "pin", "done"},
             where # "failed" => up[f].pc # "failed"
      PROVE  FileInv'
    <2>1. Shapes'
        BY <1>0, <1>5 DEF Shapes
    <2>2. /\ up'[f].pc = where /\ up'[f].bytes = up[f].bytes /\ up'[f].cid = up[f].cid
          /\ \A g \in Files : Kept(g)' <=> Kept(g)
        BY <1>0, <1>5 DEF Shapes, Kept
    <2>3. UpPlace(f)'
        BY <1>0, <1>5, <2>2 DEF UpPlace, Names
    <2>4. \A g \in Files \ {f} : up'[g] = up[g] /\ vault'[g] = vault[g] /\ (Kept(g) => Kept(g)')
        BY <1>0, <1>5, <2>2 DEF Shapes
    <2> QED BY <1>5, <2>1, <2>3, <2>4, OneUploadMoves
<1>6. CASE Allocate(f) \/ Encrypted(f) \/ CheckLabel(f) \/ Labelled(f)
    BY <1>5, <1>6 DEF Allocate, Encrypted, CheckLabel, Labelled
<1>7. CASE Write(f) /\ up' = [up EXCEPT ![f].pc = "failed"] /\ UNCHANGED vault
    BY <1>5, <1>7 DEF Write
<1>8. CASE /\ Write(f) /\ up' = [up EXCEPT ![f].pc = "done"]
           /\ vault' = [vault EXCEPT ![f] = [cid |-> up[f].cid, key |-> up[f].bytes.key]]
    <2>1. /\ vault' = [vault EXCEPT ![f] = [cid |-> up[f].cid, key |-> up[f].bytes.key]]
          /\ up' = [up EXCEPT ![f].pc = "done"] /\ up[f].pc = "send"
          /\ UNCHANGED <<stored, down, served>>
        BY <1>8 DEF Write
    <2>2. up[f].cid \in Cids /\ up[f].bytes.key = f /\ up[f].cid.bytes = EncryptFile(f)
        BY <1>0, <2>1, SealedBytes DEF UpPlace
    <2>3. /\ [cid |-> up[f].cid, key |-> up[f].bytes.key] \in Payloads
          /\ Names([cid |-> up[f].cid, key |-> up[f].bytes.key], f)
        BY <2>2 DEF Payloads, Names
    <2>4. Shapes'
        BY <1>0, <2>1, <2>3 DEF Shapes
    <2>5. /\ up'[f].pc = "done" /\ up'[f].bytes = up[f].bytes /\ up'[f].cid = up[f].cid
          /\ vault'[f] = [cid |-> up[f].cid, key |-> up[f].bytes.key]
          /\ \A g \in Files : Kept(g)' <=> Kept(g)
        BY <1>0, <2>1 DEF Shapes, Kept
    <2>6. Names(vault'[f], f)
        BY <2>3, <2>5
    <2>7. UpPlace(f)'
        BY <1>0, <2>1, <2>5, <2>6 DEF UpPlace, Names
    <2>8. \A g \in Files \ {f} : up'[g] = up[g] /\ vault'[g] = vault[g] /\ (Kept(g) => Kept(g)')
        BY <1>0, <2>1, <2>5 DEF Shapes
    <2> QED BY <2>1, <2>4, <2>7, <2>8, OneUploadMoves
<1>9. CASE PinUniterated(f)
    <2>1. Shapes'
        BY <1>0, <1>9 DEF PinUniterated, Shapes
    <2>2. UpPlace(f)'
        BY <1>0, <1>9 DEF PinUniterated, Shapes, UpPlace
    <2>3. \A g \in Files \ {f} : up'[g] = up[g] /\ vault'[g] = vault[g] /\ (Kept(g) => Kept(g)')
        BY <1>0, <1>9 DEF PinUniterated, Shapes, Kept
    <2> QED BY <1>9, <2>1, <2>2, <2>3, OneUploadMoves DEF PinUniterated
<1> QED BY <1>1, <1>2, <1>3, <1>4, <1>6, <1>7, <1>8, <1>9 DEF Write

------------------------------------------------------------------------------
(* The download, and what goes on around both. *)

LEMMA DownloadKeeps ==
    ASSUME FileInv, Fixed, (\E f \in Files : Collect(f)) \/ Combined \/ Fetch \/ Open
    PROVE  FileInv'
<1>0. Shapes /\ DownPlace
    BY DEF FileInv
<1> USE DEF Fixed, DownTo
<1>1. ASSUME NEW f \in Files, Collect(f) PROVE Shapes' /\ DownPlace'
    <2>1. UpPlace(f) /\ vault[f] # None /\ vault[f] \in Payloads \cup {Other}
        BY <1>0, <1>1 DEF FileInv, Shapes, Collect
    <2>2. Shapes'
        BY <1>0, <1>1, <2>1 DEF Collect, Shapes
    <2>3. vault[f] \in Payloads => Names(vault[f], f)
        BY <2>1 DEF UpPlace
    <2>4. DownPlace'
        <3>1. CASE down' = [down EXCEPT !.pc = "combine", !.of = f, !.payload = vault[f]]
            <4>1. down'.pc = "combine" /\ down'.of = f /\ down'.payload = vault[f]
                BY <1>0, <3>1 DEF Shapes
            <4> QED BY <1>0, <1>1, <2>1, <2>3, <4>1 DEF Collect, DownPlace, Names
        <3>2. CASE down' = [down EXCEPT !.pc = "AccessError", !.of = f]
            <4>1. down'.pc = "AccessError" /\ down'.payload = down.payload
                BY <1>0, <3>2 DEF Shapes
            <4> QED BY <1>0, <1>1, <4>1, <3>2 DEF Collect, DownPlace, Names
        <3> QED BY <1>1, <3>1, <3>2 DEF Collect
    <2> QED BY <2>2, <2>4
<1>2. ASSUME Combined PROVE Shapes' /\ DownPlace'
    BY <1>0, <1>2 DEF Combined, Shapes, DownPlace, Names
<1>3. ASSUME Fetch PROVE Shapes' /\ DownPlace'
    <2>0. /\ down.pc = "fetch" /\ down.payload \in Payloads /\ ~served
          /\ down.of \in Files /\ Names(down.payload, down.of)
        BY <1>0, <1>3 DEF Fetch, DownPlace
    <2>1. ASSUME NEW b \in Sealed, down' = [down EXCEPT !.pc = "verify", !.bytes = b],
                 served' \in BOOLEAN, served' => b # down.payload.cid.bytes
          PROVE  Shapes' /\ DownPlace'
        <3>1. down' = [down EXCEPT !.pc = "verify", !.bytes = b]
              /\ UNCHANGED <<provider, size, pin, skip, up, stored, vault>>
            BY <1>3, <2>1 DEF Fetch
        <3>2. Shapes'
            BY <1>0, <2>1, <3>1 DEF Shapes
        <3>3. DownPlace'
            BY <1>0, <2>0, <2>1, <3>1 DEF Shapes, DownPlace, Names
        <3> QED BY <3>2, <3>3
    <2>2. CASE \E s \in stored : s.cid = down.payload.cid
               /\ down' = [down EXCEPT !.pc = "verify", !.bytes = down.payload.cid.bytes]
               /\ UNCHANGED served
        <3>1. down.payload.cid.bytes \in Sealed
            BY <2>0, SealedBytes DEF Names
        <3>2. served' = FALSE
            BY <1>0, <2>0, <2>2 DEF Shapes
        <3> QED BY <2>1, <2>2, <3>1, <3>2
    <2>3. ASSUME NEW b \in ({up[f].bytes : f \in Files} \cup {Garbage}) \ {down.payload.cid.bytes},
                 down' = [down EXCEPT !.pc = "verify", !.bytes = b], served' = TRUE
          PROVE  Shapes' /\ DownPlace'
        <3>1. b \in Sealed
            BY <1>0 DEF Shapes, Sealed
        <3> QED BY <2>1, <2>3, <3>1
    <2>4. CASE down' = [down EXCEPT !.pc = "StorageError"] /\ UNCHANGED served
        BY <1>0, <1>3, <2>0, <2>4 DEF Fetch, Shapes, DownPlace, Names
    <2> QED BY <1>0, <1>3, <2>2, <2>3, <2>4 DEF Fetch, Shapes
<1>4. ASSUME Open PROVE Shapes' /\ DownPlace'
    <2>0. /\ down.pc = "verify" /\ down.payload \in Payloads
          /\ down.of \in Files /\ Names(down.payload, down.of)
          /\ served => down.bytes # down.payload.cid.bytes
          /\ down.bytes \in Sealed /\ down.bytes.content = down.bytes.key
        BY <1>0, <1>4, SealedBytes DEF Open, DownPlace, Shapes
    <2>1. CASE ~skip /\ ~CidVerifies(down.payload.cid, down.bytes) /\ DownTo("CidIntegrityError")
        BY <1>0, <1>4, <2>0, <2>1 DEF Open, Shapes, DownPlace, Names
    <2>2. CASE skip \/ CidVerifies(down.payload.cid, down.bytes)
        <3>1. ~skip => ~served
            BY <2>0, <2>2 DEF CidVerifies
        <3>2. CASE Opens(down.payload.key, down.bytes)
                   /\ down' = [down EXCEPT !.pc = "ok", !.content = down.bytes.content]
            <4>1. down.bytes.content = down.of
                BY <2>0, <3>2 DEF Opens, Names
            <4> QED BY <1>0, <1>4, <2>0, <3>1, <3>2, <4>1 DEF Open, Shapes, DownPlace, Names
        <3>3. CASE DownTo("DecryptionError")
            BY <1>0, <1>4, <2>0, <3>1, <3>3 DEF Open, Shapes, DownPlace, Names
        <3> QED BY <1>4, <2>2, <3>2, <3>3 DEF Open
    <2> QED BY <1>4, <2>1, <2>2 DEF Open
<1>5. Shapes' /\ DownPlace'
    BY <1>1, <1>2, <1>3, <1>4
<1>6. UNCHANGED <<provider, pin, up, vault, stored>>
    BY DEF Collect, Combined, Fetch, Open
<1> QED BY <1>5, <1>6, NoUploadMoves

LEMMA SurroundingsKeep ==
    ASSUME FileInv, Fixed, InWasm \/ Collected \/ Verify \/ \E f \in Files : Overwrite(f)
    PROVE  FileInv'
<1>0. Shapes /\ DownPlace
    BY DEF FileInv
<1> USE DEF Fixed
<1>1. CASE InWasm \/ Verify
    <2>1. UNCHANGED fileVars
        BY <1>1 DEF InWasm, Verify
    <2>2. Shapes' /\ DownPlace'
        BY <1>0, <2>1 DEF Shapes, DownPlace, Names
    <2> QED BY <2>1, <2>2, NoUploadMoves
<1>2. CASE Collected
    <2>1. PICK s \in stored : ~s.pinned /\ stored' = stored \ {s}
        BY <1>2 DEF Collected
    <2>2. UNCHANGED <<provider, size, pin, skip, up, vault, down, served>>
        BY <1>2 DEF Collected
    <2>3. Shapes' /\ DownPlace'
        BY <1>0, <2>1, <2>2 DEF Shapes, DownPlace, Names
    <2>4. ASSUME NEW g \in Files PROVE UpPlace(g)'
        <3>1. Kept(g) => Kept(g)'
            BY <2>1, <2>2 DEF Kept
        <3> QED BY <2>2, <3>1 DEF FileInv, UpPlace, Names
    <2> QED BY <2>3, <2>4 DEF FileInv
<1>3. ASSUME NEW f \in Files, Overwrite(f) PROVE FileInv'
    <2>1. Shapes'
        BY <1>0, <1>3 DEF Overwrite, Shapes
    <2>2. UpPlace(f)'
        BY <1>0, <1>3 DEF Overwrite, FileInv, Shapes, UpPlace, Kept
    <2>3. \A g \in Files \ {f} : up'[g] = up[g] /\ vault'[g] = vault[g] /\ (Kept(g) => Kept(g)')
        BY <1>0, <1>3 DEF Overwrite, Shapes, Kept
    <2> QED BY <1>3, <2>1, <2>2, <2>3, OneUploadMoves DEF Overwrite
<1> QED BY <1>1, <1>2, <1>3

------------------------------------------------------------------------------
LEMMA FileInvInit == Init => FileInv
<1> SUFFICES ASSUME Init PROVE FileInv
    OBVIOUS
<1>1. Shapes
    BY DEF Init, Shapes, Sealed
<1>2. DownPlace /\ \A f \in Files : UpPlace(f)
    BY DEF Init, DownPlace, UpPlace, Payloads
<1> QED BY <1>1, <1>2 DEF FileInv

LEMMA FileInvStep == FileInv /\ [Next]_vars => FileInv'
<1> SUFFICES ASSUME FileInv, [Next]_vars PROVE FileInv'
    OBVIOUS
<1>1. CASE Next
    BY <1>1, UploadKeeps, DownloadKeeps, SurroundingsKeep DEF Next, Elsewhere, Returned
<1>2. CASE UNCHANGED vars
    <2>1. Shapes' /\ DownPlace'
        BY <1>2 DEF FileInv, Shapes, DownPlace, Names
    <2> QED BY <1>2, <2>1, NoUploadMoves
<1> QED BY <1>1, <1>2

\* An upload has at every place behind it what it needs (a pin asked of Helia apart), a
\* download holds no other file.
THEOREM FileInvariant == Spec => []FileInv
BY FileInvInit, FileInvStep, PTL DEF Spec

\* downloadFile returns the file its vault was made for, or throws.
THEOREM ContentIsTheFile == Spec => []ContentIsAuthentic
<1>1. FileInv => ContentIsAuthentic
    BY DEF FileInv, DownPlace, ContentIsAuthentic
<1> QED BY <1>1, FileInvariant, PTL

\* While CIDs are verified other bytes than the stored ones are called what they are.
THEOREM CorruptionIsNamed == Spec => []WrongBytesAreNamed
<1>1. FileInv => WrongBytesAreNamed
    BY DEF FileInv, DownPlace, WrongBytesAreNamed
<1> QED BY <1>1, FileInvariant, PTL

\* A vault is written after its file was pinned where that was asked for, and what is
\* pinned stays; Helia's is not pinned.
THEOREM PinnedFilesStay == Spec => []VaultsKeepTheirFile
<1>1. FileInv => VaultsKeepTheirFile
    BY DEF FileInv, UpPlace, Kept, VaultsKeepTheirFile
<1> QED BY <1>1, FileInvariant, PTL

------------------------------------------------------------------------------
(* The library's calls: what each holds at every step, and how it may leave. *)

HIDE ValuesAssumption DEF vars, fileVars, UpPlaces, DownPlaces

\* What step k has allocated, at step i.
By(i, k, name) == IF i > k THEN {name} ELSE {}

KeyHeld(i) == By(i, 1, "point") \cup By(i, 2, "handlePtr") \cup By(i, 3, "pk")

\* The first k of some names.
Taken(names, k) == {names[j] : j \in {n \in DOMAIN names : n <= k}}

CombineHeld(i) ==
    CASE i <= 4 -> KeyHeld(i)
      [] i = 5 -> {"handlePtr", "pk"}
      [] i = 6 -> {"pk"}
      [] i = 7 -> {"pk", "rootName"}
      [] i = 8 -> {"pk", "rootName", "root"}
      [] i > 8 /\ i <= Owning ->
            {"pk", "root"} \cup (IF i > 10 THEN {"leaf"} ELSE {})
            \cup (IF (i - 9) % 3 = 0 THEN {} ELSE {"leafName"})
      [] i > Owning ->
            {"pk", "ac"} \cup Taken(Arrays, i - (Owning + 1)) \cup By(i, Owning + 11, "result")

\* What call b has allocated and not released when it comes to step i.
Held(b, i) ==
    CASE b = "tdh2Encrypt" ->
            KeyHeld(i) \cup By(i, 4, "plain") \cup By(i, 5, "label") \cup By(i, 6, "outPtr")
            \cup By(i, 7, "outSize") \cup By(i, 8, "result")
      [] b = "tdh2Verify" -> KeyHeld(i) \cup By(i, 4, "ct") \cup By(i, 5, "label")
      [] b = "tdh2Combine" -> CombineHeld(i)
      [] b = "tdh2ExtractLabel" -> 
            By(i, 1, "ct") \cup By(i, 2, "outPtr") \cup By(i, 3, "outSize") \cup By(i, 4, "result")

\* Step i of b hands over to the next with what that expects to hold, and the clauses
\* around it release what is held, no less and no more, except on a trap in the part of
\* tdh2Combine before its try block.
Tidy(b, i) ==
    LET s == Steps(b)[i]
        ends == {"read", "verify"}
    IN  /\ s.act \in {"alloc", "free", "derive", "call", "node", "own"} \cup ends
        /\ s.act \notin ends => i + 1 \in DOMAIN Steps(b)
        /\ s.act \in {"alloc", "derive", "call", "node"} => Held(b, i + 1) = Held(b, i) \cup {s.on}
        /\ s.act = "own" => Held(b, i + 1) = (Held(b, i) \ {"root", "leaf"}) \cup {s.on}
        /\ s.act = "free" => s.on \in Held(b, i) /\ Held(b, i + 1) = Held(b, i) \ {s.on}
        /\ s.act \in {"derive", "call"} =>
               Finally(b, i) \cup (IF s.act = "derive" THEN ByHand(b) ELSE {}) = Held(b, i)
        /\ s.act \in ends => Finally(b, i) \cup ({s.on} \ {"verdict"}) = Held(b, i)
        /\ s.act \in {"derive", "call", "verify", "node", "own"} =>
               \/ Finally(b, i) = Held(b, i)
               \/ b = "tdh2Combine" /\ i < From(b, "call") /\ Finally(b, i) = {}

AllTidy == \A b \in Bodies : 1 \in DOMAIN Steps(b) /\ Held(b, 1) = {} /\ \A i \in DOMAIN Steps(b) : Tidy(b, i)

\* A call in progress holds what its step expects; one that is over has kept nothing, but
\* for that trap.
WasmInv ==
    /\ body \in Bodies \cup {"none"}
    /\ memory \in Nat /\ view = memory /\ misused = FALSE
    /\ how \in {"none", "running", "returned", "code", "trap"}
    /\ ~Idle => body \in Bodies /\ at \in DOMAIN Steps(body) /\ live = Held(body, at)
    /\ how \in {"returned", "code"} => live = {}
    /\ how = "trap" /\ live # {} => body = "tdh2Combine" /\ at < From("tdh2Combine", "call")

LEMMA CallStepKeeps ==
    ASSUME AllTidy, WasmInv, CallStep
    PROVE  WasmInv'
<1> DEFINE s == Here
<1>1. how = "running"
    BY DEF CallStep, AllocStep, FreeStep, LibraryStep, CodeStep, TrapStep, ReturnStep, Stands, Idle
<1>2. /\ body \in Bodies /\ at \in DOMAIN Steps(body) /\ live = Held(body, at)
      /\ Tidy(body, at) /\ memory \in Nat /\ view = memory /\ misused = FALSE
    BY <1>1 DEF WasmInv, Idle, AllTidy
<1>3. s = Steps(body)[at]
    BY DEF Here
<1> HIDE DEF s
<1>4. MayGrow => memory' \in Nat /\ view' = memory'
    BY <1>2 DEF MayGrow
<1>5. ASSUME Proceed, memory' \in Nat, view' = memory', misused' = FALSE,
             at + 1 \in DOMAIN Steps(body), live' = Held(body, at + 1)
      PROVE  WasmInv'
    BY <1>1, <1>2, <1>5 DEF WasmInv, Proceed, Idle
<1>6. ASSUME NEW e \in {"returned", "code", "trap"}, NEW released, Leave(e, released),
             memory' \in Nat, view' = memory', released \subseteq live,
             \/ released = live
             \/ e = "trap" /\ body = "tdh2Combine" /\ at < From("tdh2Combine", "call")
      PROVE  WasmInv'
    BY <1>1, <1>2, <1>6 DEF WasmInv, Leave, Idle
<1>7. CASE AllocStep
    <2>1. s.act = "alloc" /\ MayGrow /\ live' = live \cup {s.on} /\ Proceed
          /\ misused' = (misused \/ view' # memory')
        BY <1>7 DEF AllocStep, Stands, s
    <2>2. at + 1 \in DOMAIN Steps(body) /\ Held(body, at + 1) = Held(body, at) \cup {s.on}
        BY <1>2, <1>3, <2>1 DEF Tidy
    <2>3. misused' = FALSE
        BY <1>2, <1>4, <2>1
    <2> QED BY <1>2, <1>4, <1>5, <2>1, <2>2, <2>3
<1>8. CASE FreeStep
    <2>1. s.act = "free" /\ live' = live \ {s.on} /\ Proceed /\ UNCHANGED <<memory, view>>
          /\ misused' = (misused \/ s.on \notin live)
        BY <1>8 DEF FreeStep, Stands, s
    <2>2. /\ at + 1 \in DOMAIN Steps(body) /\ Held(body, at + 1) = Held(body, at) \ {s.on}
          /\ s.on \in Held(body, at)
        BY <1>2, <1>3, <2>1 DEF Tidy
    <2>3. misused' = FALSE
        BY <1>2, <2>1, <2>2
    <2> QED BY <1>2, <1>5, <2>1, <2>2, <2>3
<1>9. CASE LibraryStep
    <2>1. /\ s.act \in {"derive", "call", "node", "own"} /\ MayGrow /\ Proceed
          /\ UNCHANGED misused
          /\ live' = (IF s.act = "own" THEN live \ {"root", "leaf"} ELSE live) \cup {s.on}
        BY <1>9 DEF LibraryStep, Stands, s
    <2>2. at + 1 \in DOMAIN Steps(body) /\ live' = Held(body, at + 1)
        BY <1>2, <1>3, <2>1 DEF Tidy
    <2> QED BY <1>2, <1>4, <1>5, <2>1, <2>2
<1>10. CASE CodeStep
    <2> DEFINE released == Finally(body, at)
                           \cup (IF s.act = "derive" THEN ByHand(body) ELSE {})
    <2>1. s.act \in {"derive", "call"} /\ MayGrow /\ Leave("code", released)
        BY <1>10 DEF CodeStep, Stands, s
    <2>2. released = live
        BY <1>2, <1>3, <2>1 DEF Tidy
    <2> HIDE DEF released
    <2> QED BY <1>4, <1>6, <2>1, <2>2
<1>11. CASE TrapStep
    <2> DEFINE released == Finally(body, at)
    <2>1. s.act \in {"derive", "call", "verify", "node", "own"} /\ MayGrow /\ Leave("trap", released)
        BY <1>11 DEF TrapStep, Stands, s
    <2>2. /\ released \subseteq live
          /\ \/ released = live
             \/ body = "tdh2Combine" /\ at < From("tdh2Combine", "call")
        BY <1>2, <1>3, <2>1 DEF Tidy
    <2> HIDE DEF released
    <2> QED BY <1>4, <1>6, <2>1, <2>2
<1>12. CASE ReturnStep
    <2> DEFINE released == Finally(body, at) \cup ({s.on} \ {"verdict"})
    <2>1. s.act \in {"read", "verify"} /\ UNCHANGED <<memory, view>> /\ Leave("returned", released)
        BY <1>12 DEF ReturnStep, Stands, s
    <2>2. released = live
        BY <1>2, <1>3, <2>1 DEF Tidy
    <2> HIDE DEF released
    <2> QED BY <1>2, <1>6, <2>1, <2>2
<1> QED BY <1>7, <1>8, <1>9, <1>10, <1>11, <1>12 DEF CallStep

LEMMA EnterKeeps ==
    ASSUME AllTidy, WasmInv, NEW b \in Bodies, Enter(b)
    PROVE  WasmInv'
BY DEF AllTidy, WasmInv, Enter, Idle

------------------------------------------------------------------------------
(* tdh2Encrypt, tdh2Verify and tdh2ExtractLabel, step by step. *)

Does(act, on) == [act |-> act, on |-> on]

LEMMA EncryptTable ==
    /\ DOMAIN Steps("tdh2Encrypt") = 1..9
    /\ LET step == Steps("tdh2Encrypt") IN
       /\ step[1] = Does("alloc", "point") /\ step[2] = Does("alloc", "handlePtr")
       /\ step[3] = Does("derive", "pk") /\ step[4] = Does("alloc", "plain")
       /\ step[5] = Does("alloc", "label") /\ step[6] = Does("alloc", "outPtr")
       /\ step[7] = Does("alloc", "outSize") /\ step[8] = Does("call", "result")
       /\ step[9] = Does("read", "result")
BY SMT DEF Steps, EncryptSteps, PubKey, Alloc, Step, Does

LEMMA EncryptTidy ==
    /\ 1 \in DOMAIN Steps("tdh2Encrypt") /\ Held("tdh2Encrypt", 1) = {}
    /\ \A i \in DOMAIN Steps("tdh2Encrypt") : Tidy("tdh2Encrypt", i)
<1>1. Held("tdh2Encrypt", 1) = {}
    BY DEF Held, KeyHeld, By
<1>2. From("tdh2Encrypt", "derive") = 3 /\ From("tdh2Encrypt", "call") = 8
    BY EncryptTable DEF From, Does
<1>3. ASSUME NEW i \in 1..9 PROVE Tidy("tdh2Encrypt", i)
    <2> USE EncryptTable, <1>2 DEF Tidy, Does, Held, KeyHeld, By, Finally, ByHand
    <2>1. CASE i = 1
        BY <2>1
    <2>2. CASE i = 2
        BY <2>2
    <2>3. CASE i = 3
        BY <2>3
    <2>4. CASE i = 4
        BY <2>4
    <2>5. CASE i = 5
        BY <2>5
    <2>6. CASE i = 6
        BY <2>6
    <2>7. CASE i = 7
        BY <2>7
    <2>8. CASE i = 8
        BY <2>8
    <2>9. CASE i = 9
        BY <2>9
    <2> HIDE EncryptTable, <1>2 DEF Tidy, Does, Held, KeyHeld, By, Finally, ByHand
    <2> QED BY <1>3, <2>1, <2>2, <2>3, <2>4, <2>5, <2>6, <2>7, <2>8, <2>9
<1> QED BY <1>1, <1>3, EncryptTable

LEMMA VerifyTable ==
    /\ DOMAIN Steps("tdh2Verify") = 1..6
    /\ LET step == Steps("tdh2Verify") IN
       /\ step[1] = Does("alloc", "point") /\ step[2] = Does("alloc", "handlePtr")
       /\ step[3] = Does("derive", "pk") /\ step[4] = Does("alloc", "ct")
       /\ step[5] = Does("alloc", "label") /\ step[6] = Does("verify", "verdict")
BY SMT DEF Steps, VerifySteps, PubKey, Alloc, Step, Does

LEMMA VerifyTidy ==
    /\ 1 \in DOMAIN Steps("tdh2Verify") /\ Held("tdh2Verify", 1) = {}
    /\ \A i \in DOMAIN Steps("tdh2Verify") : Tidy("tdh2Verify", i)
<1>1. Held("tdh2Verify", 1) = {}
    BY DEF Held, KeyHeld, By
<1>2. From("tdh2Verify", "derive") = 3 /\ From("tdh2Verify", "verify") = 6
    BY VerifyTable DEF From, Does
<1>3. ASSUME NEW i \in 1..6 PROVE Tidy("tdh2Verify", i)
    <2> USE VerifyTable, <1>2 DEF Tidy, Does, Held, KeyHeld, By, Finally, ByHand
    <2>1. CASE i = 1
        BY <2>1
    <2>2. CASE i = 2
        BY <2>2
    <2>3. CASE i = 3
        BY <2>3
    <2>4. CASE i = 4
        BY <2>4
    <2>5. CASE i = 5
        BY <2>5
    <2>6. CASE i = 6
        BY <2>6
    <2> HIDE VerifyTable, <1>2 DEF Tidy, Does, Held, KeyHeld, By, Finally, ByHand
    <2> QED BY <1>3, <2>1, <2>2, <2>3, <2>4, <2>5, <2>6
<1> QED BY <1>1, <1>3, VerifyTable

LEMMA ExtractLabelTable ==
    /\ DOMAIN Steps("tdh2ExtractLabel") = 1..5
    /\ LET step == Steps("tdh2ExtractLabel") IN
       /\ step[1] = Does("alloc", "ct") /\ step[2] = Does("alloc", "outPtr")
       /\ step[3] = Does("alloc", "outSize") /\ step[4] = Does("call", "result")
       /\ step[5] = Does("read", "result")
BY SMT DEF Steps, ExtractLabelSteps, Alloc, Step, Does

LEMMA ExtractLabelTidy ==
    /\ 1 \in DOMAIN Steps("tdh2ExtractLabel") /\ Held("tdh2ExtractLabel", 1) = {}
    /\ \A i \in DOMAIN Steps("tdh2ExtractLabel") : Tidy("tdh2ExtractLabel", i)
<1>1. Held("tdh2ExtractLabel", 1) = {}
    BY DEF Held, By
<1>2. From("tdh2ExtractLabel", "call") = 4
    BY ExtractLabelTable DEF From, Does
<1>3. ASSUME NEW i \in 1..5 PROVE Tidy("tdh2ExtractLabel", i)
    <2> USE ExtractLabelTable, <1>2 DEF Tidy, Does, Held, By, Finally, ByHand
    <2>1. CASE i = 1
        BY <2>1
    <2>2. CASE i = 2
        BY <2>2
    <2>3. CASE i = 3
        BY <2>3
    <2>4. CASE i = 4
        BY <2>4
    <2>5. CASE i = 5
        BY <2>5
    <2> HIDE ExtractLabelTable, <1>2 DEF Tidy, Does, Held, By, Finally, ByHand
    <2> QED BY <1>3, <2>1, <2>2, <2>3, <2>4, <2>5
<1> QED BY <1>1, <1>3, ExtractLabelTable

------------------------------------------------------------------------------
(* tdh2Combine, however many partials it is given. *)

LEMMA PartialsType == Partials \in Nat /\ MaxGrowth \in Nat
BY WasmCallsAssumption

LEMMA LeafTable ==
    /\ LeafSteps[1] = Does("alloc", "leafName") /\ LeafSteps[2] = Does("node", "leaf")
    /\ LeafSteps[3] = Does("free", "leafName")
BY SMT DEF LeafSteps, Step, Does

LEMMA BeforeTable ==
    /\ BeforeLeaves[1] = Does("alloc", "point") /\ BeforeLeaves[2] = Does("alloc", "handlePtr")
    /\ BeforeLeaves[3] = Does("derive", "pk") /\ BeforeLeaves[4] = Does("free", "point")
    /\ BeforeLeaves[5] = Does("free", "handlePtr") /\ BeforeLeaves[6] = Does("alloc", "rootName")
    /\ BeforeLeaves[7] = Does("node", "root") /\ BeforeLeaves[8] = Does("free", "rootName")
BY SMT DEF BeforeLeaves, PubKey, Alloc, Step, Does

LEMMA AfterTable ==
    /\ AfterLeaves[1] = Does("own", "ac")
    /\ \A j \in 1..10 : AfterLeaves[1 + j] = Does("alloc", Arrays[j])
    /\ AfterLeaves[12] = Does("call", "result") /\ AfterLeaves[13] = Does("read", "result")
<1>1. /\ AfterLeaves[1] = Does("own", "ac")
      /\ AfterLeaves[12] = Does("call", "result") /\ AfterLeaves[13] = Does("read", "result")
    BY SMT DEF AfterLeaves, Alloc, Step, Does, Arrays
<1>2. /\ AfterLeaves[2] = Does("alloc", Arrays[1]) /\ AfterLeaves[3] = Does("alloc", Arrays[2])
      /\ AfterLeaves[4] = Does("alloc", Arrays[3]) /\ AfterLeaves[5] = Does("alloc", Arrays[4])
      /\ AfterLeaves[6] = Does("alloc", Arrays[5]) /\ AfterLeaves[7] = Does("alloc", Arrays[6])
      /\ AfterLeaves[8] = Does("alloc", Arrays[7]) /\ AfterLeaves[9] = Does("alloc", Arrays[8])
      /\ AfterLeaves[10] = Does("alloc", Arrays[9]) /\ AfterLeaves[11] = Does("alloc", Arrays[10])
    BY SMT DEF AfterLeaves, Alloc, Step, Does, Arrays
<1>3. ASSUME NEW j \in 1..10 PROVE AfterLeaves[1 + j] = Does("alloc", Arrays[j])
    <2>1. j = 1 \/ j = 2 \/ j = 3 \/ j = 4 \/ j = 5 \/ j = 6 \/ j = 7 \/ j = 8 \/ j = 9 \/ j = 10
        OBVIOUS
    <2> QED BY <1>2, <2>1
<1> QED BY <1>1, <1>3

LEMMA CombineParts ==
    /\ Owning \in Nat /\ Owning > 8 /\ DOMAIN CombineSteps = 1..(Owning + 12)
    /\ \A i \in 1..8 : CombineSteps[i] = BeforeLeaves[i]
    /\ \A m \in 1..(3 * Partials) : CombineSteps[8 + m] = LeafSteps[1 + ((m - 1) % 3)]
    /\ \A j \in 0..12 : CombineSteps[Owning + j] = AfterLeaves[1 + j]
<1>1. Owning \in Nat /\ Owning > 8 /\ 9 + 3 * Partials = Owning
    BY PartialsType DEF Owning
<1>2. DOMAIN CombineSteps = 1..(Owning + 12)
    BY DEF CombineSteps
<1>3. ASSUME NEW i \in 1..8 PROVE CombineSteps[i] = BeforeLeaves[i]
    BY <1>1 DEF CombineSteps
<1>4. ASSUME NEW m \in 1..(3 * Partials)
      PROVE  CombineSteps[8 + m] = LeafSteps[1 + ((m - 1) % 3)]
    <2> DEFINE i == 8 + m
    <2>1. i \in 1..(Owning + 12) /\ ~(i < 9) /\ i >= 9 /\ i < Owning /\ i - 9 = m - 1
          /\ ~(i >= Owning)
        BY <1>1, PartialsType
    <2> HIDE DEF i
    <2>2. CombineSteps[i] = LeafSteps[1 + ((i - 9) % 3)]
        BY <2>1 DEF CombineSteps
    <2> QED BY <2>1, <2>2 DEF i
<1>5. ASSUME NEW j \in 0..12 PROVE CombineSteps[Owning + j] = AfterLeaves[1 + j]
    <2> DEFINE i == Owning + j
    <2>1. i \in 1..(Owning + 12) /\ ~(i < 9) /\ i >= Owning /\ ~(i < Owning) /\ i - Owning + 1 = 1 + j
        BY <1>1
    <2> HIDE DEF i
    <2>2. CombineSteps[i] = AfterLeaves[i - Owning + 1]
        BY <2>1 DEF CombineSteps
    <2> QED BY <2>1, <2>2 DEF i
<1> QED BY <1>1, <1>2, <1>3, <1>4, <1>5

LEMMA CombineTable ==
    /\ DOMAIN CombineSteps = 1..(Owning + 12)
    /\ CombineSteps[1] = Does("alloc", "point") /\ CombineSteps[2] = Does("alloc", "handlePtr")
    /\ CombineSteps[3] = Does("derive", "pk") /\ CombineSteps[4] = Does("free", "point")
    /\ CombineSteps[5] = Does("free", "handlePtr") /\ CombineSteps[6] = Does("alloc", "rootName")
    /\ CombineSteps[7] = Does("node", "root") /\ CombineSteps[8] = Does("free", "rootName")
    /\ CombineSteps[Owning] = Does("own", "ac")
    /\ CombineSteps[Owning + 11] = Does("call", "result")
    /\ CombineSteps[Owning + 12] = Does("read", "result")
<1>1. CombineSteps[Owning] = AfterLeaves[1]
    <2>1. CombineSteps[Owning + 0] = AfterLeaves[1 + 0]
        BY CombineParts
    <2>2. Owning + 0 = Owning /\ 1 + 0 = 1
        BY CombineParts
    <2> QED BY <2>1, <2>2
<1>2. CombineSteps[Owning + 11] = AfterLeaves[12] /\ CombineSteps[Owning + 12] = AfterLeaves[13]
    <2>1. CombineSteps[Owning + 11] = AfterLeaves[1 + 11] /\ CombineSteps[Owning + 12] = AfterLeaves[1 + 12]
        BY CombineParts
    <2> QED BY <2>1
<1>3. \A i \in 1..8 : CombineSteps[i] = BeforeLeaves[i]
    BY CombineParts
<1>4. DOMAIN CombineSteps = 1..(Owning + 12)
    BY CombineParts
<1> QED BY <1>1, <1>2, <1>3, <1>4, BeforeTable, AfterTable

LEMMA CombineLeaves ==
    \A m \in 1..(3 * Partials) : CombineSteps[8 + m] = LeafSteps[1 + ((m - 1) % 3)]
BY CombineParts

LEMMA CombineArrays ==
    \A j \in 1..10 : CombineSteps[Owning + j] = Does("alloc", Arrays[j])
<1> SUFFICES ASSUME NEW j \in 1..10 PROVE CombineSteps[Owning + j] = Does("alloc", Arrays[j])
    OBVIOUS
<1>1. j \in 0..12
    OBVIOUS
<1>2. CombineSteps[Owning + j] = AfterLeaves[1 + j]
    BY <1>1, CombineParts
<1> QED BY <1>2, AfterTable

LEMMA CombineCases ==
    \A i \in 1..(Owning + 12) :
        \/ i \in 1..8
        \/ \E m \in 1..(3 * Partials) : i = 8 + m
        \/ i = Owning
        \/ \E j \in 1..10 : i = Owning + j
        \/ i = Owning + 11
        \/ i = Owning + 12
<1> SUFFICES ASSUME NEW i \in 1..(Owning + 12), i \notin 1..8, i # Owning,
                    i # Owning + 11, i # Owning + 12
             PROVE  \/ \E m \in 1..(3 * Partials) : i = 8 + m
                    \/ \E j \in 1..10 : i = Owning + j
    OBVIOUS
<1>1. CASE i < Owning
    <2>1. i - 8 \in 1..(3 * Partials) /\ i = 8 + (i - 8)
        BY <1>1, PartialsType DEF Owning
    <2> QED BY <2>1
<1>2. CASE i > Owning
    <2>1. i - Owning \in 1..10 /\ i = Owning + (i - Owning)
        BY <1>2, PartialsType DEF Owning
    <2> QED BY <2>1
<1>3. i < Owning \/ i > Owning
    BY PartialsType DEF Owning
<1> QED BY <1>1, <1>2, <1>3

\* The loop over the leaves is at its first, second or third step.
LEMMA ThreeSteps ==
    ASSUME NEW m \in Nat \ {0}
    PROVE  \/ (m - 1) % 3 = 0 /\ m % 3 = 1 /\ m # 2 /\ m # 3
           \/ (m - 1) % 3 = 1 /\ m % 3 = 2 /\ m >= 2
           \/ (m - 1) % 3 = 2 /\ m % 3 = 0 /\ m >= 3
BY SMT

LEMMA CombineFrom == From("tdh2Combine", "call") = Owning + 11
<1>0. Steps("tdh2Combine") = CombineSteps
    BY DEF Steps
<1>1. Owning + 11 \in DOMAIN CombineSteps /\ CombineSteps[Owning + 11].act = "call"
    BY CombineTable, PartialsType DEF Owning, Does
<1>2. ASSUME NEW i \in DOMAIN CombineSteps, CombineSteps[i].act = "call"
      PROVE  i = Owning + 11
    <2>1. i \notin 1..8
        <3> SUFFICES ASSUME i \in 1..8 PROVE FALSE
            OBVIOUS
        <3>1. i = 1 \/ i = 2 \/ i = 3 \/ i = 4 \/ i = 5 \/ i = 6 \/ i = 7 \/ i = 8
            OBVIOUS
        <3> QED BY <1>2, <3>1, CombineTable DEF Does
    <2>2. ASSUME NEW m \in 1..(3 * Partials), i = 8 + m PROVE FALSE
        <3>1. (m - 1) % 3 \in 0..2
            BY ThreeSteps, PartialsType
        <3>2. LeafSteps[1 + ((m - 1) % 3)].act # "call"
            BY <3>1, LeafTable DEF Does
        <3> QED BY <1>2, <2>2, <3>2, CombineLeaves
    <2>3. i # Owning /\ i # Owning + 12
        BY <1>2, CombineTable DEF Does
    <2>4. ASSUME NEW j \in 1..10, i = Owning + j PROVE FALSE
        BY <1>2, <2>4, CombineArrays DEF Does
    <2> QED BY <1>2, <2>1, <2>2, <2>3, <2>4, CombineCases, CombineTable
<1> QED BY <1>0, <1>1, <1>2 DEF From

\* The arrays are taken one after the other, and all of them in the end.
LEMMA ArraysTaken ==
    /\ Taken(Arrays, 0) = {} /\ \A k \in {10, 11} : Taken(Arrays, k) = ToSet(Arrays)
    /\ \A k \in 0..9 : Taken(Arrays, k + 1) = Taken(Arrays, k) \cup {Arrays[k + 1]}
<1>1. DOMAIN Arrays = 1..10
    BY SMT DEF Arrays
<1> HIDE DEF Arrays
<1>2. Taken(Arrays, 0) = {}
    BY <1>1 DEF Taken
<1>3. \A k \in {10, 11} : Taken(Arrays, k) = ToSet(Arrays)
    BY <1>1 DEF Taken, ToSet
<1>4. ASSUME NEW k \in 0..9
      PROVE  Taken(Arrays, k + 1) = Taken(Arrays, k) \cup {Arrays[k + 1]}
    <2>1. {n \in DOMAIN Arrays : n <= k + 1} = {n \in DOMAIN Arrays : n <= k} \cup {k + 1}
        BY <1>1
    <2> DEFINE before == {n \in DOMAIN Arrays : n <= k}
    <2> HIDE DEF before
    <2> QED BY <2>1 DEF Taken, before
<1> QED BY <1>2, <1>3, <1>4

\* What tdh2Combine holds in the part before its try block.
LEMMA HeadHeld ==
    /\ CombineHeld(1) = {} /\ CombineHeld(2) = {"point"}
    /\ CombineHeld(3) = {"point", "handlePtr"} /\ CombineHeld(4) = {"point", "handlePtr", "pk"}
    /\ CombineHeld(5) = {"handlePtr", "pk"} /\ CombineHeld(6) = {"pk"}
    /\ CombineHeld(7) = {"pk", "rootName"} /\ CombineHeld(8) = {"pk", "rootName", "root"}
    /\ CombineHeld(9) = {"pk", "root"}
<1>1. 9 <= Owning /\ Owning \in Nat
    BY PartialsType DEF Owning
<1>2. /\ CombineHeld(1) = KeyHeld(1) /\ CombineHeld(2) = KeyHeld(2)
      /\ CombineHeld(3) = KeyHeld(3) /\ CombineHeld(4) = KeyHeld(4)
    BY <1>1 DEF CombineHeld
<1>3. /\ KeyHeld(1) = {} /\ KeyHeld(2) = {"point"}
      /\ KeyHeld(3) = {"point", "handlePtr"} /\ KeyHeld(4) = {"point", "handlePtr", "pk"}
    BY DEF KeyHeld, By
<1>4. /\ CombineHeld(5) = {"handlePtr", "pk"} /\ CombineHeld(6) = {"pk"}
      /\ CombineHeld(7) = {"pk", "rootName"} /\ CombineHeld(8) = {"pk", "rootName", "root"}
    BY <1>1 DEF CombineHeld
<1>5. CombineHeld(9) = {"pk", "root"}
    BY <1>1 DEF CombineHeld
<1> QED BY <1>2, <1>3, <1>4, <1>5


\* An allocation, a node of the access structure and a release are tidy where nothing is
\* cleaned up yet.
LEMMA HeadTidy ==
    ASSUME NEW i, NEW x, i \in DOMAIN CombineSteps, i + 1 \in DOMAIN CombineSteps,
           i < Owning + 11, Finally("tdh2Combine", i) = {},
           \/ /\ CombineSteps[i] = Does("alloc", x) \/ CombineSteps[i] = Does("node", x)
              /\ CombineHeld(i + 1) = CombineHeld(i) \cup {x}
           \/ /\ CombineSteps[i] = Does("free", x)
              /\ x \in CombineHeld(i) /\ CombineHeld(i + 1) = CombineHeld(i) \ {x}
           \/ /\ CombineSteps[i] = Does("derive", x)
              /\ CombineHeld(i) = {"point", "handlePtr"}
              /\ CombineHeld(i + 1) = CombineHeld(i) \cup {x}
    PROVE  Tidy("tdh2Combine", i)
<1>0. Steps("tdh2Combine") = CombineSteps
    BY DEF Steps
<1>3. Held("tdh2Combine", i) = CombineHeld(i) /\ Held("tdh2Combine", i + 1) = CombineHeld(i + 1)
    BY DEF Held
<1>4. i < From("tdh2Combine", "call")
    BY CombineFrom
<1>5. ByHand("tdh2Combine") = {"point", "handlePtr"}
    BY DEF ByHand
<1> DEFINE next == i + 1
<1> DEFINE early == i < From("tdh2Combine", "call")
<1> HIDE DEF next, early
<1>6. next \in DOMAIN CombineSteps /\ Held("tdh2Combine", next) = CombineHeld(next)
    BY <1>3 DEF next
<1>7. early
    BY <1>4 DEF early
<1>8. CASE CombineSteps[i] = Does("alloc", x) /\ CombineHeld(next) = CombineHeld(i) \cup {x}
    BY <1>0, <1>3, <1>6, <1>7, <1>8 DEF Tidy, Does, next, early
<1>9. CASE CombineSteps[i] = Does("node", x) /\ CombineHeld(next) = CombineHeld(i) \cup {x}
    BY <1>0, <1>3, <1>6, <1>7, <1>9 DEF Tidy, Does, next, early
<1>10. CASE /\ CombineSteps[i] = Does("free", x)
            /\ x \in CombineHeld(i) /\ CombineHeld(next) = CombineHeld(i) \ {x}
    BY <1>0, <1>3, <1>6, <1>7, <1>10 DEF Tidy, Does, next, early
<1>11. CASE /\ CombineSteps[i] = Does("derive", x)
            /\ CombineHeld(i) = {"point", "handlePtr"}
            /\ CombineHeld(next) = CombineHeld(i) \cup {x}
    BY <1>0, <1>3, <1>5, <1>6, <1>7, <1>11 DEF Tidy, Does, next, early
<1> QED BY <1>8, <1>9, <1>10, <1>11 DEF next

LEMMA CombineHead ==
    ASSUME NEW i \in 1..8
    PROVE  Tidy("tdh2Combine", i)
<1>1. /\ i \in DOMAIN CombineSteps /\ i + 1 \in DOMAIN CombineSteps
      /\ ~(i >= Owning + 11) /\ i < Owning + 11
    BY CombineTable, PartialsType DEF Owning
<1>2. Finally("tdh2Combine", i) = {}
    BY <1>1, CombineFrom DEF Finally
<1>3. \/ \E x : /\ CombineSteps[i] = Does("alloc", x) \/ CombineSteps[i] = Does("node", x)
                /\ CombineHeld(i + 1) = CombineHeld(i) \cup {x}
      \/ \E x : /\ CombineSteps[i] = Does("free", x)
                /\ x \in CombineHeld(i) /\ CombineHeld(i + 1) = CombineHeld(i) \ {x}
      \/ \E x : /\ CombineSteps[i] = Does("derive", x)
                /\ CombineHeld(i) = {"point", "handlePtr"}
                /\ CombineHeld(i + 1) = CombineHeld(i) \cup {x}
    <2>1. CASE i = 1
        BY <2>1, HeadHeld, CombineTable
    <2>2. CASE i = 2
        BY <2>2, HeadHeld, CombineTable
    <2>3. CASE i = 3
        BY <2>3, HeadHeld, CombineTable
    <2>4. CASE i = 4
        BY <2>4, HeadHeld, CombineTable
    <2>5. CASE i = 5
        BY <2>5, HeadHeld, CombineTable
    <2>6. CASE i = 6
        BY <2>6, HeadHeld, CombineTable
    <2>7. CASE i = 7
        BY <2>7, HeadHeld, CombineTable
    <2>8. CASE i = 8
        BY <2>8, HeadHeld, CombineTable
    <2> QED BY <2>1, <2>2, <2>3, <2>4, <2>5, <2>6, <2>7, <2>8
<1> QED BY <1>1, <1>2, <1>3, HeadTidy

\* The loop over the leaves.
LEMMA CombineLoop ==
    ASSUME NEW m \in 1..(3 * Partials)
    PROVE  Tidy("tdh2Combine", 8 + m)
<1> DEFINE i == 8 + m
<1>1. /\ m \in Nat \ {0} /\ i \in DOMAIN CombineSteps /\ i + 1 \in DOMAIN CombineSteps
      /\ ~(i >= Owning + 11) /\ i < Owning + 11
      /\ i > 8 /\ i <= Owning /\ i + 1 > 8 /\ i + 1 <= Owning /\ Owning \in Nat
      /\ i - 9 = m - 1 /\ i + 1 - 9 = m
      /\ (i > 10 <=> m > 2) /\ (i + 1 > 10 <=> m > 1)
    BY CombineTable, PartialsType DEF Owning
<1>2. Finally("tdh2Combine", i) = {}
    BY <1>1, CombineFrom DEF Finally
<1>3. CombineSteps[i] = LeafSteps[1 + ((m - 1) % 3)]
    BY CombineLeaves
<1>4. CombineHeld(i) = {"pk", "root"} \cup (IF m > 2 THEN {"leaf"} ELSE {})
                       \cup (IF (m - 1) % 3 = 0 THEN {} ELSE {"leafName"})
    <2>1. ~(i <= 4) /\ i # 5 /\ i # 6 /\ i # 7 /\ i # 8 /\ ~(i > Owning)
        BY <1>1
    <2>2. CombineHeld(i) = {"pk", "root"} \cup (IF i > 10 THEN {"leaf"} ELSE {})
                           \cup (IF (i - 9) % 3 = 0 THEN {} ELSE {"leafName"})
        BY <1>1, <2>1 DEF CombineHeld
    <2> QED BY <1>1, <2>2
<1>5. CombineHeld(i + 1) = {"pk", "root"} \cup (IF m > 1 THEN {"leaf"} ELSE {})
                           \cup (IF m % 3 = 0 THEN {} ELSE {"leafName"})
    <2> DEFINE n == i + 1
    <2>1. ~(n <= 4) /\ n # 5 /\ n # 6 /\ n # 7 /\ n # 8 /\ ~(n > Owning) /\ n > 8 /\ n <= Owning
        BY <1>1
    <2>2. CombineHeld(n) = {"pk", "root"} \cup (IF n > 10 THEN {"leaf"} ELSE {})
                           \cup (IF (n - 9) % 3 = 0 THEN {} ELSE {"leafName"})
        <3> HIDE DEF n
        <3> QED BY <2>1 DEF CombineHeld
    <2> QED BY <1>1, <2>2
<1> HIDE DEF i
<1>6. CASE (m - 1) % 3 = 0 /\ m % 3 = 1 /\ m # 2 /\ m # 3
    <2>1. CombineSteps[i] = Does("alloc", "leafName")
        BY <1>3, <1>6, LeafTable
    <2>2. m > 1 <=> m > 2
        BY <1>1, <1>6
    <2>3. CombineHeld(i + 1) = CombineHeld(i) \cup {"leafName"}
        BY <1>4, <1>5, <1>6, <2>2
    <2> QED BY <1>1, <1>2, <2>1, <2>3, HeadTidy DEF i
<1>7. CASE (m - 1) % 3 = 1 /\ m % 3 = 2 /\ m >= 2
    <2>1. CombineSteps[i] = Does("node", "leaf")
        BY <1>3, <1>7, LeafTable
    <2>2. m > 1
        BY <1>1, <1>7
    <2>3. CombineHeld(i + 1) = CombineHeld(i) \cup {"leaf"}
        BY <1>4, <1>5, <1>7, <2>2
    <2> QED BY <1>1, <1>2, <2>1, <2>3, HeadTidy DEF i
<1>8. CASE (m - 1) % 3 = 2 /\ m % 3 = 0 /\ m >= 3
    <2>1. CombineSteps[i] = Does("free", "leafName")
        BY <1>3, <1>8, LeafTable
    <2>2. m > 1 /\ m > 2
        BY <1>1, <1>8
    <2>3. "leafName" \in CombineHeld(i) /\ CombineHeld(i + 1) = CombineHeld(i) \ {"leafName"}
        BY <1>4, <1>5, <1>8, <2>2
    <2> QED BY <1>1, <1>2, <2>1, <2>3, HeadTidy DEF i
<1> QED BY <1>1, <1>6, <1>7, <1>8, ThreeSteps DEF i

\* What tdh2Combine holds from the access structure on.
LEMMA TailHeld ==
    /\ CombineHeld(Owning) \ {"root", "leaf"} = {"pk"}
    /\ \A k \in 0..10 : CombineHeld(Owning + 1 + k) = {"pk", "ac"} \cup Taken(Arrays, k)
    /\ CombineHeld(Owning + 12) = {"pk", "ac", "result"} \cup ToSet(Arrays)
<1>1. Owning \in Nat /\ Owning > 8 /\ (Owning - 9) % 3 = 0
    BY SMT, PartialsType DEF Owning
<1>2. CombineHeld(Owning) \ {"root", "leaf"} = {"pk"}
    <2>1. /\ ~(Owning <= 4) /\ Owning # 5 /\ Owning # 6 /\ Owning # 7 /\ Owning # 8
          /\ ~(Owning > Owning) /\ Owning > 8 /\ Owning <= Owning
        BY <1>1
    <2>2. CombineHeld(Owning) = {"pk", "root"} \cup (IF Owning > 10 THEN {"leaf"} ELSE {})
                                \cup (IF (Owning - 9) % 3 = 0 THEN {} ELSE {"leafName"})
        BY <2>1 DEF CombineHeld
    <2> QED BY <1>1, <2>2
<1>3. ASSUME NEW i \in Nat, i > Owning
      PROVE  CombineHeld(i) = {"pk", "ac"} \cup Taken(Arrays, i - (Owning + 1))
                              \cup By(i, Owning + 11, "result")
    <2>1. ~(i <= 4) /\ i # 5 /\ i # 6 /\ i # 7 /\ i # 8 /\ ~(i <= Owning)
        BY <1>1, <1>3
    <2> QED BY <1>3, <2>1 DEF CombineHeld
<1>4. ASSUME NEW k \in 0..10
      PROVE  CombineHeld(Owning + 1 + k) = {"pk", "ac"} \cup Taken(Arrays, k)
    <2> DEFINE i == Owning + 1 + k
    <2>1. i \in Nat /\ i > Owning /\ i - (Owning + 1) = k /\ ~(i > Owning + 11)
        BY <1>1
    <2> HIDE DEF i
    <2>2. By(i, Owning + 11, "result") = {}
        BY <2>1 DEF By
    <2>3. CombineHeld(i) = {"pk", "ac"} \cup Taken(Arrays, k)
        BY <1>3, <2>1, <2>2
    <2> QED BY <2>3 DEF i
<1>5. CombineHeld(Owning + 12) = {"pk", "ac", "result"} \cup ToSet(Arrays)
    <2> DEFINE i == Owning + 12
    <2>1. i \in Nat /\ i > Owning /\ i - (Owning + 1) = 11 /\ i > Owning + 11
        BY <1>1
    <2> HIDE DEF i
    <2>2. By(i, Owning + 11, "result") = {"result"}
        BY <2>1 DEF By
    <2>3. CombineHeld(i) = {"pk", "ac"} \cup ToSet(Arrays) \cup {"result"}
        BY <1>3, <2>1, <2>2, ArraysTaken
    <2> QED BY <2>3 DEF i
<1> QED BY <1>2, <1>4, <1>5

\* The steps from the access structure on.
LEMMA CombineTail ==
    ASSUME NEW i \in {Owning, Owning + 11, Owning + 12}
    PROVE  Tidy("tdh2Combine", i)
<1>0. Steps("tdh2Combine") = CombineSteps
    BY DEF Steps
<1>1. Owning \in Nat /\ Owning + 1 \in DOMAIN CombineSteps /\ Owning + 12 \in DOMAIN CombineSteps
    BY CombineTable, PartialsType DEF Owning
<1>2. CASE i = Owning
    <2>1. Finally("tdh2Combine", Owning) = {}
        BY <1>1, CombineFrom DEF Finally
    <2>2. Owning < From("tdh2Combine", "call")
        BY <1>1, CombineFrom
    <2>3. CombineHeld(Owning + 1) = {"pk", "ac"}
        <3>1. CombineHeld(Owning + 1 + 0) = {"pk", "ac"} \cup Taken(Arrays, 0)
            BY TailHeld
        <3>2. Owning + 1 + 0 = Owning + 1
            BY <1>1
        <3> QED BY <3>1, <3>2, ArraysTaken
    <2>4. Held("tdh2Combine", Owning) \ {"root", "leaf"} = {"pk"}
        BY TailHeld DEF Held
    <2>5. Held("tdh2Combine", Owning + 1) = {"pk", "ac"}
        BY <2>3 DEF Held
    <2>6. Held("tdh2Combine", Owning + 1) = (Held("tdh2Combine", Owning) \ {"root", "leaf"}) \cup {"ac"}
        BY <2>4, <2>5
    <2>7. CombineSteps[Owning] = Does("own", "ac")
        BY CombineTable
    <2> DEFINE next == Owning + 1  early == Owning < From("tdh2Combine", "call")
    <2>8. next \in DOMAIN CombineSteps /\ early
        BY <1>1, <2>2
    <2>9. Held("tdh2Combine", next) = (Held("tdh2Combine", Owning) \ {"root", "leaf"}) \cup {"ac"}
        BY <2>6
    <2> HIDE DEF next, early, Held
    <2>10. Tidy("tdh2Combine", Owning)
        BY <1>0, <2>1, <2>7, <2>8, <2>9 DEF Tidy, Does, next, early
    <2> QED BY <1>2, <2>10
<1>3. \A n \in {Owning + 11, Owning + 12} :
          Finally("tdh2Combine", n) = ToSet(Arrays) \cup {"ac", "pk"}
    BY <1>1, CombineFrom DEF Finally
<1>4. Held("tdh2Combine", Owning + 11) = {"pk", "ac"} \cup ToSet(Arrays)
    <2>1. CombineHeld(Owning + 1 + 10) = {"pk", "ac"} \cup Taken(Arrays, 10)
        BY TailHeld
    <2>2. Owning + 1 + 10 = Owning + 11
        BY <1>1
    <2>3. CombineHeld(Owning + 11) = {"pk", "ac"} \cup ToSet(Arrays)
        BY <2>1, <2>2, ArraysTaken
    <2> QED BY <2>3 DEF Held
<1>5. Held("tdh2Combine", Owning + 12) = {"pk", "ac", "result"} \cup ToSet(Arrays)
    BY TailHeld, ArraysTaken DEF Held
<1>6. CASE i = Owning + 11
    <2>1. CombineSteps[i] = Does("call", "result")
        BY <1>6, CombineTable
    <2> DEFINE next == i + 1
    <2>2. next = Owning + 12
        BY <1>1, <1>6
    <2>3. next \in DOMAIN CombineSteps /\ Held("tdh2Combine", next) = Held("tdh2Combine", i) \cup {"result"}
        BY <1>1, <1>4, <1>5, <1>6, <2>2
    <2>4. Finally("tdh2Combine", i) = Held("tdh2Combine", i)
        BY <1>3, <1>4, <1>6
    <2> HIDE DEF next
    <2> QED BY <1>0, <2>1, <2>3, <2>4 DEF Tidy, Does, next
<1>7. CASE i = Owning + 12
    <2>1. CombineSteps[i] = Does("read", "result")
        BY <1>7, CombineTable
    <2>2. Finally("tdh2Combine", i) \cup ({"result"} \ {"verdict"}) = Held("tdh2Combine", i)
        BY <1>3, <1>5, <1>7
    <2> QED BY <1>0, <2>1, <2>2 DEF Tidy, Does
<1> QED BY <1>2, <1>6, <1>7

LEMMA CombineTidy ==
    /\ 1 \in DOMAIN Steps("tdh2Combine") /\ Held("tdh2Combine", 1) = {}
    /\ \A i \in DOMAIN Steps("tdh2Combine") : Tidy("tdh2Combine", i)
<1>0. Steps("tdh2Combine") = CombineSteps
    BY DEF Steps
<1>1. Owning \in Nat /\ 1 \in DOMAIN CombineSteps
    BY CombineTable, PartialsType DEF Owning
<1>2. Held("tdh2Combine", 1) = {}
    BY HeadHeld DEF Held
<1>3. ASSUME NEW j \in 1..10
      PROVE  Tidy("tdh2Combine", Owning + j)
    <2> DEFINE i == Owning + j
    <2>1. /\ i \in DOMAIN CombineSteps /\ i + 1 \in DOMAIN CombineSteps
          /\ ~(i >= Owning + 11) /\ i < Owning + 11
          /\ j - 1 \in 0..9 /\ j - 1 + 1 = j /\ i = Owning + 1 + (j - 1) /\ i + 1 = Owning + 1 + j
        BY <1>1, CombineTable
    <2>2. CombineHeld(i) = {"pk", "ac"} \cup Taken(Arrays, j - 1)
        BY <2>1, TailHeld
    <2>3. CombineHeld(i + 1) = {"pk", "ac"} \cup Taken(Arrays, j)
        BY <2>1, TailHeld
    <2>4. Taken(Arrays, j) = Taken(Arrays, j - 1) \cup {Arrays[j]}
        BY <2>1, ArraysTaken
    <2>5. CombineHeld(i + 1) = CombineHeld(i) \cup {Arrays[j]}
        BY <2>2, <2>3, <2>4
    <2>6. CombineSteps[i] = Does("alloc", Arrays[j])
        BY CombineArrays
    <2>7. Finally("tdh2Combine", i) = {}
        BY <2>1, CombineFrom DEF Finally
    <2> HIDE DEF i
    <2> QED BY <2>1, <2>5, <2>6, <2>7, HeadTidy DEF i
<1>4. ASSUME NEW i \in 1..(Owning + 12) PROVE Tidy("tdh2Combine", i)
    <2>1. CASE i \in 1..8
        BY <2>1, CombineHead
    <2>2. CASE \E m \in 1..(3 * Partials) : i = 8 + m
        BY <2>2, CombineLoop
    <2>3. CASE i \in {Owning, Owning + 11, Owning + 12}
        BY <2>3, CombineTail
    <2>4. CASE \E j \in 1..10 : i = Owning + j
        BY <1>3, <2>4
    <2> QED BY <2>1, <2>2, <2>3, <2>4, CombineCases
<1>5. DOMAIN CombineSteps = 1..(Owning + 12)
    BY CombineTable
<1> QED BY <1>0, <1>1, <1>2, <1>4, <1>5

LEMMA EveryCallIsTidy == AllTidy
BY EncryptTidy, VerifyTidy, ExtractLabelTidy, CombineTidy DEF AllTidy, Bodies

------------------------------------------------------------------------------
(* The calls as the uploads and downloads make them. *)

LEMMA WasmInvInit == Init => WasmInv
BY DEF Init, CallsInit, WasmInv, Idle

LEMMA WasmInvStep == WasmInv /\ [Next]_vars => WasmInv'
<1> SUFFICES ASSUME WasmInv, [Next]_vars PROVE WasmInv'
    OBVIOUS
<1>1. \/ CallStep \/ UNCHANGED wasmVars \/ \E b \in Bodies : Enter(b)
    <2>1. CASE InWasm
        BY <2>1 DEF InWasm
    <2>2. CASE Returned
        BY <2>2 DEF Returned, Combined, Encrypted, Labelled
    <2>3. CASE Verify
        BY <2>3 DEF Verify, Bodies
    <2>4. CASE Fetch \/ Open \/ Collected
        BY <2>4 DEF Fetch, Open, Collected
    <2>5. ASSUME NEW f \in Files,
                 \/ StartUpload(f) \/ Add(f) \/ AddFails(f) \/ Pin(f)
                 \/ PinUniterated(f) \/ Write(f) \/ Overwrite(f)
          PROVE  UNCHANGED wasmVars
        BY <2>5 DEF StartUpload, Add, AddFails, Pin, PinUniterated, Write, Overwrite
    <2>6. ASSUME NEW f \in Files, Allocate(f) \/ CheckLabel(f) \/ Collect(f)
          PROVE  UNCHANGED wasmVars \/ \E b \in Bodies : Enter(b)
        BY <2>6 DEF Allocate, CheckLabel, Collect, Bodies
    <2>7. CASE UNCHANGED vars
        BY <2>7 DEF vars
    <2> QED BY <2>1, <2>2, <2>3, <2>4, <2>5, <2>6, <2>7 DEF Next, Elsewhere
<1>2. CASE UNCHANGED wasmVars
    BY <1>2 DEF wasmVars, WasmInv, Idle
<1> QED BY <1>1, <1>2, CallStepKeeps, EnterKeeps, EveryCallIsTidy

------------------------------------------------------------------------------
\* At every step of a call into the library exactly what the step expects is allocated,
\* and the views are those of the memory as it is.
THEOREM WasmInvariant == Spec => []WasmInv
BY WasmInvInit, WasmInvStep, PTL DEF Spec

\* CbMpcWasm writes through no stale view, releases nothing twice and keeps nothing,
\* however many partials a combine is given and wherever the memory grows; a trap in
\* tdh2Combine before its try block is the one exit that loses memory.
THEOREM CallsAreTidy == Spec => []WasmIsTidy
<1>1. WasmInv => WasmIsTidy
    BY DEF WasmInv, WasmIsTidy
<1> QED BY <1>1, WasmInvariant, PTL

==============================================================================
