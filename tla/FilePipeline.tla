------------------------------ MODULE FilePipeline ------------------------------
(***************************************************************************)
(* A file on its way through uploadFile, a storage provider, a vault and   *)
(* downloadFile, with the TDH2 calls of both sides running in one          *)
(* CbMpcWasm (WasmCalls).                                                  *)
(*                                                                         *)
(* Every file is uploaded once, to a vault of its own.  The storage may    *)
(* serve other bytes than it was given and drop what nobody pinned; a      *)
(* vault's owner may overwrite it with a payload that names no file.       *)
(* What the vault yields to a reader is module VaultAccess's subject:      *)
(* here accessCDR goes from the vault to the partials in one step.         *)
(***************************************************************************)
EXTENDS WasmCalls, FiniteSets

CONSTANTS
    Files,      \* the files uploaded
    Providers,  \* the storage providers in use: "gateway", "helia", "storacha", "synapse"
    Sizes,      \* "small": one UnixFS block; "large": several
    None,       \* nothing there
    Other       \* a vault payload that names no file

ASSUME FilePipelineAssumption ==
    /\ Providers \subseteq {"gateway", "helia", "storacha", "synapse"}
    /\ Sizes \subseteq {"small", "large"}

VARIABLES
    provider,   \* the provider of both sides
    size,       \* of each file
    pin,        \* uploadFile's pin option
    skip,       \* skipCidVerification, or no multiformats package to verify with
    up,         \* each uploadFile: pc, the AES key, the bytes stored, their CID, the ciphertext
    stored,     \* what the storage keeps: CID, bytes, pinned or not
    vault,      \* the payload each vault's ciphertext encrypts
    down,       \* one downloadFile: pc, file's vault, payload, bytes, content
    served      \* the storage served bytes that are not the stored ones

fileVars == <<provider, size, pin, skip, up, stored, vault, down, served>>
vars == <<fileVars, wasmVars>>

Garbage == [key |-> None, content |-> None]

\* Mutant: the key is drawn once per process.
RandomKeyOnce(f) == CHOOSE g \in Files : TRUE

\* Every encryptFile draws a key; the key of f's upload is named after f.
RandomKey(f) == f

EncryptFile(f) == [key |-> RandomKey(f), content |-> f]

\* AES-GCM opens exactly what was sealed under the key.
Opens(key, bytes) == bytes.key = key

\* What a CID's multihash is of: the raw bytes, a UnixFS node above them, or a
\* Filecoin piece.
Codecs(f) ==
    CASE provider = "synapse" -> {"piece"}
      [] size[f] = "large" -> {"node"}
      [] provider = "gateway" -> {"raw", "node"}  \* as the IPFS node is configured
      [] OTHER -> {"raw"}

\* Mutant: verification compares codec and version and leaves the digest out.
CidVerifiesCodec(cid, bytes) == cid.of = "raw"

\* downloadFile rebuilds the CID from the version and the codec it expects and the
\* SHA-256 of the raw bytes.
CidVerifies(cid, bytes) == cid.of = "raw" /\ cid.bytes = bytes

\* What is stored, what it is called, and what a vault is for.
Bytes == [key : Files \cup {None}, content : Files \cup {None}]
Cids == [of : {"raw", "node", "piece"}, bytes : Bytes]
Payloads == [cid : Cids, key : Files]

ASSUME ValuesAssumption ==
    None \notin Files /\ None # Other /\ {None, Other} \cap Payloads = {}

Upload(f, pc) == up[f].pc = pc
UpTo(f, pc) == up' = [up EXCEPT ![f].pc = pc]
DownTo(pc) == down' = [down EXCEPT !.pc = pc]
Fixed == UNCHANGED <<provider, size, pin, skip>>

Init ==
    /\ CallsInit
    /\ provider \in Providers
    /\ size \in [Files -> Sizes]
    /\ pin \in BOOLEAN /\ skip \in BOOLEAN
    /\ up = [f \in Files |-> [pc |-> "idle", bytes |-> Garbage, cid |-> None]]
    /\ stored = {}
    /\ vault = [f \in Files |-> None]
    /\ down = [pc |-> "idle", of |-> None, payload |-> None, bytes |-> Garbage, content |-> None]
    /\ served = FALSE

------------------------------------------------------------------------------
\* The upload.

StartUpload(f) ==
    /\ Upload(f, "idle")
    /\ up' = [up EXCEPT ![f].pc = "store", ![f].bytes = EncryptFile(f)]
    /\ UNCHANGED <<stored, vault, down, served, wasmVars>>

\* The provider's add: all of them answer with a CID.  Only Gateway and Helia pin by a
\* call of their own, when asked; the other two keep what they are given.
Pinning == provider \in {"gateway", "helia"}

Add(f) ==
    /\ Upload(f, "store")
    /\ \E codec \in Codecs(f) :
           LET cid == [of |-> codec, bytes |-> up[f].bytes] IN
           /\ stored' = stored \cup {[cid |-> cid, pinned |-> ~Pinning]}
           /\ up' = [up EXCEPT ![f].cid = cid,
                               ![f].pc = IF Pinning /\ pin THEN "pin" ELSE "allocate"]
    /\ UNCHANGED <<vault, down, served, wasmVars>>

AddFails(f) ==
    /\ Upload(f, "store")
    /\ UpTo(f, "failed")
    /\ UNCHANGED <<stored, vault, down, served, wasmVars>>

\* Mutant: a refused pin goes unnoticed.
PinUnread(f) ==
    /\ provider = "gateway"
    /\ Upload(f, "pin")
    /\ \/ stored' = {[s EXCEPT !.pinned = @ \/ s.cid = up[f].cid] : s \in stored}
       \/ UNCHANGED stored
    /\ UpTo(f, "allocate")
    /\ UNCHANGED <<vault, down, served, wasmVars>>

\* Gateway asks the IPFS node; a CID nobody stores any more cannot be pinned.
Pin(f) ==
    /\ provider = "gateway"
    /\ Upload(f, "pin")
    /\ \/ /\ \E s \in stored : s.cid = up[f].cid
          /\ stored' = {[s EXCEPT !.pinned = @ \/ s.cid = up[f].cid] : s \in stored}
          /\ UpTo(f, "allocate")
       \/ UpTo(f, "failed") /\ UNCHANGED stored
    /\ UNCHANGED <<vault, down, served, wasmVars>>

\* Helia's pins.add returns an async generator, which is awaited but never iterated:
\* nothing is pinned and nothing fails.
PinUniterated(f) ==
    /\ provider = "helia"
    /\ Upload(f, "pin")
    /\ UpTo(f, "allocate")
    /\ UNCHANGED <<stored, vault, down, served, wasmVars>>

\* allocate (module Uploader), then tdh2Encrypt, unless there is no WASM instance.
Allocate(f) ==
    /\ Upload(f, "allocate")
    /\ \/ UpTo(f, "failed") /\ UNCHANGED wasmVars
       \/ UpTo(f, "encrypt") /\ Enter("tdh2Encrypt")
    /\ UNCHANGED <<stored, vault, down, served>>

Encrypted(f) ==
    /\ Upload(f, "encrypt")
    /\ UpTo(f, IF how = "returned" THEN "write" ELSE "failed")
    /\ UNCHANGED <<stored, vault, down, served, wasmVars>>

\* write looks the label up in the ciphertext first.
CheckLabel(f) ==
    /\ Upload(f, "write")
    /\ UpTo(f, "label") /\ Enter("tdh2ExtractLabel")
    /\ UNCHANGED <<stored, vault, down, served>>

Labelled(f) ==
    /\ Upload(f, "label")
    /\ UpTo(f, IF how = "returned" THEN "send" ELSE "failed")
    /\ UNCHANGED <<stored, vault, down, served, wasmVars>>

Write(f) ==
    /\ Upload(f, "send")
    /\ \/ /\ vault' = [vault EXCEPT ![f] = [cid |-> up[f].cid, key |-> up[f].bytes.key]]
          /\ UpTo(f, "done")
       \/ UpTo(f, "failed") /\ UNCHANGED vault
    /\ UNCHANGED <<stored, down, served, wasmVars>>

------------------------------------------------------------------------------
\* The download.

\* accessCDR has its threshold of partials; decryptDataKey opens each with the
\* requester's key and fails with any of them, then combines what it was given.
Collect(f) ==
    /\ down.pc = "idle" /\ vault[f] # None
    /\ \/ /\ down' = [down EXCEPT !.pc = "combine", !.of = f, !.payload = vault[f]]
          /\ Enter("tdh2Combine")
       \/ /\ down' = [down EXCEPT !.pc = "AccessError", !.of = f]
          /\ UNCHANGED wasmVars
    /\ UNCHANGED <<up, stored, vault, served>>

Combined ==
    /\ down.pc = "combine"
    /\ DownTo(IF how # "returned" THEN "AccessError"
              ELSE IF down.payload = Other THEN "PayloadError" ELSE "fetch")
    /\ UNCHANGED <<up, stored, vault, served, wasmVars>>

\* download: an error, what was stored, or what the storage answers instead of it.
Fetch ==
    /\ down.pc = "fetch"
    /\ \/ /\ \E s \in stored : s.cid = down.payload.cid
          /\ down' = [down EXCEPT !.pc = "verify", !.bytes = down.payload.cid.bytes]
          /\ UNCHANGED served
       \/ \E b \in ({up[f].bytes : f \in Files} \cup {Garbage}) \ {down.payload.cid.bytes} :
              /\ down' = [down EXCEPT !.pc = "verify", !.bytes = b]
              /\ served' = TRUE
       \/ DownTo("StorageError") /\ UNCHANGED served
    /\ UNCHANGED <<up, stored, vault, wasmVars>>

\* The integrity check, then decryptFile.
Open ==
    /\ down.pc = "verify"
    /\ \/ /\ ~skip /\ ~CidVerifies(down.payload.cid, down.bytes)
          /\ DownTo("CidIntegrityError")
       \/ /\ skip \/ CidVerifies(down.payload.cid, down.bytes)
          /\ IF Opens(down.payload.key, down.bytes)
             THEN down' = [down EXCEPT !.pc = "ok", !.content = down.bytes.content]
             ELSE DownTo("DecryptionError")
    /\ UNCHANGED <<up, stored, vault, served, wasmVars>>

------------------------------------------------------------------------------
\* Around them.

\* A node collects what is not pinned.
Collected ==
    /\ \E s \in stored : ~s.pinned /\ stored' = stored \ {s}
    /\ UNCHANGED <<up, vault, down, served, wasmVars>>

\* uploadCDR and write put any bytes into a vault.
Overwrite(f) ==
    /\ vault[f] \notin {None, Other}
    /\ vault' = [vault EXCEPT ![f] = Other]
    /\ UNCHANGED <<up, stored, down, served, wasmVars>>

\* An application verifies a ciphertext itself.
Verify ==
    /\ body = "none" /\ Enter("tdh2Verify")
    /\ UNCHANGED <<up, stored, vault, down, served>>

InWasm == CallStep /\ UNCHANGED <<up, stored, vault, down, served>>

\* A synchronous call returns to its caller before anything else runs.
Awaited == down.pc = "combine" \/ \E f \in Files : up[f].pc \in {"encrypt", "label"}

Returned == Combined \/ \E f \in Files : Encrypted(f) \/ Labelled(f)

Elsewhere ==
    \/ \E f \in Files :
           \/ StartUpload(f) \/ Add(f) \/ AddFails(f) \/ Pin(f) \/ PinUniterated(f)
           \/ Allocate(f) \/ CheckLabel(f) \/ Write(f) \/ Collect(f) \/ Overwrite(f)
    \/ Fetch \/ Open \/ Collected \/ Verify

Next ==
    /\ Fixed
    /\ \/ InWasm
       \/ Idle /\ Returned
       \/ Idle /\ ~Awaited /\ Elsewhere

Spec == Init /\ [][Next]_vars

------------------------------------------------------------------------------
\* What downloadFile returns is the file the vault was made for, whatever the storage
\* serves and whether or not the CID is verified: every file has a key of its own, and
\* AES-GCM opens nothing else with it (encryptFile, decryptFile).
ContentIsAuthentic == down.pc = "ok" => down.content = down.of

\* While the CID is verified, bytes the storage made up or mixed up end in a
\* CidIntegrityError: they neither open nor reach AES-GCM, whose error would not tell a
\* wrong key from a corrupted file (downloadFile).
WrongBytesAreNamed == ~skip /\ down.pc \in {"ok", "DecryptionError"} => ~served

\* A vault written by uploadFile with pin set refers to a file the storage keeps for
\* good: the transaction is sent after the pin was confirmed (uploadFile, GatewayProvider),
\* or the provider keeps all it is given. HeliaProvider is the exception: it asks for a
\* pin that is never made.
VaultsKeepTheirFile ==
    \A f \in Files :
        pin /\ provider # "helia" /\ vault[f] # None =>
            \E s \in stored : s.cid = up[f].cid /\ s.pinned

\* A file that was stored, written to a vault and served unchanged is not refused as
\* tampered with.
FileComesBack == ~served => down.pc # "CidIntegrityError"
=============================================================================
