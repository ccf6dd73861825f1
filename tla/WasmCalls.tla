------------------------------- MODULE WasmCalls -------------------------------
(***************************************************************************)
(* CbMpcWasm: the four calls into the compiled TDH2 library, each a fixed  *)
(* sequence of allocations, library calls and releases in a linear memory  *)
(* that may grow under them, with the finally clauses that clean up.       *)
(* A library call answers, reports an error code, or traps (a C++          *)
(* exception surfaces as a JavaScript one).                                *)
(* JavaScript runs a call to its end; the steps are those of its body.     *)
(***************************************************************************)
EXTENDS Naturals, Sequences, SequencesExt

CONSTANTS
    Partials,   \* how many partials a combine is given
    MaxGrowth   \* bound: how often the memory grows

ASSUME WasmCallsAssumption == Partials \in Nat /\ MaxGrowth \in Nat

VARIABLES
    body,       \* which of the four calls, the last one when none is running
    at,         \* its next step, or the one that ended it
    live,       \* blocks and handles allocated and not released
    memory,     \* the buffer of the linear memory, by generation
    view,       \* the buffer HEAPU8 and HEAP32 are views of
    misused,    \* a stale view was written through, or a block released twice
    how         \* "running", or how the last call ended

wasmVars == <<body, at, live, memory, view, misused, how>>

Bodies == {"tdh2Encrypt", "tdh2Verify", "tdh2Combine", "tdh2ExtractLabel"}

Step(act, on) == <<[act |-> act, on |-> on]>>
Alloc(names) == [i \in DOMAIN names |-> [act |-> "alloc", on |-> names[i]]]
Arrays == <<"namesData", "namesSizes", "pubSharesData", "pubSharesSizes",
            "partialsData", "partialsSizes", "ct", "label", "outPtr", "outSize">>
LeafSteps == Step("alloc", "leafName") \o Step("node", "leaf") \o Step("free", "leafName")

\* pub_key_from_point reads a point and writes a handle.
PubKey == Alloc(<<"point", "handlePtr">>) \o Step("derive", "pk")

EncryptSteps ==
    PubKey \o Alloc(<<"plain", "label", "outPtr", "outSize">>)
    \o Step("call", "result") \o Step("read", "result")

VerifySteps == PubKey \o Alloc(<<"ct", "label">>) \o Step("verify", "verdict")

\* The public key and the root, a node for every partial, and the access structure that
\* takes them over.
BeforeLeaves ==
    PubKey \o Step("free", "point") \o Step("free", "handlePtr")
    \o Step("alloc", "rootName") \o Step("node", "root") \o Step("free", "rootName")
AfterLeaves ==
    Step("own", "ac") \o Alloc(Arrays) \o Step("call", "result") \o Step("read", "result")
Owning == 9 + 3 * Partials  \* the step after the loop over the leaves
CombineSteps ==
    [i \in 1..(Owning + 12) |->
        CASE i < 9 -> BeforeLeaves[i]
          [] i >= 9 /\ i < Owning -> LeafSteps[1 + ((i - 9) % 3)]
          [] i >= Owning -> AfterLeaves[i - Owning + 1]]

ExtractLabelSteps ==
    Alloc(<<"ct", "outPtr", "outSize">>) \o Step("call", "result") \o Step("read", "result")

Steps(b) ==
    CASE b = "tdh2Encrypt" -> EncryptSteps
      [] b = "tdh2Verify" -> VerifySteps
      [] b = "tdh2Combine" -> CombineSteps
      [] b = "tdh2ExtractLabel" -> ExtractLabelSteps

Here == Steps(body)[at]

\* Where b takes its step of that kind.
From(b, act) == CHOOSE i \in DOMAIN Steps(b) : Steps(b)[i].act = act

\* What the finally clauses of b release when step i of it is the last one: the
\* clauses of the try blocks that step is in.
Finally(b, i) ==
    CASE b = "tdh2Encrypt" ->
            (IF i >= From(b, "derive") THEN {"point", "handlePtr"} ELSE {})
            \cup (IF i >= From(b, "call") THEN {"plain", "label", "outPtr", "outSize", "pk"} ELSE {})
      [] b = "tdh2Verify" ->
            (IF i >= From(b, "derive") THEN {"point", "handlePtr"} ELSE {})
            \cup (IF i >= From(b, "verify") THEN {"ct", "label", "pk"} ELSE {})
      [] b = "tdh2Combine" ->
            IF i >= From(b, "call") THEN ToSet(Arrays) \cup {"ac", "pk"} ELSE {}
      [] b = "tdh2ExtractLabel" ->
            IF i >= From(b, "call") THEN {"ct", "outPtr", "outSize"} ELSE {}

\* tdh2Combine looks at the first error code outside any try block.
ByHand(b) == IF b = "tdh2Combine" THEN {"point", "handlePtr"} ELSE {}

------------------------------------------------------------------------------
CallsInit ==
    /\ body = "none" /\ at = 1
    /\ live = {}
    /\ memory = 0 /\ view = 0
    /\ misused = FALSE
    /\ how = "none"

Idle == how # "running"

Enter(b) ==
    /\ Idle
    /\ body' = b /\ at' = 1
    /\ live' = {}
    /\ how' = "running"
    /\ UNCHANGED <<memory, view, misused>>

\* The call stands at a step of one of these kinds.
Stands(acts) == ~Idle /\ Here.act \in acts

\* resize_heap gives the module new views of the buffer it has grown to; whatever
\* allocates may come to it.
MayGrow ==
    \/ UNCHANGED <<memory, view>>
    \/ memory < MaxGrowth /\ memory' = memory + 1 /\ view' = memory'

Leave(e, released) ==
    /\ how' = e
    /\ live' = live \ released
    /\ misused' = (misused \/ ~(released \subseteq live))
    /\ UNCHANGED <<body, at>>

Proceed == at' = at + 1 /\ UNCHANGED <<body, how>>

\* allocBytes, allocConcatArrays, or a bare malloc: what is written after it goes through
\* HEAPU8 or HEAP32 as they are then.
AllocStep ==
    /\ Stands({"alloc"})
    /\ MayGrow
    /\ live' = live \cup {Here.on}
    /\ misused' = (misused \/ view' # memory')
    /\ Proceed

FreeStep ==
    /\ Stands({"free"})
    /\ live' = live \ {Here.on}
    /\ misused' = (misused \/ Here.on \notin live)
    /\ Proceed
    /\ UNCHANGED <<memory, view>>

\* The library makes a public key, a result, or a node of the access structure;
\* ac_new takes the nodes over.
LibraryStep ==
    /\ Stands({"derive", "call", "node", "own"})
    /\ MayGrow
    /\ live' = (IF Here.act = "own" THEN live \ {"root", "leaf"} ELSE live) \cup {Here.on}
    /\ Proceed
    /\ UNCHANGED misused

\* Mutant: the code of pub_key_from_point is thrown without the releases by hand.
CodeUnattended ==
    /\ Stands({"derive", "call"})
    /\ MayGrow
    /\ Leave("code", Finally(body, at))

\* An error code: it is thrown, through the finally clauses around it.
CodeStep ==
    /\ Stands({"derive", "call"})
    /\ MayGrow
    /\ Leave("code", Finally(body, at)
                     \cup (IF Here.act = "derive" THEN ByHand(body) ELSE {}))

TrapStep ==
    /\ Stands({"derive", "call", "verify", "node", "own"})
    /\ MayGrow
    /\ Leave("trap", Finally(body, at))

\* readResult copies the result out and frees it; the verdict of a verification is its
\* code.
ReturnStep ==
    /\ Stands({"read", "verify"})
    /\ Leave("returned", Finally(body, at) \cup ({Here.on} \ {"verdict"}))
    /\ UNCHANGED <<memory, view>>

CallStep ==
    \/ AllocStep \/ FreeStep \/ LibraryStep \/ CodeStep \/ TrapStep \/ ReturnStep

CallsTypeOK ==
    /\ body \in Bodies \cup {"none"}
    /\ ~Idle => at \in DOMAIN Steps(body)
    /\ memory \in 0..MaxGrowth /\ view \in 0..MaxGrowth
    /\ misused \in BOOLEAN
    /\ how \in {"none", "running", "returned", "code", "trap"}

\* No call writes through a view of a buffer the memory has grown out of, releases
\* anything twice, or keeps anything after it returned or threw an error code. A trap
\* loses memory in tdh2Combine only, before its try block: what it had built of the
\* access structure, the public key, the block in hand.
WasmIsTidy ==
    /\ ~misused
    /\ how \in {"returned", "code"} => live = {}
    /\ how = "trap" /\ live # {} =>
           body = "tdh2Combine" /\ at < From("tdh2Combine", "call")
=============================================================================
