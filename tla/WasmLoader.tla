------------------------------ MODULE WasmLoader ------------------------------
(***************************************************************************)
(* initWasm and resetWasm: the one WASM instance of a process and the      *)
(* promise of the load in flight, both kept in slots of globalThis so that *)
(* two copies of the package share them.                                   *)
(***************************************************************************)
EXTENDS Naturals

CONSTANTS
    Inits,      \* calls of initWasm
    MaxResets,  \* bound: calls of resetWasm
    None        \* an empty slot

ASSUME LoaderAssumption == MaxResets \in Nat /\ None \notin Inits

VARIABLES
    wasmInstance,       \* the call whose load made the instance, or None
    wasmInitPromise,    \* the call whose load is in flight, or None
    initAt,             \* [Inits -> where the call stands]
    joins,              \* [Inits -> whose promise it awaits]
    resets

loaderVars == <<wasmInstance, wasmInitPromise, initAt, joins, resets>>

\* "loaded" and "rejected": the promise has settled, and the finally clause, which runs
\* in a job of its own, has not; jobs queued before it run first, calls of initWasm too.
InitPlaces == {"idle", "joined", "loading", "loaded", "rejected", "resolved", "failed"}

LoaderInit ==
    /\ wasmInstance = None
    /\ wasmInitPromise = None
    /\ initAt = [i \in Inits |-> "idle"]
    /\ joins = [i \in Inits |-> None]
    /\ resets = 0

\* There is an instance: nothing to do.
InitReturns(i) ==
    /\ initAt[i] = "idle"
    /\ wasmInstance # None
    /\ initAt' = [initAt EXCEPT ![i] = "resolved"]
    /\ UNCHANGED <<wasmInstance, wasmInitPromise, joins, resets>>

\* A load is in flight, or has just failed: its promise is returned.
InitJoins(i) ==
    /\ initAt[i] = "idle"
    /\ wasmInstance = None /\ wasmInitPromise # None
    /\ initAt' = [initAt EXCEPT ![i] = "joined"]
    /\ joins' = [joins EXCEPT ![i] = wasmInitPromise]
    /\ UNCHANGED <<wasmInstance, wasmInitPromise, resets>>

InitStarts(i) ==
    /\ initAt[i] = "idle"
    /\ wasmInstance = None /\ wasmInitPromise = None
    /\ initAt' = [initAt EXCEPT ![i] = "loading"]
    /\ wasmInitPromise' = i
    /\ UNCHANGED <<wasmInstance, joins, resets>>

\* The hash is verified, the module created and seeded: the instance is installed.
Load(i) ==
    /\ initAt[i] = "loading"
    /\ initAt' = [initAt EXCEPT ![i] = "loaded"]
    /\ wasmInstance' = i
    /\ UNCHANGED <<wasmInitPromise, joins, resets>>

LoadFails(i) ==
    /\ initAt[i] = "loading"
    /\ initAt' = [initAt EXCEPT ![i] = "rejected"]
    /\ UNCHANGED <<wasmInstance, wasmInitPromise, joins, resets>>

\* Mutant: the slot is cleared after a load that succeeded only.
FinallyOnSuccess(i) ==
    /\ initAt[i] \in {"loaded", "rejected"}
    /\ initAt' = [initAt EXCEPT ![i] = IF @ = "loaded" THEN "resolved" ELSE "failed"]
    /\ wasmInitPromise' = IF initAt[i] = "loaded" THEN None ELSE wasmInitPromise
    /\ UNCHANGED <<wasmInstance, joins, resets>>

\* The finally clause clears the slot, whoever's promise is in it by now.
Finally(i) ==
    /\ initAt[i] \in {"loaded", "rejected"}
    /\ initAt' = [initAt EXCEPT ![i] = IF @ = "loaded" THEN "resolved" ELSE "failed"]
    /\ wasmInitPromise' = None
    /\ UNCHANGED <<wasmInstance, joins, resets>>

\* A caller that joined a load settles as the load did.
JoinSettles(i) ==
    /\ initAt[i] = "joined"
    /\ \/ /\ initAt[joins[i]] \in {"loaded", "resolved"}
          /\ initAt' = [initAt EXCEPT ![i] = "resolved"]
       \/ /\ initAt[joins[i]] \in {"rejected", "failed"}
          /\ initAt' = [initAt EXCEPT ![i] = "failed"]
    /\ UNCHANGED <<wasmInstance, wasmInitPromise, joins, resets>>

ResetWasm ==
    /\ resets < MaxResets
    /\ resets' = resets + 1
    /\ wasmInstance' = None
    /\ wasmInitPromise' = None
    /\ UNCHANGED <<initAt, joins>>

LoaderNext ==
    \/ \E i \in Inits : \/ InitReturns(i) \/ InitJoins(i) \/ InitStarts(i)
                        \/ Load(i) \/ LoadFails(i) \/ Finally(i) \/ JoinSettles(i)
    \/ ResetWasm

LoaderTypeOK ==
    /\ wasmInstance \in Inits \cup {None}
    /\ wasmInitPromise \in Inits \cup {None}
    /\ initAt \in [Inits -> InitPlaces]
    /\ joins \in [Inits -> Inits \cup {None}]
    /\ resets \in 0..MaxResets

\* A load whose caller has been told how it ended is not given to anyone to wait for, and
\* those who were given it end as it did, resets or not. So a caller that comes after the
\* failure was told makes a new attempt; the exception is one that comes between the
\* rejection and the finally clause: it is given the load that has just failed. While
\* nothing is reset, the module is loaded by one caller at a time, and a call that
\* resolves finds it loaded.
LoaderIsShared ==
    /\ wasmInitPromise # None =>
           initAt[wasmInitPromise] \in {"loading", "loaded", "rejected"}
    /\ \A i \in Inits : joins[i] # None =>
           /\ initAt[i] = "resolved" => initAt[joins[i]] \in {"loaded", "resolved"}
           /\ initAt[i] = "failed" => initAt[joins[i]] \in {"rejected", "failed"}
    /\ resets = 0 =>
        /\ \A i \in Inits : initAt[i] = "loading" => wasmInitPromise = i
        /\ \A i \in Inits : initAt[i] \in {"loaded", "resolved"} => wasmInstance # None
=============================================================================
