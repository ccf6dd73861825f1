---------------------------- MODULE ThresholdAccess ----------------------------
(***************************************************************************)
(* What Consumer.accessCDR, or read followed by collectPartials, promises  *)
(* its caller, with no word of fees, polls, caches or clocks: the key that *)
(* comes out is that of one ciphertext the vault held, put together from   *)
(* exactly as many partials of one round as that round asks for, and only  *)
(* for a read that was paid.                                               *)
(***************************************************************************)
EXTENDS Naturals, FiniteSets

CONSTANTS
    Ciphertexts, Empty, \* what a vault may hold, written and not
    Rounds, Validators,
    Needed,             \* [Rounds -> Nat]: the partials a key takes in a round
    None                \* no target, no partials

VARIABLES
    vault,      \* what the vault holds
    shares,     \* [Rounds \X Ciphertexts -> SUBSET Validators]: partials produced
    paid,       \* the read is paid for
    target,     \* the ciphertext the caller is to get the key of
    used,       \* the partials the key is put together from
    phase       \* "open", then "key" or "error"

vars == <<vault, shares, paid, target, used, phase>>

Init ==
    /\ vault \in Ciphertexts \cup {Empty}
    /\ shares = [b \in Rounds \X Ciphertexts |-> {}]
    /\ paid = FALSE
    /\ target = None
    /\ used = None
    /\ phase = "open"

\* The owner writes the vault.
Write ==
    /\ vault' \in Ciphertexts
    /\ UNCHANGED <<shares, paid, target, used, phase>>

\* A validator produces its partial; none is ever withdrawn.
Produce ==
    /\ \E b \in Rounds \X Ciphertexts, v \in Validators :
        shares' = [shares EXCEPT ![b] = @ \cup {v}]
    /\ UNCHANGED <<vault, paid, target, used, phase>>

\* The read is mined, even after the caller has given up on it; once at most.
Pay ==
    /\ ~paid
    /\ paid' = TRUE
    /\ UNCHANGED <<vault, shares, target, used, phase>>

\* The caller settles, once, on what the vault holds at that moment.
Choose ==
    /\ phase = "open"
    /\ target = None
    /\ vault # Empty
    /\ target' = vault
    /\ UNCHANGED <<vault, shares, paid, used, phase>>

\* Enough partials, and no more, of one round and of the ciphertext settled on.
Combine ==
    /\ phase = "open"
    /\ paid
    /\ target # None /\ used = None
    /\ \E r \in Rounds : \E s \in SUBSET shares[<<r, target>>] :
        /\ Cardinality(s) = Needed[r]
        /\ used' = [round |-> r, submissions |-> s]
    /\ UNCHANGED <<vault, shares, paid, target, phase>>

Deliver ==
    /\ phase = "open"
    /\ used # None
    /\ phase' = "key"
    /\ UNCHANGED <<vault, shares, paid, target, used>>

Refuse ==
    /\ phase = "open"
    /\ phase' = "error"
    /\ UNCHANGED <<vault, shares, paid, target, used>>

Next == Write \/ Produce \/ Pay \/ Choose \/ Combine \/ Deliver \/ Refuse

Spec == Init /\ [][Next]_vars
=============================================================================
