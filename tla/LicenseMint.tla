------------------------------ MODULE LicenseMint ------------------------------
(***************************************************************************)
(* LicenseClient.mintLicenseToken: calls of one wallet that predict the    *)
(* minting fee, wrap what the wallet lacks, approve the RoyaltyModule and  *)
(* mint, while the licensor changes the fee and any await may fail.        *)
(*                                                                         *)
(* The contracts do what the code counts on: deposit wraps native DATA     *)
(* into WIP, the mint takes the fee of the moment out of the WIP balance,  *)
(* and reverts when it is above maxMintingFee or not covered. A            *)
(* transaction's hash is its call's own (TxSubmit says when that is so).   *)
(***************************************************************************)
EXTENDS Integers

CONSTANTS
    Mints,          \* the calls
    Fees,           \* fees of a mint, in WIP
    Holdings,       \* what the wallet may hold at the start, WIP and native
    Standing,       \* allowances the RoyaltyModule may have at the start
    MaxUint,        \* an allowance that is not used up
    MaxChanges,     \* bound: how often the licensor changes the fee
    None            \* not read, not paid, not minted

ASSUME MintAssumption ==
    /\ Fees \subseteq Nat /\ Holdings \subseteq Nat /\ Standing \subseteq Nat
    /\ MaxUint \in Nat /\ \A f \in Fees \cup Standing : f <= MaxUint
    /\ MaxChanges \in Nat
    /\ None \notin Nat

VARIABLES
    \* --- the chain
    fee,            \* the fee of a mint now
    changes,
    wip, native, allowance,     \* of the wallet
    nextToken,
    sent,           \* [Mints -> Steps \cup {"none"}]: the transaction sent last
    tx,             \* [Mints -> TxStates]: what became of it
    paid,           \* [Mints -> Nat \cup {None}]: what the call's mint cost
    minted,         \* [Mints -> Nat \cup {None}]: startLicenseTokenId of its event
    \* --- the calls
    pc, outcome,
    feeWei,         \* [Mints -> Fees \cup {None}]: the fee predicted
    shortfall, wrappedWei,
    tokens,         \* [Mints -> Nat \cup {None}]: the token returned
    alone           \* calls no other call or leftover transaction ran beside

walletVars == <<wip, native, allowance>>
contractVars == <<fee, changes, walletVars, nextToken, paid, minted>>
resultVars == <<feeWei, shortfall, wrappedWei, tokens, alone>>
vars == <<contractVars, sent, tx, pc, outcome, resultVars>>

Steps == {"deposit", "approve", "mint"}
Reads == {"predict", "balance", "native", "allowance"}
TxStates == {"none", "pending", "success", "reverted"}
Outcomes == {"none", "resolved", "rpcError", "unsupportedCurrency", "preparation",
             "insufficientBalance", "submitFailed", "receiptTimeout", "reverted",
             "eventNotFound"}

\* Not over, or leaving a transaction that may still be mined.
Open(m) == pc[m] \notin {"idle", "over"} \/ tx[m] = "pending"

------------------------------------------------------------------------------
Shortfall(f, balance) == IF f > balance THEN f - balance ELSE 0

\* Mutant: any fee will do.
AnyMintingFee(m) == MaxUint

\* The predicted fee is the most the mint may cost.
MaxMintingFee(m) == feeWei[m]

------------------------------------------------------------------------------
Init ==
    /\ fee \in Fees /\ changes = 0
    /\ wip \in Holdings /\ native \in Holdings
    /\ allowance \in Standing \cup {MaxUint}
    /\ nextToken = 1
    /\ sent = [m \in Mints |-> "none"] /\ tx = [m \in Mints |-> "none"]
    /\ paid = [m \in Mints |-> None] /\ minted = [m \in Mints |-> None]
    /\ pc = [m \in Mints |-> "idle"] /\ outcome = [m \in Mints |-> "none"]
    /\ feeWei = [m \in Mints |-> None]
    /\ shortfall = [m \in Mints |-> 0] /\ wrappedWei = [m \in Mints |-> 0]
    /\ tokens = [m \in Mints |-> None]
    /\ alone = {}

Goto(m, where) == pc' = [pc EXCEPT ![m] = where] /\ UNCHANGED outcome

End(m, how) ==
    /\ pc' = [pc EXCEPT ![m] = "over"]
    /\ outcome' = [outcome EXCEPT ![m] = how]

------------------------------------------------------------------------------
(* The chain. *)

ChangeFee ==
    /\ changes < MaxChanges /\ changes' = changes + 1
    /\ \E f \in Fees \ {fee} : fee' = f
    /\ UNCHANGED <<walletVars, nextToken, paid, minted, sent, tx, pc, outcome, resultVars>>

Reverts(m) ==
    /\ tx' = [tx EXCEPT ![m] = "reverted"]
    /\ UNCHANGED <<walletVars, nextToken, paid, minted>>

MineDeposit(m) ==
    /\ tx[m] = "pending" /\ sent[m] = "deposit"
    /\ IF shortfall[m] <= native
       THEN /\ tx' = [tx EXCEPT ![m] = "success"]
            /\ native' = native - shortfall[m]
            /\ wip' = wip + shortfall[m]
            /\ UNCHANGED <<allowance, nextToken, paid, minted>>
       ELSE Reverts(m)
    /\ UNCHANGED <<fee, changes, sent, pc, outcome, resultVars>>

MineApprove(m) ==
    /\ tx[m] = "pending" /\ sent[m] = "approve"
    /\ tx' = [tx EXCEPT ![m] = "success"]
    /\ allowance' = MaxUint
    /\ UNCHANGED <<fee, changes, wip, native, nextToken, paid, minted, sent,
                   pc, outcome, resultVars>>

MineMint(m) ==
    /\ tx[m] = "pending" /\ sent[m] = "mint"
    /\ IF fee <= MaxMintingFee(m) /\ fee <= wip /\ fee <= allowance
       THEN /\ tx' = [tx EXCEPT ![m] = "success"]
            /\ wip' = wip - fee
            /\ allowance' = IF allowance = MaxUint THEN MaxUint ELSE allowance - fee
            /\ paid' = [paid EXCEPT ![m] = fee]
            /\ minted' = [minted EXCEPT ![m] = nextToken]
            /\ nextToken' = nextToken + 1
            /\ UNCHANGED native
       ELSE Reverts(m)
    /\ UNCHANGED <<fee, changes, sent, pc, outcome, resultVars>>

------------------------------------------------------------------------------
(* mintLicenseToken. *)

\* Calls overlap, or not.
Call(m) ==
    /\ pc[m] = "idle"
    /\ Goto(m, "predict")
    /\ alone' = IF \A n \in Mints \ {m} : ~Open(n) THEN alone \cup {m}
                                                  ELSE {n \in alone : ~Open(n)}
    /\ UNCHANGED <<contractVars, sent, tx, feeWei, shortfall, wrappedWei, tokens>>

\* The fee and its currency are read; terms that are free need nothing prepared.
PredictFee(m) ==
    /\ pc[m] = "predict"
    /\ feeWei' = [feeWei EXCEPT ![m] = fee]
    /\ \/ fee = 0 /\ Goto(m, "mint")
       \/ fee > 0 /\ Goto(m, "balance")
       \/ fee > 0 /\ End(m, "unsupportedCurrency")
    /\ UNCHANGED <<contractVars, sent, tx, shortfall, wrappedWei, tokens, alone>>

\* A shortfall ends the call unless autoWrap is set; native DATA is looked at when
\* the client can.
CheckBalance(m) ==
    /\ pc[m] = "balance"
    /\ LET short == Shortfall(feeWei[m], wip)
       IN  /\ shortfall' = [shortfall EXCEPT ![m] = short]
           /\ \/ short <= 0 /\ Goto(m, "allowance")
              \/ short > 0 /\ End(m, "preparation")
              \/ short > 0 /\ \E next \in {"native", "deposit"} : Goto(m, next)
    /\ UNCHANGED <<contractVars, sent, tx, feeWei, wrappedWei, tokens, alone>>

CheckNative(m) ==
    /\ pc[m] = "native"
    /\ IF native < shortfall[m] THEN End(m, "insufficientBalance") ELSE Goto(m, "deposit")
    /\ UNCHANGED <<contractVars, sent, tx, resultVars>>

\* A short allowance ends the call unless autoApprove is set.
CheckAllowance(m) ==
    /\ pc[m] = "allowance"
    /\ \/ feeWei[m] <= allowance /\ Goto(m, "mint")
       \/ feeWei[m] > allowance /\ Goto(m, "approve")
       \/ feeWei[m] > allowance /\ End(m, "preparation")
    /\ UNCHANGED <<contractVars, sent, tx, resultVars>>

ReadFails(m) ==
    /\ pc[m] \in Reads
    /\ End(m, "rpcError")
    /\ UNCHANGED <<contractVars, sent, tx, resultVars>>

\* writeAndConfirm, up to the hash; an answer that is lost fails the call though the
\* transaction may be in the pool.
Submit(m) ==
    /\ pc[m] \in Steps
    /\ \/ /\ sent' = [sent EXCEPT ![m] = pc[m]]
          /\ tx' = [tx EXCEPT ![m] = "pending"]
          /\ Goto(m, "confirm") \/ End(m, "submitFailed")
       \/ End(m, "submitFailed") /\ UNCHANGED <<sent, tx>>
    /\ UNCHANGED <<contractVars, resultVars>>

ReceiptTimeout(m) ==
    /\ pc[m] = "confirm"
    /\ End(m, "receiptTimeout")
    /\ UNCHANGED <<contractVars, sent, tx, resultVars>>

\* What a confirmed transaction lets the call do; the token is the one of its event.
Proceed(m, token) ==
    CASE sent[m] = "deposit" ->
            /\ wrappedWei' = [wrappedWei EXCEPT ![m] = shortfall[m]]
            /\ Goto(m, "allowance") /\ UNCHANGED tokens
      [] sent[m] = "approve" -> Goto(m, "mint") /\ UNCHANGED <<wrappedWei, tokens>>
      [] sent[m] = "mint" ->
            /\ tokens' = [tokens EXCEPT ![m] = token]
            /\ End(m, IF token = None THEN "eventNotFound" ELSE "resolved")
            /\ UNCHANGED wrappedWei

\* Mutant: the token is read from the contract's counter.
ConfirmByCounter(m) ==
    /\ pc[m] = "confirm"
    /\ \/ tx[m] = "success" /\ Proceed(m, nextToken - 1)
       \/ tx[m] = "reverted" /\ End(m, "reverted") /\ UNCHANGED <<wrappedWei, tokens>>
    /\ UNCHANGED <<contractVars, sent, tx, feeWei, shortfall, alone>>

\* Mutant: the receipt's status is not looked at.
ConfirmUnread(m) ==
    /\ pc[m] = "confirm"
    /\ tx[m] \in {"success", "reverted"}
    /\ Proceed(m, minted[m])
    /\ UNCHANGED <<contractVars, sent, tx, feeWei, shortfall, alone>>

\* The receipt: a reverted transaction ends the call with an error of its own.
Confirm(m) ==
    /\ pc[m] = "confirm"
    /\ \/ tx[m] = "success" /\ Proceed(m, minted[m])
       \/ tx[m] = "reverted" /\ End(m, "reverted") /\ UNCHANGED <<wrappedWei, tokens>>
    /\ UNCHANGED <<contractVars, sent, tx, feeWei, shortfall, alone>>

Next ==
    \/ ChangeFee
    \/ \E m \in Mints :
        \/ Call(m) \/ PredictFee(m) \/ CheckBalance(m) \/ CheckNative(m)
        \/ CheckAllowance(m) \/ ReadFails(m) \/ Submit(m) \/ Confirm(m) \/ ReceiptTimeout(m)
        \/ MineDeposit(m) \/ MineApprove(m) \/ MineMint(m)

Spec == Init /\ [][Next]_vars

------------------------------------------------------------------------------
(* Properties. *)

\* The type invariant.
TypeOK ==
    /\ fee \in Fees /\ changes \in 0..MaxChanges
    /\ wip \in Nat /\ native \in Nat /\ allowance \in 0..MaxUint
    /\ nextToken \in Nat
    /\ sent \in [Mints -> Steps \cup {"none"}] /\ tx \in [Mints -> TxStates]
    /\ paid \in [Mints -> Fees \cup {None}] /\ minted \in [Mints -> Nat \cup {None}]
    /\ pc \in [Mints -> Reads \cup Steps \cup {"idle", "confirm", "over"}]
    /\ outcome \in [Mints -> Outcomes]
    /\ feeWei \in [Mints -> Fees \cup {None}]
    /\ shortfall \in [Mints -> Nat] /\ wrappedWei \in [Mints -> Nat]
    /\ tokens \in [Mints -> Nat \cup {None}]
    /\ alone \subseteq Mints

\* A call that no other runs beside submits its mint only when WIP and allowance
\* cover the predicted fee, whatever failed on the way, and has wrapped no more than
\* was missing, also after an earlier call that wrapped and then failed.
MintIsPrepared ==
    \A m \in alone : sent[m] = "mint" /\ tx[m] = "pending" =>
        /\ feeWei[m] <= wip /\ feeWei[m] <= allowance
        /\ wrappedWei[m] > 0 => wip = feeWei[m]

\* No mint costs more than the fee its call predicted, however the fee moves before
\* it is mined; a call that reports an error before the mint has paid nothing.
NeverOverpays ==
    \A m \in Mints : paid[m] # None =>
        /\ paid[m] <= feeWei[m]
        /\ outcome[m] \in {"none", "resolved", "submitFailed", "receiptTimeout"}

\* The tokens a call returns are those its own mint made, and no two calls return the
\* same one.
TokensAreOwn ==
    /\ \A m \in Mints : outcome[m] = "resolved" => tokens[m] # None /\ tokens[m] = minted[m]
    /\ \A m, n \in Mints : m # n /\ tokens[m] # None => tokens[m] # tokens[n]
=============================================================================
