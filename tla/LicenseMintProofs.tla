--------------------------- MODULE LicenseMintProofs ---------------------------
(***************************************************************************)
(* What a mint costs, what its wallet is prepared for, and whose tokens a  *)
(* call returns, for every number of calls, all fees and all holdings.     *)
(***************************************************************************)
EXTENDS LicenseMint, TLAPS

------------------------------------------------------------------------------
(* The inductive invariant. *)

\* What a call has sent and learnt at each of its places.
CallPlace(m) ==
    /\ pc[m] \in {"idle", "predict"} => sent[m] = "none" /\ tx[m] = "none"
    /\ pc[m] # "over" => outcome[m] = "none"
    /\ pc[m] \notin {"confirm", "over"} => sent[m] # "mint" /\ tx[m] \in {"none", "success"}
    /\ pc[m] \notin {"idle", "predict", "over"} \/ sent[m] # "none" => feeWei[m] # None
    /\ pc[m] = "confirm" => sent[m] # "none" /\ tx[m] # "none"
    /\ pc[m] \in {"idle", "predict", "balance", "native", "deposit"}
            \/ (pc[m] = "confirm" /\ sent[m] = "deposit") => wrappedWei[m] = 0
    /\ tx[m] = "pending" => outcome[m] \in {"none", "submitFailed", "receiptTimeout"}
    /\ (paid[m] # None) <=> (sent[m] = "mint" /\ tx[m] = "success")
    /\ (minted[m] # None) <=> (paid[m] # None)
    /\ paid[m] # None =>
           /\ paid[m] <= feeWei[m]
           /\ outcome[m] \in {"none", "resolved", "submitFailed", "receiptTimeout"}
    /\ outcome[m] = "resolved" => tokens[m] # None
    /\ tokens[m] # None => tokens[m] = minted[m]

\* Every mint takes the next token.
TokenPlace ==
    /\ \A m \in Mints : minted[m] # None => minted[m] < nextToken
    /\ \A m, n \in Mints : minted[m] # None /\ minted[m] = minted[n] => m = n

\* The wallet covers the fee, with nothing wrapped in excess.
Covered(m) ==
    /\ feeWei[m] <= wip
    /\ wrappedWei[m] > 0 => wip = feeWei[m]

MintPending(m) == sent[m] = "mint" /\ tx[m] = "pending"

\* What a call has made of a wallet nobody else uses.
Prepared(m) ==
    /\ pc[m] \in {"native", "deposit"} \/ (sent[m] = "deposit" /\ tx[m] = "pending") =>
           shortfall[m] > 0 /\ feeWei[m] = wip + shortfall[m]
    /\ pc[m] = "confirm" /\ sent[m] = "deposit" /\ tx[m] = "success" => wip = feeWei[m]
    /\ pc[m] \in {"allowance", "approve", "mint"} \/ MintPending(m)
            \/ (pc[m] = "confirm" /\ sent[m] = "approve") => Covered(m)
    /\ pc[m] = "mint" \/ MintPending(m)
            \/ (pc[m] = "confirm" /\ sent[m] = "approve" /\ tx[m] = "success") =>
           feeWei[m] <= allowance

\* While a call that is alone may still change the wallet, no other may.
AlonePlace(m) ==
    /\ pc[m] # "idle"
    /\ Open(m) => Prepared(m) /\ \A n \in Mints \ {m} : ~Open(n)

MintInv ==
    /\ TypeOK
    /\ TokenPlace
    /\ \A m \in Mints : CallPlace(m)
    /\ \A m \in alone : AlonePlace(m)

------------------------------------------------------------------------------
USE DEF vars, walletVars, contractVars, resultVars, Steps, Reads, TxStates, Outcomes
USE MintAssumption

(* What a step of one call leaves alone. *)

Still(w) ==
    /\ pc'[w] = pc[w] /\ outcome'[w] = outcome[w]
    /\ sent'[w] = sent[w] /\ tx'[w] = tx[w]
    /\ paid'[w] = paid[w] /\ minted'[w] = minted[w]
    /\ feeWei'[w] = feeWei[w] /\ shortfall'[w] = shortfall[w]
    /\ wrappedWei'[w] = wrappedWei[w] /\ tokens'[w] = tokens[w]

LEMMA CallStill ==
    ASSUME NEW w \in Mints, CallPlace(w), Still(w)
    PROVE  CallPlace(w)'
BY DEF CallPlace, Still

\* Whoever is neither idle nor open has nothing to lose.
LEMMA ClosedStill ==
    ASSUME NEW w \in Mints, Still(w)
    PROVE  (Open(w)' <=> Open(w)) /\ (pc[w] # "idle" => pc'[w] # "idle")
BY DEF Open, Still

\* A step of a call that is open: no other that is alone is.
LEMMA OneCallMoves ==
    ASSUME MintInv, NEW m \in Mints, Open(m), alone' = alone,
           \A w \in Mints \ {m} : Still(w),
           TypeOK', TokenPlace', CallPlace(m)', pc'[m] # "idle",
           m \in alone /\ Prepared(m) /\ Open(m)' => Prepared(m)'
    PROVE  MintInv'
<1>1. ASSUME NEW w \in Mints PROVE CallPlace(w)'
    BY <1>1, CallStill DEF MintInv
<1>2. ASSUME NEW w \in alone PROVE AlonePlace(w)'
    <2>0. w \in Mints /\ AlonePlace(w)
        BY DEF MintInv, TypeOK
    <2>1. CASE w = m
        <3>1. \A n \in Mints \ {m} : ~Open(n)'
            BY <2>0, <2>1, ClosedStill DEF AlonePlace
        <3> QED BY <2>0, <2>1, <3>1 DEF AlonePlace
    <2>2. CASE w # m
        <3>1. ~Open(w)
            BY <2>0, <2>2 DEF AlonePlace
        <3> QED BY <2>0, <2>2, <3>1, ClosedStill DEF AlonePlace
    <2> QED BY <2>1, <2>2
<1> QED BY <1>1, <1>2 DEF MintInv

\* Tokens stay where they are when nothing is minted.
LEMMA TokensStill == TokenPlace /\ UNCHANGED <<minted, nextToken>> => TokenPlace'
BY DEF TokenPlace

------------------------------------------------------------------------------
(* The steps. *)

LEMMA CallKeeps ==
    ASSUME MintInv, NEW m \in Mints, Call(m)
    PROVE  MintInv'
<1>0. TypeOK /\ TokenPlace /\ CallPlace(m)
    BY DEF MintInv
<1> USE DEF Goto
<1>1. TypeOK' /\ TokenPlace'
    BY <1>0, TokensStill DEF Call, TypeOK
<1>2. \A w \in Mints \ {m} : Still(w)
    BY <1>0 DEF Call, TypeOK, Still
<1>3. pc[m] = "idle" /\ pc'[m] = "predict" /\ ~Open(m) /\ Open(m)'
    BY <1>0 DEF Call, TypeOK, CallPlace, Open
<1>4. ASSUME NEW w \in Mints PROVE CallPlace(w)'
    <2>1. CASE w = m
        BY <1>0, <2>1 DEF Call, TypeOK, CallPlace
    <2>2. CASE w # m
        BY <1>2, <2>2, CallStill DEF MintInv
    <2> QED BY <2>1, <2>2
<1>5. ASSUME NEW w \in alone' PROVE AlonePlace(w)'
    <2>1. CASE w = m
        <3>1. \A n \in Mints \ {m} : ~Open(n)
            BY <1>3, <1>5, <2>1 DEF Call, MintInv, AlonePlace
        <3>2. \A n \in Mints \ {m} : ~Open(n)'
            BY <1>2, <3>1, ClosedStill
        <3>3. Prepared(m)'
            BY <1>0, <1>3 DEF Call, CallPlace, Prepared, MintPending
        <3> QED BY <1>3, <2>1, <3>2, <3>3 DEF AlonePlace
    <2>2. CASE w # m
        <3>1. w \in alone /\ w \in Mints /\ pc[w] # "idle"
            BY <1>0, <1>5, <2>2 DEF Call, MintInv, AlonePlace, TypeOK
        <3>2. ~Open(w)
            BY <1>5, <2>2, <3>1 DEF Call
        <3> QED BY <1>2, <2>2, <3>1, <3>2, ClosedStill DEF AlonePlace
    <2> QED BY <2>1, <2>2
<1> QED BY <1>1, <1>4, <1>5 DEF MintInv

LEMMA ReadKeeps ==
    ASSUME MintInv, NEW m \in Mints,
           \/ PredictFee(m) \/ CheckBalance(m) \/ CheckNative(m)
           \/ CheckAllowance(m) \/ ReadFails(m)
    PROVE  MintInv'
<1>0. TypeOK /\ TokenPlace /\ CallPlace(m)
    BY DEF MintInv
<1> USE DEF Goto, End
<1>1. CASE PredictFee(m)
    <2>1. TypeOK' /\ TokenPlace'
        BY <1>0, <1>1, TokensStill DEF PredictFee, TypeOK
    <2>2. Open(m) /\ alone' = alone /\ pc'[m] # "idle" /\ \A w \in Mints \ {m} : Still(w)
        BY <1>0, <1>1 DEF PredictFee, TypeOK, Open, Still
    <2>3. CallPlace(m)'
        BY <1>0, <1>1 DEF PredictFee, TypeOK, CallPlace
    <2>4. Prepared(m) => Prepared(m)'
        BY <1>0, <1>1 DEF PredictFee, TypeOK, CallPlace, Prepared, MintPending, Covered
    <2> QED BY <2>1, <2>2, <2>3, <2>4, OneCallMoves
<1>2. CASE CheckBalance(m)
    <2> DEFINE short == Shortfall(feeWei[m], wip)
    <2>1. /\ feeWei[m] \in Nat /\ wip \in Nat /\ short \in Nat
          /\ short > 0 => feeWei[m] = wip + short
          /\ short <= 0 => feeWei[m] <= wip
        <3>1. feeWei[m] \in Nat /\ wip \in Nat
            BY <1>0, <1>2 DEF CheckBalance, TypeOK, CallPlace
        <3> QED BY <3>1 DEF Shortfall
    <2>2. /\ pc[m] = "balance"
          /\ shortfall' = [shortfall EXCEPT ![m] = short]
          /\ \/ short <= 0 /\ Goto(m, "allowance")
             \/ short > 0 /\ End(m, "preparation")
             \/ short > 0 /\ \E next \in {"native", "deposit"} : Goto(m, next)
          /\ UNCHANGED <<contractVars, sent, tx, feeWei, wrappedWei, tokens, alone>>
        BY <1>2 DEF CheckBalance
    <2> HIDE DEF short
    <2>3. TypeOK' /\ TokenPlace'
        BY <1>0, <2>1, <2>2, TokensStill DEF TypeOK
    <2>4. Open(m) /\ alone' = alone /\ pc'[m] # "idle" /\ \A w \in Mints \ {m} : Still(w)
        BY <1>0, <2>2 DEF TypeOK, Open, Still
    <2>5. CallPlace(m)'
        BY <1>0, <2>2 DEF TypeOK, CallPlace
    <2>6. Prepared(m) => Prepared(m)'
        BY <1>0, <2>1, <2>2 DEF TypeOK, CallPlace, Prepared, MintPending, Covered
    <2> QED BY <2>3, <2>4, <2>5, <2>6, OneCallMoves
<1>3. CASE CheckNative(m)
    <2>1. TypeOK' /\ TokenPlace'
        BY <1>0, <1>3, TokensStill DEF CheckNative, TypeOK
    <2>2. Open(m) /\ alone' = alone /\ pc'[m] # "idle" /\ \A w \in Mints \ {m} : Still(w)
        BY <1>0, <1>3 DEF CheckNative, TypeOK, Open, Still
    <2>3. CallPlace(m)'
        BY <1>0, <1>3 DEF CheckNative, TypeOK, CallPlace
    <2>4. Prepared(m) => Prepared(m)'
        BY <1>0, <1>3 DEF CheckNative, TypeOK, CallPlace, Prepared, MintPending, Covered
    <2> QED BY <2>1, <2>2, <2>3, <2>4, OneCallMoves
<1>4. CASE CheckAllowance(m)
    <2>1. TypeOK' /\ TokenPlace'
        BY <1>0, <1>4, TokensStill DEF CheckAllowance, TypeOK
    <2>2. Open(m) /\ alone' = alone /\ pc'[m] # "idle" /\ \A w \in Mints \ {m} : Still(w)
        BY <1>0, <1>4 DEF CheckAllowance, TypeOK, Open, Still
    <2>3. CallPlace(m)'
        BY <1>0, <1>4 DEF CheckAllowance, TypeOK, CallPlace
    <2>4. Prepared(m) => Prepared(m)'
        BY <1>0, <1>4 DEF CheckAllowance, TypeOK, CallPlace, Prepared, MintPending, Covered
    <2> QED BY <2>1, <2>2, <2>3, <2>4, OneCallMoves
<1>5. CASE ReadFails(m)
    <2>1. TypeOK' /\ TokenPlace'
        BY <1>0, <1>5, TokensStill DEF ReadFails, TypeOK
    <2>2. Open(m) /\ alone' = alone /\ pc'[m] # "idle" /\ \A w \in Mints \ {m} : Still(w)
        BY <1>0, <1>5 DEF ReadFails, TypeOK, Open, Still
    <2>3. CallPlace(m)'
        BY <1>0, <1>5 DEF ReadFails, TypeOK, CallPlace
    <2>4. Prepared(m) => Prepared(m)'
        BY <1>0, <1>5 DEF ReadFails, TypeOK, CallPlace, Prepared, MintPending, Covered
    <2> QED BY <2>1, <2>2, <2>3, <2>4, OneCallMoves
<1> QED BY <1>1, <1>2, <1>3, <1>4, <1>5

LEMMA WriteKeeps ==
    ASSUME MintInv, NEW m \in Mints, Submit(m) \/ Confirm(m) \/ ReceiptTimeout(m)
    PROVE  MintInv'
<1>0. TypeOK /\ TokenPlace /\ CallPlace(m)
    BY DEF MintInv
<1> USE DEF Goto, End
<1>1. CASE Submit(m)
    <2>1. TypeOK' /\ TokenPlace'
        BY <1>0, <1>1, TokensStill DEF Submit, TypeOK, CallPlace
    <2>2. Open(m) /\ alone' = alone /\ pc'[m] # "idle" /\ \A w \in Mints \ {m} : Still(w)
        BY <1>0, <1>1 DEF Submit, TypeOK, Open, Still, CallPlace
    <2>3. CallPlace(m)'
        BY <1>0, <1>1 DEF Submit, TypeOK, CallPlace
    <2>4. Prepared(m) => Prepared(m)'
        BY <1>0, <1>1 DEF Submit, TypeOK, CallPlace, Prepared, MintPending, Covered
    <2> QED BY <2>1, <2>2, <2>3, <2>4, OneCallMoves
<1>2. CASE Confirm(m)
    <2> DEFINE deposited == tx[m] = "success" /\ sent[m] = "deposit" /\ Proceed(m, minted[m])
               approved == tx[m] = "success" /\ sent[m] = "approve" /\ Proceed(m, minted[m])
               done == tx[m] = "success" /\ sent[m] = "mint" /\ Proceed(m, minted[m])
               refused == tx[m] = "reverted" /\ End(m, "reverted") /\ UNCHANGED <<wrappedWei, tokens>>
    <2>0. /\ pc[m] = "confirm" /\ UNCHANGED <<contractVars, sent, tx, feeWei, shortfall, alone>>
          /\ deposited \/ approved \/ done \/ refused
        BY <1>0, <1>2 DEF Confirm, CallPlace, TypeOK
    <2>1. TypeOK' /\ TokenPlace' /\ (\A w \in Mints \ {m} : Still(w)) /\ pc'[m] # "idle"
        <3>1. TokenPlace'
            BY <1>0, <2>0, TokensStill
        <3>2. CASE deposited
            BY <1>0, <2>0, <3>1, <3>2 DEF TypeOK, Still, Proceed
        <3>3. CASE approved
            BY <1>0, <2>0, <3>1, <3>3 DEF TypeOK, Still, Proceed
        <3>4. CASE done
            BY <1>0, <2>0, <3>1, <3>4 DEF TypeOK, Still, Proceed
        <3>5. CASE refused
            BY <1>0, <2>0, <3>1, <3>5 DEF TypeOK, Still
        <3> HIDE DEF deposited, approved, done, refused
        <3> QED BY <2>0, <3>2, <3>3, <3>4, <3>5
    <2>2. Open(m) /\ alone' = alone /\ pc'[m] # "idle" /\ \A w \in Mints \ {m} : Still(w)
        BY <2>0, <2>1 DEF Open
    <2>3. CallPlace(m)'
        <3>2. CASE deposited
            BY <1>0, <2>0, <3>2 DEF TypeOK, CallPlace, Proceed
        <3>3. CASE approved
            BY <1>0, <2>0, <3>3 DEF TypeOK, CallPlace, Proceed
        <3>4. CASE done
            BY <1>0, <2>0, <3>4 DEF TypeOK, CallPlace, Proceed
        <3>5. CASE refused
            BY <1>0, <2>0, <3>5 DEF TypeOK, CallPlace
        <3> HIDE DEF deposited, approved, done, refused
        <3> QED BY <2>0, <3>2, <3>3, <3>4, <3>5
    <2> HIDE DEF deposited, approved, done, refused
    <2>4. Prepared(m) => Prepared(m)'
        <3>0. /\ pc[m] = "confirm" /\ sent[m] \in Steps
              /\ feeWei[m] \in Nat /\ feeWei[m] <= MaxUint /\ wip \in Nat
              /\ UNCHANGED <<contractVars, sent, tx, feeWei, shortfall, alone>>
            BY <1>0, <1>2 DEF Confirm, TypeOK, CallPlace
        <3>1. CASE tx[m] = "reverted"
            BY <1>0, <1>2, <3>0, <3>1 DEF Confirm, TypeOK, Prepared, MintPending, Covered
        <3>2. CASE tx[m] = "success" /\ sent[m] = "deposit"
            <4>1. pc'[m] = "allowance"
                BY <1>0, <1>2, <3>2 DEF Confirm, Proceed, TypeOK
            <4> QED BY <3>0, <3>2, <4>1 DEF Prepared, MintPending, Covered
        <3>3. CASE tx[m] = "success" /\ sent[m] = "approve"
            <4>1. pc'[m] = "mint" /\ UNCHANGED wrappedWei
                BY <1>0, <1>2, <3>3 DEF Confirm, Proceed, TypeOK
            <4> QED BY <3>0, <3>3, <4>1 DEF Prepared, MintPending, Covered
        <3>4. CASE tx[m] = "success" /\ sent[m] = "mint"
            <4>1. pc'[m] = "over"
                BY <1>0, <1>2, <3>4 DEF Confirm, Proceed, TypeOK
            <4> QED BY <3>0, <3>4, <4>1 DEF Prepared, MintPending
        <3> QED BY <1>2, <3>0, <3>1, <3>2, <3>3, <3>4 DEF Confirm
    <2> QED BY <2>1, <2>2, <2>3, <2>4, OneCallMoves
<1>3. CASE ReceiptTimeout(m)
    <2>1. TypeOK' /\ TokenPlace'
        BY <1>0, <1>3, TokensStill DEF ReceiptTimeout, TypeOK, CallPlace
    <2>2. Open(m) /\ alone' = alone /\ pc'[m] # "idle" /\ \A w \in Mints \ {m} : Still(w)
        BY <1>0, <1>3 DEF ReceiptTimeout, TypeOK, Open, Still, CallPlace
    <2>3. CallPlace(m)'
        BY <1>0, <1>3 DEF ReceiptTimeout, TypeOK, CallPlace
    <2>4. Prepared(m) => Prepared(m)'
        BY <1>0, <1>3 DEF ReceiptTimeout, TypeOK, CallPlace, Prepared, MintPending, Covered
    <2> QED BY <2>1, <2>2, <2>3, <2>4, OneCallMoves
<1> QED BY <1>1, <1>2, <1>3

LEMMA MineKeeps ==
    ASSUME MintInv, NEW m \in Mints, MineDeposit(m) \/ MineApprove(m) \/ MineMint(m)
    PROVE  MintInv'
<1>0. TypeOK /\ TokenPlace /\ CallPlace(m)
    BY DEF MintInv
<1> USE DEF Reverts
<1>1. CASE MineDeposit(m)
    <2>1. TypeOK' /\ TokenPlace'
        BY <1>0, <1>1, TokensStill DEF MineDeposit, TypeOK, CallPlace
    <2>2. Open(m) /\ alone' = alone /\ pc'[m] # "idle" /\ \A w \in Mints \ {m} : Still(w)
        BY <1>0, <1>1 DEF MineDeposit, TypeOK, Open, Still, CallPlace
    <2>3. CallPlace(m)'
        BY <1>0, <1>1 DEF MineDeposit, TypeOK, CallPlace
    <2>4. Prepared(m) /\ Open(m)' => Prepared(m)'
        BY <1>0, <1>1 DEF MineDeposit, TypeOK, CallPlace, Prepared, MintPending, Covered, Open
    <2> QED BY <2>1, <2>2, <2>3, <2>4, OneCallMoves
<1>2. CASE MineApprove(m)
    <2>1. TypeOK' /\ TokenPlace'
        BY <1>0, <1>2, TokensStill DEF MineApprove, TypeOK, CallPlace
    <2>2. Open(m) /\ alone' = alone /\ pc'[m] # "idle" /\ \A w \in Mints \ {m} : Still(w)
        BY <1>0, <1>2 DEF MineApprove, TypeOK, Open, Still, CallPlace
    <2>3. CallPlace(m)'
        BY <1>0, <1>2 DEF MineApprove, TypeOK, CallPlace
    <2>4. Prepared(m) /\ Open(m)' => Prepared(m)'
        BY <1>0, <1>2 DEF MineApprove, TypeOK, CallPlace, Prepared, MintPending, Covered, Open
    <2> QED BY <2>1, <2>2, <2>3, <2>4, OneCallMoves
<1>3. CASE MineMint(m)
    <2>1. TypeOK' /\ TokenPlace'
        <3>1. TypeOK'
            BY <1>0, <1>3 DEF MineMint, TypeOK, CallPlace, MaxMintingFee
        <3>2. TokenPlace'
            BY <1>0, <1>3, TokensStill DEF MineMint, TypeOK, TokenPlace
        <3> QED BY <3>1, <3>2
    <2>2. Open(m) /\ alone' = alone /\ pc'[m] # "idle" /\ \A w \in Mints \ {m} : Still(w)
        BY <1>0, <1>3 DEF MineMint, TypeOK, Open, Still, CallPlace, MaxMintingFee
    <2>3. CallPlace(m)'
        BY <1>0, <1>3 DEF MineMint, TypeOK, CallPlace, MaxMintingFee
    <2>4. Prepared(m) /\ Open(m)' => Prepared(m)'
        BY <1>0, <1>3 DEF MineMint, TypeOK, CallPlace, Prepared, MintPending, Covered, Open, MaxMintingFee
    <2> QED BY <2>1, <2>2, <2>3, <2>4, OneCallMoves
<1> QED BY <1>1, <1>2, <1>3

------------------------------------------------------------------------------
LEMMA MintInvInit == Init => MintInv
BY DEF Init, MintInv, TypeOK, TokenPlace, CallPlace

LEMMA MintInvStep == MintInv /\ [Next]_vars => MintInv'
<1> SUFFICES ASSUME MintInv, [Next]_vars PROVE MintInv'
    OBVIOUS
<1>1. ASSUME \A w \in Mints : Still(w), TypeOK', TokenPlace', alone' = alone,
             UNCHANGED walletVars
      PROVE  MintInv'
    <2>1. ASSUME NEW w \in Mints PROVE CallPlace(w)'
        BY <1>1, <2>1, CallStill DEF MintInv
    <2>2. ASSUME NEW w \in alone PROVE AlonePlace(w)'
        <3>1. w \in Mints /\ AlonePlace(w)
            BY DEF MintInv, TypeOK
        <3>2. Prepared(w) => Prepared(w)'
            BY <1>1, <3>1 DEF Still, Prepared, Covered, MintPending
        <3>3. \A n \in Mints : Open(n)' <=> Open(n)
            BY <1>1, ClosedStill
        <3> QED BY <1>1, <3>1, <3>2, <3>3, ClosedStill DEF AlonePlace
    <2> QED BY <1>1, <2>1, <2>2 DEF MintInv
<1>2. CASE ChangeFee
    <2>1. TypeOK' /\ TokenPlace'
        BY <1>2, TokensStill DEF MintInv, ChangeFee, TypeOK
    <2> QED BY <1>1, <1>2, <2>1 DEF ChangeFee, Still
<1>3. CASE UNCHANGED vars
    <2>1. TypeOK' /\ TokenPlace'
        BY <1>3, TokensStill DEF MintInv, TypeOK
    <2> QED BY <1>1, <1>3, <2>1 DEF Still
<1> QED BY <1>2, <1>3, CallKeeps, ReadKeeps, WriteKeeps, MineKeeps DEF Next

\* At every place of a call so much is wrapped and approved, and no more.
THEOREM MintInvariant == Spec => []MintInv
BY MintInvInit, MintInvStep, PTL DEF Spec

\* The wallet, the contracts and the calls keep their types; no balance goes below zero.
THEOREM TypeCorrect == Spec => []TypeOK
<1>1. MintInv => TypeOK
    BY DEF MintInv
<1> QED BY <1>1, MintInvariant, PTL

\* A call nobody runs beside submits a mint its wallet covers, and wraps no more than it
\* must.
THEOREM MintsAreCovered == Spec => []MintIsPrepared
<1>1. ASSUME MintInv, NEW m \in alone, sent[m] = "mint", tx[m] = "pending"
      PROVE  /\ feeWei[m] <= wip /\ feeWei[m] <= allowance
             /\ wrappedWei[m] > 0 => wip = feeWei[m]
    BY <1>1 DEF MintInv, AlonePlace, Open, Prepared, MintPending, Covered
<1>2. MintInv => MintIsPrepared
    BY <1>1 DEF MintIsPrepared
<1> QED BY <1>2, MintInvariant, PTL

\* No mint costs more than was predicted, and none is paid by a call that failed before.
THEOREM FeesAreCapped == Spec => []NeverOverpays
<1>1. MintInv => NeverOverpays
    BY DEF MintInv, CallPlace, NeverOverpays
<1> QED BY <1>1, MintInvariant, PTL

\* The tokens of a call are its own, and nobody else's.
THEOREM TokensBelong == Spec => []TokensAreOwn
<1>1. MintInv => TokensAreOwn
    BY DEF MintInv, CallPlace, TokenPlace, TokensAreOwn
<1> QED BY <1>1, MintInvariant, PTL

==============================================================================
