---------------------------- MODULE EphemeralWallets ----------------------------
(***************************************************************************)
(* The life of one integration suite's ephemeral wallets: one transaction  *)
(* funds them all, each runs its upload-and-access cycle inside pLimit and *)
(* withAeneidFlakeRetry, and what is left is swept back and accounted for. *)
(*                                                                         *)
(* A cycle is an allocate, a write and a read transaction, each paying its *)
(* fee and gas out of the wallet.  The chain may revert or delay the       *)
(* funding, raise its fees and its gas price; the suite's own time limit   *)
(* may start the refund while cycles are still running.                    *)
(***************************************************************************)
EXTENDS Naturals, Sequences, FiniteSets, FiniteSetsExt, SequencesExt

CONSTANTS
    Wallets,       \* WALLET_COUNT wallets, in the order of wallets.map
    MaxInflight,   \* pLimit's maxConcurrency
    TxFee,         \* allocateFee = writeFee = readFee, when the suite is sized
    TxGas,         \* gas of any transaction of a cycle
    BaseGasBudget, \* BASE_GAS_BUDGET_WEI
    SweepGas,      \* gas of a sweep at the price the fee market shows
    Reserve        \* 1.5 times that, and the fallback

ASSUME EphemeralWalletsAssumption ==
    /\ Wallets \in Seq(ToSet(Wallets)) /\ IsInjective(Wallets) /\ Wallets # <<>>
    /\ MaxInflight \in Nat \ {0}
    /\ {TxFee, TxGas, BaseGasBudget, SweepGas, Reserve} \subseteq Nat
    /\ SweepGas <= Reserve

\* The base covers the gas of any reasonable workload: of three attempts, here.
ASSUME GasAssumption == 3 * (3 * TxGas) <= BaseGasBudget

VARIABLES
    stage,     \* "fund", "work", "refund", "over"
    funding,   \* the batch: "none", "sent", "mined", "reverted"
    claimed,   \* totalFundedWei
    fee,       \* what the contract asks for a transaction now
    raised,    \* it asks for more than when the suite was sized
    balance,   \* of each wallet
    burned,    \* fees and gas paid
    received,  \* what has come back to the funder
    active,    \* pLimit's counter
    queue,     \* its waiters
    woken,     \* waiters resolved and not yet resumed
    running,   \* cycles in flight
    tried,     \* attempts of each wallet's cycle
    result,    \* how each cycle ended
    sweep,     \* each wallet's refund
    report     \* the RefundResult, with the total it is set against

poolVars == <<active, queue, woken, running>>
moneyVars == <<fee, raised, balance, burned, received>>
suiteVars == <<stage, funding, claimed, moneyVars, poolVars, tried, result, sweep, report>>

W == ToSet(Wallets)
N == Len(Wallets)
Attempts == 3
NoReport == [funded |-> 0, refunded |-> 0, failed |-> 0, made |-> FALSE]

\* Mutant: the fund has room for two cycles.
PerWalletFundForTwo(f) == BaseGasBudget + 2 * (3 * f)

\* computePerWalletFund: the base and three times the three fees of a cycle.
PerWalletFund(f) == BaseGasBudget + 3 * (3 * f)

SuiteInit ==
    /\ stage = "fund" /\ funding = "none" /\ claimed = 0
    /\ fee = TxFee /\ raised = FALSE
    /\ balance = [w \in W |-> 0] /\ burned = 0 /\ received = 0
    /\ active = 0 /\ queue = <<>> /\ woken = {} /\ running = {}
    /\ tried = [w \in W |-> 0]
    /\ result = [w \in W |-> "none"]
    /\ sweep = [w \in W |-> [is |-> "none", amount |-> 0]]
    /\ report = NoReport

------------------------------------------------------------------------------
\* The chain.

MineFunding ==
    /\ funding = "sent"
    /\ \/ /\ funding' = "mined"
          /\ balance' = [w \in W |-> PerWalletFund(TxFee)]
       \/ funding' = "reverted" /\ UNCHANGED balance
    /\ UNCHANGED <<stage, claimed, fee, raised, burned, received, poolVars, tried,
                   result, sweep, report>>

\* Between the sizing and the first cycle.
RaiseFees ==
    /\ stage = "fund" /\ ~raised
    /\ raised' = TRUE
    /\ fee' = 2 * fee
    /\ UNCHANGED <<stage, funding, claimed, balance, burned, received, poolVars, tried,
                   result, sweep, report>>

\* A sweep given up on is mined after all.
SweepLands(w) ==
    /\ sweep[w].is = "pending"
    /\ sweep' = [sweep EXCEPT ![w].is = "failed"]
    /\ IF balance[w] >= sweep[w].amount + SweepGas
         THEN /\ balance' = [balance EXCEPT ![w] = @ - sweep[w].amount - SweepGas]
              /\ received' = received + sweep[w].amount
              /\ burned' = burned + SweepGas
         ELSE UNCHANGED <<balance, received, burned>>
    /\ UNCHANGED <<stage, funding, claimed, fee, raised, poolVars, tried, result, report>>

------------------------------------------------------------------------------
\* beforeAll: fundWallets.

SendFunding ==
    /\ stage = "fund" /\ funding = "none"
    /\ funding' = "sent"
    /\ UNCHANGED <<stage, claimed, moneyVars, poolVars, tried, result, sweep, report>>

\* The receipt is awaited, its status is not looked at.  All cycles enter pLimit in one
\* tick: the first MaxInflight start, the others queue.
Funded ==
    /\ stage = "fund" /\ funding \in {"mined", "reverted"}
    /\ stage' = "work"
    /\ claimed' = N * PerWalletFund(TxFee)
    /\ LET first == IF MaxInflight < N THEN MaxInflight ELSE N IN
       /\ active' = first
       /\ running' = {Wallets[i] : i \in 1..first}
       /\ queue' = SubSeq(Wallets, first + 1, N)
    /\ UNCHANGED <<funding, moneyVars, woken, tried, result, sweep, report>>

\* Nothing can be sent, or no receipt comes within five minutes: beforeAll fails, the test
\* is skipped, and afterAll sweeps what there is.
FundThrows ==
    /\ stage = "fund"
    /\ stage' = "refund"
    /\ UNCHANGED <<funding, claimed, moneyVars, poolVars, tried, result, sweep, report>>

------------------------------------------------------------------------------
\* pLimit.

\* Mutant: the slot is handed on when the cycle succeeded only.
ReleaseOnSuccess(w, how) ==
    /\ running' = running \ {w}
    /\ IF how = "fulfilled" /\ queue # <<>>
         THEN active' = active - 1 /\ queue' = Tail(queue) /\ woken' = woken \cup {Head(queue)}
         ELSE active' = active - 1 /\ UNCHANGED <<queue, woken>>

\* The finally clause: the counter goes down and the next waiter's promise resolves.
Release(w, how) ==
    /\ running' = running \ {w}
    /\ active' = active - 1
    /\ IF queue # <<>>
         THEN queue' = Tail(queue) /\ woken' = woken \cup {Head(queue)}
         ELSE UNCHANGED <<queue, woken>>

\* The waiter resumes, and its cycle starts.
Admit(w) ==
    /\ w \in woken
    /\ woken' = woken \ {w}
    /\ active' = active + 1
    /\ running' = running \cup {w}
    /\ UNCHANGED <<stage, funding, claimed, moneyVars, queue, tried, result, sweep, report>>

------------------------------------------------------------------------------
\* One attempt of a cycle, and withAeneidFlakeRetry around it.

Cost(k) == k * (fee + TxGas)

\* k of the three transactions were mined.
Pays(w, k) ==
    /\ balance' = [balance EXCEPT ![w] = @ - Cost(k)]
    /\ burned' = burned + Cost(k)

Settles(w, how) ==
    /\ result' = [result EXCEPT ![w] = how]
    /\ Release(w, how)

\* withAeneidFlakeRetry: a flake is followed by another attempt, the last one is thrown.
Retried(w) ==
    IF tried'[w] < Attempts THEN UNCHANGED <<result, poolVars>> ELSE Settles(w, "failed")

Cycle(w) ==
    /\ w \in running
    /\ tried' = [tried EXCEPT ![w] = @ + 1]
    /\ \/ balance[w] >= Cost(3) /\ Pays(w, 3) /\ Settles(w, "fulfilled")
       \* a pool flake, after the last transaction at worst: another attempt
       \/ /\ balance[w] >= Cost(3)
          /\ Pays(w, 3)
          /\ Retried(w)
       \* any other error, after the first transaction
       \/ balance[w] >= Cost(1) /\ Pays(w, 1) /\ Settles(w, "failed")
       \* the wallet cannot pay for the next transaction
       \/ /\ balance[w] < Cost(3)
          /\ Settles(w, "short")
          /\ UNCHANGED <<balance, burned>>
    /\ UNCHANGED <<stage, funding, claimed, fee, raised, received, sweep, report>>

\* Promise.allSettled, or the time limit of the test.
StartRefund ==
    /\ stage = "work"
    /\ stage' = "refund"
    /\ UNCHANGED <<funding, claimed, moneyVars, poolVars, tried, result, sweep, report>>

------------------------------------------------------------------------------
\* afterAll: refundWallets, all wallets at once.

Swept(w, is, amount) == sweep' = [sweep EXCEPT ![w] = [is |-> is, amount |-> amount]]

ReadBalance(w) ==
    /\ stage = "refund" /\ sweep[w].is = "none"
    /\ \/ balance[w] > Reserve /\ Swept(w, "send", balance[w] - Reserve)
       \/ balance[w] <= Reserve /\ Swept(w, "swept", 0)
       \/ Swept(w, "failed", 0)
    /\ UNCHANGED <<stage, funding, claimed, moneyVars, poolVars, tried, result, report>>

\* Mutant: a sweep counts once it is sent.
SendSweepCounting(w) ==
    /\ stage = "refund" /\ sweep[w].is = "send"
    /\ Swept(w, "swept", sweep[w].amount)
    /\ UNCHANGED <<stage, funding, claimed, moneyVars, poolVars, tried, result, report>>

\* The sweep is mined and its receipt arrives; or it is not sent, the wallet having spent
\* what was read or gas having risen past the reserve; or no receipt comes.
SendSweep(w) ==
    /\ stage = "refund" /\ sweep[w].is = "send"
    /\ \/ /\ balance[w] >= sweep[w].amount + SweepGas
          /\ Swept(w, "swept", sweep[w].amount)
          /\ balance' = [balance EXCEPT ![w] = @ - sweep[w].amount - SweepGas]
          /\ received' = received + sweep[w].amount
          /\ burned' = burned + SweepGas
       \/ Swept(w, "failed", 0) /\ UNCHANGED <<balance, received, burned>>
       \/ /\ balance[w] >= sweep[w].amount + SweepGas
          /\ Swept(w, "pending", sweep[w].amount)
          /\ UNCHANGED <<balance, received, burned>>
    /\ UNCHANGED <<stage, funding, claimed, fee, raised, poolVars, tried, result, report>>

\* What each wallet gave back; the sentinel of a failed sweep is left out of the sum.
Refunded == [w \in W |-> IF sweep[w].is = "swept" THEN sweep[w].amount ELSE 0]

Report ==
    /\ stage = "refund"
    /\ \A w \in W : sweep[w].is \in {"swept", "failed", "pending"}
    /\ stage' = "over"
    /\ report' = [funded |-> claimed,
                  refunded |-> SumFunction(Refunded),
                  failed |-> Cardinality({w \in W : sweep[w].is # "swept"}),
                  made |-> TRUE]
    /\ UNCHANGED <<funding, claimed, moneyVars, poolVars, tried, result, sweep>>

SuiteNext ==
    \/ MineFunding \/ RaiseFees
    \/ SendFunding \/ Funded \/ FundThrows \/ StartRefund \/ Report
    \/ \E w \in W :
           \/ SweepLands(w) \/ Admit(w) \/ Cycle(w) \/ ReadBalance(w) \/ SendSweep(w)

------------------------------------------------------------------------------
\* Whatever fails, the pool never runs more than MaxInflight cycles and never leaves a
\* slot empty while a cycle waits for one (pLimit, entered in one tick).
PoolIsTight ==
    LET busy == Cardinality(running) + Cardinality(woken) IN
    /\ active = Cardinality(running)
    /\ busy <= MaxInflight
    /\ queue # <<>> => busy = MaxInflight

\* The fund of a wallet lasts through three attempts of a cycle that fail after their last
\* transaction, unless the batch reverted, which fundWallets does not notice, the fees
\* rose, or the refund overtook the cycle (computePerWalletFund, withAeneidFlakeRetry).
FundsCoverRetries ==
    \A w \in W :
        result[w] = "short" =>
            funding = "reverted" \/ raised \/ sweep[w].is # "none"

\* What refundWallets reports has arrived; more arrives only where it reports a failed
\* sweep; and with neither a failure nor a reverted batch what the suite calls burned is
\* what was paid and what is left behind.
RefundReportIsHonest ==
    report.made =>
        /\ report.refunded <= received
        /\ received > report.refunded => report.failed > 0
        /\ report.funded > 0 /\ funding = "mined" /\ report.failed = 0 =>
               report.funded - report.refunded = burned + SumFunction(balance)
=============================================================================
