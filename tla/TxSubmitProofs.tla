---------------------------- MODULE TxSubmitProofs ----------------------------
(***************************************************************************)
(* What safeWriteContract returns, how often a payload lands, what an      *)
(* outcome means, and that the calls of a wallet implement WalletLedger,   *)
(* for every number of calls, deliveries and settings.                     *)
(***************************************************************************)
EXTENDS TxSubmit, FiniteSetTheorems, TLAPS

------------------------------------------------------------------------------
(* The inductive invariant. *)

\* What stands at a nonce has that nonce, is somebody's submission, and is pending or
\* mined, not both.
NodePlace ==
    \A n \in Nonces :
        /\ pool[n] # None => pool[n].nonce = n /\ \E c \in Calls : wire[c] = pool[n]
        /\ mined[n] # None => mined[n].nonce = n /\ \E c \in Calls : wire[c] = mined[n]
        /\ pool[n] = None \/ mined[n] = None

\* The wallet leaves no gap below a nonce it uses, nor below one it is about to use.
NoGap ==
    \A n, m \in Nonces : m < n =>
        /\ Used(n) => Used(m)
        /\ \A c \in Calls : wire[c] # None /\ wire[c].nonce = n => Used(m)

\* What a call has in hand at each of its places.
InPlace(c) ==
    /\ pc[c] \in {"idle", "capture"} =>
           wire[c] = None /\ nonce[c] = None /\ reply[c] = "none" /\ hash[c] = None
    /\ pc[c] # "over" => outcome[c] = "none"
    /\ pc[c] \in {"send", "recover"} => hash[c] = None
    /\ pc[c] = "send" /\ setting.local => wire[c] # None
    /\ pc[c] = "recover" => ~setting.local /\ nonce[c] # None
    /\ pc[c] = "receipt" => hash[c] # None
    /\ wire[c] # None => wire[c].payload = Payload[c]
    /\ reply[c] # "none" => wire[c] # None
    /\ reply[c] \in {"accepted", "already known"} => Landed(wire[c])

\* A call no other overlaps: nobody else takes its nonce.
Undisturbed(c) ==
    /\ reply[c] # "underpriced"
    /\ Running(c) /\ wire[c] # None =>
           /\ pool[wire[c].nonce] \in {None, wire[c]}
           /\ mined[wire[c].nonce] \in {None, wire[c]}
    /\ pc[c] \in {"send", "recover"} /\ nonce[c] # None =>
           IF wire[c] = None THEN nonce[c] = PendingCount
                             ELSE nonce[c] = wire[c].nonce
    /\ pc[c] = "recover" => wire[c] # None

Alone ==
    ~setting.overlap =>
        /\ \A c, d \in Calls : Running(c) /\ Running(d) => c = d
        /\ \A c \in Calls : Undisturbed(c)

\* Where a hash comes from, and what an outcome was read from.
Traced(c) ==
    /\ hash[c] # None =>
           /\ setting.local \/ ~setting.overlap => hash[c] = wire[c]
           /\ ~setting.local \/ ~setting.overlap => Landed(hash[c])
    /\ outcome[c] \in {"success", "reverted"} =>
           /\ hash[c] # None
           /\ mined[hash[c].nonce] = hash[c]
           /\ status[hash[c].nonce] = outcome[c]

SubmitInv ==
    /\ TypeOK
    /\ NodePlace
    /\ NoGap
    /\ \A c \in Calls : InPlace(c) /\ Traced(c)
    /\ Alone

------------------------------------------------------------------------------
(* Nonces and counts. *)

UsedNonces == {n \in Nonces : Used(n)}

LEMMA NoncesAreFinite ==
    /\ IsFiniteSet(Nonces)
    /\ \A S \in SUBSET Nonces : IsFiniteSet(S) /\ Cardinality(S) \in Nat
<1>1. Cardinality(Calls) \in Nat
    BY CallsAssumption, FS_CardinalityType
<1>2. IsFiniteSet(Nonces)
    BY <1>1, FS_Interval DEF Nonces
<1> QED BY <1>2, FS_Subset, FS_CardinalityType

LEMMA PendingCountType == PendingCount \in Nat /\ PendingCount = Cardinality(UsedNonces)
BY NoncesAreFinite DEF PendingCount, UsedNonces

\* Without a gap the pending count is the first nonce that is free.
LEMMA FreeNonce ==
    ASSUME \A n, m \in Nonces : m < n /\ Used(n) => Used(m)
    PROVE  /\ PendingCount \in Nonces => ~Used(PendingCount)
           /\ \A m \in Nonces : m < PendingCount => Used(m)
<1>0. PendingCount \in Nat /\ PendingCount = Cardinality(UsedNonces) /\ IsFiniteSet(UsedNonces)
    BY PendingCountType, NoncesAreFinite DEF UsedNonces
<1>1. Nonces \subseteq Nat
    BY DEF Nonces
<1>2. ASSUME NEW k \in Nat, k = PendingCount, k \in Nonces, Used(k)
      PROVE  FALSE
    <2>1. 0..k \subseteq UsedNonces
        <3> SUFFICES ASSUME NEW m \in 0..k PROVE m \in Nonces /\ Used(m)
            BY DEF UsedNonces
        <3>1. Cardinality(Calls) \in Nat
            BY CallsAssumption, FS_CardinalityType
        <3>2. m \in Nonces
            BY <1>2, <3>1 DEF Nonces
        <3> QED BY <1>2, <3>2
    <2>2. Cardinality(0..k) <= PendingCount
        BY <1>0, <2>1, FS_Subset
    <2>3. Cardinality(0..k) = k + 1
        BY <1>2, FS_Interval
    <2> QED BY <1>2, <2>2, <2>3
<1>3. ASSUME NEW m \in Nonces, m < PendingCount, ~Used(m)
      PROVE  FALSE
    <2>0. m \in Nat /\ m - 1 \in Int
        BY <1>1
    <2>1. ASSUME NEW n \in Nonces, Used(n)
          PROVE  n \in 0..(m - 1)
        <3>1. n \in Nat /\ ~(m < n) /\ n # m
            BY <1>1, <1>3, <2>1
        <3> QED BY <2>0, <3>1
    <2>2. UsedNonces \subseteq 0..(m - 1)
        BY <2>1 DEF UsedNonces
    <2>3. IsFiniteSet(0..(m - 1)) /\ Cardinality(0..(m - 1)) = m
        <3>1. ASSUME NEW k \in Int
              PROVE  IsFiniteSet(0..k) /\ Cardinality(0..k) = IF 0 > k THEN 0 ELSE k - 0 + 1
            BY FS_Interval
        <3>2. /\ IsFiniteSet(0..(m - 1))
              /\ Cardinality(0..(m - 1)) = IF 0 > m - 1 THEN 0 ELSE (m - 1) - 0 + 1
            BY <2>0, <3>1
        <3> QED BY <2>0, <3>2
    <2>4. Cardinality(UsedNonces) <= m
        BY <2>2, <2>3, FS_Subset
    <2> QED BY <1>0, <1>3, <2>0, <2>4
<1> QED BY <1>0, <1>2, <1>3

------------------------------------------------------------------------------
USE DEF Txs, Places, Replies, Outcomes, vars, nodeVars, callVars
USE NoneAssumption, CallsAssumption, SettingsAssumption, BoundAssumption

LEMMA SubmitInvInit == Init => SubmitInv
BY DEF Init, SubmitInv, TypeOK, NodePlace, NoGap, InPlace, Traced, Alone, Undisturbed,
       Used, Running, Landed

\* What is pending or mined stays so, and a receipt is for good.
LEMMA NodeKeeps ==
    ASSUME SubmitInv, [Next]_vars
    PROVE  /\ \A n \in Nonces : Used(n) => Used(n)'
           /\ \A tx \in Txs : Landed(tx) => Landed(tx)'
           /\ \A n \in Nonces : mined[n] # None => mined'[n] = mined[n] /\ status'[n] = status[n]
<1> USE DEF SubmitInv, TypeOK, Used, Landed
<1>1. CASE UNCHANGED nodeVars
    BY <1>1
<1>2. ASSUME NEW c \in Calls, Deliver(c), ~UNCHANGED nodeVars
      PROVE  /\ Submission(c) \in Txs
             /\ pool[Submission(c).nonce] = None /\ mined[Submission(c).nonce] = None
             /\ pool' = [pool EXCEPT ![Submission(c).nonce] = Submission(c)]
             /\ UNCHANGED <<mined, status>>
    BY <1>2, PendingCountType DEF Deliver, Answer, Submission
<1>3. ASSUME NEW c \in Calls, Deliver(c), ~UNCHANGED nodeVars
      PROVE  /\ \A n \in Nonces : Used(n) => Used(n)'
             /\ \A tx \in Txs : Landed(tx) => Landed(tx)'
             /\ \A n \in Nonces : mined[n] # None => mined'[n] = mined[n] /\ status'[n] = status[n]
    BY <1>2, <1>3
<1>4. ASSUME NEW n \in Nonces, Mine(n)
      PROVE  /\ \A m \in Nonces : Used(m) => Used(m)'
             /\ \A tx \in Txs : Landed(tx) => Landed(tx)'
             /\ \A m \in Nonces : mined[m] # None => mined'[m] = mined[m] /\ status'[m] = status[m]
    <2>1. pool[n] # None /\ mined[n] = None
        BY <1>4 DEF Mine, NodePlace
    <2>2. /\ mined' = [mined EXCEPT ![n] = pool[n]]
          /\ pool' = [pool EXCEPT ![n] = None]
          /\ \A m \in Nonces \ {n} : status'[m] = status[m]
        BY <1>4 DEF Mine
    <2>3. \A m \in Nonces : Used(m) => Used(m)'
        BY <2>1, <2>2
    <2>4. \A tx \in Txs : Landed(tx) => Landed(tx)'
        BY <2>1, <2>2
    <2>5. \A m \in Nonces : mined[m] # None => mined'[m] = mined[m] /\ status'[m] = status[m]
        BY <2>1, <2>2
    <2> QED BY <2>3, <2>4, <2>5
<1>5. ASSUME NEW c \in Calls, Start(c) \/ CallStep(c), ~Deliver(c)
      PROVE  UNCHANGED nodeVars
    BY <1>5 DEF CallStep, Start, Capture, LoseSubmission, Accepted, Collision, Refused, Recover,
                RecoverTimeout, Receipt, ReceiptTimeout
<1> QED BY <1>1, <1>3, <1>4, <1>5 DEF Next, CallStep

------------------------------------------------------------------------------
(* The steps. *)

\* A step that touches neither the node nor what a call sends disturbs nobody else.
LEMMA OneCallMoves ==
    ASSUME SubmitInv, NEW c \in Calls, TypeOK',
           UNCHANGED <<setting, pool, mined, status, nonce, wire, deliveries, reply>>,
           \A d \in Calls \ {c} : pc'[d] = pc[d] /\ hash'[d] = hash[d] /\ outcome'[d] = outcome[d],
           Running(c) \/ (pc'[c] = "capture" /\ (setting.overlap \/ \A d \in Calls : ~Running(d))),
           pc'[c] \in {"send", "recover"} => pc[c] = "send",
           pc'[c] = "recover" => wire[c] # None,
           InPlace(c)', Traced(c)'
    PROVE  SubmitInv'
<1> USE DEF SubmitInv
<1>2. NodePlace' /\ NoGap'
    BY DEF NodePlace, NoGap, Used
<1>3. ASSUME NEW d \in Calls, d # c
      PROVE  pc'[d] = pc[d] /\ hash'[d] = hash[d] /\ outcome'[d] = outcome[d]
    BY <1>3
<1>4. ASSUME NEW d \in Calls, d # c
      PROVE  InPlace(d)' /\ Traced(d)'
    <2>1. InPlace(d) /\ Traced(d)
        OBVIOUS
    <2> HIDE DEF SubmitInv, Txs, Places, Replies, Outcomes
    <2>2. InPlace(d)'
        BY <1>3, <1>4, <2>1 DEF InPlace, Landed
    <2>3. Traced(d)'
        BY <1>3, <1>4, <2>1 DEF Traced, Landed
    <2> QED BY <2>2, <2>3
<1>5. ASSUME ~setting.overlap
      PROVE  \A d, e \in Calls : Running(d)' /\ Running(e)' => d = e
    <2>1. \A d \in Calls \ {c} : Running(d)' <=> Running(d)
        BY <1>3 DEF Running
    <2>2. \A d, e \in Calls : Running(d) /\ Running(e) => d = e
        BY <1>5 DEF Alone
    <2>3. CASE Running(c)
        BY <2>1, <2>2, <2>3
    <2>4. CASE \A d \in Calls : ~Running(d)
        BY <2>1, <2>4
    <2> QED BY <1>5, <2>3, <2>4
<1>6. ASSUME ~setting.overlap, NEW d \in Calls
      PROVE  Undisturbed(d)'
    <2>1. UNCHANGED PendingCount
        BY DEF PendingCount, Used
    <2>2. Undisturbed(d)
        BY <1>6 DEF Alone
    <2>3. InPlace(d)
        OBVIOUS
    <2> HIDE DEF SubmitInv, Txs, Places, Replies, Outcomes
    <2>4. CASE d # c
        BY <1>3, <2>1, <2>2, <2>4 DEF Undisturbed, Running
    <2>5. CASE d = c
        <3>1. wire[c] # None => Running(c)
            BY <2>3, <2>5 DEF InPlace, Running
        <3> QED BY <2>1, <2>2, <2>5, <3>1 DEF Undisturbed
    <2> QED BY <2>4, <2>5
<1> QED BY <1>2, <1>4, <1>5, <1>6 DEF Alone

\* The steps of a call that read the node at most.
QuietMove(c) ==
    \/ Start(c) \/ LoseSubmission(c) \/ Accepted(c) \/ Collision(c) \/ Refused(c)
    \/ Recover(c) \/ RecoverTimeout(c) \/ Receipt(c) \/ ReceiptTimeout(c)

LEMMA QuietFrame ==
    ASSUME SubmitInv, NEW c \in Calls, QuietMove(c)
    PROVE  /\ TypeOK'
           /\ UNCHANGED <<setting, pool, mined, status, nonce, wire, deliveries, reply>>
           /\ \A d \in Calls \ {c} :
                  pc'[d] = pc[d] /\ hash'[d] = hash[d] /\ outcome'[d] = outcome[d]
<1> USE DEF SubmitInv, TypeOK, QuietMove
<1>0. InPlace(c)
    OBVIOUS
<1>1. CASE Start(c)
    BY <1>1 DEF Start
<1>2. CASE LoseSubmission(c) \/ Refused(c) \/ RecoverTimeout(c) \/ ReceiptTimeout(c)
    <2>1. CASE LoseSubmission(c)
        BY <2>1 DEF LoseSubmission, Throw
    <2>2. CASE Refused(c)
        BY <2>2 DEF Refused, Throw
    <2>3. CASE RecoverTimeout(c)
        BY <2>3 DEF RecoverTimeout, Throw
    <2>4. CASE ReceiptTimeout(c)
        BY <2>4 DEF ReceiptTimeout, Throw
    <2> QED BY <1>2, <2>1, <2>2, <2>3, <2>4
<1>3. CASE Accepted(c)
    BY <1>3 DEF Accepted, Return
<1>4. CASE Collision(c)
    <2>1. CASE pc' = [pc EXCEPT ![c] = "receipt"] /\ hash' = [hash EXCEPT ![c] = wire[c]]
               /\ outcome' = outcome
        BY <1>4, <2>1 DEF Collision
    <2>2. CASE pc' = [pc EXCEPT ![c] = "recover"] /\ UNCHANGED <<hash, outcome>>
        BY <1>4, <2>2 DEF Collision
    <2>3. CASE /\ pc' = [pc EXCEPT ![c] = "over"] /\ hash' = hash
               /\ outcome' = [outcome EXCEPT ![c] = "alreadySubmitted"]
        BY <1>4, <2>3 DEF Collision
    <2> QED BY <1>4, <2>1, <2>2, <2>3 DEF Collision, Return, Throw
<1>5. CASE Recover(c)
    <2>1. nonce[c] \in Nonces
        <3>1. nonce[c] # None
            BY <1>0, <1>5 DEF InPlace, Recover
        <3> QED BY <3>1
    <2> QED BY <1>5, <2>1 DEF Recover, Return
<1>6. CASE Receipt(c)
    <2>1. hash[c] \in Txs
        <3>1. hash[c] # None
            BY <1>0, <1>6 DEF InPlace, Receipt
        <3> QED BY <3>1
    <2> QED BY <1>6, <2>1 DEF Receipt, Throw
<1> QED BY <1>1, <1>2, <1>3, <1>4, <1>5, <1>6

LEMMA QuietStep ==
    ASSUME SubmitInv, NEW c \in Calls, QuietMove(c)
    PROVE  SubmitInv'
<1>0. /\ InPlace(c) /\ Traced(c) /\ TypeOK /\ NodePlace
      /\ ~setting.overlap => Undisturbed(c)
    BY DEF SubmitInv, Alone
<1>1. /\ TypeOK'
      /\ UNCHANGED <<setting, pool, mined, status, nonce, wire, deliveries, reply>>
      /\ \A d \in Calls \ {c} : pc'[d] = pc[d] /\ hash'[d] = hash[d] /\ outcome'[d] = outcome[d]
    BY QuietFrame
<1>2. ASSUME /\ Running(c) \/ (pc'[c] = "capture" /\ (setting.overlap \/ \A d \in Calls : ~Running(d)))
             /\ pc'[c] \in {"send", "recover"} => pc[c] = "send"
             /\ pc'[c] = "recover" => wire[c] # None
             /\ InPlace(c)'
             /\ Traced(c)'
      PROVE  SubmitInv'
    <2> HIDE DEF Txs, Places, Replies, Outcomes
    <2> QED BY <1>1, <1>2, OneCallMoves
<1>3. CASE Start(c)
    <2>1. pc[c] = "idle" /\ pc'[c] = "capture" /\ UNCHANGED <<outcome, hash>>
        BY <1>0, <1>3 DEF Start, TypeOK
    <2>2. InPlace(c)' /\ Traced(c)'
        BY <1>0, <1>1, <2>1 DEF InPlace, Traced, Landed
    <2>3. setting.overlap \/ \A d \in Calls : ~Running(d)
        BY <1>3 DEF Start
    <2> QED BY <1>2, <2>1, <2>2, <2>3
<1>4. CASE LoseSubmission(c) \/ Refused(c) \/ RecoverTimeout(c) \/ ReceiptTimeout(c)
    <2>1. /\ Running(c) /\ pc'[c] = "over" /\ hash' = hash
          /\ outcome'[c] \notin {"success", "reverted"}
        BY <1>0, <1>4 DEF LoseSubmission, Refused, RecoverTimeout, ReceiptTimeout, Throw, TypeOK, Running
    <2>2. InPlace(c)' /\ Traced(c)'
        BY <1>0, <1>1, <2>1 DEF InPlace, Traced, Landed
    <2> QED BY <1>2, <2>1, <2>2
<1>5. CASE Accepted(c)
    <2>1. /\ pc[c] = "send" /\ reply[c] = "accepted" /\ outcome' = outcome
          /\ pc'[c] = "receipt" /\ hash'[c] = wire[c]
        BY <1>0, <1>5 DEF Accepted, Return, TypeOK
    <2>2. InPlace(c)' /\ Traced(c)'
        BY <1>0, <1>1, <2>1 DEF InPlace, Traced, Landed
    <2> QED BY <1>2, <2>1, <2>2 DEF Running
<1>6. CASE Collision(c)
    <2>1. /\ pc[c] = "send" /\ reply[c] \in {"already known", "underpriced"}
          /\ \/ /\ setting.local /\ pc'[c] = "receipt" /\ hash'[c] = wire[c] /\ outcome' = outcome
             \/ /\ ~setting.local /\ nonce[c] # None /\ pc'[c] = "recover"
                /\ hash' = hash /\ outcome' = outcome
             \/ pc'[c] = "over" /\ outcome'[c] = "alreadySubmitted" /\ hash' = hash
        BY <1>0, <1>6 DEF Collision, AlreadySubmitted, Return, Throw, TypeOK
    <2>2. wire[c] # None
        BY <1>0, <2>1 DEF InPlace
    <2>3. InPlace(c)'
        BY <1>0, <1>1, <2>1, <2>2 DEF InPlace, Landed
    <2>4. ~setting.overlap => reply[c] = "already known"
        BY <1>0, <2>1 DEF Undisturbed
    <2>5. Traced(c)'
        BY <1>0, <1>1, <2>1, <2>2, <2>4 DEF InPlace, Traced, Landed
    <2> QED BY <1>2, <2>1, <2>2, <2>3, <2>5 DEF Running
<1>7. CASE Recover(c)
    <2>1. /\ pc[c] = "recover" /\ mined[nonce[c]] # None /\ outcome' = outcome
          /\ pc'[c] = "receipt" /\ hash'[c] = mined[nonce[c]]
        BY <1>0, <1>7 DEF Recover, Return, TypeOK
    <2>2. nonce[c] \in Nonces /\ ~setting.local
        BY <1>0, <2>1 DEF InPlace, TypeOK
    <2>3. mined[nonce[c]].nonce = nonce[c]
        BY <1>0, <2>1, <2>2 DEF NodePlace
    <2>4. ~setting.overlap => mined[nonce[c]] = wire[c]
        BY <1>0, <2>1, <2>2 DEF Undisturbed, Running
    <2>5. InPlace(c)'
        BY <1>0, <1>1, <2>1, <2>2 DEF InPlace, Landed
    <2>6. Traced(c)'
        BY <1>0, <1>1, <2>1, <2>2, <2>3, <2>4 DEF InPlace, Traced, Landed
    <2> QED BY <1>2, <2>1, <2>5, <2>6 DEF Running
<1>8. CASE Receipt(c)
    <2>1. /\ pc[c] = "receipt" /\ mined[hash[c].nonce] = hash[c] /\ hash' = hash
          /\ pc'[c] = "over" /\ outcome'[c] = status[hash[c].nonce]
        BY <1>0, <1>8 DEF Receipt, Throw, TypeOK
    <2>2. InPlace(c)'
        BY <1>0, <1>1, <2>1 DEF InPlace, Landed
    <2>3. Traced(c)'
        BY <1>0, <1>1, <2>1 DEF InPlace, Traced, Landed
    <2> QED BY <1>2, <2>1, <2>2, <2>3 DEF Running
<1> QED BY <1>3, <1>4, <1>5, <1>6, <1>7, <1>8 DEF QuietMove

LEMMA CaptureStep ==
    ASSUME SubmitInv, NEW c \in Calls, Capture(c)
    PROVE  SubmitInv'
<1>0. /\ InPlace(c) /\ TypeOK /\ NodePlace /\ NoGap
      /\ \A d \in Calls : InPlace(d) /\ Traced(d)
      /\ ~setting.overlap => (\A d \in Calls : Undisturbed(d))
                             /\ \A d, e \in Calls : Running(d) /\ Running(e) => d = e
    BY DEF SubmitInv, Alone
<1>1. /\ pc[c] = "capture" /\ wire[c] = None /\ nonce[c] = None /\ reply[c] = "none"
      /\ hash[c] = None /\ outcome[c] = "none"
    BY <1>0 DEF Capture, InPlace
<1>2. /\ PendingCount \in Nonces => ~Used(PendingCount)
      /\ \A m \in Nonces : m < PendingCount => Used(m)
    BY <1>0, FreeNonce DEF NoGap
<1>3. UNCHANGED <<setting, pool, mined, status, deliveries, reply, hash, PendingCount>>
    BY DEF Capture, PendingCount, Used
<1>4. /\ \A d \in Calls \ {c} : /\ pc'[d] = pc[d] /\ nonce'[d] = nonce[d]
                                /\ wire'[d] = wire[d] /\ outcome'[d] = outcome[d]
      /\ TypeOK'
      /\ \/ /\ pc'[c] = "send" /\ outcome'[c] = "none"
            /\ \/ /\ PendingCount \in Nonces /\ nonce'[c] = PendingCount
                  /\ wire'[c] = IF setting.local
                                THEN [payload |-> Payload[c], nonce |-> PendingCount] ELSE None
               \/ ~setting.local /\ nonce'[c] = None /\ wire'[c] = None
         \/ /\ pc'[c] = "over" /\ outcome'[c] = "networkError"
            /\ nonce'[c] = None /\ wire'[c] = None
    <2>1. CASE /\ PendingCount \in Nonces
               /\ nonce' = [nonce EXCEPT ![c] = PendingCount]
               /\ pc' = [pc EXCEPT ![c] = "send"]
               /\ wire' = [wire EXCEPT ![c] =
                              IF setting.local THEN [payload |-> Payload[c], nonce |-> PendingCount]
                                               ELSE None]
               /\ UNCHANGED outcome
        BY <1>0, <1>1, <1>3, <2>1 DEF TypeOK
    <2>2. CASE /\ ~setting.local /\ pc' = [pc EXCEPT ![c] = "send"]
               /\ UNCHANGED <<nonce, wire, outcome>>
        BY <1>0, <1>1, <1>3, <2>2 DEF TypeOK
    <2>3. CASE Throw(c, "networkError") /\ UNCHANGED <<nonce, wire>>
        BY <1>0, <1>1, <1>3, <2>3 DEF TypeOK, Throw
    <2> QED BY <2>1, <2>2, <2>3 DEF Capture
<1>5. wire'[c] # None => wire'[c] \in Txs /\ wire'[c].payload = Payload[c]
                         /\ wire'[c].nonce = PendingCount /\ PendingCount \in Nonces
    BY <1>4
<1>6. [payload |-> Payload[c], nonce |-> PendingCount] # None \/ PendingCount \notin Nonces
    OBVIOUS
<1> HIDE DEF Txs, Places, Replies, Outcomes
<1>7. NodePlace'
    <2> SUFFICES ASSUME NEW n \in Nonces
                 PROVE  /\ pool[n] # None => pool[n].nonce = n /\ \E d \in Calls : wire'[d] = pool[n]
                        /\ mined[n] # None => mined[n].nonce = n /\ \E d \in Calls : wire'[d] = mined[n]
                        /\ pool[n] = None \/ mined[n] = None
        BY <1>3 DEF NodePlace
    <2>1. /\ pool[n] # None => pool[n].nonce = n /\ \E d \in Calls : d # c /\ wire[d] = pool[n]
          /\ mined[n] # None => mined[n].nonce = n /\ \E d \in Calls : d # c /\ wire[d] = mined[n]
          /\ pool[n] = None \/ mined[n] = None
        BY <1>0, <1>1 DEF NodePlace
    <2> QED BY <1>4, <2>1
<1>8. NoGap'
    <2> SUFFICES ASSUME NEW n \in Nonces, NEW m \in Nonces, m < n
                 PROVE  /\ Used(n) => Used(m)
                        /\ \A d \in Calls : wire'[d] # None /\ wire'[d].nonce = n => Used(m)
        BY <1>3 DEF NoGap, Used
    <2>1. /\ Used(n) => Used(m)
          /\ \A d \in Calls : wire[d] # None /\ wire[d].nonce = n => Used(m)
        BY <1>0 DEF NoGap
    <2>2. wire'[c] # None /\ wire'[c].nonce = n => Used(m)
        BY <1>2, <1>5
    <2> QED BY <1>4, <2>1, <2>2
<1>9. ASSUME NEW d \in Calls PROVE InPlace(d)' /\ Traced(d)'
    <2>1. CASE d = c
        BY <1>1, <1>3, <1>4, <1>5, <1>6, <2>1 DEF InPlace, Traced, Landed
    <2>2. CASE d # c
        <3>1. InPlace(d) /\ Traced(d)
            BY <1>0
        <3>2. /\ pc'[d] = pc[d] /\ nonce'[d] = nonce[d] /\ wire'[d] = wire[d]
              /\ outcome'[d] = outcome[d]
            BY <1>4, <2>2
        <3>3. InPlace(d)'
            BY <1>3, <3>1, <3>2 DEF InPlace, Landed
        <3>4. Traced(d)'
            BY <1>3, <3>1, <3>2 DEF Traced, Landed
        <3> QED BY <3>3, <3>4
    <2> QED BY <2>1, <2>2
<1>10. ASSUME ~setting.overlap
       PROVE  /\ \A d, e \in Calls : Running(d)' /\ Running(e)' => d = e
              /\ \A d \in Calls : Undisturbed(d)'
    <2>1. \A d \in Calls : Running(d)' => Running(d)
        BY <1>1, <1>4 DEF Running
    <2>2. \A d, e \in Calls : Running(d)' /\ Running(e)' => d = e
        BY <1>0, <1>10, <2>1
    <2>3. Undisturbed(c)'
        <3>1. wire'[c] # None => pool[wire'[c].nonce] = None /\ mined[wire'[c].nonce] = None
            BY <1>2, <1>5 DEF Used
        <3> QED BY <1>1, <1>3, <1>4, <1>5, <3>1 DEF Undisturbed
    <2>4. ASSUME NEW d \in Calls, d # c PROVE Undisturbed(d)'
        BY <1>0, <1>3, <1>4, <1>10, <2>4 DEF Undisturbed, Running
    <2> QED BY <2>2, <2>3, <2>4
<1> QED BY <1>3, <1>4, <1>7, <1>8, <1>9, <1>10 DEF SubmitInv, Alone

LEMMA MineStep ==
    ASSUME SubmitInv, NEW n \in Nonces, Mine(n)
    PROVE  SubmitInv'
<1>0. /\ TypeOK /\ NodePlace /\ NoGap
      /\ \A d \in Calls : InPlace(d) /\ Traced(d)
      /\ ~setting.overlap => (\A d \in Calls : Undisturbed(d))
                             /\ \A d, e \in Calls : Running(d) /\ Running(e) => d = e
    BY DEF SubmitInv, Alone
<1>1. /\ pool[n] \in Txs /\ mined[n] = None
      /\ mined' = [mined EXCEPT ![n] = pool[n]] /\ pool' = [pool EXCEPT ![n] = None]
      /\ UNCHANGED <<setting, pc, nonce, wire, deliveries, reply, hash, outcome>>
    <2>1. pool[n] # None /\ pool[n] \in Txs \cup {None} /\ mined[n] = None
        BY <1>0 DEF Mine, NodePlace, TypeOK
    <2> HIDE DEF Txs
    <2> QED BY <2>1 DEF Mine
<1>2. TypeOK'
    <2>1. \E s \in {"success", "reverted"} : status' = [status EXCEPT ![n] = s]
        BY DEF Mine
    <2>2. status' \in [Nonces -> {"success", "reverted"}]
        BY <1>0, <2>1 DEF TypeOK
    <2> HIDE DEF Txs, Places, Replies, Outcomes
    <2>3. pool' \in [Nonces -> Txs \cup {None}] /\ mined' \in [Nonces -> Txs \cup {None}]
        BY <1>0, <1>1 DEF TypeOK
    <2> QED BY <1>0, <1>1, <2>2, <2>3 DEF TypeOK
<1>3. /\ \A tx \in Txs : Landed(tx) => Landed(tx)'
      /\ \A m \in Nonces : mined[m] # None => mined'[m] = mined[m] /\ status'[m] = status[m]
    BY NodeKeeps DEF Next
<1>4. /\ mined'[n] = pool[n] /\ pool'[n] = None
      /\ \A m \in Nonces \ {n} : mined'[m] = mined[m] /\ pool'[m] = pool[m]
    <2>1. /\ mined \in [Nonces -> Txs \cup {None}] /\ pool \in [Nonces -> Txs \cup {None}]
        BY <1>0 DEF TypeOK
    <2> HIDE DEF Txs
    <2> QED BY <1>1, <2>1
<1>5. \A m \in Nonces : Used(m)' <=> Used(m)
    BY <1>1, <1>4 DEF Used
<1>6. PendingCount' = PendingCount
    BY <1>5 DEF PendingCount
<1>7. \A d \in Calls : /\ wire[d] # None => wire[d] \in Txs /\ wire[d].nonce \in Nonces
                       /\ hash[d] # None => hash[d] \in Txs /\ hash[d].nonce \in Nonces
    BY <1>0 DEF TypeOK
<1>8. None \notin Txs
    OBVIOUS
<1> HIDE DEF Txs, Places, Replies, Outcomes
<1>9. NodePlace'
    BY <1>0, <1>1, <1>4 DEF NodePlace
<1>10. NoGap'
    BY <1>0, <1>1, <1>5 DEF NoGap
<1>11. ASSUME NEW d \in Calls PROVE InPlace(d)' /\ Traced(d)'
    <2>0. InPlace(d) /\ Traced(d)
        BY <1>0
    <2>1. InPlace(d)'
        BY <1>1, <1>3, <1>7, <2>0 DEF InPlace
    <2>2. Traced(d)'
        BY <1>1, <1>3, <1>7, <1>8, <2>0 DEF Traced
    <2> QED BY <2>1, <2>2
<1>12. ASSUME ~setting.overlap, NEW d \in Calls PROVE Undisturbed(d)'
    <2>1. Undisturbed(d)
        BY <1>0, <1>12
    <2> QED BY <1>1, <1>4, <1>6, <1>7, <2>1 DEF Undisturbed, Running
<1> QED BY <1>0, <1>1, <1>2, <1>9, <1>10, <1>11, <1>12 DEF SubmitInv, Alone, Running

LEMMA DeliverStep ==
    ASSUME SubmitInv, NEW c \in Calls, Deliver(c)
    PROVE  SubmitInv'
<1> DEFINE tx == Submission(c)
<1>0. /\ InPlace(c) /\ TypeOK /\ NodePlace /\ NoGap
      /\ \A d \in Calls : InPlace(d) /\ Traced(d)
      /\ ~setting.overlap => (\A d \in Calls : Undisturbed(d))
                             /\ \A d, e \in Calls : Running(d) /\ Running(e) => d = e
    BY DEF SubmitInv, Alone
<1>1. /\ PendingCount \in Nonces => ~Used(PendingCount)
      /\ \A m \in Nonces : m < PendingCount => Used(m)
    BY <1>0, FreeNonce DEF NoGap
<1>2. /\ pc[c] = "send" /\ hash[c] = None /\ outcome[c] = "none"
      /\ tx.nonce \in Nonces
      /\ wire' = [wire EXCEPT ![c] = tx] /\ reply' = [reply EXCEPT ![c] = Answer(tx)]
      /\ pool' = IF Answer(tx) = "accepted" THEN [pool EXCEPT ![tx.nonce] = tx] ELSE pool
      /\ UNCHANGED <<setting, mined, status, pc, nonce, hash, outcome>>
    BY <1>0 DEF Deliver, InPlace
<1>3. /\ wire[c] # None => wire[c] \in Txs /\ tx = wire[c] /\ wire[c].payload = Payload[c]
      /\ wire[c] = None => /\ tx.payload = Payload[c] /\ tx.nonce = PendingCount
                           /\ PendingCount \in Nonces
      /\ tx \in Txs /\ tx # None /\ tx.payload = Payload[c]
    <2>1. CASE wire[c] = None
        BY <1>2, <2>1 DEF Submission
    <2>2. CASE wire[c] # None
        BY <1>0, <2>2 DEF Submission, InPlace, TypeOK
    <2> QED BY <2>1, <2>2
<1>4. Answer(tx) \in Replies /\ Answer(tx) # "none"
    BY DEF Answer
<1>5. TypeOK'
    <2>1. deliveries' \in [Calls -> 0..MaxDeliveries]
        <3>1. /\ deliveries \in [Calls -> 0..MaxDeliveries] /\ deliveries[c] < MaxDeliveries
              /\ deliveries' = [deliveries EXCEPT ![c] = deliveries[c] + 1]
            BY <1>0 DEF Deliver, TypeOK
        <3>2. deliveries[c] + 1 \in 0..MaxDeliveries
            BY <3>1
        <3> QED BY <3>1, <3>2
    <2> HIDE DEF Txs, Places, Replies, Outcomes, tx
    <2>2. wire' \in [Calls -> Txs \cup {None}] /\ reply' \in [Calls -> Replies]
        BY <1>0, <1>2, <1>3, <1>4 DEF TypeOK
    <2>3. pool' \in [Nonces -> Txs \cup {None}]
        BY <1>0, <1>2, <1>3 DEF TypeOK
    <2> QED BY <1>0, <1>2, <2>1, <2>2, <2>3 DEF TypeOK
<1>6. /\ \A n \in Nonces : Used(n) => Used(n)'
      /\ \A t \in Txs : Landed(t) => Landed(t)'
    BY NodeKeeps DEF Next, CallStep
<1>7. /\ wire'[c] = tx /\ reply'[c] = Answer(tx)
      /\ \A d \in Calls \ {c} : wire'[d] = wire[d] /\ reply'[d] = reply[d]
      /\ \A d \in Calls : wire[d] # None => wire'[d] = wire[d]
      /\ \A n \in Nonces \ {tx.nonce} : pool'[n] = pool[n]
      /\ \/ /\ Answer(tx) = "accepted"
            /\ pool[tx.nonce] = None /\ mined[tx.nonce] = None /\ pool'[tx.nonce] = tx
         \/ Answer(tx) # "accepted" /\ pool' = pool
    <2> HIDE DEF Txs, Places, Replies, Outcomes, tx
    <2>1. Answer(tx) = "accepted" => pool[tx.nonce] = None /\ mined[tx.nonce] = None
        BY DEF Answer
    <2> QED BY <1>0, <1>2, <1>3, <2>1 DEF TypeOK
<1>8. \A d \in Calls : /\ wire[d] # None => wire[d] \in Txs /\ wire[d].nonce \in Nonces
                       /\ hash[d] # None => hash[d] \in Txs /\ hash[d].nonce \in Nonces
    BY <1>0 DEF TypeOK
<1>9. None \notin Txs
    OBVIOUS
<1> HIDE DEF Txs, Places, Replies, Outcomes, tx
<1>10. NodePlace'
    <2> SUFFICES ASSUME NEW n \in Nonces
                 PROVE  /\ pool'[n] # None => pool'[n].nonce = n /\ \E d \in Calls : wire'[d] = pool'[n]
                        /\ mined[n] # None => mined[n].nonce = n /\ \E d \in Calls : wire'[d] = mined[n]
                        /\ pool'[n] = None \/ mined[n] = None
        BY <1>2 DEF NodePlace
    <2>1. /\ pool[n] # None => pool[n].nonce = n /\ \E d \in Calls : wire'[d] = pool[n]
          /\ mined[n] # None => mined[n].nonce = n /\ \E d \in Calls : wire'[d] = mined[n]
          /\ pool[n] = None \/ mined[n] = None
        BY <1>0, <1>7 DEF NodePlace
    <2> QED BY <1>2, <1>7, <2>1
<1>11. NoGap'
    <2> SUFFICES ASSUME NEW n \in Nonces, NEW m \in Nonces, m < n
                 PROVE  /\ Used(n)' => Used(m)
                        /\ \A d \in Calls : wire'[d] # None /\ wire'[d].nonce = n => Used(m)
        BY <1>6 DEF NoGap
    <2>1. /\ Used(n) => Used(m)
          /\ \A d \in Calls : wire[d] # None /\ wire[d].nonce = n => Used(m)
        BY <1>0 DEF NoGap
    <2>2. tx.nonce = n => Used(m)
        BY <1>1, <1>3, <2>1
    <2>3. \A d \in Calls : wire'[d] # None /\ wire'[d].nonce = n => Used(m)
        BY <1>7, <2>1, <2>2
    <2>4. Used(n)' => Used(n) \/ tx.nonce = n
        BY <1>2, <1>7 DEF Used
    <2> QED BY <2>1, <2>2, <2>3, <2>4
<1>12. ASSUME NEW d \in Calls PROVE InPlace(d)' /\ Traced(d)'
    <2>0. InPlace(d) /\ Traced(d)
        BY <1>0
    <2>1. Traced(d)'
        BY <1>2, <1>6, <1>7, <1>8, <1>9, <2>0 DEF Traced
    <2>2. CASE d = c
        <3>1. Answer(tx) \in {"accepted", "already known"} =>
                  pool'[tx.nonce] = tx \/ mined[tx.nonce] = tx
            BY <1>7 DEF Answer
        <3>2. /\ pc'[c] = "send" /\ hash'[c] = None /\ outcome'[c] = "none"
              /\ wire'[c] = tx /\ reply'[c] = Answer(tx) /\ mined' = mined
            BY <1>2, <1>7
        <3>3. InPlace(c)'
            BY <1>3, <3>1, <3>2 DEF InPlace, Landed
        <3> QED BY <2>1, <2>2, <3>3
    <2>3. CASE d # c
        <3>1. wire'[d] = wire[d] /\ reply'[d] = reply[d]
            BY <1>7, <2>3
        <3>2. wire[d] # None /\ Landed(wire[d]) =>
                  pool'[wire[d].nonce] = wire[d] \/ mined'[wire[d].nonce] = wire[d]
            BY <1>6, <1>8 DEF Landed
        <3>3. InPlace(d)'
            BY <1>2, <2>0, <3>1, <3>2 DEF InPlace, Landed
        <3> QED BY <2>1, <3>3
    <2> QED BY <2>1, <2>2, <2>3
<1>13. ASSUME ~setting.overlap, NEW d \in Calls PROVE Undisturbed(d)'
    <2>0. Undisturbed(d)
        BY <1>0, <1>13
    <2>1. CASE d # c
        <3>1. ~Running(d)
            BY <1>0, <1>2, <1>13, <2>1 DEF Running
        <3> QED BY <1>2, <1>7, <2>0, <2>1, <3>1 DEF Undisturbed, Running
    <2>2. CASE d = c
        <3>1. pool[tx.nonce] \in {None, tx} /\ mined[tx.nonce] \in {None, tx}
            BY <1>1, <1>2, <1>3, <2>0, <2>2 DEF Undisturbed, Running, Used
        <3>2. Answer(tx) # "underpriced"
            BY <3>1 DEF Answer
        <3>3. nonce[c] # None => nonce[c] = tx.nonce
            BY <1>2, <1>3, <2>0, <2>2 DEF Undisturbed
        <3> QED BY <1>2, <1>3, <1>7, <2>2, <3>1, <3>2, <3>3 DEF Undisturbed
    <2> QED BY <2>1, <2>2
<1> QED BY <1>0, <1>2, <1>5, <1>10, <1>11, <1>12, <1>13 DEF SubmitInv, Alone, Running

LEMMA SubmitInvStep == SubmitInv /\ [Next]_vars => SubmitInv'
<1> SUFFICES ASSUME SubmitInv, [Next]_vars PROVE SubmitInv'
    OBVIOUS
<1>1. ASSUME NEW c \in Calls, Start(c) \/ CallStep(c) PROVE SubmitInv'
    BY <1>1, CaptureStep, DeliverStep, QuietStep DEF CallStep, QuietMove
<1>2. ASSUME NEW n \in Nonces, Mine(n) PROVE SubmitInv'
    BY <1>2, MineStep
<1>3. CASE UNCHANGED vars
    <2> HIDE DEF Txs, Places, Replies, Outcomes
    <2>1. TypeOK' /\ NodePlace' /\ NoGap'
        BY <1>3 DEF SubmitInv, TypeOK, NodePlace, NoGap, Used
    <2>2. \A c \in Calls : InPlace(c)' /\ Traced(c)'
        BY <1>3 DEF SubmitInv, InPlace, Traced, Landed
    <2>3. PendingCount' = PendingCount
        BY <1>3 DEF PendingCount, Used
    <2>4. Alone'
        BY <1>3, <2>3 DEF SubmitInv, Alone, Undisturbed, Running
    <2> QED BY <2>1, <2>2, <2>4 DEF SubmitInv
<1> QED BY <1>1, <1>2, <1>3 DEF Next

------------------------------------------------------------------------------
(* The abstract promise: what the node has answered for. *)

\* A call that was answered for found its nonce used; a call that goes on was answered
\* for; the node never refuses the nonce it gave itself; and without overlap a
\* transaction nobody was answered for is not there.
Answered(c) ==
    /\ reply[c] # "none" => Used(wire[c].nonce)
    /\ pc[c] \in {"recover", "receipt"} => reply[c] # "none"
    /\ ~setting.local /\ wire[c] # None => reply[c] # "none" /\ Landed(wire[c])
    /\ ~setting.overlap /\ Running(c) /\ wire[c] # None /\ reply[c] = "none" =>
           ~Used(wire[c].nonce)

PromiseInv == SubmitInv /\ \A c \in Calls : Answered(c)

\* The types the steps are proved from.
LEMMA InHand ==
    ASSUME TypeOK
    PROVE  /\ \A d \in Calls : wire[d] # None => wire[d] \in Txs /\ wire[d].nonce \in Nonces
           /\ \A d \in Calls : hash[d] # None => hash[d] \in Txs /\ hash[d].nonce \in Nonces
           /\ None \notin Txs /\ None \notin Nonces /\ None \notin Payloads
BY DEF TypeOK

\* A transaction is there when the nonce is its own.
LEMMA LandedIsUsed == \A tx \in Txs : Landed(tx) => Used(tx.nonce)
BY DEF Landed, Used

\* A delivery is accepted at a nonce that is free, and otherwise changes nothing at the
\* node.
LEMMA DeliveryFrame ==
    ASSUME SubmitInv, NEW c \in Calls, Deliver(c), NEW tx, tx = Submission(c)
    PROVE  /\ tx \in Txs /\ tx.nonce \in Nonces /\ tx # None /\ tx.payload = Payload[c]
           /\ pc[c] = "send" /\ outcome[c] = "none"
           /\ wire[c] # None => tx = wire[c]
           /\ wire[c] = None => tx.nonce = PendingCount /\ ~Used(tx.nonce)
           /\ \A m \in Nonces : m < tx.nonce => Used(m)
           /\ wire'[c] = tx /\ reply'[c] = Answer(tx) /\ Answer(tx) # "none"
           /\ \A d \in Calls \ {c} : wire'[d] = wire[d] /\ reply'[d] = reply[d]
           /\ UNCHANGED <<setting, mined, status, pc, outcome>>
           /\ \/ /\ Answer(tx) = "accepted" /\ ~Used(tx.nonce)
                 /\ pool' = [pool EXCEPT ![tx.nonce] = tx]
              \/ Answer(tx) # "accepted" /\ pool' = pool /\ Used(tx.nonce)
<1>1. TypeOK /\ NoGap /\ InPlace(c)
    BY DEF SubmitInv
<1>2. /\ PendingCount \in Nonces => ~Used(PendingCount)
      /\ \A m \in Nonces : m < PendingCount => Used(m)
    BY <1>1, FreeNonce DEF NoGap
<1>3. /\ pc[c] = "send" /\ outcome[c] = "none" /\ tx.nonce \in Nonces
      /\ wire' = [wire EXCEPT ![c] = tx] /\ reply' = [reply EXCEPT ![c] = Answer(tx)]
      /\ pool' = IF Answer(tx) = "accepted" THEN [pool EXCEPT ![tx.nonce] = tx] ELSE pool
      /\ UNCHANGED <<setting, mined, status, pc, outcome>>
    BY <1>1 DEF Deliver, InPlace
<1>4. CASE wire[c] = None
    <2>1. tx = [payload |-> Payload[c], nonce |-> PendingCount]
        BY <1>4 DEF Submission
    <2>2. tx \in Txs /\ tx.payload = Payload[c] /\ tx.nonce = PendingCount
        BY <1>3, <2>1
    <2>3. Answer(tx) = "accepted"
        BY <1>2, <1>3, <2>2 DEF Answer, Used
    <2> HIDE DEF Txs, Places, Replies, Outcomes
    <2> QED BY <1>1, <1>2, <1>3, <1>4, <2>2, <2>3, InHand DEF TypeOK
<1>5. CASE wire[c] # None
    <2>1. tx = wire[c] /\ tx \in Txs /\ tx.payload = Payload[c]
        BY <1>1, <1>5 DEF Submission, InPlace, TypeOK
    <2>2. \A m \in Nonces : m < tx.nonce => Used(m)
        BY <1>1, <1>3, <1>5, <2>1 DEF NoGap
    <2>3. /\ Answer(tx) # "none"
          /\ Answer(tx) = "accepted" <=> ~Used(tx.nonce)
        BY <1>1, <2>1, InHand DEF Answer, Used
    <2> HIDE DEF Txs, Places, Replies, Outcomes
    <2> QED BY <1>1, <1>3, <1>5, <2>1, <2>2, <2>3, InHand DEF TypeOK
<1> QED BY <1>4, <1>5

LEMMA PromiseInvInit == Init => PromiseInv
<1> SUFFICES ASSUME Init PROVE \A c \in Calls : Answered(c)
    BY SubmitInvInit DEF PromiseInv
<1> QED BY DEF Init, Answered

LEMMA PromiseInvStep == PromiseInv /\ [Next]_vars => PromiseInv'
<1> SUFFICES ASSUME PromiseInv, [Next]_vars, NEW d \in Calls PROVE Answered(d)'
    BY SubmitInvStep DEF PromiseInv
<1>0. SubmitInv /\ TypeOK /\ Answered(d) /\ InPlace(d)
    BY DEF PromiseInv, SubmitInv
<1>1. /\ \A n \in Nonces : Used(n) => Used(n)'
      /\ \A tx \in Txs : Landed(tx) => Landed(tx)'
    BY <1>0, NodeKeeps
<1>2. wire[d] # None => wire[d] \in Txs /\ wire[d].nonce \in Nonces
    BY <1>0, InHand
<1>3. reply[d] # "none" => wire[d] # None
    BY <1>0 DEF InPlace
<1> HIDE DEF Txs, Places, Replies, Outcomes
<1>4. ASSUME NEW c \in Calls, QuietMove(c) PROVE Answered(d)'
    <2>1. /\ UNCHANGED <<setting, pool, mined, nonce, wire, reply>>
          /\ d # c => pc'[d] = pc[d]
        BY <1>0, <1>4, QuietFrame
    <2>2. CASE d # c
        BY <1>0, <2>1, <2>2 DEF Answered, Running, Used, Landed
    <2>3. CASE d = c
        <3>1. /\ Running(c)' => Running(c) \/ wire[c] = None
              /\ pc'[c] \in {"recover", "receipt"} => reply[c] # "none"
            BY <1>0, <1>4, <2>3
               DEF QuietMove, Start, LoseSubmission, Accepted, Collision, Refused, Recover,
                   RecoverTimeout, Receipt, ReceiptTimeout, Throw, Return, AlreadySubmitted,
                   Running, InPlace, Answered, TypeOK
        <3> QED BY <1>0, <2>1, <2>3, <3>1 DEF Answered, Used, Landed
    <2> QED BY <2>2, <2>3
<1>5. ASSUME NEW c \in Calls, Capture(c) PROVE Answered(d)'
    <2>1. /\ UNCHANGED <<setting, pool, mined, reply>>
          /\ d # c => pc'[d] = pc[d] /\ wire'[d] = wire[d]
        BY <1>0, <1>5 DEF Capture, Throw, TypeOK
    <2>2. CASE d # c
        BY <1>0, <2>1, <2>2 DEF Answered, Running, Used, Landed
    <2>3. CASE d = c
        <3>1. pc[c] = "capture" /\ wire[c] = None /\ reply[c] = "none"
            BY <1>0, <1>5, <2>3 DEF Capture, InPlace
        <3>2. /\ pc'[c] \in {"send", "over"}
              /\ wire'[c] # None => /\ setting.local /\ PendingCount \in Nonces
                                    /\ wire'[c].nonce = PendingCount
            BY <1>0, <1>5, <3>1 DEF Capture, Throw, TypeOK
        <3>3. PendingCount \in Nonces => ~Used(PendingCount)
            BY <1>0, FreeNonce DEF SubmitInv, NoGap
        <3> QED BY <2>1, <2>3, <3>1, <3>2, <3>3 DEF Answered, Used, Landed
    <2> QED BY <2>2, <2>3
<1>6. ASSUME NEW c \in Calls, Deliver(c) PROVE Answered(d)'
    <2> PICK tx : tx = Submission(c)
        OBVIOUS
    <2>0. /\ tx \in Txs /\ tx.nonce \in Nonces /\ tx # None
          /\ pc[c] = "send"
          /\ wire[c] # None => tx = wire[c]
          /\ wire'[c] = tx /\ reply'[c] = Answer(tx) /\ Answer(tx) # "none"
          /\ \A e \in Calls \ {c} : wire'[e] = wire[e] /\ reply'[e] = reply[e]
          /\ UNCHANGED <<setting, mined, status, pc, outcome>>
          /\ \/ /\ Answer(tx) = "accepted" /\ ~Used(tx.nonce)
                /\ pool' = [pool EXCEPT ![tx.nonce] = tx]
             \/ Answer(tx) # "accepted" /\ pool' = pool /\ Used(tx.nonce)
          /\ wire[c] = None => ~Used(tx.nonce)
        BY <1>0, <1>6, DeliveryFrame
    <2>1. CASE d # c
        <3>1. ~setting.overlap => ~Running(d)
            <4>1. Running(c)
                BY <2>0 DEF Running
            <4> QED BY <1>0, <2>1, <4>1 DEF SubmitInv, Alone
        <3> QED BY <1>0, <1>1, <1>2, <1>3, <2>0, <2>1, <3>1 DEF Answered, Running
    <2>2. CASE d = c
        <3>1. pool'[tx.nonce] = tx \/ Used(tx.nonce)
            BY <1>0, <2>0 DEF TypeOK
        <3>2. Used(tx.nonce)'
            BY <1>1, <2>0, <3>1 DEF Used
        <3>3. ~setting.local => Landed(tx)'
            <4>1. CASE wire[c] # None
                BY <1>0, <1>1, <2>0, <2>2, <4>1 DEF Answered
            <4>2. CASE wire[c] = None
                BY <1>0, <2>0, <4>2 DEF Landed, TypeOK
            <4> QED BY <4>1, <4>2
        <3> QED BY <1>0, <2>0, <2>2, <3>2, <3>3 DEF Answered
    <2> QED BY <2>1, <2>2
<1>7. ASSUME NEW n \in Nonces, Mine(n) PROVE Answered(d)'
    <2>1. UNCHANGED <<setting, pc, wire, reply>>
        BY <1>7 DEF Mine
    <2>2. \A m \in Nonces : Used(m)' => Used(m)
        BY <1>0, <1>7 DEF Mine, Used, TypeOK
    <2> QED BY <1>0, <1>1, <1>2, <1>3, <2>1, <2>2 DEF Answered, Running
<1>8. CASE UNCHANGED vars
    BY <1>0, <1>8 DEF Answered, Running, Used, Landed
<1> QED BY <1>4, <1>5, <1>6, <1>7, <1>8 DEF Next, CallStep, QuietMove

------------------------------------------------------------------------------
(* The abstract promise, step by step. *)

Ledger == [n \in Nonces |-> PayloadAt(n)]
Receipts == [n \in Nonces |-> IF mined[n] # None THEN status[n] ELSE "none"]
SlotOf == [c \in Calls |-> Slot(c)]
Results == [c \in Calls |-> Result(c)]

LEMMA PromiseInit == Init => Promise!Init
BY DEF Init, Promise!Init, Promise!Kinds, Kind, PayloadAt, Slot, Result

LEMMA StillIsStutter ==
    UNCHANGED <<Kind, Ledger, Receipts, SlotOf, Results>> => UNCHANGED Promise!vars
BY DEF Promise!vars, Ledger, Receipts, SlotOf, Results

\* Steps of a call that reach neither the node nor an outcome say nothing.
LEMMA LedgerStands ==
    ASSUME UNCHANGED <<setting, pool, mined, status, wire, reply>>
    PROVE  UNCHANGED <<Kind, Ledger, Receipts, SlotOf>>
BY DEF Kind, Ledger, Receipts, SlotOf, PayloadAt, Slot, Landed

LEMMA PayloadThere ==
    ASSUME TypeOK
    PROVE  \A n \in Nonces : PayloadAt(n) # None <=> Used(n)
<1>1. \A tx \in Txs : tx # None /\ tx.payload # None
    OBVIOUS
<1> HIDE DEF Txs
<1>2. \A n \in Nonces : pool[n] \in Txs \cup {None} /\ mined[n] \in Txs \cup {None}
    BY DEF TypeOK
<1> QED BY <1>1, <1>2 DEF PayloadAt, Used

\* An outcome is reported, or a call goes on.
LEMMA QuietRefines ==
    ASSUME PromiseInv, NEW c \in Calls, QuietMove(c)
    PROVE  [Promise!Next]_(Promise!vars)
<1>0. SubmitInv /\ TypeOK /\ Answered(c) /\ InPlace(c) /\ Traced(c)
    BY DEF PromiseInv, SubmitInv
<1>1. /\ UNCHANGED <<setting, pool, mined, status, wire, reply>>
      /\ \A d \in Calls \ {c} : outcome'[d] = outcome[d]
      /\ outcome \in [Calls -> Outcomes] /\ outcome' \in [Calls -> Outcomes]
    BY <1>0, QuietFrame DEF TypeOK
<1>2. UNCHANGED <<Kind, Ledger, Receipts, SlotOf>>
    BY <1>1, LedgerStands
<1>3. CASE outcome' = outcome
    <2>1. Results' = Results
        BY <1>3 DEF Results, Result
    <2> QED BY <1>2, <2>1, StillIsStutter
<1>4. CASE /\ outcome[c] = "none"
           /\ outcome'[c] \notin {"none", "success", "reverted"}
    <2>1. Results' = [Results EXCEPT ![c] = "error"]
        BY <1>1, <1>4 DEF Results, Result
    <2>2. Results[c] = "none"
        BY <1>4 DEF Results, Result
    <2>3. Promise!Fail(c)
        BY <1>2, <2>1, <2>2 DEF Promise!Fail, Ledger, Receipts, SlotOf, Results
    <2> QED BY <2>3 DEF Promise!Next
<1>5. CASE Receipt(c)
    <2>1. /\ pc[c] = "receipt" /\ outcome[c] = "none" /\ hash[c] # None
          /\ mined[hash[c].nonce] = hash[c]
          /\ outcome'[c] = status[hash[c].nonce]
        BY <1>0, <1>5 DEF Receipt, Throw, InPlace, TypeOK
    <2> DEFINE n == hash[c].nonce
    <2>2. n \in Nonces /\ hash[c] \in Txs
        BY <1>0, <2>1, InHand
    <2>3. reply[c] # "none" /\ wire[c] # None /\ wire[c] \in Txs /\ wire[c].nonce \in Nonces
        BY <1>0, <2>1, InHand DEF Answered, InPlace
    <2>4. Receipts[n] = status[n] /\ status[n] \in {"success", "reverted"}
        BY <1>0, <2>1, <2>2 DEF Receipts, TypeOK
    <2>5. Results[c] = "none" /\ Results' = [Results EXCEPT ![c] = Receipts[n]]
        BY <1>1, <2>1, <2>4 DEF Results, Result
    <2>6. Kind # "traded" => hash[c] = wire[c]
        BY <1>0, <2>1 DEF Kind, Traced
    <2>7. Landed(wire[c])
        <3>1. CASE hash[c] = wire[c]
            BY <2>1, <3>1 DEF Landed
        <3>2. CASE hash[c] # wire[c]
            BY <1>0, <2>3, <2>6, <3>2 DEF Answered, Kind
        <3> QED BY <3>1, <3>2
    <2>8. SlotOf[c] = wire[c].nonce /\ SlotOf[c] # None
        BY <2>3, <2>7, InHand, <1>0 DEF SlotOf, Slot
    <2>9. Kind # "traded" => n = SlotOf[c]
        BY <2>6, <2>8
    <2>10. Receipts[n] # "none"
        BY <2>4
    <2> HIDE DEF n
    <2>11. Promise!Settle(c)
        BY <1>2, <2>2, <2>5, <2>8, <2>9, <2>10
           DEF Promise!Settle, Ledger, Receipts, SlotOf, Results
    <2> QED BY <2>11 DEF Promise!Next
<1>6. CASE LoseSubmission(c) \/ Refused(c) \/ RecoverTimeout(c) \/ ReceiptTimeout(c)
    <2>1. outcome[c] = "none" /\ outcome'[c] \notin {"none", "success", "reverted"}
        BY <1>0, <1>6 DEF LoseSubmission, Refused, RecoverTimeout, ReceiptTimeout, Throw,
                          InPlace, TypeOK
    <2> QED BY <1>4, <2>1
<1>7. CASE Start(c) \/ Accepted(c) \/ Recover(c)
    BY <1>3, <1>7 DEF Start, Accepted, Recover, Return
<1>8. CASE Collision(c)
    <2>1. \/ outcome' = outcome
          \/ outcome[c] = "none" /\ outcome'[c] = "alreadySubmitted"
        BY <1>0, <1>8 DEF Collision, Return, Throw, InPlace, TypeOK
    <2> QED BY <1>3, <1>4, <2>1
<1> QED BY <1>5, <1>6, <1>7, <1>8 DEF QuietMove

LEMMA CaptureRefines ==
    ASSUME PromiseInv, NEW c \in Calls, Capture(c)
    PROVE  [Promise!Next]_(Promise!vars)
<1>0. TypeOK /\ InPlace(c) /\ pc[c] = "capture"
    BY DEF PromiseInv, SubmitInv, Capture
<1>1. outcome[c] = "none" /\ reply[c] = "none"
    BY <1>0 DEF InPlace
<1>2. UNCHANGED <<setting, pool, mined, status, reply>>
    BY DEF Capture
<1>3. /\ \A d \in Calls \ {c} : wire'[d] = wire[d] /\ outcome'[d] = outcome[d]
      /\ outcome' = outcome \/ outcome'[c] = "networkError"
    BY <1>0 DEF Capture, Throw, TypeOK
<1>4. UNCHANGED <<Kind, Ledger, Receipts, SlotOf>>
    <2>1. \A d \in Calls : Slot(d)' = Slot(d)
        BY <1>1, <1>2, <1>3 DEF Slot, Landed
    <2> QED BY <1>2, <2>1 DEF Kind, Ledger, Receipts, SlotOf, PayloadAt
<1>5. CASE outcome' = outcome
    <2>1. Results' = Results
        BY <1>5 DEF Results, Result
    <2> QED BY <1>4, <2>1, StillIsStutter
<1>6. CASE outcome'[c] = "networkError"
    <2>1. Results' = [Results EXCEPT ![c] = "error"] /\ Results[c] = "none"
        BY <1>1, <1>3, <1>6 DEF Results, Result
    <2>2. Promise!Fail(c)
        BY <1>4, <2>1 DEF Promise!Fail, Ledger, Receipts, SlotOf, Results
    <2> QED BY <2>2 DEF Promise!Next
<1> QED BY <1>3, <1>5, <1>6

\* What is accepted is entered at the ledger's end; what is already there may be another
\* call's, where calls overlap; everything else the callers know already.
LEMMA DeliverRefines ==
    ASSUME PromiseInv, NEW c \in Calls, Deliver(c)
    PROVE  [Promise!Next]_(Promise!vars)
<1> PICK tx : tx = Submission(c)
    OBVIOUS
<1>0. SubmitInv /\ TypeOK /\ InPlace(c) /\ \A d \in Calls : Answered(d) /\ InPlace(d)
    BY DEF PromiseInv, SubmitInv
<1>1. /\ tx \in Txs /\ tx.nonce \in Nonces /\ tx # None /\ tx.payload = Payload[c]
      /\ pc[c] = "send" /\ outcome[c] = "none"
      /\ wire[c] # None => tx = wire[c]
      /\ wire[c] = None => ~Used(tx.nonce)
      /\ \A m \in Nonces : m < tx.nonce => Used(m)
      /\ wire'[c] = tx /\ reply'[c] # "none"
      /\ \A d \in Calls \ {c} : wire'[d] = wire[d] /\ reply'[d] = reply[d]
      /\ UNCHANGED <<setting, mined, status, outcome>>
      /\ \/ ~Used(tx.nonce) /\ pool' = [pool EXCEPT ![tx.nonce] = tx]
         \/ pool' = pool /\ Used(tx.nonce)
    BY <1>0, DeliveryFrame
<1>2. /\ \A d \in Calls : wire[d] # None => wire[d] \in Txs /\ wire[d].nonce \in Nonces
      /\ \A d \in Calls : reply[d] # "none" => wire[d] # None /\ Used(wire[d].nonce)
      /\ None \notin Nonces /\ None \notin Txs /\ None \notin Payloads
      /\ \A n \in Nonces : PayloadAt(n) # None <=> Used(n)
    BY <1>0, InHand, PayloadThere DEF InPlace, Answered
<1> HIDE DEF Txs, Places, Replies, Outcomes
<1>3. UNCHANGED <<Kind, Receipts, Results>>
    BY <1>1 DEF Kind, Receipts, Results, Result
<1>4. Results[c] = "none"
    BY <1>1 DEF Results, Result
<1>5. CASE ~Used(tx.nonce) /\ pool' = [pool EXCEPT ![tx.nonce] = tx]
    <2>1. /\ pool'[tx.nonce] = tx
          /\ \A n \in Nonces \ {tx.nonce} : pool'[n] = pool[n]
        BY <1>0, <1>1, <1>5 DEF TypeOK
    <2>2. ASSUME NEW d \in Calls \ {c} PROVE Slot(d)' = Slot(d)
        <3>1. wire'[d] = wire[d] /\ reply'[d] = reply[d]
            BY <1>1
        <3>2. reply[d] # "none" => wire[d].nonce \in Nonces \ {tx.nonce}
            BY <1>2, <1>5
        <3> QED BY <1>1, <2>1, <3>1, <3>2 DEF Slot, Landed
    <2>3. Slot(c)' = tx.nonce
        BY <1>1, <2>1 DEF Slot, Landed
    <2>4. Slot(c) = None
        <3>1. reply[c] = "none"
            BY <1>1, <1>2, <1>5
        <3> QED BY <3>1 DEF Slot
    <2>5. SlotOf' = [SlotOf EXCEPT ![c] = tx.nonce] /\ SlotOf[c] = None
        BY <2>2, <2>3, <2>4 DEF SlotOf
    <2>6. Ledger' = [Ledger EXCEPT ![tx.nonce] = Payload[c]]
        <3>1. PayloadAt(tx.nonce)' = Payload[c]
            BY <1>1, <2>1 DEF PayloadAt
        <3>2. \A n \in Nonces \ {tx.nonce} : PayloadAt(n)' = PayloadAt(n)
            BY <1>1, <2>1 DEF PayloadAt
        <3> QED BY <1>1, <3>1, <3>2 DEF Ledger
    <2>7. Ledger[tx.nonce] = None /\ \A m \in Nonces : m < tx.nonce => Ledger[m] # None
        BY <1>1, <1>2, <1>5 DEF Ledger
    <2>8. Promise!Enter(c)
        BY <1>1, <1>3, <1>4, <2>5, <2>6, <2>7
           DEF Promise!Enter, Promise!Open, Ledger, Receipts, SlotOf, Results
    <2> QED BY <2>8 DEF Promise!Next
<1>6. CASE pool' = pool /\ Used(tx.nonce)
    <2>1. \A d \in Calls \ {c} : Slot(d)' = Slot(d)
        BY <1>1, <1>6 DEF Slot, Landed
    <2>2. Ledger' = Ledger
        BY <1>1, <1>6 DEF Ledger, PayloadAt
    <2>3. Slot(c)' = IF Landed(tx) THEN tx.nonce ELSE None
        BY <1>1, <1>6 DEF Slot, Landed
    <2>4. wire[c] # None /\ tx = wire[c]
        BY <1>1, <1>6
    <2>5. CASE Slot(c)' = Slot(c)
        <3>1. SlotOf' = SlotOf
            BY <2>1, <2>5 DEF SlotOf
        <3> QED BY <1>3, <2>2, <3>1, StillIsStutter
    <2>6. CASE Slot(c)' # Slot(c)
        <3>1. reply[c] = "none" /\ Landed(tx) /\ Slot(c)' = tx.nonce
            BY <2>3, <2>4, <2>6 DEF Slot
        <3>2. Kind = "shared"
            BY <1>0, <1>1, <1>6, <2>4, <3>1 DEF Kind, Answered, Running
        <3>3. SlotOf' = [SlotOf EXCEPT ![c] = tx.nonce] /\ SlotOf[c] = None
            BY <2>1, <3>1 DEF SlotOf, Slot
        <3>4. Ledger[tx.nonce] = Payload[c]
            <4>1. PayloadAt(tx.nonce) = tx.payload
                BY <1>0, <1>1, <1>2, <3>1 DEF PayloadAt, Landed, SubmitInv, NodePlace
            <4> QED BY <1>1, <4>1 DEF Ledger
        <3>5. Promise!Join(c)
            BY <1>1, <1>3, <1>4, <2>2, <3>2, <3>3, <3>4
               DEF Promise!Join, Promise!Open, Ledger, Receipts, SlotOf, Results
        <3> QED BY <3>5 DEF Promise!Next
    <2> QED BY <2>5, <2>6
<1> QED BY <1>1, <1>5, <1>6

\* A nonce is executed in its turn.
LEMMA MineRefines ==
    ASSUME PromiseInv, NEW n \in Nonces, Mine(n)
    PROVE  [Promise!Next]_(Promise!vars)
<1>0. /\ TypeOK /\ NodePlace
      /\ \A d \in Calls : reply[d] # "none" =>
             wire[d] \in Txs /\ wire[d].nonce \in Nonces
    BY InHand DEF PromiseInv, SubmitInv, InPlace
<1>1. /\ pool[n] # None /\ mined[n] = None /\ pool[n].nonce = n
      /\ \A m \in Nonces : m < n => mined[m] # None
      /\ UNCHANGED <<setting, wire, reply, outcome>>
    BY <1>0 DEF Mine, NodePlace
<1>2. PICK s \in {"success", "reverted"} : status' = [status EXCEPT ![n] = s]
    BY DEF Mine
<1>3. None \notin Txs
    BY <1>0, InHand
<1> HIDE DEF Txs, Places, Replies, Outcomes
<1>4. /\ mined'[n] = pool[n] /\ pool'[n] = None
      /\ \A m \in Nonces \ {n} : /\ mined'[m] = mined[m] /\ pool'[m] = pool[m]
                                 /\ status'[m] = status[m]
      /\ status'[n] = s /\ \A m \in Nonces : status[m] \in {"success", "reverted"}
    BY <1>0, <1>2 DEF Mine, TypeOK
<1>5. \A m \in Nonces : PayloadAt(m)' = PayloadAt(m)
    BY <1>1, <1>4 DEF PayloadAt
<1>6. \A d \in Calls : Slot(d)' = Slot(d)
    <2>1. \A tx \in Txs : tx.nonce \in Nonces => (Landed(tx)' <=> Landed(tx))
        BY <1>1, <1>3, <1>4 DEF Landed
    <2> QED BY <1>0, <1>1, <2>1 DEF Slot
<1>7. UNCHANGED <<Kind, Ledger, SlotOf, Results>>
    BY <1>1, <1>5, <1>6 DEF Kind, Ledger, SlotOf, Results, Result
<1>8. /\ Receipts' = [Receipts EXCEPT ![n] = s] /\ Receipts[n] = "none"
      /\ \A m \in Nonces : m < n => Receipts[m] # "none"
    BY <1>1, <1>4 DEF Receipts
<1>9. Ledger[n] # None
    BY <1>0, <1>1, PayloadThere DEF Ledger, Used
<1>10. Promise!Execute(n)
    BY <1>7, <1>8, <1>9 DEF Promise!Execute, Ledger, Receipts, SlotOf, Results
<1> QED BY <1>10 DEF Promise!Next

LEMMA PromiseStep == PromiseInv /\ [Next]_vars => [Promise!Next]_(Promise!vars)
<1> SUFFICES ASSUME PromiseInv, [Next]_vars PROVE [Promise!Next]_(Promise!vars)
    OBVIOUS
<1>1. CASE UNCHANGED vars
    <2>1. Results' = Results
        BY <1>1 DEF Results, Result
    <2> QED BY <1>1, <2>1, LedgerStands, StillIsStutter
<1>2. ASSUME NEW c \in Calls, Start(c) \/ CallStep(c) PROVE [Promise!Next]_(Promise!vars)
    BY <1>2, QuietRefines, CaptureRefines, DeliverRefines DEF CallStep, QuietMove
<1>3. ASSUME NEW n \in Nonces, Mine(n) PROVE [Promise!Next]_(Promise!vars)
    BY <1>3, MineRefines
<1> QED BY <1>1, <1>2, <1>3 DEF Next

------------------------------------------------------------------------------
(* The theorems. *)

LEMMA SubmitInvariant == Spec => []SubmitInv
BY SubmitInvInit, SubmitInvStep, PTL DEF Spec

\* Every variable keeps its type, however many calls there are.
THEOREM TypeCorrect == Spec => []TypeOK
<1>1. SubmitInv => TypeOK
    BY DEF SubmitInv
<1> QED BY <1>1, SubmitInvariant, PTL

\* The hash safeWriteContract returns is the call's own and real when calls do not
\* overlap, and half of that when they do.
THEOREM ReturnedHash == Spec => []ReturnedIsHalfReal
<1>1. ASSUME SubmitInv PROVE ReturnedIsHalfReal
    <2> SUFFICES ASSUME NEW c \in Calls, hash[c] # None
                 PROVE  /\ setting.local \/ ~setting.overlap => Own(c)
                        /\ ~setting.local \/ ~setting.overlap => Landed(hash[c])
        BY DEF ReturnedIsHalfReal
    <2>1. InPlace(c) /\ Traced(c)
        BY <1>1 DEF SubmitInv
    <2> QED BY <2>1 DEF InPlace, Traced, Own
<1> QED BY <1>1, SubmitInvariant, PTL

\* What a caller of safeWriteContract may conclude from a receipt when the SDK signs or the
\* wallet's calls do not overlap. Of overlapping calls the node signs for, one may report
\* the receipt of another's payload.
OutcomeIsReceipt ==
    setting.local \/ ~setting.overlap =>
        \A c \in Calls : outcome[c] \in {"success", "reverted"} =>
            \E n \in Nonces : /\ mined[n] # None /\ mined[n].payload = Payload[c]
                              /\ status[n] = outcome[c]

\* When the SDK signs or calls do not overlap, a call's outcome is the receipt of a mined
\* transaction with its own payload (safeWriteContract and the receipt wait after it).
THEOREM OutcomeOfReceipt == Spec => []OutcomeIsReceipt
<1>1. ASSUME SubmitInv PROVE OutcomeIsReceipt
    <2> SUFFICES ASSUME setting.local \/ ~setting.overlap, NEW c \in Calls,
                        outcome[c] \in {"success", "reverted"}
                 PROVE  \E n \in Nonces : /\ mined[n] # None /\ mined[n].payload = Payload[c]
                                          /\ status[n] = outcome[c]
        BY DEF OutcomeIsReceipt
    <2>1. InPlace(c) /\ Traced(c) /\ hash[c] \in Txs \cup {None}
        BY <1>1 DEF SubmitInv, TypeOK
    <2>2. /\ hash[c] \in Txs /\ hash[c] = wire[c] /\ wire[c].payload = Payload[c]
          /\ mined[hash[c].nonce] = hash[c] /\ status[hash[c].nonce] = outcome[c]
        BY <2>1 DEF InPlace, Traced
    <2> QED BY <2>2
<1> QED BY <1>1, SubmitInvariant, PTL

\* A call's submission makes at most one transaction, however often the transport
\* delivers it: a payload is never executed more often than it was asked for.
THEOREM PayloadLandsOnce == Spec => []LandsOnce
<1>1. ASSUME SubmitInv PROVE LandsOnce
    <2> SUFFICES ASSUME NEW p \in Payloads
                 PROVE  Cardinality({n \in Nonces : PayloadAt(n) = p})
                            <= Cardinality({c \in Calls : Payload[c] = p})
        BY DEF LandsOnce
    <2> DEFINE Asked == {c \in Calls : Payload[c] = p}
               Sent == {c \in Asked : wire[c] # None}
               Where == {n \in Nonces : PayloadAt(n) = p}
               Came == {wire[c].nonce : c \in Sent}
               f == [c \in Sent |-> wire[c].nonce]
    <2>1. Where \subseteq Came
        <3> SUFFICES ASSUME NEW n \in Nonces, PayloadAt(n) = p
                     PROVE  \E c \in Calls : wire[c] # None /\ Payload[c] = p /\ wire[c].nonce = n
            OBVIOUS
        <3>1. p # None
            OBVIOUS
        <3>2. \/ pool[n] # None /\ pool[n].payload = p
              \/ mined[n] # None /\ mined[n].payload = p
            BY <3>1 DEF PayloadAt
        <3>3. \E c \in Calls : wire[c] # None /\ wire[c].nonce = n /\ wire[c].payload = p
            BY <1>1, <3>2 DEF SubmitInv, NodePlace
        <3> QED BY <1>1, <3>3 DEF SubmitInv, InPlace
    <2>2. IsFiniteSet(Asked) /\ IsFiniteSet(Sent) /\ Cardinality(Sent) <= Cardinality(Asked)
        BY FS_Subset
    <2>3. f \in Surjection(Sent, Came)
        BY DEF Surjection
    <2>4. IsFiniteSet(Came) /\ Cardinality(Came) <= Cardinality(Sent)
        BY <2>2, <2>3, FS_Surjection
    <2>5. Cardinality(Where) <= Cardinality(Came)
        BY <2>1, <2>4, FS_Subset
    <2>6. /\ Cardinality(Where) \in Nat /\ Cardinality(Came) \in Nat
          /\ Cardinality(Sent) \in Nat /\ Cardinality(Asked) \in Nat
        BY <2>1, <2>2, <2>4, FS_Subset, FS_CardinalityType
    <2> QED BY <2>2, <2>4, <2>5, <2>6
<1> QED BY <1>1, SubmitInvariant, PTL

\* Whatever is delivered, collides or is lost, the calls of a wallet do what WalletLedger
\* promises: each enters one transaction at most, and reports a receipt only when its own
\* payload has entered, and then that transaction's, unless the node signs and calls
\* overlap.
THEOREM Refinement == Spec => ImplementsWalletLedger
<1>1. Spec => []PromiseInv
    BY PromiseInvInit, PromiseInvStep, PTL DEF Spec
<1> HIDE DEF vars
<1> QED BY <1>1, PromiseInit, PromiseStep, PTL DEF Spec, ImplementsWalletLedger, Promise!Spec
==============================================================================
