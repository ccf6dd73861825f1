----------------------------- MODULE ProgramsProofs -----------------------------
(***************************************************************************)
(* What a query of the Story-API comes back with and whom it lets trust,   *)
(* how a suite's pool and funds hold out, where its money goes, and what   *)
(* the exit codes of the programs mean, for all registrations, wallets,    *)
(* fees and gas.                                                           *)
(***************************************************************************)
EXTENDS Programs, FiniteSetTheorems, WellFoundedInduction, TLAPS

------------------------------------------------------------------------------
(* A step of any program is at most one of its query and one of its suite. *)

LEMMA ProgramStepSplits ==
    [ProgramNext]_allVars => [Next]_vars /\ [SuiteNext]_suiteVars
<1> SUFFICES ASSUME ProgramNext PROVE [Next]_vars /\ [SuiteNext]_suiteVars
    BY DEF allVars
<1>1. CASE \/ ParseArguments \/ ResolveConfig \/ ParseUuid \/ ParseNumber \/ ParseTimeout \/ Build
           \/ ReadChain \/ Deploy \/ Output \/ Upload \/ Access \/ Verify \/ QueryOver
           \/ Fund \/ TransferLands \/ Finally
    <2>1. UNCHANGED vars /\ UNCHANGED suiteVars
        BY <1>1 DEF ParseArguments, ResolveConfig, ParseUuid, ParseNumber, ParseTimeout, Build,
                    ReadChain, Deploy, Output, Upload, Access, Verify, QueryOver, Fund, TransferLands,
                    Finally, SdkIdle
    <2> QED BY <2>1
<1>2. CASE Query \/ Application
    <2>1. Next /\ UNCHANGED suiteVars
        BY <1>2 DEF Query, Application, Next
    <2> QED BY <2>1
<1>3. CASE Suite
    <2>1. SuiteNext /\ UNCHANGED vars
        BY <1>3 DEF Suite
    <2> QED BY <2>1
<1> QED BY <1>1, <1>2, <1>3 DEF ProgramNext

------------------------------------------------------------------------------
(* The query: its inductive invariant. *)

\* When the n-th attempt starts, counting from none.
Elapsed(n) == IF n = 0 THEN 0 ELSE IF n = 1 THEN 1 ELSE 3

Tries == [met : NoAnswer \cup {"answer"}, at : Nat]

QueryShapes ==
    /\ kind \in Kinds /\ signal \in BOOLEAN
    /\ pc \in {"attempt", "fetching", "backoff", "over"}
    /\ attempt \in 0..(RetryAttempts - 1)
    /\ wait \in Nat /\ now \in Nat
    /\ tries \in Seq(Tries)

\* Before it is over a query has met nothing but outages, as many as it made attempts.
AttemptPlace ==
    /\ pc \in {"attempt", "fetching"} => Len(tries) = attempt
    /\ pc = "backoff" => Len(tries) = attempt + 1 /\ attempt < RetryAttempts - 1
    /\ pc # "over" => outcome = "none" /\ \A i \in 1..Len(tries) : Met(i) \in Retryable

\* An attempt starts when the backoffs before it have passed.
ClockPlace ==
    /\ Len(tries) <= RetryAttempts
    /\ \A i \in 1..Len(tries) : tries[i].at = Elapsed(i - 1)
    /\ pc \in {"attempt", "fetching"} => now = Elapsed(attempt)
    /\ pc = "backoff" => now + wait = Elapsed(attempt + 1)

QueryInv ==
    /\ QueryShapes
    /\ AttemptPlace
    /\ ClockPlace
    /\ OutcomeIsEarned
    /\ kind = "registrations" /\ outcome = "value" => value \subseteq Registrations

------------------------------------------------------------------------------
LEMMA QueryInvInit == Init => QueryInv
<1> SUFFICES ASSUME Init PROVE QueryInv
    OBVIOUS
<1>1. /\ kind \in Kinds /\ signal = FALSE /\ pc = "attempt" /\ attempt = 0 /\ wait = 0
      /\ now = 0 /\ outcome = "none" /\ tries = <<>> /\ Len(tries) = 0
    BY DEF Init
<1>2. tries \in Seq(Tries)
    BY <1>1
<1>3. attempt \in 0..(RetryAttempts - 1) /\ wait \in Nat /\ now \in Nat
    BY <1>1 DEF RetryAttempts
<1>4. QueryShapes
    BY <1>1, <1>2, <1>3 DEF QueryShapes
<1>5. AttemptPlace /\ ClockPlace /\ OutcomeIsEarned
    BY <1>1 DEF AttemptPlace, ClockPlace, OutcomeIsEarned, Elapsed, RetryAttempts
<1> QED BY <1>1, <1>4, <1>5 DEF QueryInv

LEMMA BackoffDoubles == 2 ^ 0 = 1 /\ 2 ^ 1 = 2
OBVIOUS

\* One more attempt was made; everything before it was an outage.
LEMMA TriesGrow ==
    ASSUME QueryInv, pc = "fetching", NEW m \in NoAnswer \cup {"answer"},
           tries' = Append(tries, [met |-> m, at |-> now])
    PROVE  /\ tries' \in Seq(Tries) /\ Len(tries') = attempt + 1
           /\ tries'[attempt + 1].met = m /\ tries'[attempt + 1].at = Elapsed(attempt)
           /\ \A i \in 1..attempt : tries'[i] = tries[i] /\ tries[i].met \in Retryable
                                    /\ tries[i].at = Elapsed(i - 1)
<1>1. [met |-> m, at |-> now] \in Tries /\ tries \in Seq(Tries) /\ Len(tries) = attempt
    BY DEF QueryInv, QueryShapes, AttemptPlace, Tries
<1>2. /\ now = Elapsed(attempt) /\ attempt \in Nat
      /\ \A i \in 1..attempt : tries[i].met \in Retryable /\ tries[i].at = Elapsed(i - 1)
    BY <1>1 DEF QueryInv, QueryShapes, AttemptPlace, ClockPlace, Met, RetryAttempts
<1> HIDE DEF Tries
<1> QED BY <1>1, <1>2

LEMMA ReceiveKeeps == QueryInv /\ Receive => QueryInv'
<1> SUFFICES ASSUME QueryInv, Receive PROVE QueryInv'
    OBVIOUS
<1>0. /\ pc = "fetching" /\ UNCHANGED <<kind, signal, config, attempt, now>>
      /\ QueryShapes /\ outcome = "none" /\ attempt \in {0, 1, 2}
      /\ now = Elapsed(attempt)
    BY DEF Receive, callVars, QueryInv, QueryShapes, AttemptPlace, ClockPlace, RetryAttempts
<1>1. ASSUME NEW m \in NoAnswer \cup {"answer"},
             tries' = Append(tries, [met |-> m, at |-> now]),
             pc' = "over", UNCHANGED wait,
             outcome' \in {"serverError", "networkError"} =>
                 /\ m = IF outcome' = "serverError" THEN "gateway" ELSE "cut"
                 /\ signal \/ attempt = 2,
             outcome' = "value" =>
                 \/ m = "answer"
                 \/ kind \in ListKinds /\ value' = {} /\ m \in {"absent", "unrouted"},
             kind = "registrations" /\ outcome' = "value" => value' \subseteq Registrations
      PROVE  QueryInv'
    <2>1. /\ tries' \in Seq(Tries) /\ Len(tries') = attempt + 1
          /\ tries'[attempt + 1].met = m /\ tries'[attempt + 1].at = Elapsed(attempt)
          /\ \A i \in 1..attempt : tries'[i] = tries[i] /\ tries[i].met \in Retryable
                                   /\ tries[i].at = Elapsed(i - 1)
        BY <1>0, <1>1, TriesGrow
    <2>2. QueryShapes'
        BY <1>0, <1>1, <2>1 DEF QueryShapes
    <2>3. AttemptPlace'
        BY <1>1 DEF AttemptPlace
    <2>4. \A i \in 1..(attempt + 1) : tries'[i].at = Elapsed(i - 1)
        BY <1>0, <2>1
    <2>5. ClockPlace'
        BY <1>0, <1>1, <2>1, <2>4 DEF ClockPlace, RetryAttempts
    <2>6. attempt = 2 => tries'[2].at = 1 /\ tries'[3].at = 3
        BY <2>4 DEF Elapsed
    <2>7. OutcomeIsEarned'
        BY <1>0, <1>1, <2>1, <2>6 DEF OutcomeIsEarned, Met, RetryAttempts
    <2> QED BY <1>0, <1>1, <2>2, <2>3, <2>5, <2>7 DEF QueryInv
<1>2. ASSUME NEW m \in Retryable,
             tries' = Append(tries, [met |-> m, at |-> now]),
             pc' = "backoff", wait' = 2 ^ attempt, attempt < 2,
             UNCHANGED <<outcome, value>>
      PROVE  QueryInv'
    <2>0. m \in NoAnswer \cup {"answer"}
        BY DEF Retryable, NoAnswer
    <2>1. /\ tries' \in Seq(Tries) /\ Len(tries') = attempt + 1
          /\ tries'[attempt + 1].met = m /\ tries'[attempt + 1].at = Elapsed(attempt)
          /\ \A i \in 1..attempt : tries'[i] = tries[i] /\ tries[i].met \in Retryable
                                   /\ tries[i].at = Elapsed(i - 1)
        BY <1>0, <1>2, <2>0, TriesGrow
    <2>2. wait' \in Nat /\ now + wait' = Elapsed(attempt + 1)
        <3>1. CASE attempt = 0
            BY <1>0, <1>2, <3>1, BackoffDoubles DEF Elapsed
        <3>2. CASE attempt = 1
            BY <1>0, <1>2, <3>2, BackoffDoubles DEF Elapsed
        <3> QED BY <1>0, <1>2, <3>1, <3>2
    <2>3. QueryShapes'
        BY <1>0, <1>2, <2>1, <2>2 DEF QueryShapes
    <2>4. \A i \in 1..(attempt + 1) : tries'[i].at = Elapsed(i - 1) /\ tries'[i].met \in Retryable
        BY <1>0, <2>1
    <2>5. AttemptPlace'
        BY <1>0, <1>2, <2>1, <2>4 DEF AttemptPlace, Met, RetryAttempts
    <2>6. ClockPlace'
        BY <1>0, <1>2, <2>1, <2>2, <2>4 DEF ClockPlace, RetryAttempts
    <2>7. OutcomeIsEarned'
        BY <1>0, <1>2, <2>1, <2>4 DEF OutcomeIsEarned, Met, RetryAttempts
    <2> QED BY <1>0, <1>2, <2>3, <2>5, <2>6, <2>7 DEF QueryInv
<1> USE DEF End, Retry, RetryAttempts
<1>3. ASSUME NEW r \in Possible(kind), tries' = Append(tries, [met |-> "answer", at |-> now]),
             End(Decoded(kind, r)), value' = r, UNCHANGED wait
      PROVE  QueryInv'
    <2>1. outcome' \notin {"serverError", "networkError"}
        BY <1>3 DEF Decoded
    <2>2. kind = "registrations" => r \subseteq Registrations
        BY <1>3 DEF Possible, NetworkKinds
    <2> QED BY <1>1, <1>3, <2>1, <2>2
<1>4. ASSUME NEW met \in NoAnswer \ Retryable, tries' = Append(tries, [met |-> met, at |-> now]),
             End(ListCatching(Thrown(met))),
             value' = IF kind \in ListKinds THEN {} ELSE Unset, UNCHANGED wait
      PROVE  QueryInv'
    <2>1. outcome' \in {"value", "notFound", "apiError"}
        BY <1>4 DEF ListCatching, Thrown
    <2>2. outcome' = "value" => kind \in ListKinds /\ value' = {} /\ met \in {"absent", "unrouted"}
        BY <1>4 DEF ListCatching, Thrown
    <2> QED BY <1>1, <1>4, <2>1, <2>2
<1>5. ASSUME NEW m \in {"gateway", "cut"}, NEW how \in {"serverError", "networkError"},
             (how = "serverError") <=> (m = "gateway"),
             tries' = Append(tries, [met |-> m, at |-> now]), UNCHANGED value,
             \/ Retry(ListCatching(how))
             \/ signal /\ End(ListCatching(how)) /\ UNCHANGED wait
      PROVE  QueryInv'
    <2>1. ListCatching(how) = how /\ m \in Retryable /\ m \in NoAnswer
        BY <1>5 DEF ListCatching, Retryable, NoAnswer
    <2>2. CASE attempt < 2 /\ pc' = "backoff" /\ wait' = 2 ^ attempt /\ UNCHANGED outcome
        BY <1>2, <1>5, <2>1, <2>2
    <2>3. CASE pc' = "over" /\ outcome' = how /\ UNCHANGED wait /\ (signal \/ attempt = 2)
        BY <1>1, <1>5, <2>1, <2>3
    <2> QED BY <1>0, <1>5, <2>1, <2>2, <2>3
<1> QED BY <1>3, <1>4, <1>5 DEF Receive

LEMMA QueryInvStep == QueryInv /\ [Next]_vars => QueryInv'
<1> SUFFICES ASSUME QueryInv, [Next]_vars PROVE QueryInv'
    OBVIOUS
<1> USE DEF QueryInv, QueryShapes, AttemptPlace, ClockPlace, OutcomeIsEarned, Met, RetryAttempts,
            callVars, End, Elapsed
<1>1. CASE StartAttempt
    BY <1>1 DEF StartAttempt
<1>2. CASE FetchAborted
    BY <1>2 DEF FetchAborted
<1>3. CASE NextAttempt
    BY <1>3 DEF NextAttempt
<1>4. CASE Tick
    BY <1>4 DEF Tick
<1>5. CASE Abort
    BY <1>5 DEF Abort
<1>6. CASE UNCHANGED vars
    BY <1>6 DEF vars
<1> QED BY <1>1, <1>2, <1>3, <1>4, <1>5, <1>6, ReceiveKeeps DEF Next, Client

\* The invariant of the query holds of every program that makes one.
THEOREM QueryInvariant == ProgramSpec => []QueryInv
<1>1. ProgramInit => QueryInv
    BY QueryInvInit DEF ProgramInit
<1> QED BY <1>1, QueryInvStep, ProgramStepSplits, PTL DEF ProgramSpec

\* A query comes back with what its last attempt met, and gives up on an outage only
\* after three attempts spread over three units of backoff, or when it is aborted.
THEOREM OutcomesAreEarned == ProgramSpec => []OutcomeIsEarned
<1>1. QueryInv => OutcomeIsEarned
    BY DEF QueryInv
<1> QED BY <1>1, QueryInvariant, PTL

------------------------------------------------------------------------------
(* The trust set. *)

\* Two bytes, the low one first, read back as the 16-bit number they are of.
LEMMA U16OfBytes16 == \A n \in Uint16 : U16(Bytes16(n)) = n
<1> SUFFICES ASSUME NEW n \in Uint16 PROVE U16(Bytes16(n)) = n
    OBVIOUS
<1>1. n \in Nat
    <2>1. 256 * 256 - 1 \in Int
        OBVIOUS
    <2>2. \A k \in Int : 0..k \subseteq Nat
        OBVIOUS
    <2> QED BY <2>1, <2>2, Zenon DEF Uint16
<1>2. (n % 256) + 256 * (n \div 256) = n
    BY <1>1
<1> DEFINE low == n % 256  high == n \div 256
<1>3. Bytes16(n) = <<low, high>>
    BY DEF Bytes16
<1> HIDE DEF low, high
<1>4. U16(Bytes16(n)) = low + 256 * high
    BY <1>3 DEF U16
<1> QED BY <1>2, <1>4 DEF low, high

\* The two numbers read at the offsets of a version 3 quote are those of the quote.
LEMMA ReportsReadBack ==
    ASSUME NEW g \in Registrations, NEW r, r = g.enclaveReport
    PROVE  /\ r.length \in Nat
           /\ r.length >= MinQuoteSize => U16(r.version) = r.quote.version
           /\ r.length >= MinQuoteSize /\ r.quote.version = DcapV3 =>
                  U16(r.isvSvn) = r.quote.isvSvn
<1>1. /\ r.length \in Nat
      /\ r.length >= MinQuoteSize =>
             /\ r.quote.version \in Uint16 /\ r.version = Bytes16(r.quote.version)
             /\ r.quote.version = DcapV3 =>
                    r.quote.isvSvn \in Uint16 /\ r.isvSvn = Bytes16(r.quote.isvSvn)
    BY SMT, ReportsAssumption
<1>2. r.quote.version \in Uint16 => U16(Bytes16(r.quote.version)) = r.quote.version
    BY SMT, U16OfBytes16
<1>3. r.quote.isvSvn \in Uint16 => U16(Bytes16(r.quote.isvSvn)) = r.quote.isvSvn
    BY SMT, U16OfBytes16
<1> QED BY SMT, <1>1, <1>2, <1>3

\* A registered report attests just when its quote is what the caller asks for.
LEMMA AttestedReports ==
    ASSUME NEW g \in Registrations, NEW c
    PROVE  VerifyAttestation(g.enclaveReport, c) <=>
               /\ g.enclaveReport.length >= MinQuoteSize
               /\ g.enclaveReport.quote.version = DcapV3
               /\ c.expectedMrEnclave # Unset =>
                      g.enclaveReport.mrEnclave = c.expectedMrEnclave
               /\ c.expectedMrSigner # Unset =>
                      g.enclaveReport.mrSigner = c.expectedMrSigner
               /\ c.minSecurityVersion # Unset =>
                      g.enclaveReport.quote.isvSvn >= c.minSecurityVersion
<1> DEFINE r == g.enclaveReport
<1>1. /\ r.length \in Nat
      /\ r.length >= MinQuoteSize => U16(r.version) = r.quote.version
      /\ r.length >= MinQuoteSize /\ r.quote.version = DcapV3 => U16(r.isvSvn) = r.quote.isvSvn
    BY SMT, ReportsReadBack
<1> HIDE DEF r
<1>2. r.length >= MinQuoteSize => r.length # 0
    BY SMT, <1>1 DEF MinQuoteSize
<1>3. VerifyAttestation(r, c) <=>
          /\ r.length >= MinQuoteSize
          /\ r.quote.version = DcapV3
          /\ c.expectedMrEnclave # Unset => r.mrEnclave = c.expectedMrEnclave
          /\ c.expectedMrSigner # Unset => r.mrSigner = c.expectedMrSigner
          /\ c.minSecurityVersion # Unset => r.quote.isvSvn >= c.minSecurityVersion
    BY SMT, <1>1, <1>2 DEF VerifyAttestation, Parses
<1> QED BY <1>3 DEF r

\* Of the registrations a query returns, those are trusted that are finalized and whose
\* quotes are what the caller asks for, byte order and layout included.
THEOREM TrustIsAttested == ProgramSpec => []TrustIsEarned
<1>1. ASSUME QueryInv PROVE TrustIsEarned
    <2>1. kind = "registrations" /\ outcome = "value" => value \subseteq Registrations
        BY <1>1 DEF QueryInv
    <2> QED BY SMT, <2>1, AttestedReports
               DEF TrustIsEarned, TrustSet, StatusFinalized, MinQuoteSize, DcapV3
<1> QED BY <1>1, QueryInvariant, PTL

------------------------------------------------------------------------------
(* The programs: where their steps stand, and their inductive invariant. *)

\* The place of the step "config".
ConfigAt(p) == IF p \in Cli THEN 2 ELSE 1

\* What the places of the steps say of the programs.
LEMMA StepFacts ==
    ASSUME NEW p \in Commands
    PROVE  /\ Len(Steps(p)) \in Nat /\ 1 <= Len(Steps(p))
           /\ \A i \in 1..Len(Steps(p)) :
                  /\ Steps(p)[i] \in {"upload", "access"} => RequiresWallet(p) /\ i > ConfigAt(p)
                  /\ Steps(p)[i] = "number" => p \notin Cli
                  /\ Steps(p)[i] = "verify" <=>
                         p \in {"e2e-demo", "smoke"} /\ i = Len(Steps(p))
                  /\ Steps(p)[i] = "fund" <=> p = "smoke" /\ i = 4
                  /\ Steps(p)[i] = "config" <=> i = ConfigAt(p)
<1> USE DEF Steps, Commands, Examples, Cli, UploadCommand, AccessCommand, VaultCommand, ReadCommand,
            RoundCommand, UploadExample, AccessExample, StateExample, E2eDemo, SmokeTest
<1>1. Len(Steps(p)) \in Nat /\ 1 <= Len(Steps(p))
    <2> DEFINE n == Len(Steps(p))
    <2>1. n \in 3..9
        OBVIOUS
    <2> HIDE DEF n, Steps, Commands, Cli
    <2>2. n \in Nat /\ 1 <= n
        BY <2>1
    <2> QED BY <2>2 DEF n
<1> SUFFICES ASSUME NEW i \in 1..Len(Steps(p))
             PROVE  /\ Steps(p)[i] \in {"upload", "access"} => RequiresWallet(p) /\ i > ConfigAt(p)
                    /\ Steps(p)[i] = "number" => p \notin Cli
                    /\ Steps(p)[i] = "verify" <=>
                           p \in {"e2e-demo", "smoke"} /\ i = Len(Steps(p))
                    /\ Steps(p)[i] = "fund" <=> p = "smoke" /\ i = 4
                    /\ Steps(p)[i] = "config" <=> i = ConfigAt(p)
    BY <1>1
<1>2. Steps(p)[i] \in {"upload", "access"} => RequiresWallet(p) /\ i > ConfigAt(p)
    BY DEF RequiresWallet, ConfigAt
<1>3. Steps(p)[i] = "number" => p \notin Cli
    OBVIOUS
<1>4. Steps(p)[i] = "verify" => p \in {"e2e-demo", "smoke"} /\ i = Len(Steps(p))
    OBVIOUS
<1>5. p \in {"e2e-demo", "smoke"} /\ i = Len(Steps(p)) => Steps(p)[i] = "verify"
    <2>1. p = "e2e-demo" => Len(Steps(p)) = 6 /\ Steps(p)[6] = "verify"
        OBVIOUS
    <2>2. p = "smoke" => Len(Steps(p)) = 9 /\ Steps(p)[9] = "verify"
        OBVIOUS
    <2> HIDE DEF Steps, Commands, Cli
    <2> QED BY <2>1, <2>2
<1>6. Steps(p)[i] = "fund" => p = "smoke" /\ i = 4
    OBVIOUS
<1>7. p = "smoke" /\ i = 4 => Steps(p)[i] = "fund"
    OBVIOUS
<1>8. Steps(p)[i] = "config" <=> i = ConfigAt(p)
    BY DEF ConfigAt
<1> HIDE DEF Steps, Commands, Cli
<1> QED BY <1>2, <1>3, <1>4, <1>5, <1>6, <1>7, <1>8

Statuses == [file : BOOLEAN, outcome : {"pending", "success", "failure"}, fundTx : BOOLEAN,
             refundTx : BOOLEAN, refundError : BOOLEAN]

ProgramShapes ==
    /\ program \in Commands \cup {"suite", "application"}
    /\ program \in Commands => at \in 1..Len(Steps(program))
    /\ program \notin Commands => mode = "run"
    /\ mode \in {"run", "finally", "exited"}
    /\ sub \in {"rich", "poor"} /\ transfer \in {"none", "sent", "mined"}
    /\ status \in Statuses

\* The step "config" refuses to go on without the wallet a later one needs.
WalletPlace ==
    program \in Commands /\ RequiresWallet(program) /\ at > ConfigAt(program) => wallet

\* An error is reported when it ends the run, and nothing but success is pending then.
ExitPlace ==
    /\ mode = "run" => exit = NoCode /\ said.why = "none" /\ status.outcome = "pending"
    /\ mode = "finally" =>
           /\ exit = NoCode /\ program = "smoke"
           /\ said.why = "none" => recovered = "right"
           /\ said.why = "none" <=> status.outcome = "success"
    /\ mode = "exited" =>
           /\ exit = 0 <=> said.why = "none"
           /\ said.why = "none" /\ program \in {"e2e-demo", "smoke"} => recovered = "right"
    /\ said.why # "WalletClientRequired"
    /\ said.why \notin {"none", "usage"} => said.json = json
    /\ program \in Cli => asked # "other"

\* Money is where a mined transfer put it, and a refund has taken it away.
SubwalletPlace ==
    /\ sub = "rich" => transfer = "mined"
    /\ program # "smoke" \/ (mode = "run" /\ at <= 4) => transfer = "none"
    /\ status.refundTx \/ status.refundError => mode = "exited"
    /\ status.refundTx => sub = "poor" /\ transfer = "mined"
    /\ status.file => mode = "exited" /\ (exit = 0 <=> status.outcome = "success")

ProgramsInv == ProgramShapes /\ WalletPlace /\ ExitPlace /\ SubwalletPlace

------------------------------------------------------------------------------
LEMMA NoCodeIsNone == NoCode # 0 /\ NoCode # 1 /\ NoCode # 2
BY SMT DEF NoCode

LEMMA ProgramsInvInit == ProgramInit => ProgramsInv
<1> SUFFICES ASSUME ProgramInit PROVE ProgramsInv
    OBVIOUS
<1>1. /\ program \in Commands \cup {"suite", "application"} /\ at = 1 /\ mode = "run"
      /\ asked = "none" /\ recovered = "none" /\ said.why = "none" /\ exit = NoCode
      /\ sub = "poor" /\ transfer = "none" /\ status = NoStatus
    BY DEF ProgramInit
<1>2. status \in Statuses /\ ~status.refundTx /\ ~status.refundError /\ ~status.file
      /\ status.outcome = "pending"
    BY <1>1 DEF Statuses, NoStatus
<1>3. ProgramShapes
    <2>1. program \in Commands => Len(Steps(program)) \in Nat /\ 1 <= Len(Steps(program))
        BY StepFacts
    <2>2. program \in Commands => at \in 1..Len(Steps(program))
        BY <1>1, <2>1
    <2> QED BY <1>1, <1>2, <2>2 DEF ProgramShapes
<1>4. WalletPlace
    BY <1>1 DEF WalletPlace, ConfigAt
<1>5. ExitPlace
    BY <1>1, <1>2 DEF ExitPlace
<1>6. SubwalletPlace
    BY <1>1, <1>2 DEF SubwalletPlace
<1> QED BY <1>3, <1>4, <1>5, <1>6 DEF ProgramsInv

\* The program goes on: it has not failed, and at its end it has done what it was for.
LEMMA GoOnKeeps ==
    ASSUME ProgramsInv, program \in Commands, mode = "run", GoOn, Kept,
           at = ConfigAt(program) /\ RequiresWallet(program) => wallet,
           program \in Cli => asked' # "other",
           sub' \in {sub, "poor"} \/ (sub' = "rich" /\ transfer' = "mined"),
           transfer' = transfer \/ (program = "smoke" /\ at = 4 /\ transfer' = "mined"),
           status' \in Statuses, status'.refundTx = status.refundTx,
           status'.refundError = status.refundError, status'.file = status.file,
           status'.outcome = IF program = "smoke" /\ at = Len(Steps(program))
                             THEN "success" ELSE "pending",
           program \in {"e2e-demo", "smoke"} /\ at = Len(Steps(program)) => recovered' = "right"
    PROVE  ProgramsInv'
<1>0. at \in 1..Len(Steps(program)) /\ Len(Steps(program)) \in Nat
    BY StepFacts DEF ProgramsInv, ProgramShapes
<1>1. /\ at \in 1..Len(Steps(program))
      /\ exit = NoCode /\ said.why = "none" /\ ~status.refundTx /\ ~status.refundError /\ ~status.file
      /\ UNCHANGED <<said, program, json, wallet>>
    BY <1>0 DEF ProgramsInv, ProgramShapes, ExitPlace, SubwalletPlace, GoOn, Kept
<1>2. program = "smoke" => program \notin Cli
    BY DEF Cli
<1>3. ProgramShapes'
    <2>1. /\ at' \in 1..Len(Steps(program))
          /\ mode' \in {"run", "finally", "exited"}
        <3>1. CASE at = Len(Steps(program))
            BY <1>0, <3>1 DEF GoOn
        <3>2. CASE at # Len(Steps(program))
            <4>1. at' = at + 1 /\ mode' = mode
                BY <3>2 DEF GoOn
            <4>2. at + 1 \in 1..Len(Steps(program))
                BY <1>0, <3>2
            <4> QED BY <4>1, <4>2
        <3> QED BY <3>1, <3>2
    <2>2. sub' \in {"rich", "poor"} /\ transfer' \in {"none", "sent", "mined"}
        BY DEF ProgramsInv, ProgramShapes
    <2> QED BY <1>1, <2>1, <2>2 DEF ProgramShapes
<1>4. WalletPlace'
    <2>1. at \in Nat /\ ConfigAt(program) \in {1, 2} /\ (at' = at \/ at' = at + 1)
        BY <1>0 DEF GoOn, ConfigAt
    <2>2. at' > ConfigAt(program) => at = ConfigAt(program) \/ at > ConfigAt(program)
        BY <2>1
    <2> QED BY <1>1, <2>2 DEF ProgramsInv, WalletPlace, ConfigAt
<1>5. ExitPlace'
    BY <1>1, NoCodeIsNone DEF ProgramsInv, ExitPlace, GoOn
<1>6. SubwalletPlace'
    BY <1>1 DEF ProgramsInv, ProgramShapes, SubwalletPlace, GoOn
<1> QED BY <1>3, <1>4, <1>5, <1>6 DEF ProgramsInv

\* The program ends with an error, which it reports.
LEMMA FailureKeeps ==
    ASSUME ProgramsInv, program \in Commands, mode = "run", NEW why,
           why \notin {"none", "usage", "WalletClientRequired"}, Refuse(why) \/ Throw(why), Kept,
           program \in Cli => asked' # "other",
           sub' \in {sub, "poor"},
           transfer' = transfer \/ (program = "smoke" /\ at = 4 /\ transfer' \in {"none", "sent"}),
           status' = status
    PROVE  ProgramsInv'
<1>1. /\ exit = NoCode /\ said.why = "none" /\ ~status.refundTx /\ ~status.refundError /\ ~status.file
      /\ status.outcome = "pending"
      /\ UNCHANGED <<at, program, json, wallet>>
    BY DEF ProgramsInv, ProgramShapes, ExitPlace, SubwalletPlace, Refuse, Throw, Kept
<1>2. said'.why = why /\ said'.json = json
    <2>1. said' = [why |-> why, json |-> json]
        BY DEF Refuse, Throw, SayError
    <2> QED BY <2>1
<1>3. \/ mode' = "exited" /\ exit' \in {1, 2}
      \/ mode' = "finally" /\ program = "smoke" /\ exit' = NoCode
    BY <1>1 DEF Refuse, Throw
<1>4. ProgramShapes'
    BY <1>1, <1>3 DEF ProgramsInv, ProgramShapes
<1>5. WalletPlace'
    BY <1>1 DEF ProgramsInv, WalletPlace, ConfigAt
<1>6. ExitPlace'
    BY <1>1, <1>2, <1>3, NoCodeIsNone DEF ProgramsInv, ExitPlace
<1>7. SubwalletPlace'
    BY <1>1, <1>3 DEF ProgramsInv, ProgramShapes, SubwalletPlace
<1> QED BY <1>4, <1>5, <1>6, <1>7 DEF ProgramsInv

\* Where a program stands at a step.
LEMMA StandsAt ==
    ASSUME ProgramsInv, NEW steps, Stands(steps)
    PROVE  /\ program \in Commands /\ mode = "run" /\ Steps(program)[at] \in steps
           /\ at \in 1..Len(Steps(program)) /\ status \in Statuses /\ status.outcome = "pending"
           /\ sub \in {"rich", "poor"} /\ (program \in Cli => asked # "other")
BY DEF ProgramsInv, ProgramShapes, ExitPlace, Stands

\* A step that changes nothing of the subwallet, and is no one's last with a key to compare.
LEMMA PlainStepKeeps ==
    ASSUME ProgramsInv, NEW steps, Stands(steps), "verify" \notin steps,
           \/ GoOn /\ ("config" \in steps /\ RequiresWallet(program) => wallet)
           \/ \E why \in {"missing", "invalid", "error"} : Refuse(why) \/ Throw(why),
           Kept, program \in Cli => asked' # "other",
           sub' \in {sub, "poor"}, UNCHANGED <<transfer, status>>
    PROVE  ProgramsInv'
<1>1. /\ program \in Commands /\ mode = "run" /\ Steps(program)[at] \in steps
      /\ at \in 1..Len(Steps(program)) /\ status \in Statuses /\ status.outcome = "pending"
    BY StandsAt
<1>2. ~(program \in {"e2e-demo", "smoke"} /\ at = Len(Steps(program)))
    BY <1>1, StepFacts
<1>3. at = ConfigAt(program) => "config" \in steps
    BY <1>1, StepFacts
<1>4. /\ status' = status /\ transfer' = transfer
      /\ status'.outcome = IF program = "smoke" /\ at = Len(Steps(program))
                            THEN "success" ELSE "pending"
    BY <1>1, <1>2
<1>5. ASSUME GoOn, "config" \in steps /\ RequiresWallet(program) => wallet
      PROVE  ProgramsInv'
    <2>1. at = ConfigAt(program) /\ RequiresWallet(program) => wallet
        BY <1>3, <1>5
    <2> QED BY <1>1, <1>2, <1>4, <1>5, <2>1, GoOnKeeps
<1>6. ASSUME NEW why \in {"missing", "invalid", "error"}, Refuse(why) \/ Throw(why)
      PROVE  ProgramsInv'
    <2>1. why \notin {"none", "usage", "WalletClientRequired"}
        OBVIOUS
    <2> QED BY <1>1, <1>4, <1>6, <2>1, FailureKeeps
<1> QED BY <1>5, <1>6

LEMMA ProgramsInvStep == ProgramsInv /\ [ProgramNext]_allVars => ProgramsInv'
<1> SUFFICES ASSUME ProgramsInv, [ProgramNext]_allVars PROVE ProgramsInv'
    OBVIOUS
<1> USE DEF smokeVars
<1>1. CASE ResolveConfig
    <2>1. Stands({"config"}) /\ Kept /\ UNCHANGED <<asked, sub, transfer, status>>
        BY <1>1 DEF ResolveConfig
    <2>2. \/ GoOn /\ (RequiresWallet(program) => wallet)
          \/ Refuse("missing")
        BY <1>1 DEF ResolveConfig
    <2> QED BY <2>1, <2>2, PlainStepKeeps, StandsAt
<1>2. CASE ParseUuid
    <2>1. program \in Cli => asked' # "other"
        BY <1>2, StandsAt DEF ParseUuid, Meant, WholeNumber
    <2> QED BY <1>2, <2>1, PlainStepKeeps DEF ParseUuid
<1>3. CASE ParseNumber
    <2>1. program \notin Cli /\ program \in Commands /\ mode = "run"
        BY <1>3, StepFacts, StandsAt DEF ParseNumber
    <2>2. CASE GoOn
        BY <1>3, <2>1, <2>2, PlainStepKeeps DEF ParseNumber
    <2>3. CASE program = "query-dkg-state" /\ mode' = "exited" /\ exit' = 0
               /\ UNCHANGED <<at, said, asked>>
        BY <1>3, <2>1, <2>3, NoCodeIsNone
           DEF ParseNumber, Kept, ProgramsInv, ProgramShapes, WalletPlace, ExitPlace,
               SubwalletPlace
    <2> QED BY <1>3, <2>2, <2>3 DEF ParseNumber
<1>4. CASE ParseTimeout
    BY <1>4, PlainStepKeeps, StandsAt DEF ParseTimeout
<1>5. CASE Build
    BY <1>5, PlainStepKeeps, StandsAt DEF Build
<1>6. CASE ReadChain
    BY <1>6, PlainStepKeeps, StandsAt DEF ReadChain
<1>7. CASE Deploy
    BY <1>7, PlainStepKeeps, StandsAt DEF Deploy
<1>8. CASE Output
    BY <1>8, PlainStepKeeps, StandsAt DEF Output
<1>9. CASE Upload \/ Access
    <2>1. PICK steps \in {{"upload"}, {"access"}} : Stands(steps)
        BY <1>9 DEF Upload, Access
    <2>2. wallet
        BY <2>1, StepFacts, StandsAt DEF ProgramsInv, WalletPlace
    <2> QED BY <1>9, <2>1, <2>2, PlainStepKeeps, StandsAt DEF Upload, Access
<1>10. CASE QueryOver
    BY <1>10, PlainStepKeeps, StandsAt DEF QueryOver
<1>11. CASE Verify
    <2>1. /\ program \in {"e2e-demo", "smoke"} /\ at = Len(Steps(program)) /\ at # ConfigAt(program)
          /\ program \in Commands /\ mode = "run" /\ status \in Statuses
          /\ status.outcome = "pending" /\ (program \in Cli => asked # "other")
        BY <1>11, StepFacts, StandsAt DEF Verify
    <2>2. CASE recovered = "right"
        <3>1. /\ status' \in Statuses /\ status'.refundTx = status.refundTx
              /\ status'.refundError = status.refundError /\ status'.file = status.file
              /\ status'.outcome = IF program = "smoke" /\ at = Len(Steps(program))
                                    THEN "success" ELSE "pending"
            BY <1>11, <2>1, <2>2 DEF Verify, Statuses
        <3>2. GoOn /\ Kept /\ recovered' = "right" /\ UNCHANGED <<asked, sub, transfer>>
            BY <1>11, <2>2 DEF Verify
        <3> QED BY <2>1, <3>1, <3>2, GoOnKeeps
    <2>3. CASE recovered # "right"
        <3>1. /\ Throw("mismatch") /\ Kept /\ status' = status
              /\ UNCHANGED <<asked, sub, transfer>>
            BY <1>11, <2>3 DEF Verify
        <3> QED BY <2>1, <3>1, FailureKeeps
    <2> QED BY <2>2, <2>3
<1>12. CASE Fund
    <2>1. /\ program = "smoke" /\ at = 4 /\ at # Len(Steps(program)) /\ at # ConfigAt(program)
          /\ program \in Commands /\ mode = "run" /\ status \in Statuses
          /\ status.outcome = "pending" /\ (program \in Cli => asked # "other")
        BY <1>12, StepFacts, StandsAt DEF Fund
    <2>2. CASE GoOn /\ transfer' = "mined" /\ sub' = "rich"
               /\ status' = [status EXCEPT !.fundTx = TRUE]
        <3>1. /\ status' \in Statuses /\ status'.refundTx = status.refundTx
              /\ status'.refundError = status.refundError /\ status'.file = status.file
              /\ status'.outcome = "pending"
            BY <2>1, <2>2 DEF Statuses
        <3> QED BY <1>12, <2>1, <2>2, <3>1, GoOnKeeps DEF Fund
    <2>3. CASE Throw("error") /\ transfer' \in {"none", "sent"} /\ UNCHANGED <<sub, status>>
        BY <1>12, <2>1, <2>3, FailureKeeps DEF Fund
    <2> QED BY <1>12, <2>2, <2>3 DEF Fund
<1>13. CASE TransferLands
    BY <1>13 DEF TransferLands, progVars, ProgramsInv, ProgramShapes, WalletPlace, ExitPlace,
                 SubwalletPlace
<1>14. CASE Finally
    <2>1. PICK filed \in BOOLEAN,
               swept \in {status, [status EXCEPT !.refundTx = TRUE]} \cup SweepFails :
               /\ swept.refundTx /\ ~swept.refundError => sub = "rich" /\ sub' = "poor"
               /\ swept = status => sub' = sub
               /\ swept.refundError => sub' \in {sub, "poor"}
               /\ status' = [swept EXCEPT !.file = filed,
                                 !.outcome = IF status.outcome = "success"
                                             THEN "success" ELSE "failure"]
               /\ exit' = IF (IF status.outcome = "success" THEN "success" ELSE "failure")
                             = "success" THEN 0 ELSE 1
        BY <1>14 DEF Finally
    <2>2. /\ program = "smoke" /\ exit = NoCode /\ status \in Statuses /\ ~status.refundTx
          /\ ~status.refundError /\ ~status.file /\ mode' = "exited" /\ (said.why = "none" => recovered = "right")
          /\ (said.why = "none" <=> status.outcome = "success")
          /\ UNCHANGED <<program, json, typed, wallet, at, asked, recovered, said, transfer>>
        BY <1>14 DEF Finally, Kept, ProgramsInv, ProgramShapes, ExitPlace, SubwalletPlace
    <2>3. /\ swept \in Statuses
          /\ swept.refundTx => ~swept.refundError
        BY <2>2 DEF Statuses, SweepFails
    <2>4. /\ status' \in Statuses /\ status'.refundTx = swept.refundTx
          /\ status'.outcome = IF status.outcome = "success" THEN "success" ELSE "failure"
        BY <2>1, <2>3 DEF Statuses
    <2>5. /\ exit' = IF status.outcome = "success" THEN 0 ELSE 1
          /\ sub' \in {sub, "poor"}
          /\ status'.refundTx => sub = "rich" /\ sub' = "poor"
        BY <2>1, <2>2, <2>3, <2>4 DEF SweepFails, Statuses
    <2>6. ProgramShapes' /\ WalletPlace'
        BY <2>2, <2>4, <2>5 DEF ProgramsInv, ProgramShapes, WalletPlace
    <2>7. ExitPlace'
        BY <2>2, <2>5 DEF ProgramsInv, ExitPlace
    <2>8. SubwalletPlace'
        BY <2>2, <2>4, <2>5 DEF ProgramsInv, SubwalletPlace
    <2> QED BY <2>6, <2>7, <2>8 DEF ProgramsInv
<1>15. CASE Query \/ Application \/ Suite \/ UNCHANGED allVars
    BY <1>15 DEF Query, Application, Suite, allVars, progVars, ProgramsInv, ProgramShapes,
                 WalletPlace, ExitPlace, SubwalletPlace
<1>16. CASE ParseArguments
    <2>1. Stands({"arguments"}) /\ Kept /\ UNCHANGED <<asked, sub, transfer, status>>
        BY <1>16 DEF ParseArguments
    <2>2. CASE GoOn
        BY <2>1, <2>2, PlainStepKeeps, StandsAt
    <2>3. CASE said' = [why |-> "usage", json |-> FALSE] /\ exit' = 1 /\ mode' = "exited"
               /\ UNCHANGED at
        BY <1>16, <2>1, <2>3, NoCodeIsNone
           DEF Kept, Stands, ProgramsInv, ProgramShapes, WalletPlace, ExitPlace, SubwalletPlace,
               ConfigAt
    <2> QED BY <1>16, <2>2, <2>3 DEF ParseArguments
<1> QED BY <1>1, <1>2, <1>3, <1>4, <1>5, <1>6, <1>7, <1>8, <1>9, <1>10, <1>11, <1>12, <1>13,
           <1>14, <1>15, <1>16 DEF ProgramNext

\* The invariant of the programs holds of every reachable state.
THEOREM ProgramsInvariant == ProgramSpec => []ProgramsInv
BY ProgramsInvInit, ProgramsInvStep, PTL DEF ProgramSpec

\* A command exits with 0 just when all its steps were made and the key it compares was
\* the uploaded one; otherwise it has said why, in the format asked for (in plain text where
\* commander refused the command line), and never that it has no wallet; and cdr-cli turns
\* to no other vault than the one typed.
THEOREM ExitsAreExplained == ProgramSpec => []EveryExitIsExplained
<1>1. ProgramsInv => EveryExitIsExplained
    BY NoCodeIsNone DEF ProgramsInv, ProgramShapes, ExitPlace, EveryExitIsExplained
<1> QED BY <1>1, ProgramsInvariant, PTL

\* Whatever the last sweep meets, status.json agrees with the exit code and never calls a
\* subwallet refunded that still holds its funds.
THEOREM StrandedMoneyShows == ProgramSpec => []StrandedIsVisible
<1>1. ProgramsInv => StrandedIsVisible
    BY DEF ProgramsInv, SubwalletPlace, StrandedIsVisible
<1> QED BY <1>1, ProgramsInvariant, PTL
------------------------------------------------------------------------------
(* The suite: its inductive invariant. *)

\* A wallet's cycle is running, woken, waiting or over, and waits but once.
PoolPlace ==
    /\ running \subseteq W /\ woken \subseteq W /\ queue \in Seq(W)
    /\ running \cap woken = {}
    /\ \A i \in 1..Len(queue) : queue[i] \notin running /\ queue[i] \notin woken
    /\ \A i, j \in 1..Len(queue) : queue[i] = queue[j] => i = j

\* A cycle is funded before it is tried, and tried three times at most.
TriesPlace ==
    /\ tried \in [W -> 0..3]
    /\ stage = "fund" \/ funding \in {"none", "sent"} =>
           /\ active = 0 /\ running = {} /\ woken = {} /\ queue = <<>>
           /\ \A w \in W : tried[w] = 0
    /\ \A w \in running : tried[w] < 3
    /\ \A w \in woken : tried[w] = 0
    /\ \A i \in 1..Len(queue) : tried[queue[i]] = 0

\* What n attempts take out of a wallet at most, at the fee they were funded for.
Spent(n) ==
    IF n = 0 THEN 0
    ELSE IF n = 1 THEN 3 * (TxFee + TxGas)
    ELSE IF n = 2 THEN 6 * (TxFee + TxGas) ELSE 9 * (TxFee + TxGas)

FundShapes ==
    /\ funding \in {"none", "sent", "mined", "reverted"}
    /\ fee \in Nat /\ raised \in BOOLEAN
    /\ balance \in [W -> Nat]
    /\ sweep \in [W -> [is : {"none", "send", "swept", "failed", "pending"}, amount : Nat]]
    /\ result \in [W -> {"none", "fulfilled", "failed", "short"}]

\* What a funded wallet has paid it has paid for attempts, until it is swept.
FundPlace ==
    ~raised =>
        /\ fee = TxFee
        /\ \A w \in W : funding = "mined" /\ sweep[w].is = "none" =>
               balance[w] + Spent(tried[w]) >= PerWalletFund(TxFee)

SuiteInv ==
    /\ PoolPlace /\ PoolIsTight
    /\ TriesPlace
    /\ FundShapes /\ FundPlace /\ FundsCoverRetries

------------------------------------------------------------------------------
\* The wallets are finitely many and all different.
LEMMA WalletFacts ==
    /\ Wallets \in Seq(W) /\ N \in Nat \ {0} /\ DOMAIN Wallets = 1..N
    /\ W = {Wallets[i] : i \in 1..N}
    /\ \A i, j \in 1..N : Wallets[i] = Wallets[j] => i = j
    /\ IsFiniteSet(W)
<1>1. Wallets \in Seq(ToSet(Wallets)) /\ IsInjective(Wallets) /\ Wallets # <<>>
    BY EphemeralWalletsAssumption
<1>2. N \in Nat \ {0} /\ DOMAIN Wallets = 1..N /\ Wallets \in Seq(W)
    BY <1>1 DEF W, N
<1>3. W = {Wallets[i] : i \in 1..N}
    BY <1>2 DEF W, ToSet
<1>4. \A i, j \in 1..N : Wallets[i] = Wallets[j] => i = j
    BY <1>1, <1>2 DEF IsInjective
<1>5. IsFiniteSet(1..N)
    BY <1>2, FS_Interval
<1>6. Wallets \in Surjection(1..N, W)
    BY <1>2, <1>3 DEF Surjection
<1>7. IsFiniteSet(W)
    BY <1>5, <1>6, FS_Surjection
<1> QED BY <1>2, <1>3, <1>4, <1>7

LEMMA PoolSizes ==
    ASSUME PoolPlace
    PROVE  /\ IsFiniteSet(running) /\ Cardinality(running) \in Nat
           /\ IsFiniteSet(woken) /\ Cardinality(woken) \in Nat
BY WalletFacts, FS_Subset, FS_CardinalityType DEF PoolPlace

\* The first wallets enter the pool, the others queue.
LEMMA FundedFillsPool ==
    ASSUME woken = {}, NEW first \in Nat, first = IF MaxInflight < N THEN MaxInflight ELSE N,
           active' = first, running' = {Wallets[i] : i \in 1..first},
           queue' = SubSeq(Wallets, first + 1, N), woken' = woken
    PROVE  PoolPlace' /\ PoolIsTight'
<1>1. /\ first <= N /\ N \in Nat /\ MaxInflight \in Nat /\ first <= MaxInflight
      /\ first < N => first = MaxInflight
    BY WalletFacts, EphemeralWalletsAssumption
<1>2. \A i \in (first + 1)..N : Wallets[i] \in W
    BY <1>1, WalletFacts
<1>3. /\ queue' \in Seq(W)
      /\ Len(queue') = IF first + 1 <= N THEN N - (first + 1) + 1 ELSE 0
      /\ \A i \in 1..(N - (first + 1) + 1) : queue'[i] = Wallets[(first + 1) + i - 1]
    BY <1>1, <1>2
<1>4. Len(queue') = N - first /\ \A i \in 1..Len(queue') : queue'[i] = Wallets[first + i]
    <2>1. Len(queue') = N - first
        BY <1>1, <1>3
    <2> SUFFICES ASSUME NEW i \in 1..Len(queue') PROVE queue'[i] = Wallets[first + i]
        BY <2>1
    <2>2. i \in 1..(N - (first + 1) + 1) /\ (first + 1) + i - 1 = first + i
        BY <1>1, <2>1
    <2>3. queue'[i] = Wallets[(first + 1) + i - 1]
        BY <1>3, <2>2
    <2> QED BY <2>2, <2>3
<1>5. running' \subseteq W
    BY <1>1, WalletFacts
<1>6. \A i \in 1..Len(queue') : first + i \in 1..N /\ first + i > first
    BY <1>1, <1>4
<1>7. \A i \in 1..Len(queue') : queue'[i] \notin running'
    <2> SUFFICES ASSUME NEW i \in 1..Len(queue'), NEW j \in 1..first, queue'[i] = Wallets[j]
                 PROVE  FALSE
        OBVIOUS
    <2>1. queue'[i] = Wallets[first + i] /\ first + i \in 1..N /\ first + i > first /\ j \in 1..N
        BY <1>1, <1>4, <1>6
    <2>2. first + i = j
        BY <2>1, WalletFacts
    <2> QED BY <1>1, <2>1, <2>2
<1>8. \A i, j \in 1..Len(queue') : queue'[i] = queue'[j] => i = j
    BY <1>1, <1>4, <1>6, WalletFacts
<1>9. PoolPlace'
    BY <1>3, <1>5, <1>7, <1>8 DEF PoolPlace
<1>10. Cardinality(running') = first
    <2> DEFINE f == [i \in 1..first |-> Wallets[i]]
    <2>1. f \in Bijection(1..first, running')
        BY <1>1, WalletFacts DEF Bijection, Injection, Surjection, IsInjective
    <2>2. ExistsBijection(1..first, running')
        BY <2>1 DEF ExistsBijection
    <2> QED BY <2>2, FS_CountingElements
<1>11. Cardinality(woken') = 0
    BY FS_EmptySet
<1>12. queue' # <<>> => first < N
    BY <1>1, <1>4, <1>3
<1> QED BY <1>1, <1>9, <1>10, <1>11, <1>12 DEF PoolIsTight

\* A cycle ends: the next waiter is woken, or the pool has a slot too many.
LEMMA ReleaseKeepsPool ==
    ASSUME PoolPlace, PoolIsTight, NEW w \in running, NEW how, Release(w, how)
    PROVE  PoolPlace' /\ PoolIsTight'
<1>1. /\ running' = running \ {w} /\ active' = active - 1
      /\ Cardinality(running') = Cardinality(running) - 1
    BY PoolSizes, FS_RemoveElement DEF Release
<1>2. CASE queue # <<>>
    <2>1. /\ queue' = Tail(queue) /\ woken' = woken \cup {Head(queue)} /\ queue \in Seq(W)
          /\ Len(queue) \in Nat /\ Len(queue) > 0 /\ Head(queue) = queue[1]
        BY <1>2 DEF Release, PoolPlace
    <2>2. /\ Head(queue) \in W /\ queue' \in Seq(W) /\ Len(queue') = Len(queue) - 1
          /\ \A i \in 1..Len(queue') : queue'[i] = queue[i + 1] /\ i + 1 \in 1..Len(queue)
        BY <1>2, <2>1
    <2>3. Head(queue) \notin running /\ Head(queue) \notin woken
        BY <2>1 DEF PoolPlace
    <2>4. Cardinality(woken') = Cardinality(woken) + 1
        BY <2>1, <2>3, PoolSizes, FS_AddElement
    <2>5. \A i \in 1..Len(queue') : queue'[i] # Head(queue)
        <3>1. \A i \in 1..Len(queue') : i + 1 # 1 /\ 1 \in 1..Len(queue)
            BY <2>1, <2>2
        <3> QED BY <2>1, <2>2, <3>1 DEF PoolPlace
    <2>6. \A i, j \in 1..Len(queue') : queue'[i] = queue'[j] => i = j
        <3>1. \A i, j \in 1..Len(queue') : i + 1 = j + 1 => i = j
            BY <2>1, <2>2
        <3> QED BY <2>1, <2>2, <3>1 DEF PoolPlace
    <2>7. PoolPlace'
        BY <1>1, <2>1, <2>2, <2>3, <2>5, <2>6 DEF PoolPlace
    <2> QED BY <1>1, <1>2, <2>4, <2>7, PoolSizes DEF PoolIsTight
<1>3. CASE queue = <<>>
    <2>1. queue' = queue /\ woken' = woken
        BY <1>3 DEF Release
    <2>2. PoolPlace'
        BY <1>1, <2>1 DEF PoolPlace
    <2>3. MaxInflight \in Nat
        BY EphemeralWalletsAssumption
    <2> QED BY <1>1, <1>3, <2>1, <2>2, <2>3, PoolSizes DEF PoolIsTight
<1> QED BY <1>2, <1>3

\* A woken cycle starts.
LEMMA AdmitKeepsPool ==
    ASSUME PoolPlace, PoolIsTight, NEW w \in W, Admit(w)
    PROVE  PoolPlace' /\ PoolIsTight'
<1>1. /\ w \in woken /\ w \notin running /\ woken' = woken \ {w}
      /\ running' = running \cup {w} /\ active' = active + 1 /\ queue' = queue
    BY DEF Admit, PoolPlace
<1>2. /\ Cardinality(woken') = Cardinality(woken) - 1
      /\ Cardinality(running') = Cardinality(running) + 1
    BY <1>1, PoolSizes, FS_AddElement, FS_RemoveElement
<1>3. PoolPlace'
    BY <1>1 DEF PoolPlace
<1> QED BY <1>1, <1>2, <1>3, PoolSizes DEF PoolIsTight

------------------------------------------------------------------------------
LEMMA Amounts ==
    /\ TxFee \in Nat /\ TxGas \in Nat /\ BaseGasBudget \in Nat /\ SweepGas \in Nat
    /\ Reserve \in Nat /\ MaxInflight \in Nat \ {0}
    /\ PerWalletFund(TxFee) = BaseGasBudget + 9 * TxFee
    /\ 9 * TxGas <= BaseGasBudget
<1>1. /\ TxFee \in Nat /\ TxGas \in Nat /\ BaseGasBudget \in Nat /\ SweepGas \in Nat
      /\ Reserve \in Nat /\ MaxInflight \in Nat \ {0}
    BY EphemeralWalletsAssumption
<1> QED BY <1>1, GasAssumption DEF PerWalletFund

\* What k transactions cost.
LEMMA CostOf ==
    ASSUME fee \in Nat
    PROVE  /\ Cost(1) = fee + TxGas /\ Cost(3) = 3 * (fee + TxGas)
           /\ Cost(1) \in Nat /\ Cost(3) \in Nat /\ Cost(1) <= Cost(3)
BY Amounts DEF Cost

LEMMA SuiteInvInit == SuiteInit => SuiteInv
<1> SUFFICES ASSUME SuiteInit PROVE SuiteInv
    OBVIOUS
<1> USE DEF SuiteInit
<1>1. PoolPlace
    BY DEF PoolPlace
<1>2. PoolIsTight
    BY Amounts, FS_EmptySet DEF PoolIsTight
<1>3. TriesPlace
    BY DEF TriesPlace
<1>4. FundShapes
    BY Amounts DEF FundShapes
<1>5. FundPlace /\ FundsCoverRetries
    BY DEF FundPlace, FundsCoverRetries
<1> QED BY <1>1, <1>2, <1>3, <1>4, <1>5 DEF SuiteInv

\* A wallet whose attempts are not used up can pay for another, unless it was not funded,
\* the fees rose or it was swept.
LEMMA FundSuffices ==
    ASSUME SuiteInv, NEW w \in W, tried[w] < 3, ~raised, funding = "mined",
           sweep[w].is = "none"
    PROVE  balance[w] >= Cost(3)
<1>1. /\ fee = TxFee /\ fee \in Nat /\ balance[w] \in Nat /\ tried[w] \in 0..3
      /\ balance[w] + Spent(tried[w]) >= BaseGasBudget + 9 * TxFee
    BY Amounts DEF SuiteInv, FundPlace, FundShapes, TriesPlace
<1>2. tried[w] \in {0, 1, 2}
    BY <1>1
<1>3. Spent(tried[w]) <= 6 * (TxFee + TxGas)
    BY <1>2, Amounts DEF Spent
<1>4. Spent(tried[w]) \in Nat
    BY <1>2, Amounts DEF Spent
<1> QED BY <1>1, <1>3, <1>4, Amounts, CostOf

\* One more attempt of w, which paid at most for all of it.
LEMMA AttemptKeeps ==
    ASSUME SuiteInv, NEW w \in running, tried' = [tried EXCEPT ![w] = @ + 1],
           NEW cost \in {0, Cost(1), Cost(3)}, cost <= balance[w],
           balance' = [balance EXCEPT ![w] = @ - cost],
           UNCHANGED <<stage, funding, fee, raised, sweep>>,
           PoolPlace', PoolIsTight', result' \in [W -> {"none", "fulfilled", "failed", "short"}],
           \A v \in W : result'[v] = "short" =>
               result[v] = "short" \/ (v = w /\ balance[w] < Cost(3)),
           running' \subseteq running, w \in running' => tried[w] < 2,
           woken' \cup {queue'[i] : i \in 1..Len(queue')}
               \subseteq woken \cup {queue[i] : i \in 1..Len(queue)}
    PROVE  SuiteInv'
<1>1. /\ w \in W /\ tried[w] \in 0..2 /\ tried \in [W -> 0..3] /\ balance \in [W -> Nat]
      /\ fee \in Nat /\ Cost(1) \in Nat /\ Cost(3) \in Nat /\ Cost(1) <= Cost(3)
      /\ cost \in Nat /\ cost <= Cost(3)
    <2>1. /\ w \in W /\ tried[w] \in 0..2 /\ tried \in [W -> 0..3] /\ balance \in [W -> Nat]
          /\ fee \in Nat
        BY DEF SuiteInv, PoolPlace, TriesPlace, FundShapes
    <2>2. Cost(1) \in Nat /\ Cost(3) \in Nat /\ Cost(1) <= Cost(3) /\ 0 \in Nat
        BY <2>1, CostOf
    <2> QED BY <2>1, <2>2
<1>2. /\ \A v \in W \ {w} : tried'[v] = tried[v] /\ balance'[v] = balance[v]
      /\ tried'[w] = tried[w] + 1 /\ balance'[w] = balance[w] - cost
      /\ tried' \in [W -> 0..3] /\ balance' \in [W -> Nat]
    BY <1>1
<1>3. ~(stage = "fund" \/ funding \in {"none", "sent"})
    BY DEF SuiteInv, TriesPlace
<1>4. w \notin woken \cup {queue[i] : i \in 1..Len(queue)}
    BY DEF SuiteInv, PoolPlace
<1>5. TriesPlace'
    <2>1. \A v \in running' : tried'[v] < 3
        BY <1>1, <1>2 DEF SuiteInv, TriesPlace, PoolPlace
    <2>2. \A v \in woken \cup {queue[i] : i \in 1..Len(queue)} : v \in W \ {w} /\ tried[v] = 0
        BY <1>4 DEF SuiteInv, TriesPlace, PoolPlace
    <2>3. \A v \in woken' : tried'[v] = 0
        BY <1>2, <2>2
    <2>4. \A i \in 1..Len(queue') : tried'[queue'[i]] = 0
        BY <1>2, <2>2
    <2> QED BY <1>2, <1>3, <2>1, <2>3, <2>4 DEF TriesPlace
<1>6. FundShapes'
    BY <1>1, <1>2 DEF SuiteInv, FundShapes
<1>7. FundPlace'
    <2> SUFFICES ASSUME ~raised
                 PROVE  fee' = TxFee /\ \A v \in W :
                            funding' = "mined" /\ sweep'[v].is = "none" =>
                                balance'[v] + Spent(tried'[v]) >= PerWalletFund(TxFee)
        BY DEF FundPlace
    <2>1. fee = TxFee /\ Cost(3) = 3 * (TxFee + TxGas)
        BY <1>1, CostOf DEF SuiteInv, FundPlace
    <2>2. Spent(tried[w] + 1) = Spent(tried[w]) + 3 * (TxFee + TxGas) /\ Spent(tried[w]) \in Nat
        <3>1. tried[w] \in {0, 1, 2}
            BY <1>1
        <3> QED BY <3>1, Amounts DEF Spent
    <2>3. balance'[w] + Spent(tried'[w]) >= balance[w] + Spent(tried[w])
        <3> DEFINE spent == Spent(tried[w])
                   whole == 3 * (TxFee + TxGas)
        <3>1. Spent(tried'[w]) = spent + whole /\ spent \in Nat /\ whole \in Nat
            BY <1>2, <2>2, Amounts
        <3>2. balance'[w] = balance[w] - cost /\ cost <= whole /\ cost \in Nat
              /\ balance[w] \in Nat
            BY <1>1, <1>2, <2>1
        <3> HIDE DEF spent, whole
        <3>3. (balance[w] - cost) + (spent + whole) >= balance[w] + spent
            BY <3>1, <3>2
        <3> QED BY <3>1, <3>2, <3>3 DEF spent
    <2>4. funding = "mined" /\ sweep[w].is = "none" =>
              balance[w] + Spent(tried[w]) >= PerWalletFund(TxFee)
        BY <1>1 DEF SuiteInv, FundPlace
    <2>5. funding = "mined" /\ sweep[w].is = "none" =>
              balance'[w] + Spent(tried'[w]) >= PerWalletFund(TxFee)
        BY <1>1, <1>2, <2>2, <2>3, <2>4, Amounts
    <2> QED BY <1>2, <2>1, <2>5 DEF SuiteInv, FundPlace
<1>8. FundsCoverRetries'
    <2>1. ~raised /\ funding = "mined" /\ sweep[w].is = "none" => ~(balance[w] < Cost(3))
        BY <1>1, FundSuffices
    <2>2. funding \in {"mined", "reverted"}
        BY <1>3 DEF SuiteInv, FundShapes
    <2> QED BY <2>1, <2>2 DEF SuiteInv, FundsCoverRetries
<1> QED BY <1>5, <1>6, <1>7, <1>8 DEF SuiteInv

LEMMA CycleKeeps ==
    ASSUME SuiteInv, NEW w \in W, Cycle(w)
    PROVE  SuiteInv'
<1>1. /\ w \in running /\ tried' = [tried EXCEPT ![w] = @ + 1]
      /\ UNCHANGED <<stage, funding, fee, raised, sweep>>
      /\ PoolPlace /\ PoolIsTight /\ running \subseteq W /\ queue \in Seq(W)
      /\ result \in [W -> {"none", "fulfilled", "failed", "short"}]
      /\ tried[w] \in 0..2 /\ balance[w] \in Nat /\ balance \in [W -> Nat]
      /\ tried'[w] = tried[w] + 1
      /\ fee \in Nat /\ Cost(1) \in Nat /\ Cost(3) \in Nat /\ Cost(1) <= Cost(3)
    <2>1. w \in running /\ tried' = [tried EXCEPT ![w] = @ + 1]
          /\ UNCHANGED <<stage, funding, fee, raised, sweep>>
        BY DEF Cycle
    <2>2. /\ PoolPlace /\ PoolIsTight /\ running \subseteq W /\ queue \in Seq(W)
          /\ result \in [W -> {"none", "fulfilled", "failed", "short"}]
          /\ tried \in [W -> 0..3] /\ tried[w] < 3 /\ balance \in [W -> Nat] /\ fee \in Nat
        BY <2>1 DEF SuiteInv, PoolPlace, TriesPlace, FundShapes
    <2>3. tried[w] \in 0..2 /\ balance[w] \in Nat /\ tried'[w] = tried[w] + 1
        BY <2>1, <2>2
    <2>4. Cost(1) \in Nat /\ Cost(3) \in Nat /\ Cost(1) <= Cost(3)
        BY <2>2, CostOf
    <2> QED BY <2>1, <2>2, <2>3, <2>4
<1>2. ASSUME NEW how \in {"fulfilled", "failed", "short"}, Settles(w, how),
             NEW cost \in {0, Cost(1), Cost(3)}, cost <= balance[w],
             balance' = [balance EXCEPT ![w] = @ - cost],
             how = "short" => balance[w] < Cost(3)
      PROVE  SuiteInv'
    <2>1. PoolPlace' /\ PoolIsTight'
        BY <1>1, <1>2, ReleaseKeepsPool DEF Settles
    <2>2. /\ result' \in [W -> {"none", "fulfilled", "failed", "short"}]
          /\ \A v \in W : result'[v] = "short" =>
                 result[v] = "short" \/ (v = w /\ balance[w] < Cost(3))
        BY <1>1, <1>2 DEF Settles
    <2>3. running' \subseteq running /\ w \notin running'
        BY <1>2 DEF Settles, Release
    <2>4. woken' \cup {queue'[i] : i \in 1..Len(queue')}
              \subseteq woken \cup {queue[i] : i \in 1..Len(queue)}
        <3>1. CASE queue = <<>>
            BY <1>2, <3>1 DEF Settles, Release
        <3>2. CASE queue # <<>>
            <4>1. queue' = Tail(queue) /\ woken' = woken \cup {Head(queue)}
                BY <1>2, <3>2 DEF Settles, Release
            <4>2. /\ Len(queue) \in Nat /\ Len(queue) > 0 /\ Head(queue) = queue[1]
                  /\ Len(Tail(queue)) = Len(queue) - 1
                  /\ \A i \in 1..Len(Tail(queue)) : Tail(queue)[i] = queue[i + 1]
                BY <1>1, <3>2
            <4>3. /\ 1 \in 1..Len(queue)
                  /\ \A i \in 1..Len(Tail(queue)) : i + 1 \in 1..Len(queue)
                BY <4>2
            <4> QED BY <4>1, <4>2, <4>3
        <3> QED BY <3>1, <3>2
    <2> QED BY <1>1, <1>2, <2>1, <2>2, <2>3, <2>4, AttemptKeeps
<1>3. ASSUME tried'[w] < Attempts, UNCHANGED <<result, poolVars>>, Cost(3) <= balance[w],
             Pays(w, 3)
      PROVE  SuiteInv'
    <2>1. PoolPlace' /\ PoolIsTight'
        BY <1>1, <1>3 DEF poolVars, PoolPlace, PoolIsTight
    <2>2. tried[w] < 2
        BY <1>1, <1>3 DEF Attempts
    <2>3. balance' = [balance EXCEPT ![w] = @ - Cost(3)]
        BY <1>3 DEF Pays
    <2>4. /\ result' = result /\ running' = running
          /\ woken' \cup {queue'[i] : i \in 1..Len(queue')}
                 \subseteq woken \cup {queue[i] : i \in 1..Len(queue)}
        BY <1>3 DEF poolVars
    <2> QED BY <1>1, <1>3, <2>1, <2>2, <2>3, <2>4, AttemptKeeps
<1>4. CASE balance[w] >= Cost(3) /\ Pays(w, 3) /\ Settles(w, "fulfilled")
    BY <1>1, <1>2, <1>4 DEF Pays
<1>5. CASE balance[w] >= Cost(3) /\ Pays(w, 3) /\ Retried(w)
    BY <1>1, <1>2, <1>3, <1>5 DEF Pays, Retried
<1>6. CASE balance[w] >= Cost(1) /\ Pays(w, 1) /\ Settles(w, "failed")
    BY <1>1, <1>2, <1>6 DEF Pays
<1>7. CASE balance[w] < Cost(3) /\ Settles(w, "short") /\ UNCHANGED <<balance, burned>>
    <2>1. balance' = [balance EXCEPT ![w] = @ - 0]
        BY <1>1, <1>7
    <2>2. 0 <= balance[w]
        BY <1>1
    <2> QED BY <1>2, <1>7, <2>1, <2>2
<1> QED BY <1>4, <1>5, <1>6, <1>7 DEF Cycle

\* A step that leaves the pool and the attempts alone.
LEMMA OtherKeeps ==
    ASSUME SuiteInv, UNCHANGED <<poolVars, tried>>, FundShapes', FundPlace', FundsCoverRetries',
           stage' = "fund" => stage = "fund",
           funding' \in {"none", "sent"} => funding \in {"none", "sent"}
    PROVE  SuiteInv'
<1>1. PoolPlace' /\ PoolIsTight'
    BY DEF poolVars, SuiteInv, PoolPlace, PoolIsTight
<1>2. TriesPlace'
    BY DEF poolVars, SuiteInv, TriesPlace
<1> QED BY <1>1, <1>2 DEF SuiteInv

\* A step of one wallet's sweep.
LEMMA SweepKeeps ==
    ASSUME SuiteInv, NEW w \in W,
           NEW is \in {"send", "swept", "failed", "pending"}, NEW amount \in Nat,
           sweep' = [sweep EXCEPT ![w] = [is |-> is, amount |-> amount]],
           NEW rest \in Nat, balance' = [balance EXCEPT ![w] = rest],
           UNCHANGED <<stage, funding, fee, raised, poolVars, tried, result>>
    PROVE  SuiteInv'
<1>1. /\ sweep \in [W -> [is : {"none", "send", "swept", "failed", "pending"}, amount : Nat]]
      /\ balance \in [W -> Nat]
    BY DEF SuiteInv, FundShapes
<1>2. [is |-> is, amount |-> amount]
          \in [is : {"none", "send", "swept", "failed", "pending"}, amount : Nat]
    OBVIOUS
<1>3. FundShapes'
    BY <1>1, <1>2 DEF SuiteInv, FundShapes
<1>4. /\ sweep'[w].is # "none"
      /\ \A v \in W \ {w} : sweep'[v] = sweep[v] /\ balance'[v] = balance[v]
    BY <1>1
<1>5. FundPlace'
    BY <1>4 DEF SuiteInv, FundPlace
<1>6. FundsCoverRetries'
    BY <1>4 DEF SuiteInv, FundsCoverRetries
<1> QED BY <1>3, <1>5, <1>6, OtherKeeps

LEMMA SuiteInvStep == SuiteInv /\ [SuiteNext]_suiteVars => SuiteInv'
<1> SUFFICES ASSUME SuiteInv, [SuiteNext]_suiteVars PROVE SuiteInv'
    OBVIOUS
<1> USE DEF moneyVars
<1>0. FundShapes /\ FundPlace /\ FundsCoverRetries /\ TriesPlace /\ PoolPlace /\ PoolIsTight
    BY DEF SuiteInv
<1>1. CASE MineFunding
    <2>1. \A w \in W : tried[w] = 0
        BY <1>0, <1>1 DEF MineFunding, TriesPlace
    <2>2. PerWalletFund(TxFee) \in Nat /\ Spent(0) = 0
        BY Amounts DEF Spent
    <2>3. FundShapes'
        BY <1>0, <1>1, <2>2 DEF MineFunding, FundShapes
    <2>4. FundPlace'
        <3>1. funding' = "mined" => \A w \in W : balance'[w] + Spent(tried'[w]) = PerWalletFund(TxFee)
            BY <1>1, <2>1, <2>2, Amounts DEF MineFunding
        <3> QED BY <1>0, <1>1, <2>2, <3>1 DEF MineFunding, FundPlace
    <2>5. FundsCoverRetries'
        BY <1>0, <1>1 DEF MineFunding, FundsCoverRetries
    <2> QED BY <1>1, <2>3, <2>4, <2>5, OtherKeeps DEF MineFunding
<1>2. CASE RaiseFees
    <2>1. FundShapes' /\ FundPlace' /\ FundsCoverRetries'
        BY <1>0, <1>2 DEF RaiseFees, FundShapes, FundPlace, FundsCoverRetries
    <2> QED BY <1>2, <2>1, OtherKeeps DEF RaiseFees
<1>3. CASE SendFunding \/ FundThrows \/ StartRefund \/ Report
    <2>1. FundShapes' /\ FundPlace' /\ FundsCoverRetries'
        BY <1>0, <1>3 DEF SendFunding, FundThrows, StartRefund, Report, FundShapes, FundPlace,
                          FundsCoverRetries
    <2> QED BY <1>3, <2>1, OtherKeeps DEF SendFunding, FundThrows, StartRefund, Report
<1>4. CASE Funded
    <2> DEFINE first == IF MaxInflight < N THEN MaxInflight ELSE N
    <2>1. woken = {} /\ first \in Nat /\ \A w \in W : tried[w] = 0
        BY <1>0, <1>4, WalletFacts, Amounts DEF Funded, TriesPlace
    <2>2. PoolPlace' /\ PoolIsTight'
        BY <1>4, <2>1, FundedFillsPool DEF Funded
    <2>3. TriesPlace'
        <3>1. \A w \in W : tried'[w] = 0
            BY <1>4, <2>1 DEF Funded
        <3>2. running' \subseteq W /\ woken' \subseteq W /\ \A i \in 1..Len(queue') : queue'[i] \in W
            BY <2>2 DEF PoolPlace
        <3>3. stage' # "fund" /\ funding' \notin {"none", "sent"} /\ tried' \in [W -> 0..3]
            BY <1>0, <1>4 DEF Funded, TriesPlace
        <3>4. \A w \in running' : tried'[w] < 3
            BY <3>1, <3>2
        <3> QED BY <3>1, <3>2, <3>3, <3>4 DEF TriesPlace
    <2>4. FundShapes' /\ FundPlace' /\ FundsCoverRetries'
        BY <1>0, <1>4 DEF Funded, FundShapes, FundPlace, FundsCoverRetries
    <2> QED BY <2>2, <2>3, <2>4 DEF SuiteInv
<1>5. ASSUME NEW w \in W, Admit(w) PROVE SuiteInv'
    <2>1. PoolPlace' /\ PoolIsTight'
        BY <1>0, <1>5, AdmitKeepsPool
    <2>2. TriesPlace'
        BY <1>0, <1>5 DEF Admit, TriesPlace
    <2>3. FundShapes' /\ FundPlace' /\ FundsCoverRetries'
        BY <1>0, <1>5 DEF Admit, FundShapes, FundPlace, FundsCoverRetries
    <2> QED BY <2>1, <2>2, <2>3 DEF SuiteInv
<1>6. ASSUME NEW w \in W, Cycle(w) PROVE SuiteInv'
    BY <1>6, CycleKeeps
<1>7. \A w \in W : balance = [balance EXCEPT ![w] = balance[w]] /\ balance[w] \in Nat
    BY <1>0 DEF FundShapes
<1>8. \A w \in W : sweep[w].amount \in Nat
    BY <1>0 DEF FundShapes
<1>9. ASSUME NEW w \in W, ReadBalance(w) PROVE SuiteInv'
    <2>1. balance[w] > Reserve => balance[w] - Reserve \in Nat
        BY <1>7, Amounts
    <2>2. \E is \in {"send", "swept", "failed", "pending"}, amount \in Nat :
              sweep' = [sweep EXCEPT ![w] = [is |-> is, amount |-> amount]]
        BY <1>9, <2>1 DEF ReadBalance, Swept
    <2> QED BY <1>7, <1>9, <2>2, SweepKeeps DEF ReadBalance
<1>10. ASSUME NEW w \in W, SendSweep(w) PROVE SuiteInv'
    <2>1. balance[w] >= sweep[w].amount + SweepGas =>
              balance[w] - sweep[w].amount - SweepGas \in Nat
        BY <1>7, <1>8, Amounts
    <2>2. \E is \in {"send", "swept", "failed", "pending"}, amount \in Nat, rest \in Nat :
              /\ sweep' = [sweep EXCEPT ![w] = [is |-> is, amount |-> amount]]
              /\ balance' = [balance EXCEPT ![w] = rest]
        BY <1>7, <1>8, <1>10, <2>1 DEF SendSweep, Swept
    <2> QED BY <1>10, <2>2, SweepKeeps DEF SendSweep
<1>11. ASSUME NEW w \in W, SweepLands(w) PROVE SuiteInv'
    <2>1. balance[w] >= sweep[w].amount + SweepGas =>
              balance[w] - sweep[w].amount - SweepGas \in Nat
        BY <1>7, <1>8, Amounts
    <2>2. sweep' = [sweep EXCEPT ![w] = [is |-> "failed", amount |-> sweep[w].amount]]
        <3>1. [sweep[w] EXCEPT !.is = "failed"] = [is |-> "failed", amount |-> sweep[w].amount]
            BY <1>0 DEF FundShapes
        <3> QED BY <1>11, <3>1 DEF SweepLands
    <2>3. \E rest \in Nat : balance' = [balance EXCEPT ![w] = rest]
        BY <1>7, <1>11, <2>1 DEF SweepLands
    <2> QED BY <1>8, <1>11, <2>2, <2>3, SweepKeeps DEF SweepLands
<1>12. CASE UNCHANGED suiteVars
    <2>1. FundShapes' /\ FundPlace' /\ FundsCoverRetries'
        BY <1>0, <1>12 DEF suiteVars, FundShapes, FundPlace, FundsCoverRetries
    <2> QED BY <1>12, <2>1, OtherKeeps DEF suiteVars
<1> QED BY <1>1, <1>2, <1>3, <1>4, <1>5, <1>6, <1>9, <1>10, <1>11, <1>12 DEF SuiteNext

\* The invariant of the suite holds of every reachable state.
THEOREM SuiteInvariant == ProgramSpec => []SuiteInv
<1>1. ProgramInit => SuiteInv
    BY SuiteInvInit DEF ProgramInit
<1> QED BY <1>1, SuiteInvStep, ProgramStepSplits, PTL DEF ProgramSpec

\* However cycles fail and in whatever order they are woken, the pool runs no more than
\* its limit and leaves no slot empty while a cycle waits.
THEOREM PoolStaysTight == ProgramSpec => []PoolIsTight
<1>1. SuiteInv => PoolIsTight
    BY DEF SuiteInv
<1> QED BY <1>1, SuiteInvariant, PTL

\* A wallet is short only where its batch reverted, the fees rose or its refund came first:
\* the fund suffices for three attempts that fail after their last transaction.
THEOREM FundsSuffice == ProgramSpec => []FundsCoverRetries
<1>1. SuiteInv => FundsCoverRetries
    BY DEF SuiteInv
<1> QED BY <1>1, SuiteInvariant, PTL

------------------------------------------------------------------------------
(* Sums over finite sets.  Induction is over the set of what is already shown. *)

Pick(s) == CHOOSE x \in s : TRUE

\* What SumFunction makes of f on a set, from what it makes of the sets without their pick.
PartialSum(f, g, s) == IF s = {} THEN 0 ELSE f[Pick(s)] + g[s \ {Pick(s)}]

SumsOver(f, S) == CHOOSE g : g = [s \in SUBSET S |-> PartialSum(f, g, s)]

LEMMA SumUnfolds ==
    ASSUME NEW f PROVE SumFunction(f) = SumsOver(f, DOMAIN f)[DOMAIN f]
BY DEF SumFunction, SumFunctionOnSet, FoldFunctionOnSet, MapThenFoldSet, SumsOver, PartialSum, Pick

LEMMA NatsAreReached ==
    ASSUME NEW T, 0 \in T, \A n \in Nat : n \in T => n + 1 \in T
    PROVE  Nat \subseteq T
<1> DEFINE missed == Nat \ T
<1> SUFFICES ASSUME missed # {} PROVE FALSE
    OBVIOUS
<1>1. PICK n \in missed : \A m \in missed : ~(<<m, n>> \in OpToRel(<, Nat))
    BY NatLessThanWellFounded, WFMin, missed \subseteq Nat
<1>2. \A m \in missed : ~(m < n)
    BY <1>1 DEF OpToRel
<1>3. n # 0 /\ n \in Nat
    BY <1>1
<1>4. n - 1 \in Nat /\ n - 1 < n /\ (n - 1) + 1 = n
    BY <1>3
<1> QED BY <1>1, <1>2, <1>4

\* A finite set is reached from the empty one by putting picks back.
LEMMA SubsetsAreReached ==
    ASSUME NEW S, IsFiniteSet(S), NEW T, {} \in T,
           \A s \in SUBSET S : s # {} /\ s \ {Pick(s)} \in T => s \in T
    PROVE  SUBSET S \subseteq T
<1> DEFINE sizes == {n \in Nat : \A s \in SUBSET S : Cardinality(s) = n => s \in T}
<1>1. \A s \in SUBSET S : IsFiniteSet(s) /\ Cardinality(s) \in Nat
    BY FS_Subset, FS_CardinalityType
<1>2. 0 \in sizes
    BY <1>1, FS_EmptySet
<1>3. ASSUME NEW n \in Nat, n \in sizes PROVE n + 1 \in sizes
    <2> SUFFICES ASSUME NEW s \in SUBSET S, Cardinality(s) = n + 1 PROVE s \in T
        OBVIOUS
    <2>1. s # {}
        BY <1>1, FS_EmptySet
    <2>2. Pick(s) \in s
        BY <2>1 DEF Pick
    <2>3. Cardinality(s \ {Pick(s)}) = n
        BY <1>1, <2>2, FS_RemoveElement
    <2> QED BY <1>3, <2>1, <2>3
<1>4. Nat \subseteq sizes
    BY <1>2, <1>3, NatsAreReached
<1> QED BY <1>1, <1>4

LEMMA SumsAreDefined ==
    ASSUME NEW f, NEW S, IsFiniteSet(S)
    PROVE  /\ SumsOver(f, S)[{}] = 0
           /\ \A s \in SUBSET S : s # {} =>
                  /\ Pick(s) \in s
                  /\ SumsOver(f, S)[s] = f[Pick(s)] + SumsOver(f, S)[s \ {Pick(s)}]
<1> DEFINE Level(n) == {s \in SUBSET S : Cardinality(s) <= n}
           levels == {n \in Nat : \E g : g = [s \in Level(n) |-> PartialSum(f, g, s)]}
<1>1. \A s \in SUBSET S : IsFiniteSet(s) /\ Cardinality(s) \in Nat
    BY FS_Subset, FS_CardinalityType
<1>2. \A s \in SUBSET S : s # {} =>
          /\ Pick(s) \in s /\ s \ {Pick(s)} \in SUBSET S
          /\ Cardinality(s \ {Pick(s)}) = Cardinality(s) - 1
    BY <1>1, FS_RemoveElement DEF Pick
<1>3. 0 \in levels
    <2> DEFINE g == [s \in Level(0) |-> 0]
    <2>1. \A s \in Level(0) : s = {}
        BY <1>1, FS_EmptySet
    <2>2. g = [s \in Level(0) |-> PartialSum(f, g, s)]
        BY <2>1 DEF PartialSum
    <2> HIDE DEF g, Level
    <2> QED BY <2>2
<1>4. ASSUME NEW n \in Nat, n \in levels PROVE n + 1 \in levels
    <2>1. PICK g : g = [s \in Level(n) |-> PartialSum(f, g, s)]
        BY <1>4
    <2> DEFINE h == [s \in Level(n + 1) |-> PartialSum(f, g, s)]
    <2>2. ASSUME NEW s \in Level(n + 1), s # {} PROVE g[s \ {Pick(s)}] = h[s \ {Pick(s)}]
        <3>1. s \ {Pick(s)} \in Level(n) /\ s \ {Pick(s)} \in Level(n + 1)
            BY <1>1, <1>2, <2>2
        <3> HIDE DEF Level
        <3> QED BY <2>1, <3>1
    <2>3. \A s \in Level(n + 1) : PartialSum(f, g, s) = PartialSum(f, h, s)
        BY <2>2 DEF PartialSum
    <2>4. h = [s \in Level(n + 1) |-> PartialSum(f, h, s)]
        <3> HIDE DEF Level
        <3> QED BY <2>3
    <2> HIDE DEF h, Level
    <2> QED BY <2>4
<1>5. Nat \subseteq levels
    <2> HIDE DEF levels
    <2> QED BY <1>3, <1>4, NatsAreReached
<1>6. Level(Cardinality(S)) = SUBSET S
    BY <1>1, FS_Subset
<1>7. \E g : g = [s \in SUBSET S |-> PartialSum(f, g, s)]
    <2>1. Cardinality(S) \in levels
        BY <1>5, FS_CardinalityType
    <2> HIDE DEF Level
    <2> QED BY <1>6, <2>1
<1> DEFINE sums == SumsOver(f, S)
<1>8. sums = [s \in SUBSET S |-> PartialSum(f, sums, s)]
    BY <1>7 DEF SumsOver
<1> HIDE DEF sums
<1>9. \A s \in SUBSET S : sums[s] = PartialSum(f, sums, s)
    BY <1>8
<1>10. sums[{}] = 0
    BY <1>9 DEF PartialSum
<1>11. \A s \in SUBSET S : s # {} => sums[s] = f[Pick(s)] + sums[s \ {Pick(s)}]
    BY <1>9 DEF PartialSum
<1> QED BY <1>2, <1>10, <1>11 DEF sums

\* The sum of naturals is one.
LEMMA SumType ==
    ASSUME NEW S, IsFiniteSet(S), NEW f \in [S -> Nat]
    PROVE  SumFunction(f) \in Nat
<1> DEFINE sums == SumsOver(f, S)
           T == {s \in SUBSET S : sums[s] \in Nat}
<1>1. \A s \in SUBSET S : s # {} =>
          Pick(s) \in s /\ sums[s] = f[Pick(s)] + sums[s \ {Pick(s)}]
    BY SumsAreDefined
<1>2. {} \in T
    BY SumsAreDefined
<1> HIDE DEF sums
<1>3. \A s \in SUBSET S : s # {} /\ s \ {Pick(s)} \in T => s \in T
    BY <1>1
<1> HIDE DEF T
<1>4. SUBSET S \subseteq T
    BY <1>2, <1>3, SubsetsAreReached
<1> QED BY <1>4, SumUnfolds DEF T, sums

\* A sum follows the change of one term.
LEMMA SumChange ==
    ASSUME NEW S, IsFiniteSet(S), NEW f \in [S -> Nat], NEW h \in [S -> Nat], NEW w \in S,
           \A x \in S \ {w} : h[x] = f[x]
    PROVE  SumFunction(h) + f[w] = SumFunction(f) + h[w]
<1> DEFINE fs == SumsOver(f, S)
           hs == SumsOver(h, S)
           T == {s \in SUBSET S :
                    /\ fs[s] \in Int /\ hs[s] \in Int
                    /\ hs[s] = IF w \in s THEN fs[s] - f[w] + h[w] ELSE fs[s]}
<1>1. \A s \in SUBSET S : s # {} =>
          /\ Pick(s) \in s /\ s \ {Pick(s)} \in SUBSET S
          /\ f[Pick(s)] \in Nat /\ h[Pick(s)] \in Nat
          /\ Pick(s) # w => h[Pick(s)] = f[Pick(s)]
          /\ fs[s] = f[Pick(s)] + fs[s \ {Pick(s)}]
          /\ hs[s] = h[Pick(s)] + hs[s \ {Pick(s)}]
    BY SumsAreDefined
<1>2. {} \in T
    BY SumsAreDefined
<1> HIDE DEF fs, hs
<1>3. ASSUME NEW s \in SUBSET S, s # {}, s \ {Pick(s)} \in T PROVE s \in T
    <2>1. f[w] \in Nat /\ h[w] \in Nat
        OBVIOUS
    <2>2. CASE Pick(s) = w
        <3>1. w \in s /\ w \notin s \ {Pick(s)}
            BY <1>1, <1>3, <2>2
        <3> DEFINE rest == s \ {Pick(s)}
        <3>2. fs[rest] \in Int /\ hs[rest] = fs[rest]
            BY <1>3, <3>1
        <3>3. fs[s] = f[w] + fs[rest] /\ hs[s] = h[w] + hs[rest]
            BY <1>1, <1>3, <2>2
        <3> HIDE DEF rest
        <3> QED BY <2>1, <3>1, <3>2, <3>3
    <2>3. CASE Pick(s) # w
        BY <1>1, <1>3, <2>1, <2>3
    <2> QED BY <2>2, <2>3
<1> HIDE DEF T
<1>4. S \in T
    BY <1>2, <1>3, SubsetsAreReached
<1>5. SumFunction(f) = fs[S] /\ SumFunction(h) = hs[S]
    BY SumUnfolds DEF fs, hs
<1>6. f[w] \in Nat /\ h[w] \in Nat
    OBVIOUS
<1> QED BY <1>4, <1>5, <1>6 DEF T

\* A sum of equal terms.
LEMMA SumOfEqual ==
    ASSUME NEW S, IsFiniteSet(S), NEW c \in Nat
    PROVE  SumFunction([x \in S |-> c]) = Cardinality(S) * c
<1> DEFINE f == [x \in S |-> c]
           sums == SumsOver(f, S)
           T == {s \in SUBSET S : sums[s] = Cardinality(s) * c}
<1>1. \A s \in SUBSET S : s # {} =>
          /\ Cardinality(s) \in Nat /\ s \ {Pick(s)} \in SUBSET S
          /\ Cardinality(s \ {Pick(s)}) = Cardinality(s) - 1
          /\ sums[s] = c + sums[s \ {Pick(s)}]
    <2> SUFFICES ASSUME NEW s \in SUBSET S, s # {}
                 PROVE  /\ Cardinality(s) \in Nat /\ s \ {Pick(s)} \in SUBSET S
                        /\ Cardinality(s \ {Pick(s)}) = Cardinality(s) - 1
                        /\ sums[s] = c + sums[s \ {Pick(s)}]
        BY Zenon
    <2>1. Pick(s) \in s /\ sums[s] = f[Pick(s)] + sums[s \ {Pick(s)}]
        <3> HIDE DEF f
        <3> QED BY SumsAreDefined
    <2>2. f[Pick(s)] = c
        BY <2>1
    <2> QED BY <2>1, <2>2, FS_Subset, FS_CardinalityType, FS_RemoveElement
<1>2. {} \in T
    BY SumsAreDefined, FS_EmptySet
<1>3. \A n \in Nat : c + (n - 1) * c = n * c
    OBVIOUS
<1> HIDE DEF f, sums
<1>4. \A s \in SUBSET S : s # {} /\ s \ {Pick(s)} \in T => s \in T
    BY <1>1, <1>3
<1> HIDE DEF T
<1>5. S \in T
    BY <1>2, <1>4, SubsetsAreReached
<1>6. DOMAIN f = S
    BY DEF f
<1> QED BY <1>5, <1>6, SumUnfolds DEF T, sums, f
------------------------------------------------------------------------------
(* The money of a suite: its inductive invariant. *)

AllFunds == N * PerWalletFund(TxFee)

\* Money is in a wallet, paid or back; what is back is what was swept, but where a sweep
\* landed after it was given up on.
MoneyPlace ==
    /\ burned \in Nat /\ received \in Nat
    /\ claimed \in {0, AllFunds}
    /\ SumFunction(balance) + burned + received = IF funding = "mined" THEN AllFunds ELSE 0
    /\ SumFunction(Refunded) <= received
    /\ (\A w \in W : sweep[w].is # "failed") => received = SumFunction(Refunded)

Unswept == {w \in W : sweep[w].is # "swept"}

\* What is reported stays true of the sweeps.
ReportPlace ==
    report.made =>
        /\ stage = "over"
        /\ report.funded = claimed
        /\ report.refunded = SumFunction(Refunded)
        /\ report.failed = Cardinality(Unswept)

MoneyInv == MoneyPlace /\ ReportPlace

LEMMA MoneyTypes ==
    ASSUME FundShapes
    PROVE  /\ Refunded \in [W -> Nat] /\ SumFunction(Refunded) \in Nat
           /\ SumFunction(balance) \in Nat
<1>1. Refunded \in [W -> Nat]
    BY DEF FundShapes, Refunded
<1> QED BY <1>1, WalletFacts, SumType DEF FundShapes

LEMMA AllFundsType == AllFunds \in Nat /\ AllFunds = Cardinality(W) * PerWalletFund(TxFee)
<1>1. PerWalletFund(TxFee) \in Nat
    BY Amounts
<1>2. Wallets \in Bijection(1..N, W)
    BY WalletFacts DEF Bijection, Injection, Surjection, IsInjective
<1>3. Cardinality(W) = N
    BY <1>2, WalletFacts, FS_CountingElements DEF ExistsBijection
<1> QED BY <1>1, <1>3, WalletFacts DEF AllFunds

\* One wallet's balance changes.
LEMMA BalanceMoves ==
    ASSUME FundShapes, NEW w \in W, NEW rest \in Nat, balance' = [balance EXCEPT ![w] = rest]
    PROVE  SumFunction(balance)' + balance[w] = SumFunction(balance) + rest
<1>1. balance \in [W -> Nat] /\ balance' \in [W -> Nat] /\ balance'[w] = rest
    BY DEF FundShapes
<1>2. \A x \in W \ {w} : balance'[x] = balance[x]
    BY <1>1
<1>3. IsFiniteSet(W)
    BY WalletFacts
<1> DEFINE f == balance
           h == balance'
<1>4. f \in [W -> Nat] /\ h \in [W -> Nat] /\ \A x \in W \ {w} : h[x] = f[x]
    BY <1>1, <1>2
<1> HIDE DEF f, h
<1>5. SumFunction(h) + f[w] = SumFunction(f) + h[w]
    BY <1>3, <1>4, SumChange
<1>6. SumFunction(balance') + balance[w] = SumFunction(balance) + balance'[w]
    BY <1>5 DEF f, h
<1> QED BY <1>1, <1>6

\* One wallet's sweep goes on.
LEMMA SweepMoves ==
    ASSUME FundShapes, NEW w \in W, sweep[w].is # "swept", NEW is, NEW amount \in Nat,
           sweep' = [sweep EXCEPT ![w] = [is |-> is, amount |-> amount]]
    PROVE  SumFunction(Refunded)' =
               SumFunction(Refunded) + (IF is = "swept" THEN amount ELSE 0)
<1>1. Refunded \in [W -> Nat] /\ SumFunction(Refunded) \in Nat
    BY MoneyTypes
<1>2. /\ sweep'[w] = [is |-> is, amount |-> amount]
      /\ \A x \in W \ {w} : sweep'[x] = sweep[x]
    BY DEF FundShapes
<1>3. Refunded' \in [W -> Nat]
    <2>1. \A x \in W : (IF sweep'[x].is = "swept" THEN sweep'[x].amount ELSE 0) \in Nat
        BY <1>2 DEF FundShapes
    <2> QED BY <2>1 DEF Refunded
<1>4. Refunded[w] = 0 /\ Refunded'[w] = IF is = "swept" THEN amount ELSE 0
    BY <1>2 DEF Refunded
<1>5. \A x \in W \ {w} : Refunded'[x] = Refunded[x]
    BY <1>2 DEF Refunded
<1>6. SumFunction(Refunded)' + Refunded[w] = SumFunction(Refunded) + Refunded'[w]
    <2>1. IsFiniteSet(W)
        BY WalletFacts
    <2> DEFINE f == Refunded
               h == Refunded'
    <2>2. f \in [W -> Nat] /\ h \in [W -> Nat] /\ \A x \in W \ {w} : h[x] = f[x]
        BY <1>1, <1>3, <1>5
    <2> HIDE DEF f, h
    <2>3. SumFunction(h) + f[w] = SumFunction(f) + h[w]
        BY <2>1, <2>2, SumChange
    <2> QED BY <2>3 DEF f, h
<1>7. SumFunction(Refunded)' \in Nat
    BY <1>3, WalletFacts, SumType
<1> QED BY <1>1, <1>4, <1>6, <1>7

LEMMA MoneyInvInit == SuiteInit => MoneyInv
<1> SUFFICES ASSUME SuiteInit PROVE MoneyInv
    OBVIOUS
<1>1. FundShapes
    BY SuiteInvInit DEF SuiteInv
<1>2. balance = [w \in W |-> 0] /\ Refunded = [w \in W |-> 0]
    BY DEF SuiteInit, Refunded
<1>3. SumFunction(balance) = 0 /\ SumFunction(Refunded) = 0
    <2>1. Cardinality(W) \in Nat /\ 0 \in Nat
        BY WalletFacts, FS_CardinalityType
    <2>2. SumFunction([w \in W |-> 0]) = Cardinality(W) * 0
        BY <2>1, WalletFacts, SumOfEqual
    <2> QED BY <1>2, <2>1, <2>2
<1>4. burned = 0 /\ received = 0 /\ claimed = 0 /\ funding = "none" /\ ~report.made
    BY DEF SuiteInit, NoReport
<1> QED BY <1>3, <1>4 DEF MoneyInv, MoneyPlace, ReportPlace

\* A cycle pays out of its wallet.
LEMMA PaymentKeeps ==
    ASSUME SuiteInv, MoneyInv, NEW w \in W, NEW cost \in Nat, cost <= balance[w],
           balance' = [balance EXCEPT ![w] = @ - cost], burned' = burned + cost,
           UNCHANGED <<stage, funding, claimed, received, sweep, report>>
    PROVE  MoneyInv'
<1>1. FundShapes /\ balance[w] \in Nat /\ burned \in Nat /\ received \in Nat
    BY DEF SuiteInv, FundShapes, MoneyInv, MoneyPlace
<1>2. balance[w] - cost \in Nat
    BY <1>1
<1>3. SumFunction(balance)' + balance[w] = SumFunction(balance) + (balance[w] - cost)
    BY <1>1, <1>2, BalanceMoves
<1>4. SumFunction(balance) \in Nat /\ SumFunction(balance)' \in Nat
    <2>1. balance' \in [W -> Nat]
        BY <1>1, <1>2 DEF FundShapes
    <2> QED BY <1>1, <2>1, WalletFacts, MoneyTypes, SumType
<1>5. SumFunction(balance)' + burned' = SumFunction(balance) + burned /\ burned' \in Nat
    BY <1>1, <1>3, <1>4
<1>6. SumFunction(balance)' + burned' + received' = SumFunction(balance) + burned + received
    BY <1>1, <1>5
<1>7. Refunded' = Refunded /\ Unswept' = Unswept
    BY DEF Refunded, Unswept
<1>8. MoneyPlace'
    BY <1>1, <1>5, <1>6, <1>7 DEF MoneyInv, MoneyPlace
<1>9. ReportPlace'
    BY <1>7 DEF MoneyInv, ReportPlace
<1> QED BY <1>8, <1>9 DEF MoneyInv

\* A sweep moves on, and what it moves leaves the wallet for the funder.
LEMMA RefundKeeps ==
    ASSUME SuiteInv, MoneyInv, NEW w \in W,
           NEW is \in {"send", "swept", "failed", "pending"}, NEW amount \in Nat,
           sweep[w].is \notin {"swept", "failed"},
           sweep' = [sweep EXCEPT ![w] = [is |-> is, amount |-> amount]],
           NEW moved \in Nat, NEW gas \in Nat, moved + gas <= balance[w],
           balance' = [balance EXCEPT ![w] = @ - moved - gas],
           received' = received + moved, burned' = burned + gas,
           is = "swept" => moved = amount, is \notin {"swept", "failed"} => moved = 0,
           stage = "refund" \/ (sweep[w].is = "pending" /\ is = "failed"),
           UNCHANGED <<stage, funding, claimed, report>>
    PROVE  MoneyInv'
<1>1. FundShapes /\ balance[w] \in Nat /\ burned \in Nat /\ received \in Nat
    BY DEF SuiteInv, FundShapes, MoneyInv, MoneyPlace
<1>2. balance[w] - moved - gas \in Nat
    BY <1>1
<1>3. SumFunction(balance)' + balance[w] = SumFunction(balance) + (balance[w] - moved - gas)
    BY <1>1, <1>2, BalanceMoves
<1>4. SumFunction(balance) \in Nat /\ SumFunction(balance)' \in Nat
    <2>1. balance' \in [W -> Nat]
        BY <1>1, <1>2 DEF FundShapes
    <2> QED BY <1>1, <2>1, WalletFacts, MoneyTypes, SumType
<1>5. /\ SumFunction(balance)' + burned' + received' = SumFunction(balance) + burned + received
      /\ burned' \in Nat /\ received' \in Nat
    BY <1>1, <1>3, <1>4
<1>6. /\ SumFunction(Refunded)' = SumFunction(Refunded) + (IF is = "swept" THEN amount ELSE 0)
      /\ SumFunction(Refunded) \in Nat
    BY <1>1, SweepMoves, MoneyTypes
<1>7. /\ sweep'[w].is = is
      /\ \A x \in W \ {w} : sweep'[x] = sweep[x]
    BY <1>1 DEF FundShapes
<1>8. MoneyPlace'
    <2>1. SumFunction(Refunded)' <= received'
        BY <1>1, <1>6 DEF MoneyInv, MoneyPlace
    <2>2. ASSUME \A v \in W : sweep'[v].is # "failed" PROVE received' = SumFunction(Refunded)'
        <3>1. is # "failed" /\ \A v \in W : sweep[v].is # "failed"
            BY <1>7, <2>2
        <3>2. received = SumFunction(Refunded)
            BY <3>1 DEF MoneyInv, MoneyPlace
        <3> QED BY <1>1, <1>6, <3>1, <3>2
    <2> QED BY <1>5, <2>1, <2>2 DEF MoneyInv, MoneyPlace
<1>9. ReportPlace'
    <2> SUFFICES ASSUME report.made
                 PROVE  Unswept' = Unswept /\ SumFunction(Refunded)' = SumFunction(Refunded)
        BY DEF MoneyInv, ReportPlace
    <2>1. sweep[w].is = "pending" /\ is = "failed"
        BY DEF MoneyInv, ReportPlace
    <2> QED BY <1>6, <1>7, <2>1 DEF Unswept
<1> QED BY <1>8, <1>9 DEF MoneyInv

\* A sweep moves on, and no money with it.
LEMMA BareSweepKeeps ==
    ASSUME SuiteInv, MoneyInv, NEW w \in W,
           NEW is \in {"send", "swept", "failed", "pending"}, NEW amount \in Nat,
           sweep[w].is \notin {"swept", "failed"},
           sweep' = [sweep EXCEPT ![w] = [is |-> is, amount |-> amount]],
           is = "swept" => amount = 0,
           stage = "refund" \/ (sweep[w].is = "pending" /\ is = "failed"),
           UNCHANGED <<balance, received, burned>>,
           UNCHANGED <<stage, funding, claimed, report>>
    PROVE  MoneyInv'
<1>1. FundShapes /\ balance[w] \in Nat /\ burned \in Nat /\ received \in Nat
    <2>1. FundShapes /\ MoneyPlace
        BY DEF SuiteInv, MoneyInv
    <2> QED BY <2>1 DEF FundShapes, MoneyPlace
<1>2. 0 \in Nat /\ 0 + 0 <= balance[w] /\ balance[w] - 0 - 0 = balance[w]
    BY <1>1
<1>3. balance' = [balance EXCEPT ![w] = @ - 0 - 0]
    BY <1>1, <1>2 DEF FundShapes
<1>4. received' = received + 0 /\ burned' = burned + 0
    BY <1>1
<1>5. is = "swept" => 0 = amount
    OBVIOUS
<1> QED BY <1>2, <1>3, <1>4, <1>5, RefundKeeps

LEMMA MoneyInvStep == SuiteInv /\ MoneyInv /\ [SuiteNext]_suiteVars => MoneyInv'
<1> SUFFICES ASSUME SuiteInv, MoneyInv, [SuiteNext]_suiteVars PROVE MoneyInv'
    OBVIOUS
<1> USE DEF moneyVars
<1>0. FundShapes /\ MoneyPlace /\ ReportPlace
    BY DEF SuiteInv, MoneyInv
<1>1. ASSUME UNCHANGED <<balance, burned, received, sweep>>,
             claimed' \in {0, AllFunds}, funding' = "mined" <=> funding = "mined"
      PROVE  MoneyPlace' /\ Refunded' = Refunded /\ Unswept' = Unswept
    <2>1. Refunded' = Refunded /\ Unswept' = Unswept
        BY <1>1 DEF Refunded, Unswept
    <2> QED BY <1>0, <1>1, <2>1 DEF MoneyPlace
<1>2. ASSUME UNCHANGED <<balance, burned, received, sweep, claimed, report>>,
             funding' = "mined" <=> funding = "mined", stage' = stage \/ stage # "over"
      PROVE  MoneyInv'
    <2>1. MoneyPlace' /\ Refunded' = Refunded /\ Unswept' = Unswept
        BY <1>0, <1>1, <1>2 DEF MoneyPlace
    <2> QED BY <1>0, <1>2, <2>1 DEF MoneyInv, ReportPlace
<1>3. CASE RaiseFees \/ SendFunding \/ FundThrows \/ StartRefund
           \/ \E w \in W : Admit(w)
    BY <1>2, <1>3 DEF RaiseFees, SendFunding, FundThrows, StartRefund, Admit
<1>4. CASE UNCHANGED suiteVars
    BY <1>2, <1>4 DEF suiteVars
<1>5. CASE MineFunding
    <2>1. CASE funding' = "reverted" /\ UNCHANGED balance
        BY <1>2, <1>5, <2>1 DEF MineFunding
    <2>2. CASE funding' = "mined" /\ balance' = [w \in W |-> PerWalletFund(TxFee)]
        <3>1. SumFunction(balance') = AllFunds
            <4>1. PerWalletFund(TxFee) \in Nat /\ IsFiniteSet(W)
                BY Amounts, WalletFacts
            <4> DEFINE c == PerWalletFund(TxFee)
            <4>2. c \in Nat
                BY <4>1
            <4> HIDE DEF c
            <4>3. SumFunction([w \in W |-> c]) = Cardinality(W) * c
                BY <4>1, <4>2, SumOfEqual
            <4> QED BY <2>2, <4>3, AllFundsType DEF c
        <3>2. burned = 0 /\ received = 0
            <4>1. SumFunction(balance) + burned + received = 0
                BY <1>0, <1>5 DEF MoneyPlace, MineFunding
            <4> QED BY <1>0, <4>1, MoneyTypes DEF MoneyPlace
        <3>3. Refunded' = Refunded /\ Unswept' = Unswept
            BY <1>5 DEF MineFunding, Refunded, Unswept
        <3>4. MoneyPlace'
            BY <1>0, <1>5, <2>2, <3>1, <3>2, <3>3, AllFundsType DEF MineFunding, MoneyPlace
        <3>5. ReportPlace'
            BY <1>0, <1>5, <3>3 DEF MineFunding, ReportPlace
        <3> QED BY <3>4, <3>5 DEF MoneyInv
    <2> QED BY <1>5, <2>1, <2>2 DEF MineFunding
<1>6. CASE Funded
    <2>1. claimed' = AllFunds /\ stage # "over" /\ report' = report
        BY <1>6 DEF Funded, AllFunds
    <2>2. MoneyPlace'
        BY <1>1, <1>6, <2>1 DEF Funded
    <2>3. ReportPlace'
        BY <1>0, <2>1 DEF ReportPlace
    <2> QED BY <2>2, <2>3 DEF MoneyInv
<1>7. CASE Report
    <2>1. MoneyPlace' /\ Refunded' = Refunded /\ Unswept' = Unswept
        BY <1>0, <1>1, <1>7 DEF Report, MoneyPlace
    <2>2. ReportPlace'
        BY <1>7, <2>1 DEF Report, ReportPlace, Unswept
    <2> QED BY <2>1, <2>2 DEF MoneyInv
<1>8. \A w \in W : balance[w] \in Nat /\ sweep[w].amount \in Nat
    BY <1>0 DEF FundShapes
<1>9. ASSUME NEW w \in W, Cycle(w) PROVE MoneyInv'
    <2>1. Cost(1) \in Nat /\ Cost(3) \in Nat /\ Cost(1) <= Cost(3)
        BY <1>0, CostOf DEF FundShapes
    <2>2. UNCHANGED <<stage, funding, claimed, received, sweep, report>>
        BY <1>9 DEF Cycle
    <2>3. ASSUME NEW k \in {1, 3}, balance[w] >= Cost(k), Pays(w, k) PROVE MoneyInv'
        BY <1>8, <2>1, <2>2, <2>3, PaymentKeeps DEF Pays
    <2>4. CASE UNCHANGED <<balance, burned>>
        BY <1>2, <2>2, <2>4
    <2> QED BY <1>9, <2>3, <2>4 DEF Cycle
<1>10. ASSUME NEW w \in W, ReadBalance(w) PROVE MoneyInv'
    <2>1. balance[w] > Reserve => balance[w] - Reserve \in Nat
        BY <1>8, Amounts
    <2>2. PICK is \in {"send", "swept", "failed"}, amount \in Nat :
              /\ sweep' = [sweep EXCEPT ![w] = [is |-> is, amount |-> amount]]
              /\ is = "swept" => amount = 0
        BY <1>10, <2>1 DEF ReadBalance, Swept
    <2>3. /\ sweep[w].is \notin {"swept", "failed"} /\ stage = "refund"
          /\ UNCHANGED <<balance, received, burned>>
          /\ UNCHANGED <<stage, funding, claimed, report>>
        BY <1>10 DEF ReadBalance
    <2> QED BY <2>2, <2>3, BareSweepKeeps
<1>11. ASSUME NEW w \in W, SendSweep(w) PROVE MoneyInv'
    <2> DEFINE amount == sweep[w].amount
    <2>1. /\ sweep[w].is \notin {"swept", "failed"} /\ stage = "refund"
          /\ UNCHANGED <<stage, funding, claimed, report>>
        BY <1>11 DEF SendSweep
    <2>2. amount \in Nat /\ SweepGas \in Nat
        BY <1>8, Amounts
    <2>3. CASE /\ balance[w] >= amount + SweepGas
               /\ Swept(w, "swept", amount)
               /\ balance' = [balance EXCEPT ![w] = @ - amount - SweepGas]
               /\ received' = received + amount
               /\ burned' = burned + SweepGas
        <3>1. amount + SweepGas <= balance[w]
            BY <1>8, <2>2, <2>3
        <3>2. sweep' = [sweep EXCEPT ![w] = [is |-> "swept", amount |-> amount]]
            BY <2>3 DEF Swept
        <3> HIDE DEF amount
        <3> QED BY <2>1, <2>2, <2>3, <3>1, <3>2, RefundKeeps
    <2>4. CASE Swept(w, "failed", 0) /\ UNCHANGED <<balance, received, burned>>
        BY <2>1, <2>4, BareSweepKeeps DEF Swept
    <2>5. CASE Swept(w, "pending", amount) /\ UNCHANGED <<balance, received, burned>>
        <3>1. sweep' = [sweep EXCEPT ![w] = [is |-> "pending", amount |-> amount]]
            BY <2>5 DEF Swept
        <3> HIDE DEF amount
        <3> QED BY <2>1, <2>2, <2>5, <3>1, BareSweepKeeps
    <2> QED BY <1>11, <2>3, <2>4, <2>5 DEF SendSweep
<1>12. ASSUME NEW w \in W, SweepLands(w) PROVE MoneyInv'
    <2> DEFINE amount == sweep[w].amount
    <2>1. sweep' = [sweep EXCEPT ![w] = [is |-> "failed", amount |-> amount]]
        <3>1. [sweep[w] EXCEPT !.is = "failed"] = [is |-> "failed", amount |-> amount]
            BY <1>0 DEF FundShapes
        <3> QED BY <1>12, <3>1 DEF SweepLands
    <2>2. /\ sweep[w].is = "pending" /\ UNCHANGED <<stage, funding, claimed, report>>
          /\ amount \in Nat /\ SweepGas \in Nat
        BY <1>8, <1>12, Amounts DEF SweepLands
    <2>3. CASE /\ balance[w] >= amount + SweepGas
               /\ balance' = [balance EXCEPT ![w] = @ - amount - SweepGas]
               /\ received' = received + amount
               /\ burned' = burned + SweepGas
        <3>1. amount + SweepGas <= balance[w]
            BY <1>8, <2>2, <2>3
        <3> HIDE DEF amount
        <3> QED BY <2>1, <2>2, <2>3, <3>1, RefundKeeps
    <2>4. CASE UNCHANGED <<balance, received, burned>>
        <3> HIDE DEF amount
        <3> QED BY <2>1, <2>2, <2>4, BareSweepKeeps
    <2> QED BY <1>12, <2>3, <2>4 DEF SweepLands
<1> QED BY <1>3, <1>4, <1>5, <1>6, <1>7, <1>9, <1>10, <1>11, <1>12 DEF SuiteNext

\* The accounts of a suite hold of every reachable state.
THEOREM MoneyInvariant == ProgramSpec => []MoneyInv
<1>1. ProgramInit => MoneyInv
    BY MoneyInvInit DEF ProgramInit
<1> QED BY <1>1, SuiteInvariant, MoneyInvStep, ProgramStepSplits, PTL DEF ProgramSpec

\* What refundWallets reports has arrived, more only where it reports a failed sweep, and
\* what the suite calls burned is what was paid and what is left behind.
THEOREM RefundsAreHonest == ProgramSpec => []RefundReportIsHonest
<1>1. SuiteInv /\ MoneyInv => RefundReportIsHonest
    <2> SUFFICES ASSUME SuiteInv, MoneyInv, report.made
                 PROVE  /\ report.refunded <= received
                        /\ received > report.refunded => report.failed > 0
                        /\ report.funded > 0 /\ funding = "mined" /\ report.failed = 0 =>
                               report.funded - report.refunded = burned + SumFunction(balance)
        BY DEF RefundReportIsHonest
    <2>1. /\ report.funded = claimed /\ report.refunded = SumFunction(Refunded)
          /\ report.failed = Cardinality(Unswept) /\ MoneyPlace /\ FundShapes
        BY DEF SuiteInv, MoneyInv, ReportPlace
    <2>2. /\ SumFunction(Refunded) \in Nat /\ SumFunction(balance) \in Nat
          /\ AllFunds \in Nat /\ burned \in Nat /\ received \in Nat
        BY <2>1, MoneyTypes, AllFundsType DEF MoneyPlace
    <2>3. Cardinality(Unswept) \in Nat /\ (Cardinality(Unswept) = 0 <=> Unswept = {})
        BY WalletFacts, FS_Subset, FS_CardinalityType, FS_EmptySet DEF Unswept
    <2>4. Cardinality(Unswept) = 0 => received = SumFunction(Refunded)
        BY <2>1, <2>3 DEF Unswept, MoneyPlace
    <2>5. claimed > 0 /\ funding = "mined" =>
              claimed = SumFunction(balance) + burned + received
        BY <2>1 DEF MoneyPlace
    <2>6. SumFunction(Refunded) <= received
        BY <2>1 DEF MoneyPlace
    <2> QED BY <2>1, <2>2, <2>3, <2>4, <2>5, <2>6
<1> QED BY <1>1, SuiteInvariant, MoneyInvariant, PTL
==============================================================================
