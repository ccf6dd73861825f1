-------------------------------- MODULE Programs --------------------------------
(***************************************************************************)
(* The programs of the repository that use the SDK, one process at a time: *)
(* the six commands of cdr-cli, the four examples, the post-release smoke  *)
(* test, an integration suite (module EphemeralWallets) and an application *)
(* with one Story-API query (module StoryApi), which "round" and           *)
(* query-dkg-state make too.                                               *)
(*                                                                         *)
(* A program is the sequence of its fallible steps.  An SDK call is one    *)
(* step that resolves or throws: its inside is another module's subject.   *)
(***************************************************************************)
EXTENDS StoryApi, EphemeralWallets

VARIABLES
    program,
    json,       \* --json
    typed,      \* the vault's number, as the user wrote it
    wallet,     \* a private key was given
    at,         \* the next step
    mode,       \* "run", "finally" (the smoke test's), "exited"
    asked,      \* the vault the program turns to: the one "typed", or an "other"
    recovered,  \* the key accessCDR returned: the uploaded one or not
    said,       \* the error reported, with its format
    exit,       \* the exit code
    sub,        \* the smoke test's subwallet holds more than the reserve ("rich") or not
    transfer,   \* the transaction that funds it
    status      \* what status.json holds, or will

progVars == <<program, json, typed, wallet, at, mode, asked, recovered, said, exit>>
smokeVars == <<sub, transfer, status>>
allVars == <<vars, suiteVars, progVars, smokeVars>>

Cli == {"upload", "access", "vault", "fees", "round", "validators"}
Examples == {"upload-cdr", "access-cdr", "query-dkg-state", "e2e-demo"}
Commands == Cli \cup Examples \cup {"smoke"}

UploadCommand == <<"arguments", "config", "wasm", "client", "upload", "output">>
AccessCommand ==
    <<"arguments", "config", "uuid", "wasm", "client", "timeout", "access", "output">>
VaultCommand == <<"arguments", "config", "uuid", "client", "vault", "output">>
ReadCommand == <<"arguments", "config", "client", "read", "output">>
RoundCommand == <<"arguments", "config", "query", "output">>

UploadExample == <<"config", "wasm", "client", "read", "upload", "output">>
AccessExample == <<"config", "wasm", "client", "number", "vault", "read", "access", "output">>
StateExample == <<"config", "client", "query", "read", "number", "vault", "output">>
E2eDemo == <<"config", "wasm", "client", "upload", "access", "verify">>

SmokeTest ==
    <<"config", "wasm", "balance", "fund", "client", "deploy", "upload", "access", "verify">>

Steps(p) ==
    CASE p = "upload" -> UploadCommand
      [] p = "access" -> AccessCommand
      [] p = "vault" -> VaultCommand
      [] p \in {"fees", "validators"} -> ReadCommand
      [] p = "round" -> RoundCommand
      [] p = "upload-cdr" -> UploadExample
      [] p = "access-cdr" -> AccessExample
      [] p = "query-dkg-state" -> StateExample
      [] p = "e2e-demo" -> E2eDemo
      [] p = "smoke" -> SmokeTest

Stands(steps) == program \in Commands /\ mode = "run" /\ Steps(program)[at] \in steps

\* resolveConfig's requireWallet, and the environment the examples insist on.
RequiresWallet(p) == p \in {"upload", "access", "upload-cdr", "access-cdr", "e2e-demo", "smoke"}

NoCode == 256

NoStatus == [file |-> FALSE, outcome |-> "pending", fundTx |-> FALSE, refundTx |-> FALSE,
             refundError |-> FALSE]

\* A process of the repository: everything it does not use stays as it starts.
ProgramInit ==
    /\ Init /\ SuiteInit
    /\ program \in Commands \cup {"suite", "application"}
    /\ program # "application" =>
           /\ kind = "latest"
           /\ config = CHOOSE c \in Configs : TRUE
    /\ json \in BOOLEAN /\ (program \notin Cli => ~json)
    /\ typed \in {"uint32", "beyond", "unsafe", "trailing", "junk"}
    /\ program \notin {"access", "vault", "access-cdr", "query-dkg-state"} => typed = "uint32"
    /\ wallet \in BOOLEAN /\ (program \notin Commands => wallet)
    /\ at = 1 /\ mode = "run"
    /\ asked = "none" /\ recovered = "none"
    /\ said = [why |-> "none", json |-> FALSE] /\ exit = NoCode
    /\ sub = "poor" /\ transfer = "none" /\ status = NoStatus

------------------------------------------------------------------------------
\* How a program goes on, and how it ends.

GoOn ==
    /\ IF at = Len(Steps(program))
         THEN /\ mode' = IF program = "smoke" THEN "finally" ELSE "exited"
              /\ exit' = IF program = "smoke" THEN exit ELSE 0
              /\ UNCHANGED at
         ELSE at' = at + 1 /\ UNCHANGED <<mode, exit>>
    /\ UNCHANGED said

SayError(why) == said' = [why |-> why, json |-> json]

\* errExit, or the examples' and the smoke test's look at their environment.
Refuse(why) ==
    /\ SayError(why)
    /\ exit' = IF program = "smoke" THEN 2 ELSE 1
    /\ mode' = "exited"
    /\ UNCHANGED at

\* What is thrown reaches parseAsync().catch, main().catch or the smoke test's catch.
Throw(why) ==
    /\ SayError(why)
    /\ IF program = "smoke" THEN mode' = "finally" /\ UNCHANGED exit
                            ELSE mode' = "exited" /\ exit' = 1
    /\ UNCHANGED at

Kept == UNCHANGED <<program, json, typed, wallet>>
SdkIdle == UNCHANGED vars /\ UNCHANGED suiteVars

------------------------------------------------------------------------------
\* The steps.

\* commander looks at the command line first: a required option or the <uuid> that is
\* missing, an option or an argument nobody knows. It says so itself, in plain text.
ParseArguments ==
    /\ Stands({"arguments"})
    /\ \/ GoOn
       \/ /\ said' = [why |-> "usage", json |-> FALSE]
          /\ exit' = 1 /\ mode' = "exited"
          /\ UNCHANGED at
    /\ Kept /\ SdkIdle
    /\ UNCHANGED <<asked, recovered, smokeVars>>

ResolveConfig ==
    /\ Stands({"config"})
    /\ IF RequiresWallet(program) /\ ~wallet THEN Refuse("missing")
                                             ELSE GoOn \/ Refuse("missing")
    /\ Kept /\ SdkIdle
    /\ UNCHANGED <<asked, recovered, smokeVars>>

\* Mutant: parseInt alone, which reads as far as it finds digits.
WholeNumberPrefix(t) == t \in {"uint32", "beyond", "trailing"}

\* parseNonNegInt: digits from end to end, and a safe integer.
WholeNumber(t) == t \in {"uint32", "beyond"}

Meant(t) == IF t = "trailing" THEN "other" ELSE "typed"

ParseUuid ==
    /\ Stands({"uuid"})
    /\ IF WholeNumber(typed) THEN GoOn /\ asked' = Meant(typed)
                             ELSE Refuse("invalid") /\ UNCHANGED asked
    /\ Kept /\ SdkIdle
    /\ UNCHANGED <<recovered, smokeVars>>

\* The examples use parseInt; query-dkg-state may have no VAULT_UUID, and ends here.
ParseNumber ==
    /\ Stands({"number"})
    /\ \/ GoOn /\ asked' = Meant(typed)
       \/ /\ program = "query-dkg-state"
          /\ mode' = "exited" /\ exit' = 0
          /\ UNCHANGED <<at, said, asked>>
    /\ Kept /\ SdkIdle
    /\ UNCHANGED <<recovered, smokeVars>>

ParseTimeout ==
    /\ Stands({"timeout"})
    /\ GoOn \/ Refuse("invalid")
    /\ Kept /\ SdkIdle
    /\ UNCHANGED <<asked, recovered, smokeVars>>

\* Encoding a number that is no uint32 throws.
Encodes == asked = "none" \/ typed \in {"uint32", "trailing"}

\* initWasm, the clients made of a key and a URL: the step is made or throws.
Build ==
    /\ Stands({"wasm", "client"})
    /\ GoOn \/ Throw("error")
    /\ Kept /\ SdkIdle
    /\ UNCHANGED <<asked, recovered, smokeVars>>

\* Fees, thresholds, a vault, the validators; the funder's balance.
ReadChain ==
    /\ Stands({"read", "vault", "balance"})
    /\ \/ (Stands({"vault"}) => Encodes) /\ GoOn
       \/ Throw("error")
    /\ Kept /\ SdkIdle
    /\ UNCHANGED <<asked, recovered, smokeVars>>

\* The subwallet deploys its condition.
Deploy ==
    /\ Stands({"deploy"})
    /\ GoOn \/ Throw("error")
    /\ sub' \in {sub, "poor"}
    /\ Kept /\ SdkIdle
    /\ UNCHANGED <<asked, recovered, transfer, status>>

\* What a command found is printed.
Output ==
    /\ Stands({"output"})
    /\ GoOn
    /\ Kept /\ SdkIdle
    /\ UNCHANGED <<asked, recovered, smokeVars>>

\* CDRClient's getters refuse without a wallet client.
Upload ==
    /\ Stands({"upload"})
    /\ \/ wallet /\ GoOn
       \/ Throw(IF wallet THEN "error" ELSE "WalletClientRequired")
    /\ sub' \in {sub, "poor"}
    /\ Kept /\ SdkIdle
    /\ UNCHANGED <<asked, recovered, transfer, status>>

Access ==
    /\ Stands({"access"})
    /\ \/ /\ wallet /\ Encodes /\ GoOn
          /\ recovered' \in {"right", "wrong"}
       \/ /\ Throw(IF wallet THEN "error" ELSE "WalletClientRequired")
          /\ UNCHANGED recovered
    /\ sub' \in {sub, "poor"}
    /\ Kept /\ SdkIdle
    /\ UNCHANGED <<asked, transfer, status>>

\* The key is the one that was uploaded.
Verify ==
    /\ Stands({"verify"})
    /\ IF recovered = "right" THEN GoOn ELSE Throw("mismatch")
    /\ status' = IF program = "smoke" /\ recovered = "right"
                   THEN [status EXCEPT !.outcome = "success"] ELSE status
    /\ Kept /\ SdkIdle
    /\ UNCHANGED <<asked, recovered, sub, transfer>>

\* queryLatestActiveDKGNetwork; only an application aborts.
Query ==
    /\ Stands({"query"})
    /\ Client \/ Tick
    /\ UNCHANGED <<progVars, smokeVars, suiteVars>>

QueryOver ==
    /\ Stands({"query"}) /\ pc = "over"
    /\ IF outcome = "value" THEN GoOn ELSE Throw("error")
    /\ Kept /\ SdkIdle
    /\ UNCHANGED <<asked, recovered, smokeVars>>

------------------------------------------------------------------------------
\* The smoke test's subwallet.

\* The transfer is sent; its receipt comes, or the wait for it throws.
Fund ==
    /\ Stands({"fund"})
    /\ \/ /\ GoOn
          /\ transfer' = "mined" /\ sub' = "rich"
          /\ status' = [status EXCEPT !.fundTx = TRUE]
       \/ /\ Throw("error")
          /\ transfer' \in {"none", "sent"}
          /\ UNCHANGED <<sub, status>>
    /\ Kept /\ SdkIdle
    /\ UNCHANGED <<asked, recovered>>

\* A transfer nobody waits for any more is mined.
TransferLands ==
    /\ transfer = "sent"
    /\ transfer' = "mined" /\ sub' = "rich"
    /\ SdkIdle
    /\ UNCHANGED <<progVars, status>>

\* Mutant: the refund is recorded when it is sent.
SweepOutcomesEarly ==
    {[status EXCEPT !.refundError = TRUE], [status EXCEPT !.refundTx = TRUE, !.refundError = TRUE]}

\* The balance cannot be read, the sweep is refused, or its receipt does not come.
SweepFails == {[status EXCEPT !.refundError = TRUE]}

\* The finally clause: the sweep, once there is a subwallet, where a pool node that lags
\* may show it empty; then status.json, which may fail to be written; then the exit code.
Finally ==
    /\ mode = "finally" /\ mode' = "exited"
    /\ \E filed \in BOOLEAN, swept \in {status, [status EXCEPT !.refundTx = TRUE]} \cup SweepFails :
           LET o == IF status.outcome = "success" THEN "success" ELSE "failure" IN
           /\ swept # status => \E i \in 1..at : Steps(program)[i] = "fund"
           /\ swept.refundTx /\ ~swept.refundError => sub = "rich" /\ sub' = "poor"
           /\ swept = status => sub' = sub
           /\ swept.refundError => sub' \in {sub, "poor"}
           /\ status' = [swept EXCEPT !.file = filed, !.outcome = o]
           /\ exit' = IF o = "success" THEN 0 ELSE 1
    /\ Kept /\ SdkIdle
    /\ UNCHANGED <<at, asked, recovered, said, transfer>>

------------------------------------------------------------------------------
Application ==
    /\ program = "application"
    /\ Next
    /\ UNCHANGED <<progVars, smokeVars, suiteVars>>

Suite ==
    /\ program = "suite"
    /\ SuiteNext
    /\ UNCHANGED <<progVars, smokeVars, vars>>

ProgramNext ==
    \/ ParseArguments \/ ResolveConfig \/ ParseUuid \/ ParseNumber \/ ParseTimeout
    \/ Build \/ ReadChain
    \/ Deploy \/ Output \/ Upload \/ Access \/ Verify \/ Query \/ QueryOver
    \/ Fund \/ TransferLands \/ Finally
    \/ Application \/ Suite

ProgramSpec == ProgramInit /\ [][ProgramNext]_allVars

------------------------------------------------------------------------------
\* A command exits with 0 just when every step of it was made, and a key it compares was
\* the uploaded one; with another code it has reported why, as JSON if asked to, except
\* that a command line commander refuses is reported in plain text. What is reported is
\* never that CDRClient has no wallet: the configuration is refused first. And cdr-cli
\* turns to no other vault than the one typed.
EveryExitIsExplained ==
    /\ exit = 0 <=> mode = "exited" /\ said.why = "none"
    /\ exit = 0 /\ program \in {"e2e-demo", "smoke"} => recovered = "right"
    /\ said.why # "WalletClientRequired"
    /\ said.why \notin {"none", "usage"} => said.json = json
    /\ program \in Cli => asked # "other"

\* status.json agrees with the exit code, and never calls a subwallet refunded that still
\* holds its funds: money left behind (a late transfer, a failed sweep, a lagging
\* node that showed an empty wallet) shows as a missing refund transaction.
StrandedIsVisible ==
    program = "smoke" /\ mode = "exited" =>
        /\ status.file => (exit = 0 <=> status.outcome = "success")
        /\ sub = "rich" => ~status.refundTx
=============================================================================
