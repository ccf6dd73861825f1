# Verification of the CDR SDK

The CDR SDK (`packages/sdk`, `packages/crypto`, `apps/monitor`) is the client of a
confidential-data-rail network. A *vault* on the CDR contract holds a TDH2 ciphertext;
whoever satisfies its read condition pays a fee, the validators of the active DKG round
answer with partial decryptions, and the SDK combines a threshold of them. This directory
holds TLA+ models of the SDK, of the programs built on it and of the monitor, the
TLC configurations that check them, and TLAPS proofs about all of them.

## 1. Inventory

| component | code | state it keeps | operations | what it meets |
|---|---|---|---|---|
| Vault access | `sdk/src/consumer.ts` | locals of one call: pin, snapshot, key, deadline, backoff | `accessCDR`, `read`, `collectPartials`, `decryptDataKey` | contract, keeper REST, DKG rollover, owner's writes |
| Observer caches | `sdk/src/observer.ts` | promise maps per round, one promise for a constant | `getRegisteredValidators`, `getValidatorAttestations`, `getThreshold...`, `getMaxEncryptedDataSize` | Story-API answers that are late, out of order or errors |
| Registry status | `sdk/src/consumer.ts:95-143` | `_registryStatus` | `prefetchRegistry` | overlapping prefetches |
| Transactions | `sdk/src/_tx-submit.ts`, `_rpc-resilience.ts` | locals of one submission | `safeWriteContract`, `waitForReceiptResilient` | a transport that delivers twice, a node's pool, nonces |
| Uploader | `sdk/src/uploader.ts` | none between calls; vaults and stored files outside | `allocate`, `write`, `uploadCDR`, `uploadFile`, `encryptDataKey` | contract, storage, condition contracts, WASM instance |
| License minting | `sdk/src/license.ts` | none; WIP balance and allowance on chain | `mintLicenseToken` | a licensor who moves the fee, the wallet's other calls |
| File download and storage | `consumer.ts:774-846`, `sdk/src/storage/*`, `crypto/src/file-encryption.ts` | none; the storage's blocks and pins outside | `downloadFile`, `upload`, `download`, `encryptFile`, `decryptFile` | storage that fails, forgets, or serves something else |
| WASM loader | `crypto/src/wasm/loader.ts:331-408` | two `globalThis` slots | `initWasm`, `resetWasm`, `getWasm` | callers that overlap |
| WASM calls | `crypto/src/wasm/loader.ts:58-330`, `crypto/src/tdh2.ts` | the linear memory of the library | `tdh2Encrypt`, `tdh2Verify`, `tdh2Combine`, `tdh2ExtractLabel` | error codes, traps, memory growth |
| Story-API client | `sdk/src/story-api/*` | none | `fetchJSON` with retries, six wrappers, decoders | HTTP, an abort |
| Attestation | `sdk/src/attestation.ts` | none | `parseSgxQuote`, `verifyAttestation` | reports of any length and version |
| Client | `sdk/src/client.ts`, `label.ts` | the three sub-clients | getters | a missing wallet |
| Threshold monitor | `apps/monitor/src/partials-threshold/*` and its workflow | a JSON file in the CI cache | one `main()` per timer tick | chain, keeper, Slack, job death, cache loss |
| CLI, examples, smoke test | `apps/cli`, `apps/examples`, `.github/scripts/post-release-aeneid-e2e.mjs` | the smoke test: a subwallet, `status.json` | one SDK call after another, an exit code | outages, bad input, money left behind |
| Integration suite helpers | `sdk/__integration__/_*.ts` | N ephemeral wallets, a pool's counter and queue | sizing, batch funding, `pLimit`, flake retry, sweep | reverted batches, fee rises, sweeps that land late |
| Conditions, errors, logger, types, ABIs | rest of `packages/*` | none | encodings, declarations | |
| DKG-round monitor and test workflows | `.github/workflows` | one state file | a shell script | |

How they interact: the Consumer asks the Observer for keys, thresholds and trust sets and
the transaction module to submit and confirm; the Uploader and the LicenseClient use the
same transaction module, the Uploader also the WASM loader; the monitor is a separate
program that watches what the Consumer's reads leave on the chain and at the keeper. All of
it is single-threaded JavaScript: **every `await` is a point where every other party, and
every other call of the same process, may step**, and between two awaits nothing does. The
models put one action between two awaits.

What makes each part correct, and hard to test: section 4 names the property; the list with
source lines is `hazards` in `PROJECT.json`.

## 2. Modules

| module | models | composes / used by |
|---|---|---|
| `ThresholdAccess` | what a vault access promises its caller, abstractly | implemented by `VaultAccess` |
| `VaultAccess` | one call of `accessCDR`, or of `read` then `collectPartials`, with contract, DKG and keeper | `MCVaultAccess`, `VaultAccessProofs` |
| `ObserverCache` | the promise maps, the constant's promise, `latest_active`, `prefetchRegistry`'s status | `MCObserverCache`, `ObserverCacheProofs` |
| `WalletLedger` | what the submissions of one wallet promise their callers, abstractly | implemented by `TxSubmit` |
| `TxSubmit` | `safeWriteContract` and the receipt wait, several calls of one wallet | `MCTxSubmit`, `TxSubmitProofs` |
| `ThresholdMonitor` | runs of the monitor, its file, Slack | `MCThresholdMonitor`, `ThresholdMonitorProofs` |
| `WasmLoader` | `initWasm` / `resetWasm` | extended by `Uploader` |
| `Uploader` | overlapping `uploadCDR`, `uploadFile`, `write` over `WasmLoader` | `MCUploader`, `UploaderProofs` |
| `LicenseMint` | overlapping `mintLicenseToken` calls of one wallet | `MCLicenseMint`, `LicenseMintProofs` |
| `WasmCalls` | the four calls into the compiled library, allocation by allocation | extended by `FilePipeline` |
| `FilePipeline` | files from `uploadFile` through a provider and a vault to `downloadFile` | `FilePipelineProofs`; checked as it is |
| `Attestation` | `parseSgxQuote`, `verifyAttestation` as operators | extended by `StoryApi` |
| `StoryApi` | one query: `fetchJSON`, the wrapper, the decoder, the trust set | extended by `Programs` |
| `EphemeralWallets` | the life of an integration suite's wallets | extended by `Programs` |
| `Programs` | every program of the repository, a process at a time | `MCPrograms`, `ProgramsProofs` |
| `...Proofs` | inductive invariant, lemmas and theorems of the module they are named after and of those it extends (`UploaderProofs` of `WasmLoader`, `FilePipelineProofs` of `WasmCalls`, `ProgramsProofs` of `StoryApi`, `Attestation` and `EphemeralWallets`) | |

Conventions. A definition keeps the source's name where TLA+ lets it; `pc` (or `at`) is the
await a call stands at; an `End`/`Settle` action is a throw or a return with everything the
`finally` clauses on the way do. Operators with the word *Mutant* above them are not used by
the specifications: each is a plausible bug of the definition after it, kept to show that a
property would notice. Definitions marked external in `PROJECT.json` (contract, keeper, DKG,
node, the RPC's answers) model code outside the repository as the SDK relies on it.

### VaultAccess

`Begin`, `GetGlobalPubKey` and `Preflight` are `accessCDR` before and inside its `try`
(694-723, 553-571); `QueryFee` to `AwaitReceipt` are `read`; `StartCollect` to `WakeUp` are
`collectPartials` (378-551) with one action for each await of the loop, so that the vault,
the round and the buckets can change between the snapshot (`QueryAnswer`), the threshold
lookup (`EvaluateGroup`), the trust set (`LoadTrustSet`) and the filter. `key` is the bytes
of the private key: `live`, or `zeroed` by the `finally` clause (`Settle`). Time runs in the
poll loop only, in units in which the interval grows by half rounded down. The keeper's list
is a set, so "the first `sdkThreshold` of them" is any subset of that size; its
`threshold_met` flag may lag behind its own list but is never raised early, and its replies
are taken to be complete. `Pid` gives a validator a pid in each round, the same or another:
`onInvalidPartial` is deduplicated by both (491), so `reports` counts its calls by the pair.
An ECIES or TDH2 failure is one throw of `Decrypt`.

`ThresholdAccess` says the same call in six actions, without fees, polls, caches or clocks:
the caller settles once on what the vault holds, and the key it gets is put together from
exactly as many partials of one round as that round asks for, only for a read that was paid.
`VaultAccess` implements it under the mapping of its last section: the read is paid when its
transaction succeeded, the target is `pinned`, the partials used are `result`.

### ObserverCache

A cache entry is the number of a request. A request is sent, **sampled** by the server at a
later moment and received (or rejected) later still, in any order. A settled promise runs
its handlers in the turn in which it settles (`SettleCaches`): the identity-checked evictions
of `loadNetwork` and `loadRegistrations`, and `fetchLatestActive` filing its answer under
its round. Stages are collapsed to forming, active, ended and failed. The promise of
`getMaxEncryptedDataSize` is one more entry, of a request of kind `size`. A prefetch remembers
in `late` whether it settled after a later one had been started.

### TxSubmit

Both account kinds (the SDK signs, or the node does) and both habits of the caller (calls
overlap or not) are settings chosen in `Init`. `Deliver` hands a submission to the node once
more, `LoseSubmission` drops the answer, `Recover` is one round of the nonce scan. Gas,
fees and replacement by a higher price are left out; the node refuses a second transaction
with a nonce of its pool and says which of the refusals of `isAlreadySubmittedError` it is.

`WalletLedger` says the same without nonces, transports and scans: a call enters its payload
at the end of the wallet's ledger, once; the chain executes the ledger in order; a call
reports a receipt only when it has an entry. How far calls may get in each other's way is
its `kind`: each has its entry and its receipt (`own`, when calls do not overlap); calls that
ask for the same may be served by one entry (`shared`, when the SDK signs); or each has its
entry but may report another's receipt (`traded`, when the node signs). `TxSubmit`
implements it: the ledger is what is pending or mined, nonce by nonce, and a call's entry is
its transaction, once the node has answered for it.

### ThresholdMonitor

`StartRun` reads the head and the file, `Sweep`/`SweepLater` ask the keeper for each expired
request, `Ingest` scans the logs, `Alert` posts, `Save` writes the file and the workflow
puts it in the cache. A run that fails leaves the cache as it was (`RunThrows`), or dies
after its post (`RunKilledAfterPost`); `LoseCache` is an evicted or truncated file.
`outage` is the keeper, the RPC or Slack not answering; failures need one. The keeper
accepts partials up to the deadline block inclusive. Its `threshold_met` flag may be down for
a list that is full when a run asks: `Met` needs both, as `classifyExpired` does, and
`lagging` remembers the requests it happened to.

### Uploader and WasmLoader

A vault is its uuid, a ciphertext the label it was made with and the call it comes from.
Transactions may land or revert at any time, also after the call that sent them gave up.
`Probes` says what an address answers to the two simulated calls of
`validateConditionContract` (a condition contract, an account without code, another
contract, a fallback that returns, a fallback that reverts with a payload); `Accepted` is
the code's verdict. The loader keeps the two slots; `Finally` clears the slot whoever's
promise is in it. It is a step of its own: the clause runs in a job queued when the promise
settles, and calls of `initWasm` from jobs queued before it still find the promise.

### LicenseMint

`PredictFee`, `CheckBalance`, `CheckNative`, `CheckAllowance` are the reads of
`mintLicenseToken`, `Submit`/`Confirm` its `writeAndConfirm`. The options `autoWrap`,
`autoApprove` and a client without `getBalance` are consulted once in a call, so each is a
choice at that point. The contracts are taken at the code's word: a mint costs the fee of
the moment and reverts above `maxMintingFee`, 0 being a limit of 0.

### WasmCalls and FilePipeline

`Steps` lists what each of the four calls allocates, asks of the library and frees, in the
order of `CbMpcWasm`; a combine's are given by cases (`BeforeLeaves`, three steps for each
of the `Partials`, `AfterLeaves`), so that the position of a step is known for any number of
partials. `Finally` is what the `finally` clauses around a step release and
`ByHand` what `tdh2Combine` releases outside any. A library call answers, reports a code
(`CodeStep`) or traps (`TrapStep`), and whatever allocates may grow the memory, after which
`resize_heap` hands out new views. A call runs to its end before JavaScript does anything
else: `FilePipeline` lets no other step in while one is running.

`FilePipeline` follows a file through `uploadFile` (`StartUpload`, `Add`, `Pin`, `Allocate`,
`PinUniterated`, `Encrypted`, `CheckLabel`, `Write`) and `downloadFile` (`Collect`,
`Combined`, `Fetch`, `Open`). The providers differ in what their CIDs are the hash of
(`Codecs`) and in who pins (`Pinning`). Gateway's pin is confirmed or fails (`Pin`); Helia's
`pins.add` is an async generator (6.0.22 is locked), which `helia.ts:39-41` awaits without
iterating it, so that nothing is pinned and nothing fails (`PinUniterated`). A key is named
after the upload that drew it, and AES-GCM opens what was sealed under the key. The vault
access is one step here, `VaultAccess` being about it.

### Attestation and StoryApi

A report is its length, two numbers as byte pairs at their offsets and two measurements.
`StoryApi` is one query of one of six kinds: `StartAttempt` to `NextAttempt` are the loop of
`fetchJSON` (an abort before an attempt, during it, or during the backoff, which it does not
cut short), `ListCatching` the 404 of the three lists, `Decoded` the decoders' verdict on
the fields that depend on the stage. `TrustSet` is what `loadRegistrations` and
`getTrustSet` make of the registrations.

### EphemeralWallets and Programs

`Funded` starts what `pLimit` admits in one tick, `Release` is its `finally` clause, `Admit`
the resumption of a waiter; `Cycle` is one attempt under `withAeneidFlakeRetry`;
`ReadBalance`, `SendSweep` and `Report` are `refundWallets`. `SweepLands` is a sweep whose
receipt came too late.

`Programs` gives each program as the sequence of its fallible steps (`Steps`) with `GoOn`,
`Refuse` (the configuration) and `Throw` as the three ways on, so that every exit of the six
commands, the four examples and the smoke test passes through its own error handler.
`ParseArguments` is commander's look at the command line before a command's action, with an
error in plain text of its own; `--help` and `--version` run no command. An SDK
call is one step that resolves or throws, except the Story-API query, which is the module
itself. The smoke test's `Fund`, `TransferLands` and `Finally` keep account of its subwallet
and of `status.json`.

## 3. Runs and bounds

| run | states | instance | why it is enough |
|---|---|---|---|
| `VaultAccessVersions` | 403,826, symmetric | 2 ciphertexts, 1 round, 3 validators, 2 fees, timeout 2 | an overwrite needs a second ciphertext and nothing more; the loop polls twice, before and after it |
| `VaultAccessRollover` | 599,289 | 1 ciphertext, 2 rounds with different committees, attestations, thresholds and pids, ratio 2/5, timeout 6, interval 2 then 3 | one rollover at every point of a loop that polls three times; the third sleep must be clamped |
| `ObserverCacheLoads` | 1,478,727, symmetric | 1 round, 2 validators, 2 prefetches, 4 requests | four requests allow an eviction and a late answer with two newer requests behind it |
| `ObserverCacheStale` | violation | 3 requests | |
| `TxSubmitCalls` | 23,057 | 2 calls, 2 deliveries each, all four settings | a collision needs two parties; they ask for different things, so that an entry shared by two calls (`Join`) is met in the proof only |
| `MonitorRuns` | 1,285,832 | 2 keys, 2 reads, 2 rounds, threshold 2, timeout 1, 4 blocks, 1 mishap | a request is made, expires and is swept within four blocks; the first scan, a scan after a lost cache and consecutive scans all occur, and a flag that lags |
| `UploadCalls` | 1,789,103, symmetric | 2 calls of any flow, 2 `initWasm`, 1 reset | two allocations that interleave; a load that fails, is joined, or is reset |
| `UploadReverted` | violation | 1 call | |
| `LicenseMints` | 450,620, symmetric | 2 mints, fees 0..2, holdings 0, 1 or 3, allowance 0, 1 or unlimited, 2 fee changes | a retry after a failed mint and two overlapping mints; the fee rises, falls or both |
| `FileRoundTrips` | 1,496,676 | 2 files of either size, 4 providers, 2 partials, 1 growth | bytes of one file served for the other; every allocation of every call may be the one that grows the memory |
| `FileComesBack` | violation | same | |
| `ProgramRuns` | 2,203,180 | every program; 3 wallets in a pool of 2; 5 registrations, 3 configurations | a queue behind a full pool; three attempts of a cycle; reports too short, of another version, with a number whose high byte counts |

Bounds are constants named in the guards they limit (`MaxRequests`, `MaxDeliveries`,
`MaxHead`, `MaxReads`, `MaxMishaps`, `MaxResets`, `MaxChanges`, `MaxGrowth`). In
`EphemeralWallets` the fees rise once, by double, between the sizing and the first cycle, and
a flaky attempt has paid for all three of its transactions, the worst it can have done; the
suite gives a wallet 28 (`BaseGasBudget` 10 and three cycles of three fees of 2), where three
attempts cost 27. Programs share no state, so one process at a time is all there is to see.
`CHECK_DEADLOCK FALSE` is set where a behaviour really ends because all calls are over, the
process has exited or the bound of requests is used up; `VaultAccess` has a `Rest` step
instead and `ThresholdMonitor` never stops, so deadlock is checked in both.

Fairness. `VaultAccess`: weak fairness of the clock and of the client's steps but those that
await a Story-API request (`StoryApiWaits`): viem's transport and the receipt wait have
deadlines, but `fetch` has none (`transport.ts:47`) and the poll loop passes it no signal.
That such requests come back is the premise of `EndsOnceAnswered`; nothing is assumed of
chain or keepers. `TxSubmit`: weak fairness of each call's own steps, whose scans and waits
have deadlines. `ThresholdMonitor`: blocks are mined, the timer starts runs and runs
proceed, and outages are temporary (`<>[]~outage`): without the last nothing could promise
that a request leaves the file. The other modules state safety only: what they await either
has a bound of its own that another module models, or none at all (a `fetch` of the
Story-API client has no timeout of its own, so a query need not end).

## 4. What the runs show

*Vault access.* The partials combined are exactly the threshold of their own round, made for
the ciphertext pinned, attested in that round (`ResultCombines`); the pin never changes
(`OnePin`); a call refused before its read is mined pays nothing (`RefusalsAreFree`); a
generated key is cleared on every way out of the `try` block and intact when needed
(`KeyLifetime`); a timeout reports a shortage at the end of the budget
(`TimeoutIsShortage`); the bucket looked at never falls back to an older round
(`RoundsOnlyAdvance`), and a call whose Story-API requests come back, with whatever answers
or errors, ends (`EndsOnceAnswered`). `CallInv` is the inductive invariant of section 5; it
has the invariants above as conjuncts, and among the others are that no fee is paid for an
empty vault (`NoReadOfEmptyVault`), that sleeps stay within the budget (`WakesWithinBudget`)
and that a dropped validator is reported once under each pid it has (`ReportsOnce`). And the
whole call implements `ThresholdAccess` (`ImplementsThresholdAccess`).

*Observer.* An entry stands for no failed promise, a network that is kept is final and
registrations are kept for stable stages only (`EntriesAreSound`); a round's network is
requested once at a time (`SingleFlight`); an entry is given up by its own promises only
(`EntriesAreKept`); the status is that of the most recent prefetch, unless an earlier one
settled later (`StatusJustified`).

*Transactions.* At most one landing per payload (`LandsOnce`), the hash is the call's own or
in flight, both when calls do not overlap (`ReturnedIsHalfReal`),
calls end (`EveryCallEnds`), and the calls of a wallet implement `WalletLedger`
(`ImplementsWalletLedger`): above all, no call reports a receipt whose own payload has not
entered, also where receipts may be traded.

*Monitor.* Scan ranges leave no gap (`OpenReadsWatched`), alerts are true and final but
where the keeper's flag lagged (`AlertsAreTrue`), repeated only after a mishap
(`RepeatsOnlyAfterMishap`), requests leave the file only resolved (`LeavesOnlyResolved`) and
do leave it (`Resolved`).

*Uploader, loader.* A vault holds a ciphertext with its own label unless a direct write went
around the check (`LabelBound`); an upload writes its own vault (`OwnVault`); conditions are
what they were checked to be (`ConditionsImplement`); those who are given a load end as it
does, and a load whose caller was told its end is given to nobody (`LoaderIsShared`).

*License.* A mint that runs alone is sent fully funded and wraps only what is missing
(`MintIsPrepared`), costs at most the prediction (`NeverOverpays`), returns its own token
(`TokensAreOwn`).

*Files, library.* What is downloaded is the file the vault was made for, whatever the
storage serves (`ContentIsAuthentic`); bytes that are not the stored ones are refused as
such (`WrongBytesAreNamed`); a vault made with `pin` refers to a file the storage keeps, but
for Helia (`VaultsKeepTheirFile`); no call into the library writes through a detached view,
frees twice or keeps a block past a return or an error code, and a trap loses memory at one
place only, before `tdh2Combine`'s `try` block (`WasmIsTidy`).

*Programs.* A query comes back with what its last attempt met, after three attempts spread
over the backoff if that was an outage (`OutcomeIsEarned`); a partial is taken from a
validator just when it is finalized and its quote says what was asked for (`TrustIsEarned`);
a program exits with 0 just when all its steps were made, and otherwise has said why, as
JSON if asked to unless commander refused the command line (`EveryExitIsExplained`); a
subwallet that still holds its money is never reported refunded (`StrandedIsVisible`). In a
suite the pool is never over its limit or idle with a queue (`PoolIsTight`), a wallet's fund
lasts through three attempts (`FundsCoverRetries`), and what the refund reports has arrived
(`RefundReportIsHonest`).

### Where the code and its texts disagree

| run | text | code |
|---|---|---|
| `ObserverCacheStale` | an entry is kept only when it can no longer change (`observer.ts:334`) | the registrations may have been read before the network that vouches for them |
| `UploadReverted` | `ContractRevertError` for a reverted transaction (`USER_GUIDE.md:456`) | `write` ignores the receipt's status; nothing throws that error |
| `FileComesBack` | `uploadFile` / `downloadFile` over IPFS, Storacha or Filecoin (`README.md:77`, `:137`) | `downloadFile` takes the CID for a hash of the raw bytes (`consumer.ts:836-839`): a UnixFS node's or a PieceCID never matches |

Other differences are stated as the exception inside a property that holds:

- `KeyLifetime`: the generated private key "is zeroed after use" (`consumer.ts:653`), but a
  failing `getGlobalPubKey` (713) throws before the `try` block;
- `ReturnedIsHalfReal`: both recovery mechanisms "end at the real tx hash" (`_tx-submit.ts:46`),
  but with overlapping calls of one wallet the loser of a nonce returns a hash that never
  lands (126);
- `OpenReadsWatched`: each `(uuid, requesterPubKey, ciphertext, block)` is recorded
  (`apps/monitor/README.md:31`), but the key is `(uuid, ciphertext)` (`index.ts:139`) and the
  second reader's request is dropped;
- `StatusJustified`: `registryStatus` is that of the most recent prefetch
  (`consumer.ts:103-105`), but an earlier one that settles late overwrites it;
- `EndsOnceAnswered`: polls are "bounded only by `timeoutMs`" (`USER_GUIDE.md:305`), but a
  Story-API request that is never answered is waited for for good (`transport.ts:47`);
- `AlertsAreTrue`: `classifyExpired` asks for the keeper's flag beside the list
  (`logic.ts:56`), so a flag that lags behind it makes an alert for a request that has its
  partials;
- `VaultsKeepTheirFile`: `pin` is to "Pin the file for permanent storage"
  (`storage/types.ts:3`), but `HeliaProvider` never iterates what `pins.add` returns
  (`helia.ts:39-41`), and nothing is pinned;
- `EveryExitIsExplained`: with `--json` "errors emit" JSON (`apps/cli/src/index.ts:16`), but
  commander, without an `exitOverride`, reports a missing option or `<uuid>` in plain text;
- `LoaderIsShared`: after a failure "the next caller should retry" (`loader.ts:381-382`), but
  one that comes between the rejection and the `finally` clause is given the failed load;
- `LoaderIsShared`: after `resetWasm` during a load the old load still installs its instance,
  and its `finally` clause clears the new load's slot;
- `FundsCoverRetries` and `RefundReportIsHonest`: `fundWallets` does not look at the batch's
  status, so that a reverted batch still counts as funded.

And some are modelled without a property: `feePaid` of a mint is the predicted fee, more than
was paid when the licensor lowers it meanwhile; two mints that overlap read the same WIP
balance and one of them may fail; an upload that fails after its allocation leaves the vault,
and after its `add` the stored file; the smoke test leaves without a `status.json` when a
variable is missing (`post-release-aeneid-e2e.mjs:47-52`, against 26-29).

## 5. What is proved

Every safety property that a passing run checks is also a theorem about the specification
for every value of the constants: any number of rounds, validators, calls, prefetches,
blocks, files, partials or wallets, any fees, thresholds and time limits. The bounds of the
runs (`MaxRequests`, `MaxHead`, `MaxGrowth`, ...) are constants too, so that nothing depends
on how small they are. `PROJECT.json` lists the theorems with the property each one states.
Beside them stand type correctness (`TypeCorrect`), that no read of an empty vault is sent
(`NoReadOfEmpty`), that uploads share no vault (`VaultsAreNotShared`), that an outcome is
the receipt of a mined transaction with the call's payload when the SDK signs or calls do
not overlap (`OutcomeOfReceipt`; of overlapping calls the node signs for, one may report
another's), and the inductive invariants themselves where they say more than the properties.

### Along which argument

None of the properties is inductive alone: each is about the end of a story, and only what
holds at every await on the way carries it there. Each proof module therefore opens with one
invariant, a conjunction of named places; has a lemma per action (in larger modules one per
action and conjunct) that it is kept; and reads the properties off it at the end.

| module | invariant | what it adds to the properties, and why |
|---|---|---|
| `VaultAccessProofs` | `CallInv` (in `VaultAccess`, and checked there) | `PinPlace`: where the pin has been taken, without which "the bucket of the pinned ciphertext" means nothing; `GroupPlace`: a snapshot is a part of its bucket, `needed` the threshold of its round; `ShortagePlace`: the pair the error would report at each place where the loop may give up; `KeyPlace`, `ReadPlace`, `ResultPlace` |
| `TxSubmitProofs` | `SubmitInv` | `NodePlace`: what stands at a nonce is somebody's submission, pending or mined but not both; `NoGap`: nonces are used without holes, so that a nonce the node would take is nobody's; `Alone`: without overlap the nonce a call holds stays its own; for the refinement, `Answered`: what the node's answer says of the nonce it was given |
| `ObserverCacheProofs` | `CacheInv`, `StatusInv` | `RequestPlace`: an unsettled request is the entry of its cache, and what a server said of a stable round still holds; `NetworkEntry`, `RegistrationEntry`: an entry's promise, and the one behind it, are of its round; `StatusInv`: prefetches start in order |
| `ThresholdMonitorProofs` | `MonitorInv` | `WindowPlace`, `RunPlace`: a run only sorts what the file held, and looks no further than its `now`; `CoverPlace`: what it will write covers what it scanned; `Accounted`: a request is dropped for a reason; `Justified`: a shortfall is hopeless or its flag lagged; `AlertPlace`: every post is paid for by the first alert or by a mishap |
| `UploaderProofs` | `UploadInv` | `LoaderInv`: until a reset the load in flight is the one in the slot, and a call that was given a load waits for it or has settled; `VaultPlace`, `GrantPlace`: a vault is granted once, and holds what a mined transaction of its call carried; `CallPlace`: what a call has behind it at each await |
| `LicenseMintProofs` | `MintInv` | `CallPlace`; `TokenPlace`: every mint takes the next token; `AlonePlace`: while a call that is alone may still change the wallet no other may, so that a balance read is the balance spent |
| `FilePipelineProofs` | `FileInv`, `WasmInv` | `UpPlace`: the file sealed, its CID, the pin (but Helia's), and only then the vault; `DownPlace`: a payload is of the vault asked for, and the bytes differ from the stored ones only if they were served so; `WasmInv`: at every step exactly `Held(body, at)` is allocated |
| `ProgramsProofs` | `QueryInv`, `ProgramsInv`, `SuiteInv`, `MoneyInv` | `ClockPlace`: attempt *n* starts when the backoffs before it have passed; `ExitPlace`: an error has been said when it ends the run; `SubwalletPlace`: money is where a mined transfer put it; `PoolPlace`: a cycle waits once; `FundPlace`: what a wallet lacks it has spent on attempts; `MoneyPlace`: all money is in a wallet, paid or back, and what is back was swept, but where a sweep landed after it was given up on; `ReportPlace`: a report stays true of the sweeps |

Some steps of these arguments are worth a remark.

- *Refinement.* Two theorems of that name prove that `VaultAccess` implements
  `ThresholdAccess` and `TxSubmit` implements `WalletLedger`: initial
  states map to initial states, and every action to the abstract one named beside it in the
  proof or to a stutter. The first needs `CallInv`: the step that hands out the key is
  allowed above only because the result is known to be a threshold of one round. The second
  needs `SubmitInv` and `Answered`: a delivery that is accepted is a new entry because the
  nonce was free, hence no earlier delivery of the call was answered for; and a node that
  signs never refuses the nonce it gave, so that even a call that trades receipts has landed.
- *Action properties.* `PinnedOnce`, `RoundsAdvance`, `EntriesStay` and `NothingIsDropped`
  are about steps. `RoundsAdvance` follows because buckets never lose their
  submissions, so that the newest matching round can only move up.
- *The table of the library's calls.* `AllTidy` says of every step of every call what the
  next one expects to hold and that the clauses around it release just that.
  It is proved once, step by step for the calls of fixed length and by the step's place in
  the loop (modulo three) for `tdh2Combine`; that no step leaks or frees twice is then one
  short lemma (`CallStepKeeps`).
- *Alerts.* An alert stays true because the keeper takes partials until the deadline only,
  and only for rounds that were active: a request that is hopeless once stays so
  (`Hopeless`); what is alerted is hopeless or was asked for while its flag lagged.
- *Sums.* The accounts of a suite are sums over its wallets. The library's principles of
  induction take an operator, which the provers cannot instantiate, but its least-element
  principle takes a set: `NatsAreReached` and `SubsetsAreReached` state induction for sets of
  numbers and of subsets, `SumsAreDefined` shows by it that a sum unfolds, and `SumChange`
  that it follows the change of one term. With that `RefundsAreHonest` is an argument about
  single wallets: `PaymentKeeps` and `RefundKeeps` move money, and its total stays.
- *Funds.* `FundsSuffice` is an inequality over all fees: three attempts of three fees and
  three times the gas are within what `PerWalletFund` sends, given `GasAssumption`.

### From which assumptions

The assumptions stand, named, in the module that declares the constant, and the
runs evaluate them.

- `VaultAccess`: rounds are a finite non-empty set of naturals; committees and attested sets
  are finite; the ratio is between 0 and 1 (the constructor of `Observer` enforces it); the
  interval floor is positive and not above the ceiling (`collectPartials` enforces it).
- `TxSubmit`: finitely many calls. `Uploader`: finitely many calls. `ObserverCache`: rounds
  are naturals, prefetches are numbered from 1. `ThresholdMonitor`: rounds are naturals, the
  threshold is positive. `LicenseMint`: fees and standing allowances are naturals no larger
  than the unlimited allowance.
- `FilePipeline`, `WasmCalls`: providers are the four the code has; a combine is given any
  number of partials.
- `StoryApi`: finitely many registrations, in which a report long enough has its numbers as
  pairs of bytes at their offsets (`ReportsAssumption`). Of a shorter one only its length counts.
- `EphemeralWallets`: wallets are listed without repetition, the pool admits at least one,
  a sweep's reserve covers its gas; `GasAssumption`: the base budget covers the gas of three
  attempts, which is what its comment in the suite claims for it.
- `None`, `Empty`, `Other` are values of their own.

### What stays with TLC

- `EndsOnceAnswered`, `EveryCallEnds` and `Resolved`: liveness under fairness is out of the
  prover's reach.
- The three runs that expect a violation: a counterexample is TLC's to give.

No module has a `RECURSIVE` operator, so that all of them can be proved about.

## 6. Not modelled, and why

- The generated WASM glue (`cb-mpc-tdh2.mjs`, 3,985 lines) but for the growth of the memory,
  and the contract ABIs (1,117 lines): generated code; contracts are modelled as the SDK
  relies on them.
- The mathematics of TDH2, ECIES and AES-GCM: taken at their word. `verifyPartialSignature`
  is called by no program of the repository. A `malloc` that fails is left out.
- ABI encoding of condition data, error classes, logging, type declarations: no behaviour.
- The DKG-round monitor's shell script and the test workflows: the first's state file and its
  post-then-save order are the threshold monitor's, the others run the test suites.
- Of the integration helpers, the latency statistics and the printing; the tests themselves;
  `setWasmForTesting`.
- `pLimit` entered by callers that arrive while a waiter is being resumed: its callers enter
  it in one tick.
- Nonce order between calls of one wallet in `Uploader` and `LicenseMint` (`TxSubmit` has
  it).

## 7. Plan

Built: `VaultAccess` with its proofs, `ObserverCache`, `TxSubmit`, `ThresholdMonitor`,
`WasmLoader`, `Uploader`, `LicenseMint`; then `ThresholdAccess` and its refinement,
`WasmCalls` and `FilePipeline`, `Attestation` and `StoryApi`, `EphemeralWallets` and
`Programs`; then the proofs of all of them, and of the refinement; then `WalletLedger` and
its refinement.

Left, if it is wanted: `Uploader` and `LicenseMint` over `WalletLedger` in place of their own
account of a transaction, so that what the refinement says of one wallet's overlapping calls
carries over to theirs.
