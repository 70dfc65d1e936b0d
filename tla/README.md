# Formal models of cardano-on-evm

This directory holds TLA+ models of the stateful parts of the repository, the
TLC configurations that check them on small instances, and TLAPS proofs about
them. Paths below are relative to the repository's root (`src/` here).

The program lets the holder of an ordinary Cardano wallet own an ERC-4337
account: the wallet signs a one-time challenge (enrollment), its verified key
determines an account address, and later signatures over UserOperation hashes
authorize what the account does on an EVM chain. Around that core stand a
reference page and server, a journal that submits ordinary transactions, a
private bundler service, a set of commands that operate the whole on a live
chain and keep evidence of it, and the pipeline that releases the packages.

## Inventory

| Part | State | Operations | Interacts with | What is hard | What makes it correct |
| --- | --- | --- | --- | --- | --- |
| Enrollment (`packages/enrollment`: `service.ts`, `store.ts`, `sqlite.ts`) | challenges in a Map or SQLite table | `issue`, `enroll`, `put`, `get`, `consume`, `prune` | wallets (signatures), identity derivation (RPC), reference server | `enroll` reads the record, awaits, then consumes; replicas with other clocks and configurations; crashes; damaged rows | a challenge is used once, by its own address, in its own scope, before it expires |
| Identity derivation (`identity.ts`, `table-service.ts`) | none | derive key material, CREATE2 addresses, check deployed tables | chain (reads) | RPC failures between verification and consumption | same inputs, same address |
| Submitter journal (`scripts/lib/live-context.ts`, `canonical-receipt.ts`) | journal file, lock file | `liveContext`, `transact`, `release` | node RPC, other processes, reference server (direct mode) | stale pending counts, lost answers, kills between and inside writes, processes that overlap | no nonce and no id used for two transactions, outcomes never lost, the lock freed |
| Bundler service (`infra/bundler/src/service.mjs`, `run.mjs`, `worker.mjs`) | worker process, gateway, lifecycle file, `stopPromise` | start, readiness, `stop`, `reload`, exit | worker over IPC, operator signals, gateway | the worker may exit, a signal arrive or a save fail at every await | clean and complete shutdown, right exit code, no orphan |
| Gateway (`gateway.mjs`) | current configuration, token bucket, active count, counters | request, reload, stop | worker over HTTP, service | configuration replaced while requests are under way; overlapping reloads | limits hold, counts return to zero, what was revoked stays revoked |
| Admission and configuration (`admission.mjs`, `config.mjs`) | none | `admitOperation`, `validateConfig` | gateway | agreement with the account's own policy decoding | never admits a call it cannot decode |
| Reference server (`scripts/reference-server.ts`) | sessions, operations, evidence files | enroll, state, submit, status | enrollment, adapters, journal, chain | the same authorization in two requests or after a restart; status racing submission; a failing write | an authorization is handed over once, after its evidence; memory and file agree; outcomes are the chain's |
| Wallet connector, CIP-8 (`packages/wallet`) | enabled API, captured addresses, `invalid` flag | connect, addresses, `signData`, verify | browser wallet | account or network switched between calls | a signature is for the address and network shown |
| SDK (`packages/sdk`) | none | `enrollCardanoAccount`, `signOperation`, encode and decode | wallet, enrollment, adapters | decoded calls shown to the user must be the signed ones | the operation's own hash is what is signed |
| Submission (`packages/submission`) | request queue per `httpRpc` | `submit`, `status`, `inclusionFromReceipt` | bundlers, node | timeouts with unknown results, spacing queue, wrong or made-up answers | an inclusion is reported only for the exact operation |
| Protocol (`packages/protocol`) | none | identities, profiles, operation payloads | everything | encodings agree with the contracts | injective bindings |
| Contracts: policies and hook | immutable policy | `check`, `preCheck` | Kernel | batches, execution modes | nothing outside the policy runs |
| Contracts: factories, validators | accounts, tables, installation flags | `prepare`, `createAccount`, `validateUserOp`, `onInstall` | EntryPoint, Kernel | front-running, repetition, replay over chains | only the enrolled key's configuration is ever installed |
| Contracts: Ed25519 (`contracts/crypto`) | prepared tables | `verify` | validators | arithmetic | equals RFC 8032 verification |
| Applications (`apps/`) | page state | connect, enroll, review, sign | SDK, reference server | the wallet changes under an open page | actions need a current session |
| Worker installation (`infra/bundler/scripts`, `patches.mjs`) | installed package, source tree, compiled output, build record | `npm ci`, `prepare`, `fetch-source`, `build-source` | bundler service (start checks) | kills half way, updates of the repository between commands | a worker is started only from files one complete build produced |
| Live commands (`scripts/fund-base-sepolia.ts`, `wallet-server.ts`, `scripts/experiments/prepare-*.ts`, `submit-live-operation.ts`, `measure-live.ts`) | deposit journal, manifests, requests, signatures, evidence | fund, prepare, request, capture, submit, measure | submitter journal, bundlers, chain | every command may be killed and rerun; answers are lost; preconfirmed blocks vanish; others use the same chain | nothing sent is forgotten or repeated; evidence is what was mined; a signed request can execute |
| Release pipeline (`scripts/release/{candidate,github,version,publish}.mjs`, `.github/workflows/release.yml`) | workflow runs, sealed candidates, approvals; tag, draft, release and assets on GitHub | resolve, build, seal, review, recover, publish | GitHub, maintainers | the publication job dies at any call and is run again; a recovery or another candidate takes the same version; a maintainer changes tag or release between two calls | what is public is one reviewed and approved candidate, whole; nothing is overwritten |
| Other tools (loopback experiments, CI, package builds), vendored code | files | command line | everything | | outside the models |

How they meet at run time: a page asks the reference server for a challenge
(enrollment service), has the wallet sign it and posts it back; the answer opens
a session. The page then builds an operation, the wallet signs its hash, and
`/submit` checks it against the session and gives it to an adapter: a public
bundler, the private bundler's gateway (which forwards to its worker), or the
direct adapter, which is a transaction of the submitter journal. `/status` asks
the adapter and then the chain itself. Submission and status requests of one
operation run concurrently and meet in the operation record and evidence file.

## Modules

| Module | Models | Runs |
| --- | --- | --- |
| `OneShotChallenge` | abstract: what enrollment promises about a challenge | refinement target of `enrollment_shared` |
| `Enrollment` | `packages/enrollment/src/service.ts`, `store.ts`, `sqlite.ts` | `enrollment_shared` |
| `EnrollmentProofs` | theorems about `Enrollment` | |
| `SubmitterJournal` | `scripts/lib/live-context.ts`, `canonical-receipt.ts` | `journal`, `journal_processes` |
| `SubmitterJournalProofs` | theorems about `SubmitterJournal` in one process | |
| `WorkerBuild` | `infra/bundler/scripts/{prepare,fetch-source,build-source}.mjs`, `patches.mjs`, the checks of a start | part of `BundlerService` |
| `BundlerService` | `infra/bundler/src/service.mjs`, `run.mjs`, `worker.mjs` | `bundler_service`, `bundler_worker_exit` |
| `BundlerServiceProofs` | theorems about `BundlerService` and `WorkerBuild` | |
| `ReferenceServer` | `scripts/reference-server.ts` | `reference_server`, `reference_server_evidence` |
| `ReferenceServerProofs` | theorems about `ReferenceServer` | |
| `CurveArithmetic` | the point formulas of `contracts/crypto` | part of `ScalarMul` |
| `ScalarMul` | `CheckedMul.sol`, `PrecomputedMul.sol`, `EightDimensional.sol`, `CardanoEd25519.sol`, the key checks of the validators | `scalar_mul` |
| `CallPolicies` | call and policy encodings of `packages/protocol`, `AllowlistPolicies.sol`, `RestrictedExecutionHook.sol` | part of `ProfileAccounts` and `Admission` |
| `ProfileIdentity` | the three derivations of an account's address | part of `ProfileAccounts` |
| `AccountAuthority` | abstract: whom an account obeys | refinement target of `profile_accounts` |
| `ProfileAccounts` | the factories, the table validator, accounts on several chains | `profile_accounts` |
| `ProfileAccountsProofs` | theorems about `ProfileAccounts`, `ProfileIdentity`, `CallPolicies` and the words of `ScalarMul` | |
| `Admission` | `infra/bundler/src/admission.mjs`, `config.mjs` | part of `Gateway` |
| `Gateway` | `infra/bundler/src/gateway.mjs`, `reload()` | part of `SubmissionPath` |
| `WalletPage` | `apps/reference/main.ts`, `apps/shared/wallet.ts`, `packages/wallet`, `packages/sdk` | part of `SubmissionPath` |
| `ReviewedEffects` | abstract: what takes effect of what was reviewed | refinement target of `submission_path` |
| `SubmissionPath` | `packages/submission`, composed with `WalletPage` and `Gateway` | `submission_path` |
| `SubmissionPathProofs` | theorems about `SubmissionPath`, `WalletPage` and `Gateway` | |
| `LiveOperations` | the live commands and their files | `live_operations` |
| `LiveOperationsProofs` | theorems about `LiveOperations` | |
| `Release` | `scripts/release/candidate.mjs`, `github.mjs`, `version.mjs`, `publish.mjs` as `release.yml` runs them | `release` |
| `ReleaseProofs` | theorems about `Release` | |

The `MC*` modules give the constants their values for TLC. Definitions named
`Mutant_*`, or marked `Mutant:` in their comment, are plausible bugs of the operation they precede (a dropped check, a
swapped order); no specification uses them. They are there so that every
property can be shown to fail when the code goes wrong in that way.

### Enrollment

`store` is the table (or Map), `issued` what clients hold, `signatures` what
wallets produced, and `pc`, `call`, `read`, `at` the state of each
`POST /enroll`. `enroll()` becomes the steps between its awaits: `Enroll` (up to
`store.get`), `Check` (expiry, scope, payload, CIP-8), `Derive`, `CallConsume`
(the clock is read as the argument), `Consume` (the conditional DELETE), `Respond`.
`Issue`, `Prune` and `Tick` belong to each replica, and `Restart` ends its requests
and, with the memory store, its challenges. A row keeps the payload and expiry
columns apart from `record_json`, because `StoreDamaged` may change the latter.
Payloads are records, so two are equal exactly if all fields are, which is what
the fixed-order JSON encoding gives. A CIP-8 verification succeeds exactly for
the signer's own signature over the payload. Clocks move freely: nothing
assumes that they are monotonic or agree.

Abstraction (`OneShotChallenge`): each identifier is unissued, open, used or
void. The refinement mapping reads the phase off the store and the requests;
the redemption is the successful `Consume`, not the answer to the client.

### SubmitterJournal

A context is one call of `liveContext`; contexts of one host share its event
loop, which is why nothing else of that host runs between `ReadJournal` and
`AcquireLock` (there is no await, `Scheduled`). `local` is the context's copy
of the journal, which `Save` writes over the whole file. `Transact` decides
between observing a known id and `Reserve`; `Reserve` may see any earlier
pending count. `Broadcast` may be acknowledged, accepted without an answer, or
refused. `Kill` ends a host anywhere, also inside a write (`torn`), and leaves the
lock file; an operator removes it only when its owner is dead. `Mine` appends to the
chain, which has no reorganizations here: `canonicalReceipt` compares the
receipt's block with the chain's own. The model leaves out preview mode
(`send` false: no state changes), the checks of the deployed infrastructure
before the journal is read, and the nonces of `setup.deployments`, which are a
fixed further floor.

### BundlerService

One variable per moving part: `runner` (how the process ended), `start` (where
`startService` is), `worker`, `gateway`, `stopping` (the step of the memoised
`stop()`), one `reload` per SIGHUP, and per `save()` its step and text.
`WorkerExits` includes the exit listener, which exists only once `start` is
`"serving"`. `FinishWrite`, `SaveFails` and the code awaiting the save are
one step (`Resume`). Overlapping writes of the lifecycle file leave either text or
one that does not parse (`Torn`), and so may a process exit during a write.
`End` is `process.exit(0)`, an unhandled rejection, or an event loop with nothing left.
`Command` is what an operator runs before the start (`WorkerBuild`): each command
is the set of installations it may leave, killed at any point included, so that
the installations a start can meet are explored and not listed. `Preflight` is
`startService` up to the fork; it either refuses or records which files the
worker runs (`code`), after which nothing of the installation is read again. That
nobody installs or builds while a start is between its checks and its fork is
assumed. `StoppedIsClean` is about two records of a stop, the events the service has
recorded and the file an operator reads: neither shows "stopped" while the
worker runs or the gateway's port is open. `PinnedWorker` says that the files are one complete build's; it does
not say that a source build carries the patches of the repository's present
revision: the build record holds them, but `service.mjs:36` compares only commit
and lock, so a worker compiled under an earlier set of patches still starts.
Left out: log lines, and the configuration's contents (`Gateway` has those).

### ReferenceServer

A request slot holds the hash, session and route of the request it serves and
the await it is at. `Submit`, `Track`, `OpenContext`, `Send`, `Answer` are
`handleSubmit` cut at its awaits; `Status`, `AskAdapter`, `Observe` are
`handleStatus`. `Persist` is `operations.set` (or a field's assignment) and then
`persist()`: memory changes first, and the write puts the record over the whole
file. `PersistThrows` is the write that throws: the file is as it was or cut short
(`Torn`), memory has changed all the same, and the request ends, in the `catch` block with
one more attempt (`PersistAndThrow`). `Observe` sets the status in memory, then reads
and amends the file, each of which may throw. `diverged` remembers the operations whose file
a failed write left behind memory, until a later write succeeds; it is a history variable
that no guard reads. The checks of the operation against the session
(sender, caps, decoded calls, signature) are the constant `Asks`: which operations each
session submits, and by which route. A bundler may claim an inclusion falsely
(`AskAdapter`); the chain decides (`Observe`), and says "transaction-reverted" of a
named transaction that reverted. `Restart` loses sessions,
records and requests, may cut one write short, and keeps the files.

### CurveArithmetic and ScalarMul

The curve, its modulus, the word size and the order are parameters. `acc` and
`table` are the assembly's words in XYZZ or affine coordinates, `pos` the mask's
bit; one step is one iteration of a ladder's loop. The registers keep the code's
representation: `sub(p, x)` is `P - x`, which can be `P` itself. A key reaches a
ladder only through the constructor or `onInstall` of its validator, which runs
the same ladder to check the key's order. SHA-512 is any scalar, an encoded point
is the point, and the change of coordinates between Edwards and Weierstrass form
is left out. `WeakKey` states the precondition that `CheckedMul.sol` documents.

### ProfileIdentity, CallPolicies, ProfileAccounts, AccountAuthority

Contracts live in `code`, per chain, at the address the derivation gives: an
address is the tuple of what was hashed, so equal addresses are equal inputs.
`PrepareTable`, `PrepareProfile` and `CreateAccount` are anybody's transactions.
`Sign` adds an authorization a wallet made, and `HandleOp` is the EntryPoint with
the account's validator, hook and execution; which calls fail is open, and a
failing batch is rolled back. A policy's code may be replaced (`PolicyChanges`),
which the hook's code-hash check must notice. Kernel and EntryPoint are modelled
by what the contracts rely on them for. Abstraction (`AccountAuthority`): each
account has an owner, obeys each authorization of that owner once and on its own
chain, and an account with restrictions never changes hands.
`SdkMade` names the accounts whose policy configuration the SDK's encoder made, with the
targets or rules it was given in the caller's order. The encoders are `Array.sort` by a
key (`SortBy`: some order of the positions in which the keys ascend), because the
policies on chain refuse a configuration that is not sorted.

### WalletPage, Gateway, Admission, SubmissionPath

`WalletPage` is a click's flow as a sequence of calls (`Calls`); the wallet's
account and network change between any two. `SubmissionPath` adds what happens to a call
after the page made it: `queue` and `gap` are the promise chain of `httpRpc`,
`job` the adapter call, `Gate` the gateway with its slots, counters, bucket and
overlapping reloads, `pool` and `chain` the worker's mempool and the blocks. In
`Gateway` the history variable `settled` remembers how far reloads have settled: the
configuration file's version when the reloads that are under way began (`signal`), that of
the last finished reload (`floor`), and the `floor` at which each request was forwarded (`at`).
A bundler may answer a status request with anything (`Claims`): events of
its own making in the EntryPoint's name, for either outcome, a reverted transaction, another operation's hash.
The adapter's `status()` believes what is consistent (`BundlerStatus`), and `docs/sdk.md:184-188`
asks applications for more; the reference server does it: it fetches the named transaction's receipt
through its own node and waits until that is in a block of the chain (`CanonicalReceipts`). What its
node shows of preconfirmed blocks (`Preconfirmed`) may hold anything, since such a block may be
replaced. `InclusionIsReal`, and with it what `EffectsReviewed` says of the page's report, rest on that second look and
on two assumptions: the node is honest about mined blocks, and mined blocks are not replaced, for which
`docs/sdk.md:187` says that a mined receipt is not a finality guarantee. An application that
shows `adapter.status()` alone has neither property. The page's timeout ends
only the page's wait. Time is ticks: `Minute` ticks refill the bucket once.
Abstraction (`ReviewedEffects`): operations are approved, take effect in the order of their
account's nonces, and are told of. The refinement mapping approves exactly the
posted operations that were reviewed and signed by their owner (`AsReviewed`), takes
effects from `chain` and what is told from the page's report; an operation the owner made
elsewhere has no action of the page and needs no approval.

### LiveOperations

`run` is the command that runs: its step and what it has read so far. The other
variables are files (`deposit`, `journal`, `request`, `pointer`, `signed`,
`result`, ...), what left the process (`l1`, `sent`, `offered`) and the chain
(`blocks`, and `pre`, a preconfirmed block that may be replaced). Every read of
the chain is a step, so the chain moves between any two reads. `Throw` is any await that rejects,
`Kill` ends a command anywhere and may cut the write under way (`torn`); a file
that is cut short does not parse, and a command that reads it refuses. A block carries
the account's deposit after it (`Block`, `DepositsAfter`): an operation costs any of `Costs`, at most
the cap, and anybody may deposit any of `TopUps`, move the shared counter or create
the account (`ForeignEvents`), since `createAccount` and `depositTo` are open to everyone. The lock
is not a variable: it is `SubmitterJournal`'s, and one command at a time is what
the documentation asks of the operator.

### Release

`main` is the version at each push, `run`, `step`, `sealed`, `reviewed`, `ended`
and `approved` are the workflow runs and their candidates, `tag`, `release` and
`assets` what GitHub keeps for each version, and `job` the publication job of the
concurrency group: where it is, the release and assets it has read (`seen`,
`held`), what it still has to upload (`todo`), whether it found the release
public. `Resolve`, `Build`, `Review` and `Begin` are the jobs up to the
approval; from there each call of `publishCandidate` to GitHub is a step (`Look`,
`List`, `Plan`, `CreateTag`, `ConfirmTag`, `CreateDraft`, `Upload`, the second round
of reads, `Publish`), and the job may fail before and after each of them. `Rerun` starts
a failed publication again; a run in mode `recover` publishes the candidate that
another run built. `checkReleaseState` is `Acceptable`. `RemoveStarter` and `Retire` are the
clean-up that the release document asks of maintainers; `Meddle` is any other change they make, and
marks the version as `touched`. `job.moved` says that others changed something
after the job's last reads began, which no script can exclude.

Assumed of GitHub, because the scripts rely on it: a ref and an asset name
exist once, the bytes under an asset id never change, a draft is found by its
tag, and one job of the concurrency group runs at a time. The third is doubtful of the real
service: `publish.mjs:59` asks `GET /releases/tags/{tag}`, which GitHub documents for published
releases. Where it does not return drafts, `publish.mjs:88` finds no release and the job
stops at the comparison in `:92`, before anything is public and with a draft left behind; the models
show what the pipeline does where drafts are found. An id that nobody
remembers is as good as new, so a few ids suffice. Dispatching a run and
resolving it are one step. Left out: running again a run that failed before or
in its review (its evidence is bound to its attempt, so a new run takes its
place), the contents of the archives and the attestation tool (a candidate's files are
fresh, stale or expired), and the version pull request (`github-version.mjs`).

## Runs, bounds and what they show

| Run | Bounds | Shows |
| --- | --- | --- |
| `enrollment_shared` | SQLite; 2 replicas of different scopes, 1 id, 2 addresses, 2 requests, clock 0..1, TTL 1, 1 damaged row | `OneUsePerChallenge`, `UsedWithConsent`, `UsedBeforeExpiry`, `RemovedForCause`, and the refinement of `OneShotChallenge` |
| `journal` | 1 host, 3 contexts, 2 ids, 2 intents | `NonceReservedOnce`, `OneTransactionPerId`, `SentIsJournalled`, `OutcomeKept`, `LockIsReleased` |
| `journal_processes` | 2 hosts | a counterexample to `NonceReservedOnce` |
| `bundler_service` | 2 reloads, 2 readiness attempts, 2 patched files, 2 revisions of the patches; any number of commands before the start | `PinnedWorker`, `StoppedIsClean`, `SuccessMeansAsked`, `ShutdownEnds`, `StartupSettles`, `NoOrphan` |
| `bundler_worker_exit` | no reload | a counterexample to `WorkerExitIsNoticed` |
| `reference_server` | 2 slots, 2 sessions, 3 operations, 2 routes, 1 restart or failing write, session and operation limit 1 | `SubmittedOnce`, `EvidenceFirst`, `OperationsBounded`, `OutcomesAreReal`, `OwnerKept` |
| `reference_server_evidence` | the same | a counterexample to `InclusionEvidenceKept` |
| `scalar_mul` | a curve of 8 * 107 points modulo 877, 8-bit words; keys of order 107, 2, 4, 8, 856 and off the curve; every hash scalar, 8 other scalars | `DeployedKeysHavePrimeOrder`, `AccumulatorIsPrefix`, `VerdictIsEquation`, words stay below the modulus (`TypeOK`) |
| `profile_accounts` | 2 chains, 5 accounts of 2 good keys and one of small order, 3 policies' configurations, 9 requests, 2 signatures, 1 replaced policy | `DerivedEverywhere`, `RestrictedNeverEscapes`, and the refinement of `AccountAuthority` |
| `submission_path` | 2 wallet accounts, 2 header sets, 2 actions, 2 routes, 2 other callers, 2 SIGHUPs over 3 configuration files, 2 ticks a minute; the budgets below | `SlotsAndRate`, `RevocationHolds`, `InclusionIsReal`, `PostedAsReviewed`, `CallsEnd`, and the refinement of `ReviewedEffects` |
| `live_operations` | 2 requests of which the operator submits 1, 5 blocks, costs of 6 or 17 (the cap), 1 foreign transaction (a deposit of 6 or 40, the counter, or the account's creation), 1 torn file, kills without bound | `SentIsRecorded`, `EvidenceIsReal`, `RequestsStayExecutable` |
| `release` | 2 names of which 1 is stamped with its run, 9 ids, no bound on failures and re-runs; 3 runs of 1 version, or 2 runs of 2 versions, or 2 runs of 1 version and 1 change by others | `ReleasesAreWhole`, `PublishedAsVerified`, `NothingOverwritten` |

Why these bounds are enough: the conflicts are between two requests, two
contexts or two writers for one challenge, nonce, hash or file; a third context,
id or operation is there where it can disturb the first two. Clock 0..1 with TTL 1
has issuing, expiry at the exact boundary and a clock that goes back. Two
readiness attempts give a first, a last and a failed one; 45 differ only in
number. `MaxOperations` 1 with two slots and three operations reaches the
overshoot that the bound allows. In `reference_server` one session submits an operation by both
routes and the other submits all three (`MCAsks`), and `MaxFaults` 1 is a
restart or one failing write, at any of the writes; several together are the proofs' part.

`enrollment_shared` checks the SQLite store. What the memory store promises
across a restart is proved (`EnrollmentProofs`, for either store), as is the type
invariant of `Enrollment`.

In `scalar_mul` the cofactor is 8, as on the real curve, so that keys with a
component of small order exist; with 8-bit words each ladder has several
windows, and with all hash scalars every coincidence of accumulator and addend
that the order allows is met.

In `submission_path` the interesting cases need different things of the
environment, and all of them together are too many states. Each of the nine
`MCBudgets` is an initial state that says how often the page's user starts a
flow, changes a selection and switches the wallet, how many calls are lost, how many
calls others make, how often the configuration is edited or reloaded, and how often
idle time passes. They are chosen so that: the wallet is switched twice within one enrollment
and signature; a whole session with submission, polling and a lost answer
happens; somebody else's operation passes before, between and after; an action is
changed under an open review; and edits, reloads, limits and other callers meet
without the page. Each hazard listed for this path needs at most two of these at once.

In `live_operations` five blocks hold a preparation, a foreign transaction, two
operations and one more; two requests can share a nonce in two modes or use
consecutive nonces. A second request of the operator's own would repeat the first
with files of its own. Two costs, one of them the cap, and two deposits, one of them the other's cost, are what
it takes for sums of the deposit to cancel: an operation that fails at cost 6 and a deposit of 6
may lie between the state before and the receipt. Both a foreign creation and a foreign
deposit in one history are left to the proofs.

In `release` a publication needs a rehearsal before it, so three runs give two that
publish or recover the same version with candidates of their own; two pushes give two commits.
Two names tell a file that differs between the candidates of one commit from one that does
not. One foreign change between any two calls is what a read can miss; the proofs
cover any number of runs, names, versions and changes.

Deadlock checking is off in every configuration but `Release.cfg`: each request, context and
operation is used once, the runner ends, and then nothing is left to do. In
`Release` the operator's switch can always be turned.
The type invariants of the modules that have a `*Proofs` module are proved, and
their runs do not repeat them, except `scalar_mul`, where `TypeOK` says that no
subtraction of the assembly wraps.
Symmetry is used only in runs without liveness properties.

### Fairness

`Enrollment` has none: its properties are safety and a refinement without
liveness. `SubmitterJournal` assumes weak fairness of each live context: every
RPC has a timeout and `canonicalReceipt` a deadline, so its awaits end; nothing
obliges the chain to mine, the operator to clear a lock, or a command to be
started. `BundlerService` assumes that the runner's awaits end (file writes
settle, the probe has a timeout, `closeAllConnections` follows after five
seconds), that a worker under termination exits (SIGKILL follows after ten seconds) and that a worker
whose event loop turns leaves when its parent is gone; a hung worker need not.
`ReferenceServer` assumes that awaits end, for the same reasons.
`SubmissionPath` assumes weak fairness of `Service` as a whole: some step of the
timers, the gateway or the server's side of a call is taken as long as one can be.
Timers fire and event loops run, and every wait (page, RPC client, gateway) has a
timeout; no fairness between them is needed, because each of them is finite. The user, the wallet,
the worker and the chain owe nothing. `ScalarMul`, `ProfileAccounts`,
`LiveOperations` and `Release` claim safety only: a ladder is a loop over a counter, and nobody
has to send a transaction, run a command or approve a release.

### Disagreements found

- `journal_processes`: the lock is meant to prevent another process from
  reserving the same nonce (`live-context.ts:122-123`), but the journal is read
  before the lock is taken. Process B reads; A, holding the lock, journals nonce n, broadcasts
  and releases; B locks, sees a stale pending count and reserves n again. Reading
  the journal after `openSync` closes the window; within one process there is
  none, because no await separates the two.
- `bundler_worker_exit`: the exit listener is registered after three awaits that
  follow the last look at the worker.
- `reference_server_evidence`: `persist()` does not carry `inclusion`, so an answer
  that comes after a status request found the inclusion erases it, and `:132`
  sets the status back to `submitted`. In direct mode the adapter itself waits for
  the receipt, so polling during submission is enough. A later status request restores both.
- The operation limit: `docs/reference-app.md:45-46` promises "at most [...] 1000 tracked
  operations", but `reference-server.ts:111` compares before the account's state is awaited (`:112`), and `:120`
  adds without comparing again. With a limit of 1 five steps give two tracked operations:
  `OpenSession`, `Submit`, `Submit` for another operation, `Track`, `Track`. `OperationsBounded`, which
  `reference_server` checks and `Bounded` proves, says how far the limit can be exceeded: by
  the number of request slots minus one, three in the code. Comparing again after the await would keep
  the promise. The session limit has no such window: it is compared after the last await.

## Proofs

`EnrollmentProofs` proves, for every set of replicas, requests, challenges,
addresses and scopes, every clock and every TTL:

| Theorem | Property |
| --- | --- |
| `TypeCorrect` | `TypeOK` |
| `OneUse` | `OneUsePerChallenge` |
| `Consent` | `UsedWithConsent` |
| `Expiry` | `UsedBeforeExpiry` |
| `Removal` | `RemovedForCause` |
| `Refinement` | `ImplementsOneShot` |

Assumptions: those of `Enrollment` (`ScopeAssumption`, `TimeAssumption`,
`StoreAssumption`; the last says that a memory store has one process), nothing on
the sizes of the sets.

Argument. None of the properties is inductive: that a request may be answered
depends on what was in the store when it read, what it checked since, and what
the row still is when it is deleted. `IInv` adds what connects these moments:
`StoreInv` (a row's payload and expiry columns are those of the record issued
under its id, and an id has one row), `IssuedInv` (an issued record carries the
payload of its own fields, an id was issued once, and wallets signed only issued
payloads), `CallInv` (the signature of a request was produced by a wallet),
`CheckedInv` (a request past `Check` holds an intact record in its replica's scope whose
address signed its payload) and `UsedInv` (a challenge that was used is issued, gone from
the store, and was consumed before its issued expiry). There is one lemma per action. `OneUse`
then follows because a used id has no row and no row can be created for it
again; `Refinement` shows per action which abstract step it is: `Issue` is
`Offer`, `WalletSign` is `Consent` or nothing, a successful `Consume` is
`Redeem`, `Prune` and a memory store's `Restart` are `Withdraw`, and the rest are
stutters.

`ReferenceServerProofs` proves, for every number of slots, sessions, operations,
restarts and failing writes:

| Theorem | Property |
| --- | --- |
| `TypeCorrect` | `TypeOK` |
| `Once` | `SubmittedOnce` |
| `Evidence` | `EvidenceFirst` |
| `Real` | `OutcomesAreReal` |
| `Owner` | `OwnerKept` |
| `Bounded` | `OperationsBounded` |

Assumptions: `AsksAssumption` (its type), `BoundsAssumption`, and `NoneAssumption`, which says that the
markers `None` and `Torn` are none of the values they stand beside.

Argument. `SubmittedOnce` rests on a chain of facts that each need the others:
a slot past `Track` serves a tracked operation, a submission past it has its file, and
one that has not sent is the first (`ReqInv`), no two slots
submit one operation (`OneSubmitter`), and what was sent has a file (`SentInv`). So the
file's absence, which `Track` tests after the await and which survives a
restart, implies that nobody submits or has sent the operation. A file that a failing write cut short
still exists, and so does its meaning for that test: a failure may leave an operation tracked without a
file, but then nothing was sent. `FileInv` has the other half: the file of a tracked operation agrees with its record
unless it has diverged, and only a failing write, or a status request that amends a record which is no longer
the tracked one, makes it diverge. `Owner` needs that an operation whose
file exists is not tracked anew.
`OperationsBounded` is not inductive alone: the limit is read in `Submit` and the record is
made in `Track`, after an await. The invariant counts both: the tracked
operations and the slots that passed the limit's check and have not tracked yet
are together at most the limit plus the number of slots minus one.

`SubmitterJournalProofs` proves, for every number of contexts, ids, intents and
calls, when one process opens all contexts (`OneHost`):

| Theorem | Property |
| --- | --- |
| `TypeCorrect` | `TypeOK` |
| `NonceOnce` | `NonceReservedOnce` |
| `OnePerId` | `OneTransactionPerId` |
| `Journalled` | `SentIsJournalled` |
| `Kept` | `OutcomeKept` |

Assumptions: `OneHost`, a hypothesis of each theorem, because the run `journal_processes`
refutes the first of them without it; `HostAssumption`, `WorkAssumption`, and `NoneAssumption`, which
says that the marker `None` is neither a context nor an entry.

Argument. A context that holds the lock works on a copy that is the file
(`CopyInv`): at most one context is between reading and locking (`OneReader`), nothing
of the process moves until it has the lock, and a kill takes all contexts at
once. The signed transactions are then exactly those in the file, each under
its id (`KeysInv`, `SignedInv`), a call knows whether its id is in the file
(`CallInv`), and the highest nonce of the copy exists and bounds all others
(`NonceInv`), so a reservation is above every signed nonce. `Kept` also needs that the chain has one
transaction per nonce and that recorded outcomes are the chain's (`ChainInv`).

`BundlerServiceProofs` proves, for every number of pins, patched files,
readiness attempts, reloads and commands before the start:

| Theorem | Property |
| --- | --- |
| `TypeCorrect` | `TypeOK` |
| `CleanStop` | `StoppedIsClean` |
| `Asked` | `SuccessMeansAsked` |
| `Pinned` | `PinnedWorker` |

Assumptions: `AttemptsAssumption`, `ReloadsAssumption` (a reload is neither the
startup's nor the stop's writer), `PinsAssumption`, and `MarkersAssumption`, which
says that an absent and a torn file are none of the texts the build writes.

Argument. The invariant says which of startup, stop and worker may be where at
once: a worker exists from the fork on, the stop begins only in a service that
serves or failed to start, and the listener is never opened again (`StartInv`,
`StopInv`, `GatewayInv`); "stopped" is recorded after both have ended
(`EventInv`). For the file a second invariant is carried along (`HistoryInv`):
every text under way and the text on disk is torn or a prefix of what has been
recorded, so an old text that a slow write leaves can lack a stop but not invent one.
`Pinned` holds because no command, killed anywhere, leaves a build record that
names anything but the output it was made from (`Recorded`).

`ReleaseProofs` proves, for every set of runs, names and ids, every number of
versions, pushes and re-runs, and any changes by others:

| Theorem | Property |
| --- | --- |
| `TypeCorrect` | `TypeOK` |
| `Sound` | `ReleasesAreWhole` |
| `Exact` | `PublishedAsVerified` |
| `Kept` | `NothingOverwritten` |

Assumptions: `NamesAssumption` (a candidate has a file that names its run),
`BoundsAssumption`, and `NoneAssumption` and `ReleasesAssumption`, which say that the marker `None`
is neither a run nor a release.

Argument. `RunInv` connects a run to the candidate it publishes (same commit,
reviewed, built by that run). `HubInv` says of a version nobody has touched
that its tag is an approved run's commit and its release one approved
candidate's files. It is kept by the publication job only because of what the
job remembers: `JobInv` and `SightInv` say per step which of its reads are still
true, given that no other job runs and nobody touched the version. `Sound` rests on
these. `Exact` also covers versions others have touched, as long as nothing moved
after the last reads: the last listing has the ids of the verified one, an id stands for
one asset (`IdInv`), so the bytes are those that were compared with the candidate's
(`LastInv`). `Kept` needs `IdInv` and that a new id is new (`Fresh`).

`ProfileAccountsProofs` proves, for every set of chains, of owners and profiles
whose accounts somebody asks for, and of operations that wallets sign:

| Theorem | Property |
| --- | --- |
| `TypeCorrect` | `TypeOK`: factories and accounts refer to deployed tables and validated hooks |
| `Derived` | `DerivedEverywhere` |
| `EncodingKeepsVerdicts` | a policy made by the encoder allows a call exactly if one of the caller's own targets or rules does |
| `NeverEscapes` | `RestrictedNeverEscapes` |
| `Refinement` | `AuthorityHolds` |
| `LadderTypeCorrect` | `TypeOK` of `ScalarMul`, for every modulus, curve, word size, base point and keys |

Assumptions: `AccountsAssumption` (an owner is a key and its headers; the profile is
one the SDK and the backend accept), `IndexAssumption` (anybody may ask a factory
for any of the indices, so the accounts that gives have ids too), `ChainsAssumption`,
`RequestsAssumption` (what the constants mean: signers, accounts and roots
are among those of `Accounts`), `EncoderAssumption` (what `SdkMade` means: the encoder accepted
these targets or rules, and the profile has its result), and `OwnersAssumption` for the marker `NoOwner`;
for the ladders `FieldAssumption`, `WordAssumption` and `PointAssumption` of their modules. Nothing
is assumed of who signs what, of the order of transactions, of which keys are good or
which policies validate. That a hash is injective is in the model: an address is the tuple of
what it hashes.

Argument. Equal addresses have equal inputs, so an address tells what kind of contract it is
for and for which owner and policy (`TableOwner`, `FactoryDetermines`, `Apart`), whichever
id it was derived from, and the contracts compute it as the SDK does (`Onchain`). `ContractInv` says
that everything deployed on a chain is a contract derived for some id, with
its table and hook in place; the root of an account may be another owner's
table if it has no restrictions, and is its own otherwise. There is a lemma
for each thing a transaction adds (`WithTableKeeps`, `WithFactoryKeeps`, `CreatedKeeps`,
`RotatedKeeps`); `Kinds` turns the invariant around: what is at an address an
id derives is that id's. `SignedInv` and `PerformedInv` say that a
performed operation was signed as some wallet built it, has used up its
nonce and kept to its policy. `Handled` then says what the EntryPoint obeys, from
which both `NeverEscapes` and the refinement follow: a preparation is a stutter,
`CreateAccount` is `Appear` or a stutter, `Sign` is `Authorize`, and `HandleOp` is
`Execute`, which needs that no obeyed authorization had been obeyed before (its nonce
would be used up) and that `operationHash` tells the chain.

`SortBy` chooses an order of the positions in which the keys ascend, so everything about the
encoders hangs on one fact: there is such an order, for a sequence of any length
(`OrderExists`). The library's induction theorems take the induction hypothesis as an
operator and cannot be instantiated here, but the hypothesis can be a set: a nonempty set of
naturals has a least element (`Least`, from well-foundedness), so a set that has 0 and with
each n also n + 1 has every natural (`Induction`). The order is then built by taking the
position of a greatest key last. What is sorted ascends strictly if the keys differ (`Sorted`) and has the
same members; so the encoders' results are what the policies' constructors accept (`EncodedIsValid`), the
third part of `DerivedEverywhere`, and allow what the caller's list allows.

The words of the ladders: every formula maps words up to the modulus to such words, with ZZ
and ZZZ reduced, because these two are multiplied only and the inverse is taken of a
reduced word (`Doubled`, `Added`, `AffineSums`). `LadderInv` adds what keeps every reading of a
table inside it: fifteen entries while a checked or precomputed ladder runs, 255 after the
table's constructor, the bases for the 255 counted, and the second pair of bases there
before the precomputed table is laid out. The vendored shifted base point is defined by repeated doubling; that this
recursion has a value for every word size is the same induction (`Shifts`).

`LiveOperationsProofs` proves, for every set of requests, every share of them that is
this operator's, any costs within the cap, any deposits by others, and every number of blocks, of other
users' transactions and of files cut short:

| Theorem | Property |
| --- | --- |
| `TypeCorrect` | `TypeOK` |
| `Recorded` | `SentIsRecorded` |
| `Executable` | `RequestsStayExecutable` |
| `Real` | `EvidenceIsReal` |

Assumptions: `BoundsAssumption` (the bounds are numbers, this operator's requests are
requests), `AmountsAssumption` (an operation costs something and at most the cap, which is what its gas fields add up
to; deposits are not negative), and `NoneAssumption` (the marker `None` is no transaction id, request or evidence).

Argument. `FilesInv` is what files and chain say of each other whatever runs; `RunAt` is
what each command knows at each of its steps. A command that ends, in whatever way, only
has to leave `FilesInv`, so that there is one lemma for every throw (`Throws`), one for a kill, one
for a step that only reads (`Move`) and one for a step that saves evidence
(`SaveMoves`). `Recorded` holds because the submission holds what its file says
(`SubmitAt`), and that is "broadcast-result-unknown" from the step before the first send on.
`Executable` needs that a prefund is sent for the current nonce only and that each block
which uses up a nonce takes at most the cap from the deposit and exactly the cap from what the request still
needs (`ChainInv`, `Paid`), while everybody else can only add. Its part about init code is that an account
once deployed stays so, and that only an operation or somebody's `createAccount` deploys it (`Deployment`).
`Real` rests on `EffectsAttributed`: the counter says that exactly one increment lies between
the state before and the receipt's block, so it is the receipt's own; and the difference of the deposits is the
cost that the receipt's event gives, so just before that block the deposit was what it had been
in the state before. Nothing in this depends on amounts or on the length of the history. It does not
follow that nothing happened to the deposit in between, and the code does not claim it (see below).

`SubmissionPathProofs` proves, for every set of wallet keys, headers, profiles, actions,
modes, clients, SIGHUPs, messages and budgets, every sequence of configuration files, every request
interval and every length of the bucket's minute:

| Theorem | Property |
| --- | --- |
| `TypeCorrect` | `TypeOK` |
| `Limited` | `SlotsAndRate` |
| `Revoked` | `RevocationHolds` |
| `Real` | `InclusionIsReal` |
| `Posted` | `PostedAsReviewed` |
| `Refinement` | `EffectsReviewed`: `SubmissionPath` implements `ReviewedEffects` |
| `OncePerNonce` | one operation of an account takes effect per nonce |

Assumptions: `PageAssumption` (there is a wallet key, a profile, an action and a mode to choose;
the marker `None` is no operation), `CallersAssumption` (the other clients are finitely many and are
not the server's own two calls), `FilesAssumption` (there is a file, limits are
integers, and the first file is valid: `run.mjs` does not start with another),
`BoundsAssumption`. Later files may be anything: refusing an invalid one is the reload's work.

Argument. The state is that of three modules, and the invariant has a part for each.
`PageInv` is kept by every step of `WalletPage` (`PageNext`), whoever causes it: the sessions are
those of the address shown, the review is of what is selected for the enrolled account, and
`FlowInv` says what a flow has found out by each of its calls. `Posted` needs that the
checks of `signOperation` and the review together determine what is posted: the
wallet's signature is compared with the session's address and owner, so that a switch before the prompt ends
the flow. `GateInv` is kept by every step of `Gateway` (`GateNext`): the concurrency counter is the
number of requests in progress (by counting: each of `Arrive`, `Reject` and `Answer` adds or
removes one), and `BucketInv` says that

    since.accepted * Minute + Refilled <= requestsPerMinute * (Minute + since.ticks)

that is, what was accepted and what the bucket would hold now came from a full bucket and
the time passed. The property alone is not inductive, since an accepted request is paid from the
bucket; a reload starts both sides again. `PathInv` is about what lies between: a
caller is queued once and only before its request, a status request in the queue or at the gateway belongs to
the call under way, and what the page tracks was submitted; of a bundler's answer nothing is assumed. `Real`
follows since an outcome is reported only from a receipt of a mined block, which holds the EntryPoint's own
event for an operation only if the chain has it, with that outcome, and `InclusionFromReceipt`
accepts no other contract's. A step of the composition is a step of
the page, of the gateway, of both or of neither (`PagePart`, `GatePart`), so that each part is proved
once.

`Revoked` is about reloads and requests together and needs `ReloadInv`. Two SIGHUPs may overlap, each
reads the file and applies what it read later, in either order, so the configuration in force may go back. It
cannot go back beyond the moment when the reloads under way began: every content read and not yet
applied is of the version `settled.signal` or a later one, `signal` moves only when no reload is
under way, and a reload that is applied settles what began before it (`floor` becomes `signal`). So the
configuration in force is always some valid version from `floor` on, and a request's body, which
is judged once, with the configuration of that moment, is forwarded at a floor that can only have risen since the
request was accepted (`ForwardedBefore`, `ReloadStep`).

`Refinement` follows an operation from the page to the chain. `CarriedInv` says that whatever is in
the adapter's hands or a mempool was posted (`PoolInv`), that an enrolled account is of the
profile it is kept under, and that the chain's nonces are a count: each operation in the chain has a
nonce below the number of its account's operations there, so no two share one (`OneEffectPerNonce`).
`NonceTaken` is the counting step: a block takes an operation only with the next nonce, which
none has. What was posted was reviewed (`Posted`), so a step of the chain is `TakeEffect`, a posting is
`Approve`, and a report of an outcome is `Tell`, whose value is the chain's (`Real`).

Only model-checked, not proved: the liveness properties (`LockIsReleased`,
`ShutdownEnds`, `StartupSettles`, `NoOrphan`, `CallsEnd`), which need fairness and ENABLED
and are outside what the prover handles; and three properties of `ScalarMul`
(`DeployedKeysHavePrimeOrder`, `AccumulatorIsPrefix`, `VerdictIsEquation`), which speak of multiples
of points. They hold because the formulas are the addition of a group: its associativity is an
identity between polynomials in six variables modulo the curve's equation, far beyond
the solvers here, and to assume it of `AffineAdd` would be to assume what is to be shown.

## What the code accepts

Behaviour that no property forbids, because the code or its documents accept it:

- A session limit met after `enroll` (`reference-server.ts:78`) spends the wallet's consent
  without giving a session; the user enrolls again.
- A nonce that was journalled and whose broadcast was refused is never sent
  again by `transact` (`live-context.ts:138`); later nonces wait for the
  operator. The same holds for the deposit of `fund-base-sepolia.ts`.
- `submit-live-operation.ts:33` reads the evidence before the lock is taken and
  writes its copy at `:169`: two commands that overlap may lose the status one of
  them wrote. The transaction itself is still found by its id or hash.
- `submit-live-operation.ts:84-85` reads the state before again on a rerun. If the
  operation was included meanwhile the effects then never match, so the evidence
  stays unverified: safe, but it needs the operator.
- `submit-live-operation.ts:104` puts `pending` over a verified status when a later
  rerun cannot find the receipt.
- `submit-live-operation.ts:141,144` compare a nonce and a difference of deposits. With a prepared successor, an
  earlier operation that failed and a deposit of exactly its cost may both lie between the state
  before and the receipt, and the evidence still says `included-and-verified`. What it then says of the
  operation is true: `EvidenceIsReal` claims no more.
- A request with init code fails, with its nonce unused, once anybody has created the account
  (`ProfileAccountFactory.sol:52`); the operator prepares another, which has no init code.
- When `writeFileSync` throws, `reference-server.ts:120` leaves an operation tracked that has no
  file, and `:132` and `:152` a status in memory that the file lacks. The former was handed to
  nobody and is answered from memory until the restart; the latter is written with the next
  success.
- When SIGHUPs overlap, a reload that was overtaken may put the older configuration it read
  in force (`service.mjs:107`), until the next SIGHUP. `RevocationHolds` bounds how far back: not before the
  run of overlapping reloads began.
- `save()` calls of the bundler service are not serialized, and `process.exit(0)` does
  not wait for a reload's write, so the lifecycle file of a stopped service may
  lack the stopped event that `infra/bundler/README.md:142-143` says a shutdown
  records, or be torn. It never shows a stop that has not happened (`StoppedIsClean`).

## Not modelled

- Conversions: SHA-512, CBOR, bech32, ABI, JSON, hexadecimal, the map between
  Edwards and Weierstrass coordinates. They are exact functions, tested by
  vectors in the repository; a model over small values says nothing about them.
- Vendored Kernel and EntryPoint: third-party code, external actions here.
- The older table accounts and key-path validators' accounts
  (`scripts/experiments/address-two-chain.ts`, `kernel-path.ts`): the profile accounts
  use the same validator, and these have no hook and no profile.
- Loopback experiments (`policies.ts`, `private-bundler.ts`, `diagnose-*`,
  `verify-*`), corpus and coverage scripts: straight-line scripts against a chain of their own that
  assert what the modelled code does and keep no state that anything reads.
- `check-package-install.mjs`, CI and package builds: they run the
  repository's own checks in a fresh directory; nothing of the program depends on them at run time.
- The version pull request (`scripts/release/github-version.mjs`) and the contents of the
  release's archives: a release is one candidate's files, whatever they contain.
- Static files, the rate limit and the enrollment route of the HTTP servers, page layout, log lines.

## Plan

Every safety property, action property and refinement that a run checks is proved, except the three of
`ScalarMul` that need the group law. What could follow:

1. `ScalarMul`: a proof of the formulas in a system with polynomial arithmetic; given it, that the accumulator is
   the prefix's combination follows by induction over the windows.
2. An abstract specification of the gateway (a bucket and a set of slots, without the reading and
   forwarding of a request), which `Gateway` implements; `GateInv` is strong enough for it.
