---------------------------- MODULE LiveOperations ----------------------------
(***************************************************************************)
(* The live commands (scripts/fund-base-sepolia.ts, scripts/experiments,   *)
(* scripts/lib): an operator funds a submitter, prepares an account's      *)
(* contracts, prepares a request, has a wallet sign it, submits it and     *)
(* measures it.  Each command is a process of its own that leaves files    *)
(* for the next: journals, manifests, requests, signatures, evidence.      *)
(*                                                                         *)
(* A command may throw at any await, be killed between any two steps and   *)
(* in the middle of a write, and is then run again.  Meanwhile the chain   *)
(* preconfirms, drops and mines, a bundler includes or forgets operations, *)
(* and other users move the shared counter and the account's deposit and   *)
(* may create the account, whose factory is open to anyone.                *)
(* One command runs at a time: that is the operator's part, see README.    *)
(***************************************************************************)
EXTENDS Integers, Sequences, FiniteSets

CONSTANTS
    Requests,    \* request identifiers, drawn in order: 1..n
    Ours,        \* those this operator submits; a signature file may be
                 \* submitted by anybody, the others are by someone else
    Costs,       \* what an operation may turn out to cost
    TopUps,      \* what others may deposit for the account
    MaxBlocks,   \* bound on the blocks of the history
    MaxForeign,  \* bound on other users' transactions
    MaxTorn,     \* bound on files cut short by kills
    None

ASSUME BoundsAssumption ==
    /\ Requests \subseteq Nat \ {0} /\ Ours \subseteq Requests
    /\ MaxBlocks \in Nat /\ MaxForeign \in Nat /\ MaxTorn \in Nat

VARIABLES
    flow,        \* "fund": the submitter's deposit; "stake": the experimental
                 \* account; "profile": a profile account
    run,         \* the command that runs, the step it is at, what it holds
    deposit,     \* status in the deposit journal
    captured,    \* a wallet capture was saved
    journal,     \* transaction ids in the submitter's journal
    prepared,    \* verified preparation evidence was saved
    request, pointer,   \* request files; per nonce and mode, the request made
    signed,      \* requests with a signature file
    result,      \* submission evidence per request
    measured,    \* requests with a measurement
    torn,        \* files a kill cut short
    l1, credited,       \* L1 deposits accepted; how far the deposit got
    sent,        \* the submitter's transactions a node accepted
    offered,     \* requests whose operation a bundler accepted
    blocks, pre  \* mined events; the preconfirmed one

local == <<captured, prepared, request, pointer, signed, measured>>
ledgers == <<deposit, journal>>
files == <<local, ledgers, result, torn>>
network == <<l1, credited, sent, offered, blocks, pre>>
vars == <<flow, run, files, network>>

Modes == {"bundler", "direct"}      \* public or private; own transaction

(* In units of 0.0000025 ETH: what an operation may cost at most, the deposit
   below which prepare-live-operation tops up, and by how much. *)
Cap == 17
Floor == 28
Prefund == 40

ASSUME AmountsAssumption == Costs \subseteq 1..Cap /\ TopUps \subseteq Nat

Tx(act, of) == [act |-> act, of |-> of]
File(name, of) == [name |-> name, of |-> of]
Nonces == 0..MaxBlocks + 1
TxIds == {Tx("prepare", 0)} \cup {Tx("prefund", n) : n \in Nonces}
         \cup {Tx("operation", q) : q \in Requests}

Operations == [nonce : Nonces, deploy : BOOLEAN]
RequestFiles == [op : Operations, mode : Modes]
Statuses == {"prepared", "simulation-failed", "broadcast-result-unknown", "submitted", "pending",
             "included", "execution-reverted", "transaction-reverted", "included-and-verified"}
EvidenceFiles == [status : Statuses, submitted : BOOLEAN,
                  before : 0..MaxBlocks \cup {None}, included : 0..MaxBlocks]

(* None stands beside these and is none of them. *)
ASSUME NoneAssumption == None \notin TxIds \cup RequestFiles \cup EvidenceFiles
-------------------------------------------------------------------------------
(* The chain: one event per block, and the account's deposit after it; the
   latest state, or that of a block. *)
Event(kind, id, op, ok) == [kind |-> kind, id |-> id, op |-> op, ok |-> ok]
Block(e, deposited) == [kind |-> e.kind, id |-> e.id, op |-> e.op, ok |-> e.ok, deposit |-> deposited]
Height == Len(blocks)
Blocks(n, kinds) == {i \in 1..n : blocks[i].kind \in kinds}
NonceAt(n) == Cardinality(Blocks(n, {"op"}))
DeployedAt(n) == Blocks(n, {"op", "create"}) # {}
CounterAt(n) == Cardinality({i \in Blocks(n, {"op", "counter"}) : blocks[i].ok})
DepositAt(n) == IF n = 0 THEN 0 ELSE blocks[n].deposit

(* handleOps passes validation: nonce, init code, prefund. *)
Valid(op) ==
    /\ op.nonce = NonceAt(Height)
    /\ op.deploy = ~DeployedAt(Height)
    /\ DepositAt(Height) >= Cap

OpOf(q) == request[q].op

TxEvents(id) ==
    IF id.act # "operation" THEN {Event(id.act, id, None, TRUE)}
    ELSE IF Valid(OpOf(id.of)) THEN {Event("op", id, OpOf(id.of), ok) : ok \in BOOLEAN}
    ELSE {Event("reverted", id, None, FALSE)}

Foreign == Cardinality(Blocks(Height, {"counter", "topup", "create"}))

(* What may be mined next: the submitter's transactions, the operations a
   bundler has, other users of the counter, of depositTo and, once, of the
   account's factory. *)
OwnEvents == UNION {TxEvents(id) : id \in {t \in sent : \A i \in 1..Height : blocks[i].id # t}}
BundledEvents == {Event("op", None, op, ok) :
                     op \in {o \in {OpOf(q) : q \in offered} : Valid(o)}, ok \in BOOLEAN}
ForeignEvents ==
    {Event(kind, None, None, TRUE) :
        kind \in IF prepared /\ Foreign < MaxForeign
                 THEN {"counter", "topup"} \cup (IF DeployedAt(Height) THEN {} ELSE {"create"})
                 ELSE {}}
NextEvents == OwnEvents \cup BundledEvents \cup ForeignEvents

(* What a block leaves of the deposit: an operation is charged what it cost. *)
DepositsAfter(e) ==
    LET before == DepositAt(Height)
    IN CASE e.kind = "op" -> {before - cost : cost \in Costs}
         [] e.kind = "prefund" -> {before + Prefund}
         [] e.kind = "topup" -> {before + amount : amount \in TopUps}
         [] OTHER -> {before}

(* What a node or a bundler may show: mined or preconfirmed events. *)
Visible == {blocks[i] : i \in 1..Height} \cup ({pre} \ {None})

OperationTx(q) == Tx("operation", q)

(* The adapters look for an operation by its hash, or for their transaction. *)
Shows(e, q) ==
    IF request[q].mode = "bundler" THEN e.kind = "op" /\ e.op = OpOf(q)
    ELSE e.id = OperationTx(q)

StatusOf(e) ==
    IF e.kind = "reverted" THEN "transaction-reverted"
    ELSE IF e.ok THEN "included" ELSE "execution-reverted"
-------------------------------------------------------------------------------
(* readState at one block, and what verifyPreparedProfile reads back: the
   contracts, whose code and immutables nothing changes once they exist. *)
StateAt(n) == [nonce |-> NonceAt(n), deposit |-> DepositAt(n), counter |-> CounterAt(n)]
PreparedAt(n) == Blocks(n, {"prepare"}) # {}

(* Readers of the files, each of which checks what it reads against the rest;
   a file that is cut short does not parse.  An output must not exist. *)
ReadCapture == captured
ReadManifest == prepared /\ File("manifest", 0) \notin torn
CheckLiveRequest(q) == request[q] # None
FreshOutput(exists, file) == ~exists /\ file \notin torn
-------------------------------------------------------------------------------
Idle == [name |-> "none", step |-> "none", q |-> 0, k |-> 0, mode |-> None,
         op |-> None, ev |-> None, via |-> None]

Goto(step) == run' = [run EXCEPT !.step = step]
At(name, step) == run.name = name /\ run.step = step

Leave == run' = Idle

Mutant_FailedForgets(ev) == [ev EXCEPT !.status = "simulation-failed"]

(* The catch block of submit-live-operation. *)
Failed(ev) == IF ev.status = "prepared" THEN [ev EXCEPT !.status = "simulation-failed"] ELSE ev

(* A throw ends a command; the submission command saves its evidence first. *)
Throw ==
    /\ Leave
    /\ result' = IF run.name = "submit" THEN [result EXCEPT ![run.q] = Failed(run.ev)]
                 ELSE result

Save(ev) == result' = [result EXCEPT ![run.q] = ev]
SaveGoto(ev, step) ==
    Save(ev) /\ run' = [run EXCEPT !.ev = ev, !.step = step]
SaveLeave(ev) == Save(ev) /\ Leave

Init ==
    /\ \/ flow = "fund" /\ deposit = "none" /\ l1 = 0 /\ credited = "no"
       \/ flow \in {"stake", "profile"} /\ deposit = "credited" /\ l1 = 1 /\ credited = "credited"
    /\ run = Idle
    /\ captured = FALSE /\ prepared = FALSE
    /\ journal = {}
    /\ request = [q \in Requests |-> None]
    /\ pointer = [key \in Nonces \X Modes |-> None]
    /\ signed = {} /\ measured = {} /\ torn = {}
    /\ result = [q \in Requests |-> None]
    /\ sent = {} /\ offered = {}
    /\ blocks = <<>> /\ pre = None
-------------------------------------------------------------------------------
(* fund-base-sepolia: a deposit journal with a transaction hash is observed,
   never sent again; one that stopped before signing starts anew. *)
Fund ==
    /\ flow = "fund" /\ run = Idle
    /\ File("deposit", 0) \notin torn
    /\ deposit \in {"none", "prepared"}
    /\ run' = [Idle EXCEPT !.name = "fund", !.step = "estimate"]
    /\ UNCHANGED <<flow, files, network>>

FundStatus ==
    /\ run = Idle
    /\ File("deposit", 0) \notin torn
    /\ deposit \notin {"none", "prepared"}
    /\ credited # "no"
    /\ deposit' = IF credited = "credited" THEN "credited" ELSE "awaiting"
    /\ UNCHANGED <<flow, run, local, journal, result, torn, network>>

FundEstimate ==
    /\ At("fund", "estimate")
    /\ \/ /\ deposit' = "prepared"
          /\ Goto("sign") \/ Leave           \* with --send, or a preview
       \/ Leave /\ UNCHANGED deposit
    /\ UNCHANGED <<flow, local, journal, result, torn, network>>

FundSign ==
    /\ At("fund", "sign")
    /\ deposit' = "signed"
    /\ Goto("broadcast")
    /\ UNCHANGED <<flow, local, journal, result, torn, network>>

(* Acknowledged; accepted with the answer lost; refused or never arrived. *)
FundBroadcast ==
    /\ At("fund", "broadcast")
    /\ \/ l1' = l1 + 1 /\ (Goto("mark") \/ Leave)
       \/ UNCHANGED l1 /\ Leave
    /\ UNCHANGED <<flow, files, credited, sent, offered, blocks, pre>>

FundMark ==
    /\ At("fund", "mark")
    /\ deposit' = "broadcast"
    /\ Leave
    /\ UNCHANGED <<flow, local, journal, result, torn, network>>

(* wallet-server: both signatures are verified and the challenge is consumed
   before the capture is written, once per challenge. *)
CaptureWallet ==
    /\ flow # "fund" /\ run = Idle /\ ~captured
    /\ captured' = TRUE
    /\ UNCHANGED <<flow, run, prepared, request, pointer, signed, measured,
                   ledgers, result, torn, network>>
-------------------------------------------------------------------------------
(* liveContext: configuration, chain, manifest, bytecode and journal checks,
   any of which throws, as the lock of another command does. *)
AfterContext == CASE run.name = "prepare" -> "transact"
                  [] run.name = "request" -> "nonce"
                  [] run.name = "submit" -> "recover"

LiveContext ==
    /\ run.step = "context"
    /\ \/ /\ File("journal", 0) \notin torn
          /\ Goto(AfterContext)
          /\ UNCHANGED result
       \/ Throw
    /\ UNCHANGED <<flow, local, ledgers, torn, network>>

CurrentTx == CASE run.name = "prepare" -> Tx("prepare", 0)
               [] run.name = "request" -> Tx("prefund", run.op.nonce)
               [] run.name = "submit" -> OperationTx(run.q)

AfterTransact == CASE run.name = "prepare" -> "verify"
                   [] run.name = "request" -> "write"
                   [] run.name = "submit" -> "submitted"

(* transact(), as SubmitterJournal details it: what the journal knows is
   observed; a new transaction passes the caps and balance, and only with
   the send option is it reserved. *)
Transact ==
    /\ run.step = "transact"
    /\ \/ CurrentTx \in journal /\ Goto("observing") /\ UNCHANGED result
       \/ CurrentTx \notin journal /\ credited = "credited" /\ Goto("reserve") /\ UNCHANGED result
       \/ CurrentTx \notin journal /\ Throw
    /\ UNCHANGED <<flow, local, ledgers, torn, network>>

Reserve ==
    /\ run.step = "reserve"
    /\ journal' = journal \cup {CurrentTx}
    /\ Goto("send")
    /\ UNCHANGED <<flow, local, deposit, result, torn, network>>

Broadcast ==
    /\ run.step = "send"
    /\ \/ /\ sent' = sent \cup {CurrentTx}
          /\ \/ Goto("observing") /\ UNCHANGED result
             \/ Throw
       \/ Throw /\ UNCHANGED sent
    /\ UNCHANGED <<flow, local, ledgers, torn, l1, credited, offered, blocks, pre>>

(* A mined receipt, or the deadline; the journal is saved with it. *)
ObserveTransaction ==
    /\ run.step = "observing"
    /\ \/ \E i \in 1..Height :
             /\ blocks[i].id = CurrentTx
             /\ IF blocks[i].kind = "reverted" THEN Throw
                ELSE Goto(AfterTransact) /\ UNCHANGED result
       \/ Throw
    /\ UNCHANGED <<flow, local, ledgers, torn, network>>
-------------------------------------------------------------------------------
(* prepare-stake and prepare-live-profiles: the contracts are read back at
   the block of the receipt, then the evidence is written, by prepare-stake
   to a fresh output. *)
StartPrepareStake ==
    /\ flow = "stake" /\ run = Idle
    /\ ReadCapture
    /\ FreshOutput(prepared, File("manifest", 0))
    /\ run' = [Idle EXCEPT !.name = "prepare", !.step = "context"]
    /\ UNCHANGED <<flow, files, network>>

StartPrepareProfiles ==
    /\ flow = "profile" /\ run = Idle
    /\ ReadCapture
    /\ prepared => ReadManifest
    /\ run' = [Idle EXCEPT !.name = "prepare", !.step = "context"]
    /\ UNCHANGED <<flow, files, network>>

SavePrepared ==
    /\ At("prepare", "verify")
    /\ \/ PreparedAt(Height) /\ prepared' = TRUE
       \/ UNCHANGED prepared
    /\ Leave
    /\ UNCHANGED <<flow, captured, request, pointer, signed, measured, ledgers,
                   result, torn, network>>

VerifyStake == flow = "stake" /\ SavePrepared
VerifyProfile == flow = "profile" /\ SavePrepared

(* prepare-live-operation runs in a live context, prepare-profile-operation
   only reads the chain; it may prepare the nonce after the current one. *)
StartRequest(mode, offset, step) ==
    /\ run = Idle
    /\ ReadCapture /\ ReadManifest
    /\ \E q \in Requests : request[q] = None
    /\ run' = [Idle EXCEPT !.name = "request", !.mode = mode, !.k = offset, !.step = step]
    /\ UNCHANGED <<flow, files, network>>

StartLiveRequest(mode) == flow = "stake" /\ StartRequest(mode, 0, "context")

StartProfileRequest(mode, offset) ==
    /\ flow = "profile"
    /\ PreparedAt(Height)
    /\ StartRequest(mode, offset, "nonce")

(* SDK, backend and live factory agree on the account's identity. *)
IdentityAgrees == PreparedAt(Height)

ReadNonce ==
    /\ At("request", "nonce")
    /\ run' = [run EXCEPT !.step = "code",
                          !.op = [nonce |-> NonceAt(Height) + run.k, deploy |-> FALSE]]
    /\ UNCHANGED <<flow, files, network>>

ReadLiveNonce == flow = "stake" /\ IdentityAgrees /\ ReadNonce
ReadProfileNonce == flow = "profile" /\ ReadNonce

(* What was prepared for the same nonce, mode and action is not written
   again. *)
AlreadyPrepared == pointer[<<run.op.nonce, run.mode>>] # None

ReadCode(step) ==
    /\ At("request", "code")
    /\ IF AlreadyPrepared THEN Leave
       ELSE run' = [run EXCEPT !.step = step, !.op.deploy = ~DeployedAt(Height)]
    /\ UNCHANGED <<flow, files, network>>

ReadLiveCode == flow = "stake" /\ ReadCode("deposit")

ReadProfileCode ==
    /\ flow = "profile"
    /\ DeployedAt(Height) \/ run.k = 0
    /\ ReadCode("deposit")

(* Deploy the account before preparing a future nonce. *)
RefuseFutureDeployment ==
    /\ At("request", "code") /\ flow = "profile"
    /\ ~DeployedAt(Height) /\ run.k # 0
    /\ Leave
    /\ UNCHANGED <<flow, files, network>>

Mutant_RequiredForOne(offset) == Cap

Required(offset) == Cap * (offset + 1)

PrefundDeposit ==
    /\ At("request", "deposit") /\ flow = "stake"
    /\ Goto(IF DepositAt(Height) < Floor THEN "transact" ELSE "write")
    /\ UNCHANGED <<flow, files, network>>

RequireDeposit ==
    /\ At("request", "deposit") /\ flow = "profile"
    /\ IF DepositAt(Height) >= Required(run.k) THEN Goto("write") ELSE Leave
    /\ UNCHANGED <<flow, files, network>>

(* The request file, under a random id, then the pointer to it.  The call
   policy and EntryPoint's hash are asked first; a disagreement throws. *)
WriteRequest(q) ==
    /\ At("request", "write")
    /\ request[q] = None
    /\ \A p \in Requests : p < q => request[p] # None
    /\ request' = [request EXCEPT ![q] = [op |-> run.op, mode |-> run.mode]]
    /\ run' = [run EXCEPT !.step = "point", !.q = q]
    /\ UNCHANGED <<flow, captured, prepared, pointer, signed, measured,
                   ledgers, result, torn, network>>

RefuseRequest ==
    /\ At("request", "write")
    /\ Leave
    /\ UNCHANGED <<flow, files, network>>

WriteLiveRequest(q) == flow = "stake" /\ WriteRequest(q)
WriteProfileRequest(q) == flow = "profile" /\ WriteRequest(q)

WritePointer ==
    /\ At("request", "point")
    /\ pointer' = [pointer EXCEPT ![<<run.op.nonce, run.mode>>] = run.q]
    /\ Leave
    /\ UNCHANGED <<flow, captured, prepared, request, signed, measured, ledgers,
                   result, torn, network>>

(* wallet-server, POST /live/signature: one verified signature per request. *)
CaptureSignature(q) ==
    /\ run = Idle /\ CheckLiveRequest(q)
    /\ q \notin signed
    /\ signed' = signed \cup {q}
    /\ UNCHANGED <<flow, run, captured, prepared, request, pointer, measured,
                   ledgers, result, torn, network>>
-------------------------------------------------------------------------------
(* submit-live-operation: the evidence file is read before the lock is taken. *)
Fresh == [status |-> "prepared", submitted |-> FALSE, before |-> None, included |-> 0]

StartSubmit(q) ==
    /\ run = Idle
    /\ q \in signed \cap Ours
    /\ File("result", q) \notin torn
    /\ run' = [Idle EXCEPT !.name = "submit", !.step = "context", !.q = q,
                           !.mode = request[q].mode, !.op = request[q].op,
                           !.ev = IF result[q] = None THEN Fresh ELSE result[q]]
    /\ UNCHANGED <<flow, files, network>>

Ambiguous(ev) == ev.status = "broadcast-result-unknown"

(* Before anything is sent again: the submission the evidence names, the
   transaction the journal knows, or what the bundler says of the hash.  A
   bundler may not know an operation it included. *)
Recover ==
    LET ev == run.ev
        found == [ev EXCEPT !.submitted = TRUE]
    IN
    /\ At("submit", "recover")
    /\ \/ ev.submitted /\ SaveGoto(ev, "observe")
       \/ /\ ~ev.submitted /\ run.mode = "direct"
          /\ IF OperationTx(run.q) \in journal
             THEN SaveGoto(found, "observe") ELSE SaveGoto(ev, "before")
       \/ /\ ~ev.submitted /\ run.mode = "bundler"
          /\ \/ Ambiguous(ev) /\ (\E e \in Visible : Shows(e, run.q)) /\ SaveGoto(found, "observe")
             \/ SaveGoto(ev, "before")
       \/ Throw
    /\ UNCHANGED <<flow, local, ledgers, torn, network>>

(* readState at the block number a node reports, which may be the last but
   one. *)
ReadBefore ==
    /\ At("submit", "before")
    /\ \/ \E h \in {Height, Height - 1} \cap Nat :
             SaveGoto([run.ev EXCEPT !.before = h], "simulate")
       \/ Throw
    /\ UNCHANGED <<flow, local, ledgers, torn, network>>

(* eth_call of handleOps; the attempt is saved before it is made. *)
Simulate ==
    /\ At("submit", "simulate")
    /\ \/ /\ Valid(run.op)
          /\ \/ SaveGoto([run.ev EXCEPT !.status = "broadcast-result-unknown"], "submit")
             \/ SaveLeave(run.ev)                                \* without --send
       \/ Throw
    /\ UNCHANGED <<flow, local, ledgers, torn, network>>

Submitted(ev) == [ev EXCEPT !.submitted = TRUE, !.status = "submitted"]

SubmitToBundler ==
    /\ At("submit", "submit") /\ run.mode = "bundler"
    /\ \/ /\ Valid(run.op)
          /\ offered' = offered \cup {run.q}
          /\ SaveGoto(Submitted(run.ev), "observe") \/ Throw     \* the answer may be lost
       \/ Throw /\ UNCHANGED offered
    /\ UNCHANGED <<flow, local, ledgers, torn, l1, credited, sent, blocks, pre>>

(* The direct adapter simulates once more, then calls transact. *)
SubmitDirect ==
    /\ At("submit", "submit") /\ run.mode = "direct"
    /\ \/ Valid(run.op) /\ Goto("transact") /\ UNCHANGED result
       \/ Throw
    /\ UNCHANGED <<flow, local, ledgers, torn, network>>

DirectSubmitted ==
    /\ At("submit", "submitted")
    /\ SaveGoto(Submitted(run.ev), "observe")
    /\ UNCHANGED <<flow, local, ledgers, torn, network>>

(* adapter.status, polled: a receipt, mined or preconfirmed; or none. *)
ObserveOperation ==
    /\ At("submit", "observe")
    /\ \/ \E e \in Visible :
             /\ Shows(e, run.q)
             /\ run' = [run EXCEPT !.step = "canonical", !.via = e.id]
             /\ UNCHANGED result
       \/ SaveLeave([run.ev EXCEPT !.status = "pending"])
       \/ Throw
    /\ UNCHANGED <<flow, local, ledgers, torn, network>>

(* canonicalReceipt: the same transaction in a mined block. *)
CanonicalReceipt ==
    /\ At("submit", "canonical")
    /\ \/ \E i \in 1..Height :
             LET ev == [run.ev EXCEPT !.status = StatusOf(blocks[i]), !.included = i] IN
             /\ Shows(blocks[i], run.q) /\ blocks[i].id = run.via
             /\ IF ev.status = "included" THEN SaveGoto(ev, "effects") ELSE SaveLeave(ev)
       \/ Throw
    /\ UNCHANGED <<flow, local, ledgers, torn, network>>

(* The EntryPoint's event says what the operation was charged. *)
ActualGasCost(n) == DepositAt(n - 1) - DepositAt(n)

Mutant_EffectsWithoutCounter(ev, op) ==
    /\ ev.before # None
    /\ StateAt(ev.included).nonce = op.nonce + 1
    /\ StateAt(ev.before).deposit - StateAt(ev.included).deposit = ActualGasCost(ev.included)

EffectsMatch(ev, op) ==
    /\ ev.before # None
    /\ LET before == StateAt(ev.before)
           after == StateAt(ev.included)
       IN  /\ after.nonce = op.nonce + 1
           /\ before.deposit - after.deposit = ActualGasCost(ev.included)
           /\ after.counter - before.counter = 1

(* The state at the receipt's block against the one read before. *)
VerifyEffects ==
    /\ At("submit", "effects")
    /\ \/ EffectsMatch(run.ev, run.op)
          /\ SaveLeave([run.ev EXCEPT !.status = "included-and-verified"])
       \/ Throw
    /\ UNCHANGED <<flow, local, ledgers, torn, network>>

SubmitElsewhere(q) ==
    /\ q \in signed \ Ours
    /\ Valid(OpOf(q))
    /\ offered' = offered \cup {q}
    /\ UNCHANGED <<flow, run, files, l1, credited, sent, blocks, pre>>

Verified(q) == result[q] # None /\ result[q].status = "included-and-verified"

(* measure-live: only a verified execution, whose receipt is looked up again;
   the output must not exist. *)
Measure(q) ==
    /\ run = Idle
    /\ CheckLiveRequest(q) /\ Verified(q) /\ File("result", q) \notin torn
    /\ FreshOutput(q \in measured, File("measurement", q))
    /\ \E i \in 1..Height : Shows(blocks[i], q) /\ StatusOf(blocks[i]) = "included"
    /\ measured' = measured \cup {q}
    /\ UNCHANGED <<flow, run, captured, prepared, request, pointer, signed,
                   ledgers, result, torn, network>>
-------------------------------------------------------------------------------
(* The file the next step of the command writes. *)
Writes ==
    CASE run.name = "fund" /\ run.step # "broadcast" -> {File("deposit", 0)}
      [] At("prepare", "verify") -> {File("manifest", 0)}
      [] run.name # "fund" /\ run.step \in {"reserve", "observing"} -> {File("journal", 0)}
      [] run.name = "submit" /\ run.step \in {"context", "recover", "before", "simulate", "submit",
                                              "submitted", "observe", "canonical", "effects"}
            -> {File("result", run.q)}
      [] OTHER -> {}

Kill ==
    /\ run # Idle
    /\ run' = Idle
    /\ torn' \in {t \in {torn, torn \cup Writes} : Cardinality(t) <= MaxTorn}
    /\ UNCHANGED <<flow, local, ledgers, result, network>>

(* Operations are looked for before they are mined; a preconfirmed block may
   be replaced. *)
Preconfirm ==
    /\ Height < MaxBlocks
    /\ pre' \in {e \in NextEvents : e.kind \in {"op", "reverted"}} \cup {None}
    /\ pre' # pre
    /\ UNCHANGED <<flow, run, files, l1, credited, sent, offered, blocks>>

Mine ==
    /\ Height < MaxBlocks
    /\ \E e \in NextEvents : \E deposited \in DepositsAfter(e) : blocks' = Append(blocks, Block(e, deposited))
    /\ pre' = None
    /\ UNCHANGED <<flow, run, files, l1, credited, sent, offered>>

BridgeDeposit ==
    /\ \/ credited = "no" /\ l1 > 0 /\ credited' = "mined"
       \/ credited = "mined" /\ credited' = "credited"
    /\ UNCHANGED <<flow, run, files, l1, sent, offered, blocks, pre>>

Next ==
    \/ Fund \/ FundStatus \/ FundEstimate \/ FundSign \/ FundBroadcast \/ FundMark
    \/ CaptureWallet \/ StartPrepareStake \/ StartPrepareProfiles
    \/ LiveContext \/ Transact \/ Reserve \/ Broadcast \/ ObserveTransaction
    \/ VerifyStake \/ VerifyProfile
    \/ \E mode \in Modes :
          StartLiveRequest(mode) \/ \E offset \in 0..1 : StartProfileRequest(mode, offset)
    \/ ReadLiveNonce \/ ReadLiveCode \/ PrefundDeposit
    \/ ReadProfileNonce \/ ReadProfileCode \/ RefuseFutureDeployment \/ RequireDeposit
    \/ RefuseRequest \/ WritePointer
    \/ \E q \in Requests :
          \/ WriteLiveRequest(q) \/ WriteProfileRequest(q)
          \/ CaptureSignature(q) \/ Measure(q)
          \/ StartSubmit(q) \/ SubmitElsewhere(q)
    \/ Recover \/ ReadBefore \/ Simulate \/ SubmitToBundler \/ SubmitDirect \/ DirectSubmitted
    \/ ObserveOperation \/ CanonicalReceipt \/ VerifyEffects
    \/ Kill
    \/ Preconfirm \/ Mine \/ BridgeDeposit

Spec == Init /\ [][Next]_vars
-------------------------------------------------------------------------------
Commands == {"none", "fund", "prepare", "request", "submit"}
Steps == {"none", "estimate", "sign", "broadcast", "mark", "context", "transact", "reserve", "send",
          "observing", "verify", "nonce", "code", "deposit", "write", "point", "recover", "before",
          "simulate", "submit", "submitted", "observe", "canonical", "effects"}
Kinds == {"prepare", "prefund", "op", "reverted", "counter", "topup", "create"}
Events == [kind : Kinds, id : TxIds \cup {None}, op : Operations \cup {None}, ok : BOOLEAN]
MinedBlocks == [kind : Kinds, id : TxIds \cup {None}, op : Operations \cup {None}, ok : BOOLEAN, deposit : Int]

Runs == [name : Commands, step : Steps, q : Requests \cup {0}, k : 0..1, mode : Modes \cup {None},
         op : Operations \cup {None}, ev : EvidenceFiles \cup {None}, via : TxIds \cup {None}]

TypeOK ==
    /\ flow \in {"fund", "stake", "profile"}
    /\ run \in Runs
    /\ deposit \in {"none", "prepared", "signed", "broadcast", "awaiting", "credited"}
    /\ captured \in BOOLEAN /\ prepared \in BOOLEAN
    /\ journal \subseteq TxIds /\ sent \subseteq TxIds
    /\ request \in [Requests -> RequestFiles \cup {None}]
    /\ pointer \in [Nonces \X Modes -> Requests \cup {None}]
    /\ signed \subseteq Requests /\ measured \subseteq Requests /\ offered \subseteq Requests
    /\ result \in [Requests -> EvidenceFiles \cup {None}]
    /\ l1 \in 0..1 /\ credited \in {"no", "mined", "credited"}
    /\ blocks \in Seq(MinedBlocks) /\ Height <= MaxBlocks
    /\ pre \in Events \cup {None}

(* fund-base-sepolia.ts: "A rerun observes this transaction; it never creates
   a second deposit after an ambiguous network failure."  And whatever else
   was handed to a node or a bundler is known to the files a rerun starts
   from, however the command that sent it ended: one that a kill cut short
   does not parse, so that a rerun stops. *)
SentIsRecorded ==
    /\ l1 <= 1
    /\ l1 = 1 => deposit \notin {"none", "prepared"} \/ File("deposit", 0) \in torn
    /\ \A id \in sent : id \in journal \/ File("journal", 0) \in torn
    /\ \A q \in Ours : q \in offered \/ OperationTx(q) \in sent =>
          \/ File("result", q) \in torn
          \/ result[q] # None /\ result[q].status \notin {"prepared", "simulation-failed"}

(* Between the state read before and the receipt the counter moved only by
   the operation, and the deposit just before it was the one read. *)
Attributed(ev) ==
    /\ ev.before < ev.included
    /\ DepositAt(ev.before) = DepositAt(ev.included - 1)
    /\ \A i \in ev.before + 1..ev.included - 1 : ~(blocks[i].kind \in {"op", "counter"} /\ blocks[i].ok)

(* Evidence speaks of what was mined, whatever was preconfirmed, dropped or
   included by another path; and "included-and-verified" means that what
   changed since the state read before is this operation's doing: nobody else
   and no other operation incremented the counter since, and the account's
   deposit was unchanged until then, whatever reruns did in between.  An
   operation that failed and a deposit that pays for it may have come between. *)
EvidenceIsReal ==
    /\ prepared => PreparedAt(Height)
    /\ \A q \in Requests : result[q] # None =>
          LET ev == result[q] IN
          /\ ev.status \in {"included", "execution-reverted", "transaction-reverted"} =>
                ev.included # 0 /\ Shows(blocks[ev.included], q)
                /\ StatusOf(blocks[ev.included]) = ev.status
          /\ Verified(q) => /\ Shows(blocks[ev.included], q)
                            /\ StatusOf(blocks[ev.included]) = "included"
                            /\ Attributed(ev)

(* A request that was prepared, and may be signed, stays executable until its
   nonce is used: the deposit covers it and every nonce before it, whatever
   those turn out to cost, and its init code fits, however the chain moved
   between the reads it came from, unless somebody else created the account
   that the request is to create. *)
RequestsStayExecutable ==
    \A q \in Requests : request[q] # None =>
       LET op == OpOf(q)
           now == NonceAt(Height)
       IN  op.nonce >= now =>
              /\ DepositAt(Height) >= Cap * (op.nonce - now + 1)
              /\ \/ op.deploy = ~DeployedAt(Height)
                 \/ op.deploy /\ Blocks(Height, {"create"}) # {}
===============================================================================
