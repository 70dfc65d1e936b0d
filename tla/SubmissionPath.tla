------------------------------ MODULE SubmissionPath ------------------------------
(***************************************************************************)
(* From the page to the chain: WalletPage, the submission adapters and the *)
(* spaced RPC client of packages/submission, Gateway, and behind it the    *)
(* worker and the chain (external).  Of the reference server between the   *)
(* page and the adapters, a module of its own, its memory of earlier       *)
(* submissions, its nonce check and its own look at the receipt are kept.  *)
(* Other clients of that server share the RPC client and the gateway.  A   *)
(* direct submission goes to an ordinary node, not through the gateway.    *)
(***************************************************************************)
EXTENDS Integers, Sequences, FiniteSets

CONSTANTS Others,       \* other clients' requests
          Messages,     \* what they send
          GatewayOperation(_),  \* the UserOperation the bundler is given for an operation of the page
          Interval,     \* minimumIntervalMs, in ticks
          Budgets,      \* bounds: how often the environment acts in a run, see left
          Keys, Headers, Profiles, Actions, Modes,      \* WalletPage
          Files, Hangups, Minute, MaxEntries, MaxRules, \* Gateway
          None

ASSUME BoundsAssumption ==
    /\ Minute \in Nat \ {0} /\ MaxRules \in Nat \ {0} /\ MaxEntries \in Nat \ {0}
    /\ Interval \in Nat

VARIABLES wallet, connected, address, profile, action, mode, flow, step, candidate, signature, sessions, prepared, last
VARIABLES current, credit, elapsed, active, counters, request, file, load, since, settled
VARIABLES queue,        \* the RPC client: callers waiting for their slot in time
          gap,          \* ticks until the next request may be sent
          job,          \* the adapter calls for the page: [at, operation, mode, heard]
          known,        \* the server's memory: the mode each operation was submitted in
          submitted,    \* what the page submitted: [operation, mode, signature, session, shown]
          pool,         \* operations the worker or the mempool has
          chain,        \* per operation: its outcome in the chain
          report,       \* what the page last showed: [operation, status]
          left          \* what is left of the budget: [flows, selects, switches, faults, others, edits, ticks]

Callers == {"submit", "status"} \cup Others
Page == INSTANCE WalletPage
Gate == INSTANCE Gateway WITH Slots <- Callers

(* There is something to choose from on the page, the two calls of the     *)
(* server are not other clients, and the gateway starts with a valid file. *)
ASSUME PageAssumption ==
    /\ Keys # {} /\ Headers # {} /\ Profiles # {} /\ Actions # {} /\ Modes # {}
    /\ None \notin Page!Operations
ASSUME CallersAssumption == IsFiniteSet(Others) /\ Others \cap {"submit", "status"} = {}
ASSUME FilesAssumption ==
    /\ Len(Files) \in Nat \ {0} /\ DOMAIN Files = 1..Len(Files)
    /\ \A i \in DOMAIN Files : Files[i].requestsPerMinute \in Int /\ Files[i].maxConcurrent \in Int
    /\ Gate!ConfigValid(Files[1])

page == <<wallet, connected, address, profile, action, mode, flow, step, candidate, signature, sessions, prepared, last>>
gate == <<current, credit, elapsed, active, counters, request, file, load, since, settled>>
rpc == <<queue, gap>>
vars == <<page, gate, rpc, job, known, submitted, pool, chain, report, left>>

Can(x) == left[x] > 0
Spend(x) == Can(x) /\ left' = [left EXCEPT ![x] = @ - 1]

(* An entry is added, and what was there stays.                            *)
With(f, x, y) == [z \in DOMAIN f \cup {x} |-> IF z \in DOMAIN f THEN f[z] ELSE y]

NoJob == [at |-> "none", operation |-> None, mode |-> None, heard |-> FALSE]
Outcomes == {"included", "execution-reverted"}
Mined(op) == op \in DOMAIN chain
Nonce(account) == Cardinality({op \in DOMAIN chain : op.owner = account.owner /\ op.profile = account.profile})

(* A call of the adapters is at one of its steps, for an operation.        *)
JobOK(c, steps) ==
    /\ job[c] \in [at : steps \cup {"none"}, operation : Page!Operations \cup {None}, mode : Modes \cup {None}, heard : BOOLEAN]
    /\ job[c].at # "none" => job[c].operation \in Page!Operations

TypeOK ==
    /\ Page!TypeOK /\ Gate!TypeOK
    /\ queue \in Seq(Callers) /\ gap \in 0..Interval
    /\ DOMAIN job = {"submit", "status"}
    /\ JobOK("submit", {"transaction", "entrypoints", "send"}) /\ JobOK("status", {"receipt", "mined receipt"})
    /\ DOMAIN known \subseteq Page!Operations /\ \A op \in DOMAIN known : known[op] \in Modes
    /\ \A s \in submitted : s.operation \in Page!Operations /\ s.mode \in Modes
    /\ pool \subseteq Page!Operations
    /\ DOMAIN chain \subseteq Page!Operations /\ IsFiniteSet(DOMAIN chain)
    /\ \A op \in DOMAIN chain : chain[op] \in Outcomes
    /\ report \in [operation : Page!Operations \cup {None}, status : Outcomes \cup {"none", "pending", "transaction-reverted"}]

Init ==
    /\ Page!Init /\ Gate!Init
    /\ queue = <<>> /\ gap = 0
    /\ job = [c \in {"submit", "status"} |-> NoJob]
    /\ known = <<>> /\ submitted = {} /\ pool = {} /\ chain = <<>>
    /\ report = [operation |-> None, status |-> "none"]
    /\ left \in Budgets
---------------------------------------------------------------------------------
(* httpRpc: every reservation waits for the one asked for before it; a     *)
(* request is sent when its own ends, and the next waits at least Interval *)
(* from there, whatever becomes of this one.                               *)
Ask(c) ==
    /\ request[c].phase = "none" /\ \A i \in DOMAIN queue : queue[i] # c
    /\ queue' = Append(queue, c)
    /\ UNCHANGED gap

MessageOf(c) ==
    [wellFormed |-> TRUE,
     method |-> CASE job[c].at = "entrypoints" -> "eth_supportedEntryPoints"
                  [] job[c].at = "send" -> "eth_sendUserOperation"
                  [] OTHER -> "eth_getUserOperationReceipt",
     op |-> IF job[c].at = "send" THEN GatewayOperation(job[c].operation) ELSE None]

(* The reservation of the first in the queue ends, and it is sent.         *)
Send(c, message) ==
    /\ queue # <<>> /\ Head(queue) = c
    /\ gap = 0
    /\ queue' = Tail(queue)
    /\ gap' = Interval
    /\ Gate!Arrive(c, message)

Tick ==
    /\ Gate!Tick
    /\ gap' = IF gap > 0 THEN gap - 1 ELSE 0
    /\ IF gap > 0 /\ queue # <<>> THEN UNCHANGED left ELSE Spend("ticks")
    /\ UNCHANGED <<page, queue, job, known, submitted, pool, chain, report>>
---------------------------------------------------------------------------------
(* Receipts the server's node has.  In a block: of the operation's         *)
(* transaction, of transactions with other events, one of them another     *)
(* contract's imitation, and of a transaction that reverted.  Of what is   *)
(* only preconfirmed, which a block may not keep: anything.                *)
Event(entryPoint, op, success) == [entryPoint |-> entryPoint, operation |-> op, success |-> success]
Receipt(mined, ok, events) == [mined |-> mined, ok |-> ok, events |-> events]
Genuine(op) == Receipt(TRUE, TRUE, {Event(TRUE, None, TRUE), Event(TRUE, op, chain[op] = "included")})
Preconfirmed(op) == {Receipt(FALSE, TRUE, {Event(TRUE, op, success)}) : success \in BOOLEAN}
ReceiptsFor(op) ==
    {Receipt(TRUE, TRUE, {Event(TRUE, None, TRUE)}), Receipt(TRUE, TRUE, {Event(FALSE, op, TRUE)}), Receipt(TRUE, FALSE, {})}
    \cup Preconfirmed(op)
    \cup (IF Mined(op) THEN {Genuine(op)} ELSE {})

(* Mutant: a preconfirmed receipt is as good as another. *)
FirstReceipts(op) == ReceiptsFor(op)

(* canonicalReceipt: what is not in a block of the chain is asked for      *)
(* again, until it is or the deadline.                                     *)
CanonicalReceipts(op) == {receipt \in ReceiptsFor(op) : receipt.mined}

(* inclusionFromReceipt: the EntryPoint's event decides.                   *)
InclusionFromReceipt(op, receipt) ==
    LET matching == {e \in receipt.events : e.entryPoint /\ e.operation = op}
    IN IF ~receipt.ok THEN "transaction-reverted"
       ELSE IF Cardinality(matching) # 1 THEN "error"
       ELSE IF (CHOOSE e \in matching : TRUE).success THEN "included" ELSE "execution-reverted"

(* What a bundler answers eth_getUserOperationReceipt with, events of its  *)
(* own making included, and what the adapter's status() makes of it.       *)
Claims(op) ==
    {Receipt(FALSE, TRUE, events) : events \in SUBSET {Event(TRUE, op, TRUE), Event(TRUE, op, FALSE)}}
    \cup {Receipt(FALSE, FALSE, {})}
BundlerReceipts(op) ==
    [hash : {op, None}, receipt : Claims(op), success : BOOLEAN]
BundlerStatus(op, result) ==
    IF result = None THEN "pending"
    ELSE IF result.hash # op THEN "error"
    ELSE LET status == InclusionFromReceipt(op, result.receipt)
         IN IF status \in Outcomes /\ result.success = (status = "included") THEN status ELSE "error"

HonestReceipt(op) ==
    [hash |-> op, receipt |-> Receipt(FALSE, TRUE, {Event(TRUE, op, chain[op] = "included")}), success |-> chain[op] = "included"]
---------------------------------------------------------------------------------
(* The adapter's call for the page ends; the page may have given up on it. *)
SubmitEnds(ok) ==
    /\ job' = [job EXCEPT !.submit = NoJob]
    /\ IF job.submit.heard THEN Page!Submitted(ok) ELSE UNCHANGED page
    /\ UNCHANGED report
StatusEnds(status) ==
    /\ job' = [job EXCEPT !.status = NoJob]
    /\ report' = IF job.status.heard /\ status # "error" THEN [operation |-> job.status.operation, status |-> status] ELSE report
    /\ IF job.status.heard THEN Page!Reported(status # "error") ELSE UNCHANGED page

(* /submit and /status: what the server remembers, else the adapter of the *)
(* operation's mode.                                                       *)
StartSubmit ==
    LET op == last[profile]
        new == CHOOSE s \in submitted : s.operation = op
    IN /\ Page!Awaits("submit") /\ job.submit.at = "none"
       /\ IF op \in DOMAIN known
          THEN Page!Submitted(TRUE) /\ UNCHANGED <<rpc, job, known>>
          ELSE IF op.nonce # Nonce(op)
          THEN Page!Submitted(FALSE) /\ UNCHANGED <<rpc, job, known>>
          ELSE /\ known' = With(known, op, new.mode)
               /\ job' = [job EXCEPT !.submit =
                     [at |-> IF new.mode = "direct" THEN "transaction" ELSE "entrypoints",
                      operation |-> op, mode |-> new.mode, heard |-> TRUE]]
               /\ IF new.mode = "direct" THEN UNCHANGED rpc ELSE Ask("submit")
               /\ UNCHANGED page
       /\ UNCHANGED <<gate, submitted, pool, chain, report, left>>

StartStatus ==
    LET op == last[profile]
    IN /\ Page!Awaits("status") /\ job.status.at = "none"
       /\ IF op \notin DOMAIN known
          THEN Page!Reported(FALSE) /\ UNCHANGED <<rpc, job>>
          ELSE /\ job' = [job EXCEPT !.status =
                     [at |-> IF known[op] = "direct" THEN "mined receipt" ELSE "receipt",
                      operation |-> op, mode |-> known[op], heard |-> TRUE]]
               /\ IF known[op] = "direct" THEN UNCHANGED rpc ELSE Ask("status")
               /\ UNCHANGED page
       /\ UNCHANGED <<gate, known, submitted, pool, chain, report, left>>

(* The page's request times out after 75 seconds; the server goes on.      *)
PageTimesOut(c) ==
    /\ job[c].at # "none" /\ job[c].heard
    /\ Spend("faults")
    /\ job' = [job EXCEPT ![c].heard = FALSE]
    /\ IF c = "submit" THEN Page!Submitted(FALSE) ELSE Page!Reported(FALSE)
    /\ UNCHANGED <<gate, rpc, known, submitted, pool, chain, report>>

(* The bundler adapter has the answer of its RPC, or an error.  submit()   *)
(* goes on with the operation when the EntryPoint is among those listed;   *)
(* for an inclusion the server looks at the transaction named itself.      *)
Receive(c) ==
    LET r == request[c]
        at == job[c].at
        op == job[c].operation
        ok == r.end = "forwarded"
    IN /\ at \in {"entrypoints", "send", "receipt"}
       /\ Gate!Leave(c)
       /\ IF at = "entrypoints" /\ ok /\ r.result = "this"
          THEN /\ job' = [job EXCEPT ![c].at = "send"]
               /\ queue' = Append(queue, c)
               /\ UNCHANGED <<gap, page, report>>
          ELSE IF at = "receipt" /\ ok /\ BundlerStatus(op, r.result) \in Outcomes
          THEN /\ job' = [job EXCEPT ![c].at = "mined receipt"]
               /\ UNCHANGED <<rpc, page, report>>
          ELSE /\ IF c = "submit" THEN SubmitEnds(at = "send" /\ ok /\ r.result = <<"hash", op>>)
                  ELSE StatusEnds(IF ok THEN BundlerStatus(op, r.result) ELSE "error")
               /\ UNCHANGED rpc
       /\ UNCHANGED <<known, submitted, pool, chain, left>>

(* The direct adapter: the checks against its node, then the transaction.  *)
DirectSubmit ==
    /\ job.submit.at = "transaction"
    /\ \E sent, ok \in BOOLEAN :
         /\ ok => sent
         /\ IF ok THEN UNCHANGED left ELSE Spend("faults")
         /\ pool' = IF sent THEN pool \cup {job.submit.operation} ELSE pool
         /\ SubmitEnds(ok)
    /\ UNCHANGED <<gate, rpc, known, submitted, chain>>

(* The receipt of the transaction the bundler named, or of the server's    *)
(* own, if it has one, through its node; or the deadline.                  *)
MinedStatus ==
    LET op == job.status.operation
    IN /\ job.status.at = "mined receipt"
       /\ \/ \E receipt \in CanonicalReceipts(op) : StatusEnds(InclusionFromReceipt(op, receipt))
          \/ StatusEnds("error")
          \/ job.status.mode = "direct" /\ StatusEnds("pending")
       /\ UNCHANGED <<gate, rpc, known, submitted, pool, chain, left>>
---------------------------------------------------------------------------------
(* External: the other clients, the worker and the chain.                  *)
OthersAsk(c) ==
    /\ Spend("others") /\ Ask(c)
    /\ UNCHANGED <<page, gate, job, known, submitted, pool, chain, report>>

Arrival(c) ==
    /\ IF c \in Others THEN \E message \in Messages : Send(c, message) ELSE Send(c, MessageOf(c))
    /\ UNCHANGED <<page, job, known, submitted, pool, chain, report, left>>

OthersLeave(c) ==
    /\ c \in Others /\ Gate!Leave(c)
    /\ UNCHANGED <<page, rpc, job, known, submitted, pool, chain, report, left>>

(* A body that is cut off or late is rejected like one that is not admitted. *)
Judged(c) ==
    /\ Gate!Decide(c)
    /\ IF Gate!Accepts(request[c].message, current) /\ request'[c].phase = "done" THEN Spend("faults") ELSE UNCHANGED left
    /\ UNCHANGED <<page, rpc, job, known, submitted, pool, chain, report>>

(* The worker puts what it is given in its pool, before it answers or      *)
(* without answering.                                                      *)
Taken(c) ==
    IF c = "submit" /\ job[c].at = "send" THEN {pool, pool \cup {job[c].operation}} ELSE {pool}

Results(c) ==
    IF c \in Others THEN {"other"}
    ELSE LET op == job[c].operation
         IN CASE job[c].at = "entrypoints" -> {"this", "another"}
              [] job[c].at = "send" -> {<<"hash", op>>, <<"hash", None>>}
              [] OTHER -> {None} \cup BundlerReceipts(op)

Honest(c, result, taken) ==
    \/ c \in Others
    \/ job[c].at = "entrypoints" /\ result = "this"
    \/ job[c].at = "send" /\ result = <<"hash", job[c].operation>> /\ job[c].operation \in taken
    \/ /\ job[c].at = "receipt"
       /\ result = IF Mined(job[c].operation) THEN HonestReceipt(job[c].operation) ELSE None

Answered(c) ==
    /\ \E result \in Results(c), taken \in Taken(c) :
         /\ Gate!Answer(c, result)
         /\ request'[c].end # "forwarded" => result = IF c \in Others THEN "other" ELSE CHOOSE x \in Results(c) : TRUE
         /\ pool' = taken
         /\ IF request'[c].end = "forwarded" /\ Honest(c, result, taken) THEN UNCHANGED left ELSE Spend("faults")
    /\ UNCHANGED <<page, rpc, job, known, submitted, chain, report>>

(* Some bundle has the operation and its nonce is the account's.           *)
Include(op, outcome) ==
    /\ op \in pool /\ ~Mined(op) /\ op.nonce = Nonce(op)
    /\ chain' = With(chain, op, outcome)
    /\ UNCHANGED <<page, gate, rpc, job, known, submitted, pool, report, left>>

(* The owner uses the account somewhere else.                              *)
IncludeElsewhere ==
    LET account == sessions[profile]
    IN /\ account # None
       /\ Spend("others")
       /\ chain' = With(chain, [owner |-> account.owner, profile |-> profile, nonce |-> Nonce(account),
                                deploy |-> Nonce(account) = 0, action |-> None], "included")
       /\ UNCHANGED <<page, gate, rpc, job, known, submitted, pool, report>>

(* SIGHUPs and edits of the gateway's configuration file.                  *)
Reconfigure ==
    /\ \/ Spend("edits") /\ (Gate!Edit \/ \E h \in Hangups : Gate!Hangup(h))
       \/ UNCHANGED left /\ \E h \in Hangups : Gate!Read(h) \/ Gate!Apply(h)
    /\ UNCHANGED <<page, rpc, job, known, submitted, pool, chain, report>>
---------------------------------------------------------------------------------
(* The page, its wallet and its user.                                      *)
elsewhere == <<gate, rpc, job, known, pool, chain, report>>

UserActs ==
    /\ \/ Spend("flows") /\ \E f \in Page!Flows : Page!Click(f)
       \/ Spend("selects") /\ (Page!SelectWallet \/ \E p \in Profiles, a \in Actions, m \in Modes : Page!Select(p, a, m))
       \/ Spend("switches") /\ \E w \in [key : Keys, network : {0, 1}, headers : Headers] : Page!Switch(w)
    /\ UNCHANGED <<elsewhere, submitted>>

Failure ==
    /\ Spend("faults")
    /\ Page!ServerError \/ \E kind \in {"declined", "reconnect", "other"} : Page!WalletError(kind)
    /\ UNCHANGED <<elsewhere, submitted>>

WalletSigns ==
    /\ \E wellFormed, same \in BOOLEAN :
         /\ Page!Sign([wellFormed |-> wellFormed, key |-> wallet.key, headers |-> wallet.headers, address |-> address,
                       payload |-> IF same THEN Page!Payload ELSE <<"another">>])
         /\ IF wellFormed /\ same THEN UNCHANGED left ELSE Spend("faults")
    /\ UNCHANGED <<elsewhere, submitted>>

(* The submission starts with the last check of the network.               *)
NetworkChecked ==
    /\ Page!Network
    /\ submitted' = IF prepared # None /\ last'[profile] = prepared.operation /\ prepared' = None /\ flow' = flow
                    THEN submitted \cup {[operation |-> prepared.operation, mode |-> prepared.mode, signature |-> signature,
                                          session |-> prepared.session, shown |-> <<address, profile, action, mode>>]}
                    ELSE submitted
    /\ UNCHANGED <<elsewhere, left>>

PageGoesOn ==
    /\ Page!Granted \/ Page!RewardAddress \/ Page!Recheck \/ Page!Enrolled
       \/ Page!State(IF Page!ActiveSession = None THEN 0 ELSE Nonce(Page!ActiveSession))
    /\ UNCHANGED <<elsewhere, submitted, left>>
---------------------------------------------------------------------------------
AdapterActs ==
    StartSubmit \/ StartStatus \/ DirectSubmit \/ MinedStatus \/ \E c \in {"submit", "status"} : Receive(c) \/ PageTimesOut(c)
GatewayActs == \E c \in Callers : Arrival(c) \/ Judged(c) \/ Answered(c)

Next ==
    \/ Tick \/ Reconfigure \/ AdapterActs \/ GatewayActs
    \/ \E c \in Others : OthersAsk(c) \/ OthersLeave(c)
    \/ \E op \in pool, outcome \in Outcomes : Include(op, outcome)
    \/ IncludeElsewhere
    \/ UserActs \/ Failure \/ WalletSigns \/ NetworkChecked \/ PageGoesOn

(* Timers fire, the event loops of the server and of the gateway run, and  *)
(* every wait has a timeout: the page's, the RPC client's, the gateway's.  *)
(* One of these steps is taken as long as one is enabled; which, is left   *)
(* open.                                                                   *)
Service ==
    \/ gap > 0 /\ queue # <<>> /\ Tick
    \/ GatewayActs \/ StartSubmit \/ StartStatus \/ DirectSubmit \/ MinedStatus
    \/ (\E c \in {"submit", "status"} : Receive(c)) \/ (\E c \in Others : OthersLeave(c))

Spec == Init /\ [][Next]_vars /\ WF_vars(Service)
---------------------------------------------------------------------------------
(* The gateway's limits hold whatever ends a request: the concurrency      *)
(* counter is the number of requests in progress, every accepted request   *)
(* is in exactly one of the other counters or in progress, and since the   *)
(* start or the last reload no more were accepted than a full bucket and   *)
(* the time passed allow.  Reloads, however they overlap, leave a          *)
(* configuration in force that is valid and differs from the first only    *)
(* where no restart is needed.                                             *)
SlotsAndRate ==
    /\ active = Cardinality(Gate!InProgress)
    /\ counters.requests = counters.admitted + counters.rejected + counters.upstreamErrors + active
    /\ since.accepted * Minute <= current.requestsPerMinute * (Minute + since.ticks)
    /\ Gate!ConfigValid(current) /\ current.restart = Files[1].restart

(* What the worker was given was admitted by a configuration that may be   *)
(* in force and that is no older than what a reload had settled before the *)
(* body ended, however long before that the request was accepted and       *)
(* however reloads overlap: a revocation can be undone only by another     *)
(* edit of the file, or by a run of overlapping reloads that began before  *)
(* the edit.                                                               *)
RevocationHolds ==
    \A c \in Callers :
       request[c].phase = "forwarding" =>
          \E i \in settled.at[c]..file :
             /\ Gate!ConfigValid(Files[i]) /\ Files[i].restart = Files[1].restart
             /\ Gate!Accepts(request[c].message, Files[i])

(* An operation is shown as included, or as reverted, only when the chain  *)
(* has it with that outcome, whatever a bundler answers, makes up or names *)
(* and whatever is preconfirmed meanwhile.                                 *)
InclusionIsReal ==
    report.status \in Outcomes => Mined(report.operation) /\ chain[report.operation] = report.status

AsReviewed(s) ==
    /\ s.shown = <<s.session.address, s.operation.profile, s.operation.action, s.mode>>
    /\ s.session.owner = s.operation.owner
    /\ s.signature = [wellFormed |-> TRUE, key |-> s.operation.owner.key, headers |-> s.operation.owner.headers,
                      address |-> s.session.address, payload |-> <<"operation", s.operation>>]

(* What the page posts is the operation and the route of the review that   *)
(* was on the screen, for the address shown, signed by the enrolled key    *)
(* under the enrolled headers, whatever the wallet was switched to before, *)
(* between or during the prompts; and the enrolled accounts the page keeps *)
(* are those of the address it shows.                                      *)
PostedAsReviewed ==
    /\ \A s \in submitted : AsReviewed(s)
    /\ \A p \in Profiles : sessions[p] # None => connected /\ sessions[p].address = address

Reviewed == INSTANCE ReviewedEffects WITH
    approved <- {s.operation : s \in {x \in submitted : AsReviewed(x)}},
    effect <- chain,
    told <- IF report.status \in Outcomes THEN <<report.operation, report.status>> ELSE None

(* From the page to the chain, nothing of the page's takes effect that was *)
(* not posted as reviewed and signed, whatever fails, is retried or times  *)
(* out on the way, and by whichever route; operations of an account take   *)
(* effect once and in the order of their nonces, and what the page shows   *)
(* of one is its outcome.                                                  *)
EffectsReviewed == Reviewed!Init /\ [][Reviewed!Next]_(Reviewed!vars)

(* Every call ends: those that are queued are sent, those at the gateway   *)
(* are answered, and the page hears of what it submitted or asked about,   *)
(* also when requests are rejected, limited or lost upstream.              *)
CallsEnd ==
    /\ queue # <<>> ~> queue = <<>>
    /\ Gate!InProgress # {} ~> Gate!InProgress = {}
    /\ Page!Awaits("submit") \/ Page!Awaits("status") ~> ~Page!Awaits("submit") /\ ~Page!Awaits("status")
===============================================================================
