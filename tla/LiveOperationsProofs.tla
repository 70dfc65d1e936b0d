------------------------ MODULE LiveOperationsProofs ------------------------
(***************************************************************************)
(* Theorems about LiveOperations, for every set of requests and every      *)
(* number of blocks, foreign transactions and torn files, whatever         *)
(* operations cost within the cap and whatever others deposit.             *)
(*                                                                         *)
(* The inductive invariant has two halves: what the files and the chain    *)
(* say of each other whatever runs, and what each command holds at each of *)
(* its steps.  A command that ends, however it ends, leaves the second     *)
(* half empty, so that only the first has to survive it.                   *)
(***************************************************************************)
EXTENDS LiveOperations, FiniteSetTheorems, SequenceTheorems, TLAPS

Torn(name, of) == File(name, of) \in torn

(* The deposit journal knows of an accepted deposit.                       *)
DepositInv ==
  /\ flow # "fund" => l1 = 1 /\ deposit = "credited" /\ credited = "credited"
  /\ l1 = 1 => deposit \notin {"none", "prepared"} \/ Torn("deposit", 0)
  /\ credited # "no" => l1 = 1

(* A transaction was journalled before it was sent, for a signed request.  *)
JournalInv ==
  /\ sent \subseteq journal
  /\ \A q \in Requests : OperationTx(q) \in journal => q \in signed

(* An operation that was handed over has evidence that says so.            *)
HandedOver ==
  \A q \in Ours : q \in offered \/ OperationTx(q) \in sent =>
    \/ Torn("result", q)
    \/ result[q] # None /\ result[q].status \notin {"prepared", "simulation-failed"}

(* The evidence of a request, against the chain.                           *)
Seen == {"included", "execution-reverted", "transaction-reverted"}
Supported(q, ev) ==
  /\ ev.before # None => ev.before <= Height
  /\ ~ev.submitted => ev.status \in {"prepared", "simulation-failed", "broadcast-result-unknown"}
  /\ ev.status \in Seen \cup {"included-and-verified"} =>
       ev.included \in 1..Height /\ Shows(blocks[ev.included], q)
  /\ ev.status \in Seen => StatusOf(blocks[ev.included]) = ev.status
  /\ ev.status = "included-and-verified" =>
       StatusOf(blocks[ev.included]) = "included" /\ ev.before # None /\ Attributed(ev)
EvidenceInv ==
  /\ \A q \in Requests : result[q] # None => request[q] # None /\ Supported(q, result[q])
  /\ prepared => PreparedAt(Height)

(* Only a request is signed, only a signed request is handed over.         *)
SignedInv ==
  /\ \A q \in signed : request[q] # None
  /\ offered \subseteq signed

(* What a block is tells what it was sent as.  A prefund raises the        *)
(* deposit for the nonce that was current when it was sent.                *)
BlockInv(e) ==
  /\ e.kind = "counter" => e.ok
  /\ \A q \in Requests : e.id = OperationTx(q) => e.kind \in {"op", "reverted"}
  /\ \A n \in Nonces : e.id = Tx("prefund", n) =>
       n <= NonceAt(Height) /\ (n = NonceAt(Height) => DepositAt(Height) >= Prefund)
ChainInv ==
  /\ \A i \in 1..Height : BlockInv(blocks[i])
  /\ DepositAt(Height) >= 0
  /\ \A n \in Nonces : Tx("prefund", n) \in sent => n <= NonceAt(Height)

(* A request can be executed, or could be until its nonce was used.        *)
Deploys(op) == IF op.deploy THEN op.nonce = 0 ELSE DeployedAt(Height)
Paid(op) == op.nonce >= NonceAt(Height) => DepositAt(Height) >= Cap * (op.nonce - NonceAt(Height) + 1)
RequestInv ==
  \A q \in Requests : request[q] # None => Deploys(request[q].op) /\ Paid(request[q].op)

(* fund-base-sepolia sends once, what it has just signed.                  *)
FundAt(r) ==
  /\ r.step \in {"estimate", "sign", "broadcast", "mark"}
  /\ flow = "fund"
  /\ r.step # "mark" => l1 = 0
  /\ r.step \in {"broadcast", "mark"} => deposit \notin {"none", "prepared"}

PrepareAt(r) ==
  /\ r.step \in {"context", "transact", "reserve", "send", "observing", "verify"}
  /\ r.step = "send" => Tx("prepare", 0) \in journal

(* Only prepare-live-operation sends a transaction for a request, and it   *)
(* prepares the current nonce.                                             *)
RequestAt(r) ==
  /\ r.step \in {"context", "nonce", "code", "deposit", "transact", "reserve", "send", "observing", "write", "point"}
  /\ r.mode \in Modes
  /\ flow = "stake" => r.k = 0
  /\ r.step \in {"transact", "reserve", "send", "observing"} => flow = "stake"
  /\ r.step \notin {"context", "nonce"} => r.op \in Operations /\ r.op.nonce <= NonceAt(Height) + r.k
  /\ r.step \notin {"context", "nonce", "code"} => Deploys(r.op)
  /\ r.step = "send" => Tx("prefund", r.op.nonce) \in journal
  /\ r.step = "write" => Paid(r.op)
  /\ r.step = "point" => r.q \in Requests

(* A running submission holds a signed request and what its evidence file  *)
(* says, which tells how far it got.                                       *)
Sending == {"transact", "reserve", "send", "observing", "submitted"}
Progress(r) ==
  /\ r.step \in {"context", "recover", "before", "simulate", "submit", "observe", "canonical", "effects"} \cup Sending
  /\ r.step \in {"before", "simulate", "submit"} \cup Sending => ~r.ev.submitted
  /\ r.step \in {"submit"} \cup Sending => r.ev.status = "broadcast-result-unknown"
  /\ r.step \in {"observe", "canonical", "effects"} => r.ev.submitted
  /\ r.step = "effects" => r.ev.status = "included"
  /\ r.step \in Sending => r.mode = "direct"
  /\ r.step = "send" => OperationTx(r.q) \in journal
SubmitAt(r) ==
  /\ r.q \in signed \cap Ours /\ ~Torn("result", r.q)
  /\ r.op = request[r.q].op /\ r.mode = request[r.q].mode
  /\ r.ev \in EvidenceFiles /\ Progress(r)
  /\ \/ result[r.q] = r.ev
     \/ result[r.q] = None /\ r.ev = Fresh /\ r.step \in {"context", "recover"}

RunAt(r) ==
  /\ r.name = "none" => r.step = "none"
  /\ r.name = "fund" => FundAt(r)
  /\ r.name = "prepare" => PrepareAt(r)
  /\ r.name = "request" => RequestAt(r)
  /\ r.name = "submit" => SubmitAt(r)

FilesInv == DepositInv /\ JournalInv /\ HandedOver /\ EvidenceInv /\ SignedInv /\ ChainInv /\ RequestInv
RunInv == RunAt(run)
IInv == TypeOK /\ FilesInv /\ RunInv
-----------------------------------------------------------------------------
(* How many of the first n blocks of s are in K.                           *)
Marked(s, n, K) == {i \in 1..n : s[i] \in K}
Count(s, n, K) == Cardinality(Marked(s, n, K))

(* A count is at most the number of blocks...                              *)
LEMMA CountType ==
  ASSUME NEW s, NEW n \in Nat, NEW K
  PROVE  IsFiniteSet(Marked(s, n, K)) /\ Count(s, n, K) \in Nat /\ Count(s, n, K) <= n
<1>1. IsFiniteSet(1..n) /\ Cardinality(1..n) = n
  BY FS_Interval
<1>2. Marked(s, n, K) \subseteq 1..n
  BY DEF Marked
<1> QED
  BY <1>1, <1>2, FS_Subset, FS_CardinalityType DEF Count

(* ...the next block adds itself...                                        *)
LEMMA CountNext ==
  ASSUME NEW s, NEW n \in Nat, NEW K
  PROVE  Count(s, n + 1, K) = IF s[n + 1] \in K THEN Count(s, n, K) + 1 ELSE Count(s, n, K)
<1>1. CASE s[n + 1] \in K
  <2>1. Marked(s, n + 1, K) = Marked(s, n, K) \cup {n + 1}
    BY <1>1 DEF Marked
  <2>2. n + 1 \notin Marked(s, n, K)
    BY DEF Marked
  <2> QED
    BY <1>1, <2>1, <2>2, CountType, FS_AddElement DEF Count
<1>2. CASE s[n + 1] \notin K
  <2>1. Marked(s, n + 1, K) = Marked(s, n, K)
    BY <1>2 DEF Marked
  <2> QED
    BY <1>2, <2>1 DEF Count
<1> QED
  BY <1>1, <1>2

(* ...a longer history counts the same...                                  *)
LEMMA CountSame ==
  ASSUME NEW s, NEW t, NEW n \in Nat, NEW K, \A i \in 1..n : s[i] = t[i]
  PROVE  Count(s, n, K) = Count(t, n, K)
<1>1. Marked(s, n, K) = Marked(t, n, K)
  BY DEF Marked
<1> QED
  BY <1>1 DEF Count

(* ...and the blocks between two heights make the difference.              *)
Between(s, m, n, K) == {i \in m + 1..n : s[i] \in K}
LEMMA CountBetween ==
  ASSUME NEW s, NEW m \in Nat, NEW n \in Nat, m <= n, NEW K
  PROVE  /\ IsFiniteSet(Between(s, m, n, K)) /\ Cardinality(Between(s, m, n, K)) \in Nat
         /\ Count(s, n, K) = Count(s, m, K) + Cardinality(Between(s, m, n, K))
<1>1. IsFiniteSet(m + 1..n)
  BY FS_Interval
<1>2. Between(s, m, n, K) \subseteq m + 1..n
  BY DEF Between
<1>3. IsFiniteSet(Between(s, m, n, K)) /\ Cardinality(Between(s, m, n, K)) \in Nat
  BY <1>1, <1>2, FS_Subset, FS_CardinalityType
<1>4. /\ Marked(s, n, K) = Marked(s, m, K) \cup Between(s, m, n, K)
      /\ Marked(s, m, K) \cap Between(s, m, n, K) = {}
  BY DEF Marked, Between
<1>5. IsFiniteSet(Marked(s, m, K)) /\ Cardinality(Marked(s, m, K)) \in Nat
  BY CountType DEF Count
<1>6. Cardinality(Marked(s, n, K)) = Cardinality(Marked(s, m, K)) + Cardinality(Between(s, m, n, K)) - Cardinality({})
  BY <1>3, <1>4, <1>5, FS_Union
<1>7. Cardinality({}) = 0
  BY FS_EmptySet
<1> QED
  BY <1>3, <1>5, <1>6, <1>7 DEF Count

(* The blocks that count: operations, and increments of the counter.       *)
Ops == {e \in MinedBlocks : e.kind = "op"}
Increments == {e \in MinedBlocks : e.kind \in {"op", "counter"} /\ e.ok}

(* The nonce and the counter at a height, by counting.                     *)
LEMMA StateCounts ==
  ASSUME blocks \in Seq(MinedBlocks), NEW n \in 0..Height
  PROVE  NonceAt(n) = Count(blocks, n, Ops) /\ CounterAt(n) = Count(blocks, n, Increments)
<1>1. \A i \in 1..n : blocks[i] \in MinedBlocks
  BY DEF Height
<1>2. Blocks(n, {"op"}) = Marked(blocks, n, Ops)
  BY <1>1 DEF Blocks, Marked, Ops
<1>3. {i \in Blocks(n, {"op", "counter"}) : blocks[i].ok} = Marked(blocks, n, Increments)
  BY <1>1 DEF Blocks, Marked, Increments, MinedBlocks
<1>4. NonceAt(n) = Count(blocks, n, Ops)
  BY <1>2 DEF NonceAt, Count
<1>5. CounterAt(n) = Count(blocks, n, Increments)
  BY <1>3 DEF CounterAt, Count
<1> QED
  BY <1>4, <1>5

LEMMA Counts ==
  blocks \in Seq(MinedBlocks) => \A n \in 0..Height :
    NonceAt(n) = Count(blocks, n, Ops) /\ CounterAt(n) = Count(blocks, n, Increments)
BY StateCounts

LEMMA CountsNext ==
  (blocks \in Seq(MinedBlocks) => \A n \in 0..Height :
    NonceAt(n) = Count(blocks, n, Ops) /\ CounterAt(n) = Count(blocks, n, Increments))'
BY Counts, PTL

(* The account exists once an operation was included; without one it does  *)
(* only when somebody created it.                                          *)
LEMMA Deployment ==
  ASSUME blocks \in Seq(MinedBlocks), NEW n \in 0..Height
  PROVE  /\ ~DeployedAt(n) => NonceAt(n) = 0
         /\ NonceAt(n) = 0 /\ DeployedAt(n) => Blocks(n, {"create"}) # {}
<1>1. /\ Blocks(n, {"op"}) \subseteq Blocks(n, {"op", "create"})
      /\ Blocks(n, {"op", "create"}) \subseteq Blocks(n, {"op"}) \cup Blocks(n, {"create"})
  BY DEF Blocks
<1>2. \A i \in 1..n : blocks[i] \in MinedBlocks
  BY DEF Height
<1>3. Blocks(n, {"op"}) = Marked(blocks, n, Ops) /\ n \in Nat
  BY <1>2 DEF Blocks, Marked, Ops, Height
<1>4. IsFiniteSet(Blocks(n, {"op"}))
  BY <1>3, CountType
<1>5. NonceAt(n) = 0 <=> Blocks(n, {"op"}) = {}
  BY <1>4, FS_EmptySet DEF NonceAt
<1> QED
  BY <1>1, <1>5 DEF DeployedAt

(* Deposits are integers.                                                  *)
LEMMA DepositType ==
  ASSUME blocks \in Seq(MinedBlocks), NEW n \in 0..Height
  PROVE  DepositAt(n) \in Int
<1>1. CASE n = 0
  BY <1>1 DEF DepositAt
<1>2. CASE n # 0
  <2>1. n \in 1..Height /\ blocks[n] \in MinedBlocks
    BY <1>2 DEF Height
  <2> QED
    BY <1>2, <2>1 DEF DepositAt, MinedBlocks
<1> QED
  BY <1>1, <1>2

(* A block that is mined changes the state by what it is.                  *)
LEMMA Mined ==
  ASSUME TypeOK, NEW e \in MinedBlocks, blocks' = Append(blocks, e)
  PROVE  /\ Height \in Nat /\ Height' = Height + 1 /\ blocks' \in Seq(MinedBlocks)
         /\ blocks'[Height + 1] = e /\ \A i \in 1..Height : blocks'[i] = blocks[i]
         /\ NonceAt(Height)' = NonceAt(Height) + (IF e.kind = "op" THEN 1 ELSE 0)
         /\ DepositAt(Height)' = e.deposit
         /\ DeployedAt(Height) => DeployedAt(Height)'
<1>0. PICK h : h = Height
  OBVIOUS
<1>1. /\ h \in Nat /\ Height' = h + 1 /\ blocks' \in Seq(MinedBlocks) /\ blocks \in Seq(MinedBlocks)
      /\ blocks'[h + 1] = e /\ \A i \in 1..h : blocks'[i] = blocks[i]
  <2>1. blocks \in Seq(MinedBlocks)
    BY DEF TypeOK
  <2> QED
    BY <1>0, <2>1, AppendProperties DEF Height
<1>2. Count(blocks', h, Ops) = Count(blocks, h, Ops)
  <2>1. h \in Nat /\ \A i \in 1..h : blocks'[i] = blocks[i]
    BY <1>1
  <2> QED
    BY <2>1, CountSame
<1>3. Count(blocks, h, Ops) \in Nat
  BY <1>1, CountType
<1>4. Count(blocks', h + 1, Ops) = IF e.kind = "op" THEN Count(blocks, h, Ops) + 1 ELSE Count(blocks, h, Ops)
  <2>1. Count(blocks', h + 1, Ops) = IF blocks'[h + 1] \in Ops THEN Count(blocks', h, Ops) + 1 ELSE Count(blocks', h, Ops)
    BY <1>1, CountNext
  <2>2. blocks'[h + 1] \in Ops <=> e.kind = "op"
    BY <1>1 DEF Ops
  <2> QED
    BY <1>2, <2>1, <2>2
<1>5. NonceAt(h) = Count(blocks, h, Ops)
  BY <1>0, <1>1, Counts
<1>6. NonceAt(h + 1)' = Count(blocks', h + 1, Ops)
  BY <1>1, CountsNext
<1>7. NonceAt(h + 1)' = NonceAt(h) + (IF e.kind = "op" THEN 1 ELSE 0)
  BY <1>3, <1>4, <1>5, <1>6
<1>8. DepositAt(h + 1)' = e.deposit
  BY <1>1 DEF DepositAt
<1>9. DeployedAt(h) => DeployedAt(h + 1)'
  <2>1. h \in Nat /\ \A i \in 1..h : blocks'[i] = blocks[i]
    BY <1>1
  <2>2. ASSUME NEW i \in 1..h, blocks[i].kind \in {"op", "create"}
        PROVE  i \in 1..h + 1 /\ blocks'[i].kind \in {"op", "create"}
    <3>1. blocks'[i] = blocks[i]
      BY <2>1
    <3>2. i \in 1..h + 1
      BY <2>1
    <3> QED
      BY <2>2, <3>1, <3>2
  <2> QED
    BY <2>2 DEF DeployedAt, Blocks
<1>10. NonceAt(Height)' = NonceAt(h + 1)' /\ DepositAt(Height)' = DepositAt(h + 1)'
       /\ DeployedAt(Height)' = DeployedAt(h + 1)'
  BY <1>1 DEF NonceAt, DepositAt, DeployedAt, Blocks
<1> QED
  BY <1>0, <1>1, <1>7, <1>8, <1>9, <1>10
-----------------------------------------------------------------------------
(* What does not touch the chain leaves the state at every height.         *)
LEMMA SameChain ==
  ASSUME blocks' = blocks
  PROVE  /\ Height' = Height
         /\ NonceAt(Height)' = NonceAt(Height) /\ DepositAt(Height)' = DepositAt(Height)
         /\ DeployedAt(Height)' = DeployedAt(Height) /\ PreparedAt(Height)' = PreparedAt(Height)
BY DEF Height, NonceAt, DepositAt, DeployedAt, PreparedAt, Blocks

LEMMA HeightType ==
  TypeOK => Height \in Nat /\ \A i \in 1..Height : blocks[i] \in MinedBlocks
<1> SUFFICES ASSUME TypeOK PROVE Height \in Nat /\ \A i \in 1..Height : blocks[i] \in MinedBlocks
  OBVIOUS
<1>1. blocks \in Seq(MinedBlocks)
  BY DEF TypeOK
<1> QED
  BY <1>1 DEF Height

(* Evidence stays true while its request stays and the history grows.      *)
LEMMA SupportedKeep ==
  ASSUME NEW q \in Requests, NEW ev \in EvidenceFiles,
         Height \in Nat, Height' \in Nat, Height' >= Height, \A i \in 1..Height : blocks'[i] = blocks[i],
         request'[q] = request[q], Supported(q, ev)
  PROVE  Supported(q, ev)'
<1>1. /\ ev.before # None => ev.before <= Height'
      /\ ~ev.submitted => ev.status \in {"prepared", "simulation-failed", "broadcast-result-unknown"}
  <2>1. ev.before # None => ev.before \in Nat /\ ev.before <= Height
    BY BoundsAssumption DEF Supported, EvidenceFiles
  <2>2. ev.before # None => ev.before <= Height'
    BY <2>1
  <2> QED
    BY <2>2 DEF Supported
<1>2. ev.included \in 1..Height => blocks'[ev.included] = blocks[ev.included] /\ ev.included \in 1..Height'
  OBVIOUS
<1>3. ev.status \in Seen \cup {"included-and-verified"} =>
        ev.included \in 1..Height /\ ev.included \in 1..Height' /\ Shows(blocks[ev.included], q)'
  BY <1>2 DEF Supported, Shows, OpOf, OperationTx
<1>4. ev.status \in Seen => StatusOf(blocks[ev.included])' = ev.status
  BY <1>2, <1>3 DEF Supported, StatusOf
<1>5. ev.status = "included-and-verified" =>
        StatusOf(blocks[ev.included])' = "included" /\ ev.before # None /\ Attributed(ev)'
  <2> SUFFICES ASSUME ev.status = "included-and-verified"
               PROVE  StatusOf(blocks[ev.included])' = "included" /\ ev.before # None /\ Attributed(ev)'
    OBVIOUS
  <2>1. ev.included \in 1..Height /\ blocks'[ev.included] = blocks[ev.included]
    BY <1>2, <1>3
  <2>2. StatusOf(blocks[ev.included]) = "included" /\ ev.before # None /\ Attributed(ev)
    BY DEF Supported
  <2>3. ev.before \in Nat
    BY <2>2, BoundsAssumption DEF EvidenceFiles
  <2>4. ev.before < ev.included /\ \A i \in ev.before + 1..ev.included - 1 : blocks'[i] = blocks[i]
    BY <2>1, <2>2, <2>3 DEF Attributed
  <2>5. DepositAt(ev.before)' = DepositAt(ev.before) /\ DepositAt(ev.included - 1)' = DepositAt(ev.included - 1)
    BY <2>1, <2>3, <2>4 DEF DepositAt
  <2>6. Attributed(ev)'
    BY <2>2, <2>4, <2>5 DEF Attributed
  <2> QED
    BY <2>1, <2>2, <2>6 DEF StatusOf
<1> QED
  BY <1>1, <1>3, <1>4, <1>5 DEF Supported

LEMMA EvidenceKeep ==
  ASSUME TypeOK, EvidenceInv, prepared' => PreparedAt(Height)',
         Height' \in Nat, Height' >= Height, \A i \in 1..Height : blocks'[i] = blocks[i],
         \A q \in Requests : request[q] # None => request'[q] = request[q], result' = result
  PROVE  EvidenceInv'
<1>1. ASSUME NEW q \in Requests, result[q] # None PROVE request'[q] # None /\ Supported(q, result[q])'
  <2>1. request[q] # None /\ Supported(q, result[q]) /\ request'[q] = request[q]
    BY <1>1 DEF EvidenceInv
  <2>2. result[q] \in EvidenceFiles
    BY <1>1 DEF TypeOK
  <2>3. PICK ev : ev = result[q]
    OBVIOUS
  <2>4. Supported(q, ev)'
    BY <2>1, <2>2, <2>3, HeightType, SupportedKeep
  <2>5. result'[q] = ev
    BY <2>3
  <2> QED
    BY <2>1, <2>3, <2>4, <2>5 DEF Supported, Shows, StatusOf, Attributed, DepositAt
<1> QED
  BY <1>1 DEF EvidenceInv
-----------------------------------------------------------------------------
(* The steps of a command: the files and the chain stay, but for the       *)
(* evidence a submission saves.                                            *)
Kept(status) == status \notin {"prepared", "simulation-failed"}
Saves(ev) ==
  /\ run.name = "submit" /\ ev \in EvidenceFiles /\ Supported(run.q, ev)
  /\ Kept(run.ev.status) => Kept(ev.status)
  /\ result' = [result EXCEPT ![run.q] = ev]

LEMMA ChainKeep ==
  ASSUME ChainInv, UNCHANGED <<blocks, sent>>
  PROVE  ChainInv'
<1>1. \A i \in 1..Height : BlockInv(blocks[i])'
  BY SameChain DEF ChainInv, BlockInv, OperationTx
<1>2. Height' = Height /\ DepositAt(Height)' >= 0 /\ \A n \in Nonces : Tx("prefund", n) \in sent' => n <= NonceAt(Height)'
  BY SameChain DEF ChainInv
<1> QED
  BY <1>1, <1>2 DEF ChainInv, BlockInv

LEMMA RequestKeep ==
  ASSUME RequestInv, UNCHANGED <<blocks, request>>
  PROVE  RequestInv'
BY SameChain DEF RequestInv, Deploys, Paid

LEMMA MoveEvidence ==
  ASSUME IInv, UNCHANGED <<local, sent, torn, blocks>>, NEW ev, Saves(ev),
         offered' = offered \/ (Kept(ev.status) /\ offered' = offered \cup {run.q})
  PROVE  EvidenceInv' /\ HandedOver' /\ result' \in [Requests -> EvidenceFiles \cup {None}]
<1>1. TypeOK /\ EvidenceInv /\ HandedOver /\ SubmitAt(run)
  BY DEF IInv, FilesInv, RunInv, RunAt, Saves
<1>2. run.q \in Requests /\ request[run.q] # None
  BY <1>1 DEF SubmitAt, TypeOK, IInv, FilesInv, SignedInv
<1>3. result' \in [Requests -> EvidenceFiles \cup {None}]
  BY <1>1, <1>2 DEF TypeOK, Saves
<1>4. /\ result'[run.q] = ev /\ ev \in EvidenceFiles /\ ev # None
      /\ \A q \in Requests : q # run.q => result'[q] = result[q]
  BY <1>1, <1>2, NoneAssumption DEF Saves, TypeOK
<1>5. Height \in Nat /\ Height' = Height /\ blocks' = blocks /\ request' = request
  BY <1>1, HeightType, SameChain DEF local
<1>6. EvidenceInv'
  <2>1. ASSUME NEW q \in Requests, NEW f \in EvidenceFiles, Supported(q, f)
        PROVE  Supported(q, f)'
    BY <1>5, <2>1, SupportedKeep
  <2>2. ASSUME NEW q \in Requests, result'[q] # None
        PROVE  request'[q] # None /\ Supported(q, result[q])'
    <3>1. PICK f : f = result'[q]
      OBVIOUS
    <3>2. f \in EvidenceFiles
      BY <2>2, <3>1, <1>3
    <3>3. request'[q] # None /\ Supported(q, f)
      <4>1. CASE q = run.q
        BY <4>1, <3>1, <1>2, <1>4, <1>5 DEF Saves
      <4>2. CASE q # run.q
        BY <4>2, <2>2, <3>1, <1>1, <1>4, <1>5 DEF EvidenceInv
      <4> QED
        BY <4>1, <4>2
    <3>4. Supported(q, f)'
      BY <2>1, <3>2, <3>3
    <3> QED
      BY <3>1, <3>3, <3>4 DEF Supported, Shows, StatusOf, Attributed, DepositAt
  <2>3. prepared' => PreparedAt(Height)'
    BY <1>1, <1>5, SameChain DEF local, EvidenceInv
  <2> QED
    BY <2>2, <2>3 DEF EvidenceInv
<1>7. HandedOver'
  <2> SUFFICES ASSUME NEW q \in Ours, q \in offered' \/ OperationTx(q) \in sent, ~Torn("result", q)
               PROVE  result'[q] # None /\ Kept(result'[q].status)
    BY DEF HandedOver, Kept, Torn, OperationTx
  <2>0. q \in Requests
    BY BoundsAssumption
  <2>1. q \in offered \/ OperationTx(q) \in sent => result[q] # None /\ Kept(result[q].status)
    BY <1>1 DEF HandedOver, Kept
  <2>2. CASE q = run.q
    <3>1. Kept(ev.status)
      <4>1. CASE q \in offered \/ OperationTx(q) \in sent
        <5>1. result[q] = run.ev
          BY <2>1, <2>2, <4>1, <1>1 DEF SubmitAt
        <5> QED
          BY <2>1, <4>1, <5>1 DEF Saves
      <4>2. CASE ~(q \in offered \/ OperationTx(q) \in sent)
        BY <4>2
      <4> QED
        BY <4>1, <4>2
    <3> QED
      BY <2>2, <3>1, <1>4
  <2>3. CASE q # run.q
    BY <2>0, <2>1, <2>3, <1>4
  <2> QED
    BY <2>2, <2>3
<1> QED
  BY <1>3, <1>6, <1>7

LEMMA MoveFiles ==
  ASSUME IInv, UNCHANGED <<flow, local, ledgers, torn, network>>, run' \in Runs,
         \/ result' = result
         \/ \E ev : Saves(ev)
  PROVE  TypeOK' /\ FilesInv'
<1>1. EvidenceInv' /\ HandedOver' /\ result' \in [Requests -> EvidenceFiles \cup {None}]
  <2>1. CASE result' = result
    <3>1. TypeOK /\ EvidenceInv /\ HandedOver
      BY DEF IInv, FilesInv
    <3>2. EvidenceInv'
      <4>1. Height \in Nat /\ Height' = Height /\ PreparedAt(Height)' = PreparedAt(Height)
        BY <3>1, HeightType, SameChain DEF network
      <4>2. (prepared' => PreparedAt(Height)') /\ blocks' = blocks /\ request' = request
        BY <4>1, <3>1 DEF local, network, EvidenceInv
      <4> QED
        BY <2>1, <3>1, <4>1, <4>2, EvidenceKeep
    <3>3. HandedOver'
      BY <2>1, <3>1 DEF HandedOver, network, Torn, OperationTx
    <3> QED
      BY <2>1, <3>1, <3>2, <3>3 DEF TypeOK
  <2>2. ASSUME NEW ev, Saves(ev) PROVE EvidenceInv' /\ HandedOver' /\ result' \in [Requests -> EvidenceFiles \cup {None}]
    BY <2>2, MoveEvidence DEF network
  <2> QED
    BY <2>1, <2>2
<1>2. TypeOK'
  BY <1>1 DEF IInv, TypeOK, local, ledgers, network, Height
<1>3. DepositInv'
  BY DEF IInv, FilesInv, DepositInv, ledgers, network, Torn
<1>4. JournalInv'
  BY DEF IInv, FilesInv, JournalInv, local, ledgers, network, OperationTx
<1>5. SignedInv'
  BY DEF IInv, FilesInv, SignedInv, local, network
<1>6. ChainInv'
  BY ChainKeep DEF IInv, FilesInv, network
<1>7. RequestInv'
  BY RequestKeep DEF IInv, FilesInv, local, network
<1> QED
  BY <1>1, <1>2, <1>3, <1>4, <1>5, <1>6, <1>7 DEF FilesInv
-----------------------------------------------------------------------------
(* What a command holds stays right while nothing it depends on moves.     *)
LEMMA RunKeep ==
  ASSUME NEW r, RunAt(r),
         UNCHANGED <<flow, l1, deposit, journal, signed, request, torn, result, blocks>>
  PROVE  RunAt(r)'
<1>1. r.name = "fund" => FundAt(r)'
  BY DEF RunAt, FundAt
<1>2. r.name = "prepare" => PrepareAt(r)'
  BY DEF RunAt, PrepareAt
<1>3. r.name = "request" => RequestAt(r)'
  BY SameChain DEF RunAt, RequestAt, Deploys, Paid
<1>4. r.name = "submit" => SubmitAt(r)'
  BY DEF RunAt, SubmitAt, Progress, OperationTx, Torn
<1> QED
  BY <1>1, <1>2, <1>3, <1>4 DEF RunAt

(* A step of a command...                                                  *)
LEMMA Move ==
  ASSUME IInv, UNCHANGED <<flow, files, network>>, run' \in Runs, RunAt(run')
  PROVE  IInv'
<1>1. TypeOK' /\ FilesInv'
  BY MoveFiles DEF files
<1>2. PICK r : r = run'
  OBVIOUS
<1>3. RunAt(r)'
  BY <1>2, RunKeep DEF files, local, ledgers, network
<1>4. RunInv'
  BY <1>2, <1>3 DEF RunInv
<1> QED
  BY <1>1, <1>4 DEF IInv

(* ...its end...                                                           *)
LEMMA IdleRun == Idle \in Runs /\ Idle.name = "none" /\ Idle.step = "none"
BY DEF Idle, Runs, Commands, Steps

LEMMA LeaveRun == ASSUME Leave PROVE run' \in Runs /\ RunInv'
BY IdleRun DEF Leave, RunInv, RunAt

LEMMA Leaves ==
  ASSUME IInv, UNCHANGED <<flow, local, ledgers, torn, network>>, Leave,
         \/ result' = result
         \/ \E ev : Saves(ev)
  PROVE  IInv'
BY LeaveRun, MoveFiles DEF IInv

(* ...in a throw, with what a submission saves of it...                    *)
LEMMA Held ==
  ASSUME IInv, run.name = "submit"
  PROVE  /\ run.q \in Requests /\ run.q \in Ours /\ run.q \in signed /\ request[run.q] \in RequestFiles
         /\ run.ev \in EvidenceFiles /\ Supported(run.q, run.ev)
<1>1. SubmitAt(run) /\ TypeOK /\ EvidenceInv /\ SignedInv
  BY DEF IInv, RunInv, RunAt, FilesInv
<1>2. run.q \in Requests /\ run.q \in Ours /\ run.q \in signed
  BY <1>1 DEF SubmitAt, TypeOK
<1>3. request[run.q] \in RequestFiles
  BY <1>1, <1>2 DEF TypeOK, SignedInv
<1>4. run.ev \in EvidenceFiles
  BY <1>1 DEF SubmitAt
<1>5. CASE result[run.q] = run.ev
  <2>1. run.ev # None
    BY <1>4, NoneAssumption
  <2> QED
    BY <1>1, <1>2, <1>3, <1>4, <1>5, <2>1 DEF EvidenceInv
<1>6. CASE run.ev = Fresh
  <2>1. Supported(run.q, run.ev)
    BY <1>6 DEF Fresh, Supported, Seen
  <2> QED
    BY <1>2, <1>3, <1>4, <2>1
<1> QED
  BY <1>1, <1>5, <1>6 DEF SubmitAt

LEMMA FailedKeeps ==
  ASSUME NEW q, NEW ev \in EvidenceFiles, Supported(q, ev)
  PROVE  /\ Failed(ev) \in EvidenceFiles /\ Supported(q, Failed(ev))
         /\ Kept(ev.status) => Kept(Failed(ev).status)
<1>1. CASE ev.status = "prepared"
  <2>1. /\ Failed(ev) \in EvidenceFiles /\ Failed(ev).status = "simulation-failed"
        /\ Failed(ev).before = ev.before /\ Failed(ev).submitted = ev.submitted
    BY <1>1 DEF Failed, EvidenceFiles, Statuses
  <2> QED
    BY <1>1, <2>1 DEF Supported, Seen, Kept
<1>2. CASE ev.status # "prepared"
  BY <1>2 DEF Failed
<1> QED
  BY <1>1, <1>2

LEMMA Throws ==
  ASSUME IInv, UNCHANGED <<flow, local, ledgers, torn, network>>, Throw
  PROVE  IInv'
<1>1. CASE run.name = "submit"
  BY <1>1, Held, FailedKeeps, Leaves DEF Throw, Saves
<1>2. CASE run.name # "submit"
  BY <1>2, Leaves DEF Throw
<1> QED
  BY <1>1, <1>2

(* ...and a step that saves evidence.                                      *)
LEMMA SaveMoves ==
  ASSUME IInv, UNCHANGED <<flow, local, ledgers, torn, network>>, NEW ev, NEW s \in Steps,
         Saves(ev), SaveGoto(ev, s), Progress(run')
  PROVE  IInv'
<1>1. SubmitAt(run) /\ TypeOK /\ run \in Runs /\ run.name = "submit" /\ ev \in EvidenceFiles
  BY DEF IInv, RunInv, RunAt, Saves, TypeOK
<1>2. PICK r : r = [run EXCEPT !.ev = ev, !.step = s]
  OBVIOUS
<1>3. /\ r \in Runs /\ r.name = "submit" /\ r.q = run.q /\ r.op = run.op /\ r.mode = run.mode
      /\ r.ev = ev /\ r.step = s
  BY <1>1, <1>2 DEF Runs
<1>4. run' = r
  BY <1>2 DEF SaveGoto
<1>5. TypeOK' /\ FilesInv'
  BY <1>3, <1>4, MoveFiles
<1>6. result'[run.q] = ev
  BY <1>1, Held DEF Saves, TypeOK
<1>7. Progress(r)'
  BY <1>4 DEF Progress, ledgers, OperationTx
<1>8. SubmitAt(r)'
  BY <1>1, <1>3, <1>6, <1>7 DEF SubmitAt, Torn, local
<1>9. RunInv'
  BY <1>3, <1>4, <1>8 DEF RunInv, RunAt
<1> QED
  BY <1>5, <1>9 DEF IInv
-----------------------------------------------------------------------------
(* The commands, action by action.  First the deposit.                     *)
LEMMA DepositMove ==
  ASSUME IInv, UNCHANGED <<flow, local, journal, result, torn, sent, offered, blocks, pre>>,
         run' \in Runs, RunInv', DepositInv',
         deposit' \in {"none", "prepared", "signed", "broadcast", "awaiting", "credited"},
         l1' \in 0..1, credited' \in {"no", "mined", "credited"}
  PROVE  IInv'
<1>1. TypeOK'
  BY DEF IInv, TypeOK, local, Height
<1>2. EvidenceInv'
  <2>1. TypeOK /\ EvidenceInv /\ Height \in Nat /\ Height' = Height /\ PreparedAt(Height)' = PreparedAt(Height)
    BY HeightType, SameChain DEF IInv, FilesInv
  <2>2. (prepared' => PreparedAt(Height)') /\ blocks' = blocks /\ request' = request /\ result' = result
    BY <2>1 DEF local, EvidenceInv
  <2> QED
    BY <2>1, <2>2, EvidenceKeep
<1>3. JournalInv' /\ HandedOver' /\ SignedInv'
  BY DEF IInv, FilesInv, JournalInv, HandedOver, SignedInv, OperationTx, Torn, local
<1>4. ChainInv' /\ RequestInv'
  BY ChainKeep, RequestKeep DEF IInv, FilesInv, local
<1> QED
  BY <1>1, <1>2, <1>3, <1>4 DEF IInv, FilesInv

LEMMA FundActions ==
  ASSUME IInv,
         Fund \/ FundStatus \/ FundEstimate \/ FundSign \/ FundBroadcast \/ FundMark \/ BridgeDeposit
  PROVE  IInv'
<1>0. TypeOK /\ run \in Runs /\ DepositInv /\ RunAt(run) /\ l1 \in 0..1
      /\ credited \in {"no", "mined", "credited"}
      /\ deposit \in {"none", "prepared", "signed", "broadcast", "awaiting", "credited"}
  BY DEF IInv, TypeOK, FilesInv, RunInv
<1>1. ASSUME Fund PROVE IInv'
  <2>1. run' \in Runs /\ run'.name = "fund" /\ run'.step = "estimate"
    BY <1>1, IdleRun DEF Fund, Runs, Commands, Steps
  <2>2. RunAt(run')
    BY <1>0, <1>1, <2>1 DEF Fund, DepositInv, RunAt, FundAt, Torn
  <2> QED
    BY <1>1, <2>1, <2>2, Move DEF Fund
<1>2. ASSUME FundStatus PROVE IInv'
  <2>1. deposit' \in {"none", "prepared", "signed", "broadcast", "awaiting", "credited"} /\ DepositInv'
    BY <1>0, <1>2 DEF FundStatus, DepositInv, network, Torn
  <2>2. run' \in Runs /\ RunInv'
    BY <1>0, <1>2, IdleRun DEF FundStatus, RunInv, RunAt
  <2> QED
    BY <1>0, <1>2, <2>1, <2>2, DepositMove DEF FundStatus, network
<1>3. ASSUME FundEstimate PROVE IInv'
  <2>1. run.name = "fund" /\ FundAt(run)
    BY <1>0, <1>3 DEF FundEstimate, At, RunAt
  <2>2. deposit' \in {"none", "prepared", "signed", "broadcast", "awaiting", "credited"} /\ DepositInv'
    BY <1>0, <1>3, <2>1 DEF FundEstimate, At, FundAt, DepositInv, network, Torn
  <2>3. run' \in Runs /\ RunInv'
    <3>1. CASE Leave
      BY <3>1, LeaveRun
    <3>2. CASE Goto("sign")
      <4>1. run' \in Runs /\ run'.name = "fund" /\ run'.step = "sign"
        BY <1>0, <2>1, <3>2 DEF Goto, Runs, Steps
      <4> QED
        BY <1>3, <2>1, <4>1 DEF FundEstimate, At, FundAt, RunInv, RunAt, network
    <3> QED
      BY <1>3, <3>1, <3>2 DEF FundEstimate
  <2> QED
    BY <1>0, <1>3, <2>2, <2>3, DepositMove DEF FundEstimate, network
<1>4. ASSUME FundSign PROVE IInv'
  <2>1. run.name = "fund" /\ run.step = "sign" /\ FundAt(run)
    BY <1>0, <1>4 DEF FundSign, At, RunAt
  <2>2. DepositInv'
    BY <1>0, <1>4, <2>1 DEF FundSign, FundAt, DepositInv, network, Torn
  <2>3. run' \in Runs /\ run'.name = "fund" /\ run'.step = "broadcast"
    BY <1>0, <1>4, <2>1 DEF FundSign, Goto, Runs, Steps
  <2>4. RunInv'
    BY <1>4, <2>1, <2>3 DEF FundSign, FundAt, RunInv, RunAt, network
  <2> QED
    BY <1>0, <1>4, <2>2, <2>3, <2>4, DepositMove DEF FundSign, network
<1>5. ASSUME FundBroadcast PROVE IInv'
  <2>1. run.name = "fund" /\ run.step = "broadcast" /\ FundAt(run)
    BY <1>0, <1>5 DEF FundBroadcast, At, RunAt
  <2>2. l1' \in 0..1 /\ DepositInv'
    BY <1>0, <1>5, <2>1 DEF FundBroadcast, FundAt, DepositInv, files, ledgers, Torn
  <2>3. run' \in Runs /\ RunInv'
    <3>1. CASE Leave
      BY <3>1, LeaveRun
    <3>2. CASE Goto("mark")
      <4>1. run' \in Runs /\ run'.name = "fund" /\ run'.step = "mark"
        BY <1>0, <2>1, <3>2 DEF Goto, Runs, Steps
      <4> QED
        BY <1>5, <2>1, <4>1 DEF FundBroadcast, FundAt, RunInv, RunAt, files, ledgers
    <3> QED
      BY <1>5, <3>1, <3>2 DEF FundBroadcast
  <2> QED
    BY <1>0, <1>5, <2>2, <2>3, DepositMove DEF FundBroadcast, files, ledgers
<1>6. ASSUME FundMark PROVE IInv'
  <2>1. run.name = "fund" /\ FundAt(run)
    BY <1>0, <1>6 DEF FundMark, At, RunAt
  <2>2. DepositInv'
    BY <1>0, <1>6, <2>1 DEF FundMark, FundAt, DepositInv, network, Torn
  <2> QED
    BY <1>0, <1>6, <2>2, LeaveRun, DepositMove DEF FundMark, network
<1>7. ASSUME BridgeDeposit PROVE IInv'
  <2>1. credited' \in {"no", "mined", "credited"} /\ DepositInv'
    BY <1>0, <1>7 DEF BridgeDeposit, DepositInv, files, ledgers, Torn
  <2>2. PICK r : r = run
    OBVIOUS
  <2>3. RunAt(r)'
    BY <1>0, <1>7, <2>2, RunKeep DEF BridgeDeposit, files, ledgers, local
  <2>4. run' \in Runs /\ RunInv'
    BY <1>0, <1>7, <2>2, <2>3 DEF BridgeDeposit, RunInv
  <2> QED
    BY <1>0, <1>7, <2>1, <2>4, DepositMove DEF BridgeDeposit, files, ledgers
<1> QED
  BY <1>1, <1>2, <1>3, <1>4, <1>5, <1>6, <1>7
-----------------------------------------------------------------------------
(* What is captured, written and signed.                                   *)
LEMMA LocalMove ==
  ASSUME IInv, UNCHANGED <<flow, ledgers, result, torn, network>>, run' \in Runs, RunInv',
         captured' \in BOOLEAN, prepared' \in BOOLEAN, prepared' => PreparedAt(Height),
         request' \in [Requests -> RequestFiles \cup {None}],
         \A q \in Requests : request[q] # None => request'[q] = request[q],
         pointer' \in [Nonces \X Modes -> Requests \cup {None}],
         signed \subseteq signed', signed' \subseteq Requests, \A q \in signed' : request'[q] # None,
         measured' \subseteq Requests, RequestInv'
  PROVE  IInv'
<1>1. TypeOK'
  BY DEF IInv, TypeOK, ledgers, network, Height
<1>2. EvidenceInv'
  <2>1. TypeOK /\ EvidenceInv /\ Height \in Nat /\ Height' = Height /\ PreparedAt(Height)' = PreparedAt(Height)
    BY HeightType, SameChain DEF IInv, FilesInv, network
  <2>2. (prepared' => PreparedAt(Height)') /\ blocks' = blocks /\ result' = result
    BY <2>1 DEF network
  <2> QED
    BY <2>1, <2>2, EvidenceKeep
<1>3. DepositInv' /\ HandedOver'
  BY DEF IInv, FilesInv, DepositInv, HandedOver, OperationTx, Torn, ledgers, network
<1>4. JournalInv' /\ SignedInv'
  BY DEF IInv, FilesInv, JournalInv, SignedInv, OperationTx, ledgers, network
<1>5. ChainInv'
  BY ChainKeep DEF IInv, FilesInv, network
<1> QED
  BY <1>1, <1>2, <1>3, <1>4, <1>5 DEF IInv, FilesInv

(* What every such step starts from.                                       *)
LEMMA LocalFacts ==
  ASSUME IInv
  PROVE  /\ TypeOK /\ RequestInv /\ SignedInv /\ RunAt(run) /\ run \in Runs
         /\ captured \in BOOLEAN /\ prepared \in BOOLEAN /\ (prepared => PreparedAt(Height))
         /\ request \in [Requests -> RequestFiles \cup {None}]
         /\ pointer \in [Nonces \X Modes -> Requests \cup {None}]
         /\ signed \subseteq Requests /\ measured \subseteq Requests
         /\ \A p \in signed : request[p] # None
         /\ UNCHANGED <<request, blocks>> => RequestInv'
         /\ run = Idle /\ run' = run => run' \in Runs /\ RunInv'
<1>0. /\ TypeOK /\ RequestInv /\ SignedInv /\ RunAt(run) /\ run \in Runs
      /\ captured \in BOOLEAN /\ prepared \in BOOLEAN /\ (prepared => PreparedAt(Height))
      /\ request \in [Requests -> RequestFiles \cup {None}]
      /\ pointer \in [Nonces \X Modes -> Requests \cup {None}]
      /\ signed \subseteq Requests /\ measured \subseteq Requests
      /\ \A p \in signed : request[p] # None
  BY DEF IInv, TypeOK, FilesInv, RunInv, SignedInv, EvidenceInv
<1>1. UNCHANGED <<request, blocks>> => RequestInv'
  BY <1>0, RequestKeep
<1>2. run = Idle /\ run' = run => run' \in Runs /\ RunInv'
  BY <1>0, IdleRun DEF RunInv, RunAt
<1> QED
  BY <1>0, <1>1, <1>2

LEMMA CaptureActions ==
  ASSUME IInv, CaptureWallet \/ WritePointer
  PROVE  IInv'
<1>1. request' = request /\ blocks' = blocks
  BY DEF CaptureWallet, WritePointer, network
<1>2. ASSUME CaptureWallet PROVE IInv'
  BY <1>1, <1>2, LocalFacts, LocalMove DEF CaptureWallet, network
<1>3. ASSUME WritePointer PROVE IInv'
  <2>1. RequestAt(run) /\ run.step = "point"
    BY <1>3, LocalFacts DEF WritePointer, At, RunAt
  <2>2. run.op.nonce \in Nonces /\ run.mode \in Modes /\ run.q \in Requests
    BY <2>1 DEF RequestAt, Operations
  <2>3. pointer' \in [Nonces \X Modes -> Requests \cup {None}]
    BY <1>3, <2>2, LocalFacts DEF WritePointer
  <2>4. run' \in Runs /\ RunInv'
    BY <1>3, LeaveRun DEF WritePointer
  <2> QED
    BY <1>1, <1>3, <2>3, <2>4, LocalFacts, LocalMove DEF WritePointer, network
<1> QED
  BY <1>2, <1>3

LEMMA RequestFileActions ==
  ASSUME IInv, NEW q \in Requests, CaptureSignature(q) \/ Measure(q)
  PROVE  IInv'
<1>1. request' = request /\ blocks' = blocks
  BY DEF CaptureSignature, Measure, network
<1>2. ASSUME CaptureSignature(q) PROVE IInv'
  BY <1>1, <1>2, LocalFacts, LocalMove DEF CaptureSignature, CheckLiveRequest, network
<1>3. ASSUME Measure(q) PROVE IInv'
  BY <1>1, <1>3, LocalFacts, LocalMove DEF Measure, network
<1> QED
  BY <1>2, <1>3

LEMMA SavePreparedAction ==
  ASSUME IInv, SavePrepared
  PROVE  IInv'
<1>1. request' = request /\ blocks' = blocks
  BY DEF SavePrepared, network
<1>2. run' \in Runs /\ RunInv'
  BY LeaveRun DEF SavePrepared
<1>3. prepared' \in BOOLEAN /\ (prepared' => PreparedAt(Height))
  <2>1. CASE PreparedAt(Height) /\ prepared' = TRUE
    BY <2>1
  <2>2. CASE prepared' = prepared
    BY <2>2, LocalFacts
  <2> QED
    BY <2>1, <2>2 DEF SavePrepared
<1> QED
  BY <1>1, <1>2, <1>3, LocalFacts, LocalMove DEF SavePrepared, network

(* A request is written as it was read.                                    *)
LEMMA WriteRequestAction ==
  ASSUME IInv, NEW q \in Requests, WriteRequest(q)
  PROVE  IInv'
<1>0. /\ TypeOK /\ RequestInv /\ SignedInv /\ run \in Runs
      /\ captured \in BOOLEAN /\ prepared \in BOOLEAN /\ (prepared => PreparedAt(Height))
      /\ request \in [Requests -> RequestFiles \cup {None}]
      /\ pointer \in [Nonces \X Modes -> Requests \cup {None}]
      /\ signed \subseteq Requests /\ measured \subseteq Requests
      /\ \A p \in signed : request[p] # None
  BY DEF IInv, TypeOK, FilesInv, RunInv, SignedInv, EvidenceInv
<1>1. run.name = "request" /\ run.step = "write" /\ RequestAt(run)
  BY DEF IInv, RunInv, RunAt, WriteRequest, At
<1>2. PICK f : f = [op |-> run.op, mode |-> run.mode]
  OBVIOUS
<1>3. f \in RequestFiles /\ f.op = run.op
  BY <1>1, <1>2 DEF RequestAt, RequestFiles
<1>4. f # None
  BY <1>3, NoneAssumption
<1>5. request' = [request EXCEPT ![q] = f] /\ request[q] = None
  BY <1>2 DEF WriteRequest
<1>6. /\ request' \in [Requests -> RequestFiles \cup {None}] /\ request'[q] = f
      /\ \A p \in Requests : p # q => request'[p] = request[p]
  BY <1>0, <1>3, <1>5
<1>7. \A p \in Requests : request[p] # None => request'[p] = request[p]
  BY <1>5, <1>6
<1>8. \A p \in signed : request'[p] # None
  BY <1>0, <1>7
<1>9. RequestInv'
  <2>1. UNCHANGED blocks
    BY DEF WriteRequest, network
  <2>2. ASSUME NEW p \in Requests, request'[p] # None
        PROVE  Deploys(request'[p].op) /\ Paid(request'[p].op)
    <3>1. CASE p = q
      BY <3>1, <1>1, <1>3, <1>6 DEF RequestAt
    <3>2. CASE p # q
      BY <3>2, <2>2, <1>0, <1>6 DEF RequestInv
    <3> QED
      BY <3>1, <3>2
  <2> QED
    BY <2>1, <2>2, SameChain DEF RequestInv, Deploys, Paid
<1>10. run' \in Runs /\ run'.name = "request" /\ run'.step = "point" /\ run'.q = q
       /\ run'.mode = run.mode /\ run'.k = run.k /\ run'.op = run.op
  BY <1>0, <1>1 DEF WriteRequest, Runs, Steps
<1>11. RunInv'
  <2>1. UNCHANGED <<flow, blocks>>
    BY DEF WriteRequest, network
  <2>2. RequestAt(run)'
    BY <1>1, <1>10, <2>1, SameChain DEF RequestAt, Deploys
  <2> QED
    BY <1>10, <2>2 DEF RunInv, RunAt
<1> QED
  BY <1>0, <1>6, <1>7, <1>8, <1>9, <1>10, <1>11, LocalMove DEF WriteRequest, network

LEMMA KillAction ==
  ASSUME IInv, Kill
  PROVE  IInv'
<1>1. torn \subseteq torn' /\ run' \in Runs /\ RunInv'
  BY LeaveRun DEF Kill, Leave
<1>2. TypeOK'
  BY <1>1 DEF Kill, IInv, TypeOK, local, ledgers, network, Height
<1>3. EvidenceInv'
  <2>1. TypeOK /\ EvidenceInv /\ Height \in Nat /\ Height' = Height /\ PreparedAt(Height)' = PreparedAt(Height)
    BY HeightType, SameChain DEF IInv, FilesInv, Kill, network
  <2>2. (prepared' => PreparedAt(Height)') /\ blocks' = blocks /\ result' = result /\ request' = request
    BY <2>1 DEF Kill, network, local, EvidenceInv
  <2> QED
    BY <2>1, <2>2, EvidenceKeep
<1>4. DepositInv'
  BY <1>1 DEF Kill, IInv, FilesInv, DepositInv, Torn, ledgers, network
<1>5. HandedOver'
  BY <1>1 DEF Kill, IInv, FilesInv, HandedOver, OperationTx, Torn, ledgers, network
<1>6. JournalInv' /\ SignedInv'
  BY DEF Kill, IInv, FilesInv, JournalInv, SignedInv, OperationTx, local, ledgers, network
<1>7. ChainInv' /\ RequestInv'
  BY ChainKeep, RequestKeep DEF Kill, IInv, FilesInv, local, network
<1> QED
  BY <1>1, <1>2, <1>3, <1>4, <1>5, <1>6, <1>7 DEF IInv, FilesInv

(* Somebody else's submission.                                             *)
LEMMA ElsewhereAction ==
  ASSUME IInv, NEW q \in Requests, SubmitElsewhere(q)
  PROVE  IInv'
<1>1. TypeOK' /\ SignedInv'
  BY DEF SubmitElsewhere, IInv, TypeOK, FilesInv, SignedInv, files, local, ledgers, Height
<1>2. EvidenceInv'
  <2>1. TypeOK /\ EvidenceInv /\ Height \in Nat /\ Height' = Height /\ PreparedAt(Height)' = PreparedAt(Height)
    BY HeightType, SameChain DEF IInv, FilesInv, SubmitElsewhere
  <2>2. (prepared' => PreparedAt(Height)') /\ blocks' = blocks /\ result' = result /\ request' = request
    BY <2>1 DEF SubmitElsewhere, files, local, EvidenceInv
  <2> QED
    BY <2>1, <2>2, EvidenceKeep
<1>3. DepositInv' /\ JournalInv' /\ HandedOver'
  BY DEF SubmitElsewhere, IInv, FilesInv, DepositInv, JournalInv, HandedOver, OperationTx, Torn, files, local, ledgers
<1>4. ChainInv' /\ RequestInv'
  BY ChainKeep, RequestKeep DEF SubmitElsewhere, IInv, FilesInv, files, local
<1>5. PICK r : r = run
  OBVIOUS
<1>6. RunAt(r)'
  BY <1>5, RunKeep DEF SubmitElsewhere, IInv, RunInv, files, local, ledgers
<1> QED
  BY <1>1, <1>2, <1>3, <1>4, <1>5, <1>6 DEF SubmitElsewhere, IInv, FilesInv, RunInv
-----------------------------------------------------------------------------
(* The steps every command that may send a transaction takes.              *)
LEMMA TxApart ==
  /\ \A q, p \in Requests : OperationTx(q) = OperationTx(p) => q = p
  /\ \A n \in Nonces, m \in Nonces : Tx("prefund", n) = Tx("prefund", m) => n = m
  /\ \A q \in Requests : Tx("prepare", 0) # OperationTx(q)
  /\ \A n \in Nonces : Tx("prepare", 0) # Tx("prefund", n)
  /\ \A n \in Nonces, q \in Requests : Tx("prefund", n) # OperationTx(q)
  /\ \A n \in Nonces : Tx("prefund", n) \in TxIds
  /\ \A q \in Requests : OperationTx(q) \in TxIds
<1>1. \A q, p \in Requests : OperationTx(q) = OperationTx(p) => q = p
  BY DEF OperationTx, Tx
<1>2. \A n \in Nonces, m \in Nonces : Tx("prefund", n) = Tx("prefund", m) => n = m
  BY DEF Tx
<1>3. /\ \A q \in Requests : Tx("prepare", 0) # OperationTx(q)
      /\ \A n \in Nonces : Tx("prepare", 0) # Tx("prefund", n)
      /\ \A n \in Nonces, q \in Requests : Tx("prefund", n) # OperationTx(q)
  BY DEF OperationTx, Tx
<1>4. (\A n \in Nonces : Tx("prefund", n) \in TxIds) /\ (\A q \in Requests : OperationTx(q) \in TxIds)
  BY DEF OperationTx, TxIds
<1> QED
  BY <1>1, <1>2, <1>3, <1>4

(* At these steps a command is at work on a transaction of its own.        *)
Sends == {"transact", "reserve", "send", "observing"}
LEMMA Transacting ==
  ASSUME IInv, run.step \in Sends \cup {"context"}
  PROVE  \/ run.name = "prepare" /\ PrepareAt(run)
         \/ run.name = "request" /\ RequestAt(run)
         \/ run.name = "submit" /\ SubmitAt(run)
<1>1. run \in Runs /\ RunAt(run)
  BY DEF IInv, TypeOK, RunInv
<1>2. run.name \in Commands
  BY <1>1 DEF Runs
<1> QED
  BY <1>1, <1>2 DEF RunAt, FundAt, Commands, Sends

LEMMA CurrentTxs ==
  ASSUME IInv, run.step \in Sends
  PROVE  /\ run.name = "prepare" => CurrentTx = Tx("prepare", 0)
         /\ run.name = "request" => CurrentTx = Tx("prefund", run.op.nonce) /\ run.op.nonce \in Nonces
                                    /\ flow = "stake" /\ run.op.nonce <= NonceAt(Height)
         /\ run.name = "submit" => CurrentTx = OperationTx(run.q) /\ run.q \in signed /\ run.q \in Requests
         /\ run.step = "send" => CurrentTx \in journal
         /\ CurrentTx \in TxIds
<1>0. run.name \in {"prepare", "request", "submit"}
  BY Transacting
<1>1. ASSUME run.name = "prepare"
      PROVE  CurrentTx = Tx("prepare", 0) /\ (run.step = "send" => CurrentTx \in journal)
  BY <1>1, Transacting DEF CurrentTx, PrepareAt
<1>2. ASSUME run.name = "request"
      PROVE  /\ CurrentTx = Tx("prefund", run.op.nonce) /\ run.op.nonce \in Nonces
             /\ flow = "stake" /\ run.op.nonce <= NonceAt(Height)
             /\ run.step = "send" => CurrentTx \in journal
  <2>1. RequestAt(run) /\ CurrentTx = Tx("prefund", run.op.nonce)
    BY <1>2, Transacting DEF CurrentTx
  <2>2. flow = "stake" /\ run.k = 0 /\ run.op \in Operations /\ run.op.nonce <= NonceAt(Height) + run.k
    BY <2>1 DEF RequestAt, Sends
  <2>3. NonceAt(Height) \in Int
    BY HeightType, Counts, CountType DEF IInv, TypeOK
  <2> QED
    BY <2>1, <2>2, <2>3 DEF RequestAt, Operations
<1>3. ASSUME run.name = "submit"
      PROVE  /\ CurrentTx = OperationTx(run.q) /\ run.q \in signed /\ run.q \in Requests
             /\ run.step = "send" => CurrentTx \in journal
  BY <1>3, Transacting, Held DEF CurrentTx, SubmitAt, Progress
<1>4. CurrentTx \in TxIds
  <2>1. CASE run.name = "prepare"
    BY <2>1, <1>1 DEF TxIds
  <2>2. CASE run.name = "request"
    BY <2>2, <1>2, TxApart DEF TxIds
  <2>3. CASE run.name = "submit"
    BY <2>3, <1>3, TxApart DEF TxIds
  <2> QED
    BY <1>0, <2>1, <2>2, <2>3
<1> QED
  BY <1>0, <1>1, <1>2, <1>3, <1>4
LEMMA GotoRun ==
  ASSUME run \in Runs, NEW s \in Steps, Goto(s)
  PROVE  /\ run' \in Runs /\ run'.step = s /\ run'.name = run.name /\ run'.q = run.q /\ run'.k = run.k
         /\ run'.mode = run.mode /\ run'.op = run.op /\ run'.ev = run.ev
BY DEF Goto, Runs

LEMMA StateType ==
  TypeOK => /\ Height \in Nat /\ NonceAt(Height) \in Nat /\ NonceAt(Height) <= Height
            /\ DepositAt(Height) \in Int
            /\ ~DeployedAt(Height) => NonceAt(Height) = 0
            /\ NonceAt(Height) = 0 /\ DeployedAt(Height) => Blocks(Height, {"create"}) # {}
<1> SUFFICES ASSUME TypeOK
             PROVE  /\ Height \in Nat /\ NonceAt(Height) \in Nat /\ NonceAt(Height) <= Height
                    /\ DepositAt(Height) \in Int
                    /\ ~DeployedAt(Height) => NonceAt(Height) = 0
                    /\ NonceAt(Height) = 0 /\ DeployedAt(Height) => Blocks(Height, {"create"}) # {}
  OBVIOUS
<1>1. PICK h : h = Height
  OBVIOUS
<1>2. h \in Nat /\ blocks \in Seq(MinedBlocks)
  BY <1>1, HeightType DEF TypeOK
<1>3. NonceAt(h) = Count(blocks, h, Ops) /\ Count(blocks, h, Ops) \in Nat /\ Count(blocks, h, Ops) <= h
  BY <1>1, <1>2, Counts, CountType
<1>4. DepositAt(h) \in Int
  BY <1>1, <1>2, DepositType
<1>5. /\ ~DeployedAt(h) => NonceAt(h) = 0
      /\ NonceAt(h) = 0 /\ DeployedAt(h) => Blocks(h, {"create"}) # {}
  BY <1>1, <1>2, Deployment
<1> QED
  BY <1>1, <1>2, <1>3, <1>4, <1>5

LEMMA LiveContextAction ==
  ASSUME IInv, LiveContext
  PROVE  IInv'
<1>0. UNCHANGED <<flow, local, ledgers, torn, network>> /\ run.step = "context"
      /\ run \in Runs /\ RunAt(run)
  BY DEF LiveContext, IInv, TypeOK, RunInv
<1>1. CASE Throw
  BY <1>0, <1>1, Throws
<1>2. CASE Goto(AfterContext) /\ UNCHANGED result
  <2>1. UNCHANGED <<flow, files, network>>
    BY <1>0, <1>2 DEF files
  <2>2. CASE run.name = "prepare"
    <3>1. Goto("transact")
      BY <1>2, <2>2 DEF AfterContext
    <3>2. run' \in Runs /\ run'.step = "transact" /\ run'.name = "prepare"
      BY <1>0, <2>2, <3>1, GotoRun DEF Steps
    <3> QED
      BY <2>1, <3>2, Move DEF RunAt, PrepareAt
  <2>3. CASE run.name = "request"
    <3>1. Goto("nonce")
      BY <1>2, <2>3 DEF AfterContext
    <3>2. /\ run' \in Runs /\ run'.step = "nonce" /\ run'.name = "request"
          /\ run'.mode = run.mode /\ run'.k = run.k
      BY <1>0, <2>3, <3>1, GotoRun DEF Steps
    <3> QED
      BY <1>0, <2>1, <2>3, <3>2, Move DEF RunAt, RequestAt
  <2>4. CASE run.name = "submit"
    <3>1. Goto("recover")
      BY <1>2, <2>4 DEF AfterContext
    <3>2. /\ run' \in Runs /\ run'.step = "recover" /\ run'.name = "submit" /\ run'.q = run.q
          /\ run'.mode = run.mode /\ run'.op = run.op /\ run'.ev = run.ev
      BY <1>0, <2>4, <3>1, GotoRun DEF Steps
    <3>3. SubmitAt(run')
      BY <1>0, <2>4, <3>2 DEF RunAt, SubmitAt, Progress, Sending
    <3> QED
      BY <2>1, <3>2, <3>3, Move DEF RunAt
  <2> QED
    BY <1>0, <2>2, <2>3, <2>4, Transacting
<1> QED
  BY <1>1, <1>2 DEF LiveContext

(* Between the steps of a transaction nothing a command holds moves.       *)
LEMMA SendStep ==
  ASSUME IInv, run.step \in Sends, NEW s \in Sends, Goto(s),
         s = "send" => CurrentTx \in journal'
  PROVE  /\ run' \in Runs
         /\ UNCHANGED <<flow, l1, deposit, signed, request, torn, result, blocks>> /\ journal \subseteq journal'
              => RunInv'
<1>1. run \in Runs /\ run'.step = s /\ run' \in Runs /\ run'.name = run.name /\ run'.q = run.q /\ run'.k = run.k
      /\ run'.mode = run.mode /\ run'.op = run.op /\ run'.ev = run.ev
  BY GotoRun DEF IInv, TypeOK, Sends, Steps
<1>2. ASSUME UNCHANGED <<flow, l1, deposit, signed, request, torn, result, blocks>>, journal \subseteq journal'
      PROVE  RunInv'
  <2>1. CASE run.name = "prepare"
    BY <1>1, <2>1, CurrentTxs DEF RunInv, RunAt, PrepareAt, Sends
  <2>2. CASE run.name = "request"
    <3>1. RequestAt(run)
      BY <2>2, Transacting
    <3>2. RequestAt(run)'
      BY <1>1, <1>2, <2>2, <3>1, CurrentTxs, SameChain DEF RequestAt, Deploys, Paid, Sends
    <3> QED
      BY <1>1, <2>2, <3>2 DEF RunInv, RunAt
  <2>3. CASE run.name = "submit"
    <3>1. SubmitAt(run) /\ CurrentTx = OperationTx(run.q)
      BY <2>3, Transacting, CurrentTxs
    <3>2. Progress(run)'
      BY <1>1, <1>2, <3>1 DEF SubmitAt, Progress, OperationTx, Sends, Sending
    <3>3. SubmitAt(run)'
      BY <1>1, <1>2, <3>1, <3>2 DEF SubmitAt, Torn, Sends
    <3> QED
      BY <1>1, <2>3, <3>3 DEF RunInv, RunAt
  <2> QED
    BY <2>1, <2>2, <2>3, Transacting
<1> QED
  BY <1>1, <1>2

LEMMA TransactAction ==
  ASSUME IInv, Transact
  PROVE  IInv'
<1>0. UNCHANGED <<flow, local, ledgers, torn, network>> /\ run.step = "transact"
  BY DEF Transact
<1>1. CASE Throw
  BY <1>0, <1>1, Throws
<1>2. ASSUME NEW s \in {"observing", "reserve"}, Goto(s), UNCHANGED result
      PROVE  IInv'
  <2>1. s \in Sends /\ s # "send" /\ run.step \in Sends
    BY <1>0 DEF Sends
  <2>2. run' \in Runs /\ RunInv'
    BY <1>0, <1>2, <2>1, SendStep DEF local, ledgers, network
  <2> QED
    BY <1>0, <1>2, <2>2, MoveFiles DEF IInv
<1> QED
  BY <1>1, <1>2 DEF Transact
LEMMA ReserveAction ==
  ASSUME IInv, Reserve
  PROVE  IInv'
<1>0. /\ run.step = "reserve" /\ journal' = journal \cup {CurrentTx} /\ Goto("send")
      /\ UNCHANGED <<flow, local, deposit, result, torn, network>>
      /\ CurrentTx \in TxIds
  BY CurrentTxs DEF Reserve, Sends
<1>1. run' \in Runs /\ RunInv'
  BY <1>0, SendStep DEF Sends, local, network
<1>2. TypeOK'
  BY <1>0, <1>1 DEF IInv, TypeOK, local, network, Height
<1>3. EvidenceInv'
  <2>1. TypeOK /\ EvidenceInv /\ Height \in Nat /\ Height' = Height /\ PreparedAt(Height)' = PreparedAt(Height)
    BY <1>0, HeightType, SameChain DEF IInv, FilesInv, network
  <2>2. (prepared' => PreparedAt(Height)') /\ blocks' = blocks /\ result' = result /\ request' = request
    BY <1>0, <2>1 DEF network, local, EvidenceInv
  <2> QED
    BY <2>1, <2>2, EvidenceKeep
<1>4. DepositInv' /\ HandedOver' /\ SignedInv'
  BY <1>0 DEF IInv, FilesInv, DepositInv, HandedOver, SignedInv, OperationTx, Torn, local, network
<1>5. JournalInv'
  <2>1. sent' \subseteq journal'
    BY <1>0 DEF IInv, FilesInv, JournalInv, network
  <2>2. ASSUME NEW q \in Requests, OperationTx(q) \in journal' PROVE q \in signed'
    <3>1. CASE OperationTx(q) \in journal
      BY <3>1, <1>0 DEF IInv, FilesInv, JournalInv, local
    <3>2. CASE OperationTx(q) = CurrentTx
      <4>1. run.step \in Sends
        BY <1>0 DEF Sends
      <4>2. CurrentTx # Tx("prepare", 0) /\ \A n \in Nonces : CurrentTx # Tx("prefund", n)
        BY <3>2, TxApart
      <4>3. run.name = "submit" /\ CurrentTx = OperationTx(run.q) /\ run.q \in signed /\ run.q \in Requests
        BY <4>1, <4>2, CurrentTxs, Transacting
      <4> QED
        BY <1>0, <3>2, <4>3, TxApart DEF local
    <3> QED
      BY <1>0, <2>2, <3>1, <3>2
  <2> QED
    BY <2>1, <2>2 DEF JournalInv, OperationTx
<1>6. ChainInv' /\ RequestInv'
  BY <1>0, ChainKeep, RequestKeep DEF IInv, FilesInv, local, network
<1> QED
  BY <1>1, <1>2, <1>3, <1>4, <1>5, <1>6 DEF IInv, FilesInv

(* When a transaction is sent, its evidence already says that it was.      *)
LEMMA ThrowSending ==
  ASSUME IInv, run.name = "submit", run.step \in {"submit"} \cup Sending
  PROVE  /\ run.ev.status = "broadcast-result-unknown" /\ result[run.q] = run.ev /\ run.ev # None
         /\ Throw => result' = result
<1>1. SubmitAt(run) /\ run.q \in Requests /\ run.ev \in EvidenceFiles
  BY Held DEF IInv, RunInv, RunAt
<1>2. run.ev.status = "broadcast-result-unknown" /\ result[run.q] = run.ev /\ run.ev # None
  BY <1>1, NoneAssumption DEF SubmitAt, Progress, Sending
<1>3. Throw => result' = result
  BY <1>1, <1>2 DEF Throw, Failed, IInv, TypeOK
<1> QED
  BY <1>2, <1>3

LEMMA BroadcastAction ==
  ASSUME IInv, Broadcast
  PROVE  IInv'
<1>0. /\ run.step = "send" /\ run.step \in Sends
      /\ UNCHANGED <<flow, local, ledgers, torn, l1, credited, offered, blocks, pre>>
      /\ sent' = sent \/ sent' = sent \cup {CurrentTx}
      /\ CurrentTx \in TxIds /\ CurrentTx \in journal
  BY CurrentTxs DEF Broadcast, Sends
<1>1. result' = result
  <2>1. CASE run.name = "submit"
    BY <1>0, <2>1, ThrowSending DEF Broadcast, Sending
  <2>2. CASE run.name # "submit"
    BY <2>2 DEF Broadcast, Throw
  <2> QED
    BY <2>1, <2>2
<1>2. run' \in Runs /\ RunInv'
  <2>1. CASE Leave
    BY <2>1, LeaveRun
  <2>2. CASE Goto("observing")
    <3>1. "observing" \in Sends /\ "observing" # "send"
      BY DEF Sends
    <3> QED
      BY <1>0, <1>1, <2>2, <3>1, SendStep DEF local, ledgers
  <2> QED
    BY <2>1, <2>2 DEF Broadcast, Throw
<1>3. TypeOK'
  BY <1>0, <1>1, <1>2 DEF IInv, TypeOK, local, ledgers, Height
<1>4. EvidenceInv'
  <2>1. TypeOK /\ EvidenceInv /\ Height \in Nat /\ Height' = Height /\ PreparedAt(Height)' = PreparedAt(Height)
    BY <1>0, HeightType, SameChain DEF IInv, FilesInv
  <2>2. (prepared' => PreparedAt(Height)') /\ blocks' = blocks /\ result' = result /\ request' = request
    BY <1>0, <1>1, <2>1 DEF local, EvidenceInv
  <2> QED
    BY <2>1, <2>2, EvidenceKeep
<1>5. DepositInv' /\ JournalInv' /\ SignedInv'
  BY <1>0 DEF IInv, FilesInv, DepositInv, JournalInv, SignedInv, OperationTx, Torn, local, ledgers
<1>6. HandedOver'
  <2> SUFFICES ASSUME NEW q \in Ours, q \in offered \/ OperationTx(q) \in sent', ~Torn("result", q)
               PROVE  result[q] # None /\ Kept(result[q].status)
    BY <1>0, <1>1 DEF HandedOver, Kept, Torn, OperationTx
  <2>1. CASE q \in offered \/ OperationTx(q) \in sent
    BY <2>1 DEF IInv, FilesInv, HandedOver, Kept
  <2>2. CASE OperationTx(q) = CurrentTx
    <3>1. q \in Requests
      BY BoundsAssumption
    <3>2. CurrentTx # Tx("prepare", 0) /\ \A n \in Nonces : CurrentTx # Tx("prefund", n)
      BY <2>2, <3>1, TxApart
    <3>3. run.name = "submit" /\ CurrentTx = OperationTx(run.q) /\ run.q \in Requests
      BY <1>0, <3>2, CurrentTxs, Transacting
    <3>4. q = run.q
      BY <2>2, <3>1, <3>3, TxApart
    <3> QED
      BY <1>0, <3>3, <3>4, ThrowSending DEF Kept, Sending
  <2> QED
    BY <1>0, <2>1, <2>2
<1>7. ChainInv'
  <2>1. \A i \in 1..Height : BlockInv(blocks[i])'
    BY <1>0, SameChain DEF IInv, FilesInv, ChainInv, BlockInv, OperationTx
  <2>2. Height' = Height /\ DepositAt(Height)' >= 0
    BY <1>0, SameChain DEF IInv, FilesInv, ChainInv
  <2>3. ASSUME NEW n \in Nonces, Tx("prefund", n) \in sent' PROVE n <= NonceAt(Height)'
    <3>1. CASE Tx("prefund", n) \in sent
      BY <3>1, <1>0, SameChain DEF IInv, FilesInv, ChainInv
    <3>2. CASE Tx("prefund", n) = CurrentTx
      <4>1. run.name = "request"
        BY <1>0, <3>2, CurrentTxs, Transacting, TxApart
      <4>2. n = run.op.nonce
        BY <1>0, <3>2, <4>1, CurrentTxs, TxApart
      <4> QED
        BY <1>0, <4>1, <4>2, CurrentTxs, SameChain
    <3> QED
      BY <1>0, <2>3, <3>1, <3>2
  <2> QED
    BY <1>0, <2>1, <2>2, <2>3 DEF ChainInv, BlockInv
<1>8. RequestInv'
  BY <1>0, RequestKeep DEF IInv, FilesInv, local
<1> QED
  BY <1>2, <1>3, <1>4, <1>5, <1>6, <1>7, <1>8 DEF IInv, FilesInv

(* A mined prefund pays for the request it was sent for.                   *)
LEMMA ObserveTransactionAction ==
  ASSUME IInv, ObserveTransaction
  PROVE  IInv'
<1>0. UNCHANGED <<flow, local, ledgers, torn, network>> /\ run.step = "observing"
      /\ run \in Runs /\ RunAt(run) /\ TypeOK /\ run.step \in Sends
  BY DEF ObserveTransaction, IInv, TypeOK, RunInv, Sends
<1>1. CASE Throw
  BY <1>0, <1>1, Throws
<1>2. ASSUME NEW i \in 1..Height, blocks[i].id = CurrentTx, Goto(AfterTransact), UNCHANGED result
      PROVE  IInv'
  <2>1. UNCHANGED <<flow, files, network>>
    BY <1>0, <1>2 DEF files
  <2>2. CASE run.name = "prepare"
    <3>1. Goto("verify")
      BY <1>2, <2>2 DEF AfterTransact
    <3>2. run' \in Runs /\ run'.step = "verify" /\ run'.name = "prepare"
      BY <1>0, <2>2, <3>1, GotoRun DEF Steps
    <3> QED
      BY <2>1, <3>2, Move DEF RunAt, PrepareAt
  <2>3. CASE run.name = "request"
    <3>1. Goto("write")
      BY <1>2, <2>3 DEF AfterTransact
    <3>2. /\ run' \in Runs /\ run'.step = "write" /\ run'.name = "request"
          /\ run'.mode = run.mode /\ run'.k = run.k /\ run'.op = run.op
      BY <1>0, <2>3, <3>1, GotoRun DEF Steps
    <3>3. run.op.nonce \in Nonces /\ run.op.nonce <= NonceAt(Height) /\ CurrentTx = Tx("prefund", run.op.nonce)
      BY <1>0, <2>3, CurrentTxs
    <3>4. run.op.nonce = NonceAt(Height) => DepositAt(Height) >= Prefund
      BY <1>2, <3>3 DEF IInv, FilesInv, ChainInv, BlockInv
    <3>5. Paid(run.op)
      BY <1>0, <3>3, <3>4, StateType DEF Paid, Nonces, Prefund, Cap
    <3>6. RequestAt(run')
      BY <1>0, <2>3, <3>2, <3>5 DEF RunAt, RequestAt, Sends
    <3> QED
      BY <2>1, <3>2, <3>6, Move DEF RunAt
  <2>4. CASE run.name = "submit"
    <3>1. Goto("submitted")
      BY <1>2, <2>4 DEF AfterTransact
    <3>2. /\ run' \in Runs /\ run'.step = "submitted" /\ run'.name = "submit" /\ run'.q = run.q
          /\ run'.mode = run.mode /\ run'.op = run.op /\ run'.ev = run.ev
      BY <1>0, <2>4, <3>1, GotoRun DEF Steps
    <3>3. SubmitAt(run')
      BY <1>0, <2>4, <3>2 DEF RunAt, SubmitAt, Progress, Sending
    <3> QED
      BY <2>1, <3>2, <3>3, Move DEF RunAt
  <2> QED
    BY <1>0, <2>2, <2>3, <2>4, Transacting
<1> QED
  BY <1>1, <1>2 DEF ObserveTransaction
-----------------------------------------------------------------------------
(* The preparation of a request: what it reads, and when.                  *)
LEMMA StartPrepareActions ==
  ASSUME IInv, StartPrepareStake \/ StartPrepareProfiles
  PROVE  IInv'
<1>1. run' \in Runs /\ run'.name = "prepare" /\ run'.step = "context"
  BY IdleRun DEF StartPrepareStake, StartPrepareProfiles, Runs, Commands, Steps
<1>2. RunAt(run')
  BY <1>1 DEF RunAt, PrepareAt
<1> QED
  BY <1>1, <1>2, Move DEF StartPrepareStake, StartPrepareProfiles

LEMMA StartRequestActions ==
  ASSUME IInv, NEW mode \in Modes,
         StartLiveRequest(mode) \/ \E offset \in 0..1 : StartProfileRequest(mode, offset)
  PROVE  IInv'
<1>1. ASSUME NEW k \in 0..1, NEW s \in {"context", "nonce"}, StartRequest(mode, k, s), flow = "stake" => k = 0
      PROVE  IInv'
  <2>1. /\ run' \in Runs /\ run'.name = "request" /\ run'.step = s
        /\ run'.mode = mode /\ run'.k = k
    BY <1>1, IdleRun DEF StartRequest, Runs, Commands, Steps
  <2>2. RunAt(run')
    BY <1>1, <2>1 DEF RunAt, RequestAt
  <2> QED
    BY <1>1, <2>1, <2>2, Move DEF StartRequest
<1>2. ASSUME StartLiveRequest(mode) PROVE IInv'
  <2>1. 0 \in 0..1
    OBVIOUS
  <2> QED
    BY <1>1, <1>2, <2>1 DEF StartLiveRequest
<1>3. ASSUME NEW offset \in 0..1, StartProfileRequest(mode, offset) PROVE IInv'
  BY <1>1, <1>3 DEF StartProfileRequest
<1> QED
  BY <1>2, <1>3

LEMMA ReadNonceAction ==
  ASSUME IInv, ReadNonce
  PROVE  IInv'
<1>0. /\ TypeOK /\ run \in Runs /\ run.name = "request" /\ RequestAt(run) /\ run.step = "nonce"
  BY DEF ReadNonce, At, IInv, RunInv, RunAt, TypeOK
<1>1. PICK n : n = NonceAt(Height)
  OBVIOUS
<1>2. n + run.k \in Nonces
  <2>1. n \in Nat /\ n <= MaxBlocks /\ run.k \in 0..1
    BY <1>0, <1>1, StateType, BoundsAssumption DEF Runs, TypeOK
  <2> QED
    BY <2>1, BoundsAssumption DEF Nonces
<1>3. PICK op : op = [nonce |-> n + run.k, deploy |-> FALSE]
  OBVIOUS
<1>4. op \in Operations /\ op.nonce = n + run.k
  BY <1>2, <1>3 DEF Operations
<1>5. run' = [run EXCEPT !.step = "code", !.op = op]
  BY <1>1, <1>3 DEF ReadNonce
<1>6. /\ run' \in Runs /\ run'.name = "request" /\ run'.step = "code" /\ run'.op = op
      /\ run'.mode = run.mode /\ run'.k = run.k
  BY <1>0, <1>4, <1>5 DEF Runs, Steps
<1>7. run'.op \in Operations /\ run'.op.nonce <= NonceAt(Height) + run'.k
  <2>1. n + run.k \in Int
    BY <1>2 DEF Nonces
  <2> QED
    BY <1>1, <1>4, <1>6, <2>1
<1>8. RunAt(run')
  BY <1>0, <1>6, <1>7 DEF RunAt, RequestAt
<1> QED
  BY <1>6, <1>8, Move DEF ReadNonce

(* Init code is prepared for the nonce zero of an account without code.    *)
LEMMA ReadCodeAction ==
  ASSUME IInv, ReadCode("deposit"), flow = "stake" \/ DeployedAt(Height) \/ run.k = 0
  PROVE  IInv'
<1>0. /\ TypeOK /\ run \in Runs /\ run.name = "request" /\ RequestAt(run) /\ run.step = "code"
      /\ UNCHANGED <<flow, files, network>>
  BY DEF ReadCode, At, IInv, RunInv, RunAt, TypeOK
<1>1. CASE AlreadyPrepared
  BY <1>0, <1>1, Leaves DEF ReadCode, files
<1>2. CASE ~AlreadyPrepared
  <2>1. PICK d \in BOOLEAN : d = ~DeployedAt(Height)
    BY DEF DeployedAt
  <2>2. run' = [run EXCEPT !.step = "deposit", !.op.deploy = d]
    BY <1>2, <2>1 DEF ReadCode
  <2>3. run.op \in Operations /\ run.op.nonce <= NonceAt(Height) + run.k
    BY <1>0 DEF RequestAt
  <2>4. PICK op : op = [run.op EXCEPT !.deploy = d]
    OBVIOUS
  <2>5. op \in Operations /\ op.nonce = run.op.nonce /\ op.deploy = d
    BY <2>3, <2>4 DEF Operations
  <2>6. /\ run' \in Runs /\ run'.name = "request" /\ run'.step = "deposit" /\ run'.op = op
        /\ run'.mode = run.mode /\ run'.k = run.k
    BY <1>0, <2>2, <2>4, <2>5 DEF Runs, Steps
  <2>7. Deploys(op)
    <3>1. CASE DeployedAt(Height)
      BY <2>1, <2>5, <3>1 DEF Deploys
    <3>2. CASE ~DeployedAt(Height)
      <4>1. NonceAt(Height) = 0 /\ run.k = 0
        BY <1>0, <3>2, StateType DEF RequestAt
      <4>2. op.nonce = 0
        BY <2>3, <2>5, <4>1 DEF Operations, Nonces
      <4> QED
        BY <2>1, <2>5, <3>2, <4>2 DEF Deploys
    <3> QED
      BY <3>1, <3>2
  <2>8. RunAt(run')
    BY <1>0, <2>3, <2>5, <2>6, <2>7 DEF RunAt, RequestAt
  <2> QED
    BY <1>0, <2>6, <2>8, Move
<1> QED
  BY <1>1, <1>2

(* The deposit that was read covers the nonces up to the prepared one.     *)
LEMMA DepositActions ==
  ASSUME IInv, PrefundDeposit \/ RequireDeposit
  PROVE  IInv'
<1>0. /\ TypeOK /\ run \in Runs /\ run.name = "request" /\ RequestAt(run) /\ run.step = "deposit"
      /\ UNCHANGED <<flow, files, network>>
  BY DEF PrefundDeposit, RequireDeposit, At, IInv, RunInv, RunAt, TypeOK
<1>1. /\ run.op \in Operations /\ run.op.nonce \in Nat /\ run.op.nonce <= NonceAt(Height) + run.k
      /\ NonceAt(Height) \in Nat /\ DepositAt(Height) \in Int /\ run.k \in 0..1
  BY <1>0, StateType DEF RequestAt, Operations, Nonces, Runs
<1>2. ASSUME NEW s \in {"transact", "write"}, Goto(s), s = "transact" => flow = "stake", s = "write" => Paid(run.op)
      PROVE  IInv'
  <2>1. /\ run' \in Runs /\ run'.step = s /\ run'.name = "request"
        /\ run'.mode = run.mode /\ run'.k = run.k /\ run'.op = run.op
    BY <1>0, <1>2, GotoRun DEF Steps
  <2>2. RunAt(run')
    BY <1>0, <1>2, <2>1 DEF RunAt, RequestAt
  <2> QED
    BY <1>0, <2>1, <2>2, Move
<1>3. ASSUME PrefundDeposit PROVE IInv'
  <2>1. CASE DepositAt(Height) < Floor
    BY <1>2, <1>3, <2>1 DEF PrefundDeposit
  <2>2. CASE ~(DepositAt(Height) < Floor)
    <3>1. Goto("write") /\ run.k = 0
      BY <1>0, <1>3, <2>2 DEF PrefundDeposit, RequestAt
    <3>2. Paid(run.op)
      BY <1>1, <2>2, <3>1 DEF Paid, Floor, Cap
    <3> QED
      BY <1>2, <3>1, <3>2
  <2> QED
    BY <2>1, <2>2
<1>4. ASSUME RequireDeposit PROVE IInv'
  <2>1. CASE DepositAt(Height) >= Required(run.k)
    <3>1. Paid(run.op)
      BY <1>1, <2>1 DEF Paid, Required, Cap
    <3>2. Goto("write")
      BY <1>4, <2>1 DEF RequireDeposit
    <3> QED
      BY <1>2, <3>1, <3>2
  <2>2. CASE ~(DepositAt(Height) >= Required(run.k))
    BY <1>0, <1>4, <2>2, Leaves DEF RequireDeposit, files
  <2> QED
    BY <2>1, <2>2
<1> QED
  BY <1>3, <1>4

LEMMA RefuseActions ==
  ASSUME IInv, RefuseFutureDeployment \/ RefuseRequest
  PROVE  IInv'
BY Leaves DEF RefuseFutureDeployment, RefuseRequest, files
-----------------------------------------------------------------------------
(* The submission of a request, and its evidence.                          *)
LEMMA StartSubmitAction ==
  ASSUME IInv, NEW q \in Requests, StartSubmit(q)
  PROVE  IInv'
<1>0. TypeOK /\ SignedInv /\ q \in signed /\ q \in Ours /\ ~Torn("result", q)
  BY DEF StartSubmit, IInv, FilesInv, Torn
<1>1. request[q] \in RequestFiles
  BY <1>0 DEF TypeOK, SignedInv
<1>2. PICK ev : ev = IF result[q] = None THEN Fresh ELSE result[q]
  OBVIOUS
<1>3. ev \in EvidenceFiles
  <2>1. Fresh \in EvidenceFiles
    BY BoundsAssumption DEF Fresh, EvidenceFiles, Statuses
  <2> QED
    BY <1>0, <1>2, <2>1 DEF TypeOK
<1>4. result[q] = ev \/ (result[q] = None /\ ev = Fresh)
  BY <1>2
<1>5. run' = [Idle EXCEPT !.name = "submit", !.step = "context", !.q = q,
                          !.mode = request[q].mode, !.op = request[q].op, !.ev = ev]
  BY <1>2 DEF StartSubmit
<1>6. /\ run' \in Runs /\ run'.name = "submit" /\ run'.step = "context" /\ run'.q = q
      /\ run'.mode = request[q].mode /\ run'.op = request[q].op /\ run'.ev = ev
  BY <1>1, <1>3, <1>5, IdleRun DEF Runs, Commands, Steps, RequestFiles
<1>7. SubmitAt(run')
  BY <1>0, <1>3, <1>4, <1>6 DEF SubmitAt, Progress, Sending
<1> QED
  BY <1>6, <1>7, Move DEF StartSubmit, RunAt

LEMMA SaveStep ==
  ASSUME IInv, UNCHANGED <<flow, local, ledgers, torn, network>>, run.name = "submit",
         NEW ev \in EvidenceFiles, NEW s \in {"before", "simulate", "submit", "observe", "effects"}, SaveGoto(ev, s),
         Supported(run.q, ev), Kept(run.ev.status) => Kept(ev.status),
         s \in {"before", "simulate", "submit"} => ~ev.submitted,
         s = "submit" => ev.status = "broadcast-result-unknown",
         s \in {"observe", "effects"} => ev.submitted,
         s = "effects" => ev.status = "included"
  PROVE  IInv'
<1>1. Saves(ev) /\ s \in Steps
  BY DEF Saves, SaveGoto, Save, Steps
<1>2. run'.step = s /\ run'.ev = ev
  BY DEF IInv, TypeOK, SaveGoto, Runs
<1>3. Progress(run')
  BY <1>2 DEF Progress, Sending
<1> QED
  BY <1>1, <1>3, SaveMoves

LEMMA SaveEnd ==
  ASSUME IInv, UNCHANGED <<flow, local, ledgers, torn, network>>, run.name = "submit",
         NEW ev \in EvidenceFiles, SaveLeave(ev),
         Supported(run.q, ev), Kept(run.ev.status) => Kept(ev.status)
  PROVE  IInv'
<1>1. Saves(ev) /\ Leave
  BY DEF Saves, SaveLeave, Save
<1> QED
  BY <1>1, Leaves

LEMMA RecoverAction ==
  ASSUME IInv, Recover
  PROVE  IInv'
<1>0. /\ UNCHANGED <<flow, local, ledgers, torn, network>> /\ run.name = "submit"
      /\ run.ev \in EvidenceFiles /\ Supported(run.q, run.ev)
  BY Held DEF Recover, At
<1>1. PICK found : found = [run.ev EXCEPT !.submitted = TRUE]
  OBVIOUS
<1>2. /\ found \in EvidenceFiles /\ found.submitted /\ found.status = run.ev.status
      /\ found.before = run.ev.before /\ found.included = run.ev.included
  BY <1>0, <1>1 DEF EvidenceFiles
<1>3. Supported(run.q, found)
  BY <1>0, <1>2 DEF Supported, Attributed
<1>4. CASE Throw
  BY <1>0, <1>4, Throws
<1>5. CASE run.ev.submitted /\ SaveGoto(run.ev, "observe")
  BY <1>0, <1>5, SaveStep
<1>6. CASE SaveGoto(found, "observe")
  BY <1>0, <1>2, <1>3, <1>6, SaveStep
<1>7. CASE ~run.ev.submitted /\ SaveGoto(run.ev, "before")
  BY <1>0, <1>7, SaveStep
<1> QED
  BY <1>1, <1>4, <1>5, <1>6, <1>7 DEF Recover

LEMMA BeforeActions ==
  ASSUME IInv, ReadBefore \/ Simulate
  PROVE  IInv'
<1>0. /\ UNCHANGED <<flow, local, ledgers, torn, network>> /\ run.name = "submit"
      /\ run.ev \in EvidenceFiles /\ Supported(run.q, run.ev) /\ SubmitAt(run)
      /\ run.step \in {"before", "simulate"} /\ ~run.ev.submitted
  <2>1. run.name = "submit" /\ run.step \in {"before", "simulate"}
        /\ UNCHANGED <<flow, local, ledgers, torn, network>>
    BY DEF ReadBefore, Simulate, At
  <2> QED
    BY <2>1, Held DEF IInv, RunInv, RunAt, SubmitAt, Progress
<1>1. run.ev.status \in {"prepared", "simulation-failed", "broadcast-result-unknown"}
  BY <1>0 DEF Supported
<1>2. CASE Throw
  BY <1>0, <1>2, Throws
<1>3. ASSUME NEW h \in {Height, Height - 1} \cap Nat, SaveGoto([run.ev EXCEPT !.before = h], "simulate")
      PROVE  IInv'
  <2>1. h \in 0..MaxBlocks /\ h \in Nat /\ h <= Height
    BY <1>3, StateType, BoundsAssumption DEF IInv, TypeOK
  <2>2. PICK ev : ev = [run.ev EXCEPT !.before = h]
    OBVIOUS
  <2>3. /\ ev \in EvidenceFiles /\ ev.submitted = run.ev.submitted /\ ev.status = run.ev.status
        /\ ev.before = h
    BY <1>0, <2>1, <2>2 DEF EvidenceFiles
  <2>4. Supported(run.q, ev)
    BY <1>0, <1>1, <2>1, <2>3 DEF Supported, Seen
  <2>5. SaveGoto(ev, "simulate")
    BY <1>3, <2>2
  <2> QED
    BY <1>0, <2>3, <2>4, <2>5, SaveStep
<1>4. CASE SaveGoto([run.ev EXCEPT !.status = "broadcast-result-unknown"], "submit")
  <2>1. PICK ev : ev = [run.ev EXCEPT !.status = "broadcast-result-unknown"]
    OBVIOUS
  <2>2. /\ ev \in EvidenceFiles /\ ev.submitted = run.ev.submitted /\ ev.status = "broadcast-result-unknown"
        /\ ev.before = run.ev.before
    BY <1>0, <2>1 DEF EvidenceFiles, Statuses
  <2>3. Supported(run.q, ev)
    BY <1>0, <2>2 DEF Supported, Seen
  <2>4. SaveGoto(ev, "submit")
    BY <1>4, <2>1
  <2> QED
    BY <1>0, <2>2, <2>3, <2>4, SaveStep DEF Kept
<1>5. CASE SaveLeave(run.ev)
  BY <1>0, <1>5, SaveEnd
<1> QED
  BY <1>2, <1>3, <1>4, <1>5 DEF ReadBefore, Simulate

LEMMA SubmittedKeeps ==
  ASSUME NEW q, NEW ev \in EvidenceFiles, Supported(q, ev)
  PROVE  /\ Submitted(ev) \in EvidenceFiles /\ Supported(q, Submitted(ev))
         /\ Submitted(ev).submitted /\ Kept(Submitted(ev).status)
<1>1. /\ Submitted(ev) \in EvidenceFiles /\ Submitted(ev).status = "submitted"
      /\ Submitted(ev).submitted /\ Submitted(ev).before = ev.before
  BY DEF Submitted, EvidenceFiles, Statuses
<1> QED
  BY <1>1 DEF Supported, Seen, Kept

LEMMA DirectActions ==
  ASSUME IInv, SubmitDirect \/ DirectSubmitted
  PROVE  IInv'
<1>0. /\ UNCHANGED <<flow, local, ledgers, torn, network>> /\ run.name = "submit" /\ run \in Runs
      /\ run.ev \in EvidenceFiles /\ Supported(run.q, run.ev) /\ SubmitAt(run)
  <2>1. run.name = "submit" /\ UNCHANGED <<flow, local, ledgers, torn, network>>
    BY DEF SubmitDirect, DirectSubmitted, At
  <2> QED
    BY <2>1, Held DEF IInv, TypeOK, RunInv, RunAt
<1>1. CASE Throw
  BY <1>0, <1>1, Throws
<1>2. CASE At("submit", "submit") /\ run.mode = "direct" /\ Goto("transact") /\ UNCHANGED result
  <2>1. /\ run' \in Runs /\ run'.step = "transact" /\ run'.name = "submit" /\ run'.q = run.q
        /\ run'.mode = "direct" /\ run'.mode = run.mode /\ run'.op = run.op /\ run'.ev = run.ev
    BY <1>0, <1>2, GotoRun DEF Steps
  <2>2. SubmitAt(run')
    BY <1>0, <1>2, <2>1 DEF SubmitAt, Progress, Sending, At
  <2>3. UNCHANGED <<flow, files, network>>
    BY <1>0, <1>2 DEF files
  <2> QED
    BY <2>1, <2>2, <2>3, Move DEF RunAt
<1>3. CASE SaveGoto(Submitted(run.ev), "observe")
  BY <1>0, <1>3, SubmittedKeeps, SaveStep
<1> QED
  BY <1>1, <1>2, <1>3 DEF SubmitDirect, DirectSubmitted
(* The bundler takes the operation, whether or not its answer arrives.     *)
LEMMA SubmitToBundlerAction ==
  ASSUME IInv, SubmitToBundler
  PROVE  IInv'
<1>0. /\ UNCHANGED <<flow, local, ledgers, torn, l1, credited, sent, blocks, pre>>
      /\ run.name = "submit" /\ run.step = "submit" /\ run \in Runs /\ run.ev \in EvidenceFiles
      /\ Supported(run.q, run.ev) /\ SubmitAt(run) /\ run.q \in Requests /\ run.q \in signed
  <2>1. run.name = "submit" /\ run.step = "submit"
    BY DEF SubmitToBundler, At
  <2> QED
    BY <2>1, Held DEF SubmitToBundler, IInv, TypeOK, RunInv, RunAt
<1>1. /\ run.ev.status = "broadcast-result-unknown" /\ result[run.q] = run.ev /\ run.ev # None
      /\ Throw => result' = result
  BY <1>0, ThrowSending
<1>2. PICK ev \in EvidenceFiles :
        /\ Saves(ev) /\ Kept(ev.status)
        /\ \/ Leave
           \/ ev.submitted /\ run' = [run EXCEPT !.ev = ev, !.step = "observe"]
  <2>1. CASE Throw
    <3>1. result' = [result EXCEPT ![run.q] = run.ev]
      BY <1>0, <1>1, <2>1 DEF IInv, TypeOK
    <3>2. Saves(run.ev) /\ Kept(run.ev.status) /\ Leave
      BY <1>0, <1>1, <2>1, <3>1 DEF Saves, Kept, Throw
    <3> QED
      BY <1>0, <3>2
  <2>2. CASE SaveGoto(Submitted(run.ev), "observe")
    <3>1. PICK ev : ev = Submitted(run.ev)
      OBVIOUS
    <3>2. ev \in EvidenceFiles /\ Supported(run.q, ev) /\ ev.submitted /\ Kept(ev.status)
      BY <1>0, <3>1, SubmittedKeeps
    <3>3. Saves(ev) /\ run' = [run EXCEPT !.ev = ev, !.step = "observe"]
      BY <1>0, <2>2, <3>1, <3>2 DEF Saves, SaveGoto, Save
    <3> QED
      BY <3>2, <3>3
  <2> QED
    BY <2>1, <2>2 DEF SubmitToBundler
<1>3. offered' = offered \/ offered' = offered \cup {run.q}
  BY DEF SubmitToBundler
<1>4. EvidenceInv' /\ HandedOver' /\ result' \in [Requests -> EvidenceFiles \cup {None}]
  BY <1>0, <1>2, <1>3, MoveEvidence
<1>5. run' \in Runs /\ RunInv'
  <2>1. CASE Leave
    BY <2>1, LeaveRun
  <2>2. CASE ev.submitted /\ run' = [run EXCEPT !.ev = ev, !.step = "observe"]
    <3>1. /\ run' \in Runs /\ run'.name = "submit" /\ run'.step = "observe" /\ run'.ev = ev
          /\ run'.q = run.q /\ run'.mode = run.mode /\ run'.op = run.op
      BY <1>0, <1>2, <2>2 DEF Runs, Steps
    <3>2. Progress(run)'
      BY <2>2, <3>1 DEF Progress, Sending
    <3>3. result'[run.q] = ev
      BY <1>0, <1>2 DEF Saves, IInv, TypeOK
    <3>4. SubmitAt(run)'
      BY <1>0, <1>2, <3>1, <3>2, <3>3 DEF SubmitAt, Torn, local
    <3> QED
      BY <3>1, <3>4 DEF RunInv, RunAt
  <2> QED
    BY <1>2, <2>1, <2>2
<1>6. offered' \subseteq signed' /\ SignedInv'
  BY <1>0, <1>3 DEF IInv, FilesInv, SignedInv, local
<1>7. TypeOK'
  BY <1>0, <1>3, <1>4, <1>5 DEF IInv, TypeOK, local, ledgers, Height
<1>8. DepositInv' /\ JournalInv'
  BY <1>0 DEF IInv, FilesInv, DepositInv, JournalInv, OperationTx, Torn, local, ledgers
<1>9. ChainInv' /\ RequestInv'
  BY <1>0, ChainKeep, RequestKeep DEF IInv, FilesInv, local
<1> QED
  BY <1>4, <1>5, <1>6, <1>7, <1>8, <1>9 DEF IInv, FilesInv

LEMMA ObserveOperationAction ==
  ASSUME IInv, ObserveOperation
  PROVE  IInv'
<1>0. /\ UNCHANGED <<flow, local, ledgers, torn, network>> /\ run.name = "submit" /\ run.step = "observe"
      /\ run \in Runs /\ run.ev \in EvidenceFiles /\ Supported(run.q, run.ev) /\ SubmitAt(run) /\ run.ev.submitted
  <2>1. run.name = "submit" /\ run.step = "observe" /\ UNCHANGED <<flow, local, ledgers, torn, network>>
    BY DEF ObserveOperation, At
  <2> QED
    BY <2>1, Held DEF IInv, TypeOK, RunInv, RunAt, SubmitAt, Progress
<1>1. CASE Throw
  BY <1>0, <1>1, Throws
<1>2. CASE SaveLeave([run.ev EXCEPT !.status = "pending"])
  <2>1. PICK ev : ev = [run.ev EXCEPT !.status = "pending"]
    OBVIOUS
  <2>2. /\ ev \in EvidenceFiles /\ ev.status = "pending" /\ ev.submitted
        /\ ev.before = run.ev.before
    BY <1>0, <2>1 DEF EvidenceFiles, Statuses
  <2>3. Supported(run.q, ev) /\ Kept(ev.status)
    BY <1>0, <2>2 DEF Supported, Seen, Kept
  <2> QED
    BY <1>0, <1>2, <2>1, <2>2, <2>3, SaveEnd
<1>3. ASSUME NEW e \in Visible, run' = [run EXCEPT !.step = "canonical", !.via = e.id], UNCHANGED result
      PROVE  IInv'
  <2>1. e.id \in TxIds \cup {None}
    <3>1. CASE \E i \in 1..Height : e = blocks[i]
      BY <3>1, HeightType DEF IInv, MinedBlocks
    <3>2. CASE e = pre /\ pre # None
      BY <3>2 DEF IInv, TypeOK, Events
    <3> QED
      BY <1>3, <3>1, <3>2 DEF Visible
  <2>2. /\ run' \in Runs /\ run'.name = "submit" /\ run'.step = "canonical" /\ run'.ev = run.ev
        /\ run'.q = run.q /\ run'.mode = run.mode /\ run'.op = run.op
    BY <1>0, <1>3, <2>1 DEF Runs, Steps
  <2>3. SubmitAt(run')
    BY <1>0, <2>2 DEF SubmitAt, Progress, Sending
  <2>4. UNCHANGED <<flow, files, network>>
    BY <1>0, <1>3 DEF files
  <2> QED
    BY <2>2, <2>3, <2>4, Move DEF RunAt
<1> QED
  BY <1>1, <1>2, <1>3 DEF ObserveOperation

LEMMA CanonicalReceiptAction ==
  ASSUME IInv, CanonicalReceipt
  PROVE  IInv'
<1>0. /\ UNCHANGED <<flow, local, ledgers, torn, network>> /\ run.name = "submit"
      /\ run.ev \in EvidenceFiles /\ Supported(run.q, run.ev) /\ run.ev.submitted
  <2>1. run.name = "submit" /\ run.step = "canonical" /\ UNCHANGED <<flow, local, ledgers, torn, network>>
    BY DEF CanonicalReceipt, At
  <2> QED
    BY <2>1, Held DEF IInv, RunInv, RunAt, SubmitAt, Progress
<1>1. CASE Throw
  BY <1>0, <1>1, Throws
<1>2. ASSUME NEW i \in 1..Height, Shows(blocks[i], run.q), NEW ev,
             ev = [run.ev EXCEPT !.status = StatusOf(blocks[i]), !.included = i],
             IF ev.status = "included" THEN SaveGoto(ev, "effects") ELSE SaveLeave(ev)
      PROVE  IInv'
  <2>1. StatusOf(blocks[i]) \in Seen /\ i \in 0..MaxBlocks
    BY <1>2, HeightType, BoundsAssumption DEF StatusOf, Seen, IInv, TypeOK
  <2>2. /\ ev \in EvidenceFiles /\ ev.status = StatusOf(blocks[i]) /\ ev.submitted /\ ev.included = i
        /\ ev.before = run.ev.before
    BY <1>0, <1>2, <2>1 DEF EvidenceFiles, Statuses, Seen
  <2>3. Supported(run.q, ev) /\ Kept(ev.status)
    BY <1>0, <1>2, <2>1, <2>2 DEF Supported, Seen, Kept
  <2>4. CASE ev.status = "included"
    BY <1>0, <1>2, <2>2, <2>3, <2>4, SaveStep
  <2>5. CASE ev.status # "included"
    BY <1>0, <1>2, <2>2, <2>3, <2>5, SaveEnd
  <2> QED
    BY <2>4, <2>5
<1> QED
  BY <1>1, <1>2 DEF CanonicalReceipt
-----------------------------------------------------------------------------
(* Effects that match: one increment, the receipt's, and the deposit that  *)
(* the operation was charged from is the one read before.                  *)
LEMMA EffectsAttributed ==
  ASSUME TypeOK, ChainInv, NEW ev \in EvidenceFiles, NEW op, EffectsMatch(ev, op),
         ev.included \in 1..Height, ev.before # None => ev.before <= Height,
         blocks[ev.included].kind = "op", blocks[ev.included].ok
  PROVE  ev.before # None /\ Attributed(ev)
<1>1. PICK b, i : b = ev.before /\ i = ev.included
  OBVIOUS
<1>2. /\ b \in 0..Height /\ i \in 0..Height /\ i - 1 \in 0..Height /\ b \in Nat /\ i \in Nat \ {0} /\ Height \in Nat
      /\ ev.before # None /\ i \in 1..Height
  BY <1>1, HeightType, BoundsAssumption DEF EffectsMatch, EvidenceFiles
<1>3. blocks \in Seq(MinedBlocks) /\ \A j \in 1..Height : blocks[j] \in MinedBlocks
  BY HeightType DEF TypeOK
<1>4. DepositAt(b) - DepositAt(i) = DepositAt(i - 1) - DepositAt(i) /\ CounterAt(i) - CounterAt(b) = 1
  BY <1>1 DEF EffectsMatch, StateAt, ActualGasCost
<1>5. DepositAt(b) = DepositAt(i - 1)
  BY <1>2, <1>3, <1>4, DepositType
<1>6. CounterAt(b) = Count(blocks, b, Increments) /\ CounterAt(i) = Count(blocks, i, Increments)
  BY <1>2, <1>3, Counts
<1>7. Count(blocks, b, Increments) \in Nat /\ Count(blocks, i, Increments) \in Nat
  BY <1>2, CountType
<1>8. b < i
  <2> SUFFICES ASSUME i <= b PROVE FALSE
    BY <1>2
  <2>1. /\ Count(blocks, b, Increments) = Count(blocks, i, Increments) + Cardinality(Between(blocks, i, b, Increments))
        /\ Cardinality(Between(blocks, i, b, Increments)) \in Nat
    BY <1>2, CountBetween
  <2> QED
    BY <1>4, <1>6, <1>7, <2>1
<1>9. Between(blocks, b, i, Increments) = {i}
  <2>1. PICK S : S = Between(blocks, b, i, Increments)
    OBVIOUS
  <2>2. /\ IsFiniteSet(S) /\ Cardinality(S) \in Nat
        /\ Count(blocks, i, Increments) = Count(blocks, b, Increments) + Cardinality(S)
    BY <1>2, <1>8, <2>1, CountBetween
  <2>3. Cardinality(S) = 1
    BY <1>4, <1>6, <1>7, <2>2
  <2>4. i \in S
    BY <1>1, <1>2, <1>3, <1>8, <2>1 DEF Between, Increments
  <2>5. PICK x : S = {x}
    BY <2>2, <2>3, FS_Singleton
  <2> QED
    BY <2>1, <2>4, <2>5
<1>10. \A j \in b + 1..i - 1 : ~(blocks[j].kind \in {"op", "counter"} /\ blocks[j].ok)
  <2> TAKE j \in b + 1..i - 1
  <2>1. j \in b + 1..i /\ j # i /\ j \in 1..Height
    BY <1>2
  <2>2. blocks[j] \in MinedBlocks /\ blocks[j] \notin Increments
    BY <1>3, <1>9, <2>1 DEF Between
  <2> QED
    BY <2>2 DEF Increments
<1> QED
  BY <1>1, <1>2, <1>5, <1>8, <1>10 DEF Attributed

LEMMA VerifyEffectsAction ==
  ASSUME IInv, VerifyEffects
  PROVE  IInv'
<1>0. /\ UNCHANGED <<flow, local, ledgers, torn, network>> /\ run.name = "submit" /\ TypeOK /\ ChainInv
      /\ run.ev \in EvidenceFiles /\ Supported(run.q, run.ev) /\ run.ev.submitted /\ run.ev.status = "included"
      /\ run.q \in Requests /\ request[run.q] \in RequestFiles
  <2>1. run.name = "submit" /\ run.step = "effects" /\ UNCHANGED <<flow, local, ledgers, torn, network>>
    BY DEF VerifyEffects, At
  <2> QED
    BY <2>1, Held DEF IInv, RunInv, RunAt, SubmitAt, Progress, FilesInv
<1>1. CASE Throw
  BY <1>0, <1>1, Throws
<1>2. CASE EffectsMatch(run.ev, run.op) /\ SaveLeave([run.ev EXCEPT !.status = "included-and-verified"])
  <2>1. /\ run.ev.included \in 1..Height /\ Shows(blocks[run.ev.included], run.q)
        /\ StatusOf(blocks[run.ev.included]) = "included"
    BY <1>0 DEF Supported, Seen
  <2>2. PICK e : e = blocks[run.ev.included]
    OBVIOUS
  <2>3. e.kind = "op" /\ e.ok
    <3>1. e \in MinedBlocks /\ BlockInv(e)
      BY <1>0, <2>1, <2>2, HeightType DEF ChainInv
    <3>2. e.kind # "reverted" /\ e.ok
      BY <2>1, <2>2, <3>1 DEF StatusOf
    <3>3. e.kind = "op"
      <4>1. CASE request[run.q].mode = "bundler"
        BY <2>1, <2>2, <4>1 DEF Shows
      <4>2. CASE request[run.q].mode # "bundler"
        BY <1>0, <2>1, <2>2, <3>1, <3>2, <4>2 DEF Shows, BlockInv
      <4> QED
        BY <4>1, <4>2
    <3> QED
      BY <3>2, <3>3
  <2>4. run.ev.before # None /\ Attributed(run.ev)
    BY <1>0, <1>2, <2>1, <2>2, <2>3, EffectsAttributed DEF Supported
  <2>5. PICK ev : ev = [run.ev EXCEPT !.status = "included-and-verified"]
    OBVIOUS
  <2>6. /\ ev \in EvidenceFiles /\ ev.status = "included-and-verified" /\ ev.submitted
        /\ ev.before = run.ev.before /\ ev.included = run.ev.included
    BY <1>0, <2>5 DEF EvidenceFiles, Statuses
  <2>7. Supported(run.q, ev) /\ Kept(ev.status)
    BY <1>0, <2>1, <2>4, <2>6 DEF Supported, Seen, Kept, Attributed
  <2> QED
    BY <1>0, <1>2, <2>5, <2>6, <2>7, SaveEnd
<1> QED
  BY <1>1, <1>2 DEF VerifyEffects
-----------------------------------------------------------------------------
(* The chain moves under the commands.                                     *)
LEMMA NextEventsType ==
  ASSUME TypeOK, FilesInv, NEW e \in NextEvents
  PROVE  /\ e \in Events
         /\ e.kind = "op" => DepositAt(Height) >= Cap
         /\ e.kind = "counter" => e.ok
         /\ \A q \in Requests : e.id = OperationTx(q) => e.kind \in {"op", "reverted"}
         /\ \A n \in Nonces : e.id = Tx("prefund", n) => e.kind = "prefund" /\ n <= NonceAt(Height)
<1>0. \A q \in Requests : q \in signed => OpOf(q) \in Operations
  BY DEF TypeOK, FilesInv, SignedInv, OpOf, RequestFiles
<1>1. ASSUME NEW id \in sent, e \in TxEvents(id)
      PROVE  /\ e \in Events /\ e.id = id
             /\ e.kind = "op" => DepositAt(Height) >= Cap
             /\ e.kind # "counter" /\ (id.act # "operation" => e.kind = id.act)
             /\ id.act = "operation" => e.kind \in {"op", "reverted"}
  <2>1. id \in TxIds /\ id \in journal
    BY DEF TypeOK, FilesInv, JournalInv
  <2>2. CASE id.act # "operation"
    <3>1. id.act \in {"prepare", "prefund"}
      BY <2>1, <2>2 DEF TxIds, Tx
    <3>2. e = Event(id.act, id, None, TRUE)
      BY <1>1, <2>2 DEF TxEvents
    <3> QED
      BY <2>1, <2>2, <3>1, <3>2 DEF Event, Events, Kinds
  <2>3. CASE id.act = "operation"
    <3>1. PICK q \in Requests : id = OperationTx(q)
      BY <2>1, <2>3 DEF TxIds, Tx, OperationTx
    <3>2. id.of = q /\ q \in signed
      BY <2>1, <3>1 DEF FilesInv, JournalInv, OperationTx, Tx
    <3>3. CASE Valid(OpOf(q))
      <4>1. PICK ok \in BOOLEAN : e = Event("op", id, OpOf(q), ok)
        BY <1>1, <2>3, <3>2, <3>3 DEF TxEvents
      <4>2. DepositAt(Height) >= Cap
        BY <3>3 DEF Valid
      <4> QED
        BY <1>0, <2>1, <2>3, <3>2, <4>1, <4>2 DEF Event, Events, Kinds
    <3>4. CASE ~Valid(OpOf(q))
      <4>1. e = Event("reverted", id, None, FALSE)
        BY <1>1, <2>3, <3>2, <3>4 DEF TxEvents
      <4> QED
        BY <2>1, <2>3, <4>1 DEF Event, Events, Kinds
    <3> QED
      BY <3>3, <3>4
  <2> QED
    BY <2>2, <2>3
<1>2. CASE \E id \in sent : e \in TxEvents(id)
  <2>1. PICK id \in sent : e \in TxEvents(id)
    BY <1>2
  <2>2. /\ e \in Events /\ e.id = id
        /\ e.kind = "op" => DepositAt(Height) >= Cap
        /\ e.kind # "counter" /\ (id.act # "operation" => e.kind = id.act)
        /\ id.act = "operation" => e.kind \in {"op", "reverted"}
    BY <1>1, <2>1
  <2>3. \A q \in Requests : e.id = OperationTx(q) => e.kind \in {"op", "reverted"}
    BY <2>2 DEF OperationTx, Tx
  <2>4. \A n \in Nonces : e.id = Tx("prefund", n) => e.kind = "prefund" /\ n <= NonceAt(Height)
    <3> TAKE n \in Nonces
    <3> HAVE e.id = Tx("prefund", n)
    <3>1. Tx("prefund", n) \in sent /\ id.act = "prefund"
      BY <2>1, <2>2 DEF Tx
    <3> QED
      BY <2>2, <3>1 DEF FilesInv, ChainInv
  <2> QED
    BY <2>2, <2>3, <2>4
<1>3. CASE \E op \in {o \in {OpOf(q) : q \in offered} : Valid(o)}, ok \in BOOLEAN : e = Event("op", None, op, ok)
  <2>1. PICK q \in offered, ok \in BOOLEAN : Valid(OpOf(q)) /\ e = Event("op", None, OpOf(q), ok)
    BY <1>3
  <2>2. OpOf(q) \in Operations /\ DepositAt(Height) >= Cap
    BY <1>0, <2>1 DEF TypeOK, FilesInv, SignedInv, Valid
  <2>3. e \in Events /\ e.id = None /\ e.kind = "op"
    BY <2>1, <2>2 DEF Event, Events, Kinds
  <2>4. \A n \in Nonces : Tx("prefund", n) \in TxIds
    BY TxApart
  <2> QED
    BY <2>2, <2>3, <2>4, TxApart, NoneAssumption
<1>4. CASE \E kind \in {"counter", "topup", "create"} : e = Event(kind, None, None, TRUE)
  <2>1. e \in Events /\ e.id = None /\ e.kind # "op" /\ e.ok
    BY <1>4 DEF Event, Events, Kinds
  <2> QED
    BY <2>1, TxApart, NoneAssumption
<1>5. CASE e \in OwnEvents
  BY <1>2, <1>5 DEF OwnEvents
<1>6. CASE e \in BundledEvents
  BY <1>3, <1>6 DEF BundledEvents
<1>7. CASE e \in ForeignEvents
  <2>1. \E kind \in {"counter", "topup", "create"} : e = Event(kind, None, None, TRUE)
    BY <1>7 DEF ForeignEvents
  <2> QED
    BY <1>4, <2>1
<1> QED
  BY <1>5, <1>6, <1>7 DEF NextEvents

(* What a block leaves of the deposit.                                     *)
LEMMA DepositsAfterType ==
  ASSUME TypeOK, NEW e \in Events, NEW deposited \in DepositsAfter(e)
  PROVE  /\ Block(e, deposited) \in MinedBlocks /\ deposited \in Int
         /\ e.kind = "op" => deposited >= DepositAt(Height) - Cap
         /\ e.kind = "prefund" => deposited = DepositAt(Height) + Prefund
         /\ e.kind # "op" => deposited >= DepositAt(Height)
<1>1. PICK D \in Int : D = DepositAt(Height)
  BY StateType
<1>2. CASE e.kind = "op"
  <2>1. PICK cost \in Costs : deposited = D - cost
    BY <1>1, <1>2 DEF DepositsAfter
  <2>2. cost \in Int /\ cost <= Cap
    BY AmountsAssumption DEF Cap
  <2> QED
    BY <1>1, <1>2, <2>1, <2>2 DEF Block, Events, MinedBlocks, Cap
<1>3. CASE e.kind = "prefund"
  <2>1. deposited = D + Prefund
    BY <1>1, <1>3 DEF DepositsAfter
  <2> QED
    BY <1>1, <1>3, <2>1 DEF Block, Events, MinedBlocks, Prefund
<1>4. CASE e.kind = "topup"
  <2>1. PICK amount \in TopUps : deposited = D + amount
    BY <1>1, <1>4 DEF DepositsAfter
  <2>2. amount \in Nat
    BY AmountsAssumption
  <2> QED
    BY <1>1, <1>4, <2>1, <2>2 DEF Block, Events, MinedBlocks
<1>5. CASE e.kind \notin {"op", "prefund", "topup"}
  <2>1. deposited = D
    BY <1>1, <1>5 DEF DepositsAfter
  <2> QED
    BY <1>1, <1>5, <2>1 DEF Block, Events, MinedBlocks
<1> QED
  BY <1>2, <1>3, <1>4, <1>5

LEMMA MineAction ==
  ASSUME IInv, Mine
  PROVE  IInv'
<1>0. PICK e \in NextEvents : \E d \in DepositsAfter(e) : blocks' = Append(blocks, Block(e, d))
  BY DEF Mine
<1>1. /\ TypeOK /\ FilesInv /\ RunAt(run) /\ pre' = None /\ Height < MaxBlocks
      /\ UNCHANGED <<flow, run, files, l1, credited, sent, offered>>
  BY DEF Mine, IInv, RunInv
<1>2. /\ e \in Events
      /\ e.kind = "op" => DepositAt(Height) >= Cap
      /\ e.kind = "counter" => e.ok
      /\ \A q \in Requests : e.id = OperationTx(q) => e.kind \in {"op", "reverted"}
      /\ \A n \in Nonces : e.id = Tx("prefund", n) => e.kind = "prefund" /\ n <= NonceAt(Height)
  BY <1>1, NextEventsType
<1>3. PICK h, N, D, d, b : /\ h = Height /\ N = NonceAt(Height) /\ D = DepositAt(Height)
                           /\ d \in DepositsAfter(e) /\ b = Block(e, d) /\ blocks' = Append(blocks, b)
  BY <1>0
<1>4. /\ b \in MinedBlocks /\ d \in Int
      /\ b.kind = e.kind /\ b.id = e.id /\ b.ok = e.ok /\ b.deposit = d
      /\ e.kind = "op" => d >= D - Cap
      /\ e.kind = "prefund" => d = D + Prefund
      /\ e.kind # "op" => d >= D
  BY <1>0, <1>1, <1>2, <1>3, DepositsAfterType DEF Block
<1>5. /\ h \in Nat /\ Height' = h + 1 /\ blocks' \in Seq(MinedBlocks)
      /\ blocks'[h + 1] = b /\ \A i \in 1..h : blocks'[i] = blocks[i]
      /\ N \in Nat /\ D \in Int /\ D >= 0
      /\ NonceAt(Height)' = N + (IF e.kind = "op" THEN 1 ELSE 0)
      /\ DepositAt(Height)' = d
      /\ DeployedAt(Height) => DeployedAt(Height)'
  BY <1>0, <1>1, <1>3, <1>4, Mined, StateType DEF FilesInv, ChainInv
<1>6. PICK n1 \in Nat : n1 = NonceAt(Height)' /\ n1 = N + (IF e.kind = "op" THEN 1 ELSE 0)
  BY <1>5
<1>7. d >= 0 /\ (e.kind = "op" => n1 = N + 1) /\ (e.kind # "op" => n1 = N)
  BY <1>2, <1>3, <1>4, <1>5, <1>6 DEF Cap
<1>8. ASSUME NEW op \in Operations PROVE (Deploys(op) => Deploys(op)') /\ (Paid(op) => Paid(op)')
  <2>1. op.nonce \in Nat
    BY DEF Operations, Nonces
  <2>2. Deploys(op) => Deploys(op)'
    BY <1>4, <1>5, <1>6, <1>7 DEF Deploys
  <2>3. (op.nonce >= N => D >= Cap * (op.nonce - N + 1)) => (op.nonce >= n1 => d >= Cap * (op.nonce - n1 + 1))
    BY <1>4, <1>5, <1>6, <1>7, <2>1 DEF Cap
  <2> QED
    BY <1>3, <1>5, <1>6, <2>2, <2>3 DEF Paid
<1>9. TypeOK'
  BY <1>1, <1>3, <1>5, BoundsAssumption DEF TypeOK, files, local, ledgers
<1>10. EvidenceInv'
  <2>0. h \in Nat /\ Height = h /\ Height' = h + 1 /\ \A i \in 1..h : blocks'[i] = blocks[i]
    BY <1>3, <1>5
  <2>1. PreparedAt(Height) => PreparedAt(Height)'
    BY <2>0 DEF PreparedAt, Blocks
  <2>2. (prepared' => PreparedAt(Height)') /\ result' = result /\ request' = request /\ EvidenceInv
    BY <1>1, <2>1 DEF files, local, FilesInv, EvidenceInv
  <2>3. Height' \in Nat /\ Height' >= Height /\ \A i \in 1..Height : blocks'[i] = blocks[i]
    BY <2>0
  <2> QED
    BY <1>1, <2>2, <2>3, EvidenceKeep
<1>11. DepositInv' /\ JournalInv' /\ HandedOver' /\ SignedInv'
  BY <1>1 DEF FilesInv, DepositInv, JournalInv, HandedOver, SignedInv, OperationTx, Torn, files, local, ledgers
<1>12. ChainInv'
  <2>1. ASSUME NEW n \in Nonces, n <= N
        PROVE  n <= n1 /\ (n = n1 /\ D >= Prefund => d >= Prefund)
    BY <1>4, <1>5, <1>6, <1>7, <2>1 DEF Nonces, Prefund
  <2>2. ASSUME NEW i \in 1..h + 1
        PROVE  BlockInv(blocks[i])'
    <3>1. CASE i \in 1..h
      <4>1. blocks'[i] = blocks[i] /\ BlockInv(blocks[i])
        BY <1>1, <1>3, <1>5, <3>1 DEF FilesInv, ChainInv
      <4>2. ASSUME NEW n \in Nonces, blocks[i].id = Tx("prefund", n)
            PROVE  n <= n1 /\ (n = n1 => d >= Prefund)
        <5>1. n <= N /\ (n = N => D >= Prefund)
          BY <1>3, <4>1, <4>2 DEF BlockInv
        <5> QED
          BY <1>4, <1>5, <1>6, <1>7, <5>1 DEF Nonces, Prefund
      <4> QED
        BY <1>5, <1>6, <4>1, <4>2 DEF BlockInv, OperationTx
    <3>2. CASE i = h + 1
      <4>1. ASSUME NEW n \in Nonces, e.id = Tx("prefund", n)
            PROVE  n <= n1 /\ (n = n1 => d >= Prefund)
        BY <1>2, <1>3, <1>4, <1>5, <1>6, <1>7, <4>1 DEF Prefund
      <4> QED
        BY <1>2, <1>4, <1>5, <1>6, <3>2, <4>1 DEF BlockInv, OperationTx
    <3> QED
      BY <1>5, <3>1, <3>2
  <2>3. \A n \in Nonces : Tx("prefund", n) \in sent' => n <= n1
    BY <1>1, <1>3, <2>1 DEF FilesInv, ChainInv
  <2> QED
    BY <1>5, <1>6, <1>7, <2>2, <2>3 DEF ChainInv, BlockInv
<1>13. RequestInv'
  <2>1. request' = request
    BY <1>1 DEF files, local
  <2>2. ASSUME NEW q \in Requests, request[q] # None PROVE Deploys(request[q].op)' /\ Paid(request[q].op)'
    <3>1. PICK op : op = request[q].op
      OBVIOUS
    <3>2. op \in Operations /\ Deploys(op) /\ Paid(op)
      BY <1>1, <2>2, <3>1 DEF FilesInv, RequestInv, TypeOK, RequestFiles
    <3>3. Deploys(op)' /\ Paid(op)'
      BY <1>8, <3>2
    <3> QED
      BY <2>1, <3>1, <3>3 DEF Deploys, Paid
  <2> QED
    BY <2>1, <2>2 DEF RequestInv
<1>14. RunInv'
  <2>1. PICK r : r = run /\ r \in Runs
    BY <1>1 DEF TypeOK
  <2>2. UNCHANGED <<flow, l1, deposit, journal, signed, request, torn, result>>
    BY <1>1 DEF files, local, ledgers
  <2>3. r.name = "fund" => FundAt(r)'
    BY <1>1, <2>1, <2>2 DEF RunAt, FundAt
  <2>4. r.name = "prepare" => PrepareAt(r)'
    BY <1>1, <2>1, <2>2 DEF RunAt, PrepareAt
  <2>5. r.name = "request" => RequestAt(r)'
    <3> SUFFICES ASSUME r.name = "request" PROVE RequestAt(r)'
      OBVIOUS
    <3>1. RequestAt(r)
      BY <1>1, <2>1 DEF RunAt
    <3>2. r.step \notin {"context", "nonce"} =>
            /\ r.op \in Operations /\ r.op.nonce <= n1 + r.k
            /\ Deploys(r.op) => Deploys(r.op)'
            /\ Paid(r.op) => Paid(r.op)'
      <4> HAVE r.step \notin {"context", "nonce"}
      <4>1. r.op \in Operations /\ r.op.nonce <= N + r.k
        BY <1>3, <3>1 DEF RequestAt
      <4>2. r.op.nonce <= n1 + r.k
        BY <1>4, <1>5, <1>6, <1>7, <2>1, <4>1 DEF Operations, Nonces, Runs
      <4>3. PICK op : op = r.op
        OBVIOUS
      <4>4. (Deploys(op) => Deploys(op)') /\ (Paid(op) => Paid(op)')
        BY <1>8, <4>1, <4>3
      <4> QED
        BY <4>1, <4>2, <4>3, <4>4
    <3> QED
      BY <1>5, <1>6, <2>2, <3>1, <3>2 DEF RequestAt
  <2>6. r.name = "submit" => SubmitAt(r)'
    BY <1>1, <2>1, <2>2 DEF RunAt, SubmitAt, Progress, OperationTx, Torn
  <2>7. RunAt(r)'
    BY <1>1, <2>1, <2>3, <2>4, <2>5, <2>6 DEF RunAt
  <2> QED
    BY <1>1, <2>1, <2>7 DEF RunInv
<1> QED
  BY <1>9, <1>10, <1>11, <1>12, <1>13, <1>14 DEF IInv, FilesInv

LEMMA PreconfirmAction ==
  ASSUME IInv, Preconfirm
  PROVE  IInv'
<1>1. pre' \in Events \cup {None}
  BY NextEventsType DEF Preconfirm, IInv
<1>2. TypeOK'
  BY <1>1 DEF Preconfirm, IInv, TypeOK, files, local, ledgers, Height
<1>3. EvidenceInv'
  <2>1. TypeOK /\ EvidenceInv /\ Height \in Nat /\ Height' = Height /\ PreparedAt(Height)' = PreparedAt(Height)
    BY HeightType, SameChain DEF IInv, FilesInv, Preconfirm
  <2>2. (prepared' => PreparedAt(Height)') /\ blocks' = blocks /\ result' = result /\ request' = request
    BY <2>1 DEF Preconfirm, files, local, EvidenceInv
  <2> QED
    BY <2>1, <2>2, EvidenceKeep
<1>4. DepositInv' /\ JournalInv' /\ HandedOver' /\ SignedInv'
  BY DEF Preconfirm, IInv, FilesInv, DepositInv, JournalInv, HandedOver, SignedInv, OperationTx, Torn, files, local, ledgers
<1>5. ChainInv' /\ RequestInv'
  BY ChainKeep, RequestKeep DEF Preconfirm, IInv, FilesInv, files, local
<1>6. PICK r : r = run
  OBVIOUS
<1>7. RunAt(r)'
  BY <1>6, RunKeep DEF Preconfirm, IInv, RunInv, files, local, ledgers
<1> QED
  BY <1>2, <1>3, <1>4, <1>5, <1>6, <1>7 DEF Preconfirm, IInv, FilesInv, RunInv
-----------------------------------------------------------------------------
LEMMA Initially == Init => IInv
<1> SUFFICES ASSUME Init PROVE IInv
  OBVIOUS
<1>1. Height = 0 /\ 0 \in 0..MaxBlocks
  BY BoundsAssumption DEF Init, Height
<1>2. TypeOK
  <2>1. blocks \in Seq(MinedBlocks)
    BY DEF Init
  <2>2. l1 \in 0..1 /\ credited \in {"no", "mined", "credited"} /\ run \in Runs /\ Height <= MaxBlocks
        /\ deposit \in {"none", "prepared", "signed", "broadcast", "awaiting", "credited"}
        /\ flow \in {"fund", "stake", "profile"}
    BY <1>1, IdleRun DEF Init
  <2>3. /\ request \in [Requests -> RequestFiles \cup {None}]
        /\ pointer \in [Nonces \X Modes -> Requests \cup {None}]
        /\ result \in [Requests -> EvidenceFiles \cup {None}]
    BY DEF Init
  <2> QED
    BY <2>1, <2>2, <2>3 DEF Init, TypeOK
<1>3. DepositAt(Height) = 0
  BY <1>1 DEF DepositAt
<1>4. DepositInv /\ JournalInv /\ HandedOver /\ SignedInv
  BY BoundsAssumption DEF Init, DepositInv, JournalInv, HandedOver, SignedInv
<1>5. EvidenceInv /\ RequestInv
  BY DEF Init, EvidenceInv, RequestInv
<1>6. ChainInv
  BY <1>1, <1>3 DEF Init, ChainInv
<1>7. RunInv
  BY IdleRun DEF Init, RunInv, RunAt
<1> QED
  BY <1>2, <1>4, <1>5, <1>6, <1>7 DEF IInv, FilesInv

LEMMA Unchanged == ASSUME IInv, UNCHANGED vars PROVE IInv'
<1>1. run' \in Runs /\ RunAt(run')
  BY DEF vars, IInv, TypeOK, RunInv
<1> QED
  BY <1>1, Move DEF vars

(* A command is prepared for either flow; its steps differ by name only.   *)
LEMMA FlowActions ==
  ASSUME IInv,
         \/ VerifyStake \/ VerifyProfile \/ ReadLiveNonce \/ ReadProfileNonce
         \/ ReadLiveCode \/ ReadProfileCode
         \/ \E q \in Requests : WriteLiveRequest(q) \/ WriteProfileRequest(q)
  PROVE  IInv'
<1>1. ASSUME VerifyStake \/ VerifyProfile PROVE IInv'
  BY <1>1, SavePreparedAction DEF VerifyStake, VerifyProfile
<1>2. ASSUME ReadLiveNonce \/ ReadProfileNonce PROVE IInv'
  BY <1>2, ReadNonceAction DEF ReadLiveNonce, ReadProfileNonce
<1>3. ASSUME ReadLiveCode \/ ReadProfileCode PROVE IInv'
  BY <1>3, ReadCodeAction DEF ReadLiveCode, ReadProfileCode
<1>4. ASSUME NEW q \in Requests, WriteLiveRequest(q) \/ WriteProfileRequest(q) PROVE IInv'
  BY <1>4, WriteRequestAction DEF WriteLiveRequest, WriteProfileRequest
<1> QED
  BY <1>1, <1>2, <1>3, <1>4

LEMMA Inductive == IInv /\ [Next]_vars => IInv'
<1> SUFFICES ASSUME IInv, [Next]_vars PROVE IInv'
  OBVIOUS
<1>1. CASE Fund \/ FundStatus \/ FundEstimate \/ FundSign \/ FundBroadcast \/ FundMark \/ BridgeDeposit
  BY <1>1, FundActions
<1>2. CASE StartPrepareStake \/ StartPrepareProfiles
  BY <1>2, StartPrepareActions
<1>3. CASE \E mode \in Modes : StartLiveRequest(mode) \/ \E offset \in 0..1 : StartProfileRequest(mode, offset)
  BY <1>3, StartRequestActions
<1>4. CASE LiveContext \/ Transact \/ Reserve \/ Broadcast \/ ObserveTransaction
  BY <1>4, LiveContextAction, TransactAction, ReserveAction, BroadcastAction, ObserveTransactionAction
<1>5. CASE \/ VerifyStake \/ VerifyProfile \/ ReadLiveNonce \/ ReadProfileNonce
           \/ ReadLiveCode \/ ReadProfileCode
           \/ \E q \in Requests : WriteLiveRequest(q) \/ WriteProfileRequest(q)
  BY <1>5, FlowActions
<1>6. CASE PrefundDeposit \/ RequireDeposit \/ RefuseFutureDeployment \/ RefuseRequest
  BY <1>6, DepositActions, RefuseActions
<1>7. CASE CaptureWallet \/ WritePointer
  BY <1>7, CaptureActions
<1>8. CASE \E q \in Requests : CaptureSignature(q) \/ Measure(q) \/ StartSubmit(q) \/ SubmitElsewhere(q)
  BY <1>8, RequestFileActions, StartSubmitAction, ElsewhereAction
<1>9. CASE \/ Recover \/ ReadBefore \/ Simulate \/ SubmitToBundler \/ SubmitDirect \/ DirectSubmitted
           \/ ObserveOperation \/ CanonicalReceipt \/ VerifyEffects
  BY <1>9, RecoverAction, BeforeActions, SubmitToBundlerAction, DirectActions, ObserveOperationAction,
     CanonicalReceiptAction, VerifyEffectsAction
<1>10. CASE Kill \/ Preconfirm \/ Mine
  BY <1>10, KillAction, PreconfirmAction, MineAction
<1>11. CASE UNCHANGED vars
  BY <1>11, Unchanged
<1> QED
  BY <1>1, <1>2, <1>3, <1>4, <1>5, <1>6, <1>7, <1>8, <1>9, <1>10, <1>11 DEF Next

LEMMA Invariance == Spec => []IInv
BY Initially, Inductive, PTL DEF Spec
-----------------------------------------------------------------------------
(* The files, the chain and what a running command holds have their types; *)
(* no more than one deposit is among them (fund-base-sepolia.ts).          *)
THEOREM TypeCorrect == Spec => []TypeOK
BY Invariance, PTL DEF IInv

(* fund-base-sepolia.ts, submitter-journal.ts, submit-live-operation.ts:   *)
(* what was handed to a node or a bundler is known to the files a rerun    *)
(* starts from, however the command that sent it ended.                    *)
THEOREM Recorded == Spec => []SentIsRecorded
<1>1. IInv => SentIsRecorded
  <2> SUFFICES ASSUME IInv PROVE SentIsRecorded
    OBVIOUS
  <2>1. l1 <= 1
    BY DEF IInv, TypeOK
  <2>2. l1 = 1 => deposit \notin {"none", "prepared"} \/ File("deposit", 0) \in torn
    BY DEF IInv, FilesInv, DepositInv, Torn
  <2>3. \A id \in sent : id \in journal \/ File("journal", 0) \in torn
    BY DEF IInv, FilesInv, JournalInv
  <2>4. \A q \in Ours : q \in offered \/ OperationTx(q) \in sent =>
          \/ File("result", q) \in torn
          \/ result[q] # None /\ result[q].status \notin {"prepared", "simulation-failed"}
    BY DEF IInv, FilesInv, HandedOver, Torn
  <2> QED
    BY <2>1, <2>2, <2>3, <2>4 DEF SentIsRecorded
<1> QED
  BY <1>1, Invariance, PTL

(* prepare-live-operation.ts, prepare-profile-operation.ts: a prepared     *)
(* request stays paid for until its nonce is used, whatever the operations *)
(* before it cost; and its init code fits, unless somebody else called the *)
(* factory for an account it is to create.                                 *)
THEOREM Executable == Spec => []RequestsStayExecutable
<1>1. IInv => RequestsStayExecutable
  <2> SUFFICES ASSUME IInv, NEW q \in Requests, request[q] # None, OpOf(q).nonce >= NonceAt(Height)
               PROVE  /\ DepositAt(Height) >= Cap * (OpOf(q).nonce - NonceAt(Height) + 1)
                      /\ \/ OpOf(q).deploy = ~DeployedAt(Height)
                         \/ OpOf(q).deploy /\ Blocks(Height, {"create"}) # {}
    BY DEF RequestsStayExecutable
  <2>1. PICK op : op = OpOf(q)
    OBVIOUS
  <2>2. op \in Operations /\ Deploys(op) /\ Paid(op)
    BY <2>1 DEF IInv, FilesInv, RequestInv, TypeOK, RequestFiles, OpOf
  <2>3. /\ NonceAt(Height) \in Nat
        /\ NonceAt(Height) = 0 /\ DeployedAt(Height) => Blocks(Height, {"create"}) # {}
    BY StateType DEF IInv
  <2>4. op.deploy \in BOOLEAN /\ op.nonce \in Nat /\ op.nonce >= NonceAt(Height)
    BY <2>1, <2>2 DEF Operations, Nonces
  <2>5. CASE op.deploy = TRUE
    <3>1. op.nonce = 0
      BY <2>2, <2>5 DEF Deploys
    <3>2. ~DeployedAt(Height) \/ Blocks(Height, {"create"}) # {}
      BY <2>3, <2>4, <3>1
    <3> QED
      BY <2>1, <2>2, <2>4, <2>5, <3>2 DEF Paid
  <2>6. CASE op.deploy = FALSE
    <3>1. DeployedAt(Height)
      BY <2>2, <2>6 DEF Deploys
    <3> QED
      BY <2>1, <2>2, <2>4, <2>6, <3>1 DEF Paid
  <2> QED
    BY <2>4, <2>5, <2>6
<1> QED
  BY <1>1, Invariance, PTL

(* submit-live-operation.ts, in histories of any length and whatever      *)
(* operations cost and others deposit: what evidence says was mined was,   *)
(* and effects that were verified are this operation's: nothing else       *)
(* incremented the counter since the state read before, and the deposit    *)
(* it was charged from is the one read before.                             *)
THEOREM Real == Spec => []EvidenceIsReal
<1>1. IInv => EvidenceIsReal
  <2> SUFFICES ASSUME IInv PROVE EvidenceIsReal
    OBVIOUS
  <2>1. EvidenceInv /\ TypeOK
    BY DEF IInv, FilesInv
  <2>2. ASSUME NEW q \in Requests, result[q] # None, NEW ev, ev = result[q]
        PROVE  /\ ev.status \in {"included", "execution-reverted", "transaction-reverted"} =>
                    ev.included # 0 /\ Shows(blocks[ev.included], q)
                    /\ StatusOf(blocks[ev.included]) = ev.status
               /\ Verified(q) => /\ Shows(blocks[ev.included], q)
                                 /\ StatusOf(blocks[ev.included]) = "included"
                                 /\ Attributed(ev)
    <3>1. Supported(q, ev) /\ ev \in EvidenceFiles
      BY <2>1, <2>2 DEF EvidenceInv, TypeOK
    <3>2. ev.status \in Seen =>
            ev.included # 0 /\ Shows(blocks[ev.included], q) /\ StatusOf(blocks[ev.included]) = ev.status
      BY <3>1 DEF Supported
    <3>3. Verified(q) => /\ Shows(blocks[ev.included], q)
                         /\ StatusOf(blocks[ev.included]) = "included"
                         /\ Attributed(ev)
      <4> SUFFICES ASSUME ev.status = "included-and-verified"
                   PROVE  /\ Shows(blocks[ev.included], q)
                          /\ StatusOf(blocks[ev.included]) = "included"
                          /\ Attributed(ev)
        BY <2>2 DEF Verified
      <4> QED
        BY <3>1 DEF Supported
    <3> QED
      BY <3>2, <3>3 DEF Seen
  <2>3. prepared => PreparedAt(Height)
    BY <2>1 DEF EvidenceInv
  <2> QED
    BY <2>2, <2>3 DEF EvidenceIsReal
<1> QED
  BY <1>1, Invariance, PTL
=============================================================================
