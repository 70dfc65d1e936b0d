--------------------------- MODULE SubmitterJournal ---------------------------
(***************************************************************************)
(* scripts/lib/live-context.ts: the transaction journal of one submitter.  *)
(*                                                                         *)
(* A context (one call of liveContext) reads the journal, takes the        *)
(* submitter's lock file, runs its transactions one after the other and    *)
(* releases the lock.  A transaction reserves a nonce above every nonce    *)
(* its copy of the journal knows, because the node's pending count may be  *)
(* stale; it is journalled before it is broadcast and observed until a     *)
(* mined receipt confirms it.  Contexts live in operating-system processes *)
(* (hosts); a host can be killed at any point, also in the middle of       *)
(* writing the journal.                                                    *)
(***************************************************************************)
EXTENDS Naturals, Sequences, FiniteSets

CONSTANTS
    Contexts,    \* calls of liveContext
    Hosts,       \* operating-system processes
    HostOf,      \* the process each context runs in
    Ids,         \* journal keys: `reference-${hash}`, `prepare-profile-...`
    Intents,     \* what is to be sent: to, data, value
    Work,        \* the transact calls each context makes
    None

Job == [id : Ids, intent : Intents]

ASSUME HostAssumption == HostOf \in [Contexts -> Hosts]
ASSUME WorkAssumption == Work \in [Contexts -> SUBSET Job]

VARIABLES
    journal,     \* the file: an entry or None per id
    torn,        \* a kill left the file truncated
    lock,        \* owner of the lock file
    pc, local, job, todo,   \* per context: step, journal copy, current call, calls left
    signed,      \* transactions that were signed and journalled
    sent,        \* transactions the node accepted
    mined        \* the submitter's transactions in the chain, in nonce order

vars == <<journal, torn, lock, pc, local, job, todo, signed, sent, mined>>
chain == <<sent, mined>>

Statuses == {"signed", "broadcast", "success", "reverted"}
Tx == [id : Ids, nonce : Nat, by : Contexts]
Entry == [intent : Intents, tx : Tx, status : Statuses]

ASSUME NoneAssumption == None \notin Contexts \cup Entry

Journal == [Ids -> Entry \cup {None}]
PC == {"idle", "read", "open", "reserving", "signed", "sent", "observing", "done", "dead"}

Live(c) == pc[c] \notin {"idle", "done", "dead"}

(* Lines 116-131 run without an await: no other context of the same process
   moves between reading the journal and taking the lock. *)
Scheduled(c) ==
    \A d \in Contexts \ {c} : HostOf[d] = HostOf[c] => pc[d] # "read"

Mined == {mined[i].tx : i \in 1..Len(mined)}
NextMined == Len(mined)

(* The pending count of a node that has seen everything. *)
PendingCount ==
    CHOOSE n \in NextMined..(NextMined + Cardinality(sent)) :
        /\ \A k \in NextMined..(n - 1) : \E tx \in sent : tx.nonce = k
        /\ ~\E tx \in sent : tx.nonce = n

Reserved(c) == {local[c][id].tx.nonce : id \in {i \in Ids : local[c][i] # None}}
Mutant_HighestReserved(c) ==
    IF Reserved(c) = {} THEN 0
    ELSE CHOOSE n \in Reserved(c) : \A m \in Reserved(c) : m <= n

AboveReserved(c) ==
    IF Reserved(c) = {} THEN 0
    ELSE 1 + (CHOOSE n \in Reserved(c) : \A m \in Reserved(c) : m <= n)
Larger(m, n) == IF m < n THEN n ELSE m
-------------------------------------------------------------------------------
Init ==
    /\ journal = [id \in Ids |-> None]
    /\ torn = FALSE
    /\ lock = None
    /\ pc = [c \in Contexts |-> "idle"]
    /\ local = [c \in Contexts |-> [id \in Ids |-> None]]
    /\ job = [c \in Contexts |-> None]
    /\ todo = Work
    /\ signed = {}
    /\ sent = {}
    /\ mined = <<>>

(* JSON.parse of a truncated file throws. *)
ReadJournal(c) ==
    /\ pc[c] = "idle"
    /\ Scheduled(c)
    /\ pc' = [pc EXCEPT ![c] = IF torn THEN "done" ELSE "read"]
    /\ local' = [local EXCEPT ![c] = IF torn THEN @ ELSE journal]
    /\ UNCHANGED <<journal, torn, lock, job, todo, signed, chain>>

Mutant_AcquireLockShared(c) ==
    /\ pc[c] = "read"
    /\ lock' = c
    /\ pc' = [pc EXCEPT ![c] = "open"]
    /\ UNCHANGED <<journal, torn, local, job, todo, signed, chain>>

(* openSync(lockFile, 'wx') throws if the file exists. *)
AcquireLock(c) ==
    /\ pc[c] = "read"
    /\ lock' = IF lock = None THEN c ELSE lock
    /\ pc' = [pc EXCEPT ![c] = IF lock = None THEN "open" ELSE "done"]
    /\ UNCHANGED <<journal, torn, local, job, todo, signed, chain>>

(* A throw, a normal end: the lock goes, directly or in the exit handler. *)
Leave(c) ==
    /\ lock' = IF lock = c THEN None ELSE lock
    /\ pc' = [pc EXCEPT ![c] = "done"]

Release(c) ==
    /\ pc[c] = "open"
    /\ Scheduled(c)
    /\ Leave(c)
    /\ UNCHANGED <<journal, torn, local, job, todo, signed, chain>>

Mutant_TransactResends(c, j) ==
    LET known == local[c][j.id] IN
    /\ pc[c] = "open"
    /\ Scheduled(c)
    /\ j \in todo[c]
    /\ job' = [job EXCEPT ![c] = j]
    /\ todo' = [todo EXCEPT ![c] = @ \ {j}]
    /\ pc' = [pc EXCEPT ![c] = IF known # None /\ known.status # "signed"
                                THEN "observing" ELSE "reserving"]
    /\ UNCHANGED <<journal, torn, lock, local, signed, chain>>

(* transact(): an id the journal knows is observed, never sent again, and
   only for the same intent.  A new one passes the estimates and caps, or
   throws. *)
Transact(c, j) ==
    LET known == local[c][j.id] IN
    /\ pc[c] = "open"
    /\ Scheduled(c)
    /\ j \in todo[c]
    /\ job' = [job EXCEPT ![c] = j]
    /\ todo' = [todo EXCEPT ![c] = @ \ {j}]
    /\ \/ known # None /\ known.intent = j.intent
          /\ pc' = [pc EXCEPT ![c] = "observing"] /\ UNCHANGED lock
       \/ known # None /\ known.intent # j.intent /\ Leave(c)
       \/ known = None /\ pc' = [pc EXCEPT ![c] = "reserving"] /\ UNCHANGED lock
       \/ known = None /\ Leave(c)
    /\ UNCHANGED <<journal, torn, local, signed, chain>>

Mutant_SaveInMemory(c, entry) ==
    /\ local' = [local EXCEPT ![c][job[c].id] = entry]
    /\ UNCHANGED <<journal, torn>>

(* save() writes the whole copy over the file. *)
Save(c, entry) ==
    /\ local' = [local EXCEPT ![c][job[c].id] = entry]
    /\ journal' = local'[c]
    /\ torn' = FALSE

(* The pending count may be any earlier one; the journal copy is the floor.
   Signing, recording and saving run without an await. *)
Reserve(c) ==
    /\ pc[c] = "reserving"
    /\ Scheduled(c)
    /\ \E pending \in 0..PendingCount :
          LET tx == [id |-> job[c].id, nonce |-> Larger(pending, AboveReserved(c)), by |-> c]
          IN  /\ Save(c, [intent |-> job[c].intent, tx |-> tx, status |-> "signed"])
              /\ signed' = signed \cup {tx}
    /\ pc' = [pc EXCEPT ![c] = "signed"]
    /\ UNCHANGED <<lock, job, todo, chain>>

(* A node refuses a nonce it has mined or holds for another transaction. *)
NodeAccepts(tx) == tx.nonce >= NextMined /\ \A other \in sent : other.nonce # tx.nonce

Broadcast(c) ==
    LET tx == local[c][job[c].id].tx IN
    /\ pc[c] = "signed"
    /\ Scheduled(c)
    /\ \/ /\ NodeAccepts(tx)                    \* acknowledged
          /\ sent' = sent \cup {tx}
          /\ pc' = [pc EXCEPT ![c] = "sent"]
          /\ UNCHANGED lock
       \/ /\ NodeAccepts(tx)                    \* accepted, the answer is lost
          /\ sent' = sent \cup {tx}
          /\ Leave(c)
       \/ UNCHANGED sent /\ Leave(c)            \* refused, or never arrived
    /\ UNCHANGED <<journal, torn, local, job, todo, signed, mined>>

MarkBroadcast(c) ==
    /\ pc[c] = "sent"
    /\ Scheduled(c)
    /\ Save(c, [local[c][job[c].id] EXCEPT !.status = "broadcast"])
    /\ pc' = [pc EXCEPT ![c] = "observing"]
    /\ UNCHANGED <<lock, job, todo, signed, chain>>

(* canonicalReceipt returns the receipt of this hash from a mined block. *)
Observe(c) ==
    LET entry == local[c][job[c].id] IN
    /\ pc[c] = "observing"
    /\ Scheduled(c)
    /\ \E i \in 1..Len(mined) :
          /\ mined[i].tx = entry.tx
          /\ Save(c, [entry EXCEPT !.status = mined[i].status])
          /\ IF mined[i].status = "success"
             THEN pc' = [pc EXCEPT ![c] = "open"] /\ UNCHANGED lock
             ELSE Leave(c)
    /\ UNCHANGED <<job, todo, signed, chain>>

Mutant_ObserveAgain(c) == pc[c] = "observing" /\ Scheduled(c) /\ UNCHANGED vars

(* ... or gives up after its deadline. *)
ObserveTimeout(c) ==
    /\ pc[c] = "observing"
    /\ Scheduled(c)
    /\ Leave(c)
    /\ UNCHANGED <<journal, torn, local, job, todo, signed, chain>>

(* SIGKILL, power loss: nothing runs the exit handler, the lock file stays.
   writeFileSync truncates before it writes. *)
Saving(c) == pc[c] \in {"reserving", "sent", "observing"}

Kill(h) ==
    /\ \E c \in Contexts : HostOf[c] = h /\ Live(c)
    /\ pc' = [c \in Contexts |-> IF HostOf[c] = h /\ Live(c) THEN "dead" ELSE pc[c]]
    /\ \/ UNCHANGED torn
       \/ (\E c \in Contexts : HostOf[c] = h /\ Saving(c)) /\ torn' = TRUE
    /\ UNCHANGED <<journal, lock, local, job, todo, signed, chain>>

(* docs/operations.md: "remove a stale lock only after proving no sender
   still uses it". *)
ClearStaleLock ==
    /\ lock # None
    /\ pc[lock] = "dead"
    /\ lock' = None
    /\ UNCHANGED <<journal, torn, pc, local, job, todo, signed, chain>>

(* The chain takes the submitter's transactions in nonce order. *)
Mine ==
    /\ \E tx \in sent, status \in {"success", "reverted"} :
          /\ tx.nonce = NextMined
          /\ mined' = Append(mined, [tx |-> tx, status |-> status])
    /\ UNCHANGED <<journal, torn, lock, pc, local, job, todo, signed, sent>>

Step(c) ==
    \/ ReadJournal(c) \/ AcquireLock(c) \/ Release(c)
    \/ \E j \in Job : Transact(c, j)
    \/ Reserve(c) \/ Broadcast(c) \/ MarkBroadcast(c)
    \/ Observe(c) \/ ObserveTimeout(c)

Next ==
    \/ \E c \in Contexts : Step(c)
    \/ \E h \in Hosts : Kill(h)
    \/ ClearStaleLock
    \/ Mine

(* A context that runs reaches the end of its awaits: every RPC has a timeout
   and canonicalReceipt a deadline.  Nothing obliges the chain to mine, an
   operator to clear a lock or a command to be started. *)
Fairness == \A c \in Contexts : WF_vars(Live(c) /\ Step(c))

Spec == Init /\ [][Next]_vars /\ Fairness
-------------------------------------------------------------------------------
TypeOK ==
    /\ journal \in Journal
    /\ torn \in BOOLEAN
    /\ lock \in Contexts \cup {None}
    /\ pc \in [Contexts -> PC]
    /\ local \in [Contexts -> Journal]
    /\ job \in [Contexts -> Job \cup {None}]
    /\ todo \in [Contexts -> SUBSET Job]
    /\ signed \in SUBSET Tx
    /\ sent \in SUBSET signed
    /\ mined \in Seq([tx : Tx, status : {"success", "reverted"}])

(* live-context.ts: "A lock prevents another local process from reserving the
   same submitter nonce while an RPC response is stale." *)
NonceReservedOnce ==
    \A t, u \in signed : t.nonce = u.nonce => t = u

(* Whatever was killed, lost or timed out before, one journal id never
   becomes two transactions. *)
OneTransactionPerId ==
    \A t, u \in signed : t.id = u.id => t = u

(* A transaction the node may mine is in the journal file, unless the file
   was cut short by a kill, which every later reader notices. *)
SentIsJournalled ==
    torn \/ \A tx \in sent : journal[tx.id] # None /\ journal[tx.id].tx = tx

(* The journal never contradicts the chain and never forgets an outcome it
   recorded, however old the copy a context works from. *)
OutcomeKept ==
    [][\A id \in Ids :
          (journal[id] # None /\ journal[id].status \in {"success", "reverted"})
          => journal'[id] = journal[id]]_vars

(* No context keeps the submitter's lock for ever unless it was killed. *)
LockIsReleased ==
    \A c \in Contexts : (lock = c) ~> (lock # c \/ pc[c] = "dead")
===============================================================================
