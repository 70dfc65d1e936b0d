----------------------- MODULE SubmitterJournalProofs -----------------------
(***************************************************************************)
(* Theorems about the journal of one submitter, for any number of          *)
(* contexts, ids and calls, when one process opens every context (the      *)
(* reference server).  Contexts of two processes break them: see the run   *)
(* over SubmitterJournalTwoHosts.cfg.                                      *)
(***************************************************************************)
EXTENDS SubmitterJournal, SequenceTheorems, TLAPS

OneHost == \A c, d \in Contexts : HostOf[c] = HostOf[d]

Holding(c) == pc[c] \in {"open", "reserving", "signed", "sent", "observing"}
Called(c) == pc[c] \in {"reserving", "signed", "sent", "observing"}

(* Every journalled transaction is under its own id. *)
KeysInv ==
    \A id \in Ids : journal[id] # None => journal[id].tx.id = id /\ journal[id].tx \in signed

(* Nothing is signed that the journal does not know. *)
SignedInv ==
    \A tx \in signed : journal[tx.id] # None /\ journal[tx.id].tx = tx

(* No two entries share a nonce, and one of them is the highest. *)
NonceInv ==
    \A id \in Ids : journal[id] # None =>
        \E top \in Ids : journal[top] # None
            /\ \A i \in Ids : journal[i] # None => journal[i].tx.nonce <= journal[top].tx.nonce

(* The context with the lock works on a copy that is the file, and while a
   context is between reading and locking no other moves. *)
CopyInv ==
    \A c \in Contexts :
        /\ Holding(c) => lock = c /\ local[c] = journal
        /\ pc[c] = "read" => local[c] = journal
        /\ torn => ~Live(c)

OneReader == \A c, d \in Contexts : pc[c] = "read" /\ pc[d] = "read" => c = d

(* What a call knows of its own entry at each step. *)
CallInv ==
    \A c \in Contexts : Called(c) =>
        /\ job[c] \in Job
        /\ pc[c] = "reserving" => journal[job[c].id] = None
        /\ pc[c] # "reserving" => journal[job[c].id] # None
        /\ pc[c] \in {"signed", "sent"} => journal[job[c].id].status = "signed"

(* The chain holds one transaction per nonce, and a recorded outcome is the
   chain's. *)
ChainInv ==
    /\ \A i \in 1..Len(mined) : mined[i].tx.nonce = i - 1
    /\ \A id \in Ids :
          (journal[id] # None /\ journal[id].status \in {"success", "reverted"}) =>
          \E i \in 1..Len(mined) : mined[i] = [tx |-> journal[id].tx, status |-> journal[id].status]

IInv ==
    /\ TypeOK
    /\ KeysInv
    /\ SignedInv
    /\ NonceInv
    /\ NonceReservedOnce
    /\ CopyInv
    /\ OneReader
    /\ CallInv
    /\ ChainInv
-----------------------------------------------------------------------------
LEMMA InitIInv == Init => IInv
<1> SUFFICES ASSUME Init PROVE IInv
  OBVIOUS
<1> USE DEF Init
<1>1. TypeOK
  <2>1. journal \in Journal /\ local \in [Contexts -> Journal] /\ pc \in [Contexts -> PC]
    BY DEF Journal, PC
  <2>2. /\ torn \in BOOLEAN /\ lock \in Contexts \cup {None}
        /\ job \in [Contexts -> Job \cup {None}] /\ todo \in [Contexts -> SUBSET Job]
    BY WorkAssumption
  <2>3. signed \in SUBSET Tx /\ sent \in SUBSET signed
    OBVIOUS
  <2>4. mined \in Seq([tx : Tx, status : {"success", "reverted"}])
    OBVIOUS
  <2>5. QED
    BY <2>1, <2>2, <2>3, <2>4 DEF TypeOK
<1>2. KeysInv /\ SignedInv /\ NonceInv /\ NonceReservedOnce
  BY DEF KeysInv, SignedInv, NonceInv, NonceReservedOnce
<1>3. CopyInv /\ OneReader /\ CallInv
  BY DEF CopyInv, OneReader, CallInv, Holding, Called, Live
<1>4. ChainInv
  BY DEF ChainInv
<1>5. QED
  BY <1>1, <1>2, <1>3, <1>4 DEF IInv

(* Saving replaces one entry of the context's copy, and the file is that
   copy afterwards. *)
LEMMA SaveEffect ==
    ASSUME TypeOK, NEW c \in Contexts, job[c] \in Job, NEW entry \in Entry, Save(c, entry)
    PROVE  /\ journal' \in Journal
           /\ local' \in [Contexts -> Journal]
           /\ local'[c] = journal'
           /\ \A d \in Contexts \ {c} : local'[d] = local[d]
           /\ \A id \in Ids : journal'[id] = IF id = job[c].id THEN entry ELSE local[c][id]
           /\ torn' = FALSE
<1>1. job[c].id \in Ids
  BY DEF Job
<1>2. local[c] \in Journal
  BY DEF TypeOK
<1>3. local' = [local EXCEPT ![c] = [local[c] EXCEPT ![job[c].id] = entry]]
  BY DEF Save
<1>4. local'[c] = [local[c] EXCEPT ![job[c].id] = entry]
  BY <1>3 DEF TypeOK
<1>5. journal' = local'[c] /\ torn' = FALSE
  BY DEF Save
<1>6. journal' \in Journal
  BY <1>1, <1>2, <1>4, <1>5 DEF Journal
<1>7. \A id \in Ids : journal'[id] = IF id = job[c].id THEN entry ELSE local[c][id]
  BY <1>1, <1>2, <1>4, <1>5 DEF Journal
<1>8. local' \in [Contexts -> Journal] /\ \A d \in Contexts \ {c} : local'[d] = local[d]
  BY <1>3, <1>4, <1>5, <1>6 DEF TypeOK
<1>9. QED
  BY <1>5, <1>6, <1>7, <1>8

(* A new nonce is a natural number above every nonce the copy knows. *)
LEMMA AboveAll ==
    ASSUME IInv, NEW c \in Contexts, Holding(c)
    PROVE  /\ AboveReserved(c) \in Nat
           /\ \A id \in Ids : journal[id] # None => journal[id].tx.nonce < AboveReserved(c)
<1> USE DEF IInv
<1>1. local[c] = journal
  BY DEF CopyInv
<1>2. \A id \in Ids : journal[id] # None => journal[id].tx.nonce \in Nat
  BY DEF TypeOK, Journal, Entry, Tx
<1>3. Reserved(c) = {journal[id].tx.nonce : id \in {i \in Ids : journal[i] # None}}
  BY <1>1 DEF Reserved
<1>4. CASE Reserved(c) = {}
  BY <1>3, <1>4 DEF AboveReserved
<1>5. CASE Reserved(c) # {}
  <2> DEFINE Top(n) == n \in Reserved(c) /\ \A m \in Reserved(c) : m <= n
  <2>1. \E n : Top(n)
    BY <1>3, <1>5 DEF NonceInv
  <2>2. Top(CHOOSE n : Top(n))
    BY <2>1
  <2>3. PICK top \in Reserved(c) :
            /\ top = CHOOSE n \in Reserved(c) : \A m \in Reserved(c) : m <= n
            /\ \A m \in Reserved(c) : m <= top
    BY <2>1, <2>2
  <2>4. AboveReserved(c) = 1 + top
    BY <1>5, <2>3 DEF AboveReserved
  <2>5. top \in Nat
    BY <1>2, <1>3
  <2>6. \A id \in Ids : journal[id] # None => journal[id].tx.nonce <= top
    BY <1>3, <2>3
  <2>7. QED
    BY <1>2, <2>4, <2>5, <2>6
<1>6. QED
  BY <1>4, <1>5
-----------------------------------------------------------------------------
(* A step that leaves the file, the signatures and the chain alone keeps what
   is said about them. *)
LEMMA FileKept ==
    ASSUME IInv, UNCHANGED <<journal, signed, mined>>
    PROVE  (KeysInv /\ SignedInv /\ NonceInv /\ NonceReservedOnce /\ ChainInv)'
  BY DEF IInv, KeysInv, SignedInv, NonceInv, NonceReservedOnce, ChainInv

LEMMA ReadJournalIInv ==
    ASSUME IInv, OneHost, NEW c \in Contexts, ReadJournal(c)
    PROVE  IInv'
<1> USE DEF IInv, ReadJournal, chain
<1>1. TypeOK'
  BY DEF TypeOK, PC
<1>2. CopyInv'
  BY DEF CopyInv, Holding, Live, TypeOK
<1>3. OneReader'
  BY DEF OneReader, Scheduled, OneHost, TypeOK
<1>4. CallInv'
  BY DEF CallInv, Called, TypeOK
<1>5. QED
  BY <1>1, <1>2, <1>3, <1>4, FileKept

LEMMA AcquireLockIInv ==
    ASSUME IInv, NEW c \in Contexts, AcquireLock(c)
    PROVE  IInv'
<1> USE NoneAssumption DEF IInv, AcquireLock, chain
<1>1. TypeOK'
  BY DEF TypeOK, PC
<1>2. CopyInv'
  BY DEF CopyInv, Holding, Live, TypeOK
<1>3. OneReader'
  BY DEF OneReader, TypeOK
<1>4. CallInv'
  BY DEF CallInv, Called, TypeOK
<1>5. QED
  BY <1>1, <1>2, <1>3, <1>4, FileKept

(* Leaving frees the lock the context holds. *)
LEMMA LeaveIInv ==
    ASSUME IInv, NEW c \in Contexts, Holding(c), Leave(c),
           job' \in [Contexts -> Job \cup {None}], todo' \in [Contexts -> SUBSET Job],
           \A d \in Contexts \ {c} : job'[d] = job[d],
           sent' \in SUBSET signed,
           UNCHANGED <<journal, torn, local, signed, mined>>
    PROVE  IInv'
<1> USE DEF IInv, Leave
<1>1. TypeOK'
  BY DEF TypeOK, PC
<1>2. CopyInv'
  BY DEF CopyInv, Holding, Live, TypeOK
<1>3. OneReader'
  BY DEF OneReader, TypeOK
<1>4. CallInv'
  BY DEF CallInv, Called, TypeOK
<1>5. QED
  BY <1>1, <1>2, <1>3, <1>4, FileKept

LEMMA ReleaseIInv ==
    ASSUME IInv, NEW c \in Contexts, Release(c) \/ ObserveTimeout(c)
    PROVE  IInv'
  BY LeaveIInv DEF Release, ObserveTimeout, chain, Holding, IInv, TypeOK

LEMMA TransactIInv ==
    ASSUME IInv, NEW c \in Contexts, NEW j \in Job, Transact(c, j)
    PROVE  IInv'
<1> DEFINE known == local[c][j.id]
<1> USE DEF IInv
<1>1. Holding(c) /\ local[c] = journal
  BY DEF Transact, CopyInv, Holding
<1>2. /\ job' = [job EXCEPT ![c] = j]
      /\ todo' = [todo EXCEPT ![c] = @ \ {j}]
      /\ UNCHANGED <<journal, torn, local, signed, sent, mined>>
  BY DEF Transact, chain
<1>3. /\ job' \in [Contexts -> Job \cup {None}]
      /\ todo' \in [Contexts -> SUBSET Job]
      /\ job'[c] = j
      /\ \A d \in Contexts \ {c} : job'[d] = job[d]
  BY <1>2 DEF TypeOK
<1>4. CASE Leave(c)
  BY <1>1, <1>2, <1>3, <1>4, LeaveIInv DEF TypeOK
<1>5. CASE /\ UNCHANGED lock
           /\ \/ known # None /\ pc' = [pc EXCEPT ![c] = "observing"]
              \/ known = None /\ pc' = [pc EXCEPT ![c] = "reserving"]
  <2>1. TypeOK'
    BY <1>2, <1>3, <1>5 DEF TypeOK, PC
  <2>2. CopyInv'
    BY <1>1, <1>2, <1>5 DEF CopyInv, Holding, Live, TypeOK
  <2>3. OneReader'
    BY <1>5 DEF OneReader, TypeOK
  <2>4. CallInv'
    BY <1>1, <1>2, <1>3, <1>5 DEF CallInv, Called, TypeOK
  <2>5. QED
    BY <1>2, <2>1, <2>2, <2>3, <2>4, FileKept
<1>6. QED
  BY <1>4, <1>5 DEF Transact

LEMMA BroadcastIInv ==
    ASSUME IInv, NEW c \in Contexts, Broadcast(c)
    PROVE  IInv'
<1> DEFINE tx == local[c][job[c].id].tx
<1> USE DEF IInv
<1>1. Holding(c) /\ Called(c) /\ local[c] = journal /\ UNCHANGED <<journal, torn, local, job, todo, signed, mined>>
  BY DEF Broadcast, CopyInv, Holding, Called
<1>2. tx \in signed
  BY <1>1 DEF Broadcast, CallInv, KeysInv, Job
<1>3. sent' \in SUBSET signed
  BY <1>2 DEF Broadcast, TypeOK
<1>4. CASE Leave(c)
  BY <1>1, <1>3, <1>4, LeaveIInv DEF TypeOK
<1>5. CASE pc' = [pc EXCEPT ![c] = "sent"] /\ UNCHANGED lock
  <2>1. TypeOK'
    BY <1>1, <1>3, <1>5 DEF TypeOK, PC
  <2>2. CopyInv'
    BY <1>1, <1>5 DEF CopyInv, Holding, Live, TypeOK
  <2>3. OneReader'
    BY <1>5 DEF OneReader, TypeOK
  <2>4. CallInv'
    BY <1>1, <1>5 DEF CallInv, Called, Broadcast, TypeOK
  <2>5. QED
    BY <1>1, <2>1, <2>2, <2>3, <2>4, FileKept
<1>6. QED
  BY <1>4, <1>5 DEF Broadcast

(* One kill takes every context of the one process with it. *)
LEMMA KillIInv ==
    ASSUME IInv, OneHost, NEW h \in Hosts, Kill(h)
    PROVE  IInv'
<1> USE DEF IInv
<1>1. \A c \in Contexts : HostOf[c] = h
  BY DEF Kill, OneHost
<1>2. pc' = [c \in Contexts |-> IF Live(c) THEN "dead" ELSE pc[c]]
      /\ UNCHANGED <<journal, lock, local, job, todo, signed, sent, mined>>
  BY <1>1 DEF Kill, chain
<1>3. torn' \in BOOLEAN
  BY DEF Kill, TypeOK
<1>4. \A c \in Contexts : pc'[c] \in {"idle", "done", "dead"}
  BY <1>2 DEF Live
<1>5. TypeOK'
  BY <1>2, <1>3, <1>4 DEF TypeOK, PC
<1>6. (CopyInv /\ OneReader /\ CallInv)'
  BY <1>4 DEF CopyInv, OneReader, CallInv, Holding, Called, Live
<1>7. QED
  BY <1>2, <1>5, <1>6, FileKept

LEMMA ClearStaleLockIInv ==
    ASSUME IInv, ClearStaleLock
    PROVE  IInv'
<1> USE DEF IInv, ClearStaleLock, chain
<1>1. TypeOK'
  BY DEF TypeOK
<1>2. (CopyInv /\ OneReader /\ CallInv)'
  BY DEF CopyInv, OneReader, CallInv, Holding, Called, Live
<1>3. QED
  BY <1>1, <1>2, FileKept

LEMMA MineIInv ==
    ASSUME IInv, Mine
    PROVE  IInv'
<1> USE DEF IInv
<1>1. PICK tx \in sent, status \in {"success", "reverted"} :
          tx.nonce = Len(mined) /\ mined' = Append(mined, [tx |-> tx, status |-> status])
  BY DEF Mine, NextMined
<1>2. UNCHANGED <<journal, torn, lock, pc, local, job, todo, signed, sent>>
  BY DEF Mine
<1>3. tx \in Tx /\ mined \in Seq([tx : Tx, status : {"success", "reverted"}])
  BY DEF TypeOK
<1>4. mined' \in Seq([tx : Tx, status : {"success", "reverted"}])
  BY <1>1, <1>3
<1>5. TypeOK'
  BY <1>2, <1>4 DEF TypeOK
<1>6. (KeysInv /\ SignedInv /\ NonceInv /\ NonceReservedOnce /\ CopyInv /\ OneReader /\ CallInv)'
  BY <1>2 DEF KeysInv, SignedInv, NonceInv, NonceReservedOnce, CopyInv, OneReader, CallInv,
      Holding, Called, Live
<1>7. /\ Len(mined') = Len(mined) + 1
      /\ \A i \in 1..Len(mined) : mined'[i] = mined[i]
      /\ mined'[Len(mined) + 1] = [tx |-> tx, status |-> status]
  BY <1>1, <1>3
<1>8. ChainInv'
  BY <1>1, <1>2, <1>3, <1>7 DEF ChainInv
<1>9. QED
  BY <1>5, <1>6, <1>8
-----------------------------------------------------------------------------
(* After a save the context that saved works on the file; no other holds the
   lock, and none is about to take it. *)
LEMMA SavedCopy ==
    ASSUME IInv, OneHost, NEW c \in Contexts, Holding(c), Scheduled(c),
           journal' = local'[c], torn' = FALSE,
           NEW at \in PC \ {"read"}, pc' = [pc EXCEPT ![c] = at],
           lock' = lock \/ (lock' = None /\ at = "done")
    PROVE  (CopyInv /\ OneReader)'
<1> USE DEF IInv
<1>1. lock = c /\ \A d \in Contexts \ {c} : ~Holding(d) /\ pc[d] # "read"
  BY DEF CopyInv, Scheduled, OneHost
<1>2. pc'[c] = at /\ \A d \in Contexts \ {c} : pc'[d] = pc[d]
  BY DEF TypeOK
<1>3. \A d \in Contexts : pc'[d] # "read" /\ (Holding(d)' => d = c /\ lock' = c)
  BY <1>1, <1>2 DEF Holding
<1>4. QED
  BY <1>3 DEF CopyInv, OneReader

(* Saving another status of a journalled transaction. *)
LEMMA StatusSaved ==
    ASSUME IInv, NEW c \in Contexts, Holding(c), job[c] \in Job,
           journal[job[c].id] # None,
           NEW entry \in Entry, entry.tx = journal[job[c].id].tx,
           Save(c, entry), UNCHANGED signed
    PROVE  (KeysInv /\ SignedInv /\ NonceInv /\ NonceReservedOnce)'
<1> USE NoneAssumption DEF IInv
<1>1. local[c] = journal
  BY DEF CopyInv
<1>2. \A id \in Ids : journal'[id] = IF id = job[c].id THEN entry ELSE journal[id]
  BY <1>1, SaveEffect
<1>3. job[c].id \in Ids /\ entry # None
  BY DEF Job
<1>4. \A id \in Ids :
          /\ journal'[id] # None <=> journal[id] # None
          /\ journal[id] # None => journal'[id].tx = journal[id].tx
  BY <1>2, <1>3
<1>5. KeysInv'
  BY <1>4 DEF KeysInv
<1>6. \A tx \in signed : tx.id \in Ids
  BY DEF TypeOK, Tx
<1>7. SignedInv'
  BY <1>4, <1>6 DEF SignedInv
<1>8. NonceInv'
  BY <1>4 DEF NonceInv
<1>9. QED
  BY <1>5, <1>7, <1>8 DEF NonceReservedOnce

LEMMA MarkBroadcastIInv ==
    ASSUME IInv, OneHost, NEW c \in Contexts, MarkBroadcast(c)
    PROVE  IInv'
<1> DEFINE entry == [local[c][job[c].id] EXCEPT !.status = "broadcast"]
<1> USE DEF IInv
<1>1. /\ Holding(c) /\ Called(c) /\ Scheduled(c) /\ local[c] = journal
      /\ Save(c, entry)
      /\ pc' = [pc EXCEPT ![c] = "observing"]
      /\ UNCHANGED <<lock, job, todo, signed, sent, mined>>
  BY DEF MarkBroadcast, CopyInv, Holding, Called, chain
<1>2. job[c] \in Job /\ job[c].id \in Ids /\ journal[job[c].id] # None
  BY <1>1 DEF MarkBroadcast, CallInv, Job
<1>3. journal[job[c].id] \in Entry
  BY <1>2 DEF TypeOK, Journal
<1>4. entry \in Entry /\ entry.tx = journal[job[c].id].tx /\ entry.status = "broadcast"
  BY <1>1, <1>3 DEF Entry, Statuses
<1>5. /\ journal' \in Journal /\ local' \in [Contexts -> Journal]
      /\ journal' = local'[c] /\ torn' = FALSE
      /\ \A id \in Ids : journal'[id] = IF id = job[c].id THEN entry ELSE journal[id]
  BY <1>1, <1>2, <1>4, SaveEffect
<1>6. TypeOK'
  BY <1>1, <1>5 DEF TypeOK, PC
<1>7. (KeysInv /\ SignedInv /\ NonceInv /\ NonceReservedOnce)'
  BY <1>1, <1>2, <1>4, StatusSaved
<1>8. (CopyInv /\ OneReader)'
  BY <1>1, <1>5, SavedCopy DEF PC
<1>9. CallInv'
  <2>1. \A d \in Contexts \ {c} : ~Called(d)'
    BY <1>1 DEF CopyInv, Holding, Called, TypeOK
  <2>2. pc'[c] = "observing" /\ journal'[job[c].id] # None
    BY <1>1, <1>2, <1>4, <1>5, NoneAssumption DEF TypeOK
  <2>3. QED
    BY <1>1, <1>2, <2>1, <2>2 DEF CallInv
<1> HIDE DEF entry
<1>10. ChainInv'
  BY <1>1, <1>4, <1>5 DEF ChainInv
<1>11. QED
  BY <1>6, <1>7, <1>8, <1>9, <1>10

(* What an observation records is what the chain says. *)
LEMMA ObserveIInv ==
    ASSUME IInv, OneHost, NEW c \in Contexts, Observe(c)
    PROVE  IInv'
<1> USE DEF IInv
<1>1. /\ Holding(c) /\ Called(c) /\ Scheduled(c) /\ local[c] = journal
      /\ UNCHANGED <<job, todo, signed, sent, mined>>
  BY DEF Observe, CopyInv, Holding, Called, chain
<1>2. job[c] \in Job /\ job[c].id \in Ids /\ journal[job[c].id] # None
  BY <1>1 DEF Observe, CallInv, Job
<1>3. journal[job[c].id] \in Entry
  BY <1>2 DEF TypeOK, Journal
<1>4. PICK i \in 1..Len(mined) :
          /\ mined[i].tx = journal[job[c].id].tx
          /\ Save(c, [journal[job[c].id] EXCEPT !.status = mined[i].status])
          /\ IF mined[i].status = "success"
             THEN pc' = [pc EXCEPT ![c] = "open"] /\ UNCHANGED lock
             ELSE Leave(c)
  BY <1>1 DEF Observe
<1> DEFINE entry == [journal[job[c].id] EXCEPT !.status = mined[i].status]
<1>5. mined[i] \in [tx : Tx, status : {"success", "reverted"}]
  <2>1. mined \in Seq([tx : Tx, status : {"success", "reverted"}])
    BY DEF TypeOK
  <2>2. QED
    BY <2>1, ElementOfSeq
<1>6. /\ entry \in Entry
      /\ entry.tx = journal[job[c].id].tx
      /\ mined[i] = [tx |-> entry.tx, status |-> entry.status]
  BY <1>3, <1>4, <1>5 DEF Entry, Statuses
<1>7. Save(c, entry)
  BY <1>4
<1> HIDE DEF entry
<1>8. /\ journal' \in Journal /\ local' \in [Contexts -> Journal]
      /\ journal' = local'[c] /\ torn' = FALSE
      /\ \A id \in Ids : journal'[id] = IF id = job[c].id THEN entry ELSE journal[id]
  BY <1>1, <1>2, <1>6, <1>7, SaveEffect
<1>9. PICK at \in {"open", "done"} :
          /\ pc' = [pc EXCEPT ![c] = at]
          /\ lock' = lock \/ (lock' = None /\ at = "done")
  BY <1>4 DEF Leave
<1>10. TypeOK'
  BY <1>1, <1>8, <1>9 DEF TypeOK, PC
<1>11. (KeysInv /\ SignedInv /\ NonceInv /\ NonceReservedOnce)'
  BY <1>1, <1>2, <1>6, <1>7, StatusSaved
<1>12. (CopyInv /\ OneReader)'
  BY <1>1, <1>8, <1>9, SavedCopy DEF PC
<1>13. CallInv'
  BY <1>1, <1>9 DEF CopyInv, CallInv, Holding, Called, TypeOK
<1>14. ChainInv'
  <2>1. \A id \in Ids \ {job[c].id} : journal'[id] = journal[id]
    BY <1>8
  <2>2. journal'[job[c].id] = entry
    BY <1>2, <1>8
  <2>3. QED
    BY <1>1, <1>6, <2>1, <2>2 DEF ChainInv
<1>15. QED
  BY <1>10, <1>11, <1>12, <1>13, <1>14

LEMMA ReserveIInv ==
    ASSUME IInv, OneHost, NEW c \in Contexts, Reserve(c)
    PROVE  IInv'
<1> USE DEF IInv
<1>1. /\ Holding(c) /\ Called(c) /\ Scheduled(c) /\ local[c] = journal
      /\ pc' = [pc EXCEPT ![c] = "signed"]
      /\ UNCHANGED <<lock, job, todo, sent, mined>>
  BY DEF Reserve, CopyInv, Holding, Called, chain
<1>2. job[c] \in Job /\ job[c].id \in Ids /\ job[c].intent \in Intents /\ journal[job[c].id] = None
  BY <1>1 DEF Reserve, CallInv, Job
<1>3. PICK pending \in 0..PendingCount :
          LET tx == [id |-> job[c].id, nonce |-> Larger(pending, AboveReserved(c)), by |-> c]
          IN  /\ Save(c, [intent |-> job[c].intent, tx |-> tx, status |-> "signed"])
              /\ signed' = signed \cup {tx}
  BY DEF Reserve
<1> DEFINE tx == [id |-> job[c].id, nonce |-> Larger(pending, AboveReserved(c)), by |-> c]
           entry == [intent |-> job[c].intent, tx |-> tx, status |-> "signed"]
<1>4. pending \in Nat
  OBVIOUS
<1>5. /\ tx.nonce \in Nat
      /\ \A id \in Ids : journal[id] # None => journal[id].tx.nonce < tx.nonce
  <2>1. \A id \in Ids : journal[id] # None => journal[id].tx.nonce \in Nat
    BY DEF TypeOK, Journal, Entry, Tx
  <2>2. QED
    BY <1>1, <1>4, <2>1, AboveAll DEF Larger
<1>6. tx \in Tx /\ entry \in Entry /\ entry # None
  BY <1>2, <1>5, NoneAssumption DEF Tx, Entry, Statuses
<1>7. Save(c, entry) /\ signed' = signed \cup {tx}
  BY <1>3
<1>8. /\ journal' \in Journal /\ local' \in [Contexts -> Journal]
      /\ journal' = local'[c] /\ torn' = FALSE
      /\ \A id \in Ids : journal'[id] = IF id = job[c].id THEN entry ELSE journal[id]
  BY <1>1, <1>2, <1>6, <1>7, SaveEffect
<1> HIDE DEF entry
<1>9. entry.tx = tx /\ entry.status = "signed"
  BY DEF entry
<1>10. TypeOK'
  BY <1>1, <1>6, <1>7, <1>8 DEF TypeOK, PC
<1>11. KeysInv'
  BY <1>7, <1>8, <1>9 DEF KeysInv
<1>12. SignedInv'
  <2>1. \A u \in signed : u.id \in Ids /\ u.id # job[c].id
    BY <1>2 DEF SignedInv, TypeOK, Tx
  <2>2. QED
    BY <1>2, <1>6, <1>7, <1>8, <1>9, <2>1 DEF SignedInv
<1>13. NonceInv'
  <2>1. \A id \in Ids : journal'[id] # None => journal'[id].tx.nonce <= tx.nonce
    <3>1. journal'[job[c].id].tx.nonce <= tx.nonce
      BY <1>2, <1>5, <1>8, <1>9
    <3>2. \A id \in Ids : journal[id] # None => journal[id].tx.nonce <= tx.nonce
      <4>1. \A id \in Ids : journal[id] # None => journal[id].tx.nonce \in Nat
        BY DEF TypeOK, Journal, Entry, Tx
      <4>2. QED
        BY <1>5, <4>1
    <3> HIDE DEF tx
    <3>3. QED
      BY <1>2, <1>8, <3>1, <3>2
  <2>2. QED
    BY <1>2, <1>6, <1>8, <1>9, <2>1 DEF NonceInv
<1>14. NonceReservedOnce'
  <2>1. \A u \in signed : u.nonce # tx.nonce
    BY <1>5 DEF SignedInv, TypeOK, Tx
  <2>2. QED
    BY <1>7, <2>1 DEF NonceReservedOnce
<1>15. (CopyInv /\ OneReader)'
  BY <1>1, <1>8, SavedCopy DEF PC
<1>16. CallInv'
  <2>1. \A d \in Contexts \ {c} : ~Called(d)'
    BY <1>1 DEF CopyInv, Holding, Called, TypeOK
  <2>2. pc'[c] = "signed" /\ journal'[job[c].id] # None /\ journal'[job[c].id].status = "signed"
    BY <1>1, <1>2, <1>6, <1>8, <1>9 DEF TypeOK
  <2>3. QED
    BY <1>1, <1>2, <2>1, <2>2 DEF CallInv
<1>17. ChainInv'
  BY <1>1, <1>8, <1>9 DEF ChainInv
<1>18. QED
  BY <1>10, <1>11, <1>12, <1>13, <1>14, <1>15, <1>16, <1>17
-----------------------------------------------------------------------------
LEMMA NextIInv ==
    ASSUME IInv, OneHost, [Next]_vars
    PROVE  IInv'
<1>1. ASSUME NEW c \in Contexts, Step(c) PROVE IInv'
  BY <1>1, ReadJournalIInv, AcquireLockIInv, ReleaseIInv, TransactIInv, ReserveIInv,
     BroadcastIInv, MarkBroadcastIInv, ObserveIInv DEF Step
<1>2. CASE UNCHANGED vars
  <2>1. (TypeOK /\ CopyInv /\ OneReader /\ CallInv)'
    BY <1>2 DEF vars, chain, IInv, TypeOK, CopyInv, OneReader, CallInv, Holding, Called, Live
  <2>2. QED
    BY <1>2, <2>1, FileKept DEF vars, IInv
<1>3. QED
  BY <1>1, <1>2, KillIInv, ClearStaleLockIInv, MineIInv DEF Next

LEMMA Inductive == OneHost /\ Spec => []IInv
<1>1. OneHost /\ IInv /\ [Next]_vars => IInv'
  BY NextIInv
<1>2. OneHost => OneHost'
  BY DEF OneHost
<1>3. QED
  BY <1>1, <1>2, InitIInv, PTL DEF Spec

(* The file, the copies, the lock and the chain keep their shapes. *)
THEOREM TypeCorrect == OneHost /\ Spec => []TypeOK
<1>1. IInv => TypeOK
  BY DEF IInv
<1>2. QED
  BY <1>1, Inductive, PTL

(* In one process no nonce is signed for two transactions: the lock keeps the
   journal copy from going stale between the read and the reservation, and the
   copy's highest nonce outbids any stale pending count. *)
THEOREM NonceOnce == OneHost /\ Spec => []NonceReservedOnce
<1>1. IInv => NonceReservedOnce
  BY DEF IInv
<1>2. QED
  BY <1>1, Inductive, PTL

(* However often an id is asked for, after kills, lost answers and timeouts, it
   is signed once. *)
THEOREM OnePerId == OneHost /\ Spec => []OneTransactionPerId
<1>1. IInv => OneTransactionPerId
  BY DEF IInv, SignedInv, OneTransactionPerId
<1>2. QED
  BY <1>1, Inductive, PTL

(* What the node may mine is in the file. *)
THEOREM Journalled == OneHost /\ Spec => []SentIsJournalled
<1>1. IInv => SentIsJournalled
  BY DEF IInv, SignedInv, SentIsJournalled, TypeOK
<1>2. QED
  BY <1>1, Inductive, PTL

(* One step keeps every recorded outcome: a save replaces the entry of the
   context's own call, and an observation repeats what the chain says. *)
LEMMA StepKeepsOutcome ==
    ASSUME IInv, OneHost, [Next]_vars, NEW id \in Ids,
           journal[id] # None, journal[id].status \in {"success", "reverted"}
    PROVE  journal'[id] = journal[id]
<1> USE DEF IInv
<1>1. CASE UNCHANGED journal
  BY <1>1
<1>2. ASSUME NEW c \in Contexts, Reserve(c)
      PROVE  journal'[id] = journal[id]
  <2>1. Holding(c) /\ local[c] = journal /\ job[c] \in Job /\ journal[job[c].id] = None
    BY <1>2 DEF Reserve, CopyInv, CallInv, Holding, Called
  <2>2. PICK entry : Save(c, entry)
    BY <1>2 DEF Reserve
  <2>3. QED
    BY <2>1, <2>2 DEF Save, TypeOK, Journal, Job
<1>3. ASSUME NEW c \in Contexts, MarkBroadcast(c)
      PROVE  journal'[id] = journal[id]
  <2>1. Holding(c) /\ local[c] = journal /\ job[c] \in Job /\ journal[job[c].id].status = "signed"
    BY <1>3 DEF MarkBroadcast, CopyInv, CallInv, Holding, Called
  <2>2. PICK entry : Save(c, entry)
    BY <1>3 DEF MarkBroadcast
  <2>3. QED
    BY <2>1, <2>2 DEF Save, TypeOK, Journal, Job
<1>4. ASSUME NEW c \in Contexts, Observe(c)
      PROVE  journal'[id] = journal[id]
  <2>1. Holding(c) /\ local[c] = journal /\ job[c] \in Job
    BY <1>4 DEF Observe, CopyInv, CallInv, Holding, Called
  <2>2. PICK i \in 1..Len(mined) :
            /\ mined[i].tx = journal[job[c].id].tx
            /\ Save(c, [journal[job[c].id] EXCEPT !.status = mined[i].status])
    BY <1>4, <2>1 DEF Observe
  <2>3. CASE id # job[c].id
    BY <2>1, <2>2, <2>3 DEF Save, TypeOK, Journal, Job
  <2>4. CASE id = job[c].id
    <3>1. journal[id] \in Entry
      BY DEF TypeOK, Journal
    <3>2. PICK k \in 1..Len(mined) :
              mined[k] = [tx |-> journal[id].tx, status |-> journal[id].status]
      BY DEF ChainInv
    <3>3. i = k
      BY <2>2, <2>4, <3>2 DEF ChainInv
    <3>4. [journal[id] EXCEPT !.status = mined[i].status] = journal[id]
      BY <3>1, <3>2, <3>3 DEF Entry
    <3>5. journal'[id] = [journal[id] EXCEPT !.status = mined[i].status]
      BY <2>1, <2>2, <2>4 DEF Save, TypeOK, Journal, Job
    <3>6. QED
      BY <3>4, <3>5
  <2>5. QED
    BY <2>3, <2>4
<1>5. QED
  BY <1>1, <1>2, <1>3, <1>4
  DEF Next, Step, vars, ReadJournal, AcquireLock, Release, Transact, Broadcast, ObserveTimeout,
      Kill, ClearStaleLock, Mine

(* A recorded outcome is never overwritten. *)
THEOREM Kept == OneHost /\ Spec => OutcomeKept
<1>1. OneHost /\ IInv /\ [Next]_vars =>
        [\A id \in Ids :
            (journal[id] # None /\ journal[id].status \in {"success", "reverted"})
            => journal'[id] = journal[id]]_vars
  BY StepKeepsOutcome
<1>2. OneHost => OneHost'
  BY DEF OneHost
<1>3. QED
  BY <1>1, <1>2, Inductive, PTL DEF Spec, OutcomeKept
=============================================================================
