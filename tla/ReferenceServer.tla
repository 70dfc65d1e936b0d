--------------------------- MODULE ReferenceServer ---------------------------
(***************************************************************************)
(* scripts/reference-server.ts: the reference application's submissions.   *)
(*                                                                         *)
(* Requests interleave at their awaits.  An operation is identified by its *)
(* hash, which the wallet signed; the server tracks it in memory, keeps an *)
(* evidence file for it and hands it to an adapter.  A status request      *)
(* looks for its inclusion and amends the same record and file.  Memory    *)
(* changes before the file is written, and a write may fail, before or     *)
(* after the file was truncated.  A restart loses the memory and the       *)
(* requests under way and keeps the files.                                 *)
(***************************************************************************)
EXTENDS Naturals, FiniteSets

CONSTANTS
    Requests,       \* the request slots (active < 4)
    Sessions,       \* enrollment session ids, random and never reused
    Hashes,         \* operation hashes
    Asks,           \* the operations each session submits, and the route it asks for
    Modes,          \* "bundler" (public, private) and "direct"
    MaxSessions,    \* 100 in the code
    MaxOperations,  \* 1000 in the code
    MaxFaults,      \* bound on restarts and failing writes together
    None, Torn

Outcomes == {"success", "execution-reverted"}
Inclusions == Outcomes \cup {"transaction-reverted"}
Statuses == Inclusions \cup {"broadcast-result-unknown", "submitted"}
Record == [session : Sessions, mode : Modes, status : Statuses,
           submission : BOOLEAN, journal : BOOLEAN, by : Requests]
File == [session : Sessions, mode : Modes, status : Statuses,
         submission : BOOLEAN, inclusion : Inclusions \cup {None}]
Steps == {"state", "context", "submit", "answer", "adapter", "receipt"}
Request == [at : Steps, hash : Hashes, session : Sessions, mode : Modes, by : Requests]

ASSUME AsksAssumption == Asks \in [Sessions -> SUBSET (Hashes \X Modes)]
ASSUME BoundsAssumption ==
    /\ MaxSessions \in Nat /\ MaxOperations \in Nat \ {0} /\ MaxFaults \in Nat
    /\ IsFiniteSet(Requests)
    /\ Modes \subseteq {"bundler", "direct"}

ASSUME NoneAssumption ==
    /\ None \notin Record \cup File \cup Request \cup Inclusions
    /\ Torn \notin File \cup {None}

VARIABLES
    sessions,    \* sessions that have not expired
    opened,      \* sessions ever opened
    operations,  \* the operations Map: a record or None per hash
    files,       \* the evidence files: what persist() or /status wrote
    diverged,    \* history: operations a failed write set apart from their file
    faults,      \* restarts and failed writes so far
    req,         \* per slot: the request and the await it is at; by tells
                 \* which slot's submission made the record it holds
    submits,     \* per hash: how often an adapter was given the operation
    chain        \* per hash: its outcome in the chain

evidence == <<files, diverged, faults>>
vars == <<sessions, opened, operations, evidence, req, submits, chain>>

Tracked == {h \in Hashes : operations[h] # None}
Idle(r) == req[r] = None
At(r, step) == ~Idle(r) /\ req[r].at = step

(* The response goes out and the slot is free. *)
Respond(r) == req' = [req EXCEPT ![r] = None]
Await(r, step) == req' = [req EXCEPT ![r].at = step]

FileOf(record) ==
    [session |-> record.session, mode |-> record.mode, status |-> record.status,
     submission |-> record.submission, inclusion |-> None]
Readable(h) == files[h] \notin {None, Torn}

Mutant_PersistInMemory(h, record) ==
    /\ operations' = [operations EXCEPT ![h] = record]
    /\ files' = [files EXCEPT ![h] = IF @ = None THEN FileOf(record) ELSE @]
    /\ diverged' = diverged \ {h}
    /\ UNCHANGED faults

(* persist() writes the record over the whole file ... *)
Persist(h, record) ==
    /\ operations' = [operations EXCEPT ![h] = record]
    /\ files' = [files EXCEPT ![h] = FileOf(record)]
    /\ diverged' = diverged \ {h}
    /\ UNCHANGED faults

(* ... or throws, and the file is as it was or cut short. *)
WriteFails(h) ==
    /\ faults < MaxFaults
    /\ faults' = faults + 1
    /\ files' \in {files, [files EXCEPT ![h] = Torn]}
    /\ diverged' = diverged \cup {h}

PersistThrows(h, record) ==
    /\ operations' = [operations EXCEPT ![h] = record]
    /\ WriteFails(h)

(* The catch block persists once more; its own throw changes nothing else. *)
PersistAndThrow(h, record) == Persist(h, record) \/ PersistThrows(h, record)
------------------------------------------------------------------------------
Init ==
    /\ sessions = {}
    /\ opened = {}
    /\ operations = [h \in Hashes |-> None]
    /\ files = [h \in Hashes |-> None]
    /\ diverged = {}
    /\ faults = 0
    /\ req = [r \in Requests |-> None]
    /\ submits = [h \in Hashes |-> 0]
    /\ chain = [h \in Hashes |-> None]

(* handleEnrollment() once the enrollment service has accepted: expired
   sessions are dropped, then the limit holds. *)
OpenSession(s) ==
    /\ s \notin opened
    /\ Cardinality(sessions) < MaxSessions
    /\ opened' = opened \cup {s}
    /\ sessions' = sessions \cup {s}
    /\ UNCHANGED <<operations, evidence, req, submits, chain>>

ExpireSession(s) ==
    /\ s \in sessions
    /\ sessions' = sessions \ {s}
    /\ UNCHANGED <<opened, operations, evidence, req, submits, chain>>

Mutant_SubmitUnlimited(r, s, h, m) ==
    /\ Idle(r)
    /\ s \in sessions
    /\ <<h, m>> \in Asks[s]
    /\ h \notin Tracked
    /\ req' = [req EXCEPT ![r] = [at |-> "state", hash |-> h, session |-> s, mode |-> m, by |-> r]]
    /\ UNCHANGED <<sessions, opened, operations, evidence, submits, chain>>

(* handleSubmit() up to the await of the account's state.  A tracked
   operation is answered from memory, to its own session. *)
Submit(r, s, h, m) ==
    /\ Idle(r)
    /\ s \in sessions
    /\ <<h, m>> \in Asks[s]
    /\ h \notin Tracked
    /\ Cardinality(Tracked) < MaxOperations
    /\ req' = [req EXCEPT ![r] = [at |-> "state", hash |-> h, session |-> s, mode |-> m, by |-> r]]
    /\ UNCHANGED <<sessions, opened, operations, evidence, submits, chain>>

NewRecord(request) ==
    [session |-> request.session, mode |-> request.mode, status |-> "broadcast-result-unknown",
     submission |-> FALSE, journal |-> FALSE, by |-> request.by]

Mutant_TrackAnyway(r) ==
    LET h == req[r].hash IN
    /\ At(r, "state")
    /\ \/ /\ Persist(h, NewRecord(req[r]))
          /\ Await(r, IF req[r].mode = "direct" THEN "context" ELSE "submit")
       \/ Respond(r) /\ UNCHANGED <<operations, evidence>>
    /\ UNCHANGED <<sessions, opened, submits, chain>>

Mutant_TrackUnlessTracked(r) ==
    LET h == req[r].hash IN
    /\ At(r, "state")
    /\ \/ /\ h \notin Tracked
          /\ Persist(h, NewRecord(req[r]))
          /\ Await(r, IF req[r].mode = "direct" THEN "context" ELSE "submit")
       \/ Respond(r) /\ UNCHANGED <<operations, evidence>>
    /\ UNCHANGED <<sessions, opened, submits, chain>>

(* The account is prepared, its nonce is the operation's and no evidence file
   exists: the operation is tracked, then saved.  Otherwise the request fails.
   When the write throws it fails too, and the operation stays tracked. *)
Track(r) ==
    LET h == req[r].hash IN
    /\ At(r, "state")
    /\ \/ /\ files[h] = None
          /\ \/ /\ Persist(h, NewRecord(req[r]))
                /\ Await(r, IF req[r].mode = "direct" THEN "context" ELSE "submit")
             \/ PersistThrows(h, NewRecord(req[r])) /\ Respond(r)
       \/ Respond(r) /\ UNCHANGED <<operations, evidence>>
    /\ UNCHANGED <<sessions, opened, submits, chain>>

(* liveContext(): the submitter's journal and lock, noted and saved; or a
   throw, of it or of the write. *)
OpenContext(r) ==
    LET h == req[r].hash
        located == [operations[h] EXCEPT !.journal = TRUE]
    IN
    /\ At(r, "context")
    /\ \/ Persist(h, located) /\ Await(r, "submit")
       \/ (\E record \in {located, operations[h]} : PersistAndThrow(h, record)) /\ Respond(r)
    /\ UNCHANGED <<sessions, opened, submits, chain>>

(* adapter.submit(): the call leaves the server ... *)
Send(r) ==
    /\ At(r, "submit")
    /\ submits' = [submits EXCEPT ![req[r].hash] = @ + 1]
    /\ Await(r, "answer")
    /\ UNCHANGED <<sessions, opened, operations, evidence, chain>>

(* ... and is acknowledged, or is refused, lost or times out; either is saved,
   or a write throws. *)
Answer(r) ==
    LET h == req[r].hash
        submitted == [operations[h] EXCEPT !.submission = TRUE, !.status = "submitted"]
    IN  /\ At(r, "answer")
        /\ \E record \in {submitted, operations[h]} : PersistAndThrow(h, record)
        /\ Respond(r)
        /\ UNCHANGED <<sessions, opened, submits, chain>>

(* handleStatus(): a direct submission is looked for by the transaction hash
   that its answer or the journal gives. *)
Status(r, s, h) ==
    LET record == operations[h] IN
    /\ Idle(r)
    /\ s \in sessions
    /\ h \in Tracked /\ record.session = s
    /\ record.mode = "direct" => record.submission \/ record.journal
    /\ req' = [req EXCEPT ![r] =
                  [at |-> IF record.mode = "direct" THEN "receipt" ELSE "adapter",
                   hash |-> h, session |-> s, mode |-> record.mode, by |-> record.by]]
    /\ UNCHANGED <<sessions, opened, operations, evidence, submits, chain>>

Mutant_AdapterTrusted(r) ==
    LET h == req[r].hash IN
    /\ At(r, "adapter")
    /\ \/ \E outcome \in Outcomes :
             /\ operations' = [operations EXCEPT ![h].status = outcome]
             /\ Readable(h)
             /\ files' = [files EXCEPT ![h].inclusion = outcome, ![h].status = outcome]
             /\ UNCHANGED <<diverged, faults>>
             /\ Respond(r)
       \/ Respond(r) /\ UNCHANGED <<operations, evidence>>
    /\ UNCHANGED <<sessions, opened, submits, chain>>

(* A bundler says pending, nothing usable, or, rightly or not, that some
   transaction included the operation. *)
AskAdapter(r) ==
    /\ At(r, "adapter")
    /\ Await(r, "receipt") \/ Respond(r)
    /\ UNCHANGED <<sessions, opened, operations, evidence, submits, chain>>

(* canonicalReceipt() and inclusionFromReceipt(): the chain's own receipt holds
   the operation's outcome, or that of the named transaction, which reverted;
   or the request fails.  The record the request holds is amended, which may no
   longer be the tracked one; then the file is read, amended and written
   without an await, and the read or the write may throw. *)
Observe(r) ==
    LET h == req[r].hash
        current == operations[h].by = req[r].by
    IN
    /\ At(r, "receipt")
    /\ Respond(r)
    /\ \/ \E status \in {chain[h], "transaction-reverted"} \ {None} :
             /\ operations' = IF current THEN [operations EXCEPT ![h].status = status] ELSE operations
             /\ \/ /\ Readable(h)
                   /\ files' = [files EXCEPT ![h].inclusion = status, ![h].status = status]
                   /\ diverged' = IF current THEN diverged ELSE diverged \cup {h}
                   /\ UNCHANGED faults
                \/ Readable(h) /\ WriteFails(h)
                \/ ~Readable(h) /\ UNCHANGED <<files, faults>> /\ diverged' = diverged \cup {h}
       \/ UNCHANGED <<operations, evidence>>
    /\ UNCHANGED <<sessions, opened, submits, chain>>

(* EntryPoint executes an operation once; only what was submitted gets there. *)
Include(h) ==
    /\ submits[h] > 0
    /\ chain[h] = None
    /\ \E outcome \in Outcomes : chain' = [chain EXCEPT ![h] = outcome]
    /\ UNCHANGED <<sessions, opened, operations, evidence, req, submits>>

(* The process ends, perhaps in the middle of one synchronous write. *)
WritesNext(r, h) ==
    /\ ~Idle(r) /\ req[r].hash = h
    /\ \/ req[r].at = "state" /\ files[h] = None
       \/ req[r].at \in {"context", "answer"}
       \/ req[r].at = "receipt" /\ Readable(h)

Restart ==
    /\ faults < MaxFaults
    /\ faults' = faults + 1
    /\ sessions' = {}
    /\ operations' = [h \in Hashes |-> None]
    /\ req' = [r \in Requests |-> None]
    /\ diverged' = {}
    /\ \/ UNCHANGED files
       \/ \E h \in Hashes :
             /\ \E r \in Requests : WritesNext(r, h)
             /\ files' = [files EXCEPT ![h] = Torn]
    /\ UNCHANGED <<opened, submits, chain>>

Step(r) ==
    \/ Track(r) \/ OpenContext(r) \/ Send(r) \/ Answer(r)
    \/ AskAdapter(r) \/ Observe(r)

Next ==
    \/ \E s \in Sessions : OpenSession(s) \/ ExpireSession(s)
    \/ \E r \in Requests, s \in Sessions, h \in Hashes :
          Status(r, s, h) \/ \E m \in Modes : Submit(r, s, h, m)
    \/ \E r \in Requests : Step(r)
    \/ \E h \in Hashes : Include(h)
    \/ Restart

(* Every RPC has a timeout and canonicalReceipt a deadline: an await ends. *)
Fairness == \A r \in Requests : WF_vars(Step(r))

Spec == Init /\ [][Next]_vars /\ Fairness
------------------------------------------------------------------------------
TypeOK ==
    /\ sessions \subseteq opened /\ opened \subseteq Sessions
    /\ operations \in [Hashes -> Record \cup {None}]
    /\ files \in [Hashes -> File \cup {None, Torn}]
    /\ diverged \subseteq Hashes
    /\ req \in [Requests -> Request \cup {None}]
    /\ submits \in [Hashes -> Nat]
    /\ chain \in [Hashes -> Outcomes \cup {None}]
    /\ faults \in 0..MaxFaults

(* "This authorization already has saved evidence": whatever sessions, slots
   and restarts it meets, one authorization goes to an adapter at most once. *)
SubmittedOnce == \A h \in Hashes : submits[h] <= 1

(* docs/operations.md, "Preserve the exact operation": what an adapter was
   given has an evidence file, through failed writes and restarts; and the file
   of a tracked operation says what memory says, whatever submissions and
   status requests changed both, unless a write of it failed. *)
EvidenceFirst ==
    \A h \in Hashes :
        /\ submits[h] > 0 => files[h] # None
        /\ h \in Tracked \ diverged =>
              /\ Readable(h)
              /\ files[h].session = operations[h].session
              /\ files[h].status = operations[h].status
              /\ files[h].submission = operations[h].submission

(* docs/reference-app.md promises "at most [...] 1000 tracked operations".  The
   limit is read before an await and not again: it is exceeded, by at most the
   other requests that passed it together. *)
OperationsBounded ==
    Cardinality(Tracked) <= MaxOperations + Cardinality(Requests) - 1

(* "independentlyObservedThroughBaseRpc": an outcome in the record or the file
   is the chain's, whatever a bundler reported. *)
OutcomesAreReal ==
    \A h \in Hashes :
        /\ (h \in Tracked /\ operations[h].status \in Outcomes)
           => operations[h].status = chain[h]
        /\ (Readable(h) /\ files[h].inclusion \in Outcomes)
           => files[h].inclusion = chain[h]

(* While an operation is tracked and has its evidence file it stays with the
   session and the route that submitted it.  (Before the file exists, because
   its first write failed, another submission that had passed the check with it
   takes it over; an adapter was given nothing then.) *)
OwnerKept ==
    [][\A h \in Hashes :
          (h \in Tracked /\ h \in Tracked' /\ files[h] # None)
          => /\ operations'[h].session = operations[h].session
             /\ operations'[h].mode = operations[h].mode]_vars

(* docs/operations.md: "The reference app persists public authorization and
   inclusion evidence": what it persisted it keeps, unless a write or the
   process is cut short. *)
InclusionEvidenceKept ==
    [][\A h \in Hashes :
          (/\ Readable(h) /\ files[h].inclusion \in Outcomes
           /\ files'[h] # Torn)
          => files'[h].inclusion = files[h].inclusion]_vars
==============================================================================
