------------------------ MODULE ReferenceServerProofs ------------------------
(***************************************************************************)
(* Theorems about the reference server, for any number of slots, sessions, *)
(* operations and restarts.                                                *)
(***************************************************************************)
EXTENDS ReferenceServer, FiniteSetTheorems, TLAPS

Submitting(r) == ~Idle(r) /\ req[r].at \in {"context", "submit", "answer"}

(* The file of a tracked operation agrees with its record, unless a write of
   it failed. *)
FileInv ==
    \A h \in Hashes : (operations[h] # None /\ h \notin diverged) =>
        /\ Readable(h)
        /\ files[h].session = operations[h].session
        /\ files[h].status = operations[h].status
        /\ files[h].submission = operations[h].submission

(* A slot past Track serves a tracked operation; a submission there has its
   file, and before it sends it is the first to do so. *)
ReqInv ==
    \A r \in Requests : ~Idle(r) =>
        /\ req[r].at # "state" => operations[req[r].hash] # None
        /\ Submitting(r) => files[req[r].hash] # None
        /\ req[r].at \in {"context", "submit"} => submits[req[r].hash] = 0

(* No operation is being submitted by two slots. *)
OneSubmitter ==
    \A p, r \in Requests :
        Submitting(p) /\ Submitting(r) /\ req[p].hash = req[r].hash => p = r

SentInv == \A h \in Hashes : submits[h] > 0 => files[h] # None

IInv ==
    /\ TypeOK
    /\ FileInv
    /\ ReqInv
    /\ OneSubmitter
    /\ SentInv
    /\ SubmittedOnce
    /\ OutcomesAreReal
------------------------------------------------------------------------------
LEMMA InitIInv == Init => IInv
  BY NoneAssumption, BoundsAssumption
  DEF Init, IInv, TypeOK, FileInv, ReqInv, OneSubmitter, SentInv, SubmittedOnce,
      OutcomesAreReal, Readable, Tracked, Idle, Submitting, evidence

(* Sessions come and go without touching what the server tracks. *)
LEMMA SessionIInv ==
    ASSUME IInv, NEW s \in Sessions, OpenSession(s) \/ ExpireSession(s)
    PROVE  IInv'
  BY DEF IInv, OpenSession, ExpireSession, TypeOK, FileInv, ReqInv, OneSubmitter, SentInv,
         SubmittedOnce, OutcomesAreReal, Readable, Tracked, Idle, Submitting, evidence

(* A new request waits for the account's state or, for a tracked operation,
   for its adapter or receipt. *)
LEMMA ArrivalIInv ==
    ASSUME IInv, NEW r \in Requests, NEW s \in Sessions, NEW h \in Hashes,
           Status(r, s, h) \/ \E m \in Modes : Submit(r, s, h, m)
    PROVE  IInv'
<1> USE DEF IInv
<1>1. PICK q \in Request :
         /\ q.hash = h /\ q.at \in {"state", "adapter", "receipt"}
         /\ req' = [req EXCEPT ![r] = q]
         /\ q.at # "state" => operations[h] # None
  <2>1. CASE Status(r, s, h)
    <3>1. operations[h] \in Record
      BY <2>1 DEF Status, Tracked, TypeOK
    <3> DEFINE q == [at |-> IF operations[h].mode = "direct" THEN "receipt" ELSE "adapter",
                     hash |-> h, session |-> s, mode |-> operations[h].mode,
                     by |-> operations[h].by]
    <3>2. q \in Request
      BY <3>1 DEF Request, Record, Steps
    <3>3. req' = [req EXCEPT ![r] = q] /\ operations[h] # None
      BY <2>1 DEF Status, Tracked
    <3>4. QED
      BY <3>2, <3>3
  <2>2. CASE \E m \in Modes : Submit(r, s, h, m)
    <3>1. PICK m \in Modes : Submit(r, s, h, m)
      BY <2>2
    <3> DEFINE q == [at |-> "state", hash |-> h, session |-> s, mode |-> m, by |-> r]
    <3>2. q \in Request
      BY DEF Request, Steps
    <3>3. req' = [req EXCEPT ![r] = q]
      BY <3>1 DEF Submit
    <3>4. QED
      BY <3>2, <3>3
  <2>3. QED
    BY <2>1, <2>2
<1>2. UNCHANGED <<sessions, opened, operations, evidence, submits, chain>>
  BY DEF Status, Submit
<1>3. QED
  BY <1>1, <1>2 DEF TypeOK, FileInv, ReqInv, OneSubmitter, SentInv, SubmittedOnce,
                    OutcomesAreReal, Readable, Tracked, Idle, Submitting, evidence
------------------------------------------------------------------------------
(* What persist() leaves, whether or not a write of it failed: the record, and
   a file that, unless it failed, agrees with it and claims no more about the
   chain. *)
LEMMA PersistKeeps ==
    ASSUME IInv, NEW h \in Hashes, NEW record \in Record, PersistAndThrow(h, record),
           record.status \in Outcomes => record.status = chain[h],
           UNCHANGED <<submits, chain>>
    PROVE  /\ operations' \in [Hashes -> Record \cup {None}]
           /\ operations'[h] = record
           /\ \A g \in Hashes : operations[g] # None => operations'[g] # None
           /\ files' \in [Hashes -> File \cup {None, Torn}]
           /\ \A g \in Hashes : files[g] # None => files'[g] # None
           /\ diverged' \subseteq Hashes /\ faults' \in 0..MaxFaults
           /\ FileInv' /\ SentInv' /\ SubmittedOnce' /\ OutcomesAreReal'
<1> USE DEF IInv
<1> DEFINE file == FileOf(record)
<1>1. /\ file \in File
      /\ file.session = record.session /\ file.status = record.status
      /\ file.submission = record.submission /\ file.inclusion = None
  BY DEF FileOf, File, Record
<1>2. record # None /\ file # None /\ file # Torn
  BY <1>1, NoneAssumption
<1> HIDE DEF file
<1>3. operations' = [operations EXCEPT ![h] = record]
  BY DEF PersistAndThrow, PersistThrows, Persist
<1>4. /\ operations' \in [Hashes -> Record \cup {None}] /\ operations'[h] = record
      /\ \A g \in Hashes \ {h} : operations'[g] = operations[g]
      /\ \A g \in Hashes : operations[g] # None => operations'[g] # None
  BY <1>2, <1>3 DEF TypeOK
<1>5. CASE Persist(h, record)
  <2>1. /\ files' = [files EXCEPT ![h] = file] /\ faults' = faults
        /\ diverged' = diverged \ {h}
    BY <1>5 DEF Persist, file
  <2>2. /\ files' \in [Hashes -> File \cup {None, Torn}] /\ files'[h] = file
        /\ \A g \in Hashes \ {h} : files'[g] = files[g]
    BY <1>1, <2>1 DEF TypeOK
  <2>3. FileInv'
    BY <1>1, <1>2, <1>4, <2>1, <2>2 DEF FileInv, Readable
  <2>4. SentInv' /\ SubmittedOnce'
    BY <1>2, <2>2 DEF SentInv, SubmittedOnce
  <2>5. OutcomesAreReal'
    BY <1>1, <1>2, <1>4, <2>2, NoneAssumption DEF OutcomesAreReal, Readable, Tracked, Inclusions
  <2>6. \A g \in Hashes : files[g] # None => files'[g] # None
    BY <1>2, <2>2
  <2>7. QED
    BY <1>4, <2>1, <2>2, <2>3, <2>4, <2>5, <2>6 DEF TypeOK
<1>6. CASE PersistThrows(h, record)
  <2>1. /\ files' \in {files, [files EXCEPT ![h] = Torn]}
        /\ diverged' = diverged \cup {h} /\ faults' = faults + 1 /\ faults < MaxFaults
    BY <1>6 DEF PersistThrows, WriteFails
  <2>2. /\ files' \in [Hashes -> File \cup {None, Torn}]
        /\ \A g \in Hashes : files'[g] = files[g] \/ (g = h /\ files'[g] = Torn)
    <3>1. CASE files' = files
      BY <3>1 DEF TypeOK
    <3>2. CASE files' = [files EXCEPT ![h] = Torn]
      BY <3>2 DEF TypeOK
    <3>3. QED
      BY <2>1, <3>1, <3>2
  <2>3. FileInv'
    BY <1>4, <2>1, <2>2 DEF FileInv, Readable
  <2>4. SentInv' /\ SubmittedOnce'
    BY <2>2, NoneAssumption DEF SentInv, SubmittedOnce
  <2>5. OutcomesAreReal'
    BY <1>2, <1>4, <2>2 DEF OutcomesAreReal, Readable, Tracked
  <2>6. \A g \in Hashes : files[g] # None => files'[g] # None
    BY <2>2, NoneAssumption
  <2>7. diverged' \subseteq Hashes /\ faults' \in 0..MaxFaults
    BY <2>1, BoundsAssumption DEF TypeOK
  <2>8. QED
    BY <1>4, <2>2, <2>3, <2>4, <2>5, <2>6, <2>7
<1>7. QED
  BY <1>5, <1>6 DEF PersistAndThrow

(* A slot's write of the record it serves, whether or not it failed, after
   which the slot is as q says: free, or at the next await. *)
LEMMA WriteIInv ==
    ASSUME IInv, NEW r \in Requests, req[r] # None,
           NEW record \in Record, PersistAndThrow(req[r].hash, record),
           record.status \in Outcomes => record.status = chain[req[r].hash],
           NEW q \in Request \cup {None}, req' = [req EXCEPT ![r] = q],
           q # None => /\ q.hash = req[r].hash /\ q.at \in {"context", "submit"}
                       /\ files'[q.hash] # None /\ submits[q.hash] = 0
                       /\ Submitting(r) \/ files[q.hash] = None,
           UNCHANGED <<sessions, opened, submits, chain>>
    PROVE  IInv'
<1> USE DEF IInv
<1> DEFINE h == req[r].hash
<1>1. req[r] \in Request /\ h \in Hashes
  BY DEF TypeOK, Request
<1>2. /\ operations' \in [Hashes -> Record \cup {None}]
      /\ operations'[h] = record
      /\ \A g \in Hashes : operations[g] # None => operations'[g] # None
      /\ files' \in [Hashes -> File \cup {None, Torn}]
      /\ \A g \in Hashes : files[g] # None => files'[g] # None
      /\ diverged' \subseteq Hashes /\ faults' \in 0..MaxFaults
      /\ FileInv' /\ SentInv' /\ SubmittedOnce' /\ OutcomesAreReal'
  BY <1>1, PersistKeeps
<1>3. TypeOK'
  BY <1>2 DEF TypeOK
<1>4. \A p \in Requests : req'[p] = IF p = r THEN q ELSE req[p]
  BY DEF TypeOK
<1>5. record # None
  BY NoneAssumption
<1>6. ReqInv'
  <2> SUFFICES ASSUME NEW p \in Requests, ~Idle(p)'
               PROVE  /\ req'[p].at # "state" => operations'[req'[p].hash] # None
                      /\ Submitting(p)' => files'[req'[p].hash] # None
                      /\ req'[p].at \in {"context", "submit"} => submits'[req'[p].hash] = 0
    BY DEF ReqInv
  <2>1. CASE p = r
    BY <1>2, <1>4, <1>5, <2>1 DEF Idle
  <2>2. CASE p # r
    <3>1. req'[p] = req[p] /\ ~Idle(p) /\ req[p].hash \in Hashes
      BY <1>4, <2>2 DEF Idle, TypeOK, Request
    <3>2. Submitting(p)' = Submitting(p)
      BY <3>1 DEF Submitting, Idle
    <3>3. QED
      BY <1>2, <3>1, <3>2 DEF ReqInv
  <2>3. QED
    BY <2>1, <2>2
<1>7. OneSubmitter'
  <2>1. ASSUME NEW p \in Requests, p # r, Submitting(p)'
        PROVE  Submitting(p) /\ req'[p] = req[p] /\ files[req[p].hash] # None
    BY <1>4, <2>1 DEF Submitting, Idle, ReqInv
  <2>2. ASSUME NEW p \in Requests, p # r, Submitting(p)', Submitting(r)', req'[p].hash = req'[r].hash
        PROVE  FALSE
    <3>1. Submitting(p) /\ req'[p] = req[p] /\ files[req[p].hash] # None
      BY <2>1, <2>2
    <3>2. q # None /\ q.hash = h /\ req[p].hash = h
      BY <1>4, <2>2, <3>1 DEF Submitting, Idle
    <3>3. Submitting(r)
      BY <3>1, <3>2
    <3>4. QED
      BY <2>2, <3>1, <3>2, <3>3 DEF OneSubmitter
  <2>3. ASSUME NEW p \in Requests, NEW t \in Requests, Submitting(p)', Submitting(t)',
               req'[p].hash = req'[t].hash
        PROVE  p = t
    <3>1. CASE p = r \/ t = r
      BY <2>2, <2>3, <3>1
    <3>2. CASE p # r /\ t # r
      BY <2>1, <2>3, <3>2 DEF OneSubmitter
    <3>3. QED
      BY <3>1, <3>2
  <2>4. QED
    BY <2>3 DEF OneSubmitter
<1>8. QED
  BY <1>2, <1>3, <1>6, <1>7

LEMMA TrackIInv ==
    ASSUME IInv, NEW r \in Requests, Track(r)
    PROVE  IInv'
<1> USE DEF IInv
<1> DEFINE h == req[r].hash
<1> DEFINE record == NewRecord(req[r])
<1>1. req[r] \in Request /\ h \in Hashes /\ req[r] # None /\ req[r].at = "state"
  BY DEF Track, At, Idle, TypeOK, Request
<1>2. UNCHANGED <<sessions, opened, submits, chain>>
  BY DEF Track
<1>3. record \in Record /\ record.status \notin Outcomes
  BY <1>1 DEF NewRecord, Record, Request, Statuses, Inclusions, Outcomes
<1> HIDE DEF record
<1>4. CASE Respond(r) /\ UNCHANGED <<operations, evidence>>
  BY <1>2, <1>4, NoneAssumption
  DEF Respond, TypeOK, FileInv, ReqInv, OneSubmitter, SentInv, SubmittedOnce,
      OutcomesAreReal, Readable, Tracked, Idle, Submitting, evidence
<1>5. CASE files[h] = None /\ PersistThrows(h, record) /\ Respond(r)
  <2>1. req' = [req EXCEPT ![r] = None]
    BY <1>5 DEF Respond
  <2>2. QED
    BY <1>1, <1>2, <1>3, <1>5, <2>1, WriteIInv DEF PersistAndThrow
<1>6. ASSUME NEW step \in {"context", "submit"}, files[h] = None,
             Persist(h, record), Await(r, step)
      PROVE  IInv'
  <2> DEFINE q == [req[r] EXCEPT !.at = step]
  <2>1. q \in Request /\ q.hash = h /\ q.at = step
    BY <1>1 DEF Request, Steps
  <2>2. req' = [req EXCEPT ![r] = q]
    BY <1>6 DEF Await
  <2>3. submits[h] = 0
    <3>1. submits[h] \in Nat /\ ~(submits[h] > 0)
      BY <1>1, <1>6 DEF SentInv, TypeOK
    <3>2. QED
      BY <3>1
  <2>4. files'[h] # None
    <3>1. FileOf(record) \in File
      BY <1>3 DEF FileOf, File, Record
    <3>2. files'[h] = FileOf(record)
      BY <1>1, <1>6 DEF Persist, TypeOK
    <3>3. QED
      BY <3>1, <3>2, NoneAssumption
  <2> HIDE DEF q
  <2>5. QED
    BY <1>1, <1>2, <1>3, <1>6, <2>1, <2>2, <2>3, <2>4, WriteIInv DEF PersistAndThrow
<1>7. QED
  BY <1>4, <1>5, <1>6 DEF Track, record

LEMMA KnownRecord ==
    ASSUME IInv, NEW r \in Requests, req[r] # None, req[r].at # "state"
    PROVE  /\ req[r] \in Request /\ req[r].hash \in Hashes
           /\ operations[req[r].hash] \in Record
           /\ operations[req[r].hash].status \in Outcomes
              => operations[req[r].hash].status = chain[req[r].hash]
<1>1. req[r] \in Request /\ req[r].hash \in Hashes
  BY DEF IInv, TypeOK, Request
<1>2. operations[req[r].hash] # None
  BY DEF IInv, ReqInv, Idle
<1>3. QED
  BY <1>1, <1>2 DEF IInv, TypeOK, OutcomesAreReal, Readable, Tracked

LEMMA OpenContextIInv ==
    ASSUME IInv, NEW r \in Requests, OpenContext(r)
    PROVE  IInv'
<1> DEFINE h == req[r].hash
<1> DEFINE located == [operations[h] EXCEPT !.journal = TRUE]
<1>1. req[r] # None /\ req[r].at = "context" /\ Submitting(r)
  BY DEF OpenContext, At, Idle, Submitting
<1>2. /\ req[r] \in Request /\ operations[h] \in Record /\ h \in Hashes
      /\ operations[h].status \in Outcomes => operations[h].status = chain[h]
  BY <1>1, KnownRecord
<1>3. located \in Record /\ located.status = operations[h].status
  BY <1>2 DEF Record
<1> HIDE DEF located
<1>4. UNCHANGED <<sessions, opened, submits, chain>>
  BY DEF OpenContext
<1>5. CASE Persist(h, located) /\ Await(r, "submit")
  <2> DEFINE q == [req[r] EXCEPT !.at = "submit"]
  <2>1. q \in Request /\ q.hash = h /\ q.at = "submit"
    BY <1>2 DEF Request, Steps
  <2>2. req' = [req EXCEPT ![r] = q]
    BY <1>5 DEF Await
  <2>3. submits[h] = 0 /\ files[h] # None
    BY <1>1 DEF IInv, ReqInv, Idle
  <2>4. files'[h] # None
    BY <1>2, <1>3, <1>4, <1>5, <2>3, PersistKeeps DEF PersistAndThrow
  <2> HIDE DEF q
  <2>5. QED
    BY <1>1, <1>2, <1>3, <1>4, <1>5, <2>1, <2>2, <2>3, <2>4, WriteIInv DEF PersistAndThrow
<1>6. ASSUME NEW record \in {located, operations[h]}, PersistAndThrow(h, record), Respond(r)
      PROVE  IInv'
  <2>1. record \in Record /\ (record.status \in Outcomes => record.status = chain[h])
    BY <1>2, <1>3
  <2>2. req' = [req EXCEPT ![r] = None]
    BY <1>6 DEF Respond
  <2>3. QED
    BY <1>1, <1>4, <1>6, <2>1, <2>2, WriteIInv
<1>7. QED
  BY <1>5, <1>6 DEF OpenContext, located

LEMMA AnswerIInv ==
    ASSUME IInv, NEW r \in Requests, Answer(r)
    PROVE  IInv'
<1> DEFINE h == req[r].hash
<1> DEFINE submitted == [operations[h] EXCEPT !.submission = TRUE, !.status = "submitted"]
<1>1. req[r] # None /\ req[r].at = "answer"
  BY DEF Answer, At, Idle
<1>2. /\ operations[h] \in Record
      /\ operations[h].status \in Outcomes => operations[h].status = chain[h]
  BY <1>1, KnownRecord
<1>3. submitted \in Record /\ submitted.status \notin Outcomes
  BY <1>2 DEF Record, Statuses, Inclusions, Outcomes
<1> HIDE DEF submitted
<1>4. PICK record \in {submitted, operations[h]} : PersistAndThrow(h, record)
  BY DEF Answer, submitted
<1>5. record \in Record /\ (record.status \in Outcomes => record.status = chain[h])
  BY <1>2, <1>3
<1>6. req' = [req EXCEPT ![r] = None] /\ UNCHANGED <<sessions, opened, submits, chain>>
  BY DEF Answer, Respond
<1>7. QED
  BY <1>1, <1>4, <1>5, <1>6, WriteIInv

LEMMA SendIInv ==
    ASSUME IInv, NEW r \in Requests, Send(r)
    PROVE  IInv'
<1> USE DEF IInv
<1> DEFINE h == req[r].hash
<1>1. req[r] # None /\ req[r].at = "submit"
  BY DEF Send, At, Idle
<1>2. /\ req[r] \in Request /\ h \in Hashes /\ operations[h] # None /\ Submitting(r)
      /\ submits[h] = 0 /\ files[h] # None
  BY <1>1 DEF TypeOK, Request, ReqInv, Idle, Submitting
<1>3. /\ submits' = [submits EXCEPT ![h] = @ + 1]
      /\ req' = [req EXCEPT ![r] = [req[r] EXCEPT !.at = "answer"]]
      /\ UNCHANGED <<sessions, opened, operations, evidence, chain>>
  BY DEF Send, Await
<1>4. /\ submits' \in [Hashes -> Nat] /\ submits'[h] = 1
      /\ \A g \in Hashes \ {h} : submits'[g] = submits[g]
  BY <1>2, <1>3 DEF TypeOK
<1>5. /\ [req[r] EXCEPT !.at = "answer"] \in Request
      /\ [req[r] EXCEPT !.at = "answer"].hash = h
      /\ [req[r] EXCEPT !.at = "answer"].at = "answer"
  BY <1>2 DEF Request, Steps
<1>6. /\ req'[r].hash = h /\ req'[r].at = "answer" /\ req'[r] # None
      /\ \A p \in Requests \ {r} : req'[p] = req[p]
  BY <1>3, <1>5, NoneAssumption DEF TypeOK
<1>7. TypeOK'
  BY <1>3, <1>4, <1>5 DEF TypeOK, evidence
<1>8. FileInv' /\ OutcomesAreReal'
  BY <1>3 DEF FileInv, OutcomesAreReal, Readable, Tracked, evidence
<1>9. SentInv'
  BY <1>2, <1>3, <1>4 DEF SentInv, evidence
<1>10. SubmittedOnce'
  BY <1>4 DEF SubmittedOnce
<1>11. OneSubmitter'
  <2>1. ASSUME NEW p \in Requests, Submitting(p)'
        PROVE  Submitting(p) /\ req'[p].hash = req[p].hash
    BY <1>1, <1>6, <2>1 DEF Submitting, Idle
  <2>2. QED
    BY <2>1 DEF OneSubmitter
<1>12. ReqInv'
  <2> SUFFICES ASSUME NEW p \in Requests, ~Idle(p)'
               PROVE  /\ req'[p].at # "state" => operations'[req'[p].hash] # None
                      /\ Submitting(p)' => files'[req'[p].hash] # None
                      /\ req'[p].at \in {"context", "submit"} => submits'[req'[p].hash] = 0
    BY DEF ReqInv
  <2>1. CASE p = r
    BY <1>2, <1>3, <1>6, <2>1 DEF evidence
  <2>2. CASE p # r
    <3>1. req'[p] = req[p] /\ ~Idle(p) /\ req[p].hash \in Hashes
      BY <1>6, <2>2 DEF Idle, TypeOK, Request
    <3>2. req[p].at \in {"context", "submit"} => req[p].hash # h
      BY <1>1, <2>2, <3>1 DEF OneSubmitter, Submitting, Idle
    <3>3. Submitting(p)' = Submitting(p)
      BY <3>1 DEF Submitting, Idle
    <3>4. QED
      BY <1>3, <1>4, <3>1, <3>2, <3>3 DEF ReqInv, evidence
  <2>3. QED
    BY <2>1, <2>2
<1>13. QED
  BY <1>7, <1>8, <1>9, <1>10, <1>11, <1>12

LEMMA AskAdapterIInv ==
    ASSUME IInv, NEW r \in Requests, AskAdapter(r)
    PROVE  IInv'
<1> USE DEF IInv
<1>1. req[r] # None /\ req[r].at = "adapter" /\ req[r] \in Request
  BY DEF AskAdapter, At, Idle, TypeOK
<1>2. PICK q \in Request \cup {None} :
         /\ req' = [req EXCEPT ![r] = q]
         /\ q # None => q.hash = req[r].hash /\ q.at = "receipt"
  <2>1. CASE Respond(r)
    BY <2>1 DEF Respond
  <2>2. CASE Await(r, "receipt")
    <3> DEFINE q == [req[r] EXCEPT !.at = "receipt"]
    <3>1. q \in Request /\ q.hash = req[r].hash /\ q.at = "receipt"
      BY <1>1 DEF Request, Steps
    <3>2. req' = [req EXCEPT ![r] = q]
      BY <2>2 DEF Await
    <3>3. QED
      BY <3>1, <3>2
  <2>3. QED
    BY <2>1, <2>2 DEF AskAdapter
<1>3. UNCHANGED <<sessions, opened, operations, evidence, submits, chain>>
  BY DEF AskAdapter
<1>4. /\ \A p \in Requests : req'[p] = IF p = r THEN q ELSE req[p]
      /\ TypeOK' /\ FileInv' /\ SentInv' /\ SubmittedOnce' /\ OutcomesAreReal'
  BY <1>2, <1>3
  DEF TypeOK, FileInv, SentInv, SubmittedOnce, OutcomesAreReal, Readable, Tracked, evidence
<1>5. \A p \in Requests : ~Idle(p)' =>
        /\ ~Idle(p) /\ req'[p].hash = req[p].hash
        /\ (p # r /\ req'[p] = req[p]) \/ req'[p].at = "receipt"
  BY <1>1, <1>2, <1>4 DEF Idle
<1>6. \A p \in Requests : Submitting(p)' => Submitting(p)
  BY <1>5 DEF Submitting, Idle
<1>7. ReqInv'
  <2>1. ASSUME NEW p \in Requests, ~Idle(p)'
        PROVE  /\ ~Idle(p) /\ req'[p].hash = req[p].hash
               /\ req'[p].at \in {"context", "submit"} => req[p].at \in {"context", "submit"}
               /\ req[p].at # "state" \/ req'[p].at = "state"
    BY <1>1, <1>4, <1>5, <2>1
  <2>2. QED
    BY <1>3, <1>6, <2>1 DEF ReqInv, evidence
<1>8. OneSubmitter'
  BY <1>5, <1>6 DEF OneSubmitter, Submitting
<1>9. QED
  BY <1>4, <1>7, <1>8

(* The record and the file get the chain's own outcome, or that of a
   transaction which reverted, as far as the writes go. *)
LEMMA ObserveIInv ==
    ASSUME IInv, NEW r \in Requests, Observe(r)
    PROVE  IInv'
<1> USE DEF IInv
<1> DEFINE h == req[r].hash
<1> DEFINE current == operations[h].by = req[r].by
<1>1. req[r] # None /\ req[r].at = "receipt"
  BY DEF Observe, At, Idle
<1>2. h \in Hashes /\ operations[h] \in Record /\ operations[h] # None
  BY <1>1, KnownRecord, NoneAssumption
<1>3. req' = [req EXCEPT ![r] = None] /\ UNCHANGED <<sessions, opened, submits, chain>>
  BY DEF Observe, Respond
<1>4. CASE UNCHANGED <<operations, evidence>>
  BY <1>3, <1>4
  DEF TypeOK, FileInv, ReqInv, OneSubmitter, SentInv, SubmittedOnce, OutcomesAreReal, Readable,
      Tracked, Idle, Submitting, evidence
<1>5. ASSUME NEW status \in {chain[h], "transaction-reverted"} \ {None},
             operations' = IF current THEN [operations EXCEPT ![h].status = status] ELSE operations,
             \/ /\ Readable(h)
                /\ files' = [files EXCEPT ![h].inclusion = status, ![h].status = status]
                /\ diverged' = IF current THEN diverged ELSE diverged \cup {h}
                /\ UNCHANGED faults
             \/ Readable(h) /\ WriteFails(h)
             \/ ~Readable(h) /\ UNCHANGED <<files, faults>> /\ diverged' = diverged \cup {h}
      PROVE  IInv'
  <2>1. status \in Inclusions /\ (status \in Outcomes => status = chain[h])
    BY <1>2, <1>5 DEF TypeOK, Inclusions, Outcomes
  <2>2. /\ operations' \in [Hashes -> Record \cup {None}] /\ operations'[h] # None
        /\ \A g \in Hashes \ {h} : operations'[g] = operations[g]
        /\ operations'[h].session = operations[h].session
        /\ operations'[h].submission = operations[h].submission
        /\ operations'[h].status = IF current THEN status ELSE operations[h].status
    <3> DEFINE record == [operations[h] EXCEPT !.status = status]
    <3>1. /\ record \in Record /\ record.status = status
          /\ record.session = operations[h].session
          /\ record.submission = operations[h].submission
      BY <1>2, <2>1 DEF Record, Statuses
    <3>2. CASE current
      <4>1. operations' = [operations EXCEPT ![h] = record]
        BY <1>5, <3>2
      <4> HIDE DEF record
      <4>2. operations'[h] = record /\ \A g \in Hashes \ {h} : operations'[g] = operations[g]
        BY <1>2, <4>1 DEF TypeOK
      <4>3. operations' \in [Hashes -> Record \cup {None}]
        BY <3>1, <4>1 DEF TypeOK
      <4>4. record # None
        BY <3>1, NoneAssumption
      <4>5. QED
        BY <3>1, <3>2, <4>2, <4>3, <4>4
    <3>3. CASE ~current
      BY <1>2, <1>5, <3>3 DEF TypeOK
    <3>4. QED
      BY <3>2, <3>3
  <2>3. /\ files' \in [Hashes -> File \cup {None, Torn}]
        /\ \A g \in Hashes : files[g] # None => files'[g] # None
        /\ \A g \in Hashes \ {h} : files'[g] = files[g]
        /\ h \notin diverged' => /\ files'[h] \notin {None, Torn} /\ current /\ h \notin diverged
                                 /\ files'[h].status = status
                                 /\ files'[h].session = files[h].session
                                 /\ files'[h].submission = files[h].submission
        /\ files'[h] \notin {None, Torn}
             => files'[h].inclusion = status \/ (Readable(h) /\ files'[h] = files[h])
        /\ diverged' \subseteq Hashes /\ diverged \subseteq diverged'
        /\ faults' \in 0..MaxFaults
    <3>1. CASE /\ Readable(h)
               /\ files' = [files EXCEPT ![h].inclusion = status, ![h].status = status]
               /\ diverged' = IF current THEN diverged ELSE diverged \cup {h}
               /\ UNCHANGED faults
      <4> DEFINE file == [[files[h] EXCEPT !.inclusion = status] EXCEPT !.status = status]
      <4>1. files[h] \in File
        BY <1>2, <3>1 DEF TypeOK, Readable
      <4>2. /\ file \in File /\ file.status = status /\ file.inclusion = status
            /\ file.session = files[h].session /\ file.submission = files[h].submission
        BY <2>1, <4>1 DEF File, Statuses
      <4>3. files' = [files EXCEPT ![h] = file]
        BY <1>2, <3>1 DEF TypeOK
      <4> HIDE DEF file
      <4>4. /\ files' \in [Hashes -> File \cup {None, Torn}] /\ files'[h] = file
            /\ \A g \in Hashes \ {h} : files'[g] = files[g]
        BY <1>2, <4>2, <4>3 DEF TypeOK
      <4>5. file # None /\ file # Torn
        BY <4>2, NoneAssumption
      <4>6. diverged' \subseteq Hashes /\ diverged \subseteq diverged' /\ faults' \in 0..MaxFaults
        BY <1>2, <3>1 DEF TypeOK
      <4>7. h \notin diverged' => current /\ h \notin diverged
        BY <3>1
      <4>8. QED
        BY <4>2, <4>4, <4>5, <4>6, <4>7 DEF Readable
    <3>2. CASE Readable(h) /\ WriteFails(h)
      <4>1. /\ files' \in {files, [files EXCEPT ![h] = Torn]}
            /\ diverged' = diverged \cup {h} /\ faults' = faults + 1 /\ faults < MaxFaults
        BY <3>2 DEF WriteFails
      <4>2. /\ files' \in [Hashes -> File \cup {None, Torn}]
            /\ \A g \in Hashes \ {h} : files'[g] = files[g]
            /\ files'[h] = files[h] \/ files'[h] = Torn
        <5>1. CASE files' = files
          BY <5>1 DEF TypeOK
        <5>2. CASE files' = [files EXCEPT ![h] = Torn]
          BY <1>2, <5>2 DEF TypeOK
        <5>3. QED
          BY <4>1, <5>1, <5>2
      <4>3. diverged' \subseteq Hashes /\ diverged \subseteq diverged' /\ faults' \in 0..MaxFaults
        BY <1>2, <4>1, BoundsAssumption DEF TypeOK
      <4>4. QED
        BY <3>2, <4>1, <4>2, <4>3, NoneAssumption DEF Readable
    <3>3. CASE ~Readable(h) /\ UNCHANGED <<files, faults>> /\ diverged' = diverged \cup {h}
      BY <1>2, <3>3 DEF TypeOK, Readable
    <3>4. QED
      BY <1>5, <3>1, <3>2, <3>3
  <2>4. TypeOK'
    BY <1>3, <2>2, <2>3 DEF TypeOK
  <2>5. FileInv'
    <3> SUFFICES ASSUME NEW g \in Hashes, operations'[g] # None, g \notin diverged'
                 PROVE  /\ Readable(g)'
                        /\ files'[g].session = operations'[g].session
                        /\ files'[g].status = operations'[g].status
                        /\ files'[g].submission = operations'[g].submission
      BY DEF FileInv
    <3>1. CASE g = h
      BY <1>2, <2>2, <2>3, <3>1 DEF FileInv, Readable
    <3>2. CASE g # h
      <4>1. operations'[g] = operations[g] /\ files'[g] = files[g] /\ g \notin diverged
        BY <2>2, <2>3, <3>2
      <4>2. QED
        BY <4>1 DEF FileInv, Readable
    <3>3. QED
      BY <3>1, <3>2
  <2>6. SentInv' /\ SubmittedOnce'
    BY <1>3, <2>3 DEF SentInv, SubmittedOnce
  <2>7. OutcomesAreReal'
    <3> SUFFICES ASSUME NEW g \in Hashes
                 PROVE  /\ (g \in Tracked' /\ operations'[g].status \in Outcomes)
                           => operations'[g].status = chain[g]
                        /\ (Readable(g)' /\ files'[g].inclusion \in Outcomes)
                           => files'[g].inclusion = chain[g]
      BY <1>3 DEF OutcomesAreReal
    <3>1. CASE g = h
      BY <1>2, <2>1, <2>2, <2>3, <3>1 DEF OutcomesAreReal, Readable, Tracked
    <3>2. CASE g # h
      <4>1. operations'[g] = operations[g] /\ files'[g] = files[g]
        BY <2>2, <2>3, <3>2
      <4>2. QED
        BY <4>1 DEF OutcomesAreReal, Tracked, Readable
    <3>3. QED
      BY <3>1, <3>2
  <2>8. ReqInv' /\ OneSubmitter'
    <3>1. \A p \in Requests : ~Idle(p)' => req'[p] = req[p] /\ ~Idle(p)
      BY <1>3 DEF TypeOK, Idle
    <3>2. \A p \in Requests : ~Idle(p) => req[p].hash \in Hashes
      BY DEF TypeOK, Idle, Request
    <3>3. \A g \in Hashes : operations[g] # None => operations'[g] # None
      BY <2>2
    <3>4. \A p \in Requests : Submitting(p)' => Submitting(p) /\ req'[p] = req[p]
      BY <3>1 DEF Submitting, Idle
    <3>5. ReqInv'
      BY <1>3, <2>3, <3>1, <3>2, <3>3, <3>4 DEF ReqInv
    <3>6. OneSubmitter'
      BY <3>4 DEF OneSubmitter
    <3>7. QED
      BY <3>5, <3>6
  <2>9. QED
    BY <2>4, <2>5, <2>6, <2>7, <2>8
<1>6. QED
  BY <1>4, <1>5 DEF Observe

(* The chain decides what was undecided; records of it held no outcome yet. *)
LEMMA IncludeIInv ==
    ASSUME IInv, NEW h \in Hashes, Include(h)
    PROVE  IInv'
<1> USE DEF IInv
<1>1. PICK outcome \in Outcomes :
         chain[h] = None /\ chain' = [chain EXCEPT ![h] = outcome]
  BY DEF Include
<1>2. UNCHANGED <<sessions, opened, operations, evidence, req, submits>>
  BY DEF Include
<1>3. OutcomesAreReal'
  BY <1>1, <1>2, NoneAssumption DEF OutcomesAreReal, Readable, Tracked, TypeOK, evidence, Inclusions, Outcomes
<1>4. QED
  BY <1>1, <1>2, <1>3
  DEF TypeOK, FileInv, ReqInv, OneSubmitter, SentInv, SubmittedOnce, Readable, Idle, Submitting,
      evidence

(* Only the files outlive the process, and a file cut short is still one. *)
LEMMA RestartIInv ==
    ASSUME IInv, Restart
    PROVE  IInv'
<1> USE DEF IInv
<1>1. /\ UNCHANGED <<opened, submits, chain>> /\ sessions' = {}
      /\ operations' = [h \in Hashes |-> None] /\ req' = [r \in Requests |-> None]
      /\ faults' = faults + 1 /\ faults < MaxFaults /\ diverged' = {}
  BY DEF Restart
<1>2. /\ files' \in [Hashes -> File \cup {None, Torn}]
      /\ \A h \in Hashes : files'[h] = files[h] \/ files'[h] = Torn
  BY DEF Restart, TypeOK
<1>3. TypeOK'
  BY <1>1, <1>2, BoundsAssumption DEF TypeOK
<1>4. FileInv' /\ ReqInv' /\ OneSubmitter'
  BY <1>1 DEF FileInv, ReqInv, OneSubmitter, Idle, Submitting
<1>5. SentInv' /\ SubmittedOnce' /\ OutcomesAreReal'
  BY <1>1, <1>2, NoneAssumption DEF SentInv, SubmittedOnce, OutcomesAreReal, Readable, Tracked
<1>6. QED
  BY <1>3, <1>4, <1>5

LEMMA NextIInv == IInv /\ [Next]_vars => IInv'
<1> SUFFICES ASSUME IInv, [Next]_vars PROVE IInv'
  OBVIOUS
<1>1. CASE UNCHANGED vars
  BY <1>1 DEF vars, IInv, TypeOK, FileInv, ReqInv, OneSubmitter, SentInv, SubmittedOnce,
              OutcomesAreReal, Readable, Tracked, Idle, Submitting, evidence
<1>2. CASE \E s \in Sessions : OpenSession(s) \/ ExpireSession(s)
  BY <1>2, SessionIInv
<1>3. CASE \E r \in Requests, s \in Sessions, h \in Hashes :
              Status(r, s, h) \/ \E m \in Modes : Submit(r, s, h, m)
  BY <1>3, ArrivalIInv
<1>4. CASE \E r \in Requests : Step(r)
  BY <1>4, TrackIInv, OpenContextIInv, SendIInv, AnswerIInv, AskAdapterIInv, ObserveIInv
  DEF Step
<1>5. CASE \E h \in Hashes : Include(h)
  BY <1>5, IncludeIInv
<1>6. CASE Restart
  BY <1>6, RestartIInv
<1>7. QED
  BY <1>1, <1>2, <1>3, <1>4, <1>5, <1>6 DEF Next

LEMMA Inductive == Spec => []IInv
  BY InitIInv, NextIInv, PTL DEF Spec
------------------------------------------------------------------------------
(* Every variable keeps its type under any number of slots and restarts. *)
THEOREM TypeCorrect == Spec => []TypeOK
<1>1. IInv => TypeOK
  BY DEF IInv
<1>2. QED
  BY <1>1, Inductive, PTL

(* reference-server.ts hands an authorization to an adapter at most once,
   through any interleaving of requests, sessions and restarts. *)
THEOREM Once == Spec => []SubmittedOnce
<1>1. IInv => SubmittedOnce
  BY DEF IInv
<1>2. QED
  BY <1>1, Inductive, PTL

(* An adapter has been given nothing that has no evidence file, and unless a
   write of it failed the file says what memory says: no interleaving of
   submissions and status requests sets the two apart. *)
THEOREM Evidence == Spec => []EvidenceFirst
<1>1. IInv => EvidenceFirst
  BY DEF IInv, SentInv, FileInv, EvidenceFirst, Tracked
<1>2. QED
  BY <1>1, Inductive, PTL

(* Whatever bundlers claim, /status records only the chain's outcomes. *)
THEOREM Real == Spec => []OutcomesAreReal
<1>1. IInv => OutcomesAreReal
  BY DEF IInv
<1>2. QED
  BY <1>1, Inductive, PTL

LEMMA StepKeepsOwner ==
    ASSUME IInv, [Next]_vars, NEW h \in Hashes, h \in Tracked, h \in Tracked', files[h] # None
    PROVE  /\ operations'[h].session = operations[h].session
           /\ operations'[h].mode = operations[h].mode
<1>1. operations[h] \in Record /\ operations'[h] # None
  BY DEF IInv, TypeOK, Tracked
<1>2. CASE operations' = operations
  BY <1>2
<1>3. CASE \E r \in Requests : Track(r)
  <2>1. PICK r \in Requests : Track(r)
    BY <1>3
  <2>2. CASE UNCHANGED operations
    BY <2>2
  <2>3. CASE /\ files[req[r].hash] = None
             /\ \/ Persist(req[r].hash, NewRecord(req[r]))
                \/ PersistThrows(req[r].hash, NewRecord(req[r]))
    <3>1. operations' = [operations EXCEPT ![req[r].hash] = NewRecord(req[r])]
      BY <2>3 DEF Persist, PersistThrows
    <3>2. h # req[r].hash
      BY <2>3
    <3>3. QED
      BY <3>1, <3>2 DEF IInv, TypeOK
  <2>4. QED
    BY <2>1, <2>2, <2>3 DEF Track
<1>4. CASE \E r \in Requests : OpenContext(r) \/ Answer(r) \/ Observe(r)
  <2>1. PICK r \in Requests : OpenContext(r) \/ Answer(r) \/ Observe(r)
    BY <1>4
  <2> DEFINE g == req[r].hash
  <2>2. operations[g] \in Record
    BY <2>1, KnownRecord DEF OpenContext, Answer, Observe, At, Idle
  <2>3. PICK record :
           /\ operations' = operations \/ operations' = [operations EXCEPT ![g] = record]
           /\ record.session = operations[g].session /\ record.mode = operations[g].mode
    <3>1. CASE OpenContext(r)
      BY <2>2, <3>1 DEF OpenContext, PersistAndThrow, PersistThrows, Persist, Record
    <3>2. CASE Answer(r)
      BY <2>2, <3>2 DEF Answer, PersistAndThrow, PersistThrows, Persist, Record
    <3>3. CASE Observe(r)
      BY <2>2, <3>3 DEF Observe, Record
    <3>4. QED
      BY <2>1, <3>1, <3>2, <3>3
  <2>4. QED
    BY <2>3 DEF IInv, TypeOK
<1>5. CASE Restart
  BY <1>1, <1>5 DEF Restart
<1>6. QED
  <2>1. CASE \E r \in Requests : Step(r)
    BY <1>2, <1>3, <1>4, <2>1 DEF Step, Send, AskAdapter
  <2>2. CASE UNCHANGED vars
    BY <1>2, <2>2 DEF vars
  <2>3. CASE \E s \in Sessions : OpenSession(s) \/ ExpireSession(s)
    BY <1>2, <2>3 DEF OpenSession, ExpireSession
  <2>4. CASE \E r \in Requests, s \in Sessions, g \in Hashes :
                Status(r, s, g) \/ \E m \in Modes : Submit(r, s, g, m)
    BY <1>2, <2>4 DEF Status, Submit
  <2>5. CASE \E g \in Hashes : Include(g)
    BY <1>2, <2>5 DEF Include
  <2>6. QED
    BY <1>5, <2>1, <2>2, <2>3, <2>4, <2>5 DEF Next

(* No second session and no second route takes over a tracked operation that
   has its file. *)
THEOREM Owner == Spec => OwnerKept
<1>1. IInv /\ [Next]_vars =>
        [\A h \in Hashes :
            (h \in Tracked /\ h \in Tracked' /\ files[h] # None)
            => /\ operations'[h].session = operations[h].session
               /\ operations'[h].mode = operations[h].mode]_vars
  BY StepKeepsOwner
<1>2. QED
  BY <1>1, Inductive, PTL DEF Spec, OwnerKept
------------------------------------------------------------------------------
(* Slots that passed the limit and have not tracked yet. *)
Waiting == {r \in Requests : At(r, "state")}

(* What is tracked and what may still be: a slot that waits found the limit
   unreached, so the slots can overshoot it together by one less than they are. *)
BoundInv ==
    /\ IsFiniteSet(Tracked)
    /\ Cardinality(Tracked) + Cardinality(Waiting)
         <= MaxOperations + Cardinality(Requests) - 1

LEMMA WaitingFinite ==
    /\ IsFiniteSet(Waiting) /\ Cardinality(Waiting) \in Nat
    /\ Cardinality(Waiting) <= Cardinality(Requests) /\ Cardinality(Requests) \in Nat
    /\ IsFiniteSet(Waiting') /\ Cardinality(Waiting') \in Nat
    /\ Cardinality(Waiting') <= Cardinality(Requests)
<1>1. Waiting \in SUBSET Requests /\ Waiting' \in SUBSET Requests /\ IsFiniteSet(Requests)
  BY BoundsAssumption DEF Waiting
<1>2. QED
  BY <1>1, FS_Subset, FS_CardinalityType

LEMMA InitBoundInv == Init => BoundInv
<1> SUFFICES ASSUME Init PROVE BoundInv
  OBVIOUS
<1>1. Tracked = {} /\ Waiting = {}
  BY DEF Init, Tracked, Waiting, At, Idle
<1>2. IsFiniteSet(Tracked) /\ Cardinality(Tracked) = 0 /\ Cardinality(Waiting) = 0
  BY <1>1, FS_EmptySet
<1>3. QED
  BY <1>2, WaitingFinite, BoundsAssumption DEF BoundInv

(* A step that tracks nothing new and lets no slot past the limit. *)
LEMMA NothingNew ==
    ASSUME BoundInv, Tracked' \subseteq Tracked, Waiting' \subseteq Waiting
    PROVE  BoundInv'
<1>1. IsFiniteSet(Tracked') /\ Cardinality(Tracked') <= Cardinality(Tracked)
      /\ Cardinality(Tracked) \in Nat /\ Cardinality(Tracked') \in Nat
  BY FS_Subset, FS_CardinalityType DEF BoundInv
<1>2. Cardinality(Waiting') <= Cardinality(Waiting)
  BY WaitingFinite, FS_Subset
<1>3. QED
  BY <1>1, <1>2, WaitingFinite, BoundsAssumption DEF BoundInv

LEMMA SubmitBound ==
    ASSUME BoundInv, NEW r \in Requests, NEW s \in Sessions, NEW h \in Hashes, NEW m \in Modes,
           Submit(r, s, h, m)
    PROVE  BoundInv'
<1>1. Tracked' = Tracked /\ Cardinality(Tracked) < MaxOperations
  BY DEF Submit, Tracked
<1>2. Cardinality(Tracked) \in Nat
  BY FS_CardinalityType DEF BoundInv
<1>3. QED
  BY <1>1, <1>2, WaitingFinite, BoundsAssumption DEF BoundInv

LEMMA OneMore ==
    ASSUME NEW S, IsFiniteSet(S), NEW x
    PROVE  IsFiniteSet(S \cup {x}) /\ Cardinality(S \cup {x}) <= Cardinality(S) + 1
<1>1. Cardinality(S) \in Nat
  BY FS_CardinalityType
<1>2. /\ IsFiniteSet(S \cup {x})
      /\ Cardinality(S \cup {x}) = IF x \in S THEN Cardinality(S) ELSE Cardinality(S) + 1
  BY FS_AddElement
<1>3. QED
  BY <1>1, <1>2

LEMMA TrackBound ==
    ASSUME IInv, BoundInv, NEW r \in Requests, Track(r)
    PROVE  BoundInv'
<1> DEFINE h == req[r].hash
<1>1. r \in Waiting /\ h \in Hashes /\ req \in [Requests -> Request \cup {None}]
      /\ operations \in [Hashes -> Record \cup {None}]
  BY DEF Track, Waiting, At, Idle, IInv, TypeOK, Request
<1>2. Waiting' = Waiting \ {r}
  <2>1. \A q \in Requests \ {r} : req'[q] = req[q]
    BY <1>1 DEF Track, Await, Respond
  <2>2. ~At(r, "state")'
    <3>1. req[r] \in Request
      BY <1>1 DEF Waiting, At, Idle
    <3>2. CASE Respond(r)
      BY <1>1, <3>2 DEF Respond, At, Idle
    <3>3. CASE Await(r, IF req[r].mode = "direct" THEN "context" ELSE "submit")
      BY <1>1, <3>1, <3>3 DEF Await, At, Idle, Request
    <3>4. QED
      BY <3>2, <3>3 DEF Track
  <2>3. QED
    BY <2>1, <2>2 DEF Waiting, At, Idle
<1>3. Tracked' \subseteq Tracked \cup {h}
  BY <1>1 DEF Track, PersistThrows, Persist, Tracked
<1>4. /\ IsFiniteSet(Tracked \cup {h})
      /\ Cardinality(Tracked \cup {h}) <= Cardinality(Tracked) + 1
      /\ Cardinality(Tracked) \in Nat
  <2>1. IsFiniteSet(Tracked) /\ Cardinality(Tracked) \in Nat
    BY FS_CardinalityType DEF BoundInv
  <2>2. QED
    BY <2>1, OneMore
<1>5. /\ IsFiniteSet(Tracked') /\ Cardinality(Tracked') \in Nat
      /\ Cardinality(Tracked') <= Cardinality(Tracked \cup {h})
      /\ Cardinality(Tracked \cup {h}) \in Nat
  BY <1>3, <1>4, FS_Subset, FS_CardinalityType
<1>6. Cardinality(Waiting') = Cardinality(Waiting) - 1
  BY <1>1, <1>2, WaitingFinite, FS_RemoveElement
<1>7. QED
  BY <1>4, <1>5, <1>6, WaitingFinite, BoundsAssumption DEF BoundInv

(* Past the first await a slot only amends an operation that is tracked. *)
LEMMA AmendBound ==
    ASSUME IInv, BoundInv, NEW r \in Requests,
           OpenContext(r) \/ Send(r) \/ Answer(r) \/ AskAdapter(r) \/ Observe(r)
    PROVE  BoundInv'
<1> DEFINE h == req[r].hash
<1>1. /\ ~Idle(r) /\ req[r].at # "state" /\ h \in Hashes /\ operations[h] # None
      /\ req \in [Requests -> Request \cup {None}]
      /\ operations \in [Hashes -> Record \cup {None}]
  BY DEF OpenContext, Send, Answer, AskAdapter, Observe, At, Idle, IInv, ReqInv, TypeOK, Request
<1>2. \A g \in Hashes \ {h} : operations'[g] = operations[g]
  BY <1>1 DEF OpenContext, Send, Answer, AskAdapter, Observe, PersistAndThrow, PersistThrows, Persist
<1>3. Tracked' \subseteq Tracked
  BY <1>1, <1>2 DEF Tracked
<1>4. \A q \in Requests \ {r} : req'[q] = req[q]
  BY <1>1 DEF OpenContext, Send, Answer, AskAdapter, Observe, Await, Respond
<1>5. ~At(r, "state")'
  <2>1. req[r] \in Request
    BY <1>1 DEF Idle
  <2>2. CASE Respond(r)
    BY <1>1, <2>2 DEF Respond, At, Idle
  <2>3. CASE Await(r, "submit") \/ Await(r, "answer") \/ Await(r, "receipt")
    BY <1>1, <2>1, <2>3 DEF Await, At, Idle, Request
  <2>4. QED
    BY <2>2, <2>3 DEF OpenContext, Send, Answer, AskAdapter, Observe
<1>6. Waiting' \subseteq Waiting
  BY <1>4, <1>5 DEF Waiting, At, Idle
<1>7. QED
  BY <1>3, <1>6, NothingNew

LEMMA NextBound == IInv /\ BoundInv /\ [Next]_vars => BoundInv'
<1> SUFFICES ASSUME IInv, BoundInv, [Next]_vars PROVE BoundInv'
  OBVIOUS
<1>1. CASE \E s \in Sessions : OpenSession(s) \/ ExpireSession(s)
  BY <1>1, NothingNew DEF OpenSession, ExpireSession, Tracked, Waiting, At, Idle
<1>2. CASE \E r \in Requests, s \in Sessions, h \in Hashes : Status(r, s, h)
  <2>1. PICK r \in Requests, s \in Sessions, h \in Hashes : Status(r, s, h)
    BY <1>2
  <2>2. Tracked' = Tracked
    BY <2>1 DEF Status, Tracked
  <2>3. req'[r].at \in {"receipt", "adapter"} /\ \A q \in Requests \ {r} : req'[q] = req[q]
    BY <2>1 DEF Status, IInv, TypeOK
  <2>4. Waiting' \subseteq Waiting
    BY <2>3 DEF Waiting, At, Idle
  <2>5. QED
    BY <2>2, <2>4, NothingNew
<1>3. CASE \E r \in Requests, s \in Sessions, h \in Hashes, m \in Modes : Submit(r, s, h, m)
  BY <1>3, SubmitBound
<1>4. CASE \E r \in Requests : Step(r)
  BY <1>4, TrackBound, AmendBound DEF Step
<1>5. CASE \E h \in Hashes : Include(h)
  BY <1>5, NothingNew DEF Include, Tracked, Waiting, At, Idle
<1>6. CASE Restart
  BY <1>6, NothingNew DEF Restart, Tracked, Waiting, At, Idle
<1>7. CASE UNCHANGED vars
  BY <1>7, NothingNew DEF vars, Tracked, Waiting, At, Idle
<1>8. QED
  BY <1>1, <1>2, <1>3, <1>4, <1>5, <1>6, <1>7 DEF Next

(* Concurrent submissions overshoot the limit of tracked operations by at
   most the slots that passed it together, less one. *)
THEOREM Bounded == Spec => []OperationsBounded
<1>1. BoundInv => OperationsBounded
  <2>1. BoundInv => Cardinality(Tracked) \in Nat
    BY FS_CardinalityType DEF BoundInv
  <2>2. QED
    BY <2>1, WaitingFinite, BoundsAssumption DEF BoundInv, OperationsBounded
<1>2. QED
  BY <1>1, InitBoundInv, NextBound, Inductive, PTL DEF Spec
==============================================================================
