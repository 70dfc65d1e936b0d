--------------------------- MODULE EnrollmentProofs ---------------------------
(***************************************************************************)
(* Proofs, for any sets of identifiers, replicas, requests and clock       *)
(* readings, that the challenge service keeps its promises.                *)
(***************************************************************************)
EXTENDS Enrollment, TLAPS

(* A row belongs to one issued record and its columns still say so, whatever
   happened to record_json. *)
StoreInv ==
    /\ \A x, y \in store : x.id = y.id => x = y
    /\ \A row \in store : \E f \in issued :
          f.id = row.id /\ f.payload = row.payload /\ f.expiresAt = row.expires

IssuedInv ==
    /\ \A f, g \in issued : f.id = g.id => f = g
    /\ \A f \in issued : f.payload = Payload(f)
    /\ \A s \in signatures : \E f \in issued : s.payload = f.payload

CallInv ==
    \A q \in Requests : pc[q] # "idle" =>
        call[q] \in Call /\ call[q].signed \in signatures

(* What Check established about the record a request read stays true of it. *)
CheckedInv ==
    \A q \in Requests :
        pc[q] \in {"deriving", "derived", "consuming"} \/ Used(q) =>
            /\ read[q] \in ChallengeRecord
            /\ ScopeMatches(q)
            /\ Intact(q)
            /\ VerifyCip8(call[q].signed, read[q].address, read[q].payload)

(* A used challenge was issued with the payload the request read, was used
   before its expiry, and is in the store no more. *)
UsedInv ==
    \A q \in Requests : Used(q) =>
        /\ \E f \in issued :
              f.id = call[q].id /\ f.payload = read[q].payload /\ at[q] < f.expiresAt
        /\ \A row \in store : row.id # call[q].id

IInv ==
    /\ TypeOK
    /\ StoreInv
    /\ IssuedInv
    /\ CallInv
    /\ CheckedInv
    /\ UsedInv
    /\ OneUsePerChallenge
-------------------------------------------------------------------------------
LEMMA InitIInv == Init => IInv
<1> SUFFICES ASSUME Init PROVE IInv
  OBVIOUS
<1>1. TypeOK
  BY DEF Init, TypeOK, PC
<1>2. QED
  BY <1>1 DEF Init, IInv, StoreInv, IssuedInv, CallInv, CheckedInv, UsedInv,
              OneUsePerChallenge, Used

(* The actions that leave every request where it is and add no record. *)
LEMMA EnvironmentIInv ==
    ASSUME IInv, NEW r \in Replicas, Tick(r) \/ Prune(r)
    PROVE  IInv'
<1> USE DEF IInv
<1>1. TypeOK'
  BY DEF TypeOK, Tick, Prune, wallets, requests
<1>2. store' \subseteq store /\ UNCHANGED <<issued, signatures, pc, call, read, at>>
  BY DEF Tick, Prune, wallets, requests
<1>3. QED
  BY <1>1, <1>2 DEF StoreInv, IssuedInv, CallInv, CheckedInv, UsedInv, OneUsePerChallenge,
                    Used, ScopeMatches, Intact

LEMMA IssueIInv ==
    ASSUME IInv, NEW r \in Replicas, NEW id \in Ids, NEW a \in Addresses, Issue(r, id, a)
    PROVE  IInv'
<1> DEFINE f == [id |-> id, scope |-> ScopeOf[r], address |-> a,
                 issuedAt |-> clock[r], expiresAt |-> clock[r] + Ttl]
           g == [id |-> id, scope |-> f.scope, address |-> a,
                 issuedAt |-> f.issuedAt, expiresAt |-> f.expiresAt, payload |-> Payload(f)]
           row == [id |-> id, payload |-> g.payload, expires |-> g.expiresAt, record |-> g]
<1>1. /\ store' = store \cup {row}
      /\ issued' = issued \cup {g}
      /\ UNCHANGED <<clock, signatures, damage, pc, call, read, at>>
      /\ \A h \in issued : h.id # id
      /\ \A x \in store : x.id # id
  BY DEF Issue, wallets, requests, IssuedIds, RowsOf
<1>2. g \in ChallengeRecord /\ g.payload = Payload(g)
  <2>1. clock[r] \in Nat /\ clock[r] + Ttl \in Nat /\ ScopeOf[r] \in Scopes
    <3>1. clock \in [Replicas -> Times]
      BY DEF IInv, TypeOK
    <3>2. clock[r] \in Nat
      BY <3>1, TimeAssumption
    <3>3. QED
      BY <3>2, ScopeAssumption, TimeAssumption
  <2>2. Payload(f) \in Payloads
    BY <2>1 DEF Payload, Payloads
  <2>3. Payload(g) = Payload(f)
    BY DEF Payload
  <2>4. QED
    BY <2>1, <2>2, <2>3 DEF ChallengeRecord
<1>3. row \in Row
  BY <1>2 DEF Row, ChallengeRecord
<1> HIDE DEF f
<1>4. TypeOK'
  BY <1>1, <1>2, <1>3 DEF IInv, TypeOK
<1>5. g.id = id /\ row.id = id /\ row.payload = g.payload /\ row.expires = g.expiresAt
  OBVIOUS
<1> HIDE DEF g, row
<1>6. StoreInv'
  BY <1>1, <1>5 DEF IInv, StoreInv
<1>7. IssuedInv'
  BY <1>1, <1>2, <1>5 DEF IInv, IssuedInv
<1>8. UsedInv'
  <2> SUFFICES ASSUME NEW q \in Requests, Used(q)'
               PROVE  UsedInv!(q)!2'
    BY DEF UsedInv
  <2>1. Used(q) /\ call'[q] = call[q] /\ read'[q] = read[q] /\ at'[q] = at[q]
    BY <1>1 DEF Used
  <2>2. PICK h \in issued :
          h.id = call[q].id /\ h.payload = read[q].payload /\ at[q] < h.expiresAt
    BY <2>1 DEF IInv, UsedInv
  <2>3. call[q].id # id
    BY <1>1, <2>2
  <2>4. QED
    BY <1>1, <1>5, <2>1, <2>2, <2>3 DEF IInv, UsedInv
<1>9. CallInv' /\ CheckedInv' /\ OneUsePerChallenge'
  BY <1>1 DEF IInv, CallInv, CheckedInv, OneUsePerChallenge, Used, ScopeMatches, Intact
<1>10. QED
  BY <1>4, <1>6, <1>7, <1>8, <1>9 DEF IInv

LEMMA WalletSignIInv ==
    ASSUME IInv, NEW a \in Addresses, NEW f \in issued, WalletSign(a, f)
    PROVE  IInv'
<1> USE DEF IInv
<1>1. signatures \subseteq signatures'
      /\ UNCHANGED <<clock, store, issued, damage, pc, call, read, at>>
  BY DEF WalletSign, requests
<1>2. [signer |-> a, payload |-> f.payload] \in Signature
  BY DEF TypeOK, Signature, ChallengeRecord
<1>3. TypeOK'
  BY <1>1, <1>2 DEF TypeOK, WalletSign
<1>4. IssuedInv'
  BY <1>1 DEF IssuedInv, WalletSign
<1>5. QED
  BY <1>1, <1>3, <1>4 DEF StoreInv, CallInv, CheckedInv, UsedInv, OneUsePerChallenge,
                    Used, ScopeMatches, Intact

(* Damage reaches the record a row carries, never the columns. *)
LEMMA StoreDamagedIInv ==
    ASSUME IInv, NEW row \in store, StoreDamaged(row)
    PROVE  IInv'
<1> USE DEF IInv
<1>1. PICK g \in Damaged(row.record) :
        store' = (store \ {row}) \cup {[row EXCEPT !.record = g]}
  BY DEF StoreDamaged
<1>2. UNCHANGED <<clock, issued, signatures, pc, call, read, at>> /\ damage' = damage + 1
  BY DEF StoreDamaged, wallets, requests
<1> DEFINE x == [row EXCEPT !.record = g]
<1>3. row \in Row /\ row.record \in ChallengeRecord
  BY DEF TypeOK, Row
<1>4. g \in ChallengeRecord
  BY <1>3 DEF Damaged, ChallengeRecord
<1>5. x \in Row /\ x.id = row.id /\ x.payload = row.payload /\ x.expires = row.expires
  BY <1>3, <1>4 DEF Row
<1>6. store' = (store \ {row}) \cup {x}
  BY <1>1
<1> HIDE DEF x
<1>7. TypeOK'
  BY <1>2, <1>5, <1>6 DEF TypeOK
<1>8. StoreInv'
  BY <1>2, <1>5, <1>6 DEF StoreInv
<1>9. UsedInv'
  BY <1>2, <1>5, <1>6 DEF UsedInv, Used
<1>10. QED
  BY <1>2, <1>7, <1>8, <1>9 DEF IssuedInv, CallInv, CheckedInv, OneUsePerChallenge,
                                Used, ScopeMatches, Intact

LEMMA EnrollIInv ==
    ASSUME IInv, NEW q \in Requests, NEW r \in Replicas, NEW id \in Ids,
           NEW signed \in signatures, Enroll(q, r, id, signed)
    PROVE  IInv'
<1> USE DEF IInv
<1> DEFINE c == [replica |-> r, id |-> id, signed |-> signed]
<1>1. /\ pc[q] = "idle"
      /\ pc' = [pc EXCEPT ![q] = "reading"]
      /\ call' = [call EXCEPT ![q] = c]
      /\ UNCHANGED <<clock, store, issued, signatures, damage, at>>
  BY DEF Enroll, wallets
<1>2. c \in Call /\ c.signed = signed
  BY DEF TypeOK, Call
<1>3. /\ read' \in [Requests -> ChallengeRecord \cup {None}]
      /\ \A p \in Requests \ {q} : read'[p] = read[p]
  BY DEF Enroll, RowsOf, TypeOK, Row
<1> HIDE DEF c
<1>4. TypeOK'
  BY <1>1, <1>2, <1>3 DEF TypeOK, PC
<1>5. /\ pc'[q] = "reading" /\ call'[q] = c
      /\ \A p \in Requests \ {q} :
            pc'[p] = pc[p] /\ call'[p] = call[p] /\ read'[p] = read[p]
  BY <1>1, <1>3 DEF TypeOK
<1>6. \A p \in Requests : Used(p)' <=> Used(p)
  BY <1>1, <1>5 DEF Used
<1>7. CallInv'
  BY <1>1, <1>2, <1>5 DEF CallInv
<1>8. CheckedInv'
  BY <1>1, <1>5, <1>6 DEF CheckedInv, ScopeMatches, Intact, Used
<1>9. UsedInv' /\ OneUsePerChallenge'
  BY <1>1, <1>5, <1>6 DEF UsedInv, OneUsePerChallenge, Used
<1>10. QED
  BY <1>1, <1>4, <1>7, <1>8, <1>9 DEF StoreInv, IssuedInv

(* The steps of a request that decide nothing about the store. *)
LEMMA QuietStepIInv ==
    ASSUME IInv, NEW q \in Requests,
           Check(q) \/ Derive(q) \/ CallConsume(q) \/ Respond(q)
    PROVE  IInv'
<1> USE DEF IInv
<1>1. UNCHANGED <<clock, store, issued, signatures, damage, call, read>>
  BY DEF Check, Derive, CallConsume, Respond, wallets
<1>2. TypeOK'
  <2>1. call[q] \in Call
    BY DEF CallInv, Check, Derive, CallConsume, Respond
  <2>2. clock[call[q].replica] \in Nat
    BY <2>1, TimeAssumption DEF TypeOK, Call
  <2>3. QED
    BY <1>1, <2>2 DEF TypeOK, PC, Check, Derive, CallConsume, Respond
<1>3. \A p \in Requests : Used(p)' <=> Used(p)
  BY DEF Check, Derive, CallConsume, Respond, Used, TypeOK
<1>4. \A p \in Requests : Used(p) => at'[p] = at[p]
  BY DEF Check, Derive, CallConsume, Respond, Used, TypeOK
<1>5. CheckedInv'
  <2> SUFFICES ASSUME NEW p \in Requests,
                      (pc[p] \in {"deriving", "derived", "consuming"} \/ Used(p))'
               PROVE  /\ read[p] \in ChallengeRecord
                      /\ ScopeMatches(p)
                      /\ Intact(p)
                      /\ VerifyCip8(call[p].signed, read[p].address, read[p].payload)
    BY <1>1 DEF CheckedInv, ScopeMatches, Intact
  <2>1. CASE pc[p] \in {"deriving", "derived", "consuming"} \/ Used(p)
    BY <2>1 DEF CheckedInv
  <2>2. CASE ~(pc[p] \in {"deriving", "derived", "consuming"} \/ Used(p))
    <3>1. p = q /\ Check(q) /\ CheckPasses(q)
      BY <2>2 DEF Check, Derive, CallConsume, Respond, Used, TypeOK
    <3>2. QED
      BY <3>1 DEF CheckPasses, Unexpired, TypeOK
  <2>3. QED
    BY <2>1, <2>2
<1>6. CallInv'
  BY <1>1 DEF CallInv, Check, Derive, CallConsume, Respond, TypeOK
<1>7. QED
  BY <1>1, <1>2, <1>3, <1>4, <1>5, <1>6
     DEF StoreInv, IssuedInv, UsedInv, OneUsePerChallenge

(* The deletion: it succeeds for a request only if the row is still there, and
   then no other request has used the identifier and none will. *)
LEMMA ConsumeIInv ==
    ASSUME IInv, NEW q \in Requests, Consume(q)
    PROVE  IInv'
<1> USE DEF IInv
<1>1. /\ UNCHANGED <<clock, issued, signatures, damage, call, read, at>>
      /\ store' = store \ Consumable(q)
      /\ pc[q] = "consuming"
      /\ pc' = [pc EXCEPT ![q] = IF Consumable(q) # {} THEN "consumed" ELSE "rejected"]
  BY DEF Consume, wallets
<1>2. TypeOK'
  BY <1>1 DEF TypeOK, PC
<1>3. StoreInv'
  BY <1>1 DEF StoreInv
<1>4. \A p \in Requests \ {q} : pc'[p] = pc[p] /\ (Used(p)' <=> Used(p))
  BY <1>1 DEF TypeOK, Used
<1>5. Used(q)' <=> Consumable(q) # {}
  BY <1>1 DEF TypeOK, Used
<1>6. CallInv' /\ CheckedInv'
  <2>1. pc'[q] # "idle" /\ pc'[q] \notin {"deriving", "derived", "consuming"}
    BY <1>1 DEF TypeOK
  <2>2. QED
    BY <1>1, <1>4, <2>1 DEF CallInv, CheckedInv, ScopeMatches, Intact
<1>7. CASE Consumable(q) = {}
  BY <1>1, <1>2, <1>3, <1>4, <1>5, <1>6, <1>7
     DEF IssuedInv, UsedInv, OneUsePerChallenge
<1>8. CASE Consumable(q) # {}
  <2>1. PICK row \in store :
          row.id = call[q].id /\ row.payload = read[q].payload /\ at[q] < row.expires
    BY <1>8 DEF Consumable, RowsOf
  <2>2. PICK f \in issued :
          f.id = call[q].id /\ f.payload = read[q].payload /\ at[q] < f.expiresAt
    BY <2>1 DEF StoreInv
  <2>3. \A x \in store' : x.id # call[q].id
    BY <1>1, <2>1 DEF StoreInv, Consumable, RowsOf
  <2>4. \A p \in Requests \ {q} : Used(p) => call[p].id # call[q].id
    BY <2>1 DEF UsedInv
  <2>5. UsedInv'
    BY <1>1, <1>4, <2>2, <2>3 DEF UsedInv
  <2>6. OneUsePerChallenge'
    BY <1>1, <1>4, <2>4 DEF OneUsePerChallenge
  <2>7. QED
    BY <1>1, <1>2, <1>3, <1>6, <2>5, <2>6 DEF IssuedInv
<1>9. QED
  BY <1>7, <1>8

LEMMA RestartIInv ==
    ASSUME IInv, NEW r \in Replicas, Restart(r)
    PROVE  IInv'
<1> USE DEF IInv
<1>1. UNCHANGED <<clock, issued, signatures, damage, call, read, at>> /\ store' \subseteq store
  BY DEF Restart, wallets
<1>2. TypeOK'
  BY <1>1 DEF TypeOK, PC, Restart
<1>3. \A q \in Requests :
        \/ pc'[q] = pc[q]
        \/ Running(q) /\ pc'[q] = "lost" /\ pc[q] # "consumed"
        \/ pc[q] = "consumed" /\ pc'[q] = "lostAfterUse"
  BY DEF Restart
<1>4. \A q \in Requests : Used(q)' <=> Used(q)
  BY <1>3 DEF Used, Running
<1>5. CallInv'
  BY <1>1, <1>3 DEF CallInv, Running
<1>6. CheckedInv'
  BY <1>1, <1>3, <1>4 DEF CheckedInv, ScopeMatches, Intact
<1>7. QED
  BY <1>1, <1>2, <1>4, <1>5, <1>6 DEF StoreInv, IssuedInv, UsedInv, OneUsePerChallenge

LEMMA NextIInv == IInv /\ [Next]_vars => IInv'
<1> SUFFICES ASSUME IInv, [Next]_vars PROVE IInv'
  OBVIOUS
<1>1. CASE UNCHANGED vars
  BY <1>1 DEF vars, IInv, TypeOK, StoreInv, IssuedInv, CallInv, CheckedInv, UsedInv,
              OneUsePerChallenge, Used, ScopeMatches, Intact
<1>2. ASSUME NEW r \in Replicas, Tick(r) \/ Prune(r) PROVE IInv'
  BY <1>2, EnvironmentIInv
<1>3. ASSUME NEW r \in Replicas, Restart(r) PROVE IInv'
  BY <1>3, RestartIInv
<1>4. ASSUME NEW r \in Replicas, NEW id \in Ids, NEW a \in Addresses, Issue(r, id, a)
      PROVE  IInv'
  BY <1>4, IssueIInv
<1>5. ASSUME NEW a \in Addresses, NEW f \in issued, WalletSign(a, f) PROVE IInv'
  BY <1>5, WalletSignIInv
<1>6. ASSUME NEW row \in store, StoreDamaged(row) PROVE IInv'
  BY <1>6, StoreDamagedIInv
<1>7. ASSUME NEW q \in Requests, NEW r \in Replicas, NEW id \in Ids,
             NEW signed \in signatures, Enroll(q, r, id, signed)
      PROVE  IInv'
  BY <1>7, EnrollIInv
<1>8. ASSUME NEW q \in Requests, RequestStep(q) PROVE IInv'
  BY <1>8, QuietStepIInv, ConsumeIInv DEF RequestStep
<1>9. QED
  BY <1>1, <1>2, <1>3, <1>4, <1>5, <1>6, <1>7, <1>8 DEF Next, Handler

LEMMA Inductive == Spec => []IInv
  BY InitIInv, NextIInv, PTL DEF Spec
-------------------------------------------------------------------------------
(* Every variable keeps its type under any number of replicas and requests. *)
THEOREM TypeCorrect == Spec => []TypeOK
<1>1. IInv => TypeOK
  BY DEF IInv
<1>2. QED
  BY <1>1, Inductive, PTL

(* At most one request is ever granted a challenge: enroll() of service.ts
   together with the compare-and-delete of the stores. *)
THEOREM OneUse == Spec => []OneUsePerChallenge
<1>1. IInv => OneUsePerChallenge
  BY DEF IInv
<1>2. QED
  BY <1>1, Inductive, PTL

LEMMA Consenting == IInv => UsedWithConsent
<1> SUFFICES ASSUME IInv, NEW q \in Requests, Used(q)
             PROVE  \E f \in issued :
                      /\ f.id = call[q].id
                      /\ f.scope = ScopeOf[call[q].replica]
                      /\ f.address = read[q].address
                      /\ [signer |-> f.address, payload |-> f.payload] \in signatures
  BY DEF UsedWithConsent
<1>1. PICK f \in issued :
        f.id = call[q].id /\ f.payload = read[q].payload /\ at[q] < f.expiresAt
  BY DEF IInv, UsedInv
<1>2. /\ read[q].payload = Payload(read[q])
      /\ read[q].scope = ScopeOf[call[q].replica]
      /\ call[q].signed.signer = read[q].address
      /\ call[q].signed.payload = read[q].payload
  BY DEF IInv, CheckedInv, Intact, ScopeMatches, VerifyCip8
<1>3. Payload(f) = Payload(read[q])
  BY <1>1, <1>2 DEF IInv, IssuedInv
<1>4. f.scope = read[q].scope /\ f.address = read[q].address
  BY <1>3 DEF Payload
<1>5. call[q].signed \in signatures /\ call[q].signed \in Signature
  BY DEF IInv, CallInv, TypeOK, Used
<1>6. call[q].signed = [signer |-> f.address, payload |-> f.payload]
  BY <1>1, <1>2, <1>4, <1>5 DEF Signature
<1>7. QED
  BY <1>1, <1>2, <1>4, <1>5, <1>6

(* Whoever is enrolled asked for that challenge, in that scope, and signed it. *)
THEOREM Consent == Spec => []UsedWithConsent
<1>1. IInv => UsedWithConsent
  BY Consenting
<1>2. QED
  BY <1>1, Inductive, PTL

(* No use is stamped at or after the expiry that was issued. *)
THEOREM Expiry == Spec => []UsedBeforeExpiry
<1>1. IInv => UsedBeforeExpiry
  BY DEF IInv, UsedInv, IssuedInv, UsedBeforeExpiry
<1>2. QED
  BY <1>1, Inductive, PTL

(* A failed attempt never costs a client its challenge. *)
THEOREM Removal == Spec => RemovedForCause
<1>1. IInv /\ [Next]_vars =>
        [\A row \in store : row.id \notin {s.id : s \in store'} =>
            \/ \E q \in Requests : ~Used(q) /\ Used(q)' /\ call[q].id = row.id
            \/ \E r \in Replicas : row.expires <= clock[r]
            \/ ~Durable /\ store' = {}]_vars
  <2> SUFFICES ASSUME IInv, Next, NEW row \in store, row.id \notin {s.id : s \in store'}
               PROVE  \/ \E q \in Requests : ~Used(q) /\ Used(q)' /\ call[q].id = row.id
                      \/ \E r \in Replicas : row.expires <= clock[r]
                      \/ ~Durable /\ store' = {}
    OBVIOUS
  <2>1. \A s \in store' : s.id # row.id
    OBVIOUS
  <2>2. row \notin store'
    BY <2>1
  <2>3. ASSUME NEW r \in Replicas, Prune(r) PROVE row.expires <= clock[r]
    BY <2>2, <2>3, TimeAssumption DEF Prune, IInv, TypeOK, Row
  <2>4. ASSUME NEW r \in Replicas, Restart(r) PROVE ~Durable /\ store' = {}
    BY <2>2, <2>4 DEF Restart
  <2>5. ASSUME NEW q \in Requests, Consume(q)
        PROVE  ~Used(q) /\ Used(q)' /\ call[q].id = row.id
    BY <2>2, <2>5 DEF Consume, Consumable, RowsOf, Used, IInv, TypeOK
  <2>6. ASSUME NEW x \in store, StoreDamaged(x) PROVE FALSE
    <3>1. PICK g \in Damaged(x.record) :
            store' = (store \ {x}) \cup {[x EXCEPT !.record = g]}
      BY <2>6 DEF StoreDamaged
    <3>2. [x EXCEPT !.record = g].id = x.id
      BY DEF IInv, TypeOK, Row
    <3>3. QED
      BY <2>1, <2>2, <3>1, <3>2
  <2>7. ASSUME NEW r \in Replicas, NEW id \in Ids, NEW a \in Addresses, Issue(r, id, a)
        PROVE  FALSE
    BY <2>2, <2>7 DEF Issue
  <2>8. CASE store' = store
    BY <2>2, <2>8
  <2>9. QED
    BY <2>3, <2>4, <2>5, <2>6, <2>7, <2>8
       DEF Next, Handler, Tick, WalletSign, Enroll, RequestStep, Check, Derive, CallConsume, Respond
<1>2. QED
  BY <1>1, Inductive, PTL DEF Spec, RemovedForCause
-------------------------------------------------------------------------------
(* The refinement. *)
LEMMA HolderKnown ==
    ASSUME IssuedInv, NEW f \in issued
    PROVE  HolderOf(f.id) = f.address
  BY DEF HolderOf, IssuedInv, IssuedIds

(* Steps that issue, sign, store and use nothing are invisible. *)
LEMMA Invisible ==
    ASSUME UNCHANGED <<issued, signatures>>, StoredIds' = StoredIds, UsedIds' = UsedIds
    PROVE  UNCHANGED OneShot!vars
<1>1. IssuedIds' = IssuedIds /\ Consented' = Consented
  BY DEF IssuedIds, Consented
<1>2. \A id \in Ids : PhaseOf(id)' = PhaseOf(id) /\ HolderOf(id)' = HolderOf(id)
  BY <1>1 DEF PhaseOf, HolderOf
<1>3. QED
  BY <1>1, <1>2 DEF OneShot!vars

LEMMA SameUsed ==
    ASSUME UNCHANGED call, \A q \in Requests : Used(q)' <=> Used(q)
    PROVE  UsedIds' = UsedIds
  BY DEF UsedIds

LEMMA IssueRefines ==
    ASSUME IInv, IInv', NEW r \in Replicas, NEW id \in Ids, NEW a \in Addresses,
           Issue(r, id, a)
    PROVE  OneShot!Offer(id, a)
<1>1. PICK f \in ChallengeRecord :
        /\ f.id = id /\ f.address = a
        /\ issued' = issued \cup {f}
        /\ StoredIds' = StoredIds \cup {id}
  <2> DEFINE f == [id |-> id, scope |-> ScopeOf[r], address |-> a,
                   issuedAt |-> clock[r], expiresAt |-> clock[r] + Ttl]
             g == [id |-> id, scope |-> f.scope, address |-> a,
                   issuedAt |-> f.issuedAt, expiresAt |-> f.expiresAt,
                   payload |-> Payload(f)]
  <2>1. issued' = issued \cup {g} /\ g.id = id /\ g.address = a
    BY DEF Issue
  <2>2. StoredIds' = StoredIds \cup {id}
    <3> DEFINE row == [id |-> id, payload |-> g.payload, expires |-> g.expiresAt,
                       record |-> g]
    <3>1. store' = store \cup {row}
      BY DEF Issue
    <3>2. row.id = id
      OBVIOUS
    <3> HIDE DEF row
    <3>3. QED
      BY <3>1, <3>2 DEF StoredIds
  <2>3. g \in ChallengeRecord
    BY <2>1 DEF IInv, TypeOK
  <2>4. QED
    BY <2>1, <2>2, <2>3
<1>2. id \notin IssuedIds /\ IssuedIds' = IssuedIds \cup {id}
  BY <1>1 DEF IssuedIds, Issue
<1>3. UsedIds' = UsedIds
  BY SameUsed DEF Issue, requests, Used
<1>4. \A x \in Ids : PhaseOf(x)' = IF x = id THEN "open" ELSE PhaseOf(x)
  BY <1>1, <1>2, <1>3 DEF PhaseOf
<1>5. \A x \in Ids : HolderOf(x)' = IF x = id THEN a ELSE HolderOf(x)
  <2> SUFFICES ASSUME NEW x \in Ids
               PROVE  HolderOf(x)' = IF x = id THEN a ELSE HolderOf(x)
    OBVIOUS
  <2>1. CASE x \notin IssuedIds'
    BY <1>2, <2>1 DEF HolderOf
  <2>2. CASE x \in IssuedIds'
    <3>1. PICK h \in issued' : h.id = x
      BY <2>2 DEF IssuedIds
    <3>2. \A k \in issued' : k.id = x => k = h
      BY <3>1 DEF IInv, IssuedInv
    <3>3. HolderOf(x)' = h.address
      BY <2>2, <3>1, <3>2 DEF HolderOf
    <3>4. CASE x = id
      BY <1>1, <3>2, <3>3, <3>4
    <3>5. CASE x # id
      <4>1. h \in issued /\ x \in IssuedIds
        BY <1>1, <3>1, <3>5 DEF IssuedIds
      <4>2. \A k \in issued : k.id = x => k = h
        BY <3>2, <1>1
      <4>3. QED
        BY <3>1, <3>3, <3>5, <4>1, <4>2 DEF HolderOf
    <3>6. QED
      BY <3>4, <3>5
  <2>3. QED
    BY <2>1, <2>2
<1>6. Consented' = Consented
  <2>1. UNCHANGED signatures
    BY DEF Issue
  <2>2. ASSUME NEW s \in signatures PROVE s.payload # f.payload
    <3>1. PICK h \in issued : s.payload = h.payload /\ h.id # id
      BY <1>2 DEF IInv, IssuedInv, IssuedIds
    <3>2. h.payload = Payload(h) /\ f.payload = Payload(f)
      BY <1>1, <3>1 DEF IInv, IssuedInv
    <3>3. h.payload.challenge = h.id /\ f.payload.challenge = f.id
      BY <3>2 DEF Payload
    <3>4. QED
      BY <1>1, <3>1, <3>3
  <2>3. [signer |-> f.address, payload |-> f.payload] \notin signatures
    BY <2>2
  <2>4. QED
    BY <1>1, <2>1, <2>3 DEF Consented
<1>7. QED
  BY <1>2, <1>4, <1>5, <1>6 DEF OneShot!Offer, PhaseOf

LEMMA WalletSignRefines ==
    ASSUME IInv, NEW a \in Addresses, NEW f \in issued, WalletSign(a, f)
    PROVE  OneShot!Consent(f.id) \/ UNCHANGED OneShot!vars
<1>1. /\ UNCHANGED <<store, issued, pc, call>>
      /\ signatures' = signatures \cup {[signer |-> a, payload |-> f.payload]}
  BY DEF WalletSign, requests
<1>2. IssuedIds' = IssuedIds /\ StoredIds' = StoredIds /\ UsedIds' = UsedIds
  BY <1>1 DEF IssuedIds, StoredIds, UsedIds, Used
<1>3. \A id \in Ids : PhaseOf(id)' = PhaseOf(id) /\ HolderOf(id)' = HolderOf(id)
  BY <1>1, <1>2 DEF PhaseOf, HolderOf
<1>4. ASSUME NEW g \in issued, g.payload = f.payload PROVE g = f
  <2>1. Payload(g) = Payload(f)
    BY <1>4 DEF IInv, IssuedInv
  <2>2. g.id = f.id
    BY <2>1 DEF Payload
  <2>3. QED
    BY <2>2 DEF IInv, IssuedInv
<1>5. CASE a = f.address
  <2>1. Consented' = Consented \cup {f.id}
    BY <1>1, <1>4, <1>5 DEF Consented
  <2>2. f.id \in IssuedIds
    BY DEF IssuedIds
  <2>3. PhaseOf(f.id) # "unissued" /\ f.id \in Ids
    BY <2>2 DEF PhaseOf, IInv, TypeOK, ChallengeRecord
  <2>4. QED
    BY <1>3, <2>1, <2>3 DEF OneShot!Consent
<1>6. CASE a # f.address
  <2>1. \A g \in issued :
          [signer |-> g.address, payload |-> g.payload] # [signer |-> a, payload |-> f.payload]
    BY <1>4, <1>6
  <2>2. Consented' = Consented
    BY <1>1, <2>1 DEF Consented
  <2>3. QED
    BY <1>3, <2>2 DEF OneShot!vars
<1>7. QED
  BY <1>5, <1>6

LEMMA ConsumeRefines ==
    ASSUME IInv, IInv', NEW q \in Requests, Consume(q)
    PROVE  OneShot!Redeem(call[q].id) \/ UNCHANGED OneShot!vars
<1>1. /\ UNCHANGED <<issued, signatures, call>>
      /\ store' = store \ Consumable(q)
      /\ pc[q] = "consuming"
      /\ pc' = [pc EXCEPT ![q] = IF Consumable(q) # {} THEN "consumed" ELSE "rejected"]
  BY DEF Consume, wallets
<1>2. \A p \in Requests \ {q} : Used(p)' <=> Used(p)
  BY <1>1 DEF IInv, TypeOK, Used
<1>3. (Used(q)' <=> Consumable(q) # {}) /\ ~Used(q)
  BY <1>1 DEF IInv, TypeOK, Used
<1>4. CASE Consumable(q) = {}
  <2>1. StoredIds' = StoredIds /\ UsedIds' = UsedIds
    BY <1>1, <1>2, <1>3, <1>4, SameUsed DEF StoredIds
  <2>2. QED
    BY <1>1, <2>1, Invisible
<1>5. CASE Consumable(q) # {}
  <2> DEFINE id == call[q].id
  <2>1. id \in Ids /\ id \in StoredIds /\ id \in IssuedIds
    <3>1. PICK row \in store : row.id = id
      BY <1>5 DEF Consumable, RowsOf
    <3>2. QED
      BY <3>1 DEF IInv, TypeOK, Row, StoredIds, StoreInv, IssuedIds
  <2>2. id \in Consented
    <3>1. UsedWithConsent'
      BY Consenting, PTL
    <3>2. PICK f \in issued :
            f.id = id /\ [signer |-> f.address, payload |-> f.payload] \in signatures
      BY <1>1, <1>3, <1>5, <3>1 DEF UsedWithConsent
    <3>3. QED
      BY <3>2 DEF Consented
  <2>3. StoredIds' = StoredIds \ {id}
    <3>1. \A row \in store' : row.id # id
      BY <1>3, <1>5, <1>1 DEF IInv, UsedInv
    <3>2. \A row \in store \ store' : row.id = id
      BY <1>1 DEF Consumable, RowsOf
    <3>3. QED
      BY <1>1, <3>1, <3>2 DEF StoredIds
  <2>4. UsedIds' = UsedIds \cup {id}
    BY <1>1, <1>2, <1>3, <1>5 DEF UsedIds
  <2>5. IssuedIds' = IssuedIds /\ Consented' = Consented
        /\ \A x \in Ids : HolderOf(x)' = HolderOf(x)
    BY <1>1 DEF IssuedIds, Consented, HolderOf
  <2> HIDE DEF id
  <2>6. \A x \in Ids : PhaseOf(x)' = IF x = id THEN "used" ELSE PhaseOf(x)
    BY <2>1, <2>3, <2>4, <2>5 DEF PhaseOf
  <2>7. PhaseOf(id) = "open"
    BY <2>1 DEF PhaseOf
  <2>8. OneShot!Redeem(id)
    BY <2>1, <2>2, <2>5, <2>6, <2>7 DEF OneShot!Redeem
  <2>9. QED
    BY <2>8 DEF id
<1>6. QED
  BY <1>4, <1>5

(* Rows leave with no request served: what Prune and Restart look like. *)
LEMMA WithdrawRefines ==
    ASSUME IInv, store' \subseteq store, UNCHANGED <<issued, signatures, call>>,
           \A q \in Requests : Used(q)' <=> Used(q)
    PROVE  OneShot!Withdraw(StoredIds \ StoredIds')
<1> DEFINE gone == StoredIds \ StoredIds'
<1>1. UsedIds' = UsedIds
  BY SameUsed
<1>2. IssuedIds' = IssuedIds /\ Consented' = Consented
      /\ \A x \in Ids : HolderOf(x)' = HolderOf(x)
  BY DEF IssuedIds, Consented, HolderOf
<1>3. StoredIds' = StoredIds \ gone
  BY DEF StoredIds
<1>4. gone \subseteq StoredIds /\ StoredIds \subseteq IssuedIds /\ StoredIds \subseteq Ids
  BY DEF StoredIds, IssuedIds, IInv, StoreInv, TypeOK, Row
<1>5. StoredIds \cap UsedIds = {}
  BY DEF StoredIds, UsedIds, IInv, UsedInv
<1> HIDE DEF gone
<1>6. \A x \in gone : PhaseOf(x) = "open"
  BY <1>4 DEF PhaseOf
<1>7. \A x \in Ids : PhaseOf(x)' = IF x \in gone THEN "void" ELSE PhaseOf(x)
  BY <1>1, <1>2, <1>3, <1>4, <1>5 DEF PhaseOf
<1>8. OneShot!Withdraw(gone)
  BY <1>2, <1>4, <1>6, <1>7 DEF OneShot!Withdraw
<1>9. QED
  BY <1>8 DEF gone

LEMMA StepRefines == IInv /\ IInv' /\ [Next]_vars => [OneShot!Next]_(OneShot!vars)
<1> SUFFICES ASSUME IInv, IInv', [Next]_vars, ~ UNCHANGED OneShot!vars
             PROVE  OneShot!Next
  OBVIOUS
<1>1. ASSUME UNCHANGED <<store, issued, signatures, call>>,
             \A q \in Requests : Used(q)' <=> Used(q)
      PROVE  FALSE
  BY <1>1, SameUsed, Invisible DEF StoredIds
<1>2. CASE UNCHANGED vars
  BY <1>1, <1>2 DEF vars, Used
<1>3. ASSUME NEW r \in Replicas, Tick(r) PROVE FALSE
  BY <1>1, <1>3 DEF Tick, wallets, requests, Used
<1>4. ASSUME NEW r \in Replicas, Prune(r) \/ Restart(r) PROVE OneShot!Next
  <2>1. store' \subseteq store /\ UNCHANGED <<issued, signatures, call>>
    BY <1>4 DEF Prune, Restart, wallets, requests
  <2>2. \A q \in Requests : Used(q)' <=> Used(q)
    BY <1>4 DEF Prune, Restart, requests, Used, Running
  <2>3. StoredIds \ StoredIds' \in SUBSET Ids
    BY DEF StoredIds, IInv, TypeOK, Row
  <2>4. QED
    BY <2>1, <2>2, <2>3, WithdrawRefines DEF OneShot!Next
<1>5. ASSUME NEW r \in Replicas, NEW id \in Ids, NEW a \in Addresses, Issue(r, id, a)
      PROVE  OneShot!Next
  BY <1>5, IssueRefines DEF OneShot!Next
<1>6. ASSUME NEW a \in Addresses, NEW f \in issued, WalletSign(a, f) PROVE OneShot!Next
  <2>1. f.id \in Ids
    BY DEF IInv, TypeOK, ChallengeRecord
  <2>2. QED
    BY <1>6, <2>1, WalletSignRefines DEF OneShot!Next
<1>7. ASSUME NEW row \in store, StoreDamaged(row) PROVE FALSE
  <2>1. PICK g \in Damaged(row.record) :
          store' = (store \ {row}) \cup {[row EXCEPT !.record = g]}
    BY <1>7 DEF StoreDamaged
  <2>2. [row EXCEPT !.record = g].id = row.id
    BY DEF IInv, TypeOK, Row
  <2>3. StoredIds' = StoredIds
    BY <2>1, <2>2 DEF StoredIds
  <2>4. UNCHANGED <<issued, signatures, pc, call>>
    BY <1>7 DEF StoreDamaged, wallets, requests
  <2>5. QED
    BY <2>3, <2>4, SameUsed, Invisible DEF Used
<1>8. ASSUME NEW q \in Requests, NEW r \in Replicas, NEW id \in Ids,
             NEW signed \in signatures, Enroll(q, r, id, signed)
      PROVE  FALSE
  <2>1. UNCHANGED <<store, issued, signatures>>
    BY <1>8 DEF Enroll, wallets
  <2>2. pc[q] = "idle" /\ pc'[q] = "reading"
        /\ \A p \in Requests \ {q} : pc'[p] = pc[p] /\ call'[p] = call[p]
    BY <1>8 DEF Enroll, IInv, TypeOK
  <2>3. UsedIds' = UsedIds
    BY <2>2 DEF UsedIds, Used
  <2>4. QED
    BY <2>1, <2>3, Invisible DEF StoredIds
<1>9. ASSUME NEW q \in Requests, Consume(q) PROVE OneShot!Next
  <2>1. call[q].id \in Ids
    BY <1>9 DEF Consume, IInv, CallInv, Call
  <2>2. QED
    BY <1>9, <2>1, ConsumeRefines DEF OneShot!Next
<1>10. ASSUME NEW q \in Requests, Check(q) \/ Derive(q) \/ CallConsume(q) \/ Respond(q)
       PROVE  FALSE
  BY <1>1, <1>10 DEF Check, Derive, CallConsume, Respond, wallets, Used, IInv, TypeOK
<1>11. QED
  BY <1>2, <1>3, <1>4, <1>5, <1>6, <1>7, <1>8, <1>9, <1>10 DEF Next, Handler, RequestStep

LEMMA InitRefines == Init => OneShot!Init
  BY DEF Init, OneShot!Init, PhaseOf, HolderOf, Consented, IssuedIds

(* The service with its clocks, stores, restarts and concurrent requests is
   the one-shot challenge: service.ts and the ChallengeStore contract. *)
THEOREM Refinement == Spec => ImplementsOneShot
<1>1. IInv /\ IInv' /\ [Next]_vars => [OneShot!Next]_(OneShot!vars)
  BY StepRefines
<1>2. QED
  BY <1>1, InitRefines, Inductive, PTL DEF Spec, ImplementsOneShot, OneShot!Spec
===============================================================================
