------------------------------ MODULE Enrollment ------------------------------
(***************************************************************************)
(* packages/enrollment: the challenge service and its store.               *)
(*                                                                         *)
(* Several service replicas, each with its own clock and its own           *)
(* server-side scope, issue challenges into one store and serve concurrent *)
(* POST /enroll requests.  enroll() awaits the store and the identity      *)
(* derivation, so a request is a sequence of steps: read the record, check *)
(* it, derive, capture the clock, compare-and-delete, answer.  Between any *)
(* two of them other requests run, clocks move, rows expire and are        *)
(* pruned, and the process may die.                                        *)
(***************************************************************************)
EXTENDS Naturals, FiniteSets

CONSTANTS
    Ids,          \* challenge identifiers randomBytes(32) may draw
    Addresses,    \* Cardano addresses
    Scopes,       \* application + chain + network + configuration hash
    Replicas,     \* service processes
    ScopeOf,      \* the scope each replica is configured with
    Requests,     \* POST /enroll requests; each is made at most once
    Times,        \* readings of Date.now()
    Ttl,          \* ttlMs
    Durable,      \* TRUE: SqliteChallengeStore; FALSE: MemoryChallengeStore
    MaxDamage,    \* bound on damaged rows
    None          \* "no record", "no call"

ASSUME ScopeAssumption == ScopeOf \in [Replicas -> Scopes]
ASSUME TimeAssumption == Times \subseteq Nat /\ Ttl \in Nat \ {0}
ASSUME StoreAssumption ==
    /\ Durable \in BOOLEAN
    /\ MaxDamage \in Nat
    /\ ~Durable => \A r, s \in Replicas : r = s

VARIABLES
    clock,        \* Date.now() of each replica
    store,        \* rows of cardano_challenges
    issued,       \* records returned by issue(), as clients hold them
    signatures,   \* signatures wallets have produced
    damage,       \* rows damaged so far
    pc,           \* where each request is
    call,         \* replica and arguments of each request
    read,         \* the record store.get returned to each request
    at            \* the clock each request passed to store.consume

vars == <<clock, store, issued, signatures, damage, pc, call, read, at>>
wallets == <<issued, signatures>>
requests == <<pc, call, read, at>>
-------------------------------------------------------------------------------
(* The payload is JSON of every field in a fixed order under the enrollment
   domain: two records have the same payload only if all fields agree. *)
Payload(f) ==
    [domain |-> "cardano-kernel:enrollment:v1", challenge |-> f.id,
     scope |-> f.scope, address |-> f.address,
     issuedAt |-> f.issuedAt, expiresAt |-> f.expiresAt]

Payloads == [domain : {"cardano-kernel:enrollment:v1"}, challenge : Ids,
             scope : Scopes, address : Addresses,
             issuedAt : Nat, expiresAt : Nat]

ChallengeRecord == [id : Ids, scope : Scopes, address : Addresses,
                    issuedAt : Nat, expiresAt : Nat, payload : Payloads]

(* id, payload_hex and expires_at are columns; record_json is the record. *)
Row == [id : Ids, payload : Payloads, expires : Nat, record : ChallengeRecord]

Signature == [signer : Addresses, payload : Payloads]
Call == [replica : Replicas, id : Ids, signed : Signature]
PC == {"idle", "reading", "deriving", "derived", "consuming", "consumed",
       "accepted", "rejected", "lost", "lostAfterUse"}

IssuedIds == {f.id : f \in issued}
RowsOf(id) == {row \in store : row.id = id}
Running(q) == pc[q] \in {"reading", "deriving", "derived", "consuming", "consumed"}

(* The challenge was deleted on behalf of q, whether or not the answer left. *)
Used(q) == pc[q] \in {"consumed", "accepted", "lostAfterUse"}
-------------------------------------------------------------------------------
Init ==
    /\ clock \in [Replicas -> Times]
    /\ store = {}
    /\ issued = {}
    /\ signatures = {}
    /\ damage = 0
    /\ pc = [q \in Requests |-> "idle"]
    /\ call = [q \in Requests |-> None]
    /\ read = [q \in Requests |-> None]
    /\ at = [q \in Requests |-> 0]

(* Date.now() of a process: it may jump either way, and replicas disagree. *)
Tick(r) ==
    /\ \E t \in Times \ {clock[r]} : clock' = [clock EXCEPT ![r] = t]
    /\ UNCHANGED <<store, wallets, damage, requests>>

Mutant_IssueReusedId(r, id, a) ==
    LET f == [id |-> id, scope |-> ScopeOf[r], address |-> a,
              issuedAt |-> clock[r], expiresAt |-> clock[r] + Ttl]
        record == [id |-> id, scope |-> f.scope, address |-> a,
                   issuedAt |-> f.issuedAt, expiresAt |-> f.expiresAt,
                   payload |-> Payload(f)]
    IN  /\ RowsOf(id) = {}
        /\ store' = store \cup {[id |-> id, payload |-> record.payload,
                                 expires |-> record.expiresAt, record |-> record]}
        /\ issued' = issued \cup {record}
        /\ UNCHANGED <<clock, signatures, damage, requests>>

(* issue(): 32 random bytes never repeat; put refuses an identifier in use. *)
Issue(r, id, a) ==
    LET f == [id |-> id, scope |-> ScopeOf[r], address |-> a,
              issuedAt |-> clock[r], expiresAt |-> clock[r] + Ttl]
        record == [id |-> id, scope |-> f.scope, address |-> a,
                   issuedAt |-> f.issuedAt, expiresAt |-> f.expiresAt,
                   payload |-> Payload(f)]
    IN  /\ id \notin IssuedIds
        /\ RowsOf(id) = {}
        /\ store' = store \cup {[id |-> id, payload |-> record.payload,
                                 expires |-> record.expiresAt, record |-> record]}
        /\ issued' = issued \cup {record}
        /\ UNCHANGED <<clock, signatures, damage, requests>>

(* A wallet signs the payload of a challenge a client holds.  Any wallet may
   be shown any challenge. *)
WalletSign(a, f) ==
    /\ f \in issued
    /\ signatures' = signatures \cup {[signer |-> a, payload |-> f.payload]}
    /\ UNCHANGED <<clock, store, issued, damage, requests>>

(* Readings a damaged record_json may give: one field beside the payload
   differs from what issue() stored. *)
Damaged(f) ==
    ({[f EXCEPT !.address = a] : a \in Addresses}
     \cup {[f EXCEPT !.scope = s] : s \in Scopes}
     \cup {[f EXCEPT !.expiresAt = f.expiresAt + 1]}) \ {f}

StoreDamaged(row) ==
    /\ Durable
    /\ damage < MaxDamage
    /\ row \in store
    /\ \E g \in Damaged(row.record) :
          store' = (store \ {row}) \cup {[row EXCEPT !.record = g]}
    /\ damage' = damage + 1
    /\ UNCHANGED <<clock, wallets, requests>>

(* POST /enroll up to and including store.get. *)
Enroll(q, r, id, signed) ==
    /\ pc[q] = "idle"
    /\ call' = [call EXCEPT ![q] = [replica |-> r, id |-> id, signed |-> signed]]
    /\ \/ \E row \in RowsOf(id) : read' = [read EXCEPT ![q] = row.record]
       \/ RowsOf(id) = {} /\ UNCHANGED read
    /\ pc' = [pc EXCEPT ![q] = "reading"]
    /\ UNCHANGED <<clock, store, wallets, damage, at>>

(* Everything between the two awaits: expiry, scope, integrity, CIP-8. *)
Unexpired(q) ==
    /\ read[q] # None
    /\ clock[call[q].replica] < read[q].expiresAt
    /\ clock[call[q].replica] >= read[q].issuedAt

ScopeMatches(q) == read[q].scope = ScopeOf[call[q].replica]

Mutant_IntactUnchecked(q) == read[q] # None

Intact(q) == read[q].payload = Payload(read[q])

VerifyCip8(signed, address, payload) ==
    signed.signer = address /\ signed.payload = payload

CheckPasses(q) ==
    /\ Unexpired(q)
    /\ ScopeMatches(q)
    /\ Intact(q)
    /\ VerifyCip8(call[q].signed, read[q].address, read[q].payload)

Check(q) ==
    /\ pc[q] = "reading"
    /\ pc' = [pc EXCEPT ![q] = IF CheckPasses(q) THEN "deriving" ELSE "rejected"]
    /\ UNCHANGED <<clock, store, wallets, damage, call, read, at>>

(* deriveIdentity resolves, or throws (no RPC, wrong table bytecode, ...). *)
Derive(q) ==
    /\ pc[q] = "deriving"
    /\ \E outcome \in {"derived", "rejected"} : pc' = [pc EXCEPT ![q] = outcome]
    /\ UNCHANGED <<clock, store, wallets, damage, call, read, at>>

(* now() is read when consume is called; the DELETE may wait for the lock. *)
CallConsume(q) ==
    /\ pc[q] = "derived"
    /\ at' = [at EXCEPT ![q] = clock[call[q].replica]]
    /\ pc' = [pc EXCEPT ![q] = "consuming"]
    /\ UNCHANGED <<clock, store, wallets, damage, call, read>>

Mutant_ConsumableAnyTime(q) ==
    {row \in RowsOf(call[q].id) : row.payload = read[q].payload}

(* DELETE ... WHERE id = ? AND payload_hex = ? AND expires_at > ?. *)
Consumable(q) ==
    {row \in RowsOf(call[q].id) : row.payload = read[q].payload /\ at[q] < row.expires}

Mutant_ConsumeUncounted(q) ==
    /\ pc[q] = "consuming"
    /\ store' = store \ Consumable(q)
    /\ pc' = [pc EXCEPT ![q] = IF at[q] < read[q].expiresAt THEN "consumed" ELSE "rejected"]
    /\ UNCHANGED <<clock, wallets, damage, call, read, at>>

Mutant_ConsumeDeletesFirst(q) ==
    /\ pc[q] = "consuming"
    /\ store' = store \ RowsOf(call[q].id)
    /\ pc' = [pc EXCEPT ![q] = IF Consumable(q) # {} THEN "consumed" ELSE "rejected"]
    /\ UNCHANGED <<clock, wallets, damage, call, read, at>>

Consume(q) ==
    /\ pc[q] = "consuming"
    /\ store' = store \ Consumable(q)
    /\ pc' = [pc EXCEPT ![q] = IF Consumable(q) # {} THEN "consumed" ELSE "rejected"]
    /\ UNCHANGED <<clock, wallets, damage, call, read, at>>

Respond(q) ==
    /\ pc[q] = "consumed"
    /\ pc' = [pc EXCEPT ![q] = "accepted"]
    /\ UNCHANGED <<clock, store, wallets, damage, call, read, at>>

Prune(r) ==
    /\ \E row \in store : row.expires <= clock[r]
    /\ store' = {row \in store : clock[r] < row.expires}
    /\ UNCHANGED <<clock, wallets, damage, requests>>

(* The process dies and is started again: its requests are never answered,
   and a store kept in memory is empty. *)
Restart(r) ==
    /\ pc' = [q \in Requests |->
                IF ~(Running(q) /\ call[q].replica = r) THEN pc[q]
                ELSE IF pc[q] = "consumed" THEN "lostAfterUse" ELSE "lost"]
    /\ store' = IF Durable THEN store ELSE {}
    /\ UNCHANGED <<clock, wallets, damage, call, read, at>>

RequestStep(q) == Check(q) \/ Derive(q) \/ CallConsume(q) \/ Consume(q) \/ Respond(q)

(* The two routes; what they refuse before the service changes nothing.    *)
Handler ==
    \/ \E r \in Replicas, id \in Ids, a \in Addresses : Issue(r, id, a)
    \/ \E q \in Requests, r \in Replicas, id \in Ids, signed \in signatures :
          Enroll(q, r, id, signed)

Next ==
    \/ \E r \in Replicas : Tick(r) \/ Prune(r) \/ Restart(r)
    \/ Handler
    \/ \E a \in Addresses, f \in issued : WalletSign(a, f)
    \/ \E row \in store : StoreDamaged(row)
    \/ \E q \in Requests : RequestStep(q)

Spec == Init /\ [][Next]_vars
-------------------------------------------------------------------------------
TypeOK ==
    /\ clock \in [Replicas -> Times]
    /\ store \in SUBSET Row
    /\ issued \in SUBSET ChallengeRecord
    /\ signatures \in SUBSET Signature
    /\ damage \in Nat
    /\ pc \in [Requests -> PC]
    /\ call \in [Requests -> Call \cup {None}]
    /\ read \in [Requests -> ChallengeRecord \cup {None}]
    /\ at \in [Requests -> Nat]

(* However many requests carry the same valid signature, to whichever
   replicas, one at most gets the challenge: service.ts answers success only
   after the store deleted the row for that request. *)
OneUsePerChallenge ==
    \A p, q \in Requests :
        Used(p) /\ Used(q) /\ call[p].id = call[q].id => p = q

(* A request that used a challenge enrolls the address the challenge was
   issued to, with that address's own signature over the payload as issued,
   at a replica of the scope it was issued for: no damage to the stored
   record and no replica of another configuration changes who enrolls. *)
UsedWithConsent ==
    \A q \in Requests : Used(q) =>
        \E f \in issued :
            /\ f.id = call[q].id
            /\ f.scope = ScopeOf[call[q].replica]
            /\ f.address = read[q].address
            /\ [signer |-> f.address, payload |-> f.payload] \in signatures

(* The use is stamped before the expiry that was issued, however long
   derivation took and whatever the stored record says of its own expiry. *)
UsedBeforeExpiry ==
    \A q \in Requests, f \in issued :
        Used(q) /\ f.id = call[q].id => at[q] < f.expiresAt

(* store.ts: "Successful verification alone must not delete a challenge".  A
   row goes only to the request it was deleted for, or because a replica saw
   it expire, or with the process that kept it in memory. *)
RemovedForCause ==
    [][\A row \in store : row.id \notin {s.id : s \in store'} =>
          \/ \E q \in Requests : ~Used(q) /\ Used(q)' /\ call[q].id = row.id
          \/ \E r \in Replicas : row.expires <= clock[r]
          \/ ~Durable /\ store' = {}]_vars

-------------------------------------------------------------------------------
(* The abstract challenge each identifier stands for. *)
StoredIds == {row.id : row \in store}
UsedIds == {call[q].id : q \in {p \in Requests : Used(p)}}

PhaseOf(id) ==
    IF id \notin IssuedIds THEN "unissued"
    ELSE IF id \in StoredIds THEN "open"
    ELSE IF id \in UsedIds THEN "used"
    ELSE "void"

HolderOf(id) ==
    IF id \in IssuedIds THEN (CHOOSE f \in issued : f.id = id).address ELSE None

Consented ==
    {f.id : f \in {g \in issued :
                      [signer |-> g.address, payload |-> g.payload] \in signatures}}

OneShot == INSTANCE OneShotChallenge WITH
    phase <- [id \in Ids |-> PhaseOf(id)],
    offeredTo <- [id \in Ids |-> HolderOf(id)],
    consents <- Consented,
    Nobody <- None

(* Enrollment implements the one-shot challenge: deleting the row is the
   moment of redemption, and no order of steps, crash or prune reopens it. *)
ImplementsOneShot == OneShot!Spec
===============================================================================
