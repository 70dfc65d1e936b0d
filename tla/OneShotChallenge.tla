--------------------------- MODULE OneShotChallenge ---------------------------
(***************************************************************************)
(* What enrollment promises about a challenge, with no store, no clock and *)
(* no request in sight: a challenge is offered once, to one address; it    *)
(* can be redeemed at most once, and only after the wallet of that address *)
(* consented; and an offer that is redeemed or withdrawn never reopens.    *)
(***************************************************************************)
CONSTANTS
    Ids,         \* challenge identifiers
    Addresses,   \* Cardano addresses that may ask for a challenge
    Nobody       \* the address of an identifier that was never offered

VARIABLES
    phase,       \* life of each identifier
    offeredTo,   \* the address each identifier was offered to
    consents     \* identifiers whose own address signed the offer

vars == <<phase, offeredTo, consents>>

Phases == {"unissued", "open", "used", "void"}

TypeOK ==
    /\ phase \in [Ids -> Phases]
    /\ offeredTo \in [Ids -> Addresses \cup {Nobody}]
    /\ consents \in SUBSET Ids

Init ==
    /\ phase = [id \in Ids |-> "unissued"]
    /\ offeredTo = [id \in Ids |-> Nobody]
    /\ consents = {}

Offer(id, a) ==
    /\ phase[id] = "unissued"
    /\ phase' = [phase EXCEPT ![id] = "open"]
    /\ offeredTo' = [offeredTo EXCEPT ![id] = a]
    /\ UNCHANGED consents

Consent(id) ==
    /\ phase[id] # "unissued"
    /\ consents' = consents \cup {id}
    /\ UNCHANGED <<phase, offeredTo>>

Redeem(id) ==
    /\ phase[id] = "open"
    /\ id \in consents
    /\ phase' = [phase EXCEPT ![id] = "used"]
    /\ UNCHANGED <<offeredTo, consents>>

(* Expired offers are swept, and a store kept in memory dies with its
   process: several offers may be withdrawn in one step. *)
Withdraw(gone) ==
    /\ \A id \in gone : phase[id] = "open"
    /\ phase' = [id \in Ids |-> IF id \in gone THEN "void" ELSE phase[id]]
    /\ UNCHANGED <<offeredTo, consents>>

Next ==
    \/ \E id \in Ids, a \in Addresses : Offer(id, a)
    \/ \E id \in Ids : Consent(id)
    \/ \E id \in Ids : Redeem(id)
    \/ \E gone \in SUBSET Ids : Withdraw(gone)

Spec == Init /\ [][Next]_vars
===============================================================================
