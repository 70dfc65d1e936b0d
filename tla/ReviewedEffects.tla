---------------------------- MODULE ReviewedEffects ----------------------------
(***************************************************************************)
(* What the way from the page to the chain promises: an operation of the   *)
(* page takes effect only after its owner reviewed and signed it, once, in *)
(* the order of its account's nonces; and what the owner is told of it is  *)
(* how the chain has it.  An owner may use the account elsewhere, too.     *)
(***************************************************************************)
EXTENDS Naturals, FiniteSets

CONSTANT None           \* an operation without an action of the page, and no answer

VARIABLES approved,     \* operations that were reviewed, signed and posted
          effect,       \* per operation: its outcome in the chain
          told          \* the outcome the page shows: <<operation, outcome>>, or None

vars == <<approved, effect, told>>

Account(op) == <<op.owner, op.profile>>
Nonce(op) == Cardinality({other \in DOMAIN effect : Account(other) = Account(op)})

Init == approved = {} /\ effect = <<>> /\ told = None

Approve(op) ==
    /\ approved' = approved \cup {op}
    /\ UNCHANGED <<effect, told>>

TakeEffect(op, outcome) ==
    /\ op \in approved \/ op.action = None
    /\ op \notin DOMAIN effect /\ op.nonce = Nonce(op)
    /\ effect' = [other \in DOMAIN effect \cup {op} |-> IF other = op THEN outcome ELSE effect[other]]
    /\ UNCHANGED <<approved, told>>

Tell(op) ==
    /\ told' = <<op, effect[op]>>
    /\ UNCHANGED <<approved, effect>>

(* The page asks again, or about another operation.                        *)
Withdraw == told' = None /\ UNCHANGED <<approved, effect>>

Next ==
    \/ \E op \in approved' : Approve(op)
    \/ \E op \in DOMAIN effect' : TakeEffect(op, effect'[op])
    \/ \E op \in DOMAIN effect : Tell(op)
    \/ Withdraw

Spec == Init /\ [][Next]_vars
===============================================================================
