---------------------------- MODULE AccountAuthority ----------------------------
(***************************************************************************)
(* What the contracts promise: an account obeys the owner it was derived   *)
(* for and nobody else, each authorization is used at most once and on the *)
(* chain it names, and only an account without restrictions can get        *)
(* another owner.                                                          *)
(***************************************************************************)
EXTENDS Integers, Sequences

CONSTANTS Chains, Accounts, Owners,
          Creator,          \* the owner each account's address is derived from
          Restricted,       \* the accounts that cannot change their owner
          Nonces, None

VARIABLES owner,            \* per chain and account: its owner, once it exists
          authorized,       \* authorizations: [signer, chain, account, nonce]
          done              \* per chain, those that were executed, in order

vars == <<owner, authorized, done>>

Init ==
    /\ owner = [c \in Chains |-> [a \in Accounts |-> None]]
    /\ authorized = {}
    /\ done = [c \in Chains |-> <<>>]

Appear(c, a) ==
    /\ owner[c][a] = None
    /\ owner' = [owner EXCEPT ![c][a] = Creator[a]]
    /\ UNCHANGED <<authorized, done>>

Authorize(x) ==
    /\ authorized' = authorized \cup {x}
    /\ UNCHANGED <<owner, done>>

Execute(c, x) ==
    LET current == IF owner[c][x.account] = None THEN Creator[x.account] ELSE owner[c][x.account] IN
    /\ x.chain = c /\ x.signer = current
    /\ \A i \in DOMAIN done[c] : done[c][i].account # x.account \/ done[c][i].nonce # x.nonce
    /\ done' = [done EXCEPT ![c] = Append(@, x)]
    /\ \/ owner' = [owner EXCEPT ![c][x.account] = current]
       \/ x.account \notin Restricted /\ \E o \in Owners : owner' = [owner EXCEPT ![c][x.account] = o]
    /\ UNCHANGED authorized

Authorizations == [signer : Owners, chain : Chains, account : Accounts, nonce : Nonces]

Next ==
    \/ \E c \in Chains, a \in Accounts : Appear(c, a)
    \/ \E x \in Authorizations : Authorize(x)
    \/ \E c \in Chains, x \in authorized : Execute(c, x)

Spec == Init /\ [][Next]_vars
===============================================================================
