--------------------------- MODULE MCProfileAccounts ---------------------------
EXTENDS ProfileAccounts

Owner(k) == [key |-> k, headers |-> "h"]
A == Owner("a")
B == Owner("b")
SmallOrder == Owner("small")

General == [profile |-> "general", policy |-> Zero, policyConfig |-> <<>>, policyCodeHash |-> Zero]
Restricted(policy, config) == [profile |-> "restricted", policy |-> policy, policyConfig |-> config, policyCodeHash |-> CodeHash(policy)]
Targets12 == <<2, 1>>
Selectors == <<Rule(2, <<>>, TRUE, TRUE), Rule(1, <<5, 4>>, FALSE, FALSE)>>
Unsorted == Restricted(TargetPolicy, Targets12)

MCAccounts ==
    LET Account(owner, profile) == [owner |-> owner, profile |-> profile, index |-> 0]
    IN [g |-> Account(A, General), s |-> Account(A, Restricted(SelectorPolicy, EncodeSelectorAllowlist(Selectors))),
        t |-> Account(B, Restricted(TargetPolicy, EncodeTargetAllowlist(Targets12))),
        small |-> Account(SmallOrder, General), unsorted |-> Account(A, Unsorted)]
MCOffered == <<DOMAIN MCAccounts, {"g"}>>

Increment == Call(1, 0, 4)
Transfer == Call(2, 1, EmptyData)
Denied == Call(1, 1, 4)
Admin(wrapped, id) == [wrapped |-> wrapped, canonical |-> TRUE, mode |-> "admin", calls |-> <<>>, root |-> id]

Request(signer, id, n, create, data) ==
    [signer |-> signer, chain |-> 1, id |-> id, nonce |-> n, create |-> create, callData |-> data]
MCRequests ==
    {Request(A, "g", 0, TRUE, EncodeCalls(<<Increment, Denied>>, FALSE)),
     Request(A, "g", 0, FALSE, Admin(FALSE, "t")),
     Request(B, "g", 1, FALSE, EncodeCalls(<<Transfer>>, FALSE)),
     Request(A, "s", 0, TRUE, EncodeCalls(<<Increment, Transfer>>, TRUE)),
     Request(A, "s", 0, FALSE, EncodeCalls(<<Increment, Denied>>, TRUE)),
     Request(A, "s", 1, FALSE, Admin(TRUE, "t")),
     Request(A, "s", 1, FALSE, EncodeCalls(<<Increment>>, FALSE)),
     Request(A, "s", 1, FALSE, [EncodeCalls(<<Increment, Transfer>>, TRUE) EXCEPT !.mode = "try"]),
     Request(B, "t", 0, TRUE, EncodeCalls(<<Call(2, 1, 7), Call(Self, 0, 4)>>, TRUE))}
MCSdkMade == [s |-> Selectors, t |-> Targets12]
===============================================================================
