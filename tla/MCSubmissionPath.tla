--------------------------- MODULE MCSubmissionPath ---------------------------
EXTENDS SubmissionPath

Policy(kind, revision, rules) ==
    [kind |-> kind, revision |-> revision, senders |-> <<>>, factories |-> <<{"factory"}>>, paymasters |-> <<{}>>, rules |-> rules]
RuleFor(target) == [target |-> target, selectors |-> {4}, allowEmpty |-> FALSE, maxValue |-> 0]
File(restart, rules, rate, concurrent) ==
    [entryPoint |-> "this", restart |-> restart, policy |-> Policy("allowlist", rate, rules),
     limits |-> [gas |-> 10, maxFee |-> 2, maxCost |-> 20], requestsPerMinute |-> rate, maxConcurrent |-> concurrent]
MCFiles == <<File("a", <<RuleFor(1), RuleFor(2)>>, 2, 2), File("a", <<RuleFor(1)>>, 1, 1), File("b", <<RuleFor(1), RuleFor(2)>>, 2, 2)>>

UserOperation(sender, target, deploy) ==
    [entryPoint |-> "this", sender |-> sender, factory |-> IF deploy THEN <<"factory">> ELSE <<>>, paymaster |-> <<>>,
     gas |-> 10, fee |-> 2, priority |-> 1,
     callData |-> [wrapped |-> FALSE, canonical |-> TRUE, mode |-> "single",
                   calls |-> <<[target |-> target, value |-> 0, data |-> 4]>>, root |-> "none"]]
MCGatewayOperation(op) == UserOperation(<<op.owner, op.profile>>, op.action, op.deploy)

Message(method, target) == [wellFormed |-> TRUE, method |-> method, op |-> UserOperation("other", target, FALSE)]
MCMessages ==
    {Message("eth_sendUserOperation", 2),
     [Message("eth_supportedEntryPoints", 2) EXCEPT !.wellFormed = FALSE]}

Budget(flows, selects, switches, faults, others, edits, ticks) ==
    [flows |-> flows, selects |-> selects, switches |-> switches, faults |-> faults, others |-> others, edits |-> edits, ticks |-> ticks]
MCBudgets ==
    {Budget(4, 0, 2, 1, 0, 0, 0), Budget(6, 0, 0, 1, 0, 0, 0), Budget(5, 0, 0, 0, 1, 0, 0),
     Budget(4, 1, 0, 0, 1, 0, 0), Budget(4, 0, 0, 0, 0, 2, 0),
     Budget(0, 0, 0, 1, 2, 2, 1), Budget(0, 0, 0, 0, 2, 4, 0), Budget(0, 0, 0, 0, 3, 2, 0), Budget(0, 0, 0, 1, 3, 0, 1)}
===============================================================================
