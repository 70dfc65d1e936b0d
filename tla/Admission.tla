-------------------------------- MODULE Admission --------------------------------
(***************************************************************************)
(* infra/bundler: what the private gateway lets through (admission.mjs)    *)
(* and which configurations it accepts (config.mjs).  Quantities are       *)
(* integers, Missing when the field is absent; an optional list is <<>> or *)
(* the sequence of its one set.                                            *)
(***************************************************************************)
EXTENDS CallPolicies

CONSTANT MaxRules       \* 256: rules of an admission policy

Missing == -1

(* quantity(): absent is 0 where it is optional and rejected elsewhere.    *)
Given(x, optional) == x # Missing \/ optional
Quantity(x) == IF x = Missing THEN 0 ELSE x
Listed(list, x) == list # <<>> => x \in list[1]

AdmissionRule(target, selectors, allowEmpty, maxValue) ==
    [target |-> target, selectors |-> selectors, allowEmpty |-> allowEmpty, maxValue |-> maxValue]

PolicyValid(policy) ==
    /\ policy.kind \in {"open", "allowlist"}
    /\ policy.kind = "allowlist" =>
         /\ Len(policy.rules) \in 1..MaxRules
         /\ \A i \in DOMAIN policy.rules :
              /\ Cardinality(policy.rules[i].selectors) <= MaxEntries
              /\ policy.rules[i].maxValue >= 0
              /\ \A j \in DOMAIN policy.rules : policy.rules[i].target = policy.rules[j].target => i = j

(* validateConfig; restart stands for what only a restart may change.      *)
ConfigValid(config) ==
    /\ config.requestsPerMinute >= 1 /\ config.maxConcurrent >= 1
    /\ \A limit \in {"gas", "maxFee", "maxCost"} : config.limits[limit] >= 1
    /\ PolicyValid(config.policy)

(* The gas of the operation against its caps.  gas is the sum of the five  *)
(* gas fields, whose separate caps are left out.                           *)
GasAllowed(op, limits, estimate) ==
    LET total == Quantity(op.gas)
        fee == Quantity(op.fee)
    IN /\ \A field \in {"gas", "fee", "priority"} : Given(op[field], estimate)
       /\ total <= limits.gas
       /\ fee <= limits.maxFee /\ Quantity(op.priority) <= fee
       /\ total * fee <= limits.maxCost

CallAdmitted(call, rules) ==
    /\ call.target # Self
    /\ \E i \in DOMAIN rules :
         /\ rules[i].target = call.target
         /\ call.value <= rules[i].maxValue
         /\ IF call.data = EmptyData THEN rules[i].allowEmpty ELSE call.data \in rules[i].selectors \ {ShortData}

(* decodeExecution, which takes a call with the hook's prefix or without.  *)
DecodesExecution(data) ==
    /\ data.canonical
    /\ \/ data.mode = "single" /\ Len(data.calls) = 1
       \/ data.mode = "batch" /\ Len(data.calls) \in 1..MaxEntries

AdmitOperation(op, config, estimate) ==
    /\ op.entryPoint = config.entryPoint
    /\ Listed(config.policy.senders, op.sender)
    /\ op.factory # <<>> => Listed(config.policy.factories, op.factory[1])
    /\ op.paymaster # <<>> => Listed(config.policy.paymasters, op.paymaster[1])
    /\ GasAllowed(op, config.limits, estimate)
    /\ config.policy.kind = "allowlist" =>
          /\ DecodesExecution(op.callData)
          /\ \A i \in DOMAIN op.callData.calls : CallAdmitted(op.callData.calls[i], config.policy.rules)
===============================================================================
