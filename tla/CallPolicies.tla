------------------------------ MODULE CallPolicies ------------------------------
(***************************************************************************)
(* What a smart account may be told to do: the SDK's encoding of calls and *)
(* of policy configurations (packages/protocol), the two policies and the  *)
(* execution hook of contracts/policies.  callData is what decoding tells  *)
(* apart: [wrapped, canonical, mode, calls, root] - the executeUserOp      *)
(* prefix, whether re-encoding gives the same bytes, the execution mode,   *)
(* the calls, and the new root of mode "admin", which stands for every    *)
(* Kernel function that is not execute.  Targets and selectors are         *)
(* integers, ordered as the addresses and the selectors are.               *)
(***************************************************************************)
EXTENDS Integers, Sequences, SequencesExt

CONSTANT MaxEntries     \* 64: calls of a batch, targets, rules, selectors

ASSUME MaxEntriesAssumption == MaxEntries \in Nat \ {0}

ZeroTarget == 0
Self == 99              \* the account's own address as a call's target
EmptyData == 0          \* a call's data: empty, shorter than a selector,
ShortData == 1          \* or the selector it begins with
NoRoot == "none"        \* the execution replaces no root validator

Rule(target, selectors, allowEmpty, allowValue) ==
    [target |-> target, selectors |-> selectors, allowEmpty |-> allowEmpty, allowValue |-> allowValue]
Rules == [target : Int, selectors : Seq(Int), allowEmpty : BOOLEAN, allowValue : BOOLEAN]
Call(target, value, data) == [target |-> target, value |-> value, data |-> data]

(* encodeCalls, behind the hook's prefix for a restricted account.         *)
EncodeCalls(calls, restricted) ==
    [wrapped |-> restricted, canonical |-> TRUE,
     mode |-> IF Len(calls) > 1 THEN "batch" ELSE "single", calls |-> calls, root |-> NoRoot]
Encodable(calls) == Len(calls) \in 1..MaxEntries

(* decodeCalls throws on everything else. *)
Decodable(data) ==
    /\ data.canonical
    /\ \/ data.mode = "single" /\ Len(data.calls) = 1
       \/ data.mode = "batch" /\ Encodable(data.calls)

(* signOperation's checks of what a restricted account is about to sign.   *)
RestrictedSignable(data) ==
    /\ data.wrapped /\ Decodable(data)
    /\ \A i \in DOMAIN data.calls : data.calls[i].target # Self
---------------------------------------------------------------------------------
Ascending(s) == \A i \in 2..Len(s) : s[i - 1] < s[i]

(* Array.sort: the elements in an order in which their keys ascend.        *)
SortBy(s, key) ==
    LET order == CHOOSE p \in Bijection(DOMAIN s, DOMAIN s) :
                     \A i, j \in DOMAIN s : i < j => key[p[i]] <= key[p[j]]
    IN [i \in DOMAIN s |-> s[order[i]]]

(* encodeTargetAllowlist sorts what it is given and refuses duplicates.    *)
TargetsEncodable(targets) ==
    Len(targets) \in 1..MaxEntries /\ ZeroTarget \notin ToSet(targets) /\ IsInjective(targets)
EncodeTargetAllowlist(targets) == SortBy(targets, targets)

(* Mutant: the selectors of a rule keep the caller's order. *)
EncodeSelectorsUnsorted(rules) == SortBy(rules, [i \in DOMAIN rules |-> rules[i].target])

(* encodeSelectorAllowlist sorts the rules and each rule's selectors.      *)
RulesEncodable(rules) ==
    /\ Len(rules) \in 1..MaxEntries
    /\ \A i \in DOMAIN rules :
         /\ rules[i].target # ZeroTarget
         /\ Len(rules[i].selectors) <= MaxEntries /\ IsInjective(rules[i].selectors)
         /\ rules[i].selectors # <<>> \/ rules[i].allowEmpty
         /\ \A j \in DOMAIN rules : i # j => rules[i].target # rules[j].target
EncodeSelectorAllowlist(rules) ==
    SortBy([i \in DOMAIN rules |-> [rules[i] EXCEPT !.selectors = SortBy(@, @)]],
           [i \in DOMAIN rules |-> rules[i].target])

(* TargetAllowlistPolicy *)
TargetsValid(targets) ==
    /\ Len(targets) \in 1..MaxEntries
    /\ \A i \in DOMAIN targets : targets[i] # ZeroTarget
    /\ Ascending(targets)
TargetAllowed(call, targets) == \E i \in DOMAIN targets : targets[i] = call.target

(* SelectorAllowlistPolicy: the first rule of the target decides.          *)
RulesValid(rules) ==
    /\ Len(rules) \in 1..MaxEntries
    /\ \A i \in DOMAIN rules :
         /\ rules[i].target # ZeroTarget
         /\ Len(rules[i].selectors) <= MaxEntries
         /\ rules[i].selectors # <<>> \/ rules[i].allowEmpty
         /\ Ascending(rules[i].selectors)
    /\ \A i \in 2..Len(rules) : rules[i - 1].target < rules[i].target
RuleAllows(rule, call) ==
    /\ call.value # 0 => rule.allowValue
    /\ IF call.data = EmptyData THEN rule.allowEmpty
       ELSE call.data # ShortData /\ \E j \in DOMAIN rule.selectors : rule.selectors[j] = call.data
SelectorAllowed(call, rules) ==
    \E i \in DOMAIN rules :
        /\ rules[i].target = call.target
        /\ \A j \in 1..(i - 1) : rules[j].target # call.target
        /\ RuleAllows(rules[i], call)

TargetPolicy == <<"TargetAllowlistPolicy">>
SelectorPolicy == <<"SelectorAllowlistPolicy">>
ValidateConfig(policy, config) == IF policy = TargetPolicy THEN TargetsValid(config) ELSE RulesValid(config)
CheckCall(policy, call, config) ==
    IF policy = TargetPolicy THEN TargetAllowed(call, config) ELSE SelectorAllowed(call, config)
---------------------------------------------------------------------------------
(* Mutant: only the first call of a batch is checked. *)
PreCheckFirstOnly(hook, data) ==
    /\ data.mode \in {"single", "batch"} /\ data.canonical
    /\ IF data.mode = "single" THEN Len(data.calls) = 1 ELSE Encodable(data.calls)
    /\ Head(data.calls).target \notin {Self, ZeroTarget}
    /\ CheckCall(hook.policy, Head(data.calls), hook.config)

(* RestrictedExecutionHook.preCheck behind the EntryPoint, without its     *)
(* comparison of the policy's code: the whole batch before its first call. *)
PreCheck(hook, data) ==
    /\ data.mode \in {"single", "batch"} /\ data.canonical
    /\ IF data.mode = "single" THEN Len(data.calls) = 1 ELSE Encodable(data.calls)
    /\ \A i \in DOMAIN data.calls :
         /\ data.calls[i].target \notin {Self, ZeroTarget}
         /\ CheckCall(hook.policy, data.calls[i], hook.config)
===============================================================================
