---------------------------- MODULE ProfileAccounts ----------------------------
(***************************************************************************)
(* The account system on several chains: PreparedTableFactory,             *)
(* ProfilePreparationFactory, ProfileAccountFactory and its accounts,      *)
(* PreparedTableValidator.validateUserOp and RestrictedExecutionHook.  The *)
(* transactions are anyone's and in any order; a transaction is atomic.    *)
(* The infrastructure (EntryPoint, Kernel, factories, policies) has the    *)
(* same addresses on every chain, as its deterministic deployment gives    *)
(* it.  Kernel and EntryPoint are external: what the repository's          *)
(* contracts rely on them for.                                             *)
(***************************************************************************)
EXTENDS ProfileIdentity, CallPolicies

CONSTANTS Chains,       \* chain ids
          Accounts,     \* the accounts people ask for: [id -> [owner, profile, index]], with
                        \* owner [key, headers], profile [profile, policy, policyConfig, policyCodeHash]
          Offered,      \* per chain, the ids of Accounts somebody may prepare there
          GoodKeys,     \* the keys _checkedOwner accepts
          SdkMade,      \* [id -> targets or rules]: what the SDK's encoder was given, for the
                        \* ids whose policy configuration it made
          Requests,     \* what wallets sign: [signer, chain, id, nonce, create, callData]
          MaxSigned,    \* bound: authorizations signed
          MaxReplaced   \* bound: policies whose code is replaced, on each chain

Ids == DOMAIN Accounts
Owners == {Accounts[id].owner : id \in Ids}

(* The SDK and the backend refuse every other profile.                    *)
ASSUME AccountsAssumption ==
    \A id \in Ids :
        /\ Accounts[id].owner = [key |-> Accounts[id].owner.key, headers |-> Accounts[id].owner.headers]
        /\ PolicyMatches(Accounts[id].profile)
(* The SDK's encoder refuses what is not Encodable and sorts the rest.      *)
ASSUME EncoderAssumption ==
    \A id \in DOMAIN SdkMade :
        LET p == Accounts[id].profile
            given == SdkMade[id]
        IN /\ p.policy \in {TargetPolicy, SelectorPolicy}
           /\ p.policy = TargetPolicy =>
                given \in Seq(Int) /\ TargetsEncodable(given) /\ p.policyConfig = EncodeTargetAllowlist(given)
           /\ p.policy = SelectorPolicy =>
                given \in Seq(Rules) /\ RulesEncodable(given) /\ p.policyConfig = EncodeSelectorAllowlist(given)
(* Anybody may ask any factory for any index: those accounts have ids too. *)
ASSUME IndexAssumption ==
    \A id, other \in Ids : \E both \in Ids :
        /\ Accounts[both].owner = Accounts[id].owner
        /\ Accounts[both].profile = Accounts[id].profile
        /\ Accounts[both].index = Accounts[other].index
ASSUME ChainsAssumption == Chains # {} /\ \A c \in Chains : Offered[c] \subseteq Ids
ASSUME RequestsAssumption ==
    \A r \in Requests :
        /\ r.signer \in Owners /\ r.chain \in Chains /\ r.id \in Ids /\ r.nonce \in 0..MaxSigned
        /\ r.callData.mode = "admin" => r.callData.root \in Ids

VARIABLES code,         \* per chain: the contracts by address
          policyCode,   \* per chain and policy: the hash of its code
          nonce,        \* per chain and account address: the EntryPoint's nonce
          signed,       \* authorizations that left a wallet
          performed     \* per chain, the operations that were validated, in order

vars == <<code, policyCode, nonce, signed, performed>>

(* The configuration of an account, as the SDK and the backend are given it. *)
Config(c, id) ==
    LET p == Accounts[id].profile IN
    [chainId |-> c, entryPoint |-> <<"EntryPoint">>, kernelImplementation |-> <<"Kernel">>,
     tableFactory |-> <<"PreparedTableFactory">>, profilePreparationFactory |-> <<"ProfilePreparationFactory">>,
     validatorCreationCode |-> <<"PreparedTableValidator">>, profileFactoryCreationCode |-> <<"ProfileAccountFactory">>,
     namespace |-> Zero, index |-> Accounts[id].index,
     profile |-> p.profile, policy |-> p.policy, policyConfig |-> p.policyConfig, policyCodeHash |-> p.policyCodeHash]
Sdk == [c \in Chains |-> [id \in Ids |-> SdkIdentity(Accounts[id].owner, Config(c, id))]]
Backend == [c \in Chains |-> [id \in Ids |-> BackendIdentity(Accounts[id].owner, Config(c, id))]]

(* An address is written as one of the derivations that give it,           *)
(* <<"account", id>> for instance; Stray if the SDK derives it for no id.  *)
AnyChain == CHOOSE c \in Chains : TRUE
Stray == <<"stray">>
Roles == {"validator", "factory", "hook", "account"}
Names == Roles \X Ids
Preimage(n) == IF n \in {Zero, Stray} THEN n ELSE Sdk[AnyChain][n[2]][n[1]]
Name(a) ==
    LET names == {n \in Names : Preimage(n) = a}
    IN IF a = Zero THEN Zero ELSE IF names = {} THEN Stray ELSE CHOOSE n \in names : TRUE

(* The addresses the factories compute, and those the SDK does.            *)
TableAt == [id \in Ids |-> Name(OnchainValidator(Accounts[id].owner, Config(AnyChain, id)))]
FactoryAt == [id \in Ids |-> Name(OnchainFactory(Accounts[id].owner, Config(AnyChain, id)))]
HookAt == [id \in Ids |-> Name(OnchainHook(Accounts[id].owner, Config(AnyChain, id)))]
AccountAt(f, contract, i) ==
    Name(OnchainAccount(Preimage(f), [contract EXCEPT !.validator = Preimage(@), !.hook = Preimage(@)], Zero, i))
SdkAt == [id \in Ids |-> [role \in Roles |-> Name(Sdk[AnyChain][id][role])]]
Addresses == {SdkAt[id].account : id \in Ids}
IdOf == [a \in Addresses |-> CHOOSE id \in Ids : SdkAt[id].account = a]
Policies(c) == {Accounts[id].profile.policy : id \in Offered[c]} \ {Zero}
CodeHash(policy) == <<"codehash", policy>>

(* Mutant: the operation's hash leaves out the chain. *)
OperationHashAnyChain(op, chain) == Keccak(<<Keccak(op), <<"EntryPoint">>>>)

(* operationHash, the same in packages/protocol and in the validator.      *)
OperationHash(op, chain) == Keccak(<<Keccak(op), <<"EntryPoint">>, chain>>)

(* Mutant: an existing account is initialized again, with the factory's modules. *)
CreatedAgain(contracts, f, i) ==
    LET contract == contracts[f]
        account == AccountAt(f, contract, i)
    IN [a \in DOMAIN contracts \cup {account} |->
           IF a = account THEN [kind |-> "account", root |-> contract.validator, hook |-> contract.hook] ELSE contracts[a]]

(* ProfileAccountFactory.createAccount: deploy and initialize, or nothing. *)
Created(contracts, f, i) ==
    LET contract == contracts[f]
        account == AccountAt(f, contract, i)
    IN [a \in DOMAIN contracts \cup {account} |->
           IF a = account /\ a \notin DOMAIN contracts
           THEN [kind |-> "account", root |-> contract.validator, hook |-> contract.hook]
           ELSE contracts[a]]

(* PreparedTableFactory.prepare, where the key passes _checkedOwner.       *)
WithTable(contracts, id) ==
    LET validator == TableAt[id]
        o == Accounts[id].owner
    IN [a \in DOMAIN contracts \cup {validator} |->
           IF a = validator /\ a \notin DOMAIN contracts
           THEN [kind |-> "validator", key |-> o.key, headers |-> o.headers] ELSE contracts[a]]

(* The constructor of ProfileAccountFactory and of the hook it creates.    *)
Constructible(c, id) ==
    LET p == Accounts[id].profile IN
    IF p.policy = Zero
    THEN p.policyConfig = <<>> /\ p.policyCodeHash = Zero
    ELSE policyCode[c][p.policy] = p.policyCodeHash /\ ValidateConfig(p.policy, p.policyConfig)

WithFactory(contracts, id) ==
    LET factory == FactoryAt[id]
        hook == HookAt[id]
        p == Accounts[id].profile
    IN [a \in DOMAIN contracts \cup {factory} \cup ({hook} \ {Zero}) |->
           IF a \in DOMAIN contracts THEN contracts[a]
           ELSE IF a = factory
           THEN [kind |-> "factory", implementation |-> <<"Kernel">>, validator |-> TableAt[id], hook |-> hook]
           ELSE [kind |-> "hook", policy |-> p.policy, config |-> p.policyConfig, codeHash |-> p.policyCodeHash]]
---------------------------------------------------------------------------------
Init ==
    /\ code = [c \in Chains |-> <<>>]
    /\ policyCode = [c \in Chains |-> [policy \in Policies(c) |-> CodeHash(policy)]]
    /\ nonce = [c \in Chains |-> [a \in Addresses |-> 0]]
    /\ signed = {}
    /\ performed = [c \in Chains |-> <<>>]

PrepareTable(c, id) ==
    /\ Accounts[id].owner.key \in GoodKeys
    /\ code' = [code EXCEPT ![c] = WithTable(@, id)]
    /\ UNCHANGED <<policyCode, nonce, signed, performed>>

(* The table is prepared in the same transaction, and undone with it.      *)
PrepareProfile(c, id) ==
    /\ Accounts[id].owner.key \in GoodKeys
    /\ FactoryAt[id] \in DOMAIN code[c] \/ Constructible(c, id)
    /\ code' = [code EXCEPT ![c] = WithFactory(WithTable(@, id), id)]
    /\ UNCHANGED <<policyCode, nonce, signed, performed>>

CreateAccount(c, f, i) ==
    /\ f \in DOMAIN code[c] /\ code[c][f].kind = "factory"
    /\ code' = [code EXCEPT ![c] = Created(@, f, i)]
    /\ UNCHANGED <<policyCode, nonce, signed, performed>>

(* The code at a policy's address is no longer what was reviewed.          *)
PolicyChanges(c, policy) ==
    /\ Cardinality({q \in Policies(c) : policyCode[c][q] # CodeHash(q)}) < MaxReplaced
    /\ policyCode' = [policyCode EXCEPT ![c][policy] = <<"other", policy>>]
    /\ UNCHANGED <<code, nonce, signed, performed>>

(* A wallet signs for one chain; the operation is whatever its user built, *)
(* for an account of this or of another owner.                             *)
Sign(o, c, op) ==
    /\ Cardinality(signed) < MaxSigned
    /\ signed' = signed \cup {[signer |-> o, chain |-> c, op |-> op, payload |-> OperationHash(op, c)]}
    /\ UNCHANGED <<code, policyCode, nonce, performed>>

(* PreparedTableValidator.validateUserOp: the hash is computed again here. *)
Validates(contract, c, s) ==
    /\ s.signer = [key |-> contract.key, headers |-> contract.headers]
    /\ s.payload = OperationHash(s.op, c)

(* Kernel runs the calls; any of them may fail.  A failing call undoes the *)
(* execution unless the mode is "try".                                     *)
Executed(data, failing) ==
    LET Runs(call) == call.target \notin failing
    IN IF data.mode = "try" THEN SelectSeq(data.calls, Runs)
       ELSE IF data.mode # "admin" /\ \A i \in DOMAIN data.calls : Runs(data.calls[i]) THEN data.calls ELSE <<>>

(* EntryPoint.handleOps with one operation: initCode, validation, nonce,   *)
(* execution.  A bundler submits any signed operation, on any chain.       *)
HandleOp(c, s, failing) ==
    LET op == s.op
        creates == op.init # <<>>
        contracts == IF creates THEN Created(code[c], op.init[1], op.init[2]) ELSE code[c]
        account == contracts[op.sender]
        hook == contracts[account.hook]
        permitted == account.hook # Zero =>
                         /\ policyCode[c][hook.policy] = hook.codeHash
                         /\ PreCheck(hook, op.callData)
        newRoot == TableAt[op.callData.root]
        rotates == permitted /\ op.callData.mode = "admin" /\ newRoot \in DOMAIN contracts
    IN /\ creates => op.sender \notin DOMAIN code[c] /\ op.init[1] \in DOMAIN code[c]
       /\ op.sender \in DOMAIN contracts
       /\ op.nonce = nonce[c][op.sender]
       /\ Validates(contracts[account.root], c, s)
       /\ account.hook # Zero => op.callData.wrapped
       /\ nonce' = [nonce EXCEPT ![c][op.sender] = @ + 1]
       /\ code' = [code EXCEPT ![c] = IF rotates THEN [contracts EXCEPT ![op.sender].root = newRoot] ELSE contracts]
       /\ performed' = [performed EXCEPT ![c] = Append(@,
              [authorization |-> s, mode |-> op.callData.mode, policyCode |-> IF account.hook = Zero THEN Zero ELSE policyCode[c][hook.policy],
               calls |-> IF permitted THEN Executed(op.callData, failing) ELSE <<>>])]
       /\ UNCHANGED <<policyCode, signed>>

Operation(r) ==
    [sender |-> SdkAt[r.id].account, nonce |-> r.nonce, callData |-> r.callData,
     init |-> IF r.create THEN <<SdkAt[r.id].factory, Accounts[r.id].index>> ELSE <<>>]
Targets(s) == {s.op.callData.calls[i].target : i \in DOMAIN s.op.callData.calls}

Next ==
    \/ \E c \in Chains : \E id \in Offered[c] : PrepareTable(c, id) \/ PrepareProfile(c, id)
    \/ \E c \in Chains : \E f \in DOMAIN code[c] : \E id \in Offered[c] : CreateAccount(c, f, Accounts[id].index)
    \/ \E c \in Chains : \E policy \in Policies(c) : PolicyChanges(c, policy)
    \/ \E r \in Requests : Sign(r.signer, r.chain, Operation(r))
    \/ \E c \in Chains, s \in signed : \E failing \in SUBSET Targets(s) : HandleOp(c, s, failing)

Spec == Init /\ [][Next]_vars
---------------------------------------------------------------------------------
IsAccount(c, a) == a \in DOMAIN code[c] /\ code[c][a].kind = "account"
OwnerOf(c, a) == LET v == code[c][code[c][a].root] IN [key |-> v.key, headers |-> v.headers]

(* Contracts refer to contracts that exist and are what they should be.    *)
TypeOK ==
    \A c \in Chains : \A a \in DOMAIN code[c] :
        LET x == code[c][a] IN
        /\ x.kind = "factory" => x.validator \in DOMAIN code[c] /\ code[c][x.validator].kind = "validator"
        /\ x.kind = "account" => x.root \in DOMAIN code[c] /\ code[c][x.root].kind = "validator"
        /\ x.kind \in {"factory", "account"} /\ x.hook # Zero => x.hook \in DOMAIN code[c] /\ code[c][x.hook].kind = "hook"
        /\ x.kind = "validator" => x.key \in GoodKeys
        /\ x.kind = "hook" => ValidateConfig(x.policy, x.config)

(* The SDK and the backend derive the same identity, and the addresses in  *)
(* it are the same on every chain.                                         *)
IdentitiesAgree ==
    /\ \A c \in Chains, id \in Ids : PolicyMatches(Config(c, id)) => Sdk[c][id] = Backend[c][id]
    /\ \A c \in Chains, id \in Ids, role \in Roles : Sdk[c][id][role] = Sdk[AnyChain][id][role]

(* What is deployed at an address the SDK derives is what it expects there, *)
(* and no account is anywhere else.                                        *)
DeployedAsDerived ==
    \A c \in Chains :
        /\ \A id \in Offered[c] :
             LET at == SdkAt[id]
                 o == Accounts[id].owner
             IN /\ IsAccount(c, at.account) => code[c][at.account].hook = at.hook
                /\ at.factory \in DOMAIN code[c] =>
                     code[c][at.factory] = [kind |-> "factory", implementation |-> <<"Kernel">>, validator |-> at.validator, hook |-> at.hook]
                /\ at.validator \in DOMAIN code[c] =>
                     code[c][at.validator] = [kind |-> "validator", key |-> o.key, headers |-> o.headers]
        /\ \A a \in DOMAIN code[c] : code[c][a].kind = "account" => a \in Addresses

(* The chain refuses nothing the SDK made, as long as the policy is there. *)
EncodedIsConstructible ==
    \A c \in Chains : \A id \in Offered[c] :
        LET p == Accounts[id].profile
        IN p.profile = "general" \/ id \in DOMAIN SdkMade =>
               Constructible(c, id) \/ (p.policy # Zero /\ policyCode[c][p.policy] # p.policyCodeHash)

(* Whoever prepares and creates accounts, in whatever order, each account  *)
(* is where the SDK and the backend say, on every chain, with the modules  *)
(* derived for it; and nothing the SDK accepts is refused by the chain.    *)
DerivedEverywhere == IdentitiesAgree /\ DeployedAsDerived /\ EncodedIsConstructible

(* The calls that were run for an operation of a restricted account are    *)
(* all of its calls; the policy the account was derived with allows each,  *)
(* and the policy's code was the reviewed one.                             *)
WithinPolicy(e) ==
    LET op == e.authorization.op
        p == Accounts[IdOf[op.sender]].profile
    IN p.profile = "restricted" /\ e.calls # <<>> =>
         /\ e.mode \in {"single", "batch"} /\ e.calls = op.callData.calls
         /\ e.policyCode = p.policyCodeHash
         /\ \A j \in DOMAIN e.calls : e.calls[j].target \notin {Self, ZeroTarget} /\ CheckCall(p.policy, e.calls[j], p.policyConfig)

(* A restricted account has only ever run whole batches of calls that its  *)
(* policy allows, none of them to itself; and it keeps its owner and hook. *)
RestrictedNeverEscapes ==
    \A c \in Chains :
        /\ \A i \in DOMAIN performed[c] : WithinPolicy(performed[c][i])
        /\ \A id \in Ids :
             Accounts[id].profile.profile = "restricted" /\ IsAccount(c, SdkAt[id].account) =>
                code[c][SdkAt[id].account] = [kind |-> "account", root |-> TableAt[id], hook |-> HookAt[id]]

NoOwner == [key |-> "none", headers |-> "none"]
ASSUME OwnersAssumption == NoOwner \notin Owners

Authorization(s) == [signer |-> s.signer, chain |-> s.chain, account |-> s.op.sender, nonce |-> s.op.nonce]

Authority == INSTANCE AccountAuthority WITH
    Accounts <- Addresses,
    Creator <- [a \in Addresses |-> Accounts[IdOf[a]].owner],
    Restricted <- {a \in Addresses : Accounts[IdOf[a]].profile.profile = "restricted"},
    None <- NoOwner, Nonces <- 0..MaxSigned,
    owner <- [c \in Chains |-> [a \in Addresses |-> IF IsAccount(c, a) THEN OwnerOf(c, a) ELSE NoOwner]],
    authorized <- {Authorization(s) : s \in signed},
    done <- [c \in Chains |-> [i \in DOMAIN performed[c] |-> Authorization(performed[c][i].authorization)]]

(* Every operation an account obeys was signed by its owner of the moment, *)
(* for that chain, and is obeyed once; its owner changes only by such an   *)
(* operation and never in a restricted account.                            *)
AuthorityHolds == Authority!Init /\ [][Authority!Next]_(Authority!vars)
===============================================================================
