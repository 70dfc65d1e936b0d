---------------------------- MODULE ProfileIdentity ----------------------------
(***************************************************************************)
(* The address of a profile account, derived three times: by the SDK       *)
(* (packages/protocol), by the enrollment backend (packages/enrollment/    *)
(* src/identity.ts, which shares no derivation code with it) and by the    *)
(* contracts that deploy it.  A hash, an ABI encoding and an address are   *)
(* the tuple of what goes into them, in that order: equal addresses are    *)
(* equal inputs, and the encodings' padding is left out.                   *)
(***************************************************************************)
EXTENDS Integers, Sequences

Zero == <<"zero">>              \* the zero address, and the zero hash
Domain(name) == <<"domain", name>>

Keccak(parts) == <<"keccak", parts>>
Create2(from, salt, initHash) == <<"create2", from, salt, initHash>>
Create(from, count) == <<"create", from, count>>
ProxyCode(implementation) == <<"erc1967", implementation>>

(* What a policy may be for the profile: none for "general".               *)
PolicyMatches(cfg) ==
    IF cfg.profile = "general"
    THEN cfg.policy = Zero /\ cfg.policyConfig = <<>> /\ cfg.policyCodeHash = Zero
    ELSE cfg.profile = "restricted" /\ cfg.policy # Zero /\ cfg.policyCodeHash # Zero

(* The commitment an enrollment signs: chain, infrastructure, policy, salt. *)
ProfileConfigHash(cfg) ==
    Keccak(<<Domain("identity:v1:profile:portable"), IF cfg.profile = "restricted" THEN 1 ELSE 0, cfg.chainId,
             cfg.entryPoint, cfg.kernelImplementation, cfg.tableFactory, cfg.profilePreparationFactory,
             Keccak(cfg.validatorCreationCode), Keccak(cfg.profileFactoryCreationCode),
             cfg.policy, cfg.policyCodeHash, Keccak(cfg.policyConfig), cfg.namespace, cfg.index>>)

Initialize(validator, hook) == <<"initialize", <<1, validator>>, hook, <<>>, <<>>, <<>>>>

(* packages/protocol: deriveTableIdentity's validator, then the profile's. *)
SdkValidator(owner, cfg) ==
    Create2(cfg.tableFactory, Keccak(<<Domain("prepared-table:v1"), owner.key, Keccak(owner.headers)>>),
            Keccak(<<cfg.validatorCreationCode, <<cfg.entryPoint, owner.key, <<"x", owner.key>>, owner.headers>>>>))

SdkIdentity(owner, cfg) ==
    LET constructor == <<cfg.kernelImplementation, cfg.tableFactory, owner.key, <<"x", owner.key>>, owner.headers,
                         cfg.policy, cfg.policyConfig, cfg.policyCodeHash>>
        factory == Create2(cfg.profilePreparationFactory, Domain("profile-preparation:v1"),
                           Keccak(<<cfg.profileFactoryCreationCode, constructor>>))
        hook == IF cfg.profile = "general" THEN Zero ELSE Create(factory, 1)
        salt == Keccak(<<Domain("profile-account:v1"), cfg.namespace, cfg.index>>)
        validator == SdkValidator(owner, cfg)
    IN [validator |-> validator, factory |-> factory, hook |-> hook, configHash |-> ProfileConfigHash(cfg),
        account |-> Create2(factory, Keccak(<<Initialize(validator, hook), salt>>), Keccak(ProxyCode(cfg.kernelImplementation)))]

(* packages/enrollment: the same bytes joined by hand; the key's x is      *)
(* recovered from its compressed form and compared with the library's.     *)
BackendConfigHash(cfg) ==
    LET infrastructure == <<cfg.entryPoint, cfg.kernelImplementation, cfg.tableFactory, cfg.profilePreparationFactory>>
        codes == <<Keccak(cfg.validatorCreationCode), Keccak(cfg.profileFactoryCreationCode)>>
        policy == <<cfg.policy, cfg.policyCodeHash, Keccak(cfg.policyConfig)>>
    IN Keccak(<<Domain("identity:v1:profile:portable"), IF cfg.profile = "general" THEN 0 ELSE 1, cfg.chainId>>
              \o infrastructure \o codes \o policy \o <<cfg.namespace, cfg.index>>)

BackendValidator(owner, cfg) ==
    LET constructor == <<cfg.entryPoint>> \o <<owner.key, <<"x", owner.key>>, owner.headers>>
    IN Create2(cfg.tableFactory, Keccak(<<Domain("prepared-table:v1"), owner.key>> \o <<Keccak(owner.headers)>>),
               Keccak(<<cfg.validatorCreationCode, constructor>>))

BackendIdentity(owner, cfg) ==
    LET policyTail == <<cfg.policy, cfg.policyConfig, cfg.policyCodeHash>>
        constructor == <<cfg.kernelImplementation, cfg.tableFactory, owner.key, <<"x", owner.key>>, owner.headers>> \o policyTail
        factory == Create2(cfg.profilePreparationFactory, Domain("profile-preparation:v1"),
                           Keccak(<<cfg.profileFactoryCreationCode, constructor>>))
        hook == IF cfg.profile = "general" THEN Zero ELSE Create(factory, 1)
        salt == Keccak(<<Domain("profile-account:v1")>> \o <<cfg.namespace, cfg.index>>)
        validator == BackendValidator(owner, cfg)
    IN [validator |-> validator, factory |-> factory, hook |-> hook, configHash |-> BackendConfigHash(cfg),
        account |-> Create2(factory, Keccak(<<Initialize(validator, hook), salt>>), Keccak(ProxyCode(cfg.kernelImplementation)))]

(* The contracts: PreparedTableFactory.getAddress,                         *)
(* ProfilePreparationFactory.getAddress, ProfileAccountFactory.getAddress. *)
OnchainValidator(owner, cfg) ==
    LET salt == Keccak(<<Domain("prepared-table:v1"), owner.key, Keccak(owner.headers)>>)
        initCode == <<cfg.validatorCreationCode, <<cfg.entryPoint, owner.key, <<"x", owner.key>>, owner.headers>>>>
    IN Create2(cfg.tableFactory, salt, Keccak(initCode))

OnchainFactory(owner, cfg) ==
    LET initCode == <<cfg.profileFactoryCreationCode,
                      <<cfg.kernelImplementation, cfg.tableFactory, owner.key, <<"x", owner.key>>, owner.headers,
                        cfg.policy, cfg.policyConfig, cfg.policyCodeHash>>>>
    IN Create2(cfg.profilePreparationFactory, Domain("profile-preparation:v1"), Keccak(initCode))

(* The hook is the first contract the profile factory's constructor creates. *)
OnchainHook(owner, cfg) ==
    IF cfg.policy = Zero THEN Zero ELSE Create(OnchainFactory(owner, cfg), 1)

(* A deployed factory's account: its immutables and its own address.        *)
OnchainAccount(factory, contract, namespace, index) ==
    LET initializeData == Initialize(contract.validator, contract.hook)
        accountSalt == Keccak(<<Domain("profile-account:v1"), namespace, index>>)
    IN Create2(factory, Keccak(<<initializeData, accountSalt>>), Keccak(ProxyCode(contract.implementation)))
===============================================================================
