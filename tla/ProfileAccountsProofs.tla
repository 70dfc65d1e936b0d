----------------------- MODULE ProfileAccountsProofs -----------------------
(***************************************************************************)
(* Theorems about ProfileAccounts, for every set of chains, of accounts    *)
(* that people ask for and of operations that they sign; and about the     *)
(* ladders of ScalarMul that the accounts' validators run.                 *)
(***************************************************************************)
EXTENDS ProfileAccounts, SequenceTheorems, WellFoundedInduction, TLAPS

-----------------------------------------------------------------------------
(* What an address is derived from, for owner o, profile p and an index. *)
ValidatorFrom(o) ==
  Create2(<<"PreparedTableFactory">>,
          Keccak(<<Domain("prepared-table:v1"), o.key, Keccak(o.headers)>>),
          Keccak(<<<<"PreparedTableValidator">>, <<<<"EntryPoint">>, o.key, <<"x", o.key>>, o.headers>>>>))
Immutables(o, p) ==
  <<<<"Kernel">>, <<"PreparedTableFactory">>, o.key, <<"x", o.key>>, o.headers,
    p.policy, p.policyConfig, p.policyCodeHash>>
FactoryFrom(o, p) ==
  Create2(<<"ProfilePreparationFactory">>, Domain("profile-preparation:v1"),
          Keccak(<<<<"ProfileAccountFactory">>, Immutables(o, p)>>))
HookFrom(o, p) == IF p.policy = Zero THEN Zero ELSE Create(FactoryFrom(o, p), 1)
AccountFrom(o, p, index) ==
  Create2(FactoryFrom(o, p),
          Keccak(<<Initialize(ValidatorFrom(o), HookFrom(o, p)), Keccak(<<Domain("profile-account:v1"), Zero, index>>)>>),
          Keccak(ProxyCode(<<"Kernel">>)))

(* There is a chain to compute addresses with.                             *)
LEMMA AChain == AnyChain \in Chains
BY ChainsAssumption DEF AnyChain

(* The configuration of an account, field by field.                        *)
LEMMA ConfigFields ==
  ASSUME NEW c, NEW id \in Ids, NEW p, p = Accounts[id].profile, NEW g, g = Config(c, id)
  PROVE  /\ g.chainId = c /\ g.entryPoint = <<"EntryPoint">> /\ g.kernelImplementation = <<"Kernel">>
         /\ g.tableFactory = <<"PreparedTableFactory">>
         /\ g.profilePreparationFactory = <<"ProfilePreparationFactory">>
         /\ g.validatorCreationCode = <<"PreparedTableValidator">>
         /\ g.profileFactoryCreationCode = <<"ProfileAccountFactory">>
         /\ g.namespace = Zero /\ g.index = Accounts[id].index
         /\ g.profile = p.profile /\ g.policy = p.policy
         /\ g.policyConfig = p.policyConfig /\ g.policyCodeHash = p.policyCodeHash
BY DEF Config

(* The addresses of SdkIdentity are functions of the owner, the profile and*)
(* the index: the chain is no part of them.                                *)
LEMMA SdkShape ==
  ASSUME NEW c \in Chains, NEW id \in Ids
  PROVE  /\ Sdk[c][id].validator = ValidatorFrom(Accounts[id].owner)
         /\ Sdk[c][id].factory = FactoryFrom(Accounts[id].owner, Accounts[id].profile)
         /\ Sdk[c][id].hook = HookFrom(Accounts[id].owner, Accounts[id].profile)
         /\ Sdk[c][id].account = AccountFrom(Accounts[id].owner, Accounts[id].profile, Accounts[id].index)
<1> DEFINE o == Accounts[id].owner
           p == Accounts[id].profile
           g == Config(c, id)
<1>1. Sdk[c][id] = SdkIdentity(o, g)
  BY DEF Sdk
<1>2. p.profile = "general" <=> p.policy = Zero
  BY AccountsAssumption DEF PolicyMatches
<1>3. /\ g.entryPoint = <<"EntryPoint">> /\ g.kernelImplementation = <<"Kernel">>
      /\ g.tableFactory = <<"PreparedTableFactory">>
      /\ g.profilePreparationFactory = <<"ProfilePreparationFactory">>
      /\ g.validatorCreationCode = <<"PreparedTableValidator">>
      /\ g.profileFactoryCreationCode = <<"ProfileAccountFactory">>
      /\ g.namespace = Zero /\ g.index = Accounts[id].index
      /\ g.profile = p.profile /\ g.policy = p.policy
      /\ g.policyConfig = p.policyConfig /\ g.policyCodeHash = p.policyCodeHash
  BY ConfigFields
<1> HIDE DEF o, p, g
<1>4. SdkValidator(o, g) = ValidatorFrom(o)
  BY <1>3 DEF SdkValidator, ValidatorFrom
<1>5. SdkIdentity(o, g).validator = ValidatorFrom(o)
  BY <1>4 DEF SdkIdentity
<1>6. SdkIdentity(o, g).factory = FactoryFrom(o, p)
  BY <1>3 DEF SdkIdentity, FactoryFrom, Immutables
<1>7. SdkIdentity(o, g).hook = HookFrom(o, p)
  BY <1>2, <1>3 DEF SdkIdentity, FactoryFrom, Immutables, HookFrom
<1>8. SdkIdentity(o, g).account = AccountFrom(o, p, Accounts[id].index)
  BY <1>2, <1>3, <1>4 DEF SdkIdentity, FactoryFrom, Immutables, HookFrom, AccountFrom
<1> QED
  BY <1>1, <1>5, <1>6, <1>7, <1>8 DEF o, p

(* The four kinds of addresses are apart, and none is the zero address. *)
LEMMA RolesApart ==
  ASSUME NEW o, NEW p, NEW o2, NEW p2, NEW x, NEW y
  PROVE  /\ ValidatorFrom(o) \notin {FactoryFrom(o2, p2), HookFrom(o2, p2), AccountFrom(o2, p2, x), Zero}
         /\ FactoryFrom(o, p) \notin {HookFrom(o2, p2), AccountFrom(o2, p2, x), Zero}
         /\ AccountFrom(o, p, y) \notin {HookFrom(o2, p2), Zero}
<1>1. FactoryFrom(o2, p2) \notin {<<"PreparedTableFactory">>, <<"ProfilePreparationFactory">>}
  BY DEF FactoryFrom, Create2
<1>2. ValidatorFrom(o) \notin {FactoryFrom(o2, p2), HookFrom(o2, p2), AccountFrom(o2, p2, x), Zero}
  <2>1. ValidatorFrom(o) # FactoryFrom(o2, p2)
    BY DEF ValidatorFrom, FactoryFrom, Create2
  <2>2. ValidatorFrom(o) # HookFrom(o2, p2) /\ ValidatorFrom(o) # Zero
    BY DEF ValidatorFrom, HookFrom, Create, Create2, Zero
  <2>3. ValidatorFrom(o) # AccountFrom(o2, p2, x)
    BY <1>1 DEF ValidatorFrom, AccountFrom, Create2
  <2> QED
    BY <2>1, <2>2, <2>3
<1>3. FactoryFrom(o, p) \notin {HookFrom(o2, p2), AccountFrom(o2, p2, x), Zero}
  <2>1. FactoryFrom(o, p) # HookFrom(o2, p2) /\ FactoryFrom(o, p) # Zero
    BY DEF FactoryFrom, HookFrom, Create, Create2, Zero
  <2>2. FactoryFrom(o, p) # AccountFrom(o2, p2, x)
    BY <1>1 DEF FactoryFrom, AccountFrom, Create2
  <2> QED
    BY <2>1, <2>2
<1>4. AccountFrom(o, p, y) \notin {HookFrom(o2, p2), Zero}
  BY DEF AccountFrom, HookFrom, Create, Create2, Zero
<1> QED
  BY <1>2, <1>3, <1>4

(* An address is the tuple of what it hashes: equal addresses of tables are*)
(* of equal keys and headers...                                            *)
LEMMA SameValidator ==
  ASSUME NEW o, NEW o2, ValidatorFrom(o) = ValidatorFrom(o2)
  PROVE  o.key = o2.key /\ o.headers = o2.headers
BY DEF ValidatorFrom, Create2, Keccak

(* ...equal addresses of factories, of equal owners and policies...        *)
LEMMA SameFactory ==
  ASSUME NEW o, NEW p, NEW o2, NEW p2, FactoryFrom(o, p) = FactoryFrom(o2, p2)
  PROVE  /\ o.key = o2.key /\ o.headers = o2.headers
         /\ p.policy = p2.policy /\ p.policyConfig = p2.policyConfig /\ p.policyCodeHash = p2.policyCodeHash
<1>1. Immutables(o, p) = Immutables(o2, p2)
  BY DEF FactoryFrom, Create2, Keccak
<1> QED
  BY <1>1 DEF Immutables

(* ...equal addresses of hooks, of the same factory...                     *)
LEMMA SameHook ==
  ASSUME NEW o, NEW p, NEW o2, NEW p2, HookFrom(o, p) = HookFrom(o2, p2), HookFrom(o, p) # Zero
  PROVE  FactoryFrom(o, p) = FactoryFrom(o2, p2)
BY DEF HookFrom, Create

(* ...and so equal addresses of accounts.                                  *)
LEMMA SameAccount ==
  ASSUME NEW o, NEW p, NEW o2, NEW p2, NEW x, NEW y, AccountFrom(o, p, x) = AccountFrom(o2, p2, y)
  PROVE  FactoryFrom(o, p) = FactoryFrom(o2, p2)
BY DEF AccountFrom, Create2

-----------------------------------------------------------------------------
(* Addresses by their names. *)
LEMMA Named ==
  ASSUME NEW id \in Ids, NEW role \in Roles, NEW a, a = Sdk[AnyChain][id][role]
  PROVE  /\ Preimage(Name(a)) = a
         /\ Name(a) = Zero <=> a = Zero
         /\ SdkAt[id][role] = Name(a)
<1>1. SdkAt[id][role] = Name(a)
  BY DEF SdkAt
<1>2. CASE a = Zero
  BY <1>1, <1>2 DEF Name, Preimage
<1>3. CASE a # Zero
  <2> DEFINE names == {n \in Names : Preimage(n) = a}
  <2>1. \A n \in Names : n \notin {Zero, Stray}
    BY DEF Names, Zero, Stray, Roles
  <2>2. <<role, id>> \in names
    BY <2>1 DEF Names, Preimage
  <2>3. Name(a) = CHOOSE n \in names : TRUE
    BY <1>3, <2>2 DEF Name
  <2>4. Name(a) \in names
    BY <2>2, <2>3
  <2> QED
    BY <1>1, <1>3, <2>1, <2>4
<1> QED
  BY <1>2, <1>3

(* The four addresses of an id, by name and derivation.                    *)
LEMMA At ==
  ASSUME NEW id \in Ids
  PROVE  /\ SdkAt[id].validator = Name(ValidatorFrom(Accounts[id].owner))
         /\ Preimage(SdkAt[id].validator) = ValidatorFrom(Accounts[id].owner)
         /\ SdkAt[id].factory = Name(FactoryFrom(Accounts[id].owner, Accounts[id].profile))
         /\ Preimage(SdkAt[id].factory) = FactoryFrom(Accounts[id].owner, Accounts[id].profile)
         /\ SdkAt[id].hook = Name(HookFrom(Accounts[id].owner, Accounts[id].profile))
         /\ Preimage(SdkAt[id].hook) = HookFrom(Accounts[id].owner, Accounts[id].profile)
         /\ SdkAt[id].account = Name(AccountFrom(Accounts[id].owner, Accounts[id].profile, Accounts[id].index))
         /\ Preimage(SdkAt[id].account) = AccountFrom(Accounts[id].owner, Accounts[id].profile, Accounts[id].index)
         /\ SdkAt[id].hook = Zero <=> Accounts[id].profile.policy = Zero
<1> DEFINE o == Accounts[id].owner
           p == Accounts[id].profile
<1>1. /\ Sdk[AnyChain][id]["validator"] = ValidatorFrom(o)
      /\ Sdk[AnyChain][id]["factory"] = FactoryFrom(o, p)
      /\ Sdk[AnyChain][id]["hook"] = HookFrom(o, p)
      /\ Sdk[AnyChain][id]["account"] = AccountFrom(o, p, Accounts[id].index)
  BY AChain, SdkShape
<1>2. {"validator", "factory", "hook", "account"} \subseteq Roles
  BY DEF Roles
<1>3. SdkAt[id]["validator"] = Name(ValidatorFrom(o)) /\ Preimage(SdkAt[id]["validator"]) = ValidatorFrom(o)
  BY <1>1, <1>2, Named
<1>4. SdkAt[id]["factory"] = Name(FactoryFrom(o, p)) /\ Preimage(SdkAt[id]["factory"]) = FactoryFrom(o, p)
  BY <1>1, <1>2, Named
<1>5. /\ SdkAt[id]["hook"] = Name(HookFrom(o, p)) /\ Preimage(SdkAt[id]["hook"]) = HookFrom(o, p)
      /\ SdkAt[id]["hook"] = Zero <=> HookFrom(o, p) = Zero
  BY <1>1, <1>2, Named
<1>6. /\ SdkAt[id]["account"] = Name(AccountFrom(o, p, Accounts[id].index))
      /\ Preimage(SdkAt[id]["account"]) = AccountFrom(o, p, Accounts[id].index)
  BY <1>1, <1>2, Named
<1>7. HookFrom(o, p) = Zero <=> p.policy = Zero
  BY DEF HookFrom, Create, Zero
<1>8. DOMAIN SdkAt[id] = Roles
  BY DEF SdkAt
<1> QED
  BY <1>2, <1>3, <1>4, <1>5, <1>6, <1>7, <1>8

(* The addresses of two ids in different roles differ.                     *)
LEMMA Apart ==
  ASSUME NEW i \in Ids, NEW j \in Ids
  PROVE  /\ SdkAt[i].validator \notin {SdkAt[j].factory, SdkAt[j].hook, SdkAt[j].account, Zero}
         /\ SdkAt[i].factory \notin {SdkAt[j].hook, SdkAt[j].account, Zero}
         /\ SdkAt[i].account \notin {SdkAt[j].hook, Zero}
<1> DEFINE o == Accounts[i].owner
           p == Accounts[i].profile
           o2 == Accounts[j].owner
           p2 == Accounts[j].profile
<1>1. Preimage(Zero) = Zero
  BY DEF Preimage
<1>2. /\ Preimage(SdkAt[i].validator) = ValidatorFrom(o)
      /\ Preimage(SdkAt[i].factory) = FactoryFrom(o, p)
      /\ Preimage(SdkAt[i].account) = AccountFrom(o, p, Accounts[i].index)
      /\ Preimage(SdkAt[j].factory) = FactoryFrom(o2, p2)
      /\ Preimage(SdkAt[j].hook) = HookFrom(o2, p2)
      /\ Preimage(SdkAt[j].account) = AccountFrom(o2, p2, Accounts[j].index)
  BY At
<1> HIDE DEF o, p, o2, p2
<1>3. /\ ValidatorFrom(o) \notin {FactoryFrom(o2, p2), HookFrom(o2, p2), AccountFrom(o2, p2, Accounts[j].index), Zero}
      /\ FactoryFrom(o, p) \notin {HookFrom(o2, p2), AccountFrom(o2, p2, Accounts[j].index), Zero}
      /\ AccountFrom(o, p, Accounts[i].index) \notin {HookFrom(o2, p2), Zero}
  BY RolesApart
<1> QED
  BY <1>1, <1>2, <1>3

(* An owner is a key and its headers.                                      *)
LEMMA OwnerByFields ==
  ASSUME NEW i \in Ids, NEW j \in Ids,
         Accounts[i].owner.key = Accounts[j].owner.key, Accounts[i].owner.headers = Accounts[j].owner.headers
  PROVE  Accounts[i].owner = Accounts[j].owner
BY AccountsAssumption

(* A table belongs to one owner.                                           *)
LEMMA TableOwner ==
  ASSUME NEW i \in Ids, NEW j \in Ids, SdkAt[i].validator = SdkAt[j].validator
  PROVE  Accounts[i].owner = Accounts[j].owner
<1>1. ValidatorFrom(Accounts[i].owner) = ValidatorFrom(Accounts[j].owner)
  BY At
<1>2. /\ Accounts[i].owner.key = Accounts[j].owner.key
      /\ Accounts[i].owner.headers = Accounts[j].owner.headers
  BY <1>1, SameValidator
<1> QED
  BY <1>2, OwnerByFields

(* Two accounts of one factory differ in their index only. *)
SameButIndex(i, j) ==
  /\ Accounts[i].owner = Accounts[j].owner
  /\ Accounts[i].profile.policy = Accounts[j].profile.policy
  /\ Accounts[i].profile.policyConfig = Accounts[j].profile.policyConfig
  /\ Accounts[i].profile.policyCodeHash = Accounts[j].profile.policyCodeHash
  /\ Accounts[i].profile.profile = Accounts[j].profile.profile
  /\ SdkAt[i].validator = SdkAt[j].validator
  /\ SdkAt[i].hook = SdkAt[j].hook
  /\ SdkAt[i].factory = SdkAt[j].factory

(* A factory's address tells everything about its accounts but the index...*)
LEMMA FactoryDetermines ==
  ASSUME NEW i \in Ids, NEW j \in Ids, SdkAt[i].factory = SdkAt[j].factory
  PROVE  SameButIndex(i, j)
<1>1. FactoryFrom(Accounts[i].owner, Accounts[i].profile) = FactoryFrom(Accounts[j].owner, Accounts[j].profile)
  BY At
<1>2. /\ Accounts[i].owner = Accounts[j].owner
      /\ Accounts[i].profile.policy = Accounts[j].profile.policy
      /\ Accounts[i].profile.policyConfig = Accounts[j].profile.policyConfig
      /\ Accounts[i].profile.policyCodeHash = Accounts[j].profile.policyCodeHash
  BY <1>1, SameFactory, OwnerByFields
<1>3. PolicyMatches(Accounts[i].profile) /\ PolicyMatches(Accounts[j].profile)
  BY AccountsAssumption
<1>4. Accounts[i].profile.profile = Accounts[j].profile.profile
  BY <1>2, <1>3 DEF PolicyMatches
<1>5. HookFrom(Accounts[i].owner, Accounts[i].profile) = HookFrom(Accounts[j].owner, Accounts[j].profile)
  BY <1>1, <1>2 DEF HookFrom
<1>6. SdkAt[i].validator = SdkAt[j].validator
  BY <1>2, At
<1>7. SdkAt[i].hook = SdkAt[j].hook
  BY <1>5, At
<1> QED
  BY <1>2, <1>4, <1>6, <1>7 DEF SameButIndex

(* ...a hook's does...                                                     *)
LEMMA HookDetermines ==
  ASSUME NEW i \in Ids, NEW j \in Ids, SdkAt[i].hook = SdkAt[j].hook, SdkAt[i].hook # Zero
  PROVE  SameButIndex(i, j)
<1>1. /\ HookFrom(Accounts[i].owner, Accounts[i].profile) = HookFrom(Accounts[j].owner, Accounts[j].profile)
      /\ Accounts[i].profile.policy # Zero
  BY At
<1>3. HookFrom(Accounts[i].owner, Accounts[i].profile) # Zero
  BY <1>1 DEF HookFrom, Create, Zero
<1>2. FactoryFrom(Accounts[i].owner, Accounts[i].profile) = FactoryFrom(Accounts[j].owner, Accounts[j].profile)
  BY <1>1, <1>3, SameHook
<1> QED
  BY <1>2, At, FactoryDetermines

(* ...and an account's does.                                               *)
LEMMA AccountDetermines ==
  ASSUME NEW i \in Ids, NEW j \in Ids, SdkAt[i].account = SdkAt[j].account
  PROVE  SameButIndex(i, j)
<1>1. AccountFrom(Accounts[i].owner, Accounts[i].profile, Accounts[i].index)
        = AccountFrom(Accounts[j].owner, Accounts[j].profile, Accounts[j].index)
  BY At
<1>2. FactoryFrom(Accounts[i].owner, Accounts[i].profile) = FactoryFrom(Accounts[j].owner, Accounts[j].profile)
  BY <1>1, SameAccount
<1> QED
  BY <1>2, At, FactoryDetermines

(* The contracts compute what the SDK does. *)
LEMMA Onchain ==
  ASSUME NEW id \in Ids
  PROVE  /\ TableAt[id] = SdkAt[id].validator
         /\ FactoryAt[id] = SdkAt[id].factory
         /\ HookAt[id] = SdkAt[id].hook
<1> DEFINE o == Accounts[id].owner
           p == Accounts[id].profile
           g == Config(AnyChain, id)
<1>1. /\ g.entryPoint = <<"EntryPoint">> /\ g.kernelImplementation = <<"Kernel">>
      /\ g.tableFactory = <<"PreparedTableFactory">>
      /\ g.profilePreparationFactory = <<"ProfilePreparationFactory">>
      /\ g.validatorCreationCode = <<"PreparedTableValidator">>
      /\ g.profileFactoryCreationCode = <<"ProfileAccountFactory">>
      /\ g.policy = p.policy /\ g.policyConfig = p.policyConfig /\ g.policyCodeHash = p.policyCodeHash
  BY ConfigFields
<1> HIDE DEF o, p, g
<1>2. OnchainValidator(o, g) = ValidatorFrom(o)
  BY <1>1 DEF OnchainValidator, ValidatorFrom
<1>3. OnchainFactory(o, g) = FactoryFrom(o, p)
  BY <1>1 DEF OnchainFactory, FactoryFrom, Immutables
<1>4. OnchainHook(o, g) = HookFrom(o, p)
  BY <1>1, <1>3 DEF OnchainHook, HookFrom
<1> QED
  BY <1>2, <1>3, <1>4, At DEF TableAt, FactoryAt, HookAt, o, p, g

FactoryContract(id) ==
  [kind |-> "factory", implementation |-> <<"Kernel">>, validator |-> SdkAt[id].validator, hook |-> SdkAt[id].hook]

(* A factory computes the addresses of its accounts as the SDK does.       *)
LEMMA OnchainAccountAt ==
  ASSUME NEW id \in Ids
  PROVE  AccountAt(SdkAt[id].factory, FactoryContract(id), Accounts[id].index) = SdkAt[id].account
<1> DEFINE x == [FactoryContract(id) EXCEPT !.validator = Preimage(@), !.hook = Preimage(@)]
<1>1. /\ x.validator = Preimage(SdkAt[id].validator) /\ x.hook = Preimage(SdkAt[id].hook)
      /\ x.implementation = <<"Kernel">>
  BY DEF FactoryContract
<1> HIDE DEF x
<1>2. OnchainAccount(Preimage(SdkAt[id].factory), x, Zero, Accounts[id].index)
        = AccountFrom(Accounts[id].owner, Accounts[id].profile, Accounts[id].index)
  BY <1>1, At DEF OnchainAccount, AccountFrom
<1> QED
  BY <1>2, At DEF AccountAt, x

-----------------------------------------------------------------------------
(* The contracts of a chain.  k is what is deployed there. *)
HookContract(id) ==
  [kind |-> "hook", policy |-> Accounts[id].profile.policy, config |-> Accounts[id].profile.policyConfig,
   codeHash |-> Accounts[id].profile.policyCodeHash]
TableContract(id) ==
  [kind |-> "validator", key |-> Accounts[id].owner.key, headers |-> Accounts[id].owner.headers]

IsTable(k, a, id) ==
  /\ a = SdkAt[id].validator
  /\ k[a] = TableContract(id)
  /\ Accounts[id].owner.key \in GoodKeys

HookThere(k, id) == SdkAt[id].hook # Zero => SdkAt[id].hook \in DOMAIN k

IsFactory(k, a, id) ==
  /\ a = SdkAt[id].factory
  /\ k[a] = FactoryContract(id)
  /\ SdkAt[id].validator \in DOMAIN k
  /\ HookThere(k, id)

IsHook(k, a, id) ==
  /\ a = SdkAt[id].hook /\ a # Zero
  /\ k[a] = HookContract(id)
  /\ ValidateConfig(Accounts[id].profile.policy, Accounts[id].profile.policyConfig)

(* An account's root validator is some owner's; its own owner's if the     *)
(* account is restricted.                                                  *)
RootedIn(k, a, id, v) ==
  /\ k[a] = [kind |-> "account", root |-> SdkAt[v].validator, hook |-> SdkAt[id].hook]
  /\ SdkAt[v].validator \in DOMAIN k
  /\ Accounts[id].profile.profile = "restricted" => SdkAt[v].validator = SdkAt[id].validator

IsDerived(k, a, id) ==
  /\ a = SdkAt[id].account
  /\ HookThere(k, id)
  /\ \E v \in Ids : RootedIn(k, a, id, v)

IsContract(k, a, id) == IsTable(k, a, id) \/ IsFactory(k, a, id) \/ IsHook(k, a, id) \/ IsDerived(k, a, id)
ContractInv(k) == \A a \in DOMAIN k : \E id \in Ids : IsContract(k, a, id)

(* k2 is k with more contracts. *)
Grows(k, k2) == \A a \in DOMAIN k : a \in DOMAIN k2 /\ k2[a] = k[a]

(* More contracts leave a contract what it is.                             *)
LEMMA GrowsKeeps ==
  ASSUME NEW k, NEW k2, Grows(k, k2), NEW a \in DOMAIN k, NEW id \in Ids, IsContract(k, a, id)
  PROVE  IsContract(k2, a, id)
<1>1. CASE IsTable(k, a, id)
  BY <1>1 DEF IsContract, IsTable, Grows
<1>2. CASE IsFactory(k, a, id)
  BY <1>2 DEF IsContract, IsFactory, HookThere, Grows
<1>3. CASE IsHook(k, a, id)
  BY <1>3 DEF IsContract, IsHook, Grows
<1>4. CASE IsDerived(k, a, id)
  BY <1>4 DEF IsContract, IsDerived, RootedIn, HookThere, Grows
<1> QED
  BY <1>1, <1>2, <1>3, <1>4 DEF IsContract

(* What an address is derived as tells what is deployed there. *)
LEMMA Kinds ==
  ASSUME NEW k, ContractInv(k), NEW id \in Ids
  PROVE  /\ SdkAt[id].validator \in DOMAIN k => IsTable(k, SdkAt[id].validator, id)
         /\ SdkAt[id].factory \in DOMAIN k => IsFactory(k, SdkAt[id].factory, id)
         /\ SdkAt[id].hook \in DOMAIN k => IsHook(k, SdkAt[id].hook, id)
         /\ SdkAt[id].account \in DOMAIN k => IsDerived(k, SdkAt[id].account, id)
<1>1. ASSUME SdkAt[id].validator \in DOMAIN k
      PROVE  IsTable(k, SdkAt[id].validator, id)
  <2>1. PICK j \in Ids : IsContract(k, SdkAt[id].validator, j)
    BY <1>1 DEF ContractInv
  <2>2. IsTable(k, SdkAt[id].validator, j)
    BY <2>1, Apart DEF IsContract, IsFactory, IsHook, IsDerived
  <2>3. Accounts[id].owner = Accounts[j].owner
    BY <2>2, TableOwner DEF IsTable
  <2> QED
    BY <2>2, <2>3 DEF IsTable, TableContract
<1>2. ASSUME SdkAt[id].factory \in DOMAIN k
      PROVE  IsFactory(k, SdkAt[id].factory, id)
  <2>1. PICK j \in Ids : IsContract(k, SdkAt[id].factory, j)
    BY <1>2 DEF ContractInv
  <2>2. IsFactory(k, SdkAt[id].factory, j)
    BY <2>1, Apart DEF IsContract, IsTable, IsHook, IsDerived
  <2>3. SameButIndex(id, j)
    BY <2>2, FactoryDetermines DEF IsFactory
  <2> QED
    BY <2>2, <2>3 DEF IsFactory, FactoryContract, HookThere, SameButIndex
<1>3. ASSUME SdkAt[id].hook \in DOMAIN k
      PROVE  IsHook(k, SdkAt[id].hook, id)
  <2>1. PICK j \in Ids : IsContract(k, SdkAt[id].hook, j)
    BY <1>3 DEF ContractInv
  <2>2. IsHook(k, SdkAt[id].hook, j)
    BY <2>1, Apart DEF IsContract, IsTable, IsFactory, IsDerived
  <2>3. SameButIndex(id, j)
    BY <2>2, HookDetermines DEF IsHook
  <2> QED
    BY <2>2, <2>3 DEF IsHook, HookContract, SameButIndex
<1>4. ASSUME SdkAt[id].account \in DOMAIN k
      PROVE  IsDerived(k, SdkAt[id].account, id)
  <2>1. PICK j \in Ids : IsContract(k, SdkAt[id].account, j)
    BY <1>4 DEF ContractInv
  <2>2. IsDerived(k, SdkAt[id].account, j)
    BY <2>1, Apart DEF IsContract, IsTable, IsFactory, IsHook
  <2>3. SameButIndex(id, j)
    BY <2>2, AccountDetermines DEF IsDerived
  <2> QED
    BY <2>2, <2>3 DEF IsDerived, RootedIn, HookThere, SameButIndex
<1> QED
  BY <1>1, <1>2, <1>3, <1>4

(* ...and only factories are factories. *)
LEMMA FactoryKind ==
  ASSUME NEW k, ContractInv(k), NEW f \in DOMAIN k, k[f].kind = "factory"
  PROVE  \E id \in Ids : f = SdkAt[id].factory
<1>1. PICK id \in Ids : IsContract(k, f, id)
  BY DEF ContractInv
<1>2. ~IsTable(k, f, id)
  BY DEF IsTable, TableContract
<1>3. ~IsHook(k, f, id)
  BY DEF IsHook, HookContract
<1>4. ~IsDerived(k, f, id)
  BY DEF IsDerived, RootedIn
<1> QED
  BY <1>1, <1>2, <1>3, <1>4 DEF IsContract, IsFactory

(* PreparedTableFactory.prepare adds the table that was derived, and nothing*)
(* at an account's address.                                                *)
LEMMA WithTableKeeps ==
  ASSUME NEW k, ContractInv(k), NEW id \in Ids, Accounts[id].owner.key \in GoodKeys,
         NEW k2, k2 = WithTable(k, id)
  PROVE  /\ ContractInv(k2) /\ Grows(k, k2) /\ SdkAt[id].validator \in DOMAIN k2
         /\ \A a \in DOMAIN k2 \ DOMAIN k : a \notin Addresses
<1> DEFINE v == SdkAt[id].validator
<1>1. k2 = [a \in DOMAIN k \cup {v} |->
              IF a = v /\ a \notin DOMAIN k THEN TableContract(id) ELSE k[a]]
  BY Onchain DEF WithTable, TableContract
<1>2. Grows(k, k2) /\ v \in DOMAIN k2 /\ DOMAIN k2 = DOMAIN k \cup {v}
  BY <1>1 DEF Grows
<1>3. ASSUME NEW a \in DOMAIN k2
      PROVE  \E j \in Ids : IsContract(k2, a, j)
  <2>1. CASE a \in DOMAIN k
    BY <1>2, <2>1, GrowsKeeps DEF ContractInv
  <2>2. CASE a \notin DOMAIN k
    <3>1. a = v /\ k2[a] = TableContract(id)
      BY <1>1, <1>3, <2>2
    <3> QED
      BY <3>1 DEF IsContract, IsTable
  <2> QED
    BY <2>1, <2>2
<1>4. \A a \in DOMAIN k2 \ DOMAIN k : a \notin Addresses
  BY <1>2, Apart DEF Addresses
<1> QED
  BY <1>2, <1>3, <1>4 DEF ContractInv

(* ProfilePreparationFactory.prepare adds the factory and the hook that were*)
(* derived, and nothing at an account's address.                           *)
LEMMA WithFactoryKeeps ==
  ASSUME NEW k, ContractInv(k), NEW id \in Ids, SdkAt[id].validator \in DOMAIN k,
         SdkAt[id].factory \in DOMAIN k \/ SdkAt[id].hook = Zero
           \/ ValidateConfig(Accounts[id].profile.policy, Accounts[id].profile.policyConfig),
         NEW k2, k2 = WithFactory(k, id)
  PROVE  /\ ContractInv(k2) /\ Grows(k, k2)
         /\ \A a \in DOMAIN k2 \ DOMAIN k : a \notin Addresses
<1> DEFINE f == SdkAt[id].factory
           h == SdkAt[id].hook
<1>1. k2 = [a \in DOMAIN k \cup {f} \cup ({h} \ {Zero}) |->
              IF a \in DOMAIN k THEN k[a] ELSE IF a = f THEN FactoryContract(id) ELSE HookContract(id)]
  BY Onchain DEF WithFactory, FactoryContract, HookContract
<1>2. Grows(k, k2) /\ DOMAIN k2 = DOMAIN k \cup {f} \cup ({h} \ {Zero})
  BY <1>1 DEF Grows
<1>3. ASSUME NEW a \in DOMAIN k2
      PROVE  \E j \in Ids : IsContract(k2, a, j)
  <2>1. CASE a \in DOMAIN k
    BY <1>2, <2>1, GrowsKeeps DEF ContractInv
  <2>2. CASE a \notin DOMAIN k /\ a = f
    <3>1. k2[a] = FactoryContract(id)
      BY <1>1, <1>3, <2>2
    <3>2. IsFactory(k2, a, id)
      BY <1>2, <2>2, <3>1 DEF IsFactory, HookThere
    <3> QED
      BY <3>2 DEF IsContract
  <2>3. CASE a \notin DOMAIN k /\ a # f
    <3>1. a = h /\ a # Zero /\ k2[a] = HookContract(id)
      BY <1>1, <1>3, <2>3
    <3>2. SdkAt[id].factory \notin DOMAIN k
      BY <2>3, <3>1, Kinds DEF IsFactory, HookThere
    <3>3. IsHook(k2, a, id)
      BY <3>1, <3>2 DEF IsHook
    <3> QED
      BY <3>3 DEF IsContract
  <2> QED
    BY <2>1, <2>2, <2>3
<1>4. \A a \in DOMAIN k2 \ DOMAIN k : a \notin Addresses
  BY <1>2, Apart DEF Addresses
<1> QED
  BY <1>2, <1>3, <1>4 DEF ContractInv

(* createAccount adds the account the SDK derives, with its own table and  *)
(* hook, and leaves the account that is there already.                     *)
LEMMA CreatedKeeps ==
  ASSUME NEW k, ContractInv(k), NEW id \in Ids, SdkAt[id].factory \in DOMAIN k,
         NEW k2, k2 = Created(k, SdkAt[id].factory, Accounts[id].index)
  PROVE  /\ ContractInv(k2) /\ Grows(k, k2) /\ DOMAIN k2 = DOMAIN k \cup {SdkAt[id].account}
         /\ SdkAt[id].account \notin DOMAIN k => RootedIn(k2, SdkAt[id].account, id, id)
<1> DEFINE s == SdkAt[id].account
           new == [kind |-> "account", root |-> SdkAt[id].validator, hook |-> SdkAt[id].hook]
<1>1. IsFactory(k, SdkAt[id].factory, id)
  BY Kinds
<1>2. k[SdkAt[id].factory] = FactoryContract(id)
  BY <1>1 DEF IsFactory
<1>3. k2 = [a \in DOMAIN k \cup {s} |-> IF a = s /\ a \notin DOMAIN k THEN new ELSE k[a]]
  BY <1>2, OnchainAccountAt DEF Created, FactoryContract
<1>4. Grows(k, k2) /\ DOMAIN k2 = DOMAIN k \cup {s}
  BY <1>3 DEF Grows
<1>5. s \notin DOMAIN k => RootedIn(k2, s, id, id)
  BY <1>1, <1>3, <1>4 DEF RootedIn, IsFactory
<1>6. ASSUME NEW a \in DOMAIN k2
      PROVE  \E j \in Ids : IsContract(k2, a, j)
  <2>1. CASE a \in DOMAIN k
    BY <1>4, <2>1, GrowsKeeps DEF ContractInv
  <2>2. CASE a \notin DOMAIN k
    <3>1. a = s
      BY <1>4, <1>6, <2>2
    <3>2. HookThere(k2, id)
      BY <1>1, <1>4 DEF IsFactory, HookThere
    <3>3. IsDerived(k2, a, id)
      BY <1>5, <2>2, <3>1, <3>2 DEF IsDerived
    <3> QED
      BY <3>3 DEF IsContract
  <2> QED
    BY <2>1, <2>2
<1> QED
  BY <1>4, <1>5, <1>6 DEF ContractInv

(* The owner of an account without restrictions installs another table. *)
LEMMA RotatedKeeps ==
  ASSUME NEW k, ContractInv(k), NEW id \in Ids, SdkAt[id].account \in DOMAIN k,
         Accounts[id].profile.profile # "restricted",
         NEW v \in Ids, SdkAt[v].validator \in DOMAIN k,
         NEW k2, k2 = [k EXCEPT ![SdkAt[id].account].root = SdkAt[v].validator]
  PROVE  ContractInv(k2) /\ DOMAIN k2 = DOMAIN k /\ RootedIn(k2, SdkAt[id].account, id, v)
<1> DEFINE s == SdkAt[id].account
<1>1. IsDerived(k, s, id)
  BY Kinds
<1>2. k2 = [a \in DOMAIN k |-> IF a = s THEN [k[s] EXCEPT !.root = SdkAt[v].validator] ELSE k[a]]
  OBVIOUS
<1>3. k2[s] = [kind |-> "account", root |-> SdkAt[v].validator, hook |-> SdkAt[id].hook]
  BY <1>1, <1>2 DEF IsDerived, RootedIn
<1>4. DOMAIN k2 = DOMAIN k /\ \A a \in DOMAIN k : a # s => k2[a] = k[a]
  BY <1>2
<1>5. RootedIn(k2, s, id, v)
  BY <1>3, <1>4 DEF RootedIn
<1>6. ASSUME NEW a \in DOMAIN k2
      PROVE  \E j \in Ids : IsContract(k2, a, j)
  <2>1. CASE a = s
    <3>1. IsDerived(k2, a, id)
      BY <1>1, <1>4, <1>5, <2>1 DEF IsDerived, HookThere
    <3> QED
      BY <3>1 DEF IsContract
  <2>2. CASE a # s
    <3>1. PICK j \in Ids : IsContract(k, a, j)
      BY <1>4 DEF ContractInv
    <3>2. k2[a] = k[a] /\ DOMAIN k2 = DOMAIN k
      BY <1>4, <2>2
    <3>3. IsContract(k2, a, j)
      BY <3>1, <3>2 DEF IsContract, IsTable, IsFactory, IsHook, IsDerived, RootedIn, HookThere
    <3> QED
      BY <3>3
  <2> QED
    BY <2>1, <2>2
<1> QED
  BY <1>4, <1>5, <1>6 DEF ContractInv

(* Whoever asks a factory for an index gets an account the SDK derives. *)
LEMMA AskedFor ==
  ASSUME NEW id \in Ids, NEW other \in Ids
  PROVE  \E both \in Ids : /\ SdkAt[both].factory = SdkAt[id].factory
                           /\ Accounts[both].index = Accounts[other].index
<1>1. PICK both \in Ids : /\ Accounts[both].owner = Accounts[id].owner
                         /\ Accounts[both].profile = Accounts[id].profile
                         /\ Accounts[both].index = Accounts[other].index
  BY IndexAssumption
<1> QED
  BY <1>1, At

-----------------------------------------------------------------------------
(* The invariant. *)
CodeInv == DOMAIN code = Chains /\ \A c \in Chains : ContractInv(code[c])

Signed(s, r) ==
  s = [signer |-> r.signer, chain |-> r.chain, op |-> Operation(r), payload |-> OperationHash(Operation(r), r.chain)]
SignedInv == \A s \in signed : \E r \in Requests : Signed(s, r)

(* An operation that was performed is signed, and its nonce is used up. *)
Done(c, e) ==
  /\ e.authorization \in signed
  /\ e.authorization.op.nonce < nonce[c][e.authorization.op.sender]
  /\ WithinPolicy(e)
PerformedInv ==
  /\ DOMAIN performed = Chains
  /\ \A c \in Chains : /\ \E S : performed[c] \in Seq(S)
                      /\ \A i \in DOMAIN performed[c] : Done(c, performed[c][i])

IInv ==
  /\ CodeInv
  /\ SignedInv
  /\ nonce \in [Chains -> [Addresses -> Nat]]
  /\ PerformedInv

(* Nothing is deployed, signed or performed at first.                      *)
LEMMA Initially == Init => IInv
<1> SUFFICES ASSUME Init PROVE IInv
  OBVIOUS
<1>1. CodeInv
  BY DEF Init, CodeInv, ContractInv
<1>2. SignedInv
  BY DEF Init, SignedInv
<1>3. nonce \in [Chains -> [Addresses -> Nat]]
  BY DEF Init
<1>4. PerformedInv
  <2>1. \A c \in Chains : performed[c] = <<>>
    BY DEF Init
  <2>2. DOMAIN performed = Chains
    BY DEF Init
  <2>3. ASSUME NEW c \in Chains
        PROVE  /\ \E S : performed[c] \in Seq(S)
               /\ DOMAIN performed[c] = {}
    <3>1. performed[c] = <<>> /\ <<>> \in Seq({})
      BY <2>1, EmptySeq
    <3> QED
      BY <3>1
  <2> QED
    BY <2>2, <2>3 DEF PerformedInv
<1> QED
  BY <1>1, <1>2, <1>3, <1>4 DEF IInv

(* IdOf finds an id of the account, whose owner and profile are the account's.*)
LEMMA IdOfAddress ==
  ASSUME NEW id \in Ids
  PROVE  /\ SdkAt[id].account \in Addresses
         /\ IdOf[SdkAt[id].account] \in Ids
         /\ SdkAt[IdOf[SdkAt[id].account]].account = SdkAt[id].account
         /\ SameButIndex(IdOf[SdkAt[id].account], id)
<1> DEFINE a == SdkAt[id].account
<1>1. a \in Addresses
  BY DEF Addresses
<1>2. IdOf[a] = CHOOSE i \in Ids : SdkAt[i].account = a
  BY <1>1 DEF IdOf
<1>3. IdOf[a] \in Ids /\ SdkAt[IdOf[a]].account = a
  BY <1>2
<1> QED
  BY <1>1, <1>3, AccountDetermines

(* operationHash tells the chain.                                          *)
LEMMA HashDetermines ==
  ASSUME NEW op, NEW c, NEW d, OperationHash(op, c) = OperationHash(op, d)
  PROVE  c = d
BY DEF OperationHash, Keccak

(* What HandleOp does on chain c with an operation of account id, which    *)
(* owner v controls before and owner w after it.                           *)
Obeyed(c, s, id, v, w) ==
  LET a == SdkAt[id].account IN
  /\ s.op.sender = a
  /\ s.chain = c /\ s.signer = Accounts[v].owner
  /\ IF a \in DOMAIN code[c] THEN RootedIn(code[c], a, id, v) ELSE Accounts[v].owner = Accounts[id].owner
  /\ Accounts[id].profile.profile = "restricted" => w = v
  /\ DOMAIN code' = Chains /\ \A d \in Chains \ {c} : code'[d] = code[d]
  /\ DOMAIN code'[c] = DOMAIN code[c] \cup {a}
  /\ \A b \in DOMAIN code[c] \ {a} : code'[c][b] = code[c][b]
  /\ ContractInv(code'[c])
  /\ RootedIn(code'[c], a, id, w)

(* An operation that the EntryPoint performs was signed, for this chain, by*)
(* the owner of the account's table at that moment, with the next nonce; it*)
(* changes the root of the account at most, and ran calls within the policy.*)
LEMMA Handled ==
  ASSUME IInv, NEW c \in Chains, NEW s \in signed, NEW failing, HandleOp(c, s, failing)
  PROVE  /\ \E id \in Ids, v \in Ids, w \in Ids : Obeyed(c, s, id, v, w)
         /\ \E e : /\ performed' = [performed EXCEPT ![c] = Append(@, e)]
                  /\ e.authorization = s /\ WithinPolicy(e)
<1> DEFINE op == s.op
           k == IF op.init # <<>> THEN Created(code[c], op.init[1], op.init[2]) ELSE code[c]
           account == k[op.sender]
           hook == k[account.hook]
           permitted == account.hook # Zero => /\ policyCode[c][hook.policy] = hook.codeHash
                                               /\ PreCheck(hook, op.callData)
           newRoot == TableAt[op.callData.root]
           rotates == permitted /\ op.callData.mode = "admin" /\ newRoot \in DOMAIN k
           k2 == IF rotates THEN [k EXCEPT ![op.sender].root = newRoot] ELSE k
           e == [authorization |-> s, mode |-> op.callData.mode,
                 policyCode |-> IF account.hook = Zero THEN Zero ELSE policyCode[c][hook.policy],
                 calls |-> IF permitted THEN Executed(op.callData, failing) ELSE <<>>]
<1>1. /\ op.init # <<>> => op.sender \notin DOMAIN code[c] /\ op.init[1] \in DOMAIN code[c]
      /\ op.sender \in DOMAIN k
      /\ Validates(k[account.root], c, s)
      /\ code' = [code EXCEPT ![c] = k2]
      /\ performed' = [performed EXCEPT ![c] = Append(@, e)]
  BY DEF HandleOp
<1>2. PICK r \in Requests : Signed(s, r)
  BY DEF IInv, SignedInv
<1> DEFINE id == r.id
           a == SdkAt[r.id].account
<1>3. /\ id \in Ids /\ op.sender = a /\ op.callData = r.callData /\ s.chain = r.chain
      /\ op.init = IF r.create THEN <<SdkAt[id].factory, Accounts[id].index>> ELSE <<>>
      /\ op.callData.mode = "admin" => op.callData.root \in Ids
  BY <1>2, RequestsAssumption DEF Signed, Operation
<1>4. ContractInv(code[c]) /\ DOMAIN code = Chains
  BY DEF IInv, CodeInv
<1>5. /\ ContractInv(k) /\ Grows(code[c], k) /\ DOMAIN k = DOMAIN code[c] \cup {a}
      /\ a \notin DOMAIN code[c] => RootedIn(k, a, id, id)
  <2>1. CASE r.create
    <3>1. op.init # <<>> /\ op.init[1] = SdkAt[id].factory /\ op.init[2] = Accounts[id].index
      BY <1>3, <2>1
    <3>2. k = Created(code[c], SdkAt[id].factory, Accounts[id].index) /\ SdkAt[id].factory \in DOMAIN code[c]
      BY <1>1, <3>1
    <3>3. PICK before, after : before = code[c] /\ after = k
      OBVIOUS
    <3> HIDE DEF k, op, id
    <3>4. /\ ContractInv(before) /\ id \in Ids /\ SdkAt[id].factory \in DOMAIN before
          /\ after = Created(before, SdkAt[id].factory, Accounts[id].index)
      BY <1>3, <1>4, <3>2, <3>3
    <3>5. /\ ContractInv(after) /\ Grows(before, after) /\ DOMAIN after = DOMAIN before \cup {SdkAt[id].account}
          /\ SdkAt[id].account \notin DOMAIN before => RootedIn(after, SdkAt[id].account, id, id)
      BY <3>4, CreatedKeeps
    <3> QED
      BY <3>3, <3>5 DEF id
  <2>2. CASE ~r.create
    <3>1. k = code[c]
      BY <1>3, <2>2
    <3>2. a \in DOMAIN code[c]
      BY <1>1, <1>3, <3>1
    <3> QED
      BY <1>4, <3>1, <3>2 DEF Grows
  <2> QED
    BY <2>1, <2>2
<1> HIDE DEF k
<1>6. IsDerived(k, a, id)
  BY <1>3, <1>5, Kinds
<1>7. PICK v \in Ids : RootedIn(k, a, id, v)
  BY <1>6 DEF IsDerived
<1>8. account.root = SdkAt[v].validator /\ account.hook = SdkAt[id].hook /\ k[account.root] = TableContract(v)
  <2>1. account.root = SdkAt[v].validator /\ account.hook = SdkAt[id].hook /\ SdkAt[v].validator \in DOMAIN k
    BY <1>3, <1>7 DEF RootedIn
  <2> QED
    BY <2>1, <1>5, Kinds DEF IsTable
<1>9. s.signer = Accounts[v].owner /\ s.chain = c
  <2>1. s.signer = [key |-> Accounts[v].owner.key, headers |-> Accounts[v].owner.headers]
    BY <1>1, <1>8 DEF Validates, TableContract
  <2>2. OperationHash(Operation(r), r.chain) = OperationHash(Operation(r), c)
    BY <1>1, <1>2 DEF Validates, Signed
  <2>3. r.chain = c
    BY <2>2, HashDetermines
  <2> QED
    BY <1>3, <2>1, <2>3, AccountsAssumption
<1>10. a \notin DOMAIN code[c] => Accounts[v].owner = Accounts[id].owner
  <2>1. SUFFICES ASSUME a \notin DOMAIN code[c] PROVE Accounts[v].owner = Accounts[id].owner
    OBVIOUS
  <2>2. SdkAt[v].validator = SdkAt[id].validator
    BY <1>5, <1>7, <2>1 DEF RootedIn
  <2> QED
    BY <1>3, <2>2, TableOwner
<1>11. a \in DOMAIN code[c] => RootedIn(code[c], a, id, v)
  <2>1. SUFFICES ASSUME a \in DOMAIN code[c] PROVE RootedIn(code[c], a, id, v)
    OBVIOUS
  <2>2. IsDerived(code[c], a, id)
    BY <1>3, <1>4, <2>1, Kinds
  <2>3. PICK u \in Ids : RootedIn(code[c], a, id, u)
    BY <2>2 DEF IsDerived
  <2>4. k[a] = code[c][a]
    BY <1>5, <2>1 DEF Grows
  <2>5. SdkAt[u].validator = SdkAt[v].validator
    BY <1>7, <2>3, <2>4 DEF RootedIn
  <2> QED
    BY <1>7, <2>3, <2>4, <2>5 DEF RootedIn
<1>12. ASSUME permitted, SdkAt[id].hook # Zero
       PROVE  /\ policyCode[c][hook.policy] = Accounts[id].profile.policyCodeHash
              /\ hook = HookContract(id)
              /\ PreCheck(HookContract(id), r.callData)
  <2>1. SdkAt[id].hook \in DOMAIN k
    BY <1>6, <1>12 DEF IsDerived, HookThere
  <2>2. k[SdkAt[id].hook] = HookContract(id)
    BY <1>3, <1>5, <2>1, Kinds DEF IsHook
  <2> QED
    BY <1>3, <1>8, <1>12, <2>2 DEF HookContract
<1>13. Accounts[id].profile.profile = "restricted" => SdkAt[id].hook # Zero
  BY <1>3, At, AccountsAssumption DEF PolicyMatches
<1>14. WithinPolicy(e) /\ e.authorization = s
  <2> DEFINE i == IdOf[op.sender]
             p == Accounts[i].profile
  <2>1. i \in Ids /\ SameButIndex(i, id)
    BY <1>3, IdOfAddress
  <2>2. SUFFICES ASSUME p.profile = "restricted", e.calls # <<>>
                 PROVE  /\ e.mode \in {"single", "batch"} /\ e.calls = op.callData.calls
                        /\ e.policyCode = p.policyCodeHash
                        /\ \A j \in DOMAIN e.calls : /\ e.calls[j].target \notin {Self, ZeroTarget}
                                                     /\ CheckCall(p.policy, e.calls[j], p.policyConfig)
    BY DEF WithinPolicy
  <2>3. SdkAt[id].hook # Zero /\ permitted
    BY <1>13, <2>1, <2>2 DEF SameButIndex
  <2>4. /\ e.policyCode = Accounts[id].profile.policyCodeHash
        /\ PreCheck(HookContract(id), r.callData)
    BY <1>8, <1>12, <2>3
  <2>5. e.mode = r.callData.mode /\ r.callData.mode \in {"single", "batch"}
    BY <1>3, <2>4 DEF PreCheck
  <2>6. e.calls = r.callData.calls
    BY <1>3, <2>2, <2>3, <2>5 DEF Executed
  <2>7. \A j \in DOMAIN r.callData.calls :
          /\ r.callData.calls[j].target \notin {Self, ZeroTarget}
          /\ CheckCall(Accounts[id].profile.policy, r.callData.calls[j], Accounts[id].profile.policyConfig)
    BY <2>4 DEF PreCheck, HookContract
  <2> QED
    BY <1>3, <2>1, <2>4, <2>5, <2>6, <2>7 DEF SameButIndex
<1>15. ASSUME rotates
       PROVE  Accounts[id].profile.profile # "restricted" /\ op.callData.root \in Ids
                /\ newRoot = SdkAt[op.callData.root].validator /\ newRoot \in DOMAIN k
  <2>1. r.callData.mode = "admin" /\ op.callData.root \in Ids
    BY <1>3, <1>15
  <2>2. SdkAt[id].hook = Zero
    BY <1>12, <1>15, <2>1 DEF PreCheck
  <2> QED
    BY <1>13, <1>15, <2>1, <2>2, Onchain
<1> DEFINE w == IF rotates THEN op.callData.root ELSE v
<1>16. /\ w \in Ids /\ ContractInv(k2) /\ DOMAIN k2 = DOMAIN k /\ RootedIn(k2, a, id, w)
       /\ \A b \in DOMAIN k \ {a} : k2[b] = k[b]
       /\ Accounts[id].profile.profile = "restricted" => w = v
  <2>1. CASE rotates
    <3>1. k2 = [k EXCEPT ![a].root = SdkAt[w].validator] /\ w \in Ids /\ SdkAt[w].validator \in DOMAIN k
      BY <1>3, <1>15, <2>1
    <3>2. a \in DOMAIN k /\ Accounts[id].profile.profile # "restricted"
      BY <1>5, <1>15, <2>1
    <3> HIDE DEF k2, w, rotates
    <3>3. ContractInv(k2) /\ DOMAIN k2 = DOMAIN k /\ RootedIn(k2, a, id, w)
      BY <1>3, <1>5, <3>1, <3>2, RotatedKeeps
    <3>4. \A b \in DOMAIN k \ {a} : k2[b] = k[b]
      BY <3>1
    <3> QED
      BY <3>1, <3>2, <3>3, <3>4
  <2>2. CASE ~rotates
    BY <1>5, <1>7, <2>2
  <2> QED
    BY <2>1, <2>2
<1> HIDE DEF k2, w, e
<1>17. code'[c] = k2 /\ DOMAIN code' = Chains /\ \A d \in Chains \ {c} : code'[d] = code[d]
  BY <1>1, <1>4
<1>18. \A b \in DOMAIN code[c] \ {a} : code'[c][b] = code[c][b]
  BY <1>5, <1>16, <1>17 DEF Grows
<1>19. Obeyed(c, s, id, v, w)
  BY <1>3, <1>5, <1>9, <1>10, <1>11, <1>16, <1>17, <1>18 DEF Obeyed
<1> QED
  BY <1>1, <1>3, <1>14, <1>16, <1>19

-----------------------------------------------------------------------------
(* The deployments: contracts are added and none is changed. *)
Deployed(c) ==
  /\ DOMAIN code' = Chains /\ \A d \in Chains \ {c} : code'[d] = code[d]
  /\ ContractInv(code'[c]) /\ Grows(code[c], code'[c])

(* One lemma for each transaction: what a table's preparation deploys...   *)
LEMMA TablePrepared ==
  ASSUME IInv, NEW c \in Chains, NEW id \in Ids, PrepareTable(c, id)
  PROVE  Deployed(c) /\ \A a \in DOMAIN code'[c] \ DOMAIN code[c] : a \notin Addresses
<1>1. ContractInv(code[c]) /\ DOMAIN code = Chains
  BY DEF IInv, CodeInv
<1>2. code' = [code EXCEPT ![c] = WithTable(code[c], id)] /\ Accounts[id].owner.key \in GoodKeys
  BY DEF PrepareTable
<1>3. /\ code'[c] = WithTable(code[c], id) /\ DOMAIN code' = Chains
      /\ \A d \in Chains \ {c} : code'[d] = code[d]
  BY <1>1, <1>2
<1> QED
  BY <1>1, <1>2, <1>3, WithTableKeeps DEF Deployed

(* ...what a profile's preparation deploys...                              *)
LEMMA ProfilePrepared ==
  ASSUME IInv, NEW c \in Chains, NEW id \in Ids, PrepareProfile(c, id)
  PROVE  Deployed(c) /\ \A a \in DOMAIN code'[c] \ DOMAIN code[c] : a \notin Addresses
<1> DEFINE k == WithTable(code[c], id)
<1>1. ContractInv(code[c]) /\ DOMAIN code = Chains
  BY DEF IInv, CodeInv
<1>2. /\ code' = [code EXCEPT ![c] = WithFactory(k, id)] /\ Accounts[id].owner.key \in GoodKeys
      /\ FactoryAt[id] \in DOMAIN code[c] \/ Constructible(c, id)
  BY DEF PrepareProfile
<1> HIDE DEF k
<1>3. /\ code'[c] = WithFactory(k, id) /\ DOMAIN code' = Chains
      /\ \A d \in Chains \ {c} : code'[d] = code[d]
  BY <1>1, <1>2
<1>4. /\ ContractInv(k) /\ Grows(code[c], k) /\ SdkAt[id].validator \in DOMAIN k
      /\ \A a \in DOMAIN k \ DOMAIN code[c] : a \notin Addresses
  BY <1>1, <1>2, WithTableKeeps DEF k
<1>5. \/ SdkAt[id].factory \in DOMAIN k
      \/ SdkAt[id].hook = Zero
      \/ ValidateConfig(Accounts[id].profile.policy, Accounts[id].profile.policyConfig)
  BY <1>2, <1>4, Onchain, At DEF Constructible, Grows
<1>6. /\ ContractInv(code'[c]) /\ Grows(k, code'[c])
      /\ \A a \in DOMAIN code'[c] \ DOMAIN k : a \notin Addresses
  BY <1>3, <1>4, <1>5, WithFactoryKeeps
<1> QED
  BY <1>3, <1>4, <1>6 DEF Deployed, Grows

(* ...and what the creation of an account does.                            *)
LEMMA AccountCreated ==
  ASSUME IInv, NEW c \in Chains, NEW f \in DOMAIN code[c], NEW other \in Offered[c],
         CreateAccount(c, f, Accounts[other].index)
  PROVE  \E id \in Ids :
           /\ Deployed(c) /\ DOMAIN code'[c] = DOMAIN code[c] \cup {SdkAt[id].account}
           /\ SdkAt[id].account \notin DOMAIN code[c] => RootedIn(code'[c], SdkAt[id].account, id, id)
<1>1. ContractInv(code[c]) /\ DOMAIN code = Chains
  BY DEF IInv, CodeInv
<1>2. code' = [code EXCEPT ![c] = Created(code[c], f, Accounts[other].index)] /\ code[c][f].kind = "factory"
  BY DEF CreateAccount
<1>3. PICK first \in Ids : f = SdkAt[first].factory
  BY <1>1, <1>2, FactoryKind
<1>4. other \in Ids
  BY ChainsAssumption
<1>5. PICK id \in Ids : f = SdkAt[id].factory /\ Accounts[id].index = Accounts[other].index
  BY <1>3, <1>4, AskedFor
<1>6. /\ code'[c] = Created(code[c], SdkAt[id].factory, Accounts[id].index) /\ DOMAIN code' = Chains
      /\ \A d \in Chains \ {c} : code'[d] = code[d]
  BY <1>1, <1>2, <1>5
<1>7. /\ ContractInv(code'[c]) /\ Grows(code[c], code'[c]) /\ DOMAIN code'[c] = DOMAIN code[c] \cup {SdkAt[id].account}
      /\ SdkAt[id].account \notin DOMAIN code[c] => RootedIn(code'[c], SdkAt[id].account, id, id)
  BY <1>1, <1>5, <1>6, CreatedKeeps
<1> QED
  BY <1>6, <1>7 DEF Deployed

(* A transaction that only deploys what was derived preserves IInv.        *)
LEMMA DeployedIInv ==
  ASSUME IInv, NEW c \in Chains, Deployed(c), UNCHANGED <<policyCode, nonce, signed, performed>>
  PROVE  IInv'
<1>1. CodeInv'
  BY DEF IInv, CodeInv, Deployed
<1>2. SignedInv' /\ PerformedInv' /\ (nonce \in [Chains -> [Addresses -> Nat]])'
  BY DEF IInv, SignedInv, PerformedInv, Done
<1> QED
  BY <1>1, <1>2 DEF IInv

(* A signature preserves IInv.                                             *)
LEMMA SignIInv ==
  ASSUME IInv, NEW r \in Requests, Sign(r.signer, r.chain, Operation(r))
  PROVE  IInv'
<1> DEFINE s == [signer |-> r.signer, chain |-> r.chain, op |-> Operation(r), payload |-> OperationHash(Operation(r), r.chain)]
<1>1. signed' = signed \cup {s} /\ UNCHANGED <<code, policyCode, nonce, performed>>
  BY DEF Sign
<1>2. Signed(s, r)
  BY DEF Signed
<1>3. SignedInv'
  BY <1>1, <1>2 DEF IInv, SignedInv
<1>4. CodeInv' /\ PerformedInv' /\ (nonce \in [Chains -> [Addresses -> Nat]])'
  BY <1>1 DEF IInv, CodeInv, PerformedInv, Done
<1> QED
  BY <1>3, <1>4 DEF IInv

(* An operation preserves IInv.                                            *)
LEMMA HandleIInv ==
  ASSUME IInv, NEW c \in Chains, NEW s \in signed, NEW failing, HandleOp(c, s, failing)
  PROVE  IInv'
<1>1. PICK id \in Ids, v \in Ids, w \in Ids : Obeyed(c, s, id, v, w)
  BY Handled
<1>2. PICK e : /\ performed' = [performed EXCEPT ![c] = Append(@, e)]
               /\ e.authorization = s /\ WithinPolicy(e)
  BY Handled
<1>3. UNCHANGED <<policyCode, signed>> /\ s.op.nonce = nonce[c][s.op.sender]
  BY DEF HandleOp
<1>4. nonce' = [nonce EXCEPT ![c][s.op.sender] = @ + 1]
  BY DEF HandleOp
<1>5. CodeInv'
  BY <1>1 DEF IInv, CodeInv, Obeyed
<1>6. SignedInv'
  BY <1>3 DEF IInv, SignedInv
<1>7. s.op.sender \in Addresses
  BY <1>1, IdOfAddress DEF Obeyed
<1>8. (nonce \in [Chains -> [Addresses -> Nat]])'
  BY <1>4, <1>7 DEF IInv
<1>9. \A d \in Chains, a \in Addresses : nonce[d][a] <= nonce'[d][a] /\ nonce[d][a] \in Nat
  BY <1>4, <1>7 DEF IInv
<1>10. nonce[c][s.op.sender] < nonce'[c][s.op.sender]
  BY <1>4, <1>7 DEF IInv
<1>11. DOMAIN performed = Chains /\ DOMAIN performed' = Chains
  BY <1>2 DEF IInv, PerformedInv
<1>12. ASSUME NEW t \in signed
       PROVE  t.op.sender \in Addresses /\ t.op.nonce \in Nat
  <2>1. PICK r \in Requests : Signed(t, r)
    BY DEF IInv, SignedInv
  <2>2. r.id \in Ids /\ r.nonce \in 0..MaxSigned
    BY RequestsAssumption
  <2>3. t.op.sender = SdkAt[r.id].account /\ t.op.nonce = r.nonce
    BY <2>1 DEF Signed, Operation
  <2>4. r.nonce \in Nat
    BY <2>2
  <2> QED
    BY <2>2, <2>3, <2>4, IdOfAddress
<1>13. ASSUME NEW d \in Chains
       PROVE  /\ \E S : performed'[d] \in Seq(S)
              /\ \A i \in DOMAIN performed'[d] : Done(d, performed[d][i])'
  <2>1. PICK S : performed[d] \in Seq(S)
    BY DEF IInv, PerformedInv
  <2>2. ASSUME NEW x, Done(d, x)
        PROVE  Done(d, x)'
    <3>1. x.authorization \in signed /\ x.authorization.op.nonce < nonce[d][x.authorization.op.sender] /\ WithinPolicy(x)
      BY <2>2 DEF Done
    <3>2. x.authorization.op.sender \in Addresses /\ x.authorization.op.nonce \in Nat
      BY <1>12, <3>1
    <3>3. x.authorization.op.nonce < nonce'[d][x.authorization.op.sender]
      BY <1>8, <1>9, <3>1, <3>2
    <3> QED
      BY <1>3, <3>1, <3>3 DEF Done, WithinPolicy
  <2>3. CASE d # c
    <3>1. performed'[d] = performed[d]
      BY <1>2, <1>11, <2>3
    <3>2. ASSUME NEW i \in DOMAIN performed'[d]
          PROVE  Done(d, performed[d][i])'
      <4>1. PICK x : x = performed[d][i]
        OBVIOUS
      <4>2. Done(d, x)
        BY <3>1, <4>1 DEF IInv, PerformedInv
      <4>3. Done(d, x)'
        BY <2>2, <4>2
      <4> QED
        BY <3>1, <4>1, <4>3 DEF Done
    <3> QED
      BY <2>1, <3>1, <3>2
  <2>4. CASE d = c
    <3>1. performed'[c] = Append(performed[c], e)
      BY <1>2, <1>11
    <3>2. performed[c] \in Seq(S \cup {e}) /\ e \in S \cup {e}
      BY <2>1, <2>4
    <3>3. /\ performed'[c] \in Seq(S \cup {e})
          /\ Len(performed'[c]) = Len(performed[c]) + 1
          /\ \A i \in 1..Len(performed[c]) : performed'[c][i] = performed[c][i]
          /\ performed'[c][Len(performed[c]) + 1] = e
      BY <3>1, <3>2, AppendProperties
    <3>4. Done(c, e)'
      BY <1>2, <1>3, <1>10 DEF Done, WithinPolicy
    <3>5. ASSUME NEW i \in DOMAIN performed'[c]
          PROVE  Done(c, performed[c][i])'
      <4>1. i \in 1..Len(performed[c]) \/ i = Len(performed[c]) + 1
        BY <3>2, <3>3
      <4>2. CASE i \in 1..Len(performed[c])
        <5>1. i \in DOMAIN performed[c] /\ performed'[c][i] = performed[c][i]
          BY <3>2, <3>3, <4>2
        <5>2. PICK x : x = performed[c][i]
          OBVIOUS
        <5>3. Done(d, x)
          BY <2>4, <5>1, <5>2 DEF IInv, PerformedInv
        <5>4. Done(d, x)'
          BY <2>2, <5>3
        <5> QED
          BY <2>4, <5>1, <5>2, <5>4 DEF Done
      <4>3. CASE i = Len(performed[c]) + 1
        BY <3>3, <3>4, <4>3 DEF Done
      <4> QED
        BY <4>1, <4>2, <4>3
    <3> QED
      BY <2>4, <3>3, <3>5
  <2> QED
    BY <2>3, <2>4
<1>14. PerformedInv'
  BY <1>11, <1>13 DEF PerformedInv
<1> QED
  BY <1>5, <1>6, <1>8, <1>14 DEF IInv

(* Every step preserves IInv.                                              *)
LEMMA NextIInv == IInv /\ [Next]_vars => IInv'
<1> SUFFICES ASSUME IInv, [Next]_vars PROVE IInv'
  OBVIOUS
<1>1. \A c \in Chains : Offered[c] \subseteq Ids
  BY ChainsAssumption
<1>2. ASSUME NEW c \in Chains, NEW id \in Offered[c], PrepareTable(c, id)
      PROVE  IInv'
  <2>1. UNCHANGED <<policyCode, nonce, signed, performed>>
    BY <1>2 DEF PrepareTable
  <2> QED
    BY <1>1, <1>2, <2>1, TablePrepared, DeployedIInv
<1>3. ASSUME NEW c \in Chains, NEW id \in Offered[c], PrepareProfile(c, id)
      PROVE  IInv'
  <2>1. UNCHANGED <<policyCode, nonce, signed, performed>>
    BY <1>3 DEF PrepareProfile
  <2> QED
    BY <1>1, <1>3, <2>1, ProfilePrepared, DeployedIInv
<1>4. ASSUME NEW c \in Chains, NEW f \in DOMAIN code[c], NEW id \in Offered[c], CreateAccount(c, f, Accounts[id].index)
      PROVE  IInv'
  <2>1. UNCHANGED <<policyCode, nonce, signed, performed>>
    BY <1>4 DEF CreateAccount
  <2>2. Deployed(c)
    BY <1>4, AccountCreated
  <2> QED
    BY <2>1, <2>2, DeployedIInv
<1>5. ASSUME NEW c \in Chains, NEW policy, PolicyChanges(c, policy)
      PROVE  IInv'
  <2>1. UNCHANGED <<code, nonce, signed, performed>>
    BY <1>5 DEF PolicyChanges
  <2> QED
    BY <2>1 DEF IInv, CodeInv, SignedInv, PerformedInv, Done
<1>6. ASSUME NEW r \in Requests, Sign(r.signer, r.chain, Operation(r))
      PROVE  IInv'
  BY <1>6, SignIInv
<1>7. ASSUME NEW c \in Chains, NEW s \in signed, NEW failing, HandleOp(c, s, failing)
      PROVE  IInv'
  BY <1>7, HandleIInv
<1>8. CASE UNCHANGED vars
  BY <1>8 DEF vars, IInv, CodeInv, SignedInv, PerformedInv, Done
<1> QED
  BY <1>2, <1>3, <1>4, <1>5, <1>6, <1>7, <1>8 DEF Next

(* IInv holds in every reachable state.                                    *)
LEMMA Invariant == Spec => []IInv
<1>1. Init => IInv
  BY Initially
<1>2. IInv /\ [Next]_vars => IInv'
  BY NextIInv
<1> QED
  BY <1>1, <1>2, PTL DEF Spec

-----------------------------------------------------------------------------
(* Contracts refer to contracts that exist and are what they should be:    *)
(* factories and accounts have a table with a key that _checkedOwner       *)
(* accepts, and every hook passed validateConfig.                          *)
THEOREM TypeCorrect == Spec => []TypeOK
<1>1. ASSUME NEW k, ContractInv(k), NEW a \in DOMAIN k, NEW x, x = k[a]
      PROVE  /\ x.kind = "factory" => x.validator \in DOMAIN k /\ k[x.validator].kind = "validator"
             /\ x.kind = "account" => x.root \in DOMAIN k /\ k[x.root].kind = "validator"
             /\ x.kind \in {"factory", "account"} /\ x.hook # Zero => x.hook \in DOMAIN k /\ k[x.hook].kind = "hook"
             /\ x.kind = "validator" => x.key \in GoodKeys
             /\ x.kind = "hook" => ValidateConfig(x.policy, x.config)
  <2>1. PICK id \in Ids : IsContract(k, a, id)
    BY <1>1 DEF ContractInv
  <2>2. \A v \in Ids : SdkAt[v].validator \in DOMAIN k => k[SdkAt[v].validator].kind = "validator"
    <3>1. ASSUME NEW v \in Ids, SdkAt[v].validator \in DOMAIN k
          PROVE  k[SdkAt[v].validator].kind = "validator"
      <4>1. IsTable(k, SdkAt[v].validator, v)
        BY <1>1, <3>1, Kinds
      <4> QED
        BY <4>1 DEF IsTable, TableContract
    <3> QED
      BY <3>1
  <2>3. HookThere(k, id) /\ SdkAt[id].hook # Zero => SdkAt[id].hook \in DOMAIN k /\ k[SdkAt[id].hook].kind = "hook"
    <3>1. SdkAt[id].hook \in DOMAIN k => IsHook(k, SdkAt[id].hook, id)
      BY <1>1, <2>1, Kinds
    <3> QED
      BY <3>1 DEF IsHook, HookContract, HookThere
  <2>4. CASE IsTable(k, a, id)
    BY <1>1, <2>4 DEF IsTable, TableContract
  <2>5. CASE IsFactory(k, a, id)
    BY <1>1, <2>2, <2>3, <2>5 DEF IsFactory, FactoryContract
  <2>6. CASE IsHook(k, a, id)
    BY <1>1, <2>6 DEF IsHook, HookContract
  <2>7. CASE IsDerived(k, a, id)
    BY <1>1, <2>2, <2>3, <2>7 DEF IsDerived, RootedIn
  <2> QED
    BY <2>1, <2>4, <2>5, <2>6, <2>7 DEF IsContract
<1>2. IInv => TypeOK
  <2>1. SUFFICES ASSUME IInv, NEW c \in Chains, NEW a \in DOMAIN code[c]
                 PROVE  LET x == code[c][a] IN
                        /\ x.kind = "factory" => x.validator \in DOMAIN code[c] /\ code[c][x.validator].kind = "validator"
                        /\ x.kind = "account" => x.root \in DOMAIN code[c] /\ code[c][x.root].kind = "validator"
                        /\ x.kind \in {"factory", "account"} /\ x.hook # Zero => x.hook \in DOMAIN code[c] /\ code[c][x.hook].kind = "hook"
                        /\ x.kind = "validator" => x.key \in GoodKeys
                        /\ x.kind = "hook" => ValidateConfig(x.policy, x.config)
    BY DEF TypeOK
  <2>2. ContractInv(code[c])
    BY <2>1 DEF IInv, CodeInv
  <2> QED
    BY <1>1, <2>1, <2>2
<1> QED
  BY <1>2, Invariant, PTL

(* The accounts are at the addresses of accounts, and nothing else is.     *)
LEMMA AccountKind ==
  ASSUME NEW k, ContractInv(k), NEW a \in DOMAIN k
  PROVE  k[a].kind = "account" <=> a \in Addresses
<1>1. ASSUME k[a].kind = "account" PROVE a \in Addresses
  <2>1. PICK id \in Ids : IsContract(k, a, id)
    BY DEF ContractInv
  <2>2. IsDerived(k, a, id)
    BY <1>1, <2>1 DEF IsContract, IsTable, TableContract, IsFactory, FactoryContract, IsHook, HookContract
  <2> QED
    BY <2>2, IdOfAddress DEF IsDerived
<1>2. ASSUME a \in Addresses PROVE k[a].kind = "account"
  <2>1. PICK id \in Ids : a = SdkAt[id].account
    BY <1>2 DEF Addresses
  <2>2. IsDerived(k, a, id)
    BY <2>1, Kinds
  <2> QED
    BY <2>2 DEF IsDerived, RootedIn
<1> QED
  BY <1>1, <1>2

(* The addresses of an identity do not depend on the chain. *)
LEMMA SameOnEveryChain ==
  ASSUME NEW c \in Chains, NEW id \in Ids, NEW role \in Roles
  PROVE  Sdk[c][id][role] = Sdk[AnyChain][id][role]
<1>1. /\ Sdk[c][id].validator = Sdk[AnyChain][id].validator
      /\ Sdk[c][id].factory = Sdk[AnyChain][id].factory
      /\ Sdk[c][id].hook = Sdk[AnyChain][id].hook
      /\ Sdk[c][id].account = Sdk[AnyChain][id].account
  BY SdkShape, AChain
<1> QED
  BY <1>1 DEF Roles

(* The backend joins the same parts by hand. *)
LEMMA JoinTwo ==
  ASSUME NEW a, NEW b1, NEW b2
  PROVE  <<a>> \o <<b1, b2>>
           = <<a, b1, b2>>
<1> DEFINE s == <<a>> \o <<b1, b2>>
           t == <<a, b1, b2>>
           S == {a, b1, b2}
<1>1. <<a>> \in Seq(S) /\ <<b1, b2>> \in Seq(S) /\ t \in Seq(S)
  OBVIOUS
<1>2. s \in Seq(S) /\ Len(s) = Len(t) /\ Len(t) = 3
  BY <1>1
<1>3. \A i \in 1..3 : s[i] = t[i]
  BY <1>1, <1>2
<1> HIDE DEF s, t, S
<1>4. s = t
  BY <1>1, <1>2, <1>3, SeqEqual
<1> QED
  BY <1>4 DEF s, t

(* Two parts and one.                                                      *)
LEMMA JoinThree ==
  ASSUME NEW a1, NEW a2, NEW b
  PROVE  <<a1, a2>> \o <<b>>
           = <<a1, a2, b>>
<1> DEFINE s == <<a1, a2>> \o <<b>>
           t == <<a1, a2, b>>
           S == {a1, a2, b}
<1>1. <<a1, a2>> \in Seq(S) /\ <<b>> \in Seq(S) /\ t \in Seq(S)
  OBVIOUS
<1>2. s \in Seq(S) /\ Len(s) = Len(t) /\ Len(t) = 3
  BY <1>1
<1>3. \A i \in 1..3 : s[i] = t[i]
  BY <1>1, <1>2
<1> HIDE DEF s, t, S
<1>4. s = t
  BY <1>1, <1>2, <1>3, SeqEqual
<1> QED
  BY <1>4 DEF s, t

(* One part and three.                                                     *)
LEMMA JoinFour ==
  ASSUME NEW a, NEW b1, NEW b2, NEW b3
  PROVE  <<a>> \o <<b1, b2, b3>>
           = <<a, b1, b2, b3>>
<1> DEFINE s == <<a>> \o <<b1, b2, b3>>
           t == <<a, b1, b2, b3>>
           S == {a, b1, b2, b3}
<1>1. <<a>> \in Seq(S) /\ <<b1, b2, b3>> \in Seq(S) /\ t \in Seq(S)
  OBVIOUS
<1>2. s \in Seq(S) /\ Len(s) = Len(t) /\ Len(t) = 4
  BY <1>1
<1>3. \A i \in 1..4 : s[i] = t[i]
  BY <1>1, <1>2
<1> HIDE DEF s, t, S
<1>4. s = t
  BY <1>1, <1>2, <1>3, SeqEqual
<1> QED
  BY <1>4 DEF s, t

(* The constructor's arguments: five parts and three.                      *)
LEMMA JoinEight ==
  ASSUME NEW a1, NEW a2, NEW a3, NEW a4, NEW a5, NEW b1, NEW b2, NEW b3
  PROVE  <<a1, a2, a3, a4, a5>> \o <<b1, b2, b3>>
           = <<a1, a2, a3, a4, a5, b1, b2, b3>>
<1> DEFINE s == <<a1, a2, a3, a4, a5>> \o <<b1, b2, b3>>
           t == <<a1, a2, a3, a4, a5, b1, b2, b3>>
           S == {a1, a2, a3, a4, a5, b1, b2, b3}
<1>1. <<a1, a2, a3, a4, a5>> \in Seq(S) /\ <<b1, b2, b3>> \in Seq(S) /\ t \in Seq(S)
  OBVIOUS
<1>2. s \in Seq(S) /\ Len(s) = Len(t) /\ Len(t) = 8
  BY <1>1
<1>3. \A i \in 1..8 : s[i] = t[i]
  BY <1>1, <1>2
<1> HIDE DEF s, t, S
<1>4. s = t
  BY <1>1, <1>2, <1>3, SeqEqual
<1> QED
  BY <1>4 DEF s, t

(* The configuration's fourteen parts, joined in five pieces.              *)
LEMMA JoinFourteen ==
  ASSUME NEW a1, NEW a2, NEW a3, NEW b1, NEW b2, NEW b3, NEW b4, NEW c1, NEW
         c2, NEW d1, NEW d2, NEW d3, NEW e1, NEW e2
  PROVE  <<a1, a2, a3>> \o <<b1, b2, b3, b4>> \o <<c1, c2>> \o <<d1, d2, d3>> \o <<e1, e2>>
           = <<a1, a2, a3, b1, b2, b3, b4, c1, c2, d1, d2, d3, e1, e2>>
<1> DEFINE s == <<a1, a2, a3>> \o <<b1, b2, b3, b4>> \o <<c1, c2>> \o <<d1, d2, d3>> \o <<e1, e2>>
           t == <<a1, a2, a3, b1, b2, b3, b4, c1, c2, d1, d2, d3, e1, e2>>
           S == {a1, a2, a3, b1, b2, b3, b4, c1, c2, d1, d2, d3, e1, e2}
<1>1. /\ <<a1, a2, a3>> \in Seq(S) /\ <<b1, b2, b3, b4>> \in Seq(S) /\ <<c1, c2>> \in Seq(S)
      /\ <<d1, d2, d3>> \in Seq(S) /\ <<e1, e2>> \in Seq(S) /\ t \in Seq(S)
  OBVIOUS
<1>2. s \in Seq(S) /\ Len(s) = Len(t) /\ Len(t) = 14
  BY <1>1
<1>3. \A i \in 1..14 : s[i] = t[i]
  BY <1>1, <1>2
<1> HIDE DEF s, t, S
<1>4. s = t
  BY <1>1, <1>2, <1>3, SeqEqual
<1> QED
  BY <1>4 DEF s, t

(* The backend's identity is the SDK's, for both profiles.                 *)
LEMMA BackendAgrees ==
  ASSUME NEW o, NEW g, g.profile \in {"general", "restricted"}
  PROVE  BackendIdentity(o, g) = SdkIdentity(o, g)
<1>1. BackendConfigHash(g) = ProfileConfigHash(g)
  <2> DEFINE mode == IF g.profile = "restricted" THEN 1 ELSE 0
             parts == <<Domain("identity:v1:profile:portable"), mode, g.chainId,
                        g.entryPoint, g.kernelImplementation, g.tableFactory, g.profilePreparationFactory,
                        Keccak(g.validatorCreationCode), Keccak(g.profileFactoryCreationCode),
                        g.policy, g.policyCodeHash, Keccak(g.policyConfig), g.namespace, g.index>>
  <2>1. mode = IF g.profile = "general" THEN 0 ELSE 1
    OBVIOUS
  <2> HIDE DEF mode
  <2>2. <<Domain("identity:v1:profile:portable"), mode, g.chainId>>
          \o <<g.entryPoint, g.kernelImplementation, g.tableFactory, g.profilePreparationFactory>>
          \o <<Keccak(g.validatorCreationCode), Keccak(g.profileFactoryCreationCode)>>
          \o <<g.policy, g.policyCodeHash, Keccak(g.policyConfig)>> \o <<g.namespace, g.index>> = parts
    BY JoinFourteen
  <2> HIDE DEF parts
  <2>3. BackendConfigHash(g) = Keccak(parts)
    BY <2>1, <2>2 DEF BackendConfigHash
  <2>4. ProfileConfigHash(g) = Keccak(parts)
    BY DEF ProfileConfigHash, parts, mode
  <2> QED
    BY <2>3, <2>4
<1>2. BackendValidator(o, g) = SdkValidator(o, g)
  <2>1. <<g.entryPoint>> \o <<o.key, <<"x", o.key>>, o.headers>> = <<g.entryPoint, o.key, <<"x", o.key>>, o.headers>>
    BY JoinFour
  <2>2. <<Domain("prepared-table:v1"), o.key>> \o <<Keccak(o.headers)>>
          = <<Domain("prepared-table:v1"), o.key, Keccak(o.headers)>>
    BY JoinThree
  <2> QED
    BY <2>1, <2>2 DEF BackendValidator, SdkValidator
<1>3. /\ <<g.kernelImplementation, g.tableFactory, o.key, <<"x", o.key>>, o.headers>>
            \o <<g.policy, g.policyConfig, g.policyCodeHash>>
          = <<g.kernelImplementation, g.tableFactory, o.key, <<"x", o.key>>, o.headers,
              g.policy, g.policyConfig, g.policyCodeHash>>
      /\ <<Domain("profile-account:v1")>> \o <<g.namespace, g.index>> = <<Domain("profile-account:v1"), g.namespace, g.index>>
  BY JoinTwo, JoinEight
<1> QED
  BY <1>1, <1>2, <1>3 DEF BackendIdentity, SdkIdentity

(* Both derive the same identity, and the addresses are those of any chain.*)
LEMMA Identities == IdentitiesAgree
<1>1. ASSUME NEW c \in Chains, NEW id \in Ids, PolicyMatches(Config(c, id))
      PROVE  Sdk[c][id] = Backend[c][id]
  <2>1. Config(c, id).profile \in {"general", "restricted"}
    BY <1>1 DEF PolicyMatches
  <2>2. BackendIdentity(Accounts[id].owner, Config(c, id)) = SdkIdentity(Accounts[id].owner, Config(c, id))
    BY <2>1, BackendAgrees
  <2> QED
    BY <2>2 DEF Sdk, Backend
<1> QED
  BY <1>1, SameOnEveryChain DEF IdentitiesAgree

-----------------------------------------------------------------------------
(* What the SDK's encoders make of targets and rules.  Sorting needs an    *)
(* induction over the number of elements; sets of naturals carry it.       *)
LEMMA Least ==
  ASSUME NEW T, T \subseteq Nat, T # {}
  PROVE  \E n \in T : \A m \in T : n <= m
<1>1. \E n \in T : \A m \in T : ~(<<m, n>> \in OpToRel(<, Nat))
  BY NatLessThanWellFounded, WFMin
<1>2. ASSUME NEW n \in T, NEW m \in T, ~(<<m, n>> \in OpToRel(<, Nat))
      PROVE  n <= m
  BY <1>2 DEF OpToRel
<1> QED BY <1>1, <1>2

LEMMA Induction ==
  ASSUME NEW S, 0 \in S, \A n \in Nat : n \in S => n + 1 \in S
  PROVE  \A n \in Nat : n \in S
<1> DEFINE T == {n \in Nat : n \notin S}
<1>1. SUFFICES ASSUME T # {} PROVE FALSE
  OBVIOUS
<1>2. PICK n \in T : \A m \in T : n <= m
  <2>1. T \subseteq Nat
    OBVIOUS
  <2> HIDE DEF T
  <2> QED BY <1>1, <2>1, Least
<1>3. n \in Nat /\ n # 0 /\ n - 1 \in Nat /\ n - 1 \notin T
  BY <1>2
<1>4. n - 1 \in S /\ (n - 1) + 1 = n
  BY <1>3
<1> QED BY <1>2, <1>3, <1>4

(* The keys of p's order ascend.                                           *)
Orders(p, key, n) ==
  /\ p \in Bijection(1..n, 1..n)
  /\ \A i, j \in 1..n : i < j => key[p[i]] <= key[p[j]]

LEMMA OrderExists ==
  ASSUME NEW n \in Nat, NEW key \in [1..n -> Int]
  PROVE  \E p : Orders(p, key, n)
<1> DEFINE S == {k \in Nat : \A f \in [1..k -> Int] : \E p : Orders(p, f, k)}
<1>1. 0 \in S
  <2> SUFFICES ASSUME NEW f \in [1..0 -> Int] PROVE \E p : Orders(p, f, 0)
    OBVIOUS
  <2> f \in Bijection(1..0, 1..0)
    BY DEF Bijection, Injection, Surjection, IsInjective
  <2> QED BY DEF Orders
<1>2. ASSUME NEW k \in Nat, k \in S
      PROVE  k + 1 \in S
  <2> SUFFICES ASSUME NEW f \in [1..(k + 1) -> Int] PROVE \E q : Orders(q, f, k + 1)
    OBVIOUS
  <2> DEFINE g == [i \in 1..k |-> f[i]]
  <2>1. PICK r : Orders(r, g, k)
    <3> g \in [1..k -> Int]
      OBVIOUS
    <3> QED BY <1>2
  (* the place of the greatest key, which goes last                        *)
  <2> DEFINE m == IF k = 0 \/ f[k + 1] >= f[r[k]] THEN k + 1 ELSE r[k]
             h == [i \in 1..k |-> IF i = m THEN f[k + 1] ELSE f[i]]
  <2>2. m \in 1..(k + 1) /\ \A i \in 1..(k + 1) : f[i] <= f[m]
    <3>1. r \in [1..k -> 1..k] /\ \A i \in 1..k : \E j \in 1..k : r[j] = i
      BY <2>1 DEF Orders, Bijection, Injection, Surjection
    <3>2. \A i \in 1..k : k # 0 => f[i] <= f[r[k]]
      <4> SUFFICES ASSUME NEW i \in 1..k PROVE f[i] <= f[r[k]]
        OBVIOUS
      <4>1. PICK j \in 1..k : r[j] = i
        BY <3>1
      <4>2. r[k] \in 1..k /\ k \in 1..k
        BY <3>1
      <4>3. j < k => g[r[j]] <= g[r[k]]
        BY <2>1, <4>2 DEF Orders
      <4> QED BY <4>1, <4>2, <4>3
    <3>3. CASE k = 0
      <4>1. 1..(k + 1) = {1} /\ m = 1 /\ f[1] \in Int
        BY <3>3
      <4> HIDE DEF m
      <4>2. f[1] <= f[1]
        BY <4>1
      <4> QED BY <4>1, <4>2
    <3>4. CASE k # 0 /\ f[k + 1] >= f[r[k]]
      <4>1. k \in 1..k
        BY <3>4
      <4>2. f[r[k]] \in Int /\ f[k + 1] \in Int
        <5>1. r[k] \in 1..k
          BY <3>1, <4>1
        <5> QED BY <5>1
      <4>3. m = k + 1
        BY <3>4
      <4> HIDE DEF m
      <4>4. ASSUME NEW i \in 1..(k + 1) PROVE f[i] <= f[m]
        <5>1. CASE i = k + 1
          BY <4>2, <4>3, <5>1
        <5>2. CASE i # k + 1
          <6>1. i \in 1..k /\ f[i] \in Int
            BY <5>2
          <6>2. f[i] <= f[r[k]]
            BY <3>2, <3>4, <6>1
          <6> QED BY <3>4, <4>2, <4>3, <6>1, <6>2
        <5> QED BY <5>1, <5>2
      <4> QED BY <4>3, <4>4
    <3>5. CASE k # 0 /\ ~(f[k + 1] >= f[r[k]])
      <4>1. k \in 1..k
        BY <3>5
      <4>2. r[k] \in 1..k
        BY <3>1, <4>1
      <4>3. f[r[k]] \in Int /\ f[k + 1] \in Int
        BY <4>2
      <4>4. m = r[k] /\ m \in 1..(k + 1)
        BY <3>5, <4>2
      <4> HIDE DEF m
      <4>5. ASSUME NEW i \in 1..(k + 1) PROVE f[i] <= f[m]
        <5>1. CASE i = k + 1
          BY <3>5, <4>3, <4>4, <5>1
        <5>2. CASE i # k + 1
          <6>1. i \in 1..k
            BY <5>2
          <6> QED BY <3>2, <3>5, <4>4, <6>1
        <5> QED BY <5>1, <5>2
      <4> QED BY <4>4, <4>5
    <3> HIDE DEF m
    <3> QED BY <3>3, <3>4, <3>5
  <2> HIDE DEF m
  <2>3. PICK p : Orders(p, h, k)
    <3> h \in [1..k -> Int]
      BY <2>2
    <3> QED BY <1>2
  <2> DEFINE q == [i \in 1..(k + 1) |-> IF i = k + 1 THEN m ELSE IF p[i] = m THEN k + 1 ELSE p[i]]
  <2>4. p \in [1..k -> 1..k] /\ (\A i \in 1..k : \E j \in 1..k : p[j] = i) /\ \A i, j \in 1..k : p[i] = p[j] => i = j
    BY <2>3 DEF Orders, Bijection, Injection, Surjection, IsInjective
  <2>5. q \in [1..(k + 1) -> 1..(k + 1)]
    <3>1. ASSUME NEW i \in 1..(k + 1)
          PROVE  (IF i = k + 1 THEN m ELSE IF p[i] = m THEN k + 1 ELSE p[i]) \in 1..(k + 1)
      <4>1. CASE i = k + 1
        BY <2>2, <4>1
      <4>2. CASE i # k + 1
        <5>1. i \in 1..k
          BY <4>2
        <5>2. p[i] \in 1..k
          BY <2>4, <5>1
        <5> QED BY <4>2, <5>2
      <4> QED BY <4>1, <4>2
    <3> QED BY <3>1
  <2>6. \A i, j \in 1..(k + 1) : q[i] = q[j] => i = j
    <3> SUFFICES ASSUME NEW i \in 1..(k + 1), NEW j \in 1..(k + 1), q[i] = q[j] PROVE i = j
      OBVIOUS
    <3> DEFINE other(x) == IF p[x] = m THEN k + 1 ELSE p[x]
    <3>1. ASSUME NEW x \in 1..k PROVE other(x) # m /\ p[x] \in 1..k /\ p[x] # k + 1 /\ q[x] = other(x)
      <4>1. p[x] \in 1..k
        BY <2>4
      <4>2. p[x] # k + 1 /\ x # k + 1 /\ x \in 1..(k + 1)
        BY <4>1
      <4> QED BY <4>1, <4>2
    <3>2. q[k + 1] = m
      OBVIOUS
    <3>3. (i = k + 1 \/ i \in 1..k) /\ (j = k + 1 \/ j \in 1..k)
      OBVIOUS
    <3> HIDE DEF q
    <3>4. CASE i = k + 1 \/ j = k + 1
      <4> HIDE DEF other
      <4> QED BY <3>1, <3>2, <3>3, <3>4
    <3>5. CASE i \in 1..k /\ j \in 1..k
      <4>1. p[i] = p[j]
        BY <3>1, <3>5
      <4> QED BY <2>4, <3>5, <4>1
    <3> QED BY <3>3, <3>4, <3>5
  <2>7. \A i \in 1..(k + 1) : \E j \in 1..(k + 1) : q[j] = i
    <3> SUFFICES ASSUME NEW i \in 1..(k + 1) PROVE \E j \in 1..(k + 1) : q[j] = i
      OBVIOUS
    <3>1. CASE i = m
      BY <3>1
    <3>2. CASE i # m /\ i # k + 1
      <4>1. PICK j \in 1..k : p[j] = i
        BY <2>4, <3>2
      <4> QED BY <3>2, <4>1
    <3>3. CASE i # m /\ i = k + 1
      <4>1. PICK j \in 1..k : p[j] = m
        BY <2>2, <2>4, <3>3
      <4> QED BY <3>3, <4>1
    <3> QED BY <3>1, <3>2, <3>3
  <2>8. ASSUME NEW i \in 1..(k + 1), NEW j \in 1..(k + 1), i < j
        PROVE  f[q[i]] <= f[q[j]]
    <3>1. CASE j = k + 1
      BY <2>2, <2>5, <3>1
    <3>2. CASE j # k + 1
      <4>1. i \in 1..k /\ j \in 1..k
        BY <2>8, <3>2
      <4>2. h[p[i]] <= h[p[j]]
        BY <2>3, <2>8, <4>1 DEF Orders
      <4>3. p[i] \in 1..k /\ p[j] \in 1..k
        BY <2>4, <4>1
      <4>4. f[q[i]] = h[p[i]] /\ f[q[j]] = h[p[j]]
        BY <4>1, <4>3
      <4> QED BY <4>2, <4>4
    <3> QED BY <3>1, <3>2
  <2> HIDE DEF q
  <2> QED BY <2>5, <2>6, <2>7, <2>8 DEF Orders, Bijection, Injection, Surjection, IsInjective
<1> HIDE DEF S
<1>3. n \in S
  BY <1>1, <1>2, Induction
<1> QED BY <1>3 DEF S

(* Sorting permutes, and puts the keys in order.                           *)
Sorts(p, s, key, n) ==
  /\ p \in [1..n -> 1..n]
  /\ \A i \in 1..n : \E j \in 1..n : p[j] = i
  /\ \A i, j \in 1..n : p[i] = p[j] => i = j
  /\ \A i, j \in 1..n : i < j => key[p[i]] <= key[p[j]]
  /\ SortBy(s, key) = [i \in 1..n |-> s[p[i]]]

LEMMA Sorted ==
  ASSUME NEW s, NEW n \in Nat, DOMAIN s = 1..n, NEW key \in [1..n -> Int]
  PROVE  \E p : Sorts(p, s, key, n)
<1> DEFINE Q(p) == p \in Bijection(1..n, 1..n) /\ \A i, j \in 1..n : i < j => key[p[i]] <= key[p[j]]
           order == CHOOSE p : Q(p)
<1>1. Q(order)
  <2>1. \E p : Q(p)
    BY OrderExists DEF Orders
  <2> HIDE DEF Q
  <2> QED BY <2>1
<1>2. order = CHOOSE p \in Bijection(1..n, 1..n) : \A i, j \in 1..n : i < j => key[p[i]] <= key[p[j]]
  OBVIOUS
<1>3. SortBy(s, key) = [i \in 1..n |-> s[order[i]]]
  BY <1>2 DEF SortBy
<1> HIDE DEF order
<1> QED BY <1>1, <1>3 DEF Sorts, Bijection, Injection, Surjection, IsInjective

(* Sorting a sequence of distinct integers.                                *)
LEMMA SortedIntegers ==
  ASSUME NEW s \in Seq(Int), IsInjective(s)
  PROVE  /\ SortBy(s, s) \in Seq(Int) /\ Len(SortBy(s, s)) = Len(s)
         /\ Ascending(SortBy(s, s))
         /\ \A x : (\E i \in DOMAIN SortBy(s, s) : SortBy(s, s)[i] = x) <=> \E i \in DOMAIN s : s[i] = x
<1>0. PICK n, t : n = Len(s) /\ t = SortBy(s, s)
  OBVIOUS
<1>1. n \in Nat /\ DOMAIN s = 1..n /\ s \in [1..n -> Int]
  BY <1>0
<1>2. PICK p : Sorts(p, s, s, n)
  BY <1>1, Sorted
<1>3. /\ p \in [1..n -> 1..n]
      /\ \A i \in 1..n : \E j \in 1..n : p[j] = i
      /\ \A i, j \in 1..n : p[i] = p[j] => i = j
      /\ \A i, j \in 1..n : i < j => s[p[i]] <= s[p[j]]
      /\ t = [i \in 1..n |-> s[p[i]]]
  BY <1>0, <1>2 DEF Sorts
<1>4. t \in Seq(Int) /\ Len(t) = n
  <2>1. t \in [1..n -> Int]
    BY <1>1, <1>3
  <2> QED BY <1>1, <2>1
<1>5. Ascending(t)
  <2>1. SUFFICES ASSUME NEW i \in 2..n PROVE t[i - 1] < t[i]
    BY <1>4 DEF Ascending
  <2>2. i - 1 \in 1..n /\ i \in 1..n /\ i - 1 < i /\ i - 1 # i
    BY <1>1, <2>1
  <2>3. s[p[i - 1]] <= s[p[i]] /\ p[i - 1] # p[i] /\ p[i - 1] \in 1..n /\ p[i] \in 1..n
    BY <1>3, <2>2
  <2>4. s[p[i - 1]] # s[p[i]] /\ s[p[i - 1]] \in Int /\ s[p[i]] \in Int
    BY <1>1, <2>3 DEF IsInjective
  <2>5. t[i - 1] = s[p[i - 1]] /\ t[i] = s[p[i]]
    BY <1>3, <2>2
  <2> QED BY <2>3, <2>4, <2>5
<1>6. ASSUME NEW i \in 1..n
      PROVE  (\E j \in 1..n : t[i] = s[j]) /\ \E j \in 1..n : s[i] = t[j]
  <2>1. t[i] = s[p[i]] /\ p[i] \in 1..n
    BY <1>3
  <2>2. PICK j \in 1..n : p[j] = i
    BY <1>3
  <2>3. t[j] = s[i]
    BY <1>3, <2>2
  <2> QED BY <2>1, <2>3
<1>7. \A x : (\E i \in DOMAIN t : t[i] = x) <=> \E i \in DOMAIN s : s[i] = x
  <2>1. DOMAIN t = 1..n /\ DOMAIN s = 1..n
    BY <1>1, <1>3
  <2>2. ASSUME NEW x, NEW i \in 1..n, t[i] = x PROVE \E j \in 1..n : s[j] = x
    BY <1>6, <2>2
  <2>3. ASSUME NEW x, NEW i \in 1..n, s[i] = x PROVE \E j \in 1..n : t[j] = x
    BY <1>6, <2>3
  <2> QED BY <2>1, <2>2, <2>3
<1> QED BY <1>0, <1>4, <1>5, <1>7

(* A target allowlist that the SDK encodes is one the policy accepts, and  *)
(* it allows the targets that it was given.                                *)
LEMMA TargetsEncoded ==
  ASSUME NEW targets \in Seq(Int), TargetsEncodable(targets)
  PROVE  /\ TargetsValid(EncodeTargetAllowlist(targets))
         /\ \A call : TargetAllowed(call, EncodeTargetAllowlist(targets)) <=> \E i \in DOMAIN targets : targets[i] = call.target
<1> DEFINE t == EncodeTargetAllowlist(targets)
<1>1. /\ t \in Seq(Int) /\ Len(t) = Len(targets) /\ Ascending(t)
      /\ \A x : (\E i \in DOMAIN t : t[i] = x) <=> \E i \in DOMAIN targets : targets[i] = x
  BY SortedIntegers DEF EncodeTargetAllowlist, TargetsEncodable
<1>2. \A i \in DOMAIN targets : targets[i] # ZeroTarget
  BY DEF TargetsEncodable, ToSet
<1> HIDE DEF t
<1>3. TargetsValid(t)
  BY <1>1, <1>2 DEF TargetsEncodable, TargetsValid
<1>4. \A call : TargetAllowed(call, t) <=> \E i \in DOMAIN targets : targets[i] = call.target
  BY <1>1 DEF TargetAllowed
<1> QED BY <1>3, <1>4 DEF t

(* A rule with its selectors sorted is as good as the rule.                *)
SortedRule(rule) == [rule EXCEPT !.selectors = SortBy(@, @)]

LEMMA RuleSorted ==
  ASSUME NEW rule \in Rules, IsInjective(rule.selectors)
  PROVE  /\ SortedRule(rule).target = rule.target
         /\ SortedRule(rule).allowEmpty = rule.allowEmpty
         /\ Len(SortedRule(rule).selectors) = Len(rule.selectors)
         /\ Ascending(SortedRule(rule).selectors)
         /\ rule.selectors # <<>> => SortedRule(rule).selectors # <<>>
         /\ \A call : RuleAllows(SortedRule(rule), call) <=> RuleAllows(rule, call)
<1> DEFINE r == SortedRule(rule)
           given == rule.selectors
           made == SortBy(given, given)
<1>1. given \in Seq(Int)
  BY DEF Rules
<1>2. /\ made \in Seq(Int) /\ Len(made) = Len(given) /\ Ascending(made)
      /\ \A x : (\E i \in DOMAIN made : made[i] = x) <=> \E i \in DOMAIN given : given[i] = x
  BY <1>1, SortedIntegers
<1>3. r.target = rule.target /\ r.allowEmpty = rule.allowEmpty /\ r.allowValue = rule.allowValue /\ r.selectors = made
  BY DEF SortedRule, Rules
<1> HIDE DEF r, made
<1>4. given # <<>> => made # <<>>
  <2>1. given # <<>> => Len(given) # 0
    BY <1>1
  <2>2. made = <<>> => Len(made) = 0
    OBVIOUS
  <2> QED BY <1>2, <2>1, <2>2
<1>5. \A call : RuleAllows(r, call) <=> RuleAllows(rule, call)
  BY <1>2, <1>3 DEF RuleAllows
<1> QED BY <1>2, <1>3, <1>4, <1>5 DEF r

(* With distinct targets, the first rule of a target is its only one.      *)
LEMMA OneRule ==
  ASSUME NEW rules, NEW n \in Nat, DOMAIN rules = 1..n, NEW call,
         \A i, j \in 1..n : i # j => rules[i].target # rules[j].target
  PROVE  SelectorAllowed(call, rules) <=> \E i \in 1..n : rules[i].target = call.target /\ RuleAllows(rules[i], call)
<1>1. ASSUME NEW i \in 1..n, rules[i].target = call.target, NEW j \in 1..(i - 1)
      PROVE  rules[j].target # call.target
  <2>1. j \in 1..n /\ j # i
    OBVIOUS
  <2> QED BY <1>1, <2>1
<1> QED BY <1>1 DEF SelectorAllowed

(* Selector rules that the SDK encodes are rules the policy accepts, and a *)
(* call is allowed by them exactly if one of the given rules allows it.    *)
LEMMA RulesEncoded ==
  ASSUME NEW rules \in Seq(Rules), RulesEncodable(rules)
  PROVE  /\ RulesValid(EncodeSelectorAllowlist(rules))
         /\ \A call : SelectorAllowed(call, EncodeSelectorAllowlist(rules)) <=>
                        \E i \in DOMAIN rules : rules[i].target = call.target /\ RuleAllows(rules[i], call)
<1>0. PICK n, key, each, t :
        /\ n = Len(rules)
        /\ key = [i \in DOMAIN rules |-> rules[i].target]
        /\ each = [i \in DOMAIN rules |-> SortedRule(rules[i])]
        /\ t = SortBy(each, key)
  OBVIOUS
<1>1. n \in Nat /\ n \in 1..MaxEntries /\ DOMAIN rules = 1..n /\ \A i \in 1..n : rules[i] \in Rules
  BY <1>0 DEF RulesEncodable
<1>2. /\ \A i \in 1..n : rules[i].target # ZeroTarget /\ IsInjective(rules[i].selectors)
                          /\ Len(rules[i].selectors) <= MaxEntries
                          /\ (rules[i].selectors # <<>> \/ rules[i].allowEmpty)
      /\ \A i, j \in 1..n : i # j => rules[i].target # rules[j].target
  BY <1>1 DEF RulesEncodable
<1>3. key \in [1..n -> Int] /\ \A i \in 1..n : key[i] = rules[i].target
  BY <1>0, <1>1 DEF Rules
<1>4. DOMAIN each = 1..n /\ \A i \in 1..n : each[i] = SortedRule(rules[i])
  BY <1>0, <1>1
<1>5. EncodeSelectorAllowlist(rules) = t
  BY <1>0 DEF EncodeSelectorAllowlist, SortedRule
<1>6. PICK p : Sorts(p, each, key, n)
  BY <1>1, <1>3, <1>4, Sorted
<1>7. /\ p \in [1..n -> 1..n]
      /\ \A i \in 1..n : \E j \in 1..n : p[j] = i
      /\ \A i, j \in 1..n : p[i] = p[j] => i = j
      /\ \A i, j \in 1..n : i < j => key[p[i]] <= key[p[j]]
      /\ t = [i \in 1..n |-> each[p[i]]]
  BY <1>0, <1>6 DEF Sorts
<1>8. Len(t) = n
  <2> DEFINE E == {t[i] : i \in 1..n}
  <2>1. t = [i \in 1..n |-> t[i]]
    BY <1>7
  <2>2. t \in [1..n -> E]
    BY <2>1
  <2>3. t \in Seq(E)
    BY <1>1, <2>2, IsASeq
  <2> HIDE DEF E
  <2> QED BY <1>1, <1>7, <2>3
<1>9. ASSUME NEW i \in 1..n
      PROVE  /\ p[i] \in 1..n /\ t[i].target = rules[p[i]].target
             /\ t[i].target # ZeroTarget /\ Len(t[i].selectors) <= MaxEntries
             /\ (t[i].selectors # <<>> \/ t[i].allowEmpty) /\ Ascending(t[i].selectors)
             /\ \A call : RuleAllows(t[i], call) <=> RuleAllows(rules[p[i]], call)
  <2>1. p[i] \in 1..n /\ t[i] = SortedRule(rules[p[i]])
    BY <1>4, <1>7
  <2>2. rules[p[i]] \in Rules /\ IsInjective(rules[p[i]].selectors)
    BY <1>1, <1>2, <2>1
  <2>3. PICK rule : rule = rules[p[i]]
    OBVIOUS
  <2>4. /\ t[i].target = rule.target /\ t[i].allowEmpty = rule.allowEmpty
        /\ Len(t[i].selectors) = Len(rule.selectors) /\ Ascending(t[i].selectors)
        /\ rule.selectors # <<>> => t[i].selectors # <<>>
        /\ \A call : RuleAllows(t[i], call) <=> RuleAllows(rule, call)
    BY <2>1, <2>2, <2>3, RuleSorted
  <2>5. rule.target # ZeroTarget /\ Len(rule.selectors) <= MaxEntries /\ (rule.selectors # <<>> \/ rule.allowEmpty)
    BY <1>2, <2>1, <2>3
  <2> QED BY <2>1, <2>3, <2>4, <2>5
<1>10. ASSUME NEW i \in 2..n PROVE t[i - 1].target < t[i].target
  <2>1. i - 1 \in 1..n /\ i \in 1..n /\ i - 1 < i /\ i - 1 # i
    BY <1>1
  <2>2. key[p[i - 1]] <= key[p[i]] /\ p[i - 1] # p[i] /\ p[i - 1] \in 1..n /\ p[i] \in 1..n
    BY <1>7, <2>1
  <2>3. key[p[i - 1]] # key[p[i]] /\ key[p[i - 1]] \in Int /\ key[p[i]] \in Int
    BY <1>2, <1>3, <2>2
  <2>4. t[i - 1].target = key[p[i - 1]] /\ t[i].target = key[p[i]]
    BY <1>3, <1>9, <2>1
  <2> QED BY <2>2, <2>3, <2>4
<1>11. RulesValid(t)
  BY <1>1, <1>7, <1>8, <1>9, <1>10 DEF RulesValid
<1>12. ASSUME NEW call
       PROVE  SelectorAllowed(call, t) <=> \E i \in 1..n : rules[i].target = call.target /\ RuleAllows(rules[i], call)
  <2>1. \A i, j \in 1..n : i # j => t[i].target # t[j].target
    <3>1. SUFFICES ASSUME NEW i \in 1..n, NEW j \in 1..n, i # j PROVE t[i].target # t[j].target
      OBVIOUS
    <3>2. p[i] # p[j] /\ p[i] \in 1..n /\ p[j] \in 1..n
      BY <1>7, <3>1
    <3>3. t[i].target = rules[p[i]].target /\ t[j].target = rules[p[j]].target
      BY <1>9
    <3> QED BY <1>2, <3>2, <3>3
  <2>2. SelectorAllowed(call, t) <=> \E i \in 1..n : t[i].target = call.target /\ RuleAllows(t[i], call)
    <3>1. DOMAIN t = 1..n
      BY <1>7
    <3> QED BY <1>1, <2>1, <3>1, OneRule
  <2>3. ASSUME NEW i \in 1..n, rules[i].target = call.target, RuleAllows(rules[i], call)
        PROVE  \E j \in 1..n : t[j].target = call.target /\ RuleAllows(t[j], call)
    <3>1. PICK j \in 1..n : p[j] = i
      BY <1>7
    <3> QED BY <1>9, <2>3, <3>1
  <2>4. ASSUME NEW i \in 1..n, t[i].target = call.target, RuleAllows(t[i], call)
        PROVE  \E j \in 1..n : rules[j].target = call.target /\ RuleAllows(rules[j], call)
    BY <1>9, <2>4
  <2> QED BY <2>2, <2>3, <2>4
<1> QED BY <1>1, <1>5, <1>11, <1>12

(* An account whose configuration the SDK encoded is constructible: its    *)
(* policy accepts the configuration.                                       *)
LEMMA EncodedIsValid ==
  ASSUME NEW id \in DOMAIN SdkMade
  PROVE  /\ Accounts[id].profile.policy # Zero
         /\ ValidateConfig(Accounts[id].profile.policy, Accounts[id].profile.policyConfig)
<1>1. CASE Accounts[id].profile.policy = TargetPolicy
  BY <1>1, EncoderAssumption, TargetsEncoded DEF ValidateConfig, TargetPolicy, Zero
<1>2. CASE Accounts[id].profile.policy = SelectorPolicy
  <2>1. SelectorPolicy # TargetPolicy /\ SelectorPolicy # Zero
    BY DEF SelectorPolicy, TargetPolicy, Zero
  <2> QED
    BY <1>2, <2>1, EncoderAssumption, RulesEncoded DEF ValidateConfig
<1> QED
  BY <1>1, <1>2, EncoderAssumption

(* A restricted account's policy allows a call exactly if one of the       *)
(* targets or rules that the SDK was given for it does: sorting them       *)
(* (encodeTargetAllowlist, encodeSelectorAllowlist) changes no verdict of  *)
(* checkCall, for which the first rule of the call's target decides.       *)
THEOREM EncodingKeepsVerdicts ==
  ASSUME NEW id \in DOMAIN SdkMade, NEW call
  PROVE  CheckCall(Accounts[id].profile.policy, call, Accounts[id].profile.policyConfig) <=>
           \E i \in DOMAIN SdkMade[id] :
             IF Accounts[id].profile.policy = TargetPolicy THEN SdkMade[id][i] = call.target
             ELSE SdkMade[id][i].target = call.target /\ RuleAllows(SdkMade[id][i], call)
<1>1. CASE Accounts[id].profile.policy = TargetPolicy
  BY <1>1, EncoderAssumption, TargetsEncoded DEF CheckCall
<1>2. CASE Accounts[id].profile.policy = SelectorPolicy
  <2>1. SelectorPolicy # TargetPolicy
    BY DEF SelectorPolicy, TargetPolicy
  <2> QED
    BY <1>2, <2>1, EncoderAssumption, RulesEncoded DEF CheckCall
<1> QED
  BY <1>1, <1>2, EncoderAssumption

(* Whoever prepares and creates accounts, in whatever order, what is at an *)
(* address the SDK and the backend derive is what they derived it for, on  *)
(* every chain; and the chain refuses nothing the SDK made, as long as the *)
(* policy has its reviewed code.                                           *)
THEOREM Derived == Spec => []DerivedEverywhere
<1>1. IInv => DeployedAsDerived
  <2>1. SUFFICES ASSUME IInv, NEW c \in Chains PROVE
          /\ \A id \in Offered[c] :
               LET at == SdkAt[id]
                   o == Accounts[id].owner
               IN /\ IsAccount(c, at.account) => code[c][at.account].hook = at.hook
                  /\ at.factory \in DOMAIN code[c] =>
                       code[c][at.factory] = [kind |-> "factory", implementation |-> <<"Kernel">>, validator |-> at.validator, hook |-> at.hook]
                  /\ at.validator \in DOMAIN code[c] =>
                       code[c][at.validator] = [kind |-> "validator", key |-> o.key, headers |-> o.headers]
          /\ \A a \in DOMAIN code[c] : code[c][a].kind = "account" => a \in Addresses
    BY DEF DeployedAsDerived
  <2>2. PICK k : k = code[c]
    OBVIOUS
  <2>3. ContractInv(k)
    BY <2>1, <2>2 DEF IInv, CodeInv
  <2>4. \A a \in DOMAIN k : k[a].kind = "account" => a \in Addresses
    BY <2>3, AccountKind
  <2>5. ASSUME NEW id \in Offered[c]
        PROVE  /\ IsAccount(c, SdkAt[id].account) => k[SdkAt[id].account].hook = SdkAt[id].hook
               /\ SdkAt[id].factory \in DOMAIN k => k[SdkAt[id].factory] = FactoryContract(id)
               /\ SdkAt[id].validator \in DOMAIN k => k[SdkAt[id].validator] = TableContract(id)
    <3>1. id \in Ids
      BY ChainsAssumption
    <3>2. SdkAt[id].account \in DOMAIN k => IsDerived(k, SdkAt[id].account, id)
      BY <2>3, <3>1, Kinds
    <3>3. SdkAt[id].factory \in DOMAIN k => IsFactory(k, SdkAt[id].factory, id)
      BY <2>3, <3>1, Kinds
    <3>4. SdkAt[id].validator \in DOMAIN k => IsTable(k, SdkAt[id].validator, id)
      BY <2>3, <3>1, Kinds
    <3>5. SdkAt[id].account \in DOMAIN k => k[SdkAt[id].account].hook = SdkAt[id].hook
      <4>1. SUFFICES ASSUME SdkAt[id].account \in DOMAIN k PROVE k[SdkAt[id].account].hook = SdkAt[id].hook
        OBVIOUS
      <4>2. PICK v \in Ids : RootedIn(k, SdkAt[id].account, id, v)
        BY <3>2, <4>1 DEF IsDerived
      <4> QED
        BY <4>2 DEF RootedIn
    <3>6. IsAccount(c, SdkAt[id].account) => SdkAt[id].account \in DOMAIN k
      BY <2>2 DEF IsAccount
    <3> QED
      BY <3>3, <3>4, <3>5, <3>6 DEF IsFactory, IsTable
  <2> QED
    BY <2>2, <2>4, <2>5 DEF FactoryContract, TableContract
<1>2. IdentitiesAgree
  BY Identities
<1>3. EncodedIsConstructible
  <2>1. SUFFICES ASSUME NEW c \in Chains, NEW id \in Offered[c],
                        Accounts[id].profile.profile = "general" \/ id \in DOMAIN SdkMade
                 PROVE  \/ Constructible(c, id)
                        \/ /\ Accounts[id].profile.policy # Zero
                           /\ policyCode[c][Accounts[id].profile.policy] # Accounts[id].profile.policyCodeHash
    BY DEF EncodedIsConstructible
  <2>2. CASE Accounts[id].profile.profile = "general"
    <3>1. id \in Ids
      BY ChainsAssumption
    <3> QED
      BY <2>2, <3>1, AccountsAssumption DEF PolicyMatches, Constructible
  <2>3. CASE id \in DOMAIN SdkMade
    BY <2>3, EncodedIsValid DEF Constructible
  <2> QED
    BY <2>1, <2>2, <2>3
<1> QED
  BY <1>1, <1>2, <1>3, Invariant, PTL DEF DerivedEverywhere

(* A restricted account only ever runs whole batches of calls that the     *)
(* policy it was derived with allows, while the policy's code is the       *)
(* reviewed one (RestrictedExecutionHook.preCheck), and keeps its root     *)
(* validator and its hook.                                                 *)
THEOREM NeverEscapes == Spec => []RestrictedNeverEscapes
<1>1. IInv => RestrictedNeverEscapes
  <2>1. SUFFICES ASSUME IInv, NEW c \in Chains
                 PROVE  /\ \A i \in DOMAIN performed[c] : WithinPolicy(performed[c][i])
                        /\ \A id \in Ids :
                             Accounts[id].profile.profile = "restricted" /\ IsAccount(c, SdkAt[id].account) =>
                                code[c][SdkAt[id].account] = [kind |-> "account", root |-> TableAt[id], hook |-> HookAt[id]]
    BY DEF RestrictedNeverEscapes
  <2>2. \A i \in DOMAIN performed[c] : WithinPolicy(performed[c][i])
    BY <2>1 DEF IInv, PerformedInv, Done
  <2>3. ASSUME NEW id \in Ids, Accounts[id].profile.profile = "restricted", IsAccount(c, SdkAt[id].account)
        PROVE  code[c][SdkAt[id].account] = [kind |-> "account", root |-> TableAt[id], hook |-> HookAt[id]]
    <3>1. ContractInv(code[c]) /\ SdkAt[id].account \in DOMAIN code[c]
      BY <2>1, <2>3 DEF IInv, CodeInv, IsAccount
    <3>2. IsDerived(code[c], SdkAt[id].account, id)
      BY <3>1, Kinds
    <3> QED
      BY <2>3, <3>2, Onchain DEF IsDerived, RootedIn
  <2> QED
    BY <2>2, <2>3
<1> QED
  BY <1>1, Invariant, PTL

-----------------------------------------------------------------------------
(* The refinement: whom an account obeys, from the contracts of its chain. *)
OwnerIn(k, a) ==
  IF a \in DOMAIN k /\ k[a].kind = "account"
  THEN [key |-> k[k[a].root].key, headers |-> k[k[a].root].headers] ELSE NoOwner

(* The owner of an account is the owner of its root's table.               *)
LEMMA OwnerRooted ==
  ASSUME NEW k, ContractInv(k), NEW id \in Ids, NEW v \in Ids, RootedIn(k, SdkAt[id].account, id, v),
         SdkAt[id].account \in DOMAIN k
  PROVE  OwnerIn(k, SdkAt[id].account) = Accounts[v].owner
<1>1. /\ k[SdkAt[id].account].kind = "account" /\ k[SdkAt[id].account].root = SdkAt[v].validator
      /\ SdkAt[v].validator \in DOMAIN k
  BY DEF RootedIn
<1>2. IsTable(k, SdkAt[v].validator, v)
  BY <1>1, Kinds
<1>3. OwnerIn(k, SdkAt[id].account) = [key |-> Accounts[v].owner.key, headers |-> Accounts[v].owner.headers]
  BY <1>1, <1>2 DEF OwnerIn, IsTable, TableContract
<1> QED
  BY <1>3, AccountsAssumption

(* More contracts leave the owners of the accounts that exist. *)
LEMMA OwnerGrows ==
  ASSUME NEW k, NEW k2, ContractInv(k), ContractInv(k2), Grows(k, k2), NEW a \in Addresses,
         a \in DOMAIN k \/ a \notin DOMAIN k2
  PROVE  OwnerIn(k2, a) = OwnerIn(k, a)
<1>1. CASE a \notin DOMAIN k2
  BY <1>1 DEF OwnerIn, Grows
<1>2. CASE a \in DOMAIN k
  <2>1. PICK id \in Ids : a = SdkAt[id].account
    BY DEF Addresses
  <2>2. PICK v \in Ids : RootedIn(k, a, id, v)
    BY <1>2, <2>1, Kinds DEF IsDerived
  <2>3. a \in DOMAIN k2 /\ RootedIn(k2, a, id, v)
    BY <1>2, <2>2 DEF RootedIn, Grows
  <2> QED
    BY <1>2, <2>1, <2>2, <2>3, OwnerRooted
<1> QED
  BY <1>1, <1>2

OwnerBar == [c \in Chains |-> [a \in Addresses |-> IF IsAccount(c, a) THEN OwnerOf(c, a) ELSE NoOwner]]
AuthorizedBar == {Authorization(s) : s \in signed}
DoneBar == [c \in Chains |-> [i \in DOMAIN performed[c] |-> Authorization(performed[c][i].authorization)]]
CreatorBar == [a \in Addresses |-> Accounts[IdOf[a]].owner]
RestrictedBar == {a \in Addresses : Accounts[IdOf[a]].profile.profile = "restricted"}

(* The abstract specification's owners...                                  *)
LEMMA OwnerBarIs == \A c \in Chains, a \in Addresses : OwnerBar[c][a] = OwnerIn(code[c], a)
BY DEF OwnerBar, OwnerIn, IsAccount, OwnerOf

(* ...after a step...                                                      *)
LEMMA OwnerBarPrimed == \A c \in Chains, a \in Addresses : OwnerBar'[c][a] = OwnerIn(code'[c], a)
BY DEF OwnerBar, OwnerIn, IsAccount, OwnerOf

(* ...and the owners accounts are created for.                             *)
LEMMA CreatorIs == \A id \in Ids : CreatorBar[SdkAt[id].account] = Accounts[id].owner
BY IdOfAddress DEF CreatorBar, SameButIndex

(* The initial states are initial states of the abstract specification.    *)
LEMMA InitRefines == Init => Authority!Init
<1> SUFFICES ASSUME Init PROVE Authority!Init
  OBVIOUS
<1>1. \A c \in Chains : code[c] = <<>> /\ performed[c] = <<>>
  BY DEF Init
<1>2. OwnerBar = [c \in Chains |-> [a \in Addresses |-> NoOwner]]
  BY <1>1 DEF OwnerBar, IsAccount
<1>3. AuthorizedBar = {}
  BY DEF Init, AuthorizedBar
<1>4. DoneBar = [c \in Chains |-> <<>>]
  BY <1>1 DEF DoneBar
<1> QED
  BY <1>2, <1>3, <1>4 DEF Authority!Init, OwnerBar, AuthorizedBar, DoneBar

(* Preparing tables and factories says nothing about owners. *)
LEMMA Stutters ==
  ASSUME IInv, NEW c \in Chains, Deployed(c), UNCHANGED <<signed, performed>>,
         \A a \in Addresses : a \in DOMAIN code[c] \/ a \notin DOMAIN code'[c]
  PROVE  UNCHANGED Authority!vars
<1>1. UNCHANGED <<AuthorizedBar, DoneBar>>
  BY DEF AuthorizedBar, DoneBar
<1>2. ASSUME NEW d \in Chains, NEW a \in Addresses
      PROVE  OwnerIn(code'[d], a) = OwnerIn(code[d], a)
  <2>1. CASE d = c
    <3>1. ContractInv(code[c]) /\ ContractInv(code'[c]) /\ Grows(code[c], code'[c])
      BY DEF IInv, CodeInv, Deployed
    <3> QED
      BY <2>1, <3>1, OwnerGrows
  <2>2. CASE d # c
    <3>1. code'[d] = code[d]
      BY <2>2 DEF Deployed
    <3> QED
      BY <3>1
  <2> QED
    BY <2>1, <2>2
<1>3. OwnerBar' = OwnerBar
  <2>1. \A d \in Chains, a \in Addresses : OwnerBar'[d][a] = OwnerBar[d][a]
    BY <1>2, OwnerBarIs, OwnerBarPrimed
  <2> QED
    BY <2>1 DEF OwnerBar
<1> QED
  BY <1>1, <1>3 DEF Authority!vars, OwnerBar, AuthorizedBar, DoneBar

(* How a step that concerns one account changes the owners. *)
LEMMA OneOwnerChanges ==
  ASSUME NEW c \in Chains, NEW a \in Addresses, NEW o, OwnerIn(code'[c], a) = o,
         \A d \in Chains, b \in Addresses : d # c \/ b # a => OwnerIn(code'[d], b) = OwnerIn(code[d], b)
  PROVE  OwnerBar' = [OwnerBar EXCEPT ![c][a] = o]
<1>1. \A d \in Chains, b \in Addresses : OwnerBar'[d][b] = [OwnerBar EXCEPT ![c][a] = o][d][b]
  <2>1. ASSUME NEW d \in Chains, NEW b \in Addresses
        PROVE  OwnerBar'[d][b] = [OwnerBar EXCEPT ![c][a] = o][d][b]
    <3>1. OwnerBar'[d][b] = OwnerIn(code'[d], b) /\ OwnerBar[d][b] = OwnerIn(code[d], b)
      BY OwnerBarIs, OwnerBarPrimed
    <3>2. c \in DOMAIN OwnerBar /\ d \in DOMAIN OwnerBar /\ DOMAIN OwnerBar[c] = Addresses /\ DOMAIN OwnerBar[d] = Addresses
      BY DEF OwnerBar
    <3>3. CASE d = c /\ b = a
      BY <3>1, <3>2, <3>3
    <3>4. CASE d # c \/ b # a
      BY <3>1, <3>2, <3>4
    <3> QED
      BY <3>3, <3>4
  <2> QED
    BY <2>1
<1> QED
  BY <1>1 DEF OwnerBar

(* The creation of an account is its appearance, or nothing if it exists.  *)
LEMMA CreationRefines ==
  ASSUME IInv, NEW c \in Chains, NEW f \in DOMAIN code[c], NEW other \in Offered[c],
         CreateAccount(c, f, Accounts[other].index)
  PROVE  [Authority!Next]_(Authority!vars)
<1>1. PICK id \in Ids :
           /\ Deployed(c) /\ DOMAIN code'[c] = DOMAIN code[c] \cup {SdkAt[id].account}
           /\ SdkAt[id].account \notin DOMAIN code[c] => RootedIn(code'[c], SdkAt[id].account, id, id)
  BY AccountCreated
<1>2. UNCHANGED <<signed, performed>>
  BY DEF CreateAccount
<1> DEFINE a == SdkAt[id].account
<1>3. a \in Addresses
  BY IdOfAddress
<1>4. CASE a \in DOMAIN code[c]
  BY <1>1, <1>2, <1>4, Stutters
<1>5. CASE a \notin DOMAIN code[c]
  <2>1. ContractInv(code[c]) /\ ContractInv(code'[c]) /\ Grows(code[c], code'[c])
    BY <1>1 DEF IInv, CodeInv, Deployed
  <2>2. OwnerIn(code'[c], a) = Accounts[id].owner
    BY <1>1, <1>5, <2>1, OwnerRooted
  <2>3. ASSUME NEW d \in Chains, NEW b \in Addresses, d # c \/ b # a
        PROVE  OwnerIn(code'[d], b) = OwnerIn(code[d], b)
    <3>1. CASE d # c
      BY <1>1, <3>1 DEF Deployed
    <3>2. CASE d = c
      <4>1. b \in DOMAIN code[c] \/ b \notin DOMAIN code'[c]
        BY <1>1, <2>3, <3>2
      <4> QED
        BY <2>1, <3>2, <4>1, OwnerGrows
    <3> QED
      BY <3>1, <3>2
  <2>4. OwnerBar' = [OwnerBar EXCEPT ![c][a] = Accounts[id].owner]
    BY <1>3, <2>2, <2>3, OneOwnerChanges
  <2>5. OwnerBar[c][a] = NoOwner
    BY <1>3, <1>5, OwnerBarIs DEF OwnerIn
  <2>6. CreatorBar[a] = Accounts[id].owner
    BY CreatorIs
  <2>7. UNCHANGED <<AuthorizedBar, DoneBar>>
    BY <1>2 DEF AuthorizedBar, DoneBar
  <2>8. Authority!Appear(c, a)
    BY <2>4, <2>5, <2>6, <2>7 DEF Authority!Appear, OwnerBar, AuthorizedBar, DoneBar, CreatorBar
  <2> QED
    BY <1>3, <2>8 DEF Authority!Next
<1> QED
  BY <1>4, <1>5

(* A signature is an authorization.                                        *)
LEMMA SignRefines ==
  ASSUME IInv, NEW r \in Requests, Sign(r.signer, r.chain, Operation(r))
  PROVE  Authority!Next
<1> DEFINE x == [signer |-> r.signer, chain |-> r.chain, account |-> SdkAt[r.id].account, nonce |-> r.nonce]
           s == [signer |-> r.signer, chain |-> r.chain, op |-> Operation(r), payload |-> OperationHash(Operation(r), r.chain)]
<1>1. signed' = signed \cup {s} /\ UNCHANGED <<code, performed>>
  BY DEF Sign
<1>2. Authorization(s) = x
  BY DEF Authorization, Operation
<1>3. AuthorizedBar' = AuthorizedBar \cup {x}
  BY <1>1, <1>2 DEF AuthorizedBar
<1>4. UNCHANGED <<OwnerBar, DoneBar>>
  BY <1>1 DEF OwnerBar, DoneBar, IsAccount, OwnerOf
<1>5. x \in [signer : Owners, chain : Chains, account : Addresses, nonce : 0..MaxSigned]
  BY RequestsAssumption, IdOfAddress
<1>6. Authority!Authorize(x)
  BY <1>3, <1>4 DEF Authority!Authorize, OwnerBar, AuthorizedBar, DoneBar
<1> QED
  BY <1>5, <1>6 DEF Authority!Next, Authority!Authorizations

(* A function that differs from another in one value alone, by an element  *)
(* more at its end, is that function with the element appended.           *)
LEMMA GrownAt ==
  ASSUME NEW I, NEW R, NEW T, NEW f, f \in [I -> R], NEW g, g \in [I -> T], NEW k \in I, NEW y,
         g[k] = Append(f[k], y), \A d \in I : d # k => g[d] = f[d]
  PROVE  g = [f EXCEPT ![k] = Append(@, y)]
<1>1. PICK z : z = Append(f[k], y)
  OBVIOUS
<1>2. g = [f EXCEPT ![k] = z]
  BY <1>1
<1> QED
  BY <1>1, <1>2

(* The operations performed, seen as authorizations, grow as they do. *)
LEMMA DoneGrows ==
  ASSUME IInv, NEW c \in Chains, NEW e, performed' = [performed EXCEPT ![c] = Append(@, e)]
  PROVE  DoneBar' = [DoneBar EXCEPT ![c] = Append(@, Authorization(e.authorization))]
<1> DEFINE auth(q) == [i \in DOMAIN q |-> Authorization(q[i].authorization)]
           x == Authorization(e.authorization)
<1>1. DOMAIN performed = Chains
  BY DEF IInv, PerformedInv
<1>2. ASSUME NEW q, NEW S, q \in Seq(S)
      PROVE  auth(Append(q, e)) = Append(auth(q), x)
  <2> DEFINE A == {Authorization(y.authorization) : y \in S \cup {e}}
  <2>1. q \in Seq(S \cup {e}) /\ e \in S \cup {e} /\ Len(q) \in Nat /\ DOMAIN q = 1..Len(q)
    BY <1>2
  <2>2. /\ Append(q, e) \in Seq(S \cup {e}) /\ Len(Append(q, e)) = Len(q) + 1
        /\ DOMAIN Append(q, e) = 1..(Len(q) + 1)
        /\ \A i \in 1..Len(q) : Append(q, e)[i] = q[i]
        /\ Append(q, e)[Len(q) + 1] = e
    BY <2>1, AppendProperties
  <2>3. \A i \in 1..Len(q) : q[i] \in S \cup {e}
    BY <2>1
  <2> HIDE DEF x
  <2>4. /\ auth(q) \in [1..Len(q) -> A] /\ x \in A
        /\ auth(Append(q, e)) = [i \in 1..(Len(q) + 1) |-> IF i = Len(q) + 1 THEN x ELSE auth(q)[i]]
    BY <2>1, <2>2, <2>3 DEF x
  <2>5. auth(q) \in Seq(A) /\ Len(auth(q)) = Len(q)
    BY <2>1, <2>4, SeqDef
  <2> HIDE DEF A
  <2> DEFINE t == auth(q)
  <2> HIDE DEF auth
  <2>6. /\ Append(t, x) \in Seq(A) /\ Len(Append(t, x)) = Len(q) + 1
        /\ \A i \in 1..Len(q) : Append(t, x)[i] = t[i]
        /\ Append(t, x)[Len(q) + 1] = x
    BY <2>4, <2>5, AppendProperties
  <2>7. Append(t, x) = [i \in 1..(Len(q) + 1) |-> IF i = Len(q) + 1 THEN x ELSE t[i]]
    <3>1. DOMAIN Append(t, x) = 1..(Len(q) + 1)
      BY <2>6
    <3>2. Append(t, x) = [i \in 1..(Len(q) + 1) |-> Append(t, x)[i]]
      <4>1. PICK p : p = Append(t, x)
        OBVIOUS
      <4>2. p \in Seq(A) /\ Len(p) = Len(q) + 1
        BY <2>6, <4>1
      <4>3. p \in [1..(Len(q) + 1) -> A]
        BY <4>2, LenProperties
      <4>4. p = [i \in 1..(Len(q) + 1) |-> p[i]]
        BY <4>3
      <4> QED
        BY <4>1, <4>4
    <3>3. \A i \in 1..(Len(q) + 1) : Append(t, x)[i] = IF i = Len(q) + 1 THEN x ELSE t[i]
      BY <2>1, <2>6
    <3> QED
      BY <3>2, <3>3
  <2> QED
    BY <2>4, <2>7
<1>3. PICK S : performed[c] \in Seq(S)
  BY DEF IInv, PerformedInv
<1>4. PICK q : q = performed[c]
  OBVIOUS
<1>5. auth(Append(q, e)) = Append(auth(q), x)
  BY <1>2, <1>3, <1>4
<1>6. performed'[c] = Append(q, e) /\ \A d \in Chains : d # c => performed'[d] = performed[d]
  BY <1>1, <1>4
<1>7. DoneBar = [d \in Chains |-> auth(performed[d])]
  BY DEF DoneBar
<1>8. DoneBar' = [d \in Chains |-> auth(performed'[d])]
  BY DEF DoneBar, Authorization
<1> HIDE DEF auth, x
<1>9. DoneBar \in [Chains -> {auth(performed[d]) : d \in Chains}]
  BY <1>7
<1>10. DoneBar' \in [Chains -> {auth(performed'[d]) : d \in Chains}]
  BY <1>8
<1>11. DoneBar[c] = auth(q) /\ \A d \in Chains : DoneBar[d] = auth(performed[d])
  BY <1>4, <1>7
<1>12. DoneBar'[c] = auth(Append(q, e))
  BY <1>6, <1>8
<1>13. \A d \in Chains : d # c => DoneBar'[d] = auth(performed[d])
  BY <1>6, <1>8
<1> QED
  <2>1. DoneBar'[c] = Append(DoneBar[c], x)
    BY <1>5, <1>11, <1>12
  <2>2. \A d \in Chains : d # c => DoneBar'[d] = DoneBar[d]
    BY <1>11, <1>13
  <2>3. PICK old, new : old = DoneBar /\ new = DoneBar'
    OBVIOUS
  <2>4. PICK R, T : old \in [Chains -> R] /\ new \in [Chains -> T]
    BY <1>9, <1>10, <2>3
  <2>5. new = [old EXCEPT ![c] = Append(@, x)]
    BY <2>1, <2>2, <2>3, <2>4, GrownAt
  <2> QED
    BY <2>3, <2>5 DEF x

(* An operation the EntryPoint performs is the execution of what its owner *)
(* authorized.                                                             *)
LEMMA HandleRefines ==
  ASSUME IInv, NEW c \in Chains, NEW s \in signed, NEW failing, HandleOp(c, s, failing)
  PROVE  Authority!Next
<1>1. PICK id \in Ids, v \in Ids, w \in Ids : Obeyed(c, s, id, v, w)
  BY Handled
<1>2. PICK e : /\ performed' = [performed EXCEPT ![c] = Append(@, e)]
               /\ e.authorization = s
  BY Handled
<1>3. signed' = signed /\ s.op.nonce = nonce[c][s.op.sender]
  BY DEF HandleOp
<1> DEFINE a == SdkAt[id].account
           x == Authorization(s)
<1>4. x.account = a /\ x.chain = c /\ x.signer = Accounts[v].owner /\ x.nonce = nonce[c][a]
  BY <1>1, <1>3 DEF Authorization, Obeyed
<1>5. a \in Addresses
  BY IdOfAddress
<1>6. DoneBar' = [DoneBar EXCEPT ![c] = Append(@, x)]
  BY <1>2, DoneGrows
<1>7. AuthorizedBar' = AuthorizedBar /\ x \in AuthorizedBar
  BY <1>3 DEF AuthorizedBar
<1>8. ASSUME NEW i \in DOMAIN DoneBar[c]
      PROVE  DoneBar[c][i].account # x.account \/ DoneBar[c][i].nonce # x.nonce
  <2>1. PICK y : y = performed[c][i]
    OBVIOUS
  <2>2. i \in DOMAIN performed[c] /\ DoneBar[c][i] = Authorization(y.authorization)
    BY <1>8, <2>1 DEF DoneBar
  <2>3. y.authorization \in signed /\ y.authorization.op.nonce < nonce[c][y.authorization.op.sender]
    BY <2>1, <2>2 DEF IInv, PerformedInv, Done
  <2>4. PICK r \in Requests : Signed(y.authorization, r)
    BY <2>3 DEF IInv, SignedInv
  <2>5. y.authorization.op.nonce = r.nonce /\ r.nonce \in 0..MaxSigned
    BY <2>4, RequestsAssumption DEF Signed, Operation
  <2>6. nonce[c][a] \in Nat
    BY <1>5 DEF IInv
  <2>7. SUFFICES ASSUME y.authorization.op.sender = a PROVE y.authorization.op.nonce # nonce[c][a]
    BY <1>4, <2>2 DEF Authorization
  <2> QED
    BY <2>3, <2>5, <2>6, <2>7
<1>9. ContractInv(code[c]) /\ ContractInv(code'[c])
  BY <1>1 DEF IInv, CodeInv, Obeyed
<1>10. /\ OwnerBar[c][a] = IF a \in DOMAIN code[c] THEN Accounts[v].owner ELSE NoOwner
       /\ a \notin DOMAIN code[c] => Accounts[v].owner = Accounts[id].owner
  <2>1. CASE a \in DOMAIN code[c]
    <3>1. RootedIn(code[c], a, id, v)
      BY <1>1, <2>1 DEF Obeyed
    <3>2. OwnerIn(code[c], a) = Accounts[v].owner
      BY <1>9, <2>1, <3>1, OwnerRooted
    <3> QED
      BY <1>5, <2>1, <3>2, OwnerBarIs
  <2>2. CASE a \notin DOMAIN code[c]
    <3>1. OwnerIn(code[c], a) = NoOwner
      BY <2>2 DEF OwnerIn
    <3> QED
      BY <1>1, <1>5, <2>2, <3>1, OwnerBarIs DEF Obeyed
  <2> QED
    BY <2>1, <2>2
<1> DEFINE current == IF OwnerBar[c][a] = NoOwner THEN CreatorBar[a] ELSE OwnerBar[c][a]
<1>11. current = Accounts[v].owner
  <2>1. CreatorBar[a] = Accounts[id].owner
    BY CreatorIs
  <2>2. Accounts[v].owner # NoOwner
    BY OwnersAssumption DEF Owners
  <2> QED
    BY <1>10, <2>1, <2>2
<1>12. OwnerIn(code'[c], a) = Accounts[w].owner
  <2>1. RootedIn(code'[c], a, id, w) /\ a \in DOMAIN code'[c]
    BY <1>1 DEF Obeyed
  <2> QED
    BY <1>9, <2>1, OwnerRooted
<1>13. ASSUME NEW d \in Chains, NEW b \in Addresses, d # c \/ b # a
       PROVE  OwnerIn(code'[d], b) = OwnerIn(code[d], b)
  <2>1. CASE d # c
    BY <1>1, <2>1 DEF Obeyed
  <2>2. CASE d = c
    <3>1. PICK k, k2 : k = code[c] /\ k2 = code'[c]
      OBVIOUS
    <3>2. DOMAIN k2 = DOMAIN k \cup {a} /\ \A z \in DOMAIN k \ {a} : k2[z] = k[z]
      BY <1>1, <3>1 DEF Obeyed
    <3>3. CASE b \notin DOMAIN k
      BY <1>13, <2>2, <3>1, <3>2, <3>3 DEF OwnerIn
    <3>4. CASE b \in DOMAIN k
      <4>1. PICK j \in Ids : b = SdkAt[j].account
        BY DEF Addresses
      <4>2. PICK u \in Ids : RootedIn(k, b, j, u)
        BY <1>9, <3>1, <3>4, <4>1, Kinds DEF IsDerived
      <4>3. b \in DOMAIN k2 /\ RootedIn(k2, b, j, u)
        BY <1>13, <2>2, <3>2, <3>4, <4>2 DEF RootedIn
      <4> QED
        BY <1>9, <2>2, <3>1, <3>4, <4>1, <4>2, <4>3, OwnerRooted
    <3> QED
      BY <3>3, <3>4
  <2> QED
    BY <2>1, <2>2
<1>14. OwnerBar' = [OwnerBar EXCEPT ![c][a] = Accounts[w].owner]
  BY <1>5, <1>12, <1>13, OneOwnerChanges
<1>15. \/ OwnerBar' = [OwnerBar EXCEPT ![c][a] = current]
       \/ a \notin RestrictedBar /\ \E o \in Owners : OwnerBar' = [OwnerBar EXCEPT ![c][a] = o]
  <2>1. CASE w = v
    BY <1>11, <1>14, <2>1
  <2>2. CASE w # v
    <3>1. Accounts[id].profile.profile # "restricted"
      BY <1>1, <2>2 DEF Obeyed
    <3>2. a \notin RestrictedBar
      BY <3>1, IdOfAddress DEF RestrictedBar, SameButIndex
    <3> QED
      BY <1>14, <3>2 DEF Owners
  <2> QED
    BY <2>1, <2>2
<1> HIDE DEF x, a, current
<1>16. Authority!Execute(c, x)
  BY <1>4, <1>6, <1>7, <1>8, <1>11, <1>15
     DEF Authority!Execute, OwnerBar, AuthorizedBar, DoneBar, CreatorBar, RestrictedBar, current
<1> QED
  BY <1>7, <1>16 DEF Authority!Next, AuthorizedBar

(* Every step is a step of the abstract specification or leaves its state. *)
LEMMA StepRefines == IInv /\ [Next]_vars => [Authority!Next]_(Authority!vars)
<1> SUFFICES ASSUME IInv, [Next]_vars PROVE [Authority!Next]_(Authority!vars)
  OBVIOUS
<1>1. \A c \in Chains : Offered[c] \subseteq Ids
  BY ChainsAssumption
<1>2. ASSUME NEW c \in Chains, NEW id \in Offered[c], PrepareTable(c, id)
      PROVE  UNCHANGED Authority!vars
  <2>1. Deployed(c) /\ \A a \in DOMAIN code'[c] \ DOMAIN code[c] : a \notin Addresses
    BY <1>1, <1>2, TablePrepared
  <2>2. UNCHANGED <<signed, performed>>
    BY <1>2 DEF PrepareTable
  <2> QED
    BY <2>1, <2>2, Stutters
<1>3. ASSUME NEW c \in Chains, NEW id \in Offered[c], PrepareProfile(c, id)
      PROVE  UNCHANGED Authority!vars
  <2>1. Deployed(c) /\ \A a \in DOMAIN code'[c] \ DOMAIN code[c] : a \notin Addresses
    BY <1>1, <1>3, ProfilePrepared
  <2>2. UNCHANGED <<signed, performed>>
    BY <1>3 DEF PrepareProfile
  <2> QED
    BY <2>1, <2>2, Stutters
<1>4. ASSUME NEW c \in Chains, NEW f \in DOMAIN code[c], NEW id \in Offered[c], CreateAccount(c, f, Accounts[id].index)
      PROVE  [Authority!Next]_(Authority!vars)
  BY <1>4, CreationRefines
<1>5. ASSUME UNCHANGED <<code, signed, performed>>
      PROVE  UNCHANGED Authority!vars
  BY <1>5 DEF Authority!vars, IsAccount, OwnerOf
<1>6. ASSUME NEW c \in Chains, NEW policy, PolicyChanges(c, policy)
      PROVE  UNCHANGED Authority!vars
  BY <1>5, <1>6 DEF PolicyChanges
<1>7. ASSUME NEW r \in Requests, Sign(r.signer, r.chain, Operation(r))
      PROVE  Authority!Next
  BY <1>7, SignRefines
<1>8. ASSUME NEW c \in Chains, NEW s \in signed, NEW failing, HandleOp(c, s, failing)
      PROVE  Authority!Next
  BY <1>8, HandleRefines
<1>9. CASE UNCHANGED vars
  BY <1>5, <1>9 DEF vars
<1> HIDE DEF Authority!vars, Authority!Next
<1> QED
  BY <1>2, <1>3, <1>4, <1>6, <1>7, <1>8, <1>9 DEF Next

(* Every operation an account obeys was signed by its owner of the moment, *)
(* for that chain, and is obeyed once; its owner changes only by such an   *)
(* operation and never in a restricted account (validateUserOp, Kernel's   *)
(* nonce, RestrictedExecutionHook).                                        *)
THEOREM Refinement == Spec => AuthorityHolds
<1>1. Init => Authority!Init
  BY InitRefines
<1>2. IInv /\ [Next]_vars => [Authority!Next]_(Authority!vars)
  BY StepRefines
<1> QED
  BY <1>1, <1>2, Invariant, PTL DEF Spec, AuthorityHolds

-----------------------------------------------------------------------------
(* The validators of these accounts compute with the ladders of ScalarMul,  *)
(* over any field, curve, word size and keys.                              *)
CONSTANTS P, A, W, N, G, Keys, Scalars, Hashes, Points
VARIABLES alg, key, pc, doublings, table, call, pos, acc, out
Validator == INSTANCE ScalarMul

Field == 0..(P - 1)
Word == 0..P
(* What ScalarMul assumes of its parameters, as far as words go.           *)
Setting ==
  /\ P \in Nat /\ P > 3 /\ A \in Field
  /\ W \in Nat /\ W % 8 = 0 /\ W > 0
  /\ G \in Field \X Field /\ \A l \in Validator!Algorithms : Keys[l] \subseteq Field \X Field

LEMMA Reduced ==
  ASSUME Setting
  PROVE  /\ \A x, y \in Int : Validator!Mul(x, y) \in Field /\ Validator!Add(x, y) \in Field
         /\ \A x \in Word : Validator!Neg(x) \in Word
<1>1. P \in Nat /\ P > 0
  BY DEF Setting
<1>2. \A x \in Int : x % P \in Field
  BY <1>1 DEF Field
<1>3. \A x, y \in Int : x * y \in Int /\ x + y \in Int
  OBVIOUS
<1> QED BY <1>1, <1>2, <1>3 DEF Validator!Mul, Validator!Add, Validator!Neg, Word

(* A point of the ladders: X and Y up to P, ZZ and ZZZ reduced; an affine  *)
(* point's two words.                                                      *)
Extended == Word \X Word \X Field \X Field
Affine == Word \X Word

(* Each formula of the ladders, from points to a point.                    *)
LEMMA Words ==
  ASSUME Setting
  PROVE  Field \subseteq Int /\ Word \subseteq Int /\ Field \subseteq Word /\ {0, 1} \subseteq Field /\ {2, 3} \subseteq Word
  BY DEF Setting, Field, Word

LEMMA Doubled ==
  ASSUME Setting, NEW pt \in Extended
  PROVE  /\ Validator!DblNeg(pt) \in Extended /\ Validator!Dbl(pt) \in Extended /\ Validator!NegY(pt) \in Extended
         /\ Validator!DblOfNeg(pt) \in Extended /\ Validator!Double(pt) \in Extended
<1>1. pt[1] \in Word /\ pt[2] \in Word /\ pt[3] \in Field /\ pt[4] \in Field /\ A \in Field
  BY DEF Extended, Setting
<1>2. Validator!DblNeg(pt) \in Extended
  BY <1>1, Words, Reduced DEF Validator!DblNeg, Extended
<1>3. \A q \in Extended : Validator!NegY(q) \in Extended
  BY Reduced DEF Validator!NegY, Extended
<1>4. Validator!DblOfNeg(pt) \in Extended
  BY <1>1, Words, Reduced DEF Validator!DblOfNeg, Extended
<1>5. Validator!Double(pt) \in Extended
  BY <1>1, Words, Reduced DEF Validator!Double, Extended
<1> QED BY <1>2, <1>3, <1>4, <1>5 DEF Validator!Dbl

LEMMA Added ==
  ASSUME Setting, NEW pt \in Extended
  PROVE  /\ \A q \in Affine : Validator!AddN2(pt, q) \in Extended /\ Validator!Plus(pt, q) \in Extended
         /\ \A t \in Extended : Validator!AddToNeg(pt, t) \in Extended
<1>1. pt[1] \in Word /\ pt[2] \in Word /\ pt[3] \in Field /\ pt[4] \in Field
  BY DEF Extended
<1>2. ASSUME NEW q \in Affine
      PROVE  Validator!AddN2(pt, q) \in Extended
  <2>1. \A r, h \in Field : Validator!SumFrom(pt, r, h) \in Extended
    BY <1>1, Words, Reduced DEF Validator!SumFrom, Extended
  <2>2. /\ Validator!Add(Validator!Mul(q[2], pt[4]), Validator!Neg(pt[2])) \in Field
        /\ Validator!Add(Validator!Mul(q[1], pt[3]), Validator!Neg(pt[1])) \in Field
    BY <1>1, Words, Reduced DEF Affine
  <2> QED BY <2>1, <2>2 DEF Validator!AddN2
<1>3. ASSUME NEW q \in Affine
      PROVE  Validator!Plus(pt, q) \in Extended
  BY <1>1, Words, Reduced, Doubled DEF Validator!Plus, Validator!NoPoint, Extended, Affine
<1>4. ASSUME NEW t \in Extended
      PROVE  Validator!AddToNeg(pt, t) \in Extended
  <2>1. t[1] \in Word /\ t[2] \in Word /\ t[3] \in Field /\ t[4] \in Field
    BY DEF Extended
  <2> QED BY <1>1, <2>1, Words, Reduced, Doubled DEF Validator!AddToNeg, Extended
<1> QED BY <1>2, <1>3, <1>4

LEMMA Inverted ==
  ASSUME Setting, NEW x \in Field
  PROVE  Validator!FieldInverse[x] \in Field
  BY Words DEF Validator!FieldInverse, Field

LEMMA AffineSums ==
  ASSUME Setting
  PROVE  /\ \A p, q \in Affine : Validator!AffineAdd(p, q) \in Affine
         /\ \A pt \in Extended : Validator!Affine(pt) \in Affine
<1>1. ASSUME NEW p \in Affine, NEW q \in Affine
      PROVE  Validator!AffineAdd(p, q) \in Affine
  <2>1. p[1] \in Word /\ p[2] \in Word /\ q[1] \in Word /\ q[2] \in Word /\ A \in Field
    BY DEF Affine, Setting
  <2> QED BY <2>1, Words, Reduced, Inverted DEF Validator!AffineAdd, Validator!Infinity, Affine
<1>2. ASSUME NEW pt \in Extended
      PROVE  Validator!Affine(pt) \in Affine
  <2>1. pt[1] \in Word /\ pt[2] \in Word /\ pt[3] \in Field /\ pt[4] \in Field
    BY DEF Extended
  <2> QED BY <2>1, Words, Reduced, Inverted DEF Validator!Affine, Affine
<1> QED BY <1>1, <1>2

(* The bases of the shifted halves are the successive doublings of G.      *)
LEMMA Shifts ==
  ASSUME Setting
  PROVE  Validator!GShifted \in Affine
<1> DEFINE half == W \div 2
           Run(n, f) == /\ f \in [0..n -> Affine] /\ f[0] = G
                        /\ \A i \in 1..n : f[i] = Validator!AffineAdd(f[i - 1], f[i - 1])
           Lengths == {n \in Nat : \E f : Run(n, f)}
<1>1. half \in Nat
  BY DEF Setting
<1>2. G \in Affine
  BY Words DEF Setting, Affine
<1> HIDE DEF half
<1>3. 0 \in Lengths
  <2>1. Run(0, [i \in 0..0 |-> G])
    BY <1>2
  <2> QED BY <2>1
<1>4. ASSUME NEW n \in Nat, n \in Lengths
      PROVE  n + 1 \in Lengths
  <2>1. PICK f : Run(n, f)
    BY <1>4
  <2> DEFINE g == [i \in 0..(n + 1) |-> IF i <= n THEN f[i] ELSE Validator!AffineAdd(f[n], f[n])]
  <2>2. Validator!AffineAdd(f[n], f[n]) \in Affine
    BY <2>1, AffineSums
  <2>3. g \in [0..(n + 1) -> Affine] /\ g[0] = G
    BY <2>1, <2>2
  <2>4. ASSUME NEW i \in 1..(n + 1)
        PROVE  g[i] = Validator!AffineAdd(g[i - 1], g[i - 1])
    <3>1. g[i - 1] = f[i - 1]
      OBVIOUS
    <3>2. CASE i <= n
      BY <2>1, <3>1, <3>2
    <3>3. CASE i = n + 1
      BY <3>1, <3>3
    <3> QED BY <3>2, <3>3
  <2> HIDE DEF g
  <2>5. Run(n + 1, g)
    BY <2>3, <2>4
  <2> QED BY <2>5
<1> HIDE DEF Lengths
<1>5. half \in Lengths
  BY <1>1, <1>3, <1>4, Induction
<1>6. PICK f : Run(half, f)
  BY <1>5 DEF Lengths
<1> DEFINE Body(g) == [i \in 0..half |-> IF i = 0 THEN G ELSE Validator!AffineAdd(g[i - 1], g[i - 1])]
<1>7. f = Body(f)
  BY <1>1, <1>6
<1>8. Validator!GDoubled = Body(Validator!GDoubled)
  <2>1. Validator!GDoubled = CHOOSE g : g = Body(g)
    BY DEF Validator!GDoubled, half
  <2> QED BY <1>7, <2>1
<1> HIDE DEF Body
<1> DEFINE Typed == {n \in Nat : n <= half => Validator!GDoubled[n] \in Affine}
<1>9. 0 \in Typed
  BY <1>1, <1>2, <1>8 DEF Body
<1>10. ASSUME NEW n \in Nat, n \in Typed
       PROVE  n + 1 \in Typed
  <2>1. SUFFICES ASSUME n + 1 <= half PROVE Validator!GDoubled[n + 1] \in Affine
    OBVIOUS
  <2>2. Validator!GDoubled[n] \in Affine
    BY <1>1, <1>10, <2>1
  <2>3. Validator!GDoubled[n + 1] = Validator!AffineAdd(Validator!GDoubled[n], Validator!GDoubled[n])
    BY <1>1, <1>8, <2>1 DEF Body
  <2> QED BY <2>2, <2>3, AffineSums
<1>11. half \in Typed
  <2> HIDE DEF Typed
  <2> QED BY <1>1, <1>9, <1>10, Induction
<1> QED BY <1>1, <1>11 DEF Validator!GShifted, half

(* The tables: fifteen points, of whatever key.                            *)
LEMMA Tables ==
  ASSUME Setting, NEW q \in Affine, NEW gp \in Affine, NEW qp \in Affine
  PROVE  /\ Validator!CheckedTable(q) \in [1..15 -> Extended]
         /\ Validator!PrecomputedTable(q, gp, qp) \in [1..15 -> Extended]
<1>1. \A a \in Affine : <<a[1], a[2], 1, 1>> \in Extended
  BY Words DEF Affine, Extended
<1>2. G \in Affine
  BY Words DEF Setting, Affine
<1>3. /\ \A pt \in Extended, a \in Affine : Validator!AddN2(pt, a) \in Extended
      /\ \A pt \in Extended : Validator!Dbl(pt) \in Extended
  BY Doubled, Added
<1> QED BY <1>1, <1>2, <1>3 DEF Validator!CheckedTable, Validator!PrecomputedTable

(* Where the constructor or the call is, and what the registers, the bases *)
(* and the table hold there: words of points, reduced where the ladders    *)
(* invert them.                                                            *)
Places == {"construct", "first", "loop", "answer", "reverted", "shift", "try", "idle", "double",
           "refused", "accepted", "rejected"}
Bases == 3 * (W \div 4) + 1
Registers ==
  /\ alg \in Validator!Algorithms /\ key \in Affine /\ pc \in Places
  /\ acc \in Extended /\ out \in Affine
  /\ doublings \in Seq(Affine \X Affine) /\ doublings # <<>>
  /\ call.kind \in {"none", "order", "shift", "try", "multiply", "verify"}
TableReady ==
  /\ alg = "table" =>
       /\ table \in Seq(Affine) /\ call.kind \in {"none", "multiply", "verify"}
       /\ pc \notin {"shift", "try"} /\ (pc = "construct" => Len(doublings) = 1 /\ table = <<>>)
       /\ pc = "double" => Len(table) < 255 /\ Len(doublings) <= Bases
       /\ pc \notin {"construct", "double", "refused"} => Len(table) = 255
  /\ alg # "table" =>
       /\ table \in Seq(Extended) /\ pc # "double"
       /\ pc \in {"first", "loop"} => Len(table) = 15
  /\ alg = "precomputed" /\ (pc \in {"try", "idle"} \/ call.kind = "try") => Len(doublings) = 2
LadderInv == Registers /\ TableReady

LEMMA LadderTypes ==
  ASSUME Setting, LadderInv
  PROVE  Validator!TypeOK
<1>1. Extended \subseteq Validator!XYZZ /\ Affine = Validator!Word \X Validator!Word
  BY Words DEF Extended, Affine, Word, Validator!Word, Validator!XYZZ
<1>2. Validator!Ladder = "table" <=> alg = "table"
  BY DEF LadderInv, Registers, TableReady, Validator!Ladder, Validator!LadderOf, Validator!Algorithms
<1> QED BY <1>1, <1>2 DEF LadderInv, Registers, TableReady, Validator!TypeOK

LEMMA LadderInit ==
  ASSUME Setting, Validator!Init
  PROVE  LadderInv
<1>1. key \in Affine /\ G \in Affine
  BY Words DEF Setting, Affine, Validator!Init
<1>2. Validator!NoPoint \in Extended /\ Validator!Infinity \in Affine
  BY Words DEF Validator!NoPoint, Validator!Infinity, Extended, Affine
<1> QED BY <1>1, <1>2 DEF Validator!Init, Validator!NoCall, LadderInv, Registers, TableReady, Places

LEMMA Fifteen == \A t \in [1..15 -> Extended] : t \in Seq(Extended) /\ Len(t) = 15
<1> TAKE t \in [1..15 -> Extended]
<1>1. t \in Seq(Extended)
  BY SeqDef
<1>2. DOMAIN t = 1..15 /\ 15 \in Nat /\ Len(t) \in Nat /\ DOMAIN t = 1..Len(t)
  BY <1>1, LenProperties
<1> QED BY <1>1, <1>2

(* A ladder starts: its table is laid out, or is there already.            *)
LEMMA LadderStarts ==
  ASSUME Setting, LadderInv, NEW c, Validator!Start(c), c.kind \in {"order", "shift", "try", "multiply", "verify"},
         alg = "table" => pc = "idle" /\ c.kind \in {"multiply", "verify"},
         alg = "precomputed" /\ c.kind \notin {"order", "shift"} => Len(doublings) = 2
  PROVE  LadderInv'
<1>1. acc' \in Extended /\ out' \in Affine /\ call' = c /\ UNCHANGED <<alg, key, doublings>>
  BY Words DEF Validator!Start, Validator!NoPoint, Validator!Infinity, Extended, Affine
<1>2. CASE Validator!StartChecked(c)
  <2>1. alg # "table"
    BY <1>2 DEF Validator!StartChecked, Validator!LadderOf
  <2>2. table' \in [1..15 -> Extended]
    BY <1>2, Tables DEF Validator!StartChecked, LadderInv, Registers
  <2>3. table' \in Seq(Extended) /\ Len(table') = 15
    BY <2>2, Fifteen
  <2>4. pc' \in {"answer", "first"}
    BY <1>2 DEF Validator!StartChecked
  <2> QED BY <1>1, <2>1, <2>3, <2>4 DEF LadderInv, Registers, TableReady, Places
<1>3. CASE Validator!StartPrecomputed(c)
  <2>1. alg = "precomputed" /\ c.kind \notin {"order", "shift"}
    BY <1>3 DEF Validator!StartPrecomputed, Validator!LadderOf
  <2>2. doublings[2][1] \in Affine /\ doublings[2][2] \in Affine
    BY <2>1 DEF LadderInv, Registers
  <2>3. table' \in [1..15 -> Extended]
    BY <1>3, <2>2, Tables DEF Validator!StartPrecomputed, LadderInv, Registers
  <2>4. table' \in Seq(Extended) /\ Len(table') = 15
    BY <2>3, Fifteen
  <2>5. pc' \in {"answer", "reverted", "first"}
    BY <1>3 DEF Validator!StartPrecomputed
  <2> QED BY <1>1, <2>1, <2>4, <2>5 DEF LadderInv, Registers, TableReady, Places
<1>4. CASE Validator!StartTable(c)
  <2>1. alg = "table"
    BY <1>4 DEF Validator!StartTable, Validator!LadderOf, LadderInv, Registers, Validator!Algorithms
  <2>2. UNCHANGED table /\ pc' = "loop"
    BY <1>4 DEF Validator!StartTable
  <2> QED BY <1>1, <2>1, <2>2 DEF LadderInv, Registers, TableReady, Places
<1> QED BY <1>2, <1>3, <1>4 DEF Validator!Start

(* The constructors, up to the last entry of the 256.                      *)
LEMMA KeysChecked ==
  ASSUME Setting, LadderInv,
         \/ Validator!RefuseKey \/ Validator!CheckTableKey \/ Validator!CheckOrder \/ Validator!OrderChecked
         \/ Validator!Shift \/ Validator!Shifted \/ Validator!TryTable \/ Validator!TableTried
  PROVE  LadderInv'
<1>1. CASE Validator!RefuseKey
  BY <1>1 DEF Validator!RefuseKey, LadderInv, Registers, TableReady, Places
<1>2. CASE Validator!CheckTableKey
  <2>1. Bases \in Nat /\ 1 <= Bases
    BY DEF Bases, Setting
  <2>2. /\ alg = "table" /\ pc = "construct" /\ pc' \in {"double", "refused"}
        /\ UNCHANGED <<alg, key, doublings, table, call, pos, acc, out>>
    BY <1>2 DEF Validator!CheckTableKey
  <2>3. table = <<>> /\ Len(table) = 0 /\ Len(doublings) = 1
    BY <2>2 DEF LadderInv, TableReady
  <2>4. Registers'
    BY <2>2 DEF LadderInv, Registers, Places
  <2>5. TableReady'
    BY <2>1, <2>2, <2>3 DEF LadderInv, TableReady
  <2> QED BY <2>4, <2>5 DEF LadderInv
<1>3. CASE Validator!CheckOrder
  <2> DEFINE c == [kind |-> "order", u |-> 0, v |-> N, r |-> Validator!Infinity]
  <2>1. Validator!Start(c) /\ c.kind = "order"
    BY <1>3 DEF Validator!CheckOrder
  <2> HIDE DEF c
  <2>2. alg # "table"
    BY <1>3 DEF Validator!CheckOrder, LadderInv, TableReady
  <2> QED BY <2>1, <2>2, LadderStarts
<1>4. CASE Validator!OrderChecked
  BY <1>4 DEF Validator!OrderChecked, LadderInv, Registers, TableReady, Places, Validator!Algorithms
<1>5. CASE Validator!Shift
  <2> DEFINE c == [kind |-> "shift", u |-> 0, v |-> 2^(W \div 2), r |-> Validator!Infinity]
  <2>1. Validator!Start(c) /\ c.kind = "shift"
    BY <1>5 DEF Validator!Shift
  <2> HIDE DEF c
  <2>2. alg # "table"
    BY <1>5 DEF Validator!Shift, LadderInv, TableReady
  <2> QED BY <2>1, <2>2, LadderStarts
<1>6. CASE Validator!Shifted
  <2>1. doublings' \in Seq(Affine \X Affine) /\ Len(doublings') = 2
    <3>1. G \in Affine /\ key \in Affine /\ out \in Affine /\ Validator!GShifted \in Affine
      BY Words, Shifts DEF Setting, Affine, LadderInv, Registers
    <3> QED BY <1>6, <3>1 DEF Validator!Shifted
  <2> QED BY <1>6, <2>1 DEF Validator!Shifted, LadderInv, Registers, TableReady, Places
<1>7. CASE Validator!TryTable
  <2> DEFINE c == [kind |-> "try", u |-> 1, v |-> 0, r |-> Validator!Infinity]
  <2>1. Validator!Start(c) /\ c.kind = "try"
    BY <1>7 DEF Validator!TryTable
  <2> HIDE DEF c
  <2>2. alg # "table" /\ (alg = "precomputed" => Len(doublings) = 2)
    BY <1>7 DEF Validator!TryTable, LadderInv, TableReady
  <2> QED BY <2>1, <2>2, LadderStarts
<1>8. CASE Validator!TableTried
  BY <1>8 DEF Validator!TableTried, LadderInv, Registers, TableReady, Places
<1> QED BY <1>1, <1>2, <1>3, <1>4, <1>5, <1>6, <1>7, <1>8

LEMMA TableBuilt ==
  ASSUME Setting, LadderInv, Validator!DoubleBases \/ Validator!AddEntry
  PROVE  LadderInv'
<1>1. CASE Validator!DoubleBases
  <2> DEFINE d == doublings[Len(doublings)]
             doubled == <<Validator!AffineAdd(d[1], d[1]), Validator!AffineAdd(d[2], d[2])>>
  <2>1. d \in Affine \X Affine
    BY DEF LadderInv, Registers
  <2>2. doubled \in Affine \X Affine
    BY <2>1, AffineSums
  <2>3. doublings' = Append(doublings, doubled) /\ UNCHANGED <<alg, key, pc, table, call, pos, acc, out>> /\ pc = "double"
    BY <1>1 DEF Validator!DoubleBases
  <2>4. Len(doublings) < Bases /\ Bases \in Nat
    BY <1>1 DEF Validator!DoubleBases, Bases, Setting
  <2> HIDE DEF doubled
  <2>5. doublings' \in Seq(Affine \X Affine) /\ doublings' # <<>> /\ Len(doublings') <= Bases
    BY <2>2, <2>3, <2>4 DEF LadderInv, Registers
  <2> QED BY <2>3, <2>5 DEF LadderInv, Registers, TableReady
<1>2. CASE Validator!AddEntry
  <2>1. alg = "table" /\ Len(doublings) = Bases /\ pc = "double"
    BY <1>2 DEF Validator!AddEntry, LadderInv, Registers, TableReady, Bases
  <2>2. ASSUME NEW b \in 0..7
        PROVE  Validator!Base(b) \in Affine
    <3>1. W \div 4 \in Nat /\ b % 4 \in 0..3 /\ b \div 4 \in 0..1
      BY DEF Setting
    <3>2. 1 + (b % 4) * (W \div 4) \in 1..Bases
      BY <3>1 DEF Bases
    <3>3. doublings[1 + (b % 4) * (W \div 4)] \in Affine \X Affine
      BY <2>1, <3>2 DEF LadderInv, Registers
    <3> QED BY <3>1, <3>3 DEF Validator!Base
  <2>3. \A i : Validator!LowestBit(i) \in 0..7
    BY DEF Validator!LowestBit
  <2>4. Validator!Infinity \in Affine
    BY Words DEF Validator!Infinity, Affine
  <2>5. Validator!Entry(Len(table) + 1) \in Affine
    <3>1. \A p : (IF p \in DOMAIN table THEN table[p] ELSE Validator!Infinity) \in Affine
      BY <2>1, <2>4 DEF LadderInv, TableReady
    <3> QED BY <2>2, <2>3, <3>1, AffineSums DEF Validator!Entry
  <2>6. table' \in Seq(Affine) /\ Len(table') = Len(table) + 1
    BY <1>2, <2>1, <2>5 DEF Validator!AddEntry, LadderInv, TableReady
  <2>7. UNCHANGED <<alg, key, doublings, call, pos, acc, out>> /\ pc' = IF Len(table') = 255 THEN "idle" ELSE "double"
    BY <1>2, <2>1 DEF Validator!AddEntry
  <2>8. Len(table) \in Nat /\ Len(table) < 255
    BY <2>1 DEF LadderInv, TableReady
  <2> QED BY <2>1, <2>6, <2>7, <2>8 DEF LadderInv, Registers, TableReady, Places
<1> QED BY <1>1, <1>2

(* The loops and what follows them.                                        *)
LEMMA LadderRuns ==
  ASSUME Setting, LadderInv,
         \/ Validator!FirstChecked \/ Validator!FirstPrecomputed
         \/ Validator!CheckedStep \/ Validator!PrecomputedStep \/ Validator!TableStep
         \/ Validator!CheckedEnds \/ Validator!PrecomputedEnds \/ Validator!TableEnds \/ Validator!Answer
  PROVE  LadderInv'
<1>1. ASSUME acc' \in Extended, out' \in Affine, pc' \in {pc, "loop", "answer", "accepted", "rejected"},
             pc \in {"first", "loop", "answer"}, pc' \in {"first", "loop"} => pc \in {"first", "loop"},
             UNCHANGED <<alg, key, doublings, table, call>>
      PROVE  LadderInv'
  BY <1>1 DEF LadderInv, Registers, TableReady, Places
<1>2. acc \in Extended /\ out \in Affine
  BY DEF LadderInv, Registers
<1>3. ASSUME alg # "table", pc \in {"first", "loop"}
      PROVE  \A digit \in 1..15 : table[digit] \in Extended
  BY <1>3 DEF LadderInv, TableReady
<1>4. \A x, i : Validator!Bit(x, i) \in {0, 1}
  BY DEF Validator!Bit
<1>5. \A m : Validator!CheckedDigit(m) \in 0..15 /\ Validator!PrecomputedDigit(m) \in 0..15 /\ Validator!TableDigit(m) \in 0..255
  BY <1>4 DEF Validator!CheckedDigit, Validator!PrecomputedDigit, Validator!TableDigit
<1>6. Validator!Ladder # "table" <=> alg # "table"
  BY DEF LadderInv, Registers, TableReady, Validator!Ladder, Validator!LadderOf, Validator!Algorithms
<1>7. CASE Validator!FirstChecked \/ Validator!FirstPrecomputed
  <2>1. PICK digit \in 0..15 : \E stride : Validator!FirstWindow(digit, stride)
    BY <1>5, <1>7 DEF Validator!FirstChecked, Validator!FirstPrecomputed
  <2>2. alg # "table"
    BY <1>6, <1>7 DEF Validator!FirstChecked, Validator!FirstPrecomputed
  <2> QED BY <1>1, <1>2, <1>3, <2>1, <2>2 DEF Validator!FirstWindow
<1>8. CASE Validator!CheckedStep
  <2>1. Validator!DblNeg(Validator!Dbl(acc)) \in Extended
    BY <1>2, Doubled
  <2>2. alg # "table"
    BY <1>6, <1>8 DEF Validator!CheckedStep
  <2>3. acc' \in Extended
    BY <1>3, <1>5, <1>8, <2>1, <2>2, Doubled, Added DEF Validator!CheckedStep
  <2> QED BY <1>1, <1>2, <1>8, <2>3 DEF Validator!CheckedStep
<1>9. CASE Validator!PrecomputedStep
  <2>1. Validator!DblNeg(acc) \in Extended
    BY <1>2, Doubled
  <2>2. alg # "table"
    BY <1>6, <1>9 DEF Validator!PrecomputedStep
  <2>3. acc' \in Extended
    BY <1>3, <1>5, <1>9, <2>1, <2>2, Doubled, Added DEF Validator!PrecomputedStep
  <2> QED BY <1>1, <1>2, <1>9, <2>3 DEF Validator!PrecomputedStep
<1>10. CASE Validator!TableStep
  <2>1. Validator!Double(acc) \in Extended
    BY <1>2, Doubled
  <2>2. alg = "table" /\ pc = "loop"
    BY <1>6, <1>10 DEF Validator!TableStep
  <2>3. \A digit \in 1..255 : table[digit] \in Affine
    <3>1. PICK n \in Nat : n = 255
      OBVIOUS
    <3>2. table \in Seq(Affine) /\ Len(table) = n
      BY <2>2, <3>1 DEF LadderInv, TableReady
    <3>3. \A digit \in 1..n : table[digit] \in Affine
      BY <3>2
    <3> QED BY <3>1, <3>3
  <2>4. \A digit \in 1..255 : Validator!Plus(Validator!Double(acc), table[digit]) \in Extended
    BY <2>1, <2>3, Added
  <2>5. PICK digit \in 0..255 :
          acc' = IF digit = 0 THEN Validator!Double(acc) ELSE Validator!Plus(Validator!Double(acc), table[digit])
    BY <1>5, <1>10 DEF Validator!TableStep
  <2>6. acc' \in Extended
    BY <2>1, <2>4, <2>5
  <2> QED BY <1>1, <1>2, <1>10, <2>6 DEF Validator!TableStep
<1>11. CASE Validator!CheckedEnds \/ Validator!PrecomputedEnds \/ Validator!TableEnds
  <2>1. Validator!Normalize
    BY <1>11 DEF Validator!CheckedEnds, Validator!PrecomputedEnds, Validator!TableEnds
  <2> QED BY <1>1, <1>2, <2>1, AffineSums DEF Validator!Normalize
<1>12. CASE Validator!Answer
  BY <1>1, <1>2, <1>12 DEF Validator!Answer
<1> QED BY <1>7, <1>8, <1>9, <1>10, <1>11, <1>12

LEMMA LadderStep ==
  ASSUME Setting, LadderInv, [Validator!Next]_(Validator!vars)
  PROVE  LadderInv'
<1>1. CASE Validator!Multiply
  <2>1. PICK u \in Scalars, k \in Hashes :
          Validator!Start([kind |-> "multiply", u |-> u, v |-> N - k, r |-> Validator!Infinity]) /\ pc = "idle"
    BY <1>1 DEF Validator!Multiply
  <2> DEFINE c == [kind |-> "multiply", u |-> u, v |-> N - k, r |-> Validator!Infinity]
  <2>2. Validator!Start(c) /\ c.kind = "multiply" /\ pc = "idle"
    BY <2>1
  <2> HIDE DEF c
  <2> QED BY <2>2, LadderStarts DEF LadderInv, TableReady
<1>2. CASE Validator!Verify
  <2>1. PICK c : /\ c.kind = "verify" /\ pc = "idle"
                 /\ \/ call' = c /\ pc' = "rejected" /\ UNCHANGED <<alg, key, doublings, table, pos, acc, out>>
                    \/ Validator!Start(c)
    BY <1>2 DEF Validator!Verify
  <2>2. CASE Validator!Start(c)
    BY <2>1, <2>2, LadderStarts DEF LadderInv, TableReady
  <2>3. CASE call' = c /\ pc' = "rejected" /\ UNCHANGED <<alg, key, doublings, table, pos, acc, out>>
    BY <2>1, <2>3 DEF LadderInv, Registers, TableReady, Places
  <2> QED BY <2>1, <2>2, <2>3
<1>3. CASE UNCHANGED Validator!vars
  BY <1>3 DEF Validator!vars, LadderInv, Registers, TableReady
<1> QED BY <1>1, <1>2, <1>3, KeysChecked, TableBuilt, LadderRuns DEF Validator!Next

(* Words of the ladders never exceed the modulus, over any field and curve *)
(* and for whatever points are offered as keys: a subtraction p - x of the *)
(* assembly never wraps below zero.                                        *)
THEOREM LadderTypeCorrect ==
  ASSUME Validator!FieldAssumption, Validator!WordAssumption, Validator!PointAssumption
  PROVE  Validator!Spec => []Validator!TypeOK
<1>1. Setting
  BY DEF Validator!FieldAssumption, Validator!WordAssumption, Validator!PointAssumption, Setting, Field, Validator!Algorithms
<1> QED BY <1>1, LadderInit, LadderStep, LadderTypes, PTL DEF Validator!Spec
=============================================================================
