--------------------------- MODULE ReleaseProofs ---------------------------
(***************************************************************************)
(* Theorems about Release, for every set of runs, names and ids and every  *)
(* number of versions, pushes and changes.                                 *)
(***************************************************************************)
EXTENDS Release, SequenceTheorems, TLAPS

-----------------------------------------------------------------------------
(* A run has a commit of main and a candidate of that commit; a candidate  *)
(* that another run takes over has been reviewed.                          *)
RunInv ==
  /\ \A r \in Runs : step[r] # "unused" =>
       /\ run[r].commit \in 1..Len(main)
       /\ run[r].from \in Runs
       /\ step[run[r].from] # "unused"
       /\ run[run[r].from].from = run[r].from
       /\ run[run[r].from].commit = run[r].commit
       /\ run[r].from # r => run[r].from \in reviewed
  /\ \A r \in Runs : sealed[r] # "none" \/ step[r] = "build" => run[r].from = r /\ step[r] # "unused"
  /\ \A r \in reviewed : step[r] # "unused" /\ run[r].from \in reviewed
  /\ \A r \in Runs : step[r] \in {"waiting", "publishing"} => r \in reviewed
  /\ approved \subseteq reviewed

(* An id names one asset, here and in the job's memory.                    *)
IdInv ==
  /\ \A v, w \in Versions : \A a \in assets[v], b \in assets[w] : a.id = b.id => a = b
  /\ \A v \in Versions : \A a \in assets[v], b \in job.held : a.id = b.id => a = b
  /\ \A v \in Versions : release[v] = None => assets[v] = {}

(* A release that nobody else has touched.                                 *)
Whole(v) ==
  /\ tag[v] # 0 => \E r \in approved : run[r].commit = tag[v] /\ VersionOf(r) = v
  /\ release[v] # None =>
       \E r \in approved :
         /\ run[r].from = release[v].marker /\ VersionOf(r) = v
         /\ tag[v] = run[r].commit
         /\ NamesOf(assets[v]) \subseteq Names
         /\ \A a \in assets[v] : a.bytes = Content(run[r].from, a.name)
         /\ ~release[v].draft => IsComplete(assets[v], run[r].from)

HubInv == \A v \in Versions \ touched : Whole(v)

(* The running job, and what it knows of an untouched release.  Nobody     *)
(* creates one under it; it may only be retired.                           *)
Final == {"last release", "last assets", "last tag", "publish"}

JobInv ==
  /\ job.run = None <=> job.step = "idle"
  /\ job.run # None => step[job.run] = "publishing" /\ job.run \in approved
  /\ job.step \in {"tag", "confirm", "draft", "upload"} /\ job.seen # None =>
       job.seen.marker = Candidate /\ (job.seen.draft \/ job.todo = {})
  /\ job.step = "draft" => job.seen = None
  /\ job.step = "upload" => job.todo # {}
  /\ job.step \in {"relist", "verify"} \cup Final => job.seen # None
  /\ job.step \in {"verify"} \cup Final => IsComplete(job.held, Candidate)
  /\ job.step \in Final => job.seen.marker = Candidate

SightInv(v) ==
  /\ job.step \in {"list", "plan", "tag", "confirm", "draft"} => release[v] \in {None, job.seen}
  /\ job.step \in {"draft", "upload"} => tag[v] \in {0, Commit}
  /\ job.step = "upload" /\ release[v] # None => release[v].marker = Candidate /\ release[v].draft
  /\ job.step \in {"relist", "verify"} \cup Final => release[v] \in {None, job.seen}
  /\ job.step \in {"verify"} \cup Final /\ release[v] # None => assets[v] = job.held

UntouchedInv == job.run # None /\ VersionOf(job.run) \notin touched => SightInv(VersionOf(job.run))

(* What the last reads found stays, unless somebody moves it.              *)
Confirmed(v) ==
  /\ job.step \in {"last assets", "last tag", "publish"} =>
       release[v] # None /\ release[v].marker = Candidate
  /\ job.step \in {"last tag", "publish"} => assets[v] = job.held
  /\ job.step = "publish" => tag[v] = Commit

LastInv == job.run # None /\ ~job.moved => Confirmed(VersionOf(job.run))

IInv == TypeOK /\ RunInv /\ IdInv /\ HubInv /\ JobInv /\ UntouchedInv /\ LastInv

-----------------------------------------------------------------------------
(* What a step needs to know of a run that has started.                    *)
LEMMA Started ==
  ASSUME TypeOK, RunInv, NEW r \in Runs, step[r] # "unused"
  PROVE  /\ run[r].commit \in 1..Len(main) /\ run[r].commit \in Nat \ {0}
         /\ run[r].from \in Runs /\ VersionOf(r) \in Versions
<1>1. run[r].commit \in 1..Len(main) /\ run[r].from \in Runs
  BY DEF RunInv
<1>2. main \in Seq(Versions)
  BY DEF TypeOK
<1>3. main[run[r].commit] \in Versions
  BY <1>1, <1>2, ElementOfSeq
<1> QED
  BY <1>1, <1>2, <1>3 DEF VersionOf

(* The id GitHub gives is new.                                             *)
LEMMA Fresh ==
  ASSUME CanGive
  PROVE  /\ NewId \in Ids
         /\ \A v \in Versions : \A a \in assets[v] : a.id # NewId
         /\ \A a \in job.held : a.id # NewId
<1>1. NewId \in Ids /\ ~Taken(NewId)
  BY DEF CanGive, NewId
<1> QED
  BY <1>1 DEF Taken

(* The bytes of a candidate's file.                                        *)
LEMMA ContentTyped ==
  ASSUME TypeOK, NEW c \in Runs, NEW n \in Names
  PROVE  Content(c, n) \in Bytes
BY DEF Content, Bytes, TypeOK

(* The running job.                                                        *)
LEMMA Running ==
  ASSUME IInv, NEW r \in Runs, job.run = r
  PROVE  /\ step[r] = "publishing" /\ r \in approved /\ r \in reviewed
         /\ Candidate \in Runs /\ Candidate \in reviewed /\ Candidate = run[r].from
         /\ Commit = run[r].commit /\ Commit \in 1..Len(main) /\ Commit \in Nat \ {0}
         /\ VersionOf(r) \in Versions
         /\ step[Candidate] # "unused" /\ run[Candidate].commit = Commit
<1>1. step[r] = "publishing" /\ r \in approved
  BY NoneAssumption DEF IInv, JobInv
<1>2. r \in reviewed /\ run[r].from \in reviewed
  BY <1>1 DEF IInv, RunInv
<1>3. TypeOK /\ RunInv
  BY DEF IInv
<1>4. step[run[r].from] # "unused" /\ run[run[r].from].commit = run[r].commit
  BY <1>1 DEF IInv, RunInv
<1> QED
  BY <1>1, <1>2, <1>3, <1>4, Started DEF Candidate, Commit

-----------------------------------------------------------------------------
(* Shapes.                                                                 *)
(* The job's memory.                                                       *)
JobType == [run : Runs \cup {None}, step : JobSteps, seen : Releases \cup {None},
            held : SUBSET Assets, todo : SUBSET Names, public : BOOLEAN, moved : BOOLEAN]

(* The job that is none.                                                   *)
LEMMA IdleTyped == Idle \in JobType
BY NoneAssumption DEF Idle, JobType, JobSteps

(* Nothing has happened yet.                                               *)
LEMMA Initially == Init => IInv
<1> SUFFICES ASSUME Init PROVE IInv
  OBVIOUS
<1> USE BoundsAssumption, NoneAssumption DEF Init
<1>1. 1 \in Versions /\ main \in Seq(Versions) /\ main # <<>>
  BY DEF Versions
<1>2. TypeOK
  <2>1. job \in JobType
    BY IdleTyped
  <2> QED
    BY <1>1, <2>1 DEF TypeOK, Modes, Steps, JobType
<1>3. RunInv
  BY DEF RunInv
<1>4. IdInv /\ HubInv /\ UntouchedInv /\ LastInv
  BY DEF IdInv, HubInv, Whole, UntouchedInv, LastInv, Idle
<1>5. JobInv
  BY DEF JobInv, Final, Idle
<1> QED
  BY <1>2, <1>3, <1>4, <1>5 DEF IInv

(* The steps of runs keep the types.                                       *)
LEMMA TypeOfRuns ==
  ASSUME IInv,
         Land \/ Switch \/ \E r \in Runs : \/ Age(r) \/ Build(r) \/ Review(r) \/ StopRun(r) \/ Rerun(r)
                                         \/ \E m \in Modes, c \in 1..Len(main) : Resolve(r, m, c)
  PROVE  TypeOK'
<1> USE DEF hub, others
<1>t. TypeOK
  BY DEF IInv
<1>1. CASE Land
  BY <1>1, <1>t DEF Land, TypeOK
<1>2. CASE Switch
  BY <1>2, <1>t DEF Switch, TypeOK
<1>3. ASSUME NEW r \in Runs, Age(r) PROVE TypeOK'
  BY <1>3, <1>t DEF Age, TypeOK
<1>4. ASSUME NEW r \in Runs, Build(r) \/ Review(r) \/ StopRun(r) \/ Rerun(r) PROVE TypeOK'
  BY <1>4, <1>t DEF Build, Review, StopRun, Rerun, TypeOK, Steps
<1>5. ASSUME NEW r \in Runs, NEW m \in Modes, NEW c \in 1..Len(main), Resolve(r, m, c) PROVE TypeOK'
  <2>1. c \in Nat
    BY <1>t DEF TypeOK
  <2>2. run' \in [Runs -> [mode : Modes, commit : Nat, from : Runs \cup {None}]]
    <3>1. run \in [Runs -> [mode : Modes, commit : Nat, from : Runs \cup {None}]]
      BY <1>t DEF TypeOK
    <3>2. \A q \in Runs : [mode |-> m, commit |-> run[q].commit, from |-> q]
                            \in [mode : Modes, commit : Nat, from : Runs \cup {None}]
      BY <3>1
    <3>3. [mode |-> m, commit |-> c, from |-> r] \in [mode : Modes, commit : Nat, from : Runs \cup {None}]
      BY <2>1
    <3>4. CASE m = "recover"
      <4>1. PICK q \in Runs :
              run' = [run EXCEPT ![r] = [mode |-> m, commit |-> run[q].commit, from |-> q]]
        BY <1>5, <3>4 DEF Resolve
      <4> QED
        BY <4>1, <3>1, <3>2
    <3>5. CASE m # "recover"
      BY <1>5, <3>5, <3>1, <3>3 DEF Resolve
    <3> QED
      BY <3>4, <3>5
  <2>3. step' \in [Runs -> Steps]
    <3>1. \E st \in Steps : step' = [step EXCEPT ![r] = st]
      BY <1>5 DEF Resolve, Steps
    <3> QED
      BY <3>1, <1>t DEF TypeOK
  <2> QED
    BY <1>5, <1>t, <2>2, <2>3 DEF Resolve, TypeOK
<1> QED
  BY <1>1, <1>2, <1>3, <1>4, <1>5

(* So do the reads of the job,                                             *)
LEMMA TypeOfReads ==
  ASSUME IInv, NEW r \in Runs, job.run = r, NEW v \in Versions,
         \/ Look(r, v) \/ List(r, v) \/ Plan(r, v) \/ ConfirmTag(r, v) \/ ReadRelease(r, v)
         \/ ReadAssets(r, v) \/ Verify(r, v) \/ LastRelease(r, v) \/ LastAssets(r, v)
         \/ LastTag(r, v) \/ Finish(r, v) \/ Fail(r) \/ Begin(r)
  PROVE  TypeOK'
<1> USE DEF hub, ci, others
<1>t. TypeOK /\ job \in JobType
  BY DEF IInv, TypeOK, JobType
<1>v. release[v] \in Releases \cup {None} /\ assets[v] \in SUBSET Assets
  BY <1>t DEF TypeOK
<1>1. job' \in JobType
  <2>1. CASE Look(r, v)
    BY <2>1, <1>t, <1>v DEF Look, JobType, JobSteps
  <2>2. CASE List(r, v)
    BY <2>2, <1>t, <1>v DEF List, JobType, JobSteps
  <2>3. CASE Plan(r, v)
    <3>1. Names \ NamesOf(job.held) \in SUBSET Names
      OBVIOUS
    <3>2. (job.seen # None /\ ~job.seen.draft) \in BOOLEAN
      OBVIOUS
    <3>3. (IF tag[v] = 0 THEN "tag" ELSE "confirm") \in JobSteps
      BY DEF JobSteps
    <3> QED
      BY <2>3, <1>t, <3>1, <3>2, <3>3 DEF Plan, JobType
  <2>4. CASE ConfirmTag(r, v) \/ Verify(r, v) \/ LastAssets(r, v) \/ LastTag(r, v)
    BY <2>4, <1>t DEF ConfirmTag, Verify, LastAssets, LastTag, Goto, NextUpload, JobType, JobSteps
  <2>5. CASE ReadRelease(r, v)
    BY <2>5, <1>t, <1>v DEF ReadRelease, JobType, JobSteps
  <2>6. CASE ReadAssets(r, v)
    BY <2>6, <1>t, <1>v DEF ReadAssets, JobType, JobSteps
  <2>7. CASE LastRelease(r, v)
    BY <2>7, <1>t DEF LastRelease, JobType, JobSteps
  <2>8. CASE Finish(r, v) \/ Fail(r)
    BY <2>8, IdleTyped DEF Finish, Fail, FailJob
  <2>9. CASE Begin(r)
    BY <2>9, IdleTyped DEF Begin, JobType, JobSteps
  <2> QED
    BY <2>1, <2>2, <2>3, <2>4, <2>5, <2>6, <2>7, <2>8, <2>9
<1>2. /\ UNCHANGED <<main, enabled, run, sealed, reviewed, hub, others>>
      /\ step' \in [Runs -> Steps] /\ ended' \subseteq Runs /\ approved' \subseteq Runs
  <2>1. CASE UNCHANGED <<ci, hub, others>>
    BY <2>1, <1>t DEF TypeOK
  <2>2. CASE Finish(r, v) \/ Fail(r) \/ Begin(r)
    BY <2>2, <1>t DEF Finish, Fail, FailJob, Begin, TypeOK, Steps
  <2> QED
    BY <2>1, <2>2 DEF Look, List, Plan, ConfirmTag, ReadRelease, ReadAssets, Verify, LastRelease,
                      LastAssets, LastTag
<1> QED
  BY <1>1, <1>2, <1>t DEF TypeOK, JobType

(* and its writes.                                                         *)
LEMMA TypeOfWrites ==
  ASSUME IInv, NEW r \in Runs, job.run = r, NEW v \in Versions,
         \/ CreateTag(r, v) \/ CreateDraft(r, v) \/ Upload(r, v) \/ BreakOff(r, v) \/ Publish(r, v)
  PROVE  TypeOK'
<1> USE DEF ci, others
<1>t. TypeOK /\ job \in JobType
  BY DEF IInv, TypeOK, JobType
<1>c. Candidate \in Runs /\ Commit \in Nat
  BY Running
<1>n. \A todo : NextUpload(todo) \in JobSteps
  BY DEF NextUpload, JobSteps
<1>a. \A n \in Names, st \in {"uploaded", "starter"} : CanGive => Asset(NewId, Candidate, n, st) \in Assets
  BY <1>c, <1>t, Fresh, ContentTyped DEF Asset, Assets
<1>1. CASE CreateTag(r, v)
  <2>1. job' \in JobType /\ tag' \in [Versions -> Nat]
    BY <1>1, <1>t, <1>c DEF CreateTag, Goto, JobType, JobSteps, TypeOK
  <2> QED
    BY <1>1, <2>1, <1>t DEF CreateTag, JobType, TypeOK
<1>2. CASE CreateDraft(r, v)
  <2>1. [id |-> NewId, draft |-> TRUE, marker |-> Candidate, target |-> Commit] \in Releases
    BY <1>2, <1>c, Fresh DEF CreateDraft, Releases
  <2>2. release' \in [Versions -> Releases \cup {None}]
    BY <1>2, <1>t, <2>1 DEF CreateDraft, TypeOK
  <2>3. job' \in JobType
    BY <1>2, <1>t, <1>n DEF CreateDraft, Goto, JobType
  <2> QED
    BY <1>2, <2>2, <2>3, <1>t DEF CreateDraft, JobType, TypeOK
<1>3. CASE Upload(r, v)
  <2>1. PICK n \in job.todo :
          /\ assets' = [assets EXCEPT ![v] = @ \cup {Asset(NewId, Candidate, n, "uploaded")}]
          /\ job' = [job EXCEPT !.todo = @ \ {n}, !.step = NextUpload(job.todo \ {n})]
    BY <1>3 DEF Upload
  <2>2. n \in Names
    BY <1>t DEF JobType
  <2>3. Asset(NewId, Candidate, n, "uploaded") \in Assets
    BY <1>3, <1>a, <2>2 DEF Upload
  <2>4. assets' \in [Versions -> SUBSET Assets]
    BY <2>1, <2>3, <1>t DEF TypeOK
  <2>5. job' \in JobType
    BY <2>1, <1>t, <1>n DEF JobType
  <2> QED
    BY <1>3, <2>4, <2>5, <1>t DEF Upload, JobType, TypeOK
<1>4. CASE BreakOff(r, v)
  <2>1. PICK n \in job.todo \ NamesOf(assets[v]) :
          assets' = [assets EXCEPT ![v] = @ \cup {Asset(NewId, Candidate, n, "starter")}]
    BY <1>4 DEF BreakOff
  <2>2. n \in Names
    BY <1>t, <2>1 DEF JobType
  <2>3. Asset(NewId, Candidate, n, "starter") \in Assets
    BY <1>4, <1>a, <2>2 DEF BreakOff
  <2>4. assets' \in [Versions -> SUBSET Assets]
    BY <2>1, <2>3, <1>t DEF TypeOK
  <2>5. job' \in JobType /\ step' \in [Runs -> Steps] /\ ended' \subseteq Runs
    BY <1>4, IdleTyped, <1>t DEF BreakOff, FailJob, TypeOK, Steps
  <2> QED
    BY <1>4, <2>4, <2>5, <1>t DEF BreakOff, JobType, TypeOK
<1>5. CASE Publish(r, v)
  <2>1. release[v] \in Releases
    BY <1>5, <1>t DEF Publish, TypeOK
  <2>2. release' \in [Versions -> Releases \cup {None}] /\ tag' \in [Versions -> Nat]
    BY <1>5, <1>t, <2>1 DEF Publish, Releases, TypeOK
  <2>3. job' \in JobType
    BY <1>5, <1>t DEF Publish, Goto, JobType, JobSteps
  <2> QED
    BY <1>5, <2>2, <2>3, <1>t DEF Publish, JobType, TypeOK
<1> QED
  BY <1>1, <1>2, <1>3, <1>4, <1>5

(* A foreign file's bytes are nobody's.                                    *)
LEMMA TypeOfOthers ==
  ASSUME IInv, NEW v \in Versions, RemoveStarter(v) \/ Retire(v) \/ Meddle(v)
  PROVE  TypeOK'
<1> USE DEF ci, others
<1>t. TypeOK /\ job \in JobType
  BY DEF IInv, TypeOK, JobType
<1>1. job' \in JobType
  <2>1. (job.moved \/ (job.run # None /\ VersionOf(job.run) = v)) \in BOOLEAN
    OBVIOUS
  <2> QED
    BY <2>1, <1>t DEF RemoveStarter, Retire, Meddle, Moved, JobType
<1>2. assets' \in [Versions -> SUBSET Assets] /\ tag' \in [Versions -> Nat]
      /\ release' \in [Versions -> Releases \cup {None}]
  <2>1. CASE RemoveStarter(v) \/ Retire(v)
    <3>1. CASE RemoveStarter(v)
      BY <3>1, <1>t DEF RemoveStarter, TypeOK
    <3>2. CASE Retire(v)
      BY <3>2, <1>t DEF Retire, TypeOK
    <3> QED
      BY <2>1, <3>1, <3>2
  <2>2. CASE Meddle(v)
    <3>m. main \in Seq(Versions)
      BY <1>t DEF TypeOK
    <3>n. Len(main) \in Nat /\ CanGive
      BY <2>2, <3>m, LenProperties DEF Meddle
    <3>1. tag' \in [Versions -> Nat]
      <4>1. tag \in [Versions -> Nat]
        BY <1>t DEF TypeOK
      <4>2. \A t \in 0..Len(main) : t \in Nat
        BY <3>n
      <4>3. UNCHANGED tag \/ \E t \in Nat : tag' = [tag EXCEPT ![v] = t]
        BY <2>2, <4>2 DEF Meddle
      <4> QED
        BY <4>1, <4>3
    <3>2. release' \in [Versions -> Releases \cup {None}]
      <4>1. \A d \in BOOLEAN :
              [id |-> NewId, draft |-> d, marker |-> None, target |-> Len(main)] \in Releases
        BY <3>n, Fresh DEF Releases
      <4>2. release[v] # None => \A m \in {None, release[v].marker}, d \in BOOLEAN :
              [[release[v] EXCEPT !.marker = m] EXCEPT !.draft = d] \in Releases
        BY <1>t DEF TypeOK, Releases
      <4>3. CASE UNCHANGED release
        BY <4>3, <1>t DEF TypeOK
      <4>4. CASE release' = [release EXCEPT ![v] = None]
        BY <4>4, <1>t DEF TypeOK
      <4>5. ASSUME NEW d \in BOOLEAN,
                   release' = [release EXCEPT
                     ![v] = [id |-> NewId, draft |-> d, marker |-> None, target |-> Len(main)]]
            PROVE  release' \in [Versions -> Releases \cup {None}]
        BY <4>5, <4>1, <1>t DEF TypeOK
      <4>6. ASSUME release[v] # None, NEW m \in {None, release[v].marker}, NEW d \in BOOLEAN,
                   release' = [release EXCEPT ![v].marker = m, ![v].draft = d]
            PROVE  release' \in [Versions -> Releases \cup {None}]
        BY <4>6, <4>2, <1>t DEF TypeOK
      <4> QED
        BY <2>2, <4>3, <4>4, <4>5, <4>6 DEF Meddle
    <3>3. assets' \in [Versions -> SUBSET Assets]
      <4>1. [name |-> Extra, commit |-> 0, by |-> None] \in Bytes
        BY DEF Bytes
      <4>2. \A n \in Names \cup {Extra} :
              [id |-> NewId, name |-> n, state |-> "uploaded",
               bytes |-> [name |-> Extra, commit |-> 0, by |-> None]] \in Assets
        BY <4>1, <3>n, Fresh DEF Assets
      <4> HIDE DEF Assets
      <4>3. CASE UNCHANGED assets \/ assets' = [assets EXCEPT ![v] = {}]
        BY <4>3, <1>t DEF TypeOK
      <4>4. CASE \E a \in assets[v] : assets' = [assets EXCEPT ![v] = @ \ {a}]
        BY <4>4, <1>t DEF TypeOK
      <4>5. ASSUME NEW n \in Names \cup {Extra},
                   assets' = [assets EXCEPT ![v] = {a \in @ : a.name # n} \cup
                     {[id |-> NewId, name |-> n, state |-> "uploaded",
                       bytes |-> [name |-> Extra, commit |-> 0, by |-> None]]}]
            PROVE  assets' \in [Versions -> SUBSET Assets]
        BY <4>5, <4>2, <1>t DEF TypeOK
      <4> QED
        BY <2>2, <4>3, <4>4, <4>5 DEF Meddle
    <3> QED
      BY <3>1, <3>2, <3>3
  <2> QED
    BY <2>1, <2>2
<1>3. UNCHANGED ci /\ changes' \in Nat /\ touched' \subseteq Versions
  BY <1>t DEF RemoveStarter, Retire, Meddle, TypeOK
<1> QED
  BY <1>1, <1>2, <1>3, <1>t DEF TypeOK, JobType

-----------------------------------------------------------------------------
(* Runs.                                                                   *)
LEMMA RunsStep ==
  ASSUME IInv, [Next]_vars
  PROVE  RunInv'
<1>t. TypeOK /\ RunInv
  BY DEF IInv
<1>s. main \in Seq(Versions) /\ Len(main) \in Nat
  BY <1>t, LenProperties DEF TypeOK
<1>1. CASE Land
  <2>1. PICK w \in Versions : main' = Append(main, w)
    BY <1>1 DEF Land
  <2>2. Len(main') = Len(main) + 1
    BY <1>s, <2>1, AppendProperties
  <2>3. \A i \in 1..Len(main) : i \in 1..Len(main')
    BY <2>2, <1>s
  <2> QED
    BY <1>1, <1>t, <2>3 DEF Land, RunInv
<1>2. ASSUME NEW r \in Runs, Age(r) PROVE RunInv'
  BY <1>2, <1>t DEF Age, RunInv, TypeOK
<1>3. ASSUME NEW r \in Runs, Build(r) PROVE RunInv'
  BY <1>3, <1>t DEF Build, RunInv, TypeOK
<1>4. ASSUME NEW r \in Runs, Review(r) PROVE RunInv'
  <2>1. step[r] # "unused" /\ (run[r].from # r => run[r].from \in reviewed)
    BY <1>4, <1>t DEF Review, RunInv
  <2>2. run[r].from \in reviewed'
    BY <1>4, <2>1 DEF Review
  <2> QED
    BY <1>4, <1>t, <2>1, <2>2 DEF Review, RunInv, TypeOK
<1>5. ASSUME NEW r \in Runs, StopRun(r) \/ Rerun(r) PROVE RunInv'
  BY <1>5, <1>t DEF StopRun, Rerun, RunInv, TypeOK
<1>6. ASSUME NEW r \in Runs, Begin(r) PROVE RunInv'
  BY <1>6, <1>t DEF Begin, RunInv, TypeOK
<1>7. ASSUME NEW r \in Runs, NEW m \in Modes, NEW c \in 1..Len(main), Resolve(r, m, c) PROVE RunInv'
  <2> USE <1>t
  <2>1. step[r] = "unused" /\ r \notin reviewed /\ sealed[r] = "none"
        /\ UNCHANGED <<main, sealed, reviewed, approved>>
    BY <1>7 DEF Resolve, RunInv, TypeOK
  <2>2. \A q \in Runs : step[q] # "unused" => run[q].from # r
    BY <2>1 DEF RunInv
  <2>3. CASE m = "recover"
    <3>1. PICK q \in Runs \ {r} :
            /\ Recoverable(q)
            /\ run' = [run EXCEPT ![r] = [mode |-> m, commit |-> run[q].commit, from |-> q]]
            /\ step' = [step EXCEPT ![r] = "review"]
      BY <1>7, <2>3 DEF Resolve
    <3>2. /\ q \in reviewed /\ run[q].from = q /\ step[q] # "unused"
          /\ run[q].commit \in 1..Len(main)
      BY <3>1 DEF Recoverable, Verifies, RunInv
    <3>3. /\ run'[r].commit = run[q].commit /\ run'[r].from = q /\ step'[r] = "review"
          /\ \A p \in Runs \ {r} : run'[p] = run[p] /\ step'[p] = step[p]
      BY <3>1 DEF TypeOK
    <3> QED
      BY <2>1, <2>2, <3>1, <3>2, <3>3 DEF RunInv, TypeOK
  <2>4. CASE m # "recover"
    <3>1. /\ run' = [run EXCEPT ![r] = [mode |-> m, commit |-> c, from |-> r]]
          /\ step' = [step EXCEPT ![r] = "build"]
      BY <1>7, <2>4 DEF Resolve
    <3>2. /\ run'[r].commit = c /\ run'[r].from = r /\ step'[r] = "build"
          /\ \A p \in Runs \ {r} : run'[p] = run[p] /\ step'[p] = step[p]
      BY <3>1 DEF TypeOK
    <3> QED
      BY <2>1, <2>2, <3>1, <3>2 DEF RunInv, TypeOK
  <2> QED
    BY <2>3, <2>4
<1>8. ASSUME UNCHANGED <<main, run, sealed, reviewed, approved>>,
             NEW r \in Runs, job.run = r,
             step' = [step EXCEPT ![r] = "failed"] \/ step' = [step EXCEPT ![r] = "done"]
      PROVE  RunInv'
  <2>1. step[r] = "publishing"
    BY <1>8, Running
  <2> QED
    BY <1>8, <1>t, <2>1 DEF RunInv, TypeOK
<1>9. ASSUME UNCHANGED <<main, run, sealed, reviewed, approved, step>> PROVE RunInv'
  BY <1>9, <1>t DEF RunInv
<1>10. ASSUME NEW r \in Runs, job.run = r, Fail(r) \/ PublishCandidate(r, VersionOf(r)) PROVE RunInv'
  <2>1. CASE Fail(r) \/ BreakOff(r, VersionOf(r)) \/ Finish(r, VersionOf(r))
    BY <2>1, <1>10, <1>8 DEF Fail, BreakOff, Finish, FailJob
  <2>2. CASE UNCHANGED ci
    BY <2>2, <1>9 DEF ci
  <2> QED
    BY <1>10, <2>1, <2>2 DEF PublishCandidate, Look, List, Plan, CreateTag, ConfirmTag, CreateDraft, Upload,
       ReadRelease, ReadAssets, Verify, LastRelease, LastAssets, LastTag, Publish
<1>11. CASE Switch
  BY <1>11, <1>9 DEF Switch
<1>12. ASSUME NEW v \in Versions, RemoveStarter(v) \/ Retire(v) \/ Meddle(v) PROVE RunInv'
  BY <1>12, <1>9 DEF RemoveStarter, Retire, Meddle, ci
<1>13. CASE UNCHANGED vars
  BY <1>13, <1>9 DEF vars, ci
<1>14. \A r \in Runs : Fail(r) => job.run = r
  BY DEF Fail
<1> QED
  BY <1>1, <1>2, <1>3, <1>4, <1>5, <1>6, <1>7, <1>10, <1>11, <1>12, <1>13, <1>14 DEF Next

-----------------------------------------------------------------------------
(* Steps that leave GitHub and the job alone: what started stays as it is. *)
LEMMA Undisturbed ==
  ASSUME IInv, UNCHANGED <<hub, job, others, approved>>,
         \A r \in Runs : step[r] # "unused" => run'[r] = run[r] /\ main'[run[r].commit] = main[run[r].commit],
         job.run # None => step'[job.run] = "publishing"
  PROVE  HubInv' /\ IdInv' /\ JobInv' /\ UntouchedInv' /\ LastInv'
<1> USE DEF hub, others
<1>t. TypeOK /\ RunInv
  BY DEF IInv
<1>1. \A r \in Runs : step[r] # "unused" => VersionOf(r)' = VersionOf(r)
  BY DEF VersionOf
<1>2. \A r \in approved : /\ r \in Runs /\ step[r] # "unused" /\ run'[r] = run[r]
                          /\ run[r].from \in Runs /\ step[run[r].from] # "unused"
  BY <1>t DEF RunInv, TypeOK
<1>3. \A c \in Runs : step[c] # "unused" => \A n : Content(c, n)' = Content(c, n)
  BY DEF Content
<1>4. \A c \in Runs : step[c] # "unused" => \A s : IsComplete(s, c)' <=> IsComplete(s, c)
  <2> SUFFICES ASSUME NEW c \in Runs, step[c] # "unused", NEW s
               PROVE  \A a \in s : Content(c, a.name)' = Content(c, a.name)
    BY DEF IsComplete, AreOf, NamesOf
  <2> QED
    BY <1>3
<1>5. HubInv'
  <2> SUFFICES ASSUME NEW v \in Versions \ touched PROVE Whole(v)'
    BY DEF HubInv
  <2>1. Whole(v)
    BY DEF IInv, HubInv
  <2>2. tag[v] # 0 => \E r \in approved : run'[r].commit = tag[v] /\ VersionOf(r)' = v
    BY <2>1, <1>1, <1>2 DEF Whole
  <2>3. ASSUME release[v] # None
        PROVE  \E r \in approved :
                 /\ run'[r].from = release[v].marker /\ VersionOf(r)' = v
                 /\ tag[v] = run'[r].commit
                 /\ NamesOf(assets[v]) \subseteq Names
                 /\ \A a \in assets[v] : a.bytes = Content(run[r].from, a.name)'
                 /\ ~release[v].draft => IsComplete(assets[v], run[r].from)'
    <3>1. PICK r \in approved :
                 /\ run[r].from = release[v].marker /\ VersionOf(r) = v
                 /\ tag[v] = run[r].commit
                 /\ NamesOf(assets[v]) \subseteq Names
                 /\ \A a \in assets[v] : a.bytes = Content(run[r].from, a.name)
                 /\ ~release[v].draft => IsComplete(assets[v], run[r].from)
      BY <2>1, <2>3 DEF Whole
    <3>2. /\ r \in Runs /\ step[r] # "unused" /\ run'[r] = run[r]
          /\ run[r].from \in Runs /\ step[run[r].from] # "unused"
      BY <1>2
    <3>3. \A n : Content(run[r].from, n)' = Content(run[r].from, n)
      BY <3>2, <1>3
    <3>4. IsComplete(assets[v], run[r].from)' <=> IsComplete(assets[v], run[r].from)
      BY <3>2, <1>4
    <3> QED
      BY <3>1, <3>2, <3>3, <3>4, <1>1
  <2> QED
    BY <2>2, <2>3 DEF Whole, NamesOf
<1>6. IdInv'
  BY DEF IInv, IdInv
<1>7. ASSUME job.run # None
      PROVE  /\ Candidate' = Candidate /\ Commit' = Commit /\ VersionOf(job.run)' = VersionOf(job.run)
             /\ \A s : IsComplete(s, Candidate)' <=> IsComplete(s, Candidate)
  <2>1. job.run \in Runs /\ step[job.run] # "unused"
    BY <1>7, Running, <1>t DEF TypeOK
  <2>2. Candidate \in Runs /\ step[Candidate] # "unused"
    BY <1>7, Running, <2>1
  <2>3. run'[job.run] = run[job.run]
    BY <2>1
  <2>4. Candidate' = Candidate /\ Commit' = Commit
    BY <2>3 DEF Candidate, Commit
  <2>5. run'[Candidate] = run[Candidate]
    BY <2>2
  <2>6. \A n : Content(Candidate, n)' = Content(Candidate, n)
    BY <2>4, <2>5 DEF Content
  <2>7. \A s : IsComplete(s, Candidate)' <=> IsComplete(s, Candidate)
    BY <2>6 DEF IsComplete, AreOf, NamesOf
  <2> QED
    BY <2>1, <2>4, <2>7, <1>1
<1>8. JobInv'
  <2>1. CASE job.run = None
    BY <2>1 DEF IInv, JobInv, Final
  <2>2. CASE job.run # None
    BY <2>2, <1>7 DEF IInv, JobInv
  <2> QED
    BY <2>1, <2>2
<1>9. UntouchedInv' /\ LastInv'
  <2>1. CASE job.run = None
    BY <2>1 DEF UntouchedInv, LastInv
  <2>2. CASE job.run # None
    BY <2>2, <1>7 DEF IInv, UntouchedInv, SightInv, LastInv, Confirmed
  <2> QED
    BY <2>1, <2>2
<1> QED
  BY <1>5, <1>6, <1>8, <1>9

-----------------------------------------------------------------------------
(* The job's reads.                                                        *)
LEMMA SameJob ==
  ASSUME UNCHANGED <<run, main>>, job'.run = job.run
  PROVE  /\ Candidate' = Candidate /\ Commit' = Commit
         /\ \A r : VersionOf(r)' = VersionOf(r)
         /\ \A c, n : Content(c, n)' = Content(c, n)
         /\ \A c, s : IsComplete(s, c)' <=> IsComplete(s, c)
BY DEF Candidate, Commit, VersionOf, Content, IsComplete, AreOf, NamesOf

(* A step that leaves the hub alone leaves its releases whole.             *)
LEMMA SameHub ==
  ASSUME IInv, UNCHANGED <<run, main, tag, release, assets, touched>>, approved \subseteq approved'
  PROVE  HubInv'
<1>1. /\ \A r : VersionOf(r)' = VersionOf(r)
      /\ \A c, n : Content(c, n)' = Content(c, n)
      /\ \A c, s : IsComplete(s, c)' <=> IsComplete(s, c)
  BY DEF VersionOf, Content, IsComplete, AreOf, NamesOf
<1> SUFFICES ASSUME NEW v \in Versions \ touched PROVE Whole(v)'
  BY DEF HubInv
<1>2. Whole(v)
  BY DEF IInv, HubInv
<1> QED
  BY <1>1, <1>2 DEF Whole, NamesOf

(* The steps in which the job only reads.                                  *)
LEMMA Reads ==
  ASSUME IInv, NEW r \in Runs, job.run = r, NEW v \in Versions, v = VersionOf(r),
         \/ Look(r, v) \/ List(r, v) \/ Plan(r, v) \/ ConfirmTag(r, v) \/ ReadRelease(r, v)
         \/ ReadAssets(r, v) \/ Verify(r, v) \/ LastRelease(r, v) \/ LastAssets(r, v)
         \/ LastTag(r, v)
  PROVE  HubInv' /\ IdInv' /\ JobInv' /\ UntouchedInv' /\ LastInv'
<1> USE DEF hub, ci, others
<1>t. TypeOK /\ job \in JobType
  BY DEF IInv, TypeOK, JobType
<1>i. IdInv /\ JobInv /\ LastInv /\ UntouchedInv
  BY DEF IInv
<1>u. UNCHANGED <<ci, hub, others>>
  BY DEF Look, List, Plan, ConfirmTag, ReadRelease, ReadAssets, Verify, LastRelease, LastAssets, LastTag
<1>r. r # None /\ step[r] = "publishing" /\ r \in approved
  BY NoneAssumption, Running
<1>j. job'.run = r
  BY <1>t DEF Look, List, Plan, ConfirmTag, ReadRelease, ReadAssets, Verify, LastRelease, LastAssets,
       LastTag, Goto, JobType
<1>s. /\ Candidate' = Candidate /\ Commit' = Commit /\ VersionOf(r)' = VersionOf(r)
      /\ \A s : IsComplete(s, Candidate)' <=> IsComplete(s, Candidate)
  BY <1>u, <1>j, SameJob
<1>h. HubInv'
  BY <1>u, SameHub
<1>d. job'.held \in {job.held, {}, assets[v]}
  BY <1>t DEF Look, List, Plan, ConfirmTag, ReadRelease, ReadAssets, Verify, LastRelease, LastAssets,
       LastTag, Goto, JobType
<1>1. IdInv'
  BY <1>u, <1>d, <1>i DEF IdInv
(* What has to be shown of the job once its step is known.                 *)
<1> DEFINE Known ==
      /\ job'.step # "idle"
      /\ job'.step \in {"tag", "confirm", "draft", "upload"} /\ job'.seen # None =>
           job'.seen.marker = Candidate /\ (job'.seen.draft \/ job'.todo = {})
      /\ job'.step = "draft" => job'.seen = None
      /\ job'.step = "upload" => job'.todo # {}
      /\ job'.step \in {"relist", "verify"} \cup Final => job'.seen # None
      /\ job'.step \in {"verify"} \cup Final => IsComplete(job'.held, Candidate)
      /\ job'.step \in Final => job'.seen.marker = Candidate
<1> DEFINE Sight ==
      /\ job'.step \in {"list", "plan", "tag", "confirm", "draft"} => release[v] \in {None, job'.seen}
      /\ job'.step \in {"draft", "upload"} => tag[v] \in {0, Commit}
      /\ job'.step = "upload" /\ release[v] # None => release[v].marker = Candidate /\ release[v].draft
      /\ job'.step \in {"relist", "verify"} \cup Final => release[v] \in {None, job'.seen}
      /\ job'.step \in {"verify"} \cup Final /\ release[v] # None => assets[v] = job'.held
<1> DEFINE Last ==
      /\ job'.step \in {"last assets", "last tag", "publish"} =>
           release[v] # None /\ release[v].marker = Candidate
      /\ job'.step \in {"last tag", "publish"} => assets[v] = job'.held
      /\ job'.step = "publish" => tag[v] = Commit
<1>2. Known /\ (v \notin touched => Sight) /\ (~job'.moved => Last)
  <2> USE DEF Final
  <2>i. /\ v \notin touched => SightInv(v)
        /\ ~job.moved => Confirmed(v)
    BY <1>i, <1>r DEF UntouchedInv, LastInv
  <2>1. CASE Look(r, v)
    BY <2>1, <1>t DEF Look, JobType
  <2>2. CASE List(r, v)
    <3>1. At(r, "list") /\ job'.step = "plan" /\ job'.seen = job.seen
      BY <2>2, <1>t DEF List, At, JobType
    <3> QED
      BY <3>1, <2>i DEF At, SightInv
  <2>3. CASE Plan(r, v)
    <3>1. /\ job.step = "plan" /\ job'.step \in {"tag", "confirm"} /\ job'.seen = job.seen
          /\ job'.todo = Names \ NamesOf(job.held)
      BY <2>3, <1>t DEF Plan, At, JobType
    <3>2. job.seen # None => job.seen.marker = Candidate /\ (job.seen.draft \/ NamesOf(job.held) = Names)
      BY <2>3 DEF Plan, Acceptable
    <3>3. job.seen # None => job.seen.marker = Candidate /\ (job.seen.draft \/ job'.todo = {})
      BY <3>1, <3>2
    <3> QED
      BY <3>1, <3>3, <2>i DEF SightInv
  <2>4. CASE ConfirmTag(r, v)
    <3>1. /\ job.step = "confirm" /\ job'.seen = job.seen /\ job'.todo = job.todo /\ tag[v] = Commit
          /\ job'.step = IF job.seen = None THEN "draft" ELSE NextUpload(job.todo)
      BY <2>4, <1>t DEF ConfirmTag, At, Goto, JobType
    <3>2. CASE job.seen = None
      BY <3>1, <3>2, <2>i DEF SightInv
    <3>3. CASE job.seen # None
      BY <3>1, <3>3, <2>i, <1>i DEF SightInv, JobInv, NextUpload
    <3> QED
      BY <3>2, <3>3
  <2>5. CASE ReadRelease(r, v)
    BY <2>5, <1>t DEF ReadRelease, JobType
  <2>6. CASE ReadAssets(r, v)
    <3>1. /\ job.step = "relist" /\ job'.step = "verify" /\ job'.seen = job.seen /\ job'.held = assets[v]
          /\ IsComplete(assets[v], Candidate)
      BY <2>6, <1>t DEF ReadAssets, At, JobType
    <3> QED
      BY <3>1, <2>i, <1>i DEF SightInv, JobInv
  <2>7. CASE Verify(r, v)
    <3>1. /\ job.step = "verify" /\ job'.step = "last release" /\ job'.seen = job.seen /\ job'.held = job.held
          /\ job.seen # None => job.seen.marker = Candidate
      BY <2>7, <1>t DEF Verify, At, Goto, Acceptable, JobType
    <3> QED
      BY <3>1, <2>i, <1>i DEF SightInv, JobInv
  <2>8. CASE LastRelease(r, v)
    <3>1. /\ job.step = "last release" /\ job'.step = "last assets" /\ job'.seen = job.seen
          /\ job'.held = job.held
          /\ release[v] # None /\ release[v].marker = job.seen.marker
      BY <2>8, <1>t DEF LastRelease, At, JobType
    <3> QED
      BY <3>1, <2>i, <1>i DEF SightInv, JobInv
  <2>9. CASE LastAssets(r, v)
    <3>1. /\ job.step = "last assets" /\ job'.step = "last tag" /\ job'.seen = job.seen
          /\ job'.held = job.held /\ job'.moved = job.moved
          /\ Listed(assets[v]) = Listed(job.held)
      BY <2>9, <1>t DEF LastAssets, At, Goto, JobType
    <3>2. assets[v] = job.held
      <4>1. ASSUME NEW a \in assets[v] PROVE a \in job.held
        <5>1. [id |-> a.id, name |-> a.name, state |-> a.state] \in Listed(job.held)
          BY <3>1 DEF Listed
        <5>2. PICK b \in job.held : [id |-> a.id, name |-> a.name, state |-> a.state]
                                  = [id |-> b.id, name |-> b.name, state |-> b.state]
          BY <5>1 DEF Listed
        <5>3. a.id = b.id
          BY <5>2
        <5> QED
          BY <5>3, <1>i DEF IdInv
      <4>2. ASSUME NEW b \in job.held PROVE b \in assets[v]
        <5>1. [id |-> b.id, name |-> b.name, state |-> b.state] \in Listed(assets[v])
          BY <3>1 DEF Listed
        <5>2. PICK a \in assets[v] : [id |-> b.id, name |-> b.name, state |-> b.state]
                                   = [id |-> a.id, name |-> a.name, state |-> a.state]
          BY <5>1 DEF Listed
        <5>3. a.id = b.id
          BY <5>2
        <5> QED
          BY <5>3, <1>i DEF IdInv
      <4> QED
        BY <4>1, <4>2
    <3> QED
      BY <3>1, <3>2, <2>i, <1>i DEF SightInv, Confirmed, JobInv
  <2>10. CASE LastTag(r, v)
    <3>1. /\ job.step = "last tag" /\ job'.step \in {"confirm public", "publish"} /\ job'.seen = job.seen
          /\ job'.held = job.held /\ job'.moved = job.moved /\ tag[v] = Commit
      BY <2>10, <1>t DEF LastTag, At, Goto, JobType
    <3> QED
      BY <3>1, <2>i, <1>i DEF SightInv, Confirmed, JobInv
  <2> QED
    BY <2>1, <2>2, <2>3, <2>4, <2>5, <2>6, <2>7, <2>8, <2>9, <2>10
<1>3. JobInv'
  BY <1>2, <1>s, <1>u, <1>j, <1>r DEF JobInv
<1>4. UntouchedInv' /\ LastInv'
  BY <1>2, <1>s, <1>u, <1>j, <1>r DEF UntouchedInv, SightInv, LastInv, Confirmed
<1> QED
  BY <1>h, <1>1, <1>3, <1>4

-----------------------------------------------------------------------------
(* A job starts and ends.                                                  *)
LEMMA StartOrEnd ==
  ASSUME IInv, NEW r \in Runs, Begin(r) \/ Fail(r) \/ \E v \in Versions : Finish(r, v)
  PROVE  HubInv' /\ IdInv' /\ JobInv' /\ UntouchedInv' /\ LastInv'
<1> USE DEF hub, others
<1>t. TypeOK /\ IdInv
  BY DEF IInv
<1>u. UNCHANGED <<main, run, hub, others>> /\ approved \subseteq approved'
  BY DEF Begin, Fail, Finish
<1>h. HubInv'
  BY <1>u, SameHub
<1>1. CASE Begin(r)
  <2>1. /\ job'.run = r /\ job'.step = "look" /\ job'.held = {}
        /\ step'[r] = "publishing" /\ r \in approved'
    BY <1>1, <1>t DEF Begin, Idle, TypeOK
  <2>2. r # None
    BY NoneAssumption
  <2> QED
    BY <1>h, <1>t, <1>u, <2>1, <2>2
    DEF IdInv, JobInv, UntouchedInv, SightInv, LastInv, Confirmed, Final
<1>2. CASE job' = Idle
  BY <1>h, <1>t, <1>u, <1>2 DEF IdInv, JobInv, UntouchedInv, LastInv, Final, Idle
<1> QED
  BY <1>1, <1>2 DEF Fail, FailJob, Finish

-----------------------------------------------------------------------------
(* The job's writes.                                                       *)
(* A step that changes one version leaves the others whole.                *)
LEMMA Elsewhere ==
  ASSUME IInv, UNCHANGED <<main, run>>, approved \subseteq approved', touched \subseteq touched',
         NEW v \in Versions,
         \A w \in Versions \ {v} : tag'[w] = tag[w] /\ release'[w] = release[w] /\ assets'[w] = assets[w],
         v \notin touched' => Whole(v)'
  PROVE  HubInv'
<1> SUFFICES ASSUME NEW w \in Versions \ touched' PROVE Whole(w)'
  BY DEF HubInv
<1>1. /\ \A r : VersionOf(r)' = VersionOf(r)
      /\ \A c, n : Content(c, n)' = Content(c, n)
      /\ \A c, s : IsComplete(s, c)' <=> IsComplete(s, c)
  BY DEF VersionOf, Content, IsComplete, AreOf, NamesOf
<1>2. CASE w # v
  <2>1. Whole(w)
    BY DEF IInv, HubInv
  <2>2. tag'[w] = tag[w] /\ release'[w] = release[w] /\ assets'[w] = assets[w]
    BY <1>2
  <2> QED
    BY <1>1, <2>1, <2>2 DEF Whole, NamesOf
<1> QED
  BY <1>2

(* What a whole release says once the job's candidate is in its notes.     *)
LEMMA Witnessed ==
  ASSUME IInv, NEW r \in Runs, job.run = r, NEW v \in Versions, v = VersionOf(r), v \notin touched,
         release[v] # None, release[v].marker = Candidate
  PROVE  /\ tag[v] = Commit /\ NamesOf(assets[v]) \subseteq Names
         /\ \A a \in assets[v] : a.bytes = Content(Candidate, a.name)
<1>1. PICK q \in approved :
         /\ run[q].from = release[v].marker /\ tag[v] = run[q].commit
         /\ NamesOf(assets[v]) \subseteq Names
         /\ \A a \in assets[v] : a.bytes = Content(run[q].from, a.name)
  BY DEF IInv, HubInv, Whole
<1>2. run[q].from = Candidate
  BY <1>1
<1>3. q \in Runs /\ step[q] # "unused"
  BY DEF IInv, RunInv, TypeOK
<1>4. run[Candidate].commit = run[q].commit
  BY <1>2, <1>3 DEF IInv, RunInv
<1>5. run[Candidate].commit = Commit
  BY Running
<1> QED
  BY <1>1, <1>2, <1>4, <1>5

(* CreateTag: an approved commit.                                          *)
LEMMA Tags ==
  ASSUME IInv, NEW r \in Runs, job.run = r, NEW v \in Versions, v = VersionOf(r), CreateTag(r, v)
  PROVE  HubInv' /\ IdInv' /\ JobInv' /\ UntouchedInv' /\ LastInv'
<1> USE DEF ci, others
<1>t. TypeOK /\ IdInv /\ JobInv
  BY DEF IInv
<1>r. r # None /\ step[r] = "publishing" /\ r \in approved /\ Commit = run[r].commit /\ Commit \in Nat \ {0}
  BY NoneAssumption, Running
<1>j. /\ job.step = "tag" /\ job'.run = r /\ job'.step = "confirm"
      /\ job'.seen = job.seen /\ job'.held = job.held /\ job'.todo = job.todo
      /\ UNCHANGED <<ci, release, assets, others>>
      /\ tag[v] = 0 /\ tag'[v] = Commit /\ \A w \in Versions \ {v} : tag'[w] = tag[w]
  BY <1>t DEF CreateTag, At, Goto, TypeOK
<1>s. Candidate' = Candidate /\ VersionOf(r)' = v
  BY <1>j, SameJob
<1>1. Whole(v)' \/ v \in touched
  <2> SUFFICES ASSUME v \notin touched PROVE Whole(v)'
    OBVIOUS
  <2>1. Whole(v)
    BY DEF IInv, HubInv
  <2>2. \A q \in approved : run[q].commit # 0
    <3> SUFFICES ASSUME NEW q \in approved PROVE run[q].commit # 0
      OBVIOUS
    <3>1. q \in Runs /\ step[q] # "unused" /\ TypeOK /\ RunInv
      BY DEF IInv, RunInv, TypeOK
    <3> QED
      BY <3>1, Started
  <2>3. release[v] = None
    BY <1>j, <2>1, <2>2 DEF Whole
  <2> QED
    BY <1>j, <1>r, <1>s, <2>3 DEF Whole
<1>2. HubInv'
  BY <1>1, <1>j, Elsewhere
<1>3. IdInv'
  BY <1>t, <1>j DEF IdInv
<1>4. JobInv'
  BY <1>t, <1>j, <1>r, <1>s DEF JobInv, Final
<1>5. UntouchedInv' /\ LastInv'
  <2>1. v \notin touched => release[v] \in {None, job.seen}
    BY <1>j, <1>r DEF IInv, UntouchedInv, SightInv
  <2> QED
    BY <1>j, <1>s, <2>1 DEF UntouchedInv, SightInv, LastInv, Confirmed, Final
<1> QED
  BY <1>2, <1>3, <1>4, <1>5

(* CreateDraft: the candidate's, under a tag that is its commit.           *)
LEMMA Drafts ==
  ASSUME IInv, NEW r \in Runs, job.run = r, NEW v \in Versions, v = VersionOf(r), CreateDraft(r, v)
  PROVE  HubInv' /\ IdInv' /\ JobInv' /\ UntouchedInv' /\ LastInv'
<1> USE DEF ci, others
<1>t. TypeOK /\ IdInv /\ JobInv
  BY DEF IInv
<1>r. r # None /\ step[r] = "publishing" /\ r \in approved /\ Commit = run[r].commit /\ Candidate = run[r].from
  BY NoneAssumption, Running
<1>n. Candidate # None
  BY NoneAssumption, Running
<1>j. /\ job.step = "draft" /\ job'.run = r /\ job'.step = NextUpload(job.todo)
      /\ job'.seen = job.seen /\ job'.held = job.held /\ job'.todo = job.todo
      /\ UNCHANGED <<ci, tag, assets, others>>
      /\ release[v] = None /\ tag[v] # 0
      /\ release'[v] = [id |-> NewId, draft |-> TRUE, marker |-> Candidate, target |-> Commit]
      /\ \A w \in Versions \ {v} : release'[w] = release[w]
  BY <1>t DEF CreateDraft, At, Goto, TypeOK
<1>s. Candidate' = Candidate /\ Commit' = Commit /\ VersionOf(r)' = v
  BY <1>j, SameJob
<1>e. job.seen = None /\ assets[v] = {}
  BY <1>t, <1>j DEF JobInv, IdInv
<1>1. v \notin touched => tag[v] = Commit
  BY <1>j, <1>r DEF IInv, UntouchedInv, SightInv
<1>2. v \notin touched => Whole(v)'
  BY <1>1, <1>j, <1>r, <1>s, <1>e DEF Whole, NamesOf
<1>3. HubInv'
  BY <1>2, <1>j, Elsewhere
<1>4. IdInv'
  BY <1>t, <1>j, <1>e DEF IdInv
<1>5. JobInv'
  BY <1>t, <1>j, <1>r, <1>s, <1>e DEF JobInv, Final, NextUpload
<1>6. UntouchedInv' /\ LastInv'
  BY <1>1, <1>j, <1>s DEF UntouchedInv, SightInv, LastInv, Confirmed, Final, NextUpload
<1> QED
  BY <1>3, <1>4, <1>5, <1>6

(* Upload and BreakOff: a file of the candidate, whole or broken.          *)
LEMMA Uploads ==
  ASSUME IInv, NEW r \in Runs, job.run = r, NEW v \in Versions, v = VersionOf(r),
         Upload(r, v) \/ BreakOff(r, v)
  PROVE  HubInv' /\ IdInv' /\ JobInv' /\ UntouchedInv' /\ LastInv'
<1> USE DEF ci, others
<1>t. TypeOK /\ IdInv /\ JobInv
  BY DEF IInv
<1>r. r # None /\ step[r] = "publishing" /\ r \in approved /\ Commit = run[r].commit /\ Candidate = run[r].from
  BY NoneAssumption, Running
<1>1. PICK n \in job.todo, st \in {"uploaded", "starter"} :
        /\ assets' = [assets EXCEPT ![v] = @ \cup {Asset(NewId, Candidate, n, st)}]
        /\ st = "uploaded" => job' = [job EXCEPT !.todo = @ \ {n}, !.step = NextUpload(job.todo \ {n})]
        /\ st = "starter" => job' = Idle
  <2>1. CASE Upload(r, v)
    BY <2>1 DEF Upload
  <2>2. CASE BreakOff(r, v)
    BY <2>2 DEF BreakOff, FailJob
  <2> QED
    BY <2>1, <2>2
<1>n. n \in Names
  BY <1>t DEF TypeOK
<1> DEFINE new == Asset(NewId, Candidate, n, st)
<1>a. new.id = NewId /\ new.name = n /\ new.bytes = Content(Candidate, n)
  BY DEF Asset
<1> HIDE DEF new
<1>j. /\ job.step = "upload" /\ CanGive /\ release[v] # None
      /\ UNCHANGED <<main, run, approved, tag, release, others>>
      /\ assets'[v] = assets[v] \cup {new}
      /\ \A w \in Versions \ {v} : assets'[w] = assets[w]
  BY <1>1, <1>t DEF Upload, BreakOff, At, TypeOK, new
<1>s. \A c, k : Content(c, k)' = Content(c, k)
  BY <1>j DEF Content
<1>v. VersionOf(r)' = v /\ \A q : VersionOf(q)' = VersionOf(q)
  BY <1>j DEF VersionOf
<1>2. v \notin touched =>
        /\ release[v].marker = Candidate /\ release[v].draft
        /\ tag[v] = Commit /\ NamesOf(assets[v]) \subseteq Names
        /\ \A a \in assets[v] : a.bytes = Content(Candidate, a.name)
  <2> SUFFICES ASSUME v \notin touched
               PROVE  /\ release[v].marker = Candidate /\ release[v].draft
                      /\ tag[v] = Commit /\ NamesOf(assets[v]) \subseteq Names
                      /\ \A a \in assets[v] : a.bytes = Content(Candidate, a.name)
    OBVIOUS
  <2>1. release[v].marker = Candidate /\ release[v].draft
    BY <1>j, <1>r DEF IInv, UntouchedInv, SightInv
  <2> QED
    BY <2>1, <1>j, Witnessed
<1>3. v \notin touched => Whole(v)'
  <2> SUFFICES ASSUME v \notin touched PROVE Whole(v)'
    OBVIOUS
  <2>1. NamesOf(assets'[v]) \subseteq Names
    BY <1>j, <1>2, <1>a, <1>n DEF NamesOf
  <2>2. \A a \in assets'[v] : a.bytes = Content(run[r].from, a.name)'
    BY <1>j, <1>2, <1>a, <1>s, <1>r
  <2>3. /\ tag'[v] = run'[r].commit /\ run'[r].from = release'[v].marker /\ release'[v].draft
        /\ VersionOf(r)' = v /\ r \in approved'
    BY <1>j, <1>2, <1>r, <1>v
  <2> QED
    BY <2>1, <2>2, <2>3 DEF Whole, NamesOf
<1>4. HubInv'
  BY <1>3, <1>j, Elsewhere
<1>5. IdInv'
  <2>1. /\ \A w \in Versions : \A a \in assets[w] : a.id # NewId
        /\ \A a \in job.held : a.id # NewId
    BY <1>j, Fresh
  <2>2. job'.held \subseteq job.held
    <3>1. CASE st = "uploaded"
      BY <1>1, <3>1, <1>t DEF TypeOK
    <3>2. CASE st = "starter"
      BY <1>1, <3>2 DEF Idle
    <3> QED
      BY <3>1, <3>2
  <2>3. \A w \in Versions : \A a \in assets'[w] : (a \in assets[w]) \/ (a = new)
    BY <1>j
  <2>4. \A w \in Versions : release'[w] = None => assets'[w] = {}
    BY <1>j, <1>t DEF IdInv
  <2> QED
    BY <1>a, <2>1, <2>2, <2>3, <2>4, <1>t DEF IdInv
<1>6. CASE st = "uploaded"
  <2>1. /\ job'.run = r /\ job'.seen = job.seen /\ job'.held = job.held
        /\ job'.todo = job.todo \ {n} /\ job'.step = NextUpload(job'.todo)
    BY <1>1, <1>6, <1>t DEF TypeOK
  <2>2. Candidate' = Candidate /\ Commit' = Commit
    BY <2>1, <1>j, SameJob
  <2>3. step'[r] = "publishing"
    <3>1. job' # Idle
      BY <2>1, <1>r DEF Idle
    <3> QED
      BY <3>1, <1>r DEF Upload, BreakOff, FailJob
  <2>4. JobInv'
    <3>1. job'.seen # None => job'.seen.marker = Candidate /\ job'.seen.draft
      BY <1>t, <1>j, <2>1 DEF JobInv
    <3> QED
      BY <2>1, <2>2, <2>3, <3>1, <1>r, <1>j DEF JobInv, Final, NextUpload
  <2>5. UntouchedInv' /\ LastInv'
    BY <2>1, <2>2, <1>2, <1>j, <1>v DEF UntouchedInv, SightInv, LastInv, Confirmed, Final, NextUpload
  <2> QED
    BY <1>4, <1>5, <2>4, <2>5
<1>7. CASE st = "starter"
  <2>1. job'.run = None /\ job'.step = "idle"
    BY <1>1, <1>7 DEF Idle
  <2> QED
    BY <1>4, <1>5, <2>1 DEF JobInv, UntouchedInv, LastInv, Final
<1> QED
  BY <1>6, <1>7

(* Publish: what the last reads have confirmed.                            *)
LEMMA Publishes ==
  ASSUME IInv, NEW r \in Runs, job.run = r, NEW v \in Versions, v = VersionOf(r), Publish(r, v)
  PROVE  HubInv' /\ IdInv' /\ JobInv' /\ UntouchedInv' /\ LastInv'
<1> USE DEF ci, others
<1>t. TypeOK /\ IdInv /\ JobInv
  BY DEF IInv
<1>r. /\ r # None /\ step[r] = "publishing" /\ r \in approved /\ Commit = run[r].commit
      /\ Candidate = run[r].from /\ Commit \in Nat \ {0}
  BY NoneAssumption, Running
<1>j. /\ job.step = "publish" /\ job'.step = "confirm public" /\ job'.run = r /\ job'.held = job.held
      /\ UNCHANGED <<ci, assets, others>> /\ release[v] # None
      /\ release'[v] = [release[v] EXCEPT !.draft = FALSE]
      /\ tag'[v] = IF tag[v] = 0 THEN release[v].target ELSE tag[v]
      /\ \A w \in Versions \ {v} : release'[w] = release[w] /\ tag'[w] = tag[w]
  BY <1>t DEF Publish, At, Goto, TypeOK
<1>d. release'[v] # None /\ release'[v].marker = release[v].marker
  <2>1. release[v] \in Releases
    BY <1>j, <1>t DEF TypeOK
  <2>2. [release[v] EXCEPT !.draft = FALSE] \in Releases
    BY <2>1 DEF Releases
  <2> QED
    BY <1>j, <2>1, <2>2, ReleasesAssumption DEF Releases
<1>s. /\ Candidate' = Candidate /\ VersionOf(r)' = v
      /\ \A c, n : Content(c, n)' = Content(c, n)
      /\ \A c, s : IsComplete(s, c)' <=> IsComplete(s, c)
  BY <1>j, SameJob
<1>1. ASSUME v \notin touched PROVE Whole(v)'
  <2>1. release[v] = job.seen /\ assets[v] = job.held
    BY <1>1, <1>j, <1>r DEF IInv, UntouchedInv, SightInv, Final
  <2>2. release[v].marker = Candidate /\ IsComplete(assets[v], Candidate)
    BY <2>1, <1>j, <1>t DEF JobInv, Final
  <2>3. /\ tag[v] = Commit /\ NamesOf(assets[v]) \subseteq Names
        /\ \A a \in assets[v] : a.bytes = Content(Candidate, a.name)
    BY <1>1, <1>j, <2>2, Witnessed
  <2>4. tag'[v] = Commit
    BY <2>3, <1>j, <1>r
  <2>5. /\ run'[r].from = release'[v].marker /\ tag'[v] = run'[r].commit
        /\ VersionOf(r)' = v /\ r \in approved' /\ NamesOf(assets'[v]) \subseteq Names
    BY <1>j, <1>d, <1>r, <1>s, <2>2, <2>3, <2>4
  <2>6. \A a \in assets'[v] : a.bytes = Content(run[r].from, a.name)'
    BY <1>j, <1>r, <1>s, <2>3
  <2>7. IsComplete(assets[v], run[r].from)'
    <3>1. IsComplete(assets[v], run[r].from)
      BY <1>r, <2>2
    <3> QED
      BY <3>1, <1>j DEF IsComplete, AreOf, NamesOf, Content
  <2> QED
    BY <2>5, <2>6, <2>7 DEF Whole, NamesOf
<1>2. HubInv'
  <2>1. /\ UNCHANGED <<main, run>> /\ approved \subseteq approved' /\ touched \subseteq touched'
        /\ \A w \in Versions \ {v} :
             tag'[w] = tag[w] /\ release'[w] = release[w] /\ assets'[w] = assets[w]
    BY <1>j
  <2>2. v \notin touched' => Whole(v)'
    BY <1>1, <1>j
  <2> QED
    BY <2>1, <2>2, Elsewhere
<1>3. IdInv'
  <2>1. \A w \in Versions : release'[w] = None => release[w] = None
    BY <1>j, <1>d
  <2> QED
    BY <1>t, <1>j, <2>1 DEF IdInv
<1>4. JobInv'
  BY <1>t, <1>j, <1>r DEF JobInv, Final
<1>5. UntouchedInv' /\ LastInv'
  BY <1>j, <1>s DEF UntouchedInv, SightInv, LastInv, Confirmed, Final
<1> QED
  BY <1>2, <1>3, <1>4, <1>5

-----------------------------------------------------------------------------
(* Other people.                                                           *)
(* What a change to version v leaves of the job: its memory, but `moved`.  *)
LEMMA MovedOnly ==
  ASSUME IInv, NEW v \in Versions, RemoveStarter(v) \/ Retire(v) \/ Meddle(v)
  PROVE  /\ job'.run = job.run /\ job'.step = job.step /\ job'.seen = job.seen
         /\ job'.held = job.held /\ job'.todo = job.todo
         /\ Candidate' = Candidate /\ Commit' = Commit
         /\ JobInv'
         /\ job.run # None /\ v = VersionOf(job.run) => job'.moved
         /\ ~(job.run # None /\ v = VersionOf(job.run)) => job'.moved = job.moved
         /\ \A w \in Versions \ {v} : tag'[w] = tag[w] /\ release'[w] = release[w] /\ assets'[w] = assets[w]
<1> USE DEF ci, others
<1>t. TypeOK /\ JobInv
  BY DEF IInv
<1>u. UNCHANGED ci /\ Moved(v)
  BY DEF RemoveStarter, Retire, Meddle
<1>1. /\ job'.run = job.run /\ job'.step = job.step /\ job'.seen = job.seen
      /\ job'.held = job.held /\ job'.todo = job.todo
  BY <1>u, <1>t DEF Moved, TypeOK
<1>2. job'.moved = (job.moved \/ (job.run # None /\ VersionOf(job.run) = v))
  BY <1>u, <1>t DEF Moved, TypeOK
<1>3. /\ Candidate' = Candidate /\ Commit' = Commit
      /\ \A s : IsComplete(s, Candidate)' <=> IsComplete(s, Candidate)
  BY <1>1, <1>u, SameJob
<1>4. JobInv'
  BY <1>1, <1>3, <1>t, <1>u DEF JobInv
<1>5. \A w \in Versions \ {v} : tag'[w] = tag[w] /\ release'[w] = release[w] /\ assets'[w] = assets[w]
  <2>1. \A w \in Versions \ {v} : tag'[w] = tag[w]
    BY <1>t DEF RemoveStarter, Retire, Meddle, TypeOK
  <2>2. \A w \in Versions \ {v} : release'[w] = release[w]
    BY <1>t DEF RemoveStarter, Retire, Meddle, TypeOK
  <2>3. \A w \in Versions \ {v} : assets'[w] = assets[w]
    BY <1>t DEF RemoveStarter, Retire, Meddle, TypeOK
  <2> QED
    BY <2>1, <2>2, <2>3
<1>6. job.moved \in BOOLEAN
  BY <1>t DEF TypeOK
<1> QED
  BY <1>1, <1>2, <1>3, <1>4, <1>5, <1>6

(* The last reads and the sight of the job after a change to version v.    *)
LEMMA Seen ==
  ASSUME IInv, NEW v \in Versions, RemoveStarter(v) \/ Retire(v) \/ Meddle(v),
         job.run # None /\ v = VersionOf(job.run) /\ v \notin touched' => SightInv(v)'
  PROVE  UntouchedInv' /\ LastInv'
<1>1. touched \subseteq touched' /\ UNCHANGED <<main, run>>
  BY DEF RemoveStarter, Retire, Meddle, ci, others
<1>2. CASE job.run = None
  BY <1>2, MovedOnly DEF UntouchedInv, LastInv
<1>3. CASE job.run # None /\ v = VersionOf(job.run)
  <2>1. VersionOf(job.run)' = v /\ job'.moved
    BY <1>1, <1>3, MovedOnly DEF VersionOf
  <2>2. LastInv'
    BY <2>1 DEF LastInv
  <2>3. UntouchedInv'
    BY <1>3, <2>1 DEF UntouchedInv
  <2> QED
    BY <2>2, <2>3
<1>4. CASE job.run # None /\ v # VersionOf(job.run)
  <2>2. PICK w \in Versions : w = VersionOf(job.run)
    BY <1>4, Running DEF IInv, TypeOK
  <2>1. VersionOf(job.run)' = w /\ job'.moved = job.moved /\ job'.run = job.run
    BY <1>1, <1>4, <2>2, MovedOnly DEF VersionOf
  <2>3. tag'[w] = tag[w] /\ release'[w] = release[w] /\ assets'[w] = assets[w]
    BY <1>4, <2>2, MovedOnly
  <2>4. w \notin touched => SightInv(w)
    BY <1>4, <2>2 DEF IInv, UntouchedInv
  <2>5. ~job.moved => Confirmed(w)
    BY <1>4, <2>2 DEF IInv, LastInv
  <2>6. SightInv(w) => SightInv(w)'
    BY <2>3, MovedOnly DEF SightInv
  <2>7. Confirmed(w) => Confirmed(w)'
    BY <2>3, MovedOnly DEF Confirmed
  <2> QED
    BY <1>1, <2>1, <2>4, <2>5, <2>6, <2>7 DEF UntouchedInv, LastInv
<1> QED
  BY <1>2, <1>3, <1>4

(* The documented clean-up.                                                *)
LEMMA CleanUps ==
  ASSUME IInv, NEW v \in Versions, RemoveStarter(v) \/ Retire(v)
  PROVE  HubInv' /\ IdInv' /\ JobInv' /\ UntouchedInv' /\ LastInv'
<1> USE DEF ci, others
<1>t. TypeOK /\ IdInv
  BY DEF IInv
<1>j. JobInv' /\ job'.held = job.held
  BY MovedOnly
<1>e. /\ UNCHANGED <<main, run>> /\ approved \subseteq approved' /\ touched' = touched
      /\ \A w \in Versions \ {v} : tag'[w] = tag[w] /\ release'[w] = release[w] /\ assets'[w] = assets[w]
  <2>1. UNCHANGED <<ci, others>>
    BY DEF RemoveStarter, Retire
  <2> QED
    BY <2>1, MovedOnly
<1>c. \A c, n : Content(c, n)' = Content(c, n)
  BY <1>e DEF Content
<1>1. CASE RemoveStarter(v)
  <2>1. PICK a \in assets[v] : a.state = "starter" /\ assets'[v] = assets[v] \ {a}
    BY <1>1, <1>t DEF RemoveStarter, TypeOK
  <2>2. UNCHANGED <<tag, release>>
    BY <1>1 DEF RemoveStarter
  <2>3. \A c : ~IsComplete(assets[v], c)
    BY <2>1 DEF IsComplete, AreOf
  <2>4. ASSUME v \notin touched PROVE Whole(v)'
    <3>1. Whole(v)
      BY <2>4 DEF IInv, HubInv
    <3> QED
      BY <3>1, <1>e, <1>c, <2>1, <2>2, <2>3 DEF Whole, NamesOf, VersionOf
  <2>5. HubInv'
    BY <2>4, <1>e, Elsewhere
  <2>6. IdInv'
    <3>1. \A w \in Versions : assets'[w] \subseteq assets[w]
      BY <2>1, <1>e
    <3> QED
      BY <3>1, <2>2, <1>j, <1>t DEF IdInv
  <2>7. UntouchedInv' /\ LastInv'
    <3>1. ASSUME job.run # None, v = VersionOf(job.run), v \notin touched' PROVE SightInv(v)'
      <4>1. SightInv(v)
        BY <3>1, <1>e DEF IInv, UntouchedInv
      <4>2. job.step \in {"verify"} \cup Final => IsComplete(job.held, Candidate)
        BY DEF IInv, JobInv
      <4>3. ~(job.step \in {"verify"} \cup Final /\ release[v] # None)
        BY <4>1, <4>2, <2>3 DEF SightInv
      <4> QED
        BY <4>1, <4>3, <2>2, <1>1, MovedOnly DEF SightInv
    <3> QED
      BY <3>1, <1>1, Seen
  <2> QED
    BY <2>5, <2>6, <2>7, <1>j
<1>2. CASE Retire(v)
  <2>1. tag'[v] = 0 /\ release'[v] = None /\ assets'[v] = {}
    BY <1>2, <1>t DEF Retire, TypeOK
  <2>2. HubInv'
    <3>1. Whole(v)'
      BY <2>1 DEF Whole
    <3> QED
      BY <3>1, <1>e, Elsewhere
  <2>3. IdInv'
    BY <2>1, <1>e, <1>j, <1>t DEF IdInv
  <2>4. UntouchedInv' /\ LastInv'
    <3>1. SightInv(v)'
      BY <2>1, MovedOnly DEF SightInv
    <3> QED
      BY <3>1, <1>2, Seen
  <2> QED
    BY <2>2, <2>3, <2>4, <1>j
<1> QED
  BY <1>1, <1>2

(* Any other change marks the version as touched.                          *)
LEMMA Meddles ==
  ASSUME IInv, NEW v \in Versions, Meddle(v)
  PROVE  HubInv' /\ IdInv' /\ JobInv' /\ UntouchedInv' /\ LastInv'
<1> USE DEF ci, others
<1>t. TypeOK /\ IdInv
  BY DEF IInv
<1>j. JobInv' /\ job'.held = job.held
  BY MovedOnly
<1>e. /\ UNCHANGED <<main, run, approved>> /\ touched' = touched \cup {v} /\ CanGive
      /\ \A w \in Versions \ {v} : tag'[w] = tag[w] /\ release'[w] = release[w] /\ assets'[w] = assets[w]
  BY MovedOnly DEF Meddle
<1>1. HubInv'
  BY <1>e, Elsewhere
<1>2. UntouchedInv' /\ LastInv'
  <2>1. v \in touched'
    BY <1>e
  <2> QED
    BY <2>1, Seen
<1>3. IdInv'
  <2>1. \A w \in Versions : \A a \in assets'[w] : (a \in assets[w]) \/ (a.id = NewId /\ w = v)
    BY <1>e, <1>t DEF Meddle, TypeOK
  <2>2. \A a, b \in assets'[v] : a.id = NewId /\ b.id = NewId => a = b
    <3>1. \A a \in assets[v] : a.id # NewId
      BY <1>e, Fresh
    <3> QED
      BY <3>1, <1>t DEF Meddle, TypeOK
  <2>3. /\ \A w \in Versions : \A a \in assets[w] : a.id # NewId
        /\ \A a \in job.held : a.id # NewId
    BY <1>e, Fresh
  <2>4. \A w \in Versions : release'[w] = None => assets'[w] = {}
    <3>1. release'[v] = None => assets'[v] = {}
      <4>1. CASE /\ release[v] # None
                 /\ \E m \in {None, release[v].marker}, d \in BOOLEAN :
                      release' = [release EXCEPT ![v].marker = m, ![v].draft = d]
        <5>1. PICK m \in {None, release[v].marker}, d \in BOOLEAN :
                release' = [release EXCEPT ![v].marker = m, ![v].draft = d]
          BY <4>1
        <5>2. release[v] \in Releases
          BY <4>1, <1>t DEF TypeOK
        <5>3. release'[v] = [[release[v] EXCEPT !.marker = m] EXCEPT !.draft = d]
          BY <5>1, <1>t DEF TypeOK
        <5>4. [[release[v] EXCEPT !.marker = m] EXCEPT !.draft = d] \in Releases
          BY <5>2 DEF Releases
        <5> QED
          BY <5>3, <5>4, ReleasesAssumption
      <4>2. CASE UNCHANGED release
        BY <4>2, <1>t DEF Meddle, IdInv, TypeOK
      <4>3. CASE release' = [release EXCEPT ![v] = None] /\ assets' = [assets EXCEPT ![v] = {}]
        BY <4>3, <1>t DEF TypeOK
      <4>4. CASE release[v] = None /\ UNCHANGED assets
        BY <4>4, <1>t DEF IdInv
      <4> QED
        BY <4>1, <4>2, <4>3, <4>4 DEF Meddle
    <3> QED
      BY <3>1, <1>e, <1>t DEF IdInv
  <2>5. \A w, x \in Versions : \A a \in assets'[w], b \in assets'[x] : a.id = b.id => a = b
    BY <2>1, <2>2, <2>3, <1>t DEF IdInv
  <2>6. \A w \in Versions : \A a \in assets'[w], b \in job'.held : a.id = b.id => a = b
    BY <2>1, <2>3, <1>j, <1>t DEF IdInv
  <2> QED
    BY <2>4, <2>5, <2>6 DEF IdInv
<1> QED
  BY <1>1, <1>2, <1>3, <1>j

-----------------------------------------------------------------------------
(* Main, the switch, and the jobs before the publication.                  *)
LEMMA Elsewise ==
  ASSUME IInv,
         \/ Land \/ Switch \/ UNCHANGED vars
         \/ \E r \in Runs : \/ Age(r) \/ Build(r) \/ Review(r) \/ StopRun(r) \/ Rerun(r)
                            \/ \E m \in Modes, c \in 1..Len(main) : Resolve(r, m, c)
  PROVE  HubInv' /\ IdInv' /\ JobInv' /\ UntouchedInv' /\ LastInv'
<1>t. TypeOK /\ RunInv
  BY DEF IInv
<1>p. job.run # None => job.run \in Runs /\ step[job.run] = "publishing"
  BY <1>t DEF IInv, JobInv, TypeOK
<1>u. UNCHANGED <<hub, job, others, approved>>
  BY DEF Land, Switch, vars, ci, Age, Build, Review, StopRun, Rerun, Resolve
<1>1. CASE Land
  <2>1. PICK w \in Versions : main' = Append(main, w)
    BY <1>1 DEF Land
  <2>2. \A i \in 1..Len(main) : main'[i] = main[i]
    BY <2>1, <1>t, AppendProperties DEF TypeOK
  <2>3. UNCHANGED <<run, step>>
    BY <1>1 DEF Land
  <2>4. \A r \in Runs : step[r] # "unused" => run'[r] = run[r] /\ main'[run[r].commit] = main[run[r].commit]
    BY <2>2, <2>3, <1>t DEF RunInv
  <2> QED
    BY <1>u, <1>p, <2>3, <2>4, Undisturbed
<1>2. ASSUME NEW r \in Runs, NEW m \in Modes, NEW c \in 1..Len(main), Resolve(r, m, c)
      PROVE  HubInv' /\ IdInv' /\ JobInv' /\ UntouchedInv' /\ LastInv'
  <2>1. step[r] = "unused" /\ UNCHANGED main
    BY <1>2 DEF Resolve
  <2>2. \A q \in Runs \ {r} : run'[q] = run[q] /\ step'[q] = step[q]
    <3>1. \E x : run' = [run EXCEPT ![r] = x]
      BY <1>2 DEF Resolve
    <3>2. \E x : step' = [step EXCEPT ![r] = x]
      BY <1>2 DEF Resolve
    <3> QED
      BY <3>1, <3>2, <1>t DEF TypeOK
  <2> QED
    BY <1>u, <1>p, <2>1, <2>2, Undisturbed
<1>3. ASSUME UNCHANGED <<main, run>>, job.run # None => step'[job.run] = "publishing"
      PROVE  HubInv' /\ IdInv' /\ JobInv' /\ UntouchedInv' /\ LastInv'
  BY <1>3, <1>u, Undisturbed
<1>4. ASSUME NEW r \in Runs, Age(r) \/ Build(r) \/ Review(r) \/ StopRun(r) \/ Rerun(r)
      PROVE  HubInv' /\ IdInv' /\ JobInv' /\ UntouchedInv' /\ LastInv'
  <2>1. step[r] # "publishing" \/ UNCHANGED step
    BY <1>4 DEF Age, Build, Review, StopRun, Rerun
  <2>2. \A q \in Runs \ {r} : step'[q] = step[q]
    BY <1>4, <1>t DEF Age, Build, Review, StopRun, Rerun, TypeOK
  <2>3. UNCHANGED <<main, run>>
    BY <1>4 DEF Age, Build, Review, StopRun, Rerun
  <2> QED
    BY <1>3, <1>p, <2>1, <2>2, <2>3
<1>5. CASE Switch \/ UNCHANGED vars
  BY <1>5, <1>3, <1>p DEF Switch, vars, ci
<1> QED
  BY <1>1, <1>2, <1>4, <1>5

(* Every step keeps the types.                                             *)
LEMMA TypeStep ==
  ASSUME IInv, [Next]_vars
  PROVE  TypeOK'
<1>1. ASSUME NEW r \in Runs, job.run = r, PublishCandidate(r, VersionOf(r)) PROVE TypeOK'
  <2>1. VersionOf(r) \in Versions
    BY <1>1, Running
  <2> QED
    BY <1>1, <2>1, TypeOfReads, TypeOfWrites DEF PublishCandidate
<1>2. ASSUME NEW r \in Runs, Fail(r) PROVE TypeOK'
  <2>1. job.run = r
    BY <1>2 DEF Fail
  <2>2. 1 \in Versions
    BY BoundsAssumption DEF Versions
  <2> QED
    BY <1>2, <2>1, <2>2, TypeOfReads
<1>3. ASSUME NEW r \in Runs, Begin(r) PROVE TypeOK'
  <2>1. job' \in JobType
    BY <1>3, IdleTyped DEF Begin, JobType, JobSteps
  <2> QED
    BY <1>3, <2>1 DEF IInv, TypeOK, JobType, Begin, Steps, hub, others
<1>4. CASE UNCHANGED vars
  BY <1>4 DEF vars, ci, hub, others, IInv, TypeOK
<1> QED
  BY <1>1, <1>2, <1>3, <1>4, TypeOfRuns, TypeOfOthers DEF Next

(* Every step keeps the invariant.                                         *)
LEMMA Inductive == IInv /\ [Next]_vars => IInv'
<1> SUFFICES ASSUME IInv, [Next]_vars PROVE IInv'
  OBVIOUS
<1>1. TypeOK' /\ RunInv'
  BY TypeStep, RunsStep
<1>2. HubInv' /\ IdInv' /\ JobInv' /\ UntouchedInv' /\ LastInv'
  <2>1. ASSUME NEW r \in Runs, job.run = r, PublishCandidate(r, VersionOf(r))
        PROVE  HubInv' /\ IdInv' /\ JobInv' /\ UntouchedInv' /\ LastInv'
    <3>1. VersionOf(r) \in Versions
      BY <2>1, Running
    <3> QED
      BY <2>1, <3>1, Reads, Tags, Drafts, Uploads, Publishes, StartOrEnd DEF PublishCandidate
  <2>2. ASSUME NEW r \in Runs, Begin(r) \/ Fail(r)
        PROVE  HubInv' /\ IdInv' /\ JobInv' /\ UntouchedInv' /\ LastInv'
    BY <2>2, StartOrEnd
  <2>3. ASSUME NEW v \in Versions, RemoveStarter(v) \/ Retire(v) \/ Meddle(v)
        PROVE  HubInv' /\ IdInv' /\ JobInv' /\ UntouchedInv' /\ LastInv'
    BY <2>3, CleanUps, Meddles
  <2> QED
    BY <2>1, <2>2, <2>3, Elsewise DEF Next
<1> QED
  BY <1>1, <1>2 DEF IInv

(* The invariant of every behaviour.                                       *)
LEMMA Invariant == Spec => []IInv
BY Initially, Inductive, PTL DEF Spec

-----------------------------------------------------------------------------
(* The state keeps its shapes.                                             *)
THEOREM TypeCorrect == Spec => []TypeOK
<1>1. IInv => TypeOK
  BY DEF IInv
<1> QED
  BY <1>1, Invariant, PTL

(* Whatever number of jobs die at whatever call, and whichever candidates  *)
(* of a version are approved: a release that only the pipeline and the     *)
(* documented clean-up have touched carries one reviewed and approved      *)
(* candidate, and is complete once it is public.                           *)
THEOREM Sound == Spec => []ReleasesAreWhole
<1>1. ASSUME IInv PROVE ReleasesAreWhole
  <2> SUFFICES ASSUME NEW v \in Versions \ touched
               PROVE  /\ tag[v] # 0 => \E r \in approved : run[r].commit = tag[v] /\ VersionOf(r) = v
                      /\ release[v] # None =>
                           \E r \in approved :
                             LET c == release[v].marker IN
                             /\ run[r].from = c /\ c \in reviewed /\ VersionOf(c) = v
                             /\ tag[v] = run[c].commit
                             /\ NamesOf(assets[v]) \subseteq Names
                             /\ \A a \in assets[v] : a.bytes = Content(c, a.name)
                             /\ ~release[v].draft => IsComplete(assets[v], c)
    BY DEF ReleasesAreWhole
  <2>1. Whole(v)
    BY <1>1 DEF IInv, HubInv
  <2>2. ASSUME release[v] # None
        PROVE  \E r \in approved :
                 LET c == release[v].marker IN
                 /\ run[r].from = c /\ c \in reviewed /\ VersionOf(c) = v
                 /\ tag[v] = run[c].commit
                 /\ NamesOf(assets[v]) \subseteq Names
                 /\ \A a \in assets[v] : a.bytes = Content(c, a.name)
                 /\ ~release[v].draft => IsComplete(assets[v], c)
    <3>1. PICK r \in approved :
             /\ run[r].from = release[v].marker /\ VersionOf(r) = v
             /\ tag[v] = run[r].commit
             /\ NamesOf(assets[v]) \subseteq Names
             /\ \A a \in assets[v] : a.bytes = Content(run[r].from, a.name)
             /\ ~release[v].draft => IsComplete(assets[v], run[r].from)
      BY <2>1, <2>2 DEF Whole
    <3>2. r \in Runs /\ step[r] # "unused" /\ run[r].from \in reviewed
      BY <1>1 DEF IInv, RunInv, TypeOK
    <3>3. run[run[r].from].commit = run[r].commit
      BY <1>1, <3>2 DEF IInv, RunInv
    <3> QED
      BY <3>1, <3>2, <3>3 DEF VersionOf
  <2> QED
    BY <2>1, <2>2 DEF Whole
<1> QED
  BY <1>1, Invariant, PTL

(* Whatever others have done before the job's last reads, what the job     *)
(* makes public is exactly the approved candidate at its commit, unless    *)
(* somebody changes it after those reads began.                            *)
THEOREM Exact == Spec => PublishedAsVerified
<1>1. ASSUME IInv, [Next]_vars PROVE [PublishesTheCandidate]_vars
  <2> SUFFICES ASSUME NEW v \in Versions,
                      release[v] # None, release[v].draft, release'[v] # None, ~release'[v].draft,
                      changes' = changes, ~job.moved
               PROVE  /\ job.run \in approved /\ Candidate \in reviewed /\ VersionOf(job.run) = v
                      /\ release'[v].marker = Candidate
                      /\ tag'[v] = Commit
                      /\ IsComplete(assets'[v], Candidate)
    BY DEF PublishesTheCandidate
  <2>t. TypeOK
    BY <1>1 DEF IInv
  <2>1. release'[v] # release[v]
    OBVIOUS
  <2>2. ASSUME NEW w \in Versions PROVE ~RemoveStarter(w) /\ ~Retire(w) /\ ~Meddle(w)
    <3>1. ~RemoveStarter(w)
      BY <2>1 DEF RemoveStarter
    <3>2. ~Retire(w)
      BY <2>1, <2>t DEF Retire, TypeOK
    <3>3. ~Meddle(w)
      BY <2>t DEF Meddle, TypeOK
    <3> QED
      BY <3>1, <3>2, <3>3
  <2>3. PICK r \in Runs : job.run = r /\ (CreateDraft(r, VersionOf(r)) \/ Publish(r, VersionOf(r)))
    BY <1>1, <2>1, <2>2 DEF Next, vars, hub, Land, Switch, Age, Build, Review, StopRun, Rerun, Begin, Fail,
       Resolve, PublishCandidate, Look, List, Plan, CreateTag, ConfirmTag, Upload, BreakOff, ReadRelease,
       ReadAssets, Verify, LastRelease, LastAssets, LastTag, Finish
  <2>4. VersionOf(r) = v
    BY <2>1, <2>3, <2>t DEF CreateDraft, Publish, TypeOK
  <2>5. Publish(r, v)
    BY <2>3, <2>4 DEF CreateDraft
  <2>6. r # None /\ r \in approved /\ Candidate \in reviewed /\ Commit # 0
    BY <1>1, <2>3, Running, NoneAssumption
  <2>7. /\ release[v].marker = Candidate /\ assets[v] = job.held /\ tag[v] = Commit
        /\ IsComplete(job.held, Candidate)
    BY <1>1, <2>3, <2>4, <2>5, <2>6 DEF Publish, At, IInv, LastInv, Confirmed, JobInv, Final
  <2>8. release'[v].marker = Candidate /\ tag'[v] = Commit /\ assets' = assets
    <3>1. release[v] \in Releases
      BY <2>t DEF TypeOK
    <3>2. release'[v] = [release[v] EXCEPT !.draft = FALSE]
      BY <2>5, <2>t DEF Publish, TypeOK
    <3>3. release'[v].marker = release[v].marker
      BY <3>1, <3>2 DEF Releases
    <3> QED
      BY <3>3, <2>5, <2>6, <2>7, <2>t DEF Publish, TypeOK
  <2> QED
    BY <2>3, <2>4, <2>6, <2>7, <2>8
<1> QED
  BY <1>1, Invariant, PTL DEF Spec, PublishedAsVerified

(* The pipeline's own steps never move a tag, never change a release but   *)
(* to publish it, and never replace or delete an asset.                    *)
THEOREM Kept == Spec => NothingOverwritten
<1>1. ASSUME IInv, [Next]_vars PROVE [Preserves]_vars
  <2>t. TypeOK
    BY <1>1 DEF IInv
  <2>1. ASSUME UNCHANGED hub PROVE Preserves
    BY <2>1 DEF Preserves, hub
  <2>2. ASSUME NEW v \in Versions, RemoveStarter(v) \/ Retire(v) \/ Meddle(v) PROVE Preserves
    <3>1. job \in JobType
      BY <2>t DEF TypeOK, JobType
    <3>2. \A b : [[job EXCEPT !.moved = b] EXCEPT !.moved = FALSE] = [job EXCEPT !.moved = FALSE]
      BY <3>1 DEF JobType
    <3>3. \E b : job' = [job EXCEPT !.moved = b]
      BY <2>2 DEF RemoveStarter, Retire, Meddle, Moved
    <3>4. Step' = Step
      BY <3>2, <3>3 DEF Step
    <3> QED
      BY <3>4 DEF Preserves
  <2>3. ASSUME NEW r \in Runs, NEW v \in Versions, CreateTag(r, v) \/ CreateDraft(r, v) PROVE Preserves
    BY <2>3, <2>t DEF CreateTag, CreateDraft, Preserves, TypeOK
  <2>4. ASSUME NEW r \in Runs, NEW v \in Versions, Upload(r, v) \/ BreakOff(r, v) PROVE Preserves
    <3>1. UNCHANGED <<tag, release>>
      BY <2>4 DEF Upload, BreakOff
    <3>2. \E x : assets' = [assets EXCEPT ![v] = @ \cup x]
      BY <2>4 DEF Upload, BreakOff
    <3> QED
      BY <3>1, <3>2, <2>t DEF Preserves, TypeOK
  <2>5. ASSUME NEW r \in Runs, NEW v \in Versions, Publish(r, v) PROVE Preserves
    BY <2>5, <2>t DEF Publish, Preserves, TypeOK
  <2>6. ASSUME NEW r \in Runs, job.run = r, PublishCandidate(r, VersionOf(r)) PROVE Preserves
    <3>1. PICK v \in Versions : PublishCandidate(r, v)
      BY <1>1, <2>6, Running
    <3>2. \/ UNCHANGED hub \/ CreateTag(r, v) \/ CreateDraft(r, v) \/ Upload(r, v)
          \/ BreakOff(r, v) \/ Publish(r, v)
      BY <3>1 DEF PublishCandidate, Look, List, Plan, ConfirmTag, ReadRelease, ReadAssets, Verify,
         LastRelease, LastAssets, LastTag, Finish, hub
    <3> QED
      BY <3>2, <2>1, <2>3, <2>4, <2>5
  <2> QED
    BY <1>1, <2>1, <2>2, <2>6 DEF Next, vars, Land, Switch, Age, Build, Review, StopRun, Rerun, Begin,
       Fail, Resolve
<1> QED
  BY <1>1, Invariant, PTL DEF Spec, NothingOverwritten

=============================================================================
