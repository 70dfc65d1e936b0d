------------------------------ MODULE Release ------------------------------
(***************************************************************************)
(* The release pipeline: scripts/release/candidate.mjs, github.mjs,        *)
(* version.mjs and publish.mjs, as .github/workflows/release.yml runs      *)
(* them.  A run builds and seals a candidate at one commit of main, or     *)
(* takes over the candidate of an earlier run (recovery); its review job   *)
(* verifies it; after an approval its publication job creates the tag and  *)
(* a draft, uploads what is missing, reads everything back and publishes.  *)
(*                                                                         *)
(* Publication is a sequence of calls to GitHub.  Each call is a step:     *)
(* between two of them a maintainer may change the tag or the release, and *)
(* the job may die.  A job whose assertion fails, whose call fails or      *)
(* which is killed has the step "failed"; it may be run again.             *)
(*                                                                         *)
(* External, by what the scripts rely on: GitHub refuses a second ref or   *)
(* asset of a name, an asset's bytes never change under its id, a draft is *)
(* found by its tag, and the concurrency group runs one job at a time.     *)
(***************************************************************************)
EXTENDS Naturals, Sequences, FiniteSets

CONSTANTS
  Runs,         \* workflow runs
  Names,        \* what releaseAssets lists: the assets and the provenance
  Stamped,      \* those of them whose bytes name the run that built them
  Extra,        \* a name that no candidate has
  None,
  Ids,          \* the ids GitHub gives to releases and assets
  MaxVersion,   \* bound: versions
  Budgets       \* bounds: how many runs start, how often main is pushed to, up to which
                \* version, and how often others change a release, together in one behaviour

ASSUME NamesAssumption == Stamped \subseteq Names /\ Stamped # {} /\ Extra \notin Names
ASSUME NoneAssumption == None \notin Runs
ASSUME BoundsAssumption == MaxVersion \in Nat \ {0}

VARIABLES
  main,      \* the version in the manifests at each push to main
  enabled,   \* the repository variable RELEASE_PUBLISH_ENABLED
  run,       \* per run: its mode, commit and the run that built its candidate
  step,      \* per run: where its jobs are
  sealed,    \* per run: the candidate it built: is there none, fresh, stale, expired
  reviewed,  \* runs whose first attempt's review job succeeded
  ended,     \* runs whose first attempt is completed
  approved,  \* runs whose publication a maintainer has approved
  tag,       \* per version: the commit its tag names, 0 if there is no tag
  release,   \* per version: the release GitHub keeps under the tag
  assets,    \* per version: the assets of that release
  job,       \* the publication job of the concurrency group: its run, step, reads
  changes,   \* how many changes others have made
  touched    \* versions whose tag or release others have changed

ci == <<main, enabled, run, step, sealed, reviewed, ended, approved>>
hub == <<tag, release, assets>>
others == <<changes, touched>>
vars == <<ci, hub, job, others>>

-----------------------------------------------------------------------------
Versions == 1..MaxVersion
Modes == {"candidate-only", "publish", "recover"}

(* What is in a file: its name, its commit, and the run if it is stamped.  *)
Bytes == [name : Names \cup {Extra}, commit : Nat, by : Runs \cup {None}]
Content(c, n) == [name |-> n, commit |-> run[c].commit, by |-> IF n \in Stamped THEN c ELSE None]

(* An upload that broke off leaves an asset in the state "starter".        *)
Assets == [id : Ids, name : Names \cup {Extra}, bytes : Bytes, state : {"uploaded", "starter"}]
(* `marker` is the first line of the notes: the candidate, or another text.*)
Releases == [id : Ids, draft : BOOLEAN, marker : Runs \cup {None}, target : Nat]
ASSUME ReleasesAssumption == None \notin Releases

(* GitHub uses an id once.  One that is neither in use nor in the job's    *)
(* memory is as good as new.                                               *)
Taken(i) ==
  \/ \E v \in Versions : \/ release[v] # None /\ release[v].id = i
                         \/ \E a \in assets[v] : a.id = i
  \/ \E a \in job.held : a.id = i
  \/ job.seen # None /\ job.seen.id = i

CanGive == \E i \in Ids : ~Taken(i)
NewId == CHOOSE i \in Ids : ~Taken(i)

Idle == [run |-> None, step |-> "idle", seen |-> None, held |-> {}, todo |-> {},
         public |-> FALSE, moved |-> FALSE]

VersionOf(r) == main[run[r].commit]
NamesOf(s) == {a.name : a \in s}

Asset(i, c, n, st) == [id |-> i, name |-> n, bytes |-> Content(c, n), state |-> st]

(* The assets s are files of candidate c, whole, and none twice.           *)
AreOf(s, c) ==
  /\ NamesOf(s) \subseteq Names
  /\ \A a \in s : a.bytes = Content(c, a.name) /\ a.state = "uploaded"
  /\ \A a, b \in s : a.name = b.name => a = b

(* releaseAssets: all of them.                                             *)
IsComplete(s, c) == AreOf(s, c) /\ NamesOf(s) = Names

Init ==
  /\ main = <<1>>
  /\ enabled = FALSE
  /\ run = [r \in Runs |-> [mode |-> "candidate-only", commit |-> 0, from |-> None]]
  /\ step = [r \in Runs |-> "unused"]
  /\ sealed = [r \in Runs |-> "none"]
  /\ reviewed = {} /\ ended = {} /\ approved = {}
  /\ tag = [v \in Versions |-> 0]
  /\ release = [v \in Versions |-> None]
  /\ assets = [v \in Versions |-> {}]
  /\ job = Idle
  /\ changes = 0 /\ touched = {}

Used == Cardinality({r \in Runs : step[r] # "unused"})

Within(runs, pushed, edits) ==
  \E b \in Budgets :
    /\ runs <= b.runs /\ Len(pushed) <= b.pushes /\ edits <= b.changes
    /\ \A i \in 1..Len(pushed) : pushed[i] <= b.versions

-----------------------------------------------------------------------------
(* Main, the operator's switch, and time.                                  *)

Land ==
  /\ \E v \in Versions : Within(Used, Append(main, v), changes) /\ main' = Append(main, v)
  /\ UNCHANGED <<enabled, run, step, sealed, reviewed, ended, approved, hub, job, others>>

Switch ==
  /\ enabled' = ~enabled
  /\ UNCHANGED <<main, run, step, sealed, reviewed, ended, approved, hub, job, others>>

(* Evidence serves a publication for 24 hours; the artifact is kept longer.*)
Age(r) ==
  /\ \/ sealed[r] = "fresh" /\ sealed' = [sealed EXCEPT ![r] = "stale"]
     \/ sealed[r] = "stale" /\ sealed' = [sealed EXCEPT ![r] = "expired"]
  /\ UNCHANGED <<main, enabled, run, step, reviewed, ended, approved, hub, job, others>>

-----------------------------------------------------------------------------
(* Resolving, building and reviewing a candidate.                          *)

(* priorCandidate with `rehearsal`: a completed candidate-only run that    *)
(* succeeded, with its artifact still there.                               *)
Rehearsed(r) ==
  \E q \in Runs \ {r} :
    /\ run[q].mode = "candidate-only" /\ q \in ended /\ q \in reviewed
    /\ sealed[q] \in {"fresh", "stale"}

(* versionSignal over the whole push; a lower version stops the run.       *)
Pushed(c) == c > 1 /\ main[c] > main[c - 1]

(* downloadArtifact, readCandidate, verifyPayload and verifyAttestations:  *)
(* candidate c is there, its files are those that were attested, and its   *)
(* evidence serves a publication.                                          *)
Verifies(c) == sealed[c] = "fresh"

(* priorCandidate without `rehearsal`: the run that built the candidate is *)
(* over and its review succeeded.  A recovery built nothing, so it cannot  *)
(* be recovered from.                                                      *)
Recoverable(q) == q \in ended /\ q \in reviewed /\ Verifies(q)

(* The resolve job of run r, in mode m at commit c.                        *)
Resolve(r, m, c) ==
  /\ step[r] = "unused"
  /\ Within(Used + 1, main, changes)
  /\ \/ c = Len(main)
     \/ /\ Pushed(c)
        /\ m = IF enabled THEN "publish" ELSE "candidate-only"
  /\ m # "candidate-only" => enabled /\ Rehearsed(r)
  /\ IF m = "recover"
       THEN \E q \in Runs \ {r} :
              /\ Recoverable(q)
              /\ run[q].commit <= c
              /\ run' = [run EXCEPT ![r] = [mode |-> m, commit |-> run[q].commit, from |-> q]]
              /\ step' = [step EXCEPT ![r] = "review"]
       ELSE /\ run' = [run EXCEPT ![r] = [mode |-> m, commit |-> c, from |-> r]]
            /\ step' = [step EXCEPT ![r] = "build"]
  /\ UNCHANGED <<main, enabled, sealed, reviewed, ended, approved, hub, job, others>>

(* validate, package, attest and seal: the artifact of this run.           *)
Build(r) ==
  /\ step[r] = "build"
  /\ sealed' = [sealed EXCEPT ![r] = "fresh"]
  /\ step' = [step EXCEPT ![r] = "review"]
  /\ UNCHANGED <<main, enabled, run, reviewed, ended, approved, hub, job, others>>

(* The review job downloads and verifies the candidate; a candidate-only   *)
(* run is then complete, the others wait for a maintainer.                 *)
Review(r) ==
  /\ step[r] = "review"
  /\ Verifies(run[r].from)
  /\ reviewed' = reviewed \cup {r}
  /\ IF run[r].mode = "candidate-only"
       THEN step' = [step EXCEPT ![r] = "done"] /\ ended' = ended \cup {r}
       ELSE step' = [step EXCEPT ![r] = "waiting"] /\ UNCHANGED ended
  /\ UNCHANGED <<main, enabled, run, sealed, approved, hub, job, others>>

(* A job before the publication fails, or the approval is refused.         *)
StopRun(r) ==
  /\ step[r] \in {"build", "review", "waiting"}
  /\ step' = [step EXCEPT ![r] = "failed"]
  /\ ended' = ended \cup {r}
  /\ UNCHANGED <<main, enabled, run, sealed, reviewed, approved, hub, job, others>>

(* "Re-run failed jobs" of a run whose review succeeded: its publication   *)
(* waits for another approval.  A run that failed before is left: its      *)
(* evidence is bound to its attempt, and a new run takes its place.        *)
Rerun(r) ==
  /\ step[r] = "failed" /\ r \in reviewed
  /\ step' = [step EXCEPT ![r] = "waiting"]
  /\ UNCHANGED <<main, enabled, run, sealed, reviewed, ended, approved, hub, job, others>>

(* A maintainer approves, the concurrency group is free, and main() of     *)
(* publish.mjs verifies the candidate and the rehearsal again.             *)
Begin(r) ==
  /\ step[r] = "waiting"
  /\ job.run = None
  /\ enabled /\ Verifies(run[r].from) /\ Rehearsed(r)
  /\ step' = [step EXCEPT ![r] = "publishing"]
  /\ approved' = approved \cup {r}
  /\ job' = [Idle EXCEPT !.run = r, !.step = "look"]
  /\ UNCHANGED <<main, enabled, run, sealed, reviewed, ended, hub, others>>

-----------------------------------------------------------------------------
(* publishCandidate.  `seen` and `held` are the release and the assets the *)
(* job has read, `todo` what it still has to upload, `public` whether the  *)
(* release was published before; v is the version of the job's candidate.  *)

At(r, s) == job.run = r /\ job.step = s

Goto(s) == job' = [job EXCEPT !.step = s]

Candidate == run[job.run].from
Commit == run[job.run].commit

(* Mutant: the notes of an existing draft are not looked at.               *)
AcceptableUnmarked(t, seen, held) ==
  /\ t \in {0, Commit}
  /\ seen = None => held = {}
  /\ seen # None => t = Commit /\ AreOf(held, Candidate) /\ (~seen.draft => NamesOf(held) = Names)

(* checkReleaseState, for the tag's commit t.                              *)
Acceptable(t, seen, held) ==
  /\ t \in {0, Commit}
  /\ seen = None => held = {}
  /\ seen # None =>
       /\ t = Commit
       /\ seen.marker = Candidate
       /\ AreOf(held, Candidate)
       /\ ~seen.draft => NamesOf(held) = Names

Look(r, v) ==
  /\ At(r, "look")
  /\ job' = [job EXCEPT !.step = "list", !.seen = release[v]]
  /\ UNCHANGED <<ci, hub, others>>

(* The list of a release that is gone is an error.  The downloads are part *)
(* of this step: an asset's bytes do not change under its id.              *)
List(r, v) ==
  /\ At(r, "list")
  /\ IF job.seen = None
       THEN job' = [job EXCEPT !.step = "plan", !.held = {}]
       ELSE /\ release[v] # None /\ release[v].id = job.seen.id
            /\ NamesOf(assets[v]) \subseteq Names
            /\ job' = [job EXCEPT !.step = "plan", !.held = assets[v]]
  /\ UNCHANGED <<ci, hub, others>>

Plan(r, v) ==
  /\ At(r, "plan")
  /\ Acceptable(tag[v], job.seen, job.held)
  /\ job' = [job EXCEPT !.step = IF tag[v] = 0 THEN "tag" ELSE "confirm",
                        !.todo = Names \ NamesOf(job.held),
                        !.public = job.seen # None /\ ~job.seen.draft]
  /\ UNCHANGED <<ci, hub, others>>

CreateTag(r, v) ==
  /\ At(r, "tag")
  /\ tag[v] = 0
  /\ tag' = [tag EXCEPT ![v] = Commit]
  /\ Goto("confirm")
  /\ UNCHANGED <<ci, release, assets, others>>

NextUpload(todo) == IF todo = {} THEN "again" ELSE "upload"

ConfirmTag(r, v) ==
  /\ At(r, "confirm")
  /\ tag[v] = Commit
  /\ Goto(IF job.seen = None THEN "draft" ELSE NextUpload(job.todo))
  /\ UNCHANGED <<ci, hub, others>>

(* gh release create --draft --verify-tag --target.                        *)
CreateDraft(r, v) ==
  /\ At(r, "draft")
  /\ release[v] = None /\ tag[v] # 0
  /\ release' = [release EXCEPT ![v] = [id |-> NewId, draft |-> TRUE, marker |-> Candidate,
                                        target |-> Commit]]
  /\ CanGive
  /\ Goto(NextUpload(job.todo))
  /\ UNCHANGED <<ci, tag, assets, others>>

(* Mutant: gh release upload --clobber.                                    *)
UploadClobbers(r, v) ==
  /\ At(r, "upload")
  /\ release[v] # None
  /\ \E n \in job.todo :
       /\ assets' = [assets EXCEPT
            ![v] = {a \in @ : a.name # n} \cup {Asset(NewId, Candidate, n, "uploaded")}]
       /\ job' = [job EXCEPT !.todo = @ \ {n}, !.step = NextUpload(job.todo \ {n})]
  /\ CanGive
  /\ UNCHANGED <<ci, tag, release, others>>

(* gh release upload, without --clobber, one file at a time.               *)
Upload(r, v) ==
  /\ At(r, "upload")
  /\ release[v] # None
  /\ \E n \in job.todo :
       /\ n \notin NamesOf(assets[v])
       /\ assets' = [assets EXCEPT
            ![v] = @ \cup {Asset(NewId, Candidate, n, "uploaded")}]
       /\ job' = [job EXCEPT !.todo = @ \ {n}, !.step = NextUpload(job.todo \ {n})]
  /\ CanGive
  /\ UNCHANGED <<ci, tag, release, others>>

(* The job ends with an error: a call failed or found what it must not     *)
(* find, or GitHub cancelled it or lost its runner.  A call whose answer   *)
(* is lost is the call, and then this.                                     *)
FailJob ==
  /\ step' = [step EXCEPT ![job.run] = "failed"]
  /\ ended' = ended \cup {job.run}
  /\ job' = Idle

Fail(r) ==
  /\ job.run = r
  /\ FailJob
  /\ UNCHANGED <<main, enabled, run, sealed, reviewed, approved, hub, others>>

(* An upload breaks off.                                                   *)
BreakOff(r, v) ==
  /\ At(r, "upload")
  /\ release[v] # None
  /\ \E n \in job.todo \ NamesOf(assets[v]) :
       assets' = [assets EXCEPT ![v] = @ \cup {Asset(NewId, Candidate, n, "starter")}]
  /\ CanGive
  /\ FailJob
  /\ UNCHANGED <<main, enabled, run, sealed, reviewed, approved, tag, release, others>>

(* Everything is read back: the release, its assets, the tag.              *)
ReadRelease(r, v) ==
  /\ At(r, "again")
  /\ release[v] # None
  /\ job' = [job EXCEPT !.step = "relist", !.seen = release[v]]
  /\ UNCHANGED <<ci, hub, others>>

ReadAssets(r, v) ==
  /\ At(r, "relist")
  /\ release[v] # None /\ release[v].id = job.seen.id
  /\ IsComplete(assets[v], Candidate)
  /\ job' = [job EXCEPT !.step = "verify", !.held = assets[v]]
  /\ UNCHANGED <<ci, hub, others>>

(* checkReleaseState again, then verifyDownloaded on what was downloaded.  *)
Verify(r, v) ==
  /\ At(r, "verify")
  /\ Acceptable(tag[v], job.seen, job.held)
  /\ sealed[Candidate] = "fresh"
  /\ Goto("last release")
  /\ UNCHANGED <<ci, hub, others>>

LastRelease(r, v) ==
  /\ At(r, "last release")
  /\ release[v] # None
  /\ release[v].id = job.seen.id /\ release[v].marker = job.seen.marker
  /\ release[v].draft = job.seen.draft
  /\ job' = [job EXCEPT !.step = "last assets", !.moved = FALSE]
  /\ UNCHANGED <<ci, hub, others>>

(* Mutant: the last look compares names only.                              *)
ListedNames(s) == NamesOf(s)

Listed(s) == {[id |-> a.id, name |-> a.name, state |-> a.state] : a \in s}

LastAssets(r, v) ==
  /\ At(r, "last assets")
  /\ release[v] # None /\ release[v].id = job.seen.id
  /\ Listed(assets[v]) = Listed(job.held)
  /\ Goto("last tag")
  /\ UNCHANGED <<ci, hub, others>>

LastTag(r, v) ==
  /\ At(r, "last tag")
  /\ tag[v] = Commit
  /\ Goto(IF job.public THEN "confirm public" ELSE "publish")
  /\ UNCHANGED <<ci, hub, others>>

(* GitHub creates a tag that is missing at the draft's target.             *)
Publish(r, v) ==
  /\ At(r, "publish")
  /\ release[v] # None
  /\ release' = [release EXCEPT ![v].draft = FALSE]
  /\ tag' = [tag EXCEPT ![v] = IF @ = 0 THEN release[v].target ELSE @]
  /\ Goto("confirm public")
  /\ UNCHANGED <<ci, assets, others>>

Finish(r, v) ==
  /\ At(r, "confirm public")
  /\ release[v] # None /\ ~release[v].draft
  /\ step' = [step EXCEPT ![r] = "done"]
  /\ ended' = ended \cup {r}
  /\ job' = Idle
  /\ UNCHANGED <<main, enabled, run, sealed, reviewed, approved, hub, others>>

PublishCandidate(r, v) ==
  \/ Look(r, v) \/ List(r, v) \/ Plan(r, v) \/ CreateTag(r, v) \/ ConfirmTag(r, v)
  \/ CreateDraft(r, v) \/ Upload(r, v) \/ BreakOff(r, v)
  \/ ReadRelease(r, v) \/ ReadAssets(r, v) \/ Verify(r, v)
  \/ LastRelease(r, v) \/ LastAssets(r, v) \/ LastTag(r, v)
  \/ Publish(r, v) \/ Finish(r, v)

-----------------------------------------------------------------------------
(* Other people with write access.                                         *)

(* A change to version v under a job of that version.                      *)
Moved(v) == job' = [job EXCEPT !.moved = @ \/ (job.run # None /\ VersionOf(job.run) = v)]

(* What the documentation asks of an operator: to remove a broken upload,  *)
(* and to retire an unpublished draft with its tag.                        *)
RemoveStarter(v) ==
  /\ \E a \in assets[v] :
       a.state = "starter" /\ assets' = [assets EXCEPT ![v] = @ \ {a}]
  /\ Moved(v)
  /\ UNCHANGED <<ci, tag, release, others>>

Retire(v) ==
  /\ release[v] # None => release[v].draft
  /\ tag[v] # 0
  /\ tag' = [tag EXCEPT ![v] = 0]
  /\ release' = [release EXCEPT ![v] = None]
  /\ assets' = [assets EXCEPT ![v] = {}]
  /\ Moved(v)
  /\ UNCHANGED <<ci, others>>

(* Anything else: the tag moved or deleted, the release deleted, written   *)
(* anew, published or withdrawn, an asset deleted, added or replaced.      *)
Meddle(v) ==
  /\ Within(Used, main, changes + 1)
  /\ changes' = changes + 1
  /\ touched' = touched \cup {v}
  /\ CanGive
  /\ Moved(v)
  /\ \/ /\ \E t \in (0..Len(main)) \ {tag[v]} : tag' = [tag EXCEPT ![v] = t]
        /\ UNCHANGED <<release, assets>>
     \/ /\ release[v] # None
        /\ release' = [release EXCEPT ![v] = None]
        /\ assets' = [assets EXCEPT ![v] = {}]
        /\ UNCHANGED tag
     \/ /\ release[v] = None
        /\ \E d \in BOOLEAN :
             release' = [release EXCEPT ![v] =
               [id |-> NewId, draft |-> d, marker |-> None, target |-> Len(main)]]
        /\ UNCHANGED <<tag, assets>>
     \/ /\ release[v] # None
        /\ \E m \in {None, release[v].marker}, d \in BOOLEAN :
             release' = [release EXCEPT ![v].marker = m, ![v].draft = d]
        /\ UNCHANGED <<tag, assets>>
     \/ /\ \E a \in assets[v] : assets' = [assets EXCEPT ![v] = @ \ {a}]
        /\ UNCHANGED <<tag, release>>
     \/ /\ release[v] # None
        /\ \E n \in Names \cup {Extra} :
             assets' = [assets EXCEPT ![v] = {a \in @ : a.name # n} \cup
               {[id |-> NewId, name |-> n, state |-> "uploaded",
                 bytes |-> [name |-> Extra, commit |-> 0, by |-> None]]}]
        /\ UNCHANGED <<tag, release>>
  /\ UNCHANGED ci

Next ==
  \/ Land \/ Switch
  \/ \E r \in Runs :
       \/ Age(r) \/ Build(r) \/ Review(r) \/ StopRun(r) \/ Rerun(r) \/ Begin(r) \/ Fail(r)
       \/ \E m \in Modes, c \in 1..Len(main) : Resolve(r, m, c)
       \/ job.run = r /\ PublishCandidate(r, VersionOf(r))
  \/ \E v \in Versions : RemoveStarter(v) \/ Retire(v) \/ Meddle(v)

Spec == Init /\ [][Next]_vars

-----------------------------------------------------------------------------
Steps == {"unused", "build", "review", "waiting", "publishing", "failed", "done"}
JobSteps == {"idle", "look", "list", "plan", "tag", "confirm", "draft", "upload", "again", "relist",
             "verify", "last release", "last assets", "last tag", "publish", "confirm public"}

(* The shapes of the state.                                                *)
TypeOK ==
  /\ main \in Seq(Versions) /\ main # <<>>
  /\ enabled \in BOOLEAN
  /\ run \in [Runs -> [mode : Modes, commit : Nat, from : Runs \cup {None}]]
  /\ step \in [Runs -> Steps]
  /\ sealed \in [Runs -> {"none", "fresh", "stale", "expired"}]
  /\ reviewed \subseteq Runs /\ ended \subseteq Runs /\ approved \subseteq Runs
  /\ tag \in [Versions -> Nat]
  /\ release \in [Versions -> Releases \cup {None}]
  /\ assets \in [Versions -> SUBSET Assets]
  /\ job \in [run : Runs \cup {None}, step : JobSteps, seen : Releases \cup {None},
               held : SUBSET Assets, todo : SUBSET Names, public : BOOLEAN, moved : BOOLEAN]
  /\ changes \in Nat /\ touched \subseteq Versions

(* A release that only the pipeline and the documented clean-up have       *)
(* touched carries one candidate that a review verified and a maintainer   *)
(* approved: its tag names the candidate's commit, every asset is one of   *)
(* the candidate's files or a broken upload of one, and once it is public  *)
(* it is complete.  Jobs that die at any call, other candidates of the     *)
(* same version and recoveries included.                                   *)
ReleasesAreWhole ==
  \A v \in Versions \ touched :
    /\ tag[v] # 0 => \E r \in approved : run[r].commit = tag[v] /\ VersionOf(r) = v
    /\ release[v] # None =>
         \E r \in approved :
           LET c == release[v].marker IN
           /\ run[r].from = c /\ c \in reviewed /\ VersionOf(c) = v
           /\ tag[v] = run[c].commit
           /\ NamesOf(assets[v]) \subseteq Names
           /\ \A a \in assets[v] : a.bytes = Content(c, a.name)
           /\ ~release[v].draft => IsComplete(assets[v], c)

(* A step that makes a release public without a change by others: what the *)
(* job published is the approved and reviewed candidate, and all of it.    *)
PublishesTheCandidate ==
  \A v \in Versions :
    /\ release[v] # None /\ release[v].draft
    /\ release'[v] # None /\ ~release'[v].draft
    /\ changes' = changes /\ ~job.moved
    => /\ job.run \in approved /\ Candidate \in reviewed /\ VersionOf(job.run) = v
       /\ release'[v].marker = Candidate
       /\ tag'[v] = Commit
       /\ IsComplete(assets'[v], Candidate)

(* Whatever others have done to the tag, the release or its assets before  *)
(* the job's last reads, or between the verification and those reads: what *)
(* the job makes public is exactly the approved candidate at its commit,   *)
(* unless somebody changes it after the last reads began.                  *)
PublishedAsVerified == [][PublishesTheCandidate]_vars

(* A change of the job's own, which others only mark as moved.             *)
Step == [job EXCEPT !.moved = FALSE]

Preserves ==
  Step' # Step =>
    \A v \in Versions :
      /\ tag[v] # 0 => tag'[v] = tag[v]
      /\ release[v] # None => release'[v] \in {release[v], [release[v] EXCEPT !.draft = FALSE]}
      /\ assets[v] \subseteq assets'[v]

(* The pipeline's own steps never move a tag, never change a release but   *)
(* to publish it, and never replace or delete an asset, whoever made them  *)
(* (docs/github-cicd.md: "never uses --clobber, tag force updates or       *)
(* silent asset deletion").                                                *)
NothingOverwritten == [][Preserves]_vars
=============================================================================
