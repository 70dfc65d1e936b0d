------------------------------ MODULE WorkerBuild ------------------------------
(***************************************************************************)
(* infra/bundler/scripts and patches.mjs: the files a worker is started    *)
(* from.  An installation is what the commands of an operator have left:   *)
(* the published package, the source tree of each pinned commit, its       *)
(* compiled output and the record of the build.  A command is the set of   *)
(* the installations it may leave, those of a kill at any point included;  *)
(* two commands at a time are not considered.                              *)
(***************************************************************************)
EXTENDS Naturals

CONSTANTS
    Pins,        \* revisions of the repository: [version, patches, lock]
    Patched,     \* number of the worker's patched files
    Absent, Torn \* what is not there, what a write left half done

ASSUME PinsAssumption ==
    /\ Patched \in Nat \ {0}
    /\ Pins \subseteq [version : Nat, patches : Nat \ {0}, lock : Nat]

WorkerFiles == 1..Patched
Text(version, patches) == [version |-> version, patches |-> patches]
Published(pin) == Text(pin.version, 0)
Wanted(pin) == Text(pin.version, pin.patches)
Whole(text) == [f \in WorkerFiles |-> text]

(* A file the compiler emitted is told from a missing or torn one.          *)
Emitted == [text : [version : Nat, patches : Nat], linked : BOOLEAN]
ASSUME MarkersAssumption == Absent \notin Emitted /\ Torn \notin Emitted

(* A file after the first k were replaced, with the one under way torn.    *)
Replaced(files, k, new) == [f \in WorkerFiles |-> IF f <= k THEN new[f] ELSE files[f]]
Interrupted(files, new) ==
    {Replaced(files, k, new) : k \in 0..Patched}
    \cup {[Replaced(files, f - 1, new) EXCEPT ![f] = Torn] : f \in {g \in WorkerFiles : files[g] # new[g]}}

(* patchedText(): the pinned original, or exactly that with these patches. *)
Patchable(text, pin) == text \in {Published(pin), Wanted(pin)}

(* prepare.mjs stops at the first file it cannot patch.                    *)
Prepared(files, pin) ==
    {left \in Interrupted(files, Whole(Wanted(pin))) :
        \A f \in WorkerFiles : left[f] # files[f] => \A g \in 1..f : Patchable(files[g], pin)}
CanPrepare(files, pin) == \A f \in WorkerFiles : Patchable(files[f], pin)

Installs(pin) == {Absent, [version |-> pin.version, files |-> Whole(Published(pin))]}
Clean(pin) ==
    [pin |-> pin, package |-> Absent, manifest |-> Absent,
     source |-> [v \in {p.version : p \in Pins} |-> Absent],
     compiled |-> [v \in {p.version : p \in Pins} |-> Whole(Absent)]]

Here(i) == i.package # Absent /\ i.package.version = i.pin.version

(* npm ci removes the package before it unpacks the locked one.            *)
NpmCi(i) == {[i EXCEPT !.package = p] : p \in Installs(i.pin)}

PrepareWorker(i) ==
    IF Here(i) THEN {[i EXCEPT !.package.files = files] : files \in Prepared(i.package.files, i.pin)} ELSE {i}

(* fetch-source.mjs: a checked archive unpacked over what is there, then   *)
(* prepare --source.                                                       *)
FetchSource(i) ==
    LET v == i.pin.version
        before == IF i.source[v] = Absent THEN Whole(Absent) ELSE i.source[v]
        after == Whole(Published(i.pin))
    IN {[i EXCEPT !.source[v] = files] : files \in Interrupted(before, after) \cup Prepared(after, i.pin)}

(* The compiler emits, then tsc-alias rewrites the imports in place.       *)
Compiled(files, linked) == [f \in WorkerFiles |-> [text |-> files[f], linked |-> linked]]
Compilations(old, files) ==
    Interrupted(old, Whole(Absent))
    \cup Interrupted(Whole(Absent), Compiled(files, FALSE))
    \cup Interrupted(Compiled(files, FALSE), Compiled(files, TRUE))

(* build-source.mjs: prepare --source, the contracts compared with the     *)
(* package's, the output removed and compiled anew, its inventory recorded *)
(* last.                                                                   *)
BuildSource(i) ==
    LET v == i.pin.version
        files == Whole(Wanted(i.pin))
        built == [i EXCEPT !.source[v] = files, !.compiled[v] = Compiled(files, TRUE)]
        record == [version |-> v, lock |-> i.pin.lock, files |-> Compiled(files, TRUE)]
    IN IF i.source[v] = Absent \/ ~Here(i) THEN {i}
       ELSE {[i EXCEPT !.source[v] = left] : left \in Prepared(i.source[v], i.pin)}
            \cup (IF CanPrepare(i.source[v], i.pin)
                  THEN {[i EXCEPT !.source[v] = files, !.compiled[v] = output] :
                           output \in Compilations(i.compiled[v], files)}
                       \cup {[built EXCEPT !.manifest = m] : m \in {Torn, record}}
                  ELSE {})

Update(i) == {[i EXCEPT !.pin = pin] : pin \in Pins}

AfterCommand(i) == NpmCi(i) \cup PrepareWorker(i) \cup FetchSource(i) \cup BuildSource(i) \cup Update(i)
-------------------------------------------------------------------------------
(* Mutant: the record of the build is believed. *)
StartsFromBelieved(i, build) ==
    /\ Here(i)
    /\ i.package.files = Whole(Wanted(i.pin))
    /\ build = "source" =>
         /\ i.manifest \notin {Absent, Torn}
         /\ i.manifest.version = i.pin.version /\ i.manifest.lock = i.pin.lock

(* What startService() checks of the installation.                         *)
StartsFrom(i, build) ==
    /\ Here(i)
    /\ i.package.files = Whole(Wanted(i.pin))
    /\ build = "source" =>
         /\ i.manifest \notin {Absent, Torn}
         /\ i.manifest.version = i.pin.version /\ i.manifest.lock = i.pin.lock
         /\ \A f \in DOMAIN i.manifest.files : i.compiled[i.pin.version][f] = i.manifest.files[f]

(* The files the worker runs, a compiled one as its text if it is linked.  *)
WorkerCode(i, build) ==
    IF build = "package" THEN i.package.files
    ELSE [f \in WorkerFiles |->
             LET file == i.compiled[i.pin.version][f]
             IN IF file # Absent /\ file # Torn /\ file.linked THEN file.text ELSE Torn]
===============================================================================
