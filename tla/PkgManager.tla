------------------------------ MODULE PkgManager ------------------------------
(***************************************************************************)
(* cmd/fuse/pkg.go (fuse add, remove, update) and                          *)
(* compiler/driver/pkg_integration.go (ResolveForSource): processes that   *)
(* share the fuse.toml and the fuse.lock of one project.  Each file is     *)
(* replaced by a rename, so one write is atomic, but a command reads and   *)
(* writes in several steps and the two files change one after the other.   *)
(***************************************************************************)
EXTENDS Naturals, FiniteSets

CONSTANTS Shells,       \* concurrent fuse processes
          DepNames,     \* dependency names
          MaxVersion,   \* [package].version is bumped at most to this
          Faults        \* may processes die, and writes and removals fail?

ASSUME PkgManagerAssumption == MaxVersion \in Nat /\ Faults \in BOOLEAN

VARIABLES toml,         \* fuse.toml: the package version and its dependencies
          lock,         \* fuse.lock
          stage,        \* stage[p]: where process p is
          cmd,          \* cmd[p]: the command p runs
          seen,         \* seen[p]: the manifest p parsed
          answer,       \* the Lockfile that the ResolveForSource of the last step
                        \*   returned, and the manifest it was returned for
          clean         \* no commands have overlapped and none has failed

commandVars == <<toml, lock, stage, cmd, seen, answer, clean>>

\* How a dependency is declared: with a version, a path, both or not at all.
Kinds == {"none", "version", "path", "both"}
HasPath(k) == k \in {"path", "both"}
HasVersion(k) == k \in {"version", "both"}

Manifest == [version : 0 .. MaxVersion, deps : [DepNames -> Kinds]]
Empty == [version |-> 0, deps |-> [n \in DepNames |-> "none"]]
NoLock == [is |-> "none"]
NoAnswer == [is |-> "none"]
Answer(lk, m) == [is |-> "answer", lock |-> lk, for |-> m]

\* The lockfile of a manifest: its root, and one crate per dependency with a
\* path (appendPathDeps).  The registry is empty, so it adds no crate.
ResolvedLock(m) ==
  [is |-> "lock", root |-> m.version, crates |-> {n \in DepNames : HasPath(m.deps[n])}]

\* The resolver fails on the empty registry as soon as one dependency has a
\* version; that error is forgiven when every dependency has a path too.
Resolvable(m) ==
  \/ \A n \in DepNames : ~HasVersion(m.deps[n])
  \/ \A n \in DepNames : m.deps[n] # "none" => HasPath(m.deps[n])

CommandInit ==
  /\ toml = Empty
  /\ lock = NoLock
  /\ stage = [p \in Shells |-> "idle"]
  /\ cmd = [p \in Shells |-> [do |-> "none"]]
  /\ seen = [p \in Shells |-> Empty]
  /\ answer = NoAnswer
  /\ clean = TRUE

Quiet == \A p \in Shells : stage[p] = "idle"
Smooth == UNCHANGED clean
Silent == answer' = NoAnswer
Fault  == Faults /\ clean' = FALSE

GoOn(p, l) == stage' = [stage EXCEPT ![p] = l] /\ UNCHANGED <<cmd, seen>>

\* What the process has read is not used any more.
Forget(p, l) ==
  /\ stage' = [stage EXCEPT ![p] = l]
  /\ cmd' = [cmd EXCEPT ![p] = [do |-> "none"]]
  /\ seen' = [seen EXCEPT ![p] = Empty]

Exit(p) == Forget(p, "idle")

Begin(p, l, c, m) ==
  /\ stage[p] = "idle"
  /\ cmd' = [cmd EXCEPT ![p] = c]
  /\ seen' = [seen EXCEPT ![p] = m]
  /\ Silent
  /\ stage' = [stage EXCEPT ![p] = l]
  /\ clean' = (clean /\ Quiet)
  /\ UNCHANGED <<toml, lock>>

-----------------------------------------------------------------------------
(* cmd/fuse/pkg.go *)

\* runPkgAdd up to writeManifest: the manifest is loaded.
RunPkgAdd(p) ==
  \E n \in DepNames, b \in BOOLEAN :
    Begin(p, "edit", [do |-> "add", name |-> n, path |-> b], toml)

\* runPkgRemove: a name that is not a dependency is an error.
RunPkgRemove(p) ==
  \E n \in DepNames :
    /\ toml.deps[n] # "none"
    /\ Begin(p, "edit", [do |-> "remove", name |-> n], toml)

\* runPkgUpdate goes straight to removing the lockfile.
RunPkgUpdate(p) == Begin(p, "unlock", [do |-> "none"], Empty)

\* The Dep that add leaves: a new one has a version or a path, an existing one
\* has its version set in either case.
AddedDep(old, path) ==
  IF ~path THEN "version" ELSE IF old = "none" THEN "path" ELSE "both"

Edited(m, c) ==
  [m EXCEPT !.deps[c.name] = IF c.do = "add" THEN AddedDep(@, c.path) ELSE "none"]

\* writeManifest renders what this process loaded, edited, over whatever is
\* on disk by now.  A failed write ends the command.
WriteManifest(p) ==
  /\ stage[p] = "edit"
  /\ \/ toml' = Edited(seen[p], cmd[p]) /\ Forget(p, "unlock") /\ Smooth
     \/ Fault /\ Exit(p) /\ UNCHANGED toml
  /\ Silent /\ UNCHANGED lock

\* Mutation of RemoveLock: the lockfile is kept.
KeepLock(p) ==
  /\ stage[p] = "unlock"
  /\ Exit(p) /\ Silent
  /\ UNCHANGED <<toml, lock, clean>>

\* os.Remove of fuse.lock; add and remove ignore its error.
RemoveLock(p) ==
  /\ stage[p] = "unlock"
  /\ \/ lock' = NoLock /\ Smooth
     \/ Fault /\ UNCHANGED lock
  /\ Exit(p) /\ Silent
  /\ UNCHANGED toml

-----------------------------------------------------------------------------
(* compiler/driver/pkg_integration.go *)

\* ResolveForSource reads and parses the manifest ...
ReadManifest(p) == Begin(p, "readlock", [do |-> "build"], toml)

Report(p, lk) == answer' = Answer(lk, seen[p])

\* ... then the lockfile, which is taken as it is when it names this package
\* and version.  Otherwise --offline gives up.
ReadLock(p) ==
  LET accept == lock # NoLock /\ lock.root = seen[p].version
  IN  /\ stage[p] = "readlock"
      /\ \/ accept /\ Report(p, lock) /\ Exit(p)
         \/ ~accept /\ (GoOn(p, "resolve") \/ Exit(p)) /\ Silent
      /\ UNCHANGED <<toml, lock, clean>>

\* Mutation of WriteLock: the root is read from disk again.
WriteLockRereadsRoot(p) ==
  /\ stage[p] = "resolve"
  /\ lock' = [ResolvedLock(seen[p]) EXCEPT !.root = toml.version]
  /\ Report(p, lock')
  /\ Exit(p)
  /\ UNCHANGED <<toml, clean>>

\* The manifest it read is resolved and written as the lockfile.  A failed
\* write is an error, except after the forgiven resolver error.
WriteLock(p) ==
  LET lk == ResolvedLock(seen[p])
  IN  /\ stage[p] = "resolve"
      /\ \/ /\ Resolvable(seen[p])
            /\ lock' = lk
            /\ Report(p, lk)
            /\ Smooth
         \/ /\ Fault /\ Resolvable(seen[p])
            /\ \E n \in DepNames : HasVersion(seen[p].deps[n])
            /\ Report(p, lk)
            /\ UNCHANGED lock
         \/ /\ (~Resolvable(seen[p]) /\ Smooth) \/ Fault
            /\ Silent /\ UNCHANGED lock
      /\ Exit(p)
      /\ UNCHANGED toml

-----------------------------------------------------------------------------

\* The user edits [package].version, up or back down.
SetVersion ==
  /\ \E v \in 0 .. MaxVersion :
       v # toml.version /\ toml' = [toml EXCEPT !.version = v]
  /\ Silent /\ UNCHANGED <<lock, stage, cmd, seen, clean>>

\* A process dies between two of its steps; only temporary files are left.
KillCommand(p) ==
  /\ Fault
  /\ stage[p] # "idle"
  /\ Exit(p) /\ Silent
  /\ UNCHANGED <<toml, lock>>

CommandNext ==
  \/ SetVersion
  \/ \E p \in Shells :
       \/ RunPkgAdd(p) \/ RunPkgRemove(p) \/ RunPkgUpdate(p)
       \/ WriteManifest(p) \/ RemoveLock(p)
       \/ ReadManifest(p) \/ ReadLock(p) \/ WriteLock(p)
       \/ KillCommand(p)

CommandSpec == CommandInit /\ [][CommandNext]_commandVars

-----------------------------------------------------------------------------
(* Properties *)

\* runPkgAdd: "If fuse.lock exists it is invalidated so the next build
\* re-resolves".  When no command is running, a lockfile the next build would
\* accept lists exactly the dependencies fuse.toml declares.
LockMatchesManifest ==
  Quiet /\ lock # NoLock /\ lock.root = toml.version => lock = ResolvedLock(toml)

\* Commands that ran one at a time and did not fail keep that promise, and each
\* build goes on with the resolution of the manifest it read, also when it took
\* the lockfile of an earlier build, after any sequence of add, remove, update
\* and version changes.
CleanCommandsKeepTheLock ==
  clean =>
    /\ LockMatchesManifest
    /\ answer # NoAnswer => answer.lock = ResolvedLock(answer.for)
=============================================================================
