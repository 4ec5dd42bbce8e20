----------------------------- MODULE PkgFilesProofs -----------------------------
(***************************************************************************)
(* Processes that share files: the fetcher's cache directory, and the      *)
(* fuse.toml and fuse.lock of a project.  Both for any number of           *)
(* processes.                                                              *)
(***************************************************************************)
EXTENDS MCPkgManager, Fetcher, TLAPS

-----------------------------------------------------------------------------
(* compiler/pkg/fetcher.go *)

\* Type correctness of the variables the arguments below speak of.
FetchTypes ==
  /\ entry \in [Digests -> {"absent", "good", "bad"}]
  /\ pc \in [Procs -> {"idle", "heal", "fetch", "verify", "temp", "rename",
                       "returned", "failed"}]
  /\ want \in [Procs -> Digests]
  /\ bytes \in [Procs -> {"none", "good", "bad"}]

\* Bytes that got past the digest gate are the artifact's.
PastTheGate == \A p \in Procs : pc[p] \in {"temp", "rename"} => bytes[p] = "good"

SafeInv == FetchTypes /\ PastTheGate /\ ReturnedIsNeverCorrupt

\* The first calls find what the directory holds at first.
LEMMA SafeInit == FetchInit => SafeInv
  BY FetcherAssumption DEF FetchInit, SafeInv, FetchTypes, PastTheGate, ReturnedIsNeverCorrupt, Returned

\* One step per action of Fetch, Crash and Retry.
LEMMA SafeNext == SafeInv /\ [FetchNext]_fetchVars => SafeInv'
<1> USE DEF SafeInv, FetchTypes, PastTheGate, ReturnedIsNeverCorrupt, Returned, Goto
<1> SUFFICES ASSUME SafeInv, [FetchNext]_fetchVars PROVE SafeInv'
  OBVIOUS
<1>1. ASSUME NEW p \in Procs, Lookup(p) PROVE SafeInv'
  BY <1>1 DEF Lookup
<1>2. ASSUME NEW p \in Procs, RemoveMismatch(p) PROVE SafeInv'
  BY <1>2 DEF RemoveMismatch
<1>3. ASSUME NEW p \in Procs, Read(p) PROVE SafeInv'
  BY <1>3 DEF Read
<1>4. ASSUME NEW p \in Procs, Verify(p) PROVE SafeInv'
  BY <1>4 DEF Verify
<1>5. ASSUME NEW p \in Procs, WriteTemp(p) PROVE SafeInv'
  BY <1>5 DEF WriteTemp
<1>6. ASSUME NEW p \in Procs, Rename(p) PROVE SafeInv'
  BY <1>6 DEF Rename
<1>7. ASSUME NEW p \in Procs, Crash(p) PROVE SafeInv'
  BY <1>7 DEF Crash
<1>8. ASSUME NEW p \in Procs, Retry(p) PROVE SafeInv'
  BY <1>8 DEF Retry
<1>9. CASE UNCHANGED fetchVars
  BY <1>9 DEF fetchVars
<1>10. QED
  BY <1>1, <1>2, <1>3, <1>4, <1>5, <1>6, <1>7, <1>8, <1>9 DEF FetchNext, Fetch

\* Fetch: "Integrity is verified before the file reaches the caller": for any
\* number of processes a returned path never names a corrupt file.
THEOREM VerifiedBeforeReturned == FetchSpec => []ReturnedIsNeverCorrupt
<1>1. SafeInv => ReturnedIsNeverCorrupt
  BY DEF SafeInv
<1>2. QED
  BY SafeInit, SafeNext, <1>1, PTL DEF FetchSpec

-----------------------------------------------------------------------------

\* No step of Fetch makes an entry worse: the digest gate and the rename.
THEOREM CorruptionStaysPut == FetchSpec => CorruptionNeverSpreads
<1> DEFINE Step == \A d \in Digests : entry'[d] = "bad" => entry[d] = "bad"
<1>1. SafeInv /\ [FetchNext]_fetchVars => [Step]_fetchVars
  <2> SUFFICES ASSUME SafeInv, [FetchNext]_fetchVars PROVE [Step]_fetchVars
    OBVIOUS
  <2> USE DEF SafeInv, FetchTypes, PastTheGate
  <2>1. ASSUME NEW p \in Procs, Rename(p) PROVE Step
    BY <2>1 DEF Rename
  <2>2. ASSUME NEW p \in Procs, RemoveMismatch(p) PROVE Step
    BY <2>2 DEF RemoveMismatch
  <2>3. ASSUME NEW p \in Procs,
               Lookup(p) \/ Read(p) \/ Verify(p) \/ WriteTemp(p) \/ Crash(p) \/ Retry(p)
        PROVE  entry' = entry
    BY <2>3 DEF Lookup, Read, Verify, WriteTemp, Crash, Retry
  <2>4. QED
    BY <2>1, <2>2, <2>3 DEF FetchNext, Fetch
<1>2. QED
  BY SafeInit, SafeNext, <1>1, PTL DEF FetchSpec, CorruptionNeverSpreads

-----------------------------------------------------------------------------

\* Nobody comes to remove an entry that was not corrupt to begin with.
CleanInv ==
  /\ SafeInv
  /\ \A d \in Digests : start[d] # "bad" => entry[d] # "bad"
  /\ \A p \in Procs : pc[p] = "heal" => start[want[p]] = "bad"
  /\ UsableUnlessCorrupt

\* One step per action; RemoveMismatch only concerns entries that were corrupt.
LEMMA CleanNext == CleanInv /\ [FetchNext]_fetchVars => CleanInv'
<1> SUFFICES ASSUME CleanInv, [FetchNext]_fetchVars PROVE CleanInv'
  OBVIOUS
<1>1. SafeInv'
  BY SafeNext DEF CleanInv
<1> USE DEF CleanInv, SafeInv, FetchTypes, PastTheGate, UsableUnlessCorrupt, Returned, Goto
<1>2. ASSUME NEW p \in Procs, Lookup(p) PROVE CleanInv'
  BY <1>1, <1>2 DEF Lookup
<1>3. ASSUME NEW p \in Procs, RemoveMismatch(p) PROVE CleanInv'
  BY <1>1, <1>3 DEF RemoveMismatch
<1>4. ASSUME NEW p \in Procs, Read(p) PROVE CleanInv'
  BY <1>1, <1>4 DEF Read
<1>5. ASSUME NEW p \in Procs, Verify(p) PROVE CleanInv'
  BY <1>1, <1>5 DEF Verify
<1>6. ASSUME NEW p \in Procs, WriteTemp(p) PROVE CleanInv'
  BY <1>1, <1>6 DEF WriteTemp
<1>7. ASSUME NEW p \in Procs, Rename(p) PROVE CleanInv'
  BY <1>1, <1>7 DEF Rename
<1>8. ASSUME NEW p \in Procs, Crash(p) PROVE CleanInv'
  BY <1>1, <1>8 DEF Crash
<1>9. ASSUME NEW p \in Procs, Retry(p) PROVE CleanInv'
  BY <1>1, <1>9 DEF Retry
<1>10. CASE UNCHANGED fetchVars
  BY <1>1, <1>10 DEF fetchVars
<1>11. QED
  BY <1>2, <1>3, <1>4, <1>5, <1>6, <1>7, <1>8, <1>9, <1>10 DEF FetchNext, Fetch

\* Fetch: "The caller is safe to unpack the returned path", for every entry
\* that is not corrupt to begin with and any number of processes.
THEOREM UsableWithoutCorruption == FetchSpec => []UsableUnlessCorrupt
<1>1. FetchInit => CleanInv
  BY SafeInit DEF FetchInit, CleanInv, UsableUnlessCorrupt, Returned
<1>2. CleanInv => UsableUnlessCorrupt
  BY DEF CleanInv
<1>3. QED
  BY <1>1, <1>2, CleanNext, PTL DEF FetchSpec

-----------------------------------------------------------------------------
(* fuse.toml and fuse.lock *)

Crates(m) == {n \in DepNames : HasPath(m.deps[n])}
Lockfile == [is : {"lock"}, root : 0 .. MaxVersion, crates : SUBSET DepNames]

CommandTypes ==
  /\ toml \in Manifest
  /\ lock \in {NoLock} \cup Lockfile
  /\ stage \in [Shells -> {"idle", "edit", "unlock", "readlock", "resolve"}]
  /\ cmd \in [Shells -> [do : {"none"}] \cup [do : {"build"}]
                \cup [do : {"add"}, name : DepNames, path : BOOLEAN]
                \cup [do : {"remove"}, name : DepNames]]
  /\ \A p \in Shells : stage[p] = "edit" => cmd[p].do \in {"add", "remove"}
  /\ seen \in [Shells -> Manifest]
  /\ clean \in BOOLEAN

LEMMA ResolvedLockType ==
  ASSUME NEW m \in Manifest
  PROVE  ResolvedLock(m) \in Lockfile /\ ResolvedLock(m).root = m.version
         /\ ResolvedLock(m).crates = Crates(m)
BY DEF ResolvedLock, Lockfile, Crates, Manifest

\* add and remove leave a manifest.
LEMMA EditedType ==
  ASSUME NEW m \in Manifest, NEW c \in [do : {"add"}, name : DepNames, path : BOOLEAN]
                                  \cup [do : {"remove"}, name : DepNames]
  PROVE  Edited(m, c) \in Manifest
<1>1. c.name \in DepNames
  OBVIOUS
<1>2. \A k \in Kinds : \A b : AddedDep(k, b) \in Kinds
  BY DEF AddedDep, Kinds
<1>3. "none" \in Kinds
  BY DEF Kinds
<1> QED
  BY <1>1, <1>2, <1>3 DEF Edited, Manifest

\* What a step does to the process that takes it.
LEMMA CommandTypesStep == CommandTypes /\ [CommandNext]_commandVars => CommandTypes'
<1> SUFFICES ASSUME CommandTypes, [CommandNext]_commandVars PROVE CommandTypes'
  OBVIOUS
<1>0. Empty \in Manifest
  BY PkgManagerAssumption DEF Empty, Manifest, Kinds
<1> USE DEF CommandTypes
<1>a. ASSUME NEW p \in Shells, NEW l \in {"unlock", "readlock"},
             NEW c \in [do : {"none"}] \cup [do : {"build"}], NEW m \in Manifest, Begin(p, l, c, m)
      PROVE  CommandTypes'
  BY <1>a DEF Begin
<1>b. ASSUME NEW p \in Shells,
             NEW c \in [do : {"add"}, name : DepNames, path : BOOLEAN] \cup [do : {"remove"}, name : DepNames],
             Begin(p, "edit", c, toml)
      PROVE  CommandTypes'
  BY <1>b DEF Begin
<1>c. ASSUME NEW p \in Shells, NEW l \in {"idle", "unlock"}, Forget(p, l),
             toml' \in Manifest, lock' \in {NoLock} \cup Lockfile, clean' \in BOOLEAN
      PROVE  CommandTypes'
  BY <1>0, <1>c DEF Forget
<1>1. CASE SetVersion
  <2>1. PICK v \in 0 .. MaxVersion : toml' = [toml EXCEPT !.version = v]
    BY <1>1 DEF SetVersion
  <2>2. toml' \in Manifest
    BY <2>1 DEF Manifest
  <2> QED
    BY <1>1, <2>2 DEF SetVersion
<1>2. ASSUME NEW p \in Shells, RunPkgAdd(p) \/ RunPkgRemove(p) PROVE CommandTypes'
  BY <1>2, <1>b DEF RunPkgAdd, RunPkgRemove
<1>3. ASSUME NEW p \in Shells, RunPkgUpdate(p) \/ ReadManifest(p) PROVE CommandTypes'
  BY <1>3, <1>a, <1>0 DEF RunPkgUpdate, ReadManifest
<1>4. ASSUME NEW p \in Shells, WriteManifest(p) PROVE CommandTypes'
  <2>1. Edited(seen[p], cmd[p]) \in Manifest
    <3>1. cmd[p] \in [do : {"add"}, name : DepNames, path : BOOLEAN] \cup [do : {"remove"}, name : DepNames]
      BY <1>4 DEF WriteManifest
    <3> QED
      BY <3>1, EditedType
  <2> QED
    BY <1>4, <1>c, <2>1 DEF WriteManifest, Smooth, Fault, Exit
<1>5. ASSUME NEW p \in Shells, RemoveLock(p) \/ KillCommand(p) PROVE CommandTypes'
  BY <1>5, <1>c DEF RemoveLock, KillCommand, Smooth, Fault, Exit
<1>6. ASSUME NEW p \in Shells, ReadLock(p) PROVE CommandTypes'
  <2>1. CASE Exit(p)
    BY <1>6, <1>c, <2>1 DEF ReadLock, Exit
  <2>2. CASE GoOn(p, "resolve")
    BY <1>6, <2>2 DEF ReadLock, GoOn
  <2> QED
    BY <1>6, <2>1, <2>2 DEF ReadLock
<1>7. ASSUME NEW p \in Shells, WriteLock(p) PROVE CommandTypes'
  <2>1. lock' \in {NoLock} \cup Lockfile
    BY <1>7, ResolvedLockType DEF WriteLock
  <2> QED
    BY <1>7, <2>1, <1>c DEF WriteLock, Smooth, Fault, Exit
<1>8. CASE UNCHANGED commandVars
  BY <1>8 DEF commandVars
<1> QED
  BY <1>1, <1>2, <1>3, <1>4, <1>5, <1>6, <1>7, <1>8 DEF CommandNext

\* What a build resolves is a fuse.toml there has been, and every lockfile
\* comes from one.
HistoryInv ==
  /\ CommandTypes
  /\ Resolutions(toml) \subseteq resolutions
  /\ \A p \in Shells : stage[p] \in {"readlock", "resolve"} => Resolutions(seen[p]) \subseteq resolutions
  /\ LockIsNeverMixed

LEMMA HistoryStep == HistoryInv /\ [HNext]_<<commandVars, resolutions>> => HistoryInv'
<1> SUFFICES ASSUME HistoryInv, [HNext]_<<commandVars, resolutions>> PROVE HistoryInv'
  OBVIOUS
<1>1. CASE UNCHANGED <<commandVars, resolutions>>
  BY <1>1 DEF commandVars, HistoryInv, CommandTypes, LockIsNeverMixed
<1>2. CASE HNext
  <2>1. CommandTypes /\ CommandTypes' /\ resolutions \subseteq resolutions'
        /\ Resolutions(toml') \subseteq resolutions'
    BY <1>2, CommandTypesStep DEF HNext, HistoryInv
  <2> DEFINE Reading(q) == stage[q] \in {"readlock", "resolve"}
             Kept == \A q \in Shells : Reading(q)' =>
                       seen'[q] = toml \/ (Reading(q) /\ seen'[q] = seen[q])
             Locks == /\ lock' # NoLock => lock' \in resolutions
                      /\ answer' # NoAnswer => answer'.lock \in resolutions
  <2>2. Kept /\ Locks => HistoryInv'
    <3> SUFFICES ASSUME Kept, Locks PROVE HistoryInv'
      OBVIOUS
    <3>1. \A q \in Shells : Reading(q)' => Resolutions(seen'[q]) \subseteq resolutions'
      BY <2>1 DEF HistoryInv
    <3>2. LockIsNeverMixed'
      BY <2>1 DEF LockIsNeverMixed
    <3> QED
      BY <2>1, <3>1, <3>2 DEF HistoryInv, Resolutions
  <2> USE DEF HistoryInv, LockIsNeverMixed
  <2>a. ASSUME NEW p \in Shells, NEW l, NEW c, NEW m, Begin(p, l, c, m),
               l \in {"readlock", "resolve"} => m = toml
        PROVE  Kept /\ Locks
    BY <2>1, <2>a DEF Begin, Silent, CommandTypes
  <2>b. ASSUME NEW p \in Shells, NEW l \in {"idle", "unlock"}, Forget(p, l) PROVE Kept
    BY <2>1, <2>b DEF Forget, CommandTypes
  <2>3. ASSUME SetVersion PROVE Kept /\ Locks
    BY <2>3 DEF SetVersion, Silent
  <2>4. ASSUME NEW p \in Shells, RunPkgAdd(p) \/ RunPkgRemove(p) \/ RunPkgUpdate(p) \/ ReadManifest(p)
        PROVE  Kept /\ Locks
    BY <2>4, <2>a DEF RunPkgAdd, RunPkgRemove, RunPkgUpdate, ReadManifest
  <2>5. ASSUME NEW p \in Shells, WriteManifest(p) \/ RemoveLock(p) \/ KillCommand(p)
        PROVE  Kept /\ Locks
    <3>1. Kept
      BY <2>5, <2>b DEF WriteManifest, RemoveLock, KillCommand, Exit
    <3> QED
      BY <2>5, <3>1 DEF WriteManifest, RemoveLock, KillCommand, Silent
  <2>6. ASSUME NEW p \in Shells, ReadLock(p) PROVE Kept /\ Locks
    <3>1. Kept
      <4>1. CASE GoOn(p, "resolve")
        BY <2>1, <2>6, <4>1 DEF GoOn, ReadLock, CommandTypes
      <4> QED
        BY <2>6, <2>b, <4>1 DEF ReadLock, Exit
    <3> QED
      BY <2>6, <3>1 DEF ReadLock, Report, Answer, Silent
  <2>7. ASSUME NEW p \in Shells, WriteLock(p) PROVE Kept /\ Locks
    <3>1. Kept
      BY <2>7, <2>b DEF WriteLock, Exit
    <3>2. Resolvable(seen[p]) => ResolvedLock(seen[p]) \in resolutions
      BY <2>7 DEF WriteLock, Resolutions
    <3> QED
      BY <2>7, <3>1, <3>2 DEF WriteLock, Report, Answer, Silent
  <2> QED
    BY <1>2, <2>2, <2>3, <2>4, <2>5, <2>6, <2>7 DEF HNext, CommandNext
<1> QED
  BY <1>1, <1>2

LEMMA CommandTypesInit == CommandInit => CommandTypes
<1>1. Empty \in Manifest
  BY PkgManagerAssumption DEF Empty, Manifest, Kinds
<1> QED
  BY <1>1 DEF CommandInit, CommandTypes

\* Whatever interleaves, fails or dies, a lockfile on disk or in the hands of a
\* build is the resolution of one fuse.toml.
THEOREM LockNeverMixed == HSpec => []LockIsNeverMixed
<1>1. HInit => HistoryInv
  <2> SUFFICES ASSUME HInit PROVE HistoryInv
    OBVIOUS
  <2>1. CommandTypes
    BY CommandTypesInit DEF HInit
  <2> QED
    BY <2>1 DEF HInit, CommandInit, HistoryInv, LockIsNeverMixed
<1>2. HistoryInv => LockIsNeverMixed
  BY DEF HistoryInv
<1> QED
  BY <1>1, <1>2, HistoryStep, PTL DEF HSpec

-----------------------------------------------------------------------------
(* Commands that run one at a time *)

\* While nothing has gone wrong there is one process at a time, what it has
\* read are the dependencies on disk, and a lockfile lists just these unless
\* a process is about to remove it.
OneAtATime == \A p, q \in Shells : stage[p] # "idle" /\ stage[q] # "idle" => p = q
ReadIsCurrent ==
  \A p \in Shells : stage[p] \in {"readlock", "resolve"} => seen[p].deps = toml.deps
LockIsCurrent ==
  lock # NoLock /\ (\A p \in Shells : stage[p] # "unlock") => lock.crates = Crates(toml)
AnswerIsRight == answer # NoAnswer => answer.lock = ResolvedLock(answer.for)

CleanCommandsInv ==
  CommandTypes /\ (clean => OneAtATime /\ ReadIsCurrent /\ LockIsCurrent /\ AnswerIsRight)

\* A lockfile is the resolution of a manifest with its root and its crates.
LEMMA SameLock ==
  ASSUME NEW m \in Manifest, NEW lk \in Lockfile, lk.root = m.version, lk.crates = Crates(m)
  PROVE  lk = ResolvedLock(m)
BY DEF Lockfile, ResolvedLock, Crates

LEMMA NoLockIsNone == NoLock \notin Lockfile
BY DEF NoLock, Lockfile

LEMMA CleanCommandsStep == CleanCommandsInv /\ [CommandNext]_commandVars => CleanCommandsInv'
<1> SUFFICES ASSUME CleanCommandsInv, [CommandNext]_commandVars PROVE CleanCommandsInv'
  OBVIOUS
<1>0. CommandTypes /\ CommandTypes'
  BY CommandTypesStep DEF CleanCommandsInv
<1> DEFINE Good == OneAtATime /\ ReadIsCurrent /\ LockIsCurrent /\ AnswerIsRight
<1> SUFFICES ASSUME clean' PROVE Good'
  BY <1>0 DEF CleanCommandsInv
<1>1. clean
  BY <1>0 DEF CommandNext, SetVersion, RunPkgAdd, RunPkgRemove, RunPkgUpdate, ReadManifest, Begin,
     WriteManifest, RemoveLock, ReadLock, WriteLock, KillCommand, Smooth, Fault, commandVars
<1>2. Good
  BY <1>1 DEF CleanCommandsInv
<1>a. ASSUME NEW p \in Shells, NEW l \in {"edit", "unlock", "readlock"}, NEW c, NEW m,
             Begin(p, l, c, m), l = "readlock" => m = toml
      PROVE  Good'
  <2>1. \A q \in Shells : stage[q] = "idle"
    BY <1>1, <1>a DEF Begin, Quiet
  <2>2. \A q \in Shells : stage'[q] = IF q = p THEN l ELSE "idle"
    BY <1>0, <1>a, <2>1 DEF Begin, CommandTypes
  <2>3. OneAtATime' /\ AnswerIsRight'
    BY <1>a, <2>2 DEF OneAtATime, AnswerIsRight, Begin, Silent
  <2>4. ReadIsCurrent'
    BY <1>0, <1>a, <2>2 DEF ReadIsCurrent, Begin, CommandTypes
  <2>5. LockIsCurrent'
    BY <1>2, <1>a, <2>1 DEF LockIsCurrent, Begin, Crates
  <2> QED
    BY <2>3, <2>4, <2>5
<1>b. ASSUME NEW p \in Shells, NEW l \in {"idle", "unlock", "resolve"}, stage[p] # "idle",
             stage' = [stage EXCEPT ![p] = l]
      PROVE  OneAtATime' /\ \A q \in Shells : stage'[q] = IF q = p THEN l ELSE "idle"
  BY <1>0, <1>2, <1>b DEF OneAtATime, CommandTypes
<1>3. CASE SetVersion
  <2>1. PICK v \in 0 .. MaxVersion : toml' = [toml EXCEPT !.version = v]
    BY <1>3 DEF SetVersion
  <2>2. toml'.deps = toml.deps
    BY <1>0, <2>1 DEF CommandTypes, Manifest
  <2> QED
    BY <1>2, <1>3, <2>2 DEF SetVersion, Silent, OneAtATime, ReadIsCurrent, LockIsCurrent, AnswerIsRight, Crates
<1>4. ASSUME NEW p \in Shells, RunPkgAdd(p) \/ RunPkgRemove(p) \/ RunPkgUpdate(p) \/ ReadManifest(p)
      PROVE  Good'
  BY <1>4, <1>a DEF RunPkgAdd, RunPkgRemove, RunPkgUpdate, ReadManifest
<1>5. ASSUME NEW p \in Shells, WriteManifest(p) PROVE Good'
  <2>1. Forget(p, "unlock") /\ Silent /\ stage[p] # "idle"
    BY <1>5 DEF WriteManifest, Fault
  <2>2. OneAtATime' /\ \A q \in Shells : stage'[q] = IF q = p THEN "unlock" ELSE "idle"
    BY <1>b, <2>1 DEF Forget
  <2> QED
    BY <2>1, <2>2 DEF ReadIsCurrent, LockIsCurrent, AnswerIsRight, Silent
<1>6. ASSUME NEW p \in Shells, RemoveLock(p) PROVE Good'
  <2>1. lock' = NoLock /\ Forget(p, "idle") /\ Silent /\ stage[p] # "idle"
    BY <1>6 DEF RemoveLock, Fault, Exit
  <2>2. OneAtATime' /\ \A q \in Shells : stage'[q] = IF q = p THEN "idle" ELSE "idle"
    BY <1>b, <2>1 DEF Forget
  <2> QED
    BY <2>1, <2>2 DEF ReadIsCurrent, LockIsCurrent, AnswerIsRight, Silent
<1>7. ASSUME NEW p \in Shells, ReadLock(p) PROVE Good'
  <2>1. /\ stage[p] = "readlock" /\ UNCHANGED <<toml, lock>>
        /\ seen[p].deps = toml.deps /\ seen[p] \in Manifest
    BY <1>0, <1>2, <1>7 DEF ReadLock, ReadIsCurrent, CommandTypes
  <2>2. LockIsCurrent' /\ (lock # NoLock => lock.crates = Crates(seen[p]))
    <3>1. \A q \in Shells : stage[q] # "unlock"
      BY <1>2, <2>1 DEF OneAtATime
    <3> QED
      BY <1>2, <2>1, <3>1 DEF LockIsCurrent, Crates
  <2>3. AnswerIsRight'
    <3>1. CASE Silent
      BY <3>1 DEF AnswerIsRight, Silent
    <3>2. CASE lock # NoLock /\ lock.root = seen[p].version /\ Report(p, lock)
      <4>1. lock \in Lockfile
        BY <1>0, <3>2 DEF CommandTypes
      <4>2. lock = ResolvedLock(seen[p])
        BY <2>1, <2>2, <3>2, <4>1, SameLock
      <4>3. answer'.lock = ResolvedLock(seen[p]) /\ answer'.for = seen[p]
        BY <3>2, <4>2 DEF Report, Answer
      <4> QED
        BY <4>3 DEF AnswerIsRight, ResolvedLock
    <3> QED
      BY <1>7, <3>1, <3>2 DEF ReadLock
  <2>4. CASE Forget(p, "idle")
    <3>1. OneAtATime' /\ \A q \in Shells : stage'[q] = IF q = p THEN "idle" ELSE "idle"
      BY <1>b, <2>1, <2>4 DEF Forget
    <3> QED
      BY <2>2, <2>3, <3>1 DEF ReadIsCurrent
  <2>5. CASE GoOn(p, "resolve")
    <3>1. OneAtATime' /\ \A q \in Shells : stage'[q] = IF q = p THEN "resolve" ELSE "idle"
      BY <1>b, <2>1, <2>5 DEF GoOn
    <3> QED
      BY <2>1, <2>2, <2>3, <2>5, <3>1 DEF ReadIsCurrent, GoOn
  <2> QED
    BY <1>7, <2>4, <2>5 DEF ReadLock, Exit
<1>8. ASSUME NEW p \in Shells, WriteLock(p) PROVE Good'
  <2>1. /\ stage[p] = "resolve" /\ UNCHANGED toml /\ Forget(p, "idle")
        /\ seen[p].deps = toml.deps /\ seen[p] \in Manifest
    BY <1>0, <1>2, <1>8 DEF WriteLock, ReadIsCurrent, CommandTypes, Exit
  <2>2. OneAtATime' /\ \A q \in Shells : stage'[q] = IF q = p THEN "idle" ELSE "idle"
    BY <1>b, <2>1 DEF Forget
  <2>3. CASE lock' = ResolvedLock(seen[p]) /\ Report(p, ResolvedLock(seen[p]))
    <3>1. LockIsCurrent'
      BY <2>1, <2>3, ResolvedLockType DEF LockIsCurrent, Crates
    <3>2. answer'.lock = ResolvedLock(seen[p]) /\ answer'.for = seen[p]
      BY <2>3 DEF Report, Answer
    <3> QED
      BY <2>2, <3>1, <3>2 DEF ReadIsCurrent, AnswerIsRight, ResolvedLock
  <2>4. CASE Silent /\ UNCHANGED lock
    <3>1. \A q \in Shells : stage[q] # "unlock"
      BY <1>2, <2>1 DEF OneAtATime
    <3> QED
      BY <1>2, <2>1, <2>2, <2>4, <3>1 DEF ReadIsCurrent, LockIsCurrent, AnswerIsRight, Silent, Crates
  <2> QED
    BY <1>8, <2>3, <2>4 DEF WriteLock, Fault
<1>9. ASSUME NEW p \in Shells, KillCommand(p) PROVE FALSE
  BY <1>9 DEF KillCommand, Fault
<1>10. CASE UNCHANGED commandVars
  BY <1>2, <1>10 DEF commandVars, OneAtATime, ReadIsCurrent, LockIsCurrent, AnswerIsRight, Crates
<1> QED
  BY <1>3, <1>4, <1>5, <1>6, <1>7, <1>8, <1>9, <1>10 DEF CommandNext

\* Commands that neither overlap nor fail keep the lockfile right, whatever
\* their number and order, also while the user edits the version.
THEOREM CleanCommandsAreSafe == CommandSpec => []CleanCommandsKeepTheLock
<1>1. CommandInit => CleanCommandsInv
  <2> SUFFICES ASSUME CommandInit PROVE CleanCommandsInv
    OBVIOUS
  <2>1. CommandTypes
    BY CommandTypesInit
  <2> QED
    BY <2>1 DEF CommandInit, CleanCommandsInv, OneAtATime, ReadIsCurrent, LockIsCurrent, AnswerIsRight
<1>2. CleanCommandsInv => CleanCommandsKeepTheLock
  <2> SUFFICES ASSUME CleanCommandsInv, clean PROVE CleanCommandsKeepTheLock
    BY DEF CleanCommandsKeepTheLock
  <2>1. LockMatchesManifest
    <3> SUFFICES ASSUME Quiet, lock # NoLock, lock.root = toml.version PROVE lock = ResolvedLock(toml)
      BY DEF LockMatchesManifest
    <3>1. lock \in Lockfile /\ toml \in Manifest /\ lock.crates = Crates(toml)
      BY DEF CleanCommandsInv, CommandTypes, LockIsCurrent, Quiet
    <3> QED
      BY <3>1, SameLock
  <2> QED
    BY <2>1 DEF CleanCommandsInv, AnswerIsRight, CleanCommandsKeepTheLock
<1> QED
  BY <1>1, <1>2, CleanCommandsStep, PTL DEF CommandSpec
=============================================================================
