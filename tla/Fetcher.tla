-------------------------------- MODULE Fetcher --------------------------------
(***************************************************************************)
(* compiler/pkg/fetcher.go: processes that call Fetch on a shared cache    *)
(* directory.  The entry for a digest is one file, named after the digest; *)
(* its contents either have that digest ("good") or not ("bad").           *)
(***************************************************************************)
EXTENDS Naturals, FiniteSets

CONSTANTS Procs,      \* processes that share the cache directory
          Digests,    \* expected SHA-256 digests
          Initial,    \* what an entry may hold at first
          Retries     \* calls a process makes after a failed or killed one

ASSUME FetcherAssumption ==
  Initial \subseteq {"absent", "good", "bad"} /\ Retries \in Nat

VARIABLES entry,      \* entry[d]: the file named d in the cache directory
          start,      \* start[d]: what it held at first
          pc,         \* pc[p]: where p is in Fetch
          want,       \* want[p]: expectedSHA
          bytes,      \* bytes[p]: what p read from the URL
          tries       \* tries[p]: calls p may still make

fetchVars == <<entry, start, pc, want, bytes, tries>>

FetchInit ==
  /\ entry \in [Digests -> Initial]
  /\ start = entry
  /\ pc = [p \in Procs |-> "idle"]
  /\ want \in [Procs -> Digests]
  /\ bytes = [p \in Procs |-> "none"]
  /\ tries = [p \in Procs |-> Retries]

Goto(p, l) == pc' = [pc EXCEPT ![p] = l]

\* The cached file is read whole: a matching digest is a hit, a mismatch is to
\* be removed, and a file that is missing or cannot be read is fetched.  The
\* call fails before that without a digest or a directory.
Lookup(p) ==
  /\ pc[p] = "idle"
  /\ \/ Goto(p, "failed")
     \/ entry[want[p]] = "good" /\ Goto(p, "returned")
     \/ entry[want[p]] = "bad" /\ Goto(p, "heal")
     \/ Goto(p, "fetch")
  /\ UNCHANGED <<start, entry, want, bytes, tries>>

\* Self-heal: whatever has the name by now is removed, if the removal works;
\* its error is ignored.
RemoveMismatch(p) ==
  /\ pc[p] = "heal"
  /\ entry' = [entry EXCEPT ![want[p]] = "absent"] \/ UNCHANGED entry
  /\ Goto(p, "fetch")
  /\ UNCHANGED <<start, want, bytes, tries>>

\* f.read: the bytes of the artifact, other bytes, or an error; Offline is an
\* error too.
Read(p) ==
  /\ pc[p] = "fetch"
  /\ \/ \E b \in {"good", "bad"} : bytes' = [bytes EXCEPT ![p] = b] /\ Goto(p, "verify")
     \/ Goto(p, "failed") /\ UNCHANGED bytes
  /\ UNCHANGED <<start, entry, want, tries>>

\* Mutation of Verify: the digest of the bytes is not compared.
VerifyNothing(p) ==
  /\ pc[p] = "verify"
  /\ Goto(p, "temp")
  /\ UNCHANGED <<start, entry, want, bytes, tries>>

\* A mismatch is an IntegrityError; nothing is written.
Verify(p) ==
  /\ pc[p] = "verify"
  /\ Goto(p, IF bytes[p] = "good" THEN "temp" ELSE "failed")
  /\ UNCHANGED <<start, entry, want, bytes, tries>>

\* CreateTemp, Write and Close; the temporary file is removed when one fails.
WriteTemp(p) ==
  /\ pc[p] = "temp"
  /\ Goto(p, "rename") \/ Goto(p, "failed")
  /\ UNCHANGED <<start, entry, want, bytes, tries>>

\* Mutation of Rename: the write goes straight to the entry and may fail half way.
WriteInPlace(p) ==
  /\ pc[p] = "rename"
  /\ \/ entry' = [entry EXCEPT ![want[p]] = bytes[p]] /\ Goto(p, "returned")
     \/ entry' = [entry EXCEPT ![want[p]] = "bad"] /\ Goto(p, "failed")
  /\ UNCHANGED <<start, want, bytes, tries>>

Rename(p) ==
  /\ pc[p] = "rename"
  /\ \/ entry' = [entry EXCEPT ![want[p]] = bytes[p]] /\ Goto(p, "returned")
     \/ Goto(p, "failed") /\ UNCHANGED entry
  /\ UNCHANGED <<start, want, bytes, tries>>

\* The process is killed; a temporary file it was writing stays, under a name
\* that no other call uses.
Crash(p) ==
  /\ pc[p] \in {"heal", "fetch", "verify", "temp", "rename"}
  /\ tries[p] > 0
  /\ Goto(p, "failed")
  /\ UNCHANGED <<start, entry, want, bytes, tries>>

\* The next build fetches again.
Retry(p) ==
  /\ pc[p] = "failed" /\ tries[p] > 0
  /\ tries' = [tries EXCEPT ![p] = @ - 1]
  /\ bytes' = [bytes EXCEPT ![p] = "none"]
  /\ Goto(p, "idle")
  /\ UNCHANGED <<start, entry, want>>

Fetch(p) ==
  \/ Lookup(p) \/ RemoveMismatch(p) \/ Read(p) \/ Verify(p)
  \/ WriteTemp(p) \/ Rename(p)

FetchNext == \E p \in Procs : Fetch(p) \/ Crash(p) \/ Retry(p)

FetchSpec == FetchInit /\ [][FetchNext]_fetchVars

-----------------------------------------------------------------------------
(* Properties *)

Returned(p) == pc[p] = "returned"

\* Fetch: "Integrity is verified before the file reaches the caller".  Once a
\* path has been returned it never names a file with another digest, whatever
\* other processes fetch, fail, heal and die meanwhile.
ReturnedIsNeverCorrupt == \A p \in Procs : Returned(p) => entry[want[p]] # "bad"

\* Fetching never makes an entry worse: no step turns an entry that is absent
\* or good into one with a wrong digest, a killed or failed write included.
CorruptionNeverSpreads ==
  [][\A d \in Digests : entry'[d] = "bad" => entry[d] = "bad"]_fetchVars

\* Fetch: "The caller is safe to unpack the returned path".
ReturnedIsUsable == \A p \in Procs : Returned(p) => entry[want[p]] = "good"

\* That promise holds for every entry that is not corrupt to begin with, for
\* any number of overlapping calls: the self-heal, which removes by name, then
\* never runs.
UsableUnlessCorrupt ==
  \A p \in Procs : Returned(p) /\ start[want[p]] # "bad" => entry[want[p]] = "good"
=============================================================================
