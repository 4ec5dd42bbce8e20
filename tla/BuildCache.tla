------------------------------ MODULE BuildCache ------------------------------
(***************************************************************************)
(* compiler/driver/cache.go and compiler/driver/build.go: processes that   *)
(* call Build with a Cache on one project directory and its .fuse-cache.   *)
(* On disk there are the source file, the binaries, the payload files      *)
(* entries/<key> and manifest.json; each process has its own copy of the   *)
(* manifest from Open to Flush.  None of the writes is atomic: a file is   *)
(* truncated first and complete later, and a process may die in between.   *)
(*                                                                         *)
(* A SHA-256 key is modelled by the inputs it digests, so that distinct    *)
(* inputs have distinct keys.                                              *)
(***************************************************************************)
EXTENDS Naturals, FiniteSets

CONSTANTS Procs,        \* concurrent processes that build
          Configs,      \* option sets (output path, debug, keep-C, compiler)
          Paths,        \* binary paths
          BinPath,      \* BinPath[c]: where a build with options c links to
          MaxVersion,   \* source texts are numbered 0 .. MaxVersion
          Revert,       \* may an edit bring back an older text?
          Faults,       \* may processes die at any point, and writes fail?
          Deletes       \* may users delete binaries?

ASSUME ConfigAssumption ==
  /\ BinPath \in [Configs -> Paths]
  /\ MaxVersion \in Nat
  /\ Revert \in BOOLEAN /\ Faults \in BOOLEAN /\ Deletes \in BOOLEAN

VARIABLES source,       \* the text in the source file
          binary,       \* binary[b]: the inputs b was linked from, if any
          payload,      \* payload[k]: "absent" | "torn" | "whole"
          manifest,     \* the keys in manifest.json
          broken,       \* is manifest.json truncated?
          pc,           \* pc[p]: where process p is in Build
          cfg,          \* cfg[p]: opts
          src,          \* src[p]: the source text p read
          mem,          \* mem[p]: keys of c.manifest.Entries
          dirty,        \* dirty[p]: c.dirty
          listed,       \* listed[p]: the payload files Clear has yet to remove
          got,          \* got[p]: what p's cache.Get returned
          served,       \* served[p]: the hit p returned, with the binary then
          built         \* inputs some build has linked (history)

index == <<manifest, broken>>
disk  == <<source, binary, payload, index>>
local == <<pc, cfg, src, mem, dirty, listed>>
vars  == <<disk, local, got, served, built>>

Versions == 0 .. MaxVersion

\* What a build is made from.
Inputs == [src : Versions, cfg : Configs]

\* buildCacheKey digests the source bytes and every option.
Key(v, c) == [src |-> v, cfg |-> c]
Keys == Inputs

KeyOf(p) == Key(src[p], cfg[p])
InputsOf(p) == [src |-> src[p], cfg |-> cfg[p]]

NoBinary == [is |-> "absent"]
Partial  == [is |-> "partial"]
Linked(i) == [is |-> "linked", from |-> i]
Unserved == [is |-> "none"]

Init ==
  /\ source = 0
  /\ binary = [b \in Paths |-> NoBinary]
  /\ payload = [k \in Keys |-> "absent"]
  /\ manifest = {} /\ broken = FALSE
  /\ pc = [p \in Procs |-> "idle"]
  /\ cfg \in [Procs -> {CHOOSE c \in Configs : TRUE}]
  /\ src = [p \in Procs |-> 0]
  /\ mem = [p \in Procs |-> {}]
  /\ dirty = [p \in Procs |-> FALSE]
  /\ listed = [p \in Procs |-> {}]
  /\ got = [p \in Procs |-> "none"]
  /\ served = [p \in Procs |-> Unserved]
  /\ built = {}

Goto(p, l) == pc' = [pc EXCEPT ![p] = l]

\* Build, or Clear, returns: what it read of the source is gone.
Return(p) == Goto(p, "ready") /\ src' = [src EXCEPT ![p] = 0]

-----------------------------------------------------------------------------
(* The world around the builds *)

Edit ==
  /\ \E v \in Versions :
       /\ IF Revert THEN v # source ELSE v > source
       /\ source' = v
  /\ UNCHANGED <<binary, payload, index, local, got, served, built>>

DeleteBinary ==
  /\ Deletes
  /\ \E b \in Paths : binary[b] # NoBinary /\ binary' = [binary EXCEPT ![b] = NoBinary]
  /\ UNCHANGED <<source, payload, index, local, got, served, built>>

\* The process is killed: its memory is gone, its half-written files stay.
Crash(p) ==
  /\ Faults
  /\ pc[p] # "idle"
  /\ Goto(p, "idle")
  /\ src' = [src EXCEPT ![p] = 0]
  /\ mem' = [mem EXCEPT ![p] = {}]
  /\ dirty' = [dirty EXCEPT ![p] = FALSE]
  /\ listed' = [listed EXCEPT ![p] = {}]
  /\ got' = [got EXCEPT ![p] = "none"]
  /\ UNCHANGED <<disk, cfg, served, built>>

-----------------------------------------------------------------------------
(* cache.go *)

\* Open: a malformed manifest (or one of another version) is replaced by an
\* empty one in memory.
Open(p, c) ==
  /\ pc[p] \in {"idle", "ready"}
  /\ cfg' = [cfg EXCEPT ![p] = c]
  /\ mem' = [mem EXCEPT ![p] = IF broken THEN {} ELSE manifest]
  /\ dirty' = [dirty EXCEPT ![p] = broken]
  /\ got' = [got EXCEPT ![p] = "none"]
  /\ served' = [served EXCEPT ![p] = Unserved]
  /\ Goto(p, "opened")
  /\ UNCHANGED <<disk, src, listed, built>>

\* Another Build with the Cache of the last one, which may have self-healed
\* entries that were never flushed.
Again(p, c) ==
  /\ pc[p] = "ready"
  /\ cfg' = [cfg EXCEPT ![p] = c]
  /\ got' = [got EXCEPT ![p] = "none"]
  /\ served' = [served EXCEPT ![p] = Unserved]
  /\ Goto(p, "opened")
  /\ UNCHANGED <<disk, src, mem, dirty, listed, built>>

\* Build reads the source; the key is fixed from here on.
ReadSource(p) ==
  /\ pc[p] = "opened"
  /\ src' = [src EXCEPT ![p] = source]
  /\ Goto(p, "keyed")
  /\ UNCHANGED <<disk, cfg, mem, dirty, listed, got, served, built>>

\* Mutation of Get: a read error is not noticed.
GetIgnoresReadError(p) ==
  /\ pc[p] = "keyed"
  /\ got' = [got EXCEPT ![p] = IF KeyOf(p) \in mem[p] THEN payload[KeyOf(p)] ELSE "none"]
  /\ Goto(p, "looked")
  /\ UNCHANGED <<disk, cfg, src, mem, dirty, listed, served, built>>

\* Get: an entry whose payload cannot be read is dropped (self-healing).  The
\* payload is returned as it is on disk; only its key is compared.
Get(p) ==
  /\ pc[p] = "keyed"
  /\ LET k    == KeyOf(p)
         lost == k \in mem[p] /\ payload[k] = "absent"
     IN /\ mem' = [mem EXCEPT ![p] = IF lost THEN @ \ {k} ELSE @]
        /\ dirty' = [dirty EXCEPT ![p] = @ \/ lost]
        /\ got' = [got EXCEPT ![p] =
             IF k \in mem[p] /\ ~lost THEN payload[k] ELSE "none"]
  /\ Goto(p, "looked")
  /\ UNCHANGED <<disk, cfg, src, listed, served, built>>

\* Build after Get: a payload that decodes (a torn one does not) and a binary
\* that exists (os.Stat) are a hit; everything else runs the pipeline.
HitOrMiss(p) ==
  LET b == binary[BinPath[cfg[p]]] IN
  /\ pc[p] = "looked"
  /\ IF got[p] = "whole" /\ b # NoBinary
       THEN /\ served' = [served EXCEPT ![p] =
                 [is |-> "hit", for |-> InputsOf(p), bin |-> b]]
            /\ Return(p)
       ELSE Goto(p, "miss") /\ UNCHANGED <<src, served>>
  /\ got' = [got EXCEPT ![p] = "none"]
  /\ UNCHANGED <<disk, cfg, mem, dirty, listed, built>>

-----------------------------------------------------------------------------
(* The compile path of Build *)

\* A diagnostic of any pass, no main, no C compiler, no runtime: Build returns
\* an error.  Self-healing done by Get is not flushed.
Rejected(p) ==
  /\ pc[p] = "miss"
  /\ Return(p)
  /\ UNCHANGED <<disk, cfg, mem, dirty, listed, got, served, built>>

\* The host compiler starts writing the binary ...
LinkBegin(p) ==
  /\ pc[p] = "miss"
  /\ binary' = [binary EXCEPT ![BinPath[cfg[p]]] = Partial]
  /\ Goto(p, "linking")
  /\ UNCHANGED <<source, payload, index, cfg, src, mem, dirty, listed, got, served, built>>

\* Mutation of LinkEnd: the error of the host compiler is ignored.
LinkEndIgnoresError(p) ==
  LET b == BinPath[cfg[p]] IN
  /\ pc[p] = "linking"
  /\ \/ /\ binary' = [binary EXCEPT ![b] = Linked(InputsOf(p))]
        /\ built' = built \cup {InputsOf(p)}
     \/ /\ binary' = [binary EXCEPT ![b] = NoBinary]
        /\ UNCHANGED built
  /\ Goto(p, "linked")
  /\ UNCHANGED <<source, payload, index, cfg, src, mem, dirty, listed, got, served>>

\* ... and finishes, or fails and leaves no binary.
LinkEnd(p) ==
  LET b == BinPath[cfg[p]] IN
  /\ pc[p] = "linking"
  /\ \/ /\ binary' = [binary EXCEPT ![b] = Linked(InputsOf(p))]
        /\ built' = built \cup {InputsOf(p)}
        /\ Goto(p, "linked") /\ UNCHANGED src
     \/ /\ binary' = [binary EXCEPT ![b] = NoBinary]
        /\ Return(p)
        /\ UNCHANGED built
  /\ UNCHANGED <<source, payload, index, cfg, mem, dirty, listed, got, served>>

\* Put: os.WriteFile truncates the payload file, if it can open it; Build
\* ignores the error and goes on to Flush ...
PutBegin(p) ==
  /\ pc[p] = "linked"
  /\ \/ payload' = [payload EXCEPT ![KeyOf(p)] = "torn"] /\ Goto(p, "putting")
     \/ Faults /\ UNCHANGED payload /\ Goto(p, "flush")
  /\ UNCHANGED <<source, binary, index, cfg, src, mem, dirty, listed, got, served, built>>

\* ... and completes it; only then is the header added.  A write that fails
\* leaves what it has written, and the header of an earlier Put.
PutEnd(p) ==
  /\ pc[p] = "putting"
  /\ \/ /\ payload' = [payload EXCEPT ![KeyOf(p)] = "whole"]
        /\ mem' = [mem EXCEPT ![p] = @ \cup {KeyOf(p)}]
        /\ dirty' = [dirty EXCEPT ![p] = TRUE]
     \/ Faults /\ UNCHANGED <<payload, mem, dirty>>
  /\ Goto(p, "flush")
  /\ UNCHANGED <<source, binary, index, cfg, src, listed, got, served, built>>

\* Flush: nothing to do for a clean manifest; otherwise truncate the file, if it
\* can be opened (if not, the manifest stays dirty) ...
FlushBegin(p) ==
  /\ pc[p] = "flush"
  /\ \/ dirty[p] /\ broken' = TRUE /\ Goto(p, "flushing") /\ UNCHANGED src
     \/ (~dirty[p] \/ Faults) /\ UNCHANGED broken /\ Return(p)
  /\ UNCHANGED <<source, binary, payload, manifest, cfg, mem, dirty, listed, got, served, built>>

\* ... and write this process's own copy, whatever others wrote meanwhile.  A
\* write that fails leaves the file truncated and the manifest dirty.
FlushEnd(p) ==
  /\ pc[p] = "flushing"
  /\ \/ /\ manifest' = mem[p]
        /\ broken' = FALSE
        /\ dirty' = [dirty EXCEPT ![p] = FALSE]
     \/ Faults /\ broken' = TRUE /\ UNCHANGED <<manifest, dirty>>
  /\ Return(p)
  /\ UNCHANGED <<source, binary, payload, cfg, mem, listed, got, served, built>>

\* Clear: the payload files are listed, or Clear fails with nothing changed ...
ClearBegin(p) ==
  /\ pc[p] = "opened"
  /\ \/ /\ listed' = [listed EXCEPT ![p] = {k \in Keys : payload[k] # "absent"}]
        /\ Goto(p, "clearing")
     \/ Faults /\ Goto(p, "ready") /\ UNCHANGED listed
  /\ UNCHANGED <<disk, cfg, src, mem, dirty, got, served, built>>

\* ... removed one by one, whatever os.Remove returns ...
ClearRemove(p) ==
  /\ pc[p] = "clearing"
  /\ \E k \in listed[p] :
       /\ listed' = [listed EXCEPT ![p] = @ \ {k}]
       /\ \/ payload' = [payload EXCEPT ![k] = "absent"]
          \/ Faults /\ UNCHANGED payload
  /\ UNCHANGED <<source, binary, index, pc, cfg, src, mem, dirty, got, served, built>>

\* ... and the empty manifest is flushed.
ClearEnd(p) ==
  /\ pc[p] = "clearing" /\ listed[p] = {}
  /\ mem' = [mem EXCEPT ![p] = {}]
  /\ dirty' = [dirty EXCEPT ![p] = TRUE]
  /\ Goto(p, "flush")
  /\ UNCHANGED <<disk, cfg, src, listed, got, served, built>>

Step(p) ==
  \/ \E c \in Configs : Open(p, c) \/ Again(p, c)
  \/ ReadSource(p) \/ Get(p) \/ HitOrMiss(p) \/ Rejected(p)
  \/ LinkBegin(p) \/ LinkEnd(p) \/ PutBegin(p) \/ PutEnd(p)
  \/ FlushBegin(p) \/ FlushEnd(p)
  \/ ClearBegin(p) \/ ClearRemove(p) \/ ClearEnd(p)

Next == Edit \/ DeleteBinary \/ \E p \in Procs : Step(p) \/ Crash(p)

Spec == Init /\ [][Next]_vars

-----------------------------------------------------------------------------
(* Properties *)

\* The shape of the disk and of the processes' memories.
TypeOK ==
  /\ source \in Versions
  /\ binary \in [Paths -> {NoBinary, Partial} \cup {Linked(i) : i \in Inputs}]
  /\ payload \in [Keys -> {"absent", "torn", "whole"}]
  /\ manifest \in SUBSET Keys /\ broken \in BOOLEAN
  /\ pc \in [Procs -> {"idle", "ready", "opened", "keyed", "looked", "miss", "linking",
                       "linked", "putting", "flush", "flushing", "clearing"}]
  /\ cfg \in [Procs -> Configs]
  /\ src \in [Procs -> Versions]
  /\ mem \in [Procs -> SUBSET Keys]
  /\ dirty \in [Procs -> BOOLEAN]
  /\ listed \in [Procs -> SUBSET Keys]
  /\ got \in [Procs -> {"none", "torn", "whole"}]
  /\ \A p \in Procs : served[p] # Unserved => served[p].for \in Inputs
  /\ built \in SUBSET Inputs

\* Whatever order processes write and die in, no manifest, on disk or in
\* memory, ever names a key whose build did not link, no complete payload
\* exists for such a key, and so no hit is reported for a source and options
\* that were never built.
CacheNamesOnlyBuilt ==
  /\ manifest \subseteq built
  /\ \A p \in Procs : mem[p] \subseteq built
  /\ \A k \in Keys : payload[k] # "absent" => k \in built
  /\ \A p \in Procs : served[p] # Unserved => served[p].for \in built

\* buildCacheKey: the key binds "every input that influences the produced
\* artifact so a cache hit is always safe to reuse": the binary a hit points
\* at was linked from the source and the options asked for.
CacheHitIsFresh ==
  \A p \in Procs : served[p] # Unserved => served[p].bin = Linked(served[p].for)
=============================================================================
