--------------------------- MODULE BuildCacheProofs ---------------------------
(***************************************************************************)
(* The cache never knows of a build that did not link, for any number of   *)
(* processes, option sets, binaries and source texts.                      *)
(***************************************************************************)
EXTENDS BuildCache, TLAPS

\* The three histories are kept by assignment; these are the types the
\* argument needs.
Types ==
  /\ source \in Versions
  /\ payload \in [Keys -> {"absent", "torn", "whole"}]
  /\ manifest \in SUBSET Keys
  /\ pc \in [Procs -> {"idle", "ready", "opened", "keyed", "looked", "miss", "linking",
                       "linked", "putting", "flush", "flushing", "clearing"}]
  /\ cfg \in [Procs -> Configs]
  /\ src \in [Procs -> Versions]
  /\ mem \in [Procs -> SUBSET Keys]
  /\ listed \in [Procs -> SUBSET Keys]
  /\ got \in [Procs -> {"none", "torn", "whole"}]
  /\ served \in [Procs -> {Unserved} \cup
       [is : {"hit"}, for : Inputs,
        bin : {NoBinary, Partial} \cup {Linked(i) : i \in Inputs}]]
  /\ binary \in [Paths -> {NoBinary, Partial} \cup {Linked(i) : i \in Inputs}]
  /\ built \in SUBSET Keys

\* Between linking and Put the build in hand has linked, and what Get returned
\* was on disk.
InHand ==
  \A p \in Procs :
    /\ pc[p] \in {"linked", "putting"} => KeyOf(p) \in built
    /\ got[p] # "none" => KeyOf(p) \in built /\ pc[p] = "looked"

IInv == Types /\ InHand /\ CacheNamesOnlyBuilt

\* An empty cache directory.
LEMMA IInvInit == (Configs # {}) /\ Init => IInv
  BY ConfigAssumption
  DEF Init, IInv, Types, InHand, CacheNamesOnlyBuilt, Versions, Keys, Inputs, Unserved

\* Which key a process works with depends on what it read and on its options.
LEMMA KeyOfTyped == ASSUME Types, NEW p \in Procs PROVE KeyOf(p) \in Keys /\ InputsOf(p) \in Inputs
  BY DEF Types, KeyOf, InputsOf, Key, Keys, Inputs

\* One step per action of the users, the cache and the build.
LEMMA IInvNext == IInv /\ [Next]_vars => IInv'
<1> SUFFICES ASSUME IInv, [Next]_vars PROVE IInv'
  OBVIOUS
<1>0. \A p \in Procs : KeyOf(p) \in Keys /\ InputsOf(p) \in Inputs
  BY KeyOfTyped DEF IInv
<1>a. 0 \in Versions
  BY ConfigAssumption DEF Versions
<1> USE <1>0, <1>a DEF IInv, Types, InHand, CacheNamesOnlyBuilt, KeyOf, InputsOf, Key, Goto, Return,
                 index, disk, local
<1>1. CASE Edit
  BY <1>1 DEF Edit
<1>2. CASE DeleteBinary
  BY <1>2 DEF DeleteBinary
<1>3. ASSUME NEW p \in Procs, Crash(p) PROVE IInv'
  BY <1>3 DEF Crash
<1>4. ASSUME NEW p \in Procs, NEW c \in Configs, Open(p, c) PROVE IInv'
  BY <1>4 DEF Open
<1>5. ASSUME NEW p \in Procs, NEW c \in Configs, Again(p, c) PROVE IInv'
  BY <1>5 DEF Again
<1>6. ASSUME NEW p \in Procs, ReadSource(p) PROVE IInv'
  BY <1>6 DEF ReadSource
<1>7. ASSUME NEW p \in Procs, Get(p) PROVE IInv'
  BY <1>7 DEF Get
<1>8. ASSUME NEW p \in Procs, HitOrMiss(p) PROVE IInv'
  <2> DEFINE b == binary[BinPath[cfg[p]]]
             hit == [is |-> "hit", for |-> InputsOf(p), bin |-> b]
  <2>1. b \in {NoBinary, Partial} \cup {Linked(i) : i \in Inputs}
    BY ConfigAssumption
  <2>2. hit \in [is : {"hit"}, for : Inputs,
                 bin : {NoBinary, Partial} \cup {Linked(i) : i \in Inputs}]
    BY <2>1
  <2>3. hit.for = KeyOf(p)
    OBVIOUS
  <2> HIDE DEF hit, b
  <2>4. CASE got[p] = "whole" /\ b # NoBinary
    <3>1. served' = [served EXCEPT ![p] = hit] /\ UNCHANGED <<disk, cfg, mem, dirty, listed, built>>
          /\ pc' = [pc EXCEPT ![p] = "ready"] /\ src' = [src EXCEPT ![p] = 0] /\ got' = [got EXCEPT ![p] = "none"]
      BY <1>8, <2>4 DEF HitOrMiss, hit, b
    <3>2. KeyOf(p) \in built
      BY <2>4
    <3> QED
      BY <2>2, <2>3, <3>1, <3>2
  <2>5. CASE ~(got[p] = "whole" /\ b # NoBinary)
    <3>1. pc' = [pc EXCEPT ![p] = "miss"] /\ got' = [got EXCEPT ![p] = "none"]
          /\ UNCHANGED <<served, disk, cfg, src, mem, dirty, listed, built>>
      BY <1>8, <2>5 DEF HitOrMiss, b
    <3> QED
      BY <3>1
  <2> QED
    BY <2>4, <2>5
<1>9. ASSUME NEW p \in Procs, Rejected(p) PROVE IInv'
  BY <1>9 DEF Rejected
<1>10. ASSUME NEW p \in Procs, LinkBegin(p) PROVE IInv'
  BY <1>10 DEF LinkBegin
<1>11. ASSUME NEW p \in Procs, LinkEnd(p) PROVE IInv'
  BY <1>11 DEF LinkEnd
<1>12. ASSUME NEW p \in Procs, PutBegin(p) PROVE IInv'
  BY <1>12 DEF PutBegin
<1>13. ASSUME NEW p \in Procs, PutEnd(p) PROVE IInv'
  BY <1>13 DEF PutEnd
<1>14. ASSUME NEW p \in Procs, FlushBegin(p) PROVE IInv'
  <2>1. CASE pc' = [pc EXCEPT ![p] = "flushing"] /\ UNCHANGED src
    BY <1>14, <2>1 DEF FlushBegin
  <2>2. CASE pc' = [pc EXCEPT ![p] = "ready"] /\ src' = [src EXCEPT ![p] = 0]
    BY <1>14, <2>2 DEF FlushBegin
  <2> QED
    BY <1>14, <2>1, <2>2 DEF FlushBegin
<1>15. ASSUME NEW p \in Procs, FlushEnd(p) PROVE IInv'
  BY <1>15 DEF FlushEnd
<1>16. ASSUME NEW p \in Procs, ClearBegin(p) PROVE IInv'
  BY <1>16 DEF ClearBegin
<1>17. ASSUME NEW p \in Procs, ClearRemove(p) PROVE IInv'
  BY <1>17 DEF ClearRemove
<1>18. ASSUME NEW p \in Procs, ClearEnd(p) PROVE IInv'
  BY <1>18 DEF ClearEnd
<1>19. CASE UNCHANGED vars
  BY <1>19 DEF vars
<1>20. QED
  BY <1>1, <1>2, <1>3, <1>4, <1>5, <1>6, <1>7, <1>8, <1>9, <1>10, <1>11, <1>12,
     <1>13, <1>14, <1>15, <1>16, <1>17, <1>18, <1>19 DEF Next, Step

\* Whatever the order of writes, crashes, flushes of stale manifests and
\* Clear: manifests, payloads and hits are only ever of builds that linked.
THEOREM OnlyBuiltKeysAreCached ==
  ASSUME Configs # {}
  PROVE  Spec => []CacheNamesOnlyBuilt
<1>1. IInv => CacheNamesOnlyBuilt
  BY DEF IInv
<1>2. QED
  BY IInvInit, IInvNext, <1>1, PTL DEF Spec

-----------------------------------------------------------------------------
(* The flags c.dirty and the truncated manifest *)

Flags == broken \in BOOLEAN /\ dirty \in [Procs -> BOOLEAN]

LEMMA FlagSet ==
  ASSUME NEW f \in [Procs -> BOOLEAN], NEW p, NEW b \in BOOLEAN
  PROVE  [f EXCEPT ![p] = b] \in [Procs -> BOOLEAN]
OBVIOUS

LEMMA FlagsStep == Flags /\ [Next]_vars => Flags'
<1> SUFFICES ASSUME Flags, [Next]_vars PROVE Flags'
  OBVIOUS
<1>0. broken \in BOOLEAN /\ dirty \in [Procs -> BOOLEAN] /\ TRUE \in BOOLEAN /\ FALSE \in BOOLEAN
  BY DEF Flags
<1> SUFFICES broken' \in BOOLEAN /\ dirty' \in [Procs -> BOOLEAN]
  BY DEF Flags
<1>1. CASE UNCHANGED <<broken, dirty>>
  BY <1>0, <1>1
<1>2. ASSUME NEW p \in Procs, NEW b \in BOOLEAN, broken' = broken, dirty' = [dirty EXCEPT ![p] = b]
      PROVE  broken' \in BOOLEAN /\ dirty' \in [Procs -> BOOLEAN]
  BY <1>0, <1>2, FlagSet
<1> USE DEF index, disk, local
<1>3. ASSUME NEW p \in Procs, Crash(p) \/ PutEnd(p) \/ ClearEnd(p)
      PROVE  broken' \in BOOLEAN /\ dirty' \in [Procs -> BOOLEAN]
  BY <1>0, <1>1, <1>2, <1>3 DEF Crash, PutEnd, ClearEnd
<1>4. ASSUME NEW p \in Procs, NEW c \in Configs, Open(p, c)
      PROVE  broken' \in BOOLEAN /\ dirty' \in [Procs -> BOOLEAN]
  BY <1>0, <1>2, <1>4 DEF Open
<1>5. ASSUME NEW p \in Procs, Get(p)
      PROVE  broken' \in BOOLEAN /\ dirty' \in [Procs -> BOOLEAN]
  <2>1. PICK b \in BOOLEAN : b = (dirty[p] \/ (KeyOf(p) \in mem[p] /\ payload[KeyOf(p)] = "absent"))
    OBVIOUS
  <2>2. broken' = broken /\ dirty' = [dirty EXCEPT ![p] = b]
    BY <1>5, <2>1 DEF Get
  <2> QED
    BY <1>2, <2>2
<1>6. ASSUME NEW p \in Procs, FlushBegin(p)
      PROVE  broken' \in BOOLEAN /\ dirty' \in [Procs -> BOOLEAN]
  BY <1>0, <1>6 DEF FlushBegin
<1>7. ASSUME NEW p \in Procs, FlushEnd(p)
      PROVE  broken' \in BOOLEAN /\ dirty' \in [Procs -> BOOLEAN]
  BY <1>0, <1>7, FlagSet DEF FlushEnd
<1>8. CASE Edit \/ DeleteBinary \/ UNCHANGED vars
  BY <1>1, <1>8 DEF Edit, DeleteBinary, vars
<1>9. ASSUME NEW p \in Procs, \/ \E c \in Configs : Again(p, c)
                              \/ ReadSource(p) \/ HitOrMiss(p) \/ Rejected(p)
                              \/ LinkBegin(p) \/ LinkEnd(p) \/ PutBegin(p)
                              \/ ClearBegin(p) \/ ClearRemove(p)
      PROVE  broken' \in BOOLEAN /\ dirty' \in [Procs -> BOOLEAN]
  BY <1>1, <1>9 DEF Again, ReadSource, HitOrMiss, Rejected, LinkBegin, LinkEnd, PutBegin, ClearBegin, ClearRemove
<1> QED
  BY <1>3, <1>4, <1>5, <1>6, <1>7, <1>8, <1>9 DEF Next, Step

\* The disk and the processes' memories keep their shape.
THEOREM CacheTyped ==
  ASSUME Configs # {}
  PROVE  Spec => []TypeOK
<1>1. Init => Flags
  BY DEF Init, Flags
<1>2. IInv /\ Flags => TypeOK
  BY DEF IInv, Types, Flags, TypeOK, Keys
<1> QED
  BY IInvInit, IInvNext, FlagsStep, <1>1, <1>2, PTL DEF Spec
=============================================================================
