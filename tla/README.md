# Fuse: a TLA+ verification project

Fuse is a compiler, a runtime library and a set of developer tools. This
directory holds TLA+ modules translated from that code, TLC configurations that
model-check them on small instances, and TLAPS proofs of the results that
should hold for every instance. `PROJECT.json` maps every definition to the
lines it models and lists runs, mutants, hazards, findings and theorems.

## 1. The system and its parts

| Part | State it keeps | Operations | Why it is hard |
|---|---|---|---|
| Runtime channels (`runtime/src/chan.c`) | ring buffer, `head`/`tail`/`count`, `closed`, a mutex, two condition variables | new, send, recv, try_send, try_recv, close, free | sleepers, one signal per operation, spurious wake-ups, close while others sleep, free without a lock |
| Runtime threads (`runtime/src/thread.c`) | the handle: entry, argument, result | spawn, trampoline, join | the result is written by one thread and read by another |
| Build cache (`compiler/driver/cache.go`) | `manifest.json`, `entries/<key>`, a copy of the manifest in each process | Open, Get, Put, Flush, Clear | no write is atomic, processes overlap and die |
| Build driver (`compiler/driver/build.go`) | source, binary | read, key, look up, compile, link, store | a hit is trusted when the binary path exists |
| Versions and ranges (`compiler/pkg/version.go`) | none | parse, compare, contain, intersect, select | ends of intervals, major version 0 |
| Dependency resolver (`compiler/pkg/resolver.go`) | `constraints`, `selected`, `visiting`, the recursion | Resolve | constraints arrive after a selection; cycles; map iteration order |
| Package commands and lockfile (`cmd/fuse/pkg.go`, `compiler/driver/pkg_integration.go`, `compiler/pkg/lockfile.go`, `manifest.go`) | `fuse.toml`, `fuse.lock` | add, remove, update, ResolveForSource | two files change one after the other; faults and overlap |
| Artifact fetcher (`compiler/pkg/fetcher.go`) | a content-addressed directory | Fetch | concurrent fetches, self-heal by removal, torn writes |
| Language server (`compiler/lsp`) | open documents, shutdown flag | the handlers of the JSON-RPC loop | messages in flight; UTF-8 against UTF-16 positions |
| Front end (`lex`, `parse`) | position, token list, nesting depth, diagnostics | Run, ParseTokens | ends of lexemes, precedence, recovery that must move on |
| Middle (`resolve`, `hir`, `check`, `consteval`, `liveness`, `monomorph`) | one program at a time | sequential passes | pure algorithms with many cases, filled maps read in Go's order |
| Back end (`lower`, `mir`, `codegen`) | the builder: blocks, current block, registers | Lower, Validate, EmitC11 | block numbers that one form assumes of another; what the checker let through |

How they interact: `fuse build` reads the manifest and the lockfile
(`ResolveForSource`), computes the cache key, asks the cache, and on a miss runs
the passes in order and links against the runtime. `fuse add/remove/update`
change the files the next build reads. The language server runs the front end
on each text it receives. A compiled program calls the runtime's channels and
threads.

What makes each part correct is stated as properties in its module; section 3
lists them. The hazards they are aimed at are in `PROJECT.json`, each at the
line where it bites.

## 2. Modules

| Module | Models | Extends |
|---|---|---|
| `BoundedChannel` | abstract specification: an atomic FIFO channel of bounded capacity | |
| `FuseChan` | `chan.c`, one action per critical section or sleep | |
| `MCFuseChan` | TLC instance | `FuseChan` |
| `RtSession` | `thread.c`, and an external program of threads around a channel | `FuseChan` |
| `RuntimeProofs` | proofs about the channel, whoever calls it, and about that program | `RtSession` |
| `BuildCache`, `MCBuildCache`, `BuildCacheProofs` | `cache.go` and `Build` | |
| `Semver`, `SemverCheck` | `version.go`; reference definitions | |
| `PkgResolver`, `MCPkgResolver`, `PkgResolverTwice` | `Resolver.Resolve`; registries for TLC; two resolutions compared | `Semver` |
| `PkgResolverProofs` | proofs about ranges, selection and resolution | `PkgResolver`, `SemverCheck` |
| `PkgManager`, `MCPkgManager` | the package commands and `ResolveForSource` on the two files | |
| `Fetcher` | `Fetcher.Fetch` on a shared directory | |
| `PkgFilesProofs` | proofs about both: processes that share files | `MCPkgManager`, `Fetcher` |
| `LspText`, `LspTextCheck` | position arithmetic of the language server; reference definitions | |
| `LspServer` | the server loop with an editor at the other end of two pipes | `LspText` |
| `LspProofs` | proofs about positions, edits, documents, markers and answers | `LspServer`, `LspTextCheck` |
| `Induction` | induction and recursion along `0 .. n`, for the proofs about loops | |
| `TypeTable` | `compiler/typetable`: the interner | |
| `Monomorph` | `compiler/monomorph`: types as trees, the passes of `Specialize` | |
| `Liveness`, `MCLiveness` | the use-after-move check of `compiler/liveness`, beside a run of the function; functions for it | |
| `Resolve` | `compiler/resolve`: index, imports, cycles, paths, visibility | |
| `CompilerProofs` | proofs about these four: type identity, instances, moved values, import cycles, visibility | the four, `Induction` |
| `ConstEval` | `compiler/consteval`: values of constants and statics | |
| `ConstEvalCheck` | the programs it is checked on | `ConstEval` |
| `CompilerCheck` | the inputs of the other four compiler modules for TLC | the four, by `MCLiveness` |
| `Algorithms` | the sequential algorithms above, one per behaviour | `SemverCheck`, `LspTextCheck`, `CompilerCheck`, `ConstEvalCheck` |
| `Concurrent` | the parts whose actors take turns, one per behaviour | `RtSession`, `LspServer`, `MCPkgResolver`, `MCPkgManager`, `Fetcher` |
| `Scanner`, `MCScanner` | `compiler/lex`: the scanner, one routine per action; texts | |
| `ScannerProofs` | proofs about the tokens of a text | `Scanner`, `Induction` |
| `Parser`, `MCParser` | `compiler/parse`: every parse function and error recovery; printed trees and broken streams | |
| `CheckBody` | `compiler/check`, the bodies of functions and the arms of matches | |
| `Mir` | `compiler/mir`: builder and `Validate`; what the instructions are meant to do | |
| `Lower`, `MCLower` | `compiler/lower`: every form it has a case for; what programs mean, and small programs | `CheckBody`, `Mir` |
| `Sources` | the front and back end, one per behaviour | `MCParser`, `MCScanner`, `MCLower` |

### FuseChan
`ring`, `closed` are the fields of `fuse_chan`; `owner` is the holder of the
mutex, `waitFull` and `waitEmpty` the threads asleep on `not_full` and
`not_empty`, `op`, `val`, `rc` the call each thread is in, its element and its
result. A call takes the mutex (`Lock`), then either goes to sleep, which
releases the mutex in the same step as `pthread_cond_wait` does, or completes its
critical section (`Send`, `Recv`, `TrySend`, `TryRecv`, `Close`), the trailing
signal and the unlock included. A signal moves one sleeper, chosen by the
scheduler, to the threads that want the mutex; `SpuriousWake` moves one for no
reason. `Cap` turns a requested capacity below 1 into 1, as `fuse_rt_chan_new`
does. Elements are values, and a slot that was never written holds `Zero`
(`calloc`). `Free` in this module assumes nobody is inside; `RtSession` replaces
that assumption by the joins.

### RtSession
`handle[t]` follows a `fuse_thread` from spawn to join; that is `thread.c`. The
program around it is a client of the runtime and is mapped as external. It
generalises `runtime/tests/c/test_sync.c` 92-134, where one worker sends five
values and closes the channel while main receives, joins and frees: here there are
several producers and consumers, main joins the producers, closes, joins the
consumers and frees, and each worker counts the calls that succeeded. A failed
`calloc` or `pthread_create` ends the program.
Fairness: weak fairness of main, of every worker and of every thread inside the
channel. The operating system schedules every runnable thread; the number of
calls is finite, so no thread is overtaken for ever at the mutex and strong
fairness is not needed. Spurious wake-ups are bounded by `MaxSpurious` and not
fair.

### BuildCache
`source`, `binary`, `payload`, `manifest`, `broken` are on disk; `mem`, `dirty`
are the in-memory manifest of each process. Each non-atomic write
(`os.WriteFile`, the linker) is two actions, with `Crash` possible in between. A
write may fail, when `Faults`, at open, which leaves the old content, or later,
which leaves the file truncated; after a failed write of the manifest `dirty` stays
set. `Clear` lists the payload files (`ClearBegin`, which fails before it has
changed anything), removes them one by one whatever `os.Remove` returns
(`ClearRemove`), and flushes an empty manifest (`ClearEnd`). `Return` ends a build,
successful or not: what it read of the source is forgotten. A SHA-256 key is modelled by the inputs it digests. A diagnostic in any pass is the
action `Rejected`. `built` is a history variable: the inputs some build linked.

### Semver, PkgResolver
A version is three numbers; a range is `[lower, upper)` or unbounded. The
scanner that splits a spec into its operator and versions is left out; a range
that does not parse, and a manifest without dependencies, end `ResolverInit` before
the walk, as in `Resolve` (status `bad-range` and `empty`).
`PkgResolver` turns the recursion of `walk` into a stack of frames; `WalkRoot`
picks any remaining root constraint because Go iterates maps in any order.
Fairness: weak fairness of `ResolverNext`, as one goroutine that is never blocked.

### PkgManager
`toml` is the parsed manifest, `lock` the parsed lockfile or `NoLock`; a
dependency is a kind (version, path, both) because that decides what
`appendPathDeps` and the resolver put in the lockfile. Each command is its
sequence of file operations. `clean` is a history variable that turns false when
commands overlap or one of them fails or dies.

### Fetcher
`entry[d]` is what the file named by digest `d` holds: absent, good, bad. `start`
remembers the initial condition. Steps are the file operations of `Fetch`:
lookup with digest check, removal of a mismatching entry, download, verification,
temporary file, rename. The removal may fail, which `Fetch` ignores, and an entry
that is there but cannot be read is taken for one that is absent.

### LspText, LspServer
A text is a sequence of characters with a width in UTF-8 bytes and in UTF-16
units. `LspServer` handles one message per action, its answer included, because
the server is single-threaded; the editor types and asks while messages are on
their way. Each handler is an action, with a disjunct for each of its return paths:
parameters it cannot decode, a document that is not open, no identifier at the
cursor, a result. The three handlers that look up a document and nothing in it
(`HandleDocumentRequest`) share one, as do the two that look up none
(`HandleWorkspaceRequest`). A body without a method is answered under the id it
has, one that does not parse under the null id. Notifications with bad parameters are
answered too, also under the null id. Diagnostics are represented by the text they
were computed from.

### TypeTable
`types` and `byKey` are the fields of `Table`; `denotes` is a history variable
that holds, for each id, the type written out in full. A request is a call of a
constructor with ids the table has given out, or `NoType`. The string `key()`
builds is modelled by the fields it spells out, and the sorted list of trait
bounds by the multiset it lists.

### Monomorph
The passes of `Specialize` are the actions and the maps of `struct monomorph` its
state. A body is the types of its nodes and its calls; `walked` marks the calls
in expressions the passes visit. The symbol a generic function is indexed under
is drawn as Go's map iteration may draw it. A type is a tree, a function from
paths to nodes, and substitution a graft: `SubstType` replaces the parts the
recursion of `substType` reaches, and `Instantiated`, which the property compares
it with, the parts at every depth. `IsItem` and `IsCall` say what the bridge hands over: a
type of its own for each generic parameter, and calls of items that have symbols.

### Liveness
The check runs on the functions that monomorphisation leaves. `body` lists the
statements in the order `walkMove` meets them, blocks and the branches of an if
between brackets, and the arguments of a call before the call; `owned` is an
argument in the slot of an owned parameter. `nextStmt` is the one walked next and `env` the
one environment of the walk. `run` is the same function being run, a step beside each
step of the walk: a stack of bindings with a mark where a block begins, whether
each value is gone, which branches are passed over, whether the function has
returned, and the moved values it has read. An `if` takes either branch. In the
run a value moves by `let`, by `var` and by an owned argument, as the comment at
`liveness.go` 391-398 and the reference say; the walk moves nothing for the last.
A value of a kind `walkMoveExpr` does not enter is `unwalked`: the function reads a
name inside it and the walk does not. `MovesAreCaught` is claimed for functions that
give nothing but Copy values to owned parameters and have no such value;
`MovedReadsAreReported` drops both exceptions, and is violated.

### Resolve
The passes run in the order of `Resolve`. `scopes`, `edges`, `bindings` are the
fields of the resolver, a symbol is written out rather than numbered, and
`refused` holds the diagnostics by what they are about. An enum whose name was
taken is not entered, nor are its variants (`Entered`). One action resolves one
import, because later imports see its alias. Tarjan's algorithm is one action
per edge and per return of `strong`, its recursion a stack of `frames` that hold the
imports the loop of a call has yet to visit. `@cfg` filtering, duplicate modules and
file discovery come before and are left out.

### ConstEval
One action evaluates one declaration, in program order. `cached` is
`constValuesCache`, threaded through every evaluation; the depth, which the code
keeps in the evaluator and restores on return, is a parameter. `WordBits` and
`MaxDepth` stand for the 64 bits of a word and for `maxRecursionDepth`; words are
as wide as the widest type, as in the code. `Denote` is the reference: integers
without words, depth, cache or order.

### Scanner
`src` is a text of named characters (letters, digits, quotes, CR, LF, one letter
outside ASCII and one outside the BMP), `here` the position with its offset, line
and column, `tokens` and `lexErrors` what has been found. One action is one turn
of `Run`: skip what is trivia, then scan one token. `advanceByte` takes a CR and
the LF after it together, as in the code. `count` is the number of hashes of a raw string
or the depth of a comment. Keywords are not told from identifiers. Lexemes that
cannot hold a line end are found at once (`Past` is the first place beyond a set of
characters); every turn of a loop that can meet one is a step.
`TokensTileTheText` compares the result with a grammar of lexemes written as
predicates on slices of the text (`IsLexeme`), and positions with `PlaceOf`.

### Parser
A parse function is a program of a small machine: a sequence of instructions such
as `Expect`, `Parse`, `Repeat`, `OrSync`, one for each call and test of the code,
in their order. `stack` is Go's call stack, `depth` the counter of `enter` and
`leave`, `val` the value returned, and `out` the tree in postfix order. Token
kinds are the alphabet. `synchronize`, the forcing of progress in `parseFile`, the
limit of the nesting and the prohibition of struct literals in the heads of `if`,
`while`, `for` and `match` are instructions too; `Forget` drops the decorators or the visibility that the node
of an item has no field for. `ParseInvertsPrint` says that
the tokens of a tree, printed with parentheses where the grammar's precedence asks
for them, parse back to that tree without a diagnostic; `Show` prints and knows
nothing of the parser. `ParserTerminates` assumes weak fairness of the step of a
single goroutine.

### CheckBody, Lower, Mir
`TypeCheck` gives a declaration the types `checkFnBody` does; `LowerDecl`
runs `lowerFn` on it when nothing was diagnosed. The builder is a record: blocks,
current block, number of registers, and how the lowering goes (`going`, `refused`
after a diagnostic, `panicked`). `Validate` walks blocks in the order of their
numbers. `Run` is what the instructions of a function are meant to do: it returns a
value and the events (calls, sends, joins, field writes) in the order they happen.
Block structure, registers and arithmetic are those of the C that `emitFunction` and
`emitInst` print; an event is opaque, and for some of them the bodies printed by
`w15_emission.go` do something else (listed below under `codegen`). A cast is an
event that returns its operand.
`LoweringPreservesMeaning` compares it with `Meaning`, an evaluator over the
expressions that has no blocks or registers, on every argument and for several
answers of the functions called. `Plain` names the programs it is claimed for;
what it leaves out are exactly the disagreements listed below.
`ExhaustiveMeansTotal` says that a match the checker accepts as exhaustive has,
for each value of the type, an arm that accepts it.

### Concurrent, Sources, Algorithms
The parts in each share no state. A behaviour picks one of them at the start and
leaves the others at rest, so that the state space is the sum of theirs and not
the product. Each part's module stands alone.

## 3. Runs

| Run | Checks | Bounds |
|---|---|---|
| `chan` | `TypeOK`, `RingConsistent`, `NoLostWakeup`, `ClosedReleasesWaiters`, `ImplementsBoundedChannel` | 3 threads, 2 values, capacity 2: both ends of the ring, wrap-around, two sleepers beside one active thread |
| `cache` | `TypeOK`, `CacheNamesOnlyBuilt` | 2 processes, 2 source texts, crashes, failed writes, deletions, an edit |
| `algorithms` | `ParsesAsDocumented`, `IntersectIsConjunction`, `SelectsTheLatest`, `PositionsAgree`, `EditsReplaceTheSelection`, `IdentifierUnderCursor` | versions with components 0..1, so that every bound meets its neighbour; texts of up to 4 characters of every width |
| | `SameIdSameType` | 1 primitive, 2 further types, lists of up to 2: one type nested in another, two orders of the same bounds |
| | `OutputIsConcrete` | 3 items, 2 calls in `main`, type arguments that are parameters, pointers, tuples and arrays; every draw of the index |
| | `MovesAreCaught` | 3 statements, or a block or an `if` with a statement in each branch between two others; shadowing, Copy and owned names, owned parameters, values and patterns the walk does not see |
| | `CyclesReportedOnce`, `AcceptedNamesAreVisible` | 3 modules, one inside another; every import graph; every chain of re-exports of an item of every visibility; an enum whose name is taken |
| | `ConstantsAreTheirMeaning` | every operator, cast and pattern on 3-bit operands, the edges of 5-bit ones; 3 declarations that refer to each other in any way, cycles included, in two orders; depth 3, so that it runs out with and without the help of the cache |
| `concurrent` | `FreedIsQuiescent`, `EveryElementDeliveredOnce`, `ProgramEnds` | 2 producers, 2 consumers, capacity 1 (requested 0), 2 sends each, 1 spurious wake-up |
| | `DocumentsInSync`, `MarkersAreCurrent`, `AnsweredOnce` | 1 document, texts of up to 2 characters, 3 messages, 1 malformed |
| | `ResolutionSound`, `ResolutionAcyclic`, `CycleIsReal`, `ResolutionEnds` | every registry over 3 packages with at most one dependency per version, every manifest, every order |
| | `CleanCommandsKeepTheLock`, `LockIsNeverMixed` | 2 processes, 1 dependency name, 2 root versions, faults and kills |
| | `ReturnedIsNeverCorrupt`, `UsableUnlessCorrupt`, `CorruptionNeverSpreads` | 2 processes, 2 digests, every initial condition, 1 retry each |
| `sources` | `TokensTileTheText` | every opening of a lexeme followed by what may end, extend or break it; LF line ends |
| | `ParseInvertsPrint`, `ParserTerminates` | every form of the grammar over small parts, every two operators in each other; streams cut short and mixed; nesting limited to 8, so that the limit is met |
| | `LoweringPreservesMeaning`, `ExhaustiveMeansTotal` | 4,043 functions: every form over every atom, two levels, and matches over every list of up to 3 patterns |
| `cache_revert` | `CacheHitIsFresh` is violated | 1 process, no faults |
| `resolver_order` | `IterationOrderIrrelevant` is violated | one ordinary project |
| `pkg_fault` | `LockMatchesManifest` is violated | 2 processes with faults |
| `fetch_heal` | `ReturnedIsUsable` is violated | 2 processes, a corrupt entry |
| `moved_reads` | `MovedReadsAreReported` is violated | the functions of `algorithms` |
| `scan_crlf` | `OnlyTriviaIsDropped` is violated | short texts with CR LF |
| `parser_hang` | `ParserTerminates` is violated | one trait with a `pub` method |

Runs in which the system may stop turn deadlock checking off: programs end,
resolutions end, editors hang up, bounded inputs are exhausted. Every property of
a passing run has a mutant in `PROJECT.json`: a plausible mistake in the code it
is about, under which TLC finds the property violated.

### What the violations show
* `cache_revert`: `Build` accepts a hit when the binary path exists. Build text
  0, edit, build text 1, undo the edit: the entry of text 0 is still there and
  the binary is that of text 1. The comment of `buildCacheKey` promises that "a
  cache hit is always safe to reuse".
* `resolver_order`: `constraintsSortedCopy` returns a map, so the range over it
  is in random order. One order selects a version before a tighter constraint
  arrives and fails; another succeeds.
* `pkg_fault`: the manifest is renamed into place and the lockfile removed
  afterwards, its error ignored. The package comment promises that a partial
  write leaves both files in their prior state, and that the next build resolves
  again. The trace needs no fault: a build reads the old manifest, `fuse add`
  replaces it and removes the lockfile, and the build writes the lockfile of what
  it read. A single process gets there by dying, or failing to remove, in between.
* `fetch_heal`: two processes read the same corrupt entry. The faster heals it,
  fetches and returns; the slower then removes, by name, the verified file.
* `moved_reads`: `walkMoveExpr` reads the arguments of a call and moves none, so
  `consume(x); x` passes. The comment of the check names owned parameters among
  the moves it tracks, and the reference forbids the second use. The same property
  fails for `let y = x` and a read of `x` inside a field access, a match, a loop, a
  closure or an assignment, which the walk does not enter.
* `scan_crlf`: the loop of a line comment waits for an LF at its position, but
  `advanceByte` steps over a CR LF pair at once, so the comment swallows the next
  line. The reference says that line endings may be LF or CRLF.
* `parser_hang`: `parseTraitItem` returns nil at a token it does not know without
  consuming it, `synchronize` stops at `pub` and at the keywords of items, and the
  loop of `parseTraitDecl` goes round again. `parseFile` has a guard against this,
  the loops inside traits and impls have none.

Further disagreements seen while modelling, without a run of their own: a frame with a bad header ends the LSP session (`server.go`
43-46 says a malformed message does not); `handleDidClose` publishes a null list
rather than an empty one; a nil result is omitted from a JSON-RPC response; the
clauses of a compound range overwrite each other, so `>=1.0.0, >=2.0.0` means
its last clause; `Cache.Get` hands out a payload that a killed `Put` left truncated
while the manifest on disk still named its key, although `cache.go` 125-128 promises
that callers never receive a silently corrupt entry (`Build` survives, as it cannot
decode the payload; other callers of `Get` have no such check).

In the compiler passes, likewise:
* `monomorph.go` 128-134 indexes a generic function under the first symbol, in
  map order, that has its TypeId; another item of the same type may take its
  place, and the function's calls are then left alone.
* A copy of a generic body keeps its calls of other generic functions, which
  `buildOutput` drops ("only concrete instantiations reach codegen"); calls inside
  loops, matches and closures are not visited, nor are const initialisers
  rewritten; `substType` does not enter arrays, trait objects and arguments of
  nominal types; copies whose arguments differ only inside a pointer or tuple
  have the same mangled name. `OutputIsConcrete` states what is left.
* `liveness`: a name bound again after a move is still reported; moves in loops and
  names from patterns are not seen.
* `resolve` binds imports in the order of module paths, so an import through a
  re-export succeeds or fails with the names of the modules; the comment of
  `detectImportCycles` says it avoids recursion, and `strong` recurses; the
  comment of `enforceVisibility` says uses through an alias are not checked again,
  and they are, against the item itself.
* `consteval` compares range patterns on the unsigned words, so a range over
  negative numbers matches nothing (the run's ranges are over unsigned types);
  no assignment is evaluable, so a loop leaves in its first turn or runs to its
  limit, although the hint at `eval.go` 317 advises "refactor the algorithm to
  iterate"; a chain of more than 256 constants is accepted when it is declared
  from its end and refused from its start.

* `parse` joins the bounds of a type parameter and of a trait with `+` and reads
  decorators before the visibility, where Appendix C of the reference
  (`docs/fuse-language-reference.md` 4891-4944) has `,` and the visibility first;
  `Show` prints what the parser reads. The decorators of traits and type
  declarations, of constants and types inside traits and of types inside impls are
  parsed and dropped without a diagnostic, as is the visibility of a type inside an
  impl.
* `parse` refuses `spawn move fn ...`, which the reference uses; an item keyword
  inside a block at the limit of the nesting is met again and again, as in
  `parser_hang`.
* `check`: the enum a pattern names is never compared with the scrutinee's;
  `let x: T = e` is not checked for assignability, nor are arguments of calls;
  closures, the receiver of `?.` and slices are not visited, so a match in them is
  never checked for exhaustiveness and yields 0 when no arm fits; the type of
  `spawn` is overwritten with `Infer`, so `spawn f.join()` is lowered as an
  ordinary method.
* `lower`: neither `checkExhaustive` nor `lowerMatch` reads an arm's guard, so
  `match r { Ok if b => 1, _ => 2 }` is 1 for `Ok` whatever `b` is, although
  `lower.go` 359-362 promises a diagnostic "rather than a silent approximation" for
  arms it does not support; the properties exclude guards.
* `lower`: `lowerMatch` and `lowerTry` take the block they started in to be the
  one numbered just before their own. After or inside another match it is not; the
  function is then refused by `Validate`, as the block left open has no
  terminator. A name bound by a pattern is not bound in the arm, where it names
  the parameter so called, if any. Statements before an arm's last expression are
  dropped; `return` in an arm is the arm's value; `?` in a closure called on the
  spot leaves the function around it. A catch-all that is not last but is not
  recognised as one by the checker (`n @ _`, `true | false`) ends in a nil
  dereference, and a match without arms in an index panic.
* `lower` emits a call by name for a local as for a function; the checker has refused
  it, unless the local's type is still to be inferred or the call is where it does
  not look.
* `codegen` (`w15_emission.go`): a field is read and written at offset 0 whatever its
  name (86-91), `slice_new` drops the upper bound (71-78), `struct_copy` is an alias
  (103), and every narrowing cast goes to 32 bits (203); `CheckNoMoveAfterMove` and
  `PassInvariants` are not called by the driver, and `Validate` looks for
  definitions in the order of the blocks and not along the edges.

## 4. Proofs

TLAPS checks the theorems below for every value of the constants that satisfies
the named assumptions.

| Theorem | Statement | Argument |
|---|---|---|
| `RuntimeProofs!TypeCorrect` | types and index bounds | inductive as it stands |
| `RuntimeProofs!RingStaysConsistent` | `tail = (head + count) % capacity` | with types; modular arithmetic is isolated in `ModSmall`, `ModWrap`, `AdvanceAdds` |
| `RuntimeProofs!CloseReleasesEveryone` | nobody sleeps on a closed channel | with types; waiters are in the call that put them to sleep |
| `RuntimeProofs!WakeupsAreNeverLost` | while receivers sleep, every element has an awake receiver or signal under way, and dually for senders | cardinalities of finite thread sets (`CardinalityGrows`, `CardinalityShrinks`) |
| `RuntimeProofs!ChannelRefinement` | `chan.c` implements `BoundedChannel` | the ring read from `head` is the abstract queue; `EnqueueAppends`, `DequeueTakesHead` |
| `RuntimeProofs!SessionRefinesChannel` | the program of `RtSession` is a user of the channel: `SSpec => Spec` | from the program's invariant every step is a channel step or a stutter, so the theorems above hold in it |
| `RuntimeProofs!FreeIsSafe` | nobody is inside or asleep on the channel when it is freed | `Stages`, `Insiders`: who may be in which call at which point of main, and a joined thread is in none |
| `RuntimeProofs!DeliveredOnce` | the joins account for every element exactly once | `Accounts` (what a worker has counted) and `Conservation`: elements sent = elements received + elements in the ring, sums being cardinalities of sets of pairs |
| `BuildCacheProofs!CacheTyped` | types of disk, memory and program counters | inductive as it stands |
| `BuildCacheProofs!OnlyBuiltKeysAreCached` | the cache names only what was built | strengthened by: between link and Put the key in hand is built, and what Get returned is built |
| `PkgResolverProofs!IntersectIsExact` | `Intersect` is conjunction, and reports emptiness exactly, for any two ranges | the order on versions is lexicographic and linear; a non-empty intersection contains one of the lower bounds |
| `PkgResolverProofs!SelectLatestIsExact` | on a list of any length the greatest version in range is selected | induction along the loop: `Chosen` of the first `i` candidates |
| `PkgResolverProofs!RangesMeanTheirDocs`, `ConflictsAreReal`, `LatestIsSelected` | the three properties of the run `algorithms`, for version numbers of any size | `Rank` orders like `LessThan` when components are digits (`DigitOrder`, `RankOrder`); one lemma per form of range; a compound range is a loop over its clauses |
| `PkgResolverProofs!ResolutionIsSound` | a successful resolution satisfies every constraint and selects nothing needless | `FramesOK`, `FinishedOK`, `RootsOK`, `Fits`, `Needed`: the constraint of each dependency already passed is part of the conjunction, which later intersections only tighten |
| `PkgResolverProofs!ResolutionIsAcyclic`, `CyclesAreReal` | success has no cycle, a reported cycle is one | a package that has returned only needs packages that have, and each set of them has one that needs none of the set; each frame needs the one above it |
| `PkgFilesProofs!LockNeverMixed` | the lockfile, and what a build reads from it, is one resolution of a manifest that was on disk | the same of every lockfile in the hands of a process |
| `PkgFilesProofs!CleanCommandsAreSafe` | `CleanCommandsKeepTheLock` | while clean, commands run one at a time (`OneAtATime`), what a command has read is still on disk, and a fresh lockfile lists the crates of the manifest |
| `PkgFilesProofs!VerifiedBeforeReturned` | no returned path is corrupt | a verified download is good; a rename installs only verified bytes |
| `PkgFilesProofs!CorruptionStaysPut` | no step corrupts an entry | action property from the same invariant |
| `PkgFilesProofs!UsableWithoutCorruption` | an entry that is not corrupt at first stays usable once returned | nobody removes an entry that was never corrupt |
| `LspProofs!PositionsAreExact` | offsets and client positions convert into each other, and nothing else is accepted | widths of prefixes are monotone, strictly in bytes and units (`Distance`), by induction along the text; a line starts after the last line end before it (`StartOfLine`) |
| `LspProofs!EditsAreExact`, `IdentifiersAreWhole` | an edit replaces the selection; a word is maximal | from the conversions; the ends of a word are a minimum and a maximum |
| `LspProofs!DocumentsStayInSync` | a server that has caught up has the editor's documents | `History`: there is a sequence of document states, from the server's to the editor's, one per message in the pipe, each the effect of its message on the one before |
| `LspProofs!MarkersStayCurrent` | the markers on the screen are those of the text on the screen | `FreshMarkers`: the last publication on its way, or what is shown when there is none, is that of the server's text |
| `LspProofs!RequestsAreAnsweredOnce` | no request is answered twice, and none is left when the pipes are empty | `Accounted`: a request is in one pipe, once, or was read, or its answer was |
| `CompilerProofs!InternIsTypeEquality` | TypeIds are equal exactly when the types are | the key determines the meaning and is determined by it, request by request (`KeyIsMeaning`); lists and multisets of ids map injectively to those of types (`ListsInjective`, `BoundsInjective`) because ids do |
| `CompilerProofs!ReportsEveryCycleOnce` | the reported cycles are the strongly connected components with a cycle, each once | `Search`: a call leads to all that was entered after it, all that is on the stack leads to a call entered before it, the low link of a call is the number of a module it leads to, and no visited import out of its part of the stack goes below it. A root is then on top of one component (`RootIsAComponent`), and popping it or handing its link to the caller keeps `Search` |
| `CompilerProofs!AcceptedNamesAreSeen` | an accepted name stands for an item its module may see | `Holds`: what the scopes and the bindings hold lies in a set that has the targets of its aliases; an alias has its target's visibility and the import that made it was accepted, so visibility passes along the chain, `pub(mod)` because descent is transitive (`DescendantsDescend`) |
| `CompilerProofs!MonoOutputIsConcrete` | calls the passes walk reach the instance they ask for; names collide only as listed | `MonoInv`: what each pass has left is a function of the input. `substType` is full substitution on types where no parameter hides below a kind it does not rebuild (`SubstIsInstantiation`), because the outermost replaced paths are the same; the name of a copy determines its arguments up to what `typeNameForMangle` drops |
| `CompilerProofs!MovedValuesAreCaught` | `MovesAreCaught`: no value moved by `let` or `var` is read, in functions that give away none through an owned parameter and hide none where the walk does not enter | `Tracked`: every name in the run's scopes was met by the walk and every value that is gone was seen to move, in whichever branch or block, because `moved` only grows. Conversely, in straight-line code that binds a name once, `Deserved`: what the walk knows the run has done |
| `ScannerProofs!ScannerTokensAreLexemes` | every token is the longest lexeme at its place, tokens follow each other, lines and columns are right | `LexInv`: in each mode, what has been read since `from` begins a lexeme of that mode's kind; walking to an offset gives `PlaceOf` (line ends are counted, a CR LF pair once); for each kind, no longer lexeme of any kind begins where the routine stops |
| `ScannerProofs!ScannerTokensTileTheText` | and without errors only blanks and comments lie between two tokens | `TriviaInv`: since the last token there was trivia, and `BlockOK` keeps the stack of comments that are open. Its hypothesis `LineCommentsEndInLF` (between `//` and a later CR LF there is an LF) is needed: without it `scan_crlf` shows the violation |

Loops of the code are recursive functions over `0 .. n` in the modules, and what
they compute is proved with `Induction`: `PrefixInduction` is an induction rule
about a set, not about an operator, which follows from the well-foundedness of
inclusion among finite sets; `LoopExists` gives a loop its sequence of
accumulators. A proof cites them for the set of indices at which its claim holds.

Assumptions: `RequestedAssumption` (the requested capacity is an integer),
`ThreadsAssumption` (finitely many threads, for the counting arguments),
`ProgramAssumption` (main, producers and consumers are different threads and
there is a consumer), `ConfigAssumption` and, for the types of the build cache,
at least one configuration, `RegistryAssumption` (a registry gives each name a
list of versions and each version a list of dependencies), `PkgManagerAssumption`,
`FetcherAssumption`, `TopAssumption`, `LspServerAssumption`, `KindAssumption` (distinct
kinds of types), `TreesAssumption` (a module has finitely many uses, and a used path
has a segment), `SourcesAssumption` (a program is what resolver and bridge hand over:
items with symbols and names of their own, types that are trees),
`BodiesAssumption` (a body is a list of statements, and no name is the mark of a block),
`TextsAssumption` (no character is the end of the text). TLC evaluates them in every
run of their modules. `LineCommentsEndInLF` is the hypothesis of one theorem; the
texts of the run `sources` satisfy it. The bounds among the
constants (`MaxText`, `MaxSent`, `Top`, `MaxLen`, ...) are arbitrary numbers in the proofs.

Only model-checked: liveness (`ProgramEnds`, `ResolutionEnds`, `ParserTerminates`),
which the prover does not do; `ConstantsAreTheirMeaning`, `ParseInvertsPrint`,
`LoweringPreservesMeaning` and `ExhaustiveMeansTotal`, which compare the code with
references that are recursive over trees, and no induction over data is available.
That Tarjan's search, a scan or a walk ends is liveness and is not claimed.
`MonoOutputIsConcrete` says nothing about runs in which the index drew the wrong
symbol: there the property assumes `Indexed`, and section 3 says what happens.

## 5. Not modelled, and the plan

Pure I/O and thin wrappers (`runtime/src/io.c`, `memory.c`, `time.c`,
`compiler/cc`), text output (`fmt`, `doc`, `diagnostics`, `repl`), the TOML reader
and the repository checks under `tools/` keep no protocol state.

Left out of parts that are modelled: HIR identity and the incremental manifest;
traits, generics and declarations in the checker; the analyses of closures and of
`dyn`; borrows and drops in liveness; `@cfg` predicates; tuples, structs and
layouts in constant evaluation; names, headers and intrinsics of the emitted C;
`fuse vendor`.

The order of the remaining work:

1. the rest of liveness (borrows, drops), `@cfg` predicates, lock ranking and
   object safety in the checker;
2. HIR identity and the incremental manifest, whose stale entries are the build
   cache's hazard once more;
3. `RtSync`: mutexes and condition variables of `sync.c`, shared by the channel.
