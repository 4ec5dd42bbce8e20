------------------------------ MODULE Concurrent ------------------------------
(***************************************************************************)
(* The parts in which several actors take turns: threads around a channel, *)
(* the editor and the language server, the commands on fuse.toml and       *)
(* fuse.lock, processes that fetch into one cache directory; and the       *)
(* resolver, whose turns come from a map's iteration.  They share no       *)
(* state: a behaviour runs one of them and the others stay at rest.        *)
(***************************************************************************)
EXTENDS RtSession, LspServer, MCPkgResolver, MCPkgManager, Fetcher

VARIABLE part

concurrentVars == <<part, svars, lspVars, resolverVars, commandVars, resolutions, fetchVars>>

\* No worker could be spawned, and the program has stopped.
SessionAtRest ==
  /\ life = "aborted" /\ at = "aborted"
  /\ buf = [i \in 0 .. Cap - 1 |-> Zero] /\ head = 0 /\ tail = 0 /\ count = 0 /\ closed = FALSE
  /\ owner = NoThread /\ waitFull = {} /\ waitEmpty = {}
  /\ op = [t \in Threads |-> "idle"] /\ arg = [t \in Threads |-> Zero]
  /\ rc = [t \in Threads |-> "none"] /\ out = [t \in Threads |-> Zero]
  /\ handle = [t \in Workers |-> "none"] /\ left = [t \in Workers |-> Quota]
  /\ tally = [t \in Workers |-> 0] /\ result = tally /\ joined = tally /\ spurious = 0

\* An empty manifest has been resolved, on an empty registry.
ResolverAtRest ==
  /\ registry = [versions |-> <<>>, deps |-> <<>>]
  /\ manifest = <<>> /\ constraints = <<>> /\ todo = {}
  /\ selected = <<>> /\ stack = <<>> /\ status = "ok"

\* Nobody has called Fetch, and the cache directory is empty.
FetcherAtRest ==
  /\ entry = [d \in Digests |-> "absent"] /\ start = entry
  /\ want = [p \in Procs |-> CHOOSE d \in Digests : TRUE]

ConcurrentInit ==
  /\ part \in {"session", "server", "resolver", "commands", "fetcher"}
  /\ IF part = "session" THEN SInit ELSE SessionAtRest
  /\ LspInit
  /\ IF part = "resolver" THEN ResolverInit ELSE ResolverAtRest
  /\ HInit
  /\ FetchInit /\ (part # "fetcher" => FetcherAtRest)

Only(name) ==
  /\ part = name /\ UNCHANGED part
  /\ name # "session" => UNCHANGED svars
  /\ name # "server" => UNCHANGED lspVars
  /\ name # "resolver" => UNCHANGED resolverVars
  /\ name # "commands" => UNCHANGED <<commandVars, resolutions>>
  /\ name # "fetcher" => UNCHANGED fetchVars

ConcurrentNext ==
  \/ Only("session") /\ SNext
  \/ Only("server") /\ LspNext
  \/ Only("resolver") /\ ResolverNext
  \/ Only("commands") /\ HNext
  \/ Only("fetcher") /\ FetchNext

\* The threads' fairness is RtSession's, and Resolve runs to its end.
ConcurrentSpec ==
  ConcurrentInit /\ [][ConcurrentNext]_concurrentVars /\ Fairness /\ WF_resolverVars(ResolverNext)
=============================================================================
