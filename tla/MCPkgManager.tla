----------------------------- MODULE MCPkgManager -----------------------------
(***************************************************************************)
(* PkgManager with a history variable: the resolution of every fuse.toml   *)
(* there has been.                                                         *)
(***************************************************************************)
EXTENDS PkgManager

VARIABLE resolutions

Resolutions(m) == IF Resolvable(m) THEN {ResolvedLock(m)} ELSE {}

HInit == CommandInit /\ resolutions = Resolutions(toml)
HNext == CommandNext /\ resolutions' = resolutions \cup Resolutions(toml')
HSpec == HInit /\ [][HNext]_<<commandVars, resolutions>>

\* Whatever commands and builds interleave, fail or die, the lockfile on disk
\* and every lockfile a build goes on with is the exact resolution of one
\* fuse.toml that existed, never a mixture of two.
LockIsNeverMixed ==
  /\ lock # NoLock => lock \in resolutions
  /\ answer # NoAnswer => answer.lock \in resolutions
=============================================================================
