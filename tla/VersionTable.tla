---------------------------- MODULE VersionTable ----------------------------
(***************************************************************************)
(* What the handlers rely on when they look an agent version up in         *)
(* config.InjectorAgentVersion (mutation_deploy.go, mutation_pod.go): an   *)
(* entry is the whole spec of some AgentVersion, stored under the version  *)
(* that spec names, and the entries of a running process are replaced but  *)
(* never taken away.                                                       *)
(***************************************************************************)
CONSTANTS
    AgentVersionSpec,   \* specs: records with a field version, and others
    Versions,           \* the values of that field
    Nil                 \* not one of the specs

VARIABLES
    published,              \* specs that AgentVersions have or have had
    InjectorAgentVersion    \* the entries

vars == <<published, InjectorAgentVersion>>

NoEntries == [v \in Versions |-> Nil]

Init == published = {} /\ InjectorAgentVersion = NoEntries

\* Users create and change AgentVersions.
Publish(specs) ==
    /\ specs \subseteq AgentVersionSpec
    /\ published' = published \cup specs
    /\ UNCHANGED InjectorAgentVersion

\* An entry is replaced by what an AgentVersion says, now or at some time before.
cacheAgentVersion(spec) ==
    /\ spec \in published
    /\ InjectorAgentVersion' = [InjectorAgentVersion EXCEPT ![spec.version] = spec]
    /\ UNCHANGED published

\* A new process knows of nothing.
Restart == published' = {} /\ InjectorAgentVersion' = NoEntries

Next ==
    \/ \E specs \in SUBSET AgentVersionSpec : Publish(specs)
    \/ \E spec \in published : cacheAgentVersion(spec)
    \/ Restart

Spec == Init /\ [][Next]_vars
=============================================================================
