----------------------- MODULE MCAgentVersionWatcher -----------------------
(* Instances of AgentVersionWatcher for TLC. *)
EXTENDS AgentVersionWatcher

CONSTANTS v1, v2, files

\* One version that can be enabled and disabled, and one to change to.
MCSpecs ==
    [version : {v1}, enable : BOOLEAN, configMapName : {files}]
    \cup {[version |-> v2, enable |-> TRUE, configMapName |-> files]}
=============================================================================
