-------------------------- MODULE MCDeployAdmission --------------------------
(* DeployAdmission for TLC. *)
EXTENDS DeployAdmission, TLC

CONSTANT Version    \* a version to label Deployments with

\* A Deployment without the webhook's label, and two that have it and differ in
\* where they ask for the version.
Plain == [match |-> FALSE, label |-> Nil, template |-> Nil]
Templated == [Plain EXCEPT !.match = TRUE, !.template = Version]
Tagged == [Plain EXCEPT !.match = TRUE, !.label = Version]

MCObjects == {Plain, Templated, Tagged}
MCTagged == {Tagged, Templated}

\* Requests differ in nothing but their names, nor do default revisions.
Symmetry == Permutations(Requests) \cup Permutations(Defaults)
=============================================================================
