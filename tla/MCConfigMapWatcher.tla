------------------------- MODULE MCConfigMapWatcher -------------------------
(* ConfigMapWatcher for TLC. The constants get their values in the cfg files. *)
EXTENDS ConfigMapWatcher, TLC

\* Contents are only ever compared: which is which makes no difference.
IdSymmetry == Permutations(Ids)
=============================================================================
