--------------------------------- MODULE Maps ---------------------------------
(* Go maps with strings for keys: labels, annotations, environment variables. *)

Has(m, k) == k \in DOMAIN m

\* The prover does not know that a literal is a string, TLC does.
ASSUME EmptyIsString == "" \in STRING

\* A Go map yields the zero value for a key it does not have.
At(m, k) == IF Has(m, k) THEN m[k] ELSE ""

\* The two ways a map is filled: one key, and m over the keys of n.
Only(k, v) == [x \in {k} |-> v]
m ++ n == [k \in DOMAIN m \cup DOMAIN n |-> IF k \in DOMAIN m THEN m[k] ELSE n[k]]

IsFunction(m) == m = [k \in DOMAIN m |-> m[k]]

\* map[string]string
IsMap(m) == IsFunction(m) /\ \A k \in DOMAIN m : k \in STRING /\ m[k] \in STRING

\* new has what old has.
Extends(new, old) == \A k \in DOMAIN old : Has(new, k) /\ new[k] = old[k]
=============================================================================
