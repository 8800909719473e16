------------------------------ MODULE MapsProofs ------------------------------
(***************************************************************************)
(* Lemmas about Maps, for the proofs of the modules that fill labels and   *)
(* environment variables.                                                  *)
(***************************************************************************)
EXTENDS Maps, TLAPS

LEMMA OverlayDomain ==
    ASSUME NEW f, NEW g
    PROVE  DOMAIN (f ++ g) = DOMAIN f \cup DOMAIN g
BY DEF ++

LEMMA OverlayFunction ==
    ASSUME NEW f, NEW g
    PROVE  IsFunction(f ++ g)
BY DEF ++, IsFunction

\* What is on top is seen, and what is below where nothing is on top.
LEMMA OverlayExtends ==
    ASSUME NEW f, NEW g
    PROVE  /\ Extends(f ++ g, f)
           /\ \A k \in DOMAIN g : k \notin DOMAIN f => (f ++ g)[k] = g[k]
BY DEF ++, Extends, Has

LEMMA SingleDomain ==
    ASSUME NEW k, NEW v
    PROVE  DOMAIN Only(k, v) = {k} /\ Only(k, v)[k] = v
BY DEF Only

\* Nothing is added below a map that has all the keys.
LEMMA OverlayBelow ==
    ASSUME NEW f, NEW g, IsFunction(f), DOMAIN g \subseteq DOMAIN f
    PROVE  f ++ g = f
BY DEF ++, IsFunction

\* Nothing changes on top of a map that has all the keys with these values.
LEMMA OverlayAbove ==
    ASSUME NEW f, NEW g, IsFunction(g), Extends(g, f)
    PROVE  f ++ g = g
<1>1. DOMAIN (f ++ g) = DOMAIN g
  BY OverlayDomain DEF Extends, Has
<1>2. \A k \in DOMAIN g : (f ++ g)[k] = g[k]
  BY DEF ++, Extends, Has
<1> QED
  BY <1>1, <1>2, OverlayFunction DEF IsFunction

LEMMA ExtendsTransitive ==
    ASSUME NEW f, NEW g, NEW h, Extends(f, g), Extends(g, h)
    PROVE  Extends(f, h)
BY DEF Extends, Has

LEMMA OverlayIsMap ==
    ASSUME NEW f, NEW g, IsMap(f), IsMap(g)
    PROVE  IsMap(f ++ g)
<1>1. IsFunction(f ++ g)
  BY OverlayFunction
<1>2. \A k \in DOMAIN (f ++ g) : k \in STRING /\ (f ++ g)[k] \in STRING
  BY DEF ++, IsMap
<1> QED
  BY <1>1, <1>2 DEF IsMap

LEMMA SingleIsMap ==
    ASSUME NEW k \in STRING, NEW v \in STRING
    PROVE  IsMap(Only(k, v))
BY DEF Only, IsMap, IsFunction

LEMMA EmptyIsMap == IsMap(<<>>) /\ DOMAIN <<>> = {}
BY DEF IsMap, IsFunction

LEMMA AtString ==
    ASSUME NEW m, IsMap(m), NEW k
    PROVE  At(m, k) \in STRING
<1>1. CASE Has(m, k)
  BY <1>1 DEF At, Has, IsMap
<1>2. CASE ~Has(m, k)
  <2>1. At(m, k) = ""
    BY <1>2 DEF At
  <2> QED
    BY <2>1, EmptyIsString
<1> QED
  BY <1>1, <1>2
=============================================================================
