------------------------------ MODULE MCCafeMap ------------------------------
(***************************************************************************)
(* An instance of CafeMap for TLC: a city of two cafes, one of a cafe that *)
(* has a place and one of a cafe that has none.                            *)
(***************************************************************************)
EXTENDS CafeMap

CONSTANTS taipei, keelung, penghu, t1, t2, k1, p1

Lists == [c \in Cities |-> CASE c = taipei -> {t1, t2}
                             [] c = keelung -> {k1}
                             [] OTHER -> {p1}]
=============================================================================
