----------------------------- MODULE MCCafeList -----------------------------
(***************************************************************************)
(* Instances of CafeList for TLC: a city of two cafes, one of a single     *)
(* cafe and, if wanted, one without any.                                   *)
(***************************************************************************)
EXTENDS CafeList

CONSTANTS taipei, keelung, lienchiang, t1, t2, k1

TwoOneList == [c \in Cities |-> CASE c = taipei -> <<t1, t2>>
                                  [] c = keelung -> <<k1>>
                                  [] OTHER -> <<>>]

(* One text finds a cafe of either city, one finds nothing.                *)
SomeMatches == [t \in Texts |-> IF t = "a" THEN {t1, k1} ELSE {}]
OneRating == [type \in Ratings |-> [c \in Cafes |-> IF c = t2 THEN 5 ELSE 3]]

(* Filtered is SelectSeq in a closed form, also for lists that have a cafe *)
(* more than once.                                                         *)
ASSUME FilteredSelects ==
    \A s \in SeqOf(Cafes, 4), S \in SUBSET Cafes :
        Filtered(s, S) = SelectSeq(s, LAMBDA c : c \in S)
=============================================================================
