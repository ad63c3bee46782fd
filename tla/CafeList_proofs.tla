--------------------------- MODULE CafeList_proofs ---------------------------
(***************************************************************************)
(* Theorems about CafeList, for any cities, lists, texts and ratings, any  *)
(* order of answers and any number of requests.                            *)
(***************************************************************************)
EXTENDS CafeList, FiniteSetTheorems, TLAPS

(* What the chosen city, the requests and the counters are, which is all   *)
(* the types the theorems need.                                            *)
Counters ==
    /\ city \in Cities
    /\ requests \in Seq(Cities)
    /\ reloads \in Nat
    /\ dismissals \in Nat

(***************************************************************************)
(* The three properties do not lean on one another: each is inductive once *)
(* the counters are numbers.                                               *)
(***************************************************************************)
ListInv == Counters /\ RowsCatchUp /\ TrapsOnlyBeforeReload /\ HudIsHidden

LEMMA RemoveAtType ==
    ASSUME NEW s \in Seq(Cities), NEW i \in DOMAIN s
    PROVE  RemoveAt(s, i) \in Seq(Cities)
<1>1. i \in 1 .. Len(s)
    OBVIOUS
<1>2. SubSeq(s, 1, i - 1) \in Seq(Cities)
    BY <1>1
<1>3. SubSeq(s, i + 1, Len(s)) \in Seq(Cities)
    BY <1>1
<1> QED
    BY <1>2, <1>3 DEF RemoveAt

LEMMA InitListInv == Init => ListInv
    BY ListAssumption DEF Init, ListInv, Counters, RowsCatchUp, TrapsOnlyBeforeReload,
                          HudIsHidden, Data

LEMMA NextListInv == ListInv /\ [Next]_vars => ListInv'
<1> SUFFICES ASSUME ListInv, [Next]_vars PROVE ListInv'
    OBVIOUS
<1> USE DEF ListInv, Counters, RowsCatchUp, TrapsOnlyBeforeReload, HudIsHidden, Data
<1>1. ASSUME NEW i \in DOMAIN requests, Answer(i) PROVE ListInv'
    BY <1>1, RemoveAtType DEF Answer, searchVars
<1>2. ASSUME NEW i \in DOMAIN requests, Fail(i) PROVE ListInv'
    BY <1>2, RemoveAtType DEF Fail, searchVars
<1>3. CASE Reload
    BY <1>3 DEF Reload, searchVars, hudVars
<1>4. CASE HudDismiss
    BY <1>4 DEF HudDismiss, searchVars
<1>5. ASSUME NEW c \in Cities, ChooseCity(c) PROVE ListInv'
    <2>1. requests' = Append(requests, c)
        BY <1>5 DEF ChooseCity, GetCafe
    <2>2. requests' \in Seq(Cities) /\ requests' # <<>>
        BY <2>1
    <2> QED
        BY <1>5, <2>2 DEF ChooseCity, GetCafe, searchVars
<1>6. CASE PullToRefresh
    <2>1. requests' = Append(requests, city)
        BY <1>6 DEF PullToRefresh, GetCafe
    <2>2. requests' \in Seq(Cities) /\ requests' # <<>>
        BY <2>1
    <2> QED
        BY <1>6, <2>2 DEF PullToRefresh, GetCafe, searchVars
<1>7. CASE Appear
    BY <1>7 DEF Appear, searchVars, hudVars
<1>8. ASSUME NEW i \in DOMAIN shown, ScrollTo(i) PROVE ListInv'
    BY <1>8 DEF ScrollTo, searchVars, hudVars
<1>9. ASSUME NEW i \in DOMAIN shown, Tap(i) PROVE ListInv'
    <2>1. CASE i \in DOMAIN Data
        BY <1>9, <2>1 DEF Tap, searchVars, hudVars
    <2>2. CASE i \notin DOMAIN Data
        BY <1>9, <2>2 DEF Tap, searchVars, hudVars
    <2> QED
        BY <2>1, <2>2
<1>10. CASE BeginSearch
    BY <1>10 DEF BeginSearch, hudVars
<1>11. CASE SearchButtonClicked
    BY <1>11 DEF SearchButtonClicked, hudVars
<1>12. CASE CancelSearch
    BY <1>12 DEF CancelSearch, hudVars
<1>13. ASSUME NEW t \in Texts \cup {""}, UpdateSearchResults(t) PROVE ListInv'
    BY <1>13 DEF UpdateSearchResults, hudVars
<1>14. ASSUME NEW type \in Ratings, SortCafes(type) PROVE ListInv'
    BY <1>14 DEF SortCafes, hudVars
<1>15. CASE UNCHANGED vars
    BY <1>15 DEF vars
<1> QED
    BY <1>1, <1>2, <1>3, <1>4, <1>5, <1>6, <1>7, <1>8, <1>9, <1>10, <1>11, <1>12,
       <1>13, <1>14, <1>15 DEF Next, TimerStep, UserStep

LEMMA ListInvHolds == Spec => []ListInv
    BY InitListInv, NextListInv, PTL DEF Spec

(* When no answer is waiting to be shown, every row shows the cafe a touch *)
(* of it acts on.                                                          *)
THEOREM RowsAlwaysCatchUp == Spec => []RowsCatchUp
<1>1. ListInv => RowsCatchUp
    BY DEF ListInv
<1> QED
    BY <1>1, ListInvHolds, PTL

(* The app asks for a missing row only while an answer waits to be shown.  *)
THEOREM TrapsAreConfined == Spec => []TrapsOnlyBeforeReload
<1>1. ListInv => TrapsOnlyBeforeReload
    BY DEF ListInv
<1> QED
    BY <1>1, ListInvHolds, PTL

(* While the HUD is shown somebody is going to hide it.                    *)
THEOREM HudIsAlwaysHidden == Spec => []HudIsHidden
<1>1. ListInv => HudIsHidden
    BY DEF ListInv
<1> QED
    BY <1>1, ListInvHolds, PTL

-----------------------------------------------------------------------------
LEMMA JoinedLength ==
    ASSUME NEW S, NEW s \in Seq(S), NEW t \in Seq(S)
    PROVE  Len(s \o t) = Len(s) + Len(t)
OBVIOUS

LEMMA RemoveAtShortens ==
    ASSUME NEW s \in Seq(Cities), NEW i \in DOMAIN s
    PROVE  RemoveAt(s, i) # s
<1> DEFINE before == SubSeq(s, 1, i - 1)
           after  == SubSeq(s, i + 1, Len(s))
<1>1. i \in 1 .. Len(s) /\ Len(s) \in Nat
    OBVIOUS
<1>2. before \in Seq(Cities) /\ Len(before) = i - 1
    BY <1>1
<1>3. after \in Seq(Cities) /\ Len(after) = Len(s) - i
    BY <1>1
<1>4. Len(RemoveAt(s, i)) = Len(before) + Len(after)
    BY <1>2, <1>3, JoinedLength DEF RemoveAt
<1> HIDE DEF before, after
<1>5. Len(RemoveAt(s, i)) = Len(s) - 1
    BY <1>1, <1>2, <1>3, <1>4
<1> QED
    BY <1>1, <1>5

(* Neither a search nor a sort during it changes the list that is searched: *)
(* only an answer does.                                                    *)
THEOREM SearchAlwaysKeepsList == Spec => SearchKeepsList
<1>1. Counters /\ [Next]_vars => [searching /\ requests' = requests => cafes' = cafes]_vars
    <2> SUFFICES ASSUME Counters, Next, searching, requests' = requests
                 PROVE  cafes' = cafes
        BY DEF vars
    <2>1. ASSUME NEW i \in DOMAIN requests, Answer(i) \/ Fail(i) PROVE FALSE
        <3>1. requests' = RemoveAt(requests, i)
            BY <2>1 DEF Answer, Fail
        <3> QED
            BY <3>1, RemoveAtShortens DEF Counters
    <2>2. CASE TimerStep
        BY <2>2 DEF TimerStep, Reload, HudDismiss
    <2>3. ASSUME NEW type \in Ratings, SortCafes(type) PROVE cafes' = cafes
        BY <2>3 DEF SortCafes
    <2>4. CASE UserStep
        BY <2>3, <2>4 DEF UserStep, ChooseCity, PullToRefresh, Appear, ScrollTo, Tap, BeginSearch,
                          SearchButtonClicked, CancelSearch, UpdateSearchResults
    <2> QED
        BY <2>1, <2>2, <2>4 DEF Next
<1>2. ListInv => Counters
    BY DEF ListInv
<1> QED
    BY <1>1, <1>2, ListInvHolds, PTL DEF Spec, SearchKeepsList

-----------------------------------------------------------------------------
(***************************************************************************)
(* The list settles on the city chosen last.                               *)
(***************************************************************************)

(* A list names each cafe once, so sorting neither loses nor doubles any.  *)
OnceEach == {s \in Seq(Cafes) : IsInjective(s)}

LEMMA ListRange ==
    ASSUME NEW s \in OnceEach
    PROVE  /\ Range(s) \subseteq Cafes /\ IsFiniteSet(Range(s))
           /\ Len(s) = Cardinality(Range(s))
<1>1. s \in [1 .. Len(s) -> Cafes] /\ Len(s) \in Nat /\ IsInjective(s)
    BY DEF OnceEach
<1>2. s \in Bijection(1 .. Len(s), Range(s))
    BY <1>1 DEF Bijection, Injection, Surjection, Range
<1>3. \A n \in Nat : IsFiniteSet(1 .. n) /\ Cardinality(1 .. n) = n
    BY FS_Interval
<1>4. IsFiniteSet(Range(s)) /\ Cardinality(Range(s)) = Len(s)
    BY <1>1, <1>2, <1>3, FS_Bijection DEF ExistsBijection
<1> QED
    BY <1>1, <1>4 DEF Range

LEMMA SortedKeeps ==
    ASSUME NEW s \in OnceEach, NEW type, NEW t \in Sorted(s, type)
    PROVE  t \in OnceEach /\ Range(t) = Range(s)
<1> DEFINE n == Cardinality(Range(s))
<1>1. IsFiniteSet(Range(s)) /\ n \in Nat /\ Range(s) \subseteq Cafes
    BY ListRange, FS_CardinalityType
<1>2. t \in [1 .. n -> Range(s)] /\ \A i, j \in 1 .. n : i # j => t[i] # t[j]
    BY DEF Sorted, SetToSeqs
<1> HIDE DEF n
<1>3. t \in Injection(1 .. n, Range(s)) /\ IsInjective(t)
    BY <1>2 DEF Injection, IsInjective
<1>4. Cardinality(1 .. n) = n
    BY <1>1, FS_Interval
<1>5. t \in Surjection(1 .. n, Range(s))
    BY <1>1, <1>3, <1>4, FS_Injection DEF n
<1>6. Range(t) = Range(s)
    BY <1>2, <1>5 DEF Surjection, Range
<1>7. t \in Seq(Cafes)
    BY <1>1, <1>2
<1> QED
    BY <1>3, <1>6, <1>7 DEF OnceEach

(* The last request is for the chosen city; when none is left the list is  *)
(* that of the city, and when none waits to be shown it is shown, too.     *)
SettleInv ==
    /\ cafes \in OnceEach
    /\ requests # <<>> => requests[Len(requests)] = city
    /\ requests = <<>> => Range(cafes) = Range(List[city])
    /\ requests = <<>> /\ reloads = 0 => label = city
    /\ ~searching /\ reloads = 0 => shown = cafes

LEMMA LastOfAppend ==
    ASSUME NEW s \in Seq(Cities), NEW c \in Cities
    PROVE  Append(s, c) # <<>> /\ Append(s, c)[Len(Append(s, c))] = c
OBVIOUS

LEMMA EmptyLength ==
    ASSUME NEW s \in Seq(Cities)
    PROVE  s = <<>> <=> Len(s) = 0
OBVIOUS

LEMMA LastOfRest ==
    ASSUME NEW s \in Seq(Cities), s # <<>>
    PROVE  /\ RemoveAt(s, 1) # <<>> => RemoveAt(s, 1)[Len(RemoveAt(s, 1))] = s[Len(s)]
           /\ RemoveAt(s, 1) = <<>> => s[Len(s)] = s[1]
<1>1. RemoveAt(s, 1) = Tail(s)
    <2> DEFINE after == SubSeq(s, 2, Len(s))
    <2>1. SubSeq(s, 1, 0) = <<>>
        OBVIOUS
    <2>2. after \in Seq(Cities) /\ after = Tail(s)
        OBVIOUS
    <2>3. RemoveAt(s, 1) = <<>> \o after
        BY <2>1 DEF RemoveAt
    <2> HIDE DEF after
    <2> QED
        BY <2>2, <2>3
<1>2. /\ Tail(s) # <<>> => Tail(s)[Len(Tail(s))] = s[Len(s)]
      /\ Tail(s) = <<>> => Len(s) = 1
    <2>1. Tail(s) \in Seq(Cities) /\ Len(Tail(s)) = Len(s) - 1 /\ Len(s) \in Nat \ {0}
        OBVIOUS
    <2>2. \A i \in 1 .. Len(s) - 1 : Tail(s)[i] = s[i + 1]
        OBVIOUS
    <2>3. Tail(s) = <<>> <=> Len(s) - 1 = 0
        BY <2>1, EmptyLength
    <2>4. ASSUME Len(s) # 1 PROVE Tail(s)[Len(Tail(s))] = s[Len(s)]
        <3>1. Len(s) - 1 \in 1 .. Len(s) - 1
            BY <2>1, <2>4
        <3>2. Tail(s)[Len(s) - 1] = s[(Len(s) - 1) + 1]
            BY <2>2, <3>1
        <3>3. (Len(s) - 1) + 1 = Len(s)
            BY <2>1
        <3> QED
            BY <2>1, <3>2, <3>3
    <2>5. Len(s) - 1 = 0 <=> Len(s) = 1
        BY <2>1
    <2> QED
        BY <2>3, <2>4, <2>5
<1> QED
    BY <1>1, <1>2

LEMMA InitSettleInv == Init => SettleInv
<1>1. <<>> \in OnceEach
    BY DEF OnceEach, IsInjective
<1> QED
    BY <1>1 DEF Init, SettleInv

LEMMA NextSettleInv ==
    ASSUME InOrder, ~MayFail, ListInv, SettleInv, [Next]_vars
    PROVE  SettleInv'
<1>0. requests \in Seq(Cities) /\ city \in Cities /\ reloads \in Nat
    BY DEF ListInv, Counters
<1>1. ASSUME NEW i \in DOMAIN requests, Answer(i) PROVE SettleInv'
    <2>1. i = 1 /\ requests # <<>> /\ requests[1] \in Cities
        BY <1>0, <1>1 DEF Answer, IsNext
    <2>2. List[requests[1]] \in OnceEach
        BY <2>1, ListAssumption DEF OnceEach
    <2>3. /\ requests' = RemoveAt(requests, 1) /\ cafes' = List[requests[1]]
          /\ reloads' # 0 /\ UNCHANGED <<city, searching>>
        BY <1>0, <1>1, <2>1 DEF Answer, searchVars
    <2>4. requests[Len(requests)] = city
        BY <2>1 DEF SettleInv
    <2>5. requests' # <<>> => requests'[Len(requests')] = city
        BY <1>0, <2>1, <2>3, <2>4, LastOfRest
    <2>6. requests' = <<>> => requests[1] = city
        BY <1>0, <2>1, <2>3, <2>4, LastOfRest
    <2> QED
        BY <2>2, <2>3, <2>5, <2>6 DEF SettleInv
<1>2. ASSUME NEW i \in DOMAIN requests, Fail(i) PROVE FALSE
    BY <1>2 DEF Fail
<1>3. CASE Reload
    BY <1>3 DEF Reload, SettleInv, Data, searchVars
<1>4. CASE HudDismiss
    BY <1>4 DEF HudDismiss, SettleInv, searchVars
<1>5. ASSUME NEW c \in Cities, ChooseCity(c) PROVE SettleInv'
    <2>1. requests' = Append(requests, c) /\ city' = c
        BY <1>5 DEF ChooseCity, GetCafe
    <2>2. requests' # <<>> /\ requests'[Len(requests')] = city'
        BY <1>0, <2>1, LastOfAppend
    <2> QED
        BY <1>5, <2>2 DEF ChooseCity, SettleInv, searchVars
<1>6. CASE PullToRefresh
    <2>1. requests' = Append(requests, city) /\ city' = city
        BY <1>6 DEF PullToRefresh, GetCafe
    <2>2. requests' # <<>> /\ requests'[Len(requests')] = city'
        BY <1>0, <2>1, LastOfAppend
    <2> QED
        BY <1>6, <2>2 DEF PullToRefresh, SettleInv, searchVars
<1>7. CASE Appear
    BY <1>7 DEF Appear, SettleInv, Data, searchVars
<1>8. ASSUME NEW i \in DOMAIN shown, ScrollTo(i) PROVE SettleInv'
    <2>1. ASSUME ~searching, reloads = 0 PROVE shown' = shown
        <3>1. shown = cafes /\ cafes \in Seq(Cafes)
            BY <2>1 DEF SettleInv, OnceEach
        <3>2. [cafes EXCEPT ![i] = cafes[i]] = cafes
            BY <3>1
        <3> QED
            BY <1>8, <2>1, <3>1, <3>2 DEF ScrollTo, Data
    <2> QED
        BY <1>8, <2>1 DEF ScrollTo, SettleInv, searchVars
<1>9. ASSUME NEW i \in DOMAIN shown, Tap(i) PROVE SettleInv'
    BY <1>9 DEF Tap, SettleInv, searchVars
<1>10. CASE BeginSearch
    BY <1>10 DEF BeginSearch, SettleInv
<1>11. CASE SearchButtonClicked
    BY <1>11 DEF SearchButtonClicked, SettleInv
<1>12. CASE CancelSearch
    BY <1>12 DEF CancelSearch, SettleInv
<1>13. ASSUME NEW t \in Texts \cup {""}, UpdateSearchResults(t) PROVE SettleInv'
    BY <1>13 DEF UpdateSearchResults, SettleInv
<1>14. ASSUME NEW type \in Ratings, SortCafes(type) PROVE SettleInv'
    <2>1. CASE searching
        BY <1>14, <2>1 DEF SortCafes, SettleInv
    <2>2. CASE ~searching
        <3>1. PICK s \in Sorted(cafes, type) : shown' = s /\ cafes' = s
            BY <1>14, <2>2 DEF SortCafes, Data
        <3>2. s \in OnceEach /\ Range(s) = Range(cafes)
            BY <3>1, SortedKeeps DEF SettleInv
        <3> QED
            BY <1>14, <3>1, <3>2 DEF SortCafes, SettleInv
    <2> QED
        BY <2>1, <2>2
<1>15. CASE UNCHANGED vars
    BY <1>15 DEF vars, SettleInv
<1> QED
    BY <1>1, <1>2, <1>3, <1>4, <1>5, <1>6, <1>7, <1>8, <1>9, <1>10, <1>11, <1>12,
       <1>13, <1>14, <1>15 DEF Next, TimerStep, UserStep

LEMMA SettledIsSettled == ListInv /\ SettleInv => SettlesOnCity
<1> SUFFICES ASSUME ListInv, SettleInv, requests = <<>>, reloads = 0
             PROVE  /\ label = city
                    /\ ~searching => /\ Range(shown) = Range(List[city])
                                     /\ Len(shown) = Len(List[city])
    BY DEF SettlesOnCity
<1>1. label = city /\ Range(cafes) = Range(List[city]) /\ cafes \in OnceEach
    BY DEF SettleInv
<1>2. List[city] \in OnceEach
    BY ListAssumption DEF ListInv, Counters, OnceEach
<1>3. Len(cafes) = Len(List[city])
    BY <1>1, <1>2, ListRange
<1> QED
    BY <1>1, <1>3 DEF SettleInv

(* With answers that come in order and do not fail, label and list settle  *)
(* on the city that was chosen last, and no cafe of it is lost or doubled, *)
(* however it was sorted and searched in between.                          *)
THEOREM ListSettlesOnCity ==
    ASSUME InOrder, ~MayFail
    PROVE  Spec => []SettlesOnCity
<1>1. ListInv /\ SettleInv /\ [Next]_vars => ListInv' /\ SettleInv'
    BY NextListInv, NextSettleInv
<1> QED
    BY <1>1, InitListInv, InitSettleInv, SettledIsSettled, PTL DEF Spec

-----------------------------------------------------------------------------
(***************************************************************************)
(* What filtering and sorting leave.                                       *)
(***************************************************************************)

LEMMA FiniteRange ==
    ASSUME NEW n \in Nat, NEW P \in SUBSET (1 .. n)
    PROVE  IsFiniteSet(P) /\ Cardinality(P) \in Nat
<1>1. IsFiniteSet(1 .. n)
    BY FS_Interval
<1>2. IsFiniteSet(P)
    BY <1>1, FS_Subset
<1> QED
    BY <1>2, FS_CardinalityType

(* The k-th position of a finite set of numbers is there: counting the     *)
(* members up to each of them is one to one, so it takes every value.      *)
LEMMA NthMember ==
    ASSUME NEW n \in Nat, NEW P \in SUBSET (1 .. n), NEW k \in 1 .. Cardinality(P)
    PROVE  \E i \in P : Cardinality({j \in P : j <= i}) = k
<1> DEFINE upTo(i) == {j \in P : j <= i}
           rank == [i \in P |-> Cardinality(upTo(i))]
<1>1. IsFiniteSet(P) /\ Cardinality(P) \in Nat
    BY FiniteRange
<1>2. ASSUME NEW i \in P
      PROVE  IsFiniteSet(upTo(i)) /\ Cardinality(upTo(i)) \in 1 .. Cardinality(P)
    <2>1. IsFiniteSet(upTo(i)) /\ Cardinality(upTo(i)) <= Cardinality(P)
        BY <1>1, FS_Subset
    <2>2. Cardinality(upTo(i)) \in Nat /\ upTo(i) # {}
        BY <2>1, FS_CardinalityType
    <2>3. Cardinality(upTo(i)) # 0
        BY <2>1, <2>2, FS_EmptySet
    <2> HIDE DEF upTo
    <2> QED
        BY <1>1, <2>1, <2>2, <2>3
<1>3. ASSUME NEW i \in P, NEW j \in P, i < j PROVE rank[i] # rank[j]
    <2>1. upTo(i) \subseteq upTo(j) /\ j \in upTo(j) /\ j \notin upTo(i)
        <3>1. i \in Nat /\ j \in Nat /\ \A x \in P : x \in Nat
            OBVIOUS
        <3>2. \A x \in P : x <= i => x <= j
            BY <1>3, <3>1
        <3>3. ~ (j <= i) /\ j <= j
            BY <1>3, <3>1
        <3> QED
            BY <3>2, <3>3
    <2>2. upTo(i) # upTo(j)
        BY <2>1
    <2> HIDE DEF upTo
    <2>3. Cardinality(upTo(i)) # Cardinality(upTo(j))
        BY <1>2, <2>1, <2>2, FS_Subset
    <2> QED
        BY <2>3
<1> HIDE DEF upTo
<1>4. rank \in [P -> 1 .. Cardinality(P)]
    BY <1>2
<1>5. \A i, j \in P : i # j => rank[i] # rank[j]
    <2> SUFFICES ASSUME NEW i \in P, NEW j \in P, i # j PROVE rank[i] # rank[j]
        OBVIOUS
    <2>1. i < j \/ j < i
        OBVIOUS
    <2> QED
        BY <1>3, <2>1
<1>6. rank \in Injection(P, 1 .. Cardinality(P))
    <2> HIDE DEF rank
    <2> QED
        BY <1>4, <1>5 DEF Injection, IsInjective
<1>7. IsFiniteSet(1 .. Cardinality(P)) /\ Cardinality(1 .. Cardinality(P)) = Cardinality(P)
    BY <1>1, FS_Interval
<1>8. rank \in Surjection(P, 1 .. Cardinality(P))
    <2> HIDE DEF rank
    <2> QED
        BY <1>1, <1>6, <1>7, FS_Injection
<1>9. PICK i \in P : rank[i] = k
    <2> HIDE DEF rank
    <2> QED
        BY <1>8 DEF Surjection
<1> QED
    BY <1>9 DEF upTo

LEMMA FilteredKeeps ==
    ASSUME NEW s \in Seq(Cafes), NEW S
    PROVE  Filtered(s, S) \in Seq(Cafes) /\ Range(Filtered(s, S)) \subseteq Range(s)
<1> DEFINE found == {i \in DOMAIN s : s[i] \in S}
           nth(k) == CHOOSE i \in found : Cardinality({j \in found : j <= i}) = k
           n == Cardinality(found)
<1>1. found \in SUBSET (1 .. Len(s)) /\ Len(s) \in Nat
    OBVIOUS
<1>2. n \in Nat
    <2> HIDE DEF found
    <2> QED
        BY <1>1, FiniteRange
<1>3. ASSUME NEW k \in 1 .. n PROVE nth(k) \in found
    <2> HIDE DEF found
    <2>1. \E i \in found : Cardinality({j \in found : j <= i}) = k
        BY <1>1, <1>3, NthMember
    <2> QED
        BY <2>1
<1>4. \A i \in found : s[i] \in Range(s) /\ s[i] \in Cafes
    BY DEF Range
<1>5. Filtered(s, S) = [k \in 1 .. n |-> s[nth(k)]]
    BY DEF Filtered
<1> HIDE DEF found, nth, n
<1>6. Filtered(s, S) \in [1 .. n -> Range(s) \cap Cafes]
    BY <1>3, <1>4, <1>5
<1>7. \A f \in [1 .. n -> Range(s) \cap Cafes] : f \in Seq(Cafes) /\ Range(f) \subseteq Range(s)
    BY <1>2 DEF Range
<1> QED
    BY <1>6, <1>7

LEMMA FilterResult ==
    ASSUME NEW text, cafes \in Seq(Cafes)
    PROVE  /\ FilterContentForSearchText(text) \in Seq(Cafes)
           /\ Range(FilterContentForSearchText(text)) \subseteq Range(cafes)
<1>1. <<>> \in Seq(Cafes) /\ Range(<<>>) = {}
    BY DEF Range
<1> QED
    BY <1>1, FilteredKeeps DEF FilterContentForSearchText

LEMMA SortedResult ==
    ASSUME NEW s \in Seq(Cafes), NEW type, NEW t \in Sorted(s, type)
    PROVE  t \in Seq(Cafes) /\ Range(t) \subseteq Range(s)
<1> DEFINE n == Cardinality(Range(s))
<1>1. s \in Surjection(1 .. Len(s), Range(s)) /\ Len(s) \in Nat
    BY DEF Surjection, Range
<1>2. IsFiniteSet(Range(s))
    BY <1>1, FS_Interval, FS_Surjection
<1>3. n \in Nat
    BY <1>2, FS_CardinalityType
<1>4. t \in [1 .. n -> Range(s)]
    BY DEF Sorted, SetToSeqs
<1>5. Range(s) \subseteq Cafes
    BY DEF Range
<1> HIDE DEF n
<1>6. t \in Seq(Cafes)
    BY <1>3, <1>4, <1>5
<1> QED
    BY <1>4, <1>6 DEF Range

-----------------------------------------------------------------------------
(***************************************************************************)
(* Types, and one city at a time.                                          *)
(***************************************************************************)

LEMMA ReplacedType ==
    ASSUME NEW s \in Seq(Cafes), NEW i \in DOMAIN s, NEW c \in Cafes
    PROVE  [s EXCEPT ![i] = c] \in Seq(Cafes)
OBVIOUS

(* What is listed and what a search found are each of one city, not always *)
(* of the same: an answer replaces the list and leaves the results.        *)
DataOfOneCity == OfOneCity(cafes) /\ OfOneCity(searchResult)

CityInv == TypeOK /\ DataOfOneCity

LEMMA InitCityInv == Init => CityInv
<1>1. <<>> \in Seq(Cafes) /\ OfOneCity(<<>>)
    BY ListAssumption DEF OfOneCity, Range
<1>2. HomeCity \in Cities /\ <<HomeCity>> \in Seq(Cities)
    BY ListAssumption
<1>3. Init => TypeOK
    <2> SUFFICES ASSUME Init PROVE TypeOK
        OBVIOUS
    <2>1. cafes \in Seq(Cafes) /\ searchResult \in Seq(Cafes) /\ shown \in Seq(Cafes)
        BY <1>1 DEF Init
    <2>2. city \in Cities /\ label \in Cities /\ requests \in Seq(Cities)
        BY <1>2 DEF Init
    <2> QED
        BY <2>1, <2>2 DEF Init, TypeOK
<1>4. Init => DataOfOneCity
    BY <1>1 DEF Init, DataOfOneCity
<1> QED
    BY <1>3, <1>4 DEF CityInv

LEMMA NextCityInv == CityInv /\ [Next]_vars => CityInv'
<1> SUFFICES ASSUME CityInv, [Next]_vars PROVE CityInv'
    OBVIOUS
<1>0. /\ TypeOK /\ DataOfOneCity /\ cafes \in Seq(Cafes)
      /\ Data \in Seq(Cafes) /\ OfOneCity(Data)
    BY DEF CityInv, TypeOK, Data, DataOfOneCity
<1> USE DEF CityInv, TypeOK, DataOfOneCity
<1>1. ASSUME NEW i \in DOMAIN requests, Answer(i) PROVE CityInv'
    <2>1. requests[i] \in Cities
        OBVIOUS
    <2>2. List[requests[i]] \in Seq(Cafes) /\ OfOneCity(List[requests[i]])
        BY <2>1, ListAssumption DEF OfOneCity
    <2>3. RemoveAt(requests, i) \in Seq(Cities)
        BY RemoveAtType
    <2>4. OfOneCity(cafes)' /\ OfOneCity(searchResult)'
        BY <1>1, <2>2 DEF Answer, searchVars, OfOneCity
    <2>5. reloads' \in Nat /\ dismissals' \in Nat
        BY <1>1 DEF Answer
    <2> QED
        BY <1>1, <2>2, <2>3, <2>4, <2>5 DEF Answer, searchVars
<1>2. ASSUME NEW i \in DOMAIN requests, Fail(i) PROVE CityInv'
    BY <1>2, RemoveAtType DEF Fail, searchVars
<1>3. CASE Reload
    <2>1. /\ shown' \in Seq(Cafes) /\ label' \in Cities /\ reloads' \in Nat
          /\ crashed' \in BOOLEAN
        <3>1. CASE Data = <<>>
            BY <1>3, <3>1 DEF Reload
        <3>2. CASE Data # <<>>
            BY <1>0, <1>3, <3>2 DEF Reload
        <3> QED
            BY <3>1, <3>2
    <2> QED
        BY <1>3, <2>1 DEF Reload, searchVars, hudVars, OfOneCity
<1>4. CASE HudDismiss
    <2>1. dismissals \in Nat /\ dismissals > 0 /\ dismissals' = dismissals - 1
        BY <1>4 DEF HudDismiss
    <2>2. dismissals' \in Nat
        BY <2>1
    <2> QED
        BY <1>4, <2>2 DEF HudDismiss, searchVars
<1>5. ASSUME NEW c \in Cities, ChooseCity(c) PROVE CityInv'
    <2>1. requests' = Append(requests, c)
        BY <1>5 DEF ChooseCity, GetCafe
    <2>2. requests' \in Seq(Cities)
        BY <2>1
    <2> QED
        BY <1>5, <2>2 DEF ChooseCity, GetCafe, searchVars
<1>6. CASE PullToRefresh
    <2>1. requests' = Append(requests, city)
        BY <1>6 DEF PullToRefresh, GetCafe
    <2>2. requests' \in Seq(Cities)
        BY <2>1
    <2> QED
        BY <1>6, <2>2 DEF PullToRefresh, GetCafe, searchVars
<1>7. CASE Appear
    BY <1>0, <1>7 DEF Appear, searchVars, hudVars
<1>8. ASSUME NEW i \in DOMAIN shown, ScrollTo(i) PROVE CityInv'
    <2>1. shown' \in Seq(Cafes)
        <3>1. ASSUME i \in DOMAIN Data PROVE [shown EXCEPT ![i] = Data[i]] \in Seq(Cafes)
            <4>1. Data[i] \in Cafes
                BY <1>0, <3>1
            <4> QED
                BY <4>1, ReplacedType
        <3> QED
            BY <1>8, <3>1 DEF ScrollTo
    <2>2. crashed' \in BOOLEAN
        BY <1>8 DEF ScrollTo
    <2> QED
        BY <1>8, <2>1, <2>2 DEF ScrollTo, searchVars, hudVars
<1>9. ASSUME NEW i \in DOMAIN shown, Tap(i) PROVE CityInv'
    BY <1>9 DEF Tap, searchVars, hudVars
<1>10. CASE BeginSearch
    <2>1. CASE searching
        BY <1>10, <2>1 DEF BeginSearch, hudVars
    <2>2. CASE ~searching
        <3>1. searchResult' = FilterContentForSearchText("") /\ shown' = searchResult'
            BY <1>10, <2>2 DEF BeginSearch
        <3>2. searchResult' \in Seq(Cafes) /\ OfOneCity(searchResult')
            BY <1>0, <3>1, FilterResult DEF OfOneCity
        <3> QED
            BY <1>10, <2>2, <3>1, <3>2 DEF BeginSearch, hudVars
    <2> QED
        BY <2>1, <2>2
<1>11. CASE SearchButtonClicked
    BY <1>11 DEF SearchButtonClicked, hudVars
<1>12. CASE CancelSearch
    <2>1. searchResult' = FilterContentForSearchText("")
        BY <1>12 DEF CancelSearch
    <2>2. searchResult' \in Seq(Cafes) /\ OfOneCity(searchResult')
        BY <1>0, <2>1, FilterResult DEF OfOneCity
    <2> QED
        BY <1>12, <2>2 DEF CancelSearch, hudVars
<1>13. ASSUME NEW t \in Texts \cup {""}, UpdateSearchResults(t) PROVE CityInv'
    <2>1. searchResult' = FilterContentForSearchText(t) /\ shown' = searchResult'
        BY <1>13 DEF UpdateSearchResults
    <2>2. searchResult' \in Seq(Cafes) /\ OfOneCity(searchResult')
        BY <1>0, <2>1, FilterResult DEF OfOneCity
    <2> QED
        BY <1>13, <2>1, <2>2 DEF UpdateSearchResults, hudVars
<1>14. ASSUME NEW type \in Ratings, SortCafes(type) PROVE CityInv'
    <2>1. PICK s \in Sorted(Data, type) :
              /\ shown' = s
              /\ IF searching THEN searchResult' = s /\ UNCHANGED cafes
                              ELSE cafes' = s /\ UNCHANGED searchResult
        BY <1>14 DEF SortCafes
    <2>2. s \in Seq(Cafes) /\ OfOneCity(s)
        BY <1>0, <2>1, SortedResult DEF OfOneCity
    <2> QED
        BY <1>14, <2>1, <2>2 DEF SortCafes, hudVars
<1>15. CASE UNCHANGED vars
    BY <1>15 DEF vars
<1> QED
    BY <1>1, <1>2, <1>3, <1>4, <1>5, <1>6, <1>7, <1>8, <1>9, <1>10, <1>11, <1>12,
       <1>13, <1>14, <1>15 DEF Next, TimerStep, UserStep

LEMMA CityInvHolds == Spec => []CityInv
    BY InitCityInv, NextCityInv, PTL DEF Spec

(* Every variable of the list stays within its type: no answer, search or  *)
(* sort puts anything into the rows but cafes.                             *)
THEOREM ListTypeCorrect == Spec => []TypeOK
<1>1. CityInv => TypeOK
    BY DEF CityInv
<1> QED
    BY <1>1, CityInvHolds, PTL

(* The list and what a search found are each of one city at every moment,  *)
(* and so are the rows on screen once no answer waits to be shown; though  *)
(* answers for several cities come in any order.                           *)
THEOREM ArraysAreOfOneCity == Spec => []OneCityAtATime
<1>1. ListInv /\ CityInv => OneCityAtATime
    <2> SUFFICES ASSUME ListInv, CityInv, reloads = 0
                 PROVE  OfOneCity(shown)
        BY DEF OneCityAtATime, CityInv, DataOfOneCity
    <2>1. Range(shown) \subseteq Range(Data)
        BY DEF ListInv, RowsCatchUp, Range
    <2>2. OfOneCity(Data)
        BY DEF CityInv, DataOfOneCity, Data
    <2> QED
        BY <2>1, <2>2 DEF OfOneCity
<1> QED
    BY <1>1, ListInvHolds, CityInvHolds, PTL
=============================================================================
