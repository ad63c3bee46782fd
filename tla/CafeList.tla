------------------------------ MODULE CafeList ------------------------------
(***************************************************************************)
(* The list of the cafes of a city: HomeViewController, the RequestManager *)
(* it asks, and the progress HUD they share.                               *)
(*                                                                         *)
(* Everything runs on the main queue, one callback or touch at a time.     *)
(* The hard part is what happens between them: an answer replaces `cafes'  *)
(* at once but the table is only told 0.3 seconds later, requests overlap  *)
(* and are answered in any order, the HUD is dismissed on a timer, and a   *)
(* search shows an array of its own that an answer does not touch.         *)
(***************************************************************************)
EXTENDS Naturals, Sequences, SequencesExt

CONSTANTS
    Cities,          \* The cities of the filter.
    HomeCity,        \* The city shown first.
    Cafes,           \* The cafes of all cities.
    List,            \* List[city]: the answer of the server for it, each cafe once.
    Texts,           \* What may be typed into the search bar, but nothing.
    Matches,         \* Matches[text]: the cafes whose name or address has it.
    Ratings,         \* The kinds of rating one may sort by.
    Rating,          \* Rating[type][cafe].
    InOrder,         \* Requests are answered in the order they were made.
    MayFail,         \* A request may fail.
    MaxOutstanding   \* Bound: requests, and callbacks on a timer, under way.

ASSUME ListAssumption ==
    /\ HomeCity \in Cities
    /\ List \in [Cities -> Seq(Cafes)] /\ \A c \in Cities : IsInjective(List[c])
    /\ Matches \in [Texts -> SUBSET Cafes]
    /\ Rating \in [Ratings -> [Cafes -> Nat]]
    /\ InOrder \in BOOLEAN /\ MayFail \in BOOLEAN
    /\ MaxOutstanding \in Nat

VARIABLES
    city,          \* The city that is chosen.
    label,         \* locationLabel.text.
    cafes,         \* The last answer taken, as sorted since.
    searching,     \* searchController.isActive.
    editing,       \* The search bar is edited: the header with the filter is hidden.
    searchResult,  \* The cafes that matched when the text was last changed.
    shown,         \* shown[i]: the cafe in row i when it was last drawn.
    requests,      \* The cities asked for and not answered yet, oldest first.
    reloads,       \* The answers whose 0.3 seconds are not over.
    refreshing,    \* The refresh control spins.
    hud,           \* The progress HUD is shown.
    dismissals,    \* The dismissals of the HUD that wait for their time.
    crashed        \* The app trapped on a row that is not there.

searchVars == <<searching, editing, searchResult>>
hudVars == <<hud, dismissals>>
vars == <<city, label, cafes, searching, editing, searchResult, shown, requests,
          reloads, refreshing, hud, dismissals, crashed>>

TypeOK ==
    /\ city \in Cities /\ label \in Cities
    /\ cafes \in Seq(Cafes)
    /\ searching \in BOOLEAN /\ editing \in BOOLEAN
    /\ searchResult \in Seq(Cafes)
    /\ shown \in Seq(Cafes)
    /\ requests \in Seq(Cities)
    /\ reloads \in Nat /\ dismissals \in Nat
    /\ refreshing \in BOOLEAN /\ hud \in BOOLEAN /\ crashed \in BOOLEAN

(* What numberOfRowsInSection, cellForRowAt and the touches look at.       *)
Data == IF searching THEN searchResult ELSE cafes

-----------------------------------------------------------------------------
(***************************************************************************)
(* Requests.                                                               *)
(***************************************************************************)

(* getCafe(with:) shows the HUD and sends the request.                     *)
GetCafe(name) ==
    /\ Len(requests) + reloads + dismissals < MaxOutstanding
    /\ requests' = Append(requests, name)
    /\ hud' = TRUE
    /\ UNCHANGED dismissals

(* Fault: the list is asked for before the city is changed.                *)
ChooseCity_Late(c) ==
    /\ ~editing /\ ~crashed
    /\ city' = c
    /\ GetCafe(city)
    /\ UNCHANGED <<label, cafes, searchVars, shown, reloads, refreshing, crashed>>

(* A city is picked from the filter; the label waits for applyTheme.  The  *)
(* button of the filter is in the header, which editing hides.             *)
ChooseCity(c) ==
    /\ ~editing /\ ~crashed
    /\ city' = c
    /\ GetCafe(c)
    /\ UNCHANGED <<label, cafes, searchVars, shown, reloads, refreshing, crashed>>

PullToRefresh ==
    /\ ~refreshing /\ ~crashed
    /\ refreshing' = TRUE
    /\ GetCafe(city)
    /\ UNCHANGED <<city, label, cafes, searchVars, shown, reloads, crashed>>

(* The request answered next.                                              *)
IsNext(i) == i \in DOMAIN requests /\ (InOrder => i = 1)

(* Faults: an entry of the answer that is no cafe is kept; the answer is    *)
(* added to the list; the refresh control spins on; the HUD stays; nothing *)
(* is reloaded.                                                            *)
Answer_Null(i) ==
    /\ IsNext(i) /\ ~crashed
    /\ requests' = RemoveAt(requests, i)
    /\ cafes' = Append(List[requests[i]], "null")
    /\ refreshing' = FALSE
    /\ reloads' = reloads + 1
    /\ dismissals' = dismissals + 1
    /\ UNCHANGED <<city, label, searchVars, shown, hud, crashed>>
Answer_Append(i) ==
    /\ IsNext(i) /\ ~crashed
    /\ requests' = RemoveAt(requests, i)
    /\ cafes' = cafes \o SelectSeq(List[requests[i]], LAMBDA c : c \notin Range(cafes))
    /\ refreshing' = FALSE
    /\ reloads' = reloads + 1
    /\ dismissals' = dismissals + 1
    /\ UNCHANGED <<city, label, searchVars, shown, hud, crashed>>
Answer_Spin(i) ==
    /\ IsNext(i) /\ ~crashed
    /\ requests' = RemoveAt(requests, i)
    /\ cafes' = List[requests[i]]
    /\ reloads' = reloads + 1
    /\ dismissals' = dismissals + 1
    /\ UNCHANGED <<city, label, searchVars, shown, refreshing, hud, crashed>>
Answer_Hud(i) ==
    /\ IsNext(i) /\ ~crashed
    /\ requests' = RemoveAt(requests, i)
    /\ cafes' = List[requests[i]]
    /\ refreshing' = FALSE
    /\ reloads' = reloads + 1
    /\ UNCHANGED <<city, label, searchVars, shown, hudVars, crashed>>
Answer_NoReload(i) ==
    /\ IsNext(i) /\ ~crashed
    /\ requests' = RemoveAt(requests, i)
    /\ cafes' = List[requests[i]]
    /\ refreshing' = FALSE
    /\ dismissals' = dismissals + 1
    /\ UNCHANGED <<city, label, searchVars, shown, reloads, hud, crashed>>

(* A request succeeds, whatever city is chosen by then: the list is        *)
(* replaced and the refresh control stopped; the table and the HUD wait    *)
(* for a timer each.                                                       *)
Answer(i) ==
    /\ IsNext(i) /\ ~crashed
    /\ requests' = RemoveAt(requests, i)
    /\ cafes' = List[requests[i]]
    /\ refreshing' = FALSE
    /\ reloads' = reloads + 1
    /\ dismissals' = dismissals + 1
    /\ UNCHANGED <<city, label, searchVars, shown, hud, crashed>>

(* Fault: a failure leaves the HUD alone.                                  *)
Fail_Hud(i) ==
    /\ MayFail /\ IsNext(i) /\ ~crashed
    /\ requests' = RemoveAt(requests, i)
    /\ UNCHANGED <<city, label, cafes, searchVars, shown, reloads, refreshing, hudVars, crashed>>

(* A request fails: the HUD is dismissed without a delay, which still goes *)
(* through the main queue, an alert comes, and the completion that would   *)
(* stop the refresh control is not called.                                 *)
Fail(i) ==
    /\ MayFail /\ IsNext(i) /\ ~crashed
    /\ requests' = RemoveAt(requests, i)
    /\ dismissals' = dismissals + 1
    /\ UNCHANGED <<city, label, cafes, searchVars, shown, reloads, refreshing, hud, crashed>>

(* A dismissal fades the HUD out, though it may have been shown again since *)
(* the dismissal was asked for.                                            *)
HudDismiss ==
    /\ dismissals > 0 /\ ~crashed
    /\ dismissals' = dismissals - 1
    /\ hud' = FALSE
    /\ UNCHANGED <<city, label, cafes, searchVars, shown, requests, reloads,
                   refreshing, crashed>>

-----------------------------------------------------------------------------
(***************************************************************************)
(* The table.                                                              *)
(***************************************************************************)

(* 0.3 seconds after an answer: reloadData, scrollToRow(0), which raises   *)
(* when there is no row, and applyTheme.                                   *)
Reload ==
    /\ reloads > 0 /\ ~crashed
    /\ IF Data = <<>>
       THEN /\ crashed' = TRUE
            /\ UNCHANGED <<shown, label, reloads>>
       ELSE /\ shown' = Data
            /\ label' = city
            /\ reloads' = reloads - 1
            /\ UNCHANGED crashed
    /\ UNCHANGED <<city, cafes, searchVars, requests, refreshing, hudVars>>

(* viewDidAppear, on coming back from another tab or screen: applyTheme.   *)
Appear ==
    /\ ~crashed
    /\ label' = city
    /\ shown' = Data
    /\ UNCHANGED <<city, cafes, searchVars, requests, reloads, refreshing, hudVars, crashed>>

(* Row i is scrolled into view and drawn from the data of this moment.     *)
ScrollTo(i) ==
    /\ i \in DOMAIN shown /\ ~crashed
    /\ IF i \in DOMAIN Data
       THEN /\ shown' = [shown EXCEPT ![i] = Data[i]]
            /\ UNCHANGED crashed
       ELSE /\ crashed' = TRUE
            /\ UNCHANGED shown
    /\ UNCHANGED <<city, label, cafes, searchVars, requests, reloads, refreshing, hudVars>>

(* Row i or its collect button is touched: the app acts on Data[i].        *)
Tap(i) ==
    /\ i \in DOMAIN shown /\ ~crashed
    /\ crashed' = (i \notin DOMAIN Data)
    /\ UNCHANGED <<city, label, cafes, searchVars, shown, requests, reloads,
                   refreshing, hudVars>>

-----------------------------------------------------------------------------
(***************************************************************************)
(* Searching and sorting.                                                  *)
(***************************************************************************)

(* The elements of s that are in S, in the order of s: its k-th is the one  *)
(* at the position where k of them have been met.                          *)
Filtered(s, S) ==
    LET found == {i \in DOMAIN s : s[i] \in S}
    IN  [k \in 1 .. Cardinality(found) |->
            s[CHOOSE i \in found : Cardinality({j \in found : j <= i}) = k]]

(* The cafes of the list that match, in the order of the list; none for an *)
(* empty text.                                                             *)
FilterContentForSearchText(text) ==
    IF text \in Texts THEN Filtered(cafes, Matches[text]) ELSE <<>>

(* The search bar is tapped; its text is empty.                            *)
BeginSearch ==
    /\ ~editing /\ ~crashed
    /\ editing' = TRUE
    /\ IF searching
       THEN UNCHANGED <<searching, searchResult, shown>>
       ELSE /\ searching' = TRUE
            /\ searchResult' = FilterContentForSearchText("")
            /\ shown' = searchResult'
    /\ UNCHANGED <<city, label, cafes, requests, reloads, refreshing, hudVars, crashed>>

(* Fault: the table is not told.                                           *)
UpdateSearchResults_NoReload(text) ==
    /\ searching /\ editing /\ ~crashed
    /\ searchResult' = FilterContentForSearchText(text)
    /\ UNCHANGED <<city, label, cafes, searching, editing, shown, requests, reloads,
                   refreshing, hudVars, crashed>>

UpdateSearchResults(text) ==
    /\ searching /\ editing /\ ~crashed
    /\ searchResult' = FilterContentForSearchText(text)
    /\ shown' = searchResult'
    /\ UNCHANGED <<city, label, cafes, searching, editing, requests, reloads,
                   refreshing, hudVars, crashed>>

(* The keyboard is put away and the search goes on, with the header back.  *)
SearchButtonClicked ==
    /\ editing /\ ~crashed
    /\ editing' = FALSE
    /\ UNCHANGED <<city, label, cafes, searching, searchResult, shown, requests,
                   reloads, refreshing, hudVars, crashed>>

(* The search ends; its text is emptied, which updates the results once    *)
(* more and reloads the table.                                             *)
CancelSearch ==
    /\ searching /\ ~crashed
    /\ searching' = FALSE /\ editing' = FALSE
    /\ searchResult' = FilterContentForSearchText("")
    /\ shown' = cafes
    /\ UNCHANGED <<city, label, cafes, requests, reloads, refreshing, hudVars, crashed>>

(* The orders in which a sort by that rating may leave s: descending, with *)
(* equal ratings in any order, which is all that sort promises.            *)
Sorted(s, type) ==
    {t \in SetToSeqs(Range(s)) :
        \A i \in 1 .. Len(t) - 1 : Rating[type][t[i]] >= Rating[type][t[i + 1]]}

(* Fault: the list is sorted when the results are shown.                   *)
SortCafes_List(type) ==
    /\ ~crashed
    /\ \E s \in Sorted(cafes, type) : cafes' = s /\ shown' = s
    /\ UNCHANGED <<city, label, searchVars, requests, reloads, refreshing, hudVars, crashed>>

SortCafes(type) ==
    /\ ~crashed
    /\ \E s \in Sorted(Data, type) :
        /\ shown' = s
        /\ IF searching THEN searchResult' = s /\ UNCHANGED cafes
                        ELSE cafes' = s /\ UNCHANGED searchResult
    /\ UNCHANGED <<city, label, searching, editing, requests, reloads, refreshing,
                   hudVars, crashed>>

-----------------------------------------------------------------------------
(* viewDidLoad has asked for the first city.                               *)
Init ==
    /\ city = HomeCity /\ label = HomeCity
    /\ cafes = <<>> /\ searchResult = <<>> /\ shown = <<>>
    /\ searching = FALSE /\ editing = FALSE
    /\ requests = <<HomeCity>>
    /\ reloads = 0 /\ dismissals = 0
    /\ refreshing = FALSE
    /\ hud = TRUE
    /\ crashed = FALSE

TimerStep == Reload \/ HudDismiss

UserStep ==
    \/ \E c \in Cities : ChooseCity(c)
    \/ PullToRefresh
    \/ Appear
    \/ \E i \in DOMAIN shown : ScrollTo(i) \/ Tap(i)
    \/ BeginSearch \/ SearchButtonClicked \/ CancelSearch
    \/ \E t \in Texts \cup {""} : UpdateSearchResults(t)
    \/ \E type \in Ratings : SortCafes(type)

Next ==
    \/ \E i \in DOMAIN requests : Answer(i) \/ Fail(i)
    \/ TimerStep
    \/ UserStep

Spec == Init /\ [][Next]_vars

(* Alamofire calls back for every request, with an answer or an error (the *)
(* session times out), and timers fire.                                    *)
Fairness ==
    /\ WF_vars(\E i \in DOMAIN requests : Answer(i) \/ Fail(i))
    /\ WF_vars(Reload)
    /\ WF_vars(HudDismiss)

FairSpec == Spec /\ Fairness

-----------------------------------------------------------------------------
(***************************************************************************)
(* Properties.                                                             *)
(***************************************************************************)

(* When no answer is waiting to be shown, every row shows the cafe a touch *)
(* of that row acts on, whatever was searched, sorted, answered or chosen  *)
(* before.  (In the 0.3 seconds after an answer a touch acts on a cafe     *)
(* that row does not show.)                                                *)
RowsCatchUp ==
    reloads = 0 =>
        /\ DOMAIN shown = DOMAIN Data
        /\ \A i \in DOMAIN shown : shown[i] = Data[i]

(* The app never asks for a row its arrays do not have, but in those 0.3   *)
(* seconds and in the scroll to the first row that ends them.              *)
TrapsOnlyBeforeReload == crashed => reloads > 0

(* The list never holds cafes of two cities, and neither does what a       *)
(* search found, though answers come in any order and a search keeps the   *)
(* matches of a list that was replaced since.  The rows on screen do not   *)
(* either once no answer waits to be shown; in its 0.3 seconds a scroll    *)
(* may draw rows of the new city among those of the old.                   *)
OfOneCity(s) == \E c \in Cities : Range(s) \subseteq Range(List[c])

OneCityAtATime ==
    /\ OfOneCity(cafes)
    /\ OfOneCity(searchResult)
    /\ reloads = 0 => OfOneCity(shown)

(* The HUD is not left on screen: somebody is still going to hide it.      *)
HudIsHidden == hud => requests # <<>> \/ dismissals > 0

(* With answers that come in order and do not fail, the list and its label *)
(* settle on the city that was chosen last, and nothing of it is missing.  *)
SettlesOnCity ==
    requests = <<>> /\ reloads = 0 =>
        /\ label = city
        /\ ~searching => Range(shown) = Range(List[city]) /\ Len(shown) = Len(List[city])

(* A search, and a sort during it, does not reorder or shrink the list it  *)
(* searches: that is back, in its order, when the search ends.             *)
SearchKeepsList == [][searching /\ requests' = requests => cafes' = cafes]_vars

(* With requests that do not fail a pull to refresh ends; whatever requests *)
(* do, the HUD is not shown for ever.                                      *)
RefreshEnds == refreshing ~> ~refreshing \/ crashed
HudEnds == hud ~> ~hud \/ crashed
=============================================================================
