------------------------------ MODULE CafeCell ------------------------------
(***************************************************************************)
(* The collect button of a cell: CafeTableViewCell and the two tables that *)
(* draw it.                                                                *)
(*                                                                         *)
(* A cell that is given a cafe asks isCafeCollected for it, and the answer *)
(* sets the button of the cell whatever the cell shows by then.  A tap     *)
(* keeps the button it came from and does the same, but for the cafe that  *)
(* the array of the table holds at the row of the cell: an answer replaces *)
(* the array 0.3 seconds before the rows are drawn again.  Cells are       *)
(* reused when a row scrolls out, at every reloadData and by every search, *)
(* and prepareForReuse resets nothing.  Cells of both tables are cells     *)
(* here, so two of them may show the same cafe.                            *)
(*                                                                         *)
(* FavoriteManager is reduced to what the user of this device sees of a    *)
(* cafe, collected or not; documents, accounts and connections are the     *)
(* business of Favorites.                                                  *)
(***************************************************************************)
EXTENDS Naturals, Sequences, FiniteSets

CONSTANTS
    Cells,        \* The cells of the two tables.
    Cafes,        \* The cafes, each with a document of its own.
    NoCafe,       \* A cell that was not used yet.
    MaxUnderWay,  \* Bound: reads that are asked for and not called back.
    MaxTaps       \* Bound: taps on the buttons of each cafe.

ASSUME CellAssumption == NoCafe \notin Cafes /\ MaxUnderWay \in Nat /\ MaxTaps \in Nat

(* A getDocument and what its callback keeps: "draw" is the one of         *)
(* cafe.didSet, "tap" of didClickCollectButton, "add" of addFavoriteCafe.  *)
Read == [kind : {"draw", "tap", "add"}, cell : Cells, cafe : Cafes]
Reply == [read : Read, found : BOOLEAN]

VARIABLES
    shows,      \* shows[k]: cell.cafe.
    data,       \* data[k]: the cafe in the array of the table at cell.indexPath.
    selected,   \* selected[k]: cell.collectButton.isSelected.
    reads,      \* reads[c]: the reads of the document of c not answered yet.
    mainQueue,  \* Their answers on the way to the callbacks.
    collected,  \* The cafes the user has collected, as this device sees them.
    taps,       \* taps[c]: the taps on c so far.
    crowded,    \* History: the cafes tapped while a tap on them was under way,
                \* and those of a tap that found another cafe than it was made on.
    settled     \* History: the cells drawn, and only tapped for the cafe they
                \* show, with nothing of another cell, cafe or tap in their way.

cellVars == <<shows, selected>>
history == <<taps, crowded>>
vars == <<shows, data, selected, reads, mainQueue, collected, taps, crowded, settled>>

TypeOK ==
    /\ shows \in [Cells -> Cafes \cup {NoCafe}]
    /\ data \in [Cells -> Cafes \cup {NoCafe}]
    /\ \A k \in Cells : data[k] = NoCafe <=> shows[k] = NoCafe
    /\ selected \in [Cells -> BOOLEAN]
    /\ reads \in [Cafes -> Seq(Read)]
    /\ mainQueue \in Seq(Reply)
    /\ collected \subseteq Cafes
    /\ taps \in [Cafes -> Nat]
    /\ crowded \subseteq Cafes
    /\ settled \subseteq Cells

(* The reads whose callback has not run, and those of them that may still  *)
(* change what is collected.                                               *)
UnderWay == (UNION {{reads[c][i] : i \in DOMAIN reads[c]} : c \in Cafes})
              \cup {mainQueue[i].read : i \in DOMAIN mainQueue}
Deciding(c) == {r \in UnderWay : r.cafe = c /\ r.kind # "draw"}

(* How many there are.                                                     *)
Waiting(c) == Len(reads[c]) + Cardinality({i \in DOMAIN mainQueue : mainQueue[i].read.cafe = c})

-----------------------------------------------------------------------------
(***************************************************************************)
(* The main queue: the tables, touches and callbacks.                      *)
(***************************************************************************)
GetDocument(kind, k, c) ==
    reads' = [reads EXCEPT ![c] = Append(@, [kind |-> kind, cell |-> k, cafe |-> c])]

(* Fault: no answer is asked for when the cell showed this cafe before.    *)
Draw_Same(k, c) ==
    /\ Waiting(c) < MaxUnderWay
    /\ shows' = [shows EXCEPT ![k] = c]
    /\ data' = [data EXCEPT ![k] = c]
    /\ IF shows[k] = c THEN UNCHANGED reads ELSE GetDocument("draw", k, c)
    /\ settled' =
         IF Deciding(c) = {} /\ \A r \in UnderWay : r.cell = k => r.cafe = c
         THEN settled \cup {k} ELSE settled \ {k}
    /\ UNCHANGED <<selected, mainQueue, collected, history>>

(* cellForRowAt gives a cell the cafe of its row, the same or another one: *)
(* after a scroll, a search, a sort, or any reloadData.                    *)
Draw(k, c) ==
    /\ Waiting(c) < MaxUnderWay
    /\ shows' = [shows EXCEPT ![k] = c]
    /\ data' = [data EXCEPT ![k] = c]
    /\ GetDocument("draw", k, c)
    /\ settled' =
         IF Deciding(c) = {} /\ \A r \in UnderWay : r.cell = k => r.cafe = c
         THEN settled \cup {k} ELSE settled \ {k}
    /\ UNCHANGED <<selected, mainQueue, collected, history>>

(* The answer of a list, not yet shown: any row may hold another cafe.  A  *)
(* row that is gone with it can not be tapped: the app traps, see CafeList.*)
NewList(rows) ==
    /\ \A k \in Cells : shows[k] = NoCafe <=> rows[k] = NoCafe
    /\ data' = rows
    /\ UNCHANGED <<cellVars, reads, mainQueue, collected, history, settled>>

(* A tap on cell k of a user who is logged in: it acts on the cafe c the   *)
(* array holds at the row of the cell, though the cell may show another.   *)
(* The other cells that show c are not told.                               *)
Tap(k, c) ==
    /\ c = data[k]
    /\ Waiting(c) < MaxUnderWay /\ taps[shows[k]] < MaxTaps
    /\ GetDocument("tap", k, c)
    /\ taps' = [taps EXCEPT ![shows[k]] = @ + 1]
    /\ settled' = settled \ {j \in Cells :
           IF j = k THEN c # shows[k] \/ Deciding(c) # {} ELSE shows[j] = c}
    /\ crowded' = crowded \cup
           (IF c # shows[k] THEN {c, shows[k]} ELSE IF Deciding(c) # {} THEN {c} ELSE {})
    /\ UNCHANGED <<cellVars, data, mainQueue, collected>>

(* The callback of cafe.didSet.                                            *)
DrawReply(k, c, found) ==
    /\ selected' = [selected EXCEPT ![k] = found]
    /\ UNCHANGED <<reads, collected>>

(* Fault: the cafe is the one the cell shows by now.                       *)
TapReply_Shown(k, c, found) ==
    /\ selected' = [selected EXCEPT ![k] = ~found]
    /\ IF found
       THEN collected' = collected \ {shows[k]} /\ UNCHANGED reads
       ELSE GetDocument("add", k, shows[k]) /\ UNCHANGED collected

(* The callback of didClickCollectButton: remove, or add, which reads the  *)
(* document again; and the button the tap came from is turned over.        *)
TapReply(k, c, found) ==
    /\ selected' = [selected EXCEPT ![k] = ~found]
    /\ IF found
       THEN collected' = collected \ {c} /\ UNCHANGED reads
       ELSE GetDocument("add", k, c) /\ UNCHANGED collected

(* The callback of addFavoriteCafe.                                        *)
AddReply(k, c) ==
    /\ collected' = collected \cup {c}
    /\ UNCHANGED <<selected, reads>>

Callback ==
    /\ mainQueue # <<>>
    /\ LET r == Head(mainQueue).read
           found == Head(mainQueue).found
       IN  \/ r.kind = "draw" /\ DrawReply(r.cell, r.cafe, found)
           \/ r.kind = "tap" /\ TapReply(r.cell, r.cafe, found)
           \/ r.kind = "add" /\ AddReply(r.cell, r.cafe)
    /\ mainQueue' = Tail(mainQueue)
    /\ UNCHANGED <<shows, data, history, settled>>

-----------------------------------------------------------------------------
(* Fault: a reply carries the kind alone.                                  *)
Answer_Bare(c) ==
    /\ reads[c] # <<>>
    /\ mainQueue' = mainQueue \o [i \in DOMAIN reads[c] |-> [read |-> reads[c][i]]]
    /\ reads' = [reads EXCEPT ![c] = <<>>]
    /\ UNCHANGED <<cellVars, data, collected, history, settled>>

(* Firestore answers the reads of one document together and in order, and  *)
(* those of different documents in any order.                              *)
Answer(c) ==
    /\ reads[c] # <<>>
    /\ mainQueue' = mainQueue \o
           [i \in DOMAIN reads[c] |-> [read |-> reads[c][i], found |-> c \in collected]]
    /\ reads' = [reads EXCEPT ![c] = <<>>]
    /\ UNCHANGED <<cellVars, data, collected, history, settled>>

-----------------------------------------------------------------------------
Init ==
    /\ shows = [k \in Cells |-> NoCafe]
    /\ data = [k \in Cells |-> NoCafe]
    /\ selected = [k \in Cells |-> FALSE]
    /\ reads = [c \in Cafes |-> <<>>]
    /\ mainQueue = <<>>
    /\ collected = {}
    /\ taps = [c \in Cafes |-> 0]
    /\ crowded = {}
    /\ settled = {}

Next ==
    \/ \E k \in Cells, c \in Cafes : Draw(k, c) \/ Tap(k, c)
    \/ \E rows \in [Cells -> Cafes \cup {NoCafe}] : NewList(rows)
    \/ \E c \in Cafes : Answer(c)
    \/ Callback

Spec == Init /\ [][Next]_vars

-----------------------------------------------------------------------------
(***************************************************************************)
(* Properties.                                                             *)
(***************************************************************************)

(* A cell that was drawn while nothing else was under way for it or for    *)
(* its cafe shows whether its cafe is collected, as soon as the reads of   *)
(* that cafe are called back: however often the cell was used for other    *)
(* cafes before, whatever the answers of those are still to come in other  *)
(* cells, and also after a tap on it, unless the tap found another cafe in *)
(* the array than the cell shows.  So a stale button does not outlive the  *)
(* next time its row is drawn in peace.                                    *)
SettledCellsAreRight ==
    \A k \in settled :
        (\A r \in UnderWay : r.cafe # shows[k]) => (selected[k] <=> shows[k] \in collected)

(* Every tap turns the favourite of the cafe the cell showed over, and of  *)
(* no other, though the cell may show another cafe when it is answered.    *)
(* Two kinds of taps do not: one on a cafe of which a tap is under way,    *)
(* and one made between the answer of a list and the reload that shows it, *)
(* which may turn over a cafe that is not on screen.                       *)
TapsToggle ==
    \A c \in Cafes \ crowded :
        Deciding(c) = {} => (c \in collected <=> taps[c] % 2 = 1)
=============================================================================
