--------------------------- MODULE CafeMap_proofs ---------------------------
(***************************************************************************)
(* Theorems about CafeMap, for any cities and lists, any number of answers *)
(* and of blocks at work at once.                                          *)
(***************************************************************************)
EXTENDS CafeMap, TLAPS

-----------------------------------------------------------------------------
(***************************************************************************)
(* Types.                                                                  *)
(***************************************************************************)
LEMMA RemoveAtType ==
    ASSUME NEW s \in Seq(Cities), NEW i \in DOMAIN s
    PROVE  /\ RemoveAt(s, i) \in Seq(Cities)
           /\ Len(RemoveAt(s, i)) = Len(s) - 1
<1>1. i \in 1 .. Len(s)
    OBVIOUS
<1> DEFINE front == SubSeq(s, 1, i - 1)
           back  == SubSeq(s, i + 1, Len(s))
<1>2. front \in Seq(Cities) /\ Len(front) = i - 1
    BY <1>1
<1>3. back \in Seq(Cities) /\ Len(back) = Len(s) - i
    BY <1>1
<1>4. RemoveAt(s, i) = front \o back
    BY DEF RemoveAt
<1> HIDE DEF front, back
<1> QED
    BY <1>1, <1>2, <1>3, <1>4

(* One step of a block changes where it is.                                *)
LEMMA GotoType ==
    ASSUME TypeOK, NEW b \in Blocks, NEW from,
           NEW to \in {"take", "clear", "snapshot", "append", "done"}, Goto(b, from, to)
    PROVE  pc' \in [Blocks -> {"idle", "take", "clear", "snapshot", "append", "done"}]
    BY DEF Goto, TypeOK

LEMMA InitType == Init => TypeOK
<1> SUFFICES ASSUME Init PROVE TypeOK
    OBVIOUS
<1>1. requests \in Seq(Cities)
    BY MapAssumption DEF Init
<1>2. handed \in Seq(Blocks)
    BY DEF Init
<1> QED
    BY <1>1, <1>2, MapAssumption DEF Init, TypeOK

LEMMA NextType == TypeOK /\ [Next]_vars => TypeOK'
<1> SUFFICES ASSUME TypeOK, [Next]_vars PROVE TypeOK'
    OBVIOUS
<1> USE DEF blockVars, history
<1>1. ASSUME NEW c \in Cities, ChooseCity(c) PROVE TypeOK'
    BY <1>1 DEF TypeOK, ChooseCity
<1>2. ASSUME NEW i \in DOMAIN requests, Answer(i) PROVE TypeOK'
    <2>1. requests' \in Seq(Cities) /\ requests[i] \in Cities
        BY <1>2, RemoveAtType DEF TypeOK, Answer
    <2>2. cafes' \subseteq Cafes
        BY <1>2, <2>1, MapAssumption DEF Answer
    <2>3. pc' \in [Blocks -> {"idle", "take", "clear", "snapshot", "append", "done"}]
        BY <1>2 DEF TypeOK, Answer, At
    <2>4. overtaken' \in BOOLEAN /\ piled' \in BOOLEAN
        BY <1>2 DEF Answer
    <2> QED
        BY <1>2, <2>1, <2>2, <2>3, <2>4 DEF TypeOK, Answer
<1>3. ASSUME NEW i \in DOMAIN requests, Fail(i) PROVE TypeOK'
    BY <1>3, RemoveAtType DEF TypeOK, Fail
<1>4. CASE Show
    <2>1. Head(handed) \in Blocks /\ handed' \in Seq(Blocks)
        BY <1>4 DEF TypeOK, Show
    <2> QED
        BY <1>4, <2>1 DEF TypeOK, Show
<1>5. ASSUME NEW b \in Blocks, BlockStep(b) PROVE TypeOK'
    <2>1. CASE Take(b)
        BY <2>1, GotoType DEF TypeOK, Take
    <2>2. CASE Clear(b)
        BY <2>2, GotoType DEF TypeOK, Clear
    <2>3. CASE Snapshot(b)
        BY <2>3, GotoType DEF TypeOK, Snapshot
    <2>4. CASE HandOver(b)
        BY <2>4, GotoType DEF TypeOK, HandOver
    <2>5. ASSUME NEW c \in Cafes, AppendAnnotation(b, c) PROVE TypeOK'
        <3>1. [cafe |-> c, by |-> b] \in Annotation
            BY DEF Annotation
        <3> QED
            BY <2>5, <3>1 DEF TypeOK, AppendAnnotation
    <2> QED
        BY <1>5, <2>1, <2>2, <2>3, <2>4, <2>5 DEF BlockStep
<1>6. CASE Collide
    BY <1>6 DEF TypeOK, Collide, AtWork, Posted
<1>7. CASE UNCHANGED vars
    BY <1>7 DEF TypeOK, vars
<1> QED
    BY <1>1, <1>2, <1>3, <1>4, <1>5, <1>6, <1>7 DEF Next, Request

(* Every variable keeps its type.                                          *)
THEOREM MapTypeCorrect == Spec => []TypeOK
<1> QED
    BY InitType, NextType, PTL DEF Spec

-----------------------------------------------------------------------------
(***************************************************************************)
(* What ends up on the map.                                                *)
(***************************************************************************)

(* A block that has handed over the map is done, and what the blocks left  *)
(* is on the map once nothing is under way.                                *)
HandedInv == \A i \in DOMAIN handed : pc[handed[i]] = "done"

(* As long as nothing overlaps: at most one block is at work; what is on   *)
(* the map is in `annotations' or about to be removed; and `annotations'   *)
(* is what the place of the block at work says it is.                      *)
Leaving(a) ==
    \/ \E b \in AtWork : a \in temp[b]
    \/ \E i \in DOMAIN handed : a \in temp[handed[i]]

AloneInv ==
    /\ \A b, c \in AtWork : b = c
    /\ \A a \in onMap : a \in annotations \/ Leaving(a)
    /\ \A a, b \in annotations : a.cafe = b.cafe => a = b
    /\ \A b \in At("clear") : annotations \subseteq temp[b]
    /\ At("snapshot") # {} => annotations = {}
    /\ \A b \in At("append") :
           /\ \A a \in annotations : a.by = b
           /\ CafesOf(annotations) \cup todo[b] = cafes \/ At("take") # {}
    /\ Posted = {} => CafesOf(annotations) = cafes

MapInv == TypeOK /\ HandedInv /\ AllIsShown /\ (~overlap => AloneInv)

LEMMA InitMapInv == Init => MapInv
<1> SUFFICES ASSUME Init PROVE MapInv
    OBVIOUS
<1>1. TypeOK
    BY InitType
<1>2. Posted = {} /\ \A l \in {"clear", "snapshot", "append", "take"} : At(l) = {}
    BY DEF Init, Posted, At
<1> QED
    BY <1>1, <1>2 DEF Init, MapInv, HandedInv, AllIsShown, AloneInv, AtWork, CafesOf

(* Where a block is, in terms of pc.                                       *)
LEMMA Places ==
    ASSUME TypeOK, NEW b \in Blocks
    PROVE  /\ b \in Posted <=> pc[b] \in {"take", "clear", "snapshot", "append"}
           /\ b \in AtWork <=> pc[b] \in {"clear", "snapshot", "append"}
           /\ \A l : b \in At(l) <=> pc[b] = l
    BY DEF TypeOK, Posted, AtWork, At

LEMMA CafesOfAdd ==
    ASSUME NEW A, NEW c, NEW b
    PROVE  CafesOf(A \cup {[cafe |-> c, by |-> b]}) = CafesOf(A) \cup {c}
<1> DEFINE new == [cafe |-> c, by |-> b]
<1>1. new.cafe = c
    OBVIOUS
<1> HIDE DEF new
<1>2. ASSUME NEW x PROVE x \in CafesOf(A \cup {new}) <=> x \in CafesOf(A) \cup {c}
    <2>1. x \in CafesOf(A \cup {new}) <=> \E a \in A \cup {new} : x = a.cafe
        BY DEF CafesOf
    <2>2. x \in CafesOf(A) <=> \E a \in A : x = a.cafe
        BY DEF CafesOf
    <2> QED
        BY <1>1, <2>1, <2>2
<1>3. CafesOf(A \cup {new}) = CafesOf(A) \cup {c}
    BY <1>2
<1> QED
    BY <1>3 DEF new

(* The main queue.                                                         *)
LEMMA AnswerMapInv ==
    ASSUME MapInv, TypeOK', NEW i \in DOMAIN requests, Answer(i)
    PROVE  MapInv'
<1> USE DEF MapInv
<1>1. PICK b \in At("idle") : pc' = [pc EXCEPT ![b] = "take"]
    BY DEF Answer
<1>2. b \in Blocks /\ pc[b] = "idle" /\ pc'[b] = "take"
    BY <1>1 DEF At, TypeOK
<1>3. \A q \in Blocks : q # b => pc'[q] = pc[q]
    BY <1>1 DEF TypeOK
<1>4. HandedInv'
    <2>1. \A n \in DOMAIN handed : handed[n] \in Blocks
        BY DEF TypeOK
    <2> QED
        BY <1>2, <1>3, <2>1 DEF Answer, HandedInv
<1>5. b \in Posted' /\ b \in At("take")'
    BY <1>2 DEF Posted, At
<1>6. AtWork' = AtWork /\ \A l \in {"clear", "snapshot", "append"} : At(l)' = At(l)
    BY <1>2, <1>3 DEF AtWork, Posted, At
<1>7. AllIsShown'
    BY <1>5 DEF AllIsShown, Quiet
<1>8. overlap' = overlap /\ UNCHANGED <<temp, todo, annotations, handed, onMap>>
    BY DEF Answer
<1>9. ~overlap' => AloneInv'
    BY <1>5, <1>6, <1>8 DEF AloneInv, Leaving, CafesOf
<1> QED
    BY <1>4, <1>7, <1>9

LEMMA ShowMapInv ==
    ASSUME MapInv, TypeOK', Show
    PROVE  MapInv'
<1> USE DEF MapInv
<1> DEFINE h == Head(handed)
<1>1. h \in Blocks /\ handed # <<>>
    BY DEF Show, TypeOK
<1>2. pc[h] = "done"
    BY <1>1 DEF HandedInv, TypeOK
<1>3. \A i \in DOMAIN handed' : i + 1 \in DOMAIN handed /\ handed'[i] = handed[i + 1]
    BY <1>1 DEF Show, TypeOK
<1>4. HandedInv'
    BY <1>3 DEF Show, HandedInv
<1>5. annotations' = annotations /\ annotations \subseteq onMap'
    BY DEF Show
<1>6. AllIsShown'
    BY <1>5 DEF AllIsShown
<1>7. UNCHANGED <<overlap, cafes, todo, pc>>
    BY DEF Show, history
<1>8. Posted' = Posted /\ AtWork' = AtWork /\ \A l : At(l)' = At(l)
    BY <1>7 DEF Posted, AtWork, At
<1>9. \A b \in Blocks : b # h => temp'[b] = temp[b]
    BY DEF Show, TypeOK
<1>10. \A b \in AtWork : temp'[b] = temp[b]
    BY <1>2, <1>9, Places DEF AtWork, Posted
<1>11. ASSUME ~overlap, NEW a \in onMap' PROVE a \in annotations' \/ Leaving(a)'
    <2>1. a \in annotations \/ (a \in onMap /\ a \notin temp[h])
        BY DEF Show
    <2>2. SUFFICES ASSUME a \notin annotations PROVE Leaving(a)'
        BY <1>5
    <2>3. Leaving(a) /\ a \notin temp[h]
        BY <1>11, <2>1, <2>2 DEF AloneInv
    <2>4. CASE \E b \in AtWork : a \in temp[b]
        BY <2>4, <1>8, <1>10 DEF Leaving
    <2>5. ASSUME NEW i \in DOMAIN handed, a \in temp[handed[i]] PROVE Leaving(a)'
        <3>1. i # 1 /\ handed[i] # h
            BY <2>3, <2>5, <1>1 DEF TypeOK
        <3>2. i - 1 \in DOMAIN handed' /\ handed'[i - 1] = handed[i]
            BY <3>1, <1>1 DEF Show, TypeOK
        <3>3. temp'[handed[i]] = temp[handed[i]]
            BY <3>1, <1>9 DEF TypeOK
        <3> QED
            BY <3>2, <3>3, <2>5 DEF Leaving
    <2> QED
        BY <2>3, <2>4, <2>5 DEF Leaving
<1>12. ~overlap' => AloneInv'
    <2> SUFFICES ASSUME ~overlap PROVE AloneInv'
        BY <1>7
    <2>1. \A b \in At("clear") : b \in AtWork
        BY Places DEF At
    <2> QED
        BY <1>5, <1>7, <1>8, <1>10, <1>11, <2>1 DEF AloneInv, CafesOf
<1> QED
    BY <1>4, <1>6, <1>12

(* A block.                                                                *)
LEMMA Moves ==
    ASSUME TypeOK, NEW b \in Blocks, NEW from, NEW to, Goto(b, from, to)
    PROVE  /\ pc[b] = from /\ pc'[b] = to
           /\ \A q \in Blocks : q # b => pc'[q] = pc[q]
    BY DEF Goto, TypeOK

LEMMA TakeMapInv ==
    ASSUME MapInv, TypeOK', NEW b \in Blocks, Take(b)
    PROVE  MapInv'
<1> USE DEF MapInv
<1>1. Goto(b, "take", "clear")
    BY DEF Take
<1>2. pc[b] = "take" /\ pc'[b] = "clear" /\ \A q \in Blocks : q # b => pc'[q] = pc[q]
    BY <1>1, Moves
<1>3. UNCHANGED <<cafes, todo, annotations, handed, onMap>>
    BY DEF Take
<1>4. \A i \in DOMAIN handed : handed[i] \in Blocks /\ handed[i] # b
    BY <1>2 DEF HandedInv, TypeOK
<1>5. HandedInv'
    BY <1>2, <1>3, <1>4 DEF HandedInv
<1>6. b \in Posted' /\ b \in AtWork'
    BY <1>2 DEF AtWork, Posted, At
<1>7. AllIsShown'
    BY <1>6 DEF AllIsShown, Quiet
<1>8. temp'[b] = annotations /\ \A q \in Blocks : q # b => temp'[q] = temp[q]
    BY DEF Take, TypeOK
<1>9. ASSUME ~overlap' PROVE AloneInv'
    <2>1. AtWork = {} /\ AloneInv
        BY <1>9 DEF Take
    <2>2. AtWork' = {b}
        BY <1>2, <1>6, <2>1 DEF AtWork, Posted, At
    <2>3. At("clear")' = {b} /\ At("snapshot")' = {} /\ At("append")' = {}
        BY <1>2, <2>1 DEF AtWork, Posted, At
    <2>4. \A a \in onMap' : a \in annotations' \/ Leaving(a)'
        BY <1>3, <1>4, <1>8, <2>1 DEF AloneInv, Leaving
    <2> QED
        BY <1>3, <1>6, <1>8, <2>1, <2>2, <2>3, <2>4 DEF AloneInv
<1> QED
    BY <1>5, <1>7, <1>9

(* What the steps of a block at work have in common.                       *)
LEMMA WorkMapInv ==
    ASSUME MapInv, NEW b \in AtWork, pc'[b] \in {"clear", "snapshot", "append"},
           \A q \in Blocks : q # b => pc'[q] = pc[q], UNCHANGED handed
    PROVE  /\ HandedInv' /\ AllIsShown'
           /\ AtWork' = AtWork /\ b \in Posted' /\ At("take")' = At("take")
           /\ ~overlap => \A l \in {"clear", "snapshot", "append"} :
                              At(l)' = IF l = pc'[b] THEN {b} ELSE {}
<1> USE DEF MapInv
<1>1. b \in Blocks /\ pc[b] \in {"clear", "snapshot", "append"}
    <2>1. b \in Blocks
        BY DEF AtWork, Posted
    <2> QED
        BY <2>1, Places
<1>2. b \in Posted'
    BY <1>1 DEF Posted, At
<1>3. HandedInv'
    BY <1>1 DEF HandedInv, TypeOK
<1>4. AllIsShown'
    BY <1>2 DEF AllIsShown, Quiet
<1>5. AtWork' = AtWork /\ At("take")' = At("take")
    BY <1>1 DEF AtWork, Posted, At
<1>6. ASSUME ~overlap, NEW l \in {"clear", "snapshot", "append"}
      PROVE  At(l)' = IF l = pc'[b] THEN {b} ELSE {}
    <2>1. \A q \in At(l) : q \in AtWork
        BY DEF AtWork, Posted, At
    <2>2. \A q \in AtWork : q = b
        BY <1>6 DEF AloneInv
    <2>3. \A q \in Blocks : q # b => pc[q] # l
        BY <2>1, <2>2 DEF At
    <2> QED
        BY <1>1, <2>3 DEF At
<1> QED
    BY <1>2, <1>3, <1>4, <1>5, <1>6

LEMMA ClearMapInv ==
    ASSUME MapInv, TypeOK', NEW b \in Blocks, Clear(b)
    PROVE  MapInv'
<1> USE DEF MapInv
<1>1. pc[b] = "clear" /\ pc'[b] = "snapshot" /\ \A q \in Blocks : q # b => pc'[q] = pc[q]
    BY Moves DEF Clear
<1>2. b \in AtWork /\ b \in At("clear")
    BY <1>1 DEF AtWork, Posted, At
<1>3. UNCHANGED <<cafes, temp, todo, handed, onMap, overlap>> /\ annotations' = {}
    BY DEF Clear, history
<1>4. ASSUME ~overlap' PROVE AloneInv'
    <2>1. ~overlap /\ AloneInv
        BY <1>3, <1>4
    <2>2. AtWork' = AtWork /\ b \in Posted' /\ At("clear")' = {} /\ At("append")' = {}
        BY <1>1, <1>2, <1>3, <2>1, WorkMapInv
    <2>3. annotations \subseteq temp[b]
        BY <1>2, <2>1 DEF AloneInv
    <2>4. \A a \in onMap' : a \in annotations' \/ Leaving(a)'
        BY <1>2, <1>3, <2>1, <2>2, <2>3 DEF AloneInv, Leaving
    <2> QED
        BY <1>3, <2>1, <2>2, <2>4 DEF AloneInv
<1> QED
    BY <1>1, <1>2, <1>3, <1>4, WorkMapInv

LEMMA SnapshotMapInv ==
    ASSUME MapInv, TypeOK', NEW b \in Blocks, Snapshot(b)
    PROVE  MapInv'
<1> USE DEF MapInv
<1>1. pc[b] = "snapshot" /\ pc'[b] = "append" /\ \A q \in Blocks : q # b => pc'[q] = pc[q]
    BY Moves DEF Snapshot
<1>2. b \in AtWork /\ b \in At("snapshot")
    BY <1>1 DEF AtWork, Posted, At
<1>3. UNCHANGED <<cafes, temp, annotations, handed, onMap, overlap>> /\ todo'[b] = cafes
    BY DEF Snapshot, history, TypeOK
<1>4. ASSUME ~overlap' PROVE AloneInv'
    <2>1. ~overlap /\ AloneInv
        BY <1>3, <1>4
    <2>2. /\ AtWork' = AtWork /\ b \in Posted'
          /\ At("clear")' = {} /\ At("snapshot")' = {} /\ At("append")' = {b}
        BY <1>1, <1>2, <1>3, <2>1, WorkMapInv
    <2>3. annotations = {}
        BY <1>2, <2>1 DEF AloneInv
    <2>4. \A a \in onMap' : a \in annotations' \/ Leaving(a)'
        BY <1>3, <2>1, <2>2 DEF AloneInv, Leaving
    <2>5. CafesOf(annotations') \cup todo'[b] = cafes'
        BY <1>3, <2>3 DEF CafesOf
    <2> QED
        BY <1>3, <2>1, <2>2, <2>3, <2>4, <2>5 DEF AloneInv
<1> QED
    BY <1>1, <1>2, <1>3, <1>4, WorkMapInv

LEMMA AppendMapInv ==
    ASSUME MapInv, TypeOK', NEW b \in Blocks, NEW c \in Cafes, AppendAnnotation(b, c)
    PROVE  MapInv'
<1> USE DEF MapInv
<1>1. pc[b] = "append" /\ c \in todo[b] /\ UNCHANGED pc
    BY DEF AppendAnnotation
<1>2. b \in AtWork /\ b \in At("append")
    BY <1>1 DEF AtWork, Posted, At
<1>3. UNCHANGED <<cafes, temp, handed, onMap, overlap>> /\ annotations \subseteq annotations'
    BY DEF AppendAnnotation, history
<1>4. ASSUME ~overlap' PROVE AloneInv'
    <2>1. ~overlap /\ AloneInv
        BY <1>3, <1>4
    <2>2. /\ AtWork' = AtWork /\ b \in Posted' /\ At("take")' = At("take")
          /\ At("clear")' = {} /\ At("snapshot")' = {} /\ At("append")' = {b}
        BY <1>1, <1>2, <1>3, <2>1, WorkMapInv
    <2>3. \A a \in annotations : a.by = b
        BY <1>2, <2>1 DEF AloneInv
    <2>4. \A a \in annotations' : a.by = b
        BY <2>3 DEF AppendAnnotation
    <2>5. \A a, d \in annotations' : a.cafe = d.cafe => a = d
        <3>1. annotations' \subseteq Annotation
            BY DEF TypeOK
        <3> QED
            BY <2>4, <3>1 DEF Annotation
    <2>6. \A a \in onMap' : a \in annotations' \/ Leaving(a)'
        BY <1>3, <2>1, <2>2 DEF AloneInv, Leaving
    <2>7. CafesOf(annotations') \cup todo'[b] = cafes' \/ At("take")' # {}
        <3>1. CafesOf(annotations) \cup todo[b] = cafes \/ At("take") # {}
            BY <1>2, <2>1 DEF AloneInv
        <3>2. CASE c \in Placed
            <4>1. /\ annotations' = annotations \cup {[cafe |-> c, by |-> b]}
                  /\ todo'[b] = todo[b] \ {c}
                BY <3>2 DEF AppendAnnotation, TypeOK
            <4>2. CafesOf(annotations') = CafesOf(annotations) \cup {c}
                BY <4>1, CafesOfAdd
            <4> QED
                BY <1>1, <1>3, <2>2, <3>1, <4>1, <4>2
        <3>3. CASE c \notin Placed
            BY <1>3, <2>2, <3>1, <3>3 DEF AppendAnnotation, CafesOf
        <3> QED
            BY <3>2, <3>3
    <2> QED
        BY <1>3, <2>1, <2>2, <2>4, <2>5, <2>6, <2>7 DEF AloneInv
<1> QED
    BY <1>1, <1>2, <1>3, <1>4, WorkMapInv

LEMMA HandOverMapInv ==
    ASSUME MapInv, TypeOK', NEW b \in Blocks, HandOver(b)
    PROVE  MapInv'
<1> USE DEF MapInv
<1>1. pc[b] = "append" /\ pc'[b] = "done" /\ \A q \in Blocks : q # b => pc'[q] = pc[q]
    BY Moves DEF HandOver
<1>2. b \in AtWork /\ b \in At("append") /\ todo[b] = {}
    BY <1>1 DEF AtWork, Posted, At, HandOver
<1>3. UNCHANGED <<cafes, temp, todo, annotations, onMap, overlap>>
    BY DEF HandOver, history
<1>4. /\ handed' # <<>> /\ Len(handed) + 1 \in DOMAIN handed'
      /\ handed'[Len(handed) + 1] = b
      /\ \A i \in DOMAIN handed : i \in DOMAIN handed' /\ handed'[i] = handed[i]
      /\ \A i \in DOMAIN handed' : i \in DOMAIN handed \/ handed'[i] = b
    BY DEF HandOver, TypeOK
<1>5. HandedInv'
    <2>1. ASSUME NEW i \in DOMAIN handed PROVE pc'[handed[i]] = "done"
        <3>1. handed[i] \in Blocks /\ pc[handed[i]] = "done"
            BY DEF HandedInv, TypeOK
        <3> QED
            BY <1>1, <3>1
    <2> QED
        BY <1>1, <1>4, <2>1 DEF HandedInv
<1>6. AllIsShown'
    BY <1>4 DEF AllIsShown, Quiet
<1>7. ASSUME ~overlap' PROVE AloneInv'
    <2>1. ~overlap /\ AloneInv
        BY <1>3, <1>7
    <2>2. \A q \in AtWork : q = b
        BY <1>2, <2>1 DEF AloneInv
    <2>3. /\ AtWork' = {} /\ At("take")' = At("take")
          /\ At("clear")' = {} /\ At("snapshot")' = {} /\ At("append")' = {}
        BY <1>1, <2>2 DEF AtWork, Posted, At
    <2>4. \A a \in onMap' : a \in annotations' \/ Leaving(a)'
        BY <1>3, <1>4, <2>1, <2>2 DEF AloneInv, Leaving
    <2>5. Posted' = {} => CafesOf(annotations') = cafes'
        <3>1. At("take")' # {} => Posted' # {}
            BY DEF Posted, At
        <3>2. CafesOf(annotations) \cup todo[b] = cafes \/ At("take") # {}
            BY <1>2, <2>1 DEF AloneInv
        <3>3. annotations' = annotations /\ cafes' = cafes /\ todo[b] = {}
            BY <1>2, <1>3
        <3> QED
            BY <2>3, <3>1, <3>2, <3>3
    <2> QED
        BY <1>3, <2>1, <2>3, <2>4, <2>5 DEF AloneInv, CafesOf
<1> QED
    BY <1>5, <1>6, <1>7

LEMMA NextMapInv == MapInv /\ [Next]_vars => MapInv'
<1> SUFFICES ASSUME MapInv, [Next]_vars PROVE MapInv'
    OBVIOUS
<1>1. TypeOK'
    BY NextType DEF MapInv
<1>2. ASSUME UNCHANGED <<cafes, pc, temp, todo, annotations, handed, onMap, overlap>>
      PROVE  MapInv'
    BY <1>1, <1>2 DEF MapInv, HandedInv, AllIsShown, Quiet, AloneInv, Leaving, CafesOf,
                      AtWork, Posted, At
<1>3. ASSUME NEW c \in Cities, ChooseCity(c) PROVE MapInv'
    BY <1>2, <1>3 DEF ChooseCity, blockVars, history
<1>4. ASSUME NEW i \in DOMAIN requests, Fail(i) PROVE MapInv'
    BY <1>2, <1>4 DEF Fail, blockVars
<1>5. ASSUME NEW i \in DOMAIN requests, Answer(i) PROVE MapInv'
    BY <1>1, <1>5, AnswerMapInv
<1>6. CASE Show
    BY <1>1, <1>6, ShowMapInv
<1>7. ASSUME NEW b \in Blocks, BlockStep(b) PROVE MapInv'
    BY <1>1, <1>7, TakeMapInv, ClearMapInv, SnapshotMapInv, AppendMapInv, HandOverMapInv
       DEF BlockStep
<1>8. CASE Collide
    <2>1. overlap' = TRUE /\ UNCHANGED <<pc, handed>>
        BY <1>8 DEF Collide, blockVars
    <2>2. Posted # {}
        BY <1>8 DEF Collide, ConflictOnAnnotations, ConflictOnCafes, Writers, Posted, At
    <2>3. AllIsShown'
        BY <2>1, <2>2 DEF AllIsShown, Quiet, Posted, At
    <2> QED
        BY <1>1, <2>1, <2>3 DEF MapInv, HandedInv
<1>9. CASE UNCHANGED vars
    BY <1>2, <1>9 DEF vars
<1> QED
    BY <1>3, <1>4, <1>5, <1>6, <1>7, <1>8, <1>9 DEF Next, Request

(* Without overlapping blocks the map ends up with one annotation for      *)
(* every cafe of the last answer and nothing else.                         *)
THEOREM MapSettlesOnLastAnswer == Spec => []MapIsLastAnswer
<1>1. MapInv => MapIsLastAnswer
    <2> SUFFICES ASSUME MapInv, Quiet, ~overlap
                 PROVE  /\ CafesOf(onMap) = cafes
                        /\ \A a, b \in onMap : a.cafe = b.cafe => a = b
        BY DEF MapIsLastAnswer
    <2>1. AloneInv /\ annotations \subseteq onMap
        BY DEF MapInv, AllIsShown
    <2>2. \A a \in onMap : ~Leaving(a)
        BY DEF Leaving, Quiet, AtWork
    <2>3. onMap = annotations
        BY <2>1, <2>2 DEF AloneInv
    <2> QED
        BY <2>1, <2>3 DEF AloneInv, Quiet
<1> QED
    BY <1>1, InitMapInv, NextMapInv, PTL DEF Spec

(* Whatever overlaps and races, what the blocks left is shown.             *)
THEOREM EverythingIsShown == Spec => []AllIsShown
<1>1. MapInv => AllIsShown
    BY DEF MapInv
<1> QED
    BY <1>1, InitMapInv, NextMapInv, PTL DEF Spec

-----------------------------------------------------------------------------
(***************************************************************************)
(* The city on the label.                                                  *)
(***************************************************************************)

(* With answers in order the last request is for the city chosen.          *)
RequestsInv ==
    ~overtaken => IF requests = <<>> THEN cafes = List[city]
                  ELSE requests[Len(requests)] = city

CityInv == TypeOK /\ RequestsInv

LEMMA NextCityInv == CityInv /\ [Next]_vars => CityInv'
<1> SUFFICES ASSUME CityInv, [Next]_vars PROVE CityInv'
    OBVIOUS
<1>1. TypeOK'
    BY NextType DEF CityInv
<1>2. ASSUME UNCHANGED <<city, cafes, requests, overtaken>> PROVE CityInv'
    BY <1>1, <1>2 DEF CityInv, RequestsInv
<1>3. ASSUME NEW c \in Cities, ChooseCity(c) PROVE CityInv'
    <2>1. requests' = Append(requests, c) /\ city' = c
        BY <1>3 DEF ChooseCity
    <2>2. requests' # <<>> /\ requests'[Len(requests')] = c
        BY <2>1 DEF CityInv, TypeOK
    <2> QED
        BY <1>1, <2>1, <2>2 DEF CityInv, RequestsInv
<1>4. ASSUME NEW i \in DOMAIN requests, Fail(i) PROVE CityInv'
    BY <1>1, <1>4 DEF CityInv, RequestsInv, Fail
<1>5. ASSUME NEW i \in DOMAIN requests, Answer(i) PROVE CityInv'
    <2> SUFFICES ASSUME ~overtaken, i = 1 PROVE RequestsInv'
        BY <1>1, <1>5 DEF CityInv, RequestsInv, Answer
    <2>1. requests[Len(requests)] = city /\ requests \in Seq(Cities) /\ 1 \in DOMAIN requests
        BY DEF CityInv, RequestsInv, TypeOK
    <2>2. requests' = Tail(requests)
        <3>1. SubSeq(requests, 1, 0) = <<>> /\ SubSeq(requests, 2, Len(requests)) = Tail(requests)
            BY <2>1
        <3>2. requests' = SubSeq(requests, 1, 0) \o SubSeq(requests, 2, Len(requests))
            BY <1>5 DEF Answer, RemoveAt
        <3> QED
            BY <2>1, <3>1, <3>2
    <2>3. CASE Len(requests) = 1
        <3>1. requests' = <<>> /\ requests[1] = city
            BY <2>1, <2>2, <2>3
        <3>2. cafes' = List[city] /\ city' = city
            BY <1>5, <3>1 DEF Answer
        <3> QED
            BY <3>1, <3>2 DEF RequestsInv
    <2>4. CASE Len(requests) > 1
        <3>1. requests' # <<>> /\ requests'[Len(requests')] = city
            BY <2>1, <2>2, <2>4
        <3>2. city' = city
            BY <1>5 DEF Answer
        <3> QED
            BY <3>1, <3>2 DEF RequestsInv
    <2>5. Len(requests) = 1 \/ Len(requests) > 1
        <3>1. Len(requests) \in Nat /\ DOMAIN requests = 1 .. Len(requests)
            BY <2>1
        <3>2. 1 <= Len(requests)
            BY <2>1, <3>1
        <3> QED
            BY <3>1, <3>2
    <2> QED
        BY <2>3, <2>4, <2>5
<1>6. CASE Show
    BY <1>2, <1>6 DEF Show, history
<1>7. ASSUME NEW b \in Blocks, BlockStep(b) PROVE CityInv'
    BY <1>2, <1>7 DEF BlockStep, Take, Clear, Snapshot, AppendAnnotation, HandOver, history
<1>8. CASE Collide
    BY <1>2, <1>8 DEF Collide
<1>9. CASE UNCHANGED vars
    BY <1>2, <1>9 DEF vars
<1> QED
    BY <1>3, <1>4, <1>5, <1>6, <1>7, <1>8, <1>9 DEF Next, Request

(* With answers that come in order, too, those are the cafes of the city   *)
(* on the label.                                                           *)
THEOREM MapSettlesOnCity == Spec => []MapIsOfCity
<1>1. Init => CityInv
    BY InitType DEF Init, CityInv, RequestsInv
<1>2. CityInv /\ MapIsLastAnswer => MapIsOfCity
    BY DEF CityInv, RequestsInv, MapIsLastAnswer, MapIsOfCity
<1> QED
    BY <1>1, <1>2, NextCityInv, MapSettlesOnLastAnswer, PTL DEF Spec

-----------------------------------------------------------------------------
(***************************************************************************)
(* Races and traps.                                                        *)
(***************************************************************************)

(* Answers that are shown before the next one comes have one block posted  *)
(* at a time, and nothing handed over while it is.                         *)
OneShow ==
    /\ \A b, c \in Posted : b = c
    /\ Posted # {} => handed = <<>>

RaceInv == TypeOK /\ (~piled => OneShow)

LEMMA NextRaceInv == RaceInv /\ [Next]_vars => RaceInv'
<1> SUFFICES ASSUME RaceInv, [Next]_vars PROVE RaceInv'
    OBVIOUS
<1> USE DEF RaceInv
<1>1. TypeOK'
    BY NextType
<1>2. ASSUME UNCHANGED <<pc, handed, piled>> PROVE RaceInv'
    BY <1>1, <1>2 DEF OneShow, Posted, At
<1>3. ASSUME NEW c \in Cities, ChooseCity(c) PROVE RaceInv'
    BY <1>2, <1>3 DEF ChooseCity, blockVars, history
<1>4. ASSUME NEW i \in DOMAIN requests, Fail(i) PROVE RaceInv'
    BY <1>2, <1>4 DEF Fail, blockVars
<1>5. ASSUME NEW i \in DOMAIN requests, Answer(i) PROVE RaceInv'
    <2> SUFFICES ASSUME Quiet PROVE OneShow'
        BY <1>1, <1>5 DEF Answer
    <2>1. PICK b \in At("idle") : pc' = [pc EXCEPT ![b] = "take"]
        BY <1>5 DEF Answer
    <2>2. \A q \in Blocks : q # b => pc'[q] = pc[q]
        BY <2>1 DEF TypeOK
    <2>3. \A q \in Posted' : q = b
        BY <2>2 DEF Quiet, Posted, At
    <2> QED
        BY <1>5, <2>3 DEF Answer, Quiet, OneShow
<1>6. CASE Show
    <2>1. UNCHANGED <<pc, piled>> /\ handed # <<>>
        BY <1>6 DEF Show, history
    <2> QED
        BY <1>1, <2>1 DEF OneShow, Posted, At
<1>7. ASSUME NEW b \in Blocks, BlockStep(b) PROVE RaceInv'
    <2>1. CASE HandOver(b)
        <3>1. pc[b] = "append" /\ pc'[b] = "done" /\ \A q \in Blocks : q # b => pc'[q] = pc[q]
            BY <2>1, Moves DEF HandOver
        <3>2. b \in Posted
            BY <3>1 DEF Posted, At
        <3>3. OneShow => Posted' = {}
            BY <3>1, <3>2 DEF OneShow, Posted, At
        <3> QED
            BY <1>1, <2>1, <3>3 DEF HandOver, history, OneShow
    <2>2. CASE Take(b) \/ Clear(b) \/ Snapshot(b) \/ \E c \in Cafes : AppendAnnotation(b, c)
        <3>1. pc[b] \notin {"idle", "done"} /\ UNCHANGED <<handed, piled>>
            BY <2>2, Moves DEF Take, Clear, Snapshot, AppendAnnotation, history
        <3>2. \A q \in Blocks : q # b => pc'[q] = pc[q]
            BY <2>2, Moves DEF Take, Clear, Snapshot, AppendAnnotation
        <3>3. Posted' \subseteq Posted /\ b \in Posted
            BY <3>1, <3>2 DEF Posted, At
        <3> QED
            BY <1>1, <3>1, <3>3 DEF OneShow
    <2> QED
        BY <1>7, <2>1, <2>2 DEF BlockStep
<1>8. CASE Collide
    BY <1>2, <1>8 DEF Collide, blockVars
<1>9. CASE UNCHANGED vars
    BY <1>2, <1>9 DEF vars
<1> QED
    BY <1>3, <1>4, <1>5, <1>6, <1>7, <1>8, <1>9 DEF Next, Request

(* Accesses of `annotations' only race after an answer that came before    *)
(* the one before it was shown.                                            *)
THEOREM NoRaceUnlessPiled == Spec => []RacesArePiled
<1>1. Init => RaceInv
    BY InitType DEF Init, RaceInv, OneShow, Posted, At
<1>2. RaceInv => RacesArePiled
    <2> SUFFICES ASSUME OneShow PROVE ~ConflictOnAnnotations
        BY DEF RaceInv, RacesArePiled
    <2>1. Writers \cup At("take") \subseteq Posted
        BY DEF Writers, Posted, At
    <2> QED
        BY <2>1 DEF ConflictOnAnnotations, OneShow, Writers
<1> QED
    BY <1>1, <1>2, NextRaceInv, PTL DEF Spec

=============================================================================
