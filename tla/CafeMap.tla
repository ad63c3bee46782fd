------------------------------- MODULE CafeMap -------------------------------
(***************************************************************************)
(* The map of the cafes of a city: MapViewController.                      *)
(*                                                                         *)
(* An answer is taken on the main queue, but showCafes builds the new      *)
(* annotations in a block of a concurrent global queue and hands the map   *)
(* over to the main queue again.  Nothing orders two such blocks, or a     *)
(* block and the main queue: `cafes' and `annotations' are plain arrays    *)
(* that both sides read and write.  A block is a process here, each access *)
(* of an array is a step of it, and two accesses that may meet are a data  *)
(* race, whose outcomes are choices of Collide.                            *)
(***************************************************************************)
EXTENDS Naturals, Sequences, FiniteSets, SequencesExt

CONSTANTS
    Cities,     \* The cities of the filter.
    HomeCity,   \* The city shown first.
    Cafes,      \* The cafes of all cities.
    List,       \* List[city]: the answer of the server for it.
    Placed,     \* The cafes whose latitude and longitude are numbers.
    MaxShows,   \* Bound: answers, each of which shows its cafes once.
    MaxRequests \* Bound: requests that are not answered.

ASSUME MapAssumption ==
    /\ HomeCity \in Cities
    /\ List \in [Cities -> SUBSET Cafes]
    /\ MaxShows \in Nat /\ MaxRequests \in Nat

(* The blocks of showCafes, in the order they are posted.  Every block     *)
(* makes annotations of its own.                                           *)
Blocks == 1 .. MaxShows
Annotation == [cafe : Cafes, by : Blocks]

VARIABLES
    city,         \* The city chosen; its label changes in the same callback.
    cafes,        \* The last answer.
    requests,     \* The cities asked for and not answered yet, oldest first.
    pc,           \* pc[b]: what block b does next.
    temp,         \* temp[b]: its tempAnno.
    todo,         \* todo[b]: the cafes its loop has not come to.
    annotations,  \* The array the blocks share.
    handed,       \* The blocks that have posted the end of their work to main.
    onMap,        \* The annotations of mapView.
    crashed,      \* The app trapped.
    overlap,      \* History: two blocks were at work at once, or accesses met.
    overtaken,    \* History: a request failed or was answered before an older one.
    piled         \* History: an answer came before the one before it was shown.

blockVars == <<pc, temp, todo>>
history == <<overlap, overtaken, piled>>
vars == <<city, cafes, requests, pc, temp, todo, annotations, handed, onMap,
          crashed, overlap, overtaken, piled>>

TypeOK ==
    /\ city \in Cities
    /\ cafes \subseteq Cafes
    /\ requests \in Seq(Cities)
    /\ pc \in [Blocks -> {"idle", "take", "clear", "snapshot", "append", "done"}]
    /\ temp \in [Blocks -> SUBSET Annotation]
    /\ todo \in [Blocks -> SUBSET Cafes]
    /\ annotations \subseteq Annotation
    /\ handed \in Seq(Blocks)
    /\ onMap \subseteq Annotation
    /\ crashed \in BOOLEAN
    /\ overlap \in BOOLEAN /\ overtaken \in BOOLEAN /\ piled \in BOOLEAN

CafesOf(A) == {a.cafe : a \in A}

At(label) == {b \in Blocks : pc[b] = label}
Posted == Blocks \ (At("idle") \cup At("done"))
AtWork == Posted \ At("take")

(* Every answer so far is on the map.                                      *)
Quiet == Posted = {} /\ handed = <<>>

-----------------------------------------------------------------------------
(***************************************************************************)
(* The main queue.                                                         *)
(***************************************************************************)

(* Fault: the city is asked for before it is changed.                      *)
ChooseCity_Late(c) ==
    /\ Len(requests) < MaxRequests
    /\ city' = c
    /\ requests' = Append(requests, city)
    /\ UNCHANGED <<cafes, blockVars, annotations, handed, onMap, crashed, history>>

(* A city is picked from the filter.                                       *)
ChooseCity(c) ==
    /\ Len(requests) < MaxRequests
    /\ city' = c
    /\ requests' = Append(requests, c)
    /\ UNCHANGED <<cafes, blockVars, annotations, handed, onMap, crashed, history>>

(* Request i succeeds: the list is replaced and a block posted to show it. *)
Answer(i) ==
    /\ cafes' = List[requests[i]]
    /\ requests' = RemoveAt(requests, i)
    /\ \E b \in At("idle") :
           /\ \A q \in At("idle") : b <= q
           /\ pc' = [pc EXCEPT ![b] = "take"]
    /\ overtaken' = (overtaken \/ i # 1)
    /\ piled' = (piled \/ ~Quiet)
    /\ UNCHANGED <<city, temp, todo, annotations, handed, onMap, crashed, overlap>>

(* Request i fails: an alert, and the map stays as it is.                  *)
Fail(i) ==
    /\ requests' = RemoveAt(requests, i)
    /\ overtaken' = TRUE
    /\ UNCHANGED <<city, cafes, blockVars, annotations, handed, onMap, crashed,
                   overlap, piled>>

(* Faults: the old annotations stay; they are removed after the new ones    *)
(* are added, of which some may be back.                                   *)
Show_Keep ==
    /\ handed # <<>>
    /\ onMap' = onMap \cup annotations
    /\ handed' = Tail(handed)
    /\ UNCHANGED <<city, cafes, requests, blockVars, annotations, crashed, history>>
Show_Last ==
    /\ handed # <<>>
    /\ onMap' = (onMap \cup annotations) \ temp[Head(handed)]
    /\ handed' = Tail(handed)
    /\ UNCHANGED <<city, cafes, requests, blockVars, annotations, crashed, history>>

(* The end of a block: its tempAnno is removed from the map, and what      *)
(* `annotations' holds at this moment is added.  The block is released.    *)
Show ==
    /\ handed # <<>>
    /\ onMap' = (onMap \ temp[Head(handed)]) \cup annotations
    /\ handed' = Tail(handed)
    /\ temp' = [temp EXCEPT ![Head(handed)] = {}]
    /\ UNCHANGED <<city, cafes, requests, pc, todo, annotations, crashed, history>>

-----------------------------------------------------------------------------
(***************************************************************************)
(* A block of showCafes.                                                   *)
(***************************************************************************)
Goto(b, from, to) == pc[b] = from /\ pc' = [pc EXCEPT ![b] = to]

(* let tempAnno = annotations.                                             *)
Take(b) ==
    /\ Goto(b, "take", "clear")
    /\ temp' = [temp EXCEPT ![b] = annotations]
    /\ overlap' = (overlap \/ AtWork # {})
    /\ UNCHANGED <<city, cafes, requests, todo, annotations, handed, onMap, crashed,
                   overtaken, piled>>

(* annotations.removeAll().                                                *)
Clear(b) ==
    /\ Goto(b, "clear", "snapshot")
    /\ annotations' = {}
    /\ UNCHANGED <<city, cafes, requests, temp, todo, handed, onMap, crashed, history>>

(* Fault: the map is handed over before the loop as well.                  *)
Snapshot_HandOver(b) ==
    /\ Goto(b, "snapshot", "append")
    /\ todo' = [todo EXCEPT ![b] = cafes]
    /\ handed' = Append(handed, b)
    /\ UNCHANGED <<city, cafes, requests, temp, annotations, onMap, crashed, history>>

(* The loop copies `cafes' when it begins, which may be a later answer than *)
(* the one the block was posted for.                                       *)
Snapshot(b) ==
    /\ Goto(b, "snapshot", "append")
    /\ todo' = [todo EXCEPT ![b] = cafes]
    /\ UNCHANGED <<city, cafes, requests, temp, annotations, handed, onMap, crashed, history>>

(* Faults: the loop does not come on; the array holds cafes.               *)
AppendAnnotation_Stay(b, c) ==
    /\ pc[b] = "append" /\ c \in todo[b]
    /\ annotations' = annotations \cup {[cafe |-> c, by |-> b]}
    /\ UNCHANGED <<city, cafes, requests, blockVars, handed, onMap, crashed, history>>
AppendAnnotation_Cafe(b, c) ==
    /\ pc[b] = "append" /\ c \in todo[b]
    /\ annotations' = annotations \cup {c}
    /\ todo' = [todo EXCEPT ![b] = @ \ {c}]
    /\ UNCHANGED <<city, cafes, requests, pc, temp, handed, onMap, crashed, history>>

(* One turn of the loop.  Double()! traps on what is no number.            *)
AppendAnnotation(b, c) ==
    /\ pc[b] = "append" /\ c \in todo[b]
    /\ IF c \in Placed
       THEN /\ annotations' = annotations \cup {[cafe |-> c, by |-> b]}
            /\ todo' = [todo EXCEPT ![b] = @ \ {c}]
            /\ UNCHANGED crashed
       ELSE /\ crashed' = TRUE
            /\ UNCHANGED <<annotations, todo>>
    /\ UNCHANGED <<city, cafes, requests, pc, temp, handed, onMap, history>>

(* The loop is done: DispatchQueue.main.async.                             *)
HandOver(b) ==
    /\ Goto(b, "append", "done")
    /\ todo[b] = {}
    /\ handed' = Append(handed, b)
    /\ UNCHANGED <<city, cafes, requests, temp, todo, annotations, onMap, crashed, history>>

-----------------------------------------------------------------------------
(***************************************************************************)
(* Data races.                                                             *)
(***************************************************************************)
Writers == At("clear") \cup {b \in At("append") : todo[b] # {}}

(* Two accesses of `annotations', one of them a write, that nothing        *)
(* orders: of two blocks, or of a block and the main queue.                *)
ConflictOnAnnotations ==
    \E w \in Writers : handed # <<>> \/ Writers \cup At("take") # {w}

(* The same of `cafes': a loop begins while an answer may come.            *)
ConflictOnCafes == At("snapshot") # {} /\ requests # <<>>

(* Two such accesses meet: the app traps, or an element of the array is     *)
(* lost or comes back with a buffer that was being replaced.  (A reader    *)
(* that meets a writer and lives sees the array before or after the write; *)
(* more elements are more collisions.)                                     *)
Collide ==
    /\ ConflictOnAnnotations \/ ConflictOnCafes
    /\ overlap' = TRUE
    /\ \/ /\ crashed' = TRUE
          /\ UNCHANGED annotations
       \/ /\ ConflictOnAnnotations
          /\ \/ \E a \in annotations : annotations' = annotations \ {a}
             \/ \E b \in AtWork : \E a \in temp[b] : annotations' = annotations \cup {a}
          /\ UNCHANGED crashed
    /\ UNCHANGED <<city, cafes, requests, blockVars, handed, onMap, overtaken, piled>>

-----------------------------------------------------------------------------
(* The tab is opened: viewDidLoad asks for the cafes of the first city.    *)
Init ==
    /\ city = HomeCity
    /\ cafes = {}
    /\ requests = <<HomeCity>>
    /\ pc = [b \in Blocks |-> "idle"]
    /\ temp = [b \in Blocks |-> {}]
    /\ todo = [b \in Blocks |-> {}]
    /\ annotations = {}
    /\ handed = <<>>
    /\ onMap = {}
    /\ crashed = FALSE
    /\ overlap = FALSE /\ overtaken = FALSE /\ piled = FALSE

Request(i) == Answer(i) \/ Fail(i)
BlockStep(b) ==
    \/ Take(b) \/ Clear(b) \/ Snapshot(b) \/ HandOver(b)
    \/ \E c \in Cafes : AppendAnnotation(b, c)

Next ==
    /\ ~crashed
    /\ \/ \E c \in Cities : ChooseCity(c)
       \/ \E i \in DOMAIN requests : Request(i)
       \/ Show
       \/ \E b \in Blocks : BlockStep(b)
       \/ Collide

Spec == Init /\ [][Next]_vars

(* Both queues run what is posted to them, each block of the global one on *)
(* a thread.                                                               *)
Fairness ==
    /\ WF_vars(~crashed /\ Show)
    /\ \A b \in Blocks : WF_vars(~crashed /\ BlockStep(b))

FairSpec == Spec /\ Fairness

-----------------------------------------------------------------------------
(***************************************************************************)
(* Properties.                                                             *)
(***************************************************************************)

(* While no two blocks were ever at work at once and no accesses met, the  *)
(* map ends up with one annotation for every cafe of the last answer and   *)
(* no other: nothing of an earlier city stays behind, however answers,     *)
(* blocks and the ends of blocks follow one another.                       *)
MapIsLastAnswer ==
    Quiet /\ ~overlap =>
        /\ CafesOf(onMap) = cafes
        /\ \A a, b \in onMap : a.cafe = b.cafe => a = b

(* If moreover requests are answered in order and do not fail, those are   *)
(* the cafes of the city on the label.                                     *)
MapIsOfCity ==
    Quiet /\ requests = <<>> /\ ~overlap /\ ~overtaken => CafesOf(onMap) = List[city]

(* Whatever overlaps: what the blocks left in `annotations' is on the map, *)
(* though any of them may have run between the hand-overs of the others.   *)
AllIsShown == Quiet => annotations \subseteq onMap

(* The accesses of showCafes itself, in block and main queue, are ordered  *)
(* as long as each answer is shown before the next one comes: then only an *)
(* answer that comes while the list is copied is a race.                   *)
RacesArePiled == ConflictOnAnnotations => piled

(* Every answer is shown in the end.                                       *)
AnswersAreShown == ~Quiet ~> Quiet \/ crashed
=============================================================================
