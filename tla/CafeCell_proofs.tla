--------------------------- MODULE CafeCell_proofs ---------------------------
(***************************************************************************)
(* Theorems about CafeCell, for any cells and cafes and any number of      *)
(* reads and taps.                                                         *)
(***************************************************************************)
EXTENDS CafeCell, TLAPS

(* A read is for the cafe whose document it waits for.                     *)
OwnDocument == \A c \in Cafes : \A i \in 1 .. Len(reads[c]) : reads[c][i].cafe = c

Decides(r) == r.kind # "draw"
DecidesFor(r, c) == r.cafe = c /\ r.kind # "draw"

-----------------------------------------------------------------------------
(***************************************************************************)
(* Of the reads of a cafe that was never tapped too early at most one      *)
(* decides what is collected, and it carries the parity of the taps.       *)
(***************************************************************************)
Odd(c) == taps[c] % 2 = 1

OneDecides(c) ==
    /\ \A i, j \in 1 .. Len(reads[c]) : Decides(reads[c][i]) /\ Decides(reads[c][j]) => i = j
    /\ \A i, j \in 1 .. Len(mainQueue) :
           DecidesFor(mainQueue[i].read, c) /\ DecidesFor(mainQueue[j].read, c) => i = j
    /\ \A i \in 1 .. Len(reads[c]), j \in 1 .. Len(mainQueue) :
           ~(Decides(reads[c][i]) /\ DecidesFor(mainQueue[j].read, c))

Parity(c) ==
    /\ \/ \E i \in 1 .. Len(reads[c]) : Decides(reads[c][i])
       \/ \E i \in 1 .. Len(mainQueue) : DecidesFor(mainQueue[i].read, c)
       \/ c \in collected <=> Odd(c)
    /\ \A i \in 1 .. Len(reads[c]) :
           /\ reads[c][i].kind = "tap" => (c \in collected <=> ~Odd(c))
           /\ reads[c][i].kind = "add" => c \notin collected /\ Odd(c)
    /\ \A i \in 1 .. Len(mainQueue) : mainQueue[i].read.cafe = c =>
           /\ mainQueue[i].read.kind = "tap" =>
                  (c \in collected <=> ~Odd(c)) /\ (mainQueue[i].found <=> c \in collected)
           /\ mainQueue[i].read.kind = "add" => c \notin collected /\ Odd(c)

TapInv == \A c \in Cafes \ crowded : OneDecides(c) /\ Parity(c)

-----------------------------------------------------------------------------
(***************************************************************************)
(* A settled cell k that shows c: the last of its reads decides the button.*)
(***************************************************************************)

(* All its reads are for c, and nobody else decides about c.               *)
Alone(k, c) ==
    /\ \A x \in Cafes : \A i \in 1 .. Len(reads[x]) : reads[x][i].cell = k => x = c
    /\ \A i \in 1 .. Len(mainQueue) : mainQueue[i].read.cell = k => mainQueue[i].read.cafe = c
    /\ \A i \in 1 .. Len(reads[c]) : Decides(reads[c][i]) => reads[c][i].cell = k
    /\ \A i \in 1 .. Len(mainQueue) : DecidesFor(mainQueue[i].read, c) => mainQueue[i].read.cell = k

(* No read of k comes after read i of the document, after answer i.        *)
LastRead(k, c, i) == \A j \in 1 .. Len(reads[c]) : j > i => reads[c][j].cell # k
LastAnswer(k, c, i) ==
    /\ \A j \in 1 .. Len(mainQueue) : j > i => mainQueue[j].read.cell # k
    /\ LastRead(k, c, 0)

(* A read that decides is the last one, and that of an add the only one;   *)
(* the last one, once answered, knows whether c is collected.              *)
LastDecides(k, c) ==
    /\ \A i \in 1 .. Len(reads[c]) : Decides(reads[c][i]) => LastRead(k, c, i)
    /\ \A i \in 1 .. Len(mainQueue) : DecidesFor(mainQueue[i].read, c) => LastAnswer(k, c, i)
    /\ \A i \in 1 .. Len(mainQueue) :
           mainQueue[i].read.cell = k /\ LastAnswer(k, c, i) /\ mainQueue[i].read.kind # "add"
               => (mainQueue[i].found <=> c \in collected)

AddIsAlone(k, c) ==
    /\ \A i \in 1 .. Len(reads[c]) : reads[c][i].kind = "add" =>
           /\ selected[k] = TRUE
           /\ \A j \in 1 .. Len(reads[c]) : reads[c][j].cell = k => j = i
           /\ \A j \in 1 .. Len(mainQueue) : mainQueue[j].read.cell # k
    /\ \A i \in 1 .. Len(mainQueue) : mainQueue[i].read.kind = "add" /\ mainQueue[i].read.cafe = c =>
           /\ selected[k] = TRUE
           /\ \A j \in 1 .. Len(mainQueue) : mainQueue[j].read.cell = k => j = i

NothingLeft(k, c) == LastAnswer(k, c, 0) => (selected[k] <=> c \in collected)

CellIsRight(k, c) ==
    Alone(k, c) /\ LastDecides(k, c) /\ AddIsAlone(k, c) /\ NothingLeft(k, c)

SettledInv == \A k \in settled : shows[k] \in Cafes /\ CellIsRight(k, shows[k])

-----------------------------------------------------------------------------
(***************************************************************************)
(* What the actions do to the queues.                                      *)
(***************************************************************************)

LEMMA Joined ==
    ASSUME NEW S, NEW s \in Seq(S), NEW t \in Seq(S)
    PROVE  /\ s \o t \in Seq(S)
           /\ Len(s) \in Nat /\ Len(t) \in Nat /\ Len(s \o t) = Len(s) + Len(t)
           /\ \A i \in 1 .. Len(s) : (s \o t)[i] = s[i]
           /\ \A i \in 1 .. Len(t) : (s \o t)[Len(s) + i] = t[i]
<1>1. s \o t \in Seq(S) /\ Len(s) \in Nat /\ Len(t) \in Nat /\ Len(s \o t) = Len(s) + Len(t)
    OBVIOUS
<1>2. ASSUME NEW i \in 1 .. Len(s) PROVE (s \o t)[i] = s[i]
    BY <1>1
<1>3. ASSUME NEW i \in 1 .. Len(t) PROVE (s \o t)[Len(s) + i] = t[i]
    BY <1>1
<1> QED
    BY <1>1, <1>2, <1>3

LEMMA Asked ==
    ASSUME TypeOK, NEW x \in Cafes, NEW r \in Read,
           reads' = [reads EXCEPT ![x] = Append(@, r)]
    PROVE  /\ reads' \in [Cafes -> Seq(Read)]
           /\ \A y \in Cafes : y # x => reads'[y] = reads[y]
           /\ Len(reads[x]) \in Nat /\ Len(reads'[x]) = Len(reads[x]) + 1
           /\ \A i \in 1 .. Len(reads[x]) : reads'[x][i] = reads[x][i]
           /\ reads'[x][Len(reads[x]) + 1] = r
<1>1. reads[x] \in Seq(Read) /\ reads'[x] = Append(reads[x], r)
    BY DEF TypeOK
<1>2. Append(reads[x], r) \in Seq(Read) /\ Len(reads[x]) \in Nat
    BY <1>1
<1>3. reads' \in [Cafes -> Seq(Read)]
    BY <1>1, <1>2 DEF TypeOK
<1>4. \A y \in Cafes : y # x => reads'[y] = reads[y]
    BY DEF TypeOK
<1> HIDE DEF TypeOK
<1> QED
    BY <1>1, <1>2, <1>3, <1>4

LEMMA AskedFor ==
    ASSUME TypeOK, NEW kind \in {"draw", "tap", "add"}, NEW k \in Cells, NEW x \in Cafes,
           GetDocument(kind, k, x)
    PROVE  /\ reads' \in [Cafes -> Seq(Read)]
           /\ \A y \in Cafes : y # x => reads'[y] = reads[y]
           /\ Len(reads[x]) \in Nat /\ Len(reads'[x]) = Len(reads[x]) + 1
           /\ \A i \in 1 .. Len(reads[x]) : reads'[x][i] = reads[x][i]
           /\ reads'[x][Len(reads[x]) + 1].kind = kind
           /\ reads'[x][Len(reads[x]) + 1].cell = k
           /\ reads'[x][Len(reads[x]) + 1].cafe = x
<1> DEFINE r == [kind |-> kind, cell |-> k, cafe |-> x]
<1>1. r \in Read /\ r.kind = kind /\ r.cell = k /\ r.cafe = x
    BY DEF Read
<1>2. reads' = [reads EXCEPT ![x] = Append(@, r)]
    BY DEF GetDocument
<1> HIDE DEF r
<1> QED
    BY <1>1, <1>2, Asked

LEMMA Answered ==
    ASSUME TypeOK, NEW x \in Cafes, Answer(x)
    PROVE  /\ reads' \in [Cafes -> Seq(Read)] /\ mainQueue' \in Seq(Reply)
           /\ \A y \in Cafes : y # x => reads'[y] = reads[y]
           /\ reads'[x] = <<>> /\ Len(reads'[x]) = 0
           /\ Len(mainQueue) \in Nat /\ Len(reads[x]) \in Nat
           /\ Len(mainQueue') = Len(mainQueue) + Len(reads[x])
           /\ \A i \in 1 .. Len(mainQueue) : mainQueue'[i] = mainQueue[i]
           /\ \A i \in 1 .. Len(reads[x]) :
                  /\ mainQueue'[Len(mainQueue) + i].read = reads[x][i]
                  /\ mainQueue'[Len(mainQueue) + i].found = (x \in collected)
<1> DEFINE q == reads[x]
           b == x \in collected
           a == [i \in DOMAIN q |-> [read |-> q[i], found |-> b]]
<1>1. q \in Seq(Read) /\ mainQueue \in Seq(Reply) /\ b \in BOOLEAN
    BY DEF TypeOK
<1>2. mainQueue' = mainQueue \o a /\ reads' = [reads EXCEPT ![x] = <<>>]
    BY DEF Answer
<1>3. reads' \in [Cafes -> Seq(Read)] /\ reads'[x] = <<>> /\ Len(<<>>) = 0
    BY <1>2 DEF TypeOK
<1>4. \A y \in Cafes : y # x => reads'[y] = reads[y]
    BY <1>2 DEF TypeOK
<1> HIDE DEF q, b
<1>5. DOMAIN q = 1 .. Len(q) /\ Len(q) \in Nat /\ \A i \in 1 .. Len(q) : q[i] \in Read
    BY <1>1
<1>6. a \in Seq(Reply) /\ Len(a) = Len(q)
    BY <1>1, <1>5 DEF Reply
<1>7. ASSUME NEW i \in 1 .. Len(q) PROVE a[i].read = q[i] /\ a[i].found = b
    BY <1>5, <1>7
<1> HIDE DEF a
<1>8. /\ mainQueue \o a \in Seq(Reply) /\ Len(mainQueue) \in Nat
      /\ Len(mainQueue \o a) = Len(mainQueue) + Len(a)
      /\ \A i \in 1 .. Len(mainQueue) : (mainQueue \o a)[i] = mainQueue[i]
      /\ \A i \in 1 .. Len(a) : (mainQueue \o a)[Len(mainQueue) + i] = a[i]
    <2>1. mainQueue \in Seq(Reply) /\ a \in Seq(Reply)
        BY <1>1, <1>6
    <2> QED
        BY <2>1, Joined
<1>9. /\ mainQueue' \in Seq(Reply)
      /\ Len(mainQueue') = Len(mainQueue) + Len(q)
      /\ \A i \in 1 .. Len(mainQueue) : mainQueue'[i] = mainQueue[i]
      /\ \A i \in 1 .. Len(q) : /\ mainQueue'[Len(mainQueue) + i].read = q[i]
                                /\ mainQueue'[Len(mainQueue) + i].found = b
    <2>1. mainQueue' = mainQueue \o a
        BY <1>2
    <2>2. \A i \in 1 .. Len(q) : mainQueue'[Len(mainQueue) + i] = a[i]
        BY <2>1, <1>6, <1>8
    <2> QED
        BY <2>1, <2>2, <1>6, <1>7, <1>8
<1> QED
    BY <1>3, <1>4, <1>5, <1>8, <1>9 DEF q, b

LEMMA Called ==
    ASSUME TypeOK, mainQueue # <<>>, mainQueue' = Tail(mainQueue)
    PROVE  /\ mainQueue' \in Seq(Reply)
           /\ Len(mainQueue) \in Nat /\ Len(mainQueue) > 0
           /\ Len(mainQueue') = Len(mainQueue) - 1
           /\ Head(mainQueue) = mainQueue[1] /\ mainQueue[1] \in Reply
           /\ mainQueue[1].read \in Read /\ mainQueue[1].found \in BOOLEAN
           /\ \A i \in 1 .. Len(mainQueue') : mainQueue'[i] = mainQueue[i + 1]
<1>1. mainQueue \in Seq(Reply)
    BY DEF TypeOK
<1>2. Len(mainQueue) \in Nat /\ Len(mainQueue) > 0
    BY <1>1
<1>3. /\ mainQueue' \in Seq(Reply)
      /\ Len(mainQueue') = Len(mainQueue) - 1
      /\ Head(mainQueue) = mainQueue[1] /\ mainQueue[1] \in Reply
      /\ \A i \in 1 .. Len(mainQueue') : mainQueue'[i] = mainQueue[i + 1]
    BY <1>1, <1>2
<1> QED
    BY <1>2, <1>3 DEF Reply

LEMMA Shorter ==
    ASSUME TypeOK, mainQueue # <<>>, mainQueue' = Tail(mainQueue)
    PROVE  \E m \in Nat : m = Len(mainQueue') /\ Len(mainQueue) = m + 1
<1>1. /\ Len(mainQueue) \in Nat /\ Len(mainQueue) > 0
      /\ Len(mainQueue') = Len(mainQueue) - 1
    BY Called
<1>2. Len(mainQueue') \in Nat /\ Len(mainQueue) = Len(mainQueue') + 1
    BY <1>1
<1> QED
    BY <1>2

LEMMA ReadsLength ==
    ASSUME TypeOK, NEW c \in Cafes
    PROVE  \E n \in Nat : n = Len(reads[c])
<1>1. reads[c] \in Seq(Read)
    BY DEF TypeOK
<1>2. Len(reads[c]) \in Nat
    BY <1>1
<1> QED
    BY <1>2

(* Nothing that decides about c is under way.                              *)
LEMMA Undecided ==
    ASSUME TypeOK, OwnDocument, NEW c \in Cafes
    PROVE  Deciding(c) = {} <=>
               /\ \A i \in 1 .. Len(reads[c]) : ~Decides(reads[c][i])
               /\ \A i \in 1 .. Len(mainQueue) : ~DecidesFor(mainQueue[i].read, c)
<1>1. \A x \in Cafes : DOMAIN reads[x] = 1 .. Len(reads[x])
    BY DEF TypeOK
<1>2. DOMAIN mainQueue = 1 .. Len(mainQueue)
    BY DEF TypeOK
<1>3. ASSUME Deciding(c) = {}
      PROVE  /\ \A i \in 1 .. Len(reads[c]) : ~Decides(reads[c][i])
             /\ \A i \in 1 .. Len(mainQueue) : ~DecidesFor(mainQueue[i].read, c)
    <2>1. ASSUME NEW i \in 1 .. Len(reads[c]) PROVE ~Decides(reads[c][i])
        <3>1. reads[c][i] \in {reads[c][j] : j \in DOMAIN reads[c]}
            BY <1>1, <2>1
        <3>2. reads[c][i] \in UnderWay
            BY <3>1 DEF UnderWay
        <3> QED
            BY <1>3, <3>2, <2>1 DEF Deciding, Decides, OwnDocument
    <2>2. ASSUME NEW i \in 1 .. Len(mainQueue) PROVE ~DecidesFor(mainQueue[i].read, c)
        BY <1>2, <1>3, <2>2 DEF Deciding, DecidesFor, UnderWay
    <2> QED
        BY <2>1, <2>2
<1>4. ASSUME \A i \in 1 .. Len(reads[c]) : ~Decides(reads[c][i]),
             \A i \in 1 .. Len(mainQueue) : ~DecidesFor(mainQueue[i].read, c)
      PROVE  Deciding(c) = {}
    <2> SUFFICES ASSUME NEW r \in UnderWay, r.cafe = c, r.kind # "draw" PROVE FALSE
        BY DEF Deciding
    <2>1. CASE \E x \in Cafes : r \in {reads[x][i] : i \in DOMAIN reads[x]}
        BY <1>1, <1>4, <2>1 DEF OwnDocument, Decides
    <2>2. CASE \E i \in DOMAIN mainQueue : r = mainQueue[i].read
        BY <1>2, <1>4, <2>2 DEF DecidesFor
    <2> QED
        BY <2>1, <2>2 DEF UnderWay
<1> QED
    BY <1>3, <1>4

-----------------------------------------------------------------------------
(***************************************************************************)
(* Types.                                                                  *)
(***************************************************************************)

LEMMA InitTypeOK == Init => TypeOK
    BY DEF Init, TypeOK, Read, Reply

LEMMA NextTypeOK == TypeOK /\ [Next]_vars => TypeOK'
<1> SUFFICES ASSUME TypeOK, [Next]_vars PROVE TypeOK'
    OBVIOUS
<1>1. ASSUME NEW k \in Cells, NEW c \in Cafes, Draw(k, c) PROVE TypeOK'
    <2>1. reads' \in [Cafes -> Seq(Read)]
        BY <1>1, AskedFor DEF Draw
    <2>2. settled' \subseteq Cells
        BY <1>1 DEF Draw, TypeOK
    <2>3. \A j \in Cells : data'[j] = NoCafe <=> shows'[j] = NoCafe
        BY <1>1 DEF Draw, TypeOK
    <2> QED
        BY <1>1, <2>1, <2>2, <2>3 DEF Draw, TypeOK, history
<1>2. ASSUME NEW k \in Cells, NEW c \in Cafes, Tap(k, c) PROVE TypeOK'
    <2>1. reads' \in [Cafes -> Seq(Read)]
        BY <1>2, AskedFor DEF Tap
    <2>0. shows[k] \in Cafes
        BY <1>2, CellAssumption DEF Tap, TypeOK
    <2>2. settled' \subseteq Cells /\ crowded' \subseteq Cafes
        BY <1>2, <2>0 DEF Tap, TypeOK
    <2>3. taps' \in [Cafes -> Nat]
        BY <1>2, <2>0 DEF Tap, TypeOK
    <2> QED
        BY <1>2, <2>1, <2>2, <2>3 DEF Tap, TypeOK, cellVars
<1>3. ASSUME NEW c \in Cafes, Answer(c) PROVE TypeOK'
    BY <1>3, Answered DEF Answer, TypeOK, cellVars, history
<1>4. CASE Callback
    <2> DEFINE r == mainQueue[1].read
               found == mainQueue[1].found
    <2>1. /\ mainQueue' \in Seq(Reply) /\ Head(mainQueue) = mainQueue[1]
          /\ r \in Read /\ found \in BOOLEAN
        BY <1>4, Called DEF Callback
    <2>2. r.cell \in Cells /\ r.cafe \in Cafes
        BY <2>1 DEF Read
    <2> HIDE DEF r, found
    <2>3. \/ DrawReply(r.cell, r.cafe, found)
          \/ TapReply(r.cell, r.cafe, found)
          \/ AddReply(r.cell, r.cafe)
        BY <1>4, <2>1 DEF Callback, r, found
    <2>4. reads' \in [Cafes -> Seq(Read)]
        <3>1. CASE GetDocument("add", r.cell, r.cafe)
            BY <2>2, <3>1, AskedFor
        <3>2. CASE UNCHANGED reads
            BY <3>2 DEF TypeOK
        <3> QED
            BY <2>3, <3>1, <3>2 DEF DrawReply, TapReply, AddReply
    <2>5. selected' \in [Cells -> BOOLEAN] /\ collected' \subseteq Cafes
        BY <2>1, <2>2, <2>3 DEF DrawReply, TapReply, AddReply, TypeOK
    <2> QED
        BY <1>4, <2>1, <2>4, <2>5 DEF Callback, TypeOK, history
<1>5. CASE UNCHANGED vars
    BY <1>5 DEF vars, TypeOK
<1>6. ASSUME NEW rows \in [Cells -> Cafes \cup {NoCafe}], NewList(rows) PROVE TypeOK'
    BY <1>6 DEF NewList, TypeOK, cellVars, history
<1> QED
    BY <1>1, <1>2, <1>3, <1>4, <1>5, <1>6 DEF Next

(* Every variable stays within its type.                                   *)
THEOREM CellTypeCorrect == Spec => []TypeOK
    BY InitTypeOK, NextTypeOK, PTL DEF Spec

-----------------------------------------------------------------------------
(***************************************************************************)
(* Reads wait for their own documents.                                     *)
(***************************************************************************)

(* What a callback does, with its read and its answer at hand.             *)
LEMMA Calls ==
    ASSUME TypeOK, Callback
    PROVE  /\ mainQueue # <<>> /\ mainQueue' = Tail(mainQueue)
           /\ mainQueue[1].read \in Read /\ mainQueue[1].found \in BOOLEAN
           /\ mainQueue[1].read.cell \in Cells /\ mainQueue[1].read.cafe \in Cafes
           /\ UNCHANGED <<shows, taps, crowded, settled>>
           /\ \/ /\ mainQueue[1].read.kind = "draw"
                 /\ DrawReply(mainQueue[1].read.cell, mainQueue[1].read.cafe, mainQueue[1].found)
              \/ /\ mainQueue[1].read.kind = "tap"
                 /\ TapReply(mainQueue[1].read.cell, mainQueue[1].read.cafe, mainQueue[1].found)
              \/ /\ mainQueue[1].read.kind = "add"
                 /\ AddReply(mainQueue[1].read.cell, mainQueue[1].read.cafe)
<1>1. mainQueue # <<>> /\ mainQueue' = Tail(mainQueue)
    BY DEF Callback
<1>2. Head(mainQueue) = mainQueue[1] /\ mainQueue[1].read \in Read /\ mainQueue[1].found \in BOOLEAN
    BY <1>1, Called
<1>3. mainQueue[1].read.cell \in Cells /\ mainQueue[1].read.cafe \in Cafes
    BY <1>2 DEF Read
<1> QED
    BY <1>1, <1>2, <1>3 DEF Callback, history

LEMMA AskedOwn ==
    ASSUME TypeOK, OwnDocument, NEW k \in Cells, NEW c \in Cafes, NEW kind \in {"draw", "tap", "add"},
           GetDocument(kind, k, c)
    PROVE  OwnDocument'
<1>1. /\ \A y \in Cafes : y # c => reads'[y] = reads[y]
      /\ Len(reads[c]) \in Nat /\ Len(reads'[c]) = Len(reads[c]) + 1
      /\ \A i \in 1 .. Len(reads[c]) : reads'[c][i] = reads[c][i]
      /\ reads'[c][Len(reads[c]) + 1].cafe = c
    BY AskedFor
<1>2. ASSUME NEW y \in Cafes, NEW i \in 1 .. Len(reads'[y]) PROVE reads'[y][i].cafe = y
    <2>1. CASE y # c
        BY <1>1, <1>2, <2>1 DEF OwnDocument
    <2>2. CASE y = c /\ i = Len(reads[c]) + 1
        BY <1>1, <2>2
    <2>3. CASE y = c /\ i # Len(reads[c]) + 1
        <3>1. i \in 1 .. Len(reads[c])
            BY <1>1, <1>2, <2>3
        <3> QED
            BY <1>1, <2>3, <3>1 DEF OwnDocument
    <2> QED
        BY <2>1, <2>2, <2>3
<1> QED
    BY <1>2 DEF OwnDocument

LEMMA NextOwnDocument == TypeOK /\ OwnDocument /\ [Next]_vars => OwnDocument'
<1> SUFFICES ASSUME TypeOK, OwnDocument, [Next]_vars PROVE OwnDocument'
    OBVIOUS
<1>1. ASSUME NEW k \in Cells, NEW c \in Cafes, Draw(k, c) \/ Tap(k, c) PROVE OwnDocument'
    BY <1>1, AskedOwn DEF Draw, Tap
<1>2. ASSUME NEW c \in Cafes, Answer(c) PROVE OwnDocument'
    <2>1. \A y \in Cafes : y # c => reads'[y] = reads[y]
        BY <1>2, Answered
    <2>2. Len(reads'[c]) = 0
        BY <1>2, Answered
    <2>3. ASSUME NEW y \in Cafes, NEW i \in 1 .. Len(reads'[y]) PROVE reads'[y][i].cafe = y
        BY <2>1, <2>2, <2>3 DEF OwnDocument
    <2> QED
        BY <2>3 DEF OwnDocument
<1>3. CASE Callback
    BY <1>3, Calls, AskedOwn DEF DrawReply, TapReply, AddReply, OwnDocument
<1>4. CASE UNCHANGED vars
    BY <1>4 DEF vars, OwnDocument
<1>5. ASSUME NEW rows \in [Cells -> Cafes \cup {NoCafe}], NewList(rows) PROVE OwnDocument'
    BY <1>5 DEF NewList, OwnDocument
<1> QED
    BY <1>1, <1>2, <1>3, <1>4, <1>5 DEF Next

-----------------------------------------------------------------------------
(***************************************************************************)
(* Taps.                                                                   *)
(***************************************************************************)

(* Nothing happens that matters to c but that a draw may be asked for.     *)
LEMMA TapInvUndisturbed ==
    ASSUME TypeOK, NEW c \in Cafes, OneDecides(c), Parity(c),
           mainQueue' = mainQueue, taps'[c] = taps[c], c \in collected' <=> c \in collected,
           Len(reads[c]) \in Nat, Len(reads'[c]) \in Nat,
           \A i \in 1 .. Len(reads[c]) : i \in 1 .. Len(reads'[c]) /\ reads'[c][i] = reads[c][i],
           \A i \in 1 .. Len(reads'[c]) : i \in 1 .. Len(reads[c]) \/ reads'[c][i].kind = "draw"
    PROVE  OneDecides(c)' /\ Parity(c)'
<1>1. OneDecides(c)'
    <2>1. \A i \in 1 .. Len(reads'[c]) :
              Decides(reads'[c][i]) => i \in 1 .. Len(reads[c]) /\ Decides(reads[c][i])
        BY DEF Decides
    <2> QED
        BY <2>1 DEF OneDecides
<1>2. Odd(c)' <=> Odd(c)
    BY DEF Odd
<1> DEFINE waits == \E i \in 1 .. Len(reads[c]) : Decides(reads[c][i])
           answered == \E i \in 1 .. Len(mainQueue) : DecidesFor(mainQueue[i].read, c)
<1>3. waits => waits'
    BY DEF Decides
<1>4. answered => answered'
    OBVIOUS
<1>5. waits' \/ answered' \/ (c \in collected <=> Odd(c))'
    BY <1>2, <1>3, <1>4 DEF Parity
<1>6. ASSUME NEW i \in 1 .. Len(reads'[c])
      PROVE  /\ reads'[c][i].kind = "tap" => (c \in collected' <=> ~Odd(c)')
             /\ reads'[c][i].kind = "add" => c \notin collected' /\ Odd(c)'
    <2>1. CASE i \in 1 .. Len(reads[c])
        BY <1>2, <1>6, <2>1 DEF Parity
    <2>2. CASE reads'[c][i].kind = "draw"
        BY <2>2
    <2> QED
        BY <1>6, <2>1, <2>2
<1>7. ASSUME NEW i \in 1 .. Len(mainQueue'), mainQueue'[i].read.cafe = c
      PROVE  /\ mainQueue'[i].read.kind = "tap" =>
                    (c \in collected' <=> ~Odd(c)') /\ (mainQueue'[i].found <=> c \in collected')
             /\ mainQueue'[i].read.kind = "add" => c \notin collected' /\ Odd(c)'
    BY <1>2, <1>7 DEF Parity
<1> QED
    BY <1>1, <1>5, <1>6, <1>7 DEF Parity

LEMMA TapInvDraw ==
    ASSUME TypeOK, NEW c \in Cafes, OneDecides(c), Parity(c),
           NEW k \in Cells, NEW x \in Cafes, Draw(k, x)
    PROVE  OneDecides(c)' /\ Parity(c)'
<1>1. /\ \A y \in Cafes : y # x => reads'[y] = reads[y]
      /\ Len(reads[x]) \in Nat /\ Len(reads'[x]) = Len(reads[x]) + 1
      /\ \A i \in 1 .. Len(reads[x]) : reads'[x][i] = reads[x][i]
      /\ reads'[x][Len(reads[x]) + 1].kind = "draw"
    BY AskedFor DEF Draw
<1>2. mainQueue' = mainQueue /\ taps' = taps /\ collected' = collected
    BY DEF Draw, history
<1>3. Len(reads[c]) \in Nat
    BY DEF TypeOK
<1>4. CASE x = c
    BY <1>1, <1>2, <1>4, TapInvUndisturbed
<1>5. CASE x # c
    <2>1. reads'[c] = reads[c]
        BY <1>1, <1>5
    <2> QED
        BY <1>2, <1>3, <2>1, TapInvUndisturbed
<1> QED
    BY <1>4, <1>5

LEMMA TapInvTap ==
    ASSUME TypeOK, OwnDocument, NEW c \in Cafes, OneDecides(c), Parity(c), c \notin crowded',
           NEW k \in Cells, NEW x \in Cafes, Tap(k, x)
    PROVE  OneDecides(c)' /\ Parity(c)'
<1>1. /\ \A y \in Cafes : y # x => reads'[y] = reads[y]
      /\ Len(reads[x]) \in Nat /\ Len(reads'[x]) = Len(reads[x]) + 1
      /\ \A i \in 1 .. Len(reads[x]) : reads'[x][i] = reads[x][i]
      /\ reads'[x][Len(reads[x]) + 1].kind = "tap"
    BY AskedFor DEF Tap
<1>2. mainQueue' = mainQueue /\ collected' = collected
    BY DEF Tap
<1>3. Len(reads[c]) \in Nat
    BY DEF TypeOK
<1>4. CASE x # c
    <2>0. shows[k] # c
        BY <1>4 DEF Tap
    <2>1. reads'[c] = reads[c] /\ taps'[c] = taps[c]
        BY <1>1, <1>4, <2>0 DEF Tap, TypeOK
    <2> QED
        BY <1>2, <1>3, <2>1, TapInvUndisturbed
<1>5. CASE x = c
    <2>1. Deciding(c) = {} /\ shows[k] = c
        BY <1>5 DEF Tap
    <2>2. /\ \A i \in 1 .. Len(reads[c]) : ~Decides(reads[c][i])
          /\ \A i \in 1 .. Len(mainQueue) : ~DecidesFor(mainQueue[i].read, c)
        BY <2>1, Undecided
    <2>3. c \in collected <=> Odd(c)
        BY <2>2 DEF Parity
    <2>4. Odd(c)' <=> ~Odd(c)
        <3>1. taps[c] \in Nat /\ taps'[c] = taps[c] + 1
            BY <1>5, <2>1 DEF Tap, TypeOK
        <3>2. \A n \in Nat : (n + 1) % 2 = 1 <=> ~(n % 2 = 1)
            OBVIOUS
        <3> QED
            BY <3>1, <3>2 DEF Odd
    <2> DEFINE n == Len(reads[c])
    <2>5. /\ Len(reads'[c]) = n + 1 /\ n \in Nat
          /\ \A i \in 1 .. n : reads'[c][i] = reads[c][i]
          /\ reads'[c][n + 1].kind = "tap"
        BY <1>1, <1>5
    <2> HIDE DEF n
    <2>6. \A i \in 1 .. n : ~Decides(reads'[c][i])
        BY <2>2, <2>5 DEF n
    <2>7. \A i \in 1 .. Len(reads'[c]) : i # n + 1 => reads'[c][i].kind = "draw"
        BY <2>5, <2>6 DEF Decides
    <2>8. OneDecides(c)'
        BY <1>2, <2>2, <2>7 DEF OneDecides, Decides
    <2>9. Decides(reads'[c][n + 1]) /\ n + 1 \in 1 .. Len(reads'[c])
        BY <2>5 DEF Decides
    <2> QED
        BY <1>2, <2>2, <2>3, <2>4, <2>5, <2>7, <2>8, <2>9 DEF Parity, DecidesFor
<1> QED
    BY <1>4, <1>5

LEMMA TapInvAnswer ==
    ASSUME TypeOK, OwnDocument, NEW c \in Cafes, OneDecides(c), Parity(c),
           NEW x \in Cafes, Answer(x)
    PROVE  OneDecides(c)' /\ Parity(c)'
<1> DEFINE m == Len(mainQueue)
           n == Len(reads[x])
<1>1. /\ m \in Nat /\ n \in Nat /\ Len(mainQueue') = m + n
      /\ \A i \in 1 .. m : mainQueue'[i] = mainQueue[i]
      /\ \A i \in 1 .. n : /\ mainQueue'[m + i].read = reads[x][i]
                           /\ mainQueue'[m + i].found = (x \in collected)
      /\ \A y \in Cafes : y # x => reads'[y] = reads[y]
      /\ Len(reads'[x]) = 0
    BY Answered
<1>2. collected' = collected /\ taps' = taps
    BY DEF Answer, history
<1>3. Odd(c)' <=> Odd(c)
    BY <1>2 DEF Odd
<1>4. \A i \in 1 .. n : reads[x][i].cafe = x
    BY DEF OwnDocument
<1>5. ASSUME NEW i \in 1 .. Len(mainQueue')
      PROVE  \/ i \in 1 .. m /\ mainQueue'[i] = mainQueue[i]
             \/ /\ i - m \in 1 .. n /\ mainQueue'[i].read = reads[x][i - m]
                /\ mainQueue'[i].found = (x \in collected) /\ reads[x][i - m].cafe = x
    <2>1. CASE i \in 1 .. m
        BY <1>1, <2>1
    <2>2. CASE i \notin 1 .. m
        <3>1. i - m \in 1 .. n /\ i = m + (i - m)
            BY <1>1, <1>5, <2>2
        <3> QED
            BY <1>1, <1>4, <3>1
    <2> QED
        BY <2>1, <2>2
<1>6. CASE x # c
    <2>1. reads'[c] = reads[c]
        BY <1>1, <1>6
    <2>2. ASSUME NEW i \in 1 .. Len(mainQueue'), mainQueue'[i].read.cafe = c
          PROVE  i \in 1 .. m /\ mainQueue'[i] = mainQueue[i]
        BY <1>5, <1>6, <2>2
    <2>3. \A i \in 1 .. m : i \in 1 .. Len(mainQueue') /\ mainQueue'[i] = mainQueue[i]
        BY <1>1
    <2> HIDE DEF m, n
    <2>4. OneDecides(c)'
        BY <2>1, <2>2 DEF OneDecides, Decides, DecidesFor, m
    <2>5. (\E i \in 1 .. m : DecidesFor(mainQueue[i].read, c))
              => \E i \in 1 .. Len(mainQueue') : DecidesFor(mainQueue'[i].read, c)
        BY <2>3
    <2>6. ASSUME NEW i \in 1 .. Len(mainQueue'), mainQueue'[i].read.cafe = c
          PROVE  /\ mainQueue'[i].read.kind = "tap" =>
                     (c \in collected <=> ~Odd(c)) /\ (mainQueue'[i].found <=> c \in collected)
                 /\ mainQueue'[i].read.kind = "add" => c \notin collected /\ Odd(c)
        BY <2>2, <2>6 DEF Parity, m
    <2> QED
        BY <1>2, <1>3, <2>1, <2>4, <2>5, <2>6 DEF Parity, m
<1>7. CASE x = c
    <2>1. \A i \in 1 .. n : m + i \in 1 .. Len(mainQueue')
        BY <1>1
    <2>2. ASSUME NEW i \in 1 .. Len(mainQueue'), DecidesFor(mainQueue'[i].read, c)
          PROVE  \/ i \in 1 .. m /\ DecidesFor(mainQueue[i].read, c)
                 \/ i - m \in 1 .. n /\ Decides(reads[c][i - m])
        BY <1>5, <1>7, <2>2 DEF DecidesFor, Decides
    <2>3. OneDecides(c)'
        <3>1. ASSUME NEW i \in 1 .. Len(mainQueue'), NEW j \in 1 .. Len(mainQueue'),
                     DecidesFor(mainQueue'[i].read, c), DecidesFor(mainQueue'[j].read, c)
              PROVE  i = j
            <4>1. CASE i \in 1 .. m /\ DecidesFor(mainQueue[i].read, c)
                <5>1. ~(j - m \in 1 .. n /\ Decides(reads[c][j - m]))
                    BY <1>7, <4>1 DEF OneDecides
                <5> QED
                    BY <2>2, <3>1, <4>1, <5>1 DEF OneDecides
            <4>2. CASE i - m \in 1 .. n /\ Decides(reads[c][i - m])
                <5>1. ~(j \in 1 .. m /\ DecidesFor(mainQueue[j].read, c))
                    BY <1>7, <4>2 DEF OneDecides
                <5>2. j - m \in 1 .. n /\ Decides(reads[c][j - m])
                    BY <2>2, <3>1, <5>1
                <5>3. i - m = j - m
                    BY <1>7, <4>2, <5>2 DEF OneDecides
                <5> QED
                    BY <1>1, <5>3
            <4> QED
                BY <2>2, <3>1, <4>1, <4>2
        <3>2. \A i \in 1 .. Len(reads'[c]) : FALSE
            BY <1>1, <1>7
        <3> QED
            BY <3>1, <3>2 DEF OneDecides
    <2>4. ASSUME NEW i \in 1 .. Len(mainQueue'), mainQueue'[i].read.cafe = c
          PROVE  /\ mainQueue'[i].read.kind = "tap" =>
                     (c \in collected <=> ~Odd(c)) /\ (mainQueue'[i].found <=> c \in collected)
                 /\ mainQueue'[i].read.kind = "add" => c \notin collected /\ Odd(c)
        <3>1. CASE i \in 1 .. m /\ mainQueue'[i] = mainQueue[i]
            BY <2>4, <3>1 DEF Parity
        <3>2. CASE /\ i - m \in 1 .. n /\ mainQueue'[i].read = reads[c][i - m]
                   /\ mainQueue'[i].found = (c \in collected)
            BY <1>7, <3>2 DEF Parity
        <3> QED
            BY <1>5, <1>7, <2>4, <3>1, <3>2
    <2>5. (\E i \in 1 .. m : DecidesFor(mainQueue[i].read, c))
              => \E i \in 1 .. Len(mainQueue') : DecidesFor(mainQueue'[i].read, c)
        BY <1>1
    <2>6. ASSUME NEW i \in 1 .. n, Decides(reads[c][i])
          PROVE  \E j \in 1 .. Len(mainQueue') : DecidesFor(mainQueue'[j].read, c)
        <3>1. DecidesFor(mainQueue'[m + i].read, c)
            BY <1>1, <1>4, <1>7, <2>6 DEF Decides, DecidesFor
        <3> QED
            BY <2>1, <3>1
    <2>7. \A i \in 1 .. Len(reads'[c]) : FALSE
        BY <1>1, <1>7
    <2>8. \/ \E j \in 1 .. Len(mainQueue') : DecidesFor(mainQueue'[j].read, c)
          \/ c \in collected <=> Odd(c)
        BY <1>7, <2>5, <2>6 DEF Parity
    <2> QED
        BY <1>2, <1>3, <2>3, <2>4, <2>7, <2>8 DEF Parity
<1> QED
    BY <1>6, <1>7

(* A callback that does not decide about c.                                *)
LEMMA TapInvShift ==
    ASSUME TypeOK, NEW c \in Cafes, OneDecides(c), Parity(c),
           mainQueue # <<>>, mainQueue' = Tail(mainQueue),
           ~DecidesFor(mainQueue[1].read, c), reads'[c] = reads[c],
           taps' = taps, c \in collected' <=> c \in collected
    PROVE  OneDecides(c)' /\ Parity(c)'
<1> DEFINE m == Len(mainQueue')
<1>1. m \in Nat /\ Len(mainQueue) = m + 1
    BY Called
<1>2. \A i \in 1 .. m : mainQueue'[i] = mainQueue[i + 1] /\ i + 1 \in 1 .. Len(mainQueue)
    BY <1>1, Called
<1>3. \A i \in 1 .. Len(mainQueue) : i = 1 \/ (i - 1 \in 1 .. m /\ mainQueue'[i - 1] = mainQueue[i])
    BY <1>1, <1>2
<1>4. Odd(c)' <=> Odd(c)
    BY DEF Odd
<1>5. OneDecides(c)'
    <2>1. ASSUME NEW i \in 1 .. m, NEW j \in 1 .. m,
                 DecidesFor(mainQueue'[i].read, c), DecidesFor(mainQueue'[j].read, c)
          PROVE  i = j
        <3>1. i + 1 = j + 1
            BY <1>2, <2>1 DEF OneDecides
        <3> QED
            BY <1>1, <3>1
    <2>2. \A i \in 1 .. Len(reads[c]), j \in 1 .. m :
              ~(Decides(reads[c][i]) /\ DecidesFor(mainQueue'[j].read, c))
        BY <1>2 DEF OneDecides
    <2>3. \A i, j \in 1 .. Len(reads[c]) : Decides(reads[c][i]) /\ Decides(reads[c][j]) => i = j
        BY DEF OneDecides
    <2> QED
        BY <2>1, <2>2, <2>3 DEF OneDecides
<1>6. (\E i \in 1 .. Len(mainQueue) : DecidesFor(mainQueue[i].read, c))
          => \E i \in 1 .. m : DecidesFor(mainQueue'[i].read, c)
    BY <1>3
<1>7. ASSUME NEW i \in 1 .. m, mainQueue'[i].read.cafe = c
      PROVE  /\ mainQueue'[i].read.kind = "tap" =>
                 (c \in collected <=> ~Odd(c)) /\ (mainQueue'[i].found <=> c \in collected)
             /\ mainQueue'[i].read.kind = "add" => c \notin collected /\ Odd(c)
    BY <1>2, <1>7 DEF Parity
<1> HIDE DEF m
<1> QED
    BY <1>4, <1>5, <1>6, <1>7 DEF Parity, m

LEMMA TapInvCallback ==
    ASSUME TypeOK, OwnDocument, NEW c \in Cafes, OneDecides(c), Parity(c), Callback
    PROVE  OneDecides(c)' /\ Parity(c)'
<1> DEFINE r == mainQueue[1].read
           found == mainQueue[1].found
           m == Len(mainQueue')
<1>1. /\ mainQueue # <<>> /\ mainQueue' = Tail(mainQueue)
      /\ r \in Read /\ r.cell \in Cells /\ r.cafe \in Cafes /\ taps' = taps
      /\ \/ r.kind = "draw" /\ DrawReply(r.cell, r.cafe, found)
         \/ r.kind = "tap" /\ TapReply(r.cell, r.cafe, found)
         \/ r.kind = "add" /\ AddReply(r.cell, r.cafe)
    BY Calls
<1>2. Odd(c)' <=> Odd(c)
    BY <1>1 DEF Odd
<1>3. CASE r.kind = "draw" \/ r.cafe # c
    <2> HIDE DEF r, found
    <2>1. c \in collected' <=> c \in collected
        BY <1>1, <1>3 DEF DrawReply, TapReply, AddReply
    <2>2. reads'[c] = reads[c]
        <3>1. CASE r.kind = "tap" /\ GetDocument("add", r.cell, r.cafe)
            BY <1>1, <1>3, <3>1, AskedFor
        <3>2. CASE UNCHANGED reads
            BY <3>2
        <3> QED
            BY <1>1, <3>1, <3>2 DEF DrawReply, TapReply, AddReply
    <2>3. ~DecidesFor(r, c)
        BY <1>3 DEF DecidesFor
    <2> QED
        BY <1>1, <2>1, <2>2, <2>3, TapInvShift DEF r
<1>4. CASE r.kind # "draw" /\ r.cafe = c
    <2>1. DecidesFor(r, c) /\ 1 \in 1 .. Len(mainQueue)
        BY <1>1, <1>4, Called DEF DecidesFor
    <2>2. \A i \in 1 .. Len(reads[c]) : ~Decides(reads[c][i])
        BY <2>1 DEF OneDecides
    <2>3. ASSUME NEW i \in 1 .. m PROVE ~DecidesFor(mainQueue'[i].read, c)
        <3>1. mainQueue'[i] = mainQueue[i + 1] /\ i + 1 \in 1 .. Len(mainQueue) /\ i + 1 # 1
            BY <1>1, Called
        <3> QED
            BY <2>1, <3>1 DEF OneDecides
    <2>4. ASSUME reads' = reads, c \in collected' <=> Odd(c)
          PROVE  OneDecides(c)' /\ Parity(c)'
        <3>1. OneDecides(c)'
            BY <2>2, <2>3, <2>4 DEF OneDecides
        <3> QED
            BY <1>2, <2>2, <2>3, <2>4, <3>1 DEF Parity, Decides, DecidesFor
    <2>5. CASE r.kind = "add"
        <3>1. Odd(c)
            BY <1>4, <2>1, <2>5 DEF Parity
        <3>2. reads' = reads /\ collected' = collected \cup {c}
            BY <1>1, <1>4, <2>5 DEF DrawReply, TapReply, AddReply
        <3> QED
            BY <2>4, <3>1, <3>2
    <2>6. CASE r.kind = "tap"
        <3>1. (c \in collected <=> ~Odd(c)) /\ (found <=> c \in collected)
            BY <1>4, <2>1, <2>6 DEF Parity
        <3>2. CASE found
            <4>1. reads' = reads /\ collected' = collected \ {c}
                BY <1>1, <1>4, <2>6, <3>2 DEF TapReply
            <4> QED
                BY <2>4, <3>1, <3>2, <4>1
        <3>3. CASE ~found
            <4> PICK k \in Cells : k = r.cell
                BY <1>1
            <4> PICK n \in Nat : n = Len(reads[c])
                BY ReadsLength
            <4>1. GetDocument("add", k, c) /\ collected' = collected
                BY <1>1, <1>4, <2>6, <3>3 DEF TapReply
            <4>2. /\ Len(reads'[c]) = n + 1
                  /\ \A i \in 1 .. n : reads'[c][i] = reads[c][i]
                  /\ reads'[c][n + 1].kind = "add"
                BY <4>1, AskedFor
            <4>3. ASSUME NEW i \in 1 .. Len(reads'[c]), i # n + 1
                  PROVE  ~Decides(reads'[c][i])
                BY <2>2, <4>2, <4>3
            <4>4. Decides(reads'[c][n + 1]) /\ n + 1 \in 1 .. Len(reads'[c])
                BY <4>2 DEF Decides
            <4>5. OneDecides(c)'
                BY <2>3, <4>3 DEF OneDecides
            <4> QED
                BY <1>2, <2>3, <3>1, <3>3, <4>1, <4>2, <4>3, <4>4, <4>5
                   DEF Parity, Decides, DecidesFor
        <3> QED
            BY <3>2, <3>3
    <2> QED
        BY <1>1, <1>4, <2>5, <2>6
<1> QED
    BY <1>3, <1>4

LEMMA NextTapInv == TypeOK /\ OwnDocument /\ TapInv /\ [Next]_vars => TapInv'
<1> SUFFICES ASSUME TypeOK, OwnDocument, TapInv, [Next]_vars,
                    NEW c \in Cafes, c \notin crowded'
             PROVE  OneDecides(c)' /\ Parity(c)'
    BY DEF TapInv
<1>1. c \notin crowded
    BY DEF Next, vars, history, Draw, NewList, Tap, Answer, Callback
<1>2. OneDecides(c) /\ Parity(c)
    BY <1>1 DEF TapInv
<1>3. ASSUME NEW k \in Cells, NEW x \in Cafes, Draw(k, x) PROVE OneDecides(c)' /\ Parity(c)'
    BY <1>2, <1>3, TapInvDraw
<1>4. ASSUME NEW k \in Cells, NEW x \in Cafes, Tap(k, x) PROVE OneDecides(c)' /\ Parity(c)'
    BY <1>2, <1>4, TapInvTap
<1>5. ASSUME NEW x \in Cafes, Answer(x) PROVE OneDecides(c)' /\ Parity(c)'
    BY <1>2, <1>5, TapInvAnswer
<1>6. CASE Callback
    BY <1>2, <1>6, TapInvCallback
<1>7. CASE UNCHANGED vars
    <2>1. Len(reads[c]) \in Nat
        BY DEF TypeOK
    <2> QED
        BY <1>2, <1>7, <2>1, TapInvUndisturbed DEF vars
<1>8. ASSUME NEW rows \in [Cells -> Cafes \cup {NoCafe}], NewList(rows)
      PROVE  OneDecides(c)' /\ Parity(c)'
    <2>1. Len(reads[c]) \in Nat
        BY DEF TypeOK
    <2> QED
        BY <1>2, <1>8, <2>1, TapInvUndisturbed DEF NewList, history
<1> QED
    BY <1>3, <1>4, <1>5, <1>6, <1>7, <1>8 DEF Next

(* For any number of cells, cafes and reads: every tap turns over the      *)
(* favourite of the cafe the cell showed and of no other, unless a tap on  *)
(* it was under way or an answer had put another cafe in its place.        *)
THEOREM TapsAlwaysToggle == Spec => []TapsToggle
<1>1. Init => OwnDocument /\ TapInv
    BY DEF Init, OwnDocument, TapInv, OneDecides, Parity, Odd
<1>2. TypeOK /\ OwnDocument /\ TapInv => TapsToggle
    <2> SUFFICES ASSUME TypeOK, OwnDocument, TapInv, NEW c \in Cafes \ crowded, Deciding(c) = {}
                 PROVE  c \in collected <=> taps[c] % 2 = 1
        BY DEF TapsToggle
    <2> QED
        BY Undecided DEF TapInv, Parity, Odd
<1> QED
    BY <1>1, <1>2, NextOwnDocument, NextTapInv, CellTypeCorrect, PTL DEF Spec

-----------------------------------------------------------------------------
(***************************************************************************)
(* Settled cells.                                                          *)
(***************************************************************************)

(* Nothing of k is under way for c.                                        *)
LEMMA RightWhenQuiet ==
    ASSUME NEW k, NEW c, Alone(k, c), LastAnswer(k, c, 0), selected[k] <=> c \in collected,
           Len(reads[c]) \in Nat, Len(mainQueue) \in Nat
    PROVE  CellIsRight(k, c)
<1>1. \A j \in 1 .. Len(mainQueue) : mainQueue[j].read.cell # k
    BY DEF LastAnswer
<1>2. \A j \in 1 .. Len(reads[c]) : reads[c][j].cell # k
    BY DEF LastAnswer, LastRead
<1>3. LastDecides(k, c)
    BY <1>1, <1>2 DEF LastDecides, Alone
<1>4. AddIsAlone(k, c)
    BY <1>1, <1>2 DEF AddIsAlone, Alone, Decides, DecidesFor
<1> QED
    BY <1>3, <1>4 DEF CellIsRight, NothingLeft

(* Another cell asks: for another cafe, or to draw.                        *)
LEMMA SettledUndisturbed ==
    ASSUME TypeOK, NEW k \in Cells, NEW c \in Cafes, CellIsRight(k, c),
           mainQueue' = mainQueue, selected'[k] = selected[k], c \in collected' <=> c \in collected,
           Len(reads[c]) \in Nat, Len(reads'[c]) \in Nat, Len(reads[c]) <= Len(reads'[c]),
           \A i \in 1 .. Len(reads[c]) : reads'[c][i] = reads[c][i],
           \A i \in 1 .. Len(reads'[c]) :
               i \in 1 .. Len(reads[c]) \/ (reads'[c][i].kind = "draw" /\ reads'[c][i].cell # k),
           \A x \in Cafes : x # c => \A i \in 1 .. Len(reads'[x]) : reads'[x][i].cell # k
    PROVE  CellIsRight(k, c)'
<1>1. \A i \in 1 .. Len(reads[c]) : i \in 1 .. Len(reads'[c])
    OBVIOUS
<1>2. Alone(k, c)'
    BY DEF CellIsRight, Alone, Decides
<1>3. ASSUME NEW i \in Nat PROVE LastRead(k, c, i)' <=> LastRead(k, c, i)
    BY <1>1 DEF LastRead
<1>4. ASSUME NEW i \in Nat PROVE LastAnswer(k, c, i)' <=> LastAnswer(k, c, i)
    BY <1>3 DEF LastAnswer
<1>5. LastDecides(k, c)'
    <2>1. ASSUME NEW i \in 1 .. Len(reads'[c]), Decides(reads'[c][i]) PROVE LastRead(k, c, i)'
        <3>1. i \in 1 .. Len(reads[c]) /\ Decides(reads[c][i])
            BY <2>1 DEF Decides
        <3> QED
            BY <1>3, <3>1 DEF CellIsRight, LastDecides
    <2> QED
        BY <1>4, <2>1 DEF CellIsRight, LastDecides
<1>6. AddIsAlone(k, c)'
    <2>1. ASSUME NEW i \in 1 .. Len(reads'[c]), reads'[c][i].kind = "add"
          PROVE  /\ selected[k] = TRUE
                 /\ \A j \in 1 .. Len(reads'[c]) : reads'[c][j].cell = k => j = i
                 /\ \A j \in 1 .. Len(mainQueue) : mainQueue[j].read.cell # k
        BY <2>1 DEF CellIsRight, AddIsAlone
    <2> QED
        BY <2>1 DEF CellIsRight, AddIsAlone
<1>7. NothingLeft(k, c)'
    BY <1>4 DEF CellIsRight, NothingLeft
<1> QED
    BY <1>2, <1>5, <1>6, <1>7 DEF CellIsRight

(* k itself asks, and nothing decides about c so far.                      *)
LEMMA SettledAsks ==
    ASSUME TypeOK, NEW k \in Cells, NEW c \in Cafes, NEW kind \in {"draw", "tap"}, Alone(k, c),
           \A i \in 1 .. Len(reads[c]) : ~Decides(reads[c][i]),
           \A i \in 1 .. Len(mainQueue) : ~DecidesFor(mainQueue[i].read, c),
           GetDocument(kind, k, c), mainQueue' = mainQueue
    PROVE  CellIsRight(k, c)'
<1> DEFINE n == Len(reads[c])
<1>1. /\ \A y \in Cafes : y # c => reads'[y] = reads[y]
      /\ n \in Nat /\ Len(reads'[c]) = n + 1
      /\ \A i \in 1 .. n : reads'[c][i] = reads[c][i]
      /\ reads'[c][n + 1].kind = kind /\ reads'[c][n + 1].cell = k
    BY AskedFor
<1> HIDE DEF n
<1>2. ASSUME NEW i \in 1 .. Len(reads'[c]), i # n + 1
      PROVE  i \in 1 .. n /\ reads'[c][i] = reads[c][i] /\ reads'[c][i].kind = "draw"
    BY <1>1, <1>2 DEF n, Decides
<1>3. n + 1 \in 1 .. Len(reads'[c])
    BY <1>1
<1>4. Alone(k, c)'
    <2>1. \A x \in Cafes : \A i \in 1 .. Len(reads'[x]) : reads'[x][i].cell = k => x = c
        BY <1>1 DEF Alone
    <2>2. \A i \in 1 .. Len(reads'[c]) : Decides(reads'[c][i]) => reads'[c][i].cell = k
        BY <1>1, <1>2 DEF Decides
    <2> QED
        BY <2>1, <2>2 DEF Alone
<1>5. \A i \in 0 .. n : ~LastRead(k, c, i)'
    BY <1>1, <1>3 DEF LastRead
<1>6. \A i : ~LastAnswer(k, c, i)'
    BY <1>1, <1>5 DEF LastAnswer
<1>7. LastDecides(k, c)'
    <2>1. ASSUME NEW i \in 1 .. Len(reads'[c]), i = n + 1 PROVE LastRead(k, c, i)'
        BY <1>1, <2>1 DEF LastRead
    <2>2. \A i \in 1 .. Len(reads'[c]) : Decides(reads'[c][i]) => LastRead(k, c, i)'
        BY <1>2, <2>1 DEF Decides
    <2> QED
        BY <1>6, <2>2 DEF LastDecides
<1>8. AddIsAlone(k, c)'
    BY <1>1, <1>2 DEF AddIsAlone, DecidesFor
<1> QED
    BY <1>4, <1>6, <1>7, <1>8 DEF CellIsRight, NothingLeft

(* Another cell asks for another cafe.                                     *)
LEMMA OthersAsk ==
    ASSUME TypeOK, NEW k \in Cells, NEW c \in Cafes,
           \A y \in Cafes : y # c => \A i \in 1 .. Len(reads[y]) : reads[y][i].cell # k,
           NEW kind \in {"draw", "tap", "add"}, NEW j \in Cells, NEW x \in Cafes,
           j # k, x # c, GetDocument(kind, j, x)
    PROVE  /\ reads'[c] = reads[c]
           /\ \A y \in Cafes : y # c => \A i \in 1 .. Len(reads'[y]) : reads'[y][i].cell # k
<1>1. /\ \A y \in Cafes : y # x => reads'[y] = reads[y]
      /\ Len(reads[x]) \in Nat /\ Len(reads'[x]) = Len(reads[x]) + 1
      /\ \A i \in 1 .. Len(reads[x]) : reads'[x][i] = reads[x][i]
      /\ reads'[x][Len(reads[x]) + 1].cell = j
    BY AskedFor
<1>2. ASSUME NEW i \in 1 .. Len(reads'[x]) PROVE reads'[x][i].cell # k
    <2>1. CASE i \in 1 .. Len(reads[x])
        BY <1>1, <2>1
    <2>2. CASE i = Len(reads[x]) + 1
        BY <1>1, <2>2
    <2> QED
        BY <1>1, <2>1, <2>2
<1> QED
    BY <1>1, <1>2

(* A cell is given a cafe.                                                 *)
LEMMA SettledDraw ==
    ASSUME TypeOK, OwnDocument, SettledInv, NEW j \in Cells, NEW x \in Cafes, Draw(j, x),
           NEW k \in settled'
    PROVE  shows'[k] \in Cafes /\ CellIsRight(k, shows[k])'
<1>1. GetDocument("draw", j, x) /\ mainQueue' = mainQueue
    BY DEF Draw
<1>2. k \in Cells
    BY DEF Draw, TypeOK
<1>3. CASE k = j
    <2>1. Deciding(x) = {} /\ \A r \in UnderWay : r.cell = k => r.cafe = x
        BY <1>3 DEF Draw
    <2>2. shows'[k] = x
        BY <1>3 DEF Draw, TypeOK
    <2>3. /\ \A i \in 1 .. Len(reads[x]) : ~Decides(reads[x][i])
          /\ \A i \in 1 .. Len(mainQueue) : ~DecidesFor(mainQueue[i].read, x)
        BY <2>1, Undecided
    <2>4. Alone(k, x)
        <3>1. ASSUME NEW y \in Cafes, NEW i \in 1 .. Len(reads[y]), reads[y][i].cell = k PROVE y = x
            <4>1. i \in DOMAIN reads[y]
                BY <3>1 DEF TypeOK
            <4>2. reads[y][i] \in {reads[y][h] : h \in DOMAIN reads[y]}
                BY <4>1
            <4>3. reads[y][i] \in UnderWay
                BY <4>2 DEF UnderWay
            <4>4. reads[y][i].cafe = y
                BY <3>1 DEF OwnDocument
            <4> QED
                BY <2>1, <3>1, <4>3, <4>4
        <3>2. ASSUME NEW i \in 1 .. Len(mainQueue), mainQueue[i].read.cell = k
              PROVE  mainQueue[i].read.cafe = x
            <4>1. i \in DOMAIN mainQueue
                BY <3>2 DEF TypeOK
            <4>2. mainQueue[i].read \in UnderWay
                BY <4>1 DEF UnderWay
            <4> QED
                BY <2>1, <3>2, <4>2
        <3> QED
            BY <2>3, <3>1, <3>2 DEF Alone
    <2>5. CellIsRight(k, x)'
        BY <1>1, <1>3, <2>3, <2>4, SettledAsks
    <2> QED
        BY <2>2, <2>5
<1>4. CASE k # j
    <2> PICK c : c = shows[k]
        OBVIOUS
    <2>1. k \in settled /\ shows'[k] = c
        BY <1>2, <1>4 DEF Draw, TypeOK
    <2>2. c \in Cafes /\ CellIsRight(k, c)
        BY <2>1 DEF SettledInv
    <2>3. /\ \A y \in Cafes : y # x => reads'[y] = reads[y]
          /\ Len(reads[x]) \in Nat /\ Len(reads'[x]) = Len(reads[x]) + 1
          /\ \A i \in 1 .. Len(reads[x]) : reads'[x][i] = reads[x][i]
          /\ reads'[x][Len(reads[x]) + 1].kind = "draw"
          /\ reads'[x][Len(reads[x]) + 1].cell = j
        BY <1>1, AskedFor
    <2>4. \A y \in Cafes : y # c => \A i \in 1 .. Len(reads[y]) : reads[y][i].cell # k
        BY <2>2 DEF CellIsRight, Alone
    <2>5. \A i \in 1 .. Len(reads'[x]) : i \in 1 .. Len(reads[x]) \/ i = Len(reads[x]) + 1
        BY <2>3
    <2>6. selected' = selected /\ collected' = collected
        BY DEF Draw
    <2>7. Len(reads[c]) \in Nat
        BY <2>2 DEF TypeOK
    <2>8. CASE x = c
        <3>1. \A y \in Cafes : y # c => \A i \in 1 .. Len(reads'[y]) : reads'[y][i].cell # k
            BY <2>3, <2>4, <2>8
        <3>2. \A i \in 1 .. Len(reads'[c]) :
                  i \in 1 .. Len(reads[c]) \/ (reads'[c][i].kind = "draw" /\ reads'[c][i].cell # k)
            BY <1>4, <2>3, <2>5, <2>8
        <3>3. /\ Len(reads'[c]) \in Nat /\ Len(reads[c]) <= Len(reads'[c])
              /\ \A i \in 1 .. Len(reads[c]) : reads'[c][i] = reads[c][i]
            BY <2>3, <2>8
        <3>4. CellIsRight(k, c)'
            BY <1>1, <1>2, <2>2, <2>6, <2>7, <3>1, <3>2, <3>3, SettledUndisturbed
        <3> QED
            BY <2>1, <2>2, <3>4
    <2>9. CASE x # c
        <3>1. /\ reads'[c] = reads[c]
              /\ \A y \in Cafes : y # c => \A i \in 1 .. Len(reads'[y]) : reads'[y][i].cell # k
            BY <1>1, <1>2, <1>4, <2>2, <2>4, <2>9, OthersAsk
        <3>2. CellIsRight(k, c)'
            BY <1>1, <1>2, <2>2, <2>6, <2>7, <3>1, SettledUndisturbed
        <3> QED
            BY <2>1, <2>2, <3>2
    <2> QED
        BY <2>8, <2>9
<1> QED
    BY <1>3, <1>4

(* A tap, by another cell for another cafe, or by k itself.                *)
LEMMA SettledTap ==
    ASSUME TypeOK, OwnDocument, SettledInv, NEW j \in Cells, NEW x \in Cafes, Tap(j, x),
           NEW k \in settled'
    PROVE  shows'[k] \in Cafes /\ CellIsRight(k, shows[k])'
<1> PICK c : c = shows[k]
    OBVIOUS
<1>1. /\ GetDocument("tap", j, x) /\ mainQueue' = mainQueue
      /\ shows' = shows /\ selected' = selected /\ collected' = collected
    BY DEF Tap, cellVars
<1>2. /\ k \in Cells /\ k \in settled
      /\ IF k = j THEN x = shows[j] /\ Deciding(x) = {} ELSE shows[k] # x
    <2>1. k \in settled /\ settled \subseteq Cells
        BY DEF Tap, TypeOK
    <2> QED
        BY <2>1 DEF Tap
<1>3. c \in Cafes /\ CellIsRight(k, c)
    BY <1>2 DEF SettledInv
<1>4. CASE k = j
    <2>1. Deciding(c) = {} /\ x = c
        BY <1>2, <1>4
    <2>2. /\ \A i \in 1 .. Len(reads[c]) : ~Decides(reads[c][i])
          /\ \A i \in 1 .. Len(mainQueue) : ~DecidesFor(mainQueue[i].read, c)
        BY <1>3, <2>1, Undecided
    <2>3. CellIsRight(k, c)'
        BY <1>1, <1>2, <1>3, <1>4, <2>1, <2>2, SettledAsks DEF CellIsRight
    <2> QED
        BY <1>1, <1>3, <2>3
<1>5. CASE k # j
    <2>1. x # c
        BY <1>2, <1>5
    <2>2. \A y \in Cafes : y # c => \A i \in 1 .. Len(reads[y]) : reads[y][i].cell # k
        BY <1>3 DEF CellIsRight, Alone
    <2>3. /\ reads'[c] = reads[c]
          /\ \A y \in Cafes : y # c => \A i \in 1 .. Len(reads'[y]) : reads'[y][i].cell # k
        BY <1>1, <1>2, <1>3, <1>5, <2>1, <2>2, OthersAsk
    <2>4. Len(reads[c]) \in Nat
        BY <1>3 DEF TypeOK
    <2>5. CellIsRight(k, c)'
        BY <1>1, <1>2, <1>3, <2>3, <2>4, SettledUndisturbed
    <2> QED
        BY <1>1, <1>3, <2>5
<1> QED
    BY <1>4, <1>5

(* The reads of another cafe are answered: none of them is of k.           *)
LEMMA SettledOtherAnswer ==
    ASSUME TypeOK, OwnDocument, NEW k \in Cells, NEW c \in Cafes, CellIsRight(k, c),
           NEW x \in Cafes, x # c, Answer(x)
    PROVE  CellIsRight(k, c)'
<1> PICK m \in Nat : m = Len(mainQueue)
    BY Answered
<1>1. /\ Len(mainQueue') = m + Len(reads[x]) /\ Len(reads[x]) \in Nat
      /\ \A i \in 1 .. m : mainQueue'[i] = mainQueue[i]
      /\ \A i \in 1 .. Len(reads[x]) : mainQueue'[m + i].read = reads[x][i]
      /\ \A y \in Cafes : y # x => reads'[y] = reads[y]
      /\ Len(reads'[x]) = 0
    BY Answered
<1>2. selected' = selected /\ collected' = collected /\ reads'[c] = reads[c]
    BY <1>1 DEF Answer, cellVars
<1>3. \A i \in 1 .. Len(reads[x]) : reads[x][i].cafe = x /\ reads[x][i].cell # k
    BY DEF OwnDocument, CellIsRight, Alone
<1>4. ASSUME NEW i \in 1 .. Len(mainQueue'), i \notin 1 .. m
      PROVE  mainQueue'[i].read.cafe # c /\ mainQueue'[i].read.cell # k
    <2>1. i - m \in 1 .. Len(reads[x]) /\ i = m + (i - m)
        BY <1>1, <1>4
    <2>2. mainQueue'[i].read = reads[x][i - m]
        BY <1>1, <2>1
    <2> QED
        BY <1>3, <2>1, <2>2
<1>5. \A i \in 1 .. m : i \in 1 .. Len(mainQueue')
    BY <1>1
<1>6. Alone(k, c)'
    <2>1. \A y \in Cafes : \A i \in 1 .. Len(reads'[y]) : reads'[y][i].cell = k => y = c
        BY <1>1 DEF CellIsRight, Alone
    <2>2. \A i \in 1 .. Len(mainQueue') : mainQueue'[i].read.cell = k => mainQueue'[i].read.cafe = c
        BY <1>1, <1>4 DEF CellIsRight, Alone
    <2>3. \A i \in 1 .. Len(mainQueue') :
              DecidesFor(mainQueue'[i].read, c) => mainQueue'[i].read.cell = k
        BY <1>1, <1>4 DEF CellIsRight, Alone, DecidesFor
    <2>4. \A i \in 1 .. Len(reads[c]) : Decides(reads[c][i]) => reads[c][i].cell = k
        BY DEF CellIsRight, Alone
    <2> QED
        BY <1>2, <2>1, <2>2, <2>3, <2>4 DEF Alone
<1>7. ASSUME NEW i \in Nat PROVE LastAnswer(k, c, i)' <=> LastAnswer(k, c, i)
    <2>1. (\A j \in 1 .. Len(mainQueue') : j > i => mainQueue'[j].read.cell # k)
              <=> \A j \in 1 .. m : j > i => mainQueue[j].read.cell # k
        BY <1>1, <1>4, <1>5
    <2> QED
        BY <1>2, <2>1 DEF LastAnswer, LastRead
<1>8. LastDecides(k, c)'
    <2>1. \A i \in 1 .. Len(reads[c]) : Decides(reads[c][i]) => LastRead(k, c, i)'
        BY <1>2 DEF CellIsRight, LastDecides, LastRead
    <2>2. ASSUME NEW i \in 1 .. Len(mainQueue'), DecidesFor(mainQueue'[i].read, c)
          PROVE  LastAnswer(k, c, i)'
        <3>1. i \in 1 .. m /\ DecidesFor(mainQueue[i].read, c)
            BY <1>1, <1>4, <2>2 DEF DecidesFor
        <3> QED
            BY <1>7, <3>1 DEF CellIsRight, LastDecides
    <2>3. ASSUME NEW i \in 1 .. Len(mainQueue'), mainQueue'[i].read.cell = k, LastAnswer(k, c, i)',
                 mainQueue'[i].read.kind # "add"
          PROVE  mainQueue'[i].found <=> c \in collected
        <3>1. i \in 1 .. m /\ mainQueue'[i] = mainQueue[i]
            BY <1>1, <1>4, <2>3
        <3> QED
            BY <1>7, <2>3, <3>1 DEF CellIsRight, LastDecides
    <2> QED
        BY <1>2, <2>1, <2>2, <2>3 DEF LastDecides
<1>9. AddIsAlone(k, c)'
    <2>1. ASSUME NEW i \in 1 .. Len(reads[c]), reads[c][i].kind = "add"
          PROVE  /\ selected[k] = TRUE
                 /\ \A j \in 1 .. Len(reads[c]) : reads[c][j].cell = k => j = i
                 /\ \A j \in 1 .. Len(mainQueue') : mainQueue'[j].read.cell # k
        BY <1>1, <1>4, <2>1 DEF CellIsRight, AddIsAlone
    <2>2. ASSUME NEW i \in 1 .. Len(mainQueue'), mainQueue'[i].read.kind = "add",
                 mainQueue'[i].read.cafe = c
          PROVE  /\ selected[k] = TRUE
                 /\ \A j \in 1 .. Len(mainQueue') : mainQueue'[j].read.cell = k => j = i
        <3>1. i \in 1 .. m /\ mainQueue'[i] = mainQueue[i]
            BY <1>1, <1>4, <2>2
        <3> QED
            BY <1>1, <1>4, <2>2, <3>1 DEF CellIsRight, AddIsAlone
    <2> QED
        BY <1>2, <2>1, <2>2 DEF AddIsAlone
<1>10. NothingLeft(k, c)'
    BY <1>2, <1>7 DEF CellIsRight, NothingLeft
<1> QED
    BY <1>6, <1>8, <1>9, <1>10 DEF CellIsRight

(* The reads of c are answered.                                            *)
LEMMA SettledOwnAnswer ==
    ASSUME TypeOK, OwnDocument, NEW k \in Cells, NEW c \in Cafes, CellIsRight(k, c), Answer(c)
    PROVE  CellIsRight(k, c)'
<1> PICK m \in Nat, n \in Nat : m = Len(mainQueue) /\ n = Len(reads[c])
    BY Answered
<1>1. /\ Len(mainQueue') = m + n
      /\ \A i \in 1 .. m : mainQueue'[i] = mainQueue[i]
      /\ \A i \in 1 .. n : /\ mainQueue'[m + i].read = reads[c][i]
                           /\ mainQueue'[m + i].found = (c \in collected)
      /\ \A y \in Cafes : y # c => reads'[y] = reads[y]
      /\ Len(reads'[c]) = 0
    BY Answered
<1>2. selected' = selected /\ collected' = collected
    BY DEF Answer, cellVars
<1>3. \A i \in 1 .. n : reads[c][i].cafe = c
    BY DEF OwnDocument
<1>4. ASSUME NEW i \in 1 .. Len(mainQueue')
      PROVE  \/ i \in 1 .. m /\ mainQueue'[i] = mainQueue[i]
             \/ /\ i - m \in 1 .. n /\ i > m /\ mainQueue'[i].read = reads[c][i - m]
                /\ mainQueue'[i].found = (c \in collected) /\ mainQueue'[i].read.cafe = c
    <2>1. CASE i \in 1 .. m
        BY <1>1, <2>1
    <2>2. CASE i \notin 1 .. m
        <3>1. i - m \in 1 .. n /\ i = m + (i - m) /\ i > m
            BY <1>1, <1>4, <2>2
        <3> QED
            BY <1>1, <1>3, <3>1
    <2> QED
        BY <2>1, <2>2
<1>5. /\ \A i \in 1 .. m : i \in 1 .. Len(mainQueue')
      /\ \A i \in 1 .. n : m + i \in 1 .. Len(mainQueue') /\ m + i > m /\ m + i \in Nat
    BY <1>1
<1>6. \A i : LastRead(k, c, i)'
    BY <1>1 DEF LastRead
<1>7. ASSUME NEW i \in Nat, LastAnswer(k, c, i)', i <= m PROVE LastAnswer(k, c, i)
    <2>1. \A j \in 1 .. m : j > i => mainQueue[j].read.cell # k
        BY <1>1, <1>5, <1>7 DEF LastAnswer
    <2>2. ASSUME NEW j \in 1 .. n PROVE reads[c][j].cell # k
        <3>1. m + j > i /\ m + j \in 1 .. Len(mainQueue')
            BY <1>1, <1>7, <2>2
        <3> QED
            BY <1>1, <1>7, <3>1 DEF LastAnswer
    <2> QED
        BY <2>1, <2>2 DEF LastAnswer, LastRead
<1>8. ASSUME NEW i \in 1 .. m, LastAnswer(k, c, i) PROVE LastAnswer(k, c, i)'
    <2>1. ASSUME NEW j \in 1 .. Len(mainQueue'), j > i PROVE mainQueue'[j].read.cell # k
        <3>1. CASE j \in 1 .. m /\ mainQueue'[j] = mainQueue[j]
            BY <1>8, <2>1, <3>1 DEF LastAnswer
        <3>2. CASE j - m \in 1 .. n /\ mainQueue'[j].read = reads[c][j - m]
            BY <1>8, <3>2 DEF LastAnswer, LastRead
        <3> QED
            BY <1>4, <2>1, <3>1, <3>2
    <2> QED
        BY <1>6, <2>1 DEF LastAnswer
<1>9. ASSUME NEW i \in 1 .. Len(mainQueue'), i - m \in 1 .. n, LastRead(k, c, i - m)
      PROVE  LastAnswer(k, c, i)'
    <2>1. ASSUME NEW j \in 1 .. Len(mainQueue'), j > i PROVE mainQueue'[j].read.cell # k
        <3>1. j - m \in 1 .. n /\ j - m > i - m /\ mainQueue'[j].read = reads[c][j - m]
            BY <1>4, <1>9, <2>1
        <3> QED
            BY <1>9, <3>1 DEF LastRead
    <2> QED
        BY <1>6, <2>1 DEF LastAnswer
<1>10. Alone(k, c)'
    <2>1. \A y \in Cafes : \A i \in 1 .. Len(reads'[y]) : reads'[y][i].cell = k => y = c
        BY <1>1 DEF CellIsRight, Alone
    <2>2. \A i \in 1 .. Len(mainQueue') : mainQueue'[i].read.cell = k => mainQueue'[i].read.cafe = c
        BY <1>4 DEF CellIsRight, Alone
    <2>3. \A i \in 1 .. Len(mainQueue') :
              DecidesFor(mainQueue'[i].read, c) => mainQueue'[i].read.cell = k
        BY <1>4 DEF CellIsRight, Alone, DecidesFor, Decides
    <2> QED
        BY <1>1, <2>1, <2>2, <2>3 DEF Alone
<1>11. LastDecides(k, c)'
    <2>1. ASSUME NEW i \in 1 .. Len(mainQueue'), DecidesFor(mainQueue'[i].read, c)
          PROVE  LastAnswer(k, c, i)'
        <3>1. CASE i \in 1 .. m /\ mainQueue'[i] = mainQueue[i]
            BY <1>8, <2>1, <3>1 DEF CellIsRight, LastDecides
        <3>2. CASE i - m \in 1 .. n /\ mainQueue'[i].read = reads[c][i - m]
            <4>1. Decides(reads[c][i - m])
                BY <2>1, <3>2 DEF Decides, DecidesFor
            <4> QED
                BY <1>9, <3>2, <4>1 DEF CellIsRight, LastDecides
        <3> QED
            BY <1>4, <2>1, <3>1, <3>2
    <2>2. ASSUME NEW i \in 1 .. Len(mainQueue'), mainQueue'[i].read.cell = k, LastAnswer(k, c, i)',
                 mainQueue'[i].read.kind # "add"
          PROVE  mainQueue'[i].found <=> c \in collected
        <3>1. CASE i \in 1 .. m /\ mainQueue'[i] = mainQueue[i]
            BY <1>7, <2>2, <3>1 DEF CellIsRight, LastDecides
        <3> QED
            BY <1>4, <2>2, <3>1
    <2> QED
        BY <1>2, <1>6, <2>1, <2>2 DEF LastDecides
<1>12. AddIsAlone(k, c)'
    <2>1. ASSUME NEW i \in 1 .. Len(mainQueue'), mainQueue'[i].read.kind = "add",
                 mainQueue'[i].read.cafe = c
          PROVE  /\ selected[k] = TRUE
                 /\ \A j \in 1 .. Len(mainQueue') : mainQueue'[j].read.cell = k => j = i
        <3>1. CASE i \in 1 .. m /\ mainQueue'[i] = mainQueue[i]
            <4>1. LastAnswer(k, c, i)
                BY <2>1, <3>1 DEF CellIsRight, LastDecides, DecidesFor
            <4>2. \A j \in 1 .. n : reads[c][j].cell # k
                BY <4>1 DEF LastAnswer, LastRead
            <4>3. \A j \in 1 .. Len(mainQueue') : mainQueue'[j].read.cell = k => j \in 1 .. m
                BY <1>4, <4>2
            <4>4. i \in 1 .. Len(mainQueue) /\ mainQueue[i].read.kind = "add"
                  /\ mainQueue[i].read.cafe = c
                BY <1>1, <2>1, <3>1
            <4>5. /\ selected[k] = TRUE
                  /\ \A j \in 1 .. Len(mainQueue) : mainQueue[j].read.cell = k => j = i
                BY <4>4 DEF CellIsRight, AddIsAlone
            <4>6. ASSUME NEW j \in 1 .. Len(mainQueue'), mainQueue'[j].read.cell = k PROVE j = i
                <5>1. j \in 1 .. Len(mainQueue) /\ mainQueue'[j] = mainQueue[j]
                    BY <1>1, <4>3, <4>6
                <5> QED
                    BY <4>5, <4>6, <5>1
            <4> QED
                BY <4>5, <4>6
        <3>2. CASE i - m \in 1 .. n /\ mainQueue'[i].read = reads[c][i - m]
            <4>1. /\ selected[k] = TRUE
                  /\ \A j \in 1 .. n : reads[c][j].cell = k => j = i - m
                  /\ \A j \in 1 .. m : mainQueue[j].read.cell # k
                BY <2>1, <3>2 DEF CellIsRight, AddIsAlone
            <4>2. ASSUME NEW j \in 1 .. Len(mainQueue'), mainQueue'[j].read.cell = k PROVE j = i
                <5>1. j - m \in 1 .. n /\ reads[c][j - m].cell = k
                    BY <1>4, <4>1, <4>2
                <5>2. j - m = i - m
                    BY <4>1, <5>1
                <5> QED
                    BY <1>1, <5>2
            <4> QED
                BY <4>1, <4>2
        <3> QED
            BY <1>4, <2>1, <3>1, <3>2
    <2>2. \A i \in 1 .. Len(reads'[c]) : FALSE
        BY <1>1
    <2> QED
        BY <1>2, <2>1, <2>2 DEF AddIsAlone
<1>13. NothingLeft(k, c)'
    BY <1>2, <1>7 DEF CellIsRight, NothingLeft
<1> QED
    BY <1>10, <1>11, <1>12, <1>13 DEF CellIsRight

(* A callback that changes neither the reads of c nor whether c is         *)
(* collected: what comes after an answer is what came after it before.     *)
LEMMA Shift ==
    ASSUME TypeOK, NEW k \in Cells, NEW c \in Cafes, CellIsRight(k, c),
           mainQueue # <<>>, mainQueue' = Tail(mainQueue),
           reads'[c] = reads[c], c \in collected' <=> c \in collected,
           \A y \in Cafes : y # c => \A i \in 1 .. Len(reads'[y]) : reads'[y][i].cell # k
    PROVE  /\ Alone(k, c)' /\ LastDecides(k, c)'
           /\ LastAnswer(k, c, 0)' => LastAnswer(k, c, 1)
<1> PICK m \in Nat : m = Len(mainQueue') /\ Len(mainQueue) = m + 1
    BY Shorter
<1>1. \A i \in 1 .. m : mainQueue'[i] = mainQueue[i + 1] /\ i + 1 \in 1 .. Len(mainQueue)
    BY Called
<1>2. \A i \in 1 .. Len(mainQueue) : i = 1 \/ (i - 1 \in 1 .. m /\ mainQueue'[i - 1] = mainQueue[i])
    BY <1>1
<1>3. Alone(k, c)'
    <2>1. \A i \in 1 .. m : /\ mainQueue'[i].read.cell = k => mainQueue'[i].read.cafe = c
                            /\ DecidesFor(mainQueue'[i].read, c) => mainQueue'[i].read.cell = k
        BY <1>1 DEF CellIsRight, Alone
    <2> QED
        BY <2>1 DEF CellIsRight, Alone
<1>4. ASSUME NEW i \in Nat, LastAnswer(k, c, i)' PROVE LastAnswer(k, c, i + 1)
    <2>1. ASSUME NEW j \in 1 .. Len(mainQueue), j > i + 1 PROVE mainQueue[j].read.cell # k
        <3>1. j - 1 \in 1 .. m /\ j - 1 > i /\ mainQueue'[j - 1] = mainQueue[j]
            BY <1>2, <2>1
        <3> QED
            BY <1>4, <3>1 DEF LastAnswer
    <2> QED
        BY <1>4, <2>1 DEF LastAnswer, LastRead
<1>5. ASSUME NEW i \in Nat, LastAnswer(k, c, i + 1) PROVE LastAnswer(k, c, i)'
    <2>1. ASSUME NEW j \in 1 .. m, j > i PROVE mainQueue'[j].read.cell # k
        <3>1. mainQueue'[j] = mainQueue[j + 1] /\ j + 1 \in 1 .. Len(mainQueue) /\ j + 1 > i + 1
            BY <1>1, <2>1
        <3> QED
            BY <1>5, <3>1 DEF LastAnswer
    <2> QED
        BY <1>5, <2>1 DEF LastAnswer, LastRead
<1>6. LastDecides(k, c)'
    <2>1. \A i \in 1 .. Len(reads[c]) : Decides(reads[c][i]) => LastRead(k, c, i)'
        BY DEF CellIsRight, LastDecides, LastRead
    <2>2. ASSUME NEW i \in 1 .. m, DecidesFor(mainQueue'[i].read, c) PROVE LastAnswer(k, c, i)'
        <3>1. LastAnswer(k, c, i + 1)
            BY <1>1, <2>2 DEF CellIsRight, LastDecides
        <3> QED
            BY <1>5, <3>1
    <2>3. ASSUME NEW i \in 1 .. m, mainQueue'[i].read.cell = k, LastAnswer(k, c, i)',
                 mainQueue'[i].read.kind # "add"
          PROVE  mainQueue'[i].found <=> c \in collected
        <3>1. LastAnswer(k, c, i + 1)
            BY <1>4, <2>3
        <3> QED
            BY <1>1, <2>3, <3>1 DEF CellIsRight, LastDecides
    <2> QED
        BY <2>1, <2>2, <2>3 DEF LastDecides
<1>7. LastAnswer(k, c, 0)' => LastAnswer(k, c, 1)
    <2>1. 0 + 1 = 1
        OBVIOUS
    <2> QED
        BY <1>4, <2>1
<1> QED
    BY <1>3, <1>6, <1>7

(* The callback of another cell.                                           *)
LEMMA SettledOtherReply ==
    ASSUME TypeOK, NEW k \in Cells, NEW c \in Cafes, CellIsRight(k, c),
           mainQueue # <<>>, mainQueue' = Tail(mainQueue), mainQueue[1].read.cell # k,
           reads'[c] = reads[c], selected'[k] = selected[k], c \in collected' <=> c \in collected,
           \A y \in Cafes : y # c => \A i \in 1 .. Len(reads'[y]) : reads'[y][i].cell # k
    PROVE  CellIsRight(k, c)'
<1> PICK m \in Nat : m = Len(mainQueue') /\ Len(mainQueue) = m + 1
    BY Shorter
<1>1. \A i \in 1 .. m : mainQueue'[i] = mainQueue[i + 1] /\ i + 1 \in 1 .. Len(mainQueue)
    BY Called
<1>2. Alone(k, c)' /\ LastDecides(k, c)' /\ (LastAnswer(k, c, 0)' => LastAnswer(k, c, 1))
    BY Shift
<1>3. AddIsAlone(k, c)'
    <2>1. ASSUME NEW i \in 1 .. Len(reads[c]), reads[c][i].kind = "add"
          PROVE  /\ selected[k] = TRUE
                 /\ \A j \in 1 .. Len(reads[c]) : reads[c][j].cell = k => j = i
                 /\ \A j \in 1 .. m : mainQueue'[j].read.cell # k
        BY <1>1, <2>1 DEF CellIsRight, AddIsAlone
    <2>2. ASSUME NEW i \in 1 .. m, mainQueue'[i].read.kind = "add", mainQueue'[i].read.cafe = c
          PROVE  /\ selected[k] = TRUE
                 /\ \A j \in 1 .. m : mainQueue'[j].read.cell = k => j = i
        <3>1. /\ selected[k] = TRUE
              /\ \A j \in 1 .. Len(mainQueue) : mainQueue[j].read.cell = k => j = i + 1
            BY <1>1, <2>2 DEF CellIsRight, AddIsAlone
        <3>2. ASSUME NEW j \in 1 .. m, mainQueue'[j].read.cell = k PROVE j = i
            <4>1. j + 1 = i + 1
                BY <1>1, <3>1, <3>2
            <4> QED
                BY <4>1
        <3> QED
            BY <3>1, <3>2
    <2> QED
        BY <2>1, <2>2 DEF AddIsAlone
<1>4. NothingLeft(k, c)'
    <2>1. LastAnswer(k, c, 1) => LastAnswer(k, c, 0)
        BY DEF LastAnswer
    <2> QED
        BY <1>2, <2>1 DEF CellIsRight, NothingLeft
<1> QED
    BY <1>2, <1>3, <1>4 DEF CellIsRight

(* The callback of a draw of k.                                            *)
LEMMA SettledDrawReply ==
    ASSUME TypeOK, NEW k \in Cells, NEW c \in Cafes, CellIsRight(k, c),
           mainQueue # <<>>, mainQueue' = Tail(mainQueue),
           mainQueue[1].read.cell = k, mainQueue[1].read.kind = "draw",
           DrawReply(k, c, mainQueue[1].found)
    PROVE  CellIsRight(k, c)'
<1> PICK m \in Nat : m = Len(mainQueue') /\ Len(mainQueue) = m + 1
    BY Shorter
<1>1. /\ \A i \in 1 .. m : mainQueue'[i] = mainQueue[i + 1] /\ i + 1 \in 1 .. Len(mainQueue)
      /\ 1 \in 1 .. Len(mainQueue)
    BY Called
<1>2. /\ reads' = reads /\ collected' = collected
      /\ selected'[k] = mainQueue[1].found
    BY DEF DrawReply, TypeOK
<1>3. Alone(k, c)' /\ LastDecides(k, c)' /\ (LastAnswer(k, c, 0)' => LastAnswer(k, c, 1))
    BY <1>2, Shift DEF CellIsRight, Alone
<1>4. AddIsAlone(k, c)'
    <2>1. \A i \in 1 .. Len(reads[c]) : reads[c][i].kind # "add"
        BY <1>1 DEF CellIsRight, AddIsAlone
    <2>2. ASSUME NEW i \in 1 .. m, mainQueue'[i].read.kind = "add", mainQueue'[i].read.cafe = c
          PROVE  FALSE
        <3>1. 1 = i + 1
            BY <1>1, <2>2 DEF CellIsRight, AddIsAlone
        <3> QED
            BY <3>1
    <2> QED
        BY <1>2, <2>1, <2>2 DEF AddIsAlone
<1>5. NothingLeft(k, c)'
    <2>1. LastAnswer(k, c, 1) => (mainQueue[1].found <=> c \in collected)
        BY <1>1 DEF CellIsRight, LastDecides
    <2> QED
        BY <1>2, <1>3, <2>1 DEF NothingLeft
<1> QED
    BY <1>3, <1>4, <1>5 DEF CellIsRight

(* The callback of a tap on k, or of the add it led to: the last of k.     *)
LEMMA SettledDecision ==
    ASSUME TypeOK, OwnDocument, NEW k \in Cells, NEW c \in Cafes, CellIsRight(k, c),
           mainQueue # <<>>, mainQueue' = Tail(mainQueue),
           mainQueue[1].read.cell = k, mainQueue[1].read.cafe = c,
           \/ mainQueue[1].read.kind = "tap" /\ TapReply(k, c, mainQueue[1].found)
           \/ mainQueue[1].read.kind = "add" /\ AddReply(k, c)
    PROVE  CellIsRight(k, c)'
<1> PICK m \in Nat : m = Len(mainQueue') /\ Len(mainQueue) = m + 1
    BY Shorter
<1> PICK n \in Nat : n = Len(reads[c])
    BY ReadsLength
<1>1. /\ \A i \in 1 .. m : mainQueue'[i] = mainQueue[i + 1] /\ i + 1 \in 1 .. Len(mainQueue) /\ i + 1 > 1
      /\ 1 \in 1 .. Len(mainQueue) /\ mainQueue[1].found \in BOOLEAN
    BY Called
<1>2. DecidesFor(mainQueue[1].read, c)
    BY DEF DecidesFor
<1>3. LastAnswer(k, c, 1)
    BY <1>1, <1>2 DEF CellIsRight, LastDecides
<1>4. \A i \in 1 .. m : mainQueue'[i].read.cell # k
    BY <1>1, <1>3 DEF LastAnswer
<1>5. \A i \in 1 .. n : reads[c][i].cell # k /\ ~Decides(reads[c][i])
    BY <1>3 DEF LastAnswer, LastRead, CellIsRight, Alone
<1>6. \A i \in 1 .. m : ~DecidesFor(mainQueue'[i].read, c)
    BY <1>1, <1>4 DEF CellIsRight, Alone
<1>7. ASSUME reads' = reads, selected'[k] <=> c \in collected' PROVE CellIsRight(k, c)'
    <2>1. Alone(k, c)'
        BY <1>4, <1>5, <1>6, <1>7 DEF CellIsRight, Alone
    <2>2. LastAnswer(k, c, 0)'
        BY <1>4, <1>5, <1>7 DEF LastAnswer, LastRead
    <2>3. \A i \in 1 .. Len(reads'[c]) : reads'[c][i].cell # k
        BY <1>5, <1>7
    <2>4. LastDecides(k, c)' /\ AddIsAlone(k, c)'
        <3>1. LastDecides(k, c)'
            BY <1>4, <1>5, <1>6, <1>7 DEF LastDecides
        <3>2. AddIsAlone(k, c)'
            BY <1>4, <1>5, <1>6, <1>7 DEF AddIsAlone, Decides, DecidesFor
        <3> QED
            BY <3>1, <3>2
    <2> QED
        BY <1>7, <2>1, <2>4 DEF CellIsRight, NothingLeft
<1>8. CASE mainQueue[1].read.kind = "add" /\ AddReply(k, c)
    <2>1. selected[k] = TRUE
        BY <1>1, <1>8 DEF CellIsRight, AddIsAlone
    <2> QED
        BY <1>7, <1>8, <2>1 DEF AddReply
<1>9. CASE mainQueue[1].read.kind = "tap" /\ TapReply(k, c, mainQueue[1].found)
    <2>1. mainQueue[1].found <=> c \in collected
        BY <1>1, <1>3, <1>9 DEF CellIsRight, LastDecides
    <2>2. selected'[k] = ~mainQueue[1].found
        BY <1>9 DEF TapReply, TypeOK
    <2>3. CASE mainQueue[1].found
        <3>1. reads' = reads /\ c \notin collected' /\ selected'[k] = FALSE
            BY <1>9, <2>2, <2>3 DEF TapReply
        <3> QED
            BY <1>7, <3>1
    <2>4. CASE ~mainQueue[1].found
        <3>1. GetDocument("add", k, c) /\ collected' = collected /\ selected'[k] = TRUE
            BY <1>9, <2>2, <2>4 DEF TapReply
        <3>2. /\ \A y \in Cafes : y # c => reads'[y] = reads[y]
              /\ Len(reads'[c]) = n + 1
              /\ \A i \in 1 .. n : reads'[c][i] = reads[c][i]
              /\ reads'[c][n + 1].kind = "add" /\ reads'[c][n + 1].cell = k
            BY <3>1, AskedFor
        <3>3. ASSUME NEW i \in 1 .. Len(reads'[c]), i # n + 1
              PROVE  reads'[c][i].cell # k /\ ~Decides(reads'[c][i])
            <4>1. i \in 1 .. n
                BY <3>2, <3>3
            <4>2. reads'[c][i] = reads[c][i]
                BY <3>2, <4>1
            <4> QED
                BY <1>5, <4>1, <4>2
        <3>4. n + 1 \in 1 .. Len(reads'[c])
            BY <3>2
        <3>5. Alone(k, c)'
            <4>1. \A x \in Cafes : \A i \in 1 .. Len(reads'[x]) : reads'[x][i].cell = k => x = c
                BY <3>2 DEF CellIsRight, Alone
            <4>2. \A i \in 1 .. Len(reads'[c]) : Decides(reads'[c][i]) => reads'[c][i].cell = k
                BY <3>2, <3>3
            <4> QED
                BY <1>4, <1>6, <4>1, <4>2 DEF Alone
        <3>6. ~LastAnswer(k, c, 0)'
            BY <3>2, <3>4 DEF LastAnswer, LastRead
        <3>7. LastDecides(k, c)'
            <4>1. ASSUME NEW i \in 1 .. Len(reads'[c]), Decides(reads'[c][i]) PROVE LastRead(k, c, i)'
                <5>1. i = n + 1
                    BY <3>3, <4>1
                <5> QED
                    BY <3>2, <5>1 DEF LastRead
            <4> QED
                BY <1>4, <1>6, <4>1 DEF LastDecides
        <3>8. AddIsAlone(k, c)'
            <4>1. ASSUME NEW i \in 1 .. Len(reads'[c]), reads'[c][i].kind = "add"
                  PROVE  \A j \in 1 .. Len(reads'[c]) : reads'[c][j].cell = k => j = i
                BY <3>3, <4>1 DEF Decides
            <4>2. \A i \in 1 .. m : ~(mainQueue'[i].read.kind = "add" /\ mainQueue'[i].read.cafe = c)
                BY <1>6 DEF DecidesFor
            <4> QED
                BY <1>4, <3>1, <4>1, <4>2 DEF AddIsAlone
        <3> QED
            BY <3>5, <3>6, <3>7, <3>8 DEF CellIsRight, NothingLeft
    <2> QED
        BY <2>3, <2>4
<1> QED
    BY <1>8, <1>9

LEMMA SettledCallback ==
    ASSUME TypeOK, OwnDocument, SettledInv, Callback, NEW k \in settled'
    PROVE  shows'[k] \in Cafes /\ CellIsRight(k, shows[k])'
<1> PICK c : c = shows[k]
    OBVIOUS
<1> PICK r, found : r = mainQueue[1].read /\ found = mainQueue[1].found
    OBVIOUS
<1>1. /\ mainQueue # <<>> /\ mainQueue' = Tail(mainQueue)
      /\ r.cell \in Cells /\ r.cafe \in Cafes /\ shows' = shows /\ settled' = settled
      /\ \/ r.kind = "draw" /\ DrawReply(r.cell, r.cafe, found)
         \/ r.kind = "tap" /\ TapReply(r.cell, r.cafe, found)
         \/ r.kind = "add" /\ AddReply(r.cell, r.cafe)
    BY Calls
<1>2. k \in Cells /\ c \in Cafes /\ CellIsRight(k, c)
    BY <1>1 DEF SettledInv, TypeOK
<1>3. 1 \in 1 .. Len(mainQueue)
    BY <1>1, Called
<1>4. CASE r.cell = k
    <2>1. r.cafe = c
        BY <1>2, <1>3, <1>4 DEF CellIsRight, Alone
    <2>2. CellIsRight(k, c)'
        BY <1>1, <1>2, <1>4, <2>1, SettledDrawReply, SettledDecision
    <2> QED
        BY <1>1, <1>2, <2>2
<1>5. CASE r.cell # k
    <2>1. ~DecidesFor(r, c)
        BY <1>2, <1>3, <1>5 DEF CellIsRight, Alone
    <2>2. selected'[k] = selected[k] /\ (c \in collected' <=> c \in collected)
        BY <1>1, <1>2, <1>5, <2>1 DEF DrawReply, TapReply, AddReply, TypeOK, DecidesFor
    <2>3. \A y \in Cafes : y # c => \A i \in 1 .. Len(reads[y]) : reads[y][i].cell # k
        BY <1>2 DEF CellIsRight, Alone
    <2>4. /\ reads'[c] = reads[c]
          /\ \A y \in Cafes : y # c => \A i \in 1 .. Len(reads'[y]) : reads'[y][i].cell # k
        <3>1. CASE UNCHANGED reads
            BY <2>3, <3>1
        <3>2. CASE r.kind = "tap" /\ GetDocument("add", r.cell, r.cafe)
            <4>1. r.cafe # c
                BY <2>1, <3>2 DEF DecidesFor
            <4> QED
                BY <1>1, <1>2, <1>5, <2>3, <3>2, <4>1, OthersAsk
        <3> QED
            BY <1>1, <3>1, <3>2 DEF DrawReply, TapReply, AddReply
    <2>5. CellIsRight(k, c)'
        BY <1>1, <1>2, <1>5, <2>2, <2>4, SettledOtherReply
    <2> QED
        BY <1>1, <1>2, <2>5
<1> QED
    BY <1>4, <1>5

LEMMA NextSettledInv == TypeOK /\ OwnDocument /\ SettledInv /\ [Next]_vars => SettledInv'
<1> SUFFICES ASSUME TypeOK, OwnDocument, SettledInv, [Next]_vars, NEW k \in settled'
             PROVE  shows'[k] \in Cafes /\ CellIsRight(k, shows[k])'
    BY DEF SettledInv
<1>1. ASSUME NEW j \in Cells, NEW x \in Cafes, Draw(j, x)
      PROVE  shows'[k] \in Cafes /\ CellIsRight(k, shows[k])'
    BY <1>1, SettledDraw
<1>2. ASSUME NEW j \in Cells, NEW x \in Cafes, Tap(j, x)
      PROVE  shows'[k] \in Cafes /\ CellIsRight(k, shows[k])'
    BY <1>2, SettledTap
<1>3. ASSUME NEW x \in Cafes, Answer(x)
      PROVE  shows'[k] \in Cafes /\ CellIsRight(k, shows[k])'
    <2> PICK c : c = shows[k]
        OBVIOUS
    <2>1. shows' = shows /\ settled' = settled
        BY <1>3 DEF Answer, cellVars
    <2>2. k \in Cells /\ c \in Cafes /\ CellIsRight(k, c)
        BY <2>1 DEF SettledInv, TypeOK
    <2>3. CellIsRight(k, c)'
        BY <1>3, <2>2, SettledOtherAnswer, SettledOwnAnswer
    <2> QED
        BY <2>1, <2>2, <2>3
<1>4. CASE Callback
    BY <1>4, SettledCallback
<1>5. CASE UNCHANGED vars
    <2> PICK c : c = shows[k]
        OBVIOUS
    <2>1. k \in settled /\ shows' = shows
        BY <1>5 DEF vars
    <2>2. k \in Cells /\ c \in Cafes /\ CellIsRight(k, c)
        BY <2>1 DEF SettledInv, TypeOK
    <2>3. Len(reads[c]) \in Nat
        BY <2>2 DEF TypeOK
    <2>4. CellIsRight(k, c)'
        BY <1>5, <2>2, <2>3, SettledUndisturbed DEF vars, CellIsRight, Alone
    <2> QED
        BY <2>1, <2>2, <2>4
<1>6. ASSUME NEW rows \in [Cells -> Cafes \cup {NoCafe}], NewList(rows)
      PROVE  shows'[k] \in Cafes /\ CellIsRight(k, shows[k])'
    <2> PICK c : c = shows[k]
        OBVIOUS
    <2>0. UNCHANGED <<shows, selected, reads, mainQueue, collected, settled>>
        BY <1>6 DEF NewList, cellVars
    <2>1. k \in settled /\ shows' = shows
        BY <2>0
    <2>2. k \in Cells /\ c \in Cafes /\ CellIsRight(k, c)
        BY <2>1 DEF SettledInv, TypeOK
    <2>3. Len(reads[c]) \in Nat
        BY <2>2 DEF TypeOK
    <2>4. CellIsRight(k, c)'
        BY <2>0, <2>2, <2>3, SettledUndisturbed DEF CellIsRight, Alone
    <2> QED
        BY <2>1, <2>2, <2>4
<1> QED
    BY <1>1, <1>2, <1>3, <1>4, <1>5, <1>6 DEF Next

(* For any number of cells, cafes and reads: a cell that was drawn in      *)
(* peace shows the truth once the reads of its cafe are called back.       *)
THEOREM SettledCellsAreAlwaysRight == Spec => []SettledCellsAreRight
<1>1. Init => OwnDocument /\ SettledInv
    BY DEF Init, OwnDocument, SettledInv
<1>2. TypeOK /\ OwnDocument /\ SettledInv => SettledCellsAreRight
    <2> SUFFICES ASSUME TypeOK, OwnDocument, SettledInv, NEW k \in settled,
                        \A r \in UnderWay : r.cafe # shows[k]
                 PROVE  selected[k] <=> shows[k] \in collected
        BY DEF SettledCellsAreRight
    <2> PICK c : c = shows[k]
        OBVIOUS
    <2>1. c \in Cafes /\ CellIsRight(k, c)
        BY DEF SettledInv
    <2>2. \A i \in 1 .. Len(mainQueue) : mainQueue[i].read.cell # k
        <3>1. ASSUME NEW i \in 1 .. Len(mainQueue) PROVE mainQueue[i].read \in UnderWay
            <4>1. i \in DOMAIN mainQueue
                BY <3>1 DEF TypeOK
            <4> QED
                BY <4>1 DEF UnderWay
        <3> QED
            BY <2>1, <3>1 DEF CellIsRight, Alone
    <2>3. ASSUME NEW i \in 1 .. Len(reads[c]) PROVE FALSE
        <3>1. i \in DOMAIN reads[c]
            BY <2>1, <2>3 DEF TypeOK
        <3>2. reads[c][i] \in {reads[c][h] : h \in DOMAIN reads[c]}
            BY <3>1
        <3>3. reads[c][i] \in UnderWay
            BY <2>1, <3>2 DEF UnderWay
        <3> QED
            BY <2>1, <2>3, <3>3 DEF OwnDocument
    <2>4. LastAnswer(k, c, 0)
        BY <2>2, <2>3 DEF LastAnswer, LastRead
    <2> QED
        BY <2>1, <2>4 DEF CellIsRight, NothingLeft
<1> QED
    BY <1>1, <1>2, NextOwnDocument, NextSettledInv, CellTypeCorrect, PTL DEF Spec
=============================================================================
