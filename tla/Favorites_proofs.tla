--------------------------- MODULE Favorites_proofs ---------------------------
(***************************************************************************)
(* What TLAPS proves of Favorites, for every value of its constants.       *)
(***************************************************************************)
EXTENDS Favorites, FiniteSetTheorems, WellFoundedInduction, TLAPS

Messages == Reply \cup AuthNote

-----------------------------------------------------------------------------
(***************************************************************************)
(* The largest of finitely many numbers.                                   *)
(***************************************************************************)
LEMMA SmallestOf ==
    ASSUME NEW T, T \subseteq Nat, T # {}
    PROVE  \E x \in T : \A y \in T : x <= y
<1>1. PICK x \in T : \A y \in T : <<y, x>> \notin OpToRel(<, Nat)
  BY WFMin, NatLessThanWellFounded, Zenon
<1>2. \A y \in T : ~ (y < x)
  BY <1>1, Zenon DEF OpToRel
<1> QED
  BY <1>2

LEMMA LargestOf ==
    ASSUME NEW n \in Nat, NEW T \in SUBSET (1 .. n), T # {}
    PROVE  \E x \in T : \A y \in T : y <= x
<1> DEFINE G == {n - x : x \in T}
<1>1. G \subseteq Nat
  OBVIOUS
<1>2. PICK t \in T : TRUE
  OBVIOUS
<1>3. n - t \in G
  OBVIOUS
<1>4. PICK g \in G : \A h \in G : g <= h
  <2> HIDE DEF G
  <2> QED
    BY <1>1, <1>3, SmallestOf
<1>5. PICK x \in T : g = n - x
  OBVIOUS
<1>6. \A y \in T : n - x <= n - y
  BY <1>4, <1>5
<1> QED
  BY <1>6

-----------------------------------------------------------------------------
(***************************************************************************)
(* Documents, mutations and views have the types they should.              *)
(***************************************************************************)
LEMMA ApplyType ==
    ASSUME NEW doc \in Document \cup {NoDoc}, NEW m \in Mutation
    PROVE  Apply(doc, m) \in Document
<1> DEFINE old == IF doc = NoDoc THEN [whole |-> FALSE, users |-> NoCopies] ELSE doc
<1>1. old \in Document
  BY DEF Document, Copies, NoCopies
<1>2. m.op \in {"set", "union", "remove"} /\ m.uid \in Users /\ m.users \in Copies
  BY DEF Mutation
<1>3. [old EXCEPT !.users[m.uid] = IF @ = 0 THEN 1 ELSE @] \in Document
  BY <1>1, <1>2 DEF Document, Copies
<1>4. [old EXCEPT !.users[m.uid] = IF @ = 0 THEN 0 ELSE @ - 1] \in Document
  <2>1. \A n \in Nat : (IF n = 0 THEN 0 ELSE n - 1) \in Nat
    OBVIOUS
  <2> HIDE DEF old
  <2>2. old.users[m.uid] \in Nat
    BY <1>1, <1>2 DEF Document, Copies
  <2> DEFINE k == IF old.users[m.uid] = 0 THEN 0 ELSE old.users[m.uid] - 1
  <2>3. k \in Nat
    BY <2>1, <2>2
  <2> HIDE DEF k
  <2>4. [old EXCEPT !.users[m.uid] = k] \in Document
    BY <1>1, <1>2, <2>3 DEF Document, Copies
  <2> QED
    BY <2>4 DEF k
<1>5. [whole |-> TRUE, users |-> m.users] \in Document
  BY <1>2 DEF Document
<1> QED
  BY <1>2, <1>3, <1>4, <1>5 DEF Apply

LEMMA ServerApplyType ==
    ASSUME NEW doc \in Document \cup {NoDoc}, NEW m \in Mutation
    PROVE  ServerApply(doc, m) \in Document
<1>1. Apply(doc, m) \in Document /\ m.uid \in Users
  BY ApplyType DEF Mutation
<1>2. [Apply(doc, m) EXCEPT !.users[m.uid] = 0] \in Document
  BY <1>1 DEF Document, Copies
<1> QED
  BY <1>1, <1>2 DEF ServerApply

LEMMA ReplayType ==
    ASSUME NEW n \in Nat, NEW q \in Seq(Mutation), NEW I \in SUBSET DOMAIN q
    PROVE  Replay(n, I, q) \in Nat
<1> DEFINE removes == {i \in I : q[i].op = "remove"}
<1>1. IsFiniteSet(1 .. Len(q)) /\ removes \subseteq 1 .. Len(q)
  BY FS_Interval
<1>2. Cardinality(removes) \in Nat
  <2> HIDE DEF removes
  <2> QED BY <1>1, FS_Subset, FS_CardinalityType
<1> QED
  BY <1>2 DEF Replay

LEMMA ViewType ==
    ASSUME NEW base \in Document \cup {NoDoc}, NEW q \in Seq(Mutation), NEW c \in Cafes
    PROVE  /\ View(base, q, c) \in Document \cup {NoDoc}
           /\ base # NoDoc => View(base, q, c) # NoDoc
<1> DEFINE on    == {i \in DOMAIN q : q[i].cafe = c}
           sets  == {i \in on : q[i].op = "set"}
           last  == IF sets = {} THEN 0 ELSE CHOOSE i \in sets : \A j \in sets : j <= i
           start == IF sets = {} THEN base ELSE [whole |-> TRUE, users |-> q[last].users]
           after == [whole |-> start.whole,
                     users |-> [u \in Users |->
                        Replay(start.users[u], {i \in on : i > last /\ q[i].uid = u}, q)]]
<1>1. sets # {} => last \in sets
  <2> SUFFICES ASSUME sets # {} PROVE last \in sets
    OBVIOUS
  <2>1. Len(q) \in Nat /\ sets \in SUBSET (1 .. Len(q))
    OBVIOUS
  <2>2. \E i \in sets : \A j \in sets : j <= i
    <3> HIDE DEF sets
    <3> QED BY <2>1, LargestOf
  <2> QED
    BY <2>2
<1>2. start \in Document \cup {NoDoc} /\ (base # NoDoc => start # NoDoc)
  <2>1. CASE sets = {}
    BY <2>1
  <2>2. CASE sets # {}
    <3>0. last \in 1 .. Len(q)
      <4> HIDE DEF last
      <4> QED BY <1>1, <2>2
    <3>1. q[last] \in Mutation
      <4> HIDE DEF last
      <4> QED BY <3>0
    <3>2. start = [whole |-> TRUE, users |-> q[last].users]
      BY <2>2
    <3>3. start \in Document
      <4> HIDE DEF start, last
      <4> QED BY <3>1, <3>2 DEF Mutation, Document
    <3> QED
      BY <3>3, NoDocAssumption
  <2> QED
    BY <2>1, <2>2
<1>3. View(base, q, c) = IF start = NoDoc THEN NoDoc ELSE after
  BY DEF View
<1>4. ASSUME start # NoDoc
      PROVE  after \in Document
  <2> HIDE DEF start, on, last
  <2>1. start.whole \in BOOLEAN /\ start.users \in [Users -> Nat]
    BY <1>2, <1>4 DEF Document, Copies
  <2>2. on \subseteq DOMAIN q
    BY DEF on
  <2>3. \A u \in Users :
            Replay(start.users[u], {i \in on : i > last /\ q[i].uid = u}, q) \in Nat
    BY <2>1, <2>2, ReplayType
  <2> QED
    BY <2>1, <2>3 DEF Document, Copies
<1> QED
  <2> HIDE DEF start, after
  <2> QED
    BY <1>2, <1>3, <1>4, NoDocAssumption

LEMMA SeenType ==
    ASSUME TypeOK, NEW d \in Devices, NEW c \in Cafes
    PROVE  /\ Known(d, c) \in Document \cup {NoDoc}
           /\ pending[d][fsUser[d]] \in Seq(Mutation)
           /\ Seen(d, c) \in Document \cup {NoDoc}
<1>1. Known(d, c) \in Document \cup {NoDoc}
  BY DEF TypeOK, Known
<1>2. pending[d][fsUser[d]] \in Seq(Mutation)
  BY DEF TypeOK
<1> QED
  BY <1>1, <1>2, ViewType DEF Seen

-----------------------------------------------------------------------------
(***************************************************************************)
(* Type correctness.                                                       *)
(***************************************************************************)
LEMMA InitType == Init => TypeOK
BY ConstantsAssumption DEF Init, TypeOK, Document, Copies, NoCopies, Owners

(* All of it but the responses that are on their way.                      *)
RestTyped ==
    /\ server \in [Cafes -> Document \cup {NoDoc}]
    /\ cache \in [Devices -> [Cafes -> Document \cup {NoDoc}]]
    /\ pending \in [Devices -> [Owners -> Seq(Mutation)]]
    /\ online \in [Devices -> BOOLEAN]
    /\ currentUser \in [Devices -> Owners]
    /\ fsUser \in [Devices -> Owners]
    /\ isLogin \in [Devices -> BOOLEAN]
    /\ reads \in [Devices -> [Cafes -> Seq(Read)]]
    /\ mainQueue \in [Devices -> Seq(Reply \cup AuthNote)]
    /\ listing \in [Devices -> Owners]
    /\ rows \in [Devices -> [Cafes -> Copies \cup {NoDoc}]]
    /\ button \in [Devices -> [Cafes -> {"unset", "on", "off"}]]
    /\ taps \in 0 .. MaxTaps
    /\ switches \in [Devices -> 0 .. MaxSwitches]

ResultsTyped ==
    /\ results \in [Devices -> Seq(Result)]
    /\ \A d \in Devices : Len(results[d]) <= Len(Queue(d))

LEMMA TypeParts == TypeOK <=> RestTyped /\ ResultsTyped
BY DEF TypeOK, RestTyped, ResultsTyped, Queue

(* A function stays of its type when one of its values is replaced.        *)
LEMMA Replaced ==
    ASSUME NEW D, NEW S, NEW f \in [D -> S], NEW d \in D, NEW x \in S
    PROVE  [f EXCEPT ![d] = x] \in [D -> S]
OBVIOUS

LEMMA ReplacedTwice ==
    ASSUME NEW D, NEW E, NEW S, NEW f \in [D -> [E -> S]], NEW d \in D, NEW e \in E, NEW x \in S
    PROVE  [f EXCEPT ![d][e] = x] \in [D -> [E -> S]]
OBVIOUS

LEMMA Joined ==
    ASSUME NEW S, NEW s \in Seq(S), NEW t \in Seq(S)
    PROVE  s \o t \in Seq(S)
OBVIOUS

(* The fragments of a step that several actions share.                     *)
LEMMA EnqueueType ==
    ASSUME TypeOK, NEW d \in Devices, NEW m \in Mutation, Enqueue(d, m)
    PROVE  pending' \in [Devices -> [Owners -> Seq(Mutation)]]
BY DEF TypeOK, Enqueue

LEMMA HeadTailType ==
    ASSUME TypeOK, NEW d \in Devices, mainQueue[d] # <<>>
    PROVE  /\ Head(mainQueue[d]) \in Reply \cup AuthNote
           /\ [mainQueue EXCEPT ![d] = Tail(@)] \in [Devices -> Seq(Reply \cup AuthNote)]
BY DEF TypeOK

LEMMA TapType ==
    ASSUME TypeOK, NEW d \in Devices, NEW c \in Cafes, NEW base \in Copies,
           DidClickCollectButton(d, c, base)
    PROVE  RestTyped'
<1>1. taps' \in 0 .. MaxTaps
  BY ConstantsAssumption DEF TypeOK, DidClickCollectButton
<1>2. button' \in [Devices -> [Cafes -> {"unset", "on", "off"}]]
  <2>1. \/ button' = [button EXCEPT ![d][c] = "on"]
        \/ button' = button
    BY DEF DidClickCollectButton
  <2>2. [button EXCEPT ![d][c] = "on"] \in [Devices -> [Cafes -> {"unset", "on", "off"}]]
    BY DEF TypeOK
  <2> QED
    BY <2>1, <2>2 DEF TypeOK
<1>3. reads' \in [Devices -> [Cafes -> Seq(Read)]]
  <2>1. CASE currentUser[d] = NoUser
    BY <2>1 DEF TypeOK, DidClickCollectButton
  <2>2. CASE currentUser[d] # NoUser
    <3> DEFINE r == [kind |-> "check", cafe |-> c, uid |-> currentUser[d], base |-> base]
    <3>1. r \in Read
      BY <2>2 DEF Read, TypeOK, Owners
    <3>2. reads' = [reads EXCEPT ![d][c] = Append(@, r)]
      BY <2>2 DEF DidClickCollectButton
    <3> HIDE DEF r
    <3> QED
      BY <3>1, <3>2 DEF TypeOK
  <2> QED
    BY <2>1, <2>2
<1>4. UNCHANGED <<server, cache, pending, online, currentUser, fsUser, isLogin, switches,
                  mainQueue, listing, rows>>
  BY DEF DidClickCollectButton, storeVars, authVars, listVars
<1> QED
  BY <1>1, <1>2, <1>3, <1>4 DEF TypeOK, RestTyped

LEMMA AnswerType ==
    ASSUME NEW r \in Read, NEW doc \in Document \cup {NoDoc}
    PROVE  ReplyTo(r, doc) \in Reply
BY DEF ReplyTo, Reply, AnswerTo, Answer

LEMMA AddWriteType ==
    ASSUME NEW e \in Reply
    PROVE  AddWrite(e) \in Mutation
<1>1. e.read \in Read
  BY DEF Reply
<1>2. e.read.cafe \in Cafes /\ e.read.uid \in Users /\ e.read.base \in Copies
  BY <1>1 DEF Read
<1>3. [e.read.base EXCEPT ![e.read.uid] = @ + 1] \in Copies
  BY <1>2 DEF Copies
<1>4. NoCopies \in Copies
  BY DEF Copies, NoCopies
<1> QED
  BY <1>2, <1>3, <1>4 DEF AddWrite, Mutation
LEMMA AnswerReadsType ==
    ASSUME TypeOK, NEW d \in Devices, NEW c \in Cafes, AnswerReads(d, c)
    PROVE  RestTyped'
<1> DEFINE waiting == reads[d][c]
           replies == [i \in 1 .. Len(waiting) |-> ReplyTo(waiting[i], Seen(d, c))]
<1>1. replies \in Seq(Reply \cup AuthNote)
  <2>1. waiting \in Seq(Read)
    BY DEF TypeOK
  <2>2. Seen(d, c) \in Document \cup {NoDoc}
    BY SeenType
  <2>3. \A i \in 1 .. Len(waiting) : ReplyTo(waiting[i], Seen(d, c)) \in Reply
    <3> HIDE DEF waiting
    <3> QED BY <2>1, <2>2, AnswerType
  <2> HIDE DEF waiting
  <2>4. Len(waiting) \in Nat
    BY <2>1
  <2> QED
    BY <2>3, <2>4
<1>2. mainQueue' = [mainQueue EXCEPT ![d] = @ \o replies]
  BY DEF AnswerReads
<1>3. mainQueue' \in [Devices -> Seq(Reply \cup AuthNote)]
  <2> HIDE DEF replies
  <2>1. mainQueue \in [Devices -> Seq(Reply \cup AuthNote)]
    BY DEF TypeOK
  <2>2. mainQueue[d] \in Seq(Reply \cup AuthNote)
    BY <2>1
  <2>3. mainQueue[d] \o replies \in Seq(Reply \cup AuthNote)
    BY <1>1, <2>2, Joined
  <2>4. mainQueue' = [mainQueue EXCEPT ![d] = mainQueue[d] \o replies]
    BY <1>2
  <2> QED
    BY <2>1, <2>3, <2>4, Replaced
<1>4. reads' \in [Devices -> [Cafes -> Seq(Read)]]
  BY DEF TypeOK, AnswerReads, Answerable
<1>5. cache' \in [Devices -> [Cafes -> Document \cup {NoDoc}]]
  BY SeenType DEF TypeOK, AnswerReads
<1>6. UNCHANGED <<server, pending, online, currentUser, fsUser, isLogin, switches,
                  listing, rows, button, taps>>
  BY DEF AnswerReads, authVars, listVars
<1> QED
  BY <1>3, <1>4, <1>5, <1>6 DEF TypeOK, RestTyped

LEMMA CheckReplyType ==
    ASSUME TypeOK, NEW d \in Devices, CheckReply(d)
    PROVE  RestTyped'
<1> DEFINE e   == Head(mainQueue[d])
           now == currentUser[d]
           c   == e.read.cafe
<1>1. /\ mainQueue[d] # <<>>
      /\ e.type = "reply"
      /\ mainQueue' = [mainQueue EXCEPT ![d] = Tail(@)]
  BY DEF CheckReply
<1>2. e \in Reply /\ mainQueue' \in [Devices -> Seq(Reply \cup AuthNote)]
  <2> HIDE DEF e
  <2> QED BY <1>1, HeadTailType DEF AuthNote, e
<1>3. c \in Cafes /\ e.read.base \in Copies
  <2> HIDE DEF e
  <2> QED BY <1>2 DEF Reply, Read
<1>4. button' \in [Devices -> [Cafes -> {"unset", "on", "off"}]]
  <2>1. button' = [button EXCEPT ![d][c] = IF e.ans = "in" THEN "off" ELSE "on"]
    BY DEF CheckReply
  <2> HIDE DEF e
  <2> QED BY <2>1, <1>3 DEF TypeOK
<1>5. pending' \in [Devices -> [Owners -> Seq(Mutation)]]
  <2> DEFINE m == [op |-> "remove", cafe |-> c, uid |-> now, users |-> NoCopies]
  <2>1. \/ pending' = pending
        \/ now # NoUser /\ Enqueue(d, m)
    BY DEF CheckReply
  <2>2. now # NoUser => m \in Mutation
    <3> HIDE DEF e
    <3> QED BY <1>3 DEF Mutation, TypeOK, Owners, Copies, NoCopies
  <2> HIDE DEF m, now
  <2>3. CASE pending' = pending
    BY <2>3 DEF TypeOK
  <2>4. CASE now # NoUser /\ Enqueue(d, m)
    BY <2>2, <2>4, EnqueueType
  <2> QED
    BY <2>1, <2>3, <2>4
<1>6. reads' \in [Devices -> [Cafes -> Seq(Read)]]
  <2> DEFINE r == [kind |-> "add", cafe |-> c, uid |-> now, base |-> e.read.base]
  <2>1. \/ reads' = reads
        \/ now # NoUser /\ reads' = [reads EXCEPT ![d][c] = Append(@, r)]
    BY DEF CheckReply
  <2>2. now # NoUser => r \in Read
    <3> HIDE DEF e
    <3> QED BY <1>3 DEF Read, TypeOK, Owners
  <2> HIDE DEF r, now, e
  <2>3. ASSUME now # NoUser
        PROVE  [reads EXCEPT ![d][c] = Append(@, r)] \in [Devices -> [Cafes -> Seq(Read)]]
    <3> HIDE DEF c
    <3> QED BY <1>3, <2>2, <2>3 DEF TypeOK
  <2> QED
    BY <2>1, <2>3 DEF TypeOK
<1>7. UNCHANGED <<server, cache, online, currentUser, fsUser, isLogin, switches,
                  listing, rows, taps>>
  BY DEF CheckReply, authVars, listVars
<1> QED
  BY <1>2, <1>4, <1>5, <1>6, <1>7 DEF TypeOK, RestTyped

LEMMA AddReplyType ==
    ASSUME TypeOK, NEW d \in Devices, AddReply(d)
    PROVE  RestTyped'
<1> DEFINE e == Head(mainQueue[d])
<1>1. /\ mainQueue[d] # <<>>
      /\ e.type = "reply"
      /\ mainQueue' = [mainQueue EXCEPT ![d] = Tail(@)]
      /\ Enqueue(d, AddWrite(e))
  BY DEF AddReply
<1>2. e \in Reply /\ mainQueue' \in [Devices -> Seq(Reply \cup AuthNote)]
  <2> HIDE DEF e
  <2> QED BY <1>1, HeadTailType DEF AuthNote, e
<1>3. pending' \in [Devices -> [Owners -> Seq(Mutation)]]
  <2> HIDE DEF e
  <2> QED BY <1>1, <1>2, AddWriteType, EnqueueType
<1>4. UNCHANGED <<server, cache, online, currentUser, fsUser, isLogin, switches,
                  reads, listing, rows, button, taps>>
  BY DEF AddReply, authVars, listVars
<1> QED
  BY <1>2, <1>3, <1>4 DEF TypeOK, RestTyped

(* The write the server answers next.                                      *)
LEMMA SentWrite ==
    ASSUME TypeOK, NEW d \in Devices, Len(results[d]) < Len(Queue(d))
    PROVE  /\ Queue(d)[Len(results[d]) + 1] \in Mutation
           /\ Queue(d)[Len(results[d]) + 1].cafe \in Cafes
           /\ server[Queue(d)[Len(results[d]) + 1].cafe] \in Document \cup {NoDoc}
<1>1. Queue(d) \in Seq(Mutation) /\ Len(results[d]) \in Nat
  BY DEF TypeOK, Queue
<1>2. Queue(d)[Len(results[d]) + 1] \in Mutation
  BY <1>1
<1> QED
  BY <1>2 DEF Mutation, TypeOK

LEMMA CommitType ==
    ASSUME TypeOK, NEW d \in Devices, Commit(d)
    PROVE  RestTyped'
<1> DEFINE m == Queue(d)[Len(results[d]) + 1]
<1>1. m \in Mutation /\ m.cafe \in Cafes /\ server[m.cafe] \in Document \cup {NoDoc}
  BY SentWrite DEF Commit
<1>2. server' = server \/ server' = [server EXCEPT ![m.cafe] = ServerApply(@, m)]
  BY DEF Commit
<1>3. server' \in [Cafes -> Document \cup {NoDoc}]
  <2> HIDE DEF m
  <2>1. ServerApply(server[m.cafe], m) \in Document
    BY <1>1, ServerApplyType
  <2> QED
    BY <1>1, <1>2, <2>1 DEF TypeOK
<1>4. UNCHANGED <<cache, pending, online, currentUser, fsUser, isLogin, switches, reads,
                  mainQueue, listing, rows, button, taps>>
  BY DEF Commit, authVars, listVars
<1> QED
  BY <1>3, <1>4 DEF TypeOK, RestTyped

(* The write a response that arrives is for.                               *)
LEMMA AnsweredWrite ==
    ASSUME TypeOK, NEW d \in Devices, results[d] # <<>>
    PROVE  /\ Queue(d) \in Seq(Mutation) /\ Queue(d) # <<>> /\ fsUser[d] \in Owners
           /\ Head(Queue(d)) \in Mutation /\ Tail(Queue(d)) \in Seq(Mutation)
           /\ Head(Queue(d)).cafe \in Cafes
           /\ cache[d][Head(Queue(d)).cafe] \in Document \cup {NoDoc}
           /\ Len(Tail(Queue(d))) = Len(Queue(d)) - 1
           /\ results[d] \in Seq(Result) /\ Head(results[d]) \in Result
           /\ Tail(results[d]) \in Seq(Result) /\ Len(Tail(results[d])) = Len(results[d]) - 1
<1>1. Queue(d) \in Seq(Mutation) /\ fsUser[d] \in Owners /\ results[d] \in Seq(Result)
  BY DEF TypeOK, Queue
<1>2. Len(results[d]) # 0
  BY <1>1
<1>3. Queue(d) # <<>>
  BY <1>1, <1>2 DEF TypeOK, Queue
<1>4. Head(Queue(d)) \in Mutation
  BY <1>1, <1>3
<1>5. Head(Queue(d)).cafe \in Cafes
  BY <1>4 DEF Mutation
<1>6. cache[d][Head(Queue(d)).cafe] \in Document \cup {NoDoc}
  BY <1>5 DEF TypeOK
<1> QED
  BY <1>1, <1>3, <1>4, <1>5, <1>6

LEMMA AcknowledgeType ==
    ASSUME TypeOK, NEW d \in Devices, Acknowledge(d)
    PROVE  RestTyped'
<1> DEFINE m == Head(Queue(d))
<1>1. /\ m \in Mutation /\ m.cafe \in Cafes /\ Tail(Queue(d)) \in Seq(Mutation)
      /\ cache[d][m.cafe] \in Document \cup {NoDoc} /\ fsUser[d] \in Owners
  BY AnsweredWrite DEF Acknowledge
<1>2. cache' = cache \/ cache' = [cache EXCEPT ![d][m.cafe] = Apply(@, m)]
  BY DEF Acknowledge
<1>3. cache' \in [Devices -> [Cafes -> Document \cup {NoDoc}]]
  <2> HIDE DEF m
  <2>1. Apply(cache[d][m.cafe], m) \in Document
    BY <1>1, ApplyType
  <2>2. cache \in [Devices -> [Cafes -> Document \cup {NoDoc}]]
    BY DEF TypeOK
  <2>3. [cache EXCEPT ![d][m.cafe] = Apply(cache[d][m.cafe], m)]
           \in [Devices -> [Cafes -> Document \cup {NoDoc}]]
    BY <1>1, <2>1, <2>2, ReplacedTwice
  <2>4. [cache EXCEPT ![d][m.cafe] = Apply(@, m)]
           = [cache EXCEPT ![d][m.cafe] = Apply(cache[d][m.cafe], m)]
    BY <1>1, <2>2
  <2> QED
    BY <1>2, <2>2, <2>3, <2>4
<1>4. pending' \in [Devices -> [Owners -> Seq(Mutation)]]
  <2>1. pending' = [pending EXCEPT ![d][fsUser[d]] = Tail(Queue(d))]
    BY DEF Acknowledge, Queue
  <2>2. pending \in [Devices -> [Owners -> Seq(Mutation)]]
    BY DEF TypeOK
  <2> QED
    BY <1>1, <2>1, <2>2, ReplacedTwice
<1>5. UNCHANGED <<server, online, currentUser, fsUser, isLogin, switches, reads, mainQueue,
                  listing, rows, button, taps>>
  BY DEF Acknowledge, authVars, listVars
<1> QED
  BY <1>3, <1>4, <1>5 DEF TypeOK, RestTyped

LEMMA ListType ==
    ASSUME TypeOK, NEW d \in Devices, GetCafes(d) \/ GetCafesReply(d)
    PROVE  RestTyped'
<1>1. CASE GetCafes(d)
  BY <1>1 DEF TypeOK, RestTyped, GetCafes, storeVars, authVars
<1>2. CASE GetCafesReply(d)
  <2> DEFINE list == [c \in Cafes |->
               LET doc == Seen(d, c)
               IN  IF doc # NoDoc /\ doc.users[listing[d]] > 0 THEN doc.users ELSE NoDoc]
             known == [c \in Cafes |-> Known(d, c)]
  <2>1. list \in [Cafes -> Copies \cup {NoDoc}]
    BY SeenType DEF Document
  <2>2. known \in [Cafes -> Document \cup {NoDoc}]
    BY SeenType
  <2>3. rows' = [rows EXCEPT ![d] = list] /\ cache' = [cache EXCEPT ![d] = known]
    BY <1>2 DEF GetCafesReply
  <2> HIDE DEF list, known
  <2>4. rows' \in [Devices -> [Cafes -> Copies \cup {NoDoc}]]
    BY <2>1, <2>3 DEF TypeOK
  <2>5. cache' \in [Devices -> [Cafes -> Document \cup {NoDoc}]]
    BY <2>2, <2>3 DEF TypeOK
  <2>6. listing' \in [Devices -> Owners]
    BY <1>2 DEF TypeOK, GetCafesReply, Owners
  <2>7. UNCHANGED <<server, pending, online, currentUser, fsUser, isLogin, switches,
                    reads, mainQueue, button, taps>>
    BY <1>2 DEF GetCafesReply, authVars
  <2> QED
    BY <2>4, <2>5, <2>6, <2>7 DEF TypeOK, RestTyped
<1> QED
  BY <1>1, <1>2

(* SignIn, SignOut and the notification they post.                         *)
LEMMA NoteType ==
    ASSUME TypeOK, NEW d \in Devices, NEW u \in Owners, PostAuthNote(d, u)
    PROVE  mainQueue' \in [Devices -> Seq(Reply \cup AuthNote)]
<1> DEFINE e == [type |-> "auth", uid |-> u]
<1>1. e \in AuthNote /\ mainQueue' = [mainQueue EXCEPT ![d] = Append(@, e)]
  BY DEF AuthNote, PostAuthNote
<1> HIDE DEF e
<1>2. Append(mainQueue[d], e) \in Seq(Reply \cup AuthNote)
  BY <1>1 DEF TypeOK
<1> QED
  BY <1>1, <1>2 DEF TypeOK

LEMMA AuthType ==
    ASSUME TypeOK, NEW d \in Devices,
           (\E u \in Users : SignIn(d, u)) \/ SignOut(d) \/ AuthStateDidChange(d)
    PROVE  RestTyped'
<1>1. ASSUME NEW u \in Users, SignIn(d, u)
      PROVE  RestTyped'
  <2>1. mainQueue' \in [Devices -> Seq(Reply \cup AuthNote)]
    BY <1>1, NoteType DEF SignIn, Owners
  <2>2. currentUser' \in [Devices -> Owners] /\ switches' \in [Devices -> 0 .. MaxSwitches]
    BY <1>1, ConstantsAssumption DEF TypeOK, SignIn, Owners
  <2>3. UNCHANGED <<server, cache, pending, online, fsUser, isLogin, reads, listing, rows,
                    button, taps>>
    BY <1>1 DEF SignIn, storeVars, listVars
  <2> QED
    BY <2>1, <2>2, <2>3 DEF TypeOK, RestTyped
<1>2. CASE SignOut(d)
  <2>1. mainQueue' \in [Devices -> Seq(Reply \cup AuthNote)]
    BY <1>2, NoteType DEF SignOut, Owners
  <2>2. /\ currentUser' \in [Devices -> Owners] /\ switches' \in [Devices -> 0 .. MaxSwitches]
        /\ listing' \in [Devices -> Owners]
    BY <1>2, ConstantsAssumption DEF TypeOK, SignOut, Owners
  <2>3. rows' \in [Devices -> [Cafes -> Copies \cup {NoDoc}]]
    BY <1>2 DEF TypeOK, SignOut
  <2>4. UNCHANGED <<server, cache, pending, online, fsUser, isLogin, reads, button, taps>>
    BY <1>2 DEF SignOut, storeVars
  <2> QED
    BY <2>1, <2>2, <2>3, <2>4 DEF TypeOK, RestTyped
<1>3. CASE AuthStateDidChange(d)
  <2> DEFINE e == Head(mainQueue[d])
  <2>1. /\ mainQueue[d] # <<>>
        /\ e.type = "auth"
        /\ mainQueue' = [mainQueue EXCEPT ![d] = Tail(@)]
        /\ fsUser' = [fsUser EXCEPT ![d] = e.uid]
    BY <1>3 DEF AuthStateDidChange
  <2>2. e \in AuthNote /\ mainQueue' \in [Devices -> Seq(Reply \cup AuthNote)]
    <3> HIDE DEF e
    <3> QED BY <2>1, HeadTailType DEF Reply, e
  <2>3. fsUser' \in [Devices -> Owners]
    <3> HIDE DEF e
    <3> QED BY <2>1, <2>2 DEF AuthNote, TypeOK
  <2>4. isLogin' \in [Devices -> BOOLEAN]
    BY <1>3 DEF AuthStateDidChange, TypeOK
  <2>5. UNCHANGED <<server, cache, pending, online, currentUser, reads, listing, rows,
                    button, taps, switches>>
    BY <1>3 DEF AuthStateDidChange, listVars
  <2> QED
    BY <2>2, <2>3, <2>4, <2>5 DEF TypeOK, RestTyped
<1> QED
  BY <1>1, <1>2, <1>3

LEMMA RelaunchType ==
    ASSUME TypeOK, NEW d \in Devices, Relaunch(d)
    PROVE  RestTyped'
<1>1. mainQueue' \in [Devices -> Seq(Reply \cup AuthNote)]
  <2> DEFINE e == [type |-> "auth", uid |-> currentUser[d]]
  <2>1. e \in AuthNote
    BY DEF TypeOK, AuthNote
  <2>2. mainQueue' = [mainQueue EXCEPT ![d] = <<e>>]
    BY DEF Relaunch
  <2> HIDE DEF e
  <2>3. <<e>> \in Seq(Reply \cup AuthNote)
    BY <2>1
  <2>4. mainQueue \in [Devices -> Seq(Reply \cup AuthNote)]
    BY DEF TypeOK
  <2> QED
    BY <2>2, <2>3, <2>4, Replaced
<1>2. reads' \in [Devices -> [Cafes -> Seq(Read)]]
  BY DEF Relaunch, TypeOK
<1>3. button' \in [Devices -> [Cafes -> {"unset", "on", "off"}]]
  BY DEF Relaunch, TypeOK
<1>4. rows' \in [Devices -> [Cafes -> Copies \cup {NoDoc}]]
  BY DEF Relaunch, TypeOK
<1>5. /\ listing' \in [Devices -> Owners]
      /\ fsUser' \in [Devices -> Owners]
      /\ isLogin' \in [Devices -> BOOLEAN]
  BY DEF Relaunch, TypeOK, Owners
<1>6. UNCHANGED <<server, cache, pending, online, currentUser, taps, switches>>
  BY DEF Relaunch
<1> QED
  BY <1>1, <1>2, <1>3, <1>4, <1>5, <1>6 DEF TypeOK, RestTyped

(* Responses stay of their type, and fit the queue they are for: one is    *)
(* added only for a write of the queue, and goes with its write.           *)
LEMMA ResponsesFit ==
    ASSUME TypeOK, NEW d \in Devices, NEW r \in Seq(Result), results' = [results EXCEPT ![d] = r],
           Len(r) <= Len(Queue(d)'),
           \A e \in Devices \ {d} : UNCHANGED <<pending[e], fsUser[e]>>
    PROVE  ResultsTyped'
<1>1. results' \in [Devices -> Seq(Result)]
  BY DEF TypeOK
<1>2. ASSUME NEW e \in Devices
      PROVE  Len(results'[e]) <= Len(Queue(e)')
  BY <1>2 DEF TypeOK, Queue
<1> QED
  BY <1>1, <1>2 DEF ResultsTyped

LEMMA StreamEnds ==
    ASSUME TypeOK, NEW d \in Devices, EndStream(d),
           RestTyped', \A e \in Devices \ {d} : UNCHANGED <<pending[e], fsUser[e]>>
    PROVE  ResultsTyped'
<1>1. Len(<<>>) <= Len(Queue(d)')
  BY DEF RestTyped, Queue
<1>2. <<>> \in Seq(Result)
  OBVIOUS
<1> QED
  BY <1>1, <1>2, ResponsesFit DEF EndStream

LEMMA NoticeType ==
    ASSUME TypeOK, NEW d \in Devices, NEW C, Notice(d, C), UNCHANGED <<pending, fsUser>>
    PROVE  ResultsTyped'
<1> DEFINE noticed == [i \in 1 .. Len(results[d]) |->
               IF results[d][i] = "taken" /\ pending[d][fsUser[d]][i].cafe \in C
               THEN "seen" ELSE results[d][i]]
<1>1. results' = [results EXCEPT ![d] = noticed]
  BY DEF Notice, TypeOK
<1>2. results[d] \in Seq(Result) /\ Len(results[d]) \in Nat
  BY DEF TypeOK
<1>3. \A i \in 1 .. Len(results[d]) : noticed[i] \in Result
  BY <1>2 DEF Result
<1>4. noticed \in Seq(Result) /\ Len(noticed) = Len(results[d])
  <2>1. noticed \in [1 .. Len(results[d]) -> Result]
    BY <1>3
  <2> HIDE DEF noticed
  <2> QED
    BY <1>2, <2>1
<1>5. Len(noticed) <= Len(Queue(d)')
  BY <1>4 DEF TypeOK, Queue
<1> HIDE DEF noticed
<1> QED
  BY <1>1, <1>4, <1>5, ResponsesFit

LEMMA QueuesDoNotShrink ==
    ASSUME TypeOK, UNCHANGED <<results, fsUser>>, NEW d \in Devices,
           \A e \in Devices : e = d \/ UNCHANGED pending[e],
           pending' = pending \/ \E m \in Mutation : Enqueue(d, m)
    PROVE  ResultsTyped'
<1>1. results' \in [Devices -> Seq(Result)]
  BY DEF TypeOK
<1>2. ASSUME NEW e \in Devices
      PROVE  Len(results'[e]) <= Len(Queue(e)')
  <2>1. CASE pending' = pending
    BY <2>1 DEF TypeOK, Queue
  <2>2. ASSUME NEW m \in Mutation, Enqueue(d, m)
        PROVE  Len(results'[e]) <= Len(Queue(e)')
    <3>1. CASE e # d
      BY <3>1 DEF TypeOK, Queue
    <3>2. CASE e = d
      <4>1. Queue(d)' = Append(Queue(d), m) /\ Queue(d) \in Seq(Mutation)
        <5>1. pending \in [Devices -> [Owners -> Seq(Mutation)]] /\ fsUser[d] \in Owners
          BY DEF TypeOK
        <5>2. pending'[d][fsUser[d]] = Append(pending[d][fsUser[d]], m)
          BY <2>2, <5>1 DEF Enqueue
        <5> QED
          BY <5>1, <5>2 DEF Queue
      <4>2. Len(Queue(d)') = Len(Queue(d)) + 1 /\ Len(Queue(d)) \in Nat
        BY <4>1
      <4>3. Len(results[d]) <= Len(Queue(d)) /\ Len(results[d]) \in Nat
        BY DEF TypeOK, Queue
      <4> QED
        BY <3>2, <4>2, <4>3
    <3> QED
      BY <3>1, <3>2
  <2> QED
    BY <2>1, <2>2
<1> QED
  BY <1>1, <1>2 DEF ResultsTyped

LEMMA RepliesFit ==
    ASSUME TypeOK, NEW d \in Devices, CheckReply(d) \/ AddReply(d)
    PROVE  ResultsTyped'
<1> DEFINE e == Head(mainQueue[d])
<1>1. /\ mainQueue[d] # <<>>
      /\ e.type = "reply"
      /\ UNCHANGED <<results, fsUser>>
  BY DEF CheckReply, AddReply, authVars
<1>2. e \in Reply
  <2> HIDE DEF e
  <2> QED
    BY <1>1, HeadTailType DEF AuthNote, e
<1>3. pending' = pending \/ \E m \in Mutation : Enqueue(d, m)
  <2>1. CASE AddReply(d)
    <3>1. Enqueue(d, AddWrite(e))
      BY <2>1 DEF AddReply
    <3>2. AddWrite(e) \in Mutation
      BY <1>2, AddWriteType
    <3> QED
      BY <3>1, <3>2
  <2>2. CASE CheckReply(d)
    <3> DEFINE m == [op |-> "remove", cafe |-> e.read.cafe, uid |-> currentUser[d],
                     users |-> NoCopies]
    <3>1. pending' = pending \/ (currentUser[d] # NoUser /\ Enqueue(d, m))
      BY <2>2 DEF CheckReply
    <3>2. currentUser[d] # NoUser => m \in Mutation
      <4> HIDE DEF e
      <4>1. e.read.cafe \in Cafes
        BY <1>2 DEF Reply, Read
      <4> QED
        BY <4>1 DEF Mutation, TypeOK, Owners, Copies, NoCopies
    <3> HIDE DEF m
    <3> QED
      BY <3>1, <3>2
  <2> QED
    BY <2>1, <2>2
<1>4. \A b \in Devices : b = d \/ UNCHANGED pending[b]
  BY <1>3 DEF Enqueue, TypeOK
<1> HIDE DEF e
<1> QED
  BY <1>1, <1>3, <1>4, QueuesDoNotShrink

LEMMA CommitFits ==
    ASSUME TypeOK, NEW d \in Devices, Commit(d)
    PROVE  ResultsTyped'
<1>1. PICK r \in {"taken", "rejected"} : results' = [results EXCEPT ![d] = Append(@, r)]
  BY DEF Commit
<1>2. /\ results[d] \in Seq(Result) /\ r \in Result
      /\ results' = [results EXCEPT ![d] = Append(results[d], r)]
  BY <1>1 DEF TypeOK, Result
<1>3. UNCHANGED <<pending, fsUser>> /\ Len(results[d]) < Len(Queue(d))
  BY DEF Commit, authVars
<1>4. Queue(d)' = Queue(d) /\ Len(Queue(d)) \in Nat
  BY <1>3 DEF Queue, TypeOK
<1>5. /\ Append(results[d], r) \in Seq(Result)
      /\ Len(Append(results[d], r)) = Len(results[d]) + 1
      /\ Len(results[d]) \in Nat
  BY <1>2
<1>6. Len(Append(results[d], r)) <= Len(Queue(d)')
  BY <1>3, <1>4, <1>5
<1> QED
  BY <1>2, <1>3, <1>5, <1>6, ResponsesFit

LEMMA AcknowledgeFits ==
    ASSUME TypeOK, NEW d \in Devices, Acknowledge(d)
    PROVE  ResultsTyped'
<1>1. /\ results' = [results EXCEPT ![d] = Tail(results[d])]
      /\ pending' = [pending EXCEPT ![d][fsUser[d]] = Tail(Queue(d))]
      /\ fsUser' = fsUser
      /\ results[d] # <<>>
  BY DEF Acknowledge, authVars, TypeOK, Queue
<1>2. Queue(d)' = Tail(Queue(d)) /\ \A e \in Devices \ {d} : UNCHANGED <<pending[e], fsUser[e]>>
  BY <1>1 DEF TypeOK, Queue
<1>3. /\ Tail(results[d]) \in Seq(Result)
      /\ Len(Tail(results[d])) = Len(results[d]) - 1
      /\ Len(Tail(Queue(d))) = Len(Queue(d)) - 1
  BY <1>1, AnsweredWrite
<1>4. Len(results[d]) <= Len(Queue(d)) /\ Len(results[d]) \in Nat /\ Len(Queue(d)) \in Nat
  BY DEF TypeOK, Queue
<1>5. Len(Tail(results[d])) <= Len(Queue(d)')
  BY <1>2, <1>3, <1>4
<1> QED
  BY <1>1, <1>2, <1>3, <1>5, ResponsesFit

LEMMA ResultsType ==
    ASSUME TypeOK, [Next]_vars, RestTyped'
    PROVE  ResultsTyped'
<1>1. ASSUME UNCHANGED <<results, pending, fsUser>>
      PROVE  ResultsTyped'
  BY <1>1 DEF TypeOK, ResultsTyped, Queue
<1>2. CASE UNCHANGED vars
  BY <1>1, <1>2 DEF vars
<1>3. ASSUME NEW d \in Devices, UserStep(d) \/ Reconnect(d)
      PROVE  ResultsTyped'
  BY <1>1, <1>3 DEF UserStep, TapInHome, TapInMyCollected, DidClickCollectButton, GetCafes,
     SignIn, SignOut, Reconnect, storeVars, authVars
<1>4. ASSUME NEW d \in Devices, AuthStateDidChange(d) \/ Disconnect(d) \/ Relaunch(d)
      PROVE  ResultsTyped'
  <2>1. EndStream(d) /\ \A e \in Devices \ {d} : UNCHANGED <<pending[e], fsUser[e]>>
    BY <1>4 DEF AuthStateDidChange, Disconnect, Relaunch, authVars, TypeOK
  <2> QED
    BY <2>1, StreamEnds
<1>5. ASSUME NEW d \in Devices, CheckReply(d) \/ AddReply(d)
      PROVE  ResultsTyped'
  BY <1>5, RepliesFit
<1>6. ASSUME NEW d \in Devices,
             \/ \E c \in Cafes : AnswerReads(d, c) \/ CafeCellRead(d, c)
             \/ GetCafesReply(d)
      PROVE  ResultsTyped'
  <2>1. /\ \E C : Notice(d, C)
        /\ UNCHANGED <<pending, fsUser>>
    BY <1>6 DEF AnswerReads, CafeCellRead, GetCafesReply, authVars
  <2> QED
    BY <2>1, NoticeType
<1> QED
  BY <1>2, <1>3, <1>4, <1>5, <1>6, CommitFits, AcknowledgeFits
  DEF Next, MainQueueStep, FirestoreStep, EnvironmentStep

LEMMA NextType ==
    ASSUME TypeOK, [Next]_vars
    PROVE  TypeOK'
<1>1. ASSUME UNCHANGED vars
      PROVE  RestTyped'
  BY <1>1 DEF TypeOK, RestTyped, vars
<1>2. ASSUME NEW d \in Devices, NEW c \in Cafes, TapInHome(d, c)
      PROVE  RestTyped'
  BY <1>2, TapType DEF TapInHome, Copies, NoCopies
<1>3. ASSUME NEW d \in Devices, NEW c \in Cafes, TapInMyCollected(d, c)
      PROVE  RestTyped'
  <2>1. rows[d][c] \in Copies
    BY <1>3 DEF TypeOK, TapInMyCollected
  <2> QED
    BY <1>3, <2>1, TapType DEF TapInMyCollected
<1>4. ASSUME NEW d \in Devices, NEW c \in Cafes, CafeCellRead(d, c)
      PROVE  RestTyped'
  <2>1. cache' \in [Devices -> [Cafes -> Document \cup {NoDoc}]]
    BY <1>4 DEF TypeOK, CafeCellRead
  <2> QED
    BY <1>4, <2>1 DEF TypeOK, RestTyped, CafeCellRead, authVars, listVars
<1>5. ASSUME NEW d \in Devices, Disconnect(d) \/ Reconnect(d)
      PROVE  RestTyped'
  <2>1. online' \in [Devices -> BOOLEAN]
    BY <1>5 DEF TypeOK, Disconnect, Reconnect
  <2> QED
    BY <1>5, <2>1 DEF TypeOK, RestTyped, Disconnect, Reconnect, storeVars, authVars, listVars
<1>6. RestTyped'
  <2>1. ASSUME NEW d \in Devices, UserStep(d)
        PROVE  RestTyped'
    BY <1>2, <1>3, <2>1, ListType, AuthType DEF UserStep
  <2>2. ASSUME NEW d \in Devices, MainQueueStep(d)
        PROVE  RestTyped'
    BY <2>2, CheckReplyType, AddReplyType, AuthType DEF MainQueueStep
  <2>3. ASSUME NEW d \in Devices, FirestoreStep(d)
        PROVE  RestTyped'
    BY <1>4, <2>3, AnswerReadsType, ListType, CommitType, AcknowledgeType DEF FirestoreStep
  <2>4. ASSUME NEW d \in Devices, EnvironmentStep(d)
        PROVE  RestTyped'
    BY <1>5, <2>4, RelaunchType DEF EnvironmentStep
  <2>5. CASE Next
    BY <2>1, <2>2, <2>3, <2>4, <2>5 DEF Next
  <2> QED
    BY <1>1, <2>5
<1>7. ResultsTyped'
  BY <1>6, ResultsType
<1> QED
  BY <1>6, <1>7 DEF TypeOK, RestTyped, ResultsTyped, Queue

(* Every variable of the model stays within its type.                      *)
THEOREM TypeCorrect == Spec => []TypeOK
<1> QED
  BY InitType, NextType, PTL DEF Spec
-----------------------------------------------------------------------------
(***************************************************************************)
(* Documents keep all their fields.  What the server holds is whole        *)
(* because a write without the other fields needs a document that already  *)
(* has them; the induction also needs the same of every cache, which is    *)
(* read when the server cannot be and written when a write is taken.       *)
(***************************************************************************)
Whole(doc) == doc # NoDoc => doc.whole

WholeInv ==
    /\ \A c \in Cafes : Whole(server[c])
    /\ \A d \in Devices, c \in Cafes : Whole(cache[d][c])

LEMMA ApplyWhole ==
    ASSUME NEW doc \in Document \cup {NoDoc}, NEW m \in Mutation, Whole(doc), Accepts(doc, m)
    PROVE  Whole(Apply(doc, m))
<1>1. CASE m.op = "set"
  BY <1>1 DEF Apply, Whole
<1>2. CASE m.op # "set"
  <2>1. doc # NoDoc /\ doc.whole /\ doc \in Document
    BY <1>2 DEF Accepts, Whole
  <2>2. m.op \in {"union", "remove"}
    BY <1>2 DEF Mutation
  <2>3. \/ Apply(doc, m) = [doc EXCEPT !.users[m.uid] = IF @ = 0 THEN 1 ELSE @]
        \/ Apply(doc, m) = [doc EXCEPT !.users[m.uid] = IF @ = 0 THEN 0 ELSE @ - 1]
    BY <2>1, <2>2 DEF Apply
  <2> QED
    BY <2>1, <2>3 DEF Document, Whole
<1> QED
  BY <1>1, <1>2

LEMMA ServerApplyWhole ==
    ASSUME NEW doc \in Document \cup {NoDoc}, NEW m \in Mutation, Whole(doc), Accepts(doc, m)
    PROVE  Whole(ServerApply(doc, m))
<1>1. Whole(Apply(doc, m)) /\ Apply(doc, m) \in Document
  BY ApplyWhole, ApplyType
<1>2. Whole([Apply(doc, m) EXCEPT !.users[m.uid] = 0])
  BY <1>1, NoDocAssumption DEF Whole, Document
<1> QED
  BY <1>1, <1>2 DEF ServerApply

LEMMA ViewWhole ==
    ASSUME NEW base, Whole(base), NEW q, NEW c
    PROVE  Whole(View(base, q, c))
BY DEF View, Whole

LEMMA CacheWhole ==
    ASSUME TypeOK, WholeInv, NEW d \in Devices, NEW c \in Cafes, NEW doc, Whole(doc),
           cache' = [cache EXCEPT ![d][c] = doc]
    PROVE  \A e \in Devices, b \in Cafes : Whole(cache'[e][b])
<1> SUFFICES ASSUME NEW e \in Devices, NEW b \in Cafes
             PROVE  Whole(cache'[e][b])
  OBVIOUS
<1>1. cache'[e][b] = IF e = d /\ b = c THEN doc ELSE cache[e][b]
  BY DEF TypeOK
<1> QED
  BY <1>1 DEF WholeInv

LEMMA WholeStep ==
    ASSUME TypeOK, WholeInv, [Next]_vars
    PROVE  WholeInv'
<1> USE DEF WholeInv
<1>1. ASSUME UNCHANGED <<server, cache>>
      PROVE  WholeInv'
  BY <1>1
<1>2. ASSUME NEW d \in Devices, NEW c \in Cafes, AnswerReads(d, c) \/ CafeCellRead(d, c)
      PROVE  WholeInv'
  <2>1. /\ server' = server
        /\ cache' = [cache EXCEPT ![d][c] = Known(d, c)]
    BY <1>2 DEF AnswerReads, CafeCellRead, Known
  <2>2. Whole(Known(d, c))
    BY DEF Known
  <2> QED
    BY <2>1, <2>2, CacheWhole
<1>3. ASSUME NEW d \in Devices, GetCafesReply(d)
      PROVE  WholeInv'
  <2>1. /\ server' = server
        /\ cache' = [cache EXCEPT ![d] = [c \in Cafes |-> Known(d, c)]]
    BY <1>3 DEF GetCafesReply
  <2>2. \A c \in Cafes : Whole(Known(d, c))
    BY DEF Known
  <2> QED
    BY <2>1, <2>2 DEF TypeOK
<1>4. ASSUME NEW d \in Devices, Commit(d)
      PROVE  WholeInv'
  <2> DEFINE m == Queue(d)[Len(results[d]) + 1]
  <2>1. m \in Mutation /\ m.cafe \in Cafes /\ server[m.cafe] \in Document \cup {NoDoc}
    BY <1>4, SentWrite DEF Commit
  <2>2. /\ \/ server' = server
           \/ Accepts(server[m.cafe], m) /\ server' = [server EXCEPT ![m.cafe] = ServerApply(@, m)]
        /\ cache' = cache
    BY <1>4 DEF Commit
  <2> HIDE DEF m
  <2>3. Accepts(server[m.cafe], m) => Whole(ServerApply(server[m.cafe], m))
    BY <2>1, ServerApplyWhole
  <2> QED
    BY <2>1, <2>2, <2>3 DEF TypeOK
<1>5. ASSUME NEW d \in Devices, Acknowledge(d)
      PROVE  WholeInv'
  <2> DEFINE m == Head(Queue(d))
  <2>1. m \in Mutation /\ m.cafe \in Cafes /\ cache[d][m.cafe] \in Document \cup {NoDoc}
    BY <1>5, AnsweredWrite DEF Acknowledge
  <2>2. /\ server' = server
        /\ \/ cache' = cache
           \/ /\ Accepts(cache[d][m.cafe], m)
              /\ cache' = [cache EXCEPT ![d][m.cafe] = Apply(@, m)]
    BY <1>5 DEF Acknowledge
  <2> HIDE DEF m
  <2>3. Accepts(cache[d][m.cafe], m) => Whole(Apply(cache[d][m.cafe], m))
    BY <2>1, ApplyWhole
  <2>4. \A e \in Devices, c \in Cafes : Whole(cache'[e][c])
    <3>1. CASE cache' = cache
      BY <3>1
    <3>2. CASE /\ Accepts(cache[d][m.cafe], m)
               /\ cache' = [cache EXCEPT ![d][m.cafe] = Apply(@, m)]
      <4>1. cache' = [cache EXCEPT ![d][m.cafe] = Apply(cache[d][m.cafe], m)]
        BY <2>1, <3>2 DEF TypeOK
      <4> QED
        BY <2>1, <2>3, <3>2, <4>1, CacheWhole
    <3> QED
      BY <2>2, <3>1, <3>2
  <2> QED
    BY <2>2, <2>4 DEF Whole
<1>6. ASSUME UNCHANGED vars
      PROVE  WholeInv'
  BY <1>1, <1>6 DEF vars
<1>7. ASSUME NEW d \in Devices, UserStep(d) \/ MainQueueStep(d) \/ EnvironmentStep(d)
      PROVE  UNCHANGED <<server, cache>>
  BY <1>7 DEF UserStep, TapInHome, TapInMyCollected, DidClickCollectButton, GetCafes, SignIn,
     SignOut, MainQueueStep, CheckReply, AddReply, Enqueue, AuthStateDidChange, EnvironmentStep,
     Disconnect, Reconnect, Relaunch, storeVars
<1> QED
  BY <1>1, <1>2, <1>3, <1>4, <1>5, <1>6, <1>7 DEF Next, FirestoreStep

LEMMA WholeShown ==
    ASSUME TypeOK, WholeInv
    PROVE  DocumentsParse
<1>1. \A d \in Devices, c \in Cafes : Whole(Known(d, c))
  BY DEF WholeInv, Known
<1>2. \A d \in Devices, c \in Cafes : Whole(Seen(d, c))
  BY <1>1, ViewWhole DEF Seen
<1> QED
  BY <1>2 DEF DocumentsParse, ServerDocumentsParse, WholeInv, Whole

(* getCafes never meets a document that is no cafe, whoever writes         *)
(* favourites, in whatever order, from however many devices, with users    *)
(* replaced, connections lost and apps relaunched at any moment.           *)
THEOREM DocumentsAlwaysParse == Spec => []DocumentsParse
<1>1. Init => WholeInv
  BY DEF Init, WholeInv, Whole
<1> QED
  BY <1>1, TypeCorrect, WholeStep, WholeShown, PTL DEF Spec

-----------------------------------------------------------------------------
(***************************************************************************)
(* On devices whose user changes at most once, no update is lost for want  *)
(* of its document and nobody is listed twice: for any number of devices,  *)
(* cafes and taps, documents that do not exist yet, connections that come  *)
(* and go and apps that are relaunched at any moment.                      *)
(***************************************************************************)
HasSet(q, c) == \E i \in DOMAIN q : q[i].cafe = c /\ q[i].op = "set"
Own(d) == pending[d][currentUser[d]]

(* The cafes of which there is a document on the server, in d's cache.     *)
Documented == {c \in Cafes : server[c] # NoDoc}
Cached(d) == {c \in Cafes : cache[d][c] # NoDoc}

(* The document of c is on the server, or known to d, or will be written   *)
(* by d before anything d writes from now on.                              *)
Safe(d, c) == server[c] # NoDoc \/ HasSet(Own(d), c)
Held(d, c) == cache[d][c] # NoDoc \/ HasSet(Own(d), c)
SafeFor(d) == {c \in Cafes : Safe(d, c)}
HeldBy(d) == {c \in Cafes : Held(d, c)}

(* Notifications of the last user: the first k of the queue are nothing    *)
(* but notifications, and once they are taken up Firestore works for the   *)
(* user there is.                                                          *)
CaughtUpAfter(d, k) ==
    LET q == mainQueue[d] IN
    /\ \A i \in 1 .. k : q[i].type = "auth"
    /\ \A i \in DOMAIN q : i > k /\ q[i].type = "auth" => q[i].uid = currentUser[d]
    /\ IF k = 0 THEN fsUser[d] = currentUser[d] ELSE q[k].uid = currentUser[d]

(* Before the sign-in nothing is asked and nothing written; after it only  *)
(* its user writes, and not before Firestore has taken the user up.        *)
UserInv(d) ==
    /\ switches[d] = 0 =>
           /\ currentUser[d] = NoUser /\ ~isLogin[d]
           /\ \A c \in Cafes : reads[d][c] = <<>>
           /\ \A i \in DOMAIN mainQueue[d] : mainQueue[d][i].type = "auth"
    /\ \A o \in Owners : switches[d] = 0 \/ o # currentUser[d] => pending[d][o] = <<>>
    /\ \E k \in 0 .. Len(mainQueue[d]) : CaughtUpAfter(d, k) /\ (k # 0 => Own(d) = <<>>)

CacheInv == \A d \in Devices, c \in Cafes : cache[d][c] # NoDoc => server[c] # NoDoc

(* A read keeps users only of a cafe whose document the device holds, so   *)
(* that its answer is not "absent"; where the answer is another one, the   *)
(* document is safe from then on.                                          *)
ReadIn(held, r) == r.base # NoCopies => r.cafe \in held
ReplyIn(held, safe, e) ==
    e.type = "reply" =>
        /\ ReadIn(held, e.read)
        /\ IF e.ans = "absent" THEN e.read.base = NoCopies ELSE e.read.cafe \in safe

GoodReads(held, c) == {r \in Read : r.cafe = c /\ ReadIn(held, r)}
GoodMessages(held, safe) == {e \in Messages : ReplyIn(held, safe, e)}
GoodWrites == {m \in Mutation : \A u \in Users : m.users[u] <= 1}

QueuesInv(d) ==
    /\ \A c \in Cafes : rows[d][c] # NoDoc => c \in HeldBy(d)
    /\ \A c \in Cafes : reads[d][c] \in Seq(GoodReads(HeldBy(d), c))
    /\ mainQueue[d] \in Seq(GoodMessages(HeldBy(d), SafeFor(d)))
    /\ \A o \in Owners : pending[d][o] \in Seq(GoodWrites)

(* Every update of q has its document, or a setData before it.             *)
Found(documented, q) ==
    \A i \in DOMAIN q :
        \/ q[i].op = "set"
        \/ q[i].cafe \in documented
        \/ \E j \in 1 .. i - 1 : q[j].cafe = q[i].cafe /\ q[j].op = "set"
FoundInv(d) == \A o \in Owners : Found(Documented, pending[d][o])

DeviceInv(d) == UserInv(d) /\ QueuesInv(d) /\ FoundInv(d)

-----------------------------------------------------------------------------
(***************************************************************************)
(* What a response says of the documents while it is on its way: a setData *)
(* is never rejected, the document of a write that was taken exists, and   *)
(* the client holds it when it was sent it.  A device without a connection *)
(* waits for no response.                                                  *)
(***************************************************************************)
Fits(documented, cached, r, m) ==
    /\ r = "rejected" => m.op # "set"
    /\ r # "rejected" => m.cafe \in documented
    /\ r = "seen" => m.cafe \in cached

ResponsesOf(d) ==
    /\ ~online[d] => results[d] = <<>>
    /\ \A i \in DOMAIN results[d] : Fits(Documented, Cached(d), results[d][i], Queue(d)[i])

ResultsInv == \A d \in Devices : ResponsesOf(d)

(* Documents do not go away, neither on the server nor on a device.        *)
DocumentsStay ==
    /\ \A c \in Cafes : server[c] # NoDoc => server'[c] # NoDoc
    /\ \A d \in Devices, c \in Cafes : cache[d][c] # NoDoc => cache'[d][c] # NoDoc

LEMMA SetsGrow ==
    ASSUME DocumentsStay, NEW d \in Devices
    PROVE  Documented \subseteq Documented' /\ Cached(d) \subseteq Cached(d)'
BY DEF DocumentsStay, Documented, Cached

LEMMA ResponsesStay ==
    ASSUME DocumentsStay, NEW d \in Devices, ResponsesOf(d), results'[d] = results[d],
           \A i \in DOMAIN results[d] : Queue(d)'[i] = Queue(d)[i],
           online[d] => online'[d]
    PROVE  ResponsesOf(d)'
BY SetsGrow DEF ResponsesOf, Fits

LEMMA ResponsesGone ==
    ASSUME TypeOK, NEW d \in Devices, EndStream(d)
    PROVE  ResponsesOf(d)'
<1>1. results'[d] = <<>>
  BY DEF EndStream, TypeOK
<1> QED
  BY <1>1 DEF ResponsesOf

LEMMA NoticeFits ==
    ASSUME TypeOK, CacheInv, NEW d \in Devices, ResponsesOf(d), NEW C \in SUBSET Cafes,
           Notice(d, C), UNCHANGED <<server, pending, fsUser, online>>,
           \A c \in C : cache'[d][c] = Known(d, c),
           \A c \in Cafes \ C : cache'[d][c] = cache[d][c]
    PROVE  ResponsesOf(d)'
<1>1. results'[d] = [i \in 1 .. Len(results[d]) |->
          IF results[d][i] = "taken" /\ pending[d][fsUser[d]][i].cafe \in C
          THEN "seen" ELSE results[d][i]]
  BY DEF Notice, TypeOK
<1>2. DOMAIN results[d] = 1 .. Len(results[d]) /\ DOMAIN results'[d] = 1 .. Len(results[d])
  BY <1>1 DEF TypeOK
<1>3. ASSUME NEW i \in 1 .. Len(results[d])
      PROVE  Fits(Documented', Cached(d)', results'[d][i], Queue(d)'[i])
  <2> DEFINE m == Queue(d)[i]
  <2>1. Queue(d)'[i] = m
    BY DEF Queue
  <2>2. Fits(Documented, Cached(d), results[d][i], m)
    BY <1>2, <1>3 DEF ResponsesOf
  <2>3. online[d]
    BY <1>2, <1>3 DEF ResponsesOf
  <2>4. /\ Documented' = Documented
        /\ Cached(d) \subseteq Cached(d)'
        /\ \A c \in C : c \in Documented => c \in Cached(d)'
    BY <2>3 DEF CacheInv, Known, Documented, Cached
  <2>5. results'[d][i] = IF results[d][i] = "taken" /\ m.cafe \in C THEN "seen" ELSE results[d][i]
    BY <1>1, <1>3 DEF Queue
  <2> HIDE DEF m
  <2> QED
    BY <2>1, <2>2, <2>4, <2>5 DEF Fits
<1>4. ~online[d] => results'[d] = <<>>
  <2> SUFFICES ASSUME ~online[d] PROVE results'[d] = <<>>
    OBVIOUS
  <2>1. Len(results[d]) = 0
    BY DEF ResponsesOf
  <2> QED
    BY <1>1, <2>1
<1> QED
  BY <1>2, <1>3, <1>4 DEF ResponsesOf

LEMMA CommitAnswers ==
    ASSUME TypeOK, CacheInv, NEW d \in Devices, ResponsesOf(d), Commit(d)
    PROVE  DocumentsStay /\ CacheInv' /\ ResponsesOf(d)'
<1> DEFINE m == Queue(d)[Len(results[d]) + 1]
           new == ServerApply(server[m.cafe], m)
<1>1. /\ m \in Mutation /\ m.cafe \in Cafes /\ server[m.cafe] \in Document \cup {NoDoc}
      /\ new # NoDoc
  <2>1. m \in Mutation /\ m.cafe \in Cafes /\ server[m.cafe] \in Document \cup {NoDoc}
    BY SentWrite DEF Commit
  <2> HIDE DEF m
  <2> QED
    BY <2>1, ServerApplyType, NoDocAssumption
<1>2. /\ UNCHANGED <<cache, pending, fsUser, online>> /\ online[d]
      /\ \/ /\ Accepts(server[m.cafe], m)
            /\ server' = [server EXCEPT ![m.cafe] = new]
            /\ results' = [results EXCEPT ![d] = Append(@, "taken")]
         \/ /\ ~Accepts(server[m.cafe], m)
            /\ server' = server
            /\ results' = [results EXCEPT ![d] = Append(@, "rejected")]
  BY DEF Commit, authVars
<1> HIDE DEF new
<1>3. DocumentsStay
  BY <1>1, <1>2 DEF DocumentsStay, TypeOK
<1>4. CacheInv'
  BY <1>2, <1>3 DEF CacheInv, DocumentsStay
<1>5. PICK r \in {"taken", "rejected"} :
          /\ results'[d] = Append(results[d], r)
          /\ r = "taken" => server'[m.cafe] # NoDoc
          /\ r = "rejected" => m.op # "set"
  BY <1>1, <1>2 DEF TypeOK, Accepts
<1>6. /\ results[d] \in Seq(Result) /\ Len(results[d]) \in Nat
      /\ DOMAIN results'[d] = 1 .. Len(results[d]) + 1
      /\ \A i \in 1 .. Len(results[d]) : results'[d][i] = results[d][i]
      /\ results'[d][Len(results[d]) + 1] = r
  BY <1>5 DEF TypeOK, Result
<1>7. Queue(d)' = Queue(d) /\ Queue(d) \in Seq(Mutation)
  BY <1>2 DEF Queue, TypeOK
<1>8. Documented \subseteq Documented' /\ Cached(d) \subseteq Cached(d)'
  BY <1>3, SetsGrow
<1>9. ASSUME NEW i \in DOMAIN results'[d]
      PROVE  Fits(Documented', Cached(d)', results'[d][i], Queue(d)'[i])
  <2>1. CASE i \in 1 .. Len(results[d])
    <3>1. Fits(Documented, Cached(d), results[d][i], Queue(d)[i])
      BY <1>6, <2>1 DEF ResponsesOf
    <3> QED
      BY <1>6, <1>7, <1>8, <2>1, <3>1 DEF Fits
  <2>2. CASE i = Len(results[d]) + 1
    <3>1. results'[d][i] = r /\ Queue(d)'[i] = m
      BY <1>6, <1>7, <2>2
    <3>2. r = "taken" => m.cafe \in Documented'
      BY <1>1, <1>5 DEF Documented
    <3> QED
      BY <1>5, <3>1, <3>2 DEF Fits
  <2> QED
    BY <1>6, <1>9, <2>1, <2>2
<1> QED
  BY <1>2, <1>3, <1>4, <1>9 DEF ResponsesOf

LEMMA AcknowledgeAnswers ==
    ASSUME TypeOK, CacheInv, NEW d \in Devices, ResponsesOf(d), Acknowledge(d)
    PROVE  /\ DocumentsStay /\ CacheInv' /\ ResponsesOf(d)'
           /\ Head(Queue(d)).op = "set" =>
                  server[Head(Queue(d)).cafe] # NoDoc /\ cache'[d][Head(Queue(d)).cafe] # NoDoc
<1> DEFINE m == Head(Queue(d))
           known == Apply(cache[d][m.cafe], m)
<1>1. /\ Queue(d) \in Seq(Mutation) /\ Queue(d) # <<>> /\ fsUser[d] \in Owners
      /\ m \in Mutation /\ m.cafe \in Cafes
      /\ cache[d][m.cafe] \in Document \cup {NoDoc}
      /\ results[d] \in Seq(Result) /\ results[d] # <<>>
      /\ known # NoDoc
  <2>1. results[d] # <<>>
    BY DEF Acknowledge
  <2> HIDE DEF m
  <2>2. /\ Queue(d) \in Seq(Mutation) /\ Queue(d) # <<>> /\ fsUser[d] \in Owners
        /\ m \in Mutation /\ m.cafe \in Cafes
        /\ cache[d][m.cafe] \in Document \cup {NoDoc}
        /\ results[d] \in Seq(Result)
    BY <2>1, AnsweredWrite DEF m
  <2> QED
    BY <2>1, <2>2, ApplyType, NoDocAssumption
<1>2. /\ UNCHANGED <<server, fsUser, online>>
      /\ \/ /\ Head(results[d]) = "taken" /\ Accepts(cache[d][m.cafe], m)
            /\ cache' = [cache EXCEPT ![d][m.cafe] = known]
         \/ /\ ~(Head(results[d]) = "taken" /\ Accepts(cache[d][m.cafe], m))
            /\ cache' = cache
      /\ pending' = [pending EXCEPT ![d][fsUser[d]] = Tail(Queue(d))]
      /\ results' = [results EXCEPT ![d] = Tail(results[d])]
  BY DEF Acknowledge, authVars, Queue, TypeOK
<1>3. 1 \in DOMAIN results[d] /\ Head(results[d]) = results[d][1] /\ m = Queue(d)[1]
  BY <1>1
<1>4. Fits(Documented, Cached(d), Head(results[d]), m)
  BY <1>3 DEF ResponsesOf
<1> HIDE DEF known, m
<1>5. /\ \A e \in Devices, c \in Cafes :
              cache'[e][c] = IF /\ e = d /\ c = m.cafe /\ Head(results[d]) = "taken"
                                /\ Accepts(cache[d][m.cafe], m)
                             THEN known ELSE cache[e][c]
      /\ DocumentsStay
  <2>1. cache \in [Devices -> [Cafes -> Document \cup {NoDoc}]]
    BY DEF TypeOK
  <2>2. \A e \in Devices, c \in Cafes :
              cache'[e][c] = IF /\ e = d /\ c = m.cafe /\ Head(results[d]) = "taken"
                                /\ Accepts(cache[d][m.cafe], m)
                             THEN known ELSE cache[e][c]
    BY <1>1, <1>2, <2>1
  <2> QED
    BY <1>1, <1>2, <2>2 DEF DocumentsStay
<1>6. CacheInv'
  <2>1. ASSUME NEW e \in Devices, NEW c \in Cafes, cache'[e][c] # NoDoc
        PROVE  server'[c] # NoDoc
    <3>1. CASE cache'[e][c] = cache[e][c]
      BY <1>2, <2>1, <3>1 DEF CacheInv
    <3>2. CASE cache'[e][c] # cache[e][c]
      <4>1. c = m.cafe /\ Head(results[d]) = "taken"
        BY <1>5, <3>2
      <4> QED
        BY <1>2, <1>4, <4>1 DEF Fits, Documented
    <3> QED
      BY <3>1, <3>2
  <2> QED
    BY <2>1 DEF CacheInv
<1>7. Queue(d)' = Tail(Queue(d)) /\ results'[d] = Tail(results[d])
  BY <1>1, <1>2 DEF Queue, TypeOK
<1>8. ASSUME NEW i \in DOMAIN results'[d]
      PROVE  Fits(Documented', Cached(d)', results'[d][i], Queue(d)'[i])
  <2>1. /\ i + 1 \in DOMAIN results[d]
        /\ results'[d][i] = results[d][i + 1]
        /\ i \in 1 .. Len(results[d]) - 1 /\ Len(results[d]) \in Nat
    BY <1>1, <1>7, <1>8
  <2>2. i \in 1 .. Len(Queue(d)) - 1
    <3>1. Len(results[d]) <= Len(Queue(d)) /\ Len(Queue(d)) \in Nat
      BY <1>1 DEF TypeOK, Queue
    <3> QED
      BY <2>1, <3>1
  <2>3. Queue(d)'[i] = Queue(d)[i + 1]
    BY <1>1, <1>7, <2>2
  <2>4. Fits(Documented, Cached(d), results[d][i + 1], Queue(d)[i + 1])
    BY <2>1 DEF ResponsesOf
  <2>5. Documented \subseteq Documented' /\ Cached(d) \subseteq Cached(d)'
    BY <1>5, SetsGrow
  <2> QED
    BY <2>1, <2>3, <2>4, <2>5 DEF Fits
<1>9. ~online'[d] => results'[d] = <<>>
  BY <1>1, <1>2 DEF ResponsesOf
<1>10. ASSUME m.op = "set"
       PROVE  server[m.cafe] # NoDoc /\ cache'[d][m.cafe] # NoDoc
  <2>1. Head(results[d]) \in {"taken", "seen"} /\ server[m.cafe] # NoDoc
    <3>1. Head(results[d]) \in Result
      BY <1>1
    <3> QED
      BY <1>4, <1>10, <3>1 DEF Fits, Result, Documented
  <2>2. Accepts(cache[d][m.cafe], m)
    BY <1>10 DEF Accepts
  <2>3. CASE Head(results[d]) = "taken"
    BY <1>1, <1>5, <2>1, <2>2, <2>3
  <2>4. CASE Head(results[d]) = "seen"
    BY <1>1, <1>4, <1>5, <2>1, <2>4 DEF Fits, Cached, DocumentsStay
  <2> QED
    BY <2>1, <2>3, <2>4
<1> QED
  BY <1>5, <1>6, <1>7, <1>8, <1>9, <1>10 DEF ResponsesOf, m

(* A step of one device leaves what another holds alone.                   *)
OfClient(d) == <<cache[d], pending[d], results[d], online[d], fsUser[d]>>

LEMMA OthersSameClient ==
    ASSUME TypeOK, NEW d \in Devices, NEW e \in Devices, d # e,
           UserStep(d) \/ MainQueueStep(d) \/ FirestoreStep(d) \/ EnvironmentStep(d)
    PROVE  UNCHANGED OfClient(e)
<1> USE DEF TypeOK, OfClient, storeVars, authVars, listVars
<1>1. CASE UserStep(d)
  BY <1>1 DEF UserStep, TapInHome, TapInMyCollected, DidClickCollectButton, GetCafes, SignIn,
     SignOut
<1>2. CASE MainQueueStep(d)
  <2>1. CASE CheckReply(d)
    <3> DEFINE m == [op |-> "remove", cafe |-> Head(mainQueue[d]).read.cafe,
                     uid |-> currentUser[d], users |-> NoCopies]
    <3>1. /\ pending' = pending \/ pending' = [pending EXCEPT ![d][fsUser[d]] = Append(@, m)]
          /\ UNCHANGED <<cache, results, online, fsUser>>
      BY <2>1 DEF CheckReply, Enqueue
    <3> HIDE DEF m
    <3> QED
      BY <3>1
  <2>2. CASE AddReply(d)
    <3> DEFINE m == AddWrite(Head(mainQueue[d]))
    <3>1. /\ pending' = [pending EXCEPT ![d][fsUser[d]] = Append(@, m)]
          /\ UNCHANGED <<cache, results, online, fsUser>>
      BY <2>2 DEF AddReply, Enqueue
    <3> HIDE DEF m
    <3> QED
      BY <3>1
  <2>3. CASE AuthStateDidChange(d)
    BY <2>3 DEF AuthStateDidChange, EndStream
  <2> QED
    BY <1>2, <2>1, <2>2, <2>3 DEF MainQueueStep
<1>3. CASE FirestoreStep(d)
  BY <1>3 DEF FirestoreStep, AnswerReads, CafeCellRead, GetCafesReply, Notice, Commit, Acknowledge
<1>4. CASE EnvironmentStep(d)
  BY <1>4 DEF EnvironmentStep, Disconnect, Reconnect, Relaunch, EndStream
<1> QED
  BY <1>1, <1>2, <1>3, <1>4

(* What one step on a device means for it.                                 *)
LEMMA ResponsesStep ==
    ASSUME TypeOK, CacheInv, NEW d \in Devices, ResponsesOf(d),
           UserStep(d) \/ MainQueueStep(d) \/ FirestoreStep(d) \/ EnvironmentStep(d)
    PROVE  DocumentsStay /\ CacheInv' /\ ResponsesOf(d)'
<1>1. ASSUME UNCHANGED <<server, cache>>
      PROVE  DocumentsStay /\ CacheInv'
  BY <1>1 DEF DocumentsStay, CacheInv
<1>2. CASE UserStep(d) \/ Reconnect(d)
  <2>1. UNCHANGED <<server, cache, pending, results, fsUser>> /\ (online[d] => online'[d])
    BY <1>2 DEF UserStep, TapInHome, TapInMyCollected, DidClickCollectButton, GetCafes, SignIn,
       SignOut, Reconnect, storeVars, authVars, TypeOK
  <2>2. \A i \in DOMAIN results[d] : Queue(d)'[i] = Queue(d)[i]
    BY <2>1 DEF Queue
  <2> QED
    BY <1>1, <2>1, <2>2, ResponsesStay
<1>3. CASE CheckReply(d) \/ AddReply(d)
  <2>1. /\ UNCHANGED <<server, cache, results, fsUser, online>>
        /\ pending' = pending \/ \E m : Enqueue(d, m)
    BY <1>3 DEF CheckReply, AddReply, authVars
  <2>2. Queue(d)' = Queue(d) \/ \E m : Queue(d)' = Append(Queue(d), m)
    <3>1. ASSUME NEW m, Enqueue(d, m)
          PROVE  Queue(d)' = Append(Queue(d), m)
      BY <2>1, <3>1 DEF Queue, Enqueue, TypeOK
    <3>2. CASE pending' = pending
      BY <2>1, <3>2 DEF Queue
    <3> QED
      BY <2>1, <3>1, <3>2
  <2>3. ASSUME NEW i \in DOMAIN results[d]
        PROVE  Queue(d)'[i] = Queue(d)[i]
    <3>1. i \in 1 .. Len(Queue(d)) /\ Queue(d) \in Seq(Mutation)
      BY <2>3 DEF TypeOK, Queue
    <3> QED
      BY <2>2, <3>1
  <2> QED
    BY <1>1, <2>1, <2>3, ResponsesStay
<1>4. CASE AuthStateDidChange(d) \/ Disconnect(d) \/ Relaunch(d)
  <2>1. UNCHANGED <<server, cache>> /\ EndStream(d)
    BY <1>4 DEF AuthStateDidChange, Disconnect, Relaunch
  <2> QED
    BY <1>1, <2>1, ResponsesGone
<1>5. CASE (\E c \in Cafes : AnswerReads(d, c) \/ CafeCellRead(d, c)) \/ GetCafesReply(d)
  <2>1. PICK C \in SUBSET Cafes :
            /\ Notice(d, C)
            /\ UNCHANGED <<server, pending, fsUser, online>>
            /\ \A c \in C : cache'[d][c] = Known(d, c)
            /\ \A c \in Cafes \ C : cache'[d][c] = cache[d][c]
            /\ \A e \in Devices : e # d => cache'[e] = cache[e]
    <3>1. ASSUME NEW c \in Cafes, AnswerReads(d, c) \/ CafeCellRead(d, c)
          PROVE  /\ Notice(d, {c})
                 /\ UNCHANGED <<server, pending, fsUser, online>>
                 /\ \A b \in {c} : cache'[d][b] = Known(d, b)
                 /\ \A b \in Cafes \ {c} : cache'[d][b] = cache[d][b]
                 /\ \A e \in Devices : e # d => cache'[e] = cache[e]
      BY <3>1 DEF AnswerReads, CafeCellRead, authVars, Known, TypeOK
    <3>2. CASE GetCafesReply(d)
      <4>1. /\ Notice(d, Cafes)
            /\ UNCHANGED <<server, pending, fsUser, online>>
            /\ cache' = [cache EXCEPT ![d] = [c \in Cafes |-> Known(d, c)]]
        BY <3>2 DEF GetCafesReply, authVars
      <4>2. /\ \A c \in Cafes : cache'[d][c] = Known(d, c)
            /\ \A e \in Devices : e # d => cache'[e] = cache[e]
        BY <4>1 DEF TypeOK
      <4>3. Cafes \in SUBSET Cafes /\ Cafes \ Cafes = {}
        OBVIOUS
      <4> QED
        BY <4>1, <4>2, <4>3
    <3>3. \A c \in Cafes : {c} \in SUBSET Cafes
      OBVIOUS
    <3>4. CASE \E c \in Cafes : AnswerReads(d, c) \/ CafeCellRead(d, c)
      <4>1. PICK c \in Cafes : AnswerReads(d, c) \/ CafeCellRead(d, c)
        BY <3>4
      <4> QED
        BY <3>1, <3>3, <4>1
    <3> QED
      BY <1>5, <3>2, <3>4
  <2>2. ResponsesOf(d)'
    BY <2>1, NoticeFits
  <2>3. \A e \in Devices, c \in Cafes : cache'[e][c] \in {cache[e][c], Known(e, c)}
    BY <2>1
  <2>4. DocumentsStay /\ CacheInv'
    BY <2>1, <2>3 DEF DocumentsStay, CacheInv, Known
  <2> QED
    BY <2>2, <2>4
<1>6. CASE Commit(d)
  BY <1>6, CommitAnswers
<1>7. CASE Acknowledge(d)
  BY <1>7, AcknowledgeAnswers
<1> QED
  BY <1>2, <1>3, <1>4, <1>5, <1>6, <1>7 DEF MainQueueStep, FirestoreStep, EnvironmentStep

LEMMA ResultsStep ==
    ASSUME TypeOK, CacheInv /\ ResultsInv, [Next]_vars
    PROVE  (CacheInv /\ ResultsInv)'
<1>1. CASE UNCHANGED vars
  BY <1>1 DEF vars, CacheInv, ResultsInv, ResponsesOf, Documented, Cached, Queue
<1>2. ASSUME NEW d \in Devices,
             UserStep(d) \/ MainQueueStep(d) \/ FirestoreStep(d) \/ EnvironmentStep(d)
      PROVE  (CacheInv /\ ResultsInv)'
  <2>1. DocumentsStay /\ CacheInv' /\ ResponsesOf(d)'
    BY <1>2, ResponsesStep DEF ResultsInv
  <2>2. ASSUME NEW e \in Devices, d # e
        PROVE  ResponsesOf(e)'
    <3>1. UNCHANGED OfClient(e)
      BY <1>2, <2>2, OthersSameClient
    <3>2. results'[e] = results[e] /\ Queue(e)' = Queue(e) /\ online'[e] = online[e]
      BY <3>1 DEF OfClient, Queue
    <3> QED
      BY <2>1, <3>2, ResponsesStay DEF ResultsInv
  <2> QED
    BY <2>1, <2>2 DEF ResultsInv
<1> QED
  BY <1>1, <1>2 DEF Next

(* All of it.                                                              *)
UpdatesInv ==
    CacheInv /\ ResultsInv /\ NoDuplicates /\ \A d \in Devices : DeviceInv(d)

-----------------------------------------------------------------------------
(***************************************************************************)
(* Queues of writes.                                                       *)
(***************************************************************************)
LEMMA HasSetAppend ==
    ASSUME NEW q \in Seq(Mutation), NEW m \in Mutation, NEW c
    PROVE  HasSet(q, c) => HasSet(Append(q, m), c)
<1>1. \A i \in DOMAIN q : i \in DOMAIN Append(q, m) /\ Append(q, m)[i] = q[i]
    OBVIOUS
<1> QED
    BY <1>1 DEF HasSet

LEMMA HasSetTail ==
    ASSUME NEW q \in Seq(Mutation), q # <<>>, NEW c, HasSet(q, c)
    PROVE  HasSet(Tail(q), c) \/ (Head(q).cafe = c /\ Head(q).op = "set")
<1>1. PICK i \in DOMAIN q : q[i].cafe = c /\ q[i].op = "set"
    BY DEF HasSet
<1>2. CASE i = 1
    BY <1>1, <1>2
<1>3. CASE i # 1
    <2>1. i - 1 \in DOMAIN Tail(q) /\ Tail(q)[i - 1] = q[i]
        BY <1>1, <1>3
    <2> QED
        BY <1>1, <2>1 DEF HasSet
<1> QED
    BY <1>2, <1>3

LEMMA EmptyHasNoSet == \A c : ~HasSet(<<>>, c)
    BY DEF HasSet

(* What a device sees of a document comes from below its writes or from    *)
(* one of them; and where there is something it is seen.                   *)
LEMMA SeenFrom ==
    ASSUME NEW base, NEW q, NEW c, View(base, q, c) # NoDoc
    PROVE  base # NoDoc \/ HasSet(q, c)
BY DEF View, HasSet

LEMMA SetIsSeen ==
    ASSUME NEW base, NEW q \in Seq(Mutation), NEW c \in Cafes, HasSet(q, c)
    PROVE  View(base, q, c) # NoDoc
<1> DEFINE doc == [whole |-> TRUE, users |-> NoCopies]
           on    == {i \in DOMAIN q : q[i].cafe = c}
           sets  == {i \in on : q[i].op = "set"}
           last  == IF sets = {} THEN 0 ELSE CHOOSE i \in sets : \A j \in sets : j <= i
           start(b) == IF sets = {} THEN b ELSE [whole |-> TRUE, users |-> q[last].users]
           after(b) == [whole |-> start(b).whole,
                        users |-> [u \in Users |->
                           Replay(start(b).users[u], {i \in on : i > last /\ q[i].uid = u}, q)]]
<1>1. doc # NoDoc /\ doc \in Document
    <2>1. doc \in Document
        BY DEF Document, Copies, NoCopies
    <2> HIDE DEF doc
    <2> QED
        BY <2>1, NoDocAssumption
<1>2. sets # {}
    BY DEF HasSet
<1>3. \A b : View(b, q, c) = IF start(b) = NoDoc THEN NoDoc ELSE after(b)
    BY DEF View
<1>4. start(base) = start(doc)
    <2> HIDE DEF sets, last, doc
    <2> QED
        BY <1>2
<1>5. after(base) = after(doc)
    <2> HIDE DEF start, on, last, doc
    <2> QED
        BY <1>4
<1>6. View(base, q, c) = View(doc, q, c)
    <2> HIDE DEF start, after, doc
    <2> QED
        BY <1>3, <1>4, <1>5
<1> HIDE DEF doc
<1> QED
    BY <1>1, <1>6, ViewType

(* Firestore works for the user there is when a write waits or an answer   *)
(* is next.                                                                *)
LEMMA WorksForUser ==
    ASSUME TypeOK, NEW d \in Devices, UserInv(d)
    PROVE  /\ pending[d][fsUser[d]] # <<>> => fsUser[d] = currentUser[d] /\ switches[d] # 0
           /\ Own(d) # <<>> => fsUser[d] = currentUser[d]
           /\ mainQueue[d] # <<>> /\ Head(mainQueue[d]).type = "reply" =>
                  fsUser[d] = currentUser[d] /\ switches[d] # 0 /\ CaughtUpAfter(d, 0)
<1>1. PICK k \in 0 .. Len(mainQueue[d]) : CaughtUpAfter(d, k) /\ (k # 0 => Own(d) = <<>>)
    BY DEF UserInv
<1>2. k = 0 => fsUser[d] = currentUser[d]
    BY <1>1 DEF CaughtUpAfter
<1>3. pending[d][fsUser[d]] # <<>> => fsUser[d] = currentUser[d] /\ switches[d] # 0
    BY DEF UserInv, TypeOK
<1>4. ASSUME mainQueue[d] # <<>>, Head(mainQueue[d]).type = "reply"
      PROVE  k = 0 /\ switches[d] # 0
    <2>1. mainQueue[d][1].type # "auth" /\ 1 \in DOMAIN mainQueue[d]
        BY <1>4 DEF TypeOK
    <2> QED
        BY <1>1, <2>1 DEF CaughtUpAfter, UserInv
<1> QED
    BY <1>1, <1>2, <1>3, <1>4

LEMMA HeldIsSeen ==
    ASSUME TypeOK, CacheInv, NEW d \in Devices, NEW c \in Cafes, UserInv(d), Held(d, c)
    PROVE  Seen(d, c) # NoDoc
<1>1. CASE cache[d][c] # NoDoc
    <2>1. Known(d, c) # NoDoc
        BY <1>1 DEF Known, CacheInv
    <2> QED
        BY <2>1, SeenType, ViewType DEF Seen
<1>2. CASE HasSet(Own(d), c)
    <2>1. Own(d) = pending[d][fsUser[d]]
        BY <1>2, EmptyHasNoSet, WorksForUser DEF Own
    <2> QED
        BY <1>2, <2>1, SeenType, SetIsSeen DEF Seen
<1> QED
    BY <1>1, <1>2 DEF Held

LEMMA SeenIsHeld ==
    ASSUME TypeOK, CacheInv, NEW d \in Devices, NEW c \in Cafes, UserInv(d), Seen(d, c) # NoDoc
    PROVE  /\ Safe(d, c)
           /\ Known(d, c) # NoDoc \/ HasSet(Own(d), c)
<1>1. Known(d, c) # NoDoc \/ HasSet(pending[d][fsUser[d]], c)
    BY SeenFrom DEF Seen
<1>2. Known(d, c) # NoDoc => server[c] # NoDoc
    BY DEF Known, CacheInv
<1>3. HasSet(pending[d][fsUser[d]], c) => HasSet(Own(d), c)
    BY EmptyHasNoSet, WorksForUser DEF Own
<1> QED
    BY <1>1, <1>2, <1>3 DEF Safe

-----------------------------------------------------------------------------
(***************************************************************************)
(* What is held or safe stays so: through each kind of step that changes a *)
(* document, a cache, a queue of writes or a user.                         *)
(***************************************************************************)
Keeps ==
    /\ CacheInv'
    /\ \A c \in Cafes : server[c] # NoDoc => server'[c] # NoDoc
    /\ \A d \in Devices, c \in Cafes : (Held(d, c) => Held(d, c)') /\ (Safe(d, c) => Safe(d, c)')

LEMMA SameKeeps ==
    ASSUME CacheInv, UNCHANGED <<server, cache, pending, currentUser>>
    PROVE  Keeps
BY DEF CacheInv, Keeps, Held, Safe, Own, HasSet

LEMMA LearnKeeps ==
    ASSUME CacheInv, UNCHANGED <<server, pending, currentUser>>,
           \A d \in Devices, c \in Cafes : cache'[d][c] \in {cache[d][c], Known(d, c)}
    PROVE  Keeps
<1>1. \A d \in Devices, c \in Cafes :
          /\ cache'[d][c] # NoDoc => server[c] # NoDoc
          /\ cache[d][c] # NoDoc => cache'[d][c] # NoDoc
    BY DEF CacheInv, Known
<1>2. \A d \in Devices : Own(d)' = Own(d)
    BY DEF Own
<1> QED
    BY <1>1, <1>2 DEF CacheInv, Keeps, Held, Safe

LEMMA WriteKeeps ==
    ASSUME TypeOK, CacheInv, NEW d \in Devices, NEW m \in Mutation, Enqueue(d, m),
           UNCHANGED <<server, cache, currentUser>>
    PROVE  Keeps
<1>1. ASSUME NEW e \in Devices, NEW c \in Cafes, HasSet(Own(e), c) PROVE HasSet(Own(e)', c)
    <2>1. Own(e) \in Seq(Mutation)
        BY DEF Own, TypeOK
    <2>2. Own(e)' \in {Own(e), Append(Own(e), m)}
        BY DEF Own, Enqueue, TypeOK
    <2> QED
        BY <1>1, <2>1, <2>2, HasSetAppend
<1>2. \A e \in Devices, c \in Cafes : HasSet(Own(e), c) => HasSet(Own(e), c)'
    BY <1>1 DEF HasSet
<1> QED
    BY <1>2 DEF CacheInv, Keeps, Held, Safe

LEMMA CommitKeeps ==
    ASSUME DocumentsStay, CacheInv', UNCHANGED <<pending, currentUser>>
    PROVE  Keeps
<1>1. \A d \in Devices : Own(d)' = Own(d)
    BY DEF Own
<1> QED
    BY <1>1 DEF DocumentsStay, Keeps, Held, Safe

(* The write a response that arrives is for.                               *)
LEMMA AcknowledgeFacts ==
    ASSUME TypeOK, NEW d \in Devices, UserInv(d), Acknowledge(d)
    PROVE  LET m == Head(Own(d)) IN
           /\ fsUser[d] = currentUser[d] /\ switches[d] # 0 /\ currentUser[d] \in Owners
           /\ Own(d) = Queue(d) /\ Own(d) \in Seq(Mutation) /\ Own(d) # <<>>
           /\ m \in Mutation /\ m.cafe \in Cafes
           /\ pending' = [pending EXCEPT ![d][currentUser[d]] = Tail(Own(d))]
           /\ UNCHANGED <<server, switches, currentUser, fsUser, mainQueue, reads, rows>>
<1>1. results[d] # <<>>
    BY DEF Acknowledge
<1>2. Queue(d) \in Seq(Mutation) /\ Queue(d) # <<>> /\ Head(Queue(d)) \in Mutation
    BY <1>1, AnsweredWrite
<1>3. fsUser[d] = currentUser[d] /\ switches[d] # 0
    BY <1>2, WorksForUser DEF Queue
<1>4. Own(d) = Queue(d) /\ currentUser[d] \in Owners
    BY <1>3 DEF Own, Queue, TypeOK
<1>5. pending' = [pending EXCEPT ![d][currentUser[d]] = Tail(Own(d))]
    BY <1>3, <1>4 DEF Acknowledge, Own
<1>6. UNCHANGED <<server, switches, currentUser, fsUser, mainQueue, reads, rows>>
    BY DEF Acknowledge, authVars, listVars
<1> QED
    BY <1>2, <1>3, <1>4, <1>5, <1>6 DEF Mutation

LEMMA AcknowledgeKeeps ==
    ASSUME TypeOK, CacheInv, NEW d \in Devices, UserInv(d), ResponsesOf(d), Acknowledge(d)
    PROVE  Keeps
<1> DEFINE m == Head(Own(d))
<1>1. /\ Own(d) \in Seq(Mutation) /\ Own(d) # <<>> /\ Own(d) = Queue(d)
      /\ currentUser[d] \in Owners
      /\ pending' = [pending EXCEPT ![d][currentUser[d]] = Tail(Own(d))]
      /\ currentUser' = currentUser /\ server' = server
    BY AcknowledgeFacts
<1>2. DocumentsStay /\ CacheInv'
    BY AcknowledgeAnswers
<1>3. m.op = "set" => server'[m.cafe] # NoDoc /\ cache'[d][m.cafe] # NoDoc
    BY <1>1, AcknowledgeAnswers
<1>4. Own(d)' = Tail(Own(d)) /\ \A e \in Devices : e # d => Own(e)' = Own(e)
    BY <1>1 DEF Own, TypeOK
<1>5. ASSUME NEW c \in Cafes, HasSet(Own(d), c)
      PROVE  HasSet(Own(d)', c) \/ (server'[c] # NoDoc /\ cache'[d][c] # NoDoc)
    BY <1>1, <1>3, <1>4, <1>5, HasSetTail
<1>6. \A e \in Devices, c \in Cafes :
          HasSet(Own(e), c) =>
              HasSet(Own(e)', c) \/ (server'[c] # NoDoc /\ cache'[e][c] # NoDoc)
    BY <1>4, <1>5
<1>7. \A e \in Devices, c \in Cafes :
          /\ Held(e, c)' <=> cache'[e][c] # NoDoc \/ HasSet(Own(e)', c)
          /\ Safe(e, c)' <=> server'[c] # NoDoc \/ HasSet(Own(e)', c)
    BY DEF Held, Safe, HasSet
<1> QED
    BY <1>2, <1>6, <1>7 DEF DocumentsStay, Keeps, Held, Safe

LEMMA SignInKeeps ==
    ASSUME TypeOK, CacheInv, NEW d \in Devices, NEW u \in Users, UserInv(d), switches[d] = 0,
           currentUser' = [currentUser EXCEPT ![d] = u], UNCHANGED <<server, cache, pending>>
    PROVE  Keeps
<1>1. currentUser[d] \in Owners /\ Own(d) = <<>>
    BY DEF UserInv, Own, TypeOK
<1>2. \A c \in Cafes : ~HasSet(Own(d), c)
    BY <1>1, EmptyHasNoSet
<1>3. \A e \in Devices : e # d => Own(e)' = Own(e)
    BY DEF Own, TypeOK
<1>4. \A e \in Devices, c \in Cafes : HasSet(Own(e), c) => HasSet(Own(e)', c)
    BY <1>2, <1>3
<1>5. \A e \in Devices, c \in Cafes :
          /\ Held(e, c)' <=> cache[e][c] # NoDoc \/ HasSet(Own(e)', c)
          /\ Safe(e, c)' <=> server[c] # NoDoc \/ HasSet(Own(e)', c)
    BY DEF Held, Safe, HasSet
<1> QED
    BY <1>4, <1>5 DEF CacheInv, Keeps, Held, Safe

-----------------------------------------------------------------------------
(***************************************************************************)
(* The user.                                                               *)
(***************************************************************************)

(* What UserInv says of a device is about these.                           *)
OfUser(d) == <<switches[d], currentUser[d], isLogin[d], reads[d], mainQueue[d], pending[d],
               fsUser[d]>>

LEMMA SameUser ==
    ASSUME NEW d \in Devices, UserInv(d), OfUser(d)' = OfUser(d)
    PROVE  UserInv(d)'
BY DEF UserInv, CaughtUpAfter, OfUser, Own

Step(d) == UserStep(d) \/ MainQueueStep(d) \/ FirestoreStep(d) \/ EnvironmentStep(d)

LEMMA OthersSameUser ==
    ASSUME TypeOK, NEW d \in Devices, NEW e \in Devices, e # d, Step(d)
    PROVE  OfUser(e)' = OfUser(e) /\ rows'[e] = rows[e]
<1> USE DEF TypeOK, OfUser, storeVars, authVars, listVars
<1>1. CASE UserStep(d)
    <2>1. ASSUME NEW c \in Cafes, NEW base, DidClickCollectButton(d, c, base)
          PROVE  OfUser(e)' = OfUser(e) /\ rows'[e] = rows[e]
        BY <2>1 DEF DidClickCollectButton
    <2>2. CASE GetCafes(d)
        BY <2>2 DEF GetCafes
    <2>3. ASSUME NEW u \in Users, SignIn(d, u)
          PROVE  OfUser(e)' = OfUser(e) /\ rows'[e] = rows[e]
        BY <2>3 DEF SignIn, PostAuthNote
    <2>4. CASE SignOut(d)
        BY <2>4 DEF SignOut, PostAuthNote
    <2> QED
        BY <1>1, <2>1, <2>2, <2>3, <2>4 DEF UserStep, TapInHome, TapInMyCollected
<1>2. CASE MainQueueStep(d)
    <2>1. CASE CheckReply(d)
        <3>1. pending'[e] = pending[e]
            BY <2>1 DEF CheckReply, Enqueue
        <3>2. reads'[e] = reads[e]
            BY <2>1 DEF CheckReply
        <3>3. mainQueue'[e] = mainQueue[e]
            BY <2>1 DEF CheckReply
        <3> QED
            BY <2>1, <3>1, <3>2, <3>3 DEF CheckReply
    <2>2. CASE AddReply(d)
        BY <2>2 DEF AddReply, Enqueue
    <2>3. CASE AuthStateDidChange(d)
        BY <2>3 DEF AuthStateDidChange
    <2> QED
        BY <1>2, <2>1, <2>2, <2>3 DEF MainQueueStep
<1>3. CASE FirestoreStep(d)
    BY <1>3 DEF FirestoreStep, AnswerReads, CafeCellRead, GetCafesReply, Commit, Acknowledge
<1>4. CASE EnvironmentStep(d)
    BY <1>4 DEF EnvironmentStep, Disconnect, Reconnect, Relaunch
<1> QED
    BY <1>1, <1>2, <1>3, <1>4 DEF Step

(* Only the reads, the login and the rows change.                          *)
LEMMA StillUser ==
    ASSUME NEW d \in Devices, UserInv(d), switches[d] # 0, switches'[d] = switches[d],
           currentUser'[d] = currentUser[d], fsUser'[d] = fsUser[d],
           mainQueue'[d] = mainQueue[d], pending'[d] = pending[d]
    PROVE  UserInv(d)'
BY DEF UserInv, CaughtUpAfter, Own

LEMMA SignInUser ==
    ASSUME TypeOK, MaxSwitches <= 1, NEW d \in Devices, NEW u \in Users, UserInv(d), SignIn(d, u)
    PROVE  switches[d] = 0 /\ UserInv(d)'
<1> DEFINE q == mainQueue[d]
           note == [type |-> "auth", uid |-> u]
<1>1. switches[d] = 0 /\ switches'[d] = 1
    BY ConstantsAssumption DEF SignIn, TypeOK
<1>2. currentUser'[d] = u /\ mainQueue'[d] = Append(q, note) /\ pending' = pending
    BY DEF SignIn, PostAuthNote, TypeOK, storeVars
<1>3. \A o \in Owners : pending[d][o] = <<>>
    BY <1>1 DEF UserInv
<1>4. Own(d)' = <<>> /\ u \in Owners
    BY <1>2, <1>3 DEF Own, Owners
<1> PICK n : n = Len(q) + 1
    OBVIOUS
<1>5. /\ n \in Nat /\ n # 0 /\ Len(mainQueue'[d]) = n /\ DOMAIN mainQueue'[d] = 1 .. n
      /\ \A i \in 1 .. n : i # n => mainQueue'[d][i] = q[i] /\ i \in DOMAIN q
      /\ mainQueue'[d][n] = note
    BY <1>2 DEF TypeOK
<1>6. \A i \in DOMAIN q : q[i].type = "auth"
    BY <1>1 DEF UserInv
<1>7. CaughtUpAfter(d, n)'
    BY <1>2, <1>5, <1>6 DEF CaughtUpAfter
<1>8. n \in 0 .. Len(mainQueue'[d])
    BY <1>5
<1>9. \E k \in 0 .. Len(mainQueue'[d]) : CaughtUpAfter(d, k)' /\ (k # 0 => Own(d)' = <<>>)
    BY <1>4, <1>7, <1>8
<1> QED
    BY <1>1, <1>2, <1>3, <1>9 DEF UserInv, CaughtUpAfter

(* The head of the queue, a reply, is taken and perhaps a write made.      *)
LEMMA ReplyUser ==
    ASSUME TypeOK, NEW d \in Devices, UserInv(d),
           mainQueue[d] # <<>>, Head(mainQueue[d]).type = "reply",
           mainQueue' = [mainQueue EXCEPT ![d] = Tail(@)],
           pending' = pending \/ \E m \in Mutation : Enqueue(d, m),
           UNCHANGED <<switches, currentUser, fsUser>>
    PROVE  UserInv(d)'
<1> DEFINE q == mainQueue[d]
<1>1. fsUser[d] = currentUser[d] /\ switches[d] # 0 /\ CaughtUpAfter(d, 0)
    BY WorksForUser
<1>2. /\ mainQueue'[d] = Tail(q) /\ Len(q) \in Nat /\ Len(Tail(q)) = Len(q) - 1
      /\ DOMAIN Tail(q) = 1 .. Len(q) - 1 /\ DOMAIN q = 1 .. Len(q) /\ Len(q) # 0
      /\ \A i \in 1 .. Len(q) - 1 : Tail(q)[i] = q[i + 1]
    BY DEF TypeOK
<1>3. \A i \in DOMAIN Tail(q) : Tail(q)[i].type = "auth" => Tail(q)[i].uid = currentUser[d]
    <2>1. \A i \in DOMAIN q : i > 0 /\ q[i].type = "auth" => q[i].uid = currentUser[d]
        BY <1>1 DEF CaughtUpAfter
    <2> HIDE DEF q
    <2> SUFFICES ASSUME NEW i \in DOMAIN Tail(q), Tail(q)[i].type = "auth"
                 PROVE  Tail(q)[i].uid = currentUser[d]
        OBVIOUS
    <2>2. i + 1 \in DOMAIN q /\ i + 1 > 0 /\ Tail(q)[i] = q[i + 1]
        BY <1>2
    <2> QED
        BY <2>1, <2>2
<1>4. CaughtUpAfter(d, 0)'
    BY <1>1, <1>2, <1>3 DEF CaughtUpAfter
<1>5. 0 \in 0 .. Len(mainQueue'[d])
    BY <1>2
<1>6. \A o \in Owners : o # currentUser[d] => pending'[d][o] = pending[d][o]
    BY <1>1 DEF Enqueue, TypeOK
<1>7. \A o \in Owners : o # currentUser'[d] => pending'[d][o] = <<>>
    BY <1>6 DEF UserInv
<1>8. \E k \in 0 .. Len(mainQueue'[d]) : CaughtUpAfter(d, k)' /\ (k # 0 => Own(d)' = <<>>)
    BY <1>4, <1>5
<1> QED
    BY <1>1, <1>7, <1>8 DEF UserInv, CaughtUpAfter

LEMMA AuthUser ==
    ASSUME TypeOK, NEW d \in Devices, UserInv(d), AuthStateDidChange(d)
    PROVE  UserInv(d)'
<1> DEFINE q == mainQueue[d]
<1>1. PICK k \in 0 .. Len(q) : CaughtUpAfter(d, k) /\ (k # 0 => Own(d) = <<>>)
    BY DEF UserInv
<1>2. /\ mainQueue'[d] = Tail(q) /\ Len(q) \in Nat /\ Len(Tail(q)) = Len(q) - 1 /\ Len(q) # 0
      /\ DOMAIN Tail(q) = 1 .. Len(q) - 1 /\ DOMAIN q = 1 .. Len(q)
      /\ \A i \in 1 .. Len(q) - 1 : Tail(q)[i] = q[i + 1]
    BY DEF TypeOK, AuthStateDidChange
<1>3. /\ q[1].type = "auth" /\ fsUser'[d] = q[1].uid
      /\ isLogin'[d] = (currentUser[d] # NoUser)
      /\ UNCHANGED <<switches, currentUser, pending, reads>>
    BY <1>2 DEF TypeOK, AuthStateDidChange
<1> DEFINE j == IF k = 0 THEN 0 ELSE k - 1
<1>4. j \in 0 .. Len(mainQueue'[d]) /\ (j # 0 => k # 0)
    BY <1>2
<1>5. CaughtUpAfter(d, j)'
    <2>1. \A i \in 1 .. j : mainQueue'[d][i].type = "auth"
        BY <1>1, <1>2 DEF CaughtUpAfter
    <2>2. \A i \in DOMAIN mainQueue'[d] :
              i > j /\ mainQueue'[d][i].type = "auth" => mainQueue'[d][i].uid = currentUser'[d]
        <3>1. \A i \in DOMAIN q : i > k /\ q[i].type = "auth" => q[i].uid = currentUser[d]
            BY <1>1 DEF CaughtUpAfter
        <3>2. DOMAIN mainQueue'[d] = 1 .. Len(q) - 1 /\ currentUser'[d] = currentUser[d]
            BY <1>2, <1>3
        <3> SUFFICES ASSUME NEW i \in 1 .. Len(q) - 1, i > j, mainQueue'[d][i].type = "auth"
                     PROVE  mainQueue'[d][i].uid = currentUser[d]
            BY <3>2
        <3> HIDE DEF q
        <3>3. i + 1 \in DOMAIN q /\ i + 1 > k /\ mainQueue'[d][i] = q[i + 1]
            BY <1>2
        <3> QED
            BY <3>1, <3>3
    <2>3. j = 0 => fsUser'[d] = currentUser'[d]
        BY <1>1, <1>2, <1>3 DEF CaughtUpAfter
    <2>4. j # 0 => mainQueue'[d][j].uid = currentUser'[d]
        BY <1>1, <1>2, <1>3 DEF CaughtUpAfter
    <2> HIDE DEF j
    <2> QED
        BY <2>1, <2>2, <2>3, <2>4 DEF CaughtUpAfter
<1>6. j # 0 => Own(d)' = <<>>
    BY <1>1, <1>3, <1>4 DEF Own
<1>7. \E i \in 0 .. Len(mainQueue'[d]) : CaughtUpAfter(d, i)' /\ (i # 0 => Own(d)' = <<>>)
    <2> HIDE DEF j
    <2> QED
        BY <1>4, <1>5, <1>6
<1>8. switches[d] = 0 => \A i \in DOMAIN mainQueue'[d] : mainQueue'[d][i].type = "auth"
    BY <1>2 DEF UserInv
<1> QED
    BY <1>3, <1>7, <1>8 DEF UserInv, CaughtUpAfter

(* Replies join the end of the queue.                                      *)
LEMMA AnswerUser ==
    ASSUME TypeOK, NEW d \in Devices, UserInv(d), switches[d] # 0,
           NEW r \in Seq(Reply), mainQueue'[d] = mainQueue[d] \o r,
           UNCHANGED <<switches, currentUser, fsUser, pending>>
    PROVE  UserInv(d)'
<1> DEFINE q == mainQueue[d]
           all == q \o r
<1>1. \A i \in 1 .. Len(r) : r[i].type = "reply"
    <2>1. \A i \in 1 .. Len(r) : r[i] \in Reply
        OBVIOUS
    <2> QED
        BY <2>1 DEF Reply
<1>2. q \in Seq(Messages) /\ r \in Seq(Messages)
    BY DEF TypeOK, Messages
<1>3. /\ Len(q) \in Nat /\ Len(r) \in Nat /\ Len(all) = Len(q) + Len(r)
      /\ DOMAIN all = 1 .. Len(q) + Len(r) /\ DOMAIN q = 1 .. Len(q)
      /\ \A i \in 1 .. Len(q) : all[i] = q[i]
      /\ \A i \in 1 .. Len(r) : all[Len(q) + i] = r[i]
    <2> HIDE DEF q
    <2>1. all \in Seq(Messages)
        BY <1>2, Joined
    <2> QED
        BY <1>2, <2>1, Joined
<1>4. \A i \in DOMAIN all : i > Len(q) => all[i].type = "reply"
    <2> SUFFICES ASSUME NEW i \in DOMAIN all, i > Len(q) PROVE all[i].type = "reply"
        OBVIOUS
    <2> HIDE DEF q, all
    <2>1. i - Len(q) \in 1 .. Len(r) /\ i = Len(q) + (i - Len(q))
        BY <1>3
    <2> QED
        BY <1>1, <1>3, <2>1
<1>5. PICK k \in 0 .. Len(q) : CaughtUpAfter(d, k) /\ (k # 0 => Own(d) = <<>>)
    BY DEF UserInv
<1>7. mainQueue'[d] = all
    OBVIOUS
<1> HIDE DEF all
<1>6. k \in 0 .. Len(mainQueue'[d]) /\ \A i \in 1 .. k : i \in 1 .. Len(q)
    <2> HIDE DEF q
    <2> QED
        BY <1>3, <1>7
<1>8. CaughtUpAfter(d, k)'
    <2>1. \A i \in 1 .. k : all[i].type = "auth"
        <3>1. \A i \in 1 .. k : q[i].type = "auth"
            BY <1>5 DEF CaughtUpAfter
        <3> HIDE DEF q
        <3> QED
            BY <1>3, <1>6, <3>1
    <2>2. \A i \in DOMAIN all : i > k /\ all[i].type = "auth" => all[i].uid = currentUser[d]
        BY <1>3, <1>4, <1>5 DEF CaughtUpAfter
    <2>3. IF k = 0 THEN fsUser[d] = currentUser[d] ELSE all[k].uid = currentUser[d]
        BY <1>3, <1>5 DEF CaughtUpAfter
    <2> QED
        BY <1>7, <2>1, <2>2, <2>3 DEF CaughtUpAfter
<1>9. Own(d)' = Own(d)
    BY DEF Own
<1>10. \E i \in 0 .. Len(mainQueue'[d]) : CaughtUpAfter(d, i)' /\ (i # 0 => Own(d)' = <<>>)
    BY <1>5, <1>6, <1>8, <1>9
<1> QED
    BY <1>10 DEF UserInv, CaughtUpAfter

LEMMA AcknowledgeUser ==
    ASSUME TypeOK, NEW d \in Devices, UserInv(d), Acknowledge(d)
    PROVE  UserInv(d)'
<1>1. /\ fsUser[d] = currentUser[d] /\ switches[d] # 0 /\ Own(d) # <<>>
      /\ pending' = [pending EXCEPT ![d][currentUser[d]] = Tail(Own(d))]
      /\ UNCHANGED <<switches, currentUser, fsUser, mainQueue>>
    BY AcknowledgeFacts
<1>2. PICK k \in 0 .. Len(mainQueue[d]) : CaughtUpAfter(d, k) /\ (k # 0 => Own(d) = <<>>)
    BY DEF UserInv
<1>3. k = 0
    BY <1>1, <1>2
<1>4. CaughtUpAfter(d, k)' /\ k \in 0 .. Len(mainQueue'[d])
    BY <1>1, <1>2 DEF CaughtUpAfter
<1>5. \A o \in Owners : o # currentUser[d] => pending'[d][o] = pending[d][o]
    BY <1>1 DEF TypeOK
<1>6. \A o \in Owners : o # currentUser'[d] => pending'[d][o] = <<>>
    BY <1>1, <1>5 DEF UserInv
<1>7. \E i \in 0 .. Len(mainQueue'[d]) : CaughtUpAfter(d, i)' /\ (i # 0 => Own(d)' = <<>>)
    BY <1>3, <1>4
<1> QED
    BY <1>1, <1>6, <1>7 DEF UserInv, CaughtUpAfter

LEMMA RelaunchUser ==
    ASSUME TypeOK, NEW d \in Devices, UserInv(d), Relaunch(d)
    PROVE  UserInv(d)'
<1>1. /\ mainQueue'[d] = <<[type |-> "auth", uid |-> currentUser[d]]>>
      /\ fsUser'[d] = currentUser[d] /\ isLogin'[d] = FALSE
      /\ \A c \in Cafes : reads'[d][c] = <<>>
      /\ UNCHANGED <<switches, currentUser, pending>>
    BY DEF Relaunch, TypeOK
<1>2. /\ Len(mainQueue'[d]) = 1 /\ DOMAIN mainQueue'[d] = {1}
      /\ mainQueue'[d][1].type = "auth" /\ mainQueue'[d][1].uid = currentUser'[d]
    BY <1>1
<1>3. CaughtUpAfter(d, 0)' /\ 0 \in 0 .. Len(mainQueue'[d])
    BY <1>1, <1>2 DEF CaughtUpAfter
<1>4. \E i \in 0 .. Len(mainQueue'[d]) : CaughtUpAfter(d, i)' /\ (i # 0 => Own(d)' = <<>>)
    BY <1>3
<1> QED
    BY <1>1, <1>2, <1>4 DEF UserInv, CaughtUpAfter

-----------------------------------------------------------------------------
(***************************************************************************)
(* What waits in the queues.                                               *)
(***************************************************************************)
LEMMA SeqGrows ==
    ASSUME NEW S, NEW T, S \subseteq T, NEW s \in Seq(S)
    PROVE  s \in Seq(T)
<1>1. \A i \in 1 .. Len(s) : s[i] \in T
    OBVIOUS
<1> QED
    BY <1>1

LEMMA GoodGrows ==
    ASSUME Keeps, NEW d \in Devices
    PROVE  /\ HeldBy(d) \subseteq HeldBy(d)' /\ SafeFor(d) \subseteq SafeFor(d)'
           /\ Documented \subseteq Documented'
           /\ \A c : GoodReads(HeldBy(d), c) \subseteq GoodReads(HeldBy(d)', c)
           /\ GoodMessages(HeldBy(d), SafeFor(d)) \subseteq GoodMessages(HeldBy(d)', SafeFor(d)')
<1>1. HeldBy(d) \subseteq HeldBy(d)' /\ SafeFor(d) \subseteq SafeFor(d)'
    BY DEF Keeps, HeldBy, SafeFor
<1>2. Documented \subseteq Documented'
    BY DEF Keeps, Documented
<1> QED
    BY <1>1, <1>2 DEF GoodReads, GoodMessages, ReadIn, ReplyIn

LEMMA QueuesKept ==
    ASSUME Keeps, NEW d \in Devices,
           \A c \in Cafes : rows'[d][c] # NoDoc => c \in HeldBy(d) \cup HeldBy(d)',
           \A c \in Cafes : reads'[d][c] \in Seq(GoodReads(HeldBy(d), c)),
           mainQueue'[d] \in Seq(GoodMessages(HeldBy(d), SafeFor(d))),
           \A o \in Owners : pending'[d][o] \in Seq(GoodWrites)
    PROVE  QueuesInv(d)'
<1>1. \A c \in Cafes : reads'[d][c] \in Seq(GoodReads(HeldBy(d)', c))
    BY GoodGrows, SeqGrows
<1>2. mainQueue'[d] \in Seq(GoodMessages(HeldBy(d)', SafeFor(d)'))
    BY GoodGrows, SeqGrows
<1>3. \A c \in Cafes : rows'[d][c] # NoDoc => c \in HeldBy(d)'
    BY GoodGrows
<1> QED
    BY <1>1, <1>2, <1>3 DEF QueuesInv

LEMMA FoundGrows ==
    ASSUME NEW D, NEW E, D \subseteq E, NEW q, Found(D, q)
    PROVE  Found(E, q)
BY DEF Found

LEMMA FoundAppend ==
    ASSUME NEW D, NEW q \in Seq(Mutation), NEW m \in Mutation, Found(D, q),
           m.op = "set" \/ m.cafe \in D \/ HasSet(q, m.cafe)
    PROVE  Found(D, Append(q, m))
<1> DEFINE all == Append(q, m)
<1>1. /\ Len(q) \in Nat /\ DOMAIN q = 1 .. Len(q) /\ DOMAIN all = 1 .. Len(q) + 1
      /\ \A i \in 1 .. Len(q) : all[i] = q[i]
      /\ all[Len(q) + 1] = m
    OBVIOUS
<1> HIDE DEF all
<1> SUFFICES ASSUME NEW i \in DOMAIN all
             PROVE  \/ all[i].op = "set" \/ all[i].cafe \in D
                    \/ \E j \in 1 .. i - 1 : all[j].cafe = all[i].cafe /\ all[j].op = "set"
    BY DEF Found, all
<1>2. CASE i \in 1 .. Len(q)
    <2>1. \A j \in 1 .. i - 1 : all[j] = q[j]
        BY <1>1, <1>2
    <2> QED
        BY <1>1, <1>2, <2>1 DEF Found
<1>3. CASE i = Len(q) + 1
    BY <1>1, <1>3 DEF HasSet
<1> QED
    BY <1>1, <1>2, <1>3

LEMMA FoundTail ==
    ASSUME NEW D, NEW q \in Seq(Mutation), q # <<>>, Found(D, q),
           Head(q).op = "set" => Head(q).cafe \in D
    PROVE  Found(D, Tail(q))
<1> DEFINE t == Tail(q)
<1>1. /\ Len(q) \in Nat /\ DOMAIN q = 1 .. Len(q) /\ DOMAIN t = 1 .. Len(q) - 1
      /\ \A i \in 1 .. Len(q) - 1 : t[i] = q[i + 1]
      /\ Head(q) = q[1]
    OBVIOUS
<1> HIDE DEF t
<1> SUFFICES ASSUME NEW i \in DOMAIN t, t[i].op # "set", t[i].cafe \notin D
             PROVE  \E j \in 1 .. i - 1 : t[j].cafe = t[i].cafe /\ t[j].op = "set"
    BY DEF Found, t
<1>2. i + 1 \in DOMAIN q /\ t[i] = q[i + 1]
    BY <1>1
<1>3. PICK j \in 1 .. (i + 1) - 1 : q[j].cafe = q[i + 1].cafe /\ q[j].op = "set"
    BY <1>2 DEF Found
<1>4. j # 1
    BY <1>1, <1>2, <1>3
<1>5. j - 1 \in 1 .. i - 1 /\ t[j - 1] = q[j]
    BY <1>1, <1>3, <1>4
<1> QED
    BY <1>2, <1>3, <1>5

LEMMA FoundKept ==
    ASSUME Keeps, NEW d \in Devices, FoundInv(d), pending'[d] = pending[d]
    PROVE  FoundInv(d)'
BY GoodGrows, FoundGrows DEF FoundInv

-----------------------------------------------------------------------------
(***************************************************************************)
(* The steps of a device.                                                  *)
(***************************************************************************)
Preserved(d) == Keeps /\ NoDuplicates' /\ DeviceInv(d)'

LEMMA SameServer == NoDuplicates /\ UNCHANGED server => NoDuplicates'
    BY DEF NoDuplicates

(* What the parts of UpdatesInv say of d.                                  *)
LEMMA Parts ==
    ASSUME UpdatesInv, NEW d \in Devices
    PROVE  /\ CacheInv /\ ResponsesOf(d) /\ NoDuplicates /\ UserInv(d) /\ QueuesInv(d) /\ FoundInv(d)
           /\ \A c \in Cafes : rows[d][c] # NoDoc => c \in HeldBy(d)
           /\ \A c \in Cafes : reads[d][c] \in Seq(GoodReads(HeldBy(d), c))
           /\ mainQueue[d] \in Seq(GoodMessages(HeldBy(d), SafeFor(d)))
           /\ \A o \in Owners : pending[d][o] \in Seq(GoodWrites)
BY DEF UpdatesInv, DeviceInv, QueuesInv, ResultsInv

LEMMA TapUpdates ==
    ASSUME TypeOK, UpdatesInv, NEW d \in Devices, NEW c \in Cafes, NEW base \in Copies,
           base # NoCopies => c \in HeldBy(d), DidClickCollectButton(d, c, base)
    PROVE  Preserved(d)
<1> DEFINE r == [kind |-> "check", cafe |-> c, uid |-> currentUser[d], base |-> base]
<1>1. UNCHANGED <<server, cache, pending, currentUser, fsUser, switches, mainQueue, rows>>
    BY DEF DidClickCollectButton, storeVars, authVars, listVars
<1>2. switches[d] # 0
    BY Parts DEF DidClickCollectButton, UserInv
<1>3. \A b \in Cafes : reads'[d][b] \in Seq(GoodReads(HeldBy(d), b))
    <2>1. CASE reads' = reads
        BY <2>1, Parts
    <2>2. CASE currentUser[d] # NoUser /\ reads' = [reads EXCEPT ![d][c] = Append(@, r)]
        <3>1. currentUser[d] \in Users
            BY <2>2 DEF TypeOK, Owners
        <3>2. r \in GoodReads(HeldBy(d), c)
            BY <3>1 DEF GoodReads, ReadIn, Read
        <3> HIDE DEF r
        <3>3. reads[d][c] \in Seq(GoodReads(HeldBy(d), c))
            BY Parts
        <3>4. Append(reads[d][c], r) \in Seq(GoodReads(HeldBy(d), c))
            BY <3>2, <3>3
        <3>5. \A b \in Cafes : reads'[d][b] = IF b = c THEN Append(reads[d][c], r) ELSE reads[d][b]
            BY <2>2 DEF TypeOK
        <3> QED
            BY <3>4, <3>5, Parts
    <2> QED
        BY <2>1, <2>2 DEF DidClickCollectButton
<1>4. Keeps
    BY <1>1, Parts, SameKeeps
<1>5. QueuesInv(d)'
    BY <1>1, <1>3, <1>4, Parts, QueuesKept
<1>6. UserInv(d)'
    BY <1>1, <1>2, Parts, StillUser
<1>7. FoundInv(d)'
    BY <1>1, <1>4, Parts, FoundKept
<1> QED
    BY <1>1, <1>4, <1>5, <1>6, <1>7, Parts, SameServer DEF Preserved, DeviceInv

(* The list of the collection is asked for, or answered; a cell reads; the *)
(* connection comes and goes.                                              *)
LEMMA ListUpdates ==
    ASSUME TypeOK, UpdatesInv, NEW d \in Devices,
           UNCHANGED <<server, pending, currentUser, fsUser, isLogin, switches, reads, mainQueue>>,
           \A e \in Devices, c \in Cafes : cache'[e][c] \in {cache[e][c], Known(e, c)},
           \A c \in Cafes : rows'[d][c] # NoDoc => c \in HeldBy(d) \cup HeldBy(d)'
    PROVE  Preserved(d)
<1>1. Keeps
    BY Parts, LearnKeeps
<1>2. QueuesInv(d)'
    BY <1>1, Parts, QueuesKept
<1>3. UserInv(d)'
    BY Parts, SameUser DEF OfUser
<1>4. FoundInv(d)'
    BY <1>1, Parts, FoundKept
<1> QED
    BY <1>1, <1>2, <1>3, <1>4, Parts, SameServer DEF Preserved, DeviceInv

LEMMA GetCafesReplyUpdates ==
    ASSUME TypeOK, UpdatesInv, NEW d \in Devices, GetCafesReply(d)
    PROVE  Preserved(d)
<1>1. cache' = [cache EXCEPT ![d] = [c \in Cafes |-> Known(d, c)]]
    BY DEF GetCafesReply
<1>2. \A e \in Devices, c \in Cafes : cache'[e][c] = IF e = d THEN Known(d, c) ELSE cache[e][c]
    BY <1>1 DEF TypeOK
<1>3. UNCHANGED <<server, pending, currentUser, fsUser, isLogin, switches, reads, mainQueue>>
    BY DEF GetCafesReply, authVars
<1>4. ASSUME NEW c \in Cafes, rows'[d][c] # NoDoc PROVE c \in HeldBy(d) \cup HeldBy(d)'
    <2>1. Seen(d, c) # NoDoc
        BY <1>4 DEF GetCafesReply, TypeOK
    <2>2. Known(d, c) # NoDoc \/ HasSet(Own(d), c)
        BY <2>1, Parts, SeenIsHeld
    <2>3. cache'[d][c] = Known(d, c) /\ Own(d)' = Own(d)
        BY <1>2, <1>3 DEF Own
    <2>4. cache'[d][c] # NoDoc \/ HasSet(Own(d)', c)
        BY <2>2, <2>3
    <2> QED
        BY <2>4 DEF HeldBy, Held, HasSet
<1> QED
    BY <1>2, <1>3, <1>4, ListUpdates

LEMMA SignInUpdates ==
    ASSUME TypeOK, UpdatesInv, MaxSwitches <= 1,
           NEW d \in Devices, NEW u \in Users, SignIn(d, u)
    PROVE  Preserved(d)
<1> DEFINE note == [type |-> "auth", uid |-> u]
<1>1. /\ UNCHANGED <<server, cache, pending, rows, reads>>
      /\ currentUser' = [currentUser EXCEPT ![d] = u]
      /\ mainQueue'[d] = Append(mainQueue[d], note)
    BY DEF SignIn, PostAuthNote, storeVars, listVars, TypeOK
<1>2. switches[d] = 0 /\ UserInv(d)'
    BY Parts, SignInUser
<1>3. Keeps
    BY <1>1, <1>2, Parts, SignInKeeps
<1>4. note \in GoodMessages(HeldBy(d), SafeFor(d))
    BY DEF GoodMessages, Messages, AuthNote, Owners, ReplyIn
<1>5. mainQueue'[d] \in Seq(GoodMessages(HeldBy(d), SafeFor(d)))
    <2> HIDE DEF note
    <2>1. mainQueue[d] \in Seq(GoodMessages(HeldBy(d), SafeFor(d)))
        BY Parts
    <2> QED
        BY <1>1, <1>4, <2>1
<1>6. QueuesInv(d)'
    BY <1>1, <1>3, <1>5, Parts, QueuesKept
<1>7. FoundInv(d)'
    BY <1>1, <1>3, Parts, FoundKept
<1> QED
    BY <1>1, <1>2, <1>3, <1>6, <1>7, Parts, SameServer DEF Preserved, DeviceInv

LEMMA NoSignOut ==
    ASSUME TypeOK, UpdatesInv, MaxSwitches <= 1, NEW d \in Devices
    PROVE  ~SignOut(d)
<1> SUFFICES ASSUME SignOut(d) PROVE FALSE
    OBVIOUS
<1>1. switches[d] # 0
    BY Parts DEF SignOut, UserInv
<1> QED
    BY <1>1, ConstantsAssumption DEF SignOut, TypeOK

(* The reply that is called back next.                                     *)
LEMMA HeadFacts ==
    ASSUME TypeOK, UpdatesInv, NEW d \in Devices,
           mainQueue[d] # <<>>, Head(mainQueue[d]).type = "reply"
    PROVE  LET e == Head(mainQueue[d]) IN
           /\ e \in Reply /\ e.read \in Read /\ e.read.cafe \in Cafes
           /\ e.read.uid \in Users /\ e.read.base \in Copies
           /\ e.read.base # NoCopies => e.read.cafe \in HeldBy(d)
           /\ IF e.ans = "absent" THEN e.read.base = NoCopies ELSE e.read.cafe \in SafeFor(d)
           /\ Tail(mainQueue[d]) \in Seq(GoodMessages(HeldBy(d), SafeFor(d)))
           /\ fsUser[d] = currentUser[d]
<1> DEFINE q == mainQueue[d]
           e == Head(q)
<1>1. q \in Seq(GoodMessages(HeldBy(d), SafeFor(d)))
    BY Parts
<1>2. e \in GoodMessages(HeldBy(d), SafeFor(d)) /\ Tail(q) \in Seq(GoodMessages(HeldBy(d), SafeFor(d)))
    BY <1>1
<1>3. fsUser[d] = currentUser[d]
    BY Parts, WorksForUser
<1>4. e.type = "reply"
    OBVIOUS
<1> HIDE DEF e
<1>5. e \in Reply
    BY <1>2, <1>4 DEF GoodMessages, Messages, AuthNote
<1>6. e.read \in Read
    BY <1>5 DEF Reply
<1>7. e.read.cafe \in Cafes /\ e.read.uid \in Users /\ e.read.base \in Copies
    BY <1>6 DEF Read
<1>8. /\ e.read.base # NoCopies => e.read.cafe \in HeldBy(d)
      /\ IF e.ans = "absent" THEN e.read.base = NoCopies ELSE e.read.cafe \in SafeFor(d)
    BY <1>2, <1>4 DEF GoodMessages, ReplyIn, ReadIn
<1> QED
    BY <1>2, <1>3, <1>5, <1>6, <1>7, <1>8 DEF e

(* A reply is called back, a write may be made and a read asked for.       *)
LEMMA ReplyUpdates ==
    ASSUME TypeOK, UpdatesInv, NEW d \in Devices,
           mainQueue[d] # <<>>, Head(mainQueue[d]).type = "reply",
           mainQueue' = [mainQueue EXCEPT ![d] = Tail(@)],
           \/ pending' = pending
           \/ \E m \in GoodWrites : Enqueue(d, m) /\ (m.op = "set" \/ m.cafe \in SafeFor(d)),
           \A c \in Cafes : reads'[d][c] \in Seq(GoodReads(HeldBy(d), c)),
           UNCHANGED <<server, cache, switches, currentUser, fsUser, rows>>
    PROVE  Preserved(d)
<1>1. pending' = pending \/ \E m \in Mutation : Enqueue(d, m)
    BY DEF GoodWrites
<1>2. UserInv(d)'
    BY <1>1, Parts, ReplyUser
<1>3. Keeps
    BY <1>1, Parts, SameKeeps, WriteKeeps
<1>4. mainQueue'[d] \in Seq(GoodMessages(HeldBy(d), SafeFor(d)))
    BY HeadFacts DEF TypeOK
<1>5. (\A o \in Owners : pending'[d][o] \in Seq(GoodWrites)) /\ FoundInv(d)'
    <2>1. CASE pending' = pending
        BY <1>3, <2>1, Parts, FoundKept
    <2>2. ASSUME NEW m \in GoodWrites, Enqueue(d, m), m.op = "set" \/ m.cafe \in SafeFor(d)
          PROVE  (\A o \in Owners : pending'[d][o] \in Seq(GoodWrites)) /\ FoundInv(d)'
        <3>1. \A o \in Owners :
                  pending'[d][o] = IF o = currentUser[d] THEN Append(Own(d), m) ELSE pending[d][o]
            <4>1. fsUser[d] = currentUser[d]
                BY HeadFacts
            <4>2. pending' = [pending EXCEPT ![d][currentUser[d]] = Append(@, m)]
                BY <2>2, <4>1 DEF Enqueue
            <4>3. currentUser[d] \in Owners /\ pending \in [Devices -> [Owners -> Seq(Mutation)]]
                BY DEF TypeOK
            <4> QED
                BY <4>2, <4>3 DEF Own
        <3>2. m \in Mutation /\ currentUser[d] \in Owners
            BY DEF GoodWrites, TypeOK
        <3>3. Own(d) \in Seq(GoodWrites) /\ Own(d) \in Seq(Mutation) /\ Found(Documented, Own(d))
            BY <3>2, Parts DEF Own, FoundInv, TypeOK
        <3>4. Append(Own(d), m) \in Seq(GoodWrites)
            BY <3>3
        <3>5. m.cafe \in SafeFor(d) => m.cafe \in Documented \/ HasSet(Own(d), m.cafe)
            BY DEF SafeFor, Safe, Documented
        <3>6. Found(Documented, Append(Own(d), m))
            BY <2>2, <3>2, <3>3, <3>5, FoundAppend
        <3>7. Documented' = Documented
            BY DEF Documented
        <3>8. \A o \in Owners : Found(Documented', pending'[d][o])
            BY <3>1, <3>6, <3>7, Parts DEF FoundInv
        <3> QED
            BY <3>1, <3>4, <3>8, Parts DEF FoundInv
    <2> QED
        BY <2>1, <2>2
<1>6. QueuesInv(d)'
    BY <1>3, <1>4, <1>5, Parts, QueuesKept
<1> QED
    BY <1>2, <1>3, <1>5, <1>6, Parts, SameServer DEF Preserved, DeviceInv

LEMMA CheckUpdates ==
    ASSUME TypeOK, UpdatesInv, NEW d \in Devices, CheckReply(d)
    PROVE  Preserved(d)
<1> DEFINE e   == Head(mainQueue[d])
           c   == e.read.cafe
           now == currentUser[d]
           r   == [kind |-> "add", cafe |-> c, uid |-> now, base |-> e.read.base]
           m   == [op |-> "remove", cafe |-> c, uid |-> now, users |-> NoCopies]
<1>1. /\ mainQueue[d] # <<>> /\ e.type = "reply"
      /\ mainQueue' = [mainQueue EXCEPT ![d] = Tail(@)]
      /\ UNCHANGED <<server, cache, switches, currentUser, fsUser, rows>>
    BY DEF CheckReply, authVars, listVars
<1>2. \/ pending' = pending
      \/ e.ans = "in" /\ now # NoUser /\ Enqueue(d, m)
    BY DEF CheckReply
<1>3. \/ reads' = reads
      \/ now # NoUser /\ reads' = [reads EXCEPT ![d][c] = Append(@, r)]
    BY DEF CheckReply
<1>4. /\ c \in Cafes /\ e.read.base \in Copies
      /\ e.read.base # NoCopies => c \in HeldBy(d)
      /\ e.ans # "absent" => c \in SafeFor(d)
    BY <1>1, HeadFacts
<1> HIDE DEF e
<1>5. now # NoUser => now \in Users
    BY DEF TypeOK, Owners
<1>6. now # NoUser => m \in GoodWrites /\ m.op = "remove" /\ m.cafe = c
    BY <1>4, <1>5 DEF GoodWrites, Mutation, Copies, NoCopies
<1>7. now # NoUser => r \in GoodReads(HeldBy(d), c)
    BY <1>4, <1>5 DEF GoodReads, ReadIn, Read
<1> HIDE DEF r, m, now
<1>8. \/ pending' = pending
      \/ \E w \in GoodWrites : Enqueue(d, w) /\ (w.op = "set" \/ w.cafe \in SafeFor(d))
    BY <1>2, <1>4, <1>6
<1>9. \A b \in Cafes : reads'[d][b] \in Seq(GoodReads(HeldBy(d), b))
    <2>1. CASE reads' = reads
        BY <2>1, Parts
    <2>2. CASE now # NoUser /\ reads' = [reads EXCEPT ![d][c] = Append(@, r)]
        <3>1. Append(reads[d][c], r) \in Seq(GoodReads(HeldBy(d), c))
            <4>1. reads[d][c] \in Seq(GoodReads(HeldBy(d), c))
                BY <1>4, Parts
            <4> HIDE DEF c
            <4> QED
                BY <1>7, <2>2, <4>1
        <3>2. \A b \in Cafes : reads'[d][b] = IF b = c THEN Append(reads[d][c], r) ELSE reads[d][b]
            BY <1>4, <2>2 DEF TypeOK
        <3> QED
            BY <3>1, <3>2, Parts
    <2> QED
        BY <1>3, <2>1, <2>2
<1> QED
    BY <1>1, <1>8, <1>9, ReplyUpdates DEF e

LEMMA AddUpdates ==
    ASSUME TypeOK, UpdatesInv, NEW d \in Devices, AddReply(d)
    PROVE  Preserved(d)
<1> DEFINE e == Head(mainQueue[d])
           m == AddWrite(e)
<1>1. /\ mainQueue[d] # <<>> /\ e.type = "reply"
      /\ mainQueue' = [mainQueue EXCEPT ![d] = Tail(@)]
      /\ Enqueue(d, m)
      /\ UNCHANGED <<server, cache, switches, currentUser, fsUser, rows, reads>>
    BY DEF AddReply, authVars, listVars
<1>2. /\ e \in Reply /\ e.read.cafe \in Cafes /\ e.read.uid \in Users
      /\ IF e.ans = "absent" THEN e.read.base = NoCopies ELSE e.read.cafe \in SafeFor(d)
    BY <1>1, HeadFacts
<1> HIDE DEF e
<1>3. m \in Mutation
    BY <1>2, AddWriteType
<1>4. \A u \in Users : m.users[u] <= 1
    BY <1>2 DEF AddWrite, NoCopies
<1>5. m.op = "set" \/ m.cafe \in SafeFor(d)
    BY <1>2 DEF AddWrite
<1>6. m \in GoodWrites
    BY <1>3, <1>4 DEF GoodWrites
<1> HIDE DEF m
<1>7. \E w \in GoodWrites : Enqueue(d, w) /\ (w.op = "set" \/ w.cafe \in SafeFor(d))
    BY <1>1, <1>5, <1>6
<1>8. \A c \in Cafes : reads'[d][c] \in Seq(GoodReads(HeldBy(d), c))
    BY <1>1, Parts
<1> QED
    BY <1>1, <1>7, <1>8, ReplyUpdates DEF e

LEMMA AuthUpdates ==
    ASSUME TypeOK, UpdatesInv, NEW d \in Devices, AuthStateDidChange(d)
    PROVE  Preserved(d)
<1>1. /\ mainQueue[d] # <<>> /\ mainQueue'[d] = Tail(mainQueue[d])
      /\ UNCHANGED <<server, cache, pending, currentUser, reads, rows>>
    BY DEF AuthStateDidChange, listVars, TypeOK
<1>2. Keeps
    BY <1>1, Parts, SameKeeps
<1>3. mainQueue'[d] \in Seq(GoodMessages(HeldBy(d), SafeFor(d)))
    BY <1>1, Parts
<1>4. QueuesInv(d)'
    BY <1>1, <1>2, <1>3, Parts, QueuesKept
<1>5. UserInv(d)'
    BY Parts, AuthUser
<1>6. FoundInv(d)'
    BY <1>1, <1>2, Parts, FoundKept
<1> QED
    BY <1>1, <1>2, <1>4, <1>5, <1>6, Parts, SameServer DEF Preserved, DeviceInv

LEMMA AnswerUpdates ==
    ASSUME TypeOK, UpdatesInv, NEW d \in Devices, NEW c \in Cafes, AnswerReads(d, c)
    PROVE  Preserved(d)
<1> DEFINE waiting == reads[d][c]
           replies == [i \in 1 .. Len(waiting) |-> ReplyTo(waiting[i], Seen(d, c))]
           good == GoodMessages(HeldBy(d), SafeFor(d))
<1>1. /\ waiting # <<>>
      /\ mainQueue' = [mainQueue EXCEPT ![d] = @ \o replies]
      /\ reads' = [reads EXCEPT ![d][c] = <<>>]
      /\ cache' = [cache EXCEPT ![d][c] = Known(d, c)]
      /\ UNCHANGED <<server, pending, currentUser, fsUser, switches, rows>>
    BY DEF AnswerReads, Answerable, authVars, listVars
<1>2. switches[d] # 0
    BY <1>1, Parts DEF UserInv
<1>3. Keeps
    <2>1. \A e \in Devices, b \in Cafes :
              cache'[e][b] = IF e = d /\ b = c THEN Known(d, c) ELSE cache[e][b]
        BY <1>1 DEF TypeOK
    <2> QED
        BY <1>1, <2>1, Parts, LearnKeeps
<1>4. ASSUME NEW r \in GoodReads(HeldBy(d), c)
      PROVE  ReplyTo(r, Seen(d, c)) \in Reply /\ ReplyTo(r, Seen(d, c)) \in good
    <2>1. r \in Read /\ r.cafe = c /\ (r.base # NoCopies => c \in HeldBy(d))
        BY <1>4 DEF GoodReads, ReadIn
    <2>2. ReplyTo(r, Seen(d, c)) \in Reply
        BY <2>1, SeenType, AnswerType
    <2>3. ReplyTo(r, Seen(d, c)).read = r
        BY DEF ReplyTo
    <2>4. ReplyTo(r, Seen(d, c)).ans = "absent" <=> Seen(d, c) = NoDoc
        BY DEF ReplyTo, AnswerTo
    <2>5. Seen(d, c) = NoDoc => r.base = NoCopies
        BY <2>1, Parts, HeldIsSeen DEF HeldBy
    <2>6. Seen(d, c) # NoDoc => c \in SafeFor(d)
        BY Parts, SeenIsHeld DEF SafeFor
    <2> QED
        BY <2>1, <2>2, <2>3, <2>4, <2>5, <2>6 DEF GoodMessages, Messages, ReplyIn, ReadIn
<1>5. waiting \in Seq(GoodReads(HeldBy(d), c))
    BY Parts
<1>6. replies \in Seq(Reply) /\ replies \in Seq(good)
    <2> HIDE DEF waiting, good
    <2>1. Len(waiting) \in Nat /\ \A i \in 1 .. Len(waiting) : waiting[i] \in GoodReads(HeldBy(d), c)
        BY <1>5
    <2>2. \A i \in 1 .. Len(waiting) :
              ReplyTo(waiting[i], Seen(d, c)) \in Reply /\ ReplyTo(waiting[i], Seen(d, c)) \in good
        BY <1>4, <2>1
    <2> QED
        BY <2>1, <2>2
<1> HIDE DEF replies, waiting
<1>7. mainQueue'[d] = mainQueue[d] \o replies
    BY <1>1 DEF TypeOK
<1>8. mainQueue'[d] \in Seq(GoodMessages(HeldBy(d), SafeFor(d)))
    <2>1. mainQueue[d] \in Seq(good)
        BY Parts
    <2> HIDE DEF good
    <2>2. mainQueue[d] \o replies \in Seq(good)
        BY <1>6, <2>1, Joined
    <2> QED
        BY <1>7, <2>2 DEF good
<1>9. \A b \in Cafes : reads'[d][b] \in Seq(GoodReads(HeldBy(d), b))
    <2>1. \A b \in Cafes : reads'[d][b] = IF b = c THEN <<>> ELSE reads[d][b]
        BY <1>1 DEF TypeOK
    <2>2. \A S : <<>> \in Seq(S)
        OBVIOUS
    <2> QED
        BY <2>1, <2>2, Parts
<1>10. QueuesInv(d)'
    BY <1>1, <1>3, <1>8, <1>9, Parts, QueuesKept
<1>11. UserInv(d)'
    BY <1>1, <1>2, <1>6, <1>7, Parts, AnswerUser
<1>12. FoundInv(d)'
    BY <1>1, <1>3, Parts, FoundKept
<1> QED
    BY <1>1, <1>3, <1>10, <1>11, <1>12, Parts, SameServer DEF Preserved, DeviceInv

LEMMA AppliedOnce ==
    ASSUME NEW doc \in Document \cup {NoDoc}, NEW m \in GoodWrites,
           doc # NoDoc => \A u \in Users : doc.users[u] <= 1
    PROVE  \A u \in Users : ServerApply(doc, m).users[u] <= 1
<1> DEFINE old == IF doc = NoDoc THEN [whole |-> FALSE, users |-> NoCopies] ELSE doc
<1>1. /\ m.op \in {"set", "union", "remove"} /\ m.uid \in Users
      /\ \A u \in Users : m.users[u] <= 1
    BY DEF GoodWrites, Mutation
<1>2. old \in Document /\ \A u \in Users : old.users[u] <= 1
    BY DEF Document, Copies, NoCopies
<1>3. CASE m.op = "set"
    BY <1>1, <1>3 DEF ServerApply, Apply
<1>4. CASE m.op = "union"
    <2>1. ServerApply(doc, m) = [old EXCEPT !.users[m.uid] = IF @ = 0 THEN 1 ELSE @]
        BY <1>4 DEF ServerApply, Apply
    <2> HIDE DEF old
    <2> QED
        BY <1>1, <1>2, <2>1 DEF Document, Copies
<1>5. CASE m.op = "remove"
    <2> DEFINE taken == [old EXCEPT !.users[m.uid] = IF @ = 0 THEN 0 ELSE @ - 1]
    <2>1. ServerApply(doc, m) = [taken EXCEPT !.users[m.uid] = 0]
        BY <1>5 DEF ServerApply, Apply
    <2> HIDE DEF old
    <2>2. taken \in Document /\ \A u \in Users : u # m.uid => taken.users[u] = old.users[u]
        BY <1>1, <1>2 DEF Document, Copies
    <2> HIDE DEF taken
    <2>3. \A u \in Users :
              ServerApply(doc, m).users[u] = IF u = m.uid THEN 0 ELSE taken.users[u]
        BY <1>1, <2>1, <2>2 DEF Document, Copies
    <2> QED
        BY <1>2, <2>2, <2>3
<1> QED
    BY <1>1, <1>3, <1>4, <1>5

LEMMA CommitUpdates ==
    ASSUME TypeOK, UpdatesInv, NEW d \in Devices, Commit(d)
    PROVE  Preserved(d)
<1> DEFINE m == Queue(d)[Len(results[d]) + 1]
           old == server[m.cafe]
           new == ServerApply(old, m)
<1>1. /\ UNCHANGED <<cache, pending, switches, currentUser, fsUser, isLogin, mainQueue, reads,
                     rows>>
      /\ server' = server \/ server' = [server EXCEPT ![m.cafe] = new]
    BY DEF Commit, authVars, listVars
<1>2. /\ m \in GoodWrites /\ m.cafe \in Cafes /\ old \in Document \cup {NoDoc}
    <2>1. Len(results[d]) < Len(Queue(d)) /\ Len(results[d]) \in Nat
        BY DEF Commit, TypeOK
    <2>2. Queue(d) \in Seq(GoodWrites)
        BY Parts DEF Queue, TypeOK
    <2>3. m \in GoodWrites
        BY <2>1, <2>2
    <2> QED
        BY <2>1, <2>3, SentWrite
<1>3. DocumentsStay /\ CacheInv'
    BY CommitAnswers, Parts
<1>4. Keeps
    BY <1>1, <1>3, CommitKeeps
<1>5. UserInv(d)'
    <2>1. OfUser(d)' = OfUser(d)
        BY <1>1 DEF OfUser
    <2> QED
        BY <2>1, Parts, SameUser
<1>6. QueuesInv(d)'
    BY <1>1, <1>4, Parts, QueuesKept
<1>7. FoundInv(d)'
    BY <1>1, <1>4, Parts, FoundKept
<1> HIDE DEF m
<1>8. \A u \in Users : new.users[u] <= 1
    <2>1. old # NoDoc => \A u \in Users : old.users[u] <= 1
        BY <1>2, Parts DEF NoDuplicates
    <2> QED
        BY <1>2, <2>1, AppliedOnce
<1>9. NoDuplicates'
    <2>1. CASE server' = server
        BY <2>1, Parts, SameServer
    <2>2. CASE server' = [server EXCEPT ![m.cafe] = new]
        <3> HIDE DEF new
        <3>1. \A c \in Cafes : server'[c] = IF c = m.cafe THEN new ELSE server[c]
            BY <2>2 DEF TypeOK
        <3> QED
            BY <1>8, <3>1, Parts DEF NoDuplicates
    <2> QED
        BY <1>1, <2>1, <2>2
<1> QED
    BY <1>4, <1>5, <1>6, <1>7, <1>9 DEF Preserved, DeviceInv

LEMMA AcknowledgeUpdates ==
    ASSUME TypeOK, UpdatesInv, NEW d \in Devices, Acknowledge(d)
    PROVE  Preserved(d)
<1> DEFINE m == Head(Own(d))
<1>1. /\ Own(d) \in Seq(Mutation) /\ Own(d) # <<>> /\ Own(d) = Queue(d) /\ m.cafe \in Cafes
      /\ pending' = [pending EXCEPT ![d][currentUser[d]] = Tail(Own(d))]
      /\ currentUser[d] \in Owners
      /\ UNCHANGED <<server, mainQueue, reads, rows>>
    BY Parts, AcknowledgeFacts
<1>2. Keeps
    BY Parts, AcknowledgeKeeps
<1>3. UserInv(d)'
    BY Parts, AcknowledgeUser
<1>4. Own(d) \in Seq(GoodWrites) /\ Found(Documented, Own(d))
    BY <1>1, Parts DEF Own, FoundInv
<1>5. Tail(Own(d)) \in Seq(GoodWrites)
    BY <1>1, <1>4
<1>6. \A o \in Owners :
          pending'[d][o] = IF o = currentUser[d] THEN Tail(Own(d)) ELSE pending[d][o]
    BY <1>1 DEF TypeOK
<1>7. \A o \in Owners : pending'[d][o] \in Seq(GoodWrites)
    BY <1>5, <1>6, Parts
<1>8. QueuesInv(d)'
    BY <1>1, <1>2, <1>7, Parts, QueuesKept
<1>9. m.op = "set" => m.cafe \in Documented
    BY <1>1, Parts, AcknowledgeAnswers DEF Documented
<1>10. FoundInv(d)'
    <2>1. Found(Documented, Tail(Own(d)))
        BY <1>1, <1>4, <1>9, FoundTail
    <2>2. \A o \in Owners : Found(Documented, pending'[d][o])
        BY <1>6, <2>1, Parts DEF FoundInv
    <2>3. Documented' = Documented
        BY <1>1 DEF Documented
    <2> QED
        BY <2>2, <2>3 DEF FoundInv
<1> QED
    BY <1>1, <1>2, <1>3, <1>8, <1>10, Parts, SameServer DEF Preserved, DeviceInv

LEMMA RelaunchUpdates ==
    ASSUME TypeOK, UpdatesInv, NEW d \in Devices, Relaunch(d)
    PROVE  Preserved(d)
<1> DEFINE note == [type |-> "auth", uid |-> currentUser[d]]
<1>1. /\ UNCHANGED <<server, cache, pending, currentUser>>
      /\ mainQueue'[d] = <<note>>
      /\ \A c \in Cafes : rows'[d][c] = NoDoc /\ reads'[d][c] = <<>>
    BY DEF Relaunch, TypeOK
<1>2. Keeps
    BY <1>1, Parts, SameKeeps
<1>3. note \in GoodMessages(HeldBy(d), SafeFor(d))
    BY DEF GoodMessages, Messages, AuthNote, ReplyIn, TypeOK
<1>4. mainQueue'[d] \in Seq(GoodMessages(HeldBy(d), SafeFor(d)))
    <2> HIDE DEF note
    <2> QED
        BY <1>1, <1>3
<1>5. \A c \in Cafes : reads'[d][c] \in Seq(GoodReads(HeldBy(d), c))
    <2>1. \A S : <<>> \in Seq(S)
        OBVIOUS
    <2> QED
        BY <1>1, <2>1
<1>6. QueuesInv(d)'
    BY <1>1, <1>2, <1>4, <1>5, Parts, QueuesKept
<1>7. UserInv(d)'
    BY Parts, RelaunchUser
<1>8. FoundInv(d)'
    BY <1>1, <1>2, Parts, FoundKept
<1> QED
    BY <1>1, <1>2, <1>6, <1>7, <1>8, Parts, SameServer DEF Preserved, DeviceInv

-----------------------------------------------------------------------------
LEMMA StepUpdates ==
    ASSUME TypeOK, UpdatesInv, MaxSwitches <= 1, NEW d \in Devices, Step(d)
    PROVE  Preserved(d)
<1>1. CASE UserStep(d)
    <2>1. ASSUME NEW c \in Cafes, TapInHome(d, c) PROVE Preserved(d)
        <3>1. NoCopies \in Copies
            BY DEF NoCopies, Copies
        <3> QED
            BY <2>1, <3>1, TapUpdates DEF TapInHome
    <2>2. ASSUME NEW c \in Cafes, TapInMyCollected(d, c) PROVE Preserved(d)
        <3>1. rows[d][c] \in Copies /\ c \in HeldBy(d)
            BY <2>2, Parts DEF TapInMyCollected, TypeOK
        <3> QED
            BY <2>2, <3>1, TapUpdates DEF TapInMyCollected
    <2>3. CASE GetCafes(d)
        <3>1. \A c \in Cafes : rows'[d][c] = NoDoc
            BY <2>3 DEF GetCafes, TypeOK
        <3>2. /\ UNCHANGED <<server, pending, currentUser, fsUser, isLogin, switches, reads, mainQueue>>
              /\ cache' = cache
            BY <2>3 DEF GetCafes, storeVars, authVars
        <3> QED
            BY <3>1, <3>2, ListUpdates
    <2>4. ASSUME NEW u \in Users, SignIn(d, u) PROVE Preserved(d)
        BY <2>4, SignInUpdates
    <2> QED
        BY <1>1, <2>1, <2>2, <2>3, <2>4, NoSignOut DEF UserStep
<1>2. CASE MainQueueStep(d)
    BY <1>2, CheckUpdates, AddUpdates, AuthUpdates DEF MainQueueStep
<1>3. CASE FirestoreStep(d)
    <2>1. ASSUME NEW c \in Cafes, CafeCellRead(d, c) PROVE Preserved(d)
        <3>1. online[d] /\ cache' = [cache EXCEPT ![d][c] = server[c]]
            BY <2>1 DEF CafeCellRead
        <3>2. Known(d, c) = server[c]
            BY <3>1 DEF Known
        <3>3. \A e \in Devices, b \in Cafes :
                  cache'[e][b] = IF e = d /\ b = c THEN Known(d, c) ELSE cache[e][b]
            BY <3>1, <3>2 DEF TypeOK
        <3>4. UNCHANGED <<server, pending, currentUser, fsUser, isLogin, switches, reads, mainQueue,
                          rows>>
            BY <2>1 DEF CafeCellRead, authVars, listVars
        <3> QED
            BY <3>3, <3>4, Parts, ListUpdates
    <2> QED
        BY <1>3, <2>1, AnswerUpdates, GetCafesReplyUpdates, CommitUpdates, AcknowledgeUpdates
        DEF FirestoreStep
<1>4. CASE EnvironmentStep(d)
    <2>1. CASE Disconnect(d) \/ Reconnect(d)
        <3>1. UNCHANGED <<server, cache, pending, currentUser, fsUser, isLogin, switches, reads,
                          mainQueue, rows>>
            BY <2>1 DEF Disconnect, Reconnect, storeVars, authVars, listVars
        <3> QED
            BY <3>1, Parts, ListUpdates
    <2> QED
        BY <1>4, <2>1, RelaunchUpdates DEF EnvironmentStep
<1> QED
    BY <1>1, <1>2, <1>3, <1>4 DEF Step

LEMMA OthersUpdates ==
    ASSUME TypeOK, UpdatesInv, NEW d \in Devices, NEW e \in Devices, e # d, Step(d), Keeps
    PROVE  DeviceInv(e)'
<1>1. OfUser(e)' = OfUser(e) /\ rows'[e] = rows[e]
    BY OthersSameUser
<1>2. UserInv(e)'
    BY <1>1, Parts, SameUser
<1>3. reads'[e] = reads[e] /\ mainQueue'[e] = mainQueue[e] /\ pending'[e] = pending[e]
    BY <1>1 DEF OfUser
<1>4. QueuesInv(e)'
    BY <1>1, <1>3, Parts, QueuesKept
<1>5. FoundInv(e)'
    BY <1>3, Parts, FoundKept
<1> QED
    BY <1>2, <1>4, <1>5 DEF DeviceInv

LEMMA NextUpdatesInv ==
    ASSUME TypeOK, UpdatesInv, MaxSwitches <= 1, [Next]_vars
    PROVE  UpdatesInv'
<1>1. ResultsInv'
    BY ResultsStep DEF UpdatesInv
<1>2. ASSUME NEW d \in Devices, Step(d) PROVE UpdatesInv'
    <2>1. Preserved(d)
        BY <1>2, StepUpdates
    <2>2. \A e \in Devices : DeviceInv(e)'
        BY <1>2, <2>1, OthersUpdates DEF Preserved
    <2> QED
        BY <1>1, <2>1, <2>2 DEF Preserved, Keeps, UpdatesInv
<1>3. ASSUME UNCHANGED vars PROVE UpdatesInv'
    <2>1. /\ UNCHANGED <<server, cache, pending, currentUser, fsUser, isLogin, switches, reads,
                         mainQueue, rows>>
        BY <1>3 DEF vars
    <2>2. ASSUME NEW d \in Devices PROVE Preserved(d)
        BY <2>1, Parts, ListUpdates
    <2>3. CacheInv'
        BY <2>1 DEF UpdatesInv, CacheInv
    <2>4. NoDuplicates'
        BY <2>1, SameServer DEF UpdatesInv
    <2> QED
        BY <1>1, <2>2, <2>3, <2>4 DEF Preserved, UpdatesInv
<1> QED
    BY <1>2, <1>3 DEF Next, Step

LEMMA InitUpdatesInv == Init => UpdatesInv
<1> SUFFICES ASSUME Init PROVE UpdatesInv
    OBVIOUS
<1>1. CacheInv /\ ResultsInv
    BY DEF Init, CacheInv, ResultsInv, ResponsesOf
<1>2. NoDuplicates
    BY DEF Init, NoDuplicates, NoCopies
<1>3. ASSUME NEW d \in Devices PROVE DeviceInv(d)
    <2>1. /\ rows[d] = [c \in Cafes |-> NoDoc] /\ reads[d] = [c \in Cafes |-> <<>>]
          /\ mainQueue[d] = <<>> /\ pending[d] = [o \in Owners |-> <<>>]
          /\ switches[d] = 0 /\ currentUser[d] = NoUser /\ fsUser[d] = NoUser /\ isLogin[d] = FALSE
        BY DEF Init
    <2>2. CaughtUpAfter(d, 0) /\ 0 \in 0 .. Len(mainQueue[d])
        BY <2>1 DEF CaughtUpAfter
    <2>3. \E k \in 0 .. Len(mainQueue[d]) : CaughtUpAfter(d, k) /\ (k # 0 => Own(d) = <<>>)
        BY <2>2
    <2>4. UserInv(d)
        BY <2>1, <2>3 DEF UserInv
    <2>5. QueuesInv(d)
        BY <2>1 DEF QueuesInv
    <2>6. FoundInv(d)
        BY <2>1 DEF FoundInv, Found
    <2> QED
        BY <2>4, <2>5, <2>6 DEF DeviceInv
<1> QED
    BY <1>1, <1>2, <1>3 DEF UpdatesInv

LEMMA UpdatesInvHolds ==
    ASSUME MaxSwitches <= 1
    PROVE  Spec => []UpdatesInv
<1>1. TypeOK /\ UpdatesInv /\ [Next]_vars => UpdatesInv'
    BY NextUpdatesInv
<1> QED
    BY <1>1, InitUpdatesInv, TypeCorrect, PTL DEF Spec

(* On devices whose user changes at most once no favourite is dropped for  *)
(* want of its document: an update is only queued for a document its       *)
(* device has seen, which is on the server or in the same queue before it. *)
THEOREM UpdatesAlwaysFindTheirDocument ==
    ASSUME MaxSwitches <= 1
    PROVE  Spec => []UpdatesFindTheirDocument
<1>1. TypeOK /\ UpdatesInv => UpdatesFindTheirDocument
    <2> SUFFICES ASSUME TypeOK, UpdatesInv, NEW d \in Devices, NEW o \in Owners,
                        NEW i \in DOMAIN pending[d][o]
                 PROVE  \/ pending[d][o][i].op = "set"
                        \/ server[pending[d][o][i].cafe] # NoDoc
                        \/ \E j \in 1 .. i - 1 :
                              /\ pending[d][o][j].cafe = pending[d][o][i].cafe
                              /\ pending[d][o][j].op = "set"
        BY DEF UpdatesFindTheirDocument
    <2>1. Found(Documented, pending[d][o])
        BY Parts DEF FoundInv
    <2> QED
        BY <2>1 DEF Found, Documented
<1> QED
    BY <1>1, UpdatesInvHolds, TypeCorrect, PTL

(* And nobody is listed twice: a setData appends a user only to a cafe that *)
(* was listed without any, for the document of another one would be seen.  *)
THEOREM NobodyIsListedTwice ==
    ASSUME MaxSwitches <= 1
    PROVE  Spec => []NoDuplicates
<1>1. UpdatesInv => NoDuplicates
    BY DEF UpdatesInv
<1> QED
    BY <1>1, UpdatesInvHolds, PTL
-----------------------------------------------------------------------------
(***************************************************************************)
(* The queue a write joins.  Firestore works for the user there is unless  *)
(* this user is still to be announced to it, by the last notification of   *)
(* the main queue; however often the user changes.                         *)
(***************************************************************************)
LastNote(q, working, user, k) ==
    /\ IF k = 0 THEN working = user ELSE q[k].type = "auth" /\ q[k].uid = user
    /\ \A i \in DOMAIN q : i > k => q[i].type # "auth"

NotesInv(d) == \E k \in 0 .. Len(mainQueue[d]) :
                   LastNote(mainQueue[d], fsUser[d], currentUser[d], k)

LEMMA NotePosted ==
    ASSUME NEW q \in Seq(Messages), NEW u \in Owners, NEW working
    PROVE  LET p == Append(q, [type |-> "auth", uid |-> u])
           IN  \E k \in 0 .. Len(p) : LastNote(p, working, u, k)
<1> DEFINE note == [type |-> "auth", uid |-> u]
           p == Append(q, note)
<1>1. /\ Len(p) = Len(q) + 1 /\ Len(q) \in Nat /\ DOMAIN p = 1 .. Len(q) + 1
      /\ p[Len(q) + 1] = note
    OBVIOUS
<1>2. note.type = "auth" /\ note.uid = u
    OBVIOUS
<1> HIDE DEF p, note
<1>3. LastNote(p, working, u, Len(q) + 1)
    BY <1>1, <1>2 DEF LastNote
<1>4. Len(q) + 1 \in 0 .. Len(p)
    BY <1>1
<1> QED
    BY <1>3, <1>4 DEF p, note

LEMMA RepliesPosted ==
    ASSUME NEW q \in Seq(Messages), NEW r \in Seq(Reply), NEW working, NEW u,
           NEW k \in 0 .. Len(q), LastNote(q, working, u, k)
    PROVE  \E j \in 0 .. Len(q \o r) : LastNote(q \o r, working, u, j)
<1> DEFINE p == q \o r
<1>1. \A i \in 1 .. Len(r) : r[i] \in Reply
    OBVIOUS
<1>2. \A i \in 1 .. Len(r) : r[i].type # "auth"
    BY <1>1 DEF Reply
<1>3. /\ Len(q) \in Nat /\ Len(r) \in Nat /\ Len(p) = Len(q) + Len(r)
      /\ DOMAIN p = 1 .. Len(q) + Len(r) /\ DOMAIN q = 1 .. Len(q)
      /\ \A i \in DOMAIN p : p[i] = IF i <= Len(q) THEN q[i] ELSE r[i - Len(q)]
    OBVIOUS
<1> HIDE DEF p
<1>4. k \in 0 .. Len(p) /\ (k # 0 => p[k] = q[k])
    BY <1>3
<1>5. ASSUME NEW i \in DOMAIN p, i > k
      PROVE  p[i].type # "auth"
    <2>1. CASE i <= Len(q)
        BY <1>3, <1>5, <2>1 DEF LastNote
    <2>2. CASE ~(i <= Len(q))
        <3>1. i - Len(q) \in 1 .. Len(r) /\ p[i] = r[i - Len(q)]
            BY <1>3, <1>5, <2>2
        <3> QED
            BY <1>2, <3>1
    <2> QED
        BY <2>1, <2>2
<1>6. LastNote(p, working, u, k)
    BY <1>4, <1>5 DEF LastNote
<1> QED
    BY <1>4, <1>6 DEF p

LEMMA HeadTaken ==
    ASSUME NEW q \in Seq(Messages), q # <<>>, NEW working, NEW u,
           NEW k \in 0 .. Len(q), LastNote(q, working, u, k)
    PROVE  LET next == IF Head(q).type = "auth" THEN Head(q).uid ELSE working
           IN  \E j \in 0 .. Len(Tail(q)) : LastNote(Tail(q), next, u, j)
<1> DEFINE p == Tail(q)
           next == IF q[1].type = "auth" THEN q[1].uid ELSE working
           j == IF k = 0 THEN 0 ELSE k - 1
<1>1. /\ Len(q) \in Nat \ {0} /\ Len(p) = Len(q) - 1 /\ Head(q) = q[1]
      /\ DOMAIN p = 1 .. Len(q) - 1 /\ DOMAIN q = 1 .. Len(q)
      /\ \A i \in 1 .. Len(q) - 1 : p[i] = q[i + 1]
    OBVIOUS
<1> HIDE DEF p
<1>2. j \in 0 .. Len(p)
    BY <1>1
<1>3. ASSUME NEW i \in DOMAIN p, i > j
      PROVE  p[i].type # "auth"
    <2>1. i + 1 \in DOMAIN q /\ i + 1 > k /\ p[i] = q[i + 1]
        BY <1>1, <1>3
    <2> QED
        BY <2>1 DEF LastNote
<1>4. CASE k = 0
    <2>1. q[1].type # "auth" /\ working = u
        BY <1>1, <1>4 DEF LastNote
    <2> QED
        BY <1>1, <1>2, <1>3, <1>4, <2>1 DEF LastNote, p
<1>5. CASE k = 1
    <2>1. q[1].type = "auth" /\ q[1].uid = u
        BY <1>5 DEF LastNote
    <2> QED
        BY <1>1, <1>2, <1>3, <1>5, <2>1 DEF LastNote, p
<1>6. CASE k > 1
    <2>1. j # 0 /\ p[j] = q[k]
        BY <1>1, <1>6
    <2>2. q[k].type = "auth" /\ q[k].uid = u
        BY <1>6 DEF LastNote
    <2>3. LastNote(p, next, u, j)
        BY <1>3, <2>1, <2>2 DEF LastNote
    <2> QED
        BY <1>1, <1>2, <2>3 DEF p
<1> QED
    BY <1>4, <1>5, <1>6

LEMMA NotesStep ==
    ASSUME TypeOK, NEW d \in Devices, NotesInv(d), Step(d)
    PROVE  NotesInv(d)'
<1> DEFINE q == mainQueue[d]
<1>0. PICK k \in 0 .. Len(q) : LastNote(q, fsUser[d], currentUser[d], k)
    BY DEF NotesInv
<1>1. q \in Seq(Messages)
    BY DEF TypeOK, Messages
<1>2. ASSUME UNCHANGED <<mainQueue, fsUser, currentUser>>
      PROVE  NotesInv(d)'
    BY <1>2 DEF NotesInv
<1>3. CASE (\E u \in Users : SignIn(d, u)) \/ SignOut(d)
    <2>1. PICK u \in Owners : /\ currentUser' = [currentUser EXCEPT ![d] = u]
                              /\ PostAuthNote(d, u) /\ fsUser' = fsUser
        BY <1>3 DEF SignIn, SignOut, Owners
    <2>2. mainQueue'[d] = Append(q, [type |-> "auth", uid |-> u]) /\ currentUser'[d] = u
        BY <2>1 DEF PostAuthNote, TypeOK
    <2>3. \E j \in 0 .. Len(mainQueue'[d]) : LastNote(mainQueue'[d], fsUser[d], u, j)
        <3> HIDE DEF q
        <3> QED
            BY <1>1, <2>2, NotePosted
    <2> QED
        BY <2>1, <2>2, <2>3 DEF NotesInv
<1>4. CASE MainQueueStep(d)
    <2>1. /\ q # <<>> /\ mainQueue'[d] = Tail(q) /\ currentUser'[d] = currentUser[d]
          /\ fsUser'[d] = IF Head(q).type = "auth" THEN Head(q).uid ELSE fsUser[d]
        BY <1>4 DEF MainQueueStep, CheckReply, AddReply, AuthStateDidChange, authVars, TypeOK
    <2>2. \E j \in 0 .. Len(Tail(q)) : LastNote(Tail(q), fsUser'[d], currentUser[d], j)
        <3> HIDE DEF q
        <3> QED
            BY <1>0, <1>1, <2>1, HeadTaken
    <2> HIDE DEF q
    <2> QED
        BY <2>1, <2>2 DEF NotesInv
<1>5. ASSUME NEW c \in Cafes, AnswerReads(d, c)
      PROVE  NotesInv(d)'
    <2> DEFINE waiting == reads[d][c]
               replies == [i \in 1 .. Len(waiting) |-> ReplyTo(waiting[i], Seen(d, c))]
    <2>1. replies \in Seq(Reply)
        <3>1. waiting \in Seq(Read) /\ Seen(d, c) \in Document \cup {NoDoc}
            BY SeenType DEF TypeOK
        <3> HIDE DEF waiting
        <3>2. \A i \in 1 .. Len(waiting) : ReplyTo(waiting[i], Seen(d, c)) \in Reply
            BY <3>1, AnswerType
        <3> QED
            BY <3>1, <3>2
    <2>2. /\ mainQueue'[d] = q \o replies
          /\ fsUser' = fsUser /\ currentUser' = currentUser
        BY <1>5 DEF AnswerReads, authVars, TypeOK
    <2> HIDE DEF replies, q
    <2>3. \E j \in 0 .. Len(q \o replies) : LastNote(q \o replies, fsUser[d], currentUser[d], j)
        BY <1>0, <1>1, <2>1, RepliesPosted
    <2> QED
        BY <2>2, <2>3 DEF NotesInv
<1>6. CASE Relaunch(d)
    <2> DEFINE p == <<[type |-> "auth", uid |-> currentUser[d]]>>
    <2>1. mainQueue'[d] = p /\ currentUser' = currentUser
        BY <1>6 DEF Relaunch, TypeOK
    <2>2. /\ Len(p) = 1 /\ DOMAIN p = {1}
          /\ p[1].type = "auth" /\ p[1].uid = currentUser[d]
        OBVIOUS
    <2> HIDE DEF p
    <2>3. LastNote(mainQueue'[d], fsUser'[d], currentUser'[d], 1)
        BY <2>1, <2>2 DEF LastNote
    <2>4. 1 \in 0 .. Len(mainQueue'[d])
        BY <2>1, <2>2
    <2> QED
        BY <2>3, <2>4 DEF NotesInv
<1>7. CASE \/ \E c \in Cafes : TapInHome(d, c) \/ TapInMyCollected(d, c) \/ CafeCellRead(d, c)
           \/ GetCafes(d) \/ GetCafesReply(d) \/ Commit(d) \/ Acknowledge(d)
           \/ Disconnect(d) \/ Reconnect(d)
    BY <1>2, <1>7 DEF TapInHome, TapInMyCollected, DidClickCollectButton, CafeCellRead, GetCafes,
       GetCafesReply, Commit, Acknowledge, Disconnect, Reconnect, authVars
<1> QED
    BY <1>3, <1>4, <1>5, <1>6, <1>7 DEF Step, UserStep, FirestoreStep, EnvironmentStep

(* Only the two callbacks of a reply write, and each writes once, to the   *)
(* queue Firestore works on.                                               *)
LEMMA OnlyRepliesWrite ==
    ASSUME TypeOK, NEW d \in Devices, Step(d), NEW e \in Devices, NEW o \in Owners,
           Len(pending'[e][o]) > Len(pending[e][o])
    PROVE  e = d /\ o = fsUser[d]
<1>1. Len(pending[e][o]) \in Nat
    BY DEF TypeOK
<1>2. e = d
    <2>1. e # d => pending'[e] = pending[e]
        BY OthersSameUser DEF OfUser
    <2> QED
        BY <1>1, <2>1
<1>3. o # fsUser[d] => pending'[d][o] = pending[d][o]
    <2>1. CASE MainQueueStep(d)
        <3>1. pending \in [Devices -> [Owners -> Seq(Mutation)]]
            BY DEF TypeOK
        <3>2. \A m : Enqueue(d, m) => (o # fsUser[d] => pending'[d][o] = pending[d][o])
            BY <3>1 DEF Enqueue
        <3>3. CheckReply(d) => pending' = pending \/ \E m : Enqueue(d, m)
            BY Zenon DEF CheckReply
        <3>4. AddReply(d) => \E m : Enqueue(d, m)
            BY Zenon DEF AddReply
        <3>5. AuthStateDidChange(d) => pending' = pending
            BY DEF AuthStateDidChange
        <3> QED
            BY <2>1, <3>2, <3>3, <3>4, <3>5 DEF MainQueueStep
    <2>2. CASE UserStep(d)
        BY <2>2 DEF UserStep, TapInHome, TapInMyCollected, DidClickCollectButton, GetCafes, SignIn,
           SignOut, storeVars
    <2>3. CASE FirestoreStep(d)
        <3>1. (\E c \in Cafes : AnswerReads(d, c) \/ CafeCellRead(d, c)) => pending' = pending
            BY DEF AnswerReads, CafeCellRead
        <3>2. GetCafesReply(d) \/ Commit(d) => pending' = pending
            BY DEF GetCafesReply, Commit
        <3>3. Acknowledge(d) => pending' = [pending EXCEPT ![d][fsUser[d]] = Tail(@)]
            BY Zenon DEF Acknowledge
        <3>4. pending \in [Devices -> [Owners -> Seq(Mutation)]]
            BY DEF TypeOK
        <3> QED
            BY <2>3, <3>1, <3>2, <3>3, <3>4 DEF FirestoreStep
    <2>4. CASE EnvironmentStep(d)
        BY <2>4 DEF EnvironmentStep, Disconnect, Reconnect, Relaunch, storeVars
    <2> QED
        BY <2>1, <2>2, <2>3, <2>4 DEF Step
<1> QED
    BY <1>1, <1>2, <1>3

LEMMA WriteJoins ==
    ASSUME TypeOK, \A d \in Devices : NotesInv(d), [Next]_vars, NEW e \in Devices, NEW o \in Owners
    PROVE  WriteJoinsItsQueue(e, o)
<1> SUFFICES ASSUME Len(pending'[e][o]) > Len(pending[e][o])
             PROVE  o = currentUser[e] \/ UserIsAnnounced(e)
    BY DEF WriteJoinsItsQueue
<1>1. Len(pending[e][o]) \in Nat
    BY DEF TypeOK
<1>2. PICK d \in Devices : Step(d)
    BY <1>1 DEF Next, Step, vars
<1>3. o = fsUser[e]
    BY <1>2, OnlyRepliesWrite
<1>4. PICK k \in 0 .. Len(mainQueue[e]) :
          LastNote(mainQueue[e], fsUser[e], currentUser[e], k)
    BY DEF NotesInv
<1>5. CASE k = 0
    BY <1>3, <1>4, <1>5 DEF LastNote
<1>6. CASE k # 0
    <2>1. k \in DOMAIN mainQueue[e]
        BY <1>6 DEF TypeOK
    <2> QED
        BY <1>4, <1>6, <2>1 DEF LastNote, UserIsAnnounced
<1> QED
    BY <1>5, <1>6

(* A write made for the user of the moment joins this user's queue, or the *)
(* user is about to be announced to Firestore; however often users replace *)
(* each other, whatever is lost or killed in between.                      *)
THEOREM WritesAlwaysJoinTheirQueue == Spec => WritesJoinTheirQueue
<1> DEFINE Inv == \A d \in Devices : NotesInv(d)
<1>1. Init => Inv
    <2> SUFFICES ASSUME Init, NEW d \in Devices PROVE NotesInv(d)
        OBVIOUS
    <2>1. mainQueue[d] = <<>> /\ fsUser[d] = currentUser[d]
        BY DEF Init
    <2>2. LastNote(mainQueue[d], fsUser[d], currentUser[d], 0) /\ 0 \in 0 .. Len(mainQueue[d])
        BY <2>1 DEF LastNote
    <2> QED
        BY <2>2 DEF NotesInv
<1>2. TypeOK /\ Inv /\ [Next]_vars => Inv'
    <2> SUFFICES ASSUME TypeOK, Inv, [Next]_vars, NEW e \in Devices PROVE NotesInv(e)'
        OBVIOUS
    <2>1. ASSUME UNCHANGED <<mainQueue[e], fsUser[e], currentUser[e]>>
          PROVE  NotesInv(e)'
        BY <2>1 DEF NotesInv
    <2>2. CASE UNCHANGED vars
        BY <2>1, <2>2 DEF vars
    <2>3. ASSUME NEW d \in Devices, Step(d), d # e
          PROVE  NotesInv(e)'
        BY <2>1, <2>3, OthersSameUser DEF OfUser
    <2>4. ASSUME Step(e)
          PROVE  NotesInv(e)'
        BY <2>4, NotesStep
    <2> QED
        BY <2>2, <2>3, <2>4 DEF Next, Step
<1>3. TypeOK /\ Inv /\ [Next]_vars =>
          [\A d \in Devices, o \in Owners : WriteJoinsItsQueue(d, o)]_vars
    BY WriteJoins
<1> QED
    BY <1>1, <1>2, <1>3, TypeCorrect, PTL DEF Spec, WritesJoinTheirQueue
=============================================================================
