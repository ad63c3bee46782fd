------------------------ MODULE FavoritesStore_proofs ------------------------
(***************************************************************************)
(* Where a device has one user, whose taps wait for one another, and it is *)
(* alone or every cafe has its document, connections hold and nobody else  *)
(* uses its accounts: a collect button shows what the device holds, and    *)
(* Favorites keeps what FavoriteStore promises.                            *)
(***************************************************************************)
EXTENDS Favorites_proofs

(***************************************************************************)
(* Where every document exists no read is answered by "absent", so no      *)
(* setData is made that would wipe out the favourites of others.           *)
(***************************************************************************)
Updates == {m \in Mutation : m.op # "set"}

FoundMessages == {e \in Messages : e.type = "reply" => e.ans # "absent"}

Present == \A c \in Cafes : server[c] # NoDoc
NobodySets == \A d \in Devices, o \in Owners : pending[d][o] \in Seq(Updates)
AllFound == \A d \in Devices : mainQueue[d] \in Seq(FoundMessages)

StoreInv == (\A d \in Devices : online[d]) /\ Present /\ NobodySets /\ AllFound

(* What a step may do to the documents and to the queues of writes.        *)
Asks == \E d \in Devices, m \in Updates : Enqueue(d, m) /\ server' = server
Stores == \/ UNCHANGED <<server, pending>>
          \/ Asks
          \/ \E d \in Devices : Commit(d) \/ Acknowledge(d)

-----------------------------------------------------------------------------
LEMMA HeadFound ==
    ASSUME TypeOK, AllFound, NEW d \in Devices, mainQueue[d] # <<>>
    PROVE  LET e == Head(mainQueue[d]) IN
           /\ e \in Reply \cup AuthNote
           /\ e.type = "reply" => e.ans # "absent"
<1>1. Head(mainQueue[d]) \in FoundMessages
    BY DEF AllFound
<1> QED
    BY <1>1 DEF FoundMessages, Messages

LEMMA NextStores ==
    ASSUME TypeOK, StoreInv, Next
    PROVE  Stores
<1>1. ASSUME NEW d \in Devices, CheckReply(d) PROVE Stores
    <2> DEFINE e == Head(mainQueue[d])
               m == [op |-> "remove", cafe |-> e.read.cafe, uid |-> currentUser[d],
                     users |-> NoCopies]
    <2>1. e \in Reply \cup AuthNote /\ e.type = "reply"
        BY <1>1, HeadFound DEF CheckReply, StoreInv
    <2>2. e.read.cafe \in Cafes
        BY <2>1 DEF Reply, AuthNote, Read
    <2>3. \/ pending' = pending
          \/ currentUser[d] # NoUser /\ Enqueue(d, m)
        BY <1>1 DEF CheckReply
    <2>4. currentUser[d] # NoUser => m \in Updates
        BY <2>2 DEF TypeOK, Owners, Updates, Mutation, Copies, NoCopies
    <2>5. server' = server
        BY <1>1 DEF CheckReply
    <2> HIDE DEF m
    <2> QED
        BY <2>3, <2>4, <2>5 DEF Stores, Asks
<1>2. ASSUME NEW d \in Devices, AddReply(d) PROVE Stores
    <2> DEFINE e == Head(mainQueue[d])
    <2>1. e \in Reply \cup AuthNote /\ e.type = "reply" /\ e.ans # "absent"
        BY <1>2, HeadFound DEF AddReply, StoreInv
    <2>2. e.read.cafe \in Cafes /\ e.read.uid \in Users
        BY <2>1 DEF Reply, AuthNote, Read
    <2>3. AddWrite(e) \in Updates
        BY <2>1, <2>2 DEF AddWrite, Updates, Mutation, Copies, NoCopies
    <2>4. Enqueue(d, AddWrite(e)) /\ server' = server
        BY <1>2 DEF AddReply
    <2> QED
        BY <2>3, <2>4 DEF Stores, Asks
<1>3. ASSUME NEW d \in Devices, Commit(d) \/ Acknowledge(d) PROVE Stores
    BY <1>3 DEF Stores
<1>4. ASSUME NEW d \in Devices,
             UserStep(d) \/ AuthStateDidChange(d) \/ EnvironmentStep(d) \/ GetCafesReply(d)
             \/ \E c \in Cafes : AnswerReads(d, c) \/ CafeCellRead(d, c)
      PROVE  UNCHANGED <<server, pending>>
    BY <1>4 DEF UserStep, TapInHome, TapInMyCollected, DidClickCollectButton, GetCafes, SignIn,
                SignOut, AuthStateDidChange, EnvironmentStep, Disconnect, Reconnect, Relaunch,
                GetCafesReply, AnswerReads, CafeCellRead, storeVars
<1> QED
    BY <1>1, <1>2, <1>3, <1>4 DEF Next, MainQueueStep, FirestoreStep, Stores

(***************************************************************************)
(* The invariant.                                                          *)
(***************************************************************************)
LEMMA InitStoreInv ==
    ASSUME Preexisting = Cafes, Init
    PROVE  StoreInv
<1>1. \A c \in Cafes : server[c] \in Document
    BY DEF Init, Document, Copies, NoCopies
<1>2. Present
    BY <1>1, NoDocAssumption DEF Present
<1>3. AllFound
    BY DEF Init, AllFound
<1>4. NobodySets /\ \A d \in Devices : online[d]
    BY DEF Init, NobodySets
<1> QED
    BY <1>2, <1>3, <1>4 DEF StoreInv
LEMMA PresentStep ==
    ASSUME TypeOK, StoreInv, Stores
    PROVE  Present'
<1>1. ASSUME NEW d \in Devices, Commit(d) PROVE Present'
    <2> DEFINE m == Queue(d)[Len(results[d]) + 1]
               new == ServerApply(server[m.cafe], m)
    <2>1. m \in Mutation /\ m.cafe \in Cafes /\ server[m.cafe] \in Document \cup {NoDoc}
        BY <1>1, SentWrite DEF Commit
    <2>2. server' = server \/ server' = [server EXCEPT ![m.cafe] = new]
        BY <1>1 DEF Commit
    <2> HIDE DEF m
    <2>3. new # NoDoc
        BY <2>1, ServerApplyType, NoDocAssumption
    <2> HIDE DEF new
    <2> QED
        BY <2>2, <2>3 DEF TypeOK, StoreInv, Present
<1>2. ASSUME NEW d \in Devices, Acknowledge(d) PROVE Present'
    BY <1>2 DEF Acknowledge, StoreInv, Present
<1> QED
    BY <1>1, <1>2 DEF Stores, Asks, StoreInv, Present

LEMMA NobodySetsStep ==
    ASSUME TypeOK, StoreInv, Stores
    PROVE  NobodySets'
<1>1. ASSUME NEW d \in Devices, NEW m \in Updates, Enqueue(d, m) PROVE NobodySets'
    <2>1. pending[d][fsUser[d]] \in Seq(Updates)
        BY DEF TypeOK, StoreInv, NobodySets
    <2>2. Append(pending[d][fsUser[d]], m) \in Seq(Updates)
        BY <2>1
    <2> QED
        BY <1>1, <2>2 DEF Enqueue, TypeOK, StoreInv, NobodySets
<1>2. ASSUME NEW d \in Devices, Acknowledge(d) PROVE NobodySets'
    <2>1. pending' = [pending EXCEPT ![d][fsUser[d]] = Tail(@)]
        BY <1>2 DEF Acknowledge
    <2>2. Queue(d) \in Seq(Updates) /\ Queue(d) # <<>>
        BY <1>2, AnsweredWrite DEF Acknowledge, TypeOK, StoreInv, NobodySets, Queue
    <2>3. Tail(pending[d][fsUser[d]]) \in Seq(Updates)
        BY <2>2 DEF Queue
    <2> QED
        BY <2>1, <2>3 DEF TypeOK, StoreInv, NobodySets
<1>3. ASSUME NEW d \in Devices, Commit(d) PROVE NobodySets'
    BY <1>3 DEF Commit, StoreInv, NobodySets
<1> QED
    BY <1>1, <1>2, <1>3 DEF Stores, Asks, StoreInv, NobodySets

LEMMA SeenPresent ==
    ASSUME TypeOK, StoreInv, NEW d \in Devices, NEW c \in Cafes
    PROVE  Seen(d, c) # NoDoc
<1>1. Known(d, c) # NoDoc
    BY DEF Known, StoreInv, Present
<1> QED
    BY <1>1, SeenType, ViewType DEF Seen

LEMMA FoundStep ==
    ASSUME TypeOK, StoreInv, Next
    PROVE  AllFound'
<1>1. ASSUME NEW d \in Devices, NEW q \in Seq(FoundMessages),
             mainQueue' = [mainQueue EXCEPT ![d] = q]
      PROVE  AllFound'
    BY <1>1 DEF TypeOK, StoreInv, AllFound
<1>2. ASSUME mainQueue' = mainQueue PROVE AllFound'
    BY <1>2 DEF StoreInv, AllFound
<1>3. ASSUME NEW d \in Devices, MainQueueStep(d) PROVE AllFound'
    <2>1. mainQueue[d] # <<>> /\ mainQueue' = [mainQueue EXCEPT ![d] = Tail(mainQueue[d])]
        BY <1>3 DEF MainQueueStep, CheckReply, AddReply, AuthStateDidChange
    <2>2. Tail(mainQueue[d]) \in Seq(FoundMessages)
        BY <2>1 DEF StoreInv, AllFound
    <2> QED
        BY <1>1, <2>1, <2>2
<1>4. ASSUME NEW d \in Devices, NEW u \in Owners, PostAuthNote(d, u) PROVE AllFound'
    <2> DEFINE note == [type |-> "auth", uid |-> u]
    <2>1. note \in FoundMessages
        BY DEF FoundMessages, Messages, AuthNote
    <2>2. mainQueue' = [mainQueue EXCEPT ![d] = Append(mainQueue[d], note)]
        BY <1>4 DEF PostAuthNote
    <2>3. Append(mainQueue[d], note) \in Seq(FoundMessages)
        BY <2>1 DEF StoreInv, AllFound
    <2> HIDE DEF note
    <2> QED
        BY <1>1, <2>2, <2>3
<1>5. ASSUME NEW d \in Devices, NEW c \in Cafes, AnswerReads(d, c) PROVE AllFound'
    <2> DEFINE waiting == reads[d][c]
               replies == [i \in 1 .. Len(waiting) |-> ReplyTo(waiting[i], Seen(d, c))]
    <2>1. waiting \in Seq(Read)
        BY DEF TypeOK
    <2>2. \A r \in Read : ReplyTo(r, Seen(d, c)) \in FoundMessages
        BY SeenPresent DEF ReplyTo, AnswerTo, FoundMessages, Messages, Reply, Answer
    <2>3. mainQueue' = [mainQueue EXCEPT ![d] = mainQueue[d] \o replies]
        BY <1>5 DEF AnswerReads
    <2> HIDE DEF waiting
    <2>4. replies \in Seq(FoundMessages)
        BY <2>1, <2>2
    <2> HIDE DEF replies
    <2>5. mainQueue[d] \o replies \in Seq(FoundMessages)
        BY <2>4, Joined DEF StoreInv, AllFound
    <2> QED
        BY <1>1, <2>3, <2>5
<1>6. ASSUME NEW d \in Devices, Relaunch(d) PROVE AllFound'
    <2> DEFINE note == [type |-> "auth", uid |-> currentUser[d]]
    <2>1. note \in FoundMessages
        BY DEF FoundMessages, Messages, AuthNote, TypeOK
    <2>2. mainQueue' = [mainQueue EXCEPT ![d] = <<note>>]
        BY <1>6 DEF Relaunch
    <2>3. <<note>> \in Seq(FoundMessages)
        BY <2>1
    <2> HIDE DEF note
    <2> QED
        BY <1>1, <2>2, <2>3
<1>7. ASSUME NEW d \in Devices,
             \/ \E c \in Cafes : TapInHome(d, c) \/ TapInMyCollected(d, c) \/ CafeCellRead(d, c)
             \/ GetCafes(d) \/ GetCafesReply(d) \/ Commit(d) \/ Acknowledge(d) \/ Disconnect(d) \/ Reconnect(d)
      PROVE  AllFound'
    <2>1. mainQueue' = mainQueue
        BY <1>7 DEF TapInHome, TapInMyCollected, DidClickCollectButton, CafeCellRead, GetCafes,
                    GetCafesReply, Commit, Acknowledge, Disconnect,
                    Reconnect
    <2> QED
        BY <1>2, <2>1
<1>8. ASSUME NEW d \in Devices, SignOut(d) \/ \E u \in Users : SignIn(d, u) PROVE AllFound'
    <2>1. PICK u \in Owners : PostAuthNote(d, u)
        BY <1>8 DEF SignIn, SignOut, Owners
    <2> QED
        BY <1>4, <2>1
<1> QED
    BY <1>3, <1>5, <1>6, <1>7, <1>8 DEF Next, UserStep, FirestoreStep, EnvironmentStep

LEMMA OnlineStep ==
    ASSUME Flaky = {}, TypeOK, StoreInv, Next
    PROVE  \A d \in Devices : online'[d]
<1>1. ASSUME NEW d \in Devices, UserStep(d) PROVE online' = online
    BY <1>1 DEF UserStep, TapInHome, TapInMyCollected, DidClickCollectButton, GetCafes, SignIn,
                SignOut
<1>2. ASSUME NEW d \in Devices, MainQueueStep(d) \/ FirestoreStep(d) PROVE online' = online
    BY <1>2 DEF MainQueueStep, CheckReply, AddReply, AuthStateDidChange, FirestoreStep,
                AnswerReads, CafeCellRead, GetCafesReply, Commit, Acknowledge
<1>3. ASSUME NEW d \in Devices, EnvironmentStep(d) PROVE online' = online
    BY <1>3 DEF EnvironmentStep, Disconnect, Reconnect, Relaunch, StoreInv
<1> QED
    BY <1>1, <1>2, <1>3 DEF Next, StoreInv

LEMMA StoreInvStep ==
    ASSUME Flaky = {}, TypeOK, StoreInv, [Next]_vars
    PROVE  StoreInv'
<1>1. CASE Next
    BY <1>1, NextStores, PresentStep, NobodySetsStep, FoundStep, OnlineStep DEF StoreInv
<1>2. CASE UNCHANGED vars
    BY <1>2 DEF vars, StoreInv, Present, NobodySets, AllFound
<1> QED
    BY <1>1, <1>2

-----------------------------------------------------------------------------
(***************************************************************************)
(* The document of a cafe under the writes of one user: what a device      *)
(* shows that user is what the last of its writes makes of the cafe, or,   *)
(* where there is none, what the document below says.                      *)
(***************************************************************************)
CopiesIn(doc, u) == IF doc = NoDoc THEN 0 ELSE doc.users[u]

(* What a user's own setData writes, and what a write makes of a favourite.*)
OnlyCopy(u) == [v \in Users |-> IF v = u THEN 1 ELSE 0]
WritesOf(u) == {m \in Mutation : m.uid = u /\ (m.op = "set" => m.users = OnlyCopy(u))}
Effect(m) == IF m.op = "remove" THEN 0 ELSE 1

On(q, c) == {i \in DOMAIN q : q[i].cafe = c}
IsLast(q, c, i) == i \in On(q, c) /\ \A j \in On(q, c) : j <= i

(* The parts of a view.                                                    *)
Sets(q, c) == {i \in On(q, c) : q[i].op = "set"}
LastSet(q, c) ==
    IF Sets(q, c) = {} THEN 0 ELSE CHOOSE i \in Sets(q, c) : \A j \in Sets(q, c) : j <= i
Start(base, q, c) ==
    IF Sets(q, c) = {} THEN base ELSE [whole |-> TRUE, users |-> q[LastSet(q, c)].users]
Since(q, c, u) == {i \in On(q, c) : i > LastSet(q, c) /\ q[i].uid = u}

LEMMA CopiesType ==
    ASSUME NEW doc \in Document \cup {NoDoc}, NEW u \in Users
    PROVE  CopiesIn(doc, u) \in Nat
BY DEF CopiesIn, Document, Copies

LEMMA LastSetIn ==
    ASSUME NEW q \in Seq(Mutation), NEW c, Sets(q, c) # {}
    PROVE  /\ LastSet(q, c) \in Sets(q, c)
           /\ \A j \in Sets(q, c) : j <= LastSet(q, c)
<1>1. Len(q) \in Nat /\ Sets(q, c) \in SUBSET (1 .. Len(q))
    BY DEF Sets, On
<1>2. \E i \in Sets(q, c) : \A j \in Sets(q, c) : j <= i
    BY <1>1, LargestOf
<1> QED
    BY <1>2 DEF LastSet

LEMMA SomeIsLast ==
    ASSUME NEW q \in Seq(Mutation), NEW c, On(q, c) # {}
    PROVE  \E i \in DOMAIN q : IsLast(q, c, i)
<1>1. Len(q) \in Nat /\ On(q, c) \in SUBSET (1 .. Len(q))
    BY DEF On
<1>2. \E i \in On(q, c) : \A j \in On(q, c) : j <= i
    BY <1>1, LargestOf
<1> QED
    BY <1>2 DEF IsLast, On

LEMMA ReplayNothing ==
    ASSUME NEW n \in Nat, NEW q
    PROVE  Replay(n, {}, q) = n
<1>1. Cardinality({}) = 0
    BY FS_EmptySet
<1>2. {i \in {} : q[i].op = "remove"} = {} /\ {i \in {} : q[i].op = "union"} = {}
    OBVIOUS
<1> QED
    BY <1>1, <1>2 DEF Replay

LEMMA ReplayLast ==
    ASSUME NEW n \in Nat, n <= 1, NEW q \in Seq(Mutation), NEW I \in SUBSET DOMAIN q,
           \A j \in I : q[j].op # "set", NEW i \in I, \A j \in I : j <= i
    PROVE  Replay(n, I, q) = Effect(q[i])
<1> DEFINE removes == {j \in I : q[j].op = "remove"}
           unions  == {j \in I : q[j].op = "union"}
           kept    == IF Cardinality(removes) < n THEN n - Cardinality(removes) ELSE 0
           readded == \E j \in unions : \A k \in removes : k < j
<1>1. Replay(n, I, q) = IF readded /\ kept = 0 THEN 1 ELSE kept
    BY DEF Replay
<1>2. /\ \A j \in I : j \in Nat
      /\ removes \in SUBSET (1 .. Len(q)) /\ Len(q) \in Nat
    OBVIOUS
<1>3. IsFiniteSet(removes) /\ Cardinality(removes) \in Nat
    <2>1. IsFiniteSet(1 .. Len(q))
        BY <1>2, FS_Interval
    <2> HIDE DEF removes
    <2> QED
        BY <1>2, <2>1, FS_Subset, FS_CardinalityType
<1>4. q[i].op \in {"union", "remove"}
    <2>1. q[i] \in Mutation
        BY <1>2
    <2> QED
        BY <2>1 DEF Mutation
<1>5. CASE q[i].op = "remove"
    <2>1. i \in removes
        BY <1>5
    <2>2. ~readded
        BY <1>2, <2>1
    <2>3. Cardinality(removes) # 0
        <3> HIDE DEF removes
        <3> QED
            BY <1>3, <2>1, FS_EmptySet
    <2>4. kept = 0
        <3> HIDE DEF removes
        <3> QED
            BY <1>3, <2>3
    <2> HIDE DEF kept, readded
    <2> QED
        BY <1>1, <1>5, <2>2, <2>4 DEF Effect
<1>6. CASE q[i].op = "union"
    <2>1. readded
        <3>1. \A k \in removes : k # i
            BY <1>6
        <3>2. \A k \in removes : k < i
            BY <1>2, <3>1
        <3> QED
            BY <1>6, <3>2
    <2>2. kept \in {0, 1}
        <3> HIDE DEF removes
        <3> QED
            BY <1>3
    <2> HIDE DEF kept, readded
    <2> QED
        BY <1>1, <1>6, <2>1, <2>2 DEF Effect
<1> QED
    BY <1>4, <1>5, <1>6

LEMMA ViewParts ==
    ASSUME NEW base, NEW q, NEW c
    PROVE  View(base, q, c) =
               IF Start(base, q, c) = NoDoc THEN NoDoc
               ELSE [whole |-> Start(base, q, c).whole,
                     users |-> [u \in Users |->
                         Replay(Start(base, q, c).users[u], Since(q, c, u), q)]]
BY DEF View, Start, Since, LastSet, Sets, On

(* The copies of a user that are left of the document a view starts from.  *)
LEMMA ViewCopies ==
    ASSUME NEW base \in Document \cup {NoDoc}, NEW q \in Seq(Mutation), NEW c \in Cafes,
           NEW u \in Users
    PROVE  /\ Start(base, q, c) # NoDoc =>
                  CopiesIn(View(base, q, c), u) =
                      Replay(Start(base, q, c).users[u], Since(q, c, u), q)
           /\ Start(base, q, c) = NoDoc => CopiesIn(View(base, q, c), u) = 0
<1> DEFINE start == Start(base, q, c)
<1>1. View(base, q, c) = IF start = NoDoc THEN NoDoc
                         ELSE [whole |-> start.whole,
                               users |-> [v \in Users |-> Replay(start.users[v], Since(q, c, v), q)]]
    BY ViewParts
<1>2. start # NoDoc => View(base, q, c) # NoDoc
    <2>1. CASE Sets(q, c) = {}
        BY <2>1, ViewType DEF Start
    <2>2. CASE Sets(q, c) # {}
        <3>1. HasSet(q, c)
            BY <2>2 DEF HasSet, Sets, On
        <3> QED
            BY <3>1, SetIsSeen
    <2> QED
        BY <2>1, <2>2
<1> HIDE DEF start
<1> QED
    BY <1>1, <1>2 DEF CopiesIn, start

LEMMA ViewListed ==
    ASSUME NEW u \in Users, NEW q \in Seq(WritesOf(u)), NEW c \in Cafes, NEW D, Found(D, q),
           NEW base \in Document \cup {NoDoc}, c \in D => base # NoDoc, CopiesIn(base, u) <= 1
    PROVE  /\ On(q, c) = {} => CopiesIn(View(base, q, c), u) = CopiesIn(base, u)
           /\ \A i : IsLast(q, c, i) => CopiesIn(View(base, q, c), u) = Effect(q[i])
<1>1. /\ q \in Seq(Mutation) /\ Len(q) \in Nat
      /\ \A i \in DOMAIN q : q[i] \in Mutation /\ q[i] \in WritesOf(u) /\ i \in 1 .. Len(q)
    BY DEF WritesOf
<1>2. \A i \in DOMAIN q : /\ q[i].uid = u /\ q[i].op \in {"set", "union", "remove"}
                          /\ q[i].op = "set" => q[i].users = OnlyCopy(u)
    BY <1>1 DEF WritesOf, Mutation
<1>3. CopiesIn(base, u) \in Nat
    BY CopiesType
<1>4. ASSUME On(q, c) = {} PROVE CopiesIn(View(base, q, c), u) = CopiesIn(base, u)
    <2>1. Start(base, q, c) = base /\ Since(q, c, u) = {}
        BY <1>4 DEF Start, Sets, Since
    <2>2. CASE base = NoDoc
        BY <1>1, <2>1, <2>2, ViewCopies DEF CopiesIn
    <2>3. CASE base # NoDoc
        <3>1. base.users[u] = CopiesIn(base, u)
            BY <2>3 DEF CopiesIn
        <3>2. CopiesIn(View(base, q, c), u) = Replay(base.users[u], Since(q, c, u), q)
            BY <1>1, <2>1, <2>3, ViewCopies
        <3> QED
            BY <1>3, <2>1, <3>1, <3>2, ReplayNothing
    <2> QED
        BY <2>2, <2>3
<1>5. ASSUME NEW i, IsLast(q, c, i), Sets(q, c) = {}
      PROVE  CopiesIn(View(base, q, c), u) = Effect(q[i])
    <2>1. i \in DOMAIN q /\ q[i].cafe = c /\ \A j \in On(q, c) : j <= i /\ q[j].op # "set"
        BY <1>5 DEF IsLast, On, Sets
    <2>2. base # NoDoc
        <3>1. \A j \in 1 .. i - 1 : j \in DOMAIN q
            BY <1>1, <2>1
        <3>2. c \in D
            BY <1>5, <2>1, <3>1 DEF Found, Sets, On
        <3> QED
            BY <3>2
    <2>3. Start(base, q, c) = base /\ LastSet(q, c) = 0
        BY <1>5 DEF Start, LastSet
    <2>4. base.users[u] \in Nat /\ base.users[u] <= 1
        BY <1>3, <2>2 DEF CopiesIn
    <2>5. Since(q, c, u) = On(q, c) /\ On(q, c) \in SUBSET DOMAIN q /\ i \in On(q, c)
        BY <1>1, <1>2, <1>5, <2>3 DEF Since, On, IsLast
    <2>6. Replay(base.users[u], On(q, c), q) = Effect(q[i])
        BY <1>1, <2>1, <2>4, <2>5, ReplayLast
    <2> QED
        BY <1>1, <2>2, <2>3, <2>5, <2>6, ViewCopies
<1>6. ASSUME NEW i, IsLast(q, c, i), Sets(q, c) # {}
      PROVE  CopiesIn(View(base, q, c), u) = Effect(q[i])
    <2> DEFINE last == LastSet(q, c)
    <2>1. last \in Sets(q, c) /\ \A j \in Sets(q, c) : j <= last
        BY <1>1, <1>6, LastSetIn
    <2>2. last \in DOMAIN q /\ q[last].op = "set" /\ q[last].cafe = c /\ last \in Nat
        BY <1>1, <2>1 DEF Sets, On
    <2> HIDE DEF last
    <2>3. q[last].users = OnlyCopy(u)
        BY <1>2, <2>2
    <2>4. Start(base, q, c).users = OnlyCopy(u) /\ Start(base, q, c) # NoDoc
        <3> DEFINE doc == [whole |-> TRUE, users |-> OnlyCopy(u)]
        <3>1. Start(base, q, c) = doc
            BY <1>6, <2>3 DEF Start, last
        <3>2. doc \in Document /\ doc.users = OnlyCopy(u)
            BY DEF Document, Copies, OnlyCopy
        <3> HIDE DEF doc
        <3> QED
            BY <3>1, <3>2, NoDocAssumption
    <2>5. OnlyCopy(u)[u] = 1
        BY DEF OnlyCopy
    <2>6. i \in DOMAIN q /\ i \in Nat /\ q[i].cafe = c /\ \A j \in On(q, c) : j <= i
        BY <1>1, <1>6 DEF IsLast, On
    <2>7. Since(q, c, u) = {j \in On(q, c) : j > last}
        BY <1>2 DEF Since, On, last
    <2>8. Replay(1, Since(q, c, u), q) = Effect(q[i])
        <3>1. CASE i = last
            <4>1. Since(q, c, u) = {}
                BY <1>1, <2>6, <2>7, <3>1 DEF On
            <4> QED
                BY <2>2, <3>1, <4>1, ReplayNothing DEF Effect
        <3>2. CASE i # last
            <4>1. i > last
                BY <2>2, <2>6, <3>2 DEF On
            <4>2. i \in Since(q, c, u) /\ Since(q, c, u) \in SUBSET DOMAIN q
                BY <2>6, <2>7, <4>1 DEF On
            <4>3. \A j \in Since(q, c, u) : q[j].op # "set" /\ j <= i
                BY <1>1, <2>1, <2>2, <2>6, <2>7 DEF Sets, On
            <4> QED
                BY <1>1, <4>2, <4>3, ReplayLast
        <3> QED
            BY <3>1, <3>2
    <2> QED
        BY <1>1, <2>4, <2>5, <2>8, ViewCopies
<1> QED
    BY <1>4, <1>5, <1>6

(* One write, as the client and as the server takes it.                    *)
LEMMA CopiesApplied ==
    ASSUME NEW doc \in Document \cup {NoDoc}, NEW m \in Mutation, NEW u \in Users,
           Accepts(doc, m)
    PROVE  /\ CopiesIn(Apply(doc, m), u) =
                  IF m.op = "set" THEN m.users[u]
                  ELSE IF u # m.uid THEN CopiesIn(doc, u)
                  ELSE IF m.op = "union" THEN IF CopiesIn(doc, u) = 0 THEN 1 ELSE CopiesIn(doc, u)
                  ELSE IF CopiesIn(doc, u) = 0 THEN 0 ELSE CopiesIn(doc, u) - 1
           /\ CopiesIn(ServerApply(doc, m), u) =
                  IF m.op = "remove" /\ u = m.uid THEN 0 ELSE CopiesIn(Apply(doc, m), u)
<1>1. /\ Apply(doc, m) \in Document /\ Apply(doc, m) # NoDoc
      /\ ServerApply(doc, m) \in Document /\ ServerApply(doc, m) # NoDoc
    BY ApplyType, ServerApplyType, NoDocAssumption
<1>2. CASE m.op = "set"
    <2>1. Apply(doc, m) = [whole |-> TRUE, users |-> m.users] /\ ServerApply(doc, m) = Apply(doc, m)
        BY <1>2 DEF Apply, ServerApply
    <2> QED
        BY <1>1, <1>2, <2>1 DEF CopiesIn
<1>3. CASE m.op = "union"
    <2>1. doc # NoDoc /\ doc \in Document
        BY <1>3 DEF Accepts
    <2>2. /\ Apply(doc, m) = [doc EXCEPT !.users[m.uid] = IF @ = 0 THEN 1 ELSE @]
          /\ ServerApply(doc, m) = Apply(doc, m)
        BY <1>3, <2>1 DEF Apply, ServerApply
    <2> QED
        BY <1>1, <1>3, <2>1, <2>2 DEF CopiesIn, Document, Copies
<1>4. CASE m.op = "remove"
    <2>1. doc # NoDoc /\ doc \in Document /\ m.uid \in Users
        BY <1>4 DEF Accepts, Mutation
    <2>2. /\ Apply(doc, m) = [doc EXCEPT !.users[m.uid] = IF @ = 0 THEN 0 ELSE @ - 1]
          /\ ServerApply(doc, m) = [Apply(doc, m) EXCEPT !.users[m.uid] = 0]
        BY <1>4, <2>1 DEF Apply, ServerApply
    <2>3. Apply(doc, m).users[u] = IF u # m.uid THEN doc.users[u]
                                   ELSE IF doc.users[u] = 0 THEN 0 ELSE doc.users[u] - 1
        BY <2>1, <2>2 DEF Document, Copies
    <2>4. ServerApply(doc, m).users[u] = IF u = m.uid THEN 0 ELSE Apply(doc, m).users[u]
        <3> DEFINE taken == Apply(doc, m)
        <3>1. taken \in Document /\ ServerApply(doc, m) = [taken EXCEPT !.users[m.uid] = 0]
            BY <1>1, <2>2
        <3> HIDE DEF taken
        <3>2. ServerApply(doc, m).users[u] = IF u = m.uid THEN 0 ELSE taken.users[u]
            BY <2>1, <3>1 DEF Document, Copies
        <3> QED
            BY <3>2 DEF taken
    <2> QED
        BY <1>1, <1>4, <2>1, <2>3, <2>4 DEF CopiesIn
<1> QED
    BY <1>2, <1>3, <1>4 DEF Mutation

LEMMA OwnEffect ==
    ASSUME NEW doc \in Document \cup {NoDoc}, NEW u \in Users, NEW m \in WritesOf(u),
           Accepts(doc, m), CopiesIn(doc, u) <= 1
    PROVE  /\ CopiesIn(Apply(doc, m), u) = Effect(m)
           /\ CopiesIn(ServerApply(doc, m), u) = Effect(m)
<1>1. /\ m \in Mutation /\ m.uid = u /\ m.op \in {"set", "union", "remove"}
      /\ m.op = "set" => m.users[u] = 1
    BY DEF WritesOf, OnlyCopy, Mutation
<1>2. CopiesIn(doc, u) \in Nat /\ (CopiesIn(doc, u) = 0 \/ CopiesIn(doc, u) = 1)
    BY CopiesType
<1> QED
    BY <1>1, <1>2, CopiesApplied DEF Effect

-----------------------------------------------------------------------------
(***************************************************************************)
(* What a device shows its user of the cafes, where nobody else writes for *)
(* its accounts.  A cafe it has no write of is listed alike by its cache   *)
(* and the server; the server lists a cafe as the last write of it that it *)
(* took says, once that is the last one there is, and so does the cache if *)
(* the client was sent the document since then.  While earlier writes are  *)
(* under way or are sent again the two may differ, but what the device     *)
(* shows is what its last write says.                                      *)
(***************************************************************************)
Listed(d, c) == CopiesIn(View(cache[d][c], Own(d), c), currentUser[d])

(* Those of whose favourites something is known: until one has signed in,  *)
(* all who may.                                                            *)
Followed(d) == IF switches[d] = 0 THEN Accounts[d] ELSE {currentUser[d]}

AgreedOn(d, u, c) ==
    /\ CopiesIn(cache[d][c], u) <= 1
    /\ On(Own(d), c) = {} => CopiesIn(server[c], u) = CopiesIn(cache[d][c], u)
    /\ \A i \in DOMAIN results[d] : IsLast(Own(d), c, i) =>
           /\ CopiesIn(server[c], u) = Effect(Own(d)[i])
           /\ results[d][i] = "seen" => CopiesIn(cache[d][c], u) = Effect(Own(d)[i])
Agreed(d) == \A u \in Followed(d), c \in Cafes : AgreedOn(d, u, c)

(* A document that holds a write holds the earlier ones on its cafe.       *)
AnswersInv(d) ==
    /\ \A i \in DOMAIN results[d] : results[d][i] # "rejected"
    /\ \A i, j \in DOMAIN results[d] :
           i < j /\ Own(d)[i].cafe = Own(d)[j].cafe /\ results[d][j] = "seen" =>
               results[d][i] = "seen"

WritesInv(d) == Own(d) \in Seq(WritesOf(currentUser[d])) /\ Found(Cached(d), Own(d))

StartsUnset(d) ==
    /\ switches[d] = 0 => \A c \in Cafes : button[d][c] = "unset"
    /\ switches[d] # 0 => currentUser[d] \in Accounts[d]

(* All but what is said of the buttons.                                    *)
StoredInv(d) == Agreed(d) /\ AnswersInv(d) /\ WritesInv(d)
ListedInv(d) == StartsUnset(d) /\ StoredInv(d)

LEMMA SentIsOwn ==
    ASSUME TypeOK, UpdatesInv, NEW d \in Devices
    PROVE  Queue(d) = Own(d) /\ pending[d][fsUser[d]] = Own(d)
<1>1. /\ pending[d][fsUser[d]] # <<>> => fsUser[d] = currentUser[d]
      /\ Own(d) # <<>> => fsUser[d] = currentUser[d]
    BY Parts, WorksForUser
<1> QED
    BY <1>1 DEF Own, Queue

LEMMA OwnType ==
    ASSUME TypeOK, UpdatesInv, NEW d \in Devices
    PROVE  /\ Own(d) \in Seq(Mutation) /\ Len(Own(d)) \in Nat
           /\ results[d] \in Seq(Result) /\ Len(results[d]) \in Nat
           /\ DOMAIN results[d] = 1 .. Len(results[d])
           /\ Len(results[d]) <= Len(Own(d)) /\ DOMAIN results[d] \subseteq DOMAIN Own(d)
           /\ switches[d] = 0 => Own(d) = <<>> /\ results[d] = <<>>
           /\ \A c \in Cafes : /\ cache[d][c] \in Document \cup {NoDoc}
                               /\ server[c] \in Document \cup {NoDoc}
                               /\ Known(d, c) \in Document \cup {NoDoc}
<1>1. Own(d) \in Seq(Mutation) /\ results[d] \in Seq(Result)
    BY DEF TypeOK, Own
<1>2. Len(results[d]) <= Len(Own(d))
    <2>1. Len(results[d]) <= Len(pending[d][fsUser[d]])
        BY DEF TypeOK
    <2> QED
        BY <2>1, SentIsOwn
<1>3. switches[d] = 0 => Own(d) = <<>> /\ results[d] = <<>>
    <2>1. switches[d] = 0 => Own(d) = <<>>
        BY Parts DEF UserInv, Own, TypeOK
    <2> QED
        BY <1>1, <1>2, <2>1
<1>4. \A c \in Cafes : /\ cache[d][c] \in Document \cup {NoDoc}
                       /\ server[c] \in Document \cup {NoDoc}
                       /\ Known(d, c) \in Document \cup {NoDoc}
    BY DEF TypeOK, Known
<1>5. DOMAIN results[d] \subseteq DOMAIN Own(d)
    BY <1>1, <1>2
<1> QED
    BY <1>1, <1>2, <1>3, <1>4, <1>5

LEMMA FollowedAre ==
    ASSUME NEW d \in Devices, StartsUnset(d)
    PROVE  /\ Followed(d) \subseteq Accounts[d] /\ Followed(d) \subseteq Users
           /\ NoUser \notin Followed(d)
           /\ switches[d] # 0 => currentUser[d] \in Followed(d) /\ currentUser[d] \in Users
BY ConstantsAssumption DEF Followed, StartsUnset

(* What is shown, said of the writes that wait.                            *)
LEMMA ListedIs ==
    ASSUME TypeOK, UpdatesInv, NEW d \in Devices, ListedInv(d), switches[d] # 0, NEW c \in Cafes
    PROVE  /\ On(Own(d), c) = {} => Listed(d, c) = CopiesIn(cache[d][c], currentUser[d])
           /\ \A i : IsLast(Own(d), c, i) => Listed(d, c) = Effect(Own(d)[i])
           /\ Listed(d, c) \in {0, 1}
<1>1. currentUser[d] \in Users /\ CopiesIn(cache[d][c], currentUser[d]) <= 1
    BY FollowedAre DEF ListedInv, StoredInv, Agreed, AgreedOn
<1>2. /\ Own(d) \in Seq(WritesOf(currentUser[d])) /\ Found(Cached(d), Own(d))
      /\ c \in Cached(d) => cache[d][c] # NoDoc
      /\ cache[d][c] \in Document \cup {NoDoc} /\ Own(d) \in Seq(Mutation)
    BY OwnType DEF ListedInv, StoredInv, WritesInv, Cached
<1>3. /\ On(Own(d), c) = {} => Listed(d, c) = CopiesIn(cache[d][c], currentUser[d])
      /\ \A i : IsLast(Own(d), c, i) => Listed(d, c) = Effect(Own(d)[i])
    BY <1>1, <1>2, ViewListed DEF Listed
<1>4. Listed(d, c) \in {0, 1}
    <2>1. CASE On(Own(d), c) = {}
        <3>1. CopiesIn(cache[d][c], currentUser[d]) \in Nat
            BY <1>1, <1>2, CopiesType
        <3> QED
            BY <1>1, <1>3, <2>1, <3>1
    <2>2. CASE On(Own(d), c) # {}
        <3>1. PICK i \in DOMAIN Own(d) : IsLast(Own(d), c, i)
            BY <1>2, <2>2, SomeIsLast
        <3> QED
            BY <1>3, <3>1 DEF Effect
    <2> QED
        BY <2>1, <2>2
<1> QED
    BY <1>3, <1>4

(* The client keeps what it holds; the stream of writes may end.           *)
LEMMA SameListed ==
    ASSUME NEW d \in Devices, StoredInv(d),
           UNCHANGED <<server, pending[d], currentUser[d], switches[d], cache[d]>>,
           results'[d] = results[d] \/ results'[d] = <<>>
    PROVE  StoredInv(d)' /\ \A c \in Cafes : Listed(d, c)' = Listed(d, c)
<1>1. Own(d)' = Own(d) /\ Cached(d)' = Cached(d) /\ Followed(d)' = Followed(d)
    BY DEF Own, Cached, Followed
<1>2. \A c \in Cafes : Listed(d, c)' = Listed(d, c)
    BY <1>1 DEF Listed
<1>3. WritesInv(d)'
    BY <1>1 DEF WritesInv, StoredInv
<1>4. CASE results'[d] = results[d]
    <2>1. Agreed(d)'
        BY <1>1, <1>4 DEF Agreed, AgreedOn, StoredInv
    <2>2. AnswersInv(d)'
        BY <1>1, <1>4 DEF AnswersInv, StoredInv
    <2> QED
        BY <1>2, <1>3, <2>1, <2>2 DEF StoredInv
<1>5. CASE results'[d] = <<>>
    <2>1. DOMAIN results'[d] = {}
        BY <1>5
    <2>2. Agreed(d)'
        BY <1>1, <2>1 DEF Agreed, AgreedOn, StoredInv
    <2>3. AnswersInv(d)'
        BY <2>1 DEF AnswersInv
    <2> QED
        BY <1>2, <1>3, <2>2, <2>3 DEF StoredInv
<1> QED
    BY <1>4, <1>5

(* Documents are taken up from the server.                                 *)
LEMMA LearnListed ==
    ASSUME TypeOK, UpdatesInv, NEW d \in Devices, ListedInv(d), NEW C \in SUBSET Cafes,
           UNCHANGED <<server, pending, currentUser, switches>>, Notice(d, C),
           \A c \in C : cache'[d][c] = Known(d, c),
           \A c \in Cafes \ C : cache'[d][c] = cache[d][c]
    PROVE  /\ StoredInv(d)'
           /\ switches[d] # 0 => \A c \in Cafes : Listed(d, c)' = Listed(d, c)
<1>1. Own(d)' = Own(d) /\ Followed(d)' = Followed(d)
    BY DEF Own, Followed
<1>2. /\ DOMAIN results'[d] = DOMAIN results[d]
      /\ \A i \in DOMAIN results[d] :
             results'[d][i] = IF results[d][i] = "taken" /\ Own(d)[i].cafe \in C THEN "seen"
                              ELSE results[d][i]
    <2>1. results'[d] = [i \in 1 .. Len(results[d]) |->
              IF results[d][i] = "taken" /\ Own(d)[i].cafe \in C THEN "seen" ELSE results[d][i]]
        BY SentIsOwn DEF Notice, TypeOK
    <2> QED
        BY <2>1, OwnType
<1>3. \A i \in DOMAIN results[d] : results[d][i] \in {"taken", "seen"}
    BY OwnType DEF Result, ListedInv, StoredInv, AnswersInv
<1>4. online[d] \/ DOMAIN results[d] = {}
    BY Parts DEF ResponsesOf
<1>5. Cached(d) \subseteq Cached(d)'
    BY Parts DEF Cached, CacheInv, Known
<1>6. ASSUME NEW u \in Followed(d), NEW c \in Cafes PROVE AgreedOn(d, u, c)'
    <2>1. AgreedOn(d, u, c) /\ u \in Users
        BY FollowedAre DEF ListedInv, StoredInv, Agreed
    <2>2. CASE c \in C /\ online[d]
        <3>1. cache'[d][c] = server[c] /\ server' = server
            BY <2>2 DEF Known
        <3>2. CopiesIn(server[c], u) <= 1
            BY <2>1, Parts DEF NoDuplicates, CopiesIn
        <3> QED
            BY <1>1, <1>2, <2>1, <3>1, <3>2 DEF AgreedOn
    <2>3. CASE c \in C /\ ~online[d]
        <3>1. cache'[d][c] = cache[d][c] /\ server' = server /\ DOMAIN results'[d] = {}
            BY <1>2, <1>4, <2>3 DEF Known
        <3> QED
            BY <1>1, <2>1, <3>1 DEF AgreedOn
    <2>4. CASE c \notin C
        <3>1. cache'[d][c] = cache[d][c] /\ server' = server
            BY <2>4
        <3>2. \A i \in DOMAIN results[d] : IsLast(Own(d), c, i) => results'[d][i] = results[d][i]
            BY <1>2, <2>4 DEF IsLast, On
        <3> QED
            BY <1>1, <1>2, <2>1, <3>1, <3>2 DEF AgreedOn
    <2> QED
        BY <2>2, <2>3, <2>4
<1>7. Agreed(d)'
    BY <1>1, <1>6 DEF Agreed
<1>8. AnswersInv(d)'
    BY <1>1, <1>2, <1>3 DEF AnswersInv, ListedInv, StoredInv
<1>9. WritesInv(d)'
    BY <1>1, <1>5, FoundGrows DEF WritesInv, ListedInv, StoredInv
<1>10. ASSUME switches[d] # 0, NEW c \in Cafes PROVE Listed(d, c)' = Listed(d, c)
    <2> DEFINE u == currentUser[d]
    <2>1. u \in Followed(d) /\ u \in Users
        BY <1>10, FollowedAre DEF ListedInv
    <2>2. /\ CopiesIn(cache'[d][c], u) <= 1
          /\ On(Own(d), c) = {} => CopiesIn(cache'[d][c], u) = CopiesIn(cache[d][c], u)
        <3>1. AgreedOn(d, u, c)' /\ AgreedOn(d, u, c)
            BY <1>6, <2>1 DEF ListedInv, StoredInv, Agreed
        <3> QED
            BY <1>1, <3>1 DEF AgreedOn
    <2>3. /\ Own(d) \in Seq(WritesOf(u)) /\ Found(Cached(d)', Own(d))
          /\ c \in Cached(d)' => cache'[d][c] # NoDoc
          /\ cache'[d][c] \in Document \cup {NoDoc} /\ Own(d) \in Seq(Mutation)
        BY <1>5, FoundGrows, OwnType DEF ListedInv, StoredInv, WritesInv, Cached
    <2>4. /\ On(Own(d), c) = {} => Listed(d, c)' = CopiesIn(cache'[d][c], u)
          /\ \A i : IsLast(Own(d), c, i) => Listed(d, c)' = Effect(Own(d)[i])
        <3>1. Listed(d, c)' = CopiesIn(View(cache'[d][c], Own(d), c), u)
            BY <1>1 DEF Listed
        <3> HIDE DEF u
        <3> QED
            BY <2>1, <2>2, <2>3, <3>1, ViewListed
    <2>5. /\ On(Own(d), c) = {} => Listed(d, c) = CopiesIn(cache[d][c], u)
          /\ \A i : IsLast(Own(d), c, i) => Listed(d, c) = Effect(Own(d)[i])
        BY <1>10, ListedIs
    <2>6. CASE On(Own(d), c) = {}
        BY <2>2, <2>4, <2>5, <2>6
    <2>7. CASE On(Own(d), c) # {}
        <3>1. PICK i \in DOMAIN Own(d) : IsLast(Own(d), c, i)
            BY <2>3, <2>7, SomeIsLast
        <3> QED
            BY <2>4, <2>5, <3>1
    <2> QED
        BY <2>6, <2>7
<1> QED
    BY <1>7, <1>8, <1>9, <1>10 DEF StoredInv

(* The device makes a write.                                               *)
LEMMA OnAppend ==
    ASSUME NEW q \in Seq(Mutation), NEW m \in Mutation, NEW c
    PROVE  /\ m.cafe # c => On(Append(q, m), c) = On(q, c)
           /\ m.cafe # c => \A i : IsLast(Append(q, m), c, i) <=> IsLast(q, c, i)
           /\ m.cafe = c => IsLast(Append(q, m), c, Len(q) + 1)
           /\ m.cafe = c => \A i \in DOMAIN q : ~IsLast(Append(q, m), c, i)
           /\ \A i \in DOMAIN q : Append(q, m)[i] = q[i]
           /\ Append(q, m)[Len(q) + 1] = m
<1> DEFINE p == Append(q, m)
<1>1. /\ DOMAIN q = 1 .. Len(q) /\ Len(q) \in Nat /\ DOMAIN p = 1 .. Len(q) + 1
      /\ \A i \in DOMAIN q : p[i] = q[i]
      /\ p[Len(q) + 1] = m
    OBVIOUS
<1> HIDE DEF p
<1>2. m.cafe # c => On(p, c) = On(q, c)
    BY <1>1 DEF On
<1>3. m.cafe # c => \A i : IsLast(p, c, i) <=> IsLast(q, c, i)
    BY <1>2 DEF IsLast
<1>4. ASSUME m.cafe = c PROVE Len(q) + 1 \in On(p, c) /\ On(p, c) \subseteq 1 .. Len(q) + 1
    BY <1>1, <1>4 DEF On
<1>5. ASSUME m.cafe = c PROVE IsLast(p, c, Len(q) + 1)
    BY <1>1, <1>4, <1>5 DEF IsLast
<1>6. ASSUME m.cafe = c, NEW i \in DOMAIN q PROVE ~IsLast(p, c, i)
    <2>1. ~(Len(q) + 1 <= i)
        BY <1>1
    <2> QED
        BY <1>4, <1>6, <2>1 DEF IsLast
<1> QED
    BY <1>1, <1>2, <1>3, <1>5, <1>6 DEF p

LEMMA WriteListed ==
    ASSUME TypeOK, UpdatesInv, NEW d \in Devices, ListedInv(d), fsUser[d] = currentUser[d],
           switches[d] # 0, NEW m \in WritesOf(currentUser[d]), Enqueue(d, m),
           m.op = "set" \/ m.cafe \in HeldBy(d),
           UNCHANGED <<server, cache, results, currentUser, switches>>
    PROVE  /\ StoredInv(d)'
           /\ \A c \in Cafes : Listed(d, c)' = IF c = m.cafe THEN Effect(m) ELSE Listed(d, c)
<1> DEFINE q == Own(d)
           p == Append(q, m)
           u == currentUser[d]
<1>1. /\ q \in Seq(Mutation) /\ m \in Mutation /\ m.cafe \in Cafes
      /\ DOMAIN results[d] \subseteq DOMAIN q
      /\ q \in Seq(WritesOf(u)) /\ Found(Cached(d), q)
    BY OwnType DEF WritesOf, Mutation, ListedInv, StoredInv, WritesInv
<1>2. Own(d)' = p /\ Cached(d)' = Cached(d) /\ Followed(d)' = Followed(d)
    BY DEF Own, Cached, Followed, Enqueue, TypeOK
<1>3. p \in Seq(WritesOf(u)) /\ Found(Cached(d), p)
    <2>1. p \in Seq(WritesOf(u))
        BY <1>1
    <2>2. m.op = "set" \/ m.cafe \in Cached(d) \/ HasSet(q, m.cafe)
        BY DEF HeldBy, Held, Cached
    <2> HIDE DEF q
    <2> QED
        BY <1>1, <2>1, <2>2, FoundAppend
<1>4. WritesInv(d)'
    BY <1>2, <1>3 DEF WritesInv
<1> HIDE DEF q
<1>5. /\ \A i \in DOMAIN q : p[i] = q[i]
      /\ \A c : m.cafe # c => /\ On(p, c) = On(q, c)
                              /\ \A i : IsLast(p, c, i) <=> IsLast(q, c, i)
      /\ IsLast(p, m.cafe, Len(q) + 1) /\ p[Len(q) + 1] = m
      /\ \A i \in DOMAIN q : ~IsLast(p, m.cafe, i)
    <2>1. ASSUME NEW c
          PROVE  /\ m.cafe # c => On(p, c) = On(q, c)
                 /\ m.cafe # c => \A i : IsLast(p, c, i) <=> IsLast(q, c, i)
                 /\ m.cafe = c => IsLast(p, c, Len(q) + 1)
                 /\ m.cafe = c => \A i \in DOMAIN q : ~IsLast(p, c, i)
                 /\ \A i \in DOMAIN q : p[i] = q[i]
                 /\ p[Len(q) + 1] = m
        BY <1>1, OnAppend
    <2> HIDE DEF p
    <2> QED
        BY <2>1
<1> HIDE DEF p, u
<1>6. AnswersInv(d)'
    BY <1>1, <1>2, <1>5 DEF AnswersInv, ListedInv, StoredInv, q
<1>7. ASSUME NEW v \in Followed(d), NEW c \in Cafes PROVE AgreedOn(d, v, c)'
    <2>1. /\ CopiesIn(cache[d][c], v) <= 1
          /\ On(q, c) = {} => CopiesIn(server[c], v) = CopiesIn(cache[d][c], v)
          /\ \A i \in DOMAIN results[d] : IsLast(q, c, i) =>
                 /\ CopiesIn(server[c], v) = Effect(q[i])
                 /\ results[d][i] = "seen" => CopiesIn(cache[d][c], v) = Effect(q[i])
        BY DEF ListedInv, StoredInv, Agreed, AgreedOn, q
    <2>2. /\ On(p, c) = {} => On(q, c) = {}
          /\ \A i \in DOMAIN results[d] : IsLast(p, c, i) => IsLast(q, c, i) /\ p[i] = q[i]
        BY <1>1, <1>5 DEF IsLast
    <2> QED
        BY <1>2, <2>1, <2>2 DEF AgreedOn
<1>8. Agreed(d)'
    BY <1>2, <1>7 DEF Agreed
<1>9. ASSUME NEW c \in Cafes
      PROVE  Listed(d, c)' = IF c = m.cafe THEN Effect(m) ELSE Listed(d, c)
    <2>1. /\ u \in Users /\ CopiesIn(cache[d][c], u) <= 1
          /\ cache[d][c] \in Document \cup {NoDoc} /\ (c \in Cached(d) => cache[d][c] # NoDoc)
        BY FollowedAre, OwnType DEF ListedInv, StoredInv, Agreed, AgreedOn, Cached, u
    <2>2. Listed(d, c)' = CopiesIn(View(cache[d][c], p, c), u)
        BY <1>2 DEF Listed, u
    <2>3. /\ On(p, c) = {} => Listed(d, c)' = CopiesIn(cache[d][c], u)
          /\ \A i : IsLast(p, c, i) => Listed(d, c)' = Effect(p[i])
        BY <1>3, <2>1, <2>2, ViewListed
    <2>4. /\ On(q, c) = {} => Listed(d, c) = CopiesIn(cache[d][c], u)
          /\ \A i : IsLast(q, c, i) => Listed(d, c) = Effect(q[i])
        BY ListedIs DEF q, u
    <2>5. CASE c = m.cafe
        BY <1>5, <2>3, <2>5
    <2>6. CASE c # m.cafe /\ On(q, c) = {}
        BY <1>5, <2>3, <2>4, <2>6
    <2>7. CASE c # m.cafe /\ On(q, c) # {}
        <3>1. PICK i \in DOMAIN q : IsLast(q, c, i)
            BY <1>1, <2>7, SomeIsLast
        <3> QED
            BY <1>5, <2>3, <2>4, <2>7, <3>1
    <2> QED
        BY <2>5, <2>6, <2>7
<1> QED
    BY <1>4, <1>6, <1>8, <1>9 DEF StoredInv

(* The server takes the next write of the device: its document exists, for *)
(* a setData of it that goes before it was not rejected.                   *)
LEMMA CommitTaken ==
    ASSUME TypeOK, UpdatesInv, NEW d \in Devices, Commit(d)
    PROVE  LET k == Len(results[d]) + 1
               m == Own(d)[k]
           IN  /\ k \in DOMAIN Own(d) /\ m \in Mutation /\ m.cafe \in Cafes
               /\ switches[d] # 0
               /\ Accepts(server[m.cafe], m)
               /\ server' = [server EXCEPT ![m.cafe] = ServerApply(@, m)]
               /\ results' = [results EXCEPT ![d] = Append(@, "taken")]
               /\ UNCHANGED <<cache, pending, online, currentUser, fsUser, switches, reads,
                              mainQueue, button>>
<1> DEFINE k == Len(results[d]) + 1
           m == Own(d)[k]
<1>1. /\ Own(d) = Queue(d) /\ Own(d) \in Seq(Mutation) /\ Len(Own(d)) \in Nat
      /\ Len(results[d]) \in Nat /\ DOMAIN results[d] = 1 .. Len(results[d])
      /\ switches[d] = 0 => Own(d) = <<>>
    BY SentIsOwn, OwnType
<1>2. Len(results[d]) < Len(Own(d)) /\ \A i \in DOMAIN results[d] : results[d][i] # "rejected"
    BY <1>1 DEF Commit
<1>3. k \in DOMAIN Own(d) /\ m \in Mutation /\ switches[d] # 0
    BY <1>1, <1>2
<1>4. m.op = "set" \/ m.cafe \in Documented
    <2>1. Found(Documented, Own(d))
        BY Parts DEF FoundInv, Own, TypeOK
    <2>2. ASSUME NEW j \in 1 .. k - 1, Own(d)[j].cafe = m.cafe, Own(d)[j].op = "set"
          PROVE  m.cafe \in Documented
        <3>1. j \in DOMAIN results[d]
            BY <1>1
        <3>2. Fits(Documented, Cached(d), results[d][j], Own(d)[j]) /\ results[d][j] # "rejected"
            BY <1>1, <1>2, <3>1, Parts DEF ResponsesOf
        <3> QED
            BY <2>2, <3>2 DEF Fits
    <2> QED
        BY <1>3, <2>1, <2>2 DEF Found
<1>5. Accepts(server[m.cafe], m) /\ m.cafe \in Cafes
    BY <1>3, <1>4 DEF Accepts, Documented, Mutation
<1>6. /\ server' = [server EXCEPT ![m.cafe] = ServerApply(@, m)]
      /\ results' = [results EXCEPT ![d] = Append(@, "taken")]
    BY <1>1, <1>5 DEF Commit
<1>7. UNCHANGED <<cache, pending, online, currentUser, fsUser, switches, reads, mainQueue, button>>
    BY DEF Commit, authVars
<1> QED
    BY <1>3, <1>5, <1>6, <1>7

LEMMA CommitListed ==
    ASSUME TypeOK, UpdatesInv, NEW d \in Devices, ListedInv(d), Commit(d)
    PROVE  StoredInv(d)' /\ \A c \in Cafes : Listed(d, c)' = Listed(d, c)
<1> DEFINE k == Len(results[d]) + 1
           m == Own(d)[k]
<1> PICK u : u = currentUser[d]
    OBVIOUS
<1>1. /\ k \in DOMAIN Own(d) /\ m \in Mutation /\ m.cafe \in Cafes /\ switches[d] # 0
      /\ Accepts(server[m.cafe], m)
      /\ server' = [server EXCEPT ![m.cafe] = ServerApply(@, m)]
      /\ results' = [results EXCEPT ![d] = Append(@, "taken")]
      /\ UNCHANGED <<cache, pending, currentUser, switches>>
    BY CommitTaken
<1>2. /\ Own(d)' = Own(d) /\ Cached(d)' = Cached(d) /\ Followed(d)' = {u}
      /\ \A c \in Cafes : Listed(d, c)' = Listed(d, c)
    BY <1>1 DEF Own, Cached, Followed, Listed
<1>3. WritesInv(d)'
    BY <1>1, <1>2 DEF WritesInv, ListedInv, StoredInv
<1>4. m \in WritesOf(u) /\ u \in Users
    BY <1>1, FollowedAre DEF ListedInv, StoredInv, WritesInv
<1>5. /\ Len(results[d]) \in Nat /\ DOMAIN results[d] = 1 .. Len(results[d])
      /\ DOMAIN results'[d] = 1 .. k /\ results'[d][k] = "taken"
      /\ \A i \in DOMAIN results[d] : results'[d][i] = results[d][i]
    <2>1. /\ results'[d] = Append(results[d], "taken") /\ results[d] \in Seq(Result)
          /\ "taken" \in Result
        BY <1>1, OwnType DEF TypeOK, Result
    <2> QED
        BY <2>1
<1> HIDE DEF m
<1>6. AnswersInv(d)'
    <2>1. \A i \in DOMAIN results'[d] : i = k \/ (i \in DOMAIN results[d] /\ results'[d][i] = results[d][i])
        BY <1>5
    <2>2. AnswersInv(d)
        BY DEF ListedInv, StoredInv
    <2>3. \A i \in DOMAIN results'[d] : results'[d][i] # "rejected"
        BY <1>5, <2>1, <2>2 DEF AnswersInv
    <2>4. ASSUME NEW i \in DOMAIN results'[d], NEW j \in DOMAIN results'[d],
                 i < j, Own(d)[i].cafe = Own(d)[j].cafe, results'[d][j] = "seen"
          PROVE  results'[d][i] = "seen"
        <3>1. j # k
            BY <1>5, <2>4
        <3>2. i # k
            BY <1>5, <2>4
        <3>3. /\ i \in DOMAIN results[d] /\ j \in DOMAIN results[d]
              /\ results'[d][i] = results[d][i] /\ results'[d][j] = results[d][j]
            BY <2>1, <3>1, <3>2
        <3> QED
            BY <2>2, <2>4, <3>3 DEF AnswersInv
    <2> QED
        BY <1>2, <2>3, <2>4 DEF AnswersInv
<1>7. ASSUME NEW c \in Cafes PROVE AgreedOn(d, u, c)'
    <2>1. /\ CopiesIn(cache[d][c], u) <= 1
          /\ On(Own(d), c) = {} => CopiesIn(server[c], u) = CopiesIn(cache[d][c], u)
          /\ \A i \in DOMAIN results[d] : IsLast(Own(d), c, i) =>
                 /\ CopiesIn(server[c], u) = Effect(Own(d)[i])
                 /\ results[d][i] = "seen" => CopiesIn(cache[d][c], u) = Effect(Own(d)[i])
        BY <1>1 DEF ListedInv, StoredInv, Agreed, AgreedOn, Followed
    <2>2. CASE c # m.cafe
        <3>1. server'[c] = server[c] /\ ~IsLast(Own(d), c, k)
            BY <1>1, <2>2 DEF TypeOK, IsLast, On, m
        <3>2. \A i \in DOMAIN results'[d] : IsLast(Own(d), c, i) =>
                  i \in DOMAIN results[d] /\ results'[d][i] = results[d][i]
            BY <1>5, <3>1
        <3> QED
            BY <1>1, <1>2, <2>1, <3>1, <3>2 DEF AgreedOn
    <2>3. CASE c = m.cafe
        <3>1. k \in On(Own(d), c)
            BY <1>1, <2>3 DEF On, m
        <3>2. \A i \in DOMAIN results'[d] : IsLast(Own(d), c, i) => i = k
            BY <1>5, <3>1 DEF IsLast
        <3>3. CopiesIn(server'[c], u) = Effect(Own(d)[k])
            <4>1. server'[c] = ServerApply(server[c], m) /\ Effect(m) = Effect(Own(d)[k])
                BY <1>1, <2>3 DEF TypeOK, m
            <4>2. CopiesIn(server[c], u) <= 1 /\ server[c] \in Document \cup {NoDoc}
                BY <1>4, Parts, OwnType DEF NoDuplicates, CopiesIn
            <4>3. Accepts(server[c], m)
                BY <1>1, <2>3
            <4>4. CopiesIn(ServerApply(server[c], m), u) = Effect(m)
                BY <1>4, <4>2, <4>3, OwnEffect
            <4> QED
                BY <4>1, <4>4
        <3> QED
            BY <1>1, <1>2, <1>5, <2>1, <3>1, <3>2, <3>3 DEF AgreedOn
    <2> QED
        BY <2>2, <2>3
<1>8. Agreed(d)'
    BY <1>2, <1>7 DEF Agreed
<1> QED
    BY <1>2, <1>3, <1>6, <1>8 DEF StoredInv

(* The response to the oldest write arrives: what it made of its cafe is   *)
(* in the cache now, if it was not already.                                *)
LEMMA OnTail ==
    ASSUME NEW q \in Seq(Mutation), q # <<>>, NEW c
    PROVE  /\ \A i \in DOMAIN Tail(q) : i + 1 \in DOMAIN q /\ Tail(q)[i] = q[i + 1]
           /\ \A i : IsLast(Tail(q), c, i) => IsLast(q, c, i + 1)
           /\ On(Tail(q), c) = {} /\ q[1].cafe # c => On(q, c) = {}
           /\ On(Tail(q), c) = {} /\ q[1].cafe = c => IsLast(q, c, 1)
<1> DEFINE t == Tail(q)
<1>1. /\ Len(q) \in Nat /\ DOMAIN q = 1 .. Len(q) /\ 1 \in DOMAIN q
      /\ DOMAIN t = 1 .. Len(q) - 1 /\ \A i \in DOMAIN t : t[i] = q[i + 1]
    OBVIOUS
<1>2. ASSUME NEW j \in DOMAIN q, j # 1 PROVE j - 1 \in DOMAIN t /\ q[j] = t[j - 1]
    <2>1. j - 1 \in 1 .. Len(q) - 1 /\ (j - 1) + 1 = j
        BY <1>1, <1>2
    <2> QED
        BY <1>1, <2>1
<1>3. ASSUME NEW i \in DOMAIN t PROVE i + 1 \in DOMAIN q /\ t[i] = q[i + 1]
    BY <1>1
<1> HIDE DEF t
<1>4. ASSUME NEW i, IsLast(t, c, i) PROVE IsLast(q, c, i + 1)
    <2>1. i \in DOMAIN t /\ t[i].cafe = c /\ \A j \in On(t, c) : j <= i
        BY <1>4 DEF IsLast, On
    <2>2. i + 1 \in On(q, c)
        BY <1>3, <2>1 DEF On
    <2>3. ASSUME NEW j \in On(q, c) PROVE j <= i + 1
        <3>1. j \in DOMAIN q /\ q[j].cafe = c /\ j \in Nat /\ i \in Nat
            BY <1>1, <2>1 DEF On
        <3>2. CASE j = 1
            BY <1>1, <2>1, <3>2
        <3>3. CASE j # 1
            <4>1. j - 1 \in On(t, c)
                BY <1>2, <3>1, <3>3 DEF On
            <4> QED
                BY <2>1, <3>1, <4>1
        <3> QED
            BY <3>2, <3>3
    <2> QED
        BY <2>2, <2>3 DEF IsLast
<1>5. ASSUME On(t, c) = {} PROVE On(q, c) \subseteq {1}
    BY <1>2, <1>5 DEF On
<1>6. ASSUME On(t, c) = {}, q[1].cafe = c PROVE IsLast(q, c, 1)
    BY <1>1, <1>5, <1>6 DEF IsLast, On
<1>7. ASSUME On(t, c) = {}, q[1].cafe # c PROVE On(q, c) = {}
    BY <1>5, <1>7 DEF On
<1> QED
    BY <1>3, <1>4, <1>6, <1>7 DEF t

LEMMA AcknowledgeTaken ==
    ASSUME TypeOK, UpdatesInv, NEW d \in Devices, ListedInv(d), Acknowledge(d)
    PROVE  LET m == Own(d)[1] IN
           /\ Own(d) \in Seq(Mutation) /\ Own(d) # <<>> /\ switches[d] # 0
           /\ m \in Mutation /\ m.cafe \in Cafes /\ currentUser[d] \in Owners
           /\ Accepts(cache[d][m.cafe], m)
           /\ results[d] # <<>> /\ results[d] \in Seq(Result)
           /\ \/ /\ results[d][1] = "taken"
                 /\ cache' = [cache EXCEPT ![d][m.cafe] = Apply(@, m)]
              \/ results[d][1] = "seen" /\ cache' = cache
           /\ m.op = "set" => m.cafe \in Cached(d)'
           /\ Cached(d) \subseteq Cached(d)'
           /\ Own(d)' = Tail(Own(d))
           /\ results' = [results EXCEPT ![d] = Tail(@)]
           /\ pending' = [pending EXCEPT ![d][currentUser[d]] = Tail(@)]
           /\ UNCHANGED <<server, online, currentUser, fsUser, switches, reads, mainQueue, button>>
<1> DEFINE m == Own(d)[1]
<1>1. /\ currentUser[d] \in Owners /\ switches[d] # 0 /\ fsUser[d] = currentUser[d]
      /\ Own(d) = Queue(d) /\ Own(d) \in Seq(Mutation) /\ Own(d) # <<>>
      /\ pending' = [pending EXCEPT ![d][currentUser[d]] = Tail(Own(d))]
      /\ UNCHANGED <<server, currentUser, fsUser, switches, reads, mainQueue>>
    BY AcknowledgeFacts, Parts
<1>2. Head(Own(d)) = m /\ m \in Mutation /\ m.cafe \in Cafes
    <2>1. Head(Own(d)) = m /\ m \in Mutation
        BY <1>1
    <2> QED
        BY <2>1 DEF Mutation
<1>3. results[d] # <<>> /\ results[d] \in Seq(Result) /\ Head(results[d]) = results[d][1]
    BY DEF Acknowledge, TypeOK
<1>4. results[d][1] \in {"taken", "seen"}
    <2>1. 1 \in DOMAIN results[d] /\ results[d][1] \in Result
        BY <1>3
    <2> QED
        BY <2>1 DEF ListedInv, StoredInv, AnswersInv, Result
<1>5. Accepts(cache[d][m.cafe], m)
    <2>1. Found(Cached(d), Own(d)) /\ 1 \in DOMAIN Own(d) /\ 1 .. 1 - 1 = {}
        BY <1>1 DEF ListedInv, StoredInv, WritesInv
    <2>2. m.op = "set" \/ m.cafe \in Cached(d)
        BY <2>1 DEF Found
    <2> QED
        BY <2>2 DEF Accepts, Cached
<1> HIDE DEF m
<1>6. \/ /\ results[d][1] = "taken"
         /\ cache' = [cache EXCEPT ![d][m.cafe] = Apply(@, m)]
      \/ results[d][1] = "seen" /\ cache' = cache
    BY <1>1, <1>2, <1>3, <1>4, <1>5 DEF Acknowledge
<1>7. /\ DocumentsStay
      /\ m.op = "set" => cache'[d][m.cafe] # NoDoc
    BY <1>1, <1>2, AcknowledgeAnswers, Parts
<1>8. Cached(d) \subseteq Cached(d)' /\ (m.op = "set" => m.cafe \in Cached(d)')
    BY <1>2, <1>7 DEF DocumentsStay, Cached
<1>9. Own(d)' = Tail(Own(d)) /\ pending' = [pending EXCEPT ![d][currentUser[d]] = Tail(@)]
    BY <1>1 DEF Own, TypeOK
<1>10. results' = [results EXCEPT ![d] = Tail(@)] /\ UNCHANGED <<online, button>>
    BY DEF Acknowledge
<1> QED
    BY <1>1, <1>2, <1>3, <1>5, <1>6, <1>8, <1>9, <1>10 DEF m

LEMMA AcknowledgeListed ==
    ASSUME TypeOK, UpdatesInv, NEW d \in Devices, ListedInv(d), Acknowledge(d)
    PROVE  StoredInv(d)' /\ \A c \in Cafes : Listed(d, c)' = Listed(d, c)
<1> PICK u : u = currentUser[d]
    OBVIOUS
<1> DEFINE q == Own(d)
           t == Tail(q)
           m == q[1]
<1>1. /\ q \in Seq(Mutation) /\ q # <<>> /\ switches[d] # 0
      /\ m \in Mutation /\ m.cafe \in Cafes /\ Accepts(cache[d][m.cafe], m)
      /\ results[d] # <<>> /\ results[d] \in Seq(Result)
      /\ \/ /\ results[d][1] = "taken"
            /\ cache' = [cache EXCEPT ![d][m.cafe] = Apply(@, m)]
         \/ results[d][1] = "seen" /\ cache' = cache
      /\ m.op = "set" => m.cafe \in Cached(d)'
      /\ Cached(d) \subseteq Cached(d)'
      /\ Own(d)' = t
      /\ results' = [results EXCEPT ![d] = Tail(@)]
      /\ UNCHANGED <<server, currentUser, switches>>
    BY AcknowledgeTaken
<1>2. /\ u \in Users /\ q \in Seq(WritesOf(u)) /\ Found(Cached(d), q)
      /\ currentUser'[d] = u /\ Followed(d) = {u} /\ Followed(d)' = {u}
    BY <1>1, FollowedAre DEF ListedInv, StoredInv, WritesInv, Followed
<1>3. m \in WritesOf(u) /\ t \in Seq(WritesOf(u)) /\ t \in Seq(Mutation)
    BY <1>1, <1>2
<1>4. Found(Cached(d)', t)
    <2>1. Found(Cached(d)', q)
        BY <1>1, <1>2, FoundGrows
    <2>2. Head(q) = m
        BY <1>1
    <2> HIDE DEF q, m
    <2> QED
        BY <1>1, <2>1, <2>2, FoundTail
<1>5. WritesInv(d)'
    BY <1>1, <1>2, <1>3, <1>4 DEF WritesInv
<1>6. /\ \A i \in DOMAIN t : i + 1 \in DOMAIN q /\ t[i] = q[i + 1]
      /\ \A c : /\ \A i : IsLast(t, c, i) => IsLast(q, c, i + 1)
                /\ On(t, c) = {} /\ m.cafe # c => On(q, c) = {}
                /\ On(t, c) = {} /\ m.cafe = c => IsLast(q, c, 1)
    <2>1. ASSUME NEW c
          PROVE  /\ \A i \in DOMAIN t : i + 1 \in DOMAIN q /\ t[i] = q[i + 1]
                 /\ \A i : IsLast(t, c, i) => IsLast(q, c, i + 1)
                 /\ On(t, c) = {} /\ m.cafe # c => On(q, c) = {}
                 /\ On(t, c) = {} /\ m.cafe = c => IsLast(q, c, 1)
        BY <1>1, OnTail
    <2> HIDE DEF t, m, q
    <2> QED
        BY <2>1
<1>7. /\ 1 \in DOMAIN results[d] /\ DOMAIN results[d] \subseteq DOMAIN q
      /\ \A i \in DOMAIN results'[d] : /\ i \in Nat /\ i > 0
                                       /\ i + 1 \in DOMAIN results[d] /\ i \in DOMAIN t
                                       /\ results'[d][i] = results[d][i + 1]
    <2>1. results'[d] = Tail(results[d])
        BY <1>1 DEF TypeOK
    <2>2. Len(results[d]) <= Len(q)
        BY OwnType
    <2>3. /\ DOMAIN t = 1 .. Len(q) - 1 /\ Len(q) \in Nat /\ DOMAIN q = 1 .. Len(q)
          /\ DOMAIN results[d] = 1 .. Len(results[d]) /\ Len(results[d]) \in Nat
          /\ DOMAIN results'[d] = 1 .. Len(results[d]) - 1 /\ 1 \in DOMAIN results[d]
          /\ \A i \in DOMAIN results'[d] : results'[d][i] = results[d][i + 1]
        <3>1. /\ DOMAIN results[d] = 1 .. Len(results[d]) /\ Len(results[d]) \in Nat
              /\ DOMAIN results'[d] = 1 .. Len(results[d]) - 1 /\ 1 \in DOMAIN results[d]
              /\ \A i \in DOMAIN results'[d] : results'[d][i] = results[d][i + 1]
            <4> PICK p : p = results[d]
                OBVIOUS
            <4>1. p \in Seq(Result) /\ p # <<>> /\ results'[d] = Tail(p)
                BY <1>1, <2>1
            <4>2. /\ DOMAIN p = 1 .. Len(p) /\ Len(p) \in Nat
                  /\ DOMAIN Tail(p) = 1 .. Len(p) - 1 /\ 1 \in DOMAIN p
                  /\ \A i \in DOMAIN Tail(p) : Tail(p)[i] = p[i + 1]
                BY <4>1
            <4> QED
                BY <4>1, <4>2
        <3>2. DOMAIN q = 1 .. Len(q) /\ Len(q) \in Nat
            BY <1>1
        <3>3. DOMAIN t = 1 .. Len(q) - 1
            BY <1>1
        <3> QED
            BY <3>1, <3>2, <3>3
    <2> HIDE DEF t, q
    <2>4. DOMAIN results[d] \subseteq DOMAIN q
        BY <2>2, <2>3
    <2>5. ASSUME NEW i \in DOMAIN results'[d]
          PROVE  i \in Nat /\ i > 0 /\ i + 1 \in DOMAIN results[d] /\ i \in DOMAIN t
        BY <2>2, <2>3
    <2> QED
        BY <2>3, <2>4, <2>5
<1>8. ASSUME NEW c \in Cafes
      PROVE  /\ CopiesIn(cache[d][c], u) <= 1
             /\ On(q, c) = {} => CopiesIn(server[c], u) = CopiesIn(cache[d][c], u)
             /\ \A i \in DOMAIN results[d] : IsLast(q, c, i) =>
                    /\ CopiesIn(server[c], u) = Effect(q[i])
                    /\ results[d][i] = "seen" => CopiesIn(cache[d][c], u) = Effect(q[i])
    BY <1>2 DEF ListedInv, StoredInv, Agreed, AgreedOn
<1>9. \A i, j \in DOMAIN results[d] :
          /\ results[d][i] # "rejected"
          /\ i < j /\ q[i].cafe = q[j].cafe /\ results[d][j] = "seen" => results[d][i] = "seen"
    BY DEF ListedInv, StoredInv, AnswersInv
<1> HIDE DEF t, m, q
<1>10. AnswersInv(d)'
    <2>1. \A i \in DOMAIN results'[d] : results'[d][i] # "rejected"
        BY <1>7, <1>9
    <2>2. ASSUME NEW i \in DOMAIN results'[d], NEW j \in DOMAIN results'[d], i < j,
                 t[i].cafe = t[j].cafe, results'[d][j] = "seen"
          PROVE  results'[d][i] = "seen"
        <3>1. i + 1 < j + 1
            BY <1>7, <2>2
        <3>2. q[i + 1].cafe = q[j + 1].cafe
            BY <1>6, <1>7, <2>2
        <3> QED
            BY <1>7, <1>9, <2>2, <3>1, <3>2
    <2> QED
        BY <1>1, <2>1, <2>2 DEF AnswersInv
<1>11. Effect(m) \in {0, 1}
    BY DEF Effect
<1>12. ASSUME NEW c \in Cafes
       PROVE  /\ c # m.cafe => cache'[d][c] = cache[d][c]
              /\ c = m.cafe /\ results[d][1] = "seen" => cache'[d][c] = cache[d][c]
              /\ c = m.cafe /\ results[d][1] = "taken" => CopiesIn(cache'[d][c], u) = Effect(m)
              /\ cache'[d][c] \in Document \cup {NoDoc}
    <2>1. cache[d][c] \in Document \cup {NoDoc}
        BY OwnType
    <2>2. CASE c # m.cafe
        BY <1>1, <2>1, <2>2 DEF TypeOK
    <2>3. CASE c = m.cafe /\ cache' # cache
        <3>1. cache'[d][c] = Apply(cache[d][c], m) /\ results[d][1] = "taken"
            BY <1>1, <2>3 DEF TypeOK
        <3>2. Accepts(cache[d][c], m)
            BY <1>1, <2>3
        <3>3. CopiesIn(Apply(cache[d][c], m), u) = Effect(m)
            BY <1>2, <1>3, <1>8, <2>1, <3>2, OwnEffect
        <3>4. Apply(cache[d][c], m) \in Document
            BY <1>1, <2>1, ApplyType
        <3> QED
            BY <2>3, <3>1, <3>3, <3>4
    <2>4. CASE c = m.cafe /\ cache' = cache
        <3>1. results[d][1] = "taken" => CopiesIn(cache'[d][c], u) = Effect(m)
            <4>1. ASSUME results[d][1] = "taken" PROVE cache' = [cache EXCEPT ![d][m.cafe] = Apply(@, m)]
                BY <1>1, <4>1
            <4>2. ASSUME results[d][1] = "taken" PROVE cache'[d][c] = Apply(cache[d][c], m)
                BY <2>4, <4>1, <4>2 DEF TypeOK
            <4>3. Accepts(cache[d][c], m)
                BY <1>1, <2>4
            <4>4. CopiesIn(Apply(cache[d][c], m), u) = Effect(m)
                BY <1>2, <1>3, <1>8, <2>1, <4>3, OwnEffect
            <4> QED
                BY <4>2, <4>4
        <3> QED
            BY <2>1, <2>4, <3>1
    <2> QED
        BY <2>2, <2>3, <2>4
<1>13. ASSUME NEW c \in Cafes
       PROVE  /\ CopiesIn(cache'[d][c], u) <= 1
              /\ On(t, c) = {} => CopiesIn(server[c], u) = CopiesIn(cache'[d][c], u)
              /\ \A i \in DOMAIN results'[d] : IsLast(t, c, i) =>
                     /\ CopiesIn(server[c], u) = Effect(t[i])
                     /\ results'[d][i] = "seen" => CopiesIn(cache'[d][c], u) = Effect(t[i])
    <2>1. CASE c # m.cafe
        <3>1. cache'[d][c] = cache[d][c]
            BY <1>12, <2>1
        <3>2. On(t, c) = {} => CopiesIn(server[c], u) = CopiesIn(cache'[d][c], u)
            BY <1>6, <1>8, <2>1, <3>1
        <3>3. ASSUME NEW i \in DOMAIN results'[d], IsLast(t, c, i)
              PROVE  /\ CopiesIn(server[c], u) = Effect(t[i])
                     /\ results'[d][i] = "seen" => CopiesIn(cache'[d][c], u) = Effect(t[i])
            <4>1. IsLast(q, c, i + 1) /\ t[i] = q[i + 1] /\ i + 1 \in DOMAIN results[d]
                  /\ results'[d][i] = results[d][i + 1]
                BY <1>6, <1>7, <3>3
            <4> QED
                BY <1>8, <3>1, <4>1
        <3> QED
            BY <1>8, <3>1, <3>2, <3>3
    <2>2. CASE c = m.cafe
        <3>1. results[d][1] = "seen" \/ results[d][1] = "taken"
            BY <1>1
        <3>2. CopiesIn(cache'[d][c], u) <= 1
            BY <1>8, <1>11, <1>12, <2>2, <3>1
        <3>3. ASSUME On(t, c) = {} PROVE CopiesIn(server[c], u) = CopiesIn(cache'[d][c], u)
            <4>1. IsLast(q, c, 1)
                BY <1>6, <2>2, <3>3
            <4>2. /\ CopiesIn(server[c], u) = Effect(m)
                  /\ results[d][1] = "seen" => CopiesIn(cache[d][c], u) = Effect(m)
                BY <1>7, <1>8, <4>1 DEF m
            <4> QED
                BY <1>12, <2>2, <3>1, <4>2
        <3>4. ASSUME NEW i \in DOMAIN results'[d], IsLast(t, c, i)
              PROVE  /\ CopiesIn(server[c], u) = Effect(t[i])
                     /\ results'[d][i] = "seen" => CopiesIn(cache'[d][c], u) = Effect(t[i])
            <4>1. IsLast(q, c, i + 1) /\ t[i] = q[i + 1] /\ i + 1 \in DOMAIN results[d]
                  /\ results'[d][i] = results[d][i + 1]
                BY <1>6, <1>7, <3>4
            <4>2. /\ CopiesIn(server[c], u) = Effect(t[i])
                  /\ results'[d][i] = "seen" => CopiesIn(cache[d][c], u) = Effect(t[i])
                BY <1>8, <4>1
            <4>3. results'[d][i] = "seen" => results[d][1] = "seen"
                <5>1. 1 < i + 1
                    BY <1>7
                <5>2. q[1].cafe = q[i + 1].cafe
                    BY <2>2, <4>1 DEF IsLast, On, m
                <5> QED
                    BY <1>7, <1>9, <4>1, <5>1, <5>2
            <4> QED
                BY <1>12, <2>2, <4>2, <4>3
        <3> QED
            BY <3>2, <3>3, <3>4
    <2> QED
        BY <2>1, <2>2
<1>14. Agreed(d)'
    BY <1>1, <1>2, <1>13 DEF Agreed, AgreedOn
<1>15. ASSUME NEW c \in Cafes PROVE Listed(d, c)' = Listed(d, c)
    <2>1. Listed(d, c)' = CopiesIn(View(cache'[d][c], t, c), u)
        BY <1>1, <1>2 DEF Listed
    <2>2. c \in Cached(d)' => cache'[d][c] # NoDoc
        BY DEF Cached
    <2>3. /\ CopiesIn(cache'[d][c], u) <= 1
          /\ cache'[d][c] \in Document \cup {NoDoc}
        BY <1>12, <1>13
    <2>4. /\ On(t, c) = {} => Listed(d, c)' = CopiesIn(cache'[d][c], u)
          /\ \A i : IsLast(t, c, i) => Listed(d, c)' = Effect(t[i])
        BY <1>2, <1>3, <1>4, <2>1, <2>2, <2>3, ViewListed
    <2>5. /\ On(q, c) = {} => Listed(d, c) = CopiesIn(cache[d][c], u)
          /\ \A i : IsLast(q, c, i) => Listed(d, c) = Effect(q[i])
        BY <1>1, ListedIs DEF q
    <2>6. CASE On(t, c) = {} /\ c # m.cafe
        BY <1>6, <1>12, <2>4, <2>5, <2>6
    <2>7. CASE On(t, c) = {} /\ c = m.cafe
        <3>1. IsLast(q, c, 1)
            BY <1>6, <2>7
        <3>2. Listed(d, c) = Effect(m) /\ Listed(d, c)' = CopiesIn(cache'[d][c], u)
            BY <2>4, <2>5, <2>7, <3>1 DEF m
        <3>3. results[d][1] = "seen" => CopiesIn(cache[d][c], u) = Effect(m)
            BY <1>7, <1>8, <3>1 DEF m
        <3>4. results[d][1] = "seen" \/ results[d][1] = "taken"
            BY <1>1
        <3> QED
            BY <1>12, <2>7, <3>2, <3>3, <3>4
    <2>8. CASE On(t, c) # {}
        <3>1. PICK i \in DOMAIN t : IsLast(t, c, i)
            BY <1>3, <2>8, SomeIsLast
        <3>2. IsLast(q, c, i + 1) /\ t[i] = q[i + 1]
            BY <1>6, <3>1
        <3> QED
            BY <2>4, <2>5, <3>1, <3>2
    <2> QED
        BY <2>6, <2>7, <2>8
<1> QED
    BY <1>5, <1>10, <1>14, <1>15 DEF StoredInv


(* Devices of different people write for different accounts.               *)
Apart == \A d, e \in Devices : d = e \/ (StoreInv /\ Accounts[d] \cap Accounts[e] = {})

LEMMA OthersCommitListed ==
    ASSUME TypeOK, UpdatesInv, Apart, NEW d \in Devices, NEW e \in Devices, e # d,
           ListedInv(d), ListedInv(e), Commit(e)
    PROVE  StoredInv(d)' /\ \A c \in Cafes : Listed(d, c)' = Listed(d, c)
<1> DEFINE m == Own(e)[Len(results[e]) + 1]
<1>1. /\ Len(results[e]) + 1 \in DOMAIN Own(e) /\ m \in Mutation /\ m.cafe \in Cafes
      /\ switches[e] # 0 /\ Accepts(server[m.cafe], m)
      /\ server' = [server EXCEPT ![m.cafe] = ServerApply(@, m)]
      /\ results' = [results EXCEPT ![e] = Append(@, "taken")]
      /\ UNCHANGED <<cache, pending, currentUser, switches>>
    BY CommitTaken
<1>2. StoreInv /\ Accounts[d] \cap Accounts[e] = {}
    BY DEF Apart
<1>3. m.op # "set" /\ m.uid \in Accounts[e]
    <2>1. /\ Own(e) \in Seq(Updates) /\ Own(e) \in Seq(WritesOf(currentUser[e]))
          /\ currentUser[e] \in Accounts[e]
        BY <1>1, <1>2 DEF StoreInv, NobodySets, Own, TypeOK, ListedInv, StoredInv, WritesInv,
                          StartsUnset
    <2>2. m \in Updates /\ m \in WritesOf(currentUser[e])
        BY <1>1, <2>1
    <2> HIDE DEF m
    <2> QED
        BY <2>1, <2>2 DEF Updates, WritesOf
<1> HIDE DEF m
<1>4. /\ Own(d)' = Own(d) /\ Cached(d)' = Cached(d) /\ Followed(d)' = Followed(d)
      /\ results'[d] = results[d] /\ \A c \in Cafes : Listed(d, c)' = Listed(d, c)
    BY <1>1 DEF Own, Cached, Followed, Listed, TypeOK
<1>5. ASSUME NEW u \in Followed(d), NEW c \in Cafes
      PROVE  CopiesIn(server'[c], u) = CopiesIn(server[c], u)
    <2>1. u \in Users /\ u # m.uid /\ server[c] \in Document \cup {NoDoc}
        BY <1>2, <1>3, FollowedAre, OwnType DEF ListedInv
    <2>2. CASE c = m.cafe
        <3>1. server'[c] = ServerApply(server[c], m) /\ Accepts(server[c], m)
            BY <1>1, <2>2 DEF TypeOK
        <3>2. CopiesIn(ServerApply(server[c], m), u) = CopiesIn(Apply(server[c], m), u)
            BY <1>1, <2>1, <3>1, CopiesApplied
        <3>3. CopiesIn(Apply(server[c], m), u) = CopiesIn(server[c], u)
            BY <1>1, <1>3, <2>1, <3>1, CopiesApplied
        <3> QED
            BY <3>1, <3>2, <3>3
    <2>3. CASE c # m.cafe
        BY <1>1, <2>3 DEF TypeOK
    <2> QED
        BY <2>2, <2>3
<1>6. Agreed(d)'
    BY <1>1, <1>4, <1>5 DEF Agreed, AgreedOn, ListedInv, StoredInv
<1>7. AnswersInv(d)' /\ WritesInv(d)'
    BY <1>1, <1>4 DEF AnswersInv, WritesInv, ListedInv, StoredInv
<1> QED
    BY <1>4, <1>6, <1>7 DEF StoredInv

(* A user signs in.                                                        *)
LEMMA SignInListed ==
    ASSUME TypeOK, UpdatesInv, MaxSwitches <= 1, NEW d \in Devices, NEW u \in Users, SignIn(d, u),
           ListedInv(d)
    PROVE  ListedInv(d)'
<1>1. switches[d] = 0 /\ u \in Accounts[d]
    BY Parts, SignInUser DEF SignIn
<1>2. /\ UNCHANGED <<server, cache, pending, results, button>>
      /\ currentUser'[d] = u /\ switches'[d] = 1
    BY <1>1 DEF SignIn, storeVars, TypeOK
<1>3. Own(d)' = <<>> /\ results'[d] = <<>> /\ Followed(d)' = {u} /\ Own(d) = <<>>
    <2>1. \A o \in Owners : pending[d][o] = <<>>
        BY <1>1, Parts DEF UserInv
    <2> QED
        BY <1>1, <1>2, <2>1, OwnType DEF Own, Owners, Followed
<1>4. WritesInv(d)'
    <2>1. <<>> \in Seq(WritesOf(u)) /\ Found(Cached(d)', <<>>)
        BY DEF Found
    <2> QED
        BY <1>2, <1>3, <2>1 DEF WritesInv
<1>5. Agreed(d)'
    <2>1. \A c \in Cafes : AgreedOn(d, u, c)
        BY <1>1 DEF ListedInv, StoredInv, Agreed, Followed
    <2> QED
        BY <1>2, <1>3, <2>1 DEF Agreed, AgreedOn, On
<1>6. AnswersInv(d)'
    BY <1>3 DEF AnswersInv
<1>7. StartsUnset(d)'
    BY <1>1, <1>2 DEF StartsUnset, ListedInv
<1> QED
    BY <1>4, <1>5, <1>6, <1>7 DEF StoredInv, ListedInv

-----------------------------------------------------------------------------
(***************************************************************************)
(* A tap and its two reads.  There is one read of a cafe at a time, asked  *)
(* for by the user of now.  The answer to the first says what the device   *)
(* shows, and still does when it is called back; while the second is under *)
(* way the button is on and the device does not show the cafe yet.         *)
(***************************************************************************)
RepliesOn(q, c) == {i \in DOMAIN q : q[i].type = "reply" /\ q[i].read.cafe = c}

OfTap(d, c, r) ==
    /\ r.uid = currentUser[d]
    /\ r.kind = "add" => button[d][c] = "on" /\ Listed(d, c) = 0
StillTrue(d, c, e) ==
    /\ e.read.kind = "check" => (e.ans = "in" <=> Listed(d, c) > 0)
    /\ e.ans # "absent" => Held(d, c)

TapInv(d, c) ==
    LET q == mainQueue[d]
        replies == RepliesOn(q, c)
    IN  /\ \A i, j \in replies : i = j
        /\ reads[d][c] # <<>> =>
               Len(reads[d][c]) = 1 /\ replies = {} /\ OfTap(d, c, reads[d][c][1])
        /\ \A i \in replies : OfTap(d, c, q[i].read) /\ StillTrue(d, c, q[i])
        /\ reads[d][c] = <<>> /\ replies = {} /\ button[d][c] # "unset" =>
               (button[d][c] = "on" <=> Listed(d, c) > 0)

ButtonInv(d) == ListedInv(d) /\ \A c \in Cafes : TapInv(d, c)

LEMMA RepliesTail ==
    ASSUME NEW q \in Seq(Messages), q # <<>>, NEW c
    PROVE  /\ \A i \in RepliesOn(Tail(q), c) : i + 1 \in RepliesOn(q, c) /\ Tail(q)[i] = q[i + 1]
           /\ \A i \in RepliesOn(q, c) : i = 1 \/ i - 1 \in RepliesOn(Tail(q), c)
           /\ 1 \in DOMAIN q /\ Head(q) = q[1]
<1>1. /\ Len(q) \in Nat /\ DOMAIN q = 1 .. Len(q) /\ DOMAIN Tail(q) = 1 .. Len(q) - 1 /\ Len(q) > 0
      /\ \A i \in 1 .. Len(q) - 1 : Tail(q)[i] = q[i + 1]
      /\ Head(q) = q[1]
    OBVIOUS
<1>2. \A i \in DOMAIN Tail(q) : i + 1 \in DOMAIN q
    BY <1>1
<1>3. \A i \in DOMAIN q : i = 1 \/ (i - 1 \in DOMAIN Tail(q) /\ Tail(q)[i - 1] = q[i])
    BY <1>1
<1> QED
    BY <1>1, <1>2, <1>3 DEF RepliesOn

LEMMA RepliesAppend ==
    ASSUME NEW q \in Seq(Messages), NEW e \in Messages, NEW c
    PROVE  /\ RepliesOn(Append(q, e), c) =
                  RepliesOn(q, c) \cup
                      IF e.type = "reply" /\ e.read.cafe = c THEN {Len(q) + 1} ELSE {}
           /\ \A i \in RepliesOn(q, c) : Append(q, e)[i] = q[i] /\ i \in Nat
           /\ Append(q, e)[Len(q) + 1] = e
<1> DEFINE all == Append(q, e)
<1>1. /\ Len(q) \in Nat /\ DOMAIN q = 1 .. Len(q) /\ DOMAIN all = 1 .. Len(q) + 1
      /\ \A i \in 1 .. Len(q) : all[i] = q[i]
      /\ all[Len(q) + 1] = e
    OBVIOUS
<1> HIDE DEF all
<1>2. DOMAIN all = DOMAIN q \cup {Len(q) + 1}
    BY <1>1
<1> QED
    BY <1>1, <1>2 DEF RepliesOn, all

-----------------------------------------------------------------------------
(* Before its first user a device has nothing under way.                   *)
LEMMA NothingYet ==
    ASSUME UpdatesInv, NEW d \in Devices, StartsUnset(d), switches[d] = 0
    PROVE  \A c \in Cafes : reads[d][c] = <<>> /\ RepliesOn(mainQueue[d], c) = {} /\ button[d][c] = "unset"
BY Parts DEF UserInv, StartsUnset, RepliesOn

LEMMA Untapped ==
    ASSUME NEW d \in Devices, NEW c \in Cafes, reads'[d][c] = <<>>,
           RepliesOn(mainQueue'[d], c) = {}, button'[d][c] = "unset"
    PROVE  TapInv(d, c)'
BY DEF TapInv

(* A tap that is left alone: at most, other messages leave the queue       *)
(* before it or join it behind.                                            *)
LEMMA TapKept ==
    ASSUME TypeOK', UpdatesInv, Keeps, NEW d \in Devices, NEW c \in Cafes,
           StartsUnset(d), TapInv(d, c), NEW k \in Nat,
           \A i \in RepliesOn(mainQueue'[d], c) :
               i + k \in RepliesOn(mainQueue[d], c) /\ mainQueue'[d][i] = mainQueue[d][i + k],
           RepliesOn(mainQueue'[d], c) = {} => RepliesOn(mainQueue[d], c) = {},
           reads'[d][c] = reads[d][c], button'[d][c] = button[d][c],
           currentUser'[d] = currentUser[d],
           switches[d] # 0 => Listed(d, c)' = Listed(d, c)
    PROVE  TapInv(d, c)'
<1>1. CASE switches[d] = 0
    <2>1. reads[d][c] = <<>> /\ RepliesOn(mainQueue[d], c) = {} /\ button[d][c] = "unset"
        BY <1>1, NothingYet
    <2>2. RepliesOn(mainQueue'[d], c) = {}
        BY <2>1
    <2> QED
        BY <2>1, <2>2, Untapped
<1>2. CASE switches[d] # 0
    <2> DEFINE old == RepliesOn(mainQueue[d], c)
               new == RepliesOn(mainQueue'[d], c)
    <2>1. Listed(d, c)' = Listed(d, c) /\ (Held(d, c) => Held(d, c)')
        BY <1>2 DEF Keeps
    <2>2. \A i \in new : i \in Nat
        BY DEF TypeOK, RepliesOn
    <2>3. /\ \A i, j \in old : i = j
          /\ reads[d][c] # <<>> =>
                 Len(reads[d][c]) = 1 /\ old = {} /\ OfTap(d, c, reads[d][c][1])
          /\ \A i \in old :
                 OfTap(d, c, mainQueue[d][i].read) /\ StillTrue(d, c, mainQueue[d][i])
          /\ reads[d][c] = <<>> /\ old = {} /\ button[d][c] # "unset" =>
                 (button[d][c] = "on" <=> Listed(d, c) > 0)
        BY DEF TapInv
    <2> HIDE DEF old, new
    <2>4. \A i \in new : i + k \in old /\ mainQueue'[d][i] = mainQueue[d][i + k]
        BY DEF old, new
    <2>5. new = {} <=> old = {}
        BY <2>4 DEF old, new
    <2>6. \A i, j \in new : i = j
        <3> SUFFICES ASSUME NEW i \in new, NEW j \in new PROVE i = j
            OBVIOUS
        <3>1. i + k = j + k
            BY <2>3, <2>4
        <3> QED
            BY <2>2, <3>1
    <2>7. \A r : OfTap(d, c, r) =>
              /\ r.uid = currentUser'[d]
              /\ r.kind = "add" => button'[d][c] = "on" /\ Listed(d, c)' = 0
        BY <2>1 DEF OfTap
    <2>8. \A e : StillTrue(d, c, e) =>
              /\ e.read.kind = "check" => (e.ans = "in" <=> Listed(d, c)' > 0)
              /\ e.ans # "absent" => Held(d, c)'
        BY <2>1 DEF StillTrue
    <2>9. reads'[d][c] # <<>> =>
              /\ Len(reads'[d][c]) = 1 /\ new = {}
              /\ OfTap(d, c, reads[d][c][1])'
        BY <2>3, <2>5, <2>7 DEF OfTap
    <2>10. \A i \in new :
              /\ mainQueue'[d][i].read.uid = currentUser'[d]
              /\ mainQueue'[d][i].read.kind = "add" => button'[d][c] = "on" /\ Listed(d, c)' = 0
              /\ mainQueue'[d][i].read.kind = "check" =>
                     (mainQueue'[d][i].ans = "in" <=> Listed(d, c)' > 0)
              /\ mainQueue'[d][i].ans # "absent" => Held(d, c)'
        BY <2>3, <2>4, <2>7, <2>8
    <2>11. reads'[d][c] = <<>> /\ new = {} /\ button'[d][c] # "unset" =>
               (button'[d][c] = "on" <=> Listed(d, c)' > 0)
        BY <2>1, <2>3, <2>5
    <2> QED
        BY <2>6, <2>9, <2>10, <2>11 DEF TapInv, OfTap, StillTrue, new
<1> QED
    BY <1>1, <1>2

-----------------------------------------------------------------------------
(***************************************************************************)
(* The steps of a device.                                                  *)
(***************************************************************************)

(* Nothing of what the tap of any cafe is about changes.                   *)
LEMMA TapsAlone ==
    ASSUME TypeOK', UpdatesInv, Keeps, NEW d \in Devices, ButtonInv(d),
           UNCHANGED <<mainQueue[d], reads[d], button[d], currentUser[d]>>,
           \A c \in Cafes : switches[d] # 0 => Listed(d, c)' = Listed(d, c)
    PROVE  \A c \in Cafes : TapInv(d, c)'
<1> SUFFICES ASSUME NEW c \in Cafes PROVE TapInv(d, c)'
    OBVIOUS
<1>1. \A i \in RepliesOn(mainQueue'[d], c) :
          i + 0 \in RepliesOn(mainQueue[d], c) /\ mainQueue'[d][i] = mainQueue[d][i + 0]
    <2>1. \A i \in RepliesOn(mainQueue'[d], c) : i \in Nat
        BY DEF RepliesOn, TypeOK
    <2> QED
        BY <2>1
<1>2. StartsUnset(d) /\ TapInv(d, c) /\ 0 \in Nat
    BY DEF ButtonInv, ListedInv
<1> QED
    BY <1>1, <1>2, TapKept

(* The head of the queue is taken; the tap of a cafe it does not answer    *)
(* goes on.                                                                *)
LEMMA TapsElsewhere ==
    ASSUME TypeOK, TypeOK', UpdatesInv, Keeps, NEW d \in Devices, NEW c \in Cafes, ButtonInv(d),
           mainQueue[d] # <<>>, mainQueue'[d] = Tail(mainQueue[d]),
           Head(mainQueue[d]).type = "reply" => Head(mainQueue[d]).read.cafe # c,
           reads'[d][c] = reads[d][c], button'[d][c] = button[d][c],
           currentUser'[d] = currentUser[d],
           switches[d] # 0 => Listed(d, c)' = Listed(d, c)
    PROVE  TapInv(d, c)'
<1> DEFINE q == mainQueue[d]
<1>1. q \in Seq(Messages) /\ q # <<>>
    BY DEF TypeOK, Messages
<1> HIDE DEF q
<1>2. /\ \A i \in RepliesOn(Tail(q), c) : i + 1 \in RepliesOn(q, c) /\ Tail(q)[i] = q[i + 1]
      /\ \A i \in RepliesOn(q, c) : i = 1 \/ i - 1 \in RepliesOn(Tail(q), c)
      /\ 1 \in DOMAIN q /\ Head(q) = q[1]
    BY <1>1, RepliesTail
<1>3. 1 \notin RepliesOn(q, c)
    BY <1>2 DEF RepliesOn, q
<1>4. RepliesOn(Tail(q), c) = {} => RepliesOn(q, c) = {}
    BY <1>2, <1>3
<1>5. StartsUnset(d) /\ TapInv(d, c) /\ 1 \in Nat
    BY DEF ButtonInv, ListedInv
<1>6. \A i \in RepliesOn(mainQueue'[d], c) :
          i + 1 \in RepliesOn(mainQueue[d], c) /\ mainQueue'[d][i] = mainQueue[d][i + 1]
    BY <1>2 DEF q
<1>7. RepliesOn(mainQueue'[d], c) = {} => RepliesOn(mainQueue[d], c) = {}
    BY <1>4 DEF q
<1> QED
    BY <1>5, <1>6, <1>7, TapKept

(* Nothing changes but the connection, or the list of collected cafes.     *)
LEMMA SameButton ==
    ASSUME TypeOK', UpdatesInv, Keeps, NEW d \in Devices, ButtonInv(d),
           UNCHANGED <<server, pending[d], currentUser[d], switches[d], cache[d], mainQueue[d],
                       reads[d], button[d]>>,
           results'[d] = results[d] \/ results'[d] = <<>>
    PROVE  ButtonInv(d)'
<1>1. StoredInv(d)' /\ \A c \in Cafes : Listed(d, c)' = Listed(d, c)
    BY SameListed DEF ButtonInv, ListedInv
<1>2. \A c \in Cafes : TapInv(d, c)'
    BY <1>1, TapsAlone
<1>3. StartsUnset(d)'
    BY DEF StartsUnset, ButtonInv, ListedInv
<1> QED
    BY <1>1, <1>2, <1>3 DEF ButtonInv, ListedInv

(* Documents are taken up, and nothing else of the device changes.         *)
LEMMA LearnButton ==
    ASSUME TypeOK, TypeOK', UpdatesInv, Keeps, NEW d \in Devices, ButtonInv(d),
           NEW C \in SUBSET Cafes, Notice(d, C),
           UNCHANGED <<server, pending, currentUser, switches, mainQueue, reads, button>>,
           \A c \in C : cache'[d][c] = Known(d, c),
           \A c \in Cafes \ C : cache'[d][c] = cache[d][c]
    PROVE  ButtonInv(d)'
<1>1. /\ StoredInv(d)'
      /\ switches[d] # 0 => \A c \in Cafes : Listed(d, c)' = Listed(d, c)
    BY LearnListed DEF ButtonInv
<1>2. \A c \in Cafes : TapInv(d, c)'
    BY <1>1, TapsAlone
<1>3. StartsUnset(d)'
    BY DEF StartsUnset, ButtonInv, ListedInv
<1> QED
    BY <1>1, <1>2, <1>3 DEF ButtonInv, ListedInv

LEMMA CommitButton ==
    ASSUME TypeOK, TypeOK', UpdatesInv, Keeps, NEW d \in Devices, ButtonInv(d), Commit(d)
    PROVE  ButtonInv(d)'
<1>1. StoredInv(d)' /\ \A c \in Cafes : Listed(d, c)' = Listed(d, c)
    BY CommitListed DEF ButtonInv
<1>2. UNCHANGED <<mainQueue, reads, button, currentUser, switches>>
    BY DEF Commit, authVars
<1>3. \A c \in Cafes : TapInv(d, c)'
    BY <1>1, <1>2, TapsAlone
<1>4. StartsUnset(d)'
    BY <1>2 DEF StartsUnset, ButtonInv, ListedInv
<1> QED
    BY <1>1, <1>3, <1>4 DEF ButtonInv, ListedInv

LEMMA AcknowledgeButton ==
    ASSUME TypeOK, TypeOK', UpdatesInv, Keeps, NEW d \in Devices, ButtonInv(d), Acknowledge(d)
    PROVE  ButtonInv(d)'
<1>1. StoredInv(d)' /\ \A c \in Cafes : Listed(d, c)' = Listed(d, c)
    BY AcknowledgeListed DEF ButtonInv
<1>2. UNCHANGED <<mainQueue, reads, button, currentUser, switches>>
    BY DEF Acknowledge, authVars
<1>3. \A c \in Cafes : TapInv(d, c)'
    BY <1>1, <1>2, TapsAlone
<1>4. StartsUnset(d)'
    BY <1>2 DEF StartsUnset, ButtonInv, ListedInv
<1> QED
    BY <1>1, <1>3, <1>4 DEF ButtonInv, ListedInv

LEMMA SignInButton ==
    ASSUME TypeOK, UpdatesInv, MaxSwitches <= 1, NEW d \in Devices, NEW u \in Users, SignIn(d, u),
           ButtonInv(d)
    PROVE  ButtonInv(d)'
<1> DEFINE note == [type |-> "auth", uid |-> u]
<1>1. switches[d] = 0
    BY Parts, SignInUser
<1>2. /\ mainQueue'[d] = Append(mainQueue[d], note)
      /\ UNCHANGED <<reads, button>>
    BY DEF SignIn, PostAuthNote, TypeOK
<1>3. mainQueue[d] \in Seq(Messages) /\ note \in Messages /\ note.type # "reply"
    BY DEF TypeOK, Messages, AuthNote, Owners
<1> HIDE DEF note
<1>4. \A c \in Cafes : RepliesOn(mainQueue'[d], c) = RepliesOn(mainQueue[d], c)
    <2> DEFINE q == mainQueue[d]
    <2>1. q \in Seq(Messages) /\ mainQueue'[d] = Append(q, note)
        BY <1>2, <1>3
    <2> HIDE DEF q
    <2>2. ASSUME NEW c \in Cafes PROVE RepliesOn(Append(q, note), c) = RepliesOn(q, c)
        <3>1. RepliesOn(Append(q, note), c) =
                  RepliesOn(q, c) \cup
                      IF note.type = "reply" /\ note.read.cafe = c THEN {Len(q) + 1} ELSE {}
            BY <1>3, <2>1, RepliesAppend
        <3> QED
            BY <1>3, <3>1
    <2> QED
        BY <2>1, <2>2 DEF q
<1>5. StartsUnset(d)
    BY DEF ButtonInv, ListedInv
<1>6. \A c \in Cafes : TapInv(d, c)'
    BY <1>1, <1>2, <1>4, <1>5, NothingYet, Untapped
<1> QED
    BY <1>6, SignInListed DEF ButtonInv

LEMMA RelaunchButton ==
    ASSUME TypeOK, UpdatesInv, NEW d \in Devices, Relaunch(d), ButtonInv(d)
    PROVE  ButtonInv(d)'
<1>1. /\ UNCHANGED <<server, cache, pending, currentUser, switches>> /\ results'[d] = <<>>
      /\ mainQueue'[d] = <<[type |-> "auth", uid |-> currentUser[d]]>>
      /\ \A c \in Cafes : button'[d][c] = "unset" /\ reads'[d][c] = <<>>
    BY DEF Relaunch, EndStream, TypeOK
<1>2. \A c \in Cafes : RepliesOn(mainQueue'[d], c) = {}
    BY <1>1 DEF RepliesOn
<1>3. \A c \in Cafes : TapInv(d, c)'
    BY <1>1, <1>2, Untapped
<1>4. StoredInv(d)'
    BY <1>1, SameListed DEF ButtonInv, ListedInv
<1>5. StartsUnset(d)'
    BY <1>1 DEF StartsUnset, ButtonInv, ListedInv
<1> QED
    BY <1>3, <1>4, <1>5 DEF ButtonInv, ListedInv

LEMMA AuthButton ==
    ASSUME TypeOK, TypeOK', UpdatesInv, Keeps, NEW d \in Devices, AuthStateDidChange(d),
           ButtonInv(d)
    PROVE  ButtonInv(d)'
<1>1. /\ UNCHANGED <<server, cache, pending, currentUser, switches, reads, button>>
      /\ results'[d] = <<>>
      /\ mainQueue[d] # <<>> /\ mainQueue'[d] = Tail(mainQueue[d])
      /\ Head(mainQueue[d]).type = "auth"
    BY DEF AuthStateDidChange, EndStream, TypeOK
<1>2. StoredInv(d)' /\ \A c \in Cafes : Listed(d, c)' = Listed(d, c)
    BY <1>1, SameListed DEF ButtonInv, ListedInv
<1>3. \A c \in Cafes : TapInv(d, c)'
    BY <1>1, <1>2, TapsElsewhere
<1>4. StartsUnset(d)'
    BY <1>1 DEF StartsUnset, ButtonInv, ListedInv
<1> QED
    BY <1>2, <1>3, <1>4 DEF ButtonInv, ListedInv

(* One tap at a time: what is tapped waits for nothing.                    *)
LEMMA RepliesAreWaitedFor ==
    ASSUME TypeOK, NEW d \in Devices, NEW c \in Cafes
    PROVE  /\ RepliesOn(mainQueue[d], c) \subseteq 1 .. Len(mainQueue[d])
           /\ \A i \in RepliesOn(mainQueue[d], c) : i \in Nat
           /\ Unanswered(d, c) \in Nat
           /\ Unanswered(d, c) = 0 =>
                  reads[d][c] = <<>> /\ RepliesOn(mainQueue[d], c) = {}
<1> DEFINE q == mainQueue[d]
<1>1. q \in Seq(Messages) /\ reads[d][c] \in Seq(Read)
    BY DEF TypeOK, Messages
<1>2. Unanswered(d, c) = Len(reads[d][c]) + Cardinality(RepliesOn(q, c))
    BY DEF Unanswered, RepliesOn
<1> HIDE DEF q
<1>3. RepliesOn(q, c) \subseteq 1 .. Len(q) /\ Len(q) \in Nat
    BY <1>1 DEF RepliesOn
<1>4. IsFiniteSet(RepliesOn(q, c))
    <2>1. IsFiniteSet(1 .. Len(q))
        BY <1>3, FS_Interval
    <2> QED
        BY <1>3, <2>1, FS_Subset
<1>5. Cardinality(RepliesOn(q, c)) \in Nat /\ Len(reads[d][c]) \in Nat
    BY <1>1, <1>4, FS_CardinalityType
<1>6. ASSUME Unanswered(d, c) = 0
      PROVE  reads[d][c] = <<>> /\ RepliesOn(q, c) = {}
    <2>1. Len(reads[d][c]) = 0 /\ Cardinality(RepliesOn(q, c)) = 0
        BY <1>2, <1>5, <1>6
    <2>2. RepliesOn(q, c) = {}
        BY <1>4, <2>1, FS_EmptySet
    <2> QED
        BY <1>1, <2>1, <2>2
<1>7. Unanswered(d, c) \in Nat
    BY <1>2, <1>5
<1>8. \A i \in RepliesOn(q, c) : i \in Nat
    BY <1>3
<1> QED
    BY <1>3, <1>6, <1>7, <1>8 DEF q

LEMMA TapButton ==
    ASSUME TypeOK, TypeOK', UpdatesInv, Keeps, MaxUnanswered <= 1, NEW d \in Devices,
           NEW c \in Cafes, NEW base, DidClickCollectButton(d, c, base), ButtonInv(d)
    PROVE  ButtonInv(d)'
<1> DEFINE r == [kind |-> "check", cafe |-> c, uid |-> currentUser[d], base |-> base]
<1>1. UNCHANGED <<server, cache, pending, results, currentUser, switches, mainQueue>>
    BY DEF DidClickCollectButton, storeVars, authVars
<1>2. switches[d] # 0
    BY Parts DEF DidClickCollectButton, UserInv
<1>3. currentUser[d] # NoUser
    BY <1>2, ConstantsAssumption DEF ButtonInv, ListedInv, StartsUnset
<1>4. reads' = [reads EXCEPT ![d][c] = Append(@, r)] /\ button' = button
    BY <1>3 DEF DidClickCollectButton
<1>5. StoredInv(d)' /\ \A b \in Cafes : Listed(d, b)' = Listed(d, b)
    BY <1>1, SameListed DEF ButtonInv, ListedInv
<1>6. StartsUnset(d)'
    BY <1>1, <1>4 DEF StartsUnset, ButtonInv, ListedInv
<1>7. reads[d][c] = <<>> /\ RepliesOn(mainQueue[d], c) = {}
    <2>1. Unanswered(d, c) \in Nat
        BY RepliesAreWaitedFor
    <2>2. Unanswered(d, c) < MaxUnanswered
        BY DEF DidClickCollectButton
    <2>3. Unanswered(d, c) = 0
        BY <2>1, <2>2, ConstantsAssumption
    <2> QED
        BY <2>3, RepliesAreWaitedFor
<1>8. reads'[d][c] = <<r>>
    BY <1>4, <1>7 DEF TypeOK
<1>9. r.uid = currentUser[d] /\ r.kind = "check"
    OBVIOUS
<1> HIDE DEF r
<1>10. TapInv(d, c)'
    <2>1. reads'[d][c] # <<>> /\ Len(reads'[d][c]) = 1 /\ reads'[d][c][1] = r
        BY <1>8
    <2> QED
        BY <1>1, <1>7, <1>9, <2>1 DEF TapInv, OfTap
<1>11. ASSUME NEW b \in Cafes, b # c PROVE TapInv(d, b)'
    <2>1. reads'[d][b] = reads[d][b]
        BY <1>4, <1>11 DEF TypeOK
    <2>2. \A i \in RepliesOn(mainQueue'[d], b) :
              i + 0 \in RepliesOn(mainQueue[d], b) /\ mainQueue'[d][i] = mainQueue[d][i + 0]
        <3>1. \A i \in RepliesOn(mainQueue[d], b) : i \in Nat
            BY RepliesAreWaitedFor
        <3> QED
            BY <1>1, <3>1
    <2>3. StartsUnset(d) /\ TapInv(d, b) /\ 0 \in Nat
        BY DEF ButtonInv, ListedInv
    <2> QED
        BY <1>1, <1>4, <1>5, <2>1, <2>2, <2>3, TapKept
<1> QED
    BY <1>5, <1>6, <1>10, <1>11 DEF ButtonInv, ListedInv

(* What Firestore answers is what the device shows.                        *)
LEMMA KnownAlike ==
    ASSUME TypeOK, UpdatesInv, NEW d \in Devices, NEW c \in Cafes, ListedInv(d),
           switches[d] # 0
    PROVE  CopiesIn(View(Known(d, c), Own(d), c), currentUser[d]) = Listed(d, c)
<1> PICK u : u = currentUser[d]
    OBVIOUS
<1>1. u \in Users /\ AgreedOn(d, u, c)
    BY FollowedAre DEF ListedInv, StoredInv, Agreed
<1>2. CASE ~online[d]
    BY <1>2 DEF Known, Listed
<1>3. CASE online[d]
    <2> DEFINE q == Own(d)
    <2>1. Known(d, c) = server[c] /\ server[c] \in Document \cup {NoDoc}
        BY <1>3, OwnType DEF Known
    <2>2. /\ q \in Seq(WritesOf(u)) /\ Found(Documented, q) /\ q \in Seq(Mutation)
          /\ c \in Documented => server[c] # NoDoc
        BY Parts, OwnType DEF ListedInv, StoredInv, WritesInv, FoundInv, Own, TypeOK, Documented
    <2>3. CopiesIn(server[c], u) <= 1
        BY <1>1, Parts DEF NoDuplicates, CopiesIn
    <2>4. /\ On(q, c) = {} => Listed(d, c) = CopiesIn(cache[d][c], u)
          /\ \A i : IsLast(q, c, i) => Listed(d, c) = Effect(q[i])
        BY ListedIs
    <2> HIDE DEF q
    <2>5. /\ On(q, c) = {} => CopiesIn(View(server[c], q, c), u) = CopiesIn(server[c], u)
          /\ \A i : IsLast(q, c, i) => CopiesIn(View(server[c], q, c), u) = Effect(q[i])
        BY <1>1, <2>1, <2>2, <2>3, ViewListed
    <2>6. CASE On(q, c) = {}
        <3>1. CopiesIn(server[c], u) = CopiesIn(cache[d][c], u)
            BY <1>1, <2>6 DEF AgreedOn, q
        <3> QED
            BY <2>1, <2>4, <2>5, <2>6, <3>1 DEF q
    <2>7. CASE On(q, c) # {}
        <3>1. PICK i \in DOMAIN q : IsLast(q, c, i)
            BY <2>2, <2>7, SomeIsLast
        <3> QED
            BY <2>1, <2>4, <2>5, <3>1 DEF q
    <2> QED
        BY <2>6, <2>7
<1> QED
    BY <1>2, <1>3

LEMMA AnswerIsShown ==
    ASSUME TypeOK, UpdatesInv, DocumentsParse, NEW d \in Devices, NEW c \in Cafes, ListedInv(d),
           switches[d] # 0, NEW r \in Read, r.uid = currentUser[d]
    PROVE  LET e == ReplyTo(r, Seen(d, c)) IN
           /\ e \in Messages /\ e.type = "reply" /\ e.read = r
           /\ e.ans = "in" <=> Listed(d, c) > 0
           /\ e.ans # "absent" => Known(d, c) # NoDoc \/ HasSet(Own(d), c)
<1> DEFINE doc == Seen(d, c)
<1>2. doc = View(Known(d, c), Own(d), c)
    BY SentIsOwn DEF Seen
<1>3. CopiesIn(doc, r.uid) = Listed(d, c)
    <2>1. CopiesIn(View(Known(d, c), Own(d), c), currentUser[d]) =
              CopiesIn(View(cache[d][c], Own(d), c), currentUser[d])
        BY KnownAlike DEF Listed
    <2> QED
        BY <1>2, <2>1 DEF Listed
<1>4. doc # NoDoc => doc.whole /\ (Known(d, c) # NoDoc \/ HasSet(Own(d), c))
    BY Parts, SeenIsHeld DEF DocumentsParse
<1> HIDE DEF doc
<1>5. AnswerTo(r, doc) = "in" <=> CopiesIn(doc, r.uid) > 0
    BY <1>4 DEF AnswerTo, CopiesIn
<1>6. AnswerTo(r, doc) # "absent" => doc # NoDoc
    BY DEF AnswerTo
<1>7. AnswerTo(r, doc) \in Answer
    BY DEF AnswerTo, Answer
<1>8. ReplyTo(r, doc) \in Messages
    BY <1>7 DEF ReplyTo, Reply, Messages
<1> QED
    BY <1>3, <1>4, <1>5, <1>6, <1>8 DEF ReplyTo, doc

LEMMA AnswerButton ==
    ASSUME TypeOK, TypeOK', UpdatesInv, Keeps, DocumentsParse, NEW d \in Devices, NEW c \in Cafes,
           AnswerReads(d, c), ButtonInv(d)
    PROVE  ButtonInv(d)'
<1> DEFINE q == mainQueue[d]
           r == reads[d][c][1]
           e == ReplyTo(r, Seen(d, c))
<1>1. /\ UNCHANGED <<server, pending, currentUser, switches, button>>
      /\ \A b \in Cafes : cache'[d][b] = IF b = c THEN Known(d, c) ELSE cache[d][b]
      /\ \A b \in Cafes : reads'[d][b] = IF b = c THEN <<>> ELSE reads[d][b]
      /\ reads[d][c] # <<>> /\ Notice(d, {c}) /\ {c} \in SUBSET Cafes
    BY DEF AnswerReads, Answerable, authVars, TypeOK
<1>2. /\ StoredInv(d)'
      /\ switches[d] # 0 => \A b \in Cafes : Listed(d, b)' = Listed(d, b)
    BY <1>1, LearnListed DEF ButtonInv
<1>3. StartsUnset(d) /\ StartsUnset(d)' /\ ListedInv(d)
    BY <1>1 DEF StartsUnset, ButtonInv, ListedInv
<1>4. switches[d] # 0
    BY <1>1, Parts DEF UserInv
<1>5. Len(reads[d][c]) = 1 /\ RepliesOn(q, c) = {} /\ OfTap(d, c, r)
    BY <1>1 DEF ButtonInv, TapInv
<1>6. r \in Read /\ r.cafe = c /\ r.uid = currentUser[d]
    <2>1. reads[d][c] \in Seq(GoodReads(HeldBy(d), c))
        BY Parts
    <2>2. r \in GoodReads(HeldBy(d), c)
        BY <1>5, <2>1
    <2> HIDE DEF r
    <2> QED
        BY <1>5, <2>2 DEF GoodReads, OfTap
<1>7. mainQueue'[d] = Append(q, e)
    <2>1. mainQueue'[d] = q \o [i \in 1 .. Len(reads[d][c]) |->
                                    ReplyTo(reads[d][c][i], Seen(d, c))]
        BY DEF AnswerReads, TypeOK
    <2>2. [i \in 1 .. Len(reads[d][c]) |-> ReplyTo(reads[d][c][i], Seen(d, c))] = <<e>>
        BY <1>5
    <2>3. q \in Seq(Messages) /\ e \in Messages
        BY <1>3, <1>4, <1>6, AnswerIsShown DEF TypeOK, Messages
    <2> HIDE DEF q, e
    <2>4. q \o <<e>> = Append(q, e)
        BY <2>3
    <2> QED
        BY <2>1, <2>2, <2>4
<1> HIDE DEF r
<1>8. /\ e \in Messages /\ e.type = "reply" /\ e.read = r
      /\ e.ans = "in" <=> Listed(d, c) > 0
      /\ e.ans # "absent" => Known(d, c) # NoDoc \/ HasSet(Own(d), c)
    BY <1>3, <1>4, <1>6, AnswerIsShown
<1>9. q \in Seq(Messages)
    BY DEF TypeOK, Messages
<1> HIDE DEF e
<1>10. \A b \in Cafes : RepliesOn(mainQueue'[d], b) =
                            IF b = c THEN {Len(q) + 1} ELSE RepliesOn(q, b)
    <2> HIDE DEF q
    <2> SUFFICES ASSUME NEW b \in Cafes
                 PROVE  RepliesOn(mainQueue'[d], b) = IF b = c THEN {Len(q) + 1} ELSE RepliesOn(q, b)
        OBVIOUS
    <2>1. RepliesOn(Append(q, e), b) =
              RepliesOn(q, b) \cup IF e.type = "reply" /\ e.read.cafe = b THEN {Len(q) + 1} ELSE {}
        BY <1>8, <1>9, RepliesAppend
    <2> QED
        BY <1>5, <1>6, <1>7, <1>8, <2>1
<1>11. TapInv(d, c)'
    <2> DEFINE n == Len(q) + 1
    <2>1. RepliesOn(mainQueue'[d], c) = {n} /\ mainQueue'[d][n] = e
        <3>1. Append(q, e)[Len(q) + 1] = e
            BY <1>8, <1>9, RepliesAppend
        <3> QED
            BY <1>7, <1>10, <3>1
    <2> HIDE DEF n
    <2>2. reads'[d][c] = <<>> /\ currentUser'[d] = currentUser[d] /\ button'[d][c] = button[d][c]
        BY <1>1
    <2>3. Listed(d, c)' = Listed(d, c)
        BY <1>2, <1>4
    <2>4. OfTap(d, c, r)
        BY <1>5
    <2>5. e.ans # "absent" => Held(d, c)'
        <3>1. cache'[d][c] = Known(d, c) /\ Own(d)' = Own(d)
            BY <1>1 DEF Own
        <3>2. Held(d, c)' <=> cache'[d][c] # NoDoc \/ HasSet(Own(d)', c)
            BY DEF Held, HasSet
        <3> QED
            BY <1>8, <3>1, <3>2
    <2>6. /\ e.read.uid = currentUser'[d]
          /\ e.read.kind = "add" => button'[d][c] = "on" /\ Listed(d, c)' = 0
          /\ e.read.kind = "check" => (e.ans = "in" <=> Listed(d, c)' > 0)
          /\ e.ans # "absent" => Held(d, c)'
        BY <1>8, <2>2, <2>3, <2>4, <2>5 DEF OfTap
    <2> QED
        BY <2>1, <2>2, <2>6 DEF TapInv, OfTap, StillTrue
<1>12. ASSUME NEW b \in Cafes, b # c PROVE TapInv(d, b)'
    <2>1. reads'[d][b] = reads[d][b] /\ RepliesOn(mainQueue'[d], b) = RepliesOn(q, b)
        BY <1>1, <1>10, <1>12
    <2>2. \A i \in RepliesOn(q, b) : mainQueue'[d][i] = q[i] /\ i \in Nat
        <3> HIDE DEF q
        <3>1. \A i \in RepliesOn(q, b) : Append(q, e)[i] = q[i] /\ i \in Nat
            BY <1>8, <1>9, RepliesAppend
        <3> QED
            BY <1>7, <3>1
    <2>3. \A i \in RepliesOn(mainQueue'[d], b) :
              i + 0 \in RepliesOn(mainQueue[d], b) /\ mainQueue'[d][i] = mainQueue[d][i + 0]
        BY <2>1, <2>2
    <2>4. TapInv(d, b) /\ 0 \in Nat
        BY DEF ButtonInv
    <2> QED
        BY <1>1, <1>2, <1>3, <2>1, <2>3, <2>4, TapKept
<1> QED
    BY <1>2, <1>3, <1>11, <1>12 DEF ButtonInv, ListedInv

(* The reply that is called back next is the only one of its cafe, and no  *)
(* read of the cafe is under way.                                          *)
LEMMA HeadOfTap ==
    ASSUME TypeOK, UpdatesInv, NEW d \in Devices, ButtonInv(d),
           mainQueue[d] # <<>>, Head(mainQueue[d]).type = "reply"
    PROVE  LET e == Head(mainQueue[d])
               c == e.read.cafe
           IN  /\ e \in Reply /\ c \in Cafes /\ e.read.base \in Copies
               /\ e.ans = "absent" => e.read.base = NoCopies
               /\ fsUser[d] = currentUser[d] /\ switches[d] # 0
               /\ currentUser[d] \in Users /\ currentUser[d] # NoUser
               /\ OfTap(d, c, e.read) /\ StillTrue(d, c, e)
               /\ reads[d][c] = <<>> /\ RepliesOn(Tail(mainQueue[d]), c) = {}
<1> DEFINE q == mainQueue[d]
           e == Head(q)
           c == e.read.cafe
<1>1. /\ e \in Reply /\ c \in Cafes /\ e.read.base \in Copies
      /\ e.ans = "absent" => e.read.base = NoCopies
      /\ fsUser[d] = currentUser[d]
    BY HeadFacts
<1>2. switches[d] # 0
    BY Parts, WorksForUser
<1>3. currentUser[d] \in Users /\ currentUser[d] # NoUser
    BY <1>2, ConstantsAssumption DEF ButtonInv, ListedInv, StartsUnset
<1>4. TapInv(d, c)
    BY <1>1 DEF ButtonInv
<1>5. q \in Seq(Messages) /\ q # <<>>
    BY DEF TypeOK, Messages
<1>6. e.type = "reply"
    OBVIOUS
<1> HIDE DEF q, e, c
<1>7. /\ \A i \in RepliesOn(Tail(q), c) : i + 1 \in RepliesOn(q, c) /\ Tail(q)[i] = q[i + 1]
      /\ 1 \in DOMAIN q /\ e = q[1]
    BY <1>5, RepliesTail DEF e
<1>8. 1 \in RepliesOn(q, c) /\ q[1] = e
    BY <1>6, <1>7 DEF RepliesOn, c
<1>9. /\ \A i, j \in RepliesOn(q, c) : i = j
      /\ reads[d][c] # <<>> => RepliesOn(q, c) = {}
      /\ \A i \in RepliesOn(q, c) : OfTap(d, c, q[i].read) /\ StillTrue(d, c, q[i])
    BY <1>4 DEF TapInv, q
<1>10. \A i \in RepliesOn(Tail(q), c) : i \in Nat /\ i # 0
    <2>1. Tail(q) \in Seq(Messages)
        BY <1>5
    <2> HIDE DEF q
    <2> QED
        BY <2>1 DEF RepliesOn
<1>11. RepliesOn(Tail(q), c) = {}
    <2> SUFFICES ASSUME NEW i \in RepliesOn(Tail(q), c) PROVE FALSE
        OBVIOUS
    <2>1. i + 1 = 1
        BY <1>7, <1>8, <1>9
    <2> QED
        BY <1>10, <2>1
<1> QED
    BY <1>1, <1>2, <1>3, <1>8, <1>9, <1>11 DEF q, e, c

LEMMA TapDone ==
    ASSUME NEW d \in Devices, NEW c \in Cafes, reads'[d][c] = <<>>,
           RepliesOn(mainQueue'[d], c) = {},
           button'[d][c] # "unset" => (button'[d][c] = "on" <=> Listed(d, c)' > 0)
    PROVE  TapInv(d, c)'
BY DEF TapInv

LEMMA CheckButton ==
    ASSUME TypeOK, TypeOK', UpdatesInv, Keeps, NEW d \in Devices, CheckReply(d), ButtonInv(d)
    PROVE  ButtonInv(d)'
<1> PICK e : e = Head(mainQueue[d])
    OBVIOUS
<1> PICK now : now = currentUser[d]
    OBVIOUS
<1> DEFINE c   == e.read.cafe
           r   == [kind |-> "add", cafe |-> c, uid |-> now, base |-> e.read.base]
           m   == [op |-> "remove", cafe |-> c, uid |-> now, users |-> NoCopies]
<1>1. /\ mainQueue[d] # <<>> /\ e.type = "reply" /\ e.read.kind = "check"
      /\ mainQueue'[d] = Tail(mainQueue[d])
      /\ UNCHANGED <<server, cache, results, switches, currentUser, fsUser>>
    BY DEF CheckReply, authVars, TypeOK
<1>2. /\ c \in Cafes /\ fsUser[d] = now /\ switches[d] # 0 /\ now \in Users /\ now # NoUser
      /\ StillTrue(d, c, e)
      /\ reads[d][c] = <<>> /\ RepliesOn(mainQueue'[d], c) = {}
    BY <1>1, HeadOfTap
<1>3. button' = [button EXCEPT ![d][c] = IF e.ans = "in" THEN "off" ELSE "on"]
    BY DEF CheckReply
<1>4. CASE e.ans = "in"
    <2>1. Enqueue(d, m) /\ reads' = reads
        BY <1>2, <1>4 DEF CheckReply
    <2>2. m \in GoodWrites /\ m.op = "remove" /\ m.cafe = c /\ m.uid = now
        BY <1>2 DEF GoodWrites, Mutation, Copies, NoCopies
    <2>3. c \in HeldBy(d) /\ Listed(d, c) > 0
        BY <1>1, <1>2, <1>4 DEF StillTrue, HeldBy
    <2> HIDE DEF m, c
    <2>4. \A b \in Cafes : /\ reads'[d][b] = reads[d][b]
                           /\ button'[d][b] = IF b = c THEN "off" ELSE button[d][b]
        BY <1>2, <1>3, <1>4, <2>1 DEF TypeOK
    <2>5. /\ StoredInv(d)'
          /\ \A b \in Cafes : Listed(d, b)' = IF b = c THEN 0 ELSE Listed(d, b)
        <3>1. m \in WritesOf(currentUser[d]) /\ Effect(m) = 0
            BY <1>2, <2>2 DEF GoodWrites, WritesOf, Effect
        <3>2. m.cafe \in HeldBy(d) /\ fsUser[d] = currentUser[d] /\ switches[d] # 0
            BY <1>2, <2>2, <2>3
        <3>3. ListedInv(d) /\ results' = results
            BY DEF ButtonInv, CheckReply
        <3>4. /\ StoredInv(d)'
              /\ \A b \in Cafes : Listed(d, b)' = IF b = m.cafe THEN Effect(m) ELSE Listed(d, b)
            BY <1>1, <2>1, <3>1, <3>2, <3>3, WriteListed
        <3> QED
            BY <2>2, <3>1, <3>4
    <2>7. TapInv(d, c)'
        <3>1. ~(Listed(d, c)' > 0)
            BY <1>2, <2>5
        <3> QED
            BY <1>2, <2>4, <3>1, TapDone
    <2>8. ASSUME NEW b \in Cafes, b # c PROVE TapInv(d, b)'
        BY <1>1, <2>4, <2>5, <2>8, TapsElsewhere DEF c
    <2>9. StartsUnset(d)'
        BY <1>1, <1>2 DEF StartsUnset, ButtonInv, ListedInv
    <2> QED
        BY <2>5, <2>7, <2>8, <2>9 DEF ButtonInv, ListedInv
<1>5. CASE e.ans # "in"
    <2>1. pending' = pending /\ reads' = [reads EXCEPT ![d][c] = Append(@, r)]
        BY <1>2, <1>5 DEF CheckReply
    <2>2. r.kind = "add" /\ r.uid = now
        OBVIOUS
    <2> HIDE DEF r, c
    <2>3. \A b \in Cafes : /\ reads'[d][b] = IF b = c THEN <<r>> ELSE reads[d][b]
                           /\ button'[d][b] = IF b = c THEN "on" ELSE button[d][b]
        BY <1>2, <1>3, <1>5, <2>1 DEF TypeOK
    <2>4. StoredInv(d)' /\ \A b \in Cafes : Listed(d, b)' = Listed(d, b)
        BY <1>1, <2>1, SameListed DEF ButtonInv, ListedInv
    <2>5. StartsUnset(d)'
        BY <1>1, <1>2 DEF StartsUnset, ButtonInv, ListedInv
    <2>6. TapInv(d, c)'
        <3>1. /\ reads'[d][c] # <<>> /\ Len(reads'[d][c]) = 1 /\ reads'[d][c][1] = r
              /\ button'[d][c] = "on"
            BY <1>2, <2>3
        <3>2. Listed(d, c)' = 0
            <4>1. Listed(d, c) \in {0, 1} /\ ~(Listed(d, c) > 0)
                BY <1>1, <1>2, <1>5, ListedIs DEF StillTrue, ButtonInv
            <4> QED
                BY <1>2, <2>4, <4>1
        <3> QED
            BY <1>1, <1>2, <2>2, <3>1, <3>2 DEF TapInv, OfTap
    <2>7. ASSUME NEW b \in Cafes, b # c PROVE TapInv(d, b)'
        BY <1>1, <2>3, <2>4, <2>7, TapsElsewhere DEF c
    <2> QED
        BY <2>4, <2>5, <2>6, <2>7 DEF ButtonInv, ListedInv
<1> QED
    BY <1>4, <1>5

LEMMA AddButton ==
    ASSUME TypeOK, TypeOK', UpdatesInv, Keeps, NEW d \in Devices, AddReply(d), ButtonInv(d)
    PROVE  ButtonInv(d)'
<1> PICK e : e = Head(mainQueue[d])
    OBVIOUS
<1> DEFINE c == e.read.cafe
           m == AddWrite(e)
<1>1. /\ mainQueue[d] # <<>> /\ e.type = "reply" /\ e.read.kind = "add"
      /\ mainQueue'[d] = Tail(mainQueue[d])
      /\ Enqueue(d, m)
      /\ UNCHANGED <<server, cache, results, switches, currentUser, reads, button>>
    BY DEF AddReply, authVars, TypeOK
<1>2. /\ e \in Reply /\ c \in Cafes /\ e.read.base \in Copies
      /\ e.ans = "absent" => e.read.base = NoCopies
      /\ fsUser[d] = currentUser[d] /\ switches[d] # 0 /\ currentUser[d] \in Users
      /\ OfTap(d, c, e.read) /\ StillTrue(d, c, e)
      /\ reads[d][c] = <<>> /\ RepliesOn(mainQueue'[d], c) = {}
    BY <1>1, HeadOfTap
<1>3. button[d][c] = "on" /\ e.read.uid = currentUser[d]
    BY <1>1, <1>2 DEF OfTap
<1>4. m \in Mutation /\ m.cafe = c /\ m.uid = currentUser[d] /\ m.op \in {"set", "union"}
    <2>1. m \in Mutation
        BY <1>2, AddWriteType
    <2> QED
        BY <1>3, <2>1 DEF AddWrite
<1>5. m.op = "set" => m.users = OnlyCopy(m.uid)
    <2>1. ASSUME m.op = "set" PROVE m.users = OnlyCopy(currentUser[d])
        <3>1. e.ans = "absent"
            BY <2>1 DEF AddWrite
        <3>2. m.users = [NoCopies EXCEPT ![currentUser[d]] = @ + 1]
            BY <1>2, <1>3, <3>1 DEF AddWrite
        <3> HIDE DEF m
        <3> QED
            BY <1>2, <3>2 DEF NoCopies, OnlyCopy
    <2> QED
        BY <1>4, <2>1
<1>6. m \in WritesOf(currentUser[d]) /\ Effect(m) = 1
    <2> HIDE DEF m
    <2> QED
        BY <1>4, <1>5 DEF WritesOf, Effect
<1>7. m.op = "set" \/ m.cafe \in HeldBy(d)
    BY <1>2 DEF AddWrite, StillTrue, HeldBy
<1> HIDE DEF m, c
<1>8. /\ StoredInv(d)'
      /\ \A b \in Cafes : Listed(d, b)' = IF b = c THEN 1 ELSE Listed(d, b)
    <2>1. ListedInv(d) /\ fsUser[d] = currentUser[d] /\ switches[d] # 0
        BY <1>2 DEF ButtonInv
    <2>2. /\ StoredInv(d)'
          /\ \A b \in Cafes : Listed(d, b)' = IF b = m.cafe THEN Effect(m) ELSE Listed(d, b)
        BY <1>1, <1>6, <1>7, <2>1, WriteListed
    <2> QED
        BY <1>4, <1>6, <2>2
<1>9. Listed(d, c)' > 0
    BY <1>2, <1>8
<1>10. TapInv(d, c)'
    BY <1>1, <1>2, <1>3, <1>9, TapDone
<1>11. ASSUME NEW b \in Cafes, b # c PROVE TapInv(d, b)'
    BY <1>1, <1>8, <1>11, TapsElsewhere DEF c
<1>12. StartsUnset(d)'
    BY <1>1 DEF StartsUnset, ButtonInv, ListedInv
<1> QED
    BY <1>8, <1>10, <1>11, <1>12 DEF ButtonInv, ListedInv

-----------------------------------------------------------------------------
LEMMA StepButton ==
    ASSUME TypeOK, TypeOK', UpdatesInv, DocumentsParse, MaxSwitches <= 1, MaxUnanswered <= 1,
           NEW d \in Devices, Step(d), ButtonInv(d)
    PROVE  ButtonInv(d)'
<1>1. Keeps
    BY StepUpdates DEF Preserved
<1>2. CASE UserStep(d)
    <2>1. ASSUME NEW c \in Cafes, TapInHome(d, c) PROVE ButtonInv(d)'
        BY <1>1, <2>1, TapButton DEF TapInHome
    <2>2. ASSUME NEW c \in Cafes, TapInMyCollected(d, c) PROVE ButtonInv(d)'
        <3>1. PICK base : base = rows[d][c]
            OBVIOUS
        <3>2. DidClickCollectButton(d, c, base)
            BY <2>2, <3>1 DEF TapInMyCollected
        <3> QED
            BY <1>1, <3>2, TapButton
    <2>3. CASE GetCafes(d)
        <3>1. UNCHANGED <<server, cache, pending, results, currentUser, switches, mainQueue,
                          reads, button>>
            BY <2>3 DEF GetCafes, storeVars, authVars
        <3> QED
            BY <1>1, <3>1, SameButton
    <2>4. ASSUME NEW u \in Users, SignIn(d, u) PROVE ButtonInv(d)'
        BY <2>4, SignInButton
    <2> QED
        BY <1>2, <2>1, <2>2, <2>3, <2>4, NoSignOut DEF UserStep
<1>3. CASE MainQueueStep(d)
    BY <1>1, <1>3, CheckButton, AddButton, AuthButton DEF MainQueueStep
<1>4. CASE FirestoreStep(d)
    <2>1. ASSUME NEW c \in Cafes, CafeCellRead(d, c) PROVE ButtonInv(d)'
        <3>1. UNCHANGED <<server, pending, currentUser, switches, mainQueue, reads, button>>
            BY <2>1 DEF CafeCellRead, authVars
        <3>2. /\ \A b \in {c} : cache'[d][b] = Known(d, b)
              /\ \A b \in Cafes \ {c} : cache'[d][b] = cache[d][b]
              /\ Notice(d, {c}) /\ {c} \in SUBSET Cafes
            BY <2>1 DEF CafeCellRead, Known, TypeOK
        <3> QED
            BY <1>1, <3>1, <3>2, LearnButton
    <2>2. CASE GetCafesReply(d)
        <3>1. UNCHANGED <<server, pending, currentUser, switches, mainQueue, reads, button>>
            BY <2>2 DEF GetCafesReply, authVars
        <3>2. /\ \A b \in Cafes : cache'[d][b] = Known(d, b)
              /\ Notice(d, Cafes) /\ Cafes \in SUBSET Cafes
            BY <2>2 DEF GetCafesReply, TypeOK
        <3> QED
            BY <1>1, <3>1, <3>2, LearnButton
    <2> QED
        BY <1>1, <1>4, <2>1, <2>2, AnswerButton, CommitButton, AcknowledgeButton
           DEF FirestoreStep
<1>5. CASE EnvironmentStep(d)
    <2>1. CASE Disconnect(d) \/ Reconnect(d)
        <3>1. /\ UNCHANGED <<server, cache, pending, currentUser, switches, mainQueue, reads, button>>
              /\ results'[d] = results[d] \/ results'[d] = <<>>
            BY <2>1 DEF Disconnect, Reconnect, EndStream, storeVars, authVars, TypeOK
        <3> QED
            BY <1>1, <3>1, SameButton
    <2> QED
        BY <1>5, <2>1, RelaunchButton DEF EnvironmentStep
<1> QED
    BY <1>2, <1>3, <1>4, <1>5 DEF Step

(* A step of another device.                                               *)
LEMMA OthersLeft ==
    ASSUME TypeOK, NEW d \in Devices, NEW e \in Devices, e # d, Step(d)
    PROVE  /\ button'[e] = button[e]
           /\ Commit(d) \/ (server' = server /\ cache'[e] = cache[e])
<1> USE DEF TypeOK, storeVars
<1>1. CASE UserStep(d)
    <2>1. ASSUME NEW c \in Cafes, NEW base, DidClickCollectButton(d, c, base)
          PROVE  button'[e] = button[e] /\ server' = server /\ cache'[e] = cache[e]
        BY <2>1 DEF DidClickCollectButton
    <2> QED
        BY <1>1, <2>1 DEF UserStep, TapInHome, TapInMyCollected, GetCafes, SignIn, SignOut
<1>2. CASE MainQueueStep(d)
    BY <1>2 DEF MainQueueStep, CheckReply, AddReply, AuthStateDidChange
<1>3. CASE FirestoreStep(d)
    <2>1. CASE Commit(d)
        BY <2>1 DEF Commit
    <2> QED
        BY <1>3, <2>1 DEF FirestoreStep, AnswerReads, CafeCellRead, GetCafesReply, Acknowledge
<1>4. CASE EnvironmentStep(d)
    BY <1>4 DEF EnvironmentStep, Disconnect, Reconnect, Relaunch
<1> QED
    BY <1>1, <1>2, <1>3, <1>4 DEF Step

LEMMA OthersButton ==
    ASSUME TypeOK, TypeOK', UpdatesInv, Keeps, Apart, NEW d \in Devices, NEW e \in Devices, e # d,
           Step(d), ButtonInv(d), ButtonInv(e)
    PROVE  ButtonInv(e)'
<1>1. UNCHANGED <<switches[e], currentUser[e], reads[e], mainQueue[e], pending[e], button[e],
               results[e]>>
    BY OthersSameUser, OthersSameClient, OthersLeft DEF OfUser, OfClient, Step
<1>2. StoredInv(e)' /\ \A c \in Cafes : Listed(e, c)' = Listed(e, c)
    <2>1. CASE Commit(d)
        BY <2>1, OthersCommitListed DEF ButtonInv
    <2>2. CASE server' = server /\ cache'[e] = cache[e]
        BY <1>1, <2>2, SameListed DEF ButtonInv, ListedInv
    <2> QED
        BY <2>1, <2>2, OthersLeft
<1>3. \A c \in Cafes : TapInv(e, c)'
    BY <1>1, <1>2, TapsAlone
<1>4. StartsUnset(e)'
    BY <1>1 DEF StartsUnset, ButtonInv, ListedInv
<1> QED
    BY <1>2, <1>3, <1>4 DEF ButtonInv, ListedInv

-----------------------------------------------------------------------------
ButtonsInv == Apart /\ \A d \in Devices : ButtonInv(d)

(* Devices of different people, who share nothing but the documents.       *)
DevicesApart ==
    \A d, e \in Devices :
        d = e \/ (Preexisting = Cafes /\ Flaky = {} /\ Accounts[d] \cap Accounts[e] = {})

LEMMA InitButtons ==
    ASSUME DevicesApart, Init
    PROVE  ButtonsInv
<1>1. Apart
    BY InitStoreInv DEF DevicesApart, Apart
<1>2. ASSUME NEW d \in Devices PROVE ButtonInv(d)
    <2>1. /\ switches[d] = 0 /\ currentUser[d] \in Owners /\ Own(d) = <<>> /\ mainQueue[d] = <<>>
          /\ results[d] = <<>>
          /\ \A c \in Cafes : /\ cache[d][c] = NoDoc /\ button[d][c] = "unset"
                              /\ reads[d][c] = <<>>
        BY DEF Init, Own, Owners
    <2>2. StartsUnset(d)
        BY <2>1 DEF StartsUnset
    <2>3. Agreed(d)
        <3> SUFFICES ASSUME NEW u \in Followed(d), NEW c \in Cafes PROVE AgreedOn(d, u, c)
            BY DEF Agreed
        <3>1. u \in Users
            BY <2>2, FollowedAre
        <3>2. server[c] = NoDoc \/ server[c].users = NoCopies
            BY DEF Init
        <3>3. CopiesIn(server[c], u) = 0 /\ CopiesIn(cache[d][c], u) = 0
            BY <2>1, <3>1, <3>2 DEF CopiesIn, NoCopies
        <3> QED
            BY <2>1, <3>3 DEF AgreedOn
    <2>4. WritesInv(d) /\ AnswersInv(d)
        BY <2>1 DEF WritesInv, AnswersInv, Found
    <2>5. \A c \in Cafes : TapInv(d, c)
        BY <2>1 DEF TapInv, RepliesOn
    <2> QED
        BY <2>2, <2>3, <2>4, <2>5 DEF ButtonInv, ListedInv, StoredInv
<1> QED
    BY <1>1, <1>2 DEF ButtonsInv

LEMMA ButtonsStep ==
    ASSUME MaxSwitches <= 1, MaxUnanswered <= 1, DevicesApart,
           TypeOK, TypeOK', UpdatesInv, DocumentsParse, ButtonsInv, [Next]_vars
    PROVE  ButtonsInv'
<1>1. Apart'
    <2>1. ASSUME NEW d \in Devices, NEW e \in Devices, d # e
          PROVE  StoreInv' /\ Accounts[d] \cap Accounts[e] = {}
        <3>1. StoreInv /\ Flaky = {} /\ Accounts[d] \cap Accounts[e] = {}
            BY <2>1 DEF ButtonsInv, Apart, DevicesApart
        <3> QED
            BY <3>1, StoreInvStep
    <2> QED
        BY <2>1 DEF Apart
<1>2. ASSUME NEW d \in Devices, NEW e \in Devices, Step(d) PROVE ButtonInv(e)'
    <2>1. Keeps
        BY <1>2, StepUpdates DEF Preserved
    <2> QED
        BY <1>2, <2>1, StepButton, OthersButton DEF ButtonsInv
<1>3. ASSUME UNCHANGED vars, NEW e \in Devices PROVE ButtonInv(e)'
    <2>1. UNCHANGED <<server, cache, pending, results, currentUser, switches, mainQueue, reads,
                      button>>
        BY <1>3 DEF vars
    <2>2. Keeps
        BY <2>1, SameKeeps DEF UpdatesInv
    <2> QED
        BY <2>1, <2>2, SameButton DEF ButtonsInv
<1> QED
    BY <1>1, <1>2, <1>3 DEF Next, Step, ButtonsInv

LEMMA ButtonsShown ==
    ASSUME TypeOK, UpdatesInv, ButtonsInv
    PROVE  ButtonMatchesStore
<1> SUFFICES ASSUME NEW d \in Devices, NEW c \in Cafes, Quiet(d, c), button[d][c] # "unset"
             PROVE  LET doc == View(cache[d][c], pending[d][fsUser[d]], c) IN
                    (button[d][c] = "on") <=> (doc # NoDoc /\ doc.users[currentUser[d]] > 0)
    BY DEF ButtonMatchesStore
<1>1. reads[d][c] = <<>> /\ RepliesOn(mainQueue[d], c) = {}
    BY RepliesAreWaitedFor DEF Quiet
<1>2. button[d][c] = "on" <=> Listed(d, c) > 0
    BY <1>1 DEF ButtonsInv, ButtonInv, TapInv
<1>3. pending[d][fsUser[d]] = Own(d)
    BY SentIsOwn
<1> QED
    BY <1>2, <1>3 DEF Listed, CopiesIn

(* On a device with one user, whose taps wait for one another, a button    *)
(* shows what the device holds for its user as soon as nothing is under    *)
(* way: however long writes wait, wherever answers come from, whenever the *)
(* app is relaunched or cells and the collection take up documents.  The   *)
(* device is alone, or shares the documents of all cafes with devices of   *)
(* other users that stay connected: where another device of the same user, *)
(* or a setData, writes behind its back, a button may well be stale.       *)
THEOREM ButtonsMatchTheStore ==
    ASSUME MaxSwitches <= 1, MaxUnanswered <= 1,
           \A d, e \in Devices :
               d = e \/ (Preexisting = Cafes /\ Flaky = {} /\ Accounts[d] \cap Accounts[e] = {})
    PROVE  Spec => []ButtonMatchesStore
<1>1. DevicesApart
    BY DEF DevicesApart
<1>2. Init => ButtonsInv
    BY <1>1, InitButtons
<1>3. TypeOK /\ TypeOK' /\ UpdatesInv /\ DocumentsParse /\ ButtonsInv /\ [Next]_vars => ButtonsInv'
    BY <1>1, ButtonsStep
<1>4. TypeOK /\ UpdatesInv /\ ButtonsInv => ButtonMatchesStore
    BY ButtonsShown
<1> QED
    BY <1>2, <1>3, <1>4, TypeCorrect, UpdatesInvHolds, DocumentsAlwaysParse, PTL DEF Spec
-----------------------------------------------------------------------------
(***************************************************************************)
(* The refinement: a write that joins the queue asks, the server performs  *)
(* what was asked, the client confirms it, and the end of a stream sends   *)
(* what is left again.                                                     *)
(***************************************************************************)
favs == [u \in Users |-> Favorite(u)]
asked == [d \in Devices |-> Asked(Own(d))]
done == [d \in Devices |-> Len(results[d])]

Asking(m) == [op |-> IF m.op = "remove" THEN "uncollect" ELSE "collect",
              uid |-> m.uid, cafe |-> m.cafe]

(* A setData writes its user's favourite alone.  Where that is all there   *)
(* is, on a device that is the only one, nothing is lost.                  *)
LonelyInv(d) ==
    (\A e \in Devices : e = d) =>
        \A u \in Users \ {currentUser[d]}, c \in Cafes : CopiesIn(server[c], u) = 0

RefiningInv == ButtonsInv /\ \A d \in Devices : LonelyInv(d)

LEMMA AskedLemma ==
    ASSUME NEW q \in Seq(Mutation)
    PROVE  /\ DOMAIN Asked(q) = DOMAIN q /\ Len(Asked(q)) = Len(q)
           /\ \A i \in DOMAIN q : Asked(q)[i] = Asking(q[i])
           /\ \A m \in Mutation : Asked(Append(q, m)) = Append(Asked(q), Asking(m))
           /\ q # <<>> => Asked(Tail(q)) = Tail(Asked(q))
<1>1. /\ Asked(q) = [i \in 1 .. Len(q) |-> Asking(q[i])]
      /\ DOMAIN q = 1 .. Len(q) /\ Len(q) \in Nat
    BY DEF Asked, Asking
<1>2. ASSUME NEW m \in Mutation PROVE Asked(Append(q, m)) = Append(Asked(q), Asking(m))
    <2>1. Asked(Append(q, m)) = [i \in 1 .. Len(q) + 1 |-> Asking(Append(q, m)[i])]
        BY DEF Asked, Asking
    <2>2. \A i \in 1 .. Len(q) + 1 : Append(q, m)[i] = IF i <= Len(q) THEN q[i] ELSE m
        OBVIOUS
    <2>3. Append(Asked(q), Asking(m)) =
              [i \in 1 .. Len(q) + 1 |-> IF i <= Len(q) THEN Asking(q[i]) ELSE Asking(m)]
        BY <1>1
    <2> QED
        BY <2>1, <2>2, <2>3
<1>3. ASSUME q # <<>> PROVE Asked(Tail(q)) = Tail(Asked(q))
    <2>1. Asked(Tail(q)) = [i \in 1 .. Len(q) - 1 |-> Asking(Tail(q)[i])]
        BY <1>3 DEF Asked, Asking
    <2>2. \A i \in 1 .. Len(q) - 1 : Tail(q)[i] = q[i + 1]
        BY <1>3
    <2>3. Tail(Asked(q)) = [i \in 1 .. Len(q) - 1 |-> Asking(q[i + 1])]
        BY <1>1, <1>3
    <2> QED
        BY <2>1, <2>2, <2>3
<1>4. /\ DOMAIN Asked(q) = DOMAIN q /\ Len(Asked(q)) = Len(q)
      /\ \A i \in DOMAIN q : Asked(q)[i] = Asking(q[i])
    BY <1>1
<1> QED
    BY <1>2, <1>3, <1>4

(* A step of d changes what the abstract store keeps of d alone.           *)
LEMMA DifferAt ==
    ASSUME NEW D, NEW f, NEW g, f = [x \in D |-> f[x]], g = [x \in D |-> g[x]],
           NEW w \in D, \A x \in D : x # w => g[x] = f[x]
    PROVE  g = [f EXCEPT ![w] = g[w]]
OBVIOUS

LEMMA OneDevice ==
    ASSUME TypeOK, TypeOK', NEW d \in Devices, Step(d)
    PROVE  /\ asked' = [asked EXCEPT ![d] = Asked(Own(d)')]
           /\ done' = [done EXCEPT ![d] = Len(results'[d])]
           /\ currentUser' = [currentUser EXCEPT ![d] = currentUser'[d]]
<1>1. ASSUME NEW e \in Devices, e # d
      PROVE  Own(e)' = Own(e) /\ results'[e] = results[e] /\ currentUser'[e] = currentUser[e]
    <2>1. UNCHANGED <<pending[e], results[e], currentUser[e]>>
        BY <1>1, OthersSameClient, OthersSameUser DEF OfClient, OfUser, Step
    <2> QED
        BY <2>1 DEF Own
<1>2. asked' = [asked EXCEPT ![d] = asked'[d]]
    <2>1. asked = [x \in Devices |-> asked[x]] /\ asked' = [x \in Devices |-> asked'[x]]
        BY DEF asked
    <2>2. \A e \in Devices : e # d => asked'[e] = asked[e]
        BY <1>1 DEF asked
    <2> QED
        BY <2>1, <2>2, DifferAt
<1>3. done' = [done EXCEPT ![d] = done'[d]]
    <2>1. done = [x \in Devices |-> done[x]] /\ done' = [x \in Devices |-> done'[x]]
        BY DEF done
    <2>2. \A e \in Devices : e # d => done'[e] = done[e]
        BY <1>1 DEF done
    <2> QED
        BY <2>1, <2>2, DifferAt
<1>4. currentUser' = [currentUser EXCEPT ![d] = currentUser'[d]]
    <2>1. /\ currentUser = [x \in Devices |-> currentUser[x]]
          /\ currentUser' = [x \in Devices |-> currentUser'[x]]
        BY DEF TypeOK
    <2> QED
        BY <1>1, <2>1, DifferAt
<1>5. asked'[d] = Asked(Own(d)') /\ done'[d] = Len(results'[d])
    BY DEF asked, done
<1> QED
    BY <1>2, <1>3, <1>4, <1>5

(* What the user of a device wants by the last request, or else by the     *)
(* store, is what the device shows.                                        *)
LEMMA WantedIsListed ==
    ASSUME TypeOK, UpdatesInv, NEW d \in Devices, ListedInv(d), switches[d] # 0, NEW c \in Cafes
    PROVE  Store!Wanted(d, c) <=> Listed(d, c) = 1
<1> PICK u : u = currentUser[d]
    OBVIOUS
<1> DEFINE q == Own(d)
           about == {i \in DOMAIN asked[d] : asked[d][i].cafe = c}
<1>1. Store!Wanted(d, c) <=>
          IF about = {} THEN c \in favs[currentUser[d]]
          ELSE \E i \in about : (\A j \in about : j <= i) /\ asked[d][i].op = "collect"
    BY DEF Store!Wanted, asked, favs, Own
<1>2. u \in Users /\ AgreedOn(d, u, c) /\ q \in Seq(Mutation)
    BY FollowedAre, OwnType DEF ListedInv, StoredInv, Agreed
<1>3. /\ DOMAIN asked[d] = DOMAIN q
      /\ \A i \in DOMAIN q : asked[d][i] = Asking(q[i])
    BY <1>2, AskedLemma DEF asked
<1>4. about = On(q, c)
    <2> HIDE DEF q
    <2>1. ASSUME NEW i \in DOMAIN q PROVE asked[d][i].cafe = q[i].cafe
        <3>1. asked[d][i] = Asking(q[i])
            BY <1>3
        <3>2. Asking(q[i]).cafe = q[i].cafe
            BY DEF Asking
        <3> QED
            BY <3>1, <3>2
    <2> QED
        BY <1>3, <2>1 DEF On
<1>5. /\ On(q, c) = {} => Listed(d, c) = CopiesIn(cache[d][c], u)
      /\ \A i : IsLast(q, c, i) => Listed(d, c) = Effect(q[i])
      /\ Listed(d, c) \in {0, 1}
    BY ListedIs
<1> HIDE DEF about
<1>6. CASE On(q, c) = {}
    <2>1. Listed(d, c) = CopiesIn(server[c], u)
        BY <1>2, <1>5, <1>6 DEF AgreedOn
    <2>2. c \in favs[u] <=> CopiesIn(server[c], u) > 0
        BY <1>2 DEF favs, Favorite, CopiesIn
    <2>3. Store!Wanted(d, c) <=> c \in favs[u]
        BY <1>1, <1>4, <1>6
    <2> QED
        BY <1>5, <2>1, <2>2, <2>3
<1>7. CASE On(q, c) # {}
    <2>1. Store!Wanted(d, c) <=> \E i \in On(q, c) : IsLast(q, c, i) /\ asked[d][i].op = "collect"
        BY <1>1, <1>4, <1>7 DEF IsLast
    <2>2. ASSUME NEW i, IsLast(q, c, i)
          PROVE  asked[d][i].op = "collect" <=> Listed(d, c) = 1
        <3>1. i \in DOMAIN q
            BY <2>2 DEF IsLast, On
        <3>2. asked[d][i].op = IF q[i].op = "remove" THEN "uncollect" ELSE "collect"
            <4> HIDE DEF q
            <4>1. asked[d][i] = Asking(q[i])
                BY <1>3, <3>1
            <4>2. Asking(q[i]).op = IF q[i].op = "remove" THEN "uncollect" ELSE "collect"
                BY DEF Asking
            <4> QED
                BY <4>1, <4>2
        <3>3. Listed(d, c) = IF q[i].op = "remove" THEN 0 ELSE 1
            BY <1>5, <2>2 DEF Effect
        <3> QED
            BY <3>2, <3>3
    <2>3. PICK i \in DOMAIN q : IsLast(q, c, i)
        BY <1>2, <1>7, SomeIsLast
    <2>4. i \in On(q, c)
        BY <2>3 DEF IsLast
    <2> QED
        BY <2>1, <2>2, <2>3, <2>4
<1> QED
    BY <1>6, <1>7

(* A write that says the opposite asks.                                    *)
LEMMA AskRefines ==
    ASSUME TypeOK, TypeOK', UpdatesInv, NEW d \in Devices, Step(d), ListedInv(d),
           switches[d] # 0, currentUser[d] \in Users, fsUser[d] = currentUser[d],
           NEW m \in Mutation, Enqueue(d, m), m.uid = currentUser[d],
           Listed(d, m.cafe) = 1 <=> m.op = "remove",
           UNCHANGED <<server, results, currentUser>>
    PROVE  Store!Ask(d, m.cafe)
<1>1. Own(d)' = Append(Own(d), m) /\ Own(d) \in Seq(Mutation) /\ m.cafe \in Cafes
    BY OwnType DEF Own, Enqueue, TypeOK, Mutation
<1>2. Asked(Own(d)') = Append(asked[d], Asking(m))
    BY <1>1, AskedLemma DEF asked
<1>3. asked' = [asked EXCEPT ![d] = Append(asked[d], Asking(m))]
    BY <1>2, OneDevice
<1>4. favs' = favs /\ done' = done
    BY DEF favs, Favorite, done
<1>5. Store!Wanted(d, m.cafe) <=> Listed(d, m.cafe) = 1
    BY <1>1, WantedIsListed
<1>6. Asking(m) = [op |-> IF Store!Wanted(d, m.cafe) THEN "uncollect" ELSE "collect",
                   uid |-> currentUser[d], cafe |-> m.cafe]
    BY <1>5 DEF Asking
<1>7. currentUser[d] # NoUser
    BY ConstantsAssumption
<1> PICK r : r = Asking(m)
    OBVIOUS
<1>8. /\ asked' = [asked EXCEPT ![d] = Append(asked[d], r)]
      /\ r = [op |-> IF Store!Wanted(d, m.cafe) THEN "uncollect" ELSE "collect",
              uid |-> currentUser[d], cafe |-> m.cafe]
    BY <1>3, <1>6
<1> QED
    BY <1>4, <1>7, <1>8 DEF Store!Ask, asked, favs, done, Own

LEMMA CheckRefines ==
    ASSUME TypeOK, TypeOK', UpdatesInv, NEW d \in Devices, Step(d), CheckReply(d), ButtonInv(d)
    PROVE  Store!StoreNext \/ UNCHANGED Store!storeVars
<1> PICK e : e = Head(mainQueue[d])
    OBVIOUS
<1> PICK now : now = currentUser[d]
    OBVIOUS
<1> DEFINE c == e.read.cafe
           m == [op |-> "remove", cafe |-> c, uid |-> now, users |-> NoCopies]
<1>1. /\ mainQueue[d] # <<>> /\ e.type = "reply" /\ e.read.kind = "check"
      /\ UNCHANGED <<server, results, currentUser>>
    BY DEF CheckReply, authVars
<1>2. /\ c \in Cafes /\ fsUser[d] = now /\ switches[d] # 0 /\ now \in Users /\ now # NoUser
      /\ StillTrue(d, c, e)
    BY <1>1, HeadOfTap
<1>3. CASE e.ans = "in"
    <2>1. Enqueue(d, m)
        BY <1>2, <1>3 DEF CheckReply
    <2>2. m \in Mutation /\ m.op = "remove" /\ m.cafe = c /\ m.uid = now
        BY <1>2 DEF Mutation, Copies, NoCopies
    <2>3. Listed(d, c) = 1
        BY <1>1, <1>2, <1>3, ListedIs DEF StillTrue, ButtonInv
    <2> HIDE DEF m, c
    <2>4. ListedInv(d) /\ (Listed(d, m.cafe) = 1 <=> m.op = "remove")
        BY <2>2, <2>3 DEF ButtonInv
    <2>5. Store!Ask(d, m.cafe)
        BY <1>1, <1>2, <2>1, <2>2, <2>4, AskRefines
    <2> QED
        BY <1>2, <2>2, <2>5 DEF Store!StoreNext
<1>4. CASE e.ans # "in"
    <2>1. pending' = pending
        BY <1>2, <1>4 DEF CheckReply
    <2> QED
        BY <1>1, <2>1 DEF Store!storeVars, Favorite
<1> QED
    BY <1>3, <1>4

LEMMA AddRefines ==
    ASSUME TypeOK, TypeOK', UpdatesInv, NEW d \in Devices, Step(d), AddReply(d), ButtonInv(d)
    PROVE  Store!StoreNext
<1> PICK e : e = Head(mainQueue[d])
    OBVIOUS
<1> DEFINE c == e.read.cafe
           m == AddWrite(e)
<1>1. /\ mainQueue[d] # <<>> /\ e.type = "reply" /\ e.read.kind = "add"
      /\ Enqueue(d, m)
      /\ UNCHANGED <<server, results, currentUser>>
    BY DEF AddReply, authVars
<1>2. /\ e \in Reply /\ c \in Cafes
      /\ fsUser[d] = currentUser[d] /\ switches[d] # 0 /\ currentUser[d] \in Users
      /\ OfTap(d, c, e.read)
    BY <1>1, HeadOfTap
<1>3. Listed(d, c) = 0 /\ e.read.uid = currentUser[d]
    BY <1>1, <1>2 DEF OfTap
<1>4. m \in Mutation /\ m.cafe = c /\ m.uid = currentUser[d] /\ m.op # "remove"
    <2>1. m \in Mutation
        BY <1>2, AddWriteType
    <2> QED
        BY <1>3, <2>1 DEF AddWrite
<1> HIDE DEF m, c
<1>5. ListedInv(d) /\ (Listed(d, m.cafe) = 1 <=> m.op = "remove")
    BY <1>3, <1>4 DEF ButtonInv
<1>6. Store!Ask(d, m.cafe)
    BY <1>1, <1>2, <1>4, <1>5, AskRefines
<1> QED
    BY <1>2, <1>4, <1>6 DEF Store!StoreNext

(* What the server makes of a write, in terms of favourites.               *)
LEMMA CommitCopies ==
    ASSUME TypeOK, UpdatesInv, NEW d \in Devices, ListedInv(d), LonelyInv(d), Apart, Commit(d)
    PROVE  LET m == Own(d)[Len(results[d]) + 1] IN
           /\ m \in WritesOf(currentUser[d])
           /\ \A u \in Users, c \in Cafes :
                  CopiesIn(server'[c], u) = IF u = m.uid /\ c = m.cafe THEN Effect(m)
                                            ELSE CopiesIn(server[c], u)
<1> DEFINE k == Len(results[d]) + 1
           m == Own(d)[k]
<1>1. /\ k \in DOMAIN Own(d) /\ m \in Mutation /\ m.cafe \in Cafes /\ switches[d] # 0
      /\ Accepts(server[m.cafe], m)
      /\ server' = [server EXCEPT ![m.cafe] = ServerApply(@, m)]
    BY CommitTaken
<1>2. m \in WritesOf(currentUser[d])
    BY <1>1 DEF ListedInv, StoredInv, WritesInv
<1>3. currentUser[d] \in Users /\ m.uid = currentUser[d]
    BY <1>1, <1>2, FollowedAre DEF WritesOf, ListedInv
<1>4. CASE m.op = "set"
    <2>1. ASSUME NEW e \in Devices, e # d PROVE FALSE
        <3>1. Own(d) \in Seq(Updates)
            BY <2>1 DEF Apart, StoreInv, NobodySets, Own, TypeOK
        <3>2. m \in Updates
            BY <1>1, <3>1
        <3> QED
            BY <1>4, <3>2 DEF Updates
    <2>2. \A u \in Users \ {currentUser[d]}, c \in Cafes : CopiesIn(server[c], u) = 0
        BY <2>1 DEF LonelyInv
    <2>3. m.users = OnlyCopy(currentUser[d])
        BY <1>2, <1>4 DEF WritesOf
    <2> HIDE DEF m
    <2>4. ASSUME NEW u \in Users, NEW c \in Cafes
          PROVE  CopiesIn(server'[c], u) = IF u = m.uid /\ c = m.cafe THEN Effect(m)
                                           ELSE CopiesIn(server[c], u)
        <3>1. CASE c = m.cafe
            <4>1. server'[c] = ServerApply(server[c], m) /\ Accepts(server[c], m)
                BY <1>1, <3>1 DEF TypeOK
            <4>2. server[c] \in Document \cup {NoDoc}
                BY DEF TypeOK
            <4>3. CopiesIn(ServerApply(server[c], m), u) = OnlyCopy(currentUser[d])[u]
                <5>1. CopiesIn(ServerApply(server[c], m), u) = CopiesIn(Apply(server[c], m), u)
                    BY <1>1, <1>4, <4>1, <4>2, CopiesApplied
                <5>2. CopiesIn(Apply(server[c], m), u) = m.users[u]
                    BY <1>1, <1>4, <4>1, <4>2, CopiesApplied
                <5> QED
                    BY <2>3, <5>1, <5>2
            <4>4. OnlyCopy(currentUser[d])[u] = IF u = currentUser[d] THEN 1 ELSE 0
                BY DEF OnlyCopy
            <4> QED
                BY <1>3, <1>4, <2>2, <3>1, <4>1, <4>3, <4>4 DEF Effect
        <3>2. CASE c # m.cafe
            BY <1>1, <3>2 DEF TypeOK
        <3> QED
            BY <3>1, <3>2
    <2> QED
        BY <1>2, <2>4 DEF m
<1>5. CASE m.op # "set"
    <2> HIDE DEF m
    <2>1. ASSUME NEW u \in Users, NEW c \in Cafes
          PROVE  CopiesIn(server'[c], u) = IF u = m.uid /\ c = m.cafe THEN Effect(m)
                                           ELSE CopiesIn(server[c], u)
        <3>1. CASE c = m.cafe
            <4>1. server'[c] = ServerApply(server[c], m) /\ Accepts(server[c], m)
                BY <1>1, <3>1 DEF TypeOK
            <4>2. server[c] \in Document \cup {NoDoc}
                BY DEF TypeOK
            <4>3. CASE u = m.uid
                <5>1. CopiesIn(server[c], u) <= 1
                    BY Parts DEF NoDuplicates, CopiesIn
                <5>2. m \in WritesOf(u)
                    BY <1>2, <1>3, <4>3 DEF m
                <5>3. CopiesIn(ServerApply(server[c], m), u) = Effect(m)
                    BY <4>1, <4>2, <5>1, <5>2, OwnEffect
                <5> QED
                    BY <3>1, <4>1, <4>3, <5>3
            <4>4. CASE u # m.uid
                <5>1. CopiesIn(Apply(server[c], m), u) = CopiesIn(server[c], u)
                    BY <1>1, <1>5, <4>1, <4>2, <4>4, CopiesApplied
                <5>2. CopiesIn(ServerApply(server[c], m), u) = CopiesIn(Apply(server[c], m), u)
                    BY <1>1, <4>1, <4>2, <4>4, CopiesApplied
                <5> QED
                    BY <4>1, <4>4, <5>1, <5>2
            <4> QED
                BY <4>3, <4>4
        <3>2. CASE c # m.cafe
            BY <1>1, <3>2 DEF TypeOK
        <3> QED
            BY <3>1, <3>2
    <2> QED
        BY <1>2, <2>1 DEF m
<1> QED
    BY <1>4, <1>5

LEMMA CommitRefines ==
    ASSUME TypeOK, TypeOK', UpdatesInv, NEW d \in Devices, Step(d), ListedInv(d), LonelyInv(d),
           Apart, Commit(d)
    PROVE  Store!Perform(d)
<1> PICK m : m = Own(d)[Len(results[d]) + 1]
    OBVIOUS
<1> PICK r : r = Asking(m)
    OBVIOUS
<1>1. /\ Len(results[d]) + 1 \in DOMAIN Own(d) /\ m \in Mutation /\ m.cafe \in Cafes
      /\ results' = [results EXCEPT ![d] = Append(@, "taken")]
      /\ UNCHANGED <<pending, currentUser>>
    BY CommitTaken
<1>2. /\ m.uid \in Users
      /\ \A u \in Users, c \in Cafes :
             CopiesIn(server'[c], u) = IF u = m.uid /\ c = m.cafe THEN Effect(m)
                                       ELSE CopiesIn(server[c], u)
    BY <1>1, CommitCopies DEF Mutation
<1>3. /\ Own(d) \in Seq(Mutation) /\ Len(Own(d)) \in Nat
      /\ results[d] \in Seq(Result) /\ Len(results[d]) \in Nat
    BY OwnType
<1>4. done[d] = Len(results[d]) /\ asked[d] = Asked(Own(d))
    BY DEF done, asked
<1>5. Len(asked[d]) = Len(Own(d)) /\ asked[d][done[d] + 1] = r
    BY <1>1, <1>3, <1>4, AskedLemma
<1>6. done[d] < Len(asked[d])
    <2>1. Len(results[d]) + 1 \in 1 .. Len(Own(d))
        BY <1>1, <1>3
    <2> QED
        BY <1>3, <1>4, <1>5, <2>1
<1>7. done' = [done EXCEPT ![d] = done[d] + 1]
    <2>1. Len(results'[d]) = Len(results[d]) + 1
        <3>1. results'[d] = Append(results[d], "taken")
            BY <1>1 DEF TypeOK
        <3> QED
            BY <1>3, <3>1
    <2> QED
        BY <1>4, <2>1, OneDevice
<1>8. asked' = asked
    BY <1>1 DEF asked, Own
<1> DEFINE change == IF r.op = "collect" THEN favs[r.uid] \cup {r.cafe} ELSE favs[r.uid] \ {r.cafe}
<1>9. r.uid = m.uid /\ r.cafe = m.cafe /\ (r.op = "collect" <=> Effect(m) > 0)
    BY DEF Asking, Effect
<1>10. ASSUME NEW u \in Users
       PROVE  Favorite(u)' = IF u = m.uid THEN change ELSE Favorite(u)
    <2>1. /\ \A c \in Cafes : c \in Favorite(u) <=> CopiesIn(server[c], u) > 0
          /\ \A c \in Cafes : c \in Favorite(u)' <=> CopiesIn(server'[c], u) > 0
          /\ Favorite(u) \subseteq Cafes /\ Favorite(u)' \subseteq Cafes
        BY DEF Favorite, CopiesIn
    <2>2. u = m.uid => favs[r.uid] = Favorite(u)
        BY <1>9 DEF favs
    <2>3. \A c \in Cafes : c \in Favorite(u)' <=> IF u = m.uid /\ c = m.cafe THEN Effect(m) > 0
                                                  ELSE c \in Favorite(u)
        BY <1>2, <2>1
    <2> QED
        BY <1>1, <1>9, <2>1, <2>2, <2>3
<1> HIDE DEF change
<1>11. favs' = [favs EXCEPT ![r.uid] = change]
    BY <1>2, <1>9, <1>10 DEF favs
<1>12. favs' = [favs EXCEPT ![r.uid] = IF r.op = "collect" THEN @ \cup {r.cafe} ELSE @ \ {r.cafe}]
    BY <1>11 DEF change
<1>13. /\ done[d] < Len(asked[d])
       /\ favs' = [favs EXCEPT ![asked[d][done[d] + 1].uid] =
                       IF asked[d][done[d] + 1].op = "collect" THEN @ \cup {asked[d][done[d] + 1].cafe}
                                                  ELSE @ \ {asked[d][done[d] + 1].cafe}]
       /\ done' = [done EXCEPT ![d] = @ + 1]
       /\ UNCHANGED <<currentUser, asked>>
    BY <1>1, <1>5, <1>6, <1>7, <1>8, <1>12
<1> QED
    BY <1>13 DEF Store!Perform, asked, favs, done, Own

LEMMA AcknowledgeRefines ==
    ASSUME TypeOK, TypeOK', UpdatesInv, NEW d \in Devices, Step(d), ListedInv(d), Acknowledge(d)
    PROVE  Store!Confirm(d)
<1>1. /\ Own(d) \in Seq(Mutation) /\ Own(d) # <<>>
      /\ results[d] # <<>> /\ results[d] \in Seq(Result)
      /\ Own(d)' = Tail(Own(d))
      /\ results' = [results EXCEPT ![d] = Tail(@)]
      /\ UNCHANGED <<server, currentUser>>
    BY AcknowledgeTaken
<1>2. asked' = [asked EXCEPT ![d] = Tail(asked[d])]
    <2>1. Asked(Own(d)') = Tail(asked[d])
        BY <1>1, AskedLemma DEF asked
    <2> QED
        BY <2>1, OneDevice
<1>3. done[d] > 0 /\ done' = [done EXCEPT ![d] = done[d] - 1]
    <2>1. results'[d] = Tail(results[d])
        BY <1>1 DEF TypeOK
    <2>2. Len(results[d]) > 0 /\ Len(Tail(results[d])) = Len(results[d]) - 1
        BY <1>1
    <2>3. done[d] = Len(results[d])
        BY DEF done
    <2> QED
        BY <2>1, <2>2, <2>3, OneDevice
<1>4. favs' = favs
    BY <1>1 DEF favs, Favorite
<1>5. /\ done[d] > 0
      /\ asked' = [asked EXCEPT ![d] = Tail(@)]
      /\ done' = [done EXCEPT ![d] = @ - 1]
      /\ UNCHANGED <<favs, currentUser>>
    BY <1>1, <1>2, <1>3, <1>4
<1> QED
    BY <1>5 DEF Store!Confirm, asked, favs, done, Own

(* The stream of writes may end; nothing else the store keeps changes.     *)
LEMMA SameRefines ==
    ASSUME TypeOK, TypeOK', NEW d \in Devices, Step(d),
           UNCHANGED <<server, pending, currentUser>>,
           Len(results'[d]) = Len(results[d]) \/ results'[d] = <<>>
    PROVE  Store!StoreNext \/ UNCHANGED Store!storeVars
<1>1. favs' = favs /\ asked' = asked
    BY DEF favs, Favorite, asked, Own
<1>2. done' = [done EXCEPT ![d] = Len(results'[d])]
    BY OneDevice
<1>3. CASE Len(results'[d]) = Len(results[d])
    <2>1. done' = done
        BY <1>2, <1>3 DEF done
    <2> QED
        BY <1>1, <2>1 DEF Store!storeVars, asked, favs, done, Own
<1>4. CASE results'[d] = <<>>
    <2>1. done' = [done EXCEPT ![d] = 0] /\ UNCHANGED <<favs, currentUser, asked>>
        BY <1>1, <1>2, <1>4
    <2>2. Store!Resend(d)
        BY <2>1 DEF Store!Resend, asked, favs, done, Own
    <2> QED
        BY <2>2 DEF Store!StoreNext
<1> QED
    BY <1>3, <1>4

LEMMA SignInRefines ==
    ASSUME TypeOK, TypeOK', UpdatesInv, MaxSwitches <= 1, NEW d \in Devices, Step(d),
           NEW u \in Users, SignIn(d, u)
    PROVE  Store!StoreNext
<1>1. switches[d] = 0
    BY Parts, SignInUser
<1>2. /\ UNCHANGED <<server, pending, results>>
      /\ currentUser' = [currentUser EXCEPT ![d] = u] /\ currentUser'[d] = u
    BY DEF SignIn, storeVars, TypeOK
<1>3. Own(d) = <<>> /\ Own(d)' = <<>>
    <2>1. \A o \in Owners : pending[d][o] = <<>>
        BY <1>1, Parts DEF UserInv
    <2> QED
        BY <1>2, <2>1 DEF Own, Owners, TypeOK
<1>4. Asked(<<>>) = <<>>
    BY DEF Asked
<1>5. asked[d] = <<>> /\ asked' = [asked EXCEPT ![d] = asked[d]]
    BY <1>3, <1>4, OneDevice DEF asked
<1>6. asked' = asked
    BY <1>5 DEF asked
<1>7. favs' = favs /\ done' = done
    BY <1>2 DEF favs, Favorite, done
<1>8. Store!Enter(d, u)
    BY <1>2, <1>5, <1>6, <1>7 DEF Store!Enter, asked, favs, done, Own
<1> QED
    BY <1>8 DEF Store!StoreNext

LEMMA StepRefines ==
    ASSUME TypeOK, TypeOK', UpdatesInv, MaxSwitches <= 1, NEW d \in Devices, Step(d), RefiningInv
    PROVE  Store!StoreNext \/ UNCHANGED Store!storeVars
<1>1. ButtonInv(d) /\ ListedInv(d) /\ LonelyInv(d) /\ Apart
    BY DEF RefiningInv, ButtonsInv, ButtonInv
<1>2. CASE UserStep(d)
    <2>1. ASSUME NEW c \in Cafes, NEW base, DidClickCollectButton(d, c, base)
          PROVE  UNCHANGED <<server, pending, currentUser, results>>
        BY <2>1 DEF DidClickCollectButton, storeVars, authVars
    <2>2. CASE GetCafes(d) \/ \E c \in Cafes : TapInHome(d, c) \/ TapInMyCollected(d, c)
        <3>1. UNCHANGED <<server, pending, currentUser, results>>
            BY <2>1, <2>2 DEF GetCafes, TapInHome, TapInMyCollected, storeVars, authVars
        <3> QED
            BY <3>1, SameRefines
    <2>3. ASSUME NEW u \in Users, SignIn(d, u)
          PROVE  Store!StoreNext
        BY <2>3, SignInRefines
    <2> QED
        BY <1>2, <2>2, <2>3, NoSignOut DEF UserStep
<1>3. CASE MainQueueStep(d)
    <2>1. CASE AuthStateDidChange(d)
        <3>1. UNCHANGED <<server, pending, currentUser>> /\ results'[d] = <<>>
            BY <2>1 DEF AuthStateDidChange, EndStream, TypeOK
        <3> QED
            BY <3>1, SameRefines
    <2> QED
        BY <1>1, <1>3, <2>1, CheckRefines, AddRefines DEF MainQueueStep
<1>4. CASE FirestoreStep(d)
    <2>1. ASSUME NEW C, Notice(d, C) PROVE Len(results'[d]) = Len(results[d])
        BY <2>1 DEF Notice, TypeOK
    <2>2. CASE GetCafesReply(d) \/ \E c \in Cafes : AnswerReads(d, c) \/ CafeCellRead(d, c)
        <3>1. UNCHANGED <<server, pending, currentUser>>
            BY <2>2 DEF GetCafesReply, AnswerReads, CafeCellRead, authVars
        <3>2. \E C : Notice(d, C)
            BY <2>2 DEF GetCafesReply, AnswerReads, CafeCellRead
        <3> QED
            BY <2>1, <3>1, <3>2, SameRefines
    <2>3. CASE Commit(d) \/ Acknowledge(d)
        BY <1>1, <2>3, CommitRefines, AcknowledgeRefines DEF Store!StoreNext
    <2> QED
        BY <1>4, <2>2, <2>3 DEF FirestoreStep
<1>5. CASE EnvironmentStep(d)
    <2>1. /\ UNCHANGED <<server, pending, currentUser>>
          /\ results'[d] = results[d] \/ results'[d] = <<>>
        BY <1>5 DEF EnvironmentStep, Disconnect, Reconnect, Relaunch, EndStream, storeVars,
                    authVars, TypeOK
    <2> QED
        BY <2>1, SameRefines
<1> QED
    BY <1>2, <1>3, <1>4, <1>5 DEF Step

(* Nobody else's favourites come to the store of a device that is alone.   *)
LEMMA LonelyStep ==
    ASSUME TypeOK, UpdatesInv, MaxSwitches <= 1, NEW d \in Devices, Step(d), RefiningInv
    PROVE  \A e \in Devices : LonelyInv(e)'
<1> SUFFICES ASSUME \A x \in Devices : x = d,
                    NEW u \in Users \ {currentUser'[d]}, NEW c \in Cafes
             PROVE  CopiesIn(server'[c], u) = 0
    BY DEF LonelyInv
<1>1. /\ ListedInv(d) /\ Apart
      /\ \A v \in Users \ {currentUser[d]} : CopiesIn(server[c], v) = 0
    BY DEF RefiningInv, ButtonsInv, ButtonInv, LonelyInv
<1>2. CASE Commit(d)
    <2> PICK m : m = Own(d)[Len(results[d]) + 1]
        OBVIOUS
    <2>1. /\ m \in WritesOf(currentUser[d])
          /\ \A v \in Users, b \in Cafes :
                 CopiesIn(server'[b], v) = IF v = m.uid /\ b = m.cafe THEN Effect(m)
                                           ELSE CopiesIn(server[b], v)
        <3>1. LonelyInv(d)
            BY DEF RefiningInv
        <3> QED
            BY <1>1, <1>2, <3>1, CommitCopies
    <2>2. currentUser' = currentUser
        BY <1>2 DEF Commit, authVars
    <2>3. u # m.uid /\ u \in Users \ {currentUser[d]}
        BY <2>1, <2>2 DEF WritesOf
    <2> QED
        BY <1>1, <2>1, <2>3
<1>3. ASSUME NEW v \in Users, SignIn(d, v) PROVE CopiesIn(server'[c], u) = 0
    <2>1. switches[d] = 0
        BY <1>3, Parts, SignInUser
    <2>2. currentUser[d] = NoUser /\ server' = server
        BY <1>3, <2>1, Parts DEF UserInv, SignIn, storeVars
    <2> QED
        BY <1>1, <2>2, ConstantsAssumption
<1>4. CASE UNCHANGED <<server, currentUser>>
    BY <1>1, <1>4
<1>5. ASSUME NEW b \in Cafes, NEW base, DidClickCollectButton(d, b, base)
      PROVE  UNCHANGED <<server, currentUser>>
    BY <1>5 DEF DidClickCollectButton, storeVars, authVars
<1>6. UserStep(d) => UNCHANGED <<server, currentUser>> \/ \E v \in Users : SignIn(d, v)
    BY <1>5, NoSignOut DEF UserStep, TapInHome, TapInMyCollected, GetCafes, storeVars, authVars
<1>7. MainQueueStep(d) \/ EnvironmentStep(d) => UNCHANGED <<server, currentUser>>
    BY DEF MainQueueStep, CheckReply, AddReply, AuthStateDidChange, EnvironmentStep, Disconnect,
           Reconnect, Relaunch, storeVars, authVars
<1>8. FirestoreStep(d) => UNCHANGED <<server, currentUser>> \/ Commit(d)
    BY DEF FirestoreStep, AnswerReads, CafeCellRead, GetCafesReply, Acknowledge, authVars
<1> QED
    BY <1>2, <1>3, <1>4, <1>6, <1>7, <1>8 DEF Step

LEMMA InitRefines ==
    ASSUME DevicesApart, Init
    PROVE  RefiningInv /\ Store!StoreInit
<1>1. ASSUME NEW c \in Cafes, NEW u \in Users PROVE CopiesIn(server[c], u) = 0
    BY DEF Init, CopiesIn, NoCopies
<1>2. \A u \in Users : Favorite(u) = {}
    BY <1>1 DEF Favorite, CopiesIn
<1>3. /\ favs = [u \in Users |-> {}]
      /\ asked = [d \in Devices |-> <<>>]
      /\ done = [d \in Devices |-> 0]
      /\ currentUser = [d \in Devices |-> NoUser]
    <2>1. \A d \in Devices : Own(d) = <<>> /\ results[d] = <<>>
        BY DEF Init, Own, Owners
    <2>2. Asked(<<>>) = <<>> /\ Len(<<>>) = 0
        BY DEF Asked
    <2>3. currentUser = [d \in Devices |-> NoUser]
        BY DEF Init
    <2> QED
        BY <1>2, <2>1, <2>2, <2>3 DEF favs, asked, done
<1>4. Store!StoreInit
    BY <1>3 DEF Store!StoreInit, favs, asked, done, Own
<1> QED
    BY <1>1, <1>4, InitButtons DEF RefiningInv, LonelyInv

LEMMA NextRefines ==
    ASSUME MaxSwitches <= 1, MaxUnanswered <= 1, DevicesApart,
           TypeOK, TypeOK', UpdatesInv, DocumentsParse, RefiningInv, [Next]_vars
    PROVE  RefiningInv' /\ [Store!StoreNext]_(Store!storeVars)
<1>1. ButtonsInv'
    BY ButtonsStep DEF RefiningInv
<1>2. ASSUME NEW d \in Devices, Step(d)
      PROVE  /\ \A e \in Devices : LonelyInv(e)'
             /\ Store!StoreNext \/ UNCHANGED Store!storeVars
    BY <1>2, LonelyStep, StepRefines
<1>3. CASE UNCHANGED vars
    <2>1. \A e \in Devices : LonelyInv(e)'
        BY <1>3 DEF vars, RefiningInv, LonelyInv
    <2>2. UNCHANGED Store!storeVars
        BY <1>3 DEF vars, Store!storeVars, Favorite
    <2> QED
        BY <1>1, <2>1, <2>2 DEF RefiningInv
<1>4. CASE Next
    <2>1. PICK d \in Devices : Step(d)
        BY <1>4 DEF Next, Step
    <2> QED
        BY <1>1, <1>2, <2>1 DEF RefiningInv
<1> QED
    BY <1>3, <1>4

(* On devices with one user each, whose taps wait for one another, the     *)
(* favourites are kept as FavoriteStore promises: each answered tap asks   *)
(* for the opposite of what its user last wanted, and the writes, sent     *)
(* again after every end of a stream of writes, are performed in order,    *)
(* each changing one user's favourite of one cafe.  A lone device may lose *)
(* its connection and create documents by setData; several share the       *)
(* documents of all cafes, stay connected and have no account in common,   *)
(* for a setData of one would wipe out what the others wrote.              *)
THEOREM FavoritesRefineStore ==
    ASSUME MaxSwitches <= 1, MaxUnanswered <= 1,
           \A d, e \in Devices :
               d = e \/ (Preexisting = Cafes /\ Flaky = {} /\ Accounts[d] \cap Accounts[e] = {})
    PROVE  Spec => RefinesStore
<1>1. DevicesApart
    BY DEF DevicesApart
<1>2. Init => RefiningInv /\ Store!StoreInit
    BY <1>1, InitRefines
<1>3. TypeOK /\ TypeOK' /\ UpdatesInv /\ DocumentsParse /\ RefiningInv /\ [Next]_vars =>
          RefiningInv' /\ [Store!StoreNext]_(Store!storeVars)
    BY <1>1, NextRefines
<1> QED
    BY <1>2, <1>3, TypeCorrect, UpdatesInvHolds, DocumentsAlwaysParse, PTL
       DEF Spec, RefinesStore, Store!StoreSpec
=============================================================================
