------------------------- MODULE MCFavorites_proofs -------------------------
(***************************************************************************)
(* What TLAPS proves of the properties MCFavorites adds to Favorites, for  *)
(* any devices, accounts and cafes: isLogin of d1, which is any one of the *)
(* devices, follows its user as AuthState says, with everything else that  *)
(* goes through the same main queue.                                       *)
(***************************************************************************)
EXTENDS MCFavorites, Favorites_proofs

-----------------------------------------------------------------------------
(***************************************************************************)
(* How many changes of the user a queue announces, when something is       *)
(* posted to it and when its head is taken.                                *)
(***************************************************************************)
Announcing(q) == {i \in DOMAIN q : q[i].type = "auth"}
Announced(q) == Cardinality(Announcing(q))

LEMMA AnnouncedType ==
    ASSUME NEW q \in Seq(Messages)
    PROVE  IsFiniteSet(Announcing(q)) /\ Announced(q) \in Nat
<1>1. IsFiniteSet(1 .. Len(q)) /\ Announcing(q) \subseteq 1 .. Len(q)
    BY FS_Interval DEF Announcing
<1> QED
    BY <1>1, FS_Subset, FS_CardinalityType DEF Announced

LEMMA AnnouncedByReplies ==
    ASSUME NEW q \in Seq(Messages), NEW r \in Seq(Reply)
    PROVE  Announced(q \o r) = Announced(q)
<1>1. \A i \in 1 .. Len(r) : r[i] \in Reply
    OBVIOUS
<1>2. \A i \in 1 .. Len(r) : r[i].type # "auth"
    BY <1>1 DEF Reply
<1> DEFINE all == q \o r
<1>3. /\ Len(q) \in Nat /\ Len(r) \in Nat
      /\ DOMAIN all = 1 .. Len(q) + Len(r) /\ DOMAIN q = 1 .. Len(q)
      /\ \A i \in DOMAIN all : all[i] = IF i <= Len(q) THEN q[i] ELSE r[i - Len(q)]
    OBVIOUS
<1> HIDE DEF all
<1>4. \A i \in DOMAIN all : i \notin DOMAIN q => all[i].type # "auth"
    BY <1>2, <1>3
<1>5. \A i \in DOMAIN q : i \in DOMAIN all /\ all[i] = q[i]
    BY <1>3
<1>6. Announcing(all) = Announcing(q)
    BY <1>4, <1>5 DEF Announcing
<1> QED
    BY <1>6 DEF Announced, all

LEMMA AnnouncedByNote ==
    ASSUME NEW q \in Seq(Messages), NEW e \in AuthNote
    PROVE  Announced(Append(q, e)) = Announced(q) + 1
<1>1. e.type = "auth"
    BY DEF AuthNote
<1>2. Announcing(Append(q, e)) = Announcing(q) \cup {Len(q) + 1}
    BY <1>1 DEF Announcing
<1>3. Len(q) + 1 \notin Announcing(q)
    BY DEF Announcing
<1> QED
    BY <1>2, <1>3, AnnouncedType, FS_AddElement DEF Announced

LEMMA AnnouncedByTail ==
    ASSUME NEW q \in Seq(Messages), q # <<>>
    PROVE  Announced(Tail(q)) = Announced(q) - (IF Head(q).type = "auth" THEN 1 ELSE 0)
<1> DEFINE later == {i \in Announcing(q) : i # 1}
           shift == [i \in Announcing(Tail(q)) |-> i + 1]
<1>0. Tail(q) \in Seq(Messages) /\ Len(Tail(q)) = Len(q) - 1 /\ Len(q) \in Nat \ {0}
    OBVIOUS
<1>5. \A i \in 1 .. Len(q) - 1 : Tail(q)[i] = q[i + 1]
    BY <1>0
<1>1. shift \in Bijection(Announcing(Tail(q)), later)
    <2>1. shift \in [Announcing(Tail(q)) -> later]
        BY <1>0, <1>5 DEF Announcing
    <2>2. \A i, j \in Announcing(Tail(q)) : i # j => shift[i] # shift[j]
        BY <1>0 DEF Announcing
    <2>3. ASSUME NEW k \in later PROVE \E i \in Announcing(Tail(q)) : shift[i] = k
        <3>1. k - 1 \in 1 .. Len(q) - 1 /\ q[(k - 1) + 1].type = "auth"
            BY <1>0 DEF Announcing
        <3>2. k - 1 \in Announcing(Tail(q))
            BY <1>0, <1>5, <3>1 DEF Announcing
        <3> QED
            BY <3>2, <1>0 DEF Announcing
    <2> QED
        BY <2>1, <2>2, <2>3 DEF Bijection, Injection, Surjection, IsInjective
<1>2. Announced(Tail(q)) = Cardinality(later)
    BY <1>0, <1>1, AnnouncedType, FS_Bijection DEF ExistsBijection, Announced
<1>3. CASE Head(q).type = "auth"
    <2>1. 1 \in Announcing(q) /\ later = Announcing(q) \ {1}
        BY <1>0, <1>3 DEF Announcing
    <2> QED
        BY <1>2, <1>3, <2>1, AnnouncedType, FS_RemoveElement DEF Announced
<1>4. CASE Head(q).type # "auth"
    <2>1. later = Announcing(q)
        BY <1>0, <1>4 DEF Announcing
    <2> HIDE DEF later, shift
    <2> QED
        BY <1>2, <1>4, <2>1, AnnouncedType DEF Announced
<1> QED
    BY <1>3, <1>4

-----------------------------------------------------------------------------
(***************************************************************************)
(* The refinement.                                                         *)
(***************************************************************************)
notes == Announced(mainQueue[d1])

LEMMA InitFollows == Init => Auth!AuthInit
<1> SUFFICES ASSUME Init PROVE Auth!AuthInit
    OBVIOUS
<1>1. mainQueue[d1] = <<>> /\ currentUser[d1] = NoUser /\ isLogin[d1] = FALSE
    BY DeviceAssumption DEF Init
<1>2. notes = 0
    BY <1>1, FS_EmptySet DEF Announced, Announcing, notes
<1> QED
    BY <1>1, <1>2 DEF Auth!AuthInit, notes, Announced, Announcing

(* What a step of AuthState is, in the terms of the device.                *)
LEMMA Steps ==
    /\ Auth!Change <=> /\ currentUser'[d1] \in Owners
                       /\ notes' = notes + 1
                       /\ isLogin'[d1] = isLogin[d1]
    /\ Auth!TakeUp <=> /\ notes > 0
                       /\ notes' = notes - 1
                       /\ isLogin'[d1] = (currentUser[d1] # NoUser)
                       /\ currentUser'[d1] = currentUser[d1]
    /\ Auth!Restart <=> /\ isLogin'[d1] = FALSE
                        /\ notes' = 1
                        /\ currentUser'[d1] = currentUser[d1]
    /\ UNCHANGED Auth!authVars <=> /\ currentUser'[d1] = currentUser[d1]
                                   /\ isLogin'[d1] = isLogin[d1]
                                   /\ notes' = notes
    BY DEF Auth!Change, Auth!TakeUp, Auth!Restart, Auth!authVars, notes, Announced, Announcing, Owners

(* Any step on another device leaves this one alone.                       *)
Untouched == UNCHANGED <<currentUser[d1], isLogin[d1], mainQueue[d1]>>

LEMMA UntouchedStutters == Untouched => UNCHANGED Auth!authVars
    BY Steps DEF Untouched, notes

LEMMA OthersDoNotTouch ==
    ASSUME TypeOK, NEW d \in Devices, d # d1,
           UserStep(d) \/ MainQueueStep(d) \/ FirestoreStep(d) \/ EnvironmentStep(d)
    PROVE  Untouched
<1> USE DeviceAssumption DEF TypeOK, Untouched, storeVars, authVars, listVars
<1>1. CASE UserStep(d)
    BY <1>1 DEF UserStep, TapInHome, TapInMyCollected, DidClickCollectButton, GetCafes, SignIn,
                SignOut, PostAuthNote
<1>2. CASE MainQueueStep(d)
    BY <1>2 DEF MainQueueStep, CheckReply, AddReply, AuthStateDidChange
<1>3. CASE FirestoreStep(d)
    BY <1>3 DEF FirestoreStep, AnswerReads, CafeCellRead, GetCafesReply, Commit,
                Acknowledge
<1>4. CASE EnvironmentStep(d)
    BY <1>4 DEF EnvironmentStep, Disconnect, Reconnect, Relaunch
<1> QED
    BY <1>1, <1>2, <1>3, <1>4

LEMMA QueueType ==
    TypeOK => mainQueue[d1] \in Seq(Messages) /\ notes \in Nat
    BY DeviceAssumption, AnnouncedType DEF TypeOK, Messages, notes

LEMMA UserFollows ==
    ASSUME TypeOK, UserStep(d1)
    PROVE  Auth!Change \/ UNCHANGED Auth!authVars
<1> USE DeviceAssumption DEF TypeOK
<1>1. ASSUME NEW u \in Owners, PostAuthNote(d1, u) PROVE notes' = notes + 1
    <2>1. [type |-> "auth", uid |-> u] \in AuthNote
        BY DEF AuthNote
    <2>2. mainQueue'[d1] = Append(mainQueue[d1], [type |-> "auth", uid |-> u])
        BY <1>1 DEF PostAuthNote
    <2> QED
        BY <2>1, <2>2, QueueType, AnnouncedByNote DEF notes
<1>2. ASSUME NEW u \in Users, SignIn(d1, u) PROVE Auth!Change
    <2>1. notes' = notes + 1 /\ currentUser'[d1] = u /\ isLogin' = isLogin
        BY <1>1, <1>2 DEF SignIn, Owners
    <2> QED
        BY <2>1, Steps DEF Owners
<1>3. CASE SignOut(d1)
    <2>1. notes' = notes + 1 /\ currentUser'[d1] = NoUser /\ isLogin' = isLogin
        BY <1>1, <1>3 DEF SignOut, Owners
    <2> QED
        BY <2>1, Steps DEF Owners
<1>4. ASSUME (\E c \in Cafes : TapInHome(d1, c) \/ TapInMyCollected(d1, c)) \/ GetCafes(d1)
      PROVE  Untouched
    BY <1>4 DEF TapInHome, TapInMyCollected, DidClickCollectButton, GetCafes, Untouched, authVars
<1> QED
    BY <1>2, <1>3, <1>4, UntouchedStutters DEF UserStep

LEMMA MainQueueFollows ==
    ASSUME TypeOK, MainQueueStep(d1)
    PROVE  Auth!TakeUp \/ UNCHANGED Auth!authVars
<1> USE DeviceAssumption DEF TypeOK
<1>1. mainQueue[d1] # <<>> /\ mainQueue'[d1] = Tail(mainQueue[d1])
    BY DEF MainQueueStep, CheckReply, AddReply, AuthStateDidChange
<1>2. notes' = notes - (IF Head(mainQueue[d1]).type = "auth" THEN 1 ELSE 0)
    BY <1>1, QueueType, AnnouncedByTail DEF notes
<1>3. CASE CheckReply(d1) \/ AddReply(d1)
    <2>1. Head(mainQueue[d1]).type # "auth"
        BY <1>3 DEF CheckReply, AddReply
    <2>2. notes \in Nat
        BY QueueType
    <2>3. notes' = notes
        BY <1>2, <2>1, <2>2
    <2>4. currentUser'[d1] = currentUser[d1] /\ isLogin'[d1] = isLogin[d1]
        BY <1>3 DEF CheckReply, AddReply, authVars
    <2> QED
        BY <2>3, <2>4, Steps
<1>4. CASE AuthStateDidChange(d1)
    <2>1. notes' = notes - 1
        BY <1>2, <1>4 DEF AuthStateDidChange
    <2>2. Tail(mainQueue[d1]) \in Seq(Messages)
        BY <1>1, QueueType
    <2>3. notes' \in Nat
        BY <1>1, <2>2, AnnouncedType DEF notes
    <2>4. notes > 0
        BY <2>1, <2>3, QueueType
    <2>5. currentUser' = currentUser /\ isLogin'[d1] = (currentUser[d1] # NoUser)
        BY <1>4 DEF AuthStateDidChange
    <2> QED
        BY <2>1, <2>4, <2>5, Steps
<1> QED
    BY <1>3, <1>4 DEF MainQueueStep

LEMMA FirestoreStutters ==
    ASSUME TypeOK, FirestoreStep(d1)
    PROVE  UNCHANGED Auth!authVars
<1> USE DeviceAssumption DEF TypeOK
<1>1. ASSUME NEW c \in Cafes, AnswerReads(d1, c) PROVE UNCHANGED Auth!authVars
    <2> DEFINE waiting == reads[d1][c]
               replies == [i \in 1 .. Len(waiting) |-> ReplyTo(waiting[i], Seen(d1, c))]
    <2>1. waiting \in Seq(Read)
        OBVIOUS
    <2>2. \A i \in 1 .. Len(waiting) : ReplyTo(waiting[i], Seen(d1, c)) \in Reply
        BY <2>1 DEF ReplyTo, AnswerTo, Reply, Answer
    <2> HIDE DEF waiting
    <2>3. replies \in Seq(Reply)
        BY <2>1, <2>2
    <2>4. mainQueue'[d1] = mainQueue[d1] \o replies
        BY <1>1 DEF AnswerReads, waiting
    <2> HIDE DEF replies
    <2>5. notes' = notes
        BY <2>3, <2>4, QueueType, AnnouncedByReplies DEF notes
    <2>6. currentUser' = currentUser /\ isLogin' = isLogin
        BY <1>1 DEF AnswerReads, authVars
    <2> QED
        BY <2>5, <2>6, Steps
<1>2. ASSUME \/ \E c \in Cafes : CafeCellRead(d1, c)
             \/ GetCafesReply(d1) \/ Commit(d1) \/ Acknowledge(d1)
      PROVE  Untouched
    BY <1>2 DEF CafeCellRead, GetCafesReply, Commit, Acknowledge, Untouched, authVars
<1> QED
    BY <1>1, <1>2, UntouchedStutters DEF FirestoreStep

LEMMA EnvironmentFollows ==
    ASSUME TypeOK, EnvironmentStep(d1)
    PROVE  Auth!Restart \/ UNCHANGED Auth!authVars
<1> USE DeviceAssumption DEF TypeOK
<1>1. CASE Disconnect(d1) \/ Reconnect(d1)
    <2>1. Untouched
        BY <1>1 DEF Disconnect, Reconnect, Untouched, authVars
    <2> QED
        BY <2>1, UntouchedStutters
<1>2. CASE Relaunch(d1)
    <2> DEFINE note == [type |-> "auth", uid |-> currentUser[d1]]
    <2>1. mainQueue'[d1] = <<note>>
        BY <1>2 DEF Relaunch
    <2>2. Announcing(<<note>>) = {1}
        BY DEF Announcing
    <2>3. notes' = 1
        BY <2>1, <2>2, FS_Singleton DEF notes, Announced
    <2>4. currentUser' = currentUser /\ isLogin'[d1] = FALSE
        BY <1>2 DEF Relaunch
    <2> QED
        BY <2>3, <2>4, Steps
<1> QED
    BY <1>1, <1>2 DEF EnvironmentStep

LEMMA NextFollows == TypeOK /\ [Next]_vars => [Auth!AuthNext]_(Auth!authVars)
<1> SUFFICES ASSUME TypeOK, [Next]_vars
             PROVE  Auth!AuthNext \/ UNCHANGED Auth!authVars
    OBVIOUS
<1>1. CASE UNCHANGED vars
    <2>1. Untouched
        BY <1>1 DEF vars, Untouched
    <2> QED
        BY <2>1, UntouchedStutters
<1>2. ASSUME NEW d \in Devices, d # d1,
             UserStep(d) \/ MainQueueStep(d) \/ FirestoreStep(d) \/ EnvironmentStep(d)
      PROVE  UNCHANGED Auth!authVars
    BY <1>2, OthersDoNotTouch, UntouchedStutters
<1> QED
    BY <1>1, <1>2, UserFollows, MainQueueFollows, FirestoreStutters, EnvironmentFollows
       DEF Next, Auth!AuthNext

(* On each device isLogin, by which a tap on a collect button is let       *)
(* through, follows the user as AuthState says.                            *)
THEOREM FavoritesRefinesAuthState == Spec => RefinesAuthState
    BY InitFollows, NextFollows, TypeCorrect, PTL DEF Spec, RefinesAuthState, Auth!AuthSpec
=============================================================================
