------------------------------ MODULE Favorites ------------------------------
(***************************************************************************)
(* Collecting a cafe: FavoriteManager, the two view controllers that call  *)
(* it from the collect button, and the Firestore client and server below.  *)
(*                                                                         *)
(* A device runs the app.  Everything the app does runs on its main queue; *)
(* Firestore answers a read on a worker queue and posts the answer to the  *)
(* main queue, and FirebaseAuth posts a change of the user there too, so   *)
(* `mainQueue' is the order in which the app learns of both.  A write is   *)
(* visible locally at once and waits in the mutation queue of the user     *)
(* Firestore works for until the server's response to it has come back.    *)
(* When the stream of writes ends before that, or the process dies, the    *)
(* write is sent again and the server performs it again.                   *)
(***************************************************************************)
EXTENDS Naturals, Sequences, FiniteSets

CONSTANTS
    Devices,        \* The installations of the app.
    Users,          \* The accounts (uids).
    Cafes,          \* The cafes; the document of a cafe is named after it.
    Accounts,       \* Accounts[d]: the accounts that may sign in on device d.
    Preexisting,    \* The cafes that already have a document on the server.
    Flaky,          \* The devices that may lose their connection.
    NoUser,         \* currentUser is nil.
    NoDoc,          \* There is no document, or none is known.
    MaxTaps,        \* Bound: taps on collect buttons.
    MaxUnanswered,  \* Bound: reads of one cafe a device waits for when it is tapped.
    MaxSwitches     \* Bound: sign-ins and sign-outs on each device.

ASSUME ConstantsAssumption ==
    /\ NoUser \notin Users
    /\ Accounts \in [Devices -> SUBSET Users]
    /\ Preexisting \subseteq Cafes
    /\ Flaky \subseteq Devices
    /\ MaxTaps \in Nat /\ MaxUnanswered \in Nat /\ MaxSwitches \in Nat

(***************************************************************************)
(* `users' of a document is an array of uids of which only the number of   *)
(* copies of each matters.  `whole' says that the document has every field *)
(* Cafe(dictionary:) asks for.                                             *)
(***************************************************************************)
Copies == [Users -> Nat]
NoCopies == [u \in Users |-> 0]
Document == [whole : BOOLEAN, users : Copies]

ASSUME NoDocAssumption == NoDoc \notin Document /\ NoDoc \notin Copies

Owners == Users \cup {NoUser}

Mutation == [op : {"set", "union", "remove"}, cafe : Cafes, uid : Users, users : Copies]

(* A getDocument of the app and what its callback captured: the uid of the *)
(* user who was signed in and the `users' of the cafe that was tapped.     *)
Read == [kind : {"check", "add"}, cafe : Cafes, uid : Users, base : Copies]

Answer == {"absent", "in", "out"}
Reply == [type : {"reply"}, read : Read, ans : Answer]
AuthNote == [type : {"auth"}, uid : Owners]

(* What the server made of a write: it took it, and since then the client  *)
(* was ("seen") or was not ("taken") sent the document with the write in   *)
(* it, or it rejected it.                                                  *)
Result == {"taken", "seen", "rejected"}

VARIABLES
    server,       \* server[c]: the document of c, or NoDoc.
    cache,        \* cache[d][c]: what device d last learned of it.
    pending,      \* pending[d][o]: the writes of o the server has not confirmed.
    results,      \* results[d]: the responses to the oldest writes of d's queue
                  \* that are on their way on the present stream of writes.
    online,       \* online[d]: Firestore reaches the server.
    currentUser,  \* Auth.auth().currentUser.
    fsUser,       \* The user whose mutation queue Firestore works on.
    isLogin,      \* loginManager.isLogin.
    reads,        \* reads[d][c]: the reads of c's document not answered yet.
    mainQueue,    \* The callbacks posted to the main queue of d.
    listing,      \* The uid a listing in progress was asked for, or NoUser.
    rows,         \* rows[d][c]: `users' of c in MyCollected's list, or NoDoc.
    button,       \* button[d][c]: what a tap's callback last made of isSelected.
    taps,         \* Taps so far.
    switches      \* switches[d]: sign-ins and sign-outs on d so far.

authVars  == <<currentUser, fsUser, isLogin, switches>>
storeVars == <<server, cache, pending, results>>
listVars  == <<listing, rows>>
vars == <<server, cache, pending, results, online, currentUser, fsUser, isLogin, reads,
          mainQueue, listing, rows, button, taps, switches>>

TypeOK ==
    /\ server \in [Cafes -> Document \cup {NoDoc}]
    /\ cache \in [Devices -> [Cafes -> Document \cup {NoDoc}]]
    /\ pending \in [Devices -> [Owners -> Seq(Mutation)]]
    /\ results \in [Devices -> Seq(Result)]
    /\ online \in [Devices -> BOOLEAN]
    /\ currentUser \in [Devices -> Owners]
    /\ fsUser \in [Devices -> Owners]
    /\ isLogin \in [Devices -> BOOLEAN]
    /\ reads \in [Devices -> [Cafes -> Seq(Read)]]
    /\ mainQueue \in [Devices -> Seq(Reply \cup AuthNote)]
    /\ listing \in [Devices -> Owners]
    /\ rows \in [Devices -> [Cafes -> Copies \cup {NoDoc}]]
    /\ button \in [Devices -> [Cafes -> {"unset", "on", "off"}]]
    /\ taps \in 0 .. MaxTaps
    /\ switches \in [Devices -> 0 .. MaxSwitches]
    /\ \A d \in Devices : Len(results[d]) <= Len(pending[d][fsUser[d]])

-----------------------------------------------------------------------------
(***************************************************************************)
(* Documents and mutations.                                                *)
(***************************************************************************)

(* Operators named X_Y are X with a fault Y put in: each run's properties   *)
(* are shown to notice one.                                                *)

(* Fault: updateData creates the document it does not find.                *)
Accepts_Upsert(doc, m) == TRUE

(* updateData carries the precondition that the document exists; setData   *)
(* carries none.                                                           *)
Accepts(doc, m) == m.op = "set" \/ doc # NoDoc

(* What the client makes of a document under a write.  arrayUnion adds the *)
(* uid unless it is there; arrayRemove takes one copy away.                *)
Apply(doc, m) ==
    LET old == IF doc = NoDoc THEN [whole |-> FALSE, users |-> NoCopies] ELSE doc
    IN  CASE m.op = "set"    -> [whole |-> TRUE, users |-> m.users]
          [] m.op = "union"  -> [old EXCEPT !.users[m.uid] = IF @ = 0 THEN 1 ELSE @]
          [] m.op = "remove" -> [old EXCEPT !.users[m.uid] = IF @ = 0 THEN 0 ELSE @ - 1]

(* What the server makes of it: its arrayRemove takes every copy away.     *)
ServerApply(doc, m) ==
    IF m.op = "remove" THEN [Apply(doc, m) EXCEPT !.users[m.uid] = 0] ELSE Apply(doc, m)

(* Fault: a union is replayed whatever remove comes after it.              *)
Replay_AnyUnion(n, I, q) ==
    IF \E i \in I : q[i].op = "union" THEN IF n = 0 THEN 1 ELSE n
    ELSE IF \E i \in I : q[i].op = "remove" THEN 0 ELSE n

(* The copies of a uid that are left when the unions and removes of it at  *)
(* the positions I of the queue q are applied to n copies.                 *)
Replay(n, I, q) ==
    LET removes == {i \in I : q[i].op = "remove"}
        unions  == {i \in I : q[i].op = "union"}
        kept    == IF Cardinality(removes) < n THEN n - Cardinality(removes) ELSE 0
        readded == \E i \in unions : \A j \in removes : j < i
    IN  IF readded /\ kept = 0 THEN 1 ELSE kept

(* The document of c as the client shows it: the document `base' under the *)
(* writes of the queue q, in closed form.  The last setData hides what is  *)
(* below it.                                                               *)
View(base, q, c) ==
    LET on    == {i \in DOMAIN q : q[i].cafe = c}
        sets  == {i \in on : q[i].op = "set"}
        last  == IF sets = {} THEN 0 ELSE CHOOSE i \in sets : \A j \in sets : j <= i
        start == IF sets = {} THEN base ELSE [whole |-> TRUE, users |-> q[last].users]
    IN  IF start = NoDoc THEN NoDoc
        ELSE [whole |-> start.whole,
              users |-> [u \in Users |->
                  Replay(start.users[u], {i \in on : i > last /\ q[i].uid = u}, q)]]

(* The document of c a read on device d is answered from: the server's if  *)
(* it can be reached, the cached one otherwise.                            *)
Known(d, c) == IF online[d] THEN server[c] ELSE cache[d][c]
Seen(d, c) == View(Known(d, c), pending[d][fsUser[d]], c)

(* The server sent d the documents of C: the writes it has taken on them   *)
(* are in what is cached now, and are not applied to it once more.         *)
Notice(d, C) ==
    results' = [results EXCEPT ![d] = [i \in 1 .. Len(@) |->
        IF @[i] = "taken" /\ pending[d][fsUser[d]][i].cafe \in C THEN "seen" ELSE @[i]]]

-----------------------------------------------------------------------------
(***************************************************************************)
(* The collect button.                                                     *)
(***************************************************************************)

(* The reads device d has under way for c, answered or not.                *)
Unanswered(d, c) ==
    Len(reads[d][c]) + Cardinality({i \in DOMAIN mainQueue[d] :
        mainQueue[d][i].type = "reply" /\ mainQueue[d][i].read.cafe = c})

(* A tap on the collect button of c.  Without a login it shows an alert    *)
(* and changes nothing here.  isCafeCollected captures the user of this    *)
(* moment; when there is none it answers false at once, addFavoriteCafe    *)
(* finds no user either, and the button is selected all the same.          *)
DidClickCollectButton(d, c, base) ==
    /\ taps < MaxTaps /\ Unanswered(d, c) < MaxUnanswered
    /\ isLogin[d]
    /\ taps' = taps + 1
    /\ IF currentUser[d] = NoUser
       THEN /\ button' = [button EXCEPT ![d][c] = "on"]
            /\ UNCHANGED reads
       ELSE /\ reads' = [reads EXCEPT ![d][c] = Append(@,
                  [kind |-> "check", cafe |-> c, uid |-> currentUser[d], base |-> base])]
            /\ UNCHANGED button
    /\ UNCHANGED <<storeVars, online, authVars, mainQueue, listVars>>

(* In the list of a city a cafe comes with no users.                       *)
TapInHome(d, c) == DidClickCollectButton(d, c, NoCopies)

(* In the list of MyCollected it comes with the users it was listed with.  *)
TapInMyCollected(d, c) ==
    /\ rows[d][c] # NoDoc
    /\ DidClickCollectButton(d, c, rows[d][c])

(* What a read is told of the document.  FavoriteManager treats an error   *)
(* and a missing document alike.                                           *)
AnswerTo(r, doc) ==
    IF doc = NoDoc THEN "absent"
    ELSE IF doc.whole /\ doc.users[r.uid] > 0 THEN "in" ELSE "out"

ReplyTo(r, doc) == [type |-> "reply", read |-> r, ans |-> AnswerTo(r, doc)]

(* Fault: getDocument asks the server only.                                *)
Answerable_Online(d, c) == online[d] /\ reads[d][c] # <<>>

Answerable(d, c) == reads[d][c] # <<>>

(* Firestore answers the reads of one document: they share one target, get *)
(* the same snapshot, and their callbacks are posted in the order of the   *)
(* calls.  The document the server sent is cached.                         *)
AnswerReads(d, c) ==
    /\ Answerable(d, c)
    /\ LET waiting == reads[d][c]
           doc     == Seen(d, c)
       IN  mainQueue' = [mainQueue EXCEPT ![d] =
               @ \o [i \in 1 .. Len(waiting) |-> ReplyTo(waiting[i], doc)]]
    /\ reads' = [reads EXCEPT ![d][c] = <<>>]
    /\ cache' = [cache EXCEPT ![d][c] = Known(d, c)]
    /\ Notice(d, {c})
    /\ UNCHANGED <<server, pending, online, authVars, listVars, button, taps>>

(* A cell that comes on screen asks isCafeCollected too, to set its own     *)
(* button; here that only caches the document the server sent.             *)
CafeCellRead(d, c) ==
    /\ currentUser[d] # NoUser
    /\ online[d]
    /\ cache' = [cache EXCEPT ![d][c] = server[c]]
    /\ Notice(d, {c})
    /\ UNCHANGED <<server, pending, online, authVars, reads, mainQueue, listVars,
                   button, taps>>

(* A write joins the queue of the user Firestore works for.                *)
Enqueue(d, m) == pending' = [pending EXCEPT ![d][fsUser[d]] = Append(@, m)]

(* The callback of isCafeCollected in didClickCollectButton: remove or     *)
(* add, for the user of this moment, and turn the button over without      *)
(* waiting for either.                                                     *)
CheckReply(d) ==
    /\ mainQueue[d] # <<>>
    /\ LET e   == Head(mainQueue[d])
           now == currentUser[d]
           c   == e.read.cafe
       IN  /\ e.type = "reply" /\ e.read.kind = "check"
           /\ button' = [button EXCEPT ![d][c] = IF e.ans = "in" THEN "off" ELSE "on"]
           /\ IF e.ans = "in" /\ now # NoUser
              THEN Enqueue(d, [op |-> "remove", cafe |-> c, uid |-> now, users |-> NoCopies])
              ELSE UNCHANGED pending
           /\ IF e.ans # "in" /\ now # NoUser
              THEN reads' = [reads EXCEPT ![d][c] = Append(@,
                       [kind |-> "add", cafe |-> c, uid |-> now, base |-> e.read.base])]
              ELSE UNCHANGED reads
    /\ mainQueue' = [mainQueue EXCEPT ![d] = Tail(@)]
    /\ UNCHANGED <<server, cache, results, online, authVars, listVars, taps>>

(* Faults: always a setData; always an update; the user not appended to    *)
(* what is set; the user set alone.                                        *)
AddWrite_Set(e) ==
    [op |-> "set", cafe |-> e.read.cafe, uid |-> e.read.uid,
     users |-> [e.read.base EXCEPT ![e.read.uid] = @ + 1]]
AddWrite_Update(e) ==
    [op |-> "union", cafe |-> e.read.cafe, uid |-> e.read.uid, users |-> NoCopies]
AddWrite_NoAppend(e) ==
    [op |-> IF e.ans = "absent" THEN "set" ELSE "union",
     cafe |-> e.read.cafe, uid |-> e.read.uid, users |-> e.read.base]
AddWrite_Alone(e) ==
    [op |-> IF e.ans = "absent" THEN "set" ELSE "union",
     cafe |-> e.read.cafe, uid |-> e.read.uid, users |-> [u \in {e.read.uid} |-> 1]]

(* The write addFavoriteCafe makes: an arrayUnion when the document is     *)
(* there, the whole cafe with the user appended when it is not, or when    *)
(* the read failed.                                                        *)
AddWrite(e) ==
    LET r == e.read IN
    IF e.ans = "absent"
    THEN [op |-> "set", cafe |-> r.cafe, uid |-> r.uid,
          users |-> [r.base EXCEPT ![r.uid] = @ + 1]]
    ELSE [op |-> "union", cafe |-> r.cafe, uid |-> r.uid, users |-> NoCopies]

(* The callback of getDocument in addFavoriteCafe.                         *)
AddReply(d) ==
    /\ mainQueue[d] # <<>>
    /\ LET e == Head(mainQueue[d]) IN
       /\ e.type = "reply" /\ e.read.kind = "add"
       /\ Enqueue(d, AddWrite(e))
    /\ mainQueue' = [mainQueue EXCEPT ![d] = Tail(@)]
    /\ UNCHANGED <<server, cache, results, online, authVars, reads, listVars, button, taps>>

-----------------------------------------------------------------------------
(***************************************************************************)
(* The list of collected cafes.                                            *)
(***************************************************************************)

(* The row 'My collection' of the settings pushes a new                    *)
(* MyCollectedViewController, which asks for the list when it loads.       *)
GetCafes(d) ==
    /\ isLogin[d]
    /\ rows' = [rows EXCEPT ![d] = [c \in Cafes |-> NoDoc]]
    /\ listing' = [listing EXCEPT ![d] = currentUser[d]]
    /\ UNCHANGED <<storeVars, online, authVars, reads, mainQueue, button, taps>>

(* Its callback: the cafes whose users hold the uid the list was asked     *)
(* for.  What the server sent is cached.                                   *)
GetCafesReply(d) ==
    /\ listing[d] # NoUser
    /\ rows' = [rows EXCEPT ![d] = [c \in Cafes |->
           LET doc == Seen(d, c)
           IN  IF doc # NoDoc /\ doc.users[listing[d]] > 0 THEN doc.users ELSE NoDoc]]
    /\ listing' = [listing EXCEPT ![d] = NoUser]
    /\ cache' = [cache EXCEPT ![d] = [c \in Cafes |-> Known(d, c)]]
    /\ Notice(d, Cafes)
    /\ UNCHANGED <<server, pending, online, authVars, reads, mainQueue, button, taps>>

-----------------------------------------------------------------------------
(***************************************************************************)
(* The Firestore client and its connection.                                *)
(***************************************************************************)

(* The writes d sends: those of the user Firestore works for.              *)
Queue(d) == pending[d][fsUser[d]]

(* Fault: a write the server rejects is tried again.                       *)
Commit_Retry(d) ==
    /\ online[d]
    /\ Len(results[d]) < Len(Queue(d))
    /\ LET m == Queue(d)[Len(results[d]) + 1] IN
       /\ Accepts(server[m.cafe], m)
       /\ server' = [server EXCEPT ![m.cafe] = ServerApply(@, m)]
       /\ results' = [results EXCEPT ![d] = Append(@, "taken")]
    /\ UNCHANGED <<cache, pending, online, authVars, reads, mainQueue, listVars, button, taps>>

(* The server performs the oldest write it has not answered on the present *)
(* stream, or rejects it and closes the stream.  The response is under way *)
(* from here on.                                                           *)
Commit(d) ==
    /\ online[d]
    /\ Len(results[d]) < Len(Queue(d))
    /\ \A i \in DOMAIN results[d] : results[d][i] # "rejected"
    /\ LET m == Queue(d)[Len(results[d]) + 1] IN
       IF Accepts(server[m.cafe], m)
       THEN /\ server' = [server EXCEPT ![m.cafe] = ServerApply(@, m)]
            /\ results' = [results EXCEPT ![d] = Append(@, "taken")]
       ELSE /\ UNCHANGED server
            /\ results' = [results EXCEPT ![d] = Append(@, "rejected")]
    /\ UNCHANGED <<cache, pending, online, authVars, reads, mainQueue, listVars, button, taps>>

(* Fault: a confirmed write is dropped and not applied to the cache.       *)
Acknowledge_Dropped(d) ==
    /\ results[d] # <<>>
    /\ pending' = [pending EXCEPT ![d][fsUser[d]] = Tail(@)]
    /\ results' = [results EXCEPT ![d] = Tail(@)]
    /\ UNCHANGED <<server, cache, online, authVars, reads, mainQueue, listVars, button, taps>>

(* The response to the oldest write arrives.  The client drops the write   *)
(* and, when it was taken, applies it to a cached document that is older.  *)
Acknowledge(d) ==
    /\ results[d] # <<>>
    /\ LET m == Head(Queue(d)) IN
       IF Head(results[d]) = "taken" /\ Accepts(cache[d][m.cafe], m)
       THEN cache' = [cache EXCEPT ![d][m.cafe] = Apply(@, m)]
       ELSE UNCHANGED cache
    /\ pending' = [pending EXCEPT ![d][fsUser[d]] = Tail(@)]
    /\ results' = [results EXCEPT ![d] = Tail(@)]
    /\ UNCHANGED <<server, online, authVars, reads, mainQueue, listVars, button, taps>>

(* The stream of writes of d ends, and with it the responses under way;    *)
(* the writes they were for are sent again on the next one.                *)
EndStream(d) == results' = [results EXCEPT ![d] = <<>>]

Disconnect(d) ==
    /\ d \in Flaky
    /\ online[d]
    /\ online' = [online EXCEPT ![d] = FALSE]
    /\ EndStream(d)
    /\ UNCHANGED <<server, cache, pending, authVars, reads, mainQueue, listVars,
                   button, taps>>

Reconnect(d) ==
    /\ ~online[d]
    /\ online' = [online EXCEPT ![d] = TRUE]
    /\ UNCHANGED <<storeVars, authVars, reads, mainQueue, listVars, button, taps>>

-----------------------------------------------------------------------------
(***************************************************************************)
(* The user of the device, as far as favourites depend on it.              *)
(***************************************************************************)

PostAuthNote(d, u) ==
    mainQueue' = [mainQueue EXCEPT ![d] = Append(@, [type |-> "auth", uid |-> u])]

(* A sign-in completes, from a LoginViewController of any tab and perhaps  *)
(* over a user who never signed out.  currentUser changes at once, the app *)
(* is told through its main queue.                                         *)
SignIn(d, u) ==
    /\ switches[d] < MaxSwitches
    /\ online[d]
    /\ u \in Accounts[d]
    /\ u # currentUser[d]
    /\ currentUser' = [currentUser EXCEPT ![d] = u]
    /\ PostAuthNote(d, u)
    /\ switches' = [switches EXCEPT ![d] = @ + 1]
    /\ UNCHANGED <<storeVars, online, fsUser, isLogin, reads, listVars, button, taps>>

(* forceLogout, from the root of the settings: a MyCollectedViewController *)
(* that was pushed there has been popped.                                  *)
SignOut(d) ==
    /\ switches[d] < MaxSwitches
    /\ isLogin[d]
    /\ currentUser[d] # NoUser
    /\ currentUser' = [currentUser EXCEPT ![d] = NoUser]
    /\ PostAuthNote(d, NoUser)
    /\ switches' = [switches EXCEPT ![d] = @ + 1]
    /\ rows' = [rows EXCEPT ![d] = [c \in Cafes |-> NoDoc]]
    /\ listing' = [listing EXCEPT ![d] = NoUser]
    /\ UNCHANGED <<storeVars, online, fsUser, isLogin, reads, button, taps>>

(* Faults: the listener goes by the user who was announced; Firestore      *)
(* takes up the queue of a first user only.                                *)
AuthStateDidChange_Announced(d) ==
    /\ mainQueue[d] # <<>>
    /\ Head(mainQueue[d]).type = "auth"
    /\ fsUser' = [fsUser EXCEPT ![d] = Head(mainQueue[d]).uid]
    /\ isLogin' = [isLogin EXCEPT ![d] = Head(mainQueue[d]).uid # NoUser]
    /\ mainQueue' = [mainQueue EXCEPT ![d] = Tail(@)]
    /\ EndStream(d)
    /\ UNCHANGED <<server, cache, pending, online, currentUser, reads, listVars, button,
                   taps, switches>>
AuthStateDidChange_First(d) ==
    /\ mainQueue[d] # <<>>
    /\ Head(mainQueue[d]).type = "auth"
    /\ fsUser' = [fsUser EXCEPT ![d] = IF @ = NoUser THEN Head(mainQueue[d]).uid ELSE @]
    /\ isLogin' = [isLogin EXCEPT ![d] = currentUser[d] # NoUser]
    /\ mainQueue' = [mainQueue EXCEPT ![d] = Tail(@)]
    /\ EndStream(d)
    /\ UNCHANGED <<server, cache, pending, online, currentUser, reads, listVars, button,
                   taps, switches>>

(* The notification of a changed user reaches Firestore, which swaps the   *)
(* mutation queue and restarts its streams, and then the listener of       *)
(* LoginManager, which looks at the user of this moment.                   *)
AuthStateDidChange(d) ==
    /\ mainQueue[d] # <<>>
    /\ Head(mainQueue[d]).type = "auth"
    /\ fsUser' = [fsUser EXCEPT ![d] = Head(mainQueue[d]).uid]
    /\ isLogin' = [isLogin EXCEPT ![d] = currentUser[d] # NoUser]
    /\ mainQueue' = [mainQueue EXCEPT ![d] = Tail(@)]
    /\ EndStream(d)
    /\ UNCHANGED <<server, cache, pending, online, currentUser, reads, listVars, button,
                   taps, switches>>

(* The process dies and the app is started again.  The keychain keeps the  *)
(* user, the disk the cache and the writes; reads, callbacks, responses    *)
(* and views are gone, and isLogin waits for the first call of its         *)
(* listener.                                                               *)
Relaunch(d) ==
    /\ reads' = [reads EXCEPT ![d] = [c \in Cafes |-> <<>>]]
    /\ rows' = [rows EXCEPT ![d] = [c \in Cafes |-> NoDoc]]
    /\ listing' = [listing EXCEPT ![d] = NoUser]
    /\ button' = [button EXCEPT ![d] = [c \in Cafes |-> "unset"]]
    /\ fsUser' = [fsUser EXCEPT ![d] = currentUser[d]]
    /\ isLogin' = [isLogin EXCEPT ![d] = FALSE]
    /\ mainQueue' = [mainQueue EXCEPT ![d] = <<[type |-> "auth", uid |-> currentUser[d]]>>]
    /\ EndStream(d)
    /\ UNCHANGED <<server, cache, pending, online, currentUser, taps, switches>>

-----------------------------------------------------------------------------
Init ==
    /\ server = [c \in Cafes |-> IF c \in Preexisting
                                 THEN [whole |-> TRUE, users |-> NoCopies] ELSE NoDoc]
    /\ cache = [d \in Devices |-> [c \in Cafes |-> NoDoc]]
    /\ pending = [d \in Devices |-> [o \in Owners |-> <<>>]]
    /\ results = [d \in Devices |-> <<>>]
    /\ online = [d \in Devices |-> TRUE]
    /\ currentUser = [d \in Devices |-> NoUser]
    /\ fsUser = [d \in Devices |-> NoUser]
    /\ isLogin = [d \in Devices |-> FALSE]
    /\ reads = [d \in Devices |-> [c \in Cafes |-> <<>>]]
    /\ mainQueue = [d \in Devices |-> <<>>]
    /\ listing = [d \in Devices |-> NoUser]
    /\ rows = [d \in Devices |-> [c \in Cafes |-> NoDoc]]
    /\ button = [d \in Devices |-> [c \in Cafes |-> "unset"]]
    /\ taps = 0
    /\ switches = [d \in Devices |-> 0]

(* A step of the app's user, of the app and of Firestore on device d.      *)
UserStep(d) ==
    \/ \E c \in Cafes : TapInHome(d, c) \/ TapInMyCollected(d, c)
    \/ GetCafes(d)
    \/ \E u \in Users : SignIn(d, u)
    \/ SignOut(d)

MainQueueStep(d) == CheckReply(d) \/ AddReply(d) \/ AuthStateDidChange(d)

FirestoreStep(d) ==
    \/ \E c \in Cafes : AnswerReads(d, c) \/ CafeCellRead(d, c)
    \/ GetCafesReply(d)
    \/ Commit(d)
    \/ Acknowledge(d)

EnvironmentStep(d) == Disconnect(d) \/ Reconnect(d) \/ Relaunch(d)

Next == \E d \in Devices :
            UserStep(d) \/ MainQueueStep(d) \/ FirestoreStep(d) \/ EnvironmentStep(d)

Spec == Init /\ [][Next]_vars

(***************************************************************************)
(* The main queue runs what was posted to it; Firestore answers every read *)
(* and listing, from the cache when the connection stays away; a device    *)
(* that stays connected sends its writes and the server answers them.      *)
(* Nobody has to tap, to sign in or to restore a connection.               *)
(***************************************************************************)
Fairness == \A d \in Devices :
    /\ WF_vars(MainQueueStep(d))
    /\ \A c \in Cafes : WF_vars(AnswerReads(d, c))
    /\ WF_vars(GetCafesReply(d))
    /\ WF_vars(Commit(d))
    /\ WF_vars(Acknowledge(d))

FairSpec == Spec /\ Fairness

-----------------------------------------------------------------------------
(***************************************************************************)
(* Properties.                                                             *)
(***************************************************************************)

(* Every document of the collection, on the server and as any device shows *)
(* it, has all the fields of a cafe: getCafes never meets the document at  *)
(* which it calls fatalError, although favourites are also written by      *)
(* updates that carry nothing but an array of uids.                        *)
ServerDocumentsParse == \A c \in Cafes : server[c] # NoDoc => server[c].whole

DocumentsParse ==
    /\ ServerDocumentsParse
    /\ \A d \in Devices, c \in Cafes : Seen(d, c) # NoDoc => Seen(d, c).whole

(* An arrayUnion or arrayRemove is only made when its document is on the   *)
(* server or a setData of the same queue goes before it, so the server     *)
(* never answers NOT_FOUND and no favourite is silently dropped.  Without  *)
(* a sign-out in between.                                                  *)
UpdatesFindTheirDocument ==
    \A d \in Devices, o \in Owners : \A i \in DOMAIN pending[d][o] :
        LET m == pending[d][o][i] IN
        \/ m.op = "set"
        \/ server[m.cafe] # NoDoc
        \/ \E j \in 1 .. i - 1 :
              pending[d][o][j].cafe = m.cafe /\ pending[d][o][j].op = "set"

(* Nobody is twice in the users of a cafe, so MyCollected has one row for  *)
(* each collected cafe; although setData appends the user to whatever      *)
(* users the tapped cafe was once listed with.                             *)
NoDuplicates ==
    \A c \in Cafes : server[c] # NoDoc => \A u \in Users : server[c].users[u] <= 1

(* Once a device waits for no read of a cafe, the button, turned over      *)
(* without waiting for any write, shows what the device itself holds for   *)
(* its user: also after a second tap before the first was answered.  (A    *)
(* third one breaks it: the read of an addFavoriteCafe can be answered     *)
(* behind a removeFavoriteCafe that was asked for later.)                  *)
Quiet(d, c) == Unanswered(d, c) = 0

ButtonMatchesStore ==
    \A d \in Devices, c \in Cafes :
        Quiet(d, c) /\ button[d][c] # "unset" /\ currentUser[d] # NoUser =>
            LET doc == View(cache[d][c], pending[d][fsUser[d]], c) IN
            (button[d][c] = "on") <=> (doc # NoDoc /\ doc.users[currentUser[d]] > 0)

(* Every tap is answered, even one made while the connection is away.      *)
TapsAreAnswered ==
    \A d \in Devices, c \in Cafes : reads[d][c] # <<>> ~> Quiet(d, c)

(* On a device that stays connected and whose app is not killed over and   *)
(* over, the writes of the user Firestore works for all reach the server   *)
(* and are confirmed, unless that user is replaced.  (Each relaunch ends   *)
(* the stream of writes, and what was not confirmed on it starts again.)   *)
WritesReachTheServer ==
    \A d \in Devices, o \in Owners :
        <>[]online[d] /\ <>[][~Relaunch(d)]_vars =>
            (pending[d][o] # <<>> ~> (pending[d][o] = <<>> \/ fsUser[d] # o))

(* A write made for the user of the moment joins the queue of that user,   *)
(* so that it is sent with that user's token and waits for nobody else;    *)
(* except while the news of this user is still on its way to Firestore.    *)
UserIsAnnounced(d) ==
    \E i \in DOMAIN mainQueue[d] :
        mainQueue[d][i].type = "auth" /\ mainQueue[d][i].uid = currentUser[d]

WriteJoinsItsQueue(d, o) ==
    Len(pending'[d][o]) > Len(pending[d][o]) =>
        LET m == pending'[d][o][Len(pending[d][o]) + 1]
        IN  m.uid = currentUser[d] => o = m.uid \/ UserIsAnnounced(d)

WritesJoinTheirQueue == [][\A d \in Devices, o \in Owners : WriteJoinsItsQueue(d, o)]_vars

(* While nobody else uses the device, and either it is the only one or     *)
(* every document exists and no connection is lost, favourites are kept as *)
(* FavoriteStore promises: each tap asks for the opposite of what its user *)
(* last wanted, though it goes by a document read earlier, perhaps from    *)
(* the cache; and a write, sent again after each end of a stream, changes  *)
(* that user's favourite of one cafe and nobody else's, in the order the   *)
(* taps were answered.                                                     *)
Asked(q) == [i \in 1 .. Len(q) |->
    [op |-> IF q[i].op = "remove" THEN "uncollect" ELSE "collect",
     uid |-> q[i].uid, cafe |-> q[i].cafe]]

Favorite(u) == {c \in Cafes : server[c] # NoDoc /\ server[c].users[u] > 0}

Store == INSTANCE FavoriteStore WITH
    Writers   <- Devices,
    fav       <- [u \in Users |-> Favorite(u)],
    user      <- currentUser,
    requests  <- [d \in Devices |-> Asked(pending[d][currentUser[d]])],
    performed <- [d \in Devices |-> Len(results[d])]

RefinesStore == Store!StoreSpec
=============================================================================
