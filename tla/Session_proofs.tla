--------------------------- MODULE Session_proofs ---------------------------
(***************************************************************************)
(* Theorems about Session, for any accounts and tabs and any number of     *)
(* attempts under way.                                                     *)
(***************************************************************************)
EXTENDS Session, FiniteSetTheorems, TLAPS

-----------------------------------------------------------------------------
(***************************************************************************)
(* Types.                                                                  *)
(***************************************************************************)

LEMMA InitTypeOK == Init => TypeOK
<1> SUFFICES ASSUME Init PROVE TypeOK
    OBVIOUS
<1>1. mainQueue \in Seq(Messages)
    BY DEF Init, Messages
<1>2. attempts \in [Requests \cup Sheets -> Nat]
    BY DEF Init
<1>3. login \in [Tabs -> BOOLEAN] /\ tab \in Tabs
    BY SessionAssumption DEF Init
<1>4. switches \in 0 .. MaxSwitches
    BY SessionAssumption DEF Init
<1>5. delegate \in Delegates /\ presenting \in Tabs \cup {"popped", "nobody"} /\ alert \in Alerts
    BY DEF Init, Delegates, Alerts
<1> QED
    BY <1>1, <1>2, <1>3, <1>4, <1>5 DEF Init, TypeOK

LEMMA QueueType ==
    ASSUME TypeOK, NEW m \in Messages
    PROVE  /\ mainQueue \o <<"auth">> \o <<>> \in Seq(Messages)
           /\ mainQueue \o <<"auth">> \o <<m>> \in Seq(Messages)
           /\ Append(mainQueue, m) \in Seq(Messages)
    BY DEF TypeOK, Messages

LEMMA TailType ==
    ASSUME TypeOK, mainQueue # <<>>
    PROVE  Tail(mainQueue) \in Seq(Messages) /\ Head(mainQueue) \in Messages
    BY DEF TypeOK

LEMMA NextTypeOK == TypeOK /\ [Next]_vars => TypeOK'
<1> SUFFICES ASSUME TypeOK, [Next]_vars PROVE TypeOK'
    OBVIOUS
<1> USE SessionAssumption DEF TypeOK, Delegates, Alerts, userVars, managerVars, screenVars
<1>1. ASSUME NEW k \in Requests, SignInFails(k) PROVE TypeOK'
    BY <1>1, QueueType DEF SignInFails, Messages, Requests
<1>2. ASSUME NEW k \in Requests, NEW u \in Users, SignInSucceeds(k, u) PROVE TypeOK'
    BY <1>2, QueueType DEF SignInSucceeds, UpdateCurrentUser, Messages, Requests
<1>3. CASE Revoke
    <2>1. mainQueue' \in Seq(Messages)
        BY <1>3 DEF Revoke, UpdateCurrentUser, Messages
    <2> QED
        BY <1>3, <2>1 DEF Revoke, UpdateCurrentUser
<1>4. CASE AuthStateDidChange
    BY <1>4, TailType DEF AuthStateDidChange
<1>5. CASE TakeAnswer
    BY <1>5, TailType DEF TakeAnswer, TellDelegate
<1>6. ASSUME NEW k \in {"email", "signUp"} \cup Sheets, Click(k) PROVE TypeOK'
    BY <1>6 DEF Click, Requests, Sheets
<1>7. CASE GoogleSucceeds
    <2>1. attempts' \in [Requests \cup Sheets -> Nat]
        BY <1>7 DEF GoogleSucceeds, Requests, Sheets
    <2> QED
        BY <1>7, <2>1 DEF GoogleSucceeds
<1>8. CASE GoogleFails
    <2>1. attempts' \in [Requests \cup Sheets -> Nat]
        BY <1>8 DEF GoogleFails, Requests, Sheets
    <2>2. alert' \in Alerts
        BY <1>8 DEF GoogleFails
    <2> QED
        BY <1>8, <2>1, <2>2 DEF GoogleFails
<1>9. CASE AppleCompletes
    BY <1>9 DEF AppleCompletes, Requests, Sheets
<1>10. CASE Back
    BY <1>10 DEF Back, PopLogin, ViewWillAppear
<1>11. CASE Offer
    BY <1>11 DEF Offer
<1>12. CASE LoginRow
    BY <1>12 DEF LoginRow
<1>13. CASE LogoutRow
    <2>1. mainQueue' \in Seq(Messages)
        BY <1>13 DEF LogoutRow, UpdateCurrentUser, Messages
    <2>2. currentUser' \in Users \cup {NoUser} /\ switches' \in 0 .. MaxSwitches
        BY <1>13 DEF LogoutRow, UpdateCurrentUser
    <2>3. alert' \in Alerts
        BY <1>13 DEF LogoutRow
    <2> QED
        BY <1>13, <2>1, <2>2, <2>3 DEF LogoutRow
<1>14. CASE DismissAlert
    BY <1>14 DEF DismissAlert, PopLogin, ViewWillAppear
<1>15. ASSUME NEW t \in Tabs, SelectTab(t) PROVE TypeOK'
    BY <1>15 DEF SelectTab, ViewWillAppear
<1>16. CASE Relaunch
    <2>1. mainQueue' \in Seq(Messages)
        BY <1>16 DEF Relaunch, Messages
    <2> QED
        BY <1>16, <2>1 DEF Relaunch, SetupGoogleSignIn, Requests, Sheets
<1>17. CASE UNCHANGED vars
    BY <1>17 DEF vars
<1> QED
    BY <1>1, <1>2, <1>3, <1>4, <1>5, <1>6, <1>7, <1>8, <1>9, <1>10, <1>11, <1>12,
       <1>13, <1>14, <1>15, <1>16, <1>17
       DEF Next, FirebaseStep, MainQueueStep, UserStep

(* Every variable stays within its type.                                   *)
THEOREM SessionTypeCorrect == Spec => []TypeOK
    BY InitTypeOK, NextTypeOK, PTL DEF Spec

-----------------------------------------------------------------------------
(***************************************************************************)
(* How many changes of the user a queue announces, when something is       *)
(* posted to it and when its head is taken.                                *)
(***************************************************************************)

Auths(q) == {i \in DOMAIN q : q[i] = "auth"}

LEMMA AuthsFinite ==
    ASSUME NEW q \in Seq(Messages)
    PROVE  IsFiniteSet(Auths(q)) /\ Cardinality(Auths(q)) \in Nat
<1>1. IsFiniteSet(1 .. Len(q))
    BY FS_Interval
<1>2. Auths(q) \subseteq 1 .. Len(q)
    BY DEF Auths
<1> QED
    BY <1>1, <1>2, FS_Subset, FS_CardinalityType

LEMMA AuthsAppend ==
    ASSUME NEW q \in Seq(Messages), NEW m \in Messages
    PROVE  Cardinality(Auths(Append(q, m))) =
               Cardinality(Auths(q)) + (IF m = "auth" THEN 1 ELSE 0)
<1>1. CASE m = "auth"
    <2>1. Auths(Append(q, m)) = Auths(q) \cup {Len(q) + 1}
        BY <1>1 DEF Auths
    <2>2. Len(q) + 1 \notin Auths(q)
        BY DEF Auths
    <2> QED
        BY <1>1, <2>1, <2>2, AuthsFinite, FS_AddElement
<1>2. CASE m # "auth"
    <2>1. Auths(Append(q, m)) = Auths(q)
        BY <1>2 DEF Auths
    <2> QED
        BY <1>2, <2>1, AuthsFinite
<1> QED
    BY <1>1, <1>2

LEMMA AuthsTail ==
    ASSUME NEW q \in Seq(Messages), q # <<>>
    PROVE  Cardinality(Auths(Tail(q))) =
               Cardinality(Auths(q)) - (IF Head(q) = "auth" THEN 1 ELSE 0)
<1> DEFINE later == {i \in Auths(q) : i # 1}
           shift == [i \in Auths(Tail(q)) |-> i + 1]
<1>0. Tail(q) \in Seq(Messages) /\ Len(Tail(q)) = Len(q) - 1 /\ Len(q) \in Nat \ {0}
    OBVIOUS
<1>1. shift \in Bijection(Auths(Tail(q)), later)
    <2>1. shift \in [Auths(Tail(q)) -> later]
        BY <1>0 DEF Auths
    <2>2. \A i, j \in Auths(Tail(q)) : i # j => shift[i] # shift[j]
        BY <1>0 DEF Auths
    <2>3. ASSUME NEW k \in later PROVE \E i \in Auths(Tail(q)) : shift[i] = k
        <3>1. k - 1 \in Auths(Tail(q))
            BY <1>0 DEF Auths
        <3> QED
            BY <3>1, <1>0 DEF Auths
    <2> QED
        BY <2>1, <2>2, <2>3 DEF Bijection, Injection, Surjection, IsInjective
<1>2. Cardinality(Auths(Tail(q))) = Cardinality(later)
    BY <1>0, <1>1, AuthsFinite, FS_Bijection DEF ExistsBijection
<1>3. CASE Head(q) = "auth"
    <2>1. 1 \in Auths(q) /\ later = Auths(q) \ {1}
        BY <1>0, <1>3 DEF Auths
    <2> QED
        BY <1>2, <1>3, <2>1, AuthsFinite, FS_RemoveElement
<1>4. CASE Head(q) # "auth"
    <2>1. later = Auths(q)
        BY <1>0, <1>4 DEF Auths
    <2>2. Cardinality(Auths(q)) \in Nat
        BY AuthsFinite
    <2> HIDE DEF later, shift
    <2> QED
        BY <1>2, <1>4, <2>1, <2>2
<1> QED
    BY <1>3, <1>4

LEMMA NotesType == TypeOK => AuthNotes = Cardinality(Auths(mainQueue)) /\ AuthNotes \in Nat
    BY AuthsFinite DEF TypeOK, AuthNotes, Auths

(* What a change of the user does to the notes.                            *)
LEMMA NotesAfterUpdate ==
    ASSUME TypeOK, NEW u,
           \/ UpdateCurrentUser(u, <<>>)
           \/ \E m \in Messages \ {"auth"} : UpdateCurrentUser(u, <<m>>)
    PROVE  AuthNotes' = AuthNotes + 1
<1> DEFINE posted == Append(mainQueue, "auth")
<1>1. posted \in Seq(Messages) /\ Cardinality(Auths(posted)) = AuthNotes + 1
    BY AuthsAppend, NotesType DEF TypeOK, Messages
<1>2. CASE UpdateCurrentUser(u, <<>>)
    <2>1. mainQueue' = posted
        BY <1>2 DEF UpdateCurrentUser, TypeOK
    <2> QED
        BY <1>1, <2>1 DEF AuthNotes, Auths
<1>3. ASSUME NEW m \in Messages \ {"auth"}, UpdateCurrentUser(u, <<m>>)
      PROVE  AuthNotes' = AuthNotes + 1
    <2>1. mainQueue' = Append(posted, m)
        BY <1>3 DEF UpdateCurrentUser, TypeOK
    <2>2. Cardinality(Auths(Append(posted, m))) = Cardinality(Auths(posted))
        <3> HIDE DEF posted
        <3>1. m \in Messages /\ m # "auth"
            OBVIOUS
        <3>2. Cardinality(Auths(posted)) \in Nat
            BY <1>1, AuthsFinite
        <3> QED
            BY <1>1, <3>1, <3>2, AuthsAppend
    <2>3. AuthNotes' = Cardinality(Auths(Append(posted, m)))
        BY <2>1 DEF AuthNotes, Auths
    <2> QED
        BY <1>1, <2>2, <2>3
<1> QED
    BY <1>2, <1>3

-----------------------------------------------------------------------------
(***************************************************************************)
(* isLogin follows the user as AuthState says: each step of Session is a   *)
(* step of AuthState or leaves its variables alone.                        *)
(***************************************************************************)

LEMMA InitRefines == Init => Auth!AuthInit
<1> SUFFICES ASSUME Init PROVE Auth!AuthInit
    OBVIOUS
<1>1. AuthNotes = 1
    <2>1. Auths(mainQueue) = {1}
        BY DEF Init, Auths
    <2> QED
        BY <2>1, FS_Singleton DEF AuthNotes, Auths
<1> QED
    BY <1>1 DEF Init, Auth!AuthInit

LEMMA NextRefines == TypeOK /\ [Next]_vars => [Auth!AuthNext]_(Auth!authVars)
<1> SUFFICES ASSUME TypeOK, [Next]_vars, UNCHANGED Auth!authVars => FALSE
             PROVE  Auth!AuthNext
    OBVIOUS
<1> USE DEF Auth!AuthNext, Auth!authVars
<1>0. ASSUME mainQueue' = mainQueue PROVE AuthNotes' = AuthNotes
    BY <1>0 DEF AuthNotes
<1>1. ASSUME NEW k \in Requests, SignInFails(k) PROVE FALSE
    <2>1. Cardinality(Auths(Append(mainQueue, "fail"))) = Cardinality(Auths(mainQueue))
        BY AuthsAppend, AuthsFinite DEF TypeOK, Messages
    <2>2. AuthNotes' = AuthNotes
        BY <1>1, <2>1, NotesType DEF SignInFails, AuthNotes, Auths
    <2> QED
        BY <1>1, <2>2 DEF SignInFails, userVars
<1>2. ASSUME NEW k \in Requests, NEW u \in Users, SignInSucceeds(k, u) PROVE Auth!Change
    <2>1. AuthNotes' = AuthNotes + 1
        BY <1>2, NotesAfterUpdate DEF SignInSucceeds, Messages
    <2> QED
        BY <1>2, <2>1 DEF SignInSucceeds, UpdateCurrentUser, Auth!Change
<1>3. CASE Revoke
    <2>1. AuthNotes' = AuthNotes + 1
        BY <1>3, NotesAfterUpdate DEF Revoke
    <2> QED
        BY <1>3, <2>1 DEF Revoke, UpdateCurrentUser, Auth!Change
<1>4. CASE AuthStateDidChange
    <2>1. Cardinality(Auths(Tail(mainQueue))) = Cardinality(Auths(mainQueue)) - 1
        BY <1>4, AuthsTail DEF AuthStateDidChange, TypeOK
    <2>2. AuthNotes' = AuthNotes - 1
        BY <1>4, <2>1, NotesType DEF AuthStateDidChange, AuthNotes, Auths
    <2>3. AuthNotes' \in Nat
        BY NextTypeOK, AuthsFinite DEF TypeOK, AuthNotes, Auths
    <2>4. AuthNotes \in Nat /\ AuthNotes > 0
        BY <2>2, <2>3, NotesType
    <2> QED
        BY <1>4, <2>2, <2>4 DEF AuthStateDidChange, userVars, Auth!TakeUp
<1>5. CASE TakeAnswer
    <2>1. Cardinality(Auths(Tail(mainQueue))) = Cardinality(Auths(mainQueue))
        BY <1>5, AuthsTail, AuthsFinite DEF TakeAnswer, TypeOK
    <2>2. AuthNotes' = AuthNotes
        BY <1>5, <2>1, NotesType DEF TakeAnswer, AuthNotes, Auths
    <2> QED
        BY <1>5, <2>2 DEF TakeAnswer, userVars
<1>6. ASSUME NEW k \in {"email", "signUp"} \cup Sheets, Click(k) PROVE FALSE
    BY <1>6, <1>0 DEF Click, userVars
<1>7. CASE GoogleSucceeds \/ GoogleFails \/ AppleCompletes
    BY <1>7, <1>0 DEF GoogleSucceeds, GoogleFails, AppleCompletes, userVars
<1>8. CASE Back \/ Offer \/ LoginRow \/ DismissAlert
    BY <1>8, <1>0 DEF Back, Offer, LoginRow, DismissAlert, userVars
<1>9. ASSUME NEW t \in Tabs, SelectTab(t) PROVE FALSE
    BY <1>9, <1>0 DEF SelectTab, userVars
<1>10. CASE LogoutRow
    <2>1. CASE UpdateCurrentUser(NoUser, <<>>)
        <3>1. AuthNotes' = AuthNotes + 1
            BY <2>1, NotesAfterUpdate
        <3> QED
            BY <1>10, <2>1, <3>1 DEF LogoutRow, UpdateCurrentUser, Auth!Change
    <2>2. CASE UNCHANGED <<userVars, mainQueue>>
        BY <1>10, <2>2, <1>0 DEF LogoutRow, userVars
    <2> QED
        BY <1>10, <2>1, <2>2 DEF LogoutRow
<1>11. CASE Relaunch
    <2>1. Auths(mainQueue)' = {1}
        BY <1>11 DEF Relaunch, Auths
    <2>2. AuthNotes' = 1
        BY <2>1, FS_Singleton DEF AuthNotes, Auths
    <2> QED
        BY <1>11, <2>2 DEF Relaunch, userVars, Auth!Restart
<1>12. CASE UNCHANGED vars
    BY <1>12, <1>0 DEF vars
<1> QED
    BY <1>1, <1>2, <1>3, <1>4, <1>5, <1>6, <1>7, <1>8, <1>9, <1>10, <1>11, <1>12
       DEF Next, FirebaseStep, MainQueueStep, UserStep

(* isLogin follows the user of FirebaseAuth as AuthState says.             *)
THEOREM SessionRefinesAuthState == Spec => RefinesAuthState
    BY InitRefines, NextRefines, SessionTypeCorrect, PTL DEF Spec, RefinesAuthState, Auth!AuthSpec

(* And so, once every change has been taken up, isLogin tells whether      *)
(* there is a user.                                                        *)
LEMMA FlagSettlesStep == TypeOK /\ Auth!FlagSettles /\ [Next]_vars => Auth!FlagSettles'
<1> SUFFICES ASSUME TypeOK, Auth!FlagSettles, [Next]_vars PROVE Auth!FlagSettles'
    OBVIOUS
<1>1. AuthNotes \in Nat
    BY NotesType
<1>2. [Auth!AuthNext]_(Auth!authVars)
    BY NextRefines
<1>3. CASE Auth!Change
    BY <1>1, <1>3 DEF Auth!FlagSettles, Auth!Change
<1>4. CASE Auth!TakeUp
    <2>1. currentUser' = currentUser /\ (isLogin' <=> currentUser # NoUser)
        BY <1>4 DEF Auth!TakeUp
    <2> QED
        BY <2>1 DEF Auth!FlagSettles
<1>5. CASE Auth!Restart
    BY <1>5 DEF Auth!FlagSettles, Auth!Restart
<1>6. CASE UNCHANGED Auth!authVars
    BY <1>6 DEF Auth!FlagSettles, Auth!authVars
<1> QED
    BY <1>2, <1>3, <1>4, <1>5, <1>6 DEF Auth!AuthNext

LEMMA InitFlagSettles == Init => Auth!FlagSettles
<1>1. Init => AuthNotes = 1
    <2>1. Init => Auths(mainQueue) = {1}
        BY DEF Init, Auths
    <2> QED
        BY <2>1, FS_Singleton DEF AuthNotes, Auths
<1> QED
    BY <1>1 DEF Auth!FlagSettles

THEOREM LoginFlagSettles == Spec => []Auth!FlagSettles
    BY InitFlagSettles, FlagSettlesStep, SessionTypeCorrect, PTL DEF Spec

-----------------------------------------------------------------------------
(***************************************************************************)
(* The row of the settings.  What makes the property inductive is that a   *)
(* flag that is still up after the user has gone is only seen while the    *)
(* alert that follows the logout is shown.                                 *)
(***************************************************************************)

RowInv ==
    /\ isLogin /\ currentUser = NoUser => alert = "loggedOut"
    /\ SettingsShown /\ loginTitle = "out" /\ alert # "loggedOut" => isLogin

LEMMA NextRowInv ==
    ASSUME ~Revocable, TypeOK, Auth!FlagSettles, RowInv, [Next]_vars
    PROVE  RowInv'
<1> USE DEF RowInv, SettingsShown, userVars, managerVars, screenVars
<1>1. ASSUME NEW k \in Requests, SignInFails(k) PROVE RowInv'
    BY <1>1 DEF SignInFails
<1>2. ASSUME NEW k \in Requests, NEW u \in Users, SignInSucceeds(k, u) PROVE RowInv'
    BY <1>2, SessionAssumption DEF SignInSucceeds, UpdateCurrentUser
<1>3. CASE Revoke
    BY <1>3 DEF Revoke
<1>4. CASE AuthStateDidChange
    BY <1>4 DEF AuthStateDidChange
<1>5. CASE TakeAnswer
    BY <1>5 DEF TakeAnswer, TellDelegate, Free
<1>6. ASSUME NEW k \in {"email", "signUp"} \cup Sheets, Click(k) PROVE RowInv'
    BY <1>6 DEF Click
<1>7. CASE GoogleSucceeds \/ AppleCompletes
    BY <1>7 DEF GoogleSucceeds, AppleCompletes
<1>8. CASE GoogleFails
    BY <1>8 DEF GoogleFails
<1>9. CASE Back
    BY <1>9, SessionAssumption DEF Back, PopLogin, ViewWillAppear, Free, TypeOK
<1>10. CASE Offer \/ LoginRow
    BY <1>10, SessionAssumption DEF Offer, LoginRow, Free, TypeOK
<1>11. CASE LogoutRow
    BY <1>11 DEF LogoutRow, UpdateCurrentUser, Free
<1>12. CASE DismissAlert
    <2>1. CASE alert = "loggedOut"
        <3>1. ~(isLogin /\ currentUser = NoUser)
            BY <1>12, <2>1 DEF DismissAlert, Auth!FlagSettles
        <3> QED
            BY <1>12, <2>1, <3>1 DEF DismissAlert
    <2>2. CASE alert # "loggedOut"
        BY <1>12, <2>2, SessionAssumption
           DEF DismissAlert, PopLogin, ViewWillAppear, TypeOK
    <2> QED
        BY <2>1, <2>2
<1>13. ASSUME NEW t \in Tabs, SelectTab(t) PROVE RowInv'
    BY <1>13 DEF SelectTab, ViewWillAppear, Free
<1>14. CASE Relaunch
    BY <1>14 DEF Relaunch
<1>15. CASE UNCHANGED vars
    BY <1>15 DEF vars
<1> QED
    BY <1>1, <1>2, <1>3, <1>4, <1>5, <1>6, <1>7, <1>8, <1>9, <1>10, <1>11, <1>12,
       <1>13, <1>14, <1>15 DEF Next, FirebaseStep, MainQueueStep, UserStep

(* As long as no token is taken back, the settings never offer a logout to *)
(* nobody.                                                                 *)
THEOREM RowIsNeverInVain ==
    ASSUME ~Revocable
    PROVE  Spec => []RowNeverOffersLogoutInVain
<1>1. Init => RowInv
    BY DEF Init, RowInv
<1>2. TypeOK /\ Auth!FlagSettles /\ RowInv /\ [Next]_vars => RowInv'
    BY NextRowInv
<1>3. RowInv => RowNeverOffersLogoutInVain
    BY DEF RowInv, RowNeverOffersLogoutInVain
<1> QED
    BY <1>1, <1>2, <1>3, SessionTypeCorrect, LoginFlagSettles, PTL DEF Spec

-----------------------------------------------------------------------------
(***************************************************************************)
(* Answers and their delegate: whoever a LoginViewController's click made  *)
(* the delegate is the presentingViewController as well, and so outlives   *)
(* its screen.                                                             *)
(***************************************************************************)

DelegateInv ==
    /\ delegate \in Tabs => presenting = delegate
    /\ AnswersFindADelegate

LEMMA NextDelegateInv == TypeOK /\ DelegateInv /\ [Next]_vars => DelegateInv'
<1> SUFFICES ASSUME TypeOK, DelegateInv, [Next]_vars PROVE DelegateInv'
    OBVIOUS
<1> USE DEF DelegateInv, AnswersFindADelegate
<1>0. ASSUME delegate' = delegate, presenting' = presenting, AttemptUnderWay' => AttemptUnderWay
      PROVE  DelegateInv'
    BY <1>0
<1>1. ASSUME NEW k \in Requests, SignInFails(k) PROVE DelegateInv'
    <2>1. AttemptUnderWay
        BY <1>1 DEF SignInFails, AttemptUnderWay, TypeOK
    <2> QED
        BY <1>0, <1>1, <2>1 DEF SignInFails, managerVars
<1>2. ASSUME NEW k \in Requests, NEW u \in Users, SignInSucceeds(k, u) PROVE DelegateInv'
    <2>1. AttemptUnderWay
        BY <1>2 DEF SignInSucceeds, AttemptUnderWay, TypeOK
    <2> QED
        BY <1>0, <1>2, <2>1 DEF SignInSucceeds, managerVars
<1>3. CASE Revoke
    <2>1. mainQueue' = Append(mainQueue, "auth") /\ attempts' = attempts
        BY <1>3 DEF Revoke, UpdateCurrentUser, TypeOK
    <2>2. AttemptUnderWay' => AttemptUnderWay
        BY <2>1 DEF AttemptUnderWay, TypeOK
    <2> QED
        BY <1>0, <1>3, <2>2 DEF Revoke, managerVars
<1>4. CASE AuthStateDidChange \/ TakeAnswer
    <2>1. mainQueue # <<>> /\ mainQueue' = Tail(mainQueue) /\ attempts' = attempts
        BY <1>4 DEF AuthStateDidChange, TakeAnswer
    <2>2. AttemptUnderWay' => AttemptUnderWay
        BY <2>1 DEF AttemptUnderWay, TypeOK
    <2> QED
        BY <1>0, <1>4, <2>2 DEF AuthStateDidChange, TakeAnswer, managerVars
<1>5. ASSUME NEW k \in {"email", "signUp"} \cup Sheets, Click(k) PROVE DelegateInv'
    BY <1>5, SessionAssumption DEF Click, TypeOK
<1>6. CASE GoogleSucceeds \/ GoogleFails \/ AppleCompletes
    <2>1. AttemptUnderWay
        BY <1>6 DEF GoogleSucceeds, GoogleFails, AppleCompletes, AttemptUnderWay, TypeOK, Sheets
    <2> QED
        BY <1>0, <1>6, <2>1 DEF GoogleSucceeds, GoogleFails, AppleCompletes, managerVars
<1>7. CASE Back
    <2>1. AttemptUnderWay' => AttemptUnderWay
        BY <1>7 DEF Back, AttemptUnderWay
    <2> QED
        BY <1>7, <2>1, SessionAssumption DEF Back, PopLogin, TypeOK
<1>8. CASE Offer \/ LoginRow
    <2>1. AttemptUnderWay' => AttemptUnderWay
        BY <1>8 DEF Offer, LoginRow, AttemptUnderWay
    <2> QED
        BY <1>0, <1>8, <2>1 DEF Offer, LoginRow, managerVars
<1>9. CASE DismissAlert
    <2>1. AttemptUnderWay' => AttemptUnderWay
        BY <1>9 DEF DismissAlert, AttemptUnderWay
    <2> QED
        BY <1>9, <2>1, SessionAssumption DEF DismissAlert, PopLogin, TypeOK
<1>10. CASE LogoutRow
    BY <1>10, SessionAssumption DEF LogoutRow
<1>11. ASSUME NEW t \in Tabs, SelectTab(t) PROVE DelegateInv'
    <2>1. AttemptUnderWay' => AttemptUnderWay
        BY <1>11 DEF SelectTab, AttemptUnderWay
    <2> QED
        BY <1>0, <1>11, <2>1 DEF SelectTab, managerVars
<1>12. CASE Relaunch
    <2>1. ~AttemptUnderWay'
        BY <1>12 DEF Relaunch, AttemptUnderWay
    <2> QED
        BY <1>12, <2>1, SessionAssumption DEF Relaunch
<1>13. CASE UNCHANGED vars
    <2>1. AttemptUnderWay' => AttemptUnderWay
        BY <1>13 DEF vars, AttemptUnderWay
    <2> QED
        BY <1>0, <1>13, <2>1 DEF vars
<1> QED
    BY <1>1, <1>2, <1>3, <1>4, <1>5, <1>6, <1>7, <1>8, <1>9, <1>10, <1>11, <1>12, <1>13
       DEF Next, FirebaseStep, MainQueueStep, UserStep

(* An answer always finds a delegate.                                      *)
THEOREM AnswersAlwaysFindADelegate == Spec => []AnswersFindADelegate
<1>1. Init => DelegateInv
    BY SessionAssumption DEF Init, DelegateInv, AnswersFindADelegate, AttemptUnderWay
<1>2. DelegateInv => AnswersFindADelegate
    BY DEF DelegateInv
<1> QED
    BY <1>1, <1>2, NextDelegateInv, SessionTypeCorrect, PTL DEF Spec

=============================================================================
