------------------------------- MODULE Session -------------------------------
(***************************************************************************)
(* Signing in and out: LoginManager, AppDelegate, the LoginViewControllers *)
(* that ask for a sign-in, the settings that offer one or its end, and     *)
(* FirebaseAuth below them.                                                *)
(*                                                                         *)
(* FirebaseAuth changes its user on a queue of its own and posts, in this  *)
(* order, the change and the answer to whoever asked to the main queue.    *)
(* The answer goes to the one delegate of LoginManager, which is whoever   *)
(* asked for something last.                                               *)
(***************************************************************************)
EXTENDS Naturals, Sequences, FiniteSets

CONSTANTS
    Users,          \* The accounts.
    NoUser,         \* currentUser is nil.
    Tabs,           \* The tabs from which a LoginViewController is pushed.
    Settings,       \* The tab of the settings, one of them.
    Home,           \* The tab shown at launch, another one.
    Revocable,      \* The server may take the user's token back.
    MaxAttempts,    \* Bound: attempts to sign in or up, and notes of the main queue, under way.
    MaxSwitches     \* Bound: changes of the user.

ASSUME SessionAssumption ==
    /\ NoUser \notin Users
    /\ Home \in Tabs /\ Settings \in Tabs /\ Home # Settings
    /\ Tabs \cap {"popped", "settingsVC", "nobody"} = {}
    /\ Revocable \in BOOLEAN
    /\ MaxAttempts \in Nat /\ MaxSwitches \in Nat

(* Attempts Firebase works on, and those a sheet of Google or Apple is up  *)
(* for.  (`credential' is what such a sheet ends in.)                      *)
Requests == {"email", "signUp", "credential"}
Sheets == {"google", "apple"}

(* Who an answer of LoginManager can go to: the LoginViewController on the *)
(* stack of a tab, one that was popped but is still the                    *)
(* presentingViewController, the settings, or nobody.                      *)
Delegates == Tabs \cup {"popped", "settingsVC", "nobody"}

Alerts == {"none", "offer", "pop", "failed", "loggedOut"}

(* What FirebaseAuth posts: the change of the user, an answer.             *)
Messages == {"auth", "loginSuccess", "signUpSuccess", "fail"}

VARIABLES
    currentUser,    \* Auth.auth().currentUser, kept in the keychain.
    isLogin,        \* loginManager.isLogin.
    mainQueue,      \* The messages of FirebaseAuth on the main queue.
    attempts,       \* attempts[k]: the attempts of kind k under way.
    provider,       \* loginManager.accountProvider is "google"; kept in the user defaults.
    signInSilently, \* loginManager.signInSilently.
    delegate,       \* loginManager.delegate, a weak reference.
    presenting,     \* loginManager.presentingViewController, a strong one.
    tab,            \* The selected tab.
    login,          \* login[t]: a LoginViewController is on top of the stack of t.
    alert,          \* The alert that is shown.
    loginTitle,     \* What the last row of the settings offers.
    switches        \* Changes of the user so far.

userVars == <<currentUser, switches>>
managerVars == <<provider, signInSilently, delegate, presenting>>
screenVars == <<tab, login, alert, loginTitle>>
vars == <<currentUser, isLogin, mainQueue, attempts, provider, signInSilently,
          delegate, presenting, tab, login, alert, loginTitle, switches>>

TypeOK ==
    /\ currentUser \in Users \cup {NoUser}
    /\ isLogin \in BOOLEAN
    /\ mainQueue \in Seq(Messages)
    /\ attempts \in [Requests \cup Sheets -> Nat]
    /\ provider \in BOOLEAN /\ signInSilently \in BOOLEAN
    /\ delegate \in Delegates
    /\ presenting \in Tabs \cup {"popped", "nobody"}
    /\ tab \in Tabs
    /\ login \in [Tabs -> BOOLEAN]
    /\ alert \in Alerts
    /\ loginTitle \in {"in", "out"}
    /\ switches \in 0 .. MaxSwitches

-----------------------------------------------------------------------------
UnderWay == Len(mainQueue) + attempts["email"] + attempts["signUp"]
              + attempts["credential"] + attempts["google"] + attempts["apple"]

(* The changes of the user the app has not been told of.                   *)
AuthNotes == Cardinality({i \in DOMAIN mainQueue : mainQueue[i] = "auth"})

(* The sheet of Google or Apple covers everything.                         *)
SheetUp == \E k \in Sheets : attempts[k] > 0

(* The user can reach what the selected tab shows.                         *)
Free == alert = "none" /\ ~SheetUp

(* The settings themselves are on screen.                                  *)
SettingsShown == tab = Settings /\ ~login[Settings]

(* The delegate is told something it shows in an alert.  A view controller *)
(* that is not on screen, or presents something already, presents nothing; *)
(* the settings have nothing to say to an answer to a sign-in.             *)
TellDelegate(what) ==
    alert' = IF delegate = tab /\ login[tab] /\ Free THEN what ELSE alert

(***************************************************************************)
(* FirebaseAuth.                                                           *)
(***************************************************************************)

(* The user changes and the change is posted, and `answer' behind it.      *)
UpdateCurrentUser(u, answer) ==
    /\ switches < MaxSwitches
    /\ switches' = switches + 1
    /\ currentUser' = u
    /\ mainQueue' = mainQueue \o <<"auth">> \o answer

(* An attempt succeeds; whatever user there is is replaced.                *)
SignInSucceeds(k, u) ==
    /\ attempts[k] > 0
    /\ attempts' = [attempts EXCEPT ![k] = @ - 1]
    /\ UpdateCurrentUser(u, <<IF k = "signUp" THEN "signUpSuccess" ELSE "loginSuccess">>)
    /\ UNCHANGED <<isLogin, managerVars, screenVars>>

(* Fault: a failure may be answered twice.                                 *)
SignInFails_Twice(k) ==
    /\ attempts[k] > 0
    /\ \E n \in 1 .. 2 : attempts' = [attempts EXCEPT ![k] = @ - n]
    /\ mainQueue' = Append(mainQueue, "fail")
    /\ UNCHANGED <<userVars, isLogin, managerVars, screenVars>>

SignInFails(k) ==
    /\ attempts[k] > 0
    /\ attempts' = [attempts EXCEPT ![k] = @ - 1]
    /\ mainQueue' = Append(mainQueue, "fail")
    /\ UNCHANGED <<userVars, isLogin, managerVars, screenVars>>

(* The server refuses the token of a user who was disabled or deleted.     *)
Revoke ==
    /\ Revocable
    /\ currentUser # NoUser
    /\ UpdateCurrentUser(NoUser, <<>>)
    /\ UNCHANGED <<isLogin, attempts, managerVars, screenVars>>

-----------------------------------------------------------------------------
(***************************************************************************)
(* The main queue.                                                         *)
(***************************************************************************)

(* Fault: the flag is turned over.                                         *)
AuthStateDidChange_Toggle ==
    /\ mainQueue # <<>> /\ Head(mainQueue) = "auth"
    /\ mainQueue' = Tail(mainQueue)
    /\ isLogin' = (~isLogin /\ currentUser # NoUser)
    /\ UNCHANGED <<userVars, attempts, managerVars, screenVars>>

(* The listener of LoginManager, with the user of this moment.  (It is not *)
(* called when that is the user it was last called with: then the flag is  *)
(* what it was.)                                                           *)
AuthStateDidChange ==
    /\ mainQueue # <<>> /\ Head(mainQueue) = "auth"
    /\ mainQueue' = Tail(mainQueue)
    /\ isLogin' = (currentUser # NoUser)
    /\ UNCHANGED <<userVars, attempts, managerVars, screenVars>>

(* The completion of an attempt.                                           *)
TakeAnswer ==
    /\ mainQueue # <<>> /\ Head(mainQueue) # "auth"
    /\ mainQueue' = Tail(mainQueue)
    /\ TellDelegate(IF Head(mainQueue) = "fail" THEN "failed" ELSE "pop")
    /\ UNCHANGED <<userVars, isLogin, attempts, managerVars, tab, login, loginTitle>>

(* The sheet of Google closes: sign(_:didSignInFor:withError:) posts       *)
(* AuthLogin and receiveToggleAuthUINotification runs at once.             *)
GoogleSucceeds ==
    /\ attempts["google"] > 0
    /\ provider' = TRUE
    /\ signInSilently' = FALSE
    /\ attempts' = [attempts EXCEPT !["google"] = @ - 1,
                        !["credential"] = IF signInSilently THEN @ ELSE @ + 1]
    /\ UNCHANGED <<userVars, isLogin, mainQueue, delegate, presenting, screenVars>>

(* The user cancels, of which the delegate makes nothing, or it fails.     *)
GoogleFails ==
    /\ attempts["google"] > 0
    /\ provider' = FALSE
    /\ attempts' = [attempts EXCEPT !["google"] = @ - 1]
    /\ \E shown \in {"none", "failed"} :
          alert' = IF delegate = tab /\ login[tab] /\ alert = "none" THEN shown ELSE alert
    /\ UNCHANGED <<userVars, isLogin, mainQueue, signInSilently, delegate, presenting,
                   tab, login, loginTitle>>

(* The sheet of Apple closes, with a credential, or with an error or a     *)
(* token that cannot be read, of which nobody is told.                     *)
AppleCompletes ==
    /\ attempts["apple"] > 0
    /\ \E n \in {0, 1} : attempts' = [attempts EXCEPT !["apple"] = @ - 1,
                                                      !["credential"] = @ + n]
    /\ UNCHANGED <<userVars, isLogin, mainQueue, managerVars, screenVars>>

-----------------------------------------------------------------------------
(***************************************************************************)
(* The user of the app.                                                    *)
(***************************************************************************)

(* Fault: only sign-ins that show a sheet set the presentingViewController. *)
Click_Presenting(k) ==
    /\ Free /\ login[tab] /\ UnderWay < MaxAttempts
    /\ attempts' = [attempts EXCEPT ![k] = @ + 1]
    /\ delegate' = tab
    /\ presenting' = IF k \in Sheets THEN tab ELSE presenting
    /\ UNCHANGED <<userVars, isLogin, mainQueue, provider, signInSilently, screenVars>>

(* A button of the LoginViewController on screen.                          *)
Click(k) ==
    /\ Free /\ login[tab] /\ UnderWay < MaxAttempts
    /\ attempts' = [attempts EXCEPT ![k] = @ + 1]
    /\ delegate' = tab /\ presenting' = tab
    /\ UNCHANGED <<userVars, isLogin, mainQueue, provider, signInSilently, screenVars>>

(* The LoginViewController of tab t leaves its stack.  It lives on while   *)
(* it is the presentingViewController, and one that did so until now does  *)
(* not matter any more; otherwise the weak reference to it is cleared.     *)
PopLogin(t) ==
    /\ login' = [login EXCEPT ![t] = FALSE]
    /\ presenting' = IF presenting = t THEN "popped" ELSE presenting
    /\ delegate' = IF delegate # t THEN delegate
                   ELSE IF presenting = t THEN "popped" ELSE "nobody"

(* viewWillAppear of the settings, when `now' says they come on screen.    *)
ViewWillAppear(now) ==
    loginTitle' = IF ~now THEN loginTitle ELSE IF isLogin THEN "out" ELSE "in"

Back ==
    /\ Free /\ login[tab]
    /\ PopLogin(tab)
    /\ ViewWillAppear(tab = Settings)
    /\ UNCHANGED <<userVars, isLogin, mainQueue, attempts, provider, signInSilently,
                   tab, alert>>

SelectTab(t) ==
    /\ Free /\ t # tab
    /\ tab' = t
    /\ ViewWillAppear(t = Settings /\ ~login[t])
    /\ UNCHANGED <<userVars, isLogin, mainQueue, attempts, managerVars, login, alert>>

(* Something that needs a login is touched: an alert offers one.           *)
Offer ==
    /\ Free /\ ~login[tab] /\ ~isLogin
    /\ alert' = "offer"
    /\ UNCHANGED <<userVars, isLogin, mainQueue, attempts, managerVars, tab, login,
                   loginTitle>>

(* The last row of the settings, whatever it reads, while nobody is logged *)
(* in.                                                                     *)
LoginRow ==
    /\ Free /\ SettingsShown /\ ~isLogin
    /\ login' = [login EXCEPT ![Settings] = TRUE]
    /\ UNCHANGED <<userVars, isLogin, mainQueue, attempts, managerVars, tab, alert,
                   loginTitle>>

(* The same row while somebody is: forceLogout.  When there is no user any *)
(* more that succeeds too.  An error leaves the user in place, but the     *)
(* provider is forgotten.                                                  *)
LogoutRow ==
    /\ Free /\ SettingsShown /\ isLogin
    /\ delegate' = "settingsVC"
    /\ provider' = FALSE
    /\ \/ /\ IF currentUser = NoUser THEN UNCHANGED <<userVars, mainQueue>>
                                     ELSE UpdateCurrentUser(NoUser, <<>>)
          /\ alert' = "loggedOut"
       \/ UNCHANGED <<userVars, mainQueue, alert>>
    /\ UNCHANGED <<isLogin, attempts, signInSilently, presenting, tab, login, loginTitle>>

(* Fault: after a logout the row is left to viewWillAppear.                *)
DismissAlert_Row ==
    /\ alert # "none" /\ ~SheetUp
    /\ alert = "loggedOut" => AuthNotes = 0
    /\ alert' = "none"
    /\ IF alert = "pop" THEN PopLogin(tab)
       ELSE /\ login' = [login EXCEPT ![tab] = @ \/ alert = "offer"]
            /\ UNCHANGED <<delegate, presenting>>
    /\ ViewWillAppear(alert = "pop" /\ tab = Settings)
    /\ UNCHANGED <<userVars, isLogin, mainQueue, attempts, provider, signInSilently, tab>>

(* The button of the alert: a LoginViewController is pushed or popped, or  *)
(* the row of the settings relabelled.  By the time the alert after a      *)
(* logout is on screen the main queue has run what the logout posted.      *)
DismissAlert ==
    /\ alert # "none" /\ ~SheetUp
    /\ alert = "loggedOut" => AuthNotes = 0
    /\ alert' = "none"
    /\ IF alert = "pop" THEN PopLogin(tab)
       ELSE /\ login' = [login EXCEPT ![tab] = @ \/ alert = "offer"]
            /\ UNCHANGED <<delegate, presenting>>
    /\ IF alert = "loggedOut" THEN loginTitle' = "in"
                              ELSE ViewWillAppear(alert = "pop" /\ tab = Settings)
    /\ UNCHANGED <<userVars, isLogin, mainQueue, attempts, provider, signInSilently, tab>>

-----------------------------------------------------------------------------
(* setupGoogleSignIn: a restored session is not to be signed in again.     *)
(* isLogin is still what it is initialised to.                             *)
SetupGoogleSignIn == signInSilently' = (isLogin' /\ provider)

(* Fault: the listener is only called for a change.                        *)
Relaunch_Deaf ==
    /\ isLogin' = FALSE
    /\ SetupGoogleSignIn
    /\ mainQueue' = <<>>
    /\ attempts' = [k \in Requests \cup Sheets |-> 0]
    /\ delegate' = "nobody" /\ presenting' = "nobody"
    /\ tab' = Home
    /\ login' = [t \in Tabs |-> FALSE]
    /\ alert' = "none"
    /\ loginTitle' = "in"
    /\ UNCHANGED <<userVars, provider>>

(* The process dies and the app is started again.                          *)
Relaunch ==
    /\ isLogin' = FALSE
    /\ SetupGoogleSignIn
    /\ mainQueue' = <<"auth">>
    /\ attempts' = [k \in Requests \cup Sheets |-> 0]
    /\ delegate' = "nobody" /\ presenting' = "nobody"
    /\ tab' = Home
    /\ login' = [t \in Tabs |-> FALSE]
    /\ alert' = "none"
    /\ loginTitle' = "in"
    /\ UNCHANGED <<userVars, provider>>

Init ==
    /\ currentUser = NoUser /\ isLogin = FALSE
    /\ mainQueue = <<"auth">>
    /\ attempts = [k \in Requests \cup Sheets |-> 0]
    /\ provider = FALSE /\ signInSilently = FALSE
    /\ delegate = "nobody" /\ presenting = "nobody"
    /\ tab = Home /\ login = [t \in Tabs |-> FALSE]
    /\ alert = "none" /\ loginTitle = "in"
    /\ switches = 0

FirebaseStep ==
    \/ \E k \in Requests : SignInFails(k) \/ \E u \in Users : SignInSucceeds(k, u)
    \/ Revoke

MainQueueStep == AuthStateDidChange \/ TakeAnswer

UserStep ==
    \/ \E k \in {"email", "signUp"} \cup Sheets : Click(k)
    \/ GoogleSucceeds \/ GoogleFails \/ AppleCompletes
    \/ Back \/ Offer \/ LoginRow \/ LogoutRow \/ DismissAlert
    \/ \E t \in Tabs : SelectTab(t)

Next == FirebaseStep \/ MainQueueStep \/ UserStep \/ Relaunch

Spec == Init /\ [][Next]_vars

(* The main queue runs what was posted to it.                              *)
FairSpec == Spec /\ WF_vars(MainQueueStep)

-----------------------------------------------------------------------------
(***************************************************************************)
(* Properties.                                                             *)
(***************************************************************************)

(* isLogin follows the user as AuthState says.                             *)
Auth == INSTANCE AuthState WITH user <- currentUser, flag <- isLogin, notes <- AuthNotes

RefinesAuthState == Auth!AuthSpec

(* The settings never offer to log out somebody who is not logged in, once *)
(* the alert that follows a logout is gone.  Nothing but forceLogout ends  *)
(* a login here, so the row needs no other update; a user whose token is   *)
(* taken back is another matter.  (The row does offer a login to a user    *)
(* who is logged in, and logs that user out, when a sign-in is answered    *)
(* late.)                                                                  *)
RowNeverOffersLogoutInVain ==
    SettingsShown /\ loginTitle = "out" /\ alert # "loggedOut" => isLogin

(* The answer to an attempt finds somebody to tell: the weak delegate is   *)
(* held by a stack or by presentingViewController for as long as an        *)
(* attempt or its answer is under way, though the screen that asked may be *)
(* long gone.                                                              *)
AttemptUnderWay ==
    \/ \E k \in DOMAIN attempts : attempts[k] > 0
    \/ \E i \in DOMAIN mainQueue : mainQueue[i] # "auth"

AnswersFindADelegate == AttemptUnderWay => delegate # "nobody"

(* A change of the user is noticed.                                        *)
UserIsNoticed == currentUser # NoUser ~> isLogin \/ currentUser = NoUser
=============================================================================
