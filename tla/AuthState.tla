------------------------------ MODULE AuthState ------------------------------
(***************************************************************************)
(* What loginManager.isLogin promises, with screens, requests and stores   *)
(* left out: the user may change at any time, every change is announced    *)
(* later, and the flag is set from the user of the moment at which an      *)
(* announcement is taken up.                                               *)
(***************************************************************************)
EXTENDS Naturals

CONSTANTS
    Users,      \* The accounts.
    NoUser      \* Nobody is signed in.

VARIABLES
    user,       \* The user.
    flag,       \* The app takes somebody to be signed in.
    notes       \* The announcements not taken up yet.

authVars == <<user, flag, notes>>

AuthInit ==
    /\ user \in Users \cup {NoUser}
    /\ flag = FALSE
    /\ notes \in IF user = NoUser THEN {0, 1} ELSE {1}

(* Somebody signs in, over another user or not, or the user signs out.     *)
Change ==
    /\ user' \in Users \cup {NoUser}
    /\ notes' = notes + 1
    /\ UNCHANGED flag

TakeUp ==
    /\ notes > 0
    /\ notes' = notes - 1
    /\ flag' = (user # NoUser)
    /\ UNCHANGED user

(* The process starts again: it has announced the user it found, and knows *)
(* nothing of it yet.                                                      *)
Restart ==
    /\ flag' = FALSE
    /\ notes' = 1
    /\ UNCHANGED user

AuthNext == Change \/ TakeUp \/ Restart

AuthSpec == AuthInit /\ [][AuthNext]_authVars

(* Once every change has been taken up, the flag tells whether there is a  *)
(* user.                                                                   *)
FlagSettles == notes = 0 => (flag <=> user # NoUser)
=============================================================================
