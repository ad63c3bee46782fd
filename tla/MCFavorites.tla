----------------------------- MODULE MCFavorites -----------------------------
(***************************************************************************)
(* Instances of Favorites for TLC.                                         *)
(***************************************************************************)
EXTENDS Favorites

CONSTANTS d1, d2, u1, u2

ASSUME DeviceAssumption == d1 \in Devices

(* Each device belongs to one account, or the second is used by either, or  *)
(* both are.                                                               *)
OwnAccounts == [d \in Devices |-> IF d = d1 THEN {u1} ELSE {u2}]
MixedAccounts == [d \in Devices |-> IF d = d1 THEN {u1} ELSE Users]
AllAccounts == [d \in Devices |-> Users]

(* isLogin of device d1, by which a tap is let through, follows the user   *)
(* as AuthState says.                                                      *)
Auth == INSTANCE AuthState WITH
    user  <- currentUser[d1],
    flag  <- isLogin[d1],
    notes <- Cardinality({i \in DOMAIN mainQueue[d1] : mainQueue[d1][i].type = "auth"})

RefinesAuthState == Auth!AuthSpec
=============================================================================
