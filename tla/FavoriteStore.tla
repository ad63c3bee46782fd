---------------------------- MODULE FavoriteStore ----------------------------
(***************************************************************************)
(* What the collection "FavoriteCafes" promises its users, with documents, *)
(* caches, reads and replies left out: every writer keeps a queue of       *)
(* requests, each for the user who is signed in and the opposite of what   *)
(* that user last wanted, and the store performs them in the order they    *)
(* were made and at least once, each changing that user's favourite of one *)
(* cafe and nothing else.                                                  *)
(***************************************************************************)
EXTENDS Naturals, Sequences

CONSTANTS
    Users,      \* The accounts.
    Cafes,      \* The cafes, one document each.
    Writers,    \* Those who make requests, each with a queue of them.
    NoUser      \* Nobody is signed in.

VARIABLES
    fav,        \* fav[u] is the set of the cafes u has collected.
    user,       \* user[w]: who is signed in at writer w, or NoUser.
    requests,   \* requests[w]: what w asked for that is not confirmed, oldest first.
    performed   \* performed[w]: how many of them were performed since w last sent them.

storeVars == <<fav, user, requests, performed>>

StoreInit ==
    /\ fav = [u \in Users |-> {}]
    /\ user = [w \in Writers |-> NoUser]
    /\ requests = [w \in Writers |-> <<>>]
    /\ performed = [w \in Writers |-> 0]

(* A user comes to a writer that has nothing left to confirm.              *)
Enter(w, u) ==
    /\ requests[w] = <<>>
    /\ user' = [user EXCEPT ![w] = u]
    /\ UNCHANGED <<fav, requests, performed>>

(* Whether the user of w wants c: by the last request for c, or else by    *)
(* the store.                                                              *)
Wanted(w, c) ==
    LET about == {i \in DOMAIN requests[w] : requests[w][i].cafe = c}
    IN  IF about = {} THEN c \in fav[user[w]]
        ELSE \E i \in about :
                 (\A j \in about : j <= i) /\ requests[w][i].op = "collect"

(* Writer w asks for the opposite of what its user wanted of c.            *)
Ask(w, c) ==
    /\ user[w] # NoUser
    /\ requests' = [requests EXCEPT ![w] = Append(@,
           [op |-> IF Wanted(w, c) THEN "uncollect" ELSE "collect",
            uid |-> user[w], cafe |-> c])]
    /\ UNCHANGED <<fav, user, performed>>

(* The next request of w is performed.                                     *)
Perform(w) ==
    /\ performed[w] < Len(requests[w])
    /\ LET r == requests[w][performed[w] + 1] IN
       fav' = [fav EXCEPT ![r.uid] = IF r.op = "collect" THEN @ \cup {r.cafe}
                                                         ELSE @ \ {r.cafe}]
    /\ performed' = [performed EXCEPT ![w] = @ + 1]
    /\ UNCHANGED <<user, requests>>

(* Writer w learns that its oldest request was performed.                  *)
Confirm(w) ==
    /\ performed[w] > 0
    /\ requests' = [requests EXCEPT ![w] = Tail(@)]
    /\ performed' = [performed EXCEPT ![w] = @ - 1]
    /\ UNCHANGED <<fav, user>>

(* Writer w sends all it has not seen confirmed once more.                 *)
Resend(w) ==
    /\ performed' = [performed EXCEPT ![w] = 0]
    /\ UNCHANGED <<fav, user, requests>>

StoreNext == \E w \in Writers :
    \/ \E u \in Users : Enter(w, u)
    \/ \E c \in Cafes : Ask(w, c)
    \/ Perform(w) \/ Confirm(w) \/ Resend(w)

StoreSpec == StoreInit /\ [][StoreNext]_storeVars
=============================================================================
