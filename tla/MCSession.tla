------------------------------ MODULE MCSession ------------------------------
(***************************************************************************)
(* Session for TLC: two tabs and two accounts.                             *)
(***************************************************************************)
EXTENDS Session
=============================================================================
