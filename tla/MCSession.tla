------------------------------ MODULE MCSession ------------------------------
(* Small instances of Session for TLC. *)
EXTENDS Session

OnePost == {[target |-> 2, body |-> <<Byte(7)>>]}
=============================================================================
