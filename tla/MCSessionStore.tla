---------------------------- MODULE MCSessionStore ----------------------------
(* Small instances of SessionStore for TLC. *)
EXTENDS SessionStore

TheApi == [t \in 1..5 |->
             CASE t = 1 -> [method |-> "PUT", uri |-> <<"shoes", 1>>]
               [] t = 2 -> [method |-> "POST", uri |-> <<"shoes">>]
               [] t = 3 -> [method |-> "GET", uri |-> <<"shoes", 1>>]
               [] t = 4 -> [method |-> "DELETE", uri |-> <<"shoes", 1>>]
               [] t = 5 -> [method |-> "PUT", uri |-> <<"shoes">>]]

\* A request the API refuses and others; bodies of no, one and two bytes, one with
\* a NUL; requests of exactly the size of the buffer among them.
SomeRequests == {[target |-> 1, body |-> <<Byte(7)>>],
                 [target |-> 1, body |-> <<Nul, Byte(9)>>],
                 [target |-> 2, body |-> <<Byte(8), Byte(9)>>],
                 [target |-> 3, body |-> <<>>],
                 [target |-> 4, body |-> <<>>], [target |-> 5, body |-> <<>>]}
=============================================================================
