------------------------------ MODULE MCFrontend ------------------------------
(* Small instances of Frontend for TLC. *)
EXTENDS Frontend

\* Nothing, a blank, a word, one with blanks around it, and a text the server refuses.
SomeBodies == {<<>>, <<" ">>, <<"a">>, <<" ", "a", "\n">>, <<"/">>}
SomeTexts  == {<<"a">>, <<"/">>}
=============================================================================
