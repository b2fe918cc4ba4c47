---------------------------- MODULE MCConfigLexer ----------------------------
(* Small instances of ConfigLexer for TLC. *)
EXTENDS ConfigLexer

\* Every text of up to four characters; of up to six with a quote in
\* it; a statement whose words are any two of a few, and a block.
Short == BoundedSeq(Chars, 4)
Quoted == {<<"\"">> \o q : q \in BoundedSeq({"\"", "'", "\\", " ", ";"}, 5)}

Words == {<<"a">>, <<"a", "#">>, <<"a", "\r">>, <<"\"", ";", "\"">>, <<"'", "\"", "'">>,
          <<"'", "\\", "a", "'">>, <<"\"", "\\", "\"", "\"">>}
Whole == {v \o <<" ">> \o w \o <<";">> : v, w \in Words}
           \cup {v \o <<"{", "\n">> \o w \o <<";", "#", "'", "\n", "}">> : v, w \in Words}

AllTexts == Short \cup Quoted \cup Whole
=============================================================================
