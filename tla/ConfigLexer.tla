----------------------------- MODULE ConfigLexer -----------------------------
(***************************************************************************)
(* NginxConfigParser::ParseToken (config_parser.cc): how the characters of *)
(* a configuration become the tokens that Startup parses, one character a  *)
(* step.  As in config_parser_main.cc a configuration that parses is       *)
(* written back with ToString; here the text is then read once more.       *)
(***************************************************************************)
EXTENDS Integers, Sequences, SequencesExt, Sieve

CONSTANT Texts    \* the files, sequences of characters

\* One letter stands for every character without a meaning, the space for tab too.
Blanks     == {" ", "\n", "\r"}
Separators == {"{", "}", ";"}
Quotes     == {"'", "\""}
Chars      == Blanks \cup Separators \cup Quotes \cup {"#", "\\", "a"}

\* A carriage return is a blank before a word, and no end of one.
WordEnds == Separators \cup {" ", "\n"}

ASSUME TextsAssumption == Texts \subseteq Seq(Chars)

VARIABLES
  text,    \* the file
  read,    \* how many of its characters have been read
  state,   \* the TokenParserState, or how the reading ended
  value,   \* the token so far
  tokens,  \* the tokens returned: records [kind, value]
  first,   \* the tokens of the file, once it is being read back
  back,    \* the text is what ToString wrote
  lossy,   \* history: a quote or a backslash has been escaped
  begun,   \* history: where the token so far begins, 0 without one
  spans    \* history: where each token returned begins and ends

vars == <<text, read, state, value, tokens, first, back, lossy, begun, spans>>

\* The quote states are one: the quote is the first character of the token.
States == {"whitespace", "quote", "escape", "comment", "normal"}
Ends   == {"eof", "error"}
Kinds  == {"normal", "end", "start block", "end block", "comment"}

\* A token is never empty; a word in quotes begins with one, any other word
\* begins with nothing that would have made it something else.
TypeOK ==
  /\ text \in Seq(Chars) /\ read \in 0..Len(text)
  /\ state \in States \cup Ends
  /\ value \in Seq(Chars)
  /\ state \in {"quote", "escape"} => value # <<>> /\ value[1] \in Quotes
  /\ state = "whitespace" => value = <<>>
  /\ \A i \in DOMAIN tokens :
       LET t == tokens[i]
       IN /\ t.kind \in Kinds /\ t.value \in Seq(Chars) /\ t.value # <<>>
          /\ t.kind = "normal" =>
               IF t.value[1] \in Quotes THEN Len(t.value) > 1 /\ Last(t.value) = t.value[1]
               ELSE \A n \in DOMAIN t.value : t.value[n] \notin WordEnds
  /\ back \in BOOLEAN /\ lossy \in BOOLEAN

Init ==
  /\ text \in Texts /\ read = 0
  /\ state = "whitespace" /\ value = <<>>
  /\ tokens = <<>> /\ first = <<>>
  /\ back = FALSE /\ lossy = FALSE
  /\ begun = 0 /\ spans = <<>>

-----------------------------------------------------------------------------
(* ParseToken *)

Char == text[read + 1]

\* input->get() in a state brings a character of a set.
Get(here, set) ==
  /\ state = here /\ read < Len(text) /\ Char \in set
  /\ read' = read + 1
  /\ UNCHANGED <<text, first, back>>

\* The call returns a token, the next begins with blanks.
Return(kind, word) ==
  /\ tokens' = Append(tokens, [kind |-> kind, value |-> word])
  /\ state' = "whitespace" /\ value' = <<>>
  /\ UNCHANGED lossy

Grow(next) ==
  /\ value' = Append(value, Char) /\ state' = next
  /\ UNCHANGED tokens

\* History: a token begins with this character, or goes on; one has been
\* returned that lies from one character to another.
Begins   == begun' = read + 1 /\ UNCHANGED spans
GoesOn   == UNCHANGED <<begun, spans>>
Lay(b, e) == begun' = 0 /\ spans' = Append(spans, [first |-> b, last |-> e])

KindOf(c) == CASE c = ";" -> "end" [] c = "{" -> "start block" [] c = "}" -> "end block"

SkipBlank ==
  /\ Get("whitespace", Blanks)
  /\ UNCHANGED <<state, value, tokens, lossy>> /\ GoesOn

Separator ==
  /\ Get("whitespace", Separators)
  /\ Return(KindOf(Char), <<Char>>) /\ Lay(read + 1, read + 1)

Begin ==
  /\ Get("whitespace", Chars \ (Blanks \cup Separators))
  /\ Grow(IF Char \in Quotes THEN "quote"
          ELSE IF Char = "#" THEN "comment" ELSE "normal")
  /\ UNCHANGED lossy /\ Begins

ReadQuoted ==
  /\ Get("quote", Chars \ {value[1], "\\"})
  /\ Grow("quote") /\ UNCHANGED lossy /\ GoesOn

\* The backslash goes, ...
Escape ==
  /\ Get("quote", {"\\"})
  /\ state' = "escape"
  /\ UNCHANGED <<value, tokens, lossy>> /\ GoesOn

\* ... and what follows it stays, whatever it is.
ReadEscaped ==
  /\ Get("escape", Chars)
  /\ Grow("quote")
  /\ lossy' = (lossy \/ Char \in {value[1], "\\"}) /\ GoesOn

\* Mutant: the closing quote is not part of the token.
CloseDropsQuote ==
  /\ Get("quote", {value[1]})
  /\ IF read' < Len(text) /\ text[read' + 1] \in WordEnds
     THEN Return("normal", value) /\ Lay(begun, read + 1)
     ELSE Grow("error") /\ UNCHANGED lossy /\ GoesOn

\* After the closing quote the word must end; nothing ends it at end of file.
CloseQuote ==
  /\ Get("quote", {value[1]})
  /\ IF read' < Len(text) /\ text[read' + 1] \in WordEnds
     THEN Return("normal", Append(value, Char)) /\ Lay(begun, read + 1)
     ELSE Grow("error") /\ UNCHANGED lossy /\ GoesOn

ReadComment ==
  /\ Get("comment", Chars \ {"\n", "\r"})
  /\ Grow("comment") /\ UNCHANGED lossy /\ GoesOn

EndComment ==
  /\ Get("comment", {"\n", "\r"})
  /\ Return("comment", value) /\ Lay(begun, read)

ReadWord ==
  /\ Get("normal", Chars \ WordEnds)
  /\ Grow("normal") /\ UNCHANGED lossy /\ GoesOn

\* Mutant: the character that ends a word is not put back.
EndWordSwallows ==
  /\ Get("normal", WordEnds)
  /\ Return("normal", value) /\ Lay(begun, read)

\* input->unget()
EndWord ==
  /\ state = "normal" /\ read < Len(text) /\ Char \in WordEnds
  /\ Return("normal", value) /\ Lay(begun, read)
  /\ UNCHANGED <<text, read, first, back>>

\* The file ends: an error within quotes; a word, a comment or an escape that
\* has begun is lost.
EndOfFile ==
  /\ state \in States /\ read = Len(text)
  /\ state' = IF state = "quote" THEN "error" ELSE "eof"
  /\ UNCHANGED <<text, read, value, tokens, first, back, lossy>> /\ GoesOn

-----------------------------------------------------------------------------
(* config_parser_main: Parse, then print the configuration. *)

Comments == [kind : {"comment"}, value : Seq(Chars)]

\* The tokens Parse accepts, as Startup has it, in blocks that match.
Parses(ts) ==
  LET before(i) == IF i = 1 THEN "start" ELSE ts[i - 1].kind
      depth(i) == Len(SelectSeq(SubSeq(ts, 1, i), LAMBDA t : t.kind = "start block"))
                    - Len(SelectSeq(SubSeq(ts, 1, i), LAMBDA t : t.kind = "end block"))
  IN /\ \A i \in DOMAIN ts :
          /\ ts[i].kind \in {"end", "start block"} => before(i) = "normal"
          /\ ts[i].kind = "end block" =>
               before(i) \in {"start block", "end block", "end"}
          /\ depth(i) >= 0
     /\ before(Len(ts) + 1) \in {"start", "end", "end block"}
     /\ depth(Len(ts)) = 0

\* Mutant: the words of a statement are not set apart.
PrintedTight(ts) ==
  FlattenSeq([i \in DOMAIN ts |->
    ts[i].value \o IF ts[i].kind = "normal" THEN <<>> ELSE <<"\n">>])

\* A space between words and before a block, a line for a statement or a
\* brace; the blanks at the beginning of a line are left out.
Gap(ts, i) ==
  IF ts[i].kind # "normal" THEN <<"\n">>
  ELSE IF ts[i + 1].kind = "end" THEN <<>> ELSE <<" ">>

Printed(ts) == FlattenSeq([i \in DOMAIN ts |-> ts[i].value \o Gap(ts, i)])

PrintConfig ==
  LET ts == Leaving(tokens, Comments)
  IN /\ state = "eof" /\ ~back /\ Parses(ts)
     /\ text' = Printed(ts) /\ first' = ts /\ back' = TRUE
     /\ read' = 0 /\ state' = "whitespace" /\ value' = <<>> /\ tokens' = <<>>
     /\ begun' = 0 /\ spans' = <<>> /\ UNCHANGED lossy

Stop ==
  /\ \/ state = "error"
     \/ state = "eof" /\ (back \/ ~Parses(Leaving(tokens, Comments)))
  /\ UNCHANGED vars

Next ==
  \/ SkipBlank \/ Separator \/ Begin
  \/ ReadQuoted \/ Escape \/ ReadEscaped \/ CloseQuote
  \/ ReadComment \/ EndComment \/ ReadWord \/ EndWord
  \/ EndOfFile \/ PrintConfig \/ Stop

Spec == Init /\ [][Next]_vars

-----------------------------------------------------------------------------
(* What the code keeps true. *)

\* A text in quotes without the backslashes of its escapes, of which the last may
\* have nothing behind it yet.
Scan(s, c) ==
  IF c = "\\" /\ ~s.escape THEN [s EXCEPT !.escape = TRUE]
  ELSE [out |-> Append(s.out, c), escape |-> FALSE]

Scanned(word) == FoldLeft(Scan, [out |-> <<>>, escape |-> FALSE], word)

Unescaped(word) == IF word[1] \in Quotes THEN Scanned(word).out ELSE word

\* Nothing in the text ends the token it begins with.
Unended(word) ==
  IF word[1] \in Quotes THEN Scanned(word).escape
  ELSE LET ends == IF word[1] = "#" THEN {"\n", "\r"} ELSE WordEnds
       IN \A n \in DOMAIN word : word[n] \notin ends

OnlyBlanks(before, next) == \A n \in before + 1..next - 1 : text[n] \in Blanks

\* The word of a token is what lies there, and only blanks lie before it.
Lies(before, span, word) ==
  /\ before < span.first /\ span.first <= span.last
  /\ OnlyBlanks(before, span.first)
  /\ word = Unescaped(SubSeq(text, span.first, span.last))

EndOf(i)  == IF i = 0 THEN 0 ELSE spans[i].last
SoFar     == SubSeq(text, begun, read)
Undecided == IF begun = 0 THEN read + 1 ELSE begun

\* The text read is its tokens, one behind the other and each letter for letter
\* but for the backslashes of its escapes, the one that is being read, and
\* nothing else but blanks between them: whatever the states and the characters
\* put back, none is dropped or read twice. Only the token that nothing ends
\* before the end of the file is lost, or the word in quotes that is an error.
NothingLost ==
  /\ Len(spans) = Len(tokens)
  /\ \A i \in DOMAIN tokens : Lies(EndOf(i - 1), spans[i], tokens[i].value)
  /\ EndOf(Len(spans)) < Undecided /\ OnlyBlanks(EndOf(Len(spans)), Undecided)
  /\ value = IF begun = 0 THEN <<>> ELSE Unescaped(SoFar)
  /\ state = "eof" => read = Len(text) /\ (begun # 0 => Unended(SoFar))
  /\ state = "error" => begun # 0 /\ text[begun] \in Quotes

\* What ToString writes of a file that parses is the same configuration, token
\* by token, unless a quote or a backslash was escaped in the file.
ReadBack ==
  back /\ ~lossy => state # "error" /\ (state = "eof" => tokens = first)
=============================================================================
