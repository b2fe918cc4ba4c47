--------------------------- MODULE ConfigLexerProofs ---------------------------
(***************************************************************************)
(* Proofs about ConfigLexer, for files of any characters and any length.   *)
(***************************************************************************)
EXTENDS ConfigLexer, Recursion

-----------------------------------------------------------------------------
(* Characters and tokens. *)

\* The classes a character can be in.
LEMMA Classes ==
  /\ Blanks \subseteq Chars /\ Separators \subseteq Chars /\ Quotes \subseteq Chars
  /\ WordEnds \subseteq Chars /\ "#" \in Chars /\ "\\" \in Chars
  /\ {"\n", "\r"} \subseteq Blanks /\ Separators \subseteq WordEnds
  /\ WordEnds \subseteq Blanks \cup Separators
  /\ \A c \in Blanks : c \notin Separators /\ c \notin Quotes /\ c # "#" /\ c # "\\"
  /\ \A c \in Separators : c \notin Quotes /\ c # "#" /\ c # "\\"
  /\ \A c \in Quotes : c # "#" /\ c # "\\"
  /\ " " \in WordEnds /\ " " \in Blanks /\ "\n" \in Blanks /\ ";" \in Separators
BY DEF Blanks, Separators, Quotes, WordEnds, Chars

LEMMA KindsOf ==
  ASSUME NEW c \in Separators
  PROVE  KindOf(c) \in Kinds \ {"normal", "comment"} /\ (KindOf(c) = "end" <=> c = ";")
BY DEF Separators, KindOf, Kinds

LEMMA StateNames ==
  /\ States \cap Ends = {}
  /\ {"normal", "comment"} \subseteq Kinds
  /\ {"whitespace", "quote", "escape", "comment", "normal"} \subseteq States
  /\ {"eof", "error"} \subseteq Ends
BY DEF States, Ends, Kinds

\* A word without quotes, and one with them; without an escape the quote and
\* the backslash are not within the quotes.
Plain(v) ==
  /\ v[1] \notin Blanks \cup Separators \cup Quotes \cup {"#"}
  /\ \A n \in 1..Len(v) : v[n] \notin WordEnds

Inside(v, n) == v[n] # v[1] /\ v[n] # "\\"

InQuotes(v, clean) ==
  /\ Len(v) > 1 /\ v[1] \in Quotes /\ v[Len(v)] = v[1]
  /\ clean => \A n \in 2..Len(v) - 1 : Inside(v, n)

Tokens == [kind : Kinds, value : Seq(Chars)]

IsToken(t, clean) ==
  /\ t \in Tokens /\ t.value # <<>>
  /\ t.kind = "normal" => Plain(t.value) \/ InQuotes(t.value, clean)
  /\ t.kind \notin {"normal", "comment"} =>
       \E c \in Separators : t.value = <<c>> /\ t.kind = KindOf(c)

AreTokens(ts, clean) == ts \in Seq(Tokens) /\ \A i \in 1..Len(ts) : IsToken(ts[i], clean)

LEMMA TokensAppend ==
  ASSUME NEW ts, NEW t, NEW clean, AreTokens(ts, clean), IsToken(t, clean)
  PROVE  AreTokens(Append(ts, t), clean)
<1>1. ts \in Seq(Tokens) /\ t \in Tokens
  BY DEF AreTokens, IsToken
<1>2. /\ Append(ts, t) \in Seq(Tokens) /\ Len(Append(ts, t)) = Len(ts) + 1 /\ Len(ts) \in Nat
      /\ Append(ts, t)[Len(ts) + 1] = t /\ \A i \in 1..Len(ts) : Append(ts, t)[i] = ts[i]
  BY <1>1, AppendProperties, LenProperties
<1>3. ASSUME NEW i \in 1..Len(ts) + 1 PROVE IsToken(Append(ts, t)[i], clean)
  BY <1>2 DEF AreTokens
<1>4. QED
  BY <1>2, <1>3 DEF AreTokens

LEMMA TokensLeft ==
  ASSUME NEW ts, NEW clean, AreTokens(ts, clean), NEW more, more => clean
  PROVE  AreTokens(ts, more)
BY DEF AreTokens, IsToken, InQuotes

-----------------------------------------------------------------------------
(* Types. *)

\* The word that is being read.
Word ==
  /\ value \in Seq(Chars)
  /\ state = "whitespace" => value = <<>>
  /\ state \in {"quote", "escape"} =>
       /\ value # <<>> /\ value[1] \in Quotes
       /\ ~lossy => \A n \in 2..Len(value) : Inside(value, n)
  /\ state = "normal" => value # <<>> /\ Plain(value)
  /\ state = "comment" => value # <<>>

Reading ==
  /\ text \in Seq(Chars) /\ read \in 0..Len(text)
  /\ state \in States \cup Ends
  /\ back \in BOOLEAN /\ lossy \in BOOLEAN

LexInv == Reading /\ Word /\ AreTokens(tokens, ~lossy)

LEMMA LexTypes == LexInv => TypeOK
<1> SUFFICES ASSUME LexInv PROVE TypeOK
  OBVIOUS
<1>1. Reading /\ Word /\ AreTokens(tokens, ~lossy)
  BY DEF LexInv
<1>2. DOMAIN tokens = 1..Len(tokens)
  BY <1>1, LenProperties DEF AreTokens
<1>3. ASSUME NEW i \in DOMAIN tokens
      PROVE  LET t == tokens[i]
             IN /\ t.kind \in Kinds /\ t.value \in Seq(Chars) /\ t.value # <<>>
                /\ t.kind = "normal" =>
                     IF t.value[1] \in Quotes THEN Len(t.value) > 1 /\ Last(t.value) = t.value[1]
                     ELSE \A n \in DOMAIN t.value : t.value[n] \notin WordEnds
  <2> DEFINE t == tokens[i]
             v == t.value
  <2>1. IsToken(t, ~lossy)
    BY <1>1, <1>2 DEF AreTokens
  <2>2. t.kind \in Kinds /\ v \in Seq(Chars) /\ v # <<>> /\ DOMAIN v = 1..Len(v)
    BY <2>1, LenProperties DEF IsToken, Tokens
  <2>3. t.kind = "normal" => Plain(v) \/ InQuotes(v, ~lossy)
    BY <2>1 DEF IsToken
  <2> HIDE DEF t
  <2>4. ASSUME t.kind = "normal"
        PROVE  IF v[1] \in Quotes THEN Len(v) > 1 /\ Last(v) = v[1]
               ELSE \A n \in DOMAIN v : v[n] \notin WordEnds
    BY <2>2, <2>3, <2>4 DEF Plain, InQuotes, Last
  <2>5. QED
    BY <2>2, <2>4 DEF t
<1>4. QED
  BY <1>1, <1>3 DEF Reading, Word, TypeOK

LEMMA LexInit == Init => LexInv
<1> SUFFICES ASSUME Init PROVE LexInv
  OBVIOUS
<1>1. /\ text \in Seq(Chars) /\ read = 0 /\ state = "whitespace" /\ value = <<>>
      /\ tokens = <<>> /\ back = FALSE /\ lossy = FALSE
  BY TextsAssumption DEF Init
<1>2. Reading
  <2>1. Len(text) \in Nat /\ "whitespace" \in States
    BY <1>1, LenProperties, StateNames
  <2>2. 0 \in 0..Len(text)
    BY <2>1
  <2>3. QED
    BY <1>1, <2>1, <2>2 DEF Reading
<1>3. Word
  BY <1>1 DEF Word
<1>4. AreTokens(tokens, ~lossy)
  BY <1>1 DEF AreTokens
<1>5. QED
  BY <1>2, <1>3, <1>4 DEF LexInv

\* A character is taken: the state and the word go their way, the rest is this.
LEMMA Taken ==
  ASSUME Reading, NEW here, NEW set, Get(here, set), state' \in States \cup Ends,
         lossy' \in BOOLEAN
  PROVE  Reading' /\ Char \in Chars /\ Char \in set /\ state = here
<1>1. read \in Nat /\ Len(text) \in Nat /\ read < Len(text) /\ read' = read + 1
  BY LenProperties DEF Reading, Get
<1>2. read + 1 \in 1..Len(text) /\ read + 1 \in 0..Len(text)
  BY <1>1
<1>3. text[read + 1] \in Chars
  BY <1>2, ElementOfSeq DEF Reading
<1>4. QED
  BY <1>1, <1>2, <1>3 DEF Reading, Get, Char

\* A token is returned: the next one begins with nothing.
LEMMA Returned ==
  ASSUME LexInv, NEW kind, NEW word, Return(kind, word),
         IsToken([kind |-> kind, value |-> word], ~lossy)
  PROVE  Word' /\ AreTokens(tokens, ~lossy)' /\ state' \in States /\ lossy' = lossy
<1>1. /\ value' = <<>> /\ state' = "whitespace" /\ lossy' = lossy
      /\ tokens' = Append(tokens, [kind |-> kind, value |-> word])
  BY DEF Return
<1>2. AreTokens(tokens', ~lossy')
  BY <1>1, TokensAppend DEF LexInv
<1>3. Word'
  BY <1>1 DEF Word
<1>4. QED
  BY <1>1, <1>2, <1>3, StateNames

\* A character goes to the end of the word.
LEMMA Longer ==
  ASSUME LexInv, Char \in Chars
  PROVE  LET w == Append(value, Char)
         IN /\ w \in Seq(Chars) /\ w # <<>> /\ Len(w) = Len(value) + 1 /\ Len(value) \in Nat
            /\ w[Len(value) + 1] = Char /\ \A n \in 1..Len(value) : w[n] = value[n]
            /\ value = <<>> => w = <<Char>> /\ Len(value) = 0
            /\ value # <<>> => Len(value) >= 1 /\ w[1] = value[1]
<1>1. value \in Seq(Chars)
  BY DEF LexInv, Word
<1> DEFINE w == Append(value, Char)
<1>2. /\ w \in Seq(Chars) /\ w # <<>> /\ Len(w) = Len(value) + 1 /\ Len(value) \in Nat
      /\ w[Len(value) + 1] = Char /\ \A n \in 1..Len(value) : w[n] = value[n]
  BY <1>1, AppendProperties, LenProperties
<1>3. value = <<>> => w = <<Char>> /\ Len(value) = 0
  OBVIOUS
<1>4. value # <<>> => Len(value) >= 1
  BY <1>1, <1>2, EmptySeq
<1> HIDE DEF w
<1>5. value # <<>> => w[1] = value[1]
  BY <1>2, <1>4
<1>6. QED
  BY <1>2, <1>3, <1>4, <1>5 DEF w

\* A word in quotes goes on, with a character that does not end it or, if it was
\* escaped, with any.
LEMMA QuoteGoesOn ==
  ASSUME LexInv, Char \in Chars, state \in {"quote", "escape"}, state' = "quote",
         value' = Append(value, Char), lossy' \in BOOLEAN, lossy => lossy',
         Char \in {value[1], "\\"} => lossy', UNCHANGED tokens
  PROVE  Word' /\ AreTokens(tokens, ~lossy)'
<1> DEFINE w == Append(value, Char)
<1>1. /\ w \in Seq(Chars) /\ w # <<>> /\ Len(w) = Len(value) + 1 /\ Len(value) \in Nat
      /\ w[Len(value) + 1] = Char /\ \A n \in 1..Len(value) : w[n] = value[n]
      /\ value # <<>> => Len(value) >= 1 /\ w[1] = value[1]
  BY Longer
<1>2. value # <<>> /\ value[1] \in Quotes /\ (~lossy => \A n \in 2..Len(value) : Inside(value, n))
  BY DEF LexInv, Word
<1> HIDE DEF w
<1>3. ASSUME ~lossy', NEW n \in 2..Len(w) PROVE Inside(w, n)
  <2>1. CASE n \in 2..Len(value)
    BY <1>1, <1>2, <1>3, <2>1 DEF Inside
  <2>2. CASE n = Len(value) + 1
    BY <1>1, <1>2, <1>3, <2>2 DEF Inside
  <2>3. QED
    BY <1>1, <2>1, <2>2
<1>4. Word'
  BY <1>1, <1>2, <1>3 DEF Word, w
<1>5. AreTokens(tokens', ~lossy')
  BY TokensLeft DEF LexInv
<1>6. QED
  BY <1>4, <1>5

\* One lemma for the steps from each state.
LEMMA FromBlanks ==
  ASSUME LexInv, SkipBlank \/ Separator \/ Begin
  PROVE  LexInv'
<1>1. Reading
  BY DEF LexInv
<1>2. CASE SkipBlank
  <2>1. state' \in States \cup Ends /\ lossy' \in BOOLEAN
    BY <1>1, <1>2 DEF SkipBlank, Reading
  <2>2. Reading'
    BY <1>1, <1>2, <2>1, Taken DEF SkipBlank
  <2>3. Word' /\ AreTokens(tokens, ~lossy)'
    BY <1>2 DEF SkipBlank, LexInv, Word
  <2>4. QED
    BY <2>2, <2>3 DEF LexInv
<1>3. CASE Separator
  <2> DEFINE t == [kind |-> KindOf(Char), value |-> <<Char>>]
  <2>1. Get("whitespace", Separators) /\ Return(KindOf(Char), <<Char>>)
    BY <1>3 DEF Separator
  <2>2. Char \in Separators
    BY <2>1 DEF Get
  <2>3. KindOf(Char) \in Kinds \ {"normal", "comment"} /\ <<Char>> \in Seq(Chars)
    <3>1. Char \in Chars
      BY <2>2, Classes
    <3>2. KindOf(Char) \in Kinds \ {"normal", "comment"}
      BY <2>2, KindsOf
    <3>3. QED
      BY <3>1, <3>2
  <2>4. IsToken(t, ~lossy)
    <3>1. t \in Tokens /\ t.value = <<Char>> /\ t.kind = KindOf(Char)
      BY <2>3 DEF Tokens
    <3>2. <<Char>> # <<>>
      OBVIOUS
    <3> HIDE DEF t
    <3>3. QED
      BY <2>2, <2>3, <3>1, <3>2 DEF IsToken
  <2>5. Word' /\ AreTokens(tokens, ~lossy)' /\ state' \in States /\ lossy' = lossy
    BY <2>1, <2>4, Returned
  <2>6. Reading'
    BY <1>1, <2>1, <2>5, Taken DEF Reading
  <2>7. QED
    BY <2>5, <2>6 DEF LexInv
<1>4. CASE Begin
  <2> DEFINE w == Append(value, Char)
  <2>1. /\ Get("whitespace", Chars \ (Blanks \cup Separators))
        /\ value' = w /\ UNCHANGED <<tokens, lossy>>
        /\ state' = IF Char \in Quotes THEN "quote"
                    ELSE IF Char = "#" THEN "comment" ELSE "normal"
    BY <1>4 DEF Begin, Grow
  <2>2. state' \in States \cup Ends /\ lossy' \in BOOLEAN
    BY <1>1, <2>1, StateNames DEF Reading
  <2>3. Reading' /\ Char \in Chars \ (Blanks \cup Separators) /\ state = "whitespace"
    BY <1>1, <2>1, <2>2, Taken
  <2>4. value = <<>>
    BY <2>3 DEF LexInv, Word
  <2>5. w \in Seq(Chars) /\ w # <<>> /\ Len(w) = 1 /\ w[1] = Char
    BY <2>3, <2>4, Longer
  <2> HIDE DEF w
  <2>6. Word'
    <3>1. state' = "normal" => Plain(w)
      <4>1. Char \notin WordEnds
        BY <2>3, Classes
      <4>2. state' = "normal" => Char \notin Quotes \cup {"#"}
        BY <2>1
      <4>3. QED
        BY <2>3, <2>5, <4>1, <4>2 DEF Plain
    <3>2. state' \in {"quote", "escape"} => Char \in Quotes
      BY <2>1
    <3>3. state' # "whitespace"
      BY <2>1
    <3>4. \A n \in 2..Len(w) : FALSE
      BY <2>5
    <3>5. QED
      BY <2>1, <2>5, <3>1, <3>2, <3>3, <3>4 DEF Word
  <2>7. QED
    BY <2>1, <2>3, <2>6 DEF LexInv
<1>5. QED
  BY <1>2, <1>3, <1>4

LEMMA FromQuote ==
  ASSUME LexInv, ReadQuoted \/ Escape \/ ReadEscaped \/ CloseQuote
  PROVE  LexInv'
<1>1. Reading
  BY DEF LexInv
<1>2. CASE ReadQuoted
  <2>1. /\ Get("quote", Chars \ {value[1], "\\"}) /\ value' = Append(value, Char)
        /\ state' = "quote" /\ UNCHANGED <<tokens, lossy>>
    BY <1>2 DEF ReadQuoted, Grow
  <2>2. state' \in States \cup Ends /\ lossy' \in BOOLEAN
    BY <1>1, <2>1, StateNames DEF Reading
  <2>3. Reading' /\ Char \in Chars \ {value[1], "\\"} /\ state = "quote"
    BY <1>1, <2>1, <2>2, Taken
  <2>4. QED
    BY <2>1, <2>2, <2>3, QuoteGoesOn DEF LexInv
<1>3. CASE Escape
  <2>1. /\ Get("quote", {"\\"}) /\ state' = "escape" /\ UNCHANGED <<value, tokens, lossy>>
    BY <1>3 DEF Escape
  <2>2. state' \in States \cup Ends /\ lossy' \in BOOLEAN
    BY <1>1, <2>1, StateNames DEF Reading
  <2>3. Reading' /\ state = "quote"
    BY <1>1, <2>1, <2>2, Taken
  <2>4. Word' /\ AreTokens(tokens, ~lossy)'
    BY <2>1, <2>3 DEF LexInv, Word
  <2>5. QED
    BY <2>3, <2>4 DEF LexInv
<1>4. CASE ReadEscaped
  <2>1. /\ Get("escape", Chars) /\ value' = Append(value, Char) /\ state' = "quote"
        /\ UNCHANGED tokens /\ lossy' = (lossy \/ Char \in {value[1], "\\"})
    BY <1>4 DEF ReadEscaped, Grow
  <2>2. state' \in States \cup Ends /\ lossy' \in BOOLEAN
    BY <1>1, <2>1, StateNames DEF Reading
  <2>3. Reading' /\ Char \in Chars /\ state = "escape"
    BY <1>1, <2>1, <2>2, Taken
  <2>4. QED
    BY <2>1, <2>2, <2>3, QuoteGoesOn DEF LexInv
<1>5. CASE CloseQuote
  <2> DEFINE w == Append(value, Char)
  <2>1. Get("quote", {value[1]}) /\ (Return("normal", w) \/ (Grow("error") /\ UNCHANGED lossy))
    BY <1>5 DEF CloseQuote
  <2>2. state' \in States \cup Ends /\ lossy' = lossy /\ lossy \in BOOLEAN
    BY <1>1, <2>1, StateNames DEF Reading, Return, Grow
  <2>3. Reading' /\ Char \in Chars /\ Char = value[1] /\ state = "quote"
    BY <1>1, <2>1, <2>2, Taken
  <2>4. /\ w \in Seq(Chars) /\ w # <<>> /\ Len(w) = Len(value) + 1 /\ Len(value) \in Nat
        /\ w[Len(value) + 1] = Char /\ \A n \in 1..Len(value) : w[n] = value[n]
        /\ value # <<>> => Len(value) >= 1 /\ w[1] = value[1]
    BY <2>3, Longer
  <2>5. value # <<>> /\ value[1] \in Quotes /\ (~lossy => \A n \in 2..Len(value) : Inside(value, n))
    BY <2>3 DEF LexInv, Word
  <2> HIDE DEF w
  <2>6. InQuotes(w, ~lossy)
    <3>1. Len(w) - 1 = Len(value) /\ Len(w) > 1
      BY <2>4, <2>5
    <3>2. ASSUME ~lossy, NEW n \in 2..Len(value) PROVE Inside(w, n)
      BY <2>4, <2>5, <3>2 DEF Inside
    <3>3. QED
      BY <2>3, <2>4, <2>5, <3>1, <3>2 DEF InQuotes
  <2>7. CASE Return("normal", w)
    <3> DEFINE t == [kind |-> "normal", value |-> w]
    <3>1. t \in Tokens /\ t.value = w /\ t.kind = "normal"
      BY <2>4, StateNames DEF Tokens
    <3> HIDE DEF t
    <3>2. IsToken(t, ~lossy)
      BY <2>4, <2>6, <3>1 DEF IsToken
    <3>3. Word' /\ AreTokens(tokens, ~lossy)'
      BY <2>7, <3>2, Returned DEF t
    <3>4. QED
      BY <2>3, <3>3 DEF LexInv
  <2>8. CASE Grow("error") /\ UNCHANGED lossy
    <3>1. value' = w /\ state' = "error" /\ UNCHANGED <<tokens, lossy>>
      BY <2>8 DEF Grow, w
    <3>2. Word' /\ AreTokens(tokens, ~lossy)'
      BY <2>4, <3>1 DEF Word, LexInv
    <3>3. QED
      BY <2>3, <3>2 DEF LexInv
  <2>9. QED
    BY <2>1, <2>7, <2>8
<1>6. QED
  BY <1>2, <1>3, <1>4, <1>5

LEMMA FromWord ==
  ASSUME LexInv, ReadComment \/ EndComment \/ ReadWord \/ EndWord
  PROVE  LexInv'
<1>1. Reading
  BY DEF LexInv
<1>2. CASE ReadComment
  <2>1. /\ Get("comment", Chars \ {"\n", "\r"}) /\ value' = Append(value, Char)
        /\ state' = "comment" /\ UNCHANGED <<tokens, lossy>>
    BY <1>2 DEF ReadComment, Grow
  <2>2. state' \in States \cup Ends /\ lossy' \in BOOLEAN
    BY <1>1, <2>1, StateNames DEF Reading
  <2>3. Reading' /\ Char \in Chars
    BY <1>1, <2>1, <2>2, Taken
  <2>4. value' \in Seq(Chars) /\ value' # <<>>
    BY <2>1, <2>3, Longer
  <2>5. Word' /\ AreTokens(tokens, ~lossy)'
    BY <2>1, <2>4 DEF LexInv, Word
  <2>6. QED
    BY <2>3, <2>5 DEF LexInv
<1>3. CASE EndComment
  <2> DEFINE t == [kind |-> "comment", value |-> value]
  <2>1. Get("comment", {"\n", "\r"}) /\ Return("comment", value)
    BY <1>3 DEF EndComment
  <2>2. value \in Seq(Chars) /\ value # <<>>
    BY <2>1 DEF Get, LexInv, Word
  <2>3. IsToken(t, ~lossy)
    <3>1. t \in Tokens /\ t.value = value /\ t.kind = "comment"
      BY <2>2, StateNames DEF Tokens
    <3> HIDE DEF t
    <3>2. QED
      BY <2>2, <3>1 DEF IsToken
  <2>4. Word' /\ AreTokens(tokens, ~lossy)' /\ state' \in States /\ lossy' = lossy
    BY <2>1, <2>3, Returned
  <2>5. Reading'
    BY <1>1, <2>1, <2>4, Taken DEF Reading
  <2>6. QED
    BY <2>4, <2>5 DEF LexInv
<1>4. CASE ReadWord
  <2> DEFINE w == Append(value, Char)
  <2>1. /\ Get("normal", Chars \ WordEnds) /\ value' = w
        /\ state' = "normal" /\ UNCHANGED <<tokens, lossy>>
    BY <1>4 DEF ReadWord, Grow
  <2>2. state' \in States \cup Ends /\ lossy' \in BOOLEAN
    BY <1>1, <2>1, StateNames DEF Reading
  <2>3. Reading' /\ Char \in Chars /\ Char \notin WordEnds /\ state = "normal"
    BY <1>1, <2>1, <2>2, Taken
  <2>4. /\ w \in Seq(Chars) /\ w # <<>> /\ Len(w) = Len(value) + 1 /\ Len(value) \in Nat
        /\ w[Len(value) + 1] = Char /\ \A n \in 1..Len(value) : w[n] = value[n]
        /\ value # <<>> => w[1] = value[1]
    BY <2>3, Longer
  <2>5. value # <<>> /\ Plain(value)
    BY <2>3 DEF LexInv, Word
  <2> HIDE DEF w
  <2>6. Plain(w)
    <3>1. ASSUME NEW n \in 1..Len(w) PROVE w[n] \notin WordEnds
      <4>1. n \in 1..Len(value) \/ n = Len(value) + 1
        BY <2>4
      <4>2. QED
        BY <2>3, <2>4, <2>5, <4>1 DEF Plain
    <3>2. QED
      BY <2>4, <2>5, <3>1 DEF Plain
  <2>7. Word' /\ AreTokens(tokens, ~lossy)'
    BY <2>1, <2>4, <2>6 DEF LexInv, Word
  <2>8. QED
    BY <2>3, <2>7 DEF LexInv
<1>5. CASE EndWord
  <2> DEFINE t == [kind |-> "normal", value |-> value]
  <2>1. state = "normal" /\ Return("normal", value) /\ UNCHANGED <<text, read, back>>
    BY <1>5 DEF EndWord
  <2>2. value \in Seq(Chars) /\ value # <<>> /\ Plain(value)
    BY <2>1 DEF LexInv, Word
  <2>3. IsToken(t, ~lossy)
    <3>1. t \in Tokens /\ t.value = value /\ t.kind = "normal"
      BY <2>2, StateNames DEF Tokens
    <3> HIDE DEF t
    <3>2. QED
      BY <2>2, <3>1 DEF IsToken
  <2>4. Word' /\ AreTokens(tokens, ~lossy)' /\ state' \in States /\ lossy' = lossy
    BY <2>1, <2>3, Returned
  <2>5. Reading'
    BY <1>1, <2>1, <2>4 DEF Reading
  <2>6. QED
    BY <2>4, <2>5 DEF LexInv
<1>6. QED
  BY <1>2, <1>3, <1>4, <1>5

\* What is printed.
Values(ts) == [i \in DOMAIN ts |-> ts[i].value]
Pieces(ts) == [i \in DOMAIN ts |-> ts[i].value \o Gap(ts, i)]

LEMMA GapType ==
  ASSUME NEW ts, NEW i
  PROVE  Gap(ts, i) \in Seq(Chars) /\ (Gap(ts, i) = <<>> \/ \E c \in Blanks : Gap(ts, i) = <<c>>)
<1>1. " " \in Blanks /\ "\n" \in Blanks /\ Blanks \subseteq Chars
  BY Classes
<1>2. <<>> \in Seq(Chars) /\ \A c \in Chars : <<c>> \in Seq(Chars)
  OBVIOUS
<1>3. Gap(ts, i) = <<>> \/ Gap(ts, i) = <<" ">> \/ Gap(ts, i) = <<"\n">>
  BY Zenon DEF Gap
<1>4. Gap(ts, i) = <<>> \/ \E c \in Blanks : Gap(ts, i) = <<c>>
  BY <1>1, <1>3, Zenon
<1>5. QED
  BY <1>1, <1>2, <1>4, Zenon

LEMMA PiecesType ==
  ASSUME NEW ts \in Seq(Tokens)
  PROVE  /\ Values(ts) \in Seq(Seq(Chars)) /\ Pieces(ts) \in Seq(Seq(Chars))
         /\ Len(Pieces(ts)) = Len(ts) /\ Len(ts) \in Nat
         /\ \A i \in 1..Len(ts) :
              /\ Values(ts)[i] = ts[i].value /\ ts[i].value \in Seq(Chars)
              /\ Pieces(ts)[i] = ts[i].value \o Gap(ts, i)
<1> DEFINE n == Len(ts)
           F == Seq(Chars)
<1>1. n \in Nat /\ DOMAIN ts = 1..n /\ \A i \in 1..n : ts[i] \in Tokens
  BY LenProperties, ElementOfSeq
<1>2. \A i \in 1..n : ts[i].value \in F
  BY <1>1 DEF Tokens
<1>3. \A i \in 1..n : ts[i].value \o Gap(ts, i) \in F
  BY <1>2, GapType, ConcatProperties
<1> HIDE DEF n, F
<1>4. Values(ts) \in [1..n -> F] /\ Pieces(ts) \in [1..n -> F]
  BY <1>1, <1>2, <1>3 DEF Values, Pieces
<1>5. \A f \in [1..n -> F] : f \in Seq(F) /\ Len(f) = n
  BY <1>1, LenProperties
<1>6. QED
  BY <1>1, <1>2, <1>4, <1>5 DEF n, F, Values, Pieces

LEMMA PrintedType ==
  ASSUME NEW ts \in Seq(Tokens)
  PROVE  Printed(ts) = FlattenSeq(Pieces(ts)) /\ Printed(ts) \in Seq(Chars)
<1>1. Printed(ts) = FlattenSeq(Pieces(ts))
  BY DEF Printed, Pieces
<1> DEFINE p == Pieces(ts)
<1>2. p \in Seq(Seq(Chars))
  BY PiecesType
<1>3. \A s \in Seq(Seq(Chars)) : FlattenSeq(s) \in Seq(Chars)
  <2> DEFINE F == Seq(Chars)
  <2>1. <<>> \in F
    OBVIOUS
  <2>2. QED
    BY <2>1, FlattenAppend
<1> HIDE DEF p
<1>4. FlattenSeq(p) \in Seq(Chars)
  BY <1>2, <1>3
<1>5. QED
  BY <1>1, <1>4 DEF p

LEMMA FromEnd ==
  ASSUME LexInv, EndOfFile \/ PrintConfig \/ Stop
  PROVE  LexInv'
<1>1. Reading
  BY DEF LexInv
<1>2. CASE EndOfFile
  <2>1. state' \in Ends /\ state' \notin States /\ UNCHANGED <<text, read, value, tokens, back, lossy>>
    BY <1>2, StateNames DEF EndOfFile
  <2>2. Reading'
    BY <1>1, <2>1 DEF Reading
  <2>3. state' \notin {"whitespace", "quote", "escape", "comment", "normal"}
    BY <2>1, StateNames
  <2>4. Word' /\ AreTokens(tokens, ~lossy)'
    BY <2>1, <2>3 DEF LexInv, Word
  <2>5. QED
    BY <2>2, <2>4 DEF LexInv
<1>3. CASE PrintConfig
  <2>1. /\ text' = Printed(Leaving(tokens, Comments)) /\ read' = 0 /\ state' = "whitespace"
        /\ value' = <<>> /\ tokens' = <<>> /\ back' = TRUE /\ lossy' = lossy
    BY <1>3 DEF PrintConfig
  <2>2. text' \in Seq(Chars)
    <3>1. tokens \in Seq(Tokens)
      BY DEF LexInv, AreTokens
    <3>2. Leaving(tokens, Comments) \in Seq(Tokens \ Comments)
      BY <3>1, LeavingType
    <3>3. \A s \in Seq(Tokens \ Comments) : s \in Seq(Tokens)
      OBVIOUS
    <3>4. Leaving(tokens, Comments) \in Seq(Tokens)
      BY <3>2, <3>3
    <3>5. QED
      BY <2>1, <3>4, PrintedType
  <2>3. Reading'
    <3>1. Len(text') \in Nat
      BY <2>2, LenProperties
    <3>2. 0 \in 0..Len(text')
      BY <3>1
    <3>3. QED
      BY <1>1, <2>1, <2>2, <3>2, StateNames DEF Reading
  <2>4. Word'
    BY <2>1 DEF Word
  <2>5. AreTokens(tokens', ~lossy')
    BY <2>1 DEF AreTokens
  <2>6. QED
    BY <2>3, <2>4, <2>5 DEF LexInv
<1>4. CASE Stop
  BY <1>4 DEF Stop, vars, LexInv, Reading, Word
<1>5. QED
  BY <1>2, <1>3, <1>4

LEMMA LexNext == LexInv /\ [Next]_vars => LexInv'
<1>1. CASE UNCHANGED vars
  BY <1>1 DEF vars, LexInv, Reading, Word
<1>2. QED
  BY <1>1, FromBlanks, FromQuote, FromWord, FromEnd DEF Next

LEMMA LexInvariant == Spec => []LexInv
BY LexInit, LexNext, PTL DEF Spec

\* Whatever the file, no token is empty, a word in quotes begins and ends with
\* its quote, and no other word contains what would have ended it.
THEOREM LexerTypes == Spec => []TypeOK
BY LexInvariant, LexTypes, PTL

-----------------------------------------------------------------------------
(* Escapes, one character after the other. *)

Scans == [out : Seq(Chars), escape : BOOLEAN]
NoScan == [out |-> <<>>, escape |-> FALSE]

LEMMA ScanType ==
  ASSUME NEW a \in Scans, NEW c \in Chars
  PROVE  Scan(a, c) \in Scans
<1>1. a.out \in Seq(Chars) /\ Append(a.out, c) \in Seq(Chars)
  BY AppendProperties DEF Scans
<1>2. Scan(a, c) = [a EXCEPT !.escape = TRUE]
        \/ Scan(a, c) = [out |-> Append(a.out, c), escape |-> FALSE]
  BY Zenon DEF Scan
<1>3. [a EXCEPT !.escape = TRUE] \in Scans
  BY DEF Scans
<1>4. \A o \in Seq(Chars) : [out |-> o, escape |-> FALSE] \in Scans
  BY DEF Scans
<1>5. [out |-> Append(a.out, c), escape |-> FALSE] \in Scans
  BY <1>1, <1>4
<1>6. QED
  BY <1>2, <1>3, <1>5, Zenon

ScanFold(s, p) ==
  p = [S \in SUBSET DOMAIN s |->
         IF S = {} THEN NoScan ELSE Scan(p[S \ {Max(S)}], s[Max(S)])]

LEMMA ScannedIs ==
  ASSUME NEW s
  PROVE  Scanned(s) = (CHOOSE p : ScanFold(s, p))[DOMAIN s]
BY DEF Scanned, FoldLeft, MapThenFoldSet, ScanFold, NoScan

LEMMA ScannedAppend ==
  ASSUME NEW s \in Seq(Chars), NEW y \in Chars
  PROVE  /\ Scanned(<<>>) = NoScan
         /\ Scanned(s) \in Scans
         /\ Scanned(Append(s, y)) = Scan(Scanned(s), y)
<1> DEFINE A == Scans
           E == Chars
           g == [a \in A \X E |-> Scan(a[1], a[2])]
<1>1. \A a \in A : \A z \in E : g[<<a, z>>] = Scan(a, z)
  <2> HIDE DEF A, E
  <2> QED OBVIOUS
<1>2. g \in [A \X E -> A]
  <2>1. \A a \in A : \A z \in E : Scan(a, z) \in A
    BY ScanType
  <2>2. \A a \in A \X E : a[1] \in A /\ a[2] \in E
    OBVIOUS
  <2> HIDE DEF A, E
  <2>3. \A a \in A \X E : Scan(a[1], a[2]) \in A
    BY <2>1, <2>2
  <2>4. QED
    BY <2>3
<1>3. NoScan \in A
  BY DEF NoScan, Scans
<1>5. s \in Seq(E) /\ y \in E /\ Append(s, y) \in Seq(E)
  BY AppendProperties DEF E
<1> HIDE DEF A, E, g
<1>4. ASSUME NEW t \in Seq(E)
      PROVE  \E p : Scanned(t) = p[DOMAIN t] /\ Along(t, A, NoScan, g, p)
  <2>1. \A S \in SUBSET DOMAIN t : S # {} => t[Max(S)] \in E
    <3>1. Len(t) \in Nat /\ DOMAIN t = 1..Len(t) /\ \A i \in DOMAIN t : t[i] \in E
      BY LenProperties, ElementOfSeq
    <3>2. \A S \in SUBSET DOMAIN t : S \subseteq 0..Len(t)
      BY <3>1
    <3>3. \A S \in SUBSET DOMAIN t : S # {} => Max(S) \in S
      BY <3>1, <3>2, Greatest
    <3>4. QED
      BY <3>1, <3>3
  <2>2. PICK p \in [SUBSET DOMAIN t -> A] : FoldedAlong(t, NoScan, g, p)
    BY <1>2, <1>3, AlongExists
  <2>3. [S \in SUBSET DOMAIN t |->
           IF S = {} THEN NoScan ELSE g[<<p[S \ {Max(S)}], t[Max(S)]>>]]
          = [S \in SUBSET DOMAIN t |->
               IF S = {} THEN NoScan ELSE Scan(p[S \ {Max(S)}], t[Max(S)])]
    BY <1>1, <2>1, <2>2
  <2>4. ScanFold(t, p)
    BY <2>2, <2>3 DEF FoldedAlong, ScanFold
  <2>5. PICK q : ScanFold(t, q) /\ Scanned(t) = q[DOMAIN t]
    BY <2>4, ScannedIs
  <2>6. /\ q[{}] = NoScan
        /\ \A S \in SUBSET DOMAIN t : S # {} => q[S] = Scan(q[S \ {Max(S)}], t[Max(S)])
    BY <2>5 DEF ScanFold
  <2>7. ASSUME NEW S \in SUBSET DOMAIN t, S # {}, q[S \ {Max(S)}] \in A
        PROVE  q[S] = g[<<q[S \ {Max(S)}], t[Max(S)]>>]
    <3> DEFINE a == q[S \ {Max(S)}]
               z == t[Max(S)]
    <3>1. q[S] = Scan(a, z) /\ a \in A /\ z \in E
      BY <2>1, <2>6, <2>7
    <3> HIDE DEF a, z
    <3>2. q[S] = g[<<a, z>>]
      BY <1>1, <3>1
    <3>3. QED
      BY <3>2 DEF a, z
  <2>8. Along(t, A, NoScan, g, q)
    BY <2>6, <2>7 DEF Along
  <2>9. QED
    BY <2>5, <2>8
<1>6. PICK q : Scanned(s) = q[DOMAIN s] /\ Along(s, A, NoScan, g, q)
  BY <1>4, <1>5
<1>7. PICK p : /\ Scanned(Append(s, y)) = p[DOMAIN Append(s, y)]
               /\ Along(Append(s, y), A, NoScan, g, p)
  BY <1>4, <1>5
<1>8. PICK z : Scanned(<<>>) = z[{}] /\ Along(<<>>, A, NoScan, g, z)
  <2>1. <<>> \in Seq(E) /\ DOMAIN <<>> = {}
    OBVIOUS
  <2>2. QED
    BY <1>4, <2>1
<1>9. q[DOMAIN s] \in A /\ p[DOMAIN Append(s, y)] = g[<<q[DOMAIN s], y>>]
  <2> DEFINE t == Append(s, y)
  <2>1. Along(s, A, NoScan, g, q) /\ t = Append(s, y) /\ Along(t, A, NoScan, g, p)
    BY <1>6, <1>7
  <2> HIDE DEF t
  <2>2. q[DOMAIN s] \in A /\ Adds(g, q[DOMAIN s], y, p[DOMAIN t])
    BY <1>2, <1>3, <1>5, <2>1, AlongAppend
  <2>3. QED
    BY <2>2 DEF t, Adds
<1>10. Scanned(s) \in A /\ Scanned(Append(s, y)) = g[<<Scanned(s), y>>]
  BY <1>6, <1>7, <1>9
<1>11. Scanned(<<>>) = NoScan
  BY <1>8 DEF Along
<1>12. Scanned(Append(s, y)) = Scan(Scanned(s), y)
  BY <1>1, <1>5, <1>10
<1>13. QED
  BY <1>10, <1>11, <1>12 DEF A

-----------------------------------------------------------------------------
(* No character is lost. *)

Spans == [first : Nat, last : Nat]

\* The token being read, by the state: of a word in quotes the escapes so far.
\* At the end of the file it is one that nothing ends.
Opened ==
  /\ state = "whitespace" => begun = 0
  /\ state \notin {"whitespace", "eof"} => begun # 0
  /\ begun = 0 => value = <<>>
  /\ begun # 0 =>
       IF text[begun] \in Quotes
       THEN /\ state \in {"quote", "escape", "eof", "error"}
            /\ Scanned(SoFar).out = value
            /\ state # "error" => (Scanned(SoFar).escape <=> state # "quote")
       ELSE /\ state \in {"comment", "normal", "eof"}
            /\ SoFar = value
            /\ state = "comment" => text[begun] = "#"
            /\ state = "normal" => text[begun] # "#"
            /\ Unended(value)
  /\ state = "eof" => read = Len(text)

Laid(i) == Lies(EndOf(i - 1), spans[i], tokens[i].value)
Reached == EndOf(Len(spans)) < Undecided /\ OnlyBlanks(EndOf(Len(spans)), Undecided)

Lost ==
  /\ spans \in Seq(Spans) /\ Len(spans) = Len(tokens) /\ begun \in 0..read
  /\ \A i \in 1..Len(tokens) : Laid(i)
  /\ Reached /\ Opened

LEMMA SoFarIs ==
  ASSUME LexInv, begun \in 1..read
  PROVE  /\ SoFar \in Seq(Chars) /\ SoFar # <<>> /\ SoFar[1] = text[begun]
         /\ Len(SoFar) = read - begun + 1
<1>1. text \in Seq(Chars) /\ read \in Nat /\ Len(text) \in Nat /\ read <= Len(text)
  BY LenProperties DEF LexInv, Reading
<1>2. \A i \in begun..read : text[i] \in Chars
  BY <1>1, ElementOfSeq
<1>3. /\ SoFar \in Seq(Chars)
      /\ Len(SoFar) = IF begun <= read THEN read - begun + 1 ELSE 0
      /\ \A i \in 1..read - begun + 1 : SoFar[i] = text[begun + i - 1]
  <2>1. begun \in Int /\ read \in Int
    BY <1>1
  <2>2. QED
    BY <1>2, <2>1, SubSeqProperties DEF SoFar
<1>4. 1 \in 1..read - begun + 1 /\ begun <= read /\ begun + 1 - 1 = begun /\ read - begun + 1 >= 1
  BY <1>1
<1>5. Len(SoFar) # 0
  BY <1>1, <1>3, <1>4
<1>6. SoFar # <<>>
  BY <1>5
<1>7. QED
  BY <1>3, <1>4, <1>6

LEMMA LostIs == LexInv /\ Lost => NothingLost
<1> SUFFICES ASSUME LexInv, Lost PROVE NothingLost
  OBVIOUS
<1>1. DOMAIN tokens = 1..Len(tokens)
  BY LenProperties DEF LexInv, AreTokens
<1>2. read \in Nat /\ begun \in 0..read
  BY DEF Lost, LexInv, Reading
<1>3. CASE begun = 0
  <2>1. value = <<>> /\ state # "error" /\ (state = "eof" => read = Len(text))
    BY <1>3 DEF Lost, Opened
  <2>2. QED
    BY <1>1, <1>3, <2>1 DEF Lost, Laid, Reached, NothingLost
<1>4. CASE begun # 0
  <2>1. SoFar[1] = text[begun]
    BY <1>2, <1>4, SoFarIs
  <2>2. value = Unescaped(SoFar)
    BY <1>4, <2>1 DEF Lost, Opened, Unescaped
  <2>3. state = "eof" => read = Len(text) /\ Unended(SoFar)
    <3>1. CASE text[begun] \in Quotes
      BY <1>4, <2>1, <3>1 DEF Lost, Opened, Unended
    <3>2. CASE text[begun] \notin Quotes
      BY <1>4, <3>2 DEF Lost, Opened
    <3>3. QED
      BY <3>1, <3>2
  <2>4. state = "error" => text[begun] \in Quotes
    BY <1>4 DEF Lost, Opened
  <2>5. QED
    BY <1>1, <1>4, <2>2, <2>3, <2>4 DEF Lost, Laid, Reached, NothingLost
<1>5. QED
  BY <1>3, <1>4

\* The tokens returned before stay where they are.
LEMMA LaidBefore ==
  ASSUME Lost, text' = text, UNCHANGED <<tokens, spans>>
  PROVE  /\ spans' \in Seq(Spans) /\ Len(spans') = Len(tokens')
         /\ \A i \in 1..Len(tokens') : Laid(i)'
BY DEF Lost, Laid, Lies, EndOf, OnlyBlanks

\* A blank is skipped.
LEMMA BlankSkipped ==
  ASSUME LexInv, Lost, text' = text, read' = read + 1, UNCHANGED <<tokens, spans, begun>>,
         begun # 0 \/ Char \in Blanks
  PROVE  Reached' /\ begun' \in 0..read'
<1>1. read \in Nat /\ begun \in 0..read /\ EndOf(Len(spans))' = EndOf(Len(spans))
  BY DEF LexInv, Reading, Lost, EndOf
<1>2. Reached
  BY DEF Lost
<1>3. EndOf(Len(spans)) \in Nat
  <2>1. spans \in Seq(Spans) /\ Len(spans) \in Nat
    BY LenProperties DEF Lost
  <2>2. Len(spans) # 0 => spans[Len(spans)] \in Spans
    BY <2>1, ElementOfSeq
  <2>3. QED
    BY <2>2 DEF EndOf, Spans
<1>e. PICK e \in Nat : e = EndOf(Len(spans))
  BY <1>3
<1>4. CASE begun # 0
  <2>1. Undecided' = Undecided
    BY <1>4 DEF Undecided
  <2>2. QED
    BY <1>1, <1>2, <2>1 DEF Reached, OnlyBlanks
<1>5. CASE begun = 0
  <2>1. Undecided = read + 1 /\ Undecided' = read + 2 /\ text[read + 1] \in Blanks
    BY <1>1, <1>5 DEF Undecided, Char
  <2>2. e < read + 1 /\ \A n \in e + 1..read : text[n] \in Blanks
    <3>1. e < read + 1 /\ OnlyBlanks(e, read + 1) /\ read + 1 - 1 = read
      BY <1>1, <1>2, <1>e, <2>1 DEF Reached
    <3>2. ASSUME NEW n \in e + 1..read PROVE text[n] \in Blanks
      <4>1. n \in e + 1..(read + 1) - 1
        BY <1>1
      <4>2. QED
        BY <3>1, <4>1 DEF OnlyBlanks
    <3>3. QED
      BY <3>1, <3>2
  <2>3. \A n \in e + 1..read + 1 : n \in e + 1..read \/ n = read + 1
    BY <1>1, <1>3
  <2>4. e < read + 2 /\ read + 2 - 1 = read + 1
    BY <1>1, <2>2
  <2>5. \A n \in e + 1..read + 2 - 1 : text[n] \in Blanks
    <3>1. e + 1..read + 2 - 1 = e + 1..read + 1
      BY <1>1, <1>3
    <3>2. \A n \in e + 1..read + 1 : text[n] \in Blanks
      BY <2>1, <2>2, <2>3
    <3>3. QED
      BY <3>1, <3>2
  <2>6. Reached'
    BY <1>1, <1>e, <2>1, <2>4, <2>5 DEF Reached, OnlyBlanks
  <2>7. begun' \in 0..read'
    BY <1>1, <1>5
  <2>8. QED
    BY <2>6, <2>7
<1>6. QED
  BY <1>4, <1>5

\* The token so far, and what the character makes of it.
Grown == SubSeq(text, begun, read + 1)

LEMMA OneMore ==
  ASSUME LexInv, read < Len(text), begun \in 1..read
  PROVE  /\ Char \in Chars /\ Grown = Append(SoFar, Char) /\ Grown[1] = text[begun]
         /\ Scanned(SoFar) \in Scans /\ Scanned(Grown) = Scan(Scanned(SoFar), Char)
<1>1. text \in Seq(Chars) /\ read \in Nat /\ Len(text) \in Nat /\ read + 1 \in 1..Len(text)
  BY LenProperties DEF LexInv, Reading
<1>2. Char \in Chars
  BY <1>1, ElementOfSeq DEF Char
<1>3. SoFar \in Seq(Chars) /\ SoFar # <<>> /\ SoFar[1] = text[begun] /\ Len(SoFar) = read - begun + 1
  BY SoFarIs
<1>4. Grown = SoFar \o <<Char>>
  <2>1. begun \in 1..Len(text) /\ read + 1 \in begun..Len(text) /\ read + 1 - 1 = read
    BY <1>1
  <2>2. SubSeq(text, begun, read + 1) = SubSeq(text, begun, read + 1 - 1) \o <<text[read + 1]>>
    BY <1>1, <2>1, SubSeqRecursiveSecond
  <2>3. QED
    BY <2>1, <2>2 DEF SoFar, Char, Grown
<1> DEFINE a == SoFar
           c == Char
<1>5. a \in Seq(Chars) /\ c \in Chars /\ 1 \in 1..Len(a)
  BY <1>1, <1>2, <1>3
<1> HIDE DEF a, c
<1>6. /\ Append(a, c) = a \o <<c>> /\ Append(a, c)[1] = a[1]
      /\ Scanned(a) \in Scans /\ Scanned(Append(a, c)) = Scan(Scanned(a), c)
  <2>1. Append(a, c) = a \o <<c>>
    BY <1>5, AppendIsConcat
  <2>2. \A n \in 1..Len(a) : Append(a, c)[n] = a[n]
    BY <1>5, AppendProperties
  <2>3. Scanned(a) \in Scans /\ Scanned(Append(a, c)) = Scan(Scanned(a), c)
    BY <1>5, ScannedAppend
  <2>4. QED
    BY <1>5, <2>1, <2>2, <2>3
<1>7. QED
  BY <1>2, <1>3, <1>4, <1>6 DEF a, c

\* A token that has one character.
LEMMA OneCharacter ==
  ASSUME LexInv, read < Len(text)
  PROVE  /\ Char \in Chars /\ SubSeq(text, read + 1, read + 1) = <<Char>>
         /\ Scanned(<<Char>>) = Scan(NoScan, Char)
<1>1. text \in Seq(Chars) /\ read \in Nat /\ Len(text) \in Nat /\ read + 1 \in 1..Len(text)
  BY LenProperties DEF LexInv, Reading
<1>2. Char \in Chars
  BY <1>1, ElementOfSeq DEF Char
<1>3. SubSeq(text, read + 1, read + 1) = <<Char>>
  <2>1. read + 1 \in (read + 1)..Len(text) /\ read + 1 \in Int /\ read + 1 - 1 \in Int /\ read + 1 - 1 < read + 1
    BY <1>1
  <2>2. /\ SubSeq(text, read + 1, read + 1) = SubSeq(text, read + 1, read + 1 - 1) \o <<text[read + 1]>>
        /\ SubSeq(text, read + 1, read + 1 - 1) = <<>>
    BY <1>1, <2>1, SubSeqRecursiveSecond, SubSeqEmpty
  <2> DEFINE c == Char
  <2> HIDE DEF c
  <2>3. <<>> \o <<c>> = <<c>>
    OBVIOUS
  <2>4. QED
    BY <2>2, <2>3 DEF Char, c
<1>4. Scanned(<<Char>>) = Scan(NoScan, Char)
  <2> DEFINE c == Char
  <2>1. c \in Chars
    BY <1>2
  <2> HIDE DEF c
  <2>2. <<>> \in Seq(Chars) /\ Append(<<>>, c) = <<c>>
    OBVIOUS
  <2>3. Scanned(<<>>) = NoScan /\ Scanned(Append(<<>>, c)) = Scan(Scanned(<<>>), c)
    BY <2>1, <2>2, ScannedAppend
  <2>4. QED
    BY <2>2, <2>3 DEF c
<1>5. QED
  BY <1>2, <1>3, <1>4

\* A character that is not an escaping backslash is added.
LEMMA ScanAdds ==
  ASSUME NEW a \in Scans, NEW c, c # "\\" \/ a.escape
  PROVE  Scan(a, c).out = Append(a.out, c) /\ ~Scan(a, c).escape
<1>1. Scan(a, c) = [out |-> Append(a.out, c), escape |-> FALSE]
  BY Zenon DEF Scan
<1>2. QED
  BY <1>1

LEMMA ScanEscapes ==
  ASSUME NEW a \in Scans, ~a.escape
  PROVE  Scan(a, "\\").out = a.out /\ Scan(a, "\\").escape
<1>1. Scan(a, "\\") = [a EXCEPT !.escape = TRUE]
  BY Zenon DEF Scan
<1>2. QED
  BY <1>1 DEF Scans

\* A token is returned that lies where the others have not been.
LEMMA TokenLaid ==
  ASSUME LexInv, Lost, text' = text, read' \in Nat, NEW kind, NEW word, Return(kind, word),
         NEW b \in Nat, NEW e \in Nat, Lay(b, e),
         Lies(EndOf(Len(spans)), [first |-> b, last |-> e], word),
         [kind |-> kind, value |-> word] \in Tokens,
         e < read' + 1, OnlyBlanks(e, read' + 1)
  PROVE  Lost'
<1> DEFINE p == [first |-> b, last |-> e]
           t == [kind |-> kind, value |-> word]
<1>n. PICK n \in Nat : n = Len(spans)
  BY LenProperties DEF Lost
<1>1. /\ tokens' = Append(tokens, t) /\ spans' = Append(spans, p) /\ begun' = 0
      /\ value' = <<>> /\ state' = "whitespace"
  BY DEF Return, Lay
<1>2. /\ spans \in Seq(Spans) /\ tokens \in Seq(Tokens) /\ n \in Nat /\ Len(tokens) = n
      /\ \A i \in 1..n : Laid(i)
  BY <1>n DEF Lost, LexInv, AreTokens
<1>3. p \in Spans /\ p.last = e /\ p.first = b /\ t \in Tokens /\ t.value = word
  BY DEF Spans
<1> HIDE DEF p, t
<1>4. /\ spans' \in Seq(Spans) /\ Len(spans') = n + 1 /\ spans'[n + 1] = p
      /\ \A i \in 1..n : spans'[i] = spans[i]
  BY <1>1, <1>2, <1>3, <1>n, AppendProperties
<1>5. /\ Len(tokens') = n + 1 /\ tokens'[n + 1] = t
      /\ \A i \in 1..n : tokens'[i] = tokens[i]
  <2>1. /\ Len(Append(tokens, t)) = Len(tokens) + 1 /\ Append(tokens, t)[Len(tokens) + 1] = t
        /\ \A i \in 1..Len(tokens) : Append(tokens, t)[i] = tokens[i]
    BY <1>2, <1>3, AppendProperties
  <2>2. QED
    BY <1>1, <1>2, <2>1
<1>6. \A i \in 0..n : EndOf(i)' = EndOf(i)
  BY <1>2, <1>4 DEF EndOf
<1>7. ASSUME NEW i \in 1..n PROVE Laid(i)'
  <2>1. i - 1 \in 0..n /\ spans'[i] = spans[i] /\ tokens'[i] = tokens[i]
    BY <1>2, <1>4, <1>5
  <2>2. EndOf(i - 1)' = EndOf(i - 1)
    BY <1>6, <2>1
  <2>3. QED
    BY <1>2, <2>1, <2>2 DEF Laid, Lies, OnlyBlanks
<1>8. Laid(n + 1)'
  <2> DEFINE k == n + 1
  <2>1. n \in 0..n /\ k - 1 = n
    BY <1>2
  <2>2. EndOf(n)' = EndOf(n)
    BY <1>6, <2>1
  <2>3. spans'[k] = p /\ tokens'[k].value = word
    BY <1>3, <1>4, <1>5
  <2>4. Lies(EndOf(n), p, word)'
    BY <1>n, <2>2 DEF Lies, OnlyBlanks, p
  <2> HIDE DEF k
  <2>5. Laid(k)'
    BY <2>1, <2>2, <2>3, <2>4 DEF Laid
  <2>6. QED
    BY <2>5 DEF k
<1>9. \A i \in 1..Len(tokens') : Laid(i)'
  <2>1. \A i \in 1..Len(tokens') : i \in 1..n \/ i = n + 1
    BY <1>2, <1>5
  <2>2. QED
    BY <1>7, <1>8, <2>1
<1>10. Reached'
  <2>1. EndOf(Len(spans))' = e
    BY <1>2, <1>3, <1>4 DEF EndOf
  <2>2. Undecided' = read' + 1
    BY <1>1 DEF Undecided
  <2>3. QED
    BY <2>1, <2>2 DEF Reached, OnlyBlanks
<1>11. Opened'
  BY <1>1 DEF Opened
<1>12. QED
  BY <1>1, <1>4, <1>5, <1>9, <1>10, <1>11 DEF Lost

LEMMA LostInit == Init => Lost
<1> SUFFICES ASSUME Init PROVE Lost
  OBVIOUS
<1>1. tokens = <<>> /\ value = <<>> /\ read = 0 /\ begun = 0 /\ spans = <<>> /\ state = "whitespace"
  BY DEF Init
<1>2. Len(<<>>) = 0 /\ 1..0 = {}
  OBVIOUS
<1>3. Reached
  BY <1>1, <1>2 DEF Reached, EndOf, Undecided, OnlyBlanks
<1>4. Opened
  BY <1>1 DEF Opened
<1>5. QED
  BY <1>1, <1>2, <1>3, <1>4 DEF Lost

\* The token that is being read goes on.
LEMMA GoneOn ==
  ASSUME LexInv, Lost, begun # 0, text' = text, read' = read + 1, read < Len(text), GoesOn,
         UNCHANGED tokens, Opened'
  PROVE  Lost'
<1>1. UNCHANGED <<tokens, spans, begun>>
  BY DEF GoesOn
<1>2. Reached' /\ begun' \in 0..read'
  BY <1>1, BlankSkipped
<1>3. QED
  BY <1>1, <1>2, LaidBefore DEF Lost

LEMMA Numbers ==
  ASSUME LexInv, Lost
  PROVE  read \in Nat /\ begun \in Nat /\ begun <= read /\ Len(text) \in Nat
BY LenProperties DEF LexInv, Reading, Lost

LEMMA NoGap ==
  ASSUME NEW k \in Nat
  PROVE  OnlyBlanks(k, k + 1)
<1>1. ASSUME NEW n \in k + 1..(k + 1) - 1 PROVE FALSE
  OBVIOUS
<1>2. QED
  BY <1>1 DEF OnlyBlanks

LEMMA LostFromBlanks ==
  ASSUME LexInv, LexInv', Lost, SkipBlank \/ Separator \/ Begin
  PROVE  Lost'
<1>1. Reading
  BY DEF LexInv
<1>2. text' = text /\ read' = read + 1 /\ read < Len(text) /\ state = "whitespace"
  BY DEF SkipBlank, Separator, Begin, Get
<1>3. value = <<>> /\ begun = 0
  BY <1>2 DEF LexInv, Word, Lost, Opened
<1>4. /\ Char \in Chars /\ SubSeq(text, read + 1, read + 1) = <<Char>>
      /\ Scanned(<<Char>>) = Scan(NoScan, Char)
  BY <1>2, OneCharacter
<1>5. EndOf(Len(spans)) < read + 1 /\ OnlyBlanks(EndOf(Len(spans)), read + 1)
  BY <1>3 DEF Lost, Reached, Undecided
<1>6. CASE SkipBlank
  <2>1. Char \in Blanks /\ UNCHANGED <<state, value, tokens, spans, begun>>
    BY <1>6 DEF SkipBlank, Get, GoesOn
  <2>2. Reached' /\ begun' \in 0..read'
    BY <1>2, <2>1, BlankSkipped
  <2>3. Opened'
    BY <1>2, <1>3, <2>1 DEF Opened
  <2>4. QED
    BY <1>2, <2>1, <2>2, <2>3, LaidBefore DEF Lost
<1>7. CASE Separator
  <2> DEFINE c == Char
             k == read + 1
  <2>1. c \in Separators /\ Return(KindOf(c), <<c>>) /\ Lay(k, k)
    BY <1>7 DEF Separator, Get
  <2>2. KindOf(c) \in Kinds /\ c \notin Quotes
    BY <2>1, KindsOf, Classes
  <2>3. k \in Nat /\ k = read' /\ k < k + 1 /\ k <= k
    BY <1>2, Numbers
  <2> HIDE DEF c, k
  <2>4. [kind |-> KindOf(c), value |-> <<c>>] \in Tokens
    BY <1>4, <2>2 DEF Tokens, c
  <2>5. <<c>>[1] = c
    OBVIOUS
  <2>6. Unescaped(<<c>>) = <<c>>
    BY <2>2, <2>5 DEF Unescaped
  <2>7. SubSeq(text, k, k) = <<c>>
    BY <1>4 DEF c, k
  <2>8. Lies(EndOf(Len(spans)), [first |-> k, last |-> k], <<c>>)
    <3> DEFINE p == [first |-> k, last |-> k]
    <3>1. p.first = k /\ p.last = k
      OBVIOUS
    <3> HIDE DEF p
    <3>2. EndOf(Len(spans)) < k /\ OnlyBlanks(EndOf(Len(spans)), k)
      BY <1>5 DEF k
    <3>3. Lies(EndOf(Len(spans)), p, <<c>>)
      BY <2>3, <2>6, <2>7, <3>1, <3>2 DEF Lies
    <3>4. QED
      BY <3>3 DEF p
  <2>9. OnlyBlanks(k, k + 1)
    BY <2>3, NoGap
  <2>10. read' \in Nat /\ k < read' + 1 /\ OnlyBlanks(k, read' + 1)
    BY <2>3, <2>9
  <2>11. QED
    BY <1>2, <2>1, <2>3, <2>4, <2>8, <2>10, TokenLaid
<1>8. CASE Begin
  <2> DEFINE c == Char
             k == read + 1
  <2>1. /\ c \in Chars \ (Blanks \cup Separators)
        /\ value' = Append(value, c) /\ begun' = k /\ UNCHANGED <<tokens, spans>>
        /\ state' = IF c \in Quotes THEN "quote" ELSE IF c = "#" THEN "comment" ELSE "normal"
    BY <1>8 DEF Begin, Get, Grow, Begins
  <2>2. k \in Nat /\ k # 0 /\ read' = k /\ k = read + 1
    BY <1>2, Numbers
  <2>3. value' = <<c>>
    BY <1>3, <2>1
  <2>4. SoFar' = <<c>> /\ text'[begun'] = c
    BY <1>2, <1>4, <2>1, <2>2 DEF SoFar, Char
  <2>5. Scanned(<<c>>) = Scan(NoScan, c) /\ c \in Chars
    BY <1>4
  <2> HIDE DEF c, k
  <2>6. c \in Quotes => Scanned(<<c>>).out = <<c>> /\ ~Scanned(<<c>>).escape
    <3>1. NoScan \in Scans /\ NoScan.out = <<>> /\ Append(<<>>, c) = <<c>>
      BY DEF NoScan, Scans
    <3>2. c \in Quotes => c # "\\"
      BY Classes
    <3>3. QED
      BY <2>5, <3>1, <3>2, ScanAdds
  <2>7. c \notin Quotes => Unended(<<c>>)
    <3>1. <<c>>[1] = c /\ \A n \in DOMAIN <<c>> : <<c>>[n] = c
      OBVIOUS
    <3>2. c \notin WordEnds /\ c \notin {"\n", "\r"}
      BY <2>1, Classes
    <3>3. QED
      BY <3>1, <3>2 DEF Unended
  <2>8. Opened'
    <3>1. begun' # 0 /\ state' \notin {"whitespace", "eof", "error"}
      BY <2>1, <2>2
    <3>2. CASE c \in Quotes
      BY <2>1, <2>2, <2>3, <2>4, <2>6, <3>1, <3>2 DEF Opened
    <3>3. CASE c \notin Quotes
      BY <2>1, <2>2, <2>3, <2>4, <2>7, <3>1, <3>3 DEF Opened
    <3>4. QED
      BY <3>2, <3>3
  <2>9. Reached' /\ begun' \in 0..read'
    <3>1. Undecided' = k /\ EndOf(Len(spans))' = EndOf(Len(spans))
      BY <2>1, <2>2 DEF Undecided, EndOf
    <3>2. EndOf(Len(spans)) < k /\ OnlyBlanks(EndOf(Len(spans)), k)
      BY <1>5 DEF k
    <3>3. QED
      BY <1>2, <2>1, <2>2, <3>1, <3>2 DEF Reached, OnlyBlanks
  <2>10. QED
    BY <1>2, <2>1, <2>8, <2>9, LaidBefore DEF Lost
<1>9. QED
  BY <1>6, <1>7, <1>8

\* In quotes, the token so far and what its escapes leave.
LEMMA QuoteOpen ==
  ASSUME LexInv, Lost, state \in {"quote", "escape"}, read < Len(text)
  PROVE  /\ begun \in 1..read /\ begun # 0 /\ text[begun] \in Quotes
         /\ Char \in Chars /\ Grown[1] = text[begun] /\ Scanned(SoFar) \in Scans
         /\ Scanned(SoFar).out = value /\ (Scanned(SoFar).escape <=> state = "escape")
         /\ Scanned(Grown) = Scan(Scanned(SoFar), Char)
<1>1. begun # 0 /\ begun \in 1..read
  <2>1. begun # 0
    BY DEF Lost, Opened
  <2>2. QED
    BY <2>1, Numbers
<1>2. text[begun] \in Quotes
  BY <1>1 DEF Lost, Opened
<1>3. Scanned(SoFar).out = value /\ (Scanned(SoFar).escape <=> state = "escape")
  BY <1>1, <1>2 DEF Lost, Opened
<1>4. QED
  BY <1>1, <1>2, <1>3, OneMore

LEMMA LostFromQuote ==
  ASSUME LexInv, LexInv', Lost, ReadQuoted \/ Escape \/ ReadEscaped \/ CloseQuote
  PROVE  Lost'
<1>1. text' = text /\ read' = read + 1 /\ read < Len(text) /\ state \in {"quote", "escape"}
  BY DEF ReadQuoted, Escape, ReadEscaped, CloseQuote, Get
<1>2. /\ begun \in 1..read /\ begun # 0 /\ text[begun] \in Quotes
      /\ Char \in Chars /\ Grown[1] = text[begun] /\ Scanned(SoFar) \in Scans
      /\ Scanned(SoFar).out = value /\ (Scanned(SoFar).escape <=> state = "escape")
      /\ Scanned(Grown) = Scan(Scanned(SoFar), Char)
  BY <1>1, QuoteOpen
<1>3. begun' = begun => SoFar' = Grown
  BY <1>1 DEF SoFar, Grown
<1>4. CASE Escape
  <2>1. /\ Char = "\\" /\ state = "quote" /\ state' = "escape" /\ UNCHANGED <<value, tokens>> /\ GoesOn
    BY <1>4 DEF Escape, Get
  <2>2. Scanned(Grown).out = value /\ Scanned(Grown).escape
    <3>1. ~Scanned(SoFar).escape
      BY <1>2, <2>1
    <3>2. QED
      BY <1>2, <2>1, <3>1, ScanEscapes
  <2>3. Opened'
    BY <1>1, <1>2, <1>3, <2>1, <2>2 DEF Opened, GoesOn
  <2>4. QED
    BY <1>1, <1>2, <2>1, <2>3, GoneOn
<1>5. CASE ReadQuoted \/ ReadEscaped
  <2>1. /\ Char # "\\" \/ state = "escape"
        /\ state' = "quote" /\ value' = Append(value, Char) /\ UNCHANGED tokens /\ GoesOn
    BY <1>5 DEF ReadQuoted, ReadEscaped, Get, Grow
  <2>2. Scanned(Grown).out = Append(value, Char) /\ ~Scanned(Grown).escape
    BY <1>2, <2>1, ScanAdds
  <2>3. Opened'
    BY <1>1, <1>2, <1>3, <2>1, <2>2 DEF Opened, GoesOn
  <2>4. QED
    BY <1>1, <1>2, <2>1, <2>3, GoneOn
<1>6. CASE CloseQuote
  <2>1. /\ Char \in Quotes
        /\ \/ Return("normal", Append(value, Char)) /\ Lay(begun, read + 1)
           \/ Grow("error") /\ GoesOn
    <3>1. value[1] \in Quotes
      BY <1>6 DEF CloseQuote, Get, LexInv, Word
    <3>2. QED
      BY <1>6, <3>1 DEF CloseQuote, Get
  <2>2. Scanned(Grown).out = Append(value, Char) /\ ~Scanned(Grown).escape
    <3>1. Char # "\\"
      BY <2>1, Classes
    <3>2. QED
      BY <1>2, <3>1, ScanAdds
  <2>3. CASE Return("normal", Append(value, Char)) /\ Lay(begun, read + 1)
    <3> DEFINE w == Append(value, Char)
               k == read + 1
               p == [first |-> begun, last |-> k]
    <3>1. w \in Seq(Chars) /\ k \in Nat /\ begun \in Nat /\ begun <= k /\ k < k + 1 /\ read' = k
      BY <1>1, <1>2, Longer, Numbers
    <3>2. w = Unescaped(Grown)
      BY <1>2, <2>2 DEF Unescaped
    <3>3. p.first = begun /\ p.last = k
      OBVIOUS
    <3>4. EndOf(Len(spans)) < begun /\ OnlyBlanks(EndOf(Len(spans)), begun)
      BY <1>2 DEF Lost, Reached, Undecided
    <3>5. Grown = SubSeq(text, begun, k)
      BY DEF Grown
    <3>6. Return("normal", w) /\ Lay(begun, k)
      BY <2>3
    <3> HIDE DEF p, k, w
    <3>7. Lies(EndOf(Len(spans)), p, w)
      BY <3>1, <3>2, <3>3, <3>4, <3>5 DEF Lies
    <3>8. [kind |-> "normal", value |-> w] \in Tokens
      BY <3>1, StateNames DEF Tokens
    <3>9. read' \in Nat /\ k < read' + 1 /\ OnlyBlanks(k, read' + 1)
      BY <3>1, NoGap
    <3>10. QED
      BY <1>1, <3>1, <3>6, <3>7, <3>8, <3>9, TokenLaid DEF p
  <2>4. CASE Grow("error") /\ GoesOn
    <3>1. state' = "error" /\ value' = Append(value, Char) /\ UNCHANGED tokens
      BY <2>4 DEF Grow
    <3>2. Opened'
      BY <1>1, <1>2, <1>3, <2>2, <2>4, <3>1 DEF Opened, GoesOn
    <3>3. QED
      BY <1>1, <1>2, <2>4, <3>1, <3>2, GoneOn
  <2>5. QED
    BY <2>1, <2>3, <2>4
<1>7. QED
  BY <1>4, <1>5, <1>6

\* A word and a comment are what lies there.
LEMMA WordOpen ==
  ASSUME LexInv, Lost, state \in {"comment", "normal"}
  PROVE  /\ begun \in 1..read /\ begun # 0 /\ text[begun] \notin Quotes
         /\ SoFar = value /\ value # <<>> /\ value[1] = text[begun] /\ Unended(value)
         /\ state = "comment" <=> text[begun] = "#"
<1>1. begun # 0 /\ begun \in 1..read
  <2>1. begun # 0
    BY DEF Lost, Opened
  <2>2. QED
    BY <2>1, Numbers
<1>2. /\ text[begun] \notin Quotes /\ SoFar = value /\ Unended(value)
      /\ state = "comment" <=> text[begun] = "#"
  BY <1>1 DEF Lost, Opened
<1>3. SoFar # <<>> /\ SoFar[1] = text[begun]
  BY <1>1, SoFarIs
<1>4. QED
  BY <1>1, <1>2, <1>3

LEMMA LostFromWord ==
  ASSUME LexInv, LexInv', Lost, ReadComment \/ EndComment \/ ReadWord \/ EndWord
  PROVE  Lost'
<1>1. text' = text /\ state \in {"comment", "normal"} /\ read < Len(text)
  BY DEF ReadComment, EndComment, ReadWord, EndWord, Get
<1>2. /\ begun \in 1..read /\ begun # 0 /\ text[begun] \notin Quotes
      /\ SoFar = value /\ value # <<>> /\ value[1] = text[begun] /\ Unended(value)
      /\ state = "comment" <=> text[begun] = "#"
  BY <1>1, WordOpen
<1>3. /\ Char \in Chars /\ Grown = Append(value, Char)
  BY <1>1, <1>2, OneMore
<1>4. CASE ReadComment \/ ReadWord
  <2>1. /\ read' = read + 1 /\ value' = Append(value, Char) /\ state' = state
        /\ UNCHANGED tokens /\ GoesOn
        /\ state = "comment" => Char \notin {"\n", "\r"}
        /\ state = "normal" => Char \notin WordEnds
    BY <1>4 DEF ReadComment, ReadWord, Get, Grow
  <2>2. SoFar' = Grown
    BY <1>1, <2>1 DEF SoFar, Grown, GoesOn
  <2> DEFINE v == value
             c == Char
             w == Append(v, c)
  <2>3. v \in Seq(Chars) /\ c \in Chars /\ v # <<>>
    BY <1>2, <1>3 DEF LexInv, Word
  <2>4. /\ DOMAIN w = 1..Len(v) + 1 /\ DOMAIN v = 1..Len(v) /\ Len(v) \in Nat /\ w[1] = v[1]
        /\ w[Len(v) + 1] = c /\ \A n \in 1..Len(v) : w[n] = v[n]
    <3> HIDE DEF v, c
    <3>1. /\ w \in Seq(Chars) /\ Len(w) = Len(v) + 1 /\ Len(v) \in Nat
          /\ w[Len(v) + 1] = c /\ \A n \in 1..Len(v) : w[n] = v[n]
      BY <2>3, AppendProperties, LenProperties
    <3>2. Len(v) # 0
      BY <2>3, EmptySeq
    <3>3. DOMAIN w = 1..Len(w) /\ DOMAIN v = 1..Len(v)
      BY <2>3, <3>1, LenProperties
    <3> HIDE DEF w
    <3>4. QED
      BY <3>1, <3>2, <3>3
  <2> DEFINE Ending == IF v[1] = "#" THEN {"\n", "\r"} ELSE WordEnds
  <2>5. v[1] \notin Quotes /\ c \notin Ending /\ \A n \in DOMAIN v : v[n] \notin Ending
    BY <1>1, <1>2, <2>1 DEF Unended
  <2>6. Unended(w)
    <3>1. w[1] \notin Quotes /\ (w[1] = "#" <=> v[1] = "#")
      BY <2>4, <2>5
    <3>2. \A n \in DOMAIN w : n \in DOMAIN v \/ n = Len(v) + 1
      BY <2>4
    <3> HIDE DEF w, v, c
    <3>3. \A n \in DOMAIN w : w[n] \notin Ending
      BY <2>4, <2>5, <3>2
    <3>4. QED
      BY <3>1, <3>3 DEF Unended
  <2>7. Opened'
    <3>1. begun' = begun /\ text'[begun'] = text[begun] /\ SoFar' = value' /\ Unended(value')
      BY <1>1, <1>3, <2>1, <2>2, <2>6 DEF GoesOn
    <3>2. QED
      BY <1>1, <1>2, <2>1, <3>1 DEF Opened
  <2>8. QED
    BY <1>1, <1>2, <2>1, <2>7, GoneOn
<1>5. CASE EndComment \/ EndWord
  <2> DEFINE p == [first |-> begun, last |-> read]
  <2>1. /\ \E kind \in Kinds : Return(kind, value)
        /\ Lay(begun, read)
    BY <1>5, StateNames DEF EndComment, EndWord
  <2>2. PICK kind \in Kinds : Return(kind, value)
    BY <2>1
  <2>3. read \in Nat /\ begun \in Nat /\ begun <= read /\ p.first = begun /\ p.last = read
    BY Numbers
  <2>4. value = Unescaped(SubSeq(text, begun, read))
    BY <1>2 DEF Unescaped, SoFar
  <2>5. EndOf(Len(spans)) < begun /\ OnlyBlanks(EndOf(Len(spans)), begun)
    BY <1>2 DEF Lost, Reached, Undecided
  <2>6. [kind |-> kind, value |-> value] \in Tokens
    BY DEF LexInv, Word, Tokens
  <2>7. read' \in Nat /\ read < read' + 1 /\ OnlyBlanks(read, read' + 1)
    <3>1. CASE EndWord
      <4>1. read' = read /\ read < read + 1
        BY <2>3, <3>1 DEF EndWord
      <4>2. QED
        BY <2>3, <4>1, NoGap
    <3>2. CASE EndComment
      <4>1. read' = read + 1 /\ text[read + 1] \in Blanks
        BY <3>2, Classes DEF EndComment, Get, Char
      <4>2. PICK k \in Nat : k = read
        BY <2>3
      <4>3. ASSUME NEW n \in k + 1..(k + 2) - 1 PROVE text[n] \in Blanks
        <5>1. n = k + 1
          OBVIOUS
        <5>2. QED
          BY <4>1, <4>2, <5>1
      <4>4. OnlyBlanks(k, k + 2)
        BY <4>3 DEF OnlyBlanks
      <4>5. read' + 1 = k + 2 /\ k < k + 2 /\ k + 1 \in Nat
        BY <4>1, <4>2
      <4>6. QED
        BY <4>1, <4>2, <4>4, <4>5
    <3>3. QED
      BY <1>5, <3>1, <3>2
  <2> HIDE DEF p
  <2>8. Lies(EndOf(Len(spans)), p, value)
    BY <2>3, <2>4, <2>5 DEF Lies
  <2>9. QED
    BY <1>1, <2>1, <2>2, <2>3, <2>6, <2>7, <2>8, TokenLaid DEF p
<1>6. QED
  BY <1>4, <1>5

LEMMA LostFromEnd ==
  ASSUME LexInv, Lost, EndOfFile \/ PrintConfig \/ Stop \/ UNCHANGED vars
  PROVE  Lost'
<1>1. CASE PrintConfig
  <2>1. /\ read' = 0 /\ tokens' = <<>> /\ value' = <<>> /\ begun' = 0 /\ spans' = <<>>
        /\ state' = "whitespace"
    BY <1>1 DEF PrintConfig
  <2>2. Len(<<>>) = 0 /\ 1..0 = {}
    OBVIOUS
  <2>3. Reached'
    BY <2>1, <2>2 DEF Reached, EndOf, Undecided, OnlyBlanks
  <2>4. Opened'
    BY <2>1 DEF Opened
  <2>5. QED
    BY <2>1, <2>2, <2>3, <2>4 DEF Lost
<1>2. CASE Stop \/ UNCHANGED vars
  BY <1>2 DEF Stop, vars, Lost, Opened, Reached, Laid, Lies, OnlyBlanks, EndOf, Undecided, SoFar
<1>3. CASE EndOfFile
  <2>1. /\ state \in States /\ read = Len(text) /\ UNCHANGED <<text, read, value, tokens>>
        /\ state' = IF state = "quote" THEN "error" ELSE "eof"
        /\ UNCHANGED <<begun, spans>>
    BY <1>3 DEF EndOfFile, GoesOn
  <2>2. Reached' /\ begun' \in 0..read'
    BY <2>1 DEF Lost, Reached, OnlyBlanks, EndOf, Undecided
  <2>3. Opened'
    <3>1. SoFar' = SoFar
      BY <2>1 DEF SoFar
    <3>2. Opened /\ state \notin {"eof", "error"}
      BY <2>1, StateNames DEF Lost
    <3>3. QED
      BY <2>1, <3>1, <3>2 DEF Opened
  <2>4. QED
    BY <2>1, <2>2, <2>3, LaidBefore DEF Lost
<1>4. QED
  BY <1>1, <1>2, <1>3

\* Whatever the file, the text read is its tokens letter for letter but for the
\* backslashes of escapes, with blanks between them, and the one being read:
\* ParseToken repeats nothing, and loses what nothing ends before the file does.
THEOREM Unlost == Spec => []NothingLost
<1>1. LexInv /\ LexInv' /\ Lost /\ [Next]_vars => Lost'
  BY LostFromBlanks, LostFromQuote, LostFromWord, LostFromEnd DEF Next
<1>2. LexInv /\ Lost => NothingLost
  BY LostIs
<1>3. Init => Lost
  BY LostInit
<1>4. QED
  BY <1>1, <1>2, <1>3, LexInvariant, PTL DEF Spec

-----------------------------------------------------------------------------
(* What is printed reads back. *)

\* The text of the tokens behind the k-th, and with what follows it.
Rest(ts, k)  == FlattenSeq(SubSeq(Pieces(ts), k + 1, Len(ts)))
After(ts, k) == Gap(ts, k) \o Rest(ts, k)

\* The tokens of a file that parses.
Clean(ts) ==
  /\ AreTokens(ts, TRUE)
  /\ \A i \in 1..Len(ts) : ts[i].kind # "comment"
  /\ Len(ts) > 0 => ts[Len(ts)].kind # "normal"

\* The theorems about concatenation, for characters.
LEMMA Joined ==
  /\ \A s, t, u \in Seq(Chars) : (s \o t) \o u = s \o (t \o u)
  /\ \A s, t \in Seq(Chars) : s \o t \in Seq(Chars)
  /\ \A s, t \in Seq(Chars) : s \o t = <<>> => s = <<>> /\ t = <<>>
BY ConcatAssociative, ConcatProperties, ConcatEqualIffEmpty

LEMMA HeadsMatch ==
  ASSUME NEW c \in Chars, NEW d \in Chars, NEW a \in Seq(Chars), NEW b \in Seq(Chars),
         <<c>> \o a = <<d>> \o b
  PROVE  c = d /\ a = b
<1>1. <<c>> \in Seq(Chars) /\ <<d>> \in Seq(Chars)
  OBVIOUS
<1>2. (<<c>> \o a)[1] = c /\ (<<d>> \o b)[1] = d
  BY <1>1
<1>3. c = d
  BY <1>2
<1>4. QED
  BY <1>1, <1>3, ConcatSimplifications

\* The same for a word <<d>> \o v and what follows it.
Peels(c, r, d, v, a) == <<c>> \o r = (<<d>> \o v) \o a

LEMMA HeadPeeled ==
  ASSUME NEW c \in Chars, NEW d \in Chars, NEW r \in Seq(Chars), NEW v \in Seq(Chars),
         NEW a \in Seq(Chars), Peels(c, r, d, v, a)
  PROVE  c = d /\ r = v \o a
<1> DEFINE q == v \o a
<1>1. <<d>> \in Seq(Chars) /\ q \in Seq(Chars)
  BY ConcatProperties
<1>2. (<<d>> \o v) \o a = <<d>> \o q
  <2>1. \A o \in Seq(Chars) : (o \o v) \o a = o \o (v \o a)
    BY ConcatAssociative
  <2>2. QED
    BY <1>1, <2>1
<1> HIDE DEF q
<1>3. <<c>> \o r = <<d>> \o q
  BY <1>2 DEF Peels
<1>4. c = d /\ r = q
  BY <1>1, <1>3, HeadsMatch
<1>5. QED
  BY <1>4 DEF q

LEMMA HeadFirst ==
  ASSUME NEW v \in Seq(Chars), v # <<>>
  PROVE  /\ v[1] \in Chars /\ Tail(v) \in Seq(Chars) /\ v = <<v[1]>> \o Tail(v)
         /\ Len(v) \in Nat /\ Len(v) >= 1 /\ (Tail(v) = <<>> <=> Len(v) = 1)
<1>1. Len(v) \in Nat /\ Len(v) >= 1
  BY EmptySeq
<1>2. v[1] \in Chars
  BY <1>1, ElementOfSeq
<1>3. Tail(v) \in Seq(Chars) /\ Len(Tail(v)) = Len(v) - 1
  BY HeadTailProperties
<1>4. v = SubSeq(v, 1, Len(v)) /\ Tail(v) = SubSeq(v, 2, Len(v))
  BY SubSeqFull, TailIsSubSeq
<1>5. SubSeq(v, 1, Len(v)) = <<v[1]>> \o SubSeq(v, 1 + 1, Len(v))
  BY <1>1, SubSeqRecursiveFirst
<1>6. Tail(v) = <<>> <=> Len(v) = 1
  <2> DEFINE t == Tail(v)
  <2>1. t \in Seq(Chars) /\ Len(t) = Len(v) - 1
    BY <1>3
  <2> HIDE DEF t
  <2>2. t = <<>> <=> Len(t) = 0
    BY <2>1, EmptySeq
  <2>3. QED
    BY <1>1, <2>1, <2>2 DEF t
<1>7. QED
  BY <1>1, <1>2, <1>3, <1>4, <1>5, <1>6

LEMMA RestIs ==
  ASSUME NEW ts \in Seq(Tokens)
  PROVE  /\ Printed(ts) = Rest(ts, 0) /\ Rest(ts, Len(ts)) = <<>>
         /\ \A k \in 0..Len(ts) : Rest(ts, k) \in Seq(Chars) /\ After(ts, k) \in Seq(Chars)
         /\ \A k \in 0..Len(ts) - 1 : Rest(ts, k) = ts[k + 1].value \o After(ts, k + 1)
<1> DEFINE p == Pieces(ts)
           n == Len(ts)
           F == Seq(Chars)
           R(k) == SubSeq(p, k + 1, n)
<1>1. /\ p \in Seq(F) /\ Len(p) = n /\ n \in Nat
      /\ \A i \in 1..n : ts[i].value \in F /\ p[i] = ts[i].value \o Gap(ts, i)
  BY PiecesType
<1>2. \A i : Gap(ts, i) \in F
  BY GapType
<1>3. \A s \in Seq(F) : FlattenSeq(s) \in F
  <2>1. <<>> \in F
    OBVIOUS
  <2>2. QED
    BY <2>1, FlattenAppend
<1>4. \A x \in F : FlattenSeq(<<x>>) = x
  <2> SUFFICES ASSUME NEW x \in F PROVE FlattenSeq(<<x>>) = x
    OBVIOUS
  <2> DEFINE none == <<>>
  <2>1. none \in Seq(F) /\ Append(none, x) = <<x>> /\ FlattenSeq(none) = none
    BY FlattenIs
  <2>2. none \o x = x
    BY ConcatEmptySeq
  <2> HIDE DEF none
  <2>3. FlattenSeq(Append(none, x)) = FlattenSeq(none) \o x
    BY <2>1, FlattenAppend
  <2>4. QED
    BY <2>1, <2>2, <2>3
<1>5. \A i \in 1..n : p[i] \in F
  BY <1>1, <1>2, ConcatProperties
<1> HIDE DEF p, n, F
<1>6. \A k \in 0..n : R(k) \in Seq(F)
  <2> TAKE k \in 0..n
  <2>1. k + 1 \in Int /\ n \in Int /\ \A i \in k + 1..n : p[i] \in F
    BY <1>1, <1>5
  <2>2. QED
    BY <2>1, SubSeqProperties
<1>7. \A k \in 0..n : Rest(ts, k) = FlattenSeq(R(k)) /\ Rest(ts, k) \in F
  BY <1>3, <1>6 DEF Rest, p, n
<1>8. \A k \in 0..n : Gap(ts, k) \o Rest(ts, k) \in F
  <2>1. \A a, b \in F : a \o b \in F
    BY ConcatProperties DEF F
  <2>2. QED
    BY <1>2, <1>7, <2>1
<1>9. ASSUME NEW k \in 0..n - 1
      PROVE  Rest(ts, k) = ts[k + 1].value \o After(ts, k + 1)
  <2> DEFINE m == k + 1
             y == ts[m].value
             g == Gap(ts, m)
             z == Rest(ts, m)
  <2>1. m \in 1..n /\ m \in 0..n /\ k \in 0..n /\ n \in m..n
    BY <1>1
  <2> HIDE DEF m
  <2>2. R(k) = <<p[m]>> \o R(m)
    <3>1. SubSeq(p, m, n) = <<p[m]>> \o SubSeq(p, m + 1, n)
      BY <1>1, <2>1, SubSeqRecursiveFirst
    <3>2. QED
      BY <3>1 DEF m
  <2>3. <<p[m]>> \in Seq(F) /\ R(m) \in Seq(F)
    BY <1>5, <1>6, <2>1
  <2> HIDE DEF R
  <2>4. FlattenSeq(<<p[m]>> \o R(m)) = FlattenSeq(<<p[m]>>) \o FlattenSeq(R(m))
    BY <2>3, FlattenConcat DEF F
  <2>5. Rest(ts, k) = p[m] \o z
    BY <1>4, <1>5, <1>7, <2>1, <2>2, <2>4
  <2>6. y \in F /\ g \in F /\ z \in F /\ p[m] = y \o g
    BY <1>1, <1>2, <1>7, <2>1
  <2> HIDE DEF y, g, z
  <2>7. (y \o g) \o z = y \o (g \o z)
    BY <2>6, Joined DEF F
  <2>8. QED
    BY <2>5, <2>6, <2>7 DEF After, y, g, z, m
<1>10. Rest(ts, n) = <<>>
  <2>1. R(n) = <<>>
    BY <1>1, SubSeqEmpty
  <2>2. FlattenSeq(<<>>) = <<>>
    BY FlattenIs
  <2>3. n \in 0..n
    BY <1>1
  <2> HIDE DEF R
  <2>4. QED
    BY <1>7, <2>1, <2>2, <2>3
<1>11. Printed(ts) = Rest(ts, 0)
  <2>1. Printed(ts) = FlattenSeq(p)
    BY PrintedType DEF p
  <2>2. SubSeq(p, 1, n) = p
    BY <1>1, SubSeqFull
  <2>3. R(0) = p /\ 0 \in 0..n
    BY <1>1, <2>2
  <2> HIDE DEF R
  <2>4. QED
    BY <1>7, <2>1, <2>3
<1>12. QED
  BY <1>7, <1>8, <1>9, <1>10, <1>11 DEF After, n, F

\* The text a reader between two tokens has before it: the next token, behind
\* one blank or none.
Between(a, ts, k) == a = Rest(ts, k) \/ \E b \in Blanks : a = <<b>> \o Rest(ts, k)

LEMMA AfterToken ==
  ASSUME NEW ts \in Seq(Tokens), NEW k \in 0..Len(ts)
  PROVE  Between(After(ts, k), ts, k)
<1> DEFINE r == Rest(ts, k)
<1>1. r \in Seq(Chars)
  BY RestIs
<1>2. Gap(ts, k) = <<>> \/ \E c \in Blanks : Gap(ts, k) = <<c>>
  BY GapType
<1> HIDE DEF r
<1>3. <<>> \o r = r
  BY <1>1, ConcatEmptySeq
<1>4. QED
  BY <1>2, <1>3 DEF r, After, Between

LEMMA CleanIs ==
  ASSUME NEW ts, Clean(ts)
  PROVE  /\ ts \in Seq(Tokens) /\ Len(ts) \in Nat
         /\ \A i \in 1..Len(ts) :
              LET v == ts[i].value
              IN /\ ts[i] \in Tokens /\ v \in Seq(Chars) /\ v # <<>> /\ ts[i].kind # "comment"
                 /\ ts[i].kind = "normal" => i < Len(ts) /\ (Plain(v) \/ InQuotes(v, TRUE))
                 /\ ts[i].kind # "normal" =>
                      \E c \in Separators : v = <<c>> /\ ts[i].kind = KindOf(c)
<1>1. ts \in Seq(Tokens) /\ \A i \in 1..Len(ts) : IsToken(ts[i], TRUE)
  BY DEF Clean, AreTokens
<1>2. Len(ts) \in Nat
  BY <1>1, LenProperties
<1>3. ASSUME NEW i \in 1..Len(ts)
      PROVE  LET v == ts[i].value
             IN /\ ts[i] \in Tokens /\ v \in Seq(Chars) /\ v # <<>> /\ ts[i].kind # "comment"
                /\ ts[i].kind = "normal" => i < Len(ts) /\ (Plain(v) \/ InQuotes(v, TRUE))
                /\ ts[i].kind # "normal" =>
                     \E c \in Separators : v = <<c>> /\ ts[i].kind = KindOf(c)
  <2> DEFINE t == ts[i]
  <2>1. IsToken(t, TRUE) /\ t.kind # "comment"
    BY <1>1 DEF Clean
  <2>2. t.kind = "normal" => i < Len(ts)
    BY <1>2 DEF Clean
  <2> HIDE DEF t
  <2>3. t \in Tokens /\ t.value \in Seq(Chars) /\ t.value # <<>>
    BY <2>1 DEF IsToken, Tokens
  <2>4. /\ t.kind = "normal" => Plain(t.value) \/ InQuotes(t.value, TRUE)
        /\ t.kind # "normal" => \E c \in Separators : t.value = <<c>> /\ t.kind = KindOf(c)
    BY <2>1 DEF IsToken
  <2>5. QED
    BY <2>1, <2>2, <2>3, <2>4 DEF t
<1>4. QED
  BY <1>1, <1>2, <1>3

\* A word is followed by what ends it.
LEMMA BehindWord ==
  ASSUME NEW ts, Clean(ts), NEW i \in 1..Len(ts), ts[i].kind = "normal"
  PROVE  \E c \in WordEnds, r \in Seq(Chars) : After(ts, i) = <<c>> \o r
<1> DEFINE g == Rest(ts, i)
<1>1. ts \in Seq(Tokens) /\ Len(ts) \in Nat /\ i < Len(ts)
  BY CleanIs
<1>2. i \in 0..Len(ts) /\ i \in 0..Len(ts) - 1 /\ i + 1 \in 1..Len(ts) /\ i + 1 \in 0..Len(ts)
  BY <1>1
<1>3. g \in Seq(Chars)
  BY <1>1, <1>2, RestIs
<1>4. CASE ts[i + 1].kind = "end"
  <2> DEFINE a == After(ts, i + 1)
             v == ts[i + 1].value
  <2>1. PICK c \in Separators : v = <<c>>
    BY <1>2, <1>4, CleanIs
  <2>2. a \in Seq(Chars)
    BY <1>1, <1>2, RestIs
  <2>3. g = v \o a
    BY <1>1, <1>2, RestIs
  <2>4. After(ts, i) = <<>> \o g
    BY <1>4 DEF After, Gap
  <2> HIDE DEF g, a, v
  <2>5. After(ts, i) = <<c>> \o a
    BY <1>3, <2>1, <2>3, <2>4, ConcatEmptySeq
  <2>6. QED
    BY <2>2, <2>5, Classes
<1>5. CASE ts[i + 1].kind # "end"
  <2>1. After(ts, i) = <<" ">> \o g
    BY <1>5 DEF After, Gap
  <2> HIDE DEF g
  <2>2. QED
    BY <1>3, <2>1, Classes
<1>6. QED
  BY <1>4, <1>5

\* Nothing is left only behind the last token.
LEMMA NothingLeft ==
  ASSUME NEW ts, Clean(ts), NEW k \in 0..Len(ts), Between(<<>>, ts, k)
  PROVE  k = Len(ts)
<1>1. ts \in Seq(Tokens) /\ Len(ts) \in Nat
  BY CleanIs
<1> DEFINE r == Rest(ts, k)
<1>2. r \in Seq(Chars)
  BY <1>1, RestIs
<1>3. r = <<>>
  <2>1. \A b \in Chars : <<b>> \in Seq(Chars) /\ <<b>> # <<>>
    OBVIOUS
  <2> HIDE DEF r
  <2>2. \A b \in Chars : <<b>> \o r # <<>>
    BY <1>2, <2>1, ConcatEqualIffEmpty
  <2>3. QED
    BY <2>2, Classes DEF Between, r
<1>4. CASE k # Len(ts)
  <2> DEFINE v == ts[k + 1].value
             a == After(ts, k + 1)
  <2>1. k \in 0..Len(ts) - 1 /\ k + 1 \in 1..Len(ts) /\ k + 1 \in 0..Len(ts)
    BY <1>1, <1>4
  <2>2. v \in Seq(Chars) /\ v # <<>>
    BY <2>1, CleanIs
  <2>3. a \in Seq(Chars) /\ r = v \o a
    BY <1>1, <2>1, RestIs
  <2> HIDE DEF v, a, r
  <2>4. QED
    BY <1>3, <2>2, <2>3, Joined
<1>5. QED
  BY <1>4

\* What a character between two tokens is: the blank, a separator, or the first
\* of a word.
ComesBetween(ts, k, c, r) ==
  \/ c \in Blanks /\ r = Rest(ts, k)
  \/ /\ k < Len(ts) /\ c \in Separators
     /\ ts[k + 1] = [kind |-> KindOf(c), value |-> <<c>>] /\ r = After(ts, k + 1)
  \/ /\ k < Len(ts) /\ ts[k + 1].kind = "normal"
     /\ c \notin Blanks \cup Separators \cup {"#"}
     /\ \E v \in Seq(Chars) :
          /\ ts[k + 1].value = <<c>> \o v /\ r = v \o After(ts, k + 1)
          /\ c \in Quotes => v # <<>>

LEMMA InBetween ==
  ASSUME NEW ts, Clean(ts), NEW k \in 0..Len(ts), NEW c \in Chars, NEW r \in Seq(Chars),
         Between(<<c>> \o r, ts, k)
  PROVE  ComesBetween(ts, k, c, r)
<1> DEFINE z == Rest(ts, k)
<1>1. ts \in Seq(Tokens) /\ Len(ts) \in Nat
  BY CleanIs
<1>2. z \in Seq(Chars)
  BY <1>1, RestIs
<1>3. CASE \E b \in Blanks : <<c>> \o r = <<b>> \o z
  <2>1. PICK b \in Blanks : <<c>> \o r = <<b>> \o z
    BY <1>3
  <2>2. b \in Chars
    BY Classes
  <2> HIDE DEF z
  <2>3. c = b /\ r = z
    BY <1>2, <2>1, <2>2, HeadsMatch, SMTT(30)
  <2>4. QED
    BY <2>3 DEF z, ComesBetween
<1>4. CASE <<c>> \o r = z
  <2> DEFINE t == ts[k + 1]
             w == t.value
             a == After(ts, k + 1)
  <2>1. k # Len(ts)
    <3>1. <<c>> \in Seq(Chars) /\ <<c>> # <<>>
      OBVIOUS
    <3>2. <<c>> \o r # <<>>
      BY <3>1, ConcatEqualIffEmpty
    <3>3. Rest(ts, Len(ts)) = <<>>
      BY <1>1, RestIs
    <3>4. QED
      BY <1>4, <3>2, <3>3
  <2>2. k < Len(ts) /\ k \in 0..Len(ts) - 1 /\ k + 1 \in 1..Len(ts) /\ k + 1 \in 0..Len(ts)
    BY <1>1, <2>1
  <2>3. a \in Seq(Chars) /\ z = w \o a
    BY <1>1, <2>2, RestIs
  <2>4. /\ t \in Tokens /\ w \in Seq(Chars) /\ w # <<>>
        /\ t.kind = "normal" => Plain(w) \/ InQuotes(w, TRUE)
        /\ t.kind # "normal" => \E d \in Separators : w = <<d>> /\ t.kind = KindOf(d)
    BY <2>2, CleanIs
  <2> HIDE DEF a, z, t
  <2>5. CASE t.kind # "normal"
    <3>1. PICK d \in Separators : w = <<d>> /\ t.kind = KindOf(d)
      BY <2>4, <2>5
    <3>2. d \in Chars
      BY Classes
    <3>3. c = d /\ r = a
      BY <1>4, <2>3, <3>1, <3>2, HeadsMatch, SMTT(30)
    <3>4. t = [kind |-> KindOf(c), value |-> <<c>>]
      BY <2>4, <3>1, <3>3 DEF Tokens
    <3>5. QED
      BY <2>2, <3>3, <3>4 DEF t, a, ComesBetween
  <2>6. CASE t.kind = "normal"
    <3> DEFINE v == Tail(w)
               d == w[1]
    <3>1. d \in Chars /\ v \in Seq(Chars) /\ w = <<d>> \o v /\ (v = <<>> <=> Len(w) = 1)
      BY <2>4, HeadFirst
    <3>2. Plain(w) \/ InQuotes(w, TRUE)
      BY <2>4, <2>6
    <3>3. Plain(w) => d \notin Blanks \cup Separators \cup Quotes \cup {"#"}
      BY DEF Plain
    <3>4. InQuotes(w, TRUE) => d \in Quotes /\ Len(w) > 1
      BY DEF InQuotes
    <3>5. d \notin Blanks \cup Separators \cup {"#"} /\ (d \in Quotes => v # <<>>)
      <4>1. CASE Plain(w)
        BY <3>3, <4>1
      <4>2. CASE InQuotes(w, TRUE)
        <5>1. d \in Quotes /\ v # <<>>
          BY <3>1, <3>4, <4>2
        <5>2. QED
          BY <5>1, Classes
      <4>3. QED
        BY <3>2, <4>1, <4>2
    <3> HIDE DEF v, d, w
    <3>6. Peels(c, r, d, v, a)
      BY <1>4, <2>3, <3>1 DEF Peels
    <3>7. c = d /\ r = v \o a
      <4>1. v \in Seq(Chars) /\ a \in Seq(Chars) /\ d \in Chars
        BY <2>3, <3>1
      <4>2. QED
        BY <3>6, <4>1, HeadPeeled
    <3>8. /\ k < Len(ts) /\ t.kind = "normal" /\ c \notin Blanks \cup Separators \cup {"#"}
          /\ w = <<c>> \o v /\ r = v \o a /\ (c \in Quotes => v # <<>>)
      BY <2>2, <2>6, <3>1, <3>5, <3>7
    <3>9. QED
      BY <3>1, <3>8 DEF w, t, a, ComesBetween
  <2>7. QED
    BY <2>5, <2>6
<1>5. QED
  BY <1>3, <1>4 DEF Between

\* What a character within a word is, of which x is read and v is left: if
\* nothing is left it ends the word, and if it is in quotes its quote is the last.
ComesWithin(ts, k, x, v, c, r) ==
  /\ v = <<>> => c \in WordEnds /\ <<c>> \o r = After(ts, k + 1)
  /\ v # <<>> =>
       /\ \E u \in Seq(Chars) :
            /\ r = u \o After(ts, k + 1) /\ ts[k + 1].value = Append(x, c) \o u
            /\ x[1] \in Quotes => IF u = <<>> THEN c = x[1] ELSE c \notin {x[1], "\\"}
       /\ x[1] \notin Quotes => c \notin WordEnds

LEMMA InWord ==
  ASSUME NEW ts, Clean(ts), NEW k \in 0..Len(ts) - 1, ts[k + 1].kind = "normal",
         NEW x \in Seq(Chars), x # <<>>, NEW v \in Seq(Chars), ts[k + 1].value = x \o v,
         NEW c \in Chars, NEW r \in Seq(Chars), <<c>> \o r = v \o After(ts, k + 1)
  PROVE  ComesWithin(ts, k, x, v, c, r)
<1> DEFINE w == ts[k + 1].value
           a == After(ts, k + 1)
           d == v[1]
           u == Tail(v)
<1>1. ts \in Seq(Tokens) /\ Len(ts) \in Nat /\ k + 1 \in 1..Len(ts) /\ k + 1 \in 0..Len(ts)
  <2>1. ts \in Seq(Tokens) /\ Len(ts) \in Nat
    BY CleanIs
  <2>2. QED
    BY <2>1
<1>2. a \in Seq(Chars) /\ w \in Seq(Chars) /\ (Plain(w) \/ InQuotes(w, TRUE))
  <2>1. a \in Seq(Chars)
    BY <1>1, RestIs
  <2>2. w \in Seq(Chars) /\ (Plain(w) \/ InQuotes(w, TRUE))
    BY <1>1, CleanIs
  <2>3. QED
    BY <2>1, <2>2
<1>3. PICK e \in WordEnds, z \in Seq(Chars) : a = <<e>> \o z
  BY <1>1, BehindWord
<1>4. w = x \o v /\ <<c>> \o r = v \o a
  OBVIOUS
<1> HIDE DEF w, a
<1>5. ASSUME v = <<>> PROVE c \in WordEnds /\ <<c>> \o r = a
  <2>1. <<c>> \o r = a
    BY <1>2, <1>4, <1>5, ConcatEmptySeq
  <2>2. e \in Chars
    BY Classes
  <2>3. c = e
    BY <1>3, <2>1, <2>2, HeadsMatch
  <2>4. QED
    BY <2>1, <2>3
<1>6. ASSUME v # <<>>
      PROVE  /\ \E y \in Seq(Chars) :
                  /\ r = y \o a /\ w = Append(x, c) \o y
                  /\ x[1] \in Quotes => IF y = <<>> THEN c = x[1] ELSE c \notin {x[1], "\\"}
             /\ x[1] \notin Quotes => c \notin WordEnds
  <2>1. /\ d \in Chars /\ u \in Seq(Chars) /\ v = <<d>> \o u /\ Len(v) \in Nat
        /\ Len(v) >= 1 /\ (u = <<>> <=> Len(v) = 1)
    BY <1>6, HeadFirst
  <2>2. <<d>> \in Seq(Chars) /\ <<c>> \in Seq(Chars)
    <3>1. \A q \in Chars : <<q>> \in Seq(Chars)
      OBVIOUS
    <3>2. QED
      BY <2>1, <3>1
  <2>3. c = d /\ r = u \o a
    <3>1. u \in Seq(Chars) /\ a \in Seq(Chars) /\ d \in Chars
      BY <1>2, <2>1
    <3> HIDE DEF d, u
    <3>2. Peels(c, r, d, u, a)
      BY <1>4, <2>1 DEF Peels
    <3>3. QED
      BY <3>1, <3>2, HeadPeeled
  <2>4. w = Append(x, c) \o u
    <3> HIDE DEF d, u
    <3>1. Append(x, c) = x \o <<c>>
      BY AppendIsConcat
    <3>2. (x \o <<c>>) \o u = x \o (<<c>> \o u)
      <4>1. u \in Seq(Chars) /\ <<c>> \in Seq(Chars)
        BY <2>1, <2>2
      <4>2. QED
        BY <4>1, Joined, SMTT(30)
    <3>3. QED
      BY <1>4, <2>1, <2>3, <3>1, <3>2
  <2>5. /\ Len(x) \in Nat /\ Len(x) >= 1 /\ Len(w) = Len(x) + Len(v)
        /\ w[1] = x[1] /\ w[Len(x) + 1] = c /\ Len(x) + 1 \in 1..Len(w)
    <3>1. Len(x) \in Nat /\ Len(x) >= 1
      BY EmptySeq
    <3>2. /\ Len(x \o v) = Len(x) + Len(v)
          /\ \A i \in 1..Len(x) + Len(v) : (x \o v)[i] = IF i <= Len(x) THEN x[i] ELSE v[i - Len(x)]
      BY ConcatProperties
    <3>3. 1 \in 1..Len(x) + Len(v) /\ Len(x) + 1 \in 1..Len(x) + Len(v) /\ Len(x) + 1 - Len(x) = 1
      <4> DEFINE m == Len(x)
                 n == Len(v)
      <4>1. m \in Nat /\ n \in Nat /\ m >= 1 /\ n >= 1
        BY <2>1, <3>1
      <4> HIDE DEF m, n
      <4>2. 1 \in 1..m + n /\ m + 1 \in 1..m + n /\ m + 1 - m = 1
        BY <4>1
      <4>3. QED
        BY <4>2 DEF m, n
    <3>4. (x \o v)[1] = x[1] /\ (x \o v)[Len(x) + 1] = v[1]
      BY <3>1, <3>2, <3>3
    <3>5. QED
      BY <1>4, <2>3, <3>1, <3>2, <3>3, <3>4
  <2> HIDE DEF d, u
  <2>6. ASSUME x[1] \in Quotes PROVE IF u = <<>> THEN c = x[1] ELSE c \notin {x[1], "\\"}
    <3>1. InQuotes(w, TRUE)
      BY <1>2, <2>5, <2>6 DEF Plain
    <3>2. w[Len(w)] = w[1] /\ \A n \in 2..Len(w) - 1 : Inside(w, n)
      BY <3>1 DEF InQuotes
    <3>3. CASE u = <<>>
      <4>1. Len(w) = Len(x) + 1
        BY <2>1, <2>5, <3>3
      <4>2. QED
        BY <2>5, <3>2, <3>3, <4>1
    <3>4. CASE u # <<>>
      <4>1. Len(x) + 1 \in 2..Len(w) - 1
        BY <2>1, <2>5, <3>4
      <4>2. QED
        BY <2>5, <3>2, <3>4, <4>1 DEF Inside
    <3>5. QED
      BY <3>3, <3>4
  <2>7. ASSUME x[1] \notin Quotes PROVE c \notin WordEnds
    <3>1. Plain(w)
      BY <1>2, <2>5, <2>7 DEF InQuotes
    <3>2. QED
      BY <2>5, <3>1 DEF Plain
  <2>8. QED
    BY <2>1, <2>3, <2>4, <2>6, <2>7
<1>7. QED
  BY <1>5, <1>6 DEF w, a, ComesWithin

\* What is left of the file.
From(s, n) == SubSeq(s, n + 1, Len(s))
Ahead      == From(text, read)

LEMMA FromIs ==
  ASSUME NEW s \in Seq(Chars), NEW n \in 0..Len(s)
  PROVE  /\ From(s, n) \in Seq(Chars) /\ From(s, 0) = s
         /\ n < Len(s) => /\ s[n + 1] \in Chars /\ n + 1 \in 0..Len(s)
                          /\ From(s, n) = <<s[n + 1]>> \o From(s, n + 1)
         /\ n = Len(s) <=> From(s, n) = <<>>
<1>1. n \in Nat /\ Len(s) \in Nat /\ \A i \in 1..Len(s) : s[i] \in Chars
  BY LenProperties, ElementOfSeq
<1>2. From(s, n) \in Seq(Chars) /\ Len(From(s, n)) = Len(s) - n
  <2>1. n + 1 \in Int /\ Len(s) \in Int /\ \A i \in n + 1..Len(s) : s[i] \in Chars
    BY <1>1
  <2>2. /\ From(s, n) \in Seq(Chars)
        /\ Len(From(s, n)) = IF n + 1 <= Len(s) THEN Len(s) - (n + 1) + 1 ELSE 0
    BY <2>1, SubSeqProperties DEF From
  <2>3. QED
    BY <1>1, <2>2
<1>3. From(s, 0) = s
  BY SubSeqFull DEF From
<1>4. ASSUME n < Len(s)
      PROVE  /\ s[n + 1] \in Chars /\ n + 1 \in 0..Len(s)
             /\ From(s, n) = <<s[n + 1]>> \o From(s, n + 1)
  <2>1. n + 1 \in 1..Len(s) /\ n + 1 \in 0..Len(s) /\ Len(s) \in n + 1..Len(s)
    BY <1>1, <1>4
  <2>2. SubSeq(s, n + 1, Len(s)) = <<s[n + 1]>> \o SubSeq(s, n + 1 + 1, Len(s))
    BY <2>1, SubSeqRecursiveFirst
  <2>3. QED
    BY <1>1, <2>1, <2>2 DEF From
<1>5. n = Len(s) <=> From(s, n) = <<>>
  <2> DEFINE f == From(s, n)
  <2>1. f \in Seq(Chars) /\ Len(f) = Len(s) - n
    BY <1>2
  <2> HIDE DEF f
  <2>2. f = <<>> <=> Len(f) = 0
    BY <2>1, EmptySeq
  <2>3. QED
    BY <1>1, <2>1, <2>2 DEF f
<1>6. QED
  BY <1>2, <1>3, <1>4, <1>5

LEMMA PrefixGrows ==
  ASSUME NEW ts \in Seq(Tokens), NEW k \in 0..Len(ts) - 1
  PROVE  Append(SubSeq(ts, 1, k), ts[k + 1]) = SubSeq(ts, 1, k + 1)
<1> DEFINE a == SubSeq(ts, 1, k)
           y == ts[k + 1]
<1>1. Len(ts) \in Nat /\ \A i \in 1..Len(ts) : ts[i] \in Tokens
  BY LenProperties, ElementOfSeq
<1>2. 1 \in 1..Len(ts) /\ k + 1 \in 1..Len(ts) /\ k + 1 - 1 = k /\ k \in Int /\ 1 \in Int
  BY <1>1
<1>3. a \in Seq(Tokens) /\ y \in Tokens
  <2>1. \A i \in 1..k : ts[i] \in Tokens
    BY <1>1, <1>2
  <2>2. QED
    BY <1>1, <1>2, <2>1, SubSeqProperties
<1>4. SubSeq(ts, 1, k + 1) = SubSeq(ts, 1, k + 1 - 1) \o <<ts[k + 1]>>
  BY <1>1, <1>2, SubSeqRecursiveSecond
<1>5. SubSeq(ts, 1, k + 1) = a \o <<y>>
  BY <1>2, <1>4
<1> HIDE DEF a, y
<1>6. Append(a, y) = a \o <<y>>
  BY <1>3, AppendIsConcat
<1>7. QED
  BY <1>5, <1>6 DEF a, y

\* Where the reader of a printed text is: between two of its tokens, or within
\* a word; it has returned the tokens before.
Apart(k) ==
  /\ state \in {"whitespace", "eof"} /\ tokens = SubSeq(first, 1, k)
  /\ Between(Ahead, first, k)
  /\ state = "eof" => Ahead = <<>>

Amid(k) ==
  /\ state \in {"normal", "quote"} /\ tokens = SubSeq(first, 1, k)
  /\ k < Len(first) /\ first[k + 1].kind = "normal"
  /\ \E v \in Seq(Chars) :
       /\ first[k + 1].value = value \o v /\ Ahead = v \o After(first, k + 1)
       /\ state = "quote" => v # <<>>

At == \E k \in 0..Len(first) : Apart(k) \/ Amid(k)

BackInv == back /\ ~lossy => Clean(first) /\ At

\* What is left behind the next character.
Further == From(text, read + 1)

LEMMA Facing ==
  ASSUME LexInv, read < Len(text)
  PROVE  Char \in Chars /\ Further \in Seq(Chars) /\ Ahead = <<Char>> \o Further
<1>1. text \in Seq(Chars) /\ read \in 0..Len(text)
  BY DEF LexInv, Reading
<1>2. /\ text[read + 1] \in Chars /\ read + 1 \in 0..Len(text)
      /\ From(text, read) = <<text[read + 1]>> \o From(text, read + 1)
  BY <1>1, FromIs
<1>3. From(text, read + 1) \in Seq(Chars)
  BY <1>1, <1>2, FromIs
<1>4. QED
  BY <1>2, <1>3 DEF Ahead, Char, Further

LEMMA Stepping ==
  ASSUME NEW here, NEW set, Get(here, set)
  PROVE  state = here /\ first' = first /\ read < Len(text) /\ Ahead' = Further
BY DEF Get, Ahead, Further

\* The tokens go on with the next one.
LEMMA NextToken ==
  ASSUME Clean(first), NEW k \in 0..Len(first), k < Len(first),
         tokens = SubSeq(first, 1, k), first' = first,
         tokens' = Append(tokens, first[k + 1]), state' = "whitespace",
         Between(Ahead', first, k + 1)
  PROVE  At'
<1>1. first \in Seq(Tokens) /\ Len(first) \in Nat
  BY CleanIs
<1>2. k \in 0..Len(first) - 1 /\ k + 1 \in 0..Len(first)
  BY <1>1
<1>3. tokens' = SubSeq(first, 1, k + 1)
  BY <1>1, <1>2, PrefixGrows
<1> DEFINE m == k + 1
<1>4. Between(Ahead', first', m) /\ tokens' = SubSeq(first', 1, m) /\ m \in 0..Len(first')
  BY <1>2, <1>3
<1> HIDE DEF m
<1>5. Apart(m)'
  BY <1>4 DEF Apart
<1>6. QED
  BY <1>4, <1>5 DEF At

LEMMA BackFromBlanks ==
  ASSUME LexInv, Clean(first), At, SkipBlank \/ Separator \/ Begin
  PROVE  At'
<1> DEFINE c == Char
           r == Ahead'
<1>1. /\ c \in Chars /\ r \in Seq(Chars) /\ Ahead = <<c>> \o r
      /\ state = "whitespace" /\ first' = first
  <2>1. state = "whitespace" /\ first' = first /\ read < Len(text) /\ r = Further
    BY Stepping DEF SkipBlank, Separator, Begin
  <2>2. QED
    BY <2>1, Facing
<1>2. PICK k \in 0..Len(first) : tokens = SubSeq(first, 1, k) /\ Between(<<c>> \o r, first, k)
  BY <1>1 DEF At, Apart, Amid
<1>3. value = <<>>
  BY <1>1 DEF LexInv, Word
<1>4. first \in Seq(Tokens) /\ Len(first) \in Nat
  BY CleanIs
<1> HIDE DEF c, r
<1>5. ComesBetween(first, k, c, r)
  BY <1>1, <1>2, InBetween
<1>6. CASE SkipBlank
  <2>1. c \in Blanks /\ state' = "whitespace" /\ tokens' = tokens
    BY <1>1, <1>6 DEF SkipBlank, Get, c
  <2>2. r = Rest(first, k)
    BY <1>5, <2>1, Classes DEF ComesBetween
  <2>3. Apart(k)'
    BY <1>1, <1>2, <2>1, <2>2 DEF Apart, Between, r
  <2>4. QED
    BY <1>1, <2>3 DEF At
<1>7. CASE Separator
  <2>1. /\ c \in Separators /\ state' = "whitespace"
        /\ tokens' = Append(tokens, [kind |-> KindOf(c), value |-> <<c>>])
    BY <1>7 DEF Separator, Get, Return, c
  <2>2. /\ k < Len(first) /\ r = After(first, k + 1)
        /\ first[k + 1] = [kind |-> KindOf(c), value |-> <<c>>]
    BY <1>5, <2>1, Classes DEF ComesBetween
  <2>3. Between(r, first, k + 1)
    <3>1. k + 1 \in 0..Len(first)
      BY <1>4, <2>2
    <3>2. QED
      BY <1>4, <2>2, <3>1, AfterToken
  <2>4. QED
    BY <1>1, <1>2, <2>1, <2>2, <2>3, NextToken DEF r
<1>8. CASE Begin
  <2>1. /\ c \notin Blanks \cup Separators /\ value' = Append(value, c) /\ tokens' = tokens
        /\ state' = IF c \in Quotes THEN "quote" ELSE IF c = "#" THEN "comment" ELSE "normal"
    BY <1>8 DEF Begin, Get, Grow, c
  <2>2. PICK v \in Seq(Chars) : /\ first[k + 1].value = <<c>> \o v /\ r = v \o After(first, k + 1)
                                /\ c \in Quotes => v # <<>>
    BY <1>5, <2>1 DEF ComesBetween
  <2>3. k < Len(first) /\ first[k + 1].kind = "normal" /\ c # "#"
    BY <1>5, <2>1 DEF ComesBetween
  <2>4. value' = <<c>>
    BY <1>3, <2>1
  <2>5. Amid(k)'
    BY <1>1, <1>2, <2>1, <2>2, <2>3, <2>4 DEF Amid, r
  <2>6. QED
    BY <1>1, <2>5 DEF At
<1>9. QED
  BY <1>6, <1>7, <1>8

\* What is within a word when a character comes.
LEMMA AtWord ==
  ASSUME LexInv, Clean(first), At, NEW here \in {"normal", "quote"}, state = here,
         read < Len(text)
  PROVE  \E k \in 0..Len(first) :
           /\ k < Len(first) /\ tokens = SubSeq(first, 1, k) /\ first[k + 1].kind = "normal"
           /\ \/ /\ here = "normal" /\ Char \in WordEnds
                 /\ first[k + 1].value = value /\ Ahead = After(first, k + 1)
              \/ \E u \in Seq(Chars) :
                   /\ Further = u \o After(first, k + 1)
                   /\ first[k + 1].value = Append(value, Char) \o u
                   /\ here = "normal" => Char \notin WordEnds
                   /\ here = "quote" =>
                        IF u = <<>> THEN Char = value[1] ELSE Char \notin {value[1], "\\"}
<1> DEFINE c == Char
           r == Further
<1>1. c \in Chars /\ r \in Seq(Chars) /\ Ahead = <<c>> \o r
  BY Facing
<1>2. PICK k \in 0..Len(first) : Amid(k)
  BY <1>1 DEF At, Apart
<1>3. PICK v \in Seq(Chars) :
        /\ first[k + 1].value = value \o v /\ Ahead = v \o After(first, k + 1)
        /\ here = "quote" => v # <<>>
  BY <1>1, <1>2 DEF Amid
<1>4. first \in Seq(Tokens) /\ Len(first) \in Nat
  BY CleanIs
<1>5. k < Len(first) /\ tokens = SubSeq(first, 1, k) /\ first[k + 1].kind = "normal"
  BY <1>2 DEF Amid
<1>6. k \in 0..Len(first) - 1
  BY <1>4, <1>5
<1>7. /\ value \in Seq(Chars) /\ value # <<>>
      /\ here = "normal" => value[1] \notin Quotes
      /\ here = "quote" => value[1] \in Quotes
  BY <1>1 DEF LexInv, Word, Plain
<1> HIDE DEF c, r
<1>8. <<c>> \o r = v \o After(first, k + 1)
  BY <1>1, <1>3
<1>9. ComesWithin(first, k, value, v, c, r)
  BY <1>1, <1>3, <1>5, <1>6, <1>7, <1>8, InWord
<1>10. CASE v = <<>>
  <2>1. here = "normal" /\ c \in WordEnds /\ Ahead = After(first, k + 1)
    BY <1>1, <1>3, <1>9, <1>10 DEF ComesWithin
  <2>2. first[k + 1].value = value
    BY <1>3, <1>7, <1>10, ConcatEmptySeq
  <2>3. QED
    BY <1>5, <2>1, <2>2 DEF c
<1>11. CASE v # <<>>
  BY <1>5, <1>7, <1>9, <1>11 DEF ComesWithin, c, r
<1>12. QED
  BY <1>10, <1>11

LEMMA BackFromQuote ==
  ASSUME LexInv, Clean(first), At, ReadQuoted \/ Escape \/ ReadEscaped \/ CloseQuote
  PROVE  At'
<1>1. state # "escape"
  BY DEF At, Apart, Amid
<1>2. ReadQuoted \/ Escape \/ CloseQuote
  BY <1>1 DEF ReadEscaped, Get
<1>3. state = "quote" /\ first' = first /\ read < Len(text) /\ Ahead' = Further
  BY <1>2, Stepping DEF ReadQuoted, Escape, CloseQuote
<1>4. PICK k \in 0..Len(first), u \in Seq(Chars) :
        /\ k < Len(first) /\ tokens = SubSeq(first, 1, k) /\ first[k + 1].kind = "normal"
        /\ Further = u \o After(first, k + 1)
        /\ first[k + 1].value = Append(value, Char) \o u
        /\ IF u = <<>> THEN Char = value[1] ELSE Char \notin {value[1], "\\"}
  <2>1. "quote" \in {"normal", "quote"}
    OBVIOUS
  <2>2. QED
    BY <1>3, <2>1, AtWord
<1>5. value[1] \in Quotes /\ Char \in Chars
  <2>1. value[1] \in Quotes
    BY <1>3 DEF LexInv, Word
  <2>2. QED
    BY <1>3, <2>1, Facing
<1>6. CASE ReadQuoted
  <2>1. /\ Char \notin {value[1], "\\"} /\ value' = Append(value, Char)
        /\ state' = "quote" /\ tokens' = tokens
    BY <1>6 DEF ReadQuoted, Get, Grow
  <2>2. u # <<>>
    BY <1>4, <2>1
  <2>3. Amid(k)'
    BY <1>3, <1>4, <2>1, <2>2 DEF Amid
  <2>4. QED
    BY <1>3, <2>3 DEF At
<1>7. CASE Escape
  <2>1. Char = "\\"
    BY <1>7 DEF Escape, Get
  <2>2. QED
    BY <1>4, <1>5, <2>1, Classes
<1>8. CASE CloseQuote
  <2> DEFINE w == Append(value, Char)
             a == After(first, k + 1)
  <2>1. /\ Char = value[1] /\ read' = read + 1 /\ text' = text
        /\ IF read' < Len(text) /\ text[read' + 1] \in WordEnds
           THEN Return("normal", w) ELSE Grow("error")
    BY <1>8 DEF CloseQuote, Get
  <2>2. first \in Seq(Tokens) /\ k + 1 \in 1..Len(first) /\ k + 1 \in 0..Len(first)
    <3>1. first \in Seq(Tokens) /\ Len(first) \in Nat
      BY CleanIs
    <3>2. QED
      BY <1>4, <3>1
  <2>3. first[k + 1] \in Tokens
    BY <2>2, CleanIs
  <2>4. a \in Seq(Chars)
    BY <2>2, RestIs
  <2>5. w \in Seq(Chars)
    BY <1>5, Longer
  <2>6. PICK e \in WordEnds, z \in Seq(Chars) : a = <<e>> \o z
    BY <1>4, <2>2, BehindWord
  <2> HIDE DEF w, a
  <2>7. Further = a /\ first[k + 1].value = w
    <3>1. u = <<>>
      BY <1>4, <2>1
    <3>2. <<>> \o a = a /\ w \o <<>> = w
      BY <2>4, <2>5, ConcatEmptySeq
    <3>3. QED
      BY <1>4, <3>1, <3>2 DEF a, w
  <2>8. first[k + 1] = [kind |-> "normal", value |-> w]
    BY <1>4, <2>3, <2>7 DEF Tokens
  <2>9. read + 1 < Len(text) /\ text[read + 1 + 1] \in WordEnds
    <3> DEFINE n == read + 1
               f == From(text, n)
               t == text[n + 1]
               b == From(text, n + 1)
    <3>1. text \in Seq(Chars) /\ n \in 0..Len(text) /\ Len(text) \in Nat
      <4>1. text \in Seq(Chars) /\ read \in 0..Len(text)
        BY DEF LexInv, Reading
      <4>2. Len(text) \in Nat
        BY <4>1, LenProperties
      <4>3. QED
        BY <1>3, <4>1, <4>2
    <3>2. f = <<e>> \o z
      BY <2>6, <2>7 DEF Further
    <3>3. e \in Chars /\ <<e>> \in Seq(Chars) /\ <<e>> # <<>>
      <4>1. e \in Chars
        BY Classes
      <4>2. QED
        BY <4>1
    <3>4. <<e>> \o z # <<>>
      BY <3>3, ConcatEqualIffEmpty
    <3> HIDE DEF n
    <3>5. n < Len(text)
      <4>1. n # Len(text)
        BY <3>1, <3>2, <3>4, FromIs
      <4>2. QED
        BY <3>1, <4>1
    <3>6. t \in Chars /\ n + 1 \in 0..Len(text) /\ f = <<t>> \o b
      BY <3>1, <3>5, FromIs
    <3>7. b \in Seq(Chars)
      BY <3>1, <3>6, FromIs
    <3> HIDE DEF f, t, b
    <3>8. t = e
      BY <3>2, <3>3, <3>6, <3>7, HeadsMatch
    <3>9. QED
      BY <3>5, <3>8 DEF n, t
  <2>10. tokens' = Append(tokens, first[k + 1]) /\ state' = "whitespace"
    BY <2>1, <2>8, <2>9 DEF Return
  <2>11. Between(Ahead', first, k + 1)
    BY <1>3, <2>2, <2>7, AfterToken DEF a
  <2>12. QED
    BY <1>3, <1>4, <2>10, <2>11, NextToken
<1>9. QED
  BY <1>2, <1>6, <1>7, <1>8

LEMMA BackFromWord ==
  ASSUME LexInv, Clean(first), At, ReadComment \/ EndComment \/ ReadWord \/ EndWord
  PROVE  At'
<1>1. state # "comment"
  BY DEF At, Apart, Amid
<1>2. CASE ReadWord
  <2>1. state = "normal" /\ first' = first /\ read < Len(text) /\ Ahead' = Further
    BY <1>2, Stepping DEF ReadWord
  <2>2. /\ Char \notin WordEnds /\ value' = Append(value, Char)
        /\ state' = "normal" /\ tokens' = tokens
    BY <1>2 DEF ReadWord, Get, Grow
  <2>3. PICK k \in 0..Len(first), u \in Seq(Chars) :
          /\ k < Len(first) /\ tokens = SubSeq(first, 1, k) /\ first[k + 1].kind = "normal"
          /\ Further = u \o After(first, k + 1)
          /\ first[k + 1].value = Append(value, Char) \o u
    <3>1. "normal" \in {"normal", "quote"}
      OBVIOUS
    <3>2. QED
      BY <2>1, <2>2, <3>1, AtWord
  <2>4. Amid(k)'
    BY <2>1, <2>2, <2>3 DEF Amid
  <2>5. QED
    BY <2>1, <2>4 DEF At
<1>3. CASE EndWord
  <2>1. /\ state = "normal" /\ first' = first /\ read < Len(text) /\ Char \in WordEnds
        /\ Ahead' = Ahead /\ state' = "whitespace"
        /\ tokens' = Append(tokens, [kind |-> "normal", value |-> value])
    BY <1>3 DEF EndWord, Return, Ahead
  <2>2. PICK k \in 0..Len(first) :
          /\ k < Len(first) /\ tokens = SubSeq(first, 1, k) /\ first[k + 1].kind = "normal"
          /\ first[k + 1].value = value /\ Ahead = After(first, k + 1)
    <3>1. "normal" \in {"normal", "quote"}
      OBVIOUS
    <3>2. QED
      BY <2>1, <3>1, AtWord
  <2>3. first \in Seq(Tokens) /\ k + 1 \in 1..Len(first) /\ k + 1 \in 0..Len(first)
    <3>1. first \in Seq(Tokens) /\ Len(first) \in Nat
      BY CleanIs
    <3>2. QED
      BY <2>2, <3>1
  <2>4. first[k + 1] = [kind |-> "normal", value |-> value]
    <3>1. first[k + 1] \in Tokens
      BY <2>3, CleanIs
    <3>2. QED
      BY <2>2, <3>1 DEF Tokens
  <2>5. Between(Ahead', first, k + 1)
    BY <2>1, <2>2, <2>3, AfterToken
  <2>6. QED
    BY <2>1, <2>2, <2>4, <2>5, NextToken
<1>4. QED
  BY <1>1, <1>2, <1>3 DEF ReadComment, EndComment, Get

LEMMA BackFromEnd ==
  ASSUME LexInv, Clean(first), At, EndOfFile
  PROVE  At'
<1>1. /\ read = Len(text) /\ first' = first /\ tokens' = tokens /\ Ahead' = Ahead
      /\ state' = IF state = "quote" THEN "error" ELSE "eof"
  BY DEF EndOfFile, Ahead
<1>2. Ahead = <<>>
  <2>1. text \in Seq(Chars) /\ read \in 0..Len(text)
    BY DEF LexInv, Reading
  <2>2. QED
    BY <1>1, <2>1, FromIs DEF Ahead
<1>3. PICK k \in 0..Len(first) : Apart(k) \/ Amid(k)
  BY DEF At
<1>4. CASE Apart(k)
  <2>1. Apart(k)'
    BY <1>1, <1>2, <1>4 DEF Apart
  <2>2. QED
    BY <1>1, <2>1 DEF At
<1>5. CASE Amid(k)
  <2> DEFINE a == After(first, k + 1)
  <2>1. PICK v \in Seq(Chars) : v \o a = <<>>
    BY <1>2, <1>5 DEF Amid
  <2>2. first \in Seq(Tokens) /\ k + 1 \in 1..Len(first) /\ k + 1 \in 0..Len(first)
    <3>1. first \in Seq(Tokens) /\ Len(first) \in Nat
      BY CleanIs
    <3>2. QED
      BY <1>5, <3>1 DEF Amid
  <2>3. a \in Seq(Chars)
    BY <2>2, RestIs
  <2>4. PICK e \in WordEnds, z \in Seq(Chars) : a = <<e>> \o z
    BY <1>5, <2>2, BehindWord DEF Amid
  <2> HIDE DEF a
  <2>5. a = <<>>
    BY <2>1, <2>3, ConcatEqualIffEmpty
  <2>6. <<e>> \in Seq(Chars) /\ <<e>> # <<>>
    <3>1. e \in Chars
      BY Classes
    <3>2. QED
      BY <3>1
  <2>7. <<e>> \o z # <<>>
    BY <2>6, ConcatEqualIffEmpty
  <2>8. QED
    BY <2>4, <2>5, <2>7
<1>6. QED
  BY <1>3, <1>4, <1>5

LEMMA ParsesEnd ==
  ASSUME NEW ts, Parses(ts), Len(ts) \in Nat, Len(ts) > 0
  PROVE  ts[Len(ts)].kind # "normal"
<1> DEFINE m == Len(ts) + 1
<1>1. (IF m = 1 THEN "start" ELSE ts[m - 1].kind) \in {"start", "end", "end block"}
  BY DEF Parses
<1>2. m # 1 /\ m - 1 = Len(ts)
  OBVIOUS
<1> HIDE DEF m
<1>3. ts[m - 1].kind \in {"start", "end", "end block"}
  BY <1>1, <1>2
<1>4. QED
  BY <1>2, <1>3

LEMMA BackFromPrint ==
  ASSUME LexInv, PrintConfig, ~lossy
  PROVE  Clean(first') /\ At'
<1> DEFINE ts == Leaving(tokens, Comments)
           T == {t \in Tokens : IsToken(t, TRUE)}
<1>1. /\ Parses(ts) /\ text' = Printed(ts) /\ first' = ts
      /\ read' = 0 /\ state' = "whitespace" /\ tokens' = <<>>
  BY DEF PrintConfig
<1>2. tokens \in Seq(T)
  <2>1. tokens \in Seq(Tokens) /\ \A i \in 1..Len(tokens) : IsToken(tokens[i], TRUE)
    BY DEF LexInv, AreTokens
  <2>2. Len(tokens) \in Nat /\ tokens \in [1..Len(tokens) -> Tokens]
    BY <2>1, LenProperties
  <2>3. tokens \in [1..Len(tokens) -> T]
    BY <2>1, <2>2
  <2> HIDE DEF T
  <2>4. QED
    BY <2>2, <2>3
<1>3. ts \in Seq(T \ Comments)
  BY <1>2, LeavingType
<1> HIDE DEF ts
<1>4. Len(ts) \in Nat /\ \A i \in 1..Len(ts) : ts[i] \in T \ Comments
  BY <1>3, LenProperties, ElementOfSeq
<1>5. ts \in Seq(Tokens)
  <2>1. \A t \in T \ Comments : t \in Tokens
    OBVIOUS
  <2> HIDE DEF T
  <2>2. QED
    BY <1>3, <2>1
<1>6. \A i \in 1..Len(ts) : IsToken(ts[i], TRUE) /\ ts[i].kind # "comment"
  <2> TAKE i \in 1..Len(ts)
  <2> DEFINE t == ts[i]
  <2>1. t \in Tokens /\ IsToken(t, TRUE) /\ t \notin Comments
    BY <1>4
  <2> HIDE DEF t
  <2>2. t.kind # "comment"
    BY <2>1 DEF Tokens, Comments
  <2>3. QED
    BY <2>1, <2>2 DEF t
<1>7. Clean(ts)
  BY <1>1, <1>4, <1>5, <1>6, ParsesEnd DEF Clean, AreTokens
<1>8. Ahead' = Rest(ts, 0)
  <2>1. Printed(ts) = Rest(ts, 0)
    BY <1>5, RestIs
  <2>2. Rest(ts, 0) \in Seq(Chars)
    <3>1. 0 \in 0..Len(ts)
      BY <1>4
    <3>2. QED
      BY <1>5, <3>1, RestIs
  <2> DEFINE p == Printed(ts)
  <2>3. p \in Seq(Chars) /\ Ahead' = From(p, 0)
    BY <1>1, <2>1, <2>2 DEF Ahead
  <2> HIDE DEF p
  <2>4. 0 \in 0..Len(p)
    BY <2>3, LenProperties
  <2>5. QED
    BY <2>1, <2>3, <2>4, FromIs DEF p
<1>9. Apart(0)'
  <2>1. SubSeq(ts, 1, 0) = <<>>
    BY SubSeqEmpty
  <2>2. QED
    BY <1>1, <1>8, <2>1 DEF Apart, Between
<1>10. 0 \in 0..Len(first')
  BY <1>1, <1>4
<1>11. QED
  BY <1>1, <1>7, <1>9, <1>10 DEF At

LEMMA BackNext == LexInv /\ BackInv /\ [Next]_vars => BackInv'
<1> SUFFICES ASSUME LexInv, BackInv, [Next]_vars, back', ~lossy' PROVE Clean(first') /\ At'
  BY DEF BackInv
<1>1. CASE PrintConfig
  <2>1. ~lossy
    BY <1>1 DEF PrintConfig
  <2>2. QED
    BY <1>1, <2>1, BackFromPrint
<1>2. CASE Stop \/ UNCHANGED vars
  BY <1>2 DEF Stop, vars, BackInv, At, Apart, Amid, Ahead
<1>3. CASE Next /\ ~PrintConfig /\ ~Stop
  <2>1. back /\ ~lossy /\ first' = first
    <3>1. lossy' = lossy \/ lossy' = (lossy \/ Char \in {value[1], "\\"})
      BY <1>3 DEF Next, SkipBlank, Separator, Begin, ReadQuoted, Escape, ReadEscaped, CloseQuote,
                  ReadComment, EndComment, ReadWord, EndWord, EndOfFile, Return
    <3>2. back' = back /\ first' = first
      BY <1>3 DEF Next, SkipBlank, Separator, Begin, ReadQuoted, Escape, ReadEscaped, CloseQuote,
                  ReadComment, EndComment, ReadWord, EndWord, EndOfFile, Get
    <3>3. ~lossy
      BY <3>1, Zenon
    <3>4. QED
      BY <3>2, <3>3
  <2>2. Clean(first) /\ At
    BY <2>1 DEF BackInv
  <2>3. At'
    BY <1>3, <2>2, BackFromBlanks, BackFromQuote, BackFromWord, BackFromEnd DEF Next
  <2>4. QED
    BY <2>1, <2>2, <2>3
<1>4. QED
  BY <1>1, <1>2, <1>3

LEMMA BackReads == BackInv => ReadBack
<1> SUFFICES ASSUME BackInv, back, ~lossy PROVE state # "error" /\ (state = "eof" => tokens = first)
  BY DEF ReadBack
<1>1. Clean(first) /\ At
  BY DEF BackInv
<1>2. PICK k \in 0..Len(first) : Apart(k) \/ Amid(k)
  BY <1>1 DEF At
<1>3. state # "error"
  BY <1>2 DEF Apart, Amid
<1>4. ASSUME state = "eof" PROVE tokens = first
  <2>1. tokens = SubSeq(first, 1, k) /\ Between(<<>>, first, k)
    BY <1>2, <1>4 DEF Apart, Amid
  <2>2. k = Len(first) /\ first \in Seq(Tokens)
    BY <1>1, <2>1, NothingLeft, CleanIs
  <2>3. SubSeq(first, 1, Len(first)) = first
    BY <2>2, SubSeqFull
  <2>4. QED
    BY <2>1, <2>2, <2>3
<1>5. QED
  BY <1>3, <1>4

\* Printing a configuration and parsing it again changes nothing, of any file
\* that parses and escapes no quote and no backslash.
THEOREM PrintedReadsBack == Spec => []ReadBack
<1>1. Init => BackInv
  BY DEF Init, BackInv
<1>2. QED
  BY <1>1, BackNext, BackReads, LexInvariant, PTL DEF Spec
=============================================================================
