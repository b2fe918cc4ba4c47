------------------------------- MODULE Palette -------------------------------
(***************************************************************************)
(* PaletteHandler (request_handler/palette_handler.cc) and PaletteAPI      *)
(* (palette_api.cc): a word becomes a colour, the colour a palette, each   *)
(* colour of the palette a name, by way of three web services that may     *)
(* fail, or answer what nobody expects.  A failed call throws what the     *)
(* code catches; a bad answer throws, in substr and read_json, what it     *)
(* does not catch, and the process ends.  One thread serves one request    *)
(* at a time; requests of different threads share nothing but libcurl.     *)
(***************************************************************************)
EXTENDS Integers, Sequences

CONSTANTS
  Bodies,      \* request bodies: sequences of "a", " ", "\n" and "/"
  Colors,      \* hex codes
  Names,       \* names of colours
  MaxColors    \* bound: colours in a palette

\* A letter or a digit, the blanks the handler trims, and what it refuses.
Chars      == {"a", " ", "\n", "/"}
Whitespace == {" ", "\n"}

\* What a service sends that is no proper answer.
Fails    == "fails"      \* no connection, a timeout: curlpp throws
Cut      == "cut"        \* a page that ends at the marker of the colour
Nonsense == "nonsense"   \* not JSON, or JSON without the name

ASSUME ConstantsAssumption ==
  /\ Bodies \subseteq Seq(Chars) /\ MaxColors \in Nat
  /\ {Fails, Cut, Nonsense, ""} \cap (Colors \cup Names) = {}

VARIABLES
  phase,    \* what the handler does next
  query,    \* the words in the URL of the first service
  color,    \* what get_color returned
  colors,   \* what get_palette returned
  names,    \* colorNames
  reply,    \* the response: its code and its pairs of colour and name
  told,     \* history: the names the third service gave for this request
  answer    \* history: the last answer of a service

vars == <<phase, query, color, colors, names, reply, told, answer>>

NoReply == [code |-> 0, pairs |-> <<>>]
Code(c) == [code |-> c, pairs |-> <<>>]

Palettes == UNION {[1..n -> Colors] : n \in 0..MaxColors}

\* A pair's name is "undefined" where the code reads behind the end of the names.
Pairs     == Seq(Colors \X (Names \cup {"undefined"}))
Responses == [code : {0, 200, 400, 500}, pairs : Pairs]

TypeOK ==
  /\ phase \in {"idle", "color", "palette", "names", "respond", "reply", "died"}
  /\ query \in Seq(Chars \cup {"+"})
  /\ color \in Colors \cup {""}
  /\ colors \in Palettes
  /\ names \in Seq(Names) /\ Len(names) <= Len(colors)
  /\ reply \in Responses
  /\ told \in Seq(Colors \X Names)

Init ==
  /\ phase = "idle" /\ query = <<>>
  /\ color = "" /\ colors = <<>> /\ names = <<>>
  /\ reply = NoReply
  /\ told = <<>> /\ answer = ""

-----------------------------------------------------------------------------
(* PaletteHandler::handle_request *)

\* The second assignment cuts the end of s, not of the string without its front.
TrimWhitespace(s) ==
  LET solid == {n \in DOMAIN s : s[n] \notin Whitespace}
      end   == CHOOSE n \in solid : \A m \in solid : m <= n
  IN IF solid = {} THEN <<>> ELSE SubSeq(s, 1, end)

ValidInput(s) == s # <<>> /\ \A n \in DOMAIN s : s[n] \in {"a"} \cup Whitespace

Plus(s) == [n \in DOMAIN s |-> IF s[n] = " " THEN "+" ELSE s[n]]

HandleRequest(method, body) ==
  /\ phase = "idle"
  /\ IF method = "POST" /\ ValidInput(TrimWhitespace(body))
     THEN phase' = "color" /\ query' = Plus(TrimWhitespace(body)) /\ UNCHANGED reply
     ELSE phase' = "reply" /\ reply' = Code(400) /\ UNCHANGED query
  /\ UNCHANGED <<color, colors, names, told, answer>>

-----------------------------------------------------------------------------
(* PaletteAPI *)

Die == phase' = "died" /\ UNCHANGED <<color, colors, names, told>>

\* get_color: fails, no marker in the page, a page that ends right behind it,
\* or a colour.
GetColor ==
  /\ phase = "color"
  /\ answer' \in {Fails, Cut, ""} \cup Colors
  /\ IF answer' = Cut THEN Die
     ELSE /\ color' = IF answer' = Fails THEN "" ELSE answer'
          /\ phase' = IF color' = "" THEN "names" ELSE "palette"
          /\ UNCHANGED <<colors, names, told>>
  /\ UNCHANGED <<query, reply>>

\* get_palette: fails, or the colours in the page, none if it has no palette.
GetPalette ==
  /\ phase = "palette" /\ phase' = "names"
  /\ \/ answer' = Fails /\ UNCHANGED colors
     \/ answer' = "" /\ colors' \in Palettes
  /\ UNCHANGED <<query, color, names, reply, told>>

\* Mutant: the names got so far are returned.
NameFailsLate ==
  /\ phase = "names" /\ Len(names) < Len(colors)
  /\ answer' = Fails /\ phase' = "respond"
  /\ UNCHANGED <<query, color, colors, names, reply, told>>

\* Mutant: after a failure the names are asked for again.
NameFailsRetried ==
  /\ phase = "names" /\ Len(names) < Len(colors)
  /\ answer' = Fails
  /\ names' = <<>> /\ told' = <<>>
  /\ UNCHANGED <<phase, query, color, colors, reply>>

\* Mutant: nobody catches what curlpp throws.
NameFailsUncaught ==
  /\ phase = "names" /\ Len(names) < Len(colors)
  /\ answer' = Fails /\ Die
  /\ UNCHANGED <<query, reply>>

\* get_names: a call that fails forgets all names.
NameFails ==
  /\ phase = "names" /\ Len(names) < Len(colors)
  /\ answer' = Fails /\ phase' = "respond"
  /\ names' = <<>>
  /\ UNCHANGED <<query, color, colors, reply, told>>

\* parse_json throws.
NameIsNonsense ==
  /\ phase = "names" /\ Len(names) < Len(colors)
  /\ answer' = Nonsense /\ Die
  /\ UNCHANGED <<query, reply>>

GetName ==
  /\ phase = "names" /\ Len(names) < Len(colors)
  /\ \E n \in Names :
       /\ answer' = n
       /\ names' = Append(names, n)
       /\ told' = Append(told, <<colors[Len(names) + 1], n>>)
  /\ UNCHANGED <<phase, query, color, colors, reply>>

\* The loop of get_names is done.
NamesDone ==
  /\ phase = "names" /\ Len(names) = Len(colors)
  /\ phase' = "respond"
  /\ UNCHANGED <<query, color, colors, names, reply, told, answer>>

\* colorNames[i], which may lie behind the end of the vector.
NameAt(i) == IF i <= Len(names) THEN names[i] ELSE "undefined"

\* 500 without colours or names; else generate_json_response.
Respond ==
  /\ phase = "respond" /\ phase' = "reply"
  /\ reply' = IF colors = <<>> \/ names = <<>> THEN Code(500)
              ELSE [code |-> 200,
                    pairs |-> [i \in DOMAIN colors |-> <<colors[i], NameAt(i)>>]]
  /\ UNCHANGED <<query, color, colors, names, told, answer>>

\* Mutant: the names are kept from one request to the next.
ReturnKeepsNames ==
  /\ phase = "reply" /\ phase' = "idle"
  /\ query' = <<>> /\ color' = "" /\ colors' = <<>> /\ UNCHANGED names
  /\ reply' = NoReply /\ told' = <<>> /\ answer' = ""

\* The response is sent; the locals of the handler go.
Return ==
  /\ phase = "reply" /\ phase' = "idle"
  /\ query' = <<>> /\ color' = "" /\ colors' = <<>> /\ names' = <<>>
  /\ reply' = NoReply /\ told' = <<>> /\ answer' = ""

Died == phase = "died" /\ UNCHANGED vars

Next ==
  \/ \E b \in Bodies : HandleRequest("POST", b) \/ HandleRequest("GET", b)
  \/ GetColor \/ GetPalette \/ NameFails \/ NameIsNonsense \/ GetName \/ NamesDone
  \/ Respond \/ Return \/ Died

Spec == Init /\ [][Next]_vars

Busy == GetColor \/ GetPalette \/ NameFails \/ NameIsNonsense \/ GetName \/ NamesDone
          \/ Respond \/ Return

\* A service answers at last, or the connection to it breaks.
FairSpec == Spec /\ WF_vars(Busy)

-----------------------------------------------------------------------------
(* What the code keeps true. *)

\* A client that gets a palette gets all of it: the colours one service gave,
\* each with the name the other gave for that very colour, however many calls
\* failed before or after.
WholePalette ==
  reply.code = 200 =>
    /\ reply.pairs = told /\ told # <<>>
    /\ colors = [i \in DOMAIN told |-> told[i][1]]

\* A service that is down costs its client a palette, but not the server its
\* life: the process dies only of an answer that makes no sense.
DiesOfNonsense == phase = "died" => answer \in {Cut, Nonsense}

\* Every request is answered or the process dies, if the services answer.
Answered == phase # "idle" ~> phase \in {"idle", "died"}
=============================================================================
