---------------------------- MODULE FrontendProofs ----------------------------
(***************************************************************************)
(* Proofs about Palette and Frontend, for all texts, colours and names and *)
(* any number of requests: first the handler alone, then that the page and *)
(* its network use it as its specification allows, so that what holds of   *)
(* the handler holds there, then the page.                                 *)
(***************************************************************************)
EXTENDS Frontend, SequenceTheorems, WellFoundedInduction, TLAPS

-----------------------------------------------------------------------------
LEMMA Bounds == MaxColors \in Nat /\ Bodies \subseteq Seq(Chars)
BY Zenon, ConstantsAssumption DEF ConstantsAssumption

-----------------------------------------------------------------------------
(* The text of a request. *)

\* A set of numbers with a bound, not empty, has a greatest element.
LEMMA Greatest ==
  ASSUME NEW n \in Nat, NEW T, T \subseteq 1..n, T # {}
  PROVE  \E x \in T : \A y \in T : y <= x
<1> DEFINE Below == {n - x : x \in T}
<1>1. Below \subseteq Nat /\ Below # {}
  <2>1. \A x \in T : x \in Int /\ x <= n
    OBVIOUS
  <2>2. \A b \in Below : b \in Nat
    BY <2>1
  <2>3. QED
    BY <2>2
<1>2. PICK x \in Below : \A y \in Below : ~ (<<y, x>> \in OpToRel(<, Nat))
  <2> HIDE DEF Below
  <2> QED BY <1>1, NatLessThanWellFounded, WFMin
<1>3. \A y \in Below : y \in Nat /\ x \in Nat /\ ~ (y < x)
  BY <1>1, <1>2 DEF OpToRel
<1>4. PICK m \in T : x = n - m
  OBVIOUS
<1>5. \A y \in T : y \in Int /\ m \in Int /\ ~ (n - y < n - m)
  BY <1>3, <1>4
<1>6. QED
  BY <1>4, <1>5

\* What trim_whitespace leaves is a text, and what the handler puts into the URL.
LEMMA QueryType ==
  ASSUME NEW s \in Seq(Chars)
  PROVE  Plus(TrimWhitespace(s)) \in Seq(Chars \cup {"+"})
<1>1. TrimWhitespace(s) \in Seq(Chars)
  <2> DEFINE solid == {n \in DOMAIN s : s[n] \notin Whitespace}
             end   == CHOOSE n \in solid : \A m \in solid : m <= n
  <2>1. Len(s) \in Nat /\ DOMAIN s = 1..Len(s) /\ \A i \in 1..Len(s) : s[i] \in Chars
    BY LenProperties, ElementOfSeq
  <2>2. CASE solid = {}
    BY <2>2, EmptySeq DEF TrimWhitespace
  <2>3. CASE solid # {}
    <3>1. end \in 1..Len(s)
      <4>1. solid \subseteq 1..Len(s)
        BY <2>1
      <4>2. \E n \in solid : \A m \in solid : m <= n
        <5> HIDE DEF solid
        <5> QED BY <2>1, <2>3, <4>1, Greatest
      <4>3. end \in solid
        <5> HIDE DEF solid
        <5> QED BY <4>2
      <4>4. QED
        BY <4>1, <4>3
    <3>2. SubSeq(s, 1, end) \in Seq(Chars)
      <4> HIDE DEF solid, end
      <4>1. 1 \in Int /\ end \in Int /\ \A i \in 1..end : s[i] \in Chars
        BY <2>1, <3>1
      <4>2. QED
        BY ONLY <4>1, SubSeqProperties
    <3>3. QED
      BY <2>3, <3>2 DEF TrimWhitespace
  <2>4. QED
    BY <2>2, <2>3
<1>2. ASSUME NEW r \in Seq(Chars)
      PROVE  Plus(r) \in Seq(Chars \cup {"+"})
  <2>1. Len(r) \in Nat /\ DOMAIN r = 1..Len(r) /\ \A i \in 1..Len(r) : r[i] \in Chars
    BY LenProperties, ElementOfSeq
  <2>2. Plus(r) \in [1..Len(r) -> Chars \cup {"+"}]
    BY <2>1 DEF Plus
  <2>3. QED
    BY <2>1, <2>2, SeqDef
<1>3. QED
  BY <1>1, <1>2

-----------------------------------------------------------------------------
(* The handler. *)

\* Each name stands at its colour.
Matched ==
  /\ Len(told) = Len(names) /\ Len(names) <= Len(colors)
  /\ \A i \in 1..Len(names) : told[i] = <<colors[i], names[i]>>

Fresh == colors = <<>> /\ names = <<>> /\ told = <<>> /\ reply = NoReply

\* What the locals of handle_request hold at each point of it.
Flow ==
  /\ phase \in {"idle", "color", "palette"} => Fresh
  /\ phase = "names" => Matched /\ reply = NoReply
  /\ phase = "respond" =>
       reply = NoReply /\ (names = <<>> \/ (Matched /\ Len(names) = Len(colors)))
  /\ phase = "died" => reply = NoReply

HandlerInv == TypeOK /\ Flow /\ WholePalette /\ DiesOfNonsense

LEMMA PaletteIsSeq == \A p \in Palettes : p \in Seq(Colors) /\ Len(p) \in Nat
<1> SUFFICES ASSUME NEW p \in Palettes PROVE p \in Seq(Colors) /\ Len(p) \in Nat
  OBVIOUS
<1>1. PICK n \in 0..MaxColors : p \in [1..n -> Colors]
  BY DEF Palettes
<1>2. n \in Nat
  BY <1>1, Bounds
<1>3. QED
  BY <1>1, <1>2, SeqDef, LenProperties

LEMMA PlainReplies ==
  /\ NoReply \in Responses /\ NoReply.code = 0
  /\ \A c \in {200, 400, 500} : Code(c) \in Responses /\ Code(c).code = c
<1>1. <<>> \in Pairs
  BY EmptySeq DEF Pairs
<1>2. QED
  BY <1>1 DEF NoReply, Code, Responses

LEMMA HandlerInit == Init => HandlerInv
<1> SUFFICES ASSUME Init PROVE HandlerInv
  OBVIOUS
<1>1. <<>> \in Palettes
  BY Bounds DEF Palettes
<1>2. \A S : <<>> \in Seq(S)
  BY EmptySeq
<1>3. TypeOK
  <2>1. /\ query \in Seq(Chars \cup {"+"}) /\ names \in Seq(Names)
        /\ told \in Seq(Colors \X Names)
    BY <1>2 DEF Init
  <2>2. colors \in Palettes
    BY <1>1 DEF Init
  <2>3. Len(names) <= Len(colors)
    <3>1. names = colors /\ Len(colors) \in Nat
      BY <1>2, LenProperties DEF Init
    <3>2. QED
      BY <3>1
  <2>4. QED
    BY <2>1, <2>2, <2>3, PlainReplies DEF Init, TypeOK
<1>4. Flow /\ WholePalette /\ DiesOfNonsense
  <2>1. phase = "idle" /\ Fresh
    BY Zenon DEF Init, Fresh
  <2>2. reply.code # 200
    <3>1. reply = NoReply
      BY DEF Init
    <3>2. QED
      BY <3>1, PlainReplies
  <2>3. QED
    BY <2>1, <2>2 DEF Flow, WholePalette, DiesOfNonsense
<1>5. QED
  BY <1>3, <1>4 DEF HandlerInv

\* A name is put behind the others, and behind its colour in what was told.
LEMMA GetNameStep ==
  ASSUME HandlerInv, GetName
  PROVE  /\ names' \in Seq(Names) /\ Len(names') <= Len(colors)
         /\ told' \in Seq(Colors \X Names)
         /\ Matched'
<1>1. PICK n \in Names :
        /\ names' = Append(names, n)
        /\ told' = Append(told, <<colors[Len(names) + 1], n>>)
  BY DEF GetName
<1>2. /\ names \in Seq(Names) /\ told \in Seq(Colors \X Names)
      /\ phase = "names" /\ colors' = colors
      /\ colors \in Seq(Colors) /\ Len(colors) \in Nat
      /\ Len(names) < Len(colors) /\ Matched
  BY PaletteIsSeq DEF HandlerInv, TypeOK, Flow, GetName
<1>3. Len(names) \in Nat /\ colors[Len(names) + 1] \in Colors
  <2>1. Len(names) \in Nat
    BY <1>2, LenProperties
  <2>2. Len(names) + 1 \in 1..Len(colors)
    BY <1>2, <2>1
  <2>3. QED
    BY <1>2, <2>1, <2>2, ElementOfSeq
<1>4. /\ names' \in Seq(Names) /\ Len(names') = Len(names) + 1
      /\ \A i \in 1..Len(names) : names'[i] = names[i]
      /\ names'[Len(names) + 1] = n
  BY <1>1, <1>2, AppendProperties
<1>5. /\ told' \in Seq(Colors \X Names) /\ Len(told') = Len(told) + 1
      /\ \A i \in 1..Len(told) : told'[i] = told[i]
      /\ told'[Len(told) + 1] = <<colors[Len(names) + 1], n>>
  <2>1. <<colors[Len(names) + 1], n>> \in Colors \X Names
    BY <1>3
  <2>2. QED
    BY <1>1, <1>2, <2>1, AppendProperties
<1>6. /\ Len(told) = Len(names)
      /\ \A i \in 1..Len(names) : told[i] = <<colors[i], names[i]>>
  BY <1>2 DEF Matched
<1>7. Len(names') <= Len(colors)
  BY <1>2, <1>3, <1>4
<1>8. Len(told') = Len(names')
  BY <1>4, <1>5, <1>6
<1>9. ASSUME NEW i \in 1..Len(names')
      PROVE  told'[i] = <<colors[i], names'[i]>>
  <2>1. i \in 1..Len(names) \/ i = Len(names) + 1
    BY <1>3, <1>4
  <2>2. CASE i \in 1..Len(names)
    BY <2>2, <1>4, <1>5, <1>6
  <2>3. CASE i = Len(names) + 1
    BY <2>3, <1>4, <1>5, <1>6
  <2>4. QED
    BY <2>1, <2>2, <2>3
<1>10. QED
  BY <1>2, <1>4, <1>5, <1>7, <1>8, <1>9 DEF Matched

\* When every colour has its name the answer is what was told.
LEMMA RespondStep ==
  ASSUME HandlerInv, Respond
  PROVE  reply' \in Responses /\ WholePalette'
<1>1. /\ phase = "respond" /\ colors' = colors /\ names' = names /\ told' = told
      /\ colors \in Seq(Colors) /\ names \in Seq(Names) /\ told \in Seq(Colors \X Names)
      /\ names = <<>> \/ (Matched /\ Len(names) = Len(colors))
  BY PaletteIsSeq DEF HandlerInv, TypeOK, Flow, Respond
<1>2. CASE colors = <<>> \/ names = <<>>
  BY <1>2, <1>1, PlainReplies DEF Respond, WholePalette
<1>3. CASE colors # <<>> /\ names # <<>>
  <2>1. /\ Len(told) = Len(colors) /\ Len(names) = Len(colors)
        /\ \A i \in 1..Len(colors) : told[i] = <<colors[i], names[i]>>
    BY <1>1, <1>3 DEF Matched
  <2>2. /\ DOMAIN colors = 1..Len(colors) /\ DOMAIN told = 1..Len(colors)
        /\ Len(colors) \in Nat
        /\ colors = [i \in 1..Len(colors) |-> colors[i]]
        /\ told = [i \in 1..Len(colors) |-> told[i]]
    BY <1>1, <2>1, LenProperties
  <2>3. reply' = [code |-> 200,
                  pairs |-> [i \in DOMAIN colors |-> <<colors[i], NameAt(i)>>]]
    BY <1>3 DEF Respond
  <2>4. \A i \in 1..Len(colors) : NameAt(i) = names[i]
    BY <2>1, <2>2 DEF NameAt
  <2>5. reply'.code = 200 /\ reply'.pairs = told
    BY <2>1, <2>2, <2>3, <2>4
  <2>6. told # <<>>
    BY <1>1, <1>3, <2>1, EmptySeq
  <2>7. \A i \in 1..Len(colors) : told[i][1] = colors[i]
    BY <2>1
  <2>8. colors = [i \in DOMAIN told |-> told[i][1]]
    BY <2>2, <2>7
  <2>9. told \in Pairs
    <3>1. Colors \X Names \subseteq Colors \X (Names \cup {"undefined"})
      OBVIOUS
    <3>2. QED
      BY <1>1, <3>1, SeqMonotonic DEF Pairs
  <2>10. reply' = [code |-> 200, pairs |-> told]
    BY <2>3, <2>5
  <2>11. QED
    BY <1>1, <2>5, <2>6, <2>8, <2>9, <2>10 DEF WholePalette, Responses
<1>4. QED
  BY <1>2, <1>3

LEMMA HandlerStep == HandlerInv /\ [Next]_vars => HandlerInv'
<1> SUFFICES ASSUME HandlerInv, [Next]_vars PROVE HandlerInv'
  OBVIOUS
<1>1. TypeOK /\ Flow /\ WholePalette /\ DiesOfNonsense
  BY DEF HandlerInv
<1>2. \A S : <<>> \in Seq(S)
  BY EmptySeq
<1>3. <<>> \in Palettes /\ Len(<<>>) = 0 /\ \A q \in Palettes : Len(q) \in Nat
  BY Bounds, PaletteIsSeq DEF Palettes
<1>4. ASSUME NEW b \in Bodies, NEW m, HandleRequest(m, b)
      PROVE  HandlerInv'
  <2>1. Plus(TrimWhitespace(b)) \in Seq(Chars \cup {"+"})
    BY Bounds, QueryType
  <2>2. /\ phase = "idle" /\ phase' \in {"color", "reply"}
        /\ query' \in Seq(Chars \cup {"+"})
        /\ reply' = reply \/ (reply' = Code(400) /\ phase' = "reply")
        /\ UNCHANGED <<color, colors, names, told, answer>>
    <3>1. CASE m = "POST" /\ ValidInput(TrimWhitespace(b))
      BY <3>1, <1>4, <2>1 DEF HandleRequest
    <3>2. CASE ~ (m = "POST" /\ ValidInput(TrimWhitespace(b)))
      BY <3>2, <1>1, <1>4 DEF HandleRequest, TypeOK
    <3>3. QED
      BY <3>1, <3>2
  <2>3. reply = NoReply /\ reply'.code \in {0, 400}
    BY <1>1, <2>2 DEF Flow, Fresh, NoReply, Code
  <2>4. TypeOK'
    <3>1. reply' \in Responses
      <4>1. reply \in Responses /\ Code(400) \in Responses
        <5>1. reply \in Responses
          BY Zenon, <1>1 DEF TypeOK
        <5>2. Code(400) \in Responses
          BY PlainReplies
        <5>3. QED
          BY <5>1, <5>2
      <4>2. QED
        BY <2>2, <4>1
    <3>2. phase' \in {"idle", "color", "palette", "names", "respond", "reply", "died"}
      BY <2>2
    <3>3. QED
      BY Zenon, <1>1, <2>2, <3>1, <3>2 DEF TypeOK
  <2>5. Flow' /\ WholePalette' /\ DiesOfNonsense'
    BY <1>1, <2>2, <2>3 DEF Flow, Fresh, WholePalette, DiesOfNonsense
  <2>6. QED
    BY <2>4, <2>5 DEF HandlerInv
<1>5. CASE GetColor
  <2>1. CASE answer' = Cut
    <3>1. TypeOK'
      BY <1>1, <1>5, <2>1 DEF GetColor, Die, TypeOK
    <3>2. Flow' /\ WholePalette' /\ DiesOfNonsense'
      BY <1>1, <1>5, <2>1
         DEF GetColor, Die, Flow, Fresh, NoReply, WholePalette, DiesOfNonsense
    <3>3. QED
      BY <3>1, <3>2 DEF HandlerInv
  <2>2. CASE answer' # Cut
    <3>1. color' \in Colors \cup {""} /\ phase' \in {"names", "palette"}
      BY <1>5, <2>2 DEF GetColor
    <3>2. /\ Fresh /\ reply' = reply /\ query' = query
          /\ colors' = colors /\ names' = names /\ told' = told
      BY <1>1, <1>5, <2>2 DEF GetColor, Flow
    <3>3. TypeOK'
      BY <1>1, <3>1, <3>2 DEF TypeOK
    <3>4. Matched' /\ Fresh'
      BY <1>3, <3>2 DEF Matched, Fresh
    <3>5. Flow' /\ WholePalette' /\ DiesOfNonsense'
      BY <1>1, <3>1, <3>2, <3>4 DEF Flow, Fresh, NoReply, WholePalette, DiesOfNonsense
    <3>6. QED
      BY <3>3, <3>5 DEF HandlerInv
  <2>3. QED
    BY <2>1, <2>2
<1>6. CASE GetPalette
  <2>1. colors' \in Palettes /\ Len(colors') \in Nat
    BY <1>1, <1>3, <1>6 DEF GetPalette, TypeOK
  <2>2. /\ phase' = "names" /\ reply' = reply /\ query' = query /\ color' = color
        /\ names' = names /\ told' = told /\ Fresh
    BY <1>1, <1>6 DEF GetPalette, Flow
  <2>3. TypeOK'
    <3>1. Len(names') <= Len(colors')
      BY <1>3, <2>1, <2>2 DEF Fresh
    <3>2. phase' \in {"idle", "color", "palette", "names", "respond", "reply", "died"}
      BY <2>2
    <3>3. QED
      BY Zenon, <1>1, <2>1, <2>2, <3>1, <3>2 DEF TypeOK
  <2>4. Matched'
    BY <1>3, <2>1, <2>2 DEF Matched, Fresh
  <2>5. Flow' /\ WholePalette' /\ DiesOfNonsense'
    BY <2>2, <2>4 DEF Flow, Fresh, NoReply, WholePalette, DiesOfNonsense
  <2>6. QED
    BY <2>3, <2>5 DEF HandlerInv
<1>7. CASE NameFails
  <2>1. TypeOK'
    <3>1. /\ names' = <<>> /\ phase' = "respond"
          /\ UNCHANGED <<query, color, colors, reply, told>>
      BY <1>7 DEF NameFails
    <3>2. names' \in Seq(Names) /\ Len(names') <= Len(colors')
      <4>1. Len(names') = 0 /\ Len(colors') \in Nat
        BY <1>1, <1>3, <3>1 DEF TypeOK
      <4>2. QED
        BY <1>2, <3>1, <4>1
    <3>3. phase' \in {"idle", "color", "palette", "names", "respond", "reply", "died"}
      BY <3>1
    <3>4. QED
      BY Zenon, <1>1, <3>1, <3>2, <3>3 DEF TypeOK
  <2>2. Flow' /\ WholePalette' /\ DiesOfNonsense'
    BY <1>1, <1>7 DEF NameFails, Flow, Fresh, NoReply, WholePalette, DiesOfNonsense
  <2>3. QED
    BY <2>1, <2>2 DEF HandlerInv
<1>8. CASE NameIsNonsense
  <2>1. TypeOK'
    BY <1>1, <1>8 DEF NameIsNonsense, Die, TypeOK
  <2>2. Flow' /\ WholePalette' /\ DiesOfNonsense'
    BY <1>1, <1>8
       DEF NameIsNonsense, Die, Flow, Fresh, NoReply, WholePalette, DiesOfNonsense
  <2>3. QED
    BY <2>1, <2>2 DEF HandlerInv
<1>9. CASE GetName
  <2>1. /\ names' \in Seq(Names) /\ Len(names') <= Len(colors)
        /\ told' \in Seq(Colors \X Names)
        /\ Matched'
    BY <1>9, GetNameStep
  <2>2. /\ phase = "names" /\ phase' = phase /\ colors' = colors /\ query' = query
        /\ color' = color /\ reply' = reply /\ reply = NoReply
    BY <1>1, <1>9 DEF GetName, Flow
  <2>3. TypeOK'
    BY <1>1, <2>1, <2>2 DEF TypeOK
  <2>4. Flow' /\ WholePalette' /\ DiesOfNonsense'
    BY <2>1, <2>2 DEF Flow, NoReply, WholePalette, DiesOfNonsense
  <2>5. QED
    BY <2>3, <2>4 DEF HandlerInv
<1>10. CASE NamesDone
  <2>1. TypeOK'
    BY <1>1, <1>10 DEF NamesDone, TypeOK
  <2>2. Matched' /\ Len(names') = Len(colors')
    BY <1>1, <1>10 DEF NamesDone, Flow, Matched
  <2>3. Flow' /\ WholePalette' /\ DiesOfNonsense'
    BY <1>1, <1>10, <2>2 DEF NamesDone, Flow, NoReply, WholePalette, DiesOfNonsense
  <2>4. QED
    BY <2>1, <2>3 DEF HandlerInv
<1>11. CASE Respond
  <2>1. reply' \in Responses /\ WholePalette'
    BY <1>11, RespondStep
  <2>2. phase' = "reply" /\ UNCHANGED <<query, color, colors, names, told, answer>>
    BY <1>11 DEF Respond
  <2>3. TypeOK'
    BY <1>1, <2>1, <2>2 DEF TypeOK
  <2>4. Flow' /\ DiesOfNonsense'
    BY <2>2 DEF Flow, DiesOfNonsense
  <2>5. QED
    BY <2>1, <2>3, <2>4 DEF HandlerInv
<1>12. CASE Return
  <2>1. /\ query' = <<>> /\ color' = "" /\ colors' = <<>> /\ names' = <<>>
        /\ phase' = "idle" /\ told' = <<>> /\ reply' = NoReply
    BY <1>12 DEF Return
  <2>2. /\ names' \in Seq(Names) /\ query' \in Seq(Chars \cup {"+"})
        /\ told' \in Seq(Colors \X Names)
    BY <1>2, <2>1
  <2>3. reply' \in Responses /\ reply'.code = 0
    BY <2>1, PlainReplies
  <2>4. Len(names') <= Len(colors')
    <3>1. Len(names') = 0 /\ Len(colors') = 0
      BY <1>3, <2>1
    <3>2. QED
      BY <3>1
  <2>5. TypeOK'
    BY <1>3, <2>1, <2>2, <2>3, <2>4 DEF TypeOK
  <2>6. Flow' /\ WholePalette' /\ DiesOfNonsense'
    <3>1. phase' = "idle" /\ reply'.code # 200
      <4>1. reply'.code # 200
        BY ONLY <2>3
      <4>2. QED
        BY <2>1, <4>1
    <3>2. Fresh'
      BY Zenon, <2>1 DEF Fresh
    <3>3. QED
      BY <3>1, <3>2 DEF Flow, WholePalette, DiesOfNonsense
  <2>7. QED
    BY <2>5, <2>6 DEF HandlerInv
<1>13. CASE UNCHANGED vars
  <2>1. TypeOK' /\ WholePalette' /\ DiesOfNonsense'
    <3>1. /\ phase' = phase /\ query' = query /\ color' = color /\ colors' = colors
          /\ names' = names /\ reply' = reply /\ told' = told /\ answer' = answer
      BY <1>13 DEF vars
    <3>2. TypeOK'
      <4>1. phase' \in {"idle", "color", "palette", "names", "respond", "reply", "died"}
        BY <1>1, <3>1 DEF TypeOK
      <4>2. query' \in Seq(Chars \cup {"+"}) /\ color' \in Colors \cup {""}
        BY Zenon, <1>1, <3>1 DEF TypeOK
      <4>3. colors' \in Palettes /\ names' \in Seq(Names) /\ told' \in Seq(Colors \X Names)
        BY Zenon, <1>1, <3>1 DEF TypeOK
      <4>4. Len(names') <= Len(colors') /\ reply' \in Responses
        BY <1>1, <3>1 DEF TypeOK
      <4>5. QED
        BY <4>1, <4>2, <4>3, <4>4 DEF TypeOK
    <3>3. WholePalette'
      BY <1>1, <3>1 DEF WholePalette
    <3>4. QED
      BY <1>1, <3>1, <3>2, <3>3 DEF DiesOfNonsense
  <2>2. Flow'
    BY <1>1, <1>13 DEF vars, Flow, Fresh, Matched
  <2>3. QED
    BY <2>1, <2>2 DEF HandlerInv
<1>14. QED
  BY <1>4, <1>5, <1>6, <1>7, <1>8, <1>9, <1>10, <1>11, <1>12, <1>13 DEF Next, Died

LEMMA HandlerInvariant == Spec => []HandlerInv
<1>1. Init => HandlerInv
  BY HandlerInit
<1>2. HandlerInv /\ [Next]_vars => HandlerInv'
  BY HandlerStep
<1>3. QED
  BY <1>1, <1>2, PTL DEF Spec

\* Whatever the services answer, a client gets the whole palette or none, and
\* the process dies only of an answer that makes no sense (palette_handler.cc,
\* palette_api.cc).
THEOREM HandlerSafe == Spec => [](TypeOK /\ WholePalette /\ DiesOfNonsense)
<1>1. HandlerInv => TypeOK /\ WholePalette /\ DiesOfNonsense
  BY DEF HandlerInv
<1>2. QED
  BY <1>1, HandlerInvariant, PTL

-----------------------------------------------------------------------------
(* The page. *)

AppTypeOK ==
  /\ page \in {"up", "blank"}
  /\ text \in Texts \cup {<<>>} /\ fetches \in Seq(Texts)
  /\ own \in BOOLEAN /\ answers \in Seq(Responses)
  /\ palettes \in Seq(Pairs) /\ pending \in Seq(Pairs) /\ data \in Pairs

\* The state that React has not rendered yet is the palette that came last; if
\* there is none, that palette is rendered, and shown.
Rendered ==
  /\ pending # <<>> => palettes # <<>> /\ pending[1] = palettes[Len(palettes)]
  /\ pending = <<>> /\ palettes # <<>> /\ page = "up" =>
       data = palettes[Len(palettes)] /\ shown = <<data>>

AppInv == HandlerInv /\ AppTypeOK /\ Rendered

\* What is taken out of a sequence leaves a sequence.
LEMMA RemoveAtType ==
  ASSUME NEW S, NEW s \in Seq(S), NEW n \in DOMAIN s
  PROVE  RemoveAt(s, n) \in Seq(S)
<1>1. Len(s) \in Nat /\ DOMAIN s = 1..Len(s) /\ \A i \in 1..Len(s) : s[i] \in S
  BY LenProperties, ElementOfSeq
<1>2. /\ 1 \in Int /\ n - 1 \in Int /\ n + 1 \in Int /\ Len(s) \in Int
      /\ \A i \in 1..(n - 1) : s[i] \in S
      /\ \A i \in (n + 1)..Len(s) : s[i] \in S
  BY <1>1
<1>3. SubSeq(s, 1, n - 1) \in Seq(S) /\ SubSeq(s, n + 1, Len(s)) \in Seq(S)
  BY ONLY <1>2, SubSeqProperties
<1>4. QED
  BY <1>3, ConcatProperties DEF RemoveAt

\* The page and its network do to the handler only what it allows.
LEMMA HandlerMoves ==
  ASSUME AppTypeOK, [AppNext]_appVars
  PROVE  [Next]_vars
<1>1. ASSUME NEW n \in DOMAIN fetches, Take(n)
      PROVE  Next
  <2>1. fetches[n] \in Bodies
    <3>1. Texts \subseteq Bodies
      BY BrowserAssumption
    <3>2. n \in 1..Len(fetches) /\ fetches \in Seq(Texts)
      BY LenProperties DEF AppTypeOK
    <3>3. QED
      BY <3>1, <3>2, ElementOfSeq
  <2>2. QED
    BY <1>1, <2>1 DEF Take, Next
<1>2. CASE TakeAnother
  <2>1. PICK b \in Bodies, m \in {"GET", "POST"} : HandleRequest(m, b)
    BY <1>2 DEF TakeAnother
  <2>2. QED
    BY <2>1 DEF Next
<1>3. CASE Work \/ Reply
  BY <1>3 DEF Work, Reply, Next
<1>4. ASSUME NEW t, Type(t)
      PROVE  UNCHANGED vars
  BY <1>4 DEF Type
<1>5. ASSUME NEW n, Arrive(n)
      PROVE  UNCHANGED vars
  BY <1>5 DEF Arrive
<1>6. CASE Generate \/ Reject \/ Render \/ List
  BY <1>6 DEF Generate, Reject, Render, List
<1>7. CASE AppDone \/ UNCHANGED appVars
  BY <1>7 DEF AppDone, appVars
<1>8. QED
  BY <1>1, <1>2, <1>3, <1>4, <1>5, <1>6, <1>7 DEF AppNext

\* What a response of the handler is to the page.
LEMMA PostType ==
  ASSUME AppInv
  PROVE  /\ \A n \in DOMAIN answers : Post(answers[n]) \in Pairs
         /\ phase = "reply" => reply \in Responses
<1>1. \A n \in DOMAIN answers : answers[n] \in Responses
  BY LenProperties, ElementOfSeq DEF AppInv, AppTypeOK
<1>2. \A r \in Responses : Post(r) \in Pairs
  BY EmptySeq DEF Responses, Post, Pairs, NoPalette
<1>3. QED
  BY <1>1, <1>2 DEF AppInv, HandlerInv, TypeOK

LEMMA AppTypeInit == AppInit => AppTypeOK /\ Rendered
<1> SUFFICES ASSUME AppInit PROVE AppTypeOK /\ Rendered
  OBVIOUS
<1>1. \A S : <<>> \in Seq(S)
  BY EmptySeq
<1>2. AppTypeOK
  BY <1>1 DEF AppInit, AppTypeOK, NoPalette, Pairs
<1>3. Rendered
  BY DEF AppInit, Rendered
<1>4. QED
  BY <1>2, <1>3

\* A palette that arrives is the last one, and the one to be rendered.
LEMMA ArriveStep ==
  ASSUME AppInv, NEW n \in DOMAIN answers, Arrive(n)
  PROVE  AppTypeOK' /\ Rendered'
<1>1. /\ answers \in Seq(Responses) /\ palettes \in Seq(Pairs)
      /\ Post(answers[n]) \in Pairs
  BY PostType DEF AppInv, AppTypeOK
<1> DEFINE p == Post(answers[n])
<1>2. answers' \in Seq(Responses)
  BY <1>1, RemoveAtType DEF Arrive
<1>3. /\ palettes' = Append(palettes, p) /\ pending' = <<p>>
      /\ UNCHANGED <<fetches, own, page, text, data, shown>>
  BY DEF Arrive
<1> HIDE DEF p
<1>4. /\ palettes' \in Seq(Pairs) /\ palettes' # <<>>
      /\ palettes'[Len(palettes')] = p
  BY <1>1, <1>3, AppendProperties DEF p
<1>5. pending' \in Seq(Pairs) /\ pending' # <<>> /\ pending'[1] = p
  BY <1>1, <1>3 DEF p
<1>6. AppTypeOK'
  BY <1>2, <1>3, <1>4, <1>5 DEF AppInv, AppTypeOK
<1>7. Rendered'
  BY <1>4, <1>5 DEF Rendered
<1>8. QED
  BY <1>6, <1>7

LEMMA AppStep ==
  ASSUME AppInv, [AppNext]_appVars
  PROVE  AppTypeOK' /\ Rendered'
<1>1. AppTypeOK /\ Rendered
  BY DEF AppInv
<1>2. ASSUME NEW t \in Texts, Type(t)
      PROVE  AppTypeOK' /\ Rendered'
  <2>1. /\ text' = t /\ page = "up" /\ ShowPalette(data)
        /\ UNCHANGED <<fetches, own, answers, palettes, pending, data>>
    BY <1>2 DEF Type, network
  <2>2. page' \in {"up", "blank"}
    BY <2>1 DEF ShowPalette, Blank
  <2>3. AppTypeOK'
    BY <1>1, <2>1, <2>2 DEF AppTypeOK
  <2>4. ASSUME pending = <<>>, palettes # <<>>, page' = "up"
        PROVE  shown' = <<data>>
    BY <2>1, <2>4 DEF ShowPalette, Blank
  <2>5. QED
    BY <1>1, <2>1, <2>3, <2>4 DEF Rendered
<1>3. CASE Generate
  <2>1. text \in Texts /\ fetches' = Append(fetches, text)
    BY <1>1, <1>3 DEF Generate, AppTypeOK
  <2>2. fetches' \in Seq(Texts)
    BY <1>1, <2>1, AppendProperties DEF AppTypeOK
  <2>3. UNCHANGED <<own, answers, page, text, palettes, pending, data, shown, listed>>
    BY <1>3 DEF Generate
  <2>4. AppTypeOK' /\ Rendered'
    BY <1>1, <2>2, <2>3 DEF AppTypeOK, Rendered
  <2>5. QED
    BY <2>4
<1>4. CASE Reject
  <2>1. fetches' \in Seq(Texts) /\ answers' \in Seq(Responses)
    BY <1>1, <1>4, RemoveAtType DEF AppTypeOK, Reject
  <2>2. UNCHANGED <<own, page, text, palettes, pending, data, shown>>
    BY <1>4 DEF Reject, state
  <2>3. QED
    BY <1>1, <2>1, <2>2 DEF AppTypeOK, Rendered
<1>5. CASE Render
  <2>1. /\ page = "up" /\ pending # <<>> /\ data' = pending[1] /\ pending' = <<>>
        /\ ShowPalette(data')
        /\ UNCHANGED <<fetches, own, answers, text, palettes>>
    BY <1>5 DEF Render, network
  <2>2. data' = palettes[Len(palettes)] /\ palettes # <<>>
    BY <1>1, <2>1 DEF Rendered
  <2>3. data' \in Pairs
    <3>1. Len(palettes) \in 1..Len(palettes)
      BY <1>1, <2>2, LenProperties, EmptySeq DEF AppTypeOK
    <3>2. QED
      BY <1>1, <2>2, <3>1, ElementOfSeq DEF AppTypeOK
  <2>4. page' \in {"up", "blank"} /\ (page' = "up" => shown' = <<data'>>)
    BY <2>1, <2>2 DEF ShowPalette, Blank
  <2>5. pending' \in Seq(Pairs)
    BY <2>1, EmptySeq
  <2>6. AppTypeOK'
    BY <1>1, <2>1, <2>3, <2>4, <2>5 DEF AppTypeOK
  <2>7. Rendered'
    BY <2>1, <2>2, <2>4 DEF Rendered
  <2>8. QED
    BY <2>6, <2>7
<1>6. CASE List
  <2>1. /\ page' \in {"up", "blank"} /\ (page' = "up" => shown' = shown) /\ page = "up"
        /\ UNCHANGED <<fetches, own, answers, text, palettes, pending, data>>
    BY <1>6 DEF List, ShowPalettes, Blank, network
  <2>2. QED
    BY <1>1, <2>1 DEF AppTypeOK, Rendered
<1>7. ASSUME NEW n \in DOMAIN fetches, Take(n)
      PROVE  AppTypeOK' /\ Rendered'
  <2>1. fetches' \in Seq(Texts) /\ own' = TRUE /\ UNCHANGED answers
    BY <1>1, <1>7, RemoveAtType DEF AppTypeOK, Take
  <2>2. UNCHANGED <<page, text, palettes, pending, data, shown>>
    BY <1>7 DEF Take, state
  <2>3. QED
    BY <1>1, <2>1, <2>2 DEF AppTypeOK, Rendered
<1>8. CASE TakeAnother
  <2>1. /\ own' = FALSE
        /\ UNCHANGED <<fetches, answers, page, text, palettes, pending, data, shown>>
    BY <1>8 DEF TakeAnother
  <2>2. QED
    BY <1>1, <2>1 DEF AppTypeOK, Rendered
<1>9. CASE Work \/ AppDone \/ UNCHANGED appVars
  <2>1. UNCHANGED <<network, state>>
    BY <1>9 DEF Work, AppDone, appVars
  <2>2. UNCHANGED <<fetches, own, answers, page, text, palettes, pending, data, shown>>
    BY <2>1 DEF network, state
  <2>3. QED
    BY <1>1, <2>2 DEF AppTypeOK, Rendered
<1>10. CASE Reply
  <2>1. reply \in Responses
    BY <1>10, PostType DEF Reply, Return
  <2>2. answers' \in Seq(Responses)
    BY <1>1, <1>10, <2>1, AppendProperties DEF Reply, AppTypeOK
  <2>3. own' = FALSE /\ UNCHANGED <<fetches, page, text, palettes, pending, data, shown>>
    BY <1>10 DEF Reply, state
  <2>4. QED
    BY <1>1, <2>2, <2>3 DEF AppTypeOK, Rendered
<1>11. QED
  BY <1>2, <1>3, <1>4, <1>5, <1>6, <1>7, <1>8, <1>9, <1>10, ArriveStep DEF AppNext

\* The handler behind the page is the handler: whatever is asked of it, by
\* whomever, is what its specification allows (create_palette, processRequest).
THEOREM ServesThePage == AppSpec => Spec
<1>1. AppInit => Init
  BY DEF AppInit
<1>2. AppInit => AppInv
  BY <1>1, HandlerInit, AppTypeInit DEF AppInv
<1>3. AppInv /\ [AppNext]_appVars => AppInv'
  BY HandlerMoves, HandlerStep, AppStep DEF AppInv
<1>4. AppInv /\ [AppNext]_appVars => [Next]_vars
  BY HandlerMoves DEF AppInv
<1>5. QED
  BY <1>1, <1>2, <1>3, <1>4, PTL DEF AppSpec, Spec

\* The invariant of page and handler together.
LEMMA AppInvariant == AppSpec => []AppInv
<1>1. AppInit => AppInv
  BY HandlerInit, AppTypeInit DEF AppInv, AppInit
<1>2. AppInv /\ [AppNext]_appVars => AppInv'
  BY HandlerMoves, HandlerStep, AppStep DEF AppInv
<1>3. QED
  BY <1>1, <1>2, PTL DEF AppSpec

\* What holds of the handler holds behind the page, whose texts and those of
\* other clients are its requests: its variables keep their types,
THEOREM TypesBehindPage == AppSpec => []TypeOK
BY ServesThePage, HandlerSafe, PTL

\* a palette that is sent is whole, name by name (get_palette, get_names),
THEOREM WholeBehindPage == AppSpec => []WholePalette
BY ServesThePage, HandlerSafe, PTL

\* and a service that is down does not end the process (the catch clauses of
\* palette_api.cc).
THEOREM AliveBehindPage == AppSpec => []DiesOfNonsense
BY ServesThePage, HandlerSafe, PTL

\* The page shows the palette that arrived last, and only that, however answers
\* overtake each other and whatever is typed or listed meanwhile
\* (create.js: create_palette, ShowPalette).
THEOREM LatestShown == AppSpec => []ShowsLatest
<1>1. AppInv => ShowsLatest
  BY DEF AppInv, Rendered, ShowsLatest, Last
<1>2. QED
  BY <1>1, AppInvariant, PTL

\* The page goes away only over an answer that was no palette, or over the text
\* that stands in for the palette before the first one is rendered
\* (create.js, list.js: the effects).
THEOREM KeepsPage == AppSpec => PageKept
<1> DEFINE Cause == NoPalette \in Range(palettes) \/ data = NoPalette
<1>1. ASSUME AppInv, AppNext, page' # page
      PROVE  Cause
  <2>1. ASSUME NEW p, ShowPalette(p)
        PROVE  p = NoPalette
    BY <1>1, <2>1 DEF ShowPalette
  <2>2. ASSUME NEW t, Type(t)
        PROVE  Cause
    BY <2>1, <2>2 DEF Type
  <2>3. CASE Render
    <3>1. pending # <<>> /\ pending[1] = NoPalette
      BY <2>1, <2>3 DEF Render
    <3>2. palettes # <<>> /\ palettes[Len(palettes)] = NoPalette /\ palettes \in Seq(Pairs)
      BY <1>1, <3>1 DEF AppInv, Rendered, AppTypeOK
    <3>3. Len(palettes) \in DOMAIN palettes
      BY <3>2, LenProperties, EmptySeq
    <3>4. QED
      BY <3>2, <3>3 DEF Range
  <2>4. CASE List
    BY <1>1, <2>4 DEF List, ShowPalettes
  <2>5. ~ (Generate \/ Reject \/ TakeAnother \/ Work \/ Reply \/ AppDone)
    BY <1>1 DEF Generate, Reject, TakeAnother, Work, Reply, AppDone, appVars, state
  <2>6. \A n : ~ Arrive(n) /\ ~ Take(n)
    BY <1>1 DEF Arrive, Take, state
  <2>7. QED
    BY <1>1, <2>2, <2>3, <2>4, <2>5, <2>6 DEF AppNext
<1>2. AppInv /\ [AppNext]_appVars => [page' # page => Cause]_appVars
  BY <1>1
<1>3. QED
  BY <1>2, AppInvariant, PTL DEF AppSpec, PageKept
=============================================================================
