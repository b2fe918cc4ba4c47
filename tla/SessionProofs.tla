----------------------------- MODULE SessionProofs -----------------------------
(***************************************************************************)
(* Proofs about Session, for a buffer of any size and any requests, and    *)
(* about SessionStore, whose steps are steps of Session.                   *)
(***************************************************************************)
EXTENDS SessionStore, SequenceTheorems, TLAPS

-----------------------------------------------------------------------------
(* Requests and their cells. *)

\* A string of cells has a request at a place, all of it.
At(s, i, r) ==
  /\ i + 1 + Len(r.body) <= Len(s)
  /\ s[i] = Line(r.target) /\ s[i + 1] = Header(Len(r.body))
  /\ \A j \in 1..Len(r.body) : s[i + 1 + j] = r.body[j]

\* What is left of a sequence without its first elements.
LEMMA RestIs ==
  ASSUME NEW S, NEW s \in Seq(S), NEW k \in 0..Len(s)
  PROVE  /\ SubSeq(s, k + 1, Len(s)) \in Seq(S)
         /\ Len(SubSeq(s, k + 1, Len(s))) = Len(s) - k
         /\ \A j \in 1..Len(s) - k : SubSeq(s, k + 1, Len(s))[j] = s[k + j]
<1> DEFINE n == Len(s)
           t == SubSeq(s, k + 1, n)
<1>1. n \in Nat /\ k \in Nat /\ k <= n /\ \A j \in k + 1..n : s[j] \in S
  BY LenProperties, ElementOfSeq
<1> HIDE DEF n
<1>2. /\ t \in Seq(S) /\ Len(t) = IF k + 1 <= n THEN n - (k + 1) + 1 ELSE 0
      /\ \A j \in 1..n - (k + 1) + 1 : t[j] = s[k + 1 + j - 1]
  BY <1>1, SubSeqProperties
<1> HIDE DEF t
<1>3. n - (k + 1) + 1 = n - k /\ \A j \in 1..n - k : k + 1 + j - 1 = k + j
  BY <1>1
<1>4. t \in Seq(S) /\ Len(t) = n - k /\ \A j \in 1..n - k : t[j] = s[k + j]
  BY <1>1, <1>2, <1>3
<1>5. QED
  BY <1>4 DEF n, t

LEMMA KindsOfCell ==
  /\ Nul \notin Text /\ Junk \notin Text /\ Nul # Junk
  /\ Bytes \subseteq Text /\ Text \subseteq Cells /\ Nul \in Cells /\ Junk \in Cells
  /\ \A c \in Bytes \cup {Nul} : c.kind # "line"
  /\ \A c \in Cells : c \in Text \cup {Junk} \/ c = Nul
  /\ \A c \in Text \cup {Nul, Junk} : c.val \in Int
BY DEF Nul, Junk, Cell, Text, Bytes, Cells

\* What the client sends has its request at the front, and no other.
LEMMA EncodeIs ==
  ASSUME NEW r \in Requests
  PROVE  /\ Encode(r) \in Seq(Text \cup {Nul}) /\ Len(Encode(r)) \in Nat
         /\ Len(Encode(r)) = 2 + Len(r.body)
         /\ At(Encode(r), 1, r)
         /\ \A i \in 2..Len(Encode(r)) : Encode(r)[i].kind # "line"
<1>1. r.target \in Int /\ r.body \in Seq(Bytes \cup {Nul}) /\ Len(r.body) \in Nat
  BY ConstantsAssumption, LenProperties
<1>2. /\ r.body \in Seq(Text \cup {Nul})
      /\ \A j \in 1..Len(r.body) : r.body[j] \in Bytes \cup {Nul}
  <2>1. \A j \in 1..Len(r.body) : r.body[j] \in Bytes \cup {Nul}
    BY <1>1, ElementOfSeq
  <2>2. Bytes \cup {Nul} \subseteq Text \cup {Nul}
    BY KindsOfCell
  <2>3. QED
    BY <1>1, <2>1, <2>2
<1> DEFINE head == <<Line(r.target), Header(Len(r.body))>>
<1>3. /\ Line(r.target) \in Text /\ Header(Len(r.body)) \in Text
      /\ Header(Len(r.body)).kind # "line"
  BY <1>1 DEF Line, Header, Cell, Text
<1>4. head \in Seq(Text \cup {Nul}) /\ Len(head) = 2 /\ Encode(r) = head \o r.body
      /\ head[1] = Line(r.target) /\ head[2] = Header(Len(r.body))
  BY <1>3 DEF Encode
<1> HIDE DEF head
<1>5. /\ Encode(r) \in Seq(Text \cup {Nul}) /\ Len(Encode(r)) = 2 + Len(r.body)
      /\ \A i \in 1..2 + Len(r.body) :
           Encode(r)[i] = IF i <= 2 THEN head[i] ELSE r.body[i - 2]
  <2> DEFINE S == Text \cup {Nul}
  <2>1. head \in Seq(S) /\ r.body \in Seq(S)
    BY <1>2, <1>4
  <2> HIDE DEF S
  <2>2. /\ head \o r.body \in Seq(S) /\ Len(head \o r.body) = Len(head) + Len(r.body)
        /\ \A i \in 1..Len(head) + Len(r.body) :
             (head \o r.body)[i] = IF i <= Len(head) THEN head[i] ELSE r.body[i - Len(head)]
    BY <2>1, ConcatProperties
  <2>3. QED
    BY <1>4, <2>2 DEF S
<1>6. /\ Encode(r)[1] = Line(r.target) /\ Encode(r)[2] = Header(Len(r.body))
      /\ \A j \in 1..Len(r.body) : Encode(r)[1 + 1 + j] = r.body[j]
      /\ \A i \in 3..2 + Len(r.body) : Encode(r)[i] = r.body[i - 2] /\ i - 2 \in 1..Len(r.body)
  BY <1>1, <1>4, <1>5
<1>7. At(Encode(r), 1, r)
  BY <1>1, <1>5, <1>6 DEF At
<1>8. \A i \in 2..Len(Encode(r)) : Encode(r)[i].kind # "line"
  <2> SUFFICES ASSUME NEW i \in 2..Len(Encode(r)) PROVE Encode(r)[i].kind # "line"
    OBVIOUS
  <2>1. CASE i = 2
    BY <1>3, <1>6, <2>1
  <2>2. CASE i \in 3..2 + Len(r.body)
    BY <1>2, <1>6, <2>2, KindsOfCell
  <2>3. QED
    BY <1>1, <1>5, <2>1, <2>2
<1>9. QED
  BY <1>1, <1>5, <1>7, <1>8

-----------------------------------------------------------------------------
(* Types. *)

LEMMA SessionTypeInit == Init => TypeOK
<1> SUFFICES ASSUME Init PROVE TypeOK
  OBVIOUS
<1>1. data \in [1..MaxLength -> Cells]
  BY KindsOfCell DEF Init
<1>2. wire \in Seq(Text \cup {Nul}) /\ sent \in Seq(Requests) /\ Len(sent) = 0
  BY EmptySeq DEF Init
<1>3. handled \in [target : Int, body : Seq(Text \cup {Junk})]
      /\ expect \in [target : Int, body : Seq(Text)]
  BY EmptySeq DEF Init, Nothing
<1>4. QED
  BY <1>1, <1>2, <1>3, ConstantsAssumption DEF Init, TypeOK

\* The cells that a read leaves in the socket, and the request it has brought.
LEMMA ReadTypes ==
  ASSUME TypeOK, NEW k \in 1..Len(wire)
  PROVE  /\ SubSeq(wire, k + 1, Len(wire)) \in Seq(Text \cup {Nul})
         /\ WholeRequest(k) \in [target : Int, body : Seq(Text)]
<1>1. /\ wire \in Seq(Text \cup {Nul}) /\ Len(wire) \in Nat \ {0}
      /\ \A i \in 1..Len(wire) : wire[i] \in Text \cup {Nul} /\ wire[i].val \in Int
  BY ElementOfSeq, LenProperties, KindsOfCell DEF TypeOK
<1>2. SubSeq(wire, k + 1, Len(wire)) \in Seq(Text \cup {Nul})
  BY <1>1, RestIs
<1>3. CASE WholeRequest(k) = Nothing
  BY <1>2, <1>3, EmptySeq DEF Nothing
<1>4. CASE WholeRequest(k) # Nothing
  <2> DEFINE n == 2 + wire[2].val
  <2>1. /\ WholeRequest(k) = [target |-> wire[1].val, body |-> SubSeq(wire, 3, n)]
        /\ k >= 2 /\ k >= n /\ \A i \in 3..n : wire[i] # Nul
    BY <1>4 DEF WholeRequest
  <2>2. n \in Int /\ n <= Len(wire) /\ wire[1].val \in Int
    BY <1>1, <2>1
  <2> HIDE DEF n
  <2>3. \A i \in 3..n : wire[i] \in Text
    BY <1>1, <2>1, <2>2
  <2>4. SubSeq(wire, 3, n) \in Seq(Text)
    BY <2>2, <2>3, SubSeqProperties
  <2>5. QED
    BY <1>2, <2>1, <2>2, <2>4
<1>5. QED
  BY <1>3, <1>4

\* The string that data_ holds: the front of it, up to the first NUL, or all of
\* it and what lies behind.
LEMMA CStrings ==
  ASSUME TypeOK, NEW s \in CString
  PROVE  /\ s \in Seq(Text \cup {Junk})
         /\ Len(s) \in Nat
         /\ \A i \in 1..Len(s) : i <= MaxLength => s[i] = data[i]
         /\ Len(s) < MaxLength => data[Len(s) + 1] = Nul
<1> USE ConstantsAssumption
<1> DEFINE nuls == {i \in 1..MaxLength : data[i] = Nul}
<1>1. data \in [1..MaxLength -> Cells] /\ data \in Seq(Cells) /\ Len(data) = MaxLength
  BY DEF TypeOK
<1>2. CASE nuls = {}
  <2>1. \A i \in 1..MaxLength : data[i] \in Text \cup {Junk}
    BY <1>1, <1>2, KindsOfCell
  <2>2. data \in Seq(Text \cup {Junk})
    BY <1>1, <2>1
  <2>3. /\ <<Junk>> \in Seq(Text \cup {Junk}) /\ Len(<<Junk>>) = 1
        /\ s = data \/ s = data \o <<Junk>>
    BY <1>2 DEF CString
  <2> DEFINE S == Text \cup {Junk}
  <2>4. data \in Seq(S) /\ <<Junk>> \in Seq(S)
    BY <2>2, <2>3
  <2> HIDE DEF S
  <2>5. /\ data \o <<Junk>> \in Seq(S) /\ Len(data \o <<Junk>>) = MaxLength + 1
        /\ \A i \in 1..MaxLength : (data \o <<Junk>>)[i] = data[i]
    BY <1>1, <2>3, <2>4, ConcatProperties
  <2>6. s \in Seq(S) /\ Len(s) \in Nat /\ Len(s) >= MaxLength
    <3>1. CASE s = data
      BY <1>1, <2>4, <3>1
    <3>2. CASE s = data \o <<Junk>>
      BY <2>5, <3>2
    <3>3. QED
      BY <2>3, <3>1, <3>2
  <2>7. \A i \in 1..Len(s) : i <= MaxLength => s[i] = data[i]
    BY <1>1, <2>3, <2>5
  <2>8. QED
    BY <2>6, <2>7 DEF S
<1>3. CASE nuls # {}
  <2>1. PICK n \in nuls : (\A i \in nuls : n <= i) /\ s = SubSeq(data, 1, n - 1)
    BY <1>3 DEF CString
  <2>2. \A i \in 1..n - 1 : data[i] \in Text \cup {Junk}
    BY <1>1, <2>1, KindsOfCell
  <2>3. /\ s \in Seq(Text \cup {Junk}) /\ Len(s) = n - 1
        /\ \A i \in 1..n - 1 : s[i] = data[i]
    BY <2>1, <2>2, SubSeqProperties
  <2>4. QED
    BY <2>1, <2>3
<1>4. QED
  BY <1>2, <1>3

LEMMA ParseType ==
  ASSUME NEW s \in Seq(Text \cup {Junk})
  PROVE  ParseRequest(s) \in [target : Int, body : Seq(Text \cup {Junk})]
<1>1. /\ Len(s) \in Nat
      /\ \A i \in 1..Len(s) : s[i] \in Text \cup {Junk} /\ s[i].val \in Int
  BY ElementOfSeq, LenProperties, KindsOfCell
<1>2. CASE Len(s) >= 2 /\ s[1].kind = "line" /\ s[2].kind = "header"
  <2> DEFINE n == IF 2 + s[2].val <= Len(s) THEN 2 + s[2].val ELSE Len(s)
  <2>1. /\ ParseRequest(s) = [target |-> s[1].val, body |-> SubSeq(s, 3, n)]
        /\ n \in Int /\ n <= Len(s)
    BY <1>1, <1>2 DEF ParseRequest
  <2> HIDE DEF n
  <2>2. \A i \in 3..n : s[i] \in Text \cup {Junk}
    BY <1>1, <2>1
  <2>3. SubSeq(s, 3, n) \in Seq(Text \cup {Junk})
    BY <2>1, <2>2, SubSeqProperties
  <2>4. QED
    BY <1>1, <1>2, <2>1, <2>3
<1>3. CASE ~(Len(s) >= 2 /\ s[1].kind = "line" /\ s[2].kind = "header")
  <2>1. ParseRequest(s) = BadRequest
    BY <1>3 DEF ParseRequest
  <2>2. QED
    BY <2>1, EmptySeq DEF BadRequest
<1>4. QED
  BY <1>2, <1>3

LEMMA SessionTypeNext ==
  ASSUME TypeOK, [Next]_vars
  PROVE  TypeOK'
<1>1. ASSUME NEW r \in Requests, Send(r) PROVE TypeOK'
  <2>1. wire' \in Seq(Text \cup {Nul})
    BY <1>1, EncodeIs, ConcatProperties DEF Send, TypeOK
  <2>2. sent' \in Seq(Requests) /\ Len(sent') <= MaxSent
    BY <1>1, AppendProperties, LenProperties, ConstantsAssumption DEF Send, TypeOK
  <2>3. QED
    BY <1>1, <2>1, <2>2 DEF Send, TypeOK
<1>2. ASSUME Close \/ Reset \/ ReadError \/ EndpointThrows \/ HandleWrite PROVE TypeOK'
  BY <1>2, EmptySeq DEF Close, Reset, ReadError, EndpointThrows, HandleWrite, TypeOK
<1>3. ASSUME NEW k \in 1..MaxLength, Read(k) PROVE TypeOK'
  <2>1. k \in 1..Len(wire) /\ \A i \in 1..k : wire[i] \in Cells
    BY <1>3, ElementOfSeq, LenProperties, KindsOfCell DEF Read, TypeOK
  <2>2. data' \in [1..MaxLength -> Cells]
    BY <1>3, <2>1 DEF Read, TypeOK
  <2>3. QED
    BY <1>3, <2>1, <2>2, ReadTypes DEF Read, TypeOK
<1>4. ASSUME HandleRead PROVE TypeOK'
  <2>1. handled' \in [target : Int, body : Seq(Text \cup {Junk})]
    BY <1>4, CStrings, ParseType DEF HandleRead
  <2>2. QED
    BY <1>4, <2>1 DEF HandleRead, TypeOK
<1>5. ASSUME UNCHANGED vars PROVE TypeOK'
  BY <1>5 DEF vars, TypeOK
<1>6. QED
  BY <1>1, <1>2, <1>3, <1>4, <1>5 DEF Next, Quiescent

\* Every variable keeps its type, data_ its size (session.cc).
THEOREM SessionTypeCorrect == Spec => []TypeOK
BY SessionTypeInit, SessionTypeNext, PTL DEF Spec

-----------------------------------------------------------------------------
(* The inductive invariant: wherever a request begins in the socket, all of  *)
(* it is there, and a request that a read has brought whole is at the front  *)
(* of data_ until it is handled.                                             *)

WireInv ==
  \A i \in DOMAIN wire : wire[i].kind = "line" =>
    \E n \in DOMAIN sent : At(wire, i, sent[n])

HeldInv ==
  phase = "handle_read" /\ expect # Nothing =>
    /\ At(data, 1, expect)
    /\ \E n \in DOMAIN sent : sent[n] = expect

SessionInv == WireInv /\ HeldInv /\ WholeReadHandledAsSent

\* A request is where it was when cells are added behind it ...
LEMMA AtConcat ==
  ASSUME NEW S, NEW s \in Seq(S), NEW u \in Seq(S), NEW T, NEW r, r.body \in Seq(T),
         NEW i \in 1..Len(s), At(s, i, r)
  PROVE  At(s \o u, i, r)
<1> DEFINE t == s \o u
           n == Len(r.body)
<1>1. /\ Len(s) \in Nat /\ Len(u) \in Nat /\ Len(t) = Len(s) + Len(u)
      /\ \A j \in 1..Len(s) : t[j] = s[j]
      /\ n \in Nat /\ i \in Nat \ {0}
  BY LenProperties, ConcatProperties
<1> HIDE DEF t, n
<1>2. /\ i + 1 + n <= Len(s)
      /\ s[i] = Line(r.target) /\ s[i + 1] = Header(n)
      /\ \A j \in 1..n : s[i + 1 + j] = r.body[j]
  BY DEF At, n
<1>3. /\ i + 1 + n <= Len(t)
      /\ t[i] = s[i] /\ t[i + 1] = s[i + 1]
      /\ \A j \in 1..n : t[i + 1 + j] = s[i + 1 + j]
  <2>1. i + 1 \in 1..Len(s) /\ i + 1 + n <= Len(t)
    BY <1>1, <1>2
  <2>2. \A j \in 1..n : i + 1 + j \in 1..Len(s)
    BY <1>1, <1>2
  <2>3. QED
    BY <1>1, <2>1, <2>2
<1>4. At(t, i, r)
  BY <1>2, <1>3 DEF At, n
<1>5. QED
  BY <1>4 DEF t

\* ... further on when they are added before it ...
LEMMA AtBehind ==
  ASSUME NEW S, NEW s \in Seq(S), NEW u \in Seq(S), NEW T, NEW r, r.body \in Seq(T),
         At(u, 1, r)
  PROVE  At(s \o u, Len(s) + 1, r)
<1> DEFINE t == s \o u
           m == Len(s)
           n == Len(r.body)
<1>1. /\ m \in Nat /\ Len(u) \in Nat /\ Len(t) = m + Len(u)
      /\ \A j \in 1..Len(u) : t[m + j] = u[j]
      /\ n \in Nat
  BY LenProperties, ConcatProperties
<1> HIDE DEF t, m, n
<1>2. /\ 1 + 1 + n <= Len(u)
      /\ u[1] = Line(r.target) /\ u[1 + 1] = Header(n)
      /\ \A j \in 1..n : u[1 + 1 + j] = r.body[j]
  BY DEF At, n
<1>3. t[m + 1] = u[1] /\ t[m + 1 + 1] = u[1 + 1]
  <2>1. 2 \in 1..Len(u) /\ 1 \in 1..Len(u)
    BY <1>1, <1>2
  <2>2. m + 1 + 1 = m + 2 /\ 1 + 1 = 2
    BY <1>1
  <2>3. QED
    BY <1>1, <2>1, <2>2
<1>4. ASSUME NEW j \in 1..n
      PROVE  t[m + 1 + 1 + j] = u[1 + 1 + j]
  <2>1. 2 + j \in 1..Len(u) /\ m + 1 + 1 + j = m + (2 + j) /\ 1 + 1 + j = 2 + j
    BY <1>1, <1>2
  <2>2. QED
    BY <1>1, <2>1
<1>5. m + 1 + 1 + n <= Len(t)
  BY <1>1, <1>2
<1>6. At(t, m + 1, r)
  BY <1>2, <1>3, <1>4, <1>5 DEF At, n
<1>7. QED
  BY <1>6 DEF t, m

\* ... and nearer when they are taken away.
LEMMA AtSubSeq ==
  ASSUME NEW S, NEW s \in Seq(S), NEW k \in 0..Len(s), NEW T, NEW r, r.body \in Seq(T),
         NEW i \in 1..Len(s) - k, At(s, k + i, r)
  PROVE  At(SubSeq(s, k + 1, Len(s)), i, r)
<1> DEFINE t == SubSeq(s, k + 1, Len(s))
           m == Len(s)
           n == Len(r.body)
<1>1. m \in Nat /\ n \in Nat /\ k \in Nat /\ i \in Nat \ {0} /\ i <= m - k
  BY LenProperties
<1>2. Len(t) = m - k /\ \A j \in 1..m - k : t[j] = s[k + j]
  BY RestIs
<1> HIDE DEF t, m, n
<1>3. /\ k + i + 1 + n <= m
      /\ s[k + i] = Line(r.target) /\ s[k + i + 1] = Header(n)
      /\ \A j \in 1..n : s[k + i + 1 + j] = r.body[j]
  BY DEF At, m, n
<1>4. t[i] = s[k + i] /\ t[i + 1] = s[k + i + 1]
  <2>1. i \in 1..m - k /\ i + 1 \in 1..m - k /\ k + (i + 1) = k + i + 1
    BY <1>1, <1>3
  <2>2. QED
    BY <1>2, <2>1
<1>5. ASSUME NEW j \in 1..n PROVE t[i + 1 + j] = s[k + i + 1 + j]
  <2>1. i + 1 + j \in 1..m - k /\ k + (i + 1 + j) = k + i + 1 + j
    BY <1>1, <1>3
  <2>2. QED
    BY <1>2, <2>1
<1>6. i + 1 + n <= Len(t)
  BY <1>1, <1>2, <1>3
<1>7. At(t, i, r)
  BY <1>3, <1>4, <1>5, <1>6 DEF At, n
<1>8. QED
  BY <1>7 DEF t

LEMMA SentTypes ==
  ASSUME TypeOK
  PROVE  \A n \in DOMAIN sent : /\ sent[n] \in Requests /\ Len(sent[n].body) \in Nat
                                /\ sent[n].body \in Seq(Bytes \cup {Nul})
                                /\ sent[n].target \in Int
<1>1. \A n \in DOMAIN sent : sent[n] \in Requests
  BY ElementOfSeq, LenProperties DEF TypeOK
<1>2. \A r \in Requests : r.body \in Seq(Bytes \cup {Nul}) /\ r.target \in Int
  BY ConstantsAssumption
<1>3. \A r \in Requests : Len(r.body) \in Nat
  BY <1>2, LenProperties
<1>4. QED
  BY <1>1, <1>2, <1>3

\* The request that a read brings whole is one that was sent.
LEMMA WholeIsSent ==
  ASSUME TypeOK, WireInv, NEW k \in 1..Len(wire), WholeRequest(k) # Nothing
  PROVE  \E n \in DOMAIN sent :
           /\ WholeRequest(k) = sent[n] /\ At(wire, 1, sent[n])
           /\ 2 + Len(sent[n].body) <= k
<1>1. /\ wire \in Seq(Text \cup {Nul}) /\ Len(wire) \in Nat /\ DOMAIN wire = 1..Len(wire)
      /\ \A i \in 1..Len(wire) : wire[i] \in Text \cup {Nul}
  BY ElementOfSeq, LenProperties DEF TypeOK
<1>2. /\ wire[1].kind = "line" /\ k >= 2 /\ k >= 2 + wire[2].val
      /\ WholeRequest(k)
           = [target |-> wire[1].val, body |-> SubSeq(wire, 3, 2 + wire[2].val)]
  BY DEF WholeRequest
<1>3. PICK n \in DOMAIN sent : At(wire, 1, sent[n])
  BY <1>1, <1>2 DEF WireInv
<1> DEFINE r == sent[n]
<1>4. /\ r \in [target : Int, body : Seq(Bytes \cup {Nul})]
      /\ r.body \in Seq(Bytes \cup {Nul}) /\ Len(r.body) \in Nat
  BY SentTypes, ConstantsAssumption
<1> HIDE DEF r
<1>5. /\ wire[1].val = r.target /\ wire[2].val = Len(r.body)
      /\ 2 + Len(r.body) <= Len(wire)
      /\ \A j \in 1..Len(r.body) : wire[2 + j] = r.body[j]
  BY <1>1, <1>3, <1>4 DEF At, Line, Header, Cell, r
<1>6. SubSeq(wire, 3, 2 + Len(r.body)) = r.body
  <2> DEFINE b == SubSeq(wire, 3, 2 + Len(r.body))
  <2>1. /\ b \in Seq(Text \cup {Nul}) /\ Len(b) = Len(r.body)
        /\ \A j \in 1..Len(r.body) : b[j] = wire[2 + j]
    BY <1>1, <1>4, <1>5, SubSeqProperties
  <2> HIDE DEF b
  <2>2. b \in [1..Len(r.body) -> Text \cup {Nul}] /\ r.body \in [1..Len(r.body) -> Bytes \cup {Nul}]
    BY <1>4, <2>1, LenProperties
  <2>3. \A j \in 1..Len(r.body) : b[j] = r.body[j]
    BY <1>5, <2>1
  <2>4. b = r.body
    BY <2>2, <2>3
  <2>5. QED
    BY <2>4 DEF b
<1>7. WholeRequest(k) = r
  BY <1>2, <1>4, <1>5, <1>6
<1>8. QED
  BY <1>2, <1>3, <1>5, <1>7 DEF r

\* The parser finds the request at the front of data_ as it was sent, if no NUL
\* byte cuts it short.
LEMMA ParsedAsHeld ==
  ASSUME TypeOK, At(data, 1, expect), NEW s \in CString
  PROVE  ParseRequest(s) = expect
<1>1. /\ s \in Seq(Text \cup {Junk}) /\ Len(s) \in Nat
      /\ \A i \in 1..Len(s) : i <= MaxLength => s[i] = data[i]
      /\ Len(s) < MaxLength => data[Len(s) + 1] = Nul
  BY CStrings
<1> DEFINE n == Len(expect.body)
<1>2. /\ expect = [target |-> expect.target, body |-> expect.body]
      /\ expect.body \in Seq(Text) /\ n \in Nat
      /\ \A j \in 1..n : expect.body[j] \in Text
  BY LenProperties, ElementOfSeq DEF TypeOK
<1>3. Len(data) = MaxLength /\ MaxLength \in Nat
  BY ConstantsAssumption DEF TypeOK
<1>4. /\ 2 + n <= MaxLength
      /\ data[1] = Line(expect.target) /\ data[2] = Header(n)
      /\ \A j \in 1..n : data[2 + j] = expect.body[j]
  BY <1>2, <1>3 DEF At
<1> HIDE DEF n
<1>5. \A i \in 1..2 + n : data[i] # Nul
  <2>1. data[1] # Nul /\ data[2] # Nul
    BY <1>4 DEF Line, Header, Nul, Cell
  <2>2. ASSUME NEW i \in 3..2 + n PROVE data[i] # Nul
    <3>1. i - 2 \in 1..n /\ data[2 + (i - 2)] = data[i]
      BY <1>2
    <3>2. QED
      BY <1>2, <1>4, <3>1, KindsOfCell
  <2>3. QED
    BY <1>2, <2>1, <2>2
<1>6. Len(s) >= 2 + n
  BY <1>1, <1>2, <1>3, <1>4, <1>5
<1>7. /\ s[1] = Line(expect.target) /\ s[2] = Header(n)
      /\ \A j \in 1..n : s[2 + j] = expect.body[j]
  <2>1. \A i \in 1..2 + n : s[i] = data[i]
    BY <1>1, <1>2, <1>3, <1>4, <1>6
  <2>2. \A j \in 1..n : 2 + j \in 1..2 + n
    BY <1>2
  <2>3. QED
    BY <1>2, <1>4, <2>1, <2>2
<1>8. SubSeq(s, 3, 2 + n) = expect.body
  <2> DEFINE b == SubSeq(s, 3, 2 + n)
  <2>1. \A i \in 3..2 + n : s[i] \in Text \cup {Junk}
    BY <1>1, <1>2, <1>6, ElementOfSeq
  <2>2. /\ b \in Seq(Text \cup {Junk}) /\ Len(b) = n
        /\ \A j \in 1..n : b[j] = s[2 + j]
    BY <1>2, <2>1, SubSeqProperties
  <2> HIDE DEF b
  <2>3. b \in [1..n -> Text \cup {Junk}] /\ expect.body \in [1..n -> Text]
    BY <1>2, <2>2, LenProperties DEF n
  <2>4. b = expect.body
    <3>1. \A j \in 1..n : b[j] = expect.body[j]
      BY <1>7, <2>2
    <3>2. /\ b = [j \in 1..n |-> b[j]]
          /\ expect.body = [j \in 1..n |-> expect.body[j]]
      BY <2>3
    <3>3. QED
      BY <3>1, <3>2
  <2>5. QED
    BY <2>4 DEF b
<1>9. QED
  BY <1>1, <1>2, <1>6, <1>7, <1>8 DEF ParseRequest, Line, Header, Cell

LEMMA SessionInvInit == Init => SessionInv
BY DEF Init, SessionInv, WireInv, HeldInv, WholeReadHandledAsSent

LEMMA SessionInvNext ==
  ASSUME TypeOK, SessionInv, [Next]_vars
  PROVE  SessionInv'
<1> USE DEF SessionInv
<1>0. /\ wire \in Seq(Text \cup {Nul}) /\ Len(wire) \in Nat /\ DOMAIN wire = 1..Len(wire)
      /\ sent \in Seq(Requests) /\ Len(sent) \in Nat /\ DOMAIN sent = 1..Len(sent)
  BY LenProperties DEF TypeOK
<1>1. ASSUME NEW r \in Requests, Send(r) PROVE SessionInv'
  <2>1. /\ wire' = wire \o Encode(r) /\ sent' = Append(sent, r)
        /\ UNCHANGED <<data, phase, handled, expect>>
    BY <1>1 DEF Send
  <2>2. /\ DOMAIN sent' = 1..Len(sent) + 1 /\ sent'[Len(sent) + 1] = r
        /\ \A n \in DOMAIN sent : n \in DOMAIN sent' /\ sent'[n] = sent[n]
    BY <1>0, <2>1, AppendProperties
  <2>3. /\ Encode(r) \in Seq(Text \cup {Nul}) /\ Len(Encode(r)) \in Nat
        /\ r.body \in Seq(Bytes \cup {Nul})
    BY EncodeIs, ConstantsAssumption
  <2>4. ASSUME NEW i \in DOMAIN wire', wire'[i].kind = "line"
        PROVE  \E n \in DOMAIN sent' : At(wire', i, sent'[n])
    <3> DEFINE e == Encode(r)
               w == wire \o e
    <3>1. /\ Len(w) = Len(wire) + Len(e) /\ DOMAIN w = 1..Len(w)
          /\ \A j \in 1..Len(w) : w[j] = IF j <= Len(wire) THEN wire[j] ELSE e[j - Len(wire)]
      BY <1>0, <2>3, ConcatProperties, LenProperties
    <3>2. wire' = w
      BY <2>1
    <3>3. Len(e) \in Nat /\ \A j \in 2..Len(e) : e[j].kind # "line"
      BY EncodeIs
    <3> HIDE DEF w, e
    <3>4. CASE i <= Len(wire)
      <4>1. i \in DOMAIN wire /\ wire[i].kind = "line"
        BY <1>0, <2>4, <3>1, <3>2, <3>4
      <4>2. PICK n \in DOMAIN sent : At(wire, i, sent[n])
        BY <4>1 DEF WireInv
      <4>3. At(w, i, sent[n])
        BY <1>0, <2>3, <4>1, <4>2, AtConcat, SentTypes DEF w, e
      <4>4. QED
        BY <2>2, <3>2, <4>2, <4>3
    <3>5. CASE i > Len(wire)
      <4>1. i - Len(wire) \in 1..Len(e) /\ e[i - Len(wire)].kind = "line"
        BY <1>0, <2>4, <3>1, <3>2, <3>3, <3>5
      <4>2. i = Len(wire) + 1
        BY <1>0, <3>3, <4>1, <3>1, <3>2
      <4>3. At(w, i, r)
        BY <1>0, <2>3, <4>2, AtBehind, EncodeIs DEF w, e
      <4>4. QED
        BY <1>0, <2>2, <3>2, <4>3
    <3>6. QED
      BY <1>0, <2>4, <3>1, <3>2, <3>4, <3>5
  <2>5. WireInv'
    BY <2>4 DEF WireInv
  <2>6. QED
    BY <2>1, <2>2, <2>5 DEF HeldInv, WholeReadHandledAsSent
<1>2. ASSUME Close \/ Reset \/ ReadError \/ EndpointThrows \/ HandleWrite
      PROVE  SessionInv'
  <2>1. UNCHANGED <<data, sent, handled, expect>> /\ wire' \in {wire, <<>>}
    BY <1>2 DEF Close, Reset, ReadError, EndpointThrows, HandleWrite
  <2>2. /\ phase' = "writing" => phase = "writing"
        /\ phase' = "handle_read" => phase = "handle_read"
    BY <1>2 DEF Close, Reset, ReadError, EndpointThrows, HandleWrite
  <2>3. WireInv'
    BY <2>1 DEF WireInv
  <2>4. QED
    BY <2>1, <2>2, <2>3 DEF HeldInv, WholeReadHandledAsSent
<1>3. ASSUME NEW k \in 1..MaxLength, Read(k) PROVE SessionInv'
  <2>1. /\ k \in 1..Len(wire) /\ k <= MaxLength /\ MaxLength \in Nat
        /\ wire' = SubSeq(wire, k + 1, Len(wire)) /\ expect' = WholeRequest(k)
        /\ data' = [i \in 1..MaxLength |-> IF i <= k THEN wire[i] ELSE data[i]]
        /\ phase' = "handle_read" /\ sent' = sent
    BY <1>3, ConstantsAssumption DEF Read
  <2>2. ASSUME NEW i \in DOMAIN wire', wire'[i].kind = "line"
        PROVE  \E n \in DOMAIN sent : At(wire', i, sent[n])
    <3> DEFINE w == SubSeq(wire, k + 1, Len(wire))
    <3>1. /\ Len(w) = Len(wire) - k /\ DOMAIN w = 1..Len(w)
          /\ \A j \in 1..Len(w) : w[j] = wire[k + j]
      <4>1. k \in 0..Len(wire)
        BY <1>0, <2>1
      <4>2. /\ w \in Seq(Text \cup {Nul}) /\ Len(w) = Len(wire) - k
            /\ \A j \in 1..Len(wire) - k : w[j] = wire[k + j]
        BY ONLY <1>0, <4>1, RestIs DEF w
      <4> HIDE DEF w
      <4>3. QED
        BY <4>2, LenProperties
    <3>2. wire' = w
      BY <2>1
    <3> HIDE DEF w
    <3>3. i \in 1..Len(wire) - k /\ k + i \in DOMAIN wire /\ wire[k + i].kind = "line"
      BY <1>0, <2>1, <2>2, <3>1, <3>2
    <3>4. PICK n \in DOMAIN sent : At(wire, k + i, sent[n])
      BY <3>3 DEF WireInv
    <3>5. At(w, i, sent[n])
      <4>1. k \in 0..Len(wire) /\ sent[n].body \in Seq(Bytes \cup {Nul})
        BY <1>0, <2>1, SentTypes
      <4>2. QED
        BY <1>0, <3>3, <3>4, <4>1, AtSubSeq DEF w
    <3>6. QED
      BY <3>2, <3>5
  <2>3. ASSUME expect' # Nothing
        PROVE  At(data', 1, expect') /\ \E n \in DOMAIN sent : sent[n] = expect'
    <3>1. PICK n \in DOMAIN sent :
            expect' = sent[n] /\ At(wire, 1, sent[n]) /\ 2 + Len(sent[n].body) <= k
      BY <2>1, <2>3, WholeIsSent
    <3> DEFINE m == Len(sent[n].body)
    <3>2. m \in Nat /\ 2 + m <= k
      BY <3>1, SentTypes
    <3>3. Len(data') = MaxLength /\ \A i \in 1..k : data'[i] = wire[i]
      BY <2>1
    <3> HIDE DEF m
    <3>4. /\ wire[1] = Line(sent[n].target) /\ wire[2] = Header(m)
          /\ \A j \in 1..m : wire[2 + j] = sent[n].body[j]
      BY <3>1 DEF At, m
    <3>5. \A j \in 1..2 + m : data'[j] = wire[j]
      BY <2>1, <3>2, <3>3
    <3>6. \A j \in 1..m : data'[2 + j] = sent[n].body[j]
      BY <3>2, <3>4, <3>5
    <3>7. At(data', 1, sent[n])
      BY <2>1, <3>2, <3>3, <3>4, <3>5, <3>6 DEF At, m
    <3>8. QED
      BY <3>1, <3>7
  <2>4. QED
    BY <2>1, <2>2, <2>3 DEF WireInv, HeldInv, WholeReadHandledAsSent
<1>4. ASSUME HandleRead PROVE SessionInv'
  <2>1. /\ phase = "handle_read" /\ phase' = "writing"
        /\ UNCHANGED <<data, wire, sent, expect>>
    BY <1>4 DEF HandleRead
  <2>2. expect # Nothing => handled' = expect
    BY <1>4, <2>1, ParsedAsHeld DEF HandleRead, HeldInv
  <2>3. QED
    BY <2>1, <2>2 DEF WireInv, HeldInv, WholeReadHandledAsSent
<1>5. ASSUME UNCHANGED vars PROVE SessionInv'
  BY <1>5 DEF vars, WireInv, HeldInv, WholeReadHandledAsSent
<1>6. QED
  BY <1>1, <1>2, <1>3, <1>4, <1>5 DEF Next, Quiescent

\* A request at the front of a read and wholly in it is handled as it was sent,
\* whatever data_ held before (session.cc, request_handler_delegate.cc).
THEOREM WholeReads == Spec => []WholeReadHandledAsSent
<1>1. Init => TypeOK /\ SessionInv
  BY SessionTypeInit, SessionInvInit
<1>2. TypeOK /\ SessionInv /\ [Next]_vars => TypeOK' /\ SessionInv'
  BY SessionTypeNext, SessionInvNext
<1>3. TypeOK /\ SessionInv => WholeReadHandledAsSent
  BY DEF SessionInv
<1>4. QED
  BY <1>1, <1>2, <1>3, PTL DEF Spec

-----------------------------------------------------------------------------
(* The session on top of the store: every step of SessionStore is a step of   *)
(* Session, or none.                                                          *)

LEMMA ServiceIsSession ==
  ASSUME ServiceNext \/ UNCHANGED serviceVars
  PROVE  [Next]_vars
<1>1. CASE Network
  BY <1>1 DEF Network, Next
<1>2. CASE Process
  BY <1>2 DEF Process, Next
<1>3. CASE Continue
  BY <1>3 DEF Continue, Next
<1>4. CASE Serve \/ Answer \/ ServiceQuiescent \/ UNCHANGED serviceVars
  BY <1>4 DEF Serve, Answer, ServiceQuiescent, serviceVars
<1>5. QED
  BY <1>1, <1>2, <1>3, <1>4 DEF ServiceNext

\* What holds of every session holds of one whose requests the store serves.
LEMMA ServiceKeepsSession == ServiceSpec => [](TypeOK /\ SessionInv)
<1>1. ServiceInit => TypeOK /\ SessionInv
  BY SessionTypeInit, SessionInvInit DEF ServiceInit
<1>2. TypeOK /\ SessionInv /\ [ServiceNext]_serviceVars => TypeOK' /\ SessionInv'
  BY ServiceIsSession, SessionTypeNext, SessionInvNext
<1>3. QED
  BY <1>1, <1>2, PTL DEF ServiceSpec

-----------------------------------------------------------------------------
(* The inductive invariant of the two: the file of a whole request that was   *)
(* acknowledged holds its body, but for the file the request in hand changes. *)

Writes == job[server].method \in {"POST", "PUT"}
Did(c) == reply[server].code = c
In(L)  == pc[server] \in L

ThisFile == Store!Target(server)

\* One thread, and a file system that is shared with nobody.
Shape ==
  /\ DOMAIN pc = {server} /\ DOMAIN job = {server} /\ DOMAIN name = {server}
  /\ DOMAIN open = {server} /\ DOMAIN reply = {server}
  /\ status # "up" => In({"idle"})

\* Which request is where, and what has been settled there.
Flow ==
  /\ In({"idle"}) => job[server] = Store!NoJob
  /\ In({"exists"}) => Writes \/ job[server].method = "GET"
  /\ In({"mkdir", "lock", "scan", "open", "unlock", "write", "dtor"}) => Writes
  /\ In({"isreg"}) => job[server].method \in {"GET", "DELETE"}
  /\ In({"unlink", "isempty", "purge", "rmdir"}) => job[server].method = "DELETE"
  /\ In({"list", "read"}) => job[server].method = "GET"
  /\ In({"list"}) => Len(job[server].uri) = 1
  /\ In({"idle", "exists", "mkdir", "lock", "scan", "open", "isreg", "unlink", "list",
         "read"}) => Did(0)
  /\ In({"write"}) => Did(200)
  /\ Did(200) => job[server].method \in {"GET", "POST", "PUT", "DELETE"}
  /\ ~In({"idle"}) => phase = "writing"
  /\ Writes /\ ~Did(400) => job[server].body = handled.body

\* What a writer has made of its file, and a remover of its directory.
Content ==
  /\ In({"unlock", "write"}) /\ Did(200)
     => open[server] = ThisFile /\ ThisFile \in DOMAIN files /\ files[ThisFile] = <<>>
  /\ In({"dtor", "reply"}) /\ Writes /\ Did(200)
     => ThisFile \in DOMAIN files /\ files[ThisFile] = job[server].body
  /\ In({"purge", "rmdir"}) => \A p \in DOMAIN files :
                                Store!Entity(server) \notin {p[1], Here}

\* Every file is in a directory.
Housed == \A p \in DOMAIN files : p[1] \in dirs

Changes(p) == job[server].method # "GET" /\ Did(200) /\ p = ThisFile

Kept ==
  \A p \in DOMAIN written : Changes(p) \/ (p \in DOMAIN files /\ files[p] = written[p])

ServiceInv ==
  /\ Shape
  /\ status = "up" => Flow /\ Content /\ Kept /\ ReadBackAsSent

\* All of a body that is written to an empty file is what the file holds then.
LEMMA WrittenWhole ==
  ASSUME NEW S, NEW b \in Seq(S)
  PROVE  Store!Overlay(SubSeq(b, 1, Len(b)), <<>>) = b
<1> DEFINE n == Len(b)
           c == SubSeq(b, 1, n)
<1>1. n \in Nat /\ b \in [1..n -> S]
  BY LenProperties
<1>2. c = b
  <2> HIDE DEF n
  <2>1. /\ c \in Seq(S) /\ Len(c) = IF 1 <= n THEN n - 1 + 1 ELSE 0
        /\ \A i \in 1..n - 1 + 1 : c[i] = b[1 + i - 1]
    BY <1>1, SubSeqProperties
  <2> HIDE DEF c
  <2>2. Len(c) = n /\ \A i \in 1..n : c[i] = b[i]
    BY <1>1, <2>1
  <2>3. c \in [1..n -> S]
    BY <2>1, <2>2, LenProperties
  <2>4. QED
    BY <1>1, <2>2, <2>3
<1>3. SubSeq(<<>>, Len(c) + 1, Len(<<>>)) = <<>>
  <2>1. Len(c) = n /\ Len(<<>>) = 0
    BY <1>2
  <2>2. Len(c) + 1 \in Int /\ 0 < Len(c) + 1
    BY <1>1, <2>1
  <2>3. QED
    BY <2>1, <2>2, SubSeqEmpty
<1>4. QED
  BY <1>2, <1>3, ConcatEmptySeq DEF Store!Overlay

\* A step that stores nothing and acknowledges nothing keeps what is stored.
LEMMA NothingStored ==
  ASSUME ServiceInv, status = "up", status' = "up",
         UNCHANGED <<files, written, job, open>>,
         DOMAIN pc' = {server}, DOMAIN name' = {server}, DOMAIN reply' = {server},
         Did(200)' => Did(200) /\ job[server].method # "GET",
         Did(200) => Did(200)' /\ name' = name
  PROVE  Shape' /\ Kept' /\ ReadBackAsSent'
<1>1. Shape'
  BY DEF ServiceInv, Shape
<1>2. ASSUME NEW p \in DOMAIN written'
      PROVE  Changes(p)' \/ (p \in DOMAIN files' /\ files'[p] = written'[p])
  <2>1. CASE Changes(p)
    BY <1>2, <2>1 DEF Changes, ThisFile, Store!Target, Store!Entity
  <2>2. CASE ~Changes(p)
    BY <1>2, <2>2 DEF ServiceInv, Kept
  <2>3. QED
    BY <2>1, <2>2
<1>3. ReadBackAsSent'
  BY DEF ReadBackAsSent, Did
<1>4. QED
  BY <1>1, <1>2, <1>3 DEF Kept

\* The process dies.
LEMMA ServiceCrash ==
  ASSUME NEW why, why # "up", Store!Crash(why)
  PROVE  ServiceInv'
BY DEF Store!Crash, ServiceInv, Shape, In

\* A step that settles no response either.
LEMMA Unsettled ==
  ASSUME ServiceInv, status = "up", NEW label, pc' = [pc EXCEPT ![server] = label],
         UNCHANGED <<status, files, job, open, reply, written>>,
         DOMAIN name' = {server}, name' = name \/ ~Did(200),
         Did(200) => job[server].method # "GET", Flow', Content'
  PROVE  ServiceInv'
<1>1. DOMAIN pc' = {server} /\ DOMAIN reply' = {server} /\ status' = "up"
      /\ (Did(200)' <=> Did(200))
  BY DEF ServiceInv, Shape, Did
<1>2. Shape' /\ Kept' /\ ReadBackAsSent'
  BY <1>1, NothingStored
<1>3. QED
  BY <1>2 DEF ServiceInv

\* A step that settles a refusal.
LEMMA Refused ==
  ASSUME ServiceInv, status = "up", DOMAIN pc' = {server}, DOMAIN reply' = {server},
         ~Did(200), ~Did(200)',
         UNCHANGED <<status, files, job, open, name, written>>, Flow', Content'
  PROVE  ServiceInv'
<1>1. status' = "up" /\ DOMAIN name' = {server}
  BY DEF ServiceInv, Shape
<1>2. Shape' /\ Kept' /\ ReadBackAsSent'
  BY <1>1, NothingStored
<1>3. QED
  BY <1>2 DEF ServiceInv

\* The writers, up to the opening of their file and after they have written it.
LEMMA WriterSteps ==
  ASSUME ServiceInv, status = "up", UNCHANGED <<vars, written>>,
         \/ Store!WriterExists(server) \/ Store!CreateDirectory(server)
         \/ Store!Lock(server) \/ Store!ScanDirectory(server) \/ Store!OpenFails(server)
         \/ Store!ExplicitUnlock(server) \/ Store!DestroyLock(server)
  PROVE  ServiceInv'
<1> USE DEF Store!Move, Store!At, Store!Goto
<1>0. /\ UNCHANGED <<phase, handled, expect, written>>
      /\ Shape /\ Flow /\ Content
      /\ DOMAIN name = {server} /\ DOMAIN pc = {server}
  BY DEF vars, ServiceInv, Shape
<1>1. CASE Store!WriterExists(server)
  <2>1. CASE Store!Crash("too_long")
    BY <2>1, ServiceCrash
  <2>2. CASE ~Store!Crash("too_long")
    <3>1. PICK label \in {"mkdir", "lock"} :
            /\ pc[server] = "exists" /\ pc' = [pc EXCEPT ![server] = label]
            /\ Writes /\ UNCHANGED <<status, files, job, name, open, reply>>
      BY <1>1, <2>2 DEF Store!WriterExists, Writes
    <3>2. Flow' /\ Content' /\ ~Did(200)
      BY <1>0, <3>1 DEF Flow, Content, In, Did, Writes
    <3>3. QED
      BY <1>0, <3>1, <3>2, Unsettled
  <2>3. QED
    BY <2>1, <2>2
<1>2. CASE Store!CreateDirectory(server)
  <2>1. /\ pc[server] = "mkdir" /\ pc' = [pc EXCEPT ![server] = "lock"]
        /\ UNCHANGED <<status, files, job, name, open, reply>>
    BY <1>2 DEF Store!CreateDirectory
  <2>2. Flow' /\ Content' /\ ~Did(200)
    BY <1>0, <2>1 DEF Flow, Content, In, Did, Writes
  <2>3. QED
    BY <1>0, <2>1, <2>2, Unsettled
<1>3. CASE Store!Lock(server)
  <2>1. PICK label \in {"scan", "open"} :
          /\ pc[server] = "lock" /\ pc' = [pc EXCEPT ![server] = label]
          /\ UNCHANGED <<status, files, job, name, open, reply>>
    BY <1>3 DEF Store!Lock
  <2>2. Flow' /\ Content' /\ ~Did(200)
    BY <1>0, <2>1 DEF Flow, Content, In, Did, Writes
  <2>3. QED
    BY <1>0, <2>1, <2>2, Unsettled
<1>4. CASE Store!ScanDirectory(server)
  <2>1. CASE \E why \in {"no_dir", "no_number", "out_of_range"} : Store!Crash(why)
    BY <2>1, ServiceCrash
  <2>2. CASE ~\E why \in {"no_dir", "no_number", "out_of_range"} : Store!Crash(why)
    <3>1. /\ pc[server] = "scan" /\ pc' = [pc EXCEPT ![server] = "open"]
          /\ DOMAIN name' = {server}
          /\ UNCHANGED <<status, files, job, open, reply>>
      BY <1>0, <1>4, <2>2 DEF Store!ScanDirectory
    <3>2. Flow' /\ Content' /\ ~Did(200)
      BY <1>0, <3>1 DEF Flow, Content, In, Did, Writes
    <3>3. QED
      BY <1>0, <3>1, <3>2, Unsettled
  <2>3. QED
    BY <2>1, <2>2
<1>5. CASE Store!OpenFails(server)
  <2>1. /\ pc[server] = "open" /\ pc' = [pc EXCEPT ![server] = "unlock"]
        /\ Store!Settle(server, Store!Code(500))
        /\ UNCHANGED <<status, files, job, name, open>>
    BY <1>5 DEF Store!OpenFails
  <2>2. reply'[server].code = 500
    BY <1>0, <2>1 DEF Shape, Store!Settle, Store!Code
  <2>3. Flow' /\ Content' /\ ~Did(200)
    BY <1>0, <2>1, <2>2 DEF Flow, Content, In, Did, Writes
  <2>4. DOMAIN pc' = {server} /\ DOMAIN reply' = {server} /\ ~Did(200)'
    BY <1>0, <2>1, <2>2 DEF Shape, Did, Store!Settle
  <2>5. QED
    BY <1>0, <2>1, <2>3, <2>4, Refused
<1>6. CASE Store!ExplicitUnlock(server)
  <2>1. /\ pc[server] = "unlock"
        /\ pc' = [pc EXCEPT ![server] = IF Did(200) THEN "write" ELSE "dtor"]
        /\ UNCHANGED <<status, files, job, name, open, reply>>
    BY <1>6 DEF Store!ExplicitUnlock, Did
  <2>2. (Did(200)' <=> Did(200)) /\ (Did(400)' <=> Did(400)) /\ (Writes' <=> Writes)
        /\ ThisFile' = ThisFile /\ Writes
    BY <1>0, <2>1 DEF Did, Writes, ThisFile, Store!Target, Store!Entity, Flow, In
  <2>3. CASE Did(200)
    <3>1. pc' = [pc EXCEPT ![server] = "write"]
      BY <2>1, <2>3
    <3>2. Flow' /\ Content'
      BY <1>0, <2>1, <2>2, <2>3, <3>1 DEF Flow, Content, In, Writes
    <3>3. QED
      BY <1>0, <2>1, <2>2, <3>1, <3>2, Unsettled DEF Writes
  <2>4. CASE ~Did(200)
    <3>1. pc' = [pc EXCEPT ![server] = "dtor"]
      BY <2>1, <2>4
    <3>2. Flow' /\ Content'
      BY <1>0, <2>1, <2>2, <2>4, <3>1 DEF Flow, Content, In, Writes
    <3>3. QED
      BY <1>0, <2>1, <2>4, <3>1, <3>2, Unsettled
  <2>5. QED
    BY <2>3, <2>4
<1>7. CASE Store!DestroyLock(server)
  <2>1. /\ pc[server] = "dtor" /\ pc' = [pc EXCEPT ![server] = "reply"]
        /\ UNCHANGED <<status, files, job, name, open, reply>>
    BY <1>7 DEF Store!DestroyLock
  <2>2. (Did(200)' <=> Did(200)) /\ (Did(400)' <=> Did(400)) /\ (Writes' <=> Writes)
        /\ ThisFile' = ThisFile /\ Writes
    BY <1>0, <2>1 DEF Did, Writes, ThisFile, Store!Target, Store!Entity, Flow, In
  <2>3. Flow' /\ Content'
    BY <1>0, <2>1, <2>2 DEF Flow, Content, In, Writes
  <2>4. QED
    BY <1>0, <2>1, <2>2, <2>3, Unsettled DEF Writes
<1>8. QED
  BY <1>1, <1>2, <1>3, <1>4, <1>5, <1>6, <1>7

\* The readers and the remover, but for what they read and remove.
LEMMA OtherSteps ==
  ASSUME ServiceInv, Housed, status = "up", UNCHANGED <<vars, written>>,
         \/ Store!NameNoEntity(server) \/ Store!GetExists(server)
         \/ Store!IsRegularFile(server) \/ Store!UnlinkMissing(server)
         \/ Store!IsEmpty(server) \/ Store!RemoveDirectory(server)
  PROVE  ServiceInv'
<1> USE DEF Store!Move, Store!At, Store!Goto
<1>0. /\ UNCHANGED <<phase, handled, expect, written>>
      /\ Shape /\ Flow /\ Content
      /\ DOMAIN name = {server} /\ DOMAIN pc = {server}
  BY DEF vars, ServiceInv, Shape
<1>1. CASE Store!NameNoEntity(server)
  BY <1>1, ServiceCrash DEF Store!NameNoEntity
<1>2. CASE Store!GetExists(server) /\ ~Store!Crash("too_long")
  <2>1. /\ pc[server] = "exists" /\ job[server].method = "GET"
        /\ UNCHANGED <<status, files, job, name, open>>
    BY <1>2 DEF Store!GetExists, Store!Is
  <2>2. ~Did(200) /\ ~Writes
    BY <1>0, <2>1 DEF Flow, In, Did, Writes
  <2>3. CASE pc' = [pc EXCEPT ![server] = "reply"]
    <3>1. Store!Settle(server, Store!Code(400))
      BY <1>0, <1>2, <2>3 DEF Store!GetExists, Store!Settle
    <3>2. reply'[server].code = 400
      BY <1>0, <3>1 DEF Shape, Store!Settle, Store!Code
    <3>3. Flow' /\ Content'
      BY <1>0, <2>1, <2>2, <2>3, <3>2 DEF Flow, Content, In, Did, Writes
    <3>4. DOMAIN pc' = {server} /\ DOMAIN reply' = {server} /\ ~Did(200)'
      BY <1>0, <2>3, <3>1, <3>2 DEF Shape, Did, Store!Settle
    <3>5. QED
      BY <1>0, <2>1, <2>2, <2>3, <3>1, <3>3, <3>4, Refused
  <2>4. CASE pc' # [pc EXCEPT ![server] = "reply"]
    <3>1. PICK label \in {"list", "isreg"} :
            /\ pc' = [pc EXCEPT ![server] = label] /\ UNCHANGED reply
            /\ label = "list" => Len(job[server].uri) = 1
      BY <1>2, <2>4 DEF Store!GetExists
    <3>2. Flow' /\ Content'
      BY <1>0, <2>1, <2>2, <3>1 DEF Flow, Content, In, Did, Writes
    <3>3. QED
      BY <1>0, <2>1, <2>2, <3>1, <3>2, Unsettled
  <2>5. QED
    BY <2>3, <2>4
<1>3. CASE Store!IsRegularFile(server) /\ ~Store!Crash("too_long")
  <2>1. pc[server] = "isreg" /\ UNCHANGED <<status, files, job, name, open>>
    BY <1>3 DEF Store!IsRegularFile
  <2>2. ~Did(200) /\ Did(0)
    BY <1>0, <2>1 DEF Flow, In, Did
  <2>3. CASE ThisFile \notin DOMAIN files
    <3>1. /\ pc' = [pc EXCEPT ![server] = "reply"]
          /\ Store!Settle(server, Store!Code(400))
      BY <1>3, <2>3 DEF Store!IsRegularFile, Store!Settle, ThisFile
    <3>2. reply'[server].code = 400
      BY <1>0, <3>1 DEF Shape, Store!Settle, Store!Code
    <3>3. Flow' /\ Content'
      BY <1>0, <2>1, <2>2, <3>1, <3>2 DEF Flow, Content, In, Did, Writes
    <3>4. DOMAIN pc' = {server} /\ DOMAIN reply' = {server} /\ ~Did(200)'
      BY <1>0, <3>1, <3>2 DEF Shape, Did, Store!Settle
    <3>5. QED
      BY <1>0, <2>1, <2>2, <3>1, <3>3, <3>4, Refused
  <2>4. CASE ThisFile \in DOMAIN files
    <3>1. PICK label \in {"read", "unlink"} :
            /\ pc' = [pc EXCEPT ![server] = label] /\ UNCHANGED reply
            /\ label = "read" <=> job[server].method = "GET"
      BY <1>3, <2>4 DEF Store!IsRegularFile, Store!Is, ThisFile
    <3>2. Flow' /\ Content'
      BY <1>0, <2>1, <2>2, <3>1 DEF Flow, Content, In, Did, Writes
    <3>3. QED
      BY <1>0, <2>1, <2>2, <3>1, <3>2, Unsettled
  <2>5. QED
    BY <2>3, <2>4
<1>4. CASE Store!UnlinkMissing(server)
  <2>1. CASE Store!Crash("no_file")
    BY <2>1, ServiceCrash
  <2>2. CASE ~Store!Crash("no_file")
    <3>1. /\ pc[server] = "unlink" /\ pc' = [pc EXCEPT ![server] = "isempty"]
          /\ Store!Settle(server, Store!Code(400))
          /\ UNCHANGED <<status, files, job, name, open>>
      BY <1>4, <2>2 DEF Store!UnlinkMissing
    <3>2. reply'[server].code = 400
      BY <1>0, <3>1 DEF Shape, Store!Settle, Store!Code
    <3>3. Flow' /\ Content' /\ ~Did(200)
      BY <1>0, <3>1, <3>2 DEF Flow, Content, In, Did, Writes
    <3>4. DOMAIN pc' = {server} /\ DOMAIN reply' = {server} /\ ~Did(200)'
      BY <1>0, <3>1, <3>2 DEF Shape, Did, Store!Settle
    <3>5. QED
      BY <1>0, <3>1, <3>3, <3>4, Refused
  <2>3. QED
    BY <2>1, <2>2
<1>5. CASE Store!IsEmpty(server)
  <2>1. CASE Store!Crash("no_dir")
    BY <2>1, ServiceCrash
  <2>2. CASE ~Store!Crash("no_dir")
    <3>1. PICK label \in {"purge", "reply"} :
            /\ pc[server] = "isempty" /\ pc' = [pc EXCEPT ![server] = label]
            /\ label = "purge" => /\ Store!IdsIn(Store!Entity(server)) = {}
                                   /\ Store!Below(Store!Entity(server)) = {}
            /\ UNCHANGED <<status, files, job, name, open, reply>>
      BY <1>5, <2>2 DEF Store!IsEmpty
    <3>2. job[server].method = "DELETE" /\ ~Writes /\ ~Writes'
      BY <1>0, <3>1 DEF Flow, In, Writes
    <3>3. label = "purge" => \A p \in DOMAIN files :
                               Store!Entity(server) \notin {p[1], Here}
      BY <3>1 DEF Store!IdsIn, Store!Below, Housed
    <3>4. Flow' /\ Content'
      BY <1>0, <3>1, <3>2, <3>3 DEF Flow, Content, In, Did, Store!Entity
    <3>5. QED
      BY <1>0, <3>1, <3>2, <3>4, Unsettled
  <2>3. QED
    BY <2>1, <2>2
<1>6. CASE Store!RemoveDirectory(server)
  <2>1. CASE \E why \in {"no_dir", "not_removed", "not_empty"} : Store!Crash(why)
    BY <2>1, ServiceCrash
  <2>2. CASE ~\E why \in {"no_dir", "not_removed", "not_empty"} : Store!Crash(why)
    <3>1. /\ pc[server] = "rmdir" /\ pc' = [pc EXCEPT ![server] = "reply"]
          /\ UNCHANGED <<status, files, job, name, open, reply>>
      BY <1>6, <2>2 DEF Store!RemoveDirectory
    <3>2. job[server].method = "DELETE" /\ ~Writes /\ ~Writes'
      BY <1>0, <3>1 DEF Flow, In, Writes
    <3>3. Flow' /\ Content'
      BY <1>0, <3>1, <3>2 DEF Flow, Content, In, Did
    <3>4. QED
      BY <1>0, <3>1, <3>2, <3>3, Unsettled
  <2>3. QED
    BY <2>1, <2>2
<1>7. CASE Store!Crash("too_long")
  BY <1>7, ServiceCrash
<1>8. QED
  BY <1>1, <1>2, <1>3, <1>4, <1>5, <1>6, <1>7

\* The file is created or emptied, whatever was acknowledged of it.
LEMMA OpenStep ==
  ASSUME ServiceInv, status = "up", UNCHANGED <<vars, written>>, Store!OpenFile(server)
  PROVE  ServiceInv'
<1>0. /\ UNCHANGED <<phase, handled, expect, written>>
      /\ Shape /\ Flow /\ Kept
  BY DEF vars, ServiceInv
<1>1. /\ pc[server] = "open" /\ pc' = [pc EXCEPT ![server] = "unlock"]
      /\ files' = Store!Put(files, ThisFile, <<>>)
      /\ open' = [open EXCEPT ![server] = ThisFile]
      /\ reply' = [reply EXCEPT ![server] = Store!HasId(name[server])]
      /\ UNCHANGED <<status, job, name>>
  BY DEF Store!OpenFile, Store!Move, Store!At, Store!Goto, Store!Settle, ThisFile
<1>2. Writes /\ ~Did(200) /\ ~Did(400) /\ phase = "writing"
  BY <1>0, <1>1 DEF Flow, In, Did
<1>3. /\ ThisFile' = ThisFile /\ pc'[server] = "unlock" /\ open'[server] = ThisFile
      /\ reply'[server].code = 200
      /\ Writes'
  BY <1>0, <1>1, <1>2 DEF Shape, ThisFile, Store!Target, Store!Entity, Store!HasId, Writes
<1>4. /\ ThisFile \in DOMAIN files' /\ files'[ThisFile] = <<>>
      /\ \A p \in DOMAIN files \ {ThisFile} : p \in DOMAIN files' /\ files'[p] = files[p]
  <2>1. /\ DOMAIN files' = DOMAIN files \cup {ThisFile} /\ files'[ThisFile] = <<>>
        /\ \A p \in DOMAIN files \ {ThisFile} : files'[p] = files[p]
    BY <1>1 DEF Store!Put
  <2>2. QED
    BY <2>1
<1>5. Shape'
  BY <1>0, <1>1 DEF Shape
<1>6. Flow'
  BY <1>0, <1>1, <1>2, <1>3 DEF Flow, In, Did, Writes
<1>7. Content'
  BY <1>3, <1>4 DEF Content, In
<1>8. Kept'
  BY <1>0, <1>1, <1>2, <1>3, <1>4 DEF Kept, Changes, Did, Writes
<1>9. ReadBackAsSent'
  BY <1>3 DEF ReadBackAsSent
<1>10. QED
  BY <1>5, <1>6, <1>7, <1>8, <1>9 DEF ServiceInv

\* The body goes to the file, all of it.
LEMMA WriteStep ==
  ASSUME TypeOK, ServiceInv, status = "up", UNCHANGED <<vars, written>>,
         Store!WriteFile(server)
  PROVE  ServiceInv'
<1>0. /\ UNCHANGED <<phase, handled, expect, written>>
      /\ Shape /\ Flow /\ Content /\ Kept
  BY DEF vars, ServiceInv
<1> DEFINE body == job[server].body
<1>1. /\ pc[server] = "write" /\ pc' = [pc EXCEPT ![server] = "dtor"]
      /\ files' = IF open[server] = <<>> THEN files
                  ELSE [files EXCEPT ![open[server]] =
                          Store!Overlay(SubSeq(body, 1, Len(body)), files[open[server]])]
      /\ open' = [open EXCEPT ![server] = <<>>]
      /\ UNCHANGED <<status, job, name, reply>>
  BY DEF Store!WriteFile, Store!WriteBytes, Store!Move, Store!At, Store!Goto, Store!NoFile
<1>2. Writes /\ Did(200) /\ ~Did(400) /\ phase = "writing"
  BY <1>0, <1>1 DEF Flow, In, Did
<1>3. open[server] = ThisFile /\ ThisFile \in DOMAIN files /\ files[ThisFile] = <<>> /\ ThisFile # <<>>
  BY <1>0, <1>1, <1>2 DEF Content, In, ThisFile, Store!Target
<1>4. body \in Seq(Text \cup {Junk})
  BY <1>0, <1>2 DEF Flow, TypeOK
<1>5. Store!Overlay(SubSeq(body, 1, Len(body)), files[open[server]]) = body
  BY <1>3, <1>4, WrittenWhole
<1>6. /\ DOMAIN files' = DOMAIN files /\ files'[ThisFile] = body
      /\ \A p \in DOMAIN files \ {ThisFile} : files'[p] = files[p]
  BY <1>1, <1>3, <1>5
<1>7. /\ ThisFile' = ThisFile /\ pc'[server] = "dtor" /\ job' = job
      /\ (Writes' <=> Writes) /\ Did(200)' /\ ~Did(400)'
  BY <1>0, <1>1, <1>2 DEF Shape, ThisFile, Store!Target, Store!Entity, Writes, Did
<1>8. Shape'
  BY <1>0, <1>1 DEF Shape
<1>9. Flow'
  BY <1>0, <1>1, <1>2, <1>7 DEF Flow, In, Writes
<1>10. Content'
  BY <1>3, <1>6, <1>7 DEF Content, In
<1>11. Kept'
  BY <1>0, <1>2, <1>6, <1>7 DEF Kept, Changes, Writes
<1>12. ReadBackAsSent'
  BY <1>7 DEF ReadBackAsSent
<1>13. QED
  BY <1>8, <1>9, <1>10, <1>11, <1>12 DEF ServiceInv

\* What a reader is told is what is stored.
LEMMA ReadSteps ==
  ASSUME ServiceInv, status = "up", UNCHANGED <<vars, written>>,
         Store!ReadFile(server) \/ Store!ListDirectory(server)
  PROVE  ServiceInv'
<1>0. /\ UNCHANGED <<phase, handled, expect, written>>
      /\ Shape /\ Flow /\ Kept
  BY DEF vars, ServiceInv
<1>1. CASE Store!Crash("no_dir")
  BY <1>1, ServiceCrash
<1>2. CASE ~Store!Crash("no_dir")
  <2>1. /\ pc[server] \in {"read", "list"} /\ pc' = [pc EXCEPT ![server] = "reply"]
        /\ UNCHANGED <<status, files, job, name, open>>
    BY <1>2 DEF Store!ReadFile, Store!ListDirectory, Store!Move, Store!At, Store!Goto
  <2>2. PICK r : /\ reply' = [reply EXCEPT ![server] = r] /\ r.code = 200
                 /\ \/ Len(job[server].uri) = 1
                    \/ ThisFile \in DOMAIN files => r.text = files[ThisFile]
    <3>1. CASE Store!ReadFile(server)
      <4> DEFINE r == Store!Holds(IF ThisFile \in DOMAIN files THEN files[ThisFile] ELSE <<>>)
      <4>1. reply' = [reply EXCEPT ![server] = r]
        BY <3>1 DEF Store!ReadFile, Store!Settle, ThisFile
      <4>2. r.code = 200 /\ (ThisFile \in DOMAIN files => r.text = files[ThisFile])
        BY DEF Store!Holds
      <4> HIDE DEF r
      <4>3. QED
        BY <4>1, <4>2
    <3>2. CASE Store!ListDirectory(server)
      <4>1. pc[server] = "list"
        BY <3>2 DEF Store!ListDirectory, Store!At
      <4>2. Len(job[server].uri) = 1
        BY <1>0, <4>1 DEF Flow, In
      <4>3. QED
        BY <1>2, <3>2, <4>2 DEF Store!ListDirectory, Store!Settle, Store!Lists
    <3>3. QED
      BY <3>1, <3>2
  <2>3. job[server].method = "GET" /\ ~Did(200) /\ phase = "writing"
    BY <1>0, <2>1 DEF Flow, In, Did
  <2>4. ThisFile' = ThisFile /\ pc'[server] = "reply" /\ reply'[server] = r /\ ~Writes'
    BY <1>0, <2>1, <2>2, <2>3 DEF Shape, ThisFile, Store!Target, Store!Entity, Writes
  <2>5. Shape'
    BY <1>0, <2>1, <2>2 DEF Shape
  <2>6. Flow' /\ Content'
    BY <1>0, <2>1, <2>2, <2>3, <2>4 DEF Flow, Content, In, Did
  <2>7. \A p \in DOMAIN written : p \in DOMAIN files /\ files[p] = written[p]
    BY <1>0, <2>3 DEF Kept, Changes
  <2>8. Kept'
    BY <1>0, <2>1, <2>7 DEF Kept
  <2>9. ReadBackAsSent'
    BY <1>0, <2>1, <2>2, <2>4, <2>7 DEF ReadBackAsSent, ThisFile
  <2>10. QED
    BY <2>5, <2>6, <2>8, <2>9 DEF ServiceInv
<1>3. QED
  BY <1>1, <1>2

\* Only the file of the request goes, and nothing else with its directory.
LEMMA RemoveSteps ==
  ASSUME ServiceInv, status = "up", UNCHANGED <<vars, written>>,
         Store!UnlinkFile(server) \/ Store!Purge(server)
  PROVE  ServiceInv'
<1>0. /\ UNCHANGED <<phase, handled, expect, written>>
      /\ Shape /\ Flow /\ Content /\ Kept
  BY DEF vars, ServiceInv
<1>1. PICK label, P :
        /\ label \in {"isempty", "rmdir", "reply"}
        /\ pc[server] = (IF label = "isempty" THEN "unlink" ELSE "purge")
        /\ pc' = [pc EXCEPT ![server] = label]
        /\ Store!Unlink(P)
        /\ IF label = "isempty"
           THEN P = {ThisFile} /\ reply' = [reply EXCEPT ![server] = Store!Code(200)]
           ELSE P = Store!Contents(Store!Entity(server)) /\ UNCHANGED reply
        /\ UNCHANGED <<status, job, name>>
  BY DEF Store!UnlinkFile, Store!Purge, Store!Move, Store!At, Store!Goto, Store!Settle, ThisFile
<1>2. job[server].method = "DELETE" /\ phase = "writing" /\ ~Writes /\ ~Writes'
  BY <1>0, <1>1 DEF Flow, In, Writes
<1>3. /\ DOMAIN files' \subseteq DOMAIN files
      /\ \A p \in DOMAIN files \ P : p \in DOMAIN files' /\ files'[p] = files[p]
      /\ DOMAIN open' = {server}
  <2>1. files' = [p \in DOMAIN files \ P |-> files[p]] /\ DOMAIN open' = {server}
    BY <1>1 DEF Store!Unlink, Store!Restrict
  <2>2. QED
    BY <2>1
<1>4. ThisFile' = ThisFile /\ pc'[server] = label /\ Store!Entity(server)' = Store!Entity(server)
  BY <1>0, <1>1 DEF Shape, ThisFile, Store!Target, Store!Entity
<1>5. \A p \in DOMAIN files : p \in P => p = ThisFile /\ label = "isempty"
  BY <1>0, <1>1 DEF Content, In, Store!Contents
<1>6. (label = "isempty" => ~Did(200) /\ Did(200)') /\ (Did(200) => Did(200)')
      /\ DOMAIN reply' = {server}
  BY <1>0, <1>1 DEF Shape, Flow, In, Did, Store!Code
<1>7. Shape'
  BY <1>0, <1>1, <1>3, <1>6 DEF Shape
<1>8. Flow'
  BY <1>0, <1>1, <1>2, <1>4 DEF Flow, In
<1>9. Content'
  BY <1>0, <1>1, <1>2, <1>3, <1>4 DEF Content, In
<1>10. Kept'
  BY <1>0, <1>1, <1>2, <1>3, <1>4, <1>5, <1>6 DEF Kept, Changes
<1>11. ReadBackAsSent'
  BY <1>1, <1>2 DEF ReadBackAsSent
<1>12. QED
  BY <1>7, <1>8, <1>9, <1>10, <1>11 DEF ServiceInv

\* The handler goes on until it has a response.
LEMMA ServeStep ==
  ASSUME TypeOK, ServiceInv, Housed, Serve
  PROVE  ServiceInv'
<1>1. /\ Store!Step(server) /\ pc[server] # "reply" /\ UNCHANGED <<vars, written>>
      /\ ~Store!Respond(server)
  BY DEF Serve, Store!Respond, Store!Move, Store!At
<1>2. status = "up"
  BY <1>1 DEF Store!Step, Store!WriterExists, Store!CreateDirectory, Store!Lock,
     Store!ScanDirectory, Store!OpenFile, Store!OpenFails, Store!ExplicitUnlock,
     Store!WriteFile, Store!WriteBytes, Store!DestroyLock, Store!NameNoEntity,
     Store!GetExists, Store!ListDirectory, Store!IsRegularFile, Store!ReadFile,
     Store!UnlinkFile, Store!UnlinkMissing, Store!IsEmpty, Store!Purge,
     Store!RemoveDirectory, Store!Move, Store!At
<1>3. QED
  BY <1>1, <1>2, WriterSteps, OtherSteps, OpenStep, WriteStep, ReadSteps, RemoveSteps
     DEF Store!Step

\* The store takes up a request the session has parsed.
LEMMA BeginStep ==
  ASSUME ServiceInv, UNCHANGED written, phase' = "writing",
         NEW j, NEW label, Store!Begin(server, j, label),
         \/ /\ label = "exists" /\ j.method \in {"GET", "POST", "PUT"} /\ UNCHANGED reply
            /\ j.method # "GET" => j.body = handled'.body
         \/ label = "isreg" /\ j.method = "DELETE" /\ UNCHANGED reply
         \/ label = "reply" /\ Store!Settle(server, Store!Code(400))
  PROVE  ServiceInv'
<1>1. /\ status = "up" /\ pc[server] = "idle"
      /\ pc' = [pc EXCEPT ![server] = label] /\ job' = [job EXCEPT ![server] = j]
      /\ DOMAIN name' = DOMAIN name
      /\ UNCHANGED <<status, files, open>>
  BY DEF Store!Begin, Store!At, Store!Goto
<1>2. Shape /\ Flow /\ Kept
  BY <1>1 DEF ServiceInv
<1>3. Did(0)
  BY <1>1, <1>2 DEF Flow, In
<1>4. Shape' /\ pc'[server] = label /\ job'[server] = j
  BY <1>1, <1>2 DEF Shape, Store!Settle
<1>5. (label # "reply" => Did(0)') /\ (label = "reply" => Did(400)')
  BY <1>2, <1>3, <1>4 DEF Shape, Did, Store!Settle, Store!Code
<1>6. Flow' /\ Content' /\ ~Did(200)'
  BY <1>4, <1>5 DEF Flow, Content, In, Writes, Did
<1>7. Kept' /\ ReadBackAsSent'
  BY <1>1, <1>2, <1>3, <1>6 DEF Kept, ReadBackAsSent, Changes, Did
<1>8. QED
  BY <1>4, <1>6, <1>7 DEF ServiceInv

LEMMA ProcessStep ==
  ASSUME ServiceInv, Process
  PROVE  ServiceInv'
<1>1. /\ status = "up" /\ phase = "handle_read" /\ phase' = "writing"
      /\ UNCHANGED written
  BY DEF Process, HandleRead
<1>2. CASE handled' = BadRequest
  <2>1. UNCHANGED <<status, files, pc, job, name, open, reply, written>>
    BY <1>1, <1>2 DEF Process, storeVars
  <2>2. Shape /\ Flow /\ Content /\ Kept /\ ReadBackAsSent /\ pc[server] = "idle"
    BY <1>1 DEF ServiceInv, Flow, In
  <2>3. /\ Shape' /\ Content' /\ Kept' /\ ReadBackAsSent'
    BY <2>1, <2>2 DEF Shape, Content, Kept, Changes, ReadBackAsSent, In, Did, Writes, ThisFile,
       Store!Target, Store!Entity
  <2>4. job[server].method = "none" /\ ~Writes /\ Did(0)
    BY <2>2 DEF Flow, In, Store!NoJob, Writes
  <2>5. Flow'
    BY <2>1, <2>2, <2>4 DEF Flow, In, Did, Writes
  <2>6. QED
    BY <2>3, <2>5 DEF ServiceInv
<1>3. CASE handled' # BadRequest
  <2> DEFINE m == Api[handled'.target].method
             u == Api[handled'.target].uri
             b == handled'.body
  <2>1. \/ Store!HandlePost(server, u, b) \/ Store!HandlePut(server, u, b)
        \/ Store!HandleGet(server, u) \/ Store!HandleDelete(server, u)
        \/ Store!Refuse(server, m, u)
    BY <1>3 DEF Process
  <2> HIDE DEF m, u
  <2>2. CASE Store!HandlePost(server, u, b)
    BY <1>1, <2>2, BeginStep DEF Store!HandlePost, Store!Accept
  <2>3. CASE Store!HandlePut(server, u, b)
    BY <1>1, <2>3, BeginStep DEF Store!HandlePut, Store!Accept
  <2>4. CASE Store!HandleGet(server, u)
    BY <1>1, <2>4, BeginStep DEF Store!HandleGet, Store!Accept
  <2>5. CASE Store!HandleDelete(server, u)
    BY <1>1, <2>5, BeginStep DEF Store!HandleDelete, Store!Accept
  <2>6. CASE Store!Refuse(server, m, u)
    BY <1>1, <2>6, BeginStep DEF Store!Refuse
  <2>7. QED
    BY <2>1, <2>2, <2>3, <2>4, <2>5, <2>6
<1>4. QED
  BY <1>2, <1>3

\* The response becomes known, and the history with it.
LEMMA AnswerStep ==
  ASSUME SessionInv, ServiceInv, Answer
  PROVE  ServiceInv'
<1>1. /\ status = "up" /\ pc[server] = "reply" /\ pc' = [pc EXCEPT ![server] = "idle"]
      /\ job' = [job EXCEPT ![server] = Store!NoJob]
      /\ name' = [name EXCEPT ![server] = 0]
      /\ reply' = [reply EXCEPT ![server] = Store!NoReply]
      /\ UNCHANGED <<status, files, open, phase, handled, expect>>
  BY DEF Answer, Store!Respond, Store!Move, Store!At, Store!Goto, Store!Settle, vars
<1>2. Shape /\ Flow /\ Content /\ Kept
  BY <1>1 DEF ServiceInv
<1>3. /\ Shape' /\ pc'[server] = "idle" /\ job'[server] = Store!NoJob
      /\ reply'[server].code = 0
  BY <1>1, <1>2 DEF Shape, Store!NoReply, Store!Code
<1>4. ~Writes' /\ Did(0)' /\ ~Did(200)'
  BY <1>3 DEF Writes, Did, Store!NoJob
<1>5. Flow' /\ Content' /\ ReadBackAsSent'
  BY <1>1, <1>3, <1>4 DEF Flow, Content, In, ReadBackAsSent, Did
<1>6. ASSUME NEW p \in DOMAIN written'
      PROVE  p \in DOMAIN files /\ files[p] = written'[p]
  <2> DEFINE whole == Store!Put(written, ThisFile, expect.body)
             less == Restrict(written, DOMAIN written \ {ThisFile})
  <2>1. /\ DOMAIN whole = DOMAIN written \cup {ThisFile} /\ whole[ThisFile] = expect.body
        /\ \A q \in DOMAIN written \ {ThisFile} : whole[q] = written[q]
    BY DEF Store!Put
  <2>2. /\ DOMAIN less = DOMAIN written \ {ThisFile}
        /\ \A q \in DOMAIN less : less[q] = written[q]
    BY DEF Restrict
  <2>3. written' = IF Writes /\ Did(200) THEN IF Whole THEN whole ELSE less
                   ELSE IF job[server].method = "DELETE" /\ Did(200) THEN less
                   ELSE written
    BY DEF Answer, Wrote, Writes, Did, ThisFile
  <2> HIDE DEF whole, less
  <2>4. CASE p # ThisFile
    <3>1. p \in DOMAIN written /\ written'[p] = written[p]
      BY <1>6, <2>1, <2>2, <2>3, <2>4
    <3>2. QED
      BY <1>2, <2>4, <3>1 DEF Kept, Changes
  <2>5. CASE p = ThisFile /\ Writes /\ Did(200)
    <3>1. Whole /\ written'[p] = expect.body
      BY <1>6, <2>1, <2>2, <2>3, <2>5
    <3>2. handled = expect
      BY <1>1, <1>2, <3>1 DEF SessionInv, WholeReadHandledAsSent, Whole, Flow, In
    <3>3. job[server].body = handled.body /\ p \in DOMAIN files /\ files[p] = job[server].body
      BY <1>1, <1>2, <2>5 DEF Flow, Content, In, Did
    <3>4. QED
      BY <3>1, <3>2, <3>3
  <2>6. CASE p = ThisFile /\ ~(Writes /\ Did(200))
    <3>1. p \in DOMAIN written /\ written'[p] = written[p] /\ ~Changes(p)
      BY <1>2, <1>6, <2>2, <2>3, <2>6 DEF Changes, Flow, Writes
    <3>2. QED
      BY <1>2, <3>1 DEF Kept
  <2>7. QED
    BY <2>4, <2>5, <2>6
<1>7. Kept'
  BY <1>1, <1>6 DEF Kept
<1>8. QED
  BY <1>3, <1>5, <1>7 DEF ServiceInv

\* The client, the socket and the next read leave the store alone.
LEMMA NetworkStep ==
  ASSUME ServiceInv, Network \/ Continue \/ UNCHANGED serviceVars
  PROVE  ServiceInv'
<1>1. UNCHANGED <<status, files, pc, job, name, open, reply, written>>
  BY DEF Network, Continue, serviceVars, storeVars
<1>2. handled' = handled /\ (phase' = "writing" \/ phase # "writing" \/ pc[server] = "idle")
  BY DEF Network, Continue, serviceVars, vars, Send, Close, Reset, Read, ReadError,
     EndpointThrows, HandleWrite
<1>3. Shape' /\ (Content => Content') /\ (Kept => Kept') /\ (ReadBackAsSent => ReadBackAsSent')
  BY <1>1 DEF ServiceInv, Shape, Content, Kept, Changes, ReadBackAsSent, In, Did, Writes, ThisFile,
     Store!Target, Store!Entity
<1>4. Flow => Flow'
  BY <1>1, <1>2 DEF Flow, In, Did, Writes
<1>5. QED
  BY <1>1, <1>3, <1>4 DEF ServiceInv

\* A file is created only in a directory that is there, and a directory is
\* removed only when nothing is in it.
LEMMA HousedNext ==
  ASSUME ServiceInv, Housed, [ServiceNext]_serviceVars
  PROVE  Housed'
<1>1. CASE Serve
  <2>1. Store!Step(server)
    BY <1>1 DEF Serve
  <2> USE DEF Store!Move, Store!At
  <2>2. CASE Store!OpenFile(server)
    <3>1. /\ DOMAIN files' = DOMAIN files \cup {Store!Target(server)}
          /\ Store!Entity(server) \in dirs /\ dirs' = dirs
      BY <2>2 DEF Store!OpenFile, Store!Put
    <3>2. QED
      BY <3>1 DEF Housed, Store!Target
  <2>3. CASE Store!WriteFile(server)
    BY <2>3 DEF Store!WriteFile, Store!WriteBytes, Housed
  <2>4. CASE Store!UnlinkFile(server)
    <3>1. DOMAIN files' \subseteq DOMAIN files /\ dirs' = dirs
      BY <2>4 DEF Store!UnlinkFile, Store!Unlink, Store!Restrict
    <3>2. QED
      BY <3>1 DEF Housed
  <2>5. CASE Store!Purge(server)
    <3>1. /\ DOMAIN files' \subseteq DOMAIN files
          /\ dirs' = dirs \ Store!Below(Store!Entity(server))
          /\ pc[server] = "purge" /\ status = "up"
      BY <2>5 DEF Store!Purge, Store!Unlink, Store!Restrict
    <3>2. \A p \in DOMAIN files : Store!Entity(server) # Here
      BY <3>1 DEF ServiceInv, Content, In
    <3>3. QED
      BY <3>1, <3>2 DEF Housed, Store!Below
  <2>6. CASE Store!RemoveDirectory(server)
    <3>1. \/ UNCHANGED <<dirs, files>>
          \/ /\ dirs' = dirs \ {Store!Entity(server)} /\ files' = files
             /\ Store!IdsIn(Store!Entity(server)) = {}
      BY <2>6 DEF Store!RemoveDirectory, Store!Crash
    <3>2. QED
      BY <3>1 DEF Housed, Store!IdsIn
  <2>7. CASE Store!CreateDirectory(server)
    BY <2>7 DEF Store!CreateDirectory, Store!Crash, Housed
  <2>8. CASE ~(\/ Store!OpenFile(server) \/ Store!WriteFile(server)
               \/ Store!UnlinkFile(server) \/ Store!Purge(server)
               \/ Store!RemoveDirectory(server) \/ Store!CreateDirectory(server))
    <3>1. UNCHANGED <<dirs, files>>
      BY <2>1, <2>8 DEF Store!Step, Store!WriterExists, Store!Lock, Store!ScanDirectory,
         Store!OpenFails, Store!ExplicitUnlock, Store!DestroyLock, Store!NameNoEntity,
         Store!GetExists, Store!ListDirectory, Store!IsRegularFile, Store!ReadFile,
         Store!UnlinkMissing, Store!IsEmpty, Store!Respond, Store!Crash
    <3>2. QED
      BY <3>1 DEF Housed
  <2>9. QED
    BY <2>2, <2>3, <2>4, <2>5, <2>6, <2>7, <2>8
<1>2. CASE ~Serve
  <2>1. UNCHANGED <<dirs, files>>
    BY <1>2 DEF ServiceNext, Network, Process, Answer, Continue, ServiceQuiescent,
       serviceVars, storeVars, Store!HandlePost, Store!HandlePut, Store!HandleGet,
       Store!HandleDelete, Store!Refuse, Store!Accept, Store!Begin, Store!Respond
  <2>2. QED
    BY <2>1 DEF Housed
<1>3. QED
  BY <1>1, <1>2

LEMMA ServiceInvInit == ServiceInit => ServiceInv /\ Housed
<1> SUFFICES ASSUME ServiceInit PROVE ServiceInv /\ Housed
  OBVIOUS
<1>1. /\ pc = [t \in {server} |-> "idle"] /\ job = [t \in {server} |-> Store!NoJob]
      /\ DOMAIN name = {server} /\ DOMAIN open = {server}
      /\ reply = [t \in {server} |-> Store!NoReply]
      /\ DOMAIN written = {}
  BY DEF ServiceInit, Store!Init
<1>2. /\ pc[server] = "idle" /\ job[server] = Store!NoJob /\ reply[server].code = 0
      /\ Shape
  BY <1>1 DEF Shape, In, Store!NoReply, Store!Code
<1>3. ~Writes /\ Did(0) /\ ~Did(200)
  BY <1>2 DEF Writes, Did, Store!NoJob
<1>4. DOMAIN files = {}
  BY DEF ServiceInit, Store!Init
<1>5. QED
  BY <1>1, <1>2, <1>3, <1>4 DEF ServiceInv, Flow, Content, Kept, ReadBackAsSent, In, Did,
     Housed

-----------------------------------------------------------------------------
(* The theorems about the two. *)

\* Types and whole reads, as for a session whose requests nobody serves.
THEOREM ServedWholeReads == ServiceSpec => [](TypeOK /\ WholeReadHandledAsSent)
<1>1. TypeOK /\ SessionInv => TypeOK /\ WholeReadHandledAsSent
  BY DEF SessionInv
<1>2. QED
  BY <1>1, ServiceKeepsSession, PTL

\* From the client's bytes to the disk and back: what is read is what was
\* written last (session.cc, api_handler.cc, real_file_system.cc).
THEOREM ReadBack == ServiceSpec => []ReadBackAsSent
<1>1. ServiceInit => ServiceInv /\ Housed
  BY ServiceInvInit
<1>2. TypeOK /\ SessionInv /\ ServiceInv /\ Housed /\ [ServiceNext]_serviceVars
      => ServiceInv' /\ Housed'
  BY ServeStep, ProcessStep, AnswerStep, NetworkStep, HousedNext
     DEF ServiceNext, ServiceQuiescent
<1>3. ServiceInv => ReadBackAsSent
  BY DEF ServiceInv, ReadBackAsSent, Shape, In
<1>4. QED
  BY <1>1, <1>2, <1>3, ServiceKeepsSession, PTL DEF ServiceSpec
=============================================================================
