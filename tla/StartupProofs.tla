----------------------------- MODULE StartupProofs -----------------------------
(***************************************************************************)
(* Proofs about Startup, for every configuration file.                     *)
(***************************************************************************)
EXTENDS Startup, Recursion

-----------------------------------------------------------------------------
(* getPort *)

\* A configuration: every statement is in a block that was opened before it.
Trees == {c \in Seq(Statements) : \A i \in 1..Len(c) : c[i].parent < i}

LEMMA TreeParts ==
  ASSUME NEW c \in Trees
  PROVE  /\ Len(c) \in Nat /\ DOMAIN c = 1..Len(c)
         /\ \A i \in 1..Len(c) :
              c[i] \in Statements /\ c[i].parent \in Nat /\ c[i].parent < i
<1>1. c \in Seq(Statements) /\ \A i \in 1..Len(c) : c[i].parent < i
  BY DEF Trees
<1>2. Len(c) \in Nat /\ DOMAIN c = 1..Len(c) /\ \A i \in 1..Len(c) : c[i] \in Statements
  BY <1>1, LenProperties, ElementOfSeq
<1>3. \A s \in Statements : s.parent \in Nat
  BY DEF Statements
<1>4. QED
  BY <1>1, <1>2, <1>3

\* What block b answers, if the blocks answer as in p.
PortOf(c, p, b) ==
  LET listens == {i \in In(c, b) : IsListen(c[i])}
      found   == {i \in In(c, b) : c[i].block /\ p[i] # -1}
  IN IF listens # {} THEN PortNumber(c[Min(listens)].tokens[2])
     ELSE IF found # {} THEN p[Min(found)] ELSE -1

LEMMA GetPortIs ==
  ASSUME NEW c
  PROVE  GetPort(c) = (CHOOSE p : p = [b \in 0..Len(c) |-> PortOf(c, p, b)])[0]
BY DEF GetPort, PortOf

\* The blocks of a configuration do answer: a block asks those in it, which come
\* behind it, so the answers can be given from the last statement on.
LEMMA PortsExist ==
  ASSUME NEW c \in Trees
  PROVE  \E p : p = [b \in 0..Len(c) |-> PortOf(c, p, b)]
<1> DEFINE n == Len(c)
           Answers(p, k) == p = [b \in k..n |-> PortOf(c, p, b)]
           Bad == {k \in 0..n : ~ \E p : Answers(p, k)}
<1>1. n \in Nat /\ DOMAIN c = 1..n /\ \A i \in 1..n : c[i].parent \in Nat /\ c[i].parent < i
  BY TreeParts
<1>2. ASSUME NEW k \in 0..n, NEW p, k = n \/ Answers(p, k + 1)
      PROVE  \E q : Answers(q, k)
  <2> DEFINE q == [b \in k..n |-> IF b = k THEN PortOf(c, p, k) ELSE p[b]]
  <2>1. \A i \in (k + 1)..n : q[i] = p[i]
    BY <1>1
  <2>2. ASSUME NEW b \in k..n
        PROVE  PortOf(c, q, b) = PortOf(c, p, b)
    <3>1. \A i \in In(c, b) : i \in (k + 1)..n
      BY <1>1 DEF In
    <3>2. \A i \in In(c, b) : q[i] = p[i]
      BY <2>1, <3>1
    <3> HIDE DEF q
    <3>3. {i \in In(c, b) : c[i].block /\ q[i] # -1} = {i \in In(c, b) : c[i].block /\ p[i] # -1}
      BY <3>2
    <3> DEFINE found == {i \in In(c, b) : c[i].block /\ p[i] # -1}
    <3>4. found # {} => q[Min(found)] = p[Min(found)]
      <4>1. found \subseteq Nat /\ found \subseteq In(c, b)
        BY <3>1, <1>1
      <4> HIDE DEF found
      <4>2. found # {} => Min(found) \in found
        BY <4>1, Least
      <4>3. QED
        BY <3>2, <4>1, <4>2
    <3>5. QED
      BY <3>3, <3>4 DEF PortOf
  <2>3. \A b \in k..n : q[b] = PortOf(c, p, b)
    BY <1>1, <1>2
  <2>4. q = [b \in k..n |-> q[b]]
    OBVIOUS
  <2> HIDE DEF q
  <2>5. QED
    BY <2>2, <2>3, <2>4
<1>3. Bad = {}
  <2>1. ASSUME Bad # {} PROVE FALSE
    <3>1. Bad \subseteq 0..n
      OBVIOUS
    <3> HIDE DEF Bad
    <3>2. PICK k \in Bad : \A y \in Bad : y <= k
      BY <1>1, <2>1, <3>1, Greatest
    <3> USE DEF Bad
    <3>3. k # n /\ k \in 0..n
      BY <1>2, <3>2
    <3>4. k + 1 \in 0..n /\ k + 1 \notin Bad
      <4> HIDE DEF Bad, n
      <4>1. k \in Int /\ k < n /\ 0 <= k
        BY <1>1, <3>3
      <4>2. k + 1 \notin Bad
        BY <3>2, <4>1
      <4>3. QED
        BY <1>1, <4>1, <4>2
    <3>5. QED
      BY <1>2, <3>2, <3>4
  <2>2. QED
    BY <2>1
<1>4. QED
  BY <1>1, <1>3

\* A chain of blocks from b to line i: no listen line in one of them but i's own,
\* which has none before it.
Chain(c, b, i, chain) ==
  /\ i \in chain
  /\ \A j \in chain :
       /\ c[j].parent \in chain \cup {b}
       /\ \A k \in In(c, c[j].parent) : IsListen(c[k]) => j = i /\ i <= k

Reached(c, b, i) ==
  IsListen(c[i]) /\ \E chain \in SUBSET (1..Len(c)) : Chain(c, b, i, chain)

\* The first listen line of a block is reached from there.
LEMMA FirstReached ==
  ASSUME NEW c, NEW b, NEW i \in 1..Len(c), IsListen(c[i]), c[i].parent = b,
         \A k \in In(c, b) : IsListen(c[k]) => i <= k
  PROVE  Reached(c, b, i)
<1>1. Chain(c, b, i, {i})
  BY DEF Chain
<1>2. {i} \in SUBSET (1..Len(c))
  OBVIOUS
<1>3. QED
  BY <1>1, <1>2 DEF Reached

\* What is reached from a block is reached from the block around that has none.
LEMMA ReachedFurther ==
  ASSUME NEW c, NEW b, NEW f \in 1..Len(c), c[f].parent = b,
         \A k \in In(c, b) : ~ IsListen(c[k]), NEW i, Reached(c, f, i)
  PROVE  Reached(c, b, i)
<1>1. PICK chain \in SUBSET (1..Len(c)) : Chain(c, f, i, chain)
  BY DEF Reached
<1>2. ASSUME NEW j \in chain \cup {f}
      PROVE  /\ c[j].parent \in (chain \cup {f}) \cup {b}
             /\ \A k \in In(c, c[j].parent) : IsListen(c[k]) => j = i /\ i <= k
  <2>1. CASE j \in chain
    BY <1>1, <2>1 DEF Chain
  <2>2. CASE j = f
    BY <2>2
  <2>3. QED
    BY <2>1, <2>2
<1>3. Chain(c, b, i, chain \cup {f})
  BY <1>1, <1>2 DEF Chain
<1>4. chain \cup {f} \in SUBSET (1..Len(c))
  OBVIOUS
<1>5. QED
  BY <1>3, <1>4 DEF Reached

\* getPort gives the port of a listen line that it reaches from the top, or none.
LEMMA PortFound ==
  ASSUME NEW c \in Trees, GetPort(c) # -1
  PROVE  \E i \in 1..Len(c) : Reached(c, 0, i) /\ GetPort(c) = PortNumber(c[i].tokens[2])
<1> DEFINE n == Len(c)
<1>1. n \in Nat /\ DOMAIN c = 1..n /\ \A i \in 1..n : c[i].parent \in Nat /\ c[i].parent < i
  BY TreeParts
<1>2. PICK p : p = [b \in 0..n |-> PortOf(c, p, b)] /\ GetPort(c) = p[0]
  BY PortsExist, GetPortIs
<1> DEFINE Good(b, x) ==
             x = -1 \/ \E i \in 1..n : Reached(c, b, i) /\ x = PortNumber(c[i].tokens[2])
           Bad == {b \in 0..n : ~ Good(b, p[b])}
<1>3. ASSUME NEW b \in 0..n, \A j \in (b + 1)..n : Good(j, p[j])
      PROVE  Good(b, p[b])
  <2> DEFINE listens == {i \in In(c, b) : IsListen(c[i])}
             found   == {i \in In(c, b) : c[i].block /\ p[i] # -1}
  <2>1. p[b] = IF listens # {} THEN PortNumber(c[Min(listens)].tokens[2])
               ELSE IF found # {} THEN p[Min(found)] ELSE -1
    BY <1>2 DEF PortOf
  <2>2. In(c, b) \subseteq (b + 1)..n /\ (b + 1)..n \subseteq Nat
    BY <1>1 DEF In
  <2>3. CASE listens # {}
    <3>1. Min(listens) \in listens /\ \A k \in listens : Min(listens) <= k
      <4>1. listens \subseteq Nat
        BY <2>2
      <4> HIDE DEF listens
      <4>2. QED
        BY <2>3, <4>1, Least
    <3> DEFINE i == Min(listens)
    <3>2. i \in 1..n /\ IsListen(c[i]) /\ c[i].parent = b
      BY <1>1, <2>2, <3>1 DEF In
    <3>3. \A k \in In(c, b) : IsListen(c[k]) => i <= k
      BY <3>1
    <3>4. p[b] = PortNumber(c[i].tokens[2])
      BY <2>1, <2>3
    <3> HIDE DEF i
    <3>5. Reached(c, b, i)
      BY <3>2, <3>3, FirstReached
    <3>6. QED
      BY <3>2, <3>4, <3>5
  <2>4. CASE listens = {} /\ found # {}
    <3>1. Min(found) \in found
      <4>1. found \subseteq Nat
        BY <2>2
      <4> HIDE DEF found
      <4>2. QED
        BY <2>4, <4>1, Least
    <3> DEFINE f == Min(found)
    <3>2. f \in (b + 1)..n /\ f \in 1..n /\ c[f].parent = b
      BY <1>1, <2>2, <3>1 DEF In
    <3>3. p[b] = p[f]
      BY <2>1, <2>4
    <3>4. \A k \in In(c, b) : ~ IsListen(c[k])
      BY <2>4
    <3> HIDE DEF f, Good
    <3>5. Good(f, p[f])
      BY <1>3, <3>2
    <3>6. \A i : Reached(c, f, i) => Reached(c, b, i)
      BY <3>2, <3>4, ReachedFurther
    <3>7. QED
      BY <3>3, <3>5, <3>6 DEF Good
  <2>5. QED
    BY <2>1, <2>3, <2>4
<1>4. Bad = {}
  <2>1. ASSUME Bad # {} PROVE FALSE
    <3>1. Bad \subseteq 0..n
      OBVIOUS
    <3> HIDE DEF Bad
    <3>2. PICK b \in Bad : \A y \in Bad : y <= b
      BY <1>1, <2>1, <3>1, Greatest
    <3>3. \A j \in (b + 1)..n : j \in 0..n /\ j \notin Bad
      BY <1>1, <3>1, <3>2
    <3>4. \A j \in (b + 1)..n : Good(j, p[j])
      BY <3>3 DEF Bad
    <3>5. b \in 0..n /\ ~ Good(b, p[b])
      BY <3>2 DEF Bad
    <3> HIDE DEF Good
    <3>6. QED
      BY <1>3, <3>4, <3>5
  <2>2. QED
    BY <2>1
<1>5. Good(0, p[0])
  <2>1. 0 \in 0..n
    BY <1>1
  <2>2. QED
    BY <1>4, <2>1
<1>6. QED
  BY <1>2, <1>5

\* A port fits its type, and is the number it was read from if an int holds that.
ReadFrom(n, p) ==
  \/ n \in 1..MaxPort /\ p = n
  \/ n = 0
  \/ n >= 2^IntBits

LEMMA PortNumbers ==
  ASSUME NEW w \in Words
  PROVE  /\ PortNumber(w) \in -1..MaxPort
         /\ PortNumber(w) >= 0 => ReadFrom(w.num, PortNumber(w))
<1> DEFINE K == 2^IntBits
           low == w.num % K
<1>1. w.num \in Int /\ K \in Int /\ K > 0
  BY IntBitsAssumption DEF Words
<1>2. low \in 0..K - 1
  BY <1>1
<1>3. MaxPort \in Nat
  BY IntBitsAssumption DEF MaxPort
<1>4. Atoi(w.num) \in {-1, low, low - K}
  BY DEF Atoi
<1>5. w.num \in 0..K - 1 => low = w.num
  <2> HIDE DEF K
  <2> QED BY <1>1
<1> HIDE DEF low, K
<1>6. /\ PortNumber(w) \in -1..MaxPort
      /\ PortNumber(w) >= 0 => w.num >= 0 /\ PortNumber(w) = low /\ low <= MaxPort
  BY <1>1, <1>2, <1>3, <1>4 DEF PortNumber, IsDigits
<1>7. PortNumber(w) >= 0 =>
        \/ w.num \in 1..MaxPort /\ PortNumber(w) = w.num
        \/ w.num = 0
        \/ w.num >= K
  BY <1>1, <1>3, <1>5, <1>6
<1>8. QED
  BY <1>6, <1>7 DEF ReadFrom, K

\* Going by way of short loses nothing.
LEMMA ShortIsEnough ==
  ASSUME NEW n \in 0..MaxPort
  PROVE  ThroughShort(n) = n
<1> DEFINE K == 2^(IntBits \div 2)
<1>1. K \in Int /\ K > 0 /\ MaxPort = K - 1
  BY IntBitsAssumption DEF MaxPort
<1> HIDE DEF K
<1>2. n \in Int /\ 0 <= n /\ n < K /\ MaxPort + 1 = K
  BY <1>1
<1>3. n % K = n /\ (n - K) % K = n
  BY <1>1, <1>2
<1>4. QED
  BY <1>2, <1>3 DEF ThroughShort

-----------------------------------------------------------------------------
(* The invariant. *)

\* What is read of the file has become a tree: a word goes on from the last
\* statement, whose block is the one that is open, and the open blocks are in
\* one another.
Reading ==
  file \in Files /\ \E n \in 0..Len(file) : rest = SubSeq(file, n + 1, Len(file))

Parsing ==
  /\ Reading
  /\ last \in Kinds \cup {"start"}
  /\ cfg \in Trees
  /\ \A i \in 1..Len(cfg) : /\ cfg[i].parent # 0 => cfg[cfg[i].parent].block
                            /\ cfg[i].tokens # <<>>
  /\ stack \in Seq(Nat)
  /\ \A i \in 1..Len(stack) :
       /\ stack[i] = 0 <=> i = 1
       /\ stack[i] <= Len(cfg)
       /\ i > 1 => cfg[stack[i]].block /\ cfg[stack[i]].parent = stack[i - 1]
  /\ last = "normal" => cfg # <<>> /\ stack # <<>> /\ cfg[Len(cfg)].parent = Top

FromListen(p) ==
  \E i \in 1..Len(cfg) : Reached(cfg, 0, i) /\ ReadFrom(cfg[i].tokens[2].num, p)

\* The port is asked for once, and is a number of the file from then on, unless it
\* is the system's to choose.
Starting ==
  /\ phase \in Running \cup Ended
  /\ parsed \in BOOLEAN
  /\ port \in -1..MaxPort
  /\ phase \in {"extract", "bind", "routes", "listening"} => port >= 0 /\ FromListen(port)

Inv == Parsing /\ Starting

LEMMA FileTokens ==
  ASSUME NEW f \in Files
  PROVE  /\ f \in Seq([kind : Kinds \ {"eof"}, word : Words]) /\ Len(f) \in Nat
         /\ \A i \in 1..Len(f) : f[i].kind \in Kinds /\ f[i].word \in Words
<1>1. f \in Seq([kind : Kinds \ {"eof"}, word : Words])
  BY FilesAssumption
<1>2. Len(f) \in Nat /\ \A i \in 1..Len(f) : f[i] \in [kind : Kinds \ {"eof"}, word : Words]
  BY <1>1, LenProperties, ElementOfSeq
<1>3. QED
  BY <1>1, <1>2

LEMMA InvHolds == Inv => TypeOK /\ PortFromListen
<1> SUFFICES ASSUME Inv PROVE TypeOK /\ PortFromListen
  OBVIOUS
<1>1. /\ DOMAIN cfg = 1..Len(cfg) /\ Len(cfg) \in Nat
      /\ \A i \in 1..Len(cfg) : cfg[i].parent \in Nat /\ cfg[i].parent < i
  BY TreeParts DEF Inv, Parsing
<1>2. DOMAIN stack = 1..Len(stack)
  BY LenProperties DEF Inv, Parsing
<1>3. \A i \in 1..Len(cfg) : cfg[i].parent \in 0..i - 1
  BY <1>1
<1>4. TypeOK
  BY <1>1, <1>2, <1>3 DEF Inv, Parsing, Reading, Starting, TypeOK
<1>5. ASSUME phase = "listening" PROVE PortFromListen
  <2>1. PICK i \in 1..Len(cfg) : Reached(cfg, 0, i) /\ ReadFrom(cfg[i].tokens[2].num, port)
    BY <1>5 DEF Inv, Starting, FromListen
  <2>2. Preferred(i)
    BY <1>1, <2>1 DEF Reached, Chain, Preferred
  <2>3. QED
    BY <1>1, <2>1, <2>2 DEF ReadFrom, PortFromListen
<1>6. QED
  BY <1>4, <1>5 DEF PortFromListen

LEMMA InvInit == Init => Inv
<1> SUFFICES ASSUME Init PROVE Inv
  OBVIOUS
<1>1. /\ file \in Files /\ rest = file /\ last = "start" /\ stack = <<0>> /\ cfg = <<>>
      /\ phase = "parse" /\ parsed = FALSE /\ port = -1
  BY DEF Init
<1>2. Len(file) \in Nat /\ file = SubSeq(file, 1, Len(file))
  <2>1. file \in Seq([kind : Kinds \ {"eof"}, word : Words])
    BY <1>1, FileTokens
  <2>2. QED
    BY <2>1, LenProperties, SubSeqProperties
<1>3. cfg \in Trees /\ Len(cfg) = 0
  BY <1>1, EmptySeq DEF Trees
<1>4. stack \in Seq(Nat) /\ Len(stack) = 1 /\ stack[1] = 0
  BY <1>1
<1>5. \E n \in 0..Len(file) : rest = SubSeq(file, n + 1, Len(file))
  <2>1. 0 \in 0..Len(file) /\ rest = SubSeq(file, 0 + 1, Len(file))
    BY <1>1, <1>2
  <2>2. QED
    BY <2>1
<1>6. Parsing
  <2>1. Reading
    BY <1>1, <1>5 DEF Reading
  <2>2. /\ \A i \in 1..Len(cfg) : FALSE
        /\ \A i \in 1..Len(stack) : i = 1 /\ stack[i] = 0
    BY <1>3, <1>4
  <2>3. QED
    BY <1>1, <1>3, <1>4, <2>1, <2>2 DEF Parsing
<1>7. Starting
  <2>1. MaxPort \in Nat
    BY IntBitsAssumption DEF MaxPort
  <2>2. port \in -1..MaxPort
    BY <1>1, <2>1
  <2>3. QED
    BY <1>1, <2>2 DEF Starting, Running
<1>8. QED
  BY <1>6, <1>7 DEF Inv

\* A token is taken off the front of what is still to be read.
LEMMA Taken ==
  ASSUME Parsing, NEW kind, Take(kind)
  PROVE  /\ Reading'
         /\ phase = "parse" /\ port' = port
         /\ kind # "eof" => token.word \in Words
<1>1. /\ file' = file /\ phase = "parse" /\ port' = port /\ token.kind = kind
      /\ rest' = IF rest = <<>> THEN <<>> ELSE Tail(rest)
  BY DEF Take
<1>2. PICK n \in 0..Len(file) : rest = SubSeq(file, n + 1, Len(file))
  BY DEF Parsing, Reading
<1> DEFINE len == Len(file)
           S == [kind : Kinds \ {"eof"}, word : Words]
<1>3. file \in Seq(S) /\ len \in Nat /\ \A i \in 1..len : file[i] \in S
  BY FileTokens, ElementOfSeq DEF Parsing, Reading
<1>4. n \in Int /\ 0 <= n /\ n <= len
  BY <1>3
<1> HIDE DEF len, S
<1>5. rest = SubSeq(file, n + 1, len)
  BY <1>2 DEF len
<1>6. CASE n = len
  <2>1. rest = <<>>
    BY <1>3, <1>5, <1>6, SubSeqEmpty
  <2>2. rest' = rest /\ token.kind = "eof"
    BY <1>1, <2>1 DEF token, Eof, Separator, Token
  <2>3. QED
    BY <1>1, <1>2, <2>2 DEF Parsing, Reading
<1>7. CASE n < len
  <2>1. n + 1 \in 1..len /\ len \in n + 1..len
    BY <1>3, <1>4, <1>7
  <2>2. Head(rest) = file[n + 1] /\ Tail(rest) = SubSeq(file, (n + 1) + 1, len)
    BY <1>3, <1>5, <2>1, HeadTailOfSubSeq DEF len
  <2>3. rest # <<>>
    <3>1. \A i \in n + 1..len : file[i] \in S
      BY <1>3, <1>4
    <3>2. Len(rest) = len - (n + 1) + 1
      BY <1>3, <1>5, <2>1, <3>1, SubSeqProperties
    <3>3. QED
      BY <1>3, <1>4, <1>7, <3>2
  <2>4. token.word \in Words
    BY <1>3, <2>1, <2>2, <2>3 DEF token, S
  <2>5. n + 1 \in 0..len /\ rest' = SubSeq(file, (n + 1) + 1, len)
    BY <1>1, <1>3, <1>4, <1>7, <2>2, <2>3
  <2>6. QED
    BY <1>1, <2>4, <2>5 DEF Parsing, Reading, len
<1>8. QED
  BY <1>3, <1>4, <1>6, <1>7

\* The tree as it is: a sequence of statements, and the blocks that are open.
LEMMA TreeAndStack ==
  ASSUME Parsing
  PROVE  /\ cfg \in Seq(Statements) /\ Len(cfg) \in Nat /\ DOMAIN cfg = 1..Len(cfg)
         /\ \A i \in 1..Len(cfg) : cfg[i] \in Statements /\ cfg[i].parent < i
         /\ Len(stack) \in Nat /\ DOMAIN stack = 1..Len(stack)
         /\ \A i \in 1..Len(stack) : stack[i] \in Nat /\ stack[i] <= Len(cfg)
         /\ stack # <<>> => Len(stack) >= 1
BY LenProperties, ElementOfSeq, TreeParts, EmptySeq DEF Parsing, Trees

LEMMA SameTree ==
  ASSUME Parsing, Reading',
         UNCHANGED <<cfg, stack>>, last' \in Kinds \cup {"start"},
         last' = "normal" => last = "normal"
  PROVE  Parsing'
BY DEF Parsing, Top

\* What is put on a stack that is not empty lies on what was its top.
LEMMA Pushed ==
  ASSUME NEW s \in Seq(Nat), Len(s) >= 1, NEW x \in Nat
  PROVE  /\ Append(s, x) \in Seq(Nat)
         /\ \A i \in 1..Len(Append(s, x)) :
              \/ /\ i \in 1..Len(s) /\ Append(s, x)[i] = s[i]
                 /\ i > 1 => Append(s, x)[i - 1] = s[i - 1]
              \/ i > 1 /\ Append(s, x)[i] = x /\ Append(s, x)[i - 1] = s[Len(s)]
<1> DEFINE n == Len(s)
           t == Append(s, x)
<1>1. n \in Nat /\ n >= 1
  BY LenProperties
<1>2. /\ t \in Seq(Nat) /\ Len(t) = n + 1
      /\ \A i \in 1..n : t[i] = s[i]
      /\ t[n + 1] = x
  BY AppendProperties
<1> HIDE DEF n, t
<1>3. \A i \in 1..n + 1 : /\ i \in 1..n \/ i = n + 1
                          /\ i \in 1..n /\ i > 1 => i - 1 \in 1..n
                          /\ i = n + 1 => i > 1 /\ i - 1 = n /\ n \in 1..n
  BY <1>1
<1>4. ASSUME NEW i \in 1..n + 1
      PROVE  \/ i \in 1..n /\ t[i] = s[i] /\ (i > 1 => t[i - 1] = s[i - 1])
             \/ i > 1 /\ t[i] = x /\ t[i - 1] = s[n]
  BY <1>2, <1>3
<1>5. QED
  BY <1>2, <1>4 DEF n, t

\* The statement that is being read is the last, in the block opened last.
LEMMA LastStatement ==
  ASSUME Parsing, last = "normal"
  PROVE  /\ Len(cfg) \in Nat /\ Len(cfg) \in 1..Len(cfg) /\ cfg[Len(cfg)] \in Statements
         /\ cfg[Len(cfg)].tokens \in Seq(Words) /\ cfg[Len(cfg)].tokens # <<>>
         /\ Len(stack) \in Nat /\ Len(stack) >= 1
         /\ cfg[Len(cfg)].parent = stack[Len(stack)]
<1>1. cfg # <<>> /\ stack # <<>> /\ cfg[Len(cfg)].parent = stack[Len(stack)]
  BY DEF Parsing, Top
<1>2. cfg \in Seq(Statements) /\ Len(cfg) \in Nat /\ Len(stack) \in Nat /\ Len(stack) >= 1
  BY <1>1, TreeAndStack
<1>3. Len(cfg) \in 1..Len(cfg)
  BY <1>1, <1>2, EmptySeq
<1>4. cfg[Len(cfg)] \in Statements /\ cfg[Len(cfg)].tokens # <<>>
  BY <1>3, TreeAndStack DEF Parsing
<1>5. \A s \in Statements : s.tokens \in Seq(Words)
  BY DEF Statements
<1>6. QED
  BY <1>1, <1>2, <1>3, <1>4, <1>5

\* However it goes on, it keeps its parent.
LEMMA LastChanges ==
  ASSUME Parsing, last = "normal", NEW s \in Statements, s.tokens # <<>>,
         s.parent = cfg[Len(cfg)].parent, cfg[Len(cfg)].block => s.block,
         cfg' = [cfg EXCEPT ![Len(cfg)] = s]
  PROVE  /\ cfg' \in Trees /\ Len(cfg') = Len(cfg) /\ cfg' # <<>> /\ cfg'[Len(cfg')] = s
         /\ \A i \in 1..Len(cfg') : /\ cfg'[i].parent # 0 => cfg'[cfg'[i].parent].block
                                    /\ cfg'[i].tokens # <<>>
         /\ \A i \in 1..Len(stack) :
              i > 1 => cfg'[stack[i]].block /\ cfg'[stack[i]].parent = stack[i - 1]
<1> DEFINE len == Len(cfg)
<1>1. /\ len \in Nat /\ len \in 1..len /\ cfg \in Seq(Statements) /\ Len(stack) \in Nat
      /\ \A i \in 1..len : cfg[i].parent \in Nat /\ cfg[i].parent < i
      /\ \A i \in 1..Len(stack) : stack[i] \in Nat /\ stack[i] <= len
  BY LastStatement, TreeAndStack, TreeParts DEF Parsing
<1>2. /\ cfg' \in Seq(Statements) /\ Len(cfg') = len
      /\ \A i \in 1..len : cfg'[i] = IF i = len THEN s ELSE cfg[i]
  BY <1>1, ExceptSeq
<1> HIDE DEF len
<1>3. \A i \in 1..len : /\ cfg'[i].parent = cfg[i].parent
                        /\ cfg[i].block => cfg'[i].block
                        /\ cfg'[i].tokens # <<>>
  <2>1. \A i \in 1..len : cfg[i].tokens # <<>>
    BY DEF Parsing, len
  <2>2. s.parent = cfg[len].parent /\ (cfg[len].block => s.block)
    BY DEF len
  <2>3. QED
    BY <1>2, <2>1, <2>2
<1>4. cfg' \in Trees
  BY <1>1, <1>2, <1>3 DEF Trees
<1>5. ASSUME NEW i \in 1..len, cfg'[i].parent # 0
      PROVE  cfg'[cfg'[i].parent].block
  <2>1. cfg[i].parent \in 1..len
    BY <1>1, <1>3, <1>5
  <2>2. cfg[cfg[i].parent].block
    BY <1>3, <1>5 DEF Parsing, len
  <2>3. QED
    BY <1>3, <2>1, <2>2
<1>6. ASSUME NEW i \in 1..Len(stack), i > 1
      PROVE  cfg'[stack[i]].block /\ cfg'[stack[i]].parent = stack[i - 1]
  <2>1. stack[i] # 0 /\ cfg[stack[i]].block /\ cfg[stack[i]].parent = stack[i - 1]
    BY <1>6 DEF Parsing
  <2>2. stack[i] \in 1..len
    BY <1>1, <2>1
  <2>3. QED
    BY <1>3, <2>1, <2>2
<1>7. cfg' # <<>> /\ cfg'[len] = s
  BY <1>1, <1>2, EmptySeq
<1>8. QED
  BY <1>2, <1>3, <1>4, <1>5, <1>6, <1>7 DEF len

\* A word is put behind those of the last statement.
LEMMA WordStep ==
  ASSUME Parsing, Reading',
         UNCHANGED <<last, stack>>, last = "normal", NEW w \in Words,
         cfg' = [cfg EXCEPT ![Len(cfg)].tokens = Append(@, w)]
  PROVE  Parsing'
<1> DEFINE s == [cfg[Len(cfg)] EXCEPT !.tokens = Append(@, w)]
<1>1. s \in Statements /\ s.tokens # <<>> /\ s.parent = cfg[Len(cfg)].parent
      /\ s.block = cfg[Len(cfg)].block
  <2>1. cfg[Len(cfg)] \in Statements /\ cfg[Len(cfg)].tokens \in Seq(Words)
    BY LastStatement
  <2> DEFINE words == Append(cfg[Len(cfg)].tokens, w)
  <2>2. words \in Seq(Words) /\ Len(words) = Len(cfg[Len(cfg)].tokens) + 1
    BY <2>1, AppendProperties
  <2>3. words # <<>>
    BY <2>1, AppendProperties
  <2>4. s = [cfg[Len(cfg)] EXCEPT !.tokens = words]
    OBVIOUS
  <2> HIDE DEF words, s
  <2>5. QED
    BY <2>1, <2>2, <2>3, <2>4 DEF Statements
<1>2. cfg' = [cfg EXCEPT ![Len(cfg)] = s]
  OBVIOUS
<1> HIDE DEF s
<1>3. /\ cfg' \in Trees /\ Len(cfg') = Len(cfg) /\ cfg' # <<>> /\ cfg'[Len(cfg')] = s
      /\ \A i \in 1..Len(cfg') : /\ cfg'[i].parent # 0 => cfg'[cfg'[i].parent].block
                                 /\ cfg'[i].tokens # <<>>
      /\ \A i \in 1..Len(stack) :
           i > 1 => cfg'[stack[i]].block /\ cfg'[stack[i]].parent = stack[i - 1]
  BY <1>1, <1>2, LastChanges
<1>4. stack # <<>> /\ cfg'[Len(cfg')].parent = Top'
  BY <1>1, <1>3 DEF Parsing, Top
<1>5. \A i \in 1..Len(stack) : /\ stack[i] = 0 <=> i = 1
                               /\ stack[i] <= Len(cfg)
  BY DEF Parsing
<1>6. last' \in Kinds \cup {"start"} /\ stack \in Seq(Nat)
  BY DEF Parsing
<1>7. QED
  BY <1>3, <1>4, <1>5, <1>6 DEF Parsing

\* A statement gets the block that opens behind it.
LEMMA BlockStep ==
  ASSUME Parsing, Reading',
         last = "normal", last' \in Kinds, last' # "normal",
         NEW s \in Statements, s.block, s.tokens # <<>>, s.parent = cfg[Len(cfg)].parent,
         cfg' = [cfg EXCEPT ![Len(cfg)] = s],
         stack' = Append(stack, Len(cfg))
  PROVE  Parsing'
<1> DEFINE len == Len(cfg)
           top == Len(stack)
<1>1. /\ len \in Nat /\ len \in 1..len /\ top \in Nat /\ top >= 1
      /\ cfg[len].parent = stack[top]
  BY LastStatement
<1>2. s.parent = cfg[len].parent
  OBVIOUS
<1>4. /\ cfg' \in Trees /\ Len(cfg') = len /\ cfg' # <<>> /\ cfg'[len] = s
      /\ \A i \in 1..len : /\ cfg'[i].parent # 0 => cfg'[cfg'[i].parent].block
                           /\ cfg'[i].tokens # <<>>
      /\ \A i \in 1..top :
           i > 1 => cfg'[stack[i]].block /\ cfg'[stack[i]].parent = stack[i - 1]
  BY LastChanges
<1>5. stack \in Seq(Nat) /\ \A i \in 1..top : /\ stack[i] = 0 <=> i = 1
                                              /\ stack[i] <= len
  BY DEF Parsing
<1>6. /\ stack' \in Seq(Nat)
      /\ \A i \in 1..Len(stack') :
           \/ /\ i \in 1..top /\ stack'[i] = stack[i]
              /\ i > 1 => stack'[i - 1] = stack[i - 1]
           \/ i > 1 /\ stack'[i] = len /\ stack'[i - 1] = stack[top]
  BY <1>1, <1>5, Pushed
<1> HIDE DEF len, top
<1>7. ASSUME NEW i \in 1..Len(stack')
      PROVE  /\ stack'[i] = 0 <=> i = 1
             /\ stack'[i] <= len
             /\ i > 1 => cfg'[stack'[i]].block /\ cfg'[stack'[i]].parent = stack'[i - 1]
  <2>1. CASE i \in 1..top /\ stack'[i] = stack[i] /\ (i > 1 => stack'[i - 1] = stack[i - 1])
    BY <1>4, <1>5, <2>1
  <2>2. CASE i > 1 /\ stack'[i] = len /\ stack'[i - 1] = stack[top]
    <3>2. cfg'[stack'[i]].block /\ cfg'[stack'[i]].parent = stack'[i - 1]
      BY <1>1, <1>2, <1>4, <2>2
    <3>1. stack'[i] # 0 /\ stack'[i] <= len
      BY <1>1, <2>2
    <3>3. QED
      BY <2>2, <3>1, <3>2
  <2>3. QED
    BY <1>6, <2>1, <2>2
<1>8. QED
  BY <1>4, <1>6, <1>7 DEF Parsing

\* A statement begins in the block that is open.
LEMMA StatementStep ==
  ASSUME Parsing, Reading', stack # <<>>, UNCHANGED stack, last' = "normal",
         NEW s \in Statements, s.tokens # <<>>, s.parent = Top,
         cfg' = Append(cfg, s)
  PROVE  Parsing'
<1> DEFINE len == Len(cfg)
           top == Len(stack)
<1>1. /\ cfg \in Seq(Statements) /\ len \in Nat /\ top \in Nat /\ top >= 1
      /\ \A i \in 1..len : cfg[i].parent \in Nat /\ cfg[i].parent < i
      /\ \A i \in 1..top : stack[i] \in Nat /\ stack[i] <= len
  BY TreeAndStack, TreeParts DEF Parsing
<1>2. /\ cfg' \in Seq(Statements) /\ Len(cfg') = len + 1 /\ cfg' # <<>>
      /\ \A i \in 1..len : cfg'[i] = cfg[i]
      /\ cfg'[len + 1] = s
  BY <1>1, AppendProperties
<1>3. \A i \in 1..len : /\ cfg[i].parent # 0 => cfg[cfg[i].parent].block
                        /\ cfg[i].tokens # <<>>
  BY DEF Parsing
<1>4. \A i \in 1..top :
        /\ stack[i] = 0 <=> i = 1
        /\ i > 1 => cfg[stack[i]].block /\ cfg[stack[i]].parent = stack[i - 1]
  BY DEF Parsing
<1>5. s.parent = stack[top] /\ stack \in Seq(Nat)
  BY DEF Parsing, Top
<1> HIDE DEF len, top
<1>6. s.parent \in 0..len /\ (s.parent # 0 => cfg[s.parent].block)
  <2>1. top \in 1..top /\ (top # 1 => top > 1)
    BY <1>1
  <2>2. stack[top] \in 0..len /\ (stack[top] # 0 => cfg[stack[top]].block)
    BY <1>1, <1>4, <2>1
  <2>3. QED
    BY <1>5, <2>2
<1>7. \A i \in 1..len + 1 : i \in 1..len \/ i = len + 1
  BY <1>1
<1>8. ASSUME NEW i \in 1..len + 1
      PROVE  /\ cfg'[i].parent < i
             /\ cfg'[i].parent # 0 => cfg'[cfg'[i].parent].block
             /\ cfg'[i].tokens # <<>>
  <2>1. CASE i \in 1..len
    <3>1. cfg[i].parent # 0 => cfg[i].parent \in 1..len
      BY <1>1, <2>1
    <3>2. QED
      BY <1>1, <1>2, <1>3, <2>1, <3>1
  <2>2. CASE i = len + 1
    <3>1. s.parent < len + 1 /\ (s.parent # 0 => s.parent \in 1..len)
      BY <1>1, <1>6
    <3>2. QED
      BY <1>2, <1>6, <2>2, <3>1
  <2>3. QED
    BY <1>7, <2>1, <2>2
<1>9. cfg' \in Trees
  BY <1>2, <1>8 DEF Trees
<1>10. ASSUME NEW i \in 1..top
       PROVE  /\ stack[i] = 0 <=> i = 1
              /\ stack[i] <= len + 1
              /\ i > 1 => cfg'[stack[i]].block /\ cfg'[stack[i]].parent = stack[i - 1]
  <2>1. stack[i] \in Nat /\ stack[i] <= len
    BY <1>1
  <2>2. stack[i] <= len + 1 /\ (stack[i] # 0 => stack[i] \in 1..len)
    BY <1>1, <2>1
  <2>3. QED
    BY <1>2, <1>4, <2>2
<1>11. last' \in Kinds \cup {"start"}
  BY Zenon DEF Kinds
<1>12. cfg'[len + 1].parent = Top'
  BY <1>2, <1>5 DEF Top, top
<1>13. QED
  BY <1>2, <1>5, <1>8, <1>9, <1>10, <1>11, <1>12 DEF Parsing, top

\* A block that closes uncovers the one it is in.
LEMMA LeaveStep ==
  ASSUME Parsing, Reading', stack # <<>>, UNCHANGED cfg,
         last' \in Kinds, last' # "normal", stack' = Front(stack)
  PROVE  Parsing'
<1> DEFINE top == Len(stack)
<1>1. stack \in Seq(Nat) /\ top \in Nat /\ top >= 1 /\ \A i \in 1..top : stack[i] \in Nat
  BY TreeAndStack DEF Parsing
<1>2. \A i \in 1..top :
        /\ stack[i] = 0 <=> i = 1
        /\ stack[i] <= Len(cfg)
        /\ i > 1 => cfg[stack[i]].block /\ cfg[stack[i]].parent = stack[i - 1]
  BY DEF Parsing
<1>3. stack' = SubSeq(stack, 1, top - 1)
  BY DEF Front
<1> HIDE DEF top
<1>4. \A i \in 1..top - 1 : i \in 1..top /\ (i > 1 => i - 1 \in 1..top - 1)
  BY <1>1
<1>5. /\ stack' \in Seq(Nat) /\ Len(stack') = top - 1
      /\ \A i \in 1..top - 1 : stack'[i] = stack[i]
  <2>1. top - 1 \in Int /\ \A i \in 1..top - 1 : stack[i] \in Nat
    BY <1>1, <1>4
  <2>2. /\ stack' \in Seq(Nat)
        /\ Len(stack') = IF 1 <= top - 1 THEN top - 1 - 1 + 1 ELSE 0
        /\ \A i \in 1..top - 1 - 1 + 1 : stack'[i] = stack[1 + i - 1]
    BY <1>3, <2>1, SubSeqProperties
  <2>3. /\ (IF 1 <= top - 1 THEN top - 1 - 1 + 1 ELSE 0) = top - 1
        /\ top - 1 - 1 + 1 = top - 1 /\ \A i \in 1..top - 1 : 1 + i - 1 = i
    BY <1>1
  <2>4. QED
    BY <2>2, <2>3
<1>6. ASSUME NEW i \in 1..top - 1
      PROVE  /\ stack'[i] = 0 <=> i = 1
             /\ stack'[i] <= Len(cfg)
             /\ i > 1 => cfg[stack'[i]].block /\ cfg[stack'[i]].parent = stack'[i - 1]
  BY <1>2, <1>4, <1>5
<1>7. QED
  BY <1>5, <1>6 DEF Parsing

-----------------------------------------------------------------------------
(* The steps. *)

\* Where main is and where it ends are told apart by their names alone.
LEMMA Phases ==
  /\ Undefined \in Ended /\ "exit 0" \in Ended /\ "exit 1" \in Ended
  /\ "signalled" \in Ended /\ "aborted" \in Ended
  /\ \A p \in Ended : p \notin {"extract", "bind", "routes", "listening"}
  /\ {"parse", "validate", "port", "extract", "bind", "routes", "listening"} \subseteq Running
BY Zenon DEF Ended, Undefined, Running

LEMMA Separators ==
  /\ {"end", "start block", "end block"} \subseteq Kinds
  /\ "normal" \notin {"end", "start block", "end block"}
BY Zenon DEF Kinds

\* Nothing is asked of the port before it is known, nor at the end.
LEMMA NoPort ==
  ASSUME Starting, phase' \in Ended \cup {"parse", "validate", "port"},
         parsed' \in BOOLEAN, port' \in -1..MaxPort
  PROVE  Starting'
<1>1. phase' \in Running \cup Ended
  BY Phases
<1>2. phase' \notin {"extract", "bind", "routes", "listening"}
  BY Phases
<1>3. QED
  BY <1>1, <1>2 DEF Starting

\* Parse returns, or a tree is left as it is.
LEMMA ReturnStep ==
  ASSUME Inv, NEW kind, Take(kind), UNCHANGED <<stack, cfg>>,
         last' = last \/ (last' \in Kinds /\ last' # "normal"),
         phase' \in Ended \cup {"parse", "validate"}, parsed' \in BOOLEAN
  PROVE  Inv'
<1>1. Reading' /\ port' = port
  BY Taken DEF Inv
<1>2. Parsing'
  <2>1. last' \in Kinds \cup {"start"} /\ (last' = "normal" => last = "normal")
    BY DEF Inv, Parsing
  <2>2. QED
    BY <1>1, <2>1, SameTree DEF Inv, Reading
<1>3. Starting'
  BY <1>1, NoPort DEF Inv, Starting
<1>4. QED
  BY <1>2, <1>3 DEF Inv

LEMMA ReadStep ==
  ASSUME Inv,
         \/ SkipComment \/ ReadNormal \/ ReadEnd \/ ReadStartBlock \/ ReadEndBlock
         \/ ReadEof \/ ReadError
  PROVE  Inv'
<1>1. Parsing /\ Starting
  BY DEF Inv
<1>2. CASE SkipComment
  BY <1>1, <1>2, ReturnStep, Taken DEF SkipComment, Starting
<1>3. CASE ReadError \/ ReadEof
  <2>0. PICK kind, value : Take(kind) /\ Return(value) /\ value \in BOOLEAN
    <3>1. ASSUME NEW S PROVE FALSE \in BOOLEAN /\ (last \in S) \in BOOLEAN
      OBVIOUS
    <3>2. QED
      BY Zenon, <1>3, <3>1 DEF ReadError, ReadEof
  <2>1. Take(kind) /\ UNCHANGED <<last, stack, cfg>> /\ phase' = "validate" /\ parsed' \in BOOLEAN
    BY <2>0 DEF Return
  <2>2. QED
    BY <2>1, ReturnStep
<1>4. CASE ReadEnd
  <2>1. /\ Take("end") /\ UNCHANGED <<stack, cfg>> /\ last' \in {last, "end"}
        /\ phase' \in {phase, "validate"} /\ parsed' \in {parsed, FALSE}
    BY Zenon, <1>4 DEF ReadEnd, Return
  <2>2. phase' \in {"parse", "validate"} /\ parsed' \in BOOLEAN
    BY <1>1, <2>1, Taken DEF Starting
  <2>3. last' = last \/ (last' \in Kinds /\ last' # "normal")
    BY <2>1, Separators
  <2>4. QED
    BY <2>1, <2>2, <2>3, ReturnStep
<1>5. CASE ReadNormal
  <2>1. Take("normal") /\ Reading' /\ phase = "parse" /\ port' = port /\ token.word \in Words
    BY <1>1, <1>5, Taken DEF ReadNormal
  <2>2. CASE stack = <<>>
    <3>1. phase' \in Ended /\ UNCHANGED <<last, stack, cfg, parsed>>
      BY <1>5, <2>2, Phases DEF ReadNormal, FallOff
    <3>2. QED
      BY <1>1, <2>1, <3>1, ReturnStep DEF Starting
  <2>3. CASE stack # <<>>
    <3>1. UNCHANGED <<stack, phase, parsed>> /\ last' = "normal"
      BY <1>5, <2>3 DEF ReadNormal
    <3>2. Parsing'
      <4>1. CASE last = "normal"
        <5>1. cfg' = [cfg EXCEPT ![Len(cfg)].tokens = Append(@, token.word)]
          BY <1>5, <2>3, <4>1 DEF ReadNormal
        <5>2. QED
          BY <1>1, <2>1, <3>1, <4>1, <5>1, WordStep
      <4>2. CASE last # "normal"
        <5> DEFINE s == Statement(<<token.word>>, Top)
        <5>1. cfg' = Append(cfg, s)
          BY <1>5, <2>3, <4>2 DEF ReadNormal
        <5>2. Top \in Nat
          BY <1>1, <2>3, TreeAndStack DEF Top
        <5>3. s \in Statements /\ s.tokens # <<>> /\ s.parent = Top
          BY <2>1, <5>2 DEF Statement, Statements
        <5> HIDE DEF s
        <5>4. QED
          BY <1>1, <2>1, <2>3, <3>1, <5>1, <5>3, StatementStep
      <4>3. QED
        BY <4>1, <4>2
    <3>3. Starting'
      BY <1>1, <2>1, <3>1, NoPort DEF Starting
    <3>4. QED
      BY <3>2, <3>3 DEF Inv
  <2>4. QED
    BY <2>2, <2>3
<1>6. CASE ReadStartBlock
  <2>1. PICK kind : Take(kind) /\ kind # "eof"
    BY Zenon, <1>6, Separators DEF ReadStartBlock, Kinds
  <2>2. Reading' /\ phase = "parse" /\ port' = port
    BY <1>1, <2>1, Taken
  <2>3. CASE last # "normal"
    <3>1. UNCHANGED <<last, stack, cfg>> /\ phase' = "validate" /\ parsed' = FALSE
      BY Zenon, <1>6, <2>3 DEF ReadStartBlock, Return
    <3>2. QED
      BY <2>1, <3>1, ReturnStep
  <2>4. CASE last = "normal"
    <3>1. /\ cfg' = [cfg EXCEPT ![Len(cfg)].block = TRUE]
          /\ stack' = Append(stack, Len(cfg)) /\ UNCHANGED <<phase, parsed>>
          /\ last' \in Kinds /\ last' # "normal"
      BY Zenon, <1>6, <2>4, Separators DEF ReadStartBlock
    <3> DEFINE s == [cfg[Len(cfg)] EXCEPT !.block = TRUE]
    <3>2. s \in Statements /\ s.block /\ s.tokens # <<>> /\ s.parent = cfg[Len(cfg)].parent
      BY <1>1, <2>4, LastStatement DEF Statements
    <3>3. cfg' = [cfg EXCEPT ![Len(cfg)] = s]
      BY <3>1
    <3> HIDE DEF s
    <3>4. Parsing'
      BY <1>1, <2>2, <2>4, <3>1, <3>2, <3>3, BlockStep
    <3>5. Starting'
      BY <1>1, <2>2, <3>1, NoPort DEF Starting
    <3>6. QED
      BY <3>4, <3>5 DEF Inv
  <2>5. QED
    BY <2>3, <2>4
<1>7. CASE ReadEndBlock
  <2>1. PICK kind : Take(kind) /\ kind # "eof"
    BY Zenon, <1>7, Separators DEF ReadEndBlock, Kinds
  <2>2. Reading' /\ phase = "parse" /\ port' = port
    BY <1>1, <2>1, Taken
  <2>3. \/ UNCHANGED <<last, stack, cfg>> /\ phase' = "validate" /\ parsed' = FALSE
        \/ UNCHANGED <<last, stack, cfg, parsed>> /\ phase' = Undefined
        \/ /\ stack # <<>> /\ stack' = Front(stack) /\ UNCHANGED <<cfg, phase, parsed>>
           /\ last' \in Kinds /\ last' # "normal"
    <3>1. CASE last \notin {"start block", "end block", "end"}
      BY Zenon, <1>7, <3>1 DEF ReadEndBlock, Return
    <3>2. CASE last \in {"start block", "end block", "end"}
      BY Zenon, <1>7, <3>2, Separators DEF ReadEndBlock, FallOff
    <3>3. QED
      BY Zenon, <3>1, <3>2
  <2>4. CASE UNCHANGED <<last, stack, cfg>> /\ phase' = "validate" /\ parsed' = FALSE
    BY <2>1, <2>4, ReturnStep
  <2>5. CASE UNCHANGED <<last, stack, cfg, parsed>> /\ phase' = Undefined
    BY <1>1, <2>1, <2>5, ReturnStep, Phases DEF Starting
  <2>6. CASE /\ stack # <<>> /\ stack' = Front(stack) /\ UNCHANGED <<cfg, phase, parsed>>
             /\ last' \in Kinds /\ last' # "normal"
    <3>1. Parsing'
      BY <1>1, <2>2, <2>6, LeaveStep
    <3>2. Starting'
      BY <1>1, <2>2, <2>6, NoPort DEF Starting
    <3>3. QED
      BY <3>1, <3>2 DEF Inv
  <2>7. QED
    BY <2>3, <2>4, <2>5, <2>6
<1>8. QED
  BY <1>2, <1>3, <1>4, <1>5, <1>6, <1>7

\* What getPort gives is no port, or the number of a listen line.
LEMMA AskedPort ==
  ASSUME cfg \in Trees
  PROVE  /\ GetPort(cfg) \in -1..MaxPort
         /\ GetPort(cfg) >= 0 => FromListen(GetPort(cfg))
<1>1. CASE GetPort(cfg) = -1
  <2>1. MaxPort \in Nat
    BY IntBitsAssumption DEF MaxPort
  <2>2. QED
    BY <1>1, <2>1
<1>2. CASE GetPort(cfg) # -1
  <2>1. PICK i \in 1..Len(cfg) :
          Reached(cfg, 0, i) /\ GetPort(cfg) = PortNumber(cfg[i].tokens[2])
    BY <1>2, PortFound
  <2>2. cfg[i].tokens \in Seq(Words) /\ Len(cfg[i].tokens) = 2
    BY <2>1, TreeParts DEF Statements, IsListen, Reached
  <2>3. cfg[i].tokens[2] \in Words
    BY <2>2, ElementOfSeq
  <2>4. QED
    BY <2>1, <2>3, PortNumbers DEF FromListen
<1>3. QED
  BY <1>1, <1>2

\* From the tree to the acceptor.
LEMMA MainStep ==
  ASSUME Inv, OpenFails \/ Validate \/ AskPort \/ Extract \/ Bind \/ MakeRoutes
  PROVE  Inv'
<1>1. Parsing /\ Starting /\ cfg \in Trees
  BY DEF Inv, Parsing
<1>2. UNCHANGED <<file, rest, last, stack, cfg, parsed>>
  BY Zenon DEF At, OpenFails, Validate, AskPort, Extract, Bind, MakeRoutes
<1>3. Parsing'
  BY <1>1, <1>2 DEF Parsing, Reading, Top
<1>4. parsed' \in BOOLEAN /\ port \in -1..MaxPort
  BY <1>1, <1>2 DEF Starting
<1>5. ASSUME phase' \in Ended \cup {"validate", "port"}, port' = port
      PROVE  Starting'
  BY <1>1, <1>4, <1>5, NoPort
<1>6. ASSUME phase' \in {"extract", "bind", "routes", "listening"},
             port' \in -1..MaxPort, port' >= 0, FromListen(port)'
      PROVE  Starting'
  <2>1. phase' \in Running \cup Ended
    BY <1>6, Phases
  <2>2. QED
    BY <1>4, <1>6, <2>1 DEF Starting
<1>7. CASE OpenFails
  <2>1. phase' \in Ended /\ port' = port
    BY Zenon, <1>7, Phases DEF OpenFails
  <2>2. QED
    BY <1>3, <1>5, <2>1 DEF Inv
<1>8. CASE Validate
  <2>1. phase' \in Ended \cup {"port"} /\ port' = port
    BY Zenon, <1>8, Phases DEF Validate
  <2>2. QED
    BY <1>3, <1>5, <2>1 DEF Inv
<1>9. CASE AskPort
  <2>1. port' = GetPort(cfg) /\ cfg' = cfg
    BY <1>2, <1>9 DEF AskPort
  <2>2. port' \in -1..MaxPort /\ (port' >= 0 => FromListen(port)')
    BY <1>1, <2>1, AskedPort DEF FromListen
  <2>3. (port' < 0 /\ phase' \in Ended) \/ (~ (port' < 0) /\ phase' = "extract")
    BY Zenon, <1>9, Phases DEF AskPort
  <2>4. CASE phase' \in Ended
    BY <1>1, <1>3, <1>4, <2>2, <2>4, NoPort DEF Inv
  <2>5. CASE ~ (port' < 0) /\ phase' = "extract"
    <3>1. port' >= 0
      BY <2>2, <2>5
    <3>2. QED
      BY <1>3, <1>6, <2>2, <2>5, <3>1 DEF Inv
  <2>6. QED
    BY <2>3, <2>4, <2>5
<1>10. CASE Extract \/ MakeRoutes
  <2>1. /\ phase \in {"extract", "routes"} /\ port' = port
        /\ phase' \in Ended \cup {"bind", "listening"}
    BY Zenon, <1>10, Phases DEF Extract, MakeRoutes, At
  <2>2. port' >= 0 /\ FromListen(port)'
    BY <1>1, <1>2, <2>1 DEF Starting, FromListen
  <2>3. CASE phase' \in Ended
    BY <1>3, <1>5, <2>1, <2>3 DEF Inv
  <2>4. CASE phase' \in {"bind", "listening"}
    BY <1>3, <1>4, <1>6, <2>1, <2>2, <2>4 DEF Inv
  <2>5. QED
    BY <2>1, <2>3, <2>4
<1>11. CASE Bind
  <2> DEFINE bound == IF ThroughShort(port) = 0 THEN 1..MaxPort ELSE {ThroughShort(port)}
  <2>1. phase = "bind" /\ ((phase' = "routes" /\ port' \in bound)
                             \/ (phase' \in Ended /\ port' = port))
    BY Zenon, <1>11, Phases DEF Bind, At
  <2>2. port >= 0 /\ FromListen(port)
    BY <1>1, <2>1 DEF Starting
  <2>3. MaxPort \in Nat
    BY IntBitsAssumption DEF MaxPort
  <2>4. port \in 0..MaxPort
    BY <1>4, <2>2, <2>3
  <2>5. ThroughShort(port) = port
    BY <2>4, ShortIsEnough
  <2>6. CASE phase' = "routes" /\ port' \in bound
    <3>1. port' = port \/ (port = 0 /\ port' \in 1..MaxPort)
      BY <2>5, <2>6
    <3>2. port' \in 0..MaxPort /\ FromListen(port')
      BY <2>2, <2>3, <2>4, <3>1 DEF FromListen, ReadFrom
    <3>3. FromListen(port)'
      BY <1>2, <3>2 DEF FromListen
    <3>4. QED
      BY <1>3, <1>6, <2>3, <2>6, <3>2, <3>3 DEF Inv
  <2>7. CASE phase' \in Ended /\ port' = port
    BY <1>3, <1>5, <2>7 DEF Inv
  <2>8. QED
    BY <2>1, <2>6, <2>7
<1>12. QED
  BY <1>7, <1>8, <1>9, <1>10, <1>11

\* From then on nothing changes but the answers, until the server ends.
LEMMA LateStep ==
  ASSUME Inv,
         \/ EmptyPool \/ (\E t \in Targets : Route(t)) \/ RouteUnparsed
         \/ Signal \/ Stop \/ UNCHANGED vars
  PROVE  Inv'
<1>1. Parsing /\ Starting
  BY DEF Inv
<1>2. UNCHANGED <<file, rest, last, stack, cfg, parsed, port>>
  BY Zenon DEF At, EmptyPool, Route, RouteUnparsed, Process, Signal, Stop, vars
<1>3. phase' = phase \/ phase' \in Ended
  BY Zenon, Phases DEF At, EmptyPool, Route, RouteUnparsed, Process, Signal, Stop, vars
<1>4. Parsing'
  BY <1>1, <1>2 DEF Parsing, Reading, Top
<1>5. CASE phase' = phase
  BY <1>1, <1>2, <1>4, <1>5 DEF Inv, Starting, FromListen
<1>6. CASE phase' \in Ended
  <2>1. parsed' \in BOOLEAN /\ port' \in -1..MaxPort
    BY <1>1, <1>2 DEF Starting
  <2>2. QED
    BY <1>1, <1>4, <1>6, <2>1, NoPort DEF Inv
<1>7. QED
  BY <1>3, <1>5, <1>6

LEMMA Invariant == Spec => []Inv
<1>1. Inv /\ [Next]_vars => Inv'
  BY ReadStep, MainStep, LateStep DEF Next
<1>2. QED
  BY <1>1, InvInit, PTL DEF Spec

\* Whatever the file, the parser keeps a tree: every statement is in a block
\* that is open and was opened before it, and the open blocks are in one another.
THEOREM TypeCorrect == Spec => []TypeOK
BY Invariant, InvHolds, PTL

\* Whatever the file, a server that listens does so on the number of a listen line,
\* the first of its block, around which no block has one; the number is a port,
\* and int, short and unsigned short leave it as it is; but where it is 0, or more
\* than an int holds.
THEOREM PortIsListed == Spec => []PortFromListen
BY Invariant, InvHolds, PTL

-----------------------------------------------------------------------------
(* extract_filesystem_map *)

\* What a line enters into the map, and where.
Key(c, i) ==
  LET loc == c[c[i].parent].tokens IN <<loc[3].text, HandleTrailingSlashes(loc[2].text)>>
RootOf(c, i) == c[i].tokens[2].text

LinesWith(c, s, k) == {i \in s : Key(c, i) = k}

\* What is in the map once the lines of s have been entered: the first of those
\* with a key decides.
Entered(c, s, m) ==
  /\ DOMAIN m = {Key(c, i) : i \in s}
  /\ \A k \in DOMAIN m : m[k] = RootOf(c, Min(LinesWith(c, s, k)))

EntryFold(c, p) ==
  p = [s \in SUBSET Lines(c) |-> IF s = {} THEN Empty
         ELSE Insert(p[s \ {Max(s)}], Key(c, Max(s)), RootOf(c, Max(s)))]

LEMMA ExtractIs ==
  ASSUME NEW c
  PROVE  ExtractFilesystemMap(c) = (CHOOSE p : EntryFold(c, p))[Lines(c)]
BY DEF ExtractFilesystemMap, MapThenFoldSet, EntryFold, Key, RootOf

LEMMA LinesFinite ==
  ASSUME NEW c \in Trees
  PROVE  /\ IsFiniteSet(Lines(c))
         /\ \A s \in SUBSET Lines(c) :
              s # {} => Max(s) \in s /\ \A y \in s : y \in Nat /\ y <= Max(s)
<1>1. Len(c) \in Nat /\ Lines(c) \subseteq 1..Len(c)
  BY TreeParts DEF Lines
<1>2. IsFiniteSet(1..Len(c))
  BY <1>1, FS_Interval
<1>3. \A s \in SUBSET Lines(c) : s \subseteq 0..Len(c)
  BY <1>1
<1>4. \A s \in SUBSET Lines(c) :
        s # {} => Max(s) \in s /\ \A y \in s : y \in Nat /\ y <= Max(s)
  BY <1>1, <1>3, Greatest
<1>5. QED
  BY <1>1, <1>2, <1>4, FS_Subset

\* Entering the elements of a finite set into a map one by one, in the order in
\* which ch takes them out.
MapFolded(S, base, ch, key, val, p) ==
  p = [s \in SUBSET S |-> IF s = {} THEN base
         ELSE Insert(p[s \ {ch[s]}], key[ch[s]], val[ch[s]])]

LEMMA MapFoldExists ==
  ASSUME NEW S, IsFiniteSet(S), NEW base, base = [l \in DOMAIN base |-> base[l]],
         NEW ch, \A s \in SUBSET S : s # {} => ch[s] \in s, NEW key, NEW val
  PROVE  \E p : MapFolded(S, base, ch, key, val, p)
<1> DEFINE K == DOMAIN base \cup {key[i] : i \in S}
           V == {base[l] : l \in DOMAIN base} \cup {val[i] : i \in S}
           A == UNION {[D -> V] : D \in SUBSET K}
           g == [x \in S \X A |-> Insert(x[2], key[x[1]], val[x[1]])]
<1>1. base \in A
  <2>1. base \in [DOMAIN base -> V]
    OBVIOUS
  <2>2. QED
    BY <2>1
<1>2. ASSUME NEW m \in A, NEW k \in K, NEW v \in V PROVE Insert(m, k, v) \in A
  <2>1. PICK D \in SUBSET K : m \in [D -> V]
    OBVIOUS
  <2> HIDE DEF A
  <2>2. Insert(m, k, v) \in [D \cup {k} -> V]
    BY <2>1 DEF Insert
  <2>3. QED
    BY <2>1, <2>2 DEF A
<1> HIDE DEF A
<1>3. g \in [S \X A -> A]
  <2>1. \A x \in S \X A : x[1] \in S /\ x[2] \in A
    OBVIOUS
  <2>2. \A x \in S \X A : Insert(x[2], key[x[1]], val[x[1]]) \in A
    BY <1>2, <2>1
  <2>3. QED
    BY <2>2
<1> HIDE DEF g
<1>4. PICK p \in [SUBSET S -> A] : Folded(S, base, ch, g, p)
  BY <1>1, <1>3, FoldExists
<1>5. \A s \in SUBSET S : s # {} =>
        g[<<ch[s], p[s \ {ch[s]}]>>] = Insert(p[s \ {ch[s]}], key[ch[s]], val[ch[s]])
  <2>1. \A s \in SUBSET S : s # {} => ch[s] \in S /\ p[s \ {ch[s]}] \in A
    BY <1>4
  <2>2. QED
    BY <2>1 DEF g
<1>6. \A s \in SUBSET S :
        p[s] = IF s = {} THEN base ELSE Insert(p[s \ {ch[s]}], key[ch[s]], val[ch[s]])
  BY <1>4, <1>5 DEF Folded
<1>7. p = [s \in SUBSET S |-> p[s]]
  BY <1>4
<1>8. [s \in SUBSET S |-> p[s]]
        = [s \in SUBSET S |-> IF s = {} THEN base
             ELSE Insert(p[s \ {ch[s]}], key[ch[s]], val[ch[s]])]
  BY <1>6
<1>9. QED
  BY <1>7, <1>8 DEF MapFolded

LEMMA EntryFoldExists ==
  ASSUME NEW c \in Trees
  PROVE  \E p : EntryFold(c, p)
<1> DEFINE S == Lines(c)
           ch == [s \in SUBSET S |-> Max(s)]
           key == [i \in S |-> Key(c, i)]
           val == [i \in S |-> RootOf(c, i)]
<1>1. IsFiniteSet(S) /\ \A s \in SUBSET S : s # {} => ch[s] \in s
  BY LinesFinite
<1>2. Empty = [l \in DOMAIN Empty |-> Empty[l]]
  BY DEF Empty
<1>3. PICK p : MapFolded(S, Empty, ch, key, val, p)
  <2> HIDE DEF S, ch, key, val
  <2> QED BY <1>1, <1>2, MapFoldExists
<1>4. \A s \in SUBSET S : s # {} =>
        Insert(p[s \ {ch[s]}], key[ch[s]], val[ch[s]])
          = Insert(p[s \ {Max(s)}], Key(c, Max(s)), RootOf(c, Max(s)))
  <2>1. \A s \in SUBSET S : s # {} => ch[s] = Max(s) /\ Max(s) \in S
    BY <1>1
  <2> HIDE DEF S, ch
  <2>2. QED
    BY <2>1
<1>5. EntryFold(c, p)
  <2> HIDE DEF ch, key, val
  <2> QED BY <1>3, <1>4 DEF MapFolded, EntryFold
<1>6. QED
  BY <1>5

\* The map is keyed by the handler types and locations of the lines, and the
\* first line for a key gives the root.
LEMMA Extracted ==
  ASSUME NEW c \in Trees
  PROVE  Entered(c, Lines(c), ExtractFilesystemMap(c))
<1> DEFINE S == Lines(c)
           p == CHOOSE p : EntryFold(c, p)
           T == {s \in SUBSET S : Entered(c, s, p[s])}
<1>1. EntryFold(c, p)
  BY EntryFoldExists
<1> HIDE DEF p
<1>2. /\ p[{}] = Empty
      /\ \A s \in SUBSET S : s # {} =>
           p[s] = Insert(p[s \ {Max(s)}], Key(c, Max(s)), RootOf(c, Max(s)))
  BY <1>1 DEF EntryFold
<1>3. {} \in T
  BY <1>2 DEF Entered, Empty
<1>4. ASSUME NEW s \in SUBSET S, s # {}, \A x \in s : s \ {x} \in T PROVE s \in T
  <2> DEFINE x == Max(s)
             r == s \ {x}
             m == p[r]
  <2>1. x \in s /\ \A y \in s : y \in Nat /\ y <= x
    BY <1>4, LinesFinite
  <2>2. Entered(c, r, m) /\ p[s] = Insert(m, Key(c, x), RootOf(c, x))
    BY <1>2, <1>4, <2>1
  <2> HIDE DEF x, m
  <2>a. /\ DOMAIN p[s] = DOMAIN m \cup {Key(c, x)}
        /\ \A j \in DOMAIN m : p[s][j] = m[j]
        /\ Key(c, x) \notin DOMAIN m => p[s][Key(c, x)] = RootOf(c, x)
    <3> DEFINE k == Key(c, x)
               v == RootOf(c, x)
    <3>1. p[s] = Insert(m, k, v)
      BY <2>2
    <3> HIDE DEF k, v
    <3>2. /\ DOMAIN p[s] = DOMAIN m \cup {k}
          /\ \A j \in DOMAIN m : p[s][j] = m[j]
          /\ k \notin DOMAIN m => p[s][k] = v
      BY <3>1 DEF Insert
    <3>3. QED
      BY <3>2 DEF k, v
  <2>3. DOMAIN p[s] = {Key(c, i) : i \in s}
    <3>1. DOMAIN m = {Key(c, i) : i \in r}
      BY <2>2 DEF Entered
    <3>2. QED
      BY <2>1, <2>a, <3>1
  <2>4. ASSUME NEW k \in DOMAIN p[s], k \in DOMAIN m
        PROVE  p[s][k] = RootOf(c, Min(LinesWith(c, s, k)))
    <3> DEFINE before == LinesWith(c, r, k)
               all    == LinesWith(c, s, k)
    <3>1. before \subseteq Nat /\ before # {} /\ before \subseteq all
      BY <2>1, <2>2, <2>4 DEF Entered, LinesWith
    <3>2. \A y \in all : y \in before \/ y = x
      BY DEF LinesWith
    <3> HIDE DEF before, all
    <3>3. Min(before) \in before /\ \A y \in before : Min(before) <= y
      BY <3>1, Least
    <3>4. Min(before) \in s
      BY <3>3 DEF before, LinesWith
    <3>5. all \subseteq Nat
      BY <2>1 DEF all, LinesWith
    <3>6. Min(all) \in all /\ \A y \in all : Min(all) <= y
      BY <3>1, <3>5, Least
    <3>7. \A y \in all : Min(before) <= y
      BY <2>1, <3>2, <3>3, <3>4
    <3>8. Min(all) = Min(before)
      <4>1. Min(all) \in Nat /\ Min(before) \in Nat
        BY <3>1, <3>3, <3>5, <3>6
      <4>2. Min(all) <= Min(before) /\ Min(before) <= Min(all)
        BY <3>1, <3>3, <3>6, <3>7
      <4>3. QED
        BY <4>1, <4>2
    <3>9. m[k] = RootOf(c, Min(before))
      BY <2>2, <2>4 DEF Entered, before
    <3>10. QED
      BY <2>4, <2>a, <3>8, <3>9 DEF all
  <2>5. ASSUME NEW k \in DOMAIN p[s], k \notin DOMAIN m
        PROVE  p[s][k] = RootOf(c, Min(LinesWith(c, s, k)))
    <3>1. k = Key(c, x)
      BY <2>5, <2>a
    <3>2. LinesWith(c, s, k) = {x}
      BY <2>1, <2>2, <2>5, <3>1 DEF Entered, LinesWith
    <3>3. Min({x}) = x
      BY <2>1, Least
    <3>4. QED
      BY <2>5, <2>a, <3>1, <3>2, <3>3
  <2>6. QED
    BY <2>3, <2>4, <2>5 DEF Entered
<1>5. SUBSET S \subseteq T
  <2> HIDE DEF T, S
  <2>1. IsFiniteSet(S)
    BY LinesFinite DEF S
  <2>2. QED
    BY <1>3, <1>4, <2>1, Parts
<1>6. S \in T
  BY <1>5
<1>7. QED
  BY <1>6, ExtractIs DEF p

-----------------------------------------------------------------------------
(* create_factory_map *)

\* The keys of a handler type, and what inserting them one by one gives.
OfType(fs, type) == {k \in DOMAIN fs : k[1] = <<type>>}

RouteFold(fs, type, base, p) ==
  p = [s \in SUBSET OfType(fs, type) |-> IF s = {} THEN base
         ELSE Insert(p[s \ {CHOOSE k \in s : TRUE}], (CHOOSE k \in s : TRUE)[2],
                     Factory(type, fs[CHOOSE k \in s : TRUE]))]

AllOf(fs, type, base) == (CHOOSE p : RouteFold(fs, type, base, p))[OfType(fs, type)]

BuiltInRoutes == Insert(Insert(BuiltIn, Slash, Factory("error", <<>>)),
                        BadRequest, Factory("bad request", <<>>))

LEMMA CreateIs ==
  ASSUME NEW fs
  PROVE  CreateFactoryMap(fs) = AllOf(fs, "ApiHandler", AllOf(fs, "StaticHandler", BuiltInRoutes))
BY Zenon DEF CreateFactoryMap, FoldSet, MapThenFoldSet, RouteFold, AllOf, OfType, BuiltInRoutes

\* What is routed once the keys of s have been inserted: what was there, and the
\* locations of those keys, unless they were there.
Provided(fs, type, s, base, m) ==
  /\ m = [l \in DOMAIN m |-> m[l]] /\ IsFiniteSet(DOMAIN m)
  /\ DOMAIN m = DOMAIN base \cup {k[2] : k \in s}
  /\ \A l \in DOMAIN base : m[l] = base[l]
  /\ \A k \in s : k[2] \notin DOMAIN base => m[k[2]] = Factory(type, fs[k])

LEMMA RouteFoldExists ==
  ASSUME NEW fs, IsFiniteSet(DOMAIN fs), NEW type,
         NEW base, base = [l \in DOMAIN base |-> base[l]]
  PROVE  \E p : RouteFold(fs, type, base, p)
<1> DEFINE S == OfType(fs, type)
           ch == [s \in SUBSET S |-> CHOOSE k \in s : TRUE]
           key == [k \in S |-> k[2]]
           val == [k \in S |-> Factory(type, fs[k])]
<1>1. IsFiniteSet(S)
  <2>1. S \in SUBSET DOMAIN fs
    BY DEF OfType
  <2>2. QED
    BY <2>1, FS_Subset
<1>2. \A s \in SUBSET S : s # {} => ch[s] \in s
  OBVIOUS
<1>3. PICK p : MapFolded(S, base, ch, key, val, p)
  <2> HIDE DEF S, ch, key, val
  <2> QED BY <1>1, <1>2, MapFoldExists
<1>4. \A s \in SUBSET S : s # {} =>
        Insert(p[s \ {ch[s]}], key[ch[s]], val[ch[s]])
          = Insert(p[s \ {CHOOSE k \in s : TRUE}], (CHOOSE k \in s : TRUE)[2],
                   Factory(type, fs[CHOOSE k \in s : TRUE]))
  <2>1. \A s \in SUBSET S : s # {} => ch[s] = (CHOOSE k \in s : TRUE) /\ ch[s] \in S
    BY <1>2
  <2> HIDE DEF S, ch
  <2>2. QED
    BY <2>1
<1>5. [s \in SUBSET S |-> IF s = {} THEN base
         ELSE Insert(p[s \ {ch[s]}], key[ch[s]], val[ch[s]])]
       = [s \in SUBSET S |-> IF s = {} THEN base
            ELSE Insert(p[s \ {CHOOSE k \in s : TRUE}], (CHOOSE k \in s : TRUE)[2],
                   Factory(type, fs[CHOOSE k \in s : TRUE]))]
  <2> HIDE DEF S, ch, key, val
  <2> QED BY <1>4
<1>6. RouteFold(fs, type, base, p)
  <2> HIDE DEF ch, key, val
  <2> QED BY <1>3, <1>5 DEF MapFolded, RouteFold
<1>7. QED
  BY <1>6

LEMMA AllProvided ==
  ASSUME NEW fs, IsFiniteSet(DOMAIN fs), \A k \in DOMAIN fs : k = <<k[1], k[2]>>,
         NEW type, NEW base, base = [l \in DOMAIN base |-> base[l]],
         IsFiniteSet(DOMAIN base)
  PROVE  Provided(fs, type, OfType(fs, type), base, AllOf(fs, type, base))
<1> DEFINE S == OfType(fs, type)
           p == CHOOSE p : RouteFold(fs, type, base, p)
           T == {s \in SUBSET S : Provided(fs, type, s, base, p[s])}
<1>1. RouteFold(fs, type, base, p)
  BY RouteFoldExists
<1> HIDE DEF p
<1>2. p[{}] = base
  BY <1>1 DEF RouteFold
<1>3. {} \in T
  BY <1>2 DEF Provided
<1>4. ASSUME NEW s \in SUBSET S, s # {}, \A x \in s : s \ {x} \in T PROVE s \in T
  <2> DEFINE x == CHOOSE k \in s : TRUE
             m == p[s \ {x}]
             n == p[s]
             l == x[2]
             v == Factory(type, fs[x])
  <2>1. x \in s /\ Provided(fs, type, s \ {x}, base, m)
    BY <1>4
  <2>2. n = Insert(m, l, v)
    BY <1>1, <1>4 DEF RouteFold
  <2>3. \A k \in s : k[2] = l => k = x
    BY <2>1 DEF OfType
  <2> HIDE DEF x, m, n, S
  <2>4. /\ DOMAIN m = DOMAIN base \cup {k[2] : k \in s \ {x}} /\ IsFiniteSet(DOMAIN m)
        /\ \A j \in DOMAIN base : m[j] = base[j]
        /\ \A k \in s \ {x} : k[2] \notin DOMAIN base => m[k[2]] = Factory(type, fs[k])
    BY <2>1 DEF Provided
  <2>5. /\ DOMAIN n = DOMAIN m \cup {l}
        /\ \A j \in DOMAIN m : n[j] = m[j]
        /\ l \notin DOMAIN m => n[l] = v
        /\ n = [j \in DOMAIN n |-> n[j]]
    <3> HIDE DEF l, v
    <3> QED BY <2>2 DEF Insert
  <2>6. DOMAIN n = DOMAIN base \cup {k[2] : k \in s} /\ IsFiniteSet(DOMAIN n)
    <3>1. IsFiniteSet(DOMAIN m \cup {l})
      <4> HIDE DEF l
      <4> QED BY <2>4, FS_AddElement
    <3>2. QED
      BY <2>1, <2>4, <2>5, <3>1
  <2>7. \A j \in DOMAIN base : n[j] = base[j]
    BY <2>4, <2>5
  <2>8. ASSUME NEW k \in s, k[2] \notin DOMAIN base
        PROVE  n[k[2]] = Factory(type, fs[k])
    <3>1. CASE k = x
      <4>1. l \notin DOMAIN m
        BY <2>3, <2>4, <2>8, <3>1
      <4>2. QED
        BY <2>5, <3>1, <4>1
    <3>2. CASE k # x
      BY <2>4, <2>5, <2>8, <3>2
    <3>3. QED
      BY <3>1, <3>2
  <2>9. Provided(fs, type, s, base, n)
    BY <2>5, <2>6, <2>7, <2>8 DEF Provided
  <2>10. QED
    BY <2>9 DEF n
<1>5. SUBSET S \subseteq T
  <2> HIDE DEF T
  <2>1. IsFiniteSet(S)
    <3>1. S \in SUBSET DOMAIN fs
      BY DEF OfType
    <3>2. QED
      BY <3>1, FS_Subset
  <2> HIDE DEF S
  <2>2. QED
    BY <1>3, <1>4, <2>1, Parts
<1>6. S \in T
  BY <1>5
<1>7. QED
  BY <1>6 DEF AllOf, p

-----------------------------------------------------------------------------
(* Texts. *)

\* The name with a blank in it is one more name.
LEMMA BadRequestParts ==
  /\ BadRequest = <<BadRequest[1]>>
  /\ BadRequest[1] \notin {"/", "ApiHandler", "StaticHandler", "error"}
  /\ BuiltInRoutes = Insert(Insert(BuiltIn, Slash, Factory("error", <<>>)),
                            BadRequest, Factory(BadRequest[1], <<>>))
<1>1. \A x : <<x>>[1] = x
  OBVIOUS
<1>2. BadRequest[1] = "bad request"
  BY Zenon, <1>1 DEF BadRequest
<1>3. "bad request" \notin {"/", "ApiHandler", "StaticHandler", "error"}
  BY Zenon
<1>4. QED
  BY Zenon, <1>2, <1>3 DEF BadRequest, BuiltInRoutes

\* What texts are made of.  The provers do not know what is a string.
Chunks == STRING \cup {"/", ".", "..", "echo", "sleep", "health", "palette", "color",
                       BadRequest[1]}

LEMMA ChunkTexts ==
  /\ Seq(STRING) \subseteq Seq(Chunks)
  /\ Slash \in Seq(Chunks) /\ BadRequest \in Seq(Chunks)
  /\ \A c \in Chunks : <<"/", c>> \in Seq(Chunks)
<1>1. STRING \subseteq Chunks /\ "/" \in Chunks /\ BadRequest[1] \in Chunks
  BY Zenon DEF Chunks
<1>2. ASSUME NEW A, NEW B, A \subseteq B PROVE Seq(A) \subseteq Seq(B)
  BY <1>2, SeqMonotonic
<1>3. Seq(STRING) \subseteq Seq(Chunks)
  BY Zenon, <1>1, <1>2
<1>4. \A x \in Chunks : <<x>> \in Seq(Chunks) /\ <<"/", x>> \in Seq(Chunks)
  BY <1>1
<1>5. QED
  BY <1>1, <1>3, <1>4, BadRequestParts DEF Slash

-----------------------------------------------------------------------------
(* longest_prefix_matching *)

Better(r, best, uri) ==
  IF IsPrefix(r, uri) /\ best.size < Len(r) THEN [path |-> r, size |-> Len(r)] ELSE best

NoMatch == [path |-> Slash, size |-> 0]

MatchFold(R, uri, p) ==
  p = [s \in SUBSET R |-> IF s = {} THEN NoMatch
         ELSE Better(CHOOSE r \in s : TRUE, p[s \ {CHOOSE r \in s : TRUE}], uri)]

LEMMA MatchIs ==
  ASSUME NEW rs, NEW uri
  PROVE  LongestPrefixMatching(rs, uri)
           = (CHOOSE p : MatchFold(DOMAIN rs, uri, p))[DOMAIN rs].path
BY DEF LongestPrefixMatching, FoldSet, MapThenFoldSet, MatchFold, Better, NoMatch

LEMMA MatchFoldExists ==
  ASSUME NEW R \in SUBSET Seq(Chunks), IsFiniteSet(R), NEW uri
  PROVE  \E p : MatchFold(R, uri, p)
<1> DEFINE A == [path : Seq(Chunks), size : Nat]
           ch == [s \in SUBSET R |-> CHOOSE r \in s : TRUE]
           g == [x \in R \X A |-> Better(x[1], x[2], uri)]
<1>1. \A s \in SUBSET R : s # {} => ch[s] \in s
  OBVIOUS
<1>2. NoMatch \in A
  BY ChunkTexts DEF NoMatch
<1>3. g \in [R \X A -> A]
  <2>1. \A r \in R : r \in Seq(Chunks) /\ Len(r) \in Nat
    BY LenProperties
  <2>2. \A r \in R : \A b \in A : Better(r, b, uri) \in A
    BY <2>1 DEF Better
  <2>3. \A x \in R \X A : x[1] \in R /\ x[2] \in A
    OBVIOUS
  <2> HIDE DEF A
  <2>4. QED
    BY <2>2, <2>3
<1> HIDE DEF A, g
<1>4. PICK p \in [SUBSET R -> A] : Folded(R, NoMatch, ch, g, p)
  <2> HIDE DEF ch
  <2> QED BY <1>1, <1>2, <1>3, FoldExists
<1>5. \A s \in SUBSET R : s # {} =>
        g[<<ch[s], p[s \ {ch[s]}]>>]
          = Better(CHOOSE r \in s : TRUE, p[s \ {CHOOSE r \in s : TRUE}], uri)
  <2>1. \A s \in SUBSET R : s # {} =>
          ch[s] = (CHOOSE r \in s : TRUE) /\ ch[s] \in R /\ p[s \ {ch[s]}] \in A
    BY <1>1, <1>4
  <2> HIDE DEF ch
  <2>2. QED
    BY <2>1 DEF g
<1>6. \A s \in SUBSET R :
        p[s] = IF s = {} THEN NoMatch
               ELSE Better(CHOOSE r \in s : TRUE, p[s \ {CHOOSE r \in s : TRUE}], uri)
  <2> HIDE DEF ch
  <2> QED BY <1>4, <1>5 DEF Folded
<1>7. p = [s \in SUBSET R |-> p[s]]
  BY <1>4
<1>8. [s \in SUBSET R |-> p[s]]
        = [s \in SUBSET R |-> IF s = {} THEN NoMatch
             ELSE Better(CHOOSE r \in s : TRUE, p[s \ {CHOOSE r \in s : TRUE}], uri)]
  BY <1>6
<1>9. MatchFold(R, uri, p)
  BY <1>7, <1>8 DEF MatchFold
<1>10. QED
  BY <1>9

\* b is the longest of the routes in s that are prefixes, if one is.
Best(s, uri, b) ==
  \/ /\ b.path = Slash /\ b.size = 0
     /\ \A r \in s : IsPrefix(r, uri) => Len(r) = 0
  \/ /\ b.path \in s /\ IsPrefix(b.path, uri) /\ b.size = Len(b.path) /\ b.size > 0
     /\ \A r \in s : IsPrefix(r, uri) => Len(r) <= b.size

LEMMA LongestMatched ==
  ASSUME NEW rs, DOMAIN rs \in SUBSET Seq(Chunks), IsFiniteSet(DOMAIN rs), NEW uri
  PROVE  \E b : LongestPrefixMatching(rs, uri) = b.path /\ Best(DOMAIN rs, uri, b)
<1> DEFINE R == DOMAIN rs
           p == CHOOSE p : MatchFold(R, uri, p)
           T == {s \in SUBSET R : Best(s, uri, p[s])}
<1>1. MatchFold(R, uri, p)
  BY MatchFoldExists
<1> HIDE DEF p
<1>2. p[{}] = NoMatch
  BY <1>1 DEF MatchFold
<1>3. {} \in T
  BY <1>2 DEF Best, NoMatch
<1>4. ASSUME NEW s \in SUBSET R, s # {}, \A x \in s : s \ {x} \in T PROVE s \in T
  <2> DEFINE x == CHOOSE r \in s : TRUE
             a == p[s \ {x}]
             b == p[s]
  <2>1. x \in s /\ Best(s \ {x}, uri, a)
    BY <1>4
  <2>2. b = Better(x, a, uri)
    BY <1>1, <1>4 DEF MatchFold
  <2>3. \A r \in s : Len(r) \in Nat
    BY LenProperties
  <2> HIDE DEF x, a, b
  <2>4. CASE IsPrefix(x, uri) /\ a.size < Len(x)
    <3>1. b.path = x /\ b.size = Len(x)
      BY <2>2, <2>4 DEF Better
    <3>2. Best(s, uri, b)
      BY <2>1, <2>3, <2>4, <3>1 DEF Best
    <3>3. QED
      BY <3>2 DEF b
  <2>5. CASE ~ (IsPrefix(x, uri) /\ a.size < Len(x))
    <3>1. b = a
      BY <2>2, <2>5 DEF Better
    <3>2. Best(s, uri, b)
      BY <2>1, <2>3, <2>5, <3>1 DEF Best
    <3>3. QED
      BY <3>2 DEF b
  <2>6. QED
    BY <2>4, <2>5
<1>5. SUBSET R \subseteq T
  <2> HIDE DEF T, R
  <2>1. IsFiniteSet(R)
    BY DEF R
  <2>2. QED
    BY <1>3, <1>4, <2>1, Parts
<1>6. R \in T
  BY <1>5
<1>7. QED
  BY <1>6, MatchIs DEF p


-----------------------------------------------------------------------------
(* The routes. *)

\* A location ends with one slash.
LEMMA SlashesOff ==
  ASSUME NEW t \in Seq(Chunks)
  PROVE  LET h == HandleTrailingSlashes(t)
         IN /\ h \in Seq(Chunks) /\ Len(h) \in Nat \ {0}
            /\ h[Len(h)] = "/"
            /\ Len(h) > 1 => h[Len(h) - 1] # "/"
<1> DEFINE n == Len(t)
           kept == {m \in 0..n : \A i \in m+1..n : t[i] = "/"}
           k == Min(kept)
           f == SubSeq(t, 1, k)
<1>1. n \in Nat /\ \A i \in 1..n : t[i] \in Chunks
  BY LenProperties, ElementOfSeq
<1>2. kept \subseteq Nat /\ kept # {}
  <2>1. n \in kept
    BY <1>1
  <2>2. QED
    BY <2>1
<1>3. k \in kept /\ \A y \in kept : k <= y
  <2> HIDE DEF kept
  <2> QED BY <1>2, Least
<1> HIDE DEF k
<1>4. k \in 0..n /\ \A i \in k+1..n : t[i] = "/"
  BY <1>3
<1>5. f \in Seq(Chunks) /\ Len(f) = k /\ \A i \in 1..k : f[i] = t[i]
  <2>1. \A i \in 1..k : t[i] \in Chunks
    BY <1>1, <1>4
  <2>2. QED
    BY <1>1, <1>4, <2>1, SubSeqProperties
<1>6. ASSUME k > 0 PROVE t[k] # "/"
  <2>1. ASSUME t[k] = "/" PROVE k - 1 \in kept
    BY <1>1, <1>4, <1>6, <2>1
  <2> HIDE DEF kept
  <2>2. QED
    BY <1>1, <1>3, <1>4, <2>1
<1> HIDE DEF f, kept
<1>7. HandleTrailingSlashes(t) = Append(f, "/")
  BY DEF HandleTrailingSlashes, f, k, kept, n
<1>8. "/" \in Chunks
  BY Zenon DEF Chunks
<1> DEFINE h == HandleTrailingSlashes(t)
<1>9. /\ h \in Seq(Chunks) /\ Len(h) = k + 1
      /\ \A i \in 1..k : h[i] = f[i]
      /\ h[k + 1] = "/"
  BY <1>5, <1>7, <1>8, AppendProperties
<1> HIDE DEF h, n
<1>10. k \in Nat /\ (k > 0 => k \in 1..k /\ h[k] = t[k])
  BY <1>1, <1>4, <1>5, <1>9
<1>11. QED
  BY <1>6, <1>9, <1>10 DEF h

\* So no location is empty, and a key is a handler type and a location.
LEMMA KeyParts ==
  ASSUME NEW c \in Trees, ~ ExtractUndefined(c), NEW i \in Lines(c)
  PROVE  LET loc == c[c[i].parent].tokens
         IN /\ c[i].parent \in 1..Len(c) /\ loc \in Seq(Words) /\ Len(loc) >= 3
            /\ loc[2].text \in Seq(Chunks)
            /\ Key(c, i) = <<loc[3].text, HandleTrailingSlashes(loc[2].text)>>
<1> DEFINE j == c[i].parent
           loc == c[j].tokens
<1>1. j \in 1..Len(c) /\ c[j] \in Statements
  BY TreeParts DEF Lines, Locations
<1>2. loc \in Seq(Words)
  BY <1>1 DEF Statements
<1>3. Len(loc) \in Nat /\ Len(loc) >= 3
  BY <1>2, LenProperties DEF ExtractUndefined
<1>4. loc[2] \in Words
  BY <1>2, <1>3, ElementOfSeq
<1>5. loc[2].text \in Seq(STRING)
  BY Zenon, <1>4 DEF Words
<1>6. loc[2].text \in Seq(Chunks)
  BY Zenon, <1>5, ChunkTexts
<1>7. QED
  BY <1>1, <1>2, <1>3, <1>6 DEF Key

LEMMA BuiltInParts ==
  /\ BuiltInRoutes = [l \in DOMAIN BuiltInRoutes |-> BuiltInRoutes[l]]
  /\ IsFiniteSet(DOMAIN BuiltInRoutes)
  /\ DOMAIN BuiltInRoutes = DOMAIN BuiltIn \cup {Slash, BadRequest}
  /\ \A l \in DOMAIN BuiltInRoutes :
       /\ l \in Seq(Chunks) /\ Len(l) > 0
       /\ BuiltInRoutes[l] = Factory(IF l = Slash THEN "error" ELSE l[Len(l)], <<>>)
       /\ BuiltInRoutes[l].type \notin {"ApiHandler", "StaticHandler"}
<1> DEFINE names == {"echo", "sleep", "health", "palette", "color"}
           first == Insert(BuiltIn, Slash, Factory("error", <<>>))
           bad == BadRequest[1]
<1>1. BuiltInRoutes = Insert(first, BadRequest, Factory(bad, <<>>))
  BY Zenon, BadRequestParts
<1>2. /\ DOMAIN BuiltIn = {<<"/", w>> : w \in names}
      /\ \A l \in DOMAIN BuiltIn : BuiltIn[l] = Factory(l[2], <<>>)
  BY DEF BuiltIn
<1>3. BadRequest = <<bad>> /\ bad \notin {"/", "ApiHandler", "StaticHandler", "error"}
  BY BadRequestParts
<1> HIDE DEF bad
<1>4. \A l \in DOMAIN BuiltIn : Len(l) = 2 /\ l # Slash /\ l # BadRequest /\ l[2] \in names
  BY <1>2, <1>3 DEF Slash
<1>5. Slash # BadRequest /\ Len(Slash) = 1 /\ Len(BadRequest) = 1 /\ BadRequest[1] = bad
  BY <1>3 DEF Slash
<1>6. /\ first = [l \in DOMAIN first |-> first[l]]
      /\ DOMAIN first = DOMAIN BuiltIn \cup {Slash}
      /\ \A l \in DOMAIN BuiltIn : first[l] = BuiltIn[l]
      /\ first[Slash] = Factory("error", <<>>)
  <2>1. Slash \notin DOMAIN BuiltIn
    BY <1>4
  <2>2. QED
    BY <2>1 DEF Insert
<1> HIDE DEF first
<1>7. /\ BuiltInRoutes = [l \in DOMAIN BuiltInRoutes |-> BuiltInRoutes[l]]
      /\ DOMAIN BuiltInRoutes = DOMAIN first \cup {BadRequest}
      /\ \A l \in DOMAIN first : BuiltInRoutes[l] = first[l]
      /\ BuiltInRoutes[BadRequest] = Factory(bad, <<>>)
  <2>1. BadRequest \notin DOMAIN first
    BY <1>4, <1>5, <1>6
  <2>2. QED
    BY <1>1, <2>1 DEF Insert
<1>8. IsFiniteSet(DOMAIN BuiltInRoutes)
  <2> DEFINE S1 == {<<"/", "echo">>}
             S2 == S1 \cup {<<"/", "sleep">>}
             S3 == S2 \cup {<<"/", "health">>}
             S4 == S3 \cup {<<"/", "palette">>}
             S5 == S4 \cup {<<"/", "color">>}
             S6 == S5 \cup {Slash}
             S7 == S6 \cup {BadRequest}
  <2>1. DOMAIN BuiltInRoutes = S7
    BY <1>2, <1>6, <1>7
  <2>2. \A S : \A x : IsFiniteSet(S) => IsFiniteSet(S \cup {x})
    BY FS_AddElement
  <2>3. IsFiniteSet(S1)
    BY FS_Singleton
  <2> HIDE DEF S1
  <2>4. IsFiniteSet(S2) /\ IsFiniteSet(S3)
    BY <2>2, <2>3
  <2> HIDE DEF S3
  <2>5. IsFiniteSet(S4) /\ IsFiniteSet(S5)
    BY <2>2, <2>4
  <2> HIDE DEF S5
  <2>6. IsFiniteSet(S6) /\ IsFiniteSet(S7)
    BY <2>2, <2>5
  <2>7. QED
    BY <2>1, <2>6
<1>9. \A l \in DOMAIN BuiltInRoutes : l \in Seq(Chunks) /\ Len(l) > 0
  <2>1. names \subseteq Chunks
    BY Zenon DEF Chunks
  <2>2. \A l \in DOMAIN BuiltIn : l \in Seq(Chunks)
    <3> HIDE DEF names
    <3> QED BY <1>2, <2>1, ChunkTexts
  <2>3. QED
    BY <1>4, <1>5, <1>6, <1>7, <2>2, ChunkTexts
<1>10. ASSUME NEW l \in DOMAIN BuiltInRoutes
       PROVE  BuiltInRoutes[l] = Factory(IF l = Slash THEN "error" ELSE l[Len(l)], <<>>)
  BY <1>2, <1>4, <1>5, <1>6, <1>7
<1>11. ASSUME NEW l \in DOMAIN BuiltInRoutes
       PROVE  BuiltInRoutes[l].type \notin {"ApiHandler", "StaticHandler"}
  <2>1. \/ BuiltInRoutes[l] = Factory("error", <<>>)
        \/ BuiltInRoutes[l] = Factory(bad, <<>>)
        \/ \E w \in names : BuiltInRoutes[l] = Factory(w, <<>>)
    BY <1>2, <1>4, <1>5, <1>6, <1>7
  <2>2. QED
    BY <1>3, <2>1 DEF Factory
<1>12. QED
  BY <1>6, <1>7, <1>8, <1>9, <1>10, <1>11

\* The keys are finitely many pairs.
LEMMA KeysFinite ==
  ASSUME NEW c \in Trees
  PROVE  LET fs == ExtractFilesystemMap(c)
         IN /\ DOMAIN fs = {Key(c, i) : i \in Lines(c)} /\ IsFiniteSet(DOMAIN fs)
            /\ \A k \in DOMAIN fs : /\ k = <<k[1], k[2]>>
                                    /\ fs[k] = RootOf(c, Min(LinesWith(c, Lines(c), k)))
<1> DEFINE fs == ExtractFilesystemMap(c)
           f == [i \in Lines(c) |-> Key(c, i)]
<1>1. /\ DOMAIN fs = {Key(c, i) : i \in Lines(c)}
      /\ \A k \in DOMAIN fs : fs[k] = RootOf(c, Min(LinesWith(c, Lines(c), k)))
  BY Extracted DEF Entered
<1> HIDE DEF fs
<1>2. f \in Surjection(Lines(c), DOMAIN fs)
  BY <1>1 DEF Surjection
<1>3. IsFiniteSet(DOMAIN fs)
  <2> HIDE DEF f
  <2> QED BY <1>2, LinesFinite, FS_Surjection
<1>4. \A i \in Lines(c) : Key(c, i) = <<Key(c, i)[1], Key(c, i)[2]>>
  BY DEF Key
<1>5. QED
  BY <1>1, <1>3, <1>4 DEF fs

\* The keys of a type are the locations with an entry of that type.
LEMMA KeysAreEntries ==
  ASSUME cfg \in Trees, NEW type, NEW path
  PROVE  /\ Entries(path, type) = LinesWith(cfg, Lines(cfg), <<<<type>>, path>>)
         /\ <<<<type>>, path>> \in OfType(ExtractFilesystemMap(cfg), type)
              <=> Entries(path, type) # {}
<1> DEFINE fs == ExtractFilesystemMap(cfg)
           k == <<<<type>>, path>>
<1>1. ASSUME NEW i \in Lines(cfg)
      PROVE  LET loc == cfg[cfg[i].parent].tokens
             IN Key(cfg, i) = k
                  <=> HandleTrailingSlashes(loc[2].text) = path /\ loc[3].text = <<type>>
  BY DEF Key
<1>2. Entries(path, type) = LinesWith(cfg, Lines(cfg), k)
  BY <1>1 DEF Entries, LinesWith
<1>3. k \in OfType(fs, type) <=> \E i \in Lines(cfg) : Key(cfg, i) = k
  <2>1. DOMAIN fs = {Key(cfg, i) : i \in Lines(cfg)}
    BY KeysFinite
  <2> HIDE DEF fs
  <2>2. QED
    BY <2>1 DEF OfType
<1>4. QED
  BY <1>2, <1>3 DEF LinesWith

\* The routes are the paths that are served, each by who should serve it.
LEMMA RoutesMade ==
  ASSUME cfg \in Trees, ~ ExtractUndefined(cfg), NEW rs,
         rs = CreateFactoryMap(ExtractFilesystemMap(cfg))
  PROVE  /\ IsFiniteSet(DOMAIN rs) /\ DOMAIN rs \subseteq Seq(Chunks)
         /\ \A l \in DOMAIN rs : Len(l) > 0
         /\ \A path : path \in DOMAIN rs <=> IsServed(path)
         /\ \A l \in DOMAIN rs : rs[l] = Server(l)
<1> DEFINE fs == ExtractFilesystemMap(cfg)
           sk == OfType(fs, "StaticHandler")
           ak == OfType(fs, "ApiHandler")
           st == AllOf(fs, "StaticHandler", BuiltInRoutes)
<1>1. /\ DOMAIN fs = {Key(cfg, i) : i \in Lines(cfg)} /\ IsFiniteSet(DOMAIN fs)
      /\ \A k \in DOMAIN fs :
           k = <<k[1], k[2]>> /\ fs[k] = RootOf(cfg, Min(LinesWith(cfg, Lines(cfg), k)))
  BY KeysFinite
<1>2. \A type, path : /\ Entries(path, type) = LinesWith(cfg, Lines(cfg), <<<<type>>, path>>)
                      /\ <<<<type>>, path>> \in OfType(fs, type) <=> Entries(path, type) # {}
  BY KeysAreEntries
<1>3. rs = AllOf(fs, "ApiHandler", st)
  BY CreateIs
<1> HIDE DEF fs, st
<1>4. \A type : \A k \in OfType(fs, type) : k \in DOMAIN fs /\ k = <<<<type>>, k[2]>>
  BY <1>1 DEF OfType
<1>5. Provided(fs, "StaticHandler", sk, BuiltInRoutes, st)
  BY <1>1, BuiltInParts, AllProvided DEF st
<1>6. Provided(fs, "ApiHandler", ak, st, rs)
  <2>1. st = [l \in DOMAIN st |-> st[l]] /\ IsFiniteSet(DOMAIN st)
    BY <1>5 DEF Provided
  <2>2. QED
    BY <1>1, <1>3, <2>1, AllProvided
<1> HIDE DEF sk, ak
<1>7. /\ IsFiniteSet(DOMAIN rs)
      /\ DOMAIN st = DOMAIN BuiltInRoutes \cup {k[2] : k \in sk}
      /\ DOMAIN rs = DOMAIN st \cup {k[2] : k \in ak}
  BY <1>5, <1>6 DEF Provided
<1>8. ASSUME NEW k \in DOMAIN fs PROVE k[2] \in Seq(Chunks) /\ Len(k[2]) > 0
  <2>1. PICK i \in Lines(cfg) : k = Key(cfg, i)
    BY <1>1
  <2> DEFINE t == cfg[cfg[i].parent].tokens[2].text
  <2>2. t \in Seq(Chunks) /\ k[2] = HandleTrailingSlashes(t)
    BY <2>1, KeyParts
  <2> HIDE DEF t
  <2>3. QED
    BY <2>2, SlashesOff
<1>9. DOMAIN rs \subseteq Seq(Chunks) /\ \A l \in DOMAIN rs : Len(l) > 0
  <2>1. \A k \in sk \cup ak : k \in DOMAIN fs
    BY <1>4 DEF sk, ak
  <2>2. QED
    BY <1>7, <1>8, <2>1, BuiltInParts
<1>10. ASSUME NEW path
       PROVE  /\ path \in {k[2] : k \in sk} <=> Entries(path, "StaticHandler") # {}
              /\ path \in {k[2] : k \in ak} <=> Entries(path, "ApiHandler") # {}
  <2>1. ASSUME NEW type
        PROVE  path \in {k[2] : k \in OfType(fs, type)} <=> Entries(path, type) # {}
    <3>1. \A k \in OfType(fs, type) : k[2] = path => k = <<<<type>>, path>>
      BY <1>4
    <3>2. <<<<type>>, path>>[2] = path
      OBVIOUS
    <3>3. QED
      BY <1>2, <3>1, <3>2
  <2>2. QED
    BY <2>1 DEF sk, ak
<1>11. \A path : path \in DOMAIN rs <=> IsServed(path)
  <2> TAKE path
  <2>1. DOMAIN BuiltInRoutes = DOMAIN BuiltIn \cup {Slash, BadRequest}
    BY BuiltInParts
  <2>2. path \in DOMAIN rs <=>
          \/ path \in DOMAIN BuiltInRoutes
          \/ path \in {k[2] : k \in sk} \/ path \in {k[2] : k \in ak}
    BY <1>7
  <2>3. QED
    BY <1>10, <2>1, <2>2 DEF IsServed
<1>12. ASSUME NEW l \in DOMAIN rs PROVE rs[l] = Server(l)
  <2>1. CASE l \in DOMAIN BuiltInRoutes
    <3>1. rs[l] = BuiltInRoutes[l]
      BY <1>5, <1>6, <1>7, <2>1 DEF Provided
    <3>2. QED
      BY <2>1, <3>1, BuiltInParts DEF Server
  <2>2. ASSUME NEW type, NEW k \in OfType(fs, type), k[2] = l
        PROVE  fs[k] = Root(l, type)
    <3>1. k = <<<<type>>, l>> /\ k \in DOMAIN fs
      BY <1>4, <2>2
    <3>2. fs[k] = RootOf(cfg, Min(Entries(l, type)))
      BY <1>1, <1>2, <3>1
    <3>3. QED
      BY <3>2 DEF RootOf, Root
  <2>3. CASE l \notin DOMAIN BuiltInRoutes /\ l \in DOMAIN st
    <3>1. PICK k \in sk : k[2] = l
      BY <1>7, <2>3
    <3>2. rs[l] = Factory("StaticHandler", fs[k])
      BY <1>5, <1>6, <2>3, <3>1 DEF Provided
    <3>3. Entries(l, "StaticHandler") # {}
      BY <1>10, <3>1
    <3>4. fs[k] = Root(l, "StaticHandler")
      BY <2>2, <3>1 DEF sk
    <3>5. QED
      BY <2>3, <3>2, <3>3, <3>4, BuiltInParts DEF Server
  <2>4. CASE l \notin DOMAIN st
    <3>1. PICK k \in ak : k[2] = l
      BY <1>7, <2>4
    <3>2. rs[l] = Factory("ApiHandler", fs[k])
      BY <1>6, <2>4, <3>1 DEF Provided
    <3>3. Entries(l, "StaticHandler") = {} /\ l \notin DOMAIN BuiltInRoutes
      BY <1>7, <1>10, <2>4
    <3>4. fs[k] = Root(l, "ApiHandler")
      BY <2>2, <3>1 DEF ak
    <3>5. QED
      BY <3>2, <3>3, <3>4, BuiltInParts DEF Server
  <2>5. QED
    BY <2>1, <2>3, <2>4
<1>13. QED
  BY <1>7, <1>9, <1>11, <1>12

-----------------------------------------------------------------------------
(* What has been validated, extracted and routed stays so. *)

\* No root starts at the root of the disk, in a file that is valid.
LEMMA ValidLines ==
  ASSUME NEW c \in Trees, ValidateRelativePaths(c) = "valid", NEW i \in Lines(c)
  PROVE  IsRelative(c[i].tokens[2]) /\ ~ (Len(c[i].tokens) < 2)
<1> DEFINE holes    == {j \in Locations(c) : ~c[j].block}
                         \cup {j \in Lines(c) : Len(c[j].tokens) < 2}
           absolute == {j \in Lines(c) : Len(c[j].tokens) >= 2 /\ ~IsRelative(c[j].tokens[2])}
<1>1. holes \cup absolute = {}
  <2> HIDE DEF holes, absolute
  <2>1. ValidateRelativePaths(c)
          = IF holes \cup absolute = {} THEN "valid"
            ELSE IF Min(holes \cup absolute) \in absolute THEN "invalid" ELSE Undefined
    BY DEF ValidateRelativePaths, holes, absolute
  <2>2. QED
    BY <2>1 DEF Undefined
<1>2. i \notin holes /\ i \notin absolute
  BY <1>1
<1>3. i \notin {j \in Lines(c) : Len(c[j].tokens) < 2}
  BY <1>2
<1>4. ~ (Len(c[i].tokens) < 2) /\ (Len(c[i].tokens) >= 2 => IsRelative(c[i].tokens[2]))
  BY <1>2, <1>3
<1>5. Len(c[i].tokens) \in Nat
  <2>1. c[i] \in Statements
    BY TreeParts DEF Lines
  <2>2. c[i].tokens \in Seq(Words)
    BY <2>1 DEF Statements
  <2>3. QED
    BY <2>2, LenProperties
<1>6. QED
  BY <1>4, <1>5

Fresh == routes = Empty /\ match.target = <<>> /\ match.path = <<>>

Serving ==
  /\ ValidateRelativePaths(cfg) = "valid" /\ ~ ExtractUndefined(cfg)
  /\ routes = CreateFactoryMap(ExtractFilesystemMap(cfg))

\* The last request was routed and answered with the routes as they are.
Answered ==
  /\ Serving
  /\ \/ match.target \in Targets /\ match.path = LongestPrefixMatching(routes, match.target)
     \/ match.target = <<>> /\ match.path = BadRequest
  /\ match.answer = Handle(routes[match.path], match.path, match.target)

RouteInv ==
  /\ phase \in {"port", "extract", "bind", "routes"} =>
       ValidateRelativePaths(cfg) = "valid"
  /\ phase \in {"bind", "routes"} =>
       ~ ExtractUndefined(cfg) /\ fsmap = ExtractFilesystemMap(cfg)
  /\ phase \in Running => Fresh \/ phase = "listening"
  /\ phase = "listening" => Serving
  /\ Fresh \/ Serving
  /\ (match.target = <<>> /\ match.path = <<>>) \/ Answered

LEMMA RouteInit == Init => RouteInv
BY DEF Init, RouteInv, Fresh, Running

LEMMA EndedNames ==
  /\ \A p \in Ended : p \notin Running /\ p # "listening"
  /\ \A p \in Ended : p \notin {"port", "extract", "bind", "routes"}
  /\ \A p \in {"parse", "validate", "port", "extract", "bind", "routes"} : p \in Running
BY Zenon DEF Ended, Undefined, Running

\* While nothing is routed, and once it has ended.
LEMMA FreshStep ==
  ASSUME Fresh, UNCHANGED <<routes, match>>, phase' \in Ended \cup {"parse", "validate"}
  PROVE  RouteInv'
<1>1. Fresh'
  BY DEF Fresh
<1>2. /\ phase' \notin {"port", "extract", "bind", "routes"}
      /\ phase' # "listening"
  BY EndedNames
<1>3. QED
  BY <1>1, <1>2 DEF RouteInv, Fresh

LEMMA EndStep ==
  ASSUME RouteInv, UNCHANGED <<cfg, routes, match>>, phase' \in Ended
  PROVE  RouteInv'
<1>1. /\ phase' \notin {"port", "extract", "bind", "routes"}
      /\ phase' # "listening" /\ phase' \notin Running
  BY EndedNames
<1>2. /\ Fresh => Fresh'
      /\ Serving => Serving'
      /\ Answered => Answered'
  BY DEF Fresh, Serving, Answered
<1>3. QED
  BY <1>1, <1>2 DEF RouteInv

LEMMA RouteNext ==
  ASSUME RouteInv, [Next]_vars
  PROVE  RouteInv'
<1>1. CASE \/ SkipComment \/ ReadNormal \/ ReadEnd \/ ReadStartBlock \/ ReadEndBlock
           \/ ReadEof \/ ReadError
  <2>1. PICK kind : Take(kind)
    BY Zenon, <1>1 DEF SkipComment, ReadNormal, ReadEnd, ReadStartBlock, ReadEndBlock,
                       ReadEof, ReadError
  <2>2. phase = "parse" /\ UNCHANGED <<routes, match>>
    BY <2>1 DEF Take
  <2>3. phase' \in Ended \cup {"parse", "validate"}
    <3>1. phase' \in {phase, "validate", Undefined}
      BY Zenon, <1>1 DEF SkipComment, ReadNormal, ReadEnd, ReadStartBlock, ReadEndBlock,
                         ReadEof, ReadError, Return, FallOff
    <3>2. QED
      BY <2>2, <3>1, Phases
  <2>4. Fresh
    <3>1. phase \in Running /\ phase # "listening"
      BY <2>2, EndedNames
    <3>2. QED
      BY <3>1 DEF RouteInv
  <2>5. QED
    BY <2>2, <2>3, <2>4, FreshStep
<1>2. CASE \/ OpenFails \/ EmptyPool \/ Signal
  <2>1. UNCHANGED <<cfg, routes, match>> /\ phase' \in Ended
    BY Zenon, <1>2, Phases DEF OpenFails, EmptyPool, Signal, At
  <2>2. QED
    BY <2>1, EndStep
<1>3. CASE Validate
  <2>1. UNCHANGED <<cfg, routes, match>> /\ phase = "validate"
    BY Zenon, <1>3 DEF Validate, At
  <2>2. \/ phase' \in Ended
        \/ phase' = "port" /\ ValidateRelativePaths(cfg) = "valid"
    <3>0. Undefined # "valid"
      BY Zenon DEF Undefined
    <3>1. CASE ValidateRelativePaths(cfg) = Undefined
      <4>1. phase' = Undefined
        BY Zenon, <1>3, <3>0, <3>1 DEF Validate
      <4>2. QED
        BY Phases, <4>1
    <3>2. CASE ValidateRelativePaths(cfg) # Undefined
      BY Zenon, <1>3, <3>2, Phases DEF Validate
    <3>3. QED
      BY <3>1, <3>2
  <2>3. Fresh
    <3>1. phase \in Running /\ phase # "listening"
      BY <2>1, EndedNames
    <3>2. QED
      BY <3>1 DEF RouteInv
  <2>4. CASE phase' \in Ended
    BY <2>1, <2>4, EndStep
  <2>5. CASE phase' = "port" /\ ValidateRelativePaths(cfg) = "valid"
    BY <2>1, <2>3, <2>5 DEF RouteInv, Fresh
  <2>6. QED
    BY <2>2, <2>4, <2>5
<1>4. CASE AskPort \/ Extract \/ Bind
  <2>1. /\ UNCHANGED <<cfg, routes, match>> /\ phase \in {"port", "extract", "bind"}
        /\ \/ phase' \in Ended
           \/ phase' = "extract"
           \/ phase' = "bind" /\ ~ ExtractUndefined(cfg) /\ fsmap' = ExtractFilesystemMap(cfg)
           \/ phase' = "routes" /\ phase = "bind" /\ fsmap' = fsmap
    BY Zenon, <1>4, Phases DEF AskPort, Extract, Bind, At
  <2>2. Fresh /\ ValidateRelativePaths(cfg) = "valid"
    <3>1. phase \in Running /\ phase # "listening"
      BY <2>1, EndedNames
    <3>2. QED
      BY <2>1, <3>1 DEF RouteInv
  <2>3. CASE phase' \in Ended
    BY <2>1, <2>3, EndStep
  <2>4. CASE phase' \in {"extract", "bind", "routes"}
    <3>1. Fresh' /\ (ValidateRelativePaths(cfg) = "valid")' /\ phase' # "listening"
      BY <2>1, <2>2, <2>4 DEF Fresh
    <3>2. phase' \in {"bind", "routes"} =>
            ~ ExtractUndefined(cfg)' /\ fsmap' = ExtractFilesystemMap(cfg)'
      <4>1. phase' \notin Ended
        BY Phases, EndedNames, <2>4
      <4>2. QED
        BY <2>1, <2>4, <4>1 DEF RouteInv
    <3>3. QED
      BY <3>1, <3>2 DEF RouteInv, Fresh
  <2>5. QED
    BY <2>1, <2>3, <2>4
<1>5. CASE MakeRoutes
  <2>1. /\ UNCHANGED <<cfg, match>> /\ phase = "routes" /\ phase' = "listening"
        /\ routes' = CreateFactoryMap(fsmap)
    BY <1>5 DEF MakeRoutes, At
  <2>2. /\ Fresh /\ ValidateRelativePaths(cfg) = "valid" /\ ~ ExtractUndefined(cfg)
        /\ fsmap = ExtractFilesystemMap(cfg)
    BY <2>1, EndedNames DEF RouteInv
  <2>3. Serving' /\ match'.target = <<>> /\ match'.path = <<>>
    BY <2>1, <2>2 DEF Serving, Fresh
  <2>4. QED
    BY <2>1, <2>3 DEF RouteInv
<1>6. CASE (\E t \in Targets : Route(t)) \/ RouteUnparsed
  <2>1. PICK target, path :
          /\ Process(target, path)
          /\ \/ target \in Targets /\ path = LongestPrefixMatching(routes, target)
             \/ target = <<>> /\ path = BadRequest
    BY Zenon, <1>6 DEF Route, RouteUnparsed
  <2>2. /\ UNCHANGED <<cfg, routes>> /\ phase = "listening"
        /\ match' = [target |-> target, path |-> path,
                     answer |-> Handle(routes[path], path, target)]
        /\ phase' = "listening" \/ phase' = "aborted"
    BY Zenon, <2>1 DEF Process, At
  <2>3. Serving /\ Serving'
    BY <2>2 DEF RouteInv, Serving
  <2>4. /\ match'.target = target /\ match'.path = path
        /\ match'.answer = Handle(routes[path], path, target)
    BY <2>2
  <2>5. Answered'
    BY <2>1, <2>2, <2>3, <2>4 DEF Answered
  <2>6. \/ phase' = "listening"
        \/ phase' \notin Running /\ phase' \notin {"port", "extract", "bind", "routes", "listening"}
    BY <2>2, Phases, EndedNames
  <2>7. QED
    BY <2>2, <2>3, <2>5, <2>6 DEF RouteInv
<1>7. CASE UNCHANGED vars
  BY <1>7 DEF vars, RouteInv, Fresh, Serving, Answered
<1>8. QED
  BY Zenon, <1>1, <1>2, <1>3, <1>4, <1>5, <1>6, <1>7 DEF Next, Stop

LEMMA RouteInvariant == Spec => []RouteInv
BY RouteInit, RouteNext, PTL DEF Spec

-----------------------------------------------------------------------------
(* What is routed. *)

LEMMA EntriesAre ==
  ASSUME cfg \in Trees, NEW path, NEW type, Entries(path, type) # {}
  PROVE  /\ Min(Entries(path, type)) \in Lines(cfg)
         /\ Min(Entries(path, type)) \in Entries(path, type)
<1>1. Entries(path, type) \subseteq Lines(cfg) /\ Lines(cfg) \subseteq Nat
  BY TreeParts DEF Entries, Lines
<1>2. QED
  BY <1>1, Least

\* Whatever the file, no handler is given a root that starts at the root of the
\* disk: validate_relative_paths sees every line that extract_filesystem_map
\* takes one from.
THEOREM RootsRelative == Spec => []RootsAreRelative
<1>1. Inv /\ RouteInv => RootsAreRelative
  <2> SUFFICES ASSUME Inv, RouteInv, NEW l \in DOMAIN routes
               PROVE  routes[l].root = <<>> \/ routes[l].root[1] # "/"
    BY DEF RootsAreRelative
  <2>1. cfg \in Trees
    BY DEF Inv, Parsing
  <2>2. Serving
    <3>1. ~ Fresh
      BY DEF Fresh, Empty
    <3>2. QED
      BY <3>1 DEF RouteInv
  <2>3. routes[l] = Server(l) /\ IsServed(l)
    BY <2>1, <2>2, RoutesMade DEF Serving
  <2>4. \/ routes[l].root = <<>>
        \/ \E type : Entries(l, type) # {} /\ routes[l].root = Root(l, type)
    BY <2>3 DEF Server, IsServed, Factory
  <2>5. ASSUME NEW type, Entries(l, type) # {}
        PROVE  IsRelative(cfg[Min(Entries(l, type))].tokens[2])
    <3>1. Min(Entries(l, type)) \in Lines(cfg)
      BY <2>1, <2>5, EntriesAre
    <3>2. ValidateRelativePaths(cfg) = "valid"
      BY <2>2 DEF Serving
    <3> HIDE DEF Serving
    <3>3. QED
      BY <2>1, <3>1, <3>2, ValidLines
  <2>6. QED
    BY <2>4, <2>5 DEF IsRelative, Root
<1>2. QED
  BY <1>1, Invariant, RouteInvariant, PTL

LEMMA TargetTexts == Targets \subseteq Seq(Chunks)
<1>1. Targets \subseteq Seq(STRING)
  BY Zenon, FilesAssumption
<1>2. QED
  BY Zenon, <1>1, ChunkTexts

\* A request was answered on a path that is routed: the longest that its target
\* begins with, or the one for what begins with none, or for no request at all.
LEMMA Matched ==
  ASSUME cfg \in Trees, Answered
  PROVE  /\ match.path \in DOMAIN routes /\ match.path \in Seq(Chunks)
         /\ routes[match.path] = Server(match.path)
         /\ match.answer = Handle(Server(match.path), match.path, match.target)
         /\ \/ match.target = <<>> /\ match.path = BadRequest
            \/ /\ match.target \in Seq(Chunks) /\ match.path = Slash
               /\ \A m \in 1..Len(match.target) : ~ IsServed(SubSeq(match.target, 1, m))
            \/ /\ match.target \in Seq(Chunks)
               /\ \E k \in 1..Len(match.target) :
                    /\ match.path = SubSeq(match.target, 1, k) /\ Len(match.path) = k
                    /\ \A m \in 1..Len(match.target) :
                         IsServed(SubSeq(match.target, 1, m)) => m <= k
<1> DEFINE t == match.target
           path == match.path
<1>1. /\ IsFiniteSet(DOMAIN routes) /\ DOMAIN routes \subseteq Seq(Chunks)
      /\ \A l \in DOMAIN routes : Len(l) > 0 /\ routes[l] = Server(l)
      /\ \A l : l \in DOMAIN routes <=> IsServed(l)
  BY RoutesMade DEF Answered, Serving
<1>2. match.answer = Handle(routes[path], path, t)
  BY DEF Answered
<1>3. IsServed(Slash) /\ IsServed(BadRequest)
  BY DEF IsServed
<1>4. CASE t = <<>> /\ path = BadRequest
  BY <1>1, <1>2, <1>3, <1>4
<1>5. CASE t \in Targets /\ path = LongestPrefixMatching(routes, t)
  <2>1. t \in Seq(Chunks) /\ Len(t) \in Nat
    <3>1. t \in Seq(Chunks)
      BY <1>5, TargetTexts
    <3>2. QED
      BY <3>1, LenProperties
  <2>2. PICK b : path = b.path /\ Best(DOMAIN routes, t, b)
    BY <1>1, <1>5, LongestMatched
  <2> HIDE DEF t, path
  <2>3. \A m \in 1..Len(t) : /\ Len(SubSeq(t, 1, m)) = m
                             /\ IsPrefix(SubSeq(t, 1, m), t)
    <3>1. ASSUME NEW m \in 1..Len(t) 
          PROVE  Len(SubSeq(t, 1, m)) = m /\ SubSeq(SubSeq(t, 1, m), 1, m) = SubSeq(t, 1, m)
      <4>1. \A i \in 1..m : t[i] \in Chunks
        BY <2>1, ElementOfSeq
      <4>2. SubSeq(t, 1, m) \in Seq(Chunks) /\ Len(SubSeq(t, 1, m)) = m
        BY <2>1, <4>1, SubSeqProperties
      <4>3. QED
        BY <4>2, SubSeqFull
    <3>2. QED
      BY <2>1, <3>1 DEF IsPrefix
  <2>4. CASE b.path = Slash /\ \A r \in DOMAIN routes : IsPrefix(r, t) => Len(r) = 0
    <3>1. \A m \in 1..Len(t) : ~ IsServed(SubSeq(t, 1, m))
      BY <1>1, <2>3, <2>4
    <3>2. QED
      BY <1>1, <1>2, <1>3, <2>1, <2>2, <2>4, <3>1 DEF t, path
  <2>5. CASE /\ b.path \in DOMAIN routes /\ IsPrefix(b.path, t) /\ b.size = Len(b.path)
             /\ \A r \in DOMAIN routes : IsPrefix(r, t) => Len(r) <= b.size
    <3> DEFINE k == Len(path)
    <3>1. path \in Seq(Chunks) /\ k \in Nat /\ k > 0 /\ k <= Len(t)
      BY <1>1, <2>2, <2>5, LenProperties DEF IsPrefix
    <3>2. path = SubSeq(t, 1, k)
      BY <2>2, <2>5, <3>1, SubSeqFull DEF IsPrefix
    <3>3. \A m \in 1..Len(t) : IsServed(SubSeq(t, 1, m)) => m <= k
      BY <1>1, <2>2, <2>3, <2>5
    <3>4. k \in 1..Len(t)
      BY <2>1, <3>1
    <3>5. QED
      BY <1>1, <1>2, <2>1, <2>2, <2>5, <3>1, <3>2, <3>3, <3>4 DEF t, path
  <2>6. QED
    BY <2>2, <2>4, <2>5 DEF Best
<1>6. QED
  BY <1>4, <1>5 DEF Answered

\* Whatever the file and the target, a request is answered by the handler that
\* the file has for the longest location its target begins with.
THEOREM RoutedRight == Spec => []RoutedAsConfigured
<1>1. Inv /\ RouteInv => RoutedAsConfigured
  <2> SUFFICES ASSUME Inv, RouteInv, phase = "listening", match.target # <<>>
               PROVE  RoutedAsConfigured
    BY DEF RoutedAsConfigured
  <2> DEFINE t == match.target
             S == {m \in 1..Len(t) : IsServed(SubSeq(t, 1, m))}
             n == Max({0} \cup S)
  <2>1. cfg \in Trees /\ Answered
    BY DEF Inv, Parsing, RouteInv
  <2>2. t \in Seq(Chunks) /\ Len(t) \in Nat
    BY <2>1, Matched, LenProperties
  <2>3. n \in {0} \cup S /\ \A y \in {0} \cup S : y <= n
    <3>1. {0} \cup S \subseteq 0..Len(t) /\ {0} \cup S # {}
      BY <2>2
    <3> HIDE DEF S
    <3>2. QED
      BY <2>2, <3>1, Greatest
  <2> HIDE DEF n
  <2>4. match.path = IF n = 0 THEN Slash ELSE SubSeq(t, 1, n)
    <3>1. CASE match.path = Slash /\ S = {}
      BY <2>3, <3>1
    <3>2. CASE \E k \in S : match.path = SubSeq(t, 1, k) /\ \A m \in S : m <= k
      <4>1. PICK k \in S : match.path = SubSeq(t, 1, k) /\ \A m \in S : m <= k
        BY <3>2
      <4>2. k \in Nat /\ k > 0
        BY <2>2
      <4>3. k <= n /\ (n # 0 => n \in S) 
        BY <2>3
      <4>4. n = k
        <5> n # 0 /\ n \in 1..Len(t)
          BY <2>2, <2>3, <4>2, <4>3
        <5> QED BY <2>2, <4>1, <4>2, <4>3
      <4>5. QED
        BY <4>1, <4>2, <4>4
    <3>3. QED
      <4>1. t # <<>>
        OBVIOUS
      <4>2. \/ match.path = Slash /\ \A m \in 1..Len(t) : ~ IsServed(SubSeq(t, 1, m))
            \/ \E k \in 1..Len(t) :
                 /\ match.path = SubSeq(t, 1, k) /\ Len(match.path) = k
                 /\ \A m \in 1..Len(t) : IsServed(SubSeq(t, 1, m)) => m <= k
        BY <2>1, <4>1, Matched
      <4>3. ASSUME NEW k \in 1..Len(t), match.path = SubSeq(t, 1, k), Len(match.path) = k,
                   \A m \in 1..Len(t) : IsServed(SubSeq(t, 1, m)) => m <= k
            PROVE  k \in S
        <5>1. IsServed(match.path)
          <6>1. match.path \in DOMAIN routes
            BY <2>1, Matched
          <6>2. QED
            BY <2>1, <6>1, RoutesMade DEF Answered, Serving
        <5>2. QED
          BY <4>3, <5>1
      <4>4. QED
        BY <3>1, <3>2, <4>2, <4>3
  <2>5. routes[match.path] = Server(match.path)
    BY <2>1, Matched
  <2>6. QED
    BY <2>4, <2>5 DEF RoutedAsConfigured, n
<1>2. QED
  BY <1>1, Invariant, RouteInvariant, PTL

-----------------------------------------------------------------------------
(* The parts of a text. *)

\* Without an element, piece by piece (LeavingAppend, LeavingConcat).
LEMMA WithoutAppend ==
  ASSUME NEW E, NEW s \in Seq(E), NEW y \in E, NEW x
  PROVE  /\ Without(<<>>, x) = <<>>
         /\ Without(s, x) \in Seq(E)
         /\ Without(Append(s, y), x)
              = IF y = x THEN Without(s, x) ELSE Append(Without(s, x), y)
<1> DEFINE X == {x}
<1>1. y \in X <=> y = x
  OBVIOUS
<1> HIDE DEF X
<1>2. /\ Leaving(<<>>, X) = <<>> /\ Leaving(s, X) \in Seq(E)
      /\ Leaving(Append(s, y), X)
           = IF y \in X THEN Leaving(s, X) ELSE Append(Leaving(s, X), y)
  BY LeavingAppend
<1>3. QED
  BY <1>1, <1>2 DEF Without, X

LEMMA WithoutConcat ==
  ASSUME NEW E, NEW a \in Seq(E), NEW b \in Seq(E), NEW x
  PROVE  Without(a \o b, x) = Without(a, x) \o Without(b, x)
<1> DEFINE X == {x}
<1> HIDE DEF X
<1>1. Leaving(a \o b, X) = Leaving(a, X) \o Leaving(b, X)
  BY LeavingConcat
<1>2. QED
  BY <1>1 DEF Without, X

\* The parts of a text with the empty ones, of which the last is the one that
\* goes on.
ReadPart(parts, c) ==
  IF c = "/" THEN Append(parts, <<>>)
  ELSE Append(Front(parts), Append(Last(parts), c))

PartsFold(s, p) ==
  p = [S \in SUBSET DOMAIN s |->
         IF S = {} THEN << <<>> >> ELSE ReadPart(p[S \ {Max(S)}], s[Max(S)])]

AllParts(s) == (CHOOSE p : PartsFold(s, p))[DOMAIN s]

LEMMA SplitIs ==
  ASSUME NEW s
  PROVE  Split(s) = Without(AllParts(s), <<>>)
BY DEF Split, FoldLeft, MapThenFoldSet, AllParts, PartsFold, ReadPart

PartLists(E) == {a \in Seq(Seq(E)) : a # <<>>}

LEMMA ReadPartType ==
  ASSUME NEW E, NEW a \in PartLists(E), NEW c \in E
  PROVE  ReadPart(a, c) \in PartLists(E)
<1>1. a \in Seq(Seq(E)) /\ a # <<>>
  BY DEF PartLists
<1>2. Front(a) \in Seq(Seq(E)) /\ Last(a) \in Seq(E)
  BY <1>1, FrontAndLast
<1>3. Append(Last(a), c) \in Seq(E) /\ <<>> \in Seq(E)
  BY <1>2, AppendProperties
<1>4. ASSUME NEW F, NEW u \in Seq(F), NEW y \in F
      PROVE  Append(u, y) \in Seq(F) /\ Append(u, y) # <<>>
  BY AppendProperties
<1>5. /\ Append(a, <<>>) \in Seq(Seq(E)) /\ Append(a, <<>>) # <<>>
      /\ Append(Front(a), Append(Last(a), c)) \in Seq(Seq(E))
      /\ Append(Front(a), Append(Last(a), c)) # <<>>
  BY <1>1, <1>2, <1>3, <1>4
<1>6. QED
  BY <1>5 DEF ReadPart, PartLists

LEMMA PartsAppend ==
  ASSUME NEW E, NEW s \in Seq(E), NEW y \in E
  PROVE  /\ AllParts(<<>>) = << <<>> >>
         /\ AllParts(s) \in PartLists(E)
         /\ AllParts(Append(s, y)) = ReadPart(AllParts(s), y)
<1> DEFINE A == PartLists(E)
           g == [a \in A \X E |-> ReadPart(a[1], a[2])]
           one == << <<>> >>
<1>1. \A a \in A : \A z \in E : g[<<a, z>>] = ReadPart(a, z)
  <2> HIDE DEF A
  <2> QED OBVIOUS
<1>2. g \in [A \X E -> A]
  <2>1. \A a \in A : \A z \in E : ReadPart(a, z) \in A
    BY ReadPartType
  <2>2. \A a \in A \X E : a[1] \in A /\ a[2] \in E
    OBVIOUS
  <2> HIDE DEF A
  <2>3. \A a \in A \X E : ReadPart(a[1], a[2]) \in A
    BY <2>1, <2>2
  <2>4. QED
    BY <2>3
<1>3. one \in A
  <2>1. <<>> \in Seq(E)
    OBVIOUS
  <2>2. QED
    BY <2>1 DEF PartLists
<1> HIDE DEF A, g, one
<1>4. ASSUME NEW t \in Seq(E)
      PROVE  \E p : AllParts(t) = p[DOMAIN t] /\ Along(t, A, one, g, p)
  <2>1. \A S \in SUBSET DOMAIN t : S # {} => t[Max(S)] \in E
    <3>1. Len(t) \in Nat /\ DOMAIN t = 1..Len(t) /\ \A i \in DOMAIN t : t[i] \in E
      BY LenProperties, ElementOfSeq
    <3>2. \A S \in SUBSET DOMAIN t : S \subseteq 0..Len(t)
      BY <3>1
    <3>3. \A S \in SUBSET DOMAIN t : S # {} => Max(S) \in S
      BY <3>1, <3>2, Greatest
    <3>4. QED
      BY <3>1, <3>3
  <2>2. PICK p \in [SUBSET DOMAIN t -> A] : FoldedAlong(t, one, g, p)
    BY <1>2, <1>3, AlongExists
  <2>3. [S \in SUBSET DOMAIN t |->
           IF S = {} THEN one ELSE g[<<p[S \ {Max(S)}], t[Max(S)]>>]]
          = [S \in SUBSET DOMAIN t |->
               IF S = {} THEN one ELSE ReadPart(p[S \ {Max(S)}], t[Max(S)])]
    BY <1>1, <2>1, <2>2
  <2>4. PartsFold(t, p)
    BY <2>2, <2>3 DEF FoldedAlong, PartsFold, one
  <2>5. PICK q : PartsFold(t, q) /\ AllParts(t) = q[DOMAIN t]
    BY <2>4 DEF AllParts
  <2>6. /\ q[{}] = one
        /\ \A S \in SUBSET DOMAIN t : S # {} => q[S] = ReadPart(q[S \ {Max(S)}], t[Max(S)])
    BY <2>5 DEF PartsFold, one
  <2>7. ASSUME NEW S \in SUBSET DOMAIN t, S # {}, q[S \ {Max(S)}] \in A
        PROVE  q[S] = g[<<q[S \ {Max(S)}], t[Max(S)]>>]
    <3> DEFINE a == q[S \ {Max(S)}]
               z == t[Max(S)]
    <3>1. q[S] = ReadPart(a, z) /\ a \in A /\ z \in E
      BY <2>1, <2>6, <2>7
    <3> HIDE DEF a, z
    <3>2. q[S] = g[<<a, z>>]
      BY <1>1, <3>1
    <3>3. QED
      BY <3>2 DEF a, z
  <2>8. Along(t, A, one, g, q)
    BY <2>6, <2>7 DEF Along
  <2>9. QED
    BY <2>5, <2>8
<1>5. Append(s, y) \in Seq(E)
  BY AppendProperties
<1>6. PICK q : AllParts(s) = q[DOMAIN s] /\ Along(s, A, one, g, q)
  BY <1>4
<1>7. PICK p : /\ AllParts(Append(s, y)) = p[DOMAIN Append(s, y)]
               /\ Along(Append(s, y), A, one, g, p)
  BY <1>4, <1>5
<1>8. PICK z : AllParts(<<>>) = z[{}] /\ Along(<<>>, A, one, g, z)
  <2>1. <<>> \in Seq(E) /\ DOMAIN <<>> = {}
    OBVIOUS
  <2>2. QED
    BY <1>4, <2>1
<1>9. q[DOMAIN s] \in A /\ p[DOMAIN Append(s, y)] = g[<<q[DOMAIN s], y>>]
  <2> DEFINE t == Append(s, y)
  <2>1. one \in A /\ Along(s, A, one, g, q) /\ t = Append(s, y) /\ Along(t, A, one, g, p)
    BY <1>3, <1>6, <1>7
  <2> HIDE DEF t
  <2>2. q[DOMAIN s] \in A /\ Adds(g, q[DOMAIN s], y, p[DOMAIN t])
    BY <1>2, <2>1, AlongAppend
  <2>3. QED
    BY <2>2 DEF t, Adds
<1>10. AllParts(s) \in A /\ AllParts(Append(s, y)) = g[<<AllParts(s), y>>]
  BY <1>6, <1>7, <1>9
<1>11. AllParts(<<>>) = one
  BY <1>8 DEF Along
<1>12. AllParts(Append(s, y)) = ReadPart(AllParts(s), y)
  BY <1>1, <1>10
<1>13. QED
  BY <1>10, <1>11, <1>12 DEF A, one

\* A slash parts a text in two.
LEMMA PartsConcat ==
  ASSUME NEW E, "/" \in E, NEW a \in Seq(E), NEW b \in Seq(E)
  PROVE  AllParts(Append(a, "/") \o b) = AllParts(a) \o AllParts(b)
<1> DEFINE h == Append(a, "/")
           T == {c \in Seq(E) : AllParts(h \o c) = AllParts(a) \o AllParts(c)}
           P == AllParts(a)
<1>1. /\ AllParts(<<>>) = << <<>> >>
      /\ \A s \in Seq(E) : /\ AllParts(s) \in PartLists(E)
                           /\ \A y \in E : AllParts(Append(s, y)) = ReadPart(AllParts(s), y)
  BY PartsAppend
<1>2. P \in Seq(Seq(E)) /\ h \in Seq(E) /\ AllParts(h) = ReadPart(P, "/")
  <2>1. P \in Seq(Seq(E)) /\ AllParts(h) = ReadPart(P, "/")
    BY <1>1 DEF PartLists
  <2>2. h \in Seq(E)
    BY AppendProperties
  <2>3. QED
    BY <2>1, <2>2
<1> HIDE DEF P, h
<1>3. <<>> \in T
  <2>1. h \o <<>> = h /\ <<>> \in Seq(E)
    BY <1>2, ConcatEmptySeq
  <2>2. AllParts(h) = P \o << <<>> >>
    <3> DEFINE none == <<>>
    <3>1. none \in Seq(E)
      OBVIOUS
    <3>2. AllParts(h) = Append(P, none)
      BY <1>2 DEF ReadPart
    <3> HIDE DEF none
    <3>3. Append(P, none) = P \o <<none>>
      BY <1>2, <3>1, AppendIsConcat
    <3>4. QED
      BY <3>2, <3>3 DEF none
  <2>3. QED
    BY <1>1, <2>1, <2>2 DEF P
<1>4. ASSUME NEW c \in Seq(E), NEW y \in E, c \in T PROVE Append(c, y) \in T
  <2> DEFINE Q == AllParts(c)
             u == h \o c
  <2>1. Q \in Seq(Seq(E)) /\ Q # <<>> /\ AllParts(Append(c, y)) = ReadPart(Q, y)
    BY <1>1 DEF PartLists
  <2>2. u \in Seq(E) /\ h \o Append(c, y) = Append(u, y) /\ Append(c, y) \in Seq(E)
    <3>1. u \in Seq(E)
      BY <1>2, ConcatProperties
    <3>2. h \o Append(c, y) = Append(u, y)
      BY <1>2, ConcatAppend
    <3>3. Append(c, y) \in Seq(E)
      BY AppendProperties
    <3>4. QED
      BY <3>1, <3>2, <3>3
  <2>3. AllParts(u) = P \o Q
    BY <1>4 DEF P
  <2>4. AllParts(Append(u, y)) = ReadPart(P \o Q, y)
    <3> HIDE DEF u, Q
    <3> QED BY <1>1, <2>2, <2>3
  <2> HIDE DEF u, Q
  <2>5. /\ P \o Q # <<>> /\ Front(P \o Q) = P \o Front(Q) /\ Last(P \o Q) = Last(Q)
        /\ Front(Q) \in Seq(Seq(E)) /\ Last(Q) \in Seq(E)
    <3>1. /\ Front(Q) \in Seq(Seq(E)) /\ Last(Q) \in Seq(E)
          /\ \A g \in Seq(Seq(E)) :
               g \o Q # <<>> /\ Front(g \o Q) = g \o Front(Q) /\ Last(g \o Q) = Last(Q)
      <4> DEFINE F == Seq(E)
      <4>1. Q \in Seq(F)
        BY <2>1
      <4> HIDE DEF F
      <4>2. /\ Front(Q) \in Seq(F) /\ Last(Q) \in F
            /\ \A g \in Seq(F) :
                 g \o Q # <<>> /\ Front(g \o Q) = g \o Front(Q) /\ Last(g \o Q) = Last(Q)
        BY <2>1, <4>1, FrontAndLast
      <4>3. QED
        BY <4>2 DEF F
    <3>2. QED
      BY <1>2, <3>1
  <2>6. ReadPart(P \o Q, y) = P \o ReadPart(Q, y)
    <3>1. \A w \in Seq(Seq(E)) : \A z \in Seq(E) : P \o Append(w, z) = Append(P \o w, z)
      <4> DEFINE F == Seq(E)
      <4>1. P \in Seq(F)
        BY <1>2
      <4> HIDE DEF F
      <4>2. \A w \in Seq(F) : \A z \in F : P \o Append(w, z) = Append(P \o w, z)
        BY <4>1, ConcatAppend
      <4>3. QED
        BY <4>2 DEF F
    <3>2. CASE y = "/"
      <4> DEFINE none == <<>>
      <4>1. none \in Seq(E)
        OBVIOUS
      <4>2. ReadPart(P \o Q, y) = Append(P \o Q, none) /\ ReadPart(Q, y) = Append(Q, none)
        BY <3>2 DEF ReadPart
      <4> HIDE DEF none
      <4>3. QED
        BY <1>2, <2>1, <3>1, <4>1, <4>2
    <3>3. CASE y # "/"
      <4> DEFINE z == Append(Last(Q), y)
      <4>1. z \in Seq(E)
        BY <2>5, AppendProperties
      <4>2. ReadPart(P \o Q, y) = Append(P \o Front(Q), z) /\ ReadPart(Q, y) = Append(Front(Q), z)
        BY <2>5, <3>3 DEF ReadPart
      <4> HIDE DEF z
      <4>3. QED
        BY <1>2, <2>5, <3>1, <4>1, <4>2
    <3>4. QED
      BY <3>2, <3>3
  <2>7. AllParts(h \o Append(c, y)) = P \o AllParts(Append(c, y))
    BY <2>1, <2>2, <2>4, <2>6
  <2>8. QED
    BY <2>2, <2>7 DEF P
<1>5. Seq(E) \subseteq T
  <2> HIDE DEF T
  <2> QED BY <1>3, <1>4, Appending
<1>6. QED
  BY <1>5 DEF h

LEMMA SplitConcat ==
  ASSUME NEW a \in Seq(Chunks), NEW b \in Seq(Chunks)
  PROVE  Split(Append(a, "/") \o b) = Split(a) \o Split(b)
<1>1. "/" \in Chunks
  BY Zenon DEF Chunks
<1>2. AllParts(a) \in Seq(Seq(Chunks)) /\ AllParts(b) \in Seq(Seq(Chunks))
  BY <1>1, PartsAppend DEF PartLists
<1>3. AllParts(Append(a, "/") \o b) = AllParts(a) \o AllParts(b)
  BY <1>1, PartsConcat
<1> DEFINE none == <<>>
           P == AllParts(a)
           Q == AllParts(b)
           t == Append(a, "/") \o b
<1>4. Split(t) = Without(P \o Q, none) /\ Split(a) = Without(P, none) /\ Split(b) = Without(Q, none)
  BY <1>3, SplitIs
<1>5. P \in Seq(Seq(Chunks)) /\ Q \in Seq(Seq(Chunks))
  BY <1>2
<1> HIDE DEF none, P, Q, t
<1>6. Without(P \o Q, none) = Without(P, none) \o Without(Q, none)
  BY <1>5, WithoutConcat
<1>7. QED
  BY <1>4, <1>6 DEF t

\* What does not end with a slash has a last part.
LEMMA SplitType ==
  ASSUME NEW a \in Seq(Chunks), NEW c \in Chunks
  PROVE  /\ Split(<<>>) = <<>>
         /\ Split(a) \in Seq(Seq(Chunks))
         /\ c # "/" => Split(Append(a, c)) # <<>> /\ Split(<<c>>) = << <<c>> >>
<1> DEFINE E == Chunks
           none == <<>>
           one == << <<>> >>
           P == AllParts(a)
<1>1. none \in Seq(E) /\ <<c>> \in Seq(E) /\ <<c>> # none
  OBVIOUS
<1>2. /\ AllParts(none) = one /\ P \in Seq(Seq(E)) /\ P # <<>>
      /\ AllParts(Append(a, c)) = ReadPart(P, c) 
      /\ AllParts(<<c>>) = ReadPart(one, c)
  <2>1. /\ AllParts(none) = one /\ P \in Seq(Seq(E)) /\ P # <<>>
        /\ AllParts(Append(a, c)) = ReadPart(P, c) 
    BY PartsAppend DEF PartLists
  <2>2. AllParts(Append(none, c)) = ReadPart(AllParts(none), c)
    <3>1. \A s \in Seq(E) : AllParts(Append(s, c)) = ReadPart(AllParts(s), c)
      BY PartsAppend
    <3> HIDE DEF none, E
    <3>2. QED
      BY <1>1, <3>1
  <2>3. Append(none, c) = <<c>>
    OBVIOUS
  <2>4. QED
    BY <2>1, <2>2, <2>3
<1> HIDE DEF P
<1>3. \A u \in Seq(Seq(E)) : /\ Without(u, none) \in Seq(Seq(E))
                             /\ Without(none, none) = none
                             /\ \A y \in Seq(E) : y # none =>
                                  Without(Append(u, y), none) = Append(Without(u, none), y)
  <2> HIDE DEF none, E
  <2>1. <<>> = none
    BY DEF none
  <2>2. \A F : \A u \in Seq(F) : \A y \in F :
          /\ Without(<<>>, none) = <<>> /\ Without(u, none) \in Seq(F)
          /\ Without(Append(u, y), none)
               = IF y = none THEN Without(u, none) ELSE Append(Without(u, none), y)
    BY WithoutAppend
  <2>3. QED
    BY <1>1, <2>1, <2>2
<1>4. Split(a) \in Seq(Seq(E))
  BY <1>2, <1>3, SplitIs DEF P
<1>5. Split(<<>>) = <<>>
  <2>1. one = Append(none, none) /\ none \in Seq(Seq(E))
    OBVIOUS
  <2>2. \A F : \A u \in Seq(F) : \A y \in F :
          Without(Append(u, y), y) = Without(u, y)
    BY WithoutAppend
  <2>3. Split(none) = Without(one, none)
    BY <1>2, SplitIs
  <2> HIDE DEF none, one, E
  <2>4. Without(Append(none, none), none) = none
    BY <1>1, <1>3, <2>1, <2>2
  <2>5. QED
    BY <2>1, <2>3, <2>4 DEF none
<1>6. ASSUME c # "/" PROVE Split(Append(a, c)) # <<>>
  <2> DEFINE u == Front(P)
             y == Append(Last(P), c)
  <2>1. u \in Seq(Seq(E)) /\ Last(P) \in Seq(E)
    BY <1>2, FrontAndLast
  <2>2. y \in Seq(E) /\ y # none
    BY <2>1, AppendProperties
  <2>3. AllParts(Append(a, c)) = Append(u, y)
    BY <1>2, <1>6 DEF ReadPart
  <2> HIDE DEF u, y
  <2>4. Split(Append(a, c)) = Without(Append(u, y), none)
    BY <2>3, SplitIs
  <2> HIDE DEF none, E
  <2> DEFINE w == Without(u, none)
  <2>5. Split(Append(a, c)) = Append(w, y) /\ w \in Seq(Seq(E))
    BY <1>3, <2>1, <2>2, <2>4
  <2> HIDE DEF w
  <2>6. Append(w, y) # <<>>
    <3>1. \A F : \A v \in Seq(F) : \A z \in F : Append(v, z) # <<>>
      BY AppendProperties
    <3>2. QED
      BY <2>2, <2>5, <3>1
  <2>7. QED
    BY <2>5, <2>6
<1>7. ASSUME c # "/" PROVE Split(<<c>>) = << <<c>> >>
  <2>1. Front(one) = none /\ Last(one) = none
    <3>1. one \in Seq(Seq(E)) /\ one # <<>> /\ Len(one) = 1 /\ one[1] = none
      OBVIOUS
    <3>2. SubSeq(one, 1, 0) = <<>>
      BY SubSeqEmpty
    <3>3. QED
      BY <3>1, <3>2 DEF Front, Last
  <2>2. Append(none, c) = <<c>> /\ Append(none, <<c>>) = << <<c>> >>
    OBVIOUS
  <2>3. AllParts(<<c>>) = Append(none, <<c>>)
    <3> HIDE DEF none, one
    <3> QED BY <1>2, <1>7, <2>1, <2>2 DEF ReadPart
  <2> DEFINE y == <<c>>
  <2>4. Split(y) = Without(Append(none, y), none) /\ y \in Seq(E) /\ y # none
    BY <1>1, <2>3, SplitIs
  <2>5. none \in Seq(Seq(E))
    OBVIOUS
  <2> HIDE DEF none, y, E
  <2>6. Split(y) = Append(none, y)
    BY <1>3, <2>4, <2>5
  <2>7. QED
    BY <2>2, <2>6 DEF y
<1>8. QED
  BY <1>4, <1>5, <1>6, <1>7

\* The provers do not know that these are strings.
LEMMA Dots == "/" \in Chunks /\ "." \in Chunks /\ ".." \in Chunks /\ "." # "/" /\ ".." # "/"
BY Zenon DEF Chunks

LEMMA LastIs ==
  ASSUME NEW E, NEW a \in Seq(E), NEW b \in Seq(E), NEW y \in E
  PROVE  Last(Append(a, y) \o b) = IF b = <<>> THEN y ELSE Last(b)
<1> DEFINE h == Append(a, y)
<1>1. h \in Seq(E) /\ Len(h) = Len(a) + 1 /\ h[Len(a) + 1] = y
  BY AppendProperties
<1> HIDE DEF h
<1>2. CASE b = <<>>
  BY <1>1, <1>2, ConcatEmptySeq DEF Last, h
<1>3. CASE b # <<>>
  BY <1>1, <1>3, FrontAndLast DEF h
<1>4. QED
  BY <1>2, <1>3

\* How such texts are put together.
Joined(a, b, c, d) ==
  /\ (a \o b) \o d = a \o (b \o d) /\ (c \o b) \o d = c \o (b \o d)
  /\ (a \o b) \o c = a \o (b \o c)
  /\ ((a \o (b \o c)) \o b) \o d = a \o (b \o (c \o (b \o d)))

\* Concatenation is associative.
Regrouped(x, y, z) == (x \o y) \o z = x \o (y \o z)

LEMMA Regroup ==
  ASSUME NEW E
  PROVE  \A x, y, z \in Seq(E) : Regrouped(x, y, z)
<1> SUFFICES ASSUME NEW x \in Seq(E), NEW y \in Seq(E), NEW z \in Seq(E)
             PROVE  (x \o y) \o z = x \o (y \o z)
  BY DEF Regrouped
<1> QED
  BY ONLY ConcatAssociative, x \in Seq(E), y \in Seq(E), z \in Seq(E)

LEMMA Join ==
  ASSUME NEW E, NEW a \in Seq(E), NEW b \in Seq(E), NEW c \in Seq(E), NEW d \in Seq(E)
  PROVE  Joined(a, b, c, d)
<1> DEFINE bc == b \o c
           bd == b \o d
           cbd == c \o bd
           x == a \o bc
<1>1. bc \in Seq(E) /\ bd \in Seq(E)
  BY ConcatProperties
<1>2. x \in Seq(E)
  <2> HIDE DEF bc
  <2> QED BY <1>1, ConcatProperties
<1>3. Regrouped(a, b, d) /\ Regrouped(c, b, d) /\ Regrouped(a, b, c) /\ Regrouped(b, c, bd)
  <2> HIDE DEF bd
  <2> QED BY <1>1, Regroup
<1>4. Regrouped(x, b, d) /\ Regrouped(a, bc, bd)
  <2> HIDE DEF bc, bd, x
  <2> QED BY <1>1, <1>2, Regroup
<1>5. /\ (a \o b) \o d = a \o bd /\ (c \o b) \o d = cbd /\ (a \o b) \o c = x
      /\ bc \o bd = b \o cbd
  BY <1>3 DEF Regrouped
<1>6. (x \o b) \o d = x \o bd /\ x \o bd = a \o (bc \o bd)
  BY <1>4 DEF Regrouped
<1>7. (x \o b) \o d = a \o (b \o cbd)
  <2> HIDE DEF bc, bd, cbd, x
  <2> QED BY <1>5, <1>6
<1>8. QED
  BY <1>5, <1>7 DEF Joined

-----------------------------------------------------------------------------
(* What the system finds at a path. *)

Name   == Seq(Chunks)
Spots == Seq(Name)

LEMMA PlaceTypes ==
  /\ Disk \cup Directories \subseteq Spots /\ WorkDirectory \in Spots
  /\ Nowhere \in Spots /\ Refused \in Spots /\ Dot \in Name /\ DotDot \in Name
  /\ \A at \in Spots : \A name \in Name :
       Append(at, name) \in Spots /\ (at # <<>> => Front(at) \in Spots)
<1>1. Seq(STRING) \subseteq Name
  BY Zenon, ChunkTexts DEF Name
<1>2. ASSUME NEW A, NEW B, A \subseteq B PROVE Seq(A) \subseteq Seq(B)
  BY <1>2, SeqMonotonic
<1>3. Seq(Seq(STRING)) \subseteq Spots
  BY Zenon, <1>1, <1>2 DEF Spots
<1>4. Disk \cup Directories \subseteq Spots /\ WorkDirectory \in Spots
  <2>1. Disk \cup Directories \subseteq Seq(Seq(STRING)) /\ WorkDirectory \in Directories
    BY Zenon, DiskAssumption
  <2>2. QED
    BY Zenon, <1>3, <2>1
<1>5. Dot \in Name /\ DotDot \in Name /\ <<>> \in Name
  BY Dots DEF Dot, DotDot, Name
<1>6. Nowhere \in Spots /\ Refused \in Spots
  BY <1>5 DEF Nowhere, Refused, Spots
<1>7. \A at \in Spots : \A name \in Name :
        Append(at, name) \in Spots /\ (at # <<>> => Front(at) \in Spots)
  BY AppendProperties, FrontAndLast DEF Spots
<1>8. QED
  BY <1>4, <1>5, <1>6, <1>7

LEMMA FurtherType ==
  ASSUME NEW at \in Spots, NEW name \in Name
  PROVE  Further(at, name) \in Spots
<1>1. Further(at, name) \in {Refused, Nowhere, at, Append(at, name)}
        \/ (at # <<>> /\ Further(at, name) = Front(at))
  BY DEF Further
<1>2. QED
  BY <1>1, PlaceTypes

WalkFold(at, s, p) ==
  p = [S \in SUBSET DOMAIN s |->
         IF S = {} THEN at ELSE Further(p[S \ {Max(S)}], s[Max(S)])]

LEMMA WalkIs ==
  ASSUME NEW at, NEW s
  PROVE  Walk(at, s) = (CHOOSE p : WalkFold(at, s, p))[DOMAIN s]
BY DEF Walk, FoldLeft, MapThenFoldSet, WalkFold

LEMMA WalkAppend ==
  ASSUME NEW at \in Spots, NEW s \in Seq(Name), NEW y \in Name
  PROVE  /\ Walk(at, <<>>) = at
         /\ Walk(at, s) \in Spots
         /\ Walk(at, Append(s, y)) = Further(Walk(at, s), y)
<1> DEFINE A == Spots
           E == Name
           g == [a \in A \X E |-> Further(a[1], a[2])]
<1>1. \A a \in A : \A z \in E : g[<<a, z>>] = Further(a, z)
  <2> HIDE DEF A, E
  <2> QED OBVIOUS
<1>2. g \in [A \X E -> A]
  <2>1. \A a \in A : \A z \in E : Further(a, z) \in A
    BY FurtherType
  <2>2. \A a \in A \X E : a[1] \in A /\ a[2] \in E
    OBVIOUS
  <2> HIDE DEF A, E
  <2>3. \A a \in A \X E : Further(a[1], a[2]) \in A
    BY <2>1, <2>2
  <2>4. QED
    BY <2>3
<1>3. at \in A
  OBVIOUS
<1> HIDE DEF A, E, g
<1>4. ASSUME NEW t \in Seq(E)
      PROVE  \E p : Walk(at, t) = p[DOMAIN t] /\ Along(t, A, at, g, p)
  <2>1. \A S \in SUBSET DOMAIN t : S # {} => t[Max(S)] \in E
    <3>1. Len(t) \in Nat /\ DOMAIN t = 1..Len(t) /\ \A i \in DOMAIN t : t[i] \in E
      BY LenProperties, ElementOfSeq
    <3>2. \A S \in SUBSET DOMAIN t : S \subseteq 0..Len(t)
      BY <3>1
    <3>3. \A S \in SUBSET DOMAIN t : S # {} => Max(S) \in S
      BY <3>1, <3>2, Greatest
    <3>4. QED
      BY <3>1, <3>3
  <2>2. PICK p \in [SUBSET DOMAIN t -> A] : FoldedAlong(t, at, g, p)
    BY <1>2, <1>3, AlongExists
  <2>3. [S \in SUBSET DOMAIN t |->
           IF S = {} THEN at ELSE g[<<p[S \ {Max(S)}], t[Max(S)]>>]]
          = [S \in SUBSET DOMAIN t |->
               IF S = {} THEN at ELSE Further(p[S \ {Max(S)}], t[Max(S)])]
    BY <1>1, <2>1, <2>2
  <2>4. WalkFold(at, t, p)
    BY <2>2, <2>3 DEF FoldedAlong, WalkFold
  <2>5. PICK q : WalkFold(at, t, q) /\ Walk(at, t) = q[DOMAIN t]
    BY <2>4, WalkIs
  <2>6. /\ q[{}] = at
        /\ \A S \in SUBSET DOMAIN t : S # {} => q[S] = Further(q[S \ {Max(S)}], t[Max(S)])
    BY <2>5 DEF WalkFold
  <2>7. ASSUME NEW S \in SUBSET DOMAIN t, S # {}, q[S \ {Max(S)}] \in A
        PROVE  q[S] = g[<<q[S \ {Max(S)}], t[Max(S)]>>]
    <3> DEFINE a == q[S \ {Max(S)}]
               z == t[Max(S)]
    <3>1. q[S] = Further(a, z) /\ a \in A /\ z \in E
      BY <2>1, <2>6, <2>7
    <3> HIDE DEF a, z
    <3>2. q[S] = g[<<a, z>>]
      BY <1>1, <3>1
    <3>3. QED
      BY <3>2 DEF a, z
  <2>8. Along(t, A, at, g, q)
    BY <2>6, <2>7 DEF Along
  <2>9. QED
    BY <2>5, <2>8
<1>5. s \in Seq(E) /\ y \in E /\ Append(s, y) \in Seq(E)
  BY AppendProperties DEF E
<1>6. PICK q : Walk(at, s) = q[DOMAIN s] /\ Along(s, A, at, g, q)
  BY <1>4, <1>5
<1>7. PICK p : /\ Walk(at, Append(s, y)) = p[DOMAIN Append(s, y)]
               /\ Along(Append(s, y), A, at, g, p)
  BY <1>4, <1>5
<1>8. PICK z : Walk(at, <<>>) = z[{}] /\ Along(<<>>, A, at, g, z)
  <2>1. <<>> \in Seq(E) /\ DOMAIN <<>> = {}
    OBVIOUS
  <2>2. QED
    BY <1>4, <2>1
<1>9. q[DOMAIN s] \in A /\ p[DOMAIN Append(s, y)] = g[<<q[DOMAIN s], y>>]
  <2> DEFINE t == Append(s, y)
  <2>1. at \in A /\ Along(s, A, at, g, q) /\ t = Append(s, y) /\ Along(t, A, at, g, p)
    BY <1>3, <1>6, <1>7
  <2> HIDE DEF t
  <2>2. q[DOMAIN s] \in A /\ Adds(g, q[DOMAIN s], y, p[DOMAIN t])
    BY <1>2, <1>5, <2>1, AlongAppend
  <2>3. QED
    BY <2>2 DEF t, Adds
<1>10. Walk(at, s) \in A /\ Walk(at, Append(s, y)) = g[<<Walk(at, s), y>>]
  BY <1>6, <1>7, <1>9
<1>11. Walk(at, <<>>) = at
  BY <1>8 DEF Along
<1>12. Walk(at, Append(s, y)) = Further(Walk(at, s), y)
  BY <1>1, <1>5, <1>10
<1>13. QED
  BY <1>10, <1>11, <1>12 DEF A

\* A path is resolved from where its beginning leads.
LEMMA WalkConcat ==
  ASSUME NEW at \in Spots, NEW a \in Seq(Name), NEW b \in Seq(Name)
  PROVE  Walk(at, a \o b) = Walk(Walk(at, a), b) /\ Walk(at, a) \in Spots
<1> DEFINE z == Walk(at, a)
           T == {c \in Seq(Name) : Walk(at, a \o c) = Walk(z, c)}
<1>1. \A x \in Spots : \A u \in Seq(Name) : \A y \in Name :
        /\ Walk(x, <<>>) = x /\ Walk(x, u) \in Spots
        /\ Walk(x, Append(u, y)) = Further(Walk(x, u), y)
  BY WalkAppend
<1>2. z \in Spots
  BY <1>1, PlaceTypes
<1>3. <<>> \in T
  <2>1. a \o <<>> = a /\ <<>> \in Seq(Name)
    BY ConcatEmptySeq
  <2>2. Walk(z, <<>>) = z
    BY <1>1, <1>2, PlaceTypes
  <2>3. QED
    BY <2>1, <2>2
<1> HIDE DEF z
<1>4. ASSUME NEW c \in Seq(Name), NEW y \in Name, c \in T PROVE Append(c, y) \in T
  <2> DEFINE u == a \o c
  <2>1. u \in Seq(Name) /\ a \o Append(c, y) = Append(u, y) /\ Append(c, y) \in Seq(Name)
    <3>1. u \in Seq(Name)
      BY ConcatProperties
    <3>2. a \o Append(c, y) = Append(u, y)
      BY ConcatAppend
    <3>3. Append(c, y) \in Seq(Name)
      BY AppendProperties
    <3>4. QED
      BY <3>1, <3>2, <3>3
  <2>2. Walk(at, u) = Walk(z, c)
    BY <1>4
  <2> HIDE DEF u
  <2>3. Walk(at, Append(u, y)) = Further(Walk(z, c), y) /\ Walk(z, Append(c, y)) = Further(Walk(z, c), y)
    BY <1>1, <1>2, <2>1, <2>2
  <2>4. QED
    BY <2>1, <2>3
<1>5. Seq(Name) \subseteq T
  <2> HIDE DEF T
  <2> QED BY <1>3, <1>4, Appending
<1>6. QED
  BY <1>2, <1>5 DEF z

LEMMA PrefixOfLonger ==
  ASSUME NEW E, NEW a \in Seq(E), NEW s \in Seq(E), NEW y \in E, IsPrefix(a, s)
  PROVE  IsPrefix(a, Append(s, y))
<1> DEFINE t == Append(s, y)
           n == Len(a)
<1>1. /\ Len(t) = Len(s) + 1 /\ Len(s) \in Nat /\ n \in Nat /\ n <= Len(s)
      /\ \A i \in 1..Len(s) : t[i] = s[i]
      /\ SubSeq(a, 1, n) = SubSeq(s, 1, n)
  BY AppendProperties, LenProperties DEF IsPrefix
<1>2. SubSeq(t, 1, n) = SubSeq(s, 1, n)
  <2> HIDE DEF t, n
  <2>1. \A i \in 1..n : t[i] = s[i]
    BY <1>1
  <2>2. CASE n = 0
    BY <2>2, SubSeqEmpty
  <2>3. CASE n # 0
    <3>1. <<y>> \in Seq(E) /\ 1 \in 1..Len(s) /\ n \in 1..Len(s) /\ Append(s, y) = s \o <<y>>
      BY <1>1, <2>3, AppendIsConcat
    <3> DEFINE u == <<y>>
    <3> HIDE DEF u
    <3>2. SubSeq(s \o u, 1, n) = SubSeq(s, 1, n)
      BY <3>1, SubSeqOfConcat1 DEF u
    <3>3. QED
      BY <3>1, <3>2 DEF t, u
  <2>4. QED
    BY <2>2, <2>3
<1>3. QED
  BY <1>1, <1>2 DEF IsPrefix

\* Without ".." a path leads on from where it starts, or to nothing.
LeadsOn(at, to) == to \in {Nowhere, Refused} \/ IsPrefix(at, to)

NoneUp(names) == \A n \in DOMAIN names : names[n] # DotDot

LEMMA WalkBelow ==
  ASSUME NEW at \in Spots, NEW b \in Seq(Name), NoneUp(b)
  PROVE  LeadsOn(at, Walk(at, b))
<1> DEFINE T == {c \in Seq(Name) : NoneUp(c) => LeadsOn(at, Walk(at, c))}
<1>1. <<>> \in T
  <2>1. Walk(at, <<>>) = at
    BY WalkAppend, PlaceTypes
  <2>2. IsPrefix(at, at)
    BY LenProperties DEF IsPrefix, Spots
  <2>3. <<>> \in Seq(Name)
    OBVIOUS
  <2>4. QED
    BY <2>1, <2>2, <2>3 DEF LeadsOn
<1>2. ASSUME NEW c \in Seq(Name), NEW y \in Name, c \in T, NoneUp(Append(c, y))
      PROVE  LeadsOn(at, Walk(at, Append(c, y)))
  <2>1. /\ Len(c) \in Nat /\ DOMAIN c = 1..Len(c)
        /\ DOMAIN Append(c, y) = 1..Len(c) + 1
        /\ \A i \in 1..Len(c) : Append(c, y)[i] = c[i]
        /\ Append(c, y)[Len(c) + 1] = y
    BY AppendProperties, LenProperties
  <2>2. NoneUp(c) /\ y # DotDot
    BY <1>2, <2>1 DEF NoneUp
  <2> DEFINE z == Walk(at, c)
  <2>3. LeadsOn(at, z) /\ z \in Spots /\ Walk(at, Append(c, y)) = Further(z, y)
    BY <1>2, <2>2, WalkAppend
  <2> HIDE DEF z
  <2>4. \/ Further(z, y) \in {Nowhere, Refused}
        \/ z \in Directories /\ Further(z, y) \in {z, Append(z, y)}
    BY <2>2 DEF Further
  <2>5. z \in Directories => IsPrefix(at, z)
    BY <2>3, DiskAssumption DEF LeadsOn
  <2>6. IsPrefix(at, z) => IsPrefix(at, Append(z, y))
    BY <2>3, PrefixOfLonger DEF Spots
  <2>7. QED
    BY <2>3, <2>4, <2>5, <2>6 DEF LeadsOn
<1>3. ASSUME NEW c \in Seq(Name), NEW y \in Name, c \in T PROVE Append(c, y) \in T
  <2>1. Append(c, y) \in Seq(Name)
    BY AppendProperties
  <2>2. QED
    BY <1>2, <1>3, <2>1
<1>4. Seq(Name) \subseteq T
  <2> HIDE DEF T
  <2> QED BY <1>1, <1>3, Appending
<1>5. QED
  BY <1>4

\* The file a static location asks for, if its root is "." or begins with "./".
LEMMA ServedPath ==
  ASSUME NEW root \in Seq(Chunks), root = <<".">> \/ IsPrefix(<<".", "/">>, root),
         NEW rest_ \in Seq(Chunks)
  PROVE  LET path == <<"..", "/">> \o Tail(root \o <<"/">> \o rest_)
         IN /\ Split(path) = << <<"..">> >> \o Tail(Split(root)) \o Split(rest_)
            /\ Last(path) = IF rest_ = <<>> THEN "/" ELSE Last(rest_)
<1> DEFINE E == Chunks
           T == Seq(E)
           U == Seq(T)
           dot == <<".">>
           up == <<"..">>
           none == <<>>
           slash == <<"/">>
           r == rest_
           s(a) == Append(a, "/")
<1>1. /\ dot \in T /\ up \in T /\ none \in T /\ slash \in T /\ r \in T /\ root \in T
      /\ \A a \in T : s(a) = a \o slash /\ s(a) \in T
  BY Dots, AppendIsConcat, AppendProperties
<1>2. /\ Split(dot) = <<dot>> /\ Split(up) = <<up>> /\ Split(none) = none
      /\ \A a \in T : Split(a) \in U
  BY Dots, SplitType
<1>3. <<"..", "/">> = s(up) /\ slash = s(none) /\ dot # none /\ Tail(dot) = none
      /\ Tail(<<dot>>) = none /\ <<dot>> # none /\ <<".", "/">> = s(dot)
  OBVIOUS
<1>4. \A a, b \in T : Split(s(a) \o b) = Split(a) \o Split(b)
  BY SplitConcat
<1>5. /\ \A a, b \in T : a \o b \in T
      /\ \A a, b, c, d \in T : Joined(a, b, c, d)
      /\ \A a \in T : none \o a = a /\ a \o none = a
  <2>1. \A a, b \in T : a \o b \in T
    BY ConcatProperties
  <2>2. \A a, b, c, d \in T : Joined(a, b, c, d)
    BY Join
  <2>3. \A a \in T : none \o a = a /\ a \o none = a
    BY ConcatEmptySeq
  <2>4. QED
    BY <2>1, <2>2, <2>3
<1>6. \A a \in T : Tail(dot \o a) = a
  <2>1. \A a \in T : Tail(dot \o a) = Tail(dot) \o a
    <3> HIDE DEF E, none, dot
    <3>1. dot # <<>>
      BY <1>3 DEF none
    <3>2. QED
      BY <1>1, <3>1, TailConcat
  <2> HIDE DEF T, none, dot
  <2>2. QED
    BY <1>3, <1>5, <2>1
<1>7. /\ \A a \in U : none \o a = a /\ a \o none = a
      /\ \A a, b, c, d \in U : Joined(a, b, c, d)
  <2> HIDE DEF T
  <2>1. \A a \in U : none \o a = a /\ a \o none = a
    BY ConcatEmptySeq
  <2>2. \A a, b, c, d \in U : Joined(a, b, c, d)
    BY Join
  <2>3. QED
    BY <2>1, <2>2
<1>8. \A a \in U : Tail(<<dot>> \o a) = a
  <2> DEFINE one == <<dot>>
  <2>1. one \in U /\ one # <<>> /\ Tail(one) = none
    BY <1>1, <1>3
  <2> HIDE DEF one, T, dot
  <2>2. \A a \in U : Tail(one \o a) = Tail(one) \o a
    BY <2>1, TailConcat
  <2> HIDE DEF U
  <2>3. QED
    BY <1>7, <2>1, <2>2 DEF one
<1>9. \A a, b \in T : Last(s(a) \o b) = (IF b = none THEN "/" ELSE Last(b)) /\ s(a) \o b # none
  <2>1. \A a, b \in T : Last(s(a) \o b) = IF b = none THEN "/" ELSE Last(b)
    BY Dots, LastIs
  <2>2. \A a, b \in T : s(a) \o b # none
    BY <1>1, Dots, AppendProperties, TailConcat
  <2>3. QED
    BY <2>1, <2>2
<1> DEFINE path == <<"..", "/">> \o Tail(root \o slash \o r)
           out == << <<"..">> >> \o Tail(Split(root)) \o Split(r)
           end == IF r = none THEN "/" ELSE Last(r)
           x == slash \o r
<1>10. x \in T /\ x = s(none) \o r
  <2> HIDE DEF T, slash, s, none
  <2> QED BY <1>1, <1>3, <1>5
<1>11. x # none /\ Split(x) = Split(r) /\ Last(x) = end
  <2> HIDE DEF T, U, s, none, x, slash
  <2>1. x # none /\ Last(x) = end
    BY <1>1, <1>9, <1>10
  <2>2. Split(x) = Split(none) \o Split(r) /\ Split(r) \in U
    BY <1>1, <1>2, <1>4, <1>10
  <2>3. QED
    BY <1>2, <1>7, <2>1, <2>2
<1> HIDE DEF x
<1>12. CASE root = dot
  <2>1. path = s(up) \o x
    <3> HIDE DEF T, dot, slash, r, s
    <3>1. (root \o slash) \o r = dot \o x
      <4>1. Joined(dot, slash, dot, r)
        BY <1>1, <1>5
      <4>2. QED
        BY <1>12, <4>1 DEF x, Joined
    <3>2. QED
      BY <1>3, <1>6, <1>10, <3>1
  <2>2. Split(path) = Split(up) \o Split(x) /\ Last(path) = Last(x)
    <3> HIDE DEF T, up, path, s, none
    <3> QED BY <1>1, <1>4, <1>9, <1>10, <1>11, <2>1
  <2>3. out = <<up>> \o Split(r)
    <3>1. Tail(Split(root)) = none
      BY <1>2, <1>3, <1>12
    <3>2. <<up>> \o none = <<up>>
      OBVIOUS
    <3>3. QED
      BY <3>1, <3>2
  <2>4. Split(path) = out /\ Last(path) = end
    <3> HIDE DEF path, out, up, dot, none, slash, T, U, r, s, end
    <3> QED BY <1>2, <1>11, <2>2, <2>3
  <2>5. QED
    BY <2>4
<1>13. CASE IsPrefix(<<".", "/">>, root)
  <2> DEFINE d == SubSeq(root, 3, Len(root))
  <2>1. d \in T /\ root = s(dot) \o d
    <3>1. Len(root) \in Nat /\ 2 <= Len(root) /\ <<".", "/">> = SubSeq(root, 1, 2)
      <4> DEFINE ds == <<".", "/">>
      <4>1. Len(ds) = 2 /\ ds \in T
        BY <1>1, <1>3
      <4>2. SubSeq(ds, 1, Len(ds)) = ds
        BY <4>1, SubSeqFull
      <4> HIDE DEF ds
      <4>3. IsPrefix(ds, root)
        BY <1>13 DEF ds
      <4>4. Len(root) \in Nat /\ 2 <= Len(root) /\ ds = SubSeq(root, 1, 2)
        BY <4>1, <4>2, <4>3, LenProperties DEF IsPrefix
      <4>5. QED
        BY <4>4 DEF ds
    <3>2. SubSeq(root, 1, 2) \o SubSeq(root, 3, Len(root)) = SubSeq(root, 1, Len(root))
      <4>1. 1 \in 1..Len(root) + 1 /\ 2 \in 0..Len(root) /\ Len(root) \in 2..Len(root)
        BY <3>1
      <4>2. QED
        BY <4>1, ConcatAdjacentSubSeq
    <3>3. \A i \in 3..Len(root) : root[i] \in E
      BY ElementOfSeq
    <3>4. d \in T
      BY <3>1, <3>3, SubSeqProperties
    <3>5. QED
      BY <1>3, <3>1, <3>2, <3>4, SubSeqFull
  <2> HIDE DEF d
  <2> DEFINE sd == slash \o d
             y == d \o x
             z == slash \o y
  <2>2. y \in T /\ z \in T /\ sd \in T /\ y = s(d) \o r /\ z = s(none) \o y
    <3> HIDE DEF T, slash, s, none
    <3>1. s(d) = d \o slash /\ y = (d \o slash) \o r
      <4>1. Joined(d, slash, d, r)
        BY <1>1, <1>5, <2>1
      <4>2. QED
        BY <1>1, <2>1, <4>1 DEF x, Joined
    <3>2. QED
      BY <1>1, <1>3, <1>5, <1>10, <2>1, <3>1
  <2>3. path = s(up) \o z
    <3> HIDE DEF T, slash, s, none, dot, r
    <3>1. Joined(dot, slash, d, r)
      BY <1>1, <1>5, <2>1
    <3>2. root = (dot \o slash) \o d
      BY <1>1, <2>1
    <3>3. (root \o slash) \o r = dot \o z
      BY <3>1, <3>2 DEF Joined, x
    <3> HIDE DEF z
    <3>4. QED
      BY <1>3, <1>6, <2>2, <3>3
  <2> HIDE DEF sd, y, z
  <2>4. /\ Split(path) = Split(up) \o Split(z) /\ Split(z) = Split(none) \o Split(y)
        /\ Split(y) = Split(d) \o Split(r)
        /\ Last(path) = Last(z) /\ Last(z) = Last(y) /\ Last(y) = end
    <3> HIDE DEF T, none, up, path, s
    <3>1. y # none /\ z # none
      BY <1>1, <1>9, <2>1, <2>2
    <3>2. QED
      BY <1>1, <1>4, <1>9, <2>1, <2>2, <2>3, <3>1
  <2>5. Split(z) = Split(d) \o Split(r)
    <3> HIDE DEF T, U, none
    <3>1. Split(y) \in U
      BY <1>2, <2>2
    <3>2. QED
      BY <1>2, <1>7, <2>4, <3>1
  <2>6. Tail(Split(root)) = Split(d)
    <3> HIDE DEF T, U, dot, s
    <3>1. Split(root) = <<dot>> \o Split(d) /\ Split(d) \in U
      <4>1. Split(d) \in U /\ Split(dot) = <<dot>>
        BY <1>2, <2>1
      <4>2. Split(s(dot) \o d) = Split(dot) \o Split(d)
        BY <1>1, <1>4, <2>1
      <4>3. QED
        BY <2>1, <4>1, <4>2
    <3>2. QED
      BY <1>8, <3>1
  <2>7. out = Split(up) \o (Split(d) \o Split(r))
    <3>1. Split(up) \in U /\ Split(d) \in U /\ Split(r) \in U
      <4> HIDE DEF T, U, up, r
      <4> QED BY <1>1, <1>2, <2>1
    <3> HIDE DEF U
    <3>2. (Split(up) \o Split(d)) \o Split(r) = Split(up) \o (Split(d) \o Split(r))
      <4>1. Joined(Split(up), Split(d), Split(d), Split(r))
        BY <1>7, <3>1
      <4>2. QED
        BY <4>1 DEF Joined
    <3>3. QED
      BY <1>2, <2>6, <3>2
  <2>8. Split(path) = out /\ Last(path) = end
    <3> HIDE DEF path, out, up, dot, none, slash, T, U, r, s, end
    <3> QED BY <2>4, <2>5, <2>7
  <2>9. QED
    BY <2>8
<1>14. QED
  BY <1>12, <1>13

-----------------------------------------------------------------------------
(* What the handlers are given. *)

LEMMA LocationEnds ==
  ASSUME cfg \in Trees, ~ ExtractUndefined(cfg), NEW path, NEW type,
         Entries(path, type) # {}
  PROVE  /\ path \in Seq(Chunks) /\ Len(path) \in Nat \ {0} /\ path[Len(path)] = "/"
         /\ Len(path) > 1 => path[Len(path) - 1] # "/"
<1>1. PICK i \in Lines(cfg) :
        HandleTrailingSlashes(cfg[cfg[i].parent].tokens[2].text) = path
  BY DEF Entries
<1> DEFINE t == cfg[cfg[i].parent].tokens[2].text
<1>2. t \in Seq(Chunks)
  BY KeyParts
<1>3. path = HandleTrailingSlashes(t)
  BY <1>1
<1> HIDE DEF t
<1>4. QED
  BY <1>2, <1>3, SlashesOff

\* The target of a request that was matched with a location, and what follows.
LEMMA Follows ==
  ASSUME cfg \in Trees, Answered, match.target # <<>>, match.path # Slash
  PROVE  \E r \in Seq(Chunks) :
           /\ match.path \in Seq(Chunks) /\ match.target = match.path \o r
           /\ r = SubSeq(match.target, Len(match.path) + 1, Len(match.target))
<1> DEFINE t == match.target
<1>1. t \in Seq(Chunks) /\ \E k \in 1..Len(t) : match.path = SubSeq(t, 1, k) /\ Len(match.path) = k
  BY Matched
<1>2. PICK k \in 1..Len(t) : match.path = SubSeq(t, 1, k) /\ Len(match.path) = k
  BY <1>1
<1> HIDE DEF t
<1> DEFINE r == SubSeq(t, k + 1, Len(t))
<1>3. Len(t) \in Nat /\ k \in Nat /\ \A i \in k + 1..Len(t) : t[i] \in Chunks
  BY <1>1, LenProperties, ElementOfSeq
<1>4. r \in Seq(Chunks)
  BY <1>3, SubSeqProperties
<1>5. SubSeq(t, 1, k) \o r = SubSeq(t, 1, Len(t))
  <2>1. 1 \in 1..Len(t) + 1 /\ k \in 0..Len(t) /\ Len(t) \in k..Len(t)
    BY <1>2, <1>3
  <2>2. QED
    BY <1>1, <2>1, ConcatAdjacentSubSeq
<1>6. match.path \o r = t
  BY <1>1, <1>2, <1>5, SubSeqFull
<1>7. match.path \in Seq(Chunks)
  BY Matched
<1>8. QED
  BY <1>2, <1>4, <1>6, <1>7 DEF t

\* An empty target is matched with one of the routes that every server has.
LEMMA EmptyMatch ==
  ASSUME cfg \in Trees, Answered, match.target = <<>>
  PROVE  match.path \in {Slash, BadRequest}
<1> DEFINE t == match.target
<1>1. ~ \E k \in 1..Len(t) : match.path = SubSeq(t, 1, k) /\ Len(match.path) = k
  <2>1. Len(t) = 0
    OBVIOUS
  <2>2. 1..Len(t) = {}
    BY <2>1
  <2> HIDE DEF t
  <2>3. QED
    BY <2>2
<1>2. QED
  BY <1>1, Matched

LEMMA HandlerTypes ==
  ASSUME NEW f, NEW location, NEW target
  PROVE  /\ f.type = "StaticHandler" =>
              Handle(f, location, target) = ServeStatic(location, f.root, target)
         /\ f.type = "ApiHandler" => Handle(f, location, target) = ServeApi(target)
<1>1. ASSUME f.type = "StaticHandler"
      PROVE  Handle(f, location, target) = ServeStatic(location, f.root, target)
  BY Zenon, <1>1 DEF Handle
<1>2. ASSUME f.type = "ApiHandler" PROVE Handle(f, location, target) = ServeApi(target)
  BY Zenon, <1>2 DEF Handle
<1>3. QED
  BY <1>1, <1>2

LEMMA ServerType ==
  ASSUME NEW path
  PROVE  /\ path \in DOMAIN BuiltIn \cup {Slash, BadRequest} =>
              Server(path).type \notin {"StaticHandler", "ApiHandler"}
         /\ path \notin DOMAIN BuiltIn \cup {Slash, BadRequest} =>
              IF Entries(path, "StaticHandler") # {}
              THEN Server(path) = Factory("StaticHandler", Root(path, "StaticHandler"))
              ELSE Server(path) = Factory("ApiHandler", Root(path, "ApiHandler"))
<1>1. ASSUME path \in DOMAIN BuiltIn \cup {Slash, BadRequest}
      PROVE  Server(path).type \notin {"StaticHandler", "ApiHandler"}
  <2>1. /\ path \in DOMAIN BuiltInRoutes
        /\ BuiltInRoutes[path] = Factory(IF path = Slash THEN "error" ELSE path[Len(path)], <<>>)
        /\ BuiltInRoutes[path].type \notin {"ApiHandler", "StaticHandler"}
    BY <1>1, BuiltInParts
  <2>2. Server(path) = BuiltInRoutes[path]
    BY <1>1, <2>1 DEF Server
  <2>3. QED
    BY <2>1, <2>2
<1>2. QED
  BY <1>1 DEF Server

LEMMA SplitTypes ==
  Split(<<>>) = <<>> /\ \A a \in Seq(Chunks) : Split(a) \in Seq(Seq(Chunks))
<1>1. /\ <<>> \in Seq(Chunks) /\ "/" \in Chunks
  BY Dots
<1>2. \A a \in Seq(Chunks) : Split(<<>>) = <<>> /\ Split(a) \in Seq(Seq(Chunks))
  BY <1>1, SplitType
<1>3. QED
  BY <1>1, <1>2

\* Such a root has a part.
LEMMA RootHasParts ==
  ASSUME NEW root \in Seq(Chunks), root = <<".">> \/ IsPrefix(<<".", "/">>, root)
  PROVE  Split(root) # <<>>
<1> DEFINE dot == <<".">>
           s == Append(dot, "/")
           d == SubSeq(root, 3, Len(root))
<1>0. <<".", "/">> = s /\ <<dot>> # <<>>
  OBVIOUS
<1>1. Split(dot) = <<dot>> /\ dot \in Seq(Chunks)
  BY Dots, SplitType
<1>2. CASE root = dot
  BY <1>0, <1>1, <1>2
<1>3. CASE IsPrefix(<<".", "/">>, root)
  <2>1. s = <<".", "/">> /\ Len(s) = 2 /\ s \in Seq(Chunks) /\ SubSeq(s, 1, 2) = s
    <3>1. s = <<".", "/">>
      BY ONLY <1>0
    <3>2. Len(dot) = 1
      OBVIOUS
    <3>3. s \in Seq(Chunks) /\ Len(s) = 2
      BY <1>1, <3>2, Dots, AppendProperties
    <3> HIDE DEF s
    <3>4. SubSeq(s, 1, 2) = s
      BY <3>3, SubSeqFull
    <3>5. QED
      BY <3>1, <3>3, <3>4
  <2> HIDE DEF s
  <2>2. Len(root) \in Nat /\ 2 <= Len(root) /\ s = SubSeq(root, 1, 2)
    <3>1. IsPrefix(s, root)
      BY <1>3, <2>1
    <3>2. QED
      BY <2>1, <3>1, LenProperties DEF IsPrefix
  <2>3. d \in Seq(Chunks)
    <3>1. \A i \in 3..Len(root) : root[i] \in Chunks
      BY ElementOfSeq
    <3>2. QED
      BY <2>2, <3>1, SubSeqProperties
  <2>4. root = s \o d
    <3>1. 1 \in 1..Len(root) + 1 /\ 2 \in 0..Len(root) /\ Len(root) \in 2..Len(root)
      BY <2>2
    <3>2. SubSeq(root, 1, 2) \o SubSeq(root, 3, Len(root)) = SubSeq(root, 1, Len(root))
      BY <3>1, ConcatAdjacentSubSeq
    <3>3. QED
      BY <2>2, <3>2, SubSeqFull
  <2> HIDE DEF d
  <2>5. Split(root) = Split(dot) \o Split(d) /\ Split(d) \in Seq(Seq(Chunks))
    <3>1. Split(s \o d) = Split(dot) \o Split(d)
      BY <1>1, <2>3, SplitConcat DEF s
    <3>2. QED
      BY <2>3, <2>4, <3>1, SplitTypes
  <2> DEFINE one == <<dot>>
  <2>6. one \in Seq(Seq(Chunks)) /\ one # <<>>
    BY <1>1
  <2> HIDE DEF one, dot
  <2>7. one \o Split(d) # <<>>
    BY <2>5, <2>6, TailConcat
  <2>8. QED
    BY <1>1, <2>5, <2>7 DEF one
<1>4. QED
  BY <1>2, <1>3

LEMMA SplitsBehind ==
  ASSUME NEW path \in Seq(Chunks), path # <<>>, Last(path) = "/", NEW r \in Seq(Chunks)
  PROVE  Split(path \o r) = Split(path) \o Split(r)
<1> DEFINE v == Front(path)
           none == <<>>
<1>1. v \in Seq(Chunks) /\ path = Append(v, "/")
  BY FrontAndLast
<1> HIDE DEF v
<1>2. none \in Seq(Chunks) /\ Split(none) = none /\ Split(v) \in Seq(Seq(Chunks))
  BY <1>1, SplitTypes
<1>3. path \o none = path /\ Split(v) \o none = Split(v)
  BY <1>2, ConcatEmptySeq
<1> HIDE DEF none
<1>4. Split(path \o r) = Split(v) \o Split(r) /\ Split(path \o none) = Split(v) \o Split(none)
  BY <1>1, <1>2, SplitConcat
<1>5. QED
  BY <1>2, <1>3, <1>4

\* Whatever the file and the target, a handler of the API is given what follows
\* its location, and split never takes a part from an empty vector.
THEOREM ApiSees == Spec => []ApiSeesWhatFollows
<1>1. Inv /\ RouteInv => ApiSeesWhatFollows
  <2> SUFFICES ASSUME Inv, RouteInv, match.path # <<>>, routes[match.path].type = "ApiHandler"
               PROVE  match.answer = PassedOn(Tail(Split(match.path)) \o Beyond)
    BY DEF ApiSeesWhatFollows
  <2> DEFINE path == match.path
             t == match.target
  <2>1. cfg \in Trees /\ Answered /\ ~ ExtractUndefined(cfg)
    BY DEF Inv, Parsing, RouteInv, Answered, Serving
  <2>2. /\ path \in DOMAIN routes /\ routes[path] = Server(path)
        /\ match.answer = Handle(Server(path), path, t)
        /\ t = <<>> => path \in {Slash, BadRequest}
    BY <2>1, Matched, EmptyMatch
  <2>3. path \notin DOMAIN BuiltIn \cup {Slash, BadRequest}
    BY <2>2, ServerType
  <2>4. Entries(path, "ApiHandler") # {}
    <3>1. IsServed(path)
      BY <2>1, <2>2, RoutesMade DEF Answered, Serving
    <3>2. Server(path).type = "ApiHandler"
      BY <2>2
    <3>3. Entries(path, "StaticHandler") = {}
      BY <2>3, <3>2, ServerType DEF Factory
    <3>4. QED
      BY <2>3, <3>1, <3>3 DEF IsServed
  <2>5. /\ path \in Seq(Chunks) /\ Len(path) \in Nat \ {0} /\ path[Len(path)] = "/"
        /\ Len(path) > 1 => path[Len(path) - 1] # "/"
    BY <2>1, <2>4, LocationEnds
  <2>6. PICK r \in Seq(Chunks) : t = path \o r /\ Beyond = Split(r)
    <3>1. t # <<>> /\ path # Slash
      BY <2>2, <2>3
    <3>2. PICK r \in Seq(Chunks) : t = path \o r /\ r = SubSeq(t, Len(path) + 1, Len(t))
      BY <2>1, <3>1, Follows
    <3>3. QED
      BY <3>2 DEF Beyond
  <2> HIDE DEF path, t
  <2>7. path # <<>> /\ Last(path) = "/"
    BY <2>5 DEF Last
  <2>8. Split(t) = Split(path) \o Split(r)
    BY <2>5, <2>6, <2>7, SplitsBehind
  <2>9. Split(path) # <<>> /\ Split(path) \in Seq(Seq(Chunks)) /\ Split(r) \in Seq(Seq(Chunks))
    <3> DEFINE v == Front(path)
               none == <<>>
    <3>1. v \in Seq(Chunks) /\ path = Append(v, "/")
      BY <2>5, <2>7, FrontAndLast
    <3> HIDE DEF v
    <3>2. /\ Len(v) \in Nat /\ Len(path) = Len(v) + 1
          /\ \A i \in 1..Len(v) : path[i] = v[i]
      BY <3>1, Dots, AppendProperties, LenProperties
    <3>3. v # <<>>
      <4>1. Append(<<>>, "/") = Slash
        BY DEF Slash
      <4>2. QED
        BY <2>3, <3>1, <4>1 DEF path
    <3>4. Len(v) > 0 /\ Last(v) # "/"
      <4>1. Len(v) > 0
        BY <3>1, <3>2, <3>3, EmptySeq
      <4>2. Last(v) = path[Len(path) - 1]
        BY <3>2, <4>1 DEF Last
      <4>3. QED
        BY <2>5, <3>2, <4>1, <4>2
    <3>5. PICK u \in Seq(Chunks), c \in Chunks : v = Append(u, c) /\ c # "/"
      BY <3>1, <3>3, <3>4, FrontAndLast
    <3>6. Split(v) # <<>> /\ \A a \in Seq(Chunks) : Split(a) \in Seq(Seq(Chunks))
      BY <3>5, SplitType, SplitTypes
    <3>7. none \in Seq(Chunks) /\ Split(none) = none /\ path \o none = path
      BY <2>5, SplitTypes, ConcatEmptySeq
    <3> HIDE DEF none
    <3>8. Split(path \o none) = Split(v) \o Split(none)
      BY <3>1, <3>7, SplitConcat
    <3>9. Split(v) \o none = Split(v)
      BY <3>1, <3>6, ConcatEmptySeq DEF none
    <3>10. QED
      BY <2>5, <3>1, <3>6, <3>7, <3>8, <3>9
  <2>10. Split(t) # <<>> /\ Tail(Split(t)) = Tail(Split(path)) \o Split(r)
    BY <2>8, <2>9, TailConcat
  <2>11. match.answer = ServeApi(t)
    <3>1. Server(path).type = "ApiHandler"
      BY <2>2 DEF path
    <3>2. QED
      BY <2>2, <3>1, HandlerTypes
  <2>12. QED
    BY <2>6, <2>10, <2>11 DEF ServeApi, path
<1>2. QED
  BY <1>1, Invariant, RouteInvariant, PTL

\* Nothing but a handler that throws aborts the process, and then it has.
AbortInv == match.answer = Thrown <=> phase = "aborted"

LEMMA Aborts == Spec => []AbortInv
<1>1. Init => AbortInv
  <2>1. NoAnswer # Thrown
    <3>1. NoAnswer.type = "" /\ Thrown.type = "thrown"
      BY DEF NoAnswer, Thrown, Answer
    <3>2. QED
      BY <3>1
  <2>2. ASSUME Init PROVE match.answer = NoAnswer /\ phase # "aborted"
    BY <2>2 DEF Init
  <2>3. QED
    BY <2>1, <2>2 DEF AbortInv
<1>2. ASSUME AbortInv, [Next]_vars PROVE AbortInv'
  <2>1. \A p \in Running : p # "aborted"
    BY Zenon DEF Running
  <2>2. "aborted" \notin {"parse", "validate", "port", "extract", "bind", "routes", "listening",
                         "exit 0", "exit 1", "signalled", Undefined}
    BY Zenon DEF Undefined
  <2>3. CASE \/ SkipComment \/ ReadNormal \/ ReadEnd \/ ReadStartBlock \/ ReadEndBlock
             \/ ReadEof \/ ReadError
    <3>1. PICK kind : Take(kind)
      BY Zenon, <2>3 DEF SkipComment, ReadNormal, ReadEnd, ReadStartBlock, ReadEndBlock,
                         ReadEof, ReadError
    <3>2. phase = "parse" /\ match' = match
      BY <3>1 DEF Take
    <3>3. phase' \in {phase, "validate", Undefined}
      BY Zenon, <2>3 DEF SkipComment, ReadNormal, ReadEnd, ReadStartBlock, ReadEndBlock,
                         ReadEof, ReadError, Return, FallOff
    <3>4. QED
      BY <1>2, <2>2, <3>2, <3>3 DEF AbortInv
  <2>4. CASE OpenFails \/ Validate \/ AskPort \/ Extract \/ Bind \/ MakeRoutes \/ EmptyPool \/ Signal
    <3>1. match' = match
      BY Zenon, <2>4 DEF OpenFails, Validate, AskPort, Extract, Bind, MakeRoutes, EmptyPool, Signal
    <3>2. phase # "aborted"
      BY Zenon, <2>1, <2>2, <2>4 DEF OpenFails, Validate, AskPort, Extract, Bind, MakeRoutes,
                                     EmptyPool, Signal, At
    <3>3. phase' # "aborted"
      BY Zenon, <2>2, <2>4 DEF OpenFails, Validate, AskPort, Extract, Bind, MakeRoutes,
                               EmptyPool, Signal
    <3>4. QED
      BY <1>2, <3>1, <3>2, <3>3 DEF AbortInv
  <2>5. CASE (\E t \in Targets : Route(t)) \/ RouteUnparsed
    <3>1. PICK target, path : Process(target, path)
      BY Zenon, <2>5 DEF Route, RouteUnparsed
    <3>2. phase = "listening"
      BY <3>1 DEF Process, At
    <3>3. phase' = IF match'.answer = Thrown THEN "aborted" ELSE phase
      BY <3>1 DEF Process
    <3>4. QED
      BY <2>2, <3>2, <3>3 DEF AbortInv
  <2>6. CASE UNCHANGED vars
    BY <1>2, <2>6 DEF vars, AbortInv
  <2>7. QED
    BY Zenon, <1>2, <2>3, <2>4, <2>5, <2>6 DEF Next, Stop
<1>3. QED
  BY <1>1, <1>2, PTL DEF Spec

\* What a file is answered with.
LEMMA FileAnswered ==
  ASSUME NEW path, NEW found, found = Find(path)
  PROVE  /\ found = Refused <=> AnswerFile(path) = Thrown
         /\ found # Refused =>
              IF found \in Disk /\ Last(path) # "/"
              THEN AnswerFile(path).code = 200 /\ AnswerFile(path).body = found
              ELSE AnswerFile(path).code = 404
         /\ AnswerFile(path).code = 200 =>
              found \in Disk /\ found # Refused /\ AnswerFile(path).body = found
<1> DEFINE type == ExtensionToType(Extension(Last(found)))
<1> HIDE DEF type
<1>1. AnswerFile(path) = IF found = Refused THEN Thrown
                         ELSE IF found \in Disk /\ Last(path) # "/" THEN Answer(200, type, found)
                         ELSE Answer(404, "text/plain", Own)
  BY DEF AnswerFile, type
<1>2. /\ \A c, y, b : Answer(c, y, b).code = c /\ Answer(c, y, b).body = b
      /\ Thrown.code = 0
  BY DEF Answer, Thrown
<1>3. QED
  BY <1>1, <1>2

\* Whatever the file, the target and the disk, a static location with such a root
\* answers with the file that the target leads to from the root, or 404, or ends
\* the process where the system refuses the path; and a target without ".." leads
\* to no file that is not below the root.
THEOREM ServedRight == Spec => []ServedFromRoot
<1>1. Inv /\ RouteInv /\ AbortInv => ServedFromRoot
  <2> DEFINE path == match.path
             t == match.target
             root == Root(path, "StaticHandler")
             start == <<DotDot>> \o Tail(Split(root))
             top == Walk(WorkDirectory, start)
             found == Walk(top, Beyond)
  <2> SUFFICES ASSUME Inv, RouteInv, AbortInv, t # <<>>, path \notin DOMAIN BuiltIn \cup {Slash},
                      Entries(path, "StaticHandler") # {},
                      root = <<".">> \/ IsPrefix(<<".", "/">>, root)
               PROVE  /\ found = Refused <=> phase = "aborted"
                      /\ found # Refused =>
                           IF found \in Disk /\ Last(t) # "/"
                           THEN match.answer.code = 200 /\ match.answer.body = found
                           ELSE match.answer.code = 404
                      /\ match.answer.code = 200 /\ NoneUp(Beyond) => IsPrefix(top, match.answer.body)
    BY DEF ServedFromRoot, NoneUp, Dot
  <2>1. cfg \in Trees /\ Answered /\ Serving /\ ~ ExtractUndefined(cfg)
    BY DEF Inv, Parsing, RouteInv, Answered, Serving
  <2>2. /\ path \in Seq(Chunks) /\ Len(path) \in Nat \ {0} /\ path[Len(path)] = "/"
    BY <2>1, LocationEnds
  <2>3. path # BadRequest
    <3>1. BadRequest[1] # "/" /\ BadRequest = <<BadRequest[1]>>
      BY BadRequestParts
    <3> DEFINE bad == BadRequest[1]
    <3> HIDE DEF bad
    <3>2. Len(<<bad>>) = 1 /\ <<bad>>[1] = bad
      OBVIOUS
    <3>3. QED
      BY <2>2, <3>1, <3>2 DEF bad
  <2>4. Server(path) = Factory("StaticHandler", root)
    BY <2>3, ServerType
  <2>5. match.answer = ServeStatic(path, root, t)
    <3>1. match.answer = Handle(Server(path), path, t)
      BY <2>1, Matched
    <3>2. Server(path).type = "StaticHandler" /\ Server(path).root = root
      BY <2>4 DEF Factory
    <3> HIDE DEF path, t, root
    <3>3. QED
      BY <3>1, <3>2, HandlerTypes
  <2>6. root \in Seq(Chunks)
    <3> DEFINE i == Min(Entries(path, "StaticHandler"))
    <3>1. i \in Lines(cfg)
      BY <2>1, EntriesAre
    <3> HIDE DEF i
    <3>2. ~ (Len(cfg[i].tokens) < 2)
      BY <2>1, <3>1, ValidLines DEF Serving
    <3>3. cfg[i].tokens \in Seq(Words)
      <4>1. cfg[i] \in Statements
        BY <2>1, <3>1, TreeParts DEF Lines
      <4>2. QED
        BY <4>1 DEF Statements
    <3>4. cfg[i].tokens[2] \in Words
      BY <3>2, <3>3, LenProperties, ElementOfSeq
    <3>5. cfg[i].tokens[2].text \in Seq(STRING)
      BY Zenon, <3>4 DEF Words
    <3>6. cfg[i].tokens[2].text \in Seq(Chunks)
      BY Zenon, <3>5, ChunkTexts
    <3>7. QED
      BY <3>6 DEF Root, i
  <2>7. PICK r \in Seq(Chunks) :
          t = path \o r /\ r = SubSeq(t, Len(path) + 1, Len(t)) /\ Beyond = Split(r)
    <3>1. PICK r \in Seq(Chunks) : t = path \o r /\ r = SubSeq(t, Len(path) + 1, Len(t))
      BY <2>1, Follows
    <3>2. QED
      BY <3>1 DEF Beyond
  <2> DEFINE asked == <<"..", "/">> \o Tail(root \o <<"/">> \o r)
  <2>8. match.answer = AnswerFile(asked)
    BY <2>5, <2>7 DEF ServeStatic
  <2>9. /\ Split(asked) = start \o Beyond
        /\ Last(asked) = IF r = <<>> THEN "/" ELSE Last(r)
    <3>1. LET path_ == <<"..", "/">> \o Tail(root \o <<"/">> \o r)
          IN /\ Split(path_) = << <<"..">> >> \o Tail(Split(root)) \o Split(r)
             /\ Last(path_) = IF r = <<>> THEN "/" ELSE Last(r)
      <4> HIDE DEF root
      <4> QED BY <2>6, ServedPath
    <3>2. QED
      BY <2>7, <3>1 DEF DotDot
  <2>10. Find(asked) = found /\ top \in Spots /\ Beyond \in Seq(Name)
    <3>1. start \in Seq(Name) /\ Beyond \in Seq(Name)
      <4>1. Split(root) \in Seq(Name) /\ Split(r) \in Seq(Name)
        BY <2>6, SplitTypes DEF Name
      <4>2. Split(root) # <<>> => Tail(Split(root)) \in Seq(Name)
        BY <4>1
      <4>3. Split(root) # <<>>
        <5>1. Split(root) = <<>> => FALSE
          BY <2>6, RootHasParts
        <5>2. QED
          BY <5>1
      <4>4. <<DotDot>> \in Seq(Name)
        BY PlaceTypes
      <4>5. start \in Seq(Name)
        BY <4>2, <4>3, <4>4, ConcatProperties
      <4>6. QED
        BY <2>7, <4>1, <4>5
    <3> HIDE DEF start, asked, root
    <3>2. Find(asked) = Walk(WorkDirectory, start \o Beyond)
      BY <2>9 DEF Find
    <3>3. QED
      BY <3>1, <3>2, PlaceTypes, WalkConcat
  <2>11. Last(t) = Last(asked)
    <3>1. path # <<>> /\ Last(path) = "/"
      BY <2>2 DEF Last
    <3> DEFINE v == Front(path)
    <3>2. v \in Seq(Chunks) /\ path = Append(v, "/")
      BY <2>2, <3>1, FrontAndLast
    <3> HIDE DEF v, path, t, asked
    <3>3. Last(Append(v, "/") \o r) = IF r = <<>> THEN "/" ELSE Last(r)
      BY <3>2, Dots, LastIs
    <3>4. QED
      BY <2>7, <2>9, <3>2, <3>3
  <2>12. LeadsOn(top, found) \/ ~ NoneUp(Beyond)
    <3> HIDE DEF top
    <3> QED BY <2>10, WalkBelow
  <2>13. match.answer.code = 200 => match.answer.body = found /\ found \notin {Nowhere, Refused}
    <3> HIDE DEF asked, found
    <3>1. match.answer.code = 200 => match.answer.body = found /\ found \in Disk
      BY <2>8, <2>10, FileAnswered
    <3>2. QED
      BY <3>1, DiskAssumption
  <2>14. QED
    <3> HIDE DEF asked, found, t, path, root, top
    <3> QED BY <2>8, <2>10, <2>11, <2>12, <2>13, FileAnswered DEF AbortInv, LeadsOn
<1>2. QED
  BY <1>1, Invariant, RouteInvariant, Aborts, PTL

-----------------------------------------------------------------------------
(* What ToString writes of a tree. *)

\* The tokens of a file, which are also what is written.
Tokens == [kind : Kinds \ {"eof"}, word : Words]

\* What ToString writes of statement b, if those in its block write what t says.
WordsOf(s) == [n \in DOMAIN s.tokens |-> Normal(s.tokens[n])]

Inner(c, t, b) == FlattenSeq(TextsOf(t, InOrder(c, In(c, b))))

TextOf(c, t, b) ==
  IF b = 0 THEN Inner(c, t, b)
  ELSE IF c[b].block
       THEN WordsOf(c[b]) \o <<StartBlock>> \o Inner(c, t, b) \o <<EndBlock>>
       ELSE Append(WordsOf(c[b]), End)

IsText(c, t) == t = [b \in 0..Len(c) |-> TextOf(c, t, b)]

Text(c) == CHOOSE t : IsText(c, t)

LEMMA WrittenIs == Written(0) = Text(cfg)[0] /\ Written(0)' = Text(cfg')[0]
BY DEF Written, Text, IsText, TextOf, Inner, TextsOf, WordsOf

LEMMA TokenTypes ==
  /\ StartBlock \in Tokens /\ EndBlock \in Tokens /\ End \in Tokens /\ Comment \in Tokens
  /\ \A w \in Words : Normal(w) \in Tokens
<1>1. Word(<<>>) \in Words
  BY DEF Word, Words
<1>2. {"end", "start block", "end block", "comment", "normal"} \subseteq Kinds \ {"eof"}
  BY Zenon DEF Kinds
<1>3. \A k \in Kinds \ {"eof"} : \A w \in Words : Token(k, w) \in Tokens
  BY DEF Token, Tokens
<1>4. QED
  BY <1>1, <1>2, <1>3 DEF StartBlock, EndBlock, End, Comment, Normal, Separator

LEMMA WordsType ==
  ASSUME NEW s \in Statements
  PROVE  WordsOf(s) \in Seq(Tokens)
<1>1. s.tokens \in Seq(Words)
  BY DEF Statements
<1>2. DOMAIN s.tokens = 1..Len(s.tokens) /\ Len(s.tokens) \in Nat
      /\ \A n \in 1..Len(s.tokens) : s.tokens[n] \in Words
  BY <1>1, LenProperties, ElementOfSeq
<1> DEFINE k == Len(s.tokens)
           g == [n \in 1..k |-> Normal(s.tokens[n])]
<1>3. \A n \in 1..k : Normal(s.tokens[n]) \in Tokens
  BY <1>2, TokenTypes
<1>4. g \in [1..k -> Tokens]
  BY <1>3
<1>5. g \in Seq(Tokens)
  <2> HIDE DEF g, k
  <2>1. k \in Nat
    BY <1>2 DEF k
  <2>2. QED
    BY <1>4, <2>1
<1>6. QED
  BY <1>2, <1>5 DEF WordsOf

LEMMA InnerIs ==
  ASSUME NEW c \in Trees, NEW t, NEW b
  PROVE  Inner(c, t, b) = Within(Len(c), t, In(c, b)) /\ In(c, b) \subseteq 1..Len(c)
<1>1. DOMAIN c = 1..Len(c)
  BY TreeParts
<1>2. [i \in DOMAIN c |-> i] = [i \in 1..Len(c) |-> i]
  BY <1>1
<1>3. InOrder(c, In(c, b)) = Chosen(Len(c), In(c, b))
  BY <1>2 DEF InOrder, Chosen
<1>4. QED
  BY <1>1, <1>3 DEF Inner, Within, In

LEMMA TextOfSame ==
  ASSUME NEW c \in Trees, NEW t, NEW u, NEW b, \A i \in In(c, b) : u[i] = t[i]
  PROVE  TextOf(c, u, b) = TextOf(c, t, b)
<1>1. Len(c) \in Nat /\ In(c, b) \subseteq 1..Len(c)
  BY TreeParts, InnerIs
<1>2. Within(Len(c), u, In(c, b)) = Within(Len(c), t, In(c, b))
  BY <1>1, WithinSame
<1>3. Inner(c, u, b) = Inner(c, t, b)
  BY <1>2, InnerIs
<1>4. QED
  BY <1>3 DEF TextOf

\* A block is written by what it holds, which is behind it, so the texts can be
\* given from the last statement on.
LEMMA TextExists ==
  ASSUME NEW c \in Trees
  PROVE  IsText(c, Text(c))
<1> DEFINE n == Len(c)
           Writes(p, k) == p = [b \in k..n |-> TextOf(c, p, b)]
           Bad == {k \in 0..n : ~ \E p : Writes(p, k)}
<1>1. n \in Nat /\ DOMAIN c = 1..n /\ \A i \in 1..n : c[i].parent \in Nat /\ c[i].parent < i
  BY TreeParts
<1>2. ASSUME NEW k \in 0..n, NEW p, k = n \/ Writes(p, k + 1)
      PROVE  \E q : Writes(q, k)
  <2> DEFINE q == [b \in k..n |-> IF b = k THEN TextOf(c, p, k) ELSE p[b]]
  <2>1. \A i \in (k + 1)..n : q[i] = p[i]
    BY <1>1
  <2>2. ASSUME NEW b \in k..n
        PROVE  TextOf(c, q, b) = TextOf(c, p, b)
    <3>1. \A i \in In(c, b) : i \in (k + 1)..n
      BY <1>1 DEF In
    <3>2. \A i \in In(c, b) : q[i] = p[i]
      BY <2>1, <3>1
    <3> HIDE DEF q
    <3>3. QED
      BY <3>2, TextOfSame
  <2>3. \A b \in k..n : q[b] = TextOf(c, p, b)
    BY <1>1, <1>2
  <2>4. q = [b \in k..n |-> q[b]]
    OBVIOUS
  <2> HIDE DEF q
  <2>5. QED
    BY <2>2, <2>3, <2>4
<1>3. Bad = {}
  <2>1. ASSUME Bad # {} PROVE FALSE
    <3>1. Bad \subseteq 0..n
      OBVIOUS
    <3> HIDE DEF Bad
    <3>2. PICK k \in Bad : \A y \in Bad : y <= k
      BY <1>1, <2>1, <3>1, Greatest
    <3> USE DEF Bad
    <3>3. k # n /\ k \in 0..n
      BY <1>2, <3>2
    <3>4. k + 1 \in 0..n /\ k + 1 \notin Bad
      <4> HIDE DEF Bad, n
      <4>1. k \in Int /\ k < n /\ 0 <= k
        BY <1>1, <3>3
      <4>2. k + 1 \notin Bad
        BY <3>2, <4>1
      <4>3. QED
        BY <1>1, <4>1, <4>2
    <3>5. QED
      BY <1>2, <3>2, <3>4
  <2>2. QED
    BY <2>1
<1>4. PICK p : Writes(p, 0)
  BY <1>1, <1>3
<1>5. IsText(c, p)
  BY <1>4 DEF IsText
<1>6. QED
  BY <1>5 DEF Text

LEMMA TextOfType ==
  ASSUME NEW c \in Trees, NEW t, NEW b \in 0..Len(c), \A i \in In(c, b) : t[i] \in Seq(Tokens)
  PROVE  TextOf(c, t, b) \in Seq(Tokens)
<1>1. Len(c) \in Nat /\ In(c, b) \subseteq 1..Len(c)
  BY TreeParts, InnerIs
<1>2. Inner(c, t, b) \in Seq(Tokens)
  <2>1. Within(Len(c), t, In(c, b)) \in Seq(Tokens)
    BY <1>1, WithinIs
  <2>2. QED
    BY <2>1, InnerIs
<1>3. CASE b = 0
  BY <1>2, <1>3 DEF TextOf
<1>4. CASE b # 0
  <2> DEFINE w == WordsOf(c[b])
             a == Inner(c, t, b)
  <2>1. w \in Seq(Tokens)
    <3>1. b \in 1..Len(c)
      BY <1>1, <1>4
    <3>2. QED
      BY <3>1, TreeParts, WordsType
  <2>2. <<StartBlock>> \in Seq(Tokens) /\ <<EndBlock>> \in Seq(Tokens) /\ End \in Tokens
    BY TokenTypes
  <2> HIDE DEF w, a
  <2>3. w \o <<StartBlock>> \o a \o <<EndBlock>> \in Seq(Tokens) /\ Append(w, End) \in Seq(Tokens)
    BY <1>2, <2>1, <2>2, ConcatProperties, AppendProperties DEF a
  <2>4. QED
    BY <1>4, <2>3 DEF TextOf, w, a
<1>5. QED
  BY <1>3, <1>4

LEMMA TextIs ==
  ASSUME NEW c \in Trees, NEW b \in 0..Len(c)
  PROVE  Text(c)[b] = TextOf(c, Text(c), b) /\ Text(c)[b] \in Seq(Tokens)
<1> DEFINE n == Len(c)
           t == Text(c)
           Bad == {k \in 0..n : t[k] \notin Seq(Tokens)}
<1>1. n \in Nat /\ DOMAIN c = 1..n /\ \A i \in 1..n : c[i].parent \in Nat /\ c[i].parent < i
  BY TreeParts
<1>2. t = [k \in 0..n |-> TextOf(c, t, k)]
  BY TextExists DEF IsText
<1> HIDE DEF t
<1>3. \A k \in 0..n : t[k] = TextOf(c, t, k)
  BY <1>2
<1>4. Bad = {}
  <2>1. ASSUME Bad # {} PROVE FALSE
    <3>1. Bad \subseteq 0..n
      OBVIOUS
    <3> HIDE DEF Bad
    <3>2. PICK k \in Bad : \A y \in Bad : y <= k
      BY <1>1, <2>1, <3>1, Greatest
    <3>3. \A i \in In(c, k) : i \in 0..n /\ k < i /\ k \in Int
      BY <1>1, <3>1 DEF In
    <3>4. \A i \in In(c, k) : i \notin Bad
      BY <3>2, <3>3
    <3>5. \A i \in In(c, k) : t[i] \in Seq(Tokens)
      BY <3>3, <3>4 DEF Bad
    <3>6. TextOf(c, t, k) \in Seq(Tokens) /\ k \in 0..n
      BY <3>1, <3>5, TextOfType
    <3>7. QED
      BY <1>3, <3>6 DEF Bad
  <2>2. QED
    BY <2>1
<1>5. QED
  BY <1>3, <1>4 DEF t

\* Statements that are the same in a larger tree, with all in their blocks, are
\* written alike.
LEMMA TextsAgree ==
  ASSUME NEW c \in Trees, NEW d \in Trees, Len(d) \in {Len(c), Len(c) + 1},
         NEW K, K \subseteq 1..Len(c),
         \A i \in K : d[i] = c[i] /\ In(d, i) = In(c, i) /\ In(c, i) \subseteq K
  PROVE  \A i \in K : Text(d)[i] = Text(c)[i]
<1> DEFINE n == Len(c)
           t == Text(c)
           u == Text(d)
           Bad == {k \in K : u[k] # t[k]}
<1>1. n \in Nat /\ DOMAIN c = 1..n /\ \A i \in 1..n : c[i].parent \in Nat /\ c[i].parent < i
  BY TreeParts
<1>2. /\ \A k \in K : t[k] = TextOf(c, t, k)
      /\ \A k \in 1..n : t[k] \in Seq(Tokens)
      /\ \A k \in K : u[k] = TextOf(d, u, k)
  <2>1. \A k \in 0..n : t[k] = TextOf(c, t, k) /\ t[k] \in Seq(Tokens)
    BY TextIs
  <2>2. \A k \in 0..Len(d) : u[k] = TextOf(d, u, k)
    BY TextIs
  <2>3. \A k \in 1..n : k \in 0..n /\ k \in 0..Len(d)
    BY <1>1
  <2> HIDE DEF t, u, n
  <2>4. \A k \in K : k \in 1..n
    BY DEF n
  <2>5. QED
    BY <2>1, <2>2, <2>3, <2>4
<1> HIDE DEF t, u
<1>3. Bad = {}
  <2>1. ASSUME Bad # {} PROVE FALSE
    <3>0. \A i \in 1..n : i \in 0..n
      BY <1>1
    <3>1. Bad \subseteq 0..n /\ Bad \subseteq K
      BY <3>0
    <3> HIDE DEF Bad
    <3>2. PICK k \in Bad : \A y \in Bad : y <= k
      BY <1>1, <2>1, <3>1, Greatest
    <3>3. k \in K /\ k \in 1..n /\ d[k] = c[k] /\ In(d, k) = In(c, k) /\ In(c, k) \subseteq K
      BY <3>1, <3>2
    <3>4. \A i \in In(c, k) : i \in 1..n /\ k < i /\ k \in Int
      BY <1>1, <3>3 DEF In
    <3>5. \A i \in In(c, k) : i \notin Bad
      BY <3>2, <3>4
    <3>6. \A i \in In(c, k) : u[i] = t[i] /\ t[i] \in Seq(Tokens)
      BY <1>2, <3>3, <3>4, <3>5 DEF Bad
    <3>7. Inner(d, u, k) = Inner(c, t, k)
      <4>1. Inner(d, u, k) = Within(Len(d), u, In(c, k)) /\ Inner(c, t, k) = Within(n, t, In(c, k))
        BY <3>3, InnerIs
      <4>2. In(c, k) \subseteq 1..n
        BY <3>4
      <4>3. Within(n, u, In(c, k)) = Within(n, t, In(c, k))
        BY <1>1, <3>6, <4>2, WithinSame
      <4>4. Within(n + 1, u, In(c, k)) = Within(n, u, In(c, k))
        <5>1. \A i \in In(c, k) : u[i] \in Seq(Tokens)
          BY <3>6
        <5> HIDE DEF n
        <5>2. QED
          BY <1>1, <4>2, <5>1, WithinIs
      <4>5. QED
        BY <4>1, <4>3, <4>4
    <3>8. TextOf(d, u, k) = TextOf(c, t, k)
      BY <3>3, <3>7 DEF TextOf
    <3>9. QED
      BY <1>2, <3>2, <3>3, <3>8 DEF Bad
  <2>2. QED
    BY <2>1
<1>4. QED
  BY <1>3 DEF t, u

-----------------------------------------------------------------------------
(* What has been written so far. *)

\* The statements that are not finished: the file, the open blocks and the
\* statement that is being read, each the last in the one before it.
Places(p) == {p[k] : k \in 1..Len(p)}

Spine(c, p) ==
  /\ p \in Seq(Nat) /\ Len(p) >= 1 /\ p[1] = 0
  /\ \A k \in 1..Len(p) : p[k] <= Len(c)
  /\ \A k \in 2..Len(p) : /\ p[k] # 0 /\ c[p[k]].parent = p[k - 1]
                          /\ \A i \in In(c, p[k - 1]) : i <= p[k]

\* What one of them has been written with: its words, its brace and what is
\* finished in its block.
Intro(c, i) ==
  IF i = 0 THEN <<>>
  ELSE IF c[i].block THEN Append(WordsOf(c[i]), StartBlock) ELSE WordsOf(c[i])

Started(c, t, P, i) == Intro(c, i) \o Within(Len(c), t, In(c, i) \ P)

Pieces(c, t, p) == [k \in 1..Len(p) |-> Started(c, t, Places(p), p[k])]

SoFar(c, t, p) == UpTo(Pieces(c, t, p), Len(p))

LEMMA SpineParts ==
  ASSUME NEW c \in Trees, NEW p, Spine(c, p)
  PROVE  /\ Len(p) \in Nat /\ Len(p) >= 1 /\ DOMAIN p = 1..Len(p)
         /\ \A k \in 1..Len(p) : p[k] \in 0..Len(c) /\ (p[k] = 0 <=> k = 1)
         /\ \A k \in 2..Len(p) : p[k] \in In(c, p[k - 1]) /\ k - 1 \in 1..Len(p)
         /\ \A j, k \in 1..Len(p) : j < k => p[j] < p[k]
         /\ Places(p) \subseteq 0..Len(c)
<1> DEFINE m == Len(p)
           n == Len(c)
<1>1. p \in Seq(Nat) /\ m \in Nat /\ m >= 1 /\ DOMAIN p = 1..m /\ \A k \in 1..m : p[k] \in Nat
  BY LenProperties, ElementOfSeq DEF Spine
<1>2. n \in Nat /\ DOMAIN c = 1..n /\ \A i \in 1..n : c[i].parent \in Nat /\ c[i].parent < i
  BY TreeParts
<1>3. /\ p[1] = 0 /\ \A k \in 1..m : p[k] <= n
      /\ \A k \in 2..m : p[k] # 0 /\ c[p[k]].parent = p[k - 1]
  BY DEF Spine
<1> HIDE DEF m, n
<1>4. \A k \in 1..m : p[k] \in 0..n /\ (p[k] = 0 <=> k = 1)
  <2>1. \A k \in 1..m : k = 1 \/ k \in 2..m
    BY <1>1
  <2>2. \A k \in 2..m : k # 1
    OBVIOUS
  <2>3. QED
    BY <1>1, <1>2, <1>3, <2>1, <2>2
<1>5. \A k \in 2..m : k - 1 \in 1..m /\ p[k] \in In(c, p[k - 1]) /\ p[k - 1] < p[k]
  <2> TAKE k \in 2..m
  <2>1. k \in 1..m /\ k - 1 \in 1..m /\ k # 1
    BY <1>1
  <2>2. p[k] \in 1..n
    BY <1>2, <1>4, <2>1
  <2>3. c[p[k]].parent < p[k] /\ c[p[k]].parent = p[k - 1]
    BY <1>2, <1>3, <2>2
  <2>4. QED
    BY <1>2, <2>1, <2>2, <2>3 DEF In
<1>6. ASSUME NEW j \in 1..m, NEW k \in 1..m, j < k PROVE p[j] < p[k]
  <2> DEFINE T == {i \in 0..m : i <= j \/ p[j] < p[i]}
  <2>1. 0 \in T
    BY <1>1
  <2>2. ASSUME NEW i \in 1..m, i - 1 \in T PROVE i \in T
    <3>1. CASE i <= j
      BY <3>1
    <3>2. CASE i - 1 = j
      <4>1. i \in 2..m
        BY <3>2
      <4>2. p[i - 1] < p[i]
        BY <1>5, <4>1
      <4>3. QED
        BY <3>2, <4>2
    <3>3. CASE i - 1 > j
      <4>1. i \in 2..m /\ i - 1 \in 1..m /\ p[j] < p[i - 1]
        BY <2>2, <3>3
      <4>2. p[i - 1] < p[i]
        BY <1>5, <4>1
      <4>3. p[j] \in Nat /\ p[i - 1] \in Nat /\ p[i] \in Nat
        BY <1>1, <4>1
      <4>4. QED
        BY <4>1, <4>2, <4>3
    <3>4. QED
      BY <3>1, <3>2, <3>3
  <2>3. 0..m \subseteq T
    <3> HIDE DEF T
    <3> QED BY <1>1, <2>1, <2>2, Counting
  <2>4. k \in 0..m /\ ~ (k <= j)
    BY <1>1, <1>6
  <2>5. QED
    BY <2>3, <2>4
<1>7. Places(p) \subseteq 0..n
  BY <1>4 DEF Places, m
<1>8. QED
  BY <1>1, <1>4, <1>5, <1>6, <1>7 DEF m, n

LEMMA StartedType ==
  ASSUME NEW c \in Trees, NEW i \in 0..Len(c), NEW P
  PROVE  /\ Intro(c, i) \in Seq(Tokens)
         /\ Within(Len(c), Text(c), In(c, i) \ P) \in Seq(Tokens)
         /\ Started(c, Text(c), P, i) \in Seq(Tokens)
<1>1. Len(c) \in Nat /\ In(c, i) \subseteq 1..Len(c)
  BY TreeParts, InnerIs
<1>2. Intro(c, i) \in Seq(Tokens)
  <2>1. i # 0 => WordsOf(c[i]) \in Seq(Tokens)
    <3>1. i # 0 => i \in 1..Len(c)
      BY <1>1
    <3>2. QED
      BY <3>1, TreeParts, WordsType
  <2>2. i # 0 => Append(WordsOf(c[i]), StartBlock) \in Seq(Tokens)
    <3> DEFINE w == WordsOf(c[i])
    <3> HIDE DEF w
    <3>1. w \in Seq(Tokens) => Append(w, StartBlock) \in Seq(Tokens)
      BY TokenTypes, AppendProperties
    <3>2. QED
      BY <2>1, <3>1 DEF w
  <2>3. <<>> \in Seq(Tokens)
    OBVIOUS
  <2>4. QED
    BY <2>1, <2>2, <2>3 DEF Intro
<1>3. Within(Len(c), Text(c), In(c, i) \ P) \in Seq(Tokens)
  <2>1. \A j \in In(c, i) \ P : j \in 0..Len(c)
    BY <1>1
  <2>2. \A j \in In(c, i) \ P : Text(c)[j] \in Seq(Tokens)
    BY <2>1, TextIs
  <2> DEFINE S == In(c, i) \ P
             t == Text(c)
  <2>3. S \subseteq 1..Len(c) /\ \A j \in S : t[j] \in Seq(Tokens)
    BY <1>1, <2>2
  <2> HIDE DEF S, t
  <2>4. Within(Len(c), t, S) \in Seq(Tokens)
    BY <1>1, <2>3, WithinIs
  <2>5. QED
    BY <2>4 DEF S, t
<1>4. QED
  BY <1>2, <1>3, ConcatProperties DEF Started

\* The brace or semicolon that a statement ends with.
Closing(s) == IF s.block THEN EndBlock ELSE End

LEMMA TextEnds ==
  ASSUME NEW c \in Trees, NEW x \in 1..Len(c), c[x].block \/ In(c, x) = {}
  PROVE  Text(c)[x] = Started(c, Text(c), {}, x) \o <<Closing(c[x])>>
<1> DEFINE t == Text(c)
           w == WordsOf(c[x])
           a == Within(Len(c), t, In(c, x))
<1>1. Len(c) \in Nat /\ x \in 0..Len(c) /\ x # 0 /\ c[x] \in Statements
  <2>1. Len(c) \in Nat /\ c[x] \in Statements
    BY TreeParts
  <2>2. QED
    BY <2>1
<1>2. w \in Seq(Tokens)
  BY <1>1, WordsType
<1>3. t[x] = TextOf(c, t, x) /\ Inner(c, t, x) = a
  BY <1>1, TextIs, InnerIs
<1>4. Within(Len(c), t, In(c, x) \ {}) \in Seq(Tokens) /\ In(c, x) \ {} = In(c, x)
  BY <1>1, StartedType
<1>5. a \in Seq(Tokens)
  BY <1>4
<1>6. In(c, x) = {} => a = <<>>
  BY <1>1, WithinNone
<1>7. Started(c, t, {}, x) = IF c[x].block THEN Append(w, StartBlock) \o a ELSE w \o a
  BY <1>1, <1>4 DEF Started, Intro
<1>8. t[x] = IF c[x].block THEN ((w \o <<StartBlock>>) \o a) \o <<EndBlock>> ELSE Append(w, End)
  BY <1>1, <1>3 DEF TextOf
<1>9. Append(w, StartBlock) = w \o <<StartBlock>> /\ Append(w, End) = w \o <<End>> /\ w \o <<>> = w
  BY <1>2, TokenTypes, AppendIsConcat, ConcatEmptySeq
<1> HIDE DEF t, w, a
<1>10. QED
  BY <1>6, <1>7, <1>8, <1>9 DEF Closing, t

LEMMA PiecesAre ==
  ASSUME NEW c \in Trees, NEW p, Spine(c, p)
  PROVE  Tells(Pieces(c, Text(c), p), 1..Len(p), Seq(Tokens))
<1>1. \A k \in 1..Len(p) : Started(c, Text(c), Places(p), p[k]) \in Seq(Tokens)
  BY SpineParts, StartedType
<1>2. QED
  BY <1>1 DEF Pieces, Tells

\* With the last of the unfinished statements taken off, what is written of the
\* others has grown by what that one is written with, and its end.
LEMMA Closed ==
  ASSUME NEW c \in Trees, NEW p, Spine(c, p), Len(p) > 1,
         NEW q \in Seq(Nat), Len(q) = Len(p) - 1, \A k \in 1..Len(q) : q[k] = p[k],
         NEW x, x = p[Len(p)], c[x].block \/ In(c, x) = {}
  PROVE  /\ Spine(c, q)
         /\ Continued(SoFar(c, Text(c), q), SoFar(c, Text(c), p), <<Closing(c[x])>>)
<1> DEFINE m == Len(p)
           l == m - 1
           h == l - 1
           n == Len(c)
           t == Text(c)
           y == p[l]
           P == Places(p)
           Q == Places(q)
           G == Pieces(c, t, p)
           H == Pieces(c, t, q)
<1>1. /\ m \in Nat /\ m > 1 /\ l \in Nat /\ h \in Nat /\ l = h + 1 /\ m = l + 1
      /\ l \in 1..m /\ m \in 1..m /\ m \in 2..m /\ Len(q) = l /\ l \in 1..l
  BY SpineParts
<1>2. /\ \A k \in 1..m : p[k] \in 0..n /\ (p[k] = 0 <=> k = 1)
      /\ \A j, k \in 1..m : j < k => p[j] < p[k]
      /\ x \in In(c, y)
  <2>1. \A k \in 2..m : p[k] \in In(c, p[k - 1])
    BY SpineParts
  <2>2. m - 1 = l
    OBVIOUS
  <2>3. QED
    BY <1>1, <2>1, <2>2, SpineParts
<1>3. Spine(c, q)
  <2>1. \A k \in 1..l : q[k] = p[k] /\ k \in 1..m
    BY <1>1
  <2>2. \A k \in 2..l : k \in 1..l /\ k - 1 \in 1..l /\ k \in 2..m
    BY <1>1
  <2>3. 1 \in 1..l /\ 1 <= l
    BY <1>1
  <2>4. QED
    BY <1>1, <2>1, <2>2, <2>3 DEF Spine
<1>4. x \in 1..n /\ x \in 0..n /\ x \in P /\ x # 0 /\ c[x].parent = y /\ c[x].parent < x
      /\ n \in Nat /\ y \in 0..n
  <2>1. x \in 0..n /\ x # 0 /\ x \in P
    BY <1>1, <1>2 DEF Places
  <2>2. n \in Nat /\ \A i \in 1..n : c[i].parent < i
    BY TreeParts
  <2>3. c[x].parent = y
    BY <1>2 DEF In
  <2>4. QED
    BY <1>1, <1>2, <2>1, <2>2, <2>3
<1>5. P = Q \cup {x} /\ \A i \in Q : i \in Nat /\ i < x
  <2>1. \A k \in 1..l : q[k] \in Q /\ q[k] = p[k] /\ k \in 1..m /\ k < m
    BY <1>1 DEF Places
  <2>2. \A i \in Q : \E k \in 1..l : i = q[k]
    BY <1>1 DEF Places
  <2>3. \A i \in P : \E k \in 1..m : i = p[k]
    BY DEF Places
  <2>4. \A k \in 1..m : k \in 1..l \/ k = m
    BY <1>1
  <2>5. \A k \in 1..m : p[k] \in P
    BY DEF Places
  <2>6. \A i \in Q : i < x /\ i \in P
    <3>1. \A k \in 1..l : p[k] < p[m] /\ p[k] \in P /\ q[k] = p[k]
      BY <1>1, <1>2, <2>1, <2>5
    <3> HIDE DEF P, Q, l, m
    <3>2. \A i \in Q : i < p[m] /\ i \in P
      BY <2>2, <3>1
    <3>3. QED
      BY <3>2 DEF m
  <2>7. P \subseteq Q \cup {x}
    BY <2>1, <2>3, <2>4
  <2>8. \A i \in P : i \in Nat
    BY <1>2, <2>3
  <2> HIDE DEF P, Q
  <2>9. QED
    BY <1>4, <2>6, <2>7, <2>8
<1>6. /\ \A k \in 1..m : G[k] = Started(c, t, P, p[k])
      /\ \A k \in 1..l : H[k] = Started(c, t, Q, p[k])
  BY <1>1 DEF Pieces
<1> HIDE DEF m, l, h, n, t, y, P, Q, G, H
<1>7. \A k \in 1..h : H[k] = G[k]
  <2> TAKE k \in 1..h
  <2>1. k \in 1..m /\ k \in 1..l /\ k < l /\ k \in 1..m
    BY <1>1
  <2>2. p[k] # y
    <3>1. p[k] < y /\ p[k] \in 0..n /\ y \in 0..n
      BY <1>1, <1>2, <2>1 DEF y
    <3>2. QED
      BY <1>4, <3>1
  <2>3. x \notin In(c, p[k])
    BY <1>4, <2>2 DEF In
  <2>4. In(c, p[k]) \ P = In(c, p[k]) \ Q
    BY <1>5, <2>3
  <2>5. QED
    BY <1>6, <2>1, <2>4 DEF Started
<1>8. H[l] = G[l] \o t[x]
  <2> DEFINE S == In(c, y) \ P
             i == Intro(c, y)
             w == Within(n, t, S)
  <2>1. In(c, y) \ Q = S \cup {x} /\ x \notin S
    BY <1>2, <1>4, <1>5
  <2>2. S \subseteq 1..n /\ \A s \in S : s < x
    <3>1. In(c, y) \subseteq 1..n
      BY InnerIs DEF n
    <3>2. \A s \in In(c, y) : s <= x
      <4>1. \A k \in 2..m : \A s \in In(c, p[k - 1]) : s <= p[k]
        BY DEF Spine, m
      <4>2. \A s \in In(c, p[m - 1]) : s <= p[m]
        BY <1>1, <4>1
      <4>3. p[m - 1] = y /\ p[m] = x
        BY DEF m, l, y
      <4>4. QED
        BY <4>2, <4>3
    <3>3. \A s \in S : s \in 1..n /\ s <= x /\ s # x
      BY <2>1, <3>1, <3>2
    <3>4. QED
      BY <1>4, <3>3
  <2>3. Tells(t, S \cup {x}, Seq(Tokens)) /\ t[x] \in Seq(Tokens)
    <3>1. \A s \in S \cup {x} : s \in 0..n
      BY <1>4, <2>2
    <3>2. QED
      BY <3>1, TextIs DEF t, n, Tells
  <2>4. Within(n, t, S \cup {x}) = w \o t[x]
    <3> HIDE DEF S
    <3>1. Behind(n, S, x)
      BY <1>4, <2>2 DEF Behind
    <3>2. Continued(Within(n, t, S \cup {x}), Within(n, t, S), t[x])
      BY <1>4, <2>3, <3>1, WithinLast
    <3>3. QED
      BY <3>2 DEF Continued
  <2>5. i \in Seq(Tokens) /\ w \in Seq(Tokens) /\ t[x] \in Seq(Tokens)
    BY <1>4, <2>3, StartedType DEF n, t
  <2>6. G[l] = i \o w /\ H[l] = i \o Within(n, t, S \cup {x})
    BY <1>1, <1>6, <2>1 DEF Started, y, n
  <2> HIDE DEF S, i, w
  <2>7. (i \o w) \o t[x] = i \o (w \o t[x])
    <3>1. Regrouped(i, w, t[x])
      BY <2>5, Regroup
    <3>2. QED
      BY <3>1 DEF Regrouped
  <2>8. QED
    BY <2>4, <2>6, <2>7
<1>9. t[x] = G[m] \o <<Closing(c[x])>>
  <2>1. In(c, x) \ P = In(c, x) \ {}
    <3>1. \A i \in In(c, x) : i \in 1..n /\ c[i].parent = x
      BY InnerIs DEF In, n
    <3>2. \A i \in In(c, x) : i > x
      BY <1>4, <3>1, TreeParts DEF n
    <3>3. \A i \in P : i \in Nat /\ i <= x
      BY <1>4, <1>5
    <3>4. \A i \in In(c, x) : i \notin P
      BY <1>4, <3>1, <3>2, <3>3
    <3>5. QED
      BY <3>4
  <2>2. G[m] = Started(c, t, {}, x)
    <3>1. G[m] = Started(c, t, P, x)
      BY <1>1, <1>6 DEF m
    <3>2. QED
      BY <2>1, <3>1 DEF Started
  <2>3. QED
    BY <1>4, <2>2, TextEnds DEF t, n
<1>10. SoFar(c, t, q) = SoFar(c, t, p) \o <<Closing(c[x])>>
  <2> DEFINE u == UpTo(G, h)
             d == G[l]
             e == G[m]
             z == <<Closing(c[x])>>
  <2>1. Tells(G, 1..m, Seq(Tokens)) /\ Tells(H, 1..l, Seq(Tokens))
    BY <1>1, <1>3, PiecesAre DEF G, H, t, m
  <2>2. Tells(G, 1..l, Seq(Tokens)) /\ Tells(G, 1..h, Seq(Tokens))
    <3>1. \A k \in 1..l : k \in 1..m
      BY <1>1
    <3>2. \A k \in 1..h : k \in 1..m
      BY <1>1
    <3>3. QED
      BY <2>1, <3>1, <3>2 DEF Tells
  <2>3. UpTo(G, m) = UpTo(G, l) \o e /\ e \in Seq(Tokens)
    BY <1>1, <2>1, UpToNext
  <2>4. UpTo(G, l) = u \o d /\ d \in Seq(Tokens)
    BY <1>1, <2>2, UpToNext
  <2>5. u \in Seq(Tokens)
    BY <1>1, <2>2, UpToIs
  <2>6. UpTo(H, l) = UpTo(H, h) \o H[l]
    BY <1>1, <2>1, UpToNext
  <2>7. UpTo(H, h) = u
    BY <1>7, UpToSame
  <2>8. z \in Seq(Tokens)
    BY TokenTypes DEF Closing
  <2>9. SoFar(c, t, p) = UpTo(G, m) /\ SoFar(c, t, q) = UpTo(H, l)
    BY <1>1 DEF SoFar, G, H, m
  <2>10. H[l] = d \o (e \o z)
    BY <1>8, <1>9
  <2> HIDE DEF u, d, e, z
  <2>11. u \o (d \o (e \o z)) = ((u \o d) \o e) \o z
    <3> DEFINE de == d \o e
    <3>1. de \in Seq(Tokens)
      BY <2>3, <2>4, ConcatProperties
    <3>2. Regrouped(d, e, z) /\ Regrouped(u, d, e)
      BY <2>3, <2>4, <2>5, <2>8, Regroup
    <3>3. Regrouped(u, de, z)
      <4> HIDE DEF de
      <4> QED BY <2>5, <2>8, <3>1, Regroup
    <3>4. QED
      BY <3>2, <3>3 DEF Regrouped
  <2>12. QED
    BY <2>3, <2>4, <2>6, <2>7, <2>9, <2>10, <2>11 DEF z
<1>11. QED
  BY <1>3, <1>10 DEF t, Continued

LEMMA FileWritten ==
  ASSUME NEW c \in Trees, NEW p, Spine(c, p), Len(p) = 1
  PROVE  SoFar(c, Text(c), p) = Text(c)[0]
<1> DEFINE t == Text(c)
           G == Pieces(c, t, p)
           n == Len(c)
           w == Within(n, t, In(c, 0))
<1>1. p[1] = 0 /\ Places(p) = {0} /\ n \in Nat /\ 0 \in 0..n
  BY TreeParts DEF Spine, Places
<1>2. In(c, 0) \ {0} = In(c, 0) /\ In(c, 0) \ {} = In(c, 0)
  <2>1. In(c, 0) \subseteq 1..n
    BY InnerIs
  <2>2. QED
    BY <1>1, <2>1
<1>3. w \in Seq(Tokens)
  <2>1. Within(n, t, In(c, 0) \ {}) \in Seq(Tokens)
    BY <1>1, StartedType
  <2>2. QED
    BY <1>2, <2>1
<1>4. t[0] = w
  <2>1. t[0] = TextOf(c, t, 0)
    BY <1>1, TextIs
  <2>2. QED
    BY <2>1, InnerIs DEF TextOf
<1>5. G[1] = w
  <2>1. 1 \in 1..Len(p)
    OBVIOUS
  <2>2. G[1] = Started(c, t, {0}, 0)
    BY <1>1, <2>1 DEF Pieces
  <2>3. G[1] = <<>> \o w
    BY <1>2, <2>2 DEF Started, Intro
  <2> HIDE DEF w, G
  <2>4. QED
    BY <1>3, <2>3, ConcatEmptySeq
<1>6. SoFar(c, t, p) = UpTo(G, 0) \o G[1] /\ UpTo(G, 0) = <<>>
  <2>1. Tells(G, 1..1, Seq(Tokens))
    <3>1. Tells(G, 1..Len(p), Seq(Tokens))
      BY PiecesAre
    <3>2. QED
      BY <3>1
  <2> HIDE DEF G
  <2>2. \A k \in Nat : Tells(G, 1..k + 1, Seq(Tokens)) => UpTo(G, k + 1) = UpTo(G, k) \o G[k + 1]
    BY UpToNext
  <2>3. UpTo(G, 1) = UpTo(G, 0) \o G[1]
    <3>1. 0 \in Nat /\ 0 + 1 = 1
      OBVIOUS
    <3>2. QED
      BY <2>1, <2>2, <3>1
  <2>4. UpTo(G, 0) = <<>>
    BY <2>1, UpToIs
  <2>5. QED
    BY <2>3, <2>4 DEF SoFar, G
<1> HIDE DEF t, G, w
<1>7. <<>> \o w = w
  BY <1>3, ConcatEmptySeq
<1>8. QED
  BY <1>4, <1>5, <1>6, <1>7 DEF t

\* The first of the unfinished statements.
LEMMA Cut ==
  ASSUME NEW p \in Seq(Nat), NEW k \in 0..Len(p)
  PROVE  /\ SubSeq(p, 1, k) \in Seq(Nat) /\ Len(SubSeq(p, 1, k)) = k
         /\ \A j \in 1..k : SubSeq(p, 1, k)[j] = p[j]
<1>1. k \in Nat /\ \A j \in 1..k : j \in 1..Len(p)
  BY LenProperties
<1>2. \A j \in 1..k : p[j] \in Nat
  BY <1>1, ElementOfSeq
<1>3. /\ SubSeq(p, 1, k) \in Seq(Nat)
      /\ Len(SubSeq(p, 1, k)) = IF 1 <= k THEN k - 1 + 1 ELSE 0
      /\ \A j \in 1..k - 1 + 1 : SubSeq(p, 1, k)[j] = p[1 + j - 1]
  BY <1>1, <1>2, SubSeqProperties
<1>4. k - 1 + 1 = k /\ \A j \in 1..k : 1 + j - 1 = j
  BY <1>1
<1>5. QED
  BY <1>1, <1>3, <1>4

Braces(k) == [n \in 1..k |-> EndBlock]

LEMMA BracesNext ==
  ASSUME NEW k \in Nat
  PROVE  Braces(k) \in Seq(Tokens) /\ Braces(0) = <<>> /\ Braces(k + 1) = Braces(k) \o <<EndBlock>>
<1> DEFINE g == [n \in Nat |-> EndBlock]
<1>1. \A j \in 1..k + 1 : g[j] = EndBlock /\ g[j] \in Tokens
  BY TokenTypes
<1>2. [j \in 1..k |-> g[j]] = Braces(k) /\ [j \in 1..k + 1 |-> g[j]] = Braces(k + 1)
  BY DEF Braces
<1>3. g[k + 1] = EndBlock
  OBVIOUS
<1> HIDE DEF g
<1>4. Braces(k) \in Seq(Tokens) /\ Braces(k + 1) = Append(Braces(k), EndBlock)
  <2>1. /\ [j \in 1..k |-> g[j]] \in Seq(Tokens)
        /\ [j \in 1..k + 1 |-> g[j]] = Append([j \in 1..k |-> g[j]], g[k + 1])
    BY <1>1, OnePlaceMore
  <2>2. QED
    BY <1>2, <1>3, <2>1
<1>5. Braces(0) = <<>>
  <2>1. 1..0 = {}
    OBVIOUS
  <2>2. QED
    BY <2>1 DEF Braces
<1>6. QED
  BY <1>4, <1>5, TokenTypes, AppendIsConcat

\* All is written once the open blocks have been closed.
LEMMA AllClosed ==
  ASSUME NEW c \in Trees, NEW p, Spine(c, p), \A k \in 2..Len(p) : c[p[k]].block
  PROVE  Text(c)[0] = SoFar(c, Text(c), p) \o Braces(Len(p) - 1)
<1> DEFINE m == Len(p)
           t == Text(c)
           a == SoFar(c, t, p)
           Q(j) == SubSeq(p, 1, m - j)
           T == {j \in 0..m - 1 : Spine(c, Q(j)) /\ SoFar(c, t, Q(j)) = a \o Braces(j)}
<1>1. m \in Nat /\ m >= 1 /\ p \in Seq(Nat)
  BY SpineParts DEF Spine
<1>2. \A j \in 0..m - 1 :
        /\ m - j \in 1..m /\ Q(j) \in Seq(Nat) /\ Len(Q(j)) = m - j
        /\ \A k \in 1..m - j : Q(j)[k] = p[k]
  <2> TAKE j \in 0..m - 1
  <2>1. m - j \in 0..m /\ m - j \in 1..m
    BY <1>1
  <2>2. QED
    BY <1>1, <2>1, Cut
<1>3. a \in Seq(Tokens)
  <2>1. Tells(Pieces(c, t, p), 1..m, Seq(Tokens))
    BY PiecesAre
  <2> HIDE DEF t, m
  <2>2. UpTo(Pieces(c, t, p), m) \in Seq(Tokens)
    BY <1>1, <2>1, UpToIs
  <2>3. QED
    BY <2>2 DEF SoFar, m
<1> HIDE DEF a
<1>4. 0 \in T
  <2>1. Q(0) = p
    <3>1. SubSeq(p, 1, m) = p
      BY <1>1, SubSeqFull
    <3>2. m - 0 = m
      BY <1>1
    <3>3. QED
      BY <3>1, <3>2
  <2>2. a \o Braces(0) = a
    <3>1. Braces(0) = <<>>
      BY BracesNext
    <3>2. QED
      BY <1>3, <3>1, ConcatEmptySeq
  <2>3. 0 \in 0..m - 1
    BY <1>1
  <2> HIDE DEF t, m
  <2>4. QED
    BY <2>1, <2>2, <2>3 DEF a
<1>5. ASSUME NEW j \in 1..m - 1, j - 1 \in T PROVE j \in T
  <2> DEFINE i == j - 1
             q == Q(i)
             r == Q(j)
             x == p[m - i]
  <2>1. /\ i \in 0..m - 1 /\ j \in 0..m - 1 /\ m - j = m - i - 1 /\ m - i > 1 /\ i \in Nat
        /\ m - i \in 1..m /\ m - i \in 2..m /\ i + 1 = j
    BY <1>1
  <2>2. Spine(c, q) /\ SoFar(c, t, q) = a \o Braces(i)
    BY <1>5
  <2>3. /\ q \in Seq(Nat) /\ Len(q) = m - i /\ \A k \in 1..m - i : q[k] = p[k]
        /\ r \in Seq(Nat) /\ Len(r) = m - j /\ \A k \in 1..m - j : r[k] = p[k]
    BY <1>2, <2>1
  <2>4. Len(r) = Len(q) - 1 /\ Len(q) > 1
    <3> HIDE DEF q, r, i
    <3> QED BY <2>1, <2>3
  <2>5. \A k \in 1..Len(r) : r[k] = q[k]
    <3>1. \A k \in 1..m - j : k \in 1..m - i
      BY <2>1
    <3> HIDE DEF q, r, i
    <3>2. QED
      BY <2>3, <3>1
  <2>6. x = q[Len(q)] /\ c[x].block
    <3>1. m - i \in 1..m - i
      BY <2>1
    <3> HIDE DEF q, r, i
    <3>2. QED
      BY <2>1, <2>3, <3>1
  <2> HIDE DEF q, r, x, i, t
  <2>7. Spine(c, r) /\ SoFar(c, t, r) = SoFar(c, t, q) \o <<EndBlock>>
    <3>1. Spine(c, r) /\ Continued(SoFar(c, t, r), SoFar(c, t, q), <<Closing(c[x])>>)
      BY <2>2, <2>3, <2>4, <2>5, <2>6, Closed DEF t
    <3>2. QED
      BY <2>6, <3>1 DEF Closing, Continued
  <2>8. (a \o Braces(i)) \o <<EndBlock>> = a \o Braces(j)
    <3>1. Braces(i) \in Seq(Tokens) /\ Braces(j) = Braces(i) \o <<EndBlock>>
      BY <2>1, BracesNext
    <3>2. <<EndBlock>> \in Seq(Tokens)
      BY TokenTypes
    <3> DEFINE b == Braces(i)
               e == <<EndBlock>>
    <3> HIDE DEF b, e
    <3>3. Regrouped(a, b, e)
      BY <1>3, <3>1, <3>2, Regroup DEF b, e
    <3>4. QED
      BY <3>1, <3>3 DEF Regrouped, b, e
  <2>9. QED
    BY <2>1, <2>2, <2>7, <2>8 DEF r
<1>6. m - 1 \in T
  <2>1. 0..m - 1 \subseteq T
    <3> HIDE DEF T
    <3>1. m - 1 \in Nat
      BY <1>1
    <3>2. QED
      BY <1>4, <1>5, <3>1, Counting
  <2>2. m - 1 \in 0..m - 1
    BY <1>1
  <2>3. QED
    BY <2>1, <2>2
<1>7. Spine(c, Q(m - 1)) /\ SoFar(c, t, Q(m - 1)) = a \o Braces(m - 1) /\ Len(Q(m - 1)) = 1
  <2>1. m - 1 \in 0..m - 1 /\ m - (m - 1) = 1
    BY <1>1
  <2>2. Len(Q(m - 1)) = 1
    BY <1>2, <2>1
  <2>3. QED
    BY <1>6, <2>2
<1>8. SoFar(c, t, Q(m - 1)) = t[0]
  <2> DEFINE q == Q(m - 1)
  <2> HIDE DEF q, t
  <2>1. Spine(c, q) /\ Len(q) = 1
    BY <1>7 DEF q, t
  <2>2. SoFar(c, Text(c), q) = Text(c)[0]
    BY <2>1, FileWritten
  <2>3. QED
    BY <2>2 DEF q, t
<1>9. QED
  BY <1>7, <1>8 DEF a

\* What an unfinished statement is written with is the same in a larger tree,
\* if the finished statements are and it has the same ones in its block.
Unmoved(c, d, S) == \A i \in S : d[i] = c[i] /\ In(d, i) = In(c, i)

LEMMA StartedSame ==
  ASSUME NEW c \in Trees, NEW d \in Trees, Len(d) \in {Len(c), Len(c) + 1},
         NEW p, Spine(c, p), NEW Q,
         Unmoved(c, d, (1..Len(c)) \ Places(p)),
         NEW b \in 0..Len(c), In(d, b) \ Q = In(c, b) \ Places(p), Intro(d, b) = Intro(c, b)
  PROVE  Started(d, Text(d), Q, b) = Started(c, Text(c), Places(p), b)
<1> DEFINE n == Len(c)
           P == Places(p)
           K == (1..n) \ P
           S == In(c, b) \ P
           t == Text(c)
           u == Text(d)
<1>1. n \in Nat /\ In(c, b) \subseteq 1..n
  BY TreeParts, InnerIs
<1>2. S \subseteq K
  BY <1>1
<1>3. ASSUME NEW i \in K PROVE d[i] = c[i] /\ In(d, i) = In(c, i) /\ In(c, i) \subseteq K
  <2>1. \A j \in In(c, i) : j \in 1..n /\ c[j].parent = i
    BY InnerIs DEF In
  <2>2. ASSUME NEW j \in In(c, i), j \in P PROVE FALSE
    <3>1. PICK k \in 1..Len(p) : j = p[k]
      BY <2>2 DEF Places
    <3>2. j # 0
      BY <1>1, <2>1
    <3>3. k \in 2..Len(p) /\ k - 1 \in 1..Len(p)
      <4>1. k # 1 /\ Len(p) \in Nat
        BY <3>1, <3>2, SpineParts
      <4>2. QED
        BY <4>1
    <3>4. c[j].parent = p[k - 1]
      BY <3>1, <3>3 DEF Spine
    <3>5. i \in P
      BY <2>1, <3>3, <3>4 DEF Places
    <3>6. QED
      BY <3>5
  <2>3. d[i] = c[i] /\ In(d, i) = In(c, i)
    BY DEF Unmoved
  <2>4. QED
    BY <2>1, <2>2, <2>3
<1>4. \A i \in K : u[i] = t[i]
  <2>1. K \subseteq 1..n
    OBVIOUS
  <2> HIDE DEF K, u, t
  <2>2. QED
    BY <1>3, <2>1, TextsAgree DEF u, t
<1>5. \A i \in S : u[i] = t[i] /\ t[i] \in Seq(Tokens)
  <2>1. \A i \in S : i \in 0..n
    BY <1>1
  <2>2. \A i \in S : t[i] \in Seq(Tokens)
    BY <2>1, TextIs
  <2>3. QED
    BY <1>2, <1>4, <2>2
<1> HIDE DEF K, t, u, S
<1>6. Within(Len(d), u, S) = Within(n, t, S)
  <2>1. S \subseteq 1..n /\ \A i \in S : u[i] \in Seq(Tokens)
    BY <1>1, <1>5 DEF S
  <2>2. Within(n, u, S) = Within(n, t, S)
    <3> HIDE DEF n
    <3> QED BY <1>1, <1>5, <2>1, WithinSame
  <2>3. Within(n + 1, u, S) = Within(n, u, S)
    <3> HIDE DEF n
    <3> QED BY <1>1, <2>1, WithinIs
  <2>4. QED
    BY <2>2, <2>3
<1>7. QED
  BY <1>6 DEF Started, S, t, u

\* The statement that is being read changes: the rest stays as it is written.
LEMMA LastChanged ==
  ASSUME NEW c \in Trees, NEW d \in Trees, Len(d) = Len(c),
         NEW p, Spine(c, p), p[Len(p)] = Len(c), Len(p) > 1,
         \A i \in 1..Len(c) : d[i].parent = c[i].parent,
         \A i \in 1..Len(c) : i # Len(c) => d[i] = c[i],
         NEW z \in Tokens, Intro(d, Len(c)) = Append(Intro(c, Len(c)), z)
  PROVE  /\ Spine(d, p)
         /\ Continued(SoFar(d, Text(d), p), SoFar(c, Text(c), p), <<z>>)
<1> DEFINE m == Len(p)
           n == Len(c)
           l == m - 1
           t == Text(c)
           u == Text(d)
           G == Pieces(c, t, p)
           H == Pieces(d, u, p)
           P == Places(p)
<1>1. /\ m \in Nat /\ m > 1 /\ n \in Nat /\ l \in Nat /\ m = l + 1 /\ m \in 1..m
      /\ \A k \in 1..l : k \in 1..m /\ k < m
      /\ DOMAIN c = 1..n /\ DOMAIN d = 1..n
  BY SpineParts, TreeParts
<1>2. \A b : In(d, b) = In(c, b)
  BY <1>1 DEF In
<1>3. Spine(d, p)
  <2>1. \A k \in 2..m : p[k] \in 1..n
    <3>1. \A k \in 2..m : p[k] \in In(c, p[k - 1])
      BY SpineParts
    <3>2. QED
      BY <1>1, <3>1 DEF In
  <2>2. \A k \in 2..m : d[p[k]].parent = p[k - 1]
    BY <2>1 DEF Spine
  <2>3. QED
    BY <1>2, <2>2 DEF Spine
<1>4. /\ \A k \in 1..m : p[k] \in 0..n
      /\ \A k \in 1..l : p[k] # n
      /\ n \in P
  <2>1. \A k \in 1..m : p[k] \in 0..n
    BY SpineParts
  <2>2. \A k \in 1..l : p[k] < p[m]
    BY <1>1, SpineParts
  <2>3. \A k \in 1..l : p[k] # n
    <3>1. p[m] = n
      OBVIOUS
    <3> HIDE DEF m, n, l
    <3>2. ASSUME NEW k \in 1..l, p[k] = n PROVE FALSE
      <4>1. n < n
        BY <2>2, <3>1, <3>2
      <4>2. QED
        BY <1>1, <4>1
    <3>3. QED
      BY <3>2
  <2>4. QED
    BY <1>1, <2>1, <2>3 DEF Places
<1>5. /\ \A k \in 1..m : G[k] = Started(c, t, P, p[k]) /\ H[k] = Started(d, u, P, p[k])
  BY DEF Pieces
<1>6. Unmoved(c, d, (1..n) \ P)
  BY <1>2, <1>4 DEF Unmoved
<1>7. \A k \in 1..l : H[k] = G[k]
  <2> TAKE k \in 1..l
  <2>1. p[k] \in 0..n /\ p[k] # n
    BY <1>1, <1>4
  <2>2. p[k] = 0 \/ d[p[k]] = c[p[k]]
    <3>1. p[k] = 0 \/ p[k] \in 1..n
      <4> HIDE DEF n, m, l
      <4> QED BY <1>1, <2>1
    <3>2. QED
      BY <2>1, <3>1
  <2>3. Intro(d, p[k]) = Intro(c, p[k])
    BY <2>2 DEF Intro
  <2>4. In(d, p[k]) \ P = In(c, p[k]) \ P
    BY <1>2
  <2> HIDE DEF P, t, u, n, l, m, G, H
  <2>5. Started(d, u, P, p[k]) = Started(c, t, P, p[k])
    <3>1. Len(d) \in {n, n + 1}
      BY DEF n
    <3>2. QED
      BY <1>6, <2>1, <2>3, <2>4, <3>1, StartedSame DEF t, u, n, P
  <2>6. QED
    BY <1>1, <1>5, <2>5
<1>8. H[m] = Append(G[m], z) /\ G[m] \in Seq(Tokens)
  <2> DEFINE i == Intro(c, n)
  <2>1. In(c, n) = {}
    <3>1. \A j \in In(c, n) : j \in 1..n /\ n < j
      BY TreeParts, InnerIs DEF In
    <3> HIDE DEF n, m, l
    <3>2. QED
      BY <1>1, <3>1
  <2>2. In(d, n) \ P = {} /\ In(c, n) \ P = {}
    BY <1>2, <2>1
  <2>3. Within(Len(d), u, {}) = <<>> /\ Within(n, t, {}) = <<>>
    BY <1>1, WithinNone
  <2>4. G[m] = Started(c, t, P, n) /\ H[m] = Started(d, u, P, n)
    BY <1>1, <1>5
  <2>5. i \in Seq(Tokens)
    <3>1. n \in 0..n
      <4> HIDE DEF n, m, l
      <4> QED BY <1>1
    <3>2. QED
      BY <3>1, StartedType
  <2>6. G[m] = i \o <<>> /\ H[m] = Append(i, z) \o <<>>
    BY <2>2, <2>3, <2>4 DEF Started
  <2> HIDE DEF i, G, H
  <2>7. Append(i, z) \in Seq(Tokens)
    BY <2>5, AppendProperties
  <2>8. i \o <<>> = i /\ Append(i, z) \o <<>> = Append(i, z)
    BY <2>5, <2>7, ConcatEmptySeq
  <2>9. QED
    BY <2>5, <2>6, <2>8
<1>9. SoFar(d, u, p) = SoFar(c, t, p) \o <<z>>
  <2> DEFINE a == UpTo(G, l)
             g == G[m]
             e == <<z>>
  <2>1. Tells(G, 1..m, Seq(Tokens)) /\ Tells(H, 1..m, Seq(Tokens))
    BY <1>3, PiecesAre
  <2>2. Tells(G, 1..l, Seq(Tokens))
    BY <1>1, <2>1 DEF Tells
  <2> HIDE DEF G, H, t, u, l, m
  <2>3. UpTo(G, m) = a \o G[m] /\ UpTo(H, m) = UpTo(H, l) \o H[m] /\ a \in Seq(Tokens)
    BY <1>1, <2>1, <2>2, UpToNext, UpToIs
  <2>4. UpTo(H, l) = a
    BY <1>7, UpToSame
  <2>5. e \in Seq(Tokens) /\ H[m] = g \o e
    BY <1>8, AppendIsConcat
  <2> HIDE DEF a, g, e
  <2>6. Regrouped(a, g, e)
    BY <1>8, <2>3, <2>5, Regroup DEF g
  <2>7. UpTo(H, m) = UpTo(G, m) \o e
    BY <2>3, <2>4, <2>5, <2>6 DEF Regrouped, g
  <2>8. QED
    BY <2>7 DEF SoFar, G, H, m, e
<1>10. QED
  BY <1>3, <1>9 DEF Continued, t, u

\* A new statement begins, at the end of the block that is open.
LEMMA StatementBegun ==
  ASSUME NEW c \in Trees, NEW s \in Statements, ~s.block, NEW d \in Trees, Continued(d, c, <<s>>),
         NEW p, Spine(c, p), s.parent = p[Len(p)],
         NEW q, q = Append(p, Len(c) + 1)
  PROVE  /\ Spine(d, q)
         /\ Continued(SoFar(d, Text(d), q), SoFar(c, Text(c), p), WordsOf(s))
<1> DEFINE m == Len(p)
           n == Len(c)
           x == n + 1
           t == Text(c)
           u == Text(d)
           G == Pieces(c, t, p)
           H == Pieces(d, u, q)
           P == Places(p)
           Q == Places(q)
<1>1. /\ m \in Nat /\ m >= 1 /\ m \in 1..m /\ n \in Nat /\ DOMAIN c = 1..n /\ c \in Seq(Statements)
      /\ p \in Seq(Nat)
  BY SpineParts, TreeParts DEF Trees, Spine
<1>2. /\ Len(d) = x /\ DOMAIN d = 1..x /\ d[x] = s /\ \A i \in 1..n : d[i] = c[i]
  <2>1. d = Append(c, s)
    BY <1>1, AppendIsConcat DEF Continued
  <2>2. Len(d) = x /\ d[x] = s /\ \A i \in 1..n : d[i] = c[i]
    BY <1>1, <2>1, AppendProperties
  <2>3. QED
    BY <2>2, TreeParts
<1>3. /\ q \in Seq(Nat) /\ Len(q) = m + 1 /\ q[m + 1] = x /\ \A k \in 1..m : q[k] = p[k]
  BY <1>1, AppendProperties
<1>4. /\ \A k \in 1..m : p[k] \in 0..n /\ (p[k] = 0 <=> k = 1)
      /\ \A k \in 2..m : p[k] \in In(c, p[k - 1]) /\ k - 1 \in 1..m
      /\ \A j, k \in 1..m : j < k => p[j] < p[k]
  BY SpineParts
<1>5. \A b : In(d, b) = IF b = p[m] THEN In(c, b) \cup {x} ELSE In(c, b)
  <2>1. \A i \in 1..x : i \in 1..n \/ i = x
    BY <1>1
  <2>2. \A i \in 1..n : i \in 1..x /\ i # x
    BY <1>1
  <2>3. x \in 1..x
    BY <1>1
  <2> HIDE DEF x, n, m
  <2>4. QED
    BY <1>1, <1>2, <2>1, <2>2, <2>3 DEF In, m
<1>6. \A k \in 1..m + 1 : k \in 1..m \/ k = m + 1
  BY <1>1
<1>7. \A b : \A i \in In(c, b) : i \in Nat /\ i <= n
  BY <1>1 DEF In
<1>8. Spine(d, q)
  <2>1. q[1] = 0 /\ Len(q) >= 1
    <3>1. 1 \in 1..m
      BY <1>1
    <3>2. QED
      BY <1>1, <1>3, <3>1 DEF Spine
  <2>2. \A k \in 1..m + 1 : q[k] <= x
    <3>1. \A k \in 1..m : q[k] \in Nat /\ q[k] <= n
      BY <1>1, <1>3, <1>4
    <3>2. QED
      BY <1>1, <1>3, <1>6, <3>1
  <2>3. ASSUME NEW k \in 2..m + 1
        PROVE  q[k] # 0 /\ d[q[k]].parent = q[k - 1] /\ \A i \in In(d, q[k - 1]) : i <= q[k]
    <3>1. CASE k \in 2..m
      <4>1. k \in 1..m /\ k # 1 /\ k - 1 \in 1..m /\ k - 1 < k /\ k - 1 < m
        BY <3>1
      <4>2. q[k] = p[k] /\ q[k - 1] = p[k - 1]
        BY <1>3, <4>1
      <4>3. p[k] # 0 /\ p[k] \in 1..n
        BY <1>1, <1>4, <4>1
      <4>4. c[p[k]].parent = p[k - 1] /\ \A i \in In(c, p[k - 1]) : i <= p[k]
        BY <3>1 DEF Spine
      <4>5. p[k - 1] # p[m]
        <5>1. p[k - 1] < p[m] /\ p[k - 1] \in 0..n /\ p[m] \in 0..n
          BY <1>1, <1>4, <4>1
        <5>2. QED
          BY <1>1, <5>1
      <4>6. In(d, p[k - 1]) = In(c, p[k - 1])
        BY <1>5, <4>5
      <4>7. QED
        BY <1>2, <4>2, <4>3, <4>4, <4>6
    <3>2. CASE k = m + 1
      <4>1. q[k] = x /\ q[k - 1] = p[m] /\ x # 0
        BY <1>1, <1>3, <3>2
      <4>2. \A i \in In(c, p[m]) \cup {x} : i <= x
        BY <1>1, <1>7
      <4>3. d[x].parent = p[m]
        BY <1>2
      <4>4. QED
        BY <1>5, <4>1, <4>2, <4>3
    <3>3. k \in 2..m \/ k = m + 1
      <4> HIDE DEF m
      <4> QED BY <1>1
    <3>4. QED
      BY <3>1, <3>2, <3>3
  <2>4. QED
    BY <1>2, <1>3, <2>1, <2>2, <2>3 DEF Spine
<1>9. Q = P \cup {x} /\ x \notin P /\ p[m] \in P
  <2>1. \A i \in P : i \in 0..n
    BY <1>4 DEF Places
  <2>0. x \notin P /\ p[m] \in P
    <3>1. x \notin 0..n
      BY <1>1
    <3>2. p[m] \in P
      BY <1>1 DEF Places
    <3>3. x \notin P
      <4> HIDE DEF x, P, n
      <4> QED BY <2>1, <3>1
    <3>4. QED
      BY <3>2, <3>3
  <2>2. \A k \in 1..m : k \in 1..m + 1
    BY <1>1
  <2>3. m + 1 \in 1..m + 1
    BY <1>1
  <2>4. Q = P \cup {x}
    BY <1>3, <1>6, <2>2, <2>3 DEF Places
  <2>5. QED
    BY <2>0, <2>4
<1>10. /\ \A k \in 1..m : G[k] = Started(c, t, P, p[k]) /\ H[k] = Started(d, u, Q, p[k])
       /\ H[m + 1] = Started(d, u, Q, x)
  <2>1. \A k \in 1..m : k \in 1..m + 1
    BY <1>1
  <2>2. m + 1 \in 1..m + 1
    BY <1>1
  <2>3. QED
    BY <1>3, <2>1, <2>2 DEF Pieces
<1> HIDE DEF m, n, x, t, u, G, H, P, Q
<1>11. Unmoved(c, d, (1..n) \ P)
  BY <1>2, <1>5, <1>9 DEF Unmoved
<1>12. \A k \in 1..m : H[k] = G[k]
  <2> TAKE k \in 1..m
  <2>1. p[k] \in 0..n /\ (p[k] = 0 \/ p[k] \in 1..n)
    BY <1>1, <1>4
  <2>2. Intro(d, p[k]) = Intro(c, p[k])
    BY <1>2, <2>1 DEF Intro
  <2>3. In(d, p[k]) \ Q = In(c, p[k]) \ P
    <3>1. x \notin In(c, p[k])
      BY <1>1, <1>7 DEF x
    <3>2. QED
      BY <1>5, <1>9, <3>1
  <2>4. Started(d, u, Q, p[k]) = Started(c, t, P, p[k])
    <3> DEFINE b == p[k]
    <3>1. Len(d) \in {Len(c), Len(c) + 1}
      BY <1>2 DEF x, n
    <3>2. Unmoved(c, d, (1..Len(c)) \ Places(p)) /\ b \in 0..Len(c)
      BY <1>11, <2>1 DEF n, P
    <3>3. In(d, b) \ Q = In(c, b) \ Places(p) /\ Intro(d, b) = Intro(c, b)
      BY <2>2, <2>3 DEF P
    <3> HIDE DEF b
    <3>4. Started(d, Text(d), Q, b) = Started(c, Text(c), Places(p), b)
      BY <3>1, <3>2, <3>3, StartedSame
    <3>5. QED
      BY <3>4 DEF t, u, P, b
  <2>5. QED
    BY <1>10, <2>4
<1>13. H[m + 1] = WordsOf(s) /\ WordsOf(s) \in Seq(Tokens)
  <2> DEFINE w == WordsOf(s)
  <2>1. w \in Seq(Tokens)
    BY WordsType
  <2>2. In(d, x) = {}
    <3>1. \A j \in In(d, x) : j \in 1..x /\ x < j
      BY <1>2, TreeParts, InnerIs DEF In
    <3>2. QED
      BY <1>1, <3>1 DEF x
  <2>3. Within(Len(d), u, {}) = <<>>
    <3>1. Len(d) \in Nat
      BY TreeParts
    <3>2. QED
      BY <3>1, WithinNone
  <2>4. Intro(d, x) = w
    BY <1>1, <1>2 DEF Intro, x
  <2>5. H[m + 1] = w \o <<>>
    <3>1. In(d, x) \ Q = {}
      BY <2>2
    <3>2. QED
      BY <1>10, <2>3, <2>4, <3>1 DEF Started
  <2> HIDE DEF w
  <2>6. w \o <<>> = w
    BY <2>1, ConcatEmptySeq
  <2>7. QED
    BY <2>1, <2>5, <2>6 DEF w
<1>14. SoFar(d, u, q) = SoFar(c, t, p) \o WordsOf(s)
  <2>1. Tells(H, 1..m + 1, Seq(Tokens))
    <3>1. Tells(H, 1..Len(q), Seq(Tokens))
      BY <1>8, PiecesAre DEF H, u
    <3>2. QED
      BY <1>3, <3>1
  <2>2. UpTo(H, m + 1) = UpTo(H, m) \o H[m + 1]
    BY <1>1, <2>1, UpToNext
  <2>3. UpTo(H, m) = UpTo(G, m)
    BY <1>12, UpToSame
  <2>4. QED
    BY <1>3, <1>13, <2>2, <2>3 DEF SoFar, G, H, m
<1>15. QED
  BY <1>8, <1>14 DEF Continued, t, u

\* Of the file f the tree c has been read, and p is not finished: what is
\* written of the tree so far is the file without its comments.
Reads(c, p, f) == Spine(c, p) /\ Leaving(f, {Comment}) = SoFar(c, Text(c), p)

LEMMA TokenNames ==
  /\ StartBlock # Comment /\ EndBlock # Comment /\ End # Comment
  /\ \A w : Normal(w) # Comment
BY DEF StartBlock, EndBlock, End, Comment, Normal, Separator, Token

LEMMA ReadOn ==
  ASSUME NEW c \in Trees, NEW d \in Trees, NEW p, NEW q, NEW f \in Seq(Tokens),
         NEW z \in Tokens, z # Comment, Reads(c, p, f), Spine(d, q),
         Continued(SoFar(d, Text(d), q), SoFar(c, Text(c), p), <<z>>)
  PROVE  Reads(d, q, Append(f, z))
<1> DEFINE a == Leaving(f, {Comment})
<1>1. a \in Seq(Tokens) /\ Leaving(Append(f, z), {Comment}) = Append(a, z)
  BY LeavingAppend
<1>2. a = SoFar(c, Text(c), p)
  BY DEF Reads
<1>3. SoFar(d, Text(d), q) = a \o <<z>>
  BY <1>2 DEF Continued
<1> HIDE DEF a
<1>4. Append(a, z) = a \o <<z>>
  BY <1>1, AppendIsConcat
<1>5. QED
  BY <1>1, <1>3, <1>4 DEF Reads

\* A word begins a statement in the innermost of what is not finished.
LEMMA WordBegun ==
  ASSUME NEW c \in Trees, NEW d \in Trees, NEW p, NEW f \in Seq(Tokens), Reads(c, p, f),
         NEW w \in Words, Continued(d, c, <<Statement(<<w>>, p[Len(p)])>>)
  PROVE  Reads(d, Append(p, Len(c) + 1), Append(f, Normal(w)))
<1> DEFINE s == Statement(<<w>>, p[Len(p)])
           q == Append(p, Len(c) + 1)
<1>1. Spine(c, p)
  BY DEF Reads
<1>2. s \in Statements /\ ~s.block /\ s.parent = p[Len(p)] /\ s.tokens = <<w>>
  <2>1. p[Len(p)] \in Nat
    <3>1. Len(p) \in 1..Len(p) /\ Len(c) \in Nat
      BY <1>1, SpineParts, TreeParts
    <3>2. p[Len(p)] \in 0..Len(c)
      BY <1>1, <3>1, SpineParts
    <3>3. QED
      BY <3>1, <3>2
  <2> DEFINE i == p[Len(p)]
  <2> HIDE DEF i
  <2>2. Statement(<<w>>, i) \in Statements /\ ~Statement(<<w>>, i).block
        /\ Statement(<<w>>, i).parent = i /\ Statement(<<w>>, i).tokens = <<w>>
    BY <2>1 DEF Statement, Statements, i
  <2>3. QED
    BY <2>2 DEF i
<1>3. Normal(w) \in Tokens /\ Normal(w) # Comment
  BY TokenTypes, TokenNames
<1>4. WordsOf(s) = <<Normal(w)>>
  <2>1. WordsOf(s) = [n \in DOMAIN <<w>> |-> Normal(<<w>>[n])]
    BY <1>2 DEF WordsOf
  <2>2. DOMAIN <<w>> = 1..1 /\ \A n \in 1..1 : <<w>>[n] = w
    OBVIOUS
  <2>3. [n \in 1..1 |-> Normal(w)] = <<Normal(w)>>
    OBVIOUS
  <2>4. QED
    BY <2>1, <2>2, <2>3
<1> HIDE DEF s, q
<1>5. Continued(d, c, <<s>>)
  BY DEF s
<1>6. Spine(d, q) /\ Continued(SoFar(d, Text(d), q), SoFar(c, Text(c), p), WordsOf(s))
  BY <1>1, <1>2, <1>5, StatementBegun DEF q
<1>7. Reads(d, q, Append(f, Normal(w)))
  BY <1>3, <1>4, <1>6, ReadOn
<1>8. QED
  BY <1>7 DEF q

\* Another word, or a brace, goes on with the last statement.
LEMMA LastGoesOn ==
  ASSUME NEW c \in Trees, NEW d \in Trees, NEW p, NEW f \in Seq(Tokens), Reads(c, p, f),
         p[Len(p)] = Len(c), Len(p) > 1, NEW s \in Statements, ~c[Len(c)].block,
         d = [c EXCEPT ![Len(c)] = s], s.parent = c[Len(c)].parent,
         NEW z \in Tokens, z # Comment,
         (IF s.block THEN Append(WordsOf(s), StartBlock) ELSE WordsOf(s))
           = Append(WordsOf(c[Len(c)]), z)
  PROVE  Reads(d, p, Append(f, z))
<1> DEFINE n == Len(c)
<1>1. Spine(c, p)
  BY DEF Reads
<1>2. n \in Nat /\ n \in 1..n /\ n # 0 /\ DOMAIN c = 1..n /\ c \in Seq(Statements)
  <2>1. Len(p) \in 1..Len(p) /\ Len(p) # 1 /\ n \in Nat /\ DOMAIN c = 1..n
    BY <1>1, SpineParts, TreeParts
  <2>2. n # 0
    BY <1>1, <2>1, SpineParts
  <2>3. QED
    BY <2>1, <2>2 DEF Trees
<1>3. Len(d) = n /\ \A i \in 1..n : d[i] = IF i = n THEN s ELSE c[i]
  BY <1>2, ExceptSeq
<1>4. \A i \in 1..n : d[i].parent = c[i].parent /\ (i # n => d[i] = c[i])
  BY <1>3
<1>5. Intro(d, n) = Append(Intro(c, n), z)
  <2>1. d[n] = s
    BY <1>2, <1>3
  <2>2. Intro(c, n) = WordsOf(c[n])
    BY <1>2 DEF Intro
  <2>3. Intro(d, n) = IF s.block THEN Append(WordsOf(s), StartBlock) ELSE WordsOf(s)
    BY <1>2, <2>1 DEF Intro
  <2>4. QED
    BY <2>2, <2>3
<1>6. /\ Spine(d, p)
      /\ Continued(SoFar(d, Text(d), p), SoFar(c, Text(c), p), <<z>>)
  BY <1>1, <1>3, <1>4, <1>5, LastChanged
<1>7. QED
  BY <1>6, ReadOn

-----------------------------------------------------------------------------
(* What has been read of the file is what is written of the tree. *)

Done == SubSeq(file, 1, Len(file) - Len(rest))

\* The open blocks, and the statement that is being read.
Path == IF last = "normal" THEN Append(stack, Len(cfg)) ELSE stack

\* With a closing brace too many nothing more can be read.
ReadSoFar ==
  IF stack = <<>>
  THEN last = "end block" /\ Leaving(Done, {Comment}) = Append(Text(cfg)[0], EndBlock)
  ELSE Reads(cfg, Path, Done) /\ (last = "normal" => ~cfg[Len(cfg)].block)

TreeInv == (phase = "parse" => ReadSoFar) /\ TreeIsFile

\* The token that is taken is read, and is known by its kind.
LEMMA Read ==
  ASSUME Reading, NEW kind, Take(kind)
  PROVE  /\ file' = file /\ Done \in Seq(Tokens) /\ file \in Seq(Tokens)
         /\ kind = "eof" => Done = file
         /\ kind # "eof" =>
              /\ Done' = Append(Done, token) /\ token \in Tokens
              /\ kind # "normal" => token = Separator(kind)
              /\ kind = "normal" => token = Normal(token.word) /\ token.word \in Words
<1>1. /\ file' = file /\ token.kind = kind
      /\ rest' = IF rest = <<>> THEN <<>> ELSE Tail(rest)
  BY DEF Take
<1>2. PICK n \in 0..Len(file) : rest = SubSeq(file, n + 1, Len(file))
  BY DEF Reading
<1> DEFINE len == Len(file)
<1>3. file \in Seq(Tokens) /\ len \in Nat /\ \A i \in 1..len : file[i] \in Tokens
  BY FileTokens, ElementOfSeq DEF Reading, Tokens
<1>4. n \in Int /\ 0 <= n /\ n <= len
  BY <1>3
<1> HIDE DEF len
<1>5. rest = SubSeq(file, n + 1, len)
  BY <1>2 DEF len
<1>6. \A i \in Int : 0 <= i /\ i <= len =>
        /\ SubSeq(file, 1, i) \in Seq(Tokens)
        /\ Len(SubSeq(file, i + 1, len)) = len - i
  <2> TAKE i \in Int
  <2> HAVE 0 <= i /\ i <= len
  <2>1. \A j \in 1..i : file[j] \in Tokens
    BY <1>3
  <2>2. \A j \in i + 1..len : file[j] \in Tokens
    BY <1>3
  <2>3. SubSeq(file, 1, i) \in Seq(Tokens)
    BY <2>1, SubSeqProperties
  <2>4. Len(SubSeq(file, i + 1, len)) = IF i + 1 <= len THEN len - (i + 1) + 1 ELSE 0
    BY <1>3, <2>2, SubSeqProperties
  <2>5. QED
    BY <1>3, <2>3, <2>4
<1>7. Done = SubSeq(file, 1, n) /\ Done \in Seq(Tokens)
  <2>1. len - Len(rest) = n
    BY <1>3, <1>4, <1>5, <1>6
  <2>2. QED
    BY <1>4, <1>6, <2>1 DEF Done, len
<1>8. CASE n = len
  <2>1. rest = <<>>
    BY <1>3, <1>5, <1>8, SubSeqEmpty
  <2>2. kind = "eof"
    BY <1>1, <2>1 DEF token, Eof, Separator, Token
  <2>3. SubSeq(file, 1, len) = file
    BY <1>3, SubSeqFull DEF len
  <2>4. QED
    BY <1>1, <1>3, <1>7, <1>8, <2>2, <2>3
<1>9. CASE n < len
  <2>1. n + 1 \in 1..len /\ len \in n + 1..len
    BY <1>3, <1>4, <1>9
  <2>2. Head(rest) = file[n + 1] /\ Tail(rest) = SubSeq(file, (n + 1) + 1, len)
    BY <1>3, <1>5, <2>1, HeadTailOfSubSeq DEF len
  <2>3. rest # <<>>
    <3>1. Len(rest) = len - n
      BY <1>4, <1>5, <1>6
    <3>2. QED
      BY <1>3, <1>4, <1>9, <3>1
  <2>4. token = file[n + 1] /\ token \in Tokens
    BY <1>3, <2>1, <2>2, <2>3 DEF token
  <2>5. kind # "eof" /\ token = Token(kind, token.word) /\ token.word \in Words
    BY <1>1, <2>4 DEF Tokens, Token
  <2>6. kind # "normal" => token = Separator(kind)
    <3>1. n + 1 \in DOMAIN file
      BY <1>3, <2>1, LenProperties DEF len
    <3>2. QED
      BY <1>1, <2>4, <3>1, FilesAssumption DEF Reading
  <2>7. Done' = SubSeq(file, 1, n + 1)
    <3>1. rest' = SubSeq(file, (n + 1) + 1, len)
      BY <1>1, <2>2, <2>3
    <3>2. n + 1 \in Int /\ 0 <= n + 1 /\ n + 1 <= len
      BY <1>3, <1>4, <1>9
    <3>3. Len(rest') = len - (n + 1)
      BY <1>6, <3>1, <3>2
    <3>4. len - Len(rest') = n + 1
      BY <1>3, <1>4, <3>3
    <3>5. QED
      BY <1>1, <3>4 DEF Done, len
  <2>8. SubSeq(file, 1, n + 1) = Append(SubSeq(file, 1, n), file[n + 1])
    <3>1. 1 \in 1..len /\ n + 1 \in 1..len /\ n + 1 - 1 = n
      BY <1>3, <1>4, <2>1
    <3>2. SubSeq(file, 1, n + 1) = SubSeq(file, 1, n + 1 - 1) \o <<file[n + 1]>>
      BY <1>3, <3>1, SubSeqRecursiveSecond DEF len
    <3>3. SubSeq(file, 1, n) \in Seq(Tokens) /\ file[n + 1] \in Tokens
      BY <1>3, <1>7, <2>1
    <3> DEFINE a == SubSeq(file, 1, n)
               z == file[n + 1]
    <3>4. SubSeq(file, 1, n + 1) = a \o <<z>>
      BY <3>1, <3>2
    <3> HIDE DEF a, z
    <3>5. a \o <<z>> = Append(a, z)
      BY <3>3, AppendIsConcat DEF a, z
    <3>6. QED
      BY <3>4, <3>5 DEF a, z
  <2>9. QED
    BY <1>1, <1>3, <1>7, <2>4, <2>5, <2>6, <2>7, <2>8 DEF Normal
<1>10. QED
  BY <1>3, <1>4, <1>8, <1>9

LEMMA TreeInit == Init => TreeInv
<1> SUFFICES ASSUME Init PROVE TreeInv
  OBVIOUS
<1>1. /\ file \in Files /\ rest = file /\ last = "start" /\ stack = <<0>> /\ cfg = <<>>
      /\ phase = "parse" /\ cfg \in Trees
  BY InvInit DEF Init, Inv, Parsing
<1>2. Done = <<>>
  <2>1. Len(file) - Len(rest) = 0
    BY <1>1, FileTokens
  <2>2. QED
    BY <2>1, SubSeqEmpty DEF Done
<1>3. Path = <<0>> /\ Len(cfg) = 0 /\ In(cfg, 0) = {}
  BY <1>1 DEF Path, In
<1>4. Spine(cfg, Path)
  <2>1. Path \in Seq(Nat) /\ Len(Path) = 1 /\ Path[1] = 0
    BY <1>3
  <2>2. QED
    BY <1>3, <2>1 DEF Spine
<1>5. SoFar(cfg, Text(cfg), Path) = <<>>
  <2> DEFINE t == Text(cfg)
  <2>1. SoFar(cfg, t, Path) = t[0]
    <3>1. Len(Path) = 1
      BY <1>3
    <3>2. QED
      BY <1>1, <1>4, <3>1, FileWritten
  <2>2. t[0] = TextOf(cfg, t, 0)
    <3>1. 0 \in 0..Len(cfg)
      BY <1>3
    <3>2. QED
      BY <1>1, <3>1, TextIs
  <2>3. Inner(cfg, t, 0) = Within(0, t, {})
    <3>1. cfg \in Trees
      BY <1>1
    <3> HIDE DEF t
    <3>2. Inner(cfg, t, 0) = Within(Len(cfg), t, In(cfg, 0))
      BY <3>1, InnerIs
    <3>3. QED
      BY <1>3, <3>2
  <2>4. Within(0, t, {}) = <<>>
    BY WithinNone
  <2>5. QED
    BY <2>1, <2>2, <2>3, <2>4 DEF TextOf
<1>6. Leaving(Done, {Comment}) = <<>>
  BY <1>2, LeavingEmpty
<1>7. QED
  BY <1>1, <1>4, <1>5, <1>6 DEF TreeInv, ReadSoFar, Reads, TreeIsFile

\* Of what parses on, and of what does not.
LEMMA ReadsOn ==
  ASSUME phase' = "parse", ReadSoFar'
  PROVE  TreeInv'
BY DEF TreeInv, TreeIsFile

LEMMA ReadsNoMore ==
  ASSUME phase' # "parse", phase' # "validate" \/ ~ parsed'
  PROVE  TreeInv'
BY DEF TreeInv, TreeIsFile

\* The open blocks are the spine, and the statement that is being read is on it.
LEMMA PathIs ==
  ASSUME Parsing, stack # <<>>
  PROVE  /\ stack \in Seq(Nat) /\ Len(stack) \in Nat /\ Len(stack) >= 1
         /\ Top = stack[Len(stack)]
         /\ \A k \in 2..Len(stack) : stack[k] \in 1..Len(cfg) /\ cfg[stack[k]].block
         /\ last # "normal" => Path = stack
         /\ last = "normal" =>
              /\ Path = Append(stack, Len(cfg)) /\ Len(Path) = Len(stack) + 1
              /\ Path[Len(Path)] = Len(cfg) /\ Len(Path) > 1
              /\ \A k \in 1..Len(stack) : stack[k] = Path[k]
<1>1. /\ stack \in Seq(Nat) /\ Len(stack) \in Nat /\ Len(stack) >= 1 /\ Len(cfg) \in Nat
      /\ \A k \in 1..Len(stack) : stack[k] \in Nat /\ stack[k] <= Len(cfg)
  BY TreeAndStack DEF Parsing
<1>2. \A k \in 2..Len(stack) : stack[k] \in 1..Len(cfg) /\ cfg[stack[k]].block
  <2> TAKE k \in 2..Len(stack)
  <2>1. k \in 1..Len(stack) /\ k > 1 /\ k # 1
    BY <1>1
  <2>2. stack[k] # 0 /\ cfg[stack[k]].block
    BY <2>1 DEF Parsing
  <2>3. QED
    BY <1>1, <2>1, <2>2
<1>3. last = "normal" =>
        /\ Path = Append(stack, Len(cfg)) /\ Len(Path) = Len(stack) + 1
        /\ Path[Len(stack) + 1] = Len(cfg)
        /\ \A k \in 1..Len(stack) : stack[k] = Path[k]
  BY <1>1, AppendProperties DEF Path
<1>4. last = "normal" => Path[Len(Path)] = Len(cfg) /\ Len(Path) > 1
  BY <1>1, <1>3
<1>5. QED
  BY <1>1, <1>2, <1>3, <1>4 DEF Path, Top

LEMMA CommentStep ==
  ASSUME Inv, phase = "parse", ReadSoFar, SkipComment
  PROVE  TreeInv'
<1>1. Take("comment") /\ UNCHANGED <<last, stack, cfg, phase, parsed>>
  BY DEF SkipComment
<1>2. Done \in Seq(Tokens) /\ Done' = Append(Done, Comment) /\ Comment \in Tokens
  <2>1. "comment" # "eof" /\ "comment" # "normal"
    OBVIOUS
  <2>2. Reading
    BY DEF Inv, Parsing
  <2>3. QED
    BY <1>1, <2>1, <2>2, Read, TokenTypes DEF Comment
<1>3. Leaving(Done', {Comment}) = Leaving(Done, {Comment})
  BY <1>2, LeavingAppend
<1>4. Path' = Path /\ Text(cfg)' = Text(cfg)
  BY <1>1 DEF Path
<1>5. ReadSoFar'
  BY <1>1, <1>3, <1>4 DEF ReadSoFar, Reads
<1>6. QED
  BY <1>1, <1>5, ReadsOn

LEMMA NormalStep ==
  ASSUME Inv, Inv', phase = "parse", ReadSoFar, ReadNormal
  PROVE  TreeInv'
<1>1. Parsing /\ Reading /\ cfg \in Trees /\ cfg' \in Trees
  BY DEF Inv, Parsing
<1> DEFINE w == token.word
<1>2. /\ Done \in Seq(Tokens) /\ w \in Words /\ Done' = Append(Done, Normal(w))
      /\ Normal(w) \in Tokens /\ Normal(w) # Comment
  <2>1. Take("normal") /\ "normal" # "eof"
    BY DEF ReadNormal
  <2>2. QED
    BY <1>1, <2>1, Read, TokenTypes, TokenNames
<1>3. CASE stack = <<>>
  <2>1. phase' = Undefined
    BY <1>3 DEF ReadNormal, FallOff
  <2>2. Undefined # "parse" /\ Undefined # "validate"
    BY DEF Undefined
  <2>3. QED
    BY <2>1, <2>2, ReadsNoMore
<1>4. CASE stack # <<>>
  <2>1. /\ UNCHANGED <<stack, phase, parsed>> /\ last' = "normal"
        /\ cfg' = IF last = "normal"
                  THEN [cfg EXCEPT ![Len(cfg)].tokens = Append(@, w)]
                  ELSE Append(cfg, Statement(<<w>>, Top))
    BY <1>4 DEF ReadNormal
  <2>2. Reads(cfg, Path, Done) /\ (last = "normal" => ~cfg[Len(cfg)].block)
    BY <1>4 DEF ReadSoFar
  <2>3. Path' = Append(stack, Len(cfg'))
    BY <2>1 DEF Path
  <2> HIDE DEF w
  <2>4. CASE last = "normal"
    <3> DEFINE c == cfg[Len(cfg)]
               s == [c EXCEPT !.tokens = Append(@, w)]
    <3>1. c \in Statements /\ c.tokens \in Seq(Words) /\ Len(cfg) \in 1..Len(cfg)
      BY <1>1, <2>4, LastStatement
    <3>2. /\ s \in Statements /\ s.tokens = Append(c.tokens, w) /\ s.parent = c.parent
          /\ s.block = c.block
      <4> DEFINE words == Append(c.tokens, w)
      <4>1. words \in Seq(Words)
        BY <1>2, <3>1, AppendProperties
      <4>2. s = [c EXCEPT !.tokens = words]
        OBVIOUS
      <4> HIDE DEF words, c, s
      <4>3. s \in Statements /\ s.tokens = words /\ s.parent = c.parent /\ s.block = c.block
        BY <3>1, <4>1, <4>2 DEF Statements
      <4>4. QED
        BY <4>3 DEF words
    <3>3. cfg' = [cfg EXCEPT ![Len(cfg)] = s]
      BY <2>1, <2>4
    <3>4. WordsOf(s) = Append(WordsOf(c), Normal(w))
      <4> DEFINE x == c.tokens
                 y == Append(x, w)
                 l == Len(x)
                 g == [n \in DOMAIN y |-> Normal(y[n])]
      <4>1. x \in Seq(Words) /\ l \in Nat /\ DOMAIN x = 1..l
        BY <3>1, LenProperties
      <4>2. /\ DOMAIN y = 1..l + 1 /\ y[l + 1] = w
            /\ \A i \in 1..l : y[i] = x[i]
            /\ \A i \in 1..l + 1 : y[i] \in Words
        <5>1. y \in Seq(Words) /\ Len(y) = l + 1
          BY <1>2, <4>1, AppendProperties
        <5>2. DOMAIN y = 1..Len(y) /\ \A i \in 1..Len(y) : y[i] \in Words
          BY <5>1, LenProperties, ElementOfSeq
        <5>3. y[l + 1] = w /\ \A i \in 1..l : y[i] = x[i]
          BY <1>2, <4>1, AppendProperties
        <5>4. QED
          BY <5>1, <5>2, <5>3
      <4>3. WordsOf(s) = g /\ WordsOf(c) = [n \in 1..l |-> Normal(x[n])]
        BY <3>2, <4>1 DEF WordsOf
      <4> HIDE DEF x, y, l, c, s
      <4>4. \A i \in 1..l + 1 : g[i] = Normal(y[i]) /\ g[i] \in Tokens
        BY <4>2, TokenTypes
      <4>5. \A i \in 1..l : i \in 1..l + 1
        BY <4>1
      <4>6. [n \in 1..l |-> g[n]] = [n \in 1..l |-> Normal(x[n])] /\ g = [n \in 1..l + 1 |-> g[n]]
        BY <4>2, <4>4, <4>5
      <4>7. g[l + 1] = Normal(w)
        <5>1. l + 1 \in 1..l + 1
          BY <4>1
        <5>2. QED
          BY <4>2, <4>4, <5>1
      <4>8. [n \in 1..l + 1 |-> g[n]] = Append([n \in 1..l |-> g[n]], g[l + 1])
        <5> HIDE DEF g
        <5>1. \A i \in 1..l + 1 : g[i] \in Tokens
          BY <4>4
        <5>2. QED
          BY <4>1, <5>1, OnePlaceMore
      <4> HIDE DEF g
      <4>9. QED
        BY <4>3, <4>6, <4>7, <4>8
    <3>5. /\ Path[Len(Path)] = Len(cfg) /\ Len(Path) > 1 /\ Path = Append(stack, Len(cfg))
      BY <1>1, <1>4, <2>4, PathIs
    <3>6. Reads(cfg', Path, Append(Done, Normal(w)))
      <4>1. /\ ~c.block
            /\ (IF s.block THEN Append(WordsOf(s), StartBlock) ELSE WordsOf(s))
                 = Append(WordsOf(c), Normal(w))
        BY <2>2, <2>4, <3>2, <3>4
      <4> DEFINE z == Normal(w)
      <4> HIDE DEF z, s
      <4>2. /\ s \in Statements /\ s.parent = cfg[Len(cfg)].parent /\ ~cfg[Len(cfg)].block
            /\ (IF s.block THEN Append(WordsOf(s), StartBlock) ELSE WordsOf(s))
                 = Append(WordsOf(cfg[Len(cfg)]), z)
            /\ z \in Tokens /\ z # Comment /\ Reads(cfg, Path, Done) /\ Done \in Seq(Tokens)
        BY <1>2, <2>2, <3>2, <4>1 DEF z
      <4>3. Reads(cfg', Path, Append(Done, z))
        BY <1>1, <3>3, <3>5, <4>2, LastGoesOn
      <4>4. QED
        BY <4>3 DEF z
    <3>7. Len(cfg') = Len(cfg) /\ cfg'[Len(cfg)] = s
      <4> HIDE DEF s
      <4>1. QED
        BY <3>1, <3>2, <3>3, <1>1, ExceptSeq DEF Trees
    <3>8. Path' = Path /\ ~cfg'[Len(cfg')].block
      BY <2>2, <2>3, <2>4, <3>2, <3>5, <3>7
    <3>9. ReadSoFar'
      BY <1>2, <1>4, <2>1, <3>6, <3>8 DEF ReadSoFar
    <3>10. QED
      BY <2>1, <3>9, ReadsOn
  <2>5. CASE last # "normal"
    <3> DEFINE s == Statement(<<w>>, Top)
    <3>1. Path = stack /\ Top = stack[Len(stack)]
      BY <1>1, <1>4, <2>5, PathIs
    <3>2. cfg' = Append(cfg, s) /\ s \in Statements /\ ~s.block /\ cfg \in Seq(Statements)
      <4>1. Top \in Nat
        BY <1>1, <1>4, TreeAndStack DEF Top
      <4>2. s \in Statements /\ ~s.block
        BY <1>2, <4>1 DEF Statement, Statements
      <4>3. QED
        BY <1>1, <2>1, <2>5, <4>2 DEF Trees
    <3> HIDE DEF s
    <3>3. Continued(cfg', cfg, <<s>>) /\ Len(cfg') = Len(cfg) + 1 /\ cfg'[Len(cfg) + 1] = s
      BY <3>2, AppendProperties, AppendIsConcat DEF Continued
    <3>4. Reads(cfg', Append(Path, Len(cfg) + 1), Append(Done, Normal(w)))
      <4>1. Continued(cfg', cfg, <<Statement(<<w>>, Path[Len(Path)])>>)
        BY <3>1, <3>3 DEF s
      <4>2. QED
        BY <1>1, <1>2, <2>2, <4>1, WordBegun
    <3>5. Path' = Append(Path, Len(cfg) + 1) /\ ~cfg'[Len(cfg')].block
      BY <2>3, <3>1, <3>2, <3>3
    <3>6. ReadSoFar'
      BY <1>2, <1>4, <2>1, <3>4, <3>5 DEF ReadSoFar
    <3>7. QED
      BY <2>1, <3>6, ReadsOn
  <2>6. QED
    BY <2>4, <2>5
<1>5. QED
  BY <1>3, <1>4

LEMMA SemicolonStep ==
  ASSUME Inv, phase = "parse", ReadSoFar, ReadEnd
  PROVE  TreeInv'
<1>1. Parsing /\ Reading /\ cfg \in Trees
  BY DEF Inv, Parsing
<1>2. CASE last # "normal"
  <2>1. phase' = "validate" /\ parsed' = FALSE
    BY Zenon, <1>2 DEF ReadEnd, Return
  <2>2. QED
    BY <2>1, ReadsNoMore
<1>3. CASE last = "normal"
  <2>1. last' = "end" /\ UNCHANGED <<stack, cfg, phase, parsed>>
    BY <1>3 DEF ReadEnd
  <2>2. Done \in Seq(Tokens) /\ Done' = Append(Done, End) /\ End \in Tokens /\ End # Comment
    <3>1. Take("end") /\ "end" # "eof" /\ "end" # "normal"
      BY DEF ReadEnd
    <3>2. QED
      BY <1>1, <3>1, Read, TokenTypes, TokenNames DEF End
  <2>3. stack # <<>>
    BY <1>1, <1>3 DEF Parsing
  <2>4. Reads(cfg, Path, Done) /\ ~cfg[Len(cfg)].block
    BY <1>3, <2>3 DEF ReadSoFar
  <2> DEFINE p == Path
             n == Len(cfg)
  <2>5. /\ stack \in Seq(Nat) /\ Len(p) > 1 /\ p[Len(p)] = n /\ Len(stack) = Len(p) - 1
        /\ \A k \in 1..Len(stack) : stack[k] = p[k]
    BY <1>1, <1>3, <2>3, PathIs
  <2>6. In(cfg, n) = {}
    <3>1. \A j \in In(cfg, n) : j \in 1..n /\ n < j /\ n \in Nat
      BY <1>1, TreeParts, InnerIs DEF In
    <3> HIDE DEF n
    <3>2. \A j \in In(cfg, n) : FALSE
      BY <3>1
    <3>3. QED
      BY <3>2
  <2> HIDE DEF p, n
  <2>7. Closing(cfg[n]) = End
    BY <2>4 DEF Closing, n
  <2>8. Spine(cfg, stack) /\ Continued(SoFar(cfg, Text(cfg), stack), SoFar(cfg, Text(cfg), p), <<End>>)
    <3>1. Spine(cfg, p)
      BY <2>4 DEF Reads, p
    <3>2. Spine(cfg, stack) /\ Continued(SoFar(cfg, Text(cfg), stack), SoFar(cfg, Text(cfg), p), <<Closing(cfg[n])>>)
      BY <1>1, <2>5, <2>6, <3>1, Closed
    <3>3. QED
      BY <2>7, <3>2
  <2>9. Reads(cfg, stack, Append(Done, End))
    BY <1>1, <2>2, <2>4, <2>8, ReadOn DEF p
  <2>10. Path' = stack
    BY <2>1 DEF Path
  <2>11. ReadSoFar'
    BY <2>1, <2>2, <2>3, <2>9, <2>10 DEF ReadSoFar
  <2>12. QED
    BY <2>1, <2>11, ReadsOn
<1>4. QED
  BY <1>2, <1>3

LEMMA OpenStep ==
  ASSUME Inv, Inv', phase = "parse", ReadSoFar, ReadStartBlock
  PROVE  TreeInv'
<1>1. Parsing /\ Reading /\ cfg \in Trees /\ cfg' \in Trees
  BY DEF Inv, Parsing
<1>2. CASE last # "normal"
  <2>1. phase' = "validate" /\ parsed' = FALSE
    BY Zenon, <1>2 DEF ReadStartBlock, Return
  <2>2. QED
    BY <2>1, ReadsNoMore
<1>3. CASE last = "normal"
  <2>1. /\ last' = "start block" /\ stack' = Append(stack, Len(cfg))
        /\ cfg' = [cfg EXCEPT ![Len(cfg)].block = TRUE] /\ UNCHANGED <<phase, parsed>>
    BY <1>3 DEF ReadStartBlock
  <2>2. /\ Done \in Seq(Tokens) /\ Done' = Append(Done, StartBlock)
        /\ StartBlock \in Tokens /\ StartBlock # Comment
    <3>1. Take("start block") /\ "start block" # "eof" /\ "start block" # "normal"
      BY Zenon DEF ReadStartBlock
    <3>2. QED
      BY <1>1, <3>1, Read, TokenTypes, TokenNames DEF StartBlock
  <2>3. stack # <<>>
    BY <1>1, <1>3 DEF Parsing
  <2>4. Reads(cfg, Path, Done) /\ ~cfg[Len(cfg)].block
    BY <1>3, <2>3 DEF ReadSoFar
  <2>5. /\ Path[Len(Path)] = Len(cfg) /\ Len(Path) > 1 /\ Path = Append(stack, Len(cfg))
        /\ stack \in Seq(Nat) /\ Len(cfg) \in Nat
    BY <1>1, <1>3, <2>3, PathIs, TreeParts
  <2> DEFINE s == [cfg[Len(cfg)] EXCEPT !.block = TRUE]
  <2>6. s \in Statements /\ s.block /\ s.tokens = cfg[Len(cfg)].tokens
        /\ s.parent = cfg[Len(cfg)].parent
    BY <1>1, <1>3, LastStatement DEF Statements
  <2>7. cfg' = [cfg EXCEPT ![Len(cfg)] = s]
    BY <2>1
  <2> HIDE DEF s
  <2>8. (IF s.block THEN Append(WordsOf(s), StartBlock) ELSE WordsOf(s))
          = Append(WordsOf(cfg[Len(cfg)]), StartBlock)
    BY <2>6 DEF WordsOf
  <2>9. Reads(cfg', Path, Append(Done, StartBlock))
    BY <1>1, <2>2, <2>4, <2>5, <2>6, <2>7, <2>8, LastGoesOn
  <2>10. Path' = Path /\ stack' # <<>>
    <3>1. Path' = stack'
      BY <2>1 DEF Path
    <3>2. stack' # <<>>
      BY <2>1, <2>5, AppendProperties
    <3>3. QED
      BY <2>1, <2>5, <3>1, <3>2
  <2>11. ReadSoFar'
    BY <2>1, <2>2, <2>9, <2>10 DEF ReadSoFar
  <2>12. QED
    BY <2>1, <2>11, ReadsOn
<1>4. QED
  BY <1>2, <1>3

LEMMA AtLeastTwo ==
  ASSUME NEW k \in Nat, k >= 1, k # 1
  PROVE  k > 1 /\ k \in 2..k
OBVIOUS

LEMMA CloseStep ==
  ASSUME Inv, phase = "parse", ReadSoFar, ReadEndBlock
  PROVE  TreeInv'
<1>1. Parsing /\ Reading /\ cfg \in Trees
  BY DEF Inv, Parsing
<1>2. CASE last \notin {"start block", "end block", "end"}
  <2>1. phase' = "validate" /\ parsed' = FALSE
    BY Zenon, <1>2 DEF ReadEndBlock, Return
  <2>2. QED
    BY <2>1, ReadsNoMore
<1>3. CASE last \in {"start block", "end block", "end"} /\ stack = <<>>
  <2>1. phase' = Undefined
    BY Zenon, <1>3 DEF ReadEndBlock, FallOff
  <2>2. Undefined # "parse" /\ Undefined # "validate"
    BY DEF Undefined
  <2>3. QED
    BY <2>1, <2>2, ReadsNoMore
<1>4. CASE last \in {"start block", "end block", "end"} /\ stack # <<>>
  <2>1. last' = "end block" /\ stack' = Front(stack) /\ UNCHANGED <<cfg, phase, parsed>>
    BY Zenon, <1>4 DEF ReadEndBlock
  <2>2. /\ Done \in Seq(Tokens) /\ Done' = Append(Done, EndBlock)
        /\ EndBlock \in Tokens /\ EndBlock # Comment
    <3>1. Take("end block") /\ "end block" # "eof" /\ "end block" # "normal"
      BY Zenon DEF ReadEndBlock
    <3>2. QED
      BY <1>1, <3>1, Read, TokenTypes, TokenNames DEF EndBlock
  <2>3. last # "normal"
    BY <1>4
  <2>4. /\ Path = stack /\ stack \in Seq(Nat) /\ Len(stack) \in Nat /\ Len(stack) >= 1
        /\ \A k \in 2..Len(stack) : stack[k] \in 1..Len(cfg) /\ cfg[stack[k]].block
    BY <1>1, <1>4, <2>3, PathIs
  <2>5. Reads(cfg, stack, Done)
    BY <1>4, <2>4 DEF ReadSoFar
  <2> DEFINE m == Len(stack)
             q == SubSeq(stack, 1, m - 1)
  <2>6. stack' = q
    BY <2>1 DEF Front
  <2>7. q \in Seq(Nat) /\ Len(q) = m - 1 /\ \A k \in 1..m - 1 : q[k] = stack[k]
    <3>1. m - 1 \in 0..Len(stack)
      BY <2>4
    <3>2. QED
      BY <2>4, <3>1, Cut
  <2>8. Path' = stack'
    BY <2>1 DEF Path
  <2> HIDE DEF q
  <2>9. CASE m = 1
    <3>1. q = <<>>
      BY <2>7, <2>9, EmptySeq
    <3>2. Leaving(Done, {Comment}) = Text(cfg)[0]
      <4>1. SoFar(cfg, Text(cfg), stack) = Text(cfg)[0]
        BY <1>1, <2>5, <2>9, FileWritten DEF Reads
      <4>2. QED
        BY <2>5, <4>1 DEF Reads
    <3>3. Leaving(Done', {Comment}) = Append(Text(cfg)[0], EndBlock)
      <4>1. Leaving(Append(Done, EndBlock), {Comment}) = Append(Leaving(Done, {Comment}), EndBlock)
        BY <2>2, LeavingAppend
      <4>2. QED
        BY <2>2, <3>2, <4>1
    <3>4. ReadSoFar'
      BY <2>1, <2>6, <3>1, <3>3 DEF ReadSoFar
    <3>5. QED
      BY <2>1, <3>4, ReadsOn
  <2>10. CASE m # 1
    <3> DEFINE x == stack[m]
    <3>1. x = stack[Len(stack)] /\ cfg[x].block /\ m > 1
      <4>2. m \in Nat /\ m >= 1 /\ m # 1
        BY <2>4, <2>10
      <4>3. m > 1 /\ m \in 2..m
        <5> HIDE DEF m
        <5> QED BY <4>2, AtLeastTwo
      <4>4. QED
        BY <2>4, <4>3
    <3>2. Closing(cfg[x]) = EndBlock
      BY <3>1 DEF Closing
    <3> HIDE DEF x
    <3>3. Spine(cfg, q) /\ Continued(SoFar(cfg, Text(cfg), q), SoFar(cfg, Text(cfg), stack), <<EndBlock>>)
      <4>1. Spine(cfg, stack)
        BY <2>5 DEF Reads
      <4>2. Spine(cfg, q) /\ Continued(SoFar(cfg, Text(cfg), q), SoFar(cfg, Text(cfg), stack), <<Closing(cfg[x])>>)
        BY <1>1, <2>7, <3>1, <4>1, Closed
      <4>3. QED
        BY <3>2, <4>2
    <3>4. Reads(cfg, q, Append(Done, EndBlock))
      BY <1>1, <2>2, <2>5, <3>3, ReadOn
    <3>5. q # <<>>
      BY <2>4, <2>7, <2>10, EmptySeq
    <3>6. ReadSoFar'
      BY <2>1, <2>2, <2>6, <2>8, <3>4, <3>5 DEF ReadSoFar
    <3>7. QED
      BY <2>1, <3>6, ReadsOn
  <2>11. QED
    BY <2>9, <2>10
<1>5. QED
  BY <1>2, <1>3, <1>4

LEMMA EofStep ==
  ASSUME Inv, phase = "parse", ReadSoFar, ReadEof
  PROVE  TreeInv'
<1>1. Parsing /\ Reading /\ cfg \in Trees
  BY DEF Inv, Parsing
<1>2. /\ parsed' = (last \in {"start", "end", "end block"}) /\ phase' = "validate"
      /\ UNCHANGED <<last, stack, cfg>>
  BY DEF ReadEof, Return
<1>3. CASE last \notin {"start", "end", "end block"}
  <2>1. ~ parsed'
    BY Zenon, <1>2, <1>3
  <2>2. QED
    BY <1>2, <2>1, ReadsNoMore
<1>4. CASE last \in {"start", "end", "end block"}
  <2>1. Done = file /\ file' = file
    BY <1>1, Read DEF ReadEof
  <2> DEFINE f == Leaving(file, {Comment})
  <2>2. Written(0)' = Text(cfg)[0] /\ stack' = stack /\ f' = f
    <3>1. Written(0)' = Text(cfg')[0]
      BY WrittenIs
    <3>2. QED
      BY <1>2, <2>1, <3>1
  <2>3. Text(cfg)[0] \in Seq(Tokens)
    <3>1. 0 \in 0..Len(cfg)
      BY <1>1, TreeParts
    <3>2. QED
      BY <1>1, <3>1, TextIs
  <2> DEFINE t == Text(cfg)[0]
  <2>4. CASE stack = <<>>
    <3>1. f = Append(t, EndBlock)
      BY <2>1, <2>4 DEF ReadSoFar
    <3>2. Len(stack) - 1 < 1 /\ [n \in 1..Len(stack) - 1 |-> EndBlock] = <<>>
      <4>1. 1..Len(stack) - 1 = {}
        BY <2>4
      <4>2. QED
        BY <2>4, <4>1
    <3> HIDE DEF f, t
    <3>3. Append(t, EndBlock) \in Seq(Tokens) /\ Append(t, EndBlock) = t \o <<EndBlock>>
      BY <2>3, TokenTypes, AppendProperties, AppendIsConcat DEF t
    <3>4. f \o <<>> = f
      BY <3>1, <3>3, ConcatEmptySeq
    <3>5. t \o <<EndBlock>> = f \o [n \in 1..Len(stack) - 1 |-> EndBlock]
      BY <3>1, <3>2, <3>3, <3>4
    <3>6. TreeIsFile'
      BY <2>2, <2>4, <3>5 DEF TreeIsFile, t, f
    <3>7. QED
      BY <1>2, <3>6 DEF TreeInv
  <2>5. CASE stack # <<>>
    <3>1. last # "normal"
      BY <1>4
    <3>2. /\ Path = stack /\ \A k \in 2..Len(stack) : cfg[stack[k]].block
      BY <1>1, <2>5, <3>1, PathIs
    <3>3. Reads(cfg, stack, file)
      BY <2>1, <2>5, <3>2 DEF ReadSoFar
    <3>4. t = SoFar(cfg, Text(cfg), stack) \o Braces(Len(stack) - 1)
      BY <1>1, <3>2, <3>3, AllClosed DEF Reads
    <3> HIDE DEF t, f
    <3>5. t \o <<>> = f \o [n \in 1..Len(stack) - 1 |-> EndBlock]
      <4>1. t \o <<>> = t
        BY <2>3, ConcatEmptySeq DEF t
      <4>2. f = SoFar(cfg, Text(cfg), stack)
        BY <3>3 DEF Reads, f
      <4>3. QED
        BY <3>4, <4>1, <4>2 DEF Braces
    <3>6. TreeIsFile'
      BY <2>2, <2>5, <3>5 DEF TreeIsFile, t, f
    <3>7. QED
      BY <1>2, <3>6 DEF TreeInv
  <2>6. QED
    BY <2>4, <2>5
<1>5. QED
  BY <1>3, <1>4

LEMMA TreeNext ==
  ASSUME Inv, Inv', TreeInv, [Next]_vars
  PROVE  TreeInv'
<1>1. CASE \/ SkipComment \/ ReadNormal \/ ReadEnd \/ ReadStartBlock \/ ReadEndBlock
           \/ ReadEof
  <2>1. PICK kind : Take(kind)
    BY Zenon, <1>1 DEF SkipComment, ReadNormal, ReadEnd, ReadStartBlock, ReadEndBlock, ReadEof
  <2>2. phase = "parse" /\ ReadSoFar
    BY <2>1 DEF Take, TreeInv
  <2>3. QED
    BY <1>1, <2>2, CommentStep, NormalStep, SemicolonStep, OpenStep, CloseStep, EofStep
<1>2. CASE ReadError
  <2>1. phase' = "validate" /\ parsed' = FALSE
    BY <1>2 DEF ReadError, Return
  <2>2. QED
    BY <2>1, ReadsNoMore
<1>3. CASE \/ OpenFails \/ Validate \/ AskPort \/ Extract \/ Bind \/ MakeRoutes \/ EmptyPool
           \/ (\E t \in Targets : Route(t)) \/ RouteUnparsed \/ Signal
  <2>1. phase' \in Ended \cup {"port", "extract", "bind", "routes", "listening"}
    BY Zenon, <1>3, Phases DEF OpenFails, Validate, AskPort, Extract, Bind, MakeRoutes,
       EmptyPool, Route, RouteUnparsed, Process, Signal, At
  <2>2. \A p \in Ended : p # "parse" /\ p # "validate"
    BY Zenon DEF Ended, Undefined
  <2>3. phase' # "parse" /\ phase' # "validate"
    BY <2>1, <2>2
  <2>4. QED
    BY <2>3, ReadsNoMore
<1>4. CASE UNCHANGED vars
  <2>1. ReadSoFar => ReadSoFar'
    BY <1>4 DEF vars, ReadSoFar, Done, Path, Reads
  <2>2. Written(0)' = Written(0)
    BY <1>4, WrittenIs DEF vars
  <2>3. TreeIsFile => TreeIsFile'
    BY <1>4, <2>2 DEF vars, TreeIsFile
  <2>4. QED
    BY <1>4, <2>1, <2>3 DEF vars, TreeInv
<1>5. QED
  BY Zenon, <1>1, <1>2, <1>3, <1>4 DEF Next, Stop

\* Whatever the file, what Parse makes of it and ToString writes back is the
\* file, but for closing braces at its end that were missing or one too many: no
\* word, semicolon or brace is lost or moved to another block, however deep the
\* blocks and wherever the comments.
THEOREM TreeRight == Spec => []TreeIsFile
<1>1. TreeInv => TreeIsFile
  BY DEF TreeInv
<1>2. Inv /\ Inv' /\ TreeInv /\ [Next]_vars => TreeInv'
  BY TreeNext
<1>3. QED
  BY <1>1, <1>2, Invariant, TreeInit, PTL DEF Spec
=============================================================================
