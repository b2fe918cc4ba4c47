----------------------------- MODULE ServerProofs -----------------------------
(***************************************************************************)
(* Proofs about Server, for any number of threads and connections.         *)
(***************************************************************************)
EXTENDS Server, FiniteSetTheorems, SequenceTheorems, TLAPS

-----------------------------------------------------------------------------
(* Where the completions of a set M are, and what a step of the queue does   *)
(* to that.                                                                  *)

Queued(q, M) == {i \in DOMAIN q : q[i] \in M}
Handled(M)   == {t \in Threads : running[t] \in M}

\* A completion that is posted is the only one at its place.
LEMMA QueuedAppend ==
  ASSUME NEW S, NEW q \in Seq(S), NEW e \in S, NEW M
  PROVE  /\ e \notin M => Queued(Append(q, e), M) = Queued(q, M)
         /\ e \in M /\ Queued(q, M) = {} => Queued(Append(q, e), M) = {Len(q) + 1}
<1>1. /\ DOMAIN q = 1..Len(q) /\ Len(q) \in Nat
      /\ DOMAIN Append(q, e) = 1..Len(q) + 1
      /\ \A i \in 1..Len(q) : Append(q, e)[i] = q[i]
      /\ Append(q, e)[Len(q) + 1] = e
  BY LenProperties, AppendProperties
<1>2. QED
  BY <1>1 DEF Queued

\* Taking the first completion moves the others forward.
LEMMA QueuedTail ==
  ASSUME NEW S, NEW q \in Seq(S), q # <<>>, NEW M
  PROVE  /\ \A i : i \in Queued(Tail(q), M) <=> i \in Nat \ {0} /\ i + 1 \in Queued(q, M)
         /\ Head(q) \in S /\ Tail(q) \in Seq(S)
         /\ Head(q) \in M <=> 1 \in Queued(q, M)
<1>1. /\ DOMAIN q = 1..Len(q) /\ Len(q) \in Nat \ {0}
      /\ Tail(q) \in Seq(S) /\ Len(Tail(q)) = Len(q) - 1
      /\ \A i \in 1..Len(Tail(q)) : Tail(q)[i] = q[i + 1]
      /\ DOMAIN Tail(q) = 1..Len(Tail(q))
      /\ Head(q) = q[1] /\ Head(q) \in S
  BY LenProperties, HeadTailProperties, EmptySeq
<1>2. QED
  BY <1>1 DEF Queued

-----------------------------------------------------------------------------
(* One thing in three places. *)

\* The sets have one element between them.
OneOf(A, B, C) ==
  \/ (\E x \in A : A = {x}) /\ B = {} /\ C = {}
  \/ A = {} /\ (\E x \in B : B = {x}) /\ C = {}
  \/ A = {} /\ B = {} /\ \E x \in C : C = {x}

NoneOf(A, B, C) == A = {} /\ B = {} /\ C = {}

LEMMA OneIsCounted ==
  ASSUME NEW A, NEW B, NEW C
  PROVE  /\ OneOf(A, B, C) => Cardinality(A) + Cardinality(B) + Cardinality(C) = 1
         /\ NoneOf(A, B, C) => Cardinality(A) + Cardinality(B) + Cardinality(C) = 0
<1>1. Cardinality({}) = 0 /\ \A x : Cardinality({x}) = 1
  BY FS_EmptySet, FS_Singleton
<1>2. ASSUME NoneOf(A, B, C)
      PROVE  Cardinality(A) + Cardinality(B) + Cardinality(C) = 0
  BY <1>1, <1>2 DEF NoneOf
<1>3. ASSUME OneOf(A, B, C)
      PROVE  Cardinality(A) + Cardinality(B) + Cardinality(C) = 1
  <2> DEFINE n(S) == Cardinality(S)
  <2>0. n({}) = 0 /\ \A x : n({x}) = 1
    BY <1>1
  <2> HIDE DEF n
  <2>1. CASE (\E x \in A : A = {x}) /\ B = {} /\ C = {}
    <3>1. n(A) = 1 /\ n(B) = 0 /\ n(C) = 0
      BY <2>0, <2>1
    <3>2. QED
      BY <3>1 DEF n
  <2>2. CASE A = {} /\ (\E x \in B : B = {x}) /\ C = {}
    <3>1. n(A) = 0 /\ n(B) = 1 /\ n(C) = 0
      BY <2>0, <2>2
    <3>2. QED
      BY <3>1 DEF n
  <2>3. CASE A = {} /\ B = {} /\ \E x \in C : C = {x}
    <3>1. n(A) = 0 /\ n(B) = 0 /\ n(C) = 1
      BY <2>0, <2>3
    <3>2. QED
      BY <3>1 DEF n
  <2>4. QED
    BY <1>3, <2>1, <2>2, <2>3 DEF OneOf
<1>4. QED
  BY <1>2, <1>3

-----------------------------------------------------------------------------
(* Types. *)

LEMMA TypeInit == Init => TypeOK
BY ConstantsAssumption, EmptySeq DEF Init, TypeOK

LEMMA PostType ==
  ASSUME TypeOK, NEW op \in {"accept", "read", "write"}, NEW c \in Conns,
         NEW ok \in BOOLEAN, Post(op, c, ok)
  PROVE  queue' \in Seq(Completions)
<1>1. [op |-> op, conn |-> c, ok |-> ok] \in Completions
  BY DEF Completions
<1>2. QED
  BY <1>1, AppendProperties DEF Post, TypeOK

LEMMA TypeNext ==
  ASSUME TypeOK, [Next]_vars
  PROVE  TypeOK'
<1> USE DEF TypeOK
<1>1. ASSUME NEW c \in Conns, Connect(c) PROVE TypeOK'
  BY <1>1, AppendProperties DEF Connect
<1>2. ASSUME NEW c \in Conns, Ask(c) PROVE TypeOK'
  BY <1>2, ConstantsAssumption DEF Ask
<1>3. ASSUME NEW c \in Conns, NEW how \in {"closed", "reset"}, Leave(c, how) PROVE TypeOK'
  BY <1>3 DEF Leave
<1>4. ASSUME NEW c \in Conns, CompleteRead(c) PROVE TypeOK'
  <2>1. (c \in unread) \in BOOLEAN
    OBVIOUS
  <2>2. queue' \in Seq(Completions)
    BY <1>4, <2>1, PostType DEF CompleteRead
  <2>3. QED
    BY <1>4, <2>2 DEF CompleteRead
<1>5. ASSUME NEW c \in Conns, NEW ok \in BOOLEAN, CompleteWrite(c, ok) PROVE TypeOK'
  BY <1>5, PostType DEF CompleteWrite
<1>6. ASSUME CompleteAccept \/ AcceptFails PROVE TypeOK'
  <2>1. Head(backlog) \in Conns /\ Tail(backlog) \in Seq(Conns)
    BY <1>6, HeadTailProperties DEF CompleteAccept, AcceptFails
  <2>2. queue' \in Seq(Completions)
    BY <1>6, <2>1, PostType DEF CompleteAccept, AcceptFails
  <2>3. QED
    BY <1>6, <2>1, <2>2 DEF CompleteAccept, AcceptFails
<1>7. ASSUME NEW t \in Threads, Take(t) PROVE TypeOK'
  BY <1>7, HeadTailProperties DEF Take
<1>8. ASSUME NEW t \in Threads, HandleAccept(t) \/ HandleRead(t) \/ HandleWrite(t)
      PROVE TypeOK'
  <2>1. running[t] \in Completions /\ running[t].conn \in Conns
    BY <1>8 DEF HandleAccept, HandleRead, HandleWrite, Handle, Completions
  <2>2. running' \in [Threads -> Completions \cup {Idle}]
    BY <1>8 DEF HandleAccept, HandleRead, HandleWrite, Handle
  <2>3. UNCHANGED <<alive, backlog, peer, unread, asked, answered, queue>>
    BY <1>8 DEF HandleAccept, HandleRead, HandleWrite, Handle
  <2>4. PICK c \in Conns : c = running[t].conn
    BY <2>1
  <2>5. accepting' \in BOOLEAN
    BY <1>8 DEF HandleAccept, HandleRead, HandleWrite
  <2>6. ops' \in {ops, ops \cup {<<"read", c>>}, ops \cup {<<"write", c>>}}
    BY <1>8, <2>4 DEF HandleAccept, HandleRead, HandleWrite
  <2>7. session' \in {session, [session EXCEPT ![c] = "open"],
                      [session EXCEPT ![c] = "deleted"]}
    BY <1>8, <2>4 DEF HandleAccept, HandleRead, HandleWrite
  <2>8. ops' \subseteq {"read", "write"} \X Conns
    BY <2>6
  <2>9. session' \in [Conns -> {"none", "open", "deleted"}]
    BY <2>7
  <2>10. QED
    BY <2>2, <2>3, <2>5, <2>8, <2>9
<1>9. ASSUME NEW t \in Threads, EndpointThrows(t) PROVE TypeOK'
  BY <1>9 DEF EndpointThrows, Handle
<1>10. ASSUME UNCHANGED vars PROVE TypeOK'
  BY <1>10 DEF vars
<1>11. QED
  BY <1>1, <1>2, <1>3, <1>4, <1>5, <1>6, <1>7, <1>8, <1>9, <1>10 DEF Next, Quiescent

\* Every variable keeps its type (server.cc, session.cc).
THEOREM TypeCorrect == Spec => []TypeOK
BY TypeInit, TypeNext, PTL DEF Spec

-----------------------------------------------------------------------------
(* The inductive invariant.  One thing is under way for a session, and one   *)
(* accept; and it holds because a connection is accepted once: a session     *)
(* that were started again would read twice.                                 *)

About(c)   == {m \in Completions : m.conn = c /\ m.op # "accept"}
Accepts    == {m \in Completions : m.op = "accept"}
Welcome(c) == {m \in Accepts : m.conn = c /\ m.ok}

OpsOf(c) == {o \in ops : o[2] = c}

AcceptOp == IF accepting THEN {"accept"} ELSE {}

SessionInv(c) ==
  IF session[c] = "open"
  THEN OneOf(OpsOf(c), Queued(queue, About(c)), Handled(About(c)))
  ELSE NoneOf(OpsOf(c), Queued(queue, About(c)), Handled(About(c)))

AcceptInv == OneOf(AcceptOp, Queued(queue, Accepts), Handled(Accepts))

\* The kernel keeps the connection, or its acceptance is known.
Waits(c)    == \E i \in DOMAIN backlog : backlog[i] = c
Welcomed(c) == Queued(queue, Welcome(c)) # {} \/ Handled(Welcome(c)) # {}

Once == \A i, j \in DOMAIN backlog : backlog[i] = backlog[j] => i = j

FreshInv(c) ==
  /\ Waits(c) => session[c] = "none" /\ ~Welcomed(c)
  /\ Welcomed(c) => session[c] = "none"
  /\ peer[c] = "out" => session[c] = "none" /\ ~Waits(c) /\ ~Welcomed(c)

Inv ==
  alive => /\ AcceptInv /\ Once
           /\ \A c \in Conns : SessionInv(c) /\ FreshInv(c)

LEMMA KindsOfCompletion ==
  /\ Accepts \in SUBSET Completions
  /\ \A c : /\ About(c) \in SUBSET Completions
            /\ Welcome(c) \in SUBSET Accepts /\ Welcome(c) \in SUBSET Completions
            /\ Accepts \cap About(c) = {}
  /\ \A c, d : c # d => About(c) \cap About(d) = {}
BY DEF About, Accepts, Welcome

\* A completion that is posted joins the others of its kind.
LEMMA PostJoins ==
  ASSUME TypeOK, NEW op \in {"accept", "read", "write"}, NEW c \in Conns,
         NEW ok \in BOOLEAN, Post(op, c, ok), NEW M
  PROVE  /\ [op |-> op, conn |-> c, ok |-> ok] \notin M
              => Queued(queue', M) = Queued(queue, M)
         /\ [op |-> op, conn |-> c, ok |-> ok] \in M /\ Queued(queue, M) = {}
              => \E x \in Queued(queue', M) : Queued(queue', M) = {x}
<1> DEFINE m == [op |-> op, conn |-> c, ok |-> ok]
<1>1. m \in Completions
  BY DEF Completions
<1>2. queue \in Seq(Completions) /\ queue' = Append(queue, m)
  BY DEF TypeOK, Post
<1> HIDE DEF m
<1>3. /\ m \notin M => Queued(queue', M) = Queued(queue, M)
      /\ m \in M /\ Queued(queue, M) = {} => Queued(queue', M) = {Len(queue) + 1}
  BY <1>1, <1>2, QueuedAppend
<1>4. QED
  BY <1>3 DEF m

\* A thread that takes a completion moves it from the queue to itself.
LEMMA TakeMoves ==
  ASSUME TypeOK, NEW t \in Threads, Take(t), NEW A, NEW M \in SUBSET Completions
  PROVE  /\ OneOf(A, Queued(queue, M), Handled(M))
              => OneOf(A, Queued(queue', M), Handled(M)')
         /\ NoneOf(A, Queued(queue, M), Handled(M))
              => NoneOf(A, Queued(queue', M), Handled(M)')
         /\ Queued(queue', M) # {} \/ Handled(M)' # {}
              => Queued(queue, M) # {} \/ Handled(M) # {}
<1>1. queue \in Seq(Completions) /\ queue # <<>> /\ queue' = Tail(queue)
  BY DEF TypeOK, Take
<1>2. /\ \A i : i \in Queued(queue', M) <=> i \in Nat \ {0} /\ i + 1 \in Queued(queue, M)
      /\ Head(queue) \in M <=> 1 \in Queued(queue, M)
  BY <1>1, QueuedTail
<1>3. Queued(queue, M) \subseteq Nat \ {0}
  BY <1>1, LenProperties DEF Queued
<1>4. /\ t \notin Handled(M)
      /\ Handled(M)' = IF Head(queue) \in M THEN Handled(M) \cup {t} ELSE Handled(M)
  BY ConstantsAssumption DEF TypeOK, Take, Handled
<1>5. CASE Head(queue) \in M
  <2>1. Queued(queue, M) = {1} => Queued(queue', M) = {}
    BY <1>2
  <2>2. 1 \in Queued(queue, M)
    BY <1>2, <1>5
  <2>3. QED
    BY <1>4, <1>5, <2>1, <2>2 DEF OneOf, NoneOf
<1>6. CASE Head(queue) \notin M
  <2>1. Queued(queue, M) = {} => Queued(queue', M) = {}
    BY <1>2
  <2>2. ASSUME NEW x \in Queued(queue, M), Queued(queue, M) = {x}
        PROVE  \E y \in Queued(queue', M) : Queued(queue', M) = {y}
    <3>1. x \in Nat \ {0, 1}
      BY <1>2, <1>3, <1>6, <2>2
    <3>2. Queued(queue', M) = {x - 1}
      BY <1>2, <2>2, <3>1
    <3>3. QED
      BY <3>2
  <2>3. Handled(M)' = Handled(M)
    BY <1>4, <1>6
  <2>4. QED
    BY <2>1, <2>2, <2>3 DEF OneOf, NoneOf
<1>7. QED
  BY <1>5, <1>6

\* A thread that ends a handler has nothing in hand, the others what they had.
LEMMA HandleEnds ==
  ASSUME TypeOK, NEW t \in Threads, NEW op, Handle(t, op), NEW M \in SUBSET Completions
  PROVE  /\ Handled(M)' = Handled(M) \ {t}
         /\ t \in Handled(M) <=> running[t] \in M
         /\ running[t] \in Completions /\ running[t].conn \in Conns
         /\ running[t].op = op
BY ConstantsAssumption DEF TypeOK, Handle, Handled, Completions

-----------------------------------------------------------------------------
(* The steps. *)

LEMMA InvInit == Init => Inv
<1> SUFFICES ASSUME Init PROVE Inv
  OBVIOUS
<1>1. DOMAIN queue = {} /\ DOMAIN backlog = {}
  BY EmptySeq DEF Init
<1>2. \A M \in SUBSET Completions : Queued(queue, M) = {} /\ Handled(M) = {}
  BY <1>1, ConstantsAssumption DEF Init, Queued, Handled
<1>3. AcceptInv
  <2>1. Queued(queue, Accepts) = {} /\ Handled(Accepts) = {}
    BY <1>2, KindsOfCompletion
  <2>2. AcceptOp = {"accept"}
    BY DEF Init, AcceptOp
  <2>3. QED
    BY <2>1, <2>2 DEF AcceptInv, OneOf
<1>4. ASSUME NEW c \in Conns PROVE SessionInv(c) /\ FreshInv(c)
  <2>1. /\ Queued(queue, About(c)) = {} /\ Handled(About(c)) = {}
        /\ Queued(queue, Welcome(c)) = {} /\ Handled(Welcome(c)) = {}
    BY <1>2, KindsOfCompletion
  <2>2. session[c] = "none" /\ OpsOf(c) = {}
    BY DEF Init, OpsOf
  <2>3. QED
    BY <1>1, <2>1, <2>2 DEF SessionInv, NoneOf, FreshInv, Waits, Welcomed
<1>5. QED
  BY <1>1, <1>3, <1>4 DEF Inv, Once

\* A client that connects is the last the kernel keeps.
LEMMA InvConnect ==
  ASSUME TypeOK, Inv, NEW c \in Conns, Connect(c)
  PROVE  Inv'
<1>1. /\ alive /\ peer[c] = "out" /\ peer' = [peer EXCEPT ![c] = "open"]
      /\ backlog' = Append(backlog, c)
      /\ UNCHANGED <<session, accepting, ops, queue, running>>
  BY DEF Connect
<1>2. ~Waits(c) /\ ~Welcomed(c) /\ session[c] = "none"
  BY <1>1 DEF Inv, FreshInv
<1>3. /\ DOMAIN backlog = 1..Len(backlog) /\ Len(backlog) \in Nat
      /\ DOMAIN backlog' = 1..Len(backlog) + 1
      /\ \A i \in 1..Len(backlog) : backlog'[i] = backlog[i]
      /\ backlog'[Len(backlog) + 1] = c
  BY <1>1, LenProperties, AppendProperties DEF TypeOK
<1>4. Once'
  BY <1>1, <1>2, <1>3 DEF Inv, Once, Waits
<1>5. AcceptInv'
  BY <1>1 DEF Inv, AcceptInv, AcceptOp, Queued, Handled
<1>6. ASSUME NEW d \in Conns PROVE SessionInv(d)' /\ FreshInv(d)'
  <2>1. SessionInv(d)'
    BY <1>1 DEF Inv, SessionInv, OpsOf, Queued, Handled
  <2>2. Welcomed(d)' <=> Welcomed(d)
    BY <1>1 DEF Welcomed, Queued, Handled
  <2>3. Waits(d)' <=> Waits(d) \/ d = c
    BY <1>3 DEF Waits
  <2>4. peer'[d] = "out" => peer[d] = "out" /\ d # c
    BY <1>1 DEF TypeOK
  <2>5. QED
    BY <1>1, <1>2, <2>1, <2>2, <2>3, <2>4 DEF Inv, FreshInv
<1>7. QED
  BY <1>4, <1>5, <1>6 DEF Inv

\* A client that asks or leaves changes nothing here.
LEMMA InvClient ==
  ASSUME TypeOK, Inv, NEW c \in Conns, Ask(c) \/ Leave(c, "closed") \/ Leave(c, "reset")
  PROVE  Inv'
<1>1. /\ UNCHANGED <<alive, backlog, session, accepting, ops, queue, running>>
      /\ \A d \in Conns : peer'[d] = "out" => peer[d] = "out"
  BY DEF Ask, Leave, TypeOK
<1>2. (Once' /\ AcceptInv') \/ ~alive
  BY <1>1 DEF Inv, Once, AcceptInv, AcceptOp, Queued, Handled
<1>3. ASSUME NEW d \in Conns PROVE (SessionInv(d)' /\ FreshInv(d)') \/ ~alive
  <2>1. SessionInv(d)' \/ ~alive
    BY <1>1 DEF Inv, SessionInv, OpsOf, Queued, Handled
  <2>2. (Welcomed(d)' <=> Welcomed(d)) /\ (Waits(d)' <=> Waits(d))
    BY <1>1 DEF Welcomed, Waits, Queued, Handled
  <2>3. QED
    BY <1>1, <2>1, <2>2 DEF Inv, FreshInv
<1>4. QED
  BY <1>1, <1>2, <1>3 DEF Inv

\* An operation that completes leaves its completion in the queue.
LEMMA InvComplete ==
  ASSUME TypeOK, Inv, NEW c \in Conns, NEW op \in {"read", "write"}, NEW ok \in BOOLEAN,
         alive, <<op, c>> \in ops, ops' = ops \ {<<op, c>>}, Post(op, c, ok),
         UNCHANGED <<backlog, peer, session, accepting, running>>
  PROVE  Inv'
<1> DEFINE m == [op |-> op, conn |-> c, ok |-> ok]
<1>1. /\ m \in About(c) /\ m \notin Accepts
      /\ \A d : m \notin Welcome(d) /\ (d # c => m \notin About(d))
  BY DEF About, Accepts, Welcome, Completions
<1>2. \A M : /\ m \notin M => Queued(queue', M) = Queued(queue, M)
             /\ m \in M /\ Queued(queue, M) = {}
                  => \E x \in Queued(queue', M) : Queued(queue', M) = {x}
  BY PostJoins
<1>3. \A M : Handled(M)' = Handled(M)
  BY DEF Handled
<1> HIDE DEF m
<1>4. Once' /\ AcceptInv'
  <2>1. AcceptOp' = AcceptOp /\ Queued(queue', Accepts) = Queued(queue, Accepts)
    BY <1>1, <1>2 DEF AcceptOp
  <2>2. QED
    BY <1>3, <2>1 DEF Inv, Once, AcceptInv
<1>5. ASSUME NEW d \in Conns PROVE SessionInv(d)' /\ FreshInv(d)'
  <2>1. FreshInv(d)'
    <3>1. Queued(queue', Welcome(d)) = Queued(queue, Welcome(d))
      BY <1>1, <1>2
    <3>2. (Welcomed(d)' <=> Welcomed(d)) /\ (Waits(d)' <=> Waits(d))
      BY <1>3, <3>1 DEF Welcomed, Waits
    <3>3. QED
      BY <3>2 DEF Inv, FreshInv
  <2>2. CASE d = c
    <3>1. <<op, c>> \in OpsOf(c) /\ OpsOf(c)' = OpsOf(c) \ {<<op, c>>}
      BY DEF OpsOf
    <3>2. /\ session[c] = "open"
          /\ OpsOf(c) = {<<op, c>>}
          /\ Queued(queue, About(c)) = {} /\ Handled(About(c)) = {}
      BY <3>1 DEF Inv, SessionInv, OneOf, NoneOf
    <3>3. \E x \in Queued(queue', About(c)) : Queued(queue', About(c)) = {x}
      BY <1>1, <1>2, <3>2
    <3>4. OpsOf(c)' = {} /\ Handled(About(c))' = {}
      BY <1>3, <3>1, <3>2
    <3>5. QED
      BY <2>1, <2>2, <3>2, <3>3, <3>4 DEF SessionInv, OneOf
  <2>3. CASE d # c
    <3>1. OpsOf(d)' = OpsOf(d)
      BY <2>3 DEF OpsOf
    <3>2. Queued(queue', About(d)) = Queued(queue, About(d))
      BY <1>1, <1>2, <2>3
    <3>3. QED
      BY <1>3, <2>1, <3>1, <3>2 DEF Inv, SessionInv
  <2>4. QED
    BY <2>2, <2>3
<1>6. QED
  BY <1>4, <1>5 DEF Inv

\* The connection that waited longest leaves the kernel, or its acceptance fails.
LEMMA InvAccepted ==
  ASSUME TypeOK, Inv, CompleteAccept \/ AcceptFails
  PROVE  Inv'
<1>1. /\ alive /\ accepting /\ backlog # <<>> /\ accepting' = FALSE
      /\ UNCHANGED <<peer, session, ops, running>>
  BY DEF CompleteAccept, AcceptFails
<1>2. /\ DOMAIN backlog = 1..Len(backlog) /\ Len(backlog) \in Nat \ {0}
      /\ Head(backlog) \in Conns /\ Head(backlog) = backlog[1]
      /\ DOMAIN Tail(backlog) = 1..Len(backlog) - 1
      /\ \A i \in DOMAIN Tail(backlog) : Tail(backlog)[i] = backlog[i + 1]
  BY <1>1, LenProperties, HeadTailProperties, EmptySeq DEF TypeOK
<1>3. PICK c \in Conns, ok \in BOOLEAN :
        /\ c = Head(backlog) /\ Post("accept", c, ok)
        /\ backlog' = IF ok THEN Tail(backlog) ELSE backlog
  BY <1>2 DEF CompleteAccept, AcceptFails
<1> DEFINE m == [op |-> "accept", conn |-> c, ok |-> ok]
<1>4. /\ m \in Accepts /\ (m \in Welcome(c) <=> ok)
      /\ \A d : m \notin About(d) /\ (d # c => m \notin Welcome(d))
  BY DEF About, Accepts, Welcome, Completions
<1>5. \A M : /\ m \notin M => Queued(queue', M) = Queued(queue, M)
             /\ m \in M /\ Queued(queue, M) = {}
                  => \E x \in Queued(queue', M) : Queued(queue', M) = {x}
  BY <1>3, PostJoins
<1>6. \A M : Handled(M)' = Handled(M)
  BY <1>1 DEF Handled
<1> HIDE DEF m
<1>7. AcceptInv'
  <2>1. Queued(queue, Accepts) = {} /\ Handled(Accepts) = {}
    BY <1>1 DEF Inv, AcceptInv, AcceptOp, OneOf
  <2>2. /\ Handled(Accepts)' = {} /\ AcceptOp' = {}
        /\ \E x \in Queued(queue', Accepts) : Queued(queue', Accepts) = {x}
    BY <1>1, <1>4, <1>5, <1>6, <2>1 DEF AcceptOp
  <2>3. QED
    BY <2>2 DEF AcceptInv, OneOf
<1>8. Once' /\ \A d : Waits(d)' => Waits(d) /\ (ok => d # c)
  <2>1. Once /\ Waits(c)
    BY <1>1, <1>2, <1>3 DEF Inv, Waits
  <2>2. CASE ok
    <3>1. backlog' = Tail(backlog)
      BY <1>3, <2>2
    <3>2. Once'
      BY <1>2, <2>1, <3>1 DEF Once
    <3>3. \A d : Waits(d)' => Waits(d) /\ d # c
      BY <1>2, <1>3, <2>1, <3>1 DEF Once, Waits
    <3>4. QED
      BY <3>2, <3>3
  <2>3. CASE ~ok
    BY <1>3, <2>1, <2>3 DEF Once, Waits
  <2>4. QED
    BY <2>2, <2>3
<1>9. ASSUME NEW d \in Conns PROVE SessionInv(d)' /\ FreshInv(d)'
  <2>1. SessionInv(d)'
    <3>1. OpsOf(d)' = OpsOf(d) /\ Queued(queue', About(d)) = Queued(queue, About(d))
      BY <1>1, <1>4, <1>5 DEF OpsOf
    <3>2. QED
      BY <1>1, <1>6, <3>1 DEF Inv, SessionInv
  <2>2. Welcomed(d)' => Welcomed(d) \/ (ok /\ d = c)
    <3>1. m \notin Welcome(d) => Queued(queue', Welcome(d)) = Queued(queue, Welcome(d))
      BY <1>5
    <3>2. QED
      BY <1>4, <1>6, <3>1 DEF Welcomed
  <2>3. Waits(c)
    BY <1>2, <1>3 DEF Waits
  <2>4. (session[d] = "none" /\ peer[d] # "out") \/ ~Waits(d)
    BY <1>1 DEF Inv, FreshInv
  <2>5. FreshInv(d)'
    BY <1>1, <1>8, <2>2, <2>3, <2>4 DEF Inv, FreshInv
  <2>6. QED
    BY <2>1, <2>5
<1>10. QED
  BY <1>7, <1>8, <1>9 DEF Inv

LEMMA InvTake ==
  ASSUME TypeOK, Inv, NEW t \in Threads, Take(t)
  PROVE  Inv'
<1>1. alive /\ UNCHANGED <<alive, backlog, peer, session, accepting, ops>>
  BY DEF Take
<1>2. Once' /\ AcceptInv'
  <2>1. OneOf(AcceptOp, Queued(queue', Accepts), Handled(Accepts)')
    BY <1>1, TakeMoves, KindsOfCompletion DEF Inv, AcceptInv
  <2>2. AcceptOp' = AcceptOp
    BY <1>1 DEF AcceptOp
  <2>3. QED
    BY <1>1, <2>1, <2>2 DEF Inv, Once, AcceptInv
<1>3. ASSUME NEW c \in Conns PROVE SessionInv(c)' /\ FreshInv(c)'
  <2>1. OpsOf(c)' = OpsOf(c) /\ session'[c] = session[c]
    BY <1>1 DEF OpsOf
  <2>2. /\ OneOf(OpsOf(c), Queued(queue, About(c)), Handled(About(c)))
             => OneOf(OpsOf(c), Queued(queue', About(c)), Handled(About(c))')
        /\ NoneOf(OpsOf(c), Queued(queue, About(c)), Handled(About(c)))
             => NoneOf(OpsOf(c), Queued(queue', About(c)), Handled(About(c))')
    BY TakeMoves, KindsOfCompletion
  <2>3. SessionInv(c)'
    BY <1>1, <2>1, <2>2 DEF Inv, SessionInv
  <2>4. Welcomed(c)' => Welcomed(c)
    BY TakeMoves, KindsOfCompletion DEF Welcomed
  <2>5. Waits(c)' <=> Waits(c)
    BY <1>1 DEF Waits
  <2>6. QED
    BY <1>1, <2>3, <2>4, <2>5 DEF Inv, FreshInv
<1>4. QED
  BY <1>1, <1>2, <1>3 DEF Inv

\* A session that starts is new; whatever came of the accept, the next is started.
LEMMA InvHandleAccept ==
  ASSUME TypeOK, Inv, NEW t \in Threads, HandleAccept(t)
  PROVE  Inv'
<1>1. /\ alive /\ alive' /\ Handle(t, "accept") /\ accepting' = TRUE
      /\ UNCHANGED <<backlog, peer, queue>>
  BY DEF HandleAccept, Handle
<1>2. PICK c \in Conns : c = running[t].conn
  BY <1>1, HandleEnds, KindsOfCompletion
<1>3. /\ session' = IF running[t].ok THEN [session EXCEPT ![c] = "open"] ELSE session
      /\ ops' = IF running[t].ok THEN ops \cup {<<"read", c>>} ELSE ops
  BY <1>2 DEF HandleAccept
<1>4. \A M \in SUBSET Completions :
        /\ Handled(M)' = Handled(M) \ {t} /\ (t \in Handled(M) <=> running[t] \in M)
        /\ Queued(queue', M) = Queued(queue, M)
  BY <1>1, HandleEnds
<1>5. /\ running[t] \in Accepts
      /\ \A d : running[t] \notin About(d)
      /\ running[t].ok => running[t] \in Welcome(c)
  BY <1>1, <1>2, HandleEnds, KindsOfCompletion DEF About, Accepts, Welcome
<1>6. AcceptOp = {} /\ Queued(queue, Accepts) = {} /\ Handled(Accepts) = {t}
  BY <1>1, <1>4, <1>5, KindsOfCompletion DEF Inv, AcceptInv, OneOf
<1>7. \A d : ~Welcomed(d)'
  BY <1>4, <1>6, KindsOfCompletion DEF Welcomed, Queued, Handled
<1>8. Once' /\ AcceptInv'
  <2>1. AcceptOp' = {"accept"} /\ Queued(queue', Accepts) = {} /\ Handled(Accepts)' = {}
    BY <1>1, <1>4, <1>6, KindsOfCompletion DEF AcceptOp
  <2>2. QED
    BY <1>1, <2>1 DEF Inv, Once, AcceptInv, OneOf
<1>9. ASSUME NEW d \in Conns PROVE SessionInv(d)' /\ FreshInv(d)'
  <2>1. /\ Handled(About(d))' = Handled(About(d))
        /\ Queued(queue', About(d)) = Queued(queue, About(d))
    <3>1. About(d) \in SUBSET Completions
      BY KindsOfCompletion
    <3>2. QED
      BY <1>4, <1>5, <3>1
  <2>2. Waits(d)' <=> Waits(d)
    BY <1>1 DEF Waits
  <2>3. CASE d = c /\ running[t].ok
    <3>1. Welcomed(c)
      BY <1>4, <1>5, <2>3, KindsOfCompletion DEF Welcomed
    <3>2. session[c] = "none" /\ peer[c] # "out" /\ ~Waits(c)
      BY <1>1, <3>1 DEF Inv, FreshInv
    <3>3. NoneOf(OpsOf(c), Queued(queue, About(c)), Handled(About(c)))
      BY <1>1, <3>2 DEF Inv, SessionInv
    <3>4. session'[c] = "open" /\ OpsOf(c)' = OpsOf(c) \cup {<<"read", c>>}
      BY <1>3, <2>3 DEF OpsOf, TypeOK
    <3>5. SessionInv(d)'
      BY <2>1, <2>3, <3>3, <3>4 DEF SessionInv, OneOf, NoneOf
    <3>6. QED
      BY <1>1, <1>7, <2>2, <2>3, <3>2, <3>5 DEF FreshInv
  <2>4. CASE ~(d = c /\ running[t].ok)
    <3>1. session'[d] = session[d] /\ OpsOf(d)' = OpsOf(d)
      BY <1>3, <2>4 DEF OpsOf, TypeOK
    <3>2. QED
      BY <1>1, <1>7, <2>1, <2>2, <3>1 DEF Inv, SessionInv, FreshInv
  <2>5. QED
    BY <2>3, <2>4
<1>10. QED
  BY <1>8, <1>9 DEF Inv

\* A handler that ends starts the next operation of its session, or deletes it.
LEMMA InvHandle ==
  ASSUME TypeOK, Inv, NEW t \in Threads, HandleRead(t) \/ HandleWrite(t)
  PROVE  Inv'
<1>1. PICK op \in {"read", "write"} : Handle(t, op)
  BY DEF HandleRead, HandleWrite
<1>2. alive /\ alive' /\ UNCHANGED <<backlog, peer, queue, accepting>>
  BY DEF HandleRead, HandleWrite, Handle
<1>3. PICK c \in Conns : c = running[t].conn
  BY <1>1, HandleEnds, KindsOfCompletion
<1>4. PICK next \in {"read", "write"} :
        /\ session' = IF running[t].ok THEN session ELSE [session EXCEPT ![c] = "deleted"]
        /\ ops' = IF running[t].ok THEN ops \cup {<<next, c>>} ELSE ops
  BY <1>3 DEF HandleRead, HandleWrite
<1>5. \A M \in SUBSET Completions :
        /\ Handled(M)' = Handled(M) \ {t} /\ (t \in Handled(M) <=> running[t] \in M)
        /\ Queued(queue', M) = Queued(queue, M)
  BY <1>1, <1>2, HandleEnds
<1>6. /\ running[t] \in About(c) /\ running[t] \notin Accepts
      /\ \A d : running[t] \notin Welcome(d) /\ (d # c => running[t] \notin About(d))
  BY <1>1, <1>3, HandleEnds, KindsOfCompletion DEF About, Accepts, Welcome
<1>7. Once' /\ AcceptInv'
  <2>1. /\ AcceptOp' = AcceptOp /\ Queued(queue', Accepts) = Queued(queue, Accepts)
        /\ Handled(Accepts)' = Handled(Accepts)
    <3>1. Accepts \in SUBSET Completions
      BY KindsOfCompletion
    <3>2. QED
      BY <1>2, <1>5, <1>6, <3>1 DEF AcceptOp
  <2>2. QED
    BY <1>2, <2>1 DEF Inv, Once, AcceptInv
<1>8. ASSUME NEW d \in Conns PROVE SessionInv(d)' /\ FreshInv(d)'
  <2>1. (Welcomed(d)' <=> Welcomed(d)) /\ (Waits(d)' <=> Waits(d))
    BY <1>2, <1>5, <1>6, KindsOfCompletion DEF Welcomed, Waits
  <2>2. FreshInv(d)
    BY <1>2 DEF Inv
  <2>3. CASE d = c
    <3>1. /\ t \in Handled(About(c))
          /\ Handled(About(c))' = Handled(About(c)) \ {t}
          /\ Queued(queue', About(c)) = Queued(queue, About(c))
      BY <1>5, <1>6, KindsOfCompletion
    <3>2. /\ session[c] = "open" /\ OpsOf(c) = {}
          /\ Queued(queue, About(c)) = {} /\ Handled(About(c)) = {t}
      BY <1>2, <3>1 DEF Inv, SessionInv, OneOf, NoneOf
    <3>3. session'[c] = IF running[t].ok THEN "open" ELSE "deleted"
      BY <1>4, <3>2 DEF TypeOK
    <3>4. OpsOf(c)' = IF running[t].ok THEN {<<next, c>>} ELSE {}
      BY <1>4, <3>2 DEF OpsOf
    <3>5. SessionInv(c)'
      BY <3>1, <3>2, <3>3, <3>4 DEF SessionInv, OneOf, NoneOf
    <3>6. FreshInv(c)'
      BY <1>2, <2>1, <2>2, <2>3, <3>2 DEF FreshInv
    <3>7. QED
      BY <2>3, <3>5, <3>6
  <2>4. CASE d # c
    <3>1. session'[d] = session[d] /\ OpsOf(d)' = OpsOf(d)
      BY <1>4, <2>4 DEF OpsOf, TypeOK
    <3>2. About(d) \in SUBSET Completions
      BY KindsOfCompletion
    <3>3. /\ Handled(About(d))' = Handled(About(d))
          /\ Queued(queue', About(d)) = Queued(queue, About(d))
      BY <1>5, <1>6, <2>4, <3>2
    <3>4. QED
      BY <1>2, <2>1, <2>2, <3>1, <3>3 DEF Inv, SessionInv, FreshInv
  <2>5. QED
    BY <2>3, <2>4
<1>9. QED
  BY <1>7, <1>8 DEF Inv

LEMMA InvNext ==
  ASSUME TypeOK, Inv, [Next]_vars
  PROVE  Inv'
<1>1. ASSUME NEW c \in Conns, CompleteRead(c) PROVE Inv'
  <2>1. (c \in unread) \in BOOLEAN
    OBVIOUS
  <2>2. QED
    BY <1>1, <2>1, InvComplete DEF CompleteRead
<1>2. ASSUME NEW c \in Conns, NEW ok \in BOOLEAN, CompleteWrite(c, ok) PROVE Inv'
  BY <1>2, InvComplete DEF CompleteWrite
<1>3. ASSUME NEW t \in Threads, EndpointThrows(t) PROVE Inv'
  BY <1>3 DEF EndpointThrows, Inv
<1>4. ASSUME UNCHANGED vars PROVE Inv'
  BY <1>4 DEF vars, Inv, AcceptInv, AcceptOp, Once, SessionInv, FreshInv, OpsOf, Queued,
              Handled, Waits, Welcomed
<1>5. QED
  BY <1>1, <1>2, <1>3, <1>4, InvConnect, InvClient, InvAccepted, InvTake,
     InvHandleAccept, InvHandle DEF Next, Quiescent

-----------------------------------------------------------------------------
(* The theorems. *)

LEMMA InvCorrect == Spec => [](TypeOK /\ Inv)
<1>1. Init => TypeOK /\ Inv
  BY TypeInit, InvInit
<1>2. TypeOK /\ Inv /\ [Next]_vars => TypeOK' /\ Inv'
  BY TypeNext, InvNext
<1>3. QED
  BY <1>1, <1>2, PTL DEF Spec

\* A session that is open has one operation outstanding, one completion queued
\* or one handler running, and one that is not has none (session.cc: each
\* handler starts one operation or deletes its session).
THEOREM OneThing == Spec => []OneThingUnderWay
<1>1. TypeOK /\ Inv => OneThingUnderWay
  <2> SUFFICES ASSUME TypeOK, Inv, alive, NEW c \in Conns
               PROVE  Pending(c) = IF session[c] = "open" THEN 1 ELSE 0
    BY DEF OneThingUnderWay
  <2>1. \A i \in DOMAIN queue : queue[i] \in Completions
    BY ElementOfSeq, LenProperties DEF TypeOK
  <2>2. {i \in DOMAIN queue : queue[i].conn = c /\ queue[i].op # "accept"}
          = Queued(queue, About(c))
    BY <2>1 DEF Queued, About
  <2>3. {t \in Threads : /\ running[t] # Idle /\ running[t].conn = c
                         /\ running[t].op # "accept"} = Handled(About(c))
    BY ConstantsAssumption DEF Handled, About, TypeOK
  <2>4. Pending(c) = Cardinality(OpsOf(c)) + Cardinality(Queued(queue, About(c)))
                       + Cardinality(Handled(About(c)))
    BY <2>2, <2>3 DEF Pending, OpsOf
  <2>5. SessionInv(c)
    BY DEF Inv
  <2>6. QED
    BY <2>4, <2>5, OneIsCounted DEF SessionInv
<1>2. QED
  BY <1>1, InvCorrect, PTL

\* One accept is outstanding, or has completed and is about to be started again
\* (server.cc: handle_accept calls start_accept whatever happened).
THEOREM Accepting == Spec => []AcceptUnderWay
<1>1. TypeOK /\ Inv => AcceptUnderWay
  <2> SUFFICES ASSUME TypeOK, Inv, alive
               PROVE  (IF accepting THEN 1 ELSE 0)
                      + Cardinality({i \in DOMAIN queue : queue[i].op = "accept"})
                      + Cardinality({t \in Threads : running[t] # Idle
                                                     /\ running[t].op = "accept"}) = 1
    BY DEF AcceptUnderWay
  <2>1. \A i \in DOMAIN queue : queue[i] \in Completions
    BY ElementOfSeq, LenProperties DEF TypeOK
  <2>2. {i \in DOMAIN queue : queue[i].op = "accept"} = Queued(queue, Accepts)
    BY <2>1 DEF Queued, Accepts
  <2>3. {t \in Threads : running[t] # Idle /\ running[t].op = "accept"} = Handled(Accepts)
    BY ConstantsAssumption DEF Handled, Accepts, TypeOK
  <2>4. Cardinality(AcceptOp) = IF accepting THEN 1 ELSE 0
    BY FS_EmptySet, FS_Singleton DEF AcceptOp
  <2>5. AcceptInv
    BY DEF Inv
  <2>6. Cardinality(AcceptOp) + Cardinality(Queued(queue, Accepts))
          + Cardinality(Handled(Accepts)) = 1
    BY <2>5, OneIsCounted DEF AcceptInv
  <2>7. QED
    BY <2>2, <2>3, <2>4, <2>6
<1>2. QED
  BY <1>1, InvCorrect, PTL
=============================================================================
