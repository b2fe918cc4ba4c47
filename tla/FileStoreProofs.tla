--------------------------- MODULE FileStoreProofs ---------------------------
(***************************************************************************)
(* Proofs about FileStore, for any number of threads, entities, files and  *)
(* bodies, and any behaviour of the clients: types, the mutex and the ids  *)
(* it protects; what clients were told is stored, that it is there as long *)
(* as nobody sends a DELETE, and that it stays, over deletions, crashes,   *)
(* signals, restarts and full disks (FileStoreHistory); what can kill the  *)
(* process.                                                                *)
(***************************************************************************)
EXTENDS FileStoreHistory, SequenceTheorems, TLAPS

-----------------------------------------------------------------------------
(* The helpers. *)

\* Put adds one argument and leaves the values at the others alone.
LEMMA PutFile ==
  ASSUME NEW f, NEW p, NEW c
  PROVE  /\ DOMAIN Put(f, p, c) = DOMAIN f \cup {p}
         /\ Put(f, p, c) = [q \in DOMAIN Put(f, p, c) |-> Put(f, p, c)[q]]
         /\ Put(f, p, c)[p] = c
         /\ \A q \in DOMAIN f \ {p} : Put(f, p, c)[q] = f[q]
BY DEF Put

\* Unlinking leaves the other files as they are.
LEMMA CutFiles ==
  ASSUME NEW f, NEW P
  PROVE  /\ DOMAIN Restrict(f, DOMAIN f \ P) = DOMAIN f \ P
         /\ Restrict(f, DOMAIN f \ P) = [q \in DOMAIN f \ P |-> f[q]]
BY DEF Restrict

\* As much of a body as reaches the disk is made of bytes.
LEMMA SubSeqType ==
  ASSUME NEW b \in Seq(Bytes), NEW n \in 0..Len(b)
  PROVE  SubSeq(b, 1, n) \in Seq(Bytes)
<1>1. \A i \in 1..n : b[i] \in Bytes
  BY LenProperties, ElementOfSeq
<1>2. QED
  BY <1>1, SubSeqProperties

\* What is left in a file after a write is made of the bytes of both contents.
LEMMA OverlayType ==
  ASSUME NEW b \in Seq(Bytes), NEW old \in Seq(Bytes)
  PROVE  Overlay(b, old) \in Seq(Bytes)
<1>1. Len(b) \in Nat /\ Len(old) \in Nat
  BY LenProperties
<1>2. \A i \in Len(b) + 1 .. Len(old) : old[i] \in Bytes
  BY <1>1, ElementOfSeq
<1>3. SubSeq(old, Len(b) + 1, Len(old)) \in Seq(Bytes)
  BY <1>1, <1>2, SubSeqProperties
<1>4. QED
  BY <1>3, ConcatProperties DEF Overlay

\* All of a body that is written to an empty file is what the file then holds.
LEMMA WholeBody ==
  ASSUME NEW b \in Seq(Bytes)
  PROVE  Overlay(SubSeq(b, 1, Len(b)), <<>>) = b
<1>1. SubSeq(b, 1, Len(b)) = b /\ Len(b) \in Nat
  BY SubSeqFull, LenProperties
<1>2. SubSeq(<<>>, Len(b) + 1, Len(<<>>)) = <<>>
  <2>1. <<>> \in Seq(Bytes) /\ Len(<<>>) = 0
    BY EmptySeq
  <2>2. QED
    BY <1>1, <2>1, SubSeqEmpty
<1>3. QED
  BY <1>1, <1>2, ConcatEmptySeq DEF Overlay

\* The id get_unique_file_name returns is an int, and above every file in the
\* directory unless it is the smallest int.
LEMMA WrapType ==
  ASSUME NEW n \in 0..IntMax
  PROVE  /\ Wrap(n + 1) \in Names
         /\ Wrap(n + 1) = IntMin \/ Wrap(n + 1) = n + 1
BY ConstantsAssumption DEF Wrap, Names

-----------------------------------------------------------------------------
(* Types.  The type invariant needs to know that a writer on its way to      *)
(* fopen has an entity and, when it gets there, a file number.               *)

OnItsWay == {"exists", "mkdir", "lock"}

HasPath(t) ==
  /\ pc[t] \in {"mkdir", "lock"} => job[t].method # "GET"
  /\ pc[t] \in OnItsWay /\ job[t].method # "GET"
     => /\ Entity(t) \in Entities
        /\ job[t].method = "POST" \/ name[t] \in Names
  /\ pc[t] = "open" => name[t] \in Names

TypeInv == TypeOK /\ \A t \in Threads : HasPath(t)

LEMMA TypeInit == Init => TypeInv
<1> SUFFICES ASSUME Init PROVE TypeInv
  OBVIOUS
<1> USE ConstantsAssumption
<1>1. PICK P \in SUBSET LeftOver, b \in Bodies :
        files = [p \in P |-> b] /\ dirs = {p[1] : p \in P} \cup (Entities \cap {Here})
  BY DEF Init
<1>2. P \subseteq Paths /\ dirs \subseteq Entities
  BY <1>1 DEF Paths, Names
<1>3. /\ job \in [Threads -> Jobs]
      /\ name \in [Threads -> Names \cup {0}]
      /\ open \in [Threads -> Paths \cup {NoFile}]
  BY DEF Init, Jobs
<1>4. reply \in [Threads -> Replies]
  BY DEF Init, Replies, NoReply, Code
<1>5. files \in [DOMAIN files -> Seq(Bytes)] /\ DOMAIN files \subseteq Paths
  BY <1>1, <1>2
<1>6. TypeOK
  <2>1. status \in {"up"} \cup Causes /\ lock \in Threads \cup {Free}
    BY DEF Init
  <2>2. pc \in [Threads -> Labels]
    BY DEF Init, Labels
  <2>3. begun \in 0..MaxRequests
    BY DEF Init
  <2>4. stray \in BOOLEAN /\ deleted \in BOOLEAN
    BY DEF Init
  <2>5. QED
    BY <1>2, <1>3, <1>4, <1>5, <2>1, <2>2, <2>3, <2>4 DEF TypeOK
<1>7. ASSUME NEW t \in Threads PROVE HasPath(t)
  <2>1. pc[t] = "idle"
    BY DEF Init
  <2>2. QED
    BY <2>1 DEF HasPath, OnItsWay
<1>8. QED
  BY <1>6, <1>7 DEF TypeInv

\* A crash leaves the disk as it is and nothing else.
LEMMA TypeCrash ==
  ASSUME TypeInv, NEW why \in Causes, Crash(why)
  PROVE  TypeInv'
<1>1. \A t \in Threads : pc'[t] = "idle"
  BY DEF Crash
<1>2. /\ job' \in [Threads -> Jobs]
      /\ name' \in [Threads -> Names \cup {0}]
      /\ open' \in [Threads -> Paths \cup {NoFile}]
  BY DEF Crash, Jobs
<1>3. reply' \in [Threads -> Replies]
  BY DEF Crash, Replies, NoReply, Code
<1>4. pc' \in [Threads -> Labels]
  BY DEF Crash, Labels
<1>5. TypeOK'
  BY <1>2, <1>3, <1>4 DEF Crash, TypeInv, TypeOK
<1>6. QED
  BY <1>1, <1>5 DEF TypeInv, HasPath, OnItsWay, Entity

Elsewhere == Labels \ {"mkdir", "lock", "open"}

\* A thread that leaves the way to fopen takes no other thread along.
LEMMA Frame ==
  ASSUME TypeInv, NEW t \in Threads, NEW label \in Elsewhere \ {"exists"},
         Goto(t, label),
         \A u \in Threads \ {t} : job'[u] = job[u] /\ name'[u] = name[u]
  PROVE  pc' \in [Threads -> Labels] /\ \A u \in Threads : HasPath(u)'
<1>1. pc' \in [Threads -> Labels] /\ pc'[t] = label
  BY DEF Goto, TypeInv, TypeOK, Elsewhere
<1>2. \A u \in Threads \ {t} : pc'[u] = pc[u]
  BY DEF Goto, TypeInv, TypeOK
<1>3. HasPath(t)'
  BY <1>1 DEF HasPath, OnItsWay, Elsewhere
<1>4. ASSUME NEW u \in Threads \ {t} PROVE HasPath(u)'
  BY <1>2, <1>4 DEF TypeInv, HasPath, Entity
<1>5. QED
  BY <1>1, <1>3, <1>4

\* The responses the handlers settle.
LEMMA ReplyType ==
  ASSUME TypeInv, NEW t \in Threads, NEW r \in Replies, Settle(t, r)
  PROVE  reply' \in [Threads -> Replies]
BY DEF TypeInv, TypeOK, Settle

LEMMA ResponseType ==
  /\ \A c \in {0, 200, 400, 500} : Code(c) \in Replies
  /\ \A i \in Names \cup {0} : HasId(i) \in Replies
  /\ \A I \in SUBSET (Names \cup Entities) : Lists(I) \in Replies
  /\ \A b \in Seq(Bytes) : Holds(b) \in Replies
BY DEF Code, HasId, Lists, Holds, Replies

\* Unlinking keeps the types of files and descriptors.
LEMMA UnlinkType ==
  ASSUME TypeInv, NEW P, Unlink(P)
  PROVE  /\ DOMAIN files' = DOMAIN files \ P
         /\ files' \in [DOMAIN files' -> Seq(Bytes)]
         /\ open' \in [Threads -> Paths \cup {NoFile}]
<1>1. /\ DOMAIN files' = DOMAIN files \ P
      /\ files' = [q \in DOMAIN files \ P |-> files[q]]
  BY CutFiles DEF Unlink
<1>2. \A q \in DOMAIN files : files[q] \in Seq(Bytes)
  BY DEF TypeInv, TypeOK
<1>3. files' \in [DOMAIN files' -> Seq(Bytes)]
  BY <1>1, <1>2
<1>4. open' \in [Threads -> Paths \cup {NoFile}]
  BY DEF Unlink, TypeInv, TypeOK
<1>5. QED
  BY <1>1, <1>3, <1>4

\* The numbers in a directory are file numbers.
LEMMA NamesAreIntegers == Names \subseteq Int /\ IntMax \in Int
<1>1. Ids \subseteq Int /\ IntMax \in Int
  BY ConstantsAssumption
<1>2. IntMin \in Int /\ 1..IntMax \subseteq Int
  BY <1>1 DEF IntMin
<1>3. QED
  BY <1>1, <1>2 DEF Names

LEMMA IdsType ==
  TypeInv => \A e : IdsIn(e) \subseteq Names /\ Below(e) \subseteq Entities
BY DEF TypeInv, TypeOK, IdsIn, Below, Paths

\* A thread takes up a request.
LEMMA TypeBegin ==
  ASSUME TypeInv, NEW t \in Threads, HandleRequest(t)
  PROVE  TypeInv'
<1> USE ConstantsAssumption, ResponseType
<1>1. ASSUME NEW j \in Jobs, NEW label \in {"exists", "isreg", "reply"},
             Begin(t, j, label), reply' \in [Threads -> Replies],
             deleted' \in BOOLEAN,
             Len(j.uri) = 2 => j.uri[2] \in Ids,
             label = "exists" /\ j.method # "GET" =>
               /\ j.uri[1] \in Entities
               /\ j.method = "POST" \/ Len(j.uri) = 2
      PROVE  TypeInv'
  <2>1. /\ pc' = [pc EXCEPT ![t] = label] /\ job' = [job EXCEPT ![t] = j]
        /\ name' = [name EXCEPT ![t] = IF Len(j.uri) = 2 THEN j.uri[2] ELSE 0]
        /\ UNCHANGED <<status, dirs, files, lock, open, stray>>
    BY <1>1 DEF Begin, Goto
  <2>2. begun' \in 0..MaxRequests
    BY <1>1 DEF Begin, TypeInv, TypeOK
  <2>3. name' \in [Threads -> Names \cup {0}]
    BY <1>1, <2>1 DEF TypeInv, TypeOK, Names
  <2>4. job' \in [Threads -> Jobs] /\ pc' \in [Threads -> Labels]
    BY <1>1, <2>1 DEF TypeInv, TypeOK, Labels
  <2>5. TypeOK'
    BY <1>1, <2>1, <2>2, <2>3, <2>4 DEF TypeInv, TypeOK
  <2>6. HasPath(t)'
    BY <1>1, <2>1 DEF TypeInv, TypeOK, HasPath, OnItsWay, Entity, Names
  <2>7. ASSUME NEW u \in Threads \ {t} PROVE HasPath(u)'
    BY <2>1, <2>7 DEF TypeInv, TypeOK, HasPath, Entity
  <2>8. QED
    BY <2>5, <2>6, <2>7 DEF TypeInv
<1>2. PICK m \in Methods, uri \in Uris :
        \/ m = "POST" /\ \E b \in Bodies : HandlePost(t, uri, b)
        \/ m = "PUT" /\ \E b \in Bodies : HandlePut(t, uri, b)
        \/ m = "GET" /\ HandleGet(t, uri)
        \/ m = "DELETE" /\ HandleDelete(t, uri)
        \/ Refuse(t, m, uri)
  BY DEF HandleRequest
<1>3. /\ reply \in [Threads -> Replies] /\ deleted \in BOOLEAN
      /\ <<>> \in Bodies
  BY DEF TypeInv, TypeOK
<1>4. CASE m = "POST" /\ \E b \in Bodies : HandlePost(t, uri, b)
  BY <1>1, <1>3, <1>4 DEF HandlePost, Accept, Jobs
<1>5. CASE m = "PUT" /\ \E b \in Bodies : HandlePut(t, uri, b)
  BY <1>1, <1>3, <1>5 DEF HandlePut, Accept, IsFileNumber, Jobs
<1>6. CASE m = "GET" /\ HandleGet(t, uri)
  BY <1>1, <1>3, <1>6 DEF HandleGet, Accept, IsFileNumber, Jobs
<1>7. CASE m = "DELETE" /\ HandleDelete(t, uri)
  BY <1>1, <1>3, <1>7 DEF HandleDelete, Accept, IsFileNumber, Jobs
<1>8. CASE Refuse(t, m, uri)
  BY <1>1, <1>3, <1>8, ReplyType DEF Refuse, Jobs
<1>9. QED
  BY <1>2, <1>4, <1>5, <1>6, <1>7, <1>8

\* Every step of every thread keeps the types.
\* A step that only settles the response.
LEMMA SettleType ==
  ASSUME TypeInv, NEW t \in Threads, NEW label \in Elsewhere \ {"exists"}, Goto(t, label),
         NEW r \in Replies, Settle(t, r),
         UNCHANGED <<status, dirs, files, lock, job, name, open, begun, stray, deleted>>
  PROVE  TypeInv'
<1>1. reply' \in [Threads -> Replies]
  BY ReplyType
<1>2. pc' \in [Threads -> Labels] /\ \A u \in Threads : HasPath(u)'
  BY Frame
<1>3. QED
  BY <1>1, <1>2 DEF TypeInv, TypeOK

LEMMA TypeStep ==
  ASSUME TypeInv, NEW t \in Threads, Step(t)
  PROVE  TypeInv'
<1> USE ConstantsAssumption, ResponseType, IdsType
<1> USE DEF Move, Elsewhere, Labels
<1>1. CASE WriterExists(t)
  <2>1. CASE Crash("too_long")
    BY <2>1, TypeCrash DEF Causes
  <2>2. CASE ~Crash("too_long")
    <3>1. /\ job[t].method \in {"POST", "PUT"} /\ pc[t] = "exists"
          /\ Goto(t, "lock") \/ Goto(t, "mkdir")
          /\ UNCHANGED <<status, dirs, files, lock, job, name, open, reply,
                         begun, stray, deleted>>
      BY <1>1, <2>2 DEF WriterExists, At
    <3>2. QED
      BY <3>1 DEF Goto, TypeInv, TypeOK, HasPath, OnItsWay, Entity
  <2>3. QED
    BY <2>1, <2>2
<1>2. CASE CreateDirectory(t)
  <2>1. CASE Crash("no_room")
    BY <2>1, TypeCrash DEF Causes
  <2>2. CASE ~Crash("no_room")
    <3>1. /\ Goto(t, "lock") /\ pc[t] = "mkdir" /\ dirs' = dirs \cup {Entity(t)}
          /\ UNCHANGED <<status, files, lock, job, name, open, reply,
                         begun, stray, deleted>>
      BY <1>2, <2>2 DEF CreateDirectory, At
    <3>2. QED
      BY <3>1 DEF Goto, TypeInv, TypeOK, HasPath, OnItsWay, Entity
  <2>3. QED
    BY <2>1, <2>2
<1>3. CASE Lock(t)
  <2>1. /\ lock' \in Threads /\ pc[t] = "lock"
        /\ pc' = [pc EXCEPT ![t] = IF Is(t, "POST") THEN "scan" ELSE "open"]
    BY <1>3 DEF Lock, At, Goto
  <2>2. TypeOK'
    BY <1>3, <2>1 DEF Lock, TypeInv, TypeOK
  <2>3. ASSUME NEW u \in Threads PROVE HasPath(u)'
    BY <1>3, <2>1 DEF Lock, Is, TypeInv, TypeOK, HasPath, OnItsWay, Entity
  <2>4. QED
    BY <2>2, <2>3 DEF TypeInv
<1>4. CASE ScanDirectory(t)
  <2>1. CASE Crash("no_dir") \/ Crash("no_number") \/ Crash("out_of_range")
    BY <2>1, TypeCrash DEF Causes
  <2>2. CASE ~(Crash("no_dir") \/ Crash("no_number") \/ Crash("out_of_range"))
    <3>1. /\ ~\E i \in IdsIn(Entity(t)) : i > IntMax
          /\ Goto(t, "open")
          /\ UNCHANGED <<status, dirs, files, lock, job, open, reply,
                         begun, stray, deleted>>
      BY <1>4, <2>2 DEF ScanDirectory
    <3>2. PICK largest \in IdsIn(Entity(t)) \cup {0} :
            /\ largest >= 0
            /\ name' = [name EXCEPT ![t] = Wrap(largest + 1)]
      BY <1>4, <2>2 DEF ScanDirectory
    <3>3. largest \in 0..IntMax
      <4>1. IdsIn(Entity(t)) \subseteq Names
        BY IdsType
      <4>2. largest \in Names \cup {0} /\ Names \cup {0} \subseteq Int
        BY <3>2, <4>1, NamesAreIntegers
      <4>3. largest <= IntMax
        BY <3>1, <4>2, NamesAreIntegers
      <4>4. QED
        BY <3>2, <4>2, <4>3
    <3>4. Wrap(largest + 1) \in Names
      BY <3>3, WrapType
    <3>5. TypeOK'
      BY <3>1, <3>2, <3>4 DEF Goto, TypeInv, TypeOK
    <3>6. ASSUME NEW u \in Threads PROVE HasPath(u)'
      BY <3>1, <3>2, <3>4 DEF Goto, TypeInv, TypeOK, HasPath, OnItsWay, Entity
    <3>7. QED
      BY <3>5, <3>6 DEF TypeInv
  <2>3. QED
    BY <2>1, <2>2
<1>5. CASE OpenFile(t)
  <2>1. Target(t) \in Paths
    BY <1>5 DEF OpenFile, At, Target, Paths, TypeInv, TypeOK, HasPath
  <2>2. /\ DOMAIN files' = DOMAIN files \cup {Target(t)}
        /\ files' \in [DOMAIN files' -> Seq(Bytes)]
    <3>1. \A q \in DOMAIN files : files[q] \in Seq(Bytes)
      BY DEF TypeInv, TypeOK
    <3>2. <<>> \in Seq(Bytes)
      OBVIOUS
    <3>3. files' = Put(files, Target(t), <<>>)
      BY <1>5 DEF OpenFile
    <3>4. QED
      BY <3>1, <3>2, <3>3 DEF Put
  <2>3. open' \in [Threads -> Paths \cup {NoFile}]
    BY <1>5, <2>1 DEF OpenFile, TypeInv, TypeOK
  <2>4. name[t] \in Names
    BY <1>5 DEF OpenFile, At, TypeInv, HasPath
  <2>5. reply' \in [Threads -> Replies]
    BY <1>5, <2>4, ReplyType DEF OpenFile
  <2>6. pc' \in [Threads -> Labels] /\ \A u \in Threads : HasPath(u)'
    BY <1>5, Frame DEF OpenFile
  <2>7. QED
    BY <1>5, <2>1, <2>2, <2>3, <2>5, <2>6 DEF OpenFile, TypeInv, TypeOK
<1>6. CASE OpenFails(t)
  <2>1. Code(500) \in Replies
    BY ResponseType
  <2>2. QED
    BY <1>6, <2>1, SettleType DEF OpenFails
<1>7. CASE ExplicitUnlock(t)
  <2>1. pc' \in [Threads -> Labels] /\ \A u \in Threads : HasPath(u)'
    BY <1>7, Frame DEF ExplicitUnlock
  <2>2. lock' = Free /\ stray' \in BOOLEAN
    BY <1>7 DEF ExplicitUnlock, Unlock
  <2>3. QED
    BY <1>7, <2>1, <2>2 DEF ExplicitUnlock, TypeInv, TypeOK
<1>8. CASE WriteFile(t)
  <2> PICK n \in 0..Len(job[t].body) : WriteBytes(t, n)
    BY <1>8 DEF WriteFile
  <2> DEFINE part == SubSeq(job[t].body, 1, n)
  <2>1. part \in Seq(Bytes)
    BY SubSeqType DEF TypeInv, TypeOK, Jobs, NoJob
  <2>2. DOMAIN files' = DOMAIN files /\ files' \in [DOMAIN files' -> Seq(Bytes)]
    <3>1. \A q \in DOMAIN files : /\ files[q] \in Seq(Bytes)
                                  /\ Overlay(part, files[q]) \in Seq(Bytes)
      BY <2>1, OverlayType DEF TypeInv, TypeOK
    <3>2. \/ files' = files
          \/ files' = [files EXCEPT ![open[t]] = Overlay(part, files[open[t]])]
      BY DEF WriteBytes
    <3>3. files \in [DOMAIN files -> Seq(Bytes)]
      BY DEF TypeInv, TypeOK
    <3>4. CASE files' = files
      BY <3>3, <3>4
    <3>5. CASE files' = [files EXCEPT ![open[t]] = Overlay(part, files[open[t]])]
      BY <3>1, <3>3, <3>5
    <3>6. QED
      BY <3>2, <3>4, <3>5
  <2>3. open' \in [Threads -> Paths \cup {NoFile}]
    BY DEF WriteBytes, TypeInv, TypeOK
  <2>4. pc' \in [Threads -> Labels] /\ \A u \in Threads : HasPath(u)'
    BY Frame DEF WriteBytes
  <2>5. QED
    BY <2>2, <2>3, <2>4 DEF WriteBytes, TypeInv, TypeOK
<1>9. CASE DestroyLock(t)
  BY <1>9, Frame DEF DestroyLock, Unlock, TypeInv, TypeOK
<1>10. CASE NameNoEntity(t)
  BY <1>10, TypeCrash DEF NameNoEntity, Causes
<1>11. CASE GetExists(t)
  <2>00. CASE Crash("too_long")
    BY <2>00, TypeCrash DEF Causes
  <2>0. SUFFICES ASSUME ~Crash("too_long") PROVE TypeInv'
    BY <2>00
  <2>1. /\ Goto(t, "reply") \/ Goto(t, "list") \/ Goto(t, "isreg")
        /\ UNCHANGED <<status, dirs, files, lock, job, name, open, begun, stray, deleted>>
        /\ reply' = reply \/ reply' = [reply EXCEPT ![t] = Code(400)]
    BY <1>11, <2>0 DEF GetExists
  <2>2. pc' \in [Threads -> Labels] /\ \A u \in Threads : HasPath(u)'
    BY <2>1, Frame DEF Elsewhere, Labels
  <2>3. Code(400) \in Replies
    BY ResponseType
  <2>4. reply' \in [Threads -> Replies]
    BY <2>1, <2>3 DEF TypeInv, TypeOK
  <2>5. QED
    BY <2>1, <2>2, <2>4 DEF TypeInv, TypeOK
<1>12. CASE ListDirectory(t)
  <2>1. CASE Crash("no_dir")
    BY <2>1, TypeCrash DEF Causes
  <2>2. CASE ~Crash("no_dir")
    <3>1. /\ Goto(t, "reply") /\ Settle(t, Lists(IdsIn(Entity(t)) \cup Below(Entity(t))))
          /\ UNCHANGED <<status, dirs, files, lock, job, name, open,
                         begun, stray, deleted>>
      BY <1>12, <2>2 DEF ListDirectory
    <3>2. reply' \in [Threads -> Replies]
      BY <3>1, ReplyType
    <3>3. pc' \in [Threads -> Labels] /\ \A u \in Threads : HasPath(u)'
      BY <3>1, Frame
    <3>4. QED
      BY <3>1, <3>2, <3>3 DEF TypeInv, TypeOK
  <2>3. QED
    BY <2>1, <2>2
<1>13. CASE IsRegularFile(t)
  <2>1. CASE Crash("too_long")
    BY <2>1, TypeCrash DEF Causes
  <2>2. CASE ~Crash("too_long")
    <3>1. /\ Goto(t, "reply") \/ Goto(t, "read") \/ Goto(t, "unlink")
          /\ UNCHANGED <<status, dirs, files, lock, job, name, open,
                         begun, stray, deleted>>
          /\ reply' = reply \/ reply' = [reply EXCEPT ![t] = Code(400)]
      BY <1>13, <2>2 DEF IsRegularFile
    <3>2. pc' \in [Threads -> Labels] /\ \A u \in Threads : HasPath(u)'
      BY <3>1, Frame DEF Elsewhere, Labels
    <3>3. Code(400) \in Replies
      BY ResponseType
    <3>4. reply' \in [Threads -> Replies]
      BY <3>1, <3>3 DEF TypeInv, TypeOK
    <3>5. QED
      BY <3>1, <3>2, <3>4 DEF TypeInv, TypeOK
  <2>3. QED
    BY <2>1, <2>2
<1>14. CASE ReadFile(t)
  <2>1. PICK b : /\ Settle(t, Holds(b)) /\ b \in Seq(Bytes)
                 /\ Goto(t, "reply")
                 /\ UNCHANGED <<status, dirs, files, lock, job, name, open, begun, stray,
                                deleted>>
    BY <1>14 DEF ReadFile, TypeInv, TypeOK
  <2>2. Holds(b) \in Replies
    BY <2>1, ResponseType
  <2>3. QED
    BY <2>1, <2>2, SettleType
<1>15. CASE UnlinkFile(t)
  <2>1. /\ Goto(t, "isempty") /\ Unlink({Target(t)}) /\ Settle(t, Code(200))
        /\ UNCHANGED <<status, dirs, lock, job, name, begun, stray, deleted>>
    BY <1>15 DEF UnlinkFile
  <2>2. reply' \in [Threads -> Replies]
    BY <2>1, ReplyType
  <2>3. pc' \in [Threads -> Labels] /\ \A u \in Threads : HasPath(u)'
    BY <2>1, Frame
  <2>4. /\ DOMAIN files' = DOMAIN files \ {Target(t)}
        /\ files' \in [DOMAIN files' -> Seq(Bytes)]
        /\ open' \in [Threads -> Paths \cup {NoFile}]
    BY <2>1, UnlinkType
  <2>5. QED
    BY <2>1, <2>2, <2>3, <2>4 DEF TypeInv, TypeOK
<1>16. CASE UnlinkMissing(t)
  <2>1. CASE Crash("no_file")
    BY <2>1, TypeCrash DEF Causes
  <2>2. CASE ~Crash("no_file")
    <3>1. /\ Goto(t, "isempty") /\ Settle(t, Code(400))
          /\ UNCHANGED <<status, dirs, files, lock, job, name, open,
                         begun, stray, deleted>>
      BY <1>16, <2>2 DEF UnlinkMissing
    <3>2. Code(400) \in Replies
      BY ResponseType
    <3>3. QED
      BY <3>1, <3>2, SettleType
  <2>3. QED
    BY <2>1, <2>2
<1>17. CASE IsEmpty(t)
  <2>1. CASE Crash("no_dir")
    BY <2>1, TypeCrash DEF Causes
  <2>2. CASE ~Crash("no_dir")
    <3>1. /\ Goto(t, "purge") \/ Goto(t, "reply")
          /\ UNCHANGED <<status, dirs, files, lock, job, name, open, reply,
                         begun, stray, deleted>>
      BY <1>17, <2>2 DEF IsEmpty
    <3>2. pc' \in [Threads -> Labels] /\ \A u \in Threads : HasPath(u)'
      BY <3>1, Frame DEF Elsewhere, Labels
    <3>3. QED
      BY <3>1, <3>2 DEF TypeInv, TypeOK
  <2>3. QED
    BY <2>1, <2>2
<1>18. CASE Purge(t)
  <2>1. /\ Goto(t, "rmdir") \/ Goto(t, "reply")
        /\ Unlink(Contents(Entity(t))) /\ dirs' \subseteq dirs
        /\ UNCHANGED <<status, lock, job, name, reply, begun, stray, deleted>>
    BY <1>18 DEF Purge
  <2>2. pc' \in [Threads -> Labels] /\ \A u \in Threads : HasPath(u)'
    BY <2>1, Frame DEF Elsewhere, Labels
  <2>4. /\ DOMAIN files' = DOMAIN files \ Contents(Entity(t))
        /\ files' \in [DOMAIN files' -> Seq(Bytes)]
        /\ open' \in [Threads -> Paths \cup {NoFile}]
    BY <2>1, UnlinkType
  <2>5. QED
    BY <2>1, <2>2, <2>4 DEF TypeInv, TypeOK
<1>19. CASE RemoveDirectory(t)
  <2>1. CASE Crash("no_dir") \/ Crash("not_removed") \/ Crash("not_empty")
    BY <2>1, TypeCrash DEF Causes
  <2>2. CASE ~(Crash("no_dir") \/ Crash("not_removed") \/ Crash("not_empty"))
    <3>1. /\ Goto(t, "reply") /\ dirs' \subseteq dirs
          /\ UNCHANGED <<status, files, lock, job, name, open, reply,
                         begun, stray, deleted>>
      BY <1>19, <2>2 DEF RemoveDirectory
    <3>2. pc' \in [Threads -> Labels] /\ \A u \in Threads : HasPath(u)'
      BY <3>1, Frame
    <3>3. QED
      BY <3>1, <3>2 DEF TypeInv, TypeOK
  <2>3. QED
    BY <2>1, <2>2
<1>20. CASE Respond(t)
  <2>1. reply' \in [Threads -> Replies]
    BY <1>20, ReplyType DEF Respond, NoReply
  <2>2. /\ job' \in [Threads -> Jobs] /\ name' \in [Threads -> Names \cup {0}]
        /\ \A u \in Threads \ {t} : job'[u] = job[u] /\ name'[u] = name[u]
    BY <1>20 DEF Respond, TypeInv, TypeOK, Jobs
  <2>3. pc' \in [Threads -> Labels] /\ \A u \in Threads : HasPath(u)'
    BY <1>20, <2>2, Frame DEF Respond
  <2>4. QED
    BY <1>20, <2>1, <2>2, <2>3 DEF Respond, TypeInv, TypeOK
<1>21. QED
  BY <1>1, <1>2, <1>3, <1>4, <1>5, <1>6, <1>7, <1>8, <1>9, <1>10, <1>11, <1>12,
     <1>13, <1>14, <1>15, <1>16, <1>17, <1>18, <1>19, <1>20 DEF Step

LEMMA TypeNext == TypeInv /\ [Next]_vars => TypeInv'
<1> SUFFICES ASSUME TypeInv, [Next]_vars PROVE TypeInv'
  OBVIOUS
<1>1. CASE Restart
  <2>1. stray' \in BOOLEAN /\ deleted' \in BOOLEAN
    BY <1>1 DEF Restart
  <2>2. QED
    BY <1>1, <2>1 DEF Restart, TypeInv, TypeOK, HasPath, Entity
<1>2. CASE UNCHANGED vars
  BY <1>2 DEF vars, TypeInv, TypeOK, HasPath, Entity
<1>3. CASE Signal
  BY <1>3, TypeCrash DEF Signal, Causes
<1>4. QED
  BY <1>1, <1>2, <1>3, TypeBegin, TypeStep DEF Next, Quiescent

\* Every variable keeps its type, and a thread that reaches fopen has a path.
THEOREM TypeCorrect == Spec => []TypeOK
<1>1. Spec => []TypeInv
  BY TypeInit, TypeNext, PTL DEF Spec
<1>2. QED
  BY <1>1, PTL DEF TypeInv

-----------------------------------------------------------------------------
(* What a step of one thread leaves to the others. *)

\* A step of thread t leaves the other threads where they are.
LEMMA OthersStay ==
  ASSUME TypeInv, NEW t \in Threads, NEW label, Goto(t, label)
  PROVE  \A u \in Threads \ {t} : pc'[u] = pc[u]
BY DEF Goto, TypeInv, TypeOK

\* A thread settles its own response.
LEMMA RepliesStay ==
  ASSUME TypeInv, NEW t \in Threads,
         reply' = reply \/ \E r : Settle(t, r) \/ reply' = [reply EXCEPT ![t] = r]
  PROVE  \A u \in Threads \ {t} : reply'[u] = reply[u]
BY DEF Settle, TypeInv, TypeOK

\* Where a step leads a thread and what it leaves to the others.
LEMMA StepFrame ==
  ASSUME TypeInv, NEW t \in Threads, Step(t), status' = "up"
  PROVE  \A u \in Threads \ {t} : /\ pc'[u] = pc[u] /\ job'[u] = job[u]
                                  /\ name'[u] = name[u] /\ reply'[u] = reply[u]
<1> USE DEF Move, At
<1>1. ~\E why \in Causes : Crash(why)
  BY DEF Crash, Causes
<1>2. ASSUME NEW label, Goto(t, label), UNCHANGED <<job, name>>,
             \/ UNCHANGED reply
             \/ \E r : Settle(t, r) \/ reply' = [reply EXCEPT ![t] = r]
      PROVE  \A u \in Threads \ {t} : /\ pc'[u] = pc[u] /\ job'[u] = job[u]
                                      /\ name'[u] = name[u] /\ reply'[u] = reply[u]
  BY <1>2, OthersStay, RepliesStay
<1>3. CASE WriterExists(t) \/ CreateDirectory(t) \/ Lock(t) \/ OpenFile(t) \/ OpenFails(t)
  BY <1>1, <1>2, <1>3 DEF WriterExists, CreateDirectory, Lock, OpenFile, OpenFails,
     Causes
<1>4. CASE ExplicitUnlock(t) \/ WriteFile(t) \/ DestroyLock(t)
  BY <1>2, <1>4 DEF ExplicitUnlock, WriteFile, WriteBytes, DestroyLock
<1>5. CASE ScanDirectory(t)
  <2>1. /\ Goto(t, "open") /\ UNCHANGED <<job, reply>>
        /\ \E n : name' = [name EXCEPT ![t] = n]
    BY <1>1, <1>5 DEF ScanDirectory, Causes
  <2>2. QED
    BY <2>1, OthersStay DEF TypeInv, TypeOK
<1>6. CASE NameNoEntity(t)
  BY <1>1, <1>6 DEF NameNoEntity, Causes
<1>7. CASE GetExists(t) \/ IsRegularFile(t) \/ ReadFile(t) \/ UnlinkFile(t)
  BY <1>1, <1>2, <1>7 DEF GetExists, IsRegularFile, ReadFile, UnlinkFile, Causes
<1>8. CASE ListDirectory(t) \/ UnlinkMissing(t)
  BY <1>1, <1>2, <1>8 DEF ListDirectory, UnlinkMissing, Causes
<1>9. CASE IsEmpty(t) \/ RemoveDirectory(t)
  BY <1>1, <1>2, <1>9 DEF IsEmpty, RemoveDirectory, Causes
<1>10. CASE Purge(t)
  <2>1. UNCHANGED <<job, name, reply>> /\ (Goto(t, "rmdir") \/ Goto(t, "reply"))
    BY <1>10 DEF Purge
  <2>2. QED
    BY <1>2, <2>1
<1>11. CASE Respond(t)
  <2>1. /\ Goto(t, "idle") /\ Settle(t, NoReply)
        /\ job' = [job EXCEPT ![t] = NoJob] /\ name' = [name EXCEPT ![t] = 0]
    BY <1>11 DEF Respond
  <2>2. \A u \in Threads \ {t} : job'[u] = job[u] /\ name'[u] = name[u]
    BY <2>1 DEF TypeInv, TypeOK
  <2>3. QED
    BY <2>1, <2>2, OthersStay, RepliesStay
<1>12. QED
  BY <1>3, <1>4, <1>5, <1>6, <1>7, <1>8, <1>9, <1>10, <1>11 DEF Step

LEMMA CrashIdles ==
  ASSUME NEW t \in Threads, Step(t), status' # "up"
  PROVE  \E why \in Causes : Crash(why)
BY DEF Step, WriterExists, CreateDirectory, Lock, ScanDirectory, OpenFile, OpenFails,
   ExplicitUnlock, WriteFile, WriteBytes, DestroyLock, NameNoEntity, GetExists, ListDirectory,
   IsRegularFile, ReadFile, UnlinkFile, UnlinkMissing, IsEmpty, Purge,
   RemoveDirectory, Respond, Move, At, Causes

-----------------------------------------------------------------------------
(* The mutex.  Until it is freed by a thread that does not hold it, a thread *)
(* between its lock and its explicit unlock is the one that holds it.  The   *)
(* destructor of a unique_lock, which unlocks a second time, then finds the  *)
(* mutex free or its own: otherwise the step is the stray one.               *)

LockInv ==
  ~stray => \A t \in Threads : InCriticalSection(t) => lock = t

LEMMA LockInit == Init => LockInv
BY DEF Init, LockInv, InCriticalSection

LEMMA LockCrash ==
  ASSUME TypeInv, NEW why, Crash(why)
  PROVE  LockInv'
<1>1. \A t \in Threads : pc'[t] = "idle"
  BY DEF Crash
<1>2. QED
  BY <1>1 DEF LockInv, InCriticalSection

\* A thread outside the critical section moves to a place outside it.
LEMMA LockFrame ==
  ASSUME TypeInv, LockInv, NEW t \in Threads, NEW label,
         label \in {"scan", "open", "unlock"} => InCriticalSection(t),
         Goto(t, label), UNCHANGED <<lock, stray>>
  PROVE  LockInv'
<1>1. pc'[t] = label /\ \A u \in Threads \ {t} : pc'[u] = pc[u]
  BY DEF Goto, TypeInv, TypeOK
<1>2. \A u \in Threads : InCriticalSection(u)' => InCriticalSection(u)
  BY <1>1 DEF InCriticalSection
<1>3. QED
  BY <1>2 DEF LockInv

\* Nor does a thread enter it by unlocking; whoever is in it then is the
\* holder, and the step was stray.
LEMMA LockUnlock ==
  ASSUME TypeInv, LockInv, NEW t \in Threads, NEW label,
         label \notin {"scan", "open", "unlock"},
         Goto(t, label), Unlock(t)
  PROVE  LockInv'
<1> USE ConstantsAssumption
<1>1. pc'[t] = label /\ \A u \in Threads \ {t} : pc'[u] = pc[u]
  BY DEF Goto, TypeInv, TypeOK
<1>2. SUFFICES ASSUME ~stray', NEW u \in Threads, InCriticalSection(u)'
               PROVE  FALSE
  BY DEF LockInv
<1>3. u # t /\ InCriticalSection(u)
  BY <1>1, <1>2 DEF InCriticalSection
<1>4. ~stray /\ lock \in {t, Free}
  BY <1>2 DEF Unlock, TypeInv, TypeOK
<1>5. lock = u
  BY <1>3, <1>4 DEF LockInv
<1>6. QED
  BY <1>3, <1>4, <1>5

LEMMA LockStep ==
  ASSUME TypeInv, LockInv, NEW t \in Threads, Step(t)
  PROVE  LockInv'
<1> USE ConstantsAssumption
<1> USE DEF Move, At
<1>1. CASE WriterExists(t)
  BY <1>1, LockCrash, LockFrame DEF WriterExists
<1>2. CASE CreateDirectory(t)
  BY <1>2, LockCrash, LockFrame DEF CreateDirectory
<1>3. CASE Lock(t)
  <2>1. SUFFICES ASSUME ~stray, NEW u \in Threads, InCriticalSection(u)'
                 PROVE  u = t
    BY <1>3 DEF Lock, LockInv
  <2>2. u # t => InCriticalSection(u)
    BY <1>3, <2>1, OthersStay DEF Lock, InCriticalSection
  <2>3. QED
    BY <1>3, <2>1, <2>2 DEF Lock, LockInv
<1>4. CASE ScanDirectory(t)
  BY <1>4, LockCrash, LockFrame DEF ScanDirectory, InCriticalSection
<1>5. CASE OpenFile(t)
  BY <1>5, LockFrame DEF OpenFile, InCriticalSection
<1>6. CASE OpenFails(t)
  BY <1>6, LockFrame DEF OpenFails, InCriticalSection
<1>7. CASE ExplicitUnlock(t)
  BY <1>7, LockUnlock DEF ExplicitUnlock
<1>8. CASE WriteFile(t)
  BY <1>8, LockFrame DEF WriteFile, WriteBytes
<1>9. CASE DestroyLock(t)
  BY <1>9, LockUnlock DEF DestroyLock
<1>10. CASE NameNoEntity(t)
  BY <1>10, LockCrash DEF NameNoEntity
<1>11. CASE GetExists(t)
  BY <1>11, LockCrash, LockFrame DEF GetExists
<1>12. CASE ListDirectory(t)
  BY <1>12, LockCrash, LockFrame DEF ListDirectory
<1>13. CASE IsRegularFile(t)
  BY <1>13, LockCrash, LockFrame DEF IsRegularFile
<1>14. CASE ReadFile(t)
  BY <1>14, LockFrame DEF ReadFile
<1>15. CASE UnlinkFile(t)
  BY <1>15, LockFrame DEF UnlinkFile
<1>16. CASE UnlinkMissing(t)
  BY <1>16, LockCrash, LockFrame DEF UnlinkMissing
<1>17. CASE IsEmpty(t)
  BY <1>17, LockCrash, LockFrame DEF IsEmpty
<1>18. CASE Purge(t)
  BY <1>18, LockFrame DEF Purge
<1>19. CASE RemoveDirectory(t)
  BY <1>19, LockCrash, LockFrame DEF RemoveDirectory
<1>20. CASE Respond(t)
  BY <1>20, LockFrame DEF Respond
<1>21. QED
  BY <1>1, <1>2, <1>3, <1>4, <1>5, <1>6, <1>7, <1>8, <1>9, <1>10, <1>11, <1>12,
     <1>13, <1>14, <1>15, <1>16, <1>17, <1>18, <1>19, <1>20 DEF Step

\* A process that has died runs no thread.
Asleep == status # "up" => \A t \in Threads : pc[t] = "idle"

LEMMA AsleepNext ==
  ASSUME Asleep, [Next]_vars
  PROVE  Asleep'
<1>1. ASSUME NEW why, Crash(why) PROVE Asleep'
  BY <1>1 DEF Crash, Asleep
<1>2. ASSUME NEW t \in Threads, Step(t) PROVE Asleep'
  <2>1. status' = "up" \/ \E why \in Causes : Crash(why)
    BY <1>2 DEF Step, WriterExists, CreateDirectory, Lock, ScanDirectory, OpenFile,
       OpenFails, ExplicitUnlock, WriteFile, WriteBytes, DestroyLock, NameNoEntity, GetExists,
       ListDirectory, IsRegularFile, ReadFile, UnlinkFile, UnlinkMissing, IsEmpty,
       Purge, RemoveDirectory, Respond, Move, At, Causes
  <2>2. QED
    BY <1>1, <2>1 DEF Asleep
<1>3. ASSUME NEW t \in Threads, HandleRequest(t) PROVE Asleep'
  BY <1>3 DEF HandleRequest, HandlePost, HandlePut, HandleGet, HandleDelete, Refuse,
     Accept, Begin, At, Asleep
<1>4. CASE Restart
  BY <1>4 DEF Restart, Asleep
<1>5. CASE UNCHANGED vars
  BY <1>5 DEF vars, Asleep
<1>6. CASE Signal
  BY <1>1, <1>6 DEF Signal
<1>7. QED
  BY <1>2, <1>3, <1>4, <1>5, <1>6 DEF Next, Quiescent

\* Taking up a request leaves the mutex and the disk alone.
LEMMA BeginFrame ==
  ASSUME TypeInv, NEW t \in Threads, HandleRequest(t)
  PROVE  /\ UNCHANGED <<status, dirs, files, lock, open, stray>>
         /\ pc[t] = "idle" /\ pc'[t] \in {"exists", "isreg", "reply"}
         /\ \A u \in Threads \ {t} :
              /\ pc'[u] = pc[u] /\ job'[u] = job[u]
              /\ name'[u] = name[u] /\ reply'[u] = reply[u]
<1>1. ASSUME NEW j, NEW label \in {"exists", "isreg", "reply"}, Begin(t, j, label)
      PROVE  /\ UNCHANGED <<status, dirs, files, lock, open, stray>>
             /\ pc[t] = "idle" /\ pc'[t] \in {"exists", "isreg", "reply"}
             /\ \A u \in Threads \ {t} :
                  pc'[u] = pc[u] /\ job'[u] = job[u] /\ name'[u] = name[u]
  BY <1>1 DEF Begin, At, Goto, TypeInv, TypeOK
<1>2. \A u \in Threads \ {t} : reply'[u] = reply[u]
  BY RepliesStay DEF HandleRequest, HandlePost, HandlePut, HandleGet, HandleDelete,
     Refuse, Accept
<1>3. \E j : \E label \in {"exists", "isreg", "reply"} : Begin(t, j, label)
  <2>1. CASE \E uri \in Uris, b \in Bodies : HandlePost(t, uri, b) \/ HandlePut(t, uri, b)
    BY <2>1 DEF HandlePost, HandlePut, Accept
  <2>2. CASE \E uri \in Uris : HandleGet(t, uri) \/ HandleDelete(t, uri)
    BY <2>2 DEF HandleGet, HandleDelete, Accept
  <2>3. CASE \E m \in Methods, uri \in Uris : Refuse(t, m, uri)
    BY <2>3 DEF Refuse
  <2>4. QED
    BY <2>1, <2>2, <2>3 DEF HandleRequest
<1>4. QED
  BY <1>1, <1>2, <1>3

LEMMA LockNext ==
  ASSUME TypeInv, Asleep, LockInv, [Next]_vars
  PROVE  LockInv'
<1>1. ASSUME NEW t \in Threads, HandleRequest(t) PROVE LockInv'
  BY <1>1, BeginFrame DEF LockInv, InCriticalSection
<1>2. CASE Restart
  BY <1>2 DEF Restart, Asleep, LockInv, InCriticalSection
<1>3. CASE UNCHANGED vars
  BY <1>3 DEF vars, LockInv, InCriticalSection
<1>4. CASE Signal
  BY <1>4, LockCrash DEF Signal
<1>5. QED
  BY <1>1, <1>2, <1>3, <1>4, LockStep DEF Next, Quiescent

\* ExclusionUnlessStray: at most one writer at a time chooses an id or opens a
\* file, for as long as no second unlock has freed another thread's mutex.
THEOREM Exclusion == Spec => []ExclusionUnlessStray
<1>1. Init => Asleep
  BY DEF Init, Asleep
<1>2. TypeInv /\ Asleep /\ LockInv /\ [Next]_vars => (Asleep /\ LockInv)'
  BY AsleepNext, LockNext
<1>3. LockInv => ExclusionUnlessStray
  BY DEF LockInv, ExclusionUnlessStray
<1>4. QED
  BY <1>1, <1>2, <1>3, TypeInit, TypeNext, LockInit, PTL DEF Spec

-----------------------------------------------------------------------------
(* The id of a POST.  It is above every id in the directory when it is       *)
(* chosen, and files are created only at fopen, in the critical section.     *)

FreshInv ==
  ~stray => \A t \in Threads :
              /\ pc[t] = "open" /\ job[t].method = "POST"
              => name[t] = IntMin \/ Target(t) \notin DOMAIN files

\* No thread comes to fopen and no file comes to a directory.
LEMMA FreshFrame ==
  ASSUME FreshInv, stray => stray', DOMAIN files' \subseteq DOMAIN files,
         \A u \in Threads : pc'[u] = "open" =>
           pc[u] = "open" /\ job'[u] = job[u] /\ name'[u] = name[u]
  PROVE  FreshInv'
BY DEF FreshInv, Target, Entity

LEMMA FreshCrash ==
  ASSUME NEW why, Crash(why)
  PROVE  FreshInv'
<1>1. \A u \in Threads : pc'[u] = "idle"
  BY DEF Crash
<1>2. QED
  BY <1>1 DEF FreshInv

\* The id that get_unique_file_name returns is no file's of the directory.
LEMMA FreshScan ==
  ASSUME TypeInv, FreshInv, NEW t \in Threads, ScanDirectory(t)
  PROVE  FreshInv'
<1>1. CASE Crash("no_dir") \/ Crash("no_number") \/ Crash("out_of_range")
  BY <1>1, FreshCrash
<1>2. CASE ~(Crash("no_dir") \/ Crash("no_number") \/ Crash("out_of_range"))
  <2>1. /\ ~\E i \in IdsIn(Entity(t)) : i > IntMax
        /\ Goto(t, "open") /\ UNCHANGED <<files, job, stray>>
    BY <1>2 DEF ScanDirectory
  <2>2. PICK largest \in IdsIn(Entity(t)) \cup {0} :
          /\ largest >= 0 /\ \A i \in IdsIn(Entity(t)) : i <= largest
          /\ name' = [name EXCEPT ![t] = Wrap(largest + 1)]
    BY <1>2 DEF ScanDirectory
  <2>3. IdsIn(Entity(t)) \subseteq Int
    BY IdsType, NamesAreIntegers
  <2>4. largest \in 0..IntMax
    BY <2>1, <2>2, <2>3, NamesAreIntegers, ConstantsAssumption
  <2>5. Wrap(largest + 1) \notin IdsIn(Entity(t)) \/ Wrap(largest + 1) = IntMin
    BY <2>2, <2>3, <2>4, WrapType
  <2>6. name'[t] = IntMin \/ Target(t)' \notin DOMAIN files
    <3>1. name'[t] = Wrap(largest + 1)
      BY <2>2 DEF TypeInv, TypeOK
    <3>2. Target(t)' = <<Entity(t), Wrap(largest + 1)>>
      BY <2>1, <3>1 DEF Target, Entity
    <3>3. QED
      BY <2>5, <3>1, <3>2 DEF IdsIn
  <2>7. \A u \in Threads \ {t} : pc'[u] = pc[u] /\ name'[u] = name[u]
    BY <2>1, <2>2 DEF Goto, TypeInv, TypeOK
  <2>8. QED
    BY <2>1, <2>6, <2>7 DEF FreshInv, Target, Entity
<1>3. QED
  BY <1>1, <1>2

\* Whoever opens a file is alone in the critical section: no POST waits there
\* with an id of its own.
LEMMA FreshOpen ==
  ASSUME TypeInv, LockInv, NEW t \in Threads, OpenFile(t)
  PROVE  FreshInv'
<1>1. SUFFICES ASSUME ~stray', NEW u \in Threads, pc'[u] = "open" PROVE FALSE
  BY DEF FreshInv
<1>2. pc[t] = "open" /\ pc'[t] = "unlock" /\ ~stray
  BY <1>1 DEF OpenFile, Move, At, Goto, TypeInv, TypeOK
<1>3. u # t /\ pc[u] = "open"
  BY <1>1, <1>2, OthersStay DEF OpenFile, Move
<1>4. QED
  BY <1>2, <1>3 DEF LockInv, InCriticalSection

LEMMA FreshStep ==
  ASSUME TypeInv, LockInv, FreshInv, NEW t \in Threads, Step(t)
  PROVE  FreshInv'
<1>1. ASSUME NEW label, label # "open", Goto(t, label), stray => stray',
             DOMAIN files' \subseteq DOMAIN files,
             \A u \in Threads \ {t} : job'[u] = job[u] /\ name'[u] = name[u]
      PROVE  FreshInv'
  <2>1. \A u \in Threads : pc'[u] = "open" => u # t /\ pc[u] = "open"
    BY <1>1 DEF Goto, TypeInv, TypeOK
  <2>2. QED
    BY <1>1, <2>1, FreshFrame
<1> USE DEF Move
<1>2. CASE WriterExists(t)
  BY <1>1, <1>2, FreshCrash DEF WriterExists
<1>3. CASE CreateDirectory(t)
  BY <1>1, <1>3, FreshCrash DEF CreateDirectory
<1>4. CASE Lock(t)
  <2>1. CASE Is(t, "POST")
    BY <1>1, <1>4, <2>1 DEF Lock
  <2>2. CASE ~Is(t, "POST")
    <3>1. UNCHANGED <<files, job, name, stray>>
          /\ \A u \in Threads \ {t} : pc'[u] = pc[u]
      BY <1>4, OthersStay DEF Lock
    <3>2. QED
      BY <2>2, <3>1 DEF FreshInv, Target, Entity, Is
  <2>3. QED
    BY <2>1, <2>2
<1>5. CASE ScanDirectory(t)
  BY <1>5, FreshScan
<1>6. CASE OpenFile(t)
  BY <1>6, FreshOpen
<1>7. CASE OpenFails(t)
  BY <1>1, <1>7 DEF OpenFails
<1>8. CASE ExplicitUnlock(t)
  BY <1>1, <1>8 DEF ExplicitUnlock, Unlock
<1>9. CASE WriteFile(t)
  BY <1>1, <1>9 DEF WriteFile, WriteBytes
<1>10. CASE DestroyLock(t)
  BY <1>1, <1>10 DEF DestroyLock, Unlock
<1>11. CASE NameNoEntity(t)
  BY <1>11, FreshCrash DEF NameNoEntity
<1>12. CASE GetExists(t)
  BY <1>1, <1>12, FreshCrash DEF GetExists
<1>13. CASE ListDirectory(t)
  BY <1>1, <1>13, FreshCrash DEF ListDirectory
<1>14. CASE IsRegularFile(t)
  BY <1>1, <1>14, FreshCrash DEF IsRegularFile
<1>15. CASE ReadFile(t)
  BY <1>1, <1>15 DEF ReadFile
<1>16. CASE UnlinkFile(t)
  BY <1>1, <1>16, UnlinkType DEF UnlinkFile
<1>17. CASE UnlinkMissing(t)
  BY <1>1, <1>17, FreshCrash DEF UnlinkMissing
<1>18. CASE IsEmpty(t)
  BY <1>1, <1>18, FreshCrash DEF IsEmpty
<1>19. CASE Purge(t)
  <2>1. DOMAIN files' \subseteq DOMAIN files
    BY <1>19, UnlinkType DEF Purge
  <2>2. UNCHANGED <<job, name, stray>> /\ (Goto(t, "rmdir") \/ Goto(t, "reply"))
    BY <1>19 DEF Purge
  <2>3. QED
    BY <1>1, <2>1, <2>2
<1>20. CASE RemoveDirectory(t)
  BY <1>1, <1>20, FreshCrash DEF RemoveDirectory
<1>21. CASE Respond(t)
  BY <1>1, <1>21 DEF Respond, TypeInv, TypeOK
<1>22. QED
  BY <1>2, <1>3, <1>4, <1>5, <1>6, <1>7, <1>8, <1>9, <1>10, <1>11, <1>12, <1>13,
     <1>14, <1>15, <1>16, <1>17, <1>18, <1>19, <1>20, <1>21 DEF Step

LEMMA FreshNext ==
  ASSUME TypeInv, Asleep, LockInv, FreshInv, [Next]_vars
  PROVE  FreshInv'
<1>1. ASSUME NEW t \in Threads, HandleRequest(t) PROVE FreshInv'
  BY <1>1, BeginFrame, FreshFrame
<1>2. CASE Restart
  BY <1>2 DEF Restart, Asleep, FreshInv
<1>3. CASE UNCHANGED vars
  BY <1>3, FreshFrame DEF vars
<1>4. CASE Signal
  BY <1>4, FreshCrash DEF Signal
<1>5. QED
  BY <1>1, <1>2, <1>3, <1>4, FreshStep DEF Next, Quiescent

\* ChosenIdIsFresh: with the mutex intact, the id that a POST has chosen is no
\* file's when the POST opens it, unless the choice overflowed.
THEOREM FreshId == Spec => []ChosenIdIsFresh
<1>1. Init => Asleep /\ FreshInv
  BY DEF Init, Asleep, FreshInv
<1>2. TypeInv /\ Asleep /\ LockInv /\ FreshInv /\ [Next]_vars
        => (Asleep /\ LockInv /\ FreshInv)'
  BY AsleepNext, LockNext, FreshNext
<1>3. FreshInv => ChosenIdIsFresh
  BY DEF FreshInv, ChosenIdIsFresh, Is
<1>4. QED
  BY <1>1, <1>2, <1>3, TypeInit, TypeNext, LockInit, PTL DEF Spec

-----------------------------------------------------------------------------
(* The disk.  A directory is removed only when nothing is in it, a file      *)
(* created only in a directory; a descriptor is open from fopen to fclose    *)
(* and loses its file to whoever unlinks it.                                 *)

HasOpen == {"unlock", "write"}

FilesInv == \A p \in DOMAIN files : p[1] \in dirs
OpenInv  == \A t \in Threads :
              open[t] # NoFile => /\ pc[t] \in HasOpen
                                  /\ open[t] \in DOMAIN files
                                  /\ open[t] = Target(t)
                                  /\ reply[t].code = 200

LEMMA DiskInit == Init => FilesInv /\ OpenInv
<1> SUFFICES ASSUME Init PROVE FilesInv /\ OpenInv
  OBVIOUS
<1>1. PICK P \in SUBSET LeftOver, b \in Bodies :
        files = [p \in P |-> b] /\ dirs = {p[1] : p \in P} \cup (Entities \cap {Here})
  BY DEF Init
<1>2. QED
  BY <1>1 DEF Init, FilesInv, OpenInv

\* A step that removes no directory and creates no file.
LEMMA FilesFrame ==
  ASSUME FilesInv, DOMAIN files' \subseteq DOMAIN files, dirs \subseteq dirs'
  PROVE  FilesInv'
BY DEF FilesInv

\* A thread that has no file open, or goes on with its own, and unlinks none.
LEMMA OpenFrame ==
  ASSUME TypeInv, OpenInv, NEW t \in Threads, NEW label, Goto(t, label),
         UNCHANGED open, DOMAIN files \subseteq DOMAIN files',
         \/ pc[t] \notin HasOpen
         \/ label \in HasOpen /\ UNCHANGED <<job, name, reply>>,
         \A u \in Threads \ {t} :
           job'[u] = job[u] /\ name'[u] = name[u] /\ reply'[u] = reply[u]
  PROVE  OpenInv'
<1>1. pc'[t] = label /\ \A u \in Threads \ {t} : pc'[u] = pc[u]
  BY DEF Goto, TypeInv, TypeOK
<1>2. QED
  BY <1>1 DEF OpenInv, Target, Entity

\* A thread that has no file open unlinks some.
LEMMA UnlinkFrame ==
  ASSUME TypeInv, OpenInv, NEW t \in Threads, NEW label, NEW P, Goto(t, label),
         Unlink(P), UNCHANGED <<job, name>>, pc[t] \notin HasOpen,
         \A u \in Threads \ {t} : reply'[u] = reply[u]
  PROVE  OpenInv'
<1>1. \A u \in Threads \ {t} : pc'[u] = pc[u]
  BY DEF Goto, TypeInv, TypeOK
<1>2. DOMAIN files' = DOMAIN files \ P
  BY UnlinkType
<1>3. \A u \in Threads : open'[u] # NoFile => open'[u] = open[u] /\ open[u] \notin P
  BY DEF Unlink
<1>4. QED
  BY <1>1, <1>2, <1>3 DEF OpenInv, Target, Entity

LEMMA DiskCrash ==
  ASSUME FilesInv, NEW why, Crash(why)
  PROVE  FilesInv' /\ OpenInv'
<1>1. \A u \in Threads : open'[u] = NoFile
  BY DEF Crash
<1>2. QED
  BY <1>1 DEF Crash, FilesInv, OpenInv

LEMMA DiskOpen ==
  ASSUME TypeInv, FilesInv, OpenInv, NEW t \in Threads, OpenFile(t)
  PROVE  FilesInv' /\ OpenInv'
<1>1. /\ DOMAIN files' = DOMAIN files \cup {Target(t)}
      /\ Entity(t) \in dirs /\ UNCHANGED <<dirs, job, name>>
      /\ open' = [open EXCEPT ![t] = Target(t)]
  BY PutFile DEF OpenFile
<1>2. pc'[t] = "unlock" /\ \A u \in Threads \ {t} : pc'[u] = pc[u]
  BY DEF OpenFile, Move, Goto, TypeInv, TypeOK
<1>6. reply'[t].code = 200 /\ \A u \in Threads \ {t} : reply'[u] = reply[u]
  BY DEF OpenFile, Settle, HasId, TypeInv, TypeOK
<1>3. FilesInv'
  BY <1>1 DEF FilesInv, Target
<1>4. open'[t] = Target(t) /\ \A u \in Threads \ {t} : open'[u] = open[u]
  BY <1>1 DEF TypeInv, TypeOK
<1>5. OpenInv'
  BY <1>1, <1>2, <1>4, <1>6 DEF OpenInv, HasOpen, Target, Entity
<1>7. QED
  BY <1>3, <1>5

LEMMA DiskWrite ==
  ASSUME TypeInv, FilesInv, OpenInv, NEW t \in Threads, WriteFile(t)
  PROVE  FilesInv' /\ OpenInv'
<1>1. DOMAIN files' = DOMAIN files
  BY DEF WriteFile, WriteBytes
<1>2. open'[t] = NoFile /\ \A u \in Threads \ {t} : open'[u] = open[u]
  BY DEF WriteFile, WriteBytes, TypeInv, TypeOK
<1>3. \A u \in Threads \ {t} : pc'[u] = pc[u]
  BY OthersStay DEF WriteFile, WriteBytes, Move
<1>4. UNCHANGED <<dirs, job, name, reply>>
  BY DEF WriteFile, WriteBytes
<1>5. QED
  BY <1>1, <1>2, <1>3, <1>4 DEF FilesInv, OpenInv, Target, Entity

LEMMA DiskStep ==
  ASSUME TypeInv, FilesInv, OpenInv, NEW t \in Threads, Step(t)
  PROVE  FilesInv' /\ OpenInv'
<1>1. ASSUME NEW label, Goto(t, label), UNCHANGED <<files, open>>, dirs \subseteq dirs',
             \/ pc[t] \notin HasOpen
             \/ label \in HasOpen /\ UNCHANGED <<job, name, reply>>
             \/ label = "dtor" /\ reply[t].code # 200 /\ UNCHANGED <<job, name, reply>>,
             \A u \in Threads \ {t} :
               job'[u] = job[u] /\ name'[u] = name[u] /\ reply'[u] = reply[u]
      PROVE  FilesInv' /\ OpenInv'
  <2>1. CASE pc[t] \notin HasOpen
    BY <1>1, <2>1, FilesFrame, OpenFrame
  <2>2. CASE label \in HasOpen /\ UNCHANGED <<job, name, reply>>
    BY <1>1, <2>2, FilesFrame, OpenFrame
  <2>3. CASE reply[t].code # 200 /\ UNCHANGED <<job, name, reply>>
    <3>1. \A u \in Threads \ {t} : pc'[u] = pc[u]
      BY <1>1, OthersStay
    <3>2. OpenInv'
      BY <1>1, <2>3, <3>1 DEF OpenInv, Target, Entity
    <3>3. QED
      BY <1>1, <3>2, FilesFrame
  <2>4. QED
    BY <1>1, <2>1, <2>2, <2>3
<1>2. ASSUME NEW label, NEW P, Goto(t, label), Unlink(P), UNCHANGED <<dirs, job, name>>,
             pc[t] \notin HasOpen, \A u \in Threads \ {t} : reply'[u] = reply[u]
      PROVE  FilesInv' /\ OpenInv'
  <2>1. DOMAIN files' \subseteq DOMAIN files
    BY <1>2, UnlinkType
  <2>2. QED
    BY <1>2, <2>1, FilesFrame, UnlinkFrame
<1> USE DEF Move, At, HasOpen
<1>3. CASE WriterExists(t)
  BY <1>1, <1>3, DiskCrash DEF WriterExists
<1>4. CASE CreateDirectory(t)
  BY <1>1, <1>4, DiskCrash DEF CreateDirectory
<1>5. CASE Lock(t)
  BY <1>1, <1>5 DEF Lock
<1>6. CASE ScanDirectory(t)
  <2>1. CASE Crash("no_dir") \/ Crash("no_number") \/ Crash("out_of_range")
    BY <2>1, DiskCrash
  <2>2. CASE ~(Crash("no_dir") \/ Crash("no_number") \/ Crash("out_of_range"))
    <3>1. /\ Goto(t, "open") /\ pc[t] = "scan" /\ UNCHANGED <<dirs, files, job, open, reply>>
          /\ \E n : name' = [name EXCEPT ![t] = n]
      BY <1>6, <2>2 DEF ScanDirectory
    <3>2. \A u \in Threads \ {t} : name'[u] = name[u]
      BY <3>1 DEF TypeInv, TypeOK
    <3>3. QED
      BY <1>1, <3>1, <3>2
  <2>3. QED
    BY <2>1, <2>2
<1>7. CASE OpenFile(t)
  BY <1>7, DiskOpen
<1>8. CASE OpenFails(t)
  BY <1>1, <1>8, RepliesStay DEF OpenFails
<1>9. CASE ExplicitUnlock(t)
  BY <1>1, <1>9 DEF ExplicitUnlock
<1>10. CASE WriteFile(t)
  BY <1>10, DiskWrite
<1>11. CASE DestroyLock(t)
  BY <1>1, <1>11 DEF DestroyLock
<1>12. CASE NameNoEntity(t)
  BY <1>12, DiskCrash DEF NameNoEntity
<1>13. CASE GetExists(t)
  BY <1>1, <1>13, DiskCrash, RepliesStay DEF GetExists
<1>14. CASE ListDirectory(t)
  BY <1>1, <1>14, DiskCrash, RepliesStay DEF ListDirectory
<1>15. CASE IsRegularFile(t)
  BY <1>1, <1>15, DiskCrash, RepliesStay DEF IsRegularFile
<1>16. CASE ReadFile(t)
  BY <1>1, <1>16, RepliesStay DEF ReadFile
<1>17. CASE UnlinkFile(t)
  BY <1>2, <1>17, RepliesStay DEF UnlinkFile
<1>18. CASE UnlinkMissing(t)
  BY <1>1, <1>18, DiskCrash, RepliesStay DEF UnlinkMissing
<1>19. CASE IsEmpty(t)
  BY <1>1, <1>19, DiskCrash DEF IsEmpty
<1>20. CASE Purge(t)
  <2>1. /\ Goto(t, "rmdir") \/ Goto(t, "reply")
        /\ UNCHANGED <<job, name, reply>> /\ pc[t] = "purge"
        /\ Unlink(Contents(Entity(t))) /\ dirs' = dirs \ Below(Entity(t))
    BY <1>20 DEF Purge
  <2>2. DOMAIN files' = DOMAIN files \ Contents(Entity(t))
    BY <2>1, UnlinkType
  <2>3. FilesInv'
    BY <2>1, <2>2 DEF FilesInv, Contents, Below, TypeInv, TypeOK
  <2>4. OpenInv'
    BY <2>1, UnlinkFrame
  <2>5. QED
    BY <2>3, <2>4
<1>21. CASE RemoveDirectory(t)
  <2>1. CASE Crash("no_dir") \/ Crash("not_removed") \/ Crash("not_empty")
    BY <2>1, DiskCrash
  <2>2. CASE ~(Crash("no_dir") \/ Crash("not_removed") \/ Crash("not_empty"))
    <3>1. /\ IdsIn(Entity(t)) = {} /\ dirs' = dirs \ {Entity(t)}
          /\ Goto(t, "reply") /\ pc[t] = "rmdir"
          /\ UNCHANGED <<files, job, name, open, reply>>
      BY <1>21, <2>2 DEF RemoveDirectory
    <3>2. \A p \in DOMAIN files : p[1] # Entity(t)
      BY <3>1 DEF IdsIn
    <3>3. FilesInv'
      BY <3>1, <3>2 DEF FilesInv
    <3>4. OpenInv'
      BY <3>1, OpenFrame
    <3>5. QED
      BY <3>3, <3>4
  <2>3. QED
    BY <2>1, <2>2
<1>22. CASE Respond(t)
  BY <1>1, <1>22, RepliesStay DEF Respond, TypeInv, TypeOK
<1>23. QED
  BY <1>3, <1>4, <1>5, <1>6, <1>7, <1>8, <1>9, <1>10, <1>11, <1>12, <1>13, <1>14,
     <1>15, <1>16, <1>17, <1>18, <1>19, <1>20, <1>21, <1>22 DEF Step

LEMMA DiskNext ==
  ASSUME TypeInv, FilesInv, OpenInv, [Next]_vars
  PROVE  FilesInv' /\ OpenInv'
<1>1. ASSUME NEW t \in Threads, HandleRequest(t) PROVE FilesInv' /\ OpenInv'
  BY <1>1, BeginFrame DEF FilesInv, OpenInv, HasOpen, Target, Entity
<1>2. CASE Restart
  BY <1>2 DEF Restart, FilesInv, OpenInv, Target, Entity
<1>3. CASE UNCHANGED vars
  BY <1>3 DEF vars, FilesInv, OpenInv, Target, Entity
<1>4. CASE Signal
  BY <1>4, DiskCrash DEF Signal
<1>5. QED
  BY <1>1, <1>2, <1>3, <1>4, DiskStep DEF Next, Quiescent

-----------------------------------------------------------------------------
(* Where a handler is tells the method of its request. *)

Writing  == {"mkdir", "lock", "scan", "open", "unlock", "write", "dtor"}
Removing == {"unlink", "isempty", "purge", "rmdir"}

MethodOf(t) ==
  /\ pc[t] = "exists" => /\ job[t].method \in {"GET", "POST", "PUT"}
                         /\ job[t].method # "GET" => job[t].uri # <<>>
  /\ pc[t] \in Writing => job[t].method \in {"POST", "PUT"}
  /\ pc[t] \in {"list", "read"} => job[t].method = "GET"
  /\ pc[t] = "isreg" => job[t].method \in {"GET", "DELETE"}
  /\ pc[t] \in Removing => job[t].method = "DELETE"
  /\ pc[t] \notin {"idle", "exists", "reply"} => job[t].uri # <<>>

MethodInv == \A t \in Threads : MethodOf(t)

LEMMA IdleMethod ==
  ASSUME \A t \in Threads : pc'[t] = "idle"
  PROVE  MethodInv'
BY DEF MethodInv, MethodOf, Writing, Removing

\* A step that leaves a thread its request and takes it to a place where its
\* method has business.
LEMMA MethodFrame ==
  ASSUME TypeInv, MethodInv, NEW t \in Threads, NEW label, Goto(t, label), UNCHANGED job,
         pc[t] \notin {"idle", "exists"} \/ label = "reply" \/ job[t].uri # <<>>,
         label \in Labels \ {"exists"},
         label \in Writing => job[t].method \in {"POST", "PUT"},
         label \in {"list", "read"} => job[t].method = "GET",
         label = "isreg" => job[t].method \in {"GET", "DELETE"},
         label \in Removing => job[t].method = "DELETE",
         pc[t] = "reply" => label = "idle"
  PROVE  MethodInv'
<1>1. pc'[t] = label /\ \A u \in Threads \ {t} : pc'[u] = pc[u]
  BY DEF Goto, TypeInv, TypeOK
<1>2. MethodOf(t)'
  BY <1>1 DEF MethodInv, MethodOf, Writing, Removing
<1>3. ASSUME NEW u \in Threads \ {t} PROVE MethodOf(u)'
  BY <1>1 DEF MethodInv, MethodOf
<1>4. QED
  BY <1>2, <1>3 DEF MethodInv

LEMMA MethodStep ==
  ASSUME TypeInv, MethodInv, NEW t \in Threads, Step(t)
  PROVE  MethodInv'
<1>0. MethodOf(t)
  BY DEF MethodInv
<1>1. ASSUME NEW why, Crash(why) PROVE MethodInv'
  BY <1>1, IdleMethod DEF Crash
<1> USE <1>0 DEF Move, At, MethodOf, Labels, Writing, Removing
<1>2. CASE WriterExists(t)
  BY <1>1, <1>2, MethodFrame DEF WriterExists
<1>3. CASE CreateDirectory(t)
  BY <1>1, <1>3, MethodFrame DEF CreateDirectory
<1>4. CASE Lock(t)
  BY <1>4, MethodFrame DEF Lock
<1>5. CASE ScanDirectory(t)
  BY <1>1, <1>5, MethodFrame DEF ScanDirectory
<1>6. CASE OpenFile(t) \/ OpenFails(t)
  BY <1>6, MethodFrame DEF OpenFile, OpenFails
<1>7. CASE ExplicitUnlock(t)
  BY <1>7, MethodFrame DEF ExplicitUnlock
<1>8. CASE WriteFile(t) \/ DestroyLock(t)
  BY <1>8, MethodFrame DEF WriteFile, WriteBytes, DestroyLock
<1>9. CASE NameNoEntity(t)
  BY <1>1, <1>9 DEF NameNoEntity
<1>10. CASE GetExists(t)
  BY <1>1, <1>10, MethodFrame DEF GetExists, Is
<1>11. CASE ListDirectory(t)
  BY <1>1, <1>11, MethodFrame DEF ListDirectory
<1>12. CASE IsRegularFile(t)
  BY <1>1, <1>12, MethodFrame DEF IsRegularFile, Is
<1>13. CASE ReadFile(t) \/ UnlinkFile(t)
  BY <1>13, MethodFrame DEF ReadFile, UnlinkFile
<1>14. CASE UnlinkMissing(t)
  BY <1>1, <1>14, MethodFrame DEF UnlinkMissing
<1>15. CASE IsEmpty(t)
  BY <1>1, <1>15, MethodFrame DEF IsEmpty
<1>16. CASE Purge(t)
  BY <1>16, MethodFrame DEF Purge
<1>17. CASE RemoveDirectory(t)
  BY <1>1, <1>17, MethodFrame DEF RemoveDirectory
<1>18. CASE Respond(t)
  <2>1. pc'[t] = "idle" /\ \A u \in Threads \ {t} : pc'[u] = pc[u] /\ job'[u] = job[u]
    BY <1>18 DEF Respond, Goto, TypeInv, TypeOK
  <2>2. QED
    BY <2>1 DEF MethodInv
<1>19. QED
  BY <1>2, <1>3, <1>4, <1>5, <1>6, <1>7, <1>8, <1>9, <1>10, <1>11, <1>12, <1>13,
     <1>14, <1>15, <1>16, <1>17, <1>18 DEF Step

\* A thread that takes up a request goes where its method wants it.
LEMMA MethodBegin ==
  ASSUME TypeInv, MethodInv, NEW t \in Threads, HandleRequest(t)
  PROVE  MethodInv'
<1>1. \A u \in Threads \ {t} : pc'[u] = pc[u] /\ job'[u] = job[u]
  BY BeginFrame
<1>2. ASSUME NEW j, NEW label, Begin(t, j, label)
      PROVE  pc'[t] = label /\ job'[t] = j
  BY <1>2 DEF Begin, Goto, TypeInv, TypeOK
<1>3. MethodOf(t)'
  <2>1. PICK m \in Methods, uri \in Uris :
          \/ m = "POST" /\ \E b \in Bodies : HandlePost(t, uri, b)
          \/ m = "PUT" /\ \E b \in Bodies : HandlePut(t, uri, b)
          \/ m = "GET" /\ HandleGet(t, uri)
          \/ m = "DELETE" /\ HandleDelete(t, uri)
          \/ Refuse(t, m, uri)
    BY DEF HandleRequest
  <2>2. Len(uri) \in {1, 2} => uri # <<>>
    OBVIOUS
  <2>3. ASSUME NEW b, HandlePost(t, uri, b) PROVE MethodOf(t)'
    BY <1>2, <2>2, <2>3 DEF HandlePost, Accept, MethodOf, Writing, Removing
  <2>4. ASSUME NEW b, HandlePut(t, uri, b) PROVE MethodOf(t)'
    BY <1>2, <2>2, <2>4 DEF HandlePut, Accept, MethodOf, Writing, Removing
  <2>5. CASE HandleGet(t, uri)
    BY <1>2, <2>5 DEF HandleGet, Accept, MethodOf, Writing, Removing
  <2>6. CASE HandleDelete(t, uri)
    BY <1>2, <2>2, <2>6 DEF HandleDelete, Accept, MethodOf, Writing, Removing
  <2>7. CASE Refuse(t, m, uri)
    BY <1>2, <2>7 DEF Refuse, MethodOf, Writing, Removing
  <2>8. QED
    BY <2>1, <2>3, <2>4, <2>5, <2>6, <2>7
<1>4. QED
  BY <1>1, <1>3 DEF MethodInv, MethodOf

LEMMA MethodNext ==
  ASSUME TypeInv, Asleep, MethodInv, [Next]_vars
  PROVE  MethodInv'
<1>1. CASE Restart
  BY <1>1, IdleMethod DEF Restart, Asleep
<1>2. CASE UNCHANGED vars
  BY <1>2 DEF vars, MethodInv, MethodOf
<1>3. CASE Signal
  BY <1>3, IdleMethod DEF Signal, Crash
<1>4. QED
  BY <1>1, <1>2, <1>3, MethodStep, MethodBegin DEF Next, Quiescent

-----------------------------------------------------------------------------
(* A handler that has not settled its response has none. *)

Early == {"idle", "exists", "mkdir", "lock", "scan", "open"}

EarlyInv == \A t \in Threads : pc[t] \in Early => reply[t].code = 0

LEMMA EarlyCrash ==
  ASSUME NEW why, Crash(why)
  PROVE  EarlyInv'
<1>1. \A u \in Threads : reply'[u] = NoReply
  BY DEF Crash
<1>2. QED
  BY <1>1 DEF EarlyInv, NoReply, Code

LEMMA EarlyStep ==
  ASSUME TypeInv, EarlyInv, NEW t \in Threads, Step(t)
  PROVE  EarlyInv'
<1>1. ASSUME NEW label, Goto(t, label),
             label \notin Early \/ (pc[t] \in Early /\ UNCHANGED reply),
             \A u \in Threads \ {t} : reply'[u] = reply[u]
      PROVE  EarlyInv'
  <2>1. pc'[t] = label /\ \A u \in Threads \ {t} : pc'[u] = pc[u]
    BY <1>1 DEF Goto, TypeInv, TypeOK
  <2>2. QED
    BY <1>1, <2>1 DEF EarlyInv
<1> USE DEF Move, At, Early
<1>2. CASE WriterExists(t) \/ CreateDirectory(t) \/ Lock(t)
  BY <1>1, <1>2, EarlyCrash DEF WriterExists, CreateDirectory, Lock
<1>3. CASE ScanDirectory(t)
  <2>1. CASE Crash("no_dir") \/ Crash("no_number") \/ Crash("out_of_range")
    BY <2>1, EarlyCrash
  <2>2. CASE ~(Crash("no_dir") \/ Crash("no_number") \/ Crash("out_of_range"))
    <3>1. Goto(t, "open") /\ pc[t] = "scan" /\ UNCHANGED reply
      BY <1>3, <2>2 DEF ScanDirectory
    <3>2. QED
      BY <1>1, <3>1
  <2>3. QED
    BY <2>1, <2>2
<1>4. CASE OpenFile(t) \/ OpenFails(t)
  BY <1>1, <1>4, RepliesStay DEF OpenFile, OpenFails
<1>5. CASE ExplicitUnlock(t) \/ WriteFile(t) \/ DestroyLock(t)
  BY <1>1, <1>5 DEF ExplicitUnlock, WriteFile, WriteBytes, DestroyLock
<1>6. CASE NameNoEntity(t)
  BY <1>6, EarlyCrash DEF NameNoEntity
<1>7. CASE GetExists(t) \/ IsRegularFile(t)
  BY <1>1, <1>7, RepliesStay, EarlyCrash DEF GetExists, IsRegularFile
<1>8. CASE ListDirectory(t)
  BY <1>1, <1>8, RepliesStay, EarlyCrash DEF ListDirectory
<1>9. CASE ReadFile(t) \/ UnlinkFile(t)
  BY <1>1, <1>9, RepliesStay DEF ReadFile, UnlinkFile
<1>10. CASE UnlinkMissing(t)
  BY <1>1, <1>10, RepliesStay, EarlyCrash DEF UnlinkMissing
<1>11. CASE IsEmpty(t)
  BY <1>1, <1>11, EarlyCrash DEF IsEmpty
<1>12. CASE Purge(t)
  <2>1. UNCHANGED reply /\ (Goto(t, "rmdir") \/ Goto(t, "reply"))
    BY <1>12 DEF Purge
  <2>2. QED
    BY <1>1, <2>1
<1>13. CASE RemoveDirectory(t)
  BY <1>1, <1>13, EarlyCrash DEF RemoveDirectory
<1>14. CASE Respond(t)
  <2>1. /\ reply' = [reply EXCEPT ![t] = NoReply]
        /\ \A u \in Threads \ {t} : pc'[u] = pc[u]
    BY <1>14, OthersStay DEF Respond, Settle
  <2>2. QED
    BY <2>1 DEF EarlyInv, TypeInv, TypeOK, NoReply, Code
<1>15. QED
  BY <1>2, <1>3, <1>4, <1>5, <1>6, <1>7, <1>8, <1>9, <1>10, <1>11, <1>12, <1>13,
     <1>14 DEF Step

LEMMA EarlyNext ==
  ASSUME TypeInv, EarlyInv, [Next]_vars
  PROVE  EarlyInv'
<1>1. ASSUME NEW t \in Threads, HandleRequest(t) PROVE EarlyInv'
  <2>1. pc'[t] = "reply" \/ UNCHANGED reply
    BY <1>1 DEF HandleRequest, HandlePost, HandlePut, HandleGet, HandleDelete, Refuse,
       Accept, Begin, Goto, TypeInv, TypeOK
  <2>2. QED
    BY <1>1, <2>1, BeginFrame DEF EarlyInv, Early
<1>2. CASE Restart
  BY <1>2 DEF Restart, EarlyInv
<1>3. CASE UNCHANGED vars
  BY <1>3 DEF vars, EarlyInv
<1>4. CASE Signal
  BY <1>4, EarlyCrash DEF Signal
<1>5. QED
  BY <1>1, <1>2, <1>3, <1>4, EarlyStep DEF Next, Quiescent

-----------------------------------------------------------------------------
(* Until a DELETE has been accepted nobody removes anything. *)

DeleteInv ==
  ~deleted => \A t \in Threads : /\ pc[t] \notin Removing
                                 /\ pc[t] = "isreg" => job[t].method = "GET"

LEMMA DeletedStays ==
  ASSUME NEW t \in Threads, Step(t)
  PROVE  deleted' = deleted
BY DEF Step, WriterExists, CreateDirectory, Lock, ScanDirectory, OpenFile, OpenFails,
   ExplicitUnlock, WriteFile, WriteBytes, DestroyLock, NameNoEntity, GetExists, ListDirectory,
   IsRegularFile, ReadFile, UnlinkFile, UnlinkMissing, IsEmpty, Purge,
   RemoveDirectory, Respond, Crash

LEMMA DeleteStep ==
  ASSUME TypeInv, DeleteInv, NEW t \in Threads, Step(t)
  PROVE  DeleteInv'
<1>1. CASE status' # "up"
  <2>1. \A u \in Threads : pc'[u] = "idle"
    BY <1>1, CrashIdles DEF Crash
  <2>2. QED
    BY <2>1 DEF DeleteInv, Removing
<1>2. CASE status' = "up"
  <2>1. SUFFICES ASSUME ~deleted
                 PROVE  /\ pc'[t] \notin Removing
                        /\ pc'[t] = "isreg" => job'[t].method = "GET"
    BY <1>2, StepFrame, DeletedStays DEF DeleteInv
  <2>2. pc[t] \notin Removing /\ (pc[t] = "isreg" => job[t].method = "GET")
    BY <2>1 DEF DeleteInv
  <2>3. ASSUME NEW label, Goto(t, label) PROVE pc'[t] = label
    BY <2>3 DEF Goto, TypeInv, TypeOK
  <2> USE DEF Move, At, Removing
  <2>4. CASE WriterExists(t) \/ CreateDirectory(t) \/ Lock(t) \/ OpenFile(t) \/ OpenFails(t)
    BY <1>2, <2>3, <2>4 DEF WriterExists, CreateDirectory, Lock, OpenFile, OpenFails,
       Crash
  <2>5. CASE ExplicitUnlock(t) \/ WriteFile(t) \/ DestroyLock(t) \/ Respond(t)
    BY <2>3, <2>5 DEF ExplicitUnlock, WriteFile, WriteBytes, DestroyLock, Respond
  <2>6. CASE ScanDirectory(t) \/ ListDirectory(t) \/ NameNoEntity(t)
    BY <1>2, <2>3, <2>6 DEF ScanDirectory, ListDirectory, NameNoEntity, Crash
  <2>7. CASE GetExists(t)
    BY <1>2, <2>3, <2>7 DEF GetExists, Is, Crash
  <2>8. CASE IsRegularFile(t) \/ ReadFile(t)
    BY <1>2, <2>2, <2>3, <2>8 DEF IsRegularFile, ReadFile, Is, Crash
  <2>9. CASE UnlinkFile(t) \/ UnlinkMissing(t) \/ IsEmpty(t) \/ Purge(t) \/ RemoveDirectory(t)
    BY <2>2, <2>9 DEF UnlinkFile, UnlinkMissing, IsEmpty, Purge, RemoveDirectory
  <2>10. QED
    BY <2>4, <2>5, <2>6, <2>7, <2>8, <2>9 DEF Step
<1>3. QED
  BY <1>1, <1>2

LEMMA DeleteNext ==
  ASSUME TypeInv, Asleep, DeleteInv, [Next]_vars
  PROVE  DeleteInv'
<1>1. ASSUME NEW t \in Threads, HandleRequest(t) PROVE DeleteInv'
  <2>1. deleted' \/ (~deleted /\ pc'[t] # "isreg")
    BY <1>1 DEF HandleRequest, HandlePost, HandlePut, HandleGet, HandleDelete, Refuse,
       Accept, Begin, Goto, TypeInv, TypeOK
  <2>2. QED
    BY <1>1, <2>1, BeginFrame DEF DeleteInv, Removing
<1>2. CASE Restart
  BY <1>2 DEF Restart, Asleep, DeleteInv, Removing
<1>3. CASE UNCHANGED vars
  BY <1>3 DEF vars, DeleteInv
<1>4. CASE Signal
  BY <1>4 DEF Signal, Crash, DeleteInv, Removing
<1>5. QED
  BY <1>1, <1>2, <1>3, <1>4, DeleteStep DEF Next, Quiescent

-----------------------------------------------------------------------------
(* Until then the disk only grows, so what a writer has seen stays. *)

Writer(t) == job[t].method \in {"POST", "PUT"}

ListInv == \A t \in Threads : pc[t] \in {"list", "read"} => job[t].method = "GET"

KeptInv ==
  ~deleted => \A t \in Threads :
                /\ pc[t] \in {"lock", "scan", "list"} => Entity(t) \in dirs
                /\ Writer(t) /\ reply[t].code = 200 => Target(t) \in DOMAIN files

LEMMA Grow ==
  ASSUME TypeInv, DeleteInv, NEW t \in Threads, Step(t), ~deleted
  PROVE  DOMAIN files \subseteq DOMAIN files' /\ dirs \subseteq dirs'
<1>1. pc[t] \notin Removing
  BY DEF DeleteInv
<1>2. CASE OpenFile(t)
  <2>1. files' = Put(files, Target(t), <<>>) /\ dirs' = dirs
    BY <1>2 DEF OpenFile
  <2>2. DOMAIN Put(files, Target(t), <<>>) = DOMAIN files \cup {Target(t)}
    BY PutFile
  <2>3. QED
    BY <2>1, <2>2
<1>3. CASE WriteFile(t)
  BY <1>3 DEF WriteFile, WriteBytes
<1>4. QED
  BY <1>1, <1>2, <1>3 DEF Step, WriterExists, CreateDirectory, Lock, ScanDirectory,
     OpenFails, ExplicitUnlock, DestroyLock, NameNoEntity, GetExists, ListDirectory,
     IsRegularFile, ReadFile, UnlinkFile, UnlinkMissing, IsEmpty, Purge,
     RemoveDirectory, Respond, Crash, Move, At, Removing

LEMMA KeptCrash ==
  ASSUME NEW why, Crash(why)
  PROVE  KeptInv' /\ ListInv'
<1>1. \A u \in Threads : pc'[u] = "idle" /\ reply'[u] = NoReply
  BY DEF Crash
<1>2. QED
  BY <1>1 DEF KeptInv, ListInv, NoReply, Code

LEMMA KeptStep ==
  ASSUME TypeInv, EarlyInv, DeleteInv, ListInv, KeptInv, NEW t \in Threads, Step(t)
  PROVE  KeptInv' /\ ListInv'
<1>1. CASE status' # "up"
  BY <1>1, CrashIdles, KeptCrash
<1>2. CASE status' = "up"
  <2>1. ASSUME ListInv',
               ~deleted => /\ pc'[t] \in {"lock", "scan", "list"} => Entity(t)' \in dirs'
                           /\ Writer(t)' /\ reply'[t].code = 200
                              => Target(t)' \in DOMAIN files'
        PROVE  KeptInv' /\ ListInv'
    <3>1. SUFFICES ASSUME ~deleted, NEW u \in Threads \ {t}
                   PROVE  /\ pc'[u] \in {"lock", "scan", "list"} => Entity(u)' \in dirs'
                          /\ Writer(u)' /\ reply'[u].code = 200
                             => Target(u)' \in DOMAIN files'
      BY <2>1, DeletedStays DEF KeptInv
    <3>2. QED
      BY <1>2, <3>1, Grow, StepFrame DEF KeptInv, Entity, Target, Writer
  <2>2. ASSUME NEW label, Goto(t, label), label \in {"list", "read"} => job'[t].method = "GET"
        PROVE  ListInv' /\ pc'[t] = label
    BY <1>2, <2>2, StepFrame DEF Goto, ListInv, TypeInv, TypeOK
  \* A step that settles nothing and takes the thread nowhere it needs a directory.
  <2>3. ASSUME NEW label, Goto(t, label), label \notin {"list", "read", "lock", "scan"},
               UNCHANGED <<job, name, reply>>
        PROVE  KeptInv' /\ ListInv'
    BY <2>1, <2>2, <2>3, Grow DEF KeptInv, Entity, Target, Writer
  \* A step that settles a response other than 200.
  <2>4. ASSUME NEW label, Goto(t, label), label \notin {"list", "read", "lock", "scan"},
               reply'[t].code # 200
        PROVE  KeptInv' /\ ListInv'
    BY <2>1, <2>2, <2>4
  \* A step of a thread that is not yet answered.
  <2>5. ASSUME NEW label, Goto(t, label), label \notin {"list", "read"},
               pc[t] \in Early, UNCHANGED reply,
               ~deleted /\ label \in {"lock", "scan"} => Entity(t)' \in dirs'
        PROVE  KeptInv' /\ ListInv'
    BY <2>1, <2>2, <2>5 DEF EarlyInv
  <2> USE DEF Move, At
  <2>6. CASE WriterExists(t) \/ CreateDirectory(t)
    BY <1>2, <2>5, <2>6 DEF WriterExists, CreateDirectory, Entity, Early, Crash
  <2>7. CASE Lock(t)
    BY <2>5, <2>7 DEF Lock, KeptInv, Entity, Early
  <2>8. CASE ScanDirectory(t)
    <3>1. Goto(t, "open") /\ pc[t] = "scan" /\ UNCHANGED reply
      BY <1>2, <2>8 DEF ScanDirectory, Crash
    <3>2. QED
      BY <2>5, <3>1 DEF Early
  <2>9. CASE OpenFile(t)
    <3>1. /\ Goto(t, "unlock") /\ UNCHANGED <<job, name>>
          /\ files' = Put(files, Target(t), <<>>)
      BY <2>9 DEF OpenFile
    <3>2. DOMAIN Put(files, Target(t), <<>>) = DOMAIN files \cup {Target(t)}
      BY PutFile
    <3>3. QED
      BY <2>1, <2>2, <3>1, <3>2 DEF Target, Entity
  <2>10. CASE OpenFails(t)
    <3>1. Goto(t, "unlock") /\ reply'[t].code = 500
      BY <2>10 DEF OpenFails, Settle, Code, TypeInv, TypeOK
    <3>2. QED
      BY <2>4, <3>1
  <2>11. CASE ExplicitUnlock(t) \/ WriteFile(t) \/ DestroyLock(t)
    BY <2>3, <2>11 DEF ExplicitUnlock, WriteFile, WriteBytes, DestroyLock
  <2>12. CASE NameNoEntity(t)
    BY <1>2, <2>12 DEF NameNoEntity, Crash
  <2>13. CASE GetExists(t)
    <3>1. UNCHANGED <<job, name, dirs>> /\ job[t].method = "GET"
      BY <1>2, <2>13 DEF GetExists, Is, Crash
    <3>2. PICK label : Goto(t, label) /\ label \notin {"lock", "scan"}
                       /\ (label = "list" => Entity(t) \in dirs)
      BY <1>2, <2>13 DEF GetExists, Crash
    <3>3. QED
      BY <2>1, <2>2, <3>1, <3>2 DEF Entity, Writer
  <2>14. CASE ListDirectory(t)
    <3>1. Goto(t, "reply") /\ UNCHANGED <<job, name>> /\ job[t].method = "GET"
      BY <1>2, <2>14 DEF ListDirectory, Crash, ListInv
    <3>2. QED
      BY <2>1, <2>2, <3>1 DEF Writer
  <2>15. CASE IsRegularFile(t)
    <3>1. CASE Target(t) \notin DOMAIN files
      <4>1. Goto(t, "reply") /\ reply'[t].code = 400
        BY <1>2, <2>15, <3>1 DEF IsRegularFile, Crash, Code, TypeInv, TypeOK
      <4>2. QED
        BY <2>4, <4>1
    <3>2. CASE Target(t) \in DOMAIN files
      <4>1. /\ UNCHANGED <<job, name, reply>>
            /\ \/ Goto(t, "read") /\ job[t].method = "GET"
               \/ Goto(t, "unlink")
        BY <1>2, <2>15, <3>2 DEF IsRegularFile, Is, Crash
      <4>2. QED
        BY <2>1, <2>2, <2>3, <4>1 DEF Writer
    <3>3. QED
      BY <3>1, <3>2
  <2>16. CASE ReadFile(t)
    <3>1. Goto(t, "reply") /\ UNCHANGED <<job, name>> /\ job[t].method = "GET"
      BY <2>16 DEF ReadFile, ListInv
    <3>2. QED
      BY <2>1, <2>2, <3>1 DEF Writer
  <2>17. CASE UnlinkFile(t) \/ UnlinkMissing(t) \/ IsEmpty(t) \/ Purge(t) \/ RemoveDirectory(t)
    <3>1. pc[t] \in Removing
      BY <2>17 DEF UnlinkFile, UnlinkMissing, IsEmpty, Purge, RemoveDirectory, Removing
    <3>2. deleted /\ \E label \in {"isempty", "reply", "purge", "rmdir"} : Goto(t, label)
      BY <1>2, <2>17, <3>1 DEF DeleteInv, UnlinkFile, UnlinkMissing, IsEmpty, Purge,
         RemoveDirectory, Crash
    <3>3. QED
      BY <2>1, <2>2, <3>2
  <2>18. CASE Respond(t)
    <3>1. Goto(t, "idle") /\ reply'[t].code = 0
      BY <2>18 DEF Respond, Settle, NoReply, Code, TypeInv, TypeOK
    <3>2. QED
      BY <2>4, <3>1
  <2>19. QED
    BY <2>6, <2>7, <2>8, <2>9, <2>10, <2>11, <2>12, <2>13, <2>14, <2>15, <2>16,
       <2>17, <2>18 DEF Step
<1>3. QED
  BY <1>1, <1>2

LEMMA KeptNext ==
  ASSUME TypeInv, Asleep, EarlyInv, DeleteInv, ListInv, KeptInv, [Next]_vars
  PROVE  KeptInv' /\ ListInv'
<1>1. ASSUME NEW t \in Threads, HandleRequest(t) PROVE KeptInv' /\ ListInv'
  <2>1. reply'[t].code # 200 /\ (~deleted' => ~deleted)
    <3>1. reply[t].code = 0
      BY <1>1, BeginFrame DEF EarlyInv, Early
    <3>2. UNCHANGED reply \/ Settle(t, Code(400))
      BY <1>1 DEF HandleRequest, HandlePost, HandlePut, HandleGet, HandleDelete, Refuse,
         Accept
    <3>3. deleted' = deleted \/ deleted' = TRUE
      BY <1>1 DEF HandleRequest, HandlePost, HandlePut, HandleGet, HandleDelete, Refuse
    <3>4. QED
      BY <3>1, <3>2, <3>3 DEF Settle, Code, TypeInv, TypeOK
  <2>2. QED
    BY <1>1, <2>1, BeginFrame DEF KeptInv, ListInv, Entity, Target, Writer
<1>2. CASE Restart
  <2>1. \A t \in Threads : pc'[t] = "idle" /\ reply'[t].code = 0
    BY <1>2 DEF Restart, Asleep, EarlyInv, Early
  <2>2. QED
    BY <2>1 DEF KeptInv, ListInv
<1>3. CASE UNCHANGED vars
  BY <1>3 DEF vars, KeptInv, ListInv, Entity, Target, Writer
<1>4. CASE Signal
  BY <1>4, KeptCrash DEF Signal
<1>5. QED
  BY <1>1, <1>2, <1>3, <1>4, KeptStep DEF Next, Quiescent

\* What is true of the handlers of a process that has handled no DELETE.
StoreInv == Asleep /\ EarlyInv /\ DeleteInv /\ ListInv /\ KeptInv

LEMMA StoreInit == Init => StoreInv
<1>1. ASSUME Init, NEW t \in Threads
      PROVE  pc[t] = "idle" /\ reply[t].code = 0
  BY <1>1 DEF Init, NoReply, Code
<1>2. Init => Asleep /\ EarlyInv /\ ListInv
  BY <1>1 DEF Asleep, EarlyInv, ListInv
<1>3. Init => DeleteInv /\ KeptInv
  BY <1>1 DEF DeleteInv, KeptInv, Removing
<1>4. QED
  BY <1>2, <1>3 DEF StoreInv

LEMMA StoreNext ==
  ASSUME TypeInv, StoreInv, [Next]_vars
  PROVE  StoreInv'
BY AsleepNext, EarlyNext, DeleteNext, KeptNext DEF StoreInv

\* StoredUnlessDeleted: the file that a POST or a PUT is answered 200 for is on
\* disk, whatever else runs, for as long as the process has handled no DELETE.
THEOREM Stored == Spec => []StoredUnlessDeleted
<1>1. StoreInv => StoredUnlessDeleted
  BY DEF StoreInv, KeptInv, StoredUnlessDeleted, Writer
<1>2. TypeInv /\ StoreInv /\ [Next]_vars => StoreInv'
  BY StoreNext
<1>3. QED
  BY <1>1, <1>2, StoreInit, TypeInit, TypeNext, PTL DEF Spec

-----------------------------------------------------------------------------
(* What can kill the process. *)

LEMMA CrashStep ==
  ASSUME TypeInv, StoreInv, CrashNeedsCause, NEW t \in Threads, Step(t)
  PROVE  CrashNeedsCause'
<1>1. CASE status' = "up"
  BY <1>1 DEF CrashNeedsCause
<1>2. CASE status' # "up"
  <2>1. status = "up"
    BY DEF Step, WriterExists, CreateDirectory, Lock, ScanDirectory, OpenFile,
       OpenFails, ExplicitUnlock, WriteFile, WriteBytes, DestroyLock, NameNoEntity, GetExists,
       ListDirectory, IsRegularFile, ReadFile, UnlinkFile, UnlinkMissing, IsEmpty,
       Purge, RemoveDirectory, Respond, Move, At
  <2>2. deleted' = deleted /\ UNCHANGED <<dirs, files>>
    BY <1>2, CrashIdles, DeletedStays DEF Crash
  <2>3. CASE pc[t] \in Removing
    <3>1. deleted
      BY <2>3 DEF StoreInv, DeleteInv
    <3>2. status' \notin {"out_of_range", "no_number"}
      BY <1>2, <2>1, <2>3 DEF Step, WriterExists, CreateDirectory, Lock, ScanDirectory,
         OpenFile, OpenFails, ExplicitUnlock, WriteFile, WriteBytes, DestroyLock, NameNoEntity,
         GetExists, ListDirectory, IsRegularFile, ReadFile, UnlinkFile, UnlinkMissing,
         IsEmpty, Purge, RemoveDirectory, Respond, Move, At, Crash, Removing
    <3>3. QED
      BY <2>2, <3>1, <3>2 DEF CrashNeedsCause
  <2>4. CASE ScanDirectory(t)
    <3>1. \/ Entity(t) \notin dirs /\ status' = "no_dir"
          \/ status' = "no_number" /\ Entity(t) \in dirs /\ Below(Entity(t)) # {}
          \/ status' = "out_of_range" /\ \E i \in IdsIn(Entity(t)) : i > IntMax
      BY <1>2, <2>1, <2>4 DEF ScanDirectory, Crash
    <3>2. Entity(t) \notin dirs => deleted
      BY <2>4 DEF ScanDirectory, At, StoreInv, KeptInv
    <3>3. (\E i \in IdsIn(Entity(t)) : i > IntMax) => \E p \in DOMAIN files : p[2] > IntMax
      BY DEF IdsIn
    <3>4. Entity(t) \in dirs /\ Below(Entity(t)) # {} => Here \in Entities /\ dirs # {Here}
      BY DEF Below, TypeInv, TypeOK
    <3>5. QED
      BY <2>2, <3>1, <3>2, <3>3, <3>4 DEF CrashNeedsCause
  <2>5. CASE ListDirectory(t)
    <3>1. Entity(t) \notin dirs /\ status' = "no_dir"
      BY <1>2, <2>1, <2>5 DEF ListDirectory, Crash
    <3>2. deleted
      BY <2>5, <3>1 DEF ListDirectory, At, StoreInv, KeptInv
    <3>3. QED
      BY <2>2, <3>1, <3>2 DEF CrashNeedsCause
  <2>6. CASE NameNoEntity(t)
    BY <2>6 DEF NameNoEntity, Crash, CrashNeedsCause
  <2>7. CASE CreateDirectory(t)
    BY <1>2, <2>1, <2>7 DEF CreateDirectory, Crash, CrashNeedsCause
  <2>8. CASE WriterExists(t) \/ GetExists(t) \/ IsRegularFile(t)
    <3>1. status' = "too_long"
      BY <1>2, <2>1, <2>8 DEF WriterExists, GetExists, IsRegularFile, Crash
    <3>2. QED
      BY <3>1 DEF CrashNeedsCause
  <2>9. QED
    BY <1>2, <2>1, <2>3, <2>4, <2>5, <2>6, <2>7, <2>8 DEF Step, Lock, OpenFile,
       OpenFails, ExplicitUnlock, WriteFile, WriteBytes, DestroyLock, ReadFile, UnlinkFile, UnlinkMissing, IsEmpty, Purge,
       RemoveDirectory, Respond, Move, At, Removing
<1>3. QED
  BY <1>1, <1>2

\* CrashNeedsCause: no handler dies of what another request has done to the disk
\* until the process has accepted a DELETE, and stoi throws only over a file whose
\* number is no int or over an entity in data_path.
THEOREM CrashCause == Spec => []CrashNeedsCause
<1>1. Init => CrashNeedsCause
  BY DEF Init, CrashNeedsCause
<1>2. ASSUME TypeInv, StoreInv, CrashNeedsCause, [Next]_vars
      PROVE  CrashNeedsCause'
  <2>1. ASSUME NEW t \in Threads, HandleRequest(t) PROVE CrashNeedsCause'
    BY <2>1 DEF HandleRequest, HandlePost, HandlePut, HandleGet, HandleDelete, Refuse,
       Accept, Begin, At, CrashNeedsCause
  <2>2. CASE Restart
    BY <2>2 DEF Restart, CrashNeedsCause
  <2>3. CASE UNCHANGED vars
    BY <1>2, <2>3 DEF vars, CrashNeedsCause
  <2>4. CASE Signal
    BY <2>4 DEF Signal, Crash, CrashNeedsCause
  <2>5. QED
    BY <1>2, <2>1, <2>2, <2>3, <2>4, CrashStep DEF Next, Quiescent
<1>3. QED
  BY <1>1, <1>2, StoreInit, StoreNext, TypeInit, TypeNext, PTL DEF Spec

-----------------------------------------------------------------------------
(* The history. *)

\* The file of a lone writer holds nothing before it is written and the body
\* afterwards, and nobody else has it open or is about to remove it.
AloneInv ==
  \A t \in alone :
    /\ t \in Threads /\ pc[t] \in {"unlock", "write", "dtor", "reply"}
    /\ job[t].method \in {"POST", "PUT"} /\ job[t].uri # <<>>
    /\ ~Shared(t) /\ ~stray
    /\ Target(t) \in DOMAIN files
    /\ files[Target(t)] = IF pc[t] \in HasOpen THEN <<>> ELSE job[t].body
    /\ open[t] = IF pc[t] \in HasOpen THEN Target(t) ELSE NoFile

\* A file that is claimed is open nowhere and no DELETE is about to remove it:
\* none names it, and none has found its directory empty.
ClaimInv ==
  /\ stray => DOMAIN kept = {}
  /\ \A p \in DOMAIN kept :
       /\ p[2] # IntMin /\ p \in DOMAIN files /\ files[p] = kept[p]
       /\ \A t \in Threads : open[t] # p
       /\ \A d \in Threads :
            Is(d, "DELETE") /\ job[d].uri # <<>> /\ Entity(d) \in {p[1], Here}
            => Target(d) # p /\ pc[d] # "purge"

HistInv == MethodInv /\ AloneInv /\ ClaimInv

-----------------------------------------------------------------------------
(* Whose steps touch a file. *)

\* A file stays as it is, open where it was, when the step of a thread writes
\* to another file, opens another and removes others.
LEMMA Untouched ==
  ASSUME TypeInv, NEW u \in Threads, Step(u), status' = "up",
         NEW p \in DOMAIN files, open[u] # p,
         OpenFile(u) => Target(u) # p, UnlinkFile(u) => Target(u) # p,
         Purge(u) => Entity(u) \notin {p[1], Here}
  PROVE  /\ p \in DOMAIN files' /\ files'[p] = files[p]
         /\ \A v \in Threads : (open'[v] = p) = (open[v] = p)
<1>0. ~\E why \in Causes : Crash(why)
  BY DEF Crash, Causes
<1>1. ASSUME NEW P, Unlink(P), p \notin P
      PROVE  /\ p \in DOMAIN files' /\ files'[p] = files[p]
             /\ \A v \in Threads : (open'[v] = p) = (open[v] = p)
  <2>1. DOMAIN files' = DOMAIN files \ P /\ files' = [q \in DOMAIN files \ P |-> files[q]]
    BY <1>1, CutFiles DEF Unlink
  <2>2. \A v \in Threads : open'[v] = IF open[v] \in P THEN NoFile ELSE open[v]
    BY <1>1 DEF Unlink
  <2>3. p # NoFile
    BY DEF TypeInv, TypeOK, Paths, NoFile
  <2>4. QED
    BY <1>1, <2>1, <2>2, <2>3
<1>2. CASE OpenFile(u)
  <2>1. files' = Put(files, Target(u), <<>>) /\ open' = [open EXCEPT ![u] = Target(u)]
        /\ Target(u) # p
    BY <1>2 DEF OpenFile
  <2>2. p \in DOMAIN files' /\ files'[p] = files[p]
    BY <2>1 DEF Put
  <2>3. \A v \in Threads : open'[v] = IF v = u THEN Target(u) ELSE open[v]
    BY <2>1 DEF TypeInv, TypeOK
  <2>4. QED
    BY <2>1, <2>2, <2>3
<1>3. CASE WriteFile(u)
  <2>1. PICK n : WriteBytes(u, n)
    BY <1>3 DEF WriteFile
  <2>2. p \in DOMAIN files' /\ files'[p] = files[p]
    <3>1. CASE open[u] = NoFile
      BY <2>1, <3>1 DEF WriteBytes
    <3>2. CASE open[u] # NoFile
      BY <2>1, <3>2 DEF WriteBytes
    <3>3. QED
      BY <3>1, <3>2
  <2>3. \A v \in Threads : open'[v] = IF v = u THEN NoFile ELSE open[v]
    BY <2>1 DEF WriteBytes, TypeInv, TypeOK
  <2>4. p # NoFile
    BY DEF TypeInv, TypeOK, Paths, NoFile
  <2>5. QED
    BY <2>2, <2>3, <2>4
<1>4. CASE UnlinkFile(u)
  BY <1>1, <1>4 DEF UnlinkFile
<1>5. CASE Purge(u)
  <2>1. p \notin Contents(Entity(u))
    BY <1>5 DEF Contents
  <2>2. QED
    BY <1>1, <1>5, <2>1 DEF Purge
<1>6. CASE ~(OpenFile(u) \/ WriteFile(u) \/ UnlinkFile(u) \/ Purge(u))
  <2>1. UNCHANGED <<files, open>>
    BY <1>0, <1>6 DEF Step, WriterExists, CreateDirectory, Lock, ScanDirectory, OpenFails,
       ExplicitUnlock, DestroyLock, NameNoEntity, GetExists, ListDirectory, IsRegularFile,
       ReadFile, UnlinkMissing, IsEmpty, RemoveDirectory, Respond, Causes
  <2>2. QED
    BY <2>1
<1>7. QED
  BY <1>2, <1>3, <1>4, <1>5, <1>6

\* What a step of a thread does to the request it serves, and when it comes to
\* remove_all.
LEMMA OwnRequest ==
  ASSUME TypeInv, NEW u \in Threads, Step(u), status' = "up"
  PROVE  /\ \/ job'[u] = job[u] /\ (name'[u] = name[u] \/ pc[u] = "scan")
            \/ job'[u] = NoJob /\ pc[u] = "reply"
         /\ pc'[u] = "purge" => pc[u] = "isempty" /\ IdsIn(Entity(u)) \cup Below(Entity(u)) = {}
<1>0. ~\E why \in Causes : Crash(why)
  BY DEF Crash, Causes
<1>1. /\ \/ job'[u] = job[u] /\ (name'[u] = name[u] \/ pc[u] = "scan")
         \/ job'[u] = NoJob /\ pc[u] = "reply"
  <2>1. CASE Respond(u)
    BY <2>1 DEF Respond, Move, At, TypeInv, TypeOK
  <2>2. CASE ScanDirectory(u)
    BY <1>0, <2>2 DEF ScanDirectory, At, Causes
  <2>3. CASE ~(Respond(u) \/ ScanDirectory(u))
    BY <1>0, <2>3 DEF Step, WriterExists, CreateDirectory, Lock, OpenFile, OpenFails,
       ExplicitUnlock, WriteFile, WriteBytes, DestroyLock, NameNoEntity, GetExists,
       ListDirectory, IsRegularFile, ReadFile, UnlinkFile, UnlinkMissing, IsEmpty, Purge,
       RemoveDirectory, Causes
  <2>4. QED
    BY <2>1, <2>2, <2>3
<1>2. ASSUME pc'[u] = "purge"
      PROVE  pc[u] = "isempty" /\ IdsIn(Entity(u)) \cup Below(Entity(u)) = {}
  <2>1. ASSUME NEW label, Goto(u, label) PROVE label = "purge"
    BY <1>2, <2>1 DEF Goto, TypeInv, TypeOK
  <2>2. ~(WriterExists(u) \/ CreateDirectory(u) \/ Lock(u) \/ ScanDirectory(u))
    BY <1>0, <2>1 DEF WriterExists, CreateDirectory, Lock, ScanDirectory, Move, Causes
  <2>3. ~(OpenFile(u) \/ OpenFails(u) \/ ExplicitUnlock(u) \/ WriteFile(u) \/ DestroyLock(u))
    BY <2>1 DEF OpenFile, OpenFails, ExplicitUnlock, WriteFile, WriteBytes, DestroyLock, Move
  <2>4. ~(NameNoEntity(u) \/ GetExists(u) \/ ListDirectory(u))
    BY <1>0, <2>1 DEF NameNoEntity, GetExists, ListDirectory, Move, Causes
  <2>5. ~(IsRegularFile(u) \/ ReadFile(u) \/ UnlinkFile(u) \/ UnlinkMissing(u) \/ Purge(u))
    BY <1>0, <2>1 DEF IsRegularFile, ReadFile, UnlinkFile, UnlinkMissing, Purge, Move, Causes
  <2>6. ~(RemoveDirectory(u) \/ Respond(u))
    BY <1>0, <2>1 DEF RemoveDirectory, Respond, Move, Causes
  <2>7. IsEmpty(u)
    BY <2>2, <2>3, <2>4, <2>5, <2>6 DEF Step
  <2>8. QED
    BY <1>0, <2>1, <2>7 DEF IsEmpty, At, Causes
<1>3. QED
  BY <1>1, <1>2

-----------------------------------------------------------------------------
(* A lone writer. *)

\* The step that opens the file.
LEMMA AloneOpen ==
  ASSUME TypeInv, MethodInv, NEW t \in Threads, OpenFile(t), ~Shared(t)', ~stray'
  PROVE  /\ pc'[t] = "unlock"
         /\ job'[t].method \in {"POST", "PUT"} /\ job'[t].uri # <<>>
         /\ Target(t)' \in DOMAIN files' /\ files'[Target(t)'] = <<>>
         /\ open'[t] = Target(t)'
<1>1. pc[t] = "open" /\ pc'[t] = "unlock" /\ UNCHANGED <<job, name>>
  BY DEF OpenFile, Move, At, Goto, TypeInv, TypeOK
<1>2. job[t].method \in {"POST", "PUT"} /\ job[t].uri # <<>>
  BY <1>1 DEF MethodInv, MethodOf, Writing
<1>3. Target(t)' = Target(t) /\ files' = Put(files, Target(t), <<>>)
      /\ open' = [open EXCEPT ![t] = Target(t)]
  BY <1>1 DEF OpenFile, Target, Entity
<1>4. open'[t] = Target(t)
  BY <1>3 DEF TypeInv, TypeOK
<1>5. Target(t) \in DOMAIN files' /\ files'[Target(t)] = <<>>
  BY <1>3 DEF Put
<1>6. QED
  BY <1>1, <1>2, <1>3, <1>4, <1>5

\* The steps the writer takes itself until its client is told.
LEMMA AloneOwn ==
  ASSUME TypeInv, OpenInv, AloneInv, NEW t \in alone, Step(t), ~CutShort(t),
         pc'[t] \in {"unlock", "write", "dtor", "reply"}
  PROVE  /\ job'[t] = job[t] /\ name'[t] = name[t]
         /\ Target(t) \in DOMAIN files'
         /\ files'[Target(t)] = IF pc'[t] \in HasOpen THEN <<>> ELSE job[t].body
         /\ open'[t] = IF pc'[t] \in HasOpen THEN Target(t) ELSE NoFile
<1>1. /\ t \in Threads /\ pc[t] \in {"unlock", "write", "dtor", "reply"}
      /\ Target(t) \in DOMAIN files
      /\ files[Target(t)] = IF pc[t] \in HasOpen THEN <<>> ELSE job[t].body
      /\ open[t] = IF pc[t] \in HasOpen THEN Target(t) ELSE NoFile
  BY DEF AloneInv
<1>2. Target(t) # NoFile
  BY DEF Target, NoFile
<1>3. ASSUME NEW label, Goto(t, label) PROVE pc'[t] = label
  BY <1>1, <1>3 DEF Goto, TypeInv, TypeOK
<1>4. CASE ExplicitUnlock(t)
  <2>1. pc[t] = "unlock" /\ reply[t].code = 200
    BY <1>1, <1>2, <1>4 DEF ExplicitUnlock, Move, At, HasOpen, OpenInv
  <2>2. pc'[t] = "write" /\ UNCHANGED <<job, name, files, open>>
    BY <1>3, <1>4, <2>1 DEF ExplicitUnlock, Move
  <2>3. QED
    BY <1>1, <2>1, <2>2 DEF HasOpen
<1>5. CASE WriteFile(t)
  <2>1. PICK n \in 0..Len(job[t].body) : WriteBytes(t, n)
    BY <1>5 DEF WriteFile
  <2>2. job[t].body \in Seq(Bytes) /\ Len(job[t].body) \in Nat
    <3>1. job[t].body \in Bodies \cup {<<>>}
      BY <1>1, ConstantsAssumption DEF TypeInv, TypeOK, Jobs, NoJob
    <3>2. QED
      BY <3>1, ConstantsAssumption, LenProperties, EmptySeq
  <2>3. n = Len(job[t].body)
    BY <2>1, <2>2 DEF CutShort
  <2>4. pc[t] = "write" /\ pc'[t] = "dtor" /\ UNCHANGED <<job, name>>
    BY <1>3, <2>1 DEF WriteBytes, Move, At
  <2>5. open[t] = Target(t) /\ files[Target(t)] = <<>>
    BY <1>1, <2>4 DEF HasOpen
  <2>6. files' = [files EXCEPT ![Target(t)] =
                    Overlay(SubSeq(job[t].body, 1, n), files[Target(t)])]
    BY <1>2, <2>1, <2>5 DEF WriteBytes
  <2>7. Target(t) \in DOMAIN files' /\ files'[Target(t)] = job[t].body
    BY <1>1, <2>2, <2>3, <2>5, <2>6, WholeBody
  <2>8. open'[t] = NoFile
    BY <1>1, <2>1 DEF WriteBytes, TypeInv, TypeOK
  <2>9. QED
    BY <2>4, <2>7, <2>8 DEF HasOpen
<1>6. CASE DestroyLock(t)
  <2>1. pc[t] = "dtor" /\ pc'[t] = "reply" /\ UNCHANGED <<job, name, files, open>>
    BY <1>3, <1>6 DEF DestroyLock, Move, At
  <2>2. QED
    BY <1>1, <2>1 DEF HasOpen
<1>7. CASE Respond(t)
  BY <1>3, <1>7 DEF Respond, Move
<1>8. QED
  BY <1>1, <1>4, <1>5, <1>6, <1>7 DEF Step, WriterExists, CreateDirectory, Lock,
     ScanDirectory, OpenFile, OpenFails, NameNoEntity, GetExists, ListDirectory,
     IsRegularFile, ReadFile, UnlinkFile, UnlinkMissing, IsEmpty, Purge,
     RemoveDirectory, Move, At

\* Nobody else touches the file of a lone writer: a DELETE of its entity or a
\* second writer would be seen.
LEMMA AloneOther ==
  ASSUME TypeInv, MethodInv, AloneInv, NEW t \in alone, NEW u \in Threads \ {t}, Step(u),
         status' = "up", ~Shared(t)'
  PROVE  /\ pc'[t] = pc[t] /\ job'[t] = job[t] /\ name'[t] = name[t]
         /\ Target(t) \in DOMAIN files' /\ files'[Target(t)] = files[Target(t)]
         /\ open'[t] = open[t]
<1>1. /\ t \in Threads /\ ~Shared(t) /\ Target(t) \in DOMAIN files
      /\ open[t] = Target(t) \/ open[t] = NoFile
  BY DEF AloneInv
<1>2. pc'[t] = pc[t] /\ job'[t] = job[t] /\ name'[t] = name[t]
  BY <1>1, StepFrame
<1>3. open[u] # Target(t)
  BY <1>1 DEF Shared
<1>4. OpenFile(u) => Target(u) # Target(t)
  <2>1. SUFFICES ASSUME OpenFile(u) PROVE Target(u) # Target(t)
    OBVIOUS
  <2>2. open'[u] = Target(u)
    BY <2>1 DEF OpenFile, TypeInv, TypeOK
  <2>3. Target(t)' = Target(t)
    BY <1>2 DEF Target, Entity
  <2>4. QED
    BY <2>2, <2>3 DEF Shared
<1>5. pc[u] \in Removing => Entity(u) \notin {Entity(t), Here}
  BY <1>1 DEF MethodInv, MethodOf, Removing, Shared, Is
<1>6. UnlinkFile(u) => Target(u) # Target(t)
  BY <1>5 DEF UnlinkFile, Move, At, Removing, Target
<1>7. Purge(u) => Entity(u) \notin {Target(t)[1], Here}
  BY <1>5 DEF Purge, Move, At, Removing, Target
<1>8. /\ Target(t) \in DOMAIN files' /\ files'[Target(t)] = files[Target(t)]
      /\ \A v \in Threads : (open'[v] = Target(t)) = (open[v] = Target(t))
  <2> DEFINE p == Target(t)
  <2>1. p \in DOMAIN files /\ open[u] # p /\ (OpenFile(u) => Target(u) # p)
        /\ (UnlinkFile(u) => Target(u) # p) /\ (Purge(u) => Entity(u) \notin {p[1], Here})
    BY <1>1, <1>3, <1>4, <1>6, <1>7
  <2> HIDE DEF p
  <2>2. /\ p \in DOMAIN files' /\ files'[p] = files[p]
        /\ \A v \in Threads : (open'[v] = p) = (open[v] = p)
    BY <2>1, Untouched
  <2>3. QED
    BY <2>2 DEF p
<1>9. open'[t] = open[t]
  <2>1. CASE open[t] = Target(t)
    BY <1>1, <1>8, <2>1
  <2>2. CASE open[t] = NoFile
    <3>1. open'[t] = open[t] \/ open'[t] = NoFile
      <4>1. ASSUME NEW P, Unlink(P) PROVE open'[t] = open[t] \/ open'[t] = NoFile
        BY <1>1, <4>1 DEF Unlink
      <4>2. CASE UnlinkFile(u) \/ Purge(u)
        BY <4>1, <4>2 DEF UnlinkFile, Purge
      <4>3. CASE OpenFile(u) \/ WriteFile(u)
        BY <1>1, <4>3 DEF OpenFile, WriteFile, WriteBytes, TypeInv, TypeOK
      <4>4. CASE ~(UnlinkFile(u) \/ Purge(u) \/ OpenFile(u) \/ WriteFile(u))
        BY <4>4 DEF Step, WriterExists, CreateDirectory, Lock, ScanDirectory, OpenFails,
           ExplicitUnlock, DestroyLock, NameNoEntity, GetExists, ListDirectory,
           IsRegularFile, ReadFile, UnlinkMissing, IsEmpty, RemoveDirectory, Respond, Crash
      <4>5. QED
        BY <4>2, <4>3, <4>4
    <3>2. QED
      BY <2>2, <3>1
  <2>3. QED
    BY <1>1, <2>1, <2>2
<1>10. QED
  BY <1>2, <1>8, <1>9

LEMMA AloneNext ==
  ASSUME TypeInv, Asleep, OpenInv, MethodInv, AloneInv, Next, RecordAlone
  PROVE  AloneInv'
<1> DEFINE Good(t) ==
      /\ job'[t].method \in {"POST", "PUT"} /\ job'[t].uri # <<>>
      /\ Target(t)' \in DOMAIN files'
      /\ files'[Target(t)'] = IF pc'[t] \in HasOpen THEN <<>> ELSE job'[t].body
      /\ open'[t] = IF pc'[t] \in HasOpen THEN Target(t)' ELSE NoFile
<1>1. SUFFICES ASSUME NEW t \in alone' PROVE Good(t)
  <2>1. \A t \in alone' : t \in Threads /\ pc'[t] \in {"unlock", "write", "dtor", "reply"}
                          /\ ~Shared(t)' /\ ~stray'
    BY DEF RecordAlone
  <2>2. QED
    BY <1>1, <2>1 DEF AloneInv
<1>2. /\ t \in Threads /\ pc'[t] \in {"unlock", "write", "dtor", "reply"}
      /\ t \in alone \/ OpenFile(t)
      /\ ~CutShort(t) /\ ~Shared(t)' /\ ~stray'
  BY DEF RecordAlone
<1>3. CASE OpenFile(t)
  BY <1>2, <1>3, AloneOpen DEF HasOpen
<1>4. CASE t \in alone
  <2>1. /\ pc[t] \in {"unlock", "write", "dtor", "reply"}
        /\ job[t].method \in {"POST", "PUT"} /\ job[t].uri # <<>>
        /\ Target(t) \in DOMAIN files
        /\ files[Target(t)] = IF pc[t] \in HasOpen THEN <<>> ELSE job[t].body
        /\ open[t] = IF pc[t] \in HasOpen THEN Target(t) ELSE NoFile
    BY <1>4 DEF AloneInv
  <2>2. ASSUME job'[t] = job[t], name'[t] = name[t], Target(t) \in DOMAIN files',
               files'[Target(t)] = IF pc'[t] \in HasOpen THEN <<>> ELSE job[t].body,
               open'[t] = IF pc'[t] \in HasOpen THEN Target(t) ELSE NoFile
        PROVE  Good(t)
    <3>1. Target(t)' = Target(t)
      BY <2>2 DEF Target, Entity
    <3>2. QED
      BY <2>1, <2>2, <3>1
  <2> HIDE DEF Good
  <2>3. CASE Step(t)
    BY <1>2, <1>4, <2>2, <2>3, AloneOwn
  <2>4. ASSUME NEW u \in Threads \ {t}, Step(u), status' = "up"
        PROVE  Good(t)
    <3>1. /\ pc'[t] = pc[t] /\ job'[t] = job[t] /\ name'[t] = name[t]
          /\ Target(t) \in DOMAIN files' /\ files'[Target(t)] = files[Target(t)]
          /\ open'[t] = open[t]
      BY <1>2, <1>4, <2>4, AloneOther
    <3>2. QED
      BY <2>1, <2>2, <3>1
  <2>5. ASSUME NEW why, Crash(why) PROVE FALSE
    BY <1>2, <2>5 DEF Crash
  <2>6. ASSUME NEW u \in Threads, Step(u), status' # "up"
        PROVE  FALSE
    BY <2>5, <2>6, CrashIdles
  <2>7. ASSUME NEW u \in Threads, HandleRequest(u) PROVE Good(t)
    <3>1. u # t
      BY <2>1, <2>7, BeginFrame
    <3>2. /\ pc'[t] = pc[t] /\ job'[t] = job[t] /\ name'[t] = name[t]
          /\ files' = files /\ open' = open
      BY <1>2, <2>7, <3>1, BeginFrame
    <3>3. QED
      BY <2>1, <2>2, <3>2
  <2>8. CASE Restart
    BY <1>2, <2>1, <2>8 DEF Restart, Asleep
  <2>9. CASE UNCHANGED vars
    BY <2>1, <2>2, <2>9 DEF vars
  <2>10. QED
    BY <1>2, <2>3, <2>4, <2>5, <2>6, <2>7, <2>8, <2>9 DEF Next, Signal, Quiescent
<1>5. QED
  BY <1>2, <1>3, <1>4

-----------------------------------------------------------------------------
(* A file that a client was told is stored. *)

ClaimOf(p, body) ==
  /\ p[2] # IntMin /\ p \in DOMAIN files /\ files[p] = body
  /\ \A t \in Threads : open[t] # p
  /\ \A d \in Threads :
       Is(d, "DELETE") /\ job[d].uri # <<>> /\ Entity(d) \in {p[1], Here}
       => Target(d) # p /\ pc[d] # "purge"

\* A claim that nobody gives up stays true when a thread takes a step.
LEMMA ClaimStep ==
  ASSUME TypeInv, MethodInv, FilesInv, FreshInv, ~stray,
         NEW p, NEW body, ClaimOf(p, body),
         NEW u \in Threads, Step(u), status' = "up",
         Is(u, "PUT") /\ OpenFile(u) => Target(u) # p
  PROVE  ClaimOf(p, body)'
<1>1. /\ p[2] # IntMin /\ p \in DOMAIN files /\ files[p] = body /\ open[u] # p
      /\ p = <<p[1], p[2]>>
  BY DEF ClaimOf, TypeInv, TypeOK, Paths
<1>2. MethodOf(u)
  BY DEF MethodInv
<1>3. OpenFile(u) => Target(u) # p
  <2>1. SUFFICES ASSUME OpenFile(u), Is(u, "POST") PROVE Target(u) # p
    BY <1>2 DEF MethodOf, OpenFile, Move, At, Writing, Is
  <2>2. name[u] = IntMin \/ Target(u) \notin DOMAIN files
    BY <2>1 DEF FreshInv, OpenFile, Move, At, Is
  <2>3. QED
    BY <1>1, <2>2 DEF Target
<1>4. pc[u] \in Removing /\ Entity(u) \in {p[1], Here}
      => Target(u) # p /\ pc[u] # "purge"
  BY <1>2 DEF MethodOf, Removing, ClaimOf, Is
<1>5. UnlinkFile(u) => Target(u) # p
  BY <1>1, <1>4 DEF UnlinkFile, Move, At, Removing, Target
<1>6. Purge(u) => Entity(u) \notin {p[1], Here}
  BY <1>4 DEF Purge, Move, At, Removing
<1>7. /\ p \in DOMAIN files' /\ files'[p] = files[p]
      /\ \A v \in Threads : (open'[v] = p) = (open[v] = p)
  BY <1>1, <1>3, <1>5, <1>6, Untouched
<1>8. ASSUME NEW d \in Threads, Is(d, "DELETE")', job'[d].uri # <<>>,
             Entity(d)' \in {p[1], Here}
      PROVE  Target(d)' # p /\ pc'[d] # "purge"
  <2>1. CASE d = u
    <3>1. job'[u] = job[u] /\ (name'[u] = name[u] \/ pc[u] = "scan")
      BY <1>8, <2>1, OwnRequest DEF Is, NoJob
    <3>2. job[u].method = "DELETE" /\ job[u].uri # <<>> /\ Entity(u) \in {p[1], Here}
      BY <1>8, <2>1, <3>1 DEF Is, Entity
    <3>3. name'[u] = name[u]
      BY <1>2, <3>1, <3>2 DEF MethodOf, Writing
    <3>4. Target(u)' # p
      BY <3>1, <3>2, <3>3 DEF ClaimOf, Target, Entity, Is
    <3>5. p[2] \in IdsIn(Entity(u)) \/ p[1] \in Below(Entity(u))
      BY <1>1, <3>2 DEF IdsIn, Below, FilesInv
    <3>6. pc'[u] # "purge"
      BY <3>5, OwnRequest
    <3>7. QED
      BY <2>1, <3>4, <3>6
  <2>2. CASE d # u
    <3>1. job'[d] = job[d] /\ name'[d] = name[d] /\ pc'[d] = pc[d]
      BY <2>2, StepFrame
    <3>2. QED
      BY <1>8, <3>1 DEF ClaimOf, Is, Entity, Target
  <2>3. QED
    BY <2>1, <2>2
<1>9. \A t \in Threads : open'[t] # p
  BY <1>7 DEF ClaimOf
<1>10. QED
  BY <1>1, <1>7, <1>8, <1>9 DEF ClaimOf

\* It stays true when a client asks for something else.
LEMMA ClaimBegin ==
  ASSUME TypeInv, NEW p, NEW body, ClaimOf(p, body),
         NEW u \in Threads, HandleRequest(u),
         \A uri \in Uris : HandleDelete(u, uri) => uri # p
  PROVE  ClaimOf(p, body)'
<1>1. /\ UNCHANGED <<files, open>>
      /\ pc'[u] \in {"exists", "isreg", "reply"}
      /\ \A d \in Threads \ {u} :
           job'[d] = job[d] /\ name'[d] = name[d] /\ pc'[d] = pc[d]
  BY BeginFrame
<1>2. p = <<p[1], p[2]>>
  BY DEF ClaimOf, TypeInv, TypeOK, Paths
<1>3. ASSUME Is(u, "DELETE")', job'[u].uri # <<>>
      PROVE  Target(u)' # p
  <2>1. ASSUME NEW j, NEW label, Begin(u, j, label)
        PROVE  job'[u] = j /\ name'[u] = IF Len(j.uri) = 2 THEN j.uri[2] ELSE 0
    BY <2>1 DEF Begin, TypeInv, TypeOK
  <2>2. PICK m \in Methods, uri \in Uris :
          \/ \E b \in Bodies : HandlePost(u, uri, b)
          \/ \E b \in Bodies : HandlePut(u, uri, b)
          \/ HandleGet(u, uri) \/ HandleDelete(u, uri) \/ Refuse(u, m, uri)
    BY DEF HandleRequest
  <2>3. HandleDelete(u, uri)
    <3>1. \A b : ~HandlePost(u, uri, b)
      BY <1>3, <2>1 DEF HandlePost, Accept, Is
    <3>2. \A b : ~HandlePut(u, uri, b)
      BY <1>3, <2>1 DEF HandlePut, Accept, Is
    <3>3. ~HandleGet(u, uri)
      BY <1>3, <2>1 DEF HandleGet, Accept, Is
    <3>4. ~Refuse(u, m, uri)
      BY <1>3, <2>1 DEF Refuse
    <3>5. QED
      BY <2>2, <3>1, <3>2, <3>3, <3>4
  <2>4. job'[u].uri = uri /\ name'[u] = uri[2] /\ Len(uri) = 2
    BY <2>1, <2>3 DEF HandleDelete, Accept
  <2>5. uri = <<uri[1], uri[2]>>
    <3>1. uri = [n \in 1..2 |-> uri[n]]
      BY <2>4, ConstantsAssumption
    <3>2. QED
      BY <3>1
  <2>6. Target(u)' = <<uri[1], uri[2]>>
    BY <2>4 DEF Target, Entity
  <2>7. QED
    BY <2>3, <2>5, <2>6
<1>4. ASSUME NEW d \in Threads, Is(d, "DELETE")', job'[d].uri # <<>>,
             Entity(d)' \in {p[1], Here}
      PROVE  Target(d)' # p /\ pc'[d] # "purge"
  <2>1. CASE d = u
    BY <1>1, <1>3, <1>4, <2>1
  <2>2. CASE d # u
    BY <1>1, <1>4, <2>2 DEF ClaimOf, Is, Entity, Target
  <2>3. QED
    BY <2>1, <2>2
<1>5. QED
  BY <1>1, <1>4 DEF ClaimOf

\* It stays true when the process ends or starts.
LEMMA ClaimIdle ==
  ASSUME TypeInv, NEW p, NEW body, ClaimOf(p, body), UNCHANGED files,
         \/ \E why : Crash(why)
         \/ UNCHANGED <<open, job, name, pc>>
  PROVE  ClaimOf(p, body)'
<1>1. CASE \E why : Crash(why)
  <2>1. \A t \in Threads : open'[t] = NoFile /\ job'[t] = NoJob
    BY <1>1 DEF Crash
  <2>2. p # NoFile
    BY DEF ClaimOf, TypeInv, TypeOK, Paths, NoFile
  <2>3. QED
    BY <2>1, <2>2 DEF ClaimOf, Is, NoJob
<1>2. CASE UNCHANGED <<open, job, name, pc>>
  BY <1>2 DEF ClaimOf, Is, Entity, Target
<1>3. QED
  BY <1>1, <1>2

\* A claim is true when it is made: its writer was alone with the file.
LEMMA ClaimMade ==
  ASSUME TypeInv, AloneInv, NEW t \in alone, Respond(t), name[t] # IntMin,
         NEW p, p = Target(t), NEW body, body = job[t].body
  PROVE  ClaimOf(p, body)'
<1>1. /\ t \in Threads /\ pc[t] = "reply" /\ ~Shared(t) /\ Target(t) \in DOMAIN files
      /\ files[Target(t)] = job[t].body /\ open[t] = NoFile
  BY DEF AloneInv, Respond, Move, At, HasOpen
<1>2. /\ UNCHANGED <<files, open>> /\ job'[t] = NoJob /\ pc'[t] = "idle"
      /\ \A d \in Threads \ {t} :
           job'[d] = job[d] /\ name'[d] = name[d] /\ pc'[d] = pc[d]
  BY <1>1 DEF Respond, Move, Goto, TypeInv, TypeOK
<1>3. \A d \in Threads : open[d] # p
  <2>1. \A d \in Threads \ {t} : open[d] # Target(t)
    BY <1>1 DEF Shared
  <2>2. NoFile # Target(t)
    BY DEF Target, NoFile
  <2>3. QED
    BY <1>1, <2>1, <2>2
<1>4. \A d \in Threads :
        ~ (Is(d, "DELETE") /\ job[d].uri # <<>> /\ Entity(d) \in {p[1], Here})
  BY <1>1 DEF Shared, Target
<1>5. ASSUME NEW d \in Threads, job'[d].method = "DELETE", job'[d].uri # <<>>
      PROVE  job'[d].uri[1] \notin {p[1], Here}
  BY <1>2, <1>4, <1>5 DEF NoJob, Is, Entity
<1>6. p[2] = name[t]
  BY DEF Target
<1>7. QED
  BY <1>1, <1>2, <1>3, <1>5, <1>6 DEF ClaimOf, Is, Entity

\* One step that is not an answer to a lone writer.
LEMMA ClaimKept ==
  ASSUME TypeInv, Asleep, FilesInv, FreshInv, MethodInv, ~stray, Next,
         NEW p, NEW body, ClaimOf(p, body),
         \A u \in Threads : Is(u, "PUT") /\ OpenFile(u) => Target(u) # p,
         \A u \in Threads, uri \in Uris : HandleDelete(u, uri) => uri # p
  PROVE  ClaimOf(p, body)'
<1>1. ASSUME NEW u \in Threads, Step(u), status' = "up" PROVE ClaimOf(p, body)'
  BY <1>1, ClaimStep
<1>2. ASSUME NEW why, Crash(why) PROVE ClaimOf(p, body)'
  <2>1. UNCHANGED files
    BY <1>2 DEF Crash
  <2>2. QED
    BY <1>2, <2>1, ClaimIdle
<1>3. ASSUME NEW u \in Threads, Step(u), status' # "up" PROVE ClaimOf(p, body)'
  BY <1>2, <1>3, CrashIdles
<1>4. ASSUME NEW u \in Threads, HandleRequest(u) PROVE ClaimOf(p, body)'
  BY <1>4, ClaimBegin
<1>5. CASE Restart
  BY <1>5, ClaimIdle DEF Restart
<1>6. CASE UNCHANGED vars
  BY <1>6, ClaimIdle DEF vars
<1>7. QED
  BY <1>1, <1>2, <1>3, <1>4, <1>5, <1>6 DEF Next, Signal, Quiescent

LEMMA ClaimNext ==
  ASSUME TypeInv, Asleep, FilesInv, FreshInv, MethodInv, AloneInv, ClaimInv, Next,
         RecordKept
  PROVE  ClaimInv'
<1>1. CASE stray'
  <2>1. DOMAIN kept' = {}
    BY <1>1 DEF RecordKept
  <2>2. QED
    BY <2>1 DEF ClaimInv
<1>2. CASE ~stray'
  <2> DEFINE told    == {t \in alone : Respond(t) /\ name[t] # IntMin}
             renewed == {Target(t) : t \in {u \in Threads : Is(u, "PUT") /\ OpenFile(u)}}
             removed == {uri \in Uris : \E t \in Threads : HandleDelete(t, uri)}
             claims  == DOMAIN kept \ (renewed \cup removed)
  <2>1. kept' = [p \in claims \cup {Target(t) : t \in told} |->
                   IF p \in claims THEN kept[p]
                   ELSE job[CHOOSE t \in told : Target(t) = p].body]
    BY <1>2 DEF RecordKept
  <2>2. ASSUME NEW p \in claims, NEW body, body = kept[p]
        PROVE  ClaimOf(p, body)'
    <3>1. p \in DOMAIN kept /\ ~stray /\ ClaimOf(p, body)
      BY <2>2 DEF ClaimInv, ClaimOf
    <3>2. \A u \in Threads : Is(u, "PUT") /\ OpenFile(u) => Target(u) # p
      BY <2>2
    <3>3. \A u \in Threads, uri \in Uris : HandleDelete(u, uri) => uri # p
      BY <2>2
    <3>4. QED
      BY ONLY <3>1, <3>2, <3>3, ClaimKept, TypeInv, Asleep, FilesInv, FreshInv,
         MethodInv, Next
  <2>3. ASSUME NEW p \in {Target(t) : t \in told}, p \notin claims,
               NEW body, body = job[CHOOSE t \in told : Target(t) = p].body
        PROVE  ClaimOf(p, body)'
    <3>1. PICK t \in told : Target(t) = p /\ body = job[t].body
      BY <2>3
    <3>2. t \in alone /\ Respond(t) /\ name[t] # IntMin
      BY <3>1
    <3>3. QED
      BY ONLY <3>1, <3>2, ClaimMade, TypeInv, AloneInv
  <2>4. ASSUME NEW p \in DOMAIN kept', NEW body, body = kept'[p]
        PROVE  ClaimOf(p, body)'
    <3> HIDE DEF told, claims
    <3>1. CASE p \in claims
      <4>1. body = kept[p]
        BY <2>1, <2>4, <3>1
      <4>2. QED
        BY <2>2, <3>1, <4>1
    <3>2. CASE p \notin claims
      <4>1. /\ p \in {Target(t) : t \in told}
            /\ body = job[CHOOSE t \in told : Target(t) = p].body
        BY <2>1, <2>4, <3>2
      <4>2. QED
        BY <2>3, <3>2, <4>1
    <3>3. QED
      BY <3>1, <3>2
  <2>5. QED
    BY <1>2, <2>4 DEF ClaimInv, ClaimOf
<1>3. QED
  BY <1>1, <1>2

-----------------------------------------------------------------------------
LEMMA HistInit == HInit => HistInv
BY IdleMethod DEF HInit, Init, HistInv, MethodInv, MethodOf, Writing, Removing,
   AloneInv, ClaimInv

LEMMA HistNext ==
  ASSUME TypeInv, Asleep, FilesInv, OpenInv, FreshInv, HistInv,
         [HNext]_<<vars, historyVars>>
  PROVE  HistInv'
<1>1. CASE HNext
  BY <1>1, MethodNext, AloneNext, ClaimNext DEF HNext, HistInv
<1>2. CASE UNCHANGED <<vars, historyVars>>
  <2>1. UNCHANGED vars /\ alone' = alone /\ kept' = kept
    BY <1>2 DEF historyVars
  <2>2. MethodInv'
    BY <2>1, MethodNext DEF HistInv
  <2>3. AloneInv' /\ ClaimInv'
    BY <2>1 DEF vars, HistInv, AloneInv, ClaimInv, Shared, Target, Entity, Is
  <2>4. QED
    BY <2>2, <2>3 DEF HistInv
<1>3. QED
  BY <1>1, <1>2

\* AcknowledgedIsKept: what a client was told is stored stays on disk byte by
\* byte until a client asks to overwrite or to delete that very file
\* (real_file_system.cc:10-25, 42-51, 53-113).
THEOREM Kept == HSpec => []AcknowledgedIsKept
<1>1. HInit => Init /\ HistInv /\ Asleep
  BY HistInit DEF HInit, Init, Asleep
<1>2. [HNext]_<<vars, historyVars>> => [Next]_vars
  BY DEF HNext
<1>3. HistInv => AcknowledgedIsKept
  BY DEF HistInv, ClaimInv, AcknowledgedIsKept
<1>4. TypeInv /\ Asleep /\ LockInv /\ FreshInv /\ FilesInv /\ OpenInv /\ HistInv
      /\ [HNext]_<<vars, historyVars>>
        => (TypeInv /\ Asleep /\ LockInv /\ FreshInv /\ FilesInv /\ OpenInv /\ HistInv)'
  BY <1>2, TypeNext, AsleepNext, LockNext, FreshNext, DiskNext, HistNext
<1>5. Init => FreshInv
  BY DEF Init, FreshInv
<1>6. QED
  BY <1>1, <1>3, <1>4, <1>5, TypeInit, LockInit, DiskInit, PTL DEF HSpec
=============================================================================
