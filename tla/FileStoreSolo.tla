----------------------------- MODULE FileStoreSolo -----------------------------
(***************************************************************************)
(* FileStore, served by one thread, for any entities but ".", any files,   *)
(* bodies and requests: on a disk that does not fill up it implements      *)
(* ApiStore, and on any disk the double of the file system answers as the  *)
(* disk does, until the process ends.                                      *)
(***************************************************************************)
EXTENDS FileStoreProofs, FakeFileStore

-----------------------------------------------------------------------------
(* What a thread knows of its own request. *)

\* The response is settled at the step at which the request takes effect.
Unsettled == {"idle", "exists", "mkdir", "lock", "scan", "open", "list", "isreg",
              "read", "unlink"}

Answering(t) ==
  /\ pc[t] = "idle" => job[t] = NoJob
  /\ pc[t] \in Unsettled => reply[t] = NoReply
  /\ pc[t] \notin Unsettled => reply[t].code # 0

\* The target has the number of parts that the method, or the way, calls for.
Asking(t) ==
  /\ pc[t] \notin {"idle", "reply"} =>
       /\ job[t].method = "POST" => Len(job[t].uri) = 1
       /\ job[t].method \in {"PUT", "DELETE"} => Len(job[t].uri) = 2
       /\ Len(job[t].uri) = 2 => name[t] = job[t].uri[2]
  /\ pc[t] = "scan" => job[t].method = "POST"
  /\ pc[t] = "list" => Len(job[t].uri) = 1
  /\ pc[t] \in {"isreg", "read"} => Len(job[t].uri) = 2

\* n is the id that comes after the ids of entity e.
NextId(e, n) ==
  /\ n \in 1..IntMax \cup {IntMin}
  /\ \A i \in IdsIn(e) : i <= IntMax
  /\ \/ n > 0 /\ \A i \in IdsIn(e) : i < n
     \/ n < 0 /\ IntMax \in IdsIn(e)

\* What a thread has seen on disk is still so, if it is the only one.
Seen(t) ==
  /\ open[t] # NoFile => reply[t] = HasId(name[t]) /\ files[open[t]] = <<>>
  /\ pc[t] = "open" /\ job[t].method = "POST" => NextId(Entity(t), name[t])
  /\ pc[t] = "read" => Target(t) \in DOMAIN files
  /\ pc[t] = "purge" => IdsIn(Entity(t)) = {}

SoloOf(t) == Answering(t) /\ Asking(t) /\ Seen(t)

LEMMA SoloInit ==
  ASSUME Init, NEW s \in Threads
  PROVE  SoloOf(s)
BY DEF Init, SoloOf, Answering, Asking, Seen, Unsettled

LEMMA SoloCrash ==
  ASSUME NEW s \in Threads, NEW why, Crash(why)
  PROVE  SoloOf(s)'
<1>1. pc'[s] = "idle" /\ job'[s] = NoJob /\ reply'[s] = NoReply /\ open'[s] = NoFile
  BY DEF Crash
<1>2. QED
  BY <1>1 DEF SoloOf, Answering, Asking, Seen, Unsettled

LEMMA AnsweringStep ==
  ASSUME TypeInv, NEW s \in Threads, Answering(s), Step(s), status' = "up"
  PROVE  Answering(s)'
<1>0. ~\E why \in Causes : Crash(why)
  BY DEF Crash, Causes
\* A step that does not settle the response.
<1>1. ASSUME NEW label, Goto(s, label), label # "idle", reply'[s] = reply[s],
             pc[s] \in Unsettled <=> label \in Unsettled
      PROVE  Answering(s)'
  BY <1>1 DEF Goto, Answering, TypeInv, TypeOK, Unsettled
\* A step that settles it.
<1>2. ASSUME NEW label, Goto(s, label), label \notin Unsettled, reply'[s].code # 0
      PROVE  Answering(s)'
  BY <1>2 DEF Goto, Answering, TypeInv, TypeOK, Unsettled
<1>r. ASSUME NEW r, Settle(s, r) PROVE reply'[s] = r
  BY <1>r DEF Settle, TypeInv, TypeOK
<1>c. /\ \A c : Code(c).code = c
      /\ \A x : HasId(x).code = 200 /\ Lists(x).code = 200 /\ Holds(x).code = 200
  BY DEF Code, HasId, Lists, Holds
<1> USE DEF Move, At, Unsettled
<1>3. CASE WriterExists(s) \/ CreateDirectory(s) \/ Lock(s)
  BY <1>0, <1>1, <1>3 DEF WriterExists, CreateDirectory, Lock, Causes
<1>4. CASE ScanDirectory(s)
  <2>1. Goto(s, "open") /\ pc[s] = "scan" /\ UNCHANGED reply
    BY <1>0, <1>4 DEF ScanDirectory, Causes
  <2>2. QED
    BY <1>1, <2>1
<1>5. CASE OpenFile(s) \/ OpenFails(s)
  <2>1. Goto(s, "unlock") /\ \E c \in {Code(500), HasId(name[s])} : Settle(s, c)
    BY <1>5 DEF OpenFile, OpenFails
  <2>2. QED
    BY <1>2, <1>r, <1>c, <2>1
<1>6. CASE ExplicitUnlock(s) \/ WriteFile(s) \/ DestroyLock(s)
  BY <1>1, <1>6 DEF ExplicitUnlock, WriteFile, WriteBytes, DestroyLock
<1>7. CASE NameNoEntity(s)
  BY <1>0, <1>7 DEF NameNoEntity, Causes
<1>8. CASE GetExists(s) \/ IsRegularFile(s)
  <2>1. \/ Goto(s, "reply") /\ Settle(s, Code(400))
        \/ /\ Goto(s, "list") \/ Goto(s, "isreg") \/ Goto(s, "read") \/ Goto(s, "unlink")
           /\ pc[s] \in {"exists", "isreg"} /\ UNCHANGED reply
    BY <1>0, <1>8 DEF GetExists, IsRegularFile, Settle, Causes
  <2>2. QED
    BY <1>1, <1>2, <1>r, <1>c, <2>1
<1>9. CASE ListDirectory(s) \/ ReadFile(s)
  <2>1. Goto(s, "reply") /\ \E x : Settle(s, Lists(x)) \/ Settle(s, Holds(x))
    BY <1>0, <1>9 DEF ListDirectory, ReadFile, Causes
  <2>2. QED
    BY <1>2, <1>r, <1>c, <2>1
<1>10. CASE UnlinkFile(s) \/ UnlinkMissing(s)
  <2>1. Goto(s, "isempty") /\ \E c \in {200, 400} : Settle(s, Code(c))
    BY <1>0, <1>10 DEF UnlinkFile, UnlinkMissing, Causes
  <2>2. QED
    BY <1>2, <1>r, <1>c, <2>1
<1>11. CASE IsEmpty(s) \/ Purge(s) \/ RemoveDirectory(s)
  <2>1. /\ Goto(s, "purge") \/ Goto(s, "rmdir") \/ Goto(s, "reply")
        /\ pc[s] \in {"isempty", "purge", "rmdir"} /\ UNCHANGED reply
    BY <1>0, <1>11 DEF IsEmpty, Purge, RemoveDirectory, Causes
  <2>2. QED
    BY <1>1, <2>1
<1>12. CASE Respond(s)
  BY <1>12 DEF Respond, Settle, Goto, Answering, TypeInv, TypeOK
<1>13. QED
  BY <1>3, <1>4, <1>5, <1>6, <1>7, <1>8, <1>9, <1>10, <1>11, <1>12 DEF Step

\* A target that is not empty has a part.
LEMMA Parts ==
  ASSUME TypeInv, NEW s \in Threads, job[s].uri # <<>>
  PROVE  job[s].uri \in Uris /\ Len(job[s].uri) \in Nat \ {0}
<1>1. job[s].uri \in Uris
  BY DEF TypeInv, TypeOK, Jobs, NoJob
<1>2. Len(job[s].uri) \in Nat /\ job[s].uri = [n \in 1..Len(job[s].uri) |-> job[s].uri[n]]
  BY <1>1, ConstantsAssumption
<1>3. CASE Len(job[s].uri) = 0
  <2>1. \A f : f = [n \in 1..0 |-> f[n]] => f = <<>>
    OBVIOUS
  <2>2. QED
    BY <1>2, <1>3, <2>1
<1>4. QED
  BY <1>1, <1>2, <1>3

LEMMA AskingStep ==
  ASSUME TypeInv, NEW s \in Threads, MethodOf(s), Asking(s), Step(s), status' = "up"
  PROVE  Asking(s)'
<1>0. ~\E why \in Causes : Crash(why)
  BY DEF Crash, Causes
<1>1. ASSUME NEW label, Goto(s, label), UNCHANGED <<job, name>>,
             pc[s] \notin {"idle", "reply"} \/ label \in {"idle", "reply"},
             label = "scan" => job[s].method = "POST",
             label = "list" => Len(job[s].uri) = 1,
             label \in {"isreg", "read"} => Len(job[s].uri) = 2
      PROVE  Asking(s)'
  BY <1>1 DEF Goto, Asking, TypeInv, TypeOK
<1> USE DEF Move, At
<1>2. CASE WriterExists(s) \/ CreateDirectory(s) \/ Lock(s) \/ OpenFile(s) \/ OpenFails(s)
  BY <1>0, <1>1, <1>2 DEF WriterExists, CreateDirectory, Lock, OpenFile, OpenFails, Is, Causes
<1>3. CASE ScanDirectory(s)
  <2>1. /\ Goto(s, "open") /\ pc[s] = "scan" /\ UNCHANGED job
        /\ \E n : name' = [name EXCEPT ![s] = n]
    BY <1>0, <1>3 DEF ScanDirectory, Causes
  <2>2. QED
    BY <2>1 DEF Goto, Asking, MethodOf, Writing, TypeInv, TypeOK
<1>4. CASE ExplicitUnlock(s) \/ WriteFile(s) \/ DestroyLock(s)
  BY <1>1, <1>4 DEF ExplicitUnlock, WriteFile, WriteBytes, DestroyLock
<1>5. CASE NameNoEntity(s)
  BY <1>0, <1>5 DEF NameNoEntity, Causes
<1>6. CASE GetExists(s)
  <2>1. job[s].uri # <<>> /\ Len(job[s].uri) \in Nat \ {0}
    BY <1>6, Parts DEF GetExists
  <2>2. \A n \in Nat \ {0} : ~(n > 2) => n = 1 \/ n = 2
    OBVIOUS
  <2>3. ~(Len(job[s].uri) > 2) => Len(job[s].uri) = 1 \/ Len(job[s].uri) = 2
    BY <2>1, <2>2
  <2>4. QED
    BY <1>0, <1>1, <1>6, <2>3 DEF GetExists, Causes
<1>7. CASE ListDirectory(s) \/ ReadFile(s)
  BY <1>0, <1>1, <1>7 DEF ListDirectory, ReadFile, Causes
<1>8. CASE IsRegularFile(s)
  BY <1>0, <1>1, <1>8 DEF IsRegularFile, Asking, Causes
<1>9. CASE UnlinkFile(s) \/ UnlinkMissing(s)
  BY <1>0, <1>1, <1>9 DEF UnlinkFile, UnlinkMissing, Causes
<1>10. CASE IsEmpty(s) \/ Purge(s) \/ RemoveDirectory(s)
  <2>1. /\ Goto(s, "purge") \/ Goto(s, "rmdir") \/ Goto(s, "reply")
        /\ pc[s] \in {"isempty", "purge", "rmdir"} /\ UNCHANGED <<job, name>>
    BY <1>0, <1>10 DEF IsEmpty, Purge, RemoveDirectory, Causes
  <2>2. QED
    BY <1>1, <2>1
<1>11. CASE Respond(s)
  BY <1>11 DEF Respond, Goto, Asking, TypeInv, TypeOK
<1>12. QED
  BY <1>2, <1>3, <1>4, <1>5, <1>6, <1>7, <1>8, <1>9, <1>10, <1>11 DEF Step

LEMMA SeenScan ==
  ASSUME TypeInv, OpenInv, NEW s \in Threads, ScanDirectory(s), status' = "up"
  PROVE  Seen(s)'
<1>0. ~\E why \in Causes : Crash(why)
  BY DEF Crash, Causes
<1>1. /\ At(s, "scan") /\ Goto(s, "open") /\ UNCHANGED <<files, job, open>>
      /\ ~\E i \in IdsIn(Entity(s)) : i > IntMax
  BY <1>0 DEF ScanDirectory, Causes
<1>2. PICK largest \in IdsIn(Entity(s)) \cup {0} :
        /\ largest >= 0 /\ \A i \in IdsIn(Entity(s)) : i <= largest
        /\ name' = [name EXCEPT ![s] = Wrap(largest + 1)]
  BY <1>0 DEF ScanDirectory, Causes
<1>3. IdsIn(Entity(s)) \subseteq Int /\ IntMax \in Nat \ {0}
  BY IdsType, NamesAreIntegers, ConstantsAssumption
<1>4. \A i \in IdsIn(Entity(s)) : i <= IntMax
  BY <1>1, <1>3
<1>5. largest \in 0..IntMax
  BY <1>2, <1>3, <1>4
<1>6. name'[s] = Wrap(largest + 1)
  BY <1>2 DEF TypeInv, TypeOK
<1>7. NextId(Entity(s), Wrap(largest + 1))
  <2>1. CASE largest = IntMax
    <3>1. IntMax \in IdsIn(Entity(s)) /\ Wrap(largest + 1) = IntMin /\ IntMin < 0
      BY <1>2, <1>3, <2>1 DEF Wrap, IntMin
    <3>2. QED
      BY <1>4, <3>1 DEF NextId
  <2>2. CASE largest # IntMax
    <3>1. Wrap(largest + 1) = largest + 1 /\ largest + 1 \in 1..IntMax
      BY <1>3, <1>5, <2>2 DEF Wrap
    <3>2. \A i \in IdsIn(Entity(s)) : i < largest + 1
      BY <1>2, <1>3, <1>5
    <3>3. QED
      BY <1>3, <1>4, <3>1, <3>2 DEF NextId
  <2>3. QED
    BY <2>1, <2>2
<1>8. NextId(Entity(s), name[s])'
  BY <1>1, <1>6, <1>7 DEF NextId, IdsIn, Entity
<1>9. pc'[s] = "open" /\ open'[s] = NoFile
  BY <1>1 DEF At, Goto, OpenInv, HasOpen, TypeInv, TypeOK
<1>10. QED
  BY <1>8, <1>9 DEF Seen

LEMMA SeenStep ==
  ASSUME TypeInv, OpenInv, MethodInv, NEW s \in Threads, Asking(s), Seen(s), Step(s),
         status' = "up"
  PROVE  Seen(s)'
<1>0. ~\E why \in Causes : Crash(why)
  BY DEF Crash, Causes
<1>1. pc[s] \notin HasOpen => open[s] = NoFile
  BY DEF OpenInv
<1>2. ASSUME NEW label, Goto(s, label), label \notin {"open", "read", "purge"},
             open'[s] = NoFile
      PROVE  Seen(s)'
  BY <1>2 DEF Goto, Seen, TypeInv, TypeOK
<1> USE DEF Move, At, HasOpen
<1>3. CASE WriterExists(s) \/ CreateDirectory(s)
  BY <1>0, <1>1, <1>2, <1>3 DEF WriterExists, CreateDirectory, Causes
<1>4. CASE Lock(s)
  BY <1>1, <1>4 DEF Lock, Is, Goto, Seen, TypeInv, TypeOK
<1>5. CASE ScanDirectory(s)
  BY <1>5, SeenScan
<1>6. CASE OpenFile(s)
  <2>1. /\ pc' = [pc EXCEPT ![s] = "unlock"] /\ files' = Put(files, Target(s), <<>>)
        /\ open' = [open EXCEPT ![s] = Target(s)]
        /\ reply' = [reply EXCEPT ![s] = HasId(name[s])] /\ UNCHANGED <<job, name>>
    BY <1>6 DEF OpenFile, Goto, Settle
  <2>2. files'[Target(s)] = <<>>
    BY <2>1 DEF Put
  <2>3. pc'[s] = "unlock" /\ open'[s] = Target(s) /\ reply'[s] = HasId(name[s])
    BY <2>1 DEF TypeInv, TypeOK
  <2>4. HasId(name[s])' = HasId(name[s])
    BY <2>1 DEF HasId
  <2>5. QED
    BY <2>2, <2>3, <2>4 DEF Seen
<1>7. CASE OpenFails(s)
  BY <1>1, <1>2, <1>7 DEF OpenFails
<1>8. CASE ExplicitUnlock(s)
  <2>1. UNCHANGED <<files, job, name, open, reply>> /\ pc'[s] \in {"write", "dtor"}
    BY <1>8 DEF ExplicitUnlock, Goto, TypeInv, TypeOK
  <2>2. QED
    BY <2>1 DEF Seen, HasId
<1>9. CASE WriteFile(s)
  <2>1. Goto(s, "dtor") /\ open'[s] = NoFile
    BY <1>9 DEF WriteFile, WriteBytes, TypeInv, TypeOK
  <2>2. QED
    BY <1>2, <2>1
<1>10. CASE DestroyLock(s)
  BY <1>1, <1>2, <1>10 DEF DestroyLock
<1>11. CASE NameNoEntity(s)
  BY <1>0, <1>11 DEF NameNoEntity, Causes
<1>12. CASE GetExists(s)
  BY <1>0, <1>1, <1>2, <1>12 DEF GetExists, Causes
<1>13. CASE ListDirectory(s) \/ ReadFile(s)
  BY <1>0, <1>1, <1>2, <1>13 DEF ListDirectory, ReadFile, Causes
<1>14. CASE IsRegularFile(s)
  <2>1. UNCHANGED <<files, job, name>> /\ open'[s] = NoFile
        /\ \/ pc'[s] \in {"reply", "unlink"}
           \/ pc'[s] = "read" /\ Target(s) \in DOMAIN files
    BY <1>0, <1>1, <1>14 DEF IsRegularFile, Goto, Causes, TypeInv, TypeOK
  <2>2. QED
    BY <2>1 DEF Seen, Target, Entity
<1>15. CASE UnlinkFile(s) \/ UnlinkMissing(s)
  BY <1>0, <1>1, <1>2, <1>15 DEF UnlinkFile, Unlink, UnlinkMissing, Causes
<1>16. CASE IsEmpty(s)
  <2>1. UNCHANGED <<files, job, name>> /\ open'[s] = NoFile
        /\ \/ pc'[s] = "reply"
           \/ pc'[s] = "purge" /\ IdsIn(Entity(s)) = {}
    BY <1>0, <1>1, <1>16 DEF IsEmpty, Goto, TypeInv, TypeOK, Causes
  <2>2. QED
    BY <2>1 DEF Seen, IdsIn, Entity
<1>17. CASE Purge(s)
  <2>1. /\ Goto(s, "rmdir") \/ Goto(s, "reply")
        /\ open'[s] = NoFile
    BY <1>1, <1>17 DEF Purge, Unlink
  <2>2. QED
    BY <1>2, <2>1
<1>18. CASE RemoveDirectory(s) \/ Respond(s)
  BY <1>0, <1>1, <1>2, <1>18 DEF RemoveDirectory, Respond, Causes
<1>19. QED
  BY <1>3, <1>4, <1>5, <1>6, <1>7, <1>8, <1>9, <1>10, <1>11, <1>12, <1>13, <1>14,
     <1>15, <1>16, <1>17, <1>18 DEF Step

\* A thread takes up a request.
LEMMA SoloBegin ==
  ASSUME TypeInv, OpenInv, NEW s \in Threads, SoloOf(s), HandleRequest(s)
  PROVE  SoloOf(s)'
<1>1. ASSUME NEW j, NEW label, Begin(s, j, label)
      PROVE  /\ pc'[s] = label /\ job'[s] = j
             /\ name'[s] = IF Len(j.uri) = 2 THEN j.uri[2] ELSE 0
  BY <1>1 DEF Begin, Goto, TypeInv, TypeOK
<1>2. reply[s] = NoReply /\ open[s] = NoFile
  BY BeginFrame DEF SoloOf, Answering, Unsettled, OpenInv, HasOpen
<1>3. Seen(s)'
  BY <1>2, BeginFrame DEF Seen
<1>4. PICK m \in Methods, uri \in Uris :
        \/ \E b \in Bodies : HandlePost(s, uri, b)
        \/ \E b \in Bodies : HandlePut(s, uri, b)
        \/ HandleGet(s, uri) \/ HandleDelete(s, uri) \/ Refuse(s, m, uri)
  BY DEF HandleRequest
<1>5. CASE \E b \in Bodies : HandlePost(s, uri, b)
  BY <1>1, <1>2, <1>3, <1>5 DEF HandlePost, Accept, SoloOf, Answering, Asking, Unsettled
<1>6. CASE \E b \in Bodies : HandlePut(s, uri, b)
  BY <1>1, <1>2, <1>3, <1>6 DEF HandlePut, Accept, SoloOf, Answering, Asking, Unsettled
<1>7. CASE HandleGet(s, uri)
  BY <1>1, <1>2, <1>3, <1>7 DEF HandleGet, Accept, SoloOf, Answering, Asking, Unsettled
<1>8. CASE HandleDelete(s, uri)
  BY <1>1, <1>2, <1>3, <1>8 DEF HandleDelete, Accept, SoloOf, Answering, Asking, Unsettled
<1>9. CASE Refuse(s, m, uri)
  <2>1. pc'[s] = "reply" /\ reply'[s] = Code(400) /\ Code(400).code = 400
    BY <1>1, <1>9 DEF Refuse, Settle, Code, TypeInv, TypeOK
  <2>2. QED
    BY <1>3, <2>1 DEF SoloOf, Answering, Asking, Unsettled
<1>10. QED
  BY <1>4, <1>5, <1>6, <1>7, <1>8, <1>9

LEMMA SoloNext ==
  ASSUME TypeInv, Asleep, OpenInv, MethodInv, NEW s, Threads = {s}, SoloOf(s),
         [Next]_vars
  PROVE  SoloOf(s)'
<1>1. s \in Threads
  OBVIOUS
<1>2. CASE Step(s)
  <2>1. CASE status' = "up"
    BY <1>1, <1>2, <2>1, AnsweringStep, AskingStep, SeenStep DEF SoloOf, MethodInv
  <2>2. CASE status' # "up"
    BY <1>1, <1>2, <2>2, CrashIdles, SoloCrash
  <2>3. QED
    BY <2>1, <2>2
<1>3. CASE HandleRequest(s)
  BY <1>1, <1>3, SoloBegin
<1>4. CASE Signal
  BY <1>1, <1>4, SoloCrash DEF Signal
<1>5. CASE Restart \/ UNCHANGED vars
  <2>1. UNCHANGED <<files, pc, job, name, open, reply>>
    BY <1>5 DEF Restart, vars
  <2>2. Answering(s)' /\ Asking(s)'
    BY <2>1 DEF SoloOf, Answering, Asking
  <2>3. Seen(s)'
    BY <2>1 DEF SoloOf, Seen, NextId, Target, Entity, IdsIn, HasId
  <2>4. QED
    BY <2>2, <2>3 DEF SoloOf
<1>6. QED
  BY <1>2, <1>3, <1>4, <1>5 DEF Next, Quiescent

-----------------------------------------------------------------------------
(* The mapping. *)

LEMMA SoloStore ==
  ASSUME TypeInv, TypeInv', NEW s, Threads = {s}
  PROVE  /\ open[s] = NoFile => StoreOf = files
         /\ open'[s] = NoFile => StoreOf' = files'
         /\ open[s] # NoFile =>
              StoreOf = [p \in DOMAIN files |-> IF p = open[s] THEN job[s].body ELSE files[p]]
         /\ open'[s] # NoFile =>
              StoreOf' = [p \in DOMAIN files' |->
                            IF p = open'[s] THEN job'[s].body ELSE files'[p]]
<1>1. StoreOf = [p \in DOMAIN files |-> IF p = open[s] THEN job[s].body ELSE files[p]]
  BY DEF StoreOf
<1>2. StoreOf' = [p \in DOMAIN files' |-> IF p = open'[s] THEN job'[s].body ELSE files'[p]]
  BY DEF StoreOf
<1>3. /\ files = [p \in DOMAIN files |-> files[p]]
      /\ files' = [p \in DOMAIN files' |-> files'[p]]
      /\ NoFile \notin DOMAIN files /\ NoFile \notin DOMAIN files'
  <2>1. NoFile \notin Paths
    BY DEF Paths, NoFile
  <2>2. DOMAIN files \subseteq Paths /\ DOMAIN files' \subseteq Paths
    BY DEF TypeInv, TypeOK
  <2>3. files = [p \in DOMAIN files |-> files[p]]
    BY DEF TypeInv, TypeOK
  <2>4. files' = [p \in DOMAIN files' |-> files'[p]]
    BY DEF TypeInv, TypeOK
  <2>5. QED
    BY <2>1, <2>2, <2>3, <2>4
<1>4. open[s] = NoFile => StoreOf = files
  BY <1>1, <1>3
<1>5. open'[s] = NoFile => StoreOf' = files'
  BY <1>2, <1>3
<1>6. QED
  BY <1>1, <1>2, <1>4, <1>5

\* No request names "." for an entity.
NoneHere == Here \notin Entities

Invs(s) == NoneHere /\ TypeInv /\ FilesInv /\ OpenInv /\ MethodInv /\ SoloOf(s)

\* Then a directory has nothing in it but files.
LEMMA OnlyFiles ==
  ASSUME NEW s \in Threads, Invs(s), job[s].uri # <<>>
  PROVE  Below(Entity(s)) = {} /\ Contents(Entity(s)) = {Entity(s)} \X Names
<1>1. job[s].uri \in Uris /\ Len(job[s].uri) >= 1
  BY Parts DEF Invs
<1>2. Entity(s) # Here
  BY <1>1, ConstantsAssumption DEF Invs, NoneHere, Entity
<1>3. QED
  BY <1>2 DEF Below, Contents

\* The process ends: the file that was open stays empty.
LEMMA MapCrash ==
  ASSUME NEW s, Threads = {s}, Invs(s), TypeInv', NEW why, Crash(why)
  PROVE  Api!Next
<1>1. /\ open'[s] = NoFile /\ files' = files
      /\ job' = [t \in Threads |-> NoJob] /\ reply' = [t \in Threads |-> NoReply]
  BY DEF Crash
<1>2. StoreOf' = files
  BY <1>1, SoloStore DEF Invs
<1>3. CASE open[s] = NoFile
  <2>1. StoreOf' = StoreOf
    BY <1>2, <1>3, SoloStore DEF Invs
  <2>2. QED
    BY <1>1, <2>1 DEF Api!Next, Api!Stop, Api!NoReply, Api!Code, NoReply, Code
<1>4. CASE open[s] # NoFile
  <2>1. /\ pc[s] \in HasOpen /\ open[s] = Target(s) /\ open[s] \in DOMAIN files
        /\ reply[s] = HasId(name[s]) /\ files[open[s]] = <<>>
        /\ job[s].method \in {"POST", "PUT"}
    BY <1>4 DEF Invs, OpenInv, SoloOf, Seen, MethodInv, MethodOf, Writing, HasOpen
  <2>2. reply[s].code = 200 /\ <<Entity(s), reply[s].id>> = open[s]
    BY <2>1 DEF HasId, Target
  <2>3. StoreOf = [p \in DOMAIN files |-> IF p = open[s] THEN job[s].body ELSE files[p]]
    BY <1>4, SoloStore DEF Invs
  <2>4. files = [p \in DOMAIN files |-> files[p]]
    BY DEF Invs, TypeInv, TypeOK
  <2>5. files = [q \in DOMAIN StoreOf \cup {open[s]} |->
                   IF q = open[s] THEN <<>> ELSE StoreOf[q]]
    BY <2>1, <2>3, <2>4
  <2>6. StoreOf' = Api!Put(StoreOf, <<Api!Entity(s), reply[s].id>>, <<>>)
    BY <1>2, <2>2, <2>5 DEF Api!Put, Api!Entity, Entity
  <2>7. QED
    BY <1>1, <2>1, <2>2, <2>6 DEF Api!Next, Api!Stop, Api!NoReply, Api!Code, NoReply, Code
<1>5. QED
  BY <1>3, <1>4

\* A request arrives.
LEMMA MapBegin ==
  ASSUME NEW s, Threads = {s}, Invs(s), TypeInv', HandleRequest(s)
  PROVE  Api!Next
<1>1. /\ pc[s] = "idle" /\ job[s] = NoJob /\ reply[s] = NoReply /\ open[s] = NoFile
      /\ UNCHANGED <<files, open>>
  BY BeginFrame DEF Invs, SoloOf, Answering, Unsettled, OpenInv, HasOpen
<1>2. StoreOf' = StoreOf
  BY <1>1, SoloStore DEF Invs
<1>3. ASSUME NEW r \in Requests, NEW label, Accept(s, r, label)
      PROVE  Api!Next
  <2>1. Api!Ask(s, r)
    BY <1>1, <1>2, <1>3 DEF Api!Ask, Accept, Begin
  <2>2. QED
    BY <2>1 DEF Api!Next
<1>4. PICK m \in Methods, uri \in Uris :
        \/ m = "POST" /\ \E b \in Bodies : HandlePost(s, uri, b)
        \/ m = "PUT" /\ \E b \in Bodies : HandlePut(s, uri, b)
        \/ m = "GET" /\ HandleGet(s, uri)
        \/ m = "DELETE" /\ HandleDelete(s, uri)
        \/ Refuse(s, m, uri)
  BY DEF HandleRequest
<1>5. <<>> \in Bodies
  BY ConstantsAssumption
<1>6. CASE m = "POST" /\ \E b \in Bodies : HandlePost(s, uri, b)
  BY <1>3, <1>6 DEF HandlePost, Requests, Understood
<1>7. CASE m = "PUT" /\ \E b \in Bodies : HandlePut(s, uri, b)
  BY <1>3, <1>7 DEF HandlePut, Requests, Understood
<1>8. CASE m = "GET" /\ HandleGet(s, uri)
  BY <1>3, <1>5, <1>8 DEF HandleGet, Requests, Understood
<1>9. CASE m = "DELETE" /\ HandleDelete(s, uri)
  BY <1>3, <1>5, <1>9 DEF HandleDelete, Requests, Understood
<1>10. CASE Refuse(s, m, uri)
  <2> DEFINE r == [method |-> m, uri |-> <<>>, body |-> <<>>]
  <2>1. r \in Refusals
    BY DEF Refusals
  <2>2. Api!AskNonsense(s, r)
    BY <1>1, <1>2, <1>10 DEF Api!AskNonsense, Api!Code, Refuse, Begin, Settle, Code
  <2>3. QED
    BY <2>1, <2>2 DEF Api!Next
<1>11. QED
  BY <1>4, <1>6, <1>7, <1>8, <1>9, <1>10

\* A writer opens its file: the request takes effect.
LEMMA MapOpen ==
  ASSUME NEW s, Threads = {s}, Invs(s), TypeInv', OpenFile(s)
  PROVE  Api!Next
<1>1. /\ pc[s] = "open" /\ reply[s] = NoReply /\ open[s] = NoFile
      /\ job[s].method \in {"POST", "PUT"}
  BY DEF Invs, OpenFile, Move, At, SoloOf, Answering, Unsettled, OpenInv, HasOpen,
     MethodInv, MethodOf, Writing
<1>2. /\ files' = Put(files, Target(s), <<>>) /\ open' = [open EXCEPT ![s] = Target(s)]
      /\ reply' = [reply EXCEPT ![s] = HasId(name[s])] /\ job' = job
  BY DEF OpenFile, Settle
<1>3. StoreOf = files
  BY <1>1, SoloStore DEF Invs
<1>4. StoreOf' = Put(files, Target(s), job[s].body)
  <2>1. open'[s] = Target(s) /\ Target(s) # NoFile
    BY <1>2 DEF Invs, TypeInv, TypeOK, Target, NoFile
  <2>2. StoreOf' = [p \in DOMAIN files' |->
                      IF p = Target(s) THEN job[s].body ELSE files'[p]]
    BY <1>2, <2>1, SoloStore DEF Invs
  <2>3. QED
    BY <1>2, <2>2 DEF Put
<1>5. Api!Answer(s, HasId(name[s]))
  BY <1>2 DEF Api!Answer
<1>6. CASE job[s].method = "POST"
  <2>1. NextId(Entity(s), name[s])
    BY <1>1, <1>6 DEF Invs, SoloOf, Seen
  <2>2. Api!Pending(s, "POST")
    BY <1>1, <1>6 DEF Api!Pending, Api!NoReply, Api!Code, NoReply, Code
  <2>3. Api!IdsIn(Api!Entity(s)) = IdsIn(Entity(s)) /\ Api!Entity(s) = Entity(s)
    BY <1>3 DEF Api!IdsIn, IdsIn, Api!Entity, Entity
  <2>4. IdsIn(Entity(s)) \subseteq Int /\ IntMax \in Nat \ {0}
    BY IdsType, NamesAreIntegers, ConstantsAssumption DEF Invs
  <2>5. ~Api!Poisoned(Api!Entity(s))
    BY <2>1, <2>3, <2>4 DEF Api!Poisoned, NextId
  <2>6. name[s] \in 1..IntMax \cup {-IntMax - 1}
    BY <2>1 DEF NextId, IntMin
  <2>7. \/ name[s] > 0 /\ \A j \in IdsIn(Entity(s)) : name[s] > j
        \/ name[s] < 0 /\ IntMax \in IdsIn(Entity(s))
    BY <2>1, <2>4, <2>6 DEF NextId
  <2>8. StoreOf' = Api!Put(StoreOf, <<Api!Entity(s), name[s]>>, job[s].body)
    BY <1>3, <1>4, <2>3 DEF Api!Put, Put, Target
  <2>9. Api!HasId(name[s]) = HasId(name[s])
    BY DEF Api!HasId, HasId
  <2>10. Api!Create(s)
    BY <1>5, <2>2, <2>3, <2>5, <2>6, <2>7, <2>8, <2>9 DEF Api!Create
  <2>11. QED
    BY <2>10 DEF Api!Next
<1>7. CASE job[s].method = "PUT"
  <2>1. name[s] = job[s].uri[2]
    BY <1>1, <1>7 DEF Invs, SoloOf, Asking
  <2>2. Api!Pending(s, "PUT")
    BY <1>1, <1>7 DEF Api!Pending, Api!NoReply, Api!Code, NoReply, Code
  <2>3. Api!File(s) = Target(s) /\ Api!File(s)[2] = name[s]
    BY <2>1 DEF Api!File, Api!Entity, Target, Entity
  <2>4. StoreOf' = Api!Put(StoreOf, Api!File(s), job[s].body)
    BY <1>3, <1>4, <2>3 DEF Api!Put, Put
  <2>5. Api!HasId(Api!File(s)[2]) = HasId(name[s])
    BY <2>3 DEF Api!HasId, HasId
  <2>6. QED
    BY <1>5, <2>2, <2>4, <2>5 DEF Api!Next, Api!Update
<1>8. QED
  BY <1>1, <1>6, <1>7

\* A step that settles a response and leaves the store as it is.
LEMMA Settles ==
  ASSUME NEW s, Threads = {s}, Invs(s), TypeInv', pc[s] \in Unsettled,
         UNCHANGED <<files, job, open>>
  PROVE  /\ open[s] = NoFile /\ StoreOf = files /\ StoreOf' = StoreOf
         /\ reply[s] = Api!NoReply
<1>1. pc[s] \notin HasOpen /\ reply[s] = NoReply
  BY DEF Invs, SoloOf, Answering, Unsettled, HasOpen
<1>2. open[s] = NoFile
  BY <1>1 DEF Invs, OpenInv
<1>3. StoreOf = files /\ StoreOf' = files
  BY <1>2, SoloStore DEF Invs
<1>4. QED
  BY <1>1, <1>2, <1>3 DEF Api!NoReply, Api!Code, NoReply, Code

\* A reader looks for the entity, lists it, or reads a file.
LEMMA MapRead ==
  ASSUME NEW s, Threads = {s}, Invs(s), TypeInv', status' = "up",
         GetExists(s) \/ ListDirectory(s) \/ ReadFile(s)
  PROVE  Api!Next \/ UNCHANGED <<files, job, open, reply>>
<1>0. ~\E why \in Causes : Crash(why)
  BY DEF Crash, Causes
<1>1. ASSUME StoreOf = files
      PROVE  /\ Api!Entity(s) = Entity(s) /\ Api!IdsIn(Entity(s)) = IdsIn(Entity(s))
             /\ Len(job[s].uri) = 2 /\ name[s] = job[s].uri[2] => Api!File(s) = Target(s)
  BY <1>1 DEF Api!Entity, Api!IdsIn, Api!File, Entity, IdsIn, Target
<1>2. job[s].method = "GET" /\ pc[s] \in Unsettled \ {"idle"}
  BY <1>0 DEF Invs, MethodInv, MethodOf, GetExists, ListDirectory, ReadFile, Is, Move, At,
     Unsettled, Causes
<1>3. UNCHANGED <<files, job, open>>
  BY <1>0 DEF GetExists, ListDirectory, ReadFile, Causes
<1>4. /\ Api!Code(400) = Code(400) /\ \A I : Api!Lists(I) = Lists(I)
      /\ \A b : Api!Holds(b) = Holds(b)
  BY DEF Api!Code, Api!Lists, Api!Holds, Code, Lists, Holds
<1>5. Len(job[s].uri) = 2 => name[s] = job[s].uri[2]
  BY <1>2 DEF Invs, SoloOf, Asking, Unsettled
<1>6. CASE GetExists(s)
  <2>1. CASE UNCHANGED reply
    BY <1>3, <2>1
  <2>2. CASE ~UNCHANGED reply
    <3>1. /\ reply' = [reply EXCEPT ![s] = Code(400)]
          /\ Entity(s) \notin dirs \/ Len(job[s].uri) > 2
      BY <1>0, <1>6, <2>2 DEF GetExists, Causes
    <3>2. /\ StoreOf = files /\ StoreOf' = StoreOf
          /\ reply[s] = Api!NoReply /\ Api!Answer(s, Code(400))
      BY <1>2, <1>3, <3>1, Settles DEF Api!Answer
    <3>3. Entity(s) \notin dirs => \A p \in DOMAIN files : p[1] # Entity(s)
      BY DEF Invs, FilesInv
    <3>4. Len(job[s].uri) \in Nat \ {0}
      BY <1>6, Parts DEF GetExists, Invs
    <3>5. CASE Len(job[s].uri) > 2
      BY <1>2, <1>4, <3>2, <3>5 DEF Api!Next, Api!TooDeep, Api!Pending
    <3>6. CASE Len(job[s].uri) = 1
      <4>1. Entity(s) \notin dirs
        BY <3>1, <3>6
      <4>2. IdsIn(Entity(s)) = {}
        BY <3>3, <4>1 DEF IdsIn
      <4>3. Api!List(s)
        BY <1>1, <1>2, <1>4, <3>2, <3>6, <4>2 DEF Api!List, Api!Pending
      <4>4. QED
        BY <4>3 DEF Api!Next
    <3>7. CASE Len(job[s].uri) = 2
      <4>1. Entity(s) \notin dirs
        BY <3>1, <3>7
      <4>2. Target(s) \notin DOMAIN files
        BY <3>3, <4>1 DEF Target
      <4>3. Api!Retrieve(s)
        BY <1>1, <1>2, <1>4, <1>5, <3>2, <3>7, <4>2 DEF Api!Retrieve, Api!Pending
      <4>4. QED
        BY <4>3 DEF Api!Next
    <3>8. \A n \in Nat \ {0} : n = 1 \/ n = 2 \/ n > 2
      OBVIOUS
    <3>9. QED
      BY <3>4, <3>5, <3>6, <3>7, <3>8
  <2>3. QED
    BY <2>1, <2>2
<1>7. CASE ListDirectory(s)
  <2>1. reply' = [reply EXCEPT ![s] = Lists(IdsIn(Entity(s)))] /\ pc[s] = "list"
    <3>1. pc[s] = "list" /\ Settle(s, Lists(IdsIn(Entity(s)) \cup Below(Entity(s))))
      BY <1>0, <1>7 DEF ListDirectory, At, Causes
    <3>2. Below(Entity(s)) = {}
      BY <3>1, OnlyFiles DEF Invs, MethodInv, MethodOf
    <3>3. QED
      BY <3>1, <3>2 DEF Settle
  <2>2. /\ StoreOf = files /\ StoreOf' = StoreOf
        /\ reply[s] = Api!NoReply /\ Api!Answer(s, Lists(IdsIn(Entity(s))))
    BY <1>2, <1>3, <2>1, Settles DEF Api!Answer
  <2>3. Len(job[s].uri) = 1
    BY <2>1 DEF Invs, SoloOf, Asking
  <2>4. Api!List(s)
    BY <1>1, <1>2, <1>4, <2>2, <2>3 DEF Api!List, Api!Pending
  <2>5. QED
    BY <2>4 DEF Api!Next
<1>8. CASE ReadFile(s)
  <2>1. pc[s] = "read"
    BY <1>8 DEF ReadFile, Move, At
  <2>2. Target(s) \in DOMAIN files /\ Len(job[s].uri) = 2
    BY <2>1 DEF Invs, SoloOf, Asking, Seen
  <2>3. reply' = [reply EXCEPT ![s] = Holds(files[Target(s)])]
    BY <1>8, <2>2 DEF ReadFile, Settle
  <2>4. /\ StoreOf = files /\ StoreOf' = StoreOf
        /\ reply[s] = Api!NoReply /\ Api!Answer(s, Holds(files[Target(s)]))
    BY <1>2, <1>3, <2>3, Settles DEF Api!Answer
  <2>5. Api!Retrieve(s)
    BY <1>1, <1>2, <1>4, <1>5, <2>2, <2>4 DEF Api!Retrieve, Api!Pending
  <2>6. QED
    BY <2>5 DEF Api!Next
<1>9. QED
  BY <1>6, <1>7, <1>8

\* is_regular_file, for a reader or a remover.
LEMMA MapIsRegular ==
  ASSUME NEW s, Threads = {s}, Invs(s), TypeInv', status' = "up", IsRegularFile(s)
  PROVE  Api!Next \/ UNCHANGED <<files, job, open, reply>>
<1>0. ~\E why \in Causes : Crash(why)
  BY DEF Crash, Causes
<1>1. pc[s] = "isreg" /\ UNCHANGED <<files, job, open>>
  BY <1>0 DEF IsRegularFile, Move, At, Causes
<1>2. CASE Target(s) \in DOMAIN files
  BY <1>0, <1>1, <1>2 DEF IsRegularFile, Causes
<1>3. CASE Target(s) \notin DOMAIN files
  <2>1. reply' = [reply EXCEPT ![s] = Code(400)]
    BY <1>0, <1>3 DEF IsRegularFile, Causes
  <2>2. /\ StoreOf = files /\ StoreOf' = StoreOf
        /\ reply[s] = Api!NoReply /\ Api!Answer(s, Code(400))
    <3>1. pc[s] \in Unsettled
      BY <1>1 DEF Unsettled
    <3>2. QED
      BY <1>1, <2>1, <3>1, Settles DEF Api!Answer
  <2>3. /\ job[s].method \in {"GET", "DELETE"} /\ Len(job[s].uri) = 2
        /\ name[s] = job[s].uri[2]
    BY <1>1 DEF Invs, MethodInv, MethodOf, SoloOf, Asking
  <2>4. Api!File(s) = Target(s) /\ Api!Code(400) = Code(400)
    BY <2>3 DEF Api!File, Api!Entity, Api!Code, Target, Entity, Code
  <2>5. Restrict(StoreOf, DOMAIN StoreOf \ {Target(s)}) = StoreOf
    <3>1. files = [p \in DOMAIN files |-> files[p]]
      BY DEF Invs, TypeInv, TypeOK
    <3>2. DOMAIN files \ {Target(s)} = DOMAIN files
      BY <1>3
    <3>3. QED
      BY <2>2, <3>1, <3>2 DEF Restrict
  <2>6. CASE job[s].method = "GET"
    BY <1>3, <2>2, <2>3, <2>4, <2>6 DEF Api!Next, Api!Retrieve, Api!Pending
  <2>7. CASE job[s].method = "DELETE"
    <3>1. StoreOf' = Api!Restrict(StoreOf, DOMAIN StoreOf \ {Api!File(s)})
      BY <2>2, <2>4, <2>5 DEF Api!Restrict, Restrict
    <3>2. (IF Api!File(s) \in DOMAIN StoreOf THEN Api!Code(200) ELSE Api!Code(400))
            = Code(400)
      BY <1>3, <2>2, <2>4
    <3>3. Api!Delete(s)
      BY <2>2, <2>7, <3>1, <3>2 DEF Api!Delete, Api!Pending, Api!Answer
    <3>4. QED
      BY <3>3 DEF Api!Next
  <2>8. QED
    BY <2>3, <2>6, <2>7
<1>4. QED
  BY <1>2, <1>3

\* A remover unlinks the file, or finds that it has gone.
LEMMA MapUnlink ==
  ASSUME NEW s, Threads = {s}, Invs(s), TypeInv', status' = "up",
         UnlinkFile(s) \/ UnlinkMissing(s)
  PROVE  Api!Next
<1>0. ~\E why \in Causes : Crash(why)
  BY DEF Crash, Causes
<1>1. pc[s] = "unlink" /\ job' = job
  BY <1>0 DEF UnlinkFile, UnlinkMissing, Move, At, Causes
<1>2. job[s].method = "DELETE" /\ Len(job[s].uri) = 2 /\ name[s] = job[s].uri[2]
  BY <1>1 DEF Invs, MethodInv, MethodOf, Removing, SoloOf, Asking
<1>3. open[s] = NoFile /\ reply[s] = NoReply
  BY <1>1 DEF Invs, OpenInv, HasOpen, SoloOf, Answering, Unsettled
<1>4. open'[s] = NoFile
  BY <1>0, <1>3 DEF UnlinkFile, Unlink, UnlinkMissing, Causes
<1>5. StoreOf = files /\ StoreOf' = files'
  BY <1>3, <1>4, SoloStore DEF Invs
<1>6. Api!File(s) = Target(s) /\ Api!NoReply = NoReply
      /\ Api!Code(200) = Code(200) /\ Api!Code(400) = Code(400)
  BY <1>2 DEF Api!File, Api!Entity, Api!NoReply, Api!Code, Target, Entity, NoReply, Code
<1>7. files' = Restrict(files, DOMAIN files \ {Target(s)})
  <2>1. CASE UnlinkFile(s)
    BY <2>1 DEF UnlinkFile, Unlink
  <2>2. CASE UnlinkMissing(s)
    <3>1. files' = files /\ Target(s) \notin DOMAIN files
      BY <1>0, <2>2 DEF UnlinkMissing, Causes
    <3>2. files = [p \in DOMAIN files |-> files[p]]
      BY DEF Invs, TypeInv, TypeOK
    <3>3. DOMAIN files \ {Target(s)} = DOMAIN files
      BY <3>1
    <3>4. QED
      BY <3>1, <3>2, <3>3 DEF Restrict
  <2>3. QED
    BY <2>1, <2>2
<1>8. reply' = [reply EXCEPT ![s] = IF Target(s) \in DOMAIN files THEN Code(200) ELSE Code(400)]
  BY <1>0 DEF UnlinkFile, UnlinkMissing, Settle, Causes
<1>9. StoreOf' = Api!Restrict(StoreOf, DOMAIN StoreOf \ {Api!File(s)})
  BY <1>5, <1>6, <1>7 DEF Api!Restrict, Restrict
<1>10. (IF Api!File(s) \in DOMAIN StoreOf THEN Api!Code(200) ELSE Api!Code(400))
         = IF Target(s) \in DOMAIN files THEN Code(200) ELSE Code(400)
  BY <1>5, <1>6
<1>11. Api!Delete(s)
  <2>1. Api!Answer(s, IF Api!File(s) \in DOMAIN StoreOf THEN Api!Code(200) ELSE Api!Code(400))
    <3> DEFINE r == IF Target(s) \in DOMAIN files THEN Code(200) ELSE Code(400)
    <3>1. /\ reply' = [reply EXCEPT ![s] = r]
          /\ (IF Api!File(s) \in DOMAIN StoreOf THEN Api!Code(200) ELSE Api!Code(400)) = r
      BY <1>8, <1>10
    <3> HIDE DEF r
    <3>2. UNCHANGED job
      BY <1>1
    <3>3. Api!Answer(s, r)
      BY <3>1, <3>2 DEF Api!Answer
    <3>4. QED
      BY <3>1, <3>3
  <2>2. Api!Pending(s, "DELETE")
    BY <1>1, <1>2, <1>3, <1>6 DEF Api!Pending
  <2>3. QED
    BY <1>2, <1>9, <2>1, <2>2 DEF Api!Delete
<1>12. QED
  BY <1>11 DEF Api!Next

\* All of the body reaches the file that was open.
LEMMA MapWrite ==
  ASSUME NEW s, Threads = {s}, Invs(s), TypeInv', WriteFile(s), ~DiskMayFill
  PROVE  UNCHANGED <<StoreOf, job, reply>>
<1>1. PICK n \in 0..Len(job[s].body) : WriteBytes(s, n) /\ n = Len(job[s].body)
  BY DEF WriteFile
<1>2. open'[s] = NoFile /\ UNCHANGED <<job, reply>>
  BY <1>1 DEF WriteBytes, Invs, TypeInv, TypeOK
<1>3. StoreOf' = files'
  BY <1>2, SoloStore DEF Invs
<1>4. CASE open[s] = NoFile
  <2>1. files' = files /\ StoreOf = files
    BY <1>1, <1>4, SoloStore DEF WriteBytes, Invs
  <2>2. QED
    BY <1>2, <1>3, <2>1
<1>5. CASE open[s] # NoFile
  <2>1. open[s] \in DOMAIN files /\ files[open[s]] = <<>>
    BY <1>5 DEF Invs, OpenInv, SoloOf, Seen
  <2>2. job[s].body \in Seq(Bytes)
    <3>1. job[s].body \in Bodies \cup {<<>>}
      BY ConstantsAssumption DEF Invs, TypeInv, TypeOK, Jobs, NoJob
    <3>2. QED
      BY <3>1, ConstantsAssumption, EmptySeq
  <2>3. Overlay(SubSeq(job[s].body, 1, n), <<>>) = job[s].body
    BY <1>1, <2>2, WholeBody
  <2>4. files' = [files EXCEPT ![open[s]] = job[s].body]
    BY <1>1, <1>5, <2>1, <2>3 DEF WriteBytes
  <2>5. StoreOf = [p \in DOMAIN files |-> IF p = open[s] THEN job[s].body ELSE files[p]]
    BY <1>5, SoloStore DEF Invs
  <2>6. files = [p \in DOMAIN files |-> files[p]]
    BY DEF Invs, TypeInv, TypeOK
  <2>7. files' = StoreOf
    BY <2>4, <2>5, <2>6
  <2>8. QED
    BY <1>2, <1>3, <2>7
<1>6. QED
  BY <1>4, <1>5

\* A step that neither touches a file nor settles a response is not seen.
LEMMA Unseen ==
  ASSUME NEW s, Threads = {s}, UNCHANGED <<files, job, open, reply>>
  PROVE  UNCHANGED <<StoreOf, job, reply>>
BY DEF StoreOf

\* remove_all and remove find nothing that a client could miss.
LEMMA MapPurge ==
  ASSUME NEW s, Threads = {s}, Invs(s), TypeInv', Purge(s)
  PROVE  UNCHANGED <<StoreOf, job, reply>>
<1>1. pc[s] = "purge" /\ UNCHANGED <<job, reply>>
  BY DEF Purge, Move, At
<1>2. IdsIn(Entity(s)) = {} /\ open[s] = NoFile
  BY <1>1 DEF Invs, SoloOf, Seen, OpenInv, HasOpen
<1>3. open'[s] = NoFile /\ files' = Restrict(files, DOMAIN files \ ({Entity(s)} \X Names))
  <2>1. Unlink(Contents(Entity(s))) /\ Contents(Entity(s)) = {Entity(s)} \X Names
    BY <1>1, OnlyFiles DEF Purge, Invs, MethodInv, MethodOf
  <2>2. QED
    BY <1>2, <2>1 DEF Unlink
<1>4. \A p \in DOMAIN files : p[1] # Entity(s)
  BY <1>2 DEF IdsIn
<1>5. DOMAIN files \ ({Entity(s)} \X Names) = DOMAIN files
  BY <1>4
<1>6. files = [p \in DOMAIN files |-> files[p]]
  BY DEF Invs, TypeInv, TypeOK
<1>7. files' = files
  BY <1>3, <1>5, <1>6 DEF Restrict
<1>8. QED
  BY <1>1, <1>2, <1>3, <1>7, SoloStore DEF Invs

LEMMA MapFail ==
  ASSUME NEW s, Threads = {s}, Invs(s), TypeInv', OpenFails(s)
  PROVE  Api!Next
<1>1. /\ pc[s] = "open" /\ UNCHANGED <<files, job, open>>
      /\ reply' = [reply EXCEPT ![s] = Code(500)]
  BY DEF OpenFails, Move, At, Settle
<1>2. /\ StoreOf = files /\ StoreOf' = StoreOf
      /\ reply[s] = Api!NoReply /\ Api!Answer(s, Code(500))
  <2>1. pc[s] \in Unsettled
    BY <1>1 DEF Unsettled
  <2>2. QED
    BY <1>1, <2>1, Settles DEF Api!Answer
<1>3. job[s].method \in {"POST", "PUT"}
  BY <1>1 DEF Invs, MethodInv, MethodOf, Writing
<1>4. Api!Fail(s)
  BY <1>2, <1>3 DEF Api!Fail, Api!Pending, Api!Code, Code
<1>5. QED
  BY <1>4 DEF Api!Next

LEMMA MapReturn ==
  ASSUME NEW s, Threads = {s}, Invs(s), TypeInv', Respond(s)
  PROVE  Api!Next
<1>1. /\ pc[s] = "reply" /\ UNCHANGED <<files, open>>
      /\ job' = [job EXCEPT ![s] = NoJob] /\ reply' = [reply EXCEPT ![s] = NoReply]
  BY DEF Respond, Move, At, Settle
<1>2. open[s] = NoFile /\ reply[s].code # 0
  BY <1>1 DEF Invs, OpenInv, HasOpen, SoloOf, Answering, Unsettled
<1>3. StoreOf' = StoreOf
  BY <1>1, <1>2, SoloStore DEF Invs
<1>4. Api!NoReply = NoReply /\ NoReply.code = 0
  BY DEF Api!NoReply, Api!Code, NoReply, Code
<1>5. Api!Return(s)
  BY <1>1, <1>2, <1>3, <1>4 DEF Api!Return
<1>6. QED
  BY <1>5 DEF Api!Next

LEMMA MapStep ==
  ASSUME NEW s, Threads = {s}, Invs(s), TypeInv', Step(s), ~DiskMayFill
  PROVE  Api!Next \/ UNCHANGED <<StoreOf, job, reply>>
<1>1. CASE status' # "up"
  BY <1>1, CrashIdles, MapCrash
<1>2. CASE status' = "up"
  <2>0. ~\E why \in Causes : Crash(why)
    BY <1>2 DEF Crash, Causes
  <2>1. CASE OpenFile(s) \/ OpenFails(s)
    BY <2>1, MapOpen, MapFail
  <2>2. CASE GetExists(s) \/ ListDirectory(s) \/ ReadFile(s)
    BY <1>2, <2>2, MapRead, Unseen
  <2>3. CASE IsRegularFile(s)
    BY <1>2, <2>3, MapIsRegular, Unseen
  <2>4. CASE UnlinkFile(s) \/ UnlinkMissing(s)
    BY <1>2, <2>4, MapUnlink
  <2>5. CASE WriteFile(s)
    BY <2>5, MapWrite
  <2>6. CASE Purge(s)
    BY <2>6, MapPurge
  <2>7. CASE Respond(s)
    BY <2>7, MapReturn
  <2>8. CASE \/ WriterExists(s) \/ CreateDirectory(s) \/ Lock(s) \/ ScanDirectory(s)
             \/ ExplicitUnlock(s) \/ DestroyLock(s) \/ NameNoEntity(s)
             \/ IsEmpty(s) \/ RemoveDirectory(s)
    <3>1. UNCHANGED <<files, job, open, reply>>
      BY <2>0, <2>8 DEF WriterExists, CreateDirectory, Lock, ScanDirectory, ExplicitUnlock,
         DestroyLock, NameNoEntity, IsEmpty, RemoveDirectory, Causes
    <3>2. QED
      BY <3>1, Unseen
  <2>9. QED
    BY <2>1, <2>2, <2>3, <2>4, <2>5, <2>6, <2>7, <2>8 DEF Step
<1>3. QED
  BY <1>1, <1>2

LEMMA MapNext ==
  ASSUME NEW s, Threads = {s}, Invs(s), TypeInv', [Next]_vars, ~DiskMayFill
  PROVE  [Api!Next]_(Api!vars)
<1>1. SUFFICES Api!Next \/ UNCHANGED <<StoreOf, job, reply>>
  BY DEF Api!vars
<1>2. CASE Signal
  BY <1>2, MapCrash DEF Signal
<1>3. CASE Restart \/ UNCHANGED vars
  <2>1. UNCHANGED <<files, job, open, reply>>
    BY <1>3 DEF Restart, vars
  <2>2. QED
    BY <2>1, Unseen
<1>4. QED
  BY <1>2, <1>3, MapStep, MapBegin DEF Next, Quiescent

LEMMA MapInit ==
  ASSUME NEW s, Threads = {s}, Init
  PROVE  Api!Init
<1>1. PICK P \in SUBSET LeftOver, b \in Bodies : files = [p \in P |-> b]
  BY DEF Init
<1>2. P \subseteq Paths
  BY ConstantsAssumption DEF Paths, Names
<1>3. StoreOf = files
  <2>1. \A p \in P : p # NoFile
    <3>1. ASSUME NEW p \in Entities \X Names PROVE p # <<>>
      <4>1. PICK e \in Entities, n \in Names : p = <<e, n>>
        BY <3>1
      <4>2. Len(<<e, n>>) = 2 /\ Len(<<>>) = 0
        OBVIOUS
      <4>3. QED
        BY <4>1, <4>2
    <3>2. QED
      BY <1>2, <3>1 DEF Paths, NoFile
  <2>2. open[s] = NoFile
    BY DEF Init
  <2>3. QED
    BY <1>1, <2>1, <2>2 DEF StoreOf
<1>4. StoreOf \in [P -> Bodies]
  BY <1>1, <1>3
<1>5. job = [t \in Threads |-> NoJob] /\ reply = [t \in Threads |-> Api!NoReply]
  BY DEF Init, Api!NoReply, Api!Code, NoReply, Code
<1>6. QED
  BY <1>2, <1>4, <1>5 DEF Api!Init

\* ImplementsApiStore: with one thread and room on the disk the handlers over
\* the file system keep every promise of the API (api_handler.cc:40-141,
\* real_file_system.cc:10-170).  Two threads do not: the runs post_overwrites
\* and torn_put.
THEOREM Implements ==
  ASSUME NEW s, Threads = {s}, ~DiskMayFill, NoneHere
  PROVE  Spec => ImplementsApiStore
<1>1. Init => Invs(s) /\ Asleep
  BY TypeInit, DiskInit, SoloInit DEF Init, Invs, Asleep, MethodInv, MethodOf, Writing,
     Removing
<1>2. Invs(s) /\ Asleep /\ [Next]_vars => (Invs(s) /\ Asleep)'
  BY TypeNext, AsleepNext, DiskNext, MethodNext, SoloNext DEF Invs
<1>3. Invs(s) /\ TypeInv' /\ [Next]_vars => [Api!Next]_(Api!vars)
  BY MapNext
<1>4. Init => Api!Init
  BY MapInit
<1>5. Invs(s) => TypeInv
  BY DEF Invs
<1>6. QED
  BY <1>1, <1>2, <1>3, <1>4, <1>5, PTL DEF Spec, ImplementsApiStore, Api!Spec

-----------------------------------------------------------------------------
(* The double: it does at once what the disk comes to do, so until the     *)
(* response is settled it is one file ahead of the disk.                   *)

Level     == \A p \in Paths : p \in ffs <=> p \in DOMAIN files
Ahead(n)  == \A p \in Paths : p \in ffs <=> p \in DOMAIN files \/ p = n
Behind(n) == \A p \in Paths : p \in ffs <=> p \in DOMAIN files /\ p # n

\* The fake has the directories of the disk, and may have kept more.
KeepsDirs == \A e \in dirs : <<e>> \in ffs

Expected(uri) ==
  IF uri = <<>> THEN Dies
  ELSE IF <<uri[1]>> \notin ffs \/ Len(uri) > 2 THEN Code(400)
  ELSE IF Len(uri) = 1 THEN Lists(FakeIds(uri[1]))
  ELSE IF uri \in ffs THEN Holds(<<>>) ELSE Code(400)

\* n is the largest number of a set, or 0.
Largest(n, I) == n \in I \cup {0} /\ n >= 0 /\ \A i \in I : i <= n

\* What the fake has answered, and done, while the thread is on its way.
ForeseesPost(t) ==
  \/ fake = Dies /\ \E i \in IdsIn(Entity(t)) : i > IntMax
  \/ /\ <<Entity(t)>> \in ffs
     /\ \A i \in IdsIn(Entity(t)) : i <= IntMax
     /\ \E n : /\ Largest(n, IdsIn(Entity(t)))
               /\ fake = HasId(Wrap(n + 1)) /\ Ahead(<<Entity(t), Wrap(n + 1)>>)

ForeseesFile(t) == fake = HasId(name[t]) /\ Ahead(Target(t)) /\ <<Entity(t)>> \in ffs

ForeseesGet(t) == fake = Expected(job[t].uri) /\ Level

ForeseesDelete(t) ==
  /\ fake = IF Target(t) \in DOMAIN files THEN Code(200) ELSE Code(400)
  /\ Behind(Target(t))

Foreseen(t) ==
  /\ Is(t, "POST") /\ pc[t] # "open" => ForeseesPost(t)
  /\ Is(t, "PUT") \/ pc[t] = "open" => ForeseesFile(t)
  /\ Is(t, "GET") => ForeseesGet(t)
  /\ Is(t, "DELETE") => ForeseesDelete(t)

AsReal(t) ==
  \/ reply[t] = [fake EXCEPT !.text = reply[t].text]
  \/ reply[t] = Code(400) /\ fake = Lists({})

FakeTyped == ffs \subseteq {<<e>> : e \in Entities} \cup Paths

Under == Unsettled \ {"idle"}

FakeOf(t) ==
  /\ status = "up" /\ reply[t].code # 500 =>
       /\ KeepsDirs
       /\ pc[t] \in Under => Foreseen(t)
       /\ pc[t] \notin Under => Level
       /\ pc[t] \notin Unsettled => AsReal(t)
  /\ pc[t] \notin Unsettled => fake # Dies
  /\ status \in {"no_entity", "out_of_range"} => fake = Dies

\* A set of files and one of directories that agree have the same listings.
LEMMA SameIds ==
  ASSUME TypeInv, FakeTyped, Level
  PROVE  \A e : FakeIds(e) = IdsIn(e)
<1>1. \A q : q \in ffs /\ Len(q) = 2 => q \in Paths
  <2>1. \A e : Len(<<e>>) = 1
    OBVIOUS
  <2>2. \A q \in ffs : q \in Paths \/ \E e \in Entities : q = <<e>>
    BY DEF FakeTyped
  <2>3. QED
    BY <2>1, <2>2
<1>2. \A q \in DOMAIN files : q \in Paths /\ Len(q) = 2
  BY DEF TypeInv, TypeOK, Paths
<1>3. \A q : q \in ffs /\ Len(q) = 2 <=> q \in DOMAIN files
  BY <1>1, <1>2 DEF Level
<1>4. \A e : {q \in ffs : Len(q) = 2 /\ q[1] = e} = {q \in DOMAIN files : q[1] = e}
  BY <1>3
<1>5. QED
  BY <1>4 DEF FakeIds, IdsIn

LEMMA NoDirectoryIsAPath == \A e : <<e>> \notin Paths
<1>1. \A e : Len(<<e>>) = 1
  OBVIOUS
<1>2. \A p \in Paths : Len(p) = 2
  BY DEF Paths
<1>3. QED
  BY <1>1, <1>2

LEMMA MirrorLevel ==
  ASSUME TypeInv', ffs' = Mirror'
  PROVE  FakeTyped' /\ Level' /\ KeepsDirs'
<1>1. ffs' = {<<e>> : e \in dirs'} \cup DOMAIN files'
  BY DEF Mirror
<1>2. dirs' \subseteq Entities /\ DOMAIN files' \subseteq Paths
  BY DEF TypeInv, TypeOK
<1>3. QED
  BY <1>1, <1>2, NoDirectoryIsAPath DEF FakeTyped, Level, KeepsDirs

\* What the fake does next to a step of the thread.
LEMMA FakeWaits ==
  ASSUME NEW s, Threads = {s}, FakeFollows, status = "up",
         reply[s].code # 500 \/ job'[s] # NoJob, job[s] # NoJob \/ job'[s] = NoJob
  PROVE  ffs' = ffs /\ fake' = fake
<1>1. ~Afresh
  BY DEF Afresh
<1>2. \A t \in Threads : ~FakeHandle(t)
  BY DEF FakeHandle
<1>3. QED
  BY <1>1, <1>2 DEF FakeFollows, fakeVars

LEMMA FakeRestarts ==
  ASSUME NEW s, Threads = {s}, FakeFollows,
         status # "up" \/ (reply[s].code = 500 /\ job'[s] = NoJob)
  PROVE  ffs' = Mirror' /\ fake' = NoReply
BY DEF FakeFollows, Afresh

LEMMA FakeTakes ==
  ASSUME NEW s, Threads = {s}, FakeFollows, status = "up", reply[s] = NoReply,
         job[s] = NoJob, job'[s] # NoJob
  PROVE  FakeHandle(s)
<1>1. ~Afresh
  BY DEF Afresh, NoReply, Code
<1>2. QED
  BY <1>1 DEF FakeFollows

\* A step after which the response is as settled as before.
LEMMA StillForeseen ==
  ASSUME NEW s, FakeOf(s), status = "up", status' = "up", reply[s] = NoReply,
         reply'[s] = reply[s], pc[s] \in Under, pc'[s] \in Under,
         UNCHANGED <<files, job, name, ffs, fake>>, KeepsDirs',
         pc'[s] # pc[s] /\ "open" \in {pc[s], pc'[s]} => pc'[s] = "open" /\ Is(s, "PUT")
  PROVE  FakeOf(s)'
<1>1. Foreseen(s) /\ KeepsDirs /\ reply[s].code # 500
  BY DEF FakeOf, NoReply, Code
<1>2. /\ ForeseesPost(s)' <=> ForeseesPost(s)
      /\ ForeseesFile(s)' <=> ForeseesFile(s)
      /\ ForeseesGet(s)' <=> ForeseesGet(s)
      /\ ForeseesDelete(s)' <=> ForeseesDelete(s)
      /\ \A m : Is(s, m)' <=> Is(s, m)
  BY DEF ForeseesPost, ForeseesFile, ForeseesGet, ForeseesDelete, Is, Entity, Target,
     IdsIn, Ahead, Behind, Level, Expected, FakeIds
<1>3. Foreseen(s)'
  BY <1>1, <1>2 DEF Foreseen, Is
<1>4. QED
  BY <1>3 DEF FakeOf, Under, Unsettled

LEMMA FakeSettles ==
  ASSUME NEW s, status' = "up", pc'[s] \notin Unsettled, fake' # Dies,
         reply'[s].code # 500 => KeepsDirs' /\ Level' /\ AsReal(s)'
  PROVE  FakeOf(s)'
BY DEF FakeOf, Under, Unsettled, Dies, Code

LEMMA StillSettled ==
  ASSUME NEW s, FakeOf(s), status = "up", status' = "up", reply'[s] = reply[s],
         pc[s] \notin Unsettled, pc'[s] \notin Unsettled,
         DOMAIN files' = DOMAIN files, dirs' \subseteq dirs, ffs' = ffs, fake' = fake
  PROVE  FakeOf(s)'
<1>1. fake' # Dies
  BY DEF FakeOf, Dies, Code
<1>2. CASE reply[s].code = 500
  BY <1>1, <1>2, FakeSettles
<1>3. CASE reply[s].code # 500
  <2>1. KeepsDirs /\ Level /\ AsReal(s)
    BY <1>3 DEF FakeOf, Under
  <2>2. KeepsDirs' /\ Level' /\ AsReal(s)'
    BY <2>1 DEF KeepsDirs, Level, AsReal, Code, Lists
  <2>3. QED
    BY <1>1, <2>2, FakeSettles
<1>4. QED
  BY <1>2, <1>3

-----------------------------------------------------------------------------
(* The steps of a handler. *)

\* What holds whenever the thread is on its way.
LEMMA OnTheWay ==
  ASSUME NEW s, Threads = {s}, Invs(s), FakeOf(s), status = "up", pc[s] \in Under
  PROVE  /\ reply[s] = NoReply /\ reply[s].code # 500
         /\ job[s] # NoJob /\ Foreseen(s) /\ KeepsDirs
         /\ pc[s] # "exists" => job[s].uri \in Uris /\ Len(job[s].uri) \in Nat \ {0}
<1>1. reply[s] = NoReply
  BY DEF Invs, SoloOf, Answering, Under
<1>2. reply[s].code # 500
  BY <1>1 DEF NoReply, Code
<1>3. Foreseen(s) /\ KeepsDirs
  BY <1>2 DEF FakeOf
<1>4. MethodOf(s)
  BY DEF Invs, MethodInv
<1>5. job[s].method # "none"
  BY <1>4 DEF MethodOf, Under, Unsettled, Writing, Removing
<1>6. pc[s] # "exists" => job[s].uri # <<>>
  BY <1>4 DEF MethodOf, Under, Unsettled
<1>7. job[s].uri # <<>> => job[s].uri \in Uris /\ Len(job[s].uri) \in Nat \ {0}
  BY Parts DEF Invs
<1>8. QED
  BY <1>1, <1>2, <1>3, <1>5, <1>6, <1>7 DEF NoJob

\* The target of a request for a file is the path that its URI spells.
LEMMA Spelled ==
  ASSUME TypeInv, NEW s \in Threads, Asking(s), pc[s] \in Under,
         job[s].uri \in Uris, Len(job[s].uri) = 2
  PROVE  job[s].uri = Target(s)
<1> DEFINE u == job[s].uri
<1>1. u = [n \in 1..Len(u) |-> u[n]]
  BY ConstantsAssumption
<1>2. u = [n \in 1..2 |-> u[n]]
  BY <1>1
<1>3. name[s] = u[2]
  BY DEF Asking, Under, Unsettled
<1>4. Target(s) = <<u[1], u[2]>>
  BY <1>3 DEF Target, Entity
<1> HIDE DEF u
<1>5. <<u[1], u[2]>> = [n \in 1..2 |-> u[n]]
  OBVIOUS
<1>6. u = Target(s)
  BY <1>2, <1>4, <1>5
<1>7. QED
  BY <1>6 DEF u

LEMMA FakeWriter ==
  ASSUME NEW s, Threads = {s}, Invs(s), FakeOf(s), FakeFollows, status' = "up",
         WriterExists(s) \/ CreateDirectory(s) \/ Lock(s)
  PROVE  FakeOf(s)' /\ ffs' = ffs
<1>1. /\ status = "up" /\ pc[s] \in {"exists", "mkdir", "lock"} /\ pc[s] \in Under
      /\ pc'[s] \in {"mkdir", "lock", "scan", "open"} /\ pc'[s] \in Under
      /\ UNCHANGED <<files, job, name, reply>>
      /\ pc'[s] = "open" => pc[s] = "lock" /\ ~Is(s, "POST")
      /\ dirs' = dirs \/ (pc[s] = "mkdir" /\ dirs' = dirs \cup {Entity(s)})
  BY DEF WriterExists, CreateDirectory, Lock, Move, At, Goto, Under, Unsettled, Invs,
     TypeInv, TypeOK, Crash
<1>2. reply[s] = NoReply /\ job[s] # NoJob /\ Foreseen(s) /\ KeepsDirs
      /\ reply[s].code # 500
  BY <1>1, OnTheWay
<1>3. ffs' = ffs /\ fake' = fake
  BY <1>1, <1>2, FakeWaits
<1>4. MethodOf(s)
  BY DEF Invs, MethodInv
<1>5. pc'[s] = "open" => Is(s, "PUT")
  BY <1>1, <1>4 DEF MethodOf, Writing, Is
<1>6. KeepsDirs'
  <2>1. CASE dirs' = dirs
    BY <1>2, <1>3, <2>1 DEF KeepsDirs
  <2>2. CASE pc[s] = "mkdir" /\ dirs' = dirs \cup {Entity(s)}
    <3>1. Is(s, "POST") \/ Is(s, "PUT")
      BY <1>4, <2>2 DEF MethodOf, Writing, Is
    <3>2. \A i \in IdsIn(Entity(s)) : Entity(s) \in dirs
      BY DEF Invs, FilesInv, IdsIn
    <3>3. <<Entity(s)>> \in ffs
      BY <1>2, <2>2, <3>1, <3>2 DEF Foreseen, ForeseesPost, ForeseesFile, KeepsDirs
    <3>4. QED
      BY <1>2, <1>3, <2>2, <3>3 DEF KeepsDirs
  <2>3. QED
    BY <1>1, <2>1, <2>2
<1>7. QED
  BY <1>1, <1>2, <1>3, <1>5, <1>6, StillForeseen

LEMMA FakeScan ==
  ASSUME NEW s, Threads = {s}, Invs(s), FakeOf(s), FakeFollows, status' = "up",
         ScanDirectory(s)
  PROVE  FakeOf(s)' /\ ffs' = ffs
<1>0. ~\E why \in Causes : Crash(why)
  BY DEF Crash, Causes
<1>1. /\ status = "up" /\ pc[s] = "scan" /\ pc[s] \in Under /\ pc'[s] = "open"
      /\ UNCHANGED <<dirs, files, job, reply>> /\ \A i \in IdsIn(Entity(s)) : ~(i > IntMax)
  BY <1>0 DEF ScanDirectory, At, Goto, Under, Unsettled, Invs, TypeInv, TypeOK, Causes
<1>2. PICK largest \in IdsIn(Entity(s)) \cup {0} :
        /\ largest >= 0 /\ \A i \in IdsIn(Entity(s)) : i <= largest
        /\ name' = [name EXCEPT ![s] = Wrap(largest + 1)]
  BY <1>0 DEF ScanDirectory, Causes
<1>3. reply[s] = NoReply /\ job[s] # NoJob /\ Foreseen(s) /\ KeepsDirs
      /\ reply[s].code # 500
  BY <1>1, OnTheWay
<1>4. ffs' = ffs /\ fake' = fake
  BY <1>1, <1>3, FakeWaits
<1>5. Is(s, "POST")
  BY <1>1 DEF Invs, SoloOf, Asking, Is
<1>6. ForeseesPost(s)
  BY <1>1, <1>3, <1>5 DEF Foreseen
<1>7. PICK n : /\ Largest(n, IdsIn(Entity(s)))
               /\ fake = HasId(Wrap(n + 1)) /\ Ahead(<<Entity(s), Wrap(n + 1)>>)
  BY <1>1, <1>6 DEF ForeseesPost
<1>8. n = largest
  <2>1. IdsIn(Entity(s)) \subseteq Int
    BY IdsType, NamesAreIntegers DEF Invs
  <2>2. QED
    BY <1>2, <1>7, <2>1 DEF Largest
<1>9. name'[s] = Wrap(n + 1)
  BY <1>2, <1>8 DEF Invs, TypeInv, TypeOK
<1>10. ForeseesFile(s)'
  <2>1. Target(s)' = <<Entity(s), Wrap(n + 1)>> /\ Entity(s)' = Entity(s)
    BY <1>1, <1>9 DEF Target, Entity
  <2>2. <<Entity(s)>> \in ffs
    BY <1>1, <1>6 DEF ForeseesPost
  <2>3. QED
    BY <1>1, <1>4, <1>7, <1>9, <2>1, <2>2 DEF ForeseesFile, Ahead, HasId
<1>11. Foreseen(s)'
  BY <1>1, <1>5, <1>10 DEF Foreseen, Is
<1>12. KeepsDirs'
  BY <1>1, <1>3, <1>4 DEF KeepsDirs
<1>13. QED
  BY <1>1, <1>4, <1>11, <1>12 DEF FakeOf, Under, Unsettled

LEMMA FakeOpen ==
  ASSUME NEW s, Threads = {s}, Invs(s), FakeOf(s), FakeFollows, status' = "up",
         OpenFile(s) \/ OpenFails(s)
  PROVE  FakeOf(s)' /\ ffs' = ffs
<1>1. /\ status = "up" /\ pc[s] = "open" /\ pc[s] \in Under /\ pc'[s] = "unlock"
      /\ UNCHANGED <<dirs, job>>
  BY DEF OpenFile, OpenFails, Move, At, Goto, Under, Unsettled, Invs, TypeInv, TypeOK
<1>2. job[s] # NoJob /\ Foreseen(s) /\ KeepsDirs /\ reply[s].code # 500
  BY <1>1, OnTheWay
<1>3. ffs' = ffs /\ fake' = fake
  BY <1>1, <1>2, FakeWaits
<1>4. ForeseesFile(s)
  BY <1>1, <1>2 DEF Foreseen
<1>5. fake' # Dies /\ pc'[s] \notin Unsettled
  BY <1>1, <1>3, <1>4 DEF ForeseesFile, HasId, Dies, Code, Unsettled
<1>6. CASE OpenFails(s)
  <2>1. reply'[s] = Code(500)
    BY <1>6 DEF OpenFails, Settle, Invs, TypeInv, TypeOK
  <2>2. QED
    BY <1>3, <1>5, <2>1, FakeSettles DEF Code
<1>7. CASE OpenFile(s)
  <2>1. reply'[s] = HasId(name[s]) /\ files' = Put(files, Target(s), <<>>)
    BY <1>7 DEF OpenFile, Settle, Invs, TypeInv, TypeOK
  <2>2. DOMAIN files' = DOMAIN files \cup {Target(s)}
    BY <2>1, PutFile
  <2>3. Level'
    BY <1>3, <1>4, <2>2 DEF ForeseesFile, Ahead, Level
  <2>4. AsReal(s)'
    BY <1>3, <1>4, <2>1 DEF ForeseesFile, AsReal, HasId
  <2>5. KeepsDirs'
    BY <1>1, <1>2, <1>3 DEF KeepsDirs
  <2>6. QED
    BY <1>3, <1>5, <2>3, <2>4, <2>5, FakeSettles
<1>8. QED
  BY <1>6, <1>7

LEMMA FakeExists ==
  ASSUME NEW s, Threads = {s}, Invs(s), FakeOf(s), FakeTyped, FakeFollows, status' = "up",
         GetExists(s)
  PROVE  FakeOf(s)' /\ ffs' = ffs
<1> DEFINE u == job[s].uri
<1>0. ~\E why \in Causes : Crash(why)
  BY DEF Crash, Causes
<1>1. /\ status = "up" /\ pc[s] = "exists" /\ pc[s] \in Under /\ Is(s, "GET") /\ u # <<>>
      /\ UNCHANGED <<dirs, files, job, name>>
  BY <1>0 DEF GetExists, At, Under, Unsettled, Causes
<1>2. reply[s] = NoReply /\ job[s] # NoJob /\ Foreseen(s) /\ KeepsDirs
      /\ reply[s].code # 500
  BY <1>1, OnTheWay
<1>3. ffs' = ffs /\ fake' = fake
  BY <1>1, <1>2, FakeWaits
<1>4. u \in Uris /\ Len(u) \in Nat \ {0}
  BY <1>1, Parts DEF Invs
<1>5. fake = Expected(u) /\ Level
  BY <1>1, <1>2 DEF Foreseen, ForeseesGet
<1>6. KeepsDirs'
  BY <1>1, <1>2, <1>3 DEF KeepsDirs
<1>7. CASE Entity(s) \in dirs /\ ~(Len(u) > 2)
  <2>1. reply' = reply /\ pc'[s] \in {"list", "isreg"}
    BY <1>0, <1>7 DEF GetExists, Goto, Causes, Invs, TypeInv, TypeOK
  <2>2. QED
    BY <1>1, <1>2, <1>3, <1>6, <2>1, StillForeseen DEF Under, Unsettled
<1>8. CASE ~(Entity(s) \in dirs /\ ~(Len(u) > 2))
  <2>1. reply'[s] = Code(400) /\ pc'[s] = "reply"
    BY <1>0, <1>8 DEF GetExists, Goto, Causes, Invs, TypeInv, TypeOK
  <2>2. Level'
    BY <1>1, <1>3, <1>5 DEF Level
  <2>3. fake = Code(400) \/ fake = Lists({})
    <3>1. CASE <<u[1]>> \notin ffs \/ Len(u) > 2
      BY <1>1, <1>5, <3>1 DEF Expected
    <3>2. CASE <<u[1]>> \in ffs /\ Entity(s) \notin dirs /\ ~(Len(u) > 2)
      <4>1. IdsIn(Entity(s)) = {}
        BY <3>2 DEF IdsIn, Invs, FilesInv
      <4>2. FakeIds(u[1]) = {}
        BY <1>5, <4>1, SameIds DEF Invs, Entity
      <4>3. Len(u) = 1 => fake = Lists({})
        BY <1>1, <1>5, <3>2, <4>2 DEF Expected
      <4>4. u \notin ffs \/ Len(u) = 1
        <5>1. u \in ffs => u \in Paths \/ \E e \in Entities : u = <<e>>
          BY DEF FakeTyped
        <5>2. \A e : Len(<<e>>) = 1
          OBVIOUS
        <5>3. u \in Paths /\ u \in ffs => u \in DOMAIN files
          BY <1>5 DEF Level
        <5>4. u \notin DOMAIN files
          BY <3>2 DEF Invs, FilesInv, Entity
        <5>5. QED
          BY <5>1, <5>2, <5>3, <5>4
      <4>5. Len(u) # 1 => fake = Code(400)
        BY <1>1, <1>5, <3>2, <4>4 DEF Expected
      <4>6. QED
        BY <4>3, <4>5
    <3>3. QED
      BY <1>8, <3>1, <3>2
  <2>4. AsReal(s)'
    <3>1. Code(400) = [Code(400) EXCEPT !.text = Code(400).text]
      BY DEF Code
    <3>2. \/ reply'[s] = [fake' EXCEPT !.text = reply'[s].text]
          \/ reply'[s] = Code(400) /\ fake' = Lists({})
      BY <1>3, <2>1, <2>3, <3>1
    <3>3. QED
      BY <3>2 DEF AsReal, Code, Lists
  <2>5. fake' # Dies /\ pc'[s] \notin Unsettled
    BY <1>3, <2>1, <2>3 DEF Dies, Code, Lists, Unsettled
  <2>6. QED
    BY <1>3, <1>6, <2>2, <2>4, <2>5, FakeSettles
<1>9. QED
  BY <1>7, <1>8

LEMMA FakeRead ==
  ASSUME NEW s, Threads = {s}, Invs(s), FakeOf(s), FakeTyped, FakeFollows, status' = "up",
         ListDirectory(s) \/ ReadFile(s)
  PROVE  FakeOf(s)' /\ ffs' = ffs
<1> DEFINE u == job[s].uri
<1>0. ~\E why \in Causes : Crash(why)
  BY DEF Crash, Causes
<1>1. /\ status = "up" /\ pc[s] \in {"list", "read"} /\ pc[s] \in Under /\ pc'[s] = "reply"
      /\ UNCHANGED <<dirs, files, job>>
  BY <1>0 DEF ListDirectory, ReadFile, Move, At, Goto, Under, Unsettled, Causes,
     Invs, TypeInv, TypeOK
<1>2. job[s] # NoJob /\ Foreseen(s) /\ KeepsDirs /\ reply[s].code # 500
      /\ u \in Uris /\ u # <<>>
  BY <1>1, OnTheWay DEF Invs, MethodInv, MethodOf
<1>3. ffs' = ffs /\ fake' = fake
  BY <1>1, <1>2, FakeWaits
<1>4. Is(s, "GET")
  BY <1>1 DEF Invs, MethodInv, MethodOf, Is
<1>5. fake = Expected(u) /\ Level
  BY <1>2, <1>4 DEF Foreseen, ForeseesGet
<1>6. KeepsDirs' /\ Level'
  BY <1>1, <1>2, <1>3, <1>5 DEF KeepsDirs, Level
<1>7. CASE ListDirectory(s)
  <2>1. reply'[s] = Lists(IdsIn(u[1])) /\ u[1] \in dirs /\ Len(u) = 1
    <3>1. Below(u[1]) = {}
      BY <1>2, OnlyFiles DEF Entity
    <3>2. QED
      BY <1>0, <1>7, <3>1 DEF ListDirectory, At, Settle, Entity, Causes, Invs, TypeInv,
         TypeOK, SoloOf, Asking
  <2>2. <<u[1]>> \in ffs /\ FakeIds(u[1]) = IdsIn(u[1])
    BY <1>2, <1>5, <2>1, SameIds DEF KeepsDirs, Invs
  <2>3. fake = Lists(IdsIn(u[1]))
    BY <1>2, <1>5, <2>1, <2>2 DEF Expected
  <2>4. AsReal(s)'
    BY <1>3, <2>1, <2>3 DEF AsReal, Lists
  <2>5. fake' # Dies /\ pc'[s] \notin Unsettled
    BY <1>1, <1>3, <2>3 DEF Dies, Code, Lists, Unsettled
  <2>6. QED
    BY <1>3, <1>6, <2>4, <2>5, FakeSettles
<1>8. CASE ReadFile(s)
  <2>1. /\ reply'[s] = Holds(IF Target(s) \in DOMAIN files THEN files[Target(s)] ELSE <<>>)
        /\ pc[s] = "read" /\ Len(u) = 2
    BY <1>8 DEF ReadFile, Move, At, Settle, Invs, TypeInv, TypeOK, SoloOf, Asking
  <2>2. u = Target(s)
    BY <1>1, <1>2, <2>1, Spelled DEF Invs, SoloOf
  <2>3. Target(s) \in DOMAIN files
    BY <2>1 DEF Invs, SoloOf, Seen
  <2>4. Target(s) \in Paths /\ u[1] \in dirs
    BY <2>2, <2>3 DEF Invs, TypeInv, TypeOK, FilesInv
  <2>5. u \in ffs /\ <<u[1]>> \in ffs
    BY <1>2, <1>5, <2>2, <2>3, <2>4 DEF Level, KeepsDirs
  <2>6. fake = Holds(<<>>)
    BY <1>2, <1>5, <2>1, <2>5 DEF Expected
  <2>7. AsReal(s)'
    <3>1. ASSUME NEW x PROVE Holds(x) = [Holds(<<>>) EXCEPT !.text = Holds(x).text]
      <4>1. Holds(x).text = x
        BY DEF Holds
      <4>2. \A y : [Holds(y) EXCEPT !.text = x] = Holds(x)
        BY DEF Holds
      <4>3. QED
        BY <4>1, <4>2
    <3>2. reply'[s] = [fake' EXCEPT !.text = reply'[s].text]
      BY <1>3, <2>1, <2>6, <3>1
    <3>3. QED
      BY <3>2 DEF AsReal
  <2>8. fake' # Dies /\ pc'[s] \notin Unsettled
    BY <1>1, <1>3, <2>6 DEF Dies, Code, Holds, Unsettled
  <2>9. QED
    BY <1>3, <1>6, <2>7, <2>8, FakeSettles
<1>9. QED
  BY <1>7, <1>8

LEMMA FakeIsRegular ==
  ASSUME NEW s, Threads = {s}, Invs(s), FakeOf(s), FakeTyped, FakeFollows, status' = "up",
         IsRegularFile(s)
  PROVE  FakeOf(s)' /\ ffs' = ffs
<1> DEFINE u == job[s].uri
<1>0. ~\E why \in Causes : Crash(why)
  BY DEF Crash, Causes
<1>1. /\ status = "up" /\ pc[s] = "isreg" /\ pc[s] \in Under
      /\ UNCHANGED <<dirs, files, job, name>>
  BY <1>0 DEF IsRegularFile, At, Under, Unsettled, Causes
<1>2. reply[s] = NoReply /\ job[s] # NoJob /\ Foreseen(s) /\ KeepsDirs
      /\ reply[s].code # 500 /\ u \in Uris /\ u # <<>>
  BY <1>1, OnTheWay DEF Invs, MethodInv, MethodOf
<1>3. ffs' = ffs /\ fake' = fake
  BY <1>1, <1>2, FakeWaits
<1>4. KeepsDirs'
  BY <1>1, <1>2, <1>3 DEF KeepsDirs
<1>5. CASE Target(s) \in DOMAIN files
  <2>1. reply' = reply /\ pc'[s] \in {"read", "unlink"}
    BY <1>0, <1>5 DEF IsRegularFile, Goto, Causes, Invs, TypeInv, TypeOK
  <2>2. QED
    BY <1>1, <1>2, <1>3, <1>4, <2>1, StillForeseen DEF Under, Unsettled
<1>6. CASE Target(s) \notin DOMAIN files
  <2>1. reply'[s] = Code(400) /\ pc'[s] = "reply"
    BY <1>0, <1>6 DEF IsRegularFile, Goto, Causes, Invs, TypeInv, TypeOK
  <2>2. Is(s, "GET") \/ Is(s, "DELETE")
    BY <1>1 DEF Invs, MethodInv, MethodOf, Is
  <2>3. fake = Code(400) /\ Level
    <3>1. CASE Is(s, "DELETE")
      BY <1>2, <1>6, <3>1 DEF Foreseen, ForeseesDelete, Behind, Level
    <3>2. CASE Is(s, "GET")
      <4>1. fake = Expected(u) /\ Level
        BY <1>2, <3>2 DEF Foreseen, ForeseesGet
      <4>2. Len(u) = 2
        BY <1>1 DEF Invs, SoloOf, Asking
      <4>3. u = Target(s)
        BY <1>1, <1>2, <4>2, Spelled DEF Invs, SoloOf
      <4>4. u \notin ffs
        <5>1. u \in ffs => u \in Paths \/ \E e \in Entities : u = <<e>>
          BY DEF FakeTyped
        <5>2. \A e : Len(<<e>>) = 1
          OBVIOUS
        <5>3. QED
          BY <1>6, <4>1, <4>2, <4>3, <5>1, <5>2 DEF Level
      <4>5. QED
        BY <1>2, <4>1, <4>2, <4>4 DEF Expected
    <3>3. QED
      BY <2>2, <3>1, <3>2
  <2>4. AsReal(s)' /\ Level'
    BY <1>1, <1>3, <2>1, <2>3 DEF AsReal, Level, Code
  <2>5. fake' # Dies /\ pc'[s] \notin Unsettled
    BY <1>3, <2>1, <2>3 DEF Dies, Code, Unsettled
  <2>6. QED
    BY <1>3, <1>4, <2>4, <2>5, FakeSettles
<1>7. QED
  BY <1>5, <1>6

LEMMA FakeUnlink ==
  ASSUME NEW s, Threads = {s}, Invs(s), FakeOf(s), FakeFollows, status' = "up",
         UnlinkFile(s) \/ UnlinkMissing(s)
  PROVE  FakeOf(s)' /\ ffs' = ffs
<1>0. ~\E why \in Causes : Crash(why)
  BY DEF Crash, Causes
<1>1. /\ status = "up" /\ pc[s] = "unlink" /\ pc[s] \in Under /\ pc'[s] = "isempty"
      /\ UNCHANGED <<dirs, job>>
  BY <1>0 DEF UnlinkFile, UnlinkMissing, Move, At, Goto, Under, Unsettled, Causes,
     Invs, TypeInv, TypeOK
<1>2. job[s] # NoJob /\ Foreseen(s) /\ KeepsDirs /\ reply[s].code # 500
  BY <1>1, OnTheWay
<1>3. ffs' = ffs /\ fake' = fake
  BY <1>1, <1>2, FakeWaits
<1>4. Is(s, "DELETE")
  BY <1>1 DEF Invs, MethodInv, MethodOf, Removing, Is
<1>5. /\ fake = IF Target(s) \in DOMAIN files THEN Code(200) ELSE Code(400)
      /\ Behind(Target(s))
  BY <1>2, <1>4 DEF Foreseen, ForeseesDelete
<1>6. /\ DOMAIN files' = DOMAIN files \ {Target(s)}
      /\ reply'[s] = fake
  <2>1. CASE UnlinkFile(s)
    <3>1. reply'[s] = Code(200) /\ Target(s) \in DOMAIN files
      BY <2>1 DEF UnlinkFile, Settle, Invs, TypeInv, TypeOK
    <3>2. DOMAIN files' = DOMAIN files \ {Target(s)}
      BY <2>1, CutFiles DEF UnlinkFile, Unlink
    <3>3. QED
      BY <1>5, <3>1, <3>2
  <2>2. CASE UnlinkMissing(s)
    <3>1. Target(s) \notin DOMAIN files /\ files' = files /\ reply'[s] = Code(400)
      BY <1>0, <2>2 DEF UnlinkMissing, Settle, Invs, TypeInv, TypeOK, Causes
    <3>2. QED
      BY <1>5, <3>1
  <2>3. QED
    BY <2>1, <2>2
<1>7. Level' /\ KeepsDirs'
  BY <1>1, <1>2, <1>3, <1>5, <1>6 DEF Behind, Level, KeepsDirs
<1>8. AsReal(s)' /\ fake' # Dies /\ pc'[s] \notin Unsettled
  BY <1>1, <1>3, <1>5, <1>6 DEF AsReal, Code, Dies, Unsettled
<1>9. QED
  BY <1>3, <1>7, <1>8, FakeSettles

\* What a thread does once its response is settled.
LEMMA FakeSettled ==
  ASSUME NEW s, Threads = {s}, Invs(s), FakeOf(s), FakeFollows, status' = "up",
         \/ ExplicitUnlock(s) \/ WriteFile(s) \/ DestroyLock(s)
         \/ IsEmpty(s) \/ Purge(s) \/ RemoveDirectory(s)
  PROVE  FakeOf(s)' /\ ffs' = ffs
<1>0. ~\E why \in Causes : Crash(why)
  BY DEF Crash, Causes
<1>1. /\ status = "up" /\ pc[s] \notin Unsettled /\ pc[s] # "reply" /\ pc'[s] \notin Unsettled
      /\ UNCHANGED <<job, reply>>
  <2>1. CASE ExplicitUnlock(s) \/ WriteFile(s) \/ DestroyLock(s)
    BY <2>1 DEF ExplicitUnlock, WriteFile, WriteBytes, DestroyLock, Move, At, Goto, Unsettled,
       Invs, TypeInv, TypeOK
  <2>2. CASE IsEmpty(s) \/ Purge(s) \/ RemoveDirectory(s)
    BY <1>0, <2>2 DEF IsEmpty, Purge, RemoveDirectory, Move, At, Goto, Unsettled, Causes,
       Invs, TypeInv, TypeOK
  <2>3. QED
    BY <2>1, <2>2
<1>2. job[s] # NoJob
  BY <1>1 DEF Invs, MethodInv, MethodOf, TypeInv, TypeOK, Labels, Unsettled, Writing, Removing,
     NoJob
<1>3. job'[s] # NoJob
  BY <1>1, <1>2
<1>4. ffs' = ffs /\ fake' = fake
  BY <1>1, <1>2, <1>3, FakeWaits
<1>5. DOMAIN files' = DOMAIN files /\ dirs' \subseteq dirs
  <2>1. CASE ExplicitUnlock(s) \/ DestroyLock(s)
    BY <2>1 DEF ExplicitUnlock, DestroyLock
  <2>2. CASE WriteFile(s)
    BY <2>2 DEF WriteFile, WriteBytes
  <2>3. CASE IsEmpty(s) \/ RemoveDirectory(s)
    BY <1>0, <2>3 DEF IsEmpty, RemoveDirectory, Causes
  <2>4. CASE Purge(s)
    <3>1. files' = Restrict(files, DOMAIN files \ ({Entity(s)} \X Names)) /\ dirs' = dirs
      <4>1. /\ Unlink(Contents(Entity(s))) /\ dirs' = dirs \ Below(Entity(s))
            /\ Contents(Entity(s)) = {Entity(s)} \X Names /\ Below(Entity(s)) = {}
        BY <2>4, OnlyFiles DEF Purge, Move, At, Invs, MethodInv, MethodOf
      <4>2. QED
        BY <4>1 DEF Unlink
    <3>2. IdsIn(Entity(s)) = {}
      BY <2>4 DEF Purge, Move, At, Invs, SoloOf, Seen
    <3>3. \A p \in DOMAIN files : p[1] # Entity(s)
      BY <3>2 DEF IdsIn
    <3>4. \A p \in {Entity(s)} \X Names : p[1] = Entity(s)
      OBVIOUS
    <3>5. DOMAIN files \ ({Entity(s)} \X Names) = DOMAIN files
      BY <3>3, <3>4
    <3>6. QED
      BY <3>1, <3>5, CutFiles
  <2>5. QED
    BY <2>1, <2>2, <2>3, <2>4
<1>6. QED
  BY <1>1, <1>4, <1>5, StillSettled

LEMMA FakeAgain ==
  ASSUME NEW s, pc'[s] = "idle", reply'[s] = NoReply, status' = "up",
         Level', KeepsDirs'
  PROVE  FakeOf(s)'
BY DEF FakeOf, Under, Unsettled

LEMMA FakeRespond ==
  ASSUME NEW s, Threads = {s}, Invs(s), TypeInv', FakeOf(s), FakeTyped, FakeFollows,
         Respond(s)
  PROVE  FakeOf(s)' /\ FakeTyped'
<1>1. /\ status = "up" /\ status' = "up" /\ pc[s] = "reply" /\ pc'[s] = "idle"
      /\ job'[s] = NoJob /\ reply'[s] = NoReply /\ UNCHANGED <<dirs, files>>
  BY DEF Respond, Move, At, Goto, Settle, Invs, TypeInv, TypeOK
<1>2. CASE reply[s].code = 500
  <2>1. ffs' = Mirror'
    BY <1>1, <1>2, FakeRestarts
  <2>2. QED
    BY <1>1, <2>1, MirrorLevel, FakeAgain
<1>3. CASE reply[s].code # 500
  <2>1. ffs' = ffs
    BY <1>1, <1>3, FakeWaits
  <2>2. Level /\ KeepsDirs
    BY <1>1, <1>3 DEF FakeOf, Under, Unsettled
  <2>3. Level' /\ KeepsDirs' /\ FakeTyped'
    BY <1>1, <2>1, <2>2 DEF Level, KeepsDirs, FakeTyped
  <2>4. QED
    BY <1>1, <2>3, FakeAgain
<1>4. QED
  BY <1>2, <1>3

\* The process ends; only what the fake has answered matters until it is back.
LEMMA FakeCrash ==
  ASSUME NEW s, Threads = {s}, Invs(s), TypeInv', FakeOf(s), FakeTyped, FakeFollows,
         status = "up", NEW why \in Causes, Crash(why),
         why \in {"no_entity", "out_of_range"} =>
           pc[s] \in Under /\ fake = Dies
  PROVE  FakeOf(s)' /\ FakeTyped'
<1>1. /\ status' = why /\ why # "up" /\ pc'[s] = "idle" /\ job'[s] = NoJob
  BY DEF Crash, Causes
<1>2. CASE reply[s].code = 500
  <2>1. ffs' = Mirror'
    BY <1>1, <1>2, FakeRestarts
  <2>2. pc[s] \notin Under
    <3>1. NoReply.code # 500
      BY DEF NoReply, Code
    <3>2. QED
      BY <1>2, <3>1 DEF Invs, SoloOf, Answering, Under
  <2>3. QED
    BY <1>1, <2>1, <2>2, MirrorLevel DEF FakeOf, Under, Unsettled
<1>3. CASE reply[s].code # 500
  <2>1. ffs' = ffs /\ fake' = fake
    BY <1>1, <1>3, FakeWaits
  <2>2. QED
    BY <1>1, <2>1 DEF FakeOf, FakeTyped, Unsettled, Dies, Code
<1>4. QED
  BY <1>2, <1>3

\* An exception that the fake would have thrown has been foreseen.
LEMMA FakeDies ==
  ASSUME NEW s, Threads = {s}, Invs(s), FakeOf(s), Step(s),
         status' \in {"no_entity", "out_of_range"}
  PROVE  pc[s] \in Under /\ fake = Dies
<1>1. NameNoEntity(s) \/ ScanDirectory(s)
  <2>1. ~(WriterExists(s) \/ CreateDirectory(s) \/ Lock(s) \/ OpenFile(s) \/ OpenFails(s)
          \/ ExplicitUnlock(s) \/ WriteFile(s) \/ DestroyLock(s) \/ GetExists(s))
    BY DEF WriterExists, CreateDirectory, Lock, OpenFile, OpenFails, ExplicitUnlock,
       WriteFile, WriteBytes, DestroyLock, GetExists, Move, At, Crash
  <2>2. ~(ListDirectory(s) \/ IsRegularFile(s) \/ ReadFile(s) \/ UnlinkFile(s)
          \/ UnlinkMissing(s) \/ IsEmpty(s) \/ Purge(s) \/ RemoveDirectory(s) \/ Respond(s))
    BY DEF ListDirectory, IsRegularFile, ReadFile, UnlinkFile, UnlinkMissing, IsEmpty,
       Purge, RemoveDirectory, Respond, Move, At, Crash
  <2>3. QED
    BY <2>1, <2>2 DEF Step
<1>2. CASE NameNoEntity(s)
  <2>1. status = "up" /\ pc[s] = "exists" /\ job[s].uri = <<>> /\ pc[s] \in Under
    BY <1>2 DEF NameNoEntity, At, Under, Unsettled
  <2>2. Is(s, "GET")
    BY <2>1 DEF Invs, MethodInv, MethodOf, Is
  <2>3. fake = Expected(<<>>)
    BY <2>1, <2>2, OnTheWay DEF Foreseen, ForeseesGet
  <2>4. QED
    BY <2>1, <2>3 DEF Expected
<1>3. CASE ScanDirectory(s)
  <2>1. status = "up" /\ pc[s] = "scan" /\ pc[s] \in Under /\ status' # "no_dir"
    BY <1>3 DEF ScanDirectory, At, Under, Unsettled
  <2>2. \E i \in IdsIn(Entity(s)) : i > IntMax
    BY <1>3, <2>1 DEF ScanDirectory, Crash
  <2>3. Is(s, "POST")
    BY <2>1 DEF Invs, SoloOf, Asking, Is
  <2>4. ForeseesPost(s)
    BY <2>1, <2>3, OnTheWay DEF Foreseen
  <2>5. IdsIn(Entity(s)) \subseteq Int /\ IntMax \in Int
    BY IdsType, NamesAreIntegers DEF Invs
  <2>6. QED
    BY <2>1, <2>2, <2>4, <2>5 DEF ForeseesPost
<1>4. QED
  BY <1>1, <1>2, <1>3

-----------------------------------------------------------------------------
(* A request arrives: the fake answers it. *)

LEMMA FakeBegin ==
  ASSUME NEW s, Threads = {s}, Invs(s), TypeInv', FakeOf(s), FakeTyped, FakeFollows,
         HandleRequest(s)
  PROVE  FakeOf(s)' /\ FakeTyped'
<1>1. /\ status = "up" /\ status' = "up" /\ pc[s] = "idle" /\ job[s] = NoJob
      /\ reply[s] = NoReply /\ reply[s].code # 500 /\ UNCHANGED <<dirs, files>>
  <2>1. status = "up"
    BY DEF HandleRequest, HandlePost, HandlePut, HandleGet, HandleDelete, Refuse, Accept,
       Begin, At
  <2>2. UNCHANGED <<status, dirs, files>> /\ pc[s] = "idle"
    BY BeginFrame DEF Invs
  <2>3. job[s] = NoJob /\ reply[s] = NoReply
    BY <2>2 DEF Invs, SoloOf, Answering, Unsettled
  <2>4. NoReply.code # 500
    BY DEF NoReply, Code
  <2>5. QED
    BY <2>1, <2>2, <2>3, <2>4
<1>2. Level /\ KeepsDirs
  BY <1>1 DEF FakeOf, Under
<1>3. ASSUME NEW j, NEW label, Begin(s, j, label)
      PROVE  /\ pc'[s] = label /\ job'[s] = j
             /\ name'[s] = IF Len(j.uri) = 2 THEN j.uri[2] ELSE 0
  BY <1>3 DEF Begin, Goto, Invs, TypeInv, TypeOK
<1>4. ASSUME job'[s] # NoJob, reply'[s] = NoReply
      PROVE  \/ Is(s, "POST")' /\ FakePost(job'[s].uri[1])
             \/ Is(s, "PUT")' /\ FakePut(job'[s].uri[1], job'[s].uri[2])
             \/ Is(s, "GET")' /\ FakeGet(job'[s].uri)
             \/ Is(s, "DELETE")' /\ FakeDelete(job'[s].uri[1], job'[s].uri[2])
  <2>1. FakeHandle(s)
    BY <1>1, <1>4, FakeTakes
  <2>2. NoReply.code # 400
    BY DEF NoReply, Code
  <2>3. QED
    BY <1>4, <2>1, <2>2 DEF FakeHandle, Is
<1>5. ASSUME KeepsDirs', Foreseen(s)', pc'[s] \in Under, reply'[s] = NoReply
      PROVE  FakeOf(s)'
  BY <1>1, <1>5 DEF FakeOf, Under, Unsettled
<1>6. \A u \in Uris : /\ Len(u) = 1 => u[1] \in Entities
                     /\ Len(u) = 2 => u[1] \in Entities /\ u[2] \in Ids \cup {NotNumber}
  BY ConstantsAssumption
<1>7. \A e : FakeIds(e) = IdsIn(e)
  BY <1>2, SameIds DEF Invs
<1>8. PICK m \in Methods, uri \in Uris :
        \/ m = "POST" /\ \E b \in Bodies : HandlePost(s, uri, b)
        \/ m = "PUT" /\ \E b \in Bodies : HandlePut(s, uri, b)
        \/ m = "GET" /\ HandleGet(s, uri)
        \/ m = "DELETE" /\ HandleDelete(s, uri)
        \/ Refuse(s, m, uri)
  BY DEF HandleRequest
<1>9. CASE \E b \in Bodies : HandlePost(s, uri, b)
  <2>1. PICK b \in Bodies :
          /\ Begin(s, [method |-> "POST", uri |-> uri, body |-> b], "exists")
          /\ reply' = reply /\ Len(uri) = 1
    BY <1>9 DEF HandlePost, Accept
  <2>2. /\ pc'[s] = "exists" /\ job'[s] = [method |-> "POST", uri |-> uri, body |-> b]
        /\ reply'[s] = NoReply /\ pc'[s] \in Under
    BY <1>1, <1>3, <2>1 DEF Under, Unsettled
  <2>3. job'[s] # NoJob /\ job'[s].method = "POST" /\ job'[s].uri = uri
    BY <2>2 DEF NoJob
  <2>4. FakePost(uri[1])
    BY <1>4, <2>2, <2>3 DEF Is
  <2>e. uri[1] \in Entities
    <3>1. Len(uri) >= 1
      BY <2>1
    <3>2. QED
      BY <3>1, ConstantsAssumption
  <2>5. ForeseesPost(s)' /\ KeepsDirs' /\ FakeTyped'
    <3>0. Entity(s)' = uri[1] /\ IdsIn(Entity(s))' = IdsIn(uri[1])
      BY <1>1, <2>3 DEF Entity, IdsIn
    <3>1. CASE \E i \in FakeIds(uri[1]) : i > IntMax
      <4>1. fake' = Dies /\ ffs' = ffs
        BY <2>4, <3>1 DEF FakePost
      <4>2. QED
        BY <1>1, <1>2, <1>7, <3>0, <3>1, <4>1 DEF ForeseesPost, KeepsDirs, FakeTyped, Dies, Code
    <3>2. CASE ~\E i \in FakeIds(uri[1]) : i > IntMax
      <4>1. PICK n \in IdsIn(uri[1]) \cup {0} :
              /\ n >= 0 /\ \A i \in IdsIn(uri[1]) : i <= n
              /\ ffs' = ffs \cup {<<uri[1]>>, <<uri[1], Wrap(n + 1)>>}
              /\ fake' = HasId(Wrap(n + 1))
        BY <1>7, <2>4, <3>2 DEF FakePost
      <4>2. IdsIn(uri[1]) \subseteq Int /\ IntMax \in Nat \ {0}
        BY IdsType, NamesAreIntegers, ConstantsAssumption DEF Invs
      <4>3. \A i \in IdsIn(uri[1]) : i <= IntMax
        BY <1>7, <3>2, <4>2
      <4>4. n \in 0..IntMax
        BY <4>1, <4>2, <4>3
      <4>5. Wrap(n + 1) \in Names
        BY <4>4, WrapType
      <4> DEFINE k == Wrap(n + 1)
      <4> HIDE DEF k
      <4>6. ffs' = ffs \cup {<<uri[1]>>, <<uri[1], k>>} /\ fake' = HasId(k) /\ k \in Names
        BY <4>1, <4>5 DEF k
      <4>7. FakeTyped'
        <5>1. uri[1] \in Entities
          BY <2>e
        <5>2. <<uri[1]>> \in {<<e>> : e \in Entities}
          BY <5>1
        <5>3. <<uri[1], k>> \in Paths
          BY <4>6, <5>1 DEF Paths
        <5>4. QED
          BY <4>6, <5>2, <5>3 DEF FakeTyped
      <4>8. KeepsDirs'
        BY <1>1, <1>2, <4>6 DEF KeepsDirs
      <4>9. \A p \in Paths : p \in ffs' <=> p \in DOMAIN files' \/ p = <<uri[1], k>>
        BY <1>1, <1>2, <4>6, NoDirectoryIsAPath DEF Level
      <4>10. Ahead(<<uri[1], k>>)'
        BY <4>9 DEF Ahead
      <4>11. Largest(n, IdsIn(uri[1]))
        BY <4>1 DEF Largest
      <4>12. fake' = HasId(Wrap(n + 1)) /\ \A p \in Paths :
               p \in ffs' <=> p \in DOMAIN files' \/ p = <<uri[1], Wrap(n + 1)>>
        BY <4>6, <4>9 DEF k
      <4>13. <<uri[1]>> \in ffs'
        BY <4>6
      <4>14. ForeseesPost(s)'
        BY <3>0, <4>3, <4>11, <4>12, <4>13 DEF ForeseesPost, Ahead, Largest, HasId, Wrap
      <4>15. QED
        BY <4>7, <4>8, <4>14
    <3>3. QED
      BY <3>1, <3>2
  <2>6. Foreseen(s)'
    BY <2>2, <2>3, <2>5 DEF Foreseen, Is
  <2>7. QED
    BY <1>5, <2>2, <2>5, <2>6
<1>10. CASE \E b \in Bodies : HandlePut(s, uri, b)
  <2>1. PICK b \in Bodies :
          /\ Begin(s, [method |-> "PUT", uri |-> uri, body |-> b], "exists")
          /\ reply' = reply /\ Len(uri) = 2 /\ uri[2] # NotNumber
    BY <1>10 DEF HandlePut, Accept, IsFileNumber
  <2>2. /\ pc'[s] = "exists" /\ job'[s] = [method |-> "PUT", uri |-> uri, body |-> b]
        /\ name'[s] = uri[2] /\ reply'[s] = NoReply /\ pc'[s] \in Under
    BY <1>1, <1>3, <2>1 DEF Under, Unsettled
  <2>3. job'[s] # NoJob /\ job'[s].method = "PUT" /\ job'[s].uri = uri
    BY <2>2 DEF NoJob
  <2>4. FakePut(uri[1], uri[2])
    BY <1>4, <2>2, <2>3 DEF Is
  <2>5. uri[1] \in Entities /\ uri[2] \in Names
    BY <1>6, <2>1 DEF Names
  <2>6. FakeTyped' /\ KeepsDirs'
    BY <1>1, <1>2, <2>4, <2>5 DEF FakePut, FakeTyped, KeepsDirs, Paths
  <2>7. Target(s)' = <<uri[1], uri[2]>> /\ Entity(s)' = uri[1]
    BY <2>2, <2>3 DEF Target, Entity
  <2>8. ForeseesFile(s)'
    <3>1. \A p \in Paths : p \in ffs' <=> p \in DOMAIN files' \/ p = <<uri[1], uri[2]>>
      BY <1>1, <1>2, <2>4, NoDirectoryIsAPath DEF FakePut, Level
    <3>2. QED
      BY <2>2, <2>4, <2>7, <3>1 DEF FakePut, ForeseesFile, Ahead, HasId
  <2>9. Foreseen(s)'
    BY <2>2, <2>3, <2>8 DEF Foreseen, Is
  <2>10. QED
    BY <1>5, <2>2, <2>6, <2>9
<1>11. CASE HandleGet(s, uri)
  <2>1. /\ Begin(s, [method |-> "GET", uri |-> uri, body |-> <<>>], "exists")
        /\ reply' = reply
    BY <1>11 DEF HandleGet, Accept
  <2>2. /\ pc'[s] = "exists" /\ job'[s] = [method |-> "GET", uri |-> uri, body |-> <<>>]
        /\ reply'[s] = NoReply /\ pc'[s] \in Under
    BY <1>1, <1>3, <2>1 DEF Under, Unsettled
  <2>3. job'[s] # NoJob /\ job'[s].method = "GET" /\ job'[s].uri = uri
    BY <2>2 DEF NoJob
  <2>4. ffs' = ffs /\ fake' = Expected(uri)
    BY <1>4, <2>2, <2>3 DEF Is, FakeGet, Expected
  <2>5. FakeTyped' /\ KeepsDirs' /\ Level'
    BY <1>1, <1>2, <2>4 DEF FakeTyped, KeepsDirs, Level
  <2>6. ForeseesGet(s)'
    BY <2>3, <2>4, <2>5 DEF ForeseesGet, Expected, FakeIds
  <2>7. Foreseen(s)'
    BY <2>2, <2>3, <2>6 DEF Foreseen, Is
  <2>8. QED
    BY <1>5, <2>2, <2>5, <2>7
<1>12. CASE HandleDelete(s, uri)
  <2>1. /\ Begin(s, [method |-> "DELETE", uri |-> uri, body |-> <<>>], "isreg")
        /\ reply' = reply /\ Len(uri) = 2 /\ uri[2] # NotNumber
    BY <1>12 DEF HandleDelete, Accept, IsFileNumber
  <2>2. /\ pc'[s] = "isreg" /\ job'[s] = [method |-> "DELETE", uri |-> uri, body |-> <<>>]
        /\ name'[s] = uri[2] /\ reply'[s] = NoReply /\ pc'[s] \in Under
    BY <1>1, <1>3, <2>1 DEF Under, Unsettled
  <2>3. job'[s] # NoJob /\ job'[s].method = "DELETE" /\ job'[s].uri = uri
    BY <2>2 DEF NoJob
  <2>4. FakeDelete(uri[1], uri[2])
    BY <1>4, <2>2, <2>3 DEF Is
  <2>5. <<uri[1], uri[2]>> \in Paths
    BY <1>6, <2>1 DEF Names, Paths
  <2>6. FakeTyped' /\ KeepsDirs'
    BY <1>1, <1>2, <2>4, <2>5, NoDirectoryIsAPath DEF FakeDelete, FakeTyped, KeepsDirs
  <2>7. Target(s)' = <<uri[1], uri[2]>>
    BY <2>2, <2>3 DEF Target, Entity
  <2>8. ForeseesDelete(s)'
    <3>1. \A p \in Paths : p \in ffs' <=> p \in DOMAIN files' /\ p # <<uri[1], uri[2]>>
      BY <1>1, <1>2, <2>4 DEF FakeDelete, Level
    <3>2. fake' = IF <<uri[1], uri[2]>> \in DOMAIN files' THEN Code(200) ELSE Code(400)
      BY <1>1, <1>2, <2>4, <2>5 DEF FakeDelete, Level
    <3>3. QED
      BY <2>7, <3>1, <3>2 DEF ForeseesDelete, Behind, Code
  <2>9. Foreseen(s)'
    BY <2>2, <2>3, <2>8 DEF Foreseen, Is
  <2>10. QED
    BY <1>5, <2>2, <2>6, <2>9
<1>13. CASE Refuse(s, m, uri)
  <2>1. /\ pc'[s] = "reply" /\ job'[s] = [method |-> m, uri |-> <<>>, body |-> <<>>]
        /\ reply'[s] = Code(400)
    BY <1>3, <1>13 DEF Refuse, Settle, Invs, TypeInv, TypeOK
  <2>2. job'[s] # NoJob
    BY <2>1, MethodsAssumption
  <2>3. FakeHandle(s)
    BY <1>1, <2>2, FakeTakes
  <2>4. fake' = Code(400) /\ ffs' = ffs
    <3>1. Code(400) # NoReply
      BY DEF NoReply, Code
    <3>2. QED
      BY <2>1, <2>3, <3>1 DEF FakeHandle
  <2>5. FakeTyped' /\ KeepsDirs' /\ Level'
    BY <1>1, <1>2, <2>4 DEF FakeTyped, KeepsDirs, Level
  <2>6. AsReal(s)' /\ fake' # Dies /\ pc'[s] \notin Unsettled
    BY <2>1, <2>4 DEF AsReal, Code, Dies, Unsettled
  <2>7. QED
    BY <1>1, <2>5, <2>6, FakeSettles
<1>14. QED
  BY <1>8, <1>9, <1>10, <1>11, <1>12, <1>13

-----------------------------------------------------------------------------

LEMMA FakeStep ==
  ASSUME NEW s, Threads = {s}, Invs(s), TypeInv', FakeOf(s), FakeTyped, FakeFollows,
         Step(s)
  PROVE  FakeOf(s)' /\ FakeTyped'
<1>1. CASE status' # "up"
  <2>1. PICK why \in Causes : Crash(why)
    BY <1>1, CrashIdles
  <2>2. status' = why
    BY <2>1 DEF Crash
  <2>3. status = "up"
    BY DEF Step, WriterExists, CreateDirectory, Lock, ScanDirectory, OpenFile, OpenFails,
       ExplicitUnlock, WriteFile, WriteBytes, DestroyLock, NameNoEntity, GetExists,
       ListDirectory, IsRegularFile, ReadFile, UnlinkFile, UnlinkMissing, IsEmpty, Purge,
       RemoveDirectory, Respond, Move, At
  <2>4. why \in {"no_entity", "out_of_range"} => pc[s] \in Under /\ fake = Dies
    BY <2>2, FakeDies
  <2>5. QED
    BY <2>1, <2>3, <2>4, FakeCrash
<1>2. CASE status' = "up" /\ ~Respond(s)
  <2>1. ~NameNoEntity(s)
    BY <1>2 DEF NameNoEntity, Crash
  <2>2. FakeOf(s)' /\ ffs' = ffs
    BY <1>2, <2>1, FakeWriter, FakeScan, FakeOpen, FakeExists, FakeRead, FakeIsRegular,
       FakeUnlink, FakeSettled DEF Step
  <2>3. QED
    BY <2>2 DEF FakeTyped
<1>3. CASE Respond(s)
  BY <1>3, FakeRespond
<1>4. QED
  BY <1>1, <1>2, <1>3

LEMMA FakeStays ==
  ASSUME NEW s, FakeOf(s), FakeTyped, UNCHANGED vars, UNCHANGED <<ffs, fake>>
  PROVE  FakeOf(s)' /\ FakeTyped'
<1>1. UNCHANGED <<status, dirs, files, pc, job, name, reply, ffs, fake>>
  BY DEF vars
<1>2. /\ ForeseesPost(s)' <=> ForeseesPost(s)
      /\ ForeseesFile(s)' <=> ForeseesFile(s)
      /\ ForeseesGet(s)' <=> ForeseesGet(s)
      /\ ForeseesDelete(s)' <=> ForeseesDelete(s)
      /\ \A m : Is(s, m)' <=> Is(s, m)
  BY <1>1 DEF ForeseesPost, ForeseesFile, ForeseesGet, ForeseesDelete, Is, Entity, Target,
     IdsIn, Ahead, Behind, Level, Expected, FakeIds
<1>3. /\ Foreseen(s)' <=> Foreseen(s)
      /\ AsReal(s)' <=> AsReal(s)
      /\ (Level' <=> Level) /\ (KeepsDirs' <=> KeepsDirs)
  BY <1>1, <1>2 DEF Foreseen, AsReal, Level, KeepsDirs, Is
<1>4. QED
  BY <1>1, <1>3 DEF FakeOf, FakeTyped

LEMMA FakeNextInv ==
  ASSUME NEW s, Threads = {s}, Invs(s), Asleep, TypeInv', FakeOf(s), FakeTyped,
         [FakeNext]_<<vars, fakeVars>>
  PROVE  FakeOf(s)' /\ FakeTyped'
<1>1. CASE UNCHANGED <<vars, fakeVars>>
  BY <1>1, FakeStays DEF fakeVars
<1>2. CASE FakeNext
  <2>1. FakeFollows /\ Next
    BY <1>2 DEF FakeNext
  <2>2. CASE HandleRequest(s)
    BY <2>1, <2>2, FakeBegin
  <2>3. CASE Step(s)
    BY <2>1, <2>3, FakeStep
  <2>4. CASE Signal
    <3>1. status = "up" /\ Crash("signal") /\ "signal" \in Causes
      BY <2>4 DEF Signal, Causes
    <3>2. QED
      BY <2>1, <3>1, FakeCrash
  <2>5. CASE Restart
    <3>1. /\ status # "up" /\ status' = "up" /\ pc'[s] = "idle" /\ reply'[s] = NoReply
      <4>1. status # "up" /\ status' = "up" /\ UNCHANGED <<pc, reply>>
        BY <2>5 DEF Restart
      <4>2. pc[s] = "idle"
        BY <4>1 DEF Asleep
      <4>3. reply[s] = NoReply
        BY <4>2 DEF Invs, SoloOf, Answering, Unsettled
      <4>4. QED
        BY <4>1, <4>2, <4>3
    <3>2. ffs' = Mirror'
      BY <2>1, <3>1, FakeRestarts
    <3>3. QED
      BY <3>1, <3>2, MirrorLevel, FakeAgain
  <2>6. CASE Quiescent
    <3>1. /\ status = "up" /\ pc[s] = "idle" /\ UNCHANGED vars
      BY <2>6 DEF Quiescent
    <3>2. job[s] = NoJob /\ reply[s] = NoReply /\ UNCHANGED job
      BY <3>1 DEF Invs, SoloOf, Answering, Unsettled, vars
    <3>3. ffs' = ffs /\ fake' = fake
      BY <2>1, <3>1, <3>2, FakeWaits DEF NoReply, Code
    <3>4. QED
      BY <3>1, <3>3, FakeStays
  <2>7. QED
    BY <2>1, <2>2, <2>3, <2>4, <2>5, <2>6 DEF Next
<1>3. QED
  BY <1>1, <1>2

LEMMA FakeStart ==
  ASSUME NEW s, Threads = {s}, FakeInit, TypeInv
  PROVE  FakeOf(s) /\ FakeTyped
<1>1. /\ status = "up" /\ pc[s] = "idle" /\ ffs = {<<e>> : e \in dirs} \cup DOMAIN files
  BY DEF FakeInit, Init, Mirror
<1>2. dirs \subseteq Entities /\ DOMAIN files \subseteq Paths
  BY DEF TypeInv, TypeOK
<1>3. FakeTyped /\ Level /\ KeepsDirs
  BY <1>1, <1>2, NoDirectoryIsAPath DEF FakeTyped, Level, KeepsDirs
<1>4. QED
  BY <1>1, <1>3 DEF FakeOf, Under, Unsettled

\* FakeAnswersAlike: what the tests of ApiHandler see over FakeFileSystem
\* (fake_file_system.cc, request_handler_test.cc:182-500) is what a client sees
\* over the disk, request by request and for as long as the process is up.
THEOREM FakeAlike ==
  ASSUME NEW s, Threads = {s}, NoneHere
  PROVE  FakeSpec => []FakeAnswersAlike
<1> DEFINE Inv == /\ Invs(s) /\ Asleep
                  /\ FakeOf(s) /\ FakeTyped
<1>1. FakeInit => Inv
  <2>1. Init => Invs(s) /\ Asleep
    BY TypeInit, DiskInit, SoloInit DEF Init, Invs, Asleep, MethodInv, MethodOf, Writing,
       Removing
  <2>2. QED
    BY <2>1, FakeStart DEF FakeInit, Invs
<1>2. Inv /\ [FakeNext]_<<vars, fakeVars>> => Inv'
  <2> SUFFICES ASSUME Inv, [FakeNext]_<<vars, fakeVars>> PROVE Inv'
    OBVIOUS
  <2>1. [Next]_vars
    BY DEF FakeNext
  <2>2. Invs(s)' /\ Asleep'
    BY <2>1, TypeNext, AsleepNext, DiskNext, MethodNext, SoloNext DEF Invs
  <2>3. QED
    BY <2>2, FakeNextInv DEF Invs
<1>3. Inv => FakeAnswersAlike
  <2> SUFFICES ASSUME Inv PROVE FakeAnswersAlike
    OBVIOUS
  <2>1. pc[s] = "reply" => status = "up" /\ pc[s] \notin Unsettled
    BY DEF Asleep, Unsettled
  <2>2. QED
    BY <2>1 DEF FakeOf, AsReal, FakeAnswersAlike
<1>4. QED
  BY <1>1, <1>2, <1>3, PTL DEF FakeSpec
=============================================================================
