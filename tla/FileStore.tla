------------------------------ MODULE FileStore ------------------------------
(***************************************************************************)
(* The CRUD API of the server: ApiHandler (request_handler/api_handler.cc) *)
(* over RealFileSystem (real_file_system.cc), run by the threads of the    *)
(* server's io_service.  A handler runs to its end on one thread, so a     *)
(* thread serves one request at a time; every system call a handler makes  *)
(* is a step of its own, and the steps of different threads interleave.    *)
(*                                                                         *)
(* The disk (dirs, files) survives the process; everything else is lost    *)
(* when an exception escapes a handler, because nothing between            *)
(* io_service::run and the file system catches one: the process ends.  A   *)
(* signal ends it, too, at any time.                                       *)
(***************************************************************************)
EXTENDS Integers, Sequences, FiniteSets, Functions

CONSTANTS
  Threads,      \* the threads that run io_service::run
  Entities,     \* directory names a client uses below data_path
  Here,         \* ".", which a client may use for one: data_path itself
  Ids,          \* file numbers a client may name in a URI
  NotNumber,    \* a file name in a URI that is not a string of digits
  TooLong,      \* entities and numbers longer than a file's name may be
  Bytes,        \* the bytes bodies are made of
  Bodies,       \* request bodies
  Methods,      \* HTTP methods clients use
  Uris,         \* what split leaves of a request target: sequences of parts
  IntMax,       \* the largest int, 2^31 - 1 in the build
  Free,         \* the mutex is not held
  LeftOver,     \* paths that may already be on disk when the server starts
  DiskMayFill,  \* the disk may have no room for a directory or all of a body
  MaxRequests   \* bound: requests sent in a behaviour

IntMin == -IntMax - 1
Names  == Ids \cup 1..IntMax \cup {IntMin}
Paths  == Entities \X Names

ASSUME ConstantsAssumption ==
  /\ Ids \subseteq Nat /\ IntMax \in Nat \ {0} /\ NotNumber \notin Names
  /\ Bodies \subseteq Seq(Bytes) /\ <<>> \in Bodies
  /\ Free \notin Threads
  /\ LeftOver \subseteq (Entities \ TooLong) \X (Ids \ TooLong)
  /\ Here \notin TooLong /\ TooLong \cap (1..IntMax) = {}
  /\ \A u \in Uris : /\ Len(u) \in Nat /\ u = [n \in 1..Len(u) |-> u[n]]
                     /\ Len(u) >= 1 => u[1] \in Entities
                     /\ Len(u) >= 2 => u[2] \in Ids \cup {NotNumber}
  /\ MaxRequests \in Nat /\ DiskMayFill \in BOOLEAN

NoJob   == [method |-> "none", uri |-> <<>>, body |-> <<>>]
NoFile  == <<>>

\* Responses: a status alone, {"id": i}, a listing, the contents of a file.
\* A listing of "." has the names of the entities in it, too.
Code(c)   == [code |-> c, id |-> 0, ids |-> {}, text |-> <<>>]
HasId(i)  == [code |-> 200, id |-> i, ids |-> {}, text |-> <<>>]
Lists(I)  == [code |-> 200, id |-> 0, ids |-> I, text |-> <<>>]
Holds(b)  == [code |-> 200, id |-> 0, ids |-> {}, text |-> b]
NoReply   == Code(0)

Jobs    == [method : Methods, uri : Uris \cup {<<>>}, body : Bodies] \cup {NoJob}
Replies == [code : {0, 200, 400, 500}, id : Names \cup {0},
            ids : SUBSET (Names \cup Entities), text : Seq(Bytes)]

VARIABLES
  status,   \* "up", or the reason the process died
  dirs,     \* the entity directories that exist; data_path always does
  files,    \* the regular files: path -> contents
  lock,     \* file_creation_mutex_: the thread that locked it, or Free
  pc,       \* what each thread does next
  job,      \* the request each thread serves
  name,     \* the file number each request works on, 0 before there is one
  open,     \* the file each thread holds open for writing; NoFile if it
            \* holds none, or if the file it holds was unlinked
  reply,    \* the response each handler will return, once it is settled
  begun,    \* the number of requests received
  stray,    \* history: a thread has freed the mutex while another held it
  deleted   \* history: this process has accepted a DELETE

disk    == <<dirs, files>>
threads == <<pc, job, name, open, reply>>
vars    == <<status, dirs, files, lock, pc, job, name, open, reply,
             begun, stray, deleted>>

Causes == {"no_entity", "too_long", "no_dir", "no_file", "no_room", "not_empty",
           "not_removed", "no_number", "out_of_range", "signal"}
Labels == {"idle", "exists", "mkdir", "lock", "scan", "open", "unlock", "write",
           "dtor", "list", "isreg", "read", "unlink", "isempty", "purge",
           "rmdir", "reply"}

TypeOK ==
  /\ status \in {"up"} \cup Causes
  /\ dirs \subseteq Entities
  /\ DOMAIN files \subseteq Paths
  /\ files \in [DOMAIN files -> Seq(Bytes)]
  /\ lock \in Threads \cup {Free}
  /\ pc \in [Threads -> Labels]
  /\ job \in [Threads -> Jobs]
  /\ name \in [Threads -> Names \cup {0}]
  /\ open \in [Threads -> Paths \cup {NoFile}]
  /\ reply \in [Threads -> Replies]
  /\ begun \in 0..MaxRequests
  /\ stray \in BOOLEAN /\ deleted \in BOOLEAN

\* An earlier run of the server may have left files behind.
Init ==
  /\ status = "up" /\ begun = 0
  /\ \E P \in SUBSET LeftOver, b \in Bodies :
       /\ files = [p \in P |-> b]
       /\ dirs = {p[1] : p \in P} \cup (Entities \cap {Here})
  /\ lock = Free
  /\ pc = [t \in Threads |-> "idle"]
  /\ job = [t \in Threads |-> NoJob]
  /\ name = [t \in Threads |-> 0]
  /\ open = [t \in Threads |-> NoFile]
  /\ reply = [t \in Threads |-> NoReply]
  /\ stray = FALSE /\ deleted = FALSE

-----------------------------------------------------------------------------
(* Vocabulary of the handlers. *)

Entity(t) == job[t].uri[1]
Target(t) == <<Entity(t), name[t]>>
Is(t, m)  == job[t].method = m
IdsIn(e)  == {p[2] : p \in {q \in DOMAIN files : q[1] = e}}

\* What else is in a directory: the entities are in data_path.
Below(e)    == IF e = Here THEN dirs \ {Here} ELSE {}
Contents(e) == IF e = Here THEN Paths ELSE {e} \X Names

\* The function f with the value v at p, a new argument or an old one.
Put(f, p, v) == [q \in DOMAIN f \cup {p} |-> IF q = p THEN v ELSE f[q]]

At(t, label) == status = "up" /\ pc[t] = label
Goto(t, label) == pc' = [pc EXCEPT ![t] = label]
Move(t, from, to) == At(t, from) /\ Goto(t, to)

Settle(t, r) == reply' = [reply EXCEPT ![t] = r]

\* Unlinked files leave the directory; a thread that holds one open keeps
\* writing to it, and nobody can see what it writes.
Unlink(P) ==
  /\ files' = Restrict(files, DOMAIN files \ P)
  /\ open' = [t \in Threads |-> IF open[t] \in P THEN NoFile ELSE open[t]]

\* An exception leaves a handler: std::terminate, only the disk is left.
Crash(why) ==
  /\ status' = why
  /\ lock' = Free
  /\ pc' = [t \in Threads |-> "idle"]
  /\ job' = [t \in Threads |-> NoJob]
  /\ name' = [t \in Threads |-> 0]
  /\ open' = [t \in Threads |-> NoFile]
  /\ reply' = [t \in Threads |-> NoReply]
  /\ UNCHANGED <<dirs, files, begun, stray, deleted>>

-----------------------------------------------------------------------------
(* ApiHandler::handle_request: a thread takes up a request. *)

Begin(t, j, label) ==
  /\ At(t, "idle") /\ begun < MaxRequests
  /\ begun' = begun + 1
  /\ job' = [job EXCEPT ![t] = j]
  /\ name' = [name EXCEPT ![t] = IF Len(j.uri) = 2 THEN j.uri[2] ELSE 0]
  /\ Goto(t, label)
  /\ UNCHANGED <<status, dirs, files, lock, open, stray>>

Accept(t, j, label) == Begin(t, j, label) /\ UNCHANGED reply

IsFileNumber(uri) == Len(uri) = 2 => uri[2] # NotNumber

HandlePost(t, uri, b) ==
  /\ IsFileNumber(uri) /\ Len(uri) = 1
  /\ Accept(t, [method |-> "POST", uri |-> uri, body |-> b], "exists")
  /\ UNCHANGED deleted

HandlePut(t, uri, b) ==
  /\ IsFileNumber(uri) /\ Len(uri) = 2
  /\ Accept(t, [method |-> "PUT", uri |-> uri, body |-> b], "exists")
  /\ UNCHANGED deleted

HandleGet(t, uri) ==
  /\ IsFileNumber(uri)
  /\ Accept(t, [method |-> "GET", uri |-> uri, body |-> <<>>], "exists")
  /\ UNCHANGED deleted

HandleDelete(t, uri) ==
  /\ IsFileNumber(uri) /\ Len(uri) = 2
  /\ Accept(t, [method |-> "DELETE", uri |-> uri, body |-> <<>>], "isreg")
  /\ deleted' = TRUE

Understood(m, uri) ==
  /\ IsFileNumber(uri)
  /\ \/ m = "GET"
     \/ m = "POST" /\ Len(uri) = 1
     \/ m \in {"PUT", "DELETE"} /\ Len(uri) = 2

\* 400 without touching the file system: a bad number of parts, a file name
\* that is not a number, a method that is none of the four.
Refuse(t, m, uri) ==
  /\ ~Understood(m, uri)
  /\ Begin(t, [method |-> m, uri |-> <<>>, body |-> <<>>], "reply")
  /\ Settle(t, Code(400))
  /\ UNCHANGED deleted

HandleRequest(t) ==
  \E m \in Methods, uri \in Uris :
    \/ m = "POST" /\ \E b \in Bodies : HandlePost(t, uri, b)
    \/ m = "PUT" /\ \E b \in Bodies : HandlePut(t, uri, b)
    \/ m = "GET" /\ HandleGet(t, uri)
    \/ m = "DELETE" /\ HandleDelete(t, uri)
    \/ Refuse(t, m, uri)

-----------------------------------------------------------------------------
(* RealFileSystem::write_file and gen_id_and_write_file (PUT and POST). *)

\* Mutant: the test of exists(directory) is negated.
WriterExistsNegated(t) ==
  /\ job[t].method \in {"POST", "PUT"}
  /\ At(t, "exists")
  /\ IF Entity(t) \in TooLong THEN Crash("too_long")
     ELSE /\ Goto(t, IF Entity(t) \in dirs THEN "mkdir" ELSE "lock")
          /\ UNCHANGED <<status, dirs, files, lock, job, name, open, reply,
                         begun, stray, deleted>>

\* if (exists(directory) == false) create_directory(directory), outside the
\* lock; exists throws where the system can not look a name up.
WriterExists(t) ==
  /\ job[t].method \in {"POST", "PUT"}
  /\ At(t, "exists")
  /\ IF Entity(t) \in TooLong THEN Crash("too_long")
     ELSE /\ Goto(t, IF Entity(t) \in dirs THEN "lock" ELSE "mkdir")
          /\ UNCHANGED <<status, dirs, files, lock, job, name, open, reply,
                         begun, stray, deleted>>

\* create_directory throws where there is no room for it
CreateDirectory(t) ==
  /\ At(t, "mkdir")
  /\ \/ /\ Goto(t, "lock")
        /\ dirs' = dirs \cup {Entity(t)}
        /\ UNCHANGED <<status, files, lock, job, name, open, reply,
                       begun, stray, deleted>>
     \/ DiskMayFill /\ Crash("no_room")

\* Mutant: the mutex does not exclude anybody.
LockAlways(t) ==
  /\ Move(t, "lock", IF Is(t, "POST") THEN "scan" ELSE "open")
  /\ lock' = t
  /\ UNCHANGED <<status, dirs, files, job, name, open, reply,
                 begun, stray, deleted>>

\* Mutant: write_file opens its file without the mutex.
LockForPost(t) ==
  /\ Move(t, "lock", IF Is(t, "POST") THEN "scan" ELSE "open")
  /\ IF Is(t, "POST") THEN lock = Free /\ lock' = t ELSE UNCHANGED lock
  /\ UNCHANGED <<status, dirs, files, job, name, open, reply,
                 begun, stray, deleted>>

\* std::unique_lock ul(file_creation_mutex_)
Lock(t) ==
  /\ Move(t, "lock", IF Is(t, "POST") THEN "scan" ELSE "open")
  /\ lock = Free /\ lock' = t
  /\ UNCHANGED <<status, dirs, files, job, name, open, reply,
                 begun, stray, deleted>>

\* Mutant: the id is kept in an integer without bounds.
WrapNever(n) == n

\* signed overflow wraps in the build
Wrap(n) == IF n > IntMax THEN IntMin ELSE n

\* get_unique_file_name: one more than the largest number in the directory.
\* stoi throws on a name that is no number, as in data_path, and on a number
\* that is no int, directory_iterator when the directory has gone.
ScanDirectory(t) ==
  /\ At(t, "scan")
  /\ IF Entity(t) \notin dirs THEN Crash("no_dir")
     ELSE IF Below(Entity(t)) # {} THEN Crash("no_number")
     ELSE IF \E i \in IdsIn(Entity(t)) : i > IntMax THEN Crash("out_of_range")
     ELSE /\ \E largest \in IdsIn(Entity(t)) \cup {0} :
               /\ largest >= 0 /\ \A i \in IdsIn(Entity(t)) : i <= largest
               /\ name' = [name EXCEPT ![t] = Wrap(largest + 1)]
          /\ Goto(t, "open")
          /\ UNCHANGED <<status, dirs, files, lock, job, open, reply,
                         begun, stray, deleted>>

\* Mutant: the file is opened for update and keeps its old contents.
OpenFileForUpdate(t) ==
  /\ Move(t, "open", "unlock")
  /\ Entity(t) \in dirs /\ name[t] \notin TooLong
  /\ files' = IF Target(t) \in DOMAIN files THEN files
              ELSE Put(files, Target(t), <<>>)
  /\ open' = [open EXCEPT ![t] = Target(t)]
  /\ Settle(t, HasId(name[t]))
  /\ UNCHANGED <<status, dirs, lock, job, name, begun, stray, deleted>>

\* fopen(path, "w"): the file is created, or emptied.
OpenFile(t) ==
  /\ Move(t, "open", "unlock")
  /\ Entity(t) \in dirs /\ name[t] \notin TooLong
  /\ files' = Put(files, Target(t), <<>>)
  /\ open' = [open EXCEPT ![t] = Target(t)]
  /\ Settle(t, HasId(name[t]))
  /\ UNCHANGED <<status, dirs, lock, job, name, begun, stray, deleted>>

\* Mutant: the null pointer goes unnoticed.
OpenFailsUnnoticed(t) ==
  /\ Move(t, "open", "unlock")
  /\ Settle(t, HasId(name[t]))
  /\ UNCHANGED <<status, dirs, files, lock, job, name, open,
                 begun, stray, deleted>>

\* Mutant: a writer that can not open its file starts again.
OpenFailsRetried(t) ==
  /\ Move(t, "open", "exists")
  /\ lock' = Free
  /\ UNCHANGED <<status, dirs, files, job, name, open, reply,
                 begun, stray, deleted>>

\* fopen returns null: the directory has gone, the name is too long, or the
\* system refuses.
OpenFails(t) ==
  /\ Move(t, "open", "unlock")
  /\ Settle(t, Code(500))
  /\ UNCHANGED <<status, dirs, files, lock, job, name, open,
                 begun, stray, deleted>>

\* pthread_mutex_unlock does not look at who holds the mutex.
Unlock(t) ==
  /\ lock' = Free
  /\ stray' = (stray \/ lock \notin {t, Free})

\* file_creation_mutex_.unlock(): the unique_lock is not told.
ExplicitUnlock(t) ==
  /\ Move(t, "unlock", IF reply[t].code = 200 THEN "write" ELSE "dtor")
  /\ Unlock(t)
  /\ UNCHANGED <<status, dirs, files, job, name, open, reply, begun, deleted>>

\* Every descriptor writes from offset 0 of the file as it is now.
Overlay(b, old) == b \o SubSeq(old, Len(b) + 1, Len(old))

\* fputs, fflush, fclose, of which n bytes reach the file.
WriteBytes(t, n) ==
  /\ Move(t, "write", "dtor")
  /\ files' = IF open[t] = NoFile THEN files
              ELSE [files EXCEPT ![open[t]] = Overlay(SubSeq(job[t].body, 1, n), @)]
  /\ open' = [open EXCEPT ![t] = NoFile]
  /\ UNCHANGED <<status, dirs, lock, job, name, reply, begun, stray, deleted>>

\* Nobody looks at what they return: a full disk goes unnoticed.
WriteFile(t) ==
  \E n \in 0..Len(job[t].body) :
    (DiskMayFill \/ n = Len(job[t].body)) /\ WriteBytes(t, n)

\* ~unique_lock: it still believes it owns the mutex and unlocks it again.
DestroyLock(t) ==
  /\ Move(t, "dtor", "reply")
  /\ Unlock(t)
  /\ UNCHANGED <<status, dirs, files, job, name, open, reply, begun, deleted>>

-----------------------------------------------------------------------------
(* RealFileSystem::get_file_list and read_file (GET). *)

\* handleGet names the entity before it looks at the number of parts: with
\* no part it copies uri[0] of an empty vector, and the process is killed.
NameNoEntity(t) ==
  /\ At(t, "exists") /\ job[t].uri = <<>>
  /\ Crash("no_entity")

GetExists(t) ==
  /\ Is(t, "GET") /\ At(t, "exists") /\ job[t].uri # <<>>
  /\ LET found == Entity(t) \in dirs
         parts == Len(job[t].uri)
     IN IF Entity(t) \in TooLong THEN Crash("too_long")
        ELSE /\ Goto(t, IF ~found \/ parts > 2 THEN "reply"
                        ELSE IF parts = 1 THEN "list" ELSE "isreg")
             /\ reply' = IF ~found \/ parts > 2
                         THEN [reply EXCEPT ![t] = Code(400)] ELSE reply
             /\ UNCHANGED <<status, dirs, files, lock, job, name, open,
                            begun, stray, deleted>>

ListDirectory(t) ==
  /\ At(t, "list")
  /\ IF Entity(t) \notin dirs THEN Crash("no_dir")
     ELSE /\ Goto(t, "reply")
          /\ Settle(t, Lists(IdsIn(Entity(t)) \cup Below(Entity(t))))
          /\ UNCHANGED <<status, dirs, files, lock, job, name, open,
                         begun, stray, deleted>>

\* The system gives up at the first name on a path that is too long, unless it
\* has missed one before.
NoLookup(t) == Entity(t) \in TooLong \/ (Entity(t) \in dirs /\ name[t] \in TooLong)

\* is_regular_file, for GET of a file and for DELETE
IsRegularFile(t) ==
  /\ At(t, "isreg")
  /\ LET found == Target(t) \in DOMAIN files
     IN IF NoLookup(t) THEN Crash("too_long")
        ELSE /\ Goto(t, IF ~found THEN "reply"
                        ELSE IF Is(t, "GET") THEN "read" ELSE "unlink")
             /\ reply' = IF found THEN reply ELSE [reply EXCEPT ![t] = Code(400)]
             /\ UNCHANGED <<status, dirs, files, lock, job, name, open,
                            begun, stray, deleted>>

\* An ifstream that could not open its file reads as empty.
ReadFile(t) ==
  /\ Move(t, "read", "reply")
  /\ Settle(t, Holds(IF Target(t) \in DOMAIN files
                     THEN files[Target(t)] ELSE <<>>))
  /\ UNCHANGED <<status, dirs, files, lock, job, name, open,
                 begun, stray, deleted>>

-----------------------------------------------------------------------------
(* RealFileSystem::remove (DELETE), which takes no lock. *)

UnlinkFile(t) ==
  /\ Move(t, "unlink", "isempty")
  /\ Target(t) \in DOMAIN files
  /\ Unlink({Target(t)})
  /\ Settle(t, Code(200))
  /\ UNCHANGED <<status, dirs, lock, job, name, begun, stray, deleted>>

\* boost::filesystem::remove looks the file up and unlinks it: it returns
\* false when the file had gone before the first, throws when before the second.
UnlinkMissing(t) ==
  /\ At(t, "unlink") /\ Target(t) \notin DOMAIN files
  /\ \/ /\ Goto(t, "isempty")
        /\ Settle(t, Code(400))
        /\ UNCHANGED <<status, dirs, files, lock, job, name, open,
                       begun, stray, deleted>>
     \/ Crash("no_file")

\* Mutant: remove does not ask whether the directory is empty.
IsEmptyUnasked(t) ==
  /\ At(t, "isempty")
  /\ IF Entity(t) \notin dirs THEN Crash("no_dir")
     ELSE /\ Goto(t, "purge")
          /\ UNCHANGED <<status, dirs, files, lock, job, name, open, reply,
                         begun, stray, deleted>>

\* is_empty(p.parent_path()) throws when the directory has gone
IsEmpty(t) ==
  /\ At(t, "isempty")
  /\ IF Entity(t) \notin dirs THEN Crash("no_dir")
     ELSE /\ Goto(t, IF IdsIn(Entity(t)) \cup Below(Entity(t)) = {}
                     THEN "purge" ELSE "reply")
          /\ UNCHANGED <<status, dirs, files, lock, job, name, open, reply,
                         begun, stray, deleted>>

\* remove_all: everything that is in the directory by now, ...
Purge(t) ==
  /\ Move(t, "purge", IF Entity(t) \in dirs THEN "rmdir" ELSE "reply")
  /\ Unlink(Contents(Entity(t)))
  /\ dirs' = dirs \ Below(Entity(t))
  /\ UNCHANGED <<status, lock, job, name, reply, begun, stray, deleted>>

\* ... then the directory itself; rmdir may find a new file in it, and never
\* takes a path that ends with ".".
RemoveDirectory(t) ==
  /\ At(t, "rmdir")
  /\ IF Entity(t) \notin dirs THEN Crash("no_dir")
     ELSE IF Entity(t) = Here THEN Crash("not_removed")
     ELSE IF IdsIn(Entity(t)) # {} THEN Crash("not_empty")
     ELSE /\ Goto(t, "reply")
          /\ dirs' = dirs \ {Entity(t)}
          /\ UNCHANGED <<status, files, lock, job, name, open, reply,
                         begun, stray, deleted>>

-----------------------------------------------------------------------------
\* handle_request returns; the session sends the response.
Respond(t) ==
  /\ Move(t, "reply", "idle")
  /\ job' = [job EXCEPT ![t] = NoJob]
  /\ name' = [name EXCEPT ![t] = 0]
  /\ Settle(t, NoReply)
  /\ UNCHANGED <<status, dirs, files, lock, open, begun, stray, deleted>>

\* signalHandler: exit, whatever the threads are doing.
Signal == status = "up" /\ Crash("signal")

\* The operator starts a new process on the same disk.
Restart ==
  /\ status # "up" /\ status' = "up"
  /\ stray' = FALSE /\ deleted' = FALSE
  /\ UNCHANGED <<dirs, files, lock, pc, job, name, open, reply, begun>>

\* Nothing to do: every client has its answers.
Quiescent ==
  /\ status = "up" /\ begun = MaxRequests
  /\ \A t \in Threads : pc[t] = "idle"
  /\ UNCHANGED vars

Step(t) ==
  \/ WriterExists(t) \/ CreateDirectory(t) \/ Lock(t) \/ ScanDirectory(t)
  \/ OpenFile(t) \/ OpenFails(t) \/ ExplicitUnlock(t) \/ WriteFile(t)
  \/ DestroyLock(t)
  \/ NameNoEntity(t) \/ GetExists(t) \/ ListDirectory(t) \/ IsRegularFile(t) \/ ReadFile(t)
  \/ UnlinkFile(t) \/ UnlinkMissing(t) \/ IsEmpty(t) \/ Purge(t)
  \/ RemoveDirectory(t)
  \/ Respond(t)

Next ==
  \/ \E t \in Threads : HandleRequest(t) \/ Step(t)
  \/ Signal \/ Restart
  \/ Quiescent

Spec == Init /\ [][Next]_vars

\* The kernel runs every thread that can run.  Clients owe nothing.
Fairness == \A t \in Threads : WF_vars(Step(t))
FairSpec == Spec /\ Fairness

-----------------------------------------------------------------------------
(* What the code keeps true. *)

\* Between the lock and the explicit unlock a thread picks an id and opens its file.
InCriticalSection(t) == pc[t] \in {"scan", "open", "unlock"}

\* The mutex keeps two writers from choosing an id or opening a file at the
\* same time (real_file_system.cc:62-79, 94-113), for as long as no
\* destructor of a unique_lock has freed a mutex that another thread held.
ExclusionUnlessStray ==
  ~stray => \A t, u \in Threads :
              InCriticalSection(t) /\ InCriticalSection(u) => t = u

\* Under the same proviso the id that a POST has chosen is free until the
\* POST opens its file, whatever PUT and DELETE do meanwhile; the exception
\* is the id that get_unique_file_name reaches by overflow.
ChosenIdIsFresh ==
  ~stray => \A t \in Threads :
              /\ pc[t] = "open" /\ Is(t, "POST")
              => name[t] = IntMin \/ Target(t) \notin DOMAIN files

\* A file a writer was told is stored (200) is there, until somebody deletes.
StoredUnlessDeleted ==
  ~deleted => \A t \in Threads :
                /\ job[t].method \in {"POST", "PUT"} /\ reply[t].code = 200
                => Target(t) \in DOMAIN files

\* A handler finds gone, or not empty, what it has just seen, or is refused
\* when it removes a directory, only if this process has accepted a DELETE, and
\* stoi fails only over what is in the directory: a file whose number is no int
\* or, where the entity is ".", an entity.  What needs no other request ends the
\* process at any time: a name that is too long, a disk that is full, a target
\* without an entity, a signal.
CrashNeedsCause ==
  /\ status \in {"no_dir", "no_file", "not_empty", "not_removed"} => deleted
  /\ status = "out_of_range" => \E p \in DOMAIN files : p[2] > IntMax
  /\ status = "no_number" => Here \in Entities /\ dirs # {Here}

\* Every request is answered, or the process dies: no handler waits for the
\* mutex for ever, no matter how often the mutex is unlocked twice.
Answered == \A t \in Threads : job[t] # NoJob ~> job[t] = NoJob

-----------------------------------------------------------------------------
(* What comments and tests of the repository say, and the code does not keep. *)

\* "creates new file", real_file_system.cc:97: fopen in gen_id_and_write_file
\* never opens, and so never empties, a file that is already there.
PostCreatesNewFile ==
  [][\A t \in Threads :
       OpenFile(t) /\ Is(t, "POST") => Target(t) \notin DOMAIN files]_vars

\* "if directory is empty, delete it", real_file_system.cc:46: remove_all only
\* ever finds an empty directory.
OnlyEmptyDirectoryDeleted ==
  [][\A t \in Threads :
       Purge(t) => IdsIn(Entity(t)) \cup Below(Entity(t)) = {}]_vars

\* "PUT body was successfully written", request_handler_test.cc:362: once
\* nobody is writing to it, a file holds the body of one request.
WholeBodies ==
  \A p \in DOMAIN files :
    (\A t \in Threads : open[t] # p) => files[p] \in Bodies
=============================================================================
