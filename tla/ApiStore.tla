------------------------------- MODULE ApiStore -------------------------------
(***************************************************************************)
(* What the CRUD API promises a client: one store of numbered files per    *)
(* entity, every request taking effect at one moment, between the call and *)
(* the response.  FileStore implements it when one thread serves requests; *)
(* no directory, lock or descriptor appears here.                          *)
(***************************************************************************)
EXTENDS Integers, Sequences, Functions

CONSTANTS
  Threads,    \* the places a request can be served at
  Paths,      \* pairs of an entity and a file number
  Bodies,     \* request bodies
  Requests,   \* records [method, uri, body] a handler acts on
  Refusals,   \* the records that stand for malformed requests
  NoJob,      \* no request
  IntMax      \* the largest id the server can give out

VARIABLES
  store,    \* path -> body, for the files that exist
  job,      \* the request being served
  reply     \* its response, once it has taken effect

vars == <<store, job, reply>>

\* The function f with the value v at p, a new argument or an old one.
Put(f, p, v) == [q \in DOMAIN f \cup {p} |-> IF q = p THEN v ELSE f[q]]

\* Responses: a status alone, the id, a listing, the contents of a file.
Code(c)   == [code |-> c, id |-> 0, ids |-> {}, text |-> <<>>]
HasId(i)  == [code |-> 200, id |-> i, ids |-> {}, text |-> <<>>]
Lists(I)  == [code |-> 200, id |-> 0, ids |-> I, text |-> <<>>]
Holds(b)  == [code |-> 200, id |-> 0, ids |-> {}, text |-> b]
NoReply   == Code(0)

IdsIn(e)  == {p[2] : p \in {q \in DOMAIN store : q[1] = e}}
Entity(t) == job[t].uri[1]
File(t)   == <<Entity(t), job[t].uri[2]>>

\* The server can not count past a file whose number is no int.
Poisoned(e) == \E i \in IdsIn(e) : i > IntMax

Init ==
  /\ \E P \in SUBSET Paths : store \in [P -> Bodies]
  /\ job = [t \in Threads |-> NoJob]
  /\ reply = [t \in Threads |-> NoReply]

Pending(t, m) == job[t].method = m /\ reply[t] = NoReply
Answer(t, r) == reply' = [reply EXCEPT ![t] = r] /\ UNCHANGED job

Ask(t, r) ==
  /\ job[t] = NoJob
  /\ job' = [job EXCEPT ![t] = r]
  /\ UNCHANGED <<store, reply>>

\* A request that is malformed is answered on the spot.
AskNonsense(t, r) ==
  /\ job[t] = NoJob
  /\ job' = [job EXCEPT ![t] = r]
  /\ reply' = [reply EXCEPT ![t] = Code(400)]
  /\ UNCHANGED store

\* POST gets an id above every other; past the largest int the ids wrap round
\* to the smallest, which a second such POST gets again.
Create(t) ==
  /\ Pending(t, "POST") /\ ~Poisoned(Entity(t))
  /\ \E i \in 1..IntMax \cup {-IntMax - 1} :
       /\ \/ i > 0 /\ \A j \in IdsIn(Entity(t)) : i > j
          \/ i < 0 /\ IntMax \in IdsIn(Entity(t))
       /\ store' = Put(store, <<Entity(t), i>>, job[t].body)
       /\ Answer(t, HasId(i))

Update(t) ==
  /\ Pending(t, "PUT")
  /\ store' = Put(store, File(t), job[t].body)
  /\ Answer(t, HasId(File(t)[2]))

\* The file system may refuse to open a file.
Fail(t) ==
  /\ Pending(t, "POST") \/ Pending(t, "PUT")
  /\ Answer(t, Code(500)) /\ UNCHANGED store

\* An entity without files may or may not be known.
List(t) ==
  /\ Pending(t, "GET") /\ Len(job[t].uri) = 1
  /\ \/ Answer(t, Lists(IdsIn(Entity(t))))
     \/ IdsIn(Entity(t)) = {} /\ Answer(t, Code(400))
  /\ UNCHANGED store

Retrieve(t) ==
  /\ Pending(t, "GET") /\ Len(job[t].uri) = 2
  /\ Answer(t, IF File(t) \in DOMAIN store
               THEN Holds(store[File(t)]) ELSE Code(400))
  /\ UNCHANGED store

TooDeep(t) ==
  /\ Pending(t, "GET") /\ Len(job[t].uri) > 2
  /\ Answer(t, Code(400)) /\ UNCHANGED store

Delete(t) ==
  /\ Pending(t, "DELETE")
  /\ store' = Restrict(store, DOMAIN store \ {File(t)})
  /\ Answer(t, IF File(t) \in DOMAIN store THEN Code(200) ELSE Code(400))

Return(t) ==
  /\ reply[t] # NoReply
  /\ job' = [job EXCEPT ![t] = NoJob]
  /\ reply' = [reply EXCEPT ![t] = NoReply]
  /\ UNCHANGED store

\* Requests the API has no answer to bring the server down; no file is lost.
Fall(t) ==
  /\ \/ Pending(t, "GET") /\ job[t].uri = <<>>
     \/ Pending(t, "POST") /\ Poisoned(Entity(t))
  /\ job' = [u \in Threads |-> NoJob]
  /\ reply' = [u \in Threads |-> NoReply]
  /\ UNCHANGED store

\* The server is stopped, by a signal or by a file system that throws, at a full
\* disk or at a name that is too long: what it was serving is lost, and with it
\* the body of a file that was being written.
Stop ==
  /\ \/ UNCHANGED store
     \/ \E t \in Threads :
          /\ job[t].method \in {"POST", "PUT"} /\ reply[t].code = 200
          /\ store' = Put(store, <<Entity(t), reply[t].id>>, <<>>)
  /\ job' = [t \in Threads |-> NoJob]
  /\ reply' = [t \in Threads |-> NoReply]

Next ==
  \/ Stop
  \/ \E t \in Threads :
    \/ \E r \in Requests : Ask(t, r)
    \/ \E r \in Refusals : AskNonsense(t, r)
    \/ Create(t) \/ Update(t) \/ Fail(t)
    \/ List(t) \/ Retrieve(t) \/ TooDeep(t) \/ Delete(t)
    \/ Return(t) \/ Fall(t)

Spec == Init /\ [][Next]_vars
=============================================================================
