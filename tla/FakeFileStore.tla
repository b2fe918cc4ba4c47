--------------------------- MODULE FakeFileStore ---------------------------
(***************************************************************************)
(* FakeFileSystem (fake_file_system.cc), the double that the unit tests    *)
(* give to ApiHandler in place of RealFileSystem, a set of path strings.   *)
(* It is run in lockstep with FileStore, served by one thread: when the    *)
(* thread takes up a request, the same handler over the fake answers the   *)
(* same request at once.  When the process has ended, of a name too long   *)
(* for the disk too, which the fake does not mind, the two are compared    *)
(* afresh on the disk as it is.                                            *)
(***************************************************************************)
EXTENDS FileStoreRefinement

\* A request that is refused is a request, too.
ASSUME MethodsAssumption == NoJob.method \notin Methods

VARIABLES
  ffs,    \* the set of paths: <<e>> for a directory, <<e, i>> for a file
  fake    \* what the handler over the fake answers to the request under way

fakeVars == <<ffs, fake>>

\* An exception leaves the handler.
Dies == Code(-1)

\* The paths that requests would have left in the fake for the disk as it is.
Mirror == {<<e>> : e \in dirs} \cup DOMAIN files

\* The paths whose prefix up to the last "/" is that of the directory.
FakeIds(e) == {p[2] : p \in {q \in ffs : Len(q) = 2 /\ q[1] = e}}

\* gen_id_and_write_file over get_unique_file_name; stoi throws as it does on disk.
FakePost(e) ==
  IF \E i \in FakeIds(e) : i > IntMax THEN fake' = Dies /\ UNCHANGED ffs
  ELSE \E largest \in FakeIds(e) \cup {0} :
         LET id == Wrap(largest + 1) IN
         /\ largest >= 0 /\ \A i \in FakeIds(e) : i <= largest
         /\ ffs' = ffs \cup {<<e>>, <<e, id>>}
         /\ fake' = HasId(id)

FakePut(e, i) == ffs' = ffs \cup {<<e>>, <<e, i>>} /\ fake' = HasId(i)

\* Every file reads the same, "Read file successfully"; its text is left out.
FakeGet(uri) ==
  /\ fake' = IF uri = <<>> THEN Dies
             ELSE IF <<uri[1]>> \notin ffs \/ Len(uri) > 2 THEN Code(400)
             ELSE IF Len(uri) = 1 THEN Lists(FakeIds(uri[1]))
             ELSE IF uri \in ffs THEN Holds(<<>>) ELSE Code(400)
  /\ UNCHANGED ffs

\* Mutant: remove finds the file and leaves it.
FakeDeleteKeeps(e, i) ==
  /\ fake' = IF <<e, i>> \in ffs THEN Code(200) ELSE Code(400)
  /\ UNCHANGED ffs

\* is_regular_file is always true; remove erases the file, never its directory.
FakeDelete(e, i) ==
  /\ fake' = IF <<e, i>> \in ffs THEN Code(200) ELSE Code(400)
  /\ ffs' = ffs \ {<<e, i>>}

\* The handler over the fake is given what thread t takes up.
FakeHandle(t) ==
  LET j == job'[t] IN
  /\ job[t] = NoJob /\ j # NoJob
  /\ \/ reply'[t].code = 400 /\ fake' = Code(400) /\ UNCHANGED ffs
     \/ /\ reply'[t] = NoReply
        /\ \/ j.method = "POST" /\ FakePost(j.uri[1])
           \/ j.method = "PUT" /\ FakePut(j.uri[1], j.uri[2])
           \/ j.method = "GET" /\ FakeGet(j.uri)
           \/ j.method = "DELETE" /\ FakeDelete(j.uri[1], j.uri[2])

\* The fake never refuses to open a file and never stops: after a 500 and after
\* a restart the two are compared afresh.
Afresh ==
  \/ status # "up"
  \/ \E t \in Threads : reply[t].code = 500 /\ job'[t] = NoJob

FakeInit == Init /\ ffs = Mirror /\ fake = NoReply

FakeFollows ==
  IF Afresh THEN ffs' = Mirror' /\ fake' = NoReply
  ELSE \/ \E t \in Threads : FakeHandle(t)
       \/ (\A t \in Threads : job[t] = NoJob => job'[t] = NoJob) /\ UNCHANGED fakeVars

FakeNext == Next /\ FakeFollows

FakeSpec == FakeInit /\ [][FakeNext]_<<vars, fakeVars>>

-----------------------------------------------------------------------------
\* What the unit tests see of ApiHandler over the fake (request_handler_test.cc:
\* 182-500) is what clients see of it over the disk: the same status, id and
\* listing, and an exception for the same requests.  Except that the fake keeps
\* the directory of an entity whose last file has been deleted, and lists nothing
\* where the real one knows no such entity; that it takes names which the disk
\* throws at for their length; and that the entity "." is not among those asked.
FakeAnswersAlike ==
  /\ \A t \in Threads :
       pc[t] = "reply" /\ reply[t].code # 500 =>
         \/ reply[t] = [fake EXCEPT !.text = reply[t].text]
         \/ reply[t] = Code(400) /\ fake = Lists({})
  /\ status \in {"no_entity", "out_of_range"} => fake = Dies
  /\ fake = Dies => \A t \in Threads : pc[t] # "reply"
=============================================================================
