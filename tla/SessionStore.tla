----------------------------- MODULE SessionStore -----------------------------
(***************************************************************************)
(* From a client's bytes to the disk and back: Session, whose requests the *)
(* API's handlers of FileStore serve on the one thread that runs the       *)
(* session's completions.  The thread parses in handle_read and runs the   *)
(* handler there, system call by system call; only then the response is    *)
(* written and the next read is asked for.  The client goes on meanwhile.  *)
(***************************************************************************)
EXTENDS Session, Functions

CONSTANTS
  Api,        \* target -> the method and the parts of a request for it
  server,     \* the thread
  Entities, Here, Ids, NotNumber, TooLong, IntMax, Free   \* as in FileStore

VARIABLES status, dirs, files, lock, pc, job, name, open, reply, begun, stray, deleted

Store == INSTANCE FileStore
  WITH Threads <- {server}, Bytes <- {}, Bodies <- {<<>>},
       Methods <- {"GET", "POST", "PUT", "DELETE"},
       Uris <- {Api[t].uri : t \in DOMAIN Api},
       LeftOver <- {}, DiskMayFill <- FALSE, MaxRequests <- MaxSent

ASSUME ApiAssumption ==
  \A r \in Requests : Api[r.target].method \in {"GET", "POST", "PUT", "DELETE"}

VARIABLE written   \* history: path -> body, as sent, of the whole request that
                   \* wrote the file last

storeVars   == <<status, dirs, files, lock, pc, job, name, open, reply, begun, stray,
                 deleted>>
serviceVars == <<vars, storeVars, written>>

ServiceInit == Init /\ Store!Init /\ written = [p \in {} |-> <<>>]

-----------------------------------------------------------------------------

\* The client and the socket, while the process lives.
Network ==
  /\ status = "up"
  /\ \/ \E r \in Requests : Send(r)
     \/ Close \/ Reset
     \/ \E k \in 1..MaxLength : Read(k)
     \/ ReadError \/ EndpointThrows
  /\ UNCHANGED <<storeVars, written>>

\* processRequest: the bad request handler answers at once, the API's begins.
Process ==
  /\ status = "up" /\ HandleRead
  /\ IF handled' = BadRequest THEN UNCHANGED storeVars
     ELSE LET m == Api[handled'.target].method
              u == Api[handled'.target].uri
          IN \/ m = "POST" /\ Store!HandlePost(server, u, handled'.body)
             \/ m = "PUT" /\ Store!HandlePut(server, u, handled'.body)
             \/ m = "GET" /\ Store!HandleGet(server, u)
             \/ m = "DELETE" /\ Store!HandleDelete(server, u)
             \/ Store!Refuse(server, m, u)
  /\ UNCHANGED written

\* The handler goes on, and may not return before it has.
Serve ==
  /\ Store!Step(server) /\ pc[server] # "reply"
  /\ UNCHANGED <<vars, written>>

Whole == expect # Nothing

\* The response of a request that changes files becomes known.
Wrote ==
  LET p == Store!Target(server)
  IN IF job[server].method \in {"POST", "PUT"} /\ reply[server].code = 200
     THEN written' = IF Whole THEN Store!Put(written, p, expect.body)
                     ELSE Restrict(written, DOMAIN written \ {p})
     ELSE IF job[server].method = "DELETE" /\ reply[server].code = 200
     THEN written' = Restrict(written, DOMAIN written \ {p})
     ELSE UNCHANGED written

Answer == Store!Respond(server) /\ Wrote /\ UNCHANGED vars

\* http::async_write starts once handle_request has returned.
Continue ==
  /\ status = "up" /\ pc[server] = "idle" /\ HandleWrite
  /\ UNCHANGED <<storeVars, written>>

ServiceQuiescent == (status # "up" \/ Quiescent) /\ UNCHANGED serviceVars

ServiceNext ==
  \/ Network \/ Process \/ Serve \/ Answer \/ Continue \/ ServiceQuiescent

ServiceSpec == ServiceInit /\ [][ServiceNext]_serviceVars

-----------------------------------------------------------------------------
\* What the integration test asks of one request (integration_tests.sh:82-109)
\* over any number of them: a client that reads a file back gets the body that
\* it wrote last, byte for byte, if the write came in one piece; requests that
\* came in pieces before, and what they left in data_ and on the disk, do no harm.
ReadBackAsSent ==
  /\ pc[server] = "reply" /\ job[server].method = "GET" /\ Len(job[server].uri) = 2
  /\ reply[server].code = 200 /\ Store!Target(server) \in DOMAIN written
  => reply[server].text = written[Store!Target(server)]
=============================================================================
