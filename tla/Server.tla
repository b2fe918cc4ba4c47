------------------------------- MODULE Server -------------------------------
(***************************************************************************)
(* Server (server.cc) and its sessions (session.cc) over one io_service    *)
(* run by a pool of threads: asynchronous operations complete in the       *)
(* kernel, their completions queue up in the io_service, and whichever     *)
(* thread is free runs the next handler.  There is no strand: that the     *)
(* handlers of one session never run at the same time, or on a session     *)
(* that has been deleted, is up to the operations each handler starts.     *)
(* What a request says is left to Session, what it does to FileStore; here *)
(* it only matters that a handler may be slow, as SleepHandler is.         *)
(***************************************************************************)
EXTENDS Integers, Sequences, FiniteSets

CONSTANTS
  Threads,     \* the pool: thread_pool_size_ threads
  Conns,       \* the connections clients make
  Slow,        \* those whose requests go to a handler that sleeps
  MaxAsked,    \* bound: requests asked on a connection
  Idle         \* no handler

Completions ==
  [op : {"accept", "read", "write"}, conn : Conns, ok : BOOLEAN]

ASSUME ConstantsAssumption ==
  Slow \subseteq Conns /\ MaxAsked \in Nat /\ Idle \notin Completions

VARIABLES
  alive,       \* no exception has left a handler
  backlog,     \* connections the kernel has made and nobody has accepted
  peer,        \* each client: "out", "open", "closed", "reset"
  unread,      \* connections whose client's request waits in the socket
  asked,       \* requests each client has sent
  answered,    \* responses each client has got
  session,     \* the Session of a connection: "none", "open", "deleted"
  accepting,   \* an async_accept is outstanding
  ops,         \* the outstanding reads and writes: pairs of kind and connection
  queue,       \* completions no thread has taken yet
  running      \* the completion each thread handles, or Idle

clients == <<peer, unread, asked, answered>>
vars == <<alive, backlog, peer, unread, asked, answered, session, accepting,
          ops, queue, running>>

TypeOK ==
  /\ alive \in BOOLEAN /\ accepting \in BOOLEAN
  /\ backlog \in Seq(Conns)
  /\ peer \in [Conns -> {"out", "open", "closed", "reset"}]
  /\ unread \subseteq Conns
  /\ asked \in [Conns -> 0..MaxAsked]
  /\ answered \in [Conns -> 0..MaxAsked]
  /\ session \in [Conns -> {"none", "open", "deleted"}]
  /\ ops \subseteq {"read", "write"} \X Conns
  /\ queue \in Seq(Completions)
  /\ running \in [Threads -> Completions \cup {Idle}]

\* The constructor calls start_accept.
Init ==
  /\ alive = TRUE
  /\ backlog = <<>>
  /\ peer = [c \in Conns |-> "out"]
  /\ unread = {}
  /\ asked = [c \in Conns |-> 0] /\ answered = [c \in Conns |-> 0]
  /\ session = [c \in Conns |-> "none"]
  /\ accepting = TRUE
  /\ ops = {} /\ queue = <<>>
  /\ running = [t \in Threads |-> Idle]

-----------------------------------------------------------------------------
(* The clients. *)

Connect(c) ==
  /\ alive /\ peer[c] = "out"
  /\ peer' = [peer EXCEPT ![c] = "open"]
  /\ backlog' = Append(backlog, c)
  /\ UNCHANGED <<alive, unread, asked, answered, session, accepting, ops,
                 queue, running>>

\* A client waits for its response before it asks again.
Ask(c) ==
  /\ alive /\ peer[c] = "open"
  /\ asked[c] = answered[c] /\ asked[c] < MaxAsked
  /\ asked' = [asked EXCEPT ![c] = @ + 1]
  /\ unread' = unread \cup {c}
  /\ UNCHANGED <<alive, backlog, peer, answered, session, accepting, ops,
                 queue, running>>

\* A reset throws away what the server has not read.
Leave(c, how) ==
  /\ alive /\ peer[c] = "open"
  /\ peer' = [peer EXCEPT ![c] = how]
  /\ unread' = IF how = "reset" THEN unread \ {c} ELSE unread
  /\ UNCHANGED <<alive, backlog, asked, answered, session, accepting, ops,
                 queue, running>>

-----------------------------------------------------------------------------
(* The kernel completes the operations the handlers have started. *)

Post(op, c, ok) ==
  queue' = Append(queue, [op |-> op, conn |-> c, ok |-> ok])

CompleteAccept ==
  /\ alive /\ accepting /\ backlog # <<>>
  /\ accepting' = FALSE
  /\ Post("accept", Head(backlog), TRUE)
  /\ backlog' = Tail(backlog)
  /\ UNCHANGED <<alive, peer, unread, asked, answered, session, ops, running>>

\* No descriptor is left, say: the connection stays where it is.
AcceptFails ==
  /\ alive /\ accepting /\ backlog # <<>>
  /\ accepting' = FALSE
  /\ Post("accept", Head(backlog), FALSE)
  /\ UNCHANGED <<alive, backlog, peer, unread, asked, answered, session, ops,
                 running>>

CompleteRead(c) ==
  /\ alive /\ <<"read", c>> \in ops
  /\ c \in unread \/ peer[c] # "open"
  /\ ops' = ops \ {<<"read", c>>}
  /\ Post("read", c, c \in unread)
  /\ unread' = unread \ {c}
  /\ UNCHANGED <<alive, backlog, peer, asked, answered, session, accepting,
                 running>>

CompleteWrite(c, ok) ==
  /\ alive /\ <<"write", c>> \in ops
  /\ IF ok THEN peer[c] # "reset" ELSE peer[c] # "open"
  /\ ops' = ops \ {<<"write", c>>}
  /\ Post("write", c, ok)
  /\ answered' = IF ok THEN [answered EXCEPT ![c] = asked[c]] ELSE answered
  /\ UNCHANGED <<alive, backlog, peer, unread, asked, session, accepting,
                 running>>

-----------------------------------------------------------------------------
(* The pool. *)

\* Mutant: the pool is one thread.
TakeWhenAllIdle(t) ==
  /\ alive /\ queue # <<>>
  /\ \A u \in Threads : running[u] = Idle
  /\ running' = [running EXCEPT ![t] = Head(queue)]
  /\ queue' = Tail(queue)
  /\ UNCHANGED <<alive, backlog, peer, unread, asked, answered, session,
                 accepting, ops>>

\* io_service::run gives the next completion to a free thread.
Take(t) ==
  /\ alive /\ running[t] = Idle /\ queue # <<>>
  /\ running' = [running EXCEPT ![t] = Head(queue)]
  /\ queue' = Tail(queue)
  /\ UNCHANGED <<alive, backlog, peer, unread, asked, answered, session,
                 accepting, ops>>

\* Mutant: a thread runs run_one and leaves the pool.
HandleOnce(t, op) ==
  /\ alive /\ running[t] # Idle /\ running[t].op = op
  /\ running' = [u \in DOMAIN running \ {t} |-> running[u]]
  /\ UNCHANGED <<backlog, peer, unread, asked, answered, queue>>

\* A thread ends the handler of a completion; the rest is the handler.
Handle(t, op) ==
  /\ alive /\ running[t] # Idle /\ running[t].op = op
  /\ running' = [running EXCEPT ![t] = Idle]
  /\ UNCHANGED <<backlog, peer, unread, asked, answered, queue>>

\* Mutant: after an error nobody accepts again.
HandleAcceptOnce(t) ==
  /\ Handle(t, "accept")
  /\ LET c == running[t].conn
     IN IF running[t].ok
        THEN /\ session' = [session EXCEPT ![c] = "open"]
             /\ ops' = ops \cup {<<"read", c>>}
             /\ accepting' = TRUE
        ELSE UNCHANGED <<session, ops, accepting>>
  /\ UNCHANGED alive

\* handle_accept: start the session, or delete it; accept the next in any case.
HandleAccept(t) ==
  /\ Handle(t, "accept")
  /\ LET c == running[t].conn
     IN IF running[t].ok
        THEN /\ session' = [session EXCEPT ![c] = "open"]
             /\ ops' = ops \cup {<<"read", c>>}
        ELSE UNCHANGED <<session, ops>>
  /\ accepting' = TRUE
  /\ UNCHANGED alive

\* Mutant: the next read is started along with the write.
HandleReadAhead(t) ==
  /\ Handle(t, "read")
  /\ LET c == running[t].conn
     IN IF running[t].ok
        THEN /\ ops' = ops \cup {<<"write", c>>, <<"read", c>>}
             /\ UNCHANGED session
        ELSE /\ session' = [session EXCEPT ![c] = "deleted"]
             /\ UNCHANGED ops
  /\ UNCHANGED <<alive, accepting>>

\* handle_read: handle the request and write the response, or delete this.
HandleRead(t) ==
  /\ Handle(t, "read")
  /\ LET c == running[t].conn
     IN IF running[t].ok
        THEN /\ ops' = ops \cup {<<"write", c>>}
             /\ UNCHANGED session
        ELSE /\ session' = [session EXCEPT ![c] = "deleted"]
             /\ UNCHANGED ops
  /\ UNCHANGED <<alive, accepting>>

\* handle_read: getSocketEndpoint throws, nobody catches.
EndpointThrows(t) ==
  /\ Handle(t, "read") /\ running[t].ok
  /\ peer[running[t].conn] = "reset"
  /\ alive' = FALSE
  /\ UNCHANGED <<session, accepting, ops>>

\* Mutant: a write that failed is taken for the end of the session's work.
HandleWriteLeaks(t) ==
  /\ Handle(t, "write")
  /\ ops' = IF running[t].ok THEN ops \cup {<<"read", running[t].conn>>} ELSE ops
  /\ UNCHANGED <<alive, accepting, session>>

\* handle_write: read the next request, or delete this.
HandleWrite(t) ==
  /\ Handle(t, "write")
  /\ LET c == running[t].conn
     IN IF running[t].ok
        THEN /\ ops' = ops \cup {<<"read", c>>}
             /\ UNCHANGED session
        ELSE /\ session' = [session EXCEPT ![c] = "deleted"]
             /\ UNCHANGED ops
  /\ UNCHANGED <<alive, accepting>>

\* The server waits for clients that have nothing more to ask, or has died.
Quiescent ==
  /\ \/ ~alive
     \/ /\ backlog = <<>> /\ queue = <<>> /\ unread = {}
        /\ \A t \in Threads : running[t] = Idle
        /\ \A c \in Conns : <<"write", c>> \notin ops
  /\ UNCHANGED vars

Next ==
  \/ \E c \in Conns :
       \/ Connect(c) \/ Ask(c) \/ Leave(c, "closed") \/ Leave(c, "reset")
       \/ CompleteRead(c) \/ CompleteWrite(c, TRUE) \/ CompleteWrite(c, FALSE)
  \/ CompleteAccept \/ AcceptFails
  \/ \E t \in Threads :
       \/ Take(t) \/ HandleAccept(t) \/ HandleRead(t) \/ EndpointThrows(t)
       \/ HandleWrite(t)
  \/ Quiescent

Spec == Init /\ [][Next]_vars

IsSlow(t) == running[t] # Idle /\ running[t].op = "read" /\ running[t].conn \in Slow

\* The kernel completes what can be completed, and does not refuse connections
\* for ever; threads that run keep running.  A slow handler need not end.
Fairness ==
  /\ SF_vars(CompleteAccept)
  /\ \A c \in Conns : /\ WF_vars(CompleteRead(c))
                      /\ WF_vars(CompleteWrite(c, TRUE) \/ CompleteWrite(c, FALSE))
  /\ \A t \in Threads : /\ WF_vars(Take(t))
                        /\ WF_vars(HandleAccept(t))
                        /\ WF_vars(~IsSlow(t) /\ HandleRead(t))
                        /\ WF_vars(HandleWrite(t))

FairSpec == Spec /\ Fairness

-----------------------------------------------------------------------------
(* What the code keeps true. *)

\* What is under way for a connection's session: operations and completions.
Pending(c) ==
  Cardinality({o \in ops : o[2] = c})
  + Cardinality({i \in DOMAIN queue : queue[i].conn = c /\ queue[i].op # "accept"})
  + Cardinality({t \in Threads : /\ running[t] # Idle /\ running[t].conn = c
                                 /\ running[t].op # "accept"})

\* A session that is open has one thing under way, never two, which would run
\* two handlers at once on one data_ and one httpResponse_, and never none,
\* which would leave its client waiting and the Session unfreed; a session
\* that is deleted has none, which would run a handler on freed memory.
OneThingUnderWay ==
  alive => \A c \in Conns : Pending(c) = IF session[c] = "open" THEN 1 ELSE 0

\* Exactly one accept is outstanding, or its handler is on the way to start the
\* next: no failure to accept makes the server deaf.
AcceptUnderWay ==
  alive =>
    (IF accepting THEN 1 ELSE 0)
    + Cardinality({i \in DOMAIN queue : queue[i].op = "accept"})
    + Cardinality({t \in Threads : running[t] # Idle /\ running[t].op = "accept"}) = 1

\* The point of the pool: while fewer connections than threads sit in slow
\* handlers, every request to a quick one is answered to a client that stays,
\* unless the process dies.
QuickAnswered ==
  Cardinality(Slow) < Cardinality(Threads) =>
    \A c \in Conns \ Slow :
      asked[c] > answered[c] ~>
        (asked[c] = answered[c] \/ peer[c] # "open" \/ ~alive)

\* A client that has left costs the server neither a Session nor a descriptor
\* for ever, wherever it left: before it was accepted, before its request was
\* read, while a handler ran, before its response was written.  Only a session
\* in a slow handler may stay.
SessionsFreed ==
  Cardinality(Slow) < Cardinality(Threads) =>
    \A c \in Conns \ Slow :
      peer[c] \in {"closed", "reset"} ~> session[c] = "deleted" \/ ~alive
=============================================================================
