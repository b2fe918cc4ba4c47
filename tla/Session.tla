------------------------------- MODULE Session -------------------------------
(***************************************************************************)
(* One connection: Session (session.cc) and the parsing half of            *)
(* RequestHandlerDelegate (request_handler_delegate.cc).  The client's     *)
(* requests are a stream that TCP cuts into reads as it likes.  A read     *)
(* overwrites the front of data_; handle_read ignores how much came and    *)
(* hands the parser the C string that starts at data_.                     *)
(*                                                                         *)
(* The stream is made of cells: one for the request line, one for the rest *)
(* of the header with its Content-Length, one for each byte of the body.   *)
(***************************************************************************)
EXTENDS Integers, Sequences

CONSTANTS
  MaxLength,    \* max_length, the size of data_: 1024 in the build
  Requests,     \* what the client may send: records [target, body]
  MaxSent       \* bound: requests sent on the connection

Cell(k, v) == [kind |-> k, val |-> v]
Line(t)    == Cell("line", t)
Header(n)  == Cell("header", n)
Byte(b)    == Cell("byte", b)
Nul        == Cell("nul", 0)
Junk       == Cell("junk", 0)

Bytes == [kind : {"byte"}, val : Int]
Text  == [kind : {"line", "header"}, val : Int] \cup Bytes
Cells == Text \cup {Nul, Junk}

\* A body is any bytes, NUL among them.
ASSUME ConstantsAssumption ==
  /\ MaxLength \in Nat \ {0} /\ MaxSent \in Nat
  /\ Requests \subseteq [target : Int, body : Seq(Bytes \cup {Nul})]

Encode(r) == <<Line(r.target), Header(Len(r.body))>> \o r.body

\* No request, and the request the bad request handler is given.
Nothing    == [target |-> 0, body |-> <<>>]
BadRequest == [target |-> 400, body |-> <<>>]

VARIABLES
  data,     \* data_, a sequence of MaxLength cells
  wire,     \* what the client has sent and the session has not read
  peer,     \* the client: "open", or "closed" in order, or "reset"
  phase,    \* what the session waits for or does
  handled,  \* the request the handler was given for the last read
  sent,     \* history: the requests the client has sent
  expect    \* history: the request at the front of the last read, if the
            \* read began with a request, held all of it and the request has
            \* no NUL byte; else Nothing

vars == <<data, wire, peer, phase, handled, sent, expect>>

TypeOK ==
  /\ data \in [1..MaxLength -> Cells]
  /\ wire \in Seq(Text \cup {Nul})
  /\ peer \in {"open", "closed", "reset"}
  /\ phase \in {"reading", "handle_read", "writing", "deleted", "terminated"}
  /\ handled \in [target : Int, body : Seq(Text \cup {Junk})]
  /\ expect \in [target : Int, body : Seq(Text)]
  /\ sent \in Seq(Requests) /\ Len(sent) <= MaxSent

\* new Session leaves data_ uninitialised; start() asks for the first read.
Init ==
  /\ data \in [1..MaxLength -> {Nul, Junk}]
  /\ wire = <<>> /\ peer = "open"
  /\ phase = "reading"
  /\ handled = Nothing
  /\ sent = <<>> /\ expect = Nothing

-----------------------------------------------------------------------------
(* The client. *)

Send(r) ==
  /\ peer = "open" /\ Len(sent) < MaxSent
  /\ sent' = Append(sent, r)
  /\ wire' = wire \o Encode(r)
  /\ UNCHANGED <<data, peer, phase, handled, expect>>

Close ==
  /\ peer = "open" /\ peer' = "closed"
  /\ UNCHANGED <<data, wire, phase, handled, sent, expect>>

\* A reset throws away what the server has not read.
Reset ==
  /\ peer # "reset" /\ peer' = "reset"
  /\ wire' = <<>>
  /\ UNCHANGED <<data, phase, handled, sent, expect>>

-----------------------------------------------------------------------------
(* The session. *)

\* The request at the front of the k bytes of a read, if it is all there.
WholeRequest(k) ==
  IF /\ wire[1].kind = "line" /\ k >= 2 /\ k >= 2 + wire[2].val
     /\ \A i \in 3..2 + wire[2].val : wire[i] # Nul
  THEN [target |-> wire[1].val, body |-> SubSeq(wire, 3, 2 + wire[2].val)]
  ELSE Nothing

\* Mutant: the buffer is a string that shrinks to what was read.
ReadResizes(k) ==
  /\ phase = "reading" /\ phase' = "handle_read"
  /\ k \in 1..Len(wire) /\ k <= MaxLength
  /\ data' = SubSeq(wire, 1, k)
  /\ wire' = SubSeq(wire, k + 1, Len(wire))
  /\ expect' = WholeRequest(k)
  /\ UNCHANGED <<peer, handled, sent>>

\* async_read_some completes with k of the bytes that have arrived.
Read(k) ==
  /\ phase = "reading" /\ phase' = "handle_read"
  /\ k \in 1..Len(wire) /\ k <= MaxLength
  /\ data' = [i \in 1..MaxLength |-> IF i <= k THEN wire[i] ELSE data[i]]
  /\ wire' = SubSeq(wire, k + 1, Len(wire))
  /\ expect' = WholeRequest(k)
  /\ UNCHANGED <<peer, handled, sent>>

\* async_read_some completes with an error: delete this.
ReadError ==
  /\ phase = "reading" /\ phase' = "deleted"
  /\ wire = <<>> /\ peer # "open"
  /\ UNCHANGED <<data, wire, peer, handled, sent, expect>>

\* The std::string made of data_ ends at the first NUL; where data_ has none
\* it runs on into whatever lies behind.
CString ==
  LET nuls == {i \in 1..MaxLength : data[i] = Nul}
  IN IF nuls = {} THEN {data, data \o <<Junk>>}
     ELSE {SubSeq(data, 1, n - 1) : n \in {m \in nuls : \A i \in nuls : m <= i}}

\* Mutant: the body is all that follows the header.
ParseToEnd(s) ==
  IF Len(s) >= 2 /\ s[1].kind = "line" /\ s[2].kind = "header"
  THEN [target |-> s[1].val, body |-> SubSeq(s, 3, Len(s))]
  ELSE BadRequest

\* parse_request: the parser wants a whole header, and takes of the body what
\* is there; nobody asks it whether the message is done.
ParseRequest(s) ==
  IF Len(s) >= 2 /\ s[1].kind = "line" /\ s[2].kind = "header"
  THEN [target |-> s[1].val,
        body |-> SubSeq(s, 3, IF 2 + s[2].val <= Len(s) THEN 2 + s[2].val
                              ELSE Len(s))]
  ELSE BadRequest

\* handle_read: process the request and start to write the response.
HandleRead ==
  /\ phase = "handle_read" /\ phase' = "writing"
  /\ \E s \in CString : handled' = ParseRequest(s)
  /\ UNCHANGED <<data, wire, peer, sent, expect>>

\* getSocketEndpoint throws when the client has reset the connection since the
\* read, and the process dies.
EndpointThrows ==
  /\ phase = "handle_read" /\ phase' = "terminated"
  /\ peer = "reset"
  /\ UNCHANGED <<data, wire, peer, handled, sent, expect>>

\* handle_write: read on, or delete this.
HandleWrite ==
  /\ phase = "writing"
  /\ \/ phase' = "reading"
     \/ peer # "open" /\ phase' = "deleted"
  /\ UNCHANGED <<data, wire, peer, handled, sent, expect>>

\* The session has gone, or the client sends no more.
Quiescent ==
  /\ \/ phase \in {"deleted", "terminated"}
     \/ phase = "reading" /\ wire = <<>>
  /\ UNCHANGED vars

Next ==
  \/ \E r \in Requests : Send(r)
  \/ Close \/ Reset
  \/ \E k \in 1..MaxLength : Read(k)
  \/ ReadError \/ HandleRead \/ EndpointThrows \/ HandleWrite
  \/ Quiescent

Spec == Init /\ [][Next]_vars

-----------------------------------------------------------------------------
(* What the code keeps true. *)

\* A request that is at the front of a read and wholly in it is handled as it
\* was sent, whatever earlier reads, uninitialised memory or later requests
\* have left behind it in data_.
WholeReadHandledAsSent ==
  phase = "writing" /\ expect # Nothing =>
    /\ handled = expect
    /\ \E i \in DOMAIN sent : sent[i] = expect

-----------------------------------------------------------------------------
(* What the integration test says, and the code does not keep. *)

\* "$json_payload" is the "$file_contents", integration_tests.sh:94-95: the
\* body a handler stores is the body the client sent.
HandledAsSent ==
  phase = "writing" /\ handled # BadRequest => \E i \in DOMAIN sent : sent[i] = handled
=============================================================================
