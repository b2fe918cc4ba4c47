------------------------------- MODULE Startup -------------------------------
(***************************************************************************)
(* How the server comes up: server_main.cc and NginxConfigParser::Parse    *)
(* (config_parser.cc), from the tokens of a configuration file, through    *)
(* the questions of Config, to a server that routes requests.  ParseToken, *)
(* which makes the tokens, is outside: it may also report an error.        *)
(* What the standard leaves undefined ends in the phase "undefined": the   *)
(* build reads a null pointer or memory behind a container there.  What    *)
(* the handlers answer is in Handlers.                                     *)
(***************************************************************************)
EXTENDS Handlers

CONSTANTS
  Files,       \* the files the server may be started with: tokens
  Targets      \* the targets clients ask for

Token(kind, w) == [kind |-> kind, word |-> w]
Separator(kind) == Token(kind, Word(<<>>))
Normal(w)  == Token("normal", w)
End        == Separator("end")          \* ;
StartBlock == Separator("start block")  \* {
EndBlock   == Separator("end block")    \* }
Comment    == Separator("comment")
BadToken   == Separator("error")
Eof        == Separator("eof")

Kinds == {"normal", "end", "start block", "end block", "comment", "error", "eof"}

\* Only of a word the text is kept.
ASSUME FilesAssumption ==
  /\ \A f \in Files : f \in Seq([kind : Kinds \ {"eof"}, word : Words])
  /\ \A f \in Files : \A i \in DOMAIN f :
       f[i].kind # "normal" => f[i] = Separator(f[i].kind)
  /\ Targets \subseteq Seq(STRING)

VARIABLES
  file,      \* the tokens of the file
  rest,      \* those that are still to be read
  last,      \* last_token_type
  stack,     \* config_stack: a block is the index of its statement, 0 the file
  cfg,       \* the NginxConfig
  phase,     \* where main is
  parsed,    \* what Parse(istream) returned
  port,      \* the port of the acceptor, or -1
  fsmap,     \* filesystem_map_
  routes,    \* the server's routes
  match      \* the last request: its target, the path it was matched with and
             \* the answer

vars == <<file, rest, last, stack, cfg, phase, parsed, port, fsmap, routes, match>>

Running == {"parse", "validate", "port", "extract", "bind", "routes", "listening"}
Ended   == {"exit 0", "exit 1", "signalled", "aborted", Undefined}

TypeOK ==
  /\ file \in Files
  /\ \E n \in 0..Len(file) : rest = SubSeq(file, n + 1, Len(file))
  /\ last \in Kinds \cup {"start"}
  /\ \A i \in DOMAIN cfg : /\ cfg[i].parent \in 0..i-1
                           /\ cfg[i].parent # 0 => cfg[cfg[i].parent].block
                           /\ cfg[i].tokens # <<>>
  /\ \A i \in DOMAIN stack :
       /\ stack[i] = 0 <=> i = 1
       /\ i > 1 => cfg[stack[i]].block /\ cfg[stack[i]].parent = stack[i - 1]
  /\ phase \in Running \cup Ended
  /\ parsed \in BOOLEAN
  /\ port \in -1..MaxPort
  /\ phase = "listening" => port >= 0

Init ==
  /\ file \in Files /\ rest = file
  /\ last = "start" /\ stack = <<0>> /\ cfg = <<>>
  /\ phase = "parse" /\ parsed = FALSE
  /\ port = -1 /\ fsmap = Empty /\ routes = Empty
  /\ match = [target |-> <<>>, path |-> <<>>, answer |-> NoAnswer]

-----------------------------------------------------------------------------
(* Parse(istream), a token at a time. *)

token == IF rest = <<>> THEN Eof ELSE Head(rest)

\* The next token is of this kind; last_token_type unless it is skipped.
Take(kind) ==
  /\ phase = "parse" /\ token.kind = kind
  /\ rest' = IF rest = <<>> THEN <<>> ELSE Tail(rest)
  /\ UNCHANGED <<file, port, fsmap, routes, match>>

Top == stack[Len(stack)]

\* The loop ends: true at an end of file it likes, false at an error.
Return(value) ==
  /\ parsed' = value /\ phase' = "validate"
  /\ UNCHANGED <<last, stack, cfg>>

\* top() or pop() of an empty stack.
FallOff == phase' = Undefined /\ UNCHANGED <<last, stack, cfg, parsed>>

SkipComment == Take("comment") /\ UNCHANGED <<last, stack, cfg, phase, parsed>>

ReadNormal ==
  /\ Take("normal")
  /\ IF stack = <<>> THEN FallOff
     ELSE /\ last' = "normal"
          /\ cfg' = IF last = "normal"
                    THEN [cfg EXCEPT ![Len(cfg)].tokens = Append(@, token.word)]
                    ELSE Append(cfg, Statement(<<token.word>>, Top))
          /\ UNCHANGED <<stack, phase, parsed>>

ReadEnd ==
  /\ Take("end")
  /\ IF last # "normal" THEN Return(FALSE)
     ELSE last' = "end" /\ UNCHANGED <<stack, cfg, phase, parsed>>

\* Mutant: the statement does not get the block.
ReadLooseBlock ==
  /\ Take("start block")
  /\ IF last # "normal" THEN Return(FALSE)
     ELSE /\ last' = "start block"
          /\ stack' = Append(stack, Len(cfg))
          /\ UNCHANGED <<cfg, phase, parsed>>

ReadStartBlock ==
  /\ Take("start block")
  /\ IF last # "normal" THEN Return(FALSE)
     ELSE /\ last' = "start block"
          /\ cfg' = [cfg EXCEPT ![Len(cfg)].block = TRUE]
          /\ stack' = Append(stack, Len(cfg))
          /\ UNCHANGED <<phase, parsed>>

\* Mutant: a closing brace leaves every block.
ReadEndBlocks ==
  /\ Take("end block")
  /\ IF last \notin {"start block", "end block", "end"} THEN Return(FALSE)
     ELSE /\ last' = "end block"
          /\ stack' = <<0>>
          /\ UNCHANGED <<cfg, phase, parsed>>

\* The depth of the stack is not asked for.
ReadEndBlock ==
  /\ Take("end block")
  /\ CASE last \notin {"start block", "end block", "end"} -> Return(FALSE)
       [] OTHER -> IF stack = <<>> THEN FallOff
                   ELSE /\ last' = "end block"
                        /\ stack' = Front(stack)
                        /\ UNCHANGED <<cfg, phase, parsed>>

\* Nor is it at the end.
ReadEof == Take("eof") /\ Return(last \in {"start", "end", "end block"})

ReadError == Take("error") /\ Return(FALSE)

-----------------------------------------------------------------------------
(* Parse(file_name) and main. *)

At(here) == phase = here /\ UNCHANGED <<file, rest, last, stack, cfg, parsed>>

\* The file cannot be opened.
OpenFails ==
  /\ At("parse") /\ rest = file /\ last = "start" /\ cfg = <<>>
  /\ phase' = "exit 1"
  /\ UNCHANGED <<port, fsmap, routes, match>>

\* The paths are looked at even after an error.
Validate ==
  /\ At("validate")
  /\ phase' = CASE ValidateRelativePaths(cfg) = Undefined -> Undefined
                [] ValidateRelativePaths(cfg) = "valid" /\ parsed -> "port"
                [] OTHER -> "exit 1"
  /\ UNCHANGED <<port, fsmap, routes, match>>

AskPort ==
  /\ At("port")
  /\ port' = GetPort(cfg)
  /\ phase' = IF port' < 0 THEN "exit 1" ELSE "extract"
  /\ UNCHANGED <<fsmap, routes, match>>

Extract ==
  /\ At("extract")
  /\ IF ExtractUndefined(cfg) THEN phase' = Undefined /\ UNCHANGED fsmap
     ELSE phase' = "bind" /\ fsmap' = ExtractFilesystemMap(cfg)
  /\ UNCHANGED <<port, routes, match>>

\* The acceptor opens, binds and listens, at port 0 to one the system chooses; it
\* throws where the port is taken or not allowed, and main reports it and returns
\* 0.
Bind ==
  /\ At("bind")
  /\ \/ /\ phase' = "routes"
        /\ port' \in IF ThroughShort(port) = 0 THEN 1..MaxPort ELSE {ThroughShort(port)}
     \/ phase' = "exit 0" /\ UNCHANGED port
  /\ UNCHANGED <<fsmap, routes, match>>

MakeRoutes ==
  /\ At("routes")
  /\ routes' = CreateFactoryMap(fsmap)
  /\ phase' = "listening"
  /\ UNCHANGED <<port, fsmap, match>>

\* hardware_concurrency() may be 0: a pool of no threads has nothing to join.
EmptyPool ==
  /\ At("listening") /\ match.path = <<>>
  /\ phase' = "exit 0"
  /\ UNCHANGED <<port, fsmap, routes, match>>

\* processRequest, up to the response: what a handler throws ends the process.
Process(target, path) ==
  /\ At("listening")
  /\ match' = [target |-> target, path |-> path,
               answer |-> Handle(routes[path], path, target)]
  /\ phase' = IF match'.answer = Thrown THEN "aborted" ELSE phase
  /\ UNCHANGED <<port, fsmap, routes>>

Route(target) == Process(target, LongestPrefixMatching(routes, target))

\* A request that parse_request refuses is an empty one from here on.
RouteUnparsed == Process(<<>>, BadRequest)

\* signalHandler: exit.
Signal ==
  /\ phase \in Running /\ At(phase)
  /\ phase' = "signalled"
  /\ UNCHANGED <<port, fsmap, routes, match>>

Stop == phase \in Ended /\ UNCHANGED vars

Next ==
  \/ SkipComment \/ ReadNormal \/ ReadEnd \/ ReadStartBlock \/ ReadEndBlock
  \/ ReadEof \/ ReadError
  \/ OpenFails \/ Validate \/ AskPort \/ Extract \/ Bind \/ MakeRoutes
  \/ EmptyPool \/ (\E t \in Targets : Route(t)) \/ RouteUnparsed
  \/ Signal \/ Stop

Spec == Init /\ [][Next]_vars

-----------------------------------------------------------------------------
(* What the code keeps true. *)

\* The tokens NginxConfig::ToString writes for block b and those in it.
Written(b) ==
  LET text[i \in 0..Len(cfg)] ==
        LET order == InOrder(cfg, In(cfg, i))
            inner == FlattenSeq([n \in DOMAIN order |-> text[order[n]]])
            words == [n \in DOMAIN cfg[i].tokens |-> Normal(cfg[i].tokens[n])]
        IN IF i = 0 THEN inner
           ELSE IF cfg[i].block THEN words \o <<StartBlock>> \o inner \o <<EndBlock>>
           ELSE Append(words, End)
  IN text[b]

\* A file that Parse accepts is the file ToString writes back, block by block
\* and comments aside, but for the braces nobody closed, which are closed at its
\* end, and for one that nobody opened: no word is lost or lands in another
\* block.
TreeIsFile ==
  phase = "validate" /\ parsed =>
    Written(0) \o (IF stack = <<>> THEN <<EndBlock>> ELSE <<>>)
      = Leaving(file, {Comment}) \o [n \in 1..Len(stack) - 1 |-> EndBlock]

\* The listen lines that no other is preferred to: the first of their block, where
\* no block around theirs has one.  The chain is the line and the blocks it is in.
Preferred(i) ==
  /\ IsListen(cfg[i])
  /\ \E chain \in SUBSET DOMAIN cfg :
       /\ i \in chain
       /\ \A j \in chain :
            /\ cfg[j].parent \in chain \cup {0}
            /\ \A k \in In(cfg, cfg[j].parent) : IsListen(cfg[k]) => j = i /\ i <= k

\* A server that listens does so on the number of such a line, which is a port; or
\* where that is 0, on one the system chooses.  Nothing is claimed of a number that
\* an int does not hold: it is out of the range that config_parser.cc:67 and the
\* test largePosPort speak of, and the code may serve another port all the same.
PortFromListen ==
  phase = "listening" =>
    \E i \in DOMAIN cfg :
      LET n == cfg[i].tokens[2].num
      IN /\ Preferred(i)
         /\ \/ n \in 1..MaxPort /\ port = n
            \/ n = 0
            \/ n >= 2^IntBits

\* No handler is ever given an absolute root: extract_filesystem_map finds none
\* that validate_relative_paths has not seen.
RootsAreRelative ==
  \A l \in DOMAIN routes : routes[l].root = <<>> \/ routes[l].root[1] # "/"

\* Entries of the file for a location and a handler type: lines of the
\* location blocks with that path, whatever the slashes at its end.
Entries(path, type) ==
  {i \in Lines(cfg) :
     LET loc == cfg[cfg[i].parent].tokens
     IN HandleTrailingSlashes(loc[2].text) = path /\ loc[3].text = <<type>>}

Root(path, type) == cfg[Min(Entries(path, type))].tokens[2].text

\* Who should serve a path: a built-in handler before a static location, that
\* before one of the API, and of several the first in the file.
Server(path) ==
  IF path \in DOMAIN BuiltIn \cup {Slash, BadRequest}
  THEN Factory(IF path = Slash THEN "error" ELSE path[Len(path)], <<>>)
  ELSE IF Entries(path, "StaticHandler") # {}
  THEN Factory("StaticHandler", Root(path, "StaticHandler"))
  ELSE Factory("ApiHandler", Root(path, "ApiHandler"))

IsServed(path) ==
  \/ path \in DOMAIN BuiltIn \cup {Slash, BadRequest}
  \/ Entries(path, "StaticHandler") \cup Entries(path, "ApiHandler") # {}

\* A request goes to the handler of the longest served path its target begins
\* with, whoever put the routes in and in whatever order they are looked at;
\* one that begins with none goes to the error handler.
RoutedAsConfigured ==
  phase = "listening" /\ match.target # <<>> =>
    LET fits(n) == IsServed(SubSeq(match.target, 1, n))
        n == Max({0} \cup {m \in 1..Len(match.target) : fits(m)})
    IN /\ match.path = IF n = 0 THEN Slash ELSE SubSeq(match.target, 1, n)
       /\ routes[match.path] = Server(match.path)

\* What follows the location in the target, part by part.
Beyond == Split(SubSeq(match.target, Len(match.path) + 1, Len(match.target)))

\* A static location whose root is "." or begins with "./" is answered with the
\* file that the target leads to from the root, which is found from the parent of
\* the working directory; with 404 if that is not a file; and not at all if the
\* system will not look the path up, which ends the process.  A target without
\* ".." is answered with a file below the root; one with it may leave the root.
ServedFromRoot ==
  LET root  == Root(match.path, "StaticHandler")
      top   == Walk(WorkDirectory, <<DotDot>> \o Tail(Split(root)))
      found == Walk(top, Beyond)
  IN /\ match.target # <<>>
     /\ match.path \notin DOMAIN BuiltIn \cup {Slash}
     /\ Entries(match.path, "StaticHandler") # {}
     /\ root = Dot \/ IsPrefix(<<".", "/">>, root)
     => /\ found = Refused <=> phase = "aborted"
        /\ found # Refused =>
             IF found \in Disk /\ Last(match.target) # "/"
             THEN match.answer.code = 200 /\ match.answer.body = found
             ELSE match.answer.code = 404
        /\ match.answer.code = 200 /\ (\A n \in DOMAIN Beyond : Beyond[n] # DotDot) =>
             IsPrefix(top, match.answer.body)

\* The API is given what follows its location in the target, after the parts of
\* the location but the first: the entity of /api/v1/shoes is "v1".  No location
\* that is routed makes split take a part from an empty vector.
ApiSeesWhatFollows ==
  match.path # <<>> /\ routes[match.path].type = "ApiHandler" =>
    match.answer = PassedOn(Tail(Split(match.path)) \o Beyond)
=============================================================================
