------------------------------- MODULE Handlers -------------------------------
(***************************************************************************)
(* RequestHandlerDelegate::processRequest (request_handler_delegate.cc)    *)
(* and the handlers that keep no state: what a request for a target is     *)
(* answered on the path that was matched, which is also the location the   *)
(* factory on it was made with.  Text is in chunks, as in Config: a "/" is *)
(* one, and the extension of a file name is.                               *)
(***************************************************************************)
EXTENDS Config

\* The disk, each path the names from its root.  It has no links.
CONSTANTS
  Disk,           \* the regular files, those the server can open
  Directories,
  Barred,         \* the directories that the server may not search
  WorkDirectory,  \* where the server was started
  TooLong         \* names that are longer than the system takes

Dot    == <<".">>
DotDot == <<"..">>

\* What a path leads to that is not on the disk: a name that is not there, or one
\* that the system does not look up.
Nowhere == << <<>> >>
Refused == <<Dot>>

ASSUME DiskAssumption ==
  /\ Disk \cup Directories \subseteq Seq(Seq(STRING))
  /\ {Nowhere, Refused} \cap (Disk \cup Directories) = {}
  /\ \A d \in Directories : d # <<>> => Front(d) \in Directories
  /\ WorkDirectory \in Directories

\* set_response: a status, a content type and a body, which is the request, a
\* file or a line of the handler's own; a request that Palette or FileStore
\* models goes on with the parts of its target.
Answer(code, type, body) == [code |-> code, type |-> type, body |-> body]
Own       == <<>>
NoAnswer  == Answer(0, "", Own)
Thrown    == Answer(0, "thrown", Own)
PassedOn(parts) == Answer(0, "passed on", parts)

-----------------------------------------------------------------------------
(* Paths. *)

\* The elements other than x, in their order.
Without(s, x) == Leaving(s, {x})

\* The parts of a text between its slashes, the empty ones left out.
Split(text) ==
  LET read(parts, c) ==
        IF c = "/" THEN Append(parts, <<>>)
        ELSE Append(Front(parts), Append(Last(parts), c))
  IN Without(FoldLeft(read, << <<>> >>, text), <<>>)

\* A name further, as the system resolves a path: only a directory holds names,
\* "." is itself and ".." the directory that holds it.
Further(at, name) ==
  IF at \notin Directories THEN IF at = Refused THEN Refused ELSE Nowhere
  ELSE IF at \in Barred THEN Refused
  ELSE IF name = Dot THEN at
  ELSE IF name = DotDot THEN IF at = <<>> THEN at ELSE Front(at)
  ELSE IF name \in TooLong THEN Refused
  ELSE IF Append(at, name) \in Disk \cup Directories THEN Append(at, name)
  ELSE Nowhere

Walk(at, names) == FoldLeft(Further, at, names)

Find(path) == Walk(WorkDirectory, Split(path))

Mappings ==
  ".gif" :> "image/gif" @@ ".htm" :> "text/html" @@ ".html" :> "text/html"
    @@ ".jpg" :> "image/jpeg" @@ ".png" :> "image/png" @@ ".pdf" :> "application/pdf"
    @@ ".zip" :> "application/zip" @@ ".js" :> "application/javascript"
    @@ ".json" :> "application/json" @@ ".css" :> "text/css" @@ ".ico" :> "image/x-icon"

ExtensionToType(extension) ==
  IF extension \in DOMAIN Mappings THEN Mappings[extension] ELSE "text/plain"

\* A name of one chunk has no extension.
Extension(name) == IF Len(name) > 1 THEN Last(name) ELSE ""

-----------------------------------------------------------------------------
(* The handlers. *)

\* A file the server sees and can open, whole; 404 where there is none.  Only a
\* directory can have a slash after it.  What exists() does not take for a missing
\* file it throws, and no one catches that.
AnswerFile(path) ==
  LET found == Find(path)
  IN IF found = Refused THEN Thrown
     ELSE IF found \in Disk /\ Last(path) # "/"
     THEN Answer(200, ExtensionToType(Extension(Last(found))), found)
     ELSE Answer(404, "text/plain", Own)

\* Mutant: the location stays in front of the target.
ServeWholeTarget(location, root, target) ==
  AnswerFile(<<"..", "/">> \o Tail(root \o <<"/">> \o target))

\* The location is cut off the target and the root put before it; "../" takes
\* the place of the first character, which the root is expected to spend on ".".
ServeStatic(location, root, target) ==
  LET rest == SubSeq(target, Len(location) + 1, Len(target))
  IN AnswerFile(<<"..", "/">> \o Tail(root \o <<"/">> \o rest))

ServeColor ==
  AnswerFile(<<"..", "/", "frontend", "/", "build", "/", "index", ".html">>)

\* Mutant: the first part is kept.
ServeApiWhole(target) == PassedOn(Split(target))

\* split drops the first part of the target; there is none to drop in an empty
\* vector.
ServeApi(target) ==
  IF Split(target) = <<>> THEN Answer(0, Undefined, Own) ELSE PassedOn(Tail(Split(target)))

\* factory->create() and handle_request
Handle(factory, location, target) ==
  CASE factory.type = "StaticHandler" -> ServeStatic(location, factory.root, target)
    [] factory.type = "ApiHandler"    -> ServeApi(target)
    [] factory.type = "palette"       -> PassedOn(<<>>)
    [] factory.type = "color"         -> ServeColor
    [] factory.type = "echo"          -> Answer(200, "text/plain", target)
    [] factory.type = "error"         -> Answer(404, "text/plain", Own)
    [] factory.type = "bad request"   -> Answer(400, "text/plain", Own)
    [] OTHER                          -> Answer(200, "text/plain", Own)
=============================================================================
