# A TLA+ model of the swan web server

The repository is a small web server in C++: Boost.Asio for the network, Boost.Beast for HTTP, a pool of threads, a
configuration file in the style of nginx, and handlers that echo, serve files, keep a CRUD store of JSON files on disk
and ask web services for colour palettes. This directory holds a model of it in TLA+, the configurations that TLC
checks, and proofs that TLAPS checks. Paths below are relative to the repository.

    tlc -workers 2 -config store_race.cfg MCFileStoreHistory.tla
    tlapm FileStoreProofs.tla

Contents: [inventory](#inventory), [modules](#modules-and-the-code-they-model), [runs](#runs),
[disagreements found](#where-the-code-and-its-documents-disagree), [fairness](#fairness), [proofs](#proofs),
[limits](#what-is-only-model-checked-and-what-is-not-modelled), [plan](#plan).

## Inventory

How a request travels:

    main ── Parse ──> NginxConfig ── getPort, extract_filesystem_map ──> Server (routes, acceptor)
                                                                           │ start_accept / handle_accept
    client ══ TCP ══> Session (data_) ── string ──> RequestHandlerDelegate │ threads of io_service::run
                                                     parse, longest prefix │
                                                     factory.create ──> RequestHandler
                                                                           ├ ApiHandler ── RealFileSystem ── disk
                                                                           ├ PaletteHandler ── three web services
                                                                           └ Static, Color, Echo, Health, Sleep, errors

| component | state it keeps | operations | how it meets the others |
|---|---|---|---|
| CRUD API and file store (`src/request_handler/api_handler.cc`, `src/real_file_system.cc`) | files on disk; `file_creation_mutex_`; `uri` and paths per request | POST, PUT, GET, list, DELETE | one `RealFileSystem` is shared by all API handlers of all threads; exceptions leave it uncaught |
| session and request parsing (`src/session.cc`, `src/request_handler_delegate.cc`) | socket, the buffer `data_[1024]`, `httpResponse_` | `start`, `handle_read`, `handle_write`, `parse_request` | callbacks of the io_service; calls the delegate inside `handle_read` |
| server and pool (`src/server.cc`) | acceptor, `routes`, pool size | `start_accept`, `handle_accept`, `run`, `create_factory_map` | owns the io_service whose handlers run on every thread; a handler that blocks takes its thread with it |
| configuration parser (`src/config_parser.cc`) | tree of statements, `filesystem_map_`, the stack of open blocks | `ParseToken`, `Parse`, `getPort`, `validate_relative_paths`, `extract_filesystem_map`, `ToString` | called by `main` before there is a second thread |
| startup and routing (`src/server_main.cc`, `request_handler_delegate.cc`) | exit status, the routes | `main`, `signalHandler`, `longest_prefix_matching` | what the configuration says becomes the routes |
| palette handler and API (`src/request_handler/palette_handler.cc`, `src/palette_api.cc`) | none between requests, but libcurl's global state | a pipeline of calls to three services | blocks its thread for as long as the services do |
| static and color handlers, MIME types (`src/request_handler/static_handler.cc`, `color_handler.cc`, `src/mime_types.cc`) | none; they read files nobody writes | GET | location and root come from the routes |
| echo, health, error, bad request, sleep | none | fill in a response | sleep blocks its thread |
| factories (`src/request_handler_factory/`) | location and root of a route | `create` | made by `create_factory_map`, one for each route |
| fake file system (`src/fake_file_system.cc`) | a set of path strings | those of the file system | the unit tests give it to the API handler in place of the real one |
| page (`frontend/src/pages/`) | text, `palettes`, `render_json`, rendered data, the items put into the document | type, Generate, List!, promises and effects | fetches `/palette`; both tabs share module variables and the document |
| logger, build and tests | none | output | |

What is hard in it, and what makes each component right:

* **CRUD store.** Handlers of several threads share a directory tree and protect part of what they do with a mutex
  that each of them unlocks twice (explicitly, and by the destructor of its `unique_lock`). DELETE takes no lock.
  Existence tests and uses are separate system calls. Any exception ends the process. Right means: ids are not handed
  out twice, what is acknowledged is stored, nobody waits for the mutex for ever, and the process dies only of known
  causes.
* **Session.** TCP cuts the stream anywhere, the buffer is reused, `bytes_transferred` is ignored. Right means: what a
  handler is given is what the client sent.
* **Server.** No strand: that a session's handlers never overlap or run after `delete this` is a matter of how many
  operations are outstanding. Right means: exactly one per live session, none for a deleted one, accepting never
  stops, and a slow handler does not stop the others.
* **Handlers without state.** A target is cut and glued as text: the length of the location off its front, the root
  before it, the first part of an API target away. Right means: the file that is served, or the path the API is given,
  is the one the target names below its location.
* **Palette and page.** A handler goes through three services, each of which may fail; a page shows what arrives, in
  whatever order, partly through React and partly by hand. Right means: a palette is whole or not given, every fetch
  ends, and the page shows the last palette.
* **Fake file system.** Unit tests over it say something about the server only as far as it answers like the disk.
* **Configuration.** A stack without a test for emptiness, indices into token lists that may be shorter, numbers
  through `long`, `int`, `short` and `unsigned short`. Right means: an accepted file is the tree the server uses, the
  port is the one in the file, and requests go where the file says.

The hazards behind these, each at its line and with the properties that watch it, are listed in `PROJECT.json`.

## Modules and the code they model

| module | models | role |
|---|---|---|
| `FileStore` | `api_handler.cc`, `real_file_system.cc`, over the threads of `Server::run` | one action per system call, threads interleave between them |
| `ApiStore` | what the API promises a client | abstract: a map from paths to bodies, each request takes effect in one step |
| `FileStoreRefinement` | | the mapping from `FileStore` to `ApiStore` |
| `FileStoreHistory` | | `FileStore` with a history of what clients were told is stored |
| `FakeFileStore` | `fake_file_system.cc` | the double, in lockstep with `FileStore` |
| `FileStoreProofs`, `FileStoreSolo` | | theorems about `FileStore`: types, mutex, ids and disk, what stays stored and for how long; one thread implements `ApiStore`, and the fake answers as the disk does |
| `SessionProofs`, `ServerProofs`, `StartupProofs`, `ConfigLexerProofs`, `FrontendProofs` | | theorems about `Session` and `SessionStore`, `Server`, `Startup`, `ConfigLexer`, `Palette` and `Frontend` |
| `Recursion` | | lemmas: that folds and other recursive definitions exist, and what `Leaving` and `FlattenSeq` return |
| `Session` | `session.cc`, the parsing half of `request_handler_delegate.cc` | one connection, byte stream against buffer |
| `SessionStore` | `handle_read` over `handle_request` | composes `Session` and `FileStore`: from a client's bytes to the disk and back |
| `Server` | `server.cc`, the callbacks of `session.cc`, the pool | operations, completions, threads; many connections |
| `Config` | `NginxConfig`, `create_factory_map`, `longest_prefix_matching` | pure operators |
| `Sieve` | `std::remove` in `split`; the comments that `Parse` skips; the statements of one block | one operator: a sequence without some of its elements |
| `Handlers` | `processRequest`, `static_handler.cc`, `mime_types.cc`, the other small handlers, `split` | pure operators: what a target is answered on a route; extends `Config` |
| `Startup` | `NginxConfigParser::Parse`, `main` | the parser token by token, then `main` to the listening server and its answers; extends `Handlers` |
| `ConfigLexer` | `NginxConfigParser::ParseToken`, `ToString`, `config_parser_main.cc` | a file character by character, its tokens, and the text written back |
| `Palette` | `palette_handler.cc`, `palette_api.cc` | one request's way through three services that fail or answer nonsense |
| `Frontend` | `frontend/src/pages/create.js`, `list.js` | the page, composed with `Palette`, which answers it |
| `MCFileStore`, `MCFileStoreHistory`, `MCFakeFileStore`, `MCSession`, `MCSessionStore`, `MCServer`, `MCStartup`, `MCConfigLexer`, `MCFrontend` | | small instances |

`Session` says what a request is, `Server` when its handler runs and on which thread, `Startup` which handler that is
and what the small ones answer, `FileStore` and `Palette` what the two largest handlers do, `ConfigLexer` where the
tokens of `Startup` come from. Each abstracts what the others say to a choice: `Server` knows only that a handler may
be slow, `FileStore` takes any request at any free thread. Two pairs are composed, because what can go wrong lies
between them: `SessionStore` and `Frontend`.

### FileStore

A thread runs a handler to its end, so a request is a thread's `pc`, `job`, `name` (the file number it works on),
`open` (the file it holds open) and `reply`. `dirs` and `files` are the disk and survive `Crash`, which stands for an
exception that no frame between the file system and `io_service::run` catches; `Signal` is `signalHandler`, which calls
`exit` whatever the threads are doing; `Restart` starts a new process on the disk as it is. `lock` is
`file_creation_mutex_`. With `DiskMayFill`, `create_directory` may throw and a body may be written in part
(`WriteBytes`), which nobody notices, as the results of `fputs`, `fflush` and `fclose` are not looked at.

An exception needs no other request where the system will not look a name up at all: `exists` and `is_regular_file` throw
over an entity or a file number in `TooLong` (`WriterExists`, `GetExists`, `IsRegularFile`), and `fopen` fails over one.
`Here` is the entity `.`, which `split` lets through: its directory is `data_path`, which always exists and holds the
entities beside any files of its own (`Below`). A POST to it throws in `stoi` over the first entity, a GET lists them,
and a DELETE that finds it empty but for the file it removes is refused by `rmdir`, after `remove_all` has removed
what has appeared in it meanwhile. `status` keeps the cause of a crash; `CrashNeedsCause` says which of them need a
DELETE, which need something on the disk, and leaves those that any one request can bring about.

| action | code |
|---|---|
| `HandlePost`, `HandlePut`, `HandleGet`, `HandleDelete`, `Refuse` | `ApiHandler::handle_request`: the split of the target, `isFileNumber`, the handlers' tests of `uri.size()` |
| `WriterExists`, `CreateDirectory`, `Lock`, `ScanDirectory`, `OpenFile`, `OpenFails`, `ExplicitUnlock`, `WriteFile`, `DestroyLock` | `write_file`, `gen_id_and_write_file`, `get_unique_file_name` |
| `NameNoEntity`, `GetExists`, `ListDirectory`, `IsRegularFile`, `ReadFile` | `handleGet` over `get_file_list`, `read_file` |
| `IsRegularFile`, `UnlinkFile`, `UnlinkMissing`, `IsEmpty`, `Purge`, `RemoveDirectory` | `handleDelete` over `RealFileSystem::remove` |
| `Respond` | the handler returns |
| `Signal`, `Restart` | `signalHandler`; the operator |

Choices worth knowing. `Unlock` frees the mutex whoever holds it, as `pthread_mutex_unlock` of a normal mutex does; the
standard leaves it undefined. `Wrap` is what signed overflow does in the build. A writer's descriptor has its own
offset, starting at 0 (`Overlay`), and goes on writing to an unlinked file that nobody sees. `ScanDirectory` reads a
directory in one step; `Purge` and `RemoveDirectory` are the two system calls of `remove_all` that matter. A second
`create_directory` of a directory that has appeared meanwhile is no error, as in Boost. Two variables are history:
`stray` (a thread has freed a mutex another held) and `deleted` (this process has accepted a DELETE).

`FileStoreHistory` adds two histories and changes no step. `alone` holds the writers whose file is whole so far and that
nobody else has touched since they opened it; `kept` what such writers were told is stored. A claim is given up when a
client asks to overwrite or delete that file, and all of them when a mutex was freed under its owner. They outlive the
process, as clients do, so `AcknowledgedIsKept` speaks of what crashes, signals and restarts leave.

`FakeFileStore` runs the handler over `FakeFileSystem` beside the one over the disk: when the one thread takes up a
request, the fake answers it at once, and `FakeAnswersAlike` compares the answers of a process that lives. They differ
in one thing, which the property names: the fake never removes a directory, so a GET of an entity whose last file was
deleted is answered `[]` over the fake and 400 over the disk. After a 500 or a restart the fake is set to what is on
disk, since it never fails.

### Session

The client's stream is a sequence of cells, one for a request line, one for the rest of the header with its
`Content-Length`, one per byte of a body; so a header field cut in two by a read is a cell that has not arrived.
`data_` starts uninitialised (`Nul` or `Junk` in every cell). A read overwrites its front and leaves the rest, and
`HandleRead` parses the C string in it; where it holds no NUL the string runs into one more cell of `Junk` (or stops,
if the memory behind happens to be 0). `expect` is history: what a read that holds a whole request should be handled
as.

`SessionStore` lets `Session` hand its requests to the handlers of `FileStore` on the one thread that runs the
completion: `Process` parses and enters a handler, `Serve` is a step of the handler, `Answer` its return, `Continue` the
write and the next read; the client sends, closes or resets at any time between. `written` is history: the body of the
last write of a file, as its client sent it, if the request came in one piece.

### Server

`ops` are the outstanding reads and writes, `queue` the completions that no thread has taken, `running` what each
thread does. The kernel's `Complete...` steps move an operation to the queue, `Take` moves a completion to a thread,
`HandleAccept`, `HandleRead`, `HandleWrite` are the three callbacks, each starting the operations the code starts.
`EndpointThrows` is `remote_endpoint()` on a connection that has been reset: the process dies.

### Config and Startup

A configuration is the sequence of its statements, each with the index of the statement whose block holds it, which is
the tree of `NginxConfigStatement`s written flat; `stack` holds the open blocks as `config_stack` does. Where the code
leaves the C++ standard (`top()` or `pop()` of an empty stack, a null `child_block_`, `tokens_[1]` of a shorter line)
the phase becomes `"undefined"` and nothing more is claimed. `IntBits` scales the widths of `long`, `int` and the port
together, so that the conversions `atoi` -> `int` -> `short` -> `unsigned short` are computed and not assumed.
`Written` is `ToString`, used as the reference that `Parse` is compared with. `Bind` puts the port in `port`; for port
0 that is any, as the system chooses. `PortFromListen` says which listen line the port is from (`Preferred`: the first
of its block, with none in a block around it) and states its number with no arithmetic of the code in it: the port is
that number. Of a number that an `int` does not hold it says nothing, and names that case: there the code does not do
what its messages and tests say (see below).

### Handlers

Text is in chunks, as in `Config`: a slash is one, and so is the extension of a name. `Split` is `split` of the API
handler and also how a path is read. `ServeStatic` does what the handler does to the text, the loss of the root's first
character included; where that leads is for the system to say: `Walk` goes from the working directory name by name
(`Further`), `.` staying and `..` going up, through `Directories` to a file in `Disk`, to `Nowhere`, or to `Refused`
where a name is too long or a directory may not be searched (`Barred`). `exists` throws for `Refused` and the process
ends (`Thrown`, phase `"aborted"`). So a target with `..` may leave the root, and `ServedFromRoot` says where it leads;
only for targets without does it say that the file is below the root. `Handle` is the virtual call through the factory:
the answer is a status, a type and the file or the text it is made of. Requests for the API and for palettes are
`PassedOn` with what they are given, to `FileStore` and `Palette`. `Process` in `Startup` is `processRequest`, on the
route that matched or on that of the bad request handler.

### ConfigLexer

One action per case of the switch in `ParseToken`, one character a step; `Get` is `input->get()`, and `EndWord` leaves
`read` alone because the code puts the character back. Characters are classes: one letter for all without a meaning,
the space for the tab. The two quote states are one, since the quote is the first character of `value`. `PrintConfig`
is `config_parser_main`: a file whose tokens `Parse` accepts, in blocks that match, is written with `ToString`
(`Printed`, without indentation), and the text is read once more. `lossy` is history: a quote or a backslash was
escaped, which `ToString` cannot write back, as the word no longer has its backslash. `begun` and `spans` are history,
too: where the token under way begins, and from where to where each token that was returned lies in the text.
`NothingLost` compares the tokens with the text at those places, letter for letter: a word or a comment is what lies
there, a word in quotes is that without the backslashes of its escapes, and between two places there are only blanks.
What is under way when the file ends is lost, which the property states as the only loss.

### Palette

The handler's locals are the state; each call of a service is an action, with the answer chosen freely: `Fails` (curlpp
throws, and the code catches), `Cut` and `Nonsense` (`substr` and `read_json` throw, and nobody catches: `Die`), or a
proper answer. `NameAt` is `colorNames[i]`, `"undefined"` behind the end of the vector. `told` and `answer` are history.

`Frontend` is the page and the network in front of it. `Generate` fetches, `Arrive` is the promise with all it does
(`setData`, `palettes.push`, `render_json`), in any order of the answers, `Render` the task in which React renders what
the promise set, `Type` a key stroke, which renders at once with the data as it is, `List` the button of the other tab.
`ShowPalette` and `ShowPalettes` are the effects, with what they do to the document. `Blank` is what React 18 does
where an effect throws and there is no error boundary: it takes the tree away. Other clients ask as well
(`TakeAnother`), so the handler may be busy or dead for reasons the page does not see.

## Runs

| run | expects | shows | states |
|---|---|---|---|
| `store_all` | pass | two threads, two requests of any method and any shape of target, any leftovers, a disk that fills up, signals, names that are too long and the entity `.`: types, causes of a crash, and that every request is answered or the process dies | 306 thousand |
| `store_race` | pass | three threads, four POST, PUT, DELETE requests over one entity: mutual exclusion and fresh ids while no unlock was stray; what is acknowledged is stored until a DELETE, and a file with a lone writer until a client asks for that very file, over crashes, signals and full disks | 930 thousand |
| `store_solo` | pass | one thread: the file store implements `ApiStore`, and the fake of the unit tests answers alike | 50 thousand |
| `post_overwrites` | violation | two POSTs get one id | |
| `purge_non_empty` | violation | a DELETE removes another client's new file | |
| `torn_put` | violation | two PUTs leave a mixture | |
| `session` | pass | three requests to the API, cut in every way, over any content of the buffer: a request that one read holds whole is handled as sent, and a body whose request came in one piece is read back as sent | 3.2 million |
| `session_split` | violation | a request in two reads is handled with a body nobody sent | |
| `server` | pass | two threads, a quick and a slow connection, two requests each: one thing under way per session, one accept, quick requests answered, sessions of clients that left freed | 22 thousand |
| `startup` | pass | every file of up to five tokens and some two thousand whole ones: the tree is the file, the port is that of the first listen line, roots are relative, requests go to the handler the file names, a static target is answered with the file it leads to from the root, which is below the root if it has no `..`, the API is given what follows its location | 111 thousand |
| `lexer` | pass | every text of up to four characters and longer ones with quotes, comments and blocks: the text is its tokens with blanks between them, letter for letter, and only a token that the file does not end is lost; what `ToString` writes reads back as the same tokens | 127 thousand |
| `palette` | pass | the page and other clients, any answers of the services: a palette is whole or not given, a failed call does not end the process, every request is answered, every fetch ends, the page shows the palette that arrived last and goes blank only over an answer that was no palette or a key pressed before the first one is rendered | 277 thousand |

### Bounds, and why they are enough

* `store_all`: `IntMax = 3` and file numbers 3 and 5 put one file at the largest `int` and one above it, so overflow
  and the exception of `stoi` happen; number 7 and the entity `long` are too long, and `.` is an entity, with a leftover
  file of its own or without. Two bodies of different length let one show behind the other. Two requests
  suffice for every pair of methods to race; longer sequences come in `store_race` and `store_solo`.
* `store_race`: three threads let one free the mutex, one be inside and one enter (two suffice for the double unlock to
  do harm, as `post_overwrites` shows); four requests let a thread come back after a DELETE. `IntMax = 2` makes the third
  POST overflow. The disk is empty at first: leftovers are what a signal and `Restart` leave. A body of one byte may be
  written or not. Threads are symmetric.
* `store_solo`: four requests in a row, which reach every pair of consecutive requests from every disk that up to two
  earlier ones leave, with file number 3 above `IntMax = 2`.
* `session`: a buffer of four cells holds two cells of header and two of body, so a request may fit with room to
  spare, fit exactly, or be longer than what a read leaves; a body with a NUL is among them. Three requests let the
  remains of the first two lie behind the third: a PUT or POST, another request, and a GET. One connection and one
  thread, as one connection never has two handlers (`Server`'s `OneThingUnderWay`); what other connections do to the
  disk is `store_race`.
* `server`: the property of the pool needs one thread more than slow connections. `MaxAsked = 2` makes a session loop
  from its write back to a read. `Cardinality(Slow) < Cardinality(Threads)` holds of the instance, so the liveness
  properties are not vacuous.
* `startup`: all sequences of six kinds of tokens up to length five reach every pair of `last_token_type` and token
  and every under- and overflow of the stack by two; the whole files combine every path, handler, root and port of
  interest in one server block, two server blocks, or outside. `IntBits = 6`: ports are 0..7, an `int` has 6 bits, a
  `long` 12; `listen` numbers are 0, below and above each, and one in range and one not are in every order. Targets reach
  a file, a directory, a name that is none, one
  with and without extension, and the location itself, with `..` out of the root, through it, above the top and behind a
  file, a name that is too long and a directory that may not be searched; the disk has no links. The first chunk of a root is one character, which is what the code replaces.
* `lexer`: four characters of eleven classes reach every pair of state and character, with one before to get there and
  one behind for the look ahead, and end in every state; six characters with a quote hold an escape within quotes and a word behind them; whole
  files give `ToString` two words, a block and a comment.
* `palette`: bodies are empty, blank, a word, a word between blanks and a text the server refuses; two colours put a
  failing call first or after a name was brought. Two requests (`MaxAsked = 2`) are two fetches under way that overtake
  each other, or one and another client; `MaxListed = 2` lets the list be shown once with two palettes or twice with one.

## Where the code and its documents disagree

* **The mutex is unlocked twice** (`src/real_file_system.cc:103`, run `post_overwrites`): POST A unlocks, POST B locks,
  A's destructor unlocks B's mutex, POST C reads the same directory as B. Both get the same id and the second `fopen`
  empties the first's file; the comment there says `// creates new file`.
* **DELETE removes more than an empty directory** (`src/real_file_system.cc:48`, run `purge_non_empty`): between
  `is_empty` and `remove_all` another request stores a file; the comment says `// if directory is empty, delete it`.
* **Two PUTs of one file can mix** (`src/real_file_system.cc:69`, run `torn_put`): the mutex is released before the
  body is written, and `flockfile` locks a `FILE` that no other thread has.
* **A request in two reads** (`src/request_handler_delegate.cc:17`, run `session_split`): nobody asks the parser
  whether it is done. The integration test compares what it sent with what was stored.

Seen, modelled as the code has it, and not the subject of a run:

* `listen 4294967376;` makes the server listen on port 80, because `atoi` keeps the low 32 bits and only what is left
  is compared with the range (`src/config_parser.cc:64`, `Atoi`), although the code calls such a number "not in valid
  range [0-65535]" and the test `largePosPort` expects -1 for one that is too large.
* The repository's `README.md:37` says that a `listen` can be overwritten by a later one, while `getPort` takes the
  first of a block (`GetPort`, `Preferred`).
* A file that ends within a word is accepted without the word (`src/config_parser.cc:311`, `EndOfFile`), and one with
  a brace too many as well: `Parse` is said to return true iff the file is valid, and accepts `a { } }`
  (`src/config_parser.cc:371`, `ReadEndBlock`).
* `trim_whitespace` cuts the end of the string it was given, not of the one whose front it has just cut, so leading
  blanks stay (`src/request_handler/palette_handler.cc:17`, `TrimWhitespace`).
* An entity, a file number or the name of a static file that is too long makes `exists` or `is_regular_file` throw,
  and the process ends (`src/request_handler/api_handler.cc:86`, `src/request_handler/static_handler.cc:26`).
* The entity `.` is `data_path` itself (`Here`).
* A static target with `..` may leave the root (`static_handler.cc:23`, `ServeStatic`).
* GET of a target with no entity copies `uri[0]` of an empty vector (`NameNoEntity`).
* A file number above the largest `int`, which PUT accepts, makes every later POST to that entity end the process,
  after a restart too (`ScanDirectory`).
* `write_file` calls `funlockfile` on a `FILE` that `fclose` has freed (`src/real_file_system.cc:74`).
* A server with no threads, where `hardware_concurrency` is 0, ends at once (`EmptyPool`).
* An API location of two parts gives its second part to the handler as the entity
  (`src/request_handler/api_handler.cc:36`, `ServeApi`).
* The fake file system keeps the directories that the real one deletes (`src/fake_file_system.cc:48`, `FakeDelete`).
* The page goes blank after any answer but 200, and after a key stroke between the arrival of the first palette and
  its rendering (`frontend/src/pages/create.js:55` and `:90`, `ShowPalette`).
* `List!` adds all palettes again behind those that are listed (`frontend/src/pages/list.js:35`, `ShowPalettes`), and
  the next palette that is shown takes them all away (`create.js:56`).

## Fairness

Safety is checked and proved without any. `FileStore!FairSpec` has weak fairness of `Step(t)` for each thread: the
kernel runs every thread that can run. That is enough for `Answered`, because a waiting thread finds the mutex free
for ever once the others have finished, there being finitely many requests; with requests without end a thread could
starve, and nothing in the code rules that out. Clients and the operator (`Restart`) owe nothing.

`Server!FairSpec`: the kernel completes reads and writes that can complete, threads take completions and finish
handlers (weak fairness). `CompleteAccept` is strongly fair, because a failed accept (no descriptor left, say) may
come back any number of times but the kernel does not refuse for ever. A slow handler need not end at all: the
properties are about the other threads. `SessionsFreed` uses that a read or write on a connection that its client has
left completes, with an error or with nothing read, which is the kernel's doing.

`Frontend!AppSpec`: weak fairness of the handler's steps (`Work`, `Reply`), of `Take` (sockets are served in turn), of
`Arrive` and of `Render` (promises are run and React runs its task), and of `Reject` where the server has died (a
connection to no process is refused). The handler's part includes that a service answers at last or the connection to
it breaks, which is an assumption on the services: the code sets no timeout. A service that is silent for ever is a
slow handler, and what that costs the others is `Server`'s `QuickAnswered`. Users owe nothing.

## Proofs

Most theorems have the form `Spec => []Inv`; `KeepsPage` is about steps, and `Implements` and `ServesThePage` say that
one specification implements another. None of them needs fairness, and they hold for every value of the constants that satisfies the assumptions below: any number of threads,
connections, entities, files, bodies, requests, statements, colours. Steps that go wrong (signals, full disks, failing
calls, resets) are part of the specifications, so the theorems hold with them.

### Assumptions

Each is an `ASSUME` of the module that declares the constants, and TLC evaluates it in every run over that module.

| module | assumption | why the code justifies it |
|---|---|---|
| `FileStore` | file numbers are naturals, `IntMax` a positive natural, bodies sequences of bytes with the empty one among them; a target is a sequence whose first part is an entity and whose second a file number or no number; `Free` is no thread; `.` is not too long, nor is a number up to `IntMax`, and no leftover file has a name that is | what `split` and `isFileNumber` let through; `Free` is the model's word for an unlocked mutex; an `int` has ten digits and a file's name 255 characters |
| `FakeFileStore` | the method of `NoJob` is no method | the model's word for a thread without a request |
| `Session` | the buffer has room for a cell, and a client sends a natural number of requests; a request has a number for its target and a sequence of bytes, NUL among them, for its body | `max_length` is 1024; the targets are numbered for TLC's sake |
| `SessionStore` | the method of every request is GET, POST, PUT or DELETE | the methods `ApiHandler` serves; it answers any other with 400 and touches no file |
| `Server` | slow connections are connections, `Idle` is no completion, and a client asks a natural number of times | the model's words |
| `Config`, `Startup` | the width of an `int` is even and at least 2, and powers of two are positive; a file is a sequence of tokens, of which those that are words have a text, and a target is a sequence of strings | arithmetic that the provers do not know; what `ParseToken` returns, and the chunks of a text |
| `ConfigLexer` | a text is a sequence of characters of the eleven classes | what a file is |
| `Palette`, `Frontend` | bodies are sequences of characters, what is typed is a body, and the three bounds are naturals; the words for an answer that fails, is cut or makes no sense, and the empty word, are no colours and no names | JSON strings and arrays; the words are the model's |
| `Handlers` | paths are sequences of names, a directory is in a directory, the working directory is one of them, and the marks for a path that leads nowhere and for one that is refused are not on the disk | a file system without links |

The theorems of `FileStoreSolo` have hypotheses of their own: one thread serves, for `Implements` the disk has room, and
no client uses the entity `.` (`NoneHere`), by which a request sees, and may remove, the directories of all entities.

### The file store

| theorem | states | argument |
|---|---|---|
| `FileStoreProofs!TypeCorrect` | `[]TypeOK` | `TypeInv`: in addition, a writer before `fopen` has an entity and, at `fopen`, a file number (`HasPath`); without it `Put` might add a path that is none |
| `FileStoreProofs!Exclusion` | `[]ExclusionUnlessStray` | `LockInv`: whoever is between lock and explicit unlock holds the mutex, unless `stray`. An unlock by another thread makes it stray in the same step (`LockUnlock`) |
| `FileStoreProofs!FreshId` | `[]ChosenIdIsFresh` | `FreshInv` on top of `LockInv`: the id is above all others when chosen (`FreshScan`), and only a thread in the critical section creates files |
| `FileStoreProofs!Stored` | `[]StoredUnlessDeleted` | `StoreInv`: a handler that has not settled its response has code 0 (`EarlyInv`); without a DELETE no thread is at a removing step (`DeleteInv`), so the disk only grows (`Grow`) and what a writer has seen or created stays (`KeptInv`) |
| `FileStoreProofs!CrashCause` | `[]CrashNeedsCause` | from `StoreInv`: a directory that is scanned or listed exists while nothing was deleted, and what `stoi` fails over is in the directory that was read, which a crash leaves as it was |
| `FileStoreProofs!Kept` | `[]AcknowledgedIsKept` | `HistInv`, on top of the invariants above and of `FilesInv` and `OpenInv` (files are only where their directory is, and a descriptor writes to the file its request names or to an unlinked one). `AloneInv`: the file of a lone writer is empty while it is open and is the body afterwards, and nobody shares it. `ClaimInv`: a file that is claimed is open nowhere, and no DELETE of its entity names it or has found its directory empty. `MethodInv` ties the place of a thread to the method of its request. The case that needs `Exclusion` is a POST: it chooses an id of no file, so it cannot open one that is claimed |
| `FileStoreSolo!Implements` | `ImplementsApiStore`, for one thread, a disk with room and no entity `.` | `SoloOf`: the thread's response is settled exactly at the step at which the request takes effect (`Answering`), its target has the parts its place in the code calls for (`Asking`), and what it has found on the disk is still so (`Seen`). `StoreOf`, the mapping, counts a file that is open, and still empty, as holding the body it is being given. One lemma per kind of step says which step of `ApiStore` it is, or that nobody sees it (`Unseen`): a writer takes effect at `fopen` (`MapOpen`) and its write changes nothing that is seen (`MapWrite`), a remover takes effect at `unlink` (`MapUnlink`), and a crash leaves the file that was open empty (`MapCrash`) |
| `FileStoreSolo!FakeAlike` | `[]FakeAnswersAlike`, for one thread and no entity `.`, whatever the disk does | `FakeOf`: the fake has done at once what the disk comes to do, so until the response is settled it is one file ahead (`Ahead`) or behind (`Behind`), with the answer that is foreseen from what the disk holds now (`Foreseen`); from then on both hold the same files (`Level`) and have answered alike (`AsReal`). It uses `SoloOf` |

`Asleep` (a dead process runs no thread) carries each of them over a restart. The hypotheses of the last two are
necessary: with two threads `post_overwrites` and `torn_put` refute the refinement, and a disk that fills up cuts bodies.

### The session and the server

| theorem | states | argument |
|---|---|---|
| `SessionProofs!SessionTypeCorrect` | `[]TypeOK` | the lemmas about strings in the buffer (`CStrings`) and what the parser makes of them |
| `SessionProofs!WholeReads` | `[]WholeReadHandledAsSent` | `WireInv`: wherever a request line is in the stream, the whole of a request that was sent follows, or the rest is still to come. `HeldInv`: a read that brought a whole request holds it at the front of `data_`, before any remains of earlier reads, so the parser, which counts `Content-Length` bytes, takes that one |
| `SessionProofs!ServedWholeReads` | the same for `SessionStore` | the steps of `SessionStore` are steps of `Session`, or leave its variables alone |
| `SessionProofs!ReadBack` | `[]ReadBackAsSent` | `ServiceInv`. `Shape`: one thread. `Flow`: which request is where, and what has been settled there. `Content`: what a writer has made of its file so far. `Kept`: every file that was written and acknowledged is on the disk as it was sent, but for the one the request under way is changing |
| `ServerProofs!TypeCorrect` | `[]TypeOK` | |
| `ServerProofs!OneThing` | `[]OneThingUnderWay` | `Inv`. `SessionInv`: of the operations, queued completions and running handlers of an open session there is one, of any other none. That this is inductive needs that a connection is accepted once: `Once` (it waits once in the backlog) and `FreshInv` (while it waits, or its acceptance is known, there is no session for it). The counting is done with `OneOf` and `NoneOf` of three sets, and lemmas on what pushing to, taking from and handling does to them |
| `ServerProofs!Accepting` | `[]AcceptUnderWay` | `AcceptInv`, the same count for accepts |

### Startup

| theorem | states | argument |
|---|---|---|
| `StartupProofs!TypeCorrect` | `[]TypeOK` | `Parsing`: in addition, after a word the last statement is in the block that is open and the stack is not empty, so that the next word or `{` goes to that statement; the open blocks are statements of the tree |
| `StartupProofs!PortIsListed` | `[]PortFromListen` | `getPort` is a recursive function over the blocks. That it is one is proved first (`PortsExist`): a block asks blocks behind it, so the answers can be given from the last statement on, by the least counterexample (`FirstReached`, `ReachedFurther`, `PortFound`: the line is the first of a block that is reached through blocks without one). `PortNumbers` and `ShortIsEnough` are the conversions, for any width of an `int`: below it, a port is the number it was read from. `Starting` carries the port from `getPort` to the acceptor |
| `StartupProofs!TreeRight` | `[]TreeIsFile` | `TreeInv`. What is not finished is a path through the tree, the file, the open blocks and the statement that is being read, each the last in the one before it (`Spine`). What those have been written with (`SoFar`: their words, their brace, and the text of what is finished in them) is what has been read of the file (`Reads`). A word goes on with the last of them (`LastChanged`) or begins another (`StatementBegun`), a `;` or `}` takes the last one off and adds its end (`Closed`), and at the end of the file the missing braces close the rest (`AllClosed`). The text of a tree is a recursive function, too (`TextExists`), and statements that do not change are written alike in a tree that has grown (`TextsAgree`) |
| `StartupProofs!RootsRelative` | `[]RootsAreRelative` | `RouteInv`: from `getPort` on the paths are valid; from the acceptor on `fsmap` is what `ExtractFilesystemMap` makes of the tree and no location had too few words; while the server listens its routes are those that `CreateFactoryMap` makes (`Serving`) and the last request was routed and answered with them (`Answered`). What a map folded from entries holds is `Entered` for the lines and `Provided` for the routes |
| `StartupProofs!RoutedRight` | `[]RoutedAsConfigured` | `RoutesMade`: which routes there are, and whose, in terms of the lines of the file (`EntriesAre`); `LongestMatched`: the fold over the routes ends with the longest that is a prefix, in whatever order it takes them (`Best`); `Matched` puts the two together |
| `StartupProofs!ApiSees` | `[]ApiSeesWhatFollows` | a location ends with a slash or is one of the built-in handlers', so that `split` of the target is `split` of the location followed by `split` of the rest (`SplitConcat`, from what one more chunk does to the parts) |
| `StartupProofs!ServedRight` | `[]ServedFromRoot` | `ServedPath`: `..`, the root without its first character and the rest of the target, glued with slashes and read as a path, lead where `ServedFromRoot` says, as a walk goes through the first part of a path and then through the second (`WalkConcat`). `WalkBelow`: names without `..` lead on below where they begin, nowhere, or are refused. `Aborts`: the process is aborted exactly where the answer was thrown |

The folds of the community modules and `split` are recursive functions, and that a recursive function exists has to be
proved before anything can be said of it: `Recursion` does it once for folds over finite sets (`FoldExists`, by the
least part of the set that has none) and over sequences (`AlongExists`).

### The tokens

| theorem | states | argument |
|---|---|---|
| `ConfigLexerProofs!LexerTypes` | `[]TypeOK` | `LexInv`: in addition, where the reader is and what it may have in `value` there (`Word`: a word under way is not empty, one in quotes begins with the quote), and what kinds of tokens were returned (`AreTokens`) |
| `ConfigLexerProofs!Unlost` | `[]NothingLost` | `Lost`: the tokens are laid behind each other with blanks between (`Laid`), the reader has reached the character behind the last of them or is within one (`Reached`), and what it has in `value` is what it has read of that one (`Opened`; of a word in quotes, `Scanned`, with the escape that may be open). `BlankSkipped`, `OneMore` and `TokenLaid` say what a character more does to that, `ScanAdds` and `ScanEscapes` what it does to a word in quotes |
| `ConfigLexerProofs!PrintedReadsBack` | `[]ReadBack` | `BackInv`. The first reading leaves tokens that can be written (`Clean`: words without a character that ends them, unless in quotes). During the second, the reader is between two tokens of the printed text (`Apart`) or within the `k`th word of it (`Amid`), and has returned the first `k` tokens; a word is followed by what ends it, and nothing is left behind the last token |

### Palette and page

| theorem | states | argument |
|---|---|---|
| `FrontendProofs!HandlerSafe` | `[]` of `TypeOK`, `WholePalette`, `DiesOfNonsense` of `Palette` | `HandlerInv`: `Flow` says what is known in each phase; names are told colour by colour (`Matched`) |
| `FrontendProofs!ServesThePage` | `AppSpec => Spec` | each step of page, network and other clients is a step of the handler or leaves it alone (`HandlerMoves`) |
| `FrontendProofs!TypesBehindPage`, `WholeBehindPage`, `AliveBehindPage` | the three behind the page | from the two above |
| `FrontendProofs!LatestShown` | `[]ShowsLatest` | `AppInv`, with `Rendered`: what is shown are the palettes that arrived, in that order, but for those whose rendering is pending |
| `FrontendProofs!KeepsPage` | `PageKept` | an action property, from `AppInv`: a page that goes blank does so in `Render` or `Type`, over an answer that was no palette or over the initial data |

The invariants are proved in three steps each, the initial states, one lemma per kind of step, and `Next`; a step that
sends a thread somewhere harmless is covered by a frame lemma.

## What is only model-checked, and what is not modelled

Only checked by TLC: liveness (`Answered`, `QuickAnswered`, `SessionsFreed`, `Settles`), as the prover has no fairness.
Every safety property that a passing run checks is stated by a theorem.

Not modelled, and why:

* That every palette request initialises and cleans up libcurl for the whole process (`src/palette_api.cc:65`): what
  that does to other threads is libcurl's matter, and no document of the repository says what it expects.
* Links on disk and files that exist and cannot be opened, in `Handlers`. The text of the answers is left out.
* The entity `..` in `FileStore`, the parent of `data_path`, which holds what the repository does not say; links and
  directories where `FileStore` expects files. `FileStoreSolo` and `store_solo` leave the entity `.` out, too.
* A peer that falls silent for ever, in `Server`: the code has no timeout, so its session stays.
* Bodies with NUL bytes in the file store: `fputs` stops at the first. `Session` has them, and `SessionStore` only as
  far as `parse_request` lets them through.
* The text of listings, JSON and error pages; log lines (`src/logger.cc` configures Boost.Log); styles of the page.
* The destructors of statics that `exit` runs in a signal handler while other threads still run: undefined behaviour
  of the libraries, on the way to a process that ends. As far as the disk goes, `Signal` covers it.
* Several requests in one read, which a client that pipelines sends: `Session` has them (the second is dropped), and no
  document promises pipelining, so no property says anything about them.
* Build files, Dockerfiles, deployment and tests. Tests are quoted where they say what the code should do.

## Plan

1. *Done*: `FileStore` with its abstract store and five theorems, `Session`, `Server`, `Config`, `Startup`.
2. *Done*: `ConfigLexer`, `ParseToken` and what `ToString` writes of its tokens.
3. *Done*: `Palette`, the pipeline of `PaletteHandler` and `PaletteAPI`.
4. *Done*: full disks and signals in `FileStore`, what clients were told (`FileStoreHistory`), the fake of the unit tests
   (`FakeFileStore`), the handlers without state (`Handlers`), the page (`Frontend`), bytes to disk (`SessionStore`).
5. *Done*: theorems about `Server`, `Session`, `SessionStore`, `Palette` and `Frontend`, and about the parser and the
   port in `Startup`; `AcknowledgedIsKept`, the refinement of `ApiStore` by one thread, and the fake, as theorems.
6. *Done*: the tree of the parser, the routes and the handlers without state, as theorems on lemmas about folds; the types of `ConfigLexer`, that
   no character is lost but those of a token that the file does not end, and that what is printed reads back.
7. What a server of more than one thread implements: an `ApiStore` whose effects may be lost or mixed in the ways the
   violations show and in no other.
