-------------------------------- MODULE Config --------------------------------
(***************************************************************************)
(* NginxConfig (config_parser.cc): a parsed configuration and what the     *)
(* server asks of it, and the routes that Server::create_factory_map and   *)
(* longest_prefix_matching make of the answers.                            *)
(*                                                                         *)
(* A configuration is the sequence of its statements in the order of the   *)
(* file, each with the index of the statement whose block it is in, or 0.  *)
(* A word is a sequence of chunks of text; one of digits has a number.     *)
(***************************************************************************)
EXTENDS Integers, Sequences, SequencesExt, FiniteSetsExt, Sieve

CONSTANT IntBits    \* bits of an int: 32; a long has twice, a port half as many

\* The last line is arithmetic that the provers do not know.
ASSUME IntBitsAssumption ==
  /\ IntBits \in Nat /\ IntBits >= 2 /\ IntBits % 2 = 0
  /\ 2^IntBits > 0 /\ 2^(IntBits \div 2) > 0

Word(text) == [text |-> text, num |-> -1]
Number(n)  == [text |-> <<"0">>, num |-> n]

Words      == [text : Seq(STRING), num : Int]
Statements == [tokens : Seq(Words), parent : Nat, block : BOOLEAN]

Statement(words, parent) == [tokens |-> words, parent |-> parent, block |-> FALSE]

Starts(s, name) == s.tokens[1].text = <<name>>

-----------------------------------------------------------------------------
(* getPort *)

IsDigits(w) == w.num >= 0

\* strtol stops at the largest long, atoi keeps the low bits of it.
Atoi(n) ==
  LET low == n % 2^IntBits
  IN IF n >= 2^(2 * IntBits - 1) THEN -1
     ELSE IF low >= 2^(IntBits - 1) THEN low - 2^IntBits ELSE low

MaxPort == 2^(IntBits \div 2) - 1

\* Mutant: what has no digits is taken as atoi takes it.
PortNumberUnchecked(w) ==
  LET n == IF IsDigits(w) THEN Atoi(w.num) ELSE 0
  IN IF n \in 0..MaxPort THEN n ELSE -1

PortNumber(w) ==
  IF IsDigits(w) /\ Atoi(w.num) \in 0..MaxPort THEN Atoi(w.num) ELSE -1

\* Server takes the port as a short, tcp::endpoint takes it as unsigned.
ThroughShort(n) == (IF n > MaxPort \div 2 THEN n - (MaxPort + 1) ELSE n) % (MaxPort + 1)

IsListen(s) == ~s.block /\ Len(s.tokens) = 2 /\ Starts(s, "listen")

In(cfg, b) == {i \in DOMAIN cfg : cfg[i].parent = b}

\* A set of statements in the order of the file.
InOrder(cfg, S) == Leaving([i \in DOMAIN cfg |-> i], Nat \ S)

\* The first listen of a block decides, a bad one too; a block without one asks
\* the blocks in it until one has a port.
GetPort(cfg) ==
  LET port[b \in 0..Len(cfg)] ==
        LET listens == {i \in In(cfg, b) : IsListen(cfg[i])}
            found   == {i \in In(cfg, b) : cfg[i].block /\ port[i] # -1}
        IN IF listens # {} THEN PortNumber(cfg[Min(listens)].tokens[2])
           ELSE IF found # {} THEN port[Min(found)] ELSE -1
  IN port[0]

-----------------------------------------------------------------------------
(* validate_relative_paths and extract_filesystem_map *)

ServerBlocks(cfg) == {i \in In(cfg, 0) : Starts(cfg[i], "server") /\ cfg[i].block}
Locations(cfg) ==
  {i \in DOMAIN cfg : cfg[i].parent \in ServerBlocks(cfg) /\ Starts(cfg[i], "location")}
Lines(cfg) == {i \in DOMAIN cfg : cfg[i].parent \in Locations(cfg)}

IsRelative(w) == w.text = <<>> \/ w.text[1] # "/"

Undefined == "undefined"

\* Mutant: only the lines of static locations are looked at.
ValidateStaticPaths(cfg) ==
  LET absolute == {i \in Lines(cfg) :
                     /\ Len(cfg[i].tokens) >= 2 /\ ~IsRelative(cfg[i].tokens[2])
                     /\ cfg[cfg[i].parent].tokens[3].text = <<"StaticHandler">>}
  IN IF \E i \in Locations(cfg) : ~cfg[i].block \/ Len(cfg[i].tokens) < 3 THEN Undefined
     ELSE IF \E i \in Lines(cfg) : Len(cfg[i].tokens) < 2 THEN Undefined
     ELSE IF absolute = {} THEN "valid" ELSE "invalid"

\* A location without a block is a null child_block_, a line of one word has no
\* tokens_[1]; the first absolute path ends the walk.
ValidateRelativePaths(cfg) ==
  LET holes    == {i \in Locations(cfg) : ~cfg[i].block}
                    \cup {i \in Lines(cfg) : Len(cfg[i].tokens) < 2}
      absolute == {i \in Lines(cfg) : Len(cfg[i].tokens) >= 2
                                        /\ ~IsRelative(cfg[i].tokens[2])}
  IN IF holes \cup absolute = {} THEN "valid"
     ELSE IF Min(holes \cup absolute) \in absolute THEN "invalid" ELSE Undefined

HandleTrailingSlashes(text) ==
  LET kept == {n \in 0..Len(text) : \A i \in n+1..Len(text) : text[i] = "/"}
  IN Append(SubSeq(text, 1, Min(kept)), "/")

\* Mutant: the last of two entries wins, as with operator[].
Overwrite(map, key, value) ==
  [k \in DOMAIN map \cup {key} |-> IF k = key THEN value ELSE map[k]]

\* std::map::insert leaves an entry that is there.
Insert(map, key, value) ==
  [k \in DOMAIN map \cup {key} |-> IF k \in DOMAIN map THEN map[k] ELSE value]

Empty == [k \in {} |-> 0]

\* tokens_[2] of a location with fewer words, once it has a line.
ExtractUndefined(cfg) == \E i \in Lines(cfg) : Len(cfg[cfg[i].parent].tokens) < 3

\* filesystem_map_: pairs of handler type and location, with the root; a line
\* is inserted after those before it.
ExtractFilesystemMap(cfg) ==
  LET entry(i, map) ==
        LET loc == cfg[cfg[i].parent].tokens
        IN Insert(map, <<loc[3].text, HandleTrailingSlashes(loc[2].text)>>,
                  cfg[i].tokens[2].text)
  IN MapThenFoldSet(entry, Empty, LAMBDA i : i, LAMBDA S : Max(S), Lines(cfg))

-----------------------------------------------------------------------------
(* Server::create_factory_map and longest_prefix_matching *)

Factory(type, root) == [type |-> type, root |-> root]

Slash      == <<"/">>
BadRequest == <<"bad request">>

BuiltIn ==
  [l \in {<<"/", w>> : w \in {"echo", "sleep", "health", "palette", "color"}}
         |-> Factory(l[2], <<>>)]

\* The built-in routes come first, then the static ones, then the API's.
CreateFactoryMap(fsmap) ==
  LET insertAll(type, map) ==
        FoldSet(LAMBDA k, m : Insert(m, k[2], Factory(type, fsmap[k])),
                map, {k \in DOMAIN fsmap : k[1] = <<type>>})
      builtIn == Insert(Insert(BuiltIn, Slash, Factory("error", <<>>)),
                        BadRequest, Factory("bad request", <<>>))
  IN insertAll("ApiHandler", insertAll("StaticHandler", builtIn))

\* Every route that is a prefix, if longer than the best so far, is the best.
LongestPrefixMatching(routes, uri) ==
  LET better(r, best) ==
        IF IsPrefix(r, uri) /\ best.size < Len(r) THEN [path |-> r, size |-> Len(r)] ELSE best
  IN FoldSet(better, [path |-> Slash, size |-> 0], DOMAIN routes).path
=============================================================================
