------------------------------ MODULE MCStartup ------------------------------
(* Small instances of Startup for TLC. *)
EXTENDS Startup

W(text) == Normal(Word(text))
Line(ws) == [i \in DOMAIN ws |-> W(ws[i])] \o <<End>>
Block(ws, inner) ==
  [i \in DOMAIN ws |-> W(ws[i])] \o <<StartBlock>> \o inner \o <<EndBlock>>

Listen(n) == <<W(<<"listen">>), Normal(Number(n)), End>>

A  == <<"/", "a">>
AB == <<"/", "a", "/", "b">>
Static == <<"StaticHandler">>
Api    == <<"ApiHandler">>

\* Lines of a location: a root, with an absolute path, without a path.
Roots == {Line(<<<<"root">>, <<".", "/", "x">>>>),
          Line(<<<<"root">>, <<".", "/", ".", "/", "y">>>>), Line(<<<<"root">>, <<"/", "x">>>>), Line(<<<<"root">>>>)}

Bodies == {<<>>} \cup Roots \cup {r \o Line(<<<<"root">>, <<"/">>>>) : r \in Roots}

\* Locations: two paths and the root, slashes or not, both handlers, one unknown
\* to the server, one without a type, one without a block.
Blocks ==
  {Block(<<<<"location">>, p, h>>, b) :
     p \in {A, Append(A, "/"), AB, Slash}, h \in {Static, Api}, b \in Bodies}
    \cup {Block(<<<<"location">>, A>>, b) : b \in Bodies}
    \cup {Block(<<<<"location">>, A, <<"Other">>>>, b) : b \in Bodies}
    \cup {Line(<<<<"location">>, A, Static>>), Block(<<<<"location">>, <<"/", "echo">>, Static>>,
                                                    Line(<<<<"root">>, <<"z">>>>))}

\* Ports: good, too large for a port, too large for an int, for a long, no number.
Ports == {Listen(n) : n \in {0, 5, 9, 64 + 3, 4096}} \cup {Line(<<<<"listen">>, <<"x">>>>)}

Good == {Block(<<<<"location">>, p, h>>, Line(<<<<"root">>, r>>)) :
           p \in {A, Append(A, "/"), AB}, h \in {Static, Api}, r \in {<<"x">>, <<"y">>}}

\* Well-formed files: a server block with a port and locations, a port outside
\* or in two places, two server blocks.
Whole ==
  {Block(<<<<"server">>>>, Listen(5) \o b) : b \in Blocks}
    \cup {Block(<<<<"server">>>>, p \o <<Comment>> \o q) : p, q \in Ports}
    \cup {p \o Block(<<<<"server">>>>, q) \o r : p \in {<<>>, Listen(6)}, q, r \in Ports}
    \cup {Block(<<<<"server">>>>, Listen(7) \o b \o c) : b, c \in Good}
    \cup {Block(<<<<"server">>>>, b) \o Block(<<<<"server">>>>, Listen(1) \o c) : b, c \in Good}

\* Every file of up to n tokens.
Short(n) ==
  BoundedSeq({W(<<"a">>), End, StartBlock, EndBlock, Comment, BadToken}, n)

AllFiles == Whole \cup Short(5)

AllTargets == {A, AB, Append(A, "/"), A \o <<"/", "c", ".html">>, AB \o <<"/", "/", "c">>,
               AB \o <<"/", "/">>, A \o <<"/", "b", "/", "c", "/">>, <<"/", "echo", "a">>,
               <<"/", "color">>, <<"/", "c">>, Slash, <<"*">>,
               \* out of the root, through it, up to the top, by a file
               A \o <<"/", "..", "/", "y", "/", "b">>, A \o <<"/", "b", "/", "..", "/", "c", ".html">>,
               A \o <<"/", "..", "/", "..", "/", "..", "/", "r", "/", "x", "/", "c", ".html">>,
               A \o <<"/", "c", ".html", "/", "..", "/", "c", ".html">>,
               \* refused
               A \o <<"/", "long">>, A \o <<"/", "shut", "/", "c">>}

\* Files below the roots, one where a root without "." sends a target.
Beside(names) == <<<<"r">>>> \o names
Working == Beside(<<<<"work">>>>)
Shut    == {Beside(<<<<"x">>, <<"shut">>>>)}
Long    == {<<"long">>}
AllFilesOnDisk ==
  {Beside(<<<<"x">>, <<"c", ".html">>>>), Beside(<<<<"x">>, <<"b">>, <<"c">>>>),
   Beside(<<<<"y">>, <<"b">>>>), Beside(<<<<"c", ".html">>>>), Beside(<<<<"y">>, <<"c">>>>)}
AllDirectories ==
  {<<>>, Beside(<<>>), Working, Beside(<<<<"x">>, <<"b">>>>)}
    \cup {Beside(<<n>>) : n \in {<<"x">>, <<"y">>}} \cup Shut
=============================================================================
