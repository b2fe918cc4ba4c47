---------------------------- MODULE MCFileStore ----------------------------
(* Small instances of FileStore for TLC. *)
EXTENDS FileStoreRefinement, TLC

CONSTANTS t1, t2, t3, shoes, dot, long, x, y

ThreeThreads == {t1, t2, t3}
TwoThreads   == {t1, t2}
OneThread    == {t1}

\* A POST and a PUT of different lengths, so that an overlay shows.
TwoBodies == {<<>>, <<x>>, <<y, y>>}
OneByteBodies == {<<>>, <<x>>}

\* Every shape of target the handlers tell apart.
AllUris == {<<>>, <<shoes>>, <<shoes, NotNumber>>, <<shoes, NotNumber, NotNumber>>}
             \cup {<<shoes, i>> : i \in Ids}
\* Names that are too long, "." for an entity.
OddUris == AllUris \cup {<<dot>>, <<dot, 3>>, <<long>>}
SoloUris == AllUris \cup {<<long>>, <<long, 1>>}
\* The targets of well-formed requests.
PlainUris == {<<shoes>>} \cup {<<shoes, i>> : i \in Ids}

AllMethods == {"GET", "POST", "PUT", "DELETE", "TRACE"}
Posts      == {"POST"}
Writers    == {"POST", "PUT"}
Changers   == Writers \cup {"DELETE"}

OneLeftOver == {<<shoes, 1>>}
AnyLeftOver == {shoes} \X Ids
SomeLeftOver == {<<shoes, 3>>, <<shoes, 5>>, <<dot, 3>>}

Symmetry == Permutations(Threads)
=============================================================================
