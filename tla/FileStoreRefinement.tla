------------------------- MODULE FileStoreRefinement -------------------------
(***************************************************************************)
(* FileStore, served by a single thread, implements ApiStore.  A request   *)
(* takes effect at the system call that settles its response: fopen for    *)
(* POST and PUT, readdir or open for GET, unlink for DELETE.               *)
(***************************************************************************)
EXTENDS FileStore

\* A file that is open for writing already counts as holding the new body.
StoreOf ==
  [p \in DOMAIN files |->
     IF \E t \in Threads : open[t] = p
     THEN job[CHOOSE t \in Threads : open[t] = p].body
     ELSE files[p]]

Requests ==
  {j \in [method : Methods, uri : Uris, body : Bodies] :
     Understood(j.method, j.uri)}
Refusals == [method : Methods, uri : {<<>>}, body : {<<>>}]

Api == INSTANCE ApiStore WITH store <- StoreOf

\* One thread is enough to keep every promise of the API: what was posted or
\* put is what is listed and read, a new id is above all others, a deleted file
\* is gone, and the files of a server that dies are all there when it returns.
\* No request names "." for an entity, which is the directory of them all.
ImplementsApiStore == Api!Spec
=============================================================================
