--------------------------- MODULE FileStoreHistory ---------------------------
(***************************************************************************)
(* FileStore with a history: what the clients have been told is stored.    *)
(* The history outlives the process, as the clients do.  It watches the    *)
(* steps of FileStore and changes none of them.                            *)
(***************************************************************************)
EXTENDS FileStore

VARIABLES
  alone,   \* the writers whose file is whole so far and that have shared it
           \* with nobody since they opened it
  kept     \* path -> body: the files whose lone writers were answered 200

historyVars == <<alone, kept>>

\* Who may touch the file of a writer: a DELETE of its entity or of one of ".",
\* and another writer.
Shared(t) ==
  \/ \E d \in Threads : /\ Is(d, "DELETE") /\ job[d].uri # <<>>
                        /\ Entity(d) \in {Entity(t), Here}
  \/ \E u \in Threads \ {t} : open[u] = Target(t)

\* The disk has no room for all of a body.
CutShort(t) == \E n \in 0..Len(job[t].body) - 1 : WriteBytes(t, n)

HInit == Init /\ alone = {} /\ kept = [p \in {} |-> <<>>]

\* While a mutex has been freed under its owner nothing is claimed.
RecordAlone ==
  alone' = {t \in Threads :
              /\ pc'[t] \in {"unlock", "write", "dtor", "reply"}
              /\ t \in alone \/ OpenFile(t)
              /\ ~CutShort(t) /\ ~Shared(t)' /\ ~stray'}

\* A file is claimed when its writer is told, and no more when a client asks to
\* overwrite or delete that very file.  The id that overflow reaches repeats.
RecordKept ==
  LET told    == {t \in alone : Respond(t) /\ name[t] # IntMin}
      renewed == {Target(t) : t \in {u \in Threads : Is(u, "PUT") /\ OpenFile(u)}}
      removed == {uri \in Uris : \E t \in Threads : HandleDelete(t, uri)}
      claims  == DOMAIN kept \ (renewed \cup removed)
  IN kept' = IF stray' THEN [p \in {} |-> <<>>]
             ELSE [p \in claims \cup {Target(t) : t \in told} |->
                     IF p \in claims THEN kept[p]
                     ELSE job[CHOOSE t \in told : Target(t) = p].body]

HNext == Next /\ RecordAlone /\ RecordKept

HSpec == HInit /\ [][HNext]_<<vars, historyVars>>

-----------------------------------------------------------------------------
\* What a client was told is stored stays on disk byte by byte, over crashes,
\* signals and restarts, disks that fill up and any POST, PUT and DELETE of
\* other files, until a client asks to overwrite or to delete it: no POST gets
\* its id (real_file_system.cc:10-25), no DELETE takes its directory (:42-51).
AcknowledgedIsKept ==
  \A p \in DOMAIN kept : p \in DOMAIN files /\ files[p] = kept[p]
=============================================================================
