------------------------- MODULE MCFileStoreHistory -------------------------
(* Small instances of FileStoreHistory for TLC. *)
EXTENDS MCFileStore, FileStoreHistory
=============================================================================
