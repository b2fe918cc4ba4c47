--------------------------- MODULE MCFakeFileStore ---------------------------
(* Small instances of FakeFileStore for TLC. *)
EXTENDS MCFileStore, FakeFileStore
=============================================================================
