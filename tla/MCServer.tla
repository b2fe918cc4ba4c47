------------------------------ MODULE MCServer ------------------------------
(* Small instances of Server for TLC. *)
EXTENDS Server

CONSTANTS t1, t2, quick, other, sleep

TwoThreads == {t1, t2}
AllConns   == {quick, other, sleep}
TwoConns   == {quick, sleep}
SlowOnes   == {sleep}
=============================================================================
