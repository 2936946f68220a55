----------------------------- MODULE MCSnapshot -----------------------------
(* Snapshot with 2-byte words over 8 byte values: sizes from 32 up are     *)
(* negative as int64, and 63 is the compression sentinel.                  *)
EXTENDS Snapshot

MCDbVals == {<< >>, <<1>>, <<7, 2>>}
=============================================================================
