------------------------------ MODULE MCFileStore ------------------------------
(***************************************************************************)
(* A small instance of FileStore for TLC.                                  *)
(***************************************************************************)
EXTENDS FileStore

CONSTANTS a, w1, w2, i1, i2, i3

MCIds == {a}
MCWriters == {w1, w2}
MCInodes == {i1, i2, i3}
Failures == {"write", "chmod", "read"}
=============================================================================
