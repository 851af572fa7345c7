---------------------------- MODULE MCConnections ----------------------------
(***************************************************************************)
(* A small instance of Connections for TLC.                                *)
(***************************************************************************)
EXTENDS Connections

CONSTANTS alice, bob, k1, k2, k3

MCUsers == {alice, bob}
MCConnectionIds == {k1, k2, k3}
=============================================================================
