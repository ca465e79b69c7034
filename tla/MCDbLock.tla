------------------------------ MODULE MCDbLock ------------------------------
(* Two daemons of two threads and a `kdb5_util' of one. *)
EXTENDS DbLock, TLC

CONSTANTS kdc, kadmind, util, k1, k2, a1, a2, u1

MCProcOf == (k1 :> kdc) @@ (k2 :> kdc) @@ (a1 :> kadmind) @@ (a2 :> kadmind) @@ (u1 :> util)
=============================================================================
