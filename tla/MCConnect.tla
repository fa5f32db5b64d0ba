----------------------------- MODULE MCConnect -----------------------------
(***************************************************************************)
(* Instances of Connect: with the peer of the tests, whose ciphers count    *)
(* packets from NEWKEYS on as the client's do, and with a peer of RFC 4253. *)
(***************************************************************************)
EXTENDS Connect

AllRuntimes == Runtime
=============================================================================
