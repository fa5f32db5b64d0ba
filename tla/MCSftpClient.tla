---------------------------- MODULE MCSftpClient ----------------------------
(***************************************************************************)
(* A small instance of SftpClient: two calls at a time, one of which writes *)
(* or only asks, while the other reads.                                    *)
(***************************************************************************)
EXTENDS SftpClient

MCKinds == [a |-> {"stat", "upload"}, b |-> {"stat", "readDir", "download"}]
MCOps == DOMAIN MCKinds
=============================================================================
