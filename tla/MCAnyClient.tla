---------------------------- MODULE MCAnyClient ----------------------------
(* Instance of AnyClient for TLC. *)
EXTENDS AnyClient

MCBackupIds == {0, 1}

\* Messages under way: enough for a client two requests ahead of the server.
FewUnderWay == Len(toServer) <= 2 /\ Len(toClient) <= 2
=============================================================================
