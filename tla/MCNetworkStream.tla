-------------------------- MODULE MCNetworkStream --------------------------
(* Instance of NetworkStream for TLC. *)
EXTENDS NetworkStream

MCMessages == {"tiny", "large"}
\* One message shorter than the size that precedes it, one longer.
MCBlockSize == [tiny |-> 1, large |-> 3]
=============================================================================
