--------------------------- MODULE RelayRefinement ---------------------------
(* The relay implements the abstract pipe. *)
EXTENDS Relay

P == INSTANCE Pipe WITH
  Byte  <- 1 .. MaxBytes,
  ended <- {s \in Side : peer[s] # "open"},
  cut   <- {s \in Side : conn[s] # "live"}

\* A relay forwards what Pipe promises: bytes in order without gaps, however
\* recv cuts them up, and an end only after one of the two programs made one.
ImplementsPipe == P!Spec
=============================================================================
