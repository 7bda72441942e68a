----------------------------- MODULE MCClient ------------------------------
(* An instance of EdgarClient: the API's process with two background threads. *)
EXTENDS EdgarClient

ApiHome == [t \in {"t1", "t2"} |-> "api"]
=============================================================================
