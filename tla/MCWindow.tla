------------------------------ MODULE MCWindow ------------------------------
(* An instance of Window: the first command needs two parameters, the       *)
(* others one.                                                              *)
EXTENDS Window

MCThreads == 0..2
MCAsks == [t \in MCThreads |-> <<2, 1, 0>>[t + 1]]
=============================================================================
