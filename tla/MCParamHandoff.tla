--------------------------- MODULE MCParamHandoff ---------------------------
(* An instance of ParamHandoff: the thread t1 needs two parameters, the     *)
(* other one.                                                               *)
EXTENDS ParamHandoff

CONSTANT t1
MCAsks == [t \in Threads |-> IF t = t1 THEN 2 ELSE 1]
=============================================================================
