--------------------------- MODULE MCMessageDemo ----------------------------
(* main.cc with its own constants. *)
EXTENDS MessageDemo, TLC

CONSTANTS main, worker, type1, type2, type3

MCScript ==
  << [type |-> type1, data |-> 1], [type |-> type1, data |-> 2],
     [type |-> type1, data |-> 3], [type |-> type2, data |-> 100],
     [type |-> type2, data |-> 200], [type |-> type2, data |-> 300] >>
=============================================================================
