--------------------------- MODULE MCAggregation ---------------------------
(***************************************************************************)
(* Small instances of Aggregation: days of two hours, intervals shorter  *)
(* than a day, as long (the default of 24 hours) and longer.               *)
(***************************************************************************)
EXTENDS Aggregation

MCMaxRows == [trades |-> 2, bars |-> 1]

============================================================================
