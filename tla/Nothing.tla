------------------------------- MODULE Nothing ------------------------------
(* The absent value (Python's None, SQL's NULL) of the modules that run in *)
(* one model: a row, a tick or a command that is not there.                *)
CONSTANT None
=============================================================================
