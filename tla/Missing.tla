------------------------------ MODULE Missing ------------------------------
(* What stands for NULL in a column, None in an Option and a key that is not *)
(* there: one value for the modules that are proved about together.          *)

CONSTANT None
=============================================================================
