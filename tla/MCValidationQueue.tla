------------------------- MODULE MCValidationQueue -------------------------
(* Small instances are given in the .cfg file. *)
EXTENDS ValidationQueue
=============================================================================
