----------------------------- MODULE MCBulkStream -----------------------------
(* The bulk stream on result sets of up to four rows of up to three bytes, *)
(* with bulks sent at two bytes: bulks of one and of several rows, exactly *)
(* at the limit and over it.                                               *)
EXTENDS BulkStream

==============================================================================
