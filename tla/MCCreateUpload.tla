--------------------------- MODULE MCCreateUpload ---------------------------
(* Four POSTs from two addresses over two days, at most two per address and *)
(* three in all.                                                            *)
EXTENDS CreateUpload, TLC

RequestSymmetry == Permutations(Requests)
=============================================================================
