--------------------------- MODULE MCMipTransfer ----------------------------
(* Files for model checking MipTransfer: two chunks, and no content. *)
EXTENDS MipTransfer

MCChunks == [big |-> 2, empty |-> 0]
=============================================================================
