------------------------ MODULE MCOpenSearchWriter ------------------------
(* Bounded instance of OpenSearchWriter: bulks of two documents, a retry    *)
(* queue of two, two attempts.                                               *)
EXTENDS OpenSearchWriter

=============================================================================
