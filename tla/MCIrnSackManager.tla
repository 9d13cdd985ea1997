-------------------------- MODULE MCIrnSackManager ---------------------------
(* The instance of IrnSackManager for TLC: nine bytes hold up to four blocks. *)
EXTENDS IrnSackManager

MCMaxSeq == 9

=============================================================================
