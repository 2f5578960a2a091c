------------------------------- MODULE MCCmpns ------------------------------
(* Cmpns with two processes that are apart in any namespaces. *)
EXTENDS Cmpns

MCDiffer == SUBSET ToSet(NsNames)

=============================================================================
