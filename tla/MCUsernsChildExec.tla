------------------------- MODULE MCUsernsChildExec -------------------------
(* UsernsChildExec on every set of options.                                 *)
EXTENDS UsernsChildExec

MCOptSets == SUBSET Option

AllFaults  == FaultSites

Everyone == Proc

=============================================================================
