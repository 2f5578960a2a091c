------------------------------ MODULE MCReaper ------------------------------
(* Reaper with two runs of orphan and two orphans for both. *)
EXTENDS Reaper

CONSTANTS t1, t2, o1, o2

TwoTools     == {t1, t2}
TwoOrphans   == {o1, o2}

AllFaults == {"sigaction", "fork", "fork_shell"}

=============================================================================
