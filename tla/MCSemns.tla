------------------------------- MODULE MCSemns ------------------------------
(* Semns with two programs on one key. *)
EXTENDS Semns

CONSTANTS s1, s2

TwoPrograms == {s1, s2}

AllFaults == {"pipe", "semget", "fork", "unshare"}

(* SIGKILL ends the processes of the one program only; the other one meets
   what they leave. *)
OneVictim == {Father(s1), Child(s1)}

=============================================================================
