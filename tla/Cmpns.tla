------------------------------- MODULE Cmpns --------------------------------
(***************************************************************************)
(* cmpns.c: compare the namespaces of two processes, one after the other,  *)
(* and say in the exit status whether they differ.  Each comparison reads  *)
(* /proc twice, while the processes may end.                               *)
(***************************************************************************)
EXTENDS Integers, Sequences, SequencesExt

CONSTANTS Differ  \* the sets of namespaces in which the two may differ

NsNames == <<"cgroup", "ipc", "mnt", "net", "pid", "user", "uts">>

VARIABLES
  pids,     \* whether both parameters are numbers
  differs,  \* the namespaces in which the processes differ
  alive,    \* the processes that exist
  i, rc,    \* the variables of main()
  at,       \* where the program is
  said      \* what it has printed of each namespace

vars == <<pids, differs, alive, i, rc, at, said>>

Init ==
  /\ pids \in BOOLEAN
  /\ differs \in Differ
  /\ alive \in SUBSET {1, 2}
  /\ i = 1 /\ rc = 0 /\ at = "args"
  /\ said = [n \in ToSet(NsNames) |-> "nothing"]

Parameters ==
  /\ at = "args"
  /\ IF pids THEN at' = "stat1" /\ UNCHANGED rc ELSE at' = "exited" /\ rc' = 1
  /\ UNCHANGED <<pids, differs, alive, i, said>>

(* The next namespace, or the end of the loop *)
Continue ==
  IF i = Len(NsNames) THEN at' = "exited" /\ UNCHANGED i
  ELSE at' = "stat1" /\ i' = i + 1

Stat1 ==
  /\ at = "stat1"
  /\ IF 1 \in alive THEN rc' = 0 /\ at' = "stat2" /\ UNCHANGED i
     ELSE rc' = -1 /\ Continue
  /\ UNCHANGED <<pids, differs, alive, said>>

Stat2 ==
  /\ at = "stat2"
  /\ Continue
  /\ IF 2 \in alive
       THEN LET d == NsNames[i] \in differs IN
            /\ rc' = IF d THEN 1 ELSE 0
            /\ said' = [said EXCEPT ![NsNames[i]] = IF d THEN "different" ELSE "equal"]
       ELSE rc' = -1 /\ UNCHANGED said
  /\ UNCHANGED <<pids, differs, alive>>

Dies(p) ==
  /\ p \in alive /\ at # "exited"
  /\ alive' = alive \ {p}
  /\ UNCHANGED <<pids, differs, i, rc, at, said>>

Next == Parameters \/ Stat1 \/ Stat2 \/ \E p \in {1, 2} : Dies(p)

Spec == Init /\ [][Next]_vars

-----------------------------------------------------------------------------
(* "Return 0, if the namespaces are equal" (cmpns.c:56): a program that exits
   with 0 has not found a namespace that differs. *)
ZeroMeansEqual ==
  at = "exited" /\ rc = 0 => \A n \in ToSet(NsNames) : said[n] # "different"

=============================================================================
