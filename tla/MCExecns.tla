------------------------------ MODULE MCExecns ------------------------------
(* Execns with command lines of up to three names, the caller and the target *)
(* apart in any of the namespaces whose order matters.                       *)
EXTENDS Execns

Line(p, n) == [pid |-> p, names |-> n]

MCArgs ==
  {Line(FALSE, <<>>), Line(TRUE, <<>>)}
    \cup {Line(TRUE, <<n>>) : n \in {"all", "bad", "ipc", "user", "mnt"}}
    \cup {Line(TRUE, <<"mnt", "pid">>), Line(TRUE, <<"uts", "user">>),
          Line(TRUE, <<"ipc", "bad">>), Line(TRUE, <<"mnt", "uts", "pid">>)}

MCDiffer == SUBSET {"ipc", "pid", "user", "uts", "mnt"}

MCOwned == {NsName, {}, NsName \ {"uts"}, {"uts"}}

MCCallers == {"root", "owner", "other"}

AllFaults == {"fork", "exec"}

=============================================================================
