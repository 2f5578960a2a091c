------------------------------ MODULE MCShns3 ------------------------------
(* Shns3 on every command line of at most three options.                    *)
EXTENDS Shns3

MCNamespaces == {"user", "net"}

Opt0(o) == [opt |-> o, arg |-> "text"]
NsOpt(a) == [opt |-> "n", arg |-> a]

(* -u, -g, -s and -h with any argument; -d with and without a number; -n with
   each namespace, "all" and a name that is none; a missing and a bad option *)
MCOptions ==
  {Opt0(o) : o \in {"u", "g", "s", "h", "d", ":", "?"}}
    \cup {[opt |-> "d", arg |-> "int"]}
    \cup {NsOpt(a) : a \in {"user", "net", "all", "text"}}

MCArgLists == UNION {[1..n -> MCOptions] : n \in 0..3}

AllFaults == FaultSites

Everyone == Proc

=============================================================================
