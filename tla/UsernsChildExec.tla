-------------------------- MODULE UsernsChildExec --------------------------
(***************************************************************************)
(* userns_child_exec.c: execute a command in new namespaces, with id maps  *)
(* the parent writes into /proc/<child>/{uid_map,setgroups,gid_map}.       *)
(*                                                                         *)
(* One pipe orders parent and child.  Nothing is ever written into it: the *)
(* child waits for end of file, which the parent causes by closing the     *)
(* write end once the maps are written, and also by exiting.               *)
(***************************************************************************)
CONSTANTS
  OptSets,        \* the command lines, as sets of options
  Privileged,     \* the parent has CAP_SETGID in its own user namespace
  HasSetgroups,   \* the kernel has /proc/<pid>/setgroups (3.19 and later)
  Faults,         \* the calls that may fail
  Killable        \* the processes a signal may kill

Proc == {"parent", "child"}
Map  == {"uid", "gid"}

(* The options: "ns" stands for the other namespaces and "v", "?" for an
   option getopt() refuses.  Their order on the command line is indifferent:
   the loop only collects them. *)
Option == {"U", "M", "G", "z", "ns", "?"}

FaultSites == {"pipe", "clone", "uid_map", "setgroups", "gid_map", "read", "execvp"}

ASSUME ConstantsAssumption ==
  /\ OptSets \subseteq SUBSET Option
  /\ Privileged \in BOOLEAN
  /\ HasSetgroups \in BOOLEAN
  /\ Faults \subseteq FaultSites
  /\ Killable \subseteq Proc

VARIABLES
  opts,       \* the options given
  pc,         \* where each process is; "none" before clone()
  status,     \* how each process ended
  writers,    \* the processes with the write end of the pipe open
  setgroups,  \* what /proc/<child>/setgroups says
  written     \* the maps written for the child

vars == <<opts, pc, status, writers, setgroups, written>>

ParentPc == {"options", "pipe", "clone", "uid_map", "setgroups", "gid_map",
             "closew", "wait", "exited"}
ChildPc  == {"none", "closew", "read", "execvp", "command", "exited"}

(* The variables of main() and childFunc() keep to their types
   (userns_child_exec.c:155-297). *)
TypeOK ==
  /\ opts \subseteq Option
  /\ pc \in [Proc -> ParentPc \cup ChildPc]
  /\ pc["parent"] \in ParentPc
  /\ pc["child"] \in ChildPc
  /\ status \in [Proc -> {"none", "ok", "error", "killed"}]
  /\ writers \subseteq Proc
  /\ setgroups \in {"allow", "deny"}
  /\ written \subseteq Map

Init ==
  /\ opts \in OptSets
  /\ pc = [parent |-> "options", child |-> "none"]
  /\ status = [p \in Proc |-> "none"]
  /\ writers = {}
  /\ setgroups = "allow"
  /\ written = {}

-----------------------------------------------------------------------------
Alive(p) == pc[p] \notin {"none", "exited"}
MayFail(site) == site \in Faults

Goto(p, l) == pc' = [pc EXCEPT ![p] = l]

(* exit() or death by a signal: the pipe is closed too. *)
Exit(p, s) ==
  /\ pc' = [pc EXCEPT ![p] = "exited"]
  /\ status' = [status EXCEPT ![p] = s]
  /\ writers' = writers \ {p}

WantsUid == "M" \in opts \/ "z" \in opts
WantsGid == "G" \in opts \/ "z" \in opts

(* usage() for an unknown option, maps without -U, or -z with -M or -G *)
BadUsage ==
  \/ "?" \in opts
  \/ (WantsUid \/ WantsGid) /\ "U" \notin opts
  \/ "z" \in opts /\ opts \cap {"M", "G"} # {}

(* Mutant: -z is forgotten for the gid map. *)
AfterUid_OnlyG == IF "G" \in opts THEN "setgroups" ELSE "closew"

(* The map step main() goes to: the ones not asked for are skipped. *)
AfterUid   == IF WantsGid THEN "setgroups" ELSE "closew"
AfterClone == IF WantsUid THEN "uid_map" ELSE AfterUid

-----------------------------------------------------------------------------
(* The parent                                                               *)

ParentFails(l) ==
  /\ pc["parent"] = l
  /\ Exit("parent", "error")
  /\ UNCHANGED <<opts, setgroups, written>>

Options ==
  \/ BadUsage /\ ParentFails("options")
  \/ /\ ~BadUsage
     /\ pc["parent"] = "options"
     /\ Goto("parent", "pipe")
     /\ UNCHANGED <<opts, status, writers, setgroups, written>>

MakePipe ==
  \/ MayFail("pipe") /\ ParentFails("pipe")
  \/ /\ pc["parent"] = "pipe"
     /\ Goto("parent", "clone")
     /\ writers' = {"parent"}
     /\ UNCHANGED <<opts, status, setgroups, written>>

(* clone() without CLONE_FILES: the child gets descriptors of its own. *)
Clone ==
  \/ MayFail("clone") /\ ParentFails("clone")
  \/ /\ pc["parent"] = "clone"
     /\ pc' = [parent |-> AfterClone, child |-> "closew"]
     /\ writers' = writers \cup {"child"}
     /\ UNCHANGED <<opts, status, setgroups, written>>

(* update_map(): open() or write() may fail, for a dead child too. *)
UpdateMap(l, m, next) ==
  \/ (MayFail(l) \/ pc["child"] = "exited") /\ ParentFails(l)
  \/ /\ pc["parent"] = l
     /\ Goto("parent", next)
     /\ written' = written \cup {m}
     /\ UNCHANGED <<opts, status, writers, setgroups>>

UidMap == UpdateMap("uid_map", "uid", AfterUid)

(* proc_setgroups_write(child_pid, "deny"): no error ends the program. *)
SetGroups ==
  /\ pc["parent"] = "setgroups"
  /\ \/ HasSetgroups /\ setgroups' = "deny"
     \/ /\ ~HasSetgroups \/ MayFail("setgroups") \/ pc["child"] = "exited"
        /\ UNCHANGED setgroups
  /\ Goto("parent", "gid_map")
  /\ UNCHANGED <<opts, status, writers, written>>

(* Since Linux 3.19 an unprivileged process writes gid_map only after it has
   denied setgroups(). *)
GidMapAllowed == Privileged \/ ~HasSetgroups \/ setgroups = "deny"

GidMap ==
  \/ GidMapAllowed /\ UpdateMap("gid_map", "gid", "closew")
  \/ ~GidMapAllowed /\ ParentFails("gid_map")

CloseW ==
  /\ pc["parent"] = "closew"
  /\ Goto("parent", "wait")
  /\ writers' = writers \ {"parent"}
  /\ UNCHANGED <<opts, status, setgroups, written>>

Wait ==
  /\ pc["parent"] = "wait"
  /\ pc["child"] = "exited"
  /\ Exit("parent", "ok")
  /\ UNCHANGED <<opts, setgroups, written>>

Parent ==
  \/ Options \/ MakePipe \/ Clone \/ UidMap \/ SetGroups \/ GidMap
  \/ CloseW \/ Wait

-----------------------------------------------------------------------------
(* The child: childFunc(), then the command it becomes                      *)

ChildFails(l) ==
  /\ pc["child"] = l
  /\ MayFail(l)
  /\ Exit("child", "error")
  /\ UNCHANGED <<opts, setgroups, written>>

(* Mutant: the child keeps its copy of the write end. *)
ChildCloseW_Kept ==
  /\ pc["child"] = "closew"
  /\ Goto("child", "read")
  /\ UNCHANGED <<opts, status, writers, setgroups, written>>

ChildCloseW ==
  /\ pc["child"] = "closew"
  /\ Goto("child", "read")
  /\ writers' = writers \ {"child"}
  /\ UNCHANGED <<opts, status, setgroups, written>>

(* Mutant: the child does not wait for end of file. *)
ChildRead_NoWait ==
  /\ pc["child"] = "read"
  /\ Goto("child", "execvp")
  /\ UNCHANGED <<opts, status, writers, setgroups, written>>

(* read() returns 0, end of file, once nobody has the write end. *)
ChildRead ==
  /\ pc["child"] = "read"
  /\ writers = {}
  /\ Goto("child", "execvp")
  /\ UNCHANGED <<opts, status, writers, setgroups, written>>

ChildExec ==
  /\ pc["child"] = "execvp"
  /\ Goto("child", "command")
  /\ UNCHANGED <<opts, status, writers, setgroups, written>>

CommandEnds ==
  /\ pc["child"] = "command"
  /\ Exit("child", "ok")
  /\ UNCHANGED <<opts, setgroups, written>>

ChildRuns == ChildCloseW \/ ChildRead \/ ChildExec \/ CommandEnds

Child == ChildRuns \/ ChildFails("read") \/ ChildFails("execvp")

-----------------------------------------------------------------------------
(* A signal ends a process.  The environment does this, no fairness. *)
Kill(p) ==
  /\ Alive(p)
  /\ Exit(p, "killed")
  /\ UNCHANGED <<opts, setgroups, written>>

Finished ==
  /\ \A p \in Proc : ~Alive(p)
  /\ UNCHANGED vars

Next == Parent \/ Child \/ (\E p \in Killable : Kill(p)) \/ Finished

(* The kernel schedules both, and the command ends some day.  A failing read()
   is nothing a blocked child may hope for: ChildFails has no fairness. *)
Fairness == WF_vars(Parent) /\ WF_vars(ChildRuns)

Spec == Init /\ [][Next]_vars /\ Fairness

-----------------------------------------------------------------------------
(* Properties                                                               *)

Command == pc["child"] = "command"

LaunchNeed ==
  (IF WantsUid THEN {"uid"} ELSE {}) \cup (IF WantsGid THEN {"gid"} ELSE {})

(* "Wait until the parent has updated the UID and GID mappings"
   (userns_child_exec.c:161): whatever fails and whoever is killed, a command
   runs without its maps only after a parent that did not get to its close() at
   line 288. *)
UnmappedOnlyIfParentFailed ==
  Command /\ written # LaunchNeed => status["parent"] \in {"error", "killed"}

(* No exit leaves the other process blocked on the pipe or in waitpid(). *)
Termination == <>(\A p \in Proc : ~Alive(p))

(* The inductive invariant behind the safety properties, in parts. *)

(* Who exists when. *)
CloneOrder ==
  /\ \A p \in Proc : pc[p] = "exited" <=> status[p] # "none"
  /\ pc["parent"] \in {"options", "pipe", "clone"} => pc["child"] = "none"
  /\ pc["parent"] \notin {"options", "pipe", "clone", "exited"} => pc["child"] # "none"
  /\ status["parent"] = "ok" => pc["child"] = "exited"

(* The parent has the write end until the maps are done, and the child goes on
   only when the parent has let go of it, by close() or by its end. *)
GoGiven ==
  /\ pc["parent"] \in {"clone", "uid_map", "setgroups", "gid_map", "closew"}
       => "parent" \in writers
  /\ pc["child"] \in {"execvp", "command"} \/ status["child"] = "ok"
       => pc["parent"] \in {"wait", "exited"}

(* What is written by the time the parent gets to a step: a parent on its way to
   waitpid() has written all the maps. *)
MapsWritten ==
  /\ pc["child"] = "none" => written = {}
  /\ written \subseteq LaunchNeed
  /\ pc["parent"] = "uid_map" => WantsUid /\ written = {}
  /\ pc["parent"] \in {"setgroups", "gid_map"} => WantsGid /\ written = LaunchNeed \ {"gid"}
  /\ pc["parent"] \in {"closew", "wait"} \/ status["parent"] = "ok" => written = LaunchNeed

LaunchInv == TypeOK /\ CloneOrder /\ GoGiven /\ MapsWritten

LaunchCmd ==
  IF Command THEN "running"
  ELSE IF status["child"] = "ok" THEN "ended"
  ELSE IF status["child"] # "none" THEN "failed"
  ELSE IF pc["child"] = "none" /\ pc["parent"] = "exited" THEN "failed"
  ELSE IF pc["parent"] = "options" THEN "idle"
  ELSE "setup"

L == INSTANCE Launcher WITH
       need    <- IF LaunchCmd = "idle" THEN {} ELSE LaunchNeed,
       done    <- written,
       cmd     <- LaunchCmd,
       trouble <- \E p \in Proc : status[p] \in {"error", "killed"}

(* The program is a launcher: main() and childFunc(), with whatever fails and
   whoever is killed, keep the promise of Launcher
   (userns_child_exec.c:155-297). *)
IsLauncher == L!Spec

=============================================================================
