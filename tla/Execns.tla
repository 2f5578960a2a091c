------------------------------- MODULE Execns -------------------------------
(***************************************************************************)
(* execns.c: run a command in the namespaces of a target process.  The     *)
(* program compares its namespaces with the target's one after the other,  *)
(* in the order of ns_list[], enters the ones that differ, then forks a    *)
(* child that executes the command, and waits for it.                      *)
(*                                                                         *)
(* The target may end at any moment, and what the program may see and      *)
(* enter depends on who calls it and on what it has entered already.       *)
(***************************************************************************)
EXTENDS Integers, Sequences, SequencesExt

CONSTANTS
  Args,     \* the command lines: whether the pid is one, and the names
  Differ,   \* the sets of namespaces in which the caller and the target differ
  Owned,    \* the sets of namespaces that belong to the target's user namespace
  Callers,  \* who may call: "root", the "owner" of the target's user
            \* namespace, who runs the target, or "other"
  Faults    \* the calls that may fail for want of resources

(* Mutant: the mount namespace comes first. *)
NsList_MntFirst == <<"mnt", "ipc", "pid", "net", "user", "uts", "cgroup">>

NsList == <<"ipc", "pid", "net", "user", "uts", "cgroup", "mnt">>

NsName == ToSet(NsList)

ASSUME ConstantsAssumption ==
  /\ Args \subseteq [pid : BOOLEAN, names : Seq(NsName \cup {"all", "bad"})]
  /\ Differ \subseteq SUBSET NsName
  /\ Owned \subseteq SUBSET NsName
  /\ Callers \subseteq {"root", "owner", "other"}
  /\ Faults \subseteq {"fork", "exec"}

VARIABLES
  args,     \* the command line
  differs,  \* the namespaces in which the caller and the target differ
  owned,    \* the namespaces that belong to the target's user namespace
  caller,   \* who calls
  init,     \* whether the target is the first process of its pid namespace
  target,   \* whether the target exists
  sel,      \* ns_list[].selected
  i,        \* the loop counter
  entered,  \* the namespaces entered with setns()
  father,   \* where the program is
  exit,     \* its exit status
  child     \* where its child is

setup == <<args, differs, owned, caller, init>>
vars  == <<setup, target, sel, i, entered, father, exit, child>>

FatherPc == {"parse", "loop", "open", "setns", "fork", "wait", "exited"}

(* ns_list[], i, rc and child (execns.c:28-40, 73-76) keep to their types. *)
TypeOK ==
  /\ sel \subseteq NsName /\ entered \subseteq NsName
  /\ i \in 1..(Len(NsList) + 1)
  /\ father \in FatherPc
  /\ exit \in {"none", "ok", "error"}
  /\ child \in {"none", "exec", "running", "ended"}
  /\ target \in BOOLEAN

Init ==
  /\ args \in Args
  /\ differs \in Differ
  /\ owned \in Owned
  /\ caller \in Callers
  /\ init \in BOOLEAN
  /\ target = TRUE
  /\ sel = {} /\ i = 1 /\ entered = {}
  /\ father = "parse" /\ exit = "none" /\ child = "none"

-----------------------------------------------------------------------------
(* The kernel                                                               *)

(* /proc/<tpid> shows the target while it exists.  Behind the mount namespace
   of the target, /proc numbers the processes of the target's pid namespace. *)
Visible == target /\ ("mnt" \in entered => "pid" \notin differs)

(* Only who may trace the target can look at its namespaces (stat, open). *)
MayLook == Visible /\ caller # "other"

(* A process that entered the target's user namespace has its privileges
   there and nowhere else.  Entering one's own user namespace is an error. *)
MayEnter(ns) ==
  /\ ns = "user" => "user" \in differs
  /\ IF "user" \in entered THEN ns \in owned
     ELSE caller = "root" \/ (caller = "owner" /\ ns = "user")

(* A pid namespace without its first process takes no new ones, and those it
   has are killed. *)
DeadPidNs == "pid" \in entered /\ init /\ ~target

TargetDies ==
  /\ target
  /\ target' = FALSE
  /\ UNCHANGED <<setup, sel, i, entered, father, exit, child>>

-----------------------------------------------------------------------------
(* main()                                                                   *)

Fail ==
  /\ father' = "exited"
  /\ exit' = "error"

(* select_ns() refuses a name that is not in the list, the empty one too. *)
Rejected(a) == ~a.pid \/ "bad" \in ToSet(a.names)

Selected(a) ==
  IF a.names = <<>> \/ "all" \in ToSet(a.names) THEN NsName ELSE ToSet(a.names)

Parse ==
  /\ father = "parse"
  /\ IF Rejected(args) THEN Fail /\ UNCHANGED sel
     ELSE /\ sel' = Selected(args)
          /\ father' = "loop"
          /\ UNCHANGED exit
  /\ UNCHANGED <<setup, target, i, entered, child>>

(* cmp_ns(): -1 when a stat() fails, 1 for one namespace, 0 for two. *)
CmpNs(ns) == IF ~MayLook THEN -1 ELSE IF ns \in differs \ entered THEN 0 ELSE 1

(* Mutant: the namespaces are not compared. *)
Loop_EnterAll ==
  /\ father = "loop"
  /\ IF i > Len(NsList) THEN father' = "fork" /\ UNCHANGED i
     ELSE IF NsList[i] \notin sel THEN i' = i + 1 /\ UNCHANGED father
     ELSE father' = "open" /\ UNCHANGED i
  /\ UNCHANGED <<setup, target, sel, entered, exit, child>>

(* Mutant: a comparison that failed is tried again. *)
Loop_Retry ==
  /\ father = "loop"
  /\ IF i > Len(NsList) THEN father' = "fork" /\ UNCHANGED i
     ELSE IF NsList[i] \notin sel THEN i' = i + 1 /\ UNCHANGED father
     ELSE CASE CmpNs(NsList[i]) = 1  -> i' = i + 1 /\ UNCHANGED father
            [] CmpNs(NsList[i]) = -1 -> UNCHANGED <<i, father>>
            [] CmpNs(NsList[i]) = 0  -> father' = "open" /\ UNCHANGED i
  /\ UNCHANGED <<setup, target, sel, entered, exit, child>>

(* The head of the loop: whatever cmp_ns() returns that is not 0 means that
   there is nothing to do. *)
Loop ==
  /\ father = "loop"
  /\ IF i > Len(NsList) THEN father' = "fork" /\ UNCHANGED i
     ELSE IF NsList[i] \notin sel \/ CmpNs(NsList[i]) # 0
     THEN i' = i + 1 /\ UNCHANGED father
     ELSE father' = "open" /\ UNCHANGED i
  /\ UNCHANGED <<setup, target, sel, entered, exit, child>>

(* From here on the namespace cannot vanish: the program holds it open. *)
Open ==
  /\ father = "open"
  /\ IF MayLook THEN father' = "setns" /\ UNCHANGED exit ELSE Fail
  /\ UNCHANGED <<setup, target, sel, i, entered, child>>

(* Mutant: a failure is reported, and the loop goes on. *)
SetNs_Report ==
  /\ father = "setns"
  /\ entered' = IF MayEnter(NsList[i]) THEN entered \cup {NsList[i]} ELSE entered
  /\ i' = i + 1
  /\ father' = "loop"
  /\ UNCHANGED <<setup, target, sel, exit, child>>

SetNs ==
  /\ father = "setns"
  /\ IF MayEnter(NsList[i])
       THEN /\ entered' = entered \cup {NsList[i]}
            /\ i' = i + 1
            /\ father' = "loop"
            /\ UNCHANGED exit
       ELSE Fail /\ UNCHANGED <<i, entered>>
  /\ UNCHANGED <<setup, target, sel, child>>

(* Father and failure take the same branch: child = -1 is not looked at. *)
Fork ==
  /\ father = "fork"
  /\ father' = "wait"
  /\ \/ ~DeadPidNs /\ child' = "exec"
     \/ (DeadPidNs \/ "fork" \in Faults) /\ UNCHANGED child
  /\ UNCHANGED <<setup, target, sel, i, entered, exit>>

(* waitpid(): an error when there is no child. *)
Wait ==
  /\ father = "wait"
  /\ child \in {"none", "ended"}
  /\ father' = "exited"
  /\ exit' = IF child = "ended" THEN "ok" ELSE "error"
  /\ UNCHANGED <<setup, target, sel, i, entered, child>>

Father == Parse \/ Loop \/ Open \/ SetNs \/ Fork \/ Wait

-----------------------------------------------------------------------------
(* The child                                                                *)

ChildTo(l) == child' = l /\ UNCHANGED <<setup, target, sel, i, entered, father, exit>>

(* execv(), or _exit(1) when it fails *)
Exec == child = "exec" /\ ~DeadPidNs /\ ChildTo("running")
ExecFails == child = "exec" /\ "exec" \in Faults /\ ChildTo("ended")

CommandEnds == child = "running" /\ ChildTo("ended")

ChildKilled == child \in {"exec", "running"} /\ DeadPidNs /\ ChildTo("ended")

Child == Exec \/ ExecFails \/ CommandEnds \/ ChildKilled

Next == Father \/ Child \/ TargetDies

(* The kernel schedules both processes, and the command ends some day. *)
Fairness == WF_vars(Father) /\ WF_vars(Child)

Spec == Init /\ [][Next]_vars /\ Fairness

-----------------------------------------------------------------------------
(* Properties                                                               *)

Wanted == sel \cap differs

(* "If different, enter into the namespace" (execns.c:148): the command runs in
   exactly the namespaces asked for.  The exceptions are a target that ended
   and a caller who may not look at it: cmp_ns() then returns -1, which counts
   as "same namespace" (line 155), and the command runs where the caller is. *)
RunsWhereAsked ==
  child = "running" /\ target /\ caller # "other" => entered = Wanted

(* Whatever ends or fails, the program never enters a namespace behind one of
   ns_list[] that it wanted and did not enter (execns.c:149-182). *)
EnteredInOrder ==
  \A m, n \in DOMAIN NsList :
    m < n /\ NsList[n] \in entered /\ NsList[m] \in Wanted => NsList[m] \in entered

(* The privileges in the order of ns_list[] (execns.c:32-40): root is refused
   only a namespace that comes behind "user" and does not belong to it. *)
RootRefusedOnlyBehindUser ==
  caller = "root" /\ target /\ exit = "error" /\ ~Rejected(args) /\ i <= Len(NsList)
    => "user" \in entered /\ NsList[i] \notin owned

(* A return of 0 means that the child existed and has ended: a fork() that
   failed shows in waitpid() only (execns.c:185-226). *)
OkMeansEnded ==
  /\ exit = "ok" => child = "ended"
  /\ father = "exited" => child \in {"none", "ended"}

(* The inductive invariant behind them, in parts. *)

(* Where main() is says what exists and how far the loop is. *)
Places ==
  /\ father = "parse" => sel = {} /\ i = 1 /\ child = "none"
  /\ father \in {"open", "setns"} => i <= Len(NsList) /\ NsList[i] \in Wanted
  /\ father \in {"fork", "wait"} => i = Len(NsList) + 1
  /\ father \in {"loop", "open", "setns", "fork"} => child = "none"
  /\ child # "none" => i = Len(NsList) + 1
  /\ father = "exited" <=> exit # "none"

(* Only namespaces that are wanted and behind the loop are entered. *)
EnteredBehind ==
  \A n \in entered : n \in Wanted /\ \E m \in 1..(i - 1) : NsList[m] = n

(* A wanted namespace was skipped because the target cannot be looked at any
   more, so that nothing is entered from then on. *)
SkippedForGood ==
  \A m \in 1..(i - 1) : NsList[m] \in Wanted \ entered =>
    ~(target /\ caller # "other") /\ father \notin {"open", "setns"}

LoopInv ==
  /\ TypeOK /\ Places /\ EnteredBehind /\ SkippedForGood
  /\ EnteredInOrder /\ OkMeansEnded

(* Whoever ends when, the program does. *)
Ends == <>(father = "exited")

=============================================================================
