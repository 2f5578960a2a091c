------------------------------- MODULE Reaper -------------------------------
(***************************************************************************)
(* reaper.c, the first process of a pid namespace, with what orphan.c      *)
(* makes of its children: the reaper forks a shell, the shell starts       *)
(* tools, a tool forks children and ends without waiting for them, and     *)
(* every process whose parent ended becomes a child of the reaper.         *)
(*                                                                         *)
(* A process that ended is a zombie until its parent waits for it.  The    *)
(* kernel tells the parent with SIGCHLD, of which at most one is pending.  *)
(***************************************************************************)
EXTENDS Naturals, FiniteSets

CONSTANTS
  Shell,    \* the shell
  Tools,    \* the runs of orphan
  Orphans,  \* their children
  Reaper,   \* the reaper, as a parent
  None,     \* the value of pid_sh before the assignment
  Faults    \* the calls that may fail

Proc == {Shell} \cup Tools \cup Orphans

ASSUME ConstantsAssumption ==
  /\ Shell \notin Tools \cup Orphans /\ Tools \cap Orphans = {}
  /\ IsFiniteSet(Orphans)
  /\ Reaper \notin Proc /\ None \notin Proc \cup {Reaper}
  /\ Faults \subseteq {"sigaction", "fork", "fork_shell"}

VARIABLES
  captured,  \* CHLD is on the command line of the reaper
  at,        \* where main() is
  exit,      \* the exit status of the reaper
  handling,  \* whether the handler runs
  pending,   \* whether a SIGCHLD is pending
  pid_sh,    \* the static variable
  life,      \* "unborn", "running", "zombie" or "gone"
  parent,    \* the parent of each process
  nb         \* the forks each tool has still to make

reaper == <<captured, at, exit, handling, pid_sh>>
vars   == <<reaper, pending, life, parent, nb>>

(* pid_sh (reaper.c:71), the state of the program and the processes keep to
   their types. *)
TypeOK ==
  /\ captured \in BOOLEAN /\ handling \in BOOLEAN /\ pending \in BOOLEAN
  /\ at \in {"signals", "fork", "assign", "pause", "exited"}
  /\ exit \in {"none", "ok", "error"}
  /\ pid_sh \in {None, Shell}
  /\ life \in [Proc -> {"unborn", "running", "zombie", "gone"}]
  /\ parent \in [Proc -> Proc \cup {Reaper, None}]
  /\ nb \in [Tools -> Nat]

Init ==
  /\ captured \in BOOLEAN
  /\ at = "signals" /\ exit = "none"
  /\ handling = FALSE /\ pending = FALSE
  /\ pid_sh = None
  /\ life = [p \in Proc |-> "unborn"]
  /\ parent = [p \in Proc |-> None]
  /\ nb \in [Tools -> 0..Cardinality(Orphans)]

-----------------------------------------------------------------------------
(* The kernel                                                               *)

Children(p) == {c \in Proc : parent[c] = p /\ life[c] \in {"running", "zombie"}}
Zombies(p)  == {c \in Children(p) : life[c] = "zombie"}

ForkedBy(p, c) ==
  /\ life[c] = "unborn"
  /\ life' = [life EXCEPT ![c] = "running"]
  /\ parent' = [parent EXCEPT ![c] = p]

(* A process ends: its children, zombies or not, become the reaper's, and the
   reaper gets a SIGCHLD if it has a new zombie for a child.  A signal that is
   not captured is thrown away. *)
End(p) ==
  /\ life[p] = "running"
  /\ life' = [life EXCEPT ![p] = "zombie"]
  /\ parent' = [c \in Proc |-> IF c \in Children(p) THEN Reaper ELSE parent[c]]
  /\ pending' = (pending \/ (captured /\ (parent[p] = Reaper \/ Zombies(p) # {})))
  /\ UNCHANGED <<reaper, nb>>

(* The end of the first process is the end of its namespace. *)
ReaperExit(s) ==
  /\ at' = "exited"
  /\ exit' = s
  /\ handling' = FALSE
  /\ life' = [p \in Proc |-> IF life[p] = "unborn" THEN "unborn" ELSE "gone"]
  /\ UNCHANGED <<captured, pid_sh, pending, parent, nb>>

-----------------------------------------------------------------------------
(* main()                                                                   *)

(* The command line: the handler is installed for the signals on it. *)
Signals ==
  /\ at = "signals"
  /\ at' = "fork"
  /\ UNCHANGED <<captured, exit, handling, pid_sh, pending, life, parent, nb>>

SignalsFail == at = "signals" /\ "sigaction" \in Faults /\ ReaperExit("error")

(* fork(): the shell runs, but pid_sh is assigned in the next step. *)
Fork ==
  /\ at = "fork"
  /\ ForkedBy(Reaper, Shell)
  /\ at' = "assign"
  /\ UNCHANGED <<captured, exit, handling, pid_sh, pending, nb>>

ForkFails == at = "fork" /\ "fork_shell" \in Faults /\ ReaperExit("error")

Assign ==
  /\ at = "assign" /\ ~handling
  /\ pid_sh' = Shell
  /\ at' = "pause"
  /\ UNCHANGED <<captured, exit, handling, pending, life, parent, nb>>

-----------------------------------------------------------------------------
(* sig_hdl(): SIGCHLD is blocked while it runs.                             *)

Deliver ==
  /\ pending /\ ~handling /\ at # "exited"
  /\ handling' = TRUE
  /\ pending' = FALSE
  /\ UNCHANGED <<captured, at, exit, pid_sh, life, parent, nb>>

(* Mutant: one waitpid() for one signal. *)
Reap_One ==
  /\ handling
  /\ \E z \in Zombies(Reaper) :
       IF z = pid_sh THEN ReaperExit("ok")
       ELSE /\ life' = [life EXCEPT ![z] = "gone"]
            /\ handling' = FALSE
            /\ UNCHANGED <<captured, at, exit, pid_sh, pending, parent, nb>>

(* waitpid(-1, WNOHANG) returns a zombie: the shell ends the reaper. *)
Reap ==
  /\ handling
  /\ \E z \in Zombies(Reaper) :
       IF z = pid_sh THEN ReaperExit("ok")
       ELSE /\ life' = [life EXCEPT ![z] = "gone"]
            /\ UNCHANGED <<reaper, pending, parent, nb>>

(* Mutant: "pid <= 0" is an error. *)
ReapNone_Fails ==
  /\ handling
  /\ Children(Reaper) # {} /\ Zombies(Reaper) = {}
  /\ ReaperExit("error")

(* It returns 0: there are children, and none has ended. *)
ReapNone ==
  /\ handling
  /\ Children(Reaper) # {} /\ Zombies(Reaper) = {}
  /\ handling' = FALSE
  /\ UNCHANGED <<captured, at, exit, pid_sh, pending, life, parent, nb>>

(* Mutant: an error ends the handler only. *)
NoChild_Returns ==
  /\ handling
  /\ Children(Reaper) = {}
  /\ handling' = FALSE
  /\ UNCHANGED <<captured, at, exit, pid_sh, pending, life, parent, nb>>

(* It returns -1 (ECHILD): there is no child left. *)
NoChild ==
  /\ handling
  /\ Children(Reaper) = {}
  /\ ReaperExit("error")

ReaperRuns == Signals \/ Fork \/ Assign \/ Deliver \/ Reap \/ ReapNone \/ NoChild

-----------------------------------------------------------------------------
(* The shell and orphan.c                                                   *)

StartTool(t) ==
  /\ life[Shell] = "running"
  /\ ForkedBy(Shell, t)
  /\ UNCHANGED <<reaper, pending, nb>>

(* The shell waits for a tool. *)
ShellReaps(t) ==
  /\ life[Shell] = "running"
  /\ t \in Zombies(Shell)
  /\ life' = [life EXCEPT ![t] = "gone"]
  /\ UNCHANGED <<reaper, pending, parent, nb>>

ToolForks(t) ==
  /\ life[t] = "running" /\ nb[t] > 0
  /\ nb' = [nb EXCEPT ![t] = @ - 1]
  /\ \/ \E o \in Orphans : ForkedBy(t, o)
     \/ "fork" \in Faults /\ UNCHANGED <<life, parent>>
  /\ UNCHANGED <<reaper, pending>>

(* A shell may end at any time, a tool at the end of its loop, an orphan when
   it has slept. *)
Ends(p) ==
  /\ p \in Tools => nb[p] = 0
  /\ End(p)

Next ==
  \/ ReaperRuns \/ SignalsFail \/ ForkFails
  \/ \E t \in Tools : StartTool(t) \/ ShellReaps(t) \/ ToolForks(t)
  \/ \E p \in Proc : Ends(p)

(* The kernel runs the reaper, and every process ends some day. *)
Fairness ==
  /\ WF_vars(ReaperRuns)
  /\ \A t \in Tools : WF_vars(ToolForks(t))
  /\ \A p \in Proc : WF_vars(Ends(p))

Spec == Init /\ [][Next]_vars /\ Fairness

-----------------------------------------------------------------------------
(* Properties                                                               *)

(* "Reap all the childs" (reaper.c:89): a zombie of the reaper is announced by
   a signal or about to be found by the handler, however many signals were one. *)
NoZombieForgotten ==
  captured /\ at # "exited" /\ Zombies(Reaper) # {} => pending \/ handling

(* Where main() is says what there is: the shell is a child of the reaper from
   fork() on, and nothing outlives the reaper. *)
Places ==
  /\ at \in {"signals", "fork"} => life[Shell] = "unborn"
  /\ at \in {"assign", "pause"} => life[Shell] # "unborn" /\ parent[Shell] = Reaper
  /\ at = "exited" => ~handling /\ \A p \in Proc : life[p] \in {"unborn", "gone"}
  /\ \A p \in Proc : parent[p] # p

(* The inductive invariant. *)
ReaperInv == TypeOK /\ Places /\ NoZombieForgotten

(* Every process that ended and came to the reaper is reaped. *)
ZombiesReaped ==
  captured =>
    \A p \in Proc : (life[p] = "zombie" /\ parent[p] = Reaper) ~> (life[p] = "gone")

(* The reaper ends its namespace for one of two reasons (reaper.c:92-110): with
   0 because the shell has ended and is reaped now, or with 1 because no child
   is left, which means that the shell was reaped before pid_sh was assigned. *)
ExitsForAReason ==
  [][at' = "exited" /\ at \notin {"signals", "fork"} =>
       \/ exit' = "ok" /\ life[Shell] = "zombie"
       \/ exit' = "error" /\ life[Shell] = "gone" /\ Children(Reaper) = {}]_vars

(* A shell that ended takes the reaper with it, also when the handler reaped it
   as a stranger because fork() had not returned: the error of waitpid() ends
   the reaper then (reaper.c:92-96). *)
EndsWithShell ==
  captured => (life[Shell] \in {"zombie", "gone"}) ~> (at = "exited")

=============================================================================
