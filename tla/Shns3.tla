------------------------------- MODULE Shns3 -------------------------------
(***************************************************************************)
(* shns3.c: run a shell in new namespaces, with id maps written by the     *)
(* set-uid helpers newuidmap and newgidmap.                                *)
(*                                                                         *)
(* Three processes: the father (main), the mapper (child1, forked before   *)
(* the namespaces change, it runs the helpers) and the child (child2,      *)
(* forked after unshare(), it executes the shell).  Two pipes order them:  *)
(* sync1 carries the pid of the child to the mapper, sync2 carries the     *)
(* "go" to the child.  A pipe is the set of processes that hold each end   *)
(* and one bit, a message waiting in it: it carries one in its life.       *)
(***************************************************************************)
EXTENDS Naturals, Sequences

CONSTANTS
  Namespaces,   \* names in ns_list[], "user" among them
  ArgLists,     \* the command lines, sequences of options
  Faults,       \* the calls that may fail (see FaultSites)
  Killable      \* the processes a signal may kill

Proc == {"father", "mapper", "child"}
Pipe == {"sync1", "sync2"}
Map  == {"uid", "gid"}

(* A process returns 0 or not, writes into a pipe nobody reads, or gets a
   deadly signal from elsewhere. *)
Ending == {"ok", "error", "sigpipe", "killed"}

(* The calls whose error path is modelled, by the name of the call. *)
FaultSites == {"add_map", "pipe1", "fork1", "read1", "newuidmap", "newgidmap",
               "pipe2", "unshare", "fork2", "read2", "execve"}

Option == [opt : {"h", "d", "s", "u", "g", "n", ":", "?"},
           arg : Namespaces \cup {"all", "int", "text"}]

ASSUME ConstantsAssumption ==
  /\ "user" \in Namespaces
  /\ ArgLists \subseteq Seq(Option)
  /\ Faults \subseteq FaultSites
  /\ Killable \subseteq Proc

VARIABLES
  args,       \* the options getopt_long() has not returned yet
  sel,        \* the namespaces with ns_list[i].selected
  given,      \* the kinds of maps given on the command line (umap, gmap)
  pc,         \* where each process is; "none" before its fork()
  status,     \* how each process ended
  readers,    \* the processes with the read end of each pipe open
  writers,    \* the processes with the write end of each pipe open
  pending,    \* the pipes with an unread message
  target,     \* the variable child2 in the mapper's memory
  inside,     \* the processes living in the new namespaces
  written     \* the maps written for the new user namespace

vars == <<args, sel, given, pc, status, readers, writers, pending, target,
          inside, written>>

FatherPc == {"scan", "pipe1", "fork1", "pipe2", "unshare", "fork2", "close2r",
             "close1r", "write1", "wait1", "close1w", "write2", "wait2", "exited"}
MapperPc == {"none", "closew", "read", "newuidmap", "newgidmap", "exited"}
ChildPc  == {"none", "closew", "read", "execve", "shell", "exited"}

(* The variables of main() and of its two children keep to their types: the
   labels of pc are the calls of shns3.c:250-574. *)
TypeOK ==
  /\ args \in Seq(Option)
  /\ sel \subseteq Namespaces
  /\ given \subseteq Map
  /\ pc \in [Proc -> FatherPc \cup MapperPc \cup ChildPc]
  /\ pc["father"] \in FatherPc
  /\ pc["mapper"] \in MapperPc
  /\ pc["child"] \in ChildPc
  /\ status \in [Proc -> {"none"} \cup Ending]
  /\ readers \in [Pipe -> SUBSET Proc]
  /\ writers \in [Pipe -> SUBSET Proc]
  /\ pending \subseteq Pipe
  /\ target \in {"uninit", "child"}
  /\ inside \subseteq Proc
  /\ written \subseteq Map

Init ==
  /\ args \in ArgLists
  /\ sel = {}
  /\ given = {}
  /\ pc = [father |-> "scan", mapper |-> "none", child |-> "none"]
  /\ status = [p \in Proc |-> "none"]
  /\ readers = [q \in Pipe |-> {}]
  /\ writers = [q \in Pipe |-> {}]
  /\ pending = {}
  /\ target = "uninit"
  /\ inside = {}
  /\ written = {}

-----------------------------------------------------------------------------
(* Process and pipe operations of the kernel, as main() uses them.         *)

User == "user" \in sel          \* ns_list[SHNS_USER_IDX].selected
Alive(p) == pc[p] \notin {"none", "exited"}
MayFail(site) == site \in Faults

Goto(p, l) == pc' = [pc EXCEPT ![p] = l]

(* exit(), return from main() or death by a signal: every descriptor the
   process holds is closed. *)
Exit(p, s) ==
  /\ pc' = [pc EXCEPT ![p] = "exited"]
  /\ status' = [status EXCEPT ![p] = s]
  /\ readers' = [q \in Pipe |-> readers[q] \ {p}]
  /\ writers' = [q \in Pipe |-> writers[q] \ {p}]

(* fork(): the child starts at label l, with the father's descriptors and in
   the namespaces the father has for its children. *)
Fork(c, next, l) ==
  LET inherit(S) == IF "father" \in S THEN S \cup {c} ELSE S IN
  /\ pc' = [pc EXCEPT !["father"] = next, ![c] = l]
  /\ readers' = [q \in Pipe |-> inherit(readers[q])]
  /\ writers' = [q \in Pipe |-> inherit(writers[q])]
  /\ inside' = inherit(inside)

OpenPipe(q) ==
  /\ readers' = [readers EXCEPT ![q] = {"father"}]
  /\ writers' = [writers EXCEPT ![q] = {"father"}]

CloseRead(p, q) ==
  /\ readers' = [readers EXCEPT ![q] = @ \ {p}]
  /\ UNCHANGED writers

CloseWrite(p, q) ==
  /\ writers' = [writers EXCEPT ![q] = @ \ {p}]
  /\ UNCHANGED readers

Eof(q) == q \notin pending /\ writers[q] = {}

(* write() by the father: the message stays in the pipe, or, when nobody can
   read it, SIGPIPE kills the writer (EPIPE and return 1 when it is ignored). *)
Write(q, next) ==
  \/ /\ readers[q] # {}
     /\ pending' = pending \cup {q}
     /\ Goto("father", next)
     /\ UNCHANGED <<status, readers, writers>>
  \/ /\ readers[q] = {}
     /\ \E s \in {"sigpipe", "error"} : Exit("father", s)
     /\ UNCHANGED pending

-----------------------------------------------------------------------------
(* The father: options                                                      *)

Opt == Head(args)

(* -h: usage and exit *)
ScanHelp ==
  /\ pc["father"] = "scan" /\ args # <<>> /\ Opt.opt = "h"
  /\ Exit("father", "ok")
  /\ UNCHANGED <<args, sel, given, pending, target, inside, written>>

BadOption ==
  \/ Opt.opt \in {":", "?"}
  \/ Opt.opt = "d" /\ Opt.arg # "int"
  \/ Opt.opt = "n" /\ Opt.arg \notin Namespaces \cup {"all"}
  \/ Opt.opt \in {"u", "g"} /\ MayFail("add_map")

ScanError ==
  /\ pc["father"] = "scan" /\ args # <<>> /\ BadOption
  /\ Exit("father", "error")
  /\ UNCHANGED <<args, sel, given, pending, target, inside, written>>

ValidOption ==
  \/ Opt.opt \in {"s", "u", "g"}
  \/ Opt.opt = "d" /\ Opt.arg = "int"
  \/ Opt.opt = "n" /\ Opt.arg \in Namespaces \cup {"all"}

ScanOption ==
  /\ pc["father"] = "scan" /\ args # <<>> /\ ValidOption
  /\ args' = Tail(args)
  /\ given' = given \cup (IF Opt.opt = "u" THEN {"uid"} ELSE {})
                    \cup (IF Opt.opt = "g" THEN {"gid"} ELSE {})
  /\ sel' = IF Opt.opt = "n"
              THEN IF Opt.arg = "all" THEN Namespaces ELSE sel \cup {Opt.arg}
              ELSE sel
  /\ UNCHANGED <<pc, status, readers, writers, pending, target, inside, written>>

(* No namespace selected means all of them; a user namespace needs both maps. *)
ScanEnd ==
  /\ pc["father"] = "scan" /\ args = <<>>
  /\ sel' = IF sel = {} THEN Namespaces ELSE sel
  /\ IF "user" \in sel' /\ given # Map
       THEN Exit("father", "error")
       ELSE /\ Goto("father", IF "user" \in sel' THEN "pipe1" ELSE "pipe2")
            /\ UNCHANGED <<status, readers, writers>>
  /\ UNCHANGED <<args, given, pending, target, inside, written>>

-----------------------------------------------------------------------------
(* The father: processes, namespaces, synchronisation                       *)

FatherFails(l, site) ==
  /\ pc["father"] = l
  /\ MayFail(site)
  /\ Exit("father", "error")
  /\ UNCHANGED <<args, sel, given, pending, target, inside, written>>

Pipe1 ==
  /\ pc["father"] = "pipe1"
  /\ Goto("father", "fork1")
  /\ OpenPipe("sync1")
  /\ UNCHANGED <<args, sel, given, status, pending, target, inside, written>>

Fork1 ==
  /\ pc["father"] = "fork1"
  /\ Fork("mapper", "pipe2", "closew")
  /\ UNCHANGED <<args, sel, given, status, pending, target, written>>

Pipe2 ==
  /\ pc["father"] = "pipe2"
  /\ Goto("father", "unshare")
  /\ OpenPipe("sync2")
  /\ UNCHANGED <<args, sel, given, status, pending, target, inside, written>>

Unshare ==
  /\ pc["father"] = "unshare"
  /\ Goto("father", "fork2")
  /\ inside' = inside \cup {"father"}
  /\ UNCHANGED <<args, sel, given, status, readers, writers, pending, target, written>>

Fork2 ==
  /\ pc["father"] = "fork2"
  /\ Fork("child", "close2r", "closew")
  /\ UNCHANGED <<args, sel, given, status, pending, target, written>>

Close2r ==
  /\ pc["father"] = "close2r"
  /\ Goto("father", IF User THEN "close1r" ELSE "write2")
  /\ CloseRead("father", "sync2")
  /\ UNCHANGED <<args, sel, given, status, pending, target, inside, written>>

Close1r ==
  /\ pc["father"] = "close1r"
  /\ Goto("father", "write1")
  /\ CloseRead("father", "sync1")
  /\ UNCHANGED <<args, sel, given, status, pending, target, inside, written>>

Write1 ==
  /\ pc["father"] = "write1"
  /\ Write("sync1", "wait1")
  /\ UNCHANGED <<args, sel, given, target, inside, written>>

(* Mutant: waitpid(child1) with WNOHANG. *)
Wait1_NoHang ==
  /\ pc["father"] = "wait1"
  /\ Goto("father", "close1w")
  /\ UNCHANGED <<args, sel, given, status, readers, writers, pending, target,
                 inside, written>>

(* waitpid(child1): the exit status is stored and never looked at. *)
Wait1 ==
  /\ pc["father"] = "wait1"
  /\ pc["mapper"] = "exited"
  /\ Goto("father", "close1w")
  /\ UNCHANGED <<args, sel, given, status, readers, writers, pending, target,
                 inside, written>>

Close1w ==
  /\ pc["father"] = "close1w"
  /\ Goto("father", "write2")
  /\ CloseWrite("father", "sync1")
  /\ UNCHANGED <<args, sel, given, status, pending, target, inside, written>>

Write2 ==
  /\ pc["father"] = "write2"
  /\ Write("sync2", "wait2")
  /\ UNCHANGED <<args, sel, given, target, inside, written>>

(* Mutant: waitpid(child2) with WNOHANG. *)
Wait2_NoHang ==
  /\ pc["father"] = "wait2"
  /\ Exit("father", "ok")
  /\ UNCHANGED <<args, sel, given, pending, target, inside, written>>

Wait2 ==
  /\ pc["father"] = "wait2"
  /\ pc["child"] = "exited"
  /\ Exit("father", "ok")
  /\ UNCHANGED <<args, sel, given, pending, target, inside, written>>

FatherSetupFails ==
  \/ FatherFails("pipe1", "pipe1") \/ FatherFails("fork1", "fork1")
  \/ FatherFails("pipe2", "pipe2") \/ FatherFails("unshare", "unshare")
  \/ FatherFails("fork2", "fork2")

Father ==
  \/ ScanHelp \/ ScanError \/ ScanOption \/ ScanEnd
  \/ Pipe1 \/ Fork1 \/ Pipe2 \/ Unshare \/ Fork2 \/ FatherSetupFails
  \/ Close2r \/ Close1r \/ Write1 \/ Wait1 \/ Close1w \/ Write2 \/ Wait2

-----------------------------------------------------------------------------
(* The mapper (child1)                                                      *)

(* Mutant: the mapper keeps its copy of sync1[1]. *)
MapperCloseW_Kept ==
  /\ pc["mapper"] = "closew"
  /\ Goto("mapper", "read")
  /\ UNCHANGED <<args, sel, given, status, readers, writers, pending, target,
                 inside, written>>

MapperCloseW ==
  /\ pc["mapper"] = "closew"
  /\ Goto("mapper", "read")
  /\ CloseWrite("mapper", "sync1")
  /\ UNCHANGED <<args, sel, given, status, pending, target, inside, written>>

(* Mutant: the mapper does not block on an empty pipe. *)
MapperRead_NoWait ==
  /\ pc["mapper"] = "read"
  /\ target' = IF "sync1" \in pending THEN "child" ELSE target
  /\ pending' = pending \ {"sync1"}
  /\ Goto("mapper", "newuidmap")
  /\ CloseRead("mapper", "sync1")
  /\ UNCHANGED <<args, sel, given, status, inside, written>>

(* read(sync1[0], &child2): only rc < 0 is an error.  At end of file nothing
   is stored, and the mapper goes on with an uninitialised child2. *)
MapperRead ==
  /\ pc["mapper"] = "read"
  /\ \/ /\ "sync1" \in pending
        /\ pending' = pending \ {"sync1"}
        /\ target' = "child"
     \/ /\ Eof("sync1")
        /\ UNCHANGED <<pending, target>>
  /\ Goto("mapper", "newuidmap")
  /\ CloseRead("mapper", "sync1")
  /\ UNCHANGED <<args, sel, given, status, inside, written>>

(* A helper works from outside the new user namespace, on a process that
   lives in it.  With a garbage pid it may happen to find another process, and
   then it writes a map that is not ours. *)
CanMap == "mapper" \notin inside /\ (target = "child" => "child" \in inside)

Map1(m) == written' = IF target = "child" THEN written \cup {m} ELSE written

(* Mutant: the mapper is done after newuidmap. *)
NewUidMap_Only ==
  /\ pc["mapper"] = "newuidmap" /\ CanMap
  /\ Map1("uid")
  /\ Exit("mapper", "ok")
  /\ UNCHANGED <<args, sel, given, pending, target, inside>>

NewUidMap ==
  /\ pc["mapper"] = "newuidmap" /\ CanMap
  /\ Map1("uid")
  /\ Goto("mapper", "newgidmap")
  /\ UNCHANGED <<args, sel, given, status, readers, writers, pending, target, inside>>

NewGidMap ==
  /\ pc["mapper"] = "newgidmap" /\ CanMap
  /\ Map1("gid")
  /\ Exit("mapper", "ok")
  /\ UNCHANGED <<args, sel, given, pending, target, inside>>

(* read(), make_cmdline() or the helper fails.  The helper may fail, whatever
   Faults says, on a garbage pid and on a child that is dead. *)
MapperFails ==
  /\ \/ pc["mapper"] = "read" /\ MayFail("read1")
     \/ /\ pc["mapper"] \in {"newuidmap", "newgidmap"}
        /\ \/ MayFail(pc["mapper"]) \/ ~CanMap
           \/ target = "uninit"     \/ pc["child"] = "exited"
  /\ Exit("mapper", "error")
  /\ UNCHANGED <<args, sel, given, pending, target, inside, written>>

Mapper == MapperCloseW \/ MapperRead \/ NewUidMap \/ NewGidMap \/ MapperFails

-----------------------------------------------------------------------------
(* The child (child2), then the shell it becomes                            *)

(* Mutant: the child also closes the ends of sync1 it inherited. *)
ChildCloseW_All ==
  /\ pc["child"] = "closew"
  /\ Goto("child", "read")
  /\ writers' = [q \in Pipe |-> writers[q] \ {"child"}]
  /\ readers' = [readers EXCEPT !["sync1"] = @ \ {"child"}]
  /\ UNCHANGED <<args, sel, given, status, pending, target, inside, written>>

ChildCloseW ==
  /\ pc["child"] = "closew"
  /\ Goto("child", "read")
  /\ CloseWrite("child", "sync2")
  /\ UNCHANGED <<args, sel, given, status, pending, target, inside, written>>

(* Mutant: the child does not wait for the go. *)
ChildRead_NoWait ==
  /\ pc["child"] = "read"
  /\ pending' = pending \ {"sync2"}
  /\ Goto("child", "execve")
  /\ CloseRead("child", "sync2")
  /\ UNCHANGED <<args, sel, given, status, target, inside, written>>

(* read(sync2[0], &i): only rc < 0 is an error, end of file means "go" too. *)
ChildRead ==
  /\ pc["child"] = "read"
  /\ "sync2" \in pending \/ Eof("sync2")
  /\ pending' = pending \ {"sync2"}
  /\ Goto("child", "execve")
  /\ CloseRead("child", "sync2")
  /\ UNCHANGED <<args, sel, given, status, target, inside, written>>

ChildExec ==
  /\ pc["child"] = "execve"
  /\ Goto("child", "shell")
  /\ UNCHANGED <<args, sel, given, status, readers, writers, pending, target,
                 inside, written>>

ChildFails ==
  /\ \/ pc["child"] = "read" /\ MayFail("read2")
     \/ pc["child"] = "execve" /\ MayFail("execve")
  /\ Exit("child", "error")
  /\ UNCHANGED <<args, sel, given, pending, target, inside, written>>

ShellEnds ==
  /\ pc["child"] = "shell"
  /\ Exit("child", "ok")
  /\ UNCHANGED <<args, sel, given, pending, target, inside, written>>

Child == ChildCloseW \/ ChildRead \/ ChildExec \/ ChildFails \/ ShellEnds

-----------------------------------------------------------------------------
(* A signal ends a process, the helper the mapper runs with it.  The
   environment does this, no fairness. *)
Kill(p) ==
  /\ Alive(p)
  /\ Exit(p, "killed")
  /\ UNCHANGED <<args, sel, given, pending, target, inside, written>>

(* Every process is gone: the program has stopped. *)
Finished ==
  /\ \A p \in Proc : ~Alive(p)
  /\ UNCHANGED vars

Next ==
  \/ Father \/ Mapper \/ Child
  \/ \E p \in Killable : Kill(p)
  \/ Finished

(* The kernel schedules every runnable process, and the user leaves the shell
   some day.  A failing read() is nothing a blocked process may hope for, so
   there is no fairness for it. *)
MapperRuns ==
  \/ MapperCloseW \/ MapperRead \/ NewUidMap \/ NewGidMap
  \/ pc["mapper"] # "read" /\ MapperFails

ChildRuns == ChildCloseW \/ ChildRead \/ ChildExec \/ ShellEnds

Fairness == WF_vars(Father) /\ WF_vars(MapperRuns) /\ WF_vars(ChildRuns)

Spec == Init /\ [][Next]_vars /\ Fairness
-----------------------------------------------------------------------------
(* Properties                                                               *)

Shell == pc["child"] = "shell"

(* The shell never runs in a user namespace whose maps are not written: the
   point of both pipes and of waitpid(child1) (shns3.c:524-556). *)
ShellMapped == Shell /\ User => written = Map

(* Whatever fails, the only way to a shell without its maps is a mapper that
   failed, whose exit status the father did not look at (shns3.c:537), or a
   father that was killed. *)
UnmappedOnlyIfMapperFailed ==
  Shell /\ User /\ written # Map =>
    status["mapper"] \notin {"none", "ok"} \/ status["father"] = "killed"

(* The father never returns while the new shell runs, which would then share
   the terminal with the caller's (waitpid(child2), shns3.c:559): only a signal
   from elsewhere parts them, neither a failure nor SIGPIPE. *)
FatherOutlivesShell ==
  pc["father"] = "exited" /\ status["father"] # "killed" => ~Alive("child")

(* A mapper that goes on without the pid of the child has no child to map:
   the father failed before it forked one, or was killed. *)
StrayMapperHasNoChild ==
  pc["mapper"] \in {"newuidmap", "newgidmap"} /\ target # "child" =>
    pc["child"] = "none" \/ status["father"] = "killed"

(* The go is written only once the mapper is gone, whoever is killed and
   whatever fails: waitpid(child1) at line 537 comes before write() at 552. *)
GoAfterMapper ==
  [][pending' \ pending = {"sync2"} => ~Alive("mapper")]_vars

(* Nobody waits for ever on a pipe or on a process: an accepted or refused
   launch ends with every process gone. *)
Termination == <>(\A p \in Proc : ~Alive(p))

(* The inductive invariant behind the safety properties, in five parts. *)
BeforeFork1  == {"scan", "pipe1", "fork1"}
BeforeUnshare == BeforeFork1 \cup {"pipe2", "unshare"}
BeforeFork2  == BeforeUnshare \cup {"fork2"}

(* Who exists when: forks are ordered, and the go waits for the mapper. *)
ForkOrder ==
  /\ pc["father"] \in BeforeFork1 => pc["mapper"] = "none"
  /\ pc["father"] \in BeforeFork2 => pc["child"] = "none"
  /\ pc["father"] \notin BeforeFork2 \cup {"exited"} => pc["child"] # "none"
  /\ pc["mapper"] # "none" => User
  /\ pc["father"] \in {"pipe1", "fork1", "close1r", "write1", "wait1", "close1w"} => User
  /\ User /\ pc["father"] \in {"close1w", "write2", "wait2"} => pc["mapper"] = "exited"

(* Who holds which end: the child keeps the ends of sync1 it inherited, which
   is why the father's write() at line 530 finds a reader. *)
EndsHeld ==
  /\ User /\ pc["father"] \in {"fork1", "pipe2", "unshare", "fork2", "close2r", "close1r"}
       => "father" \in readers["sync1"]
  /\ User /\ pc["father"] \in {"fork1", "pipe2", "unshare", "fork2", "close2r",
                               "close1r", "write1", "wait1", "close1w"}
       => "father" \in writers["sync1"]
  /\ pc["father"] \in {"unshare", "fork2", "close2r"} => "father" \in readers["sync2"]
  /\ pc["father"] \notin BeforeFork1 \cup {"pipe2", "exited"} => "father" \in writers["sync2"]
  /\ User /\ Alive("child") => "child" \in readers["sync1"]
  /\ pc["child"] \in {"closew", "read"} => "child" \in readers["sync2"]

(* The child goes on once the father wrote the go or is gone. *)
GoGiven ==
  /\ "sync1" \in pending => pc["child"] # "none"
  /\ "sync2" \in pending => pc["father"] \in {"wait2", "exited"}
  /\ pc["child"] \in {"execve", "shell"} => pc["father"] \in {"wait2", "exited"}

(* What the mapper works on, and what it has done. *)
MapperWork ==
  /\ pc["mapper"] = "exited" <=> status["mapper"] # "none"
  /\ target = "child" => pc["child"] # "none"
  /\ target = "uninit" /\ (pc["mapper"] \in {"newuidmap", "newgidmap"}
                             \/ status["mapper"] = "ok")
       => pc["father"] = "exited"
  /\ target = "child" /\ pc["mapper"] = "newgidmap" => "uid" \in written
  /\ target = "child" /\ status["mapper"] = "ok" => written = Map

(* Who lives in the new namespaces: the mapper never, the child always. *)
WellPlaced ==
  /\ "mapper" \notin inside
  /\ pc["father"] \in BeforeUnshare => "father" \notin inside
  /\ pc["father"] = "fork2" => "father" \in inside
  /\ pc["child"] # "none" => "child" \in inside

LaunchInv ==
  TypeOK /\ ForkOrder /\ EndsHeld /\ GoGiven /\ MapperWork /\ WellPlaced

(* The launch as the abstract launcher sees it. *)
LaunchNeed == IF User THEN Map ELSE {}

LaunchCmd ==
  IF Shell THEN "running"
  ELSE IF status["child"] = "ok" THEN "ended"
  ELSE IF status["child"] # "none" THEN "failed"
  ELSE IF pc["child"] = "none" /\ pc["father"] = "exited" THEN "failed"
  ELSE IF pc["father"] = "scan" THEN "idle"
  ELSE "setup"

L == INSTANCE Launcher WITH
       need    <- LaunchNeed,
       done    <- written,
       cmd     <- LaunchCmd,
       trouble <- \E p \in Proc : status[p] \notin {"none", "ok"}

(* shns3 is a launcher: main() and its two children, with whatever fails and
   whoever is killed, keep the promise of Launcher (shns3.c:250-574). *)
IsLauncher == L!Spec

=============================================================================
