-------------------------------- MODULE Semns -------------------------------
(***************************************************************************)
(* semns.c: a father and its child share a System V semaphore, the child   *)
(* reports over a pipe, and the father may leave the IPC namespace of the  *)
(* semaphore while it holds it.  With SEM_UNDO the kernel takes back what  *)
(* a process did to the semaphore when it leaves or ends.                  *)
(*                                                                         *)
(* Several programs may run at once: they use one key.  A program creates  *)
(* at most one semaphore, which is called by the program.                  *)
(***************************************************************************)
EXTENDS Integers

CONSTANTS
  Prog,      \* the programs running at the same time
  None,      \* no semaphore
  Faults,    \* the calls that may fail for want of resources
  Killable   \* the processes that may get a SIGKILL

Father(p) == <<p, "father">>
Child(p)  == <<p, "child">>
Proc      == Prog \X {"father", "child"}

ASSUME ConstantsAssumption ==
  /\ None \notin Prog
  /\ Faults \subseteq {"pipe", "semget", "fork", "unshare"}
  /\ Killable \subseteq Proc

VARIABLES
  undo,    \* the parameter of each program: SEM_UNDO or not
  answer,  \* what the user answers to the father, "eof" for nothing
  pc,      \* where each process is
  exit,    \* how each process ended
  id,      \* the semaphore whose identifier a process has
  found,   \* the one semV_destroy() has found
  away,    \* the fathers that are in an IPC namespace of their own
  inside,  \* the processes that did P() and neither V() nor lost it to the kernel
  pipe,    \* the messages in each pipe
  key,     \* the semaphore SEM_KEY leads to
  made,    \* the semaphores: not created, created, with a value, or removed
  val,     \* their values
  adj      \* what the kernel will add to a process's semaphore when it ends

input == <<undo, answer>>
sems  == <<key, made, val>>
vars  == <<input, pc, exit, id, found, away, inside, pipe, sems, adj>>

FatherPc == {"pipe", "find", "remove", "create", "setval", "lock", "fork", "close",
             "read1", "prompt", "eof", "read2", "relock", "wait", "refind", "reremove", "return"}
ChildPc  == {"unborn", "get", "write1", "lock", "write2", "unlock", "done"}

(* The variables of main() (semns.c:145-151) and of the kernel keep to their
   types: a semaphore is never above 1, no adjustment above 1. *)
TypeOK ==
  /\ pc \in [Proc -> FatherPc \cup ChildPc \cup {"exited"}]
  /\ \A p \in Prog : /\ pc[Father(p)] \in FatherPc \cup {"exited"}
                     /\ pc[Child(p)] \in ChildPc \cup {"exited"}
  /\ exit \in [Proc -> {"none", "ok", "error", "killed"}]
  /\ id \in [Proc -> Prog \cup {None}]
  /\ found \in [Prog -> Prog \cup {None}]
  /\ away \subseteq Prog /\ inside \subseteq Proc
  /\ pipe \in [Prog -> 0..2]
  /\ key \in Prog \cup {None}
  /\ made \in [Prog -> {"no", "new", "there", "removed"}]
  /\ val \in [Prog -> 0..1]
  /\ adj \in [Proc -> 0..1]

Init ==
  /\ undo \in [Prog -> BOOLEAN]
  /\ answer \in [Prog -> {"yes", "no", "eof"}]
  /\ pc = [q \in Proc |-> IF q[2] = "father" THEN "pipe" ELSE "unborn"]
  /\ exit = [q \in Proc |-> "none"]
  /\ id = [q \in Proc |-> None]
  /\ found = [p \in Prog |-> None]
  /\ away = {} /\ inside = {}
  /\ pipe = [p \in Prog |-> 0]
  /\ key = None
  /\ made = [s \in Prog |-> "no"]
  /\ val = [s \in Prog |-> 0]
  /\ adj = [q \in Proc |-> 0]

-----------------------------------------------------------------------------
(* The kernel                                                               *)

Alive(q) == pc[q] \notin {"unborn", "exited"}

At(q, l) == pc[q] = l

Goto(q, l) == pc' = [pc EXCEPT ![q] = l] /\ UNCHANGED exit

(* exit_sem(): the adjustment of q is added, and q has none any more. *)
Undo(q) ==
  /\ adj' = [adj EXCEPT ![q] = 0]
  /\ val' = IF id[q] = None THEN val ELSE [val EXCEPT ![id[q]] = @ + adj[q]]
  /\ inside' = IF adj[q] # 0 THEN inside \ {q} ELSE inside

Exit(q, s) ==
  /\ pc' = [pc EXCEPT ![q] = "exited"]
  /\ exit' = [exit EXCEPT ![q] = s]
  /\ Undo(q)
  /\ UNCHANGED <<input, id, found, away, pipe, key, made>>

(* An identifier is good in the namespace it comes from, until the semaphore is
   removed. *)
Reaches(q) == made[id[q]] \in {"new", "there"} /\ ~(q[2] = "father" /\ q[1] \in away)

(* The ends of the pipe: the father closes the one after fork() and the other
   after the second read(), the child its read end before it does anything. *)
Early == {"pipe", "find", "remove", "create", "setval", "lock", "fork", "close"}
Late  == {"relock", "wait", "refind", "reremove", "return", "exited"}

HasWriter(p) == Alive(Child(p)) \/ pc[Father(p)] \in Early
HasReader(p) == pc[Father(p)] \notin Late

(* Mutant: the adjustment is lost when a process leaves its namespace. *)
Unshare_NoUndo(p) ==
  /\ away' = away \cup {p}
  /\ UNCHANGED <<val, adj, inside>>

(* unshare(CLONE_NEWIPC) detaches the process from its adjustments: the kernel
   makes them good at once. *)
Unshare(p) ==
  /\ away' = away \cup {p}
  /\ Undo(Father(p))

-----------------------------------------------------------------------------
(* Operations on the semaphore                                              *)

P(q, l, next) ==
  /\ At(q, l)
  /\ \/ /\ Reaches(q) /\ val[id[q]] > 0
        /\ val' = [val EXCEPT ![id[q]] = @ - 1]
        /\ adj' = [adj EXCEPT ![q] = IF undo[q[1]] THEN @ + 1 ELSE @]
        /\ inside' = inside \cup {q}
        /\ Goto(q, next)
        /\ UNCHANGED <<input, id, found, away, pipe, key, made>>
     \/ ~Reaches(q) /\ Exit(q, "error")

V(q, l, next) ==
  /\ At(q, l)
  /\ \/ /\ Reaches(q)
        /\ val' = [val EXCEPT ![id[q]] = @ + 1]
        /\ adj' = [adj EXCEPT ![q] = IF undo[q[1]] THEN @ - 1 ELSE @]
        /\ inside' = inside \ {q}
        /\ Goto(q, next)
        /\ UNCHANGED <<input, id, found, away, pipe, key, made>>
     \/ ~Reaches(q) /\ Exit(q, "error")

(* semV_destroy(): whatever semaphore the key leads to, then the identifier
   found, if it is still good.  Nobody looks at the result. *)
Find(p, l, next, missing) ==
  /\ At(Father(p), l)
  /\ found' = [found EXCEPT ![p] = key]
  /\ Goto(Father(p), IF key = None THEN missing ELSE next)
  /\ UNCHANGED <<input, id, away, inside, pipe, sems, adj>>

(* Mutant: nothing is removed. *)
Remove_No(p, l, next) ==
  /\ At(Father(p), l)
  /\ Goto(Father(p), next)
  /\ UNCHANGED <<input, id, found, away, inside, pipe, sems, adj>>

Remove(p, l, next) ==
  /\ At(Father(p), l)
  /\ made' = [made EXCEPT ![found[p]] = "removed"]
  /\ key' = IF key = found[p] THEN None ELSE key
  /\ Goto(Father(p), next)
  /\ UNCHANGED <<input, id, found, away, inside, pipe, val, adj>>

-----------------------------------------------------------------------------
(* The father                                                               *)

Pipe(p) ==
  /\ At(Father(p), "pipe")
  /\ Goto(Father(p), "find")
  /\ UNCHANGED <<input, id, found, away, inside, pipe, sems, adj>>

(* Mutant: without IPC_EXCL. *)
Create_Shared(p) ==
  /\ At(Father(p), "create")
  /\ LET s == IF key = None THEN p ELSE key IN
       /\ key' = s
       /\ made' = [made EXCEPT ![s] = IF @ = "no" THEN "new" ELSE @]
       /\ id' = [id EXCEPT ![Father(p)] = s]
  /\ Goto(Father(p), "setval")
  /\ UNCHANGED <<input, found, away, inside, pipe, val, adj>>

(* semV_init() creates the semaphore with the value 0, *)
Create(p) ==
  /\ At(Father(p), "create")
  /\ \/ /\ key = None
        /\ key' = p
        /\ made' = [made EXCEPT ![p] = "new"]
        /\ id' = [id EXCEPT ![Father(p)] = p]
        /\ Goto(Father(p), "setval")
        /\ UNCHANGED <<input, found, away, inside, pipe, val, adj>>
     \/ key # None /\ Exit(Father(p), "error")

(* and gives it the value 1 if it is still there. *)
SetVal(p) ==
  /\ At(Father(p), "setval")
  /\ \/ /\ Reaches(Father(p))
        /\ val' = [val EXCEPT ![id[Father(p)]] = 1]
        /\ made' = [made EXCEPT ![id[Father(p)]] = "there"]
        /\ Goto(Father(p), "lock")
        /\ UNCHANGED <<input, id, found, away, inside, pipe, key, adj>>
     \/ ~Reaches(Father(p)) /\ Exit(Father(p), "error")

Fork(p) ==
  /\ At(Father(p), "fork")
  /\ pc' = [pc EXCEPT ![Father(p)] = "close", ![Child(p)] = "get"]
  /\ UNCHANGED <<input, exit, id, found, away, inside, pipe, sems, adj>>

(* pid = -1 is not looked at: the father goes on without a child. *)
ForkFails(p) ==
  /\ At(Father(p), "fork") /\ "fork" \in Faults
  /\ Goto(Father(p), "close")
  /\ UNCHANGED <<input, id, found, away, inside, pipe, sems, adj>>

Close(p) ==
  /\ At(Father(p), "close")
  /\ Goto(Father(p), "read1")
  /\ UNCHANGED <<input, id, found, away, inside, pipe, sems, adj>>

(* A message, or the end of file when nobody can write any more *)
Read(p, l, next) ==
  /\ At(Father(p), l)
  /\ \/ /\ pipe[p] > 0
        /\ pipe' = [pipe EXCEPT ![p] = @ - 1]
        /\ Goto(Father(p), next)
        /\ UNCHANGED <<input, id, found, away, inside, sems, adj>>
     \/ pipe[p] = 0 /\ ~HasWriter(p) /\ Exit(Father(p), "error")

(* getanswer(): without an answer it reads for ever. *)
NoAnswer(p) ==
  /\ At(Father(p), "prompt") /\ answer[p] = "eof"
  /\ Goto(Father(p), "eof")
  /\ UNCHANGED <<input, id, found, away, inside, pipe, sems, adj>>

Leave(p) ==
  /\ At(Father(p), "prompt") /\ answer[p] = "yes"
  /\ Unshare(p)
  /\ Goto(Father(p), "read2")
  /\ UNCHANGED <<input, id, found, pipe, key, made>>

(* Mutant: the father keeps the semaphore. *)
Stay_Keeps(p) ==
  /\ At(Father(p), "prompt") /\ answer[p] = "no"
  /\ Goto(Father(p), "read2")
  /\ UNCHANGED <<input, id, found, away, inside, pipe, sems, adj>>

Stay(p) == answer[p] = "no" /\ V(Father(p), "prompt", "read2")

Wait(p) ==
  /\ At(Father(p), "wait")
  /\ pc[Child(p)] = "exited"
  /\ Goto(Father(p), "refind")
  /\ UNCHANGED <<input, id, found, away, inside, pipe, sems, adj>>

Return0(p) == At(Father(p), "return") /\ Exit(Father(p), "ok")

FatherRuns(p) ==
  \/ Pipe(p) \/ Find(p, "find", "remove", "create") \/ Remove(p, "remove", "create")
  \/ Create(p) \/ SetVal(p) \/ P(Father(p), "lock", "fork") \/ Fork(p) \/ Close(p)
  \/ Read(p, "read1", "prompt") \/ NoAnswer(p) \/ Leave(p) \/ Stay(p)
  \/ Read(p, "read2", "relock") \/ P(Father(p), "relock", "wait") \/ Wait(p)
  \/ Find(p, "refind", "reremove", "return") \/ Remove(p, "reremove", "return")
  \/ Return0(p)

FatherFails(p) ==
  /\ \/ At(Father(p), "pipe") /\ "pipe" \in Faults
     \/ At(Father(p), "create") /\ "semget" \in Faults
     \/ At(Father(p), "prompt") /\ answer[p] = "yes" /\ "unshare" \in Faults
  /\ Exit(Father(p), "error")

-----------------------------------------------------------------------------
(* The child                                                                *)

(* semV_get(): any semaphore under the key *)
Get(p) ==
  /\ At(Child(p), "get")
  /\ \/ /\ key # None
        /\ id' = [id EXCEPT ![Child(p)] = key]
        /\ Goto(Child(p), "write1")
        /\ UNCHANGED <<input, found, away, inside, pipe, sems, adj>>
     \/ key = None /\ Exit(Child(p), "error")

(* write(): SIGPIPE when nobody can read *)
Write(p, l, next) ==
  /\ At(Child(p), l)
  /\ \/ /\ HasReader(p)
        /\ pipe' = [pipe EXCEPT ![p] = @ + 1]
        /\ Goto(Child(p), next)
        /\ UNCHANGED <<input, id, found, away, inside, sems, adj>>
     \/ ~HasReader(p) /\ Exit(Child(p), "killed")

ChildExits(p) == At(Child(p), "done") /\ Exit(Child(p), "ok")

(* Mutant: the second message is written before the lock is taken. *)
ChildRuns_Early(p) ==
  \/ Get(p) \/ Write(p, "write1", "write2") \/ Write(p, "write2", "lock")
  \/ P(Child(p), "lock", "unlock") \/ V(Child(p), "unlock", "done") \/ ChildExits(p)

ChildRuns(p) ==
  \/ Get(p) \/ Write(p, "write1", "lock") \/ P(Child(p), "lock", "write2")
  \/ Write(p, "write2", "unlock") \/ V(Child(p), "unlock", "done") \/ ChildExits(p)

Kill(q) == Alive(q) /\ Exit(q, "killed")

Next ==
  \/ \E p \in Prog : FatherRuns(p) \/ ForkFails(p) \/ FatherFails(p) \/ ChildRuns(p)
  \/ \E q \in Killable : Kill(q)

Fairness == \A p \in Prog : WF_vars(FatherRuns(p)) /\ WF_vars(ChildRuns(p))

Spec == Init /\ [][Next]_vars /\ Fairness

-----------------------------------------------------------------------------
(* Properties                                                               *)

Owners(s) == {q \in inside : id[q] = s}

(* P() and V() (semns.c:95-136): a semaphore that has its first value is free,
   or taken by exactly one process.  SEM_UNDO counts a process neither twice nor
   not at all, whoever ends or leaves its namespace when. *)
Conserved ==
  \A s \in Prog :
    /\ made[s] = "there" => (val[s] = 1 <=> Owners(s) = {})
    /\ made[s] \in {"no", "new"} => val[s] = 0
    /\ val[s] = 1 => Owners(s) = {}
    /\ \A q, r \in Owners(s) : q = r

(* The inductive invariant behind it, in parts. *)

(* Who has done P() and not V(), by the place in the program. *)
BeforeLock == {"pipe", "find", "remove", "create", "setval", "lock"}

Holders ==
  \A p \in Prog :
    /\ pc[Father(p)] \in BeforeLock \cup {"fork"} => pc[Child(p)] = "unborn"
    /\ pc[Father(p)] \in BeforeLock => Father(p) \notin inside
    /\ pc[Father(p)] \in {"fork", "close", "read1", "prompt"} => Father(p) \in inside
    /\ pc[Father(p)] \in {"read2", "relock"} /\ Father(p) \in inside => p \in away
    /\ pc[Child(p)] \in {"unborn", "get", "write1", "lock"} => Child(p) \notin inside
    /\ pc[Child(p)] \in {"write2", "unlock"} => Child(p) \in inside

(* Which semaphores exist, and who knows them. *)
Objects ==
  /\ \A s \in Prog : made[s] \in {"new", "there"} <=> key = s
  /\ \A q \in Proc : id[q] # None => made[id[q]] # "no"
  /\ \A q \in inside : id[q] # None /\ made[id[q]] # "new"
  /\ \A p \in Prog :
       /\ id[Father(p)] \in {p, None} /\ (found[p] # None => made[found[p]] # "no")
       /\ pc[Father(p)] \in {"pipe", "find", "remove", "create"} => made[p] = "no"
       /\ pc[Father(p)] = "setval" => id[Father(p)] = p /\ made[p] \in {"new", "removed"}
       /\ pc[Father(p)] \notin BeforeLock \cup {"exited"} \/ pc[Father(p)] = "lock"
            => id[Father(p)] = p /\ made[p] # "new"
       /\ pc[Child(p)] \notin {"unborn", "get", "exited"} => id[Child(p)] # None
       /\ pc[Father(p)] \in {"remove", "reremove"} => found[p] # None

(* What the kernel would give back is what the process has taken. *)
Adjusted == \A q \in Proc : adj[q] = IF q \in inside /\ undo[q[1]] THEN 1 ELSE 0

(* What is in the pipe is what the child has written and the father not read. *)
Written(p) == IF pc[Child(p)] \in {"unborn", "get", "write1"} THEN 0
              ELSE IF pc[Child(p)] \in {"lock", "write2"} THEN 1 ELSE 2

Taken(p) == IF pc[Father(p)] \in Late THEN 2
            ELSE IF pc[Father(p)] \in {"prompt", "eof", "read2"} THEN 1 ELSE 0

Messages ==
  \A p \in Prog : pc[Child(p)] # "exited" /\ pc[Father(p)] # "exited" =>
    pipe[p] = Written(p) - Taken(p)

(* The second semV_destroy() finds the semaphore, or it is removed already. *)
Cleaned ==
  \A p \in Prog :
    /\ pc[Father(p)] \in {"refind", "reremove", "return"} => pc[Child(p)] = "exited"
    /\ pc[Father(p)] = "reremove" => found[p] = p \/ made[p] = "removed"
    /\ pc[Father(p)] = "return" => made[p] = "removed"

SemInv ==
  TypeOK /\ Holders /\ Objects /\ Adjusted /\ Conserved /\ Messages /\ Cleaned

(* The child's second message is what tells the father that the child has had
   the semaphore (semns.c:216-222): while both hold the identifier of one
   semaphore, a child that has not got it has not written twice. *)
AnswerAfterLock ==
  \A p \in Prog :
    pc[Father(p)] \in {"relock", "wait"} => pc[Child(p)] \in {"unlock", "done", "exited"}

(* A program that ends with 0 has removed its semaphore, and its child has
   ended (semns.c:290-296). *)
OkCleansUp ==
  \A p \in Prog : exit[Father(p)] = "ok" =>
    made[p] = "removed" /\ pc[Child(p)] = "exited"

Ended(p) == pc[Father(p)] = "exited" /\ ~Alive(Child(p))

(* A father that ended between semget() and SETVAL (semns.c:59-67) has left a
   semaphore that never gets a value, and that other programs find. *)
Stillborn == \E s \in Prog : made[s] = "new" /\ pc[Father(s)] = "exited"

(* What SEM_UNDO is for: if every program uses it and every father gets its
   answer, all processes end, whoever is killed, refused or away, unless one
   found a stillborn semaphore.  (Without SEM_UNDO a father that unshares waits
   for a child that waits for the semaphore: semns.c:257-275.) *)
UndoEnds ==
  (\A p \in Prog : undo[p] /\ answer[p] # "eof") =>
    <>(Stillborn \/ \A p \in Prog : Ended(p))

(* Without SEM_UNDO it takes a father that unshares, an answer that never comes
   or a process that ends too early to keep anybody waiting. *)
StaysEnds ==
  (\A p \in Prog : answer[p] = "no")
    => <>((\A p \in Prog : Ended(p)) \/ (\E q \in Proc : exit[q] \in {"error", "killed"}))

=============================================================================
