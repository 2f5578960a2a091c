------------------------------ MODULE GetNsIds ------------------------------
(***************************************************************************)
(* getnsids.c: translate a pid and a uid (a gid goes the way of the uid)   *)
(* into the namespaces of a target process.  The father enters the         *)
(* target's namespaces, forks a child into them and sends it the ids as    *)
(* credentials over a UNIX socket: the kernel translates them on the way,  *)
(* and the child sends back what it received.                              *)
(*                                                                         *)
(* Several programs may run at once with one socket name: the name is made *)
(* of getpid(), which callers in different pid namespaces may share.       *)
(***************************************************************************)
EXTENDS Integers, Sequences

CONSTANTS
  Run,           \* the programs running at the same time on one socket name
  Num,           \* ids, as numbers
  TargetView,    \* TargetView[k][n]: the kernel's id for n in the target's namespace
  Overflow,      \* the number shown for an id a namespace does not have
  NoOne,         \* no program, no message, no id
  Faults,        \* the calls that may fail
  Killable,      \* which of "father" and "child" may get a SIGKILL
  TargetMayDie   \* whether a target may end while it is being looked at

IdKind == {"pid", "uid"}
SpaceOf(k) == IF k = "pid" THEN "pid" ELSE "user"

FaultSites == {"socket", "listen", "stat", "open", "setns", "fork", "connect", "sendmsg",
               "read", "select", "accept", "setsockopt", "recvmsg", "write"}

ASSUME ConstantsAssumption ==
  /\ TargetView \in [IdKind -> UNION {[S -> Num] : S \in SUBSET Num}]
  /\ Overflow \in Num
  /\ NoOne \notin Run \cup Num /\ NoOne \notin [IdKind -> Num]
  /\ Faults \subseteq FaultSites
  /\ Killable \subseteq {"father", "child"}
  /\ TargetMayDie \in BOOLEAN

VARIABLES
  mask,       \* the kinds of ids asked for (id_mask)
  arg,        \* their values on the command line
  differs,    \* the target's namespaces that are not the caller's
  target,     \* whether the target process exists
  father,     \* where the program is
  child,      \* where its child is
  wait,       \* whether the father has a child to wait for (child >= 0)
  entered,    \* the namespaces entered with setns()
  ids,        \* the ids to print (tpid, tuid)
  rc,         \* the return code of getnsids()
  exit,       \* the exit status of main()
  cstatus,    \* the exit status of the child
  bound,      \* whose listening socket the socket name leads to
  listeners,  \* the processes with the listening socket open
  queue,      \* the connections a listening socket has not accepted yet
  conn,       \* the connection each father opened
  serving     \* whose connection each child accepted

setup == <<mask, arg, differs>>
sockets == <<bound, listeners, queue, conn, serving>>
vars == <<setup, target, father, child, wait, entered, ids, rc, exit, cstatus, sockets>>

FatherPc == {"options", "unlink", "server", "cmppid", "openpid", "setpid", "cmpuser",
             "openuser", "setuser", "fork", "close", "connect", "send", "read",
             "wait", "err", "waiterr", "report", "exited"}
ChildPc == {"none", "select", "accept", "passcred", "recvmsg", "write", "done", "exited"}

Message == [IdKind -> Num]

(* A connection: its two ends, the credentials sent and the answer. *)
Connection == [server : Run \cup {NoOne}, client : {"none", "open", "closed"},
               peer : {"none", "queued", "open", "closed", "reset"},
               creds : Message \cup {NoOne}, answer : Message \cup {NoOne}]
NoConnection == [server |-> NoOne, client |-> "none", peer |-> "none",
                 creds |-> NoOne, answer |-> NoOne]

(* The variables of getnsids() and child_getids() keep to their types; rc
   is -1, 0 or 1 (getnsids.c:436-679). *)
TypeOK ==
  /\ mask \in [Run -> SUBSET IdKind]
  /\ arg \in [Run -> Message]
  /\ differs \in [Run -> SUBSET {"pid", "user"}]
  /\ target \in [Run -> BOOLEAN]
  /\ father \in [Run -> FatherPc]
  /\ child \in [Run -> ChildPc]
  /\ wait \in [Run -> BOOLEAN]
  /\ entered \in [Run -> SUBSET {"pid", "user"}]
  /\ ids \in [Run -> Message]
  /\ rc \in [Run -> {-1, 0, 1}]
  /\ exit \in [Run -> {"none", "ok", "error", "killed"}]
  /\ cstatus \in [Run -> {"none", "ok", "error", "killed"}]
  /\ bound \in Run \cup {NoOne}
  /\ listeners \in [Run -> SUBSET {"father", "child"}]
  /\ queue \in [Run -> Seq(Run)]
  /\ conn \in [Run -> Connection]
  /\ serving \in [Run -> Run \cup {NoOne}]

Init ==
  /\ mask \in [Run -> SUBSET IdKind]
  /\ arg \in [Run -> Message]
  /\ differs \in [Run -> SUBSET {"pid", "user"}]
  /\ target = [r \in Run |-> TRUE]
  /\ father = [r \in Run |-> "options"]
  /\ child = [r \in Run |-> "none"]
  /\ wait = [r \in Run |-> FALSE]
  /\ entered = [r \in Run |-> {}]
  /\ ids = arg
  /\ rc = [r \in Run |-> 0]
  /\ exit = [r \in Run |-> "none"]
  /\ cstatus = [r \in Run |-> "none"]
  /\ bound = NoOne
  /\ listeners = [r \in Run |-> {}]
  /\ queue = [r \in Run |-> <<>>]
  /\ conn = [r \in Run |-> NoConnection]
  /\ serving = [r \in Run |-> NoOne]

MayFail(site) == site \in Faults

FatherTo(r, l) == father' = [father EXCEPT ![r] = l]
ChildTo(r, l)  == child' = [child EXCEPT ![r] = l]

-----------------------------------------------------------------------------
(* The kernel: ids and sockets                                              *)

(* The kernel's id for number n of kind k, as the father of r means it.  The
   father stays in its pid namespace (setns() moves only its children) but is
   itself in the target's user namespace once it entered it. *)
Denotes(r, k, n) ==
  IF k = "uid" /\ "user" \in entered[r]
  THEN IF n \in DOMAIN TargetView[k] THEN TargetView[k][n] ELSE NoOne
  ELSE n

NumberInTarget(k, id) ==
  IF \E n \in DOMAIN TargetView[k] : TargetView[k][n] = id
  THEN CHOOSE n \in DOMAIN TargetView[k] : TargetView[k][n] = id
  ELSE Overflow

(* The number a child of r sees for the kernel's id. *)
Shows(r, k, id) == IF SpaceOf(k) \in entered[r] THEN NumberInTarget(k, id) ELSE id

(* A process lets go of the listening socket of r and of its connection.  The
   father of a connection nobody accepted, or whose data was not read, gets an
   error (ECONNRESET); otherwise it sees end of file. *)
Release(r, p) ==
  LET left    == listeners[r] \ {p}
      waiting == IF left # {} THEN {}
                 ELSE {c \in Run : conn[c].server = r /\ conn[c].peer = "queued"}
      served  == IF p = "child" THEN {serving[r]} ELSE {}
      unread  == child[r] \in {"passcred", "recvmsg"}
      peer(c) == IF c \in waiting THEN "reset"
                 ELSE IF c \notin served THEN conn[c].peer
                 ELSE IF unread /\ conn[c].creds # NoOne THEN "reset" ELSE "closed"
      client(c) == IF p = "father" /\ c = r /\ conn[c].client = "open"
                   THEN "closed" ELSE conn[c].client IN
  /\ listeners' = [listeners EXCEPT ![r] = left]
  /\ queue' = IF left = {} THEN [queue EXCEPT ![r] = <<>>] ELSE queue
  /\ conn' = [c \in Run |-> [conn[c] EXCEPT !.peer = peer(c), !.client = client(c)]]

-----------------------------------------------------------------------------
(* The father: main() and getnsids()                                        *)

(* The command line: a bad option, no target or no id ends the program. *)
Options(r) ==
  /\ father[r] = "options"
  /\ \/ /\ FatherTo(r, "exited")
        /\ exit' = [exit EXCEPT ![r] = "error"]
     \/ /\ mask[r] # {}
        /\ FatherTo(r, "unlink")
        /\ UNCHANGED exit
  /\ UNCHANGED <<setup, target, child, wait, entered, ids, rc, cstatus, sockets>>

Unlink(r) ==
  /\ father[r] = "unlink"
  /\ FatherTo(r, "server")
  /\ bound' = NoOne
  /\ UNCHANGED <<setup, target, child, wait, entered, ids, rc, exit, cstatus,
                 listeners, queue, conn, serving>>

(* open_socket(sk_path, 1): when listen() fails, bind() has made the name. *)
OpenServer(r) ==
  /\ father[r] = "server"
  /\ \/ /\ bound = NoOne
        /\ bound' = r
        /\ listeners' = [listeners EXCEPT ![r] = {"father"}]
        /\ FatherTo(r, "cmppid")
        /\ UNCHANGED rc
     \/ /\ \/ (MayFail("socket") \/ bound # NoOne) /\ UNCHANGED bound
           \/ MayFail("listen") /\ bound = NoOne /\ bound' = r
        /\ FatherTo(r, "report")
        /\ rc' = [rc EXCEPT ![r] = -1]
        /\ UNCHANGED listeners
  /\ UNCHANGED <<setup, target, child, wait, entered, ids, exit, cstatus, queue, conn, serving>>

(* cmp_ns(): -1 when a stat() fails, 1 for one namespace, 0 for two. *)
CmpNs(r, space) ==
  (IF target[r] THEN {IF space \in differs[r] THEN 0 ELSE 1} ELSE {-1})
    \cup (IF MayFail("stat") THEN {-1} ELSE {})

(* Mutant: the "!" before cmp_ns() is lost. *)
Compare_Inverted(r, l, space, enter, skip) ==
  /\ father[r] = l
  /\ \E k \in mask[r] : SpaceOf(k) = space
  /\ \E c \in CmpNs(r, space) : FatherTo(r, IF c # 0 THEN enter ELSE skip)
  /\ UNCHANGED <<setup, target, child, wait, entered, ids, rc, exit, cstatus, sockets>>

(* "!cmp_ns()": only a comparison that says 0 leads into the namespace. *)
Compare(r, l, space, enter, skip) ==
  /\ father[r] = l
  /\ \E k \in mask[r] : SpaceOf(k) = space
  /\ \E c \in CmpNs(r, space) : FatherTo(r, IF c = 0 THEN enter ELSE skip)
  /\ UNCHANGED <<setup, target, child, wait, entered, ids, rc, exit, cstatus, sockets>>

NotAsked(r, l, space, skip) ==
  /\ father[r] = l
  /\ ~ \E k \in mask[r] : SpaceOf(k) = space
  /\ FatherTo(r, skip)
  /\ UNCHANGED <<setup, target, child, wait, entered, ids, rc, exit, cstatus, sockets>>

(* open() of /proc/<target>/ns/<space> *)
OpenNs(r, l, next) ==
  /\ father[r] = l
  /\ \/ target[r] /\ FatherTo(r, next) /\ UNCHANGED rc
     \/ /\ ~target[r] \/ MayFail("open")
        /\ FatherTo(r, "err")
        /\ rc' = [rc EXCEPT ![r] = 1]
  /\ UNCHANGED <<setup, target, child, wait, entered, ids, exit, cstatus, sockets>>

SetNs(r, l, space, next) ==
  /\ father[r] = l
  /\ \/ /\ entered' = [entered EXCEPT ![r] = @ \cup {space}]
        /\ FatherTo(r, next)
        /\ UNCHANGED rc
     \/ /\ MayFail("setns")
        /\ FatherTo(r, "err")
        /\ rc' = [rc EXCEPT ![r] = 1]
        /\ UNCHANGED entered
  /\ UNCHANGED <<setup, target, child, wait, ids, exit, cstatus, sockets>>

EnterNamespaces(r) ==
  \/ Compare(r, "cmppid", "pid", "openpid", "cmpuser")
  \/ NotAsked(r, "cmppid", "pid", "cmpuser")
  \/ OpenNs(r, "openpid", "setpid")
  \/ SetNs(r, "setpid", "pid", "cmpuser")
  \/ Compare(r, "cmpuser", "user", "openuser", "fork")
  \/ NotAsked(r, "cmpuser", "user", "fork")
  \/ OpenNs(r, "openuser", "setuser")
  \/ SetNs(r, "setuser", "user", "fork")

Fork(r) ==
  /\ father[r] = "fork"
  /\ \/ /\ FatherTo(r, "close")
        /\ ChildTo(r, "select")
        /\ wait' = [wait EXCEPT ![r] = TRUE]
        /\ listeners' = [listeners EXCEPT ![r] = @ \cup {"child"}]
        /\ UNCHANGED rc
     \/ /\ MayFail("fork")
        /\ FatherTo(r, "err")
        /\ rc' = [rc EXCEPT ![r] = -1]
        /\ UNCHANGED <<child, wait, listeners>>
  /\ UNCHANGED <<setup, target, entered, ids, exit, cstatus, bound, queue, conn, serving>>

CloseServer(r) ==
  /\ father[r] = "close"
  /\ FatherTo(r, "connect")
  /\ Release(r, "father")
  /\ UNCHANGED <<setup, target, child, wait, entered, ids, rc, exit, cstatus, bound, serving>>

(* A failure after fork(): rc = -1 and goto err. *)
Fail(r) ==
  /\ FatherTo(r, "err")
  /\ rc' = [rc EXCEPT ![r] = -1]

(* open_socket(sk_path, 0): connect() to whoever listens on the name now. *)
Connect(r) ==
  /\ father[r] = "connect"
  /\ \/ /\ bound # NoOne /\ listeners[bound] # {}
        /\ queue' = [queue EXCEPT ![bound] = Append(@, r)]
        /\ conn' = [conn EXCEPT ![r] = [NoConnection EXCEPT
                      !.server = bound, !.client = "open", !.peer = "queued"]]
        /\ FatherTo(r, "send")
        /\ UNCHANGED rc
     \/ /\ \/ bound = NoOne
           \/ bound # NoOne /\ listeners[bound] = {}
           \/ MayFail("connect")
        /\ Fail(r)
        /\ UNCHANGED <<queue, conn>>
  /\ UNCHANGED <<setup, target, child, wait, entered, ids, exit, cstatus,
                 bound, listeners, serving>>

(* send_ids(): the kernel refuses numbers that denote nothing. *)
Send(r) ==
  /\ father[r] = "send"
  /\ LET creds == [k \in IdKind |-> Denotes(r, k, arg[r][k])] IN
     \/ /\ \A k \in mask[r] : creds[k] # NoOne
        /\ conn[r].peer \in {"queued", "open"}
        /\ conn' = [conn EXCEPT ![r].creds =
                      [k \in IdKind |-> IF k \in mask[r] THEN creds[k] ELSE Overflow]]
        /\ FatherTo(r, "read")
        /\ UNCHANGED rc
     \/ /\ \/ \E k \in mask[r] : creds[k] = NoOne
           \/ conn[r].peer \in {"closed", "reset"}
           \/ MayFail("sendmsg")
        /\ Fail(r)
        /\ UNCHANGED conn
  /\ UNCHANGED <<setup, target, child, wait, entered, ids, exit, cstatus,
                 bound, listeners, queue, serving>>

(* read() of the answer.  On end of file (rc = 0) only errno is set, and the
   ids stay what they were. *)
Read(r) ==
  /\ father[r] = "read"
  /\ \/ /\ conn[r].answer # NoOne
        /\ ids' = [ids EXCEPT ![r] = conn[r].answer]
        /\ FatherTo(r, "wait")
        /\ conn' = [conn EXCEPT ![r].client = "closed"]
        /\ UNCHANGED rc
     \/ /\ conn[r].answer = NoOne /\ conn[r].peer = "closed"
        /\ FatherTo(r, "wait")
        /\ conn' = [conn EXCEPT ![r].client = "closed"]
        /\ UNCHANGED <<ids, rc>>
     \/ /\ conn[r].peer = "reset"
        /\ Fail(r)
        /\ UNCHANGED <<ids, conn>>
  /\ UNCHANGED <<setup, target, child, wait, entered, exit, cstatus,
                 bound, listeners, queue, serving>>

ReadFails(r) ==
  /\ father[r] = "read"
  /\ MayFail("read")
  /\ Fail(r)
  /\ UNCHANGED <<setup, target, child, wait, entered, ids, exit, cstatus, sockets>>

(* Mutant: the status of waitpid() is returned as it is. *)
Wait_RawStatus(r) ==
  /\ father[r] = "wait"
  /\ child[r] = "exited"
  /\ wait' = [wait EXCEPT ![r] = FALSE]
  /\ rc' = [rc EXCEPT ![r] = IF cstatus[r] = "ok" THEN 0 ELSE 256]
  /\ FatherTo(r, "err")
  /\ UNCHANGED <<setup, target, child, entered, ids, exit, cstatus, sockets>>

(* Mutant: the status of the child is not looked at. *)
Wait_AnyStatus(r) ==
  /\ father[r] = "wait"
  /\ child[r] = "exited"
  /\ wait' = [wait EXCEPT ![r] = FALSE]
  /\ rc' = [rc EXCEPT ![r] = 0]
  /\ FatherTo(r, "err")
  /\ UNCHANGED <<setup, target, child, entered, ids, exit, cstatus, sockets>>

(* waitpid(child): a child that did not exit with 0 is an error. *)
Wait(r) ==
  /\ father[r] = "wait"
  /\ child[r] = "exited"
  /\ wait' = [wait EXCEPT ![r] = FALSE]
  /\ rc' = [rc EXCEPT ![r] = IF cstatus[r] = "ok" THEN 0 ELSE -1]
  /\ FatherTo(r, "err")
  /\ UNCHANGED <<setup, target, child, entered, ids, exit, cstatus, sockets>>

(* Mutant: the name is not removed at the end. *)
Err_NoUnlink(r) ==
  /\ father[r] = "err"
  /\ Release(r, "father")
  /\ FatherTo(r, IF wait[r] THEN "waiterr" ELSE "report")
  /\ UNCHANGED <<setup, target, child, wait, entered, ids, rc, exit, cstatus, bound, serving>>

(* The label err: unlink the name, whoever's it is now, and close. *)
Err(r) ==
  /\ father[r] = "err"
  /\ bound' = NoOne
  /\ Release(r, "father")
  /\ FatherTo(r, IF wait[r] THEN "waiterr" ELSE "report")
  /\ UNCHANGED <<setup, target, child, wait, entered, ids, rc, exit, cstatus, serving>>

WaitErr(r) ==
  /\ father[r] = "waiterr"
  /\ child[r] = "exited"
  /\ wait' = [wait EXCEPT ![r] = FALSE]
  /\ FatherTo(r, "report")
  /\ UNCHANGED <<setup, target, child, entered, ids, rc, exit, cstatus, sockets>>

(* main(): everything but -1 is a success, and the ids are printed. *)
Report(r) ==
  /\ father[r] = "report"
  /\ FatherTo(r, "exited")
  /\ exit' = [exit EXCEPT ![r] = IF rc[r] # -1 THEN "ok" ELSE "error"]
  /\ UNCHANGED <<setup, target, child, wait, entered, ids, rc, cstatus, sockets>>

FatherRuns(r) ==
  \/ Options(r) \/ Unlink(r) \/ OpenServer(r) \/ EnterNamespaces(r) \/ Fork(r)
  \/ CloseServer(r) \/ Connect(r) \/ Send(r) \/ Read(r) \/ Wait(r)
  \/ Err(r) \/ WaitErr(r) \/ Report(r)

Father(r) == FatherRuns(r) \/ ReadFails(r)

-----------------------------------------------------------------------------
(* The child: child_getids()                                                *)

ChildExit(r, s) ==
  /\ ChildTo(r, "exited")
  /\ cstatus' = [cstatus EXCEPT ![r] = s]
  /\ Release(r, "child")

ChildFails(r, l, site) ==
  /\ child[r] = l
  /\ MayFail(site)
  /\ ChildExit(r, "error")
  /\ UNCHANGED <<setup, target, father, wait, entered, ids, rc, exit, bound, serving>>

(* select() without a timeout, on the listening socket *)
Select(r) ==
  /\ child[r] = "select"
  /\ queue[r] # <<>>
  /\ ChildTo(r, "accept")
  /\ UNCHANGED <<setup, target, father, wait, entered, ids, rc, exit, cstatus, sockets>>

Accept(r) ==
  /\ child[r] = "accept"
  /\ queue[r] # <<>>
  /\ serving' = [serving EXCEPT ![r] = Head(queue[r])]
  /\ conn' = [conn EXCEPT ![Head(queue[r])].peer = "open"]
  /\ queue' = [queue EXCEPT ![r] = Tail(@)]
  /\ ChildTo(r, "passcred")
  /\ UNCHANGED <<setup, target, father, wait, entered, ids, rc, exit, cstatus,
                 bound, listeners>>

PassCred(r) ==
  /\ child[r] = "passcred"
  /\ ChildTo(r, "recvmsg")
  /\ UNCHANGED <<setup, target, father, wait, entered, ids, rc, exit, cstatus, sockets>>

(* Mutant: the child insists on credentials after end of file. *)
RecvIds_Insists(r) ==
  /\ child[r] = "recvmsg"
  /\ conn[serving[r]].creds # NoOne
  /\ ChildTo(r, "write")
  /\ UNCHANGED <<setup, target, father, wait, entered, ids, rc, exit, cstatus, sockets>>

(* recv_ids(): when the father closed without sending, recvmsg() returns 0
   and leaves credentials that may look valid or not. *)
RecvIds(r) ==
  /\ child[r] = "recvmsg"
  /\ LET c == conn[serving[r]] IN
     \/ /\ c.creds # NoOne \/ c.client = "closed"
        /\ ChildTo(r, "write")
        /\ UNCHANGED <<cstatus, listeners, queue, conn>>
     \/ /\ c.creds = NoOne /\ c.client = "closed"
        /\ ChildExit(r, "error")
  /\ UNCHANGED <<setup, target, father, wait, entered, ids, rc, exit, bound, serving>>

(* write() of the ids as this process sees them; SIGPIPE without a reader *)
Answer(r) ==
  /\ child[r] = "write"
  /\ LET c == serving[r] IN
     \/ /\ conn[c].client = "open"
        /\ conn' = [conn EXCEPT ![c].answer =
                      [k \in IdKind |-> Shows(r, k, conn[c].creds[k])]]
        /\ ChildTo(r, "done")
        /\ UNCHANGED <<cstatus, listeners, queue>>
     \/ /\ conn[c].client = "closed"
        /\ ChildExit(r, "killed")
  /\ UNCHANGED <<setup, target, father, wait, entered, ids, rc, exit, bound, serving>>

Done(r) ==
  /\ child[r] = "done"
  /\ ChildExit(r, "ok")
  /\ UNCHANGED <<setup, target, father, wait, entered, ids, rc, exit, bound, serving>>

ChildRuns(r) ==
  \/ Select(r) \/ Accept(r) \/ PassCred(r) \/ RecvIds(r) \/ Answer(r) \/ Done(r)

Child(r) ==
  \/ ChildRuns(r)
  \/ ChildFails(r, "select", "select") \/ ChildFails(r, "accept", "accept")
  \/ ChildFails(r, "passcred", "setsockopt") \/ ChildFails(r, "recvmsg", "recvmsg")
  \/ ChildFails(r, "write", "write")

-----------------------------------------------------------------------------
(* The target ends, at any moment. *)
TargetDies(r) ==
  /\ TargetMayDie
  /\ target[r]
  /\ target' = [target EXCEPT ![r] = FALSE]
  /\ UNCHANGED <<setup, father, child, wait, entered, ids, rc, exit, cstatus, sockets>>

(* SIGKILL: the program has no handler that could remove the name. *)
KillFather(r) ==
  /\ "father" \in Killable /\ father[r] # "exited"
  /\ FatherTo(r, "exited")
  /\ exit' = [exit EXCEPT ![r] = "killed"]
  /\ Release(r, "father")
  /\ UNCHANGED <<setup, target, child, wait, entered, ids, rc, cstatus, bound, serving>>

KillChild(r) ==
  /\ "child" \in Killable /\ child[r] \notin {"none", "exited"}
  /\ ChildExit(r, "killed")
  /\ UNCHANGED <<setup, target, father, wait, entered, ids, rc, exit, bound, serving>>

Finished ==
  /\ \A r \in Run : father[r] = "exited" /\ child[r] \in {"none", "exited"}
  /\ UNCHANGED vars

Next ==
  \/ \E r \in Run : Father(r) \/ Child(r) \/ TargetDies(r) \/ KillFather(r) \/ KillChild(r)
  \/ Finished

(* The kernel schedules both, but no blocked call may hope for its failure:
   ReadFails and ChildFails have no fairness. *)
Fairness == \A r \in Run : WF_vars(FatherRuns(r)) /\ WF_vars(ChildRuns(r))

Spec == Init /\ [][Next]_vars /\ Fairness

-----------------------------------------------------------------------------
(* Properties                                                               *)

Exited(r)  == father[r] = "exited"
Success(r) == Exited(r) /\ exit[r] = "ok"

(* What the program is asked for: "id in the target's pid_ns/user_ns, on
   success" (getnsids.c:433). *)
Translated(r, k) ==
  IF SpaceOf(k) \in differs[r] THEN NumberInTarget(k, arg[r][k]) ELSE arg[r][k]

(* A getnsids() that returns 0 has the pid as its target sees it, provided the
   target lives through the call: a target that ends before cmp_ns() counts as
   one in the caller's namespace (getnsids.c:473). *)
PidTranslated ==
  \A r \in Run : Success(r) /\ rc[r] = 0 /\ target[r] /\ "pid" \in mask[r] =>
    ids[r]["pid"] = Translated(r, "pid")

(* The same for the uid. *)
UidTranslated ==
  \A r \in Run : Success(r) /\ rc[r] = 0 /\ target[r] /\ "uid" \in mask[r] =>
    ids[r]["uid"] = Translated(r, "uid")

(* What is printed after rc = 0 is the answer of a child that went through all
   of child_getids(), even after a short read (getnsids.c:598-647).  That holds
   of a father connected to its own child: one that got connected to the child of
   another program may have read end of file from it while its own child answered
   a third one. *)
SuccessMeansAnswer ==
  \A r \in Run : Success(r) /\ rc[r] = 0 =>
    cstatus[r] = "ok" /\ (conn[r].server = r => conn[r].answer # NoOne)

(* A program that was not killed leaves no child and no open socket, and the
   socket name only when it returns -1 without having forked.  That is what a
   listen() that fails behind bind() does, which returns without going through
   err (getnsids.c:465, 653-679). *)
NothingLeft ==
  \A r \in Run : Exited(r) /\ exit[r] # "killed" =>
    /\ child[r] \in {"none", "exited"} /\ listeners[r] = {}
    /\ bound = r => child[r] = "none" /\ rc[r] = -1

(* The child sits in select() without a timeout for a connection nobody makes
   any more: the father failed to connect and waits for it (getnsids.c:675), or
   is gone. *)
Deaf(r) ==
  /\ child[r] = "select" /\ father[r] \in {"waiterr", "exited"}
  /\ conn[r].server = NoOne

(* A father that fails, a child that fails and a SIGKILL to either wake up the
   other one, at whatever step: every program ends, but for a deaf child. *)
EndsOrDeaf ==
  <>(\A r \in Run : \/ Exited(r) /\ child[r] \in {"none", "exited"}
                    \/ Deaf(r))

=============================================================================
