-------------------------- MODULE GetNsIds_proofs --------------------------
(***************************************************************************)
(* What holds of any number of getnsids programs on one socket name,       *)
(* whatever fails and whoever is killed.                                   *)
(***************************************************************************)
EXTENDS GetNsIds, SequenceTheorems, TLAPS

-----------------------------------------------------------------------------
(* The inductive invariant                                                  *)

BeforeFork == {"options", "unlink", "server", "cmppid", "openpid", "setpid", "cmpuser",
               "openuser", "setuser", "fork"}
AfterFork  == {"close", "connect", "send", "read", "wait"}
Serving    == {"passcred", "recvmsg", "write", "done"}

(* The child of r runs. *)
Running(r) == child[r] \notin {"none", "exited"}

(* The program of r left, and nobody killed it. *)
Left(r) == father[r] = "exited" /\ exit[r] # "killed"

(* Who exists: the father forks once, and does not report before its child has
   ended, if it has one. *)
Processes ==
  \A r \in Run :
    /\ father[r] \in BeforeFork => child[r] = "none" /\ ~wait[r]
    /\ father[r] \in AfterFork => child[r] # "none" /\ wait[r]
    /\ father[r] = "err" => wait[r] \/ ~Running(r)
    /\ father[r] = "report" \/ Left(r) => ~Running(r)
    /\ father[r] = "exited" <=> exit[r] # "none"

(* Who listens, and whether the socket name still leads to r. *)
Listening ==
  \A r \in Run :
    /\ "child" \in listeners[r] <=> Running(r)
    /\ "father" \in listeners[r] =>
         father[r] \in (BeforeFork \ {"options", "unlink", "server"}) \cup {"close", "err"}
    /\ bound = r => father[r] \notin {"options", "unlink", "server", "waiterr"}
    /\ bound = r /\ (father[r] = "report" \/ Left(r)) => child[r] = "none" /\ rc[r] = -1

(* The child of the program r connected to serves r. *)
Served(r) == conn[r].server # NoOne /\ serving[conn[r].server] = r

(* A connection is made once. *)
Unconnected ==
  \A r \in Run :
    father[r] \in BeforeFork \cup {"close", "connect"} => conn[r] = NoConnection

(* It waits in the queue of the program it was made to. *)
Queues ==
  \A s \in Run : \A i \in DOMAIN queue[s] : conn[queue[s][i]].server = s

(* Only the child of that program ever serves it. *)
Serves ==
  \A s \in Run :
    /\ serving[s] # NoOne =>
         conn[serving[s]].server = s /\ child[s] \in Serving \cup {"exited"}
    /\ child[s] \in Serving => serving[s] # NoOne

Connections == Unconnected /\ Queues /\ Serves

Unsent == \A r \in Run : father[r] = "send" => conn[r].creds = NoOne

(* A child answers once, what it was sent, and nobody else closes a connection. *)
Answered ==
  \A r \in Run :
    /\ conn[r].answer # NoOne =>
         /\ Served(r) /\ conn[r].creds # NoOne
         /\ child[conn[r].server] \in {"done", "exited"}
    /\ conn[r].peer = "closed" => Served(r) /\ child[conn[r].server] = "exited"

(* Before write(), a child that still has a reader was sent something; an exit
   status of 0 comes after the answer. *)
Ended ==
  \A s \in Run :
    /\ child[s] = "write" /\ conn[serving[s]].client = "open" =>
         conn[serving[s]].creds # NoOne
    /\ child[s] = "done" \/ cstatus[s] = "ok" =>
         serving[s] # NoOne /\ conn[serving[s]].answer # NoOne
    /\ cstatus[s] # "none" => child[s] = "exited"

Answers == Unsent /\ Answered /\ Ended

(* getnsids() returned 0, or is about to look at the status of the child. *)
Passed(r) ==
  \/ father[r] = "wait"
  \/ father[r] \in {"err", "waiterr", "report"} /\ rc[r] = 0
  \/ Success(r) /\ rc[r] = 0

(* Who got there has the answer, or saw the end of file behind which no answer
   comes any more. *)
Readings ==
  \A r \in Run : Passed(r) =>
    /\ conn[r].answer # NoOne => ids[r] = conn[r].answer
    /\ conn[r].answer = NoOne => conn[r].peer = "closed"
    /\ father[r] # "wait" => cstatus[r] = "ok"

(* What went over a connection: the kernel's ids for those the father named, and
   what these are for the child that read them. *)
Credentials ==
  \A r \in Run :
    /\ conn[r].creds # NoOne =>
         \A k \in mask[r] : conn[r].creds[k] = Denotes(r, k, arg[r][k])
    /\ conn[r].answer # NoOne =>
         \A k \in IdKind : conn[r].answer[k] = Shows(conn[r].server, k, conn[r].creds[k])

IdsInv ==
  TypeOK /\ Processes /\ Listening /\ Connections /\ Answers /\ Readings /\ Credentials

(* Past the comparison of the pid namespaces, and not on the way to an error *)
Compared(r) ==
  father[r] \in {"cmpuser", "openuser", "setuser", "fork"} \cup AfterFork \/ Passed(r)

(* A father that wants a pid is in the pid namespace of its target exactly when
   that is not its own one. *)
Entered ==
  \A r \in Run : "pid" \in mask[r] /\ target[r] =>
    /\ father[r] \in {"options", "unlink", "server", "cmppid", "openpid", "setpid"}
         => "pid" \notin entered[r]
    /\ father[r] \in {"openpid", "setpid"} => "pid" \in differs[r]
    /\ Compared(r) => ("pid" \in entered[r] <=> "pid" \in differs[r])

-----------------------------------------------------------------------------
(* What closing descriptors does                                            *)

(* Nobody makes a connection, sends ids or answers. *)
SameTalk ==
  \A c \in Run : /\ conn'[c].server = conn[c].server
                 /\ conn'[c].creds = conn[c].creds
                 /\ conn'[c].answer = conn[c].answer

(* A process that lets go of the listening socket empties its queue or leaves it
   as it is, and says nothing to anybody. *)
LEMMA ReleaseTalks ==
  ASSUME TypeOK, NEW r \in Run, NEW p \in {"father", "child"}, Release(r, p)
  PROVE  /\ listeners' = [listeners EXCEPT ![r] = @ \ {p}]
         /\ listeners' \in [Run -> SUBSET {"father", "child"}]
         /\ queue' \in [Run -> Seq(Run)]
         /\ \A s \in Run : queue'[s] = queue[s] \/ queue'[s] = <<>>
         /\ conn' \in [Run -> Connection]
         /\ SameTalk
<1> DEFINE left == listeners[r] \ {p}
           waiting == IF left # {} THEN {}
                      ELSE {c \in Run : conn[c].server = r /\ conn[c].peer = "queued"}
           served == IF p = "child" THEN {serving[r]} ELSE {}
           unread == child[r] \in {"passcred", "recvmsg"}
           peer(c) == IF c \in waiting THEN "reset"
                      ELSE IF c \notin served THEN conn[c].peer
                      ELSE IF unread /\ conn[c].creds # NoOne THEN "reset" ELSE "closed"
           client(c) == IF p = "father" /\ c = r /\ conn[c].client = "open"
                        THEN "closed" ELSE conn[c].client
<1>1. /\ listeners' = [listeners EXCEPT ![r] = left]
      /\ queue' = IF left = {} THEN [queue EXCEPT ![r] = <<>>] ELSE queue
      /\ conn' = [c \in Run |-> [conn[c] EXCEPT !.peer = peer(c), !.client = client(c)]]
  BY DEF Release
<1>2. \A c \in Run : conn[c] \in Connection
  BY DEF TypeOK
<1>3. \A c \in Run : /\ peer(c) \in {"none", "queued", "open", "closed", "reset"}
                     /\ client(c) \in {"none", "open", "closed"}
  BY <1>2 DEF Connection
<1> HIDE DEF peer, client, waiting, served, unread
<1>4. \A c \in Run : [conn[c] EXCEPT !.peer = peer(c), !.client = client(c)] \in Connection
  BY <1>2, <1>3 DEF Connection
<1>5. conn' \in [Run -> Connection]
  BY <1>1, <1>4
<1>6. SameTalk
  BY <1>1, <1>2 DEF SameTalk, Connection
<1>7. listeners' \in [Run -> SUBSET {"father", "child"}]
  BY <1>1 DEF TypeOK
<1>8. queue' = [queue EXCEPT ![r] = <<>>] \/ queue' = queue
  BY <1>1
<1>9. queue' \in [Run -> Seq(Run)]
  <2>1. <<>> \in Seq(Run)
    OBVIOUS
  <2>. QED  BY <1>8, <2>1 DEF TypeOK
<1>10. \A s \in Run : queue'[s] = queue[s] \/ queue'[s] = <<>>
  BY <1>8 DEF TypeOK
<1>. QED  BY <1>1, <1>5, <1>6, <1>7, <1>9, <1>10

(* The ends of the connections: the one of r's father may close, those that
   waited for r may be reset, and the one r's child served loses its peer. *)
LEMMA ReleaseEnds ==
  ASSUME TypeOK, NEW r \in Run, NEW p \in {"father", "child"}, Release(r, p), NEW c \in Run
  PROVE  /\ conn'[c].client = conn[c].client \/ conn'[c].client = "closed"
         /\ p = "child" \/ c # r => conn'[c].client = conn[c].client
         /\ \/ conn'[c].peer = conn[c].peer
            \/ conn'[c].peer = "reset" /\ conn[c].peer = "queued"
            \/ conn'[c].peer = "reset" /\ p = "child" /\ serving[r] = c
                 /\ child[r] \in {"passcred", "recvmsg"}
            \/ conn'[c].peer = "closed" /\ p = "child" /\ serving[r] = c
         /\ conn[c] = NoConnection /\ (p = "child" => serving[r] # c) =>
              conn'[c] = NoConnection
<1> DEFINE left == listeners[r] \ {p}
           waiting == IF left # {} THEN {}
                      ELSE {d \in Run : conn[d].server = r /\ conn[d].peer = "queued"}
           served == IF p = "child" THEN {serving[r]} ELSE {}
           unread == child[r] \in {"passcred", "recvmsg"}
           peer(d) == IF d \in waiting THEN "reset"
                      ELSE IF d \notin served THEN conn[d].peer
                      ELSE IF unread /\ conn[d].creds # NoOne THEN "reset" ELSE "closed"
           client(d) == IF p = "father" /\ d = r /\ conn[d].client = "open"
                        THEN "closed" ELSE conn[d].client
<1>1. conn' = [d \in Run |-> [conn[d] EXCEPT !.peer = peer(d), !.client = client(d)]]
  BY DEF Release
<1>2. conn[c] \in Connection
  BY DEF TypeOK
<1>3. /\ \/ peer(c) = conn[c].peer
         \/ peer(c) = "reset" /\ conn[c].peer = "queued"
         \/ peer(c) = "reset" /\ p = "child" /\ serving[r] = c /\ unread
         \/ peer(c) = "closed" /\ p = "child" /\ serving[r] = c
      /\ conn[c].peer = "none" /\ (p = "child" => serving[r] # c) => peer(c) = "none"
  OBVIOUS
<1>4. /\ client(c) = conn[c].client \/ client(c) = "closed"
      /\ p = "child" \/ c # r => client(c) = conn[c].client
      /\ conn[c].client = "none" => client(c) = "none"
  OBVIOUS
<1> HIDE DEF peer, client, waiting, served
<1>5. conn'[c] = [conn[c] EXCEPT !.peer = peer(c), !.client = client(c)]
  BY <1>1
<1>6. conn'[c].peer = peer(c) /\ conn'[c].client = client(c)
  BY <1>2, <1>5 DEF Connection
<1>7. ASSUME conn[c] = NoConnection, p = "child" => serving[r] # c
      PROVE  conn'[c] = NoConnection
  <2>1. peer(c) = conn[c].peer /\ client(c) = conn[c].client
    BY <1>3, <1>4, <1>7 DEF NoConnection
  <2>2. [conn[c] EXCEPT !.peer = conn[c].peer, !.client = conn[c].client] = conn[c]
    BY <1>2 DEF Connection
  <2>. QED  BY <1>5, <1>7, <2>1, <2>2
<1>. QED  BY <1>3, <1>4, <1>6, <1>7

-----------------------------------------------------------------------------
(* The steps of one program                                                 *)

(* A comparison, open() or setns() on the way to fork() *)
Approaches(r) ==
  /\ EnterNamespaces(r)
  /\ father[r] \in BeforeFork \ {"options", "unlink", "server", "fork"}
  /\ \/ /\ \E l \in BeforeFork \ {"options", "unlink", "server"} : FatherTo(r, l)
        /\ UNCHANGED rc
     \/ /\ FatherTo(r, "err")
        /\ rc' = [rc EXCEPT ![r] = 1]
  /\ \E e \in SUBSET {"pid", "user"} : entered' = [entered EXCEPT ![r] = e]
  /\ UNCHANGED <<setup, target, child, wait, ids, exit, cstatus, sockets>>

(* The child goes on to the next of its system calls. *)
Proceeds(r) ==
  /\ \/ child[r] = "select" /\ ChildTo(r, "accept")
     \/ child[r] = "passcred" /\ ChildTo(r, "recvmsg")
     \/ /\ child[r] = "recvmsg" /\ ChildTo(r, "write")
        /\ conn[serving[r]].creds # NoOne \/ conn[serving[r]].client = "closed"
  /\ UNCHANGED <<setup, target, father, wait, entered, ids, rc, exit, cstatus, sockets>>

(* The child writes its answer. *)
Replies(r) ==
  /\ child[r] = "write" /\ ChildTo(r, "done")
  /\ conn[serving[r]].client = "open"
  /\ conn' = [conn EXCEPT ![serving[r]].answer =
                [k \in IdKind |-> Shows(r, k, conn[serving[r]].creds[k])]]
  /\ UNCHANGED <<setup, target, father, wait, entered, ids, rc, exit, cstatus,
                 bound, listeners, queue, serving>>

(* The child ends; with 0 only after its answer. *)
ChildEnds(r) ==
  /\ Running(r)
  /\ \E s \in {"ok", "error", "killed"} : ChildExit(r, s) /\ (s = "ok" => child[r] = "done")
  /\ UNCHANGED <<setup, target, father, wait, entered, ids, rc, exit, bound, serving>>

Step(r) ==
  \/ Options(r) \/ Unlink(r) \/ OpenServer(r) \/ Approaches(r) \/ Fork(r)
  \/ CloseServer(r) \/ Connect(r) \/ Send(r) \/ Read(r) \/ ReadFails(r) \/ Wait(r)
  \/ Err(r) \/ WaitErr(r) \/ Report(r)
  \/ Accept(r) \/ Proceeds(r) \/ Replies(r) \/ ChildEnds(r)
  \/ TargetDies(r) \/ KillFather(r)

(* Every step of the programs is one of these. *)
LEMMA Steps ==
  ASSUME TypeOK, Next
  PROVE  (\E r \in Run : Step(r)) \/ UNCHANGED vars
<1>1. ASSUME NEW r \in Run, EnterNamespaces(r) PROVE Approaches(r)
  <2> father[r] \in FatherPc /\ entered[r] \in SUBSET {"pid", "user"}
    BY DEF TypeOK
  <2>1. entered = [entered EXCEPT ![r] = entered[r]]
    BY DEF TypeOK
  <2>2. ASSUME NEW l \in BeforeFork \ {"options", "unlink", "server", "fork"},
               NEW n \in BeforeFork \ {"options", "unlink", "server"},
               NEW m \in BeforeFork \ {"options", "unlink", "server"}, NEW space,
               Compare(r, l, space, n, m) \/ NotAsked(r, l, space, n) \/ OpenNs(r, l, n)
        PROVE  EnterNamespaces(r) => Approaches(r)
    BY <2>1, <2>2 DEF Compare, NotAsked, OpenNs, Approaches, FatherTo, sockets, setup
  <2>3. ASSUME NEW l \in BeforeFork \ {"options", "unlink", "server", "fork"},
               NEW n \in BeforeFork \ {"options", "unlink", "server"},
               NEW space \in {"pid", "user"}, SetNs(r, l, space, n)
        PROVE  EnterNamespaces(r) => Approaches(r)
    <3>1. entered[r] \cup {space} \in SUBSET {"pid", "user"}
      OBVIOUS
    <3>. QED  BY <2>1, <2>3, <3>1 DEF SetNs, Approaches, FatherTo
  <2>. QED  BY <1>1, <2>2, <2>3 DEF EnterNamespaces, BeforeFork
<1>2. ASSUME NEW r \in Run, NEW l \in ChildPc \ {"none", "exited"}, NEW site,
             ChildFails(r, l, site)
      PROVE  ChildEnds(r)
  BY <1>2 DEF ChildFails, ChildEnds, Running
<1>3. ASSUME NEW r \in Run, Child(r) PROVE Step(r)
  <2>1. CASE Select(r) \/ PassCred(r)
    BY <2>1 DEF Select, PassCred, Proceeds, Step
  <2>2. CASE RecvIds(r)
    BY <2>2 DEF RecvIds, Proceeds, ChildEnds, Running, Step, sockets
  <2>3. CASE Answer(r)
    BY <2>3 DEF Answer, Replies, ChildEnds, Running, Step
  <2>4. CASE Done(r)
    BY <2>4 DEF Done, ChildEnds, Running, Step
  <2>. QED  BY <1>2, <1>3, <2>1, <2>2, <2>3, <2>4 DEF Child, ChildRuns, ChildPc, Step
<1>4. ASSUME NEW r \in Run, KillChild(r) PROVE ChildEnds(r)
  BY <1>4 DEF KillChild, ChildEnds, Running
<1>. QED  BY <1>1, <1>3, <1>4 DEF Next, Father, FatherRuns, Finished, Step

-----------------------------------------------------------------------------
(* What every step keeps                                                    *)

(* The father forks once and outlives its child. *)
LEMMA ProcessesKept ==
  ASSUME TypeOK, Processes, NEW r \in Run, Step(r)
  PROVE  Processes'
<1> /\ father \in [Run -> FatherPc] /\ child \in [Run -> ChildPc]
    /\ wait \in [Run -> BOOLEAN] /\ rc \in [Run -> {-1, 0, 1}]
    /\ exit \in [Run -> {"none", "ok", "error", "killed"}]
  BY DEF TypeOK
<1> USE DEF Processes, Running, Left, FatherTo, ChildTo, BeforeFork, AfterFork, setup
<1>1. CASE Options(r)
  BY <1>1 DEF Options
<1>2. CASE Unlink(r)
  BY <1>2 DEF Unlink
<1>3. CASE OpenServer(r)
  BY <1>3 DEF OpenServer
<1>4. CASE Approaches(r)
  BY <1>4 DEF Approaches
<1>5. CASE Fork(r)
  BY <1>5 DEF Fork
<1>6. CASE CloseServer(r)
  <2>1. Release(r, "father")
    BY <1>6 DEF CloseServer
  <2>. QED  BY <1>6, <2>1, ReleaseTalks DEF CloseServer
<1>7. CASE Connect(r)
  BY <1>7 DEF Connect, Fail
<1>8. CASE Send(r)
  BY <1>8 DEF Send, Fail
<1>9. CASE Read(r)
  BY <1>9 DEF Read, Fail
<1>10. CASE ReadFails(r)
  BY <1>10 DEF ReadFails, Fail, sockets
<1>11. CASE Wait(r)
  BY <1>11 DEF Wait
<1>12. CASE Err(r)
  <2>1. Release(r, "father")
    BY <1>12 DEF Err
  <2>. QED  BY <1>12, <2>1, ReleaseTalks DEF Err
<1>13. CASE WaitErr(r)
  BY <1>13 DEF WaitErr
<1>14. CASE Report(r)
  BY <1>14 DEF Report
<1>15. CASE Accept(r)
  BY <1>15 DEF Accept
<1>16. CASE Proceeds(r)
  BY <1>16 DEF Proceeds, sockets
<1>17. CASE Replies(r)
  BY <1>17 DEF Replies
<1>18. CASE ChildEnds(r)
  <2>1. Release(r, "child")
    BY <1>18 DEF ChildEnds, ChildExit
  <2>. QED  BY <1>18, <2>1, ReleaseTalks DEF ChildEnds, ChildExit
<1>19. CASE TargetDies(r)
  BY <1>19 DEF TargetDies
<1>20. CASE KillFather(r)
  <2>1. Release(r, "father")
    BY <1>20 DEF KillFather
  <2>. QED  BY <1>20, <2>1, ReleaseTalks DEF KillFather
<1> HIDE DEF Processes, Running, Left, FatherTo, ChildTo, BeforeFork, AfterFork, setup
<1>. QED
  BY <1>1, <1>2, <1>3, <1>4, <1>5, <1>6, <1>7, <1>8, <1>9, <1>10, <1>11, <1>12, <1>13, <1>14,
     <1>15, <1>16, <1>17, <1>18, <1>19, <1>20 DEF Step

(* Who listens and what the name leads to. *)
LEMMA ListeningKept ==
  ASSUME TypeOK, Processes, Listening, NEW r \in Run, Step(r)
  PROVE  Listening'
<1> /\ father \in [Run -> FatherPc] /\ child \in [Run -> ChildPc]
    /\ wait \in [Run -> BOOLEAN] /\ bound \in Run \cup {NoOne} /\ rc \in [Run -> {-1, 0, 1}]
    /\ exit \in [Run -> {"none", "ok", "error", "killed"}]
    /\ listeners \in [Run -> SUBSET {"father", "child"}]
  BY DEF TypeOK
<1> USE ConstantsAssumption DEF Processes, Listening, Running, Left, FatherTo, ChildTo,
                                BeforeFork, setup, sockets
<1>1. CASE Options(r)
  BY <1>1 DEF Options
<1>2. CASE Unlink(r)
  BY <1>2 DEF Unlink
<1>3. CASE OpenServer(r)
  BY <1>3 DEF OpenServer
<1>4. CASE Approaches(r)
  BY <1>4 DEF Approaches
<1>5. CASE Fork(r)
  BY <1>5 DEF Fork
<1>6. CASE CloseServer(r)
  <2>1. Release(r, "father")
    BY <1>6 DEF CloseServer
  <2>. QED  BY <1>6, <2>1, ReleaseTalks DEF CloseServer
<1>7. CASE Connect(r)
  BY <1>7 DEF Connect, Fail
<1>8. CASE Send(r)
  BY <1>8 DEF Send, Fail
<1>9. CASE Read(r)
  BY <1>9 DEF Read, Fail
<1>10. CASE ReadFails(r)
  BY <1>10 DEF ReadFails, Fail, sockets
<1>11. CASE Wait(r)
  BY <1>11 DEF Wait
<1>12. CASE Err(r)
  <2>1. Release(r, "father")
    BY <1>12 DEF Err
  <2>. QED  BY <1>12, <2>1, ReleaseTalks DEF Err
<1>13. CASE WaitErr(r)
  BY <1>13 DEF WaitErr
<1>14. CASE Report(r)
  BY <1>14 DEF Report
<1>15. CASE Accept(r)
  BY <1>15 DEF Accept
<1>16. CASE Proceeds(r)
  BY <1>16 DEF Proceeds, sockets
<1>17. CASE Replies(r)
  BY <1>17 DEF Replies
<1>18. CASE ChildEnds(r)
  <2>1. Release(r, "child")
    BY <1>18 DEF ChildEnds, ChildExit
  <2>. QED  BY <1>18, <2>1, ReleaseTalks DEF ChildEnds, ChildExit
<1>19. CASE TargetDies(r)
  BY <1>19 DEF TargetDies
<1>20. CASE KillFather(r)
  <2>1. Release(r, "father")
    BY <1>20 DEF KillFather
  <2>. QED  BY <1>20, <2>1, ReleaseTalks DEF KillFather
<1> HIDE DEF Processes, Listening, Running, Left, FatherTo, ChildTo, BeforeFork, setup, sockets
<1>. QED
  BY <1>1, <1>2, <1>3, <1>4, <1>5, <1>6, <1>7, <1>8, <1>9, <1>10, <1>11, <1>12, <1>13, <1>14,
     <1>15, <1>16, <1>17, <1>18, <1>19, <1>20 DEF Step


(* The queue grows at its end and shrinks at its head. *)
LEMMA Waiting ==
  ASSUME NEW q \in Seq(Run), NEW c \in Run
  PROVE  /\ \A i \in DOMAIN q : q[i] \in Run
         /\ \A i \in DOMAIN Append(q, c) :
              Append(q, c)[i] = c \/ (i \in DOMAIN q /\ Append(q, c)[i] = q[i])
         /\ q # <<>> =>
              /\ 1 \in DOMAIN q /\ Head(q) = q[1] /\ Head(q) \in Run
              /\ Tail(q) \in Seq(Run)
              /\ \A i \in DOMAIN Tail(q) : i + 1 \in DOMAIN q /\ Tail(q)[i] = q[i + 1]
<1>1. \A i \in DOMAIN q : q[i] \in Run
  OBVIOUS
<1>2. \A i \in DOMAIN Append(q, c) :
        Append(q, c)[i] = c \/ (i \in DOMAIN q /\ Append(q, c)[i] = q[i])
  <2> DEFINE longer == Append(q, c)
  <2>1. DOMAIN q = 1 .. Len(q) /\ DOMAIN longer = 1 .. Len(q) + 1 /\ Len(q) \in Nat
    OBVIOUS
  <2>2. \A i \in 1 .. Len(q) : longer[i] = q[i]
    OBVIOUS
  <2>3. longer[Len(q) + 1] = c
    OBVIOUS
  <2> HIDE DEF longer
  <2>4. \A i \in 1 .. Len(q) + 1 : i = Len(q) + 1 \/ i \in 1 .. Len(q)
    BY <2>1
  <2>5. \A i \in DOMAIN longer : longer[i] = c \/ (i \in DOMAIN q /\ longer[i] = q[i])
    BY <2>1, <2>2, <2>3, <2>4
  <2>. QED  BY <2>5 DEF longer
<1>3. ASSUME q # <<>>
      PROVE  /\ 1 \in DOMAIN q /\ Head(q) = q[1] /\ Head(q) \in Run
             /\ Tail(q) \in Seq(Run)
             /\ \A i \in DOMAIN Tail(q) : i + 1 \in DOMAIN q /\ Tail(q)[i] = q[i + 1]
  BY <1>3
<1>. QED  BY <1>1, <1>2, <1>3

(* Connections that stay where they are, in queues that only lose them, are in the
   right queue. *)
LEMMA SameQueues ==
  ASSUME TypeOK, Queues,
         \A c \in Run : conn[c].server # NoOne => conn'[c].server = conn[c].server,
         \A s \in Run : queue'[s] = queue[s] \/ queue'[s] = <<>>
  PROVE  Queues'
<1>1. SUFFICES ASSUME NEW s \in Run, NEW i \in DOMAIN queue'[s]
               PROVE  conn'[queue'[s][i]].server = s
  BY DEF Queues
<1>2. queue'[s] = queue[s]
  OBVIOUS
<1>3. queue[s] \in Seq(Run)
  BY DEF TypeOK
<1>4. queue[s][i] \in Run /\ i \in DOMAIN queue[s]
  BY <1>2, <1>3, Waiting
<1>5. conn[queue[s][i]].server = s
  BY <1>4 DEF Queues
<1>. QED  BY <1>2, <1>4, <1>5, ConstantsAssumption

(* What a child accepts was made to its program, and nobody serves it yet. *)
LEMMA AcceptsOwn ==
  ASSUME TypeOK, Connections, NEW r \in Run, Accept(r)
  PROVE  /\ Head(queue[r]) \in Run /\ conn[Head(queue[r])].server = r
         /\ serving[r] = NoOne
<1>1. queue[r] \in Seq(Run) /\ queue[r] # <<>> /\ serving[r] \in Run \cup {NoOne}
  BY DEF TypeOK, Accept
<1>2. 1 \in DOMAIN queue[r] /\ Head(queue[r]) = queue[r][1] /\ Head(queue[r]) \in Run
  BY <1>1, Waiting
<1>3. conn[Head(queue[r])].server = r
  BY <1>2 DEF Connections, Queues
<1>4. serving[r] = NoOne
  BY <1>1 DEF Accept, Connections, Serves, Serving
<1>. QED  BY <1>2, <1>3, <1>4

(* A connection is made once and served by the program it was made to. *)
LEMMA ServesKept ==
  ASSUME TypeOK, Processes, Connections, NEW r \in Run, Step(r)
  PROVE  Unconnected' /\ Serves'
<1> /\ father \in [Run -> FatherPc] /\ child \in [Run -> ChildPc]
    /\ conn \in [Run -> Connection]
    /\ serving \in [Run -> Run \cup {NoOne}] /\ bound \in Run \cup {NoOne}
  BY DEF TypeOK
<1> Unconnected /\ Serves
  BY DEF Connections
<1> USE ConstantsAssumption DEF Unconnected, Serves, FatherTo, ChildTo, BeforeFork, Serving,
                                ChildPc, setup, sockets
<1>1. CASE Options(r)
  BY <1>1 DEF Options
<1>2. CASE Unlink(r)
  BY <1>2 DEF Unlink
<1>3. CASE OpenServer(r)
  BY <1>3 DEF OpenServer
<1>4. CASE Approaches(r)
  <2>1. UNCHANGED <<child, conn, serving>>
    BY <1>4 DEF Approaches
  <2>2. \A c \in Run : father'[c] \in BeforeFork \cup {"close", "connect"} =>
                        father[c] \in BeforeFork \cup {"close", "connect"}
    BY <1>4 DEF Approaches
  <2>3. Unconnected'
    BY <2>1, <2>2
  <2>4. Serves'
    BY <2>1
  <2>. QED  BY <2>3, <2>4
<1>5. CASE Fork(r)
  <2>1. child[r] = "none"
    BY <1>5 DEF Fork, Processes
  <2>. QED  BY <1>5, <2>1 DEF Fork
<1>6. CASE CloseServer(r)
  <2>1. Release(r, "father")
    BY <1>6 DEF CloseServer
  <2>2. \A c \in Run : conn'[c].server = conn[c].server
    BY <2>1, ReleaseTalks DEF SameTalk
  <2>3. \A c \in Run : conn[c] = NoConnection => conn'[c] = NoConnection
    BY <2>1, ReleaseEnds
  <2>. QED  BY <1>6, <2>2, <2>3 DEF CloseServer
<1>7. CASE Connect(r)
  <2>1. conn[r] = NoConnection /\ conn[r].server = NoOne /\ \A s \in Run : serving[s] # r
    BY <1>7 DEF Connect, NoConnection
  <2>2. CASE UNCHANGED <<queue, conn>>
    BY <1>7, <2>2 DEF Connect, Fail
  <2>3. CASE ~UNCHANGED <<queue, conn>>
    <3>1. father' = [father EXCEPT ![r] = "send"] /\ \A c \in Run \ {r} : conn'[c] = conn[c]
      BY <1>7, <2>3 DEF Connect
    <3>. QED  BY <1>7, <2>1, <3>1 DEF Connect
  <2>. QED  BY <2>2, <2>3
<1>8. CASE Send(r)
  <2>1. \A c \in Run : conn'[c].server = conn[c].server /\ (c # r => conn'[c] = conn[c])
    BY <1>8 DEF Send, Connection
  <2>2. father[r] = "send" /\ father'[r] \notin BeforeFork \cup {"close", "connect"}
    BY <1>8 DEF Send, Fail
  <2>. QED  BY <1>8, <2>1, <2>2 DEF Send, Fail
<1>9. CASE Read(r)
  <2>1. \A c \in Run : conn'[c].server = conn[c].server /\ (c # r => conn'[c] = conn[c])
    BY <1>9 DEF Read, Connection
  <2>2. father[r] = "read" /\ father'[r] \notin BeforeFork \cup {"close", "connect"}
    BY <1>9 DEF Read, Fail
  <2>. QED  BY <1>9, <2>1, <2>2 DEF Read, Fail
<1>10. CASE ReadFails(r)
  BY <1>10 DEF ReadFails, Fail, sockets
<1>11. CASE Wait(r)
  BY <1>11 DEF Wait
<1>12. CASE Err(r)
  <2>1. Release(r, "father")
    BY <1>12 DEF Err
  <2>2. \A c \in Run : conn'[c].server = conn[c].server
    BY <2>1, ReleaseTalks DEF SameTalk
  <2>3. \A c \in Run : conn[c] = NoConnection => conn'[c] = NoConnection
    BY <2>1, ReleaseEnds
  <2>. QED  BY <1>12, <2>2, <2>3 DEF Err
<1>13. CASE WaitErr(r)
  BY <1>13 DEF WaitErr
<1>14. CASE Report(r)
  BY <1>14 DEF Report
<1>15. CASE Accept(r)
  <2>1. Head(queue[r]) \in Run /\ conn[Head(queue[r])].server = r
    BY <1>15, AcceptsOwn
  <2>. QED  BY <1>15, <2>1 DEF Accept, NoConnection, Connection
<1>16. CASE Proceeds(r)
  BY <1>16 DEF Proceeds, sockets
<1>17. CASE Replies(r)
  <2>1. serving[r] \in Run /\ conn[serving[r]].server = r
    BY <1>17 DEF Replies
  <2>2. \A c \in Run : conn'[c].server = conn[c].server
    BY <1>17, <2>1 DEF Replies, Connection
  <2>3. \A c \in Run : conn[c] = NoConnection => conn'[c] = NoConnection
    BY <1>17, <2>1 DEF Replies, NoConnection
  <2>. QED  BY <1>17, <2>2, <2>3 DEF Replies
<1>18. CASE ChildEnds(r)
  <2>1. Release(r, "child")
    BY <1>18 DEF ChildEnds, ChildExit
  <2>2. \A c \in Run : conn'[c].server = conn[c].server
    BY <2>1, ReleaseTalks DEF SameTalk
  <2>3. \A c \in Run : conn[c] = NoConnection => serving[r] # c
    BY DEF NoConnection
  <2>4. \A c \in Run : conn[c] = NoConnection => conn'[c] = NoConnection
    BY <2>1, <2>3, ReleaseEnds
  <2>. QED  BY <1>18, <2>2, <2>4 DEF ChildEnds, ChildExit, Running
<1>19. CASE TargetDies(r)
  BY <1>19 DEF TargetDies
<1>20. CASE KillFather(r)
  <2>1. Release(r, "father")
    BY <1>20 DEF KillFather
  <2>2. \A c \in Run : conn'[c].server = conn[c].server
    BY <2>1, ReleaseTalks DEF SameTalk
  <2>3. \A c \in Run : conn[c] = NoConnection => conn'[c] = NoConnection
    BY <2>1, ReleaseEnds
  <2>. QED  BY <1>20, <2>2, <2>3 DEF KillFather
<1> HIDE DEF Unconnected, Serves, FatherTo, ChildTo, BeforeFork, Serving, ChildPc, setup,
             sockets
<1>. QED
  BY <1>1, <1>2, <1>3, <1>4, <1>5, <1>6, <1>7, <1>8, <1>9, <1>10, <1>11, <1>12, <1>13, <1>14,
     <1>15, <1>16, <1>17, <1>18, <1>19, <1>20 DEF Step

(* Only Connect adds to a queue, and it adds what it connects. *)
LEMMA QueuesKept ==
  ASSUME TypeOK, Connections, NEW r \in Run, Step(r)
  PROVE  Queues'
<1> DEFINE Same == /\ \A c \in Run : conn[c].server # NoOne => conn'[c].server = conn[c].server
                   /\ \A s \in Run : queue'[s] = queue[s] \/ queue'[s] = <<>>
<1>1. ASSUME Release(r, "father") \/ Release(r, "child") PROVE Same
  BY <1>1, ReleaseTalks DEF SameTalk
<1>2. CASE UNCHANGED <<queue, conn>>
  BY <1>2, SameQueues DEF Connections
<1>3. CASE Send(r) \/ Read(r) \/ Replies(r)
  <2>1. queue' = queue /\ \A c \in Run : conn'[c].server = conn[c].server
    <3> conn \in [Run -> Connection]
      BY DEF TypeOK
    <3>. QED  BY <1>3 DEF Send, Read, Replies, Fail, Connection
  <2>. QED  BY <2>1, SameQueues DEF Connections
<1>4. CASE Connect(r) /\ ~UNCHANGED <<queue, conn>>
  <2>1. /\ bound \in Run /\ conn[r].server = NoOne
        /\ queue' = [queue EXCEPT ![bound] = Append(@, r)]
        /\ conn' = [conn EXCEPT ![r] = [NoConnection EXCEPT
                      !.server = bound, !.client = "open", !.peer = "queued"]]
    BY <1>4 DEF Connect, Connections, Unconnected, NoConnection, TypeOK
  <2>2. conn'[r].server = bound /\ \A c \in Run \ {r} : conn'[c] = conn[c]
    BY <2>1 DEF TypeOK, NoConnection
  <2>3. SUFFICES ASSUME NEW s \in Run, NEW i \in DOMAIN queue'[s]
                 PROVE  conn'[queue'[s][i]].server = s
    BY DEF Queues
  <2>4. queue[s] \in Seq(Run) /\ queue'[s] = IF s = bound THEN Append(queue[s], r) ELSE queue[s]
    BY <2>1 DEF TypeOK
  <2>5. \/ s = bound /\ queue'[s][i] = r
        \/ i \in DOMAIN queue[s] /\ queue'[s][i] = queue[s][i] /\ queue[s][i] \in Run
    BY <2>3, <2>4, Waiting
  <2>6. CASE i \in DOMAIN queue[s] /\ queue'[s][i] = queue[s][i] /\ queue[s][i] \in Run
    <3>1. conn[queue[s][i]].server = s
      BY <2>6 DEF Connections, Queues
    <3>2. queue[s][i] # r
      BY <2>1, <3>1, ConstantsAssumption
    <3>. QED  BY <2>2, <2>6, <3>1, <3>2
  <2>. QED  BY <2>2, <2>5, <2>6
<1>5. CASE Accept(r)
  <2>1. /\ queue[r] \in Seq(Run) /\ queue[r] # <<>>
        /\ queue' = [queue EXCEPT ![r] = Tail(@)]
    BY <1>5 DEF Accept, TypeOK
  <2>2. \A c \in Run : conn'[c].server = conn[c].server
    <3> conn \in [Run -> Connection]
      BY DEF TypeOK
    <3>. QED  BY <1>5, AcceptsOwn DEF Accept, Connection
  <2>3. SUFFICES ASSUME NEW s \in Run, NEW i \in DOMAIN queue'[s]
                 PROVE  conn'[queue'[s][i]].server = s
    BY DEF Queues
  <2>4. queue[s] \in Seq(Run) /\ queue'[s] = IF s = r THEN Tail(queue[s]) ELSE queue[s]
    BY <2>1 DEF TypeOK
  <2>5. PICK j \in DOMAIN queue[s] : queue'[s][i] = queue[s][j]
    BY <2>1, <2>3, <2>4, Waiting
  <2>6. queue[s][j] \in Run /\ conn[queue[s][j]].server = s
    BY <2>4, <2>5, Waiting DEF Connections, Queues
  <2>. QED  BY <2>2, <2>5, <2>6
<1>6. CASE CloseServer(r) \/ Err(r) \/ KillFather(r) \/ ChildEnds(r)
  <2>1. Same
    BY <1>1, <1>6 DEF CloseServer, Err, KillFather, ChildEnds, ChildExit
  <2>. QED  BY <2>1, SameQueues DEF Connections
<1>7. Step(r) => \/ UNCHANGED <<queue, conn>>
                 \/ Send(r) \/ Read(r) \/ Replies(r) \/ (Connect(r)
                    /\ ~UNCHANGED <<queue, conn>>)
                 \/ Accept(r) \/ CloseServer(r) \/ Err(r) \/ KillFather(r) \/ ChildEnds(r)
  BY DEF Step, Options, Unlink, OpenServer, Approaches, Fork, Connect, ReadFails, Wait, WaitErr,
         Report, Proceeds, TargetDies, sockets
<1>. QED  BY <1>2, <1>3, <1>4, <1>5, <1>6, <1>7


(* The kernel's ids and the ids in a namespace are ids. *)
LEMMA TranslatedIds ==
  ASSUME NEW k \in IdKind
  PROVE  /\ \A n \in DOMAIN TargetView[k] : TargetView[k][n] \in Num /\ n \in Num
         /\ \A id : NumberInTarget(k, id) \in Num
<1>1. TargetView[k] \in UNION {[S -> Num] : S \in SUBSET Num}
  BY ConstantsAssumption
<1>2. PICK S \in SUBSET Num : TargetView[k] \in [S -> Num]
  BY <1>1
<1>3. \A n \in DOMAIN TargetView[k] : TargetView[k][n] \in Num /\ n \in Num
  BY <1>2
<1>4. ASSUME NEW id PROVE NumberInTarget(k, id) \in Num
  BY <1>3, ConstantsAssumption DEF NumberInTarget
<1>. QED  BY <1>3, <1>4

(* What a child makes of the credentials it was sent *)
LEMMA AnswerIsMessage ==
  ASSUME NEW r \in Run, NEW m \in Message
  PROVE  [k \in IdKind |-> Shows(r, k, m[k])] \in Message
<1>1. ASSUME NEW k \in IdKind PROVE Shows(r, k, m[k]) \in Num
  BY <1>1, TranslatedIds DEF Shows, Message
<1>. QED  BY <1>1 DEF Message

(* What a father sends, when it denotes something *)
LEMMA SentIsMessage ==
  ASSUME TypeOK, NEW r \in Run, \A k \in mask[r] : Denotes(r, k, arg[r][k]) # NoOne
  PROVE  [k \in IdKind |-> IF k \in mask[r] THEN Denotes(r, k, arg[r][k]) ELSE Overflow]
           \in Message
<1>1. ASSUME NEW k \in IdKind, k \in mask[r] PROVE Denotes(r, k, arg[r][k]) \in Num
  <2>1. arg[r][k] \in Num
    BY DEF TypeOK, Message
  <2>2. Denotes(r, k, arg[r][k]) # NoOne
    BY <1>1
  <2>. QED  BY <2>1, <2>2, TranslatedIds DEF Denotes
<1>. QED  BY <1>1, ConstantsAssumption DEF Message

(* No message is mistaken for none. *)
LEMMA MessageIsSomething == NoOne \notin Message
<1>. QED  BY ConstantsAssumption DEF Message

(* A father sends a message, or nothing. *)
LEMMA SendsMessage ==
  ASSUME TypeOK, NEW r \in Run, Send(r)
  PROVE  UNCHANGED conn \/ \E m \in Message : conn' = [conn EXCEPT ![r].creds = m]
<1> DEFINE m == [k \in IdKind |->
                   IF k \in mask[r] THEN Denotes(r, k, arg[r][k]) ELSE Overflow]
           sent == [k \in IdKind |-> Denotes(r, k, arg[r][k])]
<1>1. mask[r] \in SUBSET IdKind
  BY DEF TypeOK
<1>2. \A k \in mask[r] : sent[k] = Denotes(r, k, arg[r][k])
  BY <1>1
<1>3. m = [k \in IdKind |-> IF k \in mask[r] THEN sent[k] ELSE Overflow]
  OBVIOUS
<1>4. \/ UNCHANGED conn
      \/ /\ \A k \in mask[r] : sent[k] # NoOne
         /\ conn' = [conn EXCEPT ![r].creds =
                       [k \in IdKind |-> IF k \in mask[r] THEN sent[k] ELSE Overflow]]
  BY DEF Send
<1> HIDE DEF sent
<1>5. ASSUME \A k \in mask[r] : sent[k] # NoOne PROVE m \in Message
  <2>1. \A k \in mask[r] : Denotes(r, k, arg[r][k]) # NoOne
    BY <1>2, <1>5
  <2>. QED  BY <2>1, SentIsMessage
<1> HIDE DEF m
<1>. QED  BY <1>3, <1>4, <1>5

(* A child answers once, and what it was sent. *)
LEMMA AnswersKept ==
  ASSUME TypeOK, Processes, Connections, Answers, NEW r \in Run, Step(r)
  PROVE  Answers'
<1> /\ father \in [Run -> FatherPc] /\ child \in [Run -> ChildPc]
    /\ cstatus \in [Run -> {"none", "ok", "error", "killed"}]
    /\ conn \in [Run -> Connection]
    /\ serving \in [Run -> Run \cup {NoOne}] /\ bound \in Run \cup {NoOne}
  BY DEF TypeOK
<1> Unconnected /\ Serves
  BY DEF Connections
<1> USE ConstantsAssumption DEF Unconnected, Serves, Answers, Unsent, Answered, Ended, Served,
                                FatherTo, ChildTo, BeforeFork, Serving, ChildPc, setup, sockets
<1>1. CASE Options(r)
  BY <1>1 DEF Options
<1>2. CASE Unlink(r)
  BY <1>2 DEF Unlink
<1>3. CASE OpenServer(r)
  BY <1>3 DEF OpenServer
<1>4. CASE Approaches(r)
  <2>1. UNCHANGED <<child, conn, serving, cstatus>>
    BY <1>4 DEF Approaches
  <2>2. \A c \in Run : father'[c] = "send" => father[c] = "send"
    BY <1>4 DEF Approaches
  <2>. QED  BY <2>1, <2>2
<1>5. CASE Fork(r)
  <2>1. child[r] = "none"
    BY <1>5 DEF Fork, Processes
  <2>2. /\ UNCHANGED <<conn, serving, cstatus>>
        /\ \A c \in Run : father'[c] = "send" => father[c] = "send"
        /\ child'[r] \in {"none", "select"} /\ \A s \in Run : s # r => child'[s] = child[s]
    BY <1>5, <2>1 DEF Fork
  <2>3. Unsent'
    BY <2>2
  <2>4. Answered'
    <3>1. \A c \in Run : conn[c].server \in Run \cup {NoOne}
      BY DEF Connection
    <3>2. \A s \in Run : child[s] \in {"done", "exited"} => child'[s] = child[s]
      BY <2>1, <2>2
    <3>3. UNCHANGED <<conn, serving>>
      BY <2>1, <2>2
    <3>. QED  BY <3>1, <3>2, <3>3
  <2>5. Ended'
    BY <2>1, <2>2
  <2>. QED  BY <2>3, <2>4, <2>5
<1>6. CASE CloseServer(r)
  <2>1. Release(r, "father")
    BY <1>6 DEF CloseServer
  <2>2. SameTalk
    BY <2>1, ReleaseTalks
  <2>3. \A c \in Run : /\ conn'[c].client = "open" => conn[c].client = "open"
                       /\ conn'[c].peer = "closed" => conn[c].peer = "closed"
    BY <2>1, ReleaseEnds
  <2>4. /\ UNCHANGED <<child, serving, cstatus>>
        /\ \A c \in Run : father'[c] = "send" => father[c] = "send"
    BY <1>6 DEF CloseServer
  <2>5. Unsent'
    BY <2>2, <2>4 DEF SameTalk
  <2>6. Answered'
    BY <2>2, <2>3, <2>4 DEF SameTalk
  <2>7. Ended'
    BY <2>2, <2>3, <2>4 DEF SameTalk
  <2>. QED  BY <2>5, <2>6, <2>7
<1>7. CASE Connect(r)
  <2>1. CASE UNCHANGED conn /\ Fail(r)
    <3>1. UNCHANGED <<child, serving, cstatus>>
      BY <1>7 DEF Connect
    <3>2. \A c \in Run : father'[c] = "send" => father[c] = "send"
      BY <2>1 DEF Fail
    <3>. QED  BY <2>1, <3>1, <3>2
  <2>2. ASSUME conn' = [conn EXCEPT ![r] = [NoConnection EXCEPT
                          !.server = bound, !.client = "open", !.peer = "queued"]],
               FatherTo(r, "send")
        PROVE  Answers'
    <3>1. conn[r] = NoConnection /\ \A s \in Run : serving[s] # r
      BY <1>7 DEF Connect, NoConnection, Unconnected, Serves
    <3>2. /\ \A c \in Run \ {r} : conn'[c] = conn[c]
          /\ conn'[r].creds = NoOne /\ conn'[r].answer = NoOne /\ conn'[r].peer = "queued"
      BY <2>2 DEF NoConnection
    <3>3. UNCHANGED <<child, serving, cstatus>>
      BY <1>7 DEF Connect
    <3>4. Unsent'
      BY <2>2, <3>2
    <3>5. Answered'
      BY <3>1, <3>2, <3>3
    <3>6. Ended'
      BY <3>1, <3>2, <3>3
    <3>. QED  BY <3>4, <3>5, <3>6
  <2>. QED  BY <1>7, <2>1, <2>2 DEF Connect
<1>8. CASE Send(r)
  <2>1. UNCHANGED <<child, serving, cstatus>> /\ father'[r] # "send"
    BY <1>8 DEF Send, Fail
  <2>2. \A c \in Run : /\ conn'[c].server = conn[c].server /\ conn'[c].peer = conn[c].peer
                       /\ conn'[c].client = conn[c].client
                       /\ conn'[c].answer = conn[c].answer
                       /\ conn[c].creds # NoOne => conn'[c].creds # NoOne
    <3>1. CASE UNCHANGED conn
      BY <3>1
    <3>2. CASE ~UNCHANGED conn
      <4>1. PICK m \in Message : conn' = [conn EXCEPT ![r].creds = m]
        BY <1>8, <3>2, SendsMessage
      <4>2. m # NoOne
        BY MessageIsSomething
      <4>. QED  BY <4>1, <4>2 DEF Connection
    <3>. QED  BY <3>1, <3>2
  <2>. QED  BY <1>8, <2>1, <2>2 DEF Send, Fail
<1>9. CASE Read(r)
  <2>1. UNCHANGED <<child, serving, cstatus>> /\ father'[r] # "send"
    BY <1>9 DEF Read, Fail
  <2>2. \A c \in Run : /\ conn'[c].server = conn[c].server /\ conn'[c].peer = conn[c].peer
                       /\ conn'[c].client = "open" => conn[c].client = "open"
                       /\ conn'[c].answer = conn[c].answer
                       /\ conn'[c].creds = conn[c].creds
    BY <1>9 DEF Read, Connection
  <2>. QED  BY <1>9, <2>1, <2>2 DEF Read, Fail
<1>10. CASE ReadFails(r)
  BY <1>10 DEF ReadFails, Fail, sockets
<1>11. CASE Wait(r)
  BY <1>11 DEF Wait
<1>12. CASE Err(r)
  <2>1. Release(r, "father")
    BY <1>12 DEF Err
  <2>2. SameTalk
    BY <2>1, ReleaseTalks
  <2>3. \A c \in Run : /\ conn'[c].client = "open" => conn[c].client = "open"
                       /\ conn'[c].peer = "closed" => conn[c].peer = "closed"
    BY <2>1, ReleaseEnds
  <2>4. /\ UNCHANGED <<child, serving, cstatus>>
        /\ \A c \in Run : father'[c] = "send" => father[c] = "send"
    BY <1>12 DEF Err
  <2>5. Unsent'
    BY <2>2, <2>4 DEF SameTalk
  <2>6. Answered'
    BY <2>2, <2>3, <2>4 DEF SameTalk
  <2>7. Ended'
    BY <2>2, <2>3, <2>4 DEF SameTalk
  <2>. QED  BY <2>5, <2>6, <2>7
<1>13. CASE WaitErr(r)
  BY <1>13 DEF WaitErr
<1>14. CASE Report(r)
  BY <1>14 DEF Report
<1>15. CASE Accept(r)
  <2> DEFINE h == Head(queue[r])
  <2>1. h \in Run /\ conn[h].server = r /\ serving[r] = NoOne
    BY <1>15, AcceptsOwn
  <2> HIDE DEF h
  <2>2. \A c \in Run : /\ conn'[c].server = conn[c].server /\ conn'[c].creds = conn[c].creds
                       /\ conn'[c].client = conn[c].client
                       /\ conn'[c].answer = conn[c].answer
                       /\ conn'[c].peer = "closed" => c # h /\ conn[c].peer = "closed"
    BY <1>15, <2>1 DEF Accept, Connection, h
  <2>3. serving' = [serving EXCEPT ![r] = h] /\ UNCHANGED <<father, cstatus>>
    BY <1>15 DEF Accept, h
  <2>4. child[r] = "accept" /\ child' = [child EXCEPT ![r] = "passcred"]
    BY <1>15 DEF Accept
  <2>5. Unsent'
    BY <2>2, <2>3
  <2>6. Answered'
    BY <2>1, <2>2, <2>3, <2>4
  <2>7. Ended'
    BY <2>1, <2>2, <2>3, <2>4
  <2>. QED  BY <2>5, <2>6, <2>7
<1>16. CASE Proceeds(r)
  <2>1. UNCHANGED <<father, conn, serving, cstatus>>
    BY <1>16 DEF Proceeds
  <2>2. /\ child[r] \notin {"done", "exited"} /\ child'[r] \notin {"done", "exited"}
        /\ \A s \in Run : s # r => child'[s] = child[s]
        /\ child'[r] = "write" =>
             conn[serving[r]].creds # NoOne \/ conn[serving[r]].client = "closed"
    BY <1>16 DEF Proceeds
  <2>3. Unsent'
    BY <2>1
  <2>4. Answered'
    <3>1. \A c \in Run : conn[c].server \in Run \cup {NoOne}
      BY DEF Connection
    <3>2. \A s \in Run : child[s] \in {"done", "exited"} => child'[s] = child[s]
      BY <2>1, <2>2
    <3>3. UNCHANGED <<conn, serving>>
      BY <2>1, <2>2
    <3>. QED  BY <3>1, <3>2, <3>3
  <2>5. Ended'
    BY <2>1, <2>2
  <2>. QED  BY <2>3, <2>4, <2>5
<1>17. CASE Replies(r)
  <2> DEFINE h == serving[r]
  <2>1. h \in Run /\ conn[h].server = r /\ conn[h].creds # NoOne
    BY <1>17 DEF Replies
  <2>2. \A c \in Run : /\ conn'[c].server = conn[c].server /\ conn'[c].creds = conn[c].creds
                       /\ conn'[c].client = conn[c].client /\ conn'[c].peer = conn[c].peer
                       /\ c # h => conn'[c].answer = conn[c].answer
    BY <1>17 DEF Replies, Connection
  <2>3. conn'[h].answer # NoOne
    <3>1. [k \in IdKind |-> Shows(r, k, conn[h].creds[k])] \in Message
      BY <2>1, AnswerIsMessage DEF Connection
    <3>. QED  BY <1>17, <2>1, <3>1, MessageIsSomething DEF Replies, Connection
  <2>4. /\ UNCHANGED <<father, serving, cstatus>>
        /\ child[r] = "write" /\ child' = [child EXCEPT ![r] = "done"]
    BY <1>17 DEF Replies
  <2> HIDE DEF h
  <2>5. Unsent'
    BY <2>2, <2>4
  <2>6. h = serving[r]
    BY DEF h
  <2>7. Answered'
    BY <2>1, <2>2, <2>3, <2>4, <2>6
  <2>8. Ended'
    BY <2>1, <2>2, <2>3, <2>4, <2>6
  <2>. QED  BY <2>5, <2>7, <2>8
<1>18. CASE ChildEnds(r)
  <2>1. Release(r, "child")
    BY <1>18 DEF ChildEnds, ChildExit
  <2>2. SameTalk
    BY <2>1, ReleaseTalks
  <2>3. \A c \in Run : /\ conn'[c].client = conn[c].client
                       /\ conn'[c].peer = "closed" => conn[c].peer = "closed" \/ serving[r] = c
    BY <2>1, ReleaseEnds
  <2>4. /\ UNCHANGED <<father, serving>>
        /\ child' = [child EXCEPT ![r] = "exited"] /\ child[r] # "exited"
    BY <1>18 DEF ChildEnds, ChildExit, Running
  <2>5. PICK x \in {"ok", "error", "killed"} :
          cstatus' = [cstatus EXCEPT ![r] = x] /\ (x = "ok" => child[r] = "done")
    BY <1>18 DEF ChildEnds, ChildExit
  <2>6. Unsent'
    BY <2>2, <2>4 DEF SameTalk
  <2>7. Answered'
    BY <2>2, <2>3, <2>4 DEF SameTalk
  <2>8. Ended'
    BY <2>2, <2>3, <2>4, <2>5 DEF SameTalk
  <2>. QED  BY <2>6, <2>7, <2>8
<1>19. CASE TargetDies(r)
  BY <1>19 DEF TargetDies
<1>20. CASE KillFather(r)
  <2>1. Release(r, "father")
    BY <1>20 DEF KillFather
  <2>2. SameTalk
    BY <2>1, ReleaseTalks
  <2>3. \A c \in Run : /\ conn'[c].client = "open" => conn[c].client = "open"
                       /\ conn'[c].peer = "closed" => conn[c].peer = "closed"
    BY <2>1, ReleaseEnds
  <2>4. /\ UNCHANGED <<child, serving, cstatus>>
        /\ \A c \in Run : father'[c] = "send" => father[c] = "send"
    BY <1>20 DEF KillFather
  <2>5. Unsent'
    BY <2>2, <2>4 DEF SameTalk
  <2>6. Answered'
    BY <2>2, <2>3, <2>4 DEF SameTalk
  <2>7. Ended'
    BY <2>2, <2>3, <2>4 DEF SameTalk
  <2>. QED  BY <2>5, <2>6, <2>7
<1> HIDE DEF Unconnected, Serves, Answers, Unsent, Answered, Ended, Served, FatherTo, ChildTo,
             BeforeFork, Serving, ChildPc, setup, sockets
<1>. QED
  BY <1>1, <1>2, <1>3, <1>4, <1>5, <1>6, <1>7, <1>8, <1>9, <1>10, <1>11, <1>12, <1>13, <1>14,
     <1>15, <1>16, <1>17, <1>18, <1>19, <1>20 DEF Step


(* A connection stays one when an end of it changes or a message goes over it. *)
LEMMA FieldsKept ==
  ASSUME NEW c \in Connection
  PROVE  /\ [c EXCEPT !.client = "closed"] \in Connection
         /\ [c EXCEPT !.peer = "open"] \in Connection
         /\ \A m \in Message : /\ [c EXCEPT !.creds = m] \in Connection
                               /\ [c EXCEPT !.answer = m] \in Connection
<1>. QED  BY DEF Connection

(* Every step keeps the variables in their types. *)
LEMMA TypeKept ==
  ASSUME TypeOK, Connections, Answers, NEW r \in Run, Step(r)
  PROVE  TypeOK'
<1> /\ conn \in [Run -> Connection] /\ queue \in [Run -> Seq(Run)]
    /\ serving \in [Run -> Run \cup {NoOne}] /\ bound \in Run \cup {NoOne}
    /\ father \in [Run -> FatherPc] /\ child \in [Run -> ChildPc]
    /\ wait \in [Run -> BOOLEAN] /\ rc \in [Run -> {-1, 0, 1}]
    /\ exit \in [Run -> {"none", "ok", "error", "killed"}]
    /\ cstatus \in [Run -> {"none", "ok", "error", "killed"}]
    /\ listeners \in [Run -> SUBSET {"father", "child"}]
  BY DEF TypeOK
<1> USE ConstantsAssumption DEF FatherTo, ChildTo, FatherPc, ChildPc, setup, sockets
<1>1. CASE Options(r)
  <2>1. father' \in [Run -> FatherPc]
    <3>1. PICK x \in FatherPc : father' = [father EXCEPT ![r] = x]
      BY <1>1 DEF Options
    <3>. QED  BY <3>1
  <2>2. exit' \in [Run -> {"none", "ok", "error", "killed"}]
    BY <1>1 DEF Options
  <2>. QED  BY <1>1, <2>1, <2>2 DEF Options, TypeOK
<1>2. CASE Unlink(r)
  <2>1. father' \in [Run -> FatherPc]
    BY <1>2 DEF Unlink
  <2>2. bound' \in Run \cup {NoOne}
    BY <1>2 DEF Unlink
  <2>. QED  BY <1>2, <2>1, <2>2 DEF Unlink, TypeOK
<1>3. CASE OpenServer(r)
  <2>1. father' \in [Run -> FatherPc]
    <3>1. PICK x \in FatherPc : father' = [father EXCEPT ![r] = x]
      BY <1>3 DEF OpenServer
    <3>. QED  BY <3>1
  <2>2. bound' \in Run \cup {NoOne}
    BY <1>3 DEF OpenServer
  <2>3. rc' \in [Run -> {-1, 0, 1}]
    BY <1>3 DEF OpenServer
  <2>4. listeners' \in [Run -> SUBSET {"father", "child"}]
    <3>1. PICK x \in SUBSET {"father", "child"} : listeners' = [listeners EXCEPT ![r] = x]
      BY <1>3 DEF OpenServer
    <3>. QED  BY <3>1
  <2>. QED  BY <1>3, <2>1, <2>2, <2>3, <2>4 DEF OpenServer, TypeOK
<1>4. CASE Approaches(r)
  <2>1. entered' \in [Run -> SUBSET {"pid", "user"}]
    <3> entered \in [Run -> SUBSET {"pid", "user"}]
      BY DEF TypeOK
    <3>. QED  BY <1>4 DEF Approaches
  <2>2. rc' \in [Run -> {-1, 0, 1}]
    BY <1>4 DEF Approaches
  <2>3. father' \in [Run -> FatherPc]
    <3>1. PICK l \in FatherPc : father' = [father EXCEPT ![r] = l]
      BY <1>4 DEF Approaches, BeforeFork
    <3>. QED  BY <3>1
  <2>. QED  BY <1>4, <2>1, <2>2, <2>3 DEF Approaches, TypeOK
<1>5. CASE Fork(r)
  <2>1. father' \in [Run -> FatherPc]
    <3>1. PICK x \in FatherPc : father' = [father EXCEPT ![r] = x]
      BY <1>5 DEF Fork
    <3>. QED  BY <3>1
  <2>2. child' \in [Run -> ChildPc]
    BY <1>5 DEF Fork
  <2>3. wait' \in [Run -> BOOLEAN]
    BY <1>5 DEF Fork
  <2>4. listeners' \in [Run -> SUBSET {"father", "child"}]
    <3>1. PICK x \in SUBSET {"father", "child"} : listeners' = [listeners EXCEPT ![r] = x]
      BY <1>5 DEF Fork
    <3>. QED  BY <3>1
  <2>5. rc' \in [Run -> {-1, 0, 1}]
    BY <1>5 DEF Fork
  <2>. QED  BY <1>5, <2>1, <2>2, <2>3, <2>4, <2>5 DEF Fork, TypeOK
<1>6. CASE CloseServer(r)
  <2>r. Release(r, "father")
    BY <1>6 DEF CloseServer
  <2>1. father' \in [Run -> FatherPc]
    BY <1>6 DEF CloseServer
  <2>. QED  BY <1>6, <2>r, ReleaseTalks, <2>1 DEF CloseServer, TypeOK
<1>7. CASE Connect(r)
  <2>1. CASE UNCHANGED <<queue, conn>> /\ Fail(r)
    <3>1. father' \in [Run -> FatherPc] /\ rc' \in [Run -> {-1, 0, 1}]
      BY <2>1 DEF Fail
    <3>. QED  BY <1>7, <2>1, <3>1 DEF Connect, TypeOK
  <2>2. ASSUME bound \in Run, queue' = [queue EXCEPT ![bound] = Append(queue[bound], r)],
               conn' = [conn EXCEPT ![r] = [NoConnection EXCEPT
                          !.server = bound, !.client = "open", !.peer = "queued"]],
               FatherTo(r, "send"), UNCHANGED rc
        PROVE  TypeOK'
    <3>1. [NoConnection EXCEPT !.server = bound, !.client = "open", !.peer = "queued"]
            \in Connection
      BY <2>2 DEF NoConnection, Connection
    <3>2. conn' \in [Run -> Connection]
      BY <2>2, <3>1
    <3> DEFINE q == Append(queue[bound], r)
    <3>3. q \in Seq(Run) /\ queue' = [queue EXCEPT ![bound] = q]
      <4>1. queue[bound] \in Seq(Run)
        BY <2>2
      <4>2. q \in Seq(Run)
        BY <4>1
      <4>. QED  BY <2>2, <4>2
    <3> HIDE DEF q
    <3>4. queue' \in [Run -> Seq(Run)]
      BY <2>2, <3>3
    <3>5. father' \in [Run -> FatherPc]
      BY <2>2
    <3>. QED  BY <1>7, <2>2, <3>2, <3>4, <3>5 DEF Connect, TypeOK
  <2>3. \/ UNCHANGED <<queue, conn>> /\ Fail(r)
        \/ /\ bound \in Run /\ queue' = [queue EXCEPT ![bound] = Append(queue[bound], r)]
           /\ conn' = [conn EXCEPT ![r] = [NoConnection EXCEPT
                         !.server = bound, !.client = "open", !.peer = "queued"]]
           /\ FatherTo(r, "send") /\ UNCHANGED rc
    BY <1>7 DEF Connect
  <2>. QED  BY <2>1, <2>2, <2>3
<1>8. CASE Send(r)
  <2>1. CASE UNCHANGED conn /\ Fail(r)
    <3>1. father' \in [Run -> FatherPc] /\ rc' \in [Run -> {-1, 0, 1}]
      BY <2>1 DEF Fail
    <3>. QED  BY <1>8, <2>1, <3>1 DEF Send, TypeOK
  <2>2. CASE ~(UNCHANGED conn /\ Fail(r))
    <3> DEFINE m == [k \in IdKind |->
                       IF k \in mask[r] THEN Denotes(r, k, arg[r][k]) ELSE Overflow]
    <3>1. /\ \A k \in mask[r] : Denotes(r, k, arg[r][k]) # NoOne
          /\ conn' = [conn EXCEPT ![r].creds = m]
          /\ FatherTo(r, "read") /\ UNCHANGED rc
      <4> mask[r] \in SUBSET IdKind
        BY DEF TypeOK
      <4>. QED  BY <1>8, <2>2 DEF Send
    <3>2. m \in Message
      BY <3>1, SentIsMessage
    <3> HIDE DEF m
    <3>3. conn' \in [Run -> Connection]
      <4>1. [conn[r] EXCEPT !.creds = m] \in Connection
        BY <3>2, FieldsKept
      <4>2. conn' = [conn EXCEPT ![r] = [conn[r] EXCEPT !.creds = m]]
        BY <3>1
      <4>. QED  BY <4>1, <4>2
    <3>4. father' \in [Run -> FatherPc]
      BY <3>1
    <3>. QED  BY <1>8, <3>1, <3>3, <3>4 DEF Send, TypeOK
  <2>. QED  BY <2>1, <2>2
<1>9. CASE Read(r)
  <2>1. conn' \in [Run -> Connection]
    <3>1. CASE UNCHANGED conn
      BY <3>1
    <3>2. CASE conn' = [conn EXCEPT ![r] = [conn[r] EXCEPT !.client = "closed"]]
      <4>1. [conn[r] EXCEPT !.client = "closed"] \in Connection
        BY FieldsKept
      <4>. QED  BY <3>2, <4>1
    <3>. QED  BY <1>9, <3>1, <3>2 DEF Read
  <2>2. ids' \in [Run -> Message]
    <3>1. ids \in [Run -> Message] /\ conn[r].answer \in Message \cup {NoOne}
      BY DEF TypeOK, Connection
    <3>. QED  BY <1>9, <3>1 DEF Read
  <2>3. father' \in [Run -> FatherPc] /\ rc' \in [Run -> {-1, 0, 1}]
    BY <1>9 DEF Read, Fail
  <2>. QED  BY <1>9, <2>1, <2>2, <2>3 DEF Read, TypeOK
<1>10. CASE ReadFails(r)
  <2>1. father' \in [Run -> FatherPc]
    BY <1>10 DEF ReadFails, Fail
  <2>2. rc' \in [Run -> {-1, 0, 1}]
    BY <1>10 DEF ReadFails, Fail
  <2>. QED  BY <1>10, <2>1, <2>2 DEF ReadFails, TypeOK
<1>11. CASE Wait(r)
  <2>1. father' \in [Run -> FatherPc]
    BY <1>11 DEF Wait
  <2>2. wait' \in [Run -> BOOLEAN]
    BY <1>11 DEF Wait
  <2>3. rc' \in [Run -> {-1, 0, 1}]
    BY <1>11 DEF Wait
  <2>. QED  BY <1>11, <2>1, <2>2, <2>3 DEF Wait, TypeOK
<1>12. CASE Err(r)
  <2>r. Release(r, "father")
    BY <1>12 DEF Err
  <2>1. father' \in [Run -> FatherPc]
    BY <1>12 DEF Err
  <2>2. bound' \in Run \cup {NoOne}
    BY <1>12 DEF Err
  <2>. QED  BY <1>12, <2>r, ReleaseTalks, <2>1, <2>2 DEF Err, TypeOK
<1>13. CASE WaitErr(r)
  <2>1. father' \in [Run -> FatherPc]
    BY <1>13 DEF WaitErr
  <2>2. wait' \in [Run -> BOOLEAN]
    BY <1>13 DEF WaitErr
  <2>. QED  BY <1>13, <2>1, <2>2 DEF WaitErr, TypeOK
<1>14. CASE Report(r)
  <2>1. father' \in [Run -> FatherPc]
    BY <1>14 DEF Report
  <2>2. exit' \in [Run -> {"none", "ok", "error", "killed"}]
    BY <1>14 DEF Report
  <2>. QED  BY <1>14, <2>1, <2>2 DEF Report, TypeOK
<1>15. CASE Accept(r)
  <2> DEFINE h == Head(queue[r])
  <2>1. /\ queue[r] \in Seq(Run) /\ queue[r] # <<>> /\ h \in Run /\ Tail(queue[r]) \in Seq(Run)
    BY <1>15, Waiting DEF Accept
  <2>2. queue' \in [Run -> Seq(Run)]
    BY <1>15, <2>1 DEF Accept
  <2>3. serving' \in [Run -> Run \cup {NoOne}]
    BY <1>15, <2>1 DEF Accept
  <2>4. child' \in [Run -> ChildPc]
    BY <1>15 DEF Accept
  <2>5. conn' = [conn EXCEPT ![h] = [conn[h] EXCEPT !.peer = "open"]]
    BY <1>15 DEF Accept
  <2> HIDE DEF h
  <2>6. conn' \in [Run -> Connection]
    <3>1. [conn[h] EXCEPT !.peer = "open"] \in Connection
      BY <2>1, FieldsKept
    <3>. QED  BY <2>1, <2>5, <3>1
  <2>. QED  BY <1>15, <2>2, <2>3, <2>4, <2>6 DEF Accept, TypeOK
<1>16. CASE Proceeds(r)
  <2>1. child' \in [Run -> ChildPc]
    <3>1. PICK x \in ChildPc : child' = [child EXCEPT ![r] = x]
      BY <1>16 DEF Proceeds
    <3>. QED  BY <3>1
  <2>. QED  BY <1>16, <2>1 DEF Proceeds, TypeOK
<1>17. CASE Replies(r)
  <2> DEFINE h == serving[r]
             m == [k \in IdKind |-> Shows(r, k, conn[h].creds[k])]
  <2>1. h \in Run
    BY <1>17 DEF Replies, Connections, Serves, Serving
  <2>2. conn[h].creds \in Message
    BY <1>17, <2>1 DEF Replies, Answers, Ended, Connection
  <2>3. m \in Message
    BY <2>2, AnswerIsMessage
  <2>4. child' \in [Run -> ChildPc]
    BY <1>17 DEF Replies
  <2>5. conn' = [conn EXCEPT ![h] = [conn[h] EXCEPT !.answer = m]]
    BY <1>17 DEF Replies
  <2> HIDE DEF h, m
  <2>6. [conn[h] EXCEPT !.answer = m] \in Connection
    BY <2>1, <2>3, FieldsKept
  <2>7. conn' \in [Run -> Connection]
    BY <2>1, <2>5, <2>6
  <2>. QED  BY <1>17, <2>4, <2>7 DEF Replies, TypeOK
<1>18. CASE ChildEnds(r)
  <2>1. Release(r, "child")
    BY <1>18 DEF ChildEnds, ChildExit
  <2>2. child' \in [Run -> ChildPc]
    BY <1>18 DEF ChildEnds, ChildExit
  <2>3. cstatus' \in [Run -> {"none", "ok", "error", "killed"}]
    BY <1>18 DEF ChildEnds, ChildExit
  <2>. QED  BY <1>18, <2>1, <2>2, <2>3, ReleaseTalks DEF ChildEnds, ChildExit, TypeOK
<1>19. CASE TargetDies(r)
  BY <1>19 DEF TargetDies, TypeOK
<1>20. CASE KillFather(r)
  <2>r. Release(r, "father")
    BY <1>20 DEF KillFather
  <2>1. father' \in [Run -> FatherPc]
    BY <1>20 DEF KillFather
  <2>2. exit' \in [Run -> {"none", "ok", "error", "killed"}]
    BY <1>20 DEF KillFather
  <2>. QED  BY <1>20, <2>r, ReleaseTalks, <2>1, <2>2 DEF KillFather, TypeOK
<1> HIDE DEF FatherTo, ChildTo, FatherPc, ChildPc, setup, sockets
<1>. QED
  BY <1>1, <1>2, <1>3, <1>4, <1>5, <1>6, <1>7, <1>8, <1>9, <1>10, <1>11, <1>12, <1>13, <1>14,
     <1>15, <1>16, <1>17, <1>18, <1>19, <1>20 DEF Step


(* What was said on a connection stays said, and a closed one hears nothing more. *)
LEMMA SaidStays ==
  ASSUME TypeOK, Connections, Answers, NEW r \in Run, Step(r), NEW c \in Run
  PROVE  /\ conn[c].server # NoOne => conn'[c].server = conn[c].server
         /\ conn[c].creds # NoOne => conn'[c].creds = conn[c].creds
         /\ conn[c].answer # NoOne => conn'[c].answer = conn[c].answer
         /\ conn[c].peer = "closed" =>
              conn'[c].peer = "closed" /\ conn'[c].answer = conn[c].answer
<1> DEFINE Goal == /\ conn[c].server # NoOne => conn'[c].server = conn[c].server
                   /\ conn[c].creds # NoOne => conn'[c].creds = conn[c].creds
                   /\ conn[c].answer # NoOne => conn'[c].answer = conn[c].answer
                   /\ conn[c].peer = "closed" =>
                        conn'[c].peer = "closed" /\ conn'[c].answer = conn[c].answer
<1> conn[c] \in Connection /\ conn \in [Run -> Connection]
  BY DEF TypeOK
<1>0. CASE UNCHANGED conn
  BY <1>0
<1>1. CASE Connect(r) /\ ~UNCHANGED conn
  <2>1. conn[r] = NoConnection /\ \A d \in Run \ {r} : conn'[d] = conn[d]
    BY <1>1 DEF Connect, Connections, Unconnected
  <2>2. CASE c = r
    BY <2>1, <2>2 DEF NoConnection
  <2>3. CASE c # r
    BY <2>1, <2>3
  <2>. QED  BY <2>2, <2>3
<1>2. CASE Send(r)
  <2>1. father[r] = "send" /\ conn[r].creds = NoOne
    BY <1>2 DEF Send, Answers, Unsent
  <2>2. /\ conn'[c].server = conn[c].server /\ conn'[c].peer = conn[c].peer
        /\ conn'[c].answer = conn[c].answer /\ (c # r => conn'[c] = conn[c])
    BY <1>2 DEF Send, Connection
  <2>. QED  BY <2>1, <2>2
<1>3. CASE Read(r)
  BY <1>3 DEF Read, Connection
<1>4. CASE Accept(r)
  <2> DEFINE h == Head(queue[r])
  <2>1. h \in Run /\ conn[h].server = r /\ serving[r] = NoOne
    BY <1>4, AcceptsOwn
  <2> HIDE DEF h
  <2>2. conn[h].peer # "closed"
    BY <2>1, ConstantsAssumption DEF Answers, Answered, Served
  <2>3. /\ conn'[c].server = conn[c].server /\ conn'[c].creds = conn[c].creds
        /\ conn'[c].answer = conn[c].answer /\ (c # h => conn'[c] = conn[c])
    BY <1>4 DEF Accept, Connection, h
  <2>. QED  BY <2>2, <2>3
<1>5. CASE Replies(r)
  <2> DEFINE h == serving[r]
  <2>1. h \in Run /\ conn[h].server = r /\ child[r] = "write"
    <3>1. child[r] = "write" /\ child[r] \in Serving /\ serving[r] \in Run \cup {NoOne}
      BY <1>5 DEF Replies, Serving, TypeOK
    <3>. QED  BY <3>1 DEF Connections, Serves
  <2> HIDE DEF h
  <2>2. conn[h].answer = NoOne /\ conn[h].peer # "closed"
    BY <2>1 DEF Answers, Answered
  <2>3. /\ conn'[c].server = conn[c].server /\ conn'[c].creds = conn[c].creds
        /\ conn'[c].peer = conn[c].peer /\ (c # h => conn'[c] = conn[c])
    BY <1>5 DEF Replies, Connection, h
  <2>. QED  BY <2>2, <2>3
<1>6. ASSUME Release(r, "father") PROVE Goal
  BY <1>6, ReleaseTalks, ReleaseEnds DEF SameTalk
<1>7. CASE ChildEnds(r)
  <2>1. Release(r, "child")
    BY <1>7 DEF ChildEnds, ChildExit
  <2>2. ASSUME conn[c].peer = "closed" PROVE conn'[c].peer = "closed"
    <3>1. Served(c) /\ child[conn[c].server] = "exited"
      BY <2>2 DEF Answers, Answered
    <3>2. serving[r] = c => conn[c].server = r
      BY ConstantsAssumption DEF Connections, Serves
    <3>3. ~(serving[r] = c /\ child[r] \in {"passcred", "recvmsg"})
      BY <3>1, <3>2
    <3>. QED  BY <2>1, <2>2, <3>3, ReleaseEnds
  <2>. QED  BY <2>1, <2>2, ReleaseTalks DEF SameTalk
<1>8. CASE CloseServer(r) \/ Err(r) \/ KillFather(r)
  BY <1>6, <1>8 DEF CloseServer, Err, KillFather
<1>9. \/ UNCHANGED conn \/ (Connect(r) /\ ~UNCHANGED conn)
      \/ Send(r) \/ Read(r) \/ Replies(r)
      \/ Accept(r) \/ CloseServer(r) \/ Err(r) \/ KillFather(r) \/ ChildEnds(r)
  BY DEF Step, Options, Unlink, OpenServer, Approaches, Fork, ReadFails, Wait, WaitErr,
         Report, Proceeds, TargetDies, sockets
<1>. QED  BY <1>0, <1>1, <1>2, <1>3, <1>4, <1>5, <1>7, <1>8, <1>9

(* Only its father sends on a connection. *)
LEMMA SpeaksWhenSending ==
  ASSUME TypeOK, Connections, NEW r \in Run, Step(r), NEW c \in Run,
         conn[c].creds = NoOne, conn'[c].creds # NoOne
  PROVE  Send(r) /\ c = r
<1> conn \in [Run -> Connection]
  BY DEF TypeOK
<1>1. CASE Connect(r)
  <2>1. \/ UNCHANGED conn
        \/ conn' = [conn EXCEPT ![r] = [NoConnection EXCEPT
                      !.server = bound, !.client = "open", !.peer = "queued"]]
    BY <1>1 DEF Connect
  <2>2. UNCHANGED conn \/ conn'[r].creds = NoOne
    BY <2>1 DEF NoConnection
  <2>3. c # r => conn'[c] = conn[c]
    BY <2>1
  <2>. QED  BY <2>2, <2>3
<1>2. CASE Send(r)
  BY <1>2 DEF Send
<1>3. CASE Read(r)
  BY <1>3 DEF Read, Connection
<1>4. CASE Accept(r)
  BY <1>4, AcceptsOwn DEF Accept, Connection
<1>5. CASE Replies(r)
  BY <1>5 DEF Replies, Connection
<1>6. CASE CloseServer(r) \/ Err(r) \/ KillFather(r) \/ ChildEnds(r)
  <2>1. Release(r, "father") \/ Release(r, "child")
    BY <1>6 DEF CloseServer, Err, KillFather, ChildEnds, ChildExit
  <2>. QED  BY <2>1, ReleaseTalks DEF SameTalk
<1>7. CASE UNCHANGED conn
  BY <1>7
<1>. QED
  BY <1>1, <1>2, <1>3, <1>4, <1>5, <1>6, <1>7
     DEF Step, Options, Unlink, OpenServer, Approaches, Fork, ReadFails, Wait, WaitErr,
         Report, Proceeds, TargetDies, sockets

(* Only the child that serves a connection answers on it. *)
LEMMA SpeaksWhenReplying ==
  ASSUME TypeOK, Connections, NEW r \in Run, Step(r), NEW c \in Run,
         conn[c].answer = NoOne, conn'[c].answer # NoOne
  PROVE  Replies(r) /\ c = serving[r]
<1> conn \in [Run -> Connection]
  BY DEF TypeOK
<1>1. CASE Connect(r)
  <2>1. \/ UNCHANGED conn
        \/ conn' = [conn EXCEPT ![r] = [NoConnection EXCEPT
                      !.server = bound, !.client = "open", !.peer = "queued"]]
    BY <1>1 DEF Connect
  <2>2. UNCHANGED conn \/ conn'[r].answer = NoOne
    BY <2>1 DEF NoConnection
  <2>3. c # r => conn'[c] = conn[c]
    BY <2>1
  <2>. QED  BY <2>2, <2>3
<1>2. CASE Send(r)
  BY <1>2 DEF Send, Connection
<1>3. CASE Read(r)
  BY <1>3 DEF Read, Connection
<1>4. CASE Accept(r)
  BY <1>4, AcceptsOwn DEF Accept, Connection
<1>5. CASE Replies(r)
  BY <1>5 DEF Replies
<1>6. CASE CloseServer(r) \/ Err(r) \/ KillFather(r) \/ ChildEnds(r)
  <2>1. Release(r, "father") \/ Release(r, "child")
    BY <1>6 DEF CloseServer, Err, KillFather, ChildEnds, ChildExit
  <2>. QED  BY <2>1, ReleaseTalks DEF SameTalk
<1>7. CASE UNCHANGED conn
  BY <1>7
<1>. QED
  BY <1>1, <1>2, <1>3, <1>4, <1>5, <1>6, <1>7
     DEF Step, Options, Unlink, OpenServer, Approaches, Fork, ReadFails, Wait, WaitErr,
         Report, Proceeds, TargetDies, sockets

(* What went over a connection stays what it was made from. *)
LEMMA CredentialsKept ==
  ASSUME TypeOK, Processes, Connections, Answers, Credentials, NEW r \in Run, Step(r)
  PROVE  Credentials'
<1> conn \in [Run -> Connection] /\ entered \in [Run -> SUBSET {"pid", "user"}]
  BY DEF TypeOK
<1>1. UNCHANGED <<mask, arg>>
  BY DEF Step, Options, Unlink, OpenServer, Approaches, Fork, CloseServer, Connect, Send, Read,
         ReadFails, Wait, Err, WaitErr, Report, Accept, Proceeds, Replies, ChildEnds,
         TargetDies, KillFather, setup
<1>2. ASSUME NEW s \in Run, father[s] \notin BeforeFork PROVE entered'[s] = entered[s]
  BY <1>2 DEF Step, Options, Unlink, OpenServer, Approaches, Fork, CloseServer, Connect, Send,
         Read, ReadFails, Wait, Err, WaitErr, Report, Accept, Proceeds, Replies, ChildEnds,
         TargetDies, KillFather
<1>3. SUFFICES ASSUME NEW c \in Run
               PROVE  /\ conn'[c].creds # NoOne =>
                           \A k \in mask[c] : conn'[c].creds[k] = Denotes(c, k, arg[c][k])'
                      /\ conn'[c].answer # NoOne =>
                           \A k \in IdKind : conn'[c].answer[k]
                             = Shows(conn[c].server, k, conn[c].creds[k])'
  BY <1>1 DEF Credentials
<1>4. ASSUME conn'[c].creds # NoOne, NEW k \in mask[c]
      PROVE  conn'[c].creds[k] = Denotes(c, k, arg[c][k])'
  <2>1. CASE conn[c].creds # NoOne
    <3>1. conn'[c].creds[k] = Denotes(c, k, arg[c][k])
      BY <2>1, SaidStays DEF Credentials
    <3>2. entered'[c] = entered[c]
      BY <1>2, <2>1 DEF Connections, Unconnected, NoConnection
    <3>. QED  BY <1>1, <3>1, <3>2 DEF Denotes
  <2>2. CASE conn[c].creds = NoOne
    <3>1. Send(r) /\ c = r
      BY <1>4, <2>2, SpeaksWhenSending
    <3>2. /\ conn' = [conn EXCEPT ![r].creds = [j \in IdKind |->
                        IF j \in mask[r] THEN Denotes(r, j, arg[r][j]) ELSE Overflow]]
          /\ UNCHANGED entered
      BY <1>4, <2>2, <3>1 DEF Send
    <3>3. k \in IdKind
      BY DEF TypeOK
    <3>4. conn'[r].creds[k] = Denotes(r, k, arg[r][k])
      BY <3>1, <3>2, <3>3 DEF Connection
    <3>. QED  BY <1>1, <3>1, <3>2, <3>4 DEF Denotes
  <2>. QED  BY <2>1, <2>2
<1>5. ASSUME conn'[c].answer # NoOne, NEW k \in IdKind
      PROVE  conn'[c].answer[k] = Shows(conn[c].server, k, conn[c].creds[k])'
  <2>1. CASE conn[c].answer # NoOne
    <3>1. conn[c].server \in Run /\ conn[c].creds # NoOne
          /\ father[conn[c].server] \notin BeforeFork
      BY <2>1 DEF Answers, Answered, Served, Processes, Connection
    <3>2. /\ conn'[c].server = conn[c].server /\ conn'[c].creds = conn[c].creds
          /\ conn'[c].answer = conn[c].answer
      BY <2>1, <3>1, SaidStays, ConstantsAssumption
    <3>3. entered'[conn[c].server] = entered[conn[c].server]
      BY <1>2, <3>1
    <3>4. conn[c].answer[k] = Shows(conn[c].server, k, conn[c].creds[k])
      BY <2>1 DEF Credentials
    <3>. QED  BY <3>2, <3>3, <3>4 DEF Shows
  <2>2. CASE conn[c].answer = NoOne
    <3>1. Replies(r) /\ c = serving[r]
      BY <1>5, <2>2, SpeaksWhenReplying
    <3>2. conn[c].server = r
      BY <3>1 DEF Replies, Connections, Serves, Serving
    <3>3. /\ conn' = [conn EXCEPT ![c].answer =
                        [j \in IdKind |-> Shows(r, j, conn[c].creds[j])]]
          /\ UNCHANGED entered
      BY <3>1 DEF Replies
    <3>4. /\ conn'[c].answer[k] = Shows(r, k, conn[c].creds[k])
          /\ conn'[c].server = r /\ conn'[c].creds = conn[c].creds
      BY <3>2, <3>3 DEF Connection
    <3>. QED  BY <3>3, <3>4 DEF Shows
  <2>. QED  BY <2>1, <2>2
<1>. QED  BY <1>4, <1>5, <1>1


(* Only a read() that was not reset leads to a return code of 0, and then only the
   status of the child is looked at. *)
LEMMA HowPassed ==
  ASSUME TypeOK, Processes, NEW r \in Run, Step(r), NEW q \in Run, Passed(q)'
  PROVE  Passed(q) \/ (q = r /\ Read(r) /\ father'[r] = "wait")
<1> /\ father \in [Run -> FatherPc] /\ rc \in [Run -> {-1, 0, 1}]
    /\ exit \in [Run -> {"none", "ok", "error", "killed"}]
  BY DEF TypeOK
<1>1. father[q] = "exited" <=> exit[q] # "none"
  BY DEF Processes
<1> USE DEF Passed, Success, Exited, FatherTo
<1>2. CASE father'[q] = father[q] /\ rc'[q] = rc[q] /\ exit'[q] = exit[q]
  BY <1>2
<1>3. CASE q = r
  <2>1. CASE Options(r) \/ Unlink(r) \/ OpenServer(r) \/ Fork(r)
    BY <1>1, <1>3, <2>1 DEF Options, Unlink, OpenServer, Fork
  <2>2. CASE Approaches(r)
    BY <1>1, <1>3, <2>2 DEF Approaches, BeforeFork
  <2>3. CASE CloseServer(r) \/ Connect(r) \/ Send(r) \/ ReadFails(r)
    BY <1>1, <1>3, <2>3 DEF CloseServer, Connect, Send, ReadFails, Fail
  <2>4. CASE Read(r)
    BY <1>1, <1>3, <2>4 DEF Read, Fail
  <2>5. CASE Wait(r) \/ Err(r) \/ WaitErr(r)
    BY <1>1, <1>3, <2>5 DEF Wait, Err, WaitErr
  <2>6. CASE Report(r) \/ KillFather(r)
    BY <1>1, <1>3, <2>6 DEF Report, KillFather
  <2>7. CASE UNCHANGED <<father, rc, exit>>
    BY <1>2, <2>7
  <2>. QED
    BY <2>1, <2>2, <2>3, <2>4, <2>5, <2>6, <2>7
       DEF Step, Accept, Proceeds, Replies, ChildEnds, TargetDies
<1>4. CASE q # r
  BY <1>2, <1>4
     DEF Step, Options, Unlink, OpenServer, Approaches, Fork, CloseServer, Connect, Send, Read,
         ReadFails, Wait, Err, WaitErr, Report, Accept, Proceeds, Replies, ChildEnds,
         TargetDies, KillFather, Fail
<1>. QED  BY <1>3, <1>4

(* Who passed read() keeps its answer, or its end of file. *)
LEMMA ReadingsKept ==
  ASSUME TypeOK, Processes, Connections, Answers, Readings, NEW r \in Run, Step(r)
  PROVE  Readings'
<1> /\ ids \in [Run -> Message] /\ father \in [Run -> FatherPc] /\ conn \in [Run -> Connection]
    /\ cstatus \in [Run -> {"none", "ok", "error", "killed"}] /\ rc \in [Run -> {-1, 0, 1}]
  BY DEF TypeOK
<1>1. SUFFICES ASSUME NEW q \in Run, Passed(q)'
               PROVE  /\ conn'[q].answer # NoOne => ids'[q] = conn'[q].answer
                      /\ conn'[q].answer = NoOne => conn'[q].peer = "closed"
                      /\ father'[q] # "wait" => cstatus'[q] = "ok"
  BY DEF Readings
<1>2. CASE Passed(q)
  <2>1. ids'[q] = ids[q]
    <3>1. ~(q = r /\ father[r] = "read")
      BY <1>2 DEF Passed, Success, Exited
    <3>. QED
      BY <3>1
         DEF Step, Options, Unlink, OpenServer, Approaches, Fork, CloseServer, Connect, Send,
            Read,
         ReadFails, Wait, Err, WaitErr, Report, Accept, Proceeds, Replies, ChildEnds,
         TargetDies, KillFather, sockets
  <2>2. /\ conn[q].answer # NoOne => ids[q] = conn[q].answer
        /\ conn[q].answer = NoOne => conn[q].peer = "closed"
        /\ father[q] # "wait" => cstatus[q] = "ok"
    BY <1>2 DEF Readings
  <2>3. ASSUME father'[q] # "wait" PROVE cstatus'[q] = "ok"
    <3>1. CASE father[q] = "wait"
      <4>1. Wait(q) \/ KillFather(q)
        BY <2>3, <3>1
           DEF Step, Options, Unlink, OpenServer, Approaches, Fork, CloseServer, Connect,
              Send, Read,
         ReadFails, Wait, Err, WaitErr, Report, Accept, Proceeds, Replies, ChildEnds,
         TargetDies, KillFather, FatherTo, BeforeFork, Fail
      <4>2. CASE Wait(q)
        BY <1>1, <4>2 DEF Wait, Passed, Success, Exited, FatherTo
      <4>3. CASE KillFather(q)
        <5>1. exit'[q] = "killed" /\ father'[q] = "exited"
          <6> exit \in [Run -> {"none", "ok", "error", "killed"}]
            BY DEF TypeOK
          <6>. QED  BY <4>3 DEF KillFather, FatherTo
        <5>. QED  BY <1>1, <5>1 DEF Passed, Success
      <4>. QED  BY <4>1, <4>2, <4>3
    <3>2. CASE father[q] # "wait"
      <4>1. cstatus[q] = "ok" /\ child[q] = "exited"
        BY <2>2, <3>2 DEF Answers, Ended
      <4>2. ChildEnds(r) => q # r
        BY <4>1 DEF ChildEnds, Running
      <4>. QED
        BY <4>1, <4>2
           DEF Step, Options, Unlink, OpenServer, Approaches, Fork, CloseServer, Connect,
              Send, Read,
         ReadFails, Wait, Err, WaitErr, Report, Accept, Proceeds, Replies, ChildEnds,
         TargetDies, KillFather, ChildExit
    <3>. QED  BY <3>1, <3>2
  <2>. QED  BY <2>1, <2>2, <2>3, SaidStays
<1>3. CASE q = r /\ Read(r) /\ father'[r] = "wait"
  <2>1. \/ conn[r].answer # NoOne /\ ids'[r] = conn[r].answer
        \/ conn[r].answer = NoOne /\ conn[r].peer = "closed"
    BY <1>3 DEF Read, Fail, FatherTo
  <2>2. conn'[r].answer = conn[r].answer /\ conn'[r].peer = conn[r].peer
    BY <1>3 DEF Read, Connection
  <2>. QED  BY <1>3, <2>1, <2>2
<1>. QED  BY <1>1, <1>2, <1>3, HowPassed

-----------------------------------------------------------------------------
(* The theorems                                                             *)

(* The programs start with nothing open and nothing said. *)
LEMMA InitOK ==
  ASSUME Init PROVE IdsInv
<1> USE ConstantsAssumption DEF Init
<1>1. TypeOK
  <2>1. conn \in [Run -> Connection]
    BY DEF NoConnection, Connection
  <2>2. queue \in [Run -> Seq(Run)]
    OBVIOUS
  <2>. QED  BY <2>1, <2>2 DEF TypeOK, FatherPc, ChildPc
<1>2. Processes
  BY DEF Processes, BeforeFork, AfterFork, Running, Left
<1>3. Listening
  BY DEF Listening, BeforeFork, Running, Left
<1>4. Connections
  BY DEF Connections, Unconnected, Queues, Serves, Serving
<1>5. Answers
  BY DEF Answers, Unsent, Answered, Ended, NoConnection
<1>6. Readings
  BY DEF Readings, Passed, Success, Exited
<1>7. Credentials
  BY DEF Credentials, NoConnection
<1>. QED  BY <1>1, <1>2, <1>3, <1>4, <1>5, <1>6, <1>7 DEF IdsInv

(* A step that changes nothing keeps everything. *)
LEMMA Stutter ==
  ASSUME IdsInv, UNCHANGED vars PROVE IdsInv'
<1> USE DEF vars, setup, sockets
<1>1. TypeOK' /\ Processes' /\ Listening'
  BY DEF IdsInv, TypeOK, Processes, Listening, Running, Left
<1>2. Connections' /\ Answers'
  BY DEF IdsInv, Connections, Unconnected, Queues, Serves, Answers, Unsent, Answered, Ended,
         Served
<1>3. Readings' /\ Credentials'
  BY DEF IdsInv, Readings, Passed, Success, Exited, Credentials, Denotes, Shows
<1>. QED  BY <1>1, <1>2, <1>3 DEF IdsInv

(* Every step keeps the invariant. *)
LEMMA IdsInvKept ==
  ASSUME IdsInv, [Next]_vars PROVE IdsInv'
<1>1. ASSUME NEW r \in Run, Step(r) PROVE IdsInv'
  <2> TypeOK /\ Processes /\ Listening /\ Connections /\ Answers /\ Readings /\ Credentials
    BY DEF IdsInv
  <2>1. TypeOK' /\ Processes' /\ Listening'
    BY <1>1, TypeKept, ProcessesKept, ListeningKept
  <2>2. Connections'
    BY <1>1, ServesKept, QueuesKept DEF Connections
  <2>3. Answers' /\ Readings' /\ Credentials'
    BY <1>1, AnswersKept, ReadingsKept, CredentialsKept
  <2>. QED  BY <2>1, <2>2, <2>3 DEF IdsInv
<1>. QED  BY <1>1, Steps, Stutter DEF IdsInv

(* The invariant of the sockets: who exists and listens, who serves whom, and what
   went over the connections (getnsids.c:436-679). *)
THEOREM IdsInvariant == Spec => []IdsInv
<1>. QED  BY InitOK, IdsInvKept, PTL DEF Spec

(* The variables keep to their types: an answer is always made from ids the child
   was really sent (getnsids.c:341-388). *)
THEOREM TypeCorrect == Spec => []TypeOK
<1>1. IdsInv => TypeOK
  BY DEF IdsInv
<1>. QED  BY <1>1, IdsInvariant, PTL

(* A program that was not killed leaves no child and no open socket, and the socket
   name only when listen() failed behind bind() (getnsids.c:465, 653-679). *)
THEOREM NothingLeftHolds == Spec => []NothingLeft
<1>1. IdsInv => NothingLeft
  <2> SUFFICES ASSUME IdsInv, NEW r \in Run, Exited(r), exit[r] # "killed"
               PROVE  /\ child[r] \in {"none", "exited"} /\ listeners[r] = {}
                      /\ bound = r => child[r] = "none" /\ rc[r] = -1
    BY DEF NothingLeft
  <2>1. ~Running(r) /\ "child" \notin listeners[r] /\ "father" \notin listeners[r]
    BY DEF IdsInv, Processes, Listening, Exited, Left, BeforeFork
  <2>2. listeners[r] \in SUBSET {"father", "child"}
    BY DEF IdsInv, TypeOK
  <2>3. bound = r => child[r] = "none" /\ rc[r] = -1
    BY DEF IdsInv, Listening, Exited, Left
  <2>. QED  BY <2>1, <2>2, <2>3 DEF Running
<1>. QED  BY <1>1, IdsInvariant, PTL

(* Who returns 0 has its own child's exit status 0, and the answer of that child when
   it was connected to it. *)
LEMMA AnsweredByOwnChild ==
  ASSUME IdsInv, NEW r \in Run, Passed(r), father[r] # "wait"
  PROVE  cstatus[r] = "ok" /\ (conn[r].server = r => conn[r].answer # NoOne)
<1>1. cstatus[r] = "ok" /\ (conn[r].answer = NoOne => conn[r].peer = "closed")
  BY DEF IdsInv, Readings
<1>2. serving[r] # NoOne /\ conn[serving[r]].answer # NoOne
  BY <1>1 DEF IdsInv, Answers, Ended
<1>3. ASSUME conn[r].server = r, conn[r].answer = NoOne PROVE FALSE
  <2>1. Served(r)
    BY <1>1, <1>3 DEF IdsInv, Answers, Answered
  <2>. QED  BY <1>2, <1>3, <2>1 DEF Served
<1>. QED  BY <1>1, <1>3

(* What is printed after a return code of 0 is the answer of a child that went through
   all of child_getids(), as long as the connection was to one's own child: a father
   connected to another program may have read end of file (getnsids.c:598-647). *)
THEOREM SuccessMeansAnswerHolds == Spec => []SuccessMeansAnswer
<1>1. IdsInv => SuccessMeansAnswer
  BY AnsweredByOwnChild DEF SuccessMeansAnswer, Passed, Success, Exited
<1>. QED  BY <1>1, IdsInvariant, PTL

-----------------------------------------------------------------------------
(* The pid                                                                  *)

(* What Entered says of one program *)
EnteredBy(r) ==
  /\ father[r] \in {"options", "unlink", "server", "cmppid", "openpid", "setpid"}
       => "pid" \notin entered[r]
  /\ father[r] \in {"openpid", "setpid"} => "pid" \in differs[r]
  /\ Compared(r) => ("pid" \in entered[r] <=> "pid" \in differs[r])

(* A comparison, an open() or a setns() leaves the father where it should be. *)
LEMMA EntersRightly ==
  ASSUME "stat" \notin Faults, TypeOK, NEW r \in Run, "pid" \in mask[r], target[r],
         EnteredBy(r), Approaches(r)
  PROVE  EnteredBy(r)'
<1> /\ father \in [Run -> FatherPc] /\ entered \in [Run -> SUBSET {"pid", "user"}]
    /\ rc \in [Run -> {-1, 0, 1}] /\ "pid" \in IdKind
  BY DEF TypeOK, IdKind
<1> UNCHANGED <<mask, differs, target>>
  BY DEF Approaches, setup
<1> DEFINE Before == {"options", "unlink", "server", "cmppid", "openpid", "setpid"}
           After  == {"cmpuser", "openuser", "setuser", "fork"}
<1>1. ASSUME father'[r] = "err", rc'[r] = 1 PROVE EnteredBy(r)'
  BY <1>1 DEF EnteredBy, Compared, AfterFork, Passed, Success, Exited
<1>2. ASSUME father'[r] \in After, "pid" \in entered'[r] <=> "pid" \in differs[r]
      PROVE  EnteredBy(r)'
  BY <1>2 DEF EnteredBy
<1>3. ASSUME father'[r] \in {"openpid", "setpid"}, "pid" \in differs[r],
      "pid" \notin entered'[r]
      PROVE  EnteredBy(r)'
  BY <1>3 DEF EnteredBy, Compared, AfterFork, Passed, Success, Exited
<1>4. father[r] \in After => ("pid" \in entered[r] <=> "pid" \in differs[r])
  BY DEF EnteredBy, Compared
<1>5. CASE Compare(r, "cmppid", "pid", "openpid", "cmpuser")
  <2>1. \/ "pid" \in differs[r] /\ father'[r] = "openpid"
        \/ "pid" \notin differs[r] /\ father'[r] = "cmpuser"
    BY <1>5 DEF Compare, CmpNs, MayFail, FatherTo
  <2>2. entered'[r] = entered[r] /\ "pid" \notin entered[r]
    BY <1>5 DEF Compare, EnteredBy
  <2>. QED  BY <1>2, <1>3, <2>1, <2>2
<1>6. CASE NotAsked(r, "cmppid", "pid", "cmpuser")
  BY <1>6 DEF NotAsked, SpaceOf
<1>7. CASE OpenNs(r, "openpid", "setpid")
  BY <1>1, <1>3, <1>7 DEF OpenNs, FatherTo, EnteredBy
<1>8. CASE SetNs(r, "setpid", "pid", "cmpuser")
  <2>1. "pid" \in differs[r]
    BY <1>8 DEF SetNs, EnteredBy
  <2>2. \/ father'[r] = "cmpuser" /\ "pid" \in entered'[r]
        \/ father'[r] = "err" /\ rc'[r] = 1
    BY <1>8 DEF SetNs, FatherTo
  <2>. QED  BY <1>1, <1>2, <2>1, <2>2
<1>9. CASE Compare(r, "cmpuser", "user", "openuser", "fork")
  BY <1>2, <1>4, <1>9 DEF Compare, FatherTo
<1>10. CASE NotAsked(r, "cmpuser", "user", "fork")
  BY <1>2, <1>4, <1>10 DEF NotAsked, FatherTo
<1>11. CASE OpenNs(r, "openuser", "setuser")
  BY <1>1, <1>2, <1>4, <1>11 DEF OpenNs, FatherTo
<1>12. CASE SetNs(r, "setuser", "user", "fork")
  <2>1. \/ father'[r] = "fork" /\ ("pid" \in entered'[r] <=> "pid" \in entered[r])
        \/ father'[r] = "err" /\ rc'[r] = 1
    BY <1>12 DEF SetNs, FatherTo
  <2>2. father[r] = "setuser"
    BY <1>12 DEF SetNs
  <2>. QED  BY <1>1, <1>2, <1>4, <2>1, <2>2
<1>. QED
  BY <1>5, <1>6, <1>7, <1>8, <1>9, <1>10, <1>11, <1>12 DEF Approaches, EnterNamespaces

(* Comparing and entering the pid namespace happens before fork(), once. *)
LEMMA EnteredKept ==
  ASSUME "stat" \notin Faults, TypeOK, Processes, Entered, NEW r \in Run, Step(r)
  PROVE  Entered'
<1> /\ father \in [Run -> FatherPc] /\ entered \in [Run -> SUBSET {"pid", "user"}]
    /\ target \in [Run -> BOOLEAN]
  BY DEF TypeOK
<1>1. UNCHANGED <<mask, differs>> /\ \A q \in Run : target'[q] => target[q]
  BY DEF Step, Options, Unlink, OpenServer, Approaches, Fork, CloseServer, Connect, Send, Read,
         ReadFails, Wait, Err, WaitErr, Report, Accept, Proceeds, Replies, ChildEnds,
         TargetDies, KillFather, setup
<1>2. SUFFICES ASSUME NEW q \in Run, "pid" \in mask[q], target[q] PROVE EnteredBy(q)'
  BY <1>1 DEF Entered, EnteredBy
<1>3. EnteredBy(q)
  BY <1>2 DEF Entered, EnteredBy
<1>4. CASE q = r /\ Approaches(r)
  BY <1>2, <1>3, <1>4, EntersRightly
<1>5. CASE ~(q = r /\ Approaches(r))
  <2>1. entered'[q] = entered[q]
    BY <1>5 DEF Step, Options, Unlink, OpenServer, Approaches, Fork, CloseServer, Connect,
       Send, Read,
         ReadFails, Wait, Err, WaitErr, Report, Accept, Proceeds, Replies, ChildEnds,
         TargetDies, KillFather
  <2>2. father'[q] \in {"options", "unlink", "server", "cmppid", "openpid", "setpid"} =>
          father[q] \in {"options", "unlink", "server", "cmppid", "openpid", "setpid"}
    BY <1>5 DEF Step, Options, Unlink, OpenServer, Approaches, Fork, CloseServer, Connect,
       Send, Read,
         ReadFails, Wait, Err, WaitErr, Report, Accept, Proceeds, Replies, ChildEnds,
         TargetDies, KillFather, FatherTo, Fail
  <2>3. father'[q] \in {"openpid", "setpid"} => father[q] \in {"openpid", "setpid"}
    BY <1>5 DEF Step, Options, Unlink, OpenServer, Approaches, Fork, CloseServer, Connect,
       Send, Read,
         ReadFails, Wait, Err, WaitErr, Report, Accept, Proceeds, Replies, ChildEnds,
         TargetDies, KillFather, FatherTo, Fail
  <2>4. ASSUME Compared(q)' PROVE Compared(q)
    <3>1. CASE Passed(q)'
      BY <3>1, HowPassed DEF Compared, Read, AfterFork
    <3>2. CASE father'[q] \in {"cmpuser", "openuser", "setuser", "fork"} \cup AfterFork
      <4>1. father[q] \in {"cmpuser", "openuser", "setuser", "fork"} \cup AfterFork
        BY <1>5, <3>2 DEF Step, Options, Unlink, OpenServer, Approaches, Fork, CloseServer,
           Connect, Send, Read,
         ReadFails, Wait, Err, WaitErr, Report, Accept, Proceeds, Replies, ChildEnds,
         TargetDies, KillFather, FatherTo, Fail, AfterFork
      <4>. QED  BY <4>1 DEF Compared
    <3>. QED  BY <2>4, <3>1, <3>2 DEF Compared
  <2>. QED  BY <1>1, <1>3, <2>1, <2>2, <2>3, <2>4 DEF EnteredBy
<1>. QED  BY <1>4, <1>5

(* Without failing stat() calls, every father that wants a pid is where it should be. *)
LEMMA EnteredHolds == ASSUME "stat" \notin Faults PROVE Spec => []Entered
<1>1. Init => Entered
  BY DEF Init, Entered, Compared, AfterFork, Passed, Success, Exited
<1>2. IdsInv /\ Entered /\ [Next]_vars => Entered'
  <2>1. ASSUME IdsInv, Entered, NEW r \in Run, Step(r) PROVE Entered'
    BY <2>1, EnteredKept DEF IdsInv
  <2>2. ASSUME Entered, UNCHANGED vars PROVE Entered'
    BY <2>2 DEF Entered, Compared, Passed, Success, Exited, vars, setup
  <2>. QED  BY <2>1, <2>2, Steps DEF IdsInv
<1>. QED  BY <1>1, <1>2, IdsInvariant, PTL DEF Spec

(* A father connected to its own child prints the pid as its target sees it. *)
LEMMA OwnChildTranslates ==
  ASSUME IdsInv, Entered, NEW r \in Run, Success(r), rc[r] = 0, target[r], "pid" \in mask[r],
         conn[r].server = r
  PROVE  ids[r]["pid"] = Translated(r, "pid")
<1>1. Passed(r) /\ father[r] # "wait"
  BY DEF Passed, Success, Exited
<1>2. conn[r].answer # NoOne /\ ids[r] = conn[r].answer
  BY <1>1, AnsweredByOwnChild DEF IdsInv, Readings
<1>3. "pid" \in IdKind /\ conn[r].creds # NoOne
  BY <1>2 DEF IdKind, IdsInv, Answers, Answered
<1>4. conn[r].creds["pid"] = arg[r]["pid"]
  BY <1>3 DEF IdsInv, Credentials, Denotes
<1>5. conn[r].answer["pid"] = Shows(r, "pid", arg[r]["pid"])
  BY <1>2, <1>3, <1>4 DEF IdsInv, Credentials
<1>6. "pid" \in entered[r] <=> "pid" \in differs[r]
  BY <1>1 DEF Entered, Compared
<1>. QED  BY <1>2, <1>5, <1>6 DEF Shows, Translated, SpaceOf

(* A program that is alone on its socket name and returns 0 has the pid as the target
   sees it, whatever else fails and whoever is killed, as long as stat() works and the
   target lives: cmp_ns() takes a failed comparison for one namespace
   (getnsids.c:473, util.c:80-120). *)
THEOREM PidTranslatedHolds ==
  ASSUME "stat" \notin Faults, \A r, s \in Run : r = s
  PROVE  Spec => []PidTranslated
<1>1. IdsInv /\ Entered => PidTranslated
  <2> SUFFICES ASSUME IdsInv, Entered, NEW r \in Run, Success(r), rc[r] = 0, target[r],
                      "pid" \in mask[r]
               PROVE  ids[r]["pid"] = Translated(r, "pid")
    BY DEF PidTranslated
  <2>1. Passed(r)
    BY DEF Passed
  <2>2. conn[r].server # NoOne /\ conn[r].server \in Run \cup {NoOne}
    BY <2>1 DEF IdsInv, Readings, Answers, Answered, Served, TypeOK, Connection
  <2>. QED  BY <2>2, OwnChildTranslates
<1>. QED  BY <1>1, EnteredHolds, IdsInvariant, PTL

(* With any number of programs on the socket name, the same is true of each one whose
   connection went to its own child (getnsids.c:573-647). *)
THEOREM OwnPidTranslated ==
  ASSUME "stat" \notin Faults
  PROVE  Spec => [](\A r \in Run :
                      Success(r) /\ rc[r] = 0 /\ target[r] /\ "pid" \in mask[r]
                        /\ conn[r].server = r => ids[r]["pid"] = Translated(r, "pid"))
<1>1. IdsInv /\ Entered =>
        \A r \in Run : Success(r) /\ rc[r] = 0 /\ target[r] /\ "pid" \in mask[r]
                         /\ conn[r].server = r => ids[r]["pid"] = Translated(r, "pid")
  BY OwnChildTranslates
<1>. QED  BY <1>1, EnteredHolds, IdsInvariant, PTL

=============================================================================
