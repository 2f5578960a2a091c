----------------------------- MODULE ProdconsNs -----------------------------
(***************************************************************************)
(* prodcons.c, prodcons2.c and prodcons3.c: a producer sends dates to the  *)
(* consumers through a System V memory segment, a System V message queue   *)
(* or a POSIX message queue.  The producer may leave the IPC namespace in  *)
(* which the object has its name, removes the object in its SIGINT         *)
(* handler, and removes what a previous producer left when it starts.      *)
(*                                                                         *)
(* A producer creates at most one object, which is called by the producer. *)
(***************************************************************************)
EXTENDS Integers, Sequences, Functions

CONSTANTS
  Kinds,      \* what carries the dates: "shm", "msgq" or "mq"
  Producers, Consumers,
  Users,      \* for each kind, the processes that may be started (bounds the model)
  LastDate,   \* the number of dates (bounds the model)
  MsgqSize,   \* how many messages fit in a System V message queue
  Interrupted, Killable,  \* the processes that may get a SIGINT, a SIGKILL
  None        \* -1, no object

Proc == Producers \cup Consumers

ASSUME ConstantsAssumption ==
  /\ Kinds \subseteq {"shm", "msgq", "mq"}
  /\ Producers \cap Consumers = {} /\ None \notin Proc
  /\ Users \in [Kinds -> SUBSET Proc]
  /\ LastDate \in Nat /\ MsgqSize \in Nat \ {0}
  /\ Interrupted \subseteq Proc /\ Killable \subseteq Proc

VARIABLES
  kind,     \* which of the three programs it is
  alone,    \* a producer is only started when no other one runs
  pc,       \* where each process is; "idle" before it is started
  status,   \* how each process ended
  id,       \* the static idm or idq of each process
  mapped,   \* the processes that have a segment attached (pShm)
  found,    \* what a new producer has found to remove
  away,     \* the producers in an IPC namespace of their own
  name,     \* the object under the key or name
  removed,  \* the System V objects that were removed
  sem,      \* the semaphore in each segment, 0 before sem_init()
  inside,   \* the processes between P() and V()
  clock,    \* the last date
  chan,     \* the dates in each object
  msg,      \* the date each consumer has received and not displayed, 0 if none
  shown     \* the dates each consumer has displayed

input   == <<kind, alone>>
objects == <<name, removed, sem, chan>>
output  == <<msg, shown>>
vars    == <<input, pc, status, id, mapped, found, away, objects, inside, clock, output>>

Pc == {"idle", "find", "remove", "create", "assign", "attach", "init", "reset", "prompt", "send",
       "write", "get", "recv", "print", "look", "clear", "V", "handler", "exited"}

(* The statics of the programs (prodcons.c:36-37) and the kernel's objects keep
   to their types. *)
TypeOK ==
  /\ pc \in [Proc -> Pc]
  /\ status \in [Proc -> {"none", "ok", "error", "handler_error", "killed"}]
  /\ id \in [Proc -> Producers \cup {None}]
  /\ found \in [Producers -> Producers \cup {None}]
  /\ away \subseteq Producers /\ removed \subseteq Producers
  /\ name \in Producers \cup {None}
  /\ sem \in [Producers -> 0..1]
  /\ inside \subseteq Proc /\ mapped \subseteq Proc
  /\ clock \in 0..LastDate
  /\ chan \in [Producers -> Seq(1..LastDate)]
  /\ msg \in [Consumers -> 0..LastDate]
  /\ shown \in [Consumers -> Seq(1..LastDate)]

Init ==
  /\ kind \in Kinds
  /\ alone \in BOOLEAN
  /\ pc = [p \in Proc |-> "idle"]
  /\ status = [p \in Proc |-> "none"]
  /\ id = [p \in Proc |-> None]
  /\ found = [p \in Producers |-> None]
  /\ away = {} /\ inside = {} /\ mapped = {} /\ removed = {}
  /\ name = None
  /\ sem = [s \in Producers |-> 0]
  /\ clock = 0
  /\ chan = [s \in Producers |-> <<>>]
  /\ msg = [c \in Consumers |-> 0]
  /\ shown = [c \in Consumers |-> <<>>]

-----------------------------------------------------------------------------
Alive(p) == pc[p] \notin {"idle", "exited"}

At(p, l) == pc[p] = l

Goto(p, l) == pc' = [pc EXCEPT ![p] = l] /\ UNCHANGED status

Exit(p, s) ==
  /\ pc' = [pc EXCEPT ![p] = "exited"]
  /\ status' = [status EXCEPT ![p] = s]

(* A step that only moves its process *)
Move(p, from, to) ==
  /\ At(p, from)
  /\ Goto(p, to)
  /\ UNCHANGED <<input, id, mapped, found, away, objects, inside, clock, output>>

Fail(p) ==
  /\ Exit(p, "error")
  /\ UNCHANGED <<input, id, mapped, found, away, objects, inside, clock, output>>

Start(p) ==
  /\ p \in Users[kind]
  /\ alone /\ p \in Producers => \A q \in Producers : ~Alive(q)
  /\ Move(p, "idle", IF p \in Producers THEN "find" ELSE "get")

(* A System V object goes: nobody finds it any more, and the messages of a
   queue are lost. *)
SysvRemove(s) ==
  /\ removed' = removed \cup {s}
  /\ name' = IF name = s THEN None ELSE name
  /\ chan' = IF kind = "msgq" THEN [chan EXCEPT ![s] = <<>>] ELSE chan

(* A System V object that was removed has no identifier, but a segment keeps
   its own while somebody else has it attached. *)
Gone(p, s) ==
  /\ s \in removed
  /\ kind = "shm" => \A q \in mapped \ {p} : id[q] # s \/ ~Alive(q)

-----------------------------------------------------------------------------
(* The producer before its loop                                             *)

(* shmget(), msgget() of any object under the key *)
Find(p) ==
  /\ p \in Producers /\ At(p, "find") /\ kind # "mq"
  /\ found' = [found EXCEPT ![p] = name]
  /\ Goto(p, IF name = None THEN "create" ELSE "remove")
  /\ UNCHANGED <<input, id, mapped, away, objects, inside, clock, output>>

(* Mutant: what was there before stays. *)
RemoveFound_No(p) == Move(p, "remove", "create")

(* shmctl(), msgctl(): nobody looks at the result. *)
RemoveFound(p) ==
  /\ At(p, "remove")
  /\ SysvRemove(found[p])
  /\ found' = [found EXCEPT ![p] = None]
  /\ Goto(p, "create")
  /\ UNCHANGED <<input, id, mapped, away, sem, inside, clock, output>>

(* mq_unlink(): a queue without a name is still good for those who have it. *)
MqUnlink(p) ==
  /\ p \in Producers /\ At(p, "find") /\ kind = "mq"
  /\ name' = None
  /\ Goto(p, "create")
  /\ UNCHANGED <<input, id, mapped, found, away, removed, sem, chan, inside, clock, output>>

(* With IPC_EXCL or O_EXCL.  The identifier is assigned in the next step. *)
Create(p) ==
  /\ At(p, "create")
  /\ \/ /\ name = None
        /\ name' = p
        /\ Goto(p, "assign")
        /\ UNCHANGED <<input, id, mapped, found, away, removed, sem, chan, inside, clock, output>>
     \/ name # None /\ Fail(p)

Assign(p) ==
  /\ At(p, "assign")
  /\ id' = [id EXCEPT ![p] = p]
  /\ Goto(p, IF kind = "shm" THEN "attach" ELSE "prompt")
  /\ UNCHANGED <<input, mapped, found, away, objects, inside, clock, output>>

(* shmat() of the producer or of a consumer *)
Attach(p) ==
  /\ At(p, "attach")
  /\ \/ /\ ~Gone(p, id[p])
        /\ mapped' = mapped \cup {p}
        /\ Goto(p, IF p \in Producers THEN "init" ELSE "recv")
        /\ UNCHANGED <<input, id, found, away, objects, inside, clock, output>>
     \/ Gone(p, id[p]) /\ Fail(p)

(* sem_init(), in a segment that consumers may have found already *)
SemInit(p) ==
  /\ At(p, "init")
  /\ sem' = [sem EXCEPT ![p] = 1]
  /\ Goto(p, "reset")
  /\ UNCHANGED <<input, id, mapped, found, away, name, removed, chan, inside, clock, output>>

(* memset() of the data zone, without the semaphore *)
Reset(p) ==
  /\ At(p, "reset")
  /\ chan' = [chan EXCEPT ![p] = <<>>]
  /\ Goto(p, "prompt")
  /\ UNCHANGED <<input, id, mapped, found, away, name, removed, sem, inside, clock, output>>

-----------------------------------------------------------------------------
(* The loop of the producer                                                 *)

(* "Unshare ?" until the user says yes, then "Update time ?".  A getanswer()
   without an answer, and a no to the second question, stay here. *)
Prompt(p) ==
  /\ At(p, "prompt")
  /\ away' \in {away, away \cup {p}}
  /\ Goto(p, "send")
  /\ UNCHANGED <<input, id, mapped, found, objects, inside, clock, output>>

UnshareFails(p) == At(p, "prompt") /\ p \notin away /\ Fail(p)

(* Mutant: sem_trywait(), and on as if it had succeeded. *)
P_Try(p, from, to) ==
  /\ kind = "shm" /\ At(p, from)
  /\ sem' = [sem EXCEPT ![id[p]] = IF @ > 0 THEN @ - 1 ELSE @]
  /\ inside' = inside \cup {p}
  /\ Goto(p, to)
  /\ UNCHANGED <<input, id, mapped, found, away, name, removed, chan, clock, output>>

(* The memory and its semaphore stay attached, whatever namespace p is in. *)
P(p, from, to) ==
  /\ kind = "shm" /\ At(p, from)
  /\ sem[id[p]] > 0
  /\ sem' = [sem EXCEPT ![id[p]] = @ - 1]
  /\ inside' = inside \cup {p}
  /\ Goto(p, to)
  /\ UNCHANGED <<input, id, mapped, found, away, name, removed, chan, clock, output>>

V(p) ==
  /\ At(p, "V")
  /\ sem' = [sem EXCEPT ![id[p]] = @ + 1]
  /\ inside' = inside \ {p}
  /\ Goto(p, IF p \in Producers THEN "prompt" ELSE "recv")
  /\ UNCHANGED <<input, id, mapped, found, away, name, removed, chan, clock, output>>

Date == clock < LastDate /\ clock' = clock + 1

(* ctime_r() into the segment *)
WriteDate(p) ==
  /\ At(p, "write") /\ Date
  /\ chan' = [chan EXCEPT ![id[p]] = <<clock'>>]
  /\ Goto(p, "V")
  /\ UNCHANGED <<input, id, mapped, found, away, name, removed, sem, inside, output>>

(* msgsnd(): the identifier is unknown in another namespace and after a
   removal.  It waits for room. *)
MsgSnd(p) ==
  /\ kind = "msgq" /\ At(p, "send")
  /\ \/ /\ p \notin away /\ p \notin removed
        /\ Len(chan[p]) < MsgqSize
        /\ Date
        /\ chan' = [chan EXCEPT ![p] = Append(@, clock')]
        /\ Goto(p, "prompt")
        /\ UNCHANGED <<input, id, mapped, found, away, name, removed, sem, inside, output>>
     \/ (p \in away \/ p \in removed) /\ Fail(p)

(* mq_send(): the queue is open, and has room for two messages. *)
MqSend(p) ==
  /\ kind = "mq" /\ At(p, "send")
  /\ Len(chan[p]) < 2
  /\ Date
  /\ chan' = [chan EXCEPT ![p] = Append(@, clock')]
  /\ Goto(p, "prompt")
  /\ UNCHANGED <<input, id, mapped, found, away, name, removed, sem, inside, output>>

-----------------------------------------------------------------------------
(* The consumer                                                             *)

Get(c) ==
  /\ c \in Consumers /\ At(c, "get")
  /\ \/ /\ name # None
        /\ id' = [id EXCEPT ![c] = name]
        /\ Goto(c, IF kind = "shm" THEN "attach" ELSE "recv")
        /\ UNCHANGED <<input, mapped, found, away, objects, inside, clock, output>>
     \/ name = None /\ Fail(c)

(* pData[0]: display the date, if there is one. *)
Look(c) ==
  /\ At(c, "look")
  /\ LET s == id[c] IN
     \/ chan[s] = <<>> /\ Goto(c, "V") /\ UNCHANGED shown
     \/ /\ chan[s] # <<>>
        /\ shown' = [shown EXCEPT ![c] = Append(@, Head(chan[s]))]
        /\ Goto(c, "clear")
  /\ UNCHANGED <<input, id, mapped, found, away, objects, inside, clock, msg>>

(* Mutant: the date is not erased. *)
Clear_No(c) == Move(c, "clear", "V")

Clear(c) ==
  /\ At(c, "clear")
  /\ chan' = [chan EXCEPT ![id[c]] = <<>>]
  /\ Goto(c, "V")
  /\ UNCHANGED <<input, id, mapped, found, away, name, removed, sem, inside, clock, output>>

(* The oldest message leaves the queue for the buffer of the consumer. *)
Receive(c) ==
  /\ c \in Consumers /\ At(c, "recv")
  /\ chan[id[c]] # <<>>
  /\ msg' = [msg EXCEPT ![c] = Head(chan[id[c]])]
  /\ chan' = [chan EXCEPT ![id[c]] = Tail(@)]
  /\ Goto(c, "print")
  /\ UNCHANGED <<input, id, mapped, found, away, name, removed, sem, inside, clock, shown>>

(* Mutant: the error of msgrcv() is reported, and the loop goes on. *)
MsgRcv_Retry(c) == kind = "msgq" /\ Receive(c)

(* msgrcv(): it waits for a message or for the removal of the queue. *)
MsgRcv(c) ==
  /\ kind = "msgq"
  /\ \/ Receive(c)
     \/ c \in Consumers /\ At(c, "recv") /\ id[c] \in removed /\ Fail(c)

(* mq_receive(): it waits for a message. *)
MqReceive(c) == kind = "mq" /\ Receive(c)

(* printf() of what was received.  The buffer keeps it, but the next reader of
   the buffer is a printf() after another receive: msg forgets it. *)
Display(c) ==
  /\ At(c, "print")
  /\ shown' = [shown EXCEPT ![c] = Append(@, msg[c])]
  /\ msg' = [msg EXCEPT ![c] = 0]
  /\ Goto(c, "recv")
  /\ UNCHANGED <<input, id, mapped, found, away, objects, inside, clock>>

-----------------------------------------------------------------------------
(* SIGINT: sig_hdl(), and SIGKILL                                           *)

Interrupt(p) ==
  /\ Alive(p) /\ ~At(p, "handler")
  /\ Goto(p, "handler")
  /\ UNCHANGED <<input, id, mapped, found, away, objects, inside, clock, output>>

HandlerConsumer(c) ==
  /\ c \in Consumers /\ At(c, "handler")
  /\ Exit(c, "ok")
  /\ UNCHANGED <<input, id, mapped, found, away, objects, inside, clock, output>>

(* Mutant: the handler of the producer only exits. *)
HandlerSysv_Exits(p) ==
  /\ p \in Producers /\ kind # "mq" /\ At(p, "handler")
  /\ Exit(p, "ok")
  /\ UNCHANGED <<input, id, mapped, found, away, objects, inside, clock, output>>

(* shmctl(), msgctl(): they need the identifier and its namespace. *)
HandlerSysv(p) ==
  /\ p \in Producers /\ kind # "mq" /\ At(p, "handler")
  /\ IF id[p] = None
       THEN Exit(p, "ok") /\ UNCHANGED <<name, removed, chan>>
       ELSE IF p \in away \/ Gone(p, p)
       THEN Exit(p, "handler_error") /\ UNCHANGED <<name, removed, chan>>
       ELSE Exit(p, "ok") /\ SysvRemove(p)
  /\ UNCHANGED <<input, id, mapped, found, away, sem, inside, clock, output>>

(* mq_unlink(): whatever queue has the name *)
HandlerMq(p) ==
  /\ p \in Producers /\ kind = "mq" /\ At(p, "handler")
  /\ IF p \in away \/ name = None
       THEN Exit(p, "handler_error") /\ UNCHANGED name
       ELSE Exit(p, "ok") /\ name' = None
  /\ UNCHANGED <<input, id, mapped, found, away, removed, sem, chan, inside, clock, output>>

Kill(p) ==
  /\ Alive(p)
  /\ Exit(p, "killed")
  /\ UNCHANGED <<input, id, mapped, found, away, objects, inside, clock, output>>

-----------------------------------------------------------------------------
Producer(p) ==
  /\ p \in Producers
  /\ \/ Find(p) \/ RemoveFound(p) \/ MqUnlink(p) \/ Create(p) \/ Assign(p) \/ Attach(p)
     \/ SemInit(p) \/ Reset(p) \/ P(p, "send", "write") \/ WriteDate(p) \/ V(p)
     \/ MsgSnd(p) \/ MqSend(p) \/ HandlerSysv(p) \/ HandlerMq(p)

Consumer(c) ==
  /\ c \in Consumers
  /\ \/ Get(c) \/ Attach(c) \/ P(c, "recv", "look") \/ Look(c) \/ Clear(c) \/ V(c)
     \/ MsgRcv(c) \/ MqReceive(c) \/ Display(c) \/ HandlerConsumer(c)

Next ==
  \E p \in Proc :
    \/ Start(p) \/ Producer(p) \/ Consumer(p) \/ Prompt(p) \/ UnshareFails(p)
    \/ p \in Interrupted /\ Interrupt(p)
    \/ p \in Killable /\ Kill(p)

(* The kernel wakes who waits in msgrcv() and may go on.  Nothing else that is
   said below depends on the pace of the processes, or on the users who answer
   and send signals as they like. *)
Fairness == \A c \in Consumers : WF_vars(MsgRcv(c))

Spec == Init /\ [][Next]_vars /\ Fairness

-----------------------------------------------------------------------------
(* Properties                                                               *)

(* The dates of an object that nobody has displayed *)
Waiting(s) == {d \in Range(chan[s]) : \A c \in Consumers : d \notin Range(shown[c])}

(* What the readers of the channel read, hold and do in terms of the consumers,
   and the channels whose dates are lost. *)
Reads == [c \in Consumers |-> id[c]]
Held  == [c \in Consumers |-> IF At(c, "print") THEN msg[c] ELSE 0]
Ended == {c \in Consumers : pc[c] \in {"handler", "exited"}}
Lost  == IF kind = "msgq" THEN removed ELSE {}

Channel == INSTANCE DateChannel WITH
             Channels <- Producers, Readers <- Consumers,
             lossy <- (kind = "shm"), removed <- Lost,
             waiting <- [s \in Producers |-> Waiting(s)],
             reads <- Reads, held <- Held, ended <- Ended

(* Each of the three programs is a channel of dates, whoever is interrupted,
   killed or in another namespace: see DateChannel. *)
IsChannel == Channel!Spec

(* The semaphore of a segment (prodcons.c:71-96): taken at most once, also when
   consumers found it before sem_init() (line 148), whoever ends inside. *)
LockKept ==
  \A s \in Producers, p \in inside : id[p] = s =>
    /\ sem[s] = 0
    /\ \A q \in inside : id[q] = s => p = q

(* The inductive invariant behind it: who is where, who is inside, and that no
   semaphore is initialised twice. *)
Starting == {"idle", "find", "remove", "create", "assign"}

BeforeInit == Starting \cup {"attach", "init"}

Roles ==
  /\ \A p \in Proc :
       pc[p] \in {"find", "remove", "create", "assign", "init", "reset", "prompt", "send", "write"}
         => p \in Producers
  /\ \A p \in Proc : pc[p] \in {"get", "recv", "print", "look", "clear"} => p \in Consumers
  /\ \A p \in Producers : pc[p] = "remove" => found[p] # None
  /\ \A c \in Consumers : pc[c] = "print" => msg[c] # 0
  /\ \A p \in Producers : id[p] \in {p, None}
  /\ \A p \in Proc : id[p] = None => pc[p] \in Starting \cup {"get", "handler", "exited"}

LockPlaces ==
  /\ \A p \in Proc : pc[p] \in {"write", "look", "clear", "V"} => p \in inside
  /\ \A p \in inside :
       id[p] # None /\ pc[p] \in {"write", "look", "clear", "V", "handler", "exited"}
  /\ \A p \in Producers : pc[p] \in BeforeInit => sem[p] = 0 /\ \A q \in inside : id[q] # p

LockInv == TypeOK /\ Roles /\ LockPlaces /\ LockKept

(* "Destroy any previously created memory segment" (prodcons.c:125): whatever a
   previous producer left, the next one gets an object of its own, unless
   another one starts at the same time. *)
RestartWorks ==
  alone => \A p \in Producers : status[p] = "error" => id[p] # None

(* "If I am the producer ==> Unlink" (prodcons.c:53): a handler that ends well
   has removed the object, unless it does not know the object yet.  One that
   fails is in another namespace, or there is nothing to remove. *)
CleanExit ==
  alone => \A p \in Producers :
    /\ status[p] = "ok" /\ name = p => id[p] = None /\ kind # "mq"
    /\ status[p] = "handler_error" => p \in away \/ (kind = "mq" /\ id[p] = None)

(* A consumer of a System V queue that is removed ends (prodcons2.c:160-163);
   that of a POSIX queue or of a segment would wait for ever. *)
RemovalNoticed ==
  \A c \in Consumers :
    (kind = "msgq" /\ At(c, "recv") /\ id[c] \in removed) ~> ~At(c, "recv")

=============================================================================
