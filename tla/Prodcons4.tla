----------------------------- MODULE Prodcons4 -----------------------------
(***************************************************************************)
(* prodcons4.c: producers write the time into a POSIX shared memory        *)
(* segment, consumers display and erase it, a POSIX semaphore keeps them   *)
(* apart.  Segment and semaphore are found by name, created and removed in *)
(* two steps each, and removed by the SIGINT handler of a producer, which  *)
(* may interrupt main() anywhere.                                          *)
(*                                                                         *)
(* A producer creates at most one segment and one semaphore: an object is  *)
(* called by the process that created it.                                  *)
(***************************************************************************)
EXTENDS Integers

CONSTANTS
  Producers, Consumers,  \* the processes that may be started
  Overlap,               \* a producer may start while another one runs
  Faults,                \* the calls that may fail for want of resources
  Interrupted,           \* the processes that may get a SIGINT
  Killable,              \* the processes that may get a SIGKILL
  None                   \* -1, NULL and SEM_FAILED

Proc == Producers \cup Consumers

(* shm_open() and sem_open() without and with O_CREAT, ftruncate(), mmap() *)
FaultSites == {"shm_lookup", "sem_lookup", "shm_open", "sem_open", "ftruncate", "mmap"}

ASSUME ConstantsAssumption ==
  /\ Producers \cap Consumers = {}
  /\ Overlap \in BOOLEAN
  /\ Faults \subseteq FaultSites
  /\ Interrupted \subseteq Proc /\ Killable \subseteq Proc
  /\ None \notin Proc

VARIABLES
  pc,       \* where each process is; "idle" before it is started
  status,   \* how each process ended
  cleanup,  \* the producer is given -d
  idm,      \* the segment the descriptor idm is open on
  pShm,     \* the segment that is mapped
  ids,      \* the semaphore that is open
  stale,    \* the ones of idm, pShm and ids that are not reset, but invalid
  inside,   \* the process did P() and has not done V()
  shmName,  \* the segment called /mdate
  semName,  \* the semaphore called /sdate
  sized,    \* the segments ftruncate() gave a size
  zone,     \* what a segment holds: nothing, or a date with its newline ("raw"),
            \* without it, or without its last digit ("cut")
  sem       \* the value of each semaphore, -1 before it is created

locals == <<idm, pShm, ids, stale, inside>>
names  == <<shmName, semName>>
memory == <<sized, zone>>
vars   == <<pc, status, cleanup, locals, names, memory, sem>>

Handle == Producers \cup {None}

CriticalPc == {"write", "strip", "look", "print", "clear", "V"}
SetupPc    == {"shm_open", "clean_close", "clean_unlink", "shm_create", "sem_open",
               "sem_close", "sem_unlink", "sem_create", "assign", "reassign",
               "ftruncate", "mmap", "close", "forget", "reset", "return"}
HandlerPc  == {"handler", "handler_sem"}
Pc         == SetupPc \cup CriticalPc \cup HandlerPc \cup {"idle", "P", "exited"}

(* The static variables of prodcons4.c (lines 36-38) and the kernel's objects
   keep to their types. *)
TypeOK ==
  /\ pc \in [Proc -> Pc]
  /\ status \in [Proc -> {"none", "ok", "error", "handler_error", "sigbus", "sigsegv", "killed"}]
  /\ cleanup \in [Producers -> BOOLEAN]
  /\ idm \in [Proc -> Handle] /\ pShm \in [Proc -> Handle] /\ ids \in [Proc -> Handle]
  /\ stale \in [Proc -> SUBSET {"idm", "pShm", "ids"}]
  /\ inside \in [Proc -> BOOLEAN]
  /\ shmName \in Handle /\ semName \in Handle
  /\ sized \in [Producers -> BOOLEAN]
  /\ zone \in [Producers -> {"empty", "raw", "date", "cut"}]
  /\ sem \in [Producers -> -1..1]

Init ==
  /\ pc = [p \in Proc |-> "idle"]
  /\ status = [p \in Proc |-> "none"]
  /\ cleanup \in [Producers -> BOOLEAN]
  /\ idm = [p \in Proc |-> None]
  /\ pShm = [p \in Proc |-> None]
  /\ ids = [p \in Proc |-> None]
  /\ stale = [p \in Proc |-> {}]
  /\ inside = [p \in Proc |-> FALSE]
  /\ shmName = None
  /\ semName = None
  /\ sized = [s \in Producers |-> FALSE]
  /\ zone = [s \in Producers |-> "empty"]
  /\ sem = [s \in Producers |-> -1]

-----------------------------------------------------------------------------
Alive(p) == pc[p] \notin {"idle", "exited"}
MayFail(site) == site \in Faults

At(p, l) == pc[p] = l

Goto(p, l) ==
  /\ pc' = [pc EXCEPT ![p] = l]
  /\ UNCHANGED <<status, cleanup>>

Exit(p, s) ==
  /\ pc' = [pc EXCEPT ![p] = "exited"]
  /\ status' = [status EXCEPT ![p] = s]
  /\ UNCHANGED cleanup

(* An error is reported, and the program is about to leave. *)
GiveUp(p) == Goto(p, "return") /\ UNCHANGED <<locals, names, memory, sem>>

(* return 1 in main(), or exit(1) in clean_ipc() called from main() *)
Return1(p) ==
  /\ At(p, "return")
  /\ Exit(p, "error")
  /\ UNCHANGED <<locals, names, memory, sem>>

-----------------------------------------------------------------------------
(* Opening the segment                                                      *)

(* main() up to signal(): from here on SIGINT is caught. *)
Start(p) ==
  /\ At(p, "idle")
  /\ p \in Producers /\ ~Overlap => \A q \in Producers : ~Alive(q)
  /\ Goto(p, "shm_open")
  /\ UNCHANGED <<locals, names, memory, sem>>

(* What an open without O_CREAT returns: the object that has the name, or None
   when there is none or the call fails. *)
Lookup(site, object) == {object} \cup {x \in {None} : MayFail(site)}

(* A producer is glad to find nothing, and with -d also to find something.  It
   does not ask why an open failed: one for want of resources is "nothing". *)
ShmOpenProducer(p) ==
  /\ p \in Producers /\ At(p, "shm_open")
  /\ \E s \in Lookup("shm_lookup", shmName) :
       /\ idm' = [idm EXCEPT ![p] = s]
       /\ IF s = None THEN Goto(p, "shm_create")
          ELSE IF cleanup[p] THEN Goto(p, "clean_close") ELSE Goto(p, "return")
  /\ UNCHANGED <<pShm, ids, stale, inside, names, memory, sem>>

ShmOpenConsumer(p) ==
  /\ p \in Consumers /\ At(p, "shm_open")
  /\ \E s \in Lookup("shm_lookup", shmName) :
       /\ idm' = [idm EXCEPT ![p] = s]
       /\ IF s = None THEN Goto(p, "return") ELSE Goto(p, "sem_open")
  /\ UNCHANGED <<pShm, ids, stale, inside, names, memory, sem>>

(* clean_ipc(), called from main(): nothing but idm is open yet. *)
CleanClose(p) ==
  /\ At(p, "clean_close")
  /\ stale' = [stale EXCEPT ![p] = @ \cup {"idm"}]
  /\ Goto(p, "clean_unlink")
  /\ UNCHANGED <<idm, pShm, ids, inside, names, memory, sem>>

(* Mutant: the name is not removed. *)
CleanUnlink_No(p) ==
  /\ At(p, "clean_unlink")
  /\ Goto(p, "shm_create")
  /\ UNCHANGED <<locals, names, memory, sem>>

CleanUnlink(p) ==
  /\ At(p, "clean_unlink")
  /\ \/ shmName = None /\ GiveUp(p)
     \/ /\ shmName # None
        /\ shmName' = None
        /\ Goto(p, "shm_create")
        /\ UNCHANGED <<locals, semName, memory, sem>>

(* shm_open(O_CREAT) without O_EXCL: it opens what is there already.  The new
   descriptor is the lowest free one, so a stale idm is good again. *)
ShmCreate(p) ==
  /\ At(p, "shm_create")
  /\ LET s == IF shmName = None THEN p ELSE shmName IN
       /\ shmName' = s
       /\ idm' = [idm EXCEPT ![p] = s]
  /\ stale' = [stale EXCEPT ![p] = @ \ {"idm"}]
  /\ Goto(p, "sem_open")
  /\ UNCHANGED <<pShm, ids, inside, semName, memory, sem>>

-----------------------------------------------------------------------------
(* Opening the semaphore                                                    *)

(* Mutant: -d is not asked for. *)
SemOpenProducer_Always(p) ==
  /\ p \in Producers /\ At(p, "sem_open")
  /\ \E s \in Lookup("sem_lookup", semName) :
       /\ ids' = [ids EXCEPT ![p] = s]
       /\ Goto(p, IF s = None THEN "sem_create" ELSE "sem_close")
  /\ UNCHANGED <<idm, pShm, stale, inside, names, memory, sem>>

(* Mutant: -d only helps with the segment. *)
SemOpenProducer_Never(p) ==
  /\ p \in Producers /\ At(p, "sem_open")
  /\ \E s \in Lookup("sem_lookup", semName) :
       /\ ids' = [ids EXCEPT ![p] = s]
       /\ Goto(p, IF s = None THEN "sem_create" ELSE "return")
  /\ UNCHANGED <<idm, pShm, stale, inside, names, memory, sem>>

SemOpenProducer(p) ==
  /\ p \in Producers /\ At(p, "sem_open")
  /\ \E s \in Lookup("sem_lookup", semName) :
       /\ ids' = [ids EXCEPT ![p] = s]
       /\ IF s = None THEN Goto(p, "sem_create")
          ELSE IF cleanup[p] THEN Goto(p, "sem_close") ELSE Goto(p, "return")
  /\ UNCHANGED <<idm, pShm, stale, inside, names, memory, sem>>

SemOpenConsumer(p) ==
  /\ p \in Consumers /\ At(p, "sem_open")
  /\ \E s \in Lookup("sem_lookup", semName) :
       /\ ids' = [ids EXCEPT ![p] = s]
       /\ IF s = None THEN Goto(p, "return") ELSE Goto(p, "mmap")
  /\ UNCHANGED <<idm, pShm, stale, inside, names, memory, sem>>

SemClose(p) ==
  /\ At(p, "sem_close")
  /\ stale' = [stale EXCEPT ![p] = @ \cup {"ids"}]
  /\ Goto(p, "sem_unlink")
  /\ UNCHANGED <<idm, pShm, ids, inside, names, memory, sem>>

SemUnlink(p) ==
  /\ At(p, "sem_unlink")
  /\ \/ semName = None /\ GiveUp(p)
     \/ /\ semName # None
        /\ semName' = None
        /\ Goto(p, "sem_create")
        /\ UNCHANGED <<locals, shmName, memory, sem>>

(* Mutant: the semaphore starts with the value 0. *)
SemCreate_Zero(p) ==
  /\ At(p, "sem_create")
  /\ \/ /\ semName = None
        /\ semName' = p
        /\ sem' = [sem EXCEPT ![p] = 0]
     \/ semName # None /\ UNCHANGED <<semName, sem>>
  /\ ids' = [ids EXCEPT ![p] = semName']
  /\ Goto(p, IF "ids" \in stale[p] THEN "reassign" ELSE "assign")
  /\ UNCHANGED <<idm, pShm, stale, inside, shmName, memory>>

(* sem_open(O_CREAT), without O_EXCL again, with the value 1 if it creates.
   The program has the semaphore in ids only after the next step: Interrupt
   undoes the assignment made here. *)
SemCreate(p) ==
  /\ At(p, "sem_create")
  /\ \/ /\ semName = None
        /\ semName' = p
        /\ sem' = [sem EXCEPT ![p] = 1]
     \/ semName # None /\ UNCHANGED <<semName, sem>>
  /\ ids' = [ids EXCEPT ![p] = semName']
  /\ Goto(p, IF "ids" \in stale[p] THEN "reassign" ELSE "assign")
  /\ UNCHANGED <<idm, pShm, stale, inside, shmName, memory>>

Assign(p) ==
  /\ pc[p] \in {"assign", "reassign"}
  /\ stale' = [stale EXCEPT ![p] = @ \ {"ids"}]
  /\ Goto(p, "ftruncate")
  /\ UNCHANGED <<idm, pShm, ids, inside, names, memory, sem>>

-----------------------------------------------------------------------------
(* The memory                                                               *)

Ftruncate(p) ==
  /\ At(p, "ftruncate")
  /\ sized' = [sized EXCEPT ![idm[p]] = TRUE]
  /\ Goto(p, "mmap")
  /\ UNCHANGED <<locals, names, zone, sem>>

Mmap(p) ==
  /\ At(p, "mmap")
  /\ pShm' = [pShm EXCEPT ![p] = idm[p]]
  /\ Goto(p, "close")
  /\ UNCHANGED <<idm, ids, stale, inside, names, memory, sem>>

Close(p) ==
  /\ At(p, "close")
  /\ stale' = [stale EXCEPT ![p] = @ \cup {"idm"}]
  /\ Goto(p, "forget")
  /\ UNCHANGED <<idm, pShm, ids, inside, names, memory, sem>>

(* idm = -1 *)
Forget(p) ==
  /\ At(p, "forget")
  /\ idm' = [idm EXCEPT ![p] = None]
  /\ stale' = [stale EXCEPT ![p] = @ \ {"idm"}]
  /\ Goto(p, IF p \in Producers THEN "reset" ELSE "P")
  /\ UNCHANGED <<pShm, ids, inside, names, memory, sem>>

(* memset() before the loop, without the semaphore *)
Reset(p) ==
  /\ At(p, "reset")
  /\ zone' = [zone EXCEPT ![pShm[p]] = "empty"]
  /\ Goto(p, "P")
  /\ UNCHANGED <<locals, names, sized, sem>>

-----------------------------------------------------------------------------
(* The loops                                                                *)

(* Mutant: sem_trywait(), and on as if it had succeeded. *)
P_Try(p) ==
  /\ At(p, "P")
  /\ sem' = [sem EXCEPT ![ids[p]] = IF @ > 0 THEN @ - 1 ELSE @]
  /\ inside' = [inside EXCEPT ![p] = TRUE]
  /\ Goto(p, IF p \in Producers THEN "write" ELSE "look")
  /\ UNCHANGED <<idm, pShm, ids, stale, names, memory>>

P(p) ==
  /\ At(p, "P")
  /\ sem[ids[p]] > 0
  /\ sem' = [sem EXCEPT ![ids[p]] = @ - 1]
  /\ inside' = [inside EXCEPT ![p] = TRUE]
  /\ Goto(p, IF p \in Producers THEN "write" ELSE "look")
  /\ UNCHANGED <<idm, pShm, ids, stale, names, memory>>

V(p) ==
  /\ At(p, "V")
  /\ sem' = [sem EXCEPT ![ids[p]] = @ + 1]
  /\ inside' = [inside EXCEPT ![p] = FALSE]
  /\ Goto(p, "P")
  /\ UNCHANGED <<idm, pShm, ids, stale, names, memory>>

(* ctime_r(): the date with its newline *)
Write(p) ==
  /\ At(p, "write")
  /\ zone' = [zone EXCEPT ![pShm[p]] = "raw"]
  /\ Goto(p, "strip")
  /\ UNCHANGED <<locals, names, sized, sem>>

(* The last character goes, which is the newline if nobody was here.  In a
   segment that was erased it is the byte before the memory: there is no page
   (SIGSEGV), or one that is none of our business. *)
Stripped == [empty |-> "empty", raw |-> "date", date |-> "cut", cut |-> "cut"]

Strip(p) ==
  /\ At(p, "strip")
  /\ \/ /\ zone' = [zone EXCEPT ![pShm[p]] = Stripped[@]]
        /\ Goto(p, "V")
     \/ /\ zone[pShm[p]] = "empty"
        /\ Exit(p, "sigsegv")
        /\ UNCHANGED zone
  /\ UNCHANGED <<locals, names, sized, sem>>

(* pShm[0]: a segment without a size has no page to read (SIGBUS). *)
Look(p) ==
  /\ At(p, "look")
  /\ IF ~sized[pShm[p]] THEN Exit(p, "sigbus")
     ELSE Goto(p, IF zone[pShm[p]] = "empty" THEN "V" ELSE "print")
  /\ UNCHANGED <<locals, names, memory, sem>>

Display(p) ==
  /\ At(p, "print")
  /\ Goto(p, "clear")
  /\ UNCHANGED <<locals, names, memory, sem>>

Clear(p) ==
  /\ At(p, "clear")
  /\ zone' = [zone EXCEPT ![pShm[p]] = "empty"]
  /\ Goto(p, "V")
  /\ UNCHANGED <<locals, names, sized, sem>>

-----------------------------------------------------------------------------
(* SIGINT: sig_hdl(), which ends in exit(); it does not interrupt itself.   *)

(* Between the return of sem_open() and the assignment ids is what it was:
   SEM_FAILED, or the semaphore that was closed, whose address the new one may
   have got. *)
Interrupt(p) ==
  /\ Alive(p) /\ pc[p] \notin HandlerPc
  /\ IF At(p, "assign") THEN ids' = [ids EXCEPT ![p] = None] ELSE UNCHANGED ids
  /\ \/ UNCHANGED stale
     \/ At(p, "reassign") /\ stale' = [stale EXCEPT ![p] = @ \ {"ids"}]
  /\ Goto(p, "handler")
  /\ UNCHANGED <<idm, pShm, inside, names, memory, sem>>

(* clean_ipc(): close() of a stale idm fails, munmap() of MAP_FAILED too, and
   shm_unlink() when the name is gone; then the semaphore is left alone. *)
HandlerShm(p) ==
  /\ p \in Producers /\ At(p, "handler")
  /\ IF stale[p] \cap {"idm", "pShm"} # {} \/ shmName = None
       THEN Exit(p, "handler_error") /\ UNCHANGED shmName
       ELSE Goto(p, "handler_sem") /\ shmName' = None
  /\ UNCHANGED <<locals, semName, memory, sem>>

(* Mutant: the semaphore is closed and its name stays. *)
HandlerSem_NoUnlink(p) ==
  /\ At(p, "handler_sem")
  /\ Exit(p, IF "ids" \in stale[p] THEN "handler_error" ELSE "ok")
  /\ UNCHANGED <<locals, names, memory, sem>>

HandlerSem(p) ==
  /\ At(p, "handler_sem")
  /\ IF ids[p] = None
       THEN Exit(p, "ok") /\ UNCHANGED semName
       ELSE IF "ids" \in stale[p] \/ semName = None
       THEN Exit(p, "handler_error") /\ UNCHANGED semName
       ELSE Exit(p, "ok") /\ semName' = None
  /\ UNCHANGED <<locals, shmName, memory, sem>>

HandlerConsumer(p) ==
  /\ p \in Consumers /\ At(p, "handler")
  /\ Exit(p, IF "idm" \in stale[p] THEN "handler_error" ELSE "ok")
  /\ UNCHANGED <<locals, names, memory, sem>>

Handler(p) == HandlerShm(p) \/ HandlerSem(p) \/ HandlerConsumer(p)

(* SIGKILL *)
Kill(p) ==
  /\ Alive(p)
  /\ Exit(p, "killed")
  /\ UNCHANGED <<locals, names, memory, sem>>

-----------------------------------------------------------------------------
Setup(p) ==
  \/ ShmOpenProducer(p) \/ ShmOpenConsumer(p) \/ CleanClose(p) \/ CleanUnlink(p)
  \/ ShmCreate(p) \/ SemOpenProducer(p) \/ SemOpenConsumer(p) \/ SemClose(p)
  \/ SemUnlink(p) \/ SemCreate(p) \/ Assign(p)
  \/ Ftruncate(p) \/ Mmap(p) \/ Close(p) \/ Forget(p) \/ Reset(p) \/ Return1(p)

Loop(p) == P(p) \/ V(p) \/ Write(p) \/ Strip(p) \/ Look(p) \/ Display(p) \/ Clear(p)

(* The other calls that fail for want of something store -1, MAP_FAILED or
   SEM_FAILED, and the program reports them. *)
SetupFails(p) ==
  /\ \/ /\ At(p, "shm_create") /\ MayFail("shm_open")
        /\ idm' = [idm EXCEPT ![p] = None]
        /\ stale' = [stale EXCEPT ![p] = @ \ {"idm"}]
        /\ UNCHANGED ids
     \/ /\ At(p, "sem_create") /\ MayFail("sem_open")
        /\ ids' = [ids EXCEPT ![p] = None]
        /\ stale' = [stale EXCEPT ![p] = @ \ {"ids"}]
        /\ UNCHANGED idm
     \/ /\ At(p, "ftruncate") /\ MayFail("ftruncate")
        /\ UNCHANGED <<idm, ids, stale>>
     \/ /\ At(p, "mmap") /\ MayFail("mmap")
        /\ stale' = [stale EXCEPT ![p] = @ \cup {"pShm"}]
        /\ UNCHANGED <<idm, ids>>
  /\ Goto(p, "return")
  /\ UNCHANGED <<pShm, inside, names, memory, sem>>

Main(p) == Setup(p) \/ Loop(p) \/ Handler(p)

Next ==
  \E p \in Proc :
    \/ Start(p) \/ Main(p) \/ SetupFails(p)
    \/ p \in Interrupted /\ Interrupt(p)
    \/ p \in Killable /\ Kill(p)

Spec == Init /\ [][Next]_vars

-----------------------------------------------------------------------------
(* Properties                                                               *)

Owns(p, s) == inside[p] /\ ids[p] = s

InLoop(p) == pc[p] \in CriticalPc \cup {"P"}

(* P() and V() (prodcons4.c:120-145): a semaphore that is taken has exactly one
   owner, alive or dead, one that is free has none.  It is lost only to a
   process that died between its P() and its V(). *)
LockConserved ==
  \A s \in Producers :
    /\ sem[s] = 0 <=> \E p \in Proc : Owns(p, s)
    /\ \A p, q \in Proc : Owns(p, s) /\ Owns(q, s) => p = q

(* The inductive invariant: where a process is tells whether it is inside and
   has a semaphore, a semaphore somebody knows has been created, and nobody
   creates a second one. *)
ProducerPc == {"clean_close", "clean_unlink", "shm_create", "sem_close", "sem_unlink",
               "sem_create", "assign", "reassign", "ftruncate", "reset", "write", "strip",
               "handler_sem"}
AttachedPc == {"assign", "reassign", "ftruncate", "mmap", "close", "forget", "reset", "P"}
              \cup CriticalPc
UnmadePc   == {"idle", "shm_open", "clean_close", "clean_unlink", "shm_create",
               "sem_open", "sem_close", "sem_unlink", "sem_create"}

PlaceInv ==
  \A p \in Proc :
    /\ pc[p] \in CriticalPc => inside[p]
    /\ pc[p] \in SetupPc \cup {"idle", "P"} => ~inside[p]
    /\ pc[p] \in AttachedPc => ids[p] # None
    /\ pc[p] \in ProducerPc => p \in Producers

MadeInv ==
  /\ \A p \in Proc : ids[p] # None => sem[ids[p]] # -1
  /\ semName # None => sem[semName] # -1
  /\ \A p \in Producers : pc[p] \in UnmadePc => sem[p] = -1

(* Types, places, creation and ownership of the semaphores together: what
   main(), P(), V() and the handler keep (prodcons4.c:41-357). *)
LockInv == TypeOK /\ PlaceInv /\ MadeInv /\ LockConserved

(* Two processes between P() and V() of one semaphore are the same. *)
MutualExclusion ==
  \A p, q \in Proc :
    pc[p] \in CriticalPc /\ pc[q] \in CriticalPc /\ ids[p] = ids[q] => p = q

(* A producer in its loop works on objects of its own: never on those a
   previous one left, be it with -d or after it was interrupted half way
   (prodcons4.c:192-252). *)
OwnObjects ==
  \A p \in Producers : InLoop(p) => pShm[p] = p /\ ids[p] = p

(* A consumer works on the segment of a running producer under the semaphore
   of that producer.  The exception is a producer started with -d, which
   removes the old segment and the old semaphore one after the other: a
   consumer that starts in between gets the new one and the old one. *)
SharedMeansLocked ==
  \A p \in Producers, c \in Consumers :
    InLoop(p) /\ InLoop(c) /\ pShm[c] = pShm[p] /\ ids[c] # ids[p] => cleanup[p]

(* What a consumer displays is a date without its newline
   (prodcons4.c:283-290, 339-344), if everybody who ever attached its segment as
   a consumer has the semaphore of the producer that made the segment.  One that
   came in between the two shm_unlink() and sem_unlink() of a producer with -d
   has not, and erases dates that others are about to display. *)
WholeDate ==
  \A c \in Consumers :
    /\ At(c, "print")
    /\ \A d \in Consumers : pShm[d] = pShm[c] => ids[d] = pShm[c]
    => zone[pShm[c]] = "date"

(* A producer that is given -d starts whatever its predecessors left. *)
RestartWorks ==
  \A p \in Producers : cleanup[p] => status[p] # "error"

(* "If I am the producer ==> Clean all IPCs" (prodcons4.c:91): a handler that
   ends well has removed the names of what the producer created.  Only a
   semaphore whose sem_open() had not returned into ids yet is left behind. *)
CleanExit ==
  \A p \in Producers : status[p] = "ok" =>
    shmName # p /\ (semName = p => ids[p] = None)

=============================================================================
