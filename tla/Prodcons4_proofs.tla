-------------------------- MODULE Prodcons4_proofs --------------------------
(***************************************************************************)
(* Proofs about Prodcons4, for every set of producers and consumers, with  *)
(* or without -d, at the same time or not, whatever fails, whoever is      *)
(* interrupted or killed: the semaphore is conserved, and it excludes.     *)
(***************************************************************************)
EXTENDS Prodcons4, TLAPS

USE ConstantsAssumption DEF Proc, Handle

(* The steps, by what they do to the semaphores. *)
Calm == UNCHANGED <<sem, inside, ids>>

Opens(p) ==
  /\ ~inside[p]
  /\ UNCHANGED <<sem, inside>>
  /\ \A q \in Proc \ {p} : ids'[q] = ids[q]

(* Init: no process is started, no semaphore is made. *)
LEMMA InitInv == Init => LockInv
  BY DEF Init, LockInv, TypeOK, PlaceInv, MadeInv, LockConserved, Owns, Pc,
         SetupPc, CriticalPc, HandlerPc, AttachedPc, ProducerPc, UnmadePc

(* Every step is calm, opens or forgets a semaphore outside P() and V(), or is
   one of the three that change a value. *)
LEMMA StepKinds ==
  ASSUME LockInv, NEW p \in Proc,
         Start(p) \/ Main(p) \/ SetupFails(p) \/ Interrupt(p) \/ Kill(p)
  PROVE  Calm \/ Opens(p) \/ SemCreate(p) \/ P(p) \/ V(p)
<1> USE DEF LockInv, TypeOK, PlaceInv, Calm, locals, At
<1>1. CASE Start(p) \/ SetupFails(p) \/ Kill(p)
  BY <1>1 DEF Start, SetupFails, Kill, Opens, SetupPc
<1>2. CASE SemOpenProducer(p) \/ SemOpenConsumer(p)
  BY <1>2 DEF Lookup, SemOpenProducer, SemOpenConsumer, Opens, SetupPc
<1>3. CASE Setup(p) /\ ~(SemOpenProducer(p) \/ SemOpenConsumer(p))
  BY <1>3 DEF Setup, Lookup, ShmOpenProducer, ShmOpenConsumer, CleanClose, CleanUnlink,
     ShmCreate, SemClose, SemUnlink, Assign, Ftruncate, Mmap, Close, Forget,
     Reset, Return1, GiveUp
<1>4. CASE Loop(p)
  BY <1>4 DEF Loop, Write, Strip, Look, Display, Clear
<1>5. CASE Handler(p)
  BY <1>5 DEF Handler, HandlerShm, HandlerSem, HandlerConsumer
<1>6. CASE Interrupt(p)
  BY <1>6 DEF Interrupt, Opens, SetupPc
<1> QED
  BY <1>1, <1>2, <1>3, <1>4, <1>5, <1>6 DEF Main

(* A semaphore is conserved by each kind of step. *)
LEMMA LockKept ==
  ASSUME LockInv, NEW p \in Proc,
         Calm \/ Opens(p) \/ SemCreate(p) \/ P(p) \/ V(p)
  PROVE  LockConserved'
<1> USE DEF LockInv, TypeOK, LockConserved, Owns
<1>1. CASE Calm
  BY <1>1 DEF Calm
<1>2. CASE Opens(p)
  <2>1. \A q \in Proc, s \in Producers : Owns(q, s)' <=> Owns(q, s)
    BY <1>2 DEF Opens
  <2> QED
    BY <2>1, <1>2 DEF Opens
<1>3. CASE SemCreate(p)
  <2>1. ~inside[p] /\ p \in Producers /\ sem[p] = -1
    BY <1>3 DEF SemCreate, At, PlaceInv, MadeInv, SetupPc, ProducerPc, UnmadePc
  <2>2. \A q \in Proc, s \in Producers : Owns(q, s)' <=> Owns(q, s)
    BY <2>1, <1>3 DEF SemCreate
  <2>3. \A s \in Producers : sem'[s] = 0 <=> sem[s] = 0
    BY <2>1, <1>3 DEF SemCreate
  <2> QED
    BY <2>2, <2>3
<1>4. CASE P(p)
  <2>1. ids[p] \in Producers /\ sem[ids[p]] = 1 /\ sem'[ids[p]] = 0
    <3>1. ids[p] \in Producers
      BY <1>4 DEF P, At, PlaceInv, AttachedPc
    <3>2. sem[ids[p]] \in -1..1 /\ sem[ids[p]] > 0
      BY <1>4, <3>1 DEF P
    <3>3. sem[ids[p]] = 1
      BY <3>2
    <3> QED
      BY <1>4, <3>1, <3>3 DEF P
  <2>2. \A q \in Proc : ~Owns(q, ids[p])
    BY <2>1
  <2>3. \A q \in Proc, s \in Producers :
          Owns(q, s)' <=> Owns(q, s) \/ (q = p /\ s = ids[p])
    BY <2>1, <1>4 DEF P
  <2>4. \A s \in Producers \ {ids[p]} : sem'[s] = sem[s]
    BY <1>4 DEF P
  <2> SUFFICES ASSUME NEW s \in Producers
               PROVE  /\ sem'[s] = 0 <=> \E q \in Proc : Owns(q, s)'
                      /\ \A q, r \in Proc : Owns(q, s)' /\ Owns(r, s)' => q = r
    OBVIOUS
  <2>5. CASE s = ids[p]
    <3>1. \A q \in Proc : Owns(q, s)' <=> q = p
      BY <2>5, <2>2, <2>3
    <3> QED
      BY ONLY <3>1, <2>5, <2>1, p \in Proc
  <2>6. CASE s # ids[p]
    <3>1. \A q \in Proc : Owns(q, s)' <=> Owns(q, s)
      BY <2>6, <2>3
    <3> QED
      BY <3>1, <2>4, <2>6
  <2> QED
    BY <2>5, <2>6
<1>5. CASE V(p)
  <2>1. ids[p] \in Producers /\ Owns(p, ids[p])
    BY <1>5 DEF V, At, PlaceInv, AttachedPc, CriticalPc
  <2>2. sem[ids[p]] = 0 /\ sem'[ids[p]] = 1
    BY <2>1, <1>5 DEF V
  <2>3. \A q \in Proc, s \in Producers : Owns(q, s)' <=> Owns(q, s) /\ q # p
    BY <2>1, <1>5 DEF V
  <2>4. \A s \in Producers \ {ids[p]} : sem'[s] = sem[s] /\ ~Owns(p, s)
    BY <2>1, <1>5 DEF V
  <2> QED
    BY <2>1, <2>2, <2>3, <2>4
<1> QED
  BY <1>1, <1>2, <1>3, <1>4, <1>5

(* Where processes are keeps telling whether they are inside and have a
   semaphore. *)
LEMMA PlaceKept ==
  ASSUME LockInv, NEW p \in Proc,
         Start(p) \/ Main(p) \/ SetupFails(p) \/ Interrupt(p) \/ Kill(p)
  PROVE  PlaceInv'
<1> USE DEF LockInv, TypeOK, PlaceInv, At, Goto, Exit, locals, Pc, SetupPc,
        CriticalPc, HandlerPc, AttachedPc, ProducerPc
<1>1. CASE Start(p)
  BY <1>1 DEF Start
<1>2. CASE SetupFails(p) \/ Kill(p)
  BY <1>2 DEF SetupFails, Kill
<1>3. CASE ShmOpenProducer(p) \/ ShmOpenConsumer(p)
  BY <1>3 DEF Lookup, ShmOpenProducer, ShmOpenConsumer
<1>4. CASE CleanClose(p) \/ CleanUnlink(p) \/ ShmCreate(p)
  BY <1>4 DEF CleanClose, CleanUnlink, ShmCreate, GiveUp
<1>5. CASE SemOpenProducer(p) \/ SemOpenConsumer(p)
  BY <1>5 DEF Lookup, SemOpenProducer, SemOpenConsumer
<1>6. CASE SemClose(p) \/ SemUnlink(p)
  BY <1>6 DEF SemClose, SemUnlink, GiveUp
<1>7. CASE SemCreate(p)
  BY <1>7 DEF SemCreate
<1>8. CASE Assign(p) \/ Ftruncate(p) \/ Mmap(p) \/ Close(p)
  BY <1>8 DEF Assign, Ftruncate, Mmap, Close
<1>9. CASE Forget(p) \/ Reset(p) \/ Return1(p)
  BY <1>9 DEF Forget, Reset, Return1
<1>10. CASE P(p) \/ V(p)
  BY <1>10 DEF P, V
<1>11. CASE Write(p) \/ Strip(p) \/ Look(p) \/ Display(p) \/ Clear(p)
  BY <1>11 DEF Write, Strip, Look, Display, Clear
<1>12. CASE Handler(p)
  BY <1>12 DEF Handler, HandlerShm, HandlerSem, HandlerConsumer
<1>13. CASE Interrupt(p)
  BY <1>13 DEF Interrupt
<1> QED
  BY <1>1, <1>2, <1>3, <1>4, <1>5, <1>6, <1>7, <1>8, <1>9, <1>10, <1>11, <1>12,
     <1>13 DEF Main, Setup, Loop

(* A step leaves a process in the phase before sem_open(O_CREAT) only if it
   was there, and the name /sdate only goes to a semaphore that is made. *)
LEMMA UnmadeShrinks ==
  ASSUME LockInv, NEW p \in Proc,
         Start(p) \/ Main(p) \/ SetupFails(p) \/ Interrupt(p) \/ Kill(p)
  PROVE  /\ \A q \in Proc : pc'[q] \in UnmadePc => pc[q] \in UnmadePc
         /\ ~SemCreate(p) => semName' \in {semName, None}
         /\ ~SemCreate(p) => \A q \in Proc : ids'[q] \in {ids[q], semName, None}
<1> USE DEF LockInv, TypeOK, At, Goto, Exit, locals, names, UnmadePc
<1>1. CASE Start(p) \/ SetupFails(p) \/ Kill(p)
  BY <1>1 DEF Start, SetupFails, Kill
<1>2. CASE ShmOpenProducer(p) \/ ShmOpenConsumer(p) \/ CleanClose(p)
           \/ CleanUnlink(p) \/ ShmCreate(p)
  BY <1>2 DEF Lookup, ShmOpenProducer, ShmOpenConsumer, CleanClose, CleanUnlink,
     ShmCreate, GiveUp
<1>3. CASE SemOpenProducer(p) \/ SemOpenConsumer(p)
  BY <1>3 DEF Lookup, SemOpenProducer, SemOpenConsumer
<1>4. CASE SemClose(p) \/ SemUnlink(p) \/ SemCreate(p)
  BY <1>4 DEF SemClose, SemUnlink, SemCreate, GiveUp
<1>5. CASE Assign(p) \/ Ftruncate(p) \/ Mmap(p) \/ Close(p) \/ Forget(p) \/ Reset(p)
           \/ Return1(p)
  BY <1>5 DEF Assign, Ftruncate, Mmap, Close, Forget, Reset, Return1
<1>6. CASE Loop(p)
  BY <1>6 DEF Loop, P, V, Write, Strip, Look, Display, Clear
<1>7. CASE Handler(p)
  BY <1>7 DEF Handler, HandlerShm, HandlerSem, HandlerConsumer
<1>8. CASE Interrupt(p)
  BY <1>8 DEF Interrupt
<1> QED
  BY <1>1, <1>2, <1>3, <1>4, <1>5, <1>6, <1>7, <1>8 DEF Main, Setup

(* What is known has been made, and nobody makes two. *)
LEMMA MadeKept ==
  ASSUME LockInv, NEW p \in Proc,
         Start(p) \/ Main(p) \/ SetupFails(p) \/ Interrupt(p) \/ Kill(p)
  PROVE  MadeInv'
<1> USE DEF LockInv, TypeOK, MadeInv
<1>1. CASE SemCreate(p)
  <2>1. p \in Producers /\ pc[p] \in UnmadePc
    BY <1>1 DEF SemCreate, At, PlaceInv, ProducerPc, UnmadePc
  <2>2. \A s \in Producers : sem[s] # -1 => sem'[s] # -1
    BY <1>1, <2>1 DEF SemCreate
  <2>3. semName' # None /\ semName' \in Producers /\ sem'[semName'] # -1
    BY <1>1, <2>1 DEF SemCreate
  <2>4. \A q \in Proc : ids'[q] \in {ids[q], semName'}
    BY <1>1 DEF SemCreate
  <2>5. \A q \in Producers \ {p} : sem'[q] = sem[q]
    BY <1>1 DEF SemCreate
  <2>6. pc'[p] \notin UnmadePc
    BY <1>1 DEF SemCreate, Goto, UnmadePc
  <2> QED
    BY <2>1, <2>2, <2>3, <2>4, <2>5, <2>6, <1>1, UnmadeShrinks
<1>2. CASE ~SemCreate(p)
  <2>1. \A s \in Producers : sem'[s] # -1 <=> sem[s] # -1
    <3>1. CASE P(p)
      BY <3>1 DEF P, At, PlaceInv, AttachedPc
    <3>2. CASE V(p)
      <4>1. ids[p] \in Producers /\ sem[ids[p]] # -1
        BY <3>2 DEF V, At, PlaceInv, AttachedPc, CriticalPc
      <4> QED
        BY <4>1, <3>2 DEF V
    <3>3. CASE Calm \/ Opens(p)
      BY <3>3 DEF Calm, Opens
    <3> QED
      BY <3>1, <3>2, <3>3, <1>2, StepKinds
  <2> QED
    BY <2>1, <1>2, UnmadeShrinks
<1> QED
  BY <1>1, <1>2

(* Every variable keeps its type. *)
LEMMA TypeKept ==
  ASSUME LockInv, NEW p \in Proc,
         Start(p) \/ Main(p) \/ SetupFails(p) \/ Interrupt(p) \/ Kill(p)
  PROVE  TypeOK'
<1> USE DEF LockInv, TypeOK, PlaceInv, At, Goto, Exit, locals, names, memory,
        Pc, SetupPc, CriticalPc, HandlerPc
<1>1. CASE Start(p)
  BY <1>1 DEF Start
<1>2. CASE SetupFails(p) \/ Kill(p)
  BY <1>2 DEF SetupFails, Kill
<1>3. CASE ShmOpenProducer(p) \/ ShmOpenConsumer(p)
  BY <1>3 DEF Lookup, ShmOpenProducer, ShmOpenConsumer
<1>4. CASE CleanClose(p) \/ CleanUnlink(p)
  BY <1>4 DEF CleanClose, CleanUnlink, GiveUp
<1>5. CASE ShmCreate(p)
  BY <1>5 DEF ShmCreate, ProducerPc
<1>6. CASE SemOpenProducer(p) \/ SemOpenConsumer(p)
  BY <1>6 DEF Lookup, SemOpenProducer, SemOpenConsumer
<1>7. CASE SemClose(p) \/ SemUnlink(p)
  BY <1>7 DEF SemClose, SemUnlink, GiveUp
<1>8. CASE SemCreate(p)
  <2>1. p \in Producers
    BY <1>8 DEF SemCreate, ProducerPc
  <2>2. semName' \in Producers
    BY <1>8, <2>1 DEF SemCreate
  <2>3. sem' \in [Producers -> -1..1]
    BY <1>8, <2>1 DEF SemCreate
  <2> QED
    BY <1>8, <2>1, <2>2, <2>3 DEF SemCreate
<1>9. CASE Assign(p) \/ Ftruncate(p) \/ Mmap(p) \/ Close(p)
  <2>1. CASE Assign(p)
    BY <2>1 DEF Assign
  <2>2. CASE Ftruncate(p)
    BY <2>2 DEF Ftruncate
  <2>3. CASE Mmap(p)
    BY <2>3 DEF Mmap
  <2>4. CASE Close(p)
    BY <2>4 DEF Close
  <2> QED
    BY <1>9, <2>1, <2>2, <2>3, <2>4
<1>10. CASE Forget(p) \/ Reset(p) \/ Return1(p)
  BY SMTT(30), <1>10 DEF Forget, Reset, Return1
<1>11. CASE P(p)
  BY <1>11 DEF P, AttachedPc
<1>12. CASE V(p)
  <2>1. ids[p] \in Producers /\ Owns(p, ids[p])
    BY <1>12 DEF V, AttachedPc, Owns
  <2>2. sem[ids[p]] = 0
    BY <2>1 DEF LockConserved
  <2> QED
    BY <1>12, <2>1, <2>2 DEF V
<1>13. CASE Write(p) \/ Strip(p) \/ Clear(p)
  BY <1>13 DEF Write, Strip, Stripped, Clear
<1>14. CASE Look(p) \/ Display(p)
  BY <1>14 DEF Look, Display
<1>15. CASE Handler(p)
  BY <1>15 DEF Handler, HandlerShm, HandlerSem, HandlerConsumer
<1>16. CASE Interrupt(p)
  BY <1>16 DEF Interrupt
<1> QED
  BY <1>1, <1>2, <1>3, <1>4, <1>5, <1>6, <1>7, <1>8, <1>9, <1>10, <1>11, <1>12,
     <1>13, <1>14, <1>15, <1>16 DEF Main, Setup, Loop

LEMMA StutterKept == LockInv /\ UNCHANGED vars => LockInv'
  BY DEF LockInv, TypeOK, PlaceInv, MadeInv, LockConserved, Owns, vars, locals,
         names, memory

LEMMA StepKept == LockInv /\ [Next]_vars => LockInv'
<1> SUFFICES ASSUME LockInv, [Next]_vars PROVE LockInv'
  OBVIOUS
<1>1. CASE UNCHANGED vars
  BY <1>1, StutterKept
<1>2. CASE Next
  <2>1. PICK p \in Proc :
          Start(p) \/ Main(p) \/ SetupFails(p) \/ Interrupt(p) \/ Kill(p)
    BY <1>2 DEF Next
  <2>2. Calm \/ Opens(p) \/ SemCreate(p) \/ P(p) \/ V(p)
    BY <2>1, StepKinds
  <2> QED
    BY <2>1, <2>2, TypeKept, PlaceKept, MadeKept, LockKept DEF LockInv
<1> QED
  BY <1>1, <1>2

(* Types, places, creation and ownership hold for ever: whatever fails and
   whoever dies, a semaphore is taken by exactly one process or free. *)
THEOREM LockInvariant == Spec => []LockInv
  BY InitInv, StepKept, PTL DEF Spec

(* The critical sections of one semaphore exclude each other: any number of
   producers and consumers, restarted or not, interrupted anywhere. *)
THEOREM MutualExclusionHolds == Spec => []MutualExclusion
<1>1. LockInv => MutualExclusion
  <2> SUFFICES ASSUME LockInv, NEW p \in Proc, NEW q \in Proc,
                      pc[p] \in CriticalPc, pc[q] \in CriticalPc, ids[p] = ids[q]
               PROVE  p = q
    BY DEF MutualExclusion
  <2>1. ids[p] \in Producers /\ Owns(p, ids[p]) /\ Owns(q, ids[p])
    BY DEF LockInv, TypeOK, PlaceInv, AttachedPc, Owns
  <2> QED
    BY <2>1 DEF LockInv, LockConserved
<1> QED
  BY <1>1, LockInvariant, PTL

-----------------------------------------------------------------------------
(* Producers that run one after the other                                   *)

(* The inductive invariant: what the producer that is alive finds, has and has
   left to do. *)
BeforeShm == {"idle", "shm_open", "clean_close", "clean_unlink", "shm_create"}
SegmentPc == {"sem_open", "sem_close", "sem_unlink", "sem_create", "assign", "reassign",
              "ftruncate", "mmap"}
MappedPc  == {"close", "forget", "reset", "P"} \cup CriticalPc

(* No shm_open() or sem_open() without O_CREAT fails when the name is there. *)
SureLookups == {"shm_lookup", "sem_lookup"} \cap Faults = {}

LEMMA LookupFinds ==
  ASSUME SureLookups, NEW site \in {"shm_lookup", "sem_lookup"}, NEW object
  PROVE  Lookup(site, object) = {object}
  BY DEF SureLookups, Lookup, MayFail

Alone == \A p, q \in Producers : Alive(p) /\ Alive(q) => p = q

OwnPlaces ==
  \A p \in Producers :
    /\ pc[p] = "shm_create" => shmName = None
    /\ pc[p] = "sem_create" => semName = None
    /\ pc[p] \in {"clean_close", "clean_unlink"} => shmName # None /\ cleanup[p]
    /\ pc[p] \in {"sem_close", "sem_unlink"} => semName # None /\ cleanup[p]
    /\ pc[p] \in SegmentPc => idm[p] = p
    /\ pc[p] \in AttachedPc => ids[p] = p /\ semName = p
    /\ pc[p] \in MappedPc => pShm[p] = p

Knows(c, s) == s \in {idm[c], pShm[c]}

(* Which semaphore goes with a segment that a consumer knows *)
Paired ==
  /\ \A c \in Consumers : pc[c] \in {"idle", "shm_open"} => ids[c] = None
  /\ \A p \in Producers : pc[p] \in BeforeShm =>
       shmName # p /\ \A c \in Consumers : ~Knows(c, p)
  /\ \A p \in Producers, c \in Consumers : Knows(c, p) =>
       /\ pc[p] = "sem_open" => ids[c] \in {None, semName}
       /\ pc[p] \in AttachedPc \cup {"sem_create"} /\ ~cleanup[p] => ids[c] \in {None, p}

(* What is in a segment, that only its producer leaves a newline there, and that
   nobody removes another character *)
Contents ==
  /\ \A s \in Producers :
       /\ pc[s] \in SetupPc \cup {"idle"} => zone[s] = "empty"
       /\ zone[s] = "raw" =>
            pc[s] = "strip" \/ (pc[s] \in HandlerPc \cup {"exited"} /\ Owns(s, s))
       /\ pc[s] = "strip" => zone[s] # "date"
       /\ zone[s] # "cut"
  /\ \A c \in Consumers :
       pc[c] \in {"idle", "shm_open", "sem_open", "mmap"} => pShm[c] = None

RestartInv == Alone /\ OwnPlaces /\ OwnObjects /\ Paired /\ Contents

(* A step of p leaves alone what the others have, and a consumer leaves the
   names alone. *)
LEMMA OthersKept ==
  ASSUME LockInv, NEW p \in Proc,
         Start(p) \/ Main(p) \/ SetupFails(p) \/ Interrupt(p) \/ Kill(p)
  PROVE  /\ cleanup' = cleanup
         /\ \A q \in Proc \ {p} :
              /\ pc'[q] = pc[q] /\ status'[q] = status[q] /\ inside'[q] = inside[q]
              /\ idm'[q] = idm[q] /\ pShm'[q] = pShm[q] /\ ids'[q] = ids[q]
         /\ p \notin Producers => names' = names
<1> USE DEF LockInv, TypeOK, PlaceInv, ProducerPc, At, Goto, Exit, locals, names
<1>1. CASE Start(p) \/ SetupFails(p) \/ Interrupt(p) \/ Kill(p)
  BY <1>1 DEF Start, SetupFails, Interrupt, Kill
<1>2. CASE ShmOpenProducer(p) \/ ShmOpenConsumer(p) \/ CleanClose(p)
           \/ CleanUnlink(p) \/ ShmCreate(p)
  BY <1>2 DEF Lookup, ShmOpenProducer, ShmOpenConsumer, CleanClose, CleanUnlink,
     ShmCreate, GiveUp
<1>3. CASE SemOpenProducer(p) \/ SemOpenConsumer(p) \/ SemClose(p)
           \/ SemUnlink(p) \/ SemCreate(p)
  BY <1>3 DEF Lookup, SemOpenProducer, SemOpenConsumer, SemClose, SemUnlink, SemCreate, GiveUp
<1>4. CASE Assign(p) \/ Ftruncate(p) \/ Mmap(p) \/ Close(p) \/ Forget(p) \/ Reset(p)
           \/ Return1(p)
  BY <1>4 DEF Assign, Ftruncate, Mmap, Close, Forget, Reset, Return1
<1>5. CASE Loop(p)
  BY <1>5 DEF Loop, P, V, Write, Strip, Look, Display, Clear
<1>6. CASE Handler(p)
  BY <1>6 DEF Handler, HandlerShm, HandlerSem, HandlerConsumer
<1> QED
  BY <1>1, <1>2, <1>3, <1>4, <1>5, <1>6 DEF Main, Setup

(* Only a process that is alive takes a step, but for the first one. *)
LEMMA OnlyTheLiving ==
  ASSUME LockInv, NEW p \in Proc,
         Start(p) \/ Main(p) \/ SetupFails(p) \/ Interrupt(p) \/ Kill(p)
  PROVE  Alive(p) \/ Start(p)
<1> USE DEF At, Alive
<1>1. CASE Setup(p)
  BY <1>1 DEF Setup, Lookup, ShmOpenProducer, ShmOpenConsumer, CleanClose, CleanUnlink,
     ShmCreate, SemOpenProducer, SemOpenConsumer, SemClose, SemUnlink, SemCreate,
     Assign, Ftruncate, Mmap, Close, Forget, Reset, Return1
<1>2. CASE Loop(p)
  BY <1>2 DEF Loop, P, V, Write, Strip, Look, Display, Clear
<1>3. CASE Handler(p) \/ SetupFails(p) \/ Interrupt(p) \/ Kill(p)
  BY <1>3 DEF Handler, HandlerShm, HandlerSem, HandlerConsumer, SetupFails, Interrupt, Kill
<1> QED
  BY <1>1, <1>2, <1>3 DEF Main

(* While a producer takes a step, every other one is not started or has ended. *)
LEMMA OthersAway ==
  ASSUME ~Overlap, LockInv, Alone, NEW p \in Producers,
         Start(p) \/ Main(p) \/ SetupFails(p) \/ Interrupt(p) \/ Kill(p)
  PROVE  \A q \in Producers \ {p} : ~Alive(q)
  BY OnlyTheLiving DEF Alone, Start

LEMMA AloneKept ==
  ASSUME ~Overlap, LockInv, Alone, NEW p \in Proc,
         Start(p) \/ Main(p) \/ SetupFails(p) \/ Interrupt(p) \/ Kill(p)
  PROVE  Alone'
<1>1. CASE p \in Producers
  <2>1. \A q \in Producers \ {p} : ~Alive(q)'
    BY <1>1, OthersAway, OthersKept DEF Alive
  <2> QED
    BY <2>1 DEF Alone
<1>2. CASE p \notin Producers
  BY <1>2, OthersKept DEF Alone, Alive
<1> QED
  BY <1>1, <1>2

(* The producer that is alive has what it made itself. *)
LEMMA OwnPlacesKept ==
  ASSUME ~Overlap, SureLookups, LockInv, RestartInv, NEW p \in Proc,
         Start(p) \/ Main(p) \/ SetupFails(p) \/ Interrupt(p) \/ Kill(p)
  PROVE  OwnPlaces'
<1> DEFINE Own(q) ==
      /\ pc[q] = "shm_create" => shmName = None
      /\ pc[q] = "sem_create" => semName = None
      /\ pc[q] \in {"clean_close", "clean_unlink"} => shmName # None /\ cleanup[q]
      /\ pc[q] \in {"sem_close", "sem_unlink"} => semName # None /\ cleanup[q]
      /\ pc[q] \in SegmentPc => idm[q] = q
      /\ pc[q] \in AttachedPc => ids[q] = q /\ semName = q
      /\ pc[q] \in MappedPc => pShm[q] = q
<1>1. \A q \in Producers : Own(q)
  BY DEF RestartInv, OwnPlaces
<1>2. SUFFICES ASSUME NEW q \in Producers PROVE Own(q)'
  BY DEF OwnPlaces
<1>3. CASE q # p /\ p \notin Producers
  BY <1>3, <1>1, OthersKept DEF names
<1>4. CASE q # p /\ p \in Producers
  <2>1. ~Alive(q)
    BY <1>4, OthersAway DEF RestartInv
  <2>2. pc'[q] \in {"idle", "exited"}
    BY <1>4, <2>1, OthersKept DEF Alive
  <2> QED
    BY <2>2 DEF SegmentPc, AttachedPc, MappedPc, CriticalPc
<1>5. CASE q = p
  <2> USE <1>1, <1>5 DEF LockInv, TypeOK, At, Goto, Exit, locals, names, SegmentPc,
        AttachedPc, MappedPc, CriticalPc
  <2>1. CASE Start(p) \/ SetupFails(p)
    BY <2>1 DEF Start, SetupFails
  <2>2. CASE Interrupt(p) \/ Kill(p)
    BY <2>2 DEF Interrupt, Kill
  <2>3. CASE ShmOpenProducer(p) \/ ShmOpenConsumer(p)
    BY <2>3, LookupFinds DEF ShmOpenProducer, ShmOpenConsumer
  <2>4. CASE CleanClose(p) \/ CleanUnlink(p) \/ ShmCreate(p)
    BY <2>4 DEF CleanClose, CleanUnlink, ShmCreate, GiveUp
  <2>5. CASE SemOpenProducer(p) \/ SemOpenConsumer(p)
    BY <2>5, LookupFinds DEF SemOpenProducer, SemOpenConsumer
  <2>6. CASE SemClose(p) \/ SemUnlink(p) \/ SemCreate(p)
    BY <2>6 DEF SemClose, SemUnlink, SemCreate, GiveUp
  <2>7. CASE Assign(p) \/ Ftruncate(p) \/ Mmap(p)
    BY <2>7 DEF Assign, Ftruncate, Mmap
  <2>8. CASE Close(p) \/ Forget(p) \/ Reset(p) \/ Return1(p)
    BY <2>8 DEF Close, Forget, Reset, Return1
  <2>9. CASE Loop(p)
    BY <2>9 DEF Loop, P, V, Write, Strip, Look, Display, Clear
  <2>10. CASE Handler(p)
    BY <2>10 DEF Handler, HandlerShm, HandlerSem, HandlerConsumer
  <2> QED
    BY <2>1, <2>2, <2>3, <2>4, <2>5, <2>6, <2>7, <2>8, <2>9, <2>10 DEF Main, Setup
<1> QED
  BY <1>3, <1>4, <1>5

(* How a step may change what a process knows of segments. *)
LEMMA KnowledgeGrows ==
  ASSUME LockInv, NEW p \in Proc,
         Start(p) \/ Main(p) \/ SetupFails(p) \/ Interrupt(p) \/ Kill(p)
  PROVE  /\ shmName' \in {shmName, None} \/ (ShmCreate(p) /\ shmName' \in {shmName, p})
         /\ ~ShmCreate(p) => idm'[p] \in {idm[p], None} \/ (pc[p] = "shm_open" /\ idm'[p] = shmName)
         /\ pShm'[p] \in {pShm[p], idm[p]}
         /\ pc'[p] \in BeforeShm => pc[p] \in BeforeShm
<1> USE DEF LockInv, TypeOK, At, Goto, Exit, locals, names, BeforeShm
<1>1. CASE Start(p) \/ SetupFails(p) \/ Interrupt(p) \/ Kill(p)
  BY <1>1 DEF Start, SetupFails, Interrupt, Kill
<1>2. CASE ShmOpenProducer(p) \/ ShmOpenConsumer(p)
  BY <1>2 DEF Lookup, ShmOpenProducer, ShmOpenConsumer
<1>3. CASE CleanClose(p) \/ CleanUnlink(p) \/ ShmCreate(p)
  BY <1>3 DEF CleanClose, CleanUnlink, ShmCreate, GiveUp
<1>4. CASE SemOpenProducer(p) \/ SemOpenConsumer(p) \/ SemClose(p)
           \/ SemUnlink(p) \/ SemCreate(p)
  BY <1>4 DEF Lookup, SemOpenProducer, SemOpenConsumer, SemClose, SemUnlink, SemCreate, GiveUp
<1>5. CASE Assign(p) \/ Ftruncate(p) \/ Mmap(p) \/ Close(p) \/ Forget(p) \/ Reset(p)
           \/ Return1(p)
  BY <1>5 DEF Assign, Ftruncate, Mmap, Close, Forget, Reset, Return1
<1>6. CASE Loop(p)
  BY <1>6 DEF Loop, P, V, Write, Strip, Look, Display, Clear
<1>7. CASE Handler(p)
  BY <1>7 DEF Handler, HandlerShm, HandlerSem, HandlerConsumer
<1> QED
  BY <1>1, <1>2, <1>3, <1>4, <1>5, <1>6, <1>7 DEF Main, Setup

(* How a step of a producer reaches the places where its semaphore matters *)
LEMMA ProducerArrives ==
  ASSUME SureLookups, LockInv, NEW p \in Producers,
         Start(p) \/ Main(p) \/ SetupFails(p) \/ Interrupt(p) \/ Kill(p)
  PROVE  /\ pc'[p] = "sem_open" => pc[p] \in BeforeShm
         /\ pc'[p] \in AttachedPc \cup {"sem_create"} =>
              \/ pc[p] \in AttachedPc \cup {"sem_create", "sem_unlink"}
              \/ pc[p] = "sem_open" /\ semName = None
<1> USE DEF LockInv, TypeOK, At, Goto, Exit, locals, names, BeforeShm, AttachedPc, CriticalPc
<1>1. CASE Start(p) \/ SetupFails(p) \/ Interrupt(p) \/ Kill(p)
  BY <1>1 DEF Start, SetupFails, Interrupt, Kill
<1>2. CASE ShmOpenProducer(p) \/ CleanClose(p) \/ CleanUnlink(p) \/ ShmCreate(p)
  BY <1>2, LookupFinds DEF ShmOpenProducer, CleanClose, CleanUnlink, ShmCreate, GiveUp
<1>3. CASE SemOpenProducer(p) \/ SemClose(p) \/ SemUnlink(p) \/ SemCreate(p)
  BY <1>3, LookupFinds DEF SemOpenProducer, SemClose, SemUnlink, SemCreate, GiveUp
<1>4. CASE Assign(p) \/ Ftruncate(p) \/ Close(p) \/ Forget(p) \/ Reset(p) \/ Return1(p)
  BY <1>4 DEF Assign, Ftruncate, Close, Forget, Reset, Return1
<1>5. CASE Mmap(p)
  <2>1. ~(pc'[p] = "sem_open") /\ pc[p] = "mmap"
    BY <1>5 DEF Mmap
  <2> QED
    BY <2>1 DEF AttachedPc
<1>6. CASE Loop(p)
  BY <1>6 DEF Loop, P, V, Write, Strip, Look, Display, Clear
<1>7. CASE Handler(p)
  BY <1>7 DEF Handler, HandlerShm, HandlerSem, HandlerConsumer
<1>8. CASE ShmOpenConsumer(p) \/ SemOpenConsumer(p)
  BY <1>8, ConstantsAssumption DEF ShmOpenConsumer, SemOpenConsumer
<1> QED
  BY <1>1, <1>2, <1>3, <1>4, <1>5, <1>6, <1>7, <1>8 DEF Main, Setup

(* What a step of a consumer may change *)
LEMMA ConsumerSteps ==
  ASSUME LockInv, NEW c \in Consumers,
         Start(c) \/ Main(c) \/ SetupFails(c) \/ Interrupt(c) \/ Kill(c)
  PROVE  /\ ids'[c] = ids[c] \/ (pc[c] = "sem_open" /\ ids'[c] \in {semName, None})
         /\ pc'[c] \in {"idle", "shm_open"} => pc[c] \in {"idle", "shm_open"} /\ ids'[c] = ids[c]
         /\ pc'[c] \in {"idle", "shm_open", "sem_open", "mmap"} =>
              pc[c] \in {"idle", "shm_open", "sem_open", "mmap"} /\ pShm'[c] = pShm[c]
<1> c \in Proc /\ c \notin Producers
  BY ConstantsAssumption
<1> USE DEF LockInv, TypeOK, PlaceInv, ProducerPc, At, Goto, Exit, locals
<1>1. CASE Start(c) \/ SetupFails(c) \/ Interrupt(c) \/ Kill(c)
  BY <1>1 DEF Start, SetupFails, Interrupt, Kill
<1>2. CASE ShmOpenConsumer(c) \/ SemOpenConsumer(c) \/ Mmap(c) \/ Close(c) \/ Forget(c)
           \/ Return1(c)
  BY <1>2 DEF Lookup, ShmOpenConsumer, SemOpenConsumer, Mmap, Close, Forget, Return1
<1>3. ~(CleanClose(c) \/ CleanUnlink(c) \/ ShmCreate(c) \/ SemClose(c) \/ SemUnlink(c)
        \/ SemCreate(c) \/ Assign(c) \/ Ftruncate(c) \/ Reset(c)
        \/ ShmOpenProducer(c) \/ SemOpenProducer(c))
  BY DEF CleanClose, CleanUnlink, ShmCreate, SemClose, SemUnlink, SemCreate, Assign,
     Ftruncate, Reset, Lookup, ShmOpenProducer, SemOpenProducer
<1>4. CASE Loop(c)
  BY <1>4 DEF Loop, P, V, Write, Strip, Look, Display, Clear
<1>5. CASE Handler(c)
  BY <1>5 DEF Handler, HandlerShm, HandlerSem, HandlerConsumer
<1> QED
  BY <1>1, <1>2, <1>3, <1>4, <1>5 DEF Main, Setup

(* A consumer that knows a segment has the semaphore that goes with it, or the
   producer is about to remove the one it has. *)
LEMMA PairedKept ==
  ASSUME ~Overlap, SureLookups, LockInv, RestartInv, NEW p \in Proc,
         Start(p) \/ Main(p) \/ SetupFails(p) \/ Interrupt(p) \/ Kill(p)
  PROVE  Paired'
<1> USE DEF RestartInv, Paired, Knows
<1>1. ASSUME NEW c \in Consumers, pc'[c] \in {"idle", "shm_open"}
      PROVE  ids'[c] = None
  <2>1. CASE c = p
    BY <1>1, <2>1, ConsumerSteps
  <2>2. CASE c # p
    BY <1>1, <2>2, OthersKept
  <2> QED
    BY <2>1, <2>2
<1>2. ASSUME NEW q \in Producers, pc'[q] \in BeforeShm
      PROVE  shmName' # q /\ \A c \in Consumers : ~Knows(c, q)'
  <2>1. pc[q] \in BeforeShm
    BY <1>2, OthersKept, KnowledgeGrows
  <2>2. shmName # q /\ \A c \in Consumers : ~Knows(c, q)
    BY <2>1
  <2>3. ShmCreate(p) => p # q
    BY <1>2 DEF ShmCreate, Goto, BeforeShm, LockInv, TypeOK
  <2>4. shmName' # q
    BY <2>2, <2>3, KnowledgeGrows
  <2>5. ASSUME NEW c \in Consumers PROVE ~Knows(c, q)'
    <3>1. CASE c = p
      <4>1. ~ShmCreate(c)
        BY DEF ShmCreate, At, LockInv, PlaceInv, ProducerPc
      <4> QED
        BY <2>2, <3>1, <4>1, KnowledgeGrows
    <3>2. CASE c # p
      BY <2>2, <3>2, OthersKept
    <3> QED
      BY <3>1, <3>2
  <2> QED
    BY <2>4, <2>5
<1>3. ASSUME NEW q \in Producers, NEW c \in Consumers, Knows(c, q)'
      PROVE  /\ pc'[q] = "sem_open" => ids'[c] \in {None, semName'}
             /\ pc'[q] \in AttachedPc \cup {"sem_create"} /\ ~cleanup'[q] => ids'[c] \in {None, q}
  <2>1. CASE p = q
    <3>1. ids'[c] = ids[c] /\ Knows(c, q) /\ cleanup'[q] = cleanup[q]
      BY <1>3, <2>1, OthersKept
    <3>2. pc[q] \notin BeforeShm
      BY <3>1
    <3>3. pc'[q] # "sem_open"
      BY <3>2, <2>1, ProducerArrives
    <3>4. ASSUME pc'[q] \in AttachedPc \cup {"sem_create"}, ~cleanup'[q]
          PROVE  ids'[c] \in {None, q}
      BY <3>1, <3>4, <2>1, ProducerArrives DEF OwnPlaces
    <3> QED
      BY <3>3, <3>4
  <2>2. CASE p # q /\ p \in Producers
    <3>1. ~Alive(q) /\ pc'[q] = pc[q]
      BY <2>2, OthersAway, OthersKept
    <3> QED
      BY <3>1 DEF Alive, AttachedPc, CriticalPc
  <2>3. CASE p \in Consumers /\ p # c
    BY <1>3, <2>3, OthersKept DEF names
  <2>4. CASE p = c
    <3>1. /\ pc'[q] = pc[q] /\ cleanup'[q] = cleanup[q]
          /\ semName' = semName /\ shmName' = shmName
      BY <2>4, OthersKept DEF names
    <3>2. ~ShmCreate(c)
      BY DEF ShmCreate, At, LockInv, PlaceInv, ProducerPc
    <3>3. CASE pc[c] = "shm_open"
      <4>1. ids'[c] = None
        BY <2>4, <3>3, ConsumerSteps
      <4> QED
        BY <4>1
    <3>4. CASE pc[c] # "shm_open"
      <4>1. Knows(c, q)
        BY <1>3, <2>4, <3>2, <3>4, KnowledgeGrows
      <4>2. ids'[c] \in {ids[c], semName, None}
        BY <2>4, ConsumerSteps
      <4>3. pc[q] \in AttachedPc \cup {"sem_create"} => semName \in {None, q}
        BY DEF OwnPlaces
      <4> QED
        BY <3>1, <4>1, <4>2, <4>3
    <3> QED
      BY <3>3, <3>4
  <2> QED
    BY <2>1, <2>2, <2>3, <2>4
<1> HIDE DEF Knows
<1> QED
  BY <1>1, <1>2, <1>3

(* Only four steps write into a segment, none leads back before the loop, and
   the handler keeps the semaphore that was taken. *)
LEMMA WritingSteps ==
  ASSUME LockInv, NEW p \in Proc,
         Start(p) \/ Main(p) \/ SetupFails(p) \/ Interrupt(p) \/ Kill(p)
  PROVE  /\ zone' = zone \/ Reset(p) \/ Write(p) \/ Strip(p) \/ Clear(p)
         /\ pc'[p] \in SetupPc \cup {"idle"} => pc[p] \in SetupPc \cup {"idle"}
         /\ pc[p] \in {"strip"} \cup HandlerPc =>
              \/ Strip(p) /\ pc[p] = "strip"
              \/ /\ pc'[p] \in HandlerPc \cup {"exited"}
                 /\ inside'[p] = inside[p] /\ ids'[p] = ids[p]
         /\ pc'[p] = "strip" => Write(p)
         /\ pc[p] # "exited"
<1> USE DEF LockInv, TypeOK, At, Goto, Exit, Alive, locals, names, memory, SetupPc, HandlerPc
<1>1. CASE Start(p) \/ SetupFails(p) \/ Interrupt(p) \/ Kill(p)
  BY <1>1 DEF Start, SetupFails, Interrupt, Kill
<1>2. CASE ShmOpenProducer(p) \/ ShmOpenConsumer(p) \/ CleanClose(p)
           \/ CleanUnlink(p) \/ ShmCreate(p)
  BY <1>2 DEF Lookup, ShmOpenProducer, ShmOpenConsumer, CleanClose, CleanUnlink,
     ShmCreate, GiveUp
<1>3. CASE SemOpenProducer(p) \/ SemOpenConsumer(p) \/ SemClose(p)
           \/ SemUnlink(p) \/ SemCreate(p)
  BY <1>3 DEF Lookup, SemOpenProducer, SemOpenConsumer, SemClose, SemUnlink, SemCreate, GiveUp
<1>4. CASE Assign(p) \/ Ftruncate(p) \/ Mmap(p) \/ Close(p) \/ Forget(p) \/ Reset(p)
           \/ Return1(p)
  BY <1>4 DEF Assign, Ftruncate, Mmap, Close, Forget, Reset, Return1
<1>5. CASE Loop(p)
  BY <1>5 DEF Loop, P, V, Write, Strip, Look, Display, Clear
<1>6. CASE Handler(p)
  BY <1>6 DEF Handler, HandlerShm, HandlerSem, HandlerConsumer
<1> QED
  BY <1>1, <1>2, <1>3, <1>4, <1>5, <1>6 DEF Main, Setup

(* Each of the four writes into the segment that is mapped. *)
LEMMA Writes ==
  ASSUME LockInv, NEW p \in Proc, NEW s \in Producers
  PROVE  /\ zone[s] = "empty" /\ (Reset(p) \/ Strip(p) \/ Clear(p)) => zone'[s] = "empty"
         /\ pShm[p] # s /\ (Reset(p) \/ Write(p) \/ Strip(p) \/ Clear(p)) => zone'[s] = zone[s]
         /\ pShm[p] = s /\ Write(p) => zone'[s] = "raw" /\ pc'[p] = "strip"
         /\ pShm[p] = s /\ (Reset(p) \/ Clear(p)) => zone'[s] = "empty"
         /\ pShm[p] = s /\ Strip(p) => zone'[s] # "raw"
         /\ zone[s] \notin {"date", "cut"} /\ Strip(p) => zone'[s] # "cut"
  BY DEF LockInv, TypeOK, Reset, Write, Strip, Stripped, Clear, Goto

LEMMA ContentsKept ==
  ASSUME ~Overlap, LockInv, RestartInv, NEW p \in Proc,
         Start(p) \/ Main(p) \/ SetupFails(p) \/ Interrupt(p) \/ Kill(p)
  PROVE  Contents'
<1> USE DEF RestartInv, Contents
<1>1. (Write(p) \/ Strip(p) \/ Reset(p)) => p \in Producers /\ pShm[p] = p
  BY DEF Write, Strip, Reset, At, LockInv, PlaceInv, ProducerPc, OwnPlaces, MappedPc, CriticalPc
<1>2. ASSUME NEW s \in Producers, pc'[s] \in SetupPc \cup {"idle"}
      PROVE  zone'[s] = "empty"
  <2>1. pc[s] \in SetupPc \cup {"idle"}
    BY <1>2, OthersKept, WritingSteps
  <2>2. zone[s] = "empty"
    BY <2>1
  <2>3. Write(p) => pShm[p] # s
    BY <1>1, <1>2, Writes DEF SetupPc
  <2> QED
    BY <2>2, <2>3, Writes, WritingSteps
<1>3. ASSUME NEW s \in Producers, zone'[s] = "raw"
      PROVE  pc'[s] = "strip" \/ (pc'[s] \in HandlerPc \cup {"exited"} /\ Owns(s, s)')
  <2>1. CASE Write(p) /\ pShm[p] = s
    BY <2>1, <1>1, Writes
  <2>2. CASE ~(Write(p) /\ pShm[p] = s)
    <3>1. zone[s] = "raw" /\ ~(Strip(p) /\ pShm[p] = s)
      BY <2>2, <1>3, Writes, WritingSteps DEF LockInv, TypeOK
    <3>2. /\ pc[s] = "strip" \/ pc[s] \in HandlerPc \cup {"exited"}
          /\ Owns(s, s)
      BY <3>1 DEF LockInv, PlaceInv, OwnPlaces, Owns, AttachedPc, CriticalPc
    <3>3. CASE s = p
      BY <3>1, <3>2, <3>3, <1>1, WritingSteps DEF Owns
    <3>4. CASE s # p
      BY <3>2, <3>4, <3>1, OthersKept DEF Owns
    <3> QED
      BY <3>3, <3>4
  <2> QED
    BY <2>1, <2>2
<1>4. ASSUME NEW c \in Consumers, pc'[c] \in {"idle", "shm_open", "sem_open", "mmap"}
      PROVE  pShm'[c] = None
  BY <1>4, OthersKept, ConsumerSteps
<1>5. ASSUME NEW s \in Producers, pc'[s] = "strip"
      PROVE  zone'[s] # "date"
  <2>1. CASE s = p
    <3>1. Write(p)
      BY <1>5, <2>1, WritingSteps
    <3> QED
      BY <1>1, <2>1, <3>1, Writes
  <2>2. CASE s # p
    <3>1. zone[s] # "date"
      BY <1>5, <2>2, OthersKept
    <3>2. (Write(p) \/ Strip(p) \/ Reset(p)) => pShm[p] # s
      BY <1>1, <2>2
    <3>3. CASE Clear(p) /\ pShm[p] = s
      BY <3>3, Writes
    <3> QED
      BY <3>1, <3>2, <3>3, Writes, WritingSteps
  <2> QED
    BY <2>1, <2>2
<1>6. ASSUME NEW s \in Producers
      PROVE  zone'[s] # "cut"
  <2>1. CASE Strip(p) /\ pShm[p] = s
    <3>1. zone[s] \notin {"date", "cut"}
      BY <1>1, <2>1 DEF Strip, At
    <3> QED
      BY <2>1, <3>1, Writes
  <2>2. CASE ~(Strip(p) /\ pShm[p] = s)
    BY <2>2, Writes, WritingSteps
  <2> QED
    BY <2>1, <2>2
<1> QED
  BY <1>2, <1>3, <1>4, <1>5, <1>6

LEMMA RestartStutter == RestartInv /\ UNCHANGED vars => RestartInv'
  BY DEF RestartInv, Alone, OwnPlaces, OwnObjects, Paired, Contents, Knows, Owns, Alive,
         InLoop, vars, locals, names, memory

LEMMA RestartStep ==
  ASSUME ~Overlap, SureLookups
  PROVE  LockInv /\ RestartInv /\ [Next]_vars => RestartInv'
<1> SUFFICES ASSUME LockInv, RestartInv, [Next]_vars PROVE RestartInv'
  OBVIOUS
<1>1. CASE UNCHANGED vars
  BY <1>1, RestartStutter
<1>2. CASE Next
  <2>1. PICK p \in Proc :
          Start(p) \/ Main(p) \/ SetupFails(p) \/ Interrupt(p) \/ Kill(p)
    BY <1>2 DEF Next
  <2>2. OwnPlaces'
    BY <2>1, OwnPlacesKept
  <2>3. OwnObjects'
    BY <2>2 DEF OwnPlaces, OwnObjects, InLoop, AttachedPc, MappedPc
  <2>4. Alone' /\ Paired' /\ Contents'
    BY <2>1, AloneKept, PairedKept, ContentsKept DEF RestartInv
  <2> QED
    BY <2>2, <2>3, <2>4 DEF RestartInv
<1> QED
  BY <1>1, <1>2

(* Producers that run one after the other, with -d or not, whoever is
   interrupted or killed and whatever else fails, as long as no first open of a
   name that is there does (prodcons4.c:192, 218): each one works on a segment and
   a semaphore of its own (prodcons4.c:192-252).  A producer whose first open
   fails for another reason than ENOENT would open the old objects. *)
THEOREM RestartInvariant ==
  ASSUME ~Overlap, SureLookups
  PROVE  Spec => []RestartInv
<1>1. Init => RestartInv
  BY DEF Init, RestartInv, Alone, OwnPlaces, OwnObjects, Paired, Contents, Knows, Alive,
         InLoop, SegmentPc, AttachedPc, MappedPc, CriticalPc
<1>2. LockInv /\ RestartInv /\ [Next]_vars => RestartInv'
  BY RestartStep
<1> QED
  BY <1>1, <1>2, LockInvariant, PTL DEF Spec

(* The objects of the loop are the ones the producer made itself, under the same
   condition. *)
THEOREM OwnObjectsHolds ==
  ASSUME ~Overlap, SureLookups
  PROVE  Spec => []OwnObjects
<1>1. RestartInv => OwnObjects
  BY DEF RestartInv
<1> QED
  BY <1>1, RestartInvariant, PTL

(* Only -d parts the segment and the semaphore of a running producer for its
   consumers, as long as the opens of what is there succeed. *)
THEOREM SharedMeansLockedHolds ==
  ASSUME ~Overlap, SureLookups
  PROVE  Spec => []SharedMeansLocked
<1>1. LockInv /\ RestartInv => SharedMeansLocked
  <2> SUFFICES ASSUME LockInv, RestartInv, NEW p \in Producers, NEW c \in Consumers,
                      InLoop(p), InLoop(c), pShm[c] = pShm[p], ids[c] # ids[p]
               PROVE  cleanup[p]
    BY DEF SharedMeansLocked
  <2>1. pShm[p] = p /\ ids[p] = p /\ pc[p] \in AttachedPc
    BY DEF RestartInv, OwnObjects, InLoop, AttachedPc
  <2>2. Knows(c, p) /\ ids[c] # None
    BY <2>1 DEF Knows, LockInv, PlaceInv, InLoop, AttachedPc
  <2> QED
    BY <2>1, <2>2 DEF RestartInv, Paired
<1> QED
  BY <1>1, LockInvariant, RestartInvariant, PTL

(* The display comes behind a look, a segment is mapped once, and a program ends
   with an error, or well, at one place each. *)
LEMMA SinglePlaces ==
  ASSUME LockInv, NEW p \in Proc,
         Start(p) \/ Main(p) \/ SetupFails(p) \/ Interrupt(p) \/ Kill(p)
  PROVE  /\ pc'[p] = "print" => Look(p)
         /\ pShm'[p] = pShm[p] \/ pc[p] = "mmap"
         /\ status'[p] = status[p] \/ pc'[p] = "exited"
         /\ status'[p] = "error" => status[p] = "error" \/ pc[p] = "return"
         /\ status'[p] = "ok" /\ p \in Producers => status[p] = "ok" \/ HandlerSem(p)
         /\ pc'[p] = "handler_sem" => shmName' = None
<1> USE DEF LockInv, TypeOK, At, Goto, Exit, locals, names, memory
<1>1. CASE Start(p) \/ SetupFails(p) \/ Interrupt(p) \/ Kill(p)
  BY <1>1 DEF Start, SetupFails, Interrupt, Kill
<1>2. CASE ShmOpenProducer(p) \/ ShmOpenConsumer(p) \/ CleanClose(p)
           \/ CleanUnlink(p) \/ ShmCreate(p)
  BY <1>2 DEF Lookup, ShmOpenProducer, ShmOpenConsumer, CleanClose, CleanUnlink,
     ShmCreate, GiveUp
<1>3. CASE SemOpenProducer(p) \/ SemOpenConsumer(p) \/ SemClose(p)
           \/ SemUnlink(p) \/ SemCreate(p)
  BY <1>3 DEF Lookup, SemOpenProducer, SemOpenConsumer, SemClose, SemUnlink, SemCreate, GiveUp
<1>4. CASE Assign(p) \/ Ftruncate(p) \/ Mmap(p) \/ Close(p) \/ Forget(p) \/ Reset(p)
           \/ Return1(p)
  BY <1>4 DEF Assign, Ftruncate, Mmap, Close, Forget, Reset, Return1
<1>5. CASE Loop(p)
  BY <1>5 DEF Loop, P, V, Write, Strip, Look, Display, Clear
<1>6. CASE Handler(p)
  BY <1>6, ConstantsAssumption DEF Handler, HandlerShm, HandlerSem, HandlerConsumer
<1> QED
  BY <1>1, <1>2, <1>3, <1>4, <1>5, <1>6 DEF Main, Setup

(* Nobody spoils a date that is about to be displayed. *)
LEMMA WholeDateKept ==
  ASSUME ~Overlap, LockInv, RestartInv, WholeDate, NEW p \in Proc,
         Start(p) \/ Main(p) \/ SetupFails(p) \/ Interrupt(p) \/ Kill(p)
  PROVE  WholeDate'
<1> SUFFICES ASSUME NEW c \in Consumers, pc'[c] = "print",
                    \A d \in Consumers : pShm'[d] = pShm'[c] => ids'[d] = pShm'[c]
             PROVE  zone'[pShm'[c]] = "date"
  BY DEF WholeDate, At
<1> DEFINE s == pShm'[c]
<1> HIDE DEF s
<1>0. c \in Proc /\ c \notin Producers
  BY ConstantsAssumption
<1>1. s \in Producers /\ ids'[c] = s /\ pShm'[c] = s
  <2>1. ids'[c] # None /\ ids'[c] \in Handle
    BY <1>0, PlaceKept, TypeKept DEF PlaceInv, TypeOK, AttachedPc, CriticalPc
  <2> QED
    BY <2>1 DEF s
<1>2. \A q, r \in Proc : Owns(q, s) /\ Owns(r, s) => q = r
  BY <1>1 DEF LockInv, LockConserved
<1>3. CASE c = p
  <2>1. Look(c) /\ pShm[c] = s /\ ids[c] = s /\ zone' = zone /\ Owns(c, s)
    BY <1>1, <1>3, SinglePlaces
       DEF Look, At, locals, memory, LockInv, PlaceInv, CriticalPc, Owns
  <2>2. zone[s] # "empty" /\ zone[s] # "cut"
    BY <1>1, <2>1 DEF RestartInv, Contents, Look, Goto, LockInv, TypeOK, Exit
  <2>3. ASSUME zone[s] = "raw" PROVE FALSE
    <3>1. Owns(s, s)
      BY <1>1, <2>3 DEF RestartInv, Contents, Owns, LockInv, PlaceInv, OwnPlaces,
                        AttachedPc, CriticalPc
    <3> QED
      BY <3>1, <2>1, <1>0, <1>1, <1>2
  <2> QED
    BY <1>1, <2>1, <2>2, <2>3 DEF LockInv, TypeOK, s
<1>4. CASE c # p
  <2>1. pc[c] = "print" /\ pShm[c] = s /\ ids[c] = s
    BY <1>0, <1>1, <1>4, OthersKept
  <2>2. Owns(c, s)
    BY <1>0, <2>1 DEF LockInv, PlaceInv, CriticalPc, Owns
  <2>3. ASSUME NEW d \in Consumers, pShm[d] = s PROVE ids[d] = s
    <3>1. CASE d # p
      <4>1. pShm'[d] = s /\ ids'[d] = ids[d]
        BY <2>3, <3>1, OthersKept
      <4> QED
        BY <4>1, <1>1
    <3>2. CASE d = p
      <4>1. pc[d] \notin {"mmap", "sem_open"}
        BY <2>3, <1>1, ConstantsAssumption DEF RestartInv, Contents
      <4>2. pShm'[d] = s /\ ids'[d] = ids[d]
        BY <2>3, <3>2, <4>1, SinglePlaces, ConsumerSteps
      <4> QED
        BY <4>2, <1>1
    <3> QED
      BY <3>1, <3>2
  <2>4. zone[s] = "date"
    BY <2>1, <2>3 DEF WholeDate, At
  <2>5. CASE Reset(p)
    <3>1. p \in Producers /\ pShm[p] = p /\ zone[p] = "empty"
      BY <2>5 DEF Reset, At, LockInv, PlaceInv, ProducerPc, RestartInv, OwnPlaces,
                  MappedPc, Contents, SetupPc
    <3> QED
      BY <1>1, <2>4, <2>5, <3>1, Writes DEF s
  <2>6. CASE Write(p) \/ Strip(p)
    <3>1. p \in Producers /\ pShm[p] = p /\ Owns(p, p)
      BY <2>6 DEF Write, Strip, At, LockInv, PlaceInv, ProducerPc, RestartInv, OwnPlaces,
                  MappedPc, AttachedPc, CriticalPc, Owns
    <3>2. p # s
      BY <1>0, <1>2, <2>2, <3>1
    <3> QED
      BY <1>1, <2>4, <2>6, <3>1, <3>2, Writes DEF s
  <2>7. CASE Clear(p)
    <3>1. ids[p] = s => Owns(p, s)
      BY <2>7 DEF Clear, At, LockInv, PlaceInv, CriticalPc, Owns
    <3>2. pShm[p] = s => ids[p] = s
      BY <2>3, <2>7 DEF Clear, At, RestartInv, OwnPlaces, MappedPc, AttachedPc, CriticalPc
    <3>3. pShm[p] # s
      BY <1>0, <1>2, <1>4, <2>2, <3>1, <3>2
    <3> QED
      BY <1>1, <2>4, <2>7, <3>3, Writes DEF s
  <2>8. CASE zone' = zone
    BY <1>1, <2>4, <2>8
  <2> QED
    BY <2>5, <2>6, <2>7, <2>8, WritingSteps
<1> QED
  BY <1>3, <1>4

(* A consumer displays whole dates, if nobody attached its segment with the
   semaphore of another producer, and the opens of what is there succeed. *)
THEOREM WholeDateHolds ==
  ASSUME ~Overlap, SureLookups
  PROVE  Spec => []WholeDate
<1>1. Init => WholeDate
  BY ConstantsAssumption DEF Init, WholeDate, At
<1>2. LockInv /\ RestartInv /\ WholeDate /\ [Next]_vars => WholeDate'
  <2> SUFFICES ASSUME LockInv, RestartInv, WholeDate, [Next]_vars PROVE WholeDate'
    OBVIOUS
  <2>1. CASE UNCHANGED vars
    BY <2>1 DEF WholeDate, At, vars, locals, memory
  <2>2. CASE Next
    BY <2>2, WholeDateKept DEF Next
  <2> QED
    BY <2>1, <2>2
<1> QED
  BY <1>1, <1>2, LockInvariant, RestartInvariant, PTL DEF Spec

(* With -d a producer starts, as long as no call fails for want of resources. *)
THEOREM RestartWorksHolds ==
  ASSUME ~Overlap, Faults = {}
  PROVE  Spec => []RestartWorks
<1> SureLookups
  BY DEF SureLookups
<1> DEFINE Starts == \A p \in Producers :
      cleanup[p] => pc[p] # "return" /\ status[p] # "error"
<1>1. Init => Starts
  BY ConstantsAssumption DEF Init
<1>2. ASSUME LockInv, RestartInv, Starts, [Next]_vars
      PROVE  Starts'
  <2>1. CASE UNCHANGED vars
    BY <1>2, <2>1 DEF vars
  <2>2. CASE Next
    <3>1. PICK p \in Proc :
            Start(p) \/ Main(p) \/ SetupFails(p) \/ Interrupt(p) \/ Kill(p)
      BY <2>2 DEF Next
    <3>2. ~SetupFails(p)
      BY DEF SetupFails, MayFail
    <3>3. ASSUME p \in Producers, cleanup[p], pc[p] # "return"
          PROVE  pc'[p] # "return"
      <4> USE <1>2, <3>3 DEF LockInv, TypeOK, At, Goto, Exit
      <4>1. CASE Start(p) \/ Interrupt(p) \/ Kill(p)
        BY <4>1 DEF Start, Interrupt, Kill
      <4>2. CASE ShmOpenProducer(p) \/ CleanClose(p) \/ CleanUnlink(p) \/ ShmCreate(p)
        BY <4>2, LookupFinds DEF ShmOpenProducer, CleanClose, CleanUnlink, ShmCreate, RestartInv,
                    OwnPlaces
      <4>3. CASE SemOpenProducer(p) \/ SemClose(p) \/ SemUnlink(p) \/ SemCreate(p)
        BY <4>3, LookupFinds DEF SemOpenProducer, SemClose, SemUnlink, SemCreate, RestartInv,
                    OwnPlaces
      <4>4. CASE Assign(p) \/ Ftruncate(p) \/ Mmap(p) \/ Close(p) \/ Forget(p) \/ Reset(p)
                 \/ Return1(p)
        BY <4>4 DEF Assign, Ftruncate, Mmap, Close, Forget, Reset, Return1
      <4>5. CASE Loop(p)
        BY <4>5 DEF Loop, P, V, Write, Strip, Look, Display, Clear
      <4>6. CASE Handler(p)
        BY <4>6 DEF Handler, HandlerShm, HandlerSem, HandlerConsumer
      <4>7. ~ShmOpenConsumer(p) /\ ~SemOpenConsumer(p)
        BY ConstantsAssumption DEF ShmOpenConsumer, SemOpenConsumer
      <4> QED
        BY <3>1, <3>2, <4>1, <4>2, <4>3, <4>4, <4>5, <4>6, <4>7 DEF Main, Setup
    <3> QED
      BY <1>2, <3>1, <3>3, OthersKept, SinglePlaces
  <2> QED
    BY <1>2, <2>1, <2>2
<1>3. Starts => RestartWorks
  BY DEF RestartWorks
<1> HIDE DEF Starts
<1> QED
  BY <1>1, <1>2, <1>3, LockInvariant, RestartInvariant, PTL DEF Spec

(* A handler that ends well has gone through both unlinks. *)
CleanInv ==
  /\ CleanExit
  /\ \A p \in Producers :
       /\ status[p] # "none" => pc[p] = "exited"
       /\ pc[p] = "handler_sem" => shmName # p

(* Any number of producers at the same time, whatever fails: what a handler that
   ends well leaves behind. *)
THEOREM CleanExitHolds == Spec => []CleanExit
<1>1. Init => CleanInv
  BY DEF Init, CleanInv, CleanExit
<1>2. ASSUME LockInv, CleanInv, [Next]_vars
      PROVE  CleanInv'
  <2>1. CASE UNCHANGED vars
    BY <1>2, <2>1 DEF vars, locals, names, CleanInv, CleanExit
  <2>2. CASE Next
    <3>1. PICK p \in Proc :
            Start(p) \/ Main(p) \/ SetupFails(p) \/ Interrupt(p) \/ Kill(p)
      BY <2>2 DEF Next
    <3> DEFINE Clean(q) == /\ status[q] # "none" => pc[q] = "exited"
                           /\ pc[q] = "handler_sem" => shmName # q
                           /\ status[q] = "ok" => shmName # q /\ (semName = q => ids[q] = None)
    <3>2. \A q \in Producers : Clean(q)
      BY <1>2 DEF CleanInv, CleanExit
    <3>3. ASSUME NEW q \in Producers, q # p PROVE Clean(q)'
      <4>1. /\ pc'[q] = pc[q] /\ status'[q] = status[q] /\ ids'[q] = ids[q]
        BY <1>2, <3>1, <3>3, OthersKept
      <4>2. shmName' = q => shmName = q
        BY <1>2, <3>1, <3>3, KnowledgeGrows
      <4>3. semName' = q => semName = q
        <5>1. SemCreate(p) => semName' \in {semName, p}
          BY DEF SemCreate
        <5> QED
          BY <1>2, <3>1, <3>3, <5>1, UnmadeShrinks
      <4> QED
        BY <3>2, <4>1, <4>2, <4>3
    <3>4. ASSUME p \in Producers PROVE Clean(p)'
      <4>1. pc[p] # "exited" /\ status[p] = "none"
        BY <1>2, <3>1, <3>2, <3>4, WritingSteps DEF LockInv, TypeOK
      <4>2. HandlerSem(p) => /\ pc[p] = "handler_sem" /\ shmName' = shmName
                             /\ status'[p] = "ok" => semName' = None \/ ids'[p] = None
        BY <1>2 DEF HandlerSem, At, Exit, locals, LockInv, TypeOK
      <4> QED
        BY <1>2, <3>1, <3>2, <3>4, <4>1, <4>2, SinglePlaces
    <3> QED
      BY <3>3, <3>4 DEF CleanInv, CleanExit
  <2> QED
    BY <1>2, <2>1, <2>2
<1>3. CleanInv => CleanExit
  BY DEF CleanInv
<1> QED
  BY <1>1, <1>2, <1>3, LockInvariant, PTL DEF Spec

=============================================================================
