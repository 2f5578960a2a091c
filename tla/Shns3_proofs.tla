---------------------------- MODULE Shns3_proofs ----------------------------
(***************************************************************************)
(* What holds of Shns3 for every list of command lines, every set of       *)
(* faults and (where a theorem says so) every set of killable processes.   *)
(***************************************************************************)
EXTENDS Shns3, TLAPS

(* The conjuncts of TypeOK that the process and pipe operations touch. *)
PcType ==
  /\ pc \in [Proc -> FatherPc \cup MapperPc \cup ChildPc]
  /\ pc["father"] \in FatherPc
  /\ pc["mapper"] \in MapperPc
  /\ pc["child"] \in ChildPc

(* Sets of processes hold the pipe ends. *)
EndsType ==
  /\ readers \in [Pipe -> SUBSET Proc]
  /\ writers \in [Pipe -> SUBSET Proc]

(* How the processes ended. *)
StatusType == status \in [Proc -> {"none"} \cup Ending]

(* The labels each process may stand at. *)
LabelsOf(p) == CASE p = "father" -> FatherPc
                 [] p = "mapper" -> MapperPc
                 [] p = "child"  -> ChildPc

(* The end of a process keeps labels, statuses and pipe ends typed. *)
LEMMA ExitType ==
  ASSUME TypeOK, NEW p \in Proc, NEW s \in Ending, Exit(p, s)
  PROVE  PcType' /\ StatusType' /\ EndsType'
<1>1. PcType'
  BY DEF PcType, TypeOK, Exit, Proc, FatherPc, MapperPc, ChildPc
<1>2. StatusType'
  BY DEF StatusType, TypeOK, Exit
<1>3. EndsType'
  BY DEF EndsType, TypeOK, Exit
<1>. QED  BY <1>1, <1>2, <1>3

(* A process stays within its own labels. *)
LEMMA GotoType ==
  ASSUME TypeOK, NEW p \in Proc, NEW l \in LabelsOf(p), Goto(p, l)
  PROVE  PcType'
<1>1. l \in FatherPc \cup MapperPc \cup ChildPc
  BY DEF LabelsOf, Proc
<1>. QED  BY <1>1 DEF PcType, TypeOK, Goto, Proc, LabelsOf

(* pipe() and close() keep the pipe ends typed. *)
LEMMA EndsTypeKept ==
  ASSUME TypeOK, NEW p \in Proc, NEW q \in Pipe,
         OpenPipe(q) \/ CloseRead(p, q) \/ CloseWrite(p, q)
  PROVE  EndsType'
<1>1. CASE OpenPipe(q)
  BY <1>1 DEF EndsType, TypeOK, OpenPipe, Proc
<1>2. CASE CloseRead(p, q)
  BY <1>2 DEF EndsType, TypeOK, CloseRead
<1>3. CASE CloseWrite(p, q)
  BY <1>3 DEF EndsType, TypeOK, CloseWrite
<1>. QED  BY <1>1, <1>2, <1>3

(* fork() keeps labels, pipe ends and namespaces typed. *)
LEMMA ForkType ==
  ASSUME TypeOK, NEW c \in {"mapper", "child"}, NEW next \in FatherPc,
         Fork(c, next, "closew")
  PROVE  PcType' /\ EndsType' /\ inside' \subseteq Proc
<1>1. PcType'
  BY DEF PcType, TypeOK, Fork, Proc, FatherPc, MapperPc, ChildPc
<1>2. EndsType'
  BY DEF EndsType, TypeOK, Fork, Proc
<1>3. inside' \subseteq Proc
  BY DEF TypeOK, Fork, Proc
<1>. QED  BY <1>1, <1>2, <1>3

(* Type correctness: every variable of the launch keeps to its type
   (main(), shns3.c:250-574). *)
THEOREM TypeCorrect == Spec => []TypeOK
<1>1. Init => TypeOK
  BY ConstantsAssumption
     DEF Init, TypeOK, Proc, Pipe, FatherPc, MapperPc, ChildPc
<1>2. TypeOK /\ [Next]_vars => TypeOK'
  <2> SUFFICES ASSUME TypeOK, [Next]_vars
               PROVE  TypeOK'
    OBVIOUS
  <2> USE DEF PcType, EndsType, StatusType
  <2>1. CASE ScanHelp
    BY <2>1, ExitType DEF ScanHelp, TypeOK, Proc, Ending
  <2>2. CASE ScanError
    BY <2>2, ExitType DEF ScanError, TypeOK, Proc, Ending
  <2>3. CASE ScanOption
    <3>1. Opt \in Option /\ args' \in Seq(Option)
      BY <2>3 DEF ScanOption, Opt, TypeOK
    <3>2. sel' \subseteq Namespaces
      BY <2>3, <3>1 DEF ScanOption, ValidOption, Option, TypeOK
    <3>3. given' \subseteq Map
      BY <2>3 DEF ScanOption, TypeOK, Map
    <3>. QED  BY <2>3, <3>1, <3>2, <3>3 DEF ScanOption, TypeOK
  <2>4. CASE ScanEnd
    <3>1. sel' \subseteq Namespaces
      BY <2>4 DEF ScanEnd, TypeOK
    <3>2. CASE Exit("father", "error")
      BY <2>4, <3>1, <3>2, ExitType DEF ScanEnd, TypeOK, Proc, Ending
    <3>3. CASE \E l \in {"pipe1", "pipe2"} :
                 Goto("father", l) /\ UNCHANGED <<status, readers, writers>>
      BY <2>4, <3>1, <3>3, GotoType DEF ScanEnd, TypeOK, Proc, LabelsOf, FatherPc
    <3>. QED  BY <2>4, <3>2, <3>3 DEF ScanEnd
  <2>5. CASE \E q \in Pipe, l \in {"fork1", "unshare"} :
               /\ Goto("father", l) /\ OpenPipe(q)
               /\ UNCHANGED <<args, sel, given, status, pending, target, inside, written>>
    BY <2>5, GotoType, EndsTypeKept DEF TypeOK, Proc, LabelsOf, FatherPc
  <2>6. CASE \E p \in Proc, q \in Pipe : \E l \in LabelsOf(p) :
               /\ Goto(p, l)
               /\ CloseRead(p, q) \/ CloseWrite(p, q)
               /\ pending' \subseteq pending
               /\ target' \in {target, "child"}
               /\ UNCHANGED <<args, sel, given, status, inside, written>>
    BY <2>6, GotoType, EndsTypeKept DEF TypeOK
  <2>7. CASE \E c \in {"mapper", "child"}, l \in FatherPc :
               /\ Fork(c, l, "closew")
               /\ UNCHANGED <<args, sel, given, status, pending, target, written>>
    BY <2>7, ForkType DEF TypeOK
  <2>8. CASE \E p \in Proc : \E l \in LabelsOf(p) :
               /\ Goto(p, l)
               /\ inside' \in {inside, inside \cup {"father"}}
               /\ written' \in {written, written \cup {"uid"}}
               /\ UNCHANGED <<args, sel, given, status, readers, writers, pending, target>>
    BY <2>8, GotoType DEF TypeOK, Proc, Map
  <2>9. CASE \E p \in Proc, s \in Ending :
               /\ Exit(p, s)
               /\ written' \in {written, written \cup {"gid"}}
               /\ UNCHANGED <<args, sel, given, pending, target, inside>>
    BY <2>9, ExitType DEF TypeOK, Map
  <2>10. CASE Write1 \/ Write2
    <3>1. PICK q \in Pipe, l \in {"wait1", "wait2"} :
             /\ Write(q, l)
             /\ UNCHANGED <<args, sel, given, target, inside, written>>
      BY <2>10 DEF Write1, Write2, Pipe
    <3>2. CASE readers[q] # {}
      BY <3>1, <3>2, GotoType DEF Write, TypeOK, Proc, LabelsOf, FatherPc
    <3>3. CASE readers[q] = {}
      BY <3>1, <3>3, ExitType DEF Write, TypeOK, Proc, Ending
    <3>. QED  BY <3>2, <3>3
  <2>11. CASE UNCHANGED vars
    BY <2>11 DEF vars, TypeOK
  <2> HIDE DEF PcType, EndsType, StatusType
  <2>12. CASE Pipe1 \/ Pipe2
    BY <2>12, <2>5 DEF Pipe1, Pipe2, Pipe
  <2>13. CASE Close2r \/ Close1r \/ Close1w
    BY <2>13, <2>6 DEF Close2r, Close1r, Close1w, Pipe, Proc, LabelsOf, FatherPc
  <2>14. CASE MapperCloseW \/ MapperRead
    BY <2>14, <2>6 DEF MapperCloseW, MapperRead, Pipe, Proc, LabelsOf, MapperPc
  <2>15. CASE ChildCloseW \/ ChildRead
    BY <2>15, <2>6 DEF ChildCloseW, ChildRead, Pipe, Proc, LabelsOf, ChildPc
  <2>16. CASE Fork1 \/ Fork2
    BY <2>16, <2>7 DEF Fork1, Fork2, FatherPc
  <2>17. CASE Unshare \/ Wait1
    BY <2>17, <2>8 DEF Unshare, Wait1, Proc, LabelsOf, FatherPc
  <2>18. CASE NewUidMap \/ ChildExec
    BY <2>18, <2>8 DEF NewUidMap, ChildExec, Map1, Proc, LabelsOf, MapperPc, ChildPc
  <2>19. CASE Wait2 \/ FatherSetupFails
    BY <2>19, <2>9 DEF Wait2, FatherSetupFails, FatherFails, Proc, Ending
  <2>20. CASE NewGidMap \/ MapperFails \/ ChildFails \/ ShellEnds
    BY <2>20, <2>9 DEF NewGidMap, MapperFails, ChildFails, ShellEnds, Map1, Proc, Ending
  <2>21. CASE \E p \in Killable : Kill(p)
    BY <2>21, <2>9, ConstantsAssumption DEF Kill, Ending
  <2>. QED
    BY <2>1, <2>2, <2>3, <2>4, <2>10, <2>11, <2>12, <2>13, <2>14, <2>15, <2>16,
       <2>17, <2>18, <2>19, <2>20, <2>21
       DEF Next, Father, Mapper, Child, Finished
<1>. QED  BY <1>1, <1>2, PTL DEF Spec


(* Forks stay ordered. *)
LEMMA ForkOrderKept ==
  ASSUME TypeOK, ForkOrder, [Next]_vars
  PROVE  ForkOrder'
<1> USE DEF TypeOK, Proc, Pipe, ForkOrder, BeforeFork1, BeforeUnshare, BeforeFork2, User, Goto, Exit
<1>1. CASE ScanHelp
  BY <1>1 DEF ScanHelp
<1>2. CASE ScanError
  BY <1>2 DEF ScanError
<1>3. CASE ScanOption
  BY <1>3 DEF ScanOption
<1>4. CASE ScanEnd
  BY <1>4 DEF ScanEnd
<1>5. CASE Pipe1
  BY <1>5 DEF Pipe1
<1>6. CASE Fork1
  BY <1>6 DEF Fork1, Fork
<1>7. CASE Pipe2
  BY <1>7 DEF Pipe2
<1>8. CASE Unshare
  BY <1>8 DEF Unshare
<1>9. CASE Fork2
  BY <1>9 DEF Fork2, Fork
<1>10. CASE FatherSetupFails
  BY <1>10 DEF FatherSetupFails, FatherFails
<1>11. CASE Close2r
  BY <1>11 DEF Close2r
<1>12. CASE Close1r
  BY <1>12 DEF Close1r
<1>13. CASE Write1
  BY <1>13 DEF Write1, Write
<1>14. CASE Wait1
  BY <1>14 DEF Wait1
<1>15. CASE Close1w
  BY <1>15 DEF Close1w
<1>16. CASE Write2
  BY <1>16 DEF Write2, Write
<1>17. CASE Wait2
  BY <1>17 DEF Wait2
<1>18. CASE MapperCloseW
  BY <1>18 DEF MapperCloseW
<1>19. CASE MapperRead
  BY <1>19 DEF MapperRead, Eof, CloseRead
<1>20. CASE NewUidMap
  BY <1>20 DEF NewUidMap, Map1, Map
<1>21. CASE NewGidMap
  BY <1>21 DEF NewGidMap, Map1, Map
<1>22. CASE MapperFails
  BY <1>22 DEF MapperFails
<1>23. CASE ChildCloseW
  BY <1>23 DEF ChildCloseW
<1>24. CASE ChildRead
  BY <1>24 DEF ChildRead, Eof, CloseRead
<1>25. CASE ChildExec
  BY <1>25 DEF ChildExec
<1>26. CASE ChildFails
  BY <1>26 DEF ChildFails
<1>27. CASE ShellEnds
  BY <1>27 DEF ShellEnds
<1>28. CASE \E p \in Killable : Kill(p)
  BY <1>28, ConstantsAssumption DEF Kill, Alive
<1>29. CASE UNCHANGED vars
  BY <1>29 DEF vars
<1> HIDE DEF TypeOK, Proc, Pipe, ForkOrder, BeforeFork1, BeforeUnshare, BeforeFork2, User, Goto, Exit
<1>. QED
  BY <1>1, <1>2, <1>3, <1>4, <1>5, <1>6, <1>7, <1>8, <1>9, <1>10, <1>11,
     <1>12, <1>13, <1>14, <1>15, <1>16, <1>17, <1>18, <1>19, <1>20, <1>21,
     <1>22, <1>23, <1>24, <1>25, <1>26, <1>27, <1>28, <1>29
     DEF Next, Father, Mapper, Child, Finished


(* The pipe ends stay held. *)
LEMMA EndsHeldKept ==
  ASSUME TypeOK, ForkOrder, EndsHeld, [Next]_vars
  PROVE  EndsHeld'
<1> USE DEF TypeOK, Proc, Pipe, ForkOrder, EndsHeld, BeforeFork1, BeforeUnshare, BeforeFork2,
        Alive, User, Goto, Exit, OpenPipe, CloseRead, CloseWrite
<1>1. CASE ScanHelp
  BY <1>1 DEF ScanHelp
<1>2. CASE ScanError
  BY <1>2 DEF ScanError
<1>3. CASE ScanOption
  BY <1>3 DEF ScanOption
<1>4. CASE ScanEnd
  BY <1>4 DEF ScanEnd
<1>5. CASE Pipe1
  BY <1>5 DEF Pipe1
<1>6. CASE Fork1
  BY <1>6 DEF Fork1, Fork
<1>7. CASE Pipe2
  BY <1>7 DEF Pipe2
<1>8. CASE Unshare
  BY <1>8 DEF Unshare
<1>9. CASE Fork2
  BY <1>9 DEF Fork2, Fork
<1>10. CASE FatherSetupFails
  BY <1>10 DEF FatherSetupFails, FatherFails
<1>11. CASE Close2r
  BY <1>11 DEF Close2r
<1>12. CASE Close1r
  BY <1>12 DEF Close1r
<1>13. CASE Write1
  BY <1>13 DEF Write1, Write
<1>14. CASE Wait1
  BY <1>14 DEF Wait1
<1>15. CASE Close1w
  BY <1>15 DEF Close1w
<1>16. CASE Write2
  BY <1>16 DEF Write2, Write
<1>17. CASE Wait2
  BY <1>17 DEF Wait2
<1>18. CASE MapperCloseW
  BY <1>18 DEF MapperCloseW
<1>19. CASE MapperRead
  BY <1>19 DEF MapperRead, Eof
<1>20. CASE NewUidMap
  BY <1>20 DEF NewUidMap, Map1, Map
<1>21. CASE NewGidMap
  BY <1>21 DEF NewGidMap, Map1, Map
<1>22. CASE MapperFails
  BY <1>22 DEF MapperFails
<1>23. CASE ChildCloseW
  BY <1>23 DEF ChildCloseW
<1>24. CASE ChildRead
  BY <1>24 DEF ChildRead, Eof
<1>25. CASE ChildExec
  BY <1>25 DEF ChildExec
<1>26. CASE ChildFails
  BY <1>26 DEF ChildFails
<1>27. CASE ShellEnds
  BY <1>27 DEF ShellEnds
<1>28. CASE \E p \in Killable : Kill(p)
  BY <1>28, ConstantsAssumption DEF Kill, Alive
<1>29. CASE UNCHANGED vars
  BY <1>29 DEF vars
<1> HIDE DEF TypeOK, Proc, Pipe, ForkOrder, EndsHeld, BeforeFork1, BeforeUnshare, BeforeFork2,
        Alive, User, Goto, Exit, OpenPipe, CloseRead, CloseWrite
<1>. QED
  BY <1>1, <1>2, <1>3, <1>4, <1>5, <1>6, <1>7, <1>8, <1>9, <1>10, <1>11,
     <1>12, <1>13, <1>14, <1>15, <1>16, <1>17, <1>18, <1>19, <1>20, <1>21,
     <1>22, <1>23, <1>24, <1>25, <1>26, <1>27, <1>28, <1>29
     DEF Next, Father, Mapper, Child, Finished


(* Nobody goes on before the go. *)
LEMMA GoGivenKept ==
  ASSUME TypeOK, ForkOrder, EndsHeld, GoGiven, [Next]_vars
  PROVE  GoGiven'
<1> USE DEF TypeOK, Proc, Pipe, ForkOrder, EndsHeld, GoGiven, BeforeFork1, BeforeUnshare, BeforeFork2,
        Alive, User, Goto, Exit
<1>1. CASE ScanHelp
  BY <1>1 DEF ScanHelp
<1>2. CASE ScanError
  BY <1>2 DEF ScanError
<1>3. CASE ScanOption
  BY <1>3 DEF ScanOption
<1>4. CASE ScanEnd
  BY <1>4 DEF ScanEnd
<1>5. CASE Pipe1
  BY <1>5 DEF Pipe1
<1>6. CASE Fork1
  BY <1>6 DEF Fork1, Fork
<1>7. CASE Pipe2
  BY <1>7 DEF Pipe2
<1>8. CASE Unshare
  BY <1>8 DEF Unshare
<1>9. CASE Fork2
  BY <1>9 DEF Fork2, Fork
<1>10. CASE FatherSetupFails
  BY <1>10 DEF FatherSetupFails, FatherFails
<1>11. CASE Close2r
  BY <1>11 DEF Close2r
<1>12. CASE Close1r
  BY <1>12 DEF Close1r
<1>13. CASE Write1
  BY <1>13 DEF Write1, Write
<1>14. CASE Wait1
  BY <1>14 DEF Wait1
<1>15. CASE Close1w
  BY <1>15 DEF Close1w
<1>16. CASE Write2
  BY <1>16 DEF Write2, Write
<1>17. CASE Wait2
  BY <1>17 DEF Wait2
<1>18. CASE MapperCloseW
  BY <1>18 DEF MapperCloseW
<1>19. CASE MapperRead
  BY <1>19 DEF MapperRead, Eof
<1>20. CASE NewUidMap
  BY <1>20 DEF NewUidMap, Map1, Map
<1>21. CASE NewGidMap
  BY <1>21 DEF NewGidMap, Map1, Map
<1>22. CASE MapperFails
  BY <1>22 DEF MapperFails
<1>23. CASE ChildCloseW
  BY <1>23 DEF ChildCloseW
<1>24. CASE ChildRead
  BY <1>24 DEF ChildRead, Eof
<1>25. CASE ChildExec
  BY <1>25 DEF ChildExec
<1>26. CASE ChildFails
  BY <1>26 DEF ChildFails
<1>27. CASE ShellEnds
  BY <1>27 DEF ShellEnds
<1>28. CASE \E p \in Killable : Kill(p)
  BY <1>28, ConstantsAssumption DEF Kill, Alive
<1>29. CASE UNCHANGED vars
  BY <1>29 DEF vars
<1> HIDE DEF TypeOK, Proc, Pipe, ForkOrder, EndsHeld, GoGiven, BeforeFork1, BeforeUnshare, BeforeFork2,
        Alive, User, Goto, Exit
<1>. QED
  BY <1>1, <1>2, <1>3, <1>4, <1>5, <1>6, <1>7, <1>8, <1>9, <1>10, <1>11,
     <1>12, <1>13, <1>14, <1>15, <1>16, <1>17, <1>18, <1>19, <1>20, <1>21,
     <1>22, <1>23, <1>24, <1>25, <1>26, <1>27, <1>28, <1>29
     DEF Next, Father, Mapper, Child, Finished


(* The mapper works on the child. *)
LEMMA MapperWorkKept ==
  ASSUME TypeOK, ForkOrder, EndsHeld, GoGiven, MapperWork, [Next]_vars
  PROVE  MapperWork'
<1> USE DEF TypeOK, Proc, Pipe, ForkOrder, EndsHeld, GoGiven, MapperWork, BeforeFork1, BeforeUnshare,
        BeforeFork2, Alive, User, Goto, Exit
<1>1. CASE ScanHelp
  BY <1>1 DEF ScanHelp
<1>2. CASE ScanError
  BY <1>2 DEF ScanError
<1>3. CASE ScanOption
  BY <1>3 DEF ScanOption
<1>4. CASE ScanEnd
  BY <1>4 DEF ScanEnd
<1>5. CASE Pipe1
  BY <1>5 DEF Pipe1
<1>6. CASE Fork1
  BY <1>6 DEF Fork1, Fork
<1>7. CASE Pipe2
  BY <1>7 DEF Pipe2
<1>8. CASE Unshare
  BY <1>8 DEF Unshare
<1>9. CASE Fork2
  BY <1>9 DEF Fork2, Fork
<1>10. CASE FatherSetupFails
  BY <1>10 DEF FatherSetupFails, FatherFails
<1>11. CASE Close2r
  BY <1>11 DEF Close2r
<1>12. CASE Close1r
  BY <1>12 DEF Close1r
<1>13. CASE Write1
  BY <1>13 DEF Write1, Write
<1>14. CASE Wait1
  BY <1>14 DEF Wait1
<1>15. CASE Close1w
  BY <1>15 DEF Close1w
<1>16. CASE Write2
  BY <1>16 DEF Write2, Write
<1>17. CASE Wait2
  BY <1>17 DEF Wait2
<1>18. CASE MapperCloseW
  BY <1>18 DEF MapperCloseW
<1>19. CASE MapperRead
  BY <1>19 DEF MapperRead, Eof, FatherPc
<1>20. CASE NewUidMap
  BY <1>20 DEF NewUidMap, Map1, Map
<1>21. CASE NewGidMap
  <2>1. target = "child" => written' = Map
    BY ZenonT(40), <1>21 DEF NewGidMap, Map1, Map
  <2>2. /\ pc["mapper"] = "newgidmap"
        /\ Exit("mapper", "ok")
        /\ UNCHANGED target
    BY <1>21 DEF NewGidMap
  <2>. QED  BY <2>1, <2>2
<1>22. CASE MapperFails
  BY <1>22 DEF MapperFails
<1>23. CASE ChildCloseW
  BY <1>23 DEF ChildCloseW
<1>24. CASE ChildRead
  BY <1>24 DEF ChildRead, Eof
<1>25. CASE ChildExec
  BY <1>25 DEF ChildExec
<1>26. CASE ChildFails
  BY <1>26 DEF ChildFails
<1>27. CASE ShellEnds
  BY <1>27 DEF ShellEnds
<1>28. CASE \E p \in Killable : Kill(p)
  BY <1>28, ConstantsAssumption DEF Kill, Alive
<1>29. CASE UNCHANGED vars
  BY <1>29 DEF vars
<1> HIDE DEF TypeOK, Proc, Pipe, ForkOrder, EndsHeld, GoGiven, MapperWork, BeforeFork1, BeforeUnshare,
        BeforeFork2, Alive, User, Goto, Exit
<1>. QED
  BY <1>1, <1>2, <1>3, <1>4, <1>5, <1>6, <1>7, <1>8, <1>9, <1>10, <1>11,
     <1>12, <1>13, <1>14, <1>15, <1>16, <1>17, <1>18, <1>19, <1>20, <1>21,
     <1>22, <1>23, <1>24, <1>25, <1>26, <1>27, <1>28, <1>29
     DEF Next, Father, Mapper, Child, Finished


(* The mapper stays outside the new namespaces, the child inside. *)
LEMMA WellPlacedKept ==
  ASSUME TypeOK, ForkOrder, WellPlaced, [Next]_vars
  PROVE  WellPlaced'
<1> USE DEF TypeOK, Proc, Pipe, ForkOrder, WellPlaced, BeforeFork1, BeforeUnshare, BeforeFork2,
        Goto, Exit
<1>1. CASE ScanHelp
  BY <1>1 DEF ScanHelp
<1>2. CASE ScanError
  BY <1>2 DEF ScanError
<1>3. CASE ScanOption
  BY <1>3 DEF ScanOption
<1>4. CASE ScanEnd
  BY <1>4 DEF ScanEnd
<1>5. CASE Pipe1
  BY <1>5 DEF Pipe1
<1>6. CASE Fork1
  BY <1>6 DEF Fork1, Fork
<1>7. CASE Pipe2
  BY <1>7 DEF Pipe2
<1>8. CASE Unshare
  BY <1>8 DEF Unshare
<1>9. CASE Fork2
  BY <1>9 DEF Fork2, Fork
<1>10. CASE FatherSetupFails
  BY <1>10 DEF FatherSetupFails, FatherFails
<1>11. CASE Close2r
  BY <1>11 DEF Close2r
<1>12. CASE Close1r
  BY <1>12 DEF Close1r
<1>13. CASE Write1
  BY <1>13 DEF Write1, Write
<1>14. CASE Wait1
  BY <1>14 DEF Wait1
<1>15. CASE Close1w
  BY <1>15 DEF Close1w
<1>16. CASE Write2
  BY <1>16 DEF Write2, Write
<1>17. CASE Wait2
  BY <1>17 DEF Wait2
<1>18. CASE MapperCloseW
  BY <1>18 DEF MapperCloseW
<1>19. CASE MapperRead
  BY <1>19 DEF MapperRead, Eof
<1>20. CASE NewUidMap
  BY <1>20 DEF NewUidMap, Map1, Map
<1>21. CASE NewGidMap
  BY <1>21 DEF NewGidMap, Map1, Map
<1>22. CASE MapperFails
  BY <1>22 DEF MapperFails
<1>23. CASE ChildCloseW
  BY <1>23 DEF ChildCloseW
<1>24. CASE ChildRead
  BY <1>24 DEF ChildRead, Eof
<1>25. CASE ChildExec
  BY <1>25 DEF ChildExec
<1>26. CASE ChildFails
  BY <1>26 DEF ChildFails
<1>27. CASE ShellEnds
  BY <1>27 DEF ShellEnds
<1>28. CASE \E p \in Killable : Kill(p)
  BY <1>28, ConstantsAssumption DEF Kill, Alive
<1>29. CASE UNCHANGED vars
  BY <1>29 DEF vars
<1> HIDE DEF TypeOK, Proc, Pipe, ForkOrder, WellPlaced, BeforeFork1, BeforeUnshare, BeforeFork2,
        Goto, Exit
<1>. QED
  BY <1>1, <1>2, <1>3, <1>4, <1>5, <1>6, <1>7, <1>8, <1>9, <1>10, <1>11,
     <1>12, <1>13, <1>14, <1>15, <1>16, <1>17, <1>18, <1>19, <1>20, <1>21,
     <1>22, <1>23, <1>24, <1>25, <1>26, <1>27, <1>28, <1>29
     DEF Next, Father, Mapper, Child, Finished

(* The five parts together are an inductive invariant of main(), with any
   faults and any killed processes (shns3.c:373-573). *)
THEOREM LaunchInvariant == Spec => []LaunchInv
<1>1. Init => ForkOrder /\ EndsHeld /\ GoGiven /\ MapperWork /\ WellPlaced
  BY DEF Init, ForkOrder, EndsHeld, GoGiven, MapperWork, WellPlaced, Proc, Pipe,
         Alive, User, BeforeFork1, BeforeUnshare, BeforeFork2
<1>2. TypeOK /\ ForkOrder /\ EndsHeld /\ GoGiven /\ MapperWork /\ WellPlaced
        /\ [Next]_vars
        => (ForkOrder /\ EndsHeld /\ GoGiven /\ MapperWork /\ WellPlaced)'
  BY ForkOrderKept, EndsHeldKept, GoGivenKept, MapperWorkKept, WellPlacedKept
<1>. QED  BY <1>1, <1>2, TypeCorrect, PTL DEF Spec, LaunchInv

(* The father writes the go only when the mapper is gone, whatever fails and
   whoever is killed (waitpid at shns3.c:537 before write at shns3.c:552). *)
THEOREM GoAfterMapperHolds == Spec => GoAfterMapper
<1>1. LaunchInv /\ [Next]_vars
        => [pending' \ pending = {"sync2"} => ~Alive("mapper")]_vars
  <2> SUFFICES ASSUME LaunchInv, [Next]_vars, pending' \ pending = {"sync2"}
               PROVE  ~Alive("mapper")
    BY DEF vars
  <2>1. Write1 \/ Write2
    BY DEF Next, Father, Mapper, Child, Finished, vars, Kill,
           ScanHelp, ScanError, ScanOption, ScanEnd, Pipe1, Fork1, Pipe2, Unshare,
           Fork2, FatherSetupFails, FatherFails, Close2r, Close1r, Wait1, Close1w,
           Wait2, MapperCloseW, MapperRead, NewUidMap, NewGidMap, MapperFails,
           ChildCloseW, ChildRead, ChildExec, ChildFails, ShellEnds
  <2>2. CASE Write1
    BY <2>2 DEF Write1, Write
  <2>3. CASE Write2
    BY <2>3 DEF Write2, LaunchInv, ForkOrder, Alive
  <2>. QED  BY <2>1, <2>2, <2>3
<1>. QED  BY <1>1, LaunchInvariant, PTL DEF Spec, GoAfterMapper


(* Only a killed father leaves the shell behind. *)
LEMMA OutlivesKept ==
  ASSUME LaunchInv, FatherOutlivesShell, [Next]_vars
  PROVE  FatherOutlivesShell'
<1> USE DEF TypeOK, Proc, Pipe, FatherOutlivesShell, LaunchInv, ForkOrder, EndsHeld, GoGiven,
        BeforeFork1, BeforeUnshare, BeforeFork2, Alive, User, Goto, Exit
<1>1. CASE ScanHelp
  BY <1>1 DEF ScanHelp
<1>2. CASE ScanError
  BY <1>2 DEF ScanError
<1>3. CASE ScanOption
  BY <1>3 DEF ScanOption
<1>4. CASE ScanEnd
  BY <1>4 DEF ScanEnd
<1>5. CASE Pipe1
  BY <1>5 DEF Pipe1
<1>6. CASE Fork1
  BY <1>6 DEF Fork1, Fork
<1>7. CASE Pipe2
  BY <1>7 DEF Pipe2
<1>8. CASE Unshare
  BY <1>8 DEF Unshare
<1>9. CASE Fork2
  BY <1>9 DEF Fork2, Fork
<1>10. CASE FatherSetupFails
  BY <1>10 DEF FatherSetupFails, FatherFails
<1>11. CASE Close2r
  BY <1>11 DEF Close2r
<1>12. CASE Close1r
  BY <1>12 DEF Close1r
<1>13. CASE Write1
  BY <1>13 DEF Write1, Write
<1>14. CASE Wait1
  BY <1>14 DEF Wait1
<1>15. CASE Close1w
  BY <1>15 DEF Close1w
<1>16. CASE Write2
  <2>1. CASE readers["sync2"] # {}
    BY <1>16, <2>1 DEF Write2, Write
  <2>2. CASE readers["sync2"] = {}
    <3>1. pc["child"] = "exited"
      BY <1>16, <2>2 DEF Write2, ChildPc
    <3>. QED  BY <1>16, <2>2, <3>1 DEF Write2, Write
  <2>. QED  BY <2>1, <2>2
<1>17. CASE Wait2
  BY <1>17 DEF Wait2
<1>18. CASE MapperCloseW
  BY <1>18 DEF MapperCloseW
<1>19. CASE MapperRead
  BY <1>19 DEF MapperRead, Eof
<1>20. CASE NewUidMap
  BY <1>20 DEF NewUidMap, Map1, Map
<1>21. CASE NewGidMap
  BY <1>21 DEF NewGidMap, Map1, Map
<1>22. CASE MapperFails
  BY <1>22 DEF MapperFails
<1>23. CASE ChildCloseW
  BY <1>23 DEF ChildCloseW
<1>24. CASE ChildRead
  BY <1>24 DEF ChildRead, Eof
<1>25. CASE ChildExec
  BY <1>25 DEF ChildExec
<1>26. CASE ChildFails
  BY <1>26 DEF ChildFails
<1>27. CASE ShellEnds
  BY <1>27 DEF ShellEnds
<1>28. CASE \E p \in Killable : Kill(p)
  BY <1>28, ConstantsAssumption DEF Kill, Alive
<1>29. CASE UNCHANGED vars
  BY <1>29 DEF vars
<1> HIDE DEF TypeOK, Proc, Pipe, FatherOutlivesShell, LaunchInv, ForkOrder, EndsHeld, GoGiven,
        BeforeFork1, BeforeUnshare, BeforeFork2, Alive, User, Goto, Exit
<1>. QED
  BY <1>1, <1>2, <1>3, <1>4, <1>5, <1>6, <1>7, <1>8, <1>9, <1>10, <1>11,
     <1>12, <1>13, <1>14, <1>15, <1>16, <1>17, <1>18, <1>19, <1>20, <1>21,
     <1>22, <1>23, <1>24, <1>25, <1>26, <1>27, <1>28, <1>29
     DEF Next, Father, Mapper, Child, Finished

(* A father that is not killed never returns while the child or its shell
   runs, whatever fails and whoever else is killed (shns3.c:559). *)
THEOREM FatherOutlivesShellHolds == Spec => []FatherOutlivesShell
<1>1. Init => FatherOutlivesShell
  BY DEF Init, FatherOutlivesShell, Alive, Proc
<1>2. LaunchInv /\ FatherOutlivesShell /\ [Next]_vars => FatherOutlivesShell'
  BY OutlivesKept
<1>. QED  BY <1>1, <1>2, LaunchInvariant, PTL DEF Spec

(* A shell without its maps is always the work of a mapper that failed or was
   killed, or of a father that was killed (shns3.c:537-547). *)
THEOREM UnmappedOnlyIfMapperFailedHolds == Spec => []UnmappedOnlyIfMapperFailed
<1>1. LaunchInv /\ FatherOutlivesShell => UnmappedOnlyIfMapperFailed
  <2> SUFFICES ASSUME LaunchInv, FatherOutlivesShell, Shell, User, written # Map,
                      status["father"] # "killed"
               PROVE  status["mapper"] \notin {"none", "ok"}
    BY DEF UnmappedOnlyIfMapperFailed
  <2>1. pc["father"] = "wait2"
    BY DEF Shell, LaunchInv, GoGiven, FatherOutlivesShell, Alive
  <2>2. pc["mapper"] = "exited" /\ status["mapper"] # "none"
    BY <2>1 DEF LaunchInv, ForkOrder, MapperWork
  <2>3. status["mapper"] # "ok"
    BY <2>1 DEF LaunchInv, TypeOK, MapperWork
  <2>. QED  BY <2>2, <2>3
<1>. QED  BY <1>1, LaunchInvariant, FatherOutlivesShellHolds, PTL

(* When the mapper's own calls succeed and nobody kills it or the father, a
   mapper that failed leaves no child that could run a shell. *)
MapperFailed ==
  /\ status["father"] # "killed"
  /\ status["mapper"] \notin {"none", "ok"} =>
       \/ pc["child"] = "exited"
       \/ pc["father"] = "exited" /\ pc["child"] = "none"

MapperReliable ==
  /\ Faults \cap {"read1", "newuidmap", "newgidmap"} = {}
  /\ Killable \cap {"father", "mapper"} = {}


(* Only a dead child makes a reliable mapper fail. *)
LEMMA MapperFailedKept ==
  ASSUME TypeOK, MapperReliable, LaunchInv, FatherOutlivesShell, MapperFailed, [Next]_vars
  PROVE  MapperFailed'
<1> USE DEF TypeOK, Proc, Pipe, MapperFailed, LaunchInv, ForkOrder, EndsHeld, MapperWork, WellPlaced,
        FatherOutlivesShell, BeforeFork1, BeforeUnshare, BeforeFork2, Alive, Goto, Exit
<1>1. CASE ScanHelp
  BY <1>1 DEF ScanHelp
<1>2. CASE ScanError
  BY <1>2 DEF ScanError
<1>3. CASE ScanOption
  BY <1>3 DEF ScanOption
<1>4. CASE ScanEnd
  BY <1>4 DEF ScanEnd
<1>5. CASE Pipe1
  BY <1>5 DEF Pipe1
<1>6. CASE Fork1
  BY <1>6 DEF Fork1, Fork
<1>7. CASE Pipe2
  BY <1>7 DEF Pipe2
<1>8. CASE Unshare
  BY <1>8 DEF Unshare
<1>9. CASE Fork2
  BY <1>9 DEF Fork2, Fork
<1>10. CASE FatherSetupFails
  BY <1>10 DEF FatherSetupFails, FatherFails
<1>11. CASE Close2r
  BY <1>11 DEF Close2r
<1>12. CASE Close1r
  BY <1>12 DEF Close1r
<1>13. CASE Write1
  BY <1>13 DEF Write1, Write
<1>14. CASE Wait1
  BY <1>14 DEF Wait1
<1>15. CASE Close1w
  BY <1>15 DEF Close1w
<1>16. CASE Write2
  BY <1>16 DEF Write2, Write
<1>17. CASE Wait2
  BY <1>17 DEF Wait2
<1>18. CASE MapperCloseW
  BY <1>18 DEF MapperCloseW
<1>19. CASE MapperRead
  BY <1>19 DEF MapperRead, Eof
<1>20. CASE NewUidMap
  BY <1>20 DEF NewUidMap, Map1, Map
<1>21. CASE NewGidMap
  BY <1>21 DEF NewGidMap, Map1, Map
<1>22. CASE MapperFails
  <2>1. /\ pc["mapper"] \in {"newuidmap", "newgidmap"}
        /\ ~CanMap \/ target = "uninit" \/ pc["child"] = "exited"
    BY <1>22 DEF MapperFails, MapperReliable, MayFail
  <2>2. CanMap
    BY DEF CanMap
  <2>3. ASSUME target = "uninit"
        PROVE  pc["father"] = "exited" /\ pc["child"] \in {"none", "exited"}
    <3>1. pc["father"] = "exited"
      BY <2>1, <2>3
    <3>. QED  BY <3>1
  <2>4. Exit("mapper", "error")
    BY <1>22 DEF MapperFails
  <2>. QED  BY <2>1, <2>2, <2>3, <2>4
<1>23. CASE ChildCloseW
  BY <1>23 DEF ChildCloseW
<1>24. CASE ChildRead
  BY <1>24 DEF ChildRead, Eof
<1>25. CASE ChildExec
  BY <1>25 DEF ChildExec
<1>26. CASE ChildFails
  BY <1>26 DEF ChildFails
<1>27. CASE ShellEnds
  BY <1>27 DEF ShellEnds
<1>28. CASE \E p \in Killable : Kill(p)
  BY <1>28, ConstantsAssumption DEF Kill, MapperReliable, Alive
<1>29. CASE UNCHANGED vars
  BY <1>29 DEF vars
<1> HIDE DEF TypeOK, Proc, Pipe, MapperFailed, LaunchInv, ForkOrder, EndsHeld, MapperWork, WellPlaced,
        FatherOutlivesShell, BeforeFork1, BeforeUnshare, BeforeFork2, Alive, Goto, Exit
<1>. QED
  BY <1>1, <1>2, <1>3, <1>4, <1>5, <1>6, <1>7, <1>8, <1>9, <1>10, <1>11,
     <1>12, <1>13, <1>14, <1>15, <1>16, <1>17, <1>18, <1>19, <1>20, <1>21,
     <1>22, <1>23, <1>24, <1>25, <1>26, <1>27, <1>28, <1>29
     DEF Next, Father, Mapper, Child, Finished

(* With a reliable mapper the shell never runs before both maps are written,
   whatever else fails (shns3.c:524-556). *)
THEOREM ShellMappedHolds ==
  ASSUME MapperReliable
  PROVE  Spec => []ShellMapped
<1>2. Init => MapperFailed
  BY DEF Init, MapperFailed, Proc
<1>3. LaunchInv /\ FatherOutlivesShell /\ MapperFailed /\ [Next]_vars => MapperFailed'
  BY MapperFailedKept DEF LaunchInv
<1>4. UnmappedOnlyIfMapperFailed /\ MapperFailed => ShellMapped
  BY DEF UnmappedOnlyIfMapperFailed, MapperFailed, ShellMapped, Shell
<1>. QED  BY <1>2, <1>3, <1>4, FatherOutlivesShellHolds, UnmappedOnlyIfMapperFailedHolds,
              LaunchInvariant, PTL DEF Spec

-----------------------------------------------------------------------------
(* The mapper and the pid of the child                                     *)

(* What a mapper that is about to read finds: its own end of the pipe, and the
   pid of the child or a father that is about to write it, unless a signal
   ended the father in between. *)
PidComes ==
  /\ pc["mapper"] \in {"closew", "read"} => "mapper" \in readers["sync1"]
  /\ pc["mapper"] \in {"closew", "read"} /\ pc["child"] # "none" /\ status["father"] # "killed"
       => "sync1" \in pending \/ pc["father"] \in {"close2r", "close1r", "write1"}

(* The pid comes, or the mapper has no child to map. *)
LEMMA PidComesKept ==
  ASSUME LaunchInv, PidComes, StrayMapperHasNoChild, [Next]_vars
  PROVE  PidComes' /\ StrayMapperHasNoChild'
<1> USE DEF TypeOK, Proc, Pipe, LaunchInv, ForkOrder, EndsHeld, MapperWork, PidComes,
        StrayMapperHasNoChild, BeforeFork1, BeforeUnshare, BeforeFork2, Alive, User, Goto, Exit
<1>1. CASE ScanHelp
  BY <1>1 DEF ScanHelp
<1>2. CASE ScanError
  BY <1>2 DEF ScanError
<1>3. CASE ScanOption
  BY <1>3 DEF ScanOption
<1>4. CASE ScanEnd
  BY <1>4 DEF ScanEnd
<1>5. CASE Pipe1
  BY <1>5 DEF Pipe1, OpenPipe
<1>6. CASE Fork1
  BY <1>6 DEF Fork1, Fork
<1>7. CASE Pipe2
  BY <1>7 DEF Pipe2, OpenPipe
<1>8. CASE Unshare
  BY <1>8 DEF Unshare
<1>9. CASE Fork2
  BY <1>9 DEF Fork2, Fork
<1>10. CASE FatherSetupFails
  BY <1>10 DEF FatherSetupFails, FatherFails
<1>11. CASE Close2r
  BY <1>11 DEF Close2r, CloseRead
<1>12. CASE Close1r
  BY <1>12 DEF Close1r, CloseRead
<1>13. CASE Write1
  BY <1>13 DEF Write1, Write
<1>14. CASE Wait1
  BY <1>14 DEF Wait1
<1>15. CASE Close1w
  BY <1>15 DEF Close1w, CloseWrite
<1>16. CASE Write2
  BY <1>16 DEF Write2, Write
<1>17. CASE Wait2
  BY <1>17 DEF Wait2
<1>18. CASE MapperCloseW
  BY <1>18 DEF MapperCloseW, CloseWrite
<1>19. CASE MapperRead
  BY <1>19 DEF MapperRead, Eof, CloseRead
<1>20. CASE NewUidMap
  BY <1>20 DEF NewUidMap, Map1, Map
<1>21. CASE NewGidMap
  BY <1>21 DEF NewGidMap, Map1, Map
<1>22. CASE MapperFails
  BY <1>22 DEF MapperFails
<1>23. CASE ChildCloseW
  BY <1>23 DEF ChildCloseW, CloseWrite
<1>24. CASE ChildRead
  BY <1>24 DEF ChildRead, CloseRead
<1>25. CASE ChildExec
  BY <1>25 DEF ChildExec
<1>26. CASE ChildFails
  BY <1>26 DEF ChildFails
<1>27. CASE ShellEnds
  BY <1>27 DEF ShellEnds
<1>28. CASE \E p \in Killable : Kill(p)
  BY <1>28, ConstantsAssumption DEF Kill
<1>29. CASE UNCHANGED vars
  BY <1>29 DEF vars
<1> HIDE DEF TypeOK, Proc, Pipe, LaunchInv, ForkOrder, EndsHeld, MapperWork, PidComes,
        StrayMapperHasNoChild, BeforeFork1, BeforeUnshare, BeforeFork2, Alive, User, Goto, Exit
<1>. QED
  BY <1>1, <1>2, <1>3, <1>4, <1>5, <1>6, <1>7, <1>8, <1>9, <1>10, <1>11,
     <1>12, <1>13, <1>14, <1>15, <1>16, <1>17, <1>18, <1>19, <1>20,
     <1>21, <1>22, <1>23, <1>24, <1>25, <1>26, <1>27, <1>28, <1>29
     DEF Next, Father, Mapper, Child, Finished

(* A mapper that goes on without the pid of the child has no child to map, unless
   the father was killed (shns3.c:398-407, 480-530): the father that forked the child
   always gets to its write(). *)
THEOREM StrayMapperHasNoChildHolds == Spec => []StrayMapperHasNoChild
<1>1. Init => PidComes /\ StrayMapperHasNoChild
  BY DEF Init, PidComes, StrayMapperHasNoChild
<1>2. LaunchInv /\ PidComes /\ StrayMapperHasNoChild /\ [Next]_vars
        => PidComes' /\ StrayMapperHasNoChild'
  BY PidComesKept
<1>. QED  BY <1>1, <1>2, LaunchInvariant, PTL DEF Spec

-----------------------------------------------------------------------------
(* The abstract launcher                                                   *)

(* How the statuses go with the labels, and what a good end tells. *)
EndsWell ==
  /\ \A p \in Proc : pc[p] = "exited" <=> status[p] # "none"
  /\ written # {} => pc["mapper"] # "none"
  /\ status["child"] = "ok" => pc["father"] \in {"wait2", "exited"}
  /\ status["father"] = "ok" => ~Alive("mapper")

(* The processes end well. *)
LEMMA EndsWellKept ==
  ASSUME LaunchInv, EndsWell, [Next]_vars
  PROVE  EndsWell'
<1> USE DEF TypeOK, Proc, EndsWell, LaunchInv, ForkOrder, GoGiven, Ending,
        BeforeFork1, BeforeUnshare, BeforeFork2, Alive, User, Goto, Exit
<1>1. CASE ScanHelp
  BY <1>1 DEF ScanHelp
<1>2. CASE ScanError
  BY <1>2 DEF ScanError
<1>3. CASE ScanOption
  BY <1>3 DEF ScanOption
<1>4. CASE ScanEnd
  BY <1>4 DEF ScanEnd
<1>5. CASE Pipe1
  BY <1>5 DEF Pipe1
<1>6. CASE Fork1
  BY <1>6 DEF Fork1, Fork
<1>7. CASE Pipe2
  BY <1>7 DEF Pipe2
<1>8. CASE Unshare
  BY <1>8 DEF Unshare
<1>9. CASE Fork2
  BY <1>9 DEF Fork2, Fork
<1>10. CASE FatherSetupFails
  BY <1>10 DEF FatherSetupFails, FatherFails
<1>11. CASE Close2r
  BY <1>11 DEF Close2r
<1>12. CASE Close1r
  BY <1>12 DEF Close1r
<1>13. CASE Write1
  BY <1>13 DEF Write1, Write
<1>14. CASE Wait1
  BY <1>14 DEF Wait1
<1>15. CASE Close1w
  BY <1>15 DEF Close1w
<1>16. CASE Write2
  BY <1>16 DEF Write2, Write
<1>17. CASE Wait2
  BY <1>17 DEF Wait2
<1>18. CASE MapperCloseW
  BY <1>18 DEF MapperCloseW
<1>19. CASE MapperRead
  BY <1>19 DEF MapperRead
<1>20. CASE NewUidMap
  BY <1>20 DEF NewUidMap, Map1, Map
<1>21. CASE NewGidMap
  BY <1>21 DEF NewGidMap, Map1, Map
<1>22. CASE MapperFails
  BY <1>22 DEF MapperFails
<1>23. CASE ChildCloseW
  BY <1>23 DEF ChildCloseW
<1>24. CASE ChildRead
  BY <1>24 DEF ChildRead
<1>25. CASE ChildExec
  BY <1>25 DEF ChildExec
<1>26. CASE ChildFails
  BY <1>26 DEF ChildFails
<1>27. CASE ShellEnds
  BY <1>27 DEF ShellEnds
<1>28. CASE \E p \in Killable : Kill(p)
  BY <1>28, ConstantsAssumption DEF Kill
<1>29. CASE UNCHANGED vars
  BY <1>29 DEF vars
<1> HIDE DEF TypeOK, Proc, EndsWell, LaunchInv, ForkOrder, GoGiven, Ending,
        BeforeFork1, BeforeUnshare, BeforeFork2, Alive, User, Goto, Exit
<1>. QED
  BY <1>1, <1>2, <1>3, <1>4, <1>5, <1>6, <1>7, <1>8, <1>9, <1>10, <1>11,
     <1>12, <1>13, <1>14, <1>15, <1>16, <1>17, <1>18, <1>19, <1>20,
     <1>21, <1>22, <1>23, <1>24, <1>25, <1>26, <1>27, <1>28, <1>29
     DEF Next, Father, Mapper, Child, Finished

(* Without trouble the command does not start, run or end before the mapper is
   done, and with all its maps. *)
LEMMA MapsBeforeCommand ==
  ASSUME LaunchInv, FatherOutlivesShell, EndsWell,
         \A p \in Proc : status[p] \in {"none", "ok"}
  PROVE  /\ pc["child"] \in {"execve", "shell"} => written = LaunchNeed
         /\ pc["child"] \in {"execve", "shell"} \/ status["child"] = "ok" => ~Alive("mapper")
<1> USE DEF Proc, LaunchInv, TypeOK, ForkOrder, GoGiven, MapperWork, EndsWell, LaunchNeed,
        FatherOutlivesShell, Alive
<1>1. pc["child"] \in {"execve", "shell"} => pc["father"] = "wait2"
  OBVIOUS
<1>2. pc["father"] = "wait2" /\ User => pc["mapper"] = "exited"
  OBVIOUS
<1>3. ~User => pc["mapper"] = "none"
  OBVIOUS
<1>. QED  BY <1>1, <1>2, <1>3

(* Every step of the launch is a step of the abstract launcher, or none. *)
LEMMA StepSimulated ==
  ASSUME LaunchInv, FatherOutlivesShell, EndsWell, [Next]_vars
  PROVE  [L!Next]_(L!vars)
<1> USE DEF TypeOK, Proc, EndsWell, LaunchInv, ForkOrder, GoGiven, Ending,
        BeforeFork1, BeforeUnshare, BeforeFork2, Alive, User, Goto, Exit,
        LaunchCmd, LaunchNeed, Shell, L!Next, L!vars, L!Ask, L!Trouble, L!End, L!Start, L!WriteMap
<1>1. CASE ScanHelp
  BY <1>1 DEF ScanHelp
<1>2. CASE ScanError
  BY <1>2 DEF ScanError
<1>3. CASE ScanOption
  BY <1>3 DEF ScanOption
<1>4. CASE ScanEnd
  BY ZenonT(40), <1>4 DEF ScanEnd
<1>5. CASE Pipe1
  BY <1>5 DEF Pipe1
<1>6. CASE Fork1
  BY <1>6 DEF Fork1, Fork
<1>7. CASE Pipe2
  BY <1>7 DEF Pipe2
<1>8. CASE Unshare
  BY <1>8 DEF Unshare
<1>9. CASE Fork2
  BY <1>9 DEF Fork2, Fork
<1>10. CASE FatherSetupFails
  BY <1>10 DEF FatherSetupFails, FatherFails
<1>11. CASE Close2r
  BY <1>11 DEF Close2r
<1>12. CASE Close1r
  BY <1>12 DEF Close1r
<1>13. CASE Write1
  BY <1>13 DEF Write1, Write
<1>14. CASE Wait1
  BY <1>14 DEF Wait1
<1>15. CASE Close1w
  BY <1>15 DEF Close1w
<1>16. CASE Write2
  BY <1>16 DEF Write2, Write
<1>17. CASE Wait2
  BY <1>17 DEF Wait2
<1>18. CASE MapperCloseW
  BY <1>18 DEF MapperCloseW
<1>19. CASE MapperRead
  BY <1>19 DEF MapperRead
<1>20. CASE NewUidMap
  BY <1>20 DEF NewUidMap, Map1, Map
<1>21. CASE NewGidMap
  <2>1. LaunchNeed' = LaunchNeed /\ LaunchCmd' = LaunchCmd
    BY <1>21 DEF NewGidMap
  <2>2. (\E p \in Proc : status'[p] \notin {"none", "ok"})
          = (\E p \in Proc : status[p] \notin {"none", "ok"})
    BY <1>21 DEF NewGidMap
  <2>3. written' = written \/ (written' = written \cup {"gid"} /\ target = "child")
    BY <1>21 DEF NewGidMap, Map1
  <2>4. "gid" \in LaunchNeed
    BY <1>21 DEF NewGidMap, Map
  <2>5. CASE written' = written
    BY <2>1, <2>2, <2>5
  <2>6. ASSUME written' # written,
               LaunchCmd = "setup" \/ \E p \in Proc : status[p] \notin {"none", "ok"}
        PROVE  L!WriteMap("gid")
    <3>1. written' = written \cup {"gid"}
      BY <2>3, <2>6
    <3>2. "gid" \in LaunchNeed \ written
      BY <2>4, <2>6, <3>1
    <3> HIDE DEF LaunchCmd, LaunchNeed
    <3>. QED  BY <2>1, <2>2, <2>6, <3>1, <3>2
  <2>7. CASE \E p \in Proc : status[p] \notin {"none", "ok"}
    BY <2>7, <2>5, <2>6 DEF Map
  <2>8. CASE \A p \in Proc : status[p] \in {"none", "ok"}
    <3>1. ~Shell /\ status["child"] # "ok"
      BY <1>21, <2>8, MapsBeforeCommand DEF NewGidMap
    <3>2. target = "child" => LaunchCmd = "setup"
      BY <1>21, <3>1, <2>8 DEF NewGidMap, MapperWork
    <3>. QED  BY <2>3, <2>5, <2>6, <3>2 DEF Map
  <2>. QED  BY <2>7, <2>8
<1>22. CASE MapperFails
  BY <1>22 DEF MapperFails
<1>23. CASE ChildCloseW
  BY <1>23 DEF ChildCloseW
<1>24. CASE ChildRead
  BY <1>24 DEF ChildRead
<1>25. CASE ChildExec
  <2>1. LaunchNeed' = LaunchNeed /\ LaunchCmd' = "running" /\ UNCHANGED <<written, status>>
    BY <1>25 DEF ChildExec
  <2>2. LaunchCmd = "setup"
    BY <1>25 DEF ChildExec
  <2>3. (\A p \in Proc : status[p] \in {"none", "ok"}) => written = LaunchNeed
    BY <1>25, MapsBeforeCommand DEF ChildExec
  <2>. QED  BY <2>1, <2>2, <2>3
<1>26. CASE ChildFails
  BY <1>26 DEF ChildFails
<1>27. CASE ShellEnds
  BY <1>27 DEF ShellEnds
<1>28. CASE \E p \in Killable : Kill(p)
  <2>1. PICK p \in Proc : Kill(p)
    BY <1>28, ConstantsAssumption
  <2>2. status'[p] = "killed" /\ UNCHANGED written
    BY <2>1 DEF Kill
  <2>3. LaunchNeed' = LaunchNeed
    BY <2>1 DEF Kill
  <2>4. LaunchCmd' = LaunchCmd
          \/ (LaunchCmd \in {"idle", "setup", "running"} /\ LaunchCmd' = "failed")
    <3>1. CASE p = "father"
      BY <2>1, <3>1 DEF Kill
    <3>2. CASE p = "mapper"
      BY <2>1, <3>2 DEF Kill
    <3>3. CASE p = "child"
      BY <2>1, <3>3 DEF Kill
    <3>. QED  BY <3>1, <3>2, <3>3
  <2>. QED  BY <2>2, <2>3, <2>4 DEF Map
<1>29. CASE UNCHANGED vars
  BY <1>29 DEF vars
<1> HIDE DEF TypeOK, Proc, EndsWell, LaunchInv, ForkOrder, GoGiven, Ending,
        BeforeFork1, BeforeUnshare, BeforeFork2, Alive, User, Goto, Exit,
        LaunchCmd, LaunchNeed, Shell, L!Next, L!vars, L!Ask, L!Trouble, L!End, L!Start, L!WriteMap
<1>. QED
  BY <1>1, <1>2, <1>3, <1>4, <1>5, <1>6, <1>7, <1>8, <1>9, <1>10, <1>11,
     <1>12, <1>13, <1>14, <1>15, <1>16, <1>17, <1>18, <1>19, <1>20,
     <1>21, <1>22, <1>23, <1>24, <1>25, <1>26, <1>27, <1>28, <1>29
     DEF Next, Father, Mapper, Child, Finished

(* shns3 implements the launcher, its liveness aside: maps before the command,
   none while it runs, no way out of a launch but a command or trouble
   (main(), shns3.c:250-574). *)
THEOREM ImplementsLauncher == Spec => L!Init /\ [][L!Next]_(L!vars)
<1>1. Init => L!Init
  BY DEF Init, L!Init, LaunchNeed, LaunchCmd, User, Shell, Proc
<1>2. Init => EndsWell
  BY DEF Init, EndsWell, Alive, Proc
<1>3. LaunchInv /\ EndsWell /\ [Next]_vars => EndsWell'
  BY EndsWellKept
<1>4. LaunchInv /\ FatherOutlivesShell /\ EndsWell /\ [Next]_vars => [L!Next]_(L!vars)
  BY StepSimulated
<1>. QED  BY <1>1, <1>2, <1>3, <1>4, LaunchInvariant, FatherOutlivesShellHolds, PTL DEF Spec

=============================================================================
