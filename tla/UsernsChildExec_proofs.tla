----------------------- MODULE UsernsChildExec_proofs -----------------------
(***************************************************************************)
(* What holds of UsernsChildExec for every set of command lines, every     *)
(* kernel and privilege, every set of faults and of killable processes.    *)
(***************************************************************************)
EXTENDS UsernsChildExec, TLAPS

(* The variables keep to their types. *)
LEMMA TypeKept ==
  ASSUME TypeOK, [Next]_vars
  PROVE  TypeOK'
<1> USE DEF TypeOK, Proc, ParentPc, ChildPc, Goto, Exit, Map
<1>1. CASE Options
  BY ZenonT(40), <1>1 DEF Options, ParentFails
<1>2. CASE MakePipe
  BY ZenonT(40), <1>2 DEF MakePipe, ParentFails
<1>3. CASE Clone
  <2>1. AfterClone \in ParentPc
    BY DEF AfterClone, AfterUid
  <2>2. CASE ParentFails("clone")
    BY <2>2 DEF ParentFails
  <2>3. CASE /\ pc' = [parent |-> AfterClone, child |-> "closew"]
             /\ writers' = writers \cup {"child"}
             /\ UNCHANGED <<opts, status, setgroups, written>>
    <3>1. pc' \in [Proc -> ParentPc \cup ChildPc]
      BY <2>1, <2>3
    <3>2. pc'["parent"] \in ParentPc /\ pc'["child"] \in ChildPc
      BY <2>1, <2>3
    <3>. QED  BY <2>3, <3>1, <3>2
  <2>. QED  BY <1>3, <2>2, <2>3 DEF Clone
<1>4. CASE UidMap
  BY ZenonT(40), <1>4 DEF UidMap, UpdateMap, ParentFails, AfterUid
<1>5. CASE SetGroups
  BY <1>5 DEF SetGroups
<1>6. CASE GidMap
  BY ZenonT(40), <1>6 DEF GidMap, UpdateMap, ParentFails
<1>7. CASE CloseW
  BY <1>7 DEF CloseW
<1>8. CASE Wait
  BY <1>8 DEF Wait
<1>9. CASE ChildCloseW
  BY <1>9 DEF ChildCloseW
<1>10. CASE ChildRead
  BY <1>10 DEF ChildRead
<1>11. CASE ChildExec
  BY <1>11 DEF ChildExec
<1>12. CASE CommandEnds
  BY <1>12 DEF CommandEnds
<1>13. CASE ChildFails("read") \/ ChildFails("execvp")
  BY ZenonT(40), <1>13 DEF ChildFails
<1>14. CASE \E p \in Killable : Kill(p)
  BY <1>14, ConstantsAssumption DEF Kill, Alive
<1>15. CASE UNCHANGED vars
  BY <1>15 DEF vars
<1> HIDE DEF TypeOK, Proc, ParentPc, ChildPc, Goto, Exit, Map
<1>. QED
  BY <1>1, <1>2, <1>3, <1>4, <1>5, <1>6, <1>7, <1>8, <1>9, <1>10, <1>11, <1>12,
     <1>13, <1>14, <1>15 DEF Next, Parent, Child, ChildRuns, Finished

(* The processes stay in their order. *)
LEMMA CloneOrderKept ==
  ASSUME TypeOK, CloneOrder, [Next]_vars
  PROVE  CloneOrder'
<1> USE DEF TypeOK, Proc, ParentPc, ChildPc, Goto, Exit, CloneOrder
<1>1. CASE Options
  BY <1>1 DEF Options, ParentFails
<1>2. CASE MakePipe
  BY <1>2 DEF MakePipe, ParentFails
<1>3. CASE Clone
  BY <1>3 DEF Clone, ParentFails, AfterClone, AfterUid
<1>4. CASE UidMap
  BY <1>4 DEF UidMap, UpdateMap, ParentFails, AfterUid
<1>5. CASE SetGroups
  BY <1>5 DEF SetGroups
<1>6. CASE GidMap
  BY <1>6 DEF GidMap, UpdateMap, ParentFails
<1>7. CASE CloseW
  BY <1>7 DEF CloseW
<1>8. CASE Wait
  BY <1>8 DEF Wait
<1>9. CASE ChildCloseW
  BY <1>9 DEF ChildCloseW
<1>10. CASE ChildRead
  BY <1>10 DEF ChildRead
<1>11. CASE ChildExec
  BY <1>11 DEF ChildExec
<1>12. CASE CommandEnds
  BY <1>12 DEF CommandEnds
<1>13. CASE ChildFails("read") \/ ChildFails("execvp")
  BY <1>13 DEF ChildFails
<1>14. CASE \E p \in Killable : Kill(p)
  BY <1>14, ConstantsAssumption DEF Kill, Alive
<1>15. CASE UNCHANGED vars
  BY <1>15 DEF vars
<1> HIDE DEF TypeOK, Proc, ParentPc, ChildPc, Goto, Exit, CloneOrder
<1>. QED
  BY <1>1, <1>2, <1>3, <1>4, <1>5, <1>6, <1>7, <1>8, <1>9, <1>10, <1>11, <1>12,
     <1>13, <1>14, <1>15 DEF Next, Parent, Child, ChildRuns, Finished

(* The child waits for the parent to let go of the pipe. *)
LEMMA GoGivenKept ==
  ASSUME TypeOK, CloneOrder, GoGiven, [Next]_vars
  PROVE  GoGiven'
<1> USE DEF TypeOK, Proc, ParentPc, ChildPc, Goto, Exit, CloneOrder, GoGiven
<1>1. CASE Options
  BY <1>1 DEF Options, ParentFails
<1>2. CASE MakePipe
  BY <1>2 DEF MakePipe, ParentFails
<1>3. CASE Clone
  BY <1>3 DEF Clone, ParentFails, AfterClone, AfterUid
<1>4. CASE UidMap
  BY <1>4 DEF UidMap, UpdateMap, ParentFails, AfterUid
<1>5. CASE SetGroups
  BY <1>5 DEF SetGroups
<1>6. CASE GidMap
  BY <1>6 DEF GidMap, UpdateMap, ParentFails
<1>7. CASE CloseW
  BY <1>7 DEF CloseW
<1>8. CASE Wait
  BY <1>8 DEF Wait
<1>9. CASE ChildCloseW
  BY <1>9 DEF ChildCloseW
<1>10. CASE ChildRead
  BY <1>10 DEF ChildRead
<1>11. CASE ChildExec
  BY <1>11 DEF ChildExec
<1>12. CASE CommandEnds
  BY <1>12 DEF CommandEnds
<1>13. CASE ChildFails("read") \/ ChildFails("execvp")
  BY <1>13 DEF ChildFails
<1>14. CASE \E p \in Killable : Kill(p)
  BY <1>14, ConstantsAssumption DEF Kill, Alive
<1>15. CASE UNCHANGED vars
  BY <1>15 DEF vars
<1> HIDE DEF TypeOK, Proc, ParentPc, ChildPc, Goto, Exit, CloneOrder, GoGiven
<1>. QED
  BY <1>1, <1>2, <1>3, <1>4, <1>5, <1>6, <1>7, <1>8, <1>9, <1>10, <1>11, <1>12,
     <1>13, <1>14, <1>15 DEF Next, Parent, Child, ChildRuns, Finished

(* The parent has written what its place says. *)
LEMMA MapsWrittenKept ==
  ASSUME TypeOK, CloneOrder, MapsWritten, [Next]_vars
  PROVE  MapsWritten'
<1> USE DEF TypeOK, Proc, ParentPc, ChildPc, Goto, Exit, CloneOrder, MapsWritten,
        LaunchNeed, WantsUid, WantsGid, Map
<1>1. CASE Options
  BY <1>1 DEF Options, ParentFails
<1>2. CASE MakePipe
  BY <1>2 DEF MakePipe, ParentFails
<1>3. CASE Clone
  <2>1. CASE ParentFails("clone")
    BY <2>1 DEF ParentFails
  <2>2. CASE /\ pc["parent"] = "clone"
             /\ pc' = [parent |-> AfterClone, child |-> "closew"]
             /\ writers' = writers \cup {"child"}
             /\ UNCHANGED <<opts, status, setgroups, written>>
    <3>1. pc'["child"] = "closew" /\ pc'["parent"] = AfterClone
      BY <2>2
    <3>2. pc' \in [Proc -> ParentPc \cup ChildPc] /\ AfterClone \in ParentPc
      BY <2>2 DEF AfterClone, AfterUid
    <3>3. AfterClone = "uid_map" => WantsUid
      BY DEF AfterClone, AfterUid
    <3>4. AfterClone = "setgroups" => WantsGid /\ ~WantsUid
      BY DEF AfterClone, AfterUid
    <3>5. AfterClone = "closew" => ~WantsGid /\ ~WantsUid
      BY DEF AfterClone, AfterUid
    <3>6. AfterClone \in {"uid_map", "setgroups", "closew"}
      BY DEF AfterClone, AfterUid
    <3>7. written = {}
      BY <2>2
    <3>. QED  BY <2>2, <3>1, <3>2, <3>3, <3>4, <3>5, <3>6, <3>7
  <2>. QED  BY <1>3, <2>1, <2>2 DEF Clone
<1>4. CASE UidMap
  <2>1. CASE ParentFails("uid_map")
    BY <2>1 DEF ParentFails
  <2>2. CASE /\ pc["parent"] = "uid_map"
             /\ Goto("parent", AfterUid)
             /\ written' = written \cup {"uid"}
             /\ UNCHANGED <<opts, status, writers, setgroups>>
    <3>1. written' = {"uid"} /\ WantsUid
      BY <2>2
    <3>2. CASE WantsGid
      <4>1. AfterUid = "setgroups"
        BY <3>2 DEF AfterUid
      <4>. QED  BY <2>2, <3>1, <3>2, <4>1
    <3>3. CASE ~WantsGid
      <4>1. AfterUid = "closew"
        BY <3>3 DEF AfterUid
      <4>. QED  BY <2>2, <3>1, <3>3, <4>1
    <3>. QED  BY <3>2, <3>3
  <2>. QED  BY <1>4, <2>1, <2>2 DEF UidMap, UpdateMap
<1>5. CASE SetGroups
  BY <1>5 DEF SetGroups
<1>6. CASE GidMap
  <2>1. CASE ParentFails("gid_map")
    BY <2>1 DEF ParentFails
  <2>2. CASE /\ pc["parent"] = "gid_map"
             /\ Goto("parent", "closew")
             /\ written' = written \cup {"gid"}
             /\ UNCHANGED <<opts, status, writers, setgroups>>
    <3>1. written' = LaunchNeed
      BY <2>2
    <3>2. LaunchNeed' = LaunchNeed
      BY <2>2
    <3>. QED  BY <2>2, <3>1, <3>2
  <2>. QED  BY <1>6, <2>1, <2>2 DEF GidMap, UpdateMap
<1>7. CASE CloseW
  BY <1>7 DEF CloseW
<1>8. CASE Wait
  BY <1>8 DEF Wait
<1>9. CASE ChildCloseW
  BY <1>9 DEF ChildCloseW
<1>10. CASE ChildRead
  BY <1>10 DEF ChildRead
<1>11. CASE ChildExec
  BY <1>11 DEF ChildExec
<1>12. CASE CommandEnds
  BY <1>12 DEF CommandEnds
<1>13. CASE ChildFails("read") \/ ChildFails("execvp")
  BY <1>13 DEF ChildFails
<1>14. CASE \E p \in Killable : Kill(p)
  BY <1>14, ConstantsAssumption DEF Kill, Alive
<1>15. CASE UNCHANGED vars
  BY <1>15 DEF vars
<1> HIDE DEF TypeOK, Proc, ParentPc, ChildPc, Goto, Exit, CloneOrder, MapsWritten,
        LaunchNeed, WantsUid, WantsGid, Map
<1>. QED
  BY <1>1, <1>2, <1>3, <1>4, <1>5, <1>6, <1>7, <1>8, <1>9, <1>10, <1>11, <1>12,
     <1>13, <1>14, <1>15 DEF Next, Parent, Child, ChildRuns, Finished

(* Forks, pipe ends and maps go together as the parts of LaunchInv say
   (main() and childFunc(), userns_child_exec.c:155-297). *)
THEOREM LaunchInvariant == Spec => []LaunchInv
<1>1. Init => LaunchInv
  BY ConstantsAssumption
     DEF Init, LaunchInv, TypeOK, CloneOrder, GoGiven, MapsWritten, Proc, ParentPc, ChildPc
<1>2. LaunchInv /\ [Next]_vars => LaunchInv'
  BY TypeKept, CloneOrderKept, GoGivenKept, MapsWrittenKept DEF LaunchInv
<1>. QED  BY <1>1, <1>2, PTL DEF Spec

(* A command without its maps is due to a parent that failed or was killed
   before it closed the pipe (userns_child_exec.c:161, 288). *)
THEOREM UnmappedOnlyIfParentFailedHolds == Spec => []UnmappedOnlyIfParentFailed
<1>1. LaunchInv => UnmappedOnlyIfParentFailed
  BY DEF LaunchInv, UnmappedOnlyIfParentFailed, Command, GoGiven, MapsWritten, CloneOrder,
         TypeOK, Proc
<1>. QED  BY <1>1, LaunchInvariant, PTL

(* Every step of the program is a step of the abstract launcher, or none. *)
LEMMA StepSimulated ==
  ASSUME LaunchInv, [Next]_vars
  PROVE  [L!Next]_(L!vars)
<1> USE DEF LaunchInv, TypeOK, CloneOrder, GoGiven, MapsWritten, Proc, ParentPc, ChildPc,
        Goto, Exit, LaunchNeed, WantsUid, WantsGid, Map, LaunchCmd, Command,
        L!Next, L!vars, L!Ask, L!Trouble, L!End, L!Start, L!WriteMap
<1>1. CASE Options
  BY <1>1 DEF Options, ParentFails
<1>2. CASE MakePipe
  BY ZenonT(40), <1>2 DEF MakePipe, ParentFails
<1>3. CASE Clone
  <2>1. CASE ParentFails("clone")
    BY <2>1 DEF ParentFails
  <2>2. CASE /\ pc["parent"] = "clone"
             /\ pc' = [parent |-> AfterClone, child |-> "closew"]
             /\ UNCHANGED <<opts, status, setgroups, written>>
    <3>1. AfterClone \notin {"options", "exited"}
      BY DEF AfterClone, AfterUid
    <3>2. LaunchCmd = "setup" /\ LaunchCmd' = "setup" /\ LaunchNeed' = LaunchNeed
      BY <2>2, <3>1
    <3>. QED  BY <2>2, <3>2
  <2>. QED  BY <1>3, <2>1, <2>2 DEF Clone
<1>4. CASE UidMap
  BY ZenonT(40), <1>4 DEF UidMap, UpdateMap, ParentFails, AfterUid
<1>5. CASE SetGroups
  BY <1>5 DEF SetGroups
<1>6. CASE GidMap
  BY ZenonT(40), <1>6 DEF GidMap, UpdateMap, ParentFails
<1>7. CASE CloseW
  BY <1>7 DEF CloseW
<1>8. CASE Wait
  BY <1>8 DEF Wait
<1>9. CASE ChildCloseW
  BY <1>9 DEF ChildCloseW
<1>10. CASE ChildRead
  BY <1>10 DEF ChildRead
<1>11. CASE ChildExec
  BY <1>11 DEF ChildExec
<1>12. CASE CommandEnds
  BY <1>12 DEF CommandEnds
<1>13. CASE ChildFails("read") \/ ChildFails("execvp")
  <2>1. CASE ChildFails("read")
    BY <2>1 DEF ChildFails
  <2>2. CASE ChildFails("execvp")
    BY <2>2 DEF ChildFails
  <2>. QED  BY <1>13, <2>1, <2>2
<1>14. CASE \E p \in Killable : Kill(p)
  BY ZenonT(40), <1>14, ConstantsAssumption DEF Kill, Alive
<1>15. CASE UNCHANGED vars
  BY <1>15 DEF vars
<1> HIDE DEF LaunchInv, LaunchNeed, LaunchCmd, L!Next, L!vars, Proc, Goto, Exit
<1>. QED
  BY <1>1, <1>2, <1>3, <1>4, <1>5, <1>6, <1>7, <1>8, <1>9, <1>10, <1>11, <1>12,
     <1>13, <1>14, <1>15 DEF Next, Parent, Child, ChildRuns, Finished

(* userns_child_exec implements the launcher, its liveness aside
   (userns_child_exec.c:155-297). *)
THEOREM ImplementsLauncher == Spec => L!Init /\ [][L!Next]_(L!vars)
<1>1. Init => L!Init
  BY DEF Init, L!Init, LaunchNeed, LaunchCmd, Command, Proc
<1>. QED  BY <1>1, StepSimulated, LaunchInvariant, PTL DEF Spec

=============================================================================
