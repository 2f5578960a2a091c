---------------------------- MODULE Reaper_proofs ----------------------------
(***************************************************************************)
(* What holds of the reaper for any number of tools and orphans, with and  *)
(* without CHLD on its command line, whatever fails.                       *)
(***************************************************************************)
EXTENDS Reaper, FiniteSetTheorems, TLAPS

(* Every step keeps the variables in their types. *)
LEMMA TypeKept ==
  ASSUME TypeOK, [Next]_vars
  PROVE  TypeOK'
<1> USE DEF TypeOK, ReaperExit, ForkedBy, reaper
<1>1. CASE Signals
  BY <1>1 DEF Signals
<1>2. CASE SignalsFail
  BY <1>2 DEF SignalsFail
<1>3. CASE Fork
  BY <1>3 DEF Fork, Proc
<1>4. CASE ForkFails
  BY <1>4 DEF ForkFails
<1>5. CASE Assign
  BY <1>5 DEF Assign
<1>6. CASE Deliver
  BY <1>6 DEF Deliver
<1>7. CASE Reap
  BY <1>7 DEF Reap
<1>8. CASE ReapNone
  BY <1>8 DEF ReapNone
<1>9. CASE NoChild
  BY <1>9 DEF NoChild
<1>10. ASSUME NEW t \in Tools, StartTool(t) PROVE TypeOK'
  BY <1>10 DEF StartTool, Proc
<1>11. ASSUME NEW t \in Tools, ShellReaps(t) PROVE TypeOK'
  BY <1>11 DEF ShellReaps
<1>12. ASSUME NEW t \in Tools, ToolForks(t) PROVE TypeOK'
  <2>1. nb' \in [Tools -> Nat]
    BY <1>12 DEF ToolForks
  <2>2. t \in Proc
    BY DEF Proc
  <2>. QED  BY <1>12, <2>1, <2>2 DEF ToolForks
<1>13. ASSUME NEW p \in Proc, Ends(p) PROVE TypeOK'
  BY <1>13 DEF Ends, End
<1>14. CASE UNCHANGED vars
  BY <1>14 DEF vars
<1> HIDE DEF TypeOK, ReaperExit, ForkedBy, reaper
<1>. QED
  BY <1>1, <1>2, <1>3, <1>4, <1>5, <1>6, <1>7, <1>8, <1>9, <1>10, <1>11,
     <1>12, <1>13, <1>14 DEF Next, ReaperRuns

(* The shell is the reaper's child from fork() on, nobody is its own parent and
   nothing outlives the reaper. *)
LEMMA PlacesKept ==
  ASSUME TypeOK, Places, [Next]_vars
  PROVE  Places'
<1> USE ConstantsAssumption DEF TypeOK, Places, ReaperExit, ForkedBy, reaper, Proc
<1>1. CASE Signals
  BY <1>1 DEF Signals
<1>2. CASE SignalsFail
  BY <1>2 DEF SignalsFail
<1>3. CASE Fork
  BY <1>3 DEF Fork
<1>4. CASE ForkFails
  BY <1>4 DEF ForkFails
<1>5. CASE Assign
  BY <1>5 DEF Assign
<1>6. CASE Deliver
  BY <1>6 DEF Deliver
<1>7. CASE Reap
  BY ZenonT(40), <1>7 DEF Reap, Zombies, Children
<1>8. CASE ReapNone
  BY <1>8 DEF ReapNone
<1>9. CASE NoChild
  BY <1>9 DEF NoChild
<1>10. ASSUME NEW t \in Tools, StartTool(t) PROVE Places'
  BY <1>10 DEF StartTool
<1>11. ASSUME NEW t \in Tools, ShellReaps(t) PROVE Places'
  BY <1>11 DEF ShellReaps, Zombies, Children
<1>12. ASSUME NEW t \in Tools, ToolForks(t) PROVE Places'
  BY <1>12 DEF ToolForks
<1>13. ASSUME NEW p \in Proc, Ends(p) PROVE Places'
  BY <1>13 DEF Ends, End, Children
<1>14. CASE UNCHANGED vars
  BY <1>14 DEF vars
<1> HIDE DEF TypeOK, Places, ReaperExit, ForkedBy, reaper, Proc
<1>. QED
  BY <1>1, <1>2, <1>3, <1>4, <1>5, <1>6, <1>7, <1>8, <1>9, <1>10, <1>11,
     <1>12, <1>13, <1>14 DEF Next, ReaperRuns

(* No step forgets a zombie: it finds one, or a signal announces one. *)
LEMMA ZombiesKnown ==
  ASSUME TypeOK, Places, NoZombieForgotten, [Next]_vars
  PROVE  NoZombieForgotten'
<1> USE DEF TypeOK, NoZombieForgotten, ReaperExit, ForkedBy, reaper, Zombies, Children
<1>1. CASE Signals
  BY <1>1 DEF Signals
<1>2. CASE SignalsFail
  BY <1>2 DEF SignalsFail
<1>3. CASE Fork
  BY <1>3 DEF Fork, Proc
<1>4. CASE ForkFails
  BY <1>4 DEF ForkFails
<1>5. CASE Assign
  BY <1>5 DEF Assign
<1>6. CASE Deliver
  BY <1>6 DEF Deliver
<1>7. CASE Reap
  BY <1>7 DEF Reap
<1>8. CASE ReapNone
  BY <1>8 DEF ReapNone
<1>9. CASE NoChild
  BY <1>9 DEF NoChild
<1>10. ASSUME NEW t \in Tools, StartTool(t) PROVE NoZombieForgotten'
  BY <1>10 DEF StartTool
<1>11. ASSUME NEW t \in Tools, ShellReaps(t) PROVE NoZombieForgotten'
  BY <1>11 DEF ShellReaps
<1>12. ASSUME NEW t \in Tools, ToolForks(t) PROVE NoZombieForgotten'
  BY <1>12 DEF ToolForks
<1>13. ASSUME NEW p \in Proc, Ends(p) PROVE NoZombieForgotten'
  <2>1. parent[p] # p
    BY DEF Places
  <2>2. SUFFICES ASSUME captured, at # "exited", ~pending',
                        NEW z \in Proc, life'[z] = "zombie", parent'[z] = Reaper
                 PROVE  handling
    BY <1>13 DEF Ends, End
  <2>3. parent[p] # Reaper /\ Zombies(p) = {}
    BY <1>13, <2>2 DEF Ends, End
  <2>4. z # p
    BY <1>13, <2>1, <2>2, <2>3 DEF Ends, End
  <2>5. life[z] = "zombie" /\ parent[z] = Reaper
    BY <1>13, <2>2, <2>3, <2>4 DEF Ends, End
  <2>6. ~pending
    BY <1>13, <2>2 DEF Ends, End
  <2>. QED  BY <2>2, <2>5, <2>6
<1>14. CASE UNCHANGED vars
  BY <1>14 DEF vars
<1> HIDE DEF TypeOK, NoZombieForgotten, ReaperExit, ForkedBy, reaper, Zombies, Children
<1>. QED
  BY <1>1, <1>2, <1>3, <1>4, <1>5, <1>6, <1>7, <1>8, <1>9, <1>10, <1>11,
     <1>12, <1>13, <1>14 DEF Next, ReaperRuns

(* A child that ended and came to the reaper is announced by SIGCHLD or about to
   be found by the handler, however many of them one signal stands for
   (sig_hdl(), reaper.c:74-121). *)
THEOREM ReaperInvariant == Spec => []ReaperInv
<1>1. Init => ReaperInv
  <2>1. Init => TypeOK
    <3>1. Cardinality(Orphans) \in Nat
      BY FS_CardinalityType, ConstantsAssumption
    <3>2. 0..Cardinality(Orphans) \subseteq Nat
      BY <3>1
    <3>. QED  BY <3>2 DEF Init, TypeOK
  <2>2. Init => Places
    BY ConstantsAssumption DEF Init, Places, Proc
  <2>3. Init => NoZombieForgotten
    BY DEF Init, NoZombieForgotten, Zombies, Children
  <2>. QED  BY <2>1, <2>2, <2>3 DEF ReaperInv
<1>2. ReaperInv /\ [Next]_vars => ReaperInv'
  BY TypeKept, PlacesKept, ZombiesKnown DEF ReaperInv
<1>. QED  BY <1>1, <1>2, PTL DEF Spec

(* The step in which the reaper ends: it has just found the shell, or it has no
   child left and the shell was reaped before. *)
LEMMA ExitStep ==
  ASSUME ReaperInv, Next, at' = "exited", at \notin {"signals", "fork"}
  PROVE  \/ exit' = "ok" /\ life[Shell] = "zombie"
         \/ exit' = "error" /\ life[Shell] = "gone" /\ Children(Reaper) = {}
<1>1. CASE at = "exited"
  <2>1. ~handling /\ \A p \in Proc : life[p] \in {"unborn", "gone"}
    BY <1>1 DEF ReaperInv, Places
  <2>2. Shell \in Proc /\ Tools \subseteq Proc
    BY DEF Proc
  <2>. QED
    BY <1>1, <2>1, <2>2
       DEF Next, ReaperRuns, Signals, SignalsFail, Fork, ForkFails, Assign, Deliver, Reap,
           ReapNone, NoChild, StartTool, ShellReaps, ToolForks, Ends, End
<1>2. CASE at # "exited"
  <2>1. at \in {"assign", "pause"}
    BY <1>2 DEF ReaperInv, TypeOK
  <2>2. Reap \/ NoChild
    BY <1>2, <2>1
       DEF Next, ReaperRuns, Signals, SignalsFail, Fork, ForkFails, Assign, Deliver,
           ReapNone, StartTool, ShellReaps, ToolForks, Ends, End, reaper
  <2>3. CASE Reap
    <3>1. PICK z \in Zombies(Reaper) : z = pid_sh /\ exit' = "ok"
      BY <1>2, <2>3 DEF Reap, ReaperExit, reaper
    <3>2. z = Shell
      BY <3>1, ConstantsAssumption DEF ReaperInv, TypeOK, Zombies, Children
    <3>. QED  BY <3>1, <3>2 DEF Zombies
  <2>4. CASE NoChild
    <3>1. exit' = "error" /\ Children(Reaper) = {}
      BY <2>4 DEF NoChild, ReaperExit
    <3>2. life[Shell] # "unborn" /\ parent[Shell] = Reaper /\ Shell \in Proc
      BY <2>1 DEF ReaperInv, Places, Proc
    <3>3. life[Shell] = "gone"
      BY <3>1, <3>2 DEF ReaperInv, TypeOK, Children
    <3>. QED  BY <3>1, <3>3
  <2>. QED  BY <2>2, <2>3, <2>4
<1>. QED  BY <1>1, <1>2

(* Once the shell runs, the reaper ends with 0 when it reaps the shell and with
   1 when the shell was reaped as a stranger and was its last child
   (reaper.c:92-110). *)
THEOREM ExitsForAReasonHolds == Spec => ExitsForAReason
<1>1. ReaperInv /\ [Next]_vars =>
        [at' = "exited" /\ at \notin {"signals", "fork"} =>
           \/ exit' = "ok" /\ life[Shell] = "zombie"
           \/ exit' = "error" /\ life[Shell] = "gone" /\ Children(Reaper) = {}]_vars
  BY ExitStep
<1>. QED  BY <1>1, ReaperInvariant, PTL DEF Spec, ExitsForAReason

=============================================================================
