---------------------------- MODULE Execns_proofs ----------------------------
(***************************************************************************)
(* What holds of execns for every list of command lines, every difference  *)
(* and ownership of namespaces, every caller and all faults.               *)
(***************************************************************************)
EXTENDS Execns, TLAPS

(* ns_list[] names seven namespaces, each once, the mount namespace last. *)
LEMMA NsListFacts ==
  /\ Len(NsList) = 7 /\ DOMAIN NsList = 1..7
  /\ NsName = {"ipc", "pid", "net", "user", "uts", "cgroup", "mnt"}
  /\ \A n \in NsName : \E m \in 1..7 : NsList[m] = n
  /\ \A m \in 1..7 : NsList[m] \in NsName /\ (NsList[m] = "mnt" => m = 7)
  /\ \A m, n \in 1..7 : NsList[m] = NsList[n] => m = n
<1>1. Len(NsList) = 7 /\ DOMAIN NsList = 1..7
  BY DEF NsList
<1>2. /\ NsList[1] = "ipc" /\ NsList[2] = "pid" /\ NsList[3] = "net" /\ NsList[4] = "user"
      /\ NsList[5] = "uts" /\ NsList[6] = "cgroup" /\ NsList[7] = "mnt"
  BY DEF NsList
<1>3. \A m \in 1..7 : m = 1 \/ m = 2 \/ m = 3 \/ m = 4 \/ m = 5 \/ m = 6 \/ m = 7
  OBVIOUS
<1>4. NsName = {NsList[m] : m \in 1..7}
  BY <1>1 DEF NsName, ToSet
<1>. QED  BY <1>1, <1>2, <1>3, <1>4

(* What most steps need of it. *)
LEMMA NsListLength == Len(NsList) = 7 /\ \A m \in 1..7 : NsList[m] \in NsName
BY NsListFacts

(* The namespaces asked for are names of ns_list[]. *)
LEMMA SelectedNames ==
  ASSUME args \in Args, ~Rejected(args)
  PROVE  Selected(args) \subseteq NsName
<1>1. args.names \in Seq(NsName \cup {"all", "bad"})
  BY ConstantsAssumption
<1>2. ToSet(args.names) \subseteq NsName \cup {"all", "bad"}
  BY <1>1 DEF ToSet
<1>. QED  BY <1>2 DEF Rejected, Selected

(* The command line does not change and is one of Args. *)
LEMMA ArgsKept ==
  /\ Init => args \in Args
  /\ args \in Args /\ [Next]_vars => args' \in Args
BY DEF Init, Next, Father, Child, Parse, Loop, Open, SetNs, Fork, Wait, Exec, ExecFails,
       CommandEnds, ChildKilled, ChildTo, TargetDies, vars, setup

(* Every step keeps the variables in their types and the program in its place. *)
LEMMA PlacesKept ==
  ASSUME args \in Args, TypeOK, Places, [Next]_vars
  PROVE  TypeOK' /\ Places'
<1> USE NsListLength DEF TypeOK, Places, FatherPc, Wanted, setup, Fail, ChildTo
<1>1. CASE Parse
  <2>1. CASE Rejected(args)
    BY <1>1, <2>1 DEF Parse
  <2>2. CASE ~Rejected(args)
    <3>1. Selected(args) \subseteq NsName
      BY <2>2, SelectedNames
    <3>. QED  BY <1>1, <2>2, <3>1 DEF Parse
  <2>. QED  BY <2>1, <2>2
<1>2. CASE Loop
  <2>1. CASE i > Len(NsList)
    BY <1>2, <2>1 DEF Loop
  <2>2. CASE i <= Len(NsList) /\ (NsList[i] \notin sel \/ CmpNs(NsList[i]) # 0)
    BY <1>2, <2>2 DEF Loop
  <2>3. CASE i <= Len(NsList) /\ NsList[i] \in sel /\ CmpNs(NsList[i]) = 0
    BY <1>2, <2>3 DEF Loop, CmpNs
  <2>. QED  BY <2>1, <2>2, <2>3
<1>3. CASE Open
  BY <1>3 DEF Open
<1>4. CASE SetNs
  <2>1. CASE ~MayEnter(NsList[i])
    BY <1>4, <2>1 DEF SetNs
  <2>2. CASE MayEnter(NsList[i])
    <3>1. i \in 1..7 /\ NsList[i] \in NsName
      BY <1>4 DEF SetNs
    <3>2. i + 1 \in 1..8 /\ entered \cup {NsList[i]} \subseteq NsName
      BY <3>1
    <3>. QED  BY <1>4, <2>2, <3>2 DEF SetNs
  <2>. QED  BY <2>1, <2>2
<1>5. CASE Fork
  BY <1>5 DEF Fork
<1>6. CASE Wait
  BY <1>6 DEF Wait
<1>7. CASE Child
  BY <1>7 DEF Child, Exec, ExecFails, CommandEnds, ChildKilled
<1>8. CASE TargetDies
  BY <1>8 DEF TargetDies
<1>9. CASE UNCHANGED vars
  BY <1>9 DEF vars
<1> HIDE DEF TypeOK, Places
<1>. QED
  BY <1>1, <1>2, <1>3, <1>4, <1>5, <1>6, <1>7, <1>8, <1>9 DEF Next, Father

(* What is entered is wanted and behind the loop, and nothing is entered behind
   a wanted namespace that was skipped. *)
LEMMA EnteredKept ==
  ASSUME TypeOK, Places, EnteredBehind, SkippedForGood, EnteredInOrder, [Next]_vars
  PROVE  EnteredBehind' /\ SkippedForGood' /\ EnteredInOrder'
<1> USE NsListLength
    DEF TypeOK, Places, EnteredBehind, SkippedForGood, EnteredInOrder, FatherPc, Wanted,
        setup, Fail, ChildTo
<1>1. CASE Parse
  BY <1>1 DEF Parse
<1>2. CASE Loop
  <2>1. CASE i > Len(NsList)
    BY <1>2, <2>1 DEF Loop
  <2>2. CASE i <= Len(NsList) /\ NsList[i] \notin sel
    BY <1>2, <2>2 DEF Loop
  <2>3. CASE i <= Len(NsList) /\ NsList[i] \in sel /\ CmpNs(NsList[i]) = 0
    <3>1. MayLook
      BY <2>3 DEF CmpNs
    <3>2. target /\ caller # "other"
      BY <3>1 DEF MayLook, Visible
    <3>. QED  BY <1>2, <2>3, <3>2 DEF Loop
  <2>4. CASE i <= Len(NsList) /\ NsList[i] \in sel /\ CmpNs(NsList[i]) = 1
    <3>1. NsList[i] \notin Wanted \ entered
      BY <2>4 DEF CmpNs
    <3>. QED  BY <1>2, <2>4, <3>1 DEF Loop
  <2>5. CASE i <= Len(NsList) /\ NsList[i] \in sel /\ CmpNs(NsList[i]) = -1
    <3>1. ~MayLook
      BY <2>5 DEF CmpNs
    <3>2. "mnt" \notin entered
      BY <2>5, NsListFacts
    <3>3. ~(target /\ caller # "other")
      BY <3>1, <3>2 DEF MayLook, Visible
    <3>. QED  BY <1>2, <2>5, <3>3 DEF Loop
  <2>. QED  BY <2>1, <2>2, <2>3, <2>4, <2>5 DEF CmpNs
<1>3. CASE Open
  BY <1>3 DEF Open
<1>4. CASE SetNs
  <2>1. CASE ~MayEnter(NsList[i])
    BY <1>4, <2>1 DEF SetNs
  <2>2. CASE MayEnter(NsList[i])
    <3>1. /\ entered' = entered \cup {NsList[i]} /\ i' = i + 1 /\ father' = "loop"
          /\ UNCHANGED <<setup, target, sel, exit, child>>
      BY <1>4, <2>2 DEF SetNs
    <3>2. \A m \in 1..(i - 1) : NsList[m] \in Wanted => NsList[m] \in entered
      BY <1>4 DEF SetNs
    <3>3. Wanted' = Wanted
      BY <3>1
    <3>4. NsList[i] \in Wanted
      BY <1>4 DEF SetNs
    <3>5. EnteredBehind'
      BY <3>1, <3>3, <3>4
    <3>6. SkippedForGood'
      BY <3>1, <3>2, <3>3
    <3>7. ASSUME NEW m \in DOMAIN NsList, NEW n \in DOMAIN NsList,
                 m < n, NsList[n] \in entered', NsList[m] \in Wanted
          PROVE  NsList[m] \in entered'
      <4>1. CASE NsList[n] \in entered
        BY <3>1, <3>7, <4>1
      <4>2. CASE NsList[n] = NsList[i]
        <5>1. n = i /\ m \in 1..(i - 1)
          BY <1>4, <3>7, <4>2, NsListFacts DEF SetNs
        <5>. QED  BY <3>1, <3>2, <3>7, <5>1
      <4>. QED  BY <3>1, <3>7, <4>1, <4>2
    <3>8. EnteredInOrder'
      BY <3>3, <3>7
    <3>. QED  BY <3>5, <3>6, <3>8
  <2>. QED  BY <2>1, <2>2
<1>5. CASE Fork
  BY <1>5 DEF Fork
<1>6. CASE Wait
  BY <1>6 DEF Wait
<1>7. CASE Child
  BY <1>7 DEF Child, Exec, ExecFails, CommandEnds, ChildKilled
<1>8. CASE TargetDies
  BY <1>8 DEF TargetDies
<1>9. CASE UNCHANGED vars
  BY <1>9 DEF vars
<1> HIDE DEF TypeOK, Places, EnteredBehind, SkippedForGood, EnteredInOrder
<1>. QED
  BY <1>1, <1>2, <1>3, <1>4, <1>5, <1>6, <1>7, <1>8, <1>9 DEF Next, Father

(* The program ends with 0 after its child only. *)
LEMMA OkMeansEndedKept ==
  ASSUME TypeOK, Places, OkMeansEnded, [Next]_vars
  PROVE  OkMeansEnded'
<1> USE DEF TypeOK, Places, OkMeansEnded, setup, Fail, ChildTo
<1>1. CASE Parse
  BY <1>1 DEF Parse
<1>2. CASE Loop
  BY <1>2 DEF Loop
<1>3. CASE Open
  BY <1>3 DEF Open
<1>4. CASE SetNs
  BY <1>4 DEF SetNs
<1>5. CASE Fork
  BY <1>5 DEF Fork
<1>6. CASE Wait
  BY <1>6 DEF Wait
<1>7. CASE Child
  BY <1>7 DEF Child, Exec, ExecFails, CommandEnds, ChildKilled
<1>8. CASE TargetDies
  BY <1>8 DEF TargetDies
<1>9. CASE UNCHANGED vars
  BY <1>9 DEF vars
<1> HIDE DEF TypeOK, Places, OkMeansEnded
<1>. QED
  BY <1>1, <1>2, <1>3, <1>4, <1>5, <1>6, <1>7, <1>8, <1>9 DEF Next, Father

(* The namespaces are entered in the order of ns_list[], those that are wanted
   and no others, and a 0 means that the command has run and ended
   (main(), execns.c:71-227). *)
THEOREM LoopInvariant == Spec => []LoopInv
<1> DEFINE Inv == args \in Args /\ LoopInv
<1>1. Init => Inv
  <2>1. ASSUME Init PROVE TypeOK /\ Places /\ OkMeansEnded
    BY <2>1, NsListFacts DEF Init, TypeOK, Places, OkMeansEnded, FatherPc
  <2>2. ASSUME Init PROVE EnteredBehind /\ SkippedForGood /\ EnteredInOrder
    BY <2>2, NsListFacts DEF Init, EnteredBehind, SkippedForGood, EnteredInOrder
  <2>. QED  BY <2>1, <2>2, ArgsKept DEF LoopInv
<1>2. Inv /\ [Next]_vars => Inv'
  BY ArgsKept, PlacesKept, EnteredKept, OkMeansEndedKept DEF LoopInv
<1>3. Inv => LoopInv
  OBVIOUS
<1>. QED  BY <1>1, <1>2, <1>3, PTL DEF Spec

(* The command runs in exactly the namespaces asked for, unless the target ended
   or may not be looked at, when cmp_ns() = -1 counts as "same namespace"
   (execns.c:148-158). *)
THEOREM RunsWhereAskedHolds == Spec => []RunsWhereAsked
<1>1. ASSUME LoopInv, child = "running", target, caller # "other"
      PROVE  entered = Wanted
  <2>1. i = 8
    BY <1>1, NsListFacts DEF LoopInv, Places
  <2>2. \A m \in 1..7 : NsList[m] \in Wanted => NsList[m] \in entered
    BY <1>1, <2>1 DEF LoopInv, SkippedForGood
  <2>3. Wanted \subseteq NsName
    BY <1>1 DEF LoopInv, TypeOK, Wanted
  <2>4. entered \subseteq Wanted
    BY <1>1 DEF LoopInv, EnteredBehind
  <2>5. ASSUME NEW n \in Wanted PROVE n \in entered
    <3>1. PICK m \in 1..7 : NsList[m] = n
      BY <2>3, NsListFacts
    <3>. QED  BY <2>2, <3>1
  <2>. QED  BY <2>4, <2>5
<1>2. LoopInv => RunsWhereAsked
  BY <1>1 DEF RunsWhereAsked
<1>. QED  BY <1>2, LoopInvariant, PTL

(* Root that is refused a namespace of a target that exists has entered the
   user namespace before, to which the other one does not belong: /proc shows the
   target until the last name of ns_list[] (execns.c:32-40, 160-178). *)
THEOREM RootRefusedOnlyBehindUserHolds == Spec => []RootRefusedOnlyBehindUser
<1>1. Init => RootRefusedOnlyBehindUser
  BY DEF Init, RootRefusedOnlyBehindUser
<1>2. ASSUME LoopInv, RootRefusedOnlyBehindUser, [Next]_vars
      PROVE  RootRefusedOnlyBehindUser'
  <2>. USE <1>2, NsListLength
       DEF LoopInv, TypeOK, Places, RootRefusedOnlyBehindUser, FatherPc, setup, Fail, ChildTo
  <2>1. CASE Parse
    BY <2>1 DEF Parse
  <2>2. CASE Loop
    BY <2>2 DEF Loop
  <2>3. CASE Open
    <3>1. "mnt" \notin entered
      BY <2>3, NsListFacts DEF Open, EnteredBehind
    <3>. QED  BY <2>3, <3>1 DEF Open, MayLook, Visible
  <2>4. CASE SetNs
    <3>1. NsList[i] \in differs
      BY <2>4 DEF SetNs, Wanted
    <3>. QED  BY <2>4, <3>1 DEF SetNs, MayEnter
  <2>5. CASE Fork
    BY <2>5 DEF Fork
  <2>6. CASE Wait
    BY <2>6 DEF Wait
  <2>7. CASE Child
    <3>1. UNCHANGED <<args, owned, caller, target, i, entered, exit>>
      BY <2>7 DEF Child, Exec, ExecFails, CommandEnds, ChildKilled
    <3>. QED  BY <3>1
  <2>8. CASE TargetDies
    BY <2>8 DEF TargetDies
  <2>9. CASE UNCHANGED vars
    BY <2>9 DEF vars
  <2> HIDE DEF LoopInv, TypeOK, Places, RootRefusedOnlyBehindUser
  <2>. QED
    BY <2>1, <2>2, <2>3, <2>4, <2>5, <2>6, <2>7, <2>8, <2>9 DEF Next, Father
<1>. QED  BY <1>1, <1>2, LoopInvariant, PTL DEF Spec

=============================================================================
