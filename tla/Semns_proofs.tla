----------------------------- MODULE Semns_proofs ----------------------------
(***************************************************************************)
(* What holds of semns.c for any number of programs on the key, with and   *)
(* without SEM_UNDO, whoever is killed, refused or away.                   *)
(***************************************************************************)
EXTENDS Semns, TLAPS

(* A process is the father or the child of one program. *)
LEMMA ProcFacts ==
  /\ \A p \in Prog : /\ Father(p) \in Proc /\ Child(p) \in Proc
                     /\ Father(p)[1] = p /\ Father(p)[2] = "father"
                     /\ Child(p)[1] = p /\ Child(p)[2] = "child"
  /\ \A p, r \in Prog : /\ Father(p) # Child(r)
                        /\ Father(p) = Father(r) => p = r
                        /\ Child(p) = Child(r) => p = r
  /\ \A q \in Proc : q[1] \in Prog /\ (q = Father(q[1]) \/ q = Child(q[1]))
BY DEF Proc, Father, Child

(* The parts of TypeOK. *)
PlaceType ==
  /\ pc \in [Proc -> FatherPc \cup ChildPc \cup {"exited"}]
  /\ \A p \in Prog : /\ pc[Father(p)] \in FatherPc \cup {"exited"}
                     /\ pc[Child(p)] \in ChildPc \cup {"exited"}
  /\ exit \in [Proc -> {"none", "ok", "error", "killed"}]

HandleType ==
  /\ id \in [Proc -> Prog \cup {None}]
  /\ found \in [Prog -> Prog \cup {None}]
  /\ key \in Prog \cup {None}
  /\ away \subseteq Prog /\ inside \subseteq Proc

PipeType == pipe \in [Prog -> 0..2]

ValueType ==
  /\ made \in [Prog -> {"no", "new", "there", "removed"}]
  /\ val \in [Prog -> 0..1]
  /\ adj \in [Proc -> 0..1]

(* Every process stays in its part of the program. *)
LEMMA PlacesKept ==
  ASSUME TypeOK, [Next]_vars
  PROVE  PlaceType'
<1> USE ConstantsAssumption DEF input, sems, At, Goto, Alive, TypeOK, PlaceType,
                                FatherPc, ChildPc
<1>1. ASSUME NEW q \in Proc, NEW s \in {"ok", "error", "killed"}, Exit(q, s), Alive(q),
             s = "ok" => (pc[q] = "return" \/ pc[q] = "done")
      PROVE  PlaceType'
  BY <1>1, ProcFacts DEF Exit, Undo
<1>2. ASSUME NEW p \in Prog, FatherRuns(p) \/ ForkFails(p) \/ FatherFails(p) \/ ChildRuns(p)
      PROVE  PlaceType'
  BY SMTT(60), <1>1, <1>2, ProcFacts
    DEF FatherRuns, Pipe, Find, Remove, Create, SetVal, P, Fork, Close, Read, NoAnswer,
        Leave, Unshare, Undo, Stay, V, Wait, Return0, ForkFails, FatherFails,
        ChildRuns, Get, Write, ChildExits, Reaches
<1>3. ASSUME NEW q \in Proc, Kill(q) PROVE PlaceType'
  BY <1>1, <1>3 DEF Kill
<1>4. CASE UNCHANGED vars
  BY <1>4 DEF vars
<1> HIDE DEF input, sems, At, Goto, Alive, TypeOK, PlaceType, FatherPc, ChildPc
<1>. QED
  BY <1>2, <1>3, <1>4, ConstantsAssumption
     DEF Next, FatherRuns, ChildRuns, ConstantsAssumption, Proc

(* The identifiers and the sets of processes keep to their types. *)
LEMMA HandlesKept ==
  ASSUME SemInv, [Next]_vars
  PROVE  HandleType'
<1> USE ConstantsAssumption DEF input, sems, At, Goto, Alive, SemInv, TypeOK,
                                HandleType, Objects
<1>1. ASSUME NEW q \in Proc, NEW s \in {"ok", "error", "killed"}, Exit(q, s), Alive(q),
             s = "ok" => (pc[q] = "return" \/ pc[q] = "done")
      PROVE  HandleType'
  BY <1>1, ProcFacts DEF Exit, Undo
<1>2. ASSUME NEW p \in Prog, \/ Pipe(p)
                             \/ SetVal(p) \/ Fork(p) \/ Close(p)
                             \/ Read(p, "read1", "prompt") \/ NoAnswer(p)
                             \/ Read(p, "read2", "relock") \/ Wait(p) \/ Return0(p)
                             \/ ForkFails(p) \/ FatherFails(p)
                             \/ Write(p, "write1", "lock")
                             \/ Write(p, "write2", "unlock") \/ ChildExits(p)
      PROVE  HandleType'
  BY <1>1, <1>2, ProcFacts
    DEF Pipe, SetVal, Fork, Close, Read, NoAnswer, Wait, Return0, ForkFails,
        FatherFails, Write, ChildExits, Reaches
<1>3. ASSUME NEW p \in Prog, Find(p, "find", "remove", "create") PROVE HandleType'
  BY <1>3, ProcFacts DEF Find
<1>4. ASSUME NEW p \in Prog, Remove(p, "remove", "create") PROVE HandleType'
  BY <1>4, ProcFacts DEF Remove
<1>5. ASSUME NEW p \in Prog, Create(p) PROVE HandleType'
  BY <1>1, <1>5, ProcFacts DEF Create
<1>6. ASSUME NEW p \in Prog, P(Father(p), "lock", "fork") PROVE HandleType'
  BY <1>1, <1>6, ProcFacts DEF P, Reaches
<1>7. ASSUME NEW p \in Prog, Leave(p) PROVE HandleType'
  BY <1>7, ProcFacts DEF Leave, Unshare, Undo
<1>8. ASSUME NEW p \in Prog, Stay(p) PROVE HandleType'
  BY <1>1, <1>8, ProcFacts DEF Stay, V, Reaches
<1>9. ASSUME NEW p \in Prog, P(Father(p), "relock", "wait") PROVE HandleType'
  BY <1>1, <1>9, ProcFacts DEF P, Reaches
<1>10. ASSUME NEW p \in Prog, Find(p, "refind", "reremove", "return") PROVE HandleType'
  BY <1>10, ProcFacts DEF Find
<1>11. ASSUME NEW p \in Prog, Remove(p, "reremove", "return") PROVE HandleType'
  BY <1>11, ProcFacts DEF Remove
<1>12. ASSUME NEW p \in Prog, Get(p) PROVE HandleType'
  BY <1>1, <1>12, ProcFacts DEF Get
<1>13. ASSUME NEW p \in Prog, P(Child(p), "lock", "write2") PROVE HandleType'
  BY <1>1, <1>13, ProcFacts DEF P, Reaches
<1>14. ASSUME NEW p \in Prog, V(Child(p), "unlock", "done") PROVE HandleType'
  BY <1>1, <1>14, ProcFacts DEF V, Reaches
<1>15. ASSUME NEW q \in Proc, Kill(q) PROVE HandleType'
  BY <1>1, <1>15 DEF Kill
<1>16. CASE UNCHANGED vars
  BY <1>16 DEF vars
<1> HIDE DEF input, sems, At, Goto, Alive, SemInv, TypeOK, HandleType, Objects
<1>. QED
  BY <1>2, <1>3, <1>4, <1>5, <1>6, <1>7, <1>8, <1>9, <1>10, <1>11, <1>12, <1>13,
     <1>14, <1>15, <1>16, ConstantsAssumption
     DEF Next, FatherRuns, ChildRuns, ConstantsAssumption, Proc

(* A semaphore and its adjustments are never above 1. *)
LEMMA ValuesKept ==
  ASSUME SemInv, [Next]_vars
  PROVE  ValueType'
<1> USE ConstantsAssumption DEF input, sems, At, Goto, Alive, SemInv, TypeOK,
                                Holders, Objects, Adjusted, Conserved, Owners,
                                Reaches, FatherPc, ChildPc, BeforeLock, ValueType
<1>1. ASSUME NEW q \in Proc, NEW s \in {"ok", "error", "killed"}, Exit(q, s), Alive(q),
             s = "ok" => (pc[q] = "return" \/ pc[q] = "done")
      PROVE  ValueType'
  BY <1>1, ProcFacts DEF Exit, Undo
<1>2. ASSUME NEW p \in Prog, \/ Pipe(p)
                             \/ Find(p, "find", "remove", "create") \/ Fork(p)
                             \/ Close(p) \/ Read(p, "read1", "prompt")
                             \/ NoAnswer(p) \/ Read(p, "read2", "relock")
                             \/ Wait(p) \/ Find(p, "refind", "reremove", "return")
                             \/ Return0(p) \/ ForkFails(p) \/ FatherFails(p)
                             \/ Get(p) \/ Write(p, "write1", "lock")
                             \/ Write(p, "write2", "unlock") \/ ChildExits(p)
      PROVE  ValueType'
  BY <1>1, <1>2, ProcFacts
    DEF Pipe, Find, Fork, Close, Read, NoAnswer, Wait, Return0, ForkFails,
        FatherFails, Get, Write, ChildExits
<1>3. ASSUME NEW p \in Prog, Remove(p, "remove", "create") PROVE ValueType'
  BY <1>3, ProcFacts DEF Remove
<1>4. ASSUME NEW p \in Prog, Create(p) PROVE ValueType'
  BY <1>1, <1>4, ProcFacts DEF Create
<1>5. ASSUME NEW p \in Prog, SetVal(p) PROVE ValueType'
  <2>1. CASE Exit(Father(p), "error")
    BY <1>1, <1>5, <2>1, ProcFacts DEF SetVal
  <2>2. CASE ~Exit(Father(p), "error")
    <3>1. id[Father(p)] = p
      BY <1>5, <2>2 DEF SetVal
    <3>2. val' = [val EXCEPT ![p] = 1] /\ made' = [made EXCEPT ![p] = "there"] /\ adj' = adj
      BY <1>5, <2>2, <3>1 DEF SetVal
    <3>. QED  BY <3>2
  <2>. QED  BY <2>1, <2>2
<1>6. ASSUME NEW p \in Prog, P(Father(p), "lock", "fork") PROVE ValueType'
  <2>1. CASE Exit(Father(p), "error")
    BY <1>1, <1>6, <2>1, ProcFacts DEF P
  <2>2. CASE ~Exit(Father(p), "error")
    <3>1. Father(p) \notin inside /\ id[Father(p)] \in Prog /\ val[id[Father(p)]] = 1
      BY <1>6, <2>2, ProcFacts DEF P
    <3>2. adj[Father(p)] = 0
      BY <3>1, ProcFacts
    <3>3. val' = [val EXCEPT ![id[Father(p)]] = 0] /\ made' = made
      BY <1>6, <2>2, <3>1 DEF P
    <3>4. adj' = [adj EXCEPT ![Father(p)] = IF undo[Father(p)[1]] THEN 1 ELSE 0]
      BY <1>6, <2>2, <3>2, ProcFacts DEF P
    <3>5. val' \in [Prog -> 0..1] /\ made' \in [Prog -> {"no", "new", "there", "removed"}]
      BY <3>1, <3>3
    <3>6. adj' \in [Proc -> 0..1]
      BY <3>4, ProcFacts
    <3>. QED  BY <3>5, <3>6
  <2>. QED  BY <2>1, <2>2
<1>7. ASSUME NEW p \in Prog, Leave(p) PROVE ValueType'
  BY <1>7, ProcFacts DEF Leave, Unshare, Undo
<1>8. ASSUME NEW p \in Prog, Stay(p) PROVE ValueType'
  <2>1. CASE Exit(Father(p), "error")
    BY <1>1, <1>8, <2>1, ProcFacts DEF Stay, V
  <2>2. CASE ~Exit(Father(p), "error")
    <3>1. Father(p) \in inside /\ id[Father(p)] \in Prog
      BY <1>8, <2>2, ProcFacts DEF Stay, V
    <3>2. val[id[Father(p)]] = 0 /\ (undo[Father(p)[1]] => adj[Father(p)] = 1)
      BY <3>1, ProcFacts
    <3>3. val' = [val EXCEPT ![id[Father(p)]] = 1] /\ made' = made
      BY <1>8, <2>2, <3>1, <3>2 DEF Stay, V
    <3>4. adj' = [adj EXCEPT ![Father(p)] = IF undo[Father(p)[1]] THEN 0 ELSE adj[Father(p)]]
      BY <1>8, <2>2, <3>1, <3>2, ProcFacts DEF Stay, V
    <3>5. val' \in [Prog -> 0..1] /\ made' \in [Prog -> {"no", "new", "there", "removed"}]
      BY <3>1, <3>3
    <3>6. adj' \in [Proc -> 0..1]
      BY <3>4, ProcFacts
    <3>. QED  BY <3>5, <3>6
  <2>. QED  BY <2>1, <2>2
<1>9. ASSUME NEW p \in Prog, P(Father(p), "relock", "wait") PROVE ValueType'
  <2>1. CASE Exit(Father(p), "error")
    BY <1>1, <1>9, <2>1, ProcFacts DEF P
  <2>2. CASE ~Exit(Father(p), "error")
    <3>1. Father(p) \notin inside /\ id[Father(p)] \in Prog /\ val[id[Father(p)]] = 1
      BY SMTT(30), <1>9, <2>2, ProcFacts DEF P
    <3>2. adj[Father(p)] = 0
      BY <3>1, ProcFacts
    <3>3. val' = [val EXCEPT ![id[Father(p)]] = 0] /\ made' = made
      BY <1>9, <2>2, <3>1 DEF P
    <3>4. adj' = [adj EXCEPT ![Father(p)] = IF undo[Father(p)[1]] THEN 1 ELSE 0]
      BY <1>9, <2>2, <3>2, ProcFacts DEF P
    <3>5. val' \in [Prog -> 0..1] /\ made' \in [Prog -> {"no", "new", "there", "removed"}]
      BY <3>1, <3>3
    <3>6. adj' \in [Proc -> 0..1]
      BY <3>4, ProcFacts
    <3>. QED  BY <3>5, <3>6
  <2>. QED  BY <2>1, <2>2
<1>10. ASSUME NEW p \in Prog, Remove(p, "reremove", "return") PROVE ValueType'
  BY <1>10, ProcFacts DEF Remove
<1>11. ASSUME NEW p \in Prog, P(Child(p), "lock", "write2") PROVE ValueType'
  <2>1. CASE Exit(Child(p), "error")
    BY <1>1, <1>11, <2>1, ProcFacts DEF P
  <2>2. CASE ~Exit(Child(p), "error")
    <3>1. Child(p) \notin inside /\ id[Child(p)] \in Prog /\ val[id[Child(p)]] = 1
      BY <1>11, <2>2, ProcFacts DEF P
    <3>2. adj[Child(p)] = 0
      BY <3>1, ProcFacts
    <3>3. val' = [val EXCEPT ![id[Child(p)]] = 0] /\ made' = made
      BY <1>11, <2>2, <3>1 DEF P
    <3>4. adj' = [adj EXCEPT ![Child(p)] = IF undo[Child(p)[1]] THEN 1 ELSE 0]
      BY <1>11, <2>2, <3>2, ProcFacts DEF P
    <3>5. val' \in [Prog -> 0..1] /\ made' \in [Prog -> {"no", "new", "there", "removed"}]
      BY <3>1, <3>3
    <3>6. adj' \in [Proc -> 0..1]
      BY <3>4, ProcFacts
    <3>. QED  BY <3>5, <3>6
  <2>. QED  BY <2>1, <2>2
<1>12. ASSUME NEW p \in Prog, V(Child(p), "unlock", "done") PROVE ValueType'
  <2>1. CASE Exit(Child(p), "error")
    BY <1>1, <1>12, <2>1, ProcFacts DEF V
  <2>2. CASE ~Exit(Child(p), "error")
    <3>1. Child(p) \in inside /\ id[Child(p)] \in Prog
      BY <1>12, <2>2, ProcFacts DEF V
    <3>2. val[id[Child(p)]] = 0 /\ (undo[Child(p)[1]] => adj[Child(p)] = 1)
      BY <3>1, ProcFacts
    <3>3. val' = [val EXCEPT ![id[Child(p)]] = 1] /\ made' = made
      BY <1>12, <2>2, <3>1, <3>2 DEF V
    <3>4. adj' = [adj EXCEPT ![Child(p)] = IF undo[Child(p)[1]] THEN 0 ELSE adj[Child(p)]]
      BY <1>12, <2>2, <3>1, <3>2, ProcFacts DEF V
    <3>5. val' \in [Prog -> 0..1] /\ made' \in [Prog -> {"no", "new", "there", "removed"}]
      BY <3>1, <3>3
    <3>6. adj' \in [Proc -> 0..1]
      BY <3>4, ProcFacts
    <3>. QED  BY <3>5, <3>6
  <2>. QED  BY <2>1, <2>2
<1>13. ASSUME NEW q \in Proc, Kill(q) PROVE ValueType'
  BY <1>1, <1>13 DEF Kill
<1>14. CASE UNCHANGED vars
  BY <1>14 DEF vars
<1> HIDE DEF input, sems, At, Goto, Alive, SemInv, TypeOK, Holders, Objects,
             Adjusted, Conserved, Owners, Reaches, FatherPc, ChildPc, BeforeLock,
             ValueType
<1>. QED
  BY <1>2, <1>3, <1>4, <1>5, <1>6, <1>7, <1>8, <1>9, <1>10, <1>11, <1>12, <1>13,
     <1>14, ConstantsAssumption
     DEF Next, FatherRuns, ChildRuns, ConstantsAssumption, Proc

(* Who is between P() and V() is inside. *)
LEMMA HoldersKept ==
  ASSUME SemInv, [Next]_vars
  PROVE  Holders'
<1> USE ConstantsAssumption DEF input, sems, At, Goto, Alive, SemInv, TypeOK,
                                FatherPc, ChildPc, Holders, Adjusted, BeforeLock
<1>1. ASSUME NEW q \in Proc, NEW s \in {"ok", "error", "killed"}, Exit(q, s), Alive(q),
             s = "ok" => (pc[q] = "return" \/ pc[q] = "done")
      PROVE  Holders'
  BY <1>1, ProcFacts DEF Exit, Undo
<1>2. ASSUME NEW p \in Prog, \/ Pipe(p)
                             \/ Find(p, "find", "remove", "create")
                             \/ Remove(p, "remove", "create") \/ Create(p)
                             \/ SetVal(p) \/ Close(p) \/ Read(p, "read1", "prompt")
                             \/ NoAnswer(p) \/ Read(p, "read2", "relock")
                             \/ Wait(p) \/ Find(p, "refind", "reremove", "return")
                             \/ Remove(p, "reremove", "return") \/ Return0(p)
                             \/ FatherFails(p) \/ ChildExits(p)
      PROVE  Holders'
  BY <1>1, <1>2, ProcFacts
    DEF Pipe, Find, Remove, Create, SetVal, Close, Read, NoAnswer, Wait, Return0,
        FatherFails, ChildExits, Reaches
<1>3. ASSUME NEW p \in Prog, P(Father(p), "lock", "fork") PROVE Holders'
  BY <1>1, <1>3, ProcFacts DEF P, Reaches
<1>4. ASSUME NEW p \in Prog, Fork(p) PROVE Holders'
  BY <1>4, ProcFacts DEF Fork
<1>5. ASSUME NEW p \in Prog, Leave(p) PROVE Holders'
  BY <1>5, ProcFacts DEF Leave, Unshare, Undo
<1>6. ASSUME NEW p \in Prog, Stay(p) PROVE Holders'
  BY <1>1, <1>6, ProcFacts DEF Stay, V, Reaches
<1>7. ASSUME NEW p \in Prog, P(Father(p), "relock", "wait") PROVE Holders'
  BY <1>1, <1>7, ProcFacts DEF P, Reaches
<1>8. ASSUME NEW p \in Prog, ForkFails(p) PROVE Holders'
  BY <1>8, ProcFacts DEF ForkFails
<1>9. ASSUME NEW p \in Prog, Get(p) PROVE Holders'
  BY <1>1, <1>9, ProcFacts DEF Get
<1>10. ASSUME NEW p \in Prog, Write(p, "write1", "lock") PROVE Holders'
  BY <1>1, <1>10, ProcFacts DEF Write
<1>11. ASSUME NEW p \in Prog, P(Child(p), "lock", "write2") PROVE Holders'
  BY <1>1, <1>11, ProcFacts DEF P, Reaches
<1>12. ASSUME NEW p \in Prog, Write(p, "write2", "unlock") PROVE Holders'
  BY <1>1, <1>12, ProcFacts DEF Write
<1>13. ASSUME NEW p \in Prog, V(Child(p), "unlock", "done") PROVE Holders'
  BY <1>1, <1>13, ProcFacts DEF V, Reaches
<1>14. ASSUME NEW q \in Proc, Kill(q) PROVE Holders'
  BY <1>1, <1>14 DEF Kill
<1>15. CASE UNCHANGED vars
  BY <1>15 DEF vars
<1> HIDE DEF input, sems, At, Goto, Alive, SemInv, TypeOK, FatherPc, ChildPc,
             Holders, Adjusted, BeforeLock
<1>. QED
  BY <1>2, <1>3, <1>4, <1>5, <1>6, <1>7, <1>8, <1>9, <1>10, <1>11, <1>12, <1>13,
     <1>14, <1>15, ConstantsAssumption
     DEF Next, FatherRuns, ChildRuns, ConstantsAssumption, Proc

(* No semaphore is created twice, and whoever knows one knows it is there or was. *)
LEMMA ObjectsKept ==
  ASSUME SemInv, [Next]_vars
  PROVE  Objects'
<1> USE ConstantsAssumption DEF input, sems, At, Goto, Alive, SemInv, TypeOK,
                                FatherPc, ChildPc, Holders, Objects, Reaches,
                                BeforeLock, Conserved
<1>1. ASSUME NEW q \in Proc, NEW s \in {"ok", "error", "killed"}, Exit(q, s), Alive(q),
             s = "ok" => (pc[q] = "return" \/ pc[q] = "done")
      PROVE  Objects'
  BY <1>1, ProcFacts DEF Exit, Undo
<1>2. ASSUME NEW p \in Prog, \/ Pipe(p)
                             \/ Close(p) \/ Read(p, "read1", "prompt")
                             \/ NoAnswer(p) \/ Read(p, "read2", "relock")
                             \/ Return0(p) \/ ForkFails(p) \/ FatherFails(p)
                             \/ Write(p, "write1", "lock")
                             \/ Write(p, "write2", "unlock") \/ ChildExits(p)
      PROVE  Objects'
  BY <1>1, <1>2, ProcFacts
    DEF Pipe, Close, Read, NoAnswer, Return0, ForkFails, FatherFails, Write,
        ChildExits
<1>3. ASSUME NEW p \in Prog, Find(p, "find", "remove", "create") PROVE Objects'
  BY <1>3, ProcFacts DEF Find
<1>4. ASSUME NEW p \in Prog, Remove(p, "remove", "create") PROVE Objects'
  <2>1. found[p] \in Prog
    BY <1>4 DEF Remove
  <2>2. made' = [made EXCEPT ![found[p]] = "removed"] /\ made[found[p]] # "no"
    BY <1>4 DEF Remove
  <2>3. \A s \in Prog : made'[s] \in {"new", "there"} <=> key' = s
    BY <1>4, <2>1, <2>2 DEF Remove
  <2>4. \A s \in Prog : /\ made[s] = "no" <=> made'[s] = "no"
                        /\ made'[s] = "new" => made[s] = "new"
    BY <2>1, <2>2
  <2>5. \A q \in Proc : id'[q] # None => made'[id'[q]] # "no"
    BY <1>4, <2>4 DEF Remove
  <2>6. \A q \in inside' : id'[q] # None /\ made'[id'[q]] # "new"
    BY <1>4, <2>4, ProcFacts DEF Remove
  <2>. QED  BY <1>4, <2>2, <2>3, <2>4, <2>5, <2>6, ProcFacts DEF Remove
<1>5. ASSUME NEW p \in Prog, Create(p) PROVE Objects'
  <2>1. CASE Exit(Father(p), "error")
    BY <1>1, <1>5, <2>1, ProcFacts DEF Create
  <2>2. CASE ~Exit(Father(p), "error")
    <3>1. key = None /\ key' = p /\ made' = [made EXCEPT ![p] = "new"] /\ made[p] = "no"
      BY <1>5, <2>2 DEF Create
    <3>2. id' = [id EXCEPT ![Father(p)] = p] /\ inside' = inside /\ found' = found
      BY <1>5, <2>2 DEF Create
    <3>3. pc' = [pc EXCEPT ![Father(p)] = "setval"] /\ Father(p) \notin inside
      BY <1>5, <2>2 DEF Create
    <3>4. \A s \in Prog : made'[s] \in {"new", "there"} <=> key' = s
      BY <3>1
    <3>5. \A q \in Proc : id'[q] # None => made'[id'[q]] # "no"
      BY <3>1, <3>2, ProcFacts
    <3>6. \A q \in inside' : id'[q] # None /\ made'[id'[q]] # "new"
      BY <3>1, <3>2, <3>3, ProcFacts
    <3>7. \A r \in Prog \ {p} : /\ pc'[Father(r)] = pc[Father(r)]
                               /\ pc'[Child(r)] = pc[Child(r)]
                               /\ id'[Father(r)] = id[Father(r)] /\ id'[Child(r)] = id[Child(r)]
                               /\ made'[r] = made[r]
      BY <3>1, <3>2, <3>3, ProcFacts
    <3>8. /\ pc'[Father(p)] = "setval" /\ pc'[Child(p)] = pc[Child(p)] /\ id'[Father(p)] = p
          /\ id'[Child(p)] = id[Child(p)] /\ made'[p] = "new"
      BY <3>1, <3>2, <3>3, ProcFacts
    <3>9. \A r \in Prog : found[r] # None => made'[found[r]] # "no"
      BY <3>1
    <3>. QED  BY <3>2, <3>4, <3>5, <3>6, <3>7, <3>8, <3>9
  <2>. QED  BY <2>1, <2>2
<1>6. ASSUME NEW p \in Prog, SetVal(p) PROVE Objects'
  BY <1>1, <1>6, ProcFacts DEF SetVal
<1>7. ASSUME NEW p \in Prog, P(Father(p), "lock", "fork") PROVE Objects'
  BY <1>1, <1>7, ProcFacts DEF P
<1>8. ASSUME NEW p \in Prog, Fork(p) PROVE Objects'
  BY <1>8, ProcFacts DEF Fork
<1>9. ASSUME NEW p \in Prog, Leave(p) PROVE Objects'
  BY <1>9, ProcFacts DEF Leave, Unshare, Undo
<1>10. ASSUME NEW p \in Prog, Stay(p) PROVE Objects'
  BY <1>1, <1>10, ProcFacts DEF Stay, V
<1>11. ASSUME NEW p \in Prog, P(Father(p), "relock", "wait") PROVE Objects'
  BY <1>1, <1>11, ProcFacts DEF P
<1>12. ASSUME NEW p \in Prog, Wait(p) PROVE Objects'
  BY <1>12, ProcFacts DEF Wait
<1>13. ASSUME NEW p \in Prog, Find(p, "refind", "reremove", "return") PROVE Objects'
  BY <1>13, ProcFacts DEF Find
<1>14. ASSUME NEW p \in Prog, Remove(p, "reremove", "return") PROVE Objects'
  <2>1. found[p] \in Prog
    BY <1>14 DEF Remove
  <2>2. made' = [made EXCEPT ![found[p]] = "removed"] /\ made[found[p]] # "no"
    BY <1>14 DEF Remove
  <2>3. \A s \in Prog : made'[s] \in {"new", "there"} <=> key' = s
    BY <1>14, <2>1, <2>2 DEF Remove
  <2>4. \A s \in Prog : /\ made[s] = "no" <=> made'[s] = "no"
                        /\ made'[s] = "new" => made[s] = "new"
    BY <2>1, <2>2
  <2>5. \A q \in Proc : id'[q] # None => made'[id'[q]] # "no"
    BY <1>14, <2>4 DEF Remove
  <2>6. \A q \in inside' : id'[q] # None /\ made'[id'[q]] # "new"
    BY <1>14, <2>4, ProcFacts DEF Remove
  <2>. QED  BY <1>14, <2>2, <2>3, <2>4, <2>5, <2>6, ProcFacts DEF Remove
<1>15. ASSUME NEW p \in Prog, Get(p) PROVE Objects'
  <2>1. CASE Exit(Child(p), "error")
    BY <1>1, <1>15, <2>1, ProcFacts DEF Get
  <2>2. CASE ~Exit(Child(p), "error")
    BY <1>15, <2>2, ProcFacts DEF Get
  <2>. QED  BY <2>1, <2>2
<1>16. ASSUME NEW p \in Prog, P(Child(p), "lock", "write2") PROVE Objects'
  BY <1>1, <1>16, ProcFacts DEF P
<1>17. ASSUME NEW p \in Prog, V(Child(p), "unlock", "done") PROVE Objects'
  BY SMTT(30), <1>1, <1>17, ProcFacts DEF V
<1>18. ASSUME NEW q \in Proc, Kill(q) PROVE Objects'
  BY <1>1, <1>18 DEF Kill
<1>19. CASE UNCHANGED vars
  BY <1>19 DEF vars
<1> HIDE DEF input, sems, At, Goto, Alive, SemInv, TypeOK, FatherPc, ChildPc,
             Holders, Objects, Reaches, BeforeLock, Conserved
<1>. QED
  BY <1>2, <1>3, <1>4, <1>5, <1>6, <1>7, <1>8, <1>9, <1>10, <1>11, <1>12, <1>13,
     <1>14, <1>15, <1>16, <1>17, <1>18, <1>19, ConstantsAssumption
     DEF Next, FatherRuns, ChildRuns, ConstantsAssumption, Proc

(* The kernel gives back what a process has taken. *)
LEMMA AdjustedKept ==
  ASSUME SemInv, [Next]_vars
  PROVE  Adjusted'
<1> USE ConstantsAssumption DEF input, sems, At, Goto, Alive, SemInv, TypeOK,
                                Holders, Objects, Adjusted, Conserved, Owners,
                                Reaches, FatherPc, ChildPc, BeforeLock
<1>1. ASSUME NEW q \in Proc, NEW s \in {"ok", "error", "killed"}, Exit(q, s), Alive(q),
             s = "ok" => (pc[q] = "return" \/ pc[q] = "done")
      PROVE  Adjusted'
  BY <1>1, ProcFacts DEF Exit, Undo
<1>2. ASSUME NEW p \in Prog, \/ Pipe(p)
                             \/ Find(p, "find", "remove", "create")
                             \/ Remove(p, "remove", "create") \/ Create(p)
                             \/ SetVal(p) \/ Fork(p) \/ Close(p)
                             \/ Read(p, "read1", "prompt") \/ NoAnswer(p)
                             \/ Read(p, "read2", "relock") \/ Wait(p)
                             \/ Find(p, "refind", "reremove", "return")
                             \/ Remove(p, "reremove", "return") \/ Return0(p)
                             \/ ForkFails(p) \/ FatherFails(p) \/ Get(p)
                             \/ Write(p, "write1", "lock")
                             \/ Write(p, "write2", "unlock") \/ ChildExits(p)
      PROVE  Adjusted'
  BY <1>1, <1>2, ProcFacts
    DEF Pipe, Find, Remove, Create, SetVal, Fork, Close, Read, NoAnswer, Wait,
        Return0, ForkFails, FatherFails, Get, Write, ChildExits
<1>3. ASSUME NEW p \in Prog, P(Father(p), "lock", "fork") PROVE Adjusted'
  BY <1>1, <1>3, ProcFacts DEF P
<1>4. ASSUME NEW p \in Prog, Leave(p) PROVE Adjusted'
  BY <1>4, ProcFacts DEF Leave, Unshare, Undo
<1>5. ASSUME NEW p \in Prog, Stay(p) PROVE Adjusted'
  BY <1>1, <1>5, ProcFacts DEF Stay, V
<1>6. ASSUME NEW p \in Prog, P(Father(p), "relock", "wait") PROVE Adjusted'
  BY <1>1, <1>6, ProcFacts DEF P
<1>7. ASSUME NEW p \in Prog, P(Child(p), "lock", "write2") PROVE Adjusted'
  BY <1>1, <1>7, ProcFacts DEF P
<1>8. ASSUME NEW p \in Prog, V(Child(p), "unlock", "done") PROVE Adjusted'
  BY SMTT(30), <1>1, <1>8, ProcFacts DEF V
<1>9. ASSUME NEW q \in Proc, Kill(q) PROVE Adjusted'
  BY <1>1, <1>9 DEF Kill
<1>10. CASE UNCHANGED vars
  BY <1>10 DEF vars
<1> HIDE DEF input, sems, At, Goto, Alive, SemInv, TypeOK, Holders, Objects,
             Adjusted, Conserved, Owners, Reaches, FatherPc, ChildPc, BeforeLock
<1>. QED
  BY <1>2, <1>3, <1>4, <1>5, <1>6, <1>7, <1>8, <1>9, <1>10, ConstantsAssumption
     DEF Next, FatherRuns, ChildRuns, ConstantsAssumption, Proc

(* A semaphore is free or taken by one process. *)
LEMMA ConservedKept ==
  ASSUME SemInv, [Next]_vars
  PROVE  Conserved'
<1> USE ConstantsAssumption DEF input, sems, At, Goto, Alive, SemInv, TypeOK,
                                Holders, Objects, Adjusted, Conserved, Owners,
                                Reaches, FatherPc, ChildPc, BeforeLock
<1>1. ASSUME NEW q \in Proc, NEW s \in {"ok", "error", "killed"}, Exit(q, s), Alive(q),
             s = "ok" => (pc[q] = "return" \/ pc[q] = "done")
      PROVE  Conserved'
  BY <1>1, ProcFacts DEF Exit, Undo
<1>2. ASSUME NEW p \in Prog, \/ Pipe(p)
                             \/ Find(p, "find", "remove", "create") \/ Fork(p)
                             \/ Close(p) \/ Read(p, "read1", "prompt")
                             \/ NoAnswer(p) \/ Read(p, "read2", "relock")
                             \/ Wait(p) \/ Find(p, "refind", "reremove", "return")
                             \/ Return0(p) \/ ForkFails(p) \/ FatherFails(p)
                             \/ Write(p, "write1", "lock")
                             \/ Write(p, "write2", "unlock") \/ ChildExits(p)
      PROVE  Conserved'
  <2>1. CASE Find(p, "find", "remove", "create") \/ Find(p, "refind", "reremove", "return")
    BY <1>1, <2>1, ProcFacts DEF Find
  <2>2. CASE Pipe(p) \/ Close(p) \/ Fork(p) \/ ForkFails(p) \/ FatherFails(p)
    BY <1>1, <2>2, ProcFacts DEF Pipe, Close, Fork, ForkFails, FatherFails
  <2>3. CASE Read(p, "read1", "prompt") \/ Read(p, "read2", "relock") \/ NoAnswer(p)
    BY <1>1, <2>3, ProcFacts DEF Read, NoAnswer
  <2>4. CASE Write(p, "write1", "lock") \/ Write(p, "write2", "unlock")
    BY SMTT(30), <1>1, <2>4, ProcFacts DEF Write
  <2>5. CASE Wait(p) \/ Return0(p) \/ ChildExits(p)
    BY <1>1, <2>5, ProcFacts DEF Wait, Return0, ChildExits
  <2>. QED  BY <1>2, <2>1, <2>2, <2>3, <2>4, <2>5
<1>3. ASSUME NEW p \in Prog, Remove(p, "remove", "create") PROVE Conserved'
  BY <1>3, ProcFacts DEF Remove
<1>4. ASSUME NEW p \in Prog, Create(p) PROVE Conserved'
  BY <1>1, <1>4, ProcFacts DEF Create
<1>5. ASSUME NEW p \in Prog, SetVal(p) PROVE Conserved'
  BY <1>1, <1>5, ProcFacts DEF SetVal
<1>6. ASSUME NEW p \in Prog, P(Father(p), "lock", "fork") PROVE Conserved'
  BY <1>1, <1>6, ProcFacts DEF P
<1>7. ASSUME NEW p \in Prog, Leave(p) PROVE Conserved'
  BY <1>7, ProcFacts DEF Leave, Unshare, Undo
<1>8. ASSUME NEW p \in Prog, Stay(p) PROVE Conserved'
  BY <1>1, <1>8, ProcFacts DEF Stay, V
<1>9. ASSUME NEW p \in Prog, P(Father(p), "relock", "wait") PROVE Conserved'
  BY SMTT(30), <1>1, <1>9, ProcFacts DEF P
<1>10. ASSUME NEW p \in Prog, Remove(p, "reremove", "return") PROVE Conserved'
  BY <1>10, ProcFacts DEF Remove
<1>11. ASSUME NEW p \in Prog, Get(p) PROVE Conserved'
  BY <1>1, <1>11, ProcFacts DEF Get
<1>12. ASSUME NEW p \in Prog, P(Child(p), "lock", "write2") PROVE Conserved'
  <2>1. CASE Exit(Child(p), "error")
    BY <1>1, <1>12, <2>1, ProcFacts DEF P
  <2>2. CASE ~Exit(Child(p), "error")
    BY <1>12, <2>2, ProcFacts DEF P
  <2>. QED  BY <2>1, <2>2
<1>13. ASSUME NEW p \in Prog, V(Child(p), "unlock", "done") PROVE Conserved'
  BY <1>1, <1>13, ProcFacts DEF V
<1>14. ASSUME NEW q \in Proc, Kill(q) PROVE Conserved'
  BY <1>1, <1>14 DEF Kill
<1>15. CASE UNCHANGED vars
  BY <1>15 DEF vars
<1> HIDE DEF input, sems, At, Goto, Alive, SemInv, TypeOK, Holders, Objects,
             Adjusted, Conserved, Owners, Reaches, FatherPc, ChildPc, BeforeLock
<1>. QED
  BY <1>2, <1>3, <1>4, <1>5, <1>6, <1>7, <1>8, <1>9, <1>10, <1>11, <1>12, <1>13,
     <1>14, <1>15, ConstantsAssumption
     DEF Next, FatherRuns, ChildRuns, ConstantsAssumption, Proc

(* What is in the pipe was written and not read. *)
LEMMA MessagesKept ==
  ASSUME SemInv, [Next]_vars
  PROVE  Messages'
<1> USE ConstantsAssumption DEF input, sems, At, Goto, Alive, SemInv, TypeOK,
                                FatherPc, ChildPc, Holders, BeforeLock, Messages,
                                Written, Taken, Early, Late, HasReader
<1>1. ASSUME NEW q \in Proc, NEW s \in {"ok", "error", "killed"}, Exit(q, s), Alive(q),
             s = "ok" => (pc[q] = "return" \/ pc[q] = "done")
      PROVE  Messages'
  BY <1>1, ProcFacts DEF Exit, Undo
<1>2. ASSUME NEW p \in Prog, \/ Pipe(p)
                             \/ Find(p, "find", "remove", "create")
                             \/ Remove(p, "remove", "create") \/ Create(p)
                             \/ SetVal(p) \/ Close(p) \/ NoAnswer(p) \/ Wait(p)
                             \/ Find(p, "refind", "reremove", "return")
                             \/ Remove(p, "reremove", "return") \/ Return0(p)
                             \/ FatherFails(p) \/ ChildExits(p)
      PROVE  Messages'
  BY <1>1, <1>2, ProcFacts
    DEF Pipe, Find, Remove, Create, SetVal, Close, NoAnswer, Wait, Return0,
        FatherFails, ChildExits, Reaches
<1>3. ASSUME NEW p \in Prog, P(Father(p), "lock", "fork") PROVE Messages'
  BY <1>1, <1>3, ProcFacts DEF P, Reaches
<1>4. ASSUME NEW p \in Prog, Fork(p) PROVE Messages'
  BY <1>4, ProcFacts DEF Fork
<1>5. ASSUME NEW p \in Prog, Read(p, "read1", "prompt") PROVE Messages'
  BY <1>1, <1>5, ProcFacts DEF Read
<1>6. ASSUME NEW p \in Prog, Leave(p) PROVE Messages'
  BY <1>6, ProcFacts DEF Leave, Unshare, Undo
<1>7. ASSUME NEW p \in Prog, Stay(p) PROVE Messages'
  BY <1>1, <1>7, ProcFacts DEF Stay, V, Reaches
<1>8. ASSUME NEW p \in Prog, Read(p, "read2", "relock") PROVE Messages'
  BY <1>1, <1>8, ProcFacts DEF Read
<1>9. ASSUME NEW p \in Prog, P(Father(p), "relock", "wait") PROVE Messages'
  BY <1>1, <1>9, ProcFacts DEF P, Reaches
<1>10. ASSUME NEW p \in Prog, ForkFails(p) PROVE Messages'
  BY <1>10, ProcFacts DEF ForkFails
<1>11. ASSUME NEW p \in Prog, Get(p) PROVE Messages'
  BY <1>1, <1>11, ProcFacts DEF Get
<1>12. ASSUME NEW p \in Prog, Write(p, "write1", "lock") PROVE Messages'
  BY <1>1, <1>12, ProcFacts DEF Write
<1>13. ASSUME NEW p \in Prog, P(Child(p), "lock", "write2") PROVE Messages'
  BY <1>1, <1>13, ProcFacts DEF P, Reaches
<1>14. ASSUME NEW p \in Prog, Write(p, "write2", "unlock") PROVE Messages'
  BY <1>1, <1>14, ProcFacts DEF Write
<1>15. ASSUME NEW p \in Prog, V(Child(p), "unlock", "done") PROVE Messages'
  BY <1>1, <1>15, ProcFacts DEF V, Reaches
<1>16. ASSUME NEW q \in Proc, Kill(q) PROVE Messages'
  BY <1>1, <1>16 DEF Kill
<1>17. CASE UNCHANGED vars
  BY <1>17 DEF vars
<1> HIDE DEF input, sems, At, Goto, Alive, SemInv, TypeOK, FatherPc, ChildPc,
             Holders, BeforeLock, Messages, Written, Taken, Early, Late, HasReader
<1>. QED
  BY <1>2, <1>3, <1>4, <1>5, <1>6, <1>7, <1>8, <1>9, <1>10, <1>11, <1>12, <1>13,
     <1>14, <1>15, <1>16, <1>17, ConstantsAssumption
     DEF Next, FatherRuns, ChildRuns, ConstantsAssumption, Proc

(* The pipe holds two messages at most. *)
LEMMA PipeKept ==
  ASSUME SemInv, [Next]_vars
  PROVE  PipeType'
<1> USE ConstantsAssumption DEF input, sems, At, Goto, Alive, SemInv, TypeOK,
                                FatherPc, ChildPc, PipeType, Messages, Written,
                                Taken, Early, Late, HasReader
<1>1. ASSUME NEW q \in Proc, NEW s \in {"ok", "error", "killed"}, Exit(q, s), Alive(q),
             s = "ok" => (pc[q] = "return" \/ pc[q] = "done")
      PROVE  PipeType'
  BY <1>1, ProcFacts DEF Exit, Undo
<1>2. ASSUME NEW p \in Prog, \/ Pipe(p)
                             \/ Find(p, "find", "remove", "create")
                             \/ Remove(p, "remove", "create") \/ Create(p)
                             \/ SetVal(p) \/ P(Father(p), "lock", "fork")
                             \/ Fork(p) \/ Close(p) \/ NoAnswer(p) \/ Leave(p)
                             \/ Stay(p) \/ P(Father(p), "relock", "wait")
                             \/ Wait(p) \/ Find(p, "refind", "reremove", "return")
                             \/ Remove(p, "reremove", "return") \/ Return0(p)
                             \/ ForkFails(p) \/ FatherFails(p) \/ Get(p)
                             \/ P(Child(p), "lock", "write2")
                             \/ V(Child(p), "unlock", "done") \/ ChildExits(p)
      PROVE  PipeType'
  BY <1>1, <1>2, ProcFacts
    DEF Pipe, Find, Remove, Create, SetVal, P, Fork, Close, NoAnswer, Leave,
        Unshare, Undo, Stay, V, Wait, Return0, ForkFails, FatherFails, Get,
        ChildExits, Reaches
<1>3. ASSUME NEW p \in Prog, Read(p, "read1", "prompt") PROVE PipeType'
  BY SMTT(30), <1>1, <1>3, ProcFacts DEF Read
<1>4. ASSUME NEW p \in Prog, Read(p, "read2", "relock") PROVE PipeType'
  BY SMTT(30), <1>1, <1>4, ProcFacts DEF Read
<1>5. ASSUME NEW p \in Prog, Write(p, "write1", "lock") PROVE PipeType'
  <2>1. CASE Exit(Child(p), "killed")
    BY <1>1, <1>5, <2>1, ProcFacts DEF Write
  <2>2. CASE ~Exit(Child(p), "killed")
    BY <1>5, <2>2, ProcFacts DEF Write
  <2>. QED  BY <2>1, <2>2
<1>6. ASSUME NEW p \in Prog, Write(p, "write2", "unlock") PROVE PipeType'
  <2>1. CASE Exit(Child(p), "killed")
    BY <1>1, <1>6, <2>1, ProcFacts DEF Write
  <2>2. CASE ~Exit(Child(p), "killed")
    BY <1>6, <2>2, ProcFacts DEF Write
  <2>. QED  BY <2>1, <2>2
<1>7. ASSUME NEW q \in Proc, Kill(q) PROVE PipeType'
  BY <1>1, <1>7 DEF Kill
<1>8. CASE UNCHANGED vars
  BY <1>8 DEF vars
<1> HIDE DEF input, sems, At, Goto, Alive, SemInv, TypeOK, FatherPc, ChildPc,
             PipeType, Messages, Written, Taken, Early, Late, HasReader
<1>. QED
  BY <1>2, <1>3, <1>4, <1>5, <1>6, <1>7, <1>8, ConstantsAssumption
     DEF Next, FatherRuns, ChildRuns, ConstantsAssumption, Proc

(* A father that is about to return with 0 has removed its semaphore. *)
LEMMA CleanedKept ==
  ASSUME SemInv, [Next]_vars
  PROVE  Cleaned'
<1> USE ConstantsAssumption DEF input, sems, At, Goto, Alive, SemInv, TypeOK,
                                FatherPc, ChildPc, Holders, Objects, BeforeLock,
                                Cleaned
<1>1. ASSUME NEW q \in Proc, NEW s \in {"ok", "error", "killed"}, Exit(q, s), Alive(q),
             s = "ok" => (pc[q] = "return" \/ pc[q] = "done")
      PROVE  Cleaned'
  BY <1>1, ProcFacts DEF Exit, Undo
<1>2. ASSUME NEW p \in Prog, \/ Pipe(p)
                             \/ P(Father(p), "lock", "fork") \/ Close(p)
                             \/ Read(p, "read1", "prompt") \/ NoAnswer(p)
                             \/ Leave(p) \/ Stay(p) \/ Read(p, "read2", "relock")
                             \/ P(Father(p), "relock", "wait") \/ Return0(p)
                             \/ ForkFails(p) \/ FatherFails(p) \/ Get(p)
                             \/ Write(p, "write1", "lock")
                             \/ P(Child(p), "lock", "write2")
                             \/ Write(p, "write2", "unlock")
                             \/ V(Child(p), "unlock", "done") \/ ChildExits(p)
      PROVE  Cleaned'
  BY SMTT(30), <1>1, <1>2, ProcFacts
    DEF Pipe, P, Close, Read, NoAnswer, Leave, Unshare, Undo, Stay, V, Return0,
        ForkFails, FatherFails, Get, Write, ChildExits, Reaches
<1>3. ASSUME NEW p \in Prog, Find(p, "find", "remove", "create") PROVE Cleaned'
  BY <1>3, ProcFacts DEF Find
<1>4. ASSUME NEW p \in Prog, Remove(p, "remove", "create") PROVE Cleaned'
  BY <1>4, ProcFacts DEF Remove
<1>5. ASSUME NEW p \in Prog, Create(p) PROVE Cleaned'
  BY <1>1, <1>5, ProcFacts DEF Create
<1>6. ASSUME NEW p \in Prog, SetVal(p) PROVE Cleaned'
  BY <1>1, <1>6, ProcFacts DEF SetVal, Reaches
<1>7. ASSUME NEW p \in Prog, Fork(p) PROVE Cleaned'
  BY <1>7, ProcFacts DEF Fork
<1>8. ASSUME NEW p \in Prog, Wait(p) PROVE Cleaned'
  BY <1>8, ProcFacts DEF Wait
<1>9. ASSUME NEW p \in Prog, Find(p, "refind", "reremove", "return") PROVE Cleaned'
  BY <1>9, ProcFacts DEF Find
<1>10. ASSUME NEW p \in Prog, Remove(p, "reremove", "return") PROVE Cleaned'
  BY <1>10, ProcFacts DEF Remove
<1>11. ASSUME NEW q \in Proc, Kill(q) PROVE Cleaned'
  BY <1>1, <1>11 DEF Kill
<1>12. CASE UNCHANGED vars
  BY <1>12 DEF vars
<1> HIDE DEF input, sems, At, Goto, Alive, SemInv, TypeOK, FatherPc, ChildPc,
             Holders, Objects, BeforeLock, Cleaned
<1>. QED
  BY <1>2, <1>3, <1>4, <1>5, <1>6, <1>7, <1>8, <1>9, <1>10, <1>11, <1>12,
     ConstantsAssumption
     DEF Next, FatherRuns, ChildRuns, ConstantsAssumption, Proc

(* The same of one that has returned. *)
LEMMA OkKept ==
  ASSUME SemInv, OkCleansUp, [Next]_vars
  PROVE  OkCleansUp'
<1> USE ConstantsAssumption DEF input, sems, At, Goto, Alive, SemInv, TypeOK,
                                FatherPc, ChildPc, Holders, Objects, BeforeLock,
                                Cleaned, OkCleansUp
<1>1. ASSUME NEW q \in Proc, NEW s \in {"ok", "error", "killed"}, Exit(q, s), Alive(q),
             s = "ok" => (pc[q] = "return" \/ pc[q] = "done")
      PROVE  OkCleansUp'
  BY <1>1, ProcFacts DEF Exit, Undo
<1>2. ASSUME NEW p \in Prog, \/ Pipe(p)
                             \/ Find(p, "find", "remove", "create")
                             \/ P(Father(p), "lock", "fork") \/ Close(p)
                             \/ Read(p, "read1", "prompt") \/ NoAnswer(p)
                             \/ Leave(p) \/ Stay(p) \/ Read(p, "read2", "relock")
                             \/ P(Father(p), "relock", "wait")
                             \/ Find(p, "refind", "reremove", "return")
                             \/ Return0(p) \/ ForkFails(p) \/ FatherFails(p)
                             \/ Get(p) \/ Write(p, "write1", "lock")
                             \/ P(Child(p), "lock", "write2")
                             \/ Write(p, "write2", "unlock")
                             \/ V(Child(p), "unlock", "done") \/ ChildExits(p)
      PROVE  OkCleansUp'
  BY SMTT(30), <1>1, <1>2, ProcFacts
    DEF Pipe, Find, P, Close, Read, NoAnswer, Leave, Unshare, Undo, Stay, V,
        Return0, ForkFails, FatherFails, Get, Write, ChildExits, Reaches
<1>3. ASSUME NEW p \in Prog, Remove(p, "remove", "create") PROVE OkCleansUp'
  BY <1>3, ProcFacts DEF Remove
<1>4. ASSUME NEW p \in Prog, Create(p) PROVE OkCleansUp'
  BY <1>1, <1>4, ProcFacts DEF Create
<1>5. ASSUME NEW p \in Prog, SetVal(p) PROVE OkCleansUp'
  BY <1>1, <1>5, ProcFacts DEF SetVal, Reaches
<1>6. ASSUME NEW p \in Prog, Fork(p) PROVE OkCleansUp'
  BY <1>6, ProcFacts DEF Fork
<1>7. ASSUME NEW p \in Prog, Wait(p) PROVE OkCleansUp'
  BY <1>7, ProcFacts DEF Wait
<1>8. ASSUME NEW p \in Prog, Remove(p, "reremove", "return") PROVE OkCleansUp'
  BY <1>8, ProcFacts DEF Remove
<1>9. ASSUME NEW q \in Proc, Kill(q) PROVE OkCleansUp'
  BY <1>1, <1>9 DEF Kill
<1>10. CASE UNCHANGED vars
  BY <1>10 DEF vars
<1> HIDE DEF input, sems, At, Goto, Alive, SemInv, TypeOK, FatherPc, ChildPc,
             Holders, Objects, BeforeLock, Cleaned, OkCleansUp
<1>. QED
  BY <1>2, <1>3, <1>4, <1>5, <1>6, <1>7, <1>8, <1>9, <1>10, ConstantsAssumption
     DEF Next, FatherRuns, ChildRuns, ConstantsAssumption, Proc

(* Whoever is killed, refused or away, a semaphore is free or taken by exactly
   one process, what the kernel will give back is what was taken, and what is in
   the pipe is what was written and not read (semns.c:95-136, 206-285). *)
THEOREM SemInvariant == Spec => []SemInv
<1>1. Init => SemInv
  <2>. SUFFICES ASSUME Init PROVE SemInv
    OBVIOUS
  <2>. USE ConstantsAssumption
  <2>1. /\ \A p \in Prog : pc[Father(p)] = "pipe" /\ pc[Child(p)] = "unborn"
        /\ pc \in [Proc -> FatherPc \cup ChildPc \cup {"exited"}]
        /\ exit \in [Proc -> {"none", "ok", "error", "killed"}]
    BY ProcFacts DEF Init, FatherPc, ChildPc
  <2>2. TypeOK
    BY <2>1 DEF Init, TypeOK, FatherPc, ChildPc
  <2>3. Holders /\ Messages /\ Cleaned
    BY <2>1 DEF Init, Holders, BeforeLock, Messages, Written, Taken, Late, Cleaned
  <2>4. Objects /\ Adjusted /\ Conserved
    BY <2>1, ProcFacts DEF Init, Objects, BeforeLock, Adjusted, Conserved, Owners
  <2>. QED  BY <2>2, <2>3, <2>4 DEF SemInv
<1>2. ASSUME SemInv, [Next]_vars
      PROVE  SemInv'
  <2>1. TypeOK
    BY <1>2 DEF SemInv
  <2>2. PlaceType' /\ HandleType' /\ ValueType' /\ PipeType'
    BY <1>2, <2>1, PlacesKept, HandlesKept, ValuesKept, PipeKept
  <2>3. Holders' /\ Objects' /\ Adjusted' /\ Conserved' /\ Messages' /\ Cleaned'
    BY <1>2, HoldersKept, ObjectsKept, AdjustedKept, ConservedKept, MessagesKept, CleanedKept
  <2>. QED
    BY <2>2, <2>3 DEF SemInv, TypeOK, PlaceType, HandleType, ValueType, PipeType
<1>. QED  BY <1>1, <1>2, PTL DEF Spec

(* A father that has read two messages has a child that has had the semaphore:
   it counts the messages (semns.c:222-285). *)
THEOREM AnswerAfterLockHolds == Spec => []AnswerAfterLock
<1>1. SemInv => AnswerAfterLock
  <2>. SUFFICES ASSUME SemInv, NEW p \in Prog, pc[Father(p)] \in {"relock", "wait"},
                       pc[Child(p)] # "exited"
                PROVE  pc[Child(p)] \in {"unlock", "done"}
    BY DEF AnswerAfterLock
  <2>1. pipe[p] = Written(p) - 2 /\ pipe[p] \in 0..2
    BY DEF SemInv, TypeOK, Messages, Taken, Late
  <2>2. Written(p) = 2
    BY <2>1 DEF Written
  <2>3. pc[Child(p)] \in ChildPc
    BY DEF SemInv, TypeOK
  <2>. QED  BY <2>2, <2>3 DEF Written, ChildPc
<1>. QED  BY <1>1, SemInvariant, PTL

(* A father that ends with 0 has removed its semaphore, although other programs
   may remove it too, and its child has ended (semns.c:290-296). *)
THEOREM OkCleansUpHolds == Spec => []OkCleansUp
<1>1. Init => OkCleansUp
  BY ProcFacts DEF Init, OkCleansUp
<1>2. SemInv /\ OkCleansUp /\ [Next]_vars => OkCleansUp'
  BY OkKept
<1>. QED  BY <1>1, <1>2, SemInvariant, PTL DEF Spec

=============================================================================
