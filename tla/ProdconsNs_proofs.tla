-------------------------- MODULE ProdconsNs_proofs --------------------------
(***************************************************************************)
(* What holds of the three programs for any number of producers and        *)
(* consumers, of dates and messages, whoever is interrupted or killed.     *)
(***************************************************************************)
EXTENDS ProdconsNs, SequenceTheorems, TLAPS

(* The parts of TypeOK. *)
PcType ==
  /\ pc \in [Proc -> Pc]
  /\ status \in [Proc -> {"none", "ok", "error", "handler_error", "killed"}]

HandleType ==
  /\ id \in [Proc -> Producers \cup {None}]
  /\ found \in [Producers -> Producers \cup {None}]
  /\ name \in Producers \cup {None}
  /\ sem \in [Producers -> 0..1]

SetType ==
  /\ away \subseteq Producers /\ removed \subseteq Producers
  /\ inside \subseteq Proc /\ mapped \subseteq Proc

DateType ==
  /\ clock \in 0..LastDate
  /\ chan \in [Producers -> Seq(1..LastDate)]
  /\ msg \in [Consumers -> 0..LastDate]
  /\ shown \in [Consumers -> Seq(1..LastDate)]

LEMMA TypeParts == TypeOK <=> PcType /\ HandleType /\ SetType /\ DateType
BY DEF TypeOK, PcType, HandleType, SetType, DateType

(* Every step keeps the places in their type. *)
LEMMA PcTypeKept ==
  ASSUME PcType, [Next]_vars
  PROVE  PcType'
<1> USE ConstantsAssumption DEF At, Goto, Exit, objects, input, output, PcType, Pc
<1>1. ASSUME NEW p \in Proc, Start(p) PROVE PcType'
  BY <1>1 DEF Start, Move
<1>2. ASSUME NEW p \in Proc, Find(p) PROVE PcType'
  BY <1>2 DEF Find
<1>3. ASSUME NEW p \in Proc, RemoveFound(p) PROVE PcType'
  BY <1>3 DEF RemoveFound, SysvRemove
<1>4. ASSUME NEW p \in Proc, MqUnlink(p) PROVE PcType'
  BY <1>4 DEF MqUnlink
<1>5. ASSUME NEW p \in Proc, Create(p) PROVE PcType'
  BY <1>5 DEF Create, Fail
<1>6. ASSUME NEW p \in Proc, Assign(p) PROVE PcType'
  BY <1>6 DEF Assign
<1>7. ASSUME NEW p \in Proc, Attach(p) PROVE PcType'
  BY <1>7 DEF Attach, Fail
<1>8. ASSUME NEW p \in Proc, SemInit(p) PROVE PcType'
  BY <1>8 DEF SemInit
<1>9. ASSUME NEW p \in Proc, Reset(p) PROVE PcType'
  BY <1>9 DEF Reset
<1>10. ASSUME NEW p \in Proc, P(p, "send", "write") PROVE PcType'
  BY <1>10 DEF P
<1>11. ASSUME NEW p \in Proc, WriteDate(p) PROVE PcType'
  BY <1>11 DEF WriteDate, Date
<1>12. ASSUME NEW p \in Proc, V(p) PROVE PcType'
  BY <1>12 DEF V
<1>13. ASSUME NEW p \in Proc, MsgSnd(p) PROVE PcType'
  BY <1>13 DEF MsgSnd, Date, Fail
<1>14. ASSUME NEW p \in Proc, MqSend(p) PROVE PcType'
  BY <1>14 DEF MqSend, Date
<1>15. ASSUME NEW p \in Proc, HandlerSysv(p) PROVE PcType'
  BY <1>15 DEF HandlerSysv, SysvRemove
<1>16. ASSUME NEW p \in Proc, HandlerMq(p) PROVE PcType'
  BY <1>16 DEF HandlerMq
<1>17. ASSUME NEW p \in Proc, Get(p) PROVE PcType'
  BY <1>17 DEF Get, Fail
<1>18. ASSUME NEW p \in Proc, P(p, "recv", "look") PROVE PcType'
  BY <1>18 DEF P
<1>19. ASSUME NEW p \in Proc, Look(p) PROVE PcType'
  BY <1>19 DEF Look
<1>20. ASSUME NEW p \in Proc, Clear(p) PROVE PcType'
  BY <1>20 DEF Clear
<1>21. ASSUME NEW p \in Proc, MsgRcv(p) PROVE PcType'
  BY <1>21 DEF MsgRcv, Receive, Fail
<1>22. ASSUME NEW p \in Proc, MqReceive(p) PROVE PcType'
  BY <1>22 DEF MqReceive, Receive
<1>23. ASSUME NEW p \in Proc, HandlerConsumer(p) PROVE PcType'
  BY <1>23 DEF HandlerConsumer
<1>24. ASSUME NEW p \in Proc, Prompt(p) PROVE PcType'
  BY <1>24 DEF Prompt
<1>25. ASSUME NEW p \in Proc, UnshareFails(p) PROVE PcType'
  BY <1>25 DEF UnshareFails, Fail
<1>26. ASSUME NEW p \in Proc, Interrupt(p) PROVE PcType'
  BY <1>26 DEF Interrupt
<1>27. ASSUME NEW p \in Proc, Kill(p) PROVE PcType'
  BY <1>27 DEF Kill
<1>28. ASSUME NEW p \in Proc, Display(p) PROVE PcType'
  BY <1>28 DEF Display
<1>29. CASE UNCHANGED vars
  BY <1>29 DEF vars
<1> HIDE DEF At, Goto, Exit, objects, input, output, PcType, Pc
<1>. QED
  BY <1>1, <1>2, <1>3, <1>4, <1>5, <1>6, <1>7, <1>8, <1>9, <1>10, <1>11, <1>12, <1>13, <1>14,
     <1>15, <1>16, <1>17, <1>18, <1>19, <1>20, <1>21, <1>22, <1>23, <1>24, <1>25, <1>26, <1>27,
     <1>28, <1>29
     DEF Next, Producer, Consumer

(* Every step keeps the handles in their types. *)
LEMMA HandleTypeKept ==
  ASSUME PcType, HandleType, SetType, Roles, LockPlaces, LockKept, [Next]_vars
  PROVE  HandleType'
<1> USE ConstantsAssumption DEF At, Goto, Exit, objects, input, output, PcType, HandleType,
                                Proc, Roles, Starting
<1>1. ASSUME NEW p \in Proc, Start(p) PROVE HandleType'
  BY <1>1 DEF Start, Move
<1>2. ASSUME NEW p \in Proc, Find(p) PROVE HandleType'
  BY <1>2 DEF Find
<1>3. ASSUME NEW p \in Proc, RemoveFound(p) PROVE HandleType'
  BY <1>3 DEF RemoveFound, SysvRemove
<1>4. ASSUME NEW p \in Proc, MqUnlink(p) PROVE HandleType'
  BY <1>4 DEF MqUnlink
<1>5. ASSUME NEW p \in Proc, Create(p) PROVE HandleType'
  BY <1>5 DEF Create, Fail
<1>6. ASSUME NEW p \in Proc, Assign(p) PROVE HandleType'
  BY <1>6 DEF Assign
<1>7. ASSUME NEW p \in Proc, Attach(p) PROVE HandleType'
  BY <1>7 DEF Attach, Fail
<1>8. ASSUME NEW p \in Proc, SemInit(p) PROVE HandleType'
  BY <1>8 DEF SemInit
<1>9. ASSUME NEW p \in Proc, Reset(p) PROVE HandleType'
  BY <1>9 DEF Reset
<1>10. ASSUME NEW p \in Proc, P(p, "send", "write") PROVE HandleType'
  BY <1>10 DEF P
<1>11. ASSUME NEW p \in Proc, WriteDate(p) PROVE HandleType'
  BY <1>11 DEF WriteDate, Date
<1>12. ASSUME NEW p \in Proc, V(p) PROVE HandleType'
  BY <1>12 DEF V, LockPlaces, LockKept
<1>13. ASSUME NEW p \in Proc, MsgSnd(p) PROVE HandleType'
  BY <1>13 DEF MsgSnd, Date, Fail
<1>14. ASSUME NEW p \in Proc, MqSend(p) PROVE HandleType'
  BY <1>14 DEF MqSend, Date
<1>15. ASSUME NEW p \in Proc, HandlerSysv(p) PROVE HandleType'
  BY <1>15 DEF HandlerSysv, SysvRemove
<1>16. ASSUME NEW p \in Proc, HandlerMq(p) PROVE HandleType'
  BY <1>16 DEF HandlerMq
<1>17. ASSUME NEW p \in Proc, Get(p) PROVE HandleType'
  BY <1>17 DEF Get, Fail
<1>18. ASSUME NEW p \in Proc, P(p, "recv", "look") PROVE HandleType'
  BY <1>18 DEF P
<1>19. ASSUME NEW p \in Proc, Look(p) PROVE HandleType'
  BY <1>19 DEF Look
<1>20. ASSUME NEW p \in Proc, Clear(p) PROVE HandleType'
  BY <1>20 DEF Clear
<1>21. ASSUME NEW p \in Proc, MsgRcv(p) PROVE HandleType'
  BY <1>21 DEF MsgRcv, Receive, Fail
<1>22. ASSUME NEW p \in Proc, MqReceive(p) PROVE HandleType'
  BY <1>22 DEF MqReceive, Receive
<1>23. ASSUME NEW p \in Proc, HandlerConsumer(p) PROVE HandleType'
  BY <1>23 DEF HandlerConsumer
<1>24. ASSUME NEW p \in Proc, Prompt(p) PROVE HandleType'
  BY <1>24 DEF Prompt
<1>25. ASSUME NEW p \in Proc, UnshareFails(p) PROVE HandleType'
  BY <1>25 DEF UnshareFails, Fail
<1>26. ASSUME NEW p \in Proc, Interrupt(p) PROVE HandleType'
  BY <1>26 DEF Interrupt
<1>27. ASSUME NEW p \in Proc, Kill(p) PROVE HandleType'
  BY <1>27 DEF Kill
<1>28. ASSUME NEW p \in Proc, Display(p) PROVE HandleType'
  BY <1>28 DEF Display
<1>29. CASE UNCHANGED vars
  BY <1>29 DEF vars
<1> HIDE DEF At, Goto, Exit, objects, input, output, PcType, HandleType, Proc, Roles,
             Starting
<1>. QED
  BY <1>1, <1>2, <1>3, <1>4, <1>5, <1>6, <1>7, <1>8, <1>9, <1>10, <1>11, <1>12, <1>13, <1>14,
     <1>15, <1>16, <1>17, <1>18, <1>19, <1>20, <1>21, <1>22, <1>23, <1>24, <1>25, <1>26, <1>27,
     <1>28, <1>29
     DEF Next, Producer, Consumer

(* Every step keeps the sets in their types. *)
LEMMA SetTypeKept ==
  ASSUME PcType, HandleType, SetType, Roles, [Next]_vars
  PROVE  SetType'
<1> USE ConstantsAssumption DEF At, Goto, Exit, objects, input, output, PcType, HandleType,
                                SetType, Proc, Roles, Starting
<1>1. ASSUME NEW p \in Proc, Start(p) PROVE SetType'
  BY <1>1 DEF Start, Move
<1>2. ASSUME NEW p \in Proc, Find(p) PROVE SetType'
  BY <1>2 DEF Find
<1>3. ASSUME NEW p \in Proc, RemoveFound(p) PROVE SetType'
  BY <1>3 DEF RemoveFound, SysvRemove
<1>4. ASSUME NEW p \in Proc, MqUnlink(p) PROVE SetType'
  BY <1>4 DEF MqUnlink
<1>5. ASSUME NEW p \in Proc, Create(p) PROVE SetType'
  BY <1>5 DEF Create, Fail
<1>6. ASSUME NEW p \in Proc, Assign(p) PROVE SetType'
  BY <1>6 DEF Assign
<1>7. ASSUME NEW p \in Proc, Attach(p) PROVE SetType'
  BY <1>7 DEF Attach, Fail
<1>8. ASSUME NEW p \in Proc, SemInit(p) PROVE SetType'
  BY <1>8 DEF SemInit
<1>9. ASSUME NEW p \in Proc, Reset(p) PROVE SetType'
  BY <1>9 DEF Reset
<1>10. ASSUME NEW p \in Proc, P(p, "send", "write") PROVE SetType'
  BY <1>10 DEF P
<1>11. ASSUME NEW p \in Proc, WriteDate(p) PROVE SetType'
  BY <1>11 DEF WriteDate, Date
<1>12. ASSUME NEW p \in Proc, V(p) PROVE SetType'
  BY <1>12 DEF V
<1>13. ASSUME NEW p \in Proc, MsgSnd(p) PROVE SetType'
  BY <1>13 DEF MsgSnd, Date, Fail
<1>14. ASSUME NEW p \in Proc, MqSend(p) PROVE SetType'
  BY <1>14 DEF MqSend, Date
<1>15. ASSUME NEW p \in Proc, HandlerSysv(p) PROVE SetType'
  BY <1>15 DEF HandlerSysv, SysvRemove
<1>16. ASSUME NEW p \in Proc, HandlerMq(p) PROVE SetType'
  BY <1>16 DEF HandlerMq
<1>17. ASSUME NEW p \in Proc, Get(p) PROVE SetType'
  BY <1>17 DEF Get, Fail
<1>18. ASSUME NEW p \in Proc, P(p, "recv", "look") PROVE SetType'
  BY <1>18 DEF P
<1>19. ASSUME NEW p \in Proc, Look(p) PROVE SetType'
  BY <1>19 DEF Look
<1>20. ASSUME NEW p \in Proc, Clear(p) PROVE SetType'
  BY <1>20 DEF Clear
<1>21. ASSUME NEW p \in Proc, MsgRcv(p) PROVE SetType'
  BY <1>21 DEF MsgRcv, Receive, Fail
<1>22. ASSUME NEW p \in Proc, MqReceive(p) PROVE SetType'
  BY <1>22 DEF MqReceive, Receive
<1>23. ASSUME NEW p \in Proc, HandlerConsumer(p) PROVE SetType'
  BY <1>23 DEF HandlerConsumer
<1>24. ASSUME NEW p \in Proc, Prompt(p) PROVE SetType'
  BY <1>24 DEF Prompt
<1>25. ASSUME NEW p \in Proc, UnshareFails(p) PROVE SetType'
  BY <1>25 DEF UnshareFails, Fail
<1>26. ASSUME NEW p \in Proc, Interrupt(p) PROVE SetType'
  BY <1>26 DEF Interrupt
<1>27. ASSUME NEW p \in Proc, Kill(p) PROVE SetType'
  BY <1>27 DEF Kill
<1>28. ASSUME NEW p \in Proc, Display(p) PROVE SetType'
  BY <1>28 DEF Display
<1>29. CASE UNCHANGED vars
  BY <1>29 DEF vars
<1> HIDE DEF At, Goto, Exit, objects, input, output, PcType, HandleType, SetType, Proc,
             Roles, Starting
<1>. QED
  BY <1>1, <1>2, <1>3, <1>4, <1>5, <1>6, <1>7, <1>8, <1>9, <1>10, <1>11, <1>12, <1>13, <1>14,
     <1>15, <1>16, <1>17, <1>18, <1>19, <1>20, <1>21, <1>22, <1>23, <1>24, <1>25, <1>26, <1>27,
     <1>28, <1>29
     DEF Next, Producer, Consumer

(* A consumer receives a date. *)
LEMMA ReceivesDate ==
  ASSUME HandleType, DateType, Roles, NEW c \in Proc, Receive(c)
  PROVE  /\ id[c] \in Producers /\ Head(chan[id[c]]) \in 1..LastDate
         /\ Tail(chan[id[c]]) \in Seq(1..LastDate)
<1>. DEFINE D == 1..LastDate
<1>1. id[c] \in Producers /\ chan[id[c]] # <<>>
  BY DEF Receive, At, Roles, Starting, HandleType, Proc
<1>2. chan[id[c]] \in Seq(D)
  BY <1>1 DEF DateType
<1>3. Head(chan[id[c]]) \in D /\ Tail(chan[id[c]]) \in Seq(D)
  BY <1>1, <1>2, HeadTailProperties
<1>. QED  BY <1>1, <1>3

(* What a consumer receives is a date, and the queue keeps dates. *)
LEMMA ReceiveKeepsType ==
  ASSUME HandleType, DateType, Roles, NEW c \in Proc, Receive(c)
  PROVE  DateType'
<1>. DEFINE D == 1..LastDate
            s == id[c]
<1>1. s \in Producers /\ Head(chan[s]) \in D /\ Tail(chan[s]) \in Seq(D) /\ c \in Consumers
  BY ReceivesDate DEF Receive
<1>2. chan' = [chan EXCEPT ![s] = Tail(chan[s])] /\ msg' = [msg EXCEPT ![c] = Head(chan[s])]
  BY DEF Receive
<1>3. chan' \in [Producers -> Seq(D)]
  BY <1>1, <1>2 DEF DateType
<1>4. msg' \in [Consumers -> 0..LastDate]
  BY <1>1, <1>2 DEF DateType
<1>. QED  BY <1>3, <1>4 DEF DateType, Receive

(* Every step keeps the dates in their types. *)
LEMMA DateTypeKept ==
  ASSUME PcType, HandleType, DateType, Roles, [Next]_vars
  PROVE  DateType'
<1> USE ConstantsAssumption DEF At, Goto, Exit, objects, input, output, DateType
<1>1. ASSUME NEW p \in Proc, Start(p) PROVE DateType'
  BY <1>1 DEF Start, Move
<1>2. ASSUME NEW p \in Proc, Find(p) PROVE DateType'
  BY <1>2 DEF Find
<1>3. ASSUME NEW p \in Proc, RemoveFound(p) PROVE DateType'
  <2>. <<>> \in Seq(1..LastDate)
    OBVIOUS
  <2>. QED  BY <1>3 DEF RemoveFound, SysvRemove
<1>4. ASSUME NEW p \in Proc, MqUnlink(p) PROVE DateType'
  BY <1>4 DEF MqUnlink
<1>5. ASSUME NEW p \in Proc, Create(p) PROVE DateType'
  BY <1>5 DEF Create, Fail
<1>6. ASSUME NEW p \in Proc, Assign(p) PROVE DateType'
  BY <1>6 DEF Assign
<1>7. ASSUME NEW p \in Proc, Attach(p) PROVE DateType'
  BY <1>7 DEF Attach, Fail
<1>8. ASSUME NEW p \in Proc, SemInit(p) PROVE DateType'
  BY <1>8 DEF SemInit
<1>9. ASSUME NEW p \in Proc, Reset(p) PROVE DateType'
  <2>. <<>> \in Seq(1..LastDate)
    OBVIOUS
  <2>. QED  BY <1>9 DEF Reset
<1>10. ASSUME NEW p \in Proc, P(p, "send", "write") PROVE DateType'
  BY <1>10 DEF P
<1>11. ASSUME NEW p \in Proc, WriteDate(p) PROVE DateType'
  <2>1. clock' \in 1..LastDate
    BY <1>11 DEF WriteDate, Date
  <2>2. <<clock'>> \in Seq(1..LastDate)
    BY <2>1
  <2>3. chan' = [chan EXCEPT ![id[p]] = <<clock'>>] /\ UNCHANGED <<msg, shown>>
    BY <1>11 DEF WriteDate
  <2>4. chan' \in [Producers -> Seq(1..LastDate)]
    BY <2>2, <2>3
  <2>. QED  BY <2>1, <2>3, <2>4
<1>12. ASSUME NEW p \in Proc, V(p) PROVE DateType'
  BY <1>12 DEF V
<1>13. ASSUME NEW p \in Proc, MsgSnd(p) PROVE DateType'
  <2>. DEFINE D == 1..LastDate
  <2>1. CASE Fail(p)
    BY <2>1 DEF Fail
  <2>2. CASE ~Fail(p)
    <3>1. clock' \in D /\ p \in Producers
      BY <1>13, <2>2 DEF MsgSnd, Date, Roles, Starting
    <3>2. Append(chan[p], clock') \in Seq(D)
      BY <3>1
    <3>3. chan' = [chan EXCEPT ![p] = Append(chan[p], clock')] /\ UNCHANGED <<msg, shown>>
      BY <1>13, <2>2 DEF MsgSnd
    <3>4. chan' \in [Producers -> Seq(D)]
      BY <3>2, <3>3
    <3>. QED  BY <3>1, <3>3, <3>4
  <2>. QED  BY <2>1, <2>2
<1>14. ASSUME NEW p \in Proc, MqSend(p) PROVE DateType'
  <2>. DEFINE D == 1..LastDate
  <2>1. clock' \in D /\ p \in Producers
    BY <1>14 DEF MqSend, Date, Roles, Starting
  <2>2. Append(chan[p], clock') \in Seq(D)
    BY <2>1
  <2>. QED  BY <1>14, <2>1, <2>2 DEF MqSend, Date
<1>15. ASSUME NEW p \in Proc, HandlerSysv(p) PROVE DateType'
  <2>. <<>> \in Seq(1..LastDate)
    OBVIOUS
  <2>. QED  BY <1>15 DEF HandlerSysv, SysvRemove
<1>16. ASSUME NEW p \in Proc, HandlerMq(p) PROVE DateType'
  BY <1>16 DEF HandlerMq
<1>17. ASSUME NEW p \in Proc, Get(p) PROVE DateType'
  BY <1>17 DEF Get, Fail
<1>18. ASSUME NEW p \in Proc, P(p, "recv", "look") PROVE DateType'
  BY <1>18 DEF P
<1>19. ASSUME NEW p \in Proc, Look(p) PROVE DateType'
  <2>. DEFINE s == id[p]
              D == 1..LastDate
  <2>1. s \in Producers /\ p \in Consumers
    BY <1>19 DEF Look, Roles, Starting, HandleType
  <2>2. CASE chan[s] # <<>>
    <3>1. Head(chan[s]) \in D
      BY <2>1, <2>2
    <3>2. Append(shown[p], Head(chan[s])) \in Seq(D)
      BY <2>1, <3>1
    <3>3. shown' = [shown EXCEPT ![p] = Append(shown[p], Head(chan[s]))]
      BY <1>19, <2>2 DEF Look
    <3>4. shown' \in [Consumers -> Seq(D)]
      BY <2>1, <3>2, <3>3
    <3>. QED  BY <1>19, <3>4 DEF Look
  <2>3. CASE chan[s] = <<>>
    BY <1>19, <2>3 DEF Look
  <2>. QED  BY <2>2, <2>3
<1>20. ASSUME NEW p \in Proc, Clear(p) PROVE DateType'
  <2>. <<>> \in Seq(1..LastDate)
    OBVIOUS
  <2>. QED  BY <1>20 DEF Clear
<1>21. ASSUME NEW p \in Proc, MsgRcv(p) PROVE DateType'
  <2>1. CASE Receive(p)
    BY <2>1, ReceiveKeepsType
  <2>2. CASE Fail(p)
    BY <2>2 DEF Fail
  <2>. QED  BY <1>21, <2>1, <2>2 DEF MsgRcv
<1>22. ASSUME NEW p \in Proc, MqReceive(p) PROVE DateType'
  BY <1>22, ReceiveKeepsType DEF MqReceive
<1>23. ASSUME NEW p \in Proc, HandlerConsumer(p) PROVE DateType'
  BY <1>23 DEF HandlerConsumer
<1>24. ASSUME NEW p \in Proc, Prompt(p) PROVE DateType'
  BY <1>24 DEF Prompt
<1>25. ASSUME NEW p \in Proc, UnshareFails(p) PROVE DateType'
  BY <1>25 DEF UnshareFails, Fail
<1>26. ASSUME NEW p \in Proc, Interrupt(p) PROVE DateType'
  BY <1>26 DEF Interrupt
<1>27. ASSUME NEW p \in Proc, Kill(p) PROVE DateType'
  BY <1>27 DEF Kill
<1>28. ASSUME NEW p \in Proc, Display(p) PROVE DateType'
  <2>1. p \in Consumers /\ msg[p] \in 1..LastDate
    BY <1>28 DEF Display, Roles
  <2>2. Append(shown[p], msg[p]) \in Seq(1..LastDate)
    BY <2>1
  <2>. QED  BY <1>28, <2>1, <2>2 DEF Display
<1>29. CASE UNCHANGED vars
  BY <1>29 DEF vars
<1> HIDE DEF At, Goto, Exit, objects, input, output, DateType
<1>. QED
  BY <1>1, <1>2, <1>3, <1>4, <1>5, <1>6, <1>7, <1>8, <1>9, <1>10, <1>11, <1>12, <1>13, <1>14,
     <1>15, <1>16, <1>17, <1>18, <1>19, <1>20, <1>21, <1>22, <1>23, <1>24, <1>25, <1>26, <1>27,
     <1>28, <1>29
     DEF Next, Producer, Consumer

(* A consumer that has received displays a date. *)
LEMMA ReceivesRole ==
  ASSUME PcType, HandleType, DateType, Roles, NEW c \in Proc, Receive(c)
  PROVE  Roles'
<1>1. c \in Consumers /\ Head(chan[id[c]]) # 0 /\ id[c] # None
  <2>1. c \in Consumers /\ id[c] \in Producers /\ Head(chan[id[c]]) \in 1..LastDate
    BY ReceivesDate DEF Receive
  <2>2. id[c] # None
    BY <2>1, ConstantsAssumption DEF Proc
  <2>3. Head(chan[id[c]]) # 0
    BY <2>1, ConstantsAssumption
  <2>. QED  BY <2>1, <2>2, <2>3
<1>2. /\ pc' = [pc EXCEPT ![c] = "print"] /\ msg' = [msg EXCEPT ![c] = Head(chan[id[c]])]
      /\ UNCHANGED <<id, found>>
  BY DEF Receive, Goto
<1>. QED  BY <1>1, <1>2 DEF Roles, PcType, DateType, Starting

(* Producers and consumers stay in their own parts of the program. *)
LEMMA RolesKept ==
  ASSUME PcType, HandleType, SetType, DateType, Roles, [Next]_vars
  PROVE  Roles'
<1> USE ConstantsAssumption DEF At, Goto, Exit, objects, input, output, Alive, PcType,
                                HandleType, SetType, Proc, Roles, Starting
<1>1. ASSUME NEW p \in Proc, Start(p) PROVE Roles'
  BY <1>1 DEF Start, Move
<1>2. ASSUME NEW p \in Proc, Find(p) PROVE Roles'
  BY <1>2 DEF Find
<1>3. ASSUME NEW p \in Proc, RemoveFound(p) PROVE Roles'
  BY <1>3 DEF RemoveFound, SysvRemove
<1>4. ASSUME NEW p \in Proc, MqUnlink(p) PROVE Roles'
  BY <1>4 DEF MqUnlink
<1>5. ASSUME NEW p \in Proc, Create(p) PROVE Roles'
  BY <1>5 DEF Create, Fail
<1>6. ASSUME NEW p \in Proc, Assign(p) PROVE Roles'
  BY <1>6 DEF Assign
<1>7. ASSUME NEW p \in Proc, Attach(p) PROVE Roles'
  BY <1>7 DEF Attach, Fail
<1>8. ASSUME NEW p \in Proc, SemInit(p) PROVE Roles'
  BY <1>8 DEF SemInit
<1>9. ASSUME NEW p \in Proc, Reset(p) PROVE Roles'
  BY <1>9 DEF Reset
<1>10. ASSUME NEW p \in Proc, P(p, "send", "write") PROVE Roles'
  BY <1>10 DEF P
<1>11. ASSUME NEW p \in Proc, WriteDate(p) PROVE Roles'
  BY <1>11 DEF WriteDate, Date
<1>12. ASSUME NEW p \in Proc, V(p) PROVE Roles'
  BY <1>12 DEF V
<1>13. ASSUME NEW p \in Proc, MsgSnd(p) PROVE Roles'
  BY <1>13 DEF MsgSnd, Date, Fail
<1>14. ASSUME NEW p \in Proc, MqSend(p) PROVE Roles'
  BY <1>14 DEF MqSend, Date
<1>15. ASSUME NEW p \in Proc, HandlerSysv(p) PROVE Roles'
  BY <1>15 DEF HandlerSysv, SysvRemove
<1>16. ASSUME NEW p \in Proc, HandlerMq(p) PROVE Roles'
  BY <1>16 DEF HandlerMq
<1>17. ASSUME NEW p \in Proc, Get(p) PROVE Roles'
  BY <1>17 DEF Get, Fail
<1>18. ASSUME NEW p \in Proc, P(p, "recv", "look") PROVE Roles'
  BY <1>18 DEF P
<1>19. ASSUME NEW p \in Proc, Look(p) PROVE Roles'
  BY <1>19 DEF Look
<1>20. ASSUME NEW p \in Proc, Clear(p) PROVE Roles'
  BY <1>20 DEF Clear
<1>21. ASSUME NEW p \in Proc, MsgRcv(p) PROVE Roles'
  <2>1. CASE Receive(p)
    BY <2>1, ReceivesRole
  <2>2. CASE Fail(p)
    BY <2>2 DEF Fail
  <2>. QED  BY <1>21, <2>1, <2>2 DEF MsgRcv
<1>22. ASSUME NEW p \in Proc, MqReceive(p) PROVE Roles'
  BY <1>22, ReceivesRole DEF MqReceive
<1>23. ASSUME NEW p \in Proc, HandlerConsumer(p) PROVE Roles'
  BY <1>23 DEF HandlerConsumer
<1>24. ASSUME NEW p \in Proc, Prompt(p) PROVE Roles'
  BY <1>24 DEF Prompt
<1>25. ASSUME NEW p \in Proc, UnshareFails(p) PROVE Roles'
  BY <1>25 DEF UnshareFails, Fail
<1>26. ASSUME NEW p \in Proc, Interrupt(p) PROVE Roles'
  BY <1>26 DEF Interrupt
<1>27. ASSUME NEW p \in Proc, Kill(p) PROVE Roles'
  BY <1>27 DEF Kill
<1>28. ASSUME NEW p \in Proc, Display(p) PROVE Roles'
  BY <1>28 DEF Display, DateType
<1>29. CASE UNCHANGED vars
  BY <1>29 DEF vars
<1> HIDE DEF At, Goto, Exit, objects, input, output, Alive, PcType, HandleType, SetType,
             Proc, Roles, Starting
<1>. QED
  BY <1>1, <1>2, <1>3, <1>4, <1>5, <1>6, <1>7, <1>8, <1>9, <1>10, <1>11, <1>12, <1>13, <1>14,
     <1>15, <1>16, <1>17, <1>18, <1>19, <1>20, <1>21, <1>22, <1>23, <1>24, <1>25, <1>26, <1>27,
     <1>28, <1>29
     DEF Next, Producer, Consumer

(* A process is inside from P() to V(), of an object it has attached. *)
LEMMA PlacesKept ==
  ASSUME PcType, HandleType, SetType, Roles, LockPlaces, LockKept, [Next]_vars
  PROVE  LockPlaces'
<1> USE ConstantsAssumption DEF At, Goto, Exit, objects, input, output, Alive, PcType,
                                HandleType, SetType, Proc, Roles, LockPlaces,
                                LockKept, Starting, BeforeInit
<1>1. ASSUME NEW p \in Proc, Start(p) PROVE LockPlaces'
  BY <1>1 DEF Start, Move
<1>2. ASSUME NEW p \in Proc, Find(p) PROVE LockPlaces'
  BY <1>2 DEF Find
<1>3. ASSUME NEW p \in Proc, RemoveFound(p) PROVE LockPlaces'
  BY <1>3 DEF RemoveFound, SysvRemove
<1>4. ASSUME NEW p \in Proc, MqUnlink(p) PROVE LockPlaces'
  BY <1>4 DEF MqUnlink
<1>5. ASSUME NEW p \in Proc, Create(p) PROVE LockPlaces'
  BY <1>5 DEF Create, Fail
<1>6. ASSUME NEW p \in Proc, Assign(p) PROVE LockPlaces'
  BY <1>6 DEF Assign
<1>7. ASSUME NEW p \in Proc, Attach(p) PROVE LockPlaces'
  BY <1>7 DEF Attach, Fail
<1>8. ASSUME NEW p \in Proc, SemInit(p) PROVE LockPlaces'
  BY <1>8 DEF SemInit
<1>9. ASSUME NEW p \in Proc, Reset(p) PROVE LockPlaces'
  BY <1>9 DEF Reset
<1>10. ASSUME NEW p \in Proc, P(p, "send", "write") PROVE LockPlaces'
  BY <1>10 DEF P
<1>11. ASSUME NEW p \in Proc, WriteDate(p) PROVE LockPlaces'
  BY <1>11 DEF WriteDate, Date
<1>12. ASSUME NEW p \in Proc, V(p) PROVE LockPlaces'
  BY <1>12 DEF V
<1>13. ASSUME NEW p \in Proc, MsgSnd(p) PROVE LockPlaces'
  BY <1>13 DEF MsgSnd, Date, Fail
<1>14. ASSUME NEW p \in Proc, MqSend(p) PROVE LockPlaces'
  BY <1>14 DEF MqSend, Date
<1>15. ASSUME NEW p \in Proc, HandlerSysv(p) PROVE LockPlaces'
  BY <1>15 DEF HandlerSysv, SysvRemove
<1>16. ASSUME NEW p \in Proc, HandlerMq(p) PROVE LockPlaces'
  BY <1>16 DEF HandlerMq
<1>17. ASSUME NEW p \in Proc, Get(p) PROVE LockPlaces'
  BY <1>17 DEF Get, Fail
<1>18. ASSUME NEW p \in Proc, P(p, "recv", "look") PROVE LockPlaces'
  BY <1>18 DEF P
<1>19. ASSUME NEW p \in Proc, Look(p) PROVE LockPlaces'
  BY <1>19 DEF Look
<1>20. ASSUME NEW p \in Proc, Clear(p) PROVE LockPlaces'
  BY <1>20 DEF Clear
<1>21. ASSUME NEW p \in Proc, MsgRcv(p) PROVE LockPlaces'
  BY <1>21 DEF MsgRcv, Receive, Fail
<1>22. ASSUME NEW p \in Proc, MqReceive(p) PROVE LockPlaces'
  BY <1>22 DEF MqReceive, Receive
<1>23. ASSUME NEW p \in Proc, HandlerConsumer(p) PROVE LockPlaces'
  BY <1>23 DEF HandlerConsumer
<1>24. ASSUME NEW p \in Proc, Prompt(p) PROVE LockPlaces'
  BY <1>24 DEF Prompt
<1>25. ASSUME NEW p \in Proc, UnshareFails(p) PROVE LockPlaces'
  BY <1>25 DEF UnshareFails, Fail
<1>26. ASSUME NEW p \in Proc, Interrupt(p) PROVE LockPlaces'
  BY <1>26 DEF Interrupt
<1>27. ASSUME NEW p \in Proc, Kill(p) PROVE LockPlaces'
  BY <1>27 DEF Kill
<1>28. ASSUME NEW p \in Proc, Display(p) PROVE LockPlaces'
  BY <1>28 DEF Display
<1>29. CASE UNCHANGED vars
  BY <1>29 DEF vars
<1> HIDE DEF At, Goto, Exit, objects, input, output, Alive, PcType, HandleType, SetType,
             Proc, Roles, LockPlaces, LockKept, Starting, BeforeInit
<1>. QED
  BY <1>1, <1>2, <1>3, <1>4, <1>5, <1>6, <1>7, <1>8, <1>9, <1>10, <1>11, <1>12, <1>13, <1>14,
     <1>15, <1>16, <1>17, <1>18, <1>19, <1>20, <1>21, <1>22, <1>23, <1>24, <1>25, <1>26, <1>27,
     <1>28, <1>29
     DEF Next, Producer, Consumer

(* No step takes a semaphore twice or gives back what is not taken. *)
LEMMA LockKeptKept ==
  ASSUME PcType, HandleType, SetType, Roles, LockPlaces, LockKept, [Next]_vars
  PROVE  LockKept'
<1> USE ConstantsAssumption DEF At, Goto, Exit, objects, input, output, Alive, PcType,
                                HandleType, SetType, Proc, Roles, LockPlaces,
                                LockKept, Starting, BeforeInit
<1>1. ASSUME NEW p \in Proc, Start(p) PROVE LockKept'
  BY <1>1 DEF Start, Move
<1>2. ASSUME NEW p \in Proc, Find(p) PROVE LockKept'
  BY <1>2 DEF Find
<1>3. ASSUME NEW p \in Proc, RemoveFound(p) PROVE LockKept'
  BY <1>3 DEF RemoveFound, SysvRemove
<1>4. ASSUME NEW p \in Proc, MqUnlink(p) PROVE LockKept'
  BY <1>4 DEF MqUnlink
<1>5. ASSUME NEW p \in Proc, Create(p) PROVE LockKept'
  BY <1>5 DEF Create, Fail
<1>6. ASSUME NEW p \in Proc, Assign(p) PROVE LockKept'
  BY <1>6 DEF Assign
<1>7. ASSUME NEW p \in Proc, Attach(p) PROVE LockKept'
  BY <1>7 DEF Attach, Fail
<1>8. ASSUME NEW p \in Proc, SemInit(p) PROVE LockKept'
  BY <1>8 DEF SemInit
<1>9. ASSUME NEW p \in Proc, Reset(p) PROVE LockKept'
  BY <1>9 DEF Reset
<1>10. ASSUME NEW p \in Proc, P(p, "send", "write") PROVE LockKept'
  BY <1>10 DEF P
<1>11. ASSUME NEW p \in Proc, WriteDate(p) PROVE LockKept'
  BY <1>11 DEF WriteDate, Date
<1>12. ASSUME NEW p \in Proc, V(p) PROVE LockKept'
  BY <1>12 DEF V
<1>13. ASSUME NEW p \in Proc, MsgSnd(p) PROVE LockKept'
  BY <1>13 DEF MsgSnd, Date, Fail
<1>14. ASSUME NEW p \in Proc, MqSend(p) PROVE LockKept'
  BY <1>14 DEF MqSend, Date
<1>15. ASSUME NEW p \in Proc, HandlerSysv(p) PROVE LockKept'
  BY <1>15 DEF HandlerSysv, SysvRemove
<1>16. ASSUME NEW p \in Proc, HandlerMq(p) PROVE LockKept'
  BY <1>16 DEF HandlerMq
<1>17. ASSUME NEW p \in Proc, Get(p) PROVE LockKept'
  BY <1>17 DEF Get, Fail
<1>18. ASSUME NEW p \in Proc, P(p, "recv", "look") PROVE LockKept'
  BY <1>18 DEF P
<1>19. ASSUME NEW p \in Proc, Look(p) PROVE LockKept'
  BY <1>19 DEF Look
<1>20. ASSUME NEW p \in Proc, Clear(p) PROVE LockKept'
  BY <1>20 DEF Clear
<1>21. ASSUME NEW p \in Proc, MsgRcv(p) PROVE LockKept'
  BY <1>21 DEF MsgRcv, Receive, Fail
<1>22. ASSUME NEW p \in Proc, MqReceive(p) PROVE LockKept'
  BY <1>22 DEF MqReceive, Receive
<1>23. ASSUME NEW p \in Proc, HandlerConsumer(p) PROVE LockKept'
  BY <1>23 DEF HandlerConsumer
<1>24. ASSUME NEW p \in Proc, Prompt(p) PROVE LockKept'
  BY <1>24 DEF Prompt
<1>25. ASSUME NEW p \in Proc, UnshareFails(p) PROVE LockKept'
  BY <1>25 DEF UnshareFails, Fail
<1>26. ASSUME NEW p \in Proc, Interrupt(p) PROVE LockKept'
  BY <1>26 DEF Interrupt
<1>27. ASSUME NEW p \in Proc, Kill(p) PROVE LockKept'
  BY <1>27 DEF Kill
<1>28. ASSUME NEW p \in Proc, Display(p) PROVE LockKept'
  BY <1>28 DEF Display
<1>29. CASE UNCHANGED vars
  BY <1>29 DEF vars
<1> HIDE DEF At, Goto, Exit, objects, input, output, Alive, PcType, HandleType, SetType,
             Proc, Roles, LockPlaces, LockKept, Starting, BeforeInit
<1>. QED
  BY <1>1, <1>2, <1>3, <1>4, <1>5, <1>6, <1>7, <1>8, <1>9, <1>10, <1>11, <1>12, <1>13, <1>14,
     <1>15, <1>16, <1>17, <1>18, <1>19, <1>20, <1>21, <1>22, <1>23, <1>24, <1>25, <1>26, <1>27,
     <1>28, <1>29
     DEF Next, Producer, Consumer

(* The semaphore of a segment is free or taken by one process, also when it was
   found before sem_init() and when its holder was interrupted or killed
   (prodcons.c:71-96, 148). *)
THEOREM LockInvariant == Spec => []LockInv
<1>1. Init => LockInv
  <2>1. Init => PcType /\ SetType
    BY DEF Init, PcType, SetType, Pc
  <2>2. Init => HandleType /\ DateType
    BY ConstantsAssumption DEF Init, HandleType, DateType
  <2>3. Init => Roles /\ LockPlaces /\ LockKept
    BY DEF Init, Roles, Starting, LockPlaces, LockKept, BeforeInit, Proc
  <2>. QED  BY <2>1, <2>2, <2>3, TypeParts DEF LockInv
<1>2. ASSUME LockInv, [Next]_vars
      PROVE  LockInv'
  <2>1. PcType /\ HandleType /\ SetType /\ DateType /\ Roles /\ LockPlaces /\ LockKept
    BY <1>2, TypeParts DEF LockInv
  <2>2. PcType' /\ HandleType' /\ SetType' /\ DateType'
    BY <1>2, <2>1, PcTypeKept, HandleTypeKept, SetTypeKept, DateTypeKept
  <2>3. Roles' /\ LockPlaces' /\ LockKept'
    BY <1>2, <2>1, RolesKept, PlacesKept, LockKeptKept
  <2>. QED  BY <2>2, <2>3 DEF LockInv, TypeOK, PcType, HandleType, SetType, DateType
<1>. QED  BY <1>1, <1>2, PTL DEF Spec

-----------------------------------------------------------------------------
(* A producer that is alone                                                 *)

(* The programs that ended, and the ones that did not. *)
Ends == \A p \in Proc : status[p] # "none" => At(p, "exited")

(* What a producer that is alone knows about the name. *)
Lonely ==
  alone => \A p \in Producers :
    /\ \A q \in Producers : Alive(p) /\ Alive(q) => p = q
    /\ At(p, "remove") => kind # "mq" /\ found[p] = name
    /\ At(p, "create") => name = None
    /\ At(p, "assign") => name = p
    /\ pc[p] \in {"idle", "find", "remove", "create"} => name # p /\ id[p] = None
    /\ p \in removed => At(p, "exited")
    /\ kind = "mq" /\ Alive(p) /\ id[p] # None => name = p

RestartInv == Ends /\ Lonely /\ RestartWorks /\ CleanExit

(* A process with a status has ended. *)
LEMMA EndsKept ==
  ASSUME PcType, Roles, Ends, [Next]_vars
  PROVE  Ends'
<1> USE ConstantsAssumption DEF At, Goto, Exit, objects, input, output, Alive, PcType, Pc, Ends
<1>1. ASSUME NEW p \in Proc, Start(p) PROVE Ends'
  BY <1>1 DEF Start, Move
<1>2. ASSUME NEW p \in Proc, Find(p) PROVE Ends'
  BY <1>2 DEF Find
<1>3. ASSUME NEW p \in Proc, RemoveFound(p) PROVE Ends'
  BY <1>3 DEF RemoveFound, SysvRemove
<1>4. ASSUME NEW p \in Proc, MqUnlink(p) PROVE Ends'
  BY <1>4 DEF MqUnlink
<1>5. ASSUME NEW p \in Proc, Create(p) PROVE Ends'
  BY <1>5 DEF Create, Fail
<1>6. ASSUME NEW p \in Proc, Assign(p) PROVE Ends'
  BY <1>6 DEF Assign
<1>7. ASSUME NEW p \in Proc, Attach(p) PROVE Ends'
  BY <1>7 DEF Attach, Fail
<1>8. ASSUME NEW p \in Proc, SemInit(p) PROVE Ends'
  BY <1>8 DEF SemInit
<1>9. ASSUME NEW p \in Proc, Reset(p) PROVE Ends'
  BY <1>9 DEF Reset
<1>10. ASSUME NEW p \in Proc, P(p, "send", "write") PROVE Ends'
  BY <1>10 DEF P
<1>11. ASSUME NEW p \in Proc, WriteDate(p) PROVE Ends'
  BY <1>11 DEF WriteDate, Date
<1>12. ASSUME NEW p \in Proc, V(p) PROVE Ends'
  BY <1>12 DEF V
<1>13. ASSUME NEW p \in Proc, MsgSnd(p) PROVE Ends'
  BY <1>13 DEF MsgSnd, Date, Fail
<1>14. ASSUME NEW p \in Proc, MqSend(p) PROVE Ends'
  BY <1>14 DEF MqSend, Date
<1>15. ASSUME NEW p \in Proc, HandlerSysv(p) PROVE Ends'
  BY <1>15 DEF HandlerSysv, SysvRemove, Gone
<1>16. ASSUME NEW p \in Proc, HandlerMq(p) PROVE Ends'
  BY <1>16 DEF HandlerMq
<1>17. ASSUME NEW p \in Proc, Get(p) PROVE Ends'
  BY <1>17 DEF Get, Fail
<1>18. ASSUME NEW p \in Proc, P(p, "recv", "look") PROVE Ends'
  BY <1>18 DEF P
<1>19. ASSUME NEW p \in Proc, Look(p) PROVE Ends'
  BY <1>19 DEF Look
<1>20. ASSUME NEW p \in Proc, Clear(p) PROVE Ends'
  BY <1>20 DEF Clear
<1>21. ASSUME NEW p \in Proc, MsgRcv(p) PROVE Ends'
  BY <1>21 DEF MsgRcv, Receive, Fail
<1>22. ASSUME NEW p \in Proc, MqReceive(p) PROVE Ends'
  BY <1>22 DEF MqReceive, Receive
<1>23. ASSUME NEW p \in Proc, HandlerConsumer(p) PROVE Ends'
  BY <1>23 DEF HandlerConsumer
<1>24. ASSUME NEW p \in Proc, Prompt(p) PROVE Ends'
  BY <1>24 DEF Prompt
<1>25. ASSUME NEW p \in Proc, UnshareFails(p) PROVE Ends'
  BY <1>25 DEF UnshareFails, Fail
<1>26. ASSUME NEW p \in Proc, Interrupt(p) PROVE Ends'
  BY <1>26 DEF Interrupt
<1>27. ASSUME NEW p \in Proc, Kill(p) PROVE Ends'
  BY <1>27 DEF Kill
<1>28. ASSUME NEW p \in Proc, Display(p) PROVE Ends'
  BY <1>28 DEF Display
<1>29. CASE UNCHANGED vars
  BY <1>29 DEF vars
<1> HIDE DEF At, Goto, Exit, objects, input, output, Alive, PcType, Pc, Ends
<1>. QED
  BY <1>1, <1>2, <1>3, <1>4, <1>5, <1>6, <1>7, <1>8, <1>9, <1>10, <1>11, <1>12, <1>13, <1>14,
     <1>15, <1>16, <1>17, <1>18, <1>19, <1>20, <1>21, <1>22, <1>23, <1>24, <1>25, <1>26,
     <1>27, <1>28, <1>29
     DEF Next, Producer, Consumer

(* A process that ends, or that goes on after the object was created, changes
   nothing of that. *)
LEMMA LonelyStays ==
  ASSUME PcType, HandleType, SetType, Lonely, NEW p \in Proc, Alive(p),
         NEW l, l \notin Starting, pc' = [pc EXCEPT ![p] = l],
         UNCHANGED <<alone, kind, found, name, removed>>,
         \A q \in Producers : id'[q] = id[q]
  PROVE  Lonely'
BY DEF PcType, HandleType, SetType, Lonely, Alive, At, Starting, Proc

(* A producer that is alone finds what the one before it left under the name, and
   removes it. *)
LEMMA LonelyKept ==
  ASSUME PcType, HandleType, SetType, Roles, Ends, Lonely, [Next]_vars
  PROVE  Lonely'
<1> USE DEF At, Goto, Exit, objects, input, output, Alive, Starting
<1>1. ASSUME NEW p \in Proc, Start(p) PROVE Lonely'
  BY <1>1, ConstantsAssumption DEF Start, Move, PcType, HandleType, SetType, Roles, Lonely, Proc
<1>2. ASSUME NEW p \in Proc, Find(p) PROVE Lonely'
  BY <1>2, ConstantsAssumption DEF Find, PcType, HandleType, SetType, Roles, Lonely, Proc
<1>3. ASSUME NEW p \in Proc, RemoveFound(p) PROVE Lonely'
  BY <1>3, ConstantsAssumption DEF RemoveFound, SysvRemove, PcType, HandleType, SetType,
     Roles, Lonely, Proc
<1>4. ASSUME NEW p \in Proc, MqUnlink(p) PROVE Lonely'
  BY <1>4, ConstantsAssumption DEF MqUnlink, PcType, HandleType, SetType, Roles, Lonely, Proc
<1>5. ASSUME NEW p \in Proc, Create(p) PROVE Lonely'
  <2>1. CASE name = None /\ name' = p /\ Goto(p, "assign")
    BY <1>5, <2>1 DEF Create, PcType, HandleType, SetType, Roles, Lonely, Proc
  <2>2. CASE Fail(p)
    BY <1>5, <2>2, LonelyStays DEF Create, Fail
  <2>. QED  BY <1>5, <2>1, <2>2 DEF Create
<1>6. ASSUME NEW p \in Proc, Assign(p) PROVE Lonely'
  BY <1>6, ConstantsAssumption DEF Assign, PcType, HandleType, SetType, Roles, Lonely, Proc
<1>7. ASSUME NEW p \in Proc, Attach(p) PROVE Lonely'
  BY <1>7, LonelyStays DEF Attach, Fail
<1>8. ASSUME NEW p \in Proc, SemInit(p) PROVE Lonely'
  BY <1>8, LonelyStays DEF SemInit
<1>9. ASSUME NEW p \in Proc, Reset(p) PROVE Lonely'
  BY <1>9, LonelyStays DEF Reset
<1>10. ASSUME NEW p \in Proc, P(p, "send", "write") PROVE Lonely'
  BY <1>10, LonelyStays DEF P
<1>11. ASSUME NEW p \in Proc, WriteDate(p) PROVE Lonely'
  BY <1>11, LonelyStays DEF WriteDate, Date
<1>12. ASSUME NEW p \in Proc, V(p) PROVE Lonely'
  BY <1>12, LonelyStays DEF V
<1>13. ASSUME NEW p \in Proc, MsgSnd(p) PROVE Lonely'
  BY <1>13, LonelyStays DEF MsgSnd, Date, Fail
<1>14. ASSUME NEW p \in Proc, MqSend(p) PROVE Lonely'
  BY <1>14, LonelyStays DEF MqSend, Date
<1>15. ASSUME NEW p \in Proc, HandlerSysv(p) PROVE Lonely'
  BY <1>15, ConstantsAssumption DEF HandlerSysv, SysvRemove, Gone, PcType, HandleType,
     SetType, Roles, Lonely, Proc
<1>16. ASSUME NEW p \in Proc, HandlerMq(p) PROVE Lonely'
  BY <1>16, ConstantsAssumption DEF HandlerMq, PcType, HandleType, SetType, Roles, Lonely, Proc
<1>17. ASSUME NEW p \in Proc, Get(p) PROVE Lonely'
  <2>1. \A q \in Producers : id'[q] = id[q]
    BY <1>17, ConstantsAssumption DEF Get, Fail, HandleType, Proc
  <2>. QED  BY <1>17, <2>1, LonelyStays DEF Get, Fail
<1>18. ASSUME NEW p \in Proc, P(p, "recv", "look") PROVE Lonely'
  BY <1>18, LonelyStays DEF P
<1>19. ASSUME NEW p \in Proc, Look(p) PROVE Lonely'
  BY <1>19, LonelyStays DEF Look
<1>20. ASSUME NEW p \in Proc, Clear(p) PROVE Lonely'
  BY <1>20, LonelyStays DEF Clear
<1>21. ASSUME NEW p \in Proc, MsgRcv(p) PROVE Lonely'
  <2>1. CASE Receive(p)
    BY <2>1 DEF Receive, Lonely
  <2>2. CASE ~Receive(p)
    BY <1>21, <2>2, LonelyStays DEF MsgRcv, Fail
  <2>. QED  BY <2>1, <2>2
<1>22. ASSUME NEW p \in Proc, MqReceive(p) PROVE Lonely'
  <2>1. CASE Receive(p)
    BY <2>1 DEF Receive, Lonely
  <2>2. CASE ~Receive(p)
    BY <1>22, <2>2, LonelyStays DEF MqReceive
  <2>. QED  BY <2>1, <2>2
<1>23. ASSUME NEW p \in Proc, HandlerConsumer(p) PROVE Lonely'
  BY <1>23, LonelyStays DEF HandlerConsumer
<1>24. ASSUME NEW p \in Proc, Prompt(p) PROVE Lonely'
  BY <1>24, LonelyStays DEF Prompt
<1>25. ASSUME NEW p \in Proc, UnshareFails(p) PROVE Lonely'
  BY <1>25, LonelyStays DEF UnshareFails, Fail
<1>26. ASSUME NEW p \in Proc, Interrupt(p) PROVE Lonely'
  BY <1>26, LonelyStays DEF Interrupt
<1>27. ASSUME NEW p \in Proc, Kill(p) PROVE Lonely'
  BY <1>27, LonelyStays DEF Kill
<1>28. ASSUME NEW p \in Proc, Display(p) PROVE Lonely'
  BY <1>28, LonelyStays DEF Display
<1>29. CASE UNCHANGED vars
  BY <1>29 DEF vars, Lonely
<1> HIDE DEF At, Goto, Exit, objects, input, output, Alive, Starting
<1>. QED
  BY <1>1, <1>2, <1>3, <1>4, <1>5, <1>6, <1>7, <1>8, <1>9, <1>10, <1>11, <1>12, <1>13, <1>14,
     <1>15, <1>16, <1>17, <1>18, <1>19, <1>20, <1>21, <1>22, <1>23, <1>24, <1>25, <1>26,
     <1>27, <1>28, <1>29
     DEF Next, Producer, Consumer

(* A producer fails only once it has its object, and a handler only for the
   reasons that CleanExit names. *)
LEMMA ExitsKept ==
  ASSUME PcType, HandleType, SetType, Roles, Ends, Lonely, RestartWorks, CleanExit, [Next]_vars
  PROVE  (RestartWorks /\ CleanExit)'
<1> USE ConstantsAssumption DEF At, Goto, Exit, objects, input, output, Alive, PcType, HandleType,
                                SetType, Proc, Roles, Starting, Ends, Lonely, RestartWorks,
                                CleanExit
<1>1. ASSUME NEW p \in Proc, Start(p) PROVE (RestartWorks /\ CleanExit)'
  BY <1>1 DEF Start, Move
<1>2. ASSUME NEW p \in Proc, Find(p) PROVE (RestartWorks /\ CleanExit)'
  BY <1>2 DEF Find
<1>3. ASSUME NEW p \in Proc, RemoveFound(p) PROVE (RestartWorks /\ CleanExit)'
  BY <1>3 DEF RemoveFound, SysvRemove
<1>4. ASSUME NEW p \in Proc, MqUnlink(p) PROVE (RestartWorks /\ CleanExit)'
  BY <1>4 DEF MqUnlink
<1>5. ASSUME NEW p \in Proc, Create(p) PROVE (RestartWorks /\ CleanExit)'
  BY <1>5 DEF Create, Fail
<1>6. ASSUME NEW p \in Proc, Assign(p) PROVE (RestartWorks /\ CleanExit)'
  BY <1>6 DEF Assign
<1>7. ASSUME NEW p \in Proc, Attach(p) PROVE (RestartWorks /\ CleanExit)'
  BY <1>7 DEF Attach, Fail
<1>8. ASSUME NEW p \in Proc, SemInit(p) PROVE (RestartWorks /\ CleanExit)'
  BY <1>8 DEF SemInit
<1>9. ASSUME NEW p \in Proc, Reset(p) PROVE (RestartWorks /\ CleanExit)'
  BY <1>9 DEF Reset
<1>10. ASSUME NEW p \in Proc, P(p, "send", "write") PROVE (RestartWorks /\ CleanExit)'
  BY <1>10 DEF P
<1>11. ASSUME NEW p \in Proc, WriteDate(p) PROVE (RestartWorks /\ CleanExit)'
  BY <1>11 DEF WriteDate, Date
<1>12. ASSUME NEW p \in Proc, V(p) PROVE (RestartWorks /\ CleanExit)'
  BY <1>12 DEF V
<1>13. ASSUME NEW p \in Proc, MsgSnd(p) PROVE (RestartWorks /\ CleanExit)'
  BY <1>13 DEF MsgSnd, Date, Fail
<1>14. ASSUME NEW p \in Proc, MqSend(p) PROVE (RestartWorks /\ CleanExit)'
  BY <1>14 DEF MqSend, Date
<1>15. ASSUME NEW p \in Proc, HandlerSysv(p) PROVE (RestartWorks /\ CleanExit)'
  BY <1>15 DEF HandlerSysv, SysvRemove, Gone
<1>16. ASSUME NEW p \in Proc, HandlerMq(p) PROVE (RestartWorks /\ CleanExit)'
  BY <1>16 DEF HandlerMq
<1>17. ASSUME NEW p \in Proc, Get(p) PROVE (RestartWorks /\ CleanExit)'
  BY <1>17 DEF Get, Fail
<1>18. ASSUME NEW p \in Proc, P(p, "recv", "look") PROVE (RestartWorks /\ CleanExit)'
  BY <1>18 DEF P
<1>19. ASSUME NEW p \in Proc, Look(p) PROVE (RestartWorks /\ CleanExit)'
  BY <1>19 DEF Look
<1>20. ASSUME NEW p \in Proc, Clear(p) PROVE (RestartWorks /\ CleanExit)'
  BY <1>20 DEF Clear
<1>21. ASSUME NEW p \in Proc, MsgRcv(p) PROVE (RestartWorks /\ CleanExit)'
  BY <1>21 DEF MsgRcv, Receive, Fail
<1>22. ASSUME NEW p \in Proc, MqReceive(p) PROVE (RestartWorks /\ CleanExit)'
  BY <1>22 DEF MqReceive, Receive
<1>23. ASSUME NEW p \in Proc, HandlerConsumer(p) PROVE (RestartWorks /\ CleanExit)'
  BY <1>23 DEF HandlerConsumer
<1>24. ASSUME NEW p \in Proc, Prompt(p) PROVE (RestartWorks /\ CleanExit)'
  BY <1>24 DEF Prompt
<1>25. ASSUME NEW p \in Proc, UnshareFails(p) PROVE (RestartWorks /\ CleanExit)'
  BY <1>25 DEF UnshareFails, Fail
<1>26. ASSUME NEW p \in Proc, Interrupt(p) PROVE (RestartWorks /\ CleanExit)'
  BY <1>26 DEF Interrupt
<1>27. ASSUME NEW p \in Proc, Kill(p) PROVE (RestartWorks /\ CleanExit)'
  BY <1>27 DEF Kill
<1>28. ASSUME NEW p \in Proc, Display(p) PROVE (RestartWorks /\ CleanExit)'
  BY <1>28 DEF Display
<1>29. CASE UNCHANGED vars
  BY <1>29 DEF vars
<1> HIDE DEF At, Goto, Exit, objects, input, output, Alive, PcType, HandleType, SetType,
             Proc, Roles, Starting, Ends, Lonely, RestartWorks, CleanExit
<1>. QED
  BY <1>1, <1>2, <1>3, <1>4, <1>5, <1>6, <1>7, <1>8, <1>9, <1>10, <1>11, <1>12, <1>13, <1>14,
     <1>15, <1>16, <1>17, <1>18, <1>19, <1>20, <1>21, <1>22, <1>23, <1>24, <1>25, <1>26,
     <1>27, <1>28, <1>29
     DEF Next, Producer, Consumer

-----------------------------------------------------------------------------
(* The dates                                                                *)

Increasing(dates) == \A j, k \in DOMAIN dates : j < k => dates[j] < dates[k]

(* The dates in an object, and on the screen of a consumer. *)
Stored(s) == Range(chan[s])
Seen(c)   == Range(shown[c])

(* Who has looked at the date of a segment and has not given the semaphore
   back: it is about to erase the date, or it ended there. *)
Erasing == {"clear", "handler", "exited"}

BeingErased(s) == kind = "shm" /\ \E p \in inside : id[p] = s /\ pc[p] \in Erasing

(* The dates are in their order, in an object and on a screen. *)
Sorted ==
  /\ \A s \in Producers : Increasing(chan[s])
  /\ \A c \in Consumers : Increasing(shown[c])

(* No date is later than the clock. *)
Past ==
  /\ \A s \in Producers : \A d \in Stored(s) : d <= clock
  /\ \A c \in Consumers : Held[c] <= clock /\ \A d \in Seen(c) : d <= clock

(* What a consumer has displayed comes before what it holds, and both come
   before what is in its object, but for a date that is being erased. *)
Behind ==
  \A c \in Consumers :
    /\ Held[c] # 0 => \A d \in Seen(c) : d < Held[c]
    /\ \A s \in Producers : \A e \in Stored(s) : Reads[c] = s =>
         /\ Held[c] < e
         /\ BeingErased(s) \/ \A d \in Seen(c) : d < e

(* A date is in one object, held by one consumer or on one screen. *)
Apart ==
  /\ \A r, s \in Producers : \A d \in Stored(r) : r # s => d \notin Stored(s)
  /\ \A s \in Producers, c \in Consumers : \A d \in Stored(s) :
       d # Held[c] /\ (BeingErased(s) \/ d \notin Seen(c))
  /\ \A b, c \in Consumers : \A d \in Seen(b) :
       d # Held[c] /\ (b # c => d \notin Seen(c))
  /\ \A b, c \in Consumers : b # c /\ Held[b] # 0 => Held[b] # Held[c]

(* A segment has room for one date. *)
OneDate == kind = "shm" => \A s \in Producers : Len(chan[s]) <= 1

(* Nothing is in the object of a producer that has not got to its loop. *)
EmptyAtStart == \A s \in Producers : pc[s] \in BeforeInit \cup {"reset"} => chan[s] = <<>>

(* What a consumer erases was displayed. *)
Displayed(s) == \A d \in Stored(s) : \E c \in Consumers : d \in Seen(c)

Erased == \A c \in Proc : At(c, "clear") => Displayed(id[c])

(* A consumer displays nothing before it has an object, which it gets once. *)
OpenedOnce ==
  \A c \in Consumers :
    /\ pc[c] \in {"idle", "get"} => id[c] = None
    /\ id[c] = None => shown[c] = <<>>

(* The places of the programs that only prodcons.c has, and one it has not. *)
OnlySegments ==
  \A p \in Proc :
    /\ pc[p] \in {"attach", "init", "reset", "write", "look", "clear", "V"} => kind = "shm"
    /\ pc[p] = "print" => kind # "shm"

DatesInv ==
  /\ Sorted /\ Past /\ Behind /\ Apart
  /\ OneDate /\ EmptyAtStart /\ Erased /\ OpenedOnce /\ OnlySegments

(* What a step does to the dates and to the consumers. *)
Same == UNCHANGED <<kind, clock, chan, shown, Lost, Reads, Held, Ended>>

Opens(c, s) ==
  /\ c \notin Ended /\ Reads[c] = None /\ Held[c] = 0 /\ shown[c] = <<>>
  /\ Reads' = [Reads EXCEPT ![c] = s]
  /\ UNCHANGED <<kind, clock, chan, shown, Lost, Held, Ended>>

Finishes(c) ==
  /\ Ended' = Ended \cup {c}
  /\ Held' = [Held EXCEPT ![c] = 0]
  /\ UNCHANGED <<kind, clock, chan, shown, Lost, Reads>>

Empties(s) ==
  /\ kind = "shm" /\ Displayed(s)
  /\ chan' = [chan EXCEPT ![s] = <<>>]
  /\ UNCHANGED <<kind, clock, shown, Lost, Reads, Held, Ended>>

Removes(s) ==
  /\ kind = "msgq"
  /\ Lost' = Lost \cup {s}
  /\ chan' = [chan EXCEPT ![s] = <<>>]
  /\ UNCHANGED <<kind, clock, shown, Reads, Held, Ended>>

Writes(s) ==
  /\ s \notin Lost /\ ~BeingErased(s)
  /\ Date
  /\ chan' = [chan EXCEPT ![s] = IF kind = "shm" THEN <<clock'>> ELSE Append(@, clock')]
  /\ UNCHANGED <<kind, shown, Lost, Reads, Held, Ended>>

Looks(c, s) ==
  /\ kind = "shm" /\ c \notin Ended
  /\ Reads[c] = s /\ chan[s] # <<>>
  /\ ~BeingErased(s) /\ BeingErased(s)'
  /\ shown' = [shown EXCEPT ![c] = Append(@, Head(chan[s]))]
  /\ UNCHANGED <<kind, clock, chan, Lost, Reads, Held, Ended>>

Takes(c, s) ==
  /\ kind # "shm" /\ c \notin Ended /\ Held[c] = 0
  /\ Reads[c] = s /\ chan[s] # <<>>
  /\ Held' = [Held EXCEPT ![c] = Head(chan[s])]
  /\ chan' = [chan EXCEPT ![s] = Tail(@)]
  /\ UNCHANGED <<kind, clock, shown, Lost, Reads, Ended>>

Prints(c) ==
  /\ c \notin Ended /\ Held[c] # 0
  /\ shown' = [shown EXCEPT ![c] = Append(@, Held[c])]
  /\ Held' = [Held EXCEPT ![c] = 0]
  /\ UNCHANGED <<kind, clock, chan, Lost, Reads, Ended>>

SomeStep ==
  \/ Same
  \/ \E s \in Producers : Empties(s) \/ Removes(s) \/ Writes(s)
  \/ \E c \in Consumers, s \in Producers : Opens(c, s) \/ Looks(c, s) \/ Takes(c, s)
  \/ \E c \in Consumers : Finishes(c) \/ Prints(c)

(* A step that moves a process, and changes no date. *)
LEMMA PlaceStep ==
  ASSUME PcType, NEW p \in Proc, pc' = [pc EXCEPT ![p] = pc'[p]],
         UNCHANGED <<kind, clock, chan, msg, shown>>, Reads' = Reads, Lost' = Lost,
         \/ p \in Producers
         \/ pc'[p] \in {"handler", "exited"}
         \/ {pc[p], pc'[p]} \cap {"print", "handler", "exited"} = {}
  PROVE  SomeStep
<1>1. \A c \in Consumers : c # p => pc'[c] = pc[c]
  BY DEF PcType, Proc
<1>2. CASE p \in Consumers /\ pc'[p] \in {"handler", "exited"}
  <2>1. Ended' = Ended \cup {p}
    BY <1>1, <1>2 DEF Ended
  <2>2. Held' = [Held EXCEPT ![p] = 0]
    BY <1>1, <1>2 DEF Held, At
  <2>. QED  BY <1>2, <2>1, <2>2 DEF SomeStep, Finishes
<1>3. CASE p \in Producers \/ {pc[p], pc'[p]} \cap {"print", "handler", "exited"} = {}
  <2>1. \A c \in Consumers :
          /\ pc'[c] \in {"handler", "exited"} <=> pc[c] \in {"handler", "exited"}
          /\ pc'[c] = "print" <=> pc[c] = "print"
    BY <1>1, <1>3, ConstantsAssumption
  <2>2. Ended' = Ended
    BY <2>1 DEF Ended
  <2>3. Held' = Held
    BY <2>1 DEF Held, At
  <2>. QED  BY <2>2, <2>3 DEF SomeStep, Same
<1>. QED  BY <1>2, <1>3 DEF Proc

(* A step of a producer moves no consumer. *)
LEMMA ProducerStep ==
  ASSUME PcType, NEW p \in Producers, pc' = [pc EXCEPT ![p] = pc'[p]], msg' = msg
  PROVE  Held' = Held /\ Ended' = Ended
<1>1. \A c \in Consumers : pc'[c] = pc[c]
  BY ConstantsAssumption DEF PcType, Proc
<1>2. Ended' = Ended
  BY <1>1 DEF Ended
<1>3. Held' = Held
  BY <1>1 DEF Held, At
<1>. QED  BY <1>2, <1>3

(* A process that fails stops, and that is all. *)
LEMMA FailStep ==
  ASSUME PcType, NEW p \in Proc, Fail(p)
  PROVE  SomeStep
<1>1. /\ pc' = [pc EXCEPT ![p] = pc'[p]] /\ pc'[p] = "exited"
      /\ UNCHANGED <<kind, clock, chan, msg, shown, id, removed>>
  BY DEF Fail, Exit, input, objects, output, PcType
<1>2. Reads' = Reads /\ Lost' = Lost
  BY <1>1 DEF Reads, Lost
<1>. QED  BY <1>1, <1>2, PlaceStep

(* A process that has got the semaphore is the only one inside. *)
LEMMA InsideAlone ==
  ASSUME LockKept, NEW s \in Producers, NEW p \in inside, id[p] = s, pc[p] \notin Erasing
  PROVE  ~BeingErased(s)
BY DEF LockKept, BeingErased

(* A consumer that receives takes the first date of its object. *)
LEMMA ReceiveStep ==
  ASSUME PcType, HandleType, DateType, Roles, NEW c \in Proc, Receive(c), kind # "shm"
  PROVE  SomeStep
<1>1. /\ c \in Consumers /\ pc[c] = "recv" /\ chan[id[c]] # <<>> /\ id[c] \in Producers
      /\ msg' = [msg EXCEPT ![c] = Head(chan[id[c]])] /\ pc' = [pc EXCEPT ![c] = "print"]
      /\ chan' = [chan EXCEPT ![id[c]] = Tail(@)]
      /\ UNCHANGED <<kind, clock, shown, id, removed>>
  BY DEF Receive, At, Goto, input, Roles, Starting, HandleType
<1>2. Reads' = Reads /\ Lost' = Lost /\ Reads[c] = id[c]
  BY <1>1 DEF Reads, Lost
<1>3. Ended' = Ended /\ c \notin Ended
  BY <1>1 DEF Ended, PcType, Proc
<1>4. Held' = [Held EXCEPT ![c] = Head(chan[id[c]])] /\ Held[c] = 0
  <2>1. Held[c] = 0
    BY <1>1 DEF Held, At
  <2>2. \A b \in Consumers : b # c => pc'[b] = pc[b] /\ msg'[b] = msg[b]
    BY <1>1 DEF PcType, Proc, DateType
  <2>3. pc'[c] = "print" /\ msg'[c] = Head(chan[id[c]])
    BY <1>1 DEF PcType, Proc, DateType
  <2>4. Held'[c] = Head(chan[id[c]])
    BY <1>1, <2>3 DEF Held, At
  <2>5. \A b \in Consumers : b # c => Held'[b] = Held[b]
    BY <2>2 DEF Held, At
  <2>6. Held = [b \in Consumers |-> Held[b]] /\ Held' = [b \in Consumers |-> Held'[b]]
    BY DEF Held
  <2>. QED  BY <1>1, <2>1, <2>4, <2>5, <2>6
<1>. QED  BY <1>1, <1>2, <1>3, <1>4 DEF SomeStep, Takes

(* A step writes a date, displays one, moves it or loses it in one of the ways
   above, or leaves the dates alone. *)
LEMMA DateSteps ==
  ASSUME PcType, HandleType, SetType, DateType, Roles, LockPlaces, LockKept,
         EmptyAtStart, Erased, OpenedOnce, OnlySegments, [Next]_vars
  PROVE  SomeStep
<1> USE ConstantsAssumption DEF At, Goto, Exit, input, objects, output, PcType
<1>1. ASSUME NEW p \in Proc, Start(p) PROVE SomeStep
  BY <1>1, PlaceStep DEF Reads, Lost, Proc, Start, Move
<1>2. ASSUME NEW p \in Proc, Find(p) PROVE SomeStep
  BY <1>2, PlaceStep DEF Reads, Lost, Proc, Find
<1>3. ASSUME NEW p \in Proc, RemoveFound(p) PROVE SomeStep
  <2>1. found[p] \in Producers /\ p \in Producers
    BY <1>3 DEF RemoveFound, Roles, HandleType
  <2>2. pc' = [pc EXCEPT ![p] = pc'[p]] /\ UNCHANGED <<kind, clock, msg, shown, id>>
    BY <1>3 DEF RemoveFound
  <2>3. CASE kind = "msgq"
    <3>1. chan' = [chan EXCEPT ![found[p]] = <<>>] /\ removed' = removed \cup {found[p]}
      BY <1>3, <2>3 DEF RemoveFound, SysvRemove
    <3>2. Lost' = Lost \cup {found[p]} /\ Reads' = Reads
      BY <2>2, <2>3, <3>1 DEF Lost, Reads
    <3>. QED  BY <2>1, <2>2, <2>3, <3>1, <3>2, ProducerStep DEF Removes, SomeStep
  <2>4. CASE kind # "msgq"
    <3>1. chan' = chan /\ Lost' = Lost /\ Reads' = Reads
      BY <1>3, <2>2, <2>4 DEF RemoveFound, SysvRemove, Lost, Reads
    <3>. QED  BY <2>1, <2>2, <3>1, PlaceStep
  <2>. QED  BY <2>3, <2>4
<1>4. ASSUME NEW p \in Proc, MqUnlink(p) PROVE SomeStep
  BY <1>4, PlaceStep DEF Reads, Lost, Proc, MqUnlink
<1>5. ASSUME NEW p \in Proc, Create(p) PROVE SomeStep
  BY <1>5, PlaceStep, FailStep DEF Reads, Lost, Proc, Create
<1>6. ASSUME NEW p \in Proc, Assign(p) PROVE SomeStep
  <2>1. /\ p \in Producers /\ id' = [id EXCEPT ![p] = p] /\ pc' = [pc EXCEPT ![p] = pc'[p]]
        /\ UNCHANGED <<kind, clock, chan, msg, shown, removed>>
    BY <1>6 DEF Assign, Roles
  <2>2. \A c \in Consumers : id'[c] = id[c]
    BY <2>1 DEF HandleType, Proc
  <2>3. Reads' = Reads /\ Lost' = Lost
    BY <2>1, <2>2 DEF Reads, Lost
  <2>. QED  BY <2>1, <2>3, PlaceStep
<1>7. ASSUME NEW p \in Proc, Attach(p) PROVE SomeStep
  BY <1>7, PlaceStep, FailStep DEF Reads, Lost, Proc, Attach
<1>8. ASSUME NEW p \in Proc, SemInit(p) PROVE SomeStep
  BY <1>8, PlaceStep DEF Reads, Lost, Proc, SemInit
<1>9. ASSUME NEW p \in Proc, Reset(p) PROVE SomeStep
  <2>1. p \in Producers /\ chan[p] = <<>> /\ kind = "shm"
    BY <1>9 DEF Reset, Roles, EmptyAtStart, OnlySegments
  <2>2. /\ chan' = [chan EXCEPT ![p] = <<>>] /\ UNCHANGED <<kind, clock, shown, removed, id>>
        /\ pc' = [pc EXCEPT ![p] = pc'[p]] /\ msg' = msg
    BY <1>9 DEF Reset
  <2>3. Displayed(p)
    BY <2>1 DEF Displayed, Stored, Range
  <2>4. Empties(p)
    BY <2>1, <2>2, <2>3, ProducerStep DEF Empties, Lost, Reads
  <2>. QED  BY <2>1, <2>4 DEF SomeStep
<1>10. ASSUME NEW p \in Proc, P(p, "send", "write") PROVE SomeStep
  BY <1>10, PlaceStep DEF Reads, Lost, Proc, P
<1>11. ASSUME NEW p \in Proc, WriteDate(p) PROVE SomeStep
  <2>1. p \in Producers /\ p \in inside /\ id[p] = p /\ kind = "shm" /\ pc[p] = "write"
    BY <1>11 DEF WriteDate, Roles, Starting, LockPlaces, OnlySegments
  <2>2. /\ chan' = [chan EXCEPT ![p] = <<clock'>>] /\ Date
        /\ UNCHANGED <<kind, shown, removed, id, msg>> /\ pc' = [pc EXCEPT ![p] = pc'[p]]
    BY <1>11, <2>1 DEF WriteDate
  <2>3. ~BeingErased(p) /\ p \notin Lost
    BY <2>1, InsideAlone DEF Erasing, Lost
  <2>4. Writes(p)
    BY <2>1, <2>2, <2>3, ProducerStep DEF Writes, Lost, Reads
  <2>. QED  BY <2>1, <2>4 DEF SomeStep
<1>12. ASSUME NEW p \in Proc, V(p) PROVE SomeStep
  BY <1>12, PlaceStep DEF Reads, Lost, Proc, V
<1>13. ASSUME NEW p \in Proc, MsgSnd(p) PROVE SomeStep
  <2>1. CASE Fail(p)
    BY <2>1, FailStep
  <2>2. CASE ~Fail(p)
    <3>1. /\ p \in Producers /\ p \notin removed /\ kind = "msgq" /\ Date
          /\ chan' = [chan EXCEPT ![p] = Append(@, clock')]
          /\ UNCHANGED <<kind, shown, removed, id, msg>> /\ pc' = [pc EXCEPT ![p] = pc'[p]]
      BY <1>13, <2>2 DEF MsgSnd, Roles
    <3>2. ~BeingErased(p) /\ p \notin Lost
      BY <3>1 DEF BeingErased, Lost
    <3>3. Writes(p)
      BY <3>1, <3>2, ProducerStep DEF Writes, Lost, Reads
    <3>. QED  BY <3>1, <3>3 DEF SomeStep
  <2>. QED  BY <2>1, <2>2
<1>14. ASSUME NEW p \in Proc, MqSend(p) PROVE SomeStep
  <2>1. /\ p \in Producers /\ kind = "mq" /\ Date
        /\ chan' = [chan EXCEPT ![p] = Append(@, clock')]
        /\ UNCHANGED <<kind, shown, removed, id, msg>> /\ pc' = [pc EXCEPT ![p] = pc'[p]]
    BY <1>14 DEF MqSend, Roles
  <2>2. ~BeingErased(p) /\ p \notin Lost
    BY <2>1 DEF BeingErased, Lost
  <2>3. Writes(p)
    BY <2>1, <2>2, ProducerStep DEF Writes, Lost, Reads
  <2>. QED  BY <2>1, <2>3 DEF SomeStep
<1>15. ASSUME NEW p \in Proc, HandlerSysv(p) PROVE SomeStep
  <2>1. p \in Producers /\ pc' = [pc EXCEPT ![p] = pc'[p]]
    BY <1>15 DEF HandlerSysv
  <2>2. UNCHANGED <<kind, clock, msg, shown, id>>
    BY <1>15 DEF HandlerSysv
  <2>3. CASE kind = "msgq" /\ SysvRemove(p)
    <3>1. chan' = [chan EXCEPT ![p] = <<>>] /\ removed' = removed \cup {p}
      BY <2>3 DEF SysvRemove
    <3>2. Lost' = Lost \cup {p} /\ Reads' = Reads
      BY <2>2, <2>3, <3>1 DEF Lost, Reads
    <3>. QED  BY <2>1, <2>2, <2>3, <3>1, <3>2, ProducerStep DEF Removes, SomeStep
  <2>4. CASE ~(kind = "msgq" /\ SysvRemove(p))
    <3>1. chan' = chan /\ Lost' = Lost /\ Reads' = Reads
      BY <1>15, <2>2, <2>4 DEF HandlerSysv, SysvRemove, Lost, Reads
    <3>. QED  BY <2>1, <2>2, <3>1, PlaceStep
  <2>. QED  BY <2>3, <2>4
<1>16. ASSUME NEW p \in Proc, HandlerMq(p) PROVE SomeStep
  BY <1>16, PlaceStep DEF Reads, Lost, Proc, HandlerMq
<1>17. ASSUME NEW p \in Proc, Get(p) PROVE SomeStep
  <2>1. CASE Fail(p)
    BY <2>1, FailStep
  <2>2. CASE ~Fail(p)
    <3>1. /\ p \in Consumers /\ pc[p] = "get" /\ name \in Producers
          /\ id' = [id EXCEPT ![p] = name] /\ pc' = [pc EXCEPT ![p] = pc'[p]]
          /\ pc'[p] \in {"attach", "recv"}
          /\ UNCHANGED <<kind, clock, chan, msg, shown, removed>>
      BY <1>17, <2>2 DEF Get, HandleType
    <3>2. Reads[p] = None /\ Reads' = [Reads EXCEPT ![p] = name] /\ shown[p] = <<>>
      BY <3>1 DEF Reads, OpenedOnce, HandleType, Proc
    <3>3. \A c \in Consumers :
            /\ pc'[c] \in {"handler", "exited"} <=> pc[c] \in {"handler", "exited"}
            /\ pc'[c] = "print" <=> pc[c] = "print"
      BY <3>1 DEF Proc
    <3>4. Ended' = Ended /\ p \notin Ended
      BY <3>1, <3>3 DEF Ended
    <3>5. Held' = Held /\ Lost' = Lost /\ Held[p] = 0
      BY <3>1, <3>3 DEF Held, Lost
    <3>6. Opens(p, name)
      BY <3>1, <3>2, <3>4, <3>5 DEF Opens
    <3>. QED  BY <3>1, <3>6 DEF SomeStep
  <2>. QED  BY <2>1, <2>2
<1>18. ASSUME NEW p \in Proc, P(p, "recv", "look") PROVE SomeStep
  BY <1>18, PlaceStep DEF Reads, Lost, Proc, P
<1>19. ASSUME NEW p \in Proc, Look(p) PROVE SomeStep
  <2>1. p \in Consumers /\ id[p] \in Producers /\ p \in inside /\ kind = "shm" /\ pc[p] = "look"
    BY <1>19 DEF Look, Roles, Starting, LockPlaces, OnlySegments, HandleType
  <2>2. /\ pc' = [pc EXCEPT ![p] = pc'[p]] /\ pc'[p] \in {"V", "clear"}
        /\ UNCHANGED <<kind, clock, chan, msg, removed, id, inside>>
    BY <1>19 DEF Look
  <2>3. Reads' = Reads /\ Lost' = Lost /\ Reads[p] = id[p]
    BY <2>1, <2>2 DEF Reads, Lost
  <2>4. CASE chan[id[p]] = <<>>
    BY <1>19, <2>1, <2>2, <2>3, <2>4, PlaceStep DEF Look
  <2>5. CASE chan[id[p]] # <<>>
    <3>1. shown' = [shown EXCEPT ![p] = Append(@, Head(chan[id[p]]))] /\ pc'[p] = "clear"
      BY <1>19, <2>5 DEF Look
    <3>2. ~BeingErased(id[p]) /\ BeingErased(id[p])'
      BY <2>1, <2>2, <3>1, InsideAlone DEF BeingErased, Erasing
    <3>3. \A c \in Consumers :
            /\ pc'[c] \in {"handler", "exited"} <=> pc[c] \in {"handler", "exited"}
            /\ pc'[c] = "print" <=> pc[c] = "print"
      BY <2>1, <2>2, <3>1 DEF Proc
    <3>4. Ended' = Ended /\ p \notin Ended /\ Held' = Held
      BY <2>1, <2>2, <3>3 DEF Ended, Held
    <3>5. Looks(p, id[p])
      BY <2>1, <2>2, <2>3, <2>5, <3>1, <3>2, <3>4 DEF Looks
    <3>. QED  BY <2>1, <3>5 DEF SomeStep
  <2>. QED  BY <2>4, <2>5
<1>20. ASSUME NEW p \in Proc, Clear(p) PROVE SomeStep
  <2>1. p \in Consumers /\ id[p] \in Producers /\ kind = "shm" /\ pc[p] = "clear"
    BY <1>20 DEF Clear, Roles, Starting, OnlySegments, HandleType
  <2>2. /\ pc' = [pc EXCEPT ![p] = pc'[p]] /\ pc'[p] = "V"
        /\ chan' = [chan EXCEPT ![id[p]] = <<>>]
        /\ UNCHANGED <<kind, clock, msg, shown, removed, id>>
    BY <1>20 DEF Clear
  <2>3. \A c \in Consumers :
          /\ pc'[c] \in {"handler", "exited"} <=> pc[c] \in {"handler", "exited"}
          /\ pc'[c] = "print" <=> pc[c] = "print"
    BY <2>1, <2>2 DEF Proc
  <2>4. Ended' = Ended /\ Held' = Held
    BY <2>2, <2>3 DEF Ended, Held
  <2>5. Empties(id[p])
    BY <2>1, <2>2, <2>4 DEF Empties, Erased, Lost, Reads
  <2>. QED  BY <2>1, <2>5 DEF SomeStep
<1>21. ASSUME NEW p \in Proc, MsgRcv(p) PROVE SomeStep
  BY <1>21, ReceiveStep, FailStep DEF MsgRcv
<1>22. ASSUME NEW p \in Proc, MqReceive(p) PROVE SomeStep
  BY <1>22, ReceiveStep DEF MqReceive
<1>23. ASSUME NEW p \in Proc, HandlerConsumer(p) PROVE SomeStep
  BY <1>23, PlaceStep DEF Reads, Lost, Proc, HandlerConsumer
<1>24. ASSUME NEW p \in Proc, Prompt(p) PROVE SomeStep
  BY <1>24, PlaceStep DEF Reads, Lost, Proc, Prompt
<1>25. ASSUME NEW p \in Proc, UnshareFails(p) PROVE SomeStep
  BY <1>25, FailStep DEF UnshareFails
<1>26. ASSUME NEW p \in Proc, Interrupt(p) PROVE SomeStep
  BY <1>26, PlaceStep DEF Reads, Lost, Proc, Interrupt
<1>27. ASSUME NEW p \in Proc, Kill(p) PROVE SomeStep
  BY <1>27, PlaceStep DEF Reads, Lost, Proc, Kill
<1>28. ASSUME NEW p \in Proc, Display(p) PROVE SomeStep
  <2>1. /\ p \in Consumers /\ pc[p] = "print" /\ msg[p] # 0 /\ Held[p] = msg[p]
    BY <1>28 DEF Display, Roles, Held
  <2>2. /\ shown' = [shown EXCEPT ![p] = Append(@, msg[p])] /\ pc' = [pc EXCEPT ![p] = "recv"]
        /\ UNCHANGED <<kind, clock, chan, removed, id>>
        /\ \A c \in Consumers : c # p => msg'[c] = msg[c]
    BY <1>28 DEF Display, DateType
  <2>3. \A c \in Consumers : c # p => pc'[c] = pc[c]
    BY <2>2 DEF PcType, Proc
  <2>4. Ended' = Ended /\ p \notin Ended
    BY <2>1, <2>2, <2>3 DEF Ended, PcType, Proc
  <2>5. Held' = [Held EXCEPT ![p] = 0]
    BY <2>1, <2>2, <2>3 DEF Held, PcType, Proc
  <2>6. Prints(p)
    BY <2>1, <2>2, <2>4, <2>5 DEF Prints, Lost, Reads
  <2>. QED  BY <2>1, <2>6 DEF SomeStep
<1>29. CASE UNCHANGED vars
  BY <1>29 DEF vars, SomeStep, Same, Reads, Held, Ended, Lost
<1> HIDE DEF At, Goto, Exit, input, objects, output, PcType
<1>. QED
  BY <1>1, <1>2, <1>3, <1>4, <1>5, <1>6, <1>7, <1>8, <1>9, <1>10, <1>11, <1>12, <1>13, <1>14,
     <1>15, <1>16, <1>17, <1>18, <1>19, <1>20, <1>21, <1>22, <1>23, <1>24, <1>25, <1>26, <1>27,
     <1>28, <1>29
     DEF Next, Producer, Consumer

(* A later date at the end of increasing dates. *)
LEMMA AppendLater ==
  ASSUME NEW q \in Seq(Nat), Increasing(q), NEW d \in Nat, \A e \in Range(q) : e < d
  PROVE  Increasing(Append(q, d)) /\ Range(Append(q, d)) = Range(q) \cup {d}
<1>. DEFINE a == Append(q, d)
<1>1. a \in Seq(Nat) /\ Len(a) = Len(q) + 1 /\ Len(q) \in Nat
  BY LenProperties
<1>2. DOMAIN a = 1..Len(a) /\ DOMAIN q = 1..Len(q)
  BY <1>1, LenProperties
<1>3. \A k \in DOMAIN q : a[k] = q[k] /\ q[k] < d
  BY <1>2 DEF Range
<1>4. a[Len(q) + 1] = d /\ DOMAIN a = DOMAIN q \cup {Len(q) + 1}
  BY <1>1, <1>2
<1>5. Increasing(a)
  BY <1>1, <1>2, <1>3, <1>4 DEF Increasing
<1>6. Range(a) = Range(q) \cup {d}
  BY <1>3, <1>4 DEF Range
<1>. QED  BY <1>5, <1>6

(* What is left of increasing dates when the first one is taken. *)
LEMMA TakeFirst ==
  ASSUME NEW q \in Seq(Nat), Increasing(q), q # <<>>
  PROVE  /\ Head(q) \in Range(q) /\ Head(q) \in Nat /\ Increasing(Tail(q))
         /\ Range(Tail(q)) = Range(q) \ {Head(q)}
         /\ \A e \in Range(Tail(q)) : Head(q) < e
<1>. DEFINE t == Tail(q)
<1>1. t \in Seq(Nat) /\ Len(t) = Len(q) - 1 /\ \A k \in 1..Len(t) : t[k] = q[k + 1]
  BY HeadTailProperties
<1>2. DOMAIN t = 1..Len(t) /\ DOMAIN q = 1..Len(q) /\ Len(q) \in Nat /\ Len(t) \in Nat
  BY <1>1, LenProperties
<1>3. Len(q) >= 1
  BY <1>2, EmptySeq
<1>4. Head(q) = q[1] /\ 1 \in DOMAIN q /\ q[1] \in Nat
  BY <1>2, <1>3, ElementOfSeq
<1>5. \A k \in DOMAIN t : k + 1 \in DOMAIN q /\ t[k] = q[k + 1] /\ Head(q) < t[k]
  <2>. SUFFICES ASSUME NEW k \in DOMAIN t
                PROVE  k + 1 \in DOMAIN q /\ t[k] = q[k + 1] /\ q[1] < q[k + 1]
    BY <1>4
  <2>1. k \in Nat /\ k + 1 \in DOMAIN q /\ t[k] = q[k + 1] /\ 1 < k + 1
    BY <1>1, <1>2
  <2>. QED  BY <1>4, <2>1 DEF Increasing
<1>6. \A k \in DOMAIN q : k = 1 \/ (k - 1 \in DOMAIN t /\ q[k] = t[k - 1])
  BY <1>1, <1>2
<1>7. Increasing(t)
  <2>. SUFFICES ASSUME NEW j \in DOMAIN t, NEW k \in DOMAIN t, j < k
                PROVE  t[j] < t[k]
    BY DEF Increasing
  <2>1. j + 1 \in DOMAIN q /\ k + 1 \in DOMAIN q /\ j + 1 < k + 1
    BY <1>2, <1>5
  <2>. QED  BY <1>5, <2>1 DEF Increasing
<1>8. \A k \in DOMAIN t : t[k] \in Nat
  BY <1>1, <1>2, ElementOfSeq
<1>9. \A e \in Range(t) : Head(q) < e /\ e \in Range(q)
  BY <1>5 DEF Range
<1>10. \A e \in Range(q) : e = Head(q) \/ e \in Range(t)
  <2>. SUFFICES ASSUME NEW k \in DOMAIN q PROVE q[k] = Head(q) \/ q[k] \in Range(t)
    BY DEF Range
  <2>1. CASE k = 1
    BY <1>4, <2>1
  <2>2. CASE k - 1 \in DOMAIN t /\ q[k] = t[k - 1]
    BY <2>2 DEF Range
  <2>. QED  BY <1>6, <2>1, <2>2
<1>11. Head(q) \notin Range(t)
  BY <1>4, <1>9
<1>12. Range(t) = Range(q) \ {Head(q)}
  BY <1>9, <1>10, <1>11
<1>. QED  BY <1>4, <1>7, <1>9, <1>12 DEF Range

(* One date, or none. *)
LEMMA ShortRange ==
  /\ Range(<<>>) = {}
  /\ \A d : Range(<<d>>) = {d} /\ Increasing(<<d>>) /\ Len(<<d>>) = 1
  /\ \A q \in Seq(Nat) : q # <<>> /\ Len(q) <= 1 => Range(q) = {Head(q)}
<1>1. Range(<<>>) = {}
  BY DEF Range
<1>2. ASSUME NEW d PROVE Range(<<d>>) = {d} /\ Increasing(<<d>>) /\ Len(<<d>>) = 1
  BY DEF Range, Increasing
<1>3. ASSUME NEW q \in Seq(Nat), q # <<>>, Len(q) <= 1 PROVE Range(q) = {Head(q)}
  <2>1. Len(q) \in Nat /\ DOMAIN q = 1..Len(q) /\ Len(q) # 0
    BY <1>3, LenProperties, EmptySeq
  <2>2. DOMAIN q = 1..1 /\ Head(q) = q[1]
    BY <1>3, <2>1
  <2>. QED  BY <2>2 DEF Range
<1>. QED  BY <1>1, <1>2, <1>3

(* Dates are natural numbers. *)
LEMMA DatesAreNumbers ==
  ASSUME DateType, PcType
  PROVE  /\ \A s \in Producers : chan[s] \in Seq(Nat) /\ \A d \in Stored(s) : d \in Nat \ {0}
         /\ \A c \in Consumers : shown[c] \in Seq(Nat) /\ \A d \in Seen(c) : d \in Nat \ {0}
         /\ \A c \in Consumers : Held[c] \in Nat
         /\ clock \in Nat
<1>1. ASSUME NEW q \in Seq(1..LastDate)
      PROVE  q \in Seq(Nat) /\ \A d \in Range(q) : d \in Nat \ {0}
  <2>1. \A k \in DOMAIN q : q[k] \in 1..LastDate
    BY ElementOfSeq, LenProperties
  <2>2. 1..LastDate \subseteq Nat
    BY ConstantsAssumption
  <2>3. q \in Seq(Nat)
    BY <2>2, SeqMonotonic
  <2>. QED  BY <2>1, <2>3, ConstantsAssumption DEF Range
<1>2. \A s \in Producers : chan[s] \in Seq(1..LastDate)
  BY DEF DateType
<1>3. \A c \in Consumers : shown[c] \in Seq(1..LastDate)
  BY DEF DateType
<1>4. clock \in Nat /\ \A c \in Consumers : Held[c] \in Nat
  BY ConstantsAssumption DEF DateType, Held
<1>. QED  BY <1>1, <1>2, <1>3, <1>4 DEF Stored, Seen

(* What becomes of a process that has looked at a date. *)
StillErasing(c) ==
  \/ c \in inside' /\ id'[c] = id[c] /\ pc'[c] \in Erasing
  \/ chan' = [chan EXCEPT ![id[c]] = <<>>]

ComesToClear(c) == (At(c, "clear") \/ Look(c)) /\ id'[c] = id[c] /\ c \in inside

(* Who has looked at a date stays inside, until it erases the date. *)
LEMMA StaysInside ==
  ASSUME PcType, HandleType, SetType, Roles, LockPlaces, NEW c \in inside, pc[c] \in Erasing,
         [Next]_vars
  PROVE  StillErasing(c)
<1> USE DEF At, Goto, Exit, objects, input, output, Alive, Erasing, StillErasing
<1>1. ASSUME NEW p \in Proc, Start(p) PROVE StillErasing(c)
  BY <1>1 DEF Start, Move, PcType, HandleType, SetType, Roles, LockPlaces
<1>2. ASSUME NEW p \in Proc, Find(p) PROVE StillErasing(c)
  BY <1>2 DEF Find, PcType, HandleType, SetType, Roles, LockPlaces
<1>3. ASSUME NEW p \in Proc, RemoveFound(p) PROVE StillErasing(c)
  BY <1>3 DEF RemoveFound, SysvRemove, PcType, HandleType, SetType, Roles, LockPlaces
<1>4. ASSUME NEW p \in Proc, MqUnlink(p) PROVE StillErasing(c)
  BY <1>4 DEF MqUnlink, PcType, HandleType, SetType, Roles, LockPlaces
<1>5. ASSUME NEW p \in Proc, Create(p) PROVE StillErasing(c)
  BY <1>5 DEF Create, Fail, PcType, HandleType, SetType, Roles, LockPlaces
<1>6. ASSUME NEW p \in Proc, Assign(p) PROVE StillErasing(c)
  BY <1>6 DEF Assign, PcType, HandleType, SetType, Roles, LockPlaces
<1>7. ASSUME NEW p \in Proc, Attach(p) PROVE StillErasing(c)
  BY <1>7 DEF Attach, Fail, PcType, HandleType, SetType, Roles, LockPlaces
<1>8. ASSUME NEW p \in Proc, SemInit(p) PROVE StillErasing(c)
  BY <1>8 DEF SemInit, PcType, HandleType, SetType, Roles, LockPlaces
<1>9. ASSUME NEW p \in Proc, Reset(p) PROVE StillErasing(c)
  BY <1>9 DEF Reset, PcType, HandleType, SetType, Roles, LockPlaces
<1>10. ASSUME NEW p \in Proc, P(p, "send", "write") PROVE StillErasing(c)
  BY <1>10 DEF P, PcType, HandleType, SetType, Roles, LockPlaces
<1>11. ASSUME NEW p \in Proc, WriteDate(p) PROVE StillErasing(c)
  BY <1>11 DEF WriteDate, Date, PcType, HandleType, SetType, Roles, LockPlaces
<1>12. ASSUME NEW p \in Proc, V(p) PROVE StillErasing(c)
  BY <1>12 DEF V, PcType, HandleType, SetType, Roles, LockPlaces
<1>13. ASSUME NEW p \in Proc, MsgSnd(p) PROVE StillErasing(c)
  BY <1>13 DEF MsgSnd, Date, Fail, PcType, HandleType, SetType, Roles, LockPlaces
<1>14. ASSUME NEW p \in Proc, MqSend(p) PROVE StillErasing(c)
  BY <1>14 DEF MqSend, Date, PcType, HandleType, SetType, Roles, LockPlaces
<1>15. ASSUME NEW p \in Proc, HandlerSysv(p) PROVE StillErasing(c)
  BY <1>15 DEF HandlerSysv, SysvRemove, Gone, PcType, HandleType, SetType, Roles, LockPlaces
<1>16. ASSUME NEW p \in Proc, HandlerMq(p) PROVE StillErasing(c)
  BY <1>16 DEF HandlerMq, PcType, HandleType, SetType, Roles, LockPlaces
<1>17. ASSUME NEW p \in Proc, Get(p) PROVE StillErasing(c)
  BY <1>17 DEF Get, Fail, PcType, HandleType, SetType, Roles, LockPlaces
<1>18. ASSUME NEW p \in Proc, P(p, "recv", "look") PROVE StillErasing(c)
  BY <1>18 DEF P, PcType, HandleType, SetType, Roles, LockPlaces
<1>19. ASSUME NEW p \in Proc, Look(p) PROVE StillErasing(c)
  BY <1>19 DEF Look, PcType, HandleType, SetType, Roles, LockPlaces
<1>20. ASSUME NEW p \in Proc, Clear(p) PROVE StillErasing(c)
  BY <1>20 DEF Clear, PcType, HandleType, SetType, Roles, LockPlaces
<1>21. ASSUME NEW p \in Proc, MsgRcv(p) PROVE StillErasing(c)
  BY <1>21 DEF MsgRcv, Receive, Fail, PcType, HandleType, SetType, Roles, LockPlaces
<1>22. ASSUME NEW p \in Proc, MqReceive(p) PROVE StillErasing(c)
  BY <1>22 DEF MqReceive, Receive, PcType, HandleType, SetType, Roles, LockPlaces
<1>23. ASSUME NEW p \in Proc, HandlerConsumer(p) PROVE StillErasing(c)
  BY <1>23 DEF HandlerConsumer, PcType, HandleType, SetType, Roles, LockPlaces
<1>24. ASSUME NEW p \in Proc, Prompt(p) PROVE StillErasing(c)
  BY <1>24 DEF Prompt, PcType, HandleType, SetType, Roles, LockPlaces
<1>25. ASSUME NEW p \in Proc, UnshareFails(p) PROVE StillErasing(c)
  BY <1>25 DEF UnshareFails, Fail, PcType, HandleType, SetType, Roles, LockPlaces
<1>26. ASSUME NEW p \in Proc, Interrupt(p) PROVE StillErasing(c)
  BY <1>26 DEF Interrupt, PcType, HandleType, SetType, Roles, LockPlaces
<1>27. ASSUME NEW p \in Proc, Kill(p) PROVE StillErasing(c)
  BY <1>27 DEF Kill, PcType, HandleType, SetType, Roles, LockPlaces
<1>28. ASSUME NEW p \in Proc, Display(p) PROVE StillErasing(c)
  BY <1>28 DEF Display, PcType, HandleType, SetType, Roles, LockPlaces
<1>29. CASE UNCHANGED vars
  BY <1>29 DEF vars
<1> HIDE DEF At, Goto, Exit, objects, input, output, Alive, Erasing, StillErasing
<1>. QED
  BY <1>1, <1>2, <1>3, <1>4, <1>5, <1>6, <1>7, <1>8, <1>9, <1>10, <1>11, <1>12, <1>13, <1>14,
     <1>15, <1>16, <1>17, <1>18, <1>19, <1>20, <1>21, <1>22, <1>23, <1>24, <1>25, <1>26,
     <1>27, <1>28, <1>29
     DEF Next, Producer, Consumer

(* A consumer gets to the place where it erases by looking. *)
LEMMA ClearingSteps ==
  ASSUME PcType, HandleType, SetType, Roles, LockPlaces, NEW c \in Proc, At(c, "clear")',
         [Next]_vars
  PROVE  ComesToClear(c)
<1> USE DEF At, Goto, Exit, objects, input, output, Alive, ComesToClear
<1>1. ASSUME NEW p \in Proc, Start(p) PROVE ComesToClear(c)
  BY <1>1 DEF Start, Move, PcType, HandleType, SetType, Roles, LockPlaces
<1>2. ASSUME NEW p \in Proc, Find(p) PROVE ComesToClear(c)
  BY <1>2 DEF Find, PcType, HandleType, SetType, Roles, LockPlaces
<1>3. ASSUME NEW p \in Proc, RemoveFound(p) PROVE ComesToClear(c)
  BY <1>3 DEF RemoveFound, SysvRemove, PcType, HandleType, SetType, Roles, LockPlaces
<1>4. ASSUME NEW p \in Proc, MqUnlink(p) PROVE ComesToClear(c)
  BY <1>4 DEF MqUnlink, PcType, HandleType, SetType, Roles, LockPlaces
<1>5. ASSUME NEW p \in Proc, Create(p) PROVE ComesToClear(c)
  BY <1>5 DEF Create, Fail, PcType, HandleType, SetType, Roles, LockPlaces
<1>6. ASSUME NEW p \in Proc, Assign(p) PROVE ComesToClear(c)
  BY <1>6 DEF Assign, PcType, HandleType, SetType, Roles, LockPlaces
<1>7. ASSUME NEW p \in Proc, Attach(p) PROVE ComesToClear(c)
  BY <1>7 DEF Attach, Fail, PcType, HandleType, SetType, Roles, LockPlaces
<1>8. ASSUME NEW p \in Proc, SemInit(p) PROVE ComesToClear(c)
  BY <1>8 DEF SemInit, PcType, HandleType, SetType, Roles, LockPlaces
<1>9. ASSUME NEW p \in Proc, Reset(p) PROVE ComesToClear(c)
  BY <1>9 DEF Reset, PcType, HandleType, SetType, Roles, LockPlaces
<1>10. ASSUME NEW p \in Proc, P(p, "send", "write") PROVE ComesToClear(c)
  BY <1>10 DEF P, PcType, HandleType, SetType, Roles, LockPlaces
<1>11. ASSUME NEW p \in Proc, WriteDate(p) PROVE ComesToClear(c)
  BY <1>11 DEF WriteDate, Date, PcType, HandleType, SetType, Roles, LockPlaces
<1>12. ASSUME NEW p \in Proc, V(p) PROVE ComesToClear(c)
  BY <1>12 DEF V, PcType, HandleType, SetType, Roles, LockPlaces
<1>13. ASSUME NEW p \in Proc, MsgSnd(p) PROVE ComesToClear(c)
  BY <1>13 DEF MsgSnd, Date, Fail, PcType, HandleType, SetType, Roles, LockPlaces
<1>14. ASSUME NEW p \in Proc, MqSend(p) PROVE ComesToClear(c)
  BY <1>14 DEF MqSend, Date, PcType, HandleType, SetType, Roles, LockPlaces
<1>15. ASSUME NEW p \in Proc, HandlerSysv(p) PROVE ComesToClear(c)
  BY <1>15 DEF HandlerSysv, SysvRemove, Gone, PcType, HandleType, SetType, Roles, LockPlaces
<1>16. ASSUME NEW p \in Proc, HandlerMq(p) PROVE ComesToClear(c)
  BY <1>16 DEF HandlerMq, PcType, HandleType, SetType, Roles, LockPlaces
<1>17. ASSUME NEW p \in Proc, Get(p) PROVE ComesToClear(c)
  BY <1>17 DEF Get, Fail, PcType, HandleType, SetType, Roles, LockPlaces
<1>18. ASSUME NEW p \in Proc, P(p, "recv", "look") PROVE ComesToClear(c)
  BY <1>18 DEF P, PcType, HandleType, SetType, Roles, LockPlaces
<1>19. ASSUME NEW p \in Proc, Look(p) PROVE ComesToClear(c)
  BY <1>19 DEF Look, PcType, HandleType, SetType, Roles, LockPlaces
<1>20. ASSUME NEW p \in Proc, Clear(p) PROVE ComesToClear(c)
  BY <1>20 DEF Clear, PcType, HandleType, SetType, Roles, LockPlaces
<1>21. ASSUME NEW p \in Proc, MsgRcv(p) PROVE ComesToClear(c)
  BY <1>21 DEF MsgRcv, Receive, Fail, PcType, HandleType, SetType, Roles, LockPlaces
<1>22. ASSUME NEW p \in Proc, MqReceive(p) PROVE ComesToClear(c)
  BY <1>22 DEF MqReceive, Receive, PcType, HandleType, SetType, Roles, LockPlaces
<1>23. ASSUME NEW p \in Proc, HandlerConsumer(p) PROVE ComesToClear(c)
  BY <1>23 DEF HandlerConsumer, PcType, HandleType, SetType, Roles, LockPlaces
<1>24. ASSUME NEW p \in Proc, Prompt(p) PROVE ComesToClear(c)
  BY <1>24 DEF Prompt, PcType, HandleType, SetType, Roles, LockPlaces
<1>25. ASSUME NEW p \in Proc, UnshareFails(p) PROVE ComesToClear(c)
  BY <1>25 DEF UnshareFails, Fail, PcType, HandleType, SetType, Roles, LockPlaces
<1>26. ASSUME NEW p \in Proc, Interrupt(p) PROVE ComesToClear(c)
  BY <1>26 DEF Interrupt, PcType, HandleType, SetType, Roles, LockPlaces
<1>27. ASSUME NEW p \in Proc, Kill(p) PROVE ComesToClear(c)
  BY <1>27 DEF Kill, PcType, HandleType, SetType, Roles, LockPlaces
<1>28. ASSUME NEW p \in Proc, Display(p) PROVE ComesToClear(c)
  BY <1>28 DEF Display, PcType, HandleType, SetType, Roles, LockPlaces
<1>29. CASE UNCHANGED vars
  BY <1>29 DEF vars, LockPlaces
<1> HIDE DEF At, Goto, Exit, objects, input, output, Alive, ComesToClear
<1>. QED
  BY <1>1, <1>2, <1>3, <1>4, <1>5, <1>6, <1>7, <1>8, <1>9, <1>10, <1>11, <1>12, <1>13, <1>14,
     <1>15, <1>16, <1>17, <1>18, <1>19, <1>20, <1>21, <1>22, <1>23, <1>24, <1>25, <1>26,
     <1>27, <1>28, <1>29
     DEF Next, Producer, Consumer

(* Only the program with a segment goes to its places. *)
LEMMA SegmentsKept ==
  ASSUME PcType, Roles, OnlySegments, [Next]_vars
  PROVE  OnlySegments'
<1> USE DEF At, Goto, Exit, objects, input, output, Alive
<1>1. ASSUME NEW p \in Proc, Start(p) PROVE OnlySegments'
  BY <1>1 DEF Start, Move, PcType, Roles, OnlySegments
<1>2. ASSUME NEW p \in Proc, Find(p) PROVE OnlySegments'
  BY <1>2 DEF Find, PcType, Roles, OnlySegments
<1>3. ASSUME NEW p \in Proc, RemoveFound(p) PROVE OnlySegments'
  BY <1>3 DEF RemoveFound, SysvRemove, PcType, Roles, OnlySegments
<1>4. ASSUME NEW p \in Proc, MqUnlink(p) PROVE OnlySegments'
  BY <1>4 DEF MqUnlink, PcType, Roles, OnlySegments
<1>5. ASSUME NEW p \in Proc, Create(p) PROVE OnlySegments'
  BY <1>5 DEF Create, Fail, PcType, Roles, OnlySegments
<1>6. ASSUME NEW p \in Proc, Assign(p) PROVE OnlySegments'
  BY <1>6 DEF Assign, PcType, Roles, OnlySegments
<1>7. ASSUME NEW p \in Proc, Attach(p) PROVE OnlySegments'
  BY <1>7 DEF Attach, Fail, PcType, Roles, OnlySegments
<1>8. ASSUME NEW p \in Proc, SemInit(p) PROVE OnlySegments'
  BY <1>8 DEF SemInit, PcType, Roles, OnlySegments
<1>9. ASSUME NEW p \in Proc, Reset(p) PROVE OnlySegments'
  BY <1>9 DEF Reset, PcType, Roles, OnlySegments
<1>10. ASSUME NEW p \in Proc, P(p, "send", "write") PROVE OnlySegments'
  BY <1>10 DEF P, PcType, Roles, OnlySegments
<1>11. ASSUME NEW p \in Proc, WriteDate(p) PROVE OnlySegments'
  BY <1>11 DEF WriteDate, Date, PcType, Roles, OnlySegments
<1>12. ASSUME NEW p \in Proc, V(p) PROVE OnlySegments'
  BY <1>12 DEF V, PcType, Roles, OnlySegments
<1>13. ASSUME NEW p \in Proc, MsgSnd(p) PROVE OnlySegments'
  BY <1>13 DEF MsgSnd, Date, Fail, PcType, Roles, OnlySegments
<1>14. ASSUME NEW p \in Proc, MqSend(p) PROVE OnlySegments'
  BY <1>14 DEF MqSend, Date, PcType, Roles, OnlySegments
<1>15. ASSUME NEW p \in Proc, HandlerSysv(p) PROVE OnlySegments'
  BY <1>15 DEF HandlerSysv, SysvRemove, Gone, PcType, Roles, OnlySegments
<1>16. ASSUME NEW p \in Proc, HandlerMq(p) PROVE OnlySegments'
  BY <1>16 DEF HandlerMq, PcType, Roles, OnlySegments
<1>17. ASSUME NEW p \in Proc, Get(p) PROVE OnlySegments'
  BY <1>17 DEF Get, Fail, PcType, Roles, OnlySegments
<1>18. ASSUME NEW p \in Proc, P(p, "recv", "look") PROVE OnlySegments'
  BY <1>18 DEF P, PcType, Roles, OnlySegments
<1>19. ASSUME NEW p \in Proc, Look(p) PROVE OnlySegments'
  BY <1>19 DEF Look, PcType, Roles, OnlySegments
<1>20. ASSUME NEW p \in Proc, Clear(p) PROVE OnlySegments'
  BY <1>20 DEF Clear, PcType, Roles, OnlySegments
<1>21. ASSUME NEW p \in Proc, MsgRcv(p) PROVE OnlySegments'
  BY <1>21 DEF MsgRcv, Receive, Fail, PcType, Roles, OnlySegments
<1>22. ASSUME NEW p \in Proc, MqReceive(p) PROVE OnlySegments'
  BY <1>22 DEF MqReceive, Receive, PcType, Roles, OnlySegments
<1>23. ASSUME NEW p \in Proc, HandlerConsumer(p) PROVE OnlySegments'
  BY <1>23 DEF HandlerConsumer, PcType, Roles, OnlySegments
<1>24. ASSUME NEW p \in Proc, Prompt(p) PROVE OnlySegments'
  BY <1>24 DEF Prompt, PcType, Roles, OnlySegments
<1>25. ASSUME NEW p \in Proc, UnshareFails(p) PROVE OnlySegments'
  BY <1>25 DEF UnshareFails, Fail, PcType, Roles, OnlySegments
<1>26. ASSUME NEW p \in Proc, Interrupt(p) PROVE OnlySegments'
  BY <1>26 DEF Interrupt, PcType, Roles, OnlySegments
<1>27. ASSUME NEW p \in Proc, Kill(p) PROVE OnlySegments'
  BY <1>27 DEF Kill, PcType, Roles, OnlySegments
<1>28. ASSUME NEW p \in Proc, Display(p) PROVE OnlySegments'
  BY <1>28 DEF Display, PcType, Roles, OnlySegments
<1>29. CASE UNCHANGED vars
  BY <1>29 DEF vars, OnlySegments
<1> HIDE DEF At, Goto, Exit, objects, input, output, Alive
<1>. QED
  BY <1>1, <1>2, <1>3, <1>4, <1>5, <1>6, <1>7, <1>8, <1>9, <1>10, <1>11, <1>12, <1>13, <1>14,
     <1>15, <1>16, <1>17, <1>18, <1>19, <1>20, <1>21, <1>22, <1>23, <1>24, <1>25, <1>26,
     <1>27, <1>28, <1>29
     DEF Next, Producer, Consumer

(* Nothing is put in an object before its producer is in its loop. *)
LEMMA EmptyBefore ==
  ASSUME PcType, HandleType, SetType, Roles, LockPlaces, DateType, EmptyAtStart, [Next]_vars
  PROVE  EmptyAtStart'
<1> USE DEF At, Goto, Exit, objects, input, output, Alive, Starting, BeforeInit
<1>1. ASSUME NEW p \in Proc, Start(p) PROVE EmptyAtStart'
  BY <1>1, ConstantsAssumption DEF Start, Move, PcType, HandleType, SetType, Roles,
     LockPlaces, DateType, EmptyAtStart, Proc
<1>2. ASSUME NEW p \in Proc, Find(p) PROVE EmptyAtStart'
  BY <1>2, ConstantsAssumption DEF Find, PcType, HandleType, SetType, Roles, LockPlaces,
     DateType, EmptyAtStart, Proc
<1>3. ASSUME NEW p \in Proc, RemoveFound(p) PROVE EmptyAtStart'
  BY <1>3, ConstantsAssumption DEF RemoveFound, SysvRemove, PcType, HandleType, SetType,
     Roles, LockPlaces, DateType, EmptyAtStart, Proc
<1>4. ASSUME NEW p \in Proc, MqUnlink(p) PROVE EmptyAtStart'
  BY <1>4, ConstantsAssumption DEF MqUnlink, PcType, HandleType, SetType, Roles, LockPlaces,
     DateType, EmptyAtStart, Proc
<1>5. ASSUME NEW p \in Proc, Create(p) PROVE EmptyAtStart'
  BY <1>5, ConstantsAssumption DEF Create, Fail, PcType, HandleType, SetType, Roles,
     LockPlaces, DateType, EmptyAtStart, Proc
<1>6. ASSUME NEW p \in Proc, Assign(p) PROVE EmptyAtStart'
  BY <1>6, ConstantsAssumption DEF Assign, PcType, HandleType, SetType, Roles, LockPlaces,
     DateType, EmptyAtStart, Proc
<1>7. ASSUME NEW p \in Proc, Attach(p) PROVE EmptyAtStart'
  BY <1>7, ConstantsAssumption DEF Attach, Fail, PcType, HandleType, SetType, Roles,
     LockPlaces, DateType, EmptyAtStart, Proc
<1>8. ASSUME NEW p \in Proc, SemInit(p) PROVE EmptyAtStart'
  BY <1>8, ConstantsAssumption DEF SemInit, PcType, HandleType, SetType, Roles, LockPlaces,
     DateType, EmptyAtStart, Proc
<1>9. ASSUME NEW p \in Proc, Reset(p) PROVE EmptyAtStart'
  BY <1>9, ConstantsAssumption DEF Reset, PcType, HandleType, SetType, Roles, LockPlaces,
     DateType, EmptyAtStart, Proc
<1>10. ASSUME NEW p \in Proc, P(p, "send", "write") PROVE EmptyAtStart'
  BY <1>10, ConstantsAssumption DEF P, PcType, HandleType, SetType, Roles, LockPlaces,
     DateType, EmptyAtStart, Proc
<1>11. ASSUME NEW p \in Proc, WriteDate(p) PROVE EmptyAtStart'
  BY <1>11, ConstantsAssumption DEF WriteDate, Date, PcType, HandleType, SetType, Roles,
     LockPlaces, DateType, EmptyAtStart, Proc
<1>12. ASSUME NEW p \in Proc, V(p) PROVE EmptyAtStart'
  BY <1>12, ConstantsAssumption DEF V, PcType, HandleType, SetType, Roles, LockPlaces,
     DateType, EmptyAtStart, Proc
<1>13. ASSUME NEW p \in Proc, MsgSnd(p) PROVE EmptyAtStart'
  BY <1>13, ConstantsAssumption DEF MsgSnd, Date, Fail, PcType, HandleType, SetType, Roles,
     LockPlaces, DateType, EmptyAtStart, Proc
<1>14. ASSUME NEW p \in Proc, MqSend(p) PROVE EmptyAtStart'
  BY <1>14, ConstantsAssumption DEF MqSend, Date, PcType, HandleType, SetType, Roles,
     LockPlaces, DateType, EmptyAtStart, Proc
<1>15. ASSUME NEW p \in Proc, HandlerSysv(p) PROVE EmptyAtStart'
  BY <1>15, ConstantsAssumption DEF HandlerSysv, SysvRemove, Gone, PcType, HandleType,
     SetType, Roles, LockPlaces, DateType, EmptyAtStart, Proc
<1>16. ASSUME NEW p \in Proc, HandlerMq(p) PROVE EmptyAtStart'
  BY <1>16, ConstantsAssumption DEF HandlerMq, PcType, HandleType, SetType, Roles, LockPlaces,
     DateType, EmptyAtStart, Proc
<1>17. ASSUME NEW p \in Proc, Get(p) PROVE EmptyAtStart'
  BY <1>17, ConstantsAssumption DEF Get, Fail, PcType, HandleType, SetType, Roles, LockPlaces,
     DateType, EmptyAtStart, Proc
<1>18. ASSUME NEW p \in Proc, P(p, "recv", "look") PROVE EmptyAtStart'
  BY <1>18, ConstantsAssumption DEF P, PcType, HandleType, SetType, Roles, LockPlaces,
     DateType, EmptyAtStart, Proc
<1>19. ASSUME NEW p \in Proc, Look(p) PROVE EmptyAtStart'
  BY <1>19, ConstantsAssumption DEF Look, PcType, HandleType, SetType, Roles, LockPlaces,
     DateType, EmptyAtStart, Proc
<1>20. ASSUME NEW p \in Proc, Clear(p) PROVE EmptyAtStart'
  BY <1>20, ConstantsAssumption DEF Clear, PcType, HandleType, SetType, Roles, LockPlaces,
     DateType, EmptyAtStart, Proc
<1>21. ASSUME NEW p \in Proc, MsgRcv(p) PROVE EmptyAtStart'
  BY <1>21, ConstantsAssumption DEF MsgRcv, Receive, Fail, PcType, HandleType, SetType,
     Roles, LockPlaces, DateType, EmptyAtStart, Proc
<1>22. ASSUME NEW p \in Proc, MqReceive(p) PROVE EmptyAtStart'
  BY <1>22, ConstantsAssumption DEF MqReceive, Receive, PcType, HandleType, SetType, Roles,
     LockPlaces, DateType, EmptyAtStart, Proc
<1>23. ASSUME NEW p \in Proc, HandlerConsumer(p) PROVE EmptyAtStart'
  BY <1>23, ConstantsAssumption DEF HandlerConsumer, PcType, HandleType, SetType, Roles,
     LockPlaces, DateType, EmptyAtStart, Proc
<1>24. ASSUME NEW p \in Proc, Prompt(p) PROVE EmptyAtStart'
  BY <1>24, ConstantsAssumption DEF Prompt, PcType, HandleType, SetType, Roles, LockPlaces,
     DateType, EmptyAtStart, Proc
<1>25. ASSUME NEW p \in Proc, UnshareFails(p) PROVE EmptyAtStart'
  BY <1>25, ConstantsAssumption DEF UnshareFails, Fail, PcType, HandleType, SetType, Roles,
     LockPlaces, DateType, EmptyAtStart, Proc
<1>26. ASSUME NEW p \in Proc, Interrupt(p) PROVE EmptyAtStart'
  BY <1>26, ConstantsAssumption DEF Interrupt, PcType, HandleType, SetType, Roles, LockPlaces,
     DateType, EmptyAtStart, Proc
<1>27. ASSUME NEW p \in Proc, Kill(p) PROVE EmptyAtStart'
  BY <1>27, ConstantsAssumption DEF Kill, PcType, HandleType, SetType, Roles, LockPlaces,
     DateType, EmptyAtStart, Proc
<1>28. ASSUME NEW p \in Proc, Display(p) PROVE EmptyAtStart'
  BY <1>28, ConstantsAssumption DEF Display, PcType, HandleType, SetType, Roles, LockPlaces,
     DateType, EmptyAtStart, Proc
<1>29. CASE UNCHANGED vars
  BY <1>29 DEF vars, EmptyAtStart
<1> HIDE DEF At, Goto, Exit, objects, input, output, Alive, Starting, BeforeInit
<1>. QED
  BY <1>1, <1>2, <1>3, <1>4, <1>5, <1>6, <1>7, <1>8, <1>9, <1>10, <1>11, <1>12, <1>13, <1>14,
     <1>15, <1>16, <1>17, <1>18, <1>19, <1>20, <1>21, <1>22, <1>23, <1>24, <1>25, <1>26,
     <1>27, <1>28, <1>29
     DEF Next, Producer, Consumer

(* A consumer gets its object in its first step. *)
LEMMA OpenedOnceKept ==
  ASSUME PcType, HandleType, DateType, Roles, LockPlaces, OpenedOnce, [Next]_vars
  PROVE  OpenedOnce'
<1> USE ConstantsAssumption DEF At, Goto, Exit, objects, input, output, Alive, Proc, PcType,
                                HandleType, Roles, Starting, OpenedOnce
<1>1. ASSUME NEW p \in Proc, Start(p) PROVE OpenedOnce'
  BY <1>1 DEF Start, Move
<1>2. ASSUME NEW p \in Proc, Find(p) PROVE OpenedOnce'
  BY <1>2 DEF Find
<1>3. ASSUME NEW p \in Proc, RemoveFound(p) PROVE OpenedOnce'
  BY <1>3 DEF RemoveFound, SysvRemove
<1>4. ASSUME NEW p \in Proc, MqUnlink(p) PROVE OpenedOnce'
  BY <1>4 DEF MqUnlink
<1>5. ASSUME NEW p \in Proc, Create(p) PROVE OpenedOnce'
  BY <1>5 DEF Create, Fail
<1>6. ASSUME NEW p \in Proc, Assign(p) PROVE OpenedOnce'
  BY <1>6 DEF Assign
<1>7. ASSUME NEW p \in Proc, Attach(p) PROVE OpenedOnce'
  BY <1>7 DEF Attach, Fail
<1>8. ASSUME NEW p \in Proc, SemInit(p) PROVE OpenedOnce'
  BY <1>8 DEF SemInit
<1>9. ASSUME NEW p \in Proc, Reset(p) PROVE OpenedOnce'
  BY <1>9 DEF Reset
<1>10. ASSUME NEW p \in Proc, P(p, "send", "write") PROVE OpenedOnce'
  BY <1>10 DEF P
<1>11. ASSUME NEW p \in Proc, WriteDate(p) PROVE OpenedOnce'
  BY <1>11 DEF WriteDate, Date
<1>12. ASSUME NEW p \in Proc, V(p) PROVE OpenedOnce'
  BY <1>12 DEF V
<1>13. ASSUME NEW p \in Proc, MsgSnd(p) PROVE OpenedOnce'
  BY <1>13 DEF MsgSnd, Date, Fail
<1>14. ASSUME NEW p \in Proc, MqSend(p) PROVE OpenedOnce'
  BY <1>14 DEF MqSend, Date
<1>15. ASSUME NEW p \in Proc, HandlerSysv(p) PROVE OpenedOnce'
  BY <1>15 DEF HandlerSysv, SysvRemove, Gone
<1>16. ASSUME NEW p \in Proc, HandlerMq(p) PROVE OpenedOnce'
  BY <1>16 DEF HandlerMq
<1>17. ASSUME NEW p \in Proc, Get(p) PROVE OpenedOnce'
  BY <1>17 DEF Get, Fail
<1>18. ASSUME NEW p \in Proc, P(p, "recv", "look") PROVE OpenedOnce'
  BY <1>18 DEF P
<1>19. ASSUME NEW p \in Proc, Look(p) PROVE OpenedOnce'
  BY <1>19 DEF Look, LockPlaces, DateType
<1>20. ASSUME NEW p \in Proc, Clear(p) PROVE OpenedOnce'
  BY <1>20 DEF Clear
<1>21. ASSUME NEW p \in Proc, MsgRcv(p) PROVE OpenedOnce'
  BY <1>21 DEF MsgRcv, Receive, Fail
<1>22. ASSUME NEW p \in Proc, MqReceive(p) PROVE OpenedOnce'
  BY <1>22 DEF MqReceive, Receive
<1>23. ASSUME NEW p \in Proc, HandlerConsumer(p) PROVE OpenedOnce'
  BY <1>23 DEF HandlerConsumer
<1>24. ASSUME NEW p \in Proc, Prompt(p) PROVE OpenedOnce'
  BY <1>24 DEF Prompt
<1>25. ASSUME NEW p \in Proc, UnshareFails(p) PROVE OpenedOnce'
  BY <1>25 DEF UnshareFails, Fail
<1>26. ASSUME NEW p \in Proc, Interrupt(p) PROVE OpenedOnce'
  BY <1>26 DEF Interrupt
<1>27. ASSUME NEW p \in Proc, Kill(p) PROVE OpenedOnce'
  BY <1>27 DEF Kill
<1>28. ASSUME NEW p \in Proc, Display(p) PROVE OpenedOnce'
  BY <1>28 DEF Display
<1>29. CASE UNCHANGED vars
  BY <1>29 DEF vars
<1> HIDE DEF At, Goto, Exit, objects, input, output, Alive, Proc, PcType, HandleType, Roles,
             Starting, OpenedOnce
<1>. QED
  BY <1>1, <1>2, <1>3, <1>4, <1>5, <1>6, <1>7, <1>8, <1>9, <1>10, <1>11, <1>12, <1>13, <1>14,
     <1>15, <1>16, <1>17, <1>18, <1>19, <1>20, <1>21, <1>22, <1>23, <1>24, <1>25, <1>26,
     <1>27, <1>28, <1>29
     DEF Next, Producer, Consumer

(* A date that is being erased still is, or is gone. *)
ErasedLater == \A s \in Producers : BeingErased(s) => BeingErased(s)' \/ chan'[s] = <<>>

LEMMA ErasingKept ==
  ASSUME PcType, HandleType, SetType, DateType, Roles, LockPlaces, kind' = kind, [Next]_vars
  PROVE  ErasedLater
<1>. SUFFICES ASSUME NEW s \in Producers, BeingErased(s)
              PROVE  BeingErased(s)' \/ chan'[s] = <<>>
  BY DEF ErasedLater
<1>1. PICK p \in inside : id[p] = s /\ pc[p] \in Erasing /\ kind = "shm"
  BY DEF BeingErased
<1>2. StillErasing(p)
  BY <1>1, StaysInside
<1>3. CASE p \in inside' /\ id'[p] = id[p] /\ pc'[p] \in Erasing
  BY <1>1, <1>3 DEF BeingErased
<1>4. CASE chan' = [chan EXCEPT ![id[p]] = <<>>]
  BY <1>1, <1>4 DEF DateType
<1>. QED  BY <1>2, <1>3, <1>4 DEF StillErasing

(* The date that is written is the last and the latest. *)
LEMMA WriteForm ==
  ASSUME PcType, DateType, Sorted, Past, NEW s \in Producers, Writes(s)
  PROVE  /\ clock' = clock + 1 /\ clock' \in Nat
         /\ Increasing(chan'[s])
         /\ Stored(s)' = (IF kind = "shm" THEN {} ELSE Stored(s)) \cup {clock'}
         /\ \A r \in Producers : r # s => chan'[r] = chan[r] /\ Stored(r)' = Stored(r)
<1>. DEFINE q == chan[s]
<1>1. clock' = clock + 1 /\ clock' \in Nat
  BY DatesAreNumbers DEF Writes, Date
<1>2. /\ chan'[s] = IF kind = "shm" THEN <<clock'>> ELSE Append(q, clock')
      /\ \A r \in Producers : r # s => chan'[r] = chan[r]
  BY DEF Writes, DateType
<1>3. q \in Seq(Nat) /\ Increasing(q) /\ \A e \in Range(q) : e < clock'
  <2>1. q \in Seq(Nat) /\ Increasing(q)
    BY DatesAreNumbers DEF Sorted
  <2>2. \A e \in Stored(s) : e \in Nat /\ e <= clock /\ clock \in Nat
    BY DatesAreNumbers DEF Past
  <2>3. \A e \in Stored(s) : e < clock'
    BY <1>1, <2>2
  <2>. QED  BY <2>1, <2>3 DEF Stored
<1>. HIDE DEF q
<1>4. Increasing(Append(q, clock')) /\ Range(Append(q, clock')) = Range(q) \cup {clock'}
  BY <1>1, <1>3, AppendLater
<1>5. Range(<<clock'>>) = {clock'} /\ Increasing(<<clock'>>)
  BY ShortRange
<1>6. /\ Increasing(chan'[s])
      /\ Range(chan'[s]) = (IF kind = "shm" THEN {} ELSE Range(q)) \cup {clock'}
  BY <1>2, <1>4, <1>5
<1>. QED  BY <1>1, <1>2, <1>6 DEF Stored, q

(* The date that is looked at is the only one, and goes to one screen. *)
LEMMA LookForm ==
  ASSUME PcType, DateType, Sorted, Behind, OneDate, NEW c \in Consumers, NEW s \in Producers,
         Looks(c, s), NEW d, d = Head(chan[s])
  PROVE  /\ Stored(s) = {d} /\ d \in Nat
         /\ Increasing(shown'[c]) /\ Seen(c)' = Seen(c) \cup {d}
         /\ \A e \in Seen(c) : e < d
         /\ \A b \in Consumers : b # c => shown'[b] = shown[b] /\ Seen(b)' = Seen(b)
<1>1. chan[s] \in Seq(Nat) /\ chan[s] # <<>> /\ Len(chan[s]) <= 1
  BY DatesAreNumbers DEF Looks, OneDate
<1>2. Stored(s) = {d} /\ d \in Nat
  BY <1>1, ShortRange, HeadTailProperties DEF Stored
<1>3. \A e \in Seen(c) : e < d
  BY <1>2 DEF Behind, Looks
<1>4. shown[c] \in Seq(Nat) /\ Increasing(shown[c])
  BY DatesAreNumbers DEF Sorted
<1>5. shown'[c] = Append(shown[c], d) /\ \A b \in Consumers : b # c => shown'[b] = shown[b]
  BY DEF Looks, DateType
<1>6. /\ Increasing(Append(shown[c], d))
      /\ Range(Append(shown[c], d)) = Range(shown[c]) \cup {d}
  BY <1>2, <1>3, <1>4, AppendLater DEF Seen
<1>. QED  BY <1>2, <1>3, <1>5, <1>6 DEF Seen

(* The date that is received leaves the object for one buffer. *)
LEMMA TakeForm ==
  ASSUME PcType, DateType, Sorted, Behind, NEW c \in Consumers, NEW s \in Producers,
         Takes(c, s), NEW d, d = Head(chan[s])
  PROVE  /\ d \in Stored(s) /\ d \in Nat /\ d # 0
         /\ Increasing(chan'[s]) /\ Stored(s)' = Stored(s) \ {d}
         /\ \A e \in Stored(s)' : d < e
         /\ \A e \in Seen(c) : e < d
         /\ \A r \in Producers : r # s => chan'[r] = chan[r] /\ Stored(r)' = Stored(r)
         /\ Held'[c] = d /\ \A b \in Consumers : b # c => Held'[b] = Held[b]
<1>1. chan[s] \in Seq(Nat) /\ chan[s] # <<>> /\ Increasing(chan[s])
  BY DatesAreNumbers DEF Takes, Sorted
<1>2. /\ d \in Stored(s) /\ d \in Nat /\ Increasing(Tail(chan[s]))
      /\ Range(Tail(chan[s])) = Stored(s) \ {d}
      /\ \A e \in Range(Tail(chan[s])) : d < e
  BY <1>1, TakeFirst DEF Stored
<1>3. d # 0 /\ \A e \in Seen(c) : e < d
  <2>1. ~BeingErased(s) /\ Reads[c] = s
    BY DEF BeingErased, Takes
  <2>. QED  BY <1>2, <2>1, DatesAreNumbers DEF Behind
<1>4. chan'[s] = Tail(chan[s]) /\ \A r \in Producers : r # s => chan'[r] = chan[r]
  BY DEF Takes, DateType
<1>5. Held'[c] = d /\ \A b \in Consumers : b # c => Held'[b] = Held[b]
  BY DEF Takes, Held
<1>. QED  BY <1>2, <1>3, <1>4, <1>5 DEF Stored

(* The date that is displayed leaves the buffer for the screen. *)
LEMMA PrintForm ==
  ASSUME PcType, DateType, Sorted, Behind, NEW c \in Consumers, Prints(c)
  PROVE  /\ Increasing(shown'[c]) /\ Seen(c)' = Seen(c) \cup {Held[c]}
         /\ \A e \in Seen(c) : e < Held[c]
         /\ \A b \in Consumers : b # c => shown'[b] = shown[b] /\ Seen(b)' = Seen(b)
         /\ Held'[c] = 0 /\ \A b \in Consumers : b # c => Held'[b] = Held[b]
<1>. DEFINE w == shown[c]
            d == Held[c]
<1>1. w \in Seq(Nat) /\ Increasing(w) /\ d \in Nat /\ \A e \in Range(w) : e < d
  BY DatesAreNumbers DEF Sorted, Behind, Prints, Seen
<1>2. shown'[c] = Append(w, d) /\ \A b \in Consumers : b # c => shown'[b] = shown[b]
  BY DEF Prints, DateType
<1>3. Held'[c] = 0 /\ \A b \in Consumers : b # c => Held'[b] = Held[b]
  BY DEF Prints, Held
<1>. HIDE DEF w, d
<1>4. Increasing(Append(w, d)) /\ Range(Append(w, d)) = Range(w) \cup {d}
  BY <1>1, AppendLater
<1>. QED  BY <1>1, <1>2, <1>3, <1>4 DEF Seen, w, d

Order == Sorted /\ Past /\ Behind /\ Apart

(* A step that displays nothing and moves nothing keeps the order. *)
LEMMA FewerDates ==
  ASSUME PcType, DateType, Order, ErasedLater, clock' = clock, shown' = shown,
         \A s \in Producers : chan'[s] \in {chan[s], <<>>},
         \A c \in Consumers :
           /\ Held'[c] \in {0, Held[c]}
           /\ Reads'[c] = Reads[c] \/ (shown[c] = <<>> /\ Held'[c] = 0)
  PROVE  Order'
<1>1. \A s \in Producers : chan'[s] # chan[s] => Stored(s)' = {} /\ Increasing(chan'[s])
  BY ShortRange DEF Stored, Increasing
<1>2. \A s \in Producers : chan'[s] = chan[s] => Stored(s)' = Stored(s)
  BY DEF Stored
<1>3. \A s \in Producers : \A d \in Stored(s)' :
        d \in Stored(s) /\ (BeingErased(s) => BeingErased(s)')
  <2>1. \A s \in Producers : Stored(s)' # {} => chan'[s] = chan[s] /\ chan'[s] # <<>>
    BY <1>1, ShortRange DEF Stored
  <2>. QED  BY <1>2, <2>1 DEF ErasedLater
<1>4. \A c \in Consumers : Seen(c)' = Seen(c) /\ (shown[c] = <<>> => Seen(c) = {})
  BY ShortRange DEF Seen
<1>5. Sorted'
  BY <1>1 DEF Order, Sorted
<1>6. Past'
  BY <1>3, <1>4, DatesAreNumbers DEF Order, Past
<1>7. Behind'
  <2>1. ASSUME NEW c \in Consumers, Held'[c] # 0, NEW d \in Seen(c)'
        PROVE  d < Held'[c]
    BY <1>4, <2>1 DEF Order, Behind
  <2>2. ASSUME NEW c \in Consumers, NEW s \in Producers, NEW e \in Stored(s)', Reads'[c] = s
        PROVE  Held'[c] < e /\ (BeingErased(s)' \/ \A d \in Seen(c)' : d < e)
    <3>1. e \in Stored(s) /\ (BeingErased(s) => BeingErased(s)') /\ e \in Nat \ {0}
      BY <1>3, DatesAreNumbers
    <3>2. CASE Reads[c] = s
      BY <1>4, <3>1, <3>2 DEF Order, Behind
    <3>3. CASE shown[c] = <<>> /\ Held'[c] = 0
      BY <1>4, <3>1, <3>3
    <3>. QED  BY <2>2, <3>2, <3>3
  <2>. QED  BY <2>1, <2>2 DEF Behind
<1>8. Apart'
  <2>1. ASSUME NEW r \in Producers, NEW s \in Producers, NEW d \in Stored(r)', r # s
        PROVE  d \notin Stored(s)'
    BY <1>3, <2>1 DEF Order, Apart
  <2>2. ASSUME NEW s \in Producers, NEW c \in Consumers, NEW d \in Stored(s)'
        PROVE  d # Held'[c] /\ (BeingErased(s)' \/ d \notin Seen(c)')
    BY <1>3, <1>4, <2>2, DatesAreNumbers DEF Order, Apart
  <2>3. ASSUME NEW b \in Consumers, NEW c \in Consumers, NEW d \in Seen(b)'
        PROVE  d # Held'[c] /\ (b # c => d \notin Seen(c)')
    BY <1>4, <2>3, DatesAreNumbers DEF Order, Apart
  <2>4. ASSUME NEW b \in Consumers, NEW c \in Consumers, b # c, Held'[b] # 0
        PROVE  Held'[b] # Held'[c]
    BY <2>4 DEF Order, Apart
  <2>. QED  BY <2>1, <2>2, <2>3, <2>4 DEF Apart
<1>. QED  BY <1>5, <1>6, <1>7, <1>8 DEF Order

(* A date that a step leaves in its object is still being erased, if it was. *)
LEMMA StillBeingErased ==
  ASSUME ErasedLater, NEW s \in Producers, NEW d \in Stored(s)', BeingErased(s)
  PROVE  BeingErased(s)'
<1>1. chan'[s] # <<>>
  BY ShortRange DEF Stored
<1>. QED  BY <1>1 DEF ErasedLater

(* The date that is written is later than all the others. *)
LEMMA WriteKeepsOrder ==
  ASSUME PcType, DateType, Order, ErasedLater, NEW s \in Producers, Writes(s)
  PROVE  Order'
<1>. USE DEF Order
<1>1. /\ clock' = clock + 1 /\ clock' \in Nat /\ clock \in Nat
      /\ Increasing(chan'[s])
      /\ Stored(s)' = (IF kind = "shm" THEN {} ELSE Stored(s)) \cup {clock'}
      /\ \A r \in Producers : r # s => chan'[r] = chan[r] /\ Stored(r)' = Stored(r)
  BY WriteForm, DatesAreNumbers
<1>2. shown' = shown /\ Held' = Held /\ Reads' = Reads /\ ~BeingErased(s)
      /\ \A c \in Consumers : Seen(c)' = Seen(c)
  BY DEF Writes, Seen
<1>3. \A r \in Producers : \A d \in Stored(r)' :
        (r = s /\ d = clock') \/ (d \in Stored(r) /\ (BeingErased(r) => BeingErased(r)'))
  BY <1>1, StillBeingErased
<1>4. \A r \in Producers : \A d \in Stored(r) : d \in Nat /\ d < clock'
  BY <1>1, DatesAreNumbers DEF Past
<1>5. \A c \in Consumers :
        /\ Held[c] \in Nat /\ Held[c] < clock'
        /\ \A d \in Seen(c) : d \in Nat /\ d < clock'
  BY <1>1, DatesAreNumbers DEF Past
<1>6. Sorted'
  BY <1>1, <1>2 DEF Sorted
<1>7. Past'
  <2>1. \A r \in Producers : \A d \in Stored(r)' : d <= clock'
    BY <1>1, <1>3, <1>4
  <2>2. \A c \in Consumers : Held'[c] <= clock' /\ \A d \in Seen(c)' : d <= clock'
    BY <1>1, <1>2, <1>5
  <2>. QED  BY <2>1, <2>2 DEF Past
<1>8. Behind'
  <2>1. ASSUME NEW c \in Consumers, Held'[c] # 0, NEW d \in Seen(c)'
        PROVE  d < Held'[c]
    BY <1>2, <2>1 DEF Behind
  <2>2. ASSUME NEW c \in Consumers, NEW r \in Producers, NEW e \in Stored(r)', Reads'[c] = r
        PROVE  Held'[c] < e /\ (BeingErased(r)' \/ \A d \in Seen(c)' : d < e)
    <3>1. CASE e = clock'
      BY <1>2, <1>5, <3>1
    <3>2. CASE e \in Stored(r) /\ (BeingErased(r) => BeingErased(r)')
      BY <1>2, <2>2, <3>2 DEF Behind
    <3>. QED  BY <1>3, <3>1, <3>2
  <2>. QED  BY <2>1, <2>2 DEF Behind
<1>9. Apart'
  <2>1. ASSUME NEW r \in Producers, NEW t \in Producers, NEW d \in Stored(r)', r # t
        PROVE  d \notin Stored(t)'
    <3>1. \A u \in Producers : clock' \notin Stored(u)
      BY <1>1, <1>4
    <3>. QED  BY <1>1, <1>3, <2>1, <3>1 DEF Apart
  <2>2. ASSUME NEW r \in Producers, NEW c \in Consumers, NEW d \in Stored(r)'
        PROVE  d # Held'[c] /\ (BeingErased(r)' \/ d \notin Seen(c)')
    <3>1. CASE d = clock'
      <4>. Held[c] # clock' /\ clock' \notin Seen(c)
        BY <1>1, <1>5
      <4>. QED  BY <1>2, <3>1
    <3>2. CASE d \in Stored(r) /\ (BeingErased(r) => BeingErased(r)')
      BY <1>2, <3>2 DEF Apart
    <3>. QED  BY <1>3, <3>1, <3>2
  <2>3. ASSUME NEW b \in Consumers, NEW c \in Consumers, NEW d \in Seen(b)'
        PROVE  d # Held'[c] /\ (b # c => d \notin Seen(c)')
    BY <1>2, <2>3 DEF Apart
  <2>4. ASSUME NEW b \in Consumers, NEW c \in Consumers, b # c, Held'[b] # 0
        PROVE  Held'[b] # Held'[c]
    BY <1>2, <2>4 DEF Apart
  <2>. QED  BY <2>1, <2>2, <2>3, <2>4 DEF Apart
<1>. QED  BY <1>6, <1>7, <1>8, <1>9

(* The date of a segment is displayed by the consumer that is inside, which
   has displayed no later one, and by nobody else. *)
LEMMA LookKeepsOrder ==
  ASSUME PcType, DateType, Order, ErasedLater, OneDate, OnlySegments,
         NEW c \in Consumers, NEW s \in Producers, Looks(c, s)
  PROVE  Order'
<1>. USE DEF Order
<1>. DEFINE d == Head(chan[s])
<1>1. /\ Stored(s) = {d} /\ d \in Nat /\ d # 0
      /\ Increasing(shown'[c]) /\ Seen(c)' = Seen(c) \cup {d}
      /\ \A e \in Seen(c) : e < d
      /\ \A b \in Consumers : b # c => shown'[b] = shown[b] /\ Seen(b)' = Seen(b)
  BY LookForm, DatesAreNumbers
<1>2. /\ chan' = chan /\ clock' = clock /\ Reads' = Reads /\ ~BeingErased(s) /\ BeingErased(s)'
      /\ \A r \in Producers : Stored(r)' = Stored(r)
  BY DEF Looks, Stored
<1>3. \A b \in Consumers : Held[b] = 0 /\ Held'[b] = 0
  BY DEF Looks, OnlySegments, Held, Proc, At
<1>. HIDE DEF d
<1>4. \A r \in Producers : \A e \in Stored(r)' : BeingErased(r) => BeingErased(r)'
  BY StillBeingErased
<1>5. Sorted'
  BY <1>1, <1>2 DEF Sorted
<1>6. Past'
  <2>1. d <= clock
    BY <1>1 DEF Past
  <2>2. \A b \in Consumers : \A e \in Seen(b)' : e <= clock'
    BY <1>1, <1>2, <2>1 DEF Past
  <2>. QED  BY <1>2, <1>3, <2>2 DEF Past
<1>7. Behind'
  <2>1. ASSUME NEW b \in Consumers, NEW r \in Producers, NEW e \in Stored(r)', Reads'[b] = r
        PROVE  Held'[b] < e /\ (BeingErased(r)' \/ \A f \in Seen(b)' : f < e)
    <3>1. e \in Stored(r) /\ Reads[b] = r /\ e \in Nat \ {0}
      BY <1>2, <2>1, DatesAreNumbers
    <3>2. CASE r = s
      BY <1>2, <1>3, <3>1, <3>2
    <3>3. CASE r # s
      <4>1. b # c
        BY <3>1, <3>3 DEF Looks
      <4>. QED  BY <1>1, <1>3, <1>4, <3>1, <4>1 DEF Behind
    <3>. QED  BY <3>2, <3>3
  <2>. QED  BY <1>3, <2>1 DEF Behind
<1>8. Apart'
  <2>1. \A b \in Consumers : b # c => d \notin Seen(b)
    BY <1>1, <1>2 DEF Apart
  <2>2. ASSUME NEW r \in Producers, NEW b \in Consumers, NEW e \in Stored(r)'
        PROVE  e # Held'[b] /\ (BeingErased(r)' \/ e \notin Seen(b)')
    <3>1. e \in Stored(r) /\ e # 0
      BY <1>2, DatesAreNumbers
    <3>2. r # s => e # d
      BY <1>1, <3>1 DEF Apart
    <3>. QED  BY <1>1, <1>2, <1>3, <1>4, <3>1, <3>2 DEF Apart
  <2>3. ASSUME NEW b \in Consumers, NEW a \in Consumers, NEW e \in Seen(b)'
        PROVE  e # Held'[a] /\ (b # a => e \notin Seen(a)')
    <3>1. e # 0
      BY <1>1, DatesAreNumbers
    <3>2. b # a => e \notin Seen(a)'
      BY <1>1, <2>1 DEF Apart
    <3>. QED  BY <1>3, <3>1, <3>2
  <2>. QED  BY <1>2, <1>3, <2>2, <2>3 DEF Apart
<1>. QED  BY <1>5, <1>6, <1>7, <1>8

(* The date that a consumer receives is later than those it has displayed, and
   earlier than those that stay in the queue. *)
LEMMA TakeKeepsOrder ==
  ASSUME PcType, DateType, Order, NEW c \in Consumers, NEW s \in Producers, Takes(c, s)
  PROVE  Order'
<1>. USE DEF Order
<1>. DEFINE d == Head(chan[s])
<1>1. /\ d \in Stored(s) /\ d \in Nat /\ d # 0
      /\ Increasing(chan'[s]) /\ Stored(s)' = Stored(s) \ {d}
      /\ \A e \in Stored(s)' : d < e
      /\ \A e \in Seen(c) : e < d
      /\ \A r \in Producers : r # s => chan'[r] = chan[r] /\ Stored(r)' = Stored(r)
      /\ Held'[c] = d /\ \A b \in Consumers : b # c => Held'[b] = Held[b]
  BY TakeForm
<1>2. /\ clock' = clock /\ Reads' = Reads /\ Reads[c] = s /\ shown' = shown
      /\ \A b \in Consumers : Seen(b)' = Seen(b)
      /\ \A r \in Producers : ~BeingErased(r)
  BY DEF Takes, Seen, BeingErased
<1>. HIDE DEF d
<1>3. \A r \in Producers : Stored(r)' \subseteq Stored(r)
  BY <1>1
<1>4. Sorted'
  BY <1>1, <1>2 DEF Sorted
<1>5. Past'
  <2>1. d <= clock
    BY <1>1 DEF Past
  <2>2. \A b \in Consumers : Held'[b] <= clock' /\ \A e \in Seen(b)' : e <= clock'
    BY <1>1, <1>2, <2>1 DEF Past
  <2>. QED  BY <1>2, <1>3, <2>2 DEF Past
<1>6. Behind'
  <2>1. ASSUME NEW b \in Consumers, Held'[b] # 0, NEW e \in Seen(b)'
        PROVE  e < Held'[b]
    BY <1>1, <1>2, <2>1 DEF Behind
  <2>2. ASSUME NEW b \in Consumers, NEW r \in Producers, NEW e \in Stored(r)', Reads'[b] = r
        PROVE  Held'[b] < e /\ \A f \in Seen(b)' : f < e
    BY <1>1, <1>2, <1>3, <2>2 DEF Behind
  <2>. QED  BY <2>1, <2>2 DEF Behind
<1>7. Apart'
  <2>1. \A b \in Consumers : d \notin Seen(b) /\ d # Held[b]
    BY <1>1, <1>2 DEF Apart
  <2>2. \A r \in Producers : d \notin Stored(r)'
    BY <1>1 DEF Apart
  <2>3. ASSUME NEW r \in Producers, NEW b \in Consumers, NEW e \in Stored(r)'
        PROVE  e # Held'[b] /\ e \notin Seen(b)'
    <3>1. e # d /\ e \in Stored(r)
      BY <1>3, <2>2
    <3>2. e # Held[b] /\ e \notin Seen(b)
      BY <1>2, <3>1 DEF Apart
    <3>3. Held'[b] \in {d, Held[b]}
      BY <1>1
    <3>. QED  BY <1>2, <3>1, <3>2, <3>3
  <2>4. ASSUME NEW b \in Consumers, NEW a \in Consumers, NEW e \in Seen(b)'
        PROVE  e # Held'[a] /\ (b # a => e \notin Seen(a)')
    BY <1>1, <1>2, <2>1 DEF Apart
  <2>5. ASSUME NEW b \in Consumers, NEW a \in Consumers, b # a, Held'[b] # 0
        PROVE  Held'[b] # Held'[a]
    BY <1>1, <2>1, <2>5 DEF Apart
  <2>6. \A r, t \in Producers : \A e \in Stored(r)' : r # t => e \notin Stored(t)'
    BY <1>3 DEF Apart
  <2>. QED  BY <2>3, <2>4, <2>5, <2>6 DEF Apart
<1>. QED  BY <1>4, <1>5, <1>6, <1>7

(* What a consumer displays is what it held, and nobody else had it. *)
LEMMA PrintKeepsOrder ==
  ASSUME PcType, DateType, Order, ErasedLater, NEW c \in Consumers, Prints(c)
  PROVE  Order'
<1>. USE DEF Order
<1>. DEFINE h == Held[c]
<1>1. /\ Increasing(shown'[c]) /\ Seen(c)' = Seen(c) \cup {h}
      /\ \A e \in Seen(c) : e < h
      /\ \A b \in Consumers : b # c => shown'[b] = shown[b] /\ Seen(b)' = Seen(b)
      /\ Held'[c] = 0 /\ \A b \in Consumers : b # c => Held'[b] = Held[b]
  BY PrintForm
<1>2. /\ clock' = clock /\ Reads' = Reads /\ chan' = chan /\ h # 0
      /\ \A r \in Producers : Stored(r)' = Stored(r)
  BY DEF Prints, Stored
<1>3. h \in Nat /\ h <= clock /\ clock \in Nat
  BY DatesAreNumbers DEF Past
<1>4. \A r \in Producers : \A e \in Stored(r)' : BeingErased(r) => BeingErased(r)'
  BY StillBeingErased
<1>5. Sorted'
  BY <1>1, <1>2 DEF Sorted
<1>6. Past'
  <2>1. \A b \in Consumers : Held'[b] <= clock'
    BY <1>1, <1>2, <1>3 DEF Past
  <2>2. \A b \in Consumers : \A e \in Seen(b)' : e <= clock'
    BY <1>1, <1>2, <1>3 DEF Past
  <2>. QED  BY <1>2, <2>1, <2>2 DEF Past
<1>7. Behind'
  <2>1. ASSUME NEW b \in Consumers, Held'[b] # 0, NEW e \in Seen(b)'
        PROVE  e < Held'[b]
    BY <1>1, <2>1 DEF Behind
  <2>2. ASSUME NEW b \in Consumers, NEW r \in Producers, NEW e \in Stored(r)', Reads'[b] = r
        PROVE  Held'[b] < e /\ (BeingErased(r)' \/ \A f \in Seen(b)' : f < e)
    <3>1. e \in Stored(r) /\ Reads[b] = r /\ e \in Nat \ {0}
      BY <1>2, <2>2, DatesAreNumbers
    <3>2. Held[b] < e /\ (BeingErased(r)' \/ \A f \in Seen(b) : f < e)
      BY <1>4, <3>1 DEF Behind
    <3>3. CASE b = c
      BY <1>1, <3>1, <3>2, <3>3
    <3>4. CASE b # c
      BY <1>1, <3>2, <3>4
    <3>. QED  BY <3>3, <3>4
  <2>. QED  BY <2>1, <2>2 DEF Behind
<1>8. Apart'
  <2>1. ASSUME NEW r \in Producers, NEW b \in Consumers, NEW e \in Stored(r)'
        PROVE  e # Held'[b] /\ (BeingErased(r)' \/ e \notin Seen(b)')
    <3>1. e \in Stored(r) /\ e # 0
      BY <1>2, DatesAreNumbers
    <3>. QED  BY <1>1, <1>4, <3>1 DEF Apart
  <2>2. ASSUME NEW b \in Consumers, NEW a \in Consumers, NEW e \in Seen(b)'
        PROVE  e # Held'[a] /\ (b # a => e \notin Seen(a)')
    <3>1. CASE b = c /\ e = h
      BY <1>1, <1>2, <3>1 DEF Apart
    <3>2. CASE e \in Seen(b)
      <4>1. e # 0
        BY <3>2, DatesAreNumbers
      <4>. QED  BY <1>1, <3>2, <4>1 DEF Apart
    <3>. QED  BY <1>1, <3>1, <3>2
  <2>3. ASSUME NEW b \in Consumers, NEW a \in Consumers, b # a, Held'[b] # 0
        PROVE  Held'[b] # Held'[a]
    BY <1>1, <1>2, <2>3 DEF Apart
  <2>4. \A r, t \in Producers : \A e \in Stored(r)' : r # t => e \notin Stored(t)'
    BY <1>2 DEF Apart
  <2>. QED  BY <2>1, <2>2, <2>3, <2>4 DEF Apart
<1>. QED  BY <1>5, <1>6, <1>7, <1>8

(* Every step keeps the order of the dates. *)
LEMMA OrderKept ==
  ASSUME PcType, DateType, Order, ErasedLater, OneDate, OnlySegments, SomeStep
  PROVE  Order'
<1>1. CASE Same
  BY <1>1, FewerDates DEF Same
<1>2. ASSUME NEW s \in Producers, Empties(s) \/ Removes(s)
      PROVE  Order'
  <2>1. /\ UNCHANGED <<clock, shown, Reads, Held>>
        /\ \A r \in Producers : chan'[r] \in {chan[r], <<>>}
    BY <1>2 DEF Empties, Removes, DateType
  <2>. QED  BY <2>1, FewerDates
<1>3. ASSUME NEW s \in Producers, Writes(s)
      PROVE  Order'
  BY <1>3, WriteKeepsOrder
<1>4. ASSUME NEW c \in Consumers, NEW s \in Producers, Opens(c, s)
      PROVE  Order'
  BY <1>4, FewerDates DEF Opens, Reads
<1>5. ASSUME NEW c \in Consumers, NEW s \in Producers, Looks(c, s)
      PROVE  Order'
  BY <1>5, LookKeepsOrder
<1>6. ASSUME NEW c \in Consumers, NEW s \in Producers, Takes(c, s)
      PROVE  Order'
  BY <1>6, TakeKeepsOrder
<1>7. ASSUME NEW c \in Consumers, Finishes(c)
      PROVE  Order'
  BY <1>7, FewerDates DEF Finishes, Held
<1>8. ASSUME NEW c \in Consumers, Prints(c)
      PROVE  Order'
  BY <1>8, PrintKeepsOrder
<1>. QED  BY <1>1, <1>2, <1>3, <1>4, <1>5, <1>6, <1>7, <1>8 DEF SomeStep

(* A segment has one date at a time. *)
LEMMA OneDateKept ==
  ASSUME DateType, OneDate, SomeStep
  PROVE  OneDate' /\ kind' = kind
<1>1. kind' = kind
  BY DEF SomeStep, Same, Empties, Removes, Writes, Opens, Looks, Takes, Finishes, Prints
<1>2. SUFFICES ASSUME kind = "shm", NEW r \in Producers
               PROVE  Len(chan'[r]) <= 1
  BY <1>1 DEF OneDate
<1>3. ASSUME NEW s \in Producers, Empties(s) PROVE chan'[r] \in {chan[r], <<>>}
  BY <1>3 DEF Empties, DateType
<1>4. ASSUME NEW s \in Producers, Writes(s) PROVE chan'[r] \in {chan[r], <<clock'>>}
  BY <1>2, <1>4 DEF Writes, DateType
<1>5. \A s \in Producers : ~Removes(s) /\ \A c \in Consumers : ~Takes(c, s)
  BY <1>2 DEF Removes, Takes
<1>6. chan'[r] \in {chan[r], <<>>, <<clock'>>}
  BY <1>3, <1>4, <1>5 DEF SomeStep, Same, Opens, Looks, Finishes, Prints
<1>7. Len(<<>>) <= 1 /\ Len(<<clock'>>) <= 1
  OBVIOUS
<1>8. Len(chan[r]) <= 1
  BY <1>2 DEF OneDate
<1>. QED  BY <1>6, <1>7, <1>8

(* A consumer erases nothing that was not displayed. *)
LEMMA ErasedKept ==
  ASSUME PcType, HandleType, SetType, DateType, Roles, LockPlaces, LockKept,
         Sorted, Behind, OneDate, Erased, OnlySegments, SomeStep, [Next]_vars
  PROVE  Erased'
<1>. SUFFICES ASSUME NEW c \in Proc, At(c, "clear")'
              PROVE  Displayed(id[c])'
  BY DEF Erased
<1>1. (At(c, "clear") \/ Look(c)) /\ id'[c] = id[c] /\ c \in inside
  BY ClearingSteps DEF ComesToClear
<1>2. id[c] \in Producers
  BY <1>1 DEF HandleType, LockPlaces
<1>3. SUFFICES ASSUME NEW s \in Producers, s = id[c]
               PROVE  Displayed(s)'
  BY <1>1, <1>2 DEF Displayed, Stored
<1>4. CASE Look(c)
  <2>1. /\ c \in Consumers /\ kind = "shm" /\ chan[s] # <<>> /\ UNCHANGED <<chan, clock, kind>>
        /\ shown' = [shown EXCEPT ![c] = Append(@, Head(chan[s]))]
    BY <1>3, <1>4 DEF Look, At, Goto, PcType, OnlySegments, Roles, input, objects
  <2>. DEFINE d == Head(chan[s])
  <2>2. Stored(s)' = {d} /\ d \in Nat
    <3>1. chan[s] \in Seq(Nat) /\ Len(chan[s]) <= 1
      BY <1>3, <2>1, DatesAreNumbers DEF OneDate
    <3>2. Stored(s) = {d} /\ d \in Nat
      BY <2>1, <3>1, ShortRange, HeadTailProperties DEF Stored
    <3>. QED  BY <2>1, <3>2 DEF Stored
  <2>3. d \in Seen(c)'
    <3>1. shown[c] \in Seq(Nat) /\ shown'[c] = Append(shown[c], d)
      BY <2>1, DatesAreNumbers DEF DateType
    <3>. HIDE DEF d
    <3>2. Append(shown[c], d)[Len(shown[c]) + 1] = d
          /\ Len(shown[c]) + 1 \in DOMAIN Append(shown[c], d)
      BY <2>2, <3>1, LenProperties
    <3>. QED  BY <3>1, <3>2 DEF Seen, Range
  <2>. QED  BY <2>1, <2>2, <2>3 DEF Displayed
<1>5. CASE At(c, "clear")
  <2>1. Displayed(s) /\ kind = "shm" /\ BeingErased(s)
    BY <1>1, <1>3, <1>5 DEF Erased, OnlySegments, At, BeingErased, Erasing
  <2>2. \A b \in Consumers : Seen(b) \subseteq Seen(b)'
    <3>1. ASSUME NEW b \in Consumers, NEW d, shown' = [shown EXCEPT ![b] = Append(@, d)]
          PROVE  \A a \in Consumers : Seen(a) \subseteq Seen(a)'
      <4>1. \A a \in Consumers : a # b => shown'[a] = shown[a]
        BY <3>1
      <4>2. shown'[b] = Append(shown[b], d) /\ shown[b] \in Seq(Nat)
        BY <3>1, DatesAreNumbers DEF DateType
      <4>3. \A k \in DOMAIN shown[b] : k \in DOMAIN shown'[b] /\ shown'[b][k] = shown[b][k]
        BY <4>2, LenProperties
      <4>. QED  BY <4>1, <4>3 DEF Seen, Range
    <3>2. CASE shown' = shown
      BY <3>2 DEF Seen
    <3>. QED  BY <3>1, <3>2
              DEF SomeStep, Same, Empties, Removes, Writes, Opens, Looks, Takes, Finishes, Prints
  <2>3. chan'[s] \in {chan[s], <<>>}
    <3>1. ASSUME NEW r \in Producers, Empties(r) \/ Removes(r) PROVE chan'[s] \in {chan[s], <<>>}
      BY <3>1 DEF Empties, Removes, DateType
    <3>2. ASSUME NEW r \in Producers, Writes(r) PROVE chan'[s] = chan[s]
      BY <2>1, <3>2 DEF Writes, DateType
    <3>3. \A b \in Consumers, r \in Producers : ~Takes(b, r)
      BY <2>1 DEF Takes
    <3>. QED  BY <3>1, <3>2, <3>3 DEF SomeStep, Same, Opens, Looks, Finishes, Prints
  <2>4. Stored(s)' \subseteq Stored(s)
    <3>1. CASE chan'[s] = chan[s]
      BY <3>1 DEF Stored
    <3>2. CASE chan'[s] = <<>>
      BY <3>2, ShortRange DEF Stored
    <3>. QED  BY <2>3, <3>1, <3>2
  <2>. QED  BY <2>1, <2>2, <2>4 DEF Displayed
<1>. QED  BY <1>1, <1>4, <1>5

(* In a queue nobody has displayed what is still there, and in a segment the
   date waits or was displayed. *)
LEMMA FreshWaits ==
  ASSUME Apart, NEW s \in Producers
  PROVE  /\ ~BeingErased(s) => Waiting(s) = Stored(s)
         /\ Displayed(s) => Waiting(s) = {}
BY DEF Apart, Waiting, Stored, Seen, Displayed

(* The least element of a set of numbers. *)
LEMMA LeastOf ==
  ASSUME NEW S \in SUBSET Nat, NEW m \in S, \A d \in S : m <= d
  PROVE  Channel!Min(S) = m
<1>1. \A x, y \in S : x <= y /\ y <= x => x = y
  OBVIOUS
<1>. DEFINE x == CHOOSE x \in S : \A y \in S : x <= y
<1>2. x \in S /\ \A y \in S : x <= y
  OBVIOUS
<1>3. x = m
  BY <1>1, <1>2
<1>. QED  BY <1>3 DEF Channel!Min

(* The first of increasing dates is the least. *)
LEMMA HeadIsOldest ==
  ASSUME PcType, DateType, Sorted, Apart, NEW c \in Consumers, NEW s \in Producers,
         Reads[c] = s, chan[s] # <<>>, ~BeingErased(s)
  PROVE  /\ Waiting(s) = Stored(s) /\ Head(chan[s]) \in Stored(s)
         /\ Channel!Oldest(c) = Head(chan[s])
<1>1. Waiting(s) = Stored(s)
  BY FreshWaits
<1>2. /\ Head(chan[s]) \in Stored(s) /\ Stored(s) \in SUBSET Nat
      /\ \A e \in Stored(s) : e = Head(chan[s]) \/ Head(chan[s]) < e
  <2>1. chan[s] \in Seq(Nat) /\ Increasing(chan[s]) /\ \A d \in Stored(s) : d \in Nat
    BY DatesAreNumbers DEF Sorted
  <2>2. /\ Head(chan[s]) \in Stored(s)
        /\ Range(Tail(chan[s])) = Stored(s) \ {Head(chan[s])}
        /\ \A e \in Range(Tail(chan[s])) : Head(chan[s]) < e
    BY <2>1, TakeFirst DEF Stored
  <2>. QED  BY <2>1, <2>2
<1>3. \A e \in Stored(s) : Head(chan[s]) <= e
  BY <1>2
<1>4. Channel!Min(Stored(s)) = Head(chan[s])
  BY <1>2, <1>3, LeastOf
<1>. QED  BY <1>1, <1>2, <1>4 DEF Channel!Oldest

(* What waits depends on the object and the screens. *)
LEMMA OthersWait ==
  ASSUME NEW s \in Producers, shown' = shown, \A r \in Producers : r # s => chan'[r] = chan[r]
  PROVE  [r \in Producers |-> Waiting(r)]' =
           [[r \in Producers |-> Waiting(r)] EXCEPT ![s] = Waiting(s)']
<1>1. \A r \in Producers : r # s => Waiting(r)' = Waiting(r)
  BY DEF Waiting
<1>. QED  BY <1>1

(* Each step on the dates is one of the channel, or none. *)
LEMMA ChannelStep ==
  ASSUME PcType, DateType, DateType', PcType', Order, Order', OneDate, SomeStep, kind' = kind
  PROVE  [Channel!Next]_(Channel!vars)
<1>. DEFINE wt == [r \in Producers |-> Waiting(r)]
<1>1. CASE Same
  <2>1. wt' = wt
    BY <1>1 DEF Same, Waiting
  <2>. QED  BY <1>1, <2>1 DEF Same, Channel!vars
<1>2. ASSUME NEW s \in Producers, Empties(s)
      PROVE  [Channel!Next]_(Channel!vars)
  <2>1. Waiting(s) = {} /\ chan'[s] = <<>> /\ shown' = shown
    BY <1>2, FreshWaits DEF Order, Empties, DateType
  <2>2. Waiting(s)' = {}
    BY <2>1, ShortRange DEF Waiting
  <2>3. wt' = wt
    BY <1>2, <2>1, <2>2, OthersWait DEF Empties, DateType
  <2>. QED  BY <1>2, <2>3 DEF Empties, Channel!vars
<1>3. ASSUME NEW s \in Producers, Removes(s)
      PROVE  [Channel!Next]_(Channel!vars)
  <2>1. chan'[s] = <<>> /\ shown' = shown
    BY <1>3 DEF Removes, DateType
  <2>2. Waiting(s)' = {}
    BY <2>1, ShortRange DEF Waiting
  <2>3. wt' = [wt EXCEPT ![s] = {}]
    BY <1>3, <2>1, <2>2, OthersWait DEF Removes, DateType
  <2>4. Channel!Remove(s)
    BY <1>3, <2>3 DEF Removes, Channel!Remove
  <2>. QED  BY <2>4 DEF Channel!Next
<1>4. ASSUME NEW s \in Producers, Writes(s)
      PROVE  [Channel!Next]_(Channel!vars)
  <2>1. /\ clock' = clock + 1 /\ clock \in Nat
        /\ Stored(s)' = (IF kind = "shm" THEN {} ELSE Stored(s)) \cup {clock'}
        /\ \A r \in Producers : r # s => chan'[r] = chan[r]
    BY <1>4, WriteForm, DatesAreNumbers DEF Order
  <2>2. shown' = shown /\ ~BeingErased(s) /\ \A c \in Consumers : \A d \in Seen(c)' : d <= clock
    BY <1>4 DEF Writes, Order, Past, Seen
  <2>3. Waiting(s) = Stored(s)
    BY <2>2, FreshWaits DEF Order
  <2>4. Waiting(s)' = (IF kind = "shm" THEN {} ELSE Waiting(s)) \cup {clock'}
    <3>1. \A c \in Consumers : clock' \notin Seen(c)'
      BY <2>1, <2>2
    <3>2. \A c \in Consumers : Seen(c)' = Seen(c)
      BY <2>2 DEF Seen
    <3>3. \A d \in Stored(s) : \A c \in Consumers : d \notin Seen(c)
      BY <2>2, <2>3 DEF Waiting, Seen
    <3>4. Waiting(s)' = {d \in Stored(s)' : \A c \in Consumers : d \notin Seen(c)'}
      BY DEF Waiting, Stored, Seen
    <3>. QED  BY <2>1, <2>3, <3>1, <3>2, <3>3, <3>4
  <2>5. wt' = [wt EXCEPT ![s] = (IF kind = "shm" THEN {} ELSE @) \cup {clock'}]
    BY <2>1, <2>2, <2>4, OthersWait
  <2>6. Channel!Write(s)
    BY <1>4, <2>1, <2>5 DEF Writes, Channel!Write
  <2>. QED  BY <2>6 DEF Channel!Next
<1>5. ASSUME NEW c \in Consumers, NEW s \in Producers, Opens(c, s)
      PROVE  [Channel!Next]_(Channel!vars)
  <2>1. wt' = wt
    BY <1>5 DEF Opens, Waiting
  <2>2. Channel!Open(c, s)
    BY <1>5, <2>1 DEF Opens, Channel!Open
  <2>. QED  BY <2>2 DEF Channel!Next
<1>6. ASSUME NEW c \in Consumers, NEW s \in Producers, Looks(c, s)
      PROVE  [Channel!Next]_(Channel!vars)
  <2>. DEFINE d == Head(chan[s])
  <2>1. Waiting(s) = Stored(s) /\ Channel!Oldest(c) = d /\ d \in Waiting(s)
    BY <1>6, HeadIsOldest DEF Looks, Order
  <2>2. /\ Stored(s) = {d} /\ Seen(c)' = Seen(c) \cup {d}
        /\ \A b \in Consumers : b # c => Seen(b)' = Seen(b)
    BY <1>6, LookForm DEF Order
  <2>3. chan' = chan /\ Reads[c] = s /\ kind = "shm" /\ \A r \in Producers : Stored(r)' = Stored(r)
    BY <1>6 DEF Looks, Stored
  <2>. HIDE DEF d
  <2>4. Waiting(s)' = {}
    BY <2>2, <2>3 DEF Waiting, Stored, Seen
  <2>5. \A r \in Producers : r # s => Waiting(r)' = Waiting(r)
    <3>1. \A r \in Producers : r # s => d \notin Stored(r)
      BY <2>2 DEF Order, Apart
    <3>2. \A r \in Producers :
            /\ Waiting(r) = {e \in Stored(r) : \A b \in Consumers : e \notin Seen(b)}
            /\ Waiting(r)' = {e \in Stored(r)' : \A b \in Consumers : e \notin Seen(b)'}
      BY DEF Waiting, Stored, Seen
    <3>. QED  BY <2>2, <2>3, <3>1, <3>2
  <2>6. wt' = [wt EXCEPT ![s] = @ \ {Channel!Oldest(c)}]
    BY <2>1, <2>2, <2>4, <2>5
  <2>7. Channel!Leaves(c)
    BY <1>6, <2>1, <2>3, <2>6 DEF Looks, Channel!Leaves
  <2>8. Channel!ShowInPlace(c)
    BY <1>6, <2>1, <2>7 DEF Looks, Channel!ShowInPlace, d
  <2>. QED  BY <2>8 DEF Channel!Next
<1>7. ASSUME NEW c \in Consumers, NEW s \in Producers, Takes(c, s)
      PROVE  [Channel!Next]_(Channel!vars)
  <2>. DEFINE d == Head(chan[s])
  <2>1. kind # "shm" /\ ~BeingErased(s) /\ ~BeingErased(s)' /\ Reads[c] = s
    BY <1>7 DEF Takes, BeingErased
  <2>2. Waiting(s) = Stored(s) /\ Channel!Oldest(c) = d /\ d \in Waiting(s)
    BY <1>7, <2>1, HeadIsOldest DEF Takes, Order
  <2>3. /\ Stored(s)' = Stored(s) \ {d} /\ shown' = shown
        /\ \A r \in Producers : r # s => chan'[r] = chan[r]
    <3>1. Stored(s)' = Stored(s) \ {d}
      BY <1>7, TakeForm DEF Order
    <3>. QED  BY <1>7, <3>1 DEF Takes, DateType
  <2>4. Waiting(s)' = Stored(s)'
    BY <2>1 DEF Order, Apart, Waiting, Stored, Seen
  <2>5. wt' = [wt EXCEPT ![s] = @ \ {Channel!Oldest(c)}]
    BY <2>2, <2>3, <2>4, OthersWait
  <2>6. Channel!Leaves(c)
    BY <1>7, <2>1, <2>2, <2>5 DEF Takes, Channel!Leaves
  <2>7. Channel!Take(c)
    BY <1>7, <2>1, <2>2, <2>6 DEF Takes, Channel!Take
  <2>. QED  BY <2>7 DEF Channel!Next
<1>8. ASSUME NEW c \in Consumers, Finishes(c)
      PROVE  [Channel!Next]_(Channel!vars)
  <2>1. wt' = wt
    BY <1>8 DEF Finishes, Waiting
  <2>2. Channel!End(c)
    BY <1>8, <2>1 DEF Finishes, Channel!End
  <2>. QED  BY <2>2 DEF Channel!Next
<1>9. ASSUME NEW c \in Consumers, Prints(c)
      PROVE  [Channel!Next]_(Channel!vars)
  <2>. DEFINE h == Held[c]
  <2>1. /\ Seen(c)' = Seen(c) \cup {h}
        /\ \A b \in Consumers : b # c => Seen(b)' = Seen(b)
    BY <1>9, PrintForm DEF Order
  <2>2. \A r \in Producers : h \notin Stored(r) /\ Stored(r)' = Stored(r)
    BY <1>9 DEF Prints, Order, Apart, Stored
  <2>. HIDE DEF h
  <2>3. \A r \in Producers :
          /\ Waiting(r) = {e \in Stored(r) : \A b \in Consumers : e \notin Seen(b)}
          /\ Waiting(r)' = {e \in Stored(r)' : \A b \in Consumers : e \notin Seen(b)'}
    BY DEF Waiting, Stored, Seen
  <2>4. wt' = wt
    <3>. SUFFICES ASSUME NEW r \in Producers PROVE Waiting(r)' = Waiting(r)
      OBVIOUS
    <3>1. ASSUME NEW e \in Stored(r), NEW b \in Consumers
          PROVE  e \in Seen(b)' <=> e \in Seen(b)
      BY <2>1, <2>2
    <3>. QED  BY <2>2, <2>3, <3>1
  <2>5. Channel!Show(c)
    BY <1>9, <2>4 DEF Prints, Channel!Show
  <2>. QED  BY <2>5 DEF Channel!Next
<1>. QED  BY <1>1, <1>2, <1>3, <1>4, <1>5, <1>6, <1>7, <1>8, <1>9 DEF SomeStep

-----------------------------------------------------------------------------
(* Theorems                                                                 *)

(* What a producer that is alone knows about the name of its object, and how it
   ends. *)
THEOREM RestartInvariant == Spec => []RestartInv
<1>1. Init => RestartInv
  BY ConstantsAssumption
     DEF Init, RestartInv, Ends, Lonely, RestartWorks, CleanExit, Alive, At, Proc
<1>2. ASSUME LockInv, RestartInv, [Next]_vars
      PROVE  RestartInv'
  <2>1. PcType /\ HandleType /\ SetType /\ Roles /\ Ends /\ Lonely /\ RestartWorks /\ CleanExit
    BY <1>2, TypeParts DEF LockInv, RestartInv
  <2>2. Ends' /\ Lonely'
    BY <1>2, <2>1, EndsKept, LonelyKept
  <2>3. RestartWorks' /\ CleanExit'
    BY <1>2, <2>1, ExitsKept
  <2>. QED  BY <2>2, <2>3 DEF RestartInv
<1>. QED  BY <1>1, <1>2, LockInvariant, PTL DEF Spec

(* "Destroy any previously created memory segment" (prodcons.c:125): a producer
   that is alone gets an object of its own, whatever was left. *)
THEOREM RestartWorksHolds == Spec => []RestartWorks
BY RestartInvariant, PTL DEF RestartInv

(* "If I am the producer ==> Unlink" (prodcons.c:53): a handler that ends well
   leaves no name behind, one that fails says why. *)
THEOREM CleanExitHolds == Spec => []CleanExit
BY RestartInvariant, PTL DEF RestartInv

(* The dates: those on a screen, in a consumer's buffer and in an object are
   apart, and each reader's come in their order. *)
THEOREM DatesInvariant == Spec => []DatesInv
<1>1. Init => DatesInv
  <2>1. Init => Sorted /\ Past /\ OneDate
    BY ShortRange DEF Init, Sorted, Past, OneDate, Increasing, Stored, Seen, Held, At, Proc
  <2>2. Init => Behind /\ Apart
    BY ShortRange DEF Init, Behind, Apart, Stored, Seen, Held, At, Proc
  <2>3. Init => EmptyAtStart /\ Erased /\ OpenedOnce /\ OnlySegments
    BY DEF Init, Erased, EmptyAtStart, OpenedOnce, OnlySegments, At, Proc
  <2>. QED  BY <2>1, <2>2, <2>3 DEF DatesInv
<1>2. ASSUME LockInv, LockInv', DatesInv, [Next]_vars
      PROVE  DatesInv'
  <2>1. /\ PcType /\ HandleType /\ SetType /\ DateType /\ Roles /\ LockPlaces /\ LockKept
        /\ Order /\ OneDate /\ EmptyAtStart /\ Erased /\ OpenedOnce /\ OnlySegments
    BY <1>2, TypeParts DEF LockInv, DatesInv, Order
  <2>2. SomeStep
    BY <1>2, <2>1, DateSteps
  <2>3. OneDate' /\ kind' = kind
    BY <2>1, <2>2, OneDateKept
  <2>4. ErasedLater
    BY <1>2, <2>1, <2>3, ErasingKept
  <2>5. Order'
    BY <2>1, <2>2, <2>4, OrderKept
  <2>6. Erased'
    BY <1>2, <2>1, <2>2, ErasedKept DEF Order
  <2>7. EmptyAtStart' /\ OpenedOnce' /\ OnlySegments'
    BY <1>2, <2>1, EmptyBefore, OpenedOnceKept, SegmentsKept
  <2>. QED  BY <2>3, <2>5, <2>6, <2>7 DEF DatesInv, Order
<1>. QED  BY <1>1, <1>2, LockInvariant, PTL DEF Spec

(* What a user sees: the dates on a consumer's screen are later and later, and
   no date is displayed twice, by one consumer or by two (prodcons.c:238-244,
   prodcons2.c:158-167, prodcons3.c:171-180). *)
THEOREM DisplayedOnceHolds == Spec => []Channel!DisplayedOnce
<1>1. DatesInv => Channel!DisplayedOnce
  <2>. SUFFICES ASSUME DatesInv PROVE Channel!DisplayedOnce
    OBVIOUS
  <2>1. ASSUME NEW r \in Consumers, NEW i \in DOMAIN shown[r], NEW j \in DOMAIN shown[r], i < j
        PROVE  shown[r][i] < shown[r][j]
    BY <2>1 DEF DatesInv, Sorted, Increasing
  <2>2. ASSUME NEW r \in Consumers, NEW q \in Consumers, r # q,
               NEW i \in DOMAIN shown[r], NEW j \in DOMAIN shown[q]
        PROVE  shown[r][i] # shown[q][j]
    BY <2>2 DEF DatesInv, Apart, Seen, Range
  <2>. QED  BY <2>1, <2>2 DEF Channel!DisplayedOnce
<1>. QED  BY <1>1, DatesInvariant, PTL

(* Each of the three programs is a channel of dates (DateChannel).  A consumer
   takes the oldest date of its object and displays it after those that it took
   before.  A date that is gone and was never displayed was replaced by a newer one in a
   segment, was in a System V queue that was removed, or had been received by a
   consumer that was interrupted or killed before its printf(). *)
THEOREM IsChannelHolds == Spec => IsChannel
<1>1. Init => Channel!Init
  <2>1. Init => [s \in Producers |-> Waiting(s)] = [s \in Producers |-> {}]
    BY ShortRange DEF Init, Waiting
  <2>2. Init => Reads = [c \in Consumers |-> None] /\ Held = [c \in Consumers |-> 0]
    BY DEF Init, Reads, Held, At, Proc
  <2>3. Init => Ended = {} /\ Lost = {}
    BY DEF Init, Ended, Lost, Proc
  <2>. QED  BY <2>1, <2>2, <2>3 DEF Init, Channel!Init
<1>2. ASSUME LockInv, LockInv', DatesInv, DatesInv', [Next]_vars
      PROVE  [Channel!Next]_(Channel!vars)
  <2>1. /\ PcType /\ HandleType /\ SetType /\ DateType /\ Roles /\ LockPlaces /\ LockKept
        /\ Order /\ OneDate /\ EmptyAtStart /\ Erased /\ OpenedOnce /\ OnlySegments
    BY <1>2, TypeParts DEF LockInv, DatesInv, Order
  <2>2. PcType' /\ DateType' /\ Order'
    BY <1>2 DEF LockInv, TypeOK, PcType, DateType, DatesInv, Order
  <2>3. SomeStep
    BY <1>2, <2>1, DateSteps
  <2>4. kind' = kind
    BY <2>1, <2>3, OneDateKept
  <2>. QED  BY <2>1, <2>2, <2>3, <2>4, ChannelStep
<1>. QED  BY <1>1, <1>2, LockInvariant, DatesInvariant, PTL DEF Spec, IsChannel, Channel!Spec

=============================================================================
