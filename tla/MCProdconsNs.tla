----------------------------- MODULE MCProdconsNs ---------------------------
(* ProdconsNs with two producers and a consumer, and a second consumer of the *)
(* POSIX message queue.                                                       *)
EXTENDS ProdconsNs

CONSTANTS p1, p2, c1, c2

TwoProducers == {p1, p2}
TwoConsumers == {c1, c2}

AllKinds == {"shm", "msgq", "mq"}

(* Both queues are read by Receive and Print: two consumers that share the dates
   of one of them show what two of the other do. *)
TheUsers == [k \in AllKinds |-> {p1, p2, c1} \cup (IF k = "mq" THEN {c2} ELSE {})]

(* One producer may get a SIGINT, the other one a SIGKILL: either may be the
   first to run. *)
TheInterrupted == {p1, c1}
TheKilled      == {p2}

=============================================================================
