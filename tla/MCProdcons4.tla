----------------------------- MODULE MCProdcons4 -----------------------------
(* Prodcons4 with two producers, started one after the other or together,   *)
(* and one or two consumers.                                                *)
EXTENDS Prodcons4, TLC

CONSTANTS p1, p2, c1, c2

TwoProducers == {p1, p2}
OneConsumer  == {c1}
TwoConsumers == {c1, c2}

Nobody   == {}

(* One producer may get a SIGINT, the other one a SIGKILL: either may be the
   first to run.  Producers at the same time: one of them and the consumer get
   a SIGINT. *)
TheInterrupted == {p1}
TheKilled      == {p2}
OneOfEach      == {p1, c1}

(* The consumers are alike where none of them is interrupted. *)
AlikeConsumers == Permutations(TwoConsumers)

NoFaults  == {}
AllFaults == FaultSites

=============================================================================
