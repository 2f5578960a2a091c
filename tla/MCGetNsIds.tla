----------------------------- MODULE MCGetNsIds -----------------------------
(* GetNsIds with ids 0..2.  The target's pid namespace has 1 for the kernel's
   2; its user namespace has 0 for the kernel's 1, like a container's root. *)
EXTENDS GetNsIds, TLC

CONSTANTS r1, r2

OneRun  == {r1}
TwoRuns == {r1, r2}

MCNum == 0..3
MCTargetView == [pid |-> (1 :> 2), uid |-> (0 :> 1)]
MCOverflow == 3

(* One id only, for two programs at once *)
PairNum == {3}
PairView == [pid |-> (3 :> 3), uid |-> (3 :> 3)]

NoFaults == {}
OneFaults == FaultSites \ {"stat"}
PairFaults == {"listen", "connect", "recvmsg", "write"}

BothKillable == {"father", "child"}
FatherKillable == {"father"}

=============================================================================
