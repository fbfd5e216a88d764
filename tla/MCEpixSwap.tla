----------------------------- MODULE MCEpixSwap -----------------------------
(* Instances of EpixSwap for TLC: one wallet, operations o1 and o2. *)
EXTENDS EpixSwapTruth, TLC

CONSTANTS v1, o1, o2

MCSymmetry == Permutations(Op)

\* Bound of the two-operation runs: routes end by a failed first transaction,
\* approvals do not expire, and two writes are queued at most.
TwoOperations ==
    /\ \A o \in Op : approvals[o] \in {"none", "fresh"}
    /\ \A o \in Op, s \in Step, a \in Attempt : tx[o][s][a] # "ok"
    /\ Len(writeTail) <= 2

Untouched(o) ==
    /\ ~Known(o) /\ disk[o] = NoOperation
    /\ \A plan \in preparing \cup reviews : plan.op # o

\* Bound of "routes": one operation at a time; two plans are held together
\* only in the forward direction, before any step is sent again.
OneRoute ==
    /\ \E o \in Op : \A p \in Op \ {o} : Untouched(p)
    /\ PlansHeld <= 1 \/ \A o \in Op :
          /\ o \in ToEpix => Untouched(o)
          /\ \A s \in Step, a \in Attempt : a > 1 => tx[o][s][a] = "unsent"

MCVaultOf == [o \in Op |-> v1]
=============================================================================
