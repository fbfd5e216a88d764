---------------------------- MODULE MCTxExecutor ----------------------------
(* Instances of TxExecutor: what the swap page asks for.                   *)
EXTENDS TxExecutorInv, TLC

CONSTANTS A, B, C

\* A transaction at A and, when the funds have got there, one at B and at C.
Across ==
    [chains |-> <<A, B, C>>, signed |-> {1}, done |-> {}, executable |-> {A},
     hardware |-> FALSE, route |-> <<A, B, C>>]

\* An approval and a bridge, which the background signs.
Bundle ==
    [chains |-> <<A, A>>, signed |-> {}, done |-> {}, executable |-> {A, B},
     hardware |-> FALSE, route |-> <<A, B>>]

\* The page has sent the approval itself and has signed the bridge.
Approved ==
    [chains |-> <<A, A, B>>, signed |-> {2}, done |-> {1}, executable |-> {A},
     hardware |-> TRUE, route |-> <<A, B>>]

MCPlans == {Across, Bundle, Approved}

\* The windows are alike.
LikeWindows == Permutations(Window)
=============================================================================
