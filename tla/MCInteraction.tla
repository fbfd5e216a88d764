---------------------------- MODULE MCInteraction ----------------------------
EXTENDS InteractionInv, TLC

CONSTANTS r1, r2, w1, w2, t1, t2, l1, l2

\* Two pages of one window.
SameWindow == [r \in Requests |-> w1]

\* A page in each of two windows.
OwnWindow == [r \in Requests |-> IF r = r1 THEN w1 ELSE w2]

OneTab == [r \in Requests |-> t1]

OwnTab == [r \in Requests |-> IF r = r1 THEN t1 ELSE t2]

LikeLoops == Permutations({l1, l2})

=============================================================================
