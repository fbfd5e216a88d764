------------------------------ MODULE MCVault -------------------------------
EXTENDS VaultInv, TLC

\* The registration tab creates key rings, the popup asks for the rest.
PopupAndTab == [c \in Calls |-> IF c = CHOOSE d \in Calls : TRUE
                                THEN {"create"} ELSE {"unlock", "change", "delete"}]

Symmetry == Permutations(Keys) \cup Permutations(Ids) \cup Permutations(Passwords)
=============================================================================
