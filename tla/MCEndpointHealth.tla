-------------------------- MODULE MCEndpointHealth --------------------------
EXTENDS EndpointHealthInv

CONSTANTS c1, c2, own, usual, backup, other

Rpc(u) == [k \in {"rpc"} |-> u]

\* The own endpoint and the usual one of a chain; another chain only writes.
OwnOrUsual == [c \in Chain |->
    IF c = c1 THEN {[manual |-> TRUE, endpoints |-> Rpc(own)],
                    [manual |-> FALSE, endpoints |-> Rpc(usual)]}
    ELSE {[manual |-> FALSE, endpoints |-> Rpc(other)]}]

OneBackup == [c \in Chain |-> IF c = c1 THEN <<Rpc(backup)>> ELSE <<>>]

\* Two services that fail apart.
Cosmos(u) == [k \in {"rpc", "rest"} |-> u]

TwoServices == [c \in Chain |-> {[manual |-> TRUE, endpoints |-> Cosmos(own)]}]

\* The backup serves one of the two.
BackupOfOne == [c \in Chain |-> <<Rpc(backup)>>]

=============================================================================
