----------------------------- MODULE SwapLedger -----------------------------
(***************************************************************************)
(* What a swap promises its user, in terms of the two chains only: each    *)
(* step of the route takes effect at most once, the second one only after  *)
(* the first one reached its end, and the wallet reports "complete" only   *)
(* when the output arrived and "failed" only when nothing moved.           *)
(***************************************************************************)
CONSTANTS
    Op,       \* swaps
    ToEpix,   \* the swaps that run the swap step before the bridge step
    Attempt   \* identities of transactions

VARIABLES
    committed,   \* the transactions of a step that took effect
    delivered,   \* the packet of the bridge step was received
    reported     \* what the stored record says: "open", "complete", "failed"

ledger == <<committed, delivered, reported>>

Step == {"bridge", "swap"}

LedgerInit ==
    /\ committed = [o \in Op |-> [s \in Step |-> {}]]
    /\ delivered = [o \in Op |-> FALSE]
    /\ reported = [o \in Op |-> "open"]

\* The step whose turn it is on chain.
Ready(o, s) ==
    \/ s = (IF o \in ToEpix THEN "swap" ELSE "bridge")
    \/ IF o \in ToEpix THEN committed[o]["swap"] # {} ELSE delivered[o]

TakeEffect(o, s) ==
    /\ committed[o][s] = {}
    /\ Ready(o, s)
    /\ reported[o] = "open"
    /\ \E a \in Attempt : committed' = [committed EXCEPT ![o][s] = {a}]
    /\ UNCHANGED <<delivered, reported>>

Deliver(o) ==
    /\ committed[o]["bridge"] # {}
    /\ ~delivered[o]
    /\ delivered' = [delivered EXCEPT ![o] = TRUE]
    /\ UNCHANGED <<committed, reported>>

Arrived(o) == IF o \in ToEpix THEN delivered[o] ELSE committed[o]["swap"] # {}

\* The stored records are written together.  One can fall back to "open" (a
\* completed swap is paused by a failed save), never to a claim that does not
\* hold.
Report(claims) ==
    /\ \A o \in Op :
          /\ claims[o] = "complete" => Arrived(o)
          /\ claims[o] = "failed" => \A s \in Step : committed[o][s] = {}
    /\ reported' = claims
    /\ UNCHANGED <<committed, delivered>>

LedgerNext ==
    \/ \E o \in Op : Deliver(o) \/ \E s \in Step : TakeEffect(o, s)
    \/ \E claims \in [Op -> {"open", "complete", "failed"}] : Report(claims)

LedgerSpec == LedgerInit /\ [][LedgerNext]_ledger

=============================================================================
