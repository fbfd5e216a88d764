--------------------------- MODULE EpixSwapTruth ----------------------------
(***************************************************************************)
(* The inductive invariants of EpixSwap from which SecondAfterFirst,       *)
(* OutcomeIsTrue, the refinement of SwapLedger, SendsAreAuthorized,        *)
(* OneActiveSwapPerVault and NoLookupOnReplacedRecord follow.  Each rests  *)
(* on SwapInv.  EpixSwapTruthProofs proves them.                           *)
(***************************************************************************)
EXTENDS EpixSwapInv

-----------------------------------------------------------------------------
(* TruthInv: what the records claim is true of the chains. *)

First(o) == NextStep(o, NoOperation)

FirstFailed(o) == \E a \in Attempt : tx[o][First(o)][a] = "failed"

Arrived(o) == IF o \in ToEpix THEN BridgeDelivered(o) ELSE SwapCommitted(o)

\* Each claim is one that the chains never take back.
Truthful(o, r) ==
    /\ r.depositConfirmed => BridgeDelivered(o)
    /\ r.swapConfirmed => o \in ToEpix /\ SwapCommitted(o)
    /\ r.status = "complete" => Arrived(o)
    /\ r.status = "failed" => FirstFailed(o)

\* The proofs held in memory.
ProofsHold(o) ==
    /\ o \in verifiedReceipts => BridgeDelivered(o)
    /\ \A h \in Attempt : <<o, h>> \in verifiedSwaps => SwapCommitted(o)

\* A packet belongs to a committed transaction.
PacketCommitted(o) ==
    \A a \in Attempt : packet[o][a] # "none" => tx[o]["bridge"][a] = "ok"

\* The first step of a route is sent once: nothing deletes its hash after the
\* broadcast, not even a failure.
FirstIsRecorded(o) ==
    \A a \in Attempt : tx[o][First(o)][a] # "unsent" =>
        /\ disk[o].hash[First(o)] = a
        /\ snapshot[o].hash[First(o)] = a
        /\ Unread \/ operations[o].hash[First(o)] = a

TurnInv(o) ==
    /\ o \notin ToEpix => \A a \in Attempt :
          tx[o]["swap"][a] # "unsent" => BridgeDelivered(o)
    /\ o \in ToEpix => \A a \in Attempt :
          tx[o]["bridge"][a] # "unsent" => SwapCommitted(o)

\* A first step that failed is the only one that was ever sent.
FailedIsStill ==
    \A o \in Op : FirstFailed(o) =>
        /\ \A a \in Attempt : ~Live(o, First(o), a)
        /\ \A s \in Step, a \in Attempt : tx[o][s][a] # "ok"

TruthInv ==
    \A o \in Op :
        /\ Truthful(o, operations[o])
        /\ Truthful(o, snapshot[o])
        /\ Truthful(o, disk[o])
        /\ ProofsHold(o)
        /\ PacketCommitted(o)
        /\ FirstIsRecorded(o)
        /\ TurnInv(o)

-----------------------------------------------------------------------------
(* ConsentInv: what an approval still covers. *)

\* What the worker sends belongs to an open operation.
SendsOpen(o) ==
    worker[o] \in {"preparing", "signing", "recording", "broadcasting"}
        => Open(operations[o])

\* An approved operation may still send each step that it has not sent.
Covered(o) ==
    Approved(o) => \A s \in Step :
        \/ operations[o].hash[s] = 0
        \/ worker[o] = "recording" /\ NextStep(o, operations[o]) = s
        => allowed[o][s] >= 1

ConsentInv ==
    /\ \A o \in Op : SendsOpen(o) /\ Covered(o)
    /\ SendsAreAuthorized
    /\ OneActiveSwapPerVault

-----------------------------------------------------------------------------
(* LookupInv: a lookup belongs to a record that start() would not accept. *)

StartQueued(o) == \E i \in DOMAIN writeTail : writeTail[i] = <<"start", o>>

\* The operation can still be worked on.
InUse(o) ==
    \/ ~Finished(operations[o])
    \/ worker[o] # "idle"
    \/ timers[o] > 0
    \/ StartQueued(o)

\* A flag of a record in use comes with the proof that observe() asks for.
FlagsProven(o) ==
    InUse(o) =>
        /\ operations[o].swapConfirmed => SwapProven(o, operations[o])
        /\ operations[o].depositConfirmed => o \in verifiedReceipts

LookupUnresolved(o) ==
    InUse(o) =>
        /\ lookup[o] = "swap" => ~operations[o].swapConfirmed
        /\ lookup[o] \in {"bridge", "ack"} => ~operations[o].depositConfirmed
        /\ lookup[o] = "threw" => ~Resolved(operations[o])

LookupIsKnown(o) == lookup[o] # "idle" => Known(o)

AbsentClaimsNothing(r) ==
    r.status = "none" => ~r.depositConfirmed /\ ~r.swapConfirmed

PlansResolved == \A p \in preparing \cup reviews : Resolved(p.resumeState)

LookupInv ==
    /\ \A o \in Op :
          /\ FlagsProven(o)
          /\ LookupUnresolved(o)
          /\ LookupIsKnown(o)
          /\ AbsentClaimsNothing(operations[o])
          /\ AbsentClaimsNothing(snapshot[o])
          /\ AbsentClaimsNothing(disk[o])
    /\ PlansResolved

=============================================================================
