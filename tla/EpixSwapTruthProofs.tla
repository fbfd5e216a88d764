------------------------ MODULE EpixSwapTruthProofs -------------------------
(***************************************************************************)
(* For every set of operations and wallets and every bound: the flags, the *)
(* outcomes and the proofs that the swap service holds are true of the     *)
(* chains, its second transaction follows the first, each broadcast has    *)
(* the consent of the user, and the service implements SwapLedger.         *)
(***************************************************************************)
EXTENDS EpixSwapProofs, EpixSwapTruth

-----------------------------------------------------------------------------
(* Records. *)

\* The flags and statuses that the record operators set.
LEMMA RecordClaims ==
    ASSUME NEW r \in Operation
    PROVE  /\ \A st \in Status :
                 /\ WithStatus(r, st).depositConfirmed = r.depositConfirmed
                 /\ WithStatus(r, st).swapConfirmed = r.swapConfirmed
           /\ \A b \in BOOLEAN :
                 /\ WithDeposit(r, b).depositConfirmed = b
                 /\ WithDeposit(r, b).swapConfirmed = r.swapConfirmed
                 /\ WithSwap(r, b).depositConfirmed = r.depositConfirmed
                 /\ WithSwap(r, b).swapConfirmed = b
           /\ ~NoOperation.depositConfirmed /\ ~NoOperation.swapConfirmed
BY DEF Operation, WithStatus, WithDeposit, WithSwap, NoOperation

LEMMA HashClaims ==
    ASSUME NEW r \in Operation, NEW s \in Step, NEW h \in Hash
    PROVE  /\ WithHash(r, s, h).depositConfirmed = r.depositConfirmed
           /\ WithHash(r, s, h).swapConfirmed = r.swapConfirmed
BY DEF Operation, WithHash

LEMMA UnsentClaims ==
    ASSUME NEW r \in Operation, NEW s \in Step
    PROVE  /\ Unsent(r, s).depositConfirmed = r.depositConfirmed
           /\ Unsent(r, s).swapConfirmed = r.swapConfirmed
<1>1. 0 \in Hash /\ "paused" \in Status
  BY ConstantsAssumption DEF Hash, Status
<1> DEFINE q == WithHash(r, s, 0)
<1>2. /\ q \in Operation /\ q.depositConfirmed = r.depositConfirmed
      /\ q.swapConfirmed = r.swapConfirmed
  BY <1>1, HashRecord, HashClaims
<1>3. /\ WithStatus(q, "paused").depositConfirmed = q.depositConfirmed
      /\ WithStatus(q, "paused").swapConfirmed = q.swapConfirmed
  BY <1>1, <1>2, RecordClaims
<1> QED BY <1>2, <1>3 DEF Unsent

LEMMA ReceivedClaims ==
    ASSUME NEW o \in Op, NEW r \in Operation
    PROVE  /\ Received(o, r).depositConfirmed
           /\ Received(o, r).swapConfirmed = r.swapConfirmed
           /\ Received(o, r).status = IF o \in ToEpix THEN "complete" ELSE r.status
<1> DEFINE d == WithDeposit(r, TRUE)
<1>1. /\ d \in Operation /\ d.status = r.status
      /\ d.depositConfirmed /\ d.swapConfirmed = r.swapConfirmed
  BY FlagRecord, RecordClaims
<1>2. /\ WithStatus(d, "complete").status = "complete"
      /\ WithStatus(d, "complete").depositConfirmed = d.depositConfirmed
      /\ WithStatus(d, "complete").swapConfirmed = d.swapConfirmed
  BY <1>1, StatusRecord, RecordClaims DEF Status
<1> QED BY <1>1, <1>2 DEF Received

LEMMA MadeClaims ==
    ASSUME NEW o \in Op, NEW r \in Operation
    PROVE  /\ MakeOperation(o, r).depositConfirmed = r.depositConfirmed
           /\ MakeOperation(o, r).swapConfirmed = r.swapConfirmed
           /\ Open(MakeOperation(o, r))
<1>1. InitialStatus(o, r) \in Status \ {"none", "complete", "failed"}
  BY DEF InitialStatus, Status
<1> QED BY <1>1, StatusRecord, RecordClaims DEF MakeOperation, Open

LEMMA RestoredClaims ==
    ASSUME NEW o \in Op, NEW r \in Operation
    PROVE  \/ ~Open(r) /\ Restored(o, r) = r
           \/ /\ Restored(o, r).status = "paused"
              /\ ~Restored(o, r).depositConfirmed
              /\ Restored(o, r).swapConfirmed => o \notin ToEpix /\ r.swapConfirmed
<1> DEFINE s == WithStatus(r, "paused")
           p == WithDeposit(s, FALSE)
           q == WithSwap(p, FALSE)
<1>1. s \in Operation /\ s.status = "paused" /\ s.swapConfirmed = r.swapConfirmed
  BY StatusRecord, RecordClaims DEF Status
<1>2. /\ p \in Operation /\ p.status = "paused" /\ p.swapConfirmed = r.swapConfirmed
      /\ p.depositConfirmed = FALSE
  BY <1>1, FlagRecord, RecordClaims
<1>3. /\ q.status = "paused" /\ q.swapConfirmed = FALSE
      /\ q.depositConfirmed = FALSE
  BY <1>2, FlagRecord, RecordClaims
<1> QED BY <1>1, <1>2, <1>3 DEF Restored

\* What a step may write into a record without a claim that does not hold.
LEMMA TruthfulRecords ==
    ASSUME NEW o \in Op, NEW r \in Operation, Truthful(o, r)
    PROVE  /\ \A st \in Status \ {"complete", "failed"} : Truthful(o, WithStatus(r, st))
           /\ Arrived(o) => Truthful(o, WithStatus(r, "complete"))
           /\ FirstFailed(o) => Truthful(o, WithStatus(r, "failed"))
           /\ \A s \in Step, h \in Hash : Truthful(o, WithHash(r, s, h))
           /\ \A s \in Step : Truthful(o, Unsent(r, s))
           /\ Truthful(o, WithDeposit(r, FALSE))
           /\ SwapCommitted(o) /\ o \in ToEpix => Truthful(o, WithSwap(r, TRUE))
           /\ BridgeDelivered(o) => Truthful(o, Received(o, r))
           /\ Truthful(o, MakeOperation(o, r))
           /\ Truthful(o, Restored(o, r))
<1>1. ASSUME NEW st \in Status
      PROVE  /\ WithStatus(r, st).status = st
             /\ WithStatus(r, st).depositConfirmed = r.depositConfirmed
             /\ WithStatus(r, st).swapConfirmed = r.swapConfirmed
  BY StatusRecord, RecordClaims
<1>2. /\ \A st \in Status \ {"complete", "failed"} : Truthful(o, WithStatus(r, st))
      /\ Arrived(o) => Truthful(o, WithStatus(r, "complete"))
      /\ FirstFailed(o) => Truthful(o, WithStatus(r, "failed"))
  BY <1>1 DEF Truthful, Status
<1>3. ASSUME NEW s \in Step, NEW h \in Hash PROVE Truthful(o, WithHash(r, s, h))
  <2>1. /\ WithHash(r, s, h).status = r.status
        /\ WithHash(r, s, h).depositConfirmed = r.depositConfirmed
        /\ WithHash(r, s, h).swapConfirmed = r.swapConfirmed
    BY HashRecord, HashClaims
  <2> QED BY <2>1 DEF Truthful
<1>4. ASSUME NEW s \in Step PROVE Truthful(o, Unsent(r, s))
  <2>1. /\ Unsent(r, s).status = "paused"
        /\ Unsent(r, s).depositConfirmed = r.depositConfirmed
        /\ Unsent(r, s).swapConfirmed = r.swapConfirmed
    BY UnsentRecord, UnsentClaims
  <2> QED BY <2>1 DEF Truthful
<1>5. /\ Truthful(o, WithDeposit(r, FALSE))
      /\ SwapCommitted(o) /\ o \in ToEpix => Truthful(o, WithSwap(r, TRUE))
  BY FlagRecord, RecordClaims DEF Truthful
<1>6. BridgeDelivered(o) => Truthful(o, Received(o, r))
  BY ReceivedClaims DEF Truthful, Arrived
<1>7. Truthful(o, MakeOperation(o, r))
  BY MadeClaims DEF Truthful, Open
<1>8. Truthful(o, Restored(o, r))
  BY RestoredClaims DEF Truthful
<1> QED BY <1>2, <1>3, <1>4, <1>5, <1>6, <1>7, <1>8

LEMMA TruthfulShortcuts ==
    ASSUME TypeOK, NEW o \in Op, NEW r \in Operation, AbsentHasNoHash(r),
           Truthful(o, r), ProofsHold(o)
    PROVE  /\ Truthful(o, SwapShortcut(o, r)) /\ SameHashes(r, SwapShortcut(o, r))
           /\ Truthful(o, BridgeShortcut(o, r)) /\ SameHashes(r, BridgeShortcut(o, r))
<1>1. SwapProven(o, r) => o \in ToEpix /\ SwapCommitted(o)
  BY DEF SwapProven, ProofsHold, TypeOK
<1>2. Truthful(o, SwapShortcut(o, r))
  BY <1>1, TruthfulRecords DEF SwapShortcut
<1>3. Truthful(o, BridgeShortcut(o, r))
  BY TruthfulRecords DEF BridgeShortcut, ProofsHold
<1> QED BY <1>2, <1>3, ShortcutRecord

-----------------------------------------------------------------------------
(* TruthInv: what the steps of one operation preserve. *)

\* What a step may do to the store.
Flow ==
    /\ snapshot' = snapshot \/ snapshot' = operations' \/ snapshot' = disk'
    /\ disk' = disk \/ disk' = snapshot

LEMMA StoreFlow ==
    /\ UNCHANGED writeVars => Flow
    /\ \A w \in Waiter : Save(w) => Flow
    /\ \A w \in Waiter, ok \in BOOLEAN, more \in Seq(Waiter) :
          Settle(w, ok, more) => Flow
BY DEF Flow, writeVars, Save, Settle

LEMMA FirstIsStep ==
    ASSUME NEW o \in Op
    PROVE  /\ First(o) = IF o \in ToEpix THEN "swap" ELSE "bridge"
           /\ First(o) \in Step
BY DEF First, NextStep, NoOperation, Step

LEMMA SameChain ==
    ASSUME UNCHANGED chainVars, NEW o \in Op
    PROVE  /\ BridgeDelivered(o)' <=> BridgeDelivered(o)
           /\ SwapCommitted(o)' <=> SwapCommitted(o)
           /\ FirstFailed(o)' <=> FirstFailed(o)
           /\ Arrived(o)' <=> Arrived(o)
           /\ PacketCommitted(o) => PacketCommitted(o)'
           /\ TurnInv(o) => TurnInv(o)'
<1>1. /\ BridgeDelivered(o)' <=> BridgeDelivered(o)
      /\ SwapCommitted(o)' <=> SwapCommitted(o)
      /\ FirstFailed(o)' <=> FirstFailed(o)
  BY DEF chainVars, BridgeDelivered, SwapCommitted, FirstFailed, First
<1> QED BY <1>1 DEF chainVars, Arrived, PacketCommitted, TurnInv

LEMMA TruthStep ==
    ASSUME SwapInv, TruthInv, ~Unread, UNCHANGED chainVars,
           NEW o \in Op, NEW q \in Operation, Becomes(o, q), Truthful(o, q),
           \/ q.hash[First(o)] = operations[o].hash[First(o)]
           \/ \A a \in Attempt : tx[o][First(o)][a] = "unsent",
           Flow, \A p \in Op : ProofsHold(p)'
    PROVE  TruthInv'
<1>1. /\ operations'[o] = q /\ \A p \in Op \ {o} : operations'[p] = operations[p]
  BY BecomesEffect DEF SwapInv, TypeOK
<1>2. ASSUME NEW p \in Op
      PROVE  /\ Truthful(p, operations[p])' /\ Truthful(p, snapshot[p])'
             /\ Truthful(p, disk[p])'
  <2>1. /\ Truthful(p, operations[p]) /\ Truthful(p, snapshot[p]) /\ Truthful(p, disk[p])
        /\ Truthful(p, operations'[p])
    BY <1>1 DEF TruthInv
  <2>2. Truthful(p, operations[p])'
    BY <2>1, SameChain DEF Truthful
  <2>3. Truthful(p, disk[p])'
    BY <2>1, SameChain DEF Truthful, Flow
  <2> QED BY <2>1, <2>2, <2>3, SameChain DEF Truthful, Flow
<1>3. ASSUME NEW p \in Op PROVE FirstIsRecorded(p)'
  <2> SUFFICES ASSUME NEW a \in Attempt, tx[p][First(p)][a] # "unsent"
               PROVE  /\ disk'[p].hash[First(p)] = a /\ snapshot'[p].hash[First(p)] = a
                      /\ operations'[p].hash[First(p)] = a
    BY DEF FirstIsRecorded, First, chainVars
  <2>1. /\ disk[p].hash[First(p)] = a /\ snapshot[p].hash[First(p)] = a
        /\ operations[p].hash[First(p)] = a
    BY DEF TruthInv, FirstIsRecorded
  <2>2. operations'[p].hash[First(p)] = a
    BY <1>1, <2>1
  <2> QED BY <2>1, <2>2 DEF Flow
<1>4. ASSUME NEW p \in Op PROVE PacketCommitted(p)' /\ TurnInv(p)'
  BY SameChain DEF TruthInv
<1> QED BY <1>2, <1>3, <1>4 DEF TruthInv

\* The same, when observe() finds no new proof.
LEMMA TruthKept ==
    ASSUME SwapInv, TruthInv, ~Unread, UNCHANGED <<proofVars, chainVars>>,
           NEW o \in Op, NEW q \in Operation, Becomes(o, q), Truthful(o, q),
           q.hash[First(o)] = operations[o].hash[First(o)], Flow
    PROVE  TruthInv'
<1>1. ASSUME NEW p \in Op PROVE ProofsHold(p)'
  BY SameChain DEF TruthInv, ProofsHold, proofVars
<1> QED BY <1>1, TruthStep

\* The operations keep their records.
LEMMA TruthSame ==
    ASSUME SwapInv, TruthInv, ~Unread, NEW o \in Op,
           UNCHANGED <<operations, proofVars, chainVars>>, Flow
    PROVE  TruthInv'
<1>1. /\ operations[o] \in Operation /\ Becomes(o, operations[o])
      /\ Truthful(o, operations[o])
  BY Unmoved DEF SwapInv, TypeOK, TruthInv
<1> QED BY <1>1, TruthKept

\* pause() and a status that claims nothing.
LEMMA TruthStatus ==
    ASSUME SwapInv, TruthInv, ~Unread, UNCHANGED <<proofVars, chainVars>>,
           NEW o \in Op, NEW st \in Status \ {"complete", "failed"},
           Becomes(o, WithStatus(operations[o], st)), Flow
    PROVE  TruthInv'
<1>1. /\ operations[o] \in Operation /\ Truthful(o, operations[o])
  BY DEF SwapInv, TypeOK, TruthInv
<1>2. /\ WithStatus(operations[o], st) \in Operation
      /\ WithStatus(operations[o], st).hash = operations[o].hash
      /\ Truthful(o, WithStatus(operations[o], st))
  BY <1>1, StatusRecord, TruthfulRecords
<1> QED BY <1>2, TruthKept

LEMMA QuietTruth ==
    ASSUME TruthInv,
           UNCHANGED <<operations, workVars, lookVars, proofVars, writeVars, chainVars>>
    PROVE  TruthInv'
<1> USE DEF workVars, lookVars, proofVars, writeVars
<1>1. Unread => Unread'
  BY DEF Unread, Known
<1>2. ASSUME NEW o \in Op PROVE FirstIsRecorded(o)'
  BY <1>1 DEF TruthInv, FirstIsRecorded, First, chainVars
<1>3. ASSUME NEW o \in Op
      PROVE  /\ Truthful(o, operations[o])' /\ Truthful(o, snapshot[o])'
             /\ Truthful(o, disk[o])' /\ ProofsHold(o)' /\ PacketCommitted(o)' /\ TurnInv(o)'
  BY SameChain DEF TruthInv, Truthful, ProofsHold
<1> QED BY <1>2, <1>3 DEF TruthInv

-----------------------------------------------------------------------------
(* TruthInv: the actions. *)

\* What a lookup of a recorded hash reads.
LEMMA LookupTells ==
    ASSUME SwapInv, NEW o \in Op, NEW s \in Step, lookup[o] = s
    PROVE  /\ "ok" \in Lookups(o, s) => \E a \in Attempt : tx[o][s][a] = "ok"
           /\ "failed" \in Lookups(o, s) =>
                 /\ operations[o].hash[s] \in Attempt
                 /\ tx[o][s][operations[o].hash[s]] = "failed"
<1>1. operations[o].hash[s] \in Attempt
  BY LookupKnown DEF Step
<1>2. /\ "ok" \in Lookups(o, s) => tx[o][s][operations[o].hash[s]] = "ok"
      /\ "failed" \in Lookups(o, s) => tx[o][s][operations[o].hash[s]] = "failed"
  BY DEF Lookups
<1> QED BY <1>1, <1>2

LEMMA ObserveSwapTruth ==
    ASSUME SwapInv, TruthInv, NEW o \in Op, ObserveSwap(o)
    PROVE  TruthInv'
<1> DEFINE r == operations[o]
<1>0. /\ TypeOK /\ lookup[o] = "swap" /\ ~Unread /\ AbsentHasNoHash(r)
      /\ UNCHANGED chainVars /\ Flow
      /\ r \in Operation /\ r.status # "none" /\ r.hash["swap"] \in Attempt
      /\ Truthful(o, r) /\ ProofsHold(o) /\ "swap" \in Step
  BY NotUnread, LookupKnown, StoreFlow
     DEF ObserveSwap, SwapInv, OperationInv, TruthInv, Step
<1>1. CASE UNCHANGED <<operations, proofVars>>
  BY <1>0, <1>1, TruthSame
<1>2. CASE ThenBridge(o, r) /\ UNCHANGED proofVars
  BY <1>0, <1>2, TruthfulShortcuts, TruthKept DEF ThenBridge, SameHashes
<1>3. CASE /\ "ok" \in Lookups(o, "swap") /\ o \in ToEpix
           /\ verifiedSwaps' = verifiedSwaps \cup {<<o, r.hash["swap"]>>}
           /\ ThenBridge(o, WithSwap(r, TRUE))
           /\ UNCHANGED verifiedReceipts
  <2> DEFINE q == WithSwap(r, TRUE)
  <2>1. SwapCommitted(o)
    BY <1>0, <1>3, LookupTells DEF SwapCommitted
  <2>2. q \in Operation /\ q.hash = r.hash /\ q.status = r.status /\ Truthful(o, q)
    BY <1>0, <1>3, <2>1, FlagRecord, TruthfulRecords
  <2>3. /\ BridgeShortcut(o, q) \in Operation /\ BridgeShortcut(o, q).hash = r.hash
        /\ Truthful(o, BridgeShortcut(o, q))
    BY <1>0, <2>2, TruthfulShortcuts DEF AbsentHasNoHash, SameHashes
  <2>4. ASSUME NEW p \in Op PROVE ProofsHold(p)'
    <3>1. ProofsHold(p)
      BY DEF TruthInv
    <3>2. /\ BridgeDelivered(p) => BridgeDelivered(p)'
          /\ SwapCommitted(p) => SwapCommitted(p)'
      BY <1>0, SameChain
    <3> QED BY <1>3, <2>1, <3>1, <3>2 DEF ProofsHold
  <2>5. Becomes(o, BridgeShortcut(o, q))
    BY <1>3 DEF ThenBridge
  <2> HIDE DEF q
  <2> QED BY <1>0, <2>3, <2>4, <2>5, TruthStep
<1>4. CASE /\ "ok" \in Lookups(o, "swap") /\ o \notin ToEpix
           /\ Becomes(o, WithStatus(r, "complete")) /\ UNCHANGED proofVars
  <2>1. Arrived(o)
    BY <1>0, <1>4, LookupTells DEF Arrived, SwapCommitted
  <2>2. /\ WithStatus(r, "complete") \in Operation
        /\ WithStatus(r, "complete").hash = r.hash
        /\ Truthful(o, WithStatus(r, "complete"))
    BY <1>0, <2>1, StatusRecord, TruthfulRecords DEF Status
  <2> QED BY <1>0, <1>4, <2>2, TruthKept
<1>5. CASE /\ "failed" \in Lookups(o, "swap") /\ o \in ToEpix
           /\ Becomes(o, WithStatus(r, "failed")) /\ UNCHANGED proofVars
  <2>1. FirstFailed(o)
    BY <1>0, <1>5, LookupTells, FirstIsStep DEF FirstFailed
  <2>2. /\ WithStatus(r, "failed") \in Operation
        /\ WithStatus(r, "failed").hash = r.hash
        /\ Truthful(o, WithStatus(r, "failed"))
    BY <1>0, <2>1, StatusRecord, TruthfulRecords DEF Status
  <2> QED BY <1>0, <1>5, <2>2, TruthKept
<1>6. CASE o \notin ToEpix /\ Becomes(o, Unsent(r, "swap")) /\ UNCHANGED proofVars
  <2>1. /\ Unsent(r, "swap") \in Operation /\ Truthful(o, Unsent(r, "swap"))
        /\ Unsent(r, "swap").hash = [r.hash EXCEPT !["swap"] = 0]
    BY <1>0, UnsentRecord, TruthfulRecords
  <2>2. Unsent(r, "swap").hash[First(o)] = r.hash[First(o)]
    BY <1>0, <1>6, <2>1, FirstIsStep, RecordTypes
  <2> QED BY <1>0, <1>6, <2>1, <2>2, TruthKept
<1> QED BY <1>1, <1>2, <1>3, <1>4, <1>5, <1>6 DEF ObserveSwap, proofVars

LEMMA ObserveBridgeTruth ==
    ASSUME SwapInv, TruthInv, NEW o \in Op, ObserveBridge(o)
    PROVE  TruthInv'
<1> DEFINE r == operations[o]
<1>0. /\ TypeOK /\ lookup[o] = "bridge" /\ ~Unread
      /\ UNCHANGED <<proofVars, chainVars>> /\ Flow
      /\ r \in Operation /\ Truthful(o, r) /\ "bridge" \in Step
  BY NotUnread, StoreFlow DEF ObserveBridge, SwapInv, TypeOK, TruthInv, Step
<1>1. CASE UNCHANGED operations
  BY <1>0, <1>1, TruthSame
<1>2. CASE o \in ToEpix /\ Becomes(o, Unsent(r, "bridge"))
  <2>1. /\ Unsent(r, "bridge") \in Operation /\ Truthful(o, Unsent(r, "bridge"))
        /\ Unsent(r, "bridge").hash = [r.hash EXCEPT !["bridge"] = 0]
    BY <1>0, UnsentRecord, TruthfulRecords
  <2>2. Unsent(r, "bridge").hash[First(o)] = r.hash[First(o)]
    BY <1>0, <1>2, <2>1, FirstIsStep, RecordTypes
  <2> QED BY <1>0, <1>2, <2>1, <2>2, TruthKept
<1>3. CASE /\ "failed" \in Lookups(o, "bridge") /\ o \notin ToEpix
           /\ Becomes(o, WithStatus(r, "failed"))
  <2>1. FirstFailed(o)
    BY <1>0, <1>3, LookupTells, FirstIsStep DEF FirstFailed
  <2>2. /\ WithStatus(r, "failed") \in Operation
        /\ WithStatus(r, "failed").hash = r.hash
        /\ Truthful(o, WithStatus(r, "failed"))
    BY <1>0, <2>1, StatusRecord, TruthfulRecords DEF Status
  <2> QED BY <1>0, <1>3, <2>2, TruthKept
<1> QED BY <1>1, <1>2, <1>3 DEF ObserveBridge

LEMMA ObserveAckTruth ==
    ASSUME SwapInv, TruthInv, NEW o \in Op, ObserveAck(o)
    PROVE  TruthInv'
<1> DEFINE r == operations[o]
<1>0. /\ TypeOK /\ lookup[o] = "ack" /\ ~Unread
      /\ UNCHANGED <<verifiedSwaps, chainVars>> /\ Flow
      /\ r \in Operation /\ r.hash["bridge"] \in Attempt /\ Truthful(o, r)
  BY NotUnread, LookupKnown, StoreFlow DEF ObserveAck, SwapInv, TypeOK, TruthInv
<1>1. CASE UNCHANGED <<operations, verifiedReceipts>>
  BY <1>0, <1>1, TruthSame DEF proofVars
<1>2. CASE /\ packet[o][r.hash["bridge"]] = "received"
           /\ Becomes(o, Received(o, r))
           /\ verifiedReceipts' = verifiedReceipts \cup {o}
  <2>1. BridgeDelivered(o)
    BY <1>0, <1>2 DEF BridgeDelivered
  <2>2. /\ Received(o, r) \in Operation /\ Received(o, r).hash = r.hash
        /\ Truthful(o, Received(o, r))
    BY <1>0, <2>1, ReceivedRecord, TruthfulRecords
  <2>3. ASSUME NEW p \in Op PROVE ProofsHold(p)'
    <3>1. ProofsHold(p)
      BY DEF TruthInv
    <3>2. /\ BridgeDelivered(p) => BridgeDelivered(p)'
          /\ SwapCommitted(p) => SwapCommitted(p)'
      BY <1>0, SameChain
    <3> QED BY <1>0, <1>2, <2>1, <3>1, <3>2 DEF ProofsHold
  <2> QED BY <1>0, <1>2, <2>2, <2>3, TruthStep
<1>3. CASE Becomes(o, WithDeposit(r, FALSE)) /\ UNCHANGED verifiedReceipts
  <2>1. /\ WithDeposit(r, FALSE) \in Operation /\ WithDeposit(r, FALSE).hash = r.hash
        /\ Truthful(o, WithDeposit(r, FALSE))
    BY <1>0, FlagRecord, TruthfulRecords
  <2> QED BY <1>0, <1>3, <2>1, TruthKept DEF proofVars
<1> QED BY <1>1, <1>2, <1>3 DEF ObserveAck

LEMMA BeginObserveTruth ==
    ASSUME SwapInv, TruthInv, ~Unread, NEW o \in Op, BeginObserve(o), Flow,
           UNCHANGED <<proofVars, chainVars>>
    PROVE  TruthInv'
<1> DEFINE r == operations[o]
           q == SwapShortcut(o, r)
<1>0. /\ TypeOK /\ r \in Operation /\ AbsentHasNoHash(r)
      /\ Truthful(o, r) /\ ProofsHold(o)
  BY DEF SwapInv, TypeOK, OperationInv, TruthInv
<1>1. CASE UNCHANGED operations
  BY <1>1, TruthSame
<1>2. CASE ThenBridge(o, q)
  <2>1. q \in Operation /\ q.hash = r.hash /\ Truthful(o, q) /\ AbsentHasNoHash(q)
    BY <1>0, TruthfulShortcuts DEF SameHashes, AbsentHasNoHash
  <2>2. Becomes(o, BridgeShortcut(o, q))
    BY <1>2 DEF ThenBridge
  <2> HIDE DEF q
  <2>3. /\ BridgeShortcut(o, q) \in Operation /\ BridgeShortcut(o, q).hash = r.hash
        /\ Truthful(o, BridgeShortcut(o, q))
    BY <1>0, <2>1, TruthfulShortcuts DEF SameHashes
  <2> QED BY <2>2, <2>3, TruthKept
<1> QED BY <1>1, <1>2 DEF BeginObserve

\* pause() of a worker, a refresh or a start(), whatever write it belongs to.
LEMMA PausedTruth ==
    ASSUME SwapInv, TruthInv, ~Unread, UNCHANGED <<proofVars, chainVars>>,
           NEW o \in Op, BecomesPaused(o), Flow
    PROVE  TruthInv'
BY TruthStatus DEF BecomesPaused, Status

LEMMA ThrowsTruth ==
    ASSUME SwapInv, TruthInv, NEW o \in Op, worker[o] # "idle", PauseWorker(o),
           UNCHANGED <<proofVars, chainVars>>
    PROVE  TruthInv'
BY NotUnread, PausedTruth, StoreFlow DEF PauseWorker, WorkerPaused, Waiter

LEMMA SettleFlow ==
    ASSUME NEW o \in Op, NEW ok \in BOOLEAN,
           NEW k \in {"start", "pause", "worker", "refresh"},
           NEW more \in {<<>>, <<<<"worker", o>>>>, <<<<"pause", o>>>>},
           Settle(<<k, o>>, ok, more)
    PROVE  Flow
BY DEF Settle, Flow

LEMMA RefreshTruth ==
    ASSUME SwapInv, TruthInv, NEW o \in Op,
           Refresh(o) \/ PrepareResume(o) \/ RefreshObserved(o) \/ RefreshThrew(o)
    PROVE  TruthInv'
<1>1. CASE Refresh(o)
  <2>1. ~Unread /\ UNCHANGED <<proofVars, chainVars>> /\ Flow
    BY <1>1, NotUnread, StoreFlow DEF Refresh
  <2> QED BY <1>1, <2>1, BeginObserveTruth DEF Refresh
<1>2. CASE PrepareResume(o)
  <2>1. ~Unread /\ UNCHANGED <<proofVars, chainVars>> /\ Flow
    BY <1>2, NotUnread, StoreFlow DEF PrepareResume
  <2>2. CASE BeginObserve(o)
    BY <2>1, <2>2, BeginObserveTruth
  <2>3. CASE UNCHANGED operations
    BY <2>1, <2>3, TruthSame
  <2> QED BY <1>2, <2>2, <2>3 DEF PrepareResume
<1>3. CASE RefreshObserved(o)
  BY <1>3, NotUnread, StoreFlow, TruthSame DEF RefreshObserved, Waiter
<1>4. CASE RefreshThrew(o)
  <2>1. ~Unread /\ UNCHANGED <<proofVars, chainVars>>
    BY <1>4, NotUnread DEF RefreshThrew
  <2>2. CASE worker[o] = "launched" /\ PauseWorker(o)
    BY <2>1, <2>2, ThrowsTruth
  <2>3. CASE UNCHANGED <<operations, writeVars>>
    BY <2>1, <2>3, StoreFlow, TruthSame
  <2> QED BY <1>4, <2>2, <2>3 DEF RefreshThrew
<1> QED BY <1>1, <1>2, <1>3, <1>4

LEMMA WorkTruth ==
    ASSUME SwapInv, TruthInv, NEW o \in Op,
           Run(o) \/ RunObserved(o) \/ Prepared(o) \/ BroadcastReturned(o) \/ Timer(o)
    PROVE  TruthInv'
<1>0. ~Unread
  BY NotUnread DEF Run, RunObserved, Prepared, BroadcastReturned, Timer
<1>1. CASE worker[o] # "idle" /\ WorkerThrows(o)
  BY <1>1, ThrowsTruth DEF WorkerThrows
<1>2. CASE Run(o) /\ ~WorkerThrows(o)
  BY <1>0, <1>2, BeginObserveTruth, StoreFlow DEF Run
<1>3. CASE UNCHANGED <<operations, proofVars, chainVars>> /\ Flow
  BY <1>0, <1>3, TruthSame
<1>4. CASE RunObserved(o) /\ ~WorkerThrows(o)
  BY <1>3, <1>4, StoreFlow DEF RunObserved, Waiter
<1>5. CASE Prepared(o) /\ ~WorkerThrows(o)
  BY <1>3, <1>5, StoreFlow DEF Prepared
<1>6. CASE BroadcastReturned(o) /\ ~WorkerThrows(o)
  <2> DEFINE st == SentStatus(NextStep(o, operations[o]))
  <2>1. st \in Status \ {"complete", "failed"}
    BY DEF SentStatus, Status
  <2>2. /\ Becomes(o, WithStatus(operations[o], st)) /\ Flow
        /\ UNCHANGED <<proofVars, chainVars>>
    BY <1>6, StoreFlow DEF BroadcastReturned, Waiter
  <2> QED BY <1>0, <2>1, <2>2, TruthStatus
<1>7. CASE Timer(o)
  BY <1>3, <1>7, StoreFlow DEF Timer
<1> QED BY <1>1, <1>2, <1>4, <1>5, <1>6, <1>7 DEF Run, RunObserved, Prepared, BroadcastReturned

LEMMA SignedTruth ==
    ASSUME SwapInv, TruthInv, NEW o \in Op, Signed(o)
    PROVE  TruthInv'
<1> DEFINE r == operations[o]
           s == NextStep(o, r)
<1>0. /\ worker[o] = "signing" /\ ~Unread /\ r \in Operation /\ s \in Step
      /\ Truthful(o, r) /\ NextHash(o) = 0
  BY NotUnread DEF Signed, SwapInv, TypeOK, NextStep, Step, OperationInv,
     NothingToResend, TruthInv
<1>1. CASE WorkerThrows(o)
  BY <1>0, <1>1, ThrowsTruth DEF WorkerThrows
<1>2. CASE ~WorkerThrows(o)
  <2>1. PICK a \in NewHashes(o, s) : Becomes(o, WithHash(r, s, a))
    BY <1>2 DEF Signed
  <2>2. a \in Hash
    BY <2>1, ConstantsAssumption DEF NewHashes, Attempt, Hash
  <2> DEFINE q == WithHash(r, s, a)
  <2>3. q \in Operation /\ Truthful(o, q) /\ q.hash = [r.hash EXCEPT ![s] = a]
    BY <1>0, <2>2, HashRecord, TruthfulRecords
  <2>4. \/ q.hash[First(o)] = r.hash[First(o)]
        \/ \A b \in Attempt : tx[o][First(o)][b] = "unsent"
    <3>1. CASE First(o) = s
      <4>1. \A b \in Attempt : b # 0
        BY ConstantsAssumption DEF Attempt
      <4> QED BY <1>0, <3>1, <4>1 DEF NextHash, TruthInv, FirstIsRecorded
    <3>2. CASE First(o) # s
      BY <1>0, <2>3, <3>2, FirstIsStep, RecordTypes
    <3> QED BY <3>1, <3>2
  <2>5. UNCHANGED <<proofVars, chainVars>> /\ Flow
    BY <1>2, StoreFlow DEF Signed, Waiter
  <2>6. \A p \in Op : ProofsHold(p)'
    BY <2>5, SameChain DEF TruthInv, ProofsHold, proofVars
  <2> QED BY <1>0, <2>1, <2>3, <2>4, <2>5, <2>6, TruthStep
<1> QED BY <1>1, <1>2

LEMMA StartTruth ==
    ASSUME SwapInv, TruthInv, NEW p \in reviews, Start(p)
    PROVE  TruthInv'
<1> DEFINE o == p.op
           r == p.resumeState
           q == MakeOperation(o, r)
<1>0. /\ TypeOK /\ o \in Op /\ r \in Operation /\ ~Unread
  BY DEF Start, SwapInv, TypeOK, Plan, Available, Unread
<1>1. r.hash = operations[o].hash /\ Truthful(o, r)
  <2>1. CASE r = NoOperation /\ ~Known(o)
    <3>1. operations[o].hash = NoOperation.hash
      BY <1>0, <2>1 DEF SwapInv, OperationInv, AbsentHasNoHash, Known
    <3>2. Truthful(o, NoOperation)
      BY DEF Truthful, NoOperation
    <3> QED BY <2>1, <3>1, <3>2
  <2>2. CASE operations[o] = r
    BY <1>0, <2>2 DEF TruthInv
  <2> QED BY <2>1, <2>2 DEF Start
<1>2. q \in Operation /\ q.hash = operations[o].hash /\ Truthful(o, q)
  BY <1>0, <1>1, MadeRecord, TruthfulRecords
<1>3. Becomes(o, q) /\ UNCHANGED <<proofVars, chainVars>> /\ Flow
  BY <1>0, StoreFlow DEF Start, Waiter
<1> QED BY <1>0, <1>2, <1>3, TruthKept

LEMMA SavedTruth ==
    ASSUME SwapInv, TruthInv, NEW o \in Op, NEW ok \in BOOLEAN,
           \/ StartSaved(o, ok) \/ StartPaused(o, ok) \/ RefreshSaved(o, ok)
           \/ WorkerSaved(o, ok) \/ PauseSaved(o, ok)
    PROVE  TruthInv'
<1>0. ~Unread
  BY NotUnread DEF StartSaved, StartPaused, RefreshSaved, WorkerSaved, PauseSaved, Settle
<1>1. UNCHANGED <<proofVars, chainVars>>
  BY DEF StartSaved, StartPaused, RefreshSaved, WorkerSaved, PauseSaved, lookVars
<1>2. Flow
  BY SettleFlow DEF StartSaved, StartPaused, RefreshSaved, WorkerSaved, PauseSaved
<1>3. UNCHANGED operations \/ BecomesPaused(o)
  BY DEF StartSaved, StartPaused, RefreshSaved, WorkerSaved, PauseSaved, WorkerPaused
<1> QED BY <1>0, <1>1, <1>2, <1>3, TruthSame, PausedTruth

\* A step of the chains, or a broadcast, takes no claim back.
LEMMA ChainTruth ==
    ASSUME SwapInv, SwapInv', TruthInv, UNCHANGED <<operations, proofVars>>, Flow,
           ~Unread \/ (UNCHANGED writeVars /\ (Unread => Unread')),
           NEW o \in Op, TurnInv(o)', PacketCommitted(o)', FirstIsRecorded(o)',
           \A p \in Op \ {o} : tx'[p] = tx[p] /\ packet'[p] = packet[p],
           \A s \in Step, a \in Attempt :
              tx[o][s][a] \in {"ok", "failed"} => tx'[o][s][a] = tx[o][s][a],
           \A a \in Attempt :
              packet[o][a] = "received" => packet'[o][a] = "received"
    PROVE  TruthInv'
<1>1. ASSUME NEW p \in Op
      PROVE  /\ BridgeDelivered(p) => BridgeDelivered(p)'
             /\ SwapCommitted(p) => SwapCommitted(p)'
             /\ FirstFailed(p) => FirstFailed(p)'
             /\ Arrived(p) => Arrived(p)'
  <2>1. /\ BridgeDelivered(p) => BridgeDelivered(p)'
        /\ SwapCommitted(p) => SwapCommitted(p)'
    BY DEF BridgeDelivered, SwapCommitted, Step
  <2>2. FirstFailed(p) => FirstFailed(p)'
    BY FirstIsStep DEF FirstFailed, First
  <2> QED BY <2>1, <2>2 DEF Arrived
<1>2. ASSUME NEW p \in Op
      PROVE  /\ Truthful(p, operations[p])' /\ Truthful(p, snapshot[p])'
             /\ Truthful(p, disk[p])' /\ ProofsHold(p)'
  <2>1. /\ Truthful(p, operations[p]) /\ Truthful(p, snapshot[p]) /\ Truthful(p, disk[p])
        /\ ProofsHold(p)
    BY DEF TruthInv
  <2>2. Truthful(p, operations[p])'
    BY <1>1, <2>1 DEF Truthful
  <2>3. Truthful(p, disk[p])'
    BY <1>1, <2>1 DEF Truthful, Flow
  <2>4. Truthful(p, snapshot[p])'
    BY <1>1, <2>1, <2>2, <2>3 DEF Truthful, Flow
  <2>5. ProofsHold(p)'
    BY <1>1, <2>1 DEF ProofsHold, proofVars
  <2> QED BY <2>2, <2>3, <2>4, <2>5
<1>3. ASSUME NEW p \in Op \ {o}
      PROVE  TurnInv(p)' /\ PacketCommitted(p)' /\ FirstIsRecorded(p)'
  <2>1. TurnInv(p) /\ PacketCommitted(p) /\ FirstIsRecorded(p)
    BY DEF TruthInv
  <2>2. TurnInv(p)' /\ PacketCommitted(p)'
    BY <1>1, <2>1 DEF TurnInv, PacketCommitted
  <2>3. FirstIsRecorded(p)'
    <3> SUFFICES ASSUME NEW a \in Attempt, tx[p][First(p)][a] # "unsent"
                 PROVE  /\ disk'[p].hash[First(p)] = a /\ snapshot'[p].hash[First(p)] = a
                        /\ Unread' \/ operations'[p].hash[First(p)] = a
      BY DEF FirstIsRecorded, First
    <3>1. /\ disk[p].hash[First(p)] = a /\ snapshot[p].hash[First(p)] = a
          /\ Unread \/ operations[p].hash[First(p)] = a
      BY <2>1 DEF FirstIsRecorded
    <3>2. CASE ~Unread
      BY <3>1, <3>2 DEF Flow
    <3>3. CASE UNCHANGED writeVars /\ (Unread => Unread')
      BY <3>1, <3>3 DEF writeVars
    <3> QED BY <3>2, <3>3
  <2> QED BY <2>2, <2>3
<1> QED BY <1>2, <1>3 DEF TruthInv

LEMMA CommitTruth ==
    ASSUME SwapInv, SwapInv', TruthInv, NEW o \in Op, NEW s \in Step, NEW a \in Attempt,
           NEW result \in {"ok", "failed"}, Commit(o, s, a, result)
    PROVE  TruthInv'
<1>0. TypeOK /\ TurnInv(o) /\ PacketCommitted(o) /\ FirstIsRecorded(o)
  BY DEF SwapInv, TruthInv
<1>1. /\ \A p \in Op \ {o} : tx'[p] = tx[p] /\ packet'[p] = packet[p]
      /\ \A t \in Step, b \in Attempt :
            tx'[o][t][b] = IF t = s /\ b = a THEN result ELSE tx[o][t][b]
      /\ \A b \in Attempt :
            packet'[o][b] = IF s = "bridge" /\ result = "ok" /\ b = a THEN "inFlight"
                            ELSE packet[o][b]
      /\ tx[o][s][a] = "sent"
  BY <1>0 DEF Commit, TypeOK
<1>2. \A b \in Attempt : packet[o][b] = "received" => packet'[o][b] = "received"
  BY <1>0, <1>1 DEF PacketCommitted
<1>3. PacketCommitted(o)'
  BY <1>0, <1>1 DEF PacketCommitted, Step
<1>4. \A t \in Step, b \in Attempt :
         /\ tx[o][t][b] \in {"ok", "failed"} => tx'[o][t][b] = tx[o][t][b]
         /\ tx'[o][t][b] # "unsent" => tx[o][t][b] # "unsent"
  BY <1>1
<1>5. TurnInv(o)'
  <2>1. /\ BridgeDelivered(o) => BridgeDelivered(o)'
        /\ SwapCommitted(o) => SwapCommitted(o)'
    BY <1>2, <1>4 DEF BridgeDelivered, SwapCommitted, Step
  <2> QED BY <1>0, <1>4, <2>1 DEF TurnInv, Step
<1>6. UNCHANGED <<operations, proofVars, writeVars>> /\ Flow /\ (Unread => Unread')
  BY StoreFlow DEF Commit, Unread, Known, workVars, lookVars, writeVars
<1>7. FirstIsRecorded(o)'
  BY <1>0, <1>4, <1>6, FirstIsStep DEF FirstIsRecorded, First, writeVars
<1> QED BY <1>1, <1>2, <1>3, <1>4, <1>5, <1>6, <1>7, ChainTruth

LEMMA RelayTruth ==
    ASSUME SwapInv, SwapInv', TruthInv, NEW o \in Op, NEW a \in Attempt,
           NEW result \in {"received", "refused"}, Relay(o, a, result)
    PROVE  TruthInv'
<1>0. TypeOK /\ TurnInv(o) /\ PacketCommitted(o) /\ FirstIsRecorded(o)
  BY DEF SwapInv, TruthInv
<1>1. /\ \A p \in Op \ {o} : packet'[p] = packet[p]
      /\ \A b \in Attempt :
            packet'[o][b] = IF b = a THEN result ELSE packet[o][b]
      /\ packet[o][a] = "inFlight" /\ tx' = tx
  BY <1>0 DEF Relay, TypeOK
<1>2. \A b \in Attempt : packet[o][b] = "received" => packet'[o][b] = "received"
  BY <1>1
<1>3. PacketCommitted(o)'
  BY <1>0, <1>1 DEF PacketCommitted
<1>4. TurnInv(o)'
  <2>1. /\ BridgeDelivered(o) => BridgeDelivered(o)'
        /\ SwapCommitted(o) => SwapCommitted(o)'
    BY <1>1, <1>2 DEF BridgeDelivered, SwapCommitted
  <2> QED BY <1>0, <1>1, <2>1 DEF TurnInv
<1>5. UNCHANGED <<operations, proofVars, writeVars>> /\ Flow /\ (Unread => Unread')
  BY StoreFlow DEF Relay, Unread, Known, workVars, lookVars, writeVars
<1>6. FirstIsRecorded(o)'
  BY <1>0, <1>1, <1>5 DEF FirstIsRecorded, First, writeVars
<1> QED BY <1>1, <1>2, <1>3, <1>4, <1>5, <1>6, ChainTruth

\* The broadcast: the flag that lets the worker send the second step is true,
\* and a first step that is sent is the only one of its kind.
LEMMA BroadcastTruth ==
    ASSUME SwapInv, SwapInv', TruthInv, NEW o \in Op, worker[o] = "recording",
           tx' = [tx EXCEPT ![o][NextStep(o, operations[o])][NextHash(o)] = "sent"],
           Settle(<<"worker", o>>, TRUE, <<>>),
           UNCHANGED <<operations, proofVars, packet>>
    PROVE  TruthInv'
<1> DEFINE s == NextStep(o, operations[o])
           a == NextHash(o)
           f == First(o)
<1>0. /\ TypeOK /\ ~Unread /\ s \in Step /\ f \in Step
      /\ TurnInv(o) /\ PacketCommitted(o) /\ FirstIsRecorded(o)
      /\ Truthful(o, operations[o]) /\ operations[o] \in Operation
      /\ a # 0 /\ tx[o][s][a] = "unsent"
  BY NotUnread, FirstIsStep DEF SwapInv, TypeOK, TruthInv, NextStep, Step, OperationInv,
     UnsentWhileRecording
<1>1. a \in Attempt
  BY <1>0, HashIsAttempt DEF NextHash
<1>2. /\ \A p \in Op \ {o} : tx'[p] = tx[p] /\ packet'[p] = packet[p]
      /\ \A t \in Step, b \in Attempt :
            tx'[o][t][b] = IF t = s /\ b = a THEN "sent" ELSE tx[o][t][b]
      /\ packet' = packet
  BY <1>0, <1>1 DEF TypeOK
<1>3. \A t \in Step, b \in Attempt :
         tx[o][t][b] \in {"ok", "failed"} => tx'[o][t][b] = tx[o][t][b]
  BY <1>0, <1>2
<1>4. PacketCommitted(o)'
  BY <1>0, <1>2, <1>3 DEF PacketCommitted, Step
<1>5. TurnInv(o)'
  <2>1. /\ BridgeDelivered(o) => BridgeDelivered(o)'
        /\ SwapCommitted(o) => SwapCommitted(o)'
    BY <1>2, <1>3 DEF BridgeDelivered, SwapCommitted, Step
  <2>2. /\ o \notin ToEpix /\ s = "swap" => BridgeDelivered(o)
        /\ o \in ToEpix /\ s = "bridge" => SwapCommitted(o)
    BY <1>0 DEF NextStep, Truthful
  <2> QED BY <1>0, <1>2, <2>1, <2>2 DEF TurnInv, Step
<1>6. Flow /\ disk' = snapshot /\ snapshot[o].hash = operations[o].hash
      /\ (snapshot' = operations \/ snapshot' = snapshot)
  BY SettleFlow DEF Settle, SwapInv, QueueInv, WriteHasHash
<1>7. FirstIsRecorded(o)'
  <2> SUFFICES ASSUME NEW b \in Attempt, tx'[o][f][b] # "unsent"
               PROVE  operations[o].hash[f] = b
    BY <1>6 DEF FirstIsRecorded, First
  <2>1. CASE tx[o][f][b] # "unsent"
    BY <1>0, <2>1 DEF FirstIsRecorded
  <2>2. CASE f = s /\ b = a
    BY <2>2 DEF NextHash
  <2> QED BY <1>0, <1>2, <2>1, <2>2
<1> QED BY <1>0, <1>2, <1>3, <1>4, <1>5, <1>6, <1>7, ChainTruth

LEMMA HashSavedTruth ==
    ASSUME SwapInv, SwapInv', TruthInv, NEW o \in Op, NEW ok \in BOOLEAN, HashSaved(o, ok)
    PROVE  TruthInv'
<1> DEFINE r == operations[o]
           s == NextStep(o, r)
           q == Unsent(r, s)
<1>0. /\ worker[o] = "recording" /\ ~Unread /\ r \in Operation /\ s \in Step
      /\ Truthful(o, r) /\ FirstIsRecorded(o)
      /\ NextHash(o) # 0 /\ tx[o][s][NextHash(o)] = "unsent"
      /\ UNCHANGED <<proofVars, packet>>
  BY NotUnread DEF HashSaved, SwapInv, TypeOK, NextStep, Step, OperationInv,
     UnsentWhileRecording, TruthInv
<1>1. CASE /\ ok /\ UNCHANGED operations
           /\ tx' = [tx EXCEPT ![o][s][operations[o].hash[s]] = "sent"]
           /\ Settle(<<"worker", o>>, ok, <<>>)
  BY <1>0, <1>1, BroadcastTruth DEF NextHash
<1>2. CASE /\ Becomes(o, q) /\ UNCHANGED tx
           /\ Settle(<<"worker", o>>, ok, <<<<"worker", o>>>>)
  <2>1. q \in Operation /\ Truthful(o, q) /\ q.hash = [r.hash EXCEPT ![s] = 0]
    BY <1>0, UnsentRecord, TruthfulRecords
  <2>2. \/ q.hash[First(o)] = r.hash[First(o)]
        \/ \A b \in Attempt : tx[o][First(o)][b] = "unsent"
    <3>1. CASE First(o) = s
      BY <1>0, <3>1 DEF NextHash, FirstIsRecorded
    <3>2. CASE First(o) # s
      BY <1>0, <2>1, <3>2, FirstIsStep, RecordTypes
    <3> QED BY <3>1, <3>2
  <2>3. UNCHANGED <<proofVars, chainVars>> /\ Flow
    BY <1>0, <1>2, SettleFlow DEF chainVars
  <2>4. \A p \in Op : ProofsHold(p)'
    BY <2>3, SameChain DEF TruthInv, ProofsHold, proofVars
  <2> QED BY <1>0, <1>2, <2>1, <2>2, <2>3, <2>4, TruthStep
<1> QED BY <1>1, <1>2 DEF HashSaved

LEMMA RestartTruth ==
    ASSUME SwapInv, SwapInv', TruthInv, NEW stored \in {disk, snapshot},
           NEW readable \in BOOLEAN, Restart(stored, readable)
    PROVE  TruthInv'
<1>0. UNCHANGED chainVars
  BY DEF Restart
<1>1. ASSUME NEW o \in Op
      PROVE  /\ stored[o] \in Operation /\ Truthful(o, stored[o])
             /\ \A a \in Attempt : tx[o][First(o)][a] # "unsent" =>
                   stored[o].hash[First(o)] = a
             /\ disk'[o] = stored[o] /\ snapshot'[o] = stored[o]
             /\ operations'[o] = IF readable THEN Restored(o, stored[o]) ELSE NoOperation
  BY DEF SwapInv, TypeOK, TruthInv, FirstIsRecorded, Restart
<1>2. ASSUME NEW o \in Op
      PROVE  /\ Truthful(o, operations'[o])
             /\ readable => operations'[o].hash = stored[o].hash
  <2>1. Truthful(o, NoOperation)
    BY DEF Truthful, NoOperation
  <2>2. Restored(o, stored[o]).hash = stored[o].hash
    BY <1>1, RestoredRecord
  <2>3. Truthful(o, Restored(o, stored[o]))
    BY <1>1, TruthfulRecords
  <2> QED BY <1>1, <2>1, <2>2, <2>3
<1>3. ~readable => Unread'
  BY <1>1, RecordTypes DEF Unread, Known, Restart
<1>4. ASSUME NEW o \in Op
      PROVE  /\ Truthful(o, operations[o])' /\ Truthful(o, snapshot[o])'
             /\ Truthful(o, disk[o])'
  BY <1>0, <1>1, <1>2, SameChain DEF Truthful
<1>5. ASSUME NEW o \in Op PROVE FirstIsRecorded(o)'
  BY <1>0, <1>1, <1>2, <1>3 DEF FirstIsRecorded, First, chainVars
<1>6. ASSUME NEW o \in Op PROVE ProofsHold(o)' /\ PacketCommitted(o)' /\ TurnInv(o)'
  BY <1>0, SameChain DEF ProofsHold, TruthInv, Restart
<1> QED BY <1>4, <1>5, <1>6 DEF TruthInv

LEMMA InitTruth == Init => TruthInv
<1> SUFFICES ASSUME Init PROVE TruthInv
  OBVIOUS
<1>1. ASSUME NEW o \in Op
      PROVE  /\ operations[o] = NoOperation /\ snapshot[o] = NoOperation
             /\ disk[o] = NoOperation
  BY DEF Init
<1>2. ASSUME NEW o \in Op
      PROVE  /\ Truthful(o, NoOperation) /\ ProofsHold(o) /\ PacketCommitted(o)
             /\ FirstIsRecorded(o) /\ TurnInv(o)
  BY FirstIsStep DEF Init, Truthful, NoOperation, ProofsHold,
     PacketCommitted, FirstIsRecorded, TurnInv, Step
<1> QED BY <1>1, <1>2 DEF TruthInv

LEMMA NextTruth == SwapInv /\ SwapInv' /\ TruthInv /\ [Next]_vars => TruthInv'
<1> SUFFICES ASSUME SwapInv, SwapInv', TruthInv, [Next]_vars PROVE TruthInv'
  OBVIOUS
<1>1. ASSUME NEW o \in Op, Observe(o) PROVE TruthInv'
  BY <1>1, ObserveSwapTruth, ObserveBridgeTruth, ObserveAckTruth DEF Observe
<1>2. ASSUME NEW o \in Op, RefreshStep(o) PROVE TruthInv'
  BY <1>2, RefreshTruth DEF RefreshStep
<1>3. ASSUME NEW o \in Op, Work(o) \/ Timer(o) PROVE TruthInv'
  BY <1>3, WorkTruth, SignedTruth DEF Work
<1>4. ASSUME NEW o \in Op, NEW ok \in BOOLEAN, SaveEnds(o, ok) PROVE TruthInv'
  BY <1>4, SavedTruth, HashSavedTruth DEF SaveEnds
<1>5. CASE User
  <2>1. ASSUME NEW p \in reviews, Start(p) PROVE TruthInv'
    BY <2>1, StartTruth
  <2>2. ASSUME NEW o \in Op, Refresh(o) \/ PrepareResume(o) PROVE TruthInv'
    BY <2>2, RefreshTruth
  <2>3. ASSUME \/ \E o \in Op : PrepareNew(o)
               \/ \E p \in preparing : PrepareReview(p)
               \/ \E p \in preparing \cup reviews : DropPlan(p)
               \/ \E v \in Vault \cup {Locked} : ChangeContext(v)
        PROVE  TruthInv'
    BY <2>3, QuietTruth DEF PrepareNew, PrepareReview, DropPlan, ChangeContext
  <2> QED BY <1>5, <2>1, <2>2, <2>3 DEF User
<1>6. CASE UNCHANGED vars \/ \E o \in Op : Tick(o)
  BY <1>6, QuietTruth DEF Tick, vars
<1>7. CASE Chain
  BY <1>7, CommitTruth, RelayTruth DEF Chain
<1>8. ASSUME NEW stored \in {disk, snapshot}, NEW readable \in BOOLEAN,
             Restart(stored, readable)
      PROVE  TruthInv'
  BY <1>8, RestartTruth
<1> QED BY <1>1, <1>2, <1>3, <1>4, <1>5, <1>6, <1>7, <1>8 DEF Next

\* The flags and outcomes that the service holds - in memory, in the store and
\* in the write under way - are true of the chains (observe() of service.ts
\* sets them from what the chains answer, and init() clears those it must ask
\* for again).
THEOREM RecordsAreTrue == Spec => []TruthInv
<1>1. Init => TruthInv
  BY InitTruth
<1>2. SwapInv /\ SwapInv' /\ TruthInv /\ [Next]_vars => TruthInv'
  BY NextTruth
<1> QED BY <1>1, <1>2, SwapInvariant, PTL DEF Spec

\* The second transaction of a route leaves the wallet only after the first one
\* reached its end on chain: run() sends it only when the flag of the first is
\* set, and the flag is true.
THEOREM SecondFollows == Spec => []SecondAfterFirst
<1>1. TruthInv => SecondAfterFirst
  BY DEF TruthInv, TurnInv, SecondAfterFirst
<1> QED BY <1>1, RecordsAreTrue, PTL

\* A failed first step is the only one that was ever sent: nothing moves.
LEMMA FailedMovesNothing ==
    ASSUME SwapInv, TruthInv, NEW o \in Op, FirstFailed(o)
    PROVE  /\ \A a \in Attempt : ~Live(o, First(o), a)
           /\ \A s \in Step, a \in Attempt : tx[o][s][a] # "ok"
<1>0. FirstIsRecorded(o) /\ TurnInv(o) /\ PacketCommitted(o)
  BY DEF TruthInv
<1>1. PICK b \in Attempt : tx[o][First(o)][b] = "failed"
  BY DEF FirstFailed
<1>2. ASSUME NEW a \in Attempt, tx[o][First(o)][a] # "unsent" PROVE a = b
  BY <1>0, <1>1, <1>2 DEF FirstIsRecorded
<1>3. ASSUME NEW a \in Attempt PROVE tx[o][First(o)][a] \notin {"sent", "ok"}
  BY <1>1, <1>2
<1>4. ASSUME NEW s \in Step, NEW a \in Attempt, s # First(o) PROVE tx[o][s][a] # "ok"
  <2>1. CASE o \in ToEpix
    BY <1>0, <1>3, <1>4, <2>1, FirstIsStep DEF TurnInv, SwapCommitted, Step
  <2>2. CASE o \notin ToEpix
    BY <1>0, <1>3, <1>4, <2>2, FirstIsStep
       DEF TurnInv, BridgeDelivered, PacketCommitted, Step
  <2> QED BY <2>1, <2>2
<1> QED BY <1>3, <1>4 DEF Live

\* A finished record, in memory or stored, tells the truth: "complete" was set
\* by a proof that the output arrived, "failed" by a failed first transaction,
\* which is never sent again.
THEOREM OutcomesAreTrue == Spec => []OutcomeIsTrue
<1>1. SwapInv /\ TruthInv => OutcomeIsTrue
  BY FailedMovesNothing DEF TruthInv, Truthful, Arrived, OutcomeIsTrue, First
<1> QED BY <1>1, SwapInvariant, RecordsAreTrue, PTL

-----------------------------------------------------------------------------
(* The service implements the ledger of its two chains. *)

LEMMA FailureIsStill == SwapInv /\ TruthInv => FailedIsStill
BY FailedMovesNothing DEF FailedIsStill

\* The effects on the two chains that the ledger sees.
SameEffects ==
    \A o \in Op :
        /\ \A s \in Step, a \in Attempt : tx'[o][s][a] = "ok" <=> tx[o][s][a] = "ok"
        /\ BridgeDelivered(o)' <=> BridgeDelivered(o)

LEMMA LedgerBegins == Init => Ledger!LedgerInit
<1> SUFFICES ASSUME Init PROVE Ledger!LedgerInit
  OBVIOUS
<1>1. ASSUME NEW o \in Op
      PROVE  /\ Committed(o) = [s \in Step |-> {}]
             /\ BridgeDelivered(o) = FALSE
             /\ ~Finished(disk[o])
  BY <1>1 DEF Init, Committed, BridgeDelivered, Finished, NoOperation
<1>2. [o \in Op |-> Committed(o)] = [o \in Op |-> [s \in Step |-> {}]]
  BY <1>1
<1>3. [o \in Op |-> BridgeDelivered(o)] = [o \in Op |-> FALSE]
  BY <1>1
<1>4. [o \in Op |-> IF Finished(disk[o]) THEN disk[o].status ELSE "open"]
        = [o \in Op |-> "open"]
  BY <1>1
<1> QED BY <1>2, <1>3, <1>4 DEF Ledger!LedgerInit, Ledger!Step, Step

\* A step that has no effect on the chains reports at most what is true.
LEMMA ReportStep ==
    ASSUME SwapInv', TruthInv', FailedIsStill', SameEffects
    PROVE  \E claims \in [Op -> {"open", "complete", "failed"}] : Ledger!Report(claims)
<1>1. PICK claims \in [Op -> {"open", "complete", "failed"}] :
         claims = [o \in Op |-> IF Finished(disk'[o]) THEN disk'[o].status ELSE "open"]
  BY DEF Finished
<1>2. ASSUME NEW o \in Op
      PROVE  /\ Committed(o)' = Committed(o)
             /\ BridgeDelivered(o)' = BridgeDelivered(o)
  <2>1. \A s \in Step, a \in Attempt : tx'[o][s][a] = "ok" <=> tx[o][s][a] = "ok"
    BY DEF SameEffects
  <2>2. \A s \in Step : {a \in Attempt : tx'[o][s][a] = "ok"}
                          = {a \in Attempt : tx[o][s][a] = "ok"}
    BY <2>1
  <2>3. Committed(o)' = Committed(o)
    BY <2>2 DEF Committed
  <2>4. BridgeDelivered(o)' = BridgeDelivered(o)
    BY DEF SameEffects, BridgeDelivered
  <2> QED BY <2>3, <2>4
<1>3. ASSUME NEW o \in Op, claims[o] = "complete"
      PROVE  IF o \in ToEpix THEN BridgeDelivered(o)
             ELSE Committed(o)["swap"] # {}
  <2>1. disk'[o].status = "complete"
    BY <1>1, <1>3
  <2>2. Arrived(o)'
    BY <2>1 DEF TruthInv, Truthful
  <2> QED BY <1>2, <2>2 DEF Arrived, SwapCommitted, Committed, Step, SameEffects
<1>4. ASSUME NEW o \in Op, claims[o] = "failed"
      PROVE  \A s \in Step : Committed(o)[s] = {}
  <2>1. disk'[o].status = "failed"
    BY <1>1, <1>4
  <2>2. FirstFailed(o)'
    BY <2>1 DEF TruthInv, Truthful
  <2> QED BY <2>2 DEF FailedIsStill, Committed, SameEffects
<1>5. [o \in Op |-> Committed(o)]' = [o \in Op |-> Committed(o)]
  BY <1>2
<1>6. [o \in Op |-> BridgeDelivered(o)]' = [o \in Op |-> BridgeDelivered(o)]
  BY <1>2
<1>7. Ledger!Report(claims)
  BY <1>1, <1>3, <1>4, <1>5, <1>6 DEF Ledger!Report, Ledger!Arrived, Ledger!Step, Step
<1> QED BY <1>1, <1>7

\* Nothing but a commitment and a delivery has an effect there.
LEMMA OtherSteps ==
    ASSUME SwapInv, [Next]_vars,
           ~\E o \in Op, s \in Step, a \in Attempt : Commit(o, s, a, "ok"),
           ~\E o \in Op, a \in Attempt : Relay(o, a, "received")
    PROVE  SameEffects
<1>1. CASE UNCHANGED chainVars
  BY <1>1, SameChain DEF SameEffects, chainVars
<1>2. ASSUME NEW o \in Op, NEW ok \in BOOLEAN, HashSaved(o, ok) PROVE SameEffects
  <2> DEFINE s == NextStep(o, operations[o])
             a == NextHash(o)
  <2>1. \/ UNCHANGED chainVars
        \/ packet' = packet /\ tx' = [tx EXCEPT ![o][s][a] = "sent"]
    BY <1>2 DEF HashSaved, NextHash, chainVars
  <2>2. tx[o][s][a] = "unsent" /\ TypeOK
    BY <1>2 DEF HashSaved, SwapInv, OperationInv, UnsentWhileRecording
  <2>3. ASSUME packet' = packet, tx' = [tx EXCEPT ![o][s][a] = "sent"]
        PROVE  SameEffects
    <3>1. ASSUME NEW p \in Op, NEW t \in Step, NEW b \in Attempt
          PROVE  tx'[p][t][b] = "ok" <=> tx[p][t][b] = "ok"
      BY <2>2, <2>3 DEF TypeOK
    <3>2. ASSUME NEW p \in Op PROVE BridgeDelivered(p)' <=> BridgeDelivered(p)
      BY <2>3 DEF BridgeDelivered
    <3> QED BY <3>1, <3>2 DEF SameEffects
  <2> QED BY <1>1, <2>1, <2>3
<1>3. ASSUME NEW o \in Op, NEW s \in Step, NEW a \in Attempt, Commit(o, s, a, "failed")
      PROVE  SameEffects
  <2>1. ASSUME NEW p \in Op, NEW t \in Step, NEW b \in Attempt
        PROVE  tx'[p][t][b] = "ok" <=> tx[p][t][b] = "ok"
    BY <1>3 DEF Commit, SwapInv, TypeOK
  <2>2. ASSUME NEW p \in Op PROVE BridgeDelivered(p)' <=> BridgeDelivered(p)
    BY <1>3 DEF BridgeDelivered, Commit
  <2> QED BY <2>1, <2>2 DEF SameEffects
<1>4. ASSUME NEW o \in Op, NEW a \in Attempt, Relay(o, a, "refused") PROVE SameEffects
  BY <1>4 DEF SameEffects, Relay, BridgeDelivered, SwapInv, TypeOK
<1>5. ASSUME NEW o \in Op, Observe(o) \/ RefreshStep(o) \/ Work(o) \/ Timer(o) \/ Tick(o)
      PROVE  UNCHANGED chainVars
  <2>1. Observe(o) => UNCHANGED chainVars
    BY DEF Observe, ObserveSwap, ObserveBridge, ObserveAck
  <2>2. RefreshStep(o) => UNCHANGED chainVars
    BY DEF RefreshStep, RefreshObserved, RefreshThrew
  <2>3. Work(o) => UNCHANGED chainVars
    BY DEF Work, Run, RunObserved, Prepared, Signed, BroadcastReturned, WorkerThrows
  <2> QED BY <1>5, <2>1, <2>2, <2>3 DEF Timer, Tick
<1>6. ASSUME NEW o \in Op, NEW ok \in BOOLEAN, SaveEnds(o, ok) PROVE SameEffects
  <2>1. SaveEnds(o, ok) /\ ~HashSaved(o, ok) => UNCHANGED chainVars
    BY DEF SaveEnds, StartSaved, StartPaused, RefreshSaved, WorkerSaved, PauseSaved
  <2> QED BY <1>1, <1>2, <1>6, <2>1
<1>7. User => UNCHANGED chainVars
  BY DEF User, PrepareNew, PrepareResume, Refresh, PrepareReview, DropPlan, Start,
     ChangeContext
<1>8. Chain => SameEffects
  BY <1>3, <1>4 DEF Chain
<1>9. /\ UNCHANGED vars => UNCHANGED chainVars
      /\ \A stored \in {disk, snapshot}, readable \in BOOLEAN :
            Restart(stored, readable) => UNCHANGED chainVars
  BY DEF vars, Restart
<1> QED BY <1>1, <1>5, <1>6, <1>7, <1>8, <1>9 DEF Next

\* A transaction that commits is the first of its step, after the step before
\* it, and no record claims the outcome yet.
LEMMA CommitStep ==
    ASSUME SwapInv, TruthInv, FailedIsStill, NEW o \in Op, NEW s \in Step,
           NEW a \in Attempt, Commit(o, s, a, "ok")
    PROVE  Ledger!TakeEffect(o, s)
<1>0. /\ TypeOK /\ tx[o][s][a] = "sent" /\ Live(o, s, a)
      /\ TurnInv(o) /\ PacketCommitted(o) /\ Truthful(o, disk[o])
      /\ UNCHANGED disk
  BY DEF Commit, SwapInv, TruthInv, Live, writeVars
<1>1. ASSUME NEW b \in Attempt PROVE tx[o][s][b] # "ok"
  <2> SUFFICES ASSUME tx[o][s][b] = "ok" PROVE FALSE
    OBVIOUS
  <2>1. Live(o, s, b)
    BY DEF Live
  <2>2. disk[o].hash[s] = a /\ disk[o].hash[s] = b
    BY <1>0, <2>1 DEF SwapInv, StoreInv
  <2> QED BY <1>0, <2>2
<1>2. Committed(o)[s] = {}
  BY <1>1 DEF Committed
<1>3. s = First(o) \/ IF o \in ToEpix THEN SwapCommitted(o) ELSE BridgeDelivered(o)
  BY <1>0, FirstIsStep DEF TurnInv, Step
<1>4. ~Finished(disk[o])
  <2>1. CASE disk[o].status = "complete"
    <3>1. BridgeDelivered(o) /\ SwapCommitted(o)
      BY <1>0, <2>1 DEF Truthful, Arrived, TurnInv, PacketCommitted, BridgeDelivered,
         SwapCommitted
    <3>2. \E b \in Attempt : tx[o]["bridge"][b] = "ok"
      BY <1>0, <3>1 DEF BridgeDelivered, PacketCommitted
    <3> QED BY <1>1, <3>1, <3>2 DEF SwapCommitted, Step
  <2>2. CASE disk[o].status = "failed"
    <3>1. FirstFailed(o)
      BY <1>0, <2>2 DEF Truthful
    <3>2. /\ ~Live(o, First(o), a)
          /\ \A t \in Step, b \in Attempt : tx[o][t][b] # "ok"
      BY <3>1 DEF FailedIsStill
    <3>3. s # First(o)
      BY <1>0, <3>2
    <3> QED BY <1>0, <1>3, <3>2, <3>3 DEF SwapCommitted, BridgeDelivered, PacketCommitted, Step
  <2> QED BY <2>1, <2>2 DEF Finished
<1>5. ASSUME NEW p \in Op
      PROVE  Committed(p)' = IF p = o THEN [Committed(p) EXCEPT ![s] = {a}]
                             ELSE Committed(p)
  <2>1. \A t \in Step, b \in Attempt :
           tx'[p][t][b] = IF p = o /\ t = s /\ b = a THEN "ok" ELSE tx[p][t][b]
    BY <1>0 DEF Commit, TypeOK
  <2>2. CASE p = o
    <3>1. \A t \in Step : Committed(p)'[t] = IF t = s THEN {a} ELSE Committed(p)[t]
      BY <1>1, <2>1, <2>2 DEF Committed
    <3> QED BY <2>2, <3>1 DEF Committed
  <2>3. CASE p # o
    BY <2>1, <2>3 DEF Committed
  <2> QED BY <2>2, <2>3
<1>6. ASSUME NEW p \in Op PROVE BridgeDelivered(p)' = BridgeDelivered(p)
  <2>1. s = "bridge" => packet[o][a] # "received"
    BY <1>0 DEF PacketCommitted
  <2>2. \A b \in Attempt : packet'[p][b] = "received" <=> packet[p][b] = "received"
    BY <1>0, <2>1 DEF Commit, TypeOK
  <2> QED BY <2>2 DEF BridgeDelivered
<1>7. [p \in Op |-> Committed(p)]'
        = [[p \in Op |-> Committed(p)] EXCEPT ![o][s] = {a}]
  BY <1>5
<1>8. /\ [p \in Op |-> BridgeDelivered(p)]' = [p \in Op |-> BridgeDelivered(p)]
      /\ [p \in Op |-> IF Finished(disk[p]) THEN disk[p].status ELSE "open"]'
           = [p \in Op |-> IF Finished(disk[p]) THEN disk[p].status ELSE "open"]
  BY <1>0, <1>6
<1>9. Ledger!Ready(o, s)
  BY <1>3, FirstIsStep DEF Ledger!Ready, SwapCommitted, Committed, Step
<1> QED BY <1>2, <1>4, <1>7, <1>8, <1>9 DEF Ledger!TakeEffect

LEMMA DeliverStep ==
    ASSUME SwapInv, TruthInv, NEW o \in Op, NEW a \in Attempt, Relay(o, a, "received")
    PROVE  Ledger!Deliver(o) \/ UNCHANGED Ledger!ledger
<1>0. /\ TypeOK /\ packet[o][a] = "inFlight" /\ UNCHANGED <<tx, disk>>
      /\ PacketCommitted(o)
  BY DEF Relay, SwapInv, TruthInv, writeVars
<1>1. Committed(o)["bridge"] # {}
  BY <1>0 DEF PacketCommitted, Committed, Step
<1>2. ASSUME NEW p \in Op
      PROVE  BridgeDelivered(p)' = IF p = o THEN TRUE ELSE BridgeDelivered(p)
  <2>1. \A b \in Attempt :
           packet'[p][b] = IF p = o /\ b = a THEN "received" ELSE packet[p][b]
    BY <1>0 DEF Relay, TypeOK
  <2> QED BY <2>1 DEF BridgeDelivered
<1>3. /\ [p \in Op |-> Committed(p)]' = [p \in Op |-> Committed(p)]
      /\ [p \in Op |-> IF Finished(disk[p]) THEN disk[p].status ELSE "open"]'
           = [p \in Op |-> IF Finished(disk[p]) THEN disk[p].status ELSE "open"]
  BY <1>0 DEF Committed
<1>4. [p \in Op |-> BridgeDelivered(p)]'
        = [[p \in Op |-> BridgeDelivered(p)] EXCEPT ![o] = TRUE]
  BY <1>2
<1>5. CASE BridgeDelivered(o)
  <2>1. [p \in Op |-> BridgeDelivered(p)]' = [p \in Op |-> BridgeDelivered(p)]
    <3>1. BridgeDelivered(o) = TRUE
      BY <1>5 DEF BridgeDelivered
    <3> QED BY <1>2, <3>1
  <2> QED BY <1>3, <2>1 DEF Ledger!ledger
<1>6. CASE ~BridgeDelivered(o)
  BY <1>1, <1>3, <1>4, <1>6 DEF Ledger!Deliver
<1> QED BY <1>5, <1>6

\* Seen from the chains and the store, the service does what SwapLedger allows:
\* dispatch() records a hash before it sends and never resends, run() waits for
\* the first step, and a finished record rests on a proof.
THEOREM LedgerIsImplemented == Spec => ImplementsLedger
<1>1. Init => Ledger!LedgerInit
  BY LedgerBegins
<1>2. ASSUME SwapInv, TruthInv, FailedIsStill, SwapInv', TruthInv', FailedIsStill',
             [Next]_vars
      PROVE  Ledger!LedgerNext \/ UNCHANGED Ledger!ledger
  <2>1. ASSUME NEW o \in Op, NEW s \in Step, NEW a \in Attempt, Commit(o, s, a, "ok")
        PROVE  Ledger!LedgerNext
    BY <1>2, <2>1, CommitStep DEF Ledger!LedgerNext, Ledger!Step, Step
  <2>2. ASSUME NEW o \in Op, NEW a \in Attempt, Relay(o, a, "received")
        PROVE  Ledger!LedgerNext \/ UNCHANGED Ledger!ledger
    BY <1>2, <2>2, DeliverStep DEF Ledger!LedgerNext
  <2>3. SameEffects => Ledger!LedgerNext
    BY <1>2, ReportStep DEF Ledger!LedgerNext
  <2> QED BY <1>2, <2>1, <2>2, <2>3, OtherSteps
<1>3. SwapInv /\ TruthInv => FailedIsStill
  BY FailureIsStill
<1>4. Spec => []FailedIsStill
  BY <1>3, SwapInvariant, RecordsAreTrue, PTL
<1> QED BY <1>1, <1>2, <1>4, SwapInvariant, RecordsAreTrue, PTL
        DEF Spec, ImplementsLedger, Ledger!LedgerSpec

-----------------------------------------------------------------------------
(* ConsentInv: what a step of one operation may do. *)

\* The other operations are left alone.
Elsewhere(o) ==
    \A p \in Op \ {o} :
        /\ operations'[p] = operations[p]
        /\ worker'[p] = worker[p]
        /\ approvals'[p] = approvals[p]

\* An approved operation that is open was so before the step.
StaysOpen(o) ==
    Approved(o)' /\ Open(operations'[o]) => Approved(o) /\ Open(operations[o])

\* The vault of an operation has no other open operation.
AloneOpen(o) ==
    \A p \in Op \ {o} : VaultOf[p] = VaultOf[o] => ~Open(operations[p])

LEMMA ConsentStep ==
    ASSUME ConsentInv, NEW o \in Op, Elsewhere(o),
           \A p \in Op \ {o} : allowed'[p] = allowed[p],
           SendsOpen(o)', Covered(o)', \A s \in Step : allowed'[o][s] >= 0,
           StaysOpen(o) \/ AloneOpen(o)
    PROVE  ConsentInv'
<1>1. ASSUME NEW p \in Op PROVE SendsOpen(p)' /\ Covered(p)'
  <2>1. CASE p = o
    BY <2>1
  <2>2. CASE p # o
    BY <2>2 DEF ConsentInv, Elsewhere, SendsOpen, Covered, Approved
  <2> QED BY <2>1, <2>2
<1>2. SendsAreAuthorized'
  <2>1. ASSUME NEW p \in Op, NEW s \in Step PROVE allowed'[p][s] >= 0
    BY DEF ConsentInv, SendsAreAuthorized
  <2> QED BY <2>1 DEF SendsAreAuthorized
<1>3. OneActiveSwapPerVault'
  <2> SUFFICES ASSUME NEW p \in Op, NEW q \in Op, VaultOf[p] = VaultOf[q],
                      Approved(p)', Approved(q)',
                      Open(operations'[p]), Open(operations'[q])
               PROVE  p = q
    BY DEF OneActiveSwapPerVault
  <2>1. CASE StaysOpen(o)
    BY <2>1 DEF StaysOpen, Elsewhere, Approved, ConsentInv, OneActiveSwapPerVault
  <2>2. CASE AloneOpen(o)
    BY <2>2 DEF AloneOpen, Elsewhere, Approved, ConsentInv, OneActiveSwapPerVault
  <2> QED BY <2>1, <2>2
<1> QED BY <1>1, <1>2, <1>3 DEF ConsentInv

\* A step that ends the approval, or keeps what it covers.
LEMMA ConsentKept ==
    ASSUME ConsentInv, NEW o \in Op, Elsewhere(o), UNCHANGED allowed, SendsOpen(o)',
           \/ approvals'[o] = "none"
           \/ /\ Approved(o)' => Approved(o)
              /\ operations'[o].hash = operations[o].hash
              /\ \/ worker'[o] # "recording"
                 \/ worker[o] = "recording" /\ operations'[o] = operations[o]
              /\ Open(operations'[o]) => Open(operations[o])
    PROVE  ConsentInv'
<1>1. StaysOpen(o)
  BY DEF StaysOpen, Approved
<1>2. Covered(o)'
  BY DEF Covered, Approved, ConsentInv
<1>3. \A s \in Step : allowed'[o][s] >= 0
  BY DEF ConsentInv, SendsAreAuthorized
<1> QED BY <1>1, <1>2, <1>3, ConsentStep

\* observe() opens no record.
LEMMA ObserveOpensNothing ==
    ASSUME TypeOK, NEW o \in Op
    PROVE  /\ \A r \in Operation :
                 AbsentHasNoHash(r) /\ ThenBridge(o, r) /\ Open(operations'[o]) => Open(r)
           /\ AbsentHasNoHash(operations[o]) /\ BeginObserve(o) /\ Open(operations'[o])
                => Open(operations[o])
<1>1. ASSUME NEW r \in Operation, AbsentHasNoHash(r)
      PROVE  /\ BridgeShortcut(o, r) \in Operation
             /\ BridgeShortcut(o, r).status \in {r.status, "complete"}
  BY <1>1, ReceivedClaims, ShortcutRecord DEF BridgeShortcut, SameHashes
<1>2. ASSUME NEW r \in Operation, AbsentHasNoHash(r), ThenBridge(o, r)
      PROVE  operations'[o].status \in {r.status, "complete"}
  BY <1>1, <1>2, BecomesEffect DEF ThenBridge, TypeOK
<1>3. ASSUME AbsentHasNoHash(operations[o]), BeginObserve(o),
             operations' # operations
      PROVE  operations'[o].status \in {operations[o].status, "complete"}
  <2> DEFINE q == SwapShortcut(o, operations[o])
  <2>1. q \in Operation /\ q.status = operations[o].status /\ AbsentHasNoHash(q)
    <3>1. SameHashes(operations[o], q)
      BY <1>3, ShortcutRecord DEF TypeOK
    <3>2. q.status = operations[o].status
      BY FlagRecord DEF SwapShortcut, TypeOK
    <3> QED BY <1>3, <3>1, <3>2 DEF SameHashes, AbsentHasNoHash
  <2>2. ThenBridge(o, q)
    BY <1>3 DEF BeginObserve
  <2> HIDE DEF q
  <2> QED BY <1>2, <2>1, <2>2
<1> QED BY <1>2, <1>3 DEF Open

-----------------------------------------------------------------------------
(* ConsentInv: the actions. *)

LEMMA ConsentObserve ==
    ASSUME SwapInv, ConsentInv, NEW o \in Op, Observe(o)
    PROVE  ConsentInv'
<1> DEFINE r == operations[o]
<1>0. /\ TypeOK /\ r \in Operation /\ AbsentHasNoHash(r) /\ Known(o)
      /\ worker[o] \notin {"preparing", "signing", "recording", "broadcasting"}
      /\ lookup[o] \in {"swap", "bridge", "ack"}
      /\ UNCHANGED <<worker, allowed>> /\ approvals \in [Op -> Approval]
  BY LookupKnown DEF SwapInv, TypeOK, OperationInv, Exclusive, Observe, ObserveSwap,
     ObserveBridge, ObserveAck, workVars, Known
<1>1. SendsOpen(o)'
  BY <1>0 DEF SendsOpen
<1>2. ASSUME NEW q \in Operation, Becomes(o, q),
             \/ approvals' = Without(o)
             \/ /\ UNCHANGED approvals /\ q.hash = r.hash
                /\ Open(q) => Open(r)
      PROVE  ConsentInv'
  <2>1. /\ operations'[o] = q
        /\ \A p \in Op \ {o} : operations'[p] = operations[p]
    BY <1>0, <1>2, BecomesEffect DEF TypeOK
  <2>2. Elsewhere(o) /\ (UNCHANGED approvals \/ approvals'[o] = "none")
    BY <1>0, <1>2, <2>1 DEF Elsewhere, Without
  <2>3. worker'[o] # "recording" /\ UNCHANGED allowed
    BY <1>0
  <2>4. CASE approvals' = Without(o)
    BY <1>1, <2>2, <2>3, <2>4, ConsentKept, <1>0 DEF Without
  <2>5. CASE UNCHANGED approvals /\ q.hash = r.hash /\ (Open(q) => Open(r))
    <3>1. Approved(o)' => Approved(o)
      BY <2>5 DEF Approved
    <3>2. operations'[o].hash = operations[o].hash
      BY <2>1, <2>5
    <3>3. Open(operations'[o]) => Open(operations[o])
      BY <2>1, <2>5
    <3> QED BY <1>1, <2>2, <2>3, <3>1, <3>2, <3>3, ConsentKept
  <2> QED BY <1>2, <2>4, <2>5
<1>3. ASSUME UNCHANGED <<operations, approvals>> PROVE ConsentInv'
  BY <1>0, <1>2, <1>3, Unmoved
<1>4. ASSUME NEW st \in {"complete", "failed"}, Becomes(o, WithStatus(r, st)),
             UNCHANGED approvals
      PROVE  ConsentInv'
  <2>1. /\ WithStatus(r, st) \in Operation /\ WithStatus(r, st).hash = r.hash
        /\ ~Open(WithStatus(r, st))
    BY <1>0, <1>4, StatusRecord DEF Open, Status
  <2> QED BY <1>2, <1>4, <2>1
<1>5. ASSUME NEW s \in Step, Becomes(o, Unsent(r, s)), approvals' = Without(o)
      PROVE  ConsentInv'
  BY <1>0, <1>2, <1>5, UnsentRecord
<1>6. ASSUME NEW q \in Operation, q.hash = r.hash, q.status = r.status,
             ThenBridge(o, q), UNCHANGED approvals
      PROVE  ConsentInv'
  <2>1. AbsentHasNoHash(q)
    BY <1>0, <1>6 DEF AbsentHasNoHash
  <2>2. /\ BridgeShortcut(o, q) \in Operation /\ BridgeShortcut(o, q).hash = r.hash
        /\ Becomes(o, BridgeShortcut(o, q))
    BY <1>6, <2>1, ShortcutRecord DEF SameHashes, ThenBridge
  <2>3. operations'[o] = BridgeShortcut(o, q)
    BY <1>0, <2>2, BecomesEffect DEF TypeOK
  <2>4. Open(BridgeShortcut(o, q)) => Open(r)
    BY <1>0, <1>6, <2>1, <2>3, ObserveOpensNothing DEF Open
  <2> QED BY <1>2, <1>6, <2>2, <2>4
<1>7. CASE ObserveSwap(o)
  <2>1. WithSwap(r, TRUE) \in Operation /\ WithSwap(r, TRUE).hash = r.hash
        /\ WithSwap(r, TRUE).status = r.status
    BY <1>0, FlagRecord
  <2> QED BY <1>0, <1>3, <1>4, <1>5, <1>6, <1>7, <2>1 DEF ObserveSwap, Step
<1>8. CASE ObserveBridge(o)
  BY <1>3, <1>4, <1>5, <1>8 DEF ObserveBridge, Step
<1>9. CASE ObserveAck(o)
  <2>1. /\ WithDeposit(r, FALSE) \in Operation /\ WithDeposit(r, FALSE).hash = r.hash
        /\ WithDeposit(r, FALSE).status = r.status
    BY <1>0, FlagRecord
  <2>2. /\ Received(o, r) \in Operation /\ Received(o, r).hash = r.hash
        /\ Open(Received(o, r)) => Open(r)
    BY <1>0, ReceivedRecord, ReceivedClaims DEF Open
  <2>3. UNCHANGED approvals
    BY <1>9 DEF ObserveAck
  <2>4. \/ UNCHANGED operations \/ Becomes(o, Received(o, r))
        \/ Becomes(o, WithDeposit(r, FALSE))
    BY <1>9 DEF ObserveAck
  <2> QED BY <1>2, <1>3, <2>1, <2>2, <2>3, <2>4 DEF Open
<1> QED BY <1>7, <1>8, <1>9 DEF Observe

\* A step that leaves the records, the workers and the consent alone.
LEMMA ConsentQuiet ==
    ASSUME ConsentInv, UNCHANGED <<operations, worker, allowed>>,
           \A o \in Op : Approved(o)' <=> Approved(o)
    PROVE  ConsentInv'
<1>1. \A o \in Op : SendsOpen(o)' /\ Covered(o)'
  BY DEF ConsentInv, SendsOpen, Covered
<1>2. SendsAreAuthorized' /\ OneActiveSwapPerVault'
  BY DEF ConsentInv, SendsAreAuthorized, OneActiveSwapPerVault
<1> QED BY <1>1, <1>2 DEF ConsentInv

\* The worker moves on and the record stays.
LEMMA ConsentMoves ==
    ASSUME SwapInv, ConsentInv, NEW o \in Op, NEW w \in Workers \ {"recording"},
           worker' = [worker EXCEPT ![o] = w], UNCHANGED <<operations, allowed>>,
           UNCHANGED approvals \/ approvals' = Without(o),
           w \in {"preparing", "signing", "broadcasting"} => Open(operations[o])
    PROVE  ConsentInv'
<1>0. worker'[o] = w /\ \A p \in Op \ {o} : worker'[p] = worker[p]
  BY DEF SwapInv, TypeOK
<1>1. /\ \A p \in Op \ {o} : approvals'[p] = approvals[p]
      /\ Approved(o)' => Approved(o)
  BY DEF SwapInv, TypeOK, Without, Approved
<1> QED BY <1>0, <1>1, ConsentKept DEF Elsewhere, SendsOpen

\* pause() of a worker ends the approval.
LEMMA ConsentPaused ==
    ASSUME SwapInv, ConsentInv, NEW o \in Op, WorkerPaused(o), UNCHANGED allowed
    PROVE  ConsentInv'
<1>0. TypeOK
  BY DEF SwapInv
<1>1. /\ worker'[o] = "pausing"
      /\ \A p \in Op \ {o} : operations'[p] = operations[p] /\ worker'[p] = worker[p]
  BY <1>0, PausedEffect
<1>2. approvals'[o] = "none" /\ \A p \in Op \ {o} : approvals'[p] = approvals[p]
  BY <1>0 DEF WorkerPaused, Without, TypeOK
<1> QED BY <1>1, <1>2, ConsentKept DEF Elsewhere, SendsOpen

LEMMA ConsentThrows ==
    ASSUME SwapInv, ConsentInv, NEW o \in Op, WorkerThrows(o) \/ PauseWorker(o),
           UNCHANGED allowed
    PROVE  ConsentInv'
BY ConsentPaused DEF WorkerThrows, PauseWorker

\* observe() begins, for a worker or a refresh.
LEMMA ConsentBegins ==
    ASSUME SwapInv, ConsentInv, NEW o \in Op, BeginObserve(o),
           UNCHANGED <<approvals, allowed>>,
           \A p \in Op \ {o} : worker'[p] = worker[p],
           worker'[o] \in {"idle", "launched", "observing"}
    PROVE  ConsentInv'
<1>0. TypeOK /\ AbsentHasNoHash(operations[o])
  BY DEF SwapInv, OperationInv
<1>1. /\ operations'[o].hash = operations[o].hash
      /\ \A p \in Op \ {o} : operations'[p] = operations[p]
  BY BeginObserveEffect DEF SameHashes
<1>2. Open(operations'[o]) => Open(operations[o])
  BY <1>0, ObserveOpensNothing
<1> QED BY <1>1, <1>2, ConsentKept DEF Elsewhere, SendsOpen, Approved

LEMMA ConsentRefresh ==
    ASSUME SwapInv, ConsentInv, NEW o \in Op,
           Refresh(o) \/ PrepareResume(o) \/ RefreshStep(o)
    PROVE  ConsentInv'
<1>1. ASSUME UNCHANGED <<operations, worker, allowed, approvals>> PROVE ConsentInv'
  BY <1>1, ConsentQuiet DEF Approved
<1>2. CASE Refresh(o) \/ PrepareResume(o)
  <2>1. UNCHANGED <<worker, allowed, approvals>> /\ worker[o] = "idle"
    BY <1>2 DEF Refresh, PrepareResume, workVars, Running
  <2>2. BeginObserve(o) \/ UNCHANGED operations
    BY <1>2 DEF Refresh, PrepareResume
  <2> QED BY <1>1, <2>1, <2>2, ConsentBegins
<1>3. CASE RefreshObserved(o)
  BY <1>1, <1>3 DEF RefreshObserved, workVars
<1>4. CASE RefreshThrew(o)
  BY <1>1, <1>4, ConsentThrows DEF RefreshThrew
<1> QED BY <1>2, <1>3, <1>4 DEF RefreshStep

LEMMA ConsentSigned ==
    ASSUME SwapInv, ConsentInv, NEW o \in Op, Signed(o)
    PROVE  ConsentInv'
<1> DEFINE r == operations[o]
           s == NextStep(o, r)
<1>0. /\ TypeOK /\ r \in Operation /\ s \in Step /\ worker[o] = "signing"
      /\ NextHash(o) = 0 /\ SendsOpen(o) /\ Covered(o) /\ UNCHANGED allowed
      /\ worker \in [Op -> Workers]
  BY DEF Signed, WorkerThrows, SwapInv, TypeOK, NextStep, Step, OperationInv,
     NothingToResend, ConsentInv
<1>1. CASE WorkerThrows(o)
  BY <1>0, <1>1, ConsentThrows
<1>2. CASE ~WorkerThrows(o)
  <2>1. /\ worker' = [worker EXCEPT ![o] = "recording"] /\ UNCHANGED approvals
        /\ \E a \in NewHashes(o, s) : Becomes(o, WithHash(r, s, a))
    BY <1>2 DEF Signed
  <2>2. PICK a \in NewHashes(o, s) : Becomes(o, WithHash(r, s, a))
    BY <2>1
  <2>3. a \in Hash
    BY ConstantsAssumption DEF NewHashes, Attempt, Hash
  <2> DEFINE q == WithHash(r, s, a)
  <2>4. /\ q \in Operation /\ q.hash = [r.hash EXCEPT ![s] = a]
        /\ q.status = r.status /\ NextStep(o, q) = s
    BY <1>0, <2>3, HashRecord
  <2> HIDE DEF q
  <2>5. /\ operations'[o] = q /\ worker'[o] = "recording"
        /\ \A p \in Op \ {o} : operations'[p] = operations[p] /\ worker'[p] = worker[p]
    BY <1>0, <2>1, <2>2, <2>4, BecomesEffect DEF q, TypeOK
  <2>6. SendsOpen(o)' /\ StaysOpen(o)
    BY <1>0, <2>1, <2>4, <2>5 DEF SendsOpen, StaysOpen, Open, Approved
  <2>7. Covered(o)'
    <3> SUFFICES ASSUME Approved(o), NEW t \in Step, q.hash[t] = 0 \/ t = s
                 PROVE  allowed[o][t] >= 1
      BY <1>0, <2>1, <2>4, <2>5 DEF Covered, Approved
    <3>1. r.hash[t] = 0
      BY <1>0, <2>4, RecordTypes DEF NextHash
    <3> QED BY <1>0, <3>1 DEF Covered
  <2>8. \A t \in Step : allowed'[o][t] >= 0
    BY <1>0 DEF ConsentInv, SendsAreAuthorized
  <2>9. Elsewhere(o) /\ UNCHANGED allowed
    BY <1>0, <2>1, <2>5 DEF Elsewhere
  <2> QED BY <2>6, <2>7, <2>8, <2>9, ConsentStep
<1> QED BY <1>1, <1>2

LEMMA ConsentWork ==
    ASSUME SwapInv, ConsentInv, NEW o \in Op, Work(o) \/ Timer(o)
    PROVE  ConsentInv'
<1>0. /\ TypeOK /\ SendsOpen(o) /\ (worker[o] # "idle" => Known(o))
      /\ operations[o] \in Operation
  BY DEF SwapInv, TypeOK, OperationInv, ActiveIsKnown, ConsentInv
<1>1. CASE WorkerThrows(o)
  BY <1>1, ConsentThrows DEF WorkerThrows
<1>2. CASE Run(o) /\ ~WorkerThrows(o)
  <2>1. /\ worker'[o] = "observing"
        /\ \A p \in Op \ {o} : worker'[p] = worker[p]
    BY <1>0, <1>2 DEF Run, TypeOK
  <2> QED BY <1>2, <2>1, ConsentBegins DEF Run
<1>3. CASE RunObserved(o) /\ ~WorkerThrows(o)
  <2>1. CASE worker' = [worker EXCEPT ![o] = "saving"]
    BY <1>3, <2>1, ConsentMoves DEF RunObserved, Workers
  <2>2. CASE worker' = [worker EXCEPT ![o] = "preparing"] /\ ~Finished(operations[o])
    <3>1. Open(operations[o])
      BY <1>0, <1>3, <2>2 DEF RunObserved, Known, Finished, Open
    <3>2. UNCHANGED approvals \/ approvals' = Without(o)
      BY <1>3 DEF RunObserved
    <3>3. UNCHANGED <<operations, allowed>>
      BY <1>3 DEF RunObserved
    <3> QED BY <2>2, <3>1, <3>2, <3>3, ConsentMoves DEF Workers
  <2> QED BY <1>3, <2>1, <2>2 DEF RunObserved
<1>4. CASE Prepared(o) /\ ~WorkerThrows(o)
  <2>1. Open(operations[o])
    BY <1>0, <1>4 DEF Prepared, SendsOpen
  <2> QED BY <1>4, <2>1, ConsentMoves DEF Prepared, Workers
<1>5. CASE Signed(o)
  BY <1>5, ConsentSigned
<1>6. CASE BroadcastReturned(o) /\ ~WorkerThrows(o)
  <2> DEFINE st == SentStatus(NextStep(o, operations[o]))
             q == WithStatus(operations[o], st)
  <2>1. st \in Status
    BY DEF SentStatus, Status
  <2>2. q \in Operation /\ q.hash = operations[o].hash
    BY <1>0, <2>1, StatusRecord
  <2>3. /\ Becomes(o, q) /\ worker' = [worker EXCEPT ![o] = "saving"]
        /\ UNCHANGED <<approvals, allowed>>
    BY <1>6 DEF BroadcastReturned
  <2> HIDE DEF q
  <2>4. /\ operations'[o] = q /\ worker'[o] = "saving"
        /\ \A p \in Op \ {o} : operations'[p] = operations[p] /\ worker'[p] = worker[p]
    BY <1>0, <2>2, <2>3, BecomesEffect DEF TypeOK
  <2>5. Open(operations[o])
    BY <1>0, <1>6 DEF BroadcastReturned, SendsOpen
  <2> QED BY <2>2, <2>3, <2>4, <2>5, ConsentKept DEF Elsewhere, SendsOpen, Approved
<1>7. CASE Timer(o)
  <2>1. /\ \A p \in Op \ {o} : worker'[p] = worker[p]
        /\ worker'[o] = IF worker[o] = "idle" THEN "launched" ELSE worker[o]
    BY <1>0, <1>7, LaunchedEffect DEF Timer
  <2> QED BY <1>0, <1>7, <2>1, ConsentKept DEF Timer, Elsewhere, SendsOpen, Approved
<1> QED BY <1>1, <1>2, <1>3, <1>4, <1>5, <1>6, <1>7 DEF Work, Run, RunObserved,
        Prepared, BroadcastReturned

LEMMA ConsentHashSaved ==
    ASSUME SwapInv, ConsentInv, NEW o \in Op, NEW ok \in BOOLEAN, HashSaved(o, ok)
    PROVE  ConsentInv'
<1> DEFINE r == operations[o]
           s == NextStep(o, r)
<1>0. /\ TypeOK /\ r \in Operation /\ s \in Step /\ worker[o] = "recording"
      /\ NextHash(o) # 0 /\ SendsOpen(o) /\ Covered(o)
      /\ \A t \in Step : allowed[o][t] >= 0
      /\ allowed \in [Op -> [Step -> Int]] /\ worker \in [Op -> Workers]
  BY DEF HashSaved, SwapInv, TypeOK, NextStep, Step, OperationInv,
     UnsentWhileRecording, ConsentInv, SendsAreAuthorized
<1>1. CASE /\ Guard(o) /\ worker' = [worker EXCEPT ![o] = "broadcasting"]
           /\ allowed' = [allowed EXCEPT ![o][s] = @ - 1]
           /\ UNCHANGED <<operations, approvals>>
  <2>1. allowed[o][s] >= 1
    BY <1>0, <1>1 DEF Covered, Guard, Approved
  <2>2. /\ worker'[o] = "broadcasting"
        /\ \A p \in Op \ {o} : worker'[p] = worker[p] /\ allowed'[p] = allowed[p]
        /\ \A t \in Step : allowed'[o][t] = IF t = s THEN allowed[o][s] - 1
                                            ELSE allowed[o][t]
    BY <1>0, <1>1
  <2>3. \A t \in Step : allowed'[o][t] >= 0
    BY <1>0, <2>1, <2>2
  <2>4. SendsOpen(o)' /\ StaysOpen(o)
    BY <1>0, <1>1 DEF SendsOpen, StaysOpen, Approved
  <2>5. Covered(o)'
    BY <1>0, <1>1, <2>2 DEF Covered, Approved, NextHash
  <2>6. Elsewhere(o)
    BY <1>1, <2>2 DEF Elsewhere
  <2> QED BY <2>2, <2>3, <2>4, <2>5, <2>6, ConsentStep
<1>2. CASE /\ Becomes(o, Unsent(r, s)) /\ approvals' = Without(o)
           /\ worker' = [worker EXCEPT ![o] = "pausing"] /\ UNCHANGED allowed
  <2>1. Unsent(r, s) \in Operation
    BY <1>0, UnsentRecord
  <2>2. \A p \in Op \ {o} : operations'[p] = operations[p]
    BY <1>0, <1>2, <2>1, BecomesEffect DEF TypeOK
  <2>3. /\ worker'[o] = "pausing" /\ approvals'[o] = "none"
        /\ \A p \in Op \ {o} : worker'[p] = worker[p] /\ approvals'[p] = approvals[p]
    BY <1>0, <1>2 DEF TypeOK, Without
  <2> QED BY <1>2, <2>2, <2>3, ConsentKept DEF Elsewhere, SendsOpen
<1> QED BY <1>1, <1>2 DEF HashSaved

LEMMA ConsentSaved ==
    ASSUME SwapInv, ConsentInv, NEW o \in Op, NEW ok \in BOOLEAN, SaveEnds(o, ok)
    PROVE  ConsentInv'
<1>0. /\ TypeOK /\ SendsOpen(o) /\ operations[o] \in Operation
  BY DEF SwapInv, TypeOK, ConsentInv
<1>1. CASE WorkerPaused(o) /\ UNCHANGED allowed
  BY <1>1, ConsentPaused
<1>2. CASE UNCHANGED <<operations, worker, allowed, approvals>>
  BY <1>2, ConsentQuiet DEF Approved
<1>3. CASE worker' = [worker EXCEPT ![o] = "idle"] /\ UNCHANGED <<operations, allowed, approvals>>
  BY <1>3, ConsentMoves DEF Workers
<1>4. CASE StartSaved(o, ok)
  <2>1. CASE ok
    <3>1. /\ \A p \in Op \ {o} : worker'[p] = worker[p]
          /\ worker'[o] = IF worker[o] = "idle" THEN "launched" ELSE worker[o]
      BY <1>0, <1>4, <2>1, LaunchedEffect DEF StartSaved
    <3> QED BY <1>0, <1>4, <2>1, <3>1, ConsentKept
            DEF StartSaved, Elsewhere, SendsOpen, Approved
  <2>2. CASE ~ok
    <3>1. /\ Becomes(o, WithStatus(operations[o], "paused")) /\ approvals' = Without(o)
          /\ UNCHANGED <<worker, allowed>>
      BY <1>4, <2>2 DEF StartSaved, BecomesPaused
    <3>2. /\ WithStatus(operations[o], "paused") \in Operation
          /\ Open(WithStatus(operations[o], "paused"))
      BY <1>0, StatusRecord DEF Open, Status
    <3>3. /\ operations'[o] = WithStatus(operations[o], "paused")
          /\ \A p \in Op \ {o} : operations'[p] = operations[p]
      BY <1>0, <3>1, <3>2, BecomesEffect DEF TypeOK
    <3>4. approvals'[o] = "none" /\ \A p \in Op \ {o} : approvals'[p] = approvals[p]
      BY <1>0, <3>1 DEF Without, TypeOK
    <3> QED BY <3>1, <3>2, <3>3, <3>4, ConsentKept DEF Elsewhere, SendsOpen
  <2> QED BY <2>1, <2>2
<1>5. CASE StartPaused(o, ok)
  BY <1>2, <1>5 DEF StartPaused, workVars
<1>6. CASE RefreshSaved(o, ok)
  BY <1>1, <1>2, <1>6 DEF RefreshSaved
<1>7. CASE HashSaved(o, ok)
  BY <1>7, ConsentHashSaved
<1>8. CASE WorkerSaved(o, ok)
  BY <1>1, <1>3, <1>8 DEF WorkerSaved
<1>9. CASE PauseSaved(o, ok)
  BY <1>3, <1>9 DEF PauseSaved
<1> QED BY <1>4, <1>5, <1>6, <1>7, <1>8, <1>9 DEF SaveEnds

LEMMA ConsentStart ==
    ASSUME SwapInv, ConsentInv, NEW p \in reviews, Start(p)
    PROVE  ConsentInv'
<1> DEFINE o == p.op
           q == MakeOperation(o, p.resumeState)
<1>0. /\ TypeOK /\ o \in Op /\ p.resumeState \in Operation /\ worker[o] = "idle"
      /\ UNCHANGED worker
  BY DEF Start, SwapInv, TypeOK, Plan, Running, workVars
<1>1. q \in Operation
  BY <1>0, MadeRecord
<1>2. Becomes(o, q)
  BY DEF Start
<1> HIDE DEF q
<1>3. \A b \in Op \ {o} : operations'[b] = operations[b]
  BY <1>0, <1>1, <1>2, BecomesEffect DEF TypeOK
<1>4. \A b \in Op \ {o} : approvals'[b] = approvals[b] /\ allowed'[b] = allowed[b]
  BY <1>0 DEF Start, TypeOK
<1>5. \A s \in Step : allowed'[o][s] = 1
  BY <1>0 DEF Start, TypeOK
<1>6. SendsOpen(o)' /\ Covered(o)' /\ \A s \in Step : allowed'[o][s] >= 0
  BY <1>0, <1>5 DEF SendsOpen, Covered
<1>7. AloneOpen(o)
  BY DEF Start, Available, AloneOpen
<1>8. Elsewhere(o)
  BY <1>0, <1>3, <1>4 DEF Elsewhere
<1> HIDE DEF o
<1> QED BY <1>0, <1>4, <1>6, <1>7, <1>8, ConsentStep

\* A lock, a wallet change or a restart takes every approval away.
LEMMA ConsentRevoked ==
    ASSUME ConsentInv, approvals' = [o \in Op |-> "none"],
           allowed' = [o \in Op |-> [s \in Step |-> 0]],
           \/ UNCHANGED <<operations, worker>>
           \/ worker' = [o \in Op |-> "idle"]
    PROVE  ConsentInv'
<1>1. ASSUME NEW o \in Op PROVE SendsOpen(o)' /\ Covered(o)' /\ ~Approved(o)'
  BY DEF ConsentInv, SendsOpen, Covered, Approved
<1>2. SendsAreAuthorized'
  BY DEF SendsAreAuthorized
<1> QED BY <1>1, <1>2 DEF ConsentInv, OneActiveSwapPerVault

LEMMA InitConsent == Init => ConsentInv
<1> SUFFICES ASSUME Init PROVE ConsentInv
  OBVIOUS
<1>1. ASSUME NEW o \in Op PROVE SendsOpen(o) /\ Covered(o) /\ ~Approved(o)
  BY DEF Init, SendsOpen, Covered, Approved
<1>2. SendsAreAuthorized
  BY DEF Init, SendsAreAuthorized
<1> QED BY <1>1, <1>2 DEF ConsentInv, OneActiveSwapPerVault

LEMMA NextConsent == SwapInv /\ ConsentInv /\ [Next]_vars => ConsentInv'
<1> SUFFICES ASSUME SwapInv, ConsentInv, [Next]_vars PROVE ConsentInv'
  OBVIOUS
<1>1. ASSUME NEW o \in Op, Observe(o) \/ RefreshStep(o) \/ Work(o) \/ Timer(o)
      PROVE  ConsentInv'
  BY <1>1, ConsentObserve, ConsentRefresh, ConsentWork
<1>2. ASSUME UNCHANGED <<operations, worker, allowed, approvals>> PROVE ConsentInv'
  BY <1>2, ConsentQuiet DEF Approved
<1>3. ASSUME NEW o \in Op, Tick(o) PROVE ConsentInv'
  <2>1. \A p \in Op : Approved(p)' <=> Approved(p)
    BY <1>3 DEF Tick, Approved, SwapInv, TypeOK
  <2> QED BY <1>3, <2>1, ConsentQuiet DEF Tick, workVars
<1>4. ASSUME NEW o \in Op, NEW ok \in BOOLEAN, SaveEnds(o, ok) PROVE ConsentInv'
  BY <1>4, ConsentSaved
<1>5. CASE User
  <2>1. ASSUME NEW p \in reviews, Start(p) PROVE ConsentInv'
    BY <2>1, ConsentStart
  <2>2. ASSUME NEW o \in Op, Refresh(o) \/ PrepareResume(o) PROVE ConsentInv'
    BY <2>2, ConsentRefresh
  <2>3. ASSUME NEW v \in Vault \cup {Locked}, ChangeContext(v) PROVE ConsentInv'
    BY <2>3, ConsentRevoked DEF ChangeContext, workVars
  <2>4. ASSUME \/ \E o \in Op : PrepareNew(o)
               \/ \E p \in preparing : PrepareReview(p)
               \/ \E p \in preparing \cup reviews : DropPlan(p)
        PROVE  ConsentInv'
    BY <1>2, <2>4 DEF PrepareNew, PrepareReview, DropPlan, workVars
  <2> QED BY <1>5, <2>1, <2>2, <2>3, <2>4 DEF User
<1>6. CASE Chain \/ UNCHANGED vars
  BY <1>2, <1>6 DEF Chain, Commit, Relay, vars, workVars
<1>7. ASSUME NEW stored \in {disk, snapshot}, NEW readable \in BOOLEAN,
             Restart(stored, readable)
      PROVE  ConsentInv'
  BY <1>7, ConsentRevoked DEF Restart
<1> QED BY <1>1, <1>3, <1>4, <1>5, <1>6, <1>7 DEF Next

\* What an approval still covers: an approved operation may send each step that
\* it has not sent, and only open operations send.
THEOREM ConsentInvariant == Spec => []ConsentInv
<1>1. Init => ConsentInv
  BY InitConsent
<1>2. SwapInv /\ ConsentInv /\ [Next]_vars => ConsentInv'
  BY NextConsent
<1> QED BY <1>1, <1>2, SwapInvariant, PTL DEF Spec

\* No broadcast without a start() of the user since the last lock, wallet
\* change or restart, and no step twice under one start() (guard() of
\* service.ts, checked again before each broadcast).
THEOREM SendsCovered == Spec => []SendsAreAuthorized
<1>1. ConsentInv => SendsAreAuthorized
  BY DEF ConsentInv
<1> QED BY <1>1, ConsentInvariant, PTL

\* Two open operations of one wallet are never approved together: start()
\* refuses a second one, and nothing opens a record again under an approval.
THEOREM OneActiveSwap == Spec => []OneActiveSwapPerVault
<1>1. ConsentInv => OneActiveSwapPerVault
  BY DEF ConsentInv
<1> QED BY <1>1, ConsentInvariant, PTL

-----------------------------------------------------------------------------
(* LookupInv: what a step of one operation may do. *)

\* The other operations are left alone.
OthersKeep(o) ==
    \A p \in Op \ {o} :
        /\ operations'[p] = operations[p]
        /\ worker'[p] = worker[p]
        /\ timers'[p] = timers[p]
        /\ lookup'[p] = lookup[p]
        /\ StartQueued(p)' => StartQueued(p)

ProofsKept ==
    verifiedSwaps \subseteq verifiedSwaps' /\ verifiedReceipts \subseteq verifiedReceipts'

SameClaims(r, q) ==
    /\ q.hash = r.hash
    /\ q.depositConfirmed = r.depositConfirmed
    /\ q.swapConfirmed = r.swapConfirmed

\* What the flags of a record in use, and the lookup that works on it, say.
LookupFits(o, q, k) ==
    /\ q.swapConfirmed => SwapProven(o, q)
    /\ q.depositConfirmed => o \in verifiedReceipts
    /\ k = "swap" => ~q.swapConfirmed
    /\ k \in {"bridge", "ack"} => ~q.depositConfirmed
    /\ k = "threw" => ~Resolved(q)

LEMMA FitsInUse ==
    ASSUME NEW o \in Op
    PROVE  FlagsProven(o) /\ LookupUnresolved(o)
              <=> (InUse(o) => LookupFits(o, operations[o], lookup[o]))
BY DEF FlagsProven, LookupUnresolved, LookupFits

LEMMA UseStep ==
    ASSUME LookupInv, NEW o \in Op, OthersKeep(o), ProofsKept, Flow, PlansResolved',
           FlagsProven(o)', LookupUnresolved(o)', LookupIsKnown(o)',
           AbsentClaimsNothing(operations'[o])
    PROVE  LookupInv'
<1>1. ASSUME NEW p \in Op
      PROVE  FlagsProven(p)' /\ LookupUnresolved(p)' /\ LookupIsKnown(p)'
  <2>1. CASE p = o
    BY <2>1
  <2>2. CASE p # o
    <3>1. /\ operations'[p] = operations[p] /\ lookup'[p] = lookup[p]
          /\ InUse(p)' => InUse(p)
      BY <2>2 DEF OthersKeep, InUse
    <3>2. FlagsProven(p) /\ LookupUnresolved(p) /\ LookupIsKnown(p)
      BY DEF LookupInv
    <3>3. SwapProven(p, operations[p]) => SwapProven(p, operations[p])'
      BY <3>1 DEF SwapProven, ProofsKept
    <3>4. FlagsProven(p)'
      BY <3>1, <3>2, <3>3 DEF FlagsProven, ProofsKept
    <3>5. LookupUnresolved(p)' /\ LookupIsKnown(p)'
      BY <3>1, <3>2 DEF LookupUnresolved, LookupIsKnown, Known
    <3> QED BY <3>4, <3>5
  <2> QED BY <2>1, <2>2
<1>2. ASSUME NEW p \in Op
      PROVE  /\ AbsentClaimsNothing(operations[p])'
             /\ AbsentClaimsNothing(snapshot[p])'
             /\ AbsentClaimsNothing(disk[p])'
  <2>1. /\ AbsentClaimsNothing(operations[p]) /\ AbsentClaimsNothing(snapshot[p])
        /\ AbsentClaimsNothing(disk[p])
    BY DEF LookupInv
  <2>2. AbsentClaimsNothing(operations'[p])
    BY <2>1 DEF OthersKeep
  <2> QED BY <2>1, <2>2 DEF Flow
<1> QED BY <1>1, <1>2 DEF LookupInv

\* A step that sets the record and the lookup of o, and nothing in use anew.
LEMMA UseRecord ==
    ASSUME LookupInv, NEW o \in Op, OthersKeep(o), ProofsKept, Flow, PlansResolved',
           NEW q, operations'[o] = q, NEW k, lookup'[o] = k,
           InUse(o)' => InUse(o),
           InUse(o) => LookupFits(o, q, k)',
           k # "idle" => q.status # "none",
           AbsentClaimsNothing(q)
    PROVE  LookupInv'
<1>1. FlagsProven(o)' /\ LookupUnresolved(o)'
  BY DEF FlagsProven, LookupUnresolved, LookupFits, SwapProven
<1>2. LookupIsKnown(o)'
  BY DEF LookupIsKnown, Known
<1> QED BY <1>1, <1>2, UseStep

\* A step that keeps hashes and flags.
LEMMA UseSame ==
    ASSUME LookupInv, NEW o \in Op, OthersKeep(o), Flow, PlansResolved',
           UNCHANGED proofVars, SameClaims(operations[o], operations'[o]),
           Known(o) => Known(o)', lookup'[o] \in {lookup[o], "idle"},
           InUse(o)' => InUse(o)
    PROVE  LookupInv'
<1> DEFINE r == operations[o]
<1>0. PICK q, k : q = operations'[o] /\ k = lookup'[o]
  OBVIOUS
<1>1. /\ InUse(o) => LookupFits(o, r, lookup[o])
      /\ LookupIsKnown(o) /\ AbsentClaimsNothing(r)
  BY FitsInUse DEF LookupInv
<1>2. InUse(o) => LookupFits(o, q, k)'
  BY <1>0, <1>1 DEF LookupFits, SameClaims, SwapProven, Resolved, proofVars
<1>3. AbsentClaimsNothing(q) /\ (k # "idle" => q.status # "none")
  BY <1>0, <1>1 DEF AbsentClaimsNothing, SameClaims, Known, LookupIsKnown
<1>4. ProofsKept
  BY DEF ProofsKept, proofVars
<1> QED BY <1>0, <1>2, <1>3, <1>4, UseRecord

LEMMA QueueFlow ==
    ASSUME SwapInv, NEW o \in Op, NEW k \in {"pause", "worker", "refresh", "start"}
    PROVE  /\ UNCHANGED writeTail => \A p \in Op : StartQueued(p)' => StartQueued(p)
           /\ Save(<<k, o>>) => \A p \in Op :
                 StartQueued(p)' => StartQueued(p) \/ (k = "start" /\ p = o)
           /\ \A ok \in BOOLEAN, more \in {<<>>, <<<<"worker", o>>>>, <<<<"pause", o>>>>} :
                 Settle(<<k, o>>, ok, more) =>
                    /\ StartQueued(o) \/ k # "start"
                    /\ \A p \in Op : StartQueued(p)' => StartQueued(p)
<1>0. writeTail \in Seq(Waiter)
  BY DEF SwapInv, TypeOK
<1>1. ASSUME Save(<<k, o>>), NEW p \in Op, StartQueued(p)'
      PROVE  StartQueued(p) \/ (k = "start" /\ p = o)
  <2>1. writeTail' = Append(writeTail, <<k, o>>) /\ <<k, o>> \in Waiter
    BY <1>1 DEF Save, Waiter
  <2>2. PICK i \in DOMAIN writeTail' : writeTail'[i] = <<"start", p>>
    BY <1>1 DEF StartQueued
  <2>3. \/ i \in DOMAIN writeTail /\ writeTail'[i] = writeTail[i]
        \/ writeTail'[i] = <<k, o>>
    BY <1>0, <2>1, <2>2
  <2> QED BY <2>2, <2>3 DEF StartQueued
<1>2. ASSUME NEW ok \in BOOLEAN,
             NEW more \in {<<>>, <<<<"worker", o>>>>, <<<<"pause", o>>>>},
             Settle(<<k, o>>, ok, more)
      PROVE  StartQueued(o) \/ k # "start"
  <2>1. writeTail[1] = <<k, o>> /\ 1 \in DOMAIN writeTail
    BY <1>0, <1>2 DEF Settle
  <2> QED BY <2>1 DEF StartQueued
<1>3. ASSUME NEW ok \in BOOLEAN,
             NEW more \in {<<>>, <<<<"worker", o>>>>, <<<<"pause", o>>>>},
             Settle(<<k, o>>, ok, more), NEW p \in Op, StartQueued(p)'
      PROVE  StartQueued(p)
  <2> DEFINE q == Tail(writeTail)
  <2>0. /\ writeTail' = q \o more /\ writeTail # <<>>
        /\ q \in Seq(Waiter) /\ Len(q) = Len(writeTail) - 1 /\ Len(writeTail) \in Nat
        /\ \A i \in 1 .. Len(q) : q[i] = writeTail[i + 1] /\ i + 1 \in DOMAIN writeTail
    BY <1>0, <1>3 DEF Settle
  <2>1. PICK i \in DOMAIN writeTail' : writeTail'[i] = <<"start", p>>
    BY <1>3 DEF StartQueued
  <2>2. more \in Seq(Waiter) /\ \A j \in DOMAIN more : more[j] # <<"start", p>>
    <3>1. CASE more = <<>>
      BY <3>1
    <3>2. CASE more = <<<<"worker", o>>>>
      BY <3>2 DEF Waiter
    <3>3. CASE more = <<<<"pause", o>>>>
      BY <3>3 DEF Waiter
    <3> QED BY <3>1, <3>2, <3>3
  <2> HIDE DEF q
  <2>3. \/ i \in 1 .. Len(q) /\ writeTail'[i] = q[i]
        \/ \E j \in DOMAIN more : writeTail'[i] = more[j]
    <3>1. CASE i \in 1 .. Len(q)
      BY <2>0, <2>2, <3>1
    <3>2. CASE i \notin 1 .. Len(q)
      <4>1. i \in 1 .. (Len(q) + Len(more))
        BY <2>0, <2>1, <2>2
      <4>2. /\ i - Len(q) \in 1 .. Len(more)
            /\ writeTail'[i] = more[i - Len(q)]
        BY <2>0, <2>2, <3>2, <4>1
      <4> QED BY <2>2, <4>2
    <3> QED BY <3>1, <3>2
  <2> QED BY <2>0, <2>1, <2>2, <2>3 DEF StartQueued
<1>4. UNCHANGED writeTail => \A p \in Op : StartQueued(p)' => StartQueued(p)
  BY DEF StartQueued
<1> QED BY <1>1, <1>2, <1>3, <1>4

-----------------------------------------------------------------------------
(* LookupInv: the actions. *)

\* The record of an operation in use gets another status.
LEMMA UseStatus ==
    ASSUME SwapInv, LookupInv, NEW o \in Op, InUse(o),
           NEW st \in Status \ {"none"}, Becomes(o, WithStatus(operations[o], st)),
           \A p \in Op \ {o} :
              worker'[p] = worker[p] /\ timers'[p] = timers[p] /\ lookup'[p] = lookup[p],
           \A p \in Op : StartQueued(p)' => StartQueued(p),
           lookup'[o] \in {lookup[o], "idle"}, UNCHANGED proofVars, Flow, PlansResolved'
    PROVE  LookupInv'
<1> DEFINE q == WithStatus(operations[o], st)
<1>1. operations[o] \in Operation /\ TypeOK
  BY DEF SwapInv, TypeOK
<1>2. q \in Operation /\ q.status = st /\ SameClaims(operations[o], q)
  BY <1>1, StatusRecord, RecordClaims DEF SameClaims
<1> HIDE DEF q
<1>3. /\ operations'[o] = q
      /\ \A p \in Op \ {o} : operations'[p] = operations[p]
  BY <1>1, <1>2, BecomesEffect DEF q, TypeOK
<1>4. OthersKeep(o) /\ Known(o)'
  BY <1>2, <1>3 DEF OthersKeep, Known
<1> QED BY <1>2, <1>3, <1>4, UseSame

\* The records stay as they are.
LEMMA UseQuiet ==
    ASSUME SwapInv, LookupInv, NEW o \in Op, UNCHANGED <<operations, proofVars>>,
           \A p \in Op \ {o} :
              worker'[p] = worker[p] /\ timers'[p] = timers[p] /\ lookup'[p] = lookup[p],
           \A p \in Op : StartQueued(p)' => StartQueued(p),
           InUse(o)' => InUse(o),
           lookup'[o] \in {lookup[o], "idle"}, Flow, PlansResolved'
    PROVE  LookupInv'
<1>1. OthersKeep(o) /\ SameClaims(operations[o], operations'[o])
  BY DEF OthersKeep, SameClaims
<1> QED BY <1>1, UseSame DEF Known

LEMMA UsePausedWorker ==
    ASSUME SwapInv, LookupInv, NEW o \in Op, WorkerPaused(o), worker[o] # "idle",
           \A p \in Op \ {o} : timers'[p] = timers[p] /\ lookup'[p] = lookup[p],
           \A p \in Op : StartQueued(p)' => StartQueued(p),
           lookup'[o] \in {lookup[o], "idle"}, UNCHANGED proofVars, Flow, PlansResolved'
    PROVE  LookupInv'
<1>1. InUse(o) /\ "paused" \in Status \ {"none"}
  BY DEF InUse, Status
<1>2. \A p \in Op \ {o} : worker'[p] = worker[p]
  BY DEF WorkerPaused, SwapInv, TypeOK
<1> QED BY <1>1, <1>2, UseStatus DEF WorkerPaused, BecomesPaused

LEMMA UseThrows ==
    ASSUME SwapInv, LookupInv, NEW o \in Op, PauseWorker(o), worker[o] # "idle",
           \A p \in Op \ {o} : lookup'[p] = lookup[p],
           lookup'[o] \in {lookup[o], "idle"},
           UNCHANGED <<timers, proofVars>>, PlansResolved'
    PROVE  LookupInv'
<1>1. Save(<<"worker", o>>) /\ WorkerPaused(o)
  BY DEF PauseWorker
<1>2. Flow /\ \A p \in Op : StartQueued(p)' => StartQueued(p)
  BY <1>1, QueueFlow, StoreFlow DEF Waiter
<1> QED BY <1>1, <1>2, UsePausedWorker

\* Plans are made of resolved records.
LEMMA PlansStay ==
    ASSUME PlansResolved, preparing' \subseteq preparing, reviews' \subseteq reviews
    PROVE  PlansResolved'
BY DEF PlansResolved

LEMMA RefreshOverPlans ==
    ASSUME PlansResolved, NEW o \in Op, NEW ok \in BOOLEAN, RefreshOver(o, ok),
           UNCHANGED reviews
    PROVE  PlansResolved'
BY DEF PlansResolved, RefreshOver

LEMMA UseRefresh ==
    ASSUME SwapInv, LookupInv, NEW o \in Op,
           RefreshStep(o) \/ \E ok \in BOOLEAN : RefreshSaved(o, ok)
    PROVE  LookupInv'
<1>0. PlansResolved /\ TypeOK
  BY DEF LookupInv, SwapInv
<1>1. CASE RefreshObserved(o)
  <2>1. Save(<<"refresh", o>>) /\ UNCHANGED <<operations, worker, timers, proofVars>>
    BY <1>1 DEF RefreshObserved, workVars
  <2>2. Flow /\ \A p \in Op : StartQueued(p)' => StartQueued(p)
    BY <2>1, QueueFlow, StoreFlow DEF Waiter
  <2>3. InUse(o)' => InUse(o)
    BY <2>1, <2>2 DEF InUse
  <2>4. lookup'[o] = "idle" /\ \A p \in Op \ {o} : lookup'[p] = lookup[p]
    BY <1>0, <1>1 DEF RefreshObserved, TypeOK
  <2>5. PlansResolved'
    BY <1>0, <1>1, PlansStay DEF RefreshObserved, planVars
  <2> QED BY <2>1, <2>2, <2>3, <2>4, <2>5, UseQuiet
<1>2. CASE RefreshThrew(o)
  <2>1. lookup'[o] = "idle" /\ \A p \in Op \ {o} : lookup'[p] = lookup[p]
    BY <1>0, <1>2 DEF RefreshThrew, TypeOK
  <2>2. PlansResolved'
    BY <1>0, <1>2, RefreshOverPlans DEF RefreshThrew
  <2>3. UNCHANGED <<timers, proofVars>>
    BY <1>2 DEF RefreshThrew
  <2>4. CASE worker[o] = "launched" /\ PauseWorker(o)
    BY <2>1, <2>2, <2>3, <2>4, UseThrows
  <2>5. CASE UNCHANGED <<operations, worker, writeVars>>
    <3>1. Flow /\ \A p \in Op : StartQueued(p)' => StartQueued(p)
      BY <2>5, StoreFlow DEF StartQueued, writeVars
    <3>2. InUse(o)' => InUse(o)
      BY <2>3, <2>5, <3>1 DEF InUse
    <3> QED BY <2>1, <2>2, <2>3, <2>5, <3>1, <3>2, UseQuiet
  <2> QED BY <1>2, <2>4, <2>5 DEF RefreshThrew
<1>3. ASSUME NEW ok \in BOOLEAN, RefreshSaved(o, ok) PROVE LookupInv'
  <2>1. PlansResolved' /\ UNCHANGED <<timers, lookup, proofVars>>
    BY <1>0, <1>3, RefreshOverPlans DEF RefreshSaved
  <2>2. \/ WorkerPaused(o) /\ worker[o] = "launched"
        \/ UNCHANGED <<operations, worker>>
    BY <1>3 DEF RefreshSaved
  <2>3. \/ Settle(<<"refresh", o>>, ok, <<<<"worker", o>>>>)
        \/ Settle(<<"refresh", o>>, ok, <<>>)
    BY <1>3 DEF RefreshSaved
  <2>4. Flow
    BY <2>3, SettleFlow
  <2>5. \A p \in Op : StartQueued(p)' => StartQueued(p)
    BY <2>3, QueueFlow
  <2>6. CASE WorkerPaused(o) /\ worker[o] = "launched"
    BY <2>1, <2>4, <2>5, <2>6, UsePausedWorker
  <2>7. CASE UNCHANGED <<operations, worker>>
    <3>1. InUse(o)' => InUse(o)
      BY <2>1, <2>5, <2>7 DEF InUse
    <3> QED BY <2>1, <2>4, <2>5, <2>7, <3>1, UseQuiet
  <2> QED BY <2>2, <2>6, <2>7
<1> QED BY <1>1, <1>2, <1>3 DEF RefreshStep

\* observe() goes on to the bridge: what it sets is proven, what it looks up
\* is not.
LEMMA ThenBridgeFits ==
    ASSUME TypeOK, NEW o \in Op, NEW r \in Operation, AbsentHasNoHash(r),
           ThenBridge(o, r), UNCHANGED verifiedReceipts,
           NEW q, q = operations'[o], NEW k, k = lookup'[o]
    PROVE  /\ q.status \in {r.status, "complete"}
           /\ \A p \in Op \ {o} : operations'[p] = operations[p] /\ lookup'[p] = lookup[p]
           /\ r.status # "none" => q.status # "none"
           /\ k \in {"bridge", "done"}
           /\ LookupFits(o, r, "done")' => LookupFits(o, q, k)'
<1> DEFINE b == BridgeShortcut(o, r)
<1>1. /\ b \in Operation /\ b.hash = r.hash
      /\ r.status # "none" => b.status # "none"
  BY ShortcutRecord DEF SameHashes
<1>2. /\ b.swapConfirmed = r.swapConfirmed
      /\ b = r \/ o \in verifiedReceipts
      /\ b.status \in {r.status, "complete"}
  BY ReceivedClaims DEF BridgeShortcut
<1>3. Becomes(o, b) /\ lookup' = [lookup EXCEPT ![o] = BridgeLookup(o, r)]
  BY DEF ThenBridge
<1>4. /\ BridgeLookup(o, r) \in {"bridge", "done"}
      /\ BridgeLookup(o, r) = "bridge" => b = r /\ o \notin verifiedReceipts
  BY DEF BridgeLookup, BridgeShortcut
<1> HIDE DEF b
<1>5. /\ q = b /\ \A p \in Op \ {o} : operations'[p] = operations[p]
  BY <1>1, <1>3, BecomesEffect DEF TypeOK
<1>6. /\ k = BridgeLookup(o, r) /\ \A p \in Op \ {o} : lookup'[p] = lookup[p]
  BY <1>3 DEF TypeOK
<1>7. ASSUME LookupFits(o, r, "done")' PROVE LookupFits(o, q, k)'
  <2>1. /\ r.swapConfirmed => o \in ToEpix /\ <<o, r.hash["swap"]>> \in verifiedSwaps'
        /\ r.depositConfirmed => o \in verifiedReceipts
    BY <1>7 DEF LookupFits, SwapProven
  <2>2. q.swapConfirmed => SwapProven(o, q)'
    BY <1>1, <1>2, <1>5, <2>1 DEF SwapProven
  <2>3. q.depositConfirmed => o \in verifiedReceipts'
    BY <1>2, <1>5, <2>1
  <2>4. k = "bridge" => ~q.depositConfirmed
    BY <1>4, <1>5, <1>6, <2>1
  <2> QED BY <1>4, <1>6, <2>2, <2>3, <2>4 DEF LookupFits
<1> QED BY <1>1, <1>2, <1>4, <1>5, <1>6, <1>7

\* observe() sets the record and the lookup of an operation.
LEMMA UseObserved ==
    ASSUME SwapInv, LookupInv, NEW o \in Op, Known(o),
           NEW q, operations'[o] = q, NEW k, lookup'[o] = k,
           \A p \in Op \ {o} :
              /\ operations'[p] = operations[p] /\ lookup'[p] = lookup[p]
              /\ worker'[p] = worker[p],
           UNCHANGED <<timers, writeVars, preparing, reviews>>, ProofsKept,
           worker[o] # "idle" \/ worker'[o] = worker[o],
           Finished(operations[o]) => Finished(q),
           q.status # "none",
           LookupFits(o, operations[o], lookup[o]) => LookupFits(o, q, k)'
    PROVE  LookupInv'
<1>1. Flow /\ \A p \in Op : StartQueued(p)' => StartQueued(p)
  BY StoreFlow DEF StartQueued, writeVars
<1>2. InUse(o)' => InUse(o)
  BY <1>1 DEF InUse
<1>3. InUse(o) => LookupFits(o, operations[o], lookup[o])
  BY FitsInUse DEF LookupInv
<1>4. OthersKeep(o)
  BY <1>1 DEF OthersKeep
<1>5. PlansResolved'
  BY PlansStay DEF LookupInv
<1>6. AbsentClaimsNothing(q)
  BY DEF AbsentClaimsNothing
<1> QED BY <1>1, <1>2, <1>3, <1>4, <1>5, <1>6, UseRecord

LEMMA UseBegins ==
    ASSUME SwapInv, LookupInv, NEW o \in Op, Known(o), BeginObserve(o),
           lookup[o] = "idle",
           \A p \in Op \ {o} : worker'[p] = worker[p],
           UNCHANGED <<timers, writeVars, preparing, reviews, proofVars>>,
           worker[o] # "idle" \/ worker'[o] = worker[o]
    PROVE  LookupInv'
<1>0. /\ TypeOK /\ AbsentHasNoHash(operations[o]) /\ operations[o] \in Operation
      /\ operations[o].status # "none" /\ ProofsKept
  BY DEF SwapInv, TypeOK, OperationInv, Known, ProofsKept, proofVars
<1>1. PICK r, q, k : r = operations[o] /\ q = operations'[o] /\ k = lookup'[o]
  OBVIOUS
<1>2. CASE r.hash["swap"] # 0 /\ ~SwapProven(o, r)
  <2>1. UNCHANGED operations /\ lookup' = [lookup EXCEPT ![o] = "swap"]
    BY <1>1, <1>2 DEF BeginObserve
  <2>2. k = "swap" /\ q = r /\ \A p \in Op \ {o} : lookup'[p] = lookup[p]
    BY <1>0, <1>1, <2>1 DEF TypeOK
  <2>3. LookupFits(o, r, "idle") => LookupFits(o, q, k)'
    BY <1>2, <2>2 DEF LookupFits, SwapProven, proofVars
  <2> QED BY <1>0, <1>1, <2>1, <2>2, <2>3, UseObserved
<1>3. CASE ~(r.hash["swap"] # 0 /\ ~SwapProven(o, r))
  <2>1. PICK s : s = SwapShortcut(o, r)
    OBVIOUS
  <2>2. /\ s \in Operation /\ AbsentHasNoHash(s)
    BY <1>0, <1>1, <2>1, ShortcutRecord DEF SameHashes, AbsentHasNoHash
  <2>3. /\ s.status = r.status /\ s.hash = r.hash
        /\ s.depositConfirmed = r.depositConfirmed
        /\ s.swapConfirmed => r.swapConfirmed \/ SwapProven(o, r)
    BY <1>0, <1>1, <2>1, FlagRecord, RecordClaims DEF SwapShortcut
  <2>4. ThenBridge(o, s) /\ UNCHANGED verifiedReceipts
    BY <1>1, <1>3, <2>1 DEF BeginObserve, proofVars
  <2>5. LookupFits(o, r, "idle") => LookupFits(o, s, "done")'
    BY <2>3 DEF LookupFits, SwapProven, proofVars
  <2>6. /\ q.status \in {r.status, "complete"}
        /\ \A p \in Op \ {o} : operations'[p] = operations[p] /\ lookup'[p] = lookup[p]
        /\ q.status # "none"
        /\ LookupFits(o, s, "done")' => LookupFits(o, q, k)'
    BY <1>0, <1>1, <2>2, <2>3, <2>4, ThenBridgeFits
  <2>7. Finished(operations[o]) => Finished(q)
    BY <1>1, <2>6 DEF Finished
  <2>8. LookupFits(o, operations[o], lookup[o]) => LookupFits(o, q, k)'
    BY <1>1, <2>5, <2>6
  <2> QED BY <1>0, <1>1, <2>6, <2>7, <2>8, UseObserved
<1> QED BY <1>2, <1>3

\* A finished record is not opened again by a failed second step: "complete"
\* and "failed" are true, so that its transaction did not fail.
LEMMA FinishedStays ==
    ASSUME SwapInv, TruthInv, NEW o \in Op, NEW s \in Step, lookup[o] = s,
           s # First(o), "failed" \in Lookups(o, s)
    PROVE  ~Finished(operations[o])
<1> DEFINE a == operations[o].hash[s]
<1>0. /\ ~Unread /\ a \in Attempt /\ tx[o][s][a] = "failed"
      /\ Truthful(o, operations[o]) /\ TurnInv(o) /\ PacketCommitted(o)
  BY NotUnread, LookupTells DEF TruthInv, Step
<1>1. IF o \in ToEpix THEN s = "bridge" ELSE s = "swap"
  BY FirstIsStep DEF Step
<1>2. ASSUME NEW b \in Attempt PROVE tx[o][s][b] # "ok"
  <2>1. tx[o][s][b] = "ok" => a = b
    BY <1>0 DEF SwapInv, MemoryRecords, Live
  <2> QED BY <1>0, <2>1
<1>3. operations[o].status # "complete"
  BY <1>0, <1>1, <1>2 DEF Truthful, Arrived, SwapCommitted, BridgeDelivered, PacketCommitted
<1>4. operations[o].status # "failed"
  <2> SUFFICES ASSUME FirstFailed(o) PROVE FALSE
    BY <1>0 DEF Truthful
  <2>1. \A t \in Step, b \in Attempt : tx[o][t][b] # "ok"
    BY FailedMovesNothing
  <2>2. IF o \in ToEpix THEN SwapCommitted(o) ELSE BridgeDelivered(o)
    BY <1>0, <1>1 DEF TurnInv
  <2> QED BY <1>0, <2>1, <2>2 DEF SwapCommitted, BridgeDelivered, PacketCommitted, Step
<1> QED BY <1>3, <1>4 DEF Finished

LEMMA UseObserve ==
    ASSUME SwapInv, TruthInv, LookupInv, NEW o \in Op, Observe(o)
    PROVE  LookupInv'
<1>0. /\ TypeOK /\ operations[o] \in Operation /\ Known(o)
      /\ AbsentHasNoHash(operations[o]) /\ LookupHasHash(o)
      /\ lookup[o] \in {"swap", "bridge", "ack"} /\ operations[o].status # "none"
      /\ UNCHANGED <<worker, timers, writeVars, preparing, reviews>>
  BY LookupKnown DEF SwapInv, TypeOK, OperationInv, Observe, ObserveSwap,
     ObserveBridge, ObserveAck, planVars, workVars, Known
<1>1. PICK r, q, k : r = operations[o] /\ q = operations'[o] /\ k = lookup'[o]
  OBVIOUS
<1>2. ASSUME NEW z \in Operation, Becomes(o, z), NEW j \in {"ack", "done", "threw"},
             EndObserve(o, j), ProofsKept, Finished(r) => Finished(z),
             z.status # "none",
             LookupFits(o, r, lookup[o]) => LookupFits(o, z, j)'
      PROVE  LookupInv'
  <2>1. q = z /\ \A p \in Op \ {o} : operations'[p] = operations[p]
    BY <1>0, <1>1, <1>2, BecomesEffect DEF TypeOK
  <2>2. k = j /\ \A p \in Op \ {o} : lookup'[p] = lookup[p]
    BY <1>0, <1>1, <1>2 DEF TypeOK, EndObserve
  <2> QED BY <1>0, <1>1, <1>2, <2>1, <2>2, UseObserved
<1>3. ASSUME UNCHANGED <<operations, proofVars>>, EndObserve(o, "threw") PROVE LookupInv'
  <2>1. LookupFits(o, r, lookup[o]) => LookupFits(o, r, "threw")'
    BY <1>0, <1>1, <1>3 DEF LookupFits, SwapProven, Resolved, proofVars, LookupHasHash
  <2>2. Becomes(o, r) /\ ProofsKept /\ r \in Operation /\ r.status # "none"
    BY <1>0, <1>1, <1>3, Unmoved DEF ProofsKept, proofVars
  <2> QED BY <1>2, <1>3, <2>1, <2>2
<1>4. ASSUME NEW st \in {"complete", "failed"}, Becomes(o, WithStatus(r, st)),
             EndObserve(o, "done"), UNCHANGED proofVars
      PROVE  LookupInv'
  <2>1. PICK z : z = WithStatus(r, st)
    OBVIOUS
  <2>2. z \in Operation /\ z.status = st /\ SameClaims(r, z)
    <3>1. r \in Operation /\ st \in Status
      BY <1>0, <1>1 DEF Status
    <3> QED BY <2>1, <3>1, StatusRecord, RecordClaims DEF SameClaims
  <2>3. LookupFits(o, r, lookup[o]) => LookupFits(o, z, "done")'
    BY <1>4, <2>2 DEF LookupFits, SwapProven, SameClaims, proofVars
  <2>4. Finished(z) /\ z.status # "none" /\ ProofsKept /\ Becomes(o, z)
    BY <1>4, <2>1, <2>2 DEF Finished, ProofsKept, proofVars
  <2> QED BY <1>2, <1>4, <2>2, <2>3, <2>4
<1>5. ASSUME NEW s \in Step, lookup[o] = s, s # First(o), "failed" \in Lookups(o, s),
             Becomes(o, Unsent(r, s)), EndObserve(o, "done"), UNCHANGED proofVars
      PROVE  LookupInv'
  <2>1. PICK z : z = Unsent(r, s)
    OBVIOUS
  <2>2. /\ z \in Operation /\ z.status = "paused" /\ z.hash = [r.hash EXCEPT ![s] = 0]
        /\ z.depositConfirmed = r.depositConfirmed /\ z.swapConfirmed = r.swapConfirmed
    BY <1>0, <1>1, <2>1, UnsentRecord, UnsentClaims
  <2>3. o \in ToEpix => z.hash["swap"] = r.hash["swap"]
    BY <1>0, <1>1, <1>5, <2>2, FirstIsStep, RecordTypes DEF Step
  <2>4. LookupFits(o, r, lookup[o]) => LookupFits(o, z, "done")'
    BY <1>5, <2>2, <2>3 DEF LookupFits, SwapProven, proofVars
  <2>5. ~Finished(r) /\ ProofsKept /\ Becomes(o, z)
    BY <1>1, <1>5, <2>1, FinishedStays DEF ProofsKept, proofVars
  <2> QED BY <1>2, <1>5, <2>2, <2>4, <2>5
<1>6. ASSUME NEW z \in Operation, z.hash = r.hash, z.status = r.status,
             ThenBridge(o, z), UNCHANGED verifiedReceipts, ProofsKept,
             LookupFits(o, r, lookup[o]) => LookupFits(o, z, "done")'
      PROVE  LookupInv'
  <2>1. AbsentHasNoHash(z)
    BY <1>0, <1>1, <1>6 DEF AbsentHasNoHash
  <2>2. /\ q.status \in {r.status, "complete"}
        /\ \A p \in Op \ {o} : operations'[p] = operations[p] /\ lookup'[p] = lookup[p]
        /\ q.status # "none"
        /\ LookupFits(o, z, "done")' => LookupFits(o, q, k)'
    BY <1>0, <1>1, <1>6, <2>1, ThenBridgeFits
  <2>3. Finished(r) => Finished(q)
    BY <2>2 DEF Finished
  <2> QED BY <1>0, <1>1, <1>6, <2>2, <2>3, UseObserved
<1>7. CASE ObserveSwap(o)
  <2>1. CASE "absent" \in Lookups(o, "swap") /\ ThenBridge(o, r) /\ UNCHANGED proofVars
    <3>1. LookupFits(o, r, lookup[o]) => LookupFits(o, r, "done")'
      BY <2>1 DEF LookupFits, SwapProven, proofVars
    <3> QED BY <1>0, <1>1, <1>6, <2>1, <3>1 DEF ProofsKept, proofVars
  <2>2. CASE /\ o \in ToEpix /\ ThenBridge(o, WithSwap(r, TRUE))
             /\ verifiedSwaps' = verifiedSwaps \cup {<<o, r.hash["swap"]>>}
             /\ UNCHANGED verifiedReceipts
    <3>1. PICK z : z = WithSwap(r, TRUE)
      OBVIOUS
    <3>2. /\ z \in Operation /\ z.hash = r.hash /\ z.status = r.status
          /\ z.depositConfirmed = r.depositConfirmed
      BY <1>0, <1>1, <3>1, FlagRecord, RecordClaims
    <3>3. LookupFits(o, r, lookup[o]) => LookupFits(o, z, "done")'
      BY <2>2, <3>2 DEF LookupFits, SwapProven
    <3>4. ThenBridge(o, z) /\ ProofsKept
      BY <2>2, <3>1 DEF ProofsKept
    <3> QED BY <1>6, <2>2, <3>2, <3>3, <3>4
  <2>3. CASE /\ "failed" \in Lookups(o, "swap") /\ o \notin ToEpix
             /\ Becomes(o, Unsent(r, "swap")) /\ EndObserve(o, "done")
             /\ UNCHANGED proofVars
    BY <1>5, <1>7, <2>3, FirstIsStep DEF ObserveSwap, Step
  <2> QED BY <1>1, <1>3, <1>4, <1>7, <2>1, <2>2, <2>3 DEF ObserveSwap, proofVars
<1>8. CASE ObserveBridge(o)
  <2>1. lookup[o] = "bridge" /\ UNCHANGED proofVars
    BY <1>8 DEF ObserveBridge
  <2>2. ASSUME NEW j \in {"ack", "done"}, EndObserve(o, j), UNCHANGED operations
        PROVE  LookupInv'
    <3>1. LookupFits(o, r, lookup[o]) => LookupFits(o, r, j)'
      BY <2>1, <2>2 DEF LookupFits, SwapProven, proofVars
    <3>2. Becomes(o, r) /\ ProofsKept /\ r \in Operation /\ r.status # "none"
      BY <1>0, <1>1, <2>1, <2>2, Unmoved DEF ProofsKept, proofVars
    <3> QED BY <1>2, <2>2, <3>1, <3>2
  <2>3. CASE /\ "failed" \in Lookups(o, "bridge") /\ o \in ToEpix
             /\ Becomes(o, Unsent(r, "bridge")) /\ EndObserve(o, "done")
    BY <1>5, <2>1, <2>3, FirstIsStep DEF Step
  <2> QED BY <1>1, <1>3, <1>4, <1>8, <2>1, <2>2, <2>3 DEF ObserveBridge
<1>9. CASE ObserveAck(o)
  <2>0. lookup[o] = "ack" /\ UNCHANGED verifiedSwaps
    BY <1>9 DEF ObserveAck
  <2>1. CASE EndObserve(o, "threw") /\ UNCHANGED <<operations, verifiedReceipts>>
    BY <1>3, <2>0, <2>1 DEF proofVars
  <2>2. CASE /\ Becomes(o, Received(o, r)) /\ EndObserve(o, "done")
             /\ verifiedReceipts' = verifiedReceipts \cup {o}
    <3>1. PICK z : z = Received(o, r)
      OBVIOUS
    <3>2. /\ z \in Operation /\ z.hash = r.hash /\ z.swapConfirmed = r.swapConfirmed
          /\ z.status \in {r.status, "complete"}
      BY <1>0, <1>1, <3>1, ReceivedRecord, ReceivedClaims
    <3>3. LookupFits(o, r, lookup[o]) => LookupFits(o, z, "done")'
      BY <2>0, <2>2, <3>2 DEF LookupFits, SwapProven
    <3>4. ProofsKept /\ (Finished(r) => Finished(z)) /\ z.status # "none"
      BY <1>0, <1>1, <2>0, <2>2, <3>2 DEF ProofsKept, Finished
    <3> QED BY <1>2, <2>2, <3>1, <3>2, <3>3, <3>4
  <2>3. ASSUME Becomes(o, WithDeposit(r, FALSE)), UNCHANGED verifiedReceipts,
               NEW j \in {"done", "threw"}, EndObserve(o, j)
        PROVE  LookupInv'
    <3>1. PICK z : z = WithDeposit(r, FALSE)
      OBVIOUS
    <3>2. /\ z \in Operation /\ z.hash = r.hash /\ z.swapConfirmed = r.swapConfirmed
          /\ z.status = r.status /\ ~z.depositConfirmed
      BY <1>0, <1>1, <3>1, FlagRecord, RecordClaims
    <3>3. ~Resolved(z)
      BY <1>0, <1>1, <2>0, <3>2 DEF LookupHasHash, Resolved
    <3>4. LookupFits(o, r, lookup[o]) => LookupFits(o, z, j)'
      BY <2>0, <2>3, <3>2, <3>3 DEF LookupFits, SwapProven
    <3>5. ProofsKept /\ (Finished(r) => Finished(z)) /\ z.status # "none"
      BY <1>0, <1>1, <2>0, <2>3, <3>2 DEF ProofsKept, Finished
    <3> QED BY <1>2, <2>3, <3>1, <3>2, <3>4, <3>5
  <2> QED BY <1>1, <1>9, <2>1, <2>2, <2>3 DEF ObserveAck
<1> QED BY <1>7, <1>8, <1>9 DEF Observe

LEMMA UseResume ==
    ASSUME SwapInv, LookupInv, NEW o \in Op, Refresh(o) \/ PrepareResume(o)
    PROVE  LookupInv'
<1>1. /\ Known(o) /\ UNCHANGED <<worker, timers, writeVars, preparing, reviews, proofVars>>
      /\ worker[o] = "idle"
  BY DEF Refresh, PrepareResume, workVars, planVars, Running
<1>2. CASE BeginObserve(o) /\ refreshing[o] = "no"
  <2>1. lookup[o] = "idle"
    BY <1>1, <1>2 DEF SwapInv, OperationInv, Exclusive
  <2> QED BY <1>1, <1>2, <2>1, UseBegins
<1>3. CASE UNCHANGED <<operations, lookup>>
  <2>1. Flow /\ \A p \in Op : StartQueued(p)' => StartQueued(p)
    BY <1>1, StoreFlow DEF StartQueued, writeVars
  <2>2. InUse(o)' => InUse(o)
    BY <1>1, <1>3, <2>1 DEF InUse
  <2>3. PlansResolved'
    BY <1>1, PlansStay DEF LookupInv
  <2> QED BY <1>1, <1>3, <2>1, <2>2, <2>3, UseQuiet
<1> QED BY <1>2, <1>3 DEF Refresh, PrepareResume, lookVars

\* A hash that the worker records, or takes back, is that of the next step:
\* no flag depends on it.
LEMMA UseHash ==
    ASSUME SwapInv, LookupInv, NEW o \in Op, worker[o] \in {"signing", "recording"},
           NEW q \in Operation, Becomes(o, q), NEW h \in Hash,
           q.hash = [operations[o].hash EXCEPT ![NextStep(o, operations[o])] = h],
           q.depositConfirmed = operations[o].depositConfirmed,
           q.swapConfirmed = operations[o].swapConfirmed, q.status # "none",
           \A p \in Op \ {o} : worker'[p] = worker[p],
           UNCHANGED <<timers, lookup, planVars, proofVars>>,
           Flow, \A p \in Op : StartQueued(p)' => StartQueued(p)
    PROVE  LookupInv'
<1>0. /\ TypeOK /\ lookup[o] = "idle" /\ operations[o] \in Operation
  BY DEF SwapInv, TypeOK, OperationInv, Exclusive
<1>1. PICK r : r = operations[o]
  OBVIOUS
<1>2. operations'[o] = q /\ \A p \in Op \ {o} : operations'[p] = operations[p]
  BY <1>0, BecomesEffect DEF TypeOK
<1>3. InUse(o) /\ LookupFits(o, r, "idle")
  BY <1>0, <1>1, FitsInUse DEF LookupInv, InUse
<1>4. o \in ToEpix /\ r.swapConfirmed => q.hash["swap"] = r.hash["swap"]
  BY <1>0, <1>1, RecordTypes DEF NextStep, Step
<1>5. LookupFits(o, q, "idle")'
  BY <1>1, <1>3, <1>4 DEF LookupFits, SwapProven, proofVars
<1>6. OthersKeep(o) /\ ProofsKept /\ AbsentClaimsNothing(q)
  BY <1>2 DEF OthersKeep, ProofsKept, proofVars, AbsentClaimsNothing
<1>7. PlansResolved' /\ lookup'[o] = "idle"
  BY <1>0, PlansStay DEF LookupInv, planVars
<1> QED BY <1>2, <1>3, <1>5, <1>6, <1>7, UseRecord

LEMMA UseSigned ==
    ASSUME SwapInv, LookupInv, NEW o \in Op, Signed(o), ~WorkerThrows(o)
    PROVE  LookupInv'
<1> DEFINE s == NextStep(o, operations[o])
<1>0. /\ TypeOK /\ operations[o] \in Operation /\ s \in Step /\ worker[o] = "signing"
      /\ operations[o].status # "none" /\ worker \in [Op -> Workers]
  BY DEF Signed, SwapInv, TypeOK, NextStep, Step, OperationInv, ActiveIsKnown, Known
<1>1. /\ worker' = [worker EXCEPT ![o] = "recording"] /\ Save(<<"worker", o>>)
      /\ UNCHANGED <<timers, lookup, planVars, proofVars>>
      /\ \E a \in NewHashes(o, s) : Becomes(o, WithHash(operations[o], s, a))
  BY DEF Signed
<1>2. PICK a \in NewHashes(o, s) : Becomes(o, WithHash(operations[o], s, a))
  BY <1>1
<1>3. a \in Hash
  BY ConstantsAssumption DEF NewHashes, Attempt, Hash
<1>4. PICK q : q = WithHash(operations[o], s, a)
  OBVIOUS
<1>5. /\ q \in Operation /\ q.hash = [operations[o].hash EXCEPT ![s] = a]
      /\ q.status = operations[o].status
  BY <1>0, <1>3, <1>4, HashRecord
<1>6. /\ q.depositConfirmed = operations[o].depositConfirmed
      /\ q.swapConfirmed = operations[o].swapConfirmed
  BY <1>0, <1>3, <1>4, HashClaims
<1>7. Flow /\ \A p \in Op : StartQueued(p)' => StartQueued(p)
  BY <1>1, QueueFlow, StoreFlow DEF Waiter
<1>8. \A p \in Op \ {o} : worker'[p] = worker[p]
  BY <1>0, <1>1
<1>9. Becomes(o, q) /\ q.status # "none"
  BY <1>0, <1>2, <1>4, <1>5
<1> QED BY <1>0, <1>1, <1>3, <1>5, <1>6, <1>7, <1>8, <1>9, UseHash

LEMMA UseWork ==
    ASSUME SwapInv, LookupInv, NEW o \in Op, Work(o) \/ Timer(o)
    PROVE  LookupInv'
<1>0. /\ TypeOK /\ worker \in [Op -> Workers] /\ timers \in [Op -> Nat]
      /\ lookup \in [Op -> {"idle", "swap", "bridge", "ack", "done", "threw"}]
      /\ PlansResolved /\ operations[o] \in Operation
  BY DEF SwapInv, TypeOK, LookupInv
<1>1. UNCHANGED <<planVars, proofVars>> => PlansResolved' /\ UNCHANGED proofVars
  BY <1>0, PlansStay DEF planVars
<1>2. CASE /\ WorkerThrows(o) /\ worker[o] # "idle"
           /\ UNCHANGED lookup \/ lookup' = [lookup EXCEPT ![o] = "idle"]
  <2>1. \A p \in Op \ {o} : lookup'[p] = lookup[p]
    BY <1>0, <1>2
  <2>2. lookup'[o] \in {lookup[o], "idle"}
    BY <1>0, <1>2
  <2>3. PauseWorker(o) /\ UNCHANGED <<timers, proofVars, planVars>>
    BY <1>2 DEF WorkerThrows
  <2> QED BY <1>1, <1>2, <2>1, <2>2, <2>3, UseThrows
<1>3. CASE Run(o) /\ ~WorkerThrows(o)
  <2>1. /\ worker[o] = "launched" /\ refreshing[o] = "no"
        /\ worker' = [worker EXCEPT ![o] = "observing"] /\ BeginObserve(o)
        /\ UNCHANGED <<planVars, timers, proofVars, writeVars>>
    BY <1>3 DEF Run
  <2>2. Known(o) /\ lookup[o] = "idle"
    BY <2>1 DEF SwapInv, OperationInv, Exclusive, ActiveIsKnown
  <2>3. \A p \in Op \ {o} : worker'[p] = worker[p]
    BY <1>0, <2>1
  <2> QED BY <2>1, <2>2, <2>3, UseBegins DEF planVars
<1>4. ASSUME NEW w \in Workers, worker' = [worker EXCEPT ![o] = w], worker[o] # "idle",
             UNCHANGED <<operations, timers, planVars, proofVars>>,
             UNCHANGED lookup \/ lookup' = [lookup EXCEPT ![o] = "idle"],
             UNCHANGED writeVars \/ Save(<<"worker", o>>)
      PROVE  LookupInv'
  <2>1. Flow /\ \A p \in Op : StartQueued(p)' => StartQueued(p)
    BY <1>4, QueueFlow, StoreFlow DEF writeVars, Waiter
  <2>2. /\ \A p \in Op \ {o} : worker'[p] = worker[p] /\ lookup'[p] = lookup[p]
        /\ lookup'[o] \in {lookup[o], "idle"} /\ InUse(o)
    BY <1>0, <1>4 DEF InUse
  <2> QED BY <1>1, <1>4, <2>1, <2>2, UseQuiet
<1>5. CASE RunObserved(o) /\ ~WorkerThrows(o)
  BY <1>4, <1>5 DEF RunObserved, Workers
<1>6. CASE Prepared(o) /\ ~WorkerThrows(o)
  BY <1>4, <1>6 DEF Prepared, Workers
<1>7. CASE BroadcastReturned(o) /\ ~WorkerThrows(o)
  <2> DEFINE st == SentStatus(NextStep(o, operations[o]))
  <2>1. st \in Status \ {"none"}
    BY DEF SentStatus, Status
  <2>2. /\ worker[o] = "broadcasting" /\ worker' = [worker EXCEPT ![o] = "saving"]
        /\ Becomes(o, WithStatus(operations[o], st)) /\ Save(<<"worker", o>>)
        /\ UNCHANGED <<planVars, timers, proofVars, lookup>>
    BY <1>7 DEF BroadcastReturned
  <2>3. Flow /\ \A p \in Op : StartQueued(p)' => StartQueued(p)
    BY <2>2, QueueFlow, StoreFlow DEF Waiter
  <2>4. /\ \A p \in Op \ {o} : worker'[p] = worker[p]
        /\ InUse(o)
    BY <1>0, <2>2 DEF InUse
  <2> HIDE DEF st
  <2> QED BY <1>1, <2>1, <2>2, <2>3, <2>4, UseStatus
<1>8. CASE Timer(o)
  <2>1. /\ timers[o] > 0 /\ timers' = [timers EXCEPT ![o] = @ - 1]
        /\ worker' = Launched(o)
        /\ UNCHANGED <<operations, lookup, planVars, proofVars, writeVars>>
    BY <1>8 DEF Timer, lookVars
  <2>2. /\ \A p \in Op \ {o} : worker'[p] = worker[p] /\ timers'[p] = timers[p]
        /\ InUse(o)
    BY <1>0, <2>1, LaunchedEffect DEF InUse
  <2>3. Flow /\ \A p \in Op : StartQueued(p)' => StartQueued(p)
    BY <2>1, StoreFlow DEF writeVars, StartQueued
  <2> QED BY <1>1, <2>1, <2>2, <2>3, UseQuiet
<1>9. CASE Signed(o) /\ ~WorkerThrows(o)
  BY <1>9, UseSigned
<1>10. CASE WorkerThrows(o) /\ Work(o)
  <2>1. worker'[o] = "pausing"
    BY <1>0, <1>10 DEF WorkerThrows, PauseWorker, WorkerPaused
  <2>2. CASE Run(o)
    BY <1>0, <1>2, <1>10, <2>1, <2>2 DEF Run
  <2>3. CASE RunObserved(o)
    BY <1>2, <1>10, <2>3 DEF RunObserved
  <2>4. CASE Prepared(o) \/ Signed(o) \/ BroadcastReturned(o)
    BY <1>2, <1>10, <2>4 DEF Prepared, Signed, BroadcastReturned
  <2> QED BY <1>10, <2>2, <2>3, <2>4 DEF Work
<1> QED BY <1>3, <1>5, <1>6, <1>7, <1>8, <1>9, <1>10 DEF Work

LEMMA UseHashSaved ==
    ASSUME SwapInv, LookupInv, NEW o \in Op, NEW ok \in BOOLEAN, HashSaved(o, ok)
    PROVE  LookupInv'
<1> DEFINE s == NextStep(o, operations[o])
<1>0. /\ TypeOK /\ operations[o] \in Operation /\ s \in Step /\ worker[o] = "recording"
      /\ worker \in [Op -> Workers] /\ PlansResolved
      /\ UNCHANGED <<timers, lookup, planVars, proofVars>>
  BY DEF HashSaved, SwapInv, TypeOK, NextStep, Step, LookupInv, lookVars
<1>1. \/ Settle(<<"worker", o>>, ok, <<>>)
      \/ Settle(<<"worker", o>>, ok, <<<<"worker", o>>>>)
  BY DEF HashSaved
<1>2. Flow /\ \A p \in Op : StartQueued(p)' => StartQueued(p)
  BY <1>1, SettleFlow, QueueFlow
<1>3. CASE UNCHANGED operations /\ worker' = [worker EXCEPT ![o] = "broadcasting"]
  <2>1. /\ \A p \in Op \ {o} : worker'[p] = worker[p]
        /\ InUse(o) /\ PlansResolved'
    BY <1>0, <1>3, PlansStay DEF InUse, planVars
  <2> QED BY <1>0, <1>2, <1>3, <2>1, UseQuiet
<1>4. CASE /\ Becomes(o, Unsent(operations[o], s))
           /\ worker' = [worker EXCEPT ![o] = "pausing"]
  <2>1. PICK q : q = Unsent(operations[o], s)
    OBVIOUS
  <2>2. /\ q \in Operation /\ q.status = "paused"
        /\ q.hash = [operations[o].hash EXCEPT ![s] = 0]
        /\ q.depositConfirmed = operations[o].depositConfirmed
        /\ q.swapConfirmed = operations[o].swapConfirmed
    BY <1>0, <2>1, UnsentRecord, UnsentClaims
  <2>3. \A p \in Op \ {o} : worker'[p] = worker[p]
    BY <1>0, <1>4
  <2>4. Becomes(o, q) /\ 0 \in Hash /\ q.status # "none"
    BY <1>4, <2>1, <2>2, ConstantsAssumption DEF Hash
  <2> QED BY <1>0, <1>2, <2>2, <2>3, <2>4, UseHash
<1> QED BY <1>3, <1>4 DEF HashSaved

LEMMA UseSaved ==
    ASSUME SwapInv, LookupInv, NEW o \in Op, NEW ok \in BOOLEAN, SaveEnds(o, ok)
    PROVE  LookupInv'
<1>0. /\ TypeOK /\ worker \in [Op -> Workers] /\ PlansResolved /\ operations[o] \in Operation
  BY DEF SwapInv, TypeOK, LookupInv
<1>1. UNCHANGED planVars => PlansResolved'
  BY <1>0, PlansStay DEF planVars
<1>2. CASE StartSaved(o, ok)
  <2>1. /\ \/ Settle(<<"start", o>>, TRUE, <<>>)
           \/ Settle(<<"start", o>>, FALSE, <<<<"pause", o>>>>)
        /\ UNCHANGED <<planVars, timers, lookup, proofVars>>
    BY <1>2 DEF StartSaved, lookVars
  <2>2. Flow /\ \A p \in Op : StartQueued(p)' => StartQueued(p)
    BY <2>1, SettleFlow, QueueFlow
  <2>3. InUse(o)
    BY <2>1, QueueFlow DEF InUse
  <2>4. CASE worker' = Launched(o) /\ UNCHANGED operations
    <3>1. \A p \in Op \ {o} : worker'[p] = worker[p]
      BY <1>0, <2>4, LaunchedEffect
    <3> QED BY <1>1, <2>1, <2>2, <2>3, <2>4, <3>1, UseQuiet
  <2>5. CASE BecomesPaused(o) /\ UNCHANGED worker
    <3>1. "paused" \in Status \ {"none"}
      BY DEF Status
    <3> QED BY <1>1, <2>1, <2>2, <2>3, <2>5, <3>1, UseStatus DEF BecomesPaused
  <2> QED BY <1>2, <2>4, <2>5 DEF StartSaved
<1>3. CASE StartPaused(o, ok)
  <2>1. /\ Settle(<<"pause", o>>, ok, <<>>)
        /\ UNCHANGED <<operations, worker, timers, planVars, lookup, proofVars>>
    BY <1>3 DEF StartPaused, lookVars, workVars
  <2>2. Flow /\ \A p \in Op : StartQueued(p)' => StartQueued(p)
    BY <2>1, SettleFlow, QueueFlow
  <2>3. InUse(o)' => InUse(o)
    BY <2>1, <2>2 DEF InUse
  <2> QED BY <1>1, <2>1, <2>2, <2>3, UseQuiet
<1>4. CASE RefreshSaved(o, ok)
  BY <1>4, UseRefresh
<1>5. CASE HashSaved(o, ok)
  BY <1>5, UseHashSaved
<1>6. CASE WorkerSaved(o, ok) \/ PauseSaved(o, ok)
  <2>1. /\ worker[o] # "idle" /\ UNCHANGED <<planVars, lookup, proofVars>>
        /\ \/ Settle(<<"worker", o>>, ok, <<>>)
           \/ Settle(<<"worker", o>>, ok, <<<<"worker", o>>>>)
    BY <1>6 DEF WorkerSaved, PauseSaved, lookVars
  <2>2. Flow /\ \A p \in Op : StartQueued(p)' => StartQueued(p)
    BY <2>1, SettleFlow, QueueFlow
  <2>3. CASE WorkerPaused(o) /\ UNCHANGED timers
    BY <1>1, <2>1, <2>2, <2>3, UsePausedWorker
  <2>4. CASE /\ worker' = [worker EXCEPT ![o] = "idle"] /\ timers' = Rescheduled(o)
             /\ UNCHANGED operations
    <3>1. \A p \in Op \ {o} : worker'[p] = worker[p] /\ timers'[p] = timers[p]
      BY <1>0, <2>4, RescheduledEffect
    <3>2. InUse(o)
      BY <2>1 DEF InUse
    <3> QED BY <1>1, <2>1, <2>2, <2>4, <3>1, <3>2, UseQuiet
  <2> QED BY <1>6, <2>3, <2>4 DEF WorkerSaved, PauseSaved
<1> QED BY <1>2, <1>3, <1>4, <1>5, <1>6 DEF SaveEnds

LEMMA UseStart ==
    ASSUME SwapInv, LookupInv, NEW p \in reviews, Start(p)
    PROVE  LookupInv'
<1> DEFINE o == p.op
           r == p.resumeState
<1>0. /\ TypeOK /\ o \in Op /\ r \in Operation /\ AbsentHasNoHash(operations[o])
      /\ AbsentClaimsNothing(operations[o]) /\ operations[o] \in Operation
  BY DEF SwapInv, TypeOK, Plan, OperationInv, LookupInv
<1>1. SameClaims(operations[o], r) /\ ~Finished(operations[o])
  <2>1. CASE r = NoOperation /\ ~Known(o)
    <3>1. operations[o].status = "none" /\ operations[o].hash = NoOperation.hash
      BY <1>0, <2>1 DEF Known, AbsentHasNoHash
    <3>2. ~operations[o].depositConfirmed /\ ~operations[o].swapConfirmed
      BY <1>0, <3>1 DEF AbsentClaimsNothing
    <3>3. /\ operations[o].depositConfirmed \in BOOLEAN
          /\ operations[o].swapConfirmed \in BOOLEAN
      BY <1>0, RecordTypes
    <3>4. NoOperation.depositConfirmed = FALSE /\ NoOperation.swapConfirmed = FALSE
      BY DEF NoOperation
    <3>5. ~Finished(operations[o])
      BY <3>1 DEF Finished
    <3>6. /\ operations[o].depositConfirmed = FALSE
          /\ operations[o].swapConfirmed = FALSE
      BY <3>2, <3>3
    <3> QED BY <2>1, <3>1, <3>4, <3>5, <3>6 DEF SameClaims
  <2>2. CASE operations[o] = r /\ ~Finished(operations[o])
    BY <2>2 DEF SameClaims
  <2> QED BY <2>1, <2>2 DEF Start
<1>2. PICK q : q = MakeOperation(o, r)
  OBVIOUS
<1>3. q \in Operation /\ q.status # "none" /\ SameClaims(operations[o], q)
  BY <1>0, <1>1, <1>2, MadeRecord, MadeClaims DEF SameClaims
<1>4. /\ Becomes(o, q) /\ Save(<<"start", o>>)
      /\ UNCHANGED <<preparing, worker, timers, lookup, proofVars>>
      /\ reviews' \subseteq reviews
  BY <1>2 DEF Start, workVars, lookVars
<1>5. operations'[o] = q /\ \A b \in Op \ {o} : operations'[b] = operations[b]
  BY <1>0, <1>3, <1>4, BecomesEffect DEF TypeOK
<1>6. Flow /\ \A b \in Op \ {o} : StartQueued(b)' => StartQueued(b)
  BY <1>0, <1>4, QueueFlow, StoreFlow DEF Waiter
<1>7. PlansResolved' /\ InUse(o)
  BY <1>1, <1>4, PlansStay DEF LookupInv, InUse
<1>8. OthersKeep(o) /\ Known(o)'
  BY <1>3, <1>4, <1>5, <1>6 DEF OthersKeep, Known
<1> HIDE DEF o
<1> QED BY <1>0, <1>3, <1>4, <1>5, <1>6, <1>7, <1>8, UseSame

LEMMA UseNothing ==
    ASSUME SwapInv, LookupInv, PlansResolved',
           UNCHANGED <<operations, workVars, lookup, proofVars, writeVars>>
    PROVE  LookupInv'
<1>1. \A o \in Op : InUse(o)' <=> InUse(o)
  BY DEF InUse, StartQueued, workVars, writeVars
<1>2. ASSUME NEW o \in Op
      PROVE  /\ FlagsProven(o)' /\ LookupUnresolved(o)' /\ LookupIsKnown(o)'
             /\ AbsentClaimsNothing(operations[o])'
             /\ AbsentClaimsNothing(snapshot[o])'
             /\ AbsentClaimsNothing(disk[o])'
  BY <1>1 DEF LookupInv, FlagsProven, SwapProven, LookupUnresolved, LookupIsKnown, Known,
     AbsentClaimsNothing, proofVars, writeVars
<1> QED BY <1>2 DEF LookupInv

LEMMA UsePlans ==
    ASSUME SwapInv, LookupInv,
           \/ \E o \in Op : PrepareNew(o)
           \/ \E p \in preparing : PrepareReview(p)
           \/ \E p \in preparing \cup reviews : DropPlan(p)
    PROVE  LookupInv'
<1>1. UNCHANGED <<operations, workVars, lookup, proofVars, writeVars>>
  BY DEF PrepareNew, PrepareReview, DropPlan, lookVars
<1>2. Resolved(NoOperation)
  BY RecordTypes DEF Resolved, Step
<1>3. PlansResolved'
  BY <1>2 DEF LookupInv, PlansResolved, PrepareNew, PrepareReview, DropPlan
<1> QED BY <1>1, <1>3, UseNothing

\* init() asks again for what it cannot prove.
LEMMA UseRestart ==
    ASSUME SwapInv, LookupInv, NEW stored \in {disk, snapshot},
           NEW readable \in BOOLEAN, Restart(stored, readable), TruthInv
    PROVE  LookupInv'
<1>0. ASSUME NEW o \in Op
      PROVE  /\ stored[o] \in Operation /\ AbsentClaimsNothing(stored[o])
             /\ Truthful(o, stored[o])
             /\ operations'[o] = IF readable THEN Restored(o, stored[o]) ELSE NoOperation
             /\ disk'[o] = stored[o] /\ snapshot'[o] = stored[o]
             /\ lookup'[o] = "idle" /\ worker'[o] = "idle" /\ timers'[o] = 0
             /\ ~StartQueued(o)'
  BY DEF SwapInv, TypeOK, LookupInv, TruthInv, Restart, StartQueued
<1>1. ASSUME NEW o \in Op
      PROVE  /\ AbsentClaimsNothing(operations'[o])
             /\ ~Finished(operations'[o]) =>
                   ~operations'[o].depositConfirmed /\ ~operations'[o].swapConfirmed
  <2>1. CASE ~readable
    BY <1>0, <2>1, RecordClaims DEF AbsentClaimsNothing
  <2>2. CASE readable /\ ~Open(stored[o])
    <3>1. operations'[o] = stored[o]
      BY <1>0, <2>2 DEF Restored
    <3> QED BY <1>0, <2>2, <3>1 DEF AbsentClaimsNothing, Open, Finished
  <2>3. CASE readable /\ Open(stored[o])
    <3>1. /\ operations'[o].status = "paused" /\ ~operations'[o].depositConfirmed
          /\ operations'[o].swapConfirmed => o \notin ToEpix /\ stored[o].swapConfirmed
      BY <1>0, <2>3, RestoredClaims
    <3>2. ~operations'[o].swapConfirmed
      BY <1>0, <3>1 DEF Truthful
    <3> QED BY <3>1, <3>2 DEF AbsentClaimsNothing
  <2> QED BY <2>1, <2>2, <2>3
<1>2. ASSUME NEW o \in Op PROVE InUse(o)' => ~Finished(operations'[o])
  BY <1>0 DEF InUse
<1>3. ASSUME NEW o \in Op
      PROVE  FlagsProven(o)' /\ LookupUnresolved(o)' /\ LookupIsKnown(o)'
  BY <1>0, <1>1, <1>2 DEF FlagsProven, LookupUnresolved, LookupIsKnown
<1>4. PlansResolved'
  BY DEF Restart, PlansResolved
<1> QED BY <1>0, <1>1, <1>3, <1>4 DEF LookupInv

LEMMA InitLookup == Init => LookupInv
<1> SUFFICES ASSUME Init PROVE LookupInv
  OBVIOUS
<1>1. ASSUME NEW o \in Op
      PROVE  /\ operations[o] = NoOperation /\ snapshot[o] = NoOperation
             /\ disk[o] = NoOperation /\ lookup[o] = "idle"
  BY DEF Init
<1>2. ASSUME NEW o \in Op
      PROVE  /\ FlagsProven(o) /\ LookupUnresolved(o) /\ LookupIsKnown(o)
             /\ AbsentClaimsNothing(NoOperation)
  <2>1. ~NoOperation.depositConfirmed /\ ~NoOperation.swapConfirmed
    BY DEF NoOperation
  <2>2. ~operations[o].depositConfirmed /\ ~operations[o].swapConfirmed
    BY <1>1, <2>1
  <2>3. FlagsProven(o) /\ LookupUnresolved(o) /\ LookupIsKnown(o)
    BY <1>1, <2>2 DEF FlagsProven, LookupUnresolved, LookupIsKnown
  <2> QED BY <2>1, <2>3 DEF AbsentClaimsNothing
<1>3. PlansResolved
  BY DEF Init, PlansResolved
<1> QED BY <1>1, <1>2, <1>3 DEF LookupInv

LEMMA NextLookup == SwapInv /\ TruthInv /\ LookupInv /\ [Next]_vars => LookupInv'
<1> SUFFICES ASSUME SwapInv, TruthInv, LookupInv, [Next]_vars PROVE LookupInv'
  OBVIOUS
<1>1. ASSUME NEW o \in Op, Observe(o) \/ RefreshStep(o) \/ Work(o) \/ Timer(o)
      PROVE  LookupInv'
  BY <1>1, UseObserve, UseRefresh, UseWork
<1>2. ASSUME UNCHANGED <<operations, workVars, lookup, proofVars, writeVars>>,
             preparing' \subseteq preparing, reviews' \subseteq reviews
      PROVE  LookupInv'
  BY <1>2, PlansStay, UseNothing DEF LookupInv
<1>3. ASSUME NEW o \in Op, NEW ok \in BOOLEAN, SaveEnds(o, ok) PROVE LookupInv'
  BY <1>3, UseSaved
<1>4. CASE User
  <2>1. ASSUME NEW p \in reviews, Start(p) PROVE LookupInv'
    BY <2>1, UseStart
  <2>2. ASSUME NEW o \in Op, Refresh(o) \/ PrepareResume(o) PROVE LookupInv'
    BY <2>2, UseResume
  <2>3. ASSUME NEW v \in Vault \cup {Locked}, ChangeContext(v) PROVE LookupInv'
    BY <1>2, <2>3 DEF ChangeContext, lookVars
  <2> QED BY <1>4, <2>1, <2>2, <2>3, UsePlans DEF User
<1>5. CASE Chain \/ UNCHANGED vars \/ \E o \in Op : Tick(o)
  BY <1>2, <1>5 DEF Chain, Commit, Relay, Tick, vars, lookVars, planVars
<1>6. ASSUME NEW stored \in {disk, snapshot}, NEW readable \in BOOLEAN,
             Restart(stored, readable)
      PROVE  LookupInv'
  BY <1>6, UseRestart
<1> QED BY <1>1, <1>3, <1>4, <1>5, <1>6 DEF Next

\* A lookup works on a record in use only for what the record does not know
\* yet, and a plan only resumes a record that knows everything.
THEOREM LookupInvariant == Spec => []LookupInv
<1>1. Init => LookupInv
  BY InitLookup
<1>2. SwapInv /\ TruthInv /\ LookupInv /\ [Next]_vars => LookupInv'
  BY NextLookup
<1> QED BY <1>1, <1>2, SwapInvariant, RecordsAreTrue, PTL DEF Spec

\* start() sees no lookup at work on the record it replaces.
LEMMA StartFindsNoLookup ==
    ASSUME SwapInv, LookupInv, NEW p \in reviews, Start(p)
    PROVE  lookup[p.op] \in {"idle", "done"}
<1> DEFINE o == p.op
           r == operations[o]
<1>0. /\ o \in Op /\ LookupHasHash(o) /\ LookupIsKnown(o)
      /\ lookup[o] \in {"idle", "swap", "bridge", "ack", "done", "threw"}
      /\ InUse(o) => LookupFits(o, r, lookup[o])
  BY FitsInUse DEF SwapInv, TypeOK, Plan, OperationInv, LookupInv
<1>1. CASE ~Known(o)
  BY <1>0, <1>1 DEF LookupIsKnown
<1>2. CASE r = p.resumeState /\ ~Finished(r)
  <2>1. Resolved(r)
    BY <1>2 DEF LookupInv, PlansResolved
  <2>2. LookupFits(o, r, lookup[o])
    BY <1>0, <1>2 DEF InUse
  <2> QED BY <1>0, <2>1, <2>2 DEF Resolved, LookupFits, LookupHasHash
<1> QED BY <1>1, <1>2 DEF Start

\* An approval is given by start() alone.
LEMMA ApprovalIsStarted ==
    ASSUME SwapInv, [Next]_vars, NEW o \in Op, approvals[o] = "none",
           approvals'[o] = "fresh"
    PROVE  \E p \in reviews : p.op = o /\ Start(p)
<1>0. approvals \in [Op -> Approval]
  BY DEF SwapInv, TypeOK
<1>1. approvals' # approvals /\ \A b \in Op : approvals' # Without(b)
  BY <1>0 DEF Without
<1>2. ASSUME NEW b \in Op PROVE ~(Observe(b) \/ RefreshStep(b) \/ Work(b) \/ Timer(b))
  <2>1. ~(WorkerThrows(b) \/ PauseWorker(b))
    BY <1>1 DEF WorkerThrows, PauseWorker, WorkerPaused
  <2>2. ~Observe(b)
    BY <1>1 DEF Observe, ObserveSwap, ObserveBridge, ObserveAck
  <2>3. ~RefreshStep(b)
    BY <1>1, <2>1 DEF RefreshStep, RefreshObserved, RefreshThrew
  <2>4. ~Work(b)
    BY <1>1, <2>1 DEF Work, Run, RunObserved, Prepared, Signed, BroadcastReturned
  <2> QED BY <1>1, <2>2, <2>3, <2>4 DEF Timer
<1>3. ASSUME NEW b \in Op PROVE ~Tick(b)
  BY <1>0 DEF Tick
<1>4. ASSUME NEW b \in Op, NEW ok \in BOOLEAN PROVE ~SaveEnds(b, ok)
  BY <1>1 DEF SaveEnds, StartSaved, StartPaused, RefreshSaved, HashSaved, WorkerSaved,
     PauseSaved, WorkerPaused
<1>5. ~Chain /\ ~UNCHANGED vars
  BY <1>1 DEF Chain, Commit, Relay, vars
<1>6. ASSUME NEW stored, NEW readable PROVE ~Restart(stored, readable)
  BY DEF Restart
<1>7. CASE User
  <2>1. PICK p \in reviews : Start(p)
    BY <1>1, <1>7 DEF User, PrepareNew, PrepareResume, Refresh, PrepareReview, DropPlan,
       ChangeContext
  <2>2. p.op = o
    BY <1>0, <2>1 DEF Start
  <2> QED BY <2>1, <2>2
<1> QED BY <1>2, <1>3, <1>4, <1>5, <1>6, <1>7 DEF Next

\* start() never replaces a record while a lookup still works on the old one:
\* it compares the record with the plan's, which has nothing left to look up.
THEOREM NoLookupIsLost == Spec => NoLookupOnReplacedRecord
<1>1. SwapInv /\ LookupInv /\ [Next]_vars =>
        [\A o \in Op : approvals[o] = "none" /\ approvals'[o] = "fresh"
           => lookup[o] \in {"idle", "done"}]_vars
  <2> SUFFICES ASSUME SwapInv, LookupInv, [Next]_vars, NEW o \in Op,
                      approvals[o] = "none", approvals'[o] = "fresh"
               PROVE  lookup[o] \in {"idle", "done"}
    OBVIOUS
  <2> QED BY ApprovalIsStarted, StartFindsNoLookup
<1> QED BY <1>1, SwapInvariant, LookupInvariant, PTL DEF Spec, NoLookupOnReplacedRecord

=============================================================================
