--------------------------- MODULE EpixSwapProofs ---------------------------
(***************************************************************************)
(* SwapInv is an invariant of EpixSwap, for every set of operations and    *)
(* wallets and every bound; no dispatched transaction is forgotten and no  *)
(* step of a swap takes effect twice.                                      *)
(***************************************************************************)
EXTENDS EpixSwapLemmas

-----------------------------------------------------------------------------
(* Steps that leave the operations and the store alone. *)

\* A store that could not be read leaves nothing to do.
LEMMA NotUnread ==
    ASSUME SwapInv, NEW o \in Op,
           \/ Known(o) \/ worker[o] # "idle" \/ timers[o] > 0
           \/ refreshing[o] # "no" \/ lookup[o] # "idle"
           \/ writeTail # <<>> \/ ~storageError
    PROVE  ~Unread
<1>1. lookup[o] # "idle" => refreshing[o] # "no" \/ worker[o] # "idle"
  BY DEF SwapInv, OperationInv, Exclusive
<1>2. timers[o] > 0 => timers[o] # 0
  BY DEF SwapInv, TypeOK
<1> QED BY <1>1, <1>2 DEF Unread

LEMMA QuietStep ==
    ASSUME SwapInv, TypeOK',
           UNCHANGED <<operations, workVars, lookVars, writeVars>>,
           \A o \in Op, s \in Step, a \in Attempt :
              /\ Live(o, s, a)' => Live(o, s, a)
              /\ tx[o][s][a] = "unsent" => tx'[o][s][a] = "unsent"
    PROVE  SwapInv'
<1>1. ASSUME NEW o \in Op PROVE OperationInv(o)' /\ QueueInv(o)' /\ StoreInv(o)'
  <2>0. OperationInv(o) /\ QueueInv(o) /\ StoreInv(o)
    BY DEF SwapInv
  <2>1. UnsentWhileRecording(o)'
    <3> SUFFICES ASSUME worker[o] = "recording"
                 PROVE  /\ NextHash(o) # 0
                        /\ tx'[o][NextStep(o, operations[o])][NextHash(o)] = "unsent"
      BY DEF UnsentWhileRecording, workVars, NextHash
    <3>1. NextStep(o, operations[o]) \in Step
      BY DEF NextStep, Step
    <3>2. NextHash(o) # 0 => NextHash(o) \in Attempt
      BY <3>1 DEF NextHash, SwapInv, TypeOK, Operation, Hash, Attempt, ConstantsAssumption
    <3> QED BY <2>0, <3>1, <3>2 DEF OperationInv, UnsentWhileRecording
  <2>2. OperationInv(o)'
    BY <2>0, <2>1 DEF OperationInv, Exclusive, LookupHasHash, NothingToResend, NextHash,
       ActiveIsKnown, Known, workVars, lookVars
  <2>3. QueueInv(o)'
    BY <2>0 DEF QueueInv, OneWriteOfWorker, WriteHasHash, Known, workVars, writeVars
  <2>4. StoreInv(o)'
    BY <2>0 DEF StoreInv, writeVars
  <2> QED BY <2>2, <2>3, <2>4
<1>2. Unread => Unread'
  BY DEF Unread, Known, workVars, lookVars, writeVars
<1>3. (\A o \in Op : MemoryRecords(o)) => \A o \in Op : MemoryRecords(o)'
  BY DEF MemoryRecords
<1> QED BY <1>1, <1>2, <1>3 DEF SwapInv

LEMMA QuietActions ==
    ASSUME SwapInv, NEW o \in Op, Tick(o) \/ PrepareNew(o)
    PROVE  SwapInv'
<1> USE DEF planVars, workVars, lookVars, proofVars, writeVars, chainVars
<1>0. TypeOK
  BY DEF SwapInv
<1>1. CASE Tick(o)
  <2>1. TypeOK'
    BY <1>0, <1>1 DEF Tick, TypeOK, Approval
  <2> QED BY <1>1, <2>1, QuietStep DEF Tick, Live
<1>2. CASE PrepareNew(o)
  <2>1. TypeOK'
    BY <1>0, <1>2, RecordTypes DEF PrepareNew, TypeOK, Plan
  <2> QED BY <1>2, <2>1, QuietStep DEF PrepareNew, Live
<1> QED BY <1>1, <1>2

LEMMA QuietSteps ==
    ASSUME SwapInv,
           \/ \E p \in preparing : PrepareReview(p)
           \/ \E p \in preparing \cup reviews : DropPlan(p)
           \/ \E v \in Vault \cup {Locked} : ChangeContext(v)
           \/ Chain
           \/ UNCHANGED vars
    PROVE  SwapInv'
<1> USE DEF planVars, workVars, lookVars, proofVars, writeVars, chainVars
<1>0. TypeOK
  BY DEF SwapInv
<1>1. CASE \E p \in preparing : PrepareReview(p)
  <2>1. TypeOK'
    BY <1>0, <1>1 DEF PrepareReview, TypeOK
  <2> QED BY <1>1, <2>1, QuietStep DEF PrepareReview, Live
<1>2. CASE \E p \in preparing \cup reviews : DropPlan(p)
  <2>1. TypeOK'
    BY <1>0, <1>2 DEF DropPlan, TypeOK
  <2> QED BY <1>2, <2>1, QuietStep DEF DropPlan, Live
<1>3. CASE \E v \in Vault \cup {Locked} : ChangeContext(v)
  <2>1. TypeOK'
    BY <1>0, <1>3 DEF ChangeContext, TypeOK, Approval
  <2> QED BY <1>3, <2>1, QuietStep DEF ChangeContext, Live
<1>4. CASE Chain
  <2>1. ASSUME NEW p \in Op, NEW s \in Step, NEW a \in Attempt,
               NEW result \in {"ok", "failed"}, Commit(p, s, a, result)
        PROVE  SwapInv'
    <3>1. TypeOK'
      BY <1>0, <2>1 DEF Commit, TypeOK
    <3>2. \A q \in Op, t \in Step, b \in Attempt :
             /\ Live(q, t, b)' => Live(q, t, b)
             /\ tx[q][t][b] = "unsent" => tx'[q][t][b] = "unsent"
      BY <1>0, <2>1 DEF Commit, TypeOK, Live
    <3> QED BY <2>1, <3>1, <3>2, QuietStep DEF Commit
  <2>2. ASSUME NEW p \in Op, NEW a \in Attempt,
               NEW result \in {"received", "refused"}, Relay(p, a, result)
        PROVE  SwapInv'
    <3>1. TypeOK'
      BY <1>0, <2>2 DEF Relay, TypeOK
    <3> QED BY <2>2, <3>1, QuietStep DEF Relay, Live
  <2> QED BY <1>4, <2>1, <2>2 DEF Chain
<1>5. CASE UNCHANGED vars
  <2>1. TypeOK'
    BY <1>0, <1>5 DEF TypeOK, vars
  <2> QED BY <1>5, <2>1, QuietStep DEF vars, Live
<1> QED BY <1>1, <1>2, <1>3, <1>4, <1>5

-----------------------------------------------------------------------------
(* observe(). *)

LEMMA SameMemory ==
    ASSUME SwapInv, ~Unread, NEW o \in Op,
           operations'[o].hash = operations[o].hash, tx' = tx
    PROVE  MemoryRecords(o)'
<1>1. MemoryRecords(o)
  BY DEF SwapInv
<1> QED BY <1>1 DEF MemoryRecords, Live

\* observe(), from observeBridge() on, keeps the hashes of the record.
LEMMA ThenBridgeEffect ==
    ASSUME operations \in [Op -> Operation],
           lookup \in [Op -> {"idle", "swap", "bridge", "ack", "done", "threw"}],
           NEW o \in Op, NEW r \in Operation, AbsentHasNoHash(r), ThenBridge(o, r)
    PROVE  /\ operations' \in [Op -> Operation]
           /\ SameHashes(r, operations'[o])
           /\ \A p \in Op \ {o} : operations'[p] = operations[p]
           /\ lookup' \in [Op -> {"idle", "swap", "bridge", "ack", "done", "threw"}]
           /\ \A p \in Op \ {o} : lookup'[p] = lookup[p]
           /\ lookup'[o] \in {"bridge", "done"}
           /\ lookup'[o] = "bridge" => operations'[o].hash["bridge"] # 0
<1>1. SameHashes(r, BridgeShortcut(o, r))
  BY ShortcutRecord
<1>2. /\ operations' \in [Op -> Operation]
      /\ operations'[o] = BridgeShortcut(o, r)
      /\ \A p \in Op \ {o} : operations'[p] = operations[p]
  BY <1>1, BecomesEffect DEF ThenBridge, SameHashes
<1>3. /\ BridgeLookup(o, r) \in {"bridge", "done"}
      /\ BridgeLookup(o, r) = "bridge" => r.hash["bridge"] # 0
  BY DEF BridgeLookup
<1>4. lookup' = [lookup EXCEPT ![o] = BridgeLookup(o, r)]
  BY DEF ThenBridge
<1> QED BY <1>1, <1>2, <1>3, <1>4 DEF SameHashes

LEMMA BeginObserveEffect ==
    ASSUME SwapInv, NEW o \in Op, BeginObserve(o)
    PROVE  /\ operations' \in [Op -> Operation]
           /\ SameHashes(operations[o], operations'[o])
           /\ \A p \in Op \ {o} : operations'[p] = operations[p]
           /\ lookup' \in [Op -> {"idle", "swap", "bridge", "ack", "done", "threw"}]
           /\ \A p \in Op \ {o} : lookup'[p] = lookup[p]
           /\ lookup'[o] \in {"swap", "bridge", "done"}
           /\ LookupHasHash(o)'
<1> DEFINE r == operations[o]
<1>0. /\ operations \in [Op -> Operation] /\ r \in Operation
      /\ lookup \in [Op -> {"idle", "swap", "bridge", "ack", "done", "threw"}]
      /\ AbsentHasNoHash(r)
  BY DEF SwapInv, TypeOK, OperationInv
<1>1. CASE r.hash["swap"] # 0 /\ ~SwapProven(o, r)
  <2>1. operations' = operations /\ lookup' = [lookup EXCEPT ![o] = "swap"]
    BY <1>1 DEF BeginObserve
  <2> QED BY <1>0, <1>1, <2>1 DEF SameHashes, LookupHasHash
<1>2. CASE ~(r.hash["swap"] # 0 /\ ~SwapProven(o, r))
  <2>1. ThenBridge(o, SwapShortcut(o, r))
    BY <1>2 DEF BeginObserve
  <2>2. SameHashes(r, SwapShortcut(o, r))
    BY <1>0, ShortcutRecord
  <2>3. SwapShortcut(o, r) \in Operation /\ AbsentHasNoHash(SwapShortcut(o, r))
    BY <1>0, <2>2 DEF SameHashes, AbsentHasNoHash
  <2> HIDE DEF r
  <2>4. SameHashes(SwapShortcut(o, r), operations'[o]) /\ lookup'[o] \in {"bridge", "done"}
    BY <1>0, <2>1, <2>3, ThenBridgeEffect
  <2>5. SameHashes(r, operations'[o])
    BY <2>2, <2>4 DEF SameHashes
  <2>6. LookupHasHash(o)'
    BY <1>0, <2>1, <2>3, ThenBridgeEffect DEF LookupHasHash
  <2> QED BY <1>0, <2>1, <2>3, <2>4, <2>5, <2>6, ThenBridgeEffect DEF r
<1> QED BY <1>1, <1>2

\* A step of a lookup.
LEMMA LookupStep ==
    ASSUME SwapInv, NEW o \in Op, lookup[o] # "idle", TypeOK',
           UNCHANGED <<workVars, refreshing, writeVars, tx>>,
           \A p \in Op \ {o} : operations'[p] = operations[p] /\ lookup'[p] = lookup[p],
           LookupHasHash(o)', AbsentHasNoHash(operations'[o]), MemoryRecords(o)',
           operations[o].status # "none" => operations'[o].status # "none"
    PROVE  SwapInv'
<1> USE DEF workVars, writeVars
<1>0. ~Unread
  BY NotUnread
<1>1. OperationInv(o) /\ worker[o] \in {"idle", "launched", "observing"}
  BY DEF SwapInv, OperationInv, Exclusive
<1>2. OperationInv(o)'
  BY <1>1 DEF OperationInv, Exclusive, NothingToResend, UnsentWhileRecording, ActiveIsKnown, Known
<1>3. LocalStep(o)
  BY <1>1, <1>2 DEF LocalStep, Known, AwaitsWrite
<1> QED BY <1>0, <1>1, <1>3, LocalNoWrite

\* The hash of a record that is looked up is an attempt.
LEMMA HashIsAttempt ==
    ASSUME SwapInv, NEW o \in Op, NEW s \in Step, operations[o].hash[s] # 0
    PROVE  operations[o].hash[s] \in Attempt
BY ConstantsAssumption DEF SwapInv, TypeOK, Operation, Hash, Attempt

\* A lookup may set the status, prove a step, or take a failed transaction
\* out of the record; whatever it does, the record stays that of all live
\* transactions.
LEMMA LookupRecord ==
    ASSUME SwapInv, NEW o \in Op, lookup[o] # "idle",
           NEW r \in Operation, SameHashes(operations[o], r), Becomes(o, r),
           NEW k \in {"ack", "done", "threw"}, EndObserve(o, k),
           k = "ack" => r.hash["bridge"] # 0,
           UNCHANGED <<workVars, refreshing, writeVars, tx>>, TypeOK'
    PROVE  SwapInv'
<1>0. /\ operations \in [Op -> Operation] /\ AbsentHasNoHash(operations[o])
      /\ lookup \in [Op -> {"idle", "swap", "bridge", "ack", "done", "threw"}]
  BY DEF SwapInv, TypeOK, OperationInv
<1>1. /\ \A p \in Op \ {o} : operations'[p] = operations[p] /\ lookup'[p] = lookup[p]
      /\ operations'[o] = r /\ lookup'[o] = k
  BY <1>0, BecomesEffect DEF EndObserve
<1>2. AbsentHasNoHash(operations'[o]) /\ LookupHasHash(o)'
  BY <1>0, <1>1 DEF SameHashes, AbsentHasNoHash, LookupHasHash
<1>3. MemoryRecords(o)'
  BY <1>1, NotUnread, SameMemory DEF SameHashes
<1> QED BY <1>1, <1>2, <1>3, LookupStep DEF SameHashes

LEMMA LookupUnsent ==
    ASSUME SwapInv, NEW o \in Op, NEW s \in Step, lookup[o] = s,
           "failed" \in Lookups(o, s),
           Becomes(o, Unsent(operations[o], s)), EndObserve(o, "done"),
           UNCHANGED <<workVars, refreshing, writeVars, tx>>, TypeOK'
    PROVE  SwapInv'
<1> DEFINE h == operations[o].hash[s]
           r == Unsent(operations[o], s)
<1>0. /\ operations \in [Op -> Operation] /\ operations[o] \in Operation
      /\ lookup \in [Op -> {"idle", "swap", "bridge", "ack", "done", "threw"}]
      /\ lookup[o] # "idle"
  BY DEF SwapInv, TypeOK, Step
<1>1. h # 0
  BY DEF SwapInv, OperationInv, LookupHasHash, Step
<1>2. tx[o][s][h] = "failed"
  BY DEF Lookups
<1>3. /\ r \in Operation /\ r.status = "paused"
      /\ r.hash = [operations[o].hash EXCEPT ![s] = 0]
  BY <1>0, UnsentRecord
<1>4. /\ \A p \in Op \ {o} : operations'[p] = operations[p] /\ lookup'[p] = lookup[p]
      /\ operations'[o] = r /\ lookup'[o] = "done"
  BY <1>0, <1>3, BecomesEffect DEF EndObserve
<1>5. MemoryRecords(o)'
  <2> SUFFICES ASSUME NEW t \in Step, NEW a \in Attempt, Live(o, t, a)
               PROVE  r.hash[t] = a
    BY <1>4 DEF MemoryRecords, Live
  <2>1. operations[o].hash[t] = a
    BY <1>0, NotUnread DEF SwapInv, MemoryRecords
  <2>2. t # s
    BY <1>2, <2>1 DEF Live
  <2> QED BY <1>0, <1>3, <2>1, <2>2, RecordTypes
<1>6. AbsentHasNoHash(operations'[o]) /\ LookupHasHash(o)'
  BY <1>3, <1>4 DEF AbsentHasNoHash, LookupHasHash
<1> QED BY <1>0, <1>3, <1>4, <1>5, <1>6, LookupStep

LEMMA LookupGoesOn ==
    ASSUME SwapInv, NEW o \in Op, lookup[o] # "idle",
           NEW r \in Operation, SameHashes(operations[o], r), ThenBridge(o, r),
           UNCHANGED <<workVars, refreshing, writeVars, tx>>, TypeOK'
    PROVE  SwapInv'
<1>0. /\ operations \in [Op -> Operation] /\ AbsentHasNoHash(operations[o])
      /\ lookup \in [Op -> {"idle", "swap", "bridge", "ack", "done", "threw"}]
  BY DEF SwapInv, TypeOK, OperationInv
<1>1. AbsentHasNoHash(r)
  BY <1>0 DEF SameHashes, AbsentHasNoHash
<1>2. /\ SameHashes(r, operations'[o])
      /\ \A p \in Op \ {o} : operations'[p] = operations[p] /\ lookup'[p] = lookup[p]
      /\ lookup'[o] \in {"bridge", "done"}
      /\ lookup'[o] = "bridge" => operations'[o].hash["bridge"] # 0
  BY <1>0, <1>1, ThenBridgeEffect
<1>3. AbsentHasNoHash(operations'[o]) /\ LookupHasHash(o)'
  BY <1>1, <1>2 DEF SameHashes, AbsentHasNoHash, LookupHasHash
<1>4. MemoryRecords(o)'
  BY <1>2, NotUnread, SameMemory DEF SameHashes
<1> QED BY <1>2, <1>3, <1>4, LookupStep DEF SameHashes

LEMMA SameRecord ==
    ASSUME NEW o \in Op, NEW r \in Operation, r.status # "none"
    PROVE  /\ \A st \in Status \ {"none"} : SameHashes(r, WithStatus(r, st))
           /\ \A b \in BOOLEAN : SameHashes(r, WithDeposit(r, b))
           /\ \A b \in BOOLEAN : SameHashes(r, WithSwap(r, b))
           /\ SameHashes(r, Received(o, r))
           /\ SameHashes(r, r)
<1>1. ASSUME NEW st \in Status \ {"none"} PROVE SameHashes(r, WithStatus(r, st))
  BY StatusRecord DEF SameHashes
<1>2. ASSUME NEW b \in BOOLEAN
      PROVE  SameHashes(r, WithDeposit(r, b)) /\ SameHashes(r, WithSwap(r, b))
  BY FlagRecord DEF SameHashes
<1>3. SameHashes(r, Received(o, r)) /\ SameHashes(r, r)
  BY ReceivedRecord DEF SameHashes
<1> QED BY <1>1, <1>2, <1>3

\* What is looked up is the record of an operation.
LEMMA LookupKnown ==
    ASSUME SwapInv, NEW o \in Op, lookup[o] \in {"swap", "bridge", "ack"}
    PROVE  /\ operations[o] \in Operation /\ operations[o].status # "none"
           /\ lookup[o] = "swap" => operations[o].hash["swap"] \in Attempt
           /\ lookup[o] # "swap" => operations[o].hash["bridge"] \in Attempt
<1>1. /\ operations[o] \in Operation /\ AbsentHasNoHash(operations[o])
      /\ LookupHasHash(o)
  BY DEF SwapInv, TypeOK, OperationInv
<1>2. /\ lookup[o] = "swap" => operations[o].hash["swap"] # 0
      /\ lookup[o] # "swap" => operations[o].hash["bridge"] # 0
  BY <1>1 DEF LookupHasHash
<1>3. operations[o].status # "none"
  BY <1>1, <1>2, RecordTypes DEF AbsentHasNoHash, Step
<1> QED BY <1>1, <1>2, <1>3, HashIsAttempt DEF Step

LEMMA LookupTypes ==
    ASSUME TypeOK, NEW o \in Op, operations' \in [Op -> Operation],
           lookup' \in [Op -> {"idle", "swap", "bridge", "ack", "done", "threw"}],
           approvals' = approvals \/ approvals' = Without(o),
           verifiedSwaps' \subseteq Op \X Attempt, verifiedReceipts' \subseteq Op,
           UNCHANGED <<planVars, workVars, refreshing, writeVars, selected,
                       allowed, chainVars>>
    PROVE  TypeOK'
<1>1. Without(o) \in [Op -> Approval]
  BY DEF TypeOK, Without, Approval
<1> QED BY <1>1 DEF TypeOK, planVars, workVars, writeVars, chainVars

LEMMA EndTypes ==
    ASSUME TypeOK, NEW o \in Op, NEW r \in Operation, Becomes(o, r),
           NEW k \in {"ack", "done", "threw"}, EndObserve(o, k)
    PROVE  /\ operations' \in [Op -> Operation]
           /\ lookup' \in [Op -> {"idle", "swap", "bridge", "ack", "done", "threw"}]
BY BecomesEffect DEF TypeOK, EndObserve

LEMMA Unmoved ==
    ASSUME TypeOK, NEW o \in Op, UNCHANGED operations
    PROVE  Becomes(o, operations[o])
BY DEF TypeOK, Becomes

LEMMA ObserveSwapStep ==
    ASSUME SwapInv, NEW o \in Op, ObserveSwap(o)
    PROVE  SwapInv'
<1> USE DEF planVars, workVars, proofVars, writeVars, chainVars
<1> DEFINE r == operations[o]
<1>0. /\ TypeOK /\ lookup[o] = "swap"
      /\ UNCHANGED <<planVars, workVars, refreshing, writeVars, selected,
                     allowed, chainVars>>
      /\ AbsentHasNoHash(r)
  BY DEF ObserveSwap, SwapInv, OperationInv
<1>1. r \in Operation /\ r.status # "none" /\ r.hash["swap"] \in Attempt
  BY <1>0, LookupKnown
<1>2. CASE EndObserve(o, "threw") /\ UNCHANGED <<operations, approvals, proofVars>>
  <2>1. Becomes(o, r) /\ SameHashes(r, r)
    BY <1>0, <1>1, <1>2, Unmoved, SameRecord
  <2>2. TypeOK'
    BY <1>0, <1>1, <1>2, <2>1, EndTypes, LookupTypes DEF TypeOK
  <2> QED BY <1>0, <1>1, <1>2, <2>1, <2>2, LookupRecord
<1>3. CASE ThenBridge(o, r) /\ UNCHANGED <<approvals, proofVars>>
  <2>1. SameHashes(r, r)
    BY <1>1, SameRecord
  <2>2. TypeOK'
    BY <1>0, <1>1, <1>3, ThenBridgeEffect, LookupTypes DEF TypeOK
  <2> QED BY <1>0, <1>1, <1>3, <2>1, <2>2, LookupGoesOn
<1>4. CASE /\ verifiedSwaps' = verifiedSwaps \cup {<<o, r.hash["swap"]>>}
           /\ ThenBridge(o, WithSwap(r, TRUE))
           /\ UNCHANGED <<approvals, verifiedReceipts>>
  <2>1. WithSwap(r, TRUE) \in Operation /\ SameHashes(r, WithSwap(r, TRUE))
    BY <1>1, SameRecord, FlagRecord
  <2>2. AbsentHasNoHash(WithSwap(r, TRUE))
    BY <1>0, <2>1 DEF SameHashes, AbsentHasNoHash
  <2>3. /\ operations' \in [Op -> Operation]
        /\ lookup' \in [Op -> {"idle", "swap", "bridge", "ack", "done", "threw"}]
    BY <1>0, <1>4, <2>1, <2>2, ThenBridgeEffect DEF TypeOK
  <2>4. verifiedSwaps' \subseteq Op \X Attempt /\ verifiedReceipts' \subseteq Op
    BY <1>0, <1>1, <1>4 DEF TypeOK
  <2>5. TypeOK'
    BY <1>0, <1>4, <2>3, <2>4, LookupTypes
  <2> QED BY <1>0, <1>1, <1>4, <2>1, <2>5, LookupGoesOn
<1>5. ASSUME NEW st \in {"complete", "failed"}, Becomes(o, WithStatus(r, st)),
             EndObserve(o, "done"), UNCHANGED <<approvals, proofVars>>
      PROVE  SwapInv'
  <2>1. WithStatus(r, st) \in Operation /\ SameHashes(r, WithStatus(r, st))
    BY <1>1, SameRecord DEF SameHashes, Status
  <2>2. TypeOK'
    BY <1>0, <1>5, <2>1, EndTypes, LookupTypes DEF TypeOK
  <2> QED BY <1>0, <1>5, <2>1, <2>2, LookupRecord
<1>6. CASE /\ "failed" \in Lookups(o, "swap") /\ EndObserve(o, "done")
           /\ Becomes(o, Unsent(r, "swap")) /\ approvals' = Without(o)
           /\ UNCHANGED proofVars
  <2>1. "swap" \in Step /\ Unsent(r, "swap") \in Operation
    BY <1>1, UnsentRecord DEF Step
  <2>2. TypeOK'
    BY <1>0, <1>6, <2>1, EndTypes, LookupTypes DEF TypeOK
  <2> QED BY <1>0, <1>6, <2>1, <2>2, LookupUnsent
<1> QED BY <1>2, <1>3, <1>4, <1>5, <1>6 DEF ObserveSwap

LEMMA ObserveBridgeStep ==
    ASSUME SwapInv, NEW o \in Op, ObserveBridge(o)
    PROVE  SwapInv'
<1> USE DEF planVars, workVars, proofVars, writeVars, chainVars
<1> DEFINE r == operations[o]
<1>0. /\ TypeOK /\ lookup[o] = "bridge"
      /\ UNCHANGED <<planVars, workVars, refreshing, proofVars, writeVars,
                     selected, allowed, chainVars>>
  BY DEF ObserveBridge, SwapInv
<1>1. r \in Operation /\ r.status # "none" /\ r.hash["bridge"] \in Attempt
  BY <1>0, LookupKnown
<1>2. ASSUME NEW k \in {"ack", "done", "threw"}, EndObserve(o, k),
             UNCHANGED <<operations, approvals>>
      PROVE  SwapInv'
  <2>1. Becomes(o, r) /\ SameHashes(r, r)
    BY <1>0, <1>1, <1>2, Unmoved, SameRecord
  <2>2. TypeOK'
    BY <1>0, <1>1, <1>2, <2>1, EndTypes, LookupTypes DEF TypeOK
  <2>3. r.hash["bridge"] # 0
    BY <1>0 DEF SwapInv, OperationInv, LookupHasHash
  <2> QED BY <1>0, <1>1, <1>2, <2>1, <2>2, <2>3, LookupRecord
<1>3. CASE /\ "failed" \in Lookups(o, "bridge") /\ EndObserve(o, "done")
           /\ Becomes(o, Unsent(r, "bridge")) /\ approvals' = Without(o)
  <2>1. "bridge" \in Step /\ Unsent(r, "bridge") \in Operation
    BY <1>1, UnsentRecord DEF Step
  <2>2. TypeOK'
    BY <1>0, <1>3, <2>1, EndTypes, LookupTypes DEF TypeOK
  <2> QED BY <1>0, <1>3, <2>1, <2>2, LookupUnsent
<1>4. CASE /\ EndObserve(o, "done") /\ Becomes(o, WithStatus(r, "failed"))
           /\ UNCHANGED approvals
  <2>1. WithStatus(r, "failed") \in Operation /\ SameHashes(r, WithStatus(r, "failed"))
    BY <1>1, SameRecord DEF SameHashes, Status
  <2>2. TypeOK'
    BY <1>0, <1>4, <2>1, EndTypes, LookupTypes DEF TypeOK
  <2> QED BY <1>0, <1>4, <2>1, <2>2, LookupRecord
<1> QED BY <1>2, <1>3, <1>4 DEF ObserveBridge

LEMMA ObserveAckStep ==
    ASSUME SwapInv, NEW o \in Op, ObserveAck(o)
    PROVE  SwapInv'
<1> USE DEF planVars, workVars, proofVars, writeVars, chainVars
<1> DEFINE r == operations[o]
<1>0. /\ TypeOK /\ lookup[o] = "ack"
      /\ UNCHANGED <<planVars, workVars, refreshing, verifiedSwaps, writeVars,
                     approvals, selected, allowed, chainVars>>
  BY DEF ObserveAck, SwapInv
<1>1. r \in Operation /\ r.status # "none"
  BY <1>0, LookupKnown
<1>2. ASSUME NEW k \in {"done", "threw"}, EndObserve(o, k),
             NEW q \in Operation, SameHashes(r, q), Becomes(o, q),
             verifiedReceipts' = verifiedReceipts \/ verifiedReceipts' = verifiedReceipts \cup {o}
      PROVE  SwapInv'
  <2>1. TypeOK'
    BY <1>0, <1>2, EndTypes, LookupTypes DEF TypeOK
  <2> QED BY <1>0, <1>2, <2>1, LookupRecord
<1>3. /\ SameHashes(r, r) /\ SameHashes(r, Received(o, r))
      /\ SameHashes(r, WithDeposit(r, FALSE))
      /\ Received(o, r) \in Operation /\ WithDeposit(r, FALSE) \in Operation
  BY <1>1, SameRecord DEF SameHashes
<1>4. CASE EndObserve(o, "threw") /\ UNCHANGED <<operations, verifiedReceipts>>
  BY <1>0, <1>1, <1>2, <1>3, <1>4, Unmoved
<1>5. CASE /\ Becomes(o, Received(o, r)) /\ EndObserve(o, "done")
           /\ verifiedReceipts' = verifiedReceipts \cup {o}
  BY <1>2, <1>3, <1>5
<1>6. CASE /\ Becomes(o, WithDeposit(r, FALSE)) /\ UNCHANGED verifiedReceipts
           /\ (EndObserve(o, "threw") \/ EndObserve(o, "done"))
  BY <1>2, <1>3, <1>6
<1> QED BY <1>4, <1>5, <1>6 DEF ObserveAck

-----------------------------------------------------------------------------
(* Steps without a write. *)

LEMMA RefreshBegins ==
    ASSUME SwapInv, NEW o \in Op, Known(o), ~Running(o), refreshing[o] = "no",
           refreshing' = [refreshing EXCEPT ![o] = "observing"], BeginObserve(o),
           resuming' \subseteq Op,
           UNCHANGED <<reviews, preparing, approvals, workVars, proofVars,
                       writeVars, selected, allowed, chainVars>>
    PROVE  SwapInv'
<1> USE DEF workVars, proofVars, writeVars, chainVars
<1>0. TypeOK /\ ~Unread /\ OperationInv(o) /\ worker[o] = "idle"
  BY NotUnread DEF SwapInv, Running
<1>1. TypeOK'
  BY <1>0, BeginObserveEffect DEF TypeOK
<1>2. /\ AbsentHasNoHash(operations'[o]) /\ Known(o)'
      /\ operations'[o].hash = operations[o].hash
  BY <1>0, BeginObserveEffect DEF SameHashes, AbsentHasNoHash, Known
<1>3. OperationInv(o)'
  BY <1>0, <1>2, BeginObserveEffect
     DEF OperationInv, Exclusive, NothingToResend, UnsentWhileRecording, ActiveIsKnown, TypeOK
<1>4. LocalStep(o)
  BY <1>0, <1>1, <1>2, <1>3, BeginObserveEffect, SameMemory DEF LocalStep, TypeOK
<1> QED BY <1>0, <1>4, LocalNoWrite DEF AwaitsWrite

LEMMA RefreshStart ==
    ASSUME SwapInv, NEW o \in Op, Refresh(o) \/ PrepareResume(o)
    PROVE  SwapInv'
<1>1. CASE Refresh(o)
  BY <1>1, RefreshBegins DEF Refresh, planVars, SwapInv, TypeOK
<1>2. CASE PrepareResume(o) /\ refreshing[o] = "no"
  BY <1>2, RefreshBegins DEF PrepareResume, SwapInv, TypeOK
<1>3. CASE PrepareResume(o) /\ refreshing[o] # "no"
  <2>1. TypeOK'
    BY <1>3 DEF PrepareResume, SwapInv, TypeOK, workVars, lookVars, proofVars,
       writeVars, chainVars
  <2> QED BY <1>3, <2>1, QuietStep DEF PrepareResume, Live, chainVars, lookVars
<1> QED BY <1>1, <1>2, <1>3

LEMMA LaunchedEffect ==
    ASSUME TypeOK, NEW o \in Op, worker' = Launched(o)
    PROVE  /\ worker' \in [Op -> Workers]
           /\ \A p \in Op \ {o} : worker'[p] = worker[p]
           /\ worker'[o] = IF worker[o] = "idle" THEN "launched" ELSE worker[o]
BY DEF TypeOK, Launched, Running, Workers

LEMMA TimerStep ==
    ASSUME SwapInv, NEW o \in Op, Timer(o)
    PROVE  SwapInv'
<1> USE DEF planVars, lookVars, proofVars, writeVars, chainVars
<1>0. /\ TypeOK /\ ~Unread /\ OperationInv(o) /\ Known(o)
      /\ timers[o] > 0 /\ timers' = [timers EXCEPT ![o] = @ - 1]
  BY NotUnread DEF SwapInv, OperationInv, ActiveIsKnown, Timer
<1>1. timers' \in [Op -> Nat] /\ \A p \in Op \ {o} : timers'[p] = timers[p]
  BY <1>0 DEF TypeOK
<1>2. TypeOK'
  BY <1>0, <1>1, LaunchedEffect DEF Timer, TypeOK
<1>3. OperationInv(o)'
  BY <1>0, LaunchedEffect DEF Timer, OperationInv, Exclusive, LookupHasHash,
     NothingToResend, UnsentWhileRecording, NextHash, ActiveIsKnown, Known
<1>4. LocalStep(o)
  BY <1>0, <1>1, <1>2, <1>3, LaunchedEffect, SameMemory DEF Timer, LocalStep, Known, AwaitsWrite
<1> QED BY <1>0, <1>4, LaunchedEffect, LocalNoWrite DEF Timer, AwaitsWrite

LEMMA WorkerBegins ==
    ASSUME SwapInv, NEW o \in Op, worker[o] = "launched", refreshing[o] = "no",
           worker' = [worker EXCEPT ![o] = "observing"], BeginObserve(o),
           UNCHANGED <<planVars, approvals, timers, refreshing, proofVars,
                       writeVars, selected, allowed, chainVars>>
    PROVE  SwapInv'
<1> USE DEF planVars, proofVars, writeVars, chainVars
<1>0. TypeOK /\ ~Unread /\ OperationInv(o) /\ Known(o)
  BY NotUnread DEF SwapInv, OperationInv, ActiveIsKnown
<1>1. /\ worker' \in [Op -> Workers] /\ worker'[o] = "observing"
      /\ \A p \in Op \ {o} : worker'[p] = worker[p]
  BY <1>0 DEF TypeOK, Workers
<1>2. TypeOK'
  BY <1>0, <1>1, BeginObserveEffect DEF TypeOK
<1>3. /\ AbsentHasNoHash(operations'[o]) /\ Known(o)'
      /\ operations'[o].hash = operations[o].hash
  BY <1>0, BeginObserveEffect DEF SameHashes, AbsentHasNoHash, OperationInv, Known
<1>4. OperationInv(o)'
  BY <1>0, <1>1, <1>3, BeginObserveEffect
     DEF OperationInv, Exclusive, NothingToResend, UnsentWhileRecording, ActiveIsKnown
<1>5. LocalStep(o)
  BY <1>0, <1>1, <1>2, <1>3, <1>4, BeginObserveEffect, SameMemory DEF LocalStep
<1> QED BY <1>0, <1>1, <1>5, LocalNoWrite DEF AwaitsWrite

\* The worker goes on, towards the next step of the route.
LEMMA WorkerGoesOn ==
    ASSUME SwapInv, NEW o \in Op, NEW w \in {"preparing", "signing"},
           worker' = [worker EXCEPT ![o] = w], NextHash(o) = 0,
           worker[o] \in {"observing", "preparing"},
           lookup' = [lookup EXCEPT ![o] = "idle"],
           UNCHANGED <<operations, planVars, approvals, timers, refreshing,
                       proofVars, writeVars, selected, allowed, chainVars>>
    PROVE  SwapInv'
<1> USE DEF planVars, proofVars, writeVars, chainVars
<1>0. TypeOK /\ ~Unread /\ OperationInv(o) /\ Known(o)
  BY NotUnread DEF SwapInv, OperationInv, ActiveIsKnown
<1>1. /\ worker' \in [Op -> Workers] /\ worker'[o] = w
      /\ \A p \in Op \ {o} : worker'[p] = worker[p] /\ lookup'[p] = lookup[p]
      /\ lookup'[o] = "idle"
  BY <1>0 DEF TypeOK, Workers
<1>2. TypeOK'
  BY <1>0, <1>1 DEF TypeOK
<1>3. refreshing[o] = "no"
  BY <1>0 DEF TypeOK, OperationInv, Exclusive
<1>4. OperationInv(o)'
  BY <1>0, <1>1, <1>3 DEF OperationInv, Exclusive, LookupHasHash, NothingToResend, NextHash,
     UnsentWhileRecording, ActiveIsKnown, Known
<1>5. LocalStep(o)
  BY <1>0, <1>1, <1>2, <1>4, SameMemory DEF LocalStep, Known
<1> QED BY <1>0, <1>1, <1>5, LocalNoWrite DEF AwaitsWrite

-----------------------------------------------------------------------------
(* Steps that begin a write. *)

LEMMA PausedEffect ==
    ASSUME TypeOK, NEW o \in Op, WorkerPaused(o)
    PROVE  /\ operations' \in [Op -> Operation]
           /\ operations'[o].status = "paused"
           /\ operations'[o].hash = operations[o].hash
           /\ \A p \in Op \ {o} : operations'[p] = operations[p]
           /\ approvals' \in [Op -> Approval]
           /\ worker' \in [Op -> Workers] /\ worker'[o] = "pausing"
           /\ \A p \in Op \ {o} : worker'[p] = worker[p]
<1>1. /\ WithStatus(operations[o], "paused") \in Operation
      /\ WithStatus(operations[o], "paused").status = "paused"
      /\ WithStatus(operations[o], "paused").hash = operations[o].hash
  BY StatusRecord DEF TypeOK, Status
<1>2. /\ Becomes(o, WithStatus(operations[o], "paused"))
      /\ approvals' = Without(o)
      /\ worker' = [worker EXCEPT ![o] = "pausing"]
  BY DEF WorkerPaused, BecomesPaused
<1> QED BY <1>1, <1>2, BecomesEffect DEF TypeOK, Without, Approval, Workers

\* pause() of a worker that holds no lookup any more.
LEMMA PauseStep ==
    ASSUME SwapInv, NEW o \in Op, PauseWorker(o),
           worker[o] \notin AwaitsWrite \cup {"idle"},
           refreshing'[o] = "no", lookup'[o] = "idle",
           \A p \in Op \ {o} : refreshing'[p] = refreshing[p] /\ lookup'[p] = lookup[p],
           refreshing' \in [Op -> {"no", "observing", "saving"}],
           lookup' \in [Op -> {"idle", "swap", "bridge", "ack", "done", "threw"}],
           preparing' \subseteq Plan, resuming' \subseteq Op,
           UNCHANGED <<reviews, timers, proofVars, selected, allowed, chainVars>>
    PROVE  SwapInv'
<1> USE DEF proofVars, chainVars
<1>0. TypeOK /\ ~Unread /\ OperationInv(o)
  BY NotUnread DEF SwapInv
<1>1. WorkerPaused(o) /\ Save(<<"worker", o>>)
  BY DEF PauseWorker
<1>2. /\ writeTail' \in Seq(Waiter) /\ storageError' = storageError
      /\ snapshot' \in [Op -> Operation] /\ disk' \in [Op -> Operation]
  BY <1>0, <1>1, PausedEffect, SaveTypes DEF Waiter, Save
<1>3. TypeOK'
  BY <1>0, <1>1, <1>2, PausedEffect DEF TypeOK
<1>4. OperationInv(o)' /\ Known(o)'
  BY <1>0, <1>1, PausedEffect DEF OperationInv, Exclusive, LookupHasHash, NothingToResend,
     UnsentWhileRecording, AbsentHasNoHash, ActiveIsKnown, Known
<1>5. LocalStep(o)
  BY <1>0, <1>1, <1>3, <1>4, PausedEffect, SameMemory DEF LocalStep
<1> QED BY <1>0, <1>1, <1>4, <1>5, PausedEffect, LocalSave DEF AwaitsWrite

\* The worker saves a record whose status may have changed.
LEMMA WorkerSaves ==
    ASSUME SwapInv, NEW o \in Op, NEW st \in Status \ {"none"},
           Becomes(o, WithStatus(operations[o], st)), Save(<<"worker", o>>),
           worker[o] \in {"observing", "broadcasting"},
           worker' = [worker EXCEPT ![o] = "saving"],
           lookup' = [lookup EXCEPT ![o] = "idle"],
           approvals' = approvals \/ approvals' = Without(o),
           UNCHANGED <<planVars, timers, refreshing, proofVars, selected,
                       allowed, chainVars>>
    PROVE  SwapInv'
<1> USE DEF planVars, proofVars, chainVars
<1> DEFINE r == WithStatus(operations[o], st)
<1>0. TypeOK /\ ~Unread /\ OperationInv(o)
  BY NotUnread DEF SwapInv
<1>1. r \in Operation /\ r.status = st /\ r.hash = operations[o].hash
  BY <1>0, StatusRecord DEF TypeOK
<1>2. /\ operations' \in [Op -> Operation] /\ operations'[o] = r
      /\ \A p \in Op \ {o} : operations'[p] = operations[p]
  BY <1>0, <1>1, BecomesEffect DEF TypeOK
<1>3. /\ writeTail' \in Seq(Waiter) /\ storageError' = storageError
      /\ snapshot' \in [Op -> Operation] /\ disk' \in [Op -> Operation]
  BY <1>0, <1>2, SaveTypes DEF Waiter, Save
<1>4. /\ worker' \in [Op -> Workers] /\ worker'[o] = "saving"
      /\ \A p \in Op \ {o} : worker'[p] = worker[p] /\ lookup'[p] = lookup[p]
      /\ lookup'[o] = "idle"
      /\ approvals' \in [Op -> Approval]
  BY <1>0 DEF TypeOK, Workers, Without, Approval
<1>5. TypeOK'
  BY <1>0, <1>2, <1>3, <1>4 DEF TypeOK
<1>6. refreshing[o] = "no"
  BY <1>0 DEF TypeOK, OperationInv, Exclusive
<1>7. OperationInv(o)' /\ Known(o)'
  BY <1>0, <1>1, <1>2, <1>4, <1>6 DEF OperationInv, Exclusive, LookupHasHash,
     NothingToResend, UnsentWhileRecording, AbsentHasNoHash, ActiveIsKnown, Known
<1>8. LocalStep(o)
  BY <1>0, <1>1, <1>2, <1>4, <1>5, <1>7, SameMemory DEF LocalStep
<1> QED BY <1>0, <1>4, <1>7, <1>8, LocalSave DEF AwaitsWrite

LEMMA WorkerThrowsStep ==
    ASSUME SwapInv, NEW o \in Op, WorkerThrows(o),
           worker[o] \in {"launched", "observing", "preparing", "signing", "broadcasting"},
           refreshing[o] = "no",
           lookup' = [lookup EXCEPT ![o] = "idle"]
    PROVE  SwapInv'
<1>0. TypeOK
  BY DEF SwapInv
<1> QED BY <1>0, PauseStep DEF WorkerThrows, planVars, TypeOK, AwaitsWrite

LEMMA AtRest ==
    ASSUME SwapInv, NEW o \in Op, worker[o] \notin {"idle", "launched"}
    PROVE  /\ refreshing[o] = "no"
           /\ worker[o] # "observing" => lookup[o] = "idle"
BY DEF SwapInv, TypeOK, OperationInv, Exclusive

LEMMA LookupIdle ==
    ASSUME SwapInv, NEW o \in Op, lookup[o] = "idle", UNCHANGED lookup
    PROVE  lookup' = [lookup EXCEPT ![o] = "idle"]
BY DEF SwapInv, TypeOK

LEMMA RunStep ==
    ASSUME SwapInv, NEW o \in Op, Run(o)
    PROVE  SwapInv'
<1>1. worker[o] = "launched" /\ refreshing[o] = "no" /\ lookup[o] = "idle"
  BY DEF Run, SwapInv, OperationInv, Exclusive
<1>2. CASE WorkerThrows(o) /\ UNCHANGED lookup
  BY <1>1, <1>2, LookupIdle, WorkerThrowsStep
<1>3. CASE worker' = [worker EXCEPT ![o] = "observing"]
  BY <1>1, <1>3, WorkerBegins DEF Run, WorkerThrows, PauseWorker, WorkerPaused, SwapInv, TypeOK
<1> QED BY <1>2, <1>3 DEF Run

LEMMA RunObservedStep ==
    ASSUME SwapInv, NEW o \in Op, RunObserved(o)
    PROVE  SwapInv'
<1> DEFINE r == operations[o]
           waits == Finished(r) \/ (Guard(o) /\ Tracks(o, r))
<1>0. /\ worker[o] = "observing" /\ refreshing[o] = "no"
      /\ lookup' = [lookup EXCEPT ![o] = "idle"]
      /\ TypeOK
  BY AtRest DEF RunObserved, SwapInv
<1>1. CASE /\ approvals' = IF Finished(r) THEN Without(o) ELSE approvals
           /\ worker' = [worker EXCEPT ![o] = "saving"]
           /\ UNCHANGED operations
           /\ Save(<<"worker", o>>)
           /\ UNCHANGED <<planVars, timers, refreshing, proofVars, selected,
                          allowed, chainVars>>
  <2>1. Known(o) /\ r \in Operation
    BY <1>0 DEF SwapInv, TypeOK, OperationInv, ActiveIsKnown
  <2>2. r.status \in Status \ {"none"}
    BY <2>1, RecordTypes DEF Known
  <2>3. Becomes(o, WithStatus(r, r.status))
    BY <1>0, <1>1, <2>1 DEF TypeOK, Becomes, WithStatus, Operation
  <2> QED BY <1>0, <1>1, <2>2, <2>3, WorkerSaves
<1>2. CASE /\ ~waits /\ Guard(o)
           /\ worker' = [worker EXCEPT ![o] = "preparing"]
           /\ UNCHANGED <<operations, planVars, approvals, timers, refreshing,
                          proofVars, writeVars, selected, allowed, chainVars>>
  <2>1. NextHash(o) = 0
    BY <1>2 DEF Tracks, NextHash, NextStep
  <2> QED BY <1>0, <1>2, <2>1, WorkerGoesOn
<1>3. CASE WorkerThrows(o)
  BY <1>0, <1>3, WorkerThrowsStep
<1> QED BY <1>1, <1>2, <1>3 DEF RunObserved

LEMMA PreparedStep ==
    ASSUME SwapInv, NEW o \in Op, Prepared(o)
    PROVE  SwapInv'
<1>0. /\ worker[o] = "preparing" /\ refreshing[o] = "no" /\ lookup[o] = "idle"
      /\ UNCHANGED lookup
  BY AtRest DEF Prepared
<1>1. CASE /\ worker' = [worker EXCEPT ![o] = "signing"]
           /\ UNCHANGED <<operations, planVars, approvals, timers, refreshing,
                          proofVars, writeVars, selected, allowed, chainVars>>
  <2>1. NextHash(o) = 0
    BY <1>0 DEF SwapInv, OperationInv, NothingToResend
  <2> QED BY <1>0, <1>1, <2>1, LookupIdle, WorkerGoesOn
<1>2. CASE WorkerThrows(o)
  BY <1>0, <1>2, LookupIdle, WorkerThrowsStep
<1> QED BY <1>1, <1>2 DEF Prepared

LEMMA BroadcastReturnedStep ==
    ASSUME SwapInv, NEW o \in Op, BroadcastReturned(o)
    PROVE  SwapInv'
<1>0. /\ worker[o] = "broadcasting" /\ refreshing[o] = "no" /\ lookup[o] = "idle"
      /\ UNCHANGED lookup
  BY AtRest DEF BroadcastReturned
<1>1. CASE WorkerThrows(o)
  BY <1>0, <1>1, LookupIdle, WorkerThrowsStep
<1>2. CASE ~WorkerThrows(o)
  <2> DEFINE st == SentStatus(NextStep(o, operations[o]))
  <2>1. st \in Status \ {"none"}
    BY DEF SentStatus, Status
  <2>2. /\ Becomes(o, WithStatus(operations[o], st))
        /\ worker' = [worker EXCEPT ![o] = "saving"]
        /\ Save(<<"worker", o>>)
        /\ UNCHANGED <<planVars, approvals, timers, refreshing, proofVars,
                       selected, allowed, chainVars>>
    BY <1>2 DEF BroadcastReturned
  <2> QED BY <1>0, <2>1, <2>2, LookupIdle, WorkerSaves
<1> QED BY <1>1, <1>2

LEMMA SignedStep ==
    ASSUME SwapInv, NEW o \in Op, Signed(o)
    PROVE  SwapInv'
<1> USE DEF planVars, proofVars, chainVars
<1> DEFINE r == operations[o]
           s == NextStep(o, r)
<1>0. /\ worker[o] = "signing" /\ refreshing[o] = "no" /\ lookup[o] = "idle"
      /\ UNCHANGED lookup /\ TypeOK /\ ~Unread /\ OperationInv(o) /\ r \in Operation
      /\ s \in Step /\ MemoryRecords(o) /\ Known(o)
  BY AtRest, NotUnread DEF Signed, SwapInv, TypeOK, NextStep, Step, OperationInv, ActiveIsKnown
<1>1. CASE WorkerThrows(o)
  BY <1>0, <1>1, LookupIdle, WorkerThrowsStep
<1>2. CASE ~WorkerThrows(o)
  <2>1. PICK a \in NewHashes(o, s) : Becomes(o, WithHash(r, s, a))
    BY <1>2 DEF Signed
  <2>2. /\ worker' = [worker EXCEPT ![o] = "recording"]
        /\ Save(<<"worker", o>>)
        /\ UNCHANGED <<planVars, approvals, timers, refreshing, proofVars,
                       selected, allowed, chainVars>>
    BY <1>2 DEF Signed
  <2>3. a \in Attempt /\ a \in Hash /\ a # 0 /\ tx[o][s][a] = "unsent"
    BY <2>1, ConstantsAssumption DEF NewHashes, Attempt, Hash
  <2> DEFINE q == WithHash(r, s, a)
  <2>4. /\ q \in Operation /\ q.status = r.status /\ q.hash = [r.hash EXCEPT ![s] = a]
        /\ NextStep(o, q) = s
    BY <1>0, <2>3, HashRecord
  <2>5. /\ operations' \in [Op -> Operation] /\ operations'[o] = q
        /\ \A p \in Op \ {o} : operations'[p] = operations[p]
    BY <1>0, <2>1, <2>4, BecomesEffect DEF TypeOK
  <2>6. /\ writeTail' \in Seq(Waiter) /\ storageError' = storageError
        /\ snapshot' \in [Op -> Operation] /\ disk' \in [Op -> Operation]
    BY <1>0, <2>2, <2>5, SaveTypes DEF Waiter, Save
  <2>7. /\ worker' \in [Op -> Workers] /\ worker'[o] = "recording"
        /\ \A p \in Op \ {o} : worker'[p] = worker[p]
    BY <1>0, <2>2 DEF TypeOK, Workers
  <2>8. TypeOK'
    BY <1>0, <2>2, <2>5, <2>6, <2>7 DEF TypeOK
  <2>9. NextHash(o)' = a
    BY <1>0, <2>4, <2>5, RecordTypes DEF NextHash
  <2>10. UnsentWhileRecording(o)'
    BY <2>2, <2>3, <2>4, <2>5, <2>9 DEF UnsentWhileRecording
  <2>11. OperationInv(o)' /\ Known(o)'
    BY <1>0, <2>2, <2>4, <2>5, <2>7, <2>10 DEF OperationInv, Exclusive, LookupHasHash,
       NothingToResend, AbsentHasNoHash, ActiveIsKnown, Known
  <2>12. MemoryRecords(o)'
    <3>1. NextHash(o) = 0
      BY <1>0 DEF OperationInv, NothingToResend
    <3> SUFFICES ASSUME NEW t \in Step, NEW b \in Attempt, Live(o, t, b)
                 PROVE  q.hash[t] = b
      BY <2>2, <2>5 DEF MemoryRecords, Live
    <3>2. r.hash[t] = b /\ b # 0
      BY <1>0, ConstantsAssumption DEF MemoryRecords, Attempt
    <3>3. t # s
      BY <3>1, <3>2 DEF NextHash
    <3> QED BY <1>0, <2>4, <3>2, <3>3, RecordTypes
  <2>13. LocalStep(o)
    BY <1>0, <2>2, <2>5, <2>7, <2>8, <2>11, <2>12 DEF LocalStep, AwaitsWrite
  <2> QED BY <1>0, <2>2, <2>7, <2>11, <2>13, LocalSave DEF AwaitsWrite
<1> QED BY <1>1, <1>2

LEMMA StartStep ==
    ASSUME SwapInv, NEW p \in reviews, Start(p)
    PROVE  SwapInv'
<1> USE DEF lookVars, workVars, proofVars, chainVars
<1> DEFINE o == p.op
           r == p.resumeState
           q == MakeOperation(o, r)
<1>0. /\ TypeOK /\ o \in Op /\ r \in Operation /\ operations[o] \in Operation
      /\ worker[o] = "idle" /\ ~storageError
  BY DEF Start, SwapInv, TypeOK, Plan, Running, Available
<1>1. ~Unread /\ OperationInv(o)
  BY <1>0, NotUnread DEF SwapInv
<1>2. r.hash = operations[o].hash
  BY <1>0, <1>1 DEF Start, OperationInv, AbsentHasNoHash, Known
<1>3. q \in Operation /\ q.status # "none" /\ q.hash = operations[o].hash
  BY <1>0, <1>2, MadeRecord
<1>4. /\ Becomes(o, q) /\ Save(<<"start", o>>)
      /\ approvals' = [approvals EXCEPT ![o] = "fresh"]
      /\ allowed' = [allowed EXCEPT ![o] = [s \in Step |-> 1]]
      /\ reviews' \subseteq reviews
      /\ UNCHANGED <<preparing, resuming, workVars, lookVars, proofVars,
                     selected, chainVars>>
  BY DEF Start
<1>5. /\ operations' \in [Op -> Operation] /\ operations'[o] = q
      /\ \A x \in Op \ {o} : operations'[x] = operations[x]
  BY <1>0, <1>3, <1>4, BecomesEffect DEF TypeOK
<1>6. /\ writeTail' \in Seq(Waiter) /\ storageError' = storageError
      /\ snapshot' \in [Op -> Operation] /\ disk' \in [Op -> Operation]
  BY <1>0, <1>4, <1>5, SaveTypes DEF Waiter, Save
<1>7. approvals' \in [Op -> Approval] /\ allowed' \in [Op -> [Step -> Int]]
  BY <1>0, <1>4 DEF TypeOK, Approval
<1>8. TypeOK'
  BY <1>0, <1>4, <1>5, <1>6, <1>7 DEF TypeOK
<1>9. OperationInv(o)' /\ Known(o)'
  BY <1>0, <1>1, <1>3, <1>4, <1>5 DEF OperationInv, Exclusive, LookupHasHash,
     NothingToResend, UnsentWhileRecording, AbsentHasNoHash, ActiveIsKnown, Known
<1>10. LocalStep(o)
  BY <1>0, <1>1, <1>3, <1>4, <1>5, <1>8, <1>9, SameMemory DEF LocalStep
<1> QED BY <1>0, <1>1, <1>4, <1>9, <1>10, LocalSave DEF AwaitsWrite

LEMMA RefreshObservedStep ==
    ASSUME SwapInv, NEW o \in Op, RefreshObserved(o)
    PROVE  SwapInv'
<1> USE DEF RefreshObserved, planVars, workVars, proofVars, chainVars
<1>0. /\ TypeOK /\ ~Unread /\ OperationInv(o) /\ worker[o] \in {"idle", "launched"}
  BY NotUnread DEF SwapInv, OperationInv, Exclusive
<1>1. /\ writeTail' \in Seq(Waiter) /\ storageError' = storageError
      /\ snapshot' \in [Op -> Operation] /\ disk' \in [Op -> Operation]
  BY <1>0, SaveTypes DEF TypeOK, Waiter, Save
<1>2. /\ refreshing'[o] = "saving" /\ lookup'[o] = "idle"
      /\ \A p \in Op \ {o} : refreshing'[p] = refreshing[p] /\ lookup'[p] = lookup[p]
  BY <1>0 DEF TypeOK
<1>3. TypeOK'
  BY <1>0, <1>1 DEF TypeOK
<1>4. OperationInv(o)'
  BY <1>0, <1>2 DEF OperationInv, Exclusive, LookupHasHash, NothingToResend, NextHash,
     UnsentWhileRecording, ActiveIsKnown, Known
<1>5. LocalStep(o)
  BY <1>0, <1>2, <1>3, <1>4, SameMemory DEF LocalStep, Known
<1> QED BY <1>0, <1>5, LocalSave DEF AwaitsWrite

LEMMA RefreshOverTypes ==
    ASSUME TypeOK, NEW o \in Op, NEW ok \in BOOLEAN, RefreshOver(o, ok)
    PROVE  /\ refreshing' \in [Op -> {"no", "observing", "saving"}]
           /\ refreshing'[o] = "no"
           /\ \A p \in Op \ {o} : refreshing'[p] = refreshing[p]
           /\ preparing' \subseteq Plan /\ resuming' \subseteq Op
BY DEF TypeOK, RefreshOver, Plan

LEMMA RefreshThrewStep ==
    ASSUME SwapInv, NEW o \in Op, RefreshThrew(o)
    PROVE  SwapInv'
<1> USE DEF RefreshThrew, proofVars, chainVars
<1>0. /\ TypeOK /\ ~Unread /\ OperationInv(o) /\ worker[o] \in {"idle", "launched"}
      /\ RefreshOver(o, FALSE)
  BY NotUnread DEF SwapInv, OperationInv, Exclusive
<1>1. /\ lookup'[o] = "idle"
      /\ \A p \in Op \ {o} : lookup'[p] = lookup[p]
      /\ lookup' \in [Op -> {"idle", "swap", "bridge", "ack", "done", "threw"}]
  BY <1>0 DEF TypeOK
<1>2. CASE worker[o] = "launched"
  BY <1>0, <1>1, <1>2, RefreshOverTypes, PauseStep DEF AwaitsWrite
<1>3. CASE worker[o] # "launched"
  <2>1. UNCHANGED <<operations, approvals, worker, writeVars>>
    BY <1>3
  <2>2. TypeOK'
    BY <1>0, <1>1, <2>1, RefreshOverTypes DEF TypeOK, writeVars
  <2>3. OperationInv(o)'
    BY <1>0, <1>1, <2>1, RefreshOverTypes DEF OperationInv, Exclusive, LookupHasHash,
       NothingToResend, NextHash, UnsentWhileRecording, ActiveIsKnown, Known
  <2>4. LocalStep(o)
    BY <1>0, <1>1, <2>1, <2>2, <2>3, RefreshOverTypes, SameMemory DEF LocalStep, Known
  <2> QED BY <1>0, <2>1, <2>4, LocalNoWrite DEF writeVars
<1> QED BY <1>2, <1>3

-----------------------------------------------------------------------------
(* Steps that end a write. *)

LEMMA StartSavedStep ==
    ASSUME SwapInv, NEW o \in Op, NEW ok \in BOOLEAN, StartSaved(o, ok)
    PROVE  SwapInv'
<1> USE DEF planVars, lookVars, proofVars, chainVars
<1>0. /\ TypeOK /\ ~Unread /\ OperationInv(o) /\ writeTail # <<>>
      /\ Head(writeTail) = <<"start", o>> /\ storageError' = storageError
      /\ UNCHANGED <<planVars, timers, lookVars, proofVars, selected, allowed,
                     chainVars>>
  BY NotUnread DEF StartSaved, Settle, SwapInv
<1>1. Known(o)
  <2>1. writeTail \in Seq(Waiter) /\ OneWriteOfWorker(o)
    BY DEF SwapInv, TypeOK, QueueInv
  <2>2. 1 \in DOMAIN writeTail /\ writeTail[1] = <<"start", o>>
    BY <1>0, <2>1
  <2> QED BY <2>1, <2>2 DEF OneWriteOfWorker
<1>2. CASE ok
  <2>1. worker' = Launched(o) /\ UNCHANGED <<operations, approvals>>
        /\ Settle(<<"start", o>>, TRUE, <<>>)
    BY <1>2 DEF StartSaved
  <2>2. /\ writeTail' \in Seq(Waiter)
        /\ snapshot' \in [Op -> Operation] /\ disk' \in [Op -> Operation]
    BY <1>0, <2>1, SettleTypes DEF TypeOK
  <2>3. TypeOK'
    BY <1>0, <2>1, <2>2, LaunchedEffect DEF TypeOK
  <2>4. OperationInv(o)'
    BY <1>0, <1>1, <2>1, LaunchedEffect DEF OperationInv, Exclusive, LookupHasHash,
       NothingToResend, UnsentWhileRecording, NextHash, ActiveIsKnown, Known
  <2>5. LocalStep(o)
    BY <1>0, <2>1, <2>3, <2>4, LaunchedEffect, SameMemory DEF LocalStep, Known, AwaitsWrite
  <2>6. /\ worker[o] \in AwaitsWrite => worker'[o] = worker[o]
        /\ worker'[o] = "recording" => worker[o] = "recording"
    BY <1>0, <2>1, LaunchedEffect DEF AwaitsWrite
  <2> QED BY <1>0, <2>1, <2>5, <2>6, LocalSettle
<1>3. CASE ~ok
  <2> DEFINE q == WithStatus(operations[o], "paused")
  <2>1. /\ Becomes(o, q) /\ approvals' = Without(o) /\ UNCHANGED worker
        /\ Settle(<<"start", o>>, FALSE, <<<<"pause", o>>>>)
    BY <1>3 DEF StartSaved, BecomesPaused
  <2>2. q \in Operation /\ q.status = "paused" /\ q.hash = operations[o].hash
        /\ NextStep(o, q) = NextStep(o, operations[o])
    BY <1>0, StatusRecord DEF TypeOK, Status
  <2>3. /\ operations' \in [Op -> Operation] /\ operations'[o] = q
        /\ \A p \in Op \ {o} : operations'[p] = operations[p]
    BY <1>0, <2>1, <2>2, BecomesEffect DEF TypeOK
  <2>4. /\ writeTail' \in Seq(Waiter)
        /\ snapshot' \in [Op -> Operation] /\ disk' \in [Op -> Operation]
    BY <1>0, <2>1, <2>3, SettleTypes
  <2>5. approvals' \in [Op -> Approval]
    BY <1>0, <2>1 DEF TypeOK, Without, Approval
  <2>6. TypeOK'
    BY <1>0, <2>1, <2>3, <2>4, <2>5 DEF TypeOK
  <2>7. OperationInv(o)'
    BY <1>0, <1>1, <2>1, <2>2, <2>3 DEF OperationInv, Exclusive, LookupHasHash,
       NothingToResend, UnsentWhileRecording, NextHash, AbsentHasNoHash, ActiveIsKnown, Known
  <2>8. LocalStep(o)
    BY <1>0, <2>1, <2>2, <2>3, <2>6, <2>7, SameMemory DEF LocalStep, Known, AwaitsWrite
  <2>9. <<<<"pause", o>>>> # <<<<"worker", o>>>>
    OBVIOUS
  <2> QED BY <1>0, <2>1, <2>8, <2>9, LocalSettle DEF AwaitsWrite
<1> QED BY <1>2, <1>3

LEMMA StartPausedStep ==
    ASSUME SwapInv, NEW o \in Op, NEW ok \in BOOLEAN, StartPaused(o, ok)
    PROVE  SwapInv'
<1> USE DEF StartPaused, planVars, workVars, lookVars, proofVars, chainVars
<1>0. TypeOK /\ ~Unread /\ OperationInv(o)
  BY NotUnread DEF Settle, SwapInv
<1>1. /\ writeTail' \in Seq(Waiter)
      /\ snapshot' \in [Op -> Operation] /\ disk' \in [Op -> Operation]
  BY <1>0, SettleTypes DEF TypeOK
<1>2. TypeOK'
  BY <1>0, <1>1 DEF TypeOK
<1>3. OperationInv(o)'
  BY <1>0 DEF OperationInv, Exclusive, LookupHasHash, NothingToResend,
     UnsentWhileRecording, NextHash, ActiveIsKnown, Known
<1>4. LocalStep(o)
  BY <1>0, <1>2, <1>3, SameMemory DEF LocalStep, Known, AwaitsWrite
<1>5. <<>> # <<<<"worker", o>>>>
  OBVIOUS
<1> QED BY <1>0, <1>4, <1>5, LocalSettle DEF AwaitsWrite

LEMMA RefreshSavedStep ==
    ASSUME SwapInv, NEW o \in Op, NEW ok \in BOOLEAN, RefreshSaved(o, ok)
    PROVE  SwapInv'
<1> USE DEF RefreshSaved, proofVars, chainVars
<1>0. TypeOK /\ ~Unread /\ OperationInv(o)
  BY NotUnread DEF Settle, SwapInv
<1>1. /\ RefreshOver(o, ok) /\ lookup[o] = "idle" /\ worker[o] \in {"idle", "launched"}
      /\ UNCHANGED <<reviews, timers, lookup, proofVars, storageError, selected,
                     allowed, chainVars>>
  BY <1>0 DEF OperationInv, Exclusive
<1>2. CASE ~ok /\ worker[o] = "launched"
  <2>1. WorkerPaused(o) /\ Settle(<<"refresh", o>>, ok, <<<<"worker", o>>>>)
    BY <1>2
  <2>2. /\ writeTail' \in Seq(Waiter)
        /\ snapshot' \in [Op -> Operation] /\ disk' \in [Op -> Operation]
    BY <1>0, <2>1, PausedEffect, SettleTypes
  <2>3. TypeOK'
    BY <1>0, <2>1, <2>2, PausedEffect, RefreshOverTypes DEF TypeOK
  <2>4. OperationInv(o)' /\ Known(o)'
    BY <1>0, <1>2, <2>1, PausedEffect, RefreshOverTypes DEF OperationInv, Exclusive,
       LookupHasHash, NothingToResend, UnsentWhileRecording, AbsentHasNoHash,
       ActiveIsKnown, Known
  <2>5. LocalStep(o)
    BY <1>0, <2>1, <2>3, <2>4, PausedEffect, RefreshOverTypes, SameMemory DEF LocalStep
  <2>6. worker'[o] = "pausing"
    BY <1>0, <2>1, PausedEffect
  <2> QED BY <1>0, <1>2, <2>1, <2>5, <2>6, LocalSettle DEF AwaitsWrite
<1>3. CASE ~(~ok /\ worker[o] = "launched")
  <2>1. /\ UNCHANGED <<operations, approvals, worker>>
        /\ Settle(<<"refresh", o>>, ok, <<>>)
    BY <1>3
  <2>2. /\ writeTail' \in Seq(Waiter)
        /\ snapshot' \in [Op -> Operation] /\ disk' \in [Op -> Operation]
    BY <1>0, <2>1, SettleTypes DEF TypeOK
  <2>3. TypeOK'
    BY <1>0, <2>1, <2>2, RefreshOverTypes DEF TypeOK
  <2>5. OperationInv(o)'
    BY <1>0, <1>1, <2>1, RefreshOverTypes DEF OperationInv, Exclusive, LookupHasHash,
       NothingToResend, UnsentWhileRecording, NextHash, ActiveIsKnown, Known
  <2>6. LocalStep(o)
    BY <1>0, <2>1, <2>3, <2>5, RefreshOverTypes, SameMemory DEF LocalStep, Known, AwaitsWrite
  <2>7. <<>> # <<<<"worker", o>>>>
    OBVIOUS
  <2> QED BY <1>0, <2>1, <2>6, <2>7, LocalSettle DEF AwaitsWrite
<1> QED BY <1>2, <1>3

LEMMA RescheduledEffect ==
    ASSUME TypeOK, NEW o \in Op, timers' = Rescheduled(o)
    PROVE  /\ timers' \in [Op -> Nat]
           /\ \A p \in Op \ {o} : timers'[p] = timers[p]
<1>1. timers' = timers \/ timers' = [timers EXCEPT ![o] = @ + 1]
  BY DEF Rescheduled
<1>2. timers \in [Op -> Nat] /\ timers[o] + 1 \in Nat
  BY DEF TypeOK
<1>3. CASE timers' = timers
  BY <1>2, <1>3
<1>4. CASE timers' = [timers EXCEPT ![o] = @ + 1]
  BY <1>2, <1>4
<1> QED BY <1>1, <1>3, <1>4

\* The worker comes to rest when its last write ends.
LEMMA WorkerEnds ==
    ASSUME SwapInv, NEW o \in Op, NEW ok \in BOOLEAN,
           worker[o] \in {"saving", "pausing"},
           worker' = [worker EXCEPT ![o] = "idle"], timers' = Rescheduled(o),
           storageError' \in BOOLEAN, Settle(<<"worker", o>>, ok, <<>>),
           UNCHANGED <<operations, approvals, planVars, lookVars, proofVars,
                       selected, allowed, chainVars>>
    PROVE  SwapInv'
<1> USE DEF planVars, lookVars, proofVars, chainVars
<1>0. /\ TypeOK /\ ~Unread /\ OperationInv(o) /\ Known(o)
      /\ refreshing[o] = "no" /\ lookup[o] = "idle"
  BY NotUnread, AtRest DEF SwapInv, OperationInv, ActiveIsKnown
<1>1. /\ writeTail' \in Seq(Waiter)
      /\ snapshot' \in [Op -> Operation] /\ disk' \in [Op -> Operation]
  BY <1>0, SettleTypes DEF TypeOK
<1>2. /\ worker' \in [Op -> Workers] /\ worker'[o] = "idle"
      /\ \A p \in Op \ {o} : worker'[p] = worker[p]
  BY <1>0 DEF TypeOK, Workers
<1>3. TypeOK'
  BY <1>0, <1>1, <1>2, RescheduledEffect DEF TypeOK
<1>4. OperationInv(o)'
  BY <1>0, <1>2 DEF OperationInv, Exclusive, LookupHasHash, NothingToResend,
     UnsentWhileRecording, ActiveIsKnown, Known
<1>5. LocalStep(o)
  BY <1>0, <1>2, <1>3, <1>4, RescheduledEffect, SameMemory DEF LocalStep, Known
<1>6. <<>> # <<<<"worker", o>>>>
  OBVIOUS
<1> QED BY <1>0, <1>2, <1>5, <1>6, LocalSettle

LEMMA WorkerSavedStep ==
    ASSUME SwapInv, NEW o \in Op, NEW ok \in BOOLEAN, WorkerSaved(o, ok)
    PROVE  SwapInv'
<1>1. CASE ok
  BY <1>1, WorkerEnds DEF WorkerSaved, SwapInv, TypeOK
<1>2. CASE ~ok
  <2> USE DEF planVars, lookVars, proofVars, chainVars
  <2>0. /\ TypeOK /\ ~Unread /\ OperationInv(o) /\ worker[o] = "saving"
        /\ refreshing[o] = "no" /\ lookup[o] = "idle"
    BY NotUnread, AtRest DEF SwapInv, WorkerSaved
  <2>1. /\ WorkerPaused(o) /\ Settle(<<"worker", o>>, ok, <<<<"worker", o>>>>)
        /\ UNCHANGED <<timers, planVars, lookVars, proofVars, storageError,
                       selected, allowed, chainVars>>
    BY <1>2 DEF WorkerSaved
  <2>2. /\ writeTail' \in Seq(Waiter)
        /\ snapshot' \in [Op -> Operation] /\ disk' \in [Op -> Operation]
    BY <2>0, <2>1, PausedEffect, SettleTypes
  <2>3. TypeOK'
    BY <2>0, <2>1, <2>2, PausedEffect DEF TypeOK
  <2>4. OperationInv(o)' /\ Known(o)'
    BY <2>0, <2>1, PausedEffect DEF OperationInv, Exclusive, LookupHasHash,
       NothingToResend, UnsentWhileRecording, AbsentHasNoHash, ActiveIsKnown, Known
  <2>5. LocalStep(o)
    BY <2>0, <2>1, <2>3, <2>4, PausedEffect, SameMemory DEF LocalStep
  <2>6. worker'[o] = "pausing"
    BY <2>0, <2>1, PausedEffect
  <2> QED BY <2>0, <2>1, <2>5, <2>6, LocalSettle DEF AwaitsWrite
<1> QED BY <1>1, <1>2

LEMMA PauseSavedStep ==
    ASSUME SwapInv, NEW o \in Op, NEW ok \in BOOLEAN, PauseSaved(o, ok)
    PROVE  SwapInv'
BY WorkerEnds DEF PauseSaved, SwapInv, TypeOK

\* The broadcast: what is about to become live is in the store and in memory.
LEMMA BroadcastStep ==
    ASSUME SwapInv, NEW o \in Op, worker[o] = "recording",
           worker' = [worker EXCEPT ![o] = "broadcasting"],
           tx' = [tx EXCEPT ![o][NextStep(o, operations[o])][NextHash(o)] = "sent"],
           allowed' \in [Op -> [Step -> Int]],
           Settle(<<"worker", o>>, TRUE, <<>>),
           UNCHANGED <<operations, approvals, planVars, timers, lookVars,
                       proofVars, storageError, selected, packet>>
    PROVE  SwapInv'
<1> USE DEF planVars, lookVars, proofVars
<1> DEFINE s == NextStep(o, operations[o])
           a == NextHash(o)
<1>0. /\ TypeOK /\ ~Unread /\ OperationInv(o) /\ refreshing[o] = "no"
      /\ lookup[o] = "idle" /\ s \in Step
  BY NotUnread, AtRest DEF SwapInv, NextStep, Step
<1>1. a \in Attempt
  BY <1>0, HashIsAttempt DEF OperationInv, UnsentWhileRecording, NextHash
<1>2. /\ writeTail' \in Seq(Waiter)
      /\ snapshot' \in [Op -> Operation] /\ disk' \in [Op -> Operation]
  BY <1>0, SettleTypes DEF TypeOK
<1>3. /\ worker' \in [Op -> Workers] /\ worker'[o] = "broadcasting"
      /\ \A p \in Op \ {o} : worker'[p] = worker[p]
  BY <1>0 DEF TypeOK, Workers
<1>4. /\ tx' \in [Op -> [Step -> [Attempt -> {"unsent", "sent", "ok", "failed"}]]]
      /\ \A p \in Op \ {o} : tx'[p] = tx[p]
      /\ \A t \in Step, b \in Attempt : tx'[o][t][b] = tx[o][t][b] \/ (t = s /\ b = a)
  BY <1>0, <1>1 DEF TypeOK
<1>5. TypeOK'
  BY <1>0, <1>2, <1>3, <1>4 DEF TypeOK
<1>6. \A p \in Op : QueueInv(p)'
  <2>1. LocalFrame(o) /\ <<>> # <<<<"worker", o>>>>
    BY <1>3 DEF LocalFrame, Known
  <2> QED BY <1>3, <2>1, SettleQueue
<1>7. /\ disk' = snapshot
      /\ snapshot' = snapshot \/ snapshot' = operations
      /\ snapshot[o].hash = operations[o].hash
  BY DEF Settle, SwapInv, QueueInv, WriteHasHash
<1>8. ASSUME NEW p \in Op
      PROVE  OperationInv(p)' /\ StoreInv(p)' /\ MemoryRecords(p)'
  <2>0. OperationInv(p) /\ StoreInv(p) /\ MemoryRecords(p)
    BY <1>0 DEF SwapInv
  <2>1. \A t \in Step, b \in Attempt : Live(p, t, b)' =>
           operations[p].hash[t] = b /\ snapshot[p].hash[t] = b
    <3>1. CASE p # o
      BY <1>4, <2>0, <3>1 DEF Live, StoreInv, MemoryRecords
    <3>2. CASE p = o
      <4> SUFFICES ASSUME NEW t \in Step, NEW b \in Attempt, Live(o, t, b)'
                   PROVE  operations[o].hash[t] = b
        BY <1>7, <3>2
      <4>1. CASE Live(o, t, b)
        BY <2>0, <3>2, <4>1 DEF MemoryRecords
      <4>2. CASE t = s /\ b = a
        BY <4>2 DEF NextHash
      <4> QED BY <1>4, <4>1, <4>2 DEF Live
    <3> QED BY <3>1, <3>2
  <2>2. StoreInv(p)' /\ MemoryRecords(p)'
    BY <1>7, <2>0, <2>1 DEF StoreInv, MemoryRecords, OperationInv
  <2>3. CASE p = o
    BY <1>0, <1>3, <2>0, <2>2, <2>3 DEF OperationInv, Exclusive, LookupHasHash,
       NothingToResend, UnsentWhileRecording, ActiveIsKnown, Known
  <2>4. CASE p # o
    BY <1>3, <1>4, <2>0, <2>2, <2>4 DEF OperationInv, Exclusive, LookupHasHash,
       NothingToResend, UnsentWhileRecording, NextHash, ActiveIsKnown, Known
  <2> QED BY <2>2, <2>3, <2>4
<1> QED BY <1>5, <1>6, <1>8 DEF SwapInv

LEMMA HashSavedStep ==
    ASSUME SwapInv, NEW o \in Op, NEW ok \in BOOLEAN, HashSaved(o, ok)
    PROVE  SwapInv'
<1> DEFINE s == NextStep(o, operations[o])
           q == Unsent(operations[o], s)
<1>0. /\ TypeOK /\ ~Unread /\ OperationInv(o) /\ worker[o] = "recording"
      /\ refreshing[o] = "no" /\ lookup[o] = "idle" /\ s \in Step
      /\ UNCHANGED <<planVars, timers, lookVars, proofVars, storageError,
                     selected, packet>>
      /\ operations[o] \in Operation
  BY NotUnread, AtRest DEF SwapInv, HashSaved, NextStep, Step, TypeOK
<1>1. CASE /\ ok
           /\ worker' = [worker EXCEPT ![o] = "broadcasting"]
           /\ tx' = [tx EXCEPT ![o][s][operations[o].hash[s]] = "sent"]
           /\ allowed' = [allowed EXCEPT ![o][s] = @ - 1]
           /\ UNCHANGED <<operations, approvals>>
           /\ Settle(<<"worker", o>>, ok, <<>>)
  <2>1. allowed' \in [Op -> [Step -> Int]]
    BY <1>0, <1>1 DEF TypeOK
  <2> QED BY <1>0, <1>1, <2>1, BroadcastStep DEF NextHash
<1>2. CASE /\ Becomes(o, q)
           /\ approvals' = Without(o)
           /\ worker' = [worker EXCEPT ![o] = "pausing"]
           /\ Settle(<<"worker", o>>, ok, <<<<"worker", o>>>>)
           /\ UNCHANGED <<tx, allowed>>
  <2> USE DEF planVars, lookVars, proofVars
  <2>1. /\ q \in Operation /\ q.status = "paused"
        /\ q.hash = [operations[o].hash EXCEPT ![s] = 0]
    BY <1>0, UnsentRecord
  <2>2. /\ operations' \in [Op -> Operation] /\ operations'[o] = q
        /\ \A p \in Op \ {o} : operations'[p] = operations[p]
    BY <1>0, <1>2, <2>1, BecomesEffect DEF TypeOK
  <2>3. /\ writeTail' \in Seq(Waiter)
        /\ snapshot' \in [Op -> Operation] /\ disk' \in [Op -> Operation]
    BY <1>0, <1>2, <2>2, SettleTypes
  <2>4. /\ worker' \in [Op -> Workers] /\ worker'[o] = "pausing"
        /\ \A p \in Op \ {o} : worker'[p] = worker[p]
        /\ approvals' \in [Op -> Approval]
    BY <1>0, <1>2 DEF TypeOK, Workers, Without, Approval
  <2>5. TypeOK'
    BY <1>0, <1>2, <2>2, <2>3, <2>4 DEF TypeOK
  <2>6. MemoryRecords(o)'
    <3> SUFFICES ASSUME NEW t \in Step, NEW b \in Attempt, Live(o, t, b)
                 PROVE  q.hash[t] = b
      BY <1>2, <2>2 DEF MemoryRecords, Live
    <3>1. operations[o].hash[t] = b
      BY <1>0 DEF SwapInv, MemoryRecords
    <3>2. t # s
      BY <1>0, <3>1 DEF OperationInv, UnsentWhileRecording, NextHash, Live
    <3> QED BY <1>0, <2>1, <3>1, <3>2, RecordTypes
  <2>7. OperationInv(o)' /\ Known(o)'
    BY <1>0, <2>1, <2>2, <2>4 DEF OperationInv, Exclusive, LookupHasHash, NothingToResend,
       UnsentWhileRecording, AbsentHasNoHash, ActiveIsKnown, Known
  <2>8. LocalStep(o)
    BY <1>0, <1>2, <2>2, <2>4, <2>5, <2>6, <2>7 DEF LocalStep
  <2> QED BY <1>0, <1>2, <2>4, <2>8, LocalSettle DEF AwaitsWrite
<1> QED BY <1>1, <1>2 DEF HashSaved

-----------------------------------------------------------------------------
(* The crash, and the theorems. *)

LEMMA RestartStep ==
    ASSUME SwapInv, NEW stored \in {disk, snapshot}, NEW readable \in BOOLEAN,
           Restart(stored, readable)
    PROVE  SwapInv'
<1>0. TypeOK /\ stored \in [Op -> Operation]
  BY DEF SwapInv, TypeOK
<1>1. ASSUME NEW o \in Op
      PROVE  /\ operations'[o] \in Operation
             /\ AbsentHasNoHash(operations'[o]) /\ AbsentHasNoHash(stored[o])
             /\ readable => operations'[o].hash = stored[o].hash
             /\ ~readable => operations'[o] = NoOperation
  <2>1. AbsentHasNoHash(stored[o])
    BY DEF SwapInv, StoreInv
  <2>2. operations'[o] = IF readable THEN Restored(o, stored[o]) ELSE NoOperation
    BY DEF Restart
  <2> QED BY <1>0, <2>1, <2>2, RestoredRecord, RecordTypes DEF AbsentHasNoHash
<1>2. /\ operations' \in [Op -> Operation] /\ disk' = stored /\ snapshot' = stored
      /\ writeTail' = <<>> /\ worker' = [o \in Op |-> "idle"]
      /\ timers' = [o \in Op |-> 0] /\ refreshing' = [o \in Op |-> "no"]
      /\ lookup' = [o \in Op |-> "idle"] /\ tx' = tx /\ storageError' = ~readable
  BY <1>1 DEF Restart, chainVars
<1>3. TypeOK'
  <2>1. /\ approvals' \in [Op -> Approval] /\ allowed' \in [Op -> [Step -> Int]]
        /\ reviews' \subseteq Plan /\ preparing' \subseteq Plan /\ resuming' \subseteq Op
        /\ verifiedSwaps' \subseteq Op \X Attempt /\ verifiedReceipts' \subseteq Op
    BY DEF Restart, Approval
  <2>2. writeTail' \in Seq(Waiter)
    BY <1>2
  <2> QED BY <1>0, <1>2, <2>1, <2>2 DEF TypeOK, Restart, chainVars, Workers
<1>4. ASSUME NEW o \in Op PROVE OperationInv(o)' /\ QueueInv(o)' /\ StoreInv(o)'
  <2>1. OperationInv(o)'
    BY <1>1, <1>2 DEF OperationInv, Exclusive, LookupHasHash, NothingToResend,
       UnsentWhileRecording, ActiveIsKnown
  <2>2. QueueInv(o)'
    BY <1>2 DEF QueueInv, OneWriteOfWorker, WriteHasHash
  <2>3. \A s \in Step, a \in Attempt : Live(o, s, a)' => stored[o].hash[s] = a
    BY <1>2 DEF SwapInv, StoreInv, Live
  <2> QED BY <1>1, <1>2, <2>1, <2>2, <2>3 DEF StoreInv
<1>5. CASE readable
  <2>1. ASSUME NEW o \in Op PROVE MemoryRecords(o)'
    BY <1>1, <1>2, <1>5 DEF SwapInv, StoreInv, MemoryRecords, Live
  <2> QED BY <1>3, <1>4, <2>1 DEF SwapInv
<1>6. CASE ~readable
  <2>1. Unread'
    BY <1>1, <1>2, <1>6, RecordTypes DEF Unread, Known
  <2> QED BY <1>3, <1>4, <2>1 DEF SwapInv
<1> QED BY <1>5, <1>6

LEMMA InitSwapInv == Init => SwapInv
<1> SUFFICES ASSUME Init PROVE SwapInv
  OBVIOUS
<1>1. TypeOK
  <2>1. <<>> \in Seq(Waiter)
    OBVIOUS
  <2>2. /\ operations \in [Op -> Operation] /\ snapshot \in [Op -> Operation]
        /\ disk \in [Op -> Operation]
    BY RecordTypes DEF Init
  <2>3. /\ approvals \in [Op -> Approval] /\ worker \in [Op -> Workers]
        /\ timers \in [Op -> Nat] /\ allowed \in [Op -> [Step -> Int]]
        /\ refreshing \in [Op -> {"no", "observing", "saving"}]
        /\ lookup \in [Op -> {"idle", "swap", "bridge", "ack", "done", "threw"}]
    BY DEF Init, Approval, Workers
  <2>4. /\ tx \in [Op -> [Step -> [Attempt -> {"unsent", "sent", "ok", "failed"}]]]
        /\ packet \in [Op -> [Attempt -> {"none", "inFlight", "received", "refused"}]]
    BY DEF Init
  <2> QED BY <2>1, <2>2, <2>3, <2>4 DEF Init, TypeOK
<1>2. ASSUME NEW o \in Op
      PROVE  OperationInv(o) /\ QueueInv(o) /\ StoreInv(o) /\ MemoryRecords(o)
  BY RecordTypes DEF Init, OperationInv, Exclusive, LookupHasHash, NothingToResend,
     UnsentWhileRecording, AbsentHasNoHash, ActiveIsKnown, QueueInv, OneWriteOfWorker,
     WriteHasHash, StoreInv, MemoryRecords, Live
<1> QED BY <1>1, <1>2 DEF SwapInv

LEMMA NextSwapInv == SwapInv /\ [Next]_vars => SwapInv'
<1> SUFFICES ASSUME SwapInv, [Next]_vars PROVE SwapInv'
  OBVIOUS
<1>1. ASSUME NEW o \in Op, Observe(o) PROVE SwapInv'
  BY <1>1, ObserveSwapStep, ObserveBridgeStep, ObserveAckStep DEF Observe
<1>2. ASSUME NEW o \in Op, RefreshStep(o) PROVE SwapInv'
  BY <1>2, RefreshObservedStep, RefreshThrewStep DEF RefreshStep
<1>3. ASSUME NEW o \in Op, Work(o) PROVE SwapInv'
  BY <1>3, RunStep, RunObservedStep, PreparedStep, SignedStep, BroadcastReturnedStep DEF Work
<1>4. ASSUME NEW o \in Op, Timer(o) \/ Tick(o) PROVE SwapInv'
  BY <1>4, TimerStep, QuietActions
<1>5. ASSUME NEW o \in Op, NEW ok \in BOOLEAN, SaveEnds(o, ok) PROVE SwapInv'
  BY <1>5, StartSavedStep, StartPausedStep, RefreshSavedStep, HashSavedStep,
     WorkerSavedStep, PauseSavedStep DEF SaveEnds
<1>6. CASE User
  <2>1. ASSUME NEW p \in reviews, Start(p) PROVE SwapInv'
    BY <2>1, StartStep
  <2>2. ASSUME NEW o \in Op, Refresh(o) \/ PrepareResume(o) \/ PrepareNew(o) PROVE SwapInv'
    BY <2>2, RefreshStart, QuietActions
  <2>3. ASSUME \/ \E p \in preparing : PrepareReview(p)
               \/ \E p \in preparing \cup reviews : DropPlan(p)
               \/ \E v \in Vault \cup {Locked} : ChangeContext(v)
        PROVE  SwapInv'
    BY <2>3, QuietSteps
  <2> QED BY <1>6, <2>1, <2>2, <2>3 DEF User
<1>7. CASE Chain \/ UNCHANGED vars
  BY <1>7, QuietSteps
<1>8. ASSUME NEW stored \in {disk, snapshot}, NEW readable \in BOOLEAN,
             Restart(stored, readable)
      PROVE  SwapInv'
  BY <1>8, RestartStep
<1> QED BY <1>1, <1>2, <1>3, <1>4, <1>5, <1>6, <1>7, <1>8 DEF Next

\* The inductive invariant: while a transaction may have effect, its hash is in
\* the store, in the write under way and in memory (dispatch() of service.ts).
THEOREM SwapInvariant == Spec => []SwapInv
<1>1. Init => SwapInv
  BY InitSwapInv
<1>2. SwapInv /\ [Next]_vars => SwapInv'
  BY NextSwapInv
<1> QED BY <1>1, <1>2, PTL DEF Spec

\* Type correctness of the service's state.
THEOREM TypeCorrect == Spec => []TypeOK
<1>1. SwapInv => TypeOK
  BY DEF SwapInv
<1> QED BY <1>1, SwapInvariant, PTL

\* A dispatched transaction that did not fail is never forgotten: dispatch()
\* stores its hash before it sends, and nothing deletes a hash that was sent.
THEOREM NothingForgotten == Spec => []DispatchedIsRecorded
<1>1. SwapInv => DispatchedIsRecorded
  BY DEF SwapInv, DispatchedIsRecorded, StoreInv, Unread, MemoryRecords
<1> QED BY <1>1, SwapInvariant, PTL

\* No step of a swap takes effect twice: a second transaction of a step is
\* signed only when the stored record holds no hash that may still commit.
THEOREM NoStepTwice == Spec => []AtMostOnce
<1>1. SwapInv => AtMostOnce
  <2> SUFFICES ASSUME SwapInv, NEW o \in Op, NEW s \in Step,
                      NEW a \in Attempt, NEW b \in Attempt,
                      tx[o][s][a] = "ok", Live(o, s, b)
               PROVE  a = b
    BY DEF AtMostOnce
  <2>1. Live(o, s, a)
    BY DEF Live
  <2> QED BY <2>1 DEF SwapInv, StoreInv
<1> QED BY <1>1, SwapInvariant, PTL

=============================================================================
