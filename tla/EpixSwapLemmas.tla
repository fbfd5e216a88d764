--------------------------- MODULE EpixSwapLemmas ---------------------------
(***************************************************************************)
(* Lemmas for EpixSwapProofs: what the record operators of EpixSwap        *)
(* preserve, and what a step of one operation - without a write, with a    *)
(* new one, with the end of one - means for SwapInv.                       *)
(***************************************************************************)
EXTENDS EpixSwapInv, SequenceTheorems, TLAPS

-----------------------------------------------------------------------------
(* Records.  Past this section the operators on records stay folded. *)

LEMMA RecordTypes ==
    /\ NoOperation \in Operation
    /\ NoOperation.status = "none"
    /\ \A s \in Step : NoOperation.hash[s] = 0
    /\ \A r \in Operation : /\ r.status \in Status
                            /\ r.hash \in [Step -> Hash]
                            /\ r.depositConfirmed \in BOOLEAN
                            /\ r.swapConfirmed \in BOOLEAN
BY ConstantsAssumption DEF Operation, NoOperation, Status, Hash

LEMMA StatusRecord ==
    ASSUME NEW r \in Operation, NEW st \in Status
    PROVE  /\ WithStatus(r, st) \in Operation
           /\ WithStatus(r, st).status = st
           /\ WithStatus(r, st).hash = r.hash
           /\ \A o \in Op : NextStep(o, WithStatus(r, st)) = NextStep(o, r)
BY DEF Operation, WithStatus, NextStep

LEMMA HashRecord ==
    ASSUME NEW r \in Operation, NEW s \in Step, NEW h \in Hash
    PROVE  /\ WithHash(r, s, h) \in Operation
           /\ WithHash(r, s, h).status = r.status
           /\ WithHash(r, s, h).hash = [r.hash EXCEPT ![s] = h]
           /\ \A o \in Op : NextStep(o, WithHash(r, s, h)) = NextStep(o, r)
BY DEF Operation, WithHash, NextStep

LEMMA FlagRecord ==
    ASSUME NEW r \in Operation, NEW b \in BOOLEAN
    PROVE  /\ WithDeposit(r, b) \in Operation
           /\ WithDeposit(r, b).status = r.status
           /\ WithDeposit(r, b).hash = r.hash
           /\ WithSwap(r, b) \in Operation
           /\ WithSwap(r, b).status = r.status
           /\ WithSwap(r, b).hash = r.hash
BY DEF Operation, WithDeposit, WithSwap

LEMMA UnsentRecord ==
    ASSUME NEW r \in Operation, NEW s \in Step
    PROVE  /\ Unsent(r, s) \in Operation
           /\ Unsent(r, s).status = "paused"
           /\ Unsent(r, s).hash = [r.hash EXCEPT ![s] = 0]
<1>1. 0 \in Hash /\ "paused" \in Status
  BY ConstantsAssumption DEF Hash, Status
<1> QED BY <1>1, HashRecord, StatusRecord DEF Unsent

LEMMA MadeRecord ==
    ASSUME NEW o \in Op, NEW r \in Operation
    PROVE  /\ MakeOperation(o, r) \in Operation
           /\ MakeOperation(o, r).status # "none"
           /\ MakeOperation(o, r).hash = r.hash
<1>1. InitialStatus(o, r) \in Status \ {"none"}
  BY DEF InitialStatus, Status
<1> QED BY <1>1, StatusRecord DEF MakeOperation

LEMMA RestoredRecord ==
    ASSUME NEW o \in Op, NEW r \in Operation
    PROVE  /\ Restored(o, r) \in Operation
           /\ Restored(o, r).status = "none" => r.status = "none"
           /\ Restored(o, r).hash = r.hash
<1> DEFINE s == WithStatus(r, "paused")
           p == WithDeposit(s, FALSE)
<1>0. s \in Operation /\ s.status = "paused" /\ s.hash = r.hash
  BY StatusRecord DEF Status
<1>1. p \in Operation /\ p.status = "paused" /\ p.hash = r.hash
  BY <1>0, FlagRecord
<1>2. /\ WithSwap(p, FALSE) \in Operation
      /\ WithSwap(p, FALSE).status = "paused"
      /\ WithSwap(p, FALSE).hash = r.hash
  BY <1>1, FlagRecord
<1> QED BY <1>0, <1>1, <1>2 DEF Restored

LEMMA ReceivedRecord ==
    ASSUME NEW o \in Op, NEW r \in Operation
    PROVE  /\ Received(o, r) \in Operation
           /\ Received(o, r).status = "none" => r.status = "none"
           /\ Received(o, r).hash = r.hash
           /\ r.status # "none" => Received(o, r).status # "none"
<1> DEFINE d == WithDeposit(r, TRUE)
<1>1. d \in Operation /\ d.status = r.status /\ d.hash = r.hash
  BY FlagRecord
<1>2. /\ WithStatus(d, "complete") \in Operation
      /\ WithStatus(d, "complete").status = "complete"
      /\ WithStatus(d, "complete").hash = r.hash
  BY <1>1, StatusRecord DEF Status
<1> QED BY <1>1, <1>2 DEF Received

\* What a step may do to a record without touching its hashes.
SameHashes(r, q) ==
    /\ q \in Operation
    /\ q.hash = r.hash
    /\ q.status = "none" <=> r.status = "none"

LEMMA ShortcutRecord ==
    ASSUME NEW o \in Op, NEW r \in Operation, AbsentHasNoHash(r)
    PROVE  SameHashes(r, SwapShortcut(o, r)) /\ SameHashes(r, BridgeShortcut(o, r))
<1>1. SameHashes(r, SwapShortcut(o, r))
  BY FlagRecord DEF SwapShortcut, SameHashes
<1>2. SameHashes(r, BridgeShortcut(o, r))
  <2>1. r.hash["bridge"] # 0 => r.status # "none"
    BY RecordTypes DEF AbsentHasNoHash, Step
  <2> QED BY <2>1, ReceivedRecord DEF BridgeShortcut, SameHashes
<1> QED BY <1>1, <1>2

LEMMA BecomesEffect ==
    ASSUME operations \in [Op -> Operation], NEW o \in Op, NEW r \in Operation,
           Becomes(o, r)
    PROVE  /\ operations' \in [Op -> Operation]
           /\ operations'[o] = r
           /\ \A p \in Op \ {o} : operations'[p] = operations[p]
BY DEF Becomes

-----------------------------------------------------------------------------
(* Writes. *)

LEMMA SaveTypes ==
    ASSUME TypeOK, operations' \in [Op -> Operation], NEW w \in Waiter, Save(w)
    PROVE  /\ writeTail' \in Seq(Waiter)
           /\ snapshot' \in [Op -> Operation]
           /\ disk' \in [Op -> Operation]
BY DEF TypeOK, Save

LEMMA SettleTypes ==
    ASSUME TypeOK, operations' \in [Op -> Operation], NEW o \in Op,
           NEW k \in {"start", "pause", "worker", "refresh"}, NEW ok \in BOOLEAN,
           NEW more \in {<<>>, <<<<"worker", o>>>>, <<<<"pause", o>>>>},
           Settle(<<k, o>>, ok, more)
    PROVE  /\ writeTail' \in Seq(Waiter)
           /\ snapshot' \in [Op -> Operation]
           /\ disk' \in [Op -> Operation]
<1>1. <<>> \in Seq(Waiter) /\ <<<<"worker", o>>>> \in Seq(Waiter) /\ <<<<"pause", o>>>> \in Seq(Waiter)
  BY DEF Waiter
<1>2. more \in Seq(Waiter)
  BY <1>1
<1> QED BY <1>2 DEF TypeOK, Settle

\* A step of one operation o that leaves the chains alone, as its effect on
\* the other operations and on memory goes.
LocalStep(o) ==
    /\ TypeOK'
    /\ \A p \in Op \ {o} :
          /\ operations'[p] = operations[p]
          /\ worker'[p] = worker[p]
          /\ timers'[p] = timers[p]
          /\ refreshing'[p] = refreshing[p]
          /\ lookup'[p] = lookup[p]
    /\ tx' = tx
    /\ OperationInv(o)'
    /\ MemoryRecords(o)'
    /\ Known(o) => Known(o)'
    /\ worker'[o] = "recording" =>
          \/ worker[o] \notin AwaitsWrite
          \/ worker[o] = "recording" /\ operations'[o].hash = operations[o].hash

LocalFrame(o) ==
    /\ \A p \in Op \ {o} :
          operations'[p] = operations[p] /\ worker'[p] = worker[p]
    /\ Known(o) => Known(o)'

LEMMA LocalMemory ==
    ASSUME SwapInv, ~Unread, NEW o \in Op, LocalStep(o)
    PROVE  \A p \in Op : OperationInv(p)' /\ MemoryRecords(p)'
<1> SUFFICES ASSUME NEW p \in Op, p # o PROVE OperationInv(p)' /\ MemoryRecords(p)'
  BY DEF LocalStep
<1>1. OperationInv(p) /\ MemoryRecords(p)
  BY DEF SwapInv
<1>2. OperationInv(p)'
  BY <1>1 DEF LocalStep, OperationInv, Exclusive, LookupHasHash, NothingToResend,
     UnsentWhileRecording, NextHash, ActiveIsKnown, Known
<1>3. MemoryRecords(p)'
  BY <1>1 DEF LocalStep, MemoryRecords, Live
<1> QED BY <1>2, <1>3

LEMMA LocalStore ==
    ASSUME SwapInv, ~Unread, NEW o \in Op, LocalStep(o),
           snapshot' = snapshot \/ snapshot' = operations' \/ snapshot' = disk',
           disk' = disk \/ disk' = snapshot
    PROVE  \A p \in Op : StoreInv(p)'
<1> SUFFICES ASSUME NEW p \in Op PROVE StoreInv(p)'
  OBVIOUS
<1>1. StoreInv(p) /\ OperationInv(p)' /\ MemoryRecords(p)'
  BY LocalMemory DEF SwapInv
<1> QED BY <1>1 DEF StoreInv, AbsentHasNoHash, OperationInv, MemoryRecords, LocalStep, Live

\* A local step without a write ...
LEMMA LocalNoWrite ==
    ASSUME SwapInv, ~Unread, NEW o \in Op, LocalStep(o),
           UNCHANGED <<writeTail, snapshot, disk>>,
           worker[o] \in AwaitsWrite => worker'[o] = worker[o],
           worker'[o] = "recording" => worker[o] = "recording"
    PROVE  SwapInv'
<1>1. \A p \in Op : QueueInv(p)'
  <2> SUFFICES ASSUME NEW p \in Op PROVE QueueInv(p)'
    OBVIOUS
  <2>1. QueueInv(p)
    BY DEF SwapInv
  <2> QED BY <2>1 DEF QueueInv, OneWriteOfWorker, WriteHasHash, LocalStep, Known, AwaitsWrite
<1> QED BY <1>1, LocalMemory, LocalStore DEF SwapInv, LocalStep

\* ... with a new write ...
LEMMA LocalSave ==
    ASSUME SwapInv, ~Unread, NEW o \in Op, LocalStep(o),
           NEW k \in {"start", "pause", "worker", "refresh"}, Save(<<k, o>>),
           k = "start" => Known(o)',
           worker[o] \in AwaitsWrite => k # "worker" /\ worker'[o] = worker[o],
           k = "worker" => worker'[o] \in AwaitsWrite,
           worker'[o] = "recording" => k = "worker" \/ worker[o] = "recording"
    PROVE  SwapInv'
<1>1. \A p \in Op : OneWriteOfWorker(p)'
  <2> SUFFICES ASSUME NEW p \in Op PROVE OneWriteOfWorker(p)'
    OBVIOUS
  <2>1. OneWriteOfWorker(p) /\ writeTail \in Seq(Waiter)
    BY DEF SwapInv, QueueInv, TypeOK
  <2>2. /\ DOMAIN writeTail = 1 .. Len(writeTail)
        /\ DOMAIN writeTail' = 1 .. (Len(writeTail) + 1)
        /\ \A i \in DOMAIN writeTail : writeTail'[i] = writeTail[i]
        /\ writeTail'[Len(writeTail) + 1] = <<k, o>>
        /\ Len(writeTail) \in Nat
    BY <2>1 DEF Save
  <2>3. \A i \in DOMAIN writeTail :
           /\ writeTail[i] = <<"start", p>> => Known(p)'
           /\ writeTail[i] = <<"worker", p>> =>
                 worker'[p] \in AwaitsWrite /\ <<k, o>> # <<"worker", p>>
    BY <2>1 DEF OneWriteOfWorker, LocalStep, Known
  <2>4. <<k, o>> = <<"worker", p>> => worker'[p] \in AwaitsWrite
    OBVIOUS
  <2>5. <<k, o>> = <<"start", p>> => Known(p)'
    OBVIOUS
  <2> QED BY <2>1, <2>2, <2>3, <2>4, <2>5 DEF OneWriteOfWorker
<1>2. \A p \in Op : WriteHasHash(p)'
  <2> SUFFICES ASSUME NEW p \in Op,
                      worker'[p] = "recording", Head(writeTail') = <<"worker", p>>
               PROVE  snapshot'[p].hash = operations'[p].hash
    BY DEF WriteHasHash
  <2>1. CASE writeTail = <<>>
    BY <2>1 DEF Save
  <2>2. CASE writeTail # <<>>
    <3>1. writeTail \in Seq(Waiter) /\ QueueInv(p)
      BY DEF SwapInv, TypeOK
    <3>2. /\ Head(writeTail) = <<"worker", p>>
          /\ snapshot' = snapshot
          /\ 1 \in DOMAIN writeTail /\ writeTail[1] = <<"worker", p>>
      BY <2>2, <3>1 DEF Save
    <3>3. worker[p] \in AwaitsWrite
      BY <3>1, <3>2 DEF QueueInv, OneWriteOfWorker
    <3>4. worker[p] = "recording" /\ operations'[p].hash = operations[p].hash
      BY <3>3 DEF LocalStep
    <3> QED BY <2>2, <3>1, <3>2, <3>4 DEF QueueInv, WriteHasHash
  <2> QED BY <2>1, <2>2
<1>3. disk' = disk /\ (snapshot' = snapshot \/ snapshot' = operations')
  BY DEF Save
<1> QED BY <1>1, <1>2, <1>3, LocalMemory, LocalStore DEF SwapInv, LocalStep, QueueInv

\* The end of a write, as the queue goes ...
LEMMA SettleQueue ==
    ASSUME SwapInv, NEW o \in Op, LocalFrame(o),
           NEW k \in {"start", "pause", "worker", "refresh"},
           NEW ok \in BOOLEAN, NEW more \in {<<>>, <<<<"worker", o>>>>, <<<<"pause", o>>>>},
           Settle(<<k, o>>, ok, more),
           more = <<<<"worker", o>>>> => worker'[o] \in AwaitsWrite,
           worker[o] \in AwaitsWrite =>
               \/ k = "worker"
               \/ more # <<<<"worker", o>>>> /\ worker'[o] = worker[o],
           worker'[o] = "recording" => worker[o] = "recording" /\ k # "worker"
    PROVE  \A p \in Op : QueueInv(p)'
<1> DEFINE q == Tail(writeTail)
<1>0. /\ writeTail \in Seq(Waiter) /\ writeTail # <<>>
      /\ writeTail[1] = <<k, o>> /\ 1 \in DOMAIN writeTail
      /\ Len(writeTail) \in Nat /\ Len(writeTail) > 0
      /\ q \in Seq(Waiter) /\ Len(q) = Len(writeTail) - 1
      /\ \A i \in 1 .. Len(q) : q[i] = writeTail[i + 1] /\ i + 1 \in DOMAIN writeTail
  BY DEF SwapInv, TypeOK, Settle
<1>1. \A p \in Op : OneWriteOfWorker(p)'
  <2> SUFFICES ASSUME NEW p \in Op PROVE OneWriteOfWorker(p)'
    OBVIOUS
  <2>1. OneWriteOfWorker(p)
    BY DEF SwapInv, QueueInv
  <2>2. \A i \in 1 .. Len(q) :
          /\ q[i] = <<"start", p>> => Known(p)'
          /\ q[i] = <<"worker", p>> =>
                /\ worker'[p] \in AwaitsWrite
                /\ p = o => k # "worker" /\ more # <<<<"worker", o>>>>
                /\ \A j \in 1 .. Len(q) : q[j] = <<"worker", p>> => i = j
    <3> SUFFICES ASSUME NEW i \in 1 .. Len(q)
                 PROVE  /\ q[i] = <<"start", p>> => Known(p)'
                        /\ q[i] = <<"worker", p>> =>
                            /\ worker'[p] \in AwaitsWrite
                            /\ p = o => k # "worker" /\ more # <<<<"worker", o>>>>
                            /\ \A j \in 1 .. Len(q) : q[j] = <<"worker", p>> => i = j
      OBVIOUS
    <3>1. q[i] = <<"start", p>> => Known(p)'
      BY <1>0, <2>1, SMTT(20) DEF OneWriteOfWorker, LocalFrame, Known
    <3>2. ASSUME q[i] = <<"worker", p>>
          PROVE  /\ worker[p] \in AwaitsWrite
                 /\ <<k, o>> # <<"worker", p>>
                 /\ \A j \in 1 .. Len(q) : q[j] = <<"worker", p>> => i = j
      <4>1. /\ writeTail[i + 1] = <<"worker", p>>
            /\ i + 1 \in DOMAIN writeTail
            /\ \A j \in DOMAIN writeTail : writeTail[j] = <<"worker", p>> => i + 1 = j
        BY <1>0, <2>1, <3>2 DEF OneWriteOfWorker
      <4>2. worker[p] \in AwaitsWrite
        BY <2>1, <4>1 DEF OneWriteOfWorker
      <4>3. writeTail[1] # <<"worker", p>>
        BY <1>0, <4>1
      <4>4. ASSUME NEW j \in 1 .. Len(q), q[j] = <<"worker", p>> PROVE i = j
        <5>1. j + 1 \in DOMAIN writeTail /\ writeTail[j + 1] = <<"worker", p>>
          BY <1>0, <4>4
        <5> QED BY <4>1, <5>1
      <4> QED BY <1>0, <4>2, <4>3, <4>4
    <3>3. ASSUME q[i] = <<"worker", p>>
          PROVE  /\ worker'[p] \in AwaitsWrite
                 /\ p = o => k # "worker" /\ more # <<<<"worker", o>>>>
      BY <3>2, <3>3 DEF LocalFrame
    <3> QED BY <3>1, <3>2, <3>3
  <2>3. CASE more = <<>>
    <3>1. writeTail' = q /\ DOMAIN q = 1 .. Len(q)
      BY <1>0, <2>3 DEF Settle
    <3> HIDE DEF q
    <3> QED BY <2>2, <3>1 DEF OneWriteOfWorker
  <2>4. CASE more # <<>>
    <3> DEFINE w == more[1]
    <3>1. /\ w \in {<<"worker", o>>, <<"pause", o>>}
          /\ more \in Seq(Waiter) /\ Len(more) = 1
          /\ writeTail' = q \o more
      <4>1. <<"worker", o>> \in Waiter /\ <<"pause", o>> \in Waiter
        BY DEF Waiter
      <4>2. more = <<<<"worker", o>>>> \/ more = <<<<"pause", o>>>>
        BY <2>4
      <4>3. writeTail' = q \o more
        BY DEF Settle
      <4>4. CASE more = <<<<"worker", o>>>>
        BY <4>1, <4>3, <4>4
      <4>5. CASE more = <<<<"pause", o>>>>
        BY <4>1, <4>3, <4>5
      <4> QED BY <4>2, <4>4, <4>5
    <3>2. /\ DOMAIN writeTail' = 1 .. (Len(q) + 1)
          /\ \A i \in 1 .. Len(q) : writeTail'[i] = q[i]
          /\ writeTail'[Len(q) + 1] = w
          /\ Len(q) \in Nat
      <4>1. /\ writeTail' \in Seq(Waiter)
            /\ Len(writeTail') = Len(q) + Len(more)
            /\ \A i \in 1 .. Len(q) + Len(more) :
                  writeTail'[i] = IF i <= Len(q) THEN q[i] ELSE more[i - Len(q)]
        BY <1>0, <3>1, ConcatProperties, Zenon
      <4> QED BY <1>0, <3>1, <4>1
    <3>3. w = <<"worker", p>> => p = o /\ more = <<<<"worker", o>>>>
      BY <2>4
    <3>4. w # <<"start", p>>
      BY <3>1
    <3>5. \A i \in 1 .. Len(q) : q[i] = <<"worker", p>> => w # <<"worker", p>>
      BY <2>2, <3>3
    <3> HIDE DEF w, q
    <3> QED BY <2>2, <3>2, <3>3, <3>4, <3>5 DEF OneWriteOfWorker
  <2> QED BY <2>3, <2>4
<1>2. \A p \in Op : WriteHasHash(p)'
  BY <1>0 DEF Settle, WriteHasHash
<1> QED BY <1>1, <1>2 DEF QueueInv

\* ... and for a local step.
LEMMA LocalSettle ==
    ASSUME SwapInv, ~Unread, NEW o \in Op, LocalStep(o),
           NEW k \in {"start", "pause", "worker", "refresh"},
           NEW ok \in BOOLEAN, NEW more \in {<<>>, <<<<"worker", o>>>>, <<<<"pause", o>>>>},
           Settle(<<k, o>>, ok, more),
           more = <<<<"worker", o>>>> => worker'[o] \in AwaitsWrite,
           worker[o] \in AwaitsWrite =>
               \/ k = "worker"
               \/ more # <<<<"worker", o>>>> /\ worker'[o] = worker[o],
           worker'[o] = "recording" => worker[o] = "recording" /\ k # "worker"
    PROVE  SwapInv'
<1>1. LocalFrame(o)
  BY DEF LocalStep, LocalFrame
<1>2. \A p \in Op : QueueInv(p)'
  BY <1>1, SettleQueue
<1>3. /\ disk' = disk \/ disk' = snapshot
      /\ snapshot' = disk' \/ snapshot' = operations'
  BY DEF Settle
<1> QED BY <1>2, <1>3, LocalMemory, LocalStore DEF SwapInv, LocalStep

=============================================================================
