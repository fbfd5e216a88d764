---------------------------- MODULE EpixSwapInv -----------------------------
(***************************************************************************)
(* The inductive invariant of EpixSwap from which AtMostOnce and           *)
(* DispatchedIsRecorded follow.  EpixSwapProofs proves it.                 *)
(***************************************************************************)
EXTENDS EpixSwap

\* A lookup belongs to a refresh or to the worker, and a refresh runs only
\* while the worker rests or waits for it.
Exclusive(o) ==
    /\ refreshing[o] # "no" => worker[o] \in {"idle", "launched"}
    /\ lookup[o] # "idle" => refreshing[o] = "observing" \/ worker[o] = "observing"

\* What is looked up has a hash.
LookupHasHash(o) ==
    /\ lookup[o] = "swap" => operations[o].hash["swap"] # 0
    /\ lookup[o] \in {"bridge", "ack"} => operations[o].hash["bridge"] # 0

NextHash(o) == operations[o].hash[NextStep(o, operations[o])]

\* The step that a worker is about to send has no hash yet ...
NothingToResend(o) == worker[o] \in {"preparing", "signing"} => NextHash(o) = 0

\* ... and while its hash is being stored it has not been sent.
UnsentWhileRecording(o) ==
    worker[o] = "recording" =>
        /\ NextHash(o) # 0
        /\ tx[o][NextStep(o, operations[o])][NextHash(o)] = "unsent"

AbsentHasNoHash(r) == r.status = "none" => r.hash = NoOperation.hash

\* Only a recorded operation is worked on.
ActiveIsKnown(o) == worker[o] # "idle" \/ timers[o] > 0 => Known(o)

OperationInv(o) ==
    /\ Exclusive(o)
    /\ LookupHasHash(o)
    /\ NothingToResend(o)
    /\ UnsentWhileRecording(o)
    /\ AbsentHasNoHash(operations[o])
    /\ ActiveIsKnown(o)

\* The workers that await a save().
AwaitsWrite == {"recording", "saving", "pausing"}

\* A worker waits for one write at a time; start() writes what it recorded.
OneWriteOfWorker(o) ==
    \A i \in DOMAIN writeTail :
        /\ writeTail[i] = <<"start", o>> => Known(o)
        /\ writeTail[i] = <<"worker", o>> =>
              /\ worker[o] \in AwaitsWrite
              /\ \A j \in DOMAIN writeTail : writeTail[j] = <<"worker", o>> => i = j

\* The write of a hash contains it.
WriteHasHash(o) ==
    /\ worker[o] = "recording"
    /\ writeTail # <<>>
    /\ Head(writeTail) = <<"worker", o>>
    => snapshot[o].hash = operations[o].hash

QueueInv(o) == OneWriteOfWorker(o) /\ WriteHasHash(o)

\* The store, and the write under way, know every live transaction.
StoreInv(o) ==
    /\ AbsentHasNoHash(snapshot[o])
    /\ AbsentHasNoHash(disk[o])
    /\ \A s \in Step, a \in Attempt :
          Live(o, s, a) => disk[o].hash[s] = a /\ snapshot[o].hash[s] = a

MemoryRecords(o) ==
    \A s \in Step, a \in Attempt : Live(o, s, a) => operations[o].hash[s] = a

\* init() could not read the store: nothing is loaded and nothing runs.
Unread ==
    /\ storageError
    /\ writeTail = <<>>
    /\ \A o \in Op : /\ ~Known(o)
                     /\ worker[o] = "idle"
                     /\ timers[o] = 0
                     /\ refreshing[o] = "no"

SwapInv ==
    /\ TypeOK
    /\ \A o \in Op : OperationInv(o) /\ QueueInv(o) /\ StoreInv(o)
    /\ Unread \/ \A o \in Op : MemoryRecords(o)

=============================================================================
