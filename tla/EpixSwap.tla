------------------------------ MODULE EpixSwap ------------------------------
(***************************************************************************)
(* The cross-chain swap service of the wallet's background process         *)
(* (packages/background/src/epix-swap/service.ts).  One approval of the    *)
(* user runs a two-transaction route: an IBC transfer ("bridge") and a     *)
(* swap on Osmosis.  Direction to-osmosis bridges first, direction to-epix *)
(* (the operations in ToEpix) swaps first.                                 *)
(*                                                                         *)
(* An action is the code between two awaits.  The actors are, per          *)
(* operation, the worker started by launch(), the read-only refresh, the   *)
(* pending prepare() calls and the 5 s timers; besides them the serialized *)
(* store writes, the user, the clock, a crash of the process and the two   *)
(* chains.  A transaction hash is the number of the signing attempt that   *)
(* produced it, 0 standing for "undefined".                                *)
(***************************************************************************)
EXTENDS Integers, Sequences, FiniteSets

CONSTANTS
    Op,           \* operation ids
    Vault,        \* wallets (vaults of the key ring)
    VaultOf,      \* the vault that an operation belongs to
    ToEpix,       \* the operations of direction "to-epix"
    Locked,       \* value of selected while the key ring is locked
    MaxAttempts,  \* bound: transactions of one step of one operation
    MaxPlans      \* bound: prepare() calls and reviews held at a time

ASSUME ConstantsAssumption ==
    /\ VaultOf \in [Op -> Vault]
    /\ ToEpix \subseteq Op
    /\ Locked \notin Vault
    /\ MaxAttempts \in Nat
    /\ MaxPlans \in Nat

VARIABLES
    operations,        \* operations: the in-memory records, by id
    reviews,           \* reviews: plans that start() would accept
    preparing,         \* plans of prepare() calls that still await quotes
    resuming,          \* operations that a prepare() is refreshing
    approvals,         \* approvals: the authorization of an operation, with its age
    worker,            \* where the worker of launch() stands ("idle": not running)
    timers,            \* pending setTimeout(launch, 5000) of an operation
    refreshing,        \* the refresh in flight: "no", "observing", "saving"
    lookup,            \* where observe() stands, for the worker or the refresh
    verifiedSwaps,     \* verifiedSwaps: proven swap hashes
    verifiedReceipts,  \* verifiedReceipts: operations with a proven receipt
    writeTail,         \* callers whose save() is queued; the head is writing
    snapshot,          \* what the head of writeTail writes
    disk,              \* the stored records
    storageError,      \* storageError
    selected,          \* the unlocked selected vault, or Locked
    tx,                \* what the chain did with an attempt
    packet,            \* the IBC packet of a bridge attempt
    allowed            \* history: broadcasts that the user's last start() still covers

planVars  == <<reviews, preparing, resuming>>
workVars  == <<worker, timers>>
lookVars  == <<refreshing, lookup>>
proofVars == <<verifiedSwaps, verifiedReceipts>>
writeVars == <<writeTail, snapshot, disk, storageError>>
chainVars == <<tx, packet>>
vars == <<operations, planVars, approvals, workVars, lookVars, proofVars,
          writeVars, selected, chainVars, allowed>>

-----------------------------------------------------------------------------
(* The records. *)

Step    == {"bridge", "swap"}
Attempt == 1 .. MaxAttempts
Hash    == 0 .. MaxAttempts

Status == {"none", "bridging", "waiting-for-deposit", "swapping", "complete",
           "paused", "failed"}

Operation == [status : Status, hash : [Step -> Hash],
              depositConfirmed : BOOLEAN, swapConfirmed : BOOLEAN]

\* The id is not in the map.
NoOperation == [status |-> "none", hash |-> [s \in Step |-> 0],
                depositConfirmed |-> FALSE, swapConfirmed |-> FALSE]

WithStatus(r, st)  == [r EXCEPT !.status = st]
WithHash(r, s, h)  == [r EXCEPT !.hash[s] = h]
WithDeposit(r, b)  == [r EXCEPT !.depositConfirmed = b]
WithSwap(r, b)     == [r EXCEPT !.swapConfirmed = b]

\* A step that failed on chain, or was never sent, is paused without its hash.
Unsent(r, s)       == WithStatus(WithHash(r, s, 0), "paused")

\* The record of an operation is written.
Becomes(o, r) == operations' = [operations EXCEPT ![o] = r]

\* A plan holds the recovery state of the operation it resumes; NoOperation
\* stands for a plan that starts a new operation.
Plan == [op : Op, resumeState : Operation]

\* An approval is fresh, has outlived the packet timeout (10 min), or has
\* expired (15 min).
Approval == {"none", "fresh", "packetLate", "expired"}

Approved(o) == approvals[o] # "none"

Without(o) == [approvals EXCEPT ![o] = "none"]

Known(o)    == operations[o].status # "none"
Finished(r) == r.status \in {"complete", "failed"}
Open(r)     == r.status \notin {"none", "complete", "failed"}

InitialStatus(o, previous) ==
    IF o \in ToEpix
    THEN IF previous.swapConfirmed THEN "bridging" ELSE "swapping"
    ELSE IF previous.depositConfirmed THEN "swapping" ELSE "bridging"

MakeOperation(o, previous) ==
    WithStatus(previous, InitialStatus(o, previous))

\* The record that init() makes of a stored one.
Restored(o, r) ==
    IF Open(r)
    THEN LET p == WithDeposit(WithStatus(r, "paused"), FALSE)
         IN IF o \in ToEpix THEN WithSwap(p, FALSE) ELSE p
    ELSE r

-----------------------------------------------------------------------------
(* Guards. *)

\* (mutant of Available: the open operations of the vault are not checked)
Available_AnyVault(o) == ~storageError

Available(o) ==
    /\ ~storageError
    /\ \A p \in Op \ {o} : VaultOf[p] = VaultOf[o] => ~Open(operations[p])

\* The wallet of the operation is selected and unlocked.
InContext(o) == selected = VaultOf[o]

Running(o) == worker[o] # "idle"

\* (mutant of Guard: an unlocked wallet is enough)
Guard_Unlocked(o) == InContext(o)

\* guard(), the approval, its expiry and the wallet.  Its check of the
\* network settings can fail at any time: see the failing branches below.
Guard(o) ==
    /\ approvals[o] \in {"fresh", "packetLate"}
    /\ InContext(o)

\* (mutant of Resolved: only the swap has to be resolved)
Resolved_SwapOnly(r) == r.hash["swap"] # 0 => r.swapConfirmed

\* No transaction of the operation is unresolved.
Resolved(r) ==
    /\ r.hash["swap"] # 0 => r.swapConfirmed
    /\ r.hash["bridge"] # 0 => r.depositConfirmed

\* (mutant of Tracks: an unresolved first transaction is sent again)
Tracks_Resend(o, r) ==
    r.hash[IF o \in ToEpix THEN "bridge" ELSE "swap"] # 0

\* runForward() / runReverse(): nothing to send yet, keep tracking.
Tracks(o, r) ==
    IF o \in ToEpix
    THEN r.hash["bridge"] # 0 \/ (r.hash["swap"] # 0 /\ ~r.swapConfirmed)
    ELSE r.hash["swap"] # 0 \/ (r.hash["bridge"] # 0 /\ ~r.depositConfirmed)

\* The step that the worker of an operation sends next.
NextStep(o, r) ==
    IF o \in ToEpix
    THEN IF r.swapConfirmed THEN "bridge" ELSE "swap"
    ELSE IF r.depositConfirmed THEN "swap" ELSE "bridge"

\* (mutant of SentStatus: a swap is complete once it is sent)
SentStatus_Optimistic(s) ==
    IF s = "bridge" THEN "waiting-for-deposit" ELSE "complete"

SentStatus(s) == IF s = "bridge" THEN "waiting-for-deposit" ELSE "swapping"

-----------------------------------------------------------------------------
(* save(): writes are serialized; a write takes its snapshot when it starts. *)

Waiter == {"start", "pause", "worker", "refresh"} \X Op

Save(w) ==
    /\ writeTail' = Append(writeTail, w)
    /\ snapshot' = IF writeTail = <<>> THEN operations' ELSE snapshot
    /\ UNCHANGED <<disk, storageError>>

\* The write of w ends, well or not; w's code runs on and may call save()
\* again (more); then the next write starts.  No write: snapshot = disk.
Settle(w, ok, more) ==
    /\ writeTail # <<>>
    /\ Head(writeTail) = w
    /\ writeTail' = Tail(writeTail) \o more
    /\ disk' = IF ok THEN snapshot ELSE disk
    /\ snapshot' = IF writeTail' = <<>> THEN disk' ELSE operations'

-----------------------------------------------------------------------------
(* observe(): the proofs already held, then the lookups still needed. *)

SwapProven(o, r) == o \in ToEpix /\ <<o, r.hash["swap"]>> \in verifiedSwaps

\* observe() goes on to observeBridge().
ReachesBridge(o, r) ==
    IF o \in ToEpix THEN r.swapConfirmed ELSE r.hash["swap"] = 0

Received(o, r) ==
    LET d == WithDeposit(r, TRUE)
    IN IF o \in ToEpix THEN WithStatus(d, "complete") ELSE d

\* The shortcuts of observeReverseSwap() and of observeBridge().
SwapShortcut(o, r) ==
    IF SwapProven(o, r) THEN WithSwap(r, TRUE) ELSE r

\* (mutant of BridgeShortcut: a deposit with a hash counts as received)
BridgeShortcut_Trusting(o, r) ==
    IF ReachesBridge(o, r) /\ r.hash["bridge"] # 0 THEN Received(o, r) ELSE r

BridgeShortcut(o, r) ==
    IF ReachesBridge(o, r) /\ r.hash["bridge"] # 0 /\ o \in verifiedReceipts
    THEN Received(o, r) ELSE r

BridgeLookup(o, r) ==
    IF ReachesBridge(o, r) /\ r.hash["bridge"] # 0 /\ o \notin verifiedReceipts
    THEN "bridge" ELSE "done"

\* The part of observe() from observeBridge() on, for the record r.
ThenBridge(o, r) ==
    /\ Becomes(o, BridgeShortcut(o, r))
    /\ lookup' = [lookup EXCEPT ![o] = BridgeLookup(o, r)]

BeginObserve(o) ==
    LET r == operations[o]
    IN IF r.hash["swap"] # 0 /\ ~SwapProven(o, r)
       THEN /\ lookup' = [lookup EXCEPT ![o] = "swap"]
            /\ UNCHANGED operations
       ELSE ThenBridge(o, SwapShortcut(o, r))

EndObserve(o, outcome) == lookup' = [lookup EXCEPT ![o] = outcome]

\* What the chain says of the attempt recorded for a step: an attempt that is
\* not committed, or not indexed yet, is not found.
Lookups(o, s) ==
    LET state == tx[o][s][operations[o].hash[s]]
    IN {"absent"} \cup (IF state \in {"ok", "failed"} THEN {state} ELSE {})

\* observeSwap() and observeReverseSwap(), when the lookup answers.  A failed
\* lookup, or an answer without the expected events, throws.
ObserveSwap(o) ==
    /\ lookup[o] = "swap"
    /\ \/ /\ EndObserve(o, "threw")
          /\ UNCHANGED <<operations, approvals, proofVars>>
       \/ /\ "absent" \in Lookups(o, "swap")
          /\ ThenBridge(o, operations[o])
          /\ UNCHANGED <<approvals, proofVars>>
       \/ /\ "ok" \in Lookups(o, "swap")
          /\ IF o \in ToEpix
             THEN /\ verifiedSwaps' = verifiedSwaps
                                        \cup {<<o, operations[o].hash["swap"]>>}
                  /\ ThenBridge(o, WithSwap(operations[o], TRUE))
             ELSE /\ Becomes(o, WithStatus(operations[o], "complete"))
                  /\ EndObserve(o, "done")
                  /\ UNCHANGED verifiedSwaps
          /\ UNCHANGED <<approvals, verifiedReceipts>>
       \/ /\ "failed" \in Lookups(o, "swap")
          /\ EndObserve(o, "done")
          /\ IF o \in ToEpix
             THEN /\ Becomes(o, WithStatus(operations[o], "failed"))
                  /\ UNCHANGED approvals
             ELSE /\ Becomes(o, Unsent(operations[o], "swap"))
                  /\ approvals' = Without(o)
          /\ UNCHANGED proofVars
    /\ UNCHANGED <<planVars, workVars, refreshing, writeVars, selected,
                   allowed, chainVars>>

\* The lookup of observeBridge(), and bridgeFailed().
ObserveBridge(o) ==
    /\ lookup[o] = "bridge"
    /\ \/ /\ EndObserve(o, "threw")
          /\ UNCHANGED <<operations, approvals>>
       \/ /\ "absent" \in Lookups(o, "bridge")
          /\ EndObserve(o, "done")
          /\ UNCHANGED <<operations, approvals>>
       \/ /\ "ok" \in Lookups(o, "bridge")
          /\ EndObserve(o, "ack")
          /\ UNCHANGED <<operations, approvals>>
       \/ /\ "failed" \in Lookups(o, "bridge")
          /\ EndObserve(o, "done")
          /\ IF o \in ToEpix
             THEN /\ Becomes(o, Unsent(operations[o], "bridge"))
                  /\ approvals' = Without(o)
             ELSE /\ Becomes(o, WithStatus(operations[o], "failed"))
                  /\ UNCHANGED approvals
    /\ UNCHANGED <<planVars, workVars, refreshing, proofVars, writeVars,
                   selected, allowed, chainVars>>

\* The acknowledgement of the packet, asked of the destination chain.
ObserveAck(o) ==
    /\ lookup[o] = "ack"
    /\ LET state == packet[o][operations[o].hash["bridge"]]
       IN \/ /\ EndObserve(o, "threw")              \* the query failed
             /\ UNCHANGED <<operations, verifiedReceipts>>
          \/ /\ state = "received"
             /\ Becomes(o, Received(o, operations[o]))
             /\ verifiedReceipts' = verifiedReceipts \cup {o}
             /\ EndObserve(o, "done")
          \/ /\ state = "refused"                   \* "unknown"
             /\ Becomes(o, WithDeposit(operations[o], FALSE))
             /\ EndObserve(o, "threw")
             /\ UNCHANGED verifiedReceipts
          \/ /\ Becomes(o, WithDeposit(operations[o], FALSE))
             /\ \/ approvals[o] \in {"none", "fresh"} /\ EndObserve(o, "done")
                \/ approvals[o] # "fresh" /\ EndObserve(o, "threw")
             /\ UNCHANGED verifiedReceipts          \* "pending"
    /\ UNCHANGED <<planVars, approvals, workVars, refreshing, verifiedSwaps,
                   writeVars, selected, allowed, chainVars>>

-----------------------------------------------------------------------------
(* prepare() and start(). *)

PlansHeld ==
    Cardinality(preparing) + Cardinality(reviews) + Cardinality(resuming)

\* A review of a new operation.  Its quotes are still to come.
PrepareNew(o) ==
    /\ ~Known(o)
    /\ InContext(o)
    /\ Available(o)
    /\ PlansHeld < MaxPlans
    /\ preparing' = preparing \cup {[op |-> o, resumeState |-> NoOperation]}
    /\ UNCHANGED <<operations, reviews, resuming, approvals, workVars, lookVars,
                   proofVars, writeVars, selected, allowed, chainVars>>

\* prepareResume() up to its refreshStatus(), which joins a pending refresh.
PrepareResume(o) ==
    /\ Known(o)
    /\ InContext(o)
    /\ Available(o)
    /\ PlansHeld < MaxPlans
    /\ ~Running(o)
    /\ ~Approved(o)
    /\ ~Finished(operations[o])
    /\ resuming' = resuming \cup {o}
    /\ IF refreshing[o] = "no"
       THEN /\ refreshing' = [refreshing EXCEPT ![o] = "observing"]
            /\ BeginObserve(o)
       ELSE UNCHANGED <<operations, lookVars>>
    /\ UNCHANGED <<reviews, preparing, approvals, workVars, proofVars, writeVars,
                   selected, allowed, chainVars>>

\* The quotes of a plan arrive.  They may come long after the plan was made.
PrepareReview(p) ==
    /\ p \in preparing
    /\ preparing' = preparing \ {p}
    /\ reviews' = reviews \cup {p}
    /\ UNCHANGED <<operations, resuming, approvals, workVars, lookVars,
                   proofVars, writeVars, selected, allowed, chainVars>>

\* A prepare() fails, or a review expires.
DropPlan(p) ==
    /\ p \in preparing \cup reviews
    /\ preparing' = preparing \ {p}
    /\ reviews' = reviews \ {p}
    /\ UNCHANGED <<operations, resuming, approvals, workVars, lookVars,
                   proofVars, writeVars, selected, allowed, chainVars>>

\* start() up to its save().  The id of a new operation is a fresh UUID.
Start(p) ==
    LET o == p.op
    IN /\ p \in reviews
       /\ Available(o)
       /\ ~Running(o)
       /\ ~Approved(o)
       /\ InContext(o)
       /\ IF p.resumeState = NoOperation
          THEN ~Known(o)
          ELSE operations[o] = p.resumeState /\ ~Finished(operations[o])
       /\ reviews' = {q \in reviews : VaultOf[q.op] # VaultOf[o]}
       /\ Becomes(o, MakeOperation(o, p.resumeState))
       /\ approvals' = [approvals EXCEPT ![o] = "fresh"]
       /\ allowed' = [allowed EXCEPT ![o] = [s \in Step |-> 1]]
       /\ Save(<<"start", o>>)
       /\ UNCHANGED <<preparing, resuming, workVars, lookVars, proofVars,
                      selected, chainVars>>

\* launch(): nothing if the worker is running.
Launched(o) == IF Running(o) THEN worker ELSE [worker EXCEPT ![o] = "launched"]

BecomesPaused(o) == Becomes(o, WithStatus(operations[o], "paused"))

\* The save() of start() ends: launch(), or pause() and rethrow.
StartSaved(o, ok) ==
    /\ UNCHANGED storageError
    /\ IF ok
       THEN /\ worker' = Launched(o)
            /\ UNCHANGED <<operations, approvals>>
            /\ Settle(<<"start", o>>, TRUE, <<>>)
       ELSE /\ BecomesPaused(o)
            /\ approvals' = Without(o)
            /\ UNCHANGED worker
            /\ Settle(<<"start", o>>, FALSE, <<<<"pause", o>>>>)
    /\ UNCHANGED <<planVars, timers, lookVars, proofVars, selected, allowed,
                   chainVars>>

\* The save() of that pause() ends.
StartPaused(o, ok) ==
    /\ UNCHANGED operations
    /\ Settle(<<"pause", o>>, ok, <<>>)
    /\ storageError' = (storageError \/ ~ok)
    /\ UNCHANGED <<planVars, approvals, workVars, lookVars, proofVars, selected,
                   allowed, chainVars>>

-----------------------------------------------------------------------------
(* refresh(), which leaves a running operation to its worker. *)

Refresh(o) ==
    /\ Known(o)
    /\ ~Running(o)
    /\ refreshing[o] = "no"
    /\ refreshing' = [refreshing EXCEPT ![o] = "observing"]
    /\ BeginObserve(o)
    /\ UNCHANGED <<planVars, approvals, workVars, proofVars, writeVars,
                   selected, allowed, chainVars>>

\* observe() of a refresh returned: save().
RefreshObserved(o) ==
    /\ refreshing[o] = "observing"
    /\ lookup[o] = "done"
    /\ refreshing' = [refreshing EXCEPT ![o] = "saving"]
    /\ lookup' = [lookup EXCEPT ![o] = "idle"]
    /\ UNCHANGED operations
    /\ Save(<<"refresh", o>>)
    /\ UNCHANGED <<planVars, approvals, workVars, proofVars, selected, allowed,
                   chainVars>>

\* (mutant of RefreshOver: a failed refresh leaves its prepare() waiting)
RefreshOver_Hangs(o, ok) ==
    LET r == operations[o]
    IN /\ refreshing' = [refreshing EXCEPT ![o] = "no"]
       /\ resuming' = IF ok THEN resuming \ {o} ELSE resuming
       /\ preparing' = IF ok /\ o \in resuming /\ ~Finished(r) /\ Resolved(r)
                       THEN preparing \cup {[op |-> o, resumeState |-> r]}
                       ELSE preparing

\* The refresh is over for those who awaited it: a prepare(), which makes its
\* plan now, and a launched worker, which a failed refresh ends (see Run).
RefreshOver(o, ok) ==
    LET r == operations[o]
    IN /\ refreshing' = [refreshing EXCEPT ![o] = "no"]
       /\ resuming' = resuming \ {o}
       /\ preparing' = IF ok /\ o \in resuming /\ ~Finished(r) /\ Resolved(r)
                       THEN preparing \cup {[op |-> o, resumeState |-> r]}
                       ELSE preparing

\* (mutant of WorkerPaused: every failure counts as "definitely unsent")
WorkerPaused_Unsent(o) ==
    /\ approvals' = Without(o)
    /\ Becomes(o, Unsent(operations[o], NextStep(o, operations[o])))
    /\ worker' = [worker EXCEPT ![o] = "pausing"]

\* pause() of the worker: it awaits one more save().
WorkerPaused(o) ==
    /\ approvals' = Without(o)
    /\ BecomesPaused(o)
    /\ worker' = [worker EXCEPT ![o] = "pausing"]

\* (mutant of PauseWorker: the save() is forgotten)
PauseWorker_Unsaved(o) == WorkerPaused(o) /\ UNCHANGED writeVars

PauseWorker(o) == WorkerPaused(o) /\ Save(<<"worker", o>>)

RefreshThrew(o) ==
    /\ refreshing[o] = "observing"
    /\ lookup[o] = "threw"
    /\ lookup' = [lookup EXCEPT ![o] = "idle"]
    /\ RefreshOver(o, FALSE)
    /\ IF worker[o] = "launched"
       THEN PauseWorker(o)
       ELSE UNCHANGED <<operations, approvals, worker, writeVars>>
    /\ UNCHANGED <<reviews, timers, proofVars, selected, allowed, chainVars>>

RefreshSaved(o, ok) ==
    /\ refreshing[o] = "saving"
    /\ RefreshOver(o, ok)
    /\ IF ~ok /\ worker[o] = "launched"
       THEN /\ WorkerPaused(o)
            /\ Settle(<<"refresh", o>>, ok, <<<<"worker", o>>>>)
       ELSE /\ UNCHANGED <<operations, approvals, worker>>
            /\ Settle(<<"refresh", o>>, ok, <<>>)
    /\ UNCHANGED <<reviews, timers, lookup, proofVars, storageError, selected,
                   allowed, chainVars>>

-----------------------------------------------------------------------------
(* launch() and run(): the worker of an approved operation. *)

\* The 5 s timer fires.
Timer(o) ==
    /\ timers[o] > 0
    /\ timers' = [timers EXCEPT ![o] = @ - 1]
    /\ worker' = Launched(o)
    /\ UNCHANGED <<operations, planVars, approvals, lookVars, proofVars,
                   writeVars, selected, allowed, chainVars>>

\* The worker throws before anything is recorded: pause().
WorkerThrows(o) ==
    /\ PauseWorker(o)
    /\ UNCHANGED <<planVars, timers, refreshing, proofVars, selected, allowed,
                   chainVars>>

\* run(), once no refresh is pending.
Run(o) ==
    /\ worker[o] = "launched"
    /\ refreshing[o] = "no"
    /\ \/ /\ Guard(o)
          /\ worker' = [worker EXCEPT ![o] = "observing"]
          /\ BeginObserve(o)
          /\ UNCHANGED <<planVars, approvals, timers, refreshing, proofVars,
                         writeVars, selected, allowed, chainVars>>
       \/ WorkerThrows(o) /\ UNCHANGED lookup

\* run() after observe(): finish, keep tracking, or send the next step.
RunObserved(o) ==
    /\ worker[o] = "observing"
    /\ lookup[o] \in {"done", "threw"}
    /\ lookup' = [lookup EXCEPT ![o] = "idle"]
    /\ LET r == operations[o]
           waits == Finished(r) \/ (Guard(o) /\ Tracks(o, r))
       IN \/ /\ lookup[o] = "done"
             /\ waits
             /\ approvals' = IF Finished(r) THEN Without(o) ELSE approvals
             /\ worker' = [worker EXCEPT ![o] = "saving"]
             /\ UNCHANGED operations
             /\ Save(<<"worker", o>>)
             /\ UNCHANGED <<planVars, timers, refreshing, proofVars, selected,
                            allowed, chainVars>>
          \/ /\ lookup[o] = "done"
             /\ ~waits
             /\ Guard(o)
             /\ worker' = [worker EXCEPT ![o] = "preparing"]
             /\ UNCHANGED <<operations, planVars, approvals, timers, refreshing,
                            proofVars, writeVars, selected, allowed, chainVars>>
          \/ /\ lookup[o] = "done" => ~Finished(r)
             /\ WorkerThrows(o)

\* sendBridge() / sendSwap() up to the guard() that precedes the signature:
\* route, quote, simulation, fees, funding and the account of the signer.
Prepared(o) ==
    /\ worker[o] = "preparing"
    /\ \/ /\ Guard(o)
          /\ NextStep(o, operations[o]) = "bridge" => approvals[o] = "fresh"
          /\ worker' = [worker EXCEPT ![o] = "signing"]
          /\ UNCHANGED <<operations, planVars, approvals, timers, refreshing,
                         proofVars, writeVars, selected, allowed, chainVars>>
       \/ WorkerThrows(o)
    /\ UNCHANGED lookup

\* The hash of a transaction signed now: the first attempt never sent and
\* recorded nowhere (an unsent attempt that was deleted leaves its number).
NewHashes(o, s) ==
    LET free == {a \in Attempt : /\ tx[o][s][a] = "unsent"
                                /\ disk[o].hash[s] # a
                                /\ snapshot[o].hash[s] # a}
    IN {a \in free : \A b \in free : a <= b}

\* The signature arrives: guard(), then save the hash before anything is sent.
Signed(o) ==
    LET s == NextStep(o, operations[o])
    IN /\ worker[o] = "signing"
       /\ \/ /\ Guard(o)
             /\ s = "bridge" => approvals[o] = "fresh"
             /\ \E a \in NewHashes(o, s) :
                   Becomes(o, WithHash(operations[o], s, a))
             /\ worker' = [worker EXCEPT ![o] = "recording"]
             /\ Save(<<"worker", o>>)
             /\ UNCHANGED <<planVars, approvals, timers, refreshing, proofVars,
                            selected, allowed, chainVars>>
          \/ WorkerThrows(o)
       /\ UNCHANGED lookup

\* The save() of the hash ends.  guard() once more, then the broadcast leaves
\* the wallet; otherwise the hash is deleted: the attempt is unsent.
HashSaved(o, ok) ==
    LET s == NextStep(o, operations[o])
        a == operations[o].hash[s]
    IN /\ worker[o] = "recording"
       /\ \/ /\ ok
             /\ Guard(o)
             /\ s = "bridge" => approvals[o] = "fresh"
             /\ worker' = [worker EXCEPT ![o] = "broadcasting"]
             /\ tx' = [tx EXCEPT ![o][s][a] = "sent"]
             /\ allowed' = [allowed EXCEPT ![o][s] = @ - 1]
             /\ UNCHANGED <<operations, approvals>>
             /\ Settle(<<"worker", o>>, ok, <<>>)
          \/ /\ Becomes(o, Unsent(operations[o], s))
             /\ approvals' = Without(o)
             /\ worker' = [worker EXCEPT ![o] = "pausing"]
             /\ Settle(<<"worker", o>>, ok, <<<<"worker", o>>>>)
             /\ UNCHANGED <<tx, allowed>>
       /\ UNCHANGED <<planVars, timers, lookVars, proofVars, storageError,
                      selected, packet>>

\* The node answers, and guard() holds: the step is under way.  A transport
\* error, a rejection or a failed guard() pauses and keeps the hash.
BroadcastReturned(o) ==
    /\ worker[o] = "broadcasting"
    /\ \/ /\ Guard(o)
          /\ Becomes(o, WithStatus(operations[o],
                              SentStatus(NextStep(o, operations[o]))))
          /\ worker' = [worker EXCEPT ![o] = "saving"]
          /\ Save(<<"worker", o>>)
          /\ UNCHANGED <<planVars, approvals, timers, refreshing, proofVars,
                         selected, allowed, chainVars>>
       \/ WorkerThrows(o)
    /\ UNCHANGED lookup

\* (mutant of Rescheduled: a swap is not looked up again)
Rescheduled_DepositOnly(o) ==
    IF operations[o].status = "waiting-for-deposit" /\ Approved(o)
    THEN [timers EXCEPT ![o] = @ + 1]
    ELSE timers

\* The finally of launch(): look again in 5 s while a transaction is awaited.
Rescheduled(o) ==
    IF /\ operations[o].status \in {"waiting-for-deposit", "swapping"}
       /\ Approved(o)
    THEN [timers EXCEPT ![o] = @ + 1]
    ELSE timers

WorkerSaved(o, ok) ==
    /\ worker[o] = "saving"
    /\ IF ok
       THEN /\ worker' = [worker EXCEPT ![o] = "idle"]
            /\ timers' = Rescheduled(o)
            /\ UNCHANGED <<operations, approvals>>
            /\ Settle(<<"worker", o>>, ok, <<>>)
       ELSE /\ WorkerPaused(o)
            /\ UNCHANGED timers
            /\ Settle(<<"worker", o>>, ok, <<<<"worker", o>>>>)
    /\ UNCHANGED <<planVars, lookVars, proofVars, storageError, selected,
                   allowed, chainVars>>

\* The save() of pause() ends.
PauseSaved(o, ok) ==
    /\ worker[o] = "pausing"
    /\ worker' = [worker EXCEPT ![o] = "idle"]
    /\ timers' = Rescheduled(o)
    /\ storageError' = (storageError \/ ~ok)
    /\ UNCHANGED <<operations, approvals>>
    /\ Settle(<<"worker", o>>, ok, <<>>)
    /\ UNCHANGED <<planVars, lookVars, proofVars, selected, allowed, chainVars>>

-----------------------------------------------------------------------------
(* The environment. *)

\* watchContext(): lock, unlock, another wallet, or a change of this one.
ChangeContext(v) ==
    /\ selected' = v
    /\ approvals' = [o \in Op |-> "none"]
    /\ reviews' = {}
    /\ allowed' = [o \in Op |-> [s \in Step |-> 0]]
    /\ UNCHANGED <<operations, preparing, resuming, workVars, lookVars,
                   proofVars, writeVars, chainVars>>

\* Time passes the packet timeout, then the end of the approval.
Tick(o) ==
    /\ approvals[o] \in {"fresh", "packetLate"}
    /\ approvals' = [approvals EXCEPT ![o] =
                       IF @ = "fresh" THEN "packetLate" ELSE "expired"]
    /\ UNCHANGED <<operations, planVars, workVars, lookVars, proofVars,
                   writeVars, selected, allowed, chainVars>>

\* The process dies and starts again: init().  A write under way may have
\* reached the store.  If the store cannot be read, nothing is loaded.
Restart(stored, readable) ==
    /\ stored \in {disk, snapshot}
    /\ disk' = stored
    /\ snapshot' = stored
    /\ writeTail' = <<>>
    /\ operations' = [o \in Op |-> IF readable THEN Restored(o, stored[o])
                                   ELSE NoOperation]
    /\ storageError' = ~readable
    /\ approvals' = [o \in Op |-> "none"]
    /\ reviews' = {} /\ preparing' = {} /\ resuming' = {}
    /\ worker' = [o \in Op |-> "idle"]
    /\ timers' = [o \in Op |-> 0]
    /\ refreshing' = [o \in Op |-> "no"]
    /\ lookup' = [o \in Op |-> "idle"]
    /\ verifiedSwaps' = {} /\ verifiedReceipts' = {}
    /\ allowed' = [o \in Op |-> [s \in Step |-> 0]]
    /\ UNCHANGED <<selected, chainVars>>

\* A transaction that left the wallet is committed, well or not - or never is.
Commit(o, s, a, result) ==
    /\ tx[o][s][a] = "sent"
    /\ tx' = [tx EXCEPT ![o][s][a] = result]
    /\ packet' = IF s = "bridge" /\ result = "ok"
                 THEN [packet EXCEPT ![o][a] = "inFlight"] ELSE packet
    /\ UNCHANGED <<operations, planVars, approvals, workVars, lookVars,
                   proofVars, writeVars, selected, allowed>>

\* A packet is received or refused (error acknowledgement, refund); one that
\* times out stays without acknowledgement, as one still in flight.
Relay(o, a, result) ==
    /\ packet[o][a] = "inFlight"
    /\ packet' = [packet EXCEPT ![o][a] = result]
    /\ UNCHANGED <<operations, planVars, approvals, workVars, lookVars,
                   proofVars, writeVars, selected, allowed, tx>>

-----------------------------------------------------------------------------
Init ==
    /\ operations = [o \in Op |-> NoOperation]
    /\ reviews = {} /\ preparing = {} /\ resuming = {}
    /\ approvals = [o \in Op |-> "none"]
    /\ worker = [o \in Op |-> "idle"]
    /\ timers = [o \in Op |-> 0]
    /\ refreshing = [o \in Op |-> "no"]
    /\ lookup = [o \in Op |-> "idle"]
    /\ verifiedSwaps = {} /\ verifiedReceipts = {}
    /\ writeTail = <<>>
    /\ snapshot = [o \in Op |-> NoOperation]
    /\ disk = [o \in Op |-> NoOperation]
    /\ storageError = FALSE
    /\ selected = Locked
    /\ allowed = [o \in Op |-> [s \in Step |-> 0]]
    /\ tx = [o \in Op |-> [s \in Step |-> [a \in Attempt |-> "unsent"]]]
    /\ packet = [o \in Op |-> [a \in Attempt |-> "none"]]

Observe(o) == ObserveSwap(o) \/ ObserveBridge(o) \/ ObserveAck(o)

RefreshStep(o) == RefreshObserved(o) \/ RefreshThrew(o)

Work(o) ==
    \/ Run(o) \/ RunObserved(o) \/ Prepared(o) \/ Signed(o)
    \/ BroadcastReturned(o)

SaveEnds(o, ok) ==
    \/ StartSaved(o, ok) \/ StartPaused(o, ok) \/ RefreshSaved(o, ok)
    \/ HashSaved(o, ok) \/ WorkerSaved(o, ok) \/ PauseSaved(o, ok)

User ==
    \/ \E o \in Op : PrepareNew(o) \/ PrepareResume(o) \/ Refresh(o)
    \/ \E p \in preparing : PrepareReview(p)
    \/ \E p \in preparing \cup reviews : DropPlan(p)
    \/ \E p \in reviews : Start(p)
    \/ \E v \in Vault \cup {Locked} : ChangeContext(v)

Chain ==
    \/ \E o \in Op, s \in Step, a \in Attempt, result \in {"ok", "failed"} :
          Commit(o, s, a, result)
    \/ \E o \in Op, a \in Attempt, result \in {"received", "refused"} :
          Relay(o, a, result)

Next ==
    \/ \E o \in Op : Observe(o) \/ RefreshStep(o) \/ Work(o) \/ Timer(o) \/ Tick(o)
    \/ \E o \in Op, ok \in BOOLEAN : SaveEnds(o, ok)
    \/ User
    \/ Chain
    \/ \E stored \in {disk, snapshot}, readable \in BOOLEAN :
          Restart(stored, readable)

Spec == Init /\ [][Next]_vars

\* Network calls answer or time out, store writes end, timers fire and time
\* passes.  Nothing makes the user act, a transaction commit or a packet arrive.
Fairness ==
    \A o \in Op :
        /\ WF_vars(Observe(o))
        /\ WF_vars(RefreshStep(o))
        /\ WF_vars(Work(o))
        /\ WF_vars(Timer(o))
        /\ WF_vars(Tick(o))
        /\ WF_vars(\E ok \in BOOLEAN : SaveEnds(o, ok))

FairSpec == Spec /\ Fairness

-----------------------------------------------------------------------------
(* Properties. *)

Workers == {"idle", "launched", "observing", "preparing", "signing",
            "recording", "broadcasting", "saving", "pausing"}

\* Every variable has its type.
TypeOK ==
    /\ operations \in [Op -> Operation]
    /\ reviews \subseteq Plan /\ preparing \subseteq Plan
    /\ resuming \subseteq Op
    /\ approvals \in [Op -> Approval]
    /\ worker \in [Op -> Workers]
    /\ timers \in [Op -> Nat]
    /\ refreshing \in [Op -> {"no", "observing", "saving"}]
    /\ lookup \in [Op -> {"idle", "swap", "bridge", "ack", "done", "threw"}]
    /\ verifiedSwaps \subseteq Op \X Attempt /\ verifiedReceipts \subseteq Op
    /\ writeTail \in Seq(Waiter)
    /\ snapshot \in [Op -> Operation] /\ disk \in [Op -> Operation]
    /\ storageError \in BOOLEAN
    /\ selected \in Vault \cup {Locked}
    /\ allowed \in [Op -> [Step -> Int]]
    /\ tx \in [Op -> [Step -> [Attempt -> {"unsent", "sent", "ok", "failed"}]]]
    /\ packet \in [Op -> [Attempt ->
                     {"none", "inFlight", "received", "refused"}]]

\* The transaction of an attempt was dispatched and did not fail: it has
\* committed or may still commit.
Live(o, s, a) == tx[o][s][a] \in {"sent", "ok"}

\* No step of a swap takes effect twice, whatever is retried, restarted or
\* answered ambiguously (dispatch(): "Keep the hash and never resend").
AtMostOnce ==
    \A o \in Op, s \in Step, a, b \in Attempt :
        tx[o][s][a] = "ok" /\ Live(o, s, b) => a = b

\* A dispatched transaction that did not fail is never forgotten: its hash is
\* in the store, in the write under way and in every record in memory, so that
\* it can be looked up after any crash (dispatch(): "Persist the exact public
\* hash before dispatch").
DispatchedIsRecorded ==
    \A o \in Op, s \in Step, a \in Attempt :
        Live(o, s, a) =>
            /\ disk[o].hash[s] = a
            /\ snapshot[o].hash[s] = a
            /\ Known(o) => operations[o].hash[s] = a

BridgeDelivered(o) == \E a \in Attempt : packet[o][a] = "received"
SwapCommitted(o)   == \E a \in Attempt : tx[o]["swap"][a] = "ok"

\* The second transaction of a route leaves the wallet only after the first
\* one reached its end on chain: the deposit was received, or the swap paid.
SecondAfterFirst ==
    \A o \in Op, a \in Attempt :
        /\ o \notin ToEpix /\ tx[o]["swap"][a] # "unsent" => BridgeDelivered(o)
        /\ o \in ToEpix /\ tx[o]["bridge"][a] # "unsent" => SwapCommitted(o)

\* Each broadcast is covered by a start() of the user since the last lock,
\* wallet change or restart, and one start() covers one broadcast of each step
\* ("A single internal approval authorizes only this bounded, two-message
\* route"; "Persistence is progress, never authorization").
SendsAreAuthorized == \A o \in Op, s \in Step : allowed[o][s] >= 0

\* A finished record, in memory or stored, tells the truth: "complete" means
\* that the output arrived, "failed" that nothing moved nor will.
OutcomeIsTrue ==
    \A o \in Op : \A r \in {operations[o], disk[o]} :
        /\ r.status = "complete" => IF o \in ToEpix THEN BridgeDelivered(o)
                                    ELSE SwapCommitted(o)
        /\ r.status = "failed" =>
               \A a \in Attempt : ~Live(o, NextStep(o, NoOperation), a)

\* start() never replaces a record while a lookup still works on the old one:
\* the outcome of a lookup is never lost on a detached record.
NoLookupOnReplacedRecord ==
    [][\A o \in Op : approvals[o] = "none" /\ approvals'[o] = "fresh"
                       => lookup[o] \in {"idle", "done"}]_vars

\* Two open operations of one wallet are never approved together.
OneActiveSwapPerVault ==
    \A o, p \in Op :
        /\ VaultOf[o] = VaultOf[p] /\ Approved(o) /\ Approved(p)
        /\ Open(operations[o]) /\ Open(operations[p])
        => o = p

\* An approval does not outlive its operation: it is used up, revoked or paused
\* (APPROVAL_DURATION_MS), whatever the chains and the store do.
ApprovalEnds == \A o \in Op : Approved(o) ~> ~Approved(o)

\* The worker of an operation never hangs: it comes to rest, and a resumed
\* operation is not "already running" for ever.
WorkerRests == \A o \in Op : Running(o) ~> ~Running(o)

\* A prepare() that awaits a refresh is answered.
ResumeAnswered == \A o \in Op : o \in resuming ~> o \notin resuming

\* An operation shown as under way has someone who will take it further: a
\* worker, a timer or the save() of start() (dispatch(): revocation "must leave
\* lookup-only recovery instead of an active state without a worker").
ActiveHasWorker ==
    \A o \in Op :
        operations[o].status \in {"bridging", "waiting-for-deposit", "swapping"}
            => \/ Running(o)
               \/ timers[o] > 0
               \/ \E i \in DOMAIN writeTail : writeTail[i] = <<"start", o>>

-----------------------------------------------------------------------------
(* The service implements the ledger of its two chains. *)

Committed(o) == [s \in Step |-> {a \in Attempt : tx[o][s][a] = "ok"}]

Ledger == INSTANCE SwapLedger WITH
    committed <- [o \in Op |-> Committed(o)],
    delivered <- [o \in Op |-> BridgeDelivered(o)],
    reported <- [o \in Op |-> IF Finished(disk[o]) THEN disk[o].status
                              ELSE "open"]

\* Seen from the chains and the store, every behaviour of the service is one
\* that SwapLedger allows.
ImplementsLedger == Ledger!LedgerSpec

=============================================================================
