----------------------------- MODULE TxExecutor -----------------------------
(***************************************************************************)
(* Swaps of several transactions over several chains:                      *)
(* packages/background/src/tx-executor/service.ts executes them, and the   *)
(* part of recent-send-history/service.ts that is about SwapV2Histories    *)
(* watches where the funds have got to and tells the executor, over an     *)
(* event bus, on which chains the next transaction can be sent.  The user  *)
(* signs that one in a window of the extension (ibc-history-view), which   *)
(* works on the copy of the execution that it has fetched.                 *)
(*                                                                         *)
(* executeTxs() awaits a signature, a broadcast and a trace for each       *)
(* transaction; events, answers to the tracker, other windows and the end  *)
(* of the background come between any two.  The executions and the         *)
(* histories are stored by two autoruns, each as a whole at every change   *)
(* and in order; nobody awaits these writes.  One that fails or is lost    *)
(* with the background leaves what was stored before, so the background    *)
(* starts with executions and histories of different ages.  The counters   *)
(* of ids are taken as stored.                                             *)
(*                                                                         *)
(* A history is that of one execution and has its id.  Left out: amounts,  *)
(* fees, hashes, what is only displayed (hidden, notified), the tracking   *)
(* of the last transaction (additionalTrackingData), and executions of     *)
(* type UNDEFINED, which have no history.                                  *)
(***************************************************************************)
EXTENDS Naturals, Sequences

CONSTANTS
    Chain,
    Plans,          \* what a swap page asks for
    Window,         \* windows of the extension
    MaxExecutions,  \* bound: swaps asked for
    MaxEnds,        \* bound: how often the background ends
    None

VARIABLES
    seq,         \* recentTxExecutionSeq
    execution,   \* the executions asked for
    listed,      \* recentTxExecutionMap: the ids in it
    run,         \* the executeTxs() of an execution under way, or None
    history,     \* recentSwapV2HistoryMap: the history of an execution, or None
    tracker,     \* where the tracking of a history stands
    ready,       \* the executor has started and listens
    bus,         \* the events it has not heard yet
    window,      \* the transaction that the user signs in a window, or None
    savedExecution, \* recentSerializedTxExecutionMap in the storage
    savedHistory,   \* recentSwapV2HistoryMap in the storage
    sends,       \* history: how often a transaction was accepted by its chain
    proven,      \* history: the transactions that were ever confirmed
    arrived,     \* history: where the tracker knew the funds, for a linked swap
    lost,        \* history: of these, what was told before an end that lost it
    failed,      \* history: the executions that ended with a failure
    back,        \* history: how often an execution came back as it was earlier
    ends

executor == <<seq, execution, listed, run>>
recent == <<history, tracker>>
stored == <<savedExecution, savedHistory>>
told == <<sends, proven, arrived, lost, failed, back>>
vars == <<executor, recent, ready, bus, window, stored, told, ends>>

-----------------------------------------------------------------------------
Id == 0 .. MaxExecutions - 1

TxStatus == {"pending", "blocked", "confirmed", "failed"}

\* What a page asks for; it may have sent a transaction (an approval) itself.
Plan == [chains : Seq(Chain), signed : SUBSET Nat, done : SUBSET Nat,
         executable : SUBSET Chain, hardware : BOOLEAN, route : Seq(Chain)]

\* TxExecution; its id is the index of the function.
Execution ==
    [plan : Plans, status : {"none", "processing", "blocked"},
     txs : Seq(TxStatus), signed : SUBSET Nat, executable : SUBSET Chain,
     historyData : BOOLEAN, recorded : BOOLEAN]

\* executeTxs(): the transaction it is at and the one signed by the caller.
Run == [at : Nat, given : Nat, phase : {"starts", "signs", "sends", "traces"}]

\* SwapV2History: its link to the execution, how many chains of the route were
\* reached, where an intermediate asset is, trackDone and trackError.
History == [link : BOOLEAN, reached : Nat, asset : Chain \cup {None},
            trackDone : BOOLEAN, trackError : BOOLEAN]

Event == [type : {"executable", "remove"}, id : Id, chains : SUBSET Chain]

ASSUME ExecutorAssumption ==
    /\ Plans \subseteq Plan
    /\ \A p \in Plans : /\ Len(p.chains) > 0 /\ p.done # DOMAIN p.chains
                        /\ p.signed \subseteq DOMAIN p.chains
                        /\ \A i \in p.done : 1 .. i \subseteq p.done
    /\ MaxExecutions \in Nat /\ MaxEnds \in Nat
    /\ None \notin Run /\ None \notin History /\ None \notin Chain
    /\ None \notin [id : Id, at : Nat] /\ None \notin Execution

NoRecord(p) ==
    [plan |-> p, status |-> "none", txs |-> <<>>, signed |-> {}, executable |-> {},
     historyData |-> FALSE, recorded |-> FALSE]

Init ==
    /\ seq = 0
    /\ execution \in [Id -> {NoRecord(p) : p \in Plans}]
    /\ listed = {}
    /\ run = [e \in Id |-> None]
    /\ history = [e \in Id |-> None]
    /\ tracker = [e \in Id |-> "off"]
    /\ ready = TRUE /\ bus = {}
    /\ window = [w \in Window |-> None]
    /\ sends = [e \in Id |-> [i \in DOMAIN execution[e].plan.chains |-> 0]]
    /\ savedExecution = [e \in Id |-> None] /\ savedHistory = [e \in Id |-> None]
    /\ proven = [e \in Id |-> {}]
    /\ arrived = [e \in Id |-> {}] /\ lost = [e \in Id |-> {}]
    /\ failed = {} /\ back = [e \in Id |-> 0]
    /\ ends = 0

-----------------------------------------------------------------------------
(***************************************************************************)
(* recordAndExecuteTxs().  Without all chains, or with a hardware wallet,  *)
(* nothing is signed automatically, and something must be signed already.  *)
(***************************************************************************)
PreventAutoSign(p) ==
    p.hardware \/ \E i \in DOMAIN p.chains : p.chains[i] \notin p.executable

Executable(p) == {i \in DOMAIN p.chains : p.chains[i] \in p.executable}

\* The swap page, the only caller, lets the chain of the funds be executable, on
\* which the first transaction is; when there are several, or with a hardware
\* wallet, it signs that one or sends it before it asks.
FirstCanGo(p) ==
    /\ 1 \in Executable(p)
    /\ PreventAutoSign(p) => 1 \in p.signed \cup p.done

ASSUME PageAssumption == \A p \in Plans : FirstCanGo(p)

New(p) ==
    [plan |-> p, status |-> "processing",
     txs |-> [i \in DOMAIN p.chains |-> IF i \in p.done THEN "confirmed" ELSE "pending"],
     signed |-> p.signed, executable |-> p.executable,
     historyData |-> TRUE, recorded |-> FALSE]

Confirmed(x) == {i \in DOMAIN x.txs : x.txs[i] = "confirmed"}

\* executeTxs() begins at a transaction.
Begins(e, i, given) ==
    run' = [run EXCEPT ![e] = [at |-> i, given |-> given, phase |-> "starts"]]

Record ==
    /\ ready /\ seq < MaxExecutions
    /\ LET p == execution[seq].plan IN
       /\ PreventAutoSign(p) => Executable(p) \cap p.signed # {}
       /\ execution' = [execution EXCEPT ![seq] = New(p)]
       /\ proven' = [proven EXCEPT ![seq] = Confirmed(New(p))]
    /\ listed' = listed \cup {seq}
    /\ Begins(seq, 1, 0)
    /\ seq' = seq + 1
    /\ UNCHANGED <<recent, ready, bus, window, stored, sends, arrived, lost, failed, back, ends>>

-----------------------------------------------------------------------------
(***************************************************************************)
(* recordHistoryIfNeeded(): the swap gets a history with the last of its   *)
(* transactions that was confirmed, linked to the execution if there is    *)
(* more to be done.                                                        *)
(***************************************************************************)
NeedsHistory(x) ==
    /\ x.historyData /\ ~x.recorded
    /\ \E i \in DOMAIN x.txs : x.plan.chains[i] \in x.executable /\ x.txs[i] = "confirmed"

NewHistory(x) ==
    [link |-> \E i \in DOMAIN x.txs : x.txs[i] = "blocked", reached |-> 0,
     asset |-> None, trackDone |-> FALSE, trackError |-> FALSE]

RecordHistory(e, x) ==
    /\ history' = IF NeedsHistory(x) THEN [history EXCEPT ![e] = NewHistory(x)] ELSE history
    /\ tracker' = IF NeedsHistory(x) THEN [tracker EXCEPT ![e] = "source"] ELSE tracker

\* The current transaction has got its result.
Marked(e, status) ==
    LET i == run[e].at IN
    [execution[e] EXCEPT !.txs[i] = status, !.signed = @ \ {i}]

\* The last one: the link of the history goes, and the execution.
\* (mutant of Complete: the link stays.)
Complete_Linked(e) ==
    LET x == Marked(e, "confirmed") IN
    /\ execution' = [execution EXCEPT ![e] = [x EXCEPT !.recorded = @ \/ NeedsHistory(x)]]
    /\ RecordHistory(e, x)
    /\ listed' = listed \ {e}
    /\ run' = [run EXCEPT ![e] = None]

Complete(e) ==
    LET x == Marked(e, "confirmed") IN
    /\ execution' = [execution EXCEPT ![e] = [x EXCEPT !.recorded = @ \/ NeedsHistory(x)]]
    /\ IF x.recorded /\ history[e] # None
       THEN /\ history' = [history EXCEPT ![e].link = FALSE]
            /\ UNCHANGED tracker
       ELSE RecordHistory(e, x)
    /\ listed' = listed \ {e}
    /\ run' = [run EXCEPT ![e] = None]

Confirm(e) ==
    IF run[e].at < Len(execution[e].txs)
    THEN /\ execution' = [execution EXCEPT ![e] = Marked(e, "confirmed")]
         /\ Begins(e, run[e].at + 1, run[e].given)
         /\ UNCHANGED <<listed, recent>>
    ELSE Complete(e)

\* A failure is noted in the history, and the execution goes.
Fail(e) ==
    /\ execution' = [execution EXCEPT ![e] = Marked(e, "failed")]
    /\ history' = IF execution[e].recorded /\ history[e] # None
                  THEN [history EXCEPT ![e].trackError = TRUE, ![e].trackDone = TRUE]
                  ELSE history
    /\ listed' = listed \ {e}
    /\ run' = [run EXCEPT ![e] = None]
    /\ failed' = failed \cup {e}
    /\ UNCHANGED tracker

\* The execution waits for the funds, or for the user.
\* (mutant of Block: the history is left for the end.)
Block_Unrecorded(e) ==
    /\ execution' = [execution EXCEPT ![e] = [Marked(e, "blocked") EXCEPT !.status = "blocked"]]
    /\ run' = [run EXCEPT ![e] = None]
    /\ UNCHANGED <<listed, recent>>

Block(e) ==
    LET x == [Marked(e, "blocked") EXCEPT !.status = "blocked"] IN
    /\ execution' = [execution EXCEPT ![e] =
          [x EXCEPT !.recorded = @ \/ NeedsHistory(x), !.historyData = FALSE]]
    /\ RecordHistory(e, x)
    /\ run' = [run EXCEPT ![e] = None]
    /\ UNCHANGED listed

(***************************************************************************)
(* executePendingTx(), up to its awaits.  An execution with a failed       *)
(* transaction is gone: none is met again.                                 *)
(***************************************************************************)
Goes(e, phase) ==
    /\ run' = [run EXCEPT ![e].phase = phase]
    /\ UNCHANGED <<execution, listed, recent, failed>>

HasSignature(e) ==
    run[e].at \in execution[e].signed \/ run[e].at = run[e].given

Start(e) ==
    LET x == execution[e]
        i == run[e].at
        blocked == \/ x.plan.chains[i] \notin x.executable
                   \/ PreventAutoSign(x.plan) /\ ~HasSignature(e)
    IN
    /\ run[e].phase = "starts"
    /\ \/ x.txs[i] = "confirmed" /\ Confirm(e) /\ UNCHANGED failed
       \/ x.txs[i] \in {"pending", "blocked"} /\ blocked /\ Block(e) /\ UNCHANGED failed
       \/ /\ x.txs[i] \in {"pending", "blocked"} /\ ~blocked
          /\ Goes(e, IF HasSignature(e) THEN "sends" ELSE "signs")
    /\ UNCHANGED sends

Sign(e) ==
    /\ run[e].phase = "signs"
    /\ (Goes(e, "sends") \/ Fail(e))
    /\ UNCHANGED sends

\* The answer to an accepted broadcast can be lost.
Send(e) ==
    /\ run[e].phase = "sends"
    /\ \/ /\ sends' = [sends EXCEPT ![e][run[e].at] = @ + 1]
          /\ (Goes(e, "traces") \/ Fail(e))
       \/ Fail(e) /\ UNCHANGED sends

Trace(e) ==
    /\ run[e].phase = "traces"
    /\ \/ Confirm(e) /\ UNCHANGED failed
       \/ Fail(e)
    /\ UNCHANGED sends

Execute(e) ==
    /\ run[e] # None
    /\ (Start(e) \/ Sign(e) \/ Send(e) \/ Trace(e))
    /\ proven' = [proven EXCEPT ![e] = @ \cup Confirmed(execution'[e])]
    /\ UNCHANGED <<seq, ready, bus, window, stored, arrived, lost, back, ends>>

-----------------------------------------------------------------------------
(***************************************************************************)
(* A window fetches the execution and the user signs its first blocked     *)
(* transaction, if it can be sent; meanwhile the execution may move on.    *)
(***************************************************************************)
FirstBlocked(x) ==
    {i \in DOMAIN x.txs : /\ x.txs[i] = "blocked"
                          /\ \A j \in 1 .. i - 1 : x.txs[j] # "blocked"}

\* (mutant of Continue: the user signs any that has not been sent.)
Continue_Any(w, e) ==
    /\ ready /\ window[w] = None
    /\ e \in listed /\ history[e] # None /\ history[e].link
    /\ \E i \in DOMAIN execution[e].txs :
          /\ execution[e].txs[i] \in {"blocked", "pending"}
          /\ execution[e].plan.chains[i] \in execution[e].executable
          /\ window' = [window EXCEPT ![w] = [id |-> e, at |-> i]]
    /\ UNCHANGED <<executor, recent, ready, bus, stored, told, ends>>

Continue(w, e) ==
    /\ ready /\ window[w] = None
    /\ e \in listed /\ history[e] # None /\ history[e].link
    /\ \E i \in FirstBlocked(execution[e]) :
          /\ execution[e].plan.chains[i] \in execution[e].executable
          /\ window' = [window EXCEPT ![w] = [id |-> e, at |-> i]]
    /\ UNCHANGED <<executor, recent, ready, bus, stored, told, ends>>

\* (mutant of Resume: an execution that runs is started once more.)
Resume_Again(w) ==
    /\ ready /\ window[w] # None
    /\ window' = [window EXCEPT ![w] = None]
    /\ IF window[w].id \in listed
       THEN /\ execution' = [execution EXCEPT ![window[w].id].status = "processing"]
            /\ Begins(window[w].id, window[w].at, window[w].at)
       ELSE UNCHANGED <<execution, run>>
    /\ UNCHANGED <<seq, listed, recent, ready, bus, stored, told, ends>>

\* resumeTx() with the signature, or the user gives it up; refused when the
\* execution is gone or runs already.
Resume(w) ==
    /\ ready /\ window[w] # None
    /\ window' = [window EXCEPT ![w] = None]
    /\ \/ /\ window[w].id \in listed /\ execution[window[w].id].status = "blocked"
          /\ execution' = [execution EXCEPT ![window[w].id].status = "processing"]
          /\ Begins(window[w].id, window[w].at, window[w].at)
       \/ UNCHANGED <<execution, run>>
    /\ UNCHANGED <<seq, listed, recent, ready, bus, stored, told, ends>>

-----------------------------------------------------------------------------
(***************************************************************************)
(* The event bus hands an event to the executor in the same step, or keeps *)
(* it until the executor has started.  Their order does not matter: an     *)
(* execution that is removed stays so.                                     *)
(***************************************************************************)
Heard(events) ==
    LET gone == {v.id : v \in {u \in events : u.type = "remove"}}
        Chains(e) == UNION {v.chains : v \in {u \in events : u.type = "executable" /\ u.id = e}}
    IN
    /\ listed' = listed \ gone
    /\ execution' = [e \in Id |-> IF e \in listed'
          THEN [execution[e] EXCEPT !.executable = @ \cup Chains(e)] ELSE execution[e]]

Publish(events) ==
    IF ready THEN Heard(events) /\ UNCHANGED bus
             ELSE bus' = bus \cup events /\ UNCHANGED <<execution, listed>>

Linked(e) == history[e] # None /\ history[e].link

\* removeRecentSwapV2History(), clearAllRecentSwapV2History()
RemoveHistories(es) ==
    /\ history' = [e \in Id |-> IF e \in es THEN None ELSE history[e]]
    /\ Publish({[type |-> "remove", id |-> e, chains |-> {}] : e \in {d \in es : Linked(d)}})

Remove ==
    /\ ready
    /\ \E es \in {Id} \cup {{e} : e \in Id} :
          /\ \E e \in es : history[e] # None
          /\ RemoveHistories(es)
    /\ UNCHANGED <<seq, run, tracker, ready, window, stored, told, ends>>

\* A chain is removed, and the histories through it without a word.
RemoveChain(c) ==
    /\ ready
    /\ history' = [e \in Id |->
          IF \/ \E i \in DOMAIN execution[e].plan.route : execution[e].plan.route[i] = c
             \/ history[e] # None /\ history[e].asset = c
          THEN None ELSE history[e]]
    /\ history' # history
    /\ UNCHANGED <<executor, tracker, ready, bus, window, stored, told, ends>>

-----------------------------------------------------------------------------
(***************************************************************************)
(* The tracking of a history, trackSwapV2Recursive(): whether the first    *)
(* transaction is in a block, then the status of the swap, asked again     *)
(* until it is final or the retries are used up.                           *)
(***************************************************************************)
TrackerGoes(e, stage) == tracker' = [tracker EXCEPT ![e] = stage]

\* The transaction is found, or has failed, or nobody can tell.
Source(e) ==
    /\ tracker[e] = "source"
    /\ \/ TrackerGoes(e, "waiting") /\ UNCHANGED <<execution, listed, history, bus>>
       \/ TrackerGoes(e, "off") /\ UNCHANGED <<execution, listed, history, bus>>
       \/ TrackerGoes(e, "off") /\ RemoveHistories({e})
    /\ UNCHANGED <<seq, run, ready, window, stored, told, ends>>

\* checkAndUpdateSwapV2HistoryRecursive(), up to the answer
Poll(e) ==
    /\ tracker[e] = "waiting"
    /\ IF history[e] = None \/ history[e].trackDone
       THEN TrackerGoes(e, "off")
       ELSE TrackerGoes(e, "asked") \/ TrackerGoes(e, "off")
    /\ UNCHANGED <<executor, history, ready, bus, window, stored, told, ends>>

\* The chains of the route up to its n-th.
Along(e, n) ==
    LET route == execution[e].plan.route IN
    {route[i] : i \in {j \in DOMAIN route : j <= n}}

\* (mutant of Reached: the chain after the last one, too.)
Reached_Next(e, n) == Along(e, n + 1)

\* getExecutableChainIdsFromSwapV2History()
Reached(e, n) == Along(e, n)

\* publishExecutableChains(), if the swap is still linked to an execution
Told(e, h, more) ==
    LET known == Along(e, h.reached) \cup more
        event == [type |-> "executable", id |-> e, chains |-> Reached(e, h.reached) \cup more]
    IN
    /\ history' = [history EXCEPT ![e] = h]
    /\ IF h.link
       THEN /\ Publish({event})
            /\ arrived' = [arrived EXCEPT ![e] = @ \cup known]
            /\ lost' = [lost EXCEPT ![e] = @ \ known]
       ELSE UNCHANGED <<execution, listed, bus, arrived, lost>>

Untold(e, h) ==
    /\ history' = [history EXCEPT ![e] = h]
    /\ UNCHANGED <<execution, listed, bus, arrived, lost>>

\* Nothing new, also when a final answer is doubted for a while.
Later(e, h) == Untold(e, h) /\ TrackerGoes(e, "waiting")

Progress(e, h) ==
    /\ \E n \in h.reached + 1 .. Len(execution[e].plan.route) :
          Told(e, [h EXCEPT !.reached = n], {})
    /\ TrackerGoes(e, "waiting")

\* Final, or unknown for too long, and there is nothing to tell.
Over(e, h) == Untold(e, [h EXCEPT !.trackDone = TRUE]) /\ TrackerGoes(e, "off")

\* The swap has succeeded at its destination, or so it says; what was received
\* is looked up if the answer did not tell.
Arrive(e, h) ==
    LET n == Len(execution[e].plan.route) IN
    \E known \in BOOLEAN :
       /\ Told(e, [h EXCEPT !.reached = n, !.trackDone = known], {})
       /\ TrackerGoes(e, IF known THEN "off" ELSE "asset")

\* The funds were released at c: to be swapped on, or as a refund.
Strand(e, h) ==
    \E c \in Chain, intermediate \in BOOLEAN :
       /\ intermediate => h.link
       /\ \E n \in {h.reached} \cup {i \in 2 .. Len(execution[e].plan.route) :
                                        execution[e].plan.route[i] = c} :
             Told(e, [h EXCEPT !.reached = n, !.asset = c, !.trackDone = TRUE],
                  IF intermediate THEN {c} ELSE {})
       /\ TrackerGoes(e, "off")

\* It has failed, somewhere.
Break(e, h) ==
    \E known \in BOOLEAN :
       /\ Told(e, [h EXCEPT !.trackDone = known], {})
       /\ TrackerGoes(e, IF known THEN "off" ELSE "asset")

(***************************************************************************)
(* processSwapV2StatusResponse(): the answer, which may be late.           *)
(***************************************************************************)
Reply(e) ==
    /\ tracker[e] = "asked"
    /\ \/ /\ history[e] = None
          /\ TrackerGoes(e, "off")
          /\ UNCHANGED <<execution, listed, history, bus, arrived, lost>>
       \/ /\ history[e] # None
          /\ LET h == [history[e] EXCEPT !.trackError = FALSE] IN
             \/ Later(e, h) \/ Progress(e, h) \/ Over(e, h)
             \/ Arrive(e, h) \/ Strand(e, h) \/ Break(e, h)
    /\ UNCHANGED <<seq, run, ready, window, stored, sends, proven, failed, back, ends>>

\* No answer: asked again, unless the retries are used up.
NoReply(e) ==
    /\ tracker[e] = "asked"
    /\ TrackerGoes(e, "waiting")
    /\ UNCHANGED <<executor, history, ready, bus, window, stored, told, ends>>

\* trackSwapV2ReleasedAssetAmount()
AssetTracked(e) ==
    /\ tracker[e] = "asset"
    /\ TrackerGoes(e, "off")
    /\ \/ UNCHANGED history
       \/ /\ history[e] # None
          /\ \E error \in {history[e].trackError, TRUE} :
                history' = [history EXCEPT ![e].trackDone = TRUE, ![e].trackError = error]
    /\ UNCHANGED <<executor, ready, bus, window, stored, told, ends>>

-----------------------------------------------------------------------------
(***************************************************************************)
(* The storage has served a write of the executions, of which only those   *)
(* that wait are stored, or one of the histories.  A write that fails, or  *)
(* is lost with the background, is one of which this does not happen.      *)
(***************************************************************************)
Waits(e) == e \in listed /\ execution[e].status = "blocked"

Snapshot == [e \in Id |-> IF Waits(e) THEN execution[e] ELSE None]

ExecutionsSaved ==
    /\ savedExecution # Snapshot
    /\ savedExecution' = Snapshot
    /\ UNCHANGED <<executor, recent, ready, bus, window, savedHistory, told, ends>>

HistoriesSaved ==
    /\ savedHistory # history
    /\ savedHistory' = history
    /\ UNCHANGED <<executor, recent, ready, bus, window, savedExecution, told, ends>>

(***************************************************************************)
(* The background ends and starts again with what was stored; the          *)
(* histories are tracked before the executor listens.                      *)
(***************************************************************************)
End ==
    /\ ends < MaxEnds
    /\ ends' = ends + 1
    /\ ready' = FALSE
    /\ listed' = {e \in Id : savedExecution[e] # None}
    /\ execution' = [e \in Id |-> IF e \in listed' THEN savedExecution[e] ELSE execution[e]]
    /\ history' = savedHistory
    /\ run' = [e \in Id |-> None]
    /\ tracker' = [e \in Id |-> IF savedHistory[e] = None THEN "off" ELSE "source"]
    /\ bus' = {}
    /\ lost' = [e \in Id |-> IF e \in listed' THEN arrived[e] \ execution'[e].executable
                                               ELSE lost[e]]
    /\ failed' = failed \ listed'
    /\ back' = [e \in Id |-> IF savedExecution[e] \in {None, Snapshot[e]}
                             THEN back[e] ELSE back[e] + 1]
    /\ UNCHANGED <<seq, window, stored, sends, proven, arrived>>

\* (mutant of Ready: what was told before is not heard.)
Ready_Deaf ==
    /\ ~ready
    /\ ready' = TRUE
    /\ bus' = {}
    /\ UNCHANGED <<executor, recent, window, stored, told, ends>>

Ready ==
    /\ ~ready
    /\ ready' = TRUE
    /\ Heard(bus)
    /\ bus' = {}
    /\ UNCHANGED <<seq, run, recent, window, stored, told, ends>>

Next ==
    \/ Record \/ Remove \/ ExecutionsSaved \/ HistoriesSaved \/ End \/ Ready
    \/ \E c \in Chain : RemoveChain(c)
    \/ \E w \in Window : Resume(w) \/ \E e \in Id : Continue(w, e)
    \/ \E e \in Id : \/ Execute(e) \/ Source(e) \/ Poll(e) \/ Reply(e)
                     \/ NoReply(e) \/ AssetTracked(e)

Spec == Init /\ [][Next]_vars

-----------------------------------------------------------------------------
TypeOK ==
    /\ seq \in 0 .. MaxExecutions
    /\ execution \in [Id -> Execution]
    /\ listed \subseteq 0 .. seq - 1
    /\ run \in [Id -> Run \cup {None}]
    /\ history \in [Id -> History \cup {None}]
    /\ tracker \in [Id -> {"off", "source", "waiting", "asked", "asset"}]
    /\ ready \in BOOLEAN
    /\ bus \subseteq Event
    /\ window \in [Window -> [id : Id, at : Nat] \cup {None}]
    /\ savedExecution \in [Id -> Execution \cup {None}]
    /\ savedHistory \in [Id -> History \cup {None}]
    /\ sends \in [Id -> Seq(Nat)]
    /\ proven \in [Id -> SUBSET Nat]
    /\ arrived \in [Id -> SUBSET Chain] /\ lost \in [Id -> SUBSET Chain]
    /\ failed \subseteq Id
    /\ back \in [Id -> Nat]
    /\ ends \in 0 .. MaxEnds

\* A transaction is sent once, whatever windows, events and late answers come
\* between its signature, its broadcast and its trace; once more, at most, for
\* each end of the background that brought its execution back as it was earlier.
SentOnce ==
    \A e \in Id : \A i \in DOMAIN sends[e] : sends[e][i] <= 1 + back[e]

\* A transaction is sent only when all those before it were confirmed, also when
\* the user signs it in a window that fetched the execution long ago, and when
\* the background has started with an older record of it.
SentInOrder ==
    \A e \in Id : \A i \in DOMAIN sends[e] :
       sends[e][i] > 0 => 1 .. i - 1 \subseteq proven[e]

\* A transaction is sent only on a chain that the swap page said it can be sent
\* on, or where the tracker has said the funds are.
SentWhereArrived ==
    \A e \in Id : \A i \in DOMAIN sends[e] :
       sends[e][i] > 0 =>
          LET p == execution[e].plan IN p.chains[i] \in p.executable \cup arrived[e]

\* What the tracker has told of a chain since the background started reaches the
\* execution, told while the executor starts too, and so does what was told
\* before and is in the record that the background started with.
ArrivalIsKnown ==
    \A e \in listed :
       \A c \in arrived[e] \ lost[e] :
          \/ c \in execution[e].executable
          \/ \E v \in bus : v.type = "executable" /\ v.id = e /\ c \in v.chains

\* A history that waits for an execution which is gone and has not failed: the
\* swap is displayed as unfinished for ever.
Orphan(e) == Linked(e) /\ e \notin listed \cup failed

\* No step but the end of the background leaves such a history, whatever ages the
\* executions and the histories have that it started with.
LinkIsLive == [][ ends' = ends => \A e \in Id : Orphan(e)' => Orphan(e) ]_vars

\* An execution that waits is found by the user: it has a history.
BlockedWasRecorded ==
    \A e \in listed : execution[e].status = "blocked" => execution[e].recorded

\* What cleanupOldExecutions() says of an execution that ran when the background
\* ended: it becomes FAILED (tx-executor/service.ts:1076).  One whose transaction
\* was on its way to the chain is not met again, to be signed once more.
InterruptedIsOver ==
    [][ ends' # ends => \A e \in Id :
          run[e] # None /\ run[e].phase = "traces" => e \notin listed' ]_vars
=============================================================================
