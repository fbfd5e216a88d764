---------------------------- MODULE TxExecutorInv ----------------------------
(***************************************************************************)
(* The inductive invariant of TxExecutor from which its safety follows.    *)
(* TxExecutorProofs proves it.                                             *)
(***************************************************************************)
EXTENDS TxExecutor

\* All transactions before the i-th were confirmed at some time, which an older
\* record of the execution may not know.
AllBefore(e, i) == \A j \in 1 .. i - 1 : j \in proven[e]

\* An execution that nobody has asked for has left no trace.
Fresh ==
    \A e \in Id : e >= seq =>
       /\ e \notin listed /\ run[e] = None /\ history[e] = None /\ arrived[e] = {}
       /\ savedExecution[e] = None /\ savedHistory[e] = None
       /\ ~execution[e].recorded
       /\ \A i \in 1 .. Len(sends[e]) : sends[e][i] = 0
       /\ \A v \in bus : v.id # e
       /\ execution[e].executable = {}

Lengths ==
    \A e \in Id : /\ Len(sends[e]) = Len(execution[e].plan.chains)
                  /\ e < seq => Len(execution[e].txs) = Len(execution[e].plan.chains)

\* What waits has nothing before it that was not confirmed.
BlockedInOrder ==
    \A e \in Id : \A i \in 1 .. Len(execution[e].txs) :
       execution[e].txs[i] = "blocked" => AllBefore(e, i)

\* An execution under way is not that of a second caller, and stands where it can.
RunsSound ==
    \A e \in Id : run[e] # None =>
       /\ execution[e].status = "processing"
       /\ run[e].at \in 1 .. Len(execution[e].txs)
       /\ AllBefore(e, run[e].at)
       /\ ~execution[e].recorded => e \in listed
       /\ run[e].phase # "starts" =>
            /\ execution[e].txs[run[e].at] \in {"pending", "blocked"}
            /\ execution[e].plan.chains[run[e].at] \in execution[e].executable

\* A window shows a transaction whose turn has come, if it has not passed.
WindowsSound ==
    \A w \in Window : window[w] # None =>
       /\ window[w].id < seq
       /\ window[w].at \in 1 .. Len(execution[window[w].id].txs)
       /\ AllBefore(window[w].id, window[w].at)

\* An execution in the map runs or waits, and none of its transactions failed.
ListedSound ==
    \A e \in Id :
       /\ e \in listed => /\ execution[e].status \in {"processing", "blocked"}
                          /\ execution[e].status = "processing" => run[e] # None
       /\ e \in listed \/ run[e] # None =>
            \A i \in 1 .. Len(execution[e].txs) : execution[e].txs[i] # "failed"

\* A transaction has its result, or is being traced, or nobody will take it up.
Spent(e, i) ==
    \/ execution[e].txs[i] \in {"confirmed", "failed"}
    \/ run[e] # None /\ run[e].at = i /\ run[e].phase = "traces"
    \/ run[e] = None /\ e \notin listed

\* What was sent as often as it can be is spent; every time, it was in its turn
\* and where the funds were.
SentSound ==
    \A e \in Id : \A i \in 1 .. Len(sends[e]) :
       /\ sends[e][i] <= 1 + back[e]
       /\ sends[e][i] > 0 =>
            /\ AllBefore(e, i)
            /\ execution[e].plan.chains[i] \in execution[e].plan.executable \cup arrived[e]
       /\ sends[e][i] = 1 + back[e] => Spent(e, i)

\* What is executable was said to be by the page or by the tracker.
ExecutableSound ==
    /\ \A e \in Id : execution[e].executable
                       \subseteq execution[e].plan.executable \cup arrived[e]
    /\ \A v \in bus : v.type = "executable" => v.chains \subseteq arrived[v.id]

\* A swap has one history, and what tells of its removal comes after that.
HistorySound ==
    /\ \A e \in Id : ~execution[e].recorded => history[e] = None /\ savedHistory[e] = None
    /\ \A v \in bus : v.type = "remove" => history[v.id] = None /\ execution[v.id].recorded

\* A record in the storage, of whatever age, is one of this execution that waited.
Stored(e, x) ==
    /\ x.plan = execution[e].plan /\ x.status = "blocked" /\ x.recorded
    /\ Len(x.txs) = Len(x.plan.chains)
    /\ \A i \in 1 .. Len(x.txs) :
          x.txs[i] # "failed" /\ (x.txs[i] = "blocked" => AllBefore(e, i))
    /\ x.executable \subseteq x.plan.executable \cup arrived[e]

SavedSound == \A e \in Id : savedExecution[e] # None => Stored(e, savedExecution[e])

ExecInv ==
    /\ TypeOK /\ Fresh /\ Lengths /\ BlockedInOrder /\ RunsSound /\ WindowsSound
    /\ ListedSound /\ SentSound /\ ExecutableSound /\ HistorySound /\ SavedSound
    /\ ArrivalIsKnown

-----------------------------------------------------------------------------
(* FoundInv: an execution that comes to wait has been recorded.            *)

\* recordHistoryIfNeeded() finds a transaction for the history.
Earned(x) ==
    \E i \in DOMAIN x.txs : x.plan.chains[i] \in x.executable /\ x.txs[i] = "confirmed"

\* The first transaction is not blocked.
FirstGoes(x) ==
    /\ x.plan.chains[1] \in x.executable
    /\ PreventAutoSign(x.plan) => 1 \in x.signed \/ x.txs[1] = "confirmed"

\* When a run stops to wait, the execution has a history or gets one.
Finds(x, at) ==
    x.recorded \/ (x.historyData /\ (Earned(x) \/ (at = 1 /\ FirstGoes(x))))

\* A transaction that waits, or has waited until its run came back to it.
BlockedTxRecorded ==
    \A e \in Id : \A i \in DOMAIN execution[e].txs :
       execution[e].txs[i] = "blocked" => execution[e].recorded

FoundInv ==
    /\ \A e \in Id : run[e] # None => Finds(execution[e], run[e].at)
    /\ BlockedWasRecorded /\ BlockedTxRecorded
=============================================================================
