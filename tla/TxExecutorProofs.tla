--------------------------- MODULE TxExecutorProofs ---------------------------
(***************************************************************************)
(* ExecInv is an invariant of TxExecutor for any plans, windows, chains    *)
(* and bounds, and with it what TxExecutor promises.                       *)
(***************************************************************************)
EXTENDS TxExecutorInv, SequenceTheorems, TLAPS

USE ExecutorAssumption

-----------------------------------------------------------------------------
(* Records and sequences. *)

LEMMA PlanType ==
    ASSUME NEW p \in Plans
    PROVE  /\ p.chains \in Seq(Chain) /\ p.route \in Seq(Chain)
           /\ Len(p.chains) \in Nat /\ Len(p.chains) > 0
           /\ DOMAIN p.chains = 1 .. Len(p.chains)
           /\ Len(p.route) \in Nat /\ DOMAIN p.route = 1 .. Len(p.route)
           /\ p.signed \subseteq Nat /\ p.executable \subseteq Chain
           /\ \A i \in 1 .. Len(p.chains) : p.chains[i] \in Chain
           /\ \A i \in 1 .. Len(p.route) : p.route[i] \in Chain
           /\ \A i \in p.done : 1 .. i \subseteq p.done
<1>1. p \in Plan OBVIOUS
<1>2. p.chains \in Seq(Chain) /\ p.route \in Seq(Chain) BY <1>1 DEF Plan
<1> QED BY <1>1, <1>2, LenProperties DEF Plan

\* Functions on an initial segment are sequences.
LEMMA Segment ==
    ASSUME NEW S, NEW n \in Nat, NEW f \in [1 .. n -> S]
    PROVE  f \in Seq(S) /\ Len(f) = n /\ DOMAIN f = 1 .. n
OBVIOUS

LEMMA ExecutionType ==
    ASSUME TypeOK, NEW e \in Id
    PROVE  /\ execution[e] \in Execution
           /\ execution[e].plan \in Plans
           /\ execution[e].txs \in Seq(TxStatus)
           /\ Len(execution[e].txs) \in Nat
           /\ DOMAIN execution[e].txs = 1 .. Len(execution[e].txs)
           /\ \A i \in 1 .. Len(execution[e].txs) : execution[e].txs[i] \in TxStatus
           /\ execution[e].status \in {"none", "processing", "blocked"}
           /\ execution[e].signed \subseteq Nat /\ execution[e].executable \subseteq Chain
           /\ execution[e].historyData \in BOOLEAN /\ execution[e].recorded \in BOOLEAN
           /\ sends[e] \in Seq(Nat) /\ Len(sends[e]) \in Nat
           /\ DOMAIN sends[e] = 1 .. Len(sends[e])
           /\ \A i \in 1 .. Len(sends[e]) : sends[e][i] \in Nat
<1>1. execution[e] \in Execution /\ sends[e] \in Seq(Nat) BY DEF TypeOK
<1>2. execution[e].txs \in Seq(TxStatus) BY <1>1 DEF Execution
<1> QED BY <1>1, <1>2, LenProperties DEF Execution

LEMMA NewType ==
    ASSUME NEW p \in Plans
    PROVE  /\ New(p) \in Execution
           /\ New(p).plan = p /\ New(p).status = "processing"
           /\ Len(New(p).txs) = Len(p.chains)
           /\ \A i \in 1 .. Len(p.chains) :
                 New(p).txs[i] = IF i \in p.done THEN "confirmed" ELSE "pending"
           /\ New(p).executable = p.executable /\ New(p).recorded = FALSE
<1> DEFINE f == [i \in 1 .. Len(p.chains) |-> IF i \in p.done THEN "confirmed" ELSE "pending"]
<1>1. f \in [1 .. Len(p.chains) -> TxStatus] BY PlanType DEF TxStatus
<1>2. f \in Seq(TxStatus) /\ Len(f) = Len(p.chains) BY <1>1, Segment, PlanType
<1>3. New(p) = [plan |-> p, status |-> "processing", txs |-> f, signed |-> p.signed,
                executable |-> p.executable, historyData |-> TRUE, recorded |-> FALSE]
  BY PlanType DEF New
<1>4. \A i \in 1 .. Len(p.chains) : f[i] = IF i \in p.done THEN "confirmed" ELSE "pending"
  OBVIOUS
<1> HIDE DEF f
<1> QED BY <1>2, <1>3, <1>4, PlanType DEF Execution

LEMMA MarkedType ==
    ASSUME TypeOK, NEW e \in Id, run[e].at \in 1 .. Len(execution[e].txs),
           NEW status \in TxStatus
    PROVE  LET x == Marked(e, status) IN
           /\ x \in Execution
           /\ x.plan = execution[e].plan /\ x.status = execution[e].status
           /\ Len(x.txs) = Len(execution[e].txs)
           /\ DOMAIN x.txs = 1 .. Len(execution[e].txs)
           /\ \A j \in 1 .. Len(execution[e].txs) :
                 x.txs[j] = IF j = run[e].at THEN status ELSE execution[e].txs[j]
           /\ x.executable = execution[e].executable
           /\ x.historyData = execution[e].historyData /\ x.recorded = execution[e].recorded
<1> DEFINE x == Marked(e, status)
           t == [execution[e].txs EXCEPT ![run[e].at] = status]
<1>1. /\ t \in Seq(TxStatus) /\ Len(t) = Len(execution[e].txs)
      /\ \A j \in 1 .. Len(execution[e].txs) :
            t[j] = IF j = run[e].at THEN status ELSE execution[e].txs[j]
  BY ExecutionType, ExceptSeq
<1>2. DOMAIN t = 1 .. Len(execution[e].txs) BY <1>1, ExecutionType
<1>3. execution[e] \in Execution BY ExecutionType
<1>4. x = [execution[e] EXCEPT !.txs = t, !.signed = @ \ {run[e].at}]
  BY <1>3 DEF Marked, Execution
<1> HIDE DEF t
<1>5. /\ x.txs = t /\ x.plan = execution[e].plan /\ x.status = execution[e].status
      /\ x.executable = execution[e].executable
      /\ x.historyData = execution[e].historyData /\ x.recorded = execution[e].recorded
      /\ x \in Execution
  BY <1>1, <1>3, <1>4, Zenon DEF Execution
<1> HIDE DEF x
<1> QED BY <1>1, <1>2, <1>5 DEF x

-----------------------------------------------------------------------------
(* What the operations of executeTxs() do to an execution. *)

\* The current transaction of e gets a status, and e one.
Changed(e, now, status, recorded) ==
    /\ execution' \in [Id -> Execution]
    /\ \A d \in Id : d # e => execution'[d] = execution[d]
    /\ execution'[e].plan = execution[e].plan
    /\ execution'[e].status = now
    /\ Len(execution'[e].txs) = Len(execution[e].txs)
    /\ \A j \in 1 .. Len(execution[e].txs) :
          execution'[e].txs[j] = IF j = run[e].at THEN status ELSE execution[e].txs[j]
    /\ execution'[e].executable = execution[e].executable
    /\ execution'[e].recorded = recorded

\* The run of e ends; those of others go on.
Stops(e) ==
    /\ run' \in [Id -> Run \cup {None}]
    /\ run'[e] = None
    /\ \A d \in Id : d # e => run'[d] = run[d]

\* It stands at a transaction.
Stands(e, i, phase) ==
    /\ run' \in [Id -> Run \cup {None}]
    /\ run'[e] # None /\ run'[e].at = i /\ run'[e].phase = phase
    /\ \A d \in Id : d # e => run'[d] = run[d]

\* At most the history of e changes.
HistoryOf(e) ==
    /\ history' \in [Id -> History \cup {None}]
    /\ \A d \in Id : d # e => history'[d] = history[d]

LEMMA RunType ==
    ASSUME TypeOK, NEW e \in Id, run[e] # None
    PROVE  /\ run[e] \in Run /\ run[e].at \in Nat
           /\ run[e].phase \in {"starts", "signs", "sends", "traces"}
BY DEF TypeOK, Run

LEMMA HistoryType ==
    ASSUME TypeOK, NEW e \in Id, history[e] # None
    PROVE  /\ history[e] \in History
           /\ history[e].link \in BOOLEAN /\ history[e].reached \in Nat
           /\ history[e].asset \in Chain \cup {None}
           /\ history[e].trackDone \in BOOLEAN /\ history[e].trackError \in BOOLEAN
BY DEF TypeOK, History

LEMMA BeginsStands ==
    ASSUME TypeOK, NEW e \in Id, NEW i \in Nat, NEW given \in Nat, Begins(e, i, given)
    PROVE  Stands(e, i, "starts")
<1> DEFINE r == [at |-> i, given |-> given, phase |-> "starts"]
<1>1. r \in Run BY DEF Run
<1>2. run' = [run EXCEPT ![e] = r] BY DEF Begins
<1>3. r.at = i /\ r.phase = "starts" OBVIOUS
<1> HIDE DEF r
<1> QED BY <1>1, <1>2, <1>3 DEF TypeOK, Stands

LEMMA RecordsHistory ==
    ASSUME TypeOK, NEW e \in Id, NEW x, RecordHistory(e, x)
    PROVE  /\ HistoryOf(e)
           /\ tracker' \in [Id -> {"off", "source", "waiting", "asked", "asset"}]
           /\ NeedsHistory(x) => /\ history'[e] # None
                                 /\ history'[e].link => \E i \in DOMAIN x.txs : x.txs[i] = "blocked"
           /\ ~NeedsHistory(x) => history'[e] = history[e]
<1>1. CASE NeedsHistory(x)
  <2> DEFINE h == NewHistory(x)
  <2>1. h \in History /\ (h.link => \E i \in DOMAIN x.txs : x.txs[i] = "blocked")
    BY DEF NewHistory, History
  <2>2. history' = [history EXCEPT ![e] = h] /\ tracker' = [tracker EXCEPT ![e] = "source"]
    BY <1>1 DEF RecordHistory
  <2> HIDE DEF h
  <2> QED BY <1>1, <2>1, <2>2 DEF TypeOK, HistoryOf
<1>2. CASE ~NeedsHistory(x)
  <2>1. history' = history /\ tracker' = tracker BY <1>2 DEF RecordHistory
  <2> QED BY <1>2, <2>1 DEF TypeOK, HistoryOf
<1> QED BY <1>1, <1>2

LEMMA GoesStands ==
    ASSUME TypeOK, NEW e \in Id, run[e] # None,
           NEW phase \in {"signs", "sends", "traces"}, Goes(e, phase)
    PROVE  /\ Stands(e, run[e].at, phase)
           /\ execution' = execution /\ listed' = listed /\ history' = history
           /\ tracker' = tracker /\ failed' = failed
<1> DEFINE r == [run[e] EXCEPT !.phase = phase]
<1>1. r \in Run /\ r.at = run[e].at /\ r.phase = phase BY RunType DEF Run
<1>2. run' = [run EXCEPT ![e] = r] BY RunType DEF Goes, Run
<1> HIDE DEF r
<1>3. Stands(e, run[e].at, phase)
  <2>1. r # None BY <1>1
  <2> QED BY <1>1, <1>2, <2>1 DEF TypeOK, Stands
<1> QED BY <1>3 DEF Goes, recent

LEMMA CompleteEffect ==
    ASSUME ExecInv, NEW e \in Id, run[e] # None, Complete(e)
    PROVE  /\ \E rec \in BOOLEAN :
                /\ Changed(e, execution[e].status, "confirmed", rec)
                /\ ~rec => ~execution[e].recorded /\ history'[e] = None
           /\ Stops(e) /\ HistoryOf(e)
           /\ tracker' \in [Id -> {"off", "source", "waiting", "asked", "asset"}]
           /\ listed' = listed \ {e}
           /\ execution[e].recorded /\ history[e] = None => history'[e] = None
           /\ history'[e] # None /\ history'[e].link =>
                 /\ ~execution[e].recorded
                 /\ \E i \in DOMAIN execution'[e].txs : execution'[e].txs[i] = "blocked"
<1>1. /\ TypeOK /\ run[e].at \in 1 .. Len(execution[e].txs)
      /\ ~execution[e].recorded => history[e] = None
  BY DEF ExecInv, RunsSound, HistorySound
<1> DEFINE x == Marked(e, "confirmed")
           y == [x EXCEPT !.recorded = @ \/ NeedsHistory(x)]
<1>2. "confirmed" \in TxStatus BY DEF TxStatus
<1>3. /\ x \in Execution
      /\ x.plan = execution[e].plan /\ x.status = execution[e].status
      /\ Len(x.txs) = Len(execution[e].txs)
      /\ \A j \in 1 .. Len(execution[e].txs) :
            x.txs[j] = IF j = run[e].at THEN "confirmed" ELSE execution[e].txs[j]
      /\ x.executable = execution[e].executable
      /\ x.historyData = execution[e].historyData /\ x.recorded = execution[e].recorded
  BY <1>1, <1>2, MarkedType
<1>4. /\ execution' = [execution EXCEPT ![e] = y]
      /\ IF x.recorded /\ history[e] # None
         THEN history' = [history EXCEPT ![e].link = FALSE] /\ tracker' = tracker
         ELSE RecordHistory(e, x)
      /\ listed' = listed \ {e}
      /\ run' = [run EXCEPT ![e] = None]
  BY DEF Complete
<1> HIDE DEF x
<1>5. /\ y \in Execution /\ y.plan = x.plan /\ y.status = x.status /\ y.txs = x.txs
      /\ y.executable = x.executable /\ y.recorded = (x.recorded \/ NeedsHistory(x))
  BY <1>3 DEF Execution
<1> HIDE DEF y
<1>6. Changed(e, execution[e].status, "confirmed", y.recorded)
      /\ execution'[e] = y /\ y.recorded \in BOOLEAN
  BY <1>1, <1>3, <1>4, <1>5 DEF Changed, TypeOK, Execution
<1>7. Stops(e) BY <1>1, <1>4 DEF Stops, TypeOK
<1>8. CASE x.recorded /\ history[e] # None
  <2> DEFINE h == [history[e] EXCEPT !.link = FALSE]
  <2>1. h \in History /\ h.link = FALSE BY <1>1, <1>8, HistoryType DEF History
  <2>2. history' = [history EXCEPT ![e] = h] /\ tracker' = tracker BY <1>4, <1>8
  <2> HIDE DEF h
  <2>3. HistoryOf(e) /\ history'[e] = h BY <1>1, <2>1, <2>2 DEF TypeOK, HistoryOf
  <2> QED BY <1>1, <1>4, <1>5, <1>6, <1>7, <1>8, <2>1, <2>2, <2>3 DEF TypeOK
<1>9. CASE ~(x.recorded /\ history[e] # None)
  <2>1. RecordHistory(e, x) BY <1>4, <1>9
  <2>2. NeedsHistory(x) => ~x.recorded BY DEF NeedsHistory
  <2>3. history[e] = None BY <1>1, <1>3, <1>9
  <2>4. /\ HistoryOf(e)
        /\ tracker' \in [Id -> {"off", "source", "waiting", "asked", "asset"}]
        /\ NeedsHistory(x) => /\ history'[e] # None
                              /\ history'[e].link => \E i \in DOMAIN x.txs : x.txs[i] = "blocked"
        /\ ~NeedsHistory(x) => history'[e] = None
    BY <1>1, <2>1, <2>3, RecordsHistory
  <2>5. ~y.recorded => ~execution[e].recorded /\ history'[e] = None BY <1>3, <1>5, <2>4
  <2>6. history'[e] # None /\ history'[e].link =>
           /\ ~execution[e].recorded
           /\ \E i \in DOMAIN execution'[e].txs : execution'[e].txs[i] = "blocked"
    BY <1>3, <1>5, <1>6, <2>2, <2>4
  <2>7. execution[e].recorded => history'[e] = None BY <1>3, <2>2, <2>4
  <2> QED BY <1>4, <1>6, <1>7, <2>4, <2>5, <2>6, <2>7
<1> QED BY <1>8, <1>9

LEMMA NextEffect ==
    ASSUME ExecInv, NEW e \in Id, run[e] # None, Confirm(e),
           run[e].at < Len(execution[e].txs)
    PROVE  /\ Changed(e, execution[e].status, "confirmed", execution[e].recorded)
           /\ Stands(e, run[e].at + 1, "starts")
           /\ listed' = listed /\ history' = history /\ tracker' = tracker
<1>1. TypeOK /\ run[e].at \in 1 .. Len(execution[e].txs) BY DEF ExecInv, RunsSound
<1> DEFINE x == Marked(e, "confirmed")
<1>2. "confirmed" \in TxStatus BY DEF TxStatus
<1>3. /\ x \in Execution
      /\ x.plan = execution[e].plan /\ x.status = execution[e].status
      /\ Len(x.txs) = Len(execution[e].txs)
      /\ \A j \in 1 .. Len(execution[e].txs) :
            x.txs[j] = IF j = run[e].at THEN "confirmed" ELSE execution[e].txs[j]
      /\ x.executable = execution[e].executable /\ x.recorded = execution[e].recorded
  BY <1>1, <1>2, MarkedType
<1>4. /\ execution' = [execution EXCEPT ![e] = x]
      /\ Begins(e, run[e].at + 1, run[e].given)
      /\ listed' = listed /\ history' = history /\ tracker' = tracker
  BY DEF Confirm, recent
<1> HIDE DEF x
<1>5. run[e].at + 1 \in Nat /\ run[e].given \in Nat BY <1>1 DEF TypeOK, Run
<1>6. Stands(e, run[e].at + 1, "starts") BY <1>1, <1>4, <1>5, BeginsStands
<1> QED BY <1>1, <1>3, <1>4, <1>6 DEF Changed, TypeOK

LEMMA FailEffect ==
    ASSUME ExecInv, NEW e \in Id, run[e] # None, Fail(e)
    PROVE  /\ Changed(e, execution[e].status, "failed", execution[e].recorded)
           /\ Stops(e) /\ HistoryOf(e) /\ tracker' = tracker
           /\ listed' = listed \ {e} /\ failed' = failed \cup {e}
           /\ history[e] = None => history'[e] = None
<1>1. TypeOK /\ run[e].at \in 1 .. Len(execution[e].txs) BY DEF ExecInv, RunsSound
<1> DEFINE x == Marked(e, "failed")
<1>2. "failed" \in TxStatus BY DEF TxStatus
<1>3. /\ x \in Execution
      /\ x.plan = execution[e].plan /\ x.status = execution[e].status
      /\ Len(x.txs) = Len(execution[e].txs)
      /\ \A j \in 1 .. Len(execution[e].txs) :
            x.txs[j] = IF j = run[e].at THEN "failed" ELSE execution[e].txs[j]
      /\ x.executable = execution[e].executable /\ x.recorded = execution[e].recorded
  BY <1>1, <1>2, MarkedType
<1>4. /\ execution' = [execution EXCEPT ![e] = x]
      /\ run' = [run EXCEPT ![e] = None]
      /\ listed' = listed \ {e} /\ failed' = failed \cup {e} /\ tracker' = tracker
  BY DEF Fail
<1> HIDE DEF x
<1>5. HistoryOf(e) /\ (history[e] = None => history'[e] = None)
  <2> DEFINE h == [history[e] EXCEPT !.trackError = TRUE, !.trackDone = TRUE]
  <2>1. CASE execution[e].recorded /\ history[e] # None
    <3>1. h \in History BY <1>1, <2>1, HistoryType DEF History
    <3>2. history' = [history EXCEPT ![e] = h]
      <4>1. history[e] \in History BY <1>1, <2>1, HistoryType
      <4> QED BY <1>1, <2>1, <4>1 DEF Fail, History, TypeOK
    <3> HIDE DEF h
    <3> QED BY <1>1, <2>1, <3>1, <3>2 DEF TypeOK, HistoryOf
  <2>2. CASE ~(execution[e].recorded /\ history[e] # None)
    <3>1. history' = history BY <2>2 DEF Fail
    <3> QED BY <1>1, <3>1 DEF TypeOK, HistoryOf
  <2> QED BY <2>1, <2>2
<1>6. Stops(e) BY <1>1, <1>4 DEF Stops, TypeOK
<1> QED BY <1>1, <1>3, <1>4, <1>5, <1>6 DEF Changed, TypeOK

LEMMA BlockEffect ==
    ASSUME ExecInv, NEW e \in Id, run[e] # None, Block(e)
    PROVE  /\ \E rec \in BOOLEAN :
                /\ Changed(e, "blocked", "blocked", rec)
                /\ ~rec => ~execution[e].recorded /\ history'[e] = None
                /\ execution[e].recorded => rec /\ history'[e] = history[e]
           /\ Stops(e) /\ HistoryOf(e)
           /\ tracker' \in [Id -> {"off", "source", "waiting", "asked", "asset"}]
           /\ listed' = listed
<1>1. /\ TypeOK /\ run[e].at \in 1 .. Len(execution[e].txs)
      /\ ~execution[e].recorded => history[e] = None
  BY DEF ExecInv, RunsSound, HistorySound
<1> DEFINE m == Marked(e, "blocked")
           x == [m EXCEPT !.status = "blocked"]
           y == [x EXCEPT !.recorded = @ \/ NeedsHistory(x), !.historyData = FALSE]
<1>2. "blocked" \in TxStatus BY DEF TxStatus
<1>3. /\ m \in Execution
      /\ m.plan = execution[e].plan
      /\ Len(m.txs) = Len(execution[e].txs)
      /\ \A j \in 1 .. Len(execution[e].txs) :
            m.txs[j] = IF j = run[e].at THEN "blocked" ELSE execution[e].txs[j]
      /\ m.executable = execution[e].executable /\ m.recorded = execution[e].recorded
  BY <1>1, <1>2, MarkedType
<1>4. /\ execution' = [execution EXCEPT ![e] = y]
      /\ RecordHistory(e, x)
      /\ listed' = listed
      /\ run' = [run EXCEPT ![e] = None]
  BY DEF Block
<1> HIDE DEF m
<1>5. /\ x \in Execution /\ x.plan = m.plan /\ x.status = "blocked" /\ x.txs = m.txs
      /\ x.executable = m.executable /\ x.recorded = m.recorded
  BY <1>3 DEF Execution
<1> HIDE DEF x
<1>6. /\ y \in Execution /\ y.plan = x.plan /\ y.status = "blocked" /\ y.txs = x.txs
      /\ y.executable = x.executable /\ y.recorded = (x.recorded \/ NeedsHistory(x))
  BY <1>5 DEF Execution
<1> HIDE DEF y
<1>7. Changed(e, "blocked", "blocked", y.recorded) /\ y.recorded \in BOOLEAN
  BY <1>1, <1>3, <1>4, <1>5, <1>6 DEF Changed, TypeOK, Execution
<1>8. Stops(e) BY <1>1, <1>4 DEF Stops, TypeOK
<1>9. /\ HistoryOf(e)
      /\ tracker' \in [Id -> {"off", "source", "waiting", "asked", "asset"}]
      /\ ~NeedsHistory(x) => history'[e] = history[e]
  BY <1>1, <1>4, RecordsHistory
<1>10. NeedsHistory(x) => ~x.recorded BY DEF NeedsHistory
<1> QED BY <1>1, <1>3, <1>4, <1>5, <1>6, <1>7, <1>8, <1>9, <1>10

-----------------------------------------------------------------------------
(* A transaction of e gets its result, or e stops at it. *)

\* What a result leaves alone; what was confirmed is kept in mind.
Frame(e) ==
    /\ seq' = seq /\ bus' = bus /\ window' = window /\ arrived' = arrived
    /\ ready' = ready /\ lost' = lost /\ back' = back /\ ends' = ends
    /\ savedExecution' = savedExecution /\ savedHistory' = savedHistory
    /\ proven' = [proven EXCEPT ![e] = @ \cup Confirmed(execution'[e])]

\* Nothing is sent, or the current transaction of e.
Sends(e) ==
    /\ sends' \in [Id -> Seq(Nat)]
    /\ \A d \in Id :
         /\ Len(sends'[d]) = Len(sends[d])
         /\ \A i \in 1 .. Len(sends[d]) :
               \/ sends'[d][i] = sends[d][i]
               \/ d = e /\ i = run[e].at /\ run[e].phase = "sends"
                  /\ sends'[d][i] = sends[d][i] + 1

SendsNothing == sends' = sends

\* The results of executePendingTx(), with what executeTxs() does about each.
Result(e, now, status, rec) ==
    /\ Changed(e, now, status, rec) /\ rec \in BOOLEAN
    /\ HistoryOf(e)
    /\ tracker' \in [Id -> {"off", "source", "waiting", "asked", "asset"}]
    /\ execution[e].recorded => rec
    /\ ~rec => history'[e] = None
    /\ execution[e].recorded /\ history[e] = None => history'[e] = None
    /\ \/ /\ status = "confirmed" /\ now = "processing" /\ SendsNothing
          /\ run[e].at < Len(execution[e].txs) /\ Stands(e, run[e].at + 1, "starts")
          /\ listed' = listed /\ failed' = failed
          /\ rec = execution[e].recorded /\ history'[e] = history[e]
       \/ /\ status = "confirmed" /\ now = "processing" /\ SendsNothing /\ Stops(e)
          /\ listed' = listed \ {e} /\ failed' = failed
          /\ ~(history'[e] # None /\ history'[e].link)
       \/ /\ status = "failed" /\ now = "processing" /\ Sends(e) /\ Stops(e)
          /\ execution[e].txs[run[e].at] \in {"pending", "blocked"}
          /\ execution[e].plan.chains[run[e].at] \in execution[e].executable
          /\ listed' = listed \ {e} /\ failed' = failed \cup {e}
       \/ /\ status = "blocked" /\ now = "blocked" /\ SendsNothing /\ Stops(e)
          /\ execution[e].txs[run[e].at] \in {"pending", "blocked"}
          /\ run[e].phase = "starts"
          /\ listed' = listed /\ failed' = failed
          /\ execution[e].recorded => history'[e] = history[e]

\* AllBefore after the step.
BeforeNext(e, i) == \A j \in 1 .. i - 1 : j \in proven'[e]

\* No history is left waiting for an execution that is gone.
NoNewOrphan == \A e \in Id : Orphan(e)' => Orphan(e)

LEMMA Proves ==
    ASSUME TypeOK, NEW e \in Id, Frame(e), execution'[e] \in Execution
    PROVE  /\ proven' \in [Id -> SUBSET Nat]
           /\ \A d \in Id : /\ proven[d] \subseteq proven'[d]
                            /\ \A i \in Nat : AllBefore(d, i) => BeforeNext(d, i)
           /\ \A i \in 1 .. Len(execution'[e].txs) :
                 execution'[e].txs[i] = "confirmed" => i \in proven'[e]
<1> DEFINE x == execution'[e]
<1>1. x.txs \in Seq(TxStatus) BY DEF Execution
<1>2. DOMAIN x.txs = 1 .. Len(x.txs) /\ Len(x.txs) \in Nat BY <1>1, LenProperties
<1>3. /\ Confirmed(x) \subseteq Nat
      /\ \A i \in 1 .. Len(x.txs) : x.txs[i] = "confirmed" => i \in Confirmed(x)
  BY <1>2 DEF Confirmed
<1>4. proven' = [proven EXCEPT ![e] = proven[e] \cup Confirmed(x)] BY DEF Frame
<1> HIDE DEF x
<1>5. proven \in [Id -> SUBSET Nat] BY DEF TypeOK
<1>6. /\ proven' \in [Id -> SUBSET Nat] /\ proven'[e] = proven[e] \cup Confirmed(x)
      /\ \A d \in Id : d # e => proven'[d] = proven[d]
  BY <1>3, <1>4, <1>5
<1>7. \A d \in Id : proven[d] \subseteq proven'[d] BY <1>6
<1>8. \A d \in Id : \A i \in Nat : AllBefore(d, i) => BeforeNext(d, i)
  BY <1>7 DEF AllBefore, BeforeNext
<1> QED BY <1>3, <1>6, <1>7, <1>8 DEF x

\* The records in the storage are sound as long as nothing is forgotten.
LEMMA SavedStays ==
    ASSUME SavedSound, savedExecution' = savedExecution,
           \A d \in Id : /\ execution'[d].plan = execution[d].plan
                         /\ arrived[d] \subseteq arrived'[d]
                         /\ proven[d] \subseteq proven'[d]
    PROVE  SavedSound'
<1> SUFFICES ASSUME NEW d \in Id, savedExecution[d] # None
             PROVE  Stored(d, savedExecution[d])'
  BY DEF SavedSound, Stored, AllBefore
<1>1. Stored(d, savedExecution[d]) BY DEF SavedSound
<1> QED BY <1>1 DEF Stored, AllBefore

LEMMA ResultTypes ==
    ASSUME ExecInv, NEW e \in Id, Frame(e), run[e] # None, NEW now, NEW status, NEW rec,
           Result(e, now, status, rec)
    PROVE  TypeOK'
<1>1. TypeOK BY DEF ExecInv
<1>2. /\ run' \in [Id -> Run \cup {None}] /\ sends' \in [Id -> Seq(Nat)]
      /\ execution' \in [Id -> Execution] /\ history' \in [Id -> History \cup {None}]
      /\ listed' \subseteq listed /\ failed' \subseteq Id
  BY <1>1 DEF Result, Changed, HistoryOf, Stands, Stops, Sends, SendsNothing, TypeOK
<1>3. proven' \in [Id -> SUBSET Nat] BY <1>1, <1>2, Proves
<1> QED BY <1>1, <1>2, <1>3 DEF Frame, Result, TypeOK

\* A status changes only where the run stands.
LEMMA ResultTxs ==
    ASSUME ExecInv, NEW e \in Id, Frame(e), run[e] # None, NEW now, NEW status, NEW rec,
           Result(e, now, status, rec)
    PROVE  /\ run[e].at \in 1 .. Len(execution[e].txs)
           /\ \A d \in Id :
                /\ Len(execution'[d].txs) = Len(execution[d].txs)
                /\ Len(execution[d].txs) \in Nat /\ Len(sends[d]) \in Nat
                /\ execution'[d].plan = execution[d].plan
                /\ execution'[d].executable = execution[d].executable
                /\ Len(sends'[d]) = Len(sends[d])
                /\ \A j \in 1 .. Len(execution[d].txs) :
                     ~(d = e /\ j = run[e].at) => execution'[d].txs[j] = execution[d].txs[j]
                /\ proven[d] \subseteq proven'[d]
                /\ \A i \in Nat : AllBefore(d, i) => BeforeNext(d, i)
           /\ execution'[e].txs[run[e].at] = status
           /\ status = "confirmed" => run[e].at \in proven'[e]
           /\ AllBefore(e, run[e].at)
           /\ status \in {"confirmed", "failed", "blocked"}
<1>1. /\ TypeOK /\ run[e].at \in 1 .. Len(execution[e].txs) /\ AllBefore(e, run[e].at)
  BY DEF ExecInv, RunsSound
<1>2. \A d \in Id : Len(execution[d].txs) \in Nat /\ Len(sends[d]) \in Nat
  BY <1>1, ExecutionType
<1>3. /\ status \in {"confirmed", "failed", "blocked"}
      /\ \A d \in Id : Len(sends'[d]) = Len(sends[d])
  BY <1>1 DEF Result, Sends, SendsNothing
<1>4. \A d \in Id :
         /\ Len(execution'[d].txs) = Len(execution[d].txs)
         /\ execution'[d].plan = execution[d].plan
         /\ execution'[d].executable = execution[d].executable
         /\ \A j \in 1 .. Len(execution[d].txs) :
              ~(d = e /\ j = run[e].at) => execution'[d].txs[j] = execution[d].txs[j]
  BY <1>1 DEF Result, Changed
<1>5. execution'[e].txs[run[e].at] = status /\ execution'[e] \in Execution
  BY <1>1 DEF Result, Changed
<1>6. /\ \A d \in Id : /\ proven[d] \subseteq proven'[d]
                       /\ \A i \in Nat : AllBefore(d, i) => BeforeNext(d, i)
      /\ \A i \in 1 .. Len(execution'[e].txs) :
            execution'[e].txs[i] = "confirmed" => i \in proven'[e]
  BY <1>1, <1>5, Proves
<1>7. status = "confirmed" => run[e].at \in proven'[e] BY <1>1, <1>4, <1>5, <1>6
<1> QED BY <1>1, <1>2, <1>3, <1>4, <1>5, <1>6, <1>7

LEMMA ResultPreserves ==
    ASSUME ExecInv, NEW e \in Id, Frame(e), run[e] # None, NEW now, NEW status, NEW rec,
           Result(e, now, status, rec)
    PROVE  ExecInv' /\ NoNewOrphan
<1>1. TypeOK' /\ TypeOK BY ResultTypes DEF ExecInv
<1> DEFINE at == run[e].at
<1>2. /\ at \in 1 .. Len(execution[e].txs)
      /\ \A d \in Id :
           /\ Len(execution'[d].txs) = Len(execution[d].txs)
           /\ Len(execution[d].txs) \in Nat /\ Len(sends[d]) \in Nat
           /\ execution'[d].plan = execution[d].plan
           /\ execution'[d].executable = execution[d].executable
           /\ Len(sends'[d]) = Len(sends[d])
           /\ \A j \in 1 .. Len(execution[d].txs) :
                ~(d = e /\ j = at) => execution'[d].txs[j] = execution[d].txs[j]
           /\ proven[d] \subseteq proven'[d]
           /\ \A i \in Nat : AllBefore(d, i) => BeforeNext(d, i)
      /\ execution'[e].txs[at] = status
      /\ status = "confirmed" => at \in proven'[e]
      /\ AllBefore(e, at)
      /\ status \in {"confirmed", "failed", "blocked"}
  BY ResultTxs
<1>3. /\ \A d \in Id : d # e => /\ execution'[d] = execution[d] /\ run'[d] = run[d]
                               /\ history'[d] = history[d]
                               /\ (d \in listed' <=> d \in listed)
                               /\ (d \in failed' <=> d \in failed)
                               /\ \A i \in 1 .. Len(sends[d]) : sends'[d][i] = sends[d][i]
      /\ listed' \subseteq listed /\ failed \subseteq failed'
      /\ execution'[e].status = now /\ execution'[e].recorded = rec
      /\ seq' = seq /\ bus' = bus /\ window' = window /\ arrived' = arrived
      /\ lost' = lost /\ back' = back
      /\ savedExecution' = savedExecution /\ savedHistory' = savedHistory
  BY <1>1 DEF Result, Changed, HistoryOf, Stops, Stands, Frame, Sends, SendsNothing, TypeOK
<1>4. /\ Fresh /\ Lengths /\ BlockedInOrder /\ RunsSound /\ WindowsSound /\ ListedSound
      /\ SentSound /\ ExecutableSound /\ HistorySound /\ SavedSound /\ ArrivalIsKnown
      /\ e < seq /\ seq \in Nat /\ e \in Nat
  BY <1>1 DEF ExecInv, Fresh, Id, TypeOK
<1> HIDE DEF at
<1>5. Fresh' BY <1>2, <1>3, <1>4 DEF Fresh
<1>6. Lengths' BY <1>2, <1>3, <1>4 DEF Lengths
<1>7. BlockedInOrder'
  <2> SUFFICES ASSUME NEW d \in Id, NEW i \in 1 .. Len(execution[d].txs),
                      execution'[d].txs[i] = "blocked"
               PROVE  BeforeNext(d, i)
    BY <1>2 DEF BlockedInOrder, AllBefore, BeforeNext
  <2>0. i \in Nat BY <1>2
  <2>1. CASE d = e /\ i = at BY <1>2, <2>0, <2>1
  <2>2. CASE ~(d = e /\ i = at) BY <1>2, <1>4, <2>0, <2>2 DEF BlockedInOrder
  <2> QED BY <2>1, <2>2
<1>8. RunsSound'
  <2> SUFFICES ASSUME NEW d \in Id, run'[d] # None
               PROVE  /\ execution'[d].status = "processing"
                      /\ run'[d].at \in 1 .. Len(execution'[d].txs)
                      /\ BeforeNext(d, run'[d].at)
                      /\ ~execution'[d].recorded => d \in listed'
                      /\ run'[d].phase # "starts" =>
                           /\ execution'[d].txs[run'[d].at] \in {"pending", "blocked"}
                           /\ execution'[d].plan.chains[run'[d].at] \in execution'[d].executable
    BY DEF RunsSound, AllBefore, BeforeNext
  <2>1. CASE d # e
    <3>1. run[d].at \in 1 .. Len(execution[d].txs) /\ run[d].at \in Nat
      BY <1>2, <1>3, <1>4, <2>1 DEF RunsSound
    <3>2. AllBefore(d, run[d].at) BY <1>3, <1>4, <2>1 DEF RunsSound
    <3>3. BeforeNext(d, run[d].at) BY <1>2, <3>1, <3>2
    <3>4. /\ execution[d].status = "processing"
          /\ ~execution[d].recorded => d \in listed
          /\ run[d].phase # "starts" =>
               /\ execution[d].txs[run[d].at] \in {"pending", "blocked"}
               /\ execution[d].plan.chains[run[d].at] \in execution[d].executable
      BY <1>3, <1>4, <2>1 DEF RunsSound
    <3>5. execution'[d] = execution[d] /\ run'[d] = run[d] /\ (d \in listed' <=> d \in listed)
      BY <1>3, <2>1
    <3> QED BY <3>1, <3>3, <3>4, <3>5
  <2>2. CASE d = e
    <3>1. /\ status = "confirmed" /\ now = "processing"
          /\ at < Len(execution[e].txs) /\ Stands(e, at + 1, "starts")
          /\ listed' = listed /\ rec = execution[e].recorded
      BY <2>2 DEF Result, Stops, at
    <3>2. run'[e].at = at + 1 /\ run'[e].phase = "starts" BY <3>1 DEF Stands
    <3>3. at + 1 \in 1 .. Len(execution'[e].txs) BY <1>2, <3>1
    <3>4. BeforeNext(e, at + 1)
      <4>1. at \in Nat /\ BeforeNext(e, at) BY <1>2
      <4> QED BY <1>2, <3>1, <4>1 DEF BeforeNext
    <3> QED BY <1>3, <1>4, <2>2, <3>1, <3>2, <3>3, <3>4 DEF RunsSound
  <2> QED BY <2>1, <2>2
<1>9. WindowsSound'
  <2> SUFFICES ASSUME NEW w \in Window, window[w] # None
               PROVE  /\ window[w].id < seq
                      /\ window[w].at \in 1 .. Len(execution'[window[w].id].txs)
                      /\ BeforeNext(window[w].id, window[w].at)
    BY <1>3 DEF WindowsSound, AllBefore, BeforeNext
  <2>1. /\ window[w].id < seq
        /\ window[w].at \in 1 .. Len(execution[window[w].id].txs)
        /\ AllBefore(window[w].id, window[w].at)
    BY <1>4 DEF WindowsSound
  <2>2. window[w].id \in Id /\ window[w].at \in Nat BY <1>1 DEF TypeOK
  <2> QED BY <1>2, <2>1, <2>2
<1>10. ListedSound'
  <2>1. ASSUME NEW d \in Id, d \in listed'
        PROVE  /\ execution'[d].status \in {"processing", "blocked"}
               /\ execution'[d].status = "processing" => run'[d] # None
    <3>1. CASE d # e BY <1>3, <1>4, <2>1, <3>1 DEF ListedSound
    <3>2. CASE d = e BY <1>3, <2>1, <3>2 DEF Result, Stands
    <3> QED BY <3>1, <3>2
  <2>2. ASSUME NEW d \in Id, d \in listed' \/ run'[d] # None,
               NEW i \in 1 .. Len(execution'[d].txs)
        PROVE  execution'[d].txs[i] # "failed"
    <3>1. CASE d # e
      <4>1. /\ execution'[d] = execution[d]
            /\ d \in listed \/ run[d] # None
        BY <1>3, <2>2, <3>1
      <4> QED BY <1>4, <2>2, <4>1 DEF ListedSound
    <3>2. CASE d = e
      <4>1. status # "failed" BY <2>2, <3>2 DEF Result, Stops
      <4>2. i \in 1 .. Len(execution[e].txs) BY <1>2, <2>2, <3>2
      <4>3. execution[e].txs[i] # "failed" BY <1>4, <4>2 DEF ListedSound
      <4> QED BY <1>2, <3>2, <4>1, <4>2, <4>3
    <3> QED BY <3>1, <3>2
  <2> QED BY <2>1, <2>2 DEF ListedSound
<1>11. SentSound'
  <2> SUFFICES ASSUME NEW d \in Id, NEW i \in 1 .. Len(sends[d])
               PROVE  /\ sends'[d][i] <= 1 + back[d]
                      /\ sends'[d][i] > 0 =>
                           /\ BeforeNext(d, i)
                           /\ execution'[d].plan.chains[i]
                                \in execution'[d].plan.executable \cup arrived[d]
                      /\ sends'[d][i] = 1 + back[d] =>
                           \/ execution'[d].txs[i] \in {"confirmed", "failed"}
                           \/ run'[d] # None /\ run'[d].at = i /\ run'[d].phase = "traces"
                           \/ run'[d] = None /\ d \notin listed'
    BY <1>2, <1>3 DEF SentSound, Spent, AllBefore, BeforeNext
  <2>0. /\ d < seq => i \in 1 .. Len(execution[d].txs)
        /\ i \in Nat /\ back[d] \in Nat
    <3>1. d < seq => i \in 1 .. Len(execution[d].txs) BY <1>4 DEF Lengths
    <3>2. i \in Nat BY <1>2
    <3>3. back[d] \in Nat BY <1>1 DEF TypeOK
    <3> QED BY <3>1, <3>2, <3>3
  <2>1. sends[d][i] \in Nat /\ sends[d][i] <= 1 + back[d]
    BY <1>1, <1>4, ExecutionType DEF SentSound
  <2>2. /\ sends[d][i] > 0 =>
             /\ AllBefore(d, i)
             /\ execution[d].plan.chains[i] \in execution[d].plan.executable \cup arrived[d]
        /\ sends[d][i] = 1 + back[d] =>
             \/ execution[d].txs[i] \in {"confirmed", "failed"}
             \/ run[d] # None /\ run[d].at = i /\ run[d].phase = "traces"
             \/ run[d] = None /\ d \notin listed
    BY <1>4 DEF SentSound, Spent
  <2>3. sends[d][i] > 0 => BeforeNext(d, i) BY <1>2, <2>0, <2>2
  <2>4. execution'[d].plan = execution[d].plan BY <1>2
  <2>5. CASE d # e
    <3>1. sends'[d][i] = sends[d][i] BY <1>3, <2>5
    <3>2. /\ execution'[d] = execution[d] /\ run'[d] = run[d]
          /\ d \in listed' <=> d \in listed
      BY <1>3, <2>5
    <3> QED BY ONLY <2>1, <2>2, <2>3, <3>1, <3>2
  <2>6. CASE d = e /\ sends'[d][i] = sends[d][i]
    <3>1. sends[e][i] = 1 + back[e] => execution'[e].txs[i] \in {"confirmed", "failed"}
      <4>1. sends[e][i] = 1 + back[e] =>
              \/ execution[e].txs[i] \in {"confirmed", "failed"}
              \/ i = at /\ run[e].phase = "traces"
        BY <2>2, <2>6 DEF at
      <4>2. CASE i # at BY <1>2, <1>4, <2>0, <2>6, <4>1, <4>2
      <4>3. CASE i = at /\ status # "blocked" BY <1>2, <4>3
      <4>4. CASE i = at /\ status = "blocked"
        <5>1. run[e].phase = "starts" /\ execution[e].txs[at] \in {"pending", "blocked"}
          BY <4>4 DEF Result, at
        <5> QED BY <4>1, <4>4, <5>1
      <4> QED BY <1>2, <4>2, <4>3, <4>4
    <3> QED BY ONLY <2>1, <2>2, <2>3, <2>4, <2>6, <3>1
  <2>7. CASE ~(sends'[d][i] = sends[d][i])
    <3>1. /\ d = e /\ i = at /\ status = "failed" /\ sends'[d][i] = sends[d][i] + 1
          /\ run[e].phase = "sends"
          /\ execution[e].txs[at] \in {"pending", "blocked"}
          /\ execution[e].plan.chains[at] \in execution[e].executable
      BY <2>7 DEF Result, SendsNothing, Sends, at
    <3>2. sends[e][i] # 1 + back[e] BY <2>2, <3>1 DEF at
    <3>3. sends'[d][i] <= 1 + back[d] BY <2>0, <2>1, <3>1, <3>2
    <3>4. execution[e].plan.chains[i] \in execution[e].plan.executable \cup arrived[e]
      BY <1>4, <3>1 DEF ExecutableSound
    <3>5. BeforeNext(d, i) BY <1>2, <2>0, <3>1
    <3>6. execution'[d].txs[i] = "failed" BY <1>2, <3>1
    <3> QED BY ONLY <2>4, <3>1, <3>3, <3>4, <3>5, <3>6
  <2> QED BY <2>5, <2>6, <2>7
<1>12. ExecutableSound' BY <1>2, <1>3, <1>4 DEF ExecutableSound
<1>13. HistorySound'
  <2>1. ASSUME NEW d \in Id, ~execution'[d].recorded
        PROVE  history'[d] = None /\ savedHistory'[d] = None
    <3>1. CASE d # e BY <1>3, <1>4, <2>1, <3>1 DEF HistorySound
    <3>2. CASE d = e
      <4>1. ~execution[e].recorded /\ history'[e] = None
        BY <1>3, <2>1, <3>2 DEF Result
      <4> QED BY <1>3, <1>4, <3>2, <4>1 DEF HistorySound
    <3> QED BY <3>1, <3>2
  <2>2. ASSUME NEW v \in bus, v.type = "remove"
        PROVE  history'[v.id] = None /\ execution'[v.id].recorded
    <3>1. v.id \in Id BY <1>1, <2>2 DEF TypeOK, Event
    <3>2. history[v.id] = None /\ execution[v.id].recorded BY <1>4, <2>2 DEF HistorySound
    <3>3. CASE v.id # e BY <1>3, <3>1, <3>2, <3>3
    <3>4. CASE v.id = e BY <1>3, <3>2, <3>4 DEF Result
    <3> QED BY <3>3, <3>4
  <2> QED BY <1>3, <2>1, <2>2 DEF HistorySound
<1>14. SavedSound' BY <1>2, <1>3, <1>4, SavedStays
<1>15. ArrivalIsKnown'
  <2> SUFFICES ASSUME NEW d \in listed', NEW c \in arrived[d] \ lost[d]
               PROVE  \/ c \in execution'[d].executable
                      \/ \E v \in bus : v.type = "executable" /\ v.id = d /\ c \in v.chains
    BY <1>3 DEF ArrivalIsKnown
  <2>1. d \in listed /\ d \in Id BY <1>1, <1>3 DEF TypeOK, Id
  <2>2. \/ c \in execution[d].executable
        \/ \E v \in bus : v.type = "executable" /\ v.id = d /\ c \in v.chains
    <3>1. ArrivalIsKnown BY <1>4
    <3> QED BY ONLY <2>1, <3>1 DEF ArrivalIsKnown
  <2>3. execution'[d].executable = execution[d].executable BY <1>2, <2>1
  <2> QED BY ONLY <2>2, <2>3
<1>16. NoNewOrphan
  <2> SUFFICES ASSUME NEW d \in Id, history'[d] # None, history'[d].link,
                      d \notin listed', d \notin failed'
               PROVE  history[d] # None /\ history[d].link /\ d \notin listed /\ d \notin failed
    BY DEF NoNewOrphan, Orphan, Linked
  <2>1. CASE d # e BY <1>3, <2>1
  <2>2. CASE d = e
    <3>1. status # "failed" BY <2>2 DEF Result
    <3>2. ~(status = "confirmed" /\ Stops(e) /\ listed' = listed \ {e})
      BY <2>2 DEF Result, Stands, Stops
    <3>3. listed' = listed /\ failed' = failed BY <3>1, <3>2 DEF Result
    <3>4. execution[e].recorded
      <4>1. e \notin listed BY <2>2, <3>3
      <4> QED BY <1>4, <4>1 DEF RunsSound
    <3>5. history'[e] = history[e] BY <3>1, <3>2, <3>4 DEF Result
    <3> QED BY <2>2, <3>3, <3>5
  <2> QED BY <2>1, <2>2
<1> QED BY <1>1, <1>5, <1>6, <1>7, <1>8, <1>9, <1>10, <1>11, <1>12, <1>13, <1>14, <1>15, <1>16
        DEF ExecInv

-----------------------------------------------------------------------------
(* executeTxs(): a run goes on, or ends with a result. *)

LEMMA Accepted ==
    ASSUME ExecInv, NEW e \in Id, run[e] # None, run[e].phase = "sends",
           sends' = [sends EXCEPT ![e][run[e].at] = @ + 1]
    PROVE  Sends(e)
<1> DEFINE at == run[e].at
           s == [sends[e] EXCEPT ![at] = sends[e][at] + 1]
<1>1. TypeOK /\ e < seq
      /\ at \in 1 .. Len(sends[e])
  <2>1. TypeOK /\ at \in 1 .. Len(execution[e].txs) BY DEF ExecInv, RunsSound
  <2>2. e < seq BY <2>1 DEF ExecInv, Fresh, Id, TypeOK
  <2> QED BY <2>1, <2>2 DEF ExecInv, Lengths
<1>2. sends[e] \in Seq(Nat) /\ sends[e][at] + 1 \in Nat BY <1>1, ExecutionType, SMTT(20)
<1>3. /\ s \in Seq(Nat) /\ Len(s) = Len(sends[e])
      /\ \A j \in 1 .. Len(sends[e]) : s[j] = IF j = at THEN sends[e][at] + 1 ELSE sends[e][j]
  BY <1>1, <1>2, ExceptSeq
<1>4. sends' = [sends EXCEPT ![e] = s] BY <1>1 DEF TypeOK
<1> HIDE DEF s
<1>5. sends' \in [Id -> Seq(Nat)] /\ sends'[e] = s /\ \A d \in Id : d # e => sends'[d] = sends[d]
  BY <1>1, <1>3, <1>4 DEF TypeOK
<1> QED BY <1>3, <1>5 DEF Sends

LEMMA NotAccepted ==
    ASSUME ExecInv, NEW e, sends' = sends
    PROVE  Sends(e) /\ SendsNothing
BY DEF ExecInv, TypeOK, Sends, SendsNothing

\* A run goes on with its transaction.
Onward(e, phase) ==
    \/ /\ run[e].phase = "starts" /\ phase \in {"signs", "sends"} /\ SendsNothing
       /\ execution[e].txs[run[e].at] \in {"pending", "blocked"}
       /\ execution[e].plan.chains[run[e].at] \in execution[e].executable
    \/ run[e].phase = "signs" /\ phase = "sends" /\ SendsNothing
    \/ run[e].phase = "sends" /\ phase = "traces" /\ Sends(e)

LEMMA OnwardPreserves ==
    ASSUME ExecInv, NEW e \in Id, Frame(e), run[e] # None,
           NEW phase \in {"signs", "sends", "traces"}, Goes(e, phase), Onward(e, phase)
    PROVE  ExecInv' /\ NoNewOrphan
<1>1. TypeOK BY DEF ExecInv
<1>2. /\ run' \in [Id -> Run \cup {None}]
      /\ run'[e] # None /\ run'[e].at = run[e].at /\ run'[e].phase = phase
      /\ \A d \in Id : d # e => run'[d] = run[d]
      /\ execution' = execution /\ listed' = listed /\ history' = history
      /\ tracker' = tracker /\ failed' = failed
      /\ seq' = seq /\ bus' = bus /\ window' = window /\ arrived' = arrived
      /\ ready' = ready /\ lost' = lost /\ back' = back /\ ends' = ends
      /\ savedExecution' = savedExecution /\ savedHistory' = savedHistory
  BY <1>1, GoesStands DEF Stands, Frame
<1>3. /\ sends' \in [Id -> Seq(Nat)]
      /\ \A d \in Id :
           /\ Len(sends'[d]) = Len(sends[d])
           /\ \A i \in 1 .. Len(sends[d]) :
                 \/ sends'[d][i] = sends[d][i]
                 \/ d = e /\ i = run[e].at /\ run[e].phase = "sends" /\ phase = "traces"
                    /\ sends'[d][i] = sends[d][i] + 1
  BY <1>1 DEF Onward, Sends, SendsNothing, TypeOK
<1>4. /\ proven' \in [Id -> SUBSET Nat]
      /\ \A d \in Id : /\ proven[d] \subseteq proven'[d]
                       /\ \A i \in Nat : AllBefore(d, i) => BeforeNext(d, i)
  <2>1. execution'[e] \in Execution BY <1>1, <1>2, ExecutionType
  <2> QED BY <1>1, <2>1, Proves
<1>5. TypeOK' BY <1>1, <1>2, <1>3, <1>4 DEF TypeOK
<1>6. /\ Fresh /\ Lengths /\ BlockedInOrder /\ RunsSound /\ WindowsSound /\ ListedSound
      /\ SentSound /\ ExecutableSound /\ HistorySound /\ SavedSound /\ ArrivalIsKnown
      /\ e < seq /\ seq \in Nat
  BY <1>1 DEF ExecInv, Fresh, Id, TypeOK
<1>7. /\ run[e].at \in 1 .. Len(execution[e].txs)
      /\ AllBefore(e, run[e].at)
      /\ execution[e].txs[run[e].at] \in {"pending", "blocked"}
      /\ execution[e].plan.chains[run[e].at] \in execution[e].executable
  BY <1>6 DEF Onward, RunsSound
<1>8. \A d \in Id : Len(execution[d].txs) \in Nat /\ Len(sends[d]) \in Nat
  BY <1>1, ExecutionType
<1>9. Fresh'
  <2>1. \A d \in Id : d >= seq => d # e BY <1>6 DEF Id
  <2>2. \A d \in Id : d >= seq => /\ run'[d] = run[d]
                                   /\ Len(sends'[d]) = Len(sends[d])
                                   /\ \A i \in 1 .. Len(sends[d]) : sends'[d][i] = sends[d][i]
    BY <1>2, <1>3, <2>1
  <2> QED BY <1>2, <1>6, <2>2 DEF Fresh
<1>10. Lengths' BY <1>2, <1>3, <1>6 DEF Lengths
<1>11. WindowsSound'
  <2> SUFFICES ASSUME NEW w \in Window, window[w] # None
               PROVE  /\ window[w].id < seq
                      /\ window[w].at \in 1 .. Len(execution[window[w].id].txs)
                      /\ BeforeNext(window[w].id, window[w].at)
    BY <1>2 DEF WindowsSound, AllBefore, BeforeNext
  <2>1. window[w].id \in Id /\ window[w].at \in Nat BY <1>1 DEF TypeOK
  <2> QED BY <1>4, <1>6, <2>1 DEF WindowsSound
<1>12. BlockedInOrder'
  <2> SUFFICES ASSUME NEW d \in Id, NEW i \in 1 .. Len(execution[d].txs),
                      execution[d].txs[i] = "blocked"
               PROVE  BeforeNext(d, i)
    BY <1>2 DEF BlockedInOrder, AllBefore, BeforeNext
  <2>1. i \in Nat BY <1>8
  <2> QED BY <1>4, <1>6, <2>1 DEF BlockedInOrder
<1>13. RunsSound'
  <2> SUFFICES ASSUME NEW d \in Id, run'[d] # None
               PROVE  /\ execution[d].status = "processing"
                      /\ run'[d].at \in 1 .. Len(execution[d].txs)
                      /\ BeforeNext(d, run'[d].at)
                      /\ ~execution[d].recorded => d \in listed
                      /\ run'[d].phase # "starts" =>
                           /\ execution[d].txs[run'[d].at] \in {"pending", "blocked"}
                           /\ execution[d].plan.chains[run'[d].at] \in execution[d].executable
    BY <1>2 DEF RunsSound, AllBefore, BeforeNext
  <2>1. run[d] # None /\ run'[d].at = run[d].at BY <1>2
  <2>2. /\ execution[d].status = "processing"
        /\ run[d].at \in 1 .. Len(execution[d].txs)
        /\ AllBefore(d, run[d].at)
        /\ ~execution[d].recorded => d \in listed
        /\ run[d].phase # "starts" =>
             /\ execution[d].txs[run[d].at] \in {"pending", "blocked"}
             /\ execution[d].plan.chains[run[d].at] \in execution[d].executable
    BY <1>6, <2>1 DEF RunsSound
  <2>3. BeforeNext(d, run'[d].at)
    <3>1. run[d].at \in Nat BY <1>8, <2>2
    <3> QED BY <1>4, <2>1, <2>2, <3>1
  <2>4. CASE d # e
    <3>1. run'[d] = run[d] BY <1>2, <2>4
    <3> QED BY <2>2, <2>3, <3>1
  <2>5. CASE d = e BY <1>7, <2>1, <2>2, <2>3, <2>5
  <2> QED BY <2>4, <2>5
<1>14. ListedSound'
  <2>1. \A d \in Id : run'[d] # None <=> run[d] # None BY <1>2
  <2> QED BY <1>2, <1>6, <2>1 DEF ListedSound
<1>15. SentSound'
  <2> SUFFICES ASSUME NEW d \in Id, NEW i \in 1 .. Len(sends[d])
               PROVE  /\ sends'[d][i] <= 1 + back[d]
                      /\ sends'[d][i] > 0 =>
                           /\ BeforeNext(d, i)
                           /\ execution[d].plan.chains[i]
                                \in execution[d].plan.executable \cup arrived[d]
                      /\ sends'[d][i] = 1 + back[d] =>
                           \/ execution[d].txs[i] \in {"confirmed", "failed"}
                           \/ run'[d] # None /\ run'[d].at = i /\ run'[d].phase = "traces"
                           \/ run'[d] = None /\ d \notin listed
    BY <1>2, <1>3 DEF SentSound, Spent, AllBefore, BeforeNext
  <2>1. sends[d][i] \in Nat /\ sends[d][i] <= 1 + back[d] /\ back[d] \in Nat /\ i \in Nat
    BY <1>1, <1>6, <1>8, ExecutionType DEF SentSound, TypeOK
  <2>2. /\ sends[d][i] > 0 =>
             /\ AllBefore(d, i)
             /\ execution[d].plan.chains[i] \in execution[d].plan.executable \cup arrived[d]
        /\ sends[d][i] = 1 + back[d] =>
             \/ execution[d].txs[i] \in {"confirmed", "failed"}
             \/ run[d] # None /\ run[d].at = i /\ run[d].phase = "traces"
             \/ run[d] = None /\ d \notin listed
    BY <1>6 DEF SentSound, Spent
  <2>3. sends[d][i] > 0 => BeforeNext(d, i) BY <1>4, <2>1, <2>2
  <2>4. run[e].phase # "traces" BY DEF Onward
  <2>5. CASE d # e
    <3>1. sends'[d][i] = sends[d][i] /\ run'[d] = run[d] BY <1>2, <1>3, <2>5
    <3> QED BY <2>1, <2>2, <2>3, <3>1
  <2>6. CASE d = e /\ sends'[d][i] = sends[d][i]
    <3>1. sends[e][i] = 1 + back[e] => execution[e].txs[i] \in {"confirmed", "failed"}
      BY <2>2, <2>4, <2>6
    <3> QED BY <2>1, <2>2, <2>3, <2>6, <3>1
  <2>7. CASE ~(sends'[d][i] = sends[d][i])
    <3>1. /\ d = e /\ i = run[e].at /\ phase = "traces"
          /\ sends'[d][i] = sends[d][i] + 1
      BY <1>3, <2>7
    <3>2. sends[d][i] # 1 + back[d] BY <1>7, <2>2, <2>4, <3>1
    <3>3. sends'[d][i] <= 1 + back[d] BY ONLY <2>1, <3>1, <3>2
    <3>4. execution[e].plan.chains[i] \in execution[e].plan.executable \cup arrived[e]
      BY <1>6, <1>7, <3>1 DEF ExecutableSound
    <3>5. BeforeNext(d, i) BY <1>4, <1>7, <2>1, <3>1
    <3> QED BY <1>2, <3>1, <3>3, <3>4, <3>5
  <2> QED BY <2>5, <2>6, <2>7
<1>16. SavedSound' BY <1>2, <1>4, <1>6, SavedStays
<1>17. /\ ExecutableSound' /\ HistorySound' /\ ArrivalIsKnown'
  BY <1>2, <1>6 DEF ExecutableSound, HistorySound, ArrivalIsKnown
<1>18. NoNewOrphan BY <1>2 DEF NoNewOrphan, Orphan, Linked
<1> QED BY <1>5, <1>9, <1>10, <1>11, <1>12, <1>13, <1>14, <1>15, <1>16, <1>17, <1>18 DEF ExecInv

LEMMA ExecutePreserves ==
    ASSUME ExecInv, FoundInv, NEW e \in Id, Execute(e)
    PROVE  ExecInv' /\ NoNewOrphan
<1>1. /\ run[e] # None /\ Frame(e)
      /\ Start(e) \/ Sign(e) \/ Send(e) \/ Trace(e)
  BY DEF Execute, Frame, stored
<1>2. /\ TypeOK /\ run[e].at \in 1 .. Len(execution[e].txs)
      /\ execution[e].txs[run[e].at] \in TxStatus
      /\ execution[e].status = "processing"
      /\ ~execution[e].recorded => history[e] = None
      /\ execution[e].recorded \in BOOLEAN
      /\ run[e].phase # "starts" =>
           /\ execution[e].txs[run[e].at] \in {"pending", "blocked"}
           /\ execution[e].plan.chains[run[e].at] \in execution[e].executable
  BY <1>1, ExecutionType DEF ExecInv, RunsSound, HistorySound
<1>3. ASSUME Confirm(e), sends' = sends, failed' = failed PROVE ExecInv' /\ NoNewOrphan
  <2>1. CASE run[e].at < Len(execution[e].txs)
    <3>1. /\ Changed(e, "processing", "confirmed", execution[e].recorded)
          /\ Stands(e, run[e].at + 1, "starts")
          /\ listed' = listed /\ history' = history /\ tracker' = tracker
      BY <1>1, <1>2, <1>3, <2>1, NextEffect
    <3>2. HistoryOf(e) BY <1>2, <3>1 DEF HistoryOf, TypeOK
    <3>3. Result(e, "processing", "confirmed", execution[e].recorded)
      BY <1>2, <1>3, <2>1, <3>1, <3>2 DEF Result, SendsNothing, TypeOK
    <3> QED BY <1>1, <3>3, ResultPreserves
  <2>2. CASE ~(run[e].at < Len(execution[e].txs))
    <3>1. Complete(e) BY <1>3, <2>2 DEF Confirm
    <3>2. PICK rec \in BOOLEAN : /\ Changed(e, execution[e].status, "confirmed", rec)
                                 /\ ~rec => ~execution[e].recorded /\ history'[e] = None
      BY <1>1, <3>1, CompleteEffect
    <3>3. /\ Stops(e) /\ HistoryOf(e)
          /\ tracker' \in [Id -> {"off", "source", "waiting", "asked", "asset"}]
          /\ listed' = listed \ {e}
          /\ execution[e].recorded /\ history[e] = None => history'[e] = None
          /\ history'[e] # None /\ history'[e].link =>
                /\ ~execution[e].recorded
                /\ \E i \in DOMAIN execution'[e].txs : execution'[e].txs[i] = "blocked"
      BY <1>1, <3>1, CompleteEffect
    <3>4. ~execution[e].recorded =>
             \A i \in DOMAIN execution'[e].txs : execution'[e].txs[i] # "blocked"
      <4>1. DOMAIN execution[e].txs = 1 .. Len(execution[e].txs)
        BY <1>2, ExecutionType
      <4>2. /\ Len(execution'[e].txs) = Len(execution[e].txs)
            /\ \A j \in 1 .. Len(execution[e].txs) :
                  execution'[e].txs[j] = IF j = run[e].at THEN "confirmed" ELSE execution[e].txs[j]
            /\ execution'[e].txs \in Seq(TxStatus)
        BY <3>2 DEF Changed, Execution
      <4>3. DOMAIN execution'[e].txs = 1 .. Len(execution[e].txs) BY <4>2, LenProperties
      <4> QED BY <4>1, <4>2, <4>3 DEF FoundInv, BlockedTxRecorded
    <3>5. Result(e, "processing", "confirmed", rec)
      BY <1>2, <1>3, <3>2, <3>3, <3>4 DEF Result, SendsNothing
    <3> QED BY <1>1, <3>5, ResultPreserves
  <2> QED BY <2>1, <2>2
<1>4. ASSUME Fail(e), Sends(e), run[e].phase # "starts" PROVE ExecInv' /\ NoNewOrphan
  <2>1. /\ Changed(e, "processing", "failed", execution[e].recorded)
        /\ Stops(e) /\ HistoryOf(e) /\ tracker' = tracker
        /\ listed' = listed \ {e} /\ failed' = failed \cup {e}
        /\ history[e] = None => history'[e] = None
    BY <1>1, <1>2, <1>4, FailEffect
  <2>2. Result(e, "processing", "failed", execution[e].recorded)
    BY <1>2, <1>4, <2>1 DEF Result, TypeOK
  <2> QED BY <1>1, <2>2, ResultPreserves
<1>5. ASSUME Block(e), sends' = sends, failed' = failed, run[e].phase = "starts",
             execution[e].txs[run[e].at] \in {"pending", "blocked"}
      PROVE  ExecInv' /\ NoNewOrphan
  <2>1. PICK rec \in BOOLEAN :
           /\ Changed(e, "blocked", "blocked", rec)
           /\ ~rec => ~execution[e].recorded /\ history'[e] = None
           /\ execution[e].recorded => rec /\ history'[e] = history[e]
    BY <1>1, <1>5, BlockEffect
  <2>2. /\ Stops(e) /\ HistoryOf(e)
        /\ tracker' \in [Id -> {"off", "source", "waiting", "asked", "asset"}]
        /\ listed' = listed
    BY <1>1, <1>5, BlockEffect
  <2>3. Result(e, "blocked", "blocked", rec)
    BY <1>2, <1>5, <2>1, <2>2 DEF Result, SendsNothing
  <2> QED BY <1>1, <2>3, ResultPreserves
<1>6. CASE Start(e)
  <2>1. sends' = sends /\ run[e].phase = "starts" BY <1>6 DEF Start
  <2>2. \/ Confirm(e) /\ failed' = failed
        \/ execution[e].txs[run[e].at] \in {"pending", "blocked"} /\ Block(e) /\ failed' = failed
        \/ /\ execution[e].txs[run[e].at] \in {"pending", "blocked"}
           /\ execution[e].plan.chains[run[e].at] \in execution[e].executable
           /\ \E phase \in {"signs", "sends"} : Goes(e, phase)
    BY <1>6 DEF Start
  <2>3. CASE \E phase \in {"signs", "sends"} :
               /\ execution[e].txs[run[e].at] \in {"pending", "blocked"}
               /\ execution[e].plan.chains[run[e].at] \in execution[e].executable
               /\ Goes(e, phase)
    <3>1. PICK phase \in {"signs", "sends"} :
            /\ execution[e].txs[run[e].at] \in {"pending", "blocked"}
            /\ execution[e].plan.chains[run[e].at] \in execution[e].executable
            /\ Goes(e, phase)
      BY <2>3
    <3>2. Onward(e, phase) BY <2>1, <3>1, NotAccepted DEF Onward
    <3> QED BY <1>1, <3>1, <3>2, OnwardPreserves
  <2> QED BY <1>3, <1>5, <2>1, <2>2, <2>3
<1>7. CASE Sign(e)
  <2>1. sends' = sends /\ run[e].phase = "signs" BY <1>7 DEF Sign
  <2>2. CASE Goes(e, "sends")
    <3>1. Onward(e, "sends") BY <2>1, NotAccepted DEF Onward
    <3> QED BY <1>1, <2>2, <3>1, OnwardPreserves
  <2>3. CASE Fail(e) BY <1>4, <2>1, <2>3, NotAccepted
  <2> QED BY <1>7, <2>2, <2>3 DEF Sign
<1>8. CASE Send(e)
  <2>1. run[e].phase = "sends" BY <1>8 DEF Send
  <2>2. CASE sends' = [sends EXCEPT ![e][run[e].at] = @ + 1] /\ (Goes(e, "traces") \/ Fail(e))
    <3>1. Sends(e) BY <1>1, <2>1, <2>2, Accepted
    <3>2. CASE Goes(e, "traces")
      <4>1. Onward(e, "traces") BY <2>1, <3>1 DEF Onward
      <4> QED BY <1>1, <3>2, <4>1, OnwardPreserves
    <3>3. CASE Fail(e) BY <1>4, <2>1, <3>1, <3>3
    <3> QED BY <2>2, <3>2, <3>3
  <2>3. CASE Fail(e) /\ sends' = sends BY <1>4, <2>1, <2>3, NotAccepted
  <2> QED BY <1>8, <2>2, <2>3 DEF Send
<1>9. CASE Trace(e)
  <2>1. run[e].phase = "traces" /\ sends' = sends BY <1>9 DEF Trace
  <2>2. CASE Confirm(e) /\ failed' = failed BY <1>3, <2>1, <2>2
  <2>3. CASE Fail(e) BY <1>4, <2>1, <2>3, NotAccepted
  <2> QED BY <1>9, <2>2, <2>3 DEF Trace
<1> QED BY <1>1, <1>6, <1>7, <1>8, <1>9

-----------------------------------------------------------------------------
(* Steps of the tracker, the bus and the histories: no transaction moves. *)

\* Everything about an execution but what is executable.
SameTxs(d) ==
    /\ execution'[d].plan = execution[d].plan /\ execution'[d].txs = execution[d].txs
    /\ execution'[d].status = execution[d].status
    /\ execution'[d].recorded = execution[d].recorded

Unmoved ==
    /\ seq' = seq /\ run' = run /\ sends' = sends /\ window' = window
    /\ savedExecution' = savedExecution /\ savedHistory' = savedHistory
    /\ proven' = proven /\ failed' = failed /\ back' = back /\ ends' = ends
    /\ ready' \in BOOLEAN

\* Chains become executable as they are known; a history is not linked anew.
Grows ==
    /\ execution' \in [Id -> Execution]
    /\ arrived' \in [Id -> SUBSET Chain] /\ lost' \in [Id -> SUBSET Chain]
    /\ history' \in [Id -> History \cup {None}]
    /\ listed' \subseteq listed
    /\ \A d \in Id :
         /\ SameTxs(d)
         /\ execution[d].executable \subseteq execution'[d].executable
         /\ execution'[d].executable \subseteq execution[d].plan.executable \cup arrived'[d]
         /\ arrived[d] \subseteq arrived'[d]
         /\ d >= seq => execution'[d].executable = {} /\ arrived'[d] = {}
         /\ d \in listed /\ d \notin listed' => execution[d].recorded /\ history'[d] = None
         /\ history'[d] # None => history[d] # None /\ history'[d].link = history[d].link

BusSound ==
    \A v \in bus' :
       /\ v \in Event /\ v.id < seq
       /\ v.type = "executable" => v.chains \subseteq arrived'[v.id]
       /\ v.type = "remove" => history'[v.id] = None /\ execution[v.id].recorded

LEMMA QuietPreserves ==
    ASSUME ExecInv, Unmoved, Grows, BusSound, ArrivalIsKnown',
           tracker' \in [Id -> {"off", "source", "waiting", "asked", "asset"}]
    PROVE  ExecInv' /\ NoNewOrphan
<1>1. TypeOK BY DEF ExecInv
<1>2. TypeOK'
  <2>1. listed' \subseteq 0 .. seq' - 1 BY <1>1 DEF TypeOK, Grows, Unmoved
  <2>2. bus' \subseteq Event BY DEF BusSound
  <2> QED BY <1>1, <2>1, <2>2 DEF TypeOK, Unmoved, Grows
<1>3. /\ Fresh /\ Lengths /\ BlockedInOrder /\ RunsSound /\ WindowsSound /\ ListedSound
      /\ SentSound /\ ExecutableSound /\ HistorySound /\ SavedSound
      /\ seq \in Nat
  BY <1>1 DEF ExecInv, TypeOK
<1>4. /\ seq' = seq /\ run' = run /\ sends' = sends /\ window' = window
      /\ savedExecution' = savedExecution /\ savedHistory' = savedHistory
      /\ proven' = proven /\ failed' = failed /\ back' = back
  BY DEF Unmoved
<1>5. /\ listed' \subseteq listed
      /\ \A d \in Id :
           /\ execution'[d].plan = execution[d].plan /\ execution'[d].txs = execution[d].txs
           /\ execution'[d].status = execution[d].status
           /\ execution'[d].recorded = execution[d].recorded
           /\ execution[d].executable \subseteq execution'[d].executable
           /\ execution'[d].executable \subseteq execution[d].plan.executable \cup arrived'[d]
           /\ arrived[d] \subseteq arrived'[d]
           /\ d >= seq => execution'[d].executable = {} /\ arrived'[d] = {}
           /\ d \in listed /\ d \notin listed' => execution[d].recorded /\ history'[d] = None
           /\ history'[d] # None => history[d] # None /\ history'[d].link = history[d].link
  BY DEF Grows, SameTxs
<1>6. Fresh'
  <2>1. \A v \in bus' : v.id < seq BY DEF BusSound
  <2>2. \A d \in Id, v \in bus' : d >= seq => v.id # d
    <3> TAKE d \in Id, v \in bus'
    <3>1. v.id \in Id BY DEF BusSound, Event
    <3> QED BY <1>3, <2>1, <3>1 DEF Id
  <2> QED BY <1>3, <1>4, <1>5, <2>2 DEF Fresh
<1>7. Lengths' BY <1>3, <1>4, <1>5 DEF Lengths
<1>8. BlockedInOrder' BY <1>3, <1>4, <1>5 DEF BlockedInOrder, AllBefore
<1>9. RunsSound'
  <2> SUFFICES ASSUME NEW d \in Id, run[d] # None
               PROVE  /\ execution'[d].status = "processing"
                      /\ run[d].at \in 1 .. Len(execution'[d].txs)
                      /\ \A j \in 1 .. run[d].at - 1 : j \in proven[d]
                      /\ ~execution'[d].recorded => d \in listed'
                      /\ run[d].phase # "starts" =>
                           /\ execution'[d].txs[run[d].at] \in {"pending", "blocked"}
                           /\ execution'[d].plan.chains[run[d].at] \in execution'[d].executable
    BY <1>4 DEF RunsSound, AllBefore
  <2>1. /\ execution[d].status = "processing"
        /\ run[d].at \in 1 .. Len(execution[d].txs)
        /\ \A j \in 1 .. run[d].at - 1 : j \in proven[d]
        /\ ~execution[d].recorded => d \in listed
        /\ run[d].phase # "starts" =>
             /\ execution[d].txs[run[d].at] \in {"pending", "blocked"}
             /\ execution[d].plan.chains[run[d].at] \in execution[d].executable
    BY <1>3 DEF RunsSound, AllBefore
  <2> QED BY <1>5, <2>1
<1>10. WindowsSound'
  <2>1. \A w \in Window : window[w] # None => window[w].id \in Id BY <1>1 DEF TypeOK
  <2> QED BY <1>3, <1>4, <1>5, <2>1 DEF WindowsSound, AllBefore
<1>11. ListedSound' BY <1>3, <1>4, <1>5 DEF ListedSound
<1>12. SentSound'
  <2> SUFFICES ASSUME NEW d \in Id, NEW i \in 1 .. Len(sends[d])
               PROVE  /\ sends[d][i] <= 1 + back[d]
                      /\ sends[d][i] > 0 =>
                           /\ AllBefore(d, i)
                           /\ execution'[d].plan.chains[i]
                                \in execution'[d].plan.executable \cup arrived'[d]
                      /\ sends[d][i] = 1 + back[d] =>
                           \/ execution'[d].txs[i] \in {"confirmed", "failed"}
                           \/ run[d] # None /\ run[d].at = i /\ run[d].phase = "traces"
                           \/ run[d] = None /\ d \notin listed'
    BY <1>4 DEF SentSound, Spent, AllBefore
  <2> QED BY <1>3, <1>5 DEF SentSound, Spent
<1>13. ExecutableSound' BY <1>5 DEF ExecutableSound, BusSound
<1>14. HistorySound'
  <2>1. \A d \in Id : ~execution'[d].recorded => history'[d] = None /\ savedHistory'[d] = None
    BY <1>3, <1>4, <1>5 DEF HistorySound
  <2>2. \A v \in bus' : v.type = "remove" => history'[v.id] = None /\ execution'[v.id].recorded
    BY <1>5 DEF BusSound, Event
  <2> QED BY <2>1, <2>2 DEF HistorySound
<1>15. SavedSound' BY <1>3, <1>4, <1>5, SavedStays
<1>16. NoNewOrphan BY <1>4, <1>5 DEF NoNewOrphan, Orphan, Linked
<1> QED BY <1>2, <1>6, <1>7, <1>8, <1>9, <1>10, <1>11, <1>12, <1>13, <1>14, <1>15, <1>16
        DEF ExecInv

LEMMA HeardEffect ==
    ASSUME TypeOK, NEW events \in SUBSET Event, Heard(events)
    PROVE  /\ execution' \in [Id -> Execution]
           /\ listed' \subseteq listed
           /\ \A d \in Id : d \in listed /\ d \notin listed'
                 => \E v \in events : v.type = "remove" /\ v.id = d
           /\ \A d \in Id :
                /\ SameTxs(d)
                /\ execution[d].executable \subseteq execution'[d].executable
                /\ \A c \in execution'[d].executable :
                      \/ c \in execution[d].executable
                      \/ \E v \in events : v.type = "executable" /\ v.id = d /\ c \in v.chains
                /\ d \notin listed => execution'[d].executable = execution[d].executable
                /\ d \in listed' => \A v \in events : v.type = "executable" /\ v.id = d
                                       => v.chains \subseteq execution'[d].executable
<1> DEFINE Chains(d) == UNION {v.chains : v \in {u \in events : u.type = "executable" /\ u.id = d}}
           gone == {v.id : v \in {u \in events : u.type = "remove"}}
           x(d) == [execution[d] EXCEPT !.executable = @ \cup Chains(d)]
<1>1. /\ listed' = listed \ gone
      /\ execution' = [d \in Id |-> IF d \in listed' THEN x(d) ELSE execution[d]]
  BY DEF Heard
<1>2. \A d \in Id : /\ Chains(d) \subseteq Chain
                    /\ \A c \in Chains(d) :
                          \E v \in events : v.type = "executable" /\ v.id = d /\ c \in v.chains
                    /\ \A v \in events : v.type = "executable" /\ v.id = d
                          => v.chains \subseteq Chains(d)
  BY DEF Event
<1>3. \A d \in gone : \E v \in events : v.type = "remove" /\ v.id = d OBVIOUS
<1> HIDE DEF Chains, gone
<1>4. ASSUME NEW d \in Id
      PROVE  /\ x(d) \in Execution
             /\ x(d).plan = execution[d].plan /\ x(d).txs = execution[d].txs
             /\ x(d).status = execution[d].status /\ x(d).recorded = execution[d].recorded
             /\ x(d).executable = execution[d].executable \cup Chains(d)
             /\ execution[d] \in Execution
  <2>1. /\ execution[d] \in Execution /\ execution[d].executable \subseteq Chain
        /\ Chains(d) \subseteq Chain
    BY <1>2, ExecutionType
  <2>2. execution[d].executable \cup Chains(d) \in SUBSET Chain BY <2>1
  <2> QED BY ONLY <2>1, <2>2 DEF Execution, x
<1> HIDE DEF x
<1>5. execution' \in [Id -> Execution] BY <1>1, <1>4
<1>6. \A d \in Id : execution'[d] = IF d \in listed' THEN x(d) ELSE execution[d] BY <1>1
<1> QED BY <1>1, <1>2, <1>3, <1>4, <1>5, <1>6 DEF SameTxs

\* Histories are updated or removed.
HistoriesOnly ==
    /\ history' \in [Id -> History \cup {None}]
    /\ \A d \in Id : history'[d] # None =>
          history[d] # None /\ history'[d].link = history[d].link

Stages == {"off", "source", "waiting", "asked", "asset"}

LEMMA StillPreserves ==
    ASSUME ExecInv, Unmoved, HistoriesOnly, tracker' \in [Id -> Stages],
           execution' = execution, listed' = listed, bus' = bus, arrived' = arrived,
           lost' = lost
    PROVE  ExecInv' /\ NoNewOrphan
<1>1. /\ TypeOK /\ Fresh /\ ExecutableSound /\ HistorySound /\ ArrivalIsKnown
  BY DEF ExecInv
<1>2. Grows BY <1>1 DEF Grows, SameTxs, HistoriesOnly, TypeOK, ExecutableSound, Fresh
<1>3. BusSound
  <2> SUFFICES ASSUME NEW v \in bus
               PROVE  /\ v \in Event /\ v.id < seq
                      /\ v.type = "executable" => v.chains \subseteq arrived[v.id]
                      /\ v.type = "remove" => history'[v.id] = None /\ execution[v.id].recorded
    BY DEF BusSound
  <2>1. v \in Event /\ v.id \in Id BY <1>1 DEF TypeOK, Event
  <2>2. v.id < seq BY <1>1, <2>1 DEF Fresh, Id, TypeOK
  <2>3. v.type = "remove" => history[v.id] = None /\ execution[v.id].recorded
    BY <1>1 DEF HistorySound
  <2> QED BY <1>1, <2>1, <2>2, <2>3 DEF ExecutableSound, HistoriesOnly
<1>4. ArrivalIsKnown' BY <1>1 DEF ArrivalIsKnown
<1> QED BY <1>2, <1>3, <1>4, QuietPreserves DEF Stages

LEMMA PublishPreserves ==
    ASSUME ExecInv, Unmoved, HistoriesOnly, tracker' \in [Id -> Stages],
           NEW events \in SUBSET Event, Publish(events),
           arrived' \in [Id -> SUBSET Chain], lost' \in [Id -> SUBSET Chain],
           \A d \in Id : /\ arrived[d] \subseteq arrived'[d]
                         /\ \A c \in arrived'[d] \ arrived[d] :
                              \E v \in events : v.type = "executable" /\ v.id = d /\ c \in v.chains
                         /\ \A c \in (arrived'[d] \ lost'[d]) \ (arrived[d] \ lost[d]) :
                              \E v \in events : v.type = "executable" /\ v.id = d /\ c \in v.chains,
           \A v \in events :
              /\ history[v.id] # None
              /\ v.type = "executable" => v.chains \subseteq arrived'[v.id]
              /\ v.type = "remove" => history'[v.id] = None
    PROVE  ExecInv' /\ NoNewOrphan
<1>1. /\ TypeOK /\ Fresh /\ ExecutableSound /\ HistorySound /\ ArrivalIsKnown
  BY DEF ExecInv
<1>2. \A v \in events : v.id \in Id /\ v.id < seq /\ execution[v.id].recorded
  <2> TAKE v \in events
  <2>1. v.id \in Id /\ history[v.id] # None BY DEF Event
  <2>2. v.id < seq BY <1>1, <2>1 DEF Fresh, Id, TypeOK
  <2> QED BY <1>1, <2>1, <2>2 DEF HistorySound
<1>3. \A d \in Id : d >= seq => arrived'[d] = {} /\ execution[d].executable = {}
  <2> TAKE d \in Id
  <2>1. d >= seq => \A v \in events : v.id # d BY <1>1, <1>2 DEF Id, TypeOK
  <2> QED BY <1>1, <2>1 DEF Fresh
<1>4. \A v \in bus :
         /\ v \in Event /\ v.id \in Id /\ v.id < seq
         /\ v.type = "executable" => v.chains \subseteq arrived'[v.id]
         /\ v.type = "remove" => history'[v.id] = None /\ execution[v.id].recorded
  <2> TAKE v \in bus
  <2>1. v \in Event /\ v.id \in Id BY <1>1 DEF TypeOK, Event
  <2>2. v.id < seq BY <1>1, <2>1 DEF Fresh, Id, TypeOK
  <2>3. v.type = "remove" => history[v.id] = None /\ execution[v.id].recorded
    BY <1>1 DEF HistorySound
  <2>4. v.type = "executable" => v.chains \subseteq arrived[v.id]
    BY <1>1 DEF ExecutableSound
  <2> QED BY <2>1, <2>2, <2>3, <2>4 DEF HistoriesOnly
<1>5. CASE ready
  <2>1. Heard(events) /\ bus' = bus BY <1>5 DEF Publish
  <2>2. /\ execution' \in [Id -> Execution]
        /\ listed' \subseteq listed
        /\ \A d \in Id : d \in listed /\ d \notin listed'
              => \E v \in events : v.type = "remove" /\ v.id = d
        /\ \A d \in Id :
             /\ SameTxs(d)
             /\ execution[d].executable \subseteq execution'[d].executable
             /\ \A c \in execution'[d].executable :
                   \/ c \in execution[d].executable
                   \/ \E v \in events : v.type = "executable" /\ v.id = d /\ c \in v.chains
             /\ d \notin listed => execution'[d].executable = execution[d].executable
             /\ d \in listed' => \A v \in events : v.type = "executable" /\ v.id = d
                                    => v.chains \subseteq execution'[d].executable
    BY <1>1, <2>1, HeardEffect
  <2>3. Grows
    <3>1. ASSUME NEW d \in Id
          PROVE  /\ execution'[d].executable \subseteq execution[d].plan.executable \cup arrived'[d]
                 /\ d >= seq => execution'[d].executable = {} /\ arrived'[d] = {}
                 /\ d \in listed /\ d \notin listed' => execution[d].recorded /\ history'[d] = None
      <4>1. execution[d].executable \subseteq execution[d].plan.executable \cup arrived[d]
        BY <1>1 DEF ExecutableSound
      <4>2. execution'[d].executable \subseteq execution[d].plan.executable \cup arrived'[d]
        BY <2>2, <4>1
      <4>3. d >= seq => d \notin listed BY <1>1 DEF Fresh
      <4>4. d >= seq => execution'[d].executable = {} BY <1>3, <2>2, <4>3
      <4>5. d \in listed /\ d \notin listed' => execution[d].recorded /\ history'[d] = None
        BY <1>2, <2>2
      <4> QED BY <1>3, <4>2, <4>4, <4>5
    <3> QED BY <2>2, <3>1 DEF Grows, HistoriesOnly
  <2>4. BusSound BY <1>4, <2>1 DEF BusSound
  <2>5. ArrivalIsKnown'
    <3> SUFFICES ASSUME NEW d \in listed', NEW c \in arrived'[d] \ lost'[d]
                 PROVE  \/ c \in execution'[d].executable
                        \/ \E v \in bus : v.type = "executable" /\ v.id = d /\ c \in v.chains
      BY <2>1 DEF ArrivalIsKnown
    <3>1. d \in listed /\ d \in Id
      <4>1. listed \subseteq 0 .. seq - 1 /\ seq \in 0 .. MaxExecutions BY <1>1 DEF TypeOK
      <4>2. d \in listed BY <2>2
      <4> QED BY <4>1, <4>2 DEF Id
    <3>2. CASE c \in arrived[d] \ lost[d] BY <1>1, <2>2, <3>1, <3>2 DEF ArrivalIsKnown
    <3>3. CASE c \notin arrived[d] \ lost[d] BY <2>2, <3>1, <3>3
    <3> QED BY <3>2, <3>3
  <2> QED BY <2>3, <2>4, <2>5, QuietPreserves DEF Stages
<1>6. CASE ~ready
  <2>1. bus' = bus \cup events /\ execution' = execution /\ listed' = listed
    BY <1>6 DEF Publish
  <2>2. Grows
    <3>1. \A d \in Id : execution[d].executable \subseteq execution[d].plan.executable \cup arrived'[d]
      BY <1>1 DEF ExecutableSound
    <3> QED BY <1>1, <1>3, <2>1, <3>1 DEF Grows, SameTxs, HistoriesOnly, TypeOK
  <2>3. BusSound BY <1>2, <1>4, <2>1 DEF BusSound
  <2>4. ArrivalIsKnown'
    <3> SUFFICES ASSUME NEW d \in listed, NEW c \in arrived'[d] \ lost'[d]
                 PROVE  \/ c \in execution[d].executable
                        \/ \E v \in bus \cup events :
                              v.type = "executable" /\ v.id = d /\ c \in v.chains
      BY <2>1 DEF ArrivalIsKnown
    <3>1. d \in Id BY <1>1 DEF TypeOK, Id
    <3>2. CASE c \in arrived[d] \ lost[d] BY <1>1, <3>2 DEF ArrivalIsKnown
    <3>3. CASE c \notin arrived[d] \ lost[d] BY <3>1, <3>3
    <3> QED BY <3>2, <3>3
  <2> QED BY <2>2, <2>3, <2>4, QuietPreserves DEF Stages
<1> QED BY <1>5, <1>6

LEMMA ReadyPreserves ==
    ASSUME ExecInv, Ready
    PROVE  ExecInv' /\ NoNewOrphan
<1>1. /\ TypeOK /\ Fresh /\ ExecutableSound /\ HistorySound /\ ArrivalIsKnown
  BY DEF ExecInv
<1>2. /\ Heard(bus) /\ bus' = {} /\ ready' = TRUE /\ arrived' = arrived
      /\ history' = history /\ tracker' = tracker /\ lost' = lost
  BY DEF Ready, recent, told
<1>3. Unmoved BY DEF Ready, Unmoved, stored, told
<1>4. bus \in SUBSET Event BY <1>1 DEF TypeOK
<1>5. /\ execution' \in [Id -> Execution]
      /\ listed' \subseteq listed
      /\ \A d \in Id : d \in listed /\ d \notin listed'
            => \E v \in bus : v.type = "remove" /\ v.id = d
      /\ \A d \in Id :
           /\ SameTxs(d)
           /\ execution[d].executable \subseteq execution'[d].executable
           /\ \A c \in execution'[d].executable :
                 \/ c \in execution[d].executable
                 \/ \E v \in bus : v.type = "executable" /\ v.id = d /\ c \in v.chains
           /\ d \notin listed => execution'[d].executable = execution[d].executable
           /\ d \in listed' => \A v \in bus : v.type = "executable" /\ v.id = d
                                  => v.chains \subseteq execution'[d].executable
  BY <1>1, <1>2, <1>4, HeardEffect
<1>6. Grows
  <2>1. ASSUME NEW d \in Id
        PROVE  /\ execution'[d].executable \subseteq execution[d].plan.executable \cup arrived[d]
               /\ d >= seq => execution'[d].executable = {} /\ arrived[d] = {}
               /\ d \in listed /\ d \notin listed' => execution[d].recorded /\ history[d] = None
    <3>1. execution'[d].executable \subseteq execution[d].plan.executable \cup arrived[d]
      BY <1>1, <1>5 DEF ExecutableSound
    <3>2. d >= seq => execution'[d].executable = {} /\ arrived[d] = {}
      BY <1>1, <1>5 DEF Fresh
    <3>3. d \in listed /\ d \notin listed' => execution[d].recorded /\ history[d] = None
      BY <1>1, <1>5 DEF HistorySound
    <3> QED BY <3>1, <3>2, <3>3
  <2> QED BY <1>1, <1>2, <1>5, <2>1 DEF Grows, TypeOK
<1>7. BusSound BY <1>2 DEF BusSound
<1>8. ArrivalIsKnown'
  <2> SUFFICES ASSUME NEW d \in listed', NEW c \in arrived[d] \ lost[d]
               PROVE  c \in execution'[d].executable
    BY <1>2 DEF ArrivalIsKnown
  <2>1. d \in listed /\ d \in Id BY <1>1, <1>5 DEF TypeOK, Id
  <2> QED BY <1>1, <1>5, <2>1 DEF ArrivalIsKnown
<1>9. tracker' \in [Id -> Stages] BY <1>1, <1>2 DEF TypeOK, Stages
<1> QED BY <1>3, <1>6, <1>7, <1>8, <1>9, QuietPreserves DEF Stages

LEMMA TrackerGoesType ==
    ASSUME TypeOK, NEW e \in Id, NEW stage \in Stages, TrackerGoes(e, stage)
    PROVE  tracker' \in [Id -> Stages]
BY DEF TrackerGoes, TypeOK, Stages

LEMMA HistoriesStay ==
    ASSUME TypeOK, history' = history
    PROVE  HistoriesOnly
BY DEF TypeOK, HistoriesOnly

LEMMA HistoryReplaced ==
    ASSUME TypeOK, NEW e \in Id, history[e] # None, NEW h \in History,
           h.link = history[e].link, history' = [history EXCEPT ![e] = h]
    PROVE  HistoriesOnly /\ history'[e] = h
BY DEF TypeOK, HistoriesOnly

LEMMA RemovesPreserve ==
    ASSUME ExecInv, Unmoved, tracker' \in [Id -> Stages], arrived' = arrived,
           lost' = lost, NEW es \in SUBSET Id, RemoveHistories(es)
    PROVE  ExecInv' /\ NoNewOrphan
<1> DEFINE events == {[type |-> "remove", id |-> e, chains |-> {}] : e \in {d \in es : Linked(d)}}
<1>1. TypeOK BY DEF ExecInv
<1>2. Publish(events) /\ history' = [e \in Id |-> IF e \in es THEN None ELSE history[e]]
  BY DEF RemoveHistories
<1>3. HistoriesOnly BY <1>1, <1>2 DEF TypeOK, HistoriesOnly
<1>4. events \in SUBSET Event BY DEF Event
<1>5. \A v \in events : /\ v.type = "remove" /\ v.id \in es /\ history[v.id] # None
                        /\ v.type # "executable" /\ history'[v.id] = None
  BY <1>2 DEF Linked
<1>6. arrived' \in [Id -> SUBSET Chain] /\ lost' \in [Id -> SUBSET Chain] BY <1>1 DEF TypeOK
<1> HIDE DEF events
<1> QED BY <1>2, <1>3, <1>4, <1>5, <1>6, PublishPreserves

LEMMA ToldPreserves ==
    ASSUME ExecInv, Unmoved, tracker' \in [Id -> Stages], NEW e \in Id, history[e] # None,
           NEW h \in History, h.link = history[e].link,
           NEW more \in SUBSET Chain, Told(e, h, more)
    PROVE  ExecInv' /\ NoNewOrphan
<1> DEFINE known == Along(e, h.reached) \cup more
           event == [type |-> "executable", id |-> e, chains |-> known]
<1>1. TypeOK BY DEF ExecInv
<1>2. HistoriesOnly BY <1>1, HistoryReplaced DEF Told
<1>3. known \subseteq Chain
  <2>1. execution[e].plan \in Plans BY <1>1, ExecutionType
  <2>2. /\ Len(execution[e].plan.route) \in Nat
        /\ DOMAIN execution[e].plan.route = 1 .. Len(execution[e].plan.route)
        /\ \A i \in 1 .. Len(execution[e].plan.route) : execution[e].plan.route[i] \in Chain
    BY <2>1, PlanType
  <2> QED BY <2>2 DEF Along
<1>4. IF h.link
      THEN /\ Publish({event}) /\ arrived' = [arrived EXCEPT ![e] = @ \cup known]
           /\ lost' = [lost EXCEPT ![e] = @ \ known]
      ELSE UNCHANGED <<execution, listed, bus, arrived, lost>>
  <2>1. Reached(e, h.reached) \cup more = known BY DEF Reached
  <2>2. Told(e, h, more) <=>
          /\ history' = [history EXCEPT ![e] = h]
          /\ IF h.link
             THEN /\ Publish({[type |-> "executable", id |-> e,
                               chains |-> Reached(e, h.reached) \cup more]})
                  /\ arrived' = [arrived EXCEPT ![e] = @ \cup known]
                  /\ lost' = [lost EXCEPT ![e] = @ \ known]
             ELSE UNCHANGED <<execution, listed, bus, arrived, lost>>
    BY DEF Told
  <2>3. event = [type |-> "executable", id |-> e, chains |-> Reached(e, h.reached) \cup more]
    BY <2>1
  <2> HIDE DEF known, event
  <2>4. CASE h.link
    <3>1. Publish({event}) BY <2>2, <2>3, <2>4, Zenon
    <3> QED BY <2>2, <2>4, <3>1
  <2>5. CASE ~h.link BY <2>2, <2>5
  <2> QED BY <2>4, <2>5
<1> HIDE DEF known
<1>5. CASE h.link
  <2>1. {event} \in SUBSET Event BY <1>3 DEF Event
  <2>2. \A v \in {event} : v.type = "executable" /\ v.id = e /\ v.chains = known OBVIOUS
  <2>3. \E v \in {event} : v.type = "executable" /\ v.id = e /\ v.chains = known OBVIOUS
  <2> DEFINE events == {event}
  <2>4. Publish(events) BY <1>4, <1>5
  <2> HIDE DEF event, events
  <2>5. /\ arrived' \in [Id -> SUBSET Chain]
        /\ \A d \in Id : /\ arrived[d] \subseteq arrived'[d]
                         /\ d # e => arrived'[d] = arrived[d]
        /\ arrived'[e] = arrived[e] \cup known
    <3> DEFINE a == arrived[e] \cup known
    <3>1. arrived \in [Id -> SUBSET Chain] BY <1>1 DEF TypeOK
    <3>2. a \in SUBSET Chain /\ arrived[e] \subseteq a BY <1>3, <3>1
    <3>3. arrived' = [arrived EXCEPT ![e] = a] BY <1>4, <1>5
    <3> HIDE DEF a
    <3>4. /\ arrived' \in [Id -> SUBSET Chain] /\ arrived'[e] = a
          /\ \A d \in Id : d # e => arrived'[d] = arrived[d]
      BY <3>1, <3>2, <3>3
    <3> QED BY <3>2, <3>4 DEF a
  <2>6. /\ lost' \in [Id -> SUBSET Chain] /\ lost'[e] = lost[e] \ known
        /\ \A d \in Id : d # e => lost'[d] = lost[d]
    <3> DEFINE a == lost[e] \ known
    <3>1. lost \in [Id -> SUBSET Chain] BY <1>1 DEF TypeOK
    <3>2. a \in SUBSET Chain BY <3>1
    <3>3. lost' = [lost EXCEPT ![e] = a] BY <1>4, <1>5
    <3> HIDE DEF a
    <3>4. /\ lost' \in [Id -> SUBSET Chain] /\ lost'[e] = a
          /\ \A d \in Id : d # e => lost'[d] = lost[d]
      BY <3>1, <3>2, <3>3
    <3> QED BY <3>4 DEF a
  <2>7. ASSUME NEW d \in Id, NEW c,
               c \in (arrived'[d] \ arrived[d])
                       \cup ((arrived'[d] \ lost'[d]) \ (arrived[d] \ lost[d]))
        PROVE  \E v \in events : v.type = "executable" /\ v.id = d /\ c \in v.chains
    <3>1. d = e /\ c \in known BY <2>5, <2>7, <2>6
    <3> QED BY <2>3, <3>1 DEF events
  <2>8. \A v \in events : /\ history[v.id] # None
                          /\ v.type = "executable" => v.chains \subseteq arrived'[v.id]
                          /\ v.type = "remove" => history'[v.id] = None
    BY <2>2, <2>5 DEF events
  <2>9. events \in SUBSET Event BY <2>1 DEF events
  <2>10. \A d \in Id :
           /\ arrived[d] \subseteq arrived'[d]
           /\ \A c \in arrived'[d] \ arrived[d] :
                \E v \in events : v.type = "executable" /\ v.id = d /\ c \in v.chains
           /\ \A c \in (arrived'[d] \ lost'[d]) \ (arrived[d] \ lost[d]) :
                \E v \in events : v.type = "executable" /\ v.id = d /\ c \in v.chains
    BY <2>5, <2>7
  <2> QED BY <1>2, <2>4, <2>5, <2>8, <2>9, <2>6, <2>10, PublishPreserves
<1>6. CASE ~h.link BY <1>2, <1>4, <1>6, StillPreserves
<1> QED BY <1>5, <1>6

LEMMA SourcePreserves ==
    ASSUME ExecInv, NEW e \in Id, Source(e)
    PROVE  ExecInv' /\ NoNewOrphan
<1>1. TypeOK BY DEF ExecInv
<1>2. Unmoved /\ arrived' = arrived /\ lost' = lost BY <1>1 DEF Source, Unmoved, stored, told, TypeOK
<1>3. tracker' \in [Id -> Stages] BY <1>1, TrackerGoesType DEF Source, Stages
<1>4. CASE RemoveHistories({e}) BY <1>2, <1>3, <1>4, RemovesPreserve
<1>5. CASE UNCHANGED <<execution, listed, history, bus>>
  BY <1>1, <1>2, <1>3, <1>5, HistoriesStay, StillPreserves
<1> QED BY <1>4, <1>5 DEF Source

LEMMA PollPreserves ==
    ASSUME ExecInv, NEW e \in Id, Poll(e) \/ NoReply(e)
    PROVE  ExecInv' /\ NoNewOrphan
<1>1. TypeOK BY DEF ExecInv
<1>2. /\ Unmoved /\ arrived' = arrived /\ lost' = lost /\ history' = history
      /\ execution' = execution /\ listed' = listed /\ bus' = bus
  BY <1>1 DEF Poll, NoReply, Unmoved, stored, told, executor, TypeOK
<1>3. tracker' \in [Id -> Stages] BY <1>1, TrackerGoesType DEF Poll, NoReply, Stages
<1> QED BY <1>1, <1>2, <1>3, HistoriesStay, StillPreserves

LEMMA AssetTrackedPreserves ==
    ASSUME ExecInv, NEW e \in Id, AssetTracked(e)
    PROVE  ExecInv' /\ NoNewOrphan
<1>1. TypeOK BY DEF ExecInv
<1>2. /\ Unmoved /\ arrived' = arrived /\ lost' = lost
      /\ execution' = execution /\ listed' = listed /\ bus' = bus
  BY <1>1 DEF AssetTracked, Unmoved, stored, told, executor, TypeOK
<1>3. tracker' \in [Id -> Stages] BY <1>1, TrackerGoesType DEF AssetTracked, Stages
<1>4. HistoriesOnly
  <2>1. CASE history' = history BY <1>1, <2>1, HistoriesStay
  <2>2. CASE history[e] # None /\ \E error \in {history[e].trackError, TRUE} :
               history' = [history EXCEPT ![e].trackDone = TRUE, ![e].trackError = error]
    <3>1. PICK error \in {history[e].trackError, TRUE} :
             history' = [history EXCEPT ![e].trackDone = TRUE, ![e].trackError = error]
      BY <2>2
    <3> DEFINE h == [history[e] EXCEPT !.trackDone = TRUE, !.trackError = error]
    <3>2. history[e] \in History /\ error \in BOOLEAN BY <1>1, <2>2, <3>1, HistoryType
    <3>3. h \in History /\ h.link = history[e].link BY <3>2 DEF History
    <3>4. history' = [history EXCEPT ![e] = h] BY <1>1, <3>1, <3>2, Zenon DEF TypeOK, History
    <3> HIDE DEF h
    <3> QED BY <1>1, <2>2, <3>3, <3>4, HistoryReplaced
  <2> QED BY <2>1, <2>2 DEF AssetTracked
<1> QED BY <1>2, <1>3, <1>4, StillPreserves

LEMMA ReplyPreserves ==
    ASSUME ExecInv, NEW e \in Id, Reply(e)
    PROVE  ExecInv' /\ NoNewOrphan
<1>1. TypeOK BY DEF ExecInv
<1>2. Unmoved BY <1>1 DEF Reply, Unmoved, stored, TypeOK
<1>3. tracker' \in [Id -> Stages]
  BY <1>1, TrackerGoesType, Zenon
     DEF Reply, Later, Progress, Over, Arrive, Strand, Break, Stages
<1>4. CASE history[e] = None /\ UNCHANGED <<execution, listed, history, bus, arrived, lost>>
  BY <1>1, <1>2, <1>3, <1>4, HistoriesStay, StillPreserves
<1>5. CASE history[e] # None /\ LET h == [history[e] EXCEPT !.trackError = FALSE] IN
                \/ Later(e, h) \/ Progress(e, h) \/ Over(e, h)
                \/ Arrive(e, h) \/ Strand(e, h) \/ Break(e, h)
  <2> DEFINE h == [history[e] EXCEPT !.trackError = FALSE]
  <2>1. h \in History /\ h.link = history[e].link
    BY <1>1, <1>5, HistoryType DEF History
  <2>2. \/ Later(e, h) \/ Progress(e, h) \/ Over(e, h)
        \/ Arrive(e, h) \/ Strand(e, h) \/ Break(e, h)
    BY <1>5
  <2> HIDE DEF h
  \* An answer that tells the executor of chains, or that does not.
  <2>3. ASSUME NEW g \in History, g.link = h.link, NEW more \in SUBSET Chain, Told(e, g, more)
        PROVE  ExecInv' /\ NoNewOrphan
    BY <1>2, <1>3, <1>5, <2>1, <2>3, ToldPreserves
  <2>4. ASSUME NEW g \in History, g.link = h.link, Untold(e, g)
        PROVE  ExecInv' /\ NoNewOrphan
    <3>1. history' = [history EXCEPT ![e] = g] /\ UNCHANGED <<execution, listed, bus, arrived, lost>>
      BY <2>4 DEF Untold
    <3>2. HistoriesOnly BY <1>1, <1>5, <2>1, <2>4, <3>1, HistoryReplaced
    <3> QED BY <1>2, <1>3, <3>1, <3>2, StillPreserves
  <2>5. CASE Later(e, h) BY <2>1, <2>4, <2>5 DEF Later
  <2>6. CASE Over(e, h)
    <3> DEFINE g == [h EXCEPT !.trackDone = TRUE]
    <3>1. g \in History /\ g.link = h.link BY <2>1 DEF History
    <3>2. Untold(e, g) BY <2>6 DEF Over
    <3> HIDE DEF g
    <3> QED BY <2>4, <3>1, <3>2
  <2>7. CASE Progress(e, h)
    <3>1. PICK n \in h.reached + 1 .. Len(execution[e].plan.route) :
             Told(e, [h EXCEPT !.reached = n], {})
      BY <2>7 DEF Progress
    <3>2. execution[e].plan \in Plans /\ h.reached \in Nat
      BY <1>1, <2>1, ExecutionType DEF History
    <3>3. Len(execution[e].plan.route) \in Nat BY <3>2, PlanType
    <3>4. n \in Nat BY <3>1, <3>2, <3>3
    <3> DEFINE g == [h EXCEPT !.reached = n]
    <3>5. g \in History /\ g.link = h.link BY <2>1, <3>4 DEF History
    <3>6. Told(e, g, {}) BY <3>1
    <3> HIDE DEF g
    <3> QED BY <2>3, <3>5, <3>6
  <2>8. CASE Arrive(e, h)
    <3>1. PICK known \in BOOLEAN :
             Told(e, [h EXCEPT !.reached = Len(execution[e].plan.route), !.trackDone = known], {})
      BY <2>8, Zenon DEF Arrive
    <3>2. execution[e].plan \in Plans BY <1>1, ExecutionType
    <3>3. Len(execution[e].plan.route) \in Nat BY <3>2, PlanType
    <3> DEFINE g == [h EXCEPT !.reached = Len(execution[e].plan.route), !.trackDone = known]
    <3>4. g \in History /\ g.link = h.link BY <2>1, <3>3 DEF History
    <3>5. Told(e, g, {}) BY <3>1
    <3> HIDE DEF g
    <3> QED BY <2>3, <3>4, <3>5
  <2>9. CASE Strand(e, h)
    <3>1. PICK c \in Chain, intermediate \in BOOLEAN :
             \E n \in {h.reached} \cup {i \in 2 .. Len(execution[e].plan.route) :
                                           execution[e].plan.route[i] = c} :
                Told(e, [h EXCEPT !.reached = n, !.asset = c, !.trackDone = TRUE],
                     IF intermediate THEN {c} ELSE {})
      BY <2>9, Zenon DEF Strand
    <3>2. PICK n \in {h.reached} \cup {i \in 2 .. Len(execution[e].plan.route) :
                                           execution[e].plan.route[i] = c} :
                Told(e, [h EXCEPT !.reached = n, !.asset = c, !.trackDone = TRUE],
                     IF intermediate THEN {c} ELSE {})
      BY <3>1, Zenon
    <3>3. n \in Nat
      <4>1. execution[e].plan \in Plans /\ h.reached \in Nat
        BY <1>1, <2>1, ExecutionType DEF History
      <4>2. Len(execution[e].plan.route) \in Nat BY <4>1, PlanType
      <4> QED BY <3>2, <4>1, <4>2
    <3> DEFINE g == [h EXCEPT !.reached = n, !.asset = c, !.trackDone = TRUE]
               more == IF intermediate THEN {c} ELSE {}
    <3>4. g \in History /\ g.link = h.link BY <2>1, <3>3 DEF History
    <3>5. more \in SUBSET Chain OBVIOUS
    <3>6. Told(e, g, more) BY <3>2
    <3> HIDE DEF g, more
    <3> QED BY <2>3, <3>4, <3>5, <3>6
  <2>10. CASE Break(e, h)
    <3>1. PICK known \in BOOLEAN : Told(e, [h EXCEPT !.trackDone = known], {})
      BY <2>10 DEF Break
    <3> DEFINE g == [h EXCEPT !.trackDone = known]
    <3>2. g \in History /\ g.link = h.link BY <2>1 DEF History
    <3>3. Told(e, g, {}) BY <3>1
    <3> HIDE DEF g
    <3> QED BY <2>3, <3>2, <3>3
  <2> QED BY <2>2, <2>5, <2>6, <2>7, <2>8, <2>9, <2>10
<1> QED BY <1>4, <1>5 DEF Reply

LEMMA RemovePreserves ==
    ASSUME ExecInv, Remove
    PROVE  ExecInv' /\ NoNewOrphan
<1>1. TypeOK BY DEF ExecInv
<1>2. Unmoved /\ arrived' = arrived /\ lost' = lost /\ tracker' = tracker
  BY <1>1 DEF Remove, Unmoved, stored, told, TypeOK
<1>3. tracker' \in [Id -> Stages] BY <1>1, <1>2 DEF TypeOK, Stages
<1>4. PICK es \in {Id} \cup {{e} : e \in Id} : RemoveHistories(es) BY DEF Remove
<1>5. es \in SUBSET Id OBVIOUS
<1> QED BY <1>2, <1>3, <1>4, <1>5, RemovesPreserve

LEMMA RemoveChainPreserves ==
    ASSUME ExecInv, NEW c \in Chain, RemoveChain(c)
    PROVE  ExecInv' /\ NoNewOrphan
<1>1. TypeOK BY DEF ExecInv
<1>2. /\ Unmoved /\ arrived' = arrived /\ lost' = lost /\ tracker' = tracker
      /\ execution' = execution /\ listed' = listed /\ bus' = bus
  BY <1>1 DEF RemoveChain, Unmoved, stored, told, executor, TypeOK
<1>3. tracker' \in [Id -> Stages] BY <1>1, <1>2 DEF TypeOK, Stages
<1>4. HistoriesOnly
  <2>1. /\ DOMAIN history' = Id
        /\ \A e \in Id : history'[e] = None \/ history'[e] = history[e]
    BY DEF RemoveChain
  <2>2. history' = [e \in Id |-> history'[e]] BY DEF RemoveChain
  <2> QED BY <1>1, <2>1, <2>2 DEF TypeOK, HistoriesOnly
<1> QED BY <1>2, <1>3, <1>4, StillPreserves

-----------------------------------------------------------------------------
(* Windows, new executions and the end of the background. *)

LEMMA ContinuePreserves ==
    ASSUME ExecInv, NEW w \in Window, NEW e \in Id, Continue(w, e)
    PROVE  ExecInv' /\ NoNewOrphan
<1>1. /\ TypeOK /\ Fresh /\ Lengths /\ BlockedInOrder /\ RunsSound /\ WindowsSound /\ ListedSound
      /\ SentSound /\ ExecutableSound /\ HistorySound /\ SavedSound /\ ArrivalIsKnown
  BY DEF ExecInv
<1>2. PICK i \in FirstBlocked(execution[e]) :
         window' = [window EXCEPT ![w] = [id |-> e, at |-> i]]
  BY DEF Continue
<1>3. /\ seq' = seq /\ execution' = execution /\ listed' = listed /\ run' = run
      /\ history' = history /\ tracker' = tracker /\ ready' = ready /\ bus' = bus
      /\ sends' = sends /\ arrived' = arrived /\ failed' = failed
      /\ savedExecution' = savedExecution /\ savedHistory' = savedHistory
      /\ proven' = proven /\ lost' = lost /\ back' = back /\ ends' = ends
      /\ e \in listed
  BY DEF Continue, executor, recent, stored, told
<1>4. /\ i \in 1 .. Len(execution[e].txs) /\ execution[e].txs[i] = "blocked" /\ i \in Nat
      /\ AllBefore(e, i) /\ e < seq
  <2>1. i \in 1 .. Len(execution[e].txs) /\ execution[e].txs[i] = "blocked" /\ i \in Nat
    BY <1>1, <1>2, ExecutionType DEF FirstBlocked
  <2>2. e < seq BY <1>1, <1>3 DEF Fresh, Id, TypeOK
  <2> QED BY <1>1, <2>1, <2>2 DEF BlockedInOrder
<1> DEFINE r == [id |-> e, at |-> i]
<1>5. r \in [id : Id, at : Nat] /\ r.id = e /\ r.at = i BY <1>4
<1>6. window' = [window EXCEPT ![w] = r] BY <1>2
<1> HIDE DEF r
<1>7. /\ window' \in [Window -> [id : Id, at : Nat] \cup {None}]
      /\ window'[w] = r /\ \A u \in Window : u # w => window'[u] = window[u]
  BY <1>1, <1>5, <1>6 DEF TypeOK
<1>8. TypeOK' BY <1>1, <1>3, <1>7 DEF TypeOK
<1>9. WindowsSound'
  <2> SUFFICES ASSUME NEW u \in Window, window'[u] # None
               PROVE  /\ window'[u].id < seq
                      /\ window'[u].at \in 1 .. Len(execution[window'[u].id].txs)
                      /\ \A j \in 1 .. window'[u].at - 1 : j \in proven[window'[u].id]
    BY <1>3 DEF WindowsSound, AllBefore
  <2>1. CASE u = w BY <1>4, <1>5, <1>7, <2>1 DEF AllBefore
  <2>2. CASE u # w
    <3>1. window'[u] = window[u] BY <1>7, <2>2
    <3>2. /\ window[u].id < seq
          /\ window[u].at \in 1 .. Len(execution[window[u].id].txs)
          /\ \A j \in 1 .. window[u].at - 1 : j \in proven[window[u].id]
      BY <1>1, <3>1 DEF WindowsSound, AllBefore
    <3> QED BY <3>1, <3>2
  <2> QED BY <2>1, <2>2
<1>10. Fresh' /\ Lengths' /\ ListedSound' /\ HistorySound' /\ ExecutableSound'
  BY <1>1, <1>3 DEF Fresh, Lengths, ListedSound, HistorySound, ExecutableSound
<1>11. BlockedInOrder' /\ RunsSound' BY <1>1, <1>3 DEF BlockedInOrder, RunsSound, AllBefore
<1>12. SentSound' BY <1>1, <1>3 DEF SentSound, Spent, AllBefore
<1>13. ArrivalIsKnown' BY <1>1, <1>3 DEF ArrivalIsKnown
<1>14. SavedSound' BY <1>1, <1>3, SavedStays
<1>15. NoNewOrphan BY <1>3 DEF NoNewOrphan, Orphan, Linked
<1> QED BY <1>8, <1>9, <1>10, <1>11, <1>12, <1>13, <1>14, <1>15 DEF ExecInv

\* The background starts again with records that are sound, of whatever age.
LEMMA EndPreserves ==
    ASSUME ExecInv, End
    PROVE  ExecInv'
<1>1. /\ TypeOK /\ Fresh /\ Lengths /\ BlockedInOrder /\ RunsSound /\ WindowsSound /\ ListedSound
      /\ SentSound /\ ExecutableSound /\ HistorySound /\ SavedSound /\ seq \in Nat
  BY DEF ExecInv, TypeOK
<1>2. /\ seq' = seq /\ history' = savedHistory /\ window' = window
      /\ savedExecution' = savedExecution /\ savedHistory' = savedHistory
      /\ sends' = sends /\ proven' = proven /\ arrived' = arrived
      /\ bus' = {} /\ ready' = FALSE
      /\ listed' = {e \in Id : savedExecution[e] # None}
      /\ execution' = [e \in Id |-> IF e \in listed' THEN savedExecution[e] ELSE execution[e]]
      /\ lost' = [e \in Id |-> IF e \in listed' THEN arrived[e] \ execution'[e].executable
                                                 ELSE lost[e]]
      /\ failed' = failed \ listed'
      /\ back' = [e \in Id |-> IF savedExecution[e] \in {None, Snapshot[e]}
                               THEN back[e] ELSE back[e] + 1]
      /\ ends < MaxEnds /\ ends' = ends + 1
      /\ run' = [e \in Id |-> None]
      /\ tracker' = [e \in Id |-> IF savedHistory[e] = None THEN "off" ELSE "source"]
  BY DEF End, stored
<1>3. \A e \in Id : run'[e] = None BY <1>2
\* What an execution is after the end.
<1>4. \A e \in Id : e \in listed' <=> savedExecution[e] # None BY <1>2
<1>5. \A e \in Id : IF e \in listed'
                    THEN execution'[e] = savedExecution[e] /\ Stored(e, savedExecution[e])
                    ELSE execution'[e] = execution[e]
  BY <1>1, <1>2, <1>4 DEF SavedSound
<1>6. \A e \in Id : execution'[e].plan = execution[e].plan BY <1>5 DEF Stored
<1>7. \A e \in Id : IF savedExecution[e] \in {None, Snapshot[e]}
                    THEN back'[e] = back[e] ELSE back'[e] = back[e] + 1
  BY <1>2
<1>8. TypeOK'
  <2>1. listed' \subseteq 0 .. seq - 1
    <3> SUFFICES ASSUME NEW e \in Id, e \in listed' PROVE e < seq
      BY <1>1, <1>2 DEF Id
    <3> QED BY <1>1, <1>4 DEF Fresh, Id
  <2>2. ends' \in 0 .. MaxEnds BY <1>1, <1>2 DEF TypeOK
  <2>3. run' \in [Id -> Run \cup {None}] BY <1>2
  <2>4. tracker' \in [Id -> {"off", "source", "waiting", "asked", "asset"}] BY <1>2
  <2>5. execution' \in [Id -> Execution]
    <3>1. \A e \in Id : execution'[e] \in Execution BY <1>1, <1>4, <1>5 DEF TypeOK
    <3> QED BY <1>2, <3>1
  <2>6. lost' \in [Id -> SUBSET Chain]
    <3>1. \A e \in Id : lost'[e] \subseteq Chain
      <4> TAKE e \in Id
      <4>1. arrived[e] \subseteq Chain /\ lost[e] \subseteq Chain BY <1>1 DEF TypeOK
      <4>2. lost'[e] \subseteq arrived[e] \/ lost'[e] = lost[e] BY <1>2
      <4> QED BY <4>1, <4>2
    <3>2. DOMAIN lost' = Id BY <1>2
    <3>3. lost' = [e \in Id |-> lost'[e]] BY <1>2
    <3> QED BY <3>1, <3>2, <3>3
  <2>7. back' \in [Id -> Nat]
    <3>1. \A e \in Id : back[e] \in Nat BY <1>1 DEF TypeOK
    <3> QED BY <1>2, <3>1
  <2> QED BY <1>1, <1>2, <2>1, <2>2, <2>3, <2>4, <2>5, <2>6, <2>7 DEF TypeOK
<1>9. Fresh'
  <2> SUFFICES ASSUME NEW e \in Id, e >= seq
               PROVE  /\ e \notin listed' /\ execution'[e] = execution[e]
                      /\ history'[e] = None
    BY <1>1, <1>2, <1>3 DEF Fresh
  <2>1. savedExecution[e] = None /\ savedHistory[e] = None BY <1>1 DEF Fresh
  <2> QED BY <1>2, <1>4, <1>5, <2>1
<1>10. Lengths'
  <2> SUFFICES ASSUME NEW e \in Id
               PROVE  /\ Len(sends[e]) = Len(execution'[e].plan.chains)
                      /\ e < seq => Len(execution'[e].txs) = Len(execution'[e].plan.chains)
    BY <1>2 DEF Lengths
  <2>1. CASE e \in listed' BY <1>1, <1>5, <1>6, <2>1 DEF Lengths, Stored
  <2>2. CASE e \notin listed' BY <1>1, <1>5, <2>2 DEF Lengths
  <2> QED BY <2>1, <2>2
<1>11. BlockedInOrder'
  <2> SUFFICES ASSUME NEW e \in Id, NEW i \in 1 .. Len(execution'[e].txs),
                      execution'[e].txs[i] = "blocked"
               PROVE  AllBefore(e, i)
    BY <1>2 DEF BlockedInOrder, AllBefore
  <2>1. CASE e \in listed' BY <1>5, <2>1 DEF Stored
  <2>2. CASE e \notin listed' BY <1>1, <1>5, <2>2 DEF BlockedInOrder
  <2> QED BY <2>1, <2>2
<1>12. RunsSound' BY <1>3 DEF RunsSound
<1>13. WindowsSound'
  <2> SUFFICES ASSUME NEW w \in Window, window[w] # None
               PROVE  window[w].at \in 1 .. Len(execution'[window[w].id].txs)
    BY <1>1, <1>2 DEF WindowsSound, AllBefore
  <2>1. /\ window[w].id \in Id /\ window[w].id < seq
        /\ window[w].at \in 1 .. Len(execution[window[w].id].txs)
    BY <1>1 DEF TypeOK, WindowsSound
  <2>2. Len(execution'[window[w].id].txs) = Len(execution[window[w].id].txs)
    BY <1>1, <1>2, <1>6, <1>10, <2>1 DEF Lengths
  <2> QED BY <2>1, <2>2
<1>14. ListedSound'
  <2> SUFFICES ASSUME NEW e \in Id, e \in listed'
               PROVE  /\ execution'[e].status = "blocked"
                      /\ \A i \in 1 .. Len(execution'[e].txs) : execution'[e].txs[i] # "failed"
    BY <1>3 DEF ListedSound
  <2> QED BY <1>5 DEF Stored
<1>15. SentSound'
  <2> SUFFICES ASSUME NEW e \in Id, NEW i \in 1 .. Len(sends[e])
               PROVE  /\ sends[e][i] <= 1 + back'[e]
                      /\ sends[e][i] > 0 =>
                           /\ AllBefore(e, i)
                           /\ execution[e].plan.chains[i]
                                \in execution[e].plan.executable \cup arrived[e]
                      /\ sends[e][i] = 1 + back'[e] =>
                           execution'[e].txs[i] \in {"confirmed", "failed"} \/ e \notin listed'
    BY <1>2, <1>3, <1>6 DEF SentSound, Spent, AllBefore
  <2>1. sends[e][i] \in Nat /\ back[e] \in Nat BY <1>1, ExecutionType DEF TypeOK
  <2>2. /\ sends[e][i] <= 1 + back[e]
        /\ sends[e][i] > 0 =>
             /\ AllBefore(e, i)
             /\ execution[e].plan.chains[i] \in execution[e].plan.executable \cup arrived[e]
        /\ sends[e][i] = 1 + back[e] => Spent(e, i)
    BY <1>1 DEF SentSound
  <2>3. CASE savedExecution[e] = None
    <3>1. e \notin listed' /\ back'[e] = back[e] BY <1>4, <1>7, <2>3
    <3> QED BY <2>2, <3>1
  \* The record is that of the execution, which waits.
  <2>4. CASE savedExecution[e] # None /\ savedExecution[e] = Snapshot[e]
    <3>1. back'[e] = back[e] /\ e \in listed' BY <1>4, <1>7, <2>4
    <3>2. Waits(e) /\ savedExecution[e] = execution[e] BY <2>4 DEF Snapshot
    <3>3. e \in listed /\ execution[e].status = "blocked" BY <3>2 DEF Waits
    <3>4. run[e] = None BY <1>1, <3>3 DEF RunsSound
    <3>5. execution'[e] = execution[e] BY <1>5, <3>1, <3>2
    <3> QED BY <2>2, <3>1, <3>3, <3>4, <3>5 DEF Spent
  \* It is an older one.
  <2>5. CASE savedExecution[e] # None /\ savedExecution[e] # Snapshot[e]
    <3>1. back'[e] = back[e] + 1 BY <1>7, <2>5
    <3> QED BY <2>1, <2>2, <3>1
  <2> QED BY <2>3, <2>4, <2>5
<1>16. ExecutableSound'
  <2> SUFFICES ASSUME NEW e \in Id
               PROVE  execution'[e].executable \subseteq execution'[e].plan.executable \cup arrived[e]
    BY <1>2 DEF ExecutableSound
  <2> QED BY <1>1, <1>5 DEF ExecutableSound, Stored
<1>17. HistorySound'
  <2> SUFFICES ASSUME NEW e \in Id, ~execution'[e].recorded PROVE savedHistory[e] = None
    BY <1>2 DEF HistorySound
  <2> QED BY <1>1, <1>5 DEF HistorySound, Stored
<1>18. SavedSound'
  <2>1. \A d \in Id : /\ arrived[d] \subseteq arrived'[d]
                      /\ proven[d] \subseteq proven'[d]
    BY <1>2
  <2> QED BY <1>1, <1>2, <1>6, <2>1, SavedStays
<1>19. ArrivalIsKnown'
  <2> SUFFICES ASSUME NEW e \in listed', NEW c \in arrived[e] \ lost'[e]
               PROVE  c \in execution'[e].executable
    BY <1>2 DEF ArrivalIsKnown
  <2>1. e \in Id BY <1>2
  <2>2. lost'[e] = arrived[e] \ execution'[e].executable BY <1>2, <2>1
  <2> QED BY <2>2
<1> QED BY <1>8, <1>9, <1>10, <1>11, <1>12, <1>13, <1>14, <1>15, <1>16, <1>17, <1>18, <1>19
        DEF ExecInv

\* What is stored of an execution that waits is sound.
LEMMA SavesPreserve ==
    ASSUME ExecInv, FoundInv, ExecutionsSaved \/ HistoriesSaved
    PROVE  ExecInv' /\ NoNewOrphan
<1>1. /\ TypeOK /\ Fresh /\ Lengths /\ BlockedInOrder /\ RunsSound /\ WindowsSound /\ ListedSound
      /\ SentSound /\ ExecutableSound /\ HistorySound /\ SavedSound /\ ArrivalIsKnown
  BY DEF ExecInv
<1>2. /\ seq' = seq /\ execution' = execution /\ listed' = listed /\ run' = run
      /\ history' = history /\ tracker' = tracker /\ ready' = ready /\ bus' = bus
      /\ window' = window /\ sends' = sends /\ proven' = proven /\ arrived' = arrived
      /\ lost' = lost /\ failed' = failed /\ back' = back /\ ends' = ends
  BY DEF ExecutionsSaved, HistoriesSaved, executor, recent, told
<1>3. /\ savedExecution' = savedExecution \/ savedExecution' = Snapshot
      /\ savedHistory' = savedHistory \/ savedHistory' = history
  BY DEF ExecutionsSaved, HistoriesSaved
<1>4. \A e \in Id : Snapshot[e] # None => Waits(e) /\ Snapshot[e] = execution[e]
  BY DEF Snapshot
<1>5. /\ savedExecution' \in [Id -> Execution \cup {None}]
      /\ savedHistory' \in [Id -> History \cup {None}]
  <2>1. Snapshot \in [Id -> Execution \cup {None}] BY <1>1 DEF Snapshot, TypeOK
  <2> QED BY <1>1, <1>3, <2>1 DEF TypeOK
<1>6. TypeOK' BY <1>1, <1>2, <1>5 DEF TypeOK
<1>7. Fresh'
  <2>1. \A e \in Id : e >= seq => savedExecution'[e] = None /\ savedHistory'[e] = None
    BY <1>1, <1>3, <1>4 DEF Fresh, Waits
  <2> QED BY <1>1, <1>2, <2>1 DEF Fresh
<1>8. Lengths' /\ BlockedInOrder' /\ RunsSound' /\ WindowsSound' /\ ListedSound'
  BY <1>1, <1>2 DEF Lengths, BlockedInOrder, RunsSound, WindowsSound, ListedSound, AllBefore
<1>9. SentSound' /\ ExecutableSound' /\ ArrivalIsKnown'
  BY <1>1, <1>2 DEF SentSound, Spent, AllBefore, ExecutableSound, ArrivalIsKnown
<1>10. HistorySound' BY <1>1, <1>2, <1>3 DEF HistorySound
<1>11. SavedSound'
  <2> SUFFICES ASSUME NEW e \in Id, savedExecution'[e] # None
               PROVE  Stored(e, savedExecution'[e])
    BY <1>2 DEF SavedSound, Stored, AllBefore
  <2>1. CASE savedExecution' = savedExecution BY <1>1, <2>1 DEF SavedSound
  <2>2. CASE savedExecution' = Snapshot
    <3>1. /\ savedExecution'[e] = execution[e]
          /\ e \in listed /\ execution[e].status = "blocked"
      BY <1>4, <2>2 DEF Waits
    <3>2. execution[e].recorded BY <3>1 DEF FoundInv, BlockedWasRecorded
    <3>3. e < seq BY <1>1, <3>1 DEF TypeOK, Id
    <3>4. Len(execution[e].txs) = Len(execution[e].plan.chains) BY <1>1, <3>3 DEF Lengths
    <3>5. \A i \in 1 .. Len(execution[e].txs) :
             /\ execution[e].txs[i] # "failed"
             /\ execution[e].txs[i] = "blocked" => AllBefore(e, i)
      BY <1>1, <3>1 DEF ListedSound, BlockedInOrder
    <3>6. execution[e].executable \subseteq execution[e].plan.executable \cup arrived[e]
      BY <1>1 DEF ExecutableSound
    <3> QED BY <3>1, <3>2, <3>4, <3>5, <3>6 DEF Stored
  <2> QED BY <1>3, <2>1, <2>2
<1>12. NoNewOrphan BY <1>2 DEF NoNewOrphan, Orphan, Linked
<1> QED BY <1>6, <1>7, <1>8, <1>9, <1>10, <1>11, <1>12 DEF ExecInv

LEMMA RecordPreserves ==
    ASSUME ExecInv, Record
    PROVE  ExecInv' /\ NoNewOrphan
<1> DEFINE p == execution[seq].plan
           x == New(p)
<1>1. /\ TypeOK /\ Fresh /\ Lengths /\ BlockedInOrder /\ RunsSound /\ WindowsSound /\ ListedSound
      /\ SentSound /\ ExecutableSound /\ HistorySound /\ SavedSound /\ ArrivalIsKnown
  BY DEF ExecInv
<1>2. /\ seq' = seq + 1 /\ seq < MaxExecutions /\ seq \in Nat /\ seq \in Id
      /\ execution' = [execution EXCEPT ![seq] = x]
      /\ listed' = listed \cup {seq}
      /\ Begins(seq, 1, 0)
      /\ history' = history /\ tracker' = tracker /\ ready' = ready /\ bus' = bus
      /\ window' = window /\ sends' = sends /\ arrived' = arrived /\ failed' = failed
      /\ savedExecution' = savedExecution /\ savedHistory' = savedHistory
      /\ proven' = [proven EXCEPT ![seq] = Confirmed(x)]
      /\ lost' = lost /\ back' = back /\ ends' = ends
  BY <1>1 DEF Record, recent, stored, TypeOK, Id
<1>3. p \in Plans BY <1>1, <1>2, ExecutionType
<1>4. /\ x \in Execution /\ x.plan = p /\ x.status = "processing"
      /\ Len(x.txs) = Len(p.chains)
      /\ \A i \in 1 .. Len(p.chains) :
            x.txs[i] = IF i \in p.done THEN "confirmed" ELSE "pending"
      /\ x.executable = p.executable /\ x.recorded = FALSE
      /\ Len(p.chains) \in Nat /\ Len(p.chains) > 0
  BY <1>3, NewType, PlanType
<1> HIDE DEF x
<1>5. /\ execution' \in [Id -> Execution] /\ execution'[seq] = x
      /\ \A d \in Id : d # seq => execution'[d] = execution[d]
  BY <1>1, <1>2, <1>4 DEF TypeOK
<1>6. /\ run' \in [Id -> Run \cup {None}]
      /\ run'[seq] # None /\ run'[seq].at = 1 /\ run'[seq].phase = "starts"
      /\ \A d \in Id : d # seq => run'[d] = run[d]
  BY <1>1, <1>2, BeginsStands DEF Stands
<1>7. /\ seq \notin listed /\ run[seq] = None /\ history[seq] = None /\ arrived[seq] = {}
      /\ savedExecution[seq] = None /\ savedHistory[seq] = None
      /\ \A i \in 1 .. Len(sends[seq]) : sends[seq][i] = 0
      /\ \A v \in bus : v.id # seq
  BY <1>1, <1>2 DEF Fresh
<1>8. /\ proven' \in [Id -> SUBSET Nat]
       /\ \A d \in Id : d # seq => proven'[d] = proven[d]
  <2>1. x.txs \in Seq(TxStatus) BY <1>4 DEF Execution
  <2>2. DOMAIN x.txs = 1 .. Len(x.txs) /\ Len(x.txs) \in Nat BY <2>1, LenProperties
  <2>3. Confirmed(x) \in SUBSET Nat BY <2>2 DEF Confirmed
  <2> QED BY <1>1, <1>2, <2>3 DEF TypeOK
<1>9. TypeOK'
  <2>1. listed' \subseteq 0 .. seq' - 1 /\ seq' \in 0 .. MaxExecutions
    <3>1. listed \subseteq 0 .. seq - 1 BY <1>1 DEF TypeOK
    <3>2. MaxExecutions \in Nat OBVIOUS
    <3>3. seq + 1 \in 0 .. MaxExecutions /\ seq \in 0 .. seq BY ONLY <1>2, <3>2, ExecutorAssumption
    <3>4. listed \subseteq 0 .. seq BY <1>2, <3>1
    <3>5. (seq + 1) - 1 = seq BY <1>2
    <3> QED BY <1>2, <3>3, <3>4, <3>5
  <2> QED BY <1>1, <1>2, <1>5, <1>6, <1>8, <2>1 DEF TypeOK
<1>10. Fresh'
  <2>1. \A d \in Id : d >= seq + 1 => d >= seq /\ d # seq BY <1>2 DEF Id
  <2> QED BY <1>1, <1>2, <1>5, <1>6, <2>1 DEF Fresh
<1>11. Lengths'
  <2> SUFFICES ASSUME NEW d \in Id
               PROVE  /\ Len(sends[d]) = Len(execution'[d].plan.chains)
                      /\ d < seq + 1 => Len(execution'[d].txs) = Len(execution'[d].plan.chains)
    BY <1>2 DEF Lengths
  <2>1. CASE d = seq BY <1>1, <1>2, <1>4, <1>5, <2>1 DEF Lengths
  <2>2. CASE d # seq BY <1>1, <1>2, <1>5, <2>2 DEF Lengths, Id
  <2> QED BY <2>1, <2>2
<1>12. BlockedInOrder'
  <2> SUFFICES ASSUME NEW d \in Id, NEW i \in 1 .. Len(execution'[d].txs),
                      execution'[d].txs[i] = "blocked"
               PROVE  \A j \in 1 .. i - 1 : j \in proven'[d]
    BY DEF BlockedInOrder, AllBefore
  <2>1. CASE d = seq BY <1>4, <1>5, <2>1
  <2>2. CASE d # seq BY <1>1, <1>5, <1>8, <2>2 DEF BlockedInOrder, AllBefore
  <2> QED BY <2>1, <2>2
<1>13. RunsSound'
  <2> SUFFICES ASSUME NEW d \in Id, run'[d] # None
               PROVE  /\ execution'[d].status = "processing"
                      /\ run'[d].at \in 1 .. Len(execution'[d].txs)
                      /\ \A j \in 1 .. run'[d].at - 1 : j \in proven'[d]
                      /\ ~execution'[d].recorded => d \in listed'
                      /\ run'[d].phase # "starts" =>
                           /\ execution'[d].txs[run'[d].at] \in {"pending", "blocked"}
                           /\ execution'[d].plan.chains[run'[d].at] \in execution'[d].executable
    BY DEF RunsSound, AllBefore
  <2>1. CASE d = seq
    <3>1. 1 \in 1 .. Len(x.txs) BY <1>4
    <3> QED BY <1>2, <1>4, <1>5, <1>6, <2>1, <3>1
  <2>2. CASE d # seq
    <3>1. run'[d] = run[d] /\ run[d] # None /\ execution'[d] = execution[d]
      BY <1>5, <1>6, <2>2
    <3>2. /\ execution[d].status = "processing"
          /\ run[d].at \in 1 .. Len(execution[d].txs)
          /\ \A j \in 1 .. run[d].at - 1 : j \in proven[d]
          /\ ~execution[d].recorded => d \in listed
          /\ run[d].phase # "starts" =>
               /\ execution[d].txs[run[d].at] \in {"pending", "blocked"}
               /\ execution[d].plan.chains[run[d].at] \in execution[d].executable
      BY <1>1, <3>1 DEF RunsSound, AllBefore
    <3> QED BY <1>2, <1>8, <2>2, <3>1, <3>2
  <2> QED BY <2>1, <2>2
<1>14. WindowsSound'
  <2> SUFFICES ASSUME NEW w \in Window, window[w] # None
               PROVE  /\ window[w].id < seq + 1
                      /\ window[w].at \in 1 .. Len(execution'[window[w].id].txs)
                      /\ \A j \in 1 .. window[w].at - 1 : j \in proven'[window[w].id]
    BY <1>2 DEF WindowsSound, AllBefore
  <2>1. window[w].id \in Id /\ window[w].id < seq
    BY <1>1 DEF TypeOK, WindowsSound
  <2>2. /\ execution'[window[w].id] = execution[window[w].id]
        /\ proven'[window[w].id] = proven[window[w].id]
    BY <1>2, <1>5, <1>8, <2>1 DEF Id
  <2>3. window[w].id < seq + 1 BY <1>2, <2>1 DEF Id
  <2> QED BY <1>1, <2>2, <2>3 DEF WindowsSound, AllBefore
<1>15. ListedSound'
  <2> SUFFICES ASSUME NEW d \in Id
               PROVE  /\ d \in listed' => /\ execution'[d].status \in {"processing", "blocked"}
                                          /\ execution'[d].status = "processing" => run'[d] # None
                      /\ d \in listed' \/ run'[d] # None =>
                            \A i \in 1 .. Len(execution'[d].txs) : execution'[d].txs[i] # "failed"
    BY DEF ListedSound
  <2>1. CASE d = seq BY <1>4, <1>5, <1>6, <2>1
  <2>2. CASE d # seq BY <1>1, <1>2, <1>5, <1>6, <2>2 DEF ListedSound
  <2> QED BY <2>1, <2>2
<1>16. SentSound'
  <2> SUFFICES ASSUME NEW d \in Id, NEW i \in 1 .. Len(sends[d])
               PROVE  /\ sends[d][i] <= 1 + back[d]
                      /\ sends[d][i] > 0 =>
                           /\ \A j \in 1 .. i - 1 : j \in proven'[d]
                           /\ execution'[d].plan.chains[i]
                                \in execution'[d].plan.executable \cup arrived[d]
                      /\ sends[d][i] = 1 + back[d] =>
                           \/ execution'[d].txs[i] \in {"confirmed", "failed"}
                           \/ run'[d] # None /\ run'[d].at = i /\ run'[d].phase = "traces"
                           \/ run'[d] = None /\ d \notin listed'
    BY <1>2 DEF SentSound, Spent, AllBefore
  <2>0. back[d] \in Nat BY <1>1 DEF TypeOK
  <2>1. CASE d = seq
    <3>1. sends[d][i] = 0 BY <1>7, <2>1
    <3> QED BY <2>0, <3>1
  <2>2. CASE d # seq
    <3>1. /\ run'[d] = run[d] /\ execution'[d] = execution[d] /\ proven'[d] = proven[d]
          /\ d \in listed' <=> d \in listed
      BY <1>2, <1>5, <1>6, <1>8, <2>2
    <3> QED BY <1>1, <3>1 DEF SentSound, Spent, AllBefore
  <2> QED BY <2>1, <2>2
<1>17. ExecutableSound'
  <2> SUFFICES ASSUME NEW d \in Id
               PROVE  execution'[d].executable \subseteq execution'[d].plan.executable \cup arrived[d]
    BY <1>1, <1>2 DEF ExecutableSound
  <2>1. CASE d = seq BY <1>4, <1>5, <2>1
  <2>2. CASE d # seq BY <1>1, <1>5, <2>2 DEF ExecutableSound
  <2> QED BY <2>1, <2>2
<1>18. HistorySound'
  <2>1. \A d \in Id : ~execution'[d].recorded => history[d] = None /\ savedHistory[d] = None
    BY <1>1, <1>5, <1>7 DEF HistorySound
  <2>2. ASSUME NEW v \in bus, v.type = "remove"
        PROVE  history[v.id] = None /\ execution'[v.id].recorded
    <3>1. v.id \in Id /\ v.id # seq BY <1>1, <1>7 DEF TypeOK, Event
    <3> QED BY <1>1, <1>5, <2>2, <3>1 DEF HistorySound
  <2> QED BY <1>2, <2>1, <2>2 DEF HistorySound
<1>19. ArrivalIsKnown'
  <2> SUFFICES ASSUME NEW d \in listed', NEW c \in arrived[d] \ lost[d]
               PROVE  \/ c \in execution'[d].executable
                      \/ \E v \in bus : v.type = "executable" /\ v.id = d /\ c \in v.chains
    BY <1>2 DEF ArrivalIsKnown
  <2>1. d # seq BY <1>7
  <2>2. d \in listed /\ d \in Id BY <1>1, <1>2, <2>1 DEF TypeOK, Id
  <2> QED BY <1>1, <1>5, <2>1, <2>2 DEF ArrivalIsKnown
<1>20. SavedSound'
  <2> SUFFICES ASSUME NEW d \in Id, savedExecution[d] # None
               PROVE  Stored(d, savedExecution[d])'
    BY <1>2 DEF SavedSound, Stored, AllBefore
  <2>1. d # seq BY <1>7
  <2>2. Stored(d, savedExecution[d]) BY <1>1 DEF SavedSound
  <2> QED BY <1>2, <1>5, <1>8, <2>1, <2>2 DEF Stored, AllBefore
<1>21. NoNewOrphan BY <1>1, <1>2 DEF NoNewOrphan, Orphan, Linked
<1> QED BY <1>9, <1>10, <1>11, <1>12, <1>13, <1>14, <1>15, <1>16, <1>17, <1>18, <1>19, <1>20,
           <1>21 DEF ExecInv

LEMMA ResumePreserves ==
    ASSUME ExecInv, NEW w \in Window, Resume(w)
    PROVE  ExecInv' /\ NoNewOrphan
<1> DEFINE e == window[w].id
           at == window[w].at
<1>1. /\ TypeOK /\ Fresh /\ Lengths /\ BlockedInOrder /\ RunsSound /\ WindowsSound /\ ListedSound
      /\ SentSound /\ ExecutableSound /\ HistorySound /\ SavedSound /\ ArrivalIsKnown
  BY DEF ExecInv
<1>2. /\ seq' = seq /\ listed' = listed
      /\ history' = history /\ tracker' = tracker /\ ready' = ready /\ bus' = bus
      /\ sends' = sends /\ arrived' = arrived /\ failed' = failed
      /\ savedExecution' = savedExecution /\ savedHistory' = savedHistory
      /\ proven' = proven /\ lost' = lost /\ back' = back /\ ends' = ends
      /\ window[w] # None /\ window' = [window EXCEPT ![w] = None]
  BY DEF Resume, recent, stored, told
<1>3. /\ e \in Id /\ at \in Nat /\ e < seq
      /\ at \in 1 .. Len(execution[e].txs)
      /\ AllBefore(e, at)
  BY <1>1, <1>2 DEF TypeOK, WindowsSound
<1>4. /\ window' \in [Window -> [id : Id, at : Nat] \cup {None}]
      /\ \A u \in Window : window'[u] # None => window'[u] = window[u]
  BY <1>1, <1>2 DEF TypeOK
<1> HIDE DEF e, at
<1>5. CASE UNCHANGED <<execution, run>>
  <2>1. TypeOK' BY <1>1, <1>2, <1>4, <1>5 DEF TypeOK
  <2>2. Fresh' /\ Lengths' /\ ListedSound' /\ HistorySound' /\ ExecutableSound'
    BY <1>1, <1>2, <1>5 DEF Fresh, Lengths, ListedSound, HistorySound, ExecutableSound
  <2>3. BlockedInOrder' /\ RunsSound' /\ WindowsSound'
    BY <1>1, <1>2, <1>4, <1>5 DEF BlockedInOrder, RunsSound, WindowsSound, AllBefore
  <2>4. SentSound' BY <1>1, <1>2, <1>5 DEF SentSound, Spent, AllBefore
  <2>5. ArrivalIsKnown' BY <1>1, <1>2, <1>5 DEF ArrivalIsKnown
  <2>6. SavedSound' BY <1>1, <1>2, <1>5, SavedStays
  <2>7. NoNewOrphan BY <1>2 DEF NoNewOrphan, Orphan, Linked
  <2> QED BY <2>1, <2>2, <2>3, <2>4, <2>5, <2>6, <2>7 DEF ExecInv
<1>6. CASE /\ e \in listed /\ execution[e].status = "blocked"
           /\ execution' = [execution EXCEPT ![e].status = "processing"]
           /\ Begins(e, at, at)
  <2> DEFINE x == [execution[e] EXCEPT !.status = "processing"]
  <2>1. /\ x \in Execution /\ x.plan = execution[e].plan /\ x.txs = execution[e].txs
        /\ x.status = "processing" /\ x.executable = execution[e].executable
        /\ x.recorded = execution[e].recorded
    BY <1>1, <1>3, ExecutionType DEF Execution
  <2>2. execution' = [execution EXCEPT ![e] = x] BY <1>6
  <2> HIDE DEF x
  <2>3. /\ execution' \in [Id -> Execution] /\ execution'[e].status = "processing"
        /\ \A d \in Id : /\ execution'[d].plan = execution[d].plan
                         /\ execution'[d].txs = execution[d].txs
                         /\ execution'[d].executable = execution[d].executable
                         /\ execution'[d].recorded = execution[d].recorded
                         /\ d # e => execution'[d].status = execution[d].status
    BY <1>1, <1>3, <2>1, <2>2 DEF TypeOK
  <2>4. /\ run' \in [Id -> Run \cup {None}]
        /\ run'[e] # None /\ run'[e].at = at /\ run'[e].phase = "starts"
        /\ \A d \in Id : d # e => run'[d] = run[d]
        /\ run[e] = None
    BY <1>1, <1>3, <1>6, BeginsStands DEF Stands, RunsSound
  <2>5. TypeOK' BY <1>1, <1>2, <1>4, <2>3, <2>4 DEF TypeOK
  <2>6. Fresh'
    <3>1. \A d \in Id : d >= seq => d # e BY <1>1, <1>3 DEF Id, TypeOK
    <3> QED BY <1>1, <1>2, <2>3, <2>4, <3>1 DEF Fresh
  <2>7. Lengths' /\ BlockedInOrder' BY <1>1, <1>2, <2>3 DEF Lengths, BlockedInOrder, AllBefore
  <2>8. RunsSound'
    <3> SUFFICES ASSUME NEW d \in Id, run'[d] # None
                 PROVE  /\ execution'[d].status = "processing"
                        /\ run'[d].at \in 1 .. Len(execution[d].txs)
                        /\ \A j \in 1 .. run'[d].at - 1 : j \in proven[d]
                        /\ ~execution[d].recorded => d \in listed
                        /\ run'[d].phase # "starts" =>
                             /\ execution[d].txs[run'[d].at] \in {"pending", "blocked"}
                             /\ execution[d].plan.chains[run'[d].at] \in execution[d].executable
      BY <1>2, <2>3 DEF RunsSound, AllBefore
    <3>1. CASE d = e BY <1>3, <1>6, <2>3, <2>4, <3>1 DEF AllBefore
    <3>2. CASE d # e
      <4>1. run'[d] = run[d] /\ run[d] # None /\ execution'[d].status = execution[d].status
        BY <2>3, <2>4, <3>2
      <4>2. /\ execution[d].status = "processing"
            /\ run[d].at \in 1 .. Len(execution[d].txs)
            /\ \A j \in 1 .. run[d].at - 1 : j \in proven[d]
            /\ ~execution[d].recorded => d \in listed
            /\ run[d].phase # "starts" =>
                 /\ execution[d].txs[run[d].at] \in {"pending", "blocked"}
                 /\ execution[d].plan.chains[run[d].at] \in execution[d].executable
        BY <1>1, <4>1 DEF RunsSound, AllBefore
      <4> QED BY <4>1, <4>2
    <3> QED BY <3>1, <3>2
  <2>9. WindowsSound'
    <3>1. \A u \in Window : window'[u] # None => window[u].id \in Id
      BY <1>1, <1>4 DEF TypeOK
    <3> QED BY <1>1, <1>2, <1>4, <2>3, <3>1 DEF WindowsSound, AllBefore
  <2>10. ListedSound' BY <1>1, <1>2, <1>6, <2>3, <2>4 DEF ListedSound
  <2>11. SentSound'
    <3> SUFFICES ASSUME NEW d \in Id, NEW i \in 1 .. Len(sends[d])
                 PROVE  /\ sends[d][i] <= 1 + back[d]
                        /\ sends[d][i] > 0 =>
                             /\ AllBefore(d, i)
                             /\ execution[d].plan.chains[i]
                                  \in execution[d].plan.executable \cup arrived[d]
                        /\ sends[d][i] = 1 + back[d] =>
                             \/ execution[d].txs[i] \in {"confirmed", "failed"}
                             \/ run'[d] # None /\ run'[d].at = i /\ run'[d].phase = "traces"
                             \/ run'[d] = None /\ d \notin listed
      BY <1>2, <2>3 DEF SentSound, Spent, AllBefore
    <3>1. /\ sends[d][i] <= 1 + back[d]
          /\ sends[d][i] > 0 =>
               /\ AllBefore(d, i)
               /\ execution[d].plan.chains[i] \in execution[d].plan.executable \cup arrived[d]
          /\ sends[d][i] = 1 + back[d] =>
               \/ execution[d].txs[i] \in {"confirmed", "failed"}
               \/ run[d] # None /\ run[d].at = i /\ run[d].phase = "traces"
               \/ run[d] = None /\ d \notin listed
      BY <1>1 DEF SentSound, Spent
    <3>2. CASE d = e BY <1>6, <2>4, <3>1, <3>2
    <3>3. CASE d # e
      <4>1. run'[d] = run[d] BY <2>4, <3>3
      <4> QED BY <3>1, <4>1
    <3> QED BY <3>2, <3>3
  <2>12. ExecutableSound' BY <1>1, <1>2, <2>3 DEF ExecutableSound
  <2>13. HistorySound'
    <3>1. \A v \in bus : v.id \in Id BY <1>1 DEF TypeOK, Event
    <3> QED BY <1>1, <1>2, <2>3, <3>1 DEF HistorySound
  <2>14. ArrivalIsKnown'
    <3>1. listed \subseteq Id BY <1>1 DEF TypeOK, Id
    <3> QED BY <1>1, <1>2, <2>3, <3>1 DEF ArrivalIsKnown
  <2>15. SavedSound' BY <1>1, <1>2, <2>3, SavedStays
  <2>16. NoNewOrphan BY <1>2 DEF NoNewOrphan, Orphan, Linked
  <2> QED BY <2>5, <2>6, <2>7, <2>8, <2>9, <2>10, <2>11, <2>12, <2>13, <2>14, <2>15, <2>16
         DEF ExecInv
<1> QED BY <1>5, <1>6 DEF Resume, e, at

-----------------------------------------------------------------------------
(* The theorems. *)

LEMMA InitHolds ==
    ASSUME Init
    PROVE  ExecInv
<1>1. \A e \in Id : \E p \in Plans : execution[e] = NoRecord(p) BY DEF Init
<1>2. \A p \in Plans :
         /\ NoRecord(p) \in Execution /\ NoRecord(p).plan = p /\ NoRecord(p).txs = <<>>
         /\ NoRecord(p).executable = {} /\ NoRecord(p).recorded = FALSE
         /\ NoRecord(p).status = "none"
  BY DEF NoRecord, Execution
<1>3. \A e \in Id :
         /\ execution[e] \in Execution /\ execution[e].plan \in Plans /\ execution[e].txs = <<>>
         /\ execution[e].executable = {} /\ execution[e].recorded = FALSE
         /\ Len(execution[e].txs) = 0
  BY <1>1, <1>2
<1>4. ASSUME NEW e \in Id
      PROVE  /\ sends[e] \in Seq(Nat) /\ Len(sends[e]) = Len(execution[e].plan.chains)
             /\ \A i \in 1 .. Len(sends[e]) : sends[e][i] = 0
  <2> DEFINE n == Len(execution[e].plan.chains)
             f == [i \in 1 .. n |-> 0]
  <2>1. n \in Nat /\ DOMAIN execution[e].plan.chains = 1 .. n BY <1>3, PlanType
  <2>2. sends[e] = f BY <2>1 DEF Init
  <2>3. f \in [1 .. n -> Nat] OBVIOUS
  <2>4. \A i \in 1 .. n : f[i] = 0 OBVIOUS
  <2> HIDE DEF f, n
  <2>5. f \in Seq(Nat) /\ Len(f) = n BY <2>1, <2>3, Segment
  <2> QED BY <2>2, <2>4, <2>5 DEF n
<1>5. /\ seq = 0 /\ listed = {} /\ bus = {} /\ ready = TRUE /\ ends = 0
      /\ failed = {}
      /\ \A e \in Id : /\ run[e] = None /\ history[e] = None /\ arrived[e] = {}
                       /\ savedExecution[e] = None /\ savedHistory[e] = None /\ back[e] = 0
      /\ \A w \in Window : window[w] = None
  BY DEF Init
<1>6. TypeOK
  <2>1. sends \in [Id -> Seq(Nat)]
    <3>1. sends = [e \in Id |-> sends[e]] BY DEF Init
    <3> QED BY <1>4, <3>1
  <2>2. execution \in [Id -> Execution]
    <3>1. execution = [e \in Id |-> execution[e]] BY DEF Init
    <3> QED BY <1>3, <3>1
  <2>3. /\ run \in [Id -> Run \cup {None}] /\ history \in [Id -> History \cup {None}]
        /\ tracker \in [Id -> {"off", "source", "waiting", "asked", "asset"}]
        /\ window \in [Window -> [id : Id, at : Nat] \cup {None}]
        /\ arrived \in [Id -> SUBSET Chain] /\ lost \in [Id -> SUBSET Chain]
        /\ savedExecution \in [Id -> Execution \cup {None}]
        /\ savedHistory \in [Id -> History \cup {None}]
        /\ proven \in [Id -> SUBSET Nat] /\ back \in [Id -> Nat]
    BY DEF Init
  <2>4. seq \in 0 .. MaxExecutions /\ ends \in 0 .. MaxEnds BY <1>5
  <2> QED BY <1>5, <2>1, <2>2, <2>3, <2>4 DEF TypeOK
<1>7. Fresh /\ Lengths /\ ExecutableSound /\ HistorySound /\ ArrivalIsKnown
  BY <1>3, <1>4, <1>5 DEF Fresh, Lengths, ExecutableSound, HistorySound, ArrivalIsKnown, Id
<1>8. BlockedInOrder BY <1>3 DEF BlockedInOrder
<1>9. RunsSound /\ WindowsSound /\ SavedSound
  BY <1>5 DEF RunsSound, WindowsSound, SavedSound
<1>10. ListedSound BY <1>5 DEF ListedSound
<1>11. SentSound BY <1>4, <1>5 DEF SentSound
<1> QED BY <1>6, <1>7, <1>8, <1>9, <1>10, <1>11 DEF ExecInv

LEMMA NextPreserves ==
    ASSUME ExecInv, FoundInv, [Next]_vars
    PROVE  ExecInv' /\ (ends' = ends => NoNewOrphan)
<1>1. CASE Next
  <2>1. CASE Record BY <2>1, RecordPreserves
  <2>2. CASE Remove BY <2>2, RemovePreserves
  <2>3. CASE End
    <3>1. ends \in Nat /\ ends' = ends + 1 BY <2>3 DEF End, ExecInv, TypeOK
    <3> QED BY <2>3, <3>1, EndPreserves
  <2>4. CASE Ready BY <2>4, ReadyPreserves
  <2>5. CASE \E c \in Chain : RemoveChain(c) BY <2>5, RemoveChainPreserves
  <2>6. CASE \E w \in Window : Resume(w) BY <2>6, ResumePreserves
  <2>7. CASE \E w \in Window, e \in Id : Continue(w, e) BY <2>7, ContinuePreserves
  <2>8. CASE \E e \in Id : Execute(e) BY <2>8, ExecutePreserves
  <2>9. CASE \E e \in Id : Source(e) \/ Poll(e) \/ Reply(e) \/ NoReply(e) \/ AssetTracked(e)
    BY <2>9, SourcePreserves, PollPreserves, ReplyPreserves, AssetTrackedPreserves
  <2>10. CASE ExecutionsSaved \/ HistoriesSaved BY <2>10, SavesPreserve
  <2> QED BY <1>1, <2>1, <2>2, <2>3, <2>4, <2>5, <2>6, <2>7, <2>8, <2>9, <2>10 DEF Next
<1>2. CASE UNCHANGED vars
  <2>1. /\ seq' = seq /\ execution' = execution /\ listed' = listed /\ run' = run
        /\ history' = history /\ tracker' = tracker /\ ready' = ready /\ bus' = bus
        /\ savedExecution' = savedExecution /\ savedHistory' = savedHistory
        /\ window' = window /\ sends' = sends /\ proven' = proven /\ arrived' = arrived
        /\ lost' = lost /\ failed' = failed /\ back' = back /\ ends' = ends
    BY <1>2 DEF vars, executor, recent, stored, told
  <2>2. TypeOK BY DEF ExecInv
  <2>3. Unmoved BY <2>1, <2>2 DEF Unmoved, TypeOK
  <2>4. tracker' \in [Id -> Stages] BY <2>1, <2>2 DEF TypeOK, Stages
  <2> QED BY <2>1, <2>2, <2>3, <2>4, HistoriesStay, StillPreserves
<1> QED BY <1>1, <1>2

-----------------------------------------------------------------------------
(* An execution that waits has a history. *)

\* The record of d is that of before, but more chains may be executable.
Kept(d) ==
    /\ execution'[d].status = execution[d].status
    /\ execution'[d].recorded = execution[d].recorded
    /\ execution'[d].historyData = execution[d].historyData
    /\ execution'[d].plan = execution[d].plan
    /\ execution'[d].txs = execution[d].txs
    /\ execution'[d].signed = execution[d].signed
    /\ execution[d].executable \subseteq execution'[d].executable

LEMMA ListedType ==
    ASSUME TypeOK
    PROVE  listed \subseteq Id
BY DEF TypeOK, Id

LEMMA FoundStill ==
    ASSUME TypeOK, FoundInv, listed' \subseteq listed,
           \A d \in Id : Kept(d) /\ run'[d] \in {None, run[d]}
    PROVE  FoundInv'
<1>1. ASSUME NEW d \in Id, run'[d] # None PROVE Finds(execution[d], run[d].at)'
  <2>1. Finds(execution[d], run[d].at) /\ run'[d] = run[d] /\ Kept(d)
    BY <1>1 DEF FoundInv
  <2> QED BY <2>1 DEF Finds, Earned, FirstGoes, Kept
<1>2. BlockedWasRecorded'
  BY ListedType DEF FoundInv, BlockedWasRecorded, Kept
<1>3. BlockedTxRecorded'
  BY DEF FoundInv, BlockedTxRecorded, Kept
<1> QED BY <1>1, <1>2, <1>3 DEF FoundInv

LEMMA SameIsKept ==
    ASSUME NEW d \in Id, execution' = execution
    PROVE  Kept(d)
BY DEF Kept

LEMMA HeardKeeps ==
    ASSUME TypeOK, NEW events, Heard(events)
    PROVE  listed' \subseteq listed /\ \A d \in Id : Kept(d)
<1> SUFFICES ASSUME NEW d \in Id PROVE listed' \subseteq listed /\ Kept(d)
  BY DEF Heard
<1> DEFINE more == UNION {v.chains : v \in {u \in events : u.type = "executable" /\ u.id = d}}
           x == [execution[d] EXCEPT !.executable = @ \cup more]
<1>1. listed' \subseteq listed /\ execution'[d] = IF d \in listed' THEN x ELSE execution[d]
  BY DEF Heard
<1>2. /\ x.status = execution[d].status /\ x.recorded = execution[d].recorded
      /\ x.historyData = execution[d].historyData /\ x.plan = execution[d].plan
      /\ x.txs = execution[d].txs /\ x.signed = execution[d].signed
      /\ x.executable = execution[d].executable \cup more
  BY ExecutionType DEF Execution
<1> HIDE DEF x
<1> QED BY <1>1, <1>2 DEF Kept

LEMMA PublishKeeps ==
    ASSUME TypeOK, NEW events, Publish(events)
    PROVE  listed' \subseteq listed /\ \A d \in Id : Kept(d)
BY HeardKeeps, SameIsKept DEF Publish

\* The record of an execution of which the current transaction has a result.
LEMMA MarkedFinds ==
    ASSUME ExecInv, NEW e \in Id, run[e] # None, NEW status \in TxStatus
    PROVE  LET x == Marked(e, status)
               old == execution[e]
               at == run[e].at
           IN  /\ x \in Execution /\ x.plan = old.plan /\ x.recorded = old.recorded
               /\ x.historyData = old.historyData /\ x.executable = old.executable
               /\ DOMAIN x.txs = DOMAIN old.txs /\ at \in DOMAIN old.txs
               /\ \A j \in DOMAIN old.txs : x.txs[j] = IF j = at THEN status ELSE old.txs[j]
<1>1. TypeOK /\ run[e].at \in 1 .. Len(execution[e].txs)
  BY DEF ExecInv, RunsSound
<1>2. DOMAIN execution[e].txs = 1 .. Len(execution[e].txs)
  BY <1>1, ExecutionType
<1> QED BY <1>1, <1>2, MarkedType

LEMMA FoundAfter ==
    ASSUME TypeOK, FoundInv, NEW e \in Id, listed' \subseteq listed,
           \A d \in Id : d # e => execution'[d] = execution[d] /\ run'[d] = run[d],
           run'[e] # None => Finds(execution'[e], run'[e].at),
           e \in listed' /\ execution'[e].status = "blocked" => execution'[e].recorded,
           (\E i \in DOMAIN execution'[e].txs : execution'[e].txs[i] = "blocked")
              => execution'[e].recorded
    PROVE  FoundInv'
<1>1. ASSUME NEW d \in Id, run'[d] # None PROVE Finds(execution'[d], run'[d].at)
  BY <1>1 DEF FoundInv
<1>2. ASSUME NEW d \in listed', execution'[d].status = "blocked"
      PROVE  execution'[d].recorded
  BY <1>2, ListedType DEF FoundInv, BlockedWasRecorded
<1>3. (\A d \in Id : run[d] # None => Finds(execution[d], run[d].at))'
  BY <1>1 DEF Finds, Earned, FirstGoes
<1>4. BlockedTxRecorded'
  BY DEF FoundInv, BlockedTxRecorded
<1> QED BY <1>2, <1>3, <1>4 DEF FoundInv, BlockedWasRecorded

LEMMA ConfirmFinds ==
    ASSUME ExecInv, FoundInv, NEW e \in Id, run[e] # None, Confirm(e)
    PROVE  FoundInv'
<1> DEFINE x == Marked(e, "confirmed")
           old == execution[e]
           at == run[e].at
<1>1. /\ TypeOK /\ old.status = "processing" /\ at \in Nat /\ run[e].given \in Nat
      /\ Finds(old, at)
  BY RunType DEF ExecInv, RunsSound, FoundInv, TypeOK, Run
<1>2. /\ x \in Execution /\ x.plan = old.plan /\ x.recorded = old.recorded
      /\ x.historyData = old.historyData /\ x.executable = old.executable
      /\ DOMAIN x.txs = DOMAIN old.txs /\ at \in DOMAIN old.txs
      /\ \A j \in DOMAIN old.txs : x.txs[j] = IF j = at THEN "confirmed" ELSE old.txs[j]
  BY MarkedFinds DEF TxStatus
<1>3. x.status = "processing"
  BY <1>1, ExecutionType DEF Marked, Execution
<1>6. (\E i \in DOMAIN x.txs : x.txs[i] = "blocked") => x.recorded
  BY <1>2 DEF FoundInv, BlockedTxRecorded
<1>4. CASE at < Len(execution[e].txs)
  <2>1. /\ execution' = [execution EXCEPT ![e] = x] /\ listed' = listed
        /\ Begins(e, at + 1, run[e].given)
    BY <1>4 DEF Confirm
  <2> HIDE DEF x
  <2>2. execution'[e] = x /\ \A d \in Id : d # e => execution'[d] = execution[d]
    BY <1>1, <2>1 DEF TypeOK
  <2>3. \A d \in Id : d # e => run'[d] = run[d]
    BY <1>1, <2>1 DEF Begins, TypeOK
  <2>4. Finds(x, at + 1)
    <3>1. Earned(old) => Earned(x)
      BY <1>2 DEF Earned
    <3>2. at = 1 /\ FirstGoes(old) => Earned(x)
      BY <1>2 DEF Earned, FirstGoes
    <3> QED BY <1>1, <1>2, <3>1, <3>2 DEF Finds
  <2>5. run'[e].at = at + 1
    BY <1>1, <2>1 DEF Begins, TypeOK
  <2> QED BY <1>1, <1>3, <1>6, <2>1, <2>2, <2>3, <2>4, <2>5, FoundAfter
<1>5. CASE ~(at < Len(execution[e].txs))
  <2>1. /\ execution' = [execution EXCEPT ![e] = [x EXCEPT !.recorded = @ \/ NeedsHistory(x)]]
        /\ listed' = listed \ {e} /\ run' = [run EXCEPT ![e] = None]
    BY <1>5 DEF Confirm, Complete
  <2>2. \A d \in Id : d # e => execution'[d] = execution[d] /\ run'[d] = run[d]
    BY <1>1, <2>1 DEF TypeOK
  <2>3. run'[e] = None /\ e \notin listed' /\ listed' \subseteq listed
    BY <1>1, <2>1 DEF TypeOK
  <2> HIDE DEF x
  <2> DEFINE y == [x EXCEPT !.recorded = @ \/ NeedsHistory(x)]
  <2>4. y.txs = x.txs /\ (x.recorded => y.recorded)
    BY <1>2 DEF Execution
  <2>5. execution'[e] = y
    BY <1>1, <2>1 DEF TypeOK
  <2> HIDE DEF y
  <2> QED BY <1>1, <1>6, <2>2, <2>3, <2>4, <2>5, FoundAfter
<1> QED BY <1>4, <1>5

LEMMA FailFinds ==
    ASSUME ExecInv, FoundInv, NEW e \in Id, run[e] # None, Fail(e)
    PROVE  FoundInv'
<1>1. /\ TypeOK /\ execution' = [execution EXCEPT ![e] = Marked(e, "failed")]
      /\ listed' = listed \ {e} /\ run' = [run EXCEPT ![e] = None]
  BY DEF Fail, ExecInv
<1>2. /\ \A d \in Id : d # e => execution'[d] = execution[d] /\ run'[d] = run[d]
      /\ run'[e] = None /\ e \notin listed' /\ listed' \subseteq listed
  BY <1>1 DEF TypeOK
<1>3. (\E i \in DOMAIN execution'[e].txs : execution'[e].txs[i] = "blocked")
         => execution'[e].recorded
  <2> DEFINE x == Marked(e, "failed")
  <2>1. /\ x.recorded = execution[e].recorded /\ DOMAIN x.txs = DOMAIN execution[e].txs
        /\ \A j \in DOMAIN execution[e].txs :
              x.txs[j] = IF j = run[e].at THEN "failed" ELSE execution[e].txs[j]
    BY MarkedFinds DEF TxStatus
  <2>2. execution'[e] = x
    BY <1>1 DEF TypeOK
  <2> HIDE DEF x
  <2> QED BY <2>1, <2>2 DEF FoundInv, BlockedTxRecorded
<1> QED BY <1>1, <1>2, <1>3, FoundAfter

LEMMA BlockFinds ==
    ASSUME ExecInv, FoundInv, NEW e \in Id, run[e] # None, Block(e),
           execution[e].txs[run[e].at] \in {"pending", "blocked"},
           \/ execution[e].plan.chains[run[e].at] \notin execution[e].executable
           \/ PreventAutoSign(execution[e].plan) /\ ~HasSignature(e)
    PROVE  FoundInv'
<1> DEFINE m == Marked(e, "blocked")
           x == [m EXCEPT !.status = "blocked"]
           y == [x EXCEPT !.recorded = @ \/ NeedsHistory(x), !.historyData = FALSE]
           old == execution[e]
           at == run[e].at
<1>1. TypeOK /\ Finds(old, at)
  BY DEF ExecInv, FoundInv
<1>2. /\ m \in Execution /\ m.plan = old.plan /\ m.recorded = old.recorded
      /\ m.historyData = old.historyData /\ m.executable = old.executable
      /\ DOMAIN m.txs = DOMAIN old.txs
      /\ \A j \in DOMAIN old.txs : m.txs[j] = IF j = at THEN "blocked" ELSE old.txs[j]
  BY MarkedFinds DEF TxStatus
<1>3. /\ execution' = [execution EXCEPT ![e] = y] /\ listed' = listed
      /\ run' = [run EXCEPT ![e] = None]
  BY DEF Block
<1> HIDE DEF m
<1>4. /\ x.plan = m.plan /\ x.recorded = m.recorded /\ x.historyData = m.historyData
      /\ x.executable = m.executable /\ x.txs = m.txs /\ x \in Execution
  BY <1>2 DEF Execution
<1> HIDE DEF x
<1>5. y.recorded = (x.recorded \/ NeedsHistory(x))
  BY <1>4 DEF Execution
<1> HIDE DEF y
<1>6. x.recorded \/ NeedsHistory(x)
  <2>1. ~(at = 1 /\ FirstGoes(old))
    BY DEF FirstGoes, HasSignature
  <2>2. Earned(old) => Earned(x)
    BY <1>2, <1>4 DEF Earned
  <2> QED BY <1>1, <1>2, <1>4, <2>1, <2>2 DEF Finds, Earned, NeedsHistory
<1>7. /\ execution'[e].recorded /\ run'[e] = None
      /\ \A d \in Id : d # e => execution'[d] = execution[d] /\ run'[d] = run[d]
  BY <1>1, <1>3, <1>5, <1>6 DEF TypeOK
<1> QED BY <1>1, <1>3, <1>7, FoundAfter

LEMMA GoesFinds ==
    ASSUME ExecInv, FoundInv, NEW e \in Id, run[e] # None,
           NEW phase \in {"signs", "sends", "traces"}, Goes(e, phase)
    PROVE  FoundInv'
<1>1. /\ TypeOK /\ Finds(execution[e], run[e].at)
      /\ execution' = execution /\ listed' = listed
      /\ run' = [run EXCEPT ![e].phase = phase]
  BY DEF Goes, ExecInv, FoundInv
<1>2. /\ run'[e].at = run[e].at
      /\ \A d \in Id : d # e => run'[d] = run[d]
  BY <1>1, RunType DEF TypeOK, Run
<1>3. /\ e \in listed' /\ execution'[e].status = "blocked" => execution'[e].recorded
      /\ (\E i \in DOMAIN execution'[e].txs : execution'[e].txs[i] = "blocked")
            => execution'[e].recorded
  BY <1>1 DEF FoundInv, BlockedWasRecorded, BlockedTxRecorded
<1> QED BY <1>1, <1>2, <1>3, FoundAfter

LEMMA ExecuteFinds ==
    ASSUME ExecInv, FoundInv, NEW e \in Id, Execute(e)
    PROVE  FoundInv'
<1>0. run[e] # None
  BY DEF Execute
<1>1. CASE Start(e)
  BY <1>0, <1>1, ConfirmFinds, BlockFinds, GoesFinds DEF Start
<1>2. CASE Sign(e)
  BY <1>0, <1>2, FailFinds, GoesFinds DEF Sign
<1>3. CASE Send(e)
  BY <1>0, <1>3, FailFinds, GoesFinds DEF Send
<1>4. CASE Trace(e)
  BY <1>0, <1>4, FailFinds, ConfirmFinds DEF Trace
<1> QED BY <1>1, <1>2, <1>3, <1>4 DEF Execute

LEMMA RecordFinds ==
    ASSUME ExecInv, FoundInv, Record
    PROVE  FoundInv'
<1> DEFINE p == execution[seq].plan
           x == New(p)
<1>1. /\ TypeOK /\ seq \in Id
      /\ execution' = [execution EXCEPT ![seq] = x] /\ listed' = listed \cup {seq}
      /\ Begins(seq, 1, 0)
  BY DEF Record, ExecInv, TypeOK, Id
<1>2. p \in Plans
  BY <1>1, ExecutionType
<1>3. /\ x \in Execution /\ x.plan = p /\ x.status = "processing"
      /\ Len(x.txs) = Len(p.chains)
      /\ \A i \in 1 .. Len(p.chains) :
            x.txs[i] = IF i \in p.done THEN "confirmed" ELSE "pending"
      /\ x.executable = p.executable
  BY <1>2, NewType
<1>4. x.historyData = TRUE /\ x.signed = p.signed
  BY DEF New
<1> HIDE DEF x
<1>5. /\ execution'[seq] = x /\ run'[seq] # None /\ run'[seq].at = 1
      /\ \A d \in Id : d # seq => execution'[d] = execution[d] /\ run'[d] = run[d]
  <2> DEFINE r == [at |-> 1, given |-> 0, phase |-> "starts"]
  <2>1. r \in Run /\ r.at = 1
    BY DEF Run
  <2>2. run' = [run EXCEPT ![seq] = r]
    BY <1>1 DEF Begins
  <2> HIDE DEF r
  <2> QED BY <1>1, <2>1, <2>2 DEF TypeOK
<1>6. Finds(x, 1)
  <2>1. FirstCanGo(p) /\ 1 \in 1 .. Len(p.chains)
    BY <1>2, PageAssumption, PlanType
  <2> QED BY <1>3, <1>4, <2>1 DEF FirstCanGo, Executable, Finds, FirstGoes
<1>7. ASSUME NEW d \in Id, run'[d] # None PROVE Finds(execution'[d], run'[d].at)
  BY <1>5, <1>6, <1>7 DEF FoundInv
<1>8. ASSUME NEW d \in listed', execution'[d].status = "blocked"
      PROVE  execution'[d].recorded
  <2>1. d \in Id
    BY <1>1, ListedType
  <2> QED BY <1>1, <1>3, <1>5, <1>8, <2>1 DEF FoundInv, BlockedWasRecorded
<1>9. (\A d \in Id : run[d] # None => Finds(execution[d], run[d].at))'
  BY <1>7 DEF Finds, Earned, FirstGoes
<1>10. BlockedTxRecorded'
  <2>1. DOMAIN x.txs = 1 .. Len(p.chains)
    <3>1. x.txs \in Seq(TxStatus) BY <1>3 DEF Execution
    <3> QED BY <1>3, <3>1, LenProperties
  <2>2. \A i \in DOMAIN x.txs : x.txs[i] # "blocked" BY <1>3, <2>1
  <2> QED BY <1>5, <2>2 DEF FoundInv, BlockedTxRecorded
<1> QED BY <1>8, <1>9, <1>10 DEF FoundInv, BlockedWasRecorded

LEMMA ResumeFinds ==
    ASSUME ExecInv, FoundInv, NEW w \in Window, Resume(w)
    PROVE  FoundInv'
<1> DEFINE e == window[w].id
<1>1. TypeOK /\ listed' = listed /\ e \in Id /\ window[w].at \in Nat
  BY DEF Resume, ExecInv, TypeOK
<1>2. CASE execution' = execution /\ run' = run
  BY <1>1, <1>2, FoundStill, SameIsKept
<1>3. CASE /\ e \in listed /\ execution[e].status = "blocked"
           /\ execution' = [execution EXCEPT ![e].status = "processing"]
           /\ Begins(e, window[w].at, window[w].at)
  <2>1. execution[e].recorded
    BY <1>3 DEF FoundInv, BlockedWasRecorded
  <2>2. execution'[e].recorded /\ \A d \in Id : d # e => execution'[d] = execution[d]
    BY <1>1, <1>3, <2>1, ExecutionType DEF TypeOK, Execution
  <2>3. \A d \in Id : d # e => run'[d] = run[d]
    BY <1>1, <1>3 DEF Begins, TypeOK
  <2>4. Finds(execution'[e], run'[e].at)
    BY <2>2 DEF Finds
  <2> HIDE DEF e
  <2> QED BY <1>1, <2>2, <2>3, <2>4, FoundAfter
<1> QED BY <1>2, <1>3 DEF Resume

LEMMA ToldKeeps ==
    ASSUME TypeOK, NEW e, NEW h, NEW more, Told(e, h, more)
    PROVE  listed' \subseteq listed /\ \A d \in Id : Kept(d)
BY PublishKeeps, SameIsKept DEF Told

LEMMA NextFinds == ExecInv /\ FoundInv /\ [Next]_vars => FoundInv'
<1> SUFFICES ASSUME ExecInv, FoundInv, [Next]_vars PROVE FoundInv'
  OBVIOUS
<1>0. TypeOK
  BY DEF ExecInv
<1>1. ASSUME run' = run, listed' \subseteq listed, \A d \in Id : Kept(d) PROVE FoundInv'
  BY <1>0, <1>1, FoundStill
<1>2. ASSUME run' = run, listed' = listed, execution' = execution PROVE FoundInv'
  BY <1>1, <1>2, SameIsKept
<1>3. ASSUME NEW events, Publish(events), run' = run PROVE FoundInv'
  BY <1>0, <1>1, <1>3, PublishKeeps
<1>4. CASE Remove
  BY <1>3, <1>4 DEF Remove, RemoveHistories
<1>5. CASE End
  <2>0. /\ listed' = {d \in Id : savedExecution[d] # None}
        /\ execution' = [d \in Id |-> IF d \in listed' THEN savedExecution[d] ELSE execution[d]]
        /\ run' = [d \in Id |-> None]
    BY <1>5 DEF End
  <2>1. ASSUME NEW d \in Id
        PROVE  /\ run'[d] = None
               /\ d \in listed' => savedExecution[d] # None /\ execution'[d] = savedExecution[d]
               /\ d \notin listed' => execution'[d] = execution[d]
    BY <2>0
  <2>2. ASSUME NEW d \in Id, d \in listed' PROVE execution'[d].recorded
    <3>1. savedExecution[d] # None /\ execution'[d] = savedExecution[d] BY <2>1, <2>2
    <3>2. Stored(d, savedExecution[d]) BY <3>1 DEF ExecInv, SavedSound
    <3> QED BY <3>1, <3>2 DEF Stored
  <2>3. BlockedTxRecorded'
    <3> SUFFICES ASSUME NEW d \in Id, NEW i \in DOMAIN execution'[d].txs,
                        execution'[d].txs[i] = "blocked"
                 PROVE  execution'[d].recorded
      BY DEF BlockedTxRecorded
    <3>1. CASE d \in listed' BY <2>2, <3>1
    <3>2. CASE d \notin listed'
      <4>1. execution'[d] = execution[d] BY <2>1, <3>2
      <4> QED BY <4>1 DEF FoundInv, BlockedTxRecorded
    <3> QED BY <3>1, <3>2
  <2>4. BlockedWasRecorded' BY <2>0, <2>2 DEF BlockedWasRecorded
  <2>5. (\A d \in Id : run[d] # None => Finds(execution[d], run[d].at))' BY <2>1
  <2> QED BY <2>3, <2>4, <2>5 DEF FoundInv
<1>6. CASE Ready
  BY <1>0, <1>1, <1>6, HeardKeeps DEF Ready
<1>7. CASE \/ \E c \in Chain : RemoveChain(c)
           \/ \E w \in Window, e \in Id : Continue(w, e)
           \/ UNCHANGED vars \/ ExecutionsSaved \/ HistoriesSaved
           \/ \E e \in Id : Poll(e) \/ NoReply(e) \/ AssetTracked(e)
  BY <1>2, <1>7 DEF RemoveChain, Continue, Poll, NoReply, AssetTracked, ExecutionsSaved,
                   HistoriesSaved, vars, executor
<1>8. ASSUME NEW e \in Id, Source(e) PROVE FoundInv'
  BY <1>2, <1>3, <1>8 DEF Source, RemoveHistories
<1>9. ASSUME NEW e \in Id, Reply(e) PROVE FoundInv'
  <2>0. run' = run
    BY <1>9 DEF Reply
  <2>1. ASSUME NEW h, NEW more, Told(e, h, more) PROVE FoundInv'
    BY <1>0, <1>1, <2>0, <2>1, ToldKeeps
  <2>2. ASSUME NEW h, Untold(e, h) PROVE FoundInv'
    BY <1>2, <2>0, <2>2 DEF Untold
  <2>3. ASSUME NEW h,
               \/ Later(e, h) \/ Progress(e, h) \/ Over(e, h)
               \/ Arrive(e, h) \/ Strand(e, h) \/ Break(e, h)
        PROVE  FoundInv'
    <3>1. CASE Later(e, h) \/ Over(e, h)
      BY <2>2, <3>1 DEF Later, Over
    <3>2. CASE Progress(e, h)
      BY <2>1, <3>2 DEF Progress
    <3>3. CASE Arrive(e, h)
      BY <2>1, <3>3 DEF Arrive
    <3>4. CASE Strand(e, h)
      BY <2>1, <3>4 DEF Strand
    <3>5. CASE Break(e, h)
      BY <2>1, <3>5 DEF Break
    <3> QED BY <2>3, <3>1, <3>2, <3>3, <3>4, <3>5
  <2> QED BY <1>2, <1>9, <2>0, <2>3 DEF Reply
<1> QED BY <1>4, <1>5, <1>6, <1>7, <1>8, <1>9,
           RecordFinds, ResumeFinds, ExecuteFinds DEF Next

-----------------------------------------------------------------------------
(* The theorems. *)

LEMMA InitFinds == Init => FoundInv
<1> SUFFICES ASSUME Init PROVE FoundInv
  OBVIOUS
<1>1. \A e \in Id : run[e] = None /\ e \notin listed
  BY DEF Init
<1>2. \A e \in Id : DOMAIN execution[e].txs = {}
  <2> TAKE e \in Id
  <2>1. PICK p \in Plans : execution[e] = NoRecord(p) BY DEF Init
  <2>2. execution[e].txs = <<>> BY <2>1 DEF NoRecord
  <2> QED BY <2>2
<1>3. listed = {}
  BY DEF Init
<1> QED BY <1>1, <1>2, <1>3 DEF FoundInv, BlockedWasRecorded, BlockedTxRecorded

\* The inductive invariant holds in every reachable state, with records of any
\* age in the storage at every end of the background.
THEOREM ExecInvHolds == Spec => [](ExecInv /\ FoundInv)
<1>1. Init => ExecInv /\ FoundInv BY InitHolds, InitFinds
<1>2. ExecInv /\ FoundInv /\ [Next]_vars => ExecInv' /\ FoundInv'
  BY NextPreserves, NextFinds
<1> QED BY <1>1, <1>2, PTL DEF Spec

\* The variables stay in their types.
THEOREM TypeIsInvariant == Spec => []TypeOK
<1>1. ExecInv => TypeOK BY DEF ExecInv
<1> QED BY <1>1, ExecInvHolds, PTL

\* executeTxs() and resumeTx() send no transaction twice, for any plans, windows
\* and writes that fail, unless the background has started with an older record of
\* its execution; then once more, for each time.
THEOREM NothingIsSentTwice == Spec => []SentOnce
<1>1. ExecInv => SentOnce
  <2> SUFFICES ASSUME ExecInv, NEW e \in Id, NEW i \in DOMAIN sends[e]
               PROVE  sends[e][i] <= 1 + back[e]
    BY DEF SentOnce
  <2>1. TypeOK /\ SentSound BY DEF ExecInv
  <2>2. i \in 1 .. Len(sends[e]) BY <2>1, ExecutionType
  <2> QED BY <2>1, <2>2 DEF SentSound
<1> QED BY <1>1, ExecInvHolds, PTL

\* A transaction is sent only after those before it were confirmed, whatever
\* record of its execution the background has started with.
THEOREM TransactionsAreInOrder == Spec => []SentInOrder
<1>1. ExecInv => SentInOrder
  <2> SUFFICES ASSUME ExecInv, NEW e \in Id, NEW i \in DOMAIN sends[e], sends[e][i] > 0
               PROVE  \A j \in 1 .. i - 1 : j \in proven[e]
    BY DEF SentInOrder
  <2>1. TypeOK /\ SentSound BY DEF ExecInv
  <2>2. i \in 1 .. Len(sends[e]) BY <2>1, ExecutionType
  <2> QED BY <2>1, <2>2 DEF SentSound, AllBefore
<1> QED BY <1>1, ExecInvHolds, PTL

\* A transaction is sent only where the page or the tracker knew it could be.
THEOREM FundsAreThere == Spec => []SentWhereArrived
<1>1. ExecInv => SentWhereArrived
  <2> SUFFICES ASSUME ExecInv, NEW e \in Id, NEW i \in DOMAIN sends[e], sends[e][i] > 0
               PROVE  execution[e].plan.chains[i] \in execution[e].plan.executable \cup arrived[e]
    BY DEF SentWhereArrived
  <2>1. TypeOK /\ SentSound BY DEF ExecInv
  <2>2. i \in 1 .. Len(sends[e]) BY <2>1, ExecutionType
  <2> QED BY <2>1, <2>2 DEF SentSound
<1> QED BY <1>1, ExecInvHolds, PTL

\* What the tracker tells of reaches the execution, unless an end loses the bus or
\* comes before the record with it is stored.
THEOREM ArrivalReachesExecutor == Spec => []ArrivalIsKnown
<1>1. ExecInv => ArrivalIsKnown BY DEF ExecInv
<1> QED BY <1>1, ExecInvHolds, PTL

\* executeTxs() and the bus leave no history behind that waits for an execution
\* which is gone and has not failed.
THEOREM LinksAreLive == Spec => LinkIsLive
<1>1. ExecInv /\ FoundInv /\ [Next]_vars
         => [ ends' = ends => \A e \in Id : Orphan(e)' => Orphan(e) ]_vars
  BY NextPreserves DEF NoNewOrphan
<1> QED BY <1>1, ExecInvHolds, PTL DEF Spec, LinkIsLive

\* executeTxs() leaves no execution waiting, whatever windows, restarts and late
\* answers come between, that the list of histories does not show.
THEOREM WaitingIsFound == Spec => []BlockedWasRecorded
<1>1. FoundInv => BlockedWasRecorded
  BY DEF FoundInv
<1> QED BY <1>1, ExecInvHolds, PTL

=============================================================================
