---------------------------- MODULE IbcTrackerInv ----------------------------
(* The inductive invariant of IbcTracker: what the chains guarantee, what a   *)
(* flow knows, and what a record holds.  IbcTrackerProofs proves it.          *)
EXTENDS IbcTracker

\* A packet is sent after the ones before it were received, and at once.
ChainInv ==
    /\ tx = "ok" => packet[1] # "none"
    /\ \A i \in Hops :
         /\ packet[i] # "none" => tx = "ok" /\ \A j \in 1..(i - 1) : packet[j] = "received"
         /\ packet[i] = "received" /\ i < N => packet[i + 1] # "none"

\* An answer in hand is about what happened, and stays so.
FlowInv ==
    \A f \in Flows :
      /\ flow[f].at \in {"hop", "rewind"} => flow[f].hop \in Hops
      /\ flow[f].loop = "waits" => flow[f].tries < MaxTries
      /\ flow[f].got =>
           \/ flow[f].at = "tx" /\ tx # "pending"
           \/ flow[f].at = "hop" /\ packet[flow[f].hop] \in {"received", "refused", "expired"}
           \/ flow[f].at = "rewind" /\ refund[flow[f].hop] # "none"

\* Before the record exists nothing is tracked and nothing was told.
UnrecordedInv ==
    api = "broadcast" =>
      /\ rec = Blank /\ durable = {Blank} /\ told = 0
      /\ \A f \in Flows : flow[f].at = "rest"

\* All notifications that one start of the background may give are given when
\* the record says so.
ToldInv == told = ends + 1 => rec.notified

\* The inductive invariant of the tracker: chains, flows, record and user agree.
TrackerInv ==
    /\ ChainInv /\ FlowInv /\ UnrecordedInv /\ ToldInv
    /\ RecordIsTrue /\ ToldOfDelivery /\ SuccessIsDelivery

-----------------------------------------------------------------------------
(* TrackInv: a flow that comes to rest leaves a record that is at its end.    *)

\* The tokens were seen on their way to the chain that sends packet i.
Reached(r, i) ==
    /\ r.fulfilled
    /\ \A j \in 1..i : r.seq[j] # "no"
    /\ \A j \in 1..(i - 1) : r.completed[j]

\* Those of a packet that failed were seen on their way back to the i-th chain.
CameTo(r, i) == \E k \in Failed(r) : i <= k /\ \A j \in (i + 1)..k : r.rewound[j]

Shape(r) ==
    /\ r.fulfilled => r.seq[1] # "no"
    /\ \A i \in Hops : r.completed[i] \/ r.error[i] => Reached(r, i)
    /\ \A i \in Hops : r.rewound[i] => CameTo(r, i)

\* A flow is about where the tokens are, or were.
FlowShape ==
    \A f \in Flows :
      /\ flow[f].at = "rest" => flow[f].loop = "over"
      /\ flow[f].got => flow[f].loop # "over"
      /\ flow[f].at = "hop" => Reached(rec, flow[f].hop)
      /\ flow[f].at = "rewind" => CameTo(rec, flow[f].hop)

TrackInv ==
    /\ Shape(rec) /\ \A r \in durable : Shape(r)
    /\ FlowShape
    /\ Tracked

-----------------------------------------------------------------------------
(* ResultInv: without faults one flow collects the results in their order.    *)

Results(n) == [i \in 1..n |-> i - 1]

\* What a record holds of a swap that has not failed.
Collected(r) ==
    /\ ~r.fulfilled => r.results = <<>>
    /\ r.fulfilled /\ Failed(r) = {} =>
         r.results = IF Ahead(r) = {} THEN Results(N + 1) ELSE Results(First(Ahead(r)))

\* What a flow watches is not in the record yet; a failed websocket had no answer.
About(x, r) ==
    /\ x.got => x.loop = "runs"
    /\ x.loop = "over" => x.at = "rest"
    /\ x.at = "tx" => ~r.fulfilled
    /\ x.at = "hop" => Failed(r) = {} /\ Ahead(r) # {} /\ x.hop = First(Ahead(r))
    /\ x.at = "rewind" => Failed(r) # {}

\* One flow is under way.
Alone ==
    /\ \A f, g \in Flows : flow[f].loop # "over" /\ flow[g].loop # "over" => f = g
    /\ \A f \in Flows : About(flow[f], rec)

ResultInv == ends = 0 /\ errors = 0 => Alone /\ (swapTarget # 0 => Collected(rec))
=============================================================================
