----------------------------- MODULE IbcTracker -----------------------------
(***************************************************************************)
(* The IBC packet tracker of RecentSendHistoryService                      *)
(* (packages/background/src/recent-send-history/service.ts).  A transfer   *)
(* or a swap over IBC is a transaction and N packets, each sent by the     *)
(* chain that received the one before.  The tracker watches one of them    *)
(* after the other through websockets, keeps what it saw in a record that  *)
(* is stored at every change, and follows the refund backwards when a      *)
(* packet fails.                                                           *)
(*                                                                         *)
(* One record is modelled.  The chains are external: a forwarding chain    *)
(* acknowledges a packet when the next one is settled, with an error when  *)
(* that one came back; a swap contract keeps what comes back to it.        *)
(* An answer of a node is handled a moment (100 ms) after it came, and a   *)
(* closed websocket counts as a failure 500 ms later: an answer in hand    *)
(* goes first.  A websocket that fails counts at once.                     *)
(* Left out: other records (they share nothing but the storage item), the  *)
(* amounts, the receivers, chains that are removed, the hops that          *)
(* trackIbcHopFlowWithTimeout finds on the way (for SwapV2 records only).  *)
(***************************************************************************)
EXTENDS Integers, Sequences

CONSTANTS
    N,            \* how many packets the route has
    Flows,        \* tracking flows: loops of retry() that may run at once
    Routes,       \* positions in the route where a swap ends the way back
    MaxTries,     \* maxRetries of retry() (10 in the code)
    MaxFaults     \* bound: ends of the background, and websockets that fail
                  \* with an answer in hand

Hops == 1..N

ASSUME HopsAssumption == N \in Nat \ {0}

\* 0 is a plain transfer; N + 1 a swap on the last chain.
ASSUME RoutesAssumption == Routes \subseteq 0..(N + 1)

ASSUME FlowsAssumption == Flows # {}

ASSUME BoundsAssumption ==
    MaxTries \in Nat /\ MaxFaults \in Nat

VARIABLES
    swapTarget,   \* the hop after the swap (swapChannelIndex + 1); 0: no swap
    tx,           \* the first transaction on its chain
    packet,       \* what became of each packet
    refund,       \* how the chain that sent a packet learned of its failure
    api,          \* sendTxAndRecord(): broadcast, recorded, or lost
    rec,          \* the record in memory
    durable,      \* what the storage may hold when the background ends now
    flow,         \* the tracking flows
    told,         \* notifications of success the user got
    errors, ends  \* counters of the two kinds of faults

chainVars == <<swapTarget, tx, packet, refund>>
faultVars == <<errors, ends>>
vars == <<swapTarget, tx, packet, refund, api, rec, durable, flow, told, errors, ends>>

-----------------------------------------------------------------------------
\* A record: what the hops are known to have done.  `half`: the sequence of a
\* packet is stored and its destination channel is not.
Sequence == {"no", "half", "yes"}

Record == [present : BOOLEAN, fulfilled : BOOLEAN, seq : [Hops -> Sequence],
           completed : [Hops -> BOOLEAN], error : [Hops -> BOOLEAN],
           rewound : [Hops -> BOOLEAN], blocked : [Hops -> BOOLEAN],
           timeout : BOOLEAN, notified : BOOLEAN, results : Seq(0..N)]

Blank == [present |-> FALSE, fulfilled |-> FALSE, seq |-> [i \in Hops |-> "no"],
          completed |-> [i \in Hops |-> FALSE], error |-> [i \in Hops |-> FALSE],
          rewound |-> [i \in Hops |-> FALSE], blocked |-> [i \in Hops |-> FALSE],
          timeout |-> FALSE, notified |-> FALSE, results |-> <<>>]

First(S) == CHOOSE i \in S : \A j \in S : i <= j

Failed(r) == {i \in Hops : r.error[i]}

Returned(r) == {i \in Hops : r.rewound[i]}

Ahead(r) == {i \in Hops : ~r.completed[i]}

\* (mutant of Target: the refund of the failed packet is followed again)
Target_Failed(r) == First(Failed(r))

\* The hop whose refund is followed next; 0 when all are back.
Target(r) == IF Returned(r) = {} THEN First(Failed(r)) ELSE First(Returned(r)) - 1

\* What a new flow watches, decided in one go from the record.
Watch(r) ==
    CASE ~r.present -> [at |-> "rest", hop |-> 0]
      [] r.present /\ ~r.fulfilled -> [at |-> "tx", hop |-> 0]
      [] r.present /\ r.fulfilled /\ Failed(r) # {} ->
           IF (\E i \in Hops : r.blocked[i]) \/ Target(r) \notin Hops
           THEN [at |-> "rest", hop |-> 0]
           ELSE IF r.seq[Target(r)] = "no" THEN [at |-> "rest", hop |-> 0]
                ELSE [at |-> "rewind", hop |-> Target(r)]
      [] r.present /\ r.fulfilled /\ Failed(r) = {} ->
           IF Ahead(r) = {} THEN [at |-> "rest", hop |-> 0]
           ELSE IF r.seq[First(Ahead(r))] = "no" THEN [at |-> "rest", hop |-> 0]
                ELSE [at |-> "hop", hop |-> First(Ahead(r))]

\* A flow: what it watches, the state of its retry loop, how often it tried,
\* and whether an answer came that is not yet handled.
Flow == [at : {"rest", "tx", "hop", "rewind"}, hop : 0..N,
         loop : {"runs", "waits", "gaveUp", "over"}, tries : 0..MaxTries, got : BOOLEAN]

Begin(r, n) ==
    [at |-> Watch(r).at, hop |-> Watch(r).hop,
     loop |-> IF Watch(r).at = "rest" THEN "over" ELSE "runs", tries |-> n, got |-> FALSE]

Idle == [at |-> "rest", hop |-> 0, loop |-> "over", tries |-> 0, got |-> FALSE]

Free(f) == flow[f].loop \in {"over", "gaveUp"} /\ ~flow[f].got

Init ==
    /\ swapTarget \in Routes
    /\ tx = "pending"
    /\ packet = [i \in Hops |-> "none"]
    /\ refund = [i \in Hops |-> "none"]
    /\ api = "broadcast"
    /\ rec = Blank
    /\ durable = {Blank}
    /\ flow = [f \in Flows |-> Idle]
    /\ told = 0 /\ errors = 0 /\ ends = 0

-----------------------------------------------------------------------------
(***************************************************************************)
(* The chains.                                                             *)
(***************************************************************************)
Included ==
    /\ tx = "pending"
    /\ \/ tx' = "ok" /\ packet' = [packet EXCEPT ![1] = "sent"]
       \/ tx' = "failed" /\ UNCHANGED packet
    /\ UNCHANGED <<swapTarget, refund, api, rec, durable, flow, told, faultVars>>

\* The next chain takes packet i and forwards the tokens, or refuses it, or it
\* expires, which the sending chain reports.
Settled(i) ==
    /\ packet[i] = "sent"
    /\ \/ /\ packet' = [j \in Hops |-> IF j = i THEN "received"
                                       ELSE IF j = i + 1 THEN "sent" ELSE packet[j]]
          /\ UNCHANGED refund
       \/ packet' = [packet EXCEPT ![i] = "refused"] /\ UNCHANGED refund
       \/ /\ packet' = [packet EXCEPT ![i] = "expired"]
          /\ refund' = [refund EXCEPT ![i] = "timeout"]
    /\ UNCHANGED <<swapTarget, tx, api, rec, durable, flow, told, faultVars>>

\* The sender of packet i learns that it was refused, or that what it became
\* has come back: by an acknowledgement or, when the next packet expired, by a
\* timeout as handleIbcRewindIfNeeded() expects.
Refunded(i) ==
    /\ refund[i] = "none"
    /\ \/ packet[i] = "refused" /\ refund' = [refund EXCEPT ![i] = "ack"]
       \/ /\ i + 1 \in Hops /\ i + 1 # swapTarget /\ refund[i + 1] # "none"
          /\ \E how \in {"ack", refund[i + 1]} : refund' = [refund EXCEPT ![i] = how]
    /\ UNCHANGED <<swapTarget, tx, packet, api, rec, durable, flow, told, faultVars>>

-----------------------------------------------------------------------------
(***************************************************************************)
(* The record and its storage.  Every change outside of an action of MobX  *)
(* stores a snapshot that nobody awaits; they reach the storage in order,  *)
(* and an end of the background loses those that did not.                  *)
(***************************************************************************)
Store(snapshots) ==
    durable' = IF rec.present THEN durable \cup snapshots ELSE durable

Landed ==
    /\ durable' = {IF rec.present THEN rec ELSE Blank}
    /\ UNCHANGED <<chainVars, api, rec, flow, told, faultVars>>

\* sendTxAndRecord() after the broadcast: the record, and its first flow.
Recorded ==
    /\ api = "broadcast" /\ api' = "recorded"
    /\ rec' = [Blank EXCEPT !.present = TRUE]
    /\ durable' = durable \cup {rec'}
    /\ \E f \in Flows : flow' = [flow EXCEPT ![f] = Begin(rec', 0)]
    /\ UNCHANGED <<chainVars, told, faultVars>>

\* The user removes the record; a flow that runs keeps the object.
Removed ==
    /\ rec.present /\ rec' = [rec EXCEPT !.present = FALSE]
    /\ durable' = durable \cup {Blank}
    /\ UNCHANGED <<chainVars, api, flow, told, faultVars>>

-----------------------------------------------------------------------------
(***************************************************************************)
(* The flows.                                                              *)
(***************************************************************************)
\* What f waits for is on the chain it asks.
Seen(f) ==
    LET i == flow[f].hop IN
      \/ flow[f].at = "tx" /\ tx # "pending"
      \/ /\ flow[f].at = "hop"
         /\ \/ packet[i] \in {"received", "refused"} /\ rec.seq[i] = "yes"
            \/ packet[i] = "expired"
      \/ /\ flow[f].at = "rewind"
         /\ refund[i] = IF rec.timeout THEN "timeout" ELSE "ack"

Answered(f) ==
    /\ flow[f].loop = "runs" /\ ~flow[f].got /\ Seen(f)
    /\ flow' = [flow EXCEPT ![f].got = TRUE]
    /\ UNCHANGED <<chainVars, api, rec, durable, told, faultVars>>

\* retry() after a rejection.
Rejected(f) == IF flow[f].tries >= MaxTries THEN "gaveUp" ELSE "waits"

\* (mutant of Disconnected: a close is not delayed, an answer in hand is late)
Disconnected_AtOnce(f) ==
    /\ flow[f].loop = "runs"
    /\ flow' = [flow EXCEPT ![f].loop = Rejected(f)]
    /\ UNCHANGED <<chainVars, api, rec, durable, told, faultVars>>

\* The websocket closes or fails before an answer.
Disconnected(f) ==
    /\ flow[f].loop = "runs" /\ ~flow[f].got
    /\ flow' = [flow EXCEPT ![f].loop = Rejected(f)]
    /\ UNCHANGED <<chainVars, api, rec, durable, told, faultVars>>

\* It fails between the answer and its handling, which goes on all the same.
FailedLate(f) ==
    /\ errors + ends < MaxFaults /\ errors' = errors + 1
    /\ flow[f].loop = "runs" /\ flow[f].got
    /\ flow' = [flow EXCEPT ![f].loop = Rejected(f)]
    /\ UNCHANGED <<chainVars, api, rec, durable, told, ends>>

Retried(f) ==
    /\ flow[f].loop = "waits" /\ ~flow[f].got
    /\ flow' = [flow EXCEPT ![f] = Begin(rec, flow[f].tries + 1)]
    /\ UNCHANGED <<chainVars, api, rec, durable, told, faultVars>>

\* The answer is handled and nothing follows in this flow; one that failed
\* late is still to be tried again.
Stop(f) ==
    flow' = [flow EXCEPT ![f] = IF flow[f].loop = "waits"
                                THEN [flow[f] EXCEPT !.got = FALSE] ELSE Idle]

\* A new flow on the changed record: in the place of f, or beside f when f is
\* to be tried again.
Follow(f, r) ==
    IF flow[f].loop # "waits" THEN flow' = [flow EXCEPT ![f] = Begin(r, 0)]
    ELSE \E g \in Flows :
           /\ Free(g)
           /\ flow' = [flow EXCEPT ![f].got = FALSE, ![g] = Begin(r, 0)]

Handles(f, phase) == flow[f].got /\ flow[f].at = phase

\* The results of a swap, one per transaction that paid out something.
WithResult(r, i) ==
    IF swapTarget = 0 THEN r ELSE [r EXCEPT !.results = Append(@, i)]

\* The sequence of the packet that hop i sends is known first, then its
\* destination channel.
HalfKnown(r, i) == IF r.seq[i] = "no" THEN [r EXCEPT !.seq[i] = "half"] ELSE r

TxFailed(f) ==
    /\ Handles(f, "tx") /\ tx = "failed"
    /\ rec' = [rec EXCEPT !.present = FALSE]
    /\ Store({Blank})
    /\ Stop(f)
    /\ UNCHANGED <<chainVars, api, told, faultVars>>

TxFulfilled(f) ==
    /\ Handles(f, "tx") /\ tx = "ok"
    /\ LET half  == HalfKnown(rec, 1)
           known == [half EXCEPT !.seq[1] = "yes"]
       IN /\ rec' = WithResult([known EXCEPT !.fulfilled = TRUE], 0)
          /\ Store({half, known, rec'})
    /\ Follow(f, rec')
    /\ UNCHANGED <<chainVars, api, told, faultVars>>

\* The record as soon as the receipt of packet i is seen, before anything of
\* it is read.
Completed(i) == [rec EXCEPT !.completed[i] = TRUE]

\* The chain that takes a packet writes an acknowledgement at once unless it
\* forwards the packet.
Acknowledged(i) == packet[i] = "refused" \/ (packet[i] = "received" /\ i = N)

\* (mutant of HopRefused: the error in the acknowledgement is missed)
HopRefused_Missed(f) ==
    LET i == flow[f].hop IN
      /\ Handles(f, "hop") /\ packet[i] = "refused"
      /\ rec' = Completed(i)
      /\ Store({rec'})
      /\ Stop(f)
      /\ UNCHANGED <<chainVars, api, told, faultVars>>

\* The acknowledgement of packet i is an error: its refund is tracked.
HopRefused(f) ==
    LET i == flow[f].hop IN
      /\ Handles(f, "hop") /\ packet[i] = "refused"
      /\ rec' = [Completed(i) EXCEPT !.error[i] = TRUE]
      /\ Store({Completed(i), rec'})
      /\ Follow(f, rec')
      /\ UNCHANGED <<chainVars, api, told, faultVars>>

\* It cannot be read: the completion is taken back and the flow tries again.
HopUnreadable(f) ==
    LET i == flow[f].hop IN
      /\ Handles(f, "hop") /\ Acknowledged(i)
      /\ rec' = [rec EXCEPT !.completed[i] = FALSE]
      /\ Store({Completed(i), rec'})
      /\ flow' = [flow EXCEPT ![f].got = FALSE,
                    ![f].loop = IF @ = "runs" THEN Rejected(f) ELSE @]
      /\ UNCHANGED <<chainVars, api, told, faultVars>>

\* Packet i was taken and its tokens travel on.
HopContinues(f) ==
    LET i == flow[f].hop IN
      /\ Handles(f, "hop") /\ packet[i] = "received" /\ i < N
      /\ LET paid == WithResult(Completed(i), i)
             half == HalfKnown(paid, i + 1)
         IN /\ rec' = [half EXCEPT !.seq[i + 1] = "yes"]
            /\ Store({Completed(i), paid, half, rec'})
      /\ Follow(f, rec')
      /\ UNCHANGED <<chainVars, api, told, faultVars>>

\* (mutant of AllCompleted: the acknowledgement is not looked at)
AllCompleted_Unread(f) ==
    /\ Handles(f, "hop") /\ flow[f].hop = N /\ packet[N] \in {"received", "refused"}
    /\ LET paid == WithResult(Completed(N), N)
       IN /\ rec' = [paid EXCEPT !.notified = TRUE]
          /\ Store({Completed(N), paid, rec'})
    /\ told' = IF rec.notified THEN told ELSE told + 1
    /\ Stop(f)
    /\ UNCHANGED <<chainVars, api, faultVars>>

\* The last packet was taken: the user is told, once for a record.
AllCompleted(f) ==
    /\ Handles(f, "hop") /\ flow[f].hop = N /\ packet[N] = "received"
    /\ LET paid == WithResult(Completed(N), N)
       IN /\ rec' = [paid EXCEPT !.notified = TRUE]
          /\ Store({Completed(N), paid, rec'})
    /\ told' = IF rec.notified THEN told ELSE told + 1
    /\ Stop(f)
    /\ UNCHANGED <<chainVars, api, faultVars>>

\* (mutant of HopExpired: the record is marked and nothing tracks the refund)
HopExpired_Alone(f) ==
    LET i == flow[f].hop IN
      /\ Handles(f, "hop") /\ packet[i] = "expired"
      /\ rec' = [rec EXCEPT !.error[i] = TRUE, !.timeout = TRUE]
      /\ Store({rec'})
      /\ Stop(f)
      /\ UNCHANGED <<chainVars, api, told, faultVars>>

\* Packet i expired: its sender says so, and the refund is tracked.
HopExpired(f) ==
    LET i == flow[f].hop IN
      /\ Handles(f, "hop") /\ packet[i] = "expired"
      /\ rec' = [rec EXCEPT !.error[i] = TRUE, !.timeout = TRUE]
      /\ Store({rec'})
      /\ Follow(f, rec')
      /\ UNCHANGED <<chainVars, api, told, faultVars>>

\* (mutant of Rewound: all hops before it count as refunded)
Rewound_All(f) ==
    LET i == flow[f].hop IN
      /\ Handles(f, "rewind")
      /\ rec' = [rec EXCEPT !.rewound = [j \in Hops |-> @[j] \/ j <= i],
                            !.blocked[i] = @ \/ i = swapTarget]
      /\ Store({rec'})
      /\ Follow(f, rec')
      /\ UNCHANGED <<chainVars, api, told, faultVars>>

(***************************************************************************)
(* The refund of packet i arrived; what comes back to the swap stays there *)
(* if the event of that packet is in the answer.  It is: the answer was    *)
(* found by the channel and the sequence of that event, of which the       *)
(* search for its index asks too.                                          *)
(***************************************************************************)
Rewound(f) ==
    LET i == flow[f].hop IN
      /\ Handles(f, "rewind")
      /\ rec' = [rec EXCEPT !.rewound[i] = TRUE, !.blocked[i] = @ \/ i = swapTarget]
      /\ Store({rec'})
      /\ Follow(f, rec')
      /\ UNCHANGED <<chainVars, api, told, faultVars>>

\* The background ends and starts again: the record is one that was stored,
\* and one flow tracks it.  A transfer that was not recorded stays unknown.
End ==
    /\ errors + ends < MaxFaults /\ ends' = ends + 1
    /\ \E r \in durable :
         /\ rec' = r /\ durable' = {r}
         /\ \E f \in Flows : flow' = [g \in Flows |-> IF g = f THEN Begin(r, 0) ELSE Idle]
    /\ api' = IF api = "broadcast" THEN "lost" ELSE api
    /\ UNCHANGED <<chainVars, told, errors>>

Handled(f) ==
    \/ TxFailed(f) \/ TxFulfilled(f)
    \/ HopRefused(f) \/ HopUnreadable(f) \/ HopContinues(f) \/ AllCompleted(f) \/ HopExpired(f)
    \/ Rewound(f)

Chain == Included \/ \E i \in Hops : Settled(i) \/ Refunded(i)

Next ==
    \/ Chain
    \/ Landed \/ Recorded \/ Removed \/ End
    \/ \E f \in Flows : Answered(f) \/ Disconnected(f) \/ FailedLate(f) \/ Retried(f) \/ Handled(f)

Spec == Init /\ [][Next]_vars

\* Blocks are made and packets relayed, nodes answer, timers fire.
FairSpec ==
    /\ Spec
    /\ WF_vars(Included) /\ WF_vars(Recorded)
    /\ \A i \in Hops : WF_vars(Settled(i)) /\ WF_vars(Refunded(i))
    /\ \A f \in Flows : WF_vars(Answered(f)) /\ WF_vars(Retried(f)) /\ WF_vars(Handled(f))

-----------------------------------------------------------------------------
TypeOK ==
    /\ swapTarget \in Routes
    /\ tx \in {"pending", "ok", "failed"}
    /\ packet \in [Hops -> {"none", "sent", "received", "refused", "expired"}]
    /\ refund \in [Hops -> {"none", "ack", "timeout"}]
    /\ api \in {"broadcast", "recorded", "lost"}
    /\ rec \in Record
    /\ durable \subseteq Record
    /\ flow \in [Flows -> Flow]
    /\ told \in Nat
    /\ errors \in Nat /\ ends \in Nat

\* What ibc-history-view shows: a transfer that succeeded, or one that failed
\* and whose tokens came back.
Succeeded(r) == r.fulfilled /\ Ahead(r) = {} /\ Failed(r) = {}

CameBack(r) ==
    /\ Failed(r) # {}
    /\ \/ \A i \in 1..First(Failed(r)) : r.rewound[i]
       \/ \E i \in Hops : r.blocked[i]

Shown(r) == Succeeded(r) \/ CameBack(r)

Delivered == \A i \in Hops : packet[i] = "received"

\* A record says nothing of a chain that did not happen there.
TrueOf(r) ==
    /\ r.fulfilled => tx = "ok"
    /\ \A i \in Hops :
         /\ r.seq[i] # "no" => packet[i] # "none"
         /\ r.completed[i] => packet[i] \in {"received", "refused"}
         /\ r.error[i] => packet[i] \in {"refused", "expired"}
         /\ r.rewound[i] => refund[i] # "none"
         /\ r.blocked[i] => i = swapTarget /\ refund[i] # "none"

\* Whatever is in memory, and whatever an end of the background may leave in
\* the storage, is true: no hop is reported received, failed or refunded that
\* was not, by no interleaving of flows, answers and restarts.
RecordIsTrue == TrueOf(rec) /\ \A r \in durable : TrueOf(r)

\* The user is told of a success only when every packet arrived, and not twice
\* unless the background ended in between.
ToldOfDelivery == (told > 0 => Delivered) /\ told <= ends + 1

\* A record that an end of the background cut out of a series of writes: a hop
\* that was completed before its acknowledgement or the packet it sent was read.
Torn ==
    \E i \in Hops : rec.completed[i] /\
        \/ packet[i] = "refused" /\ ~rec.error[i]
        \/ packet[i] = "received" /\ i < N /\ rec.seq[i + 1] # "yes"

\* Unless the background ended, no hop stays completed whose receipt was not
\* read to its end, and a transfer is shown as a success only when it was one:
\* a refused packet does not pass for a received one.
SuccessIsDelivery == ends = 0 => ~Torn /\ (Succeeded(rec) => Delivered)

\* A swap that is shown as a success has the result of every hop exactly once
\* (the view shows "Unknown" otherwise), if no websocket failed late and the
\* background did not end.
ResultsAreWhole ==
    Succeeded(rec) /\ swapTarget # 0 /\ ends = 0 /\ errors = 0
    => rec.results = [i \in 1..(N + 1) |-> i - 1]

\* A transfer that is not at its end is watched, unless the retries are used
\* up or its record was torn by an end of the background.
Tracked ==
    rec.present /\ ~Shown(rec) /\ ~Torn
    => \E f \in Flows : flow[f].loop \in {"runs", "waits", "gaveUp"} \/ flow[f].got

\* The refund that a flow waits for came by the other kind of event.
OtherEvent ==
    \E f \in Flows : flow[f].at = "rewind" /\ refund[flow[f].hop] # "none" /\ ~Seen(f)

\* Every transfer is followed to its end, if the nodes answer within the
\* retries, refunds come by the events the tracker looks for, and no end of
\* the background tore the record.
FollowedToTheEnd ==
    rec.present ~>
        \/ Shown(rec) \/ ~rec.present \/ Torn \/ OtherEvent
        \/ \E f \in Flows : flow[f].loop = "gaveUp"
=============================================================================
