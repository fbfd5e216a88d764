--------------------------- MODULE IbcTrackerProofs ---------------------------
(* Proofs about IbcTracker, for every number of packets, flows and faults.     *)
EXTENDS IbcTrackerInv, SequenceTheorems, WellFoundedInduction, TLAPS

-------------------------------------------------------------------------------
(***************************************************************************)
(* What a flow watches.                                                    *)
(***************************************************************************)
\* findIndex(): a set of positions that is not empty has a first one.
LEMMA FirstIn ==
    ASSUME NEW S \in SUBSET Nat, S # {}
    PROVE  First(S) \in S /\ \A j \in S : First(S) <= j
  <1> DEFINE Less == OpToRel(<, Nat)
  <1>1. \A x, y \in Nat : <<x, y>> \in Less <=> x < y
    BY SMT DEF OpToRel
  <1>2. IsWellFoundedOn(Less, Nat)
    BY NatLessThanWellFounded, Zenon
  <1>3. PICK i \in S : \A y \in S : ~(<<y, i>> \in Less)
    <2> HIDE DEF Less
    <2> QED BY <1>2, WFMin, Zenon
  <1>4. ASSUME NEW j \in S PROVE i <= j
    <2>1. ~(<<j, i>> \in Less) /\ j \in Nat /\ i \in Nat
      BY <1>3, Zenon
    <2>2. ~(j < i)
      BY <1>1, <2>1, Zenon
    <2> HIDE DEF Less
    <2> QED BY <2>1, <2>2, SMT
  <1> QED BY <1>4, Zenon DEF First

\* The hop a new flow watches exists.
LEMMA WatchWorks ==
    ASSUME NEW r \in Record
    PROVE  /\ Watch(r).at \in {"rest", "tx", "hop", "rewind"}
           /\ Watch(r).hop \in 0..N
           /\ Watch(r).at \in {"hop", "rewind"} => Watch(r).hop \in Hops
           /\ ~r.present => Watch(r).at = "rest"
  <1> USE HopsAssumption
  <1>1. Ahead(r) # {} => First(Ahead(r)) \in Hops
    <2>1. Ahead(r) \in SUBSET Nat /\ Ahead(r) \subseteq Hops
      BY DEF Ahead, Hops
    <2> QED BY <2>1, FirstIn
  <1>2. r.present \in BOOLEAN /\ r.fulfilled \in BOOLEAN
    BY DEF Record
  <1>3. CASE ~r.present
    BY <1>3 DEF Watch
  <1>4. CASE r.present /\ ~r.fulfilled
    BY <1>4 DEF Watch
  <1>5. CASE r.present /\ r.fulfilled /\ Failed(r) # {}
    BY <1>5 DEF Watch, Hops
  <1>6. CASE r.present /\ r.fulfilled /\ Failed(r) = {}
    BY <1>1, <1>6 DEF Watch, Hops
  <1> QED BY <1>2, <1>3, <1>4, <1>5, <1>6

\* A new flow.
LEMMA BeginWorks ==
    ASSUME NEW r \in Record, NEW n \in 0..MaxTries
    PROVE  /\ Begin(r, n) \in Flow
           /\ ~Begin(r, n).got /\ Begin(r, n).loop # "waits"
           /\ Begin(r, n).at \in {"hop", "rewind"} => Begin(r, n).hop \in Hops
           /\ ~r.present => Begin(r, n).at = "rest"
  <1> QED BY WatchWorks DEF Begin, Flow

-------------------------------------------------------------------------------
(***************************************************************************)
(* What a step does to the flows.                                          *)
(***************************************************************************)
Sound(x) ==
    /\ x.at \in {"hop", "rewind"} => x.hop \in Hops
    /\ x.loop = "waits" => x.tries < MaxTries

\* Flows stay flows, and an answer in hand was there before.
FlowsKept ==
    /\ flow' \in [Flows -> Flow]
    /\ \A g \in Flows :
         /\ Sound(flow'[g])
         /\ flow'[g].got => /\ flow[g].got
                            /\ flow'[g].at = flow[g].at /\ flow'[g].hop = flow[g].hop

LEMMA StopKeeps ==
    ASSUME flow \in [Flows -> Flow], FlowInv, NEW f \in Flows, Stop(f)
    PROVE  FlowsKept
  <1>1. flow[f] \in Flow
    OBVIOUS
  <1>2. Idle \in Flow /\ ~Idle.got /\ Sound(Idle)
    BY HopsAssumption, BoundsAssumption DEF Idle, Flow, Sound
  <1>3. [flow[f] EXCEPT !.got = FALSE] \in Flow
    BY <1>1 DEF Flow
  <1>4. \A g \in Flows : Sound(flow[g])
    BY DEF FlowInv, Sound
  <1>5. Sound([flow[f] EXCEPT !.got = FALSE]) /\ ~[flow[f] EXCEPT !.got = FALSE].got
    BY <1>1, <1>4 DEF Sound, Flow
  <1> QED BY <1>1, <1>2, <1>3, <1>4, <1>5 DEF Stop, FlowsKept

LEMMA FollowKeeps ==
    ASSUME flow \in [Flows -> Flow], FlowInv, NEW f \in Flows, NEW r \in Record, Follow(f, r)
    PROVE  FlowsKept
  <1>1. flow[f] \in Flow
    OBVIOUS
  <1>2. Begin(r, 0) \in Flow /\ ~Begin(r, 0).got /\ Sound(Begin(r, 0))
    BY BeginWorks, BoundsAssumption DEF Sound
  <1>3. \A g \in Flows : Sound(flow[g])
    BY DEF FlowInv, Sound
  <1>4. CASE flow[f].loop # "waits"
    BY <1>1, <1>2, <1>3, <1>4 DEF Follow, FlowsKept
  <1>5. CASE flow[f].loop = "waits"
    <2> DEFINE answered == [flow[f] EXCEPT !.got = FALSE]
    <2>1. answered \in Flow /\ Sound(answered) /\ ~answered.got
      BY <1>1, <1>3 DEF Sound, Flow
    <2>2. PICK g \in Flows : flow' = [flow EXCEPT ![f].got = FALSE, ![g] = Begin(r, 0)]
      BY <1>5 DEF Follow
    <2>3. flow' = [[flow EXCEPT ![f] = answered] EXCEPT ![g] = Begin(r, 0)]
      BY <2>2
    <2> HIDE DEF answered
    <2> QED BY <1>2, <1>3, <2>1, <2>3 DEF FlowsKept
  <1> QED BY <1>4, <1>5

-------------------------------------------------------------------------------
(***************************************************************************)
(* What a step does to the chains and to the record.                       *)
(***************************************************************************)
\* What is settled on a chain stays so.
Onward ==
    /\ tx # "pending" => tx' = tx
    /\ \A i \in Hops : /\ packet[i] # "none" => packet'[i] # "none"
                       /\ packet[i] \in {"received", "refused", "expired"} => packet'[i] = packet[i]
                       /\ refund[i] # "none" => refund'[i] # "none"

LEMMA StillIsOnward ==
    ASSUME UNCHANGED chainVars PROVE Onward
  <1> QED BY DEF chainVars, Onward

LEMMA FlowStays ==
    ASSUME flow \in [Flows -> Flow], FlowInv, FlowsKept, Onward
    PROVE  FlowInv'
  <1> SUFFICES ASSUME NEW g \in Flows
               PROVE  /\ flow'[g].at \in {"hop", "rewind"} => flow'[g].hop \in Hops
                      /\ flow'[g].loop = "waits" => flow'[g].tries < MaxTries
                      /\ flow'[g].got =>
                           \/ flow'[g].at = "tx" /\ tx' # "pending"
                           \/ flow'[g].at = "hop" /\ packet'[flow'[g].hop] \in {"received", "refused", "expired"}
                           \/ flow'[g].at = "rewind" /\ refund'[flow'[g].hop] # "none"
    BY DEF FlowInv
  <1>1. Sound(flow'[g])
    BY DEF FlowsKept
  <1>2. flow'[g].at \in {"hop", "rewind"} => flow'[g].hop \in Hops
    BY <1>1 DEF Sound
  <1>3. flow'[g].loop = "waits" => flow'[g].tries < MaxTries
    BY <1>1 DEF Sound
  <1>4. ASSUME flow'[g].got
        PROVE  \/ flow'[g].at = "tx" /\ tx' # "pending"
               \/ flow'[g].at = "hop" /\ packet'[flow'[g].hop] \in {"received", "refused", "expired"}
               \/ flow'[g].at = "rewind" /\ refund'[flow'[g].hop] # "none"
    <2>1. flow[g].got /\ flow'[g].at = flow[g].at /\ flow'[g].hop = flow[g].hop
      BY <1>4 DEF FlowsKept
    <2>2. \/ flow[g].at = "tx" /\ tx # "pending"
          \/ flow[g].at = "hop" /\ packet[flow[g].hop] \in {"received", "refused", "expired"}
          \/ flow[g].at = "rewind" /\ refund[flow[g].hop] # "none"
      BY <2>1 DEF FlowInv
    <2>3. flow[g].at \in {"hop", "rewind"} => flow[g].hop \in Hops
      BY DEF FlowInv
    <2>4. CASE flow[g].at = "tx" /\ tx # "pending"
      BY <2>1, <2>4 DEF Onward
    <2>5. CASE flow[g].at = "hop" /\ packet[flow[g].hop] \in {"received", "refused", "expired"}
      BY <2>1, <2>3, <2>5 DEF Onward
    <2>6. CASE flow[g].at = "rewind" /\ refund[flow[g].hop] # "none"
      BY <2>1, <2>3, <2>6 DEF Onward
    <2> QED BY <2>2, <2>4, <2>5, <2>6
  <1> QED BY <1>2, <1>3, <1>4

\* What is true of a chain stays true of it.
LEMMA TruthStays ==
    ASSUME NEW r \in Record, TrueOf(r), Onward, swapTarget' = swapTarget
    PROVE  TrueOf(r)'
  <1> SUFFICES /\ r.fulfilled => tx' = "ok"
               /\ \A i \in Hops :
                    /\ r.seq[i] # "no" => packet'[i] # "none"
                    /\ r.completed[i] => packet'[i] \in {"received", "refused"}
                    /\ r.error[i] => packet'[i] \in {"refused", "expired"}
                    /\ r.rewound[i] => refund'[i] # "none"
                    /\ r.blocked[i] => i = swapTarget' /\ refund'[i] # "none"
    BY DEF TrueOf
  <1>1. r.fulfilled => tx' = "ok"
    BY DEF TrueOf, Onward
  <1>2. ASSUME NEW i \in Hops
        PROVE  /\ r.seq[i] # "no" => packet'[i] # "none"
               /\ r.completed[i] => packet'[i] \in {"received", "refused"}
               /\ r.error[i] => packet'[i] \in {"refused", "expired"}
               /\ r.rewound[i] => refund'[i] # "none"
               /\ r.blocked[i] => i = swapTarget' /\ refund'[i] # "none"
    <2>1. /\ r.seq[i] # "no" => packet[i] # "none"
          /\ r.completed[i] => packet[i] \in {"received", "refused"}
          /\ r.error[i] => packet[i] \in {"refused", "expired"}
          /\ r.rewound[i] => refund[i] # "none"
          /\ r.blocked[i] => i = swapTarget /\ refund[i] # "none"
      BY DEF TrueOf
    <2>2. /\ packet[i] # "none" => packet'[i] # "none"
          /\ packet[i] \in {"received", "refused", "expired"} => packet'[i] = packet[i]
          /\ refund[i] # "none" => refund'[i] # "none"
      BY DEF Onward
    <2> QED BY <2>1, <2>2
  <1> QED BY <1>1, <1>2

\* A record that nothing tore reports a success only of a delivery.
LEMMA WholeIsDelivered ==
    ASSUME rec \in Record, TrueOf(rec), ~Torn, Succeeded(rec)
    PROVE  Delivered
  <1> SUFFICES ASSUME NEW i \in Hops PROVE packet[i] = "received"
    BY DEF Delivered
  <1>1. rec.completed[i] /\ ~rec.error[i]
    BY DEF Succeeded, Ahead, Failed
  <1>2. packet[i] \in {"received", "refused"}
    BY <1>1 DEF TrueOf
  <1>3. packet[i] # "refused"
    BY <1>1 DEF Torn
  <1> QED BY <1>2, <1>3

-------------------------------------------------------------------------------
(***************************************************************************)
(* Changes of a record.                                                    *)
(***************************************************************************)
Good(r) == r \in Record /\ TrueOf(r)

\* A hop of r was completed and its receipt not read to the end.
Cut(r) ==
    \E i \in Hops : r.completed[i] /\
        \/ packet[i] = "refused" /\ ~r.error[i]
        \/ packet[i] = "received" /\ i < N /\ r.seq[i + 1] # "yes"

\* The record and every snapshot that may be stored stay true and whole.
RecordStep ==
    /\ Good(rec') /\ \A r \in durable' : Good(r)
    /\ rec.notified => rec'.notified
    /\ ends = 0 => ~Cut(rec')

LEMMA BlankIsGood == Good(Blank) /\ ~Cut(Blank)
  <1> QED BY DEF Good, Blank, Record, Sequence, TrueOf, Cut

LEMMA StoreGood ==
    ASSUME \A r \in durable : Good(r), NEW S, \A r \in S : Good(r), Store(S)
    PROVE  \A r \in durable' : Good(r)
  <1> QED BY DEF Store

LEMMA CompletedGood ==
    ASSUME Good(rec), NEW i \in Hops, packet[i] \in {"received", "refused"}
    PROVE  Good(Completed(i))
  <1>1. Completed(i) \in Record
    BY DEF Good, Completed, Record
  <1>2. TrueOf(Completed(i))
    BY DEF Good, Completed, Record, TrueOf
  <1> QED BY <1>1, <1>2 DEF Good

LEMMA ResultGood ==
    ASSUME NEW r, Good(r), NEW i \in 0..N
    PROVE  /\ Good(WithResult(r, i))
           /\ \A j \in Hops : /\ WithResult(r, i).completed[j] = r.completed[j]
                              /\ WithResult(r, i).error[j] = r.error[j]
                              /\ WithResult(r, i).seq[j] = r.seq[j]
           /\ WithResult(r, i).notified = r.notified
  <1>1. CASE swapTarget = 0
    BY <1>1 DEF WithResult
  <1>2. CASE swapTarget # 0
    <2> DEFINE s == [r EXCEPT !.results = Append(@, i)]
    <2>1. WithResult(r, i) = s
      BY <1>2 DEF WithResult
    <2>2. Append(r.results, i) \in Seq(0..N)
      BY DEF Good, Record
    <2>3. s \in Record
      BY <2>2 DEF Good, Record
    <2>4. /\ s.fulfilled = r.fulfilled /\ s.seq = r.seq /\ s.completed = r.completed
          /\ s.error = r.error /\ s.rewound = r.rewound /\ s.blocked = r.blocked
          /\ s.notified = r.notified
      BY DEF Good, Record
    <2>5. TrueOf(s)
      <3> HIDE DEF s
      <3> QED BY <2>4 DEF Good, TrueOf
    <2> HIDE DEF s
    <2> QED BY <2>1, <2>3, <2>4, <2>5 DEF Good
  <1> QED BY <1>1, <1>2

LEMMA HalfGood ==
    ASSUME NEW r, Good(r), NEW i \in Hops, packet[i] # "none"
    PROVE  /\ Good(HalfKnown(r, i))
           /\ HalfKnown(r, i).completed = r.completed /\ HalfKnown(r, i).error = r.error
           /\ HalfKnown(r, i).notified = r.notified
           /\ \A j \in Hops \ {i} : HalfKnown(r, i).seq[j] = r.seq[j]
  <1>1. CASE r.seq[i] # "no"
    BY <1>1 DEF HalfKnown
  <1>2. CASE r.seq[i] = "no"
    <2> DEFINE s == [r EXCEPT !.seq[i] = "half"]
    <2>1. HalfKnown(r, i) = s
      BY <1>2 DEF HalfKnown
    <2>2. s \in Record
      BY DEF Good, Record, Sequence
    <2>3. /\ s.fulfilled = r.fulfilled /\ s.completed = r.completed
          /\ s.error = r.error /\ s.rewound = r.rewound /\ s.blocked = r.blocked
          /\ s.notified = r.notified /\ s.seq = [r.seq EXCEPT ![i] = "half"]
      BY DEF Good, Record
    <2>4. r.seq \in [Hops -> Sequence]
      BY DEF Good, Record
    <2>5. TrueOf(s)
      <3> HIDE DEF s
      <3> QED BY <2>3, <2>4 DEF Good, TrueOf
    <2> HIDE DEF s
    <2> QED BY <2>1, <2>2, <2>3, <2>4, <2>5 DEF Good
  <1> QED BY <1>1, <1>2

LEMMA KnownGood ==
    ASSUME NEW r, Good(r), NEW i \in Hops, packet[i] # "none"
    PROVE  LET s == [r EXCEPT !.seq[i] = "yes"]
           IN  /\ Good(s)
               /\ s.completed = r.completed /\ s.error = r.error /\ s.notified = r.notified
               /\ s.seq[i] = "yes" /\ \A j \in Hops \ {i} : s.seq[j] = r.seq[j]
  <1> DEFINE s == [r EXCEPT !.seq[i] = "yes"]
  <1>1. s \in Record
    BY DEF Good, Record, Sequence
  <1>2. /\ s.fulfilled = r.fulfilled /\ s.completed = r.completed
        /\ s.error = r.error /\ s.rewound = r.rewound /\ s.blocked = r.blocked
        /\ s.notified = r.notified /\ s.seq = [r.seq EXCEPT ![i] = "yes"]
    BY DEF Good, Record
  <1>3. r.seq \in [Hops -> Sequence]
    BY DEF Good, Record
  <1>4. TrueOf(s)
    <2> HIDE DEF s
    <2> QED BY <1>2, <1>3 DEF Good, TrueOf
  <1> HIDE DEF s
  <1>5. Good(s) /\ s.completed = r.completed /\ s.error = r.error /\ s.notified = r.notified
    BY <1>1, <1>2, <1>4 DEF Good
  <1>6. s.seq[i] = "yes" /\ \A j \in Hops \ {i} : s.seq[j] = r.seq[j]
    BY <1>2, <1>3
  <1> QED BY <1>5, <1>6 DEF s

-------------------------------------------------------------------------------
(***************************************************************************)
(* The handlers of the answers.                                            *)
(***************************************************************************)
IInv == TypeOK /\ TrackerInv

LEMMA InvFacts ==
    ASSUME IInv
    PROVE  /\ Good(rec) /\ \A r \in durable : Good(r)
           /\ ends = 0 => ~Cut(rec)
           /\ flow \in [Flows -> Flow] /\ FlowInv /\ ChainInv
  <1>1. Good(rec) /\ \A r \in durable : Good(r)
    BY DEF IInv, TypeOK, TrackerInv, RecordIsTrue, Good
  <1>2. ends = 0 => ~Cut(rec)
    BY DEF IInv, TrackerInv, SuccessIsDelivery, Torn, Cut
  <1> QED BY <1>1, <1>2 DEF IInv, TypeOK, TrackerInv

\* The hop an answer is about, and what the chain said.
LEMMA HopFacts ==
    ASSUME IInv, NEW f \in Flows, Handles(f, "hop")
    PROVE  /\ flow[f].hop \in Hops
           /\ packet[flow[f].hop] \in {"received", "refused", "expired"}
  <1>1. flow[f].got /\ flow[f].at = "hop"
    BY DEF Handles
  <1>2. FlowInv
    BY InvFacts
  <1> QED BY <1>1, <1>2 DEF FlowInv

LEMMA TxFailedStep ==
    ASSUME IInv, NEW f \in Flows, TxFailed(f)
    PROVE  RecordStep /\ FlowsKept
  <1>1. rec' = [rec EXCEPT !.present = FALSE]
    BY DEF TxFailed
  <1>2. /\ rec'.fulfilled = rec.fulfilled /\ rec'.seq = rec.seq /\ rec'.completed = rec.completed
        /\ rec'.error = rec.error /\ rec'.rewound = rec.rewound /\ rec'.blocked = rec.blocked
        /\ rec'.notified = rec.notified /\ rec' \in Record
    BY <1>1, InvFacts DEF Good, Record
  <1>3. Good(rec') /\ (ends = 0 => ~Cut(rec'))
    BY <1>2, InvFacts DEF Good, TrueOf, Cut
  <1>4. \A r \in durable' : Good(r)
    BY StoreGood, BlankIsGood, InvFacts DEF TxFailed
  <1>5. FlowsKept
    BY StopKeeps, InvFacts DEF TxFailed
  <1> QED BY <1>2, <1>3, <1>4, <1>5 DEF RecordStep

LEMMA TxFulfilledStep ==
    ASSUME IInv, NEW f \in Flows, TxFulfilled(f)
    PROVE  RecordStep /\ FlowsKept
  <1> DEFINE half  == HalfKnown(rec, 1)
             known == [half EXCEPT !.seq[1] = "yes"]
             done  == [known EXCEPT !.fulfilled = TRUE]
  <1>1. tx = "ok" /\ rec' = WithResult(done, 0) /\ Store({half, known, rec'}) /\ Follow(f, rec')
    BY DEF TxFulfilled
  <1>2. 1 \in Hops /\ packet[1] # "none"
    BY <1>1, InvFacts, HopsAssumption DEF Hops, ChainInv
  <1>3. /\ Good(half) /\ half.completed = rec.completed /\ half.error = rec.error
        /\ half.notified = rec.notified /\ \A j \in Hops \ {1} : half.seq[j] = rec.seq[j]
    BY <1>2, HalfGood, InvFacts
  <1>4. /\ Good(known) /\ known.completed = half.completed /\ known.error = half.error
        /\ known.notified = half.notified
        /\ known.seq[1] = "yes" /\ \A j \in Hops \ {1} : known.seq[j] = half.seq[j]
    <2> HIDE DEF half
    <2> QED BY <1>2, <1>3, KnownGood
  <1> HIDE DEF known, half
  <1>5. /\ done.seq = known.seq /\ done.completed = known.completed
        /\ done.error = known.error /\ done.rewound = known.rewound /\ done.blocked = known.blocked
        /\ done.notified = known.notified /\ done \in Record
    BY <1>4 DEF Good, Record
  <1>6. Good(done)
    <2> HIDE DEF done
    <2> QED BY <1>1, <1>4, <1>5 DEF Good, TrueOf
  <1> HIDE DEF done
  <1>7. 0 \in 0..N
    BY HopsAssumption
  <1>8. /\ Good(rec') /\ rec'.notified = done.notified
        /\ \A j \in Hops : /\ rec'.completed[j] = done.completed[j]
                           /\ rec'.error[j] = done.error[j] /\ rec'.seq[j] = done.seq[j]
    BY <1>1, <1>6, <1>7, ResultGood
  <1>9. \A j \in Hops : /\ rec'.completed[j] = rec.completed[j] /\ rec'.error[j] = rec.error[j]
                        /\ rec'.seq[j] = rec.seq[j] \/ rec'.seq[j] = "yes"
    BY <1>3, <1>4, <1>5, <1>8
  <1>10. ends = 0 => ~Cut(rec')
    <2> SUFFICES ASSUME ends = 0, Cut(rec') PROVE FALSE
      OBVIOUS
    <2>1. PICK i \in Hops : rec'.completed[i] /\
              \/ packet[i] = "refused" /\ ~rec'.error[i]
              \/ packet[i] = "received" /\ i < N /\ rec'.seq[i + 1] # "yes"
      BY DEF Cut
    <2>2. i < N => i + 1 \in Hops
      BY HopsAssumption DEF Hops
    <2>3. Cut(rec)
      BY <1>9, <2>1, <2>2 DEF Cut
    <2> QED BY <2>3, InvFacts
  <1>11. \A r \in {half, known, rec'} : Good(r)
    BY <1>3, <1>4, <1>8
  <1>12. \A r \in durable' : Good(r)
    BY <1>1, <1>11, StoreGood, InvFacts
  <1>13. FlowsKept
    BY <1>1, <1>8, FollowKeeps, InvFacts DEF Good
  <1>14. rec.notified => rec'.notified
    BY <1>3, <1>4, <1>5, <1>8
  <1> QED BY <1>8, <1>10, <1>12, <1>13, <1>14 DEF RecordStep

LEMMA CompletedFacts ==
    ASSUME Good(rec), NEW i \in Hops
    PROVE  /\ Completed(i).completed[i]
           /\ \A j \in Hops \ {i} : Completed(i).completed[j] = rec.completed[j]
           /\ Completed(i).error = rec.error /\ Completed(i).seq = rec.seq
           /\ Completed(i).notified = rec.notified
  <1> QED BY DEF Good, Completed, Record

\* A record stays whole when only hop i changes and hop i is whole.
LEMMA WholeButOne ==
    ASSUME ends = 0 => ~Cut(rec), NEW s, NEW i \in Hops,
           \A j \in Hops \ {i} : s.completed[j] => rec.completed[j],
           \A j \in Hops : /\ rec.error[j] => s.error[j]
                           /\ rec.seq[j] = "yes" => s.seq[j] = "yes",
           s.completed[i] => /\ packet[i] = "refused" => s.error[i]
                             /\ packet[i] = "received" /\ i < N => s.seq[i + 1] = "yes"
    PROVE  ends = 0 => ~Cut(s)
  <1> SUFFICES ASSUME ends = 0, Cut(s) PROVE FALSE
    OBVIOUS
  <1>1. PICK j \in Hops : s.completed[j] /\
            \/ packet[j] = "refused" /\ ~s.error[j]
            \/ packet[j] = "received" /\ j < N /\ s.seq[j + 1] # "yes"
    BY DEF Cut
  <1>2. j # i
    BY <1>1
  <1>3. rec.completed[j]
    BY <1>1, <1>2
  <1>4. j < N => j + 1 \in Hops
    BY HopsAssumption DEF Hops
  <1>5. Cut(rec)
    BY <1>1, <1>3, <1>4 DEF Cut
  <1> QED BY <1>5

LEMMA HopRefusedStep ==
    ASSUME IInv, NEW f \in Flows, HopRefused(f)
    PROVE  RecordStep /\ FlowsKept
  <1> DEFINE i == flow[f].hop
             c == Completed(i)
  <1>1. /\ Handles(f, "hop") /\ packet[i] = "refused"
        /\ rec' = [c EXCEPT !.error[i] = TRUE]
        /\ Store({c, rec'}) /\ Follow(f, rec')
    BY DEF HopRefused
  <1>2. i \in Hops
    BY <1>1, HopFacts
  <1> HIDE DEF i
  <1>3. Good(c)
    BY <1>1, <1>2, CompletedGood, InvFacts
  <1>4. /\ c.completed[i] /\ \A j \in Hops \ {i} : c.completed[j] = rec.completed[j]
        /\ c.error = rec.error /\ c.seq = rec.seq /\ c.notified = rec.notified
    BY <1>2, CompletedFacts, InvFacts
  <1> HIDE DEF c
  <1>5. /\ rec'.fulfilled = c.fulfilled /\ rec'.seq = c.seq /\ rec'.completed = c.completed
        /\ rec'.rewound = c.rewound /\ rec'.blocked = c.blocked /\ rec'.notified = c.notified
        /\ rec'.error[i] /\ \A j \in Hops \ {i} : rec'.error[j] = c.error[j]
        /\ rec' \in Record
    BY <1>1, <1>2, <1>3 DEF Good, Record
  <1>6. Good(rec')
    BY <1>1, <1>3, <1>5 DEF Good, TrueOf
  <1>7. ends = 0 => ~Cut(rec')
    <2>1. ends = 0 => ~Cut(rec)
      BY InvFacts
    <2>2. \A j \in Hops \ {i} : rec'.completed[j] => rec.completed[j]
      BY <1>4, <1>5
    <2>3. \A j \in Hops : /\ rec.error[j] => rec'.error[j]
                          /\ rec.seq[j] = "yes" => rec'.seq[j] = "yes"
      BY <1>4, <1>5
    <2>4. rec'.completed[i] => /\ packet[i] = "refused" => rec'.error[i]
                               /\ packet[i] = "received" /\ i < N => rec'.seq[i + 1] = "yes"
      BY <1>1, <1>5
    <2> QED BY <1>2, <2>1, <2>2, <2>3, <2>4, WholeButOne
  <1>8. \A r \in durable' : Good(r)
    <2>1. \A r \in {c, rec'} : Good(r)
      BY <1>3, <1>6
    <2> QED BY <1>1, <2>1, StoreGood, InvFacts
  <1>9. FlowsKept
    BY <1>1, <1>6, FollowKeeps, InvFacts DEF Good
  <1> QED BY <1>4, <1>5, <1>6, <1>7, <1>8, <1>9 DEF RecordStep

LEMMA HopUnreadableStep ==
    ASSUME IInv, NEW f \in Flows, HopUnreadable(f)
    PROVE  RecordStep /\ FlowsKept
  <1> DEFINE i == flow[f].hop
             c == Completed(i)
  <1>1. /\ Handles(f, "hop") /\ packet[i] \in {"received", "refused"}
        /\ rec' = [rec EXCEPT !.completed[i] = FALSE]
        /\ Store({c, rec'})
        /\ flow' = [flow EXCEPT ![f].got = FALSE,
                      ![f].loop = IF @ = "runs" THEN Rejected(f) ELSE @]
    BY DEF HopUnreadable, Acknowledged
  <1>2. i \in Hops
    BY <1>1, HopFacts
  <1>3. Good(c)
    <2> HIDE DEF i
    <2> QED BY <1>1, <1>2, CompletedGood, InvFacts
  <1>4. FlowsKept
    <2>1. flow[f] \in Flow /\ \A g \in Flows : Sound(flow[g])
      BY InvFacts DEF FlowInv, Sound
    <2> DEFINE next == IF flow[f].loop = "runs" THEN Rejected(f) ELSE flow[f].loop
               x == [flow[f] EXCEPT !.got = FALSE, !.loop = next]
    <2>2. flow' = [flow EXCEPT ![f] = x]
      BY <1>1
    <2>3. x \in Flow /\ Sound(x) /\ ~x.got
      <3>1. next \in {"runs", "waits", "gaveUp", "over"}
        BY <2>1 DEF Flow, Rejected
      <3>2. flow[f].tries \in 0..MaxTries
        BY <2>1 DEF Flow
      <3>3. next = "waits" => flow[f].tries < MaxTries
        BY <2>1, <3>2, BoundsAssumption DEF Sound, Rejected
      <3> HIDE DEF next, i, c
      <3>4. x \in Flow /\ ~x.got
        BY <2>1, <3>1 DEF Flow
      <3>5. x.at = flow[f].at /\ x.hop = flow[f].hop /\ x.tries = flow[f].tries /\ x.loop = next
        BY <2>1 DEF Flow
      <3> HIDE DEF x
      <3> QED BY <2>1, <3>3, <3>4, <3>5 DEF Sound
    <2> HIDE DEF x, i, c
    <2> QED BY <2>1, <2>2, <2>3, InvFacts DEF FlowsKept
  <1> HIDE DEF i, c
  <1>5. /\ rec'.fulfilled = rec.fulfilled /\ rec'.seq = rec.seq /\ rec'.error = rec.error
        /\ rec'.rewound = rec.rewound /\ rec'.blocked = rec.blocked /\ rec'.notified = rec.notified
        /\ ~rec'.completed[i] /\ \A j \in Hops \ {i} : rec'.completed[j] = rec.completed[j]
        /\ rec' \in Record
    BY <1>1, <1>2, InvFacts DEF Good, Record
  <1>6. Good(rec')
    BY <1>5, InvFacts DEF Good, TrueOf
  <1>7. ends = 0 => ~Cut(rec')
    BY <1>2, <1>5, WholeButOne, InvFacts
  <1>8. \A r \in durable' : Good(r)
    <2>1. \A r \in {c, rec'} : Good(r)
      BY <1>3, <1>6
    <2> QED BY <1>1, <2>1, StoreGood, InvFacts
  <1> QED BY <1>4, <1>5, <1>6, <1>7, <1>8 DEF RecordStep

LEMMA HopContinuesStep ==
    ASSUME IInv, NEW f \in Flows, HopContinues(f)
    PROVE  RecordStep /\ FlowsKept
  <1> DEFINE i == flow[f].hop
             c == Completed(i)
             paid == WithResult(c, i)
             half == HalfKnown(paid, i + 1)
  <1>1. /\ Handles(f, "hop") /\ packet[i] = "received" /\ i < N
        /\ rec' = [half EXCEPT !.seq[i + 1] = "yes"]
        /\ Store({c, paid, half, rec'}) /\ Follow(f, rec')
    BY DEF HopContinues
  <1>2. i \in Hops /\ i \in 0..N /\ i + 1 \in Hops /\ i + 1 # i
    BY <1>1, HopFacts, HopsAssumption DEF Hops
  <1> HIDE DEF i
  <1>3. packet[i + 1] # "none"
    BY <1>1, <1>2, InvFacts DEF ChainInv
  <1>4. Good(c)
    BY <1>1, <1>2, CompletedGood, InvFacts
  <1>5. /\ c.completed[i] /\ \A j \in Hops \ {i} : c.completed[j] = rec.completed[j]
        /\ c.error = rec.error /\ c.seq = rec.seq /\ c.notified = rec.notified
    BY <1>2, CompletedFacts, InvFacts
  <1> HIDE DEF c
  <1>6. /\ Good(paid) /\ paid.notified = c.notified
        /\ \A j \in Hops : /\ paid.completed[j] = c.completed[j]
                           /\ paid.error[j] = c.error[j] /\ paid.seq[j] = c.seq[j]
    BY <1>2, <1>4, ResultGood
  <1> HIDE DEF paid
  <1>7. /\ Good(half) /\ half.completed = paid.completed /\ half.error = paid.error
        /\ half.notified = paid.notified
        /\ \A j \in Hops \ {i + 1} : half.seq[j] = paid.seq[j]
    BY <1>2, <1>3, <1>6, HalfGood
  <1> HIDE DEF half
  <1>8. /\ Good(rec') /\ rec'.completed = half.completed /\ rec'.error = half.error
        /\ rec'.notified = half.notified
        /\ rec'.seq[i + 1] = "yes" /\ \A j \in Hops \ {i + 1} : rec'.seq[j] = half.seq[j]
    BY <1>1, <1>2, <1>3, <1>7, KnownGood
  <1>9. ends = 0 => ~Cut(rec')
    <2>1. ends = 0 => ~Cut(rec)
      BY InvFacts
    <2>2. \A j \in Hops \ {i} : rec'.completed[j] => rec.completed[j]
      BY <1>5, <1>6, <1>7, <1>8
    <2>3. \A j \in Hops : /\ rec.error[j] => rec'.error[j]
                          /\ rec.seq[j] = "yes" => rec'.seq[j] = "yes"
      BY <1>5, <1>6, <1>7, <1>8
    <2>4. rec'.completed[i] => /\ packet[i] = "refused" => rec'.error[i]
                               /\ packet[i] = "received" /\ i < N => rec'.seq[i + 1] = "yes"
      BY <1>1, <1>8
    <2> QED BY <1>2, <2>1, <2>2, <2>3, <2>4, WholeButOne
  <1>10. \A r \in durable' : Good(r)
    <2>1. \A r \in {c, paid, half, rec'} : Good(r)
      BY <1>4, <1>6, <1>7, <1>8
    <2> QED BY <1>1, <2>1, StoreGood, InvFacts
  <1>11. FlowsKept
    BY <1>1, <1>8, FollowKeeps, InvFacts DEF Good
  <1>12. rec.notified => rec'.notified
    BY <1>5, <1>6, <1>7, <1>8
  <1> QED BY <1>8, <1>9, <1>10, <1>11, <1>12 DEF RecordStep

LEMMA AllCompletedStep ==
    ASSUME IInv, NEW f \in Flows, AllCompleted(f)
    PROVE  RecordStep /\ FlowsKept /\ rec'.notified
  <1> DEFINE c == Completed(N)
             paid == WithResult(c, N)
  <1>1. /\ packet[N] = "received"
        /\ rec' = [paid EXCEPT !.notified = TRUE]
        /\ Store({c, paid, rec'}) /\ Stop(f)
    BY DEF AllCompleted
  <1>2. N \in Hops /\ N \in 0..N /\ ~(N < N)
    BY HopsAssumption DEF Hops
  <1>3. Good(c)
    BY <1>1, <1>2, CompletedGood, InvFacts
  <1>4. /\ c.completed[N] /\ \A j \in Hops \ {N} : c.completed[j] = rec.completed[j]
        /\ c.error = rec.error /\ c.seq = rec.seq
    BY <1>2, CompletedFacts, InvFacts
  <1> HIDE DEF c
  <1>5. /\ Good(paid)
        /\ \A j \in Hops : /\ paid.completed[j] = c.completed[j]
                           /\ paid.error[j] = c.error[j] /\ paid.seq[j] = c.seq[j]
    BY <1>2, <1>3, ResultGood
  <1> HIDE DEF paid
  <1>6. /\ rec'.fulfilled = paid.fulfilled /\ rec'.seq = paid.seq /\ rec'.completed = paid.completed
        /\ rec'.error = paid.error /\ rec'.rewound = paid.rewound /\ rec'.blocked = paid.blocked
        /\ rec'.notified /\ rec' \in Record
    BY <1>1, <1>5 DEF Good, Record
  <1>7. Good(rec')
    BY <1>5, <1>6 DEF Good, TrueOf
  <1>8. ends = 0 => ~Cut(rec')
    <2>1. ends = 0 => ~Cut(rec)
      BY InvFacts
    <2>2. \A j \in Hops \ {N} : rec'.completed[j] => rec.completed[j]
      BY <1>4, <1>5, <1>6
    <2>3. \A j \in Hops : /\ rec.error[j] => rec'.error[j]
                          /\ rec.seq[j] = "yes" => rec'.seq[j] = "yes"
      BY <1>4, <1>5, <1>6
    <2>4. rec'.completed[N] => /\ packet[N] = "refused" => rec'.error[N]
                               /\ packet[N] = "received" /\ N < N => rec'.seq[N + 1] = "yes"
      BY <1>1, <1>2
    <2> QED BY <1>2, <2>1, <2>2, <2>3, <2>4, WholeButOne
  <1>9. \A r \in durable' : Good(r)
    <2>1. \A r \in {c, paid, rec'} : Good(r)
      BY <1>3, <1>5, <1>7
    <2> QED BY <1>1, <2>1, StoreGood, InvFacts
  <1>10. FlowsKept
    BY <1>1, StopKeeps, InvFacts
  <1> QED BY <1>6, <1>7, <1>8, <1>9, <1>10 DEF RecordStep

LEMMA HopExpiredStep ==
    ASSUME IInv, NEW f \in Flows, HopExpired(f)
    PROVE  RecordStep /\ FlowsKept
  <1> DEFINE i == flow[f].hop
  <1>1. /\ Handles(f, "hop") /\ packet[i] = "expired"
        /\ rec' = [rec EXCEPT !.error[i] = TRUE, !.timeout = TRUE]
        /\ Store({rec'}) /\ Follow(f, rec')
    BY DEF HopExpired
  <1>2. i \in Hops
    BY <1>1, HopFacts
  <1> HIDE DEF i
  <1>3. /\ rec'.fulfilled = rec.fulfilled /\ rec'.seq = rec.seq /\ rec'.completed = rec.completed
        /\ rec'.rewound = rec.rewound /\ rec'.blocked = rec.blocked /\ rec'.notified = rec.notified
        /\ rec'.error[i] /\ \A j \in Hops \ {i} : rec'.error[j] = rec.error[j]
        /\ rec' \in Record
    BY <1>1, <1>2, InvFacts DEF Good, Record
  <1>4. Good(rec')
    BY <1>1, <1>3, InvFacts DEF Good, TrueOf
  <1>5. ends = 0 => ~Cut(rec')
    BY <1>3, InvFacts DEF Cut
  <1>6. \A r \in durable' : Good(r)
    BY <1>1, <1>4, StoreGood, InvFacts
  <1>7. FlowsKept
    BY <1>1, <1>4, FollowKeeps, InvFacts DEF Good
  <1> QED BY <1>3, <1>4, <1>5, <1>6, <1>7 DEF RecordStep

LEMMA RewoundStep ==
    ASSUME IInv, NEW f \in Flows, Rewound(f)
    PROVE  RecordStep /\ FlowsKept
  <1> DEFINE i == flow[f].hop
  <1>1. /\ flow[f].got /\ flow[f].at = "rewind"
        /\ rec' = [rec EXCEPT !.rewound[i] = TRUE, !.blocked[i] = @ \/ i = swapTarget]
        /\ Store({rec'}) /\ Follow(f, rec')
    BY DEF Rewound, Handles
  <1>2. i \in Hops /\ refund[i] # "none"
    BY <1>1, InvFacts DEF FlowInv
  <1> HIDE DEF i
  <1>3. /\ rec'.fulfilled = rec.fulfilled /\ rec'.seq = rec.seq /\ rec'.completed = rec.completed
        /\ rec'.error = rec.error /\ rec'.notified = rec.notified
        /\ \A j \in Hops \ {i} : rec'.rewound[j] = rec.rewound[j] /\ rec'.blocked[j] = rec.blocked[j]
        /\ rec' \in Record
    BY <1>1, <1>2, InvFacts DEF Good, Record
  <1>4. rec'.blocked[i] => rec.blocked[i] \/ i = swapTarget
    BY <1>1, <1>2, InvFacts DEF Good, Record
  <1>5. Good(rec')
    BY <1>2, <1>3, <1>4, InvFacts DEF Good, TrueOf
  <1>6. ends = 0 => ~Cut(rec')
    BY <1>3, InvFacts DEF Cut
  <1>7. \A r \in durable' : Good(r)
    BY <1>1, <1>5, StoreGood, InvFacts
  <1>8. FlowsKept
    BY <1>1, <1>5, FollowKeeps, InvFacts DEF Good
  <1> QED BY <1>3, <1>5, <1>6, <1>7, <1>8 DEF RecordStep

-------------------------------------------------------------------------------
(***************************************************************************)
(* The invariant is preserved.                                             *)
(***************************************************************************)
Limits == told \in Nat /\ errors \in Nat /\ ends \in Nat

\* What a handler, or any step that leaves chains and counters alone, has to
\* show: the record, the flows, and what the user is told.
LEMMA StepPreserves ==
    ASSUME IInv, UNCHANGED chainVars, ends' = ends, errors' \in Nat,
           RecordStep, flow' \in [Flows -> Flow], FlowInv',
           api' \in {"broadcast", "recorded", "lost"}, UnrecordedInv',
           \/ told' = told
           \/ told' = told + 1 /\ Delivered /\ ~rec.notified /\ rec'.notified
    PROVE  IInv'
  <1>1. /\ swapTarget' = swapTarget /\ tx' = tx /\ packet' = packet /\ refund' = refund
    BY DEF chainVars
  <1>2. Good(rec') /\ (\A r \in durable' : Good(r)) /\ (ends = 0 => ~Cut(rec'))
        /\ (rec.notified => rec'.notified)
    BY DEF RecordStep
  <1>3. Limits /\ told <= ends + 1 /\ (told > 0 => Delivered) /\ (told = ends + 1 => rec.notified)
    BY DEF IInv, TypeOK, TrackerInv, ToldInv, ToldOfDelivery, Limits
  <1>4. TypeOK'
    <2>1. told' \in Nat
      BY <1>3 DEF Limits
    <2>2. rec' \in Record /\ durable' \subseteq Record
      BY <1>2 DEF Good
    <2> QED BY <1>1, <2>1, <2>2 DEF IInv, TypeOK
  <1>5. ChainInv'
    BY <1>1 DEF IInv, TrackerInv, ChainInv
  <1>6. RecordIsTrue'
    BY <1>1, <1>2 DEF RecordIsTrue, TrueOf, Good
  <1>7. (told' > 0 => Delivered') /\ told' <= ends' + 1 /\ (told' = ends' + 1 => rec'.notified)
    <2>1. Delivered' <=> Delivered
      BY <1>1 DEF Delivered
    <2>2. CASE told' = told
      BY <1>1, <1>2, <1>3, <2>1, <2>2
    <2>3. CASE told' = told + 1 /\ Delivered /\ ~rec.notified /\ rec'.notified
      BY <1>1, <1>3, <2>1, <2>3 DEF Limits
    <2> QED BY <2>2, <2>3
  <1>8. SuccessIsDelivery'
    <2>1. ends' = 0 => ~Torn'
      BY <1>1, <1>2 DEF Torn, Cut
    <2>2. rec' \in Record /\ TrueOf(rec)'
      BY <1>1, <1>2 DEF Good, TrueOf
    <2>3. ASSUME rec' \in Record, TrueOf(rec)', ~Torn', Succeeded(rec)' PROVE Delivered'
      <3> SUFFICES ASSUME NEW i \in Hops PROVE packet'[i] = "received"
        BY DEF Delivered
      <3>1. rec'.completed[i] /\ ~rec'.error[i]
        BY <2>3 DEF Succeeded, Ahead, Failed
      <3>2. packet'[i] \in {"received", "refused"}
        BY <2>3, <3>1 DEF TrueOf
      <3>3. packet'[i] # "refused"
        BY <2>3, <3>1 DEF Torn
      <3> QED BY <3>2, <3>3
    <2> QED BY <2>1, <2>2, <2>3 DEF SuccessIsDelivery
  <1> QED BY <1>4, <1>5, <1>6, <1>7, <1>8 DEF IInv, TrackerInv, ToldInv, ToldOfDelivery

LEMMA HandledPreserves ==
    ASSUME IInv, NEW f \in Flows, Handled(f)
    PROVE  IInv'
  <1>1. RecordStep /\ FlowsKept
    <2>1. CASE TxFailed(f)
      BY <2>1, TxFailedStep
    <2>2. CASE TxFulfilled(f)
      BY <2>2, TxFulfilledStep
    <2>3. CASE HopRefused(f)
      BY <2>3, HopRefusedStep
    <2>4. CASE HopUnreadable(f)
      BY <2>4, HopUnreadableStep
    <2>5. CASE HopContinues(f)
      BY <2>5, HopContinuesStep
    <2>6. CASE AllCompleted(f)
      BY <2>6, AllCompletedStep
    <2>7. CASE HopExpired(f)
      BY <2>7, HopExpiredStep
    <2>8. CASE Rewound(f)
      BY <2>8, RewoundStep
    <2> QED BY <2>1, <2>2, <2>3, <2>4, <2>5, <2>6, <2>7, <2>8 DEF Handled
  <1>2. UNCHANGED chainVars /\ UNCHANGED faultVars /\ api' = api
    BY DEF Handled, TxFailed, TxFulfilled, HopRefused, HopUnreadable, HopContinues,
           AllCompleted, HopExpired, Rewound
  <1>3. flow[f].got /\ flow[f].at # "rest"
    BY DEF Handled, Handles, TxFailed, TxFulfilled, HopRefused, HopUnreadable, HopContinues,
           AllCompleted, HopExpired, Rewound
  <1>4. api # "broadcast"
    BY <1>3 DEF IInv, TrackerInv, UnrecordedInv
  <1>5. UnrecordedInv'
    BY <1>2, <1>4 DEF UnrecordedInv
  <1>6. flow' \in [Flows -> Flow] /\ FlowInv'
    BY <1>1, <1>2, StillIsOnward, FlowStays, InvFacts DEF FlowsKept
  <1>7. \/ told' = told
        \/ told' = told + 1 /\ Delivered /\ ~rec.notified /\ rec'.notified
    <2>1. CASE AllCompleted(f)
      <3>1. packet[N] = "received" /\ N \in Hops
        BY <2>1, HopsAssumption DEF AllCompleted, Hops
      <3>2. Delivered
        <4>1. \A j \in 1..(N - 1) : packet[j] = "received"
          BY <3>1, InvFacts DEF ChainInv
        <4>2. \A j \in Hops : j = N \/ j \in 1..(N - 1)
          BY HopsAssumption DEF Hops
        <4> QED BY <3>1, <4>1, <4>2 DEF Delivered
      <3>3. rec'.notified
        BY <2>1, AllCompletedStep
      <3> QED BY <2>1, <3>2, <3>3 DEF AllCompleted
    <2>2. CASE ~AllCompleted(f)
      BY <2>2 DEF Handled, TxFailed, TxFulfilled, HopRefused, HopUnreadable, HopContinues,
                  HopExpired, Rewound
    <2> QED BY <2>1, <2>2
  <1>8. ends' = ends /\ errors' \in Nat /\ api' \in {"broadcast", "recorded", "lost"}
    BY <1>2 DEF faultVars, IInv, TypeOK
  <1> QED BY <1>1, <1>2, <1>5, <1>6, <1>7, <1>8, StepPreserves

\* Nothing happens to the record.
LEMMA RecordRests ==
    ASSUME IInv, rec' = rec, durable' = durable
    PROVE  RecordStep
  <1> QED BY InvFacts DEF RecordStep

\* A flow is replaced by a new one that has no answer in hand.
LEMMA BegunKeeps ==
    ASSUME flow \in [Flows -> Flow], FlowInv, NEW f \in Flows, NEW r \in Record,
           NEW n \in 0..MaxTries, flow' = [flow EXCEPT ![f] = Begin(r, n)]
    PROVE  FlowsKept
  <1>1. Begin(r, n) \in Flow /\ ~Begin(r, n).got /\ Sound(Begin(r, n))
    BY BeginWorks DEF Sound
  <1>2. \A g \in Flows : Sound(flow[g])
    BY DEF FlowInv, Sound
  <1> QED BY <1>1, <1>2 DEF FlowsKept

\* The retry loop of a flow is rejected; the answer in hand, if any, stays.
LEMMA RejectedKeeps ==
    ASSUME flow \in [Flows -> Flow], FlowInv, NEW f \in Flows,
           flow' = [flow EXCEPT ![f].loop = Rejected(f)]
    PROVE  FlowsKept /\ flow'[f].at = flow[f].at
  <1> DEFINE x == [flow[f] EXCEPT !.loop = Rejected(f)]
  <1>1. flow' = [flow EXCEPT ![f] = x]
    OBVIOUS
  <1>2. flow[f] \in Flow /\ \A g \in Flows : Sound(flow[g])
    BY DEF FlowInv, Sound
  <1>3. Rejected(f) \in {"waits", "gaveUp"} /\ (Rejected(f) = "waits" => flow[f].tries < MaxTries)
    BY <1>2, BoundsAssumption DEF Flow, Rejected
  <1>4. /\ x \in Flow /\ x.got = flow[f].got /\ x.at = flow[f].at /\ x.hop = flow[f].hop
        /\ x.tries = flow[f].tries /\ x.loop = Rejected(f)
    BY <1>2, <1>3 DEF Flow
  <1> HIDE DEF x
  <1>5. Sound(x)
    BY <1>2, <1>3, <1>4 DEF Sound
  <1> QED BY <1>1, <1>2, <1>4, <1>5 DEF FlowsKept

LEMMA AnsweredPreserves ==
    ASSUME IInv, NEW f \in Flows, Answered(f)
    PROVE  IInv'
  <1>1. /\ Seen(f) /\ flow' = [flow EXCEPT ![f].got = TRUE]
        /\ UNCHANGED chainVars /\ UNCHANGED faultVars
        /\ api' = api /\ rec' = rec /\ durable' = durable /\ told' = told
    BY DEF Answered
  <1>2. swapTarget' = swapTarget /\ tx' = tx /\ packet' = packet /\ refund' = refund
        /\ ends' = ends /\ errors' \in Nat
    BY <1>1 DEF chainVars, faultVars, IInv, TypeOK
  <1> DEFINE x == [flow[f] EXCEPT !.got = TRUE]
  <1>3. flow[f] \in Flow /\ flow' = [flow EXCEPT ![f] = x]
    BY <1>1, InvFacts
  <1>4. /\ x \in Flow /\ x.at = flow[f].at /\ x.hop = flow[f].hop
        /\ x.tries = flow[f].tries /\ x.loop = flow[f].loop /\ x.got
    BY <1>3 DEF Flow
  <1> HIDE DEF x
  <1>5. flow' \in [Flows -> Flow] /\ flow'[f] = x /\ \A g \in Flows \ {f} : flow'[g] = flow[g]
    BY <1>3, <1>4, InvFacts
  <1>6. \/ x.at = "tx" /\ tx # "pending"
        \/ x.at = "hop" /\ packet[x.hop] \in {"received", "refused", "expired"}
        \/ x.at = "rewind" /\ refund[x.hop] # "none"
    BY <1>1, <1>4 DEF Seen
  <1>7. FlowInv'
    <2> SUFFICES ASSUME NEW g \in Flows
                 PROVE  /\ flow'[g].at \in {"hop", "rewind"} => flow'[g].hop \in Hops
                        /\ flow'[g].loop = "waits" => flow'[g].tries < MaxTries
                        /\ flow'[g].got =>
                             \/ flow'[g].at = "tx" /\ tx # "pending"
                             \/ flow'[g].at = "hop" /\ packet[flow'[g].hop] \in {"received", "refused", "expired"}
                             \/ flow'[g].at = "rewind" /\ refund[flow'[g].hop] # "none"
      BY <1>2 DEF FlowInv
    <2>1. CASE g # f
      BY <1>5, <2>1, InvFacts DEF FlowInv
    <2>2. CASE g = f
      <3>1. flow'[g] = x
        BY <1>5, <2>2
      <3>2. /\ flow[f].at \in {"hop", "rewind"} => flow[f].hop \in Hops
            /\ flow[f].loop = "waits" => flow[f].tries < MaxTries
        BY InvFacts DEF FlowInv
      <3> QED BY <1>4, <1>6, <3>1, <3>2
    <2> QED BY <2>1, <2>2
  <1>8. api # "broadcast"
    <2>1. flow[f].at # "rest"
      BY <1>1 DEF Seen
    <2> QED BY <2>1 DEF IInv, TrackerInv, UnrecordedInv
  <1>9. UnrecordedInv'
    BY <1>1, <1>8 DEF UnrecordedInv
  <1>10. api' \in {"broadcast", "recorded", "lost"}
    BY <1>1 DEF IInv, TypeOK
  <1> QED BY <1>1, <1>2, <1>5, <1>7, <1>9, <1>10, StepPreserves, RecordRests

\* A step on the flows alone that gives no new answer.
LEMMA FlowStepPreserves ==
    ASSUME IInv, FlowsKept, UNCHANGED chainVars, ends' = ends, errors' \in Nat,
           UNCHANGED <<api, rec, durable, told>>,
           (\A g \in Flows : flow[g].at = "rest") /\ rec = Blank
              => \A g \in Flows : flow'[g].at = "rest"
    PROVE  IInv'
  <1>1. FlowInv' /\ flow' \in [Flows -> Flow]
    BY StillIsOnward, FlowStays, InvFacts DEF FlowsKept
  <1>2. UnrecordedInv'
    BY DEF IInv, TrackerInv, UnrecordedInv
  <1>3. api' \in {"broadcast", "recorded", "lost"}
    BY DEF IInv, TypeOK
  <1> QED BY <1>1, <1>2, <1>3, RecordRests, StepPreserves

LEMMA DisconnectedPreserves ==
    ASSUME IInv, NEW f \in Flows, Disconnected(f) \/ FailedLate(f)
    PROVE  IInv'
  <1>1. /\ flow' = [flow EXCEPT ![f].loop = Rejected(f)]
        /\ UNCHANGED chainVars /\ UNCHANGED <<api, rec, durable, told>>
    BY DEF Disconnected, FailedLate
  <1>2. ends' = ends /\ errors' \in Nat
    BY DEF Disconnected, FailedLate, faultVars, IInv, TypeOK
  <1>3. FlowsKept /\ flow'[f].at = flow[f].at
    BY <1>1, RejectedKeeps, InvFacts
  <1>4. \A g \in Flows \ {f} : flow'[g] = flow[g]
    BY <1>1, InvFacts
  <1> QED BY <1>1, <1>2, <1>3, <1>4, FlowStepPreserves

LEMMA RetriedPreserves ==
    ASSUME IInv, NEW f \in Flows, Retried(f)
    PROVE  IInv'
  <1>1. /\ flow[f].loop = "waits"
        /\ flow' = [flow EXCEPT ![f] = Begin(rec, flow[f].tries + 1)]
        /\ UNCHANGED chainVars /\ UNCHANGED <<api, rec, durable, told>>
    BY DEF Retried
  <1>2. ends' = ends /\ errors' \in Nat
    BY DEF Retried, faultVars, IInv, TypeOK
  <1>3. flow[f].tries + 1 \in 0..MaxTries
    <2>1. flow[f].tries < MaxTries
      BY <1>1, InvFacts DEF FlowInv
    <2>2. flow[f].tries \in 0..MaxTries
      BY InvFacts DEF Flow
    <2> QED BY <2>1, <2>2, BoundsAssumption
  <1>4. rec \in Record
    BY InvFacts DEF Good
  <1>5. FlowsKept
    BY <1>1, <1>3, <1>4, BegunKeeps, InvFacts
  <1>6. rec = Blank => flow'[f].at = "rest"
    <2>1. rec = Blank => ~rec.present
      BY DEF Blank
    <2>2. flow'[f] = Begin(rec, flow[f].tries + 1)
      BY <1>1, InvFacts
    <2> QED BY <1>3, <1>4, <2>1, <2>2, BeginWorks
  <1>7. \A g \in Flows \ {f} : flow'[g] = flow[g]
    BY <1>1, InvFacts
  <1> QED BY <1>1, <1>2, <1>5, <1>6, <1>7, FlowStepPreserves

\* A step on the record alone.
LEMMA RecordStepPreserves ==
    ASSUME IInv, RecordStep, UNCHANGED <<chainVars, api, flow, told, faultVars>>,
           api = "broadcast" => rec' = Blank /\ durable' = {Blank}
    PROVE  IInv'
  <1>1. UNCHANGED chainVars /\ api' = api /\ flow' = flow /\ told' = told
        /\ ends' = ends /\ errors' = errors
    BY DEF faultVars
  <1>2. UnrecordedInv'
    BY <1>1 DEF IInv, TrackerInv, UnrecordedInv
  <1>3. FlowInv'
    BY <1>1 DEF IInv, TrackerInv, FlowInv, chainVars
  <1>4. api' \in {"broadcast", "recorded", "lost"} /\ flow' \in [Flows -> Flow] /\ errors' \in Nat
    BY <1>1 DEF IInv, TypeOK
  <1> QED BY <1>1, <1>2, <1>3, <1>4, StepPreserves

LEMMA LandedPreserves ==
    ASSUME IInv, Landed
    PROVE  IInv'
  <1>1. rec' = rec /\ durable' = {IF rec.present THEN rec ELSE Blank}
    BY DEF Landed
  <1>2. RecordStep
    BY <1>1, BlankIsGood, InvFacts DEF RecordStep
  <1>3. api = "broadcast" => rec' = Blank /\ durable' = {Blank}
    BY <1>1 DEF IInv, TrackerInv, UnrecordedInv
  <1> QED BY <1>2, <1>3, RecordStepPreserves DEF Landed

LEMMA RemovedPreserves ==
    ASSUME IInv, Removed
    PROVE  IInv'
  <1>1. rec.present /\ rec' = [rec EXCEPT !.present = FALSE] /\ durable' = durable \cup {Blank}
    BY DEF Removed
  <1>2. /\ rec'.fulfilled = rec.fulfilled /\ rec'.seq = rec.seq /\ rec'.completed = rec.completed
        /\ rec'.error = rec.error /\ rec'.rewound = rec.rewound /\ rec'.blocked = rec.blocked
        /\ rec'.notified = rec.notified /\ rec' \in Record
    BY <1>1, InvFacts DEF Good, Record
  <1>3. Good(rec') /\ (ends = 0 => ~Cut(rec'))
    BY <1>2, InvFacts DEF Good, TrueOf, Cut
  <1>4. RecordStep
    BY <1>1, <1>2, <1>3, BlankIsGood, InvFacts DEF RecordStep
  <1>5. api # "broadcast"
    BY <1>1 DEF IInv, TrackerInv, UnrecordedInv, Blank
  <1> QED BY <1>4, <1>5, RecordStepPreserves DEF Removed

LEMMA RecordedPreserves ==
    ASSUME IInv, Recorded
    PROVE  IInv'
  <1> DEFINE new == [Blank EXCEPT !.present = TRUE]
  <1>1. /\ api = "broadcast" /\ api' = "recorded" /\ rec' = new /\ durable' = durable \cup {new}
        /\ UNCHANGED chainVars /\ told' = told /\ ends' = ends /\ errors' = errors
    BY DEF Recorded, faultVars
  <1>2. PICK f \in Flows : flow' = [flow EXCEPT ![f] = Begin(new, 0)]
    BY <1>1 DEF Recorded
  <1>3. Good(new) /\ ~Cut(new)
    <2>1. new \in Record
      BY BlankIsGood DEF Good, Record
    <2>2. /\ new.fulfilled = Blank.fulfilled /\ new.seq = Blank.seq
          /\ new.completed = Blank.completed /\ new.error = Blank.error
          /\ new.rewound = Blank.rewound /\ new.blocked = Blank.blocked
      BY DEF Blank
    <2> HIDE DEF new
    <2> QED BY <2>1, <2>2, BlankIsGood DEF Good, TrueOf, Cut
  <1> HIDE DEF new
  <1>4. FlowsKept
    <2>1. new \in Record /\ 0 \in 0..MaxTries
      BY <1>3, BoundsAssumption DEF Good
    <2> QED BY <1>2, <2>1, BegunKeeps, InvFacts, Zenon
  <1>5. flow' \in [Flows -> Flow] /\ FlowInv'
    BY <1>1, <1>4, StillIsOnward, FlowStays, InvFacts DEF FlowsKept
  <1>6. RecordStep
    <2>1. ~rec.notified
      BY <1>1 DEF IInv, TrackerInv, UnrecordedInv, Blank
    <2> QED BY <1>1, <1>3, <2>1, InvFacts DEF RecordStep
  <1>7. UnrecordedInv'
    BY <1>1 DEF UnrecordedInv
  <1>8. errors' \in Nat
    BY <1>1 DEF IInv, TypeOK
  <1> QED BY <1>1, <1>5, <1>6, <1>7, <1>8, StepPreserves

\* What is left in the storage is true; whether it is whole is not claimed.
LEMMA EndPreserves ==
    ASSUME IInv, End
    PROVE  IInv'
  <1>1. PICK r \in durable :
          /\ rec' = r /\ durable' = {r}
          /\ \E f \in Flows : flow' = [g \in Flows |-> IF g = f THEN Begin(r, 0) ELSE Idle]
    BY DEF End
  <1>2. PICK f \in Flows : flow' = [g \in Flows |-> IF g = f THEN Begin(r, 0) ELSE Idle]
    BY <1>1
  <1>3. /\ swapTarget' = swapTarget /\ tx' = tx /\ packet' = packet /\ refund' = refund
        /\ told' = told /\ errors' = errors /\ ends' = ends + 1
        /\ api' = IF api = "broadcast" THEN "lost" ELSE api
    BY DEF End, chainVars
  <1>4. Good(r)
    BY InvFacts
  <1>5. Begin(r, 0) \in Flow /\ ~Begin(r, 0).got /\ Sound(Begin(r, 0))
    BY <1>4, BeginWorks, BoundsAssumption DEF Good, Sound
  <1>6. Idle \in Flow /\ ~Idle.got /\ Sound(Idle)
    BY HopsAssumption, BoundsAssumption DEF Idle, Flow, Sound
  <1>7. FlowsKept
    BY <1>2, <1>5, <1>6 DEF FlowsKept
  <1>8. flow' \in [Flows -> Flow] /\ FlowInv'
    BY <1>3, <1>7, StillIsOnward, FlowStays, InvFacts DEF FlowsKept, chainVars
  <1>9. Limits /\ told <= ends + 1 /\ (told > 0 => Delivered)
    BY DEF IInv, TypeOK, TrackerInv, ToldOfDelivery, Limits
  <1>10. ends' \in Nat /\ ends' > 0 /\ told' < ends' + 1
    BY <1>3, <1>9 DEF Limits
  <1>11. api' \in {"broadcast", "recorded", "lost"} /\ api' # "broadcast"
    BY <1>3 DEF IInv, TypeOK
  <1>12. TypeOK'
    <2>1. rec' \in Record /\ durable' \subseteq Record
      BY <1>1, <1>4 DEF Good
    <2> QED BY <1>3, <1>8, <1>10, <1>11, <2>1 DEF IInv, TypeOK
  <1>13. ChainInv'
    BY <1>3 DEF IInv, TrackerInv, ChainInv
  <1>14. RecordIsTrue'
    BY <1>1, <1>3, <1>4 DEF RecordIsTrue, TrueOf, Good
  <1>15. ToldOfDelivery' /\ ToldInv'
    <2>1. told' > 0 => Delivered'
      BY <1>3, <1>9 DEF Delivered
    <2> QED BY <1>3, <1>9, <1>10, <2>1 DEF ToldOfDelivery, ToldInv, Limits
  <1>16. SuccessIsDelivery' /\ UnrecordedInv'
    BY <1>10, <1>11 DEF SuccessIsDelivery, UnrecordedInv
  <1> QED BY <1>8, <1>12, <1>13, <1>14, <1>15, <1>16 DEF IInv, TrackerInv

-------------------------------------------------------------------------------
(***************************************************************************)
(* The chains.                                                             *)
(***************************************************************************)
\* The chains go on: what is settled stays, so all that was known of it holds.
LEMMA ChainStepPreserves ==
    ASSUME IInv, Onward, UNCHANGED <<swapTarget, api, rec, durable, flow, told, faultVars>>,
           tx' \in {"pending", "ok", "failed"},
           packet' \in [Hops -> {"none", "sent", "received", "refused", "expired"}],
           refund' \in [Hops -> {"none", "ack", "timeout"}],
           ChainInv'
    PROVE  IInv'
  <1>1. /\ swapTarget' = swapTarget /\ api' = api /\ rec' = rec /\ durable' = durable
        /\ flow' = flow /\ told' = told /\ errors' = errors /\ ends' = ends
    BY DEF faultVars
  <1>2. TypeOK'
    BY <1>1 DEF IInv, TypeOK
  <1>3. RecordIsTrue'
    <2>1. TrueOf(rec)'
      <3>1. rec \in Record /\ TrueOf(rec)
        BY InvFacts DEF Good
      <3>2. /\ rec.fulfilled => tx' = "ok"
            /\ \A i \in Hops :
                 /\ rec.seq[i] # "no" => packet'[i] # "none"
                 /\ rec.completed[i] => packet'[i] \in {"received", "refused"}
                 /\ rec.error[i] => packet'[i] \in {"refused", "expired"}
                 /\ rec.rewound[i] => refund'[i] # "none"
                 /\ rec.blocked[i] => i = swapTarget' /\ refund'[i] # "none"
        BY <1>1, <3>1 DEF TrueOf, Onward
      <3> QED BY <1>1, <3>2 DEF TrueOf
    <2>2. ASSUME NEW r \in durable PROVE TrueOf(r)'
      BY <1>1, TruthStays, InvFacts DEF Good
    <2> QED BY <1>1, <2>1, <2>2 DEF RecordIsTrue
  <1>4. FlowInv'
    <2>1. FlowsKept
      BY <1>1, InvFacts DEF FlowsKept, FlowInv, Sound
    <2> QED BY <2>1, FlowStays, InvFacts
  <1>5. UnrecordedInv' /\ ToldInv'
    BY <1>1 DEF IInv, TrackerInv, UnrecordedInv, ToldInv
  <1>6. Delivered => Delivered'
    BY DEF Delivered, Onward
  <1>7. ToldOfDelivery'
    BY <1>1, <1>6 DEF IInv, TrackerInv, ToldOfDelivery
  <1>8. SuccessIsDelivery'
    <2>1. Torn' => Torn
      <3> SUFFICES ASSUME Torn' PROVE Torn
        OBVIOUS
      <3>1. PICK i \in Hops : rec.completed[i] /\
                \/ packet'[i] = "refused" /\ ~rec.error[i]
                \/ packet'[i] = "received" /\ i < N /\ rec.seq[i + 1] # "yes"
        BY <1>1 DEF Torn
      <3>2. packet[i] \in {"received", "refused"}
        BY <3>1, InvFacts DEF Good, TrueOf
      <3>3. packet'[i] = packet[i]
        BY <3>2 DEF Onward
      <3> QED BY <3>1, <3>3 DEF Torn
    <2>2. Succeeded(rec)' <=> Succeeded(rec)
      BY <1>1 DEF Succeeded, Ahead, Failed
    <2> QED BY <1>1, <1>6, <2>1, <2>2 DEF IInv, TrackerInv, SuccessIsDelivery
  <1> QED BY <1>2, <1>3, <1>4, <1>5, <1>7, <1>8 DEF IInv, TrackerInv

LEMMA IncludedPreserves ==
    ASSUME IInv, Included
    PROVE  IInv'
  <1> USE HopsAssumption
  <1>1. /\ tx = "pending" /\ refund' = refund
        /\ UNCHANGED <<swapTarget, api, rec, durable, flow, told, faultVars>>
    BY DEF Included
  <1>2. /\ packet \in [Hops -> {"none", "sent", "received", "refused", "expired"}]
        /\ refund \in [Hops -> {"none", "ack", "timeout"}]
    BY DEF IInv, TypeOK
  <1>3. \A i \in Hops : packet[i] = "none"
    BY <1>1, InvFacts DEF ChainInv
  <1>4. 1 \in Hops /\ \A i \in Hops : 1..(i - 1) \subseteq Hops
    BY DEF Hops
  <1>5. CASE tx' = "ok" /\ packet' = [packet EXCEPT ![1] = "sent"]
    <2>1. packet' \in [Hops -> {"none", "sent", "received", "refused", "expired"}]
      BY <1>2, <1>5
    <2>2. packet'[1] = "sent" /\ \A i \in Hops \ {1} : packet'[i] = "none"
      BY <1>2, <1>3, <1>4, <1>5
    <2>3. ChainInv'
      BY <1>4, <1>5, <2>2 DEF ChainInv
    <2>4. Onward
      BY <1>1, <1>3 DEF Onward
    <2> QED BY <1>1, <1>2, <1>5, <2>1, <2>3, <2>4, ChainStepPreserves
  <1>6. CASE tx' = "failed" /\ packet' = packet
    <2>1. ChainInv'
      BY <1>3, <1>6 DEF ChainInv
    <2>2. Onward
      BY <1>1, <1>6 DEF Onward
    <2> QED BY <1>1, <1>2, <1>6, <2>1, <2>2, ChainStepPreserves
  <1> QED BY <1>5, <1>6 DEF Included

LEMMA SettledPreserves ==
    ASSUME IInv, NEW i \in Hops, Settled(i)
    PROVE  IInv'
  <1> USE HopsAssumption
  <1>1. /\ packet[i] = "sent" /\ tx' = tx
        /\ UNCHANGED <<swapTarget, api, rec, durable, flow, told, faultVars>>
    BY DEF Settled
  <1>2. /\ packet \in [Hops -> {"none", "sent", "received", "refused", "expired"}]
        /\ refund \in [Hops -> {"none", "ack", "timeout"}]
        /\ tx \in {"pending", "ok", "failed"}
    BY DEF IInv, TypeOK
  <1>3. tx = "ok" /\ \A j \in 1..(i - 1) : packet[j] = "received"
    BY <1>1, InvFacts DEF ChainInv
  <1>4. \A k \in Hops : k > i => packet[k] = "none"
    <2> SUFFICES ASSUME NEW k \in Hops, k > i, packet[k] # "none" PROVE FALSE
      OBVIOUS
    <2>1. i \in 1..(k - 1)
      BY DEF Hops
    <2>2. packet[i] = "received"
      BY <2>1, InvFacts DEF ChainInv
    <2> QED BY <1>1, <2>2
  <1>5. \A k \in Hops : k \in Int /\ k >= 1 /\ k <= N
    BY DEF Hops
  <1>6. 1 \in Hops /\ packet[1] # "none"
    BY <1>3, InvFacts DEF Hops, ChainInv
  <1>7. CASE /\ packet' = [j \in Hops |-> IF j = i THEN "received"
                                          ELSE IF j = i + 1 THEN "sent" ELSE packet[j]]
             /\ refund' = refund
    <2>1. packet' \in [Hops -> {"none", "sent", "received", "refused", "expired"}]
      BY <1>2, <1>7
    <2>2. /\ packet'[i] = "received" /\ (i + 1 \in Hops => packet'[i + 1] = "sent")
          /\ \A k \in Hops \ {i, i + 1} : packet'[k] = packet[k]
      BY <1>5, <1>7
    <2>3. \A k \in Hops : packet'[k] # "none" => \A j \in 1..(k - 1) : packet'[j] = "received"
      <3> SUFFICES ASSUME NEW k \in Hops, packet'[k] # "none", NEW j \in 1..(k - 1)
                   PROVE  packet'[j] = "received"
        OBVIOUS
      <3>1. j \in Hops /\ j < k
        BY <1>5 DEF Hops
      <3>2. k <= i + 1
        BY <1>4, <1>5, <2>2
      <3>3. j # i + 1
        BY <1>5, <3>1, <3>2
      <3>4. CASE j = i
        BY <2>2, <3>4
      <3>5. CASE j # i
        <4>1. j \in 1..(i - 1)
          BY <1>5, <3>1, <3>2, <3>5
        <4> QED BY <1>3, <2>2, <3>1, <3>3, <3>5, <4>1
      <3> QED BY <3>4, <3>5
    <2>4. \A k \in Hops : packet'[k] = "received" /\ k < N => packet'[k + 1] # "none"
      <3> SUFFICES ASSUME NEW k \in Hops, packet'[k] = "received", k < N
                   PROVE  packet'[k + 1] # "none"
        OBVIOUS
      <3>1. k + 1 \in Hops
        BY <1>5 DEF Hops
      <3>2. CASE k = i
        BY <2>2, <3>1, <3>2
      <3>3. CASE k # i
        <4>1. k # i + 1 /\ packet[k] = "received"
          BY <2>2, <3>3
        <4>2. packet[k + 1] # "none"
          BY <4>1, InvFacts DEF ChainInv
        <4>3. CASE k + 1 = i
          BY <2>2, <4>3
        <4>4. CASE k + 1 # i
          <5>1. k + 1 # i + 1
            BY <1>5, <3>3
          <5> QED BY <2>2, <3>1, <4>2, <4>4, <5>1
        <4> QED BY <4>3, <4>4
      <3> QED BY <3>2, <3>3
    <2>5. packet'[1] # "none"
      BY <1>6, <2>2
    <2>6. ChainInv'
      BY <1>1, <1>3, <2>3, <2>4, <2>5 DEF ChainInv
    <2>7. Onward
      <3>1. i + 1 \in Hops => packet[i + 1] = "none"
        BY <1>4, <1>5
      <3> QED BY <1>1, <1>7, <2>2, <3>1 DEF Onward
    <2> QED BY <1>1, <1>2, <1>7, <2>1, <2>6, <2>7, ChainStepPreserves
  <1>8. CASE \/ packet' = [packet EXCEPT ![i] = "refused"] /\ refund' = refund
             \/ packet' = [packet EXCEPT ![i] = "expired"]
                /\ refund' = [refund EXCEPT ![i] = "timeout"]
    <2>1. /\ packet' \in [Hops -> {"none", "sent", "received", "refused", "expired"}]
          /\ refund' \in [Hops -> {"none", "ack", "timeout"}]
      BY <1>2, <1>8
    <2>2. /\ packet'[i] \in {"refused", "expired"}
          /\ \A k \in Hops \ {i} : packet'[k] = packet[k]
          /\ \A k \in Hops : refund[k] # "none" => refund'[k] # "none"
      BY <1>2, <1>8
    <2>3. \A k \in Hops : packet'[k] # "none" => \A j \in 1..(k - 1) : packet'[j] = "received"
      <3> SUFFICES ASSUME NEW k \in Hops, packet'[k] # "none", NEW j \in 1..(k - 1)
                   PROVE  packet'[j] = "received"
        OBVIOUS
      <3>1. j \in Hops /\ j < k
        BY <1>5 DEF Hops
      <3>2. packet[k] # "none"
        BY <1>1, <2>2
      <3>3. packet[j] = "received"
        BY <3>2, InvFacts DEF ChainInv
      <3> QED BY <1>1, <2>2, <3>1, <3>3
    <2>4. \A k \in Hops : packet'[k] = "received" /\ k < N => packet'[k + 1] # "none"
      <3> SUFFICES ASSUME NEW k \in Hops, packet'[k] = "received", k < N
                   PROVE  packet'[k + 1] # "none"
        OBVIOUS
      <3>1. k + 1 \in Hops
        BY <1>5 DEF Hops
      <3>2. packet[k] = "received"
        BY <2>2
      <3>3. packet[k + 1] # "none"
        BY <3>2, InvFacts DEF ChainInv
      <3> QED BY <2>2, <3>1, <3>3
    <2>5. packet'[1] # "none"
      BY <1>6, <2>2
    <2>6. ChainInv'
      BY <1>1, <1>3, <2>3, <2>4, <2>5 DEF ChainInv
    <2>7. Onward
      BY <1>1, <2>2 DEF Onward
    <2> QED BY <1>1, <1>2, <2>1, <2>6, <2>7, ChainStepPreserves
  <1> QED BY <1>7, <1>8 DEF Settled

LEMMA RefundedPreserves ==
    ASSUME IInv, NEW i \in Hops, Refunded(i)
    PROVE  IInv'
  <1>1. /\ tx' = tx /\ packet' = packet
        /\ UNCHANGED <<swapTarget, api, rec, durable, flow, told, faultVars>>
    BY DEF Refunded
  <1>2. /\ packet \in [Hops -> {"none", "sent", "received", "refused", "expired"}]
        /\ refund \in [Hops -> {"none", "ack", "timeout"}]
        /\ tx \in {"pending", "ok", "failed"}
    BY DEF IInv, TypeOK
  <1>3. PICK how \in {"ack", "timeout"} : refund' = [refund EXCEPT ![i] = how]
    <2>1. i + 1 \in Hops /\ refund[i + 1] # "none" => refund[i + 1] \in {"ack", "timeout"}
      BY <1>2
    <2> QED BY <2>1 DEF Refunded
  <1>4. /\ refund' \in [Hops -> {"none", "ack", "timeout"}]
        /\ \A k \in Hops : refund[k] # "none" => refund'[k] # "none"
    BY <1>2, <1>3
  <1>5. ChainInv'
    BY <1>1 DEF IInv, TrackerInv, ChainInv
  <1>6. Onward
    BY <1>1, <1>4 DEF Onward
  <1> QED BY <1>1, <1>2, <1>4, <1>5, <1>6, ChainStepPreserves

-------------------------------------------------------------------------------
(***************************************************************************)
(* The invariant holds.                                                    *)
(***************************************************************************)
LEMMA InitIInv == Init => IInv
  <1> SUFFICES ASSUME Init PROVE IInv
    OBVIOUS
  <1> USE HopsAssumption, BoundsAssumption
  <1>1. Idle \in Flow
    BY DEF Idle, Flow
  <1>2. Good(Blank) /\ ~Cut(Blank)
    BY BlankIsGood
  <1>3. TypeOK
    BY <1>1, <1>2 DEF Init, TypeOK, Good
  <1>4. ChainInv
    BY DEF Init, ChainInv, Hops
  <1>5. FlowInv
    BY DEF Init, FlowInv, Idle
  <1>6. UnrecordedInv /\ ToldInv /\ ToldOfDelivery
    BY DEF Init, UnrecordedInv, ToldInv, ToldOfDelivery, Idle
  <1>7. RecordIsTrue
    BY <1>2 DEF Init, RecordIsTrue, Good
  <1>8. SuccessIsDelivery
    BY <1>2 DEF Init, SuccessIsDelivery, Torn, Cut, Succeeded, Blank
  <1> QED BY <1>3, <1>4, <1>5, <1>6, <1>7, <1>8 DEF IInv, TrackerInv

LEMMA NextPreserves ==
    ASSUME IInv, [Next]_vars
    PROVE  IInv'
  <1>1. CASE Chain
    BY <1>1, IncludedPreserves, SettledPreserves, RefundedPreserves DEF Chain
  <1>2. CASE Landed
    BY <1>2, LandedPreserves
  <1>3. CASE Recorded
    BY <1>3, RecordedPreserves
  <1>4. CASE Removed
    BY <1>4, RemovedPreserves
  <1>5. CASE End
    BY <1>5, EndPreserves
  <1>6. ASSUME NEW f \in Flows,
               Answered(f) \/ Disconnected(f) \/ FailedLate(f) \/ Retried(f) \/ Handled(f)
        PROVE  IInv'
    BY <1>6, AnsweredPreserves, DisconnectedPreserves, RetriedPreserves, HandledPreserves
  <1>7. CASE UNCHANGED vars
    <2>1. RecordStep
      BY <1>7, RecordRests DEF vars
    <2>2. api = "broadcast" => rec' = Blank /\ durable' = {Blank}
      BY <1>7 DEF vars, IInv, TrackerInv, UnrecordedInv
    <2> QED BY <1>7, <2>1, <2>2, RecordStepPreserves DEF vars, chainVars, faultVars
  <1> QED BY <1>1, <1>2, <1>3, <1>4, <1>5, <1>6, <1>7 DEF Next

LEMMA InvariantHolds == Spec => []IInv
  <1>1. Init => IInv
    BY InitIInv
  <1>2. IInv /\ [Next]_vars => IInv'
    BY NextPreserves
  <1> QED BY <1>1, <1>2, PTL DEF Spec

\* Every variable keeps its type, for any number of packets, flows and faults.
THEOREM TypesHold == Spec => []TypeOK
  <1>1. IInv => TypeOK
    BY DEF IInv
  <1> QED BY <1>1, InvariantHolds, PTL

\* The chains, the flows, the record, its storage and what the user was told
\* agree at every step of the tracker.
THEOREM TrackerInvariant == Spec => []TrackerInv
  <1>1. IInv => TrackerInv
    BY DEF IInv
  <1> QED BY <1>1, InvariantHolds, PTL

\* The tracker never records a receipt, a failure or a refund that did not
\* happen on the chains, whatever flows run at once and whenever the background
\* ends.
THEOREM RecordStaysTrue == Spec => []RecordIsTrue
  <1>1. IInv => RecordIsTrue
    BY DEF IInv, TrackerInv
  <1> QED BY <1>1, InvariantHolds, PTL

\* The user is told of a success only when all packets arrived, at most once per
\* start of the background.
THEOREM ToldOnlyOfDelivery == Spec => []ToldOfDelivery
  <1>1. IInv => ToldOfDelivery
    BY DEF IInv, TrackerInv
  <1> QED BY <1>1, InvariantHolds, PTL

\* While the background runs no refused packet passes for a received one, and
\* what is shown as a success arrived.
THEOREM SuccessIsTrue == Spec => []SuccessIsDelivery
  <1>1. IInv => SuccessIsDelivery
    BY DEF IInv, TrackerInv
  <1> QED BY <1>1, InvariantHolds, PTL

-------------------------------------------------------------------------------
(***************************************************************************)
(* A transfer that is not at its end is watched.                           *)
(***************************************************************************)
\* What the handlers do to a record: only a completion whose acknowledgement
\* cannot be read is taken back.
Grows(r, s) ==
    /\ r.fulfilled => s.fulfilled
    /\ \A j \in Hops :
         /\ r.seq[j] # "no" => s.seq[j] # "no"
         /\ r.completed[j] /\ ~s.completed[j] => j = N \/ packet[j] = "refused"
         /\ r.error[j] => s.error[j]
         /\ r.rewound[j] => s.rewound[j]

LEMMA GrowsFurther ==
    ASSUME NEW r, NEW s, NEW t, Grows(r, s), Grows(s, t) PROVE Grows(r, t)
  <1> QED BY DEF Grows

LEMMA ReachedStays ==
    ASSUME ChainInv, NEW r, TrueOf(r), NEW s, Grows(r, s), NEW i \in Hops, Reached(r, i)
    PROVE  Reached(s, i)
  <1>0. 1..i \subseteq Hops /\ 1..(i - 1) \subseteq Hops
    BY HopsAssumption DEF Hops
  <1>1. s.fulfilled /\ \A j \in 1..i : s.seq[j] # "no"
    BY <1>0 DEF Reached, Grows
  <1>2. ASSUME NEW j \in 1..(i - 1) PROVE s.completed[j]
    <2>1. r.completed[j] /\ j \in Hops /\ j # N /\ i \in 1..i
      BY <1>0, HopsAssumption DEF Reached, Hops
    <2>2. packet[i] # "none"
      BY <2>1 DEF Reached, TrueOf
    <2>3. packet[j] = "received"
      BY <2>2 DEF ChainInv
    <2> QED BY <2>1, <2>3 DEF Grows
  <1> QED BY <1>1, <1>2 DEF Reached

LEMMA CameStays ==
    ASSUME NEW r, NEW s, Grows(r, s), NEW i \in Hops, CameTo(r, i)
    PROVE  CameTo(s, i)
  <1>1. PICK k \in Failed(r) : i <= k /\ \A j \in (i + 1)..k : r.rewound[j]
    BY DEF CameTo
  <1>2. k \in Failed(s)
    BY <1>1 DEF Grows, Failed
  <1>3. (i + 1)..k \subseteq Hops
    BY <1>1, HopsAssumption DEF Failed, Hops
  <1>4. \A j \in (i + 1)..k : s.rewound[j]
    BY <1>1, <1>3 DEF Grows
  <1> QED BY <1>1, <1>2, <1>4 DEF CameTo

LEMMA ShapeGrows ==
    ASSUME ChainInv, NEW r, TrueOf(r), Shape(r), NEW s, Grows(r, s),
           s.fulfilled => r.fulfilled \/ s.seq[1] # "no",
           \A j \in Hops : s.completed[j] \/ s.error[j] =>
               r.completed[j] \/ r.error[j] \/ Reached(s, j),
           \A j \in Hops : s.rewound[j] => r.rewound[j] \/ CameTo(s, j)
    PROVE  Shape(s)
  <1>1. s.fulfilled => s.seq[1] # "no"
    <2>1. 1 \in Hops
      BY HopsAssumption DEF Hops
    <2> QED BY <2>1 DEF Shape, Grows
  <1>2. ASSUME NEW j \in Hops, s.completed[j] \/ s.error[j] PROVE Reached(s, j)
    BY <1>2, ReachedStays DEF Shape
  <1>3. ASSUME NEW j \in Hops, s.rewound[j] PROVE CameTo(s, j)
    BY <1>3, CameStays DEF Shape
  <1> QED BY <1>1, <1>2, <1>3 DEF Shape

\* A change of what the tracking does not look at.
LEMMA ShapeSame ==
    ASSUME NEW r, NEW s, Shape(r),
           s.fulfilled = r.fulfilled, s.seq = r.seq, s.completed = r.completed,
           s.error = r.error, s.rewound = r.rewound
    PROVE  Shape(s) /\ Grows(r, s)
  <1>1. Grows(r, s)
    BY DEF Grows
  <1>2. Failed(s) = Failed(r)
    BY DEF Failed
  <1>3. \A i : (Reached(s, i) <=> Reached(r, i)) /\ (CameTo(s, i) <=> CameTo(r, i))
    BY <1>2 DEF Reached, CameTo
  <1> QED BY <1>1, <1>3 DEF Shape

LEMMA ResultShape ==
    ASSUME NEW r \in Record, Shape(r), NEW i
    PROVE  /\ Shape(WithResult(r, i)) /\ Grows(r, WithResult(r, i))
           /\ WithResult(r, i).fulfilled = r.fulfilled /\ WithResult(r, i).seq = r.seq
           /\ WithResult(r, i).completed = r.completed /\ WithResult(r, i).error = r.error
  <1>1. /\ WithResult(r, i).fulfilled = r.fulfilled /\ WithResult(r, i).seq = r.seq
        /\ WithResult(r, i).completed = r.completed /\ WithResult(r, i).error = r.error
        /\ WithResult(r, i).rewound = r.rewound
    BY DEF WithResult, Record
  <1> QED BY <1>1, ShapeSame

LEMMA SeqShape ==
    ASSUME ChainInv, NEW r \in Record, TrueOf(r), Shape(r), NEW i \in Hops, NEW v \in {"half", "yes"}
    PROVE  LET s == [r EXCEPT !.seq[i] = v]
           IN  /\ Shape(s) /\ Grows(r, s)
               /\ s.fulfilled = r.fulfilled /\ s.completed = r.completed
               /\ s.error = r.error /\ s.seq[i] = v
  <1> DEFINE s == [r EXCEPT !.seq[i] = v]
  <1>1. /\ s.fulfilled = r.fulfilled /\ s.completed = r.completed /\ s.error = r.error
        /\ s.rewound = r.rewound /\ s.seq = [r.seq EXCEPT ![i] = v]
    BY DEF Record
  <1>2. r.seq \in [Hops -> Sequence]
    BY DEF Record
  <1> HIDE DEF s
  <1>3. Grows(r, s)
    BY <1>1, <1>2 DEF Grows
  <1>4. Shape(s)
    BY <1>1, <1>3, ShapeGrows
  <1> QED BY <1>1, <1>2, <1>3, <1>4 DEF s

LEMMA HalfShape ==
    ASSUME ChainInv, NEW r \in Record, TrueOf(r), Shape(r), NEW i \in Hops
    PROVE  /\ Shape(HalfKnown(r, i)) /\ Grows(r, HalfKnown(r, i))
           /\ HalfKnown(r, i).fulfilled = r.fulfilled
           /\ HalfKnown(r, i).completed = r.completed /\ HalfKnown(r, i).error = r.error
  <1>1. CASE r.seq[i] = "no"
    BY <1>1, SeqShape DEF HalfKnown
  <1>2. CASE r.seq[i] # "no"
    BY <1>2, ShapeSame DEF HalfKnown
  <1> QED BY <1>1, <1>2

LEMMA CompletedShape ==
    ASSUME ChainInv, rec \in Record, TrueOf(rec), Shape(rec), NEW i \in Hops, Reached(rec, i)
    PROVE  /\ Shape(Completed(i)) /\ Grows(rec, Completed(i))
           /\ Completed(i).fulfilled = rec.fulfilled
           /\ Completed(i).completed[i]
           /\ \A j \in Hops \ {i} : Completed(i).completed[j] = rec.completed[j]
           /\ Completed(i).error = rec.error /\ Completed(i).seq = rec.seq
  <1> DEFINE s == Completed(i)
  <1>1. /\ s.fulfilled = rec.fulfilled /\ s.error = rec.error /\ s.seq = rec.seq
        /\ s.rewound = rec.rewound /\ s.completed = [rec.completed EXCEPT ![i] = TRUE]
    BY DEF Completed, Record
  <1>2. rec.completed \in [Hops -> BOOLEAN]
    BY DEF Record
  <1> HIDE DEF s
  <1>3. /\ Grows(rec, s) /\ s.completed[i]
        /\ \A j \in Hops \ {i} : s.completed[j] = rec.completed[j]
    BY <1>1, <1>2 DEF Grows
  <1>4. Reached(s, i)
    BY <1>3, ReachedStays
  <1>5. Shape(s)
    BY <1>1, <1>3, <1>4, ShapeGrows
  <1> QED BY <1>1, <1>3, <1>5 DEF s

LEMMA ErrorShape ==
    ASSUME ChainInv, NEW r \in Record, TrueOf(r), Shape(r), NEW s, NEW i \in Hops, Reached(r, i),
           s.fulfilled = r.fulfilled, s.seq = r.seq, s.completed = r.completed,
           s.rewound = r.rewound, s.error = [r.error EXCEPT ![i] = TRUE]
    PROVE  Shape(s) /\ Grows(r, s)
  <1>1. r.error \in [Hops -> BOOLEAN]
    BY DEF Record
  <1>2. Grows(r, s)
    BY <1>1 DEF Grows
  <1>3. Reached(s, i)
    BY <1>2, ReachedStays
  <1>4. \A j \in Hops \ {i} : s.error[j] = r.error[j]
    BY <1>1
  <1> QED BY <1>2, <1>3, <1>4, ShapeGrows

\* Tracking a record that was found whole ends only at its end.
LEMMA RestIsEnd ==
    ASSUME ChainInv, NEW r \in Record, TrueOf(r), Shape(r), r.present, Watch(r).at = "rest"
    PROVE  Shown(r) \/ Cut(r)
  <1>0. r.fulfilled
    BY DEF Watch
  <1>1. CASE Failed(r) = {}
    <2>1. CASE Ahead(r) = {}
      BY <1>0, <1>1, <2>1 DEF Shown, Succeeded
    <2>2. CASE Ahead(r) # {}
      <3> DEFINE i == First(Ahead(r))
      <3>1. r.seq[i] = "no"
        BY <1>0, <1>1, <2>2 DEF Watch
      <3>2. i \in Ahead(r) /\ \A j \in Ahead(r) : i <= j
        <4>1. Ahead(r) \subseteq Nat
          BY DEF Ahead, Hops
        <4> QED BY <2>2, <4>1, FirstIn
      <3> HIDE DEF i
      <3>3. i \in Hops /\ i # 1
        BY <1>0, <3>1, <3>2 DEF Ahead, Shape
      <3>4. i - 1 \in Hops /\ ~(i <= i - 1) /\ i - 1 < N
        BY <3>3, HopsAssumption DEF Hops
      <3>5. r.completed[i - 1]
        BY <3>2, <3>4 DEF Ahead
      <3>6. packet[i - 1] \in {"received", "refused"} /\ ~r.error[i - 1]
        BY <1>1, <3>4, <3>5 DEF TrueOf, Failed
      <3>7. (i - 1) + 1 = i
        BY <3>3 DEF Hops
      <3>8. r.seq[(i - 1) + 1] # "yes"
        BY <3>1, <3>7
      <3>9. Cut(r)
        BY <3>4, <3>5, <3>6, <3>8 DEF Cut
      <3> QED BY <3>9
    <2> QED BY <2>1, <2>2
  <1>2. CASE Failed(r) # {}
    <2> DEFINE k == First(Failed(r))
    <2>1. k \in Failed(r) /\ \A j \in Failed(r) : k <= j
      <3>1. Failed(r) \subseteq Nat
        BY DEF Failed, Hops
      <3> QED BY <1>2, <3>1, FirstIn
    <2> HIDE DEF k
    <2>2. k \in Hops /\ packet[k] \in {"refused", "expired"} /\ Reached(r, k)
      BY <2>1 DEF Failed, TrueOf, Shape
    <2>3. ASSUME NEW j \in Failed(r) PROVE j = k
      <3>1. j \in Hops /\ k <= j /\ packet[j] # "none"
        BY <2>1 DEF Failed, TrueOf
      <3>2. j # k => k \in 1..(j - 1)
        BY <2>2, <3>1, HopsAssumption DEF Hops
      <3>3. k \in 1..(j - 1) => packet[k] = "received"
        BY <3>1 DEF ChainInv
      <3> QED BY <2>2, <3>2, <3>3
    <2>4. CASE \E i \in Hops : r.blocked[i]
      BY <1>2, <2>4 DEF Shown, CameBack
    <2>5. CASE ~(\E i \in Hops : r.blocked[i])
      <3>1. Target(r) \notin Hops \/ r.seq[Target(r)] = "no"
        BY <1>0, <1>2, <2>5 DEF Watch
      <3>2. ASSUME Returned(r) = {} PROVE FALSE
        <4>1. Target(r) = k
          BY <3>2 DEF Target, k
        <4>2. k \in 1..k
          BY <2>2 DEF Hops
        <4> QED BY <2>2, <3>1, <4>1, <4>2 DEF Reached
      <3> DEFINE m == First(Returned(r))
      <3>3. m \in Returned(r) /\ Target(r) = m - 1
        <4>1. Returned(r) \subseteq Nat
          BY DEF Returned, Hops
        <4> QED BY <3>2, <4>1, FirstIn DEF Target
      <3> HIDE DEF m
      <3>4. m \in Hops /\ r.rewound[m]
        BY <3>3 DEF Returned
      <3>5. m <= k /\ \A j \in (m + 1)..k : r.rewound[j]
        BY <2>3, <3>4 DEF Shape, CameTo
      <3>6. m - 1 = 0
        <4> SUFFICES ASSUME m - 1 # 0 PROVE FALSE
          OBVIOUS
        <4>1. m - 1 \in Hops /\ m - 1 \in 1..k
          BY <2>2, <3>4, <3>5, HopsAssumption DEF Hops
        <4> QED BY <2>2, <3>1, <3>3, <4>1 DEF Reached
      <3>7. ASSUME NEW j \in 1..k PROVE r.rewound[j]
        <4>1. j = m \/ j \in (m + 1)..k
          BY <2>2, <3>4, <3>6 DEF Hops
        <4> QED BY <3>4, <3>5, <4>1
      <3> QED BY <1>2, <3>7 DEF Shown, CameBack, k
    <2> QED BY <2>4, <2>5
  <1> QED BY <1>1, <1>2

\* Where a new flow begins, the tokens were seen.
LEMMA BegunShape ==
    ASSUME NEW r \in Record, Shape(r), NEW n
    PROVE  /\ Begin(r, n).at = "rest" => Begin(r, n).loop = "over"
           /\ Begin(r, n).at # "rest" => Begin(r, n).loop = "runs"
           /\ ~Begin(r, n).got
           /\ Begin(r, n).at = "hop" => Reached(r, Begin(r, n).hop)
           /\ Begin(r, n).at = "rewind" => CameTo(r, Begin(r, n).hop)
           /\ Begin(r, n).at = Watch(r).at /\ Begin(r, n).hop = Watch(r).hop
  <1>1. Watch(r).at = "hop" => Reached(r, Watch(r).hop)
    <2> SUFFICES ASSUME Watch(r).at = "hop" PROVE Reached(r, Watch(r).hop)
      OBVIOUS
    <2> DEFINE i == First(Ahead(r))
    <2>1. r.fulfilled /\ Ahead(r) # {} /\ r.seq[i] # "no" /\ Watch(r).hop = i
      BY DEF Watch, Record
    <2>2. i \in Ahead(r) /\ \A j \in Ahead(r) : i <= j
      <3>1. Ahead(r) \subseteq Nat
        BY DEF Ahead, Hops
      <3> QED BY <2>1, <3>1, FirstIn
    <2> HIDE DEF i
    <2>3. i \in Hops
      BY <2>2 DEF Ahead
    <2>4. ASSUME NEW j \in 1..(i - 1) PROVE r.completed[j] /\ r.seq[j] # "no"
      <3>1. j \in Hops /\ ~(i <= j) /\ j \in 1..j
        BY <2>3, HopsAssumption DEF Hops
      <3>2. r.completed[j]
        BY <2>2, <3>1 DEF Ahead
      <3> QED BY <3>1, <3>2 DEF Shape, Reached
    <2>5. ASSUME NEW j \in 1..i PROVE r.seq[j] # "no"
      <3>1. j = i \/ j \in 1..(i - 1)
        BY <2>3 DEF Hops
      <3> QED BY <2>1, <2>4, <3>1
    <2> QED BY <2>1, <2>4, <2>5 DEF Reached
  <1>2. Watch(r).at = "rewind" => CameTo(r, Watch(r).hop)
    <2> SUFFICES ASSUME Watch(r).at = "rewind" PROVE CameTo(r, Watch(r).hop)
      OBVIOUS
    <2>1. Failed(r) # {} /\ Watch(r).hop = Target(r)
      BY DEF Watch, Record
    <2>2. CASE Returned(r) = {}
      <3>1. Failed(r) \subseteq Nat
        BY DEF Failed, Hops
      <3> DEFINE k == First(Failed(r))
      <3>2. k \in Failed(r)
        BY <2>1, <3>1, FirstIn
      <3>3. Target(r) = k
        BY <2>2 DEF Target
      <3> HIDE DEF k
      <3>4. k <= k /\ (k + 1)..k = {}
        BY <3>1, <3>2
      <3> QED BY <2>1, <3>2, <3>3, <3>4 DEF CameTo
    <2>3. CASE Returned(r) # {}
      <3> DEFINE m == First(Returned(r))
      <3>1. m \in Returned(r) /\ Target(r) = m - 1
        <4>1. Returned(r) \subseteq Nat
          BY DEF Returned, Hops
        <4> QED BY <2>3, <4>1, FirstIn DEF Target
      <3> HIDE DEF m
      <3>2. m \in Hops /\ r.rewound[m]
        BY <3>1 DEF Returned
      <3>3. PICK k \in Failed(r) : m <= k /\ \A j \in (m + 1)..k : r.rewound[j]
        BY <3>2 DEF Shape, CameTo
      <3>4. k \in Nat /\ m \in Nat
        BY <3>2 DEF Failed, Hops
      <3>5. m - 1 <= k /\ \A j \in ((m - 1) + 1)..k : r.rewound[j]
        <4>1. ASSUME NEW j \in ((m - 1) + 1)..k PROVE r.rewound[j]
          <5>1. j = m \/ j \in (m + 1)..k
            BY <3>4
          <5> QED BY <3>2, <3>3, <5>1
        <4> QED BY <3>3, <3>4, <4>1
      <3> QED BY <2>1, <3>1, <3>5 DEF CameTo
    <2> QED BY <2>2, <2>3
  <1>3. Begin(r, n).at = Watch(r).at /\ Begin(r, n).hop = Watch(r).hop
    BY DEF Begin
  <1> QED BY <1>1, <1>2, <1>3 DEF Begin

\* Each flow stays where it is, begins anew with the record, or ends.
FlowMoves ==
    \A g \in Flows :
      \/ /\ flow'[g].at = flow[g].at /\ flow'[g].hop = flow[g].hop
         /\ flow[g].loop = "over" <=> flow'[g].loop = "over"
         /\ flow'[g].got => flow[g].got \/ flow[g].loop = "runs"
      \/ \E n : flow'[g] = Begin(rec', n)
      \/ flow'[g] = Idle

LEMMA FlowShapeStays ==
    ASSUME ChainInv, TrueOf(rec), FlowInv, FlowShape, FlowMoves, Grows(rec, rec'),
           rec' \in Record, Shape(rec')
    PROVE  FlowShape'
  <1> SUFFICES ASSUME NEW g \in Flows
               PROVE  /\ flow'[g].at = "rest" => flow'[g].loop = "over"
                      /\ flow'[g].got => flow'[g].loop # "over"
                      /\ flow'[g].at = "hop" => Reached(rec', flow'[g].hop)
                      /\ flow'[g].at = "rewind" => CameTo(rec', flow'[g].hop)
    BY DEF FlowShape, Reached, CameTo, Failed
  <1>1. CASE /\ flow'[g].at = flow[g].at /\ flow'[g].hop = flow[g].hop
             /\ flow[g].loop = "over" <=> flow'[g].loop = "over"
             /\ flow'[g].got => flow[g].got \/ flow[g].loop = "runs"
    <2>1. /\ flow[g].at = "rest" => flow[g].loop = "over"
          /\ flow[g].got => flow[g].loop # "over"
          /\ flow[g].at = "hop" => Reached(rec, flow[g].hop)
          /\ flow[g].at = "rewind" => CameTo(rec, flow[g].hop)
          /\ flow[g].at \in {"hop", "rewind"} => flow[g].hop \in Hops
      BY DEF FlowShape, FlowInv
    <2>2. flow[g].at = "hop" => Reached(rec', flow[g].hop)
      BY <2>1, ReachedStays
    <2>3. flow[g].at = "rewind" => CameTo(rec', flow[g].hop)
      BY <2>1, CameStays
    <2> QED BY <1>1, <2>1, <2>2, <2>3
  <1>2. ASSUME NEW n, flow'[g] = Begin(rec', n)
        PROVE  /\ flow'[g].at = "rest" => flow'[g].loop = "over"
               /\ flow'[g].got => flow'[g].loop # "over"
               /\ flow'[g].at = "hop" => Reached(rec', flow'[g].hop)
               /\ flow'[g].at = "rewind" => CameTo(rec', flow'[g].hop)
    BY <1>2, BegunShape
  <1>3. CASE flow'[g] = Idle
    BY <1>3 DEF Idle
  <1> QED BY <1>1, <1>2, <1>3 DEF FlowMoves

Busy(x) == x.loop \in {"runs", "waits", "gaveUp"} \/ x.got

\* The record stays one that can be tracked, and it is, or is at its end.
Watched ==
    \/ \E g \in Flows : Busy(flow'[g])
    \/ ~rec'.present \/ Shown(rec') \/ Cut(rec')

ShapeStep ==
    /\ Grows(rec, rec') /\ Shape(rec') /\ \A r \in durable' : Shape(r)
    /\ FlowMoves /\ Watched

LEMMA TrackFacts ==
    ASSUME IInv, TrackInv
    PROVE  /\ rec \in Record /\ TrueOf(rec) /\ Shape(rec) /\ \A r \in durable : Shape(r)
           /\ ChainInv /\ FlowInv /\ FlowShape /\ flow \in [Flows -> Flow]
  <1> QED BY InvFacts DEF TrackInv, Good

LEMMA BlankShape == Shape(Blank)
  <1> QED BY DEF Shape, Blank

LEMMA StoreShape ==
    ASSUME \A r \in durable : Shape(r), NEW S, \A r \in S : Shape(r), Store(S)
    PROVE  \A r \in durable' : Shape(r)
  <1> QED BY DEF Store

LEMMA StopMoves ==
    ASSUME flow \in [Flows -> Flow], NEW f \in Flows, Stop(f)
    PROVE  FlowMoves
  <1>1. CASE flow[f].loop = "waits"
    <2> DEFINE x == [flow[f] EXCEPT !.got = FALSE]
    <2>1. x.at = flow[f].at /\ x.hop = flow[f].hop /\ x.loop = flow[f].loop /\ ~x.got
      BY DEF Flow
    <2>2. flow' = [flow EXCEPT ![f] = x]
      BY <1>1 DEF Stop
    <2> HIDE DEF x
    <2> QED BY <2>1, <2>2 DEF FlowMoves
  <1>2. CASE flow[f].loop # "waits"
    <2>1. flow' = [flow EXCEPT ![f] = Idle]
      BY <1>2 DEF Stop
    <2> QED BY <2>1 DEF FlowMoves
  <1> QED BY <1>1, <1>2

LEMMA FollowMoves ==
    ASSUME flow \in [Flows -> Flow], NEW f \in Flows, Follow(f, rec')
    PROVE  FlowMoves /\ \E g \in Flows : flow'[g] = Begin(rec', 0)
  <1> PICK b : b = Begin(rec', 0)
    OBVIOUS
  <1>1. CASE flow[f].loop # "waits"
    <2>1. flow' = [flow EXCEPT ![f] = b]
      BY <1>1 DEF Follow
    <2>2. \A g \in Flows : flow'[g] = IF g = f THEN b ELSE flow[g]
      BY <2>1
    <2> QED BY <2>2 DEF FlowMoves
  <1>2. CASE flow[f].loop = "waits"
    <2> DEFINE x == [flow[f] EXCEPT !.got = FALSE]
    <2>1. x.at = flow[f].at /\ x.hop = flow[f].hop /\ x.loop = flow[f].loop /\ ~x.got
      BY DEF Flow
    <2>2. PICK g \in Flows : flow' = [flow EXCEPT ![f].got = FALSE, ![g] = b]
      BY <1>2 DEF Follow
    <2>3. flow' = [[flow EXCEPT ![f] = x] EXCEPT ![g] = b]
      BY <2>2
    <2> HIDE DEF x
    <2>4. \A h \in Flows : flow'[h] = IF h = g THEN b ELSE IF h = f THEN x ELSE flow[h]
      BY <2>3
    <2> QED BY <2>1, <2>4 DEF FlowMoves
  <1> QED BY <1>1, <1>2

LEMMA BegunIsWatched ==
    ASSUME ChainInv, NEW r \in Record, TrueOf(r), Shape(r), r = rec',
           NEW g \in Flows, NEW n, flow'[g] = Begin(r, n)
    PROVE  Watched
  <1>1. CASE Watch(r).at = "rest"
    <2>1. ~r.present \/ Shown(r) \/ Cut(r)
      BY <1>1, RestIsEnd
    <2> QED BY <2>1 DEF Watched
  <1>2. CASE Watch(r).at # "rest"
    <2>1. flow'[g].loop = "runs"
      BY <1>2, BegunShape
    <2> QED BY <2>1 DEF Watched, Busy
  <1> QED BY <1>1, <1>2

\* A handler that leaves the record true and goes on from it.
LEMMA FollowedShape ==
    ASSUME IInv, TrackInv, NEW f \in Flows, Follow(f, rec'), Good(rec'),
           Shape(rec'), Grows(rec, rec'), \A r \in durable' : Shape(r)
    PROVE  ShapeStep
  <1>1. FlowMoves /\ \E g \in Flows : flow'[g] = Begin(rec', 0)
    BY FollowMoves, TrackFacts
  <1> PICK r : r = rec'
    OBVIOUS
  <1>2. Watched
    BY <1>1, BegunIsWatched, TrackFacts DEF Good
  <1> QED BY <1>1, <1>2 DEF ShapeStep

LEMMA HopShape ==
    ASSUME IInv, TrackInv, NEW f \in Flows, Handles(f, "hop")
    PROVE  flow[f].hop \in Hops /\ Reached(rec, flow[f].hop)
  <1> QED BY TrackFacts, HopFacts DEF Handles, FlowShape

LEMMA TxFailedShape ==
    ASSUME IInv, TrackInv, NEW f \in Flows, TxFailed(f)
    PROVE  ShapeStep
  <1>1. rec' = [rec EXCEPT !.present = FALSE] /\ Store({Blank}) /\ Stop(f)
    BY DEF TxFailed
  <1>2. /\ rec'.fulfilled = rec.fulfilled /\ rec'.seq = rec.seq /\ rec'.completed = rec.completed
        /\ rec'.error = rec.error /\ rec'.rewound = rec.rewound /\ ~rec'.present
    BY <1>1, TrackFacts DEF Record
  <1>3. Grows(rec, rec') /\ Shape(rec')
    BY <1>2, ShapeSame, TrackFacts
  <1>4. \A r \in durable' : Shape(r)
    BY <1>1, BlankShape, StoreShape, TrackFacts
  <1> QED BY <1>1, <1>2, <1>3, <1>4, StopMoves, TrackFacts DEF ShapeStep, Watched

LEMMA TxFulfilledShape ==
    ASSUME IInv, TrackInv, NEW f \in Flows, TxFulfilled(f), Good(rec')
    PROVE  ShapeStep
  <1> DEFINE half  == HalfKnown(rec, 1)
             known == [half EXCEPT !.seq[1] = "yes"]
             done  == [known EXCEPT !.fulfilled = TRUE]
  <1>1. tx = "ok" /\ rec' = WithResult(done, 0) /\ Store({half, known, rec'}) /\ Follow(f, rec')
    BY DEF TxFulfilled
  <1>2. 1 \in Hops /\ packet[1] # "none"
    BY <1>1, InvFacts, HopsAssumption DEF Hops, ChainInv
  <1>3. Good(half) /\ Shape(half) /\ Grows(rec, half)
    BY <1>2, HalfGood, HalfShape, InvFacts, TrackFacts
  <1>4. Good(known) /\ Shape(known) /\ Grows(half, known) /\ known.seq[1] = "yes"
    <2> HIDE DEF half
    <2>1. Good(known)
      BY <1>2, <1>3, KnownGood
    <2>2. half \in Record /\ TrueOf(half) /\ ChainInv /\ "yes" \in {"half", "yes"}
      BY <1>3, TrackFacts DEF Good
    <2>3. Shape(known) /\ Grows(half, known) /\ known.seq[1] = "yes"
      BY <1>2, <1>3, <2>2, SeqShape
    <2> QED BY <2>1, <2>3
  <1> HIDE DEF known, half
  <1>5. /\ done.seq = known.seq /\ done.completed = known.completed /\ done.fulfilled
        /\ done.error = known.error /\ done.rewound = known.rewound /\ done \in Record
    BY <1>4 DEF Good, Record
  <1> HIDE DEF done
  <1>6. Grows(known, done)
    BY <1>5 DEF Grows
  <1>7. Shape(done)
    BY <1>4, <1>5, <1>6, ShapeGrows, TrackFacts DEF Good
  <1>8. Shape(rec') /\ Grows(done, rec')
    BY <1>1, <1>5, <1>7, ResultShape
  <1>9. Grows(rec, rec')
    BY <1>3, <1>4, <1>6, <1>8, GrowsFurther
  <1>10. \A r \in durable' : Shape(r)
    <2>1. \A r \in {half, known, rec'} : Shape(r)
      BY <1>3, <1>4, <1>8
    <2> QED BY <1>1, <2>1, StoreShape, TrackFacts
  <1> QED BY <1>1, <1>8, <1>9, <1>10, FollowedShape

LEMMA HopRefusedShape ==
    ASSUME IInv, TrackInv, NEW f \in Flows, HopRefused(f), Good(rec')
    PROVE  ShapeStep
  <1> DEFINE i == flow[f].hop
             c == Completed(i)
  <1>1. /\ Handles(f, "hop") /\ packet[i] = "refused"
        /\ rec' = [c EXCEPT !.error[i] = TRUE]
        /\ Store({c, rec'}) /\ Follow(f, rec')
    BY DEF HopRefused
  <1>2. i \in Hops /\ Reached(rec, i)
    BY <1>1, HopShape
  <1> HIDE DEF i
  <1>3. Good(c) /\ Shape(c) /\ Grows(rec, c)
    BY <1>1, <1>2, CompletedGood, CompletedShape, InvFacts, TrackFacts
  <1>4. Reached(c, i)
    BY <1>2, <1>3, ReachedStays, TrackFacts
  <1> HIDE DEF c
  <1>5. /\ rec'.fulfilled = c.fulfilled /\ rec'.seq = c.seq /\ rec'.completed = c.completed
        /\ rec'.rewound = c.rewound /\ rec'.error = [c.error EXCEPT ![i] = TRUE]
    BY <1>1, <1>3 DEF Good, Record
  <1>6. Shape(rec') /\ Grows(c, rec')
    BY <1>2, <1>3, <1>4, <1>5, ErrorShape, TrackFacts DEF Good
  <1>7. Grows(rec, rec')
    BY <1>3, <1>6, GrowsFurther
  <1>8. \A r \in durable' : Shape(r)
    BY <1>1, <1>3, <1>6, StoreShape, TrackFacts
  <1> QED BY <1>1, <1>6, <1>7, <1>8, FollowedShape

LEMMA HopUnreadableShape ==
    ASSUME IInv, TrackInv, NEW f \in Flows, HopUnreadable(f)
    PROVE  ShapeStep
  <1> DEFINE i == flow[f].hop
             c == Completed(i)
             x == [flow[f] EXCEPT !.got = FALSE, !.loop = IF @ = "runs" THEN Rejected(f) ELSE @]
  <1>1. /\ Handles(f, "hop") /\ Acknowledged(i)
        /\ rec' = [rec EXCEPT !.completed[i] = FALSE]
        /\ Store({c, rec'})
    BY DEF HopUnreadable
  <1>2. i \in Hops /\ Reached(rec, i)
    BY <1>1, HopShape
  <1>3. packet[i] = "refused" \/ i = N
    BY <1>1 DEF Acknowledged
  <1>4. Shape(c)
    BY <1>2, CompletedShape, TrackFacts
  <1>5. flow' = [flow EXCEPT ![f] = x]
    <2>1. flow[f] \in Flow
      BY TrackFacts
    <2> QED BY <2>1, TrackFacts DEF HopUnreadable, Flow
  <1>6. /\ x.at = flow[f].at /\ x.hop = flow[f].hop /\ ~x.got
        /\ x.loop = IF flow[f].loop = "runs" THEN Rejected(f) ELSE flow[f].loop
    <2>1. flow[f] \in Flow
      BY TrackFacts
    <2> QED BY <2>1 DEF Flow
  <1>7. flow[f].loop \in {"runs", "waits", "gaveUp"}
    BY <1>1, TrackFacts DEF Handles, FlowShape, Flow
  <1> HIDE DEF i, c, x
  <1>8. x.loop \in {"waits", "gaveUp"}
    BY <1>6, <1>7 DEF Rejected
  <1>9. \A g \in Flows : flow'[g] = IF g = f THEN x ELSE flow[g]
    BY <1>5, TrackFacts
  <1>10. FlowMoves
    BY <1>6, <1>7, <1>8, <1>9 DEF FlowMoves
  <1>11. Watched
    BY <1>8, <1>9 DEF Watched, Busy
  <1>12. /\ rec'.fulfilled = rec.fulfilled /\ rec'.seq = rec.seq /\ rec'.error = rec.error
         /\ rec'.rewound = rec.rewound /\ rec'.completed = [rec.completed EXCEPT ![i] = FALSE]
         /\ rec.completed \in [Hops -> BOOLEAN]
    BY <1>1, TrackFacts DEF Record
  <1>13. Grows(rec, rec')
    BY <1>3, <1>12 DEF Grows
  <1>14. Shape(rec')
    BY <1>12, <1>13, ShapeGrows, TrackFacts
  <1>15. \A r \in durable' : Shape(r)
    BY <1>1, <1>4, <1>14, StoreShape, TrackFacts
  <1> QED BY <1>10, <1>11, <1>13, <1>14, <1>15 DEF ShapeStep

LEMMA HopContinuesShape ==
    ASSUME IInv, TrackInv, NEW f \in Flows, HopContinues(f), Good(rec')
    PROVE  ShapeStep
  <1> DEFINE i == flow[f].hop
             c == Completed(i)
             paid == WithResult(c, i)
             half == HalfKnown(paid, i + 1)
  <1>1. /\ Handles(f, "hop") /\ packet[i] = "received" /\ i < N
        /\ rec' = [half EXCEPT !.seq[i + 1] = "yes"]
        /\ Store({c, paid, half, rec'}) /\ Follow(f, rec')
    BY DEF HopContinues
  <1>2. i \in Hops /\ i \in 0..N /\ i + 1 \in Hops /\ Reached(rec, i)
    BY <1>1, HopShape, HopsAssumption DEF Hops
  <1> HIDE DEF i
  <1>3. packet[i + 1] # "none"
    BY <1>1, <1>2, InvFacts DEF ChainInv
  <1>4. Good(c) /\ Shape(c) /\ Grows(rec, c)
    BY <1>1, <1>2, CompletedGood, CompletedShape, InvFacts, TrackFacts
  <1> HIDE DEF c
  <1>5. Good(paid) /\ Shape(paid) /\ Grows(c, paid)
    BY <1>2, <1>4, ResultGood, ResultShape DEF Good
  <1> HIDE DEF paid
  <1>6. Good(half) /\ Shape(half) /\ Grows(paid, half)
    BY <1>2, <1>3, <1>5, HalfGood, HalfShape, TrackFacts DEF Good
  <1> HIDE DEF half
  <1>7. Shape(rec') /\ Grows(half, rec')
    BY <1>1, <1>2, <1>6, SeqShape, TrackFacts DEF Good
  <1>8. Grows(rec, rec')
    BY <1>4, <1>5, <1>6, <1>7, GrowsFurther
  <1>9. \A r \in durable' : Shape(r)
    <2>1. \A r \in {c, paid, half, rec'} : Shape(r)
      BY <1>4, <1>5, <1>6, <1>7
    <2> QED BY <1>1, <2>1, StoreShape, TrackFacts
  <1> QED BY <1>1, <1>7, <1>8, <1>9, FollowedShape

LEMMA AllCompletedShape ==
    ASSUME IInv, TrackInv, NEW f \in Flows, AllCompleted(f), Good(rec')
    PROVE  ShapeStep /\ Succeeded(rec')
  <1> DEFINE c == Completed(N)
             paid == WithResult(c, N)
  <1>1. /\ Handles(f, "hop") /\ flow[f].hop = N /\ packet[N] = "received"
        /\ rec' = [paid EXCEPT !.notified = TRUE]
        /\ Store({c, paid, rec'}) /\ Stop(f)
    BY DEF AllCompleted
  <1>2. N \in Hops /\ N \in 0..N /\ Reached(rec, N)
    BY <1>1, HopShape, HopsAssumption DEF Hops
  <1>3. /\ Good(c) /\ Shape(c) /\ Grows(rec, c) /\ c.completed[N]
        /\ \A j \in Hops \ {N} : c.completed[j] = rec.completed[j]
        /\ c.fulfilled = rec.fulfilled
    BY <1>1, <1>2, CompletedGood, CompletedShape, InvFacts, TrackFacts
  <1> HIDE DEF c
  <1>4. /\ Good(paid) /\ Shape(paid) /\ Grows(c, paid)
        /\ paid.completed = c.completed /\ paid.fulfilled = c.fulfilled
    BY <1>2, <1>3, ResultGood, ResultShape DEF Good
  <1> HIDE DEF paid
  <1>5. /\ rec'.fulfilled = paid.fulfilled /\ rec'.seq = paid.seq /\ rec'.completed = paid.completed
        /\ rec'.error = paid.error /\ rec'.rewound = paid.rewound
    BY <1>1, <1>4 DEF Good, Record
  <1>6. Shape(rec') /\ Grows(paid, rec')
    BY <1>4, <1>5, ShapeSame
  <1>7. Grows(rec, rec')
    BY <1>3, <1>4, <1>6, GrowsFurther
  <1>8. \A r \in durable' : Shape(r)
    <2>1. \A r \in {c, paid, rec'} : Shape(r)
      BY <1>3, <1>4, <1>6
    <2> QED BY <1>1, <2>1, StoreShape, TrackFacts
  <1>9. Succeeded(rec')
    <2>1. \A j \in Hops : packet[j] = "received"
      <3>1. \A j \in Hops : j = N \/ j \in 1..(N - 1)
        BY HopsAssumption DEF Hops
      <3> QED BY <1>1, <1>2, <3>1, TrackFacts DEF ChainInv
    <2>2. \A j \in Hops : ~rec'.error[j]
      BY <2>1 DEF Good, TrueOf
    <2>3. ASSUME NEW j \in Hops PROVE rec'.completed[j]
      <3>1. j # N => j \in 1..(N - 1)
        BY HopsAssumption DEF Hops
      <3> QED BY <1>2, <1>3, <1>4, <1>5, <3>1 DEF Reached
    <2>4. rec'.fulfilled
      BY <1>2, <1>3, <1>4, <1>5 DEF Reached
    <2> QED BY <2>2, <2>3, <2>4 DEF Succeeded, Ahead, Failed
  <1> QED BY <1>1, <1>6, <1>7, <1>8, <1>9, StopMoves, TrackFacts DEF ShapeStep, Watched, Shown

LEMMA HopExpiredShape ==
    ASSUME IInv, TrackInv, NEW f \in Flows, HopExpired(f), Good(rec')
    PROVE  ShapeStep
  <1> DEFINE i == flow[f].hop
  <1>1. /\ Handles(f, "hop") /\ rec' = [rec EXCEPT !.error[i] = TRUE, !.timeout = TRUE]
        /\ Store({rec'}) /\ Follow(f, rec')
    BY DEF HopExpired
  <1>2. i \in Hops /\ Reached(rec, i)
    BY <1>1, HopShape
  <1> HIDE DEF i
  <1>3. /\ rec'.fulfilled = rec.fulfilled /\ rec'.seq = rec.seq /\ rec'.completed = rec.completed
        /\ rec'.rewound = rec.rewound /\ rec'.error = [rec.error EXCEPT ![i] = TRUE]
    BY <1>1, TrackFacts DEF Record
  <1>4. Shape(rec') /\ Grows(rec, rec')
    BY <1>2, <1>3, ErrorShape, TrackFacts
  <1>5. \A r \in durable' : Shape(r)
    BY <1>1, <1>4, StoreShape, TrackFacts
  <1> QED BY <1>1, <1>4, <1>5, FollowedShape

LEMMA RewoundShape ==
    ASSUME IInv, TrackInv, NEW f \in Flows, Rewound(f), Good(rec')
    PROVE  ShapeStep
  <1> DEFINE i == flow[f].hop
  <1>1. /\ Handles(f, "rewind")
        /\ rec' = [rec EXCEPT !.rewound[i] = TRUE, !.blocked[i] = @ \/ i = swapTarget]
        /\ Store({rec'}) /\ Follow(f, rec')
    BY DEF Rewound
  <1>2. i \in Hops /\ CameTo(rec, i)
    BY <1>1, TrackFacts DEF Handles, FlowInv, FlowShape
  <1> HIDE DEF i
  <1>3. /\ rec'.fulfilled = rec.fulfilled /\ rec'.seq = rec.seq /\ rec'.completed = rec.completed
        /\ rec'.error = rec.error /\ rec'.rewound = [rec.rewound EXCEPT ![i] = TRUE]
        /\ rec.rewound \in [Hops -> BOOLEAN]
    BY <1>1, TrackFacts DEF Record
  <1>4. Grows(rec, rec')
    BY <1>3 DEF Grows
  <1>5. CameTo(rec', i)
    BY <1>2, <1>4, CameStays
  <1>6. Shape(rec')
    BY <1>3, <1>4, <1>5, ShapeGrows, TrackFacts
  <1>7. \A r \in durable' : Shape(r)
    BY <1>1, <1>6, StoreShape, TrackFacts
  <1> QED BY <1>1, <1>4, <1>6, <1>7, FollowedShape

\* A handler does not touch the chains: what is true of the record was so before.
LEMMA GoodAfter ==
    ASSUME IInv', UNCHANGED chainVars
    PROVE  Good(rec')
  <1>1. rec' \in Record /\ TrueOf(rec)'
    BY DEF IInv, TypeOK, TrackerInv, RecordIsTrue
  <1>2. tx' = tx /\ packet' = packet /\ refund' = refund /\ swapTarget' = swapTarget
    BY DEF chainVars
  <1> QED BY <1>1, <1>2 DEF Good, TrueOf

LEMMA HandledShape ==
    ASSUME IInv, TrackInv, NEW f \in Flows, Handled(f)
    PROVE  ShapeStep
  <1>0. UNCHANGED chainVars
    BY DEF Handled, TxFailed, TxFulfilled, HopRefused, HopUnreadable, HopContinues,
           AllCompleted, HopExpired, Rewound
  <1>1. Good(rec')
    BY <1>0, GoodAfter, HandledPreserves
  <1> QED BY <1>1, TxFailedShape, TxFulfilledShape, HopRefusedShape, HopUnreadableShape,
             HopContinuesShape, AllCompletedShape, HopExpiredShape, RewoundShape DEF Handled

\* What is true of the record and its flows after the step, from what it did.
LEMMA TrackStays ==
    ASSUME IInv, TrackInv, rec' \in Record, ShapeStep, UNCHANGED chainVars
    PROVE  TrackInv'
  <1>1. FlowShape'
    BY FlowShapeStays, TrackFacts DEF ShapeStep
  <1>2. Tracked'
    <2>1. Torn' <=> Cut(rec')
      BY DEF Torn, Cut, chainVars
    <2>2. Shown(rec)' <=> Shown(rec')
      BY DEF Shown, Succeeded, CameBack, Ahead, Failed
    <2> QED BY <2>1, <2>2 DEF Tracked, ShapeStep, Watched, Busy
  <1>3. Shape(rec)' /\ (\A r \in durable : Shape(r))'
    BY DEF ShapeStep, Shape, Reached, CameTo, Failed
  <1> QED BY <1>1, <1>2, <1>3 DEF TrackInv

LEMMA SameGrows == \A r : Grows(r, r)
  <1> QED BY DEF Grows

\* A step of a flow's loop: it goes on, or begins anew with the record.
LEMMA LoopShape ==
    ASSUME IInv, TrackInv, NEW f \in Flows, NEW x,
           flow' = [flow EXCEPT ![f] = x], Busy(x) \/ \E n : x = Begin(rec, n),
           \/ /\ x.at = flow[f].at /\ x.hop = flow[f].hop
              /\ flow[f].loop = "over" <=> x.loop = "over"
              /\ x.got => flow[f].got \/ flow[f].loop = "runs"
           \/ \E n : x = Begin(rec, n),
           rec' = rec, durable' = durable
    PROVE  ShapeStep
  <1>1. \A g \in Flows : flow'[g] = IF g = f THEN x ELSE flow[g]
    BY TrackFacts
  <1>2. FlowMoves
    BY <1>1 DEF FlowMoves
  <1>3. Watched
    <2>1. CASE Busy(x)
      BY <1>1, <2>1 DEF Watched
    <2>2. ASSUME NEW n, x = Begin(rec, n) PROVE Watched
      BY <1>1, <2>2, BegunIsWatched, TrackFacts
    <2> QED BY <2>1, <2>2
  <1> QED BY <1>2, <1>3, SameGrows, TrackFacts DEF ShapeStep

LEMMA FlowStepShape ==
    ASSUME IInv, TrackInv, NEW f \in Flows,
           Answered(f) \/ Disconnected(f) \/ FailedLate(f) \/ Retried(f)
    PROVE  ShapeStep
  <1>0. flow[f] \in Flow /\ rec' = rec /\ durable' = durable
    BY TrackFacts DEF Answered, Disconnected, FailedLate, Retried
  <1>1. CASE Answered(f)
    <2> DEFINE x == [flow[f] EXCEPT !.got = TRUE]
    <2>1. x.at = flow[f].at /\ x.hop = flow[f].hop /\ x.loop = flow[f].loop /\ x.got
      BY <1>0 DEF Flow
    <2>2. flow' = [flow EXCEPT ![f] = x] /\ flow[f].loop = "runs"
      BY <1>1 DEF Answered
    <2> HIDE DEF x
    <2> QED BY <1>0, <2>1, <2>2, LoopShape DEF Busy
  <1>2. CASE Disconnected(f) \/ FailedLate(f)
    <2> DEFINE x == [flow[f] EXCEPT !.loop = Rejected(f)]
    <2>1. /\ x.at = flow[f].at /\ x.hop = flow[f].hop /\ x.loop = Rejected(f)
          /\ x.got = flow[f].got
      BY <1>0 DEF Flow
    <2>2. flow' = [flow EXCEPT ![f] = x] /\ flow[f].loop = "runs"
      BY <1>2 DEF Disconnected, FailedLate
    <2>3. Rejected(f) \in {"waits", "gaveUp"}
      BY DEF Rejected
    <2> HIDE DEF x
    <2> QED BY <1>0, <2>1, <2>2, <2>3, LoopShape DEF Busy
  <1>3. CASE Retried(f)
    <2> PICK x : x = Begin(rec, flow[f].tries + 1)
      OBVIOUS
    <2>1. flow' = [flow EXCEPT ![f] = x]
      BY <1>3 DEF Retried
    <2> QED BY <1>0, <2>1, LoopShape
  <1> QED BY <1>1, <1>2, <1>3

\* The record and its storage change while the flows go on.
LEMMA RestingMoves ==
    ASSUME flow' = flow PROVE FlowMoves
  <1> QED BY DEF FlowMoves

LEMMA LandedShape ==
    ASSUME IInv, TrackInv, Landed
    PROVE  ShapeStep
  <1>1. rec' = rec /\ flow' = flow /\ durable' = {IF rec.present THEN rec ELSE Blank}
    BY DEF Landed
  <1>2. Watched
    <2>1. Torn <=> Cut(rec)
      BY DEF Torn, Cut
    <2> QED BY <1>1, <2>1 DEF TrackInv, Tracked, Watched, Busy
  <1> QED BY <1>1, <1>2, RestingMoves, BlankShape, SameGrows, TrackFacts DEF ShapeStep

LEMMA RemovedShape ==
    ASSUME IInv, TrackInv, Removed
    PROVE  ShapeStep
  <1>1. /\ rec' = [rec EXCEPT !.present = FALSE] /\ durable' = durable \cup {Blank}
        /\ flow' = flow
    BY DEF Removed
  <1>2. /\ rec'.fulfilled = rec.fulfilled /\ rec'.seq = rec.seq /\ rec'.completed = rec.completed
        /\ rec'.error = rec.error /\ rec'.rewound = rec.rewound /\ ~rec'.present
    BY <1>1, TrackFacts DEF Record
  <1>3. Shape(rec') /\ Grows(rec, rec')
    BY <1>2, ShapeSame, TrackFacts
  <1>4. \A r \in durable' : Shape(r)
    BY <1>1, BlankShape, TrackFacts
  <1> QED BY <1>1, <1>2, <1>3, <1>4, RestingMoves DEF ShapeStep, Watched

LEMMA RecordedShape ==
    ASSUME IInv, TrackInv, Recorded
    PROVE  ShapeStep
  <1>1. /\ api = "broadcast" /\ rec' = [Blank EXCEPT !.present = TRUE]
        /\ durable' = durable \cup {rec'}
    BY DEF Recorded
  <1>2. rec = Blank /\ Good(rec')
    <2>1. rec = Blank
      BY <1>1 DEF IInv, TrackerInv, UnrecordedInv
    <2>2. UNCHANGED chainVars
      BY DEF Recorded
    <2>3. Good(rec')
      BY <2>2, GoodAfter, RecordedPreserves
    <2> QED BY <2>1, <2>3
  <1>3. /\ rec'.fulfilled = rec.fulfilled /\ rec'.seq = rec.seq /\ rec'.completed = rec.completed
        /\ rec'.error = rec.error /\ rec'.rewound = rec.rewound
    BY <1>1, <1>2 DEF Blank
  <1>4. Shape(rec') /\ Grows(rec, rec')
    BY <1>3, ShapeSame, TrackFacts
  <1> PICK r : r = rec'
    OBVIOUS
  <1> PICK b : b = Begin(r, 0)
    OBVIOUS
  <1>5. PICK f \in Flows : flow' = [flow EXCEPT ![f] = b]
    BY DEF Recorded
  <1>6. \A g \in Flows : flow'[g] = IF g = f THEN b ELSE flow[g]
    BY <1>5, TrackFacts
  <1>7. FlowMoves
    BY <1>5, <1>6 DEF FlowMoves
  <1>8. Watched
    BY <1>2, <1>4, <1>5, <1>6, BegunIsWatched, TrackFacts DEF Good
  <1> QED BY <1>1, <1>4, <1>7, <1>8, TrackFacts DEF ShapeStep

\* After an end one flow tracks what was stored.
LEMMA EndTrack ==
    ASSUME IInv, TrackInv, End
    PROVE  TrackInv'
  <1>1. PICK r \in durable :
          /\ rec' = r /\ durable' = {r}
          /\ \E f \in Flows : flow' = [g \in Flows |-> IF g = f THEN Begin(r, 0) ELSE Idle]
    BY DEF End
  <1>2. PICK f \in Flows : flow' = [g \in Flows |-> IF g = f THEN Begin(r, 0) ELSE Idle]
    BY <1>1
  <1>3. r \in Record /\ TrueOf(r) /\ Shape(r) /\ UNCHANGED chainVars
    BY InvFacts, TrackFacts DEF Good, End
  <1>4. \A g \in Flows : flow'[g] = IF g = f THEN Begin(r, 0) ELSE Idle
    BY <1>2
  <1>5. FlowShape'
    <2> SUFFICES ASSUME NEW g \in Flows
                 PROVE  /\ flow'[g].at = "rest" => flow'[g].loop = "over"
                        /\ flow'[g].got => flow'[g].loop # "over"
                        /\ flow'[g].at = "hop" => Reached(r, flow'[g].hop)
                        /\ flow'[g].at = "rewind" => CameTo(r, flow'[g].hop)
      BY <1>1 DEF FlowShape, Reached, CameTo, Failed
    <2>1. CASE g = f
      BY <1>3, <1>4, <2>1, BegunShape
    <2>2. CASE g # f
      BY <1>4, <2>2 DEF Idle
    <2> QED BY <2>1, <2>2
  <1>6. Tracked'
    <2>1. Watched
      BY <1>1, <1>3, <1>4, BegunIsWatched, TrackFacts
    <2>2. Torn' <=> Cut(rec')
      BY <1>3 DEF Torn, Cut, chainVars
    <2>3. Shown(rec)' <=> Shown(rec')
      BY DEF Shown, Succeeded, CameBack, Ahead, Failed
    <2> QED BY <2>1, <2>2, <2>3 DEF Tracked, Watched, Busy
  <1>7. Shape(rec)' /\ (\A d \in durable : Shape(d))'
    BY <1>1, <1>3 DEF Shape, Reached, CameTo, Failed
  <1> QED BY <1>5, <1>6, <1>7 DEF TrackInv

\* What is torn stays so when the chains go on.
LEMMA ChainTrack ==
    ASSUME IInv, TrackInv, Onward, rec' = rec, durable' = durable, flow' = flow
    PROVE  TrackInv'
  <1>1. Torn => Torn'
    <2> SUFFICES ASSUME Torn PROVE Torn'
      OBVIOUS
    <2>1. PICK i \in Hops : rec.completed[i] /\
            \/ packet[i] = "refused" /\ ~rec.error[i]
            \/ packet[i] = "received" /\ i < N /\ rec.seq[i + 1] # "yes"
      BY DEF Torn
    <2>2. packet'[i] = packet[i]
      BY <2>1 DEF Onward
    <2> QED BY <2>1, <2>2 DEF Torn
  <1>2. Shown(rec)' <=> Shown(rec)
    BY DEF Shown, Succeeded, CameBack, Ahead, Failed
  <1>3. Tracked'
    BY <1>1, <1>2 DEF TrackInv, Tracked
  <1>4. FlowShape' /\ Shape(rec)' /\ (\A r \in durable : Shape(r))'
    BY DEF TrackInv, FlowShape, Shape, Reached, CameTo, Failed
  <1> QED BY <1>3, <1>4 DEF TrackInv

LEMMA ChainIsOnward ==
    ASSUME IInv, Chain
    PROVE  Onward /\ rec' = rec /\ durable' = durable /\ flow' = flow
  <1>1. CASE Included
    BY <1>1 DEF Included, IInv, TypeOK, TrackerInv, ChainInv, Onward
  <1>2. ASSUME NEW i \in Hops, Refunded(i) PROVE Onward
    BY <1>2 DEF Refunded, IInv, TypeOK, Onward
  <1>3. ASSUME NEW i \in Hops, Settled(i) PROVE Onward
    <2>1. /\ packet[i] = "sent" /\ tx' = tx /\ i \in Int /\ i >= 1 /\ i <= N
          /\ packet \in [Hops -> {"none", "sent", "received", "refused", "expired"}]
          /\ refund \in [Hops -> {"none", "ack", "timeout"}]
      BY <1>3, HopsAssumption DEF Settled, IInv, TypeOK, Hops
    <2>2. i + 1 \in Hops => packet[i + 1] = "none"
      <3>1. i \in 1..((i + 1) - 1)
        BY <2>1
      <3> QED BY <2>1, <3>1, InvFacts DEF ChainInv
    <2>3. CASE /\ packet' = [j \in Hops |-> IF j = i THEN "received"
                                            ELSE IF j = i + 1 THEN "sent" ELSE packet[j]]
               /\ refund' = refund
      <3>1. ASSUME NEW j \in Hops
            PROVE  packet'[j] = IF j = i THEN "received" ELSE IF j = i + 1 THEN "sent" ELSE packet[j]
        BY <2>3
      <3> QED BY <2>1, <2>2, <2>3, <3>1 DEF Onward
    <2>4. CASE \/ packet' = [packet EXCEPT ![i] = "refused"] /\ refund' = refund
               \/ packet' = [packet EXCEPT ![i] = "expired"]
                  /\ refund' = [refund EXCEPT ![i] = "timeout"]
      BY <2>1, <2>4 DEF Onward
    <2> QED BY <1>3, <2>3, <2>4 DEF Settled
  <1>4. rec' = rec /\ durable' = durable /\ flow' = flow
    BY DEF Chain, Included, Settled, Refunded
  <1> QED BY <1>1, <1>2, <1>3, <1>4 DEF Chain

LEMMA NextTrack ==
    ASSUME IInv, TrackInv, [Next]_vars
    PROVE  TrackInv'
  <1>1. rec' \in Record
    BY NextPreserves DEF IInv, TypeOK
  <1>2. CASE Chain
    BY <1>2, ChainIsOnward, ChainTrack
  <1>3. CASE Landed \/ Recorded \/ Removed
    BY <1>1, <1>3, LandedShape, RecordedShape, RemovedShape, TrackStays
       DEF Landed, Recorded, Removed
  <1>4. CASE End
    BY <1>4, EndTrack
  <1>5. ASSUME NEW f \in Flows, Handled(f) PROVE TrackInv'
    <2>1. UNCHANGED chainVars
      BY <1>5 DEF Handled, TxFailed, TxFulfilled, HopRefused, HopUnreadable, HopContinues,
                  AllCompleted, HopExpired, Rewound
    <2> QED BY <1>1, <1>5, <2>1, HandledShape, TrackStays
  <1>6. ASSUME NEW f \in Flows, Answered(f) \/ Disconnected(f) \/ FailedLate(f) \/ Retried(f)
        PROVE  TrackInv'
    <2>1. UNCHANGED chainVars
      BY <1>6 DEF Answered, Disconnected, FailedLate, Retried
    <2> QED BY <1>1, <1>6, <2>1, FlowStepShape, TrackStays
  <1>7. CASE UNCHANGED vars
    BY <1>7, StillIsOnward, ChainTrack DEF vars, chainVars
  <1> QED BY <1>2, <1>3, <1>4, <1>5, <1>6, <1>7 DEF Next

LEMMA InitTrack == Init => TrackInv
  <1> SUFFICES ASSUME Init PROVE TrackInv
    OBVIOUS
  <1>1. FlowShape
    BY DEF Init, FlowShape, Idle
  <1>2. Tracked
    BY DEF Init, Tracked, Blank
  <1> QED BY <1>1, <1>2, BlankShape DEF Init, TrackInv

\* Whatever is stored when the background ends, a transfer that is neither shown
\* at its end nor torn is watched by a loop of retry(), or by one that used up
\* its retries.
THEOREM TransfersAreTracked == Spec => []Tracked
  <1>1. Init => TrackInv
    BY InitTrack
  <1>2. IInv /\ TrackInv /\ [Next]_vars => TrackInv'
    BY NextTrack
  <1>3. TrackInv => Tracked
    BY DEF TrackInv
  <1> QED BY <1>1, <1>2, <1>3, InvariantHolds, PTL DEF Spec

-------------------------------------------------------------------------------
(***************************************************************************)
(* Without faults the results are collected one after the other.           *)
(***************************************************************************)
\* Append of the n-th result.
LEMMA ResultsGrow ==
    ASSUME NEW n \in Nat
    PROVE  Append(Results(n), n) = Results(n + 1)
  <1>1. \A k \in Nat : Results(k) \in Seq(Int) /\ Len(Results(k)) = k
    BY DEF Results
  <1>2. \A k \in Nat : \A i \in 1..k : Results(k)[i] = i - 1
    BY DEF Results
  <1> PICK s : s = Results(n)
    OBVIOUS
  <1> PICK t : t = Results(n + 1)
    OBVIOUS
  <1>3. /\ s \in Seq(Int) /\ Len(s) = n /\ \A i \in 1..n : s[i] = i - 1
        /\ t \in Seq(Int) /\ Len(t) = n + 1 /\ \A i \in 1..(n + 1) : t[i] = i - 1
    <2>1. n + 1 \in Nat
      OBVIOUS
    <2> QED BY <1>1, <1>2, <2>1, Zenon
  <1>4. Append(s, n) \in Seq(Int) /\ Len(Append(s, n)) = n + 1
    BY <1>3
  <1>5. \A i \in 1..(n + 1) : Append(s, n)[i] = t[i]
    BY <1>3
  <1>6. Append(s, n) = t
    BY <1>3, <1>4, <1>5, SeqEqual
  <1> QED BY <1>6

LEMMA FirstResult == Append(<<>>, 0) = Results(1)
  <1>1. Results(0) \in Seq(Int) /\ Len(Results(0)) = 0
    BY DEF Results
  <1>2. Results(0) = <<>>
    BY <1>1, EmptySeq
  <1>3. Append(Results(0), 0) = Results(0 + 1)
    BY ResultsGrow
  <1> QED BY <1>2, <1>3

LEMMA AheadInNat == \A r : Ahead(r) \subseteq Hops /\ Ahead(r) \in SUBSET Nat
  <1>1. Hops \subseteq Nat
    BY HopsAssumption DEF Hops
  <1>2. \A r : Ahead(r) \subseteq Hops
    BY Zenon DEF Ahead
  <1> QED BY <1>1, <1>2

\* The hop after the first one that was not completed.
LEMMA FirstIsNext ==
    ASSUME NEW r, Shape(r), Ahead(r) # {}, NEW s, NEW i, i = First(Ahead(r)),
           s.completed[i], \A j \in Hops \ {i} : s.completed[j] = r.completed[j]
    PROVE  /\ i \in Hops
           /\ i < N => Ahead(s) # {} /\ First(Ahead(s)) = i + 1
           /\ i = N => Ahead(s) = {}
  <1>1. i \in Ahead(r) /\ \A j \in Ahead(r) : i <= j
    BY AheadInNat, FirstIn
  <1>2. i \in Hops /\ ~r.completed[i]
    BY <1>1 DEF Ahead
  <1>3. \A j \in Ahead(s) : j \in Hops /\ j # i /\ i <= j
    BY <1>1 DEF Ahead
  <1>4. i = N => Ahead(s) = {}
    BY <1>2, <1>3, HopsAssumption DEF Hops
  <1>5. ASSUME i < N PROVE Ahead(s) # {} /\ First(Ahead(s)) = i + 1
    <2>1. i + 1 \in Hops /\ i \in 1..((i + 1) - 1) /\ i + 1 # i
      BY <1>2, <1>5, HopsAssumption DEF Hops
    <2>2. ~r.completed[i + 1]
      BY <1>2, <2>1 DEF Shape, Reached
    <2>3. i + 1 \in Ahead(s)
      BY <2>1, <2>2 DEF Ahead
    <2>5. First(Ahead(s)) \in Ahead(s) /\ First(Ahead(s)) <= i + 1
      BY <2>3, AheadInNat, FirstIn
    <2>6. First(Ahead(s)) \in Hops /\ First(Ahead(s)) # i /\ i <= First(Ahead(s))
      BY <1>3, <2>5
    <2> QED BY <1>2, <2>3, <2>5, <2>6 DEF Hops
  <1> QED BY <1>2, <1>4, <1>5

\* A new flow watches what the record does not hold.
LEMMA BegunAbout ==
    ASSUME NEW r \in Record, NEW n PROVE About(Begin(r, n), r)
  <1>1. /\ Watch(r).at = "tx" => ~r.fulfilled
        /\ Watch(r).at = "hop" =>
             Failed(r) = {} /\ Ahead(r) # {} /\ Watch(r).hop = First(Ahead(r))
        /\ Watch(r).at = "rewind" => Failed(r) # {}
        /\ Watch(r).at \in {"rest", "tx", "hop", "rewind"}
    BY DEF Watch, Record
  <1>2. /\ Begin(r, n).at = Watch(r).at /\ Begin(r, n).hop = Watch(r).hop
        /\ ~Begin(r, n).got /\ Begin(r, n).loop = IF Watch(r).at = "rest" THEN "over" ELSE "runs"
    BY DEF Begin
  <1> QED BY <1>1, <1>2 DEF About

LEMMA IdleAbout == \A r : About(Idle, r)
  <1> QED BY DEF About, Idle

\* The flow that was under way goes on, or the first one begins.
LEMMA AloneMoves ==
    ASSUME Alone, NEW f \in Flows, NEW x,
           \A g \in Flows : flow'[g] = IF g = f THEN x ELSE flow[g],
           flow[f].loop # "over" \/ \A g \in Flows : flow[g].loop = "over",
           NEW r, r = rec', About(x, r)
    PROVE  Alone'
  <1>1. ASSUME NEW g \in Flows, NEW h \in Flows, flow'[g].loop # "over", flow'[h].loop # "over"
        PROVE  g = h
    BY <1>1 DEF Alone
  <1>2. ASSUME NEW g \in Flows PROVE About(flow'[g], r)
    <2>1. CASE g = f
      BY <2>1
    <2>2. CASE g # f
      <3>1. flow'[g] = flow[g] /\ flow[g].loop = "over" /\ About(flow[g], rec)
        BY <2>2 DEF Alone
      <3> QED BY <3>1 DEF About
    <2> QED BY <2>1, <2>2
  <1>3. (\A g \in Flows : About(flow[g], rec))'
    BY <1>2 DEF About, Ahead, Failed
  <1> QED BY <1>1, <1>3 DEF Alone

\* The record changes in what the flow does not look at.
LEMMA AboutSame ==
    ASSUME NEW r, NEW s, s.fulfilled = r.fulfilled, s.completed = r.completed, s.error = r.error
    PROVE  /\ \A x : About(x, r) <=> About(x, s)
           /\ s.results = r.results => (Collected(r) <=> Collected(s))
  <1>1. Failed(s) = Failed(r) /\ Ahead(s) = Ahead(r)
    BY DEF Failed, Ahead
  <1> QED BY <1>1 DEF About, Collected

\* A change of the results and of one hop, of a swap that goes well.
LEMMA NextResult ==
    ASSUME NEW r \in Record, Shape(r), Collected(r), NEW s, NEW i,
           r.fulfilled, Failed(r) = {}, Ahead(r) # {}, i = First(Ahead(r)),
           s.fulfilled = r.fulfilled, s.error = r.error,
           s.completed[i], \A j \in Hops \ {i} : s.completed[j] = r.completed[j],
           s.results = Append(r.results, i)
    PROVE  Collected(s)
  <1>1. /\ i \in Hops
        /\ i < N => Ahead(s) # {} /\ First(Ahead(s)) = i + 1
        /\ i = N => Ahead(s) = {}
    BY FirstIsNext
  <1>2. r.results = Results(i)
    BY DEF Collected
  <1>3. i \in Nat /\ (i < N \/ i = N)
    BY <1>1, HopsAssumption DEF Hops
  <1>4. s.results = Results(i + 1)
    BY <1>2, <1>3, ResultsGrow
  <1>5. Failed(s) = {}
    BY DEF Failed
  <1> QED BY <1>1, <1>3, <1>4, <1>5 DEF Collected

\* The first hops of a record that is not fulfilled are all ahead.
LEMMA FirstOfAll ==
    ASSUME NEW r, Shape(r), ~r.fulfilled
    PROVE  Ahead(r) # {} /\ First(Ahead(r)) = 1
  <1>1. \A i \in Hops : ~r.completed[i]
    BY DEF Shape, Reached
  <1>2. 1 \in Hops /\ \A i \in Hops : 1 <= i
    BY HopsAssumption DEF Hops
  <1>3. 1 \in Ahead(r)
    BY <1>1, <1>2 DEF Ahead
  <1>4. First(Ahead(r)) \in Hops /\ First(Ahead(r)) <= 1
    BY <1>3, AheadInNat, FirstIn
  <1> QED BY <1>2, <1>3, <1>4, HopsAssumption DEF Hops

\* What the handlers do to the results, when f is the only flow.
CollectedStep == swapTarget # 0 /\ Collected(rec) => Collected(rec')

LEMMA TxFulfilledCollects ==
    ASSUME IInv, TrackInv, Alone, NEW f \in Flows, TxFulfilled(f)
    PROVE  CollectedStep
  <1> SUFFICES ASSUME swapTarget # 0, Collected(rec) PROVE Collected(rec')
    BY DEF CollectedStep
  <1> DEFINE half  == HalfKnown(rec, 1)
             known == [half EXCEPT !.seq[1] = "yes"]
             done  == [known EXCEPT !.fulfilled = TRUE]
  <1>1. rec' = [done EXCEPT !.results = Append(@, 0)] /\ flow[f].at = "tx"
    BY DEF TxFulfilled, WithResult, Handles
  <1>2. ~rec.fulfilled /\ rec.results = <<>>
    BY <1>1 DEF Alone, About, Collected
  <1>3. /\ half.completed = rec.completed /\ half.results = rec.results /\ half \in Record
    <2>1. rec \in Record
      BY TrackFacts
    <2> QED BY <2>1 DEF HalfKnown, Record, Sequence
  <1> HIDE DEF half
  <1>4. /\ done.completed = half.completed /\ done.results = half.results
        /\ done.fulfilled /\ done \in Record
    BY <1>3 DEF Record, Sequence
  <1> HIDE DEF done
  <1> PICK s : s = rec'
    OBVIOUS
  <1>5. s.completed = rec.completed /\ s.results = Append(<<>>, 0) /\ s.fulfilled
    BY <1>1, <1>2, <1>3, <1>4 DEF Record
  <1>6. Ahead(s) = Ahead(rec)
    BY <1>5 DEF Ahead
  <1>7. Ahead(s) # {} /\ First(Ahead(s)) = 1
    BY <1>2, <1>6, FirstOfAll, TrackFacts
  <1>8. s.results = Results(1)
    BY <1>5, FirstResult
  <1>9. Collected(s)
    BY <1>5, <1>7, <1>8 DEF Collected
  <1> QED BY <1>9

\* A hop that an answer is about is the first one that was not completed.
LEMMA HopIsNext ==
    ASSUME IInv, TrackInv, Alone, NEW f \in Flows, Handles(f, "hop")
    PROVE  /\ rec.fulfilled /\ Failed(rec) = {} /\ Ahead(rec) # {}
           /\ flow[f].hop = First(Ahead(rec)) /\ flow[f].hop \in Hops
  <1>1. flow[f].at = "hop"
    BY DEF Handles
  <1>2. flow[f].hop \in Hops /\ Reached(rec, flow[f].hop)
    BY HopShape
  <1> QED BY <1>1, <1>2 DEF Alone, About, Reached

LEMMA HopContinuesCollects ==
    ASSUME IInv, TrackInv, Alone, NEW f \in Flows, HopContinues(f)
    PROVE  CollectedStep
  <1> SUFFICES ASSUME swapTarget # 0, Collected(rec) PROVE Collected(rec')
    BY DEF CollectedStep
  <1> DEFINE i    == flow[f].hop
             c    == Completed(i)
             paid == WithResult(c, i)
             half == HalfKnown(paid, i + 1)
  <1>1. rec' = [half EXCEPT !.seq[i + 1] = "yes"] /\ Handles(f, "hop")
    BY DEF HopContinues
  <1>2. /\ i \in Hops /\ i = First(Ahead(rec))
        /\ rec.fulfilled /\ Failed(rec) = {} /\ Ahead(rec) # {}
    BY <1>1, HopIsNext
  <1> HIDE DEF i
  <1>3. /\ c.completed = [rec.completed EXCEPT ![i] = TRUE] /\ c.fulfilled = rec.fulfilled
        /\ c.error = rec.error /\ c.results = rec.results /\ c \in Record
    BY <1>2, TrackFacts DEF Completed, Record
  <1> HIDE DEF c
  <1>4. /\ paid.completed = c.completed /\ paid.fulfilled = c.fulfilled
        /\ paid.error = c.error /\ paid.results = Append(c.results, i)
        /\ paid.present \in BOOLEAN
    BY <1>3 DEF WithResult, Record
  <1> HIDE DEF paid
  <1>5. /\ half.completed = paid.completed /\ half.fulfilled = paid.fulfilled
        /\ half.error = paid.error /\ half.results = paid.results
    BY <1>3 DEF HalfKnown, paid, WithResult, Record
  <1>6. /\ rec'.completed = paid.completed /\ rec'.fulfilled = paid.fulfilled
        /\ rec'.error = paid.error /\ rec'.results = paid.results
    BY <1>1, <1>3 DEF HalfKnown, half, paid, WithResult, Record
  <1> HIDE DEF half
  <1> PICK s : s = rec'
    OBVIOUS
  <1>7. rec.completed \in [Hops -> BOOLEAN]
    BY TrackFacts DEF Record
  <1>8. /\ s.fulfilled = rec.fulfilled /\ s.error = rec.error
        /\ s.completed[i] /\ \A j \in Hops \ {i} : s.completed[j] = rec.completed[j]
        /\ s.results = Append(rec.results, i)
    BY <1>2, <1>3, <1>4, <1>6, <1>7
  <1>9. Collected(s)
    BY <1>2, <1>8, NextResult, TrackFacts
  <1> QED BY <1>9

LEMMA AllCompletedCollects ==
    ASSUME IInv, TrackInv, Alone, NEW f \in Flows, AllCompleted(f)
    PROVE  CollectedStep
  <1> SUFFICES ASSUME swapTarget # 0, Collected(rec) PROVE Collected(rec')
    BY DEF CollectedStep
  <1> DEFINE c    == Completed(N)
             paid == WithResult(c, N)
  <1>1. rec' = [paid EXCEPT !.notified = TRUE] /\ Handles(f, "hop") /\ flow[f].hop = N
    BY DEF AllCompleted
  <1>2. /\ N \in Hops /\ N = First(Ahead(rec))
        /\ rec.fulfilled /\ Failed(rec) = {} /\ Ahead(rec) # {}
    BY <1>1, HopIsNext
  <1>3. /\ c.completed = [rec.completed EXCEPT ![N] = TRUE] /\ c.fulfilled = rec.fulfilled
        /\ c.error = rec.error /\ c.results = rec.results /\ c \in Record
    BY <1>2, TrackFacts DEF Completed, Record
  <1> HIDE DEF c
  <1>4. /\ rec'.completed = c.completed /\ rec'.fulfilled = c.fulfilled
        /\ rec'.error = c.error /\ rec'.results = Append(c.results, N)
    BY <1>1, <1>3 DEF WithResult, Record
  <1> HIDE DEF paid
  <1> PICK s : s = rec'
    OBVIOUS
  <1>5. rec.completed \in [Hops -> BOOLEAN]
    BY TrackFacts DEF Record
  <1>6. /\ s.fulfilled = rec.fulfilled /\ s.error = rec.error
        /\ s.completed[N] /\ \A j \in Hops \ {N} : s.completed[j] = rec.completed[j]
        /\ s.results = Append(rec.results, N)
    BY <1>2, <1>3, <1>4, <1>5
  <1>7. Collected(s)
    BY <1>2, <1>6, NextResult, TrackFacts
  <1> QED BY <1>7

\* A failure was read: the results do not matter any more.
LEMMA FailureCollects ==
    ASSUME IInv, TrackInv, Alone, NEW f \in Flows, HopRefused(f) \/ HopExpired(f)
    PROVE  CollectedStep
  <1> DEFINE i == flow[f].hop
  <1>1. Handles(f, "hop")
    BY DEF HopRefused, HopExpired
  <1>2. i \in Hops /\ rec.fulfilled /\ rec \in Record
    BY <1>1, HopIsNext, TrackFacts
  <1>3. \/ rec' = [Completed(i) EXCEPT !.error[i] = TRUE]
        \/ rec' = [rec EXCEPT !.error[i] = TRUE, !.timeout = TRUE]
    BY DEF HopRefused, HopExpired
  <1> HIDE DEF i
  <1> PICK s : s = rec'
    OBVIOUS
  <1>4. s.fulfilled /\ s.error[i]
    BY <1>2, <1>3 DEF Completed, Record
  <1>5. Failed(s) # {}
    BY <1>2, <1>4 DEF Failed
  <1>6. Collected(s)
    BY <1>4, <1>5 DEF Collected
  <1> QED BY <1>6 DEF CollectedStep

\* Handlers that leave the results and what they are compared with alone.
LEMMA OthersCollect ==
    ASSUME IInv, TrackInv, Alone, NEW f \in Flows, TxFailed(f) \/ HopUnreadable(f) \/ Rewound(f)
    PROVE  /\ CollectedStep
           /\ \A x : About(x, rec) <=> About(x, rec')
  <1> PICK s : s = rec'
    OBVIOUS
  <1>0. rec \in Record /\ rec.completed \in [Hops -> BOOLEAN]
    BY TrackFacts DEF Record
  <1>1. /\ s.fulfilled = rec.fulfilled /\ s.completed = rec.completed
        /\ s.error = rec.error /\ s.results = rec.results
    <2>1. CASE TxFailed(f) \/ Rewound(f)
      BY <1>0, <2>1 DEF TxFailed, Rewound, Record
    <2>2. CASE HopUnreadable(f)
      <3> DEFINE i == flow[f].hop
      <3>1. rec' = [rec EXCEPT !.completed[i] = FALSE] /\ Handles(f, "hop")
        BY <2>2 DEF HopUnreadable
      <3>2. i \in Ahead(rec)
        BY <3>1, HopIsNext, AheadInNat, FirstIn
      <3> HIDE DEF i
      <3>3. i \in Hops /\ rec.completed[i] = FALSE
        BY <1>0, <3>2 DEF Ahead
      <3>4. /\ s.fulfilled = rec.fulfilled /\ s.error = rec.error /\ s.results = rec.results
            /\ s.completed = [rec.completed EXCEPT ![i] = FALSE]
        BY <1>0, <3>1 DEF Record
      <3> QED BY <1>0, <3>3, <3>4
    <2> QED BY <2>1, <2>2
  <1>2. (\A x : About(x, rec) <=> About(x, s)) /\ (Collected(rec) <=> Collected(s))
    BY <1>1, AboutSame
  <1> QED BY <1>2 DEF CollectedStep

\* The one flow goes on after a handler, or comes to rest.
LEMMA StoppedAlone ==
    ASSUME IInv, TrackInv, Alone, NEW f \in Flows, flow[f].got, Stop(f)
    PROVE  Alone'
  <1>1. flow[f].loop = "runs"
    BY DEF Alone, About
  <1> PICK x : x = Idle
    OBVIOUS
  <1> PICK r : r = rec'
    OBVIOUS
  <1>2. flow' = [flow EXCEPT ![f] = x]
    BY <1>1 DEF Stop
  <1>3. \A g \in Flows : flow'[g] = IF g = f THEN x ELSE flow[g]
    BY <1>2, TrackFacts
  <1>4. About(x, r)
    BY IdleAbout
  <1> QED BY <1>1, <1>3, <1>4, AloneMoves

LEMMA FollowedAlone ==
    ASSUME IInv, TrackInv, Alone, NEW f \in Flows, flow[f].got, rec' \in Record, Follow(f, rec')
    PROVE  Alone'
  <1>1. flow[f].loop = "runs"
    BY DEF Alone, About
  <1> PICK r : r = rec'
    OBVIOUS
  <1> PICK x : x = Begin(r, 0)
    OBVIOUS
  <1>2. flow' = [flow EXCEPT ![f] = x]
    BY <1>1 DEF Follow
  <1>3. \A g \in Flows : flow'[g] = IF g = f THEN x ELSE flow[g]
    BY <1>2, TrackFacts
  <1>4. About(x, r)
    BY BegunAbout
  <1> QED BY <1>1, <1>3, <1>4, AloneMoves

\* Its loop goes on with the same hop.
LEMMA LoopAlone ==
    ASSUME IInv, TrackInv, Alone, NEW f \in Flows, flow[f].loop # "over", NEW x,
           flow' = [flow EXCEPT ![f] = x], x.at = flow[f].at, x.hop = flow[f].hop,
           x.loop # "over", x.got => x.loop = "runs",
           \A y : About(y, rec) <=> About(y, rec')
    PROVE  Alone'
  <1>1. \A g \in Flows : flow'[g] = IF g = f THEN x ELSE flow[g]
    BY TrackFacts
  <1> PICK r : r = rec'
    OBVIOUS
  <1>2. About(flow[f], rec)
    BY DEF Alone
  <1>3. About(x, rec)
    BY <1>2 DEF About
  <1>4. About(x, r)
    BY <1>3
  <1> QED BY <1>1, <1>4, AloneMoves

LEMMA UnreadableAlone ==
    ASSUME IInv, TrackInv, Alone, NEW f \in Flows, HopUnreadable(f)
    PROVE  Alone'
  <1>1. flow[f].got /\ flow[f] \in Flow
    BY TrackFacts DEF HopUnreadable, Handles
  <1>2. flow[f].loop = "runs"
    BY <1>1 DEF Alone, About
  <1> DEFINE x == [flow[f] EXCEPT !.got = FALSE, !.loop = Rejected(f)]
  <1>3. /\ x.at = flow[f].at /\ x.hop = flow[f].hop /\ x.loop = Rejected(f) /\ ~x.got
    BY <1>1 DEF Flow
  <1>4. flow' = [flow EXCEPT ![f] = x]
    BY <1>1, <1>2 DEF HopUnreadable, Flow
  <1>5. Rejected(f) \in {"waits", "gaveUp"}
    BY DEF Rejected
  <1> HIDE DEF x
  <1>6. \A y : About(y, rec) <=> About(y, rec')
    BY OthersCollect
  <1> QED BY <1>2, <1>3, <1>4, <1>5, <1>6, LoopAlone

LEMMA HandledAlone ==
    ASSUME IInv, TrackInv, Alone, rec' \in Record, NEW f \in Flows, Handled(f)
    PROVE  Alone' /\ CollectedStep
  <1>1. flow[f].got
    BY DEF Handled, TxFailed, TxFulfilled, HopRefused, HopUnreadable, HopContinues,
           AllCompleted, HopExpired, Rewound, Handles
  <1>2. \/ Stop(f) \/ Follow(f, rec') \/ HopUnreadable(f)
    BY DEF Handled, TxFailed, TxFulfilled, HopRefused, HopContinues,
           AllCompleted, HopExpired, Rewound
  <1>3. Alone'
    BY <1>1, <1>2, StoppedAlone, FollowedAlone, UnreadableAlone
  <1>4. CollectedStep
    BY TxFulfilledCollects, HopContinuesCollects, AllCompletedCollects, FailureCollects,
       OthersCollect DEF Handled
  <1> QED BY <1>3, <1>4

LEMMA FlowStepAlone ==
    ASSUME IInv, TrackInv, Alone, NEW f \in Flows, Answered(f) \/ Disconnected(f) \/ Retried(f)
    PROVE  Alone' /\ rec' = rec
  <1>0. flow[f] \in Flow /\ rec' = rec /\ rec \in Record
    BY TrackFacts DEF Answered, Disconnected, Retried
  <1>1. CASE Answered(f)
    <2> DEFINE x == [flow[f] EXCEPT !.got = TRUE]
    <2>1. x.at = flow[f].at /\ x.hop = flow[f].hop /\ x.loop = flow[f].loop /\ x.got
      BY <1>0 DEF Flow
    <2>2. flow' = [flow EXCEPT ![f] = x] /\ flow[f].loop = "runs"
      BY <1>1 DEF Answered
    <2> HIDE DEF x
    <2> QED BY <1>0, <2>1, <2>2, LoopAlone
  <1>2. CASE Disconnected(f)
    <2> DEFINE x == [flow[f] EXCEPT !.loop = Rejected(f)]
    <2>1. /\ x.at = flow[f].at /\ x.hop = flow[f].hop /\ x.loop = Rejected(f)
          /\ x.got = flow[f].got
      BY <1>0 DEF Flow
    <2>2. flow' = [flow EXCEPT ![f] = x] /\ flow[f].loop = "runs" /\ ~flow[f].got
      BY <1>2 DEF Disconnected
    <2>3. Rejected(f) \in {"waits", "gaveUp"}
      BY DEF Rejected
    <2> HIDE DEF x
    <2> QED BY <1>0, <2>1, <2>2, <2>3, LoopAlone
  <1>3. CASE Retried(f)
    <2> PICK x : x = Begin(rec, flow[f].tries + 1)
      OBVIOUS
    <2>1. flow' = [flow EXCEPT ![f] = x] /\ flow[f].loop = "waits"
      BY <1>3 DEF Retried
    <2>2. \A g \in Flows : flow'[g] = IF g = f THEN x ELSE flow[g]
      BY <2>1, TrackFacts
    <2>3. About(x, rec)
      BY <1>0, BegunAbout
    <2> QED BY <1>0, <2>1, <2>2, <2>3, AloneMoves
  <1> QED BY <1>0, <1>1, <1>2, <1>3

LEMMA RecordedAlone ==
    ASSUME IInv, TrackInv, Alone, rec' \in Record, Recorded
    PROVE  Alone' /\ Collected(rec')
  <1>1. /\ \A g \in Flows : flow[g].at = "rest" /\ flow[g].loop = "over"
        /\ api = "broadcast"
    BY TrackFacts DEF Recorded, IInv, TrackerInv, UnrecordedInv, FlowShape
  <1> PICK r : r = rec'
    OBVIOUS
  <1> PICK x : x = Begin(r, 0)
    OBVIOUS
  <1>2. PICK f \in Flows : flow' = [flow EXCEPT ![f] = x]
    BY DEF Recorded
  <1>3. \A g \in Flows : flow'[g] = IF g = f THEN x ELSE flow[g]
    BY <1>2, TrackFacts
  <1>4. About(x, r)
    BY BegunAbout
  <1>5. Alone'
    BY <1>1, <1>3, <1>4, AloneMoves
  <1>6. ~r.fulfilled /\ r.results = <<>>
    BY DEF Recorded, Blank
  <1>7. Collected(r)
    BY <1>6 DEF Collected
  <1> QED BY <1>5, <1>7

\* The flows stay as they are.
LEMMA SameAlone ==
    ASSUME Alone, flow' = flow, NEW r, r = rec', \A x : About(x, rec) <=> About(x, r)
    PROVE  Alone'
  <1>1. \A g \in Flows : About(flow'[g], r)
    BY DEF Alone
  <1>2. (\A g \in Flows : About(flow[g], rec))'
    BY <1>1 DEF About, Ahead, Failed
  <1> QED BY <1>2 DEF Alone

LEMMA NextResults ==
    ASSUME IInv, TrackInv, ResultInv, [Next]_vars
    PROVE  ResultInv'
  <1>1. rec' \in Record
    BY NextPreserves DEF IInv, TypeOK
  <1> SUFFICES ASSUME ends' = 0, errors' = 0
               PROVE  Alone' /\ (swapTarget' # 0 => Collected(rec'))
    BY DEF ResultInv, Collected, Ahead, Failed
  <1>2. ends \in Nat /\ errors \in Nat
    BY DEF IInv, TypeOK
  <1>3. swapTarget' = swapTarget
    BY DEF Next, Chain, Included, Settled, Refunded, Landed, Recorded, Removed, End, Answered,
           Disconnected, FailedLate, Retried, Handled, TxFailed, TxFulfilled, HopRefused,
           HopUnreadable, HopContinues, AllCompleted, HopExpired, Rewound, chainVars, vars
  <1>4. CASE End
    BY <1>2, <1>4 DEF End
  <1>5. ASSUME NEW f \in Flows, FailedLate(f)
        PROVE  Alone' /\ (swapTarget' # 0 => Collected(rec'))
    BY <1>2, <1>5 DEF FailedLate
  <1>6. CASE ends' = ends /\ errors' = errors
    <2>0. Alone /\ (swapTarget # 0 => Collected(rec))
      BY <1>6 DEF ResultInv
    <2>1. CASE Chain \/ Landed \/ UNCHANGED vars
      <3>1. rec' = rec /\ flow' = flow
        BY <2>1, ChainIsOnward DEF Landed, vars
      <3> QED BY <1>3, <2>0, <3>1, SameAlone
    <2>2. CASE Removed
      <3> PICK r : r = rec'
        OBVIOUS
      <3>1. /\ r.fulfilled = rec.fulfilled /\ r.completed = rec.completed
            /\ r.error = rec.error /\ r.results = rec.results /\ flow' = flow
        BY <2>2, TrackFacts DEF Removed, Record
      <3>2. (\A x : About(x, rec) <=> About(x, r)) /\ (Collected(rec) <=> Collected(r))
        BY <3>1, AboutSame
      <3> QED BY <1>3, <2>0, <3>1, <3>2, SameAlone
    <2>3. CASE Recorded
      BY <1>1, <2>0, <2>3, RecordedAlone
    <2>4. ASSUME NEW f \in Flows, Answered(f) \/ Disconnected(f) \/ Retried(f)
          PROVE  Alone' /\ (swapTarget' # 0 => Collected(rec'))
      BY <1>3, <2>0, <2>4, FlowStepAlone
    <2>5. ASSUME NEW f \in Flows, Handled(f)
          PROVE  Alone' /\ (swapTarget' # 0 => Collected(rec'))
      BY <1>1, <1>3, <2>0, <2>5, HandledAlone DEF CollectedStep
    <2> QED BY <1>4, <1>5, <2>1, <2>2, <2>3, <2>4, <2>5 DEF Next
  <1>7. End \/ (\E f \in Flows : FailedLate(f)) \/ (ends' = ends /\ errors' = errors)
    BY DEF Next, Chain, Included, Settled, Refunded, Landed, Recorded, Removed, Answered,
           Disconnected, Retried, Handled, TxFailed, TxFulfilled, HopRefused,
           HopUnreadable, HopContinues, AllCompleted, HopExpired, Rewound, faultVars, vars
  <1> QED BY <1>4, <1>5, <1>6, <1>7

\* A swap that is shown as a success has the result of every hop once and in its
\* order, when the background did not end and no websocket failed with an answer
\* in hand: then one flow handles each answer once.
THEOREM ResultsAreCollected == Spec => []ResultsAreWhole
  <1>1. Init => TrackInv /\ ResultInv
    <2> SUFFICES ASSUME Init PROVE TrackInv /\ ResultInv
      OBVIOUS
    <2>1. TrackInv
      BY InitTrack
    <2>2. \A f \in Flows : flow[f] = Idle
      BY DEF Init
    <2>3. Alone
      BY <2>2, IdleAbout DEF Alone, Idle
    <2>4. Collected(rec)
      BY DEF Init, Blank, Collected
    <2> QED BY <2>1, <2>3, <2>4 DEF ResultInv
  <1>2. IInv /\ TrackInv /\ ResultInv /\ [Next]_vars => TrackInv' /\ ResultInv'
    BY NextTrack, NextResults
  <1>3. ResultInv => ResultsAreWhole
    <2> SUFFICES ASSUME ResultInv, Succeeded(rec), swapTarget # 0, ends = 0, errors = 0
                 PROVE  rec.results = [i \in 1..(N + 1) |-> i - 1]
      BY DEF ResultsAreWhole
    <2> QED BY DEF ResultInv, Collected, Succeeded, Results
  <1> QED BY <1>1, <1>2, <1>3, InvariantHolds, PTL DEF Spec

=============================================================================
