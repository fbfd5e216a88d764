------------------------ MODULE EndpointHealthProofs ------------------------
(***************************************************************************)
(* HealthInv is an invariant of EndpointHealth for any chains, inventory   *)
(* and preferences, and with it every safety property of the module.       *)
(***************************************************************************)
EXTENDS EndpointHealthInv, SequenceTheorems, TLAPS

-----------------------------------------------------------------------------
(* Records and their kinds. *)

LEMMA TupleIs ==
    /\ \A t \in Tuple : DOMAIN t \subseteq Capability /\ \A k \in DOMAIN t : t[k] \in Endpoint
    /\ \A D \in SUBSET Capability : [D -> Endpoint] \subseteq Tuple
BY Zenon DEF Tuple

LEMMA TupleMade ==
    ASSUME NEW D \in SUBSET Capability, NEW t, t \in [D -> Endpoint]
    PROVE  t \in Tuple
BY TupleIs, Zenon

LEMMA TuplesEqual ==
    ASSUME NEW s \in Tuple, NEW t \in Tuple, DOMAIN s = DOMAIN t,
           \A k \in DOMAIN t : s[k] = t[k]
    PROVE  s = t
<1>1. PICK D \in SUBSET Capability : s \in [D -> Endpoint] BY Zenon DEF Tuple
<1>2. PICK E \in SUBSET Capability : t \in [E -> Endpoint] BY Zenon DEF Tuple
<1>3. s = [k \in D |-> s[k]] /\ t = [k \in E |-> t[k]] /\ D = E BY <1>1, <1>2
<1> QED BY <1>3

LEMMA PreferredIs ==
    ASSUME NEW r \in Record
    PROVE  /\ Preferred(r) \in Tuple
           /\ Capabilities(r) \subseteq Capability
           /\ \A k \in Capabilities(r) : Preferred(r)[k] \in Endpoint
<1>1. Preferred(r) \in Tuple BY DEF Record, Preference, Preferred
<1> QED BY <1>1, TupleIs, Zenon DEF Capabilities

LEMMA CountsType ==
    counts \in [Capability -> 0 .. RecoverAfter] /\ counts \in [Capability -> 0 .. RestoreAfter]
BY HealthAssumption DEF counts

LEMMA NewRecordType ==
    ASSUME NEW p \in Preference
    PROVE  /\ NewRecord(p) \in Record
           /\ NewRecord(p).preference = p
           /\ NewRecord(p).effective = p.endpoints
           /\ NewRecord(p).publicFallback = ~p.manual
           /\ NewRecord(p).consentPending = FALSE
           /\ NewRecord(p).status = "unknown"
           /\ NewRecord(p).connectRecoveryAvailable = FALSE
<1> USE CountsType
<1>1. p.manual \in BOOLEAN /\ p.endpoints \in Tuple BY DEF Preference
<1> HIDE DEF counts, Tuple
<1>2. (~p.manual) \in BOOLEAN BY <1>1
<1> QED BY <1>1, <1>2 DEF NewRecord, Record, Status

LEMMA StoredType ==
    ASSUME NEW r \in Record \cup {None},
           r # None => DOMAIN r.effective = Capabilities(r)
    PROVE  /\ Stored(r) \in StoredRecord \cup {None}
           /\ r = None => Stored(r) = None
           /\ r # None => /\ Stored(r) # None
                          /\ Stored(r).preference = r.preference
                          /\ Stored(r).publicFallback = (r.publicFallback \/ r.consentPending)
                          /\ Stored(r).connectRecoveryAvailable = r.connectRecoveryAvailable
<1>1. CASE r = None BY <1>1 DEF Stored
<1>2. CASE r # None
  <2>1. r \in Record BY <1>2
  <2>2. (r.publicFallback \/ r.consentPending) \in BOOLEAN OBVIOUS
  <2> DEFINE s == [preference |-> r.preference, effective |-> r.effective,
                   publicFallback |-> r.publicFallback \/ r.consentPending,
                   connectRecoveryAvailable |-> r.connectRecoveryAvailable]
  <2> HIDE DEF Tuple, Preference
  <2>3. s \in [preference : Preference, effective : Tuple, publicFallback : BOOLEAN,
               connectRecoveryAvailable : BOOLEAN]
    BY <2>1, <2>2 DEF Record
  <2>4. DOMAIN s.effective = DOMAIN s.preference.endpoints
    BY <1>2 DEF Capabilities, Preferred
  <2>5. s \in StoredRecord BY <2>3, <2>4 DEF StoredRecord
  <2>6. Stored(r) = s BY <1>2 DEF Stored
  <2> QED BY <1>2, <2>5, <2>6, HealthAssumption
<1> QED BY <1>1, <1>2

LEMMA FlightType ==
    ASSUME NEW reason \in Reason \cup {"automatic"}
    PROVE  Flight(reason) \in FlightRecord
<1>1. [x \in Capability \X Endpoint |-> "unknown"] \in Receipts BY DEF Receipts
<1>2. [k \in {} |-> None] \in Tuple
  <2>1. [k \in {} |-> None] \in [{} -> Endpoint] /\ {} \in SUBSET Capability OBVIOUS
  <2> QED BY <2>1, TupleMade
<1> HIDE DEF Receipts, Tuple
<1>3. (reason # "automatic") \in BOOLEAN OBVIOUS
<1> QED BY <1>1, <1>2, <1>3 DEF Flight, FlightRecord, Status

\* What a record is made into by initialize() is allowed.
LEMMA RestoredType ==
    ASSUME NEW c \in Chain, NEW p \in Preference, NEW saved \in StoredRecord,
           NEW fresh \in BOOLEAN, NEW due \in BOOLEAN, saved.preference = p
    PROVE  LET new == Restored(c, NewRecord(p), saved, fresh, due) IN
           /\ new \in Record
           /\ new.preference = p
           /\ DOMAIN new.effective = Capabilities(new)
           /\ ~new.consentPending
           /\ new.status = "unknown"
           /\ new.publicFallback = saved.publicFallback
           /\ new.connectRecoveryAvailable => saved.connectRecoveryAvailable
           /\ AllowedTuple(c, new, new.effective)
<1> DEFINE r == NewRecord(p)
           uses == fresh /\ \A k \in Capabilities(r) :
                      Allowed(c, Preferred(r), saved.publicFallback, k, saved.effective[k])
           effective == IF uses THEN saved.effective ELSE r.effective
           chance == fresh /\ saved.publicFallback /\ saved.connectRecoveryAvailable
           new == [r EXCEPT !.due = due \/ ~fresh, !.publicFallback = saved.publicFallback,
                            !.effective = effective, !.connectRecoveryAvailable = chance]
<1>1. /\ r \in Record /\ r.preference = p /\ r.effective = p.endpoints
      /\ r.consentPending = FALSE /\ r.status = "unknown"
  BY NewRecordType
<1>2. Restored(c, r, saved, fresh, due) = new BY DEF Restored
<1>3. /\ saved.publicFallback \in BOOLEAN /\ saved.effective \in Tuple
      /\ saved.connectRecoveryAvailable \in BOOLEAN
      /\ DOMAIN saved.effective = DOMAIN p.endpoints
  BY DEF StoredRecord
<1>4. Preferred(r) = p.endpoints /\ Capabilities(r) = DOMAIN p.endpoints
  BY <1>1 DEF Preferred, Capabilities
<1> HIDE DEF r, uses
<1>5. effective \in Tuple /\ DOMAIN effective = DOMAIN p.endpoints
  BY <1>1, <1>3 DEF Preference
<1>6. \A k \in DOMAIN p.endpoints :
         Allowed(c, p.endpoints, saved.publicFallback, k, effective[k])
  <2>1. CASE uses BY <2>1, <1>4 DEF uses
  <2>2. CASE ~uses BY <2>2, <1>1 DEF Allowed
  <2> QED BY <2>1, <2>2
<1> HIDE DEF effective, Tuple, Preference
<1>7. chance \in BOOLEAN /\ (due \/ ~fresh) \in BOOLEAN OBVIOUS
<1>8. chance => saved.connectRecoveryAvailable OBVIOUS
<1> HIDE DEF chance
<1>9. /\ new \in Record /\ new.preference = p /\ new.effective = effective
      /\ new.consentPending = FALSE /\ new.status = "unknown"
      /\ new.publicFallback = saved.publicFallback
      /\ new.connectRecoveryAvailable = chance
  BY <1>1, <1>3, <1>5, <1>7 DEF Record
<1>10. Preferred(new) = p.endpoints /\ Capabilities(new) = DOMAIN p.endpoints
  BY <1>9 DEF Preferred, Capabilities
<1> HIDE DEF new
<1> QED BY <1>2, <1>5, <1>6, <1>8, <1>9, <1>10 DEF AllowedTuple, r

-----------------------------------------------------------------------------
(* The queue of writes. *)

LEMMA Positions ==
    ASSUME NEW q \in Seq(Write)
    PROVE  /\ Len(q) \in Nat /\ DOMAIN q = 1 .. Len(q)
           /\ \A i \in DOMAIN q : q[i] \in Write
           /\ q # <<>> => /\ 1 \in DOMAIN q /\ Head(q) = q[1] /\ Head(q) \in Write
                          /\ Tail(q) \in Seq(Write)
                          /\ Len(Tail(q)) = Len(q) - 1
                          /\ \A i \in DOMAIN Tail(q) : Tail(q)[i] = q[i + 1]
BY LenProperties, HeadTailProperties, ElementOfSeq

\* What a write is, but for the records that it has.
LEMMA WriteIs ==
    ASSUME NEW w \in Write
    PROVE  /\ w.data \in [Chain -> StoredRecord \cup {None}]
           /\ w.chain \in Chain /\ w.current \in BOOLEAN
           /\ w.for \in Awaited
BY DEF Write

\* Records that can be stored.
StorableIn(rs) ==
    /\ rs \in [Chain -> Record \cup {None}]
    /\ \A d \in Chain : rs[d] # None => DOMAIN rs[d].effective = Capabilities(rs[d])

Storable == StorableIn(record)

\* The write of the records rs that is called for c and awaited by what.
WriteOf(w, rs, what, c) ==
    /\ w.for = what /\ w.chain = c /\ w.current = TRUE
    /\ \A d \in Chain : w.data[d] = Stored(rs[d])

LEMMA PersistIs ==
    ASSUME NEW rs, StorableIn(rs), NEW q, NEW c \in Chain, NEW what \in Awaited
    PROVE  \E w \in Write : Persist(q, rs, what, c) = Append(q, w) /\ WriteOf(w, rs, what, c)
<1> DEFINE data == [d \in Chain |-> Stored(rs[d])]
           w == [data |-> data, for |-> what, chain |-> c, current |-> TRUE]
<1>1. data \in [Chain -> StoredRecord \cup {None}]
  <2>1. ASSUME NEW d \in Chain PROVE Stored(rs[d]) \in StoredRecord \cup {None}
    <3>1. /\ rs[d] \in Record \cup {None}
          /\ rs[d] # None => DOMAIN rs[d].effective = Capabilities(rs[d])
      BY DEF StorableIn
    <3> QED BY <3>1, StoredType
  <2> QED BY <2>1, Zenon
<1>2. \A d \in Chain : data[d] = Stored(rs[d]) OBVIOUS
<1>3. Persist(q, rs, what, c) = Append(q, w) BY DEF Persist
<1> HIDE DEF data
<1>4. w \in Write BY <1>1 DEF Write
<1>5. w.data = data /\ w.for = what /\ w.chain = c /\ w.current = TRUE OBVIOUS
<1> HIDE DEF w
<1> QED BY <1>2, <1>3, <1>4, <1>5, Zenon DEF WriteOf

LEMMA FencedIs ==
    ASSUME NEW q \in Seq(Write), NEW c \in Chain
    PROVE  LET new == Fenced(q, c) IN
           /\ new \in Seq(Write)
           /\ Len(new) = Len(q) /\ DOMAIN new = DOMAIN q
           /\ \A i \in DOMAIN q :
                 /\ new[i].data = q[i].data /\ new[i].for = q[i].for
                 /\ new[i].chain = q[i].chain
                 /\ new[i].current => q[i].current /\ q[i].chain # c
<1> DEFINE new == Fenced(q, c)
<1>1. Len(q) \in Nat /\ DOMAIN q = 1 .. Len(q) /\ \A i \in DOMAIN q : q[i] \in Write
  BY Positions
<1>2. ASSUME NEW i \in DOMAIN q
      PROVE  /\ new[i] \in Write
             /\ new[i].data = q[i].data /\ new[i].for = q[i].for
             /\ new[i].chain = q[i].chain
             /\ new[i].current => q[i].current /\ q[i].chain # c
  <2>1. new[i] = [q[i] EXCEPT !.current = @ /\ q[i].chain # c] BY DEF Fenced
  <2>2. q[i] \in Write BY <1>1
  <2>3. (q[i].current /\ q[i].chain # c) \in BOOLEAN OBVIOUS
  <2> HIDE DEF new
  <2> QED BY <2>1, <2>2, <2>3 DEF Write
<1>3. new = [i \in 1 .. Len(q) |-> new[i]]
  BY <1>1 DEF Fenced
<1>4. new \in [1 .. Len(q) -> Write]
  <2> HIDE DEF new
  <2> QED BY <1>1, <1>2, <1>3
<1> HIDE DEF new
<1>5. new \in Seq(Write) /\ Len(new) = Len(q) /\ DOMAIN new = 1 .. Len(q)
  <2>1. new \in Seq(Write) BY <1>1, <1>4
  <2>2. DOMAIN new = 1 .. Len(q) BY <1>4
  <2> QED BY <2>1, <2>2, <1>1, LenProperties
<1> QED BY <1>1, <1>2, <1>5 DEF new

-----------------------------------------------------------------------------
(***************************************************************************)
(* What a step does to the store, seen from a chain d: the queue loses its *)
(* first k writes, perhaps to the disk, and gets writes of the new records.*)
(***************************************************************************)
Kept1(k, i) ==
    /\ queue'[i].data = queue[i + k].data
    /\ queue'[i].for = queue[i + k].for
    /\ queue'[i].chain = queue[i + k].chain
    /\ queue'[i].current => queue[i + k].current

Moved(k, d) ==
    /\ k \in {0, 1}
    /\ \A i \in DOMAIN queue' :
          IF i + k \in DOMAIN queue THEN Kept1(k, i)
          ELSE initialized' /\ queue'[i].data[d] = Stored(record'[d])
    /\ \/ disk'[d] = disk[d]
       \/ k = 1 /\ queue # <<>> /\ disk'[d] = queue[1].data[d]

\* The new writes that d does not await.
NotFor(k, d, what) ==
    \A i \in DOMAIN queue' : i + k \in DOMAIN queue \/ ~Awaits(queue'[i], d, what)

\* The records and preferences of TypeOK.
LEMMA TypesOf ==
    ASSUME TypeOK, NEW d \in Chain
    PROVE  /\ preference[d] \in Preference \cup {None}
           /\ record[d] \in Record \cup {None}
           /\ flight[d] \in FlightRecord \cup {None}
           /\ disk[d] \in StoredRecord \cup {None}
           /\ queue \in Seq(Write)
           /\ record[d] # None <=> (initialized /\ preference[d] # None)
           /\ record[d] # None => /\ record[d] \in Record
                                  /\ record[d].preference = preference[d]
                                  /\ DOMAIN record[d].effective = Capabilities(record[d])
                                  /\ ~(record[d].publicFallback /\ record[d].consentPending)
           /\ flight[d] # None => /\ flight[d] \in FlightRecord
                                  /\ record[d] # None /\ ~record[d].consentPending
           /\ Storable
BY DEF TypeOK, Storable, StorableIn

LEMMA StoredNow ==
    ASSUME TypeOK, NEW d \in Chain
    PROVE  /\ record[d] = None => Stored(record[d]) = None
           /\ record[d] # None =>
                /\ Stored(record[d]) # None
                /\ Stored(record[d]).preference = preference[d]
                /\ Stored(record[d]).publicFallback
                      = (record[d].publicFallback \/ record[d].consentPending)
                /\ Stored(record[d]).connectRecoveryAvailable
                      = record[d].connectRecoveryAvailable
BY TypesOf, StoredType

LEMMA StoredNext ==
    ASSUME TypeOK', NEW d \in Chain
    PROVE  /\ record'[d] = None => Stored(record'[d]) = None
           /\ record'[d] # None =>
                /\ Stored(record'[d]) # None
                /\ Stored(record'[d]).preference = preference'[d]
                /\ Stored(record'[d]).publicFallback
                      = (record'[d].publicFallback \/ record'[d].consentPending)
                /\ Stored(record'[d]).connectRecoveryAvailable
                      = record'[d].connectRecoveryAvailable
<1>1. /\ record'[d] \in Record \cup {None}
      /\ record'[d] # None => /\ record'[d].preference = preference'[d]
                              /\ DOMAIN record'[d].effective = Capabilities(record'[d])
  BY DEF TypeOK
<1> QED BY <1>1, StoredType

LEMMA KeepsConsent ==
    ASSUME TypeOK, TypeOK', NEW d \in Chain, NEW k, Moved(k, d), ConsentKept(d),
           (record'[d] # None /\ record'[d].preference.manual /\ record'[d].publicFallback)
              => /\ record[d] # None /\ record[d].preference.manual /\ record[d].publicFallback
                 /\ preference'[d] = preference[d]
    PROVE  ConsentKept(d)'
<1> SUFFICES ASSUME record'[d] # None, record'[d].preference.manual, record'[d].publicFallback
             PROVE  /\ Kept(disk'[d], preference'[d])
                    /\ \A i \in DOMAIN queue' : Kept(queue'[i].data[d], preference'[d])
  BY DEF ConsentKept
<1>1. /\ Kept(disk[d], preference[d]) /\ preference'[d] = preference[d]
      /\ \A i \in DOMAIN queue : Kept(queue[i].data[d], preference[d])
  BY DEF ConsentKept
<1>2. queue # <<>> => 1 \in DOMAIN queue BY TypesOf, Positions
<1>3. Kept(disk'[d], preference'[d])
  BY <1>1, <1>2 DEF Moved
<1>4. ASSUME NEW i \in DOMAIN queue' PROVE Kept(queue'[i].data[d], preference'[d])
  <2>1. CASE i + k \in DOMAIN queue BY <2>1, <1>1 DEF Moved, Kept1
  <2>2. CASE ~(i + k \in DOMAIN queue)
    <3>1. queue'[i].data[d] = Stored(record'[d]) BY <2>2 DEF Moved
    <3> QED BY <3>1, StoredNext DEF Kept
  <2> QED BY <2>1, <2>2
<1> QED BY <1>3, <1>4

\* A step leaves what is known to be off, and what only memory knows of it.
StaysClosed(d) == d \in closed /\ (d \in denied => d \in denied')

LEMMA KeepsClosed ==
    ASSUME TypeOK, TypeOK', NEW d \in Chain, NEW k, Moved(k, d), ClosedKept(d),
           d \in closed' => /\ StaysClosed(d) /\ preference'[d] = preference[d]
                            /\ record'[d] # None => Off(record'[d])
    PROVE  ClosedKept(d)'
<1> SUFFICES ASSUME d \in closed'
             PROVE  /\ preference'[d] # None
                    /\ d \notin denied' => Shut(disk'[d], preference'[d])
                    /\ \A i \in DOMAIN queue' : Shut(queue'[i].data[d], preference'[d])
  BY DEF ClosedKept, Off
<1>1. /\ d \notin denied' => Shut(disk[d], preference[d])
      /\ preference'[d] = preference[d] /\ preference[d] # None
      /\ \A i \in DOMAIN queue : Shut(queue[i].data[d], preference[d])
  BY DEF ClosedKept, StaysClosed
<1>2. queue # <<>> => 1 \in DOMAIN queue BY TypesOf, Positions
<1>3. d \notin denied' => Shut(disk'[d], preference'[d]) BY <1>1, <1>2 DEF Moved
<1>4. ASSUME NEW i \in DOMAIN queue' PROVE Shut(queue'[i].data[d], preference'[d])
  <2>1. CASE i + k \in DOMAIN queue BY <2>1, <1>1 DEF Moved, Kept1
  <2>2. CASE ~(i + k \in DOMAIN queue)
    <3>1. initialized' /\ queue'[i].data[d] = Stored(record'[d]) BY <2>2 DEF Moved
    <3>2. record'[d] # None BY <1>1, <3>1 DEF TypeOK
    <3> QED BY <3>1, <3>2, StoredNext DEF Shut, Off
  <2> QED BY <2>1, <2>2
<1> QED BY <1>1, <1>3, <1>4

LEMMA KeepsSpent ==
    ASSUME TypeOK, TypeOK', NEW d \in Chain, NEW k, Moved(k, d), SpentKept(d),
           d \in spent' => /\ d \in spent
                           /\ record'[d] # None => ~record'[d].connectRecoveryAvailable
    PROVE  SpentKept(d)'
<1> SUFFICES ASSUME d \in spent'
             PROVE  /\ disk'[d] # None => ~disk'[d].connectRecoveryAvailable
                    /\ \A i \in DOMAIN queue' : queue'[i].data[d] # None =>
                          ~queue'[i].data[d].connectRecoveryAvailable
  BY DEF SpentKept
<1>1. /\ disk[d] # None => ~disk[d].connectRecoveryAvailable
      /\ \A i \in DOMAIN queue :
            queue[i].data[d] # None => ~queue[i].data[d].connectRecoveryAvailable
  BY DEF SpentKept
<1>2. queue # <<>> => 1 \in DOMAIN queue BY TypesOf, Positions
<1>3. disk'[d] # None => ~disk'[d].connectRecoveryAvailable BY <1>1, <1>2 DEF Moved
<1>4. ASSUME NEW i \in DOMAIN queue', queue'[i].data[d] # None
      PROVE  ~queue'[i].data[d].connectRecoveryAvailable
  <2>1. CASE i + k \in DOMAIN queue BY <2>1, <1>1, <1>4 DEF Moved, Kept1
  <2>2. CASE ~(i + k \in DOMAIN queue)
    <3>1. queue'[i].data[d] = Stored(record'[d]) BY <2>2 DEF Moved
    <3> QED BY <3>1, <1>4, StoredNext
  <2> QED BY <2>1, <2>2
<1> QED BY <1>3, <1>4

LEMMA KeepsChoice ==
    ASSUME TypeOK, TypeOK', NEW d \in Chain, NEW k, Moved(k, d), ChoiceWaits(d),
           NotFor(k, d, {"withdrawal", "rollback", "opt-in"}),
           record[d] # None => record'[d] # None /\ preference'[d] = preference[d],
           Off(record[d]) => Off(record'[d]),
           record[d] # None /\ record[d].consentPending => record'[d].consentPending
    PROVE  ChoiceWaits(d)'
<1>1. /\ DOMAIN queue = 1 .. Len(queue) /\ Len(queue) \in Nat
      /\ DOMAIN queue' = 1 .. Len(queue') /\ Len(queue') \in Nat
      /\ k \in {0, 1}
  <2>1. queue' \in Seq(Write) BY DEF TypeOK
  <2> QED BY <2>1, TypesOf, Positions DEF Moved
<1>2. ASSUME NEW i \in DOMAIN queue', Awaits(queue'[i], d, {"withdrawal", "rollback"})
      PROVE  /\ Off(record'[d])
             /\ \A j \in DOMAIN queue' : j >= i => Shut(queue'[j].data[d], preference'[d])
  <2>1. i + k \in DOMAIN queue BY <1>2 DEF NotFor, Awaits
  <2>2. Awaits(queue[i + k], d, {"withdrawal", "rollback"})
    BY <1>2, <2>1 DEF Moved, Kept1, Awaits
  <2>3. /\ Off(record[d])
        /\ \A j \in DOMAIN queue : j >= i + k => Shut(queue[j].data[d], preference[d])
    BY <2>1, <2>2 DEF ChoiceWaits
  <2>4. Off(record'[d]) /\ preference'[d] = preference[d] BY <2>3 DEF Off
  <2>5. ASSUME NEW j \in DOMAIN queue', j >= i
        PROVE  Shut(queue'[j].data[d], preference'[d])
    <3>1. CASE j + k \in DOMAIN queue
      <4>1. j + k >= i + k BY <1>1, <2>5
      <4> QED BY <3>1, <4>1, <2>3, <2>4 DEF Moved, Kept1
    <3>2. CASE ~(j + k \in DOMAIN queue)
      <4>1. queue'[j].data[d] = Stored(record'[d]) BY <3>2 DEF Moved
      <4> QED BY <4>1, <2>4, StoredNext DEF Shut, Off
    <3> QED BY <3>1, <3>2
  <2> QED BY <2>4, <2>5
<1>3. ASSUME NEW i \in DOMAIN queue', Awaits(queue'[i], d, {"opt-in"})
      PROVE  /\ record'[d] # None /\ record'[d].consentPending
             /\ \A j \in DOMAIN queue' : j >= i =>
                   /\ Kept(queue'[j].data[d], preference'[d])
                   /\ Awaits(queue'[j], d, {"opt-in"}) => i = j
  <2>1. i + k \in DOMAIN queue BY <1>3 DEF NotFor, Awaits
  <2>2. Awaits(queue[i + k], d, {"opt-in"}) BY <1>3, <2>1 DEF Moved, Kept1, Awaits
  <2>3. /\ record[d] # None /\ record[d].consentPending
        /\ \A j \in DOMAIN queue : j >= i + k =>
              /\ Kept(queue[j].data[d], preference[d])
              /\ Awaits(queue[j], d, {"opt-in"}) => i + k = j
    BY <2>1, <2>2 DEF ChoiceWaits
  <2>4. record'[d] # None /\ record'[d].consentPending /\ preference'[d] = preference[d]
    BY <2>3
  <2>5. ASSUME NEW j \in DOMAIN queue', j >= i
        PROVE  /\ Kept(queue'[j].data[d], preference'[d])
               /\ Awaits(queue'[j], d, {"opt-in"}) => i = j
    <3>1. CASE j + k \in DOMAIN queue
      <4>1. j + k >= i + k BY <1>1, <2>5
      <4>2. Kept(queue'[j].data[d], preference'[d])
        BY <3>1, <4>1, <2>3, <2>4 DEF Moved, Kept1
      <4>3. ASSUME Awaits(queue'[j], d, {"opt-in"}) PROVE i = j
        <5>1. Awaits(queue[j + k], d, {"opt-in"}) BY <4>3, <3>1 DEF Moved, Kept1, Awaits
        <5>2. i + k = j + k BY <5>1, <3>1, <4>1, <2>3
        <5> QED BY <5>2, <1>1
      <4> QED BY <4>2, <4>3
    <3>2. CASE ~(j + k \in DOMAIN queue)
      <4>1. queue'[j].data[d] = Stored(record'[d]) BY <3>2 DEF Moved
      <4>2. ~Awaits(queue'[j], d, {"opt-in"}) BY <3>2 DEF NotFor, Awaits
      <4> QED BY <4>1, <4>2, <2>4, StoredNext DEF Kept
    <3> QED BY <3>1, <3>2
  <2> QED BY <2>4, <2>5
<1> QED BY <1>2, <1>3 DEF ChoiceWaits

LEMMA KeepsFlight ==
    ASSUME TypeOK, TypeOK', NEW d \in Chain, NEW k, Moved(k, d), FlightWaits(d),
           NotFor(k, d, {"escalation", "result"}),
           flight[d] # None => /\ flight'[d] # None /\ flight'[d].phase = flight[d].phase
                               /\ record'[d].connectRecoveryAvailable
                                    => record[d].connectRecoveryAvailable
    PROVE  FlightWaits(d)'
<1>1. /\ DOMAIN queue = 1 .. Len(queue) /\ Len(queue) \in Nat
      /\ DOMAIN queue' = 1 .. Len(queue') /\ Len(queue') \in Nat
      /\ k \in {0, 1}
  <2>1. queue' \in Seq(Write) BY DEF TypeOK
  <2> QED BY <2>1, TypesOf, Positions DEF Moved
<1>2. ASSUME NEW i \in DOMAIN queue', Awaits(queue'[i], d, {"escalation", "result"})
      PROVE  /\ i + k \in DOMAIN queue
             /\ Awaits(queue[i + k], d, {"escalation", "result"})
             /\ queue'[i].for = queue[i + k].for
             /\ flight[d] # None
  <2>1. i + k \in DOMAIN queue BY <1>2 DEF NotFor
  <2>2. Awaits(queue[i + k], d, {"escalation", "result"}) /\ queue'[i].for = queue[i + k].for
    BY <1>2, <2>1 DEF Moved, Kept1, Awaits
  <2> QED BY <2>1, <2>2 DEF FlightWaits
<1>3. ASSUME NEW i \in DOMAIN queue', Awaits(queue'[i], d, {"escalation", "result"})
      PROVE  /\ flight'[d] # None
             /\ \A j \in DOMAIN queue' :
                   Awaits(queue'[j], d, {"escalation", "result"}) => i = j
  <2>1. flight'[d] # None BY <1>2, <1>3
  <2>2. ASSUME NEW j \in DOMAIN queue', Awaits(queue'[j], d, {"escalation", "result"})
        PROVE  i = j
    <3>1. i + k = j + k BY <1>2, <1>3, <2>2 DEF FlightWaits
    <3> QED BY <3>1, <1>1
  <2> QED BY <2>1, <2>2
<1>4. ASSUME NEW i \in DOMAIN queue', Awaits(queue'[i], d, {"escalation"})
      PROVE  /\ flight'[d].phase = "consuming"
             /\ ~record'[d].connectRecoveryAvailable
             /\ \A j \in DOMAIN queue' : j >= i =>
                   /\ queue'[j].data[d] # None
                   /\ ~queue'[j].data[d].connectRecoveryAvailable
  <2>1. /\ i + k \in DOMAIN queue /\ flight[d] # None
        /\ Awaits(queue[i + k], d, {"escalation"})
    BY <1>2, <1>4 DEF Awaits
  <2>2. /\ flight[d].phase = "consuming" /\ ~record[d].connectRecoveryAvailable
        /\ \A j \in DOMAIN queue : j >= i + k =>
              /\ queue[j].data[d] # None /\ ~queue[j].data[d].connectRecoveryAvailable
    BY <2>1 DEF FlightWaits
  <2>3. flight'[d].phase = "consuming" /\ ~record'[d].connectRecoveryAvailable
    BY <2>1, <2>2
  <2>4. record'[d] # None BY <2>1 DEF TypeOK
  <2>5. ASSUME NEW j \in DOMAIN queue', j >= i
        PROVE  /\ queue'[j].data[d] # None
               /\ ~queue'[j].data[d].connectRecoveryAvailable
    <3>1. CASE j + k \in DOMAIN queue
      <4>1. j + k >= i + k BY <1>1, <2>5
      <4> QED BY <3>1, <4>1, <2>2 DEF Moved, Kept1
    <3>2. CASE ~(j + k \in DOMAIN queue)
      <4>1. queue'[j].data[d] = Stored(record'[d]) BY <3>2 DEF Moved
      <4> QED BY <4>1, <2>3, <2>4, StoredNext
    <3> QED BY <3>1, <3>2
  <2> QED BY <2>3, <2>5
<1>5. ASSUME NEW i \in DOMAIN queue', Awaits(queue'[i], d, {"result"})
      PROVE  flight'[d].phase = "persisting"
  <2>1. /\ i + k \in DOMAIN queue /\ flight[d] # None /\ Awaits(queue[i + k], d, {"result"})
    BY <1>2, <1>5 DEF Awaits
  <2> QED BY <2>1 DEF FlightWaits
<1> QED BY <1>3, <1>4, <1>5 DEF FlightWaits

\* A chain that a step does not touch keeps its invariant, whatever the step
\* does to the store.
LEMMA Bystander ==
    ASSUME TypeOK, TypeOK', NEW d \in Chain, ChainInv(d), NEW k, Moved(k, d),
           NotFor(k, d, {"withdrawal", "rollback", "opt-in"}),
           NotFor(k, d, {"escalation", "result"}),
           preference'[d] = preference[d], record'[d] = record[d], flight'[d] = flight[d],
           d \in closed' => StaysClosed(d), d \in spent' => d \in spent
    PROVE  ChainInv(d)'
<1> USE DEF ChainInv
<1>1. UsesAllowed(d)' BY DEF UsesAllowed
<1>2. ConsentKept(d)' BY KeepsConsent
<1>3. ClosedKept(d)'
  <2>1. ClosedKept(d) OBVIOUS
  <2>2. d \in closed' => /\ StaysClosed(d) /\ preference'[d] = preference[d]
                         /\ record'[d] # None => Off(record'[d])
    BY <2>1 DEF ClosedKept, StaysClosed
  <2> QED BY <2>1, <2>2, KeepsClosed
<1>4. SpentKept(d)' BY KeepsSpent DEF SpentKept
<1>5. ChoiceWaits(d)'
  <2>1. Off(record[d]) => Off(record'[d]) OBVIOUS
  <2>2. (record[d] # None /\ record[d].consentPending) => record'[d].consentPending OBVIOUS
  <2>3. record[d] # None => record'[d] # None /\ preference'[d] = preference[d] OBVIOUS
  <2> HIDE DEF ChainInv
  <2>4. ChoiceWaits(d) BY DEF ChainInv
  <2> QED BY <2>1, <2>2, <2>3, <2>4, KeepsChoice
<1>6. FlightWaits(d)' BY KeepsFlight
<1> QED BY <1>1, <1>2, <1>3, <1>4, <1>5, <1>6

-----------------------------------------------------------------------------
(* Steps that change the record and the flight of one chain. *)

LEMMA RecordSet ==
    ASSUME TypeOK, NEW c \in Chain, NEW r \in Record \cup {None},
           r # None => DOMAIN r.effective = Capabilities(r),
           record' = [record EXCEPT ![c] = r]
    PROVE  Storable' /\ record'[c] = r /\ \A d \in Chain \ {c} : record'[d] = record[d]
<1>1. record \in [Chain -> Record \cup {None}] BY DEF TypeOK
<1>2. /\ record' \in [Chain -> Record \cup {None}] /\ record'[c] = r
      /\ \A d \in Chain \ {c} : record'[d] = record[d]
  BY <1>1
<1>3. ASSUME NEW d \in Chain, record'[d] # None
      PROVE  DOMAIN record'[d].effective = Capabilities(record'[d])
  BY <1>2, <1>3, TypesOf
<1> QED BY <1>2, <1>3 DEF Storable, StorableIn

LEMMA SetTypes ==
    ASSUME TypeOK, NEW c \in Chain,
           NEW r \in Record \cup {None}, record' = [record EXCEPT ![c] = r],
           NEW f \in FlightRecord \cup {None}, flight' = [flight EXCEPT ![c] = f],
           preference' \in [Chain -> Preference \cup {None}],
           \A d \in Chain \ {c} : preference'[d] = preference[d],
           r # None <=> (initialized /\ preference'[c] # None),
           r # None => /\ r.preference = preference'[c]
                       /\ DOMAIN r.effective = Capabilities(r)
                       /\ ~(r.publicFallback /\ r.consentPending),
           f # None => r # None /\ ~r.consentPending,
           queue' \in Seq(Write), disk' \in [Chain -> StoredRecord \cup {None}],
           asked' \subseteq [chain : Chain, reason : Reason],
           initialized' = initialized, closed' \subseteq Chain /\ denied' \subseteq Chain, spent' \subseteq Chain
    PROVE  TypeOK'
<1>1. /\ record' \in [Chain -> Record \cup {None}] /\ record'[c] = r
      /\ \A d \in Chain \ {c} : record'[d] = record[d]
  BY DEF TypeOK
<1>2. /\ flight' \in [Chain -> FlightRecord \cup {None}] /\ flight'[c] = f
      /\ \A d \in Chain \ {c} : flight'[d] = flight[d]
  BY DEF TypeOK
<1>3. initialized' \in BOOLEAN BY DEF TypeOK
<1>4. ASSUME NEW d \in Chain
      PROVE  /\ record'[d] # None <=> (initialized' /\ preference'[d] # None)
             /\ record'[d] # None =>
                   /\ record'[d].preference = preference'[d]
                   /\ DOMAIN record'[d].effective = Capabilities(record'[d])
                   /\ ~(record'[d].publicFallback /\ record'[d].consentPending)
             /\ flight'[d] # None => record'[d] # None /\ ~record'[d].consentPending
  <2>1. CASE d = c BY <2>1, <1>1, <1>2
  <2>2. CASE d # c
    <3>1. record'[d] = record[d] /\ flight'[d] = flight[d] /\ preference'[d] = preference[d]
      BY <2>2, <1>1, <1>2
    <3> QED BY <3>1, TypesOf
  <2> QED BY <2>1, <2>2
<1> QED BY <1>1, <1>2, <1>3, <1>4 DEF TypeOK

\* A function that is changed at a point to what it is there is not changed.
LEMMA Same ==
    ASSUME NEW S, NEW T, NEW g \in [S -> T], NEW x \in S
    PROVE  g = [g EXCEPT ![x] = g[x]]
OBVIOUS

\* persist() with no change of what is awaited: what each chain sees of it.
LEMMA Persisted ==
    ASSUME TypeOK, Storable', NEW c \in Chain, initialized', disk' = disk,
           NEW what \in Awaited,
           queue' = Persist(queue, record', what, c)
    PROVE  /\ queue' \in Seq(Write)
           /\ \A d \in Chain : Moved(0, d)
           /\ \A d \in Chain : \A choice : what \notin choice \/ d # c => NotFor(0, d, choice)
           /\ DOMAIN queue = 1 .. Len(queue) /\ DOMAIN queue' = 1 .. Len(queue) + 1
           /\ Len(queue) \in Nat
           /\ \A i \in DOMAIN queue : queue'[i] = queue[i]
           /\ queue'[Len(queue) + 1].for = what
           /\ queue'[Len(queue) + 1].chain = c /\ queue'[Len(queue) + 1].current = TRUE
           /\ \A d \in Chain : queue'[Len(queue) + 1].data[d] = Stored(record'[d])
<1>1. queue \in Seq(Write) BY DEF TypeOK
<1>2. /\ queue' \in Seq(Write) /\ Len(queue') = Len(queue) + 1
      /\ \A i \in DOMAIN queue : queue'[i] = queue[i]
      /\ queue'[Len(queue) + 1].for = what
      /\ queue'[Len(queue) + 1].chain = c /\ queue'[Len(queue) + 1].current = TRUE
      /\ \A d \in Chain : queue'[Len(queue) + 1].data[d] = Stored(record'[d])
  <2>1. PICK w \in Write : queue' = Append(queue, w) /\ WriteOf(w, record', what, c)
    BY PersistIs, Zenon DEF Storable
  <2> QED BY <1>1, <2>1, AppendProperties, Positions DEF WriteOf
<1>3. /\ Len(queue) \in Nat /\ DOMAIN queue = 1 .. Len(queue)
      /\ DOMAIN queue' = 1 .. Len(queue) + 1
  BY <1>1, <1>2, Positions
<1>4. ASSUME NEW i \in DOMAIN queue'
      PROVE  i + 0 = i /\ (i \in DOMAIN queue \/ i = Len(queue) + 1)
  BY <1>3
<1>5. ASSUME NEW d \in Chain PROVE Moved(0, d)
  BY <1>2, <1>4 DEF Moved, Kept1
<1>6. ASSUME NEW d \in Chain, NEW choice, what \notin choice \/ d # c
      PROVE  NotFor(0, d, choice)
  BY <1>2, <1>4, <1>6 DEF NotFor, Awaits
<1> QED BY <1>2, <1>3, <1>5, <1>6

\* The same when the record of c has got a new token.
LEMMA PersistedAnew ==
    ASSUME TypeOK, Storable', NEW c \in Chain, initialized', disk' = disk,
           NEW what \in Awaited,
           queue' = Persist(Fenced(queue, c), record', what, c)
    PROVE  /\ queue' \in Seq(Write)
           /\ \A d \in Chain : Moved(0, d)
           /\ \A d \in Chain : \A choice : what \notin choice \/ d # c => NotFor(0, d, choice)
           /\ DOMAIN queue = 1 .. Len(queue) /\ DOMAIN queue' = 1 .. Len(queue) + 1
           /\ Len(queue) \in Nat
           /\ \A i \in DOMAIN queue : ~(queue'[i].current /\ queue'[i].chain = c)
           /\ queue'[Len(queue) + 1].for = what
           /\ queue'[Len(queue) + 1].chain = c /\ queue'[Len(queue) + 1].current = TRUE
           /\ \A d \in Chain : queue'[Len(queue) + 1].data[d] = Stored(record'[d])
<1> DEFINE q == Fenced(queue, c)
<1>1. queue \in Seq(Write) BY DEF TypeOK
<1>2. /\ q \in Seq(Write) /\ Len(q) = Len(queue) /\ DOMAIN q = DOMAIN queue
      /\ \A i \in DOMAIN queue :
            /\ q[i].data = queue[i].data /\ q[i].for = queue[i].for
            /\ q[i].chain = queue[i].chain
            /\ q[i].current => queue[i].current /\ queue[i].chain # c
  BY <1>1, FencedIs
<1>3. queue' = Persist(q, record', what, c) OBVIOUS
<1> HIDE DEF q
<1>4. /\ queue' \in Seq(Write) /\ Len(queue') = Len(q) + 1
      /\ \A i \in DOMAIN q : queue'[i] = q[i]
      /\ queue'[Len(q) + 1].for = what
      /\ queue'[Len(q) + 1].chain = c /\ queue'[Len(q) + 1].current = TRUE
      /\ \A d \in Chain : queue'[Len(q) + 1].data[d] = Stored(record'[d])
  <2>1. PICK w \in Write : queue' = Append(q, w) /\ WriteOf(w, record', what, c)
    BY <1>3, PersistIs, Zenon DEF Storable
  <2> QED BY <1>2, <2>1, AppendProperties, Positions DEF WriteOf
<1>5. /\ Len(queue) \in Nat /\ DOMAIN queue = 1 .. Len(queue)
      /\ DOMAIN queue' = 1 .. Len(queue) + 1
  BY <1>1, <1>2, <1>4, Positions
<1>6. ASSUME NEW i \in DOMAIN queue'
      PROVE  i + 0 = i /\ (i \in DOMAIN queue \/ i = Len(queue) + 1)
  BY <1>5
<1>7. ASSUME NEW d \in Chain PROVE Moved(0, d)
  BY <1>2, <1>4, <1>6 DEF Moved, Kept1
<1>8. ASSUME NEW d \in Chain, NEW choice, what \notin choice \/ d # c
      PROVE  NotFor(0, d, choice)
  BY <1>2, <1>4, <1>6, <1>8 DEF NotFor, Awaits
<1> QED BY <1>2, <1>4, <1>5, <1>7, <1>8

-----------------------------------------------------------------------------
(* What a step has to keep of the chain that it is about. *)

\* A step about c keeps the invariant if it keeps that of c.
LEMMA Compose ==
    ASSUME HealthInv, TypeOK', NothingRuns', NEW c \in Chain, ChainInv(c)',
           NEW k, \A d \in Chain : Moved(k, d),
           \A d \in Chain \ {c} :
              /\ NotFor(k, d, {"withdrawal", "rollback", "opt-in"})
              /\ NotFor(k, d, {"escalation", "result"})
              /\ preference'[d] = preference[d] /\ record'[d] = record[d]
              /\ flight'[d] = flight[d]
              /\ d \in closed' => StaysClosed(d)
              /\ d \in spent' => d \in spent
    PROVE  HealthInv'
<1>1. ASSUME NEW d \in Chain PROVE ChainInv(d)'
  <2>1. CASE d = c BY <2>1
  <2>2. CASE d # c
    <3>1. TypeOK /\ ChainInv(d) /\ Moved(k, d) BY DEF HealthInv
    <3>2. /\ NotFor(k, d, {"withdrawal", "rollback", "opt-in"})
          /\ NotFor(k, d, {"escalation", "result"})
          /\ preference'[d] = preference[d] /\ record'[d] = record[d]
          /\ flight'[d] = flight[d]
          /\ d \in closed' => StaysClosed(d)
          /\ d \in spent' => d \in spent
      BY <2>2
    <3> QED BY <3>1, <3>2, Bystander
  <2> QED BY <2>1, <2>2
<1> QED BY <1>1 DEF HealthInv

\* The store is as it was.
LEMMA Unmoved ==
    ASSUME TypeOK, queue' = queue, disk' = disk
    PROVE  /\ \A d \in Chain : Moved(0, d)
           /\ \A d \in Chain : \A choice : NotFor(0, d, choice)
<1>1. DOMAIN queue = 1 .. Len(queue) /\ Len(queue) \in Nat BY Positions DEF TypeOK
<1>2. \A i \in DOMAIN queue : i + 0 = i BY <1>1
<1> QED BY <1>2 DEF Moved, Kept1, NotFor

\* Nothing is awaited for a flight of c.
Unawaited(c) == \A i \in DOMAIN queue : ~Awaits(queue[i], c, {"escalation", "result"})

LEMMA NoneAwaited ==
    ASSUME NEW c \in Chain, FlightWaits(c),
           flight[c] = None \/ flight[c].phase \notin {"consuming", "persisting"}
    PROVE  Unawaited(c)
<1>1. ASSUME NEW i \in DOMAIN queue, Awaits(queue[i], c, {"escalation", "result"})
      PROVE  FALSE
  <2>1. Awaits(queue[i], c, {"escalation"}) \/ Awaits(queue[i], c, {"result"})
    BY <1>1 DEF Awaits
  <2> QED BY <1>1, <2>1 DEF FlightWaits
<1> QED BY <1>1 DEF Unawaited

LEMMA StaysUnawaited ==
    ASSUME NEW c \in Chain, NEW k, Moved(k, c), Unawaited(c),
           NotFor(k, c, {"escalation", "result"})
    PROVE  FlightWaits(c)'
<1>1. ASSUME NEW i \in DOMAIN queue', Awaits(queue'[i], c, {"escalation", "result"})
      PROVE  FALSE
  <2>1. i + k \in DOMAIN queue BY <1>1 DEF NotFor
  <2>2. Awaits(queue[i + k], c, {"escalation", "result"})
    BY <1>1, <2>1 DEF Moved, Kept1, Awaits
  <2> QED BY <2>1, <2>2 DEF Unawaited
<1>2. \A i \in DOMAIN queue' : /\ ~Awaits(queue'[i], c, {"escalation"})
                              /\ ~Awaits(queue'[i], c, {"result"})
  BY <1>1 DEF Awaits
<1> QED BY <1>1, <1>2 DEF FlightWaits

\* A choice, or a preference, gives the record of c a new token.
LEMMA Anew ==
    ASSUME HealthInv, TypeOK', NEW c \in Chain, initialized', disk' = disk,
           NEW what \in {"nobody", "withdrawal", "opt-in"},
           queue' = Persist(Fenced(queue, c), record', what, c),
           flight'[c] = None,
           record'[c] # None =>
              /\ AllowedTuple(c, record'[c], record'[c].effective)
              /\ Truthful(record'[c], record'[c].status)
              /\ ~record'[c].connectRecoveryAvailable
              /\ ~(record'[c].preference.manual /\ record'[c].publicFallback),
           what = "withdrawal" => Off(record'[c]),
           what = "opt-in" => record'[c] # None /\ record'[c].consentPending,
           c \in closed' => /\ StaysClosed(c) /\ preference'[c] = preference[c]
                            /\ record'[c] # None => Off(record'[c]),
           c \in spent' => c \in spent,
           \A d \in Chain \ {c} :
              /\ preference'[d] = preference[d] /\ record'[d] = record[d]
              /\ flight'[d] = flight[d]
              /\ d \in closed' => StaysClosed(d)
              /\ d \in spent' => d \in spent
    PROVE  HealthInv'
<1> DEFINE n == Len(queue) + 1
<1>1. TypeOK /\ NothingRuns /\ ChainInv(c) BY DEF HealthInv
<1>2. Storable' /\ what \in Awaited BY DEF TypeOK, Storable, StorableIn, Awaited
<1>3. /\ \A d \in Chain : Moved(0, d)
      /\ \A d \in Chain : \A choice : what \notin choice \/ d # c => NotFor(0, d, choice)
      /\ DOMAIN queue = 1 .. Len(queue) /\ DOMAIN queue' = 1 .. n
      /\ Len(queue) \in Nat
      /\ \A i \in DOMAIN queue : ~(queue'[i].current /\ queue'[i].chain = c)
      /\ queue'[n].for = what /\ queue'[n].chain = c /\ queue'[n].current = TRUE
      /\ \A d \in Chain : queue'[n].data[d] = Stored(record'[d])
  BY <1>1, <1>2, PersistedAnew
<1>4. ASSUME NEW i \in DOMAIN queue', NEW choice, Awaits(queue'[i], c, choice)
      PROVE  i = n /\ what \in choice /\ \A j \in DOMAIN queue' : j >= i => j = n
  <2>1. i \in DOMAIN queue \/ i = n BY <1>3
  <2>2. i = n BY <2>1, <1>3, <1>4 DEF Awaits
  <2>3. what \in choice BY <2>2, <1>3, <1>4 DEF Awaits
  <2>4. ASSUME NEW j \in DOMAIN queue', j >= i PROVE j = n BY <2>2, <2>4, <1>3
  <2> QED BY <2>2, <2>3, <2>4
<1>5. queue'[n].data[c] = Stored(record'[c]) BY <1>3
<1> HIDE DEF n
<1>6. UsesAllowed(c)' BY DEF UsesAllowed
<1>7. ConsentKept(c)' BY DEF ConsentKept
<1>8. ClosedKept(c)'
  <2>1. Moved(0, c) /\ ClosedKept(c) BY <1>1, <1>3 DEF ChainInv
  <2> QED BY <1>1, <2>1, KeepsClosed
<1>9. SpentKept(c)'
  <2>1. Moved(0, c) /\ SpentKept(c) BY <1>1, <1>3 DEF ChainInv
  <2> QED BY <1>1, <2>1, KeepsSpent
<1>10. ChoiceWaits(c)'
  <2>1. ASSUME NEW i \in DOMAIN queue', Awaits(queue'[i], c, {"withdrawal", "rollback"})
        PROVE  /\ Off(record'[c])
               /\ \A j \in DOMAIN queue' : j >= i => Shut(queue'[j].data[c], preference'[c])
    <3>1. Off(record'[c]) /\ \A j \in DOMAIN queue' : j >= i => j = n BY <1>4, <2>1
    <3>2. Shut(Stored(record'[c]), preference'[c])
      BY <3>1, StoredNext DEF Off, Shut
    <3> QED BY <1>5, <3>1, <3>2
  <2>2. ASSUME NEW i \in DOMAIN queue', Awaits(queue'[i], c, {"opt-in"})
        PROVE  /\ record'[c] # None /\ record'[c].consentPending
               /\ \A j \in DOMAIN queue' : j >= i =>
                     /\ Kept(queue'[j].data[c], preference'[c])
                     /\ Awaits(queue'[j], c, {"opt-in"}) => i = j
    <3>1. i = n /\ what = "opt-in" /\ \A j \in DOMAIN queue' : j >= i => j = n
      BY <1>4, <2>2
    <3>2. Kept(Stored(record'[c]), preference'[c])
      BY <3>1, StoredNext DEF Kept
    <3> QED BY <1>5, <3>1, <3>2
  <2> QED BY <2>1, <2>2 DEF ChoiceWaits
<1>11. FlightWaits(c)'
  <2>1. ASSUME NEW i \in DOMAIN queue', NEW choice \in SUBSET {"escalation", "result"}
        PROVE  ~Awaits(queue'[i], c, choice)
    BY <1>4, <2>1
  <2> QED BY <2>1 DEF FlightWaits
<1>12. ChainInv(c)' BY <1>6, <1>7, <1>8, <1>9, <1>10, <1>11 DEF ChainInv
<1>13. NothingRuns' BY DEF NothingRuns
<1>14. \A d \in Chain \ {c} :
          /\ NotFor(0, d, {"withdrawal", "rollback", "opt-in"})
          /\ NotFor(0, d, {"escalation", "result"})
  BY <1>3
<1> QED BY <1>3, <1>12, <1>13, <1>14, Compose

-----------------------------------------------------------------------------
(* Preferences and choices. *)

LEMMA EffectiveAllowed ==
    ASSUME NEW c \in Chain, NEW r, r.effective = Preferred(r)
    PROVE  AllowedTuple(c, r, r.effective)
BY DEF AllowedTuple, Allowed

\* The record of a preference, which nothing has been made of.
LEMMA NewRecordFits ==
    ASSUME NEW c \in Chain, NEW p \in Preference
    PROVE  /\ DOMAIN NewRecord(p).effective = Capabilities(NewRecord(p))
           /\ NewRecord(p).effective = Preferred(NewRecord(p))
BY NewRecordType DEF Capabilities, Preferred

LEMMA PreferencesChangedStep ==
    ASSUME HealthInv, NEW c \in Chain, PreferencesChanged(c)
    PROVE  HealthInv'
<1>1. /\ TypeOK /\ NothingRuns /\ ChainInv(c)
      /\ closed' = closed \ {c} /\ denied' = denied \ {c} /\ spent' = spent
      /\ disk' = disk /\ initialized' = initialized
  BY DEF HealthInv, PreferencesChanged
<1>2. PICK p \in Preferences[c] \cup {None} :
         /\ p # preference[c]
         /\ preference' = [preference EXCEPT ![c] = p]
         /\ IF initialized
            THEN /\ record' = [record EXCEPT ![c] = IF p = None THEN None ELSE NewRecord(p)]
                 /\ Fence(c)
                 /\ queue' = Persist(Fenced(queue, c), record', "nobody", c)
            ELSE UNCHANGED coordinator
  BY Zenon DEF PreferencesChanged
<1>3. p \in Preference \cup {None} BY HealthAssumption
<1>4. /\ preference \in [Chain -> Preference \cup {None}]
      /\ closed \subseteq Chain /\ denied \subseteq Chain /\ spent \subseteq Chain
      /\ asked \subseteq [chain : Chain, reason : Reason]
      /\ disk \in [Chain -> StoredRecord \cup {None}]
      /\ queue \in Seq(Write)
  BY <1>1 DEF TypeOK
<1>5. /\ preference' \in [Chain -> Preference \cup {None}] /\ preference'[c] = p
      /\ \A d \in Chain \ {c} : preference'[d] = preference[d]
  BY <1>2, <1>3, <1>4
<1>6. CASE initialized
  <2> DEFINE r == IF p = None THEN None ELSE NewRecord(p)
  <2>1. /\ record' = [record EXCEPT ![c] = r]
        /\ flight' = [flight EXCEPT ![c] = None] /\ asked' = {x \in asked : x.chain # c}
        /\ queue' = Persist(Fenced(queue, c), record', "nobody", c)
    BY <1>2, <1>6 DEF Fence
  <2>2. /\ r \in Record \cup {None} /\ (r = None <=> p = None)
        /\ r # None => /\ r.preference = p /\ DOMAIN r.effective = Capabilities(r)
                       /\ r.effective = Preferred(r) /\ r.publicFallback = ~p.manual
                       /\ r.consentPending = FALSE /\ r.status = "unknown"
                       /\ r.connectRecoveryAvailable = FALSE
    <3>1. CASE p = None BY <3>1
    <3>2. CASE p # None
      <4>1. p \in Preference BY <1>3, <3>2
      <4> QED BY <3>2, <4>1, NewRecordType, NewRecordFits, HealthAssumption
    <3> QED BY <3>1, <3>2
  <2> HIDE DEF r
  <2>3. Storable' /\ record'[c] = r /\ \A d \in Chain \ {c} : record'[d] = record[d]
    BY <1>1, <2>1, <2>2, RecordSet
  <2>4. queue' \in Seq(Write)
    BY <1>1, <1>6, <2>1, <2>3, PersistedAnew DEF Awaited
  <2>5. TypeOK'
    <3>1. asked' \subseteq [chain : Chain, reason : Reason] BY <1>4, <2>1
    <3>2. closed' \subseteq Chain /\ denied' \subseteq Chain /\ spent' \subseteq Chain BY <1>1, <1>4
    <3>3. disk' \in [Chain -> StoredRecord \cup {None}] BY <1>1, <1>4
    <3>4. r # None <=> (initialized /\ preference'[c] # None) BY <1>5, <1>6, <2>2
    <3>5. r # None => /\ r.preference = preference'[c]
                      /\ DOMAIN r.effective = Capabilities(r)
                      /\ ~(r.publicFallback /\ r.consentPending)
      BY <1>5, <2>2
    <3> QED BY <1>1, <1>5, <2>1, <2>2, <2>4, <3>1, <3>2, <3>3, <3>4, <3>5, SetTypes
  <2>6. record'[c] # None =>
           /\ AllowedTuple(c, record'[c], record'[c].effective)
           /\ Truthful(record'[c], record'[c].status)
           /\ ~record'[c].connectRecoveryAvailable
           /\ ~(record'[c].preference.manual /\ record'[c].publicFallback)
    <3>1. r # None => AllowedTuple(c, r, r.effective) BY <2>2, EffectiveAllowed
    <3>2. r # None => Truthful(r, r.status) BY <2>2 DEF Truthful
    <3>3. r # None => ~(r.preference.manual /\ r.publicFallback) BY <2>2
    <3> QED BY <2>2, <2>3, <3>1, <3>2, <3>3
  <2>7. flight'[c] = None /\ \A d \in Chain \ {c} : flight'[d] = flight[d]
    BY <1>1, <2>1 DEF TypeOK
  <2>8. /\ c \notin closed'
        /\ \A d \in Chain \ {c} : d \in closed' => StaysClosed(d)
    BY <1>1 DEF StaysClosed
  <2> QED BY <1>1, <1>5, <1>6, <2>1, <2>3, <2>5, <2>6, <2>7, <2>8, Anew
<1>7. CASE ~initialized
  <2>1. /\ record' = record /\ flight' = flight /\ asked' = asked /\ queue' = queue
        /\ record[c] = None /\ flight[c] = None /\ queue = <<>>
    BY <1>1, <1>2, <1>7, TypesOf DEF coordinator, NothingRuns
  <2>2. TypeOK'
    BY <1>1, <1>4, <1>5, <1>7, <2>1 DEF TypeOK
  <2>3. /\ \A d \in Chain : Moved(0, d)
        /\ \A d \in Chain : \A choice : NotFor(0, d, choice)
    BY <1>1, <2>1, Unmoved
  <2>4. NothingRuns' BY <1>1, <2>1 DEF NothingRuns
  <2>5. ChainInv(c)'
    <3>1. SpentKept(c)'
      <4>1. Moved(0, c) /\ SpentKept(c) BY <1>1, <2>3 DEF ChainInv
      <4> QED BY <1>1, <2>1, <2>2, <4>1, KeepsSpent
    <3>2. DOMAIN queue' = {} BY <2>1
    <3> QED BY <1>1, <2>1, <3>1, <3>2
         DEF ChainInv, UsesAllowed, ConsentKept, ClosedKept, ChoiceWaits, FlightWaits
  <2>6. \A d \in Chain \ {c} :
           /\ NotFor(0, d, {"withdrawal", "rollback", "opt-in"})
           /\ NotFor(0, d, {"escalation", "result"})
    BY <2>3, Zenon
  <2>7. \A d \in Chain \ {c} : d \in closed' => StaysClosed(d) BY <1>1 DEF StaysClosed
  <2> QED BY <1>1, <1>5, <2>1, <2>2, <2>3, <2>4, <2>5, <2>6, <2>7, Compose
<1> QED BY <1>6, <1>7

LEMMA WithdrawStep ==
    ASSUME HealthInv, NEW c \in Chain, Withdraw(c)
    PROVE  HealthInv'
<1>1. /\ TypeOK /\ NothingRuns /\ ChainInv(c) /\ initialized /\ record[c] # None
      /\ preference' = preference /\ disk' = disk /\ initialized' = initialized
      /\ closed' = closed /\ denied' = denied \ {c} /\ spent' = spent
      /\ record' = [record EXCEPT ![c] =
                      [NewRecord(record[c].preference) EXCEPT !.publicFallback = FALSE]]
      /\ flight' = [flight EXCEPT ![c] = None] /\ asked' = {x \in asked : x.chain # c}
      /\ queue' = Persist(Fenced(queue, c), record', "withdrawal", c)
  BY DEF HealthInv, Withdraw, CanSet, Fence
<1>2. /\ preference \in [Chain -> Preference \cup {None}]
      /\ closed \subseteq Chain /\ denied \subseteq Chain /\ spent \subseteq Chain
      /\ asked \subseteq [chain : Chain, reason : Reason]
      /\ disk \in [Chain -> StoredRecord \cup {None}]
  BY <1>1 DEF TypeOK
<1>3. record[c].preference = preference[c] /\ preference[c] \in Preference
  BY <1>1, TypesOf
<1> DEFINE old == NewRecord(preference[c])
           r == [old EXCEPT !.publicFallback = FALSE]
<1>4. /\ r \in Record /\ r.preference = preference[c] /\ r.effective = Preferred(r)
      /\ DOMAIN r.effective = Capabilities(r)
      /\ r.publicFallback = FALSE /\ r.consentPending = FALSE
      /\ r.status = "unknown" /\ r.connectRecoveryAvailable = FALSE
  <2>1. /\ old \in Record /\ old.preference = preference[c]
        /\ old.effective = preference[c].endpoints
        /\ old.consentPending = FALSE /\ old.status = "unknown"
        /\ old.connectRecoveryAvailable = FALSE
    BY <1>3, NewRecordType
  <2> HIDE DEF old, Tuple, Preference
  <2>2. /\ r \in Record /\ r.preference = preference[c]
        /\ r.effective = preference[c].endpoints
        /\ r.publicFallback = FALSE /\ r.consentPending = FALSE
        /\ r.status = "unknown" /\ r.connectRecoveryAvailable = FALSE
    BY <2>1 DEF Record
  <2> QED BY <2>2 DEF Preferred, Capabilities
<1>5. record' = [record EXCEPT ![c] = r] BY <1>1, <1>3
<1> HIDE DEF r, old
<1>6. r # None BY <1>4, HealthAssumption
<1>7. Storable' /\ record'[c] = r /\ \A d \in Chain \ {c} : record'[d] = record[d]
  BY <1>1, <1>4, <1>5, RecordSet
<1>8. queue' \in Seq(Write) BY <1>1, <1>7, PersistedAnew DEF Awaited
<1>9. TypeOK'
  <2>1. asked' \subseteq [chain : Chain, reason : Reason] BY <1>1, <1>2
  <2>2. r # None <=> (initialized /\ preference'[c] # None) BY <1>1, <1>3, <1>6, HealthAssumption
  <2>3. ~(r.publicFallback /\ r.consentPending) BY <1>4
  <2> QED BY <1>1, <1>2, <1>4, <1>5, <1>8, <2>1, <2>2, <2>3, SetTypes
<1>10. /\ AllowedTuple(c, r, r.effective) /\ Truthful(r, r.status)
       /\ ~r.connectRecoveryAvailable /\ ~(r.preference.manual /\ r.publicFallback)
       /\ Off(r)
  BY <1>4, <1>6, EffectiveAllowed DEF Truthful, Off
<1>11. flight'[c] = None /\ \A d \in Chain \ {c} : flight'[d] = flight[d]
  BY <1>1 DEF TypeOK
<1>12. c \notin closed
  <2>1. ~Off(record[c])
    <3>1. record[c].publicFallback \in BOOLEAN BY <1>1, TypesOf DEF Record
    <3>2. record[c].publicFallback # FALSE \/ record[c].consentPending
      BY DEF Withdraw, CanSet
    <3> QED BY <3>1, <3>2 DEF Off
  <2> QED BY <1>1, <2>1 DEF ChainInv, ClosedKept
<1>13. \A d \in Chain \ {c} : d \in closed' => StaysClosed(d) BY <1>1 DEF StaysClosed
<1> QED BY <1>1, <1>7, <1>9, <1>10, <1>11, <1>12, <1>13, Anew

LEMMA OptInStep ==
    ASSUME HealthInv, NEW c \in Chain, OptIn(c)
    PROVE  HealthInv'
<1>1. /\ TypeOK /\ NothingRuns /\ ChainInv(c) /\ initialized /\ record[c] # None
      /\ record[c].publicFallback # TRUE \/ record[c].consentPending
      /\ preference' = preference /\ disk' = disk /\ initialized' = initialized
      /\ closed' = closed \ {c} /\ denied' = denied \ {c} /\ spent' = spent
      /\ flight' = [flight EXCEPT ![c] = None] /\ asked' = {x \in asked : x.chain # c}
      /\ queue' = Persist(Fenced(queue, c), record', "opt-in", c)
  BY DEF HealthInv, OptIn, CanSet, Fence
<1>2. /\ preference \in [Chain -> Preference \cup {None}]
      /\ closed \subseteq Chain /\ denied \subseteq Chain /\ spent \subseteq Chain
      /\ asked \subseteq [chain : Chain, reason : Reason]
      /\ disk \in [Chain -> StoredRecord \cup {None}]
  BY <1>1 DEF TypeOK
<1>3. /\ record[c] \in Record /\ record[c].preference = preference[c]
      /\ preference[c] \in Preference
      /\ DOMAIN record[c].effective = Capabilities(record[c])
      /\ record[c].publicFallback = FALSE
  <2>1. /\ record[c] \in Record /\ record[c].preference = preference[c]
        /\ DOMAIN record[c].effective = Capabilities(record[c])
        /\ ~(record[c].publicFallback /\ record[c].consentPending)
    BY <1>1, TypesOf
  <2>2. record[c].publicFallback \in BOOLEAN BY <2>1 DEF Record
  <2> QED BY <1>1, <2>1, <2>2, TypesOf
<1> DEFINE old == record[c]
           r == [old EXCEPT !.consentPending = TRUE, !.connectRecoveryAvailable = FALSE]
<1>4. record' = [record EXCEPT ![c] = r]
  <2>1. record \in [Chain -> Record \cup {None}] BY <1>1 DEF TypeOK
  <2> QED BY <2>1 DEF OptIn
<1>5. AllowedTuple(c, old, old.effective) /\ Truthful(old, old.status)
  BY <1>1 DEF ChainInv, UsesAllowed
<1>6. /\ r \in Record /\ r.preference = preference[c]
      /\ r.effective = old.effective /\ r.status = old.status
      /\ r.publicFallback = old.publicFallback /\ r.consentPending = TRUE
      /\ r.connectRecoveryAvailable = FALSE
  <2>1. old \in Record /\ old.preference = preference[c] BY <1>3
  <2> HIDE DEF old, Tuple, Preference
  <2> QED BY <2>1 DEF Record
<1>7. Preferred(r) = Preferred(old) /\ Capabilities(r) = Capabilities(old)
  BY <1>3, <1>6 DEF Preferred, Capabilities
<1>8. /\ DOMAIN r.effective = Capabilities(r) /\ r.publicFallback = FALSE
      /\ AllowedTuple(c, r, r.effective) /\ Truthful(r, r.status)
  BY <1>3, <1>5, <1>6, <1>7 DEF AllowedTuple, Truthful
<1> HIDE DEF r, old
<1>9. r # None BY <1>6, HealthAssumption
<1>10. Storable' /\ record'[c] = r /\ \A d \in Chain \ {c} : record'[d] = record[d]
  BY <1>1, <1>4, <1>6, <1>8, RecordSet
<1>11. queue' \in Seq(Write) BY <1>1, <1>10, PersistedAnew DEF Awaited
<1>12. TypeOK'
  <2>1. asked' \subseteq [chain : Chain, reason : Reason] BY <1>1, <1>2
  <2>2. r # None <=> (initialized /\ preference'[c] # None) BY <1>1, <1>3, <1>9, HealthAssumption
  <2>3. ~(r.publicFallback /\ r.consentPending) BY <1>8
  <2>4. closed' \subseteq Chain /\ denied' \subseteq Chain BY <1>1, <1>2
  <2> QED BY <1>1, <1>2, <1>4, <1>6, <1>8, <1>11, <2>1, <2>2, <2>3, <2>4, SetTypes
<1>13. flight'[c] = None /\ \A d \in Chain \ {c} : flight'[d] = flight[d]
  BY <1>1 DEF TypeOK
<1>14. /\ c \notin closed'
       /\ \A d \in Chain \ {c} : d \in closed' => StaysClosed(d)
  BY <1>1 DEF StaysClosed
<1> QED BY <1>1, <1>6, <1>8, <1>9, <1>10, <1>12, <1>13, <1>14, Anew

-----------------------------------------------------------------------------
(* Steps of a check. *)

\* The choices of c are as they were, and the record is no worse.
SameChoices(c) ==
    /\ preference' = preference
    /\ closed' = closed /\ denied' = denied
    /\ record'[c] # None <=> record[c] # None
    /\ record[c] # None =>
          /\ record'[c].preference = record[c].preference
          /\ record'[c].publicFallback = record[c].publicFallback
          /\ record'[c].consentPending = record[c].consentPending
    /\ c \in spent' =>
          /\ c \in spent
          /\ (record'[c] # None /\ record'[c].connectRecoveryAvailable)
                => record[c].connectRecoveryAvailable

LEMMA KeepsChoices ==
    ASSUME TypeOK, TypeOK', NEW c \in Chain, ChainInv(c), SameChoices(c),
           NEW k, Moved(k, c), NotFor(k, c, {"withdrawal", "rollback", "opt-in"})
    PROVE  ConsentKept(c)' /\ ClosedKept(c)' /\ SpentKept(c)' /\ ChoiceWaits(c)'
<1>1. preference'[c] = preference[c] /\ closed' = closed /\ denied' = denied BY DEF SameChoices
<1>2. ConsentKept(c)'
  <2>1. (record'[c] # None /\ record'[c].preference.manual /\ record'[c].publicFallback)
            => /\ record[c] # None /\ record[c].preference.manual /\ record[c].publicFallback
               /\ preference'[c] = preference[c]
    BY <1>1 DEF SameChoices
  <2>2. ConsentKept(c) BY DEF ChainInv
  <2> QED BY <2>1, <2>2, KeepsConsent
<1>3. Off(record[c]) => Off(record'[c]) BY DEF SameChoices, Off
<1>4. ClosedKept(c)'
  <2>1. ClosedKept(c) BY DEF ChainInv
  <2>2. c \in closed' => /\ StaysClosed(c) /\ preference'[c] = preference[c]
                         /\ record'[c] # None => Off(record'[c])
    BY <1>1, <1>3, <2>1 DEF ClosedKept, SameChoices, StaysClosed
  <2> QED BY <2>1, <2>2, KeepsClosed
<1>5. SpentKept(c)'
  <2>1. SpentKept(c) BY DEF ChainInv
  <2>2. c \in spent' => /\ c \in spent
                        /\ record'[c] # None => ~record'[c].connectRecoveryAvailable
    BY <2>1 DEF SpentKept, SameChoices
  <2> QED BY <2>1, <2>2, KeepsSpent
<1>6. ChoiceWaits(c)'
  <2>1. ChoiceWaits(c) BY DEF ChainInv
  <2>2. record[c] # None => record'[c] # None /\ preference'[c] = preference[c]
    BY <1>1 DEF SameChoices
  <2>3. (record[c] # None /\ record[c].consentPending) => record'[c].consentPending
    BY DEF SameChoices
  <2> QED BY <1>3, <2>1, <2>2, <2>3, KeepsChoice
<1> QED BY <1>2, <1>4, <1>5, <1>6

\* A step about c that does not touch the store.
LEMMA Quiet ==
    ASSUME HealthInv, TypeOK', NEW c \in Chain, SameChoices(c), initialized',
           queue' = queue, disk' = disk, spent' \subseteq spent,
           UsesAllowed(c)', FlightWaits(c)',
           \A d \in Chain \ {c} : record'[d] = record[d] /\ flight'[d] = flight[d]
    PROVE  HealthInv'
<1>1. TypeOK /\ ChainInv(c) BY DEF HealthInv
<1>2. /\ \A d \in Chain : Moved(0, d)
      /\ \A d \in Chain : \A choice : NotFor(0, d, choice)
  BY <1>1, Unmoved
<1>3. ConsentKept(c)' /\ ClosedKept(c)' /\ SpentKept(c)' /\ ChoiceWaits(c)'
  <2>1. Moved(0, c) /\ NotFor(0, c, {"withdrawal", "rollback", "opt-in"}) BY <1>2
  <2> QED BY <1>1, <2>1, KeepsChoices
<1>4. ChainInv(c)' BY <1>3 DEF ChainInv
<1>5. NothingRuns' BY DEF NothingRuns
<1>6. preference' = preference /\ closed' = closed /\ denied' = denied BY DEF SameChoices
<1>7. \A d \in Chain \ {c} :
         /\ NotFor(0, d, {"withdrawal", "rollback", "opt-in"})
         /\ NotFor(0, d, {"escalation", "result"})
         /\ preference'[d] = preference[d] /\ record'[d] = record[d]
         /\ flight'[d] = flight[d]
         /\ d \in closed' => StaysClosed(d)
         /\ d \in spent' => d \in spent
  BY <1>2, <1>6 DEF StaysClosed
<1> QED BY <1>2, <1>4, <1>5, <1>7, Compose

\* A step in which the flight of c asks for a write and awaits it.
LEMMA Asks ==
    ASSUME HealthInv, TypeOK', NEW c \in Chain, SameChoices(c), initialized',
           NEW what \in {"escalation", "result"},
           queue' = Persist(queue, record', what, c), disk' = disk, spent' \subseteq spent,
           UsesAllowed(c)', Unawaited(c), flight'[c] # None,
           what = "escalation" => /\ flight'[c].phase = "consuming"
                                  /\ ~record'[c].connectRecoveryAvailable,
           what = "result" => flight'[c].phase = "persisting",
           \A d \in Chain \ {c} : record'[d] = record[d] /\ flight'[d] = flight[d]
    PROVE  HealthInv'
<1> DEFINE n == Len(queue) + 1
<1>1. TypeOK /\ ChainInv(c) BY DEF HealthInv
<1>2. Storable' /\ what \in Awaited BY DEF TypeOK, Storable, StorableIn, Awaited
<1>3. /\ \A d \in Chain : Moved(0, d)
      /\ \A d \in Chain : \A choice : what \notin choice \/ d # c => NotFor(0, d, choice)
      /\ DOMAIN queue = 1 .. Len(queue) /\ DOMAIN queue' = 1 .. n
      /\ Len(queue) \in Nat
      /\ \A i \in DOMAIN queue : queue'[i] = queue[i]
      /\ queue'[n].for = what /\ queue'[n].chain = c /\ queue'[n].current = TRUE
      /\ \A d \in Chain : queue'[n].data[d] = Stored(record'[d])
  BY <1>1, <1>2, Persisted
<1>4. ConsentKept(c)' /\ ClosedKept(c)' /\ SpentKept(c)' /\ ChoiceWaits(c)'
  <2>1. Moved(0, c) /\ NotFor(0, c, {"withdrawal", "rollback", "opt-in"}) BY <1>3
  <2> QED BY <1>1, <2>1, KeepsChoices
<1>5. ASSUME NEW i \in DOMAIN queue',
             NEW choice \in SUBSET {"escalation", "result"}, Awaits(queue'[i], c, choice)
      PROVE  i = n /\ what \in choice /\ \A j \in DOMAIN queue' : j >= i => j = n
  <2>1. i \in DOMAIN queue \/ i = n BY <1>3
  <2>2. CASE i \in DOMAIN queue
    <3>1. Awaits(queue[i], c, {"escalation", "result"}) BY <1>3, <1>5, <2>2 DEF Awaits
    <3> QED BY <2>2, <3>1 DEF Unawaited
  <2>3. CASE i = n
    <3>1. what \in choice BY <2>3, <1>3, <1>5 DEF Awaits
    <3>2. ASSUME NEW j \in DOMAIN queue', j >= i PROVE j = n BY <2>3, <3>2, <1>3
    <3> QED BY <2>3, <3>1, <3>2
  <2> QED BY <2>1, <2>2, <2>3
<1>6. queue'[n].data[c] = Stored(record'[c]) BY <1>3
<1> HIDE DEF n
<1>7. FlightWaits(c)'
  <2>1. ASSUME NEW i \in DOMAIN queue', Awaits(queue'[i], c, {"escalation", "result"})
        PROVE  \A j \in DOMAIN queue' : Awaits(queue'[j], c, {"escalation", "result"}) => i = j
    BY <1>5, <2>1
  <2>2. ASSUME NEW i \in DOMAIN queue', Awaits(queue'[i], c, {"escalation"})
        PROVE  /\ flight'[c].phase = "consuming" /\ ~record'[c].connectRecoveryAvailable
               /\ \A j \in DOMAIN queue' : j >= i =>
                     /\ queue'[j].data[c] # None
                     /\ ~queue'[j].data[c].connectRecoveryAvailable
    <3>1. what = "escalation" /\ \A j \in DOMAIN queue' : j >= i => j = n BY <1>5, <2>2
    <3>2. record'[c] # None BY DEF TypeOK
    <3>3. /\ Stored(record'[c]) # None
          /\ ~Stored(record'[c]).connectRecoveryAvailable
      BY <3>1, <3>2, StoredNext
    <3> QED BY <1>6, <3>1, <3>3
  <2>3. ASSUME NEW i \in DOMAIN queue', Awaits(queue'[i], c, {"result"})
        PROVE  flight'[c].phase = "persisting"
    BY <1>5, <2>3
  <2> QED BY <2>1, <2>2, <2>3 DEF FlightWaits
<1>8. ChainInv(c)' BY <1>4, <1>7 DEF ChainInv
<1>9. NothingRuns' BY DEF NothingRuns
<1>10. preference' = preference /\ closed' = closed /\ denied' = denied BY DEF SameChoices
<1>11. \A d \in Chain \ {c} :
          /\ NotFor(0, d, {"withdrawal", "rollback", "opt-in"})
          /\ NotFor(0, d, {"escalation", "result"})
          /\ preference'[d] = preference[d] /\ record'[d] = record[d]
          /\ flight'[d] = flight[d]
          /\ d \in closed' => StaysClosed(d)
          /\ d \in spent' => d \in spent
  BY <1>3, <1>10 DEF StaysClosed
<1> QED BY <1>3, <1>8, <1>9, <1>11, Compose

\* A step of a check of c makes its record r and its flight f.
Becomes(c, r, f) ==
    /\ record' = [record EXCEPT ![c] = r]
    /\ flight' = [flight EXCEPT ![c] = f]
    /\ preference' = preference /\ closed' = closed /\ denied' = denied /\ spent' \subseteq spent
    /\ initialized' = initialized /\ disk' = disk
    /\ asked' \subseteq [chain : Chain, reason : Reason]

Writes(c, what) == queue' = queue \/ queue' = Persist(queue, record', what, c)

\* The record r has the choices of that of c.
Chosen(c, r) ==
    /\ r.preference = record[c].preference /\ r.publicFallback = record[c].publicFallback
    /\ r.consentPending = record[c].consentPending
    /\ DOMAIN r.effective = Capabilities(r)
    /\ c \in spent' /\ r.connectRecoveryAvailable => record[c].connectRecoveryAvailable

LEMMA Flown ==
    ASSUME TypeOK, NEW c \in Chain, record[c] # None,
           NEW r \in Record, NEW f \in FlightRecord \cup {None}, Becomes(c, r, f),
           NEW what \in Awaited, Writes(c, what), Chosen(c, r),
           f # None => ~record[c].consentPending
    PROVE  /\ TypeOK' /\ SameChoices(c) /\ initialized'
           /\ record'[c] = r /\ r # None /\ flight'[c] = f
           /\ \A d \in Chain \ {c} : record'[d] = record[d] /\ flight'[d] = flight[d]
<1> USE DEF Becomes, Writes, Chosen
<1>1. /\ preference \in [Chain -> Preference \cup {None}]
      /\ closed \subseteq Chain /\ denied \subseteq Chain /\ spent \subseteq Chain
      /\ disk \in [Chain -> StoredRecord \cup {None}]
      /\ flight \in [Chain -> FlightRecord \cup {None}]
      /\ queue \in Seq(Write)
  BY DEF TypeOK
<1>2. /\ initialized /\ preference[c] # None /\ record[c].preference = preference[c]
      /\ ~(record[c].publicFallback /\ record[c].consentPending)
  BY TypesOf
<1>3. r # None BY HealthAssumption
<1>4. Storable' /\ record'[c] = r /\ \A d \in Chain \ {c} : record'[d] = record[d]
  BY RecordSet
<1>5. queue' \in Seq(Write)
  <2>1. CASE queue' = queue BY <1>1, <2>1
  <2>2. CASE queue' = Persist(queue, record', what, c)
    BY <1>2, <1>4, <2>2, Persisted
  <2> QED BY <2>1, <2>2
<1>6. TypeOK'
  <2>1. spent' \subseteq Chain /\ closed' \subseteq Chain /\ denied' \subseteq Chain BY <1>1
  <2>2. r # None <=> (initialized /\ preference'[c] # None) BY <1>2, <1>3
  <2>3. r.preference = preference'[c] /\ ~(r.publicFallback /\ r.consentPending) BY <1>2
  <2>4. disk' \in [Chain -> StoredRecord \cup {None}] BY <1>1
  <2>5. preference' \in [Chain -> Preference \cup {None}] BY <1>1
  <2>6. f # None => r # None /\ ~r.consentPending BY <1>3
  <2> QED BY <1>5, <2>1, <2>2, <2>3, <2>4, <2>5, <2>6, SetTypes
<1>7. SameChoices(c) BY <1>3, <1>4 DEF SameChoices
<1>8. flight'[c] = f /\ \A d \in Chain \ {c} : flight'[d] = flight[d] BY <1>1
<1> QED BY <1>2, <1>3, <1>4, <1>6, <1>7, <1>8

LEMMA JoinStep ==
    ASSUME HealthInv, NEW c \in Chain, NEW reason \in Reason, record[c] # None,
           flight[c] # None, Join(c, reason),
           preference' = preference, closed' = closed /\ denied' = denied, spent' = spent,
           initialized' = initialized, disk' = disk,
           asked' \subseteq [chain : Chain, reason : Reason]
    PROVE  HealthInv'
<1>1. TypeOK /\ ChainInv(c) BY DEF HealthInv
<1>2. /\ record[c] \in Record /\ DOMAIN record[c].effective = Capabilities(record[c])
      /\ flight[c] \in FlightRecord /\ ~record[c].consentPending
  BY <1>1, TypesOf
<1> DEFINE g == flight[c]
           f == IF g.phase = "persisting" THEN [g EXCEPT !.followup = reason]
                                          ELSE [g EXCEPT !.immediateRecovery = TRUE]
<1>3. flight' = [flight EXCEPT ![c] = f] /\ record' = record /\ queue' = queue
  BY DEF Join
<1>4. /\ f \in FlightRecord /\ f.phase = g.phase /\ f.selected = g.selected
      /\ f.profile = g.profile /\ f.previousStatus = g.previousStatus
  <2>1. g \in FlightRecord BY <1>2
  <2> HIDE DEF g, Tuple, Receipts
  <2>2. CASE g.phase = "persisting" BY <2>1, <2>2 DEF FlightRecord
  <2>3. CASE g.phase # "persisting" BY <2>1, <2>3 DEF FlightRecord
  <2> QED BY <2>2, <2>3
<1> HIDE DEF f
<1>5. record' = [record EXCEPT ![c] = record[c]]
  <2>1. record \in [Chain -> Record \cup {None}] BY <1>1 DEF TypeOK
  <2> QED BY <1>3, <2>1, Same
<1>6. /\ TypeOK' /\ SameChoices(c) /\ initialized'
      /\ record'[c] = record[c] /\ flight'[c] = f
      /\ \A d \in Chain \ {c} : record'[d] = record[d] /\ flight'[d] = flight[d]
  <2>1. "nobody" \in Awaited BY DEF Awaited
  <2>2. f \in FlightRecord \cup {None} BY <1>4
  <2>3. Becomes(c, record[c], f) /\ Writes(c, "nobody") BY <1>3, <1>5 DEF Becomes, Writes
  <2>4. Chosen(c, record[c]) BY <1>2 DEF Chosen
  <2> QED BY <1>1, <1>2, <2>1, <2>2, <2>3, <2>4, Flown
<1>7. UsesAllowed(c)'
  <2>1. UsesAllowed(c) BY <1>1 DEF ChainInv
  <2> QED BY <1>4, <1>6, <2>1 DEF UsesAllowed
<1>8. FlightWaits(c)'
  <2>1. FlightWaits(c) BY <1>1 DEF ChainInv
  <2>2. Moved(0, c) /\ NotFor(0, c, {"escalation", "result"}) BY <1>1, <1>3, Unmoved
  <2>3. flight'[c] # None BY <1>4, <1>6, HealthAssumption
  <2> QED BY <1>1, <1>4, <1>6, <2>1, <2>2, <2>3, KeepsFlight
<1> QED BY <1>3, <1>6, <1>7, <1>8, Quiet

LEMMA BeginStep ==
    ASSUME HealthInv, NEW c \in Chain, NEW reason \in Reason \cup {"automatic"},
           record[c] # None, ~record[c].consentPending, flight[c] = None, Begin(c, reason),
           preference' = preference, closed' = closed /\ denied' = denied, spent' = spent,
           initialized' = initialized, disk' = disk,
           asked' \subseteq [chain : Chain, reason : Reason]
    PROVE  HealthInv'
<1>1. /\ TypeOK /\ ChainInv(c) /\ UsesAllowed(c) /\ FlightWaits(c)
      /\ record \in [Chain -> Record \cup {None}]
  BY DEF HealthInv, ChainInv, TypeOK
<1>2. record[c] \in Record /\ DOMAIN record[c].effective = Capabilities(record[c])
  BY <1>1, TypesOf
<1>3. Unawaited(c) BY <1>1, NoneAwaited
<1>4. Flight(reason) \in FlightRecord BY FlightType
<1> DEFINE old == record[c]
<1>5. old \in Record BY <1>2
<1>6. AllowedTuple(c, old, old.effective) /\ Truthful(old, old.status)
  BY <1>1 DEF UsesAllowed
<1>7. CASE Escalates(c, reason)
  <2> DEFINE r == [old EXCEPT !.connectRecoveryAvailable = FALSE,
                              !.status = "checking", !.due = FALSE]
             f0 == Flight(reason)
             f == [f0 EXCEPT !.phase = "consuming", !.previousStatus = old.status]
  <2>1. /\ record' = [record EXCEPT ![c] = r] /\ flight' = [flight EXCEPT ![c] = f]
        /\ queue' = Persist(queue, record', "escalation", c)
    <3>1. record' = [record EXCEPT ![c].connectRecoveryAvailable = FALSE,
                                   ![c].status = "checking", ![c].due = FALSE]
      BY <1>7 DEF Begin
    <3>2. record' = [record EXCEPT ![c] = r] BY <1>1, <3>1
    <3> QED BY <1>7, <3>2 DEF Begin
  <2> HIDE DEF old, f0
  <2>2. /\ r \in Record /\ r.preference = old.preference
        /\ r.publicFallback = old.publicFallback /\ r.consentPending = old.consentPending
        /\ r.effective = old.effective /\ r.status = "checking"
        /\ r.connectRecoveryAvailable = FALSE
    <3> HIDE DEF Preference, Tuple
    <3> QED BY <1>5 DEF Record, Status
  <2>3. /\ f \in FlightRecord /\ f.phase = "consuming" /\ f.previousStatus = old.status
    <3>1. f0 \in FlightRecord BY <1>4 DEF f0
    <3>2. old.status \in Status BY <1>5 DEF Record
    <3> HIDE DEF Tuple, Receipts, Status
    <3> QED BY <3>1, <3>2 DEF FlightRecord
  <2> HIDE DEF r, f
  <2>4. Preferred(r) = Preferred(old) /\ Capabilities(r) = Capabilities(old)
    BY <2>2 DEF Preferred, Capabilities
  <2>5. /\ TypeOK' /\ SameChoices(c) /\ initialized'
        /\ record'[c] = r /\ flight'[c] = f
        /\ \A d \in Chain \ {c} : record'[d] = record[d] /\ flight'[d] = flight[d]
    <3>1. "escalation" \in Awaited BY DEF Awaited
    <3>2. f \in FlightRecord \cup {None} BY <2>3
    <3>3. DOMAIN r.effective = Capabilities(r) BY <1>2, <2>2, <2>4 DEF old
    <3>4. Becomes(c, r, f) /\ Writes(c, "escalation") BY <2>1 DEF Becomes, Writes
    <3>5. Chosen(c, r) BY <2>2, <3>3 DEF Chosen, old
    <3> QED BY <1>1, <2>2, <3>1, <3>2, <3>4, <3>5, Flown
  <2>6. UsesAllowed(c)'
    <3>1. AllowedTuple(c, r, r.effective) /\ Truthful(r, r.status)
      BY <1>6, <2>2, <2>4 DEF AllowedTuple, Truthful
    <3>2. Truthful(r, f.previousStatus) BY <1>6, <2>2, <2>3, <2>4 DEF Truthful
    <3> QED BY <2>3, <2>5, <3>1, <3>2 DEF UsesAllowed
  <2>7. flight'[c] # None BY <2>3, <2>5, HealthAssumption
  <2> QED BY <1>3, <2>1, <2>2, <2>3, <2>5, <2>6, <2>7, Asks
<1>8. CASE ~Escalates(c, reason)
  <2> DEFINE r == [old EXCEPT !.status = "checking"]
             f == Flight(reason)
  <2>1. /\ record' = [record EXCEPT ![c] = r] /\ flight' = [flight EXCEPT ![c] = f]
        /\ queue' = queue
    BY <1>8 DEF Begin
  <2> HIDE DEF old
  <2>2. /\ r \in Record /\ r.preference = old.preference
        /\ r.publicFallback = old.publicFallback /\ r.consentPending = old.consentPending
        /\ r.effective = old.effective /\ r.status = "checking"
        /\ r.connectRecoveryAvailable = old.connectRecoveryAvailable
    <3> HIDE DEF Preference, Tuple
    <3> QED BY <1>5 DEF Record, Status
  <2>3. f \in FlightRecord /\ f.phase = "preferred"
    BY <1>4 DEF Flight
  <2> HIDE DEF r, f
  <2>4. Preferred(r) = Preferred(old) /\ Capabilities(r) = Capabilities(old)
    BY <2>2 DEF Preferred, Capabilities
  <2>5. /\ TypeOK' /\ SameChoices(c) /\ initialized'
        /\ record'[c] = r /\ flight'[c] = f
        /\ \A d \in Chain \ {c} : record'[d] = record[d] /\ flight'[d] = flight[d]
    <3>1. "nobody" \in Awaited BY DEF Awaited
    <3>2. f \in FlightRecord \cup {None} BY <2>3
    <3>3. DOMAIN r.effective = Capabilities(r) BY <1>2, <2>2, <2>4 DEF old
    <3>4. Becomes(c, r, f) /\ Writes(c, "nobody") BY <2>1 DEF Becomes, Writes
    <3>5. Chosen(c, r) BY <2>2, <3>3 DEF Chosen, old
    <3> QED BY <1>1, <2>2, <3>1, <3>2, <3>4, <3>5, Flown
  <2>6. UsesAllowed(c)'
    <3>1. AllowedTuple(c, r, r.effective) /\ Truthful(r, r.status)
      BY <1>6, <2>2, <2>4 DEF AllowedTuple, Truthful
    <3> QED BY <2>3, <2>5, <3>1 DEF UsesAllowed
  <2>7. FlightWaits(c)'
    <3>1. Moved(0, c) /\ NotFor(0, c, {"escalation", "result"})
      BY <1>1, <2>1, Unmoved
    <3> QED BY <1>3, <3>1, StaysUnawaited
  <2> QED BY <2>1, <2>5, <2>6, <2>7, Quiet
<1> QED BY <1>7, <1>8

LEMMA DoCheckStep ==
    ASSUME HealthInv, NEW c \in Chain, NEW reason \in Reason \cup {"automatic"},
           Checks(c, reason), DoCheck(c, reason),
           preference' = preference, closed' = closed /\ denied' = denied, spent' = spent,
           initialized' = initialized, disk' = disk,
           asked' \subseteq [chain : Chain, reason : Reason]
    PROVE  HealthInv'
<1>1. record[c] # None /\ ~record[c].consentPending BY DEF Checks
<1>2. CASE flight[c] # None
  <2>1. Join(c, reason) BY <1>2 DEF DoCheck
  <2>2. reason \in Reason BY <1>2 DEF Checks, Joins
  <2> QED BY <1>1, <1>2, <2>1, <2>2, JoinStep
<1>3. CASE flight[c] = None
  <2>1. Begin(c, reason) BY <1>3 DEF DoCheck
  <2> QED BY <1>1, <1>3, <2>1, BeginStep
<1> QED BY <1>2, <1>3

LEMMA CheckStep ==
    ASSUME HealthInv, NEW c \in Chain, NEW reason \in Reason \cup {"automatic"},
           Check(c, reason)
    PROVE  HealthInv'
<1>1. /\ Checks(c, reason) /\ DoCheck(c, reason)
      /\ preference' = preference /\ closed' = closed /\ denied' = denied /\ spent' = spent
      /\ initialized' = initialized /\ disk' = disk /\ asked' = asked
  BY DEF Check
<1>2. asked' \subseteq [chain : Chain, reason : Reason] BY <1>1 DEF HealthInv, TypeOK
<1> QED BY <1>1, <1>2, DoCheckStep

\* A step that leaves all but the requests that wait, of which it adds none.
LEMMA FollowUpStep ==
    ASSUME HealthInv, NEW x \in asked, FollowUp(x)
    PROVE  HealthInv'
<1>1. /\ TypeOK /\ NothingRuns /\ asked' = asked \ {x}
      /\ preference' = preference /\ closed' = closed /\ denied' = denied /\ spent' = spent
      /\ initialized' = initialized /\ disk' = disk
  BY DEF HealthInv, FollowUp
<1>2. asked \subseteq [chain : Chain, reason : Reason] BY <1>1 DEF TypeOK
<1>3. /\ x.chain \in Chain /\ x.reason \in Reason
      /\ asked' \subseteq [chain : Chain, reason : Reason]
  BY <1>1, <1>2
<1>4. CASE Checks(x.chain, x.reason)
  <2>1. DoCheck(x.chain, x.reason) BY <1>4 DEF FollowUp
  <2> QED BY <1>1, <1>3, <1>4, <2>1, DoCheckStep
<1>5. CASE ~Checks(x.chain, x.reason)
  <2>1. record' = record /\ flight' = flight /\ queue' = queue
    BY <1>5 DEF FollowUp
  <2>2. initialized BY <1>1 DEF NothingRuns
  <2>3. TypeOK' BY <1>1, <1>3, <2>1 DEF TypeOK
  <2>4. \A c \in Chain : ChainInv(c)'
    BY <1>1, <2>1 DEF HealthInv, ChainInv, UsesAllowed, ConsentKept, ClosedKept,
                      SpentKept, ChoiceWaits, FlightWaits
  <2>5. NothingRuns' BY <1>1, <2>2 DEF NothingRuns
  <2> QED BY <2>3, <2>4, <2>5 DEF HealthInv
<1> QED BY <1>4, <1>5

-----------------------------------------------------------------------------
(* Probes. *)

LEMMA ProbedType ==
    ASSUME NEW receipts \in Receipts, NEW tuple, NEW wanted,
           NEW new \in Probed(receipts, tuple, wanted)
    PROVE  new \in Receipts
<1> DEFINE asks == {x \in Capability \X Endpoint :
                       /\ x[1] \in wanted \cap DOMAIN tuple /\ x[2] = tuple[x[1]]
                       /\ receipts[x] = "unknown"}
           healthy == {x \in Capability \X Endpoint : receipts[x] = "healthy"}
<1> DEFINE Result(answer, expired) ==
             [x \in Capability \X Endpoint |->
                IF x \in asks THEN answer[x]
                ELSE IF x \in expired THEN "bad" ELSE receipts[x]]
<1>0. Probed(receipts, tuple, wanted) =
         {Result(answer, expired) : answer \in [asks -> Answer], expired \in SUBSET healthy}
  BY DEF Probed
<1> HIDE DEF asks, healthy, Result
<1>1. \E answer \in [asks -> Answer], expired \in SUBSET healthy :
         new = Result(answer, expired)
  BY <1>0
<1>2. PICK answer \in [asks -> Answer], expired \in SUBSET healthy :
         new = Result(answer, expired)
  BY <1>1, Zenon
<1>3. ASSUME NEW x \in Capability \X Endpoint
      PROVE  (IF x \in asks THEN answer[x]
              ELSE IF x \in expired THEN "bad" ELSE receipts[x]) \in Answer \cup {"unknown"}
  <2>1. receipts[x] \in Answer \cup {"unknown"} BY DEF Receipts
  <2>2. "bad" \in Answer BY DEF Answer
  <2> QED BY <2>1, <2>2
<1> QED BY <1>2, <1>3 DEF Receipts, Result

\* The counters say nothing of the endpoints.
LEMMA CountedType ==
    ASSUME NEW r \in Record, NEW receipts
    PROVE  LET new == Counted(r, receipts) IN
           /\ new \in Record
           /\ new.preference = r.preference /\ new.effective = r.effective
           /\ new.publicFallback = r.publicFallback
           /\ new.consentPending = r.consentPending
           /\ new.status = r.status
           /\ new.connectRecoveryAvailable = r.connectRecoveryAvailable
<1> DEFINE ok(k) == Healthy(receipts, k, Preferred(r)[k])
           Up(n, limit) == IF n < limit THEN n + 1 ELSE n
           After(k, n, isReset, limit) ==
              IF k \notin Capabilities(r) THEN n ELSE IF isReset THEN 0 ELSE Up(n, limit)
           failures == [k \in Capability |-> After(k, r.failures[k], ok(k), RecoverAfter)]
           successes == [k \in Capability |-> After(k, r.successes[k], ~ok(k), RestoreAfter)]
           new == [r EXCEPT !.failures = failures, !.successes = successes]
<1>1. ASSUME NEW limit \in Nat, NEW n \in 0 .. limit, NEW k, NEW isReset
      PROVE  After(k, n, isReset, limit) \in 0 .. limit
  BY <1>1
<1>2. /\ r.failures \in [Capability -> 0 .. RecoverAfter]
      /\ r.successes \in [Capability -> 0 .. RestoreAfter]
  BY DEF Record
<1> HIDE DEF After
<1>3. /\ failures \in [Capability -> 0 .. RecoverAfter]
      /\ successes \in [Capability -> 0 .. RestoreAfter]
  BY <1>1, <1>2, HealthAssumption
<1>4. Counted(r, receipts) = new BY DEF Counted, After
<1> HIDE DEF failures, successes
<1>5. /\ new \in Record
      /\ new.preference = r.preference /\ new.effective = r.effective
      /\ new.publicFallback = r.publicFallback
      /\ new.consentPending = r.consentPending
      /\ new.status = r.status
      /\ new.connectRecoveryAvailable = r.connectRecoveryAvailable
  BY <1>3 DEF Record
<1> HIDE DEF new
<1> QED BY <1>4, <1>5

\* Endpoints that replace those in use are the preferred ones.
LEMMA SelectedIs ==
    ASSUME NEW c \in Chain, NEW r \in Record, DOMAIN r.effective = Capabilities(r),
           AllowedTuple(c, r, r.effective), NEW receipts, NEW resided
    PROVE  LET new == Selected(r, receipts, resided) IN
           /\ new \in Tuple /\ DOMAIN new = Capabilities(r)
           /\ AllowedTuple(c, r, new)
<1> DEFINE new == Selected(r, receipts, resided)
<1>1. /\ DOMAIN new = Capabilities(r)
      /\ \A k \in Capabilities(r) : new[k] = Preferred(r)[k] \/ new[k] = r.effective[k]
  BY DEF Selected
<1>2. new = [k \in Capabilities(r) |-> new[k]] BY DEF Selected
<1> HIDE DEF new
<1>3. /\ Capabilities(r) \subseteq Capability
      /\ \A k \in Capabilities(r) : Preferred(r)[k] \in Endpoint
  BY PreferredIs
<1>4. r.effective \in Tuple BY DEF Record
<1>5. \A k \in Capabilities(r) : r.effective[k] \in Endpoint BY <1>4, TupleIs
<1>6. new \in [Capabilities(r) -> Endpoint] BY <1>1, <1>2, <1>3, <1>5
<1>7. new \in Tuple BY <1>3, <1>6, TupleMade
<1>8. AllowedTuple(c, r, new) BY <1>1 DEF AllowedTuple, Allowed
<1> QED BY <1>1, <1>7, <1>8 DEF new

\* A record that is that of c but for its counters.
Recounted(c, r) ==
    /\ r.preference = record[c].preference /\ r.effective = record[c].effective
    /\ r.publicFallback = record[c].publicFallback
    /\ r.consentPending = record[c].consentPending
    /\ r.status = record[c].status
    /\ r.connectRecoveryAvailable = record[c].connectRecoveryAvailable

\* A step of runCheck() that probes.
Probes(c) ==
    /\ flight[c] # None /\ flight[c].phase \notin {"consuming", "persisting"}
    /\ preference' = preference /\ closed' = closed /\ denied' = denied
    /\ initialized' = initialized /\ disk' = disk /\ asked' = asked

LEMMA ProbesIs ==
    ASSUME HealthInv, NEW c \in Chain, Probes(c)
    PROVE  /\ TypeOK /\ ChainInv(c) /\ Unawaited(c)
           /\ record[c] # None /\ record[c] \in Record /\ ~record[c].consentPending
           /\ flight[c] \in FlightRecord
           /\ DOMAIN record[c].effective = Capabilities(record[c])
           /\ AllowedTuple(c, record[c], record[c].effective)
           /\ Truthful(record[c], record[c].status)
           /\ asked' \subseteq [chain : Chain, reason : Reason]
<1>1. TypeOK /\ ChainInv(c) /\ UsesAllowed(c) /\ FlightWaits(c) BY DEF HealthInv, ChainInv
<1>2. /\ record[c] # None /\ record[c] \in Record /\ ~record[c].consentPending
      /\ flight[c] \in FlightRecord
      /\ DOMAIN record[c].effective = Capabilities(record[c])
  BY <1>1, TypesOf DEF Probes
<1>3. Unawaited(c) BY <1>1, NoneAwaited DEF Probes
<1>4. asked' \subseteq [chain : Chain, reason : Reason] BY <1>1 DEF Probes, TypeOK
<1> QED BY <1>1, <1>2, <1>3, <1>4 DEF UsesAllowed

LEMMA StatusIs ==
    ASSUME NEW r, NEW selected, NEW healthy
    PROVE  LET status == StatusOf(r, selected, healthy) IN
           /\ status \in Status
           /\ status = "healthy" => selected = Preferred(r)
           /\ status = "backup" => selected # Preferred(r)
BY DEF StatusOf, Status

LEMMA FinishStep ==
    ASSUME HealthInv, NEW c \in Chain, Probes(c), NEW r \in Record, Recounted(c, r),
           NEW g \in FlightRecord, DOMAIN g.selected = Capabilities(r),
           AllowedTuple(c, r, g.selected), Finish(c, g, r)
    PROVE  HealthInv'
<1>1. /\ TypeOK /\ Unawaited(c) /\ record[c] # None /\ ~record[c].consentPending
      /\ asked' \subseteq [chain : Chain, reason : Reason]
  BY ProbesIs
<1> DEFINE seen == {k \in Capabilities(r) : Healthy(g.receipts, k, g.selected[k])}
<1>2. PICK lag \in Lagging(seen) :
         LET chance == /\ ~g.immediateRecovery /\ g.profile = 0 /\ r.publicFallback
                       /\ seen \ lag # Capabilities(r) IN
         /\ record' = [record EXCEPT ![c] =
               [r EXCEPT !.effective = g.selected, !.due = FALSE,
                         !.status = StatusOf(r, g.selected, seen \ lag),
                         !.connectRecoveryAvailable = chance]]
         /\ flight' = [flight EXCEPT ![c] = [Flight("automatic") EXCEPT !.phase = "persisting"]]
         /\ queue' = Persist(queue, record', "result", c)
         /\ spent' = IF chance THEN spent \ {c} ELSE spent
  BY Zenon DEF Finish
<1> DEFINE chance == /\ ~g.immediateRecovery /\ g.profile = 0 /\ r.publicFallback
                     /\ seen \ lag # Capabilities(r)
           status == StatusOf(r, g.selected, seen \ lag)
           new == [r EXCEPT !.effective = g.selected, !.due = FALSE,
                            !.status = status, !.connectRecoveryAvailable = chance]
           f0 == Flight("automatic")
           f == [f0 EXCEPT !.phase = "persisting"]
<1>3. /\ record' = [record EXCEPT ![c] = new] /\ flight' = [flight EXCEPT ![c] = f]
      /\ queue' = Persist(queue, record', "result", c)
      /\ spent' = IF chance THEN spent \ {c} ELSE spent
  BY <1>2
<1>4. /\ status \in Status
      /\ status = "healthy" => g.selected = Preferred(r)
      /\ status = "backup" => g.selected # Preferred(r)
  BY StatusIs
<1>5. chance \in BOOLEAN OBVIOUS
<1>6. g.selected \in Tuple BY DEF FlightRecord
<1> HIDE DEF chance, status, seen, f0
<1>7. /\ new \in Record /\ new.preference = r.preference
      /\ new.publicFallback = r.publicFallback /\ new.consentPending = r.consentPending
      /\ new.effective = g.selected /\ new.status = status
      /\ new.connectRecoveryAvailable = chance
  <2> HIDE DEF Preference, Tuple, Status
  <2> QED BY <1>4, <1>5, <1>6 DEF Record
<1>8. f \in FlightRecord /\ f.phase = "persisting"
  <2>1. f0 \in FlightRecord BY FlightType DEF f0
  <2> HIDE DEF Tuple, Receipts, Status
  <2> QED BY <2>1 DEF FlightRecord
<1> HIDE DEF new, f
<1>9. Preferred(new) = Preferred(r) /\ Capabilities(new) = Capabilities(r)
  BY <1>7 DEF Preferred, Capabilities
<1>10. /\ TypeOK' /\ SameChoices(c) /\ initialized'
       /\ record'[c] = new /\ flight'[c] = f
       /\ \A d \in Chain \ {c} : record'[d] = record[d] /\ flight'[d] = flight[d]
  <2>1. "result" \in Awaited /\ f \in FlightRecord \cup {None} BY <1>8 DEF Awaited
  <2>2. Becomes(c, new, f) /\ Writes(c, "result")
    BY <1>1, <1>3 DEF Becomes, Writes, Probes
  <2>3. c \in spent' => ~chance BY <1>3
  <2>4. Chosen(c, new) BY <1>7, <1>9, <2>3 DEF Chosen, Recounted
  <2> QED BY <1>1, <1>7, <2>1, <2>2, <2>4, Flown
<1>11. UsesAllowed(c)'
  <2>1. AllowedTuple(c, new, new.effective) BY <1>7, <1>9 DEF AllowedTuple
  <2>2. Truthful(new, new.status) BY <1>4, <1>7, <1>9 DEF Truthful
  <2> QED BY <1>8, <1>10, <2>1, <2>2 DEF UsesAllowed
<1>12. flight'[c] # None BY <1>8, <1>10, HealthAssumption
<1>13. spent' \subseteq spent /\ disk' = disk BY <1>3 DEF Probes
<1> QED BY <1>1, <1>3, <1>8, <1>10, <1>11, <1>12, <1>13, Asks

\* What goes on from the probes of c: the next profile, or the end.
LEMMA ContinueStep ==
    ASSUME HealthInv, NEW c \in Chain, Probes(c), NEW r \in Record, Recounted(c, r),
           NEW g \in FlightRecord, DOMAIN g.selected = Capabilities(r),
           AllowedTuple(c, r, g.selected), Continue(c, g, r)
    PROVE  HealthInv'
<1> DEFINE needed == NeedsRecovery(r, g)
           more == r.publicFallback /\ g.profile < Len(Profiles[c]) /\ needed # {}
<1>1. CASE ~more
  <2>1. Finish(c, g, r) BY <1>1 DEF Continue
  <2> QED BY <2>1, FinishStep
<1>2. CASE more
  <2> DEFINE next == g.profile + 1
             f == [g EXCEPT !.phase = "profiles", !.profile = next, !.needed = needed]
  <2>1. /\ TypeOK /\ Unawaited(c) /\ record[c] # None /\ ~record[c].consentPending
        /\ asked' \subseteq [chain : Chain, reason : Reason]
        /\ DOMAIN record[c].effective = Capabilities(record[c])
        /\ AllowedTuple(c, record[c], record[c].effective)
        /\ Truthful(record[c], record[c].status)
    BY ProbesIs
  <2>2. /\ record' = [record EXCEPT ![c] = r] /\ flight' = [flight EXCEPT ![c] = f]
        /\ queue' = queue /\ spent' = spent
    BY <1>2 DEF Continue
  <2>3. needed \in SUBSET Capability
    <3>1. needed \subseteq Capabilities(r) BY DEF NeedsRecovery
    <3> QED BY <3>1, PreferredIs
  <2>4. next \in Nat /\ next \in DOMAIN Profiles[c] /\ r.publicFallback
    <3>1. g.profile \in Nat BY DEF FlightRecord
    <3>2. Profiles[c] \in Seq(Tuple) BY HealthAssumption
    <3>3. DOMAIN Profiles[c] = 1 .. Len(Profiles[c]) /\ Len(Profiles[c]) \in Nat
      BY <3>2, LenProperties
    <3> QED BY <1>2, <3>1, <3>3
  <2>5. /\ f \in FlightRecord /\ f.phase = "profiles" /\ f.profile = next
        /\ f.selected = g.selected
    <3> HIDE DEF needed, next, Tuple, Receipts
    <3> QED BY <2>3, <2>4 DEF FlightRecord
  <2> HIDE DEF f, needed, next
  <2>6. Preferred(r) = Preferred(record[c]) /\ Capabilities(r) = Capabilities(record[c])
    BY DEF Recounted, Preferred, Capabilities
  <2>7. /\ TypeOK' /\ SameChoices(c) /\ initialized'
        /\ record'[c] = r /\ flight'[c] = f
        /\ \A d \in Chain \ {c} : record'[d] = record[d] /\ flight'[d] = flight[d]
    <3>1. "nobody" \in Awaited /\ f \in FlightRecord \cup {None} BY <2>5 DEF Awaited
    <3>2. Becomes(c, r, f) /\ Writes(c, "nobody")
      BY <2>1, <2>2 DEF Becomes, Writes, Probes
    <3>3. Chosen(c, r) BY <2>1, <2>6 DEF Chosen, Recounted
    <3> QED BY <2>1, <3>1, <3>2, <3>3, Flown
  <2>8. UsesAllowed(c)'
    <3>1. AllowedTuple(c, r, r.effective) /\ Truthful(r, r.status)
      BY <2>1, <2>6 DEF AllowedTuple, Truthful, Recounted
    <3> QED BY <2>4, <2>5, <2>7, <3>1 DEF UsesAllowed
  <2>9. FlightWaits(c)'
    <3>1. Moved(0, c) /\ NotFor(0, c, {"escalation", "result"})
      BY <2>1, <2>2, Unmoved DEF Probes
    <3> QED BY <2>1, <3>1, StaysUnawaited
  <2> QED BY <2>2, <2>7, <2>8, <2>9, Quiet DEF Probes
<1> QED BY <1>1, <1>2

LEMMA DecideStep ==
    ASSUME HealthInv, NEW c \in Chain, Probes(c), NEW g \in FlightRecord, Decide(c, g)
    PROVE  HealthInv'
<1> DEFINE r == Counted(record[c], g.receipts)
<1>1. PICK resided \in BOOLEAN :
         Continue(c, [g EXCEPT !.selected = Selected(r, g.receipts, resided)], r)
  BY DEF Decide
<1> DEFINE new == Selected(r, g.receipts, resided)
           h == [g EXCEPT !.selected = new]
<1>2. /\ record[c] \in Record
      /\ DOMAIN record[c].effective = Capabilities(record[c])
      /\ AllowedTuple(c, record[c], record[c].effective)
  BY ProbesIs
<1>3. r \in Record /\ Recounted(c, r) BY <1>2, CountedType DEF Recounted
<1> HIDE DEF r
<1>4. /\ DOMAIN r.effective = Capabilities(r)
      /\ AllowedTuple(c, r, r.effective)
  BY <1>2, <1>3 DEF Recounted, Capabilities, Preferred, AllowedTuple
<1>5. new \in Tuple /\ DOMAIN new = Capabilities(r) /\ AllowedTuple(c, r, new)
  BY <1>3, <1>4, SelectedIs
<1>6. Continue(c, h, r) BY <1>1
<1> HIDE DEF new
<1>7. h \in FlightRecord /\ h.selected = new
  <2> HIDE DEF Tuple, Receipts
  <2> QED BY <1>5 DEF FlightRecord
<1> HIDE DEF h
<1> QED BY <1>3, <1>5, <1>6, <1>7, ContinueStep

LEMMA FlyStep ==
    ASSUME HealthInv, NEW c \in Chain, Fly(c)
    PROVE  HealthInv'
<1>1. /\ flight[c] # None
      /\ ProbePreferred(c) \/ ProbeOriginal(c) \/ ProbeProfile(c)
      /\ preference' = preference /\ asked' = asked /\ disk' = disk
      /\ initialized' = initialized /\ closed' = closed /\ denied' = denied
  BY DEF Fly
<1>2. Probes(c)
  BY <1>1, Zenon DEF Probes, ProbePreferred, ProbeOriginal, ProbeProfile
<1>3. /\ TypeOK /\ ChainInv(c) /\ Unawaited(c)
      /\ record[c] # None /\ record[c] \in Record /\ ~record[c].consentPending
      /\ flight[c] \in FlightRecord
      /\ DOMAIN record[c].effective = Capabilities(record[c])
      /\ AllowedTuple(c, record[c], record[c].effective)
      /\ Truthful(record[c], record[c].status)
      /\ asked' \subseteq [chain : Chain, reason : Reason]
  BY <1>2, ProbesIs
<1> DEFINE f == flight[c]
<1>4. f.receipts \in Receipts BY <1>3 DEF FlightRecord
<1>5. ASSUME NEW receipts \in Receipts
      PROVE  LET g == [f EXCEPT !.receipts = receipts] IN
             /\ g \in FlightRecord /\ g.profile = f.profile /\ g.selected = f.selected
             /\ g.needed = f.needed
  <2>1. f \in FlightRecord BY <1>3
  <2> HIDE DEF f, Tuple, Receipts
  <2> QED BY <2>1 DEF FlightRecord
<1>6. CASE ProbePreferred(c)
  <2>1. PICK receipts \in Probed(f.receipts, Preferred(record[c]), Capabilities(record[c])) :
           LET g == [f EXCEPT !.receipts = receipts] IN
           IF record[c].effective # Preferred(record[c])
           THEN /\ flight' = [flight EXCEPT ![c] = [g EXCEPT !.phase = "original"]]
                /\ UNCHANGED <<record, queue, spent>>
           ELSE Decide(c, g)
    BY <1>6, Zenon DEF ProbePreferred
  <2>2. receipts \in Receipts BY <1>4, ProbedType
  <2> DEFINE g == [f EXCEPT !.receipts = receipts]
  <2>3. g \in FlightRecord BY <1>5, <2>2
  <2>4. CASE record[c].effective = Preferred(record[c])
    <3>1. Decide(c, g) BY <2>1, <2>4
    <3> HIDE DEF g
    <3> QED BY <1>2, <2>3, <3>1, DecideStep
  <2>5. CASE record[c].effective # Preferred(record[c])
    <3> DEFINE h == [g EXCEPT !.phase = "original"]
    <3>1. /\ flight' = [flight EXCEPT ![c] = h]
          /\ record' = record /\ queue' = queue /\ spent' = spent
      BY <2>1, <2>5
    <3> HIDE DEF g
    <3>2. h \in FlightRecord /\ h.phase = "original"
      <4> HIDE DEF Tuple, Receipts
      <4> QED BY <2>3 DEF FlightRecord
    <3> HIDE DEF h
    <3>3. record' = [record EXCEPT ![c] = record[c]]
      <4>1. record \in [Chain -> Record \cup {None}] BY <1>3 DEF TypeOK
      <4> QED BY <3>1, <4>1, Same
    <3>4. /\ TypeOK' /\ SameChoices(c) /\ initialized'
          /\ record'[c] = record[c] /\ flight'[c] = h
          /\ \A d \in Chain \ {c} : record'[d] = record[d] /\ flight'[d] = flight[d]
      <4>1. "nobody" \in Awaited /\ h \in FlightRecord \cup {None} BY <3>2 DEF Awaited
      <4>2. Becomes(c, record[c], h) /\ Writes(c, "nobody")
        BY <1>1, <1>3, <3>1, <3>3 DEF Becomes, Writes
      <4>3. Chosen(c, record[c]) BY <1>3 DEF Chosen
      <4> QED BY <1>3, <4>1, <4>2, <4>3, Flown
    <3>5. UsesAllowed(c)' BY <1>3, <3>2, <3>4 DEF UsesAllowed
    <3>6. FlightWaits(c)'
      <4>1. Moved(0, c) /\ NotFor(0, c, {"escalation", "result"})
        BY <1>1, <1>3, <3>1, Unmoved
      <4> QED BY <1>3, <4>1, StaysUnawaited
    <3> QED BY <1>1, <3>1, <3>4, <3>5, <3>6, Quiet
  <2> QED BY <2>4, <2>5
<1>7. CASE ProbeOriginal(c)
  <2>1. PICK receipts \in Probed(f.receipts, record[c].effective, Capabilities(record[c])) :
           Decide(c, [f EXCEPT !.receipts = receipts])
    BY <1>7, Zenon DEF ProbeOriginal
  <2>2. receipts \in Receipts BY <1>4, ProbedType
  <2> DEFINE g == [f EXCEPT !.receipts = receipts]
  <2>3. g \in FlightRecord BY <1>5, <2>2
  <2>4. Decide(c, g) BY <2>1
  <2> HIDE DEF g
  <2> QED BY <1>2, <2>3, <2>4, DecideStep
<1>8. CASE ProbeProfile(c)
  <2> DEFINE tuple == Profiles[c][f.profile]
             found(receipts) == {k \in f.needed \cap DOMAIN tuple : Healthy(receipts, k, tuple[k])}
             new(receipts) == [k \in DOMAIN f.selected |->
                                 IF k \in found(receipts) THEN tuple[k] ELSE f.selected[k]]
  <2>1. f.phase = "profiles" BY <1>8 DEF ProbeProfile
  <2>2. PICK receipts \in Probed(f.receipts, tuple, Wanted(f.needed)) :
           Continue(c, [f EXCEPT !.receipts = receipts, !.selected = new(receipts)], record[c])
    BY <1>8, Zenon DEF ProbeProfile
  <2>3. receipts \in Receipts BY <1>4, ProbedType
  <2>4. /\ record[c].publicFallback /\ f.profile \in DOMAIN Profiles[c]
        /\ DOMAIN f.selected = Capabilities(record[c])
        /\ AllowedTuple(c, record[c], f.selected)
    BY <1>1, <1>3, <2>1 DEF ChainInv, UsesAllowed
  <2>5. tuple \in Tuple
    <3>1. Profiles[c] \in Seq(Tuple) BY HealthAssumption
    <3> QED BY <2>4, <3>1, ElementOfSeq, LenProperties
  <2>6. f.selected \in Tuple BY <1>3 DEF FlightRecord
  <2> DEFINE s == new(receipts)
             g == [f EXCEPT !.receipts = receipts, !.selected = s]
  <2>7. /\ s \in Tuple /\ DOMAIN s = Capabilities(record[c])
        /\ AllowedTuple(c, record[c], s)
    <3>1. ASSUME NEW k \in DOMAIN f.selected
          PROVE  /\ s[k] \in Endpoint
                 /\ Allowed(c, Preferred(record[c]), record[c].publicFallback, k, s[k])
      <4>1. CASE k \in found(receipts)
        <5>1. k \in DOMAIN tuple /\ s[k] = tuple[k] BY <4>1
        <5>2. tuple[k] \in Endpoint BY <2>5, <5>1, TupleIs
        <5> QED BY <2>4, <5>1, <5>2 DEF Allowed
      <4>2. CASE k \notin found(receipts)
        <5>1. s[k] = f.selected[k] BY <4>2
        <5>2. f.selected[k] \in Endpoint BY <2>6, TupleIs
        <5> QED BY <2>4, <5>1, <5>2 DEF AllowedTuple
      <4> QED BY <4>1, <4>2
    <3>2. s = [k \in DOMAIN f.selected |-> s[k]] OBVIOUS
    <3> HIDE DEF s
    <3>3. s \in [DOMAIN f.selected -> Endpoint] BY <3>1, <3>2
    <3>4. DOMAIN f.selected \in SUBSET Capability BY <2>6, TupleIs
    <3> QED BY <2>4, <3>1, <3>3, <3>4, TupleMade DEF AllowedTuple
  <2>8. Continue(c, g, record[c]) BY <2>2
  <2> HIDE DEF s
  <2>9. g \in FlightRecord /\ g.selected = s
    <3>1. f \in FlightRecord BY <1>3
    <3> HIDE DEF f, Tuple, Receipts
    <3> QED BY <2>3, <2>7, <3>1 DEF FlightRecord
  <2> HIDE DEF g
  <2>10. Recounted(c, record[c]) BY DEF Recounted
  <2> QED BY <1>2, <1>3, <2>7, <2>8, <2>9, <2>10, ContinueStep
<1> QED BY <1>1, <1>6, <1>7, <1>8

-----------------------------------------------------------------------------
(* A write ends. *)

\* The first write of the queue is over; the disk may have what it had.
Ends ==
    /\ queue # <<>> /\ queue' = Tail(queue)
    /\ disk' = disk \/ disk' = queue[1].data

LEMMA Ended ==
    ASSUME TypeOK, Ends
    PROVE  /\ queue' \in Seq(Write) /\ 1 \in DOMAIN queue
           /\ disk' \in [Chain -> StoredRecord \cup {None}]
           /\ \A d \in Chain : Moved(1, d)
           /\ \A d \in Chain : \A choice : NotFor(1, d, choice)
           /\ \A i \in DOMAIN queue' :
                 i + 1 \in DOMAIN queue /\ i + 1 > 1 /\ queue'[i] = queue[i + 1]
<1>1. queue \in Seq(Write) /\ disk \in [Chain -> StoredRecord \cup {None}] BY DEF TypeOK
<1>2. /\ queue' \in Seq(Write) /\ 1 \in DOMAIN queue /\ queue[1] \in Write
      /\ Len(queue') = Len(queue) - 1
      /\ \A i \in DOMAIN queue' : queue'[i] = queue[i + 1]
      /\ Len(queue) \in Nat /\ DOMAIN queue = 1 .. Len(queue)
  BY <1>1, Positions DEF Ends
<1>3. DOMAIN queue' = 1 .. Len(queue) - 1 BY <1>2, Positions
<1>4. ASSUME NEW i \in DOMAIN queue'
      PROVE  i + 1 \in DOMAIN queue /\ i + 1 > 1 /\ queue'[i] = queue[i + 1]
  BY <1>2, <1>3
<1>5. queue[1].data \in [Chain -> StoredRecord \cup {None}] BY <1>2 DEF Write
<1>6. ASSUME NEW d \in Chain PROVE Moved(1, d)
  <2>1. disk'[d] = disk[d] \/ disk'[d] = queue[1].data[d] BY DEF Ends
  <2> QED BY <1>4, <2>1 DEF Moved, Kept1, Ends
<1>7. ASSUME NEW d \in Chain, NEW choice PROVE NotFor(1, d, choice) BY <1>4 DEF NotFor
<1> QED BY <1>1, <1>2, <1>4, <1>5, <1>6, <1>7 DEF Ends

\* A step that ends a write of c keeps the invariant if it keeps that of c.
LEMMA EndsCompose ==
    ASSUME HealthInv, TypeOK', NEW c \in Chain, Ends, initialized' = initialized,
           ChainInv(c)', preference' = preference,
           closed' \subseteq closed \cup {c}, denied \subseteq denied', denied' \subseteq denied \cup {c},
           spent' \subseteq spent \cup {c},
           \A d \in Chain \ {c} : record'[d] = record[d] /\ flight'[d] = flight[d]
    PROVE  HealthInv'
<1>1. /\ \A d \in Chain : Moved(1, d)
      /\ \A d \in Chain : \A choice : NotFor(1, d, choice)
  BY Ended DEF HealthInv
<1>2. initialized BY DEF HealthInv, NothingRuns, Ends
<1>3. NothingRuns' BY <1>2 DEF NothingRuns
<1>4. \A d \in Chain \ {c} :
         /\ NotFor(1, d, {"withdrawal", "rollback", "opt-in"})
         /\ NotFor(1, d, {"escalation", "result"})
         /\ preference'[d] = preference[d] /\ record'[d] = record[d]
         /\ flight'[d] = flight[d]
         /\ d \in closed' => StaysClosed(d)
         /\ d \in spent' => d \in spent
  BY <1>1 DEF StaysClosed
<1> QED BY <1>1, <1>3, <1>4, Compose

\* A write that changes nothing but what is stored.
LEMMA EndsQuietly ==
    ASSUME HealthInv, NEW c \in Chain, Ends, initialized' = initialized,
           preference' = preference, record' = record, flight' = flight,
           asked' \subseteq [chain : Chain, reason : Reason], closed' = closed /\ denied' = denied, spent' = spent
    PROVE  HealthInv'
<1>1. TypeOK /\ ChainInv(c) /\ UsesAllowed(c) /\ FlightWaits(c) BY DEF HealthInv, ChainInv
<1>2. /\ queue' \in Seq(Write) /\ disk' \in [Chain -> StoredRecord \cup {None}]
      /\ Moved(1, c) /\ NotFor(1, c, {"withdrawal", "rollback", "opt-in"})
      /\ NotFor(1, c, {"escalation", "result"})
  BY <1>1, Ended
<1>3. TypeOK' BY <1>1, <1>2 DEF TypeOK
<1>4. SameChoices(c) BY DEF SameChoices
<1>5. ConsentKept(c)' /\ ClosedKept(c)' /\ SpentKept(c)' /\ ChoiceWaits(c)'
  BY <1>1, <1>2, <1>3, <1>4, KeepsChoices
<1>6. FlightWaits(c)' BY <1>1, <1>2, <1>3, KeepsFlight
<1>7. UsesAllowed(c)' BY <1>1 DEF UsesAllowed
<1>8. ChainInv(c)' BY <1>5, <1>6, <1>7 DEF ChainInv
<1> QED BY <1>3, <1>8, EndsCompose

\* The user learns that the fallback of c is off: it is, and stays so.
LEMMA ClosesStep ==
    ASSUME HealthInv, NEW c \in Chain, Ends, initialized' = initialized,
           Awaits(queue[1], c, {"withdrawal", "rollback"}),
           preference' = preference, record' = record, flight' = flight,
           asked' = asked, closed' = closed \cup {c}, spent' = spent,
           denied' = denied \/ denied' = denied \cup {c},
           c \notin denied' => disk' = queue[1].data
    PROVE  HealthInv'
<1>1. TypeOK /\ UsesAllowed(c) /\ ConsentKept(c) /\ SpentKept(c) /\ ChoiceWaits(c)
      /\ FlightWaits(c) /\ closed \subseteq Chain /\ denied \subseteq Chain
  BY DEF HealthInv, ChainInv, TypeOK
<1>2. /\ queue' \in Seq(Write) /\ disk' \in [Chain -> StoredRecord \cup {None}]
      /\ 1 \in DOMAIN queue
      /\ Moved(1, c) /\ NotFor(1, c, {"withdrawal", "rollback", "opt-in"})
      /\ NotFor(1, c, {"escalation", "result"})
      /\ \A i \in DOMAIN queue' :
            i + 1 \in DOMAIN queue /\ i + 1 > 1 /\ queue'[i] = queue[i + 1]
  BY <1>1, Ended
<1>3. TypeOK' BY <1>1, <1>2 DEF TypeOK
<1>4. Off(record[c]) /\ \A j \in DOMAIN queue : j >= 1 => Shut(queue[j].data[c], preference[c])
  BY <1>1, <1>2 DEF ChoiceWaits
<1>5. ClosedKept(c)'
  <2>1. c \notin denied' => Shut(disk'[c], preference'[c]) BY <1>2, <1>4
  <2>3. preference'[c] # None BY <1>1, <1>4, TypesOf DEF Off
  <2>2. ASSUME NEW i \in DOMAIN queue' PROVE Shut(queue'[i].data[c], preference'[c])
    <3>1. i + 1 \in DOMAIN queue /\ i + 1 >= 1 /\ queue'[i] = queue[i + 1]
      <4>1. i + 1 \in DOMAIN queue /\ i + 1 > 1 /\ queue'[i] = queue[i + 1] BY <1>2
      <4>2. DOMAIN queue = 1 .. Len(queue) BY <1>1, Positions DEF TypeOK
      <4> QED BY <4>1, <4>2
    <3> QED BY <1>4, <3>1
  <2> QED BY <1>4, <2>1, <2>2, <2>3 DEF ClosedKept
<1>6. ConsentKept(c)' BY <1>1, <1>2, <1>3, KeepsConsent
<1>7. SpentKept(c)' BY <1>1, <1>2, <1>3, KeepsSpent DEF SpentKept
<1>8. ChoiceWaits(c)'
  <2>1. Off(record[c]) => Off(record'[c]) OBVIOUS
  <2>2. (record[c] # None /\ record[c].consentPending) => record'[c].consentPending OBVIOUS
  <2>3. record[c] # None => record'[c] # None /\ preference'[c] = preference[c] OBVIOUS
  <2> QED BY <1>1, <1>2, <1>3, <2>1, <2>2, <2>3, KeepsChoice
<1>9. FlightWaits(c)' BY <1>1, <1>2, <1>3, KeepsFlight
<1>10. UsesAllowed(c)' BY <1>1 DEF UsesAllowed
<1>11. ChainInv(c)' BY <1>5, <1>6, <1>7, <1>8, <1>9, <1>10 DEF ChainInv
<1> QED BY <1>3, <1>11, EndsCompose

\* A step makes the record and the flight of c.
Marks(c, r, f) ==
    record' = [record EXCEPT ![c] = r] /\ flight' = [flight EXCEPT ![c] = f]

\* The chance of c is used up: it is in no write that comes, and the probes begin.
LEMMA ConsumedStep ==
    ASSUME HealthInv, NEW c \in Chain, Ends, initialized' = initialized,
           Awaits(queue[1], c, {"escalation"}), disk' = queue[1].data,
           Marks(c, [record[c] EXCEPT !.status = "checking"],
                    [flight[c] EXCEPT !.phase = "preferred", !.previousStatus = "unknown"]),
           preference' = preference,
           asked' = asked, closed' = closed /\ denied' = denied, spent' = spent \cup {c}
    PROVE  HealthInv'
<1>1. TypeOK /\ UsesAllowed(c) /\ ConsentKept(c) /\ ClosedKept(c) /\ ChoiceWaits(c)
      /\ FlightWaits(c) /\ closed \subseteq Chain /\ denied \subseteq Chain /\ spent \subseteq Chain
      /\ record \in [Chain -> Record \cup {None}]
      /\ flight \in [Chain -> FlightRecord \cup {None}]
      /\ preference \in [Chain -> Preference \cup {None}]
      /\ asked \subseteq [chain : Chain, reason : Reason]
  BY DEF HealthInv, ChainInv, TypeOK
<1>2. /\ queue' \in Seq(Write) /\ disk' \in [Chain -> StoredRecord \cup {None}]
      /\ 1 \in DOMAIN queue
      /\ Moved(1, c) /\ NotFor(1, c, {"withdrawal", "rollback", "opt-in"})
      /\ NotFor(1, c, {"escalation", "result"})
      /\ \A i \in DOMAIN queue' :
            i + 1 \in DOMAIN queue /\ i + 1 > 1 /\ queue'[i] = queue[i + 1]
  BY <1>1, Ended
<1>3. /\ flight[c] # None /\ flight[c] \in FlightRecord
      /\ record[c] # None /\ record[c] \in Record /\ ~record[c].consentPending
      /\ record[c].preference = preference[c] /\ initialized
      /\ DOMAIN record[c].effective = Capabilities(record[c])
      /\ ~(record[c].publicFallback /\ record[c].consentPending)
  <2>1. flight[c] # None BY <1>1, <1>2 DEF FlightWaits, Awaits
  <2> QED BY <1>1, <2>1, TypesOf
<1>4. /\ ~record[c].connectRecoveryAvailable
      /\ \A j \in DOMAIN queue : j >= 1 =>
            queue[j].data[c] # None /\ ~queue[j].data[c].connectRecoveryAvailable
      /\ \A j \in DOMAIN queue : Awaits(queue[j], c, {"escalation", "result"}) => 1 = j
  <2>1. Awaits(queue[1], c, {"escalation", "result"}) BY DEF Awaits
  <2> QED BY <1>1, <1>2, <2>1 DEF FlightWaits
<1> DEFINE old == record[c]
           r == [old EXCEPT !.status = "checking"]
           g == flight[c]
           f == [g EXCEPT !.phase = "preferred", !.previousStatus = "unknown"]
<1>5. record' = [record EXCEPT ![c] = r] /\ flight' = [flight EXCEPT ![c] = f]
  BY DEF Marks
<1>6. old \in Record /\ g \in FlightRecord BY <1>3
<1> HIDE DEF old, g
<1>7. /\ r \in Record /\ r.preference = old.preference
      /\ r.publicFallback = old.publicFallback /\ r.consentPending = old.consentPending
      /\ r.effective = old.effective /\ r.status = "checking"
      /\ r.connectRecoveryAvailable = old.connectRecoveryAvailable
  <2> HIDE DEF Preference, Tuple
  <2> QED BY <1>6 DEF Record, Status
<1>8. f \in FlightRecord /\ f.phase = "preferred"
  <2> HIDE DEF Tuple, Receipts
  <2> QED BY <1>6 DEF FlightRecord, Status
<1> HIDE DEF r, f
<1>9. /\ r # None /\ record'[c] = r /\ flight'[c] = f
      /\ \A d \in Chain \ {c} : record'[d] = record[d] /\ flight'[d] = flight[d]
  BY <1>1, <1>5, <1>7, HealthAssumption
<1>10. Preferred(r) = Preferred(old) /\ Capabilities(r) = Capabilities(old)
  BY <1>7 DEF Preferred, Capabilities
<1>11. TypeOK'
  <2>1. closed' \subseteq Chain /\ denied' \subseteq Chain /\ spent' \subseteq Chain BY <1>1
  <2>2. preference' \in [Chain -> Preference \cup {None}] BY <1>1
  <2>3. r # None <=> (initialized /\ preference'[c] # None) BY <1>1, <1>3, <1>9, TypesOf
  <2>4. /\ r.preference = preference'[c] /\ DOMAIN r.effective = Capabilities(r)
        /\ ~(r.publicFallback /\ r.consentPending)
    BY <1>3, <1>7, <1>10 DEF old
  <2>5. f # None => r # None /\ ~r.consentPending BY <1>3, <1>7, <1>9 DEF old
  <2>6. f \in FlightRecord \cup {None} /\ asked' \subseteq [chain : Chain, reason : Reason]
    BY <1>1, <1>8
  <2> QED BY <1>1, <1>2, <1>5, <1>7, <2>1, <2>2, <2>3, <2>4, <2>5, <2>6, SetTypes
<1>12. SpentKept(c)'
  <2>1. disk'[c] # None => ~disk'[c].connectRecoveryAvailable BY <1>2, <1>4
  <2>2. ASSUME NEW i \in DOMAIN queue' PROVE ~queue'[i].data[c].connectRecoveryAvailable
    <3>1. i + 1 \in DOMAIN queue /\ i + 1 >= 1 /\ queue'[i] = queue[i + 1]
      <4>1. i + 1 \in DOMAIN queue /\ i + 1 > 1 /\ queue'[i] = queue[i + 1] BY <1>2
      <4>2. DOMAIN queue = 1 .. Len(queue) BY <1>1, Positions DEF TypeOK
      <4> QED BY <4>1, <4>2
    <3> QED BY <1>4, <3>1
  <2> QED BY <1>4, <1>7, <1>9, <2>1, <2>2 DEF SpentKept, old
<1>13. Off(record[c]) => Off(record'[c]) BY <1>7, <1>9 DEF Off, old
<1>14. ConsentKept(c)' BY <1>1, <1>2, <1>3, <1>7, <1>9, <1>11, KeepsConsent DEF old
<1>15. ClosedKept(c)'
  <2>1. c \in closed' => /\ StaysClosed(c) /\ preference'[c] = preference[c]
                         /\ record'[c] # None => Off(record'[c])
    BY <1>1, <1>3, <1>13 DEF ClosedKept, StaysClosed
  <2> QED BY <1>1, <1>2, <1>11, <2>1, KeepsClosed
<1>16. ChoiceWaits(c)'
  <2>1. (record[c] # None /\ record[c].consentPending) => record'[c].consentPending BY <1>3
  <2>2. record[c] # None => record'[c] # None /\ preference'[c] = preference[c] BY <1>9
  <2> QED BY <1>1, <1>2, <1>11, <1>13, <2>1, <2>2, KeepsChoice
<1>17. FlightWaits(c)'
  <2>1. ASSUME NEW i \in DOMAIN queue', NEW choice \in SUBSET {"escalation", "result"}
        PROVE  ~Awaits(queue'[i], c, choice)
    <3>1. i + 1 \in DOMAIN queue /\ i + 1 > 1 /\ queue'[i] = queue[i + 1] BY <1>2
    <3>2. ~Awaits(queue[i + 1], c, {"escalation", "result"})
      <4>1. SUFFICES ASSUME Awaits(queue[i + 1], c, {"escalation", "result"}) PROVE FALSE
        OBVIOUS
      <4>2. 1 = i + 1 BY <1>4, <3>1, <4>1
      <4> QED BY <3>1, <4>2
    <3> QED BY <3>1, <3>2 DEF Awaits
  <2> QED BY <2>1 DEF FlightWaits
<1>18. UsesAllowed(c)'
  <2>1. AllowedTuple(c, old, old.effective) BY <1>1, <1>3 DEF UsesAllowed, old
  <2>2. AllowedTuple(c, r, r.effective) /\ Truthful(r, r.status)
    BY <1>7, <1>10, <2>1 DEF AllowedTuple, Truthful
  <2> QED BY <1>8, <1>9, <2>2 DEF UsesAllowed
<1>19. ChainInv(c)' BY <1>12, <1>14, <1>15, <1>16, <1>17, <1>18 DEF ChainInv
<1> QED BY <1>9, <1>11, <1>19, EndsCompose

\* A flight of c ends, with its result or because it could not begin.
LEMMA LandsStep ==
    ASSUME HealthInv, NEW c \in Chain, Ends, initialized' = initialized,
           Awaits(queue[1], c, {"escalation", "result"}),
           NEW r \in Record, Marks(c, r, None),
           r.preference = record[c].preference, r.effective = record[c].effective,
           r.publicFallback = record[c].publicFallback,
           r.consentPending = record[c].consentPending,
           r.connectRecoveryAvailable = record[c].connectRecoveryAvailable,
           Truthful(record[c], r.status),
           preference' = preference,
           asked' \subseteq [chain : Chain, reason : Reason], closed' = closed /\ denied' = denied, spent' = spent
    PROVE  HealthInv'
<1>1. /\ TypeOK /\ ChainInv(c) /\ UsesAllowed(c) /\ FlightWaits(c)
      /\ closed \subseteq Chain /\ denied \subseteq Chain /\ spent \subseteq Chain
      /\ record \in [Chain -> Record \cup {None}]
      /\ flight \in [Chain -> FlightRecord \cup {None}]
      /\ preference \in [Chain -> Preference \cup {None}]
  BY DEF HealthInv, ChainInv, TypeOK
<1>2. /\ queue' \in Seq(Write) /\ disk' \in [Chain -> StoredRecord \cup {None}]
      /\ 1 \in DOMAIN queue
      /\ Moved(1, c) /\ NotFor(1, c, {"withdrawal", "rollback", "opt-in"})
      /\ NotFor(1, c, {"escalation", "result"})
      /\ \A i \in DOMAIN queue' :
            i + 1 \in DOMAIN queue /\ i + 1 > 1 /\ queue'[i] = queue[i + 1]
  BY <1>1, Ended
<1>3. /\ flight[c] # None /\ flight[c] \in FlightRecord
      /\ record[c] # None /\ record[c] \in Record /\ ~record[c].consentPending
      /\ record[c].preference = preference[c] /\ initialized /\ preference[c] # None
      /\ DOMAIN record[c].effective = Capabilities(record[c])
      /\ \A j \in DOMAIN queue : Awaits(queue[j], c, {"escalation", "result"}) => 1 = j
  <2>1. /\ flight[c] # None
        /\ \A j \in DOMAIN queue : Awaits(queue[j], c, {"escalation", "result"}) => 1 = j
    BY <1>1, <1>2 DEF FlightWaits
  <2> QED BY <1>1, <2>1, TypesOf
<1>4. record' = [record EXCEPT ![c] = r] /\ flight' = [flight EXCEPT ![c] = None]
  BY DEF Marks
<1>5. /\ r # None /\ record'[c] = r /\ flight'[c] = None
      /\ \A d \in Chain \ {c} : record'[d] = record[d] /\ flight'[d] = flight[d]
  BY <1>1, <1>4, HealthAssumption
<1>6. Preferred(r) = Preferred(record[c]) /\ Capabilities(r) = Capabilities(record[c])
  BY DEF Preferred, Capabilities
<1>7. TypeOK'
  <2>1. closed' \subseteq Chain /\ denied' \subseteq Chain /\ spent' \subseteq Chain BY <1>1
  <2>2. preference' \in [Chain -> Preference \cup {None}] BY <1>1
  <2>3. r # None <=> (initialized /\ preference'[c] # None) BY <1>3, <1>5
  <2>4. /\ r.preference = preference'[c] /\ DOMAIN r.effective = Capabilities(r)
        /\ ~(r.publicFallback /\ r.consentPending)
    BY <1>3, <1>6
  <2>5. r \in Record \cup {None} /\ None \in FlightRecord \cup {None} OBVIOUS
  <2> QED BY <1>1, <1>2, <1>4, <2>1, <2>2, <2>3, <2>4, <2>5, SetTypes
<1>8. SameChoices(c) BY <1>3, <1>5 DEF SameChoices
<1>9. ConsentKept(c)' /\ ClosedKept(c)' /\ SpentKept(c)' /\ ChoiceWaits(c)'
  BY <1>1, <1>2, <1>7, <1>8, KeepsChoices
<1>10. FlightWaits(c)'
  <2>1. ASSUME NEW i \in DOMAIN queue', NEW choice \in SUBSET {"escalation", "result"}
        PROVE  ~Awaits(queue'[i], c, choice)
    <3>1. i + 1 \in DOMAIN queue /\ i + 1 > 1 /\ queue'[i] = queue[i + 1] BY <1>2
    <3>2. ~Awaits(queue[i + 1], c, {"escalation", "result"})
      <4>1. SUFFICES ASSUME Awaits(queue[i + 1], c, {"escalation", "result"}) PROVE FALSE
        OBVIOUS
      <4>2. 1 = i + 1 BY <1>3, <3>1, <4>1
      <4> QED BY <3>1, <4>2
    <3> QED BY <3>1, <3>2 DEF Awaits
  <2> QED BY <2>1 DEF FlightWaits
<1>11. UsesAllowed(c)'
  <2>1. AllowedTuple(c, record[c], record[c].effective) BY <1>1, <1>3 DEF UsesAllowed
  <2>2. AllowedTuple(c, r, r.effective) /\ Truthful(r, r.status)
    BY <1>6, <2>1 DEF AllowedTuple, Truthful
  <2> QED BY <1>5, <2>2 DEF UsesAllowed
<1>12. ChainInv(c)' BY <1>9, <1>10, <1>11 DEF ChainInv
<1> QED BY <1>5, <1>7, <1>12, EndsCompose

\* The consent of c that waits is the only choice of c that waits.
LEMMA ConsentIs ==
    ASSUME HealthInv, NEW c \in Chain, 1 \in DOMAIN queue, Awaits(queue[1], c, {"opt-in"})
    PROVE  /\ record[c] # None /\ record[c] \in Record /\ record[c].consentPending
           /\ record[c].publicFallback = FALSE /\ flight[c] = None
           /\ record[c].preference = preference[c] /\ initialized /\ preference[c] # None
           /\ DOMAIN record[c].effective = Capabilities(record[c])
           /\ AllowedTuple(c, record[c], record[c].effective)
           /\ Truthful(record[c], record[c].status)
           /\ c \notin closed /\ Unawaited(c)
           /\ \A j \in DOMAIN queue :
                 /\ Kept(queue[j].data[c], preference[c])
                 /\ Awaits(queue[j], c, {"withdrawal", "rollback", "opt-in"}) => j = 1
<1>1. TypeOK /\ UsesAllowed(c) /\ FlightWaits(c) /\ ClosedKept(c) /\ ChoiceWaits(c)
  BY DEF HealthInv, ChainInv
<1>2. /\ record[c] # None /\ record[c].consentPending
      /\ \A j \in DOMAIN queue : j >= 1 =>
            /\ Kept(queue[j].data[c], preference[c])
            /\ Awaits(queue[j], c, {"opt-in"}) => 1 = j
  BY <1>1 DEF ChoiceWaits
<1>3. /\ record[c] \in Record /\ flight[c] = None
      /\ record[c].preference = preference[c] /\ initialized /\ preference[c] # None
      /\ DOMAIN record[c].effective = Capabilities(record[c])
      /\ ~(record[c].publicFallback /\ record[c].consentPending)
  BY <1>1, <1>2, TypesOf
<1>4. record[c].publicFallback = FALSE
  <2>1. record[c].publicFallback \in BOOLEAN BY <1>3 DEF Record
  <2> QED BY <1>2, <1>3, <2>1
<1>5. ~Off(record[c]) BY <1>2 DEF Off
<1>6. c \notin closed BY <1>1, <1>2, <1>5 DEF ClosedKept
<1>7. Unawaited(c) BY <1>1, <1>3, NoneAwaited
<1>8. ASSUME NEW j \in DOMAIN queue
      PROVE  /\ Kept(queue[j].data[c], preference[c])
             /\ Awaits(queue[j], c, {"withdrawal", "rollback", "opt-in"}) => j = 1
  <2>1. j >= 1
    <3>1. DOMAIN queue = 1 .. Len(queue) BY <1>1, Positions DEF TypeOK
    <3> QED BY <3>1
  <2>2. ~Awaits(queue[j], c, {"withdrawal", "rollback"}) BY <1>1, <1>5 DEF ChoiceWaits
  <2>3. Awaits(queue[j], c, {"withdrawal", "rollback", "opt-in"})
            => Awaits(queue[j], c, {"opt-in"})
    BY <2>2 DEF Awaits
  <2> QED BY <1>2, <2>1, <2>3
<1> QED BY <1>1, <1>2, <1>3, <1>4, <1>6, <1>7, <1>8 DEF UsesAllowed

\* The record of a consent that is over, well or not.
Opted(old, ok) ==
    [old EXCEPT !.consentPending = FALSE, !.publicFallback = ok,
                !.due = ok \/ old.due,
                !.status = IF ok /\ old.status = "checking" THEN "unknown" ELSE old.status]

LEMMA OptedRecord ==
    ASSUME NEW old \in Record, NEW c \in Chain, NEW ok \in BOOLEAN,
           old.publicFallback = FALSE, DOMAIN old.effective = Capabilities(old),
           AllowedTuple(c, old, old.effective), Truthful(old, old.status)
    PROVE  LET r == Opted(old, ok) IN
           /\ r \in Record /\ r.preference = old.preference
           /\ DOMAIN r.effective = Capabilities(r)
           /\ r.publicFallback = ok /\ r.consentPending = FALSE
           /\ r.connectRecoveryAvailable = old.connectRecoveryAvailable
           /\ AllowedTuple(c, r, r.effective) /\ Truthful(r, r.status)
<1> DEFINE status == IF ok /\ old.status = "checking" THEN "unknown" ELSE old.status
           due == ok \/ old.due
           r == [old EXCEPT !.consentPending = FALSE, !.publicFallback = ok,
                            !.due = due, !.status = status]
<1>1. status \in Status /\ (status = "unknown" \/ status = old.status) /\ due \in BOOLEAN
  BY DEF Record, Status
<1> HIDE DEF status, due
<1>2. /\ r \in Record /\ r.preference = old.preference /\ r.effective = old.effective
      /\ r.publicFallback = ok /\ r.consentPending = FALSE /\ r.status = status
      /\ r.connectRecoveryAvailable = old.connectRecoveryAvailable
  <2> HIDE DEF Preference, Tuple, Status
  <2> QED BY <1>1 DEF Record
<1> HIDE DEF r
<1>3. Preferred(r) = Preferred(old) /\ Capabilities(r) = Capabilities(old)
  BY <1>2 DEF Preferred, Capabilities
<1>4. AllowedTuple(c, r, r.effective) BY <1>2, <1>3 DEF AllowedTuple, Allowed
<1>5. Truthful(r, r.status) BY <1>1, <1>2, <1>3 DEF Truthful
<1>6. Opted(old, ok) = r BY DEF Opted, r, status, due
<1> QED BY <1>2, <1>3, <1>4, <1>5, <1>6

\* A record that changes while there is no flight.
LEMMA RecordTypes ==
    ASSUME TypeOK, NEW c \in Chain, record[c] # None, flight[c] = None,
           NEW r \in Record, record' = [record EXCEPT ![c] = r],
           r.preference = record[c].preference, DOMAIN r.effective = Capabilities(r),
           r.consentPending = FALSE,
           flight' = flight, preference' = preference, initialized' = initialized,
           asked' = asked, closed' = closed /\ denied' = denied, spent' = spent,
           queue' \in Seq(Write), disk' \in [Chain -> StoredRecord \cup {None}]
    PROVE  TypeOK'
<1>1. /\ closed \subseteq Chain /\ denied \subseteq Chain /\ spent \subseteq Chain
      /\ flight \in [Chain -> FlightRecord \cup {None}]
      /\ preference \in [Chain -> Preference \cup {None}]
      /\ asked \subseteq [chain : Chain, reason : Reason]
  BY DEF TypeOK
<1>2. /\ record[c].preference = preference[c] /\ initialized /\ preference[c] # None
  BY TypesOf
<1>3. /\ record' \in [Chain -> Record \cup {None}] /\ record'[c] = r
      /\ \A d \in Chain \ {c} : record'[d] = record[d]
  BY DEF TypeOK
<1>4. r # None BY HealthAssumption
<1>5. ASSUME NEW d \in Chain
      PROVE  /\ record'[d] # None <=> (initialized' /\ preference'[d] # None)
             /\ record'[d] # None =>
                   /\ record'[d].preference = preference'[d]
                   /\ DOMAIN record'[d].effective = Capabilities(record'[d])
                   /\ ~(record'[d].publicFallback /\ record'[d].consentPending)
             /\ flight'[d] # None => record'[d] # None /\ ~record'[d].consentPending
  <2>1. CASE d = c BY <2>1, <1>2, <1>3, <1>4
  <2>2. CASE d # c
    <3>1. record'[d] = record[d] BY <2>2, <1>3
    <3> QED BY <3>1, TypesOf
  <2> QED BY <2>1, <2>2
<1>6. initialized' \in BOOLEAN BY DEF TypeOK
<1> QED BY <1>1, <1>3, <1>5, <1>6 DEF TypeOK

\* A consent is stored: it counts, and every write that comes has it.
LEMMA ConsentStep ==
    ASSUME HealthInv, NEW c \in Chain, Ends, initialized' = initialized,
           Awaits(queue[1], c, {"opt-in"}), disk' = queue[1].data,
           NEW r \in Record, record' = [record EXCEPT ![c] = r],
           r.preference = record[c].preference, DOMAIN r.effective = Capabilities(r),
           r.publicFallback = TRUE, r.consentPending = FALSE,
           r.connectRecoveryAvailable = record[c].connectRecoveryAvailable,
           AllowedTuple(c, r, r.effective), Truthful(r, r.status),
           flight' = flight, preference' = preference,
           asked' = asked, closed' = closed /\ denied' = denied, spent' = spent
    PROVE  HealthInv'
<1>1. /\ TypeOK /\ SpentKept(c)
      /\ closed \subseteq Chain /\ denied \subseteq Chain /\ spent \subseteq Chain
      /\ record \in [Chain -> Record \cup {None}]
      /\ flight \in [Chain -> FlightRecord \cup {None}]
      /\ preference \in [Chain -> Preference \cup {None}]
      /\ asked \subseteq [chain : Chain, reason : Reason]
  BY DEF HealthInv, ChainInv, TypeOK
<1>2. /\ queue' \in Seq(Write) /\ disk' \in [Chain -> StoredRecord \cup {None}]
      /\ 1 \in DOMAIN queue /\ Moved(1, c) /\ NotFor(1, c, {"escalation", "result"})
      /\ \A i \in DOMAIN queue' :
            i + 1 \in DOMAIN queue /\ i + 1 > 1 /\ queue'[i] = queue[i + 1]
  BY <1>1, Ended
<1>3. /\ record[c] # None /\ flight[c] = None
      /\ record[c].preference = preference[c] /\ initialized /\ preference[c] # None
      /\ c \notin closed /\ Unawaited(c)
      /\ \A j \in DOMAIN queue :
            /\ Kept(queue[j].data[c], preference[c])
            /\ Awaits(queue[j], c, {"withdrawal", "rollback", "opt-in"}) => j = 1
  BY <1>2, ConsentIs
<1>4. /\ r # None /\ record'[c] = r /\ flight'[c] = None
      /\ \A d \in Chain \ {c} : record'[d] = record[d] /\ flight'[d] = flight[d]
  BY <1>1, <1>3, HealthAssumption
<1>5. TypeOK' BY <1>1, <1>2, <1>3, RecordTypes
<1>6. ConsentKept(c)'
  <2>1. Kept(disk'[c], preference'[c]) BY <1>2, <1>3
  <2>2. ASSUME NEW i \in DOMAIN queue' PROVE Kept(queue'[i].data[c], preference'[c])
    <3>1. i + 1 \in DOMAIN queue /\ queue'[i] = queue[i + 1] BY <1>2
    <3> QED BY <1>3, <3>1
  <2> QED BY <2>1, <2>2 DEF ConsentKept
<1>7. ClosedKept(c)' BY <1>3 DEF ClosedKept
<1>8. SpentKept(c)'
  <2>1. c \in spent' => c \in spent /\ (record'[c] # None => ~record'[c].connectRecoveryAvailable)
    BY <1>1, <1>3, <1>4 DEF SpentKept
  <2> QED BY <1>1, <1>2, <1>5, <2>1, KeepsSpent
<1>9. ChoiceWaits(c)'
  <2>1. ASSUME NEW i \in DOMAIN queue',
               NEW choice \in SUBSET {"withdrawal", "rollback", "opt-in"}
        PROVE  ~Awaits(queue'[i], c, choice)
    <3>1. i + 1 \in DOMAIN queue /\ i + 1 > 1 /\ queue'[i] = queue[i + 1] BY <1>2
    <3>2. ~Awaits(queue[i + 1], c, {"withdrawal", "rollback", "opt-in"})
      <4>1. SUFFICES ASSUME Awaits(queue[i + 1], c, {"withdrawal", "rollback", "opt-in"})
                     PROVE  FALSE
        OBVIOUS
      <4>2. i + 1 = 1 BY <1>3, <3>1, <4>1
      <4> QED BY <3>1, <4>2
    <3> QED BY <3>1, <3>2 DEF Awaits
  <2> QED BY <2>1 DEF ChoiceWaits
<1>10. FlightWaits(c)' BY <1>2, <1>3, StaysUnawaited
<1>11. UsesAllowed(c)' BY <1>4 DEF UsesAllowed
<1>12. ChainInv(c)' BY <1>6, <1>7, <1>8, <1>9, <1>10, <1>11 DEF ChainInv
<1> QED BY <1>4, <1>5, <1>12, EndsCompose

\* A consent is not stored: it is taken back, from later writes as well.
LEMMA RollbackStep ==
    ASSUME HealthInv, NEW c \in Chain, queue # <<>>, initialized' = initialized,
           queue' = Persist(Tail(queue), record', "rollback", c), disk' = disk,
           Awaits(queue[1], c, {"opt-in"}),
           NEW r \in Record, record' = [record EXCEPT ![c] = r],
           r.preference = record[c].preference, DOMAIN r.effective = Capabilities(r),
           r.publicFallback = FALSE, r.consentPending = FALSE,
           r.connectRecoveryAvailable = record[c].connectRecoveryAvailable,
           AllowedTuple(c, r, r.effective), Truthful(r, r.status),
           flight' = flight, preference' = preference,
           asked' = asked, closed' = closed /\ denied' = denied, spent' = spent
    PROVE  HealthInv'
<1>1. /\ TypeOK /\ SpentKept(c)
      /\ closed \subseteq Chain /\ denied \subseteq Chain /\ spent \subseteq Chain
      /\ record \in [Chain -> Record \cup {None}]
      /\ flight \in [Chain -> FlightRecord \cup {None}]
      /\ preference \in [Chain -> Preference \cup {None}]
      /\ disk \in [Chain -> StoredRecord \cup {None}]
      /\ asked \subseteq [chain : Chain, reason : Reason] /\ queue \in Seq(Write)
  BY DEF HealthInv, ChainInv, TypeOK
<1> DEFINE q == Tail(queue)
           n == Len(queue)
<1>2. /\ 1 \in DOMAIN queue /\ q \in Seq(Write) /\ Len(q) = n - 1 /\ n \in Nat
      /\ DOMAIN queue = 1 .. n
      /\ \A i \in DOMAIN q : q[i] = queue[i + 1]
  BY <1>1, Positions
<1>3. /\ record[c] # None /\ flight[c] = None
      /\ record[c].preference = preference[c] /\ initialized /\ preference[c] # None
      /\ c \notin closed /\ Unawaited(c)
      /\ \A j \in DOMAIN queue :
            Awaits(queue[j], c, {"withdrawal", "rollback", "opt-in"}) => j = 1
  BY <1>2, ConsentIs
<1>4. Storable' /\ record'[c] = r /\ \A d \in Chain \ {c} : record'[d] = record[d]
  BY <1>1, RecordSet
<1>5. r # None BY HealthAssumption
<1>6. "rollback" \in Awaited BY DEF Awaited
<1>7. queue' = Persist(q, record', "rollback", c) OBVIOUS
<1> HIDE DEF q
<1>8. PICK w \in Write : queue' = Append(q, w) /\ WriteOf(w, record', "rollback", c)
  BY <1>4, <1>6, <1>7, PersistIs, Zenon DEF Storable
<1>9. /\ queue' \in Seq(Write) /\ Len(queue') = n /\ DOMAIN queue' = 1 .. n
      /\ \A i \in DOMAIN q : queue'[i] = q[i]
      /\ queue'[n] = w
  <2>1. /\ Append(q, w) \in Seq(Write) /\ Len(Append(q, w)) = Len(q) + 1
        /\ \A i \in 1 .. Len(q) : Append(q, w)[i] = q[i]
        /\ Append(q, w)[Len(q) + 1] = w
    BY <1>2, AppendProperties
  <2>2. DOMAIN q = 1 .. Len(q) BY <1>2, Positions
  <2>3. queue' \in Seq(Write) /\ Len(queue') = n
    <3>1. Append(q, w) \in Seq(Write) /\ Len(Append(q, w)) = n
      <4> HIDE DEF n
      <4> QED BY <1>2, <2>1
    <3> QED BY <1>8, <3>1, Zenon
  <2>4. DOMAIN queue' = 1 .. n BY <2>3, Positions
  <2>5. \A i \in DOMAIN q : queue'[i] = q[i] BY <1>8, <2>1, <2>2
  <2>6. queue'[n] = w BY <1>2, <1>8, <2>1
  <2> QED BY <2>3, <2>4, <2>5, <2>6
<1>10. DOMAIN q = 1 .. n - 1 BY <1>2, Positions
<1> HIDE DEF n
<1>11. ASSUME NEW i \in DOMAIN queue'
       PROVE  \/ i + 1 \in DOMAIN queue /\ i + 1 > 1 /\ queue'[i] = queue[i + 1]
              \/ i = n /\ queue'[i] = w /\ i + 1 \notin DOMAIN queue
  <2>1. CASE i = n BY <1>2, <1>9, <2>1
  <2>2. CASE i # n
    <3>1. i \in DOMAIN q /\ i + 1 \in DOMAIN queue /\ i + 1 > 1 BY <1>2, <1>9, <1>10, <2>2
    <3> QED BY <1>2, <1>9, <3>1
  <2> QED BY <2>1, <2>2
<1>12. ASSUME NEW d \in Chain PROVE Moved(1, d)
  <2>1. w.data[d] = Stored(record'[d]) BY <1>8 DEF WriteOf
  <2> QED BY <1>3, <1>11, <2>1 DEF Moved, Kept1
<1>13. ASSUME NEW d \in Chain, NEW choice, d # c \/ "rollback" \notin choice
       PROVE  NotFor(1, d, choice)
  BY <1>8, <1>11, <1>13 DEF NotFor, Awaits, WriteOf
<1>14. /\ flight'[c] = None
       /\ \A d \in Chain \ {c} : record'[d] = record[d] /\ flight'[d] = flight[d]
  BY <1>3, <1>4
<1>15. TypeOK'
  <2>1. queue' \in Seq(Write) /\ disk' \in [Chain -> StoredRecord \cup {None}] BY <1>1, <1>9
  <2> QED BY <1>1, <1>3, <2>1, RecordTypes, Zenon
<1>16. ConsentKept(c)' BY <1>4 DEF ConsentKept
<1>17. ClosedKept(c)' BY <1>3 DEF ClosedKept
<1>18. SpentKept(c)'
  <2>1. c \in spent' => c \in spent /\ (record'[c] # None => ~record'[c].connectRecoveryAvailable)
    BY <1>1, <1>3, <1>4 DEF SpentKept
  <2>2. Moved(1, c) BY <1>12
  <2> QED BY <1>1, <1>15, <2>1, <2>2, KeepsSpent
<1>19. ChoiceWaits(c)'
  <2>1. ASSUME NEW i \in DOMAIN queue',
               Awaits(queue'[i], c, {"withdrawal", "rollback", "opt-in"})
        PROVE  i = n /\ queue'[i] = w
    <3>1. CASE i + 1 \in DOMAIN queue /\ i + 1 > 1 /\ queue'[i] = queue[i + 1]
      <4>1. i + 1 = 1 BY <1>3, <2>1, <3>1
      <4> QED BY <3>1, <4>1
    <3> QED BY <1>11, <3>1
  <2>2. ASSUME NEW i \in DOMAIN queue', Awaits(queue'[i], c, {"withdrawal", "rollback"})
        PROVE  /\ Off(record'[c])
               /\ \A j \in DOMAIN queue' : j >= i => Shut(queue'[j].data[c], preference'[c])
    <3>1. i = n BY <2>1, <2>2 DEF Awaits
    <3>2. \A j \in DOMAIN queue' : j >= i => j = n BY <1>2, <1>9, <3>1
    <3>3. queue'[n].data[c] = Stored(record'[c]) BY <1>8, <1>9 DEF WriteOf
    <3>4. Off(record'[c]) BY <1>4, <1>5 DEF Off
    <3>5. Shut(Stored(record'[c]), preference'[c])
      BY <1>15, <3>4, StoredNext DEF Off, Shut
    <3> QED BY <3>2, <3>3, <3>4, <3>5
  <2>3. ASSUME NEW i \in DOMAIN queue' PROVE ~Awaits(queue'[i], c, {"opt-in"})
    <3>1. SUFFICES ASSUME Awaits(queue'[i], c, {"opt-in"}) PROVE FALSE OBVIOUS
    <3>2. queue'[i] = w BY <2>1, <3>1 DEF Awaits
    <3> QED BY <1>8, <3>1, <3>2 DEF WriteOf, Awaits
  <2> QED BY <2>2, <2>3 DEF ChoiceWaits
<1>20. FlightWaits(c)'
  <2>1. Moved(1, c) /\ NotFor(1, c, {"escalation", "result"}) BY <1>12, <1>13
  <2> QED BY <1>3, <2>1, StaysUnawaited
<1>21. UsesAllowed(c)' BY <1>4, <1>14 DEF UsesAllowed
<1>22. ChainInv(c)' BY <1>16, <1>17, <1>18, <1>19, <1>20, <1>21 DEF ChainInv
<1>23. NothingRuns' BY <1>3 DEF NothingRuns
<1>24. \A d \in Chain \ {c} :
          /\ NotFor(1, d, {"withdrawal", "rollback", "opt-in"})
          /\ NotFor(1, d, {"escalation", "result"})
          /\ preference'[d] = preference[d]
          /\ d \in closed' => StaysClosed(d)
          /\ d \in spent' => d \in spent
  BY <1>13 DEF StaysClosed
<1> QED BY <1>12, <1>14, <1>15, <1>22, <1>23, <1>24, Compose

LEMMA SettleStep ==
    ASSUME HealthInv, NEW ok \in BOOLEAN, Settle(ok)
    PROVE  HealthInv'
<1> DEFINE w == Head(queue)
           c == w.chain
<1>1. /\ queue # <<>> /\ preference' = preference /\ initialized' = initialized
      /\ disk' = IF ok THEN w.data ELSE disk
  BY DEF Settle
<1>2. /\ TypeOK /\ queue \in Seq(Write) /\ asked \subseteq [chain : Chain, reason : Reason]
      /\ record \in [Chain -> Record \cup {None}]
      /\ flight \in [Chain -> FlightRecord \cup {None}]
  BY DEF HealthInv, TypeOK
<1>3. 1 \in DOMAIN queue /\ w = queue[1] /\ w \in Write BY <1>1, <1>2, Positions
<1>4. c \in Chain /\ w.for \in Awaited BY <1>3, WriteIs
<1>5. disk' = disk \/ disk' = queue[1].data BY <1>1, <1>3
<1>6. ok => disk' = queue[1].data BY <1>1, <1>3
<1>7. \/ /\ w.for = "nobody" /\ queue' = Tail(queue)
         /\ UNCHANGED <<record, flight, asked, closed, denied, spent>>
      \/ w.for = "withdrawal" /\ Withdrawn(w, ok)
      \/ w.for = "opt-in" /\ OptedIn(w, ok)
      \/ w.for = "rollback" /\ RolledBack(w, ok)
      \/ w.for = "escalation" /\ Consumed(w, ok)
      \/ w.for = "result" /\ Finished(w, ok)
  BY Zenon DEF Settle
<1>8. ASSUME w.current, NEW what, w.for \in what PROVE Awaits(queue[1], c, what)
  BY <1>3, <1>8 DEF Awaits
<1> HIDE DEF w, c
<1>9. ASSUME queue' = Tail(queue) PROVE Ends BY <1>1, <1>5, <1>9 DEF Ends
<1>10. ASSUME queue' = Tail(queue), record' = record, flight' = flight,
              asked' = asked, closed' = closed /\ denied' = denied, spent' = spent
       PROVE  HealthInv'
  <2>1. Ends /\ asked' \subseteq [chain : Chain, reason : Reason] BY <1>2, <1>9, <1>10
  <2> QED BY <1>1, <1>4, <1>10, <2>1, EndsQuietly
<1>11. CASE w.for = "nobody"
  <2>1. queue' = Tail(queue) /\ UNCHANGED <<record, flight, asked, closed, denied, spent>>
    BY <1>7, <1>11
  <2> QED BY <1>10, <2>1
<1>12. CASE w.for \in {"withdrawal", "rollback"}
  <2>1. queue' = Tail(queue) /\ UNCHANGED <<record, flight, asked, spent>>
    BY <1>7, <1>12 DEF Withdrawn, RolledBack
  <2>2. CASE w.current /\ (ok \/ w.for = "rollback")
    <3>1. Ends BY <1>9, <2>1
    <3>2. Awaits(queue[1], c, {"withdrawal", "rollback"}) BY <1>8, <1>12, <2>2
    <3>3. /\ closed' = closed \cup {c}
          /\ denied' = IF ok THEN denied ELSE denied \cup {c}
      BY <1>7, <1>12, <2>2 DEF Withdrawn, RolledBack, c
    <3>4. c \notin denied' => disk' = queue[1].data BY <1>6, <3>3
    <3>5. denied' = denied \/ denied' = denied \cup {c} BY <3>3
    <3> QED BY <1>1, <1>4, <2>1, <3>1, <3>2, <3>3, <3>4, <3>5, ClosesStep
  <2>3. CASE ~(w.current /\ (ok \/ w.for = "rollback"))
    <3>1. closed' = closed /\ denied' = denied
      BY <1>7, <1>12, <2>3 DEF Withdrawn, RolledBack
    <3> QED BY <1>10, <2>1, <3>1
  <2> QED BY <2>2, <2>3
<1>13. CASE w.for = "opt-in"
  <2>1. OptedIn(w, ok) BY <1>7, <1>13
  <2>2. CASE ~w.current
    <3>1. queue' = Tail(queue) /\ UNCHANGED <<record, flight, asked, closed, denied, spent>>
      BY <2>1, <2>2 DEF OptedIn
    <3> QED BY <1>10, <3>1
  <2>3. CASE w.current
    <3> DEFINE old == record[c]
               r == Opted(old, ok)
    <3>1. Awaits(queue[1], c, {"opt-in"}) BY <1>8, <1>13, <2>3
    <3>2. /\ old \in Record /\ old.publicFallback = FALSE
          /\ DOMAIN old.effective = Capabilities(old)
          /\ AllowedTuple(c, old, old.effective) /\ Truthful(old, old.status)
      BY <1>3, <1>4, <3>1, ConsentIs
    <3>3. /\ r \in Record /\ r.preference = old.preference
          /\ DOMAIN r.effective = Capabilities(r)
          /\ r.publicFallback = ok /\ r.consentPending = FALSE
          /\ r.connectRecoveryAvailable = old.connectRecoveryAvailable
          /\ AllowedTuple(c, r, r.effective) /\ Truthful(r, r.status)
      BY <1>4, <3>2, OptedRecord
    <3>4. /\ record' = [record EXCEPT ![c] = r]
          /\ queue' = IF ~ok THEN Persist(Tail(queue), record', "rollback", c)
                      ELSE Tail(queue)
          /\ UNCHANGED <<flight, asked, closed, denied, spent>>
      BY <1>2, <1>4, <2>1, <2>3 DEF OptedIn, c, Opted
    <3> HIDE DEF r
    <3>5. CASE ok
      <4>1. Ends /\ disk' = queue[1].data BY <1>6, <1>9, <3>4, <3>5
      <4>2. r.publicFallback = TRUE BY <3>3, <3>5
      <4> QED BY <1>1, <1>4, <3>1, <3>3, <3>4, <4>1, <4>2, ConsentStep
    <3>6. CASE ~ok
      <4>1. queue' = Persist(Tail(queue), record', "rollback", c) BY <3>4, <3>6
      <4>2. disk' = disk /\ r.publicFallback = FALSE BY <1>1, <3>3, <3>6
      <4> QED BY <1>1, <1>4, <3>1, <3>3, <3>4, <4>1, <4>2, RollbackStep
    <3> QED BY <3>5, <3>6
  <2> QED BY <2>2, <2>3
<1>14. CASE w.for = "escalation"
  <2>1. Consumed(w, ok) /\ queue' = Tail(queue) /\ asked' = asked /\ closed' = closed /\ denied' = denied
    BY <1>7, <1>14 DEF Consumed
  <2>2. CASE ~w.current
    <3>1. UNCHANGED <<record, flight, spent>> BY <2>1, <2>2 DEF Consumed
    <3> QED BY <1>10, <2>1, <3>1
  <2>3. CASE w.current /\ ok
    <3>1. /\ record' = [record EXCEPT ![c] = [record[c] EXCEPT !.status = "checking"]]
          /\ flight' = [flight EXCEPT ![c] =
                [flight[c] EXCEPT !.phase = "preferred", !.previousStatus = "unknown"]]
          /\ spent' = spent \cup {c}
      BY <1>2, <1>4, <2>1, <2>3 DEF Consumed, c
    <3>2. Marks(c, [record[c] EXCEPT !.status = "checking"],
                   [flight[c] EXCEPT !.phase = "preferred", !.previousStatus = "unknown"])
      BY <3>1 DEF Marks
    <3>3. Awaits(queue[1], c, {"escalation"}) BY <1>8, <1>14, <2>3
    <3>4. Ends /\ disk' = queue[1].data BY <1>6, <1>9, <2>1, <2>3
    <3>5. spent' = spent \cup {c} BY <3>1
    <3> QED BY <1>1, <1>4, <2>1, <3>2, <3>3, <3>4, <3>5, ConsumedStep, Zenon
  <2>4. CASE w.current /\ ~ok
    <3> DEFINE old == record[c]
               status == flight[c].previousStatus
               r == [old EXCEPT !.status = status]
    <3>1. /\ record' = [record EXCEPT ![c] = r]
          /\ flight' = [flight EXCEPT ![c] = None] /\ spent' = spent
      BY <1>2, <1>4, <2>1, <2>4 DEF Consumed, c
    <3>2. Marks(c, r, None) BY <3>1 DEF Marks
    <3>3. Awaits(queue[1], c, {"escalation"}) /\ Awaits(queue[1], c, {"escalation", "result"})
      BY <1>8, <1>14, <2>4
    <3>4. /\ flight[c] # None /\ flight[c].phase = "consuming"
          /\ flight[c] \in FlightRecord /\ old \in Record /\ Truthful(old, status)
      <4>1. UsesAllowed(c) /\ FlightWaits(c) BY <1>4 DEF HealthInv, ChainInv
      <4>2. flight[c] # None /\ flight[c].phase = "consuming"
        BY <1>3, <3>3, <4>1 DEF FlightWaits
      <4> QED BY <1>2, <1>4, <4>1, <4>2, TypesOf DEF UsesAllowed
    <3>5. status \in Status BY <3>4 DEF FlightRecord
    <3> HIDE DEF old, status
    <3>6. /\ r \in Record /\ r.preference = old.preference
          /\ r.publicFallback = old.publicFallback /\ r.consentPending = old.consentPending
          /\ r.effective = old.effective /\ r.status = status
          /\ r.connectRecoveryAvailable = old.connectRecoveryAvailable
      <4> HIDE DEF Preference, Tuple, Status
      <4> QED BY <3>4, <3>5 DEF Record
    <3> HIDE DEF r
    <3>7. Truthful(old, r.status) BY <3>4, <3>6
    <3>8. Ends /\ asked' \subseteq [chain : Chain, reason : Reason] BY <1>2, <1>9, <2>1
    <3>9. spent' = spent BY <3>1
    <3> QED BY <1>1, <1>4, <2>1, <3>2, <3>3, <3>6, <3>7, <3>8, <3>9, LandsStep DEF old
  <2> QED BY <2>2, <2>3, <2>4
<1>15. CASE w.for = "result"
  <2>1. Finished(w, ok) /\ queue' = Tail(queue) /\ record' = record
        /\ closed' = closed /\ denied' = denied /\ spent' = spent
    BY <1>7, <1>15 DEF Finished
  <2>2. CASE ~w.current
    <3>1. UNCHANGED <<flight, asked>> BY <2>1, <2>2 DEF Finished
    <3> QED BY <1>10, <2>1, <3>1
  <2>3. CASE w.current
    <3>1. /\ flight' = [flight EXCEPT ![c] = None]
          /\ asked' = IF ok /\ flight[c].followup # None
                      THEN asked \cup {[chain |-> c, reason |-> flight[c].followup]}
                      ELSE asked
      BY <2>1, <2>3 DEF Finished, c
    <3>2. Awaits(queue[1], c, {"escalation", "result"}) BY <1>8, <1>15, <2>3
    <3>3. /\ flight[c] \in FlightRecord /\ record[c] \in Record
          /\ Truthful(record[c], record[c].status)
      <4>1. UsesAllowed(c) /\ FlightWaits(c) BY <1>4 DEF HealthInv, ChainInv
      <4>2. flight[c] # None BY <1>3, <3>2, <4>1 DEF FlightWaits
      <4> QED BY <1>2, <1>4, <4>1, <4>2, TypesOf DEF UsesAllowed
    <3>4. flight[c].followup \in Reason \cup {None} BY <3>3 DEF FlightRecord
    <3>5. asked' \subseteq [chain : Chain, reason : Reason]
      BY <1>2, <1>4, <3>1, <3>4
    <3>6. Marks(c, record[c], None)
      <4>1. record = [record EXCEPT ![c] = record[c]] BY <1>2, <1>4, Same
      <4> QED BY <2>1, <3>1, <4>1 DEF Marks
    <3>7. Ends BY <1>9, <2>1
    <3> QED BY <1>1, <1>4, <2>1, <3>2, <3>3, <3>5, <3>6, <3>7, LandsStep
  <2> QED BY <2>2, <2>3
<1> QED BY <1>4, <1>11, <1>12, <1>13, <1>14, <1>15 DEF Awaited

-----------------------------------------------------------------------------
(* The other steps. *)

LEMMA TickStep ==
    ASSUME HealthInv, NEW c \in Chain, Tick(c)
    PROVE  HealthInv'
<1>1. /\ TypeOK /\ record[c] # None
      /\ record \in [Chain -> Record \cup {None}]
      /\ flight \in [Chain -> FlightRecord \cup {None}]
      /\ asked \subseteq [chain : Chain, reason : Reason]
      /\ UsesAllowed(c) /\ FlightWaits(c)
      /\ flight' = flight /\ queue' = queue /\ spent' = spent /\ disk' = disk
      /\ preference' = preference /\ initialized' = initialized
      /\ asked' = asked /\ closed' = closed /\ denied' = denied
  BY DEF HealthInv, ChainInv, TypeOK, Tick
<1>2. /\ record[c] \in Record /\ flight[c] \in FlightRecord \cup {None}
      /\ DOMAIN record[c].effective = Capabilities(record[c])
      /\ flight[c] # None => ~record[c].consentPending
  BY <1>1, TypesOf
<1> DEFINE old == record[c]
           r == [old EXCEPT !.due = TRUE]
           f == flight[c]
<1>3. record' = [record EXCEPT ![c] = r] BY <1>1 DEF Tick
<1>4. flight' = [flight EXCEPT ![c] = f] BY <1>1, Same
<1>5. old \in Record BY <1>2
<1> HIDE DEF old, f
<1>6. /\ r \in Record /\ r.preference = old.preference
      /\ r.publicFallback = old.publicFallback /\ r.consentPending = old.consentPending
      /\ r.effective = old.effective /\ r.status = old.status
      /\ r.connectRecoveryAvailable = old.connectRecoveryAvailable
  <2> HIDE DEF Preference, Tuple
  <2> QED BY <1>5 DEF Record
<1> HIDE DEF r
<1>7. Preferred(r) = Preferred(old) /\ Capabilities(r) = Capabilities(old)
  BY <1>6 DEF Preferred, Capabilities
<1>8. /\ TypeOK' /\ SameChoices(c) /\ initialized'
      /\ record'[c] = r /\ flight'[c] = f
      /\ \A d \in Chain \ {c} : record'[d] = record[d] /\ flight'[d] = flight[d]
  <2>1. "nobody" \in Awaited BY DEF Awaited
  <2>2. f \in FlightRecord \cup {None} BY <1>2 DEF f
  <2>3. Becomes(c, r, f) /\ Writes(c, "nobody")
    BY <1>1, <1>3, <1>4 DEF Becomes, Writes
  <2>4. Chosen(c, r) BY <1>2, <1>6, <1>7 DEF Chosen, old
  <2>5. f # None => ~record[c].consentPending BY <1>2 DEF f
  <2> QED BY <1>1, <1>6, <2>1, <2>2, <2>3, <2>4, <2>5, Flown
<1>9. UsesAllowed(c)'
  <2>1. AllowedTuple(c, r, r.effective) /\ Truthful(r, r.status)
    BY <1>1, <1>6, <1>7 DEF UsesAllowed, AllowedTuple, Truthful, old
  <2>2. \A tuple : AllowedTuple(c, old, tuple) => AllowedTuple(c, r, tuple)
    BY <1>6, <1>7 DEF AllowedTuple
  <2>3. \A status : Truthful(old, status) => Truthful(r, status)
    BY <1>6, <1>7 DEF Truthful
  <2> QED BY <1>1, <1>6, <1>7, <1>8, <2>1, <2>2, <2>3 DEF UsesAllowed, old, f
<1>10. FlightWaits(c)'
  <2>1. Moved(0, c) /\ NotFor(0, c, {"escalation", "result"}) BY <1>1, Unmoved
  <2>2. flight[c] # None => /\ flight'[c] # None /\ flight'[c].phase = flight[c].phase
                            /\ record'[c].connectRecoveryAvailable
                                  => record[c].connectRecoveryAvailable
    BY <1>6, <1>8 DEF f, old
  <2> QED BY <1>1, <1>8, <2>1, <2>2, KeepsFlight
<1> QED BY <1>1, <1>8, <1>9, <1>10, Quiet

LEMMA RestartStep ==
    ASSUME HealthInv, Restart
    PROVE  HealthInv'
<1>1. /\ TypeOK /\ initialized' = FALSE /\ queue' = <<>> /\ asked' = {}
      /\ record' = [c \in Chain |-> None] /\ flight' = [c \in Chain |-> None]
      /\ preference' = preference /\ closed' = closed \ denied /\ denied' = {} /\ spent' = spent
      /\ disk' = disk \/ (queue # <<>> /\ disk' = Head(queue).data)
  BY DEF HealthInv, Restart
<1>2. /\ preference \in [Chain -> Preference \cup {None}]
      /\ closed \subseteq Chain /\ denied \subseteq Chain /\ spent \subseteq Chain
      /\ disk \in [Chain -> StoredRecord \cup {None}] /\ queue \in Seq(Write)
  BY <1>1 DEF TypeOK
<1>3. queue # <<>> => /\ 1 \in DOMAIN queue /\ Head(queue) = queue[1]
                      /\ queue[1] \in Write
  BY <1>2, Positions
<1>4. disk' \in [Chain -> StoredRecord \cup {None}]
  <2>1. queue # <<>> => queue[1].data \in [Chain -> StoredRecord \cup {None}]
    BY <1>3, WriteIs
  <2> QED BY <1>1, <1>2, <1>3, <2>1
<1>5. queue' \in Seq(Write) /\ DOMAIN queue' = {} BY <1>1
<1>6. /\ record' \in [Chain -> Record \cup {None}]
      /\ flight' \in [Chain -> FlightRecord \cup {None}]
      /\ \A c \in Chain : record'[c] = None /\ flight'[c] = None
  BY <1>1
<1>7. TypeOK' BY <1>1, <1>2, <1>4, <1>5, <1>6 DEF TypeOK
<1>8. NothingRuns' BY <1>1, <1>6 DEF NothingRuns
<1>9. ASSUME NEW c \in Chain PROVE ChainInv(c)'
  <2>1. ClosedKept(c) /\ SpentKept(c) BY DEF HealthInv, ChainInv
  <2>2. disk'[c] = disk[c] \/ (1 \in DOMAIN queue /\ disk'[c] = queue[1].data[c])
    BY <1>1, <1>3
  <2>3. ClosedKept(c)' BY <1>1, <1>5, <1>6, <2>1, <2>2 DEF ClosedKept
  <2>4. SpentKept(c)' BY <1>1, <1>5, <1>6, <2>1, <2>2 DEF SpentKept
  <2>5. UsesAllowed(c)' /\ ConsentKept(c)' BY <1>6 DEF UsesAllowed, ConsentKept
  <2>6. ChoiceWaits(c)' /\ FlightWaits(c)' BY <1>5 DEF ChoiceWaits, FlightWaits
  <2> QED BY <2>3, <2>4, <2>5, <2>6 DEF ChainInv
<1> QED BY <1>7, <1>8, <1>9 DEF HealthInv

LEMMA InitializeStep ==
    ASSUME HealthInv, Initialize
    PROVE  HealthInv'
<1>1. /\ TypeOK /\ NothingRuns /\ ~initialized /\ initialized' = TRUE
      /\ preference' = preference /\ flight' = flight /\ asked' = asked
      /\ queue' = queue /\ disk' = disk /\ closed' = closed /\ denied' = denied /\ spent' = spent
  BY DEF HealthInv, Initialize
<1>2. /\ queue = <<>> /\ DOMAIN queue = {} /\ closed \cap denied = {}
      /\ \A c \in Chain : flight[c] = None
  BY <1>1 DEF NothingRuns
<1>3. PICK fresh \in SUBSET Checked, due \in SUBSET Checked :
         record' = [c \in Chain |->
             IF preference[c] = None THEN None
             ELSE IF disk[c] # None /\ disk[c].preference = preference[c]
                  THEN Restored(c, NewRecord(preference[c]), disk[c], c \in fresh, c \in due)
                  ELSE NewRecord(preference[c])]
  BY DEF Initialize
<1>4. ASSUME NEW c \in Chain
      PROVE  /\ record'[c] \in Record \cup {None}
             /\ record'[c] # None <=> preference[c] # None
             /\ record'[c] # None =>
                   /\ record'[c].preference = preference[c]
                   /\ DOMAIN record'[c].effective = Capabilities(record'[c])
                   /\ ~record'[c].consentPending
                   /\ record'[c].status = "unknown"
                   /\ AllowedTuple(c, record'[c], record'[c].effective)
                   /\ record'[c].publicFallback =>
                         Kept(disk[c], preference[c]) \/ ~preference[c].manual
                   /\ Shut(disk[c], preference[c]) =>
                         Off(record'[c])
                   /\ record'[c].connectRecoveryAvailable =>
                         disk[c] # None /\ disk[c].connectRecoveryAvailable
  <2>1. preference[c] \in Preference \cup {None} /\ disk[c] \in StoredRecord \cup {None}
    BY <1>1, TypesOf
  <2>2. CASE preference[c] = None BY <1>3, <2>2
  <2>3. CASE preference[c] # None
    <3>1. preference[c] \in Preference BY <2>1, <2>3
    <3>2. CASE disk[c] # None /\ disk[c].preference = preference[c]
      <4> DEFINE f == c \in fresh
                 d == c \in due
                 new == Restored(c, NewRecord(preference[c]), disk[c], f, d)
      <4>1. record'[c] = new BY <1>3, <2>3, <3>2
      <4>2. disk[c] \in StoredRecord BY <2>1, <3>2
      <4>3. f \in BOOLEAN /\ d \in BOOLEAN OBVIOUS
      <4> HIDE DEF f, d
      <4>4. /\ new \in Record
            /\ new.preference = preference[c]
            /\ DOMAIN new.effective = Capabilities(new)
            /\ ~new.consentPending
            /\ new.status = "unknown"
            /\ new.publicFallback = disk[c].publicFallback
            /\ new.connectRecoveryAvailable => disk[c].connectRecoveryAvailable
            /\ AllowedTuple(c, new, new.effective)
        BY <3>1, <3>2, <4>2, <4>3, RestoredType
      <4> HIDE DEF new
      <4>5. new # None BY <4>4, HealthAssumption
      <4> QED BY <2>3, <3>2, <4>1, <4>4, <4>5 DEF Kept, Shut, Off
    <3>3. CASE ~(disk[c] # None /\ disk[c].preference = preference[c])
      <4> DEFINE new == NewRecord(preference[c])
      <4>1. record'[c] = new BY <1>3, <2>3, <3>3
      <4>2. /\ new \in Record /\ new.preference = preference[c]
            /\ new.publicFallback = ~preference[c].manual
            /\ new.consentPending = FALSE /\ new.status = "unknown"
            /\ new.connectRecoveryAvailable = FALSE
            /\ DOMAIN new.effective = Capabilities(new)
            /\ new.effective = Preferred(new)
        BY <3>1, NewRecordType, NewRecordFits
      <4> HIDE DEF new
      <4>3. new # None BY <4>2, HealthAssumption
      <4>4. AllowedTuple(c, new, new.effective) BY <4>2, EffectiveAllowed
      <4>5. ~Shut(disk[c], preference[c]) BY <3>3 DEF Shut
      <4> QED BY <2>3, <4>1, <4>2, <4>3, <4>4, <4>5
    <3> QED BY <3>2, <3>3
  <2> QED BY <2>2, <2>3
<1>5. record' = [c \in Chain |-> record'[c]] BY <1>3
<1>6. record' \in [Chain -> Record \cup {None}] BY <1>4, <1>5
<1>7. TypeOK' BY <1>1, <1>2, <1>4, <1>6 DEF TypeOK
<1>8. NothingRuns' BY <1>1 DEF NothingRuns
<1>9. ASSUME NEW c \in Chain PROVE ChainInv(c)'
  <2>1. ClosedKept(c) /\ SpentKept(c) BY DEF HealthInv, ChainInv
  <2>2. flight'[c] = None /\ DOMAIN queue' = {} BY <1>1, <1>2
  <2>3. UsesAllowed(c)' BY <1>4, <2>2 DEF UsesAllowed, Truthful
  <2>4. ConsentKept(c)' BY <1>1, <1>4, <2>2 DEF ConsentKept
  <2>5. ClosedKept(c)'
    <3>1. c \in closed => preference[c] # None /\ Shut(disk[c], preference[c])
      BY <1>2, <2>1 DEF ClosedKept
    <3> QED BY <1>1, <1>4, <2>2, <3>1 DEF ClosedKept
  <2>6. SpentKept(c)' BY <1>1, <1>4, <2>1, <2>2 DEF SpentKept
  <2>7. ChoiceWaits(c)' /\ FlightWaits(c)' BY <2>2 DEF ChoiceWaits, FlightWaits
  <2> QED BY <2>3, <2>4, <2>5, <2>6, <2>7 DEF ChainInv
<1> QED BY <1>7, <1>8, <1>9 DEF HealthInv

LEMMA InitHolds == Init => HealthInv
<1> SUFFICES ASSUME Init PROVE HealthInv OBVIOUS
<1>1. /\ preference \in [Chain -> UNION {Preferences[c] : c \in Chain}]
      /\ \A c \in Chain : preference[c] \in Preferences[c]
      /\ record = [c \in Chain |-> None] /\ flight = [c \in Chain |-> None]
      /\ asked = {} /\ queue = <<>> /\ disk = [c \in Chain |-> None]
      /\ initialized = FALSE /\ closed = {} /\ denied = {} /\ spent = {}
  BY DEF Init
<1>2. preference \in [Chain -> Preference]
  <2>1. \A c \in Chain : preference[c] \in Preference BY <1>1, HealthAssumption, Zenon
  <2> QED BY <1>1, <2>1
<1>3. /\ record \in [Chain -> Record \cup {None}] /\ flight \in [Chain -> FlightRecord \cup {None}]
      /\ disk \in [Chain -> StoredRecord \cup {None}] /\ queue \in Seq(Write)
      /\ preference \in [Chain -> Preference \cup {None}] /\ DOMAIN queue = {}
      /\ \A c \in Chain : record[c] = None /\ flight[c] = None
  BY <1>1, <1>2
<1>4. TypeOK BY <1>1, <1>3 DEF TypeOK
<1>5. NothingRuns BY <1>1, <1>3 DEF NothingRuns
<1>6. ASSUME NEW c \in Chain PROVE ChainInv(c)
  BY <1>1, <1>3 DEF ChainInv, UsesAllowed, ConsentKept, ClosedKept, SpentKept,
                    ChoiceWaits, FlightWaits
<1> QED BY <1>4, <1>5, <1>6 DEF HealthInv

LEMMA StutterStep ==
    ASSUME HealthInv, UNCHANGED vars
    PROVE  HealthInv'
<1>1. /\ preference' = preference /\ record' = record /\ flight' = flight
      /\ asked' = asked /\ queue' = queue /\ disk' = disk
      /\ initialized' = initialized /\ closed' = closed /\ denied' = denied /\ spent' = spent
  BY DEF vars, coordinator
<1>2. TypeOK' BY <1>1 DEF HealthInv, TypeOK
<1>3. NothingRuns' BY <1>1 DEF HealthInv, NothingRuns
<1>4. \A c \in Chain : ChainInv(c)'
  BY <1>1 DEF HealthInv, ChainInv, UsesAllowed, ConsentKept, ClosedKept,
              SpentKept, ChoiceWaits, FlightWaits
<1> QED BY <1>2, <1>3, <1>4 DEF HealthInv

LEMMA NextHolds ==
    ASSUME HealthInv, [Next]_vars
    PROVE  HealthInv'
<1>1. CASE Initialize BY <1>1, InitializeStep
<1>2. CASE Restart BY <1>2, RestartStep
<1>3. ASSUME NEW c \in Chain, Request(c) PROVE HealthInv'
  <2>1. CASE PreferencesChanged(c) BY <2>1, PreferencesChangedStep
  <2>2. CASE Withdraw(c) BY <2>2, WithdrawStep
  <2>3. CASE OptIn(c) BY <2>3, OptInStep
  <2>4. ASSUME NEW reason \in Reason, Check(c, reason) PROVE HealthInv'
    BY <2>4, CheckStep
  <2> QED BY <1>3, <2>1, <2>2, <2>3, <2>4 DEF Request
<1>4. ASSUME NEW c \in Chain, Fly(c) PROVE HealthInv' BY <1>4, FlyStep
<1>5. ASSUME NEW c \in Checked, CheckDue(c) PROVE HealthInv'
  <2>1. c \in Chain /\ Check(c, "automatic") BY <1>5, HealthAssumption DEF CheckDue
  <2> QED BY <2>1, CheckStep
<1>6. ASSUME NEW c \in Checked, Tick(c) PROVE HealthInv'
  <2>1. c \in Chain BY HealthAssumption
  <2> QED BY <1>6, <2>1, TickStep
<1>7. ASSUME NEW x \in asked, FollowUp(x) PROVE HealthInv' BY <1>7, FollowUpStep
<1>8. ASSUME NEW ok \in BOOLEAN, Settle(ok) PROVE HealthInv' BY <1>8, SettleStep
<1>9. CASE UNCHANGED vars BY <1>9, StutterStep
<1> QED BY <1>1, <1>2, <1>3, <1>4, <1>5, <1>6, <1>7, <1>8, <1>9 DEF Next

-----------------------------------------------------------------------------
\* HealthInv, which relates records, flights, the store and every queued write,
\* is an invariant of the coordinator of endpoint-health.ts.
THEOREM HealthInvariant == Spec => []HealthInv
<1>1. Init => HealthInv BY InitHolds
<1>2. HealthInv /\ [Next]_vars => HealthInv' BY NextHolds
<1> QED BY <1>1, <1>2, PTL DEF Spec

\* Records, flights, writes and what is stored have their types and belong to
\* the preferences, at every step of init(), check(), runCheck() and persist().
THEOREM TypeCorrect == Spec => []TypeOK
<1>1. HealthInv => TypeOK BY DEF HealthInv
<1> QED BY <1>1, HealthInvariant, PTL

\* Endpoints of the inventory are used and probed only while the user lets
\* them be, for any inventory (allowed() and runCheck()).
THEOREM UsesOnlyAllowed == Spec => []OnlyAllowed
<1>1. HealthInv => OnlyAllowed
  BY DEF HealthInv, ChainInv, UsesAllowed, OnlyAllowed, AllowedTuple
<1> QED BY <1>1, HealthInvariant, PTL

\* A consent that the user had to give is in the store while it counts, however
\* writes are queued and fail (setPublicFallback(), persist()).
THEOREM ConsentStored == Spec => []ConsentIsStored
<1>1. HealthInv => ConsentIsStored
  <2> SUFFICES ASSUME HealthInv, NEW c \in Chain, record[c] # None,
                      record[c].preference.manual, record[c].publicFallback
               PROVE  /\ disk[c] # None
                      /\ disk[c].preference = record[c].preference
                      /\ disk[c].publicFallback
    BY DEF ConsentIsStored
  <2>1. Kept(disk[c], preference[c]) BY DEF HealthInv, ChainInv, ConsentKept
  <2>2. record[c].preference = preference[c] BY TypesOf DEF HealthInv
  <2> QED BY <2>1, <2>2 DEF Kept
<1> QED BY <1>1, HealthInvariant, PTL

\* What the user knows to be off stays off, over checks, queued writes and
\* restarts (setPublicFallback(), init()).
THEOREM ClosedForGood == Spec => []ClosedStaysClosed
<1>1. HealthInv => ClosedStaysClosed
  <2> SUFFICES ASSUME HealthInv, NEW c \in closed, record[c] # None
               PROVE  /\ ~record[c].publicFallback /\ ~record[c].consentPending
                      /\ record[c].effective = Preferred(record[c])
    BY DEF ClosedStaysClosed
  <2>1. /\ c \in Chain /\ TypeOK BY DEF HealthInv, TypeOK
  <2>2. Off(record[c]) /\ AllowedTuple(c, record[c], record[c].effective)
    BY <2>1 DEF HealthInv, ChainInv, ClosedKept, UsesAllowed
  <2>3. /\ record[c] \in Record
        /\ DOMAIN record[c].effective = Capabilities(record[c])
    BY <2>1, TypesOf
  <2>4. \A k \in Capabilities(record[c]) : record[c].effective[k] = Preferred(record[c])[k]
    BY <2>2 DEF AllowedTuple, Allowed, Off
  <2>5. record[c].effective = Preferred(record[c])
    <3>1. record[c].effective \in Tuple BY <2>3 DEF Record
    <3>2. Preferred(record[c]) \in Tuple BY <2>3, PreferredIs
    <3> QED BY <2>3, <2>4, <3>1, <3>2, TuplesEqual DEF Capabilities
  <2> QED BY <2>2, <2>5 DEF Off
<1> QED BY <1>1, HealthInvariant, PTL

\* A chance of an early recovery is used once, also over restarts (the comment
\* of runCheck() on an already-used opportunity).
THEOREM ChanceOnce == Spec => []ChanceUsedOnce
<1>1. HealthInv => ChanceUsedOnce
  BY DEF HealthInv, TypeOK, ChainInv, SpentKept, ChanceUsedOnce
<1> QED BY <1>1, HealthInvariant, PTL

\* The status that the user sees tells which endpoints are in use (publish()).
THEOREM StatusTrue == Spec => []StatusIsTrue
<1>1. HealthInv => StatusIsTrue
  BY DEF HealthInv, ChainInv, UsesAllowed, Truthful, StatusIsTrue
<1> QED BY <1>1, HealthInvariant, PTL

=============================================================================
