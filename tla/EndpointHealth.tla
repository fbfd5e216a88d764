--------------------------- MODULE EndpointHealth ---------------------------
(***************************************************************************)
(* The coordinator of packages/background/src/chains/endpoint-health.ts.   *)
(* It probes the endpoints of a chain, uses public ones of an inventory    *)
(* when those that the user prefers fail and the user lets it, and goes    *)
(* back when they have recovered.                                          *)
(*                                                                         *)
(* A check is a flight that awaits probes and writes of the storage; calls *)
(* of the user, changes of preferences and flights of other chains         *)
(* interleave at every await.  One key of the storage holds the records of *)
(* all chains; writes are queued, each may fail, and the background can    *)
(* stop between any two steps.                                             *)
(*                                                                         *)
(* A token is only ever compared with that of the record.  Here a step     *)
(* that takes a new one makes the writes that are awaited under the old    *)
(* one no longer "current", and ends the flight: abort() settles its       *)
(* probes, and after a write it finds itself replaced.                     *)
(*                                                                         *)
(* Time is left out but for what it is compared with: whether a check is   *)
(* due, whether a selection has lasted long enough, whether stored history *)
(* is fresh; a receipt can expire at each probe.  Generations, revisions   *)
(* and what endpoints answer in detail are left out.                       *)
(***************************************************************************)
EXTENDS Naturals, Sequences

CONSTANTS
    Chain,        \* the chains of the inventory
    Endpoint,     \* URLs
    Checked,      \* bound: those that the user and the alarm act on
    Preferences,  \* Preferences[c]: what the user can prefer for a chain
    Profiles,     \* Profiles[c]: the endpoints of the inventory, in order
    RecoverAfter, \* failures after which an automatic check looks for others
    RestoreAfter, \* successes after which the preferred endpoint is used again
    MaxWrites,    \* bound: a request comes while fewer writes wait
    None

VARIABLES
    preference,  \* what the user prefers, in the service of the chains
    record,      \* records: the state of a chain, or None
    flight,      \* flights: the check of a chain under way, or None
    asked,       \* follow-ups whose flight has ended
    queue,       \* persistence: the writes not yet done, with what awaits them
    disk,        \* the stored records
    initialized,
    closed,      \* history: chains whose fallback the user knows to be off
    denied,      \* history: of these, a failed opt-in whose rollback failed, too
    spent        \* history: chains whose last chance of a recovery was used

coordinator == <<record, flight, asked, queue>>
vars == <<preference, coordinator, disk, initialized, closed, denied, spent>>

-----------------------------------------------------------------------------
Capability == {"rpc", "rest", "evmRpc"}

\* A tuple has an endpoint for some of the capabilities.
Tuple == UNION {[D -> Endpoint] : D \in SUBSET Capability}

Preference == [manual : BOOLEAN, endpoints : Tuple]

Status == {"unknown", "checking", "healthy", "backup", "degraded", "unavailable"}

\* HealthRecord, with its snapshot.
Record ==
    [preference : Preference, effective : Tuple, publicFallback : BOOLEAN,
     consentPending : BOOLEAN, status : Status, due : BOOLEAN,
     connectRecoveryAvailable : BOOLEAN,
     failures : [Capability -> 0 .. RecoverAfter],
     successes : [Capability -> 0 .. RestoreAfter]]

StoredRecord ==
    {saved \in [preference : Preference, effective : Tuple, publicFallback : BOOLEAN,
                connectRecoveryAvailable : BOOLEAN] :
        DOMAIN saved.effective = DOMAIN saved.preference.endpoints}

\* The receipt of a probe; one that was healthy can become "bad" with time.
Answer == {"healthy", "bad", "wrong-chain"}

Receipts == [Capability \X Endpoint -> Answer \cup {"unknown"}]

Reason == {"manual", "connect"}

\* Flight, with the local variables of its runCheck().
FlightRecord ==
    [phase : {"consuming", "preferred", "original", "profiles", "persisting"},
     immediateRecovery : BOOLEAN, previousStatus : Status,
     followup : Reason \cup {None}, profile : Nat, receipts : Receipts,
     selected : Tuple, needed : SUBSET Capability]

\* A write of the storage, and what awaits it.
Awaited == {"nobody", "withdrawal", "opt-in", "rollback", "escalation", "result"}

Write ==
    [data : [Chain -> StoredRecord \cup {None}],
     for : Awaited, chain : Chain, current : BOOLEAN]

ASSUME HealthAssumption ==
    /\ Checked \subseteq Chain
    /\ Preferences \in [Chain -> SUBSET Preference]
    /\ Profiles \in [Chain -> Seq(Tuple)]
    /\ None \notin Preference /\ None \notin Record
    /\ None \notin StoredRecord /\ None \notin FlightRecord
    /\ RecoverAfter \in Nat /\ RestoreAfter \in Nat /\ MaxWrites \in Nat

Preferred(r) == r.preference.endpoints

Capabilities(r) == DOMAIN Preferred(r)

counts == [k \in Capability |-> 0]

\* reconcile(): the record of a new preference.
NewRecord(p) ==
    [preference |-> p, effective |-> p.endpoints,
     publicFallback |-> ~p.manual, consentPending |-> FALSE,
     status |-> "unknown", due |-> TRUE, connectRecoveryAvailable |-> FALSE,
     failures |-> counts, successes |-> counts]

\* What persist() stores of a record, a consent that is pending included.
Stored(r) ==
    IF r = None THEN None
    ELSE [preference |-> r.preference, effective |-> r.effective,
          publicFallback |-> r.publicFallback \/ r.consentPending,
          connectRecoveryAvailable |-> r.connectRecoveryAvailable]

\* persist() of the records rs, called for c; "nobody" awaits the result.
Persist(q, rs, awaited, c) ==
    Append(q, [data |-> [d \in Chain |-> Stored(rs[d])],
               for |-> awaited, chain |-> c, current |-> TRUE])

\* The writes of q once c has a new token.
Fenced(q, c) ==
    [i \in DOMAIN q |-> [q[i] EXCEPT !.current = @ /\ q[i].chain # c]]

Flight(reason) ==
    [phase |-> "preferred", immediateRecovery |-> reason # "automatic",
     previousStatus |-> "unknown", followup |-> None, profile |-> 0,
     receipts |-> [x \in Capability \X Endpoint |-> "unknown"],
     selected |-> [k \in {} |-> None], needed |-> {}]

Init ==
    /\ preference \in [Chain -> UNION {Preferences[c] : c \in Chain}]
    /\ \A c \in Chain : preference[c] \in Preferences[c]
    /\ record = [c \in Chain |-> None]
    /\ flight = [c \in Chain |-> None]
    /\ asked = {} /\ queue = <<>>
    /\ disk = [c \in Chain |-> None]
    /\ initialized = FALSE
    /\ closed = {} /\ denied = {} /\ spent = {}

(***************************************************************************)
(* initialize(): choices outlive any time, history only while it is fresh, *)
(* both only for the preference that they were made for.  Whether a check  *)
(* is due after a restart is left open.                                    *)
(***************************************************************************)
Allowed(c, preferred, publicFallback, k, url) ==
    \/ url = preferred[k]
    \/ /\ publicFallback
       /\ \E i \in DOMAIN Profiles[c] :
             k \in DOMAIN Profiles[c][i] /\ url = Profiles[c][i][k]

\* (mutant of Restored: choices expire with the history.)
Restored_Expires(c, r, saved, fresh, due) ==
    IF fresh THEN [r EXCEPT !.publicFallback = saved.publicFallback, !.due = due,
                            !.effective = saved.effective,
                            !.connectRecoveryAvailable = saved.connectRecoveryAvailable]
    ELSE r

Restored(c, r, saved, fresh, due) ==
    [r EXCEPT
       !.due = due \/ ~fresh,
       !.publicFallback = saved.publicFallback,
       !.effective =
          IF fresh /\ \A k \in Capabilities(r) :
                Allowed(c, Preferred(r), saved.publicFallback, k, saved.effective[k])
          THEN saved.effective ELSE @,
       !.connectRecoveryAvailable =
          fresh /\ saved.publicFallback /\ saved.connectRecoveryAvailable]

Initialize ==
    /\ ~initialized
    /\ initialized' = TRUE
    /\ \E fresh \in SUBSET Checked, due \in SUBSET Checked :
          record' = [c \in Chain |->
             IF preference[c] = None THEN None
             ELSE IF disk[c] # None /\ disk[c].preference = preference[c]
                  THEN Restored(c, NewRecord(preference[c]), disk[c], c \in fresh, c \in due)
                  ELSE NewRecord(preference[c])]
    /\ UNCHANGED <<preference, flight, asked, queue, disk, closed, denied, spent>>

\* abort() of the flight of c, whose record takes a new token.
Fence(c) ==
    /\ flight' = [flight EXCEPT ![c] = None]
    /\ asked' = {x \in asked : x.chain # c}

(***************************************************************************)
(* The preference of a chain changes, or is not valid any more.  An        *)
(* initialized coordinator hears of it in the same step.                   *)
(***************************************************************************)
PreferencesChanged(c) ==
    /\ \E p \in Preferences[c] \cup {None} :
          /\ p # preference[c]
          /\ preference' = [preference EXCEPT ![c] = p]
          /\ IF initialized
             THEN /\ record' = [record EXCEPT ![c] = IF p = None THEN None ELSE NewRecord(p)]
                  /\ Fence(c)
                  /\ queue' = Persist(Fenced(queue, c), record', "nobody", c)
             ELSE UNCHANGED coordinator
    /\ closed' = closed \ {c} /\ denied' = denied \ {c}
    /\ UNCHANGED <<disk, initialized, spent>>

(***************************************************************************)
(* setPublicFallback(): the user withdraws the consent or gives it.  A     *)
(* consent waits for its write; a withdrawal holds at once.                *)
(***************************************************************************)
CanSet(c, enabled) ==
    /\ initialized /\ record[c] # None
    /\ record[c].publicFallback # enabled \/ record[c].consentPending

\* (mutants of Withdraw: the endpoints in use stay; the status stays.)
Withdraw_Keeps(c) ==
    /\ CanSet(c, FALSE)
    /\ record' = [record EXCEPT ![c] =
          [NewRecord(@.preference) EXCEPT !.publicFallback = FALSE,
                                          !.effective = record[c].effective]]
    /\ Fence(c)
    /\ queue' = Persist(Fenced(queue, c), record', "withdrawal", c)
    /\ denied' = denied \ {c}
    /\ UNCHANGED <<preference, disk, initialized, closed, spent>>

Withdraw_SameStatus(c) ==
    /\ CanSet(c, FALSE)
    /\ record' = [record EXCEPT ![c] =
          [NewRecord(@.preference) EXCEPT !.publicFallback = FALSE,
                                          !.status = record[c].status]]
    /\ Fence(c)
    /\ queue' = Persist(Fenced(queue, c), record', "withdrawal", c)
    /\ denied' = denied \ {c}
    /\ UNCHANGED <<preference, disk, initialized, closed, spent>>

Withdraw(c) ==
    /\ CanSet(c, FALSE)
    /\ record' = [record EXCEPT ![c] =
                    [NewRecord(@.preference) EXCEPT !.publicFallback = FALSE]]
    /\ Fence(c)
    /\ queue' = Persist(Fenced(queue, c), record', "withdrawal", c)
    /\ denied' = denied \ {c}
    /\ UNCHANGED <<preference, disk, initialized, closed, spent>>

\* (mutant of OptIn: the consent is published before it is written.)
OptIn_AtOnce(c) ==
    /\ CanSet(c, TRUE)
    /\ record' = [record EXCEPT ![c].publicFallback = TRUE,
                                ![c].connectRecoveryAvailable = FALSE]
    /\ Fence(c)
    /\ queue' = Persist(Fenced(queue, c), record', "opt-in", c)
    /\ closed' = closed \ {c} /\ denied' = denied \ {c}
    /\ UNCHANGED <<preference, disk, initialized, spent>>

OptIn(c) ==
    /\ CanSet(c, TRUE)
    /\ record' = [record EXCEPT ![c].consentPending = TRUE,
                                ![c].connectRecoveryAvailable = FALSE]
    /\ Fence(c)
    /\ queue' = Persist(Fenced(queue, c), record', "opt-in", c)
    /\ closed' = closed \ {c} /\ denied' = denied \ {c}
    /\ UNCHANGED <<preference, disk, initialized, spent>>

-----------------------------------------------------------------------------
(***************************************************************************)
(* check(): a request joins the flight of its chain or begins one.  An     *)
(* automatic check that has failed leaves one chance of an early recovery  *)
(* to the next request that is not automatic; it is used up in the storage *)
(* before any probe.                                                       *)
(***************************************************************************)
Escalates(c, reason) ==
    reason # "automatic" /\ record[c].publicFallback /\ record[c].connectRecoveryAvailable

\* A request that joins a flight changes it, or asks for one more check.
Joins(c, reason) ==
    /\ reason # "automatic"
    /\ flight[c].phase = "persisting" =>
          flight[c].followup = None /\ Escalates(c, reason)

Join(c, reason) ==
    /\ flight' = [flight EXCEPT ![c] =
                    IF @.phase = "persisting" THEN [@ EXCEPT !.followup = reason]
                                              ELSE [@ EXCEPT !.immediateRecovery = TRUE]]
    /\ UNCHANGED <<record, queue>>

Begin(c, reason) ==
    IF Escalates(c, reason)
    THEN /\ record' = [record EXCEPT ![c].connectRecoveryAvailable = FALSE,
                                     ![c].status = "checking", ![c].due = FALSE]
         /\ flight' = [flight EXCEPT ![c] =
               [Flight(reason) EXCEPT !.phase = "consuming",
                                      !.previousStatus = record[c].status]]
         /\ queue' = Persist(queue, record', "escalation", c)
    ELSE /\ record' = [record EXCEPT ![c].status = "checking"]
         /\ flight' = [flight EXCEPT ![c] = Flight(reason)]
         /\ UNCHANGED queue

\* The requests that change something.
Checks(c, reason) ==
    /\ record[c] # None
    /\ ~record[c].consentPending
    /\ IF flight[c] # None THEN Joins(c, reason)
       ELSE reason = "manual" \/ record[c].due \/ Escalates(c, reason)

DoCheck(c, reason) == IF flight[c] # None THEN Join(c, reason) ELSE Begin(c, reason)

Check(c, reason) ==
    /\ initialized
    /\ Checks(c, reason)
    /\ DoCheck(c, reason)
    /\ UNCHANGED <<preference, asked, disk, initialized, closed, denied, spent>>

\* (mutant of CheckDue: chains that are "checking" are left out.)
CheckDue_Skips(c) ==
    /\ record[c] # None /\ record[c].due /\ record[c].status # "checking"
    /\ Check(c, "automatic")

\* checkDue(), which an alarm calls every minute.
CheckDue(c) ==
    /\ record[c] # None /\ record[c].due
    /\ Check(c, "automatic")

\* The check that a request asked for while the result of a flight was written.
FollowUp(x) ==
    /\ asked' = asked \ {x}
    /\ IF Checks(x.chain, x.reason) THEN DoCheck(x.chain, x.reason)
                                    ELSE UNCHANGED <<record, flight, queue>>
    /\ UNCHANGED <<preference, disk, initialized, closed, denied, spent>>

-----------------------------------------------------------------------------
(***************************************************************************)
(* runCheck().  A probe finds an endpoint healthy, on the wrong chain or   *)
(* bad in one of many ways; a receipt that was healthy expires meanwhile,  *)
(* or is found to lag behind that of the other Cosmos service.             *)
(***************************************************************************)

\* The receipts after probeTuple() of a tuple for the capabilities wanted.
Probed(receipts, tuple, wanted) ==
    LET asks == {x \in Capability \X Endpoint :
                    /\ x[1] \in wanted \cap DOMAIN tuple /\ x[2] = tuple[x[1]]
                    /\ receipts[x] = "unknown"}
        healthy == {x \in Capability \X Endpoint : receipts[x] = "healthy"}
    IN {[x \in Capability \X Endpoint |->
            IF x \in asks THEN answer[x] ELSE IF x \in expired THEN "bad" ELSE receipts[x]] :
        answer \in [asks -> Answer], expired \in SUBSET healthy}

Healthy(receipts, k, url) == receipts[<<k, url>>] = "healthy"

\* The counters after the preferred endpoints were probed.
Counted(r, receipts) ==
    LET ok(k) == Healthy(receipts, k, Preferred(r)[k])
        Up(n, limit) == IF n < limit THEN n + 1 ELSE n
        After(k, n, isReset, limit) ==
            IF k \notin Capabilities(r) THEN n ELSE IF isReset THEN 0 ELSE Up(n, limit)
    IN [r EXCEPT
          !.failures = [k \in Capability |-> After(k, @[k], ok(k), RecoverAfter)],
          !.successes = [k \in Capability |-> After(k, @[k], ~ok(k), RestoreAfter)]]

\* The endpoints in use, those restored that have recovered for long enough.
Selected(r, receipts, resided) ==
    [k \in Capabilities(r) |->
       IF /\ Healthy(receipts, k, Preferred(r)[k])
          /\ \/ ~Healthy(receipts, k, r.effective[k])
             \/ r.successes[k] >= RestoreAfter /\ resided
       THEN Preferred(r)[k] ELSE r.effective[k]]

NeedsRecovery(r, f) ==
    {k \in Capabilities(r) :
        /\ ~Healthy(f.receipts, k, f.selected[k])
        /\ \/ f.immediateRecovery
           \/ r.failures[k] >= RecoverAfter
           \/ f.receipts[<<k, Preferred(r)[k]>>] = "wrong-chain"
           \/ f.selected[k] # Preferred(r)[k]}

Wanted(needed) ==
    (IF needed \cap {"rpc", "rest"} # {} THEN {"rpc", "rest"} ELSE {})
        \cup (needed \cap {"evmRpc"})

\* Of two healthy Cosmos services of different providers, one can lag.
Lagging(healthy) ==
    {{}} \cup (IF {"rpc", "rest"} \subseteq healthy THEN {{"rpc"}, {"rest"}} ELSE {})

StatusOf(r, selected, healthy) ==
    IF healthy = Capabilities(r)
    THEN IF selected = Preferred(r) THEN "healthy" ELSE "backup"
    ELSE IF healthy # {} THEN "degraded" ELSE "unavailable"

\* The check of c has its result: g is the flight and r the record by now.
Finish(c, g, r) ==
    LET seen == {k \in Capabilities(r) : Healthy(g.receipts, k, g.selected[k])} IN
    \E lag \in Lagging(seen) :
        LET chance == /\ ~g.immediateRecovery /\ g.profile = 0 /\ r.publicFallback
                      /\ seen \ lag # Capabilities(r) IN
        /\ record' = [record EXCEPT ![c] =
              [r EXCEPT !.effective = g.selected, !.due = FALSE,
                        !.status = StatusOf(r, g.selected, seen \ lag),
                        !.connectRecoveryAvailable = chance]]
        /\ flight' = [flight EXCEPT ![c] = [Flight("automatic") EXCEPT !.phase = "persisting"]]
        /\ queue' = Persist(queue, record', "result", c)
        /\ spent' = IF chance THEN spent \ {c} ELSE spent

\* The next profile is probed while a capability needs it.
Continue(c, g, r) ==
    LET needed == NeedsRecovery(r, g) IN
    IF r.publicFallback /\ g.profile < Len(Profiles[c]) /\ needed # {}
    THEN /\ record' = [record EXCEPT ![c] = r]
         /\ flight' = [flight EXCEPT ![c] =
               [g EXCEPT !.phase = "profiles", !.profile = @ + 1, !.needed = needed]]
         /\ UNCHANGED <<queue, spent>>
    ELSE Finish(c, g, r)

Decide(c, g) ==
    LET r == Counted(record[c], g.receipts) IN
    \E resided \in BOOLEAN :
        Continue(c, [g EXCEPT !.selected = Selected(r, g.receipts, resided)], r)

ProbePreferred(c) ==
    LET r == record[c] IN
    /\ flight[c].phase = "preferred"
    /\ \E receipts \in Probed(flight[c].receipts, Preferred(r), Capabilities(r)) :
          LET g == [flight[c] EXCEPT !.receipts = receipts] IN
          IF r.effective # Preferred(r)
          THEN /\ flight' = [flight EXCEPT ![c] = [g EXCEPT !.phase = "original"]]
               /\ UNCHANGED <<record, queue, spent>>
          ELSE Decide(c, g)

ProbeOriginal(c) ==
    /\ flight[c].phase = "original"
    /\ \E receipts \in Probed(flight[c].receipts, record[c].effective, Capabilities(record[c])) :
          Decide(c, [flight[c] EXCEPT !.receipts = receipts])

ProbeProfile(c) ==
    LET g == flight[c]
        tuple == Profiles[c][g.profile] IN
    /\ g.phase = "profiles"
    /\ \E receipts \in Probed(g.receipts, tuple, Wanted(g.needed)) :
          LET found == {k \in g.needed \cap DOMAIN tuple : Healthy(receipts, k, tuple[k])} IN
          Continue(c, [g EXCEPT !.receipts = receipts,
                                !.selected = [k \in DOMAIN @ |->
                                    IF k \in found THEN tuple[k] ELSE @[k]]],
                   record[c])

Fly(c) ==
    /\ flight[c] # None
    /\ ProbePreferred(c) \/ ProbeOriginal(c) \/ ProbeProfile(c)
    /\ UNCHANGED <<preference, asked, disk, initialized, closed, denied>>

-----------------------------------------------------------------------------
(***************************************************************************)
(* A write ends, well or not, and what awaits it goes on, unless the       *)
(* record has got a new token: w.                                          *)
(***************************************************************************)
\* The user learns that the fallback is off.
Withdrawn(w, ok) ==
    /\ closed' = IF ok /\ w.current THEN closed \cup {w.chain} ELSE closed
    /\ queue' = Tail(queue)
    /\ UNCHANGED <<record, flight, asked, denied, spent>>

\* A consent is published, or taken back from the storage as well.
OptedIn(w, ok) ==
    /\ record' = IF ~w.current THEN record
                 ELSE [record EXCEPT
                         ![w.chain].consentPending = FALSE,
                         ![w.chain].publicFallback = ok,
                         ![w.chain].due = ok \/ @,
                         ![w.chain].status = IF ok /\ @ = "checking" THEN "unknown" ELSE @]
    /\ queue' = IF w.current /\ ~ok
                THEN Persist(Tail(queue), record', "rollback", w.chain) ELSE Tail(queue)
    /\ UNCHANGED <<flight, asked, closed, denied, spent>>

\* The user learns that an opt-in has failed, whether its rollback was written
\* or not.
RolledBack(w, ok) ==
    /\ closed' = IF w.current THEN closed \cup {w.chain} ELSE closed
    /\ denied' = IF w.current /\ ~ok THEN denied \cup {w.chain} ELSE denied
    /\ queue' = Tail(queue)
    /\ UNCHANGED <<record, flight, asked, spent>>

\* (mutant of Consumed: the probes begin although the write failed.)
Consumed_Unsaved(w, ok) ==
    LET c == w.chain IN
    /\ IF ~w.current THEN UNCHANGED <<record, flight, spent>>
       ELSE /\ record' = [record EXCEPT ![c].status = "checking"]
            /\ flight' = [flight EXCEPT ![c].phase = "preferred", ![c].previousStatus = "unknown"]
            /\ spent' = spent \cup {c}
    /\ queue' = Tail(queue)
    /\ UNCHANGED <<asked, closed, denied>>

\* A chance is used up and the probes begin.
Consumed(w, ok) ==
    LET c == w.chain IN
    /\ IF ~w.current THEN UNCHANGED <<record, flight, spent>>
       ELSE IF ok
       THEN /\ record' = [record EXCEPT ![c].status = "checking"]
            /\ flight' = [flight EXCEPT ![c].phase = "preferred", ![c].previousStatus = "unknown"]
            /\ spent' = spent \cup {c}
       ELSE /\ record' = [record EXCEPT ![c].status = flight[c].previousStatus]
            /\ flight' = [flight EXCEPT ![c] = None]
            /\ UNCHANGED spent
    /\ queue' = Tail(queue)
    /\ UNCHANGED <<asked, closed, denied>>

\* A flight ends; a request that came meanwhile asks for another.
Finished(w, ok) ==
    LET c == w.chain IN
    /\ IF ~w.current THEN UNCHANGED <<flight, asked>>
       ELSE /\ flight' = [flight EXCEPT ![c] = None]
            /\ asked' = IF ok /\ flight[c].followup # None
                        THEN asked \cup {[chain |-> c, reason |-> flight[c].followup]}
                        ELSE asked
    /\ queue' = Tail(queue)
    /\ UNCHANGED <<record, closed, denied, spent>>

Settle(ok) ==
    /\ queue # <<>>
    /\ disk' = IF ok THEN Head(queue).data ELSE disk
    /\ LET w == Head(queue) IN
       \/ /\ w.for = "nobody"
          /\ queue' = Tail(queue)
          /\ UNCHANGED <<record, flight, asked, closed, denied, spent>>
       \/ w.for = "withdrawal" /\ Withdrawn(w, ok)
       \/ w.for = "opt-in" /\ OptedIn(w, ok)
       \/ w.for = "rollback" /\ RolledBack(w, ok)
       \/ w.for = "escalation" /\ Consumed(w, ok)
       \/ w.for = "result" /\ Finished(w, ok)
    /\ UNCHANGED <<preference, initialized>>

-----------------------------------------------------------------------------
\* Time passes until the next check is due.
Tick(c) ==
    /\ record[c] # None /\ ~record[c].due
    /\ record' = [record EXCEPT ![c].due = TRUE]
    /\ UNCHANGED <<preference, flight, asked, queue, disk, initialized, closed, denied, spent>>

(***************************************************************************)
(* The background stops, perhaps after the write under way, and starts     *)
(* again.  That an opt-in has failed was only in memory if the rollback    *)
(* was not written.                                                        *)
(***************************************************************************)
Restart ==
    /\ initialized /\ initialized' = FALSE
    /\ \/ UNCHANGED disk
       \/ queue # <<>> /\ disk' = Head(queue).data
    /\ record' = [c \in Chain |-> None] /\ flight' = [c \in Chain |-> None]
    /\ asked' = {} /\ queue' = <<>>
    /\ closed' = closed \ denied /\ denied' = {}
    /\ UNCHANGED <<preference, spent>>

Request(c) ==
    /\ Len(queue) < MaxWrites
    /\ \/ PreferencesChanged(c)
       \/ c \in Checked /\ (Withdraw(c) \/ OptIn(c))
       \/ c \in Checked /\ \E reason \in Reason : Check(c, reason)

Next ==
    \/ Initialize \/ Restart
    \/ \E c \in Chain : Request(c) \/ Fly(c)
    \/ \E c \in Checked : CheckDue(c) \/ Tick(c)
    \/ \E x \in asked : FollowUp(x)
    \/ \E ok \in BOOLEAN : Settle(ok)

(***************************************************************************)
(* Probes have a time limit, writes end, time passes and the alarm rings.  *)
(***************************************************************************)
Fairness ==
    /\ WF_vars(\E ok \in BOOLEAN : Settle(ok))
    /\ \A c \in Checked : WF_vars(Fly(c)) /\ WF_vars(Tick(c)) /\ WF_vars(CheckDue(c))

Spec == Init /\ [][Next]_vars

FairSpec == Spec /\ Fairness
-----------------------------------------------------------------------------
\* Records, flights, writes and what is stored have the values that the code
\* declares (types of endpoint-health.ts, 32-97): a record is that of the
\* preference and has its capabilities, and a flight has a record whose
\* consent is not being changed.
TypeOK ==
    /\ preference \in [Chain -> Preference \cup {None}]
    /\ record \in [Chain -> Record \cup {None}]
    /\ flight \in [Chain -> FlightRecord \cup {None}]
    /\ asked \subseteq [chain : Chain, reason : Reason]
    /\ queue \in Seq(Write)
    /\ disk \in [Chain -> StoredRecord \cup {None}]
    /\ initialized \in BOOLEAN
    /\ closed \subseteq Chain /\ denied \subseteq Chain /\ spent \subseteq Chain
    /\ \A c \in Chain :
          /\ record[c] # None <=> initialized /\ preference[c] # None
          /\ record[c] # None =>
                /\ record[c].preference = preference[c]
                /\ DOMAIN record[c].effective = Capabilities(record[c])
                /\ ~(record[c].publicFallback /\ record[c].consentPending)
          /\ flight[c] # None => record[c] # None /\ ~record[c].consentPending

\* Endpoints of the inventory are used and probed only while the user lets
\* them be, whatever was stored, restored or found by a check before
\* (allowed() in initialize(), runCheck()).
OnlyAllowed ==
    \A c \in Chain : record[c] # None =>
        /\ \A k \in Capabilities(record[c]) :
              Allowed(c, Preferred(record[c]), record[c].publicFallback, k, record[c].effective[k])
        /\ (flight[c] # None /\ flight[c].phase = "profiles") => record[c].publicFallback

\* A consent that the user had to give counts only once it is stored, and it
\* stays stored while it counts ("expose no consent to probes until the write
\* completes", setPublicFallback()).
ConsentIsStored ==
    \A c \in Chain :
        (record[c] # None /\ record[c].preference.manual /\ record[c].publicFallback) =>
            /\ disk[c] # None
            /\ disk[c].preference = record[c].preference /\ disk[c].publicFallback

\* Once the user knows that the fallback is off it is off until the next choice
\* or preference, over checks under way and queued writes.  Restarts keep it off
\* too after a withdrawal, and after an opt-in that failed and was taken back
\* from the storage; one whose rollback failed as well is off until the
\* background ends, after which a write of another chain that has captured the
\* pending intent counts as a consent (setPublicFallback(), initialize()).
ClosedStaysClosed ==
    \A c \in closed : record[c] # None =>
        /\ ~record[c].publicFallback /\ ~record[c].consentPending
        /\ record[c].effective = Preferred(record[c])

\* A chance of an early recovery that was used is not there again before the
\* next automatic failure ("A worker restart must not restore an already-used
\* opportunity", runCheck()).
ChanceUsedOnce ==
    \A c \in spent : record[c] # None => ~record[c].connectRecoveryAvailable

\* The status that the user sees tells which endpoints are in use, also after
\* choices that come between the steps of a check (runCheck(), publish()).
StatusIsTrue ==
    \A c \in Chain : record[c] # None =>
        /\ record[c].status = "healthy" => record[c].effective = Preferred(record[c])
        /\ record[c].status = "backup" => record[c].effective # Preferred(record[c])

\* A chain does not stay "checking": the check ends, or is replaced by a
\* later one, unless the user keeps changing the consent (check()).
CheckEnds ==
    \A c \in Chain :
        (record[c] # None /\ record[c].status = "checking")
            ~> (record[c] = None \/ record[c].status # "checking" \/ record[c].consentPending)
=============================================================================
