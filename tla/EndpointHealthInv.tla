-------------------------- MODULE EndpointHealthInv --------------------------
(***************************************************************************)
(* The inductive invariant of EndpointHealth from which its safety         *)
(* properties follow.  It says, for each promise, what has to be true of   *)
(* the record, of the store and of every write that is still queued.       *)
(***************************************************************************)
EXTENDS EndpointHealth

\* A stored record keeps the fallback on, or off, for a preference.
Kept(saved, p) == saved # None /\ saved.preference = p /\ saved.publicFallback

Shut(saved, p) == saved # None /\ saved.preference = p /\ ~saved.publicFallback

Off(r) == r # None /\ ~r.publicFallback /\ ~r.consentPending

AllowedTuple(c, r, tuple) ==
    \A k \in Capabilities(r) :
        Allowed(c, Preferred(r), r.publicFallback, k, tuple[k])

\* The status says which endpoints are in use.
Truthful(r, status) ==
    /\ status = "healthy" => r.effective = Preferred(r)
    /\ status = "backup" => r.effective # Preferred(r)

\* Nothing runs before initialize(), and memory knows nothing.
NothingRuns ==
    ~initialized => /\ queue = <<>> /\ asked = {} /\ closed \cap denied = {}
                    /\ \A c \in Chain : flight[c] = None

\* What a record uses, and what a flight has selected, is allowed.
UsesAllowed(c) ==
    /\ record[c] # None => /\ AllowedTuple(c, record[c], record[c].effective)
                           /\ Truthful(record[c], record[c].status)
    /\ flight[c] # None /\ flight[c].phase = "profiles" =>
          /\ record[c].publicFallback
          /\ DOMAIN flight[c].selected = Capabilities(record[c])
          /\ AllowedTuple(c, record[c], flight[c].selected)
          /\ flight[c].profile \in DOMAIN Profiles[c]
    /\ flight[c] # None /\ flight[c].phase = "consuming" =>
          Truthful(record[c], flight[c].previousStatus)

\* A consent that counts is in the store and in every queued write.
ConsentKept(c) ==
    record[c] # None /\ record[c].preference.manual /\ record[c].publicFallback =>
        /\ Kept(disk[c], preference[c])
        /\ \A i \in DOMAIN queue : Kept(queue[i].data[c], preference[c])

\* What is known to be off is off in every queued write, and in the store
\* unless only memory knows it.
ClosedKept(c) ==
    c \in closed =>
        /\ preference[c] # None
        /\ record[c] # None => Off(record[c])
        /\ c \notin denied => Shut(disk[c], preference[c])
        /\ \A i \in DOMAIN queue : Shut(queue[i].data[c], preference[c])

\* A used chance is not in the store, nor in any queued write.
SpentKept(c) ==
    c \in spent =>
        /\ record[c] # None => ~record[c].connectRecoveryAvailable
        /\ disk[c] # None => ~disk[c].connectRecoveryAvailable
        /\ \A i \in DOMAIN queue :
              queue[i].data[c] # None => ~queue[i].data[c].connectRecoveryAvailable

Awaits(w, c, what) == w.current /\ w.chain = c /\ w.for \in what

\* While a choice waits for its write, the record and all later writes agree.
ChoiceWaits(c) ==
    \A i \in DOMAIN queue :
        /\ Awaits(queue[i], c, {"withdrawal", "rollback"}) =>
              /\ Off(record[c])
              /\ \A j \in DOMAIN queue : j >= i => Shut(queue[j].data[c], preference[c])
        /\ Awaits(queue[i], c, {"opt-in"}) =>
              /\ record[c] # None /\ record[c].consentPending
              /\ \A j \in DOMAIN queue : j >= i =>
                    /\ Kept(queue[j].data[c], preference[c])
                    /\ Awaits(queue[j], c, {"opt-in"}) => i = j

\* While a flight waits for its write, it is the only write that it waits for.
FlightWaits(c) ==
    \A i \in DOMAIN queue :
        /\ Awaits(queue[i], c, {"escalation", "result"}) =>
              /\ flight[c] # None
              /\ \A j \in DOMAIN queue :
                    Awaits(queue[j], c, {"escalation", "result"}) => i = j
        /\ Awaits(queue[i], c, {"escalation"}) =>
              /\ flight[c].phase = "consuming"
              /\ ~record[c].connectRecoveryAvailable
              /\ \A j \in DOMAIN queue : j >= i =>
                    /\ queue[j].data[c] # None
                    /\ ~queue[j].data[c].connectRecoveryAvailable
        /\ Awaits(queue[i], c, {"result"}) => flight[c].phase = "persisting"

ChainInv(c) ==
    /\ UsesAllowed(c)
    /\ ConsentKept(c)
    /\ ClosedKept(c)
    /\ SpentKept(c)
    /\ ChoiceWaits(c)
    /\ FlightWaits(c)

HealthInv == TypeOK /\ NothingRuns /\ \A c \in Chain : ChainInv(c)

=============================================================================
