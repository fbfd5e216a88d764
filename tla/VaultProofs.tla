----------------------------- MODULE VaultProofs -----------------------------
(***************************************************************************)
(* VaultInv is an invariant of Vault for any pages, calls, keys and ids,   *)
(* and with it TypeOK and LockOutlivesTheWorker.  KeptInv is one for pages *)
(* that create and remove key rings alone, and with it every step of       *)
(* Vault has KeepsWallets.  KeyInv is one for one registration tab and one *)
(* popup until the background ends, and with it ReadableWhileOpen and      *)
(* CurrentOpens.                                                           *)
(***************************************************************************)
EXTENDS VaultInv, SequenceTheorems, WellFoundedInduction, TLAPS

-----------------------------------------------------------------------------
(* Sequences. *)

LEMMA Appended ==
    ASSUME NEW S, NEW q \in Seq(S), NEW e \in S
    PROVE  /\ Append(q, e) \in Seq(S)
           /\ Append(q, e) # <<>>
           /\ \A i \in DOMAIN q : i \in DOMAIN Append(q, e) /\ Append(q, e)[i] = q[i]
           /\ \A i \in DOMAIN Append(q, e) :
                (i \in DOMAIN q /\ Append(q, e)[i] = q[i])
                \/ (i = Len(q) + 1 /\ Append(q, e)[i] = e)
           /\ Len(q) + 1 \in DOMAIN Append(q, e) /\ Append(q, e)[Len(q) + 1] = e
           /\ \A i \in DOMAIN q : i < Len(q) + 1 /\ i \in Nat
BY AppendProperties, LenProperties

LEMMA Served ==
    ASSUME NEW S, NEW q \in Seq(S), q # <<>>
    PROVE  /\ Tail(q) \in Seq(S)
           /\ Head(q) = q[1] /\ 1 \in DOMAIN q /\ Head(q) \in S
           /\ \A i \in DOMAIN Tail(q) : i + 1 \in DOMAIN q /\ Tail(q)[i] = q[i + 1]
                                        /\ i \in Nat /\ i > 0
           /\ \A i \in DOMAIN q : i = 1 \/ (i - 1 \in DOMAIN Tail(q) /\ Tail(q)[i - 1] = q[i])
           /\ \A i \in DOMAIN q : i \in Nat /\ i > 0
BY HeadTailProperties, LenProperties

LEMMA Joined ==
    ASSUME NEW S, NEW p \in Seq(S), NEW q \in Seq(S)
    PROVE  /\ p \o q \in Seq(S)
           /\ \A i \in DOMAIN p : i \in DOMAIN (p \o q) /\ (p \o q)[i] = p[i]
           /\ \A k \in DOMAIN q : Len(p) + k \in DOMAIN (p \o q)
                                 /\ (p \o q)[Len(p) + k] = q[k]
           /\ \A i \in DOMAIN (p \o q) : i \in DOMAIN p \/ \E k \in DOMAIN q : i = Len(p) + k
<1> DEFINE s == p \o q
<1>1. /\ Len(p) \in Nat /\ Len(q) \in Nat /\ DOMAIN p = 1..Len(p) /\ DOMAIN q = 1..Len(q)
      /\ s \in Seq(S) /\ Len(s) = Len(p) + Len(q) /\ DOMAIN s = 1..Len(s)
      /\ \A i \in 1..Len(s) : s[i] = IF i <= Len(p) THEN p[i] ELSE q[i - Len(p)]
  BY ConcatProperties, LenProperties
<1> HIDE DEF s
<1>2. \A i \in DOMAIN p : i \in DOMAIN s /\ s[i] = p[i] BY <1>1
<1>3. \A k \in DOMAIN q : Len(p) + k \in DOMAIN s /\ s[Len(p) + k] = q[k] BY <1>1
<1>4. \A i \in DOMAIN s : i \in DOMAIN p \/ \E k \in DOMAIN q : i = Len(p) + k
  <2> TAKE i \in DOMAIN s
  <2>1. CASE i <= Len(p) BY <1>1, <2>1
  <2>2. CASE i > Len(p)
    <3>1. i - Len(p) \in DOMAIN q /\ i = Len(p) + (i - Len(p)) BY <1>1, <2>2
    <3> QED BY <3>1
  <2> QED BY <1>1, <2>1, <2>2
<1> QED BY <1>1, <1>2, <1>3, <1>4 DEF s

\* The naturals are well-founded: a set of positions has a last one.
Below == {p \in Nat \X Nat : p[1] < p[2]}

LEMMA BelowWellFounded == IsWellFoundedOn(Below, Nat)
BY NatLessThanWellFounded DEF OpToRel, Below

LEMMA HasLast ==
    ASSUME NEW n \in Nat, NEW T, T \subseteq 1..n, T # {}
    PROVE  \E i \in T : \A j \in T : j <= i
<1> DEFINE U == {n - i : i \in T}
<1>1. U \subseteq Nat /\ U # {}
  <2>1. \A i \in T : n - i \in Nat
    <3> TAKE i \in T
    <3>1. i \in 1..n OBVIOUS
    <3> QED BY <3>1
  <2>2. U \subseteq Nat BY <2>1, Zenon
  <2>3. PICK i \in T : TRUE OBVIOUS
  <2>4. n - i \in U OBVIOUS
  <2> QED BY <2>2, <2>4
<1>2. \E x \in U : \A y \in U : ~(<<y, x>> \in Below)
  <2> HIDE DEF U
  <2> QED BY <1>1, BelowWellFounded, WFMin
<1>3. PICK x \in U : \A y \in U : ~(<<y, x>> \in Below) BY <1>2
<1>4. PICK i \in T : x = n - i BY <1>3
<1>5. \A j \in T : j <= i
  <2> TAKE j \in T
  <2>1. n - j \in U OBVIOUS
  <2>2. ~(n - j < n - i) BY <2>1, <1>3, <1>4, <1>1 DEF Below
  <2> QED BY <2>2
<1> QED BY <1>5

-----------------------------------------------------------------------------
(* Records. *)

LEMMA Constants ==
    /\ None \notin Calls /\ None \notin Keys /\ None \notin Passwords /\ None \notin Ids
    /\ None \notin Ciphers /\ None \notin Counters
BY NoneAssumption DEF Ciphers, Counters

LEMMA BlankType == Blank \in Local /\ Empty \in Memory /\ Idle \in Call
BY EmptySeq DEF Blank, Empty, Idle, Local, Memory, Call, Points

\* What an item of the storage holds.
Kind(item) == CASE item = "vaults" -> SUBSET Vaults
                [] item = "counter" -> Keys \cup {None}
                [] OTHER -> Ciphers \cup {None}

LEMMA WriteType ==
    ASSUME NEW item \in Items, NEW value \in Kind(item), NEW c \in Calls \cup {None},
           NEW at \in Points
    PROVE  /\ Write(item, value, c, at) \in Writes
           /\ Write(item, value, c, at).by = c
           /\ Write(item, value, c, at).at = at
<1>1. [Blank EXCEPT ![item] = value] \in Local
  <2>1. CASE item = "cipher" \/ item = "mac"
    BY <2>1 DEF Blank, Local, Kind
  <2>2. CASE item = "counter"
    BY <2>2 DEF Blank, Local, Kind
  <2>3. CASE item = "vaults"
    BY <2>3 DEF Blank, Local, Kind
  <2> QED BY <2>1, <2>2, <2>3 DEF Items
<1> QED BY <1>1 DEF Write, Writes

LEMMA LocalItem ==
    ASSUME NEW r \in Local, NEW item \in Items
    PROVE  r[item] \in Kind(item)
<1>1. CASE item = "cipher" BY <1>1 DEF Local, Kind
<1>2. CASE item = "mac" BY <1>2 DEF Local, Kind
<1>3. CASE item = "counter" BY <1>3 DEF Local, Kind
<1>4. CASE item = "vaults" BY <1>4 DEF Local, Kind
<1> QED BY <1>1, <1>2, <1>3, <1>4 DEF Items

LEMMA StoredType ==
    ASSUME TypeOK, NEW item \in Items
    PROVE  Stored(item) \in Kind(item)
<1> DEFINE earlier == {i \in DOMAIN writes : writes[i].item = item}
<1>1. CASE earlier = {}
  BY <1>1, LocalItem DEF Stored, TypeOK, Items
<1>2. CASE earlier # {}
  <2> DEFINE i == CHOOSE i \in earlier : \A j \in earlier : j <= i
  <2>1. Len(writes) \in Nat /\ DOMAIN writes = 1..Len(writes)
    BY LenProperties DEF TypeOK
  <2>2. earlier \subseteq 1..Len(writes)
    BY <2>1
  <2>3. \E k \in earlier : \A j \in earlier : j <= k
    <3> HIDE DEF earlier
    <3> QED BY <2>1, <2>2, <1>2, HasLast
  <2>4. i \in earlier
    BY <2>3
  <2>5. writes[i] \in Writes
    BY <2>4, ElementOfSeq DEF TypeOK
  <2>6. Stored(item) = writes[i].value[item]
    BY <1>2 DEF Stored
  <2>7. writes[i].value \in Local
    BY <2>5 DEF Writes
  <2> HIDE DEF i, earlier
  <2> QED BY <2>6, <2>7, LocalItem DEF Items
<1> QED BY <1>1, <1>2

-----------------------------------------------------------------------------
(* What a step of one call means for the invariant. *)

\* A call has the arguments of its operation.
Argued(r) == /\ r.op = "create" => r.pw # None /\ r.id # None
             /\ r.op = "change" => r.new # None

\* Call c becomes r: it does not await anything, or only reads.
Moves(c, r) ==
    /\ call' = [call EXCEPT ![c] = r] /\ Argued(r) /\ Ready(r, r.at)
    /\ \/ call[c].at # "written"
       \/ r.at = call[c].at /\ r.op = call[c].op /\ r.key = call[c].key

\* The write at position m is new and awaited by c; others are old or awaited
\* by nobody.
LEMMA CallWrites ==
    ASSUME CallsInv, TypeOK, NEW c \in Calls, NEW r \in Call, NEW m,
           Moves(c, r), requests' = requests,
           \A i \in DOMAIN writes' :
             \/ i \in DOMAIN writes /\ writes'[i] = writes[i]
             \/ writes'[i].by = None
             \/ /\ i = m /\ writes'[i].by = c
                /\ call[c].at # "written" /\ r.at = "written" /\ Ready(r, writes'[i].at)
    PROVE  CallsInv'
<1> SUFFICES ASSUME NEW d \in Calls PROVE WaitsForOne(d)' /\ WellFormed(d)'
  BY DEF CallsInv
<1>1. WaitsForOne(d) /\ WellFormed(d) BY DEF CallsInv
<1>2. d # None BY Constants
<1>3. call'[d] = IF d = c THEN r ELSE call[d] BY DEF Moves, TypeOK
<1>4. WaitsForOne(d)'
  BY <1>1, <1>2, <1>3 DEF WaitsForOne, Moves
<1>5. WellFormed(d)'
  <2>1. CASE d # c
    BY <1>1, <1>2, <1>3, <2>1 DEF WellFormed
  <2>2. CASE d = c
    <3>1. \A i \in DOMAIN writes' : writes'[i].by = c => Ready(r, writes'[i].at)
      BY <1>1, <1>2, <2>2 DEF WellFormed, WaitsForOne, Moves, Ready
    <3>2. \A i \in DOMAIN requests : requests[i].by = c => Ready(r, requests[i].at)
      BY <1>1, <1>2, <2>2 DEF WellFormed, WaitsForOne, Moves, Ready
    <3> QED BY <1>3, <2>2, <3>1, <3>2 DEF WellFormed, Moves, Argued
  <2> QED BY <2>1, <2>2
<1> QED BY <1>4, <1>5

\* Call c awaits a request to the session.
LEMMA CallAsks ==
    ASSUME CallsInv, TypeOK, NEW c \in Calls, NEW r \in Call, NEW q \in Requests,
           Moves(c, r), call[c].at # "written", r.at = "written", writes' = writes,
           requests' = Append(requests, q), q.by = c, Ready(r, q.at)
    PROVE  CallsInv'
<1> SUFFICES ASSUME NEW d \in Calls PROVE WaitsForOne(d)' /\ WellFormed(d)'
  BY DEF CallsInv
<1>1. WaitsForOne(d) /\ WellFormed(d) BY DEF CallsInv
<1>2. \A i \in DOMAIN requests' : \/ i \in DOMAIN requests /\ requests'[i] = requests[i]
                                  \/ i = Len(requests) + 1 /\ requests'[i] = q
  BY Appended DEF TypeOK
<1>3. call'[d] = IF d = c THEN r ELSE call[d] BY DEF Moves, TypeOK
<1>4. CASE d = c
  <2>1. /\ \A i \in DOMAIN writes : writes[i].by # c
        /\ \A i \in DOMAIN requests : requests[i].by # c
    BY <1>1, <1>4 DEF WaitsForOne
  <2>2. WaitsForOne(d)'
    BY <1>2, <1>3, <1>4, <2>1 DEF WaitsForOne
  <2> QED BY <1>2, <1>3, <1>4, <2>1, <2>2 DEF WellFormed, Moves, Argued
<1>5. CASE d # c
  BY <1>1, <1>2, <1>3, <1>5 DEF WaitsForOne, WellFormed
<1> QED BY <1>4, <1>5

\* No call clears the session any more only if none did.
LEMMA LockedStep ==
    ASSUME LockedInSession, requests' = requests, session' = session,
           IsLocked' => IsLocked, \A d \in Calls : Clears(d) => Clears(d)'
    PROVE  LockedInSession'
BY DEF LockedInSession, Dropping, Dropped

LEMMA ClearsStep ==
    ASSUME TypeOK, NEW c \in Calls, NEW r \in Call, call' = [call EXCEPT ![c] = r],
           call[c].at = "cleared" => r.at = "cleared",
           \A i \in DOMAIN writes : i \in DOMAIN writes' /\ writes'[i] = writes[i]
    PROVE  \A d \in Calls : Clears(d) => Clears(d)'
<1> SUFFICES ASSUME NEW d \in Calls, Clears(d) PROVE Clears(d)'
  OBVIOUS
<1>1. call'[d] = IF d = c THEN r ELSE call[d] BY DEF TypeOK
<1>2. CASE call[d].at = "cleared" BY <1>1, <1>2 DEF Clears
<1>3. CASE call[d].at # "cleared"
  <2>1. PICK i \in DOMAIN writes : writes[i].by = d /\ writes[i].at = "cleared"
    BY <1>3 DEF Clears
  <2> QED BY <2>1 DEF Clears
<1> QED BY <1>2, <1>3

\* A step that requests nothing.
LEMMA LocalStep ==
    ASSUME VaultInv, TypeOK', KeyHasCounter', NEW c \in Calls, NEW r \in Call, Moves(c, r),
           UNCHANGED <<writes, requests, session>>, mem'.password = mem.password,
           call[c].at = "cleared" => r.at = "cleared"
    PROVE  VaultInv'
<1>1. CallsInv' BY CallWrites DEF VaultInv
<1>2. LockedInSession'
  BY LockedStep, ClearsStep DEF VaultInv, Moves, IsLocked
<1> QED BY <1>1, <1>2 DEF VaultInv

\* A step that requests a write; it may be the one of clearAll().
LEMMA WriteStep ==
    ASSUME VaultInv, TypeOK', KeyHasCounter', NEW c \in Calls, NEW r \in Call, NEW w \in Writes,
           Moves(c, r), UNCHANGED <<requests, session>>, mem'.password = mem.password,
           call[c].at # "cleared", writes' = Append(writes, w),
           \/ w.by = None
           \/ w.by = c /\ call[c].at # "written" /\ r.at = "written" /\ Ready(r, w.at)
    PROVE  VaultInv'
<1>1. /\ \A i \in DOMAIN writes : i \in DOMAIN writes' /\ writes'[i] = writes[i]
      /\ \A i \in DOMAIN writes' : \/ i \in DOMAIN writes /\ writes'[i] = writes[i]
                                   \/ i = Len(writes) + 1 /\ writes'[i] = w
  BY Appended DEF VaultInv, TypeOK
<1>2. CallsInv'
  <2> DEFINE m == Len(writes) + 1
  <2>1. \A i \in DOMAIN writes' :
          \/ i \in DOMAIN writes /\ writes'[i] = writes[i]
          \/ writes'[i].by = None
          \/ /\ i = m /\ writes'[i].by = c
             /\ call[c].at # "written" /\ r.at = "written" /\ Ready(r, writes'[i].at)
    BY <1>1
  <2> HIDE DEF m
  <2>2. CallsInv /\ TypeOK /\ requests' = requests BY DEF VaultInv
  <2> QED BY <2>1, <2>2, CallWrites, SMTT(30)
<1>3. LockedInSession'
  BY <1>1, LockedStep, ClearsStep DEF VaultInv, Moves, IsLocked
<1> QED BY <1>2, <1>3 DEF VaultInv

LEMMA CallFacts ==
    ASSUME VaultInv, NEW c \in Calls
    PROVE  call[c] \in Call /\ Argued(call[c]) /\ Ready(call[c], call[c].at)
BY DEF VaultInv, TypeOK, CallsInv, WellFormed, Argued

\* A step that changes one call and nothing else.
LEMMA OnlyCall ==
    ASSUME VaultInv, NEW c \in Calls, NEW r \in Call, Moves(c, r),
           call[c].at = "cleared" => r.at = "cleared",
           UNCHANGED <<disk, writes, session, requests, mem, drawn, made, gone, current, ends, torn>>
    PROVE  VaultInv'
<1>1. TypeOK' /\ KeyHasCounter' BY DEF VaultInv, TypeOK, Moves, KeyHasCounter, IsLocked
<1> QED BY <1>1, LocalStep

LEMMA IdleMoves ==
    ASSUME NEW c \in Calls, Finish(c), call[c].at # "written"
    PROVE  Idle \in Call /\ Moves(c, Idle) /\ Idle.at = "idle"
BY BlankType DEF Finish, Resume, Moves, Idle, Argued, Ready

-----------------------------------------------------------------------------
(* Every action preserves the invariant. *)

LEMMA ReadStep == ASSUME VaultInv, NEW c \in Calls, Read(c) PROVE VaultInv'
<1> DEFINE item == Head(call[c].want)
<1> DEFINE r == [call[c] EXCEPT ![item] = Stored(item), !.want = Tail(@)]
<1>1. call[c] \in Call /\ Argued(call[c]) /\ Ready(call[c], call[c].at) BY CallFacts
<1>2. call[c].want \in Seq(Items \ {"vaults"}) /\ call[c].want # <<>>
  BY <1>1, Zenon DEF Call, Read
<1>3. item \in Items \ {"vaults"} /\ Tail(call[c].want) \in Seq(Items \ {"vaults"})
  BY <1>2, Served
<1>4. Stored(item) \in Kind(item)
  BY <1>3, StoredType DEF VaultInv
<1>5. item = "cipher" \/ item = "mac" \/ item = "counter" BY <1>3 DEF Items
<1>6. call' = [call EXCEPT ![c] = r] BY Zenon DEF Read, Resume
<1> HIDE DEF item
<1>7. /\ r \in Call /\ r.at = call[c].at /\ r.op = call[c].op /\ r.key = call[c].key
      /\ r.pw = call[c].pw /\ r.new = call[c].new /\ r.id = call[c].id
  <2>1. CASE item = "cipher" BY <1>1, <1>3, <1>4, <2>1, Zenon DEF Call, Kind
  <2>2. CASE item = "mac" BY <1>1, <1>3, <1>4, <2>2, Zenon DEF Call, Kind
  <2>3. CASE item = "counter" BY <1>1, <1>3, <1>4, <2>3, Zenon DEF Call, Kind
  <2> QED BY <1>5, <2>1, <2>2, <2>3, Zenon
<1> HIDE DEF r
<1>8. Moves(c, r) BY <1>1, <1>6, <1>7 DEF Moves, Argued, Ready
<1> QED BY <1>7, <1>8, OnlyCall, Zenon DEF Read

LEMMA AskStep ==
    ASSUME VaultInv, NEW c \in Calls, NEW r \in Call, call[c] = Idle, Resume(c, r),
           Argued(r), Ready(r, r.at),
           UNCHANGED <<disk, writes, session, requests, mem, drawn, made, gone, current, ends, torn>>
    PROVE  VaultInv'
<1>1. call[c].at = "idle" BY DEF Idle
<1>2. Moves(c, r) BY <1>1 DEF Moves, Resume
<1> QED BY <1>1, <1>2, OnlyCall

LEMMA ReadsType ==
    /\ <<"cipher", "mac", "counter">> \in Seq(Items \ {"vaults"})
    /\ UnlockReads \in Seq(Items \ {"vaults"})
    /\ CryptoState \in Seq(Items \ {"vaults"})
BY DEF Items, UnlockReads, CryptoState

LEMMA CreateStep ==
    ASSUME VaultInv, NEW c \in Calls, NEW pw \in Passwords, NEW id \in Ids, Create(c, pw, id)
    PROVE  VaultInv'
<1> DEFINE asked == [Idle EXCEPT !.op = "create", !.pw = pw, !.id = id]
<1> DEFINE adding == [asked EXCEPT !.at = "adding"]
<1> DEFINE signing == [asked EXCEPT !.at = "signing", !.want = <<"cipher", "mac", "counter">>]
<1>1. /\ adding \in Call /\ adding.op = "create" /\ adding.pw = pw /\ adding.id = id
      /\ adding.at = "adding"
  BY BlankType DEF Idle, Call, Points
<1>2. /\ signing \in Call /\ signing.op = "create" /\ signing.pw = pw /\ signing.id = id
      /\ signing.at = "signing"
  BY BlankType, ReadsType DEF Idle, Call, Points
<1>3. call[c] = Idle /\ (Resume(c, adding) \/ Resume(c, signing))
  BY DEF Create, Ask
<1> HIDE DEF adding, signing
<1>4. Argued(adding) /\ Ready(adding, adding.at) /\ Argued(signing) /\ Ready(signing, signing.at)
  BY <1>1, <1>2, Constants DEF Argued, Ready
<1> QED BY <1>1, <1>2, <1>3, <1>4, AskStep DEF Create

LEMMA UnlockStep ==
    ASSUME VaultInv, NEW c \in Calls, NEW pw \in Passwords, Unlock(c, pw)
    PROVE  VaultInv'
<1> DEFINE r == [Idle EXCEPT !.op = "unlock", !.at = "unlocking", !.pw = pw, !.want = UnlockReads]
<1>1. r \in Call /\ r.op = "unlock" /\ r.at = "unlocking"
  BY BlankType, ReadsType DEF Idle, Call, Points
<1>2. call[c] = Idle /\ Resume(c, r) BY DEF Unlock, Ask
<1> HIDE DEF r
<1> QED BY <1>1, <1>2, AskStep DEF Unlock, Argued, Ready

LEMMA ChangeStep ==
    ASSUME VaultInv, NEW c \in Calls, NEW pw \in Passwords, NEW new \in Passwords,
           Change(c, pw, new)
    PROVE  VaultInv'
<1> DEFINE r == [Idle EXCEPT !.op = "change", !.at = "checking", !.pw = pw, !.new = new,
                             !.want = CryptoState]
<1>1. r \in Call /\ r.op = "change" /\ r.at = "checking" /\ r.new = new
  BY BlankType, ReadsType DEF Idle, Call, Points
<1>2. call[c] = Idle /\ Resume(c, r) BY DEF Change, Ask
<1> HIDE DEF r
<1> QED BY <1>1, <1>2, AskStep, Constants DEF Change, Argued, Ready

LEMMA DeleteStep ==
    ASSUME VaultInv, NEW c \in Calls, NEW id \in Ids, NEW pw \in Passwords, Delete(c, id, pw)
    PROVE  VaultInv'
<1> DEFINE r == [Idle EXCEPT !.op = "delete", !.at = "checking", !.pw = pw, !.id = id,
                             !.want = CryptoState]
<1>1. r \in Call /\ r.op = "delete" /\ r.at = "checking"
  BY BlankType, ReadsType DEF Idle, Call, Points
<1>2. call[c] = Idle /\ Resume(c, r) BY DEF Delete, Ask
<1> HIDE DEF r
<1> QED BY <1>1, <1>2, AskStep DEF Delete, Argued, Ready

\* await this.kvStore.set(): the call waits for a write of its own.
LEMMA AwaitStep ==
    ASSUME VaultInv, NEW c \in Calls, NEW r \in Call, NEW item \in Items,
           NEW value \in Kind(item), NEW at \in Points, AwaitWrite(c, r, item, value, at),
           call[c].at \notin {"written", "cleared"}, Argued(r), Ready(r, at),
           drawn' \subseteq Keys,
           UNCHANGED <<disk, session, requests, mem, made, gone, current, ends, torn>>
    PROVE  VaultInv'
<1> DEFINE w == Write(item, value, c, at)
<1> DEFINE waiting == [r EXCEPT !.at = "written"]
<1>1. w \in Writes /\ w.by = c /\ w.at = at
  BY WriteType
<1>2. /\ waiting \in Call /\ waiting.at = "written" /\ waiting.op = r.op
      /\ waiting.key = r.key /\ waiting.pw = r.pw /\ waiting.id = r.id /\ waiting.new = r.new
  BY DEF Call, Points
<1>3. call' = [call EXCEPT ![c] = waiting] /\ writes' = Append(writes, w)
  BY DEF AwaitWrite, Resume
<1> HIDE DEF w, waiting
<1>4. Moves(c, waiting) /\ Ready(waiting, at)
  <2>1. Argued(waiting) /\ Ready(waiting, waiting.at) BY <1>2 DEF Argued, Ready
  <2>2. Ready(waiting, at) BY <1>2 DEF Ready
  <2> QED BY <1>3, <2>1, <2>2 DEF Moves
<1>5. TypeOK' /\ KeyHasCounter'
  BY <1>1, <1>2, <1>3, Appended DEF VaultInv, TypeOK, KeyHasCounter, IsLocked
<1>6. /\ call[c].at # "written" /\ waiting.at = "written" /\ Ready(waiting, w.at)
      /\ call[c].at # "cleared" /\ w.by = c /\ mem'.password = mem.password
  BY <1>1, <1>2, <1>4
<1> QED BY <1>1, <1>2, <1>3, <1>4, <1>5, <1>6, WriteStep

LEMMA SignUpStep == ASSUME VaultInv, NEW c \in Calls, SignUp(c) PROVE VaultInv'
<1> DEFINE r == call[c]
<1>1. r \in Call /\ Argued(r) /\ Ready(r, r.at) /\ r.at = "signing"
  BY CallFacts DEF SignUp, At
<1>2. r.op = "create" /\ r.pw \in Passwords BY <1>1 DEF Argued, Ready, Call
<1>3. CASE Finish(c) /\ UNCHANGED <<writes, drawn>>
  BY <1>1, <1>3, IdleMoves, OnlyCall DEF SignUp
<1>4. CASE \E key \in Keys \ drawn :
             /\ drawn' = drawn \cup {key}
             /\ AwaitWrite(c, [r EXCEPT !.key = key], "cipher", <<key, r.pw>>, "storeMac")
  <2>1. PICK key \in Keys \ drawn :
             /\ drawn' = drawn \cup {key}
             /\ AwaitWrite(c, [r EXCEPT !.key = key], "cipher", <<key, r.pw>>, "storeMac")
    BY <1>4
  <2> DEFINE s == [r EXCEPT !.key = key]
  <2>2. /\ s \in Call /\ s.op = r.op /\ s.key = key /\ s.pw = r.pw /\ s.id = r.id
        /\ s.new = r.new
    BY <1>1 DEF Call
  <2>3. AwaitWrite(c, s, "cipher", <<key, r.pw>>, "storeMac") /\ drawn' \subseteq Keys
    BY <2>1 DEF VaultInv, TypeOK
  <2>4. <<key, r.pw>> \in Kind("cipher") BY <1>2 DEF Ciphers, Kind
  <2>5. UNCHANGED <<disk, session, requests, mem, made, gone, current, ends, torn>> BY DEF SignUp
  <2>6. "cipher" \in Items /\ "storeMac" \in Points BY DEF Items, Points
  <2>7. Argued(s) /\ Ready(s, "storeMac")
    BY <1>1, <1>2, <2>2, Constants DEF Argued, Ready
  <2> HIDE DEF s, r
  <2> QED BY <1>1, <2>2, <2>3, <2>4, <2>5, <2>6, <2>7, AwaitStep DEF r
<1> QED BY <1>3, <1>4 DEF SignUp

LEMMA StoreMacStep == ASSUME VaultInv, NEW c \in Calls, StoreMac(c) PROVE VaultInv'
<1> DEFINE r == call[c]
<1>1. r \in Call /\ Argued(r) /\ Ready(r, r.at) /\ r.at = "storeMac"
  BY CallFacts DEF StoreMac, At
<1>2. <<r.key, r.pw>> \in Kind("mac") /\ Ready(r, "storeCounter")
  BY <1>1 DEF Argued, Ready, Call, Ciphers, Kind
<1>3. "mac" \in Items /\ "storeCounter" \in Points BY DEF Items, Points
<1>4. drawn' \subseteq Keys BY DEF StoreMac, VaultInv, TypeOK
<1> HIDE DEF r
<1> QED BY <1>1, <1>2, <1>3, <1>4, AwaitStep DEF StoreMac, r

LEMMA StoreCounterStep == ASSUME VaultInv, NEW c \in Calls, StoreCounter(c) PROVE VaultInv'
<1> DEFINE r == call[c]
<1>1. r \in Call /\ Argued(r) /\ Ready(r, r.at) /\ r.at = "storeCounter"
  BY CallFacts DEF StoreCounter, At
<1>2. r.key \in Kind("counter") /\ Ready(r, "signed")
  BY <1>1 DEF Ready, Call, Kind
<1>3. "counter" \in Items /\ "signed" \in Points BY DEF Items, Points
<1>4. drawn' \subseteq Keys BY DEF StoreCounter, VaultInv, TypeOK
<1> HIDE DEF r
<1> QED BY <1>1, <1>2, <1>3, <1>4, AwaitStep DEF StoreCounter, r

LEMMA StoreNewCipherStep ==
    ASSUME VaultInv, NEW c \in Calls, StoreNewCipher(c) PROVE VaultInv'
<1> DEFINE r == call[c]
<1>1. r \in Call /\ Argued(r) /\ Ready(r, r.at) /\ r.at = "changing"
  BY CallFacts DEF StoreNewCipher, At
<1>2. <<r.key, r.new>> \in Kind("cipher") /\ Ready(r, "storeNewMac")
  BY <1>1 DEF Argued, Ready, Call, Ciphers, Kind
<1>3. "cipher" \in Items /\ "storeNewMac" \in Points BY DEF Items, Points
<1>4. drawn' \subseteq Keys BY DEF StoreNewCipher, VaultInv, TypeOK
<1> HIDE DEF r
<1> QED BY <1>1, <1>2, <1>3, <1>4, AwaitStep DEF StoreNewCipher, r

LEMMA StoreNewMacStep ==
    ASSUME VaultInv, NEW c \in Calls, StoreNewMac(c) PROVE VaultInv'
<1> DEFINE r == call[c]
<1>1. r \in Call /\ Argued(r) /\ Ready(r, r.at) /\ r.at = "storeNewMac"
  BY CallFacts DEF StoreNewMac, At
<1>2. <<r.key, r.new>> \in Kind("mac") /\ Ready(r, "changed")
  BY <1>1 DEF Argued, Ready, Call, Ciphers, Kind
<1>3. "mac" \in Items /\ "changed" \in Points BY DEF Items, Points
<1>4. drawn' \subseteq Keys BY DEF StoreNewMac, VaultInv, TypeOK
<1> HIDE DEF r
<1> QED BY <1>1, <1>2, <1>3, <1>4, AwaitStep DEF StoreNewMac, r

LEMMA SignedUpStep == ASSUME VaultInv, NEW c \in Calls, SignedUp(c) PROVE VaultInv'
<1> DEFINE r == call[c]
<1> DEFINE next == [r EXCEPT !.at = "unlocking", !.want = UnlockReads]
<1>1. r \in Call /\ Argued(r) /\ Ready(r, r.at) /\ r.at = "signed"
  BY CallFacts DEF SignedUp, At
<1>2. /\ next \in Call /\ next.at = "unlocking" /\ next.op = r.op /\ next.pw = r.pw
      /\ next.id = r.id /\ next.new = r.new
  BY <1>1, ReadsType, Zenon DEF Call, Points
<1>3. PICK s \in {next, Idle} : Resume(c, s) BY DEF SignedUp, Finish
<1> HIDE DEF next
<1>4. s \in Call /\ Argued(s) /\ Ready(s, s.at) /\ s.at # "cleared"
  BY <1>1, <1>2, <1>3, BlankType DEF Argued, Ready, Idle
<1>5. mem' \in Memory /\ mem'.password = mem.password /\ mem'.counter = mem.counter
  BY DEF SignedUp, VaultInv, TypeOK, Memory
<1>6. current' \in Passwords \cup {None} BY <1>1 DEF SignedUp, Call
<1>7. call' = [call EXCEPT ![c] = s] BY <1>3 DEF Resume
<1>8. UNCHANGED <<disk, writes, session, requests, drawn, made, gone, ends, torn>> BY DEF SignedUp
<1>9. TypeOK' /\ KeyHasCounter'
  BY <1>4, <1>5, <1>6, <1>7, <1>8 DEF VaultInv, TypeOK, KeyHasCounter, IsLocked
<1>10. Moves(c, s) BY <1>1, <1>4, <1>7 DEF Moves
<1> HIDE DEF r
<1> QED BY <1>1, <1>4, <1>5, <1>8, <1>9, <1>10, LocalStep DEF r

LEMMA AddVaultStep == ASSUME VaultInv, NEW c \in Calls, AddVault(c) PROVE VaultInv'
<1> DEFINE r == call[c]
<1> DEFINE vaults == mem.vaults \cup
                       {[id |-> r.id, key |-> mem.password, counter |-> mem.counter]}
<1>1. r \in Call /\ Argued(r) /\ Ready(r, r.at) /\ r.at = "adding"
  BY CallFacts DEF AddVault, At
<1>2. Idle \in Call /\ Moves(c, Idle) /\ Idle.at = "idle"
  BY <1>1, IdleMoves DEF AddVault
<1>3. CASE UNCHANGED <<mem, writes, made>>
  BY <1>1, <1>2, <1>3, OnlyCall DEF AddVault
<1>4. CASE ~IsLocked
  <2>1. mem \in Memory /\ mem.counter # None
    BY <1>4 DEF VaultInv, TypeOK, KeyHasCounter
  <2>2. r.id \in Ids BY <1>1 DEF Ready, Argued, Call
  <2>3. vaults \in SUBSET Vaults
    BY <1>4, <2>1, <2>2 DEF Vaults, Memory, IsLocked
  <2>4. /\ mem' = [mem EXCEPT !.vaults = vaults]
        /\ writes' = Append(writes, StoreVaults(vaults))
        /\ made' = made \cup {r.id}
    BY <1>4 DEF AddVault
  <2>5. UNCHANGED <<disk, session, requests, drawn, gone, current, ends, torn>> BY DEF AddVault
  <2>6. call' = [call EXCEPT ![c] = Idle] BY <1>2 DEF Moves
  <2>7. StoreVaults(vaults) \in Writes /\ StoreVaults(vaults).by = None
    <3>1. vaults \in Kind("vaults") /\ "vaults" \in Items BY <2>3 DEF Kind, Items
    <3>2. None \in Calls \cup {None} /\ "idle" \in Points BY DEF Points
    <3> HIDE DEF vaults
    <3> QED BY <3>1, <3>2, WriteType DEF StoreVaults
  <2> HIDE DEF vaults
  <2>8. mem' \in Memory /\ mem'.password = mem.password /\ mem'.counter = mem.counter
    BY <2>1, <2>3, <2>4 DEF Memory
  <2>9. TypeOK' /\ KeyHasCounter'
    BY <1>2, <2>2, <2>4, <2>5, <2>6, <2>7, <2>8, Appended
       DEF VaultInv, TypeOK, KeyHasCounter, IsLocked
  <2>10. r.at # "cleared" BY <1>1
  <2> QED BY <1>2, <2>4, <2>5, <2>7, <2>8, <2>9, <2>10, WriteStep
<1> QED BY <1>3, <1>4 DEF AddVault

LEMMA OpenedStep == ASSUME VaultInv, NEW c \in Calls, Opened(c) PROVE VaultInv'
<1> DEFINE r == call[c]
<1> DEFINE next == [r EXCEPT !.at = "adding"]
<1>1. r \in Call /\ Argued(r) /\ Ready(r, r.at) /\ r.at = "opened"
  BY CallFacts DEF Opened, At
<1>2. /\ next \in Call /\ next.at = "adding" /\ next.op = r.op /\ next.pw = r.pw
      /\ next.id = r.id /\ next.new = r.new
  BY <1>1 DEF Call, Points
<1>3. CASE r.op = "create"
  <2>1. Resume(c, next) BY <1>3 DEF Opened
  <2> HIDE DEF next
  <2>2. Argued(next) /\ Ready(next, next.at) BY <1>1, <1>2, <1>3 DEF Argued, Ready
  <2>3. Moves(c, next) BY <1>1, <2>1, <2>2 DEF Moves, Resume
  <2> QED BY <1>1, <1>2, <2>3, OnlyCall DEF Opened
<1>4. CASE r.op # "create"
  <2>1. Finish(c) BY <1>4 DEF Opened
  <2> QED BY <1>1, <2>1, IdleMoves, OnlyCall DEF Opened
<1> QED BY <1>3, <1>4

LEMMA EncryptStep == ASSUME VaultInv, NEW c \in Calls, Encrypt(c) PROVE VaultInv'
<1> DEFINE r == call[c]
<1> DEFINE next == [r EXCEPT !.at = "changing", !.key = mem.password]
<1>1. r \in Call /\ Argued(r) /\ Ready(r, r.at) /\ r.at = "checking" /\ r.op = "change"
  BY CallFacts DEF Encrypt, At
<1>2. mem.password \in Keys \cup {None} BY DEF VaultInv, TypeOK, Memory
<1>3. /\ next \in Call /\ next.at = "changing" /\ next.op = r.op /\ next.pw = r.pw
      /\ next.id = r.id /\ next.new = r.new /\ next.key = mem.password
  BY <1>1, <1>2, Zenon DEF Call, Points
<1>4. CASE Checked(r)
  <2>1. Resume(c, next) BY <1>4 DEF Encrypt
  <2>2. r.cipher \in Ciphers /\ r.cipher[1] = mem.password
    BY <1>1, <1>4 DEF Checked, Opens, Call
  <2>3. mem.password # None BY <2>2, Constants DEF Ciphers
  <2> HIDE DEF next
  <2>4. Argued(next) /\ Ready(next, next.at) BY <1>1, <1>3, <2>3 DEF Argued, Ready
  <2>5. Moves(c, next) BY <1>1, <2>1, <2>4 DEF Moves, Resume
  <2> QED BY <1>1, <1>3, <2>5, OnlyCall DEF Encrypt
<1>5. CASE ~Checked(r)
  <2>1. Finish(c) BY <1>5 DEF Encrypt
  <2> QED BY <1>1, <2>1, IdleMoves, OnlyCall DEF Encrypt
<1> QED BY <1>4, <1>5

LEMMA ChangedStep == ASSUME VaultInv, NEW c \in Calls, Changed(c) PROVE VaultInv'
<1>1. call[c] \in Call /\ call[c].at = "changed" BY CallFacts DEF Changed, At
<1>2. Idle \in Call /\ Moves(c, Idle) /\ Idle.at = "idle"
  BY <1>1, IdleMoves DEF Changed
<1>3. current' \in Passwords \cup {None} BY <1>1 DEF Changed, Call
<1>4. UNCHANGED <<disk, writes, session, requests, mem, drawn, made, gone, ends, torn>> BY DEF Changed
<1>5. TypeOK' /\ KeyHasCounter'
  BY <1>2, <1>3, <1>4 DEF Moves, VaultInv, TypeOK, KeyHasCounter, IsLocked
<1> QED BY <1>1, <1>2, <1>4, <1>5, LocalStep

LEMMA RemoveVaultStep == ASSUME VaultInv, NEW c \in Calls, RemoveVault(c) PROVE VaultInv'
<1> DEFINE r == call[c]
<1> DEFINE rest == {v \in mem.vaults : v.id # r.id}
<1> DEFINE next == [r EXCEPT !.at = "clearing", !.want = CryptoState]
<1>1. r \in Call /\ Argued(r) /\ Ready(r, r.at) /\ r.at = "checking" /\ r.op = "delete"
  BY CallFacts DEF RemoveVault, At
<1>2. /\ next \in Call /\ next.at = "clearing" /\ next.op = "delete"
  BY <1>1, ReadsType DEF Call, Points
<1>3. CASE Finish(c) /\ UNCHANGED <<mem, writes, gone>>
  BY <1>1, <1>3, IdleMoves, OnlyCall DEF RemoveVault
<1>4. CASE Checked(r) /\ rest # mem.vaults
  <2>1. rest \in SUBSET Vaults BY DEF VaultInv, TypeOK, Memory
  <2>2. \E v \in mem.vaults : v.id = r.id BY <1>4
  <2>3. r.id \in Ids BY <2>2 DEF VaultInv, TypeOK, Memory, Vaults
  <2>4. /\ mem' = [mem EXCEPT !.vaults = rest]
        /\ writes' = Append(writes, StoreVaults(rest))
        /\ gone' = gone \cup {r.id}
        /\ Resume(c, next) \/ Resume(c, Idle)
    BY <1>4 DEF RemoveVault, Finish
  <2>5. PICK s \in {next, Idle} : call' = [call EXCEPT ![c] = s] BY <2>4 DEF Resume
  <2> HIDE DEF next
  <2>6. s \in Call /\ Argued(s) /\ Ready(s, s.at)
    BY <1>2, <2>5, BlankType DEF Argued, Ready, Idle
  <2>7. Moves(c, s) BY <1>1, <2>5, <2>6 DEF Moves
  <2>8. StoreVaults(rest) \in Writes /\ StoreVaults(rest).by = None
    <3>1. rest \in Kind("vaults") /\ "vaults" \in Items BY <2>1 DEF Kind, Items
    <3>2. None \in Calls \cup {None} /\ "idle" \in Points BY DEF Points
    <3> HIDE DEF rest
    <3> QED BY <3>1, <3>2, WriteType DEF StoreVaults
  <2> HIDE DEF rest
  <2>9. mem' \in Memory /\ mem'.password = mem.password /\ mem'.counter = mem.counter
    BY <2>1, <2>4 DEF VaultInv, TypeOK, Memory
  <2>10. UNCHANGED <<disk, session, requests, drawn, made, current, ends, torn>> BY DEF RemoveVault
  <2>11. TypeOK' /\ KeyHasCounter'
    BY <2>3, <2>4, <2>5, <2>6, <2>8, <2>9, <2>10, Appended
       DEF VaultInv, TypeOK, KeyHasCounter, IsLocked
  <2>12. r.at # "cleared" BY <1>1
  <2> QED BY <2>4, <2>6, <2>7, <2>8, <2>9, <2>10, <2>11, <2>12, WriteStep
<1> QED BY <1>3, <1>4 DEF RemoveVault

LEMMA UnlockedStep == ASSUME VaultInv, NEW c \in Calls, Unlocked(c) PROVE VaultInv'
<1> DEFINE r == call[c]
<1> DEFINE next == [r EXCEPT !.at = "written"]
<1> DEFINE counter == <<r.counter, r.cipher[1]>>
<1> DEFINE q == [act |-> "set", key |-> r.cipher[1], counter |-> counter, by |-> c,
                 at |-> "opened"]
<1>1. r \in Call /\ Argued(r) /\ Ready(r, r.at) /\ r.at = "unlocking"
  BY CallFacts DEF Unlocked, At
<1>2. /\ next \in Call /\ next.at = "written" /\ next.op = r.op /\ next.pw = r.pw
      /\ next.id = r.id /\ next.new = r.new /\ next.key = r.key
  BY <1>1 DEF Call, Points
<1>3. CASE Finish(c) /\ UNCHANGED <<mem, requests>>
  BY <1>1, <1>3, IdleMoves, OnlyCall DEF Unlocked
<1>4. CASE r.counter # None /\ Opens(r)
  <2>1. r.cipher \in Ciphers /\ r.counter \in Keys BY <1>1, <1>4 DEF Opens, Call
  <2>2. r.cipher[1] \in Keys /\ counter \in Counters BY <2>1 DEF Ciphers, Counters
  <2>3. q \in Requests /\ q.by = c /\ q.at = "opened" BY <2>2 DEF Requests, Points
  <2>4. /\ mem' = [mem EXCEPT !.password = r.cipher[1], !.counter = counter]
        /\ requests' = Append(requests, q)
        /\ call' = [call EXCEPT ![c] = next]
    BY <1>4 DEF Unlocked, SetSession, Resume
  <2>5. UNCHANGED <<disk, writes, session, drawn, made, gone, current, ends, torn>> BY DEF Unlocked
  <2> HIDE DEF next, q, counter
  <2>6. mem' \in Memory /\ mem'.password = r.cipher[1] /\ mem'.counter = counter
    BY <2>2, <2>4 DEF VaultInv, TypeOK, Memory
  <2>7. ~IsLocked' /\ KeyHasCounter'
    BY <2>2, <2>6, Constants DEF IsLocked, KeyHasCounter
  <2>8. TypeOK' BY <1>2, <2>3, <2>4, <2>5, <2>6, Appended DEF VaultInv, TypeOK
  <2>9. Argued(next) /\ Ready(next, next.at) /\ Ready(next, q.at)
    BY <1>1, <1>2, <2>3 DEF Argued, Ready
  <2>10. Moves(c, next) BY <1>1, <2>4, <2>9 DEF Moves
  <2>11. r.at # "written" BY <1>1
  <2>12. CallsInv'
    BY <1>2, <2>3, <2>4, <2>5, <2>9, <2>10, <2>11, CallAsks DEF VaultInv
  <2> QED BY <2>7, <2>8, <2>12 DEF VaultInv, LockedInSession
<1> QED BY <1>3, <1>4 DEF Unlocked

\* A request to drop the key is the last one.
LEMMA DropIsLast ==
    ASSUME TypeOK, NEW q \in Requests, q.act = "dropKey", requests' = Append(requests, q)
    PROVE  Dropping' /\ LockedInSession'
<1>1. /\ Len(requests) + 1 \in DOMAIN requests' /\ requests'[Len(requests) + 1] = q
      /\ \A j \in DOMAIN requests' : ~(j > Len(requests) + 1)
  <2>1. Len(requests) \in Nat /\ DOMAIN requests = 1..Len(requests)
    BY LenProperties DEF TypeOK
  <2> QED BY <2>1, Appended DEF TypeOK
<1> QED BY <1>1 DEF Dropping, LockedInSession

LEMMA LockStep == ASSUME VaultInv, Lock PROVE VaultInv'
<1> DEFINE q == [act |-> "dropKey", key |-> None, counter |-> None, by |-> None, at |-> "idle"]
<1>1. q \in Requests /\ q.by = None /\ q.act = "dropKey" BY DEF Requests, Points
<1>2. /\ requests' = Append(requests, q)
      /\ mem' = [mem EXCEPT !.password = None]
      /\ UNCHANGED <<disk, writes, session, call, drawn, made, gone, current, ends, torn>>
  BY DEF Lock, DropSession
<1> HIDE DEF q
<1>3. mem' \in Memory /\ IsLocked' BY <1>2 DEF VaultInv, TypeOK, Memory, IsLocked
<1>4. TypeOK' /\ KeyHasCounter'
  BY <1>1, <1>2, <1>3, Appended DEF VaultInv, TypeOK, KeyHasCounter
<1>5. \A i \in DOMAIN requests' : \/ i \in DOMAIN requests /\ requests'[i] = requests[i]
                                  \/ requests'[i].by = None
  BY <1>1, <1>2, Appended DEF VaultInv, TypeOK
<1>6. CallsInv'
  <2> SUFFICES ASSUME NEW d \in Calls PROVE WaitsForOne(d)' /\ WellFormed(d)'
    BY DEF CallsInv
  <2> QED BY <1>2, <1>5, Constants DEF VaultInv, CallsInv, WaitsForOne, WellFormed
<1> QED BY <1>1, <1>2, <1>4, <1>6, DropIsLast DEF VaultInv

LEMMA ClearedStep == ASSUME VaultInv, NEW c \in Calls, Cleared(c) PROVE VaultInv'
<1> DEFINE r == call[c]
<1> DEFINE next == [r EXCEPT !.at = "written"]
<1> DEFINE q == [act |-> "dropKey", key |-> None, counter |-> None, by |-> c, at |-> "opened"]
<1>1. r \in Call /\ Argued(r) /\ Ready(r, r.at) /\ r.at = "cleared"
  BY CallFacts DEF Cleared, At
<1>2. /\ next \in Call /\ next.at = "written" /\ next.op = r.op /\ next.pw = r.pw
      /\ next.id = r.id /\ next.new = r.new /\ next.key = r.key
  BY <1>1 DEF Call, Points
<1>3. q \in Requests /\ q.by = c /\ q.at = "opened" /\ q.act = "dropKey"
  BY DEF Requests, Points
<1>4. /\ requests' = Append(requests, q)
      /\ call' = [call EXCEPT ![c] = next]
      /\ UNCHANGED <<disk, writes, session, mem, drawn, made, gone, current, ends, torn>>
  BY DEF Cleared, DropSession, Resume
<1> HIDE DEF next, q
<1>5. TypeOK' /\ KeyHasCounter'
  BY <1>2, <1>3, <1>4, Appended DEF VaultInv, TypeOK, KeyHasCounter, IsLocked
<1>6. Argued(next) /\ Ready(next, next.at) /\ Ready(next, q.at)
  BY <1>1, <1>2, <1>3 DEF Argued, Ready
<1>7. Moves(c, next) /\ r.at # "written" BY <1>1, <1>4, <1>6 DEF Moves
<1>8. CallsInv'
  BY <1>2, <1>3, <1>4, <1>6, <1>7, CallAsks DEF VaultInv
<1> QED BY <1>3, <1>4, <1>5, <1>8, DropIsLast DEF VaultInv

LEMMA ClearAllStep == ASSUME VaultInv, NEW c \in Calls, ClearAll(c) PROVE VaultInv'
<1> DEFINE r == call[c]
<1> DEFINE next == [r EXCEPT !.at = "written"]
<1> DEFINE last == Write("counter", None, c, "cleared")
<1> DEFINE four == <<StoreVaults({}), Write("cipher", None, None, "idle"),
                     Write("mac", None, None, "idle"), last>>
<1>1. r \in Call /\ Argued(r) /\ Ready(r, r.at) /\ r.at = "clearing"
  BY CallFacts DEF ClearAll, At
<1>2. /\ next \in Call /\ next.at = "written" /\ next.op = r.op /\ next.pw = r.pw
      /\ next.id = r.id /\ next.new = r.new /\ next.key = r.key
  BY <1>1 DEF Call, Points
<1>3. CASE Finish(c) /\ UNCHANGED <<mem, writes>>
  BY <1>1, <1>3, IdleMoves, OnlyCall DEF ClearAll
<1>4. CASE Checked(r)
  <2>1. /\ {} \in Kind("vaults") /\ None \in Kind("cipher") /\ None \in Kind("mac")
        /\ None \in Kind("counter")
        /\ "vaults" \in Items /\ "cipher" \in Items /\ "mac" \in Items /\ "counter" \in Items
        /\ None \in Calls \cup {None} /\ c \in Calls \cup {None}
        /\ "idle" \in Points /\ "cleared" \in Points
    BY DEF Kind, Items, Points
  <2>2. StoreVaults({}) \in Writes /\ StoreVaults({}).by = None
    BY <2>1, WriteType DEF StoreVaults
  <2>3. /\ Write("cipher", None, None, "idle") \in Writes
        /\ Write("cipher", None, None, "idle").by = None
    BY <2>1, WriteType
  <2>4. /\ Write("mac", None, None, "idle") \in Writes
        /\ Write("mac", None, None, "idle").by = None
    BY <2>1, WriteType
  <2>5. last \in Writes /\ last.by = c /\ last.at = "cleared"
    BY <2>1, WriteType
  <2> HIDE DEF last
  <2>6. /\ four \in Seq(Writes) /\ DOMAIN four = 1..4 /\ Len(four) = 4 /\ four[4] = last
        /\ \A i \in 1..3 : four[i].by = None
    BY <2>2, <2>3, <2>4, <2>5
  <2>7. mem' = Empty /\ writes' = writes \o four /\ call' = [call EXCEPT ![c] = next]
    BY <1>4 DEF ClearAll, Resume, last
  <2>8. UNCHANGED <<disk, session, requests, drawn, made, gone, current, ends, torn>> BY DEF ClearAll
  <2> HIDE DEF four, next
  <2>9. writes \in Seq(Writes) BY DEF VaultInv, TypeOK
  <2>10. /\ writes' \in Seq(Writes)
         /\ \A i \in DOMAIN writes : i \in DOMAIN writes' /\ writes'[i] = writes[i]
         /\ \A i \in DOMAIN writes' : \/ i \in DOMAIN writes /\ writes'[i] = writes[i]
                                      \/ writes'[i].by = None
                                      \/ i = Len(writes) + 4 /\ writes'[i] = last
         /\ Len(writes) + 4 \in DOMAIN writes' /\ writes'[Len(writes) + 4] = last
    <3> DEFINE s == writes \o four
    <3>0. /\ s \in Seq(Writes)
          /\ \A i \in DOMAIN writes : i \in DOMAIN s /\ s[i] = writes[i]
          /\ \A k \in DOMAIN four : Len(writes) + k \in DOMAIN s /\ s[Len(writes) + k] = four[k]
          /\ \A i \in DOMAIN s : i \in DOMAIN writes \/ \E k \in DOMAIN four : i = Len(writes) + k
      <4>1. four \in Seq(Writes) BY <2>6
      <4> QED BY ONLY <4>1, <2>9, Joined
    <3>1. writes' = s BY <2>7
    <3> HIDE DEF s
    <3>2. \A k \in DOMAIN four : k = 4 \/ four[k].by = None BY <2>6
    <3> QED BY <2>6, <3>0, <3>1, <3>2
  <2>11. TypeOK' /\ KeyHasCounter'
    BY <1>2, <2>7, <2>8, <2>10, BlankType DEF VaultInv, TypeOK, KeyHasCounter, IsLocked, Empty
  <2>12. Argued(next) /\ Ready(next, next.at) /\ Ready(next, last.at)
    BY <1>1, <1>2, <2>5 DEF Argued, Ready
  <2>13. Moves(c, next) /\ r.at # "written" BY <1>1, <2>7, <2>12 DEF Moves
  <2>14. CallsInv'
    <3> DEFINE m == Len(writes) + 4
    <3>1. \A i \in DOMAIN writes' :
            \/ i \in DOMAIN writes /\ writes'[i] = writes[i]
            \/ writes'[i].by = None
            \/ /\ i = m /\ writes'[i].by = c
               /\ r.at # "written" /\ next.at = "written" /\ Ready(next, writes'[i].at)
      BY <1>2, <2>5, <2>10, <2>12, <2>13
    <3> HIDE DEF m
    <3>2. CallsInv /\ TypeOK /\ requests' = requests BY <2>8 DEF VaultInv
    <3> QED BY <1>2, <2>13, <3>1, <3>2, CallWrites, SMTT(30)
  <2>15. Clears(c)' BY <2>5, <2>10 DEF Clears
  <2> QED BY <2>11, <2>14, <2>15 DEF VaultInv, LockedInSession
<1> QED BY <1>3, <1>4 DEF ClearAll

-----------------------------------------------------------------------------
(* The storage serves a request, the background ends. *)

LEMMA LandWriteStep == ASSUME VaultInv, LandWrite PROVE VaultInv'
<1> DEFINE w == Head(writes)
<1>1. /\ w \in Writes /\ w = writes[1] /\ 1 \in DOMAIN writes /\ writes' \in Seq(Writes)
      /\ \A i \in DOMAIN writes' : /\ i + 1 \in DOMAIN writes /\ writes'[i] = writes[i + 1]
                                   /\ i \in Nat /\ i > 0
      /\ \A i \in DOMAIN writes :
           i = 1 \/ (i - 1 \in DOMAIN writes' /\ writes'[i - 1] = writes[i])
  BY Served DEF LandWrite, VaultInv, TypeOK
<1>2. /\ disk' = [disk EXCEPT ![w.item] = w.value[w.item]]
      /\ call' = IF w.by = None THEN call ELSE [call EXCEPT ![w.by].at = w.at]
      /\ UNCHANGED <<session, requests, mem, drawn, made, gone, current, ends, torn>>
  BY DEF LandWrite
<1>3. w.by = None \/ w.by \in Calls BY <1>1 DEF Writes
<1> HIDE DEF w
<1>5. disk' \in Local
  <2>1. w.item \in Items /\ w.value \in Local BY <1>1 DEF Writes
  <2>2. w.value[w.item] \in Kind(w.item) BY <2>1, LocalItem
  <2>3. disk \in Local BY DEF VaultInv, TypeOK
  <2>4. CASE w.item = "cipher" BY <1>2, <2>2, <2>3, <2>4 DEF Local, Kind
  <2>5. CASE w.item = "mac" BY <1>2, <2>2, <2>3, <2>5 DEF Local, Kind
  <2>6. CASE w.item = "counter" BY <1>2, <2>2, <2>3, <2>6 DEF Local, Kind
  <2>7. CASE w.item = "vaults" BY <1>2, <2>2, <2>3, <2>7 DEF Local, Kind
  <2> QED BY <2>1, <2>4, <2>5, <2>6, <2>7 DEF Items
<1>6. \A d \in Calls :
        /\ call[d] \in Call
        /\ w.by # d => call'[d] = call[d]
        /\ w.by = d => call'[d] = [call[d] EXCEPT !.at = w.at]
  BY <1>2, Constants DEF VaultInv, TypeOK
<1>7. w.at \in Points BY <1>1 DEF Writes
<1>8. \A d \in Calls :
        /\ call'[d] \in Call
        /\ call'[d].op = call[d].op /\ call'[d].pw = call[d].pw /\ call'[d].id = call[d].id
        /\ call'[d].new = call[d].new /\ call'[d].key = call[d].key
        /\ call'[d].at = IF w.by = d THEN w.at ELSE call[d].at
  <2> TAKE d \in Calls
  <2>1. CASE w.by = d
    <3>1. call[d] \in Call /\ call'[d] = [call[d] EXCEPT !.at = w.at] BY <1>6, <2>1
    <3> QED BY <1>7, <2>1, <3>1 DEF Call
  <2>2. CASE w.by # d BY <1>6, <2>2
  <2> QED BY <2>1, <2>2
<1>9. call' \in [Calls -> Call]
  <2>1. DOMAIN call' = Calls /\ call' = [d \in Calls |-> call'[d]]
    BY <1>2, <1>3 DEF VaultInv, TypeOK
  <2> QED BY <1>8, <2>1
<1>10. TypeOK' /\ KeyHasCounter'
  BY <1>1, <1>2, <1>5, <1>9 DEF VaultInv, TypeOK, KeyHasCounter, IsLocked
<1>11. CallsInv'
  <2> SUFFICES ASSUME NEW d \in Calls PROVE WaitsForOne(d)' /\ WellFormed(d)'
    BY DEF CallsInv
  <2>1. WaitsForOne(d) /\ WellFormed(d) BY DEF VaultInv, CallsInv
  <2>2. CASE w.by # d
    <3>1. WaitsForOne(d)'
      BY <1>1, <1>2, <1>8, <2>1, <2>2 DEF WaitsForOne
    <3> QED BY <1>1, <1>2, <1>8, <2>1, <2>2, <3>1 DEF WellFormed, Ready
  <2>3. CASE w.by = d
    <3>1. /\ \A j \in DOMAIN writes : writes[j].by = d => j = 1
          /\ \A j \in DOMAIN requests : requests[j].by # d
          /\ Ready(call[d], w.at)
      BY <1>1, <2>1, <2>3 DEF WaitsForOne, WellFormed
    <3>2. \A j \in DOMAIN writes' : writes'[j].by # d
      <4> TAKE j \in DOMAIN writes'
      <4>1. j + 1 # 1 /\ j + 1 \in DOMAIN writes /\ writes'[j] = writes[j + 1] BY <1>1
      <4> QED BY <3>1, <4>1
    <3>3. WaitsForOne(d)' BY <1>2, <3>1, <3>2 DEF WaitsForOne
    <3> QED BY <1>2, <1>8, <2>1, <2>3, <3>1, <3>2, <3>3 DEF WellFormed, Ready
  <2> QED BY <2>2, <2>3
<1>12. \A d \in Calls : Clears(d) => Clears(d)'
  <2> SUFFICES ASSUME NEW d \in Calls, Clears(d) PROVE Clears(d)'
    OBVIOUS
  <2>1. CASE call[d].at = "cleared"
    <3>1. w.by # d BY <1>1, <2>1 DEF VaultInv, CallsInv, WaitsForOne
    <3> QED BY <1>8, <2>1, <3>1 DEF Clears
  <2>2. CASE call[d].at # "cleared"
    <3>1. PICK i \in DOMAIN writes : writes[i].by = d /\ writes[i].at = "cleared"
      BY <2>2 DEF Clears
    <3>2. CASE i = 1 BY <1>1, <1>8, <3>1, <3>2 DEF Clears
    <3>3. CASE i # 1 BY <1>1, <3>1, <3>3 DEF Clears
    <3> QED BY <3>2, <3>3
  <2> QED BY <2>1, <2>2
<1> QED BY <1>2, <1>10, <1>11, <1>12, LockedStep DEF VaultInv, IsLocked

LEMMA LandSessionStep == ASSUME VaultInv, LandSession PROVE VaultInv'
<1> DEFINE q == Head(requests)
<1> DEFINE more == [q EXCEPT !.act = "dropCounter"]
<1> DEFINE n == Len(requests)
<1>1. /\ q \in Requests /\ q = requests[1] /\ 1 \in DOMAIN requests
      /\ Tail(requests) \in Seq(Requests)
      /\ \A i \in DOMAIN Tail(requests) :
           /\ i + 1 \in DOMAIN requests /\ Tail(requests)[i] = requests[i + 1]
           /\ i \in Nat /\ i > 0
      /\ \A i \in DOMAIN requests :
           /\ i \in Nat /\ i > 0
           /\ i = 1 \/ (i - 1 \in DOMAIN Tail(requests) /\ Tail(requests)[i - 1] = requests[i])
  BY Served DEF LandSession, VaultInv, TypeOK
<1>2. n \in Nat /\ Len(Tail(requests)) + 1 = n /\ DOMAIN requests = 1..n
  BY HeadTailProperties, LenProperties DEF LandSession, VaultInv, TypeOK
<1>3. more \in Requests /\ more.act = "dropCounter" /\ more.by = q.by /\ more.at = q.at
  BY <1>1 DEF Requests
<1>4. /\ session' = CASE q.act = "set" -> [key |-> q.key, counter |-> q.counter]
                      [] q.act = "dropKey" -> [session EXCEPT !.key = None]
                      [] q.act = "dropCounter" -> [session EXCEPT !.counter = None]
      /\ requests' = IF q.act = "dropKey" THEN Append(Tail(requests), more) ELSE Tail(requests)
      /\ call' = IF q.by = None \/ q.act = "dropKey" THEN call ELSE [call EXCEPT ![q.by].at = q.at]
      /\ UNCHANGED <<disk, writes, mem, drawn, made, gone, current, ends, torn>>
  BY DEF LandSession
<1> HIDE DEF q, more, n
<1>5. q.act \in {"set", "dropKey", "dropCounter"} /\ q.by \in Calls \cup {None} /\ q.at \in Points
  BY <1>1 DEF Requests
\* What is under way afterwards: the rest, and the second half of a removal.
<1>6. /\ requests' \in Seq(Requests)
      /\ \A i \in DOMAIN requests' :
           /\ i \in Nat /\ i > 0
           /\ \/ i + 1 \in DOMAIN requests /\ requests'[i] = requests[i + 1]
              \/ i = n /\ q.act = "dropKey" /\ requests'[i] = more
      /\ \A i \in DOMAIN requests :
           i = 1 \/ (i - 1 \in DOMAIN requests' /\ requests'[i - 1] = requests[i])
  <2>1. CASE q.act = "dropKey"
    <3>1. requests' = Append(Tail(requests), more) BY <1>4, <2>1
    <3>2. /\ requests' \in Seq(Requests)
          /\ \A i \in DOMAIN Tail(requests) : i \in DOMAIN requests' /\ requests'[i] = Tail(requests)[i]
          /\ \A i \in DOMAIN requests' :
               \/ i \in DOMAIN Tail(requests) /\ requests'[i] = Tail(requests)[i]
               \/ i = Len(Tail(requests)) + 1 /\ requests'[i] = more
      BY <1>1, <1>3, <3>1, Appended
    <3>3. \A i \in DOMAIN requests' : i \in Nat /\ i > 0
      BY <3>2, LenProperties
    <3> QED BY <1>1, <1>2, <2>1, <3>2, <3>3
  <2>2. CASE q.act # "dropKey" BY <1>1, <1>4, <2>2
  <2> QED BY <2>1, <2>2
<1>7. \A d \in Calls : call[d] \in Call BY DEF VaultInv, TypeOK
<1>8. \A d \in Calls :
        /\ call'[d] \in Call
        /\ call'[d].op = call[d].op /\ call'[d].pw = call[d].pw /\ call'[d].id = call[d].id
        /\ call'[d].new = call[d].new /\ call'[d].key = call[d].key
        /\ call'[d].at = IF q.by = d /\ q.act # "dropKey" THEN q.at ELSE call[d].at
  <2> TAKE d \in Calls
  <2>1. CASE q.by = d /\ q.act # "dropKey"
    <3>1. call'[d] = [call[d] EXCEPT !.at = q.at]
      BY <1>4, <2>1, Constants DEF VaultInv, TypeOK
    <3> QED BY <1>5, <1>7, <2>1, <3>1 DEF Call
  <2>2. CASE ~(q.by = d /\ q.act # "dropKey")
    <3>1. call'[d] = call[d] BY <1>4, <1>5, <2>2 DEF VaultInv, TypeOK
    <3> QED BY <1>7, <2>2, <3>1
  <2> QED BY <2>1, <2>2
<1>9. call' \in [Calls -> Call]
  <2>1. DOMAIN call' = Calls /\ call' = [d \in Calls |-> call'[d]]
    BY <1>4, <1>5 DEF VaultInv, TypeOK
  <2> QED BY <1>8, <2>1
<1>10. session' \in Session
  BY <1>1, <1>4, <1>5 DEF Requests, Session, VaultInv, TypeOK
<1>11. TypeOK' /\ KeyHasCounter'
  BY <1>4, <1>6, <1>9, <1>10 DEF VaultInv, TypeOK, KeyHasCounter, IsLocked
<1>12. CallsInv'
  <2> SUFFICES ASSUME NEW d \in Calls PROVE WaitsForOne(d)' /\ WellFormed(d)'
    BY DEF CallsInv
  <2>1. WaitsForOne(d) /\ WellFormed(d) BY DEF VaultInv, CallsInv
  <2>2. CASE q.by # d
    <3>1. \A i \in DOMAIN requests' : requests'[i].by = d =>
            i + 1 \in DOMAIN requests /\ requests'[i] = requests[i + 1] /\ i \in Nat
      BY <1>3, <1>6, <2>2
    <3>2. WaitsForOne(d)' BY <1>4, <1>8, <2>1, <2>2, <3>1 DEF WaitsForOne
    <3> QED BY <1>4, <1>8, <2>1, <2>2, <3>1, <3>2 DEF WellFormed, Ready
  <2>3. CASE q.by = d
    <3>1. /\ call[d].at = "written" /\ Ready(call[d], q.at)
          /\ \A j \in DOMAIN requests : requests[j].by = d => j = 1
          /\ \A j \in DOMAIN writes : writes[j].by # d
      BY <1>1, <2>1, <2>3 DEF WaitsForOne, WellFormed
    <3>2. \A i \in DOMAIN requests' : requests'[i].by = d =>
            i = n /\ q.act = "dropKey" /\ requests'[i] = more
      <4> TAKE i \in DOMAIN requests'
      <4>1. i + 1 # 1 BY <1>6
      <4> QED BY <1>6, <3>1, <4>1
    <3>3. CASE q.act = "dropKey"
      <4>1. call'[d].at = "written" BY <1>8, <3>1, <3>3
      <4>2. WaitsForOne(d)' BY <1>4, <3>1, <3>2, <4>1 DEF WaitsForOne
      <4> QED BY <1>3, <1>4, <1>8, <2>1, <3>1, <3>2, <3>3, <4>2 DEF WellFormed, Ready
    <3>4. CASE q.act # "dropKey"
      <4>1. \A i \in DOMAIN requests' : requests'[i].by # d BY <3>2, <3>4
      <4>2. WaitsForOne(d)' BY <1>4, <3>1, <4>1 DEF WaitsForOne
      <4> QED BY <1>4, <1>8, <2>1, <2>3, <3>1, <3>4, <4>1, <4>2 DEF WellFormed, Ready
    <3> QED BY <3>3, <3>4
  <2> QED BY <2>2, <2>3
<1>13. LockedInSession'
  <2> SUFFICES ASSUME IsLocked', \A d \in Calls : ~Clears(d)' PROVE Dropping' \/ Dropped'
    BY DEF LockedInSession
  <2>1. \A d \in Calls : ~Clears(d)
    <3> TAKE d \in Calls
    <3>1. ~Clears(d)' OBVIOUS
    <3>2. CASE call[d].at = "cleared"
      <4>1. q.by # d BY <1>1, <3>2 DEF VaultInv, CallsInv, WaitsForOne
      <4> QED BY <1>8, <3>1, <3>2, <4>1 DEF Clears
    <3>3. CASE call[d].at # "cleared" BY <1>4, <3>1, <3>3 DEF Clears
    <3> QED BY <3>2, <3>3
  <2>2. Dropping \/ Dropped BY <1>4, <2>1 DEF VaultInv, LockedInSession, IsLocked
  <2>3. CASE Dropping
    <3>1. PICK i \in DOMAIN requests :
            /\ requests[i].act = "dropKey"
            /\ \A j \in DOMAIN requests : j > i => requests[j].act # "set"
      BY <2>3 DEF Dropping
    <3>2. CASE i # 1
      <4>1. i - 1 \in DOMAIN requests' /\ requests'[i - 1].act = "dropKey" /\ i \in Nat
        BY <1>1, <1>6, <3>1, <3>2
      <4>2. \A j \in DOMAIN requests' : j > i - 1 => requests'[j].act # "set"
        BY <1>3, <1>6, <3>1, <4>1
      <4> QED BY <4>1, <4>2 DEF Dropping
    <3>3. CASE i = 1
      <4>1. q.act = "dropKey" BY <1>1, <3>1, <3>3
      <4>2. session' = [session EXCEPT !.key = None] BY <1>4, <4>1
      <4>3. session'.key = None BY <4>2 DEF VaultInv, TypeOK, Session
      <4>4. \A j \in DOMAIN requests' : requests'[j].act # "set"
        BY <1>3, <1>6, <3>1, <3>3
      <4> QED BY <4>3, <4>4 DEF Dropped
    <3> QED BY <3>2, <3>3
  <2>4. CASE Dropped
    <3>1. q.act # "set" BY <1>1, <2>4 DEF Dropped
    <3>2. session'.key = None \/ session'.counter = None
      BY <1>4, <1>5, <2>4, <3>1 DEF Dropped, VaultInv, TypeOK, Session
    <3>3. \A j \in DOMAIN requests' : requests'[j].act # "set"
      BY <1>3, <1>6, <2>4 DEF Dropped
    <3> QED BY <3>2, <3>3 DEF Dropped
  <2> QED BY <2>2, <2>3, <2>4
<1> QED BY <1>11, <1>12, <1>13 DEF VaultInv

LEMMA EndStep == ASSUME VaultInv, NEW kind \in Kinds, End(kind) PROVE VaultInv'
<1> DEFINE open == kind = "worker" /\ session.key # None /\ session.counter # None
<1>1. /\ ends' = ends + 1 /\ ends < MaxEnds
      /\ mem' = [signedUp |-> disk.cipher # None /\ disk.mac # None,
                 password |-> IF open THEN session.key ELSE None,
                 counter  |-> IF open THEN session.counter ELSE None,
                 vaults   |-> disk.vaults]
      /\ session' = IF kind = "worker" THEN session ELSE [key |-> None, counter |-> None]
      /\ writes' = <<>> /\ requests' = <<>> /\ call' = [c \in Calls |-> Idle]
      /\ torn' = torn
           \cup (IF kind = "worker" /\ \E c \in Calls : SigningOut(c) THEN {"key"} ELSE {})
           \cup (IF \E c \in Calls : Replacing(c) THEN {"password"} ELSE {})
      /\ UNCHANGED <<disk, drawn, made, gone, current>>
  BY DEF End
<1>2. disk \in Local /\ session \in Session /\ ends \in 0..MaxEnds /\ torn \subseteq {"key", "password"}
  BY DEF VaultInv, TypeOK
<1>3. /\ mem'.password = IF open THEN session.key ELSE None
      /\ mem'.counter = IF open THEN session.counter ELSE None
  BY <1>1
<1>4. mem' \in Memory BY <1>1, <1>2 DEF Memory, Local, Session
<1>5. session' \in Session BY <1>1, <1>2 DEF Session
<1>6. TypeOK'
  <2>1. ends' \in 0..MaxEnds BY <1>1, <1>2, BoundsAssumption
  <2>2. writes' \in Seq(Writes) /\ requests' \in Seq(Requests) BY <1>1, EmptySeq
  <2>3. call' \in [Calls -> Call] BY <1>1, BlankType
  <2> HIDE DEF open
  <2>4. torn' \subseteq {"key", "password"} BY <1>1, <1>2
  <2> QED BY <1>1, <1>4, <1>5, <2>1, <2>2, <2>3, <2>4 DEF VaultInv, TypeOK
<1>7. KeyHasCounter' BY <1>3 DEF KeyHasCounter, IsLocked
<1>8. CallsInv'
  BY <1>1 DEF CallsInv, WaitsForOne, WellFormed, Idle, Ready
<1>9. LockedInSession' BY <1>1, <1>3 DEF LockedInSession, Dropped, IsLocked
<1> QED BY <1>6, <1>7, <1>8, <1>9 DEF VaultInv

-----------------------------------------------------------------------------
(* The theorems. *)

LEMMA VaultInit == Init => VaultInv
<1> SUFFICES ASSUME Init PROVE VaultInv
  OBVIOUS
<1>1. /\ disk = Blank /\ writes = <<>> /\ session = [key |-> None, counter |-> None]
      /\ requests = <<>> /\ mem = Empty /\ call = [c \in Calls |-> Idle]
      /\ drawn = {} /\ made = {} /\ gone = {} /\ current = None /\ ends = 0 /\ torn = {}
  BY DEF Init
<1>2. TypeOK
  <2>1. writes \in Seq(Writes) /\ requests \in Seq(Requests) BY <1>1, EmptySeq
  <2>2. session \in Session /\ ends \in 0..MaxEnds BY <1>1, BoundsAssumption DEF Session
  <2>3. call \in [Calls -> Call] BY <1>1, BlankType
  <2> QED BY <1>1, <2>1, <2>2, <2>3, BlankType DEF TypeOK
<1>3. KeyHasCounter BY <1>1 DEF KeyHasCounter, IsLocked, Empty
<1>4. CallsInv
  BY <1>1 DEF CallsInv, WaitsForOne, WellFormed, Idle, Ready
<1>5. LockedInSession BY <1>1 DEF LockedInSession, Dropped
<1> QED BY <1>2, <1>3, <1>4, <1>5 DEF VaultInv

LEMMA VaultNext == VaultInv /\ [Next]_vars => VaultInv'
<1> SUFFICES ASSUME VaultInv, [Next]_vars PROVE VaultInv'
  OBVIOUS
<1>1. CASE LandWrite BY <1>1, LandWriteStep
<1>2. CASE LandSession BY <1>2, LandSessionStep
<1>3. CASE \E c \in Calls : Step(c)
  <2>1. PICK c \in Calls : Step(c) BY <1>3
  <2>2. CASE Read(c) BY <2>2, ReadStep
  <2>3. CASE SignUp(c) BY <2>3, SignUpStep
  <2>4. CASE StoreMac(c) BY <2>4, StoreMacStep
  <2>5. CASE StoreCounter(c) BY <2>5, StoreCounterStep
  <2>6. CASE SignedUp(c) BY <2>6, SignedUpStep
  <2>7. CASE AddVault(c) BY <2>7, AddVaultStep
  <2>8. CASE Unlocked(c) BY <2>8, UnlockedStep
  <2>9. CASE Opened(c) BY <2>9, OpenedStep
  <2>10. CASE Encrypt(c) BY <2>10, EncryptStep
  <2>11. CASE StoreNewCipher(c) BY <2>11, StoreNewCipherStep
  <2>12. CASE StoreNewMac(c) BY <2>12, StoreNewMacStep
  <2>13. CASE Changed(c) BY <2>13, ChangedStep
  <2>14. CASE RemoveVault(c) BY <2>14, RemoveVaultStep
  <2>15. CASE ClearAll(c) BY <2>15, ClearAllStep
  <2>16. CASE Cleared(c) BY <2>16, ClearedStep
  <2> QED BY <2>1, <2>2, <2>3, <2>4, <2>5, <2>6, <2>7, <2>8, <2>9, <2>10, <2>11, <2>12,
             <2>13, <2>14, <2>15, <2>16 DEF Step
<1>4. CASE \E c \in Calls : Asked(c)
  <2>1. PICK c \in Calls : Asked(c) BY <1>4
  <2>2. CASE \E pw \in Passwords, id \in Ids : Create(c, pw, id) BY <2>2, CreateStep
  <2>3. CASE \E pw \in Passwords, id \in Ids : Delete(c, id, pw) BY <2>3, DeleteStep
  <2>4. CASE \E pw \in Passwords : Unlock(c, pw) BY <2>4, UnlockStep
  <2>5. CASE \E pw, new \in Passwords : Change(c, pw, new) BY <2>5, ChangeStep
  <2> QED BY <2>1, <2>2, <2>3, <2>4, <2>5 DEF Asked
<1>5. CASE Lock BY <1>5, LockStep
<1>6. CASE \E kind \in Kinds : End(kind) BY <1>6, EndStep
<1>7. CASE UNCHANGED vars
  BY <1>7 DEF vars, VaultInv, TypeOK, CallsInv, WaitsForOne, WellFormed, KeyHasCounter,
              LockedInSession, Dropping, Dropped, Clears, IsLocked
<1> QED BY <1>1, <1>2, <1>3, <1>4, <1>5, <1>6, <1>7 DEF Next

\* VaultInv is inductive: it holds in every state, whatever the calls do.
THEOREM VaultInvariant == Spec => []VaultInv
BY VaultInit, VaultNext, PTL DEF Spec

\* Every variable keeps a value of its kind: no call stores or encrypts under a
\* key, a password or a counter that it does not hold.
THEOREM VaultTypeCorrect == Spec => []TypeOK
<1>1. VaultInv => TypeOK BY DEF VaultInv
<1> QED BY <1>1, VaultInvariant, PTL

\* A locked vault stays locked when the worker is stopped and started again,
\* once the session has served what lock() and clearAll() asked of it.
THEOREM LockHolds == Spec => []LockOutlivesTheWorker
<1>1. VaultInv => LockOutlivesTheWorker
  BY DEF VaultInv, LockedInSession, LockOutlivesTheWorker, Dropping, Dropped
<1> QED BY <1>1, VaultInvariant, PTL

-----------------------------------------------------------------------------
(* KeptInv: what is stored of the vaults, and what is about to be.          *)

\* What the steps of a call leave of its operation.
Continues(r, old) == r = Idle \/ (r.op = old.op /\ r.id = old.id)

LEMMA KeptCalls ==
    ASSUME TypeOK, NEW c \in Calls, NEW r \in Call, call' = [call EXCEPT ![c] = r],
           Continues(r, call[c]), made' = made, IdsNew
    PROVE  IdsNew'
<1>1. \A d \in Calls : call'[d] = IF d = c THEN r ELSE call[d]
  BY DEF TypeOK
<1>2. Idle.op = "none"
  BY DEF Idle
<1>3. \A d \in Calls : call'[d].op = "create" => call[d].op = "create" /\ call'[d].id = call[d].id
  BY <1>1, <1>2 DEF Continues
<1> QED BY <1>3 DEF IdsNew

LEMMA KeptWrite ==
    ASSUME TypeOK, KeptInv, NEW w \in Writes, w.item # "vaults",
           writes' = Append(writes, w) \/ writes' = writes,
           mem'.vaults = mem.vaults, disk'.vaults = disk.vaults, made' = made, gone' = gone
    PROVE  IdsMade' /\ Kept'
<1>1. \A i \in DOMAIN writes' :
         \/ i \in DOMAIN writes /\ writes'[i] = writes[i]
         \/ writes'[i] = w
  BY Appended DEF TypeOK
<1>2. IdsMade'
  BY <1>1 DEF KeptInv, IdsMade
<1>3. Kept'
  <2> SUFFICES ASSUME NEW v \in mem'.vaults, v.id \notin gone',
                      NEW i \in DOMAIN writes', writes'[i].item = "vaults"
               PROVE  /\ v \in disk'.vaults => v \in writes'[i].value.vaults
                      /\ v \in writes'[i].value.vaults =>
                           \A j \in DOMAIN writes' : j > i /\ writes'[j].item = "vaults" =>
                               v \in writes'[j].value.vaults
    BY DEF Kept
  <2>1. i \in DOMAIN writes /\ writes'[i] = writes[i]
    BY <1>1
  <2>2. \A j \in DOMAIN writes' : writes'[j].item = "vaults" =>
           j \in DOMAIN writes /\ writes'[j] = writes[j]
    BY <1>1
  <2> QED BY <2>1, <2>2 DEF KeptInv, Kept
<1> QED BY <1>2, <1>3

\* A step of one call that leaves the vaults alone.
LEMMA KeptStep ==
    ASSUME TypeOK, KeptInv, NEW c \in Calls, NEW r \in Call, call' = [call EXCEPT ![c] = r],
           Continues(r, call[c]),
           \/ writes' = writes
           \/ \E w \in Writes : w.item # "vaults" /\ writes' = Append(writes, w),
           mem'.vaults = mem.vaults, UNCHANGED <<disk, made, gone>>
    PROVE  KeptInv'
<1>1. IdsNew'
  BY KeptCalls DEF KeptInv
<1>2. IdsMade' /\ Kept'
  <2>1. CASE writes' = writes
    BY <2>1 DEF KeptInv, IdsMade, Kept
  <2>2. CASE \E w \in Writes : w.item # "vaults" /\ writes' = Append(writes, w)
    BY <2>2, KeptWrite
  <2> QED BY <2>1, <2>2
<1> QED BY <1>1, <1>2 DEF KeptInv

LEMMA KeptFinish ==
    ASSUME VaultInv, KeptInv, NEW c \in Calls, Finish(c), mem'.vaults = mem.vaults,
           UNCHANGED <<disk, writes, requests, made, gone>>
    PROVE  KeptInv'
<1>1. Idle \in Call /\ Continues(Idle, call[c])
  BY BlankType DEF Continues, Idle
<1> QED BY <1>1, KeptStep DEF Finish, Resume, VaultInv

LEMMA ReadKept ==
    ASSUME VaultInv, KeptInv, NEW c \in Calls, Read(c)
    PROVE  KeptInv'
<1> DEFINE item == Head(call[c].want)
<1> DEFINE r == [call[c] EXCEPT ![item] = Stored(item), !.want = Tail(@)]
<1>1. call[c] \in Call BY CallFacts
<1>2. call[c].want \in Seq(Items \ {"vaults"}) /\ call[c].want # <<>>
  BY <1>1, Zenon DEF Call, Read
<1>3. item \in Items \ {"vaults"} /\ Tail(call[c].want) \in Seq(Items \ {"vaults"})
  BY <1>2, Served
<1>4. Stored(item) \in Kind(item)
  BY <1>3, StoredType DEF VaultInv
<1>5. item = "cipher" \/ item = "mac" \/ item = "counter" BY <1>3 DEF Items
<1>6. call' = [call EXCEPT ![c] = r] BY Zenon DEF Read, Resume
<1> HIDE DEF item
<1>7. r \in Call /\ r.at = call[c].at /\ r.op = call[c].op /\ r.id = call[c].id
  <2>1. CASE item = "cipher" BY <1>1, <1>3, <1>4, <2>1, Zenon DEF Call, Kind
  <2>2. CASE item = "mac" BY <1>1, <1>3, <1>4, <2>2, Zenon DEF Call, Kind
  <2>3. CASE item = "counter" BY <1>1, <1>3, <1>4, <2>3, Zenon DEF Call, Kind
  <2> QED BY <1>5, <2>1, <2>2, <2>3, Zenon
<1> HIDE DEF r
<1>8. Continues(r, call[c]) BY <1>7 DEF Continues
<1>9. UNCHANGED <<disk, writes, requests, mem, made, gone>> BY DEF Read
<1> QED BY <1>6, <1>7, <1>8, <1>9, KeptStep DEF VaultInv

\* A call that stores an item of the password.
LEMMA AwaitKept ==
    ASSUME VaultInv, KeptInv, NEW c \in Calls, NEW r \in Call, NEW item \in Items \ {"vaults"},
           NEW value \in Kind(item), NEW at \in Points,
           AwaitWrite(c, r, item, value, at), r.op = call[c].op, r.id = call[c].id,
           UNCHANGED <<disk, requests, mem, made, gone>>
    PROVE  KeptInv'
<1> DEFINE w == Write(item, value, c, at)
<1> DEFINE s == [r EXCEPT !.at = "written"]
<1>1. w \in Writes /\ w.at = at /\ w.item = item
  BY WriteType DEF Write
<1>2. s \in Call /\ s.at = "written" /\ s.op = r.op /\ s.id = r.id
  BY DEF Call, Points
<1>3. call' = [call EXCEPT ![c] = s] /\ writes' = Append(writes, w)
  BY DEF AwaitWrite, Resume
<1> HIDE DEF w, s
<1>4. Continues(s, call[c]) BY <1>2 DEF Continues
<1> QED BY <1>1, <1>2, <1>3, <1>4, KeptStep DEF VaultInv

LEMMA StoresKept ==
    ASSUME VaultInv, KeptInv, NEW c \in Calls,
           \/ SignUp(c) \/ StoreMac(c) \/ StoreCounter(c)
           \/ StoreNewCipher(c) \/ StoreNewMac(c)
    PROVE  KeptInv'
<1> DEFINE r == call[c]
<1>1. r \in Call /\ Argued(r) /\ Ready(r, r.at)
  BY CallFacts
<1>2. /\ {"cipher", "mac", "counter"} \subseteq Items \ {"vaults"}
      /\ {"storeMac", "storeCounter", "signed", "storeNewMac", "changed"} \subseteq Points
  BY DEF Items, Points
<1>3. CASE SignUp(c)
  <2>1. r.at = "signing" BY <1>3 DEF SignUp, At
  <2>2. r.op = "create" /\ r.pw \in Passwords BY <1>1, <2>1 DEF Argued, Ready, Call
  <2>3. CASE Finish(c) /\ UNCHANGED <<writes, drawn>>
    BY <1>3, <2>3, KeptFinish DEF SignUp
  <2>4. ASSUME NEW key \in Keys, AwaitWrite(c, [r EXCEPT !.key = key], "cipher", <<key, r.pw>>, "storeMac")
        PROVE  KeptInv'
    <3> DEFINE s == [r EXCEPT !.key = key]
    <3>1. s \in Call /\ s.op = r.op /\ s.id = r.id BY <1>1 DEF Call
    <3>2. AwaitWrite(c, s, "cipher", <<key, r.pw>>, "storeMac") BY <2>4
    <3>3. <<key, r.pw>> \in Kind("cipher") BY <2>2 DEF Ciphers, Kind
    <3>4. UNCHANGED <<disk, requests, mem, made, gone>> BY <1>3 DEF SignUp
    <3> HIDE DEF s
    <3> QED BY <1>2, <3>1, <3>2, <3>3, <3>4, AwaitKept
  <2> QED BY <1>3, <2>3, <2>4 DEF SignUp
<1>4. CASE StoreMac(c)
  <2>1. <<r.key, r.pw>> \in Kind("mac")
    BY <1>1, <1>4 DEF StoreMac, At, Argued, Ready, Call, Ciphers, Kind
  <2> QED BY <1>1, <1>2, <1>4, <2>1, AwaitKept DEF StoreMac
<1>5. CASE StoreCounter(c)
  <2>1. r.key \in Kind("counter")
    BY <1>1, <1>5 DEF StoreCounter, At, Ready, Call, Kind
  <2> QED BY <1>1, <1>2, <1>5, <2>1, AwaitKept DEF StoreCounter
<1>6. CASE StoreNewCipher(c)
  <2>1. <<r.key, r.new>> \in Kind("cipher")
    BY <1>1, <1>6 DEF StoreNewCipher, At, Argued, Ready, Call, Ciphers, Kind
  <2> QED BY <1>1, <1>2, <1>6, <2>1, AwaitKept DEF StoreNewCipher
<1>7. CASE StoreNewMac(c)
  <2>1. <<r.key, r.new>> \in Kind("mac")
    BY <1>1, <1>7 DEF StoreNewMac, At, Argued, Ready, Call, Ciphers, Kind
  <2> QED BY <1>1, <1>2, <1>7, <2>1, AwaitKept DEF StoreNewMac
<1> QED BY <1>3, <1>4, <1>5, <1>6, <1>7

LEMMA MovesKept ==
    ASSUME VaultInv, KeptInv, NEW c \in Calls,
           SignedUp(c) \/ Opened(c) \/ Encrypt(c) \/ Changed(c)
    PROVE  KeptInv'
<1> DEFINE r == call[c]
<1>1. r \in Call
  BY CallFacts
<1>2. /\ mem'.vaults = mem.vaults
      /\ UNCHANGED <<disk, writes, requests, made, gone>>
  BY DEF SignedUp, Opened, Encrypt, Changed, VaultInv, TypeOK, Memory
<1>3. CASE Finish(c)
  BY <1>2, <1>3, KeptFinish
<1>4. ASSUME NEW s \in Call, call' = [call EXCEPT ![c] = s], s.op = r.op, s.id = r.id
      PROVE  KeptInv'
  BY <1>2, <1>4, KeptStep DEF Continues, VaultInv
<1>5. mem.password \in Keys \cup {None} BY DEF VaultInv, TypeOK, Memory
<1>6. CASE Resume(c, [r EXCEPT !.at = "unlocking", !.want = UnlockReads])
  <2> DEFINE s == [r EXCEPT !.at = "unlocking", !.want = UnlockReads]
  <2>1. s \in Call /\ s.op = r.op /\ s.id = r.id /\ s.at = "unlocking"
    BY <1>1, ReadsType, Zenon DEF Call, Points
  <2>2. call' = [call EXCEPT ![c] = s] BY <1>6 DEF Resume
  <2> HIDE DEF s
  <2> QED BY <1>4, <2>1, <2>2
<1>7. CASE Resume(c, [r EXCEPT !.at = "adding"])
  <2> DEFINE s == [r EXCEPT !.at = "adding"]
  <2>1. s \in Call /\ s.op = r.op /\ s.id = r.id
    BY <1>1 DEF Call, Points
  <2>2. call' = [call EXCEPT ![c] = s] BY <1>7 DEF Resume
  <2> HIDE DEF s
  <2> QED BY <1>4, <2>1, <2>2
<1>8. CASE Resume(c, [r EXCEPT !.at = "changing", !.key = mem.password])
  <2> DEFINE s == [r EXCEPT !.at = "changing", !.key = mem.password]
  <2>1. s \in Call /\ s.op = r.op /\ s.id = r.id /\ s.at = "changing"
    BY <1>1, <1>5, Zenon DEF Call, Points
  <2>2. call' = [call EXCEPT ![c] = s] BY <1>8 DEF Resume
  <2> HIDE DEF s
  <2> QED BY <1>4, <2>1, <2>2
<1> QED BY <1>3, <1>6, <1>7, <1>8 DEF SignedUp, Opened, Encrypt, Changed

\* The steps that ask for a change of the session.
LEMMA SessionKept ==
    ASSUME VaultInv, KeptInv, NEW c \in Calls, Unlocked(c) \/ Cleared(c)
    PROVE  KeptInv'
<1> DEFINE r == call[c]
<1> DEFINE s == [r EXCEPT !.at = "written"]
<1>1. r \in Call
  BY CallFacts
<1>2. s \in Call /\ s.op = r.op /\ s.id = r.id /\ s.at = "written"
  BY <1>1 DEF Call, Points
<1>3. /\ mem'.vaults = mem.vaults
      /\ UNCHANGED <<disk, writes, made, gone>>
  BY DEF Unlocked, Cleared, VaultInv, TypeOK, Memory
<1>4. CASE Finish(c) /\ requests' = requests
  BY <1>3, <1>4, KeptFinish
<1>5. ASSUME NEW q \in Requests, q.at = "opened", Resume(c, s), requests' = Append(requests, q)
      PROVE  KeptInv'
  <2>1. Continues(s, r) BY <1>2 DEF Continues
  <2>2. call' = [call EXCEPT ![c] = s] BY <1>5 DEF Resume
  <2> HIDE DEF s
  <2> QED BY <1>2, <1>3, <1>5, <2>1, <2>2, KeptStep DEF VaultInv
<1>6. CASE Unlocked(c) /\ r.counter # None /\ Opens(r)
  <2> DEFINE q == [act |-> "set", key |-> r.cipher[1], counter |-> <<r.counter, r.cipher[1]>>,
                   by |-> c, at |-> "opened"]
  <2>1. r.cipher \in Ciphers /\ r.counter \in Keys BY <1>1, <1>6 DEF Opens, Call
  <2>2. r.cipher[1] \in Keys /\ <<r.counter, r.cipher[1]>> \in Counters
    BY <2>1 DEF Ciphers, Counters
  <2>3. q \in Requests /\ q.at = "opened" BY <2>2 DEF Requests, Points
  <2>4. Resume(c, s) /\ requests' = Append(requests, q) BY <1>6 DEF Unlocked, SetSession
  <2> HIDE DEF q, s
  <2> QED BY <1>5, <2>3, <2>4
<1>7. CASE Cleared(c)
  <2> DEFINE q == [act |-> "dropKey", key |-> None, counter |-> None, by |-> c, at |-> "opened"]
  <2>1. q \in Requests /\ q.at = "opened" BY DEF Requests, Points
  <2>2. Resume(c, s) /\ requests' = Append(requests, q) BY <1>7 DEF Cleared, DropSession
  <2> HIDE DEF q, s
  <2> QED BY <1>5, <2>1, <2>2
<1> QED BY <1>4, <1>6, <1>7 DEF Unlocked

\* A call that is asked for.
LEMMA AskKept ==
    ASSUME VaultInv, KeptInv, NEW c \in Calls, NEW r \in Call, call[c] = Idle,
           r.op # "create", Resume(c, r),
           UNCHANGED <<disk, writes, requests, mem, made, gone>>
    PROVE  KeptInv'
<1>1. \A d \in Calls : call'[d] = IF d = c THEN r ELSE call[d]
  BY DEF Resume, VaultInv, TypeOK
<1>2. IdsNew'
  BY <1>1 DEF KeptInv, IdsNew
<1> QED BY <1>2 DEF KeptInv, IdsMade, Kept

LEMMA AsksKept ==
    ASSUME VaultInv, KeptInv, NEW c \in Calls, Asked(c)
    PROVE  KeptInv'
<1>1. ASSUME NEW pw \in Passwords, NEW id \in Ids, Create(c, pw, id) PROVE KeptInv'
  <2>1. PICK r : call' = [call EXCEPT ![c] = r] /\ r.op = "create" /\ r.id = id
    <3> DEFINE asked == [Idle EXCEPT !.op = "create", !.pw = pw, !.id = id]
    <3> DEFINE adding == [asked EXCEPT !.at = "adding"]
    <3> DEFINE signing == [asked EXCEPT !.at = "signing", !.want = <<"cipher", "mac", "counter">>]
    <3>1. /\ adding.op = "create" /\ adding.id = id /\ adding.at = "adding"
          /\ signing.op = "create" /\ signing.id = id /\ signing.at = "signing"
      BY DEF Idle
    <3>2. Resume(c, adding) \/ Resume(c, signing)
      BY <1>1 DEF Create
    <3> HIDE DEF adding, signing
    <3> QED BY <3>1, <3>2 DEF Resume
  <2>2. \A d \in Calls : call'[d] = IF d = c THEN r ELSE call[d]
    BY <2>1 DEF VaultInv, TypeOK
  <2>3. /\ id \notin made /\ \A d \in Calls : call[d].id # id
        /\ UNCHANGED <<disk, writes, requests, mem, made, gone>>
    BY <1>1 DEF Create, Ask
  <2>4. IdsNew'
    BY <2>1, <2>2, <2>3 DEF KeptInv, IdsNew
  <2> QED BY <2>3, <2>4 DEF KeptInv, IdsMade, Kept
<1>2. ASSUME NEW pw \in Passwords, NEW id \in Ids, Delete(c, id, pw) PROVE KeptInv'
  <2> DEFINE r == [Idle EXCEPT !.op = "delete", !.at = "checking", !.pw = pw, !.id = id,
                               !.want = CryptoState]
  <2>1. r \in Call /\ r.op = "delete" /\ r.at = "checking"
    BY BlankType, ReadsType DEF Idle, Call, Points
  <2>2. call[c] = Idle /\ Resume(c, r) BY <1>2 DEF Delete, Ask
  <2> HIDE DEF r
  <2> QED BY <1>2, <2>1, <2>2, AskKept DEF Delete
<1>3. ASSUME NEW pw \in Passwords, Unlock(c, pw) PROVE KeptInv'
  <2> DEFINE r == [Idle EXCEPT !.op = "unlock", !.at = "unlocking", !.pw = pw, !.want = UnlockReads]
  <2>1. r \in Call /\ r.op = "unlock" /\ r.at = "unlocking"
    BY BlankType, ReadsType DEF Idle, Call, Points
  <2>2. call[c] = Idle /\ Resume(c, r) BY <1>3 DEF Unlock, Ask
  <2> HIDE DEF r
  <2> QED BY <1>3, <2>1, <2>2, AskKept DEF Unlock
<1>4. ASSUME NEW pw \in Passwords, NEW new \in Passwords, Change(c, pw, new) PROVE KeptInv'
  <2> DEFINE r == [Idle EXCEPT !.op = "change", !.at = "checking", !.pw = pw, !.new = new,
                               !.want = CryptoState]
  <2>1. r \in Call /\ r.op = "change" /\ r.at = "checking"
    BY BlankType, ReadsType DEF Idle, Call, Points
  <2>2. call[c] = Idle /\ Resume(c, r) BY <1>4 DEF Change, Ask
  <2> HIDE DEF r
  <2> QED BY <1>4, <2>1, <2>2, AskKept DEF Change
<1> QED BY <1>1, <1>2, <1>3, <1>4 DEF Asked

\* A snapshot of the vaults is put behind the others.
LEMMA SnapshotKept ==
    ASSUME TypeOK, KeptInv, NEW w \in Writes, w.item = "vaults",
           writes' = Append(writes, w), UNCHANGED <<disk>>,
           mem'.vaults \subseteq w.value.vaults,
           \A v \in w.value.vaults : v.id \in made',
           made \subseteq made', gone \subseteq gone',
           \A v \in mem'.vaults : v \in mem.vaults \/ v.id \notin made
    PROVE  IdsMade' /\ Kept'
<1>1. /\ \A i \in DOMAIN writes' :
           \/ i \in DOMAIN writes /\ writes'[i] = writes[i]
           \/ i = Len(writes) + 1 /\ writes'[i] = w
      /\ \A i \in DOMAIN writes : i \in Nat /\ i < Len(writes) + 1
  BY Appended DEF TypeOK
<1>2. IdsMade'
  BY <1>1 DEF KeptInv, IdsMade
<1>3. Kept'
  <2> SUFFICES ASSUME NEW v \in mem'.vaults, v.id \notin gone',
                      NEW i \in DOMAIN writes', writes'[i].item = "vaults"
               PROVE  /\ v \in disk'.vaults => v \in writes'[i].value.vaults
                      /\ v \in writes'[i].value.vaults =>
                           \A j \in DOMAIN writes' : j > i /\ writes'[j].item = "vaults" =>
                               v \in writes'[j].value.vaults
    BY DEF Kept
  <2>1. v \in w.value.vaults
    OBVIOUS
  <2>2. CASE i \in DOMAIN writes /\ writes'[i] = writes[i]
    <3>1. CASE v \in mem.vaults
      <4>1. v.id \notin gone
        OBVIOUS
      <4>2. /\ v \in disk.vaults => v \in writes[i].value.vaults
            /\ v \in writes[i].value.vaults =>
                 \A j \in DOMAIN writes : j > i /\ writes[j].item = "vaults" =>
                     v \in writes[j].value.vaults
        BY <2>2, <3>1, <4>1 DEF KeptInv, Kept
      <4> QED BY <1>1, <2>1, <2>2, <4>2
    <3>2. CASE v.id \notin made
      <4>1. v \notin disk.vaults /\ v \notin writes[i].value.vaults
        BY <2>2, <3>2 DEF KeptInv, IdsMade
      <4> QED BY <2>2, <4>1
    <3> QED BY <3>1, <3>2
  <2>3. CASE i = Len(writes) + 1 /\ writes'[i] = w
    <3>1. \A j \in DOMAIN writes' : ~(j > i)
      <4>1. Len(writes) \in Nat
        BY LenProperties DEF TypeOK
      <4> QED BY <1>1, <2>3, <4>1
    <3> QED BY <2>1, <2>3, <3>1
  <2> QED BY <1>1, <2>2, <2>3
<1> QED BY <1>2, <1>3

\* What clearAll() puts behind the writes under way.
Clearing(c) == <<StoreVaults({}), Write("cipher", None, None, "idle"),
                 Write("mac", None, None, "idle"), Write("counter", None, c, "cleared")>>

LEMMA ClearingQueued ==
    ASSUME TypeOK, NEW c \in Calls, writes' = writes \o Clearing(c)
    PROVE  /\ \A i \in DOMAIN writes : /\ i \in DOMAIN writes' /\ writes'[i] = writes[i]
                                       /\ i \in Nat /\ i <= Len(writes)
           /\ Len(writes) \in Nat
           /\ \A k \in 1..4 : /\ Len(writes) + k \in DOMAIN writes'
                              /\ writes'[Len(writes) + k] = Clearing(c)[k]
           /\ \A i \in DOMAIN writes' : \/ i \in DOMAIN writes
                                        \/ \E k \in 1..4 : i = Len(writes) + k
<1>1. /\ {} \in Kind("vaults") /\ None \in Kind("cipher") /\ None \in Kind("mac")
      /\ None \in Kind("counter")
      /\ "vaults" \in Items /\ "cipher" \in Items /\ "mac" \in Items /\ "counter" \in Items
      /\ None \in Calls \cup {None} /\ c \in Calls \cup {None}
      /\ "idle" \in Points /\ "cleared" \in Points
  BY DEF Kind, Items, Points
<1>2. /\ StoreVaults({}) \in Writes /\ Write("cipher", None, None, "idle") \in Writes
      /\ Write("mac", None, None, "idle") \in Writes
      /\ Write("counter", None, c, "cleared") \in Writes
  BY <1>1, WriteType DEF StoreVaults
<1>3. Clearing(c) \in Seq(Writes) /\ DOMAIN Clearing(c) = 1..4
  BY <1>2 DEF Clearing
<1>4. writes \in Seq(Writes)
  BY DEF TypeOK
<1>5. PICK four : four = Clearing(c)
  OBVIOUS
<1> DEFINE s == writes \o four
<1>6. /\ \A i \in DOMAIN writes : i \in DOMAIN s /\ s[i] = writes[i]
      /\ \A k \in DOMAIN four : Len(writes) + k \in DOMAIN s /\ s[Len(writes) + k] = four[k]
      /\ \A i \in DOMAIN s : i \in DOMAIN writes \/ \E k \in DOMAIN four : i = Len(writes) + k
  <2>1. four \in Seq(Writes)
    BY <1>3, <1>5
  <2> QED BY ONLY <2>1, <1>4, Joined
<1>7. Len(writes) \in Nat /\ \A i \in DOMAIN writes : i \in Nat /\ i <= Len(writes)
  BY <1>4, LenProperties
<1>8. writes' = s
  BY <1>5
<1> HIDE DEF s
<1> QED BY <1>3, <1>5, <1>6, <1>7, <1>8

LEMMA ClearingWrites ==
    ASSUME NEW c, NEW k \in 1..4
    PROVE  LET w == Clearing(c)[k] IN
             /\ w.item = IF k = 1 THEN "vaults" ELSE IF k = 2 THEN "cipher"
                         ELSE IF k = 3 THEN "mac" ELSE "counter"
             /\ w.at = IF k = 4 THEN "cleared" ELSE "idle"
             /\ w.by = IF k = 4 THEN c ELSE None
             /\ w.item = "vaults" => w.value.vaults = {}
             /\ w.item # "vaults" => w.value[w.item] = None
<1>1. CASE k = 1 BY <1>1 DEF Clearing, StoreVaults, Write, Blank
<1>2. CASE k = 2 BY <1>2 DEF Clearing, Write, Blank
<1>3. CASE k = 3 BY <1>3 DEF Clearing, Write, Blank
<1>4. CASE k = 4 BY <1>4 DEF Clearing, Write, Blank
<1> QED BY <1>1, <1>2, <1>3, <1>4

LEMMA AddVaultKept ==
    ASSUME VaultInv, KeptInv, NEW c \in Calls, AddVault(c)
    PROVE  KeptInv'
<1> DEFINE r == call[c]
<1> DEFINE new == [id |-> r.id, key |-> mem.password, counter |-> mem.counter]
<1> DEFINE vaults == mem.vaults \cup {new}
<1>1. /\ r \in Call /\ r.at = "adding" /\ r.op = "create" /\ r.id \in Ids
      /\ call' = [call EXCEPT ![c] = Idle]
  BY CallFacts DEF AddVault, At, Ready, Argued, Call, Finish, Resume
<1>2. CASE UNCHANGED <<mem, writes, made>>
  BY <1>2, KeptFinish DEF AddVault
<1>3. CASE ~IsLocked
  <2>1. /\ mem' = [mem EXCEPT !.vaults = vaults]
        /\ writes' = Append(writes, StoreVaults(vaults))
        /\ made' = made \cup {r.id}
        /\ UNCHANGED <<disk, requests, gone>>
    BY <1>3 DEF AddVault
  <2>2. mem \in Memory /\ mem.counter # None
    BY <1>3 DEF VaultInv, TypeOK, KeyHasCounter
  <2>3. vaults \in SUBSET Vaults
    BY <1>1, <1>3, <2>2 DEF Vaults, Memory, IsLocked
  <2> DEFINE w == StoreVaults(vaults)
  <2>4. w \in Writes /\ w.item = "vaults" /\ w.at = "idle" /\ w.value.vaults = vaults
    <3>1. vaults \in Kind("vaults") /\ "vaults" \in Items BY <2>3 DEF Kind, Items
    <3>2. None \in Calls \cup {None} /\ "idle" \in Points BY DEF Points
    <3> HIDE DEF vaults
    <3>3. StoreVaults(vaults) \in Writes BY <3>1, <3>2, WriteType DEF StoreVaults
    <3> QED BY <3>3 DEF StoreVaults, Write, Blank
  <2>5. mem'.vaults = vaults
    BY <2>1, <2>2 DEF Memory
  <2>6. new.id = r.id /\ r.id \notin made
    BY <1>1 DEF KeptInv, IdsNew
  <2>7. /\ \A v \in vaults : v.id \in made'
        /\ \A v \in vaults : v \in mem.vaults \/ v.id \notin made
    BY <2>1, <2>6 DEF KeptInv, IdsMade
  <2> HIDE DEF vaults, w, new
  <2>8. writes' = Append(writes, w)
    BY <2>1 DEF w
  <2>9. IdsMade' /\ Kept'
    BY <2>1, <2>4, <2>5, <2>7, <2>8, SnapshotKept DEF VaultInv
  <2>10. \A d \in Calls : call'[d] = IF d = c THEN Idle ELSE call[d]
    BY <1>1 DEF VaultInv, TypeOK
  <2>11. Idle.op = "none"
    BY DEF Idle
  <2>12. IdsNew'
    BY <1>1, <2>1, <2>10, <2>11 DEF KeptInv, IdsNew
  <2> QED BY <2>9, <2>12 DEF KeptInv
<1> QED BY <1>2, <1>3 DEF AddVault

LEMMA RemoveVaultKept ==
    ASSUME VaultInv, KeptInv, NEW c \in Calls, RemoveVault(c)
    PROVE  KeptInv'
<1> DEFINE r == call[c]
<1> DEFINE rest == {v \in mem.vaults : v.id # r.id}
<1> DEFINE next == [r EXCEPT !.at = "clearing", !.want = CryptoState]
<1>1. r \in Call /\ r.at = "checking" /\ r.op = "delete"
  BY CallFacts DEF RemoveVault, At
<1>2. next.op = "delete"
  BY <1>1 DEF Call
<1>3. CASE Finish(c) /\ UNCHANGED <<mem, writes, gone>>
  BY <1>3, KeptFinish DEF RemoveVault
<1>4. CASE Checked(r) /\ rest # mem.vaults
  <2>1. /\ mem' = [mem EXCEPT !.vaults = rest]
        /\ writes' = Append(writes, StoreVaults(rest))
        /\ gone' = gone \cup {r.id}
        /\ UNCHANGED <<disk, requests, made>>
        /\ Resume(c, next) \/ Resume(c, Idle)
    BY <1>4 DEF RemoveVault, Finish
  <2>2. mem \in Memory /\ rest \in SUBSET Vaults
    BY DEF VaultInv, TypeOK, Memory
  <2> DEFINE w == StoreVaults(rest)
  <2>3. w \in Writes /\ w.item = "vaults" /\ w.at = "idle" /\ w.value.vaults = rest
    <3>1. rest \in Kind("vaults") /\ "vaults" \in Items BY <2>2 DEF Kind, Items
    <3>2. None \in Calls \cup {None} /\ "idle" \in Points BY DEF Points
    <3> HIDE DEF rest
    <3>3. StoreVaults(rest) \in Writes BY <3>1, <3>2, WriteType DEF StoreVaults
    <3> QED BY <3>3 DEF StoreVaults, Write, Blank
  <2>4. mem'.vaults = rest
    BY <2>1, <2>2 DEF Memory
  <2>5. rest \subseteq mem.vaults /\ \A v \in rest : v.id \in made
    BY DEF KeptInv, IdsMade
  <2>6. PICK s \in {next, Idle} : call' = [call EXCEPT ![c] = s]
    BY <2>1 DEF Resume
  <2> HIDE DEF rest, w, next
  <2>7. writes' = Append(writes, w)
    BY <2>1 DEF w
  <2>8. IdsMade' /\ Kept'
    BY <2>1, <2>3, <2>4, <2>5, <2>7, SnapshotKept DEF VaultInv
  <2>9. \A d \in Calls : call'[d] = IF d = c THEN s ELSE call[d]
    BY <2>6 DEF VaultInv, TypeOK
  <2>10. Idle.op = "none"
    BY DEF Idle
  <2>11. IdsNew'
    BY <1>2, <2>1, <2>6, <2>9, <2>10 DEF KeptInv, IdsNew
  <2> QED BY <2>8, <2>11 DEF KeptInv
<1> QED BY <1>3, <1>4 DEF RemoveVault

LEMMA ClearAllKept ==
    ASSUME VaultInv, KeptInv, NEW c \in Calls, ClearAll(c)
    PROVE  KeptInv'
<1> DEFINE r == call[c]
<1> DEFINE next == [r EXCEPT !.at = "written"]
<1>1. r \in Call
  BY CallFacts
<1>2. next \in Call /\ next.at = "written" /\ next.op = r.op /\ next.id = r.id
  BY <1>1 DEF Call, Points
<1>3. CASE Finish(c) /\ UNCHANGED <<mem, writes>>
  BY <1>3, KeptFinish DEF ClearAll
<1>4. CASE Checked(r)
  <2>1. /\ mem' = Empty /\ writes' = writes \o Clearing(c) /\ call' = [call EXCEPT ![c] = next]
        /\ UNCHANGED <<disk, requests, made, gone>>
    BY <1>4 DEF ClearAll, Resume, Clearing
  <2>2. /\ \A i \in DOMAIN writes : i \in DOMAIN writes' /\ writes'[i] = writes[i]
        /\ \A i \in DOMAIN writes' : \/ i \in DOMAIN writes
                                     \/ \E k \in 1..4 : writes'[i] = Clearing(c)[k]
    BY <2>1, ClearingQueued DEF VaultInv
  <2>3. \A k \in 1..4 : Clearing(c)[k].item = "vaults" => Clearing(c)[k].value.vaults = {}
    BY ClearingWrites
  <2>4. mem'.vaults = {}
    BY <2>1 DEF Empty
  <2> HIDE DEF next
  <2>5. \A d \in Calls : call'[d] = IF d = c THEN next ELSE call[d]
    BY <2>1 DEF VaultInv, TypeOK
  <2>6. IdsNew'
    BY <1>2, <2>1, <2>5 DEF KeptInv, IdsNew
  <2>7. IdsMade'
    <3>1. \A v \in mem'.vaults \cup disk'.vaults : v.id \in made'
      BY <2>1, <2>4 DEF KeptInv, IdsMade
    <3>2. ASSUME NEW i \in DOMAIN writes', writes'[i].item = "vaults"
          PROVE  \A v \in writes'[i].value.vaults : v.id \in made'
      <4>1. CASE i \in DOMAIN writes
        BY <2>1, <2>2, <3>2, <4>1 DEF KeptInv, IdsMade
      <4>2. CASE \E k \in 1..4 : writes'[i] = Clearing(c)[k]
        BY <2>3, <3>2, <4>2
      <4> QED BY <2>2, <4>1, <4>2
    <3> QED BY <3>1, <3>2 DEF IdsMade
  <2>8. Kept'
    BY <2>4 DEF Kept
  <2> QED BY <2>6, <2>7, <2>8 DEF KeptInv
<1> QED BY <1>3, <1>4 DEF ClearAll

LEMMA LandedCalls ==
    ASSUME KeptInv, made' = made,
           \A d \in Calls : call'[d] = call[d] \/ (call'[d].op = call[d].op /\ call'[d].id = call[d].id)
    PROVE  IdsNew'
BY DEF KeptInv, IdsNew

\* The storage serves its oldest write.
LEMMA Landed ==
    ASSUME VaultInv, LandWrite
    PROVE  LET w == writes[1] IN
             /\ w \in Writes /\ 1 \in DOMAIN writes
             /\ \A i \in DOMAIN writes' : /\ i + 1 \in DOMAIN writes /\ writes'[i] = writes[i + 1]
                                          /\ i \in Nat /\ i > 0
             /\ \A i \in DOMAIN writes :
                  /\ i \in Nat
                  /\ i = 1 \/ (i - 1 \in DOMAIN writes' /\ writes'[i - 1] = writes[i])
             /\ \A item \in Items : disk'[item] = IF item = w.item THEN w.value[item] ELSE disk[item]
             /\ \A d \in Calls :
                  /\ w.by # d => call'[d] = call[d]
                  /\ w.by = d => call'[d] = [call[d] EXCEPT !.at = w.at]
             /\ UNCHANGED <<session, requests, mem, drawn, made, gone, current, ends, torn>>
<1> DEFINE w == Head(writes)
<1>1. /\ w \in Writes /\ w = writes[1] /\ 1 \in DOMAIN writes
      /\ \A i \in DOMAIN writes' : /\ i + 1 \in DOMAIN writes /\ writes'[i] = writes[i + 1]
                                   /\ i \in Nat /\ i > 0
      /\ \A i \in DOMAIN writes :
           /\ i \in Nat
           /\ i = 1 \/ (i - 1 \in DOMAIN writes' /\ writes'[i - 1] = writes[i])
  BY Served DEF LandWrite, VaultInv, TypeOK
<1>2. /\ disk' = [disk EXCEPT ![w.item] = w.value[w.item]]
      /\ call' = IF w.by = None THEN call ELSE [call EXCEPT ![w.by].at = w.at]
      /\ UNCHANGED <<session, requests, mem, drawn, made, gone, current, ends, torn>>
  BY DEF LandWrite
<1>3. w.by = None \/ w.by \in Calls BY <1>1 DEF Writes
<1> HIDE DEF w
<1>4. \A d \in Calls :
        /\ w.by # d => call'[d] = call[d]
        /\ w.by = d => call'[d] = [call[d] EXCEPT !.at = w.at]
  BY <1>2, Constants DEF VaultInv, TypeOK
<1>5. \A item \in Items : disk'[item] = IF item = w.item THEN w.value[item] ELSE disk[item]
  <2>1. DOMAIN disk = Items
    BY DEF VaultInv, TypeOK, Local, Items
  <2> QED BY <1>2, <2>1
<1> QED BY <1>1, <1>2, <1>4, <1>5

LEMMA LandWriteKept ==
    ASSUME VaultInv, KeptInv, LandWrite
    PROVE  KeptInv'
<1> DEFINE w == writes[1]
<1>1. /\ w \in Writes /\ 1 \in DOMAIN writes
      /\ \A i \in DOMAIN writes' : /\ i + 1 \in DOMAIN writes /\ writes'[i] = writes[i + 1]
                                   /\ i \in Nat /\ i > 0
      /\ \A item \in Items : disk'[item] = IF item = w.item THEN w.value[item] ELSE disk[item]
      /\ \A d \in Calls :
           /\ w.by # d => call'[d] = call[d]
           /\ w.by = d => call'[d] = [call[d] EXCEPT !.at = w.at]
      /\ UNCHANGED <<session, requests, mem, drawn, made, gone, current, ends, torn>>
  BY Landed, Zenon
<1> HIDE DEF w
<1>2. \A d \in Calls : call'[d] = call[d] \/ (call'[d].op = call[d].op /\ call'[d].id = call[d].id)
  <2> TAKE d \in Calls
  <2>1. call[d] \in Call
    BY DEF VaultInv, TypeOK
  <2>2. CASE w.by = d
    <3>1. call'[d] = [call[d] EXCEPT !.at = w.at]
      BY <1>1, <2>2
    <3> QED BY <2>1, <3>1, Zenon DEF Call, Points
  <2>3. CASE w.by # d BY <1>1, <2>3
  <2> QED BY <2>2, <2>3
<1>4. IdsNew'
  BY <1>1, <1>2, LandedCalls
<1>5. "vaults" \in Items
  BY DEF Items
<1>6. disk'.vaults = disk.vaults \/ (w.item = "vaults" /\ disk'.vaults = w.value.vaults)
  BY <1>1, <1>5
<1>7. IdsMade'
  BY <1>1, <1>6 DEF KeptInv, IdsMade, w
<1>8. Kept'
  <2> SUFFICES ASSUME NEW v \in mem.vaults, v.id \notin gone,
                      NEW i \in DOMAIN writes', writes'[i].item = "vaults"
               PROVE  /\ v \in disk'.vaults => v \in writes'[i].value.vaults
                      /\ v \in writes'[i].value.vaults =>
                           \A j \in DOMAIN writes' : j > i /\ writes'[j].item = "vaults" =>
                               v \in writes'[j].value.vaults
    BY <1>1 DEF Kept
  <2>1. i + 1 \in DOMAIN writes /\ writes'[i] = writes[i + 1] /\ i + 1 > 1 /\ i \in Nat
    BY <1>1
  <2>2. v \in disk.vaults => v \in writes[i + 1].value.vaults
    BY <2>1 DEF KeptInv, Kept
  <2>3. w.item = "vaults" /\ v \in w.value.vaults => v \in writes[i + 1].value.vaults
    BY <1>1, <2>1 DEF KeptInv, Kept, w
  <2>4. ASSUME NEW j \in DOMAIN writes', j > i, writes'[j].item = "vaults",
               v \in writes'[i].value.vaults
        PROVE  v \in writes'[j].value.vaults
    <3>1. j + 1 \in DOMAIN writes /\ writes'[j] = writes[j + 1] /\ j + 1 > i + 1
      BY <1>1, <2>1, <2>4
    <3> QED BY <2>1, <2>4, <3>1 DEF KeptInv, Kept
  <2> QED BY <1>6, <2>1, <2>2, <2>3, <2>4
<1> QED BY <1>4, <1>7, <1>8 DEF KeptInv

\* The session serves its oldest request; the second half of a removal is put
\* behind the others.
LEMMA SessionLanded ==
    ASSUME VaultInv, LandSession
    PROVE  LET q == requests[1] IN
             /\ q \in Requests /\ 1 \in DOMAIN requests
             /\ \A i \in DOMAIN requests' :
                  \/ i + 1 \in DOMAIN requests /\ requests'[i] = requests[i + 1] /\ i \in Nat /\ i > 0
                  \/ q.act = "dropKey" /\ requests'[i].by = q.by /\ requests'[i].at = q.at
             /\ \A i \in DOMAIN requests :
                  i = 1 \/ (i - 1 \in DOMAIN requests' /\ requests'[i - 1] = requests[i])
             /\ q.act = "dropKey" =>
                  \E i \in DOMAIN requests' : requests'[i].by = q.by /\ requests'[i].at = q.at
             /\ \A d \in Calls :
                  /\ q.by # d \/ q.act = "dropKey" => call'[d] = call[d]
                  /\ q.by = d /\ q.act # "dropKey" => call'[d] = [call[d] EXCEPT !.at = q.at]
             /\ UNCHANGED <<disk, writes, mem, drawn, made, gone, current, ends, torn>>
<1> DEFINE q == Head(requests)
<1> DEFINE more == [q EXCEPT !.act = "dropCounter"]
<1>1. /\ q \in Requests /\ q = requests[1] /\ 1 \in DOMAIN requests
      /\ Tail(requests) \in Seq(Requests)
      /\ \A i \in DOMAIN Tail(requests) :
           /\ i + 1 \in DOMAIN requests /\ Tail(requests)[i] = requests[i + 1]
           /\ i \in Nat /\ i > 0
      /\ \A i \in DOMAIN requests :
           i = 1 \/ (i - 1 \in DOMAIN Tail(requests) /\ Tail(requests)[i - 1] = requests[i])
  BY Served DEF LandSession, VaultInv, TypeOK
<1>2. more \in Requests /\ more.by = q.by /\ more.at = q.at
  BY <1>1 DEF Requests
<1>3. /\ requests' = IF q.act = "dropKey" THEN Append(Tail(requests), more) ELSE Tail(requests)
      /\ call' = IF q.by = None \/ q.act = "dropKey" THEN call ELSE [call EXCEPT ![q.by].at = q.at]
      /\ UNCHANGED <<disk, writes, mem, drawn, made, gone, current, ends, torn>>
  BY DEF LandSession
<1> HIDE DEF q, more
<1>4. q.by = None \/ q.by \in Calls BY <1>1 DEF Requests
<1>5. \A d \in Calls :
        /\ q.by # d \/ q.act = "dropKey" => call'[d] = call[d]
        /\ q.by = d /\ q.act # "dropKey" => call'[d] = [call[d] EXCEPT !.at = q.at]
  BY <1>3, <1>4, Constants DEF VaultInv, TypeOK
<1>6. CASE q.act = "dropKey"
  <2>1. requests' = Append(Tail(requests), more) BY <1>3, <1>6
  <2>2. /\ \A i \in DOMAIN Tail(requests) : i \in DOMAIN requests' /\ requests'[i] = Tail(requests)[i]
        /\ \A i \in DOMAIN requests' :
             \/ i \in DOMAIN Tail(requests) /\ requests'[i] = Tail(requests)[i]
             \/ i = Len(Tail(requests)) + 1 /\ requests'[i] = more
        /\ Len(Tail(requests)) + 1 \in DOMAIN requests' /\ requests'[Len(Tail(requests)) + 1] = more
    BY <1>1, <1>2, <2>1, Appended
  <2>3. /\ \A i \in DOMAIN requests' :
             \/ i + 1 \in DOMAIN requests /\ requests'[i] = requests[i + 1] /\ i \in Nat /\ i > 0
             \/ requests'[i].by = q.by /\ requests'[i].at = q.at
        /\ \A i \in DOMAIN requests :
             i = 1 \/ (i - 1 \in DOMAIN requests' /\ requests'[i - 1] = requests[i])
        /\ \E i \in DOMAIN requests' : requests'[i].by = q.by /\ requests'[i].at = q.at
    BY <1>1, <1>2, <2>2
  <2> QED BY <1>1, <1>3, <1>5, <1>6, <2>3
<1>7. CASE q.act # "dropKey"
  BY <1>1, <1>3, <1>5, <1>7
<1> QED BY <1>6, <1>7

LEMMA LandSessionKept ==
    ASSUME VaultInv, KeptInv, LandSession
    PROVE  KeptInv'
<1> DEFINE q == requests[1]
<1>1. /\ q \in Requests /\ 1 \in DOMAIN requests
      /\ \A i \in DOMAIN requests' :
           \/ i + 1 \in DOMAIN requests /\ requests'[i] = requests[i + 1] /\ i \in Nat /\ i > 0
           \/ q.act = "dropKey" /\ requests'[i].by = q.by /\ requests'[i].at = q.at
      /\ \A d \in Calls :
           /\ q.by # d \/ q.act = "dropKey" => call'[d] = call[d]
           /\ q.by = d /\ q.act # "dropKey" => call'[d] = [call[d] EXCEPT !.at = q.at]
      /\ UNCHANGED <<disk, writes, mem, drawn, made, gone, current, ends, torn>>
  BY SessionLanded, Zenon
<1> HIDE DEF q
<1>2. \A d \in Calls : call'[d] = call[d] \/ (call'[d].op = call[d].op /\ call'[d].id = call[d].id)
  BY <1>1 DEF VaultInv, TypeOK, Call
<1>3. IdsNew'
  BY <1>1, <1>2, LandedCalls
<1>4. IdsMade' /\ Kept'
  BY <1>1 DEF KeptInv, IdsMade, Kept
<1> QED BY <1>3, <1>4 DEF KeptInv

LEMMA LockKept ==
    ASSUME VaultInv, KeptInv, Lock
    PROVE  KeptInv'
<1>1. mem'.vaults = mem.vaults /\ UNCHANGED <<disk, writes, call, made, gone>>
  BY DEF Lock, VaultInv, TypeOK, Memory
<1> QED BY <1>1 DEF KeptInv, IdsMade, IdsNew, Kept

LEMMA EndKept ==
    ASSUME VaultInv, KeptInv, NEW kind \in Kinds, End(kind)
    PROVE  KeptInv'
<1>1. /\ mem'.vaults = disk.vaults /\ writes' = <<>>
      /\ call' = [c \in Calls |-> Idle]
      /\ UNCHANGED <<disk, made, gone>>
  BY DEF End
<1>2. Idle.op = "none"
  BY DEF Idle
<1>3. IdsNew'
  BY <1>1, <1>2 DEF IdsNew
<1> QED BY <1>1, <1>3 DEF KeptInv, IdsMade, Kept

LEMMA KeptInit == Init => KeptInv
<1> SUFFICES ASSUME Init PROVE KeptInv
  OBVIOUS
<1>1. /\ disk.vaults = {} /\ mem.vaults = {} /\ writes = <<>>
      /\ call = [c \in Calls |-> Idle] /\ Idle.op = "none"
  BY DEF Init, Blank, Empty, Idle
<1> QED BY <1>1 DEF KeptInv, IdsMade, IdsNew, Kept

LEMMA KeptNext == VaultInv /\ KeptInv /\ [Next]_vars => KeptInv'
<1> SUFFICES ASSUME VaultInv, KeptInv, [Next]_vars PROVE KeptInv'
  OBVIOUS
<1>1. ASSUME NEW c \in Calls, Step(c) PROVE KeptInv'
  <2>1. CASE Read(c) BY <2>1, ReadKept
  <2>2. CASE SignUp(c) \/ StoreMac(c) \/ StoreCounter(c) \/ StoreNewCipher(c) \/ StoreNewMac(c)
    BY <2>2, StoresKept
  <2>3. CASE SignedUp(c) \/ Opened(c) \/ Encrypt(c) \/ Changed(c) BY <2>3, MovesKept
  <2>4. CASE Unlocked(c) \/ Cleared(c) BY <2>4, SessionKept
  <2>5. CASE AddVault(c) BY <2>5, AddVaultKept
  <2>6. CASE RemoveVault(c) BY <2>6, RemoveVaultKept
  <2>7. CASE ClearAll(c) BY <2>7, ClearAllKept
  <2> QED BY <1>1, <2>1, <2>2, <2>3, <2>4, <2>5, <2>6, <2>7 DEF Step
<1>2. CASE UNCHANGED vars
  BY <1>2 DEF vars, KeptInv, IdsMade, IdsNew, Kept
<1>3. CASE LandWrite BY <1>3, LandWriteKept
<1>4. CASE LandSession BY <1>4, LandSessionKept
<1>5. CASE Lock BY <1>5, LockKept
<1>6. ASSUME NEW kind \in Kinds, End(kind) PROVE KeptInv' BY <1>6, EndKept
<1>7. ASSUME NEW c \in Calls, Asked(c) PROVE KeptInv' BY <1>7, AsksKept
<1> QED BY <1>1, <1>2, <1>3, <1>4, <1>5, <1>6, <1>7 DEF Next

LEMMA KeptHolds == Spec => []KeptInv
<1>1. Init => KeptInv BY KeptInit
<1>2. VaultInv /\ KeptInv /\ [Next]_vars => KeptInv' BY KeptNext
<1> QED BY <1>1, <1>2, VaultInvariant, PTL DEF Spec

\* What a step may do to a vault that memory and storage have.
LEMMA KeepsStep ==
    ASSUME VaultInv, KeptInv, [Next]_vars, NEW v \in mem.vaults \cap disk.vaults
    PROVE  SignsOut \/ v.id \in gone' \/ v \in mem'.vaults \cap disk'.vaults
<1> DEFINE Goal == SignsOut \/ v.id \in gone' \/ v \in mem'.vaults \cap disk'.vaults
<1>1. CASE mem'.vaults = mem.vaults /\ disk' = disk
  BY <1>1
<1>2. CASE LandWrite
  <2>1. /\ 1 \in DOMAIN writes /\ mem' = mem /\ gone' = gone
        /\ \A item \in Items :
             disk'[item] = IF item = writes[1].item THEN writes[1].value[item] ELSE disk[item]
    BY <1>2, Landed, Zenon
  <2>2. "vaults" \in Items BY DEF Items
  <2>3. CASE writes[1].item = "vaults"
    BY <2>1, <2>2, <2>3 DEF KeptInv, Kept
  <2>4. CASE writes[1].item # "vaults"
    BY <2>1, <2>2, <2>4
  <2> QED BY <2>3, <2>4
<1>3. ASSUME NEW c \in Calls, Step(c) PROVE Goal
  <2>1. CASE AddVault(c)
    BY <2>1 DEF AddVault, VaultInv, TypeOK, Memory
  <2>2. CASE RemoveVault(c)
    BY <2>2 DEF RemoveVault, VaultInv, TypeOK, Memory
  <2>3. CASE ClearAll(c)
    <3>1. CASE mem' = mem
      BY <1>1, <2>3, <3>1 DEF ClearAll
    <3>2. CASE Checked(call[c]) /\ mem' = Empty
      BY <2>3, <3>2 DEF ClearAll, Checked, Empty, SignsOut
    <3> QED BY <2>3, <3>1, <3>2 DEF ClearAll
  <2>4. CASE mem' = mem /\ disk' = disk
    BY <1>1, <2>4
  <2>5. CASE SignedUp(c) \/ Unlocked(c)
    <3>1. mem'.vaults = mem.vaults /\ disk' = disk
      BY <2>5 DEF SignedUp, Unlocked, VaultInv, TypeOK, Memory
    <3> QED BY <1>1, <3>1
  <2> QED BY <1>3, <2>1, <2>2, <2>3, <2>4, <2>5
          DEF Step, Read, SignUp, StoreMac, StoreCounter, Opened, Encrypt, StoreNewCipher,
              StoreNewMac, Changed, Cleared
<1>4. ASSUME NEW c \in Calls, Asked(c) PROVE Goal
  <2>1. mem' = mem /\ disk' = disk
    BY <1>4 DEF Asked, Create, Delete, Unlock, Change
  <2> QED BY <1>1, <2>1
<1>5. CASE LandSession
  BY <1>1, <1>5 DEF LandSession
<1>6. CASE Lock
  BY <1>1, <1>6 DEF Lock, VaultInv, TypeOK, Memory
<1>7. ASSUME NEW kind \in Kinds, End(kind) PROVE Goal
  BY <1>7 DEF End
<1>8. CASE UNCHANGED vars
  BY <1>1, <1>8 DEF vars
<1> QED BY <1>2, <1>3, <1>4, <1>5, <1>6, <1>7, <1>8 DEF Next

\* No step loses a key ring that memory and storage have but the removal of
\* this one and the sign-out (removeVault() and clearAll() of vault/service.ts),
\* whatever the pages ask for at once and however often the background ends:
\* every snapshot on its way to the storage has it.
THEOREM WalletsAreKept == Spec => KeepsWallets
<1>1. VaultInv /\ KeptInv /\ [Next]_vars =>
        [SignsOut \/ \A v \in mem.vaults \cap disk.vaults :
           v.id \in gone' \/ v \in mem'.vaults \cap disk'.vaults]_vars
  BY KeepsStep
<1>2. Spec => []KeptInv BY KeptHolds
<1> QED BY <1>1, <1>2, VaultInvariant, PTL DEF Spec, KeepsWallets

-----------------------------------------------------------------------------
(* KeyInv: the key in memory is the one that is stored.                     *)

\* Stored(item), of a queue of writes and what they are put behind.
StoredIn(queue, behind, item) ==
    LET earlier == {i \in DOMAIN queue : queue[i].item = item}
    IN IF earlier = {} THEN behind[item]
       ELSE queue[CHOOSE i \in earlier : \A j \in earlier : j <= i].value[item]

LEMMA StoredHere == \A item : Stored(item) = StoredIn(writes, disk, item)
BY DEF Stored, StoredIn

LEMMA StoredNowhere ==
    ASSUME NEW queue, NEW behind, NEW item, \A i \in DOMAIN queue : queue[i].item # item
    PROVE  StoredIn(queue, behind, item) = behind[item]
<1>1. {i \in DOMAIN queue : queue[i].item = item} = {}
  OBVIOUS
<1> QED BY <1>1 DEF StoredIn

\* The last write of an item is at position i.
IsLast(queue, item, i) ==
    /\ i \in DOMAIN queue /\ queue[i].item = item
    /\ \A j \in DOMAIN queue : queue[j].item = item => j <= i

LEMMA StoredLast ==
    ASSUME NEW queue \in Seq(Writes), NEW behind, NEW item, NEW i, IsLast(queue, item, i)
    PROVE  StoredIn(queue, behind, item) = queue[i].value[item]
<1> DEFINE earlier == {k \in DOMAIN queue : queue[k].item = item}
<1> DEFINE last == CHOOSE k \in earlier : \A j \in earlier : j <= k
<1>1. i \in earlier /\ \A j \in earlier : j <= i
  BY DEF IsLast
<1>2. last \in earlier /\ \A j \in earlier : j <= last
  BY <1>1
<1>3. \A j \in earlier : j \in Nat
  BY LenProperties
<1>4. last = i
  <2> HIDE DEF earlier, last
  <2>1. last <= i /\ i <= last /\ last \in Nat /\ i \in Nat
    BY <1>1, <1>2, <1>3
  <2> QED BY <2>1
<1>5. StoredIn(queue, behind, item) = queue[last].value[item]
  BY <1>1 DEF StoredIn
<1> QED BY <1>4, <1>5

LEMMA HasLastWrite ==
    ASSUME NEW queue \in Seq(Writes), NEW item, NEW k \in DOMAIN queue, queue[k].item = item
    PROVE  \E i : IsLast(queue, item, i)
<1> DEFINE earlier == {i \in DOMAIN queue : queue[i].item = item}
<1>1. Len(queue) \in Nat /\ DOMAIN queue = 1..Len(queue)
  BY LenProperties
<1>2. earlier \subseteq 1..Len(queue) /\ earlier # {}
  BY <1>1
<1>3. \E i \in earlier : \A j \in earlier : j <= i
  <2> HIDE DEF earlier
  <2> QED BY <1>1, <1>2, HasLast
<1> QED BY <1>3 DEF IsLast

LEMMA StoredBehind ==
    ASSUME NEW queue \in Seq(Writes), NEW behind, NEW w \in Writes, NEW item
    PROVE  StoredIn(Append(queue, w), behind, item) =
             IF w.item = item THEN w.value[item] ELSE StoredIn(queue, behind, item)
<1> DEFINE longer == Append(queue, w)
<1>1. /\ longer \in Seq(Writes)
      /\ \A i \in DOMAIN queue : i \in DOMAIN longer /\ longer[i] = queue[i]
      /\ \A i \in DOMAIN longer : (i \in DOMAIN queue /\ longer[i] = queue[i])
                                  \/ (i = Len(queue) + 1 /\ longer[i] = w)
      /\ Len(queue) + 1 \in DOMAIN longer /\ longer[Len(queue) + 1] = w
      /\ \A i \in DOMAIN queue : i < Len(queue) + 1 /\ i \in Nat
      /\ Len(queue) \in Nat
  BY Appended, LenProperties
<1> HIDE DEF longer
<1>2. CASE w.item = item
  <2>1. IsLast(longer, item, Len(queue) + 1)
    BY <1>1, <1>2 DEF IsLast
  <2>2. StoredIn(longer, behind, item) = longer[Len(queue) + 1].value[item]
    BY <1>1, <2>1, StoredLast, SMT
  <2> QED BY <1>1, <1>2, <2>2 DEF longer
<1>3. CASE w.item # item /\ \A i \in DOMAIN queue : queue[i].item # item
  <2>1. \A i \in DOMAIN longer : longer[i].item # item
    BY <1>1, <1>3
  <2>2. StoredIn(longer, behind, item) = behind[item]
    BY <2>1, StoredNowhere
  <2>3. StoredIn(queue, behind, item) = behind[item]
    BY <1>3, StoredNowhere
  <2> QED BY <1>3, <2>2, <2>3 DEF longer
<1>4. CASE w.item # item /\ \E i \in DOMAIN queue : queue[i].item = item
  <2>1. PICK i : IsLast(queue, item, i)
    BY <1>4, HasLastWrite
  <2>2. StoredIn(queue, behind, item) = queue[i].value[item]
    BY <2>1, StoredLast, SMT
  <2>3. longer[i] = queue[i] /\ IsLast(longer, item, i)
    BY <1>1, <1>4, <2>1 DEF IsLast
  <2>4. StoredIn(longer, behind, item) = longer[i].value[item]
    BY <1>1, <2>3, StoredLast, SMT
  <2> QED BY <1>4, <2>2, <2>3, <2>4 DEF longer
<1> QED BY <1>2, <1>3, <1>4

\* A write that is served is stored as it was when it waited.
LEMMA StoredServed ==
    ASSUME NEW queue \in Seq(Writes), queue # <<>>, NEW behind, NEW after,
           NEW item \in Items,
           after[item] = IF item = queue[1].item THEN queue[1].value[item] ELSE behind[item]
    PROVE  StoredIn(Tail(queue), after, item) = StoredIn(queue, behind, item)
<1> DEFINE rest == Tail(queue)
<1>1. /\ rest \in Seq(Writes) /\ 1 \in DOMAIN queue
      /\ \A i \in DOMAIN rest : i + 1 \in DOMAIN queue /\ rest[i] = queue[i + 1]
                                /\ i \in Nat /\ i > 0
      /\ \A i \in DOMAIN queue : i = 1 \/ (i - 1 \in DOMAIN rest /\ rest[i - 1] = queue[i])
      /\ \A i \in DOMAIN queue : i \in Nat /\ i > 0
  BY Served
<1> HIDE DEF rest
<1>2. CASE \E i \in DOMAIN rest : rest[i].item = item
  <2>1. PICK i : IsLast(rest, item, i)
    BY <1>1, <1>2, HasLastWrite
  <2>2. StoredIn(rest, after, item) = rest[i].value[item]
    BY <1>1, <2>1, StoredLast, SMT
  <2>3. i + 1 \in DOMAIN queue /\ queue[i + 1] = rest[i] /\ i \in Nat /\ i > 0
    BY <1>1, <2>1 DEF IsLast
  <2>4. ASSUME NEW j \in DOMAIN queue, queue[j].item = item PROVE j <= i + 1
    <3>1. CASE j = 1 BY <2>3, <3>1
    <3>2. CASE j # 1
      <4>1. j - 1 \in DOMAIN rest /\ rest[j - 1] = queue[j] /\ j \in Nat
        BY <1>1, <3>2
      <4>2. j - 1 <= i
        BY <2>1, <2>4, <4>1 DEF IsLast
      <4> QED BY <2>3, <4>1, <4>2
    <3> QED BY <3>1, <3>2
  <2>5. IsLast(queue, item, i + 1)
    BY <2>1, <2>3, <2>4 DEF IsLast
  <2>6. StoredIn(queue, behind, item) = queue[i + 1].value[item]
    BY <2>5, StoredLast, SMT
  <2> QED BY <2>2, <2>3, <2>6 DEF rest
<1>3. CASE \A i \in DOMAIN rest : rest[i].item # item
  <2>1. StoredIn(rest, after, item) = after[item]
    BY <1>3, StoredNowhere
  <2>2. CASE queue[1].item = item
    <3>1. IsLast(queue, item, 1)
      BY <1>1, <1>3, <2>2 DEF IsLast
    <3>2. StoredIn(queue, behind, item) = queue[1].value[item]
      BY <3>1, StoredLast, SMT
    <3> QED BY <2>1, <2>2, <3>2 DEF rest
  <2>3. CASE queue[1].item # item
    <3>1. \A j \in DOMAIN queue : queue[j].item # item
      BY <1>1, <1>3, <2>3
    <3>2. StoredIn(queue, behind, item) = behind[item]
      BY <3>1, StoredNowhere
    <3> QED BY <2>1, <2>3, <3>2 DEF rest
  <2> QED BY <2>2, <2>3
<1> QED BY <1>2, <1>3

LEMMA WriteIs ==
    ASSUME NEW item \in Items, NEW value, NEW c, NEW at
    PROVE  /\ Write(item, value, c, at).item = item
           /\ Write(item, value, c, at).value[item] = value
BY DEF Write, Blank, Items

LEMMA StoredAppended ==
    ASSUME TypeOK, NEW w \in Writes, writes' = Append(writes, w), disk' = disk, NEW item
    PROVE  Stored(item)' = IF w.item = item THEN w.value[item] ELSE Stored(item)
<1>1. Stored(item)' = StoredIn(Append(writes, w), disk, item)
  BY DEF Stored, StoredIn
<1>2. Stored(item) = StoredIn(writes, disk, item)
  BY StoredHere
<1>3. writes \in Seq(Writes)
  BY DEF TypeOK
<1> QED BY <1>1, <1>2, <1>3, StoredBehind, SMT

\* What is stored of the key stays.
SameKey ==
    /\ Stored("cipher")' = Stored("cipher")
    /\ Stored("mac")' = Stored("mac")
    /\ Stored("counter")' = Stored("counter")

\* Call c goes on from where it stands to where it will resume, the others stay.
Goes(c, r, at) ==
    /\ \A d \in Calls : call'[d] = IF d = c THEN r ELSE call[d]
    /\ \A p \in Points \ {"written"} :
         /\ Comes(c, p) <=> p = call[c].at
         /\ Comes(c, p)' <=> p = at
         /\ \A d \in Calls : d # c => (Comes(d, p)' <=> Comes(d, p))

LEMMA Going ==
    ASSUME VaultInv, NEW c \in Calls, NEW r, NEW at \in Points,
           call' = [call EXCEPT ![c] = r], call[c].at # "written",
           \A i \in DOMAIN writes : i \in DOMAIN writes' /\ writes'[i] = writes[i],
           \A i \in DOMAIN requests : i \in DOMAIN requests' /\ requests'[i] = requests[i],
           \A i \in DOMAIN writes' : \/ i \in DOMAIN writes
                                     \/ writes'[i].by = None
                                     \/ writes'[i].by = c /\ writes'[i].at = at,
           \A i \in DOMAIN requests' : \/ i \in DOMAIN requests
                                       \/ requests'[i].by = c /\ requests'[i].at = at,
           \/ r.at = at
           \/ /\ r.at = "written"
              /\ \/ \E i \in DOMAIN writes' : writes'[i].by = c /\ writes'[i].at = at
                 \/ \E i \in DOMAIN requests' : requests'[i].by = c /\ requests'[i].at = at
    PROVE  Goes(c, r, at)
<1>1. \A d \in Calls : call'[d] = IF d = c THEN r ELSE call[d]
  BY DEF VaultInv, TypeOK
<1>2. /\ \A i \in DOMAIN writes : writes[i].by # c
      /\ \A i \in DOMAIN requests : requests[i].by # c
  BY DEF VaultInv, CallsInv, WaitsForOne
<1>3. ASSUME NEW p \in Points \ {"written"}
      PROVE  /\ Comes(c, p) <=> p = call[c].at
             /\ Comes(c, p)' <=> p = at
  <2>1. Comes(c, p) <=> p = call[c].at
    BY <1>2 DEF Comes
  <2>2. p = at => Comes(c, p)'
    BY <1>1, <1>3 DEF Comes
  <2>3. Comes(c, p)' => p = at
    BY <1>1, <1>2, <1>3, Constants DEF Comes
  <2> QED BY <2>1, <2>2, <2>3
<1>4. ASSUME NEW p \in Points \ {"written"}, NEW d \in Calls, d # c
      PROVE  Comes(d, p)' <=> Comes(d, p)
  BY <1>1, <1>4, Constants DEF Comes
<1> QED BY <1>1, <1>3, <1>4 DEF Goes

\* A step of one call that leaves the stored key, and the vaults, as they are.
LEMMA QuietKey ==
    ASSUME KeyInv, NEW c \in Calls, NEW r \in Call, NEW at \in Points, Goes(c, r, at), SameKey,
           mem'.signedUp = mem.signedUp, mem'.vaults = mem.vaults, current' = current,
           ~IsLocked' => /\ mem'.password = Stored("counter")
                         /\ mem'.counter = <<mem'.password, mem'.password>>,
           call[c].at \notin {"storeMac", "storeCounter", "signed", "storeNewMac", "changed",
                              "written"},
           at \notin {"clearing", "written"},
           r.op # "none" => r.op \in May[c],
           Fits(r, at), SignsUp(r, at), HoldsKey(r, at),
           r.op = "create" /\ at \in {"unlocking", "opened"} =>
             OpensNew(c) \/ \A d \in Calls : ~Comes(d, "clearing")
    PROVE  KeyInv'
<1>1. /\ \A d \in Calls : call'[d] = IF d = c THEN r ELSE call[d]
      /\ \A p \in Points \ {"written"} :
           /\ Comes(c, p) <=> p = call[c].at
           /\ Comes(c, p)' <=> p = at
           /\ \A d \in Calls : d # c => (Comes(d, p)' <=> Comes(d, p))
  BY DEF Goes
<1>2. CallsHold'
  <2> SUFFICES ASSUME NEW d \in Calls
               PROVE  (/\ call[d].op # "none" => call[d].op \in May[d]
                       /\ \A p \in Points : Comes(d, p) =>
                            Fits(call[d], p) /\ SignsUp(call[d], p) /\ HoldsKey(call[d], p))'
    BY DEF CallsHold
  <2>1. CASE d = c
    <3>1. call'[d] = r /\ \A p \in Points : p # "written" => (Comes(d, p)' => p = at)
      BY <1>1, <2>1
    <3>2. ASSUME NEW p \in Points, Comes(d, p)', p # "written" PROVE SignsUp(call[d], p)'
      BY <3>1, <3>2 DEF SignsUp, SameKey, Bare, ReadNothing
    <3>3. ASSUME NEW p \in Points, Comes(d, p)', p # "written" PROVE HoldsKey(call[d], p)'
      BY <3>1, <3>3 DEF HoldsKey, SameKey, ReadNothing
    <3>4. ASSUME NEW p \in Points, Comes(d, p)', p # "written" PROVE Fits(call[d], p)'
      BY <3>1, <3>4 DEF Fits
    <3>5. SignsUp(call[d], "written")' /\ HoldsKey(call[d], "written")' /\ Fits(call[d], "written")'
      BY DEF SignsUp, HoldsKey, Fits
    <3> QED BY <2>1, <3>1, <3>2, <3>3, <3>4, <3>5
  <2>2. CASE d # c
    <3>1. call'[d] = call[d] /\ \A p \in Points : p # "written" => (Comes(d, p)' => Comes(d, p))
      BY <1>1, <2>2
    <3>2. ASSUME NEW p \in Points, Comes(d, p)', p # "written" PROVE SignsUp(call[d], p)'
      <4>1. SignsUp(call[d], p)
        BY <3>1, <3>2 DEF KeyInv, CallsHold
      <4> QED BY <3>1, <4>1 DEF SignsUp, SameKey, Bare, ReadNothing
    <3>3. ASSUME NEW p \in Points, Comes(d, p)', p # "written" PROVE HoldsKey(call[d], p)'
      <4>1. HoldsKey(call[d], p)
        BY <3>1, <3>3 DEF KeyInv, CallsHold
      <4> QED BY <3>1, <4>1 DEF HoldsKey, SameKey, ReadNothing
    <3>4. ASSUME NEW p \in Points, Comes(d, p)', p # "written" PROVE Fits(call[d], p)'
      <4>1. Fits(call[d], p)
        BY <3>1, <3>4 DEF KeyInv, CallsHold
      <4> QED BY <3>1, <4>1 DEF Fits
    <3>5. SignsUp(call[d], "written")' /\ HoldsKey(call[d], "written")' /\ Fits(call[d], "written")'
      BY DEF SignsUp, HoldsKey, Fits
    <3>6. call[d].op # "none" => call[d].op \in May[d]
      BY DEF KeyInv, CallsHold
    <3> QED BY <3>1, <3>2, <3>3, <3>4, <3>5, <3>6
  <2> QED BY <2>1, <2>2
<1>3. \A d \in Calls : \A p \in {"unlocking", "opened", "clearing", "storeMac", "storeCounter",
                                 "signed", "storeNewMac", "changed"} :
        /\ d # c => (Comes(d, p)' <=> Comes(d, p))
        /\ Comes(c, p) <=> p = call[c].at
        /\ Comes(c, p)' <=> p = at
  BY <1>1 DEF Points
<1>4. ClearsAlone'
  BY <1>1, <1>3 DEF KeyInv, ClearsAlone, OpensNew
<1>5. OneKey'
  <2>1. \A d \in Calls : SigningUp(d) => SigningUp(d)'
    BY <1>3 DEF SigningUp
  <2> QED BY <2>1 DEF KeyInv, OneKey, SameKey, Bare
<1>6. Settled'
  BY <1>3 DEF KeyInv, Settled, SameKey
<1> QED BY <1>2, <1>4, <1>5, <1>6 DEF KeyInv

LEMMA CallsHoldStep ==
    ASSUME CallsHold, NEW c \in Calls, NEW r, NEW at \in Points, Goes(c, r, at), at # "written",
           r.op # "none" => r.op \in May[c],
           Fits(r, at), SignsUp(call[c], at)', HoldsKey(call[c], at)',
           \A d \in Calls : d # c => \A p \in Points : Comes(d, p) =>
             SignsUp(call[d], p)' /\ HoldsKey(call[d], p)'
    PROVE  CallsHold'
<1> SUFFICES ASSUME NEW d \in Calls
             PROVE  (/\ call[d].op # "none" => call[d].op \in May[d]
                     /\ \A p \in Points : Comes(d, p) =>
                          Fits(call[d], p) /\ SignsUp(call[d], p) /\ HoldsKey(call[d], p))'
  BY DEF CallsHold
<1>1. call'[c] = r /\ \A p \in Points : p # "written" => (Comes(c, p)' => p = at)
  BY DEF Goes
<1>2. SignsUp(call[d], "written")' /\ HoldsKey(call[d], "written")' /\ Fits(call[d], "written")'
  BY DEF SignsUp, HoldsKey, Fits
<1>3. CASE d = c
  <2>1. Fits(call[c], at)'
    BY <1>1 DEF Fits
  <2> QED BY <1>1, <1>2, <1>3, <2>1
<1>4. CASE d # c
  <2>1. call'[d] = call[d] /\ \A p \in Points : p # "written" => (Comes(d, p)' => Comes(d, p))
    BY <1>4 DEF Goes
  <2>2. ASSUME NEW p \in Points, Comes(d, p)', p # "written" PROVE Fits(call[d], p)'
    <3>1. Fits(call[d], p)
      BY <2>1, <2>2 DEF CallsHold
    <3> QED BY <2>1, <3>1 DEF Fits
  <2>3. call'[d].op # "none" => call'[d].op \in May[d]
    BY <2>1 DEF CallsHold
  <2> QED BY <1>2, <1>4, <2>1, <2>2, <2>3
<1> QED BY <1>3, <1>4

\* A call has the operation of the point it stands or resumes at.
LEMMA ComesReady ==
    ASSUME VaultInv, KeyInv, NEW c \in Calls, NEW p \in Points, Comes(c, p)
    PROVE  /\ Ready(call[c], p) /\ Fits(call[c], p)
           /\ SignsUp(call[c], p) /\ HoldsKey(call[c], p)
<1>1. WellFormed(c)
  BY DEF VaultInv, CallsInv
<1>2. Ready(call[c], p)
  BY <1>1 DEF WellFormed, Comes
<1> QED BY <1>2 DEF KeyInv, CallsHold

LEMMA OneCreates ==
    ASSUME OneOfEach, KeyInv, NEW c \in Calls, NEW d \in Calls, c # d,
           call[c].op = "create"
    PROVE  call[d].op # "create"
<1>1. call[c].op \in May[c] /\ (call[d].op = "create" => call[d].op \in May[d])
  BY DEF KeyInv, CallsHold
<1>2. May[c] \cap {"create"} # {} /\ May[d] \cap {"create"} # {} => c = d
  BY DEF OneOfEach
<1> QED BY <1>1, <1>2

LEMMA OnePops ==
    ASSUME OneOfEach, KeyInv, NEW c \in Calls, NEW d \in Calls, c # d,
           call[c].op \in {"unlock", "change", "delete"}
    PROVE  call[d].op \notin {"unlock", "change", "delete"}
<1> DEFINE ops == {"unlock", "change", "delete"}
<1>1. call[c].op \in May[c] /\ (call[d].op \in ops => call[d].op \in May[d])
  BY DEF KeyInv, CallsHold
<1>2. May[c] \cap ops # {} /\ May[d] \cap ops # {} => c = d
  BY Zenon DEF OneOfEach
<1>3. call[d].op \in ops => May[d] \cap ops # {}
  BY <1>1
<1>4. May[c] \cap ops # {}
  BY <1>1
<1> QED BY <1>2, <1>3, <1>4

\* While one call signs up, the others have read no key.
LEMMA OthersSigning ==
    ASSUME VaultInv, KeyInv, OneOfEach, NEW c \in Calls, NEW d \in Calls, d # c,
           call[c].op = "create", ~mem.signedUp, call'[d] = call[d],
           Stored("counter")' = Stored("counter") \/ Stored("counter") = None,
           NEW p \in Points, Comes(d, p)
    PROVE  SignsUp(call[d], p)' /\ HoldsKey(call[d], p)'
<1>1. call[d].op # "create"
  BY OneCreates
<1>2. Ready(call[d], p) /\ HoldsKey(call[d], p)
  BY ComesReady
<1>3. p \notin {"signing", "storeMac", "storeCounter", "signed", "adding",
                "changing", "storeNewMac", "changed", "clearing"}
  BY <1>1, <1>2 DEF Ready, HoldsKey
<1>4. SignsUp(call[d], p)'
  BY <1>3 DEF SignsUp
<1>5. HoldsKey(call[d], p)'
  BY <1>1, <1>2, <1>3 DEF HoldsKey, ReadNothing
<1> QED BY <1>4, <1>5

LEMMA GoesPoints ==
    ASSUME NEW c \in Calls, NEW r, NEW at \in Points, Goes(c, r, at)
    PROVE  /\ \A d \in Calls : call'[d] = IF d = c THEN r ELSE call[d]
           /\ \A d \in Calls :
                \A p \in {"unlocking", "opened", "clearing", "storeMac", "storeCounter",
                          "signed", "storeNewMac", "changed"} :
                  /\ d # c => (Comes(d, p)' <=> Comes(d, p))
                  /\ Comes(c, p) <=> p = call[c].at
                  /\ Comes(c, p)' <=> p = at
BY DEF Goes, Points

\* A step of signUp(): the vault is empty, locked and not signed up.
LEMMA SigningKey ==
    ASSUME VaultInv, KeyInv, OneOfEach, NEW c \in Calls, NEW r,
           NEW at \in {"storeMac", "storeCounter", "signed"}, Goes(c, r, at),
           call[c].op = "create", r.op = "create", ~mem.signedUp, Stored("counter") = None,
           mem' = mem, SignsUp(call[c], at)',
           Stored("counter")' # None =>
             /\ Stored("cipher")' # None /\ Stored("cipher")'[1] = Stored("counter")'
             /\ Stored("mac")' # None /\ Stored("mac")'[1] = Stored("counter")'
    PROVE  KeyInv'
<1>1. at \in Points /\ at # "written"
  BY DEF Points
<1>2. /\ \A d \in Calls : call'[d] = IF d = c THEN r ELSE call[d]
      /\ \A d \in Calls :
           \A p \in {"unlocking", "opened", "clearing", "storeMac", "storeCounter",
                     "signed", "storeNewMac", "changed"} :
             /\ d # c => (Comes(d, p)' <=> Comes(d, p))
             /\ Comes(c, p)' <=> p = at
  BY <1>1, GoesPoints
<1>3. CallsHold'
  <2>1. Fits(r, at)
    BY DEF Fits
  <2>2. HoldsKey(call[c], at)'
    BY DEF HoldsKey
  <2>3. \A d \in Calls : d # c => \A p \in Points : Comes(d, p) =>
          SignsUp(call[d], p)' /\ HoldsKey(call[d], p)'
    BY <1>2, OthersSigning
  <2>4. r.op # "none" => r.op \in May[c]
    BY DEF KeyInv, CallsHold
  <2> QED BY <1>1, <2>1, <2>2, <2>3, <2>4, CallsHoldStep DEF KeyInv
<1>4. ClearsAlone'
  <2>1. \A d \in Calls : ~Comes(d, "clearing")
    BY ComesReady DEF HoldsKey, Points
  <2> QED BY <1>2, <2>1 DEF ClearsAlone
<1>5. OneKey'
  <2>1. SigningUp(c)'
    BY <1>2 DEF SigningUp
  <2>2. IsLocked /\ mem.vaults = {}
    BY DEF KeyInv, OneKey, IsLocked
  <2>3. IsLocked' /\ mem'.vaults = {}
    BY <2>2 DEF IsLocked
  <2> QED BY <2>1, <2>3 DEF OneKey
<1>6. Settled'
  BY DEF Settled
<1> QED BY <1>3, <1>4, <1>5, <1>6 DEF KeyInv

\* A call that only goes on elsewhere.
LEMMA GoneOn ==
    ASSUME NEW q \in Call, NEW at \in Points
    PROVE  LET r == [q EXCEPT !.at = at] IN
             /\ r \in Call /\ r.at = at
             /\ r.op = q.op /\ r.want = q.want /\ r.pw = q.pw /\ r.new = q.new /\ r.id = q.id
             /\ r.key = q.key /\ r.cipher = q.cipher /\ r.mac = q.mac /\ r.counter = q.counter
BY Zenon DEF Call

\* await this.kvStore.set() of a value of the call.
LEMMA AwaitGoes ==
    ASSUME VaultInv, NEW c \in Calls, NEW r, NEW item \in Items, NEW value \in Kind(item),
           NEW at \in Points, AwaitWrite(c, r, item, value, at), call[c].at # "written",
           r \in Call, UNCHANGED <<disk, requests>>
    PROVE  LET next == [r EXCEPT !.at = "written"] IN
             /\ next \in Call /\ Goes(c, next, at)
             /\ next.op = r.op /\ next.want = r.want /\ next.pw = r.pw /\ next.new = r.new
             /\ next.key = r.key /\ next.cipher = r.cipher /\ next.mac = r.mac
             /\ next.counter = r.counter
             /\ Stored("cipher")' = IF item = "cipher" THEN value ELSE Stored("cipher")
             /\ Stored("mac")' = IF item = "mac" THEN value ELSE Stored("mac")
             /\ Stored("counter")' = IF item = "counter" THEN value ELSE Stored("counter")
<1> DEFINE w == Write(item, value, c, at)
<1> DEFINE next == [r EXCEPT !.at = "written"]
<1>1. w \in Writes /\ w.by = c /\ w.at = at /\ w.item = item /\ w.value[item] = value
  BY WriteType, WriteIs
<1>2. /\ next \in Call /\ next.at = "written"
      /\ next.op = r.op /\ next.want = r.want /\ next.pw = r.pw /\ next.new = r.new
      /\ next.key = r.key /\ next.cipher = r.cipher /\ next.mac = r.mac
      /\ next.counter = r.counter
  <2>1. "written" \in Points BY DEF Points
  <2> QED BY <2>1, GoneOn
<1>3. call' = [call EXCEPT ![c] = next] /\ writes' = Append(writes, w)
  BY DEF AwaitWrite, Resume
<1> HIDE DEF w, next
<1>4. /\ \A i \in DOMAIN writes : i \in DOMAIN writes' /\ writes'[i] = writes[i]
      /\ \A i \in DOMAIN writes' : \/ i \in DOMAIN writes
                                   \/ writes'[i].by = c /\ writes'[i].at = at
      /\ \E i \in DOMAIN writes' : writes'[i].by = c /\ writes'[i].at = at
  BY <1>1, <1>3, Appended DEF VaultInv, TypeOK
<1>5. Goes(c, next, at)
  BY <1>2, <1>3, <1>4, Going
<1>6. TypeOK BY DEF VaultInv
<1>7. \A other : Stored(other)' = IF item = other THEN w.value[other] ELSE Stored(other)
  BY <1>1, <1>3, <1>6, StoredAppended
<1>8. /\ Stored("cipher")' = IF item = "cipher" THEN value ELSE Stored("cipher")
      /\ Stored("mac")' = IF item = "mac" THEN value ELSE Stored("mac")
      /\ Stored("counter")' = IF item = "counter" THEN value ELSE Stored("counter")
  BY <1>1, <1>7
<1> QED BY <1>2, <1>5, <1>8 DEF next

\* A step that requests no write and no change of the session.
LEMMA GoesQuietly ==
    ASSUME VaultInv, NEW c \in Calls, NEW r, r.at \in Points, Resume(c, r),
           call[c].at # "written", UNCHANGED <<disk, writes, requests>>
    PROVE  Goes(c, r, r.at) /\ SameKey
<1>1. Goes(c, r, r.at)
  BY Going DEF Resume
<1>2. SameKey
  BY DEF SameKey, Stored
<1> QED BY <1>1, <1>2

\* A call that ends where no write of the key is half done.
LEMMA FinishKey ==
    ASSUME VaultInv, KeyInv, NEW c \in Calls, Finish(c), SameKey, Goes(c, Idle, "idle"),
           mem' = mem, current' = current,
           call[c].at \notin {"storeMac", "storeCounter", "signed", "storeNewMac", "changed",
                              "written"}
    PROVE  KeyInv'
<1>1. /\ Idle \in Call /\ Idle.op = "none" /\ "idle" \in Points
      /\ Fits(Idle, "idle") /\ SignsUp(Idle, "idle") /\ HoldsKey(Idle, "idle")
  BY BlankType DEF Idle, Fits, SignsUp, HoldsKey, Points
<1>2. ~IsLocked' => /\ mem'.password = Stored("counter")
                    /\ mem'.counter = <<mem'.password, mem'.password>>
  BY DEF KeyInv, OneKey, IsLocked
<1> QED BY <1>1, <1>2, QuietKey

LEMMA QuietFinish ==
    ASSUME VaultInv, KeyInv, NEW c \in Calls, Finish(c),
           UNCHANGED <<disk, writes, requests, mem, current>>,
           call[c].at \notin {"storeMac", "storeCounter", "signed", "storeNewMac", "changed",
                              "written"}
    PROVE  KeyInv'
<1>1. Idle.at = "idle" /\ "idle" \in Points
  BY DEF Idle, Points
<1>2. Goes(c, Idle, "idle") /\ SameKey
  BY <1>1, GoesQuietly DEF Finish
<1> QED BY <1>2, FinishKey

LEMMA SignUpKey ==
    ASSUME VaultInv, KeyInv, OneOfEach, NEW c \in Calls, SignUp(c)
    PROVE  KeyInv'
<1> DEFINE q == call[c]
<1>1. /\ q \in Call /\ q.at = "signing" /\ q.want = <<>> /\ "signing" \in Points
      /\ "cipher" \in Items /\ "storeMac" \in Points
  BY CallFacts DEF SignUp, At, Points, Items
<1>2. Ready(q, "signing") /\ SignsUp(q, "signing")
  BY <1>1, ComesReady DEF Comes
<1>3. q.op = "create" /\ ~mem.signedUp /\ Bare /\ ReadNothing(q)
  BY <1>2 DEF Ready, SignsUp
<1>4. CASE Finish(c) /\ UNCHANGED <<writes, drawn>>
  BY <1>1, <1>4, QuietFinish DEF SignUp
<1>5. ASSUME NEW key \in Keys,
             AwaitWrite(c, [q EXCEPT !.key = key], "cipher", <<key, q.pw>>, "storeMac"),
             UNCHANGED <<disk, session, requests, mem, made, gone, current, ends, torn>>
      PROVE  KeyInv'
  <2> DEFINE r == [q EXCEPT !.key = key]
  <2> DEFINE next == [r EXCEPT !.at = "written"]
  <2>1. /\ r \in Call /\ r.op = q.op /\ r.want = q.want /\ r.pw = q.pw /\ r.key = key
        /\ r.cipher = q.cipher /\ r.mac = q.mac /\ r.counter = q.counter
    BY <1>1, Zenon DEF Call
  <2>2. <<key, q.pw>> \in Kind("cipher")
    <3>1. q.pw \in Passwords
      BY <1>1, <1>3, CallFacts DEF Argued, Call
    <3> QED BY <3>1 DEF Kind, Ciphers
  <2>3. AwaitWrite(c, r, "cipher", <<key, q.pw>>, "storeMac") /\ UNCHANGED <<disk, requests>>
    BY <1>5
  <2>4. call[c].at # "written"
    BY <1>1
  <2> HIDE DEF r
  <2>5. /\ next \in Call /\ Goes(c, next, "storeMac")
        /\ next.op = r.op /\ next.want = r.want /\ next.pw = r.pw /\ next.new = r.new
        /\ next.key = r.key /\ next.cipher = r.cipher /\ next.mac = r.mac
        /\ next.counter = r.counter
        /\ Stored("cipher")' = <<key, q.pw>>
        /\ Stored("counter")' = Stored("counter")
    BY <1>1, <2>1, <2>2, <2>3, <2>4, AwaitGoes
  <2> HIDE DEF next, q
  <2>6. call'[c] = next
    BY <2>5 DEF Goes
  <2>7. Stored("counter") = None
    BY <1>3 DEF Bare
  <2>8. SignsUp(call[c], "storeMac")'
    BY <1>1, <1>3, <1>5, <2>1, <2>5, <2>6, <2>7 DEF SignsUp, ReadNothing
  <2> QED BY <1>3, <1>5, <2>1, <2>5, <2>7, <2>8, SigningKey DEF q
<1> QED BY <1>4, <1>5 DEF SignUp

\* What a call that signs up holds at a point after the first write.
LEMMA SigningFacts ==
    ASSUME VaultInv, KeyInv, NEW c \in Calls,
           NEW p \in {"storeMac", "storeCounter", "signed"}, At(c, p)
    PROVE  /\ call[c] \in Call /\ call[c].at = p /\ call[c].want = <<>>
           /\ call[c].op = "create" /\ call[c].key \in Keys /\ call[c].pw \in Passwords
           /\ ~mem.signedUp /\ ReadNothing(call[c]) /\ SignsUp(call[c], p)
<1>1. call[c] \in Call /\ Argued(call[c]) /\ call[c].at = p /\ call[c].want = <<>> /\ p \in Points
  BY CallFacts DEF At, Points
<1>2. Ready(call[c], p) /\ SignsUp(call[c], p)
  BY <1>1, ComesReady DEF Comes
<1>3. call[c].op = "create" /\ call[c].key # None /\ ~mem.signedUp /\ ReadNothing(call[c])
  BY <1>2 DEF Ready, SignsUp
<1>4. call[c].key \in Keys \cup {None} /\ call[c].pw \in Passwords \cup {None}
  BY <1>1, Zenon DEF Call
<1> QED BY <1>1, <1>2, <1>3, <1>4 DEF Argued

LEMMA StoreMacKey ==
    ASSUME VaultInv, KeyInv, OneOfEach, NEW c \in Calls, StoreMac(c)
    PROVE  KeyInv'
<1> DEFINE q == call[c]
<1> DEFINE next == [q EXCEPT !.at = "written"]
<1>1. /\ q \in Call /\ q.at = "storeMac" /\ q.want = <<>> /\ q.op = "create"
      /\ q.key \in Keys /\ q.pw \in Passwords
      /\ ~mem.signedUp /\ ReadNothing(q) /\ SignsUp(q, "storeMac")
  BY SigningFacts DEF StoreMac
<1>2. /\ AwaitWrite(c, q, "mac", <<q.key, q.pw>>, "storeCounter") /\ UNCHANGED <<disk, requests>>
      /\ <<q.key, q.pw>> \in Kind("mac") /\ "mac" \in Items /\ "storeCounter" \in Points
      /\ mem' = mem /\ call[c].at # "written"
  BY <1>1 DEF StoreMac, Kind, Ciphers, Items, Points
<1>3. /\ next \in Call /\ Goes(c, next, "storeCounter")
      /\ next.op = q.op /\ next.want = q.want /\ next.pw = q.pw /\ next.new = q.new
      /\ next.key = q.key /\ next.cipher = q.cipher /\ next.mac = q.mac
      /\ next.counter = q.counter
      /\ Stored("cipher")' = Stored("cipher")
      /\ Stored("mac")' = <<q.key, q.pw>>
      /\ Stored("counter")' = Stored("counter")
  BY <1>1, <1>2, AwaitGoes
<1> HIDE DEF next, q
<1>4. call'[c] = next
  BY <1>3 DEF Goes
<1>5. Stored("cipher") = <<q.key, q.pw>> /\ Stored("counter") = None
  BY <1>1 DEF SignsUp
<1>6. SignsUp(call[c], "storeCounter")'
  BY <1>1, <1>2, <1>3, <1>4, <1>5 DEF SignsUp, ReadNothing
<1> QED BY <1>1, <1>2, <1>3, <1>5, <1>6, SigningKey DEF q

LEMMA StoreCounterKey ==
    ASSUME VaultInv, KeyInv, OneOfEach, NEW c \in Calls, StoreCounter(c)
    PROVE  KeyInv'
<1> DEFINE q == call[c]
<1> DEFINE next == [q EXCEPT !.at = "written"]
<1>1. /\ q \in Call /\ q.at = "storeCounter" /\ q.want = <<>> /\ q.op = "create"
      /\ q.key \in Keys /\ q.pw \in Passwords
      /\ ~mem.signedUp /\ ReadNothing(q) /\ SignsUp(q, "storeCounter")
  BY SigningFacts DEF StoreCounter
<1>2. /\ AwaitWrite(c, q, "counter", q.key, "signed") /\ UNCHANGED <<disk, requests>>
      /\ q.key \in Kind("counter") /\ "counter" \in Items /\ "signed" \in Points
      /\ mem' = mem /\ call[c].at # "written"
  BY <1>1 DEF StoreCounter, Kind, Items, Points
<1>3. /\ next \in Call /\ Goes(c, next, "signed")
      /\ next.op = q.op /\ next.want = q.want /\ next.pw = q.pw /\ next.new = q.new
      /\ next.key = q.key /\ next.cipher = q.cipher /\ next.mac = q.mac
      /\ next.counter = q.counter
      /\ Stored("cipher")' = Stored("cipher")
      /\ Stored("mac")' = Stored("mac")
      /\ Stored("counter")' = q.key
  BY <1>1, <1>2, AwaitGoes
<1> HIDE DEF next, q
<1>4. call'[c] = next
  BY <1>3 DEF Goes
<1>5. /\ Stored("cipher") = <<q.key, q.pw>> /\ Stored("mac") = <<q.key, q.pw>>
      /\ Stored("counter") = None
  BY <1>1 DEF SignsUp
<1>6. SignsUp(call[c], "signed")'
  BY <1>1, <1>2, <1>3, <1>4, <1>5 DEF SignsUp, ReadNothing
<1>7. <<q.key, q.pw>> # None /\ <<q.key, q.pw>>[1] = q.key
  BY <1>1, Constants DEF Ciphers
<1> QED BY <1>1, <1>2, <1>3, <1>5, <1>6, <1>7, SigningKey DEF q

\* The key is stored: signUp() may unlock the vault with it.
LEMMA SignedUpKey ==
    ASSUME VaultInv, KeyInv, OneOfEach, NEW c \in Calls, SignedUp(c)
    PROVE  KeyInv'
<1> DEFINE q == call[c]
<1> DEFINE next == [q EXCEPT !.at = "unlocking", !.want = UnlockReads]
<1>1. /\ q \in Call /\ q.at = "signed" /\ q.want = <<>> /\ q.op = "create"
      /\ q.key \in Keys /\ q.pw \in Passwords
      /\ ~mem.signedUp /\ ReadNothing(q) /\ SignsUp(q, "signed")
  BY SigningFacts DEF SignedUp
<1>2. /\ next.at = "unlocking" /\ next.want = UnlockReads /\ next.op = q.op
      /\ next.cipher = q.cipher /\ next.mac = q.mac /\ next.counter = q.counter
  BY <1>1, Zenon DEF Call
<1>3. /\ mem'.signedUp /\ mem'.vaults = mem.vaults /\ mem'.password = mem.password
      /\ mem'.counter = mem.counter
  BY DEF SignedUp, VaultInv, TypeOK, Memory
<1>4. /\ Stored("cipher") = <<q.key, q.pw>> /\ Stored("mac") = <<q.key, q.pw>>
      /\ Stored("counter") = q.key /\ q.key # None
  BY <1>1, Constants DEF SignsUp
<1>5. mem.vaults = {}
  BY <1>1 DEF KeyInv, OneKey
<1>6. \A d \in Calls : ~Comes(d, "clearing")
  BY <1>1, ComesReady DEF HoldsKey, Points
<1>7. <<q.key, q.pw>> # None /\ <<q.key, q.pw>>[1] = q.key /\ <<q.key, q.pw>>[2] = q.pw
  BY <1>1, Constants DEF Ciphers
<1>8. ASSUME NEW r, NEW at \in {"unlocking", "idle"}, Goes(c, r, at), SameKey,
             \/ r = next /\ at = "unlocking"
             \/ r = Idle /\ at = "idle"
      PROVE  KeyInv'
  <2> HIDE DEF next, q
  <2>1. at \in Points /\ at # "written" /\ call'[c] = r
    BY <1>8 DEF Points, Goes
  <2>2. CallsHold'
    <3>1. r.op # "none" => r.op \in May[c]
      BY <1>1, <1>2, <1>8 DEF KeyInv, CallsHold, q, Idle
    <3>2. Fits(r, at) /\ SignsUp(call[c], at)'
      BY <1>1, <1>2, <1>8 DEF Fits, SignsUp
    <3>3. HoldsKey(call[c], at)'
      BY <1>1, <1>2, <1>3, <1>5, <1>8, <2>1 DEF HoldsKey, ReadNothing
    <3>4. \A d \in Calls : d # c => \A p \in Points : Comes(d, p) =>
            SignsUp(call[d], p)' /\ HoldsKey(call[d], p)'
      <4> SUFFICES ASSUME NEW d \in Calls, d # c, NEW p \in Points, Comes(d, p)
                   PROVE  SignsUp(call[d], p)' /\ HoldsKey(call[d], p)'
        OBVIOUS
      <4>1. call'[d] = call[d]
        BY <1>8 DEF Goes
      <4>2. call[d].op # "create"
        BY <1>1, OneCreates DEF q
      <4>3. Ready(call[d], p) /\ HoldsKey(call[d], p)
        BY ComesReady
      <4>4. p \notin {"signing", "storeMac", "storeCounter", "signed", "adding",
                      "changing", "storeNewMac", "changed", "clearing"}
        BY <1>1, <4>2, <4>3 DEF Ready, HoldsKey
      <4>5. SignsUp(call[d], p)'
        BY <4>4 DEF SignsUp
      <4>6. HoldsKey(call[d], p)'
        BY <1>8, <4>1, <4>2, <4>3, <4>4 DEF HoldsKey, ReadNothing, SameKey
      <4> QED BY <4>5, <4>6
    <3> QED BY <1>8, <2>1, <3>1, <3>2, <3>3, <3>4, CallsHoldStep DEF KeyInv
  <2>3. /\ \A d \in Calls : \A p \in {"unlocking", "opened", "clearing", "storeMac",
                                      "storeCounter", "signed", "storeNewMac", "changed"} :
             /\ d # c => (Comes(d, p)' <=> Comes(d, p))
             /\ Comes(c, p)' <=> p = at
    BY <1>8, <2>1, GoesPoints
  <2>4. ClearsAlone'
    BY <1>6, <1>8, <2>3 DEF ClearsAlone
  <2>5. OneKey'
    BY <1>3, <1>4, <1>5, <1>7, <1>8 DEF KeyInv, OneKey, SameKey, IsLocked
  <2>6. Settled'
    BY <1>4, <1>7, <1>8 DEF Settled, SameKey, SignedUp, q
  <2> QED BY <2>2, <2>4, <2>5, <2>6 DEF KeyInv
<1>9. CASE IsLocked
  <2>1. Resume(c, next) /\ UNCHANGED <<disk, writes, requests>> /\ next.at \in Points
    BY <1>2, <1>9 DEF SignedUp, Points
  <2>2. call[c].at # "written"
    BY <1>1
  <2>3. Goes(c, next, next.at) /\ SameKey
    <3> HIDE DEF next
    <3> QED BY <2>1, <2>2, GoesQuietly
  <2> QED BY <1>2, <1>8, <2>3
<1>10. CASE ~IsLocked
  <2>1. Resume(c, Idle) /\ UNCHANGED <<disk, writes, requests>> /\ Idle.at = "idle"
    BY <1>10 DEF SignedUp, Finish, Idle
  <2>2. call[c].at # "written" /\ "idle" \in Points
    BY <1>1 DEF Points
  <2>3. Goes(c, Idle, "idle") /\ SameKey
    BY <2>1, <2>2, GoesQuietly
  <2> QED BY <1>8, <2>3
<1> QED BY <1>9, <1>10

LEMMA QuietStep ==
    ASSUME VaultInv, KeyInv, NEW c \in Calls, NEW r \in Call, Resume(c, r),
           UNCHANGED <<disk, writes, requests, mem, current>>,
           call[c].at \notin {"storeMac", "storeCounter", "signed", "storeNewMac", "changed",
                              "written"},
           r.at \notin {"clearing", "written"},
           r.op # "none" => r.op \in May[c],
           Fits(r, r.at), SignsUp(r, r.at), HoldsKey(r, r.at),
           r.op = "create" => r.at \notin {"unlocking", "opened"}
    PROVE  KeyInv'
<1>1. r.at \in Points
  BY Zenon DEF Call
<1>2. Goes(c, r, r.at) /\ SameKey
  BY <1>1, GoesQuietly
<1>3. ~IsLocked' => /\ mem'.password = Stored("counter")
                    /\ mem'.counter = <<mem'.password, mem'.password>>
  BY DEF KeyInv, OneKey, IsLocked
<1> QED BY <1>1, <1>2, <1>3, QuietKey

LEMMA AskKey ==
    ASSUME VaultInv, KeyInv, NEW c \in Calls, NEW op, Ask(c, op), NEW r \in Call, Resume(c, r),
           r.op = op, UNCHANGED <<disk, writes, requests, mem, current>>,
           r.at \notin {"clearing", "written"},
           Fits(r, r.at), SignsUp(r, r.at), HoldsKey(r, r.at),
           r.op = "create" => r.at \notin {"unlocking", "opened"}
    PROVE  KeyInv'
<1>1. call[c].at = "idle" /\ r.op \in May[c]
  BY DEF Ask, Idle
<1> QED BY <1>1, QuietStep

LEMMA CreateKey ==
    ASSUME VaultInv, KeyInv, OneOfEach, NEW c \in Calls, NEW pw \in Passwords, NEW id \in Ids,
           Create(c, pw, id)
    PROVE  KeyInv'
<1> DEFINE asked == [Idle EXCEPT !.op = "create", !.pw = pw, !.id = id]
<1> DEFINE adding == [asked EXCEPT !.at = "adding"]
<1> DEFINE signing == [asked EXCEPT !.at = "signing", !.want = <<"cipher", "mac", "counter">>]
<1>1. adding \in Call /\ adding.op = "create" /\ adding.at = "adding"
  BY BlankType DEF Idle, Call, Points
<1>2. /\ signing \in Call /\ signing.op = "create" /\ signing.at = "signing"
      /\ ReadNothing(signing)
  BY BlankType, ReadsType DEF Idle, Call, Points, ReadNothing
<1>3. Ask(c, "create") /\ UNCHANGED <<disk, writes, requests, mem, current>>
  BY DEF Create
<1>4. CASE mem.signedUp
  <2>1. Resume(c, adding)
    BY <1>4 DEF Create
  <2> HIDE DEF adding
  <2>2. Fits(adding, "adding") /\ SignsUp(adding, "adding") /\ HoldsKey(adding, "adding")
    BY DEF Fits, SignsUp, HoldsKey
  <2> QED BY <1>1, <1>3, <2>1, <2>2, AskKey
<1>5. CASE ~mem.signedUp
  <2>1. Resume(c, signing)
    BY <1>5 DEF Create
  <2> HIDE DEF signing
  <2>2. \A d \in Calls : ~SigningUp(d)
    <3> SUFFICES ASSUME NEW d \in Calls, SigningUp(d) PROVE FALSE
      OBVIOUS
    <3>1. PICK p \in {"storeMac", "storeCounter", "signed"} : Comes(d, p)
      BY DEF SigningUp
    <3>2. Ready(call[d], p)
      BY <3>1, ComesReady DEF Points
    <3>3. call[d].op = "create"
      BY <3>2 DEF Ready
    <3>4. "create" \in May[d] /\ "create" \in May[c] /\ call[c].op = "none"
      BY <1>3, <3>3 DEF KeyInv, CallsHold, Ask, Idle
    <3>5. May[c] \cap {"create"} # {} /\ May[d] \cap {"create"} # {} => c = d
      BY DEF OneOfEach
    <3> QED BY <3>3, <3>4, <3>5
  <2>3. Bare
    BY <1>5, <2>2 DEF KeyInv, OneKey
  <2>4. Fits(signing, "signing") /\ SignsUp(signing, "signing") /\ HoldsKey(signing, "signing")
    BY <1>2, <1>5, <2>3 DEF Fits, SignsUp, HoldsKey
  <2> QED BY <1>2, <1>3, <2>1, <2>4, AskKey
<1> QED BY <1>4, <1>5

LEMMA UnlockKey ==
    ASSUME VaultInv, KeyInv, NEW c \in Calls, NEW pw \in Passwords, Unlock(c, pw)
    PROVE  KeyInv'
<1> DEFINE r == [Idle EXCEPT !.op = "unlock", !.at = "unlocking", !.pw = pw, !.want = UnlockReads]
<1>1. /\ r \in Call /\ r.op = "unlock" /\ r.at = "unlocking" /\ r.want = UnlockReads
      /\ ReadNothing(r)
  BY BlankType, ReadsType DEF Idle, Call, Points, ReadNothing
<1>2. Ask(c, "unlock") /\ Resume(c, r) /\ UNCHANGED <<disk, writes, requests, mem, current>>
  BY DEF Unlock
<1> HIDE DEF r
<1>3. Fits(r, "unlocking") /\ SignsUp(r, "unlocking") /\ HoldsKey(r, "unlocking")
  BY <1>1 DEF Fits, SignsUp, HoldsKey, ReadNothing
<1> QED BY <1>1, <1>2, <1>3, AskKey

LEMMA ChangeKey ==
    ASSUME VaultInv, KeyInv, NEW c \in Calls, NEW pw \in Passwords, NEW new \in Passwords,
           Change(c, pw, new)
    PROVE  KeyInv'
<1> DEFINE r == [Idle EXCEPT !.op = "change", !.at = "checking", !.pw = pw, !.new = new,
                             !.want = CryptoState]
<1>1. r \in Call /\ r.op = "change" /\ r.at = "checking"
  BY BlankType, ReadsType DEF Idle, Call, Points
<1>2. Ask(c, "change") /\ Resume(c, r) /\ UNCHANGED <<disk, writes, requests, mem, current>>
  BY DEF Change
<1> HIDE DEF r
<1>3. Fits(r, "checking") /\ SignsUp(r, "checking") /\ HoldsKey(r, "checking")
  BY DEF Fits, SignsUp, HoldsKey
<1> QED BY <1>1, <1>2, <1>3, AskKey

LEMMA DeleteKey ==
    ASSUME VaultInv, KeyInv, NEW c \in Calls, NEW id \in Ids, NEW pw \in Passwords,
           Delete(c, id, pw)
    PROVE  KeyInv'
<1> DEFINE r == [Idle EXCEPT !.op = "delete", !.at = "checking", !.pw = pw, !.id = id,
                             !.want = CryptoState]
<1>1. r \in Call /\ r.op = "delete" /\ r.at = "checking"
  BY BlankType, ReadsType DEF Idle, Call, Points
<1>2. Ask(c, "delete") /\ Resume(c, r) /\ UNCHANGED <<disk, writes, requests, mem, current>>
  BY DEF Delete
<1> HIDE DEF r
<1>3. Fits(r, "checking") /\ SignsUp(r, "checking") /\ HoldsKey(r, "checking")
  BY DEF Fits, SignsUp, HoldsKey
<1> QED BY <1>1, <1>2, <1>3, AskKey

\* The steps that store nothing.
LEMMA OpenedKey ==
    ASSUME VaultInv, KeyInv, NEW c \in Calls, Opened(c)
    PROVE  KeyInv'
<1>1. call[c] \in Call /\ call[c].at = "opened" /\ UNCHANGED <<disk, writes, requests, mem, current>>
  BY CallFacts DEF Opened, At
<1>2. CASE Finish(c)
  BY <1>1, <1>2, QuietFinish
<1>3. CASE call[c].op = "create" /\ Resume(c, [call[c] EXCEPT !.at = "adding"])
  <2> DEFINE r == [call[c] EXCEPT !.at = "adding"]
  <2>1. r \in Call /\ r.at = "adding" /\ r.op = call[c].op
    <3>1. "adding" \in Points BY DEF Points
    <3> QED BY <1>1, <3>1, GoneOn
  <2>2. Resume(c, r)
    BY <1>3
  <2> HIDE DEF r
  <2>3. Fits(r, "adding") /\ SignsUp(r, "adding") /\ HoldsKey(r, "adding")
    BY DEF Fits, SignsUp, HoldsKey
  <2>4. r.op # "none" => r.op \in May[c]
    BY <2>1 DEF KeyInv, CallsHold
  <2> QED BY <1>1, <2>1, <2>2, <2>3, <2>4, QuietStep
<1> QED BY <1>2, <1>3 DEF Opened

\* The key that is encrypted anew is the one in memory, which is stored.
LEMMA EncryptKey ==
    ASSUME VaultInv, KeyInv, NEW c \in Calls, Encrypt(c)
    PROVE  KeyInv'
<1>1. /\ call[c] \in Call /\ call[c].at = "checking" /\ call[c].op = "change"
      /\ UNCHANGED <<disk, writes, requests, mem, current>>
  BY CallFacts DEF Encrypt, At
<1>2. CASE Finish(c)
  BY <1>1, <1>2, QuietFinish
<1>3. CASE Checked(call[c]) /\ Resume(c, [call[c] EXCEPT !.at = "changing", !.key = mem.password])
  <2> DEFINE r == [call[c] EXCEPT !.at = "changing", !.key = mem.password]
  <2>1. mem.password \in Keys \cup {None}
    BY DEF VaultInv, TypeOK, Memory
  <2>2. r \in Call /\ r.at = "changing" /\ r.op = call[c].op /\ r.key = mem.password
    <3>1. "changing" \in Points BY DEF Points
    <3> QED BY <1>1, <2>1, <3>1, Zenon DEF Call
  <2>3. Resume(c, r)
    BY <1>3
  <2> HIDE DEF r
  <2>4. mem.signedUp /\ mem.password = Stored("counter")
    <3>1. call[c].cipher \in Ciphers \cup {None}
      BY <1>1, Zenon DEF Call
    <3>2. mem.signedUp /\ mem.password = call[c].cipher[1] /\ call[c].cipher \in Ciphers
      BY <1>3, <3>1 DEF Checked, Opens
    <3>3. mem.password # None
      BY <3>2, Constants DEF Ciphers
    <3> QED BY <3>2, <3>3 DEF KeyInv, OneKey, IsLocked
  <2>5. Fits(r, "changing") /\ SignsUp(r, "changing") /\ HoldsKey(r, "changing")
    BY <2>2, <2>4 DEF Fits, SignsUp, HoldsKey
  <2>6. r.op # "none" => r.op \in May[c]
    BY <2>2 DEF KeyInv, CallsHold
  <2> QED BY <1>1, <2>2, <2>3, <2>5, <2>6, QuietStep
<1> QED BY <1>2, <1>3 DEF Encrypt

\* A call that waits for the session goes on later.
LEMMA AsksGoes ==
    ASSUME VaultInv, NEW c \in Calls, NEW at \in Points, NEW q \in Requests,
           q.by = c, q.at = at, requests' = Append(requests, q),
           Resume(c, [call[c] EXCEPT !.at = "written"]), call[c].at # "written",
           UNCHANGED <<disk, writes>>
    PROVE  LET next == [call[c] EXCEPT !.at = "written"] IN
             /\ next \in Call /\ Goes(c, next, at) /\ SameKey
             /\ next.op = call[c].op /\ next.want = call[c].want /\ next.key = call[c].key
             /\ next.cipher = call[c].cipher /\ next.counter = call[c].counter
             /\ next.mac = call[c].mac
<1> DEFINE next == [call[c] EXCEPT !.at = "written"]
<1>1. /\ next \in Call /\ next.at = "written"
      /\ next.op = call[c].op /\ next.want = call[c].want /\ next.key = call[c].key
      /\ next.cipher = call[c].cipher /\ next.counter = call[c].counter
      /\ next.mac = call[c].mac
  <2>1. "written" \in Points /\ call[c] \in Call BY CallFacts DEF Points
  <2> QED BY <2>1, GoneOn
<1>2. call' = [call EXCEPT ![c] = next]
  BY DEF Resume
<1> HIDE DEF next
<1>3. /\ \A i \in DOMAIN requests : i \in DOMAIN requests' /\ requests'[i] = requests[i]
      /\ \A i \in DOMAIN requests' : \/ i \in DOMAIN requests
                                     \/ requests'[i].by = c /\ requests'[i].at = at
      /\ \E i \in DOMAIN requests' : requests'[i].by = c /\ requests'[i].at = at
  BY Appended DEF VaultInv, TypeOK
<1>4. Goes(c, next, at)
  BY <1>1, <1>2, <1>3, Going
<1>5. SameKey
  BY DEF SameKey, Stored
<1> QED BY <1>1, <1>4, <1>5 DEF next

\* unlock() brings the stored key into memory.
LEMMA UnlockedKey ==
    ASSUME VaultInv, KeyInv, NEW c \in Calls, Unlocked(c)
    PROVE  KeyInv'
<1> DEFINE q == call[c]
<1> DEFINE next == [q EXCEPT !.at = "written"]
<1> DEFINE key == q.cipher[1]
<1>1. /\ q \in Call /\ q.at = "unlocking" /\ q.want = <<>> /\ "unlocking" \in Points
      /\ "opened" \in Points /\ UNCHANGED <<disk, writes, current>>
  BY CallFacts DEF Unlocked, At, Points
<1>2. HoldsKey(q, "unlocking") /\ Fits(q, "unlocking") /\ Comes(c, "unlocking")
  BY <1>1, ComesReady DEF Comes
<1>3. CASE Finish(c) /\ UNCHANGED <<mem, requests>>
  BY <1>1, <1>3, QuietFinish
<1>4. CASE q.counter # None /\ Opens(q)
  <2>1. /\ q.counter \in Keys \cup {None} /\ q.cipher \in Ciphers \cup {None}
    BY <1>1, Zenon DEF Call
  <2>2. /\ q.counter \in Keys /\ key \in Keys /\ q.cipher # None
        /\ q.counter = Stored("counter") /\ key = q.counter
    BY <1>2, <1>4, <2>1 DEF Opens, HoldsKey, Ciphers
  <2>3. /\ mem' = [mem EXCEPT !.password = key, !.counter = <<q.counter, key>>]
        /\ SetSession(c, key, <<q.counter, key>>, "opened")
        /\ Resume(c, next)
    BY <1>4 DEF Unlocked
  <2>4. /\ mem'.signedUp = mem.signedUp /\ mem'.vaults = mem.vaults
        /\ mem'.password = key /\ mem'.counter = <<q.counter, key>>
    BY <2>3 DEF VaultInv, TypeOK, Memory
  <2>5. PICK ask \in Requests : /\ ask.by = c /\ ask.at = "opened"
                                /\ requests' = Append(requests, ask)
    <3> DEFINE a == [act |-> "set", key |-> key, counter |-> <<q.counter, key>>,
                     by |-> c, at |-> "opened"]
    <3>1. a \in Requests /\ a.by = c /\ a.at = "opened"
      BY <1>1, <2>2 DEF Requests, Counters
    <3>2. requests' = Append(requests, a)
      BY <2>3 DEF SetSession
    <3> QED BY <3>1, <3>2
  <2>6. q.at # "written"
    BY <1>1
  <2>7. /\ next \in Call /\ Goes(c, next, "opened") /\ SameKey /\ next.op = q.op
    BY <1>1, <2>3, <2>5, <2>6, AsksGoes
  <2> HIDE DEF next, q, key
  <2>8. Fits(next, "opened") /\ SignsUp(next, "opened") /\ HoldsKey(next, "opened")
    BY <1>2, <2>7 DEF Fits, SignsUp, HoldsKey
  <2>9. next.op # "none" => next.op \in May[c]
    BY <2>7 DEF KeyInv, CallsHold, q
  <2>10. next.op = "create" => OpensNew(c)
    BY <1>2, <2>7 DEF OpensNew, q
  <2>11. mem'.password = Stored("counter") /\ mem'.counter = <<mem'.password, mem'.password>>
    BY <2>2, <2>4
  <2> QED BY <1>1, <2>4, <2>7, <2>8, <2>9, <2>10, <2>11, QuietKey DEF q
<1> QED BY <1>3, <1>4 DEF Unlocked

LEMMA ClearedKey ==
    ASSUME VaultInv, KeyInv, NEW c \in Calls, Cleared(c)
    PROVE  KeyInv'
<1> DEFINE next == [call[c] EXCEPT !.at = "written"]
<1>1. /\ call[c] \in Call /\ call[c].at = "cleared" /\ "cleared" \in Points /\ "opened" \in Points
      /\ Resume(c, next) /\ DropSession(c, "opened")
      /\ UNCHANGED <<disk, writes, mem, current>>
  BY CallFacts DEF Cleared, At, Points
<1>2. call[c].op = "delete"
  BY <1>1, ComesReady DEF Comes, Fits
<1>3. PICK ask \in Requests : /\ ask.by = c /\ ask.at = "opened"
                              /\ requests' = Append(requests, ask)
  <2> DEFINE a == [act |-> "dropKey", key |-> None, counter |-> None, by |-> c, at |-> "opened"]
  <2>1. a \in Requests /\ a.by = c /\ a.at = "opened"
    BY <1>1 DEF Requests
  <2>2. requests' = Append(requests, a)
    BY <1>1 DEF DropSession
  <2> QED BY <2>1, <2>2
<1>4. call[c].at # "written"
  BY <1>1
<1>5. next \in Call /\ Goes(c, next, "opened") /\ SameKey /\ next.op = call[c].op
  BY <1>1, <1>3, <1>4, AsksGoes
<1> HIDE DEF next
<1>6. Fits(next, "opened") /\ SignsUp(next, "opened") /\ HoldsKey(next, "opened")
  BY <1>2, <1>5 DEF Fits, SignsUp, HoldsKey
<1>7. next.op # "none" => next.op \in May[c]
  BY <1>5 DEF KeyInv, CallsHold
<1>8. ~IsLocked' => /\ mem'.password = Stored("counter")
                    /\ mem'.counter = <<mem'.password, mem'.password>>
  BY <1>1 DEF KeyInv, OneKey, IsLocked
<1> QED BY <1>1, <1>2, <1>5, <1>6, <1>7, <1>8, QuietKey

\* All the fields of a call but the point where it stands.
SameButAt(d) ==
    /\ call'[d].op = call[d].op /\ call'[d].want = call[d].want
    /\ call'[d].pw = call[d].pw /\ call'[d].new = call[d].new /\ call'[d].key = call[d].key
    /\ call'[d].cipher = call[d].cipher /\ call'[d].mac = call[d].mac
    /\ call'[d].counter = call[d].counter

\* A request that is served, and lock().
LEMMA SameStep ==
    ASSUME KeyInv, SameKey, current' = current,
           mem'.signedUp = mem.signedUp, mem'.vaults = mem.vaults,
           IsLocked' \/ (mem'.password = mem.password /\ mem'.counter = mem.counter),
           \A d \in Calls : SameButAt(d),
           \A d \in Calls : \A p \in Points : p # "written" => (Comes(d, p)' <=> Comes(d, p))
    PROVE  KeyInv'
<1>1. CallsHold'
  <2> SUFFICES ASSUME NEW d \in Calls
               PROVE  (/\ call[d].op # "none" => call[d].op \in May[d]
                       /\ \A p \in Points : Comes(d, p) =>
                            Fits(call[d], p) /\ SignsUp(call[d], p) /\ HoldsKey(call[d], p))'
    BY DEF CallsHold
  <2>1. SignsUp(call[d], "written")' /\ HoldsKey(call[d], "written")' /\ Fits(call[d], "written")'
    BY DEF SignsUp, HoldsKey, Fits
  <2>2. ASSUME NEW p \in Points, Comes(d, p)', p # "written"
        PROVE  Fits(call[d], p)' /\ SignsUp(call[d], p)' /\ HoldsKey(call[d], p)'
    <3>1. Fits(call[d], p) /\ SignsUp(call[d], p) /\ HoldsKey(call[d], p)
      BY <2>2 DEF KeyInv, CallsHold
    <3>2. SameButAt(d)
      OBVIOUS
    <3>3. Fits(call[d], p)'
      BY <3>1, <3>2 DEF Fits, SameButAt
    <3>4. SignsUp(call[d], p)'
      BY <3>1, <3>2 DEF SignsUp, SameButAt, SameKey, Bare, ReadNothing
    <3>5. HoldsKey(call[d], p)'
      BY <3>1, <3>2 DEF HoldsKey, SameButAt, SameKey, ReadNothing
    <3> QED BY <3>3, <3>4, <3>5
  <2>3. call'[d].op # "none" => call'[d].op \in May[d]
    BY DEF KeyInv, CallsHold, SameButAt
  <2> QED BY <2>1, <2>2, <2>3
<1>2. \A d \in Calls : \A p \in {"unlocking", "opened", "clearing", "storeMac", "storeCounter",
                                 "signed", "storeNewMac", "changed"} :
        Comes(d, p)' <=> Comes(d, p)
  BY DEF Points
<1>3. ClearsAlone'
  BY <1>2 DEF KeyInv, ClearsAlone, OpensNew, SameButAt
<1>4. OneKey'
  <2>1. \A d \in Calls : SigningUp(d)' <=> SigningUp(d)
    BY <1>2 DEF SigningUp
  <2> QED BY <2>1 DEF KeyInv, OneKey, SameKey, Bare, IsLocked
<1>5. Settled'
  BY <1>2 DEF KeyInv, Settled, SameKey
<1> QED BY <1>1, <1>3, <1>4, <1>5 DEF KeyInv

LEMMA LockKey == ASSUME VaultInv, KeyInv, Lock PROVE KeyInv'
<1>1. UNCHANGED <<disk, writes, call, current>> /\ IsLocked'
      /\ mem'.signedUp = mem.signedUp /\ mem'.vaults = mem.vaults
  BY DEF Lock, IsLocked, VaultInv, TypeOK, Memory
<1>2. SameKey
  BY <1>1 DEF SameKey, Stored
<1>3. \A d \in Calls : \A p \in Points : Comes(d, p)' <=> Comes(d, p)
  <2> DEFINE q == [act |-> "dropKey", key |-> None, counter |-> None, by |-> None, at |-> "idle"]
  <2>1. q \in Requests /\ q.by = None
    BY DEF Requests, Points
  <2>2. requests' = Append(requests, q)
    BY DEF Lock, DropSession
  <2> HIDE DEF q
  <2>3. /\ \A i \in DOMAIN requests : i \in DOMAIN requests' /\ requests'[i] = requests[i]
        /\ \A i \in DOMAIN requests' : \/ i \in DOMAIN requests
                                       \/ requests'[i].by = None
    BY <2>1, <2>2, Appended DEF VaultInv, TypeOK
  <2> QED BY <1>1, <2>3, Constants DEF Comes
<1>4. \A d \in Calls : SameButAt(d)
  BY <1>1 DEF SameButAt
<1> QED BY <1>1, <1>2, <1>3, <1>4, SameStep

\* The reads of unlock(), one after the other.
LEMMA ReadsOfUnlock ==
    /\ Head(UnlockReads) = "counter" /\ Tail(UnlockReads) = CryptoState
    /\ Head(CryptoState) = "cipher" /\ Tail(CryptoState) = <<"mac">>
    /\ Head(<<"mac">>) = "mac" /\ Tail(<<"mac">>) = <<>>
    /\ UnlockReads # CryptoState /\ UnlockReads # <<"mac">> /\ UnlockReads # <<>>
<1>1. Len(UnlockReads) = 3 /\ Len(CryptoState) = 2 /\ Len(<<"mac">>) = 1 /\ Len(<<>>) = 0
  BY DEF UnlockReads, CryptoState
<1>2. UnlockReads # CryptoState /\ UnlockReads # <<"mac">> /\ UnlockReads # <<>>
  BY <1>1
<1>3. Head(UnlockReads) = "counter" /\ Tail(UnlockReads) = CryptoState
  BY DEF UnlockReads, CryptoState
<1>4. Head(CryptoState) = "cipher" /\ Tail(CryptoState) = <<"mac">>
  BY DEF CryptoState
<1>5. Head(<<"mac">>) = "mac" /\ Tail(<<"mac">>) = <<>>
  OBVIOUS
<1> QED BY <1>2, <1>3, <1>4, <1>5

LEMMA ReadKey == ASSUME VaultInv, KeyInv, NEW c \in Calls, Read(c) PROVE KeyInv'
<1> DEFINE q == call[c]
<1> DEFINE item == Head(q.want)
<1> DEFINE r == [q EXCEPT ![item] = Stored(item), !.want = Tail(@)]
<1>1. q \in Call BY CallFacts
<1>2. q.want \in Seq(Items \ {"vaults"}) /\ q.want # <<>>
  BY <1>1, Zenon DEF Call, Read
<1>3. item \in Items \ {"vaults"}
  BY <1>2, Served
<1>4. item = "cipher" \/ item = "mac" \/ item = "counter" BY <1>3 DEF Items
<1>5. call' = [call EXCEPT ![c] = r] /\ UNCHANGED <<disk, writes, requests, mem, current>>
  BY Zenon DEF Read, Resume
<1> HIDE DEF item
<1>6. /\ r.at = q.at /\ r.op = q.op /\ r.key = q.key /\ r.pw = q.pw /\ r.new = q.new
      /\ r.want = Tail(q.want)
      /\ r.cipher = IF item = "cipher" THEN Stored("cipher") ELSE q.cipher
      /\ r.mac = IF item = "mac" THEN Stored("mac") ELSE q.mac
      /\ r.counter = IF item = "counter" THEN Stored("counter") ELSE q.counter
  <2>1. CASE item = "cipher" BY <1>1, <2>1, Zenon DEF Call
  <2>2. CASE item = "mac" BY <1>1, <2>2, Zenon DEF Call
  <2>3. CASE item = "counter" BY <1>1, <2>3, Zenon DEF Call
  <2> QED BY <1>4, <2>1, <2>2, <2>3, Zenon
<1> HIDE DEF r, q
<1>7. \A d \in Calls : call'[d] = IF d = c THEN r ELSE call[d]
  BY <1>5 DEF VaultInv, TypeOK
<1>8. \A d \in Calls : \A p \in Points : Comes(d, p)' <=> Comes(d, p)
  BY <1>5, <1>6, <1>7 DEF Comes, q
<1>9. SameKey
  BY <1>5 DEF SameKey, Stored
<1>10. CallsHold'
  <2> SUFFICES ASSUME NEW d \in Calls
               PROVE  (/\ call[d].op # "none" => call[d].op \in May[d]
                       /\ \A p \in Points : Comes(d, p) =>
                            Fits(call[d], p) /\ SignsUp(call[d], p) /\ HoldsKey(call[d], p))'
    BY DEF CallsHold
  <2>1. call'[d].op = call[d].op
    BY <1>6, <1>7 DEF q
  <2>2. call'[d].op # "none" => call'[d].op \in May[d]
    BY <2>1 DEF KeyInv, CallsHold
  <2>3. ASSUME NEW p \in Points, Comes(d, p)'
        PROVE  Fits(call[d], p)' /\ SignsUp(call[d], p)' /\ HoldsKey(call[d], p)'
    <3>1. Fits(call[d], p) /\ SignsUp(call[d], p) /\ HoldsKey(call[d], p)
      BY <1>8, <2>3 DEF KeyInv, CallsHold
    <3>2. Fits(call[d], p)'
      BY <2>1, <3>1 DEF Fits
    <3>3. CASE d # c
      <4>1. call'[d] = call[d] BY <1>7, <3>3
      <4>2. SignsUp(call[d], p)'
        BY <1>5, <1>9, <3>1, <4>1 DEF SignsUp, SameKey, Bare, ReadNothing
      <4>3. HoldsKey(call[d], p)'
        BY <1>5, <1>9, <3>1, <4>1 DEF HoldsKey, SameKey, ReadNothing
      <4> QED BY <3>2, <4>2, <4>3
    <3>4. CASE d = c
      <4>1. call'[d] = r /\ SignsUp(q, p) /\ HoldsKey(q, p)
        BY <1>7, <3>1, <3>4 DEF q
      <4>2. SignsUp(call[d], p)'
        BY <1>2, <1>4, <1>5, <1>6, <1>9, <4>1 DEF SignsUp, SameKey, Bare, ReadNothing
      <4>3. CASE p # "unlocking"
        <5>1. HoldsKey(call[d], p)'
          BY <1>5, <1>6, <1>9, <4>1, <4>3 DEF HoldsKey, SameKey
        <5> QED BY <3>2, <4>2, <5>1
      <4>4. CASE p = "unlocking"
        <5>1. /\ q.want \in {UnlockReads, CryptoState, <<"mac">>}
              /\ q.want = UnlockReads => ReadNothing(q)
              /\ q.counter # None => /\ q.counter = Stored("counter")
                                     /\ q.cipher # None => q.cipher[1] = q.counter
          BY <1>2, <4>1, <4>4 DEF HoldsKey
        <5>2. Stored("counter") # None => Stored("cipher")[1] = Stored("counter")
          BY DEF KeyInv, OneKey
        <5>3. /\ r.want \in {CryptoState, <<"mac">>, <<>>} /\ r.want # UnlockReads
          BY <1>6, <5>1, ReadsOfUnlock
        <5>4. r.counter # None => /\ r.counter = Stored("counter")
                                  /\ r.cipher # None => r.cipher[1] = r.counter
          <6>1. CASE q.want = UnlockReads
            <7>1. item = "counter" BY <6>1, ReadsOfUnlock DEF item
            <7>2. item # "cipher" BY <7>1
            <7> QED BY <1>6, <5>1, <6>1, <7>1, <7>2 DEF ReadNothing
          <6>2. CASE q.want = CryptoState
            <7>1. item = "cipher" BY <6>2, ReadsOfUnlock DEF item
            <7>2. item # "counter" BY <7>1
            <7> QED BY <1>6, <5>1, <5>2, <7>1, <7>2
          <6>3. CASE q.want = <<"mac">>
            <7>1. item = "mac" BY <6>3, ReadsOfUnlock DEF item
            <7>2. item # "counter" /\ item # "cipher" BY <7>1
            <7> QED BY <1>6, <5>1, <7>1, <7>2
          <6> QED BY <5>1, <6>1, <6>2, <6>3
        <5>5. r.op = "create" => mem.signedUp /\ mem.vaults = {}
          BY <1>6, <4>1, <4>4 DEF HoldsKey
        <5> QED BY <1>5, <1>9, <3>2, <4>1, <4>2, <4>4, <5>3, <5>4, <5>5 DEF HoldsKey, SameKey
      <4> QED BY <3>2, <4>2, <4>3, <4>4
    <3> QED BY <3>3, <3>4
  <2> QED BY <2>2, <2>3
<1>11. \A d \in Calls : \A p \in {"unlocking", "opened", "clearing", "storeMac", "storeCounter",
                                 "signed", "storeNewMac", "changed"} :
         Comes(d, p)' <=> Comes(d, p)
  BY <1>8 DEF Points
<1>12. \A d \in Calls : call'[d].op = call[d].op
  BY <1>6, <1>7 DEF q
<1>13. ClearsAlone'
  BY <1>11, <1>12 DEF KeyInv, ClearsAlone, OpensNew
<1>14. OneKey'
  <2>1. \A d \in Calls : SigningUp(d)' <=> SigningUp(d)
    BY <1>11 DEF SigningUp
  <2> QED BY <1>5, <1>9, <2>1 DEF KeyInv, OneKey, SameKey, Bare, IsLocked
<1>15. Settled'
  BY <1>5, <1>9, <1>11 DEF KeyInv, Settled, SameKey
<1> QED BY <1>10, <1>13, <1>14, <1>15 DEF KeyInv

LEMMA LandWriteKey == ASSUME VaultInv, KeyInv, LandWrite PROVE KeyInv'
<1> DEFINE w == writes[1]
<1>1. /\ w \in Writes /\ 1 \in DOMAIN writes
      /\ \A i \in DOMAIN writes' : /\ i + 1 \in DOMAIN writes /\ writes'[i] = writes[i + 1]
                                   /\ i \in Nat /\ i > 0
      /\ \A i \in DOMAIN writes :
           /\ i \in Nat
           /\ i = 1 \/ (i - 1 \in DOMAIN writes' /\ writes'[i - 1] = writes[i])
      /\ \A item \in Items : disk'[item] = IF item = w.item THEN w.value[item] ELSE disk[item]
      /\ \A d \in Calls :
           /\ w.by # d => call'[d] = call[d]
           /\ w.by = d => call'[d] = [call[d] EXCEPT !.at = w.at]
      /\ UNCHANGED <<session, requests, mem, drawn, made, gone, current, ends, torn>>
  BY Landed, Zenon
<1> HIDE DEF w
<1>2. w.at \in Points
  BY <1>1 DEF Writes
<1>3. \A d \in Calls : SameButAt(d) /\ (w.by = d => call'[d].at = w.at)
  <2> TAKE d \in Calls
  <2>1. call[d] \in Call
    BY DEF VaultInv, TypeOK
  <2>2. CASE w.by = d
    <3>1. call'[d] = [call[d] EXCEPT !.at = w.at]
      BY <1>1, <2>2
    <3> QED BY <1>2, <2>1, <3>1, GoneOn DEF SameButAt
  <2>3. CASE w.by # d
    <3>1. call'[d] = call[d] BY <1>1, <2>3
    <3> QED BY <2>3, <3>1 DEF SameButAt
  <2> QED BY <2>2, <2>3
<1>4. \A item \in Items : Stored(item)' = Stored(item)
  <2> TAKE item \in Items
  <2>1. writes \in Seq(Writes) /\ writes # <<>> /\ writes' = Tail(writes)
    BY DEF LandWrite, VaultInv, TypeOK
  <2>2. disk'[item] = IF item = writes[1].item THEN writes[1].value[item] ELSE disk[item]
    BY <1>1 DEF w
  <2>3. StoredIn(Tail(writes), disk', item) = StoredIn(writes, disk, item)
    BY <2>1, <2>2, StoredServed
  <2>4. Stored(item)' = StoredIn(Tail(writes), disk', item)
    BY <2>1 DEF Stored, StoredIn
  <2> QED BY <2>3, <2>4, StoredHere
<1>5. SameKey
  BY <1>4 DEF SameKey, Items
<1>6. ASSUME NEW d \in Calls, NEW p \in Points, p # "written"
      PROVE  Comes(d, p)' <=> Comes(d, p)
  <2>1. CASE w.by = d
    <3>1. /\ call[d].at = "written"
          /\ \A j \in DOMAIN writes : writes[j].by = d => j = 1
          /\ \A j \in DOMAIN requests : requests[j].by # d
      BY <1>1, <2>1 DEF VaultInv, CallsInv, WaitsForOne, w
    <3>2. Comes(d, p) <=> p = w.at
      BY <1>1, <1>6, <2>1, <3>1 DEF Comes, w
    <3>3. \A j \in DOMAIN writes' : writes'[j].by # d
      BY <1>1, <3>1
    <3>4. Comes(d, p)' <=> p = w.at
      BY <1>1, <1>3, <2>1, <3>1, <3>3 DEF Comes
    <3> QED BY <3>2, <3>4
  <2>2. CASE w.by # d
    <3>1. call'[d] = call[d] /\ requests' = requests
      BY <1>1, <2>2
    <3>2. Comes(d, p)' => Comes(d, p)
      BY <1>1, <3>1 DEF Comes
    <3>3. Comes(d, p) => Comes(d, p)'
      <4>1. ASSUME NEW i \in DOMAIN writes, writes[i].by = d, writes[i].at = p
            PROVE  Comes(d, p)'
        <5>1. i # 1
          BY <2>2, <4>1 DEF w
        <5>2. i - 1 \in DOMAIN writes' /\ writes'[i - 1] = writes[i]
          BY <1>1, <5>1
        <5> QED BY <4>1, <5>2 DEF Comes
      <4> QED BY <3>1, <4>1 DEF Comes
    <3> QED BY <3>2, <3>3
  <2> QED BY <2>1, <2>2
<1>7. mem' = mem /\ current' = current BY <1>1
<1> QED BY <1>3, <1>5, <1>6, <1>7, SameStep

LEMMA LandSessionKey == ASSUME VaultInv, KeyInv, LandSession PROVE KeyInv'
<1> DEFINE q == requests[1]
<1>1. /\ q \in Requests /\ 1 \in DOMAIN requests
      /\ \A i \in DOMAIN requests' :
           \/ i + 1 \in DOMAIN requests /\ requests'[i] = requests[i + 1] /\ i \in Nat /\ i > 0
           \/ q.act = "dropKey" /\ requests'[i].by = q.by /\ requests'[i].at = q.at
      /\ \A i \in DOMAIN requests :
           i = 1 \/ (i - 1 \in DOMAIN requests' /\ requests'[i - 1] = requests[i])
      /\ q.act = "dropKey" =>
           \E i \in DOMAIN requests' : requests'[i].by = q.by /\ requests'[i].at = q.at
      /\ \A d \in Calls :
           /\ q.by # d \/ q.act = "dropKey" => call'[d] = call[d]
           /\ q.by = d /\ q.act # "dropKey" => call'[d] = [call[d] EXCEPT !.at = q.at]
      /\ UNCHANGED <<disk, writes, mem, drawn, made, gone, current, ends, torn>>
  BY SessionLanded, Zenon
<1> HIDE DEF q
<1>2. q.at \in Points
  BY <1>1 DEF Requests
<1>3. \A d \in Calls : SameButAt(d) /\ (q.by = d /\ q.act # "dropKey" => call'[d].at = q.at)
  <2> TAKE d \in Calls
  <2>1. call[d] \in Call
    BY DEF VaultInv, TypeOK
  <2>2. CASE q.by = d /\ q.act # "dropKey"
    <3>1. call'[d] = [call[d] EXCEPT !.at = q.at]
      BY <1>1, <2>2
    <3> QED BY <1>2, <2>1, <3>1, GoneOn DEF SameButAt
  <2>3. CASE ~(q.by = d /\ q.act # "dropKey")
    <3>1. call'[d] = call[d] BY <1>1, <2>3
    <3> QED BY <2>3, <3>1 DEF SameButAt
  <2> QED BY <2>2, <2>3
<1>4. SameKey
  BY <1>1 DEF SameKey, Stored
<1>5. ASSUME NEW d \in Calls, NEW p \in Points, p # "written"
      PROVE  Comes(d, p)' <=> Comes(d, p)
  <2>1. CASE q.by = d /\ q.act # "dropKey"
    <3>1. /\ call[d].at = "written"
          /\ \A j \in DOMAIN requests : requests[j].by = d => j = 1
          /\ \A j \in DOMAIN writes : writes[j].by # d
      BY <1>1, <2>1 DEF VaultInv, CallsInv, WaitsForOne, q
    <3>2. Comes(d, p) <=> p = q.at
      BY <1>1, <1>5, <2>1, <3>1 DEF Comes, q
    <3>3. \A j \in DOMAIN requests' : requests'[j].by # d
      BY <1>1, <2>1, <3>1
    <3>4. Comes(d, p)' <=> p = q.at
      BY <1>1, <1>3, <2>1, <3>1, <3>3 DEF Comes
    <3> QED BY <3>2, <3>4
  <2>2. CASE q.by # d \/ q.act = "dropKey"
    <3>1. call'[d] = call[d] /\ writes' = writes
      BY <1>1, <2>2
    <3>2. Comes(d, p)' => Comes(d, p)
      <4>1. ASSUME NEW i \in DOMAIN requests', requests'[i].by = d, requests'[i].at = p
            PROVE  Comes(d, p)
        <5>1. CASE i + 1 \in DOMAIN requests /\ requests'[i] = requests[i + 1]
          BY <4>1, <5>1 DEF Comes
        <5>2. CASE q.act = "dropKey" /\ requests'[i].by = q.by /\ requests'[i].at = q.at
          BY <1>1, <4>1, <5>2 DEF Comes, q
        <5> QED BY <1>1, <5>1, <5>2
      <4> QED BY <3>1, <4>1 DEF Comes
    <3>3. Comes(d, p) => Comes(d, p)'
      <4>1. ASSUME NEW i \in DOMAIN requests, requests[i].by = d, requests[i].at = p
            PROVE  Comes(d, p)'
        <5>1. CASE i = 1
          <6>1. q.by = d /\ q.at = p BY <4>1, <5>1 DEF q
          <6> QED BY <1>1, <2>2, <6>1 DEF Comes
        <5>2. CASE i # 1
          BY <1>1, <4>1, <5>2 DEF Comes
        <5> QED BY <5>1, <5>2
      <4> QED BY <3>1, <4>1 DEF Comes
    <3> QED BY <3>2, <3>3
  <2> QED BY <2>1, <2>2
<1>6. mem' = mem /\ current' = current BY <1>1
<1> QED BY <1>3, <1>4, <1>5, <1>6, SameStep

\* A snapshot of the vaults is no part of the key.
LEMMA SnapshotKey ==
    ASSUME VaultInv, NEW vaults \in SUBSET Vaults, NEW c \in Calls, NEW r, NEW at \in Points,
           r.at = at, Resume(c, r), call[c].at # "written",
           writes' = Append(writes, StoreVaults(vaults)), UNCHANGED <<disk, requests>>
    PROVE  Goes(c, r, at) /\ SameKey
<1> DEFINE w == StoreVaults(vaults)
<1>1. w \in Writes /\ w.by = None /\ w.item = "vaults"
  <2>1. vaults \in Kind("vaults") /\ "vaults" \in Items /\ "idle" \in Points
        /\ None \in Calls \cup {None}
    BY DEF Kind, Items, Points
  <2> QED BY <2>1, WriteType, WriteIs DEF StoreVaults
<1>2. writes' = Append(writes, w)
  OBVIOUS
<1> HIDE DEF w
<1>3. /\ \A i \in DOMAIN writes : i \in DOMAIN writes' /\ writes'[i] = writes[i]
      /\ \A i \in DOMAIN writes' : i \in DOMAIN writes \/ writes'[i].by = None
  BY <1>1, <1>2, Appended DEF VaultInv, TypeOK
<1>4. Goes(c, r, at)
  BY <1>3, Going DEF Resume
<1>5. TypeOK /\ disk' = disk BY DEF VaultInv
<1>6. \A item : item # "vaults" => Stored(item)' = Stored(item)
  BY <1>1, <1>2, <1>5, StoredAppended
<1>7. SameKey
  BY <1>6 DEF SameKey
<1> QED BY <1>4, <1>7

\* A new key ring is encrypted with the stored key.
LEMMA AddVaultKey ==
    ASSUME VaultInv, KeyInv, OneOfEach, NEW c \in Calls, AddVault(c)
    PROVE  KeyInv'
<1> DEFINE new == [id |-> call[c].id, key |-> mem.password, counter |-> mem.counter]
<1> DEFINE vaults == mem.vaults \cup {new}
<1>1. /\ call[c] \in Call /\ Argued(call[c]) /\ Ready(call[c], "adding") /\ call[c].at = "adding"
      /\ UNCHANGED <<disk, requests, current>> /\ Finish(c)
  BY CallFacts DEF AddVault, At
<1>2. call[c].op = "create" /\ call[c].at # "written"
  BY <1>1 DEF Ready
<1>3. CASE IsLocked
  BY <1>1, <1>3, QuietFinish DEF AddVault
<1>4. CASE ~IsLocked
  <2>1. /\ Stored("counter") = mem.password /\ mem.counter = <<mem.password, mem.password>>
        /\ mem.password # None
    BY <1>4 DEF KeyInv, OneKey, IsLocked
  <2>2. call[c].id \in Ids /\ mem.password \in Keys
    <3>1. call[c].id \in Ids \cup {None}
      BY <1>1, Zenon DEF Call
    <3>2. call[c].id # None
      BY <1>1, <1>2 DEF Argued
    <3>3. mem.password \in Keys \cup {None}
      BY DEF VaultInv, TypeOK, Memory
    <3> QED BY <2>1, <3>1, <3>2, <3>3
  <2>3. vaults \in SUBSET Vaults
    <3>1. new \in Vaults
      BY <2>1, <2>2 DEF Vaults, Counters
    <3> QED BY <3>1 DEF VaultInv, TypeOK, Memory
  <2>4. writes' = Append(writes, StoreVaults(vaults)) /\ mem' = [mem EXCEPT !.vaults = vaults]
    BY <1>4 DEF AddVault
  <2>5. /\ mem'.vaults = vaults /\ mem'.signedUp = mem.signedUp /\ mem'.password = mem.password
        /\ mem'.counter = mem.counter
    BY <2>4 DEF VaultInv, TypeOK, Memory
  <2>6. new.key = mem.password /\ new.counter = mem.counter
    OBVIOUS
  <2>7. \A v \in vaults : v \in mem.vaults \/ v = new
    OBVIOUS
  <2>8. Goes(c, Idle, "idle") /\ SameKey
    <3>1. Idle.at = "idle" /\ "idle" \in Points
      BY DEF Idle, Points
    <3> HIDE DEF vaults
    <3> QED BY <1>1, <1>2, <2>3, <2>4, <3>1, SnapshotKey DEF Finish
  <2> HIDE DEF vaults, new
  <2>9. \A d \in Calls : ~SigningUp(d)
    <3> SUFFICES ASSUME NEW d \in Calls, SigningUp(d) PROVE FALSE
      OBVIOUS
    <3>1. PICK p \in {"storeMac", "storeCounter", "signed"} : Comes(d, p)
      BY DEF SigningUp
    <3>2. p \in Points
      BY DEF Points
    <3>3. Ready(call[d], p)
      BY <3>1, <3>2, ComesReady
    <3>4. d = c
      BY <1>2, <3>3, OneCreates DEF Ready
    <3>5. Comes(c, p) <=> p = call[c].at
      BY <2>8, <3>2 DEF Goes
    <3> QED BY <1>1, <3>1, <3>4, <3>5
  <2>10. mem.signedUp
    BY <2>1, <2>9 DEF KeyInv, OneKey, Bare
  <2>11. CallsHold'
    <3>1. /\ Idle.op = "none" /\ "idle" \in Points /\ Fits(Idle, "idle")
          /\ SignsUp(call[c], "idle")' /\ HoldsKey(call[c], "idle")'
      BY DEF Idle, Points, Fits, SignsUp, HoldsKey
    <3>2. ASSUME NEW d \in Calls, d # c, NEW p \in Points, Comes(d, p)
          PROVE  SignsUp(call[d], p)' /\ HoldsKey(call[d], p)'
      <4>1. call'[d] = call[d] /\ SignsUp(call[d], p) /\ HoldsKey(call[d], p)
        BY <2>8, <3>2, ComesReady DEF Goes
      <4>2. call[d].op # "create"
        BY <1>2, <3>2, OneCreates
      <4>3. SignsUp(call[d], p)'
        BY <2>5, <2>8, <4>1 DEF SignsUp, SameKey, Bare, ReadNothing
      <4>4. HoldsKey(call[d], p)'
        BY <2>5, <2>8, <4>1, <4>2 DEF HoldsKey, SameKey, ReadNothing
      <4> QED BY <4>3, <4>4
    <3> QED BY <2>8, <3>1, <3>2, CallsHoldStep DEF KeyInv
  <2>12. /\ \A d \in Calls : call'[d] = IF d = c THEN Idle ELSE call[d]
         /\ \A d \in Calls : \A p \in {"unlocking", "opened", "clearing", "storeMac",
                                       "storeCounter", "signed", "storeNewMac", "changed"} :
              /\ d # c => (Comes(d, p)' <=> Comes(d, p))
              /\ Comes(c, p) <=> p = call[c].at
              /\ Comes(c, p)' <=> p = "idle"
    <3>1. "idle" \in Points BY DEF Points
    <3> QED BY <2>8, <3>1, GoesPoints
  <2>13. ClearsAlone'
    BY <2>12 DEF KeyInv, ClearsAlone, OpensNew
  <2>14. OneKey'
    BY <2>1, <2>5, <2>6, <2>7, <2>8, <2>10 DEF KeyInv, OneKey, SameKey, IsLocked
  <2>15. Settled'
    BY <1>1, <2>5, <2>8, <2>12 DEF KeyInv, Settled, SameKey
  <2> QED BY <2>11, <2>13, <2>14, <2>15 DEF KeyInv
<1> QED BY <1>3, <1>4

\* While the popup changes the password, or removes a key ring, no other call
\* needs more of what is stored than the key.
LEMMA OthersAside ==
    ASSUME VaultInv, KeyInv, OneOfEach, NEW c \in Calls, call[c].op \in {"change", "delete"},
           mem.signedUp, NEW d \in Calls, d # c, NEW p \in Points, Comes(d, p),
           call'[d] = call[d],
           call[d].op = "create" /\ p = "unlocking" =>
             Stored("counter")' = Stored("counter"),
           call[d].op = "create" /\ p \in {"unlocking", "opened"} =>
             mem'.signedUp /\ mem'.vaults = {}
    PROVE  /\ SignsUp(call[d], p)' /\ HoldsKey(call[d], p)'
           /\ p \notin {"storeMac", "storeCounter", "signed", "storeNewMac", "changed", "clearing"}
<1>1. /\ Ready(call[d], p) /\ Fits(call[d], p) /\ SignsUp(call[d], p) /\ HoldsKey(call[d], p)
  BY ComesReady
<1>2. call[d].op \notin {"unlock", "change", "delete"}
  BY OnePops
<1>3. p \notin {"signing", "storeMac", "storeCounter", "signed",
                "changing", "storeNewMac", "changed", "clearing"}
  BY <1>1, <1>2 DEF Ready, Fits, SignsUp
<1>4. p = "unlocking" => call[d].op = "create"
  BY <1>1, <1>2 DEF Fits
<1>5. SignsUp(call[d], p)'
  BY <1>3 DEF SignsUp
<1>6. HoldsKey(call[d], p)'
  BY <1>1, <1>3, <1>4 DEF HoldsKey, ReadNothing
<1> QED BY <1>3, <1>5, <1>6

\* What the call of changeUserPassword() holds.
LEMMA ChangingFacts ==
    ASSUME VaultInv, KeyInv, NEW c \in Calls,
           NEW p \in {"changing", "storeNewMac", "changed"}, At(c, p)
    PROVE  /\ call[c] \in Call /\ call[c].at = p /\ call[c].op = "change"
           /\ call[c].key \in Keys /\ call[c].new \in Passwords
           /\ mem.signedUp /\ call[c].key = Stored("counter") /\ HoldsKey(call[c], p)
<1>1. call[c] \in Call /\ Argued(call[c]) /\ call[c].at = p /\ p \in Points
  BY CallFacts DEF At, Points
<1>2. Ready(call[c], p) /\ HoldsKey(call[c], p)
  BY <1>1, ComesReady DEF Comes
<1>3. call[c].op = "change" /\ call[c].key # None /\ mem.signedUp
      /\ call[c].key = Stored("counter")
  BY <1>2 DEF Ready, HoldsKey
<1>4. call[c].key \in Keys \cup {None} /\ call[c].new \in Passwords \cup {None}
  BY <1>1, Zenon DEF Call
<1> QED BY <1>1, <1>2, <1>3, <1>4 DEF Argued

\* The cipher and the MAC are replaced one after the other; the key is the same.
LEMMA ReplacingKey ==
    ASSUME VaultInv, KeyInv, OneOfEach, NEW c \in Calls, NEW r,
           NEW at \in {"storeNewMac", "changed"}, Goes(c, r, at),
           call[c].op = "change", r.op = "change", mem.signedUp, mem' = mem,
           HoldsKey(call[c], at)',
           Stored("counter")' = Stored("counter"),
           /\ Stored("cipher")' # None /\ Stored("cipher")'[1] = Stored("counter")
           /\ Stored("mac")' # None /\ Stored("mac")'[1] = Stored("counter")
    PROVE  KeyInv'
<1>1. at \in Points /\ at # "written"
  BY DEF Points
<1>2. /\ \A d \in Calls : call'[d] = IF d = c THEN r ELSE call[d]
      /\ \A d \in Calls :
           \A p \in {"unlocking", "opened", "clearing", "storeMac", "storeCounter",
                     "signed", "storeNewMac", "changed"} :
             /\ d # c => (Comes(d, p)' <=> Comes(d, p))
             /\ Comes(c, p)' <=> p = at
  BY <1>1, GoesPoints
<1>3. CallsHold'
  <2>1. Fits(r, at)
    BY DEF Fits
  <2>2. SignsUp(call[c], at)'
    BY DEF SignsUp
  <2>3. ASSUME NEW d \in Calls, d # c, NEW p \in Points, Comes(d, p)
        PROVE  SignsUp(call[d], p)' /\ HoldsKey(call[d], p)'
    <3>1. call[d].op = "create" /\ p \in {"unlocking", "opened"} =>
            mem'.signedUp /\ mem'.vaults = {}
      BY <2>3, ComesReady DEF HoldsKey
    <3> QED BY <1>2, <2>3, <3>1, OthersAside
  <2>4. r.op # "none" => r.op \in May[c]
    BY DEF KeyInv, CallsHold
  <2> QED BY <1>1, <2>1, <2>2, <2>3, <2>4, CallsHoldStep DEF KeyInv
<1>4. ClearsAlone'
  <2>1. call'[c].op = "change"
    BY <1>2
  <2> QED BY <1>2, <2>1 DEF KeyInv, ClearsAlone, OpensNew
<1>5. OneKey'
  BY DEF KeyInv, OneKey, IsLocked
<1>6. Settled'
  <2>1. Comes(c, "storeNewMac")' \/ Comes(c, "changed")'
    BY <1>2
  <2> QED BY <2>1 DEF Settled
<1> QED BY <1>3, <1>4, <1>5, <1>6 DEF KeyInv

LEMMA StoreNewCipherKey ==
    ASSUME VaultInv, KeyInv, OneOfEach, NEW c \in Calls, StoreNewCipher(c)
    PROVE  KeyInv'
<1> DEFINE q == call[c]
<1> DEFINE next == [q EXCEPT !.at = "written"]
<1>1. /\ q \in Call /\ q.at = "changing" /\ q.op = "change" /\ q.key \in Keys
      /\ q.new \in Passwords /\ mem.signedUp /\ q.key = Stored("counter")
  BY ChangingFacts DEF StoreNewCipher
<1>2. /\ AwaitWrite(c, q, "cipher", <<q.key, q.new>>, "storeNewMac")
      /\ UNCHANGED <<disk, requests>>
      /\ <<q.key, q.new>> \in Kind("cipher") /\ "cipher" \in Items /\ "storeNewMac" \in Points
      /\ mem' = mem /\ call[c].at # "written"
  BY <1>1 DEF StoreNewCipher, Kind, Ciphers, Items, Points
<1>3. /\ next \in Call /\ Goes(c, next, "storeNewMac")
      /\ next.op = q.op /\ next.new = q.new /\ next.key = q.key
      /\ Stored("cipher")' = <<q.key, q.new>>
      /\ Stored("mac")' = Stored("mac")
      /\ Stored("counter")' = Stored("counter")
  BY <1>1, <1>2, AwaitGoes
<1> HIDE DEF next, q
<1>4. call'[c] = next
  BY <1>3 DEF Goes
<1>5. HoldsKey(call[c], "storeNewMac")'
  BY <1>1, <1>2, <1>3, <1>4 DEF HoldsKey
<1>6. <<q.key, q.new>> # None /\ <<q.key, q.new>>[1] = q.key
  BY <1>1, Constants DEF Ciphers
<1>7. q.key # None /\ Stored("mac") # None /\ Stored("mac")[1] = Stored("counter")
  BY <1>1, Constants DEF KeyInv, OneKey
<1> QED BY <1>1, <1>2, <1>3, <1>5, <1>6, <1>7, ReplacingKey DEF q

LEMMA StoreNewMacKey ==
    ASSUME VaultInv, KeyInv, OneOfEach, NEW c \in Calls, StoreNewMac(c)
    PROVE  KeyInv'
<1> DEFINE q == call[c]
<1> DEFINE next == [q EXCEPT !.at = "written"]
<1>1. /\ q \in Call /\ q.at = "storeNewMac" /\ q.op = "change" /\ q.key \in Keys
      /\ q.new \in Passwords /\ mem.signedUp /\ q.key = Stored("counter")
      /\ HoldsKey(q, "storeNewMac")
  BY ChangingFacts DEF StoreNewMac
<1>2. /\ AwaitWrite(c, q, "mac", <<q.key, q.new>>, "changed")
      /\ UNCHANGED <<disk, requests>>
      /\ <<q.key, q.new>> \in Kind("mac") /\ "mac" \in Items /\ "changed" \in Points
      /\ mem' = mem /\ call[c].at # "written"
  BY <1>1 DEF StoreNewMac, Kind, Ciphers, Items, Points
<1>3. /\ next \in Call /\ Goes(c, next, "changed")
      /\ next.op = q.op /\ next.new = q.new /\ next.key = q.key
      /\ Stored("cipher")' = Stored("cipher")
      /\ Stored("mac")' = <<q.key, q.new>>
      /\ Stored("counter")' = Stored("counter")
  BY <1>1, <1>2, AwaitGoes
<1> HIDE DEF next, q
<1>4. call'[c] = next
  BY <1>3 DEF Goes
<1>5. Stored("cipher") = <<q.key, q.new>>
  BY <1>1 DEF HoldsKey
<1>6. HoldsKey(call[c], "changed")'
  BY <1>1, <1>2, <1>3, <1>4, <1>5 DEF HoldsKey
<1>7. <<q.key, q.new>> # None /\ <<q.key, q.new>>[1] = q.key
  BY <1>1, Constants DEF Ciphers
<1> QED BY <1>1, <1>2, <1>3, <1>5, <1>6, <1>7, ReplacingKey DEF q

\* The user is told of the new password: cipher and MAC are those of it.
LEMMA ChangedKey ==
    ASSUME VaultInv, KeyInv, OneOfEach, NEW c \in Calls, Changed(c)
    PROVE  KeyInv'
<1> DEFINE q == call[c]
<1>1. /\ q \in Call /\ q.at = "changed" /\ q.op = "change" /\ q.key \in Keys
      /\ q.new \in Passwords /\ mem.signedUp /\ q.key = Stored("counter")
      /\ HoldsKey(q, "changed")
  BY ChangingFacts DEF Changed
<1>2. /\ Resume(c, Idle) /\ UNCHANGED <<disk, writes, requests>> /\ mem' = mem
      /\ current' = q.new /\ q.at # "written"
  BY <1>1 DEF Changed, Finish
<1>3. Idle.at = "idle" /\ Idle.op = "none" /\ "idle" \in Points
  BY DEF Idle, Points
<1>4. Goes(c, Idle, "idle") /\ SameKey
  BY <1>2, <1>3, GoesQuietly
<1> HIDE DEF q
<1>5. /\ \A d \in Calls : call'[d] = IF d = c THEN Idle ELSE call[d]
      /\ \A d \in Calls :
           \A p \in {"unlocking", "opened", "clearing", "storeMac", "storeCounter",
                     "signed", "storeNewMac", "changed"} :
             /\ d # c => (Comes(d, p)' <=> Comes(d, p))
             /\ Comes(c, p) <=> p = call[c].at
             /\ Comes(c, p)' <=> p = "idle"
  BY <1>3, <1>4, GoesPoints
<1>6. CallsHold'
  <2>1. Fits(Idle, "idle") /\ SignsUp(call[c], "idle")' /\ HoldsKey(call[c], "idle")'
    BY DEF Fits, SignsUp, HoldsKey
  <2>2. ASSUME NEW d \in Calls, d # c, NEW p \in Points, Comes(d, p)
        PROVE  SignsUp(call[d], p)' /\ HoldsKey(call[d], p)'
    <3>1. call[d].op = "create" /\ p \in {"unlocking", "opened"} =>
            mem'.signedUp /\ mem'.vaults = {}
      BY <1>2, <2>2, ComesReady DEF HoldsKey
    <3>2. call'[d] = call[d] /\ Stored("counter")' = Stored("counter")
      BY <1>4, <1>5, <2>2 DEF SameKey
    <3> QED BY <1>1, <2>2, <3>1, <3>2, OthersAside DEF q
  <2> QED BY <1>3, <1>4, <2>1, <2>2, CallsHoldStep DEF KeyInv
<1>7. ClearsAlone'
  BY <1>3, <1>5 DEF KeyInv, ClearsAlone, OpensNew
<1>8. OneKey'
  <2>1. \A d \in Calls : SigningUp(d) => SigningUp(d)'
    BY <1>1, <1>5 DEF SigningUp, q
  <2> QED BY <1>2, <1>4, <2>1 DEF KeyInv, OneKey, SameKey, Bare, IsLocked
<1>9. Settled'
  <2>1. Stored("mac") = Stored("cipher") /\ Stored("cipher") = <<q.key, q.new>>
    BY <1>1 DEF HoldsKey
  <2> QED BY <1>2, <1>4, <2>1 DEF Settled, SameKey
<1> QED BY <1>6, <1>7, <1>8, <1>9 DEF KeyInv

\* removeVault(): while there is a key ring to remove no new vault is opened.
LEMMA RemoveVaultKey ==
    ASSUME VaultInv, KeyInv, OneOfEach, NEW c \in Calls, RemoveVault(c)
    PROVE  KeyInv'
<1> DEFINE q == call[c]
<1> DEFINE rest == {v \in mem.vaults : v.id # q.id}
<1> DEFINE next == [q EXCEPT !.at = "clearing", !.want = CryptoState]
<1>1. /\ q \in Call /\ q.at = "checking" /\ q.op = "delete"
      /\ UNCHANGED <<disk, requests, current>>
  BY CallFacts DEF RemoveVault, At
<1>2. CASE Finish(c) /\ UNCHANGED <<mem, writes, gone>>
  BY <1>1, <1>2, QuietFinish
<1>3. CASE Checked(q) /\ rest # mem.vaults
  <2>1. /\ next.at = "clearing" /\ next.op = "delete"
        /\ Idle.at = "idle" /\ Idle.op = "none"
        /\ "idle" \in Points /\ "clearing" \in Points
    <3>1. next.at = "clearing" /\ next.op = q.op
      BY <1>1, Zenon DEF Call
    <3> QED BY <1>1, <3>1 DEF Idle, Points
  <2>2. PICK r, at : /\ Resume(c, r) /\ r.at = at /\ at \in Points
                     /\ at \in {"idle", "clearing"}
                     /\ r.op # "create" /\ r.op \in {"none", q.op}
                     /\ at = "clearing" => r.op = "delete"
    <3>1. \/ Resume(c, next) \/ Resume(c, Idle)
      BY <1>3 DEF RemoveVault, Finish
    <3> HIDE DEF next
    <3> QED BY <1>1, <2>1, <3>1
  <2>3. rest \in SUBSET Vaults
    BY DEF VaultInv, TypeOK, Memory
  <2>4. /\ writes' = Append(writes, StoreVaults(rest)) /\ mem' = [mem EXCEPT !.vaults = rest]
    BY <1>3 DEF RemoveVault
  <2>5. /\ mem'.vaults = rest /\ mem'.signedUp = mem.signedUp /\ mem'.password = mem.password
        /\ mem'.counter = mem.counter
    BY <2>4 DEF VaultInv, TypeOK, Memory
  <2>6. rest \subseteq mem.vaults
    OBVIOUS
  <2>7. mem.vaults # {} /\ mem.signedUp
    <3>1. rest # mem.vaults /\ mem.signedUp
      BY <1>3 DEF Checked
    <3> QED BY <2>6, <3>1
  <2>8. Goes(c, r, at) /\ SameKey
    <3>1. call[c].at # "written" BY <1>1
    <3> HIDE DEF rest
    <3> QED BY <1>1, <2>2, <2>3, <2>4, <3>1, SnapshotKey
  <2> HIDE DEF rest, q
  <2>9. /\ \A d \in Calls : call'[d] = IF d = c THEN r ELSE call[d]
        /\ \A d \in Calls :
             \A p \in {"unlocking", "opened", "clearing", "storeMac", "storeCounter",
                       "signed", "storeNewMac", "changed"} :
               /\ d # c => (Comes(d, p)' <=> Comes(d, p))
               /\ Comes(c, p) <=> p = call[c].at
               /\ Comes(c, p)' <=> p = at
    BY <2>2, <2>8, GoesPoints
  <2>10. \A d \in Calls : ~OpensNew(d)
    BY <2>7, ComesReady DEF OpensNew, HoldsKey, Points
  <2>11. CallsHold'
    <3>1. Fits(r, at) /\ SignsUp(call[c], at)'
      BY <2>2 DEF Fits, SignsUp
    <3>2. HoldsKey(call[c], at)'
      BY <2>2, <2>5, <2>7 DEF HoldsKey
    <3>3. ASSUME NEW d \in Calls, d # c, NEW p \in Points, Comes(d, p)
          PROVE  SignsUp(call[d], p)' /\ HoldsKey(call[d], p)'
      <4>1. ~(call[d].op = "create" /\ p \in {"unlocking", "opened"})
        BY <2>10, <3>3 DEF OpensNew
      <4>2. call'[d] = call[d]
        BY <2>9, <3>3
      <4> QED BY <1>1, <2>7, <3>3, <4>1, <4>2, OthersAside DEF q
    <3>4. r.op # "none" => r.op \in May[c]
      BY <2>2 DEF KeyInv, CallsHold, q
    <3>5. at # "written"
      BY <2>2
    <3> QED BY <2>2, <2>8, <3>1, <3>2, <3>3, <3>4, <3>5, CallsHoldStep DEF KeyInv
  <2>12. ClearsAlone'
    <3>1. \A d \in Calls : ~OpensNew(d)'
      BY <2>2, <2>9, <2>10 DEF OpensNew
    <3> QED BY <3>1 DEF ClearsAlone
  <2>13. OneKey'
    BY <2>5, <2>6, <2>7, <2>8 DEF KeyInv, OneKey, SameKey, IsLocked
  <2>14. Settled'
    BY <1>1, <2>2, <2>5, <2>8, <2>9 DEF KeyInv, Settled, SameKey, q
  <2> QED BY <2>11, <2>12, <2>13, <2>14 DEF KeyInv
<1> QED BY <1>2, <1>3 DEF RemoveVault

\* clearAll(): nothing of the key is left, in memory or in the storage.
LEMMA ClearAllKey ==
    ASSUME VaultInv, KeyInv, OneOfEach, NEW c \in Calls, ClearAll(c)
    PROVE  KeyInv'
<1> DEFINE q == call[c]
<1> DEFINE next == [q EXCEPT !.at = "written"]
<1>1. /\ q \in Call /\ q.at = "clearing" /\ "clearing" \in Points /\ "cleared" \in Points
      /\ "written" \in Points /\ UNCHANGED <<disk, requests, current>>
  BY CallFacts DEF ClearAll, At, Points
<1>2. CASE Finish(c) /\ UNCHANGED <<mem, writes>>
  BY <1>1, <1>2, QuietFinish
<1>3. CASE Checked(q)
  <2>1. /\ mem' = Empty /\ writes' = writes \o Clearing(c) /\ call' = [call EXCEPT ![c] = next]
    BY <1>3 DEF ClearAll, Resume, Clearing
  <2>2. next.at = "written" /\ next.op = q.op
    BY <1>1, GoneOn
  <2> HIDE DEF next
  <2>3. /\ \A i \in DOMAIN writes : /\ i \in DOMAIN writes' /\ writes'[i] = writes[i]
                                    /\ i \in Nat /\ i <= Len(writes)
        /\ Len(writes) \in Nat
        /\ \A k \in 1..4 : /\ Len(writes) + k \in DOMAIN writes'
                           /\ writes'[Len(writes) + k] = Clearing(c)[k]
        /\ \A i \in DOMAIN writes' : \/ i \in DOMAIN writes
                                     \/ \E k \in 1..4 : i = Len(writes) + k
    BY <2>1, ClearingQueued DEF VaultInv
  <2>4. /\ Clearing(c)[1].item = "vaults" /\ Clearing(c)[1].by = None
        /\ Clearing(c)[2].item = "cipher" /\ Clearing(c)[2].by = None
        /\ Clearing(c)[3].item = "mac" /\ Clearing(c)[3].by = None
        /\ Clearing(c)[4].item = "counter" /\ Clearing(c)[4].by = c
        /\ Clearing(c)[4].at = "cleared"
        /\ Clearing(c)[2].value["cipher"] = None /\ Clearing(c)[3].value["mac"] = None
        /\ Clearing(c)[4].value["counter"] = None
    BY WriteIs DEF Clearing, StoreVaults, Write, Blank
  <2>5. Goes(c, next, "cleared")
    <3>1. \A i \in DOMAIN writes' : \/ i \in DOMAIN writes
                                    \/ writes'[i].by = None
                                    \/ writes'[i].by = c /\ writes'[i].at = "cleared"
      BY <2>3, <2>4
    <3>2. \E i \in DOMAIN writes' : writes'[i].by = c /\ writes'[i].at = "cleared"
      <4>1. 4 \in 1..4 OBVIOUS
      <4> QED BY <2>3, <2>4, <4>1
    <3>3. /\ \A i \in DOMAIN writes : i \in DOMAIN writes' /\ writes'[i] = writes[i]
          /\ \A i \in DOMAIN requests : i \in DOMAIN requests' /\ requests'[i] = requests[i]
          /\ \A i \in DOMAIN requests' : i \in DOMAIN requests
          /\ call[c].at # "written"
      BY <1>1, <2>3
    <3> QED BY <1>1, <2>1, <2>2, <3>1, <3>2, <3>3, Going
  <2>6. writes' \in Seq(Writes)
    <3>1. TypeOK' BY ClearAllStep DEF VaultInv
    <3> QED BY <3>1 DEF TypeOK
  <2>7. /\ Stored("cipher")' = None /\ Stored("mac")' = None /\ Stored("counter")' = None
    <3> DEFINE n == Len(writes)
    <3>1. /\ writes'[n + 1] = Clearing(c)[1] /\ writes'[n + 2] = Clearing(c)[2]
          /\ writes'[n + 3] = Clearing(c)[3] /\ writes'[n + 4] = Clearing(c)[4]
          /\ n + 2 \in DOMAIN writes' /\ n + 3 \in DOMAIN writes' /\ n + 4 \in DOMAIN writes'
      BY <2>3
    <3>2. \A i \in DOMAIN writes' : /\ i \in Nat
                                    /\ i <= n \/ i = n + 1 \/ i = n + 2 \/ i = n + 3 \/ i = n + 4
      BY <2>3
    <3>3. n \in Nat BY <2>3
    <3> HIDE DEF n
    <3>4. /\ IsLast(writes', "cipher", n + 2) /\ IsLast(writes', "mac", n + 3)
          /\ IsLast(writes', "counter", n + 4)
      BY <2>4, <3>1, <3>2, <3>3 DEF IsLast
    <3>5. /\ StoredIn(writes', disk', "cipher") = writes'[n + 2].value["cipher"]
          /\ StoredIn(writes', disk', "mac") = writes'[n + 3].value["mac"]
          /\ StoredIn(writes', disk', "counter") = writes'[n + 4].value["counter"]
      BY <2>6, <3>4, StoredLast, SMT
    <3> QED BY <2>4, <3>1, <3>5 DEF Stored, StoredIn
  <2>8. mem'.signedUp = FALSE /\ mem'.vaults = {} /\ mem'.password = None
    BY <2>1 DEF Empty
  <2>9. Comes(c, "clearing") /\ HoldsKey(q, "clearing") /\ Fits(q, "clearing")
    BY <1>1, ComesReady DEF Comes
  <2>10. mem.signedUp /\ q.op = "delete" /\ \A d \in Calls : ~OpensNew(d)
    BY <2>9 DEF HoldsKey, Fits, KeyInv, ClearsAlone
  <2>11. /\ \A d \in Calls : call'[d] = IF d = c THEN next ELSE call[d]
         /\ \A d \in Calls :
              \A p \in {"unlocking", "opened", "clearing", "storeMac", "storeCounter",
                        "signed", "storeNewMac", "changed"} :
                /\ d # c => (Comes(d, p)' <=> Comes(d, p))
                /\ Comes(c, p)' <=> p = "cleared"
    BY <1>1, <2>5, GoesPoints
  <2> HIDE DEF q
  <2>12. ASSUME NEW d \in Calls, d # c, NEW p \in Points, Comes(d, p)
         PROVE  SignsUp(call[d], p)' /\ HoldsKey(call[d], p)'
    <3>1. ~(call[d].op = "create" /\ p \in {"unlocking", "opened"})
      BY <2>10, <2>12 DEF OpensNew
    <3>2. call'[d] = call[d]
      BY <2>11, <2>12
    <3> QED BY <2>10, <2>12, <3>1, <3>2, OthersAside DEF q
  <2>13. CallsHold'
    <3>1. /\ Fits(next, "cleared") /\ SignsUp(call[c], "cleared")' /\ HoldsKey(call[c], "cleared")'
      BY <2>2, <2>10 DEF Fits, SignsUp, HoldsKey
    <3>2. next.op # "none" => next.op \in May[c]
      BY <2>2 DEF KeyInv, CallsHold, q
    <3> QED BY <1>1, <2>5, <2>12, <3>1, <3>2, CallsHoldStep DEF KeyInv
  <2>14. ClearsAlone'
    <3>1. \A d \in Calls : ~OpensNew(d)'
      BY <2>10, <2>11 DEF OpensNew
    <3> QED BY <3>1 DEF ClearsAlone
  <2>15. OneKey'
    BY <2>7, <2>8 DEF OneKey, IsLocked, Bare
  <2>16. Settled'
    BY <2>8 DEF Settled
  <2> QED BY <2>13, <2>14, <2>15, <2>16 DEF KeyInv
<1> QED BY <1>2, <1>3 DEF ClearAll

LEMMA KeyInit == Init => KeyInv
<1> SUFFICES ASSUME Init PROVE KeyInv
  OBVIOUS
<1>1. \A c \in Calls : call[c].op = "none" /\ call[c].at = "idle"
  BY DEF Init, Idle
<1>2. \A c \in Calls : \A at : Comes(c, at) => at = "idle"
  BY <1>1 DEF Comes, Init
<1>3. /\ Stored("cipher") = None /\ Stored("mac") = None /\ Stored("counter") = None
  BY StoredHere, StoredNowhere DEF Init, Blank
<1>4. mem.signedUp = FALSE /\ mem.vaults = {} /\ mem.password = None
  BY DEF Init, Empty
<1>5. CallsHold
  BY <1>1, <1>2 DEF CallsHold, Fits, SignsUp, HoldsKey
<1>6. ClearsAlone /\ Settled /\ OneKey
  BY <1>1, <1>2, <1>3, <1>4 DEF ClearsAlone, Settled, OneKey, Bare, IsLocked
<1> QED BY <1>5, <1>6 DEF KeyInv

\* The end of the background is not a step of the calls.
LEMMA KeyNext ==
    OneOfEach /\ VaultInv /\ (ends = 0 => KeyInv) /\ [Next]_vars => (ends = 0 => KeyInv)'
<1> SUFFICES ASSUME OneOfEach, VaultInv, ends = 0 => KeyInv, [Next]_vars, ends' = 0
             PROVE  KeyInv'
  OBVIOUS
<1>1. CASE UNCHANGED vars
  <2>1. SameKey /\ KeyInv /\ mem' = mem /\ current' = current
    BY <1>1 DEF vars, SameKey, Stored
  <2>2. \A d \in Calls : SameButAt(d)
    BY <1>1 DEF vars, SameButAt
  <2>3. \A d \in Calls : \A p \in Points : Comes(d, p)' <=> Comes(d, p)
    BY <1>1 DEF vars, Comes
  <2> QED BY <2>1, <2>2, <2>3, SameStep
<1>2. ASSUME NEW kind \in Kinds, End(kind) PROVE KeyInv'
  <2>1. ends \in Nat /\ ends' = ends + 1
    BY <1>2, BoundsAssumption DEF End, VaultInv, TypeOK
  <2> QED BY <2>1
<1>3. CASE LandWrite \/ LandSession \/ Lock
  <2>1. KeyInv
    BY <1>3 DEF LandWrite, LandSession, Lock
  <2> QED BY <1>3, <2>1, LandWriteKey, LandSessionKey, LockKey
<1>4. ASSUME NEW c \in Calls, Step(c) PROVE KeyInv'
  <2>1. KeyInv
    BY <1>4 DEF Step, Read, SignUp, StoreMac, StoreCounter, SignedUp, AddVault, Unlocked, Opened,
                Encrypt, StoreNewCipher, StoreNewMac, Changed, RemoveVault, ClearAll, Cleared
  <2> QED BY <1>4, <2>1, ReadKey, SignUpKey, StoreMacKey, StoreCounterKey, SignedUpKey, AddVaultKey,
             UnlockedKey, OpenedKey, EncryptKey, StoreNewCipherKey, StoreNewMacKey, ChangedKey,
             RemoveVaultKey, ClearAllKey, ClearedKey DEF Step
<1>5. ASSUME NEW c \in Calls, Asked(c) PROVE KeyInv'
  <2>1. KeyInv
    BY <1>5 DEF Asked, Create, Delete, Unlock, Change
  <2> QED BY <1>5, <2>1, CreateKey, DeleteKey, UnlockKey, ChangeKey DEF Asked
<1> QED BY <1>1, <1>2, <1>3, <1>4, <1>5 DEF Next

LEMMA KeyHolds == ASSUME OneOfEach PROVE Spec => [](ends = 0 => KeyInv)
<1>1. Init => (ends = 0 => KeyInv) BY KeyInit
<1>2. VaultInv /\ (ends = 0 => KeyInv) /\ [Next]_vars => (ends = 0 => KeyInv)'
  BY KeyNext
<1> QED BY <1>1, <1>2, VaultInvariant, PTL DEF Spec

\* Until the background ends the key and the counter in memory are those that
\* every key ring was encrypted with, whatever unlock(), lock(), signUp(),
\* changeUserPassword() and clearAll() of vault/service.ts do between the awaits
\* of one another, for one registration tab and one popup.
THEOREM OpenIsReadable == ASSUME OneOfEach PROVE Spec => [](ends = 0 => ReadableWhileOpen)
<1>1. KeyInv => ReadableWhileOpen
  BY DEF KeyInv, OneKey, ReadableWhileOpen
<1> QED BY <1>1, KeyHolds, PTL

\* Until the background ends the password that the user was told last opens
\* what is stored, no other does, and what it opens is the key of every key
\* ring: signUp() and changeUserPassword() replace cipher and MAC together as
\* far as any other call can tell.
THEOREM PasswordOpens == ASSUME OneOfEach PROVE Spec => [](ends = 0 => CurrentOpens)
<1>1. VaultInv /\ KeyInv => CurrentOpens
  <2> SUFFICES ASSUME VaultInv, KeyInv, mem.signedUp, \A c \in Calls : ~Replacing(c)
               PROVE  LET cipher == Stored("cipher") IN
                        /\ cipher # None /\ cipher = Stored("mac") /\ cipher[2] = current
                        /\ Stored("counter") = cipher[1]
                        /\ \A v \in mem.vaults :
                             v.key = cipher[1] /\ v.counter = <<cipher[1], cipher[1]>>
    BY DEF CurrentOpens
  <2>1. ASSUME NEW c \in Calls, NEW p \in {"storeNewMac", "changed"}, Comes(c, p) PROVE FALSE
    <3>1. Ready(call[c], p)
      BY <2>1, ComesReady DEF Points
    <3>2. call[c].op = "change"
      BY <3>1 DEF Ready
    <3>3. call[c].at = p \/ call[c].at = "written"
      BY <2>1 DEF Comes, VaultInv, CallsInv, WaitsForOne
    <3> QED BY <3>2, <3>3 DEF Replacing
  <2>2. Stored("mac") = Stored("cipher") /\ Stored("cipher")[2] = current
    BY <2>1 DEF KeyInv, Settled
  <2> QED BY <2>2 DEF KeyInv, OneKey
<1> QED BY <1>1, KeyHolds, VaultInvariant, PTL
=============================================================================
