------------------------------ MODULE VaultInv -------------------------------
(***************************************************************************)
(* The inductive invariants of Vault.  LockOutlivesTheWorker follows from  *)
(* VaultInv, KeepsWallets from KeptInv, ReadableWhileOpen and CurrentOpens *)
(* from KeyInv.  VaultProofs proves them.                                  *)
(***************************************************************************)
EXTENDS Vault

\* A call waits for one request at a time, of either storage area.
WaitsForOne(c) ==
    /\ \A i \in DOMAIN writes : writes[i].by = c =>
         /\ call[c].at = "written"
         /\ \A j \in DOMAIN writes : writes[j].by = c => i = j
         /\ \A j \in DOMAIN requests : requests[j].by # c
    /\ \A i \in DOMAIN requests : requests[i].by = c =>
         /\ call[c].at = "written"
         /\ \A j \in DOMAIN requests : requests[j].by = c => i = j

\* What a call must hold to go on at a point.
Ready(r, at) ==
    /\ at \in {"signing", "storeMac", "storeCounter", "signed", "adding"} => r.op = "create"
    /\ at \in {"changing", "storeNewMac", "changed"} => r.op = "change"
    /\ at \in {"storeMac", "storeCounter", "signed", "changing", "storeNewMac", "changed"}
         => r.key # None

\* A call has the arguments of its operation and what it needs where it stands
\* or will resume.
WellFormed(c) ==
    /\ call[c].op = "create" => call[c].pw # None /\ call[c].id # None
    /\ call[c].op = "change" => call[c].new # None
    /\ Ready(call[c], call[c].at)
    /\ \A i \in DOMAIN writes : writes[i].by = c => Ready(call[c], writes[i].at)
    /\ \A i \in DOMAIN requests : requests[i].by = c => Ready(call[c], requests[i].at)

\* A key is used with a counter.
KeyHasCounter == ~IsLocked => mem.counter # None

\* The key leaves the session with a request after which none brings it back ...
Dropping ==
    \E i \in DOMAIN requests :
        /\ requests[i].act = "dropKey"
        /\ \A j \in DOMAIN requests : j > i => requests[j].act # "set"

\* ... or the session does not open the vault and no request changes that.
Dropped ==
    /\ session.key = None \/ session.counter = None
    /\ \A i \in DOMAIN requests : requests[i].act # "set"

LockedInSession == IsLocked /\ (\A c \in Calls : ~Clears(c)) => Dropping \/ Dropped

CallsInv == \A c \in Calls : WaitsForOne(c) /\ WellFormed(c)

VaultInv ==
    /\ TypeOK
    /\ CallsInv
    /\ KeyHasCounter
    /\ LockedInSession

-----------------------------------------------------------------------------
(* KeptInv: no snapshot of the vaults on its way to the storage lacks one  *)
(* that is neither new nor removed.                                        *)

IdsMade ==
    /\ \A v \in mem.vaults \cup disk.vaults : v.id \in made
    /\ \A i \in DOMAIN writes : writes[i].item = "vaults" =>
         \A v \in writes[i].value.vaults : v.id \in made

IdsNew ==
    \A c \in Calls : call[c].op = "create" =>
        /\ call[c].id \notin made
        /\ \A d \in Calls : call[d].op = "create" /\ call[d].id = call[c].id => c = d

\* What is stored, or about to be, is in all that is stored later.
Kept ==
    \A v \in mem.vaults : v.id \notin gone =>
        \A i \in DOMAIN writes : writes[i].item = "vaults" =>
            /\ v \in disk.vaults => v \in writes[i].value.vaults
            /\ v \in writes[i].value.vaults =>
                 \A j \in DOMAIN writes : j > i /\ writes[j].item = "vaults" =>
                     v \in writes[j].value.vaults

KeptInv == IdsMade /\ IdsNew /\ Kept

-----------------------------------------------------------------------------
(* KeyInv: one key at a time, while the background does not end.            *)

\* One registration tab creates key rings, one popup does the rest.
OneOfEach ==
    \A c, d \in Calls : \A ops \in {{"create"}, {"unlock", "change", "delete"}} :
        May[c] \cap ops # {} /\ May[d] \cap ops # {} => c = d

\* Call c stands at a point or resumes there.
Comes(c, at) ==
    \/ call[c].at = at
    \/ \E i \in DOMAIN writes : writes[i].by = c /\ writes[i].at = at
    \/ \E i \in DOMAIN requests : requests[i].by = c /\ requests[i].at = at

Bare == Stored("cipher") = None /\ Stored("mac") = None /\ Stored("counter") = None

\* The operation is one of the point.
Fits(r, at) ==
    /\ at = "unlocking" => r.op \in {"create", "unlock"}
    /\ at \in {"clearing", "cleared"} => r.op = "delete"

\* The password of a new vault is being stored.
SigningUp(c) == Comes(c, "storeMac") \/ Comes(c, "storeCounter") \/ Comes(c, "signed")

\* Memory and storage agree on the key.
OneKey ==
    /\ ~IsLocked => /\ Stored("counter") = mem.password
                    /\ mem.counter = <<mem.password, mem.password>>
    /\ \A v \in mem.vaults : v.key = Stored("counter") /\ v.counter = <<v.key, v.key>>
    /\ mem.vaults # {} => mem.signedUp
    /\ mem.signedUp => Stored("counter") # None
    /\ Stored("counter") # None =>
         /\ Stored("cipher") # None /\ Stored("cipher")[1] = Stored("counter")
         /\ Stored("mac") # None /\ Stored("mac")[1] = Stored("counter")
    /\ ~mem.signedUp /\ (\A c \in Calls : ~SigningUp(c)) => Bare

\* A call that has read nothing that is of use to it.
ReadNothing(r) == r.cipher = None /\ r.mac = None /\ r.counter = None

\* How far signUp() has come at a point.
SignsUp(r, at) ==
    LET pair == <<r.key, r.pw>> IN
      /\ at \in {"signing", "storeMac", "storeCounter", "signed"} =>
           ~mem.signedUp /\ ReadNothing(r)
      /\ at = "signing" => Bare
      /\ at \in {"storeMac", "storeCounter", "signed"} =>
           r.want = <<>> /\ Stored("cipher") = pair
      /\ at \in {"storeMac", "storeCounter"} => Stored("counter") = None
      /\ at \in {"storeCounter", "signed"} => Stored("mac") = pair
      /\ at = "signed" => Stored("counter") = r.key

\* create...KeyRing() opens the vault that it has just signed up.
OpensNew(c) == call[c].op = "create" /\ (Comes(c, "unlocking") \/ Comes(c, "opened"))

\* What unlock() has read is still the key, and so is what encrypts it anew.
HoldsKey(r, at) ==
    /\ r.op = "create" /\ at \in {"unlocking", "opened"} => mem.signedUp /\ mem.vaults = {}
    /\ at = "unlocking" =>
         /\ r.want \in {UnlockReads, CryptoState, <<"mac">>, <<>>}
         /\ r.want = UnlockReads => ReadNothing(r)
         /\ r.counter # None => /\ r.counter = Stored("counter")
                                /\ r.cipher # None => r.cipher[1] = r.counter
    /\ at \in {"changing", "storeNewMac", "changed"} =>
         mem.signedUp /\ r.key = Stored("counter")
    /\ at \in {"storeNewMac", "changed"} => Stored("cipher") = <<r.key, r.new>>
    /\ at = "changed" => Stored("mac") = Stored("cipher")
    /\ at = "clearing" => mem.signedUp

\* Every call is one that its page may ask for, and stands or resumes where it
\* has what it needs.
CallsHold ==
    \A c \in Calls :
        /\ call[c].op # "none" => call[c].op \in May[c]
        /\ \A at \in Points : Comes(c, at) =>
             Fits(call[c], at) /\ SignsUp(call[c], at) /\ HoldsKey(call[c], at)

\* While the last key ring is being removed no new vault is opened.
ClearsAlone == \A c, d \in Calls : Comes(c, "clearing") => ~OpensNew(d)

\* Between two changes the password in force opens what is stored.
Settled ==
    mem.signedUp /\ (\A c \in Calls : ~Comes(c, "storeNewMac") /\ ~Comes(c, "changed")) =>
        Stored("mac") = Stored("cipher") /\ Stored("cipher")[2] = current

KeyInv == CallsHold /\ ClearsAlone /\ OneKey /\ Settled
=============================================================================
