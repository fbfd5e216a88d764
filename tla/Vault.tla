-------------------------------- MODULE Vault --------------------------------
(***************************************************************************)
(* The vault of packages/background/src/vault/service.ts and the calls of  *)
(* keyring/service.ts through which it is used: createMnemonicKeyRing (and *)
(* its ledger, private key and keystone twins), deleteKeyRing,             *)
(* changeUserPassword, unlockKeyRing and lockKeyRing.                      *)
(*                                                                         *)
(* Key rings are encrypted under a random key with a random counter; the   *)
(* key is stored encrypted under the user's password and authenticated by  *)
(* a MAC, in two items of browser.storage.local that are written one after *)
(* the other.  The key in use lives in memory and, so that the service     *)
(* worker may stop, in browser.storage.session.                            *)
(*                                                                         *)
(* Every call runs up to its next await; between two awaits other calls,   *)
(* lock() and the end of the worker interleave.  A storage area serves its *)
(* requests in the order they were made.  What the code never looks into   *)
(* is abstracted: ciphertexts are the pair of what they contain and of     *)
(* what opens them, the salts are fixed, the vaults are those of type      *)
(* "keyRing" without their insensitive part, the selection among them is   *)
(* left out, and the background is a service worker.                       *)
(***************************************************************************)
EXTENDS Naturals, Sequences, FiniteSets

CONSTANTS
    Passwords,   \* what a user may type
    Keys,        \* the random keys that signUp() may draw
    Ids,         \* the random ids that addVault() may draw
    Calls,       \* the messages the background handles concurrently
    May,         \* May[c]: the operations that the page behind call c asks for
    Kinds,       \* how the background may end: "worker" (stopped), "browser" (closed)
    MaxEnds,     \* bound: how often the background ends
    MaxSession,  \* bound: session requests under way when lock() is called
    None

ASSUME NoneAssumption == /\ None \notin Passwords \cup Keys \cup Ids \cup Calls
                         /\ None \notin Keys \X Passwords
                         /\ None \notin Keys \X Keys
ASSUME MayAssumption ==
    May \in [Calls -> SUBSET {"create", "delete", "change", "unlock"}]
ASSUME BoundsAssumption == MaxEnds \in Nat /\ MaxSession \in Nat

VARIABLES
    disk,      \* browser.storage.local: passwordCipher, userPasswordMac, aesCounterCipher, vaultMap
    writes,    \* the requests it has not served yet
    session,   \* browser.storage.session: "vault.password" and "vault.aesCounter"
    requests,  \* the requests it has not served yet
    mem,       \* the fields of VaultService
    call,      \* the calls under way
    drawn,     \* history: the keys that were drawn
    made,      \* history: the ids that were returned by create...KeyRing
    gone,      \* history: the ids that deleteKeyRing removed
    current,   \* history: the password in force, as the user was told
    ends,      \* how often the background has ended
    torn       \* history: what an end has left half done, the removal of the key
               \* from the session or the storage of a password

vars == <<disk, writes, session, requests, mem, call, drawn, made, gone, current, ends, torn>>

-----------------------------------------------------------------------------
\* AES: a ciphertext of key under password; the same pair is what the MAC
\* authenticates, because salt and counter are fixed.
Ciphers == Keys \X Passwords

\* The counter stored with key <<1>>, as decrypted with key <<2>>: the right
\* one when they agree, garbage otherwise.
Counters == Keys \X Keys

\* An entry of vaultMap: what its sensitive part was encrypted with.
Vaults == [id : Ids, key : Keys, counter : Counters]

Local == [cipher  : Ciphers \cup {None}, mac : Ciphers \cup {None},
          counter : Keys \cup {None}, vaults : SUBSET Vaults]

Memory == [signedUp : BOOLEAN, password : Keys \cup {None},
           counter  : Counters \cup {None}, vaults : SUBSET Vaults]

Items == {"cipher", "mac", "counter", "vaults"}

Session == [key : Keys \cup {None}, counter : Counters \cup {None}]

\* Where a call stands: it awaits storage reads ("read"), a derivation of
\* pbkdf2 ("signing", "checking", "unlocking", "changing", "clearing"), a
\* write ("written") or reaches the statement that follows.
Points == {"idle", "signing", "storeMac", "storeCounter", "signed", "unlocking",
           "opened", "adding", "checking", "changing", "storeNewMac", "changed",
           "clearing", "cleared", "written"}

\* The fields of a call: the operation, the point it resumes at, the items it
\* reads before that, its arguments, the key it holds and what it has read.
Call == [op   : {"none", "create", "delete", "change", "unlock"},
         at   : Points, want : Seq(Items \ {"vaults"}),
         pw   : Passwords \cup {None}, new : Passwords \cup {None},
         id   : Ids \cup {None}, key : Keys \cup {None},
         cipher : Ciphers \cup {None}, mac : Ciphers \cup {None},
         counter : Keys \cup {None}]

Idle == [op |-> "none", at |-> "idle", want |-> <<>>, pw |-> None, new |-> None,
         id |-> None, key |-> None, cipher |-> None, mac |-> None, counter |-> None]

Empty == [signedUp |-> FALSE, password |-> None, counter |-> None, vaults |-> {}]

IsLocked == mem.password = None

-----------------------------------------------------------------------------
Blank == [cipher |-> None, mac |-> None, counter |-> None, vaults |-> {}]

\* A request to browser.storage.local: the item, its value, the call that
\* awaits it (None when nobody does) and the point where that resumes.
Write(item, value, c, at) ==
    [item |-> item, value |-> [Blank EXCEPT ![item] = value], by |-> c, at |-> at]

\* A read is served after the writes that were requested before it.
Stored(item) ==
    LET earlier == {i \in DOMAIN writes : writes[i].item = item}
    IN IF earlier = {} THEN disk[item]
       ELSE writes[CHOOSE i \in earlier : \A j \in earlier : j <= i].value[item]

\* The autorun over vaultMap stores every change and is awaited by nobody.
StoreVaults(vaults) == Write("vaults", vaults, None, "idle")

\* Call c goes on at `at` with the changes `with`.
Resume(c, with) == call' = [call EXCEPT ![c] = with]

\* A call that throws, or returns, leaves nothing behind.
Finish(c) == Resume(c, Idle)

\* await this.kvStore.set(item, value), then on at `at`.
AwaitWrite(c, r, item, value, at) ==
    /\ Resume(c, [r EXCEPT !.at = "written"])
    /\ writes' = Append(writes, Write(item, value, c, at))

\* decryptPassword(): the MAC is that of this cipher under this password.
Opens(r) == r.cipher # None /\ r.mac = r.cipher /\ r.cipher[2] = r.pw

\* Mutant: the key is not compared with the one in memory.
Checked_AnyKey(r) == mem.signedUp /\ Opens(r)

\* checkUserPassword(), after its reads and the derivation of the key.  (The
\* code looks at isSignedUp before the derivation; a clearAll() meanwhile
\* empties the key in memory, and the comparison refuses too.)
Checked(r) == mem.signedUp /\ Opens(r) /\ r.cipher[1] = mem.password

\* The reads of getPasswordCryptoState().
CryptoState == <<"cipher", "mac">>

-----------------------------------------------------------------------------
Init ==
    /\ disk = Blank
    /\ writes = <<>>
    /\ session = [key |-> None, counter |-> None]
    /\ requests = <<>>
    /\ mem = Empty
    /\ call = [c \in Calls |-> Idle]
    /\ drawn = {} /\ made = {} /\ gone = {} /\ current = None
    /\ ends = 0 /\ torn = {}

\* The storage serves its oldest write; the call that awaited it resumes.
LandWrite ==
    /\ writes # <<>>
    /\ LET w == Head(writes) IN
         /\ disk' = [disk EXCEPT ![w.item] = w.value[w.item]]
         /\ call' = IF w.by = None THEN call ELSE [call EXCEPT ![w.by].at = w.at]
    /\ writes' = Tail(writes)
    /\ UNCHANGED <<session, requests, mem, drawn, made, gone, current, ends, torn>>

\* setSessionPassword(): one request sets both items; they are removed one
\* after the other, the second when the first is gone.
LandSession ==
    /\ requests # <<>>
    /\ LET r == Head(requests) IN
         /\ session' = CASE r.act = "set" -> [key |-> r.key, counter |-> r.counter]
                         [] r.act = "dropKey" -> [session EXCEPT !.key = None]
                         [] r.act = "dropCounter" -> [session EXCEPT !.counter = None]
         /\ requests' = IF r.act = "dropKey"
                        THEN Append(Tail(requests), [r EXCEPT !.act = "dropCounter"])
                        ELSE Tail(requests)
         /\ call' = IF r.by = None \/ r.act = "dropKey" THEN call
                    ELSE [call EXCEPT ![r.by].at = r.at]
    /\ UNCHANGED <<disk, writes, mem, drawn, made, gone, current, ends, torn>>

SetSession(c, key, counter, at) ==
    requests' = Append(requests, [act |-> "set", key |-> key, counter |-> counter,
                                  by |-> c, at |-> at])

DropSession(c, at) ==
    requests' = Append(requests, [act |-> "dropKey", key |-> None, counter |-> None,
                                  by |-> c, at |-> at])

\* A call reads the next stored item that it awaits.
Read(c) ==
    /\ call[c].want # <<>>
    /\ LET item == Head(call[c].want) IN
         Resume(c, [call[c] EXCEPT ![item] = Stored(item), !.want = Tail(@)])
    /\ UNCHANGED <<disk, writes, session, requests, mem, drawn, made, gone, current, ends, torn>>

At(c, point) == call[c].at = point /\ call[c].want = <<>>

Ask(c, op) == call[c] = Idle /\ op \in May[c]

-----------------------------------------------------------------------------
\* create...KeyRing(): signUp() first, when nobody did; it refuses an unlocked
\* vault and reads what is stored.  Otherwise the key ring is added at once.
Create(c, pw, id) ==
    /\ Ask(c, "create")
    /\ id \notin made
    /\ \A d \in Calls : call[d].id # id
    /\ LET r == [Idle EXCEPT !.op = "create", !.pw = pw, !.id = id] IN
         IF mem.signedUp
         THEN Resume(c, [r EXCEPT !.at = "adding"])
         ELSE /\ IsLocked
              /\ Resume(c, [r EXCEPT !.at = "signing",
                                     !.want = <<"cipher", "mac", "counter">>])
    /\ UNCHANGED <<disk, writes, session, requests, mem, drawn, made, gone, current, ends, torn>>

\* signUp() refuses what is signed up already, or generates a key.
SignUp(c) ==
    /\ At(c, "signing")
    /\ LET r == call[c] IN
         IF (r.cipher # None /\ r.mac # None) \/ r.counter # None
         THEN Finish(c) /\ UNCHANGED <<writes, drawn>>
         ELSE \E key \in Keys \ drawn :
                /\ drawn' = drawn \cup {key}
                /\ AwaitWrite(c, [r EXCEPT !.key = key], "cipher", <<key, r.pw>>, "storeMac")
    /\ UNCHANGED <<disk, session, requests, mem, made, gone, current, ends, torn>>

\* setPasswordCryptoState() stores the MAC after the cipher ...
StoreMac(c) ==
    /\ At(c, "storeMac")
    /\ AwaitWrite(c, call[c], "mac", <<call[c].key, call[c].pw>>, "storeCounter")
    /\ UNCHANGED <<disk, session, requests, mem, drawn, made, gone, current, ends, torn>>

\* ... and signUp() the counter after both.
StoreCounter(c) ==
    /\ At(c, "storeCounter")
    /\ AwaitWrite(c, call[c], "counter", call[c].key, "signed")
    /\ UNCHANGED <<disk, session, requests, mem, drawn, made, gone, current, ends, torn>>

UnlockReads == <<"counter", "cipher", "mac">>

\* signUp() ends with unlock(), which refuses an unlocked vault.
SignedUp(c) ==
    /\ At(c, "signed")
    /\ mem' = [mem EXCEPT !.signedUp = TRUE]
    /\ current' = call[c].pw
    /\ IF IsLocked
       THEN Resume(c, [call[c] EXCEPT !.at = "unlocking", !.want = UnlockReads])
       ELSE Finish(c)
    /\ UNCHANGED <<disk, writes, session, requests, drawn, made, gone, ends, torn>>

\* Mutant: the snapshot that is stored holds the new vault alone.
AddVault_Alone(c) ==
    /\ At(c, "adding")
    /\ IF IsLocked
       THEN UNCHANGED <<mem, writes, made>>
       ELSE LET new == [id |-> call[c].id, key |-> mem.password, counter |-> mem.counter]
            IN /\ mem' = [mem EXCEPT !.vaults = @ \cup {new}]
               /\ writes' = Append(writes, StoreVaults({new}))
               /\ made' = made \cup {call[c].id}
    /\ Finish(c)
    /\ UNCHANGED <<disk, session, requests, drawn, gone, current, ends, torn>>

\* addVault() encrypts with the key in memory; the id is what the page gets.
AddVault(c) ==
    /\ At(c, "adding")
    /\ IF IsLocked
       THEN UNCHANGED <<mem, writes, made>>
       ELSE LET vaults == mem.vaults \cup
                    {[id |-> call[c].id, key |-> mem.password, counter |-> mem.counter]}
            IN /\ mem' = [mem EXCEPT !.vaults = vaults]
               /\ writes' = Append(writes, StoreVaults(vaults))
               /\ made' = made \cup {call[c].id}
    /\ Finish(c)
    /\ UNCHANGED <<disk, session, requests, drawn, gone, current, ends, torn>>

-----------------------------------------------------------------------------
\* unlockKeyRing() -> unlock().
Unlock(c, pw) ==
    /\ Ask(c, "unlock")
    /\ IsLocked
    /\ Resume(c, [Idle EXCEPT !.op = "unlock", !.at = "unlocking", !.pw = pw,
                              !.want = UnlockReads])
    /\ UNCHANGED <<disk, writes, session, requests, mem, drawn, made, gone, current, ends, torn>>

\* The key derived from the password opens what was read, or unlock() throws.
\* The wait is over whatever lock() did meanwhile.
Unlocked(c) ==
    /\ At(c, "unlocking")
    /\ LET r == call[c] IN
         IF r.counter # None /\ Opens(r)
         THEN /\ mem' = [mem EXCEPT !.password = r.cipher[1],
                                    !.counter  = <<r.counter, r.cipher[1]>>]
              /\ SetSession(c, r.cipher[1], <<r.counter, r.cipher[1]>>, "opened")
              /\ Resume(c, [r EXCEPT !.at = "written"])
         ELSE Finish(c) /\ UNCHANGED <<mem, requests>>
    /\ UNCHANGED <<disk, writes, session, drawn, made, gone, current, ends, torn>>

\* The session holds the key: unlock() returns, create...KeyRing() goes on.
Opened(c) ==
    /\ At(c, "opened")
    /\ IF call[c].op = "create" THEN Resume(c, [call[c] EXCEPT !.at = "adding"])
                                ELSE Finish(c)
    /\ UNCHANGED <<disk, writes, session, requests, mem, drawn, made, gone, current, ends, torn>>

\* lockKeyRing() -> lock(); the session is cleared later.
Lock ==
    /\ Len(requests) < MaxSession
    /\ mem' = [mem EXCEPT !.password = None]
    /\ DropSession(None, "idle")
    /\ UNCHANGED <<disk, writes, session, call, drawn, made, gone, current, ends, torn>>

-----------------------------------------------------------------------------
\* changeUserPassword() and deleteKeyRing() begin with checkUserPassword(),
\* which refuses a locked vault.
Change(c, pw, new) ==
    /\ Ask(c, "change")
    /\ ~IsLocked
    /\ Resume(c, [Idle EXCEPT !.op = "change", !.at = "checking", !.pw = pw,
                              !.new = new, !.want = CryptoState])
    /\ UNCHANGED <<disk, writes, session, requests, mem, drawn, made, gone, current, ends, torn>>

\* Mutant: the new password protects a new key.
Encrypt_NewKey(c) ==
    /\ At(c, "checking") /\ call[c].op = "change"
    /\ IF Checked(call[c])
       THEN \E key \in Keys \ drawn :
              /\ drawn' = drawn \cup {key}
              /\ Resume(c, [call[c] EXCEPT !.at = "changing", !.key = key])
       ELSE Finish(c) /\ UNCHANGED drawn
    /\ UNCHANGED <<disk, writes, session, requests, mem, made, gone, current, ends, torn>>

\* Checked: the key in memory is about to be encrypted under the new password.
Encrypt(c) ==
    /\ At(c, "checking") /\ call[c].op = "change"
    /\ IF Checked(call[c])
       THEN Resume(c, [call[c] EXCEPT !.at = "changing", !.key = mem.password])
       ELSE Finish(c)
    /\ UNCHANGED <<disk, writes, session, requests, mem, drawn, made, gone, current, ends, torn>>

\* The new cipher replaces the old one, then the new MAC the old one.
StoreNewCipher(c) ==
    /\ At(c, "changing")
    /\ AwaitWrite(c, call[c], "cipher", <<call[c].key, call[c].new>>, "storeNewMac")
    /\ UNCHANGED <<disk, session, requests, mem, drawn, made, gone, current, ends, torn>>

StoreNewMac(c) ==
    /\ At(c, "storeNewMac")
    /\ AwaitWrite(c, call[c], "mac", <<call[c].key, call[c].new>>, "changed")
    /\ UNCHANGED <<disk, session, requests, mem, drawn, made, gone, current, ends, torn>>

Changed(c) ==
    /\ At(c, "changed")
    /\ current' = call[c].new
    /\ Finish(c)
    /\ UNCHANGED <<disk, writes, session, requests, mem, drawn, made, gone, ends, torn>>

-----------------------------------------------------------------------------
Delete(c, id, pw) ==
    /\ Ask(c, "delete")
    /\ ~IsLocked
    /\ \E v \in mem.vaults : v.id = id
    /\ Resume(c, [Idle EXCEPT !.op = "delete", !.at = "checking", !.pw = pw, !.id = id,
                              !.want = CryptoState])
    /\ UNCHANGED <<disk, writes, session, requests, mem, drawn, made, gone, current, ends, torn>>

\* removeVault(), unless it is gone; after the last one clearAll(password)
\* checks the password again.
RemoveVault(c) ==
    /\ At(c, "checking") /\ call[c].op = "delete"
    /\ LET r    == call[c]
           rest == {v \in mem.vaults : v.id # r.id}
       IN IF Checked(r) /\ rest # mem.vaults
          THEN /\ mem' = [mem EXCEPT !.vaults = rest]
               /\ writes' = Append(writes, StoreVaults(rest))
               /\ gone' = gone \cup {r.id}
               /\ IF rest = {}
                  THEN Resume(c, [r EXCEPT !.at = "clearing", !.want = CryptoState])
                  ELSE Finish(c)
          ELSE Finish(c) /\ UNCHANGED <<mem, writes, gone>>
    /\ UNCHANGED <<disk, session, requests, drawn, made, current, ends, torn>>

\* clearAll(): the memory is reset, which stores an empty vaultMap, and the
\* three items of the password are nulled together.
ClearAll(c) ==
    /\ At(c, "clearing")
    /\ IF Checked(call[c])
       THEN /\ mem' = Empty
            /\ writes' = writes \o <<StoreVaults({}),
                                     Write("cipher", None, None, "idle"),
                                     Write("mac", None, None, "idle"),
                                     Write("counter", None, c, "cleared")>>
            /\ Resume(c, [call[c] EXCEPT !.at = "written"])
       ELSE Finish(c) /\ UNCHANGED <<mem, writes>>
    /\ UNCHANGED <<disk, session, requests, drawn, made, gone, current, ends, torn>>

\* Mutant: clearAll() leaves the session alone.
Cleared_KeepsSession(c) ==
    /\ At(c, "cleared")
    /\ Finish(c)
    /\ UNCHANGED <<disk, writes, session, requests, mem, drawn, made, gone, current, ends, torn>>

\* clearAll() removes the key from the session at last; the handlers of
\* removed vaults follow and belong to other services.
Cleared(c) ==
    /\ At(c, "cleared")
    /\ DropSession(c, "opened")
    /\ Resume(c, [call[c] EXCEPT !.at = "written"])
    /\ UNCHANGED <<disk, writes, session, mem, drawn, made, gone, current, ends, torn>>

-----------------------------------------------------------------------------
\* clearAll() has reset the memory and has yet to ask for the session to be
\* cleared.
Clears(c) ==
    \/ call[c].at = "cleared"
    \/ \E i \in DOMAIN writes : writes[i].by = c /\ writes[i].at = "cleared"

\* ... or that request is not served.
SigningOut(c) ==
    \/ Clears(c)
    \/ \E i \in DOMAIN requests :
          requests[i].by = c /\ requests[i].act = "dropKey" /\ call[c].op = "delete"

\* A call whose cipher and MAC are about to replace the stored ones.
Replacing(c) ==
    \/ call[c].at \in {"storeMac", "storeNewMac", "storeCounter", "signed", "changed"}
    \/ call[c].at = "written" /\ call[c].op \in {"create", "change"}

\* The background ends and starts again; the requests that are not served are
\* lost.  The session survives the worker, not the browser.  init() reads what
\* is stored, and unlockWithSessionPasswordIfPossible() takes the key when the
\* session has both items.
End(kind) ==
    /\ ends < MaxEnds /\ ends' = ends + 1
    /\ LET open == kind = "worker" /\ session.key # None /\ session.counter # None
       IN mem' = [signedUp |-> disk.cipher # None /\ disk.mac # None,
                  password |-> IF open THEN session.key ELSE None,
                  counter  |-> IF open THEN session.counter ELSE None,
                  vaults   |-> disk.vaults]
    /\ session' = IF kind = "worker" THEN session ELSE [key |-> None, counter |-> None]
    /\ writes' = <<>> /\ requests' = <<>>
    /\ call' = [c \in Calls |-> Idle]
    /\ torn' = torn
         \cup (IF kind = "worker" /\ \E c \in Calls : SigningOut(c) THEN {"key"} ELSE {})
         \cup (IF \E c \in Calls : Replacing(c) THEN {"password"} ELSE {})
    /\ UNCHANGED <<disk, drawn, made, gone, current>>

Step(c) ==
    \/ Read(c)
    \/ SignUp(c) \/ StoreMac(c) \/ StoreCounter(c) \/ SignedUp(c) \/ AddVault(c)
    \/ Unlocked(c) \/ Opened(c)
    \/ Encrypt(c) \/ StoreNewCipher(c) \/ StoreNewMac(c) \/ Changed(c)
    \/ RemoveVault(c) \/ ClearAll(c) \/ Cleared(c)

Asked(c) ==
    \/ \E pw \in Passwords, id \in Ids : Create(c, pw, id) \/ Delete(c, id, pw)
    \/ \E pw \in Passwords : Unlock(c, pw)
    \/ \E pw, new \in Passwords : Change(c, pw, new)

Next ==
    \/ LandWrite \/ LandSession
    \/ \E c \in Calls : Step(c) \/ Asked(c)
    \/ Lock
    \/ \E kind \in Kinds : End(kind)

Spec == Init /\ [][Next]_vars

-----------------------------------------------------------------------------
Writes == [item : Items, value : Local, by : Calls \cup {None}, at : Points]

Requests == [act : {"set", "dropKey", "dropCounter"}, key : Keys \cup {None},
             counter : Counters \cup {None}, by : Calls \cup {None}, at : Points]

\* Every variable holds a value of the kind that the code gives it.
TypeOK ==
    /\ disk \in Local
    /\ writes \in Seq(Writes)
    /\ session \in Session
    /\ requests \in Seq(Requests)
    /\ mem \in Memory
    /\ call \in [Calls -> Call]
    /\ drawn \subseteq Keys /\ made \subseteq Ids /\ gone \subseteq Ids
    /\ current \in Passwords \cup {None}
    /\ ends \in 0..MaxEnds /\ torn \subseteq {"key", "password"}

\* While the vault is unlocked every key ring in it can be decrypted: the key
\* and the counter in use are those it was encrypted with, over changes of the
\* password, restarts and a sign-up after clearAll(), until a worker is stopped
\* in a clearAll() that has reset the memory and has yet to clear the session.
ReadableWhileOpen ==
    "key" \notin torn /\ ~IsLocked => \A v \in mem.vaults : v.key = mem.password /\ v.counter = mem.counter

\* Once the user was told which password is in force, that password, and no
\* other, opens what is stored: no earlier one, not after any interleaving of
\* calls or any end of the background, and the stored key is the one that the key
\* rings need; unless the background has ended while a password was stored, or in
\* a clearAll() as above.
CurrentOpens ==
    torn = {} /\ mem.signedUp /\ (\A c \in Calls : ~Replacing(c)) =>
        LET cipher == Stored("cipher") IN
          /\ cipher # None /\ cipher = Stored("mac") /\ cipher[2] = current
          /\ Stored("counter") = cipher[1]
          /\ \A v \in mem.vaults : v.key = cipher[1] /\ v.counter = <<cipher[1], cipher[1]>>

\* When a locked vault has no request to the session under way, the session no
\* longer opens it: a stopped worker starts again locked, whatever order the
\* requests of unlock(), lock() and clearAll() took.
LockOutlivesTheWorker ==
    requests = <<>> /\ IsLocked /\ (\A c \in Calls : ~Clears(c))
    => session.key = None \/ session.counter = None

\* clearAll() resets the memory.
SignsOut == mem.signedUp /\ ~mem'.signedUp /\ ends' = ends

\* A stored key ring is lost, from memory or from the storage, by no step but
\* the deleteKeyRing() of this one and the sign-out after that of the last one,
\* which takes with it what another page adds between the two: not by a restart,
\* by other calls of another page, or by a snapshot of the vaults that lands
\* late, one of before the sign-out included.
KeepsWallets ==
    [][ SignsOut \/ \A v \in mem.vaults \cap disk.vaults :
          v.id \in gone' \/ v \in mem'.vaults \cap disk'.vaults ]_vars

=============================================================================
