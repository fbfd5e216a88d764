# Verification of the wallet's background process

TLA+ modules, TLC configurations and machine-checked proofs about the
background process of the wallet (`src/packages/background`) and the parts of
the extension it talks to. Each module is translated from the source; the
header of a module names the files, and `PROJECT.json` maps each definition to
its lines.

All of the code modelled here is JavaScript on one event loop: a piece of code
between two `await`s runs undisturbed, and anything may run at an `await`. So
an action of a model is what the code does from one `await` to the next, and
all the hard behaviour lies in what happens between two actions: the user locks
the wallet, another message is handled, a write fails, the service worker is
stopped, a page vanishes.

## 1. Inventory

| Component | State | Operations | Interacts with |
|---|---|---|---|
| **EPIX/Osmosis swap** (`epix-swap/`) | operations, reviews, approvals, workers, timers, two proof caches, the write queue | `prepare`, `start`, `refresh`, `launch`/`run`, `pause`, `save`, `init` | key ring (lock, wallet change), storage, two chains |
| **Vault** (`vault/`, parts of `keyring/`) | key and counter in memory, vault map, stored cipher, MAC, counter and vaults, session storage | `signUp`, `unlock`, `lock`, `checkUserPassword`, `changeUserPassword`, `addVault`, `removeVault`, `clearAll`, `init` | every service that signs; automatic lock; storage |
| **Interaction** (`interaction/`, `router-extension/src/env`, `stores-core/.../interaction.ts`) | waiting requests, resolvers, ping loops, the popup and side panels with their lists | `waitApproveV2`, `approveV2`, `rejectV2`, `reject`, pings, `onInjectedWebpageClosed`, `setIsEnabled`, `refreshData` | all services that ask the user; pages |
| **Endpoint health** (`chains/endpoint-health*.ts`) | per chain: consent, scores, effective endpoints, flights; one write queue | `initialize`, `preferencesChanged`, `setPublicFallback`, `check`, `persist` | Chains, storage, alarms, nodes |
| **Transaction executor** (`tx-executor/`) with the **swap histories** (`recent-send-history/`) | executions, each a list of transactions with statuses; histories with their trackers; the event bus between them | `recordAndExecuteTxs`, `resumeTx`, `executeTxs`, `trackSwapV2Recursive`, removal | pages that sign, tx services, the server that follows a swap |
| **IBC packet tracker** (`recent-send-history/`, `cosmos/src/tx-tracer`) | a record per transfer, its stored copy, loops of `retry()` | `sendTxAndRecord`, `trackIBCPacketForwardingRecursive`, rewind, removal | nodes of all chains of a route, storage, notifications |
| Key rings (`keyring/`) | selection, names, migration of the old store | create, select, delete, sign | Vault, Chains |
| Automatic lock (`auto-lock-account/`) | a timer, settings | start, stop, lock | Vault |
| Chains and their updates (`chains/`, `chains-update/`, `chains-ui/`) | chain infos, suggestions, endpoints, enabled chains | add, remove, update, set endpoints | everything |
| Permissions (`permission*/`) | grants per chain, type and origin; current chain per origin | grant, remove, check | Interaction, Chains |
| Transactions (`tx/`, `tx-ethereum/`) | nothing stored | broadcast, trace | executor, histories |
| Signing (`keyring-cosmos`, `-ethereum`, `-bitcoin`, `-starknet`, kinds of key rings) | nothing between requests | sign | Interaction, Vault |
| Registries (`token-*`, `phishing-list`, `settings`, `analytics`, `side-panel`, `secret-wasm`) | one map each | get, set, refresh | storage |
| Routers, providers, stores, user interface, libraries | messages, caches, forms | - | - |

The components in bold are modelled. What makes them hard, and what makes them correct:

* **Swap.** One approval of the user authorizes a route of two transactions on
  two chains that no one can take back. Answers of nodes are lost, writes of
  the store fail, the worker is stopped anywhere, a lock revokes the approval
  at any `await`. It is correct when no transaction is sent twice or forgotten,
  when the second one waits for the outcome of the first, when every broadcast
  is covered by an approval, when a finished swap is reported truthfully, and
  when the machinery always comes to rest.
* **Vault.** The key that decrypts all key rings is in memory, in the session
  and (under the password) in two stored items written one after the other;
  registration tab, popup, automatic lock and the end of the worker interleave
  with every derivation and every write. It is correct when the key in use is
  always the one the key rings need, when the password the user was told about
  opens what is stored, when a lock outlives the worker, and when no key ring is
  lost but by its own deletion.
* **Interaction.** A page that shows a request can disappear without a word.
  The background learns it from a tab event (popup) or from pings (side panel),
  and remembers what pings said while requests come and go. It is correct when
  each request has someone watching it, when the first answer is final, when no
  page vouches for requests it never had, and when what a vanished panel showed
  is refused in the end.

* **Endpoint health.** A check probes endpoints for seconds while the user
  withdraws the consent or sets another endpoint; one stored item holds the
  records of all chains, so the write of one chain captures what another has not
  acknowledged; the worker stops between a decision and its write. It is correct
  when only allowed endpoints are used, when a consent counts only while it is
  stored, when what was closed or used up does not come back, and when every
  check ends.
* **Executor.** A swap of several transactions goes on for minutes over several
  chains; the user signs in windows that work on copies, a tracker tells by an
  event where the funds are, and only executions that wait are stored, by writes
  that nobody awaits. It is correct when no transaction is sent twice, out of order
  or where the funds are not, when what the tracker told is not forgotten, and when a
  swap is not displayed as waiting for an execution that does not exist. An end of
  the background breaks some of this, and the models say exactly what.
* **IBC tracker.** A record is changed in many small writes, by loops that can
  be two at a time after a websocket failed late, about chains that settle a
  packet, refuse it or let it expire, and send the tokens back hop by hop. It is
  correct when the record says nothing that did not happen, when the user is
  told of a success only after a delivery, and when every transfer is followed
  to its end.

The hazards are in `PROJECT.json`, each at its line and with the properties
that would catch it. The ones that no property covers are in section 5.

## 2. Modules

| Module | What it is |
|---|---|
| `EpixSwap` | the swap service, its store and its chains; properties |
| `SwapLedger` | the abstract specification: what a swap promises on chain |
| `EpixSwapInv` | the inductive invariant `SwapInv` |
| `EpixSwapLemmas`, `EpixSwapProofs` | lemmas and theorems about `EpixSwap` |
| `EpixSwapTruth`, `EpixSwapTruthProofs` | the invariants `TruthInv`, `ConsentInv`, `LookupInv`; their proofs, and that `EpixSwap` implements `SwapLedger` |
| `MCEpixSwap` | instances for TLC |
| `Vault` | the vault, the two storage areas, the end of the background; properties |
| `VaultInv`, `VaultProofs`, `MCVault` | the invariants `VaultInv`, `KeptInv`, `KeyInv`; theorems, instances |
| `Interaction` | requests, pages, pings; properties |
| `InteractionInv`, `InteractionProofs`, `MCInteraction` | invariant, theorems, instances |
| `EndpointHealth` | the coordinator of endpoint checks, its queue of writes; properties |
| `EndpointHealthInv`, `EndpointHealthProofs`, `MCEndpointHealth` | invariant, theorems, instances |
| `TxExecutor` | executions, swap histories, the tracker of a swap, the bus, windows; properties |
| `TxExecutorInv`, `TxExecutorProofs`, `MCTxExecutor` | invariant, theorems, instances |
| `IbcTracker` | a transfer over IBC, its record and its flows; the chains as far as they are seen; properties |
| `IbcTrackerInv`, `IbcTrackerProofs`, `MCIbcTracker` | invariant, theorems, instances |

Definitions whose comment begins with "mutant" are not part of a model. They
are plausible bugs of the definition that follows them, kept to show
that each property can fail: replacing a definition by its mutant makes TLC
find the property violated.

### EpixSwap

`operations` is the map of the service, reduced to what decides the control:
the status, one hash per step and the two flags `depositConfirmed` and
`swapConfirmed`. A hash is the number of the attempt that produced it, so two
attempts of a step differ and `0` is `undefined`. `approvals` holds the age of
an approval, because two guards read the clock: the packet timeout (a bridge
must be signed in its first ten minutes) and the end of the approval.

`worker[o]` is the point at which `launch()` of an operation waits:

    launched -> observing -> preparing -> signing -> recording -> broadcasting -> saving -> idle
    Run         RunObserved  Prepared    Signed     HashSaved    BroadcastReturned  WorkerSaved

and `pausing` is the `save()` of `pause()`, to which every exception leads
(`WorkerThrows`). `lookup[o]` is the same for `observe()`, which the worker
and a refresh share. `Guard` is `guard()`; where it is followed by network
checks that can fail at any time, the failing branch is enabled always.

`save()` is a queue: `writeTail` names who awaits which write, and the write at
its head carries `snapshot`, the records as they were **when that write
started** - not when it was asked for. `Settle` ends a write, well or not, and
runs on with the code that awaited it. `Restart` is `init()` after the end of the
process: what is on `disk`, or, when a write was under way, what that write
contained; every open record becomes `paused`, loses its flags and all
approvals are gone.

`Commit` and `Relay` are the two chains (external): a transaction that left the
wallet commits, well or not, or never does; a packet is received, refused, or
stays. `allowed` counts what `start()` authorized and is history.

`SwapLedger` knows of a swap only what has effect: the transactions
that committed, whether the packet was delivered, and what the stored record
claims. A step takes effect once and in turn, and a claim is true when it is
stored. `ImplementsLedger` says that `EpixSwap` implements it.

### Vault

`mem` holds the fields of `VaultService`, `disk` and `session` the two browser
storage areas, `writes` and `requests` what they have yet to serve. A storage
area serves requests in the order in which they were made and a read sees the
writes before it (`Stored`). `call[c]` is a message under way: its operation,
its arguments, what it has read and the point where it will resume. The calls
come from the registration tab and the popup; `May` says which page asks for
what.

Cryptography is kept to what the properties tell apart. A ciphertext is the
pair of the key it contains and the password it was made with; the MAC is that
same pair, because salt and counter of the derivation are fixed in the code. The
stored counter is right or garbage, depending on whether it is decrypted with
the key it was encrypted with; a key ring remembers the key and counter it was
encrypted with.

`Lock` is `lock()`: it forgets the key and asks for its removal from the
session, which nobody awaits. `Unlocked` installs the key that was derived
from the password, *whatever happened meanwhile*, as the code does. `End` is
the end of the background with all it had not written: a stopped worker keeps
the session and starts unlocked when the session has both items; a closed
browser does not. `gone` and `torn` are history: the key rings that were deleted,
and what an end of the background has left half done: `"key"`, a worker stopped inside
`clearAll()` after the memory was reset and before the session was cleared;
`"password"`, an end while the cipher and the MAC of a password were being stored
(`Replacing`).

### Interaction

`stage[r]` is where a request stands (`waitingMap` and `resolverMap` have the
same keys at every await, so one variable is enough). `panelLoop` are the loops of
`startCheckPingOnUIWithWindowId()`, with the windows a round has still to ping,
the requests it read before the ping, and the windows that answered before;
`idLoop` is `startCheckPingOnUI()`. A page, the popup or the side panel of a
window, keeps `data` and `obsolete` of `InteractionStore`, refreshed by
`refreshData()` in two steps. Answers of pages travel in `sent`. The user opens
and closes pages, answers, switches between popup and panel (`SetIsEnabled`) and
leaves web pages (`PageClosed`).

`met` is history: the requests that waited while a page that shows them existed.

### EndpointHealth

`record[c]` is the `HealthRecord` of a chain with its snapshot, `flight[c]` the
check under way with the local variables of `runCheck()`: its `phase` is the
`await` at which it stands. A probe has an outcome and nothing else. `queue` is
`persistence`: each write carries all records **as they were when it was asked for**
(`Persist`), and `for` says what awaits it: a withdrawal, an opt-in, its
rollback, the escalation that uses up a chance, the result of a check. `Settle`
ends a write, well or not, and runs on with what awaited it. Tokens are only
ever compared with the current one, so a write is `current` or not (`Fenced`).
`Restart` loses everything but `disk`, on which the write under way may have
landed. `closed`, `denied` and `spent` are history: what the user knows to be off
(a withdrawal, or an opt-in that he was told had failed), the failed opt-ins whose
rollback failed as well, and chances that were used.

### TxExecutor

`execution[e]` is the `TxExecution` with id `e`, `listed` the ids in the map,
`run[e]` an `executeTxs()` under way: the transaction it is at, the one whose
signature the caller gave, and the `await` at which it stands. `history[e]` is the
swap history of the same swap, and `tracker[e]` the stage of its tracking.
`window[w]` is what the user of a window signs, taken from the copy that the page
fetched: it may be stale when `Resume` hands it in. `bus` keeps events only until
the executor has started, as the code's bus does.

`savedExecution` and `savedHistory` are what the two autoruns have stored, each as a
whole: of the executions those that wait (`Snapshot`). `ExecutionsSaved` and
`HistoriesSaved` are writes that were served; one that fails or is lost with the
background is one that does not happen, so `End` starts with executions and histories
of any, and of different, ages. `proven`, `arrived` and `lost`, `failed` and `back` are
history: transactions that were ever confirmed, where the tracker knew the funds and what
of it an end has lost, executions that failed, and how often an end brought an execution
back as it was earlier.

### IbcTracker

`tx`, `packet[i]` and `refund[i]` are the chains: whether the transaction was
accepted, what became of the packet of hop `i`, and by which event its sender
learned of a failure. A chain that forwards tokens acknowledges its packet when
the next one is settled; at `swapTarget`, the hop after a swap, the contract keeps
what comes back. `rec` is the record with the marks of `IbcHop` per packet, and
`durable` the set of records that the storage may hold if the background ends now:
every change of a record stores a snapshot, nobody awaits it, and several
changes within one handler are several snapshots.

`flow[f]` is a loop of `retry()` around one `trackHandler`: what it watches
(decided by `Watch` from the record, as one pass of
`trackIBCPacketForwardingRecursiveInternal()` does), whether it runs, waits to be tried again or gave
up, and whether an answer is in hand (`got`), which is handled 100 ms later. A
closed websocket rejects the loop after 500 ms, so an answer in hand is handled
first; one that fails rejects at once (`FailedLate`), and then the answer's
handler starts a new flow *beside* the loop that will be tried again (`Follow`).

## 3. Runs

Twelve runs. The last column gives the distinct states of those that hold; the two
that are violated each check one sentence of the repository's own comments.

| Run | Question | Bounds | Result |
|---|---|---|---|
| `routes` | Do all safety properties of a swap hold in both directions, and does it implement the ledger? | one operation of either route, two attempts per step, two plans, constraint `OneRoute` | holds (396 000) |
| `liveness` | Does every approval end, every worker rest, every `prepare()` get its answer? | one plan, fairness | holds (40 000) |
| `vault` | Can two swaps of one wallet be approved and open together? | two operations, one attempt, two plans, constraint `TwoOperations`, symmetry | holds (796 000) |
| `stranded` | Has every active swap someone who takes it further? | one operation | **violated** |
| `vault_ends` | Do interleaved calls keep the key, the password and the key rings right, and what survives the end of the worker or the browser between any two writes? | tab and popup, two passwords, two keys, two key rings, two ends | holds (1 911 000) |
| `interaction_modes` | Is each request watched, answered once, and vouched for only by its own page? | two requests in two windows, one of the wallet, one page opened by the user, one switch, two loops | holds (589 000) |
| `interaction_gone` | Is what a vanished panel showed refused in the end? | two requests of one window, fairness | holds (204 000) |
| `endpoint_consent` | Are only allowed endpoints used, and do consent, refusal and used chances survive checks, failing writes and restarts? | one chain with two preferences and one backup, another one that writes, three queued writes | holds (420 000) |
| `endpoint_checks` | Does the status tell what is used, and does every check end? | one chain with two services that fail apart and a backup of one, two queued writes, fairness | holds (29 000) |
| `executor` | Are the transactions of a swap sent once, in order and where the funds are? | three swaps (three chains; a bundle; an approval sent by the page), two windows, one end | holds (1 431 000) |
| `executor_interrupted` | Is an execution that ran at the end of the background over? | as `executor` | **violated** |
| `ibc` | Is what the record says true, is the user told of deliveries only, is every transfer followed to its end? | two packets, a transfer and swaps on each chain, two flows, one retry, one fault, fairness | holds (405 000) |

Why the bounds are enough to be of interest:

* Swap: two attempts are the fewest with which a transaction can be sent twice,
  and the second is reached only after a failure, a restart or a deletion of an
  unsent hash. Two plans let a stale review meet a newer one, and a pending
  `prepare()` meet a refresh. The two routes share no state but the queue of
  writes, so `OneRoute` runs one at a time. The proofs need none of these bounds. In
  `vault` the constraint leaves out what one operation of its own can show (the age
  of approvals, successful routes), and keeps what two do to each other.
* Vault: two key rings are one that the popup deletes and one that the tab adds
  meanwhile, or after the sign-out; two keys let that second sign-up draw another one.
  Two ends let a vault that one end has left half written meet another. Without an end
  the theorems hold for any number of key rings and keys; three key rings with two ends
  were checked once (8 264 000 states). `MaxSession` bounds only how many `lock()` calls
  wait for the session at once.
* Interaction: two requests are the fewest for which one answers for the other;
  two loops are the most that two requests start within half a second.

* Endpoint health: chains share nothing but the queue and the stored item, so
  one chain that is checked and another that only writes are enough for the
  write of one to capture what the other has not acknowledged. Three queued
  writes hold an opt-in, its rollback and the write of another chain. Whether checks
  end is a matter of one chain; two queued writes are a check's and the one of a choice
  of the user or of the check that follows.
* Executor: executions share the sequence of ids, the windows and "remove all".
  One execution of each of three plans reaches all of the code; two at once are
  many millions of states, and the theorems hold for any number. Two
  windows are the fewest that can both show the same blocked transaction. One end is
  enough for an older record to come back, with a history of another age. That an
  execution comes back twice was checked once (two ends, one window, 3 874 000 states),
  and the theorems hold for any number of ends.
* IBC: two packets are the fewest in which one is forwarded, the second fails
  and the refund goes back over the first. A late failure of a websocket makes
  one flow more, so two flows go with one fault. The safety properties were also
  checked once for three packets (758 000 states), and the theorems hold for any
  number of packets, flows, retries and faults.

`interaction_*`, `executor` and `ibc` run without the deadlock check: each
request, execution and transfer is made once, and when all are settled and the
bounds are used up, nothing is left to do. All other models never stop.

Type invariants and inductive invariants were checked by TLC too while the
models grew; the runs no longer repeat them where TLAPS proves them for every
instance.

Fairness: network calls answer or time out, storage serves its requests, timers
fire, messages arrive and the event loop runs what can run (weak fairness of
those actions). The user owes nothing, no transaction has to commit and no
packet has to arrive. In `Interaction` the fairness is that of each loop and each message,
so a panel that stays closed is noticed. In `EndpointHealth` a probe has a time
limit (its request is aborted), writes end, time passes and the alarm comes each minute.
In `IbcTracker` the chains include transactions, relayers bring packets or
their timeouts, and nodes answer: a websocket may close, but only `MaxTries`
times per flow as in `retry()`, and a flow that gave up is one of the outcomes that
`FollowedToTheEnd` allows. So is a record that the end of the background tore, and
a refund that came by the other kind of event (below).

### What the violated properties show

* `ActiveHasWorker` (`epix-swap/service.ts:657`): the status
  `waiting-for-deposit` is set after the last `guard()` and then stored. A lock during
  that store revokes the approval, `launch()` reschedules nothing, and the record
  stays active without anyone to advance it - what the comment at line 741 says
  must not happen. A refresh by the user still recovers it.
* `InterruptedIsOver` (`tx-executor/service.ts:123`): `cleanupOldExecutions()` is to fail
  what an end has interrupted (its comment at line 1076), but what it looks for, the
  status `PROCESSING`, is never stored. A resumed execution is dropped from the storage
  by a write that nobody awaits; when it fails or is lost, the old record comes back as
  waiting, without the hash of what was broadcast since, and can be signed and sent once
  more. `SentOnce` says that this is the only way to send twice, and that it costs one
  sending each time.

### Other disagreements

These came up while modelling. The models contain the behaviour, the properties are
stated so as to allow it, and no run is kept for it.

* Swap: `pause()` of a finished swap whose save fails makes it open again, beside a
  newer swap of the wallet. `OneActiveSwapPerVault` speaks of approved swaps, and does
  not show this.
* Vault: cipher, MAC and counter are three writes (`vault/service.ts:375`). A
  browser that closes between them leaves a vault that is signed up and that no
  password opens; the test at `vault/service.spec.ts:80` covers the complete
  writes only. `CurrentOpens` excepts the vaults that such an end has left (`torn`).
* Vault: `deleteKeyRing()` finds no key ring left (`keyring/service.ts:1147`) and
  calls `clearAll()`, "After deleting all keyring, sign out from the vault." as its
  comment says; that call awaits another check of the password before it clears
  everything, and a key ring that the registration tab adds meanwhile goes with the
  rest. TLC finds it when the same is asked of the sign-out; `KeepsWallets` says that
  nothing else loses one, neither before nor after the sign-out.
* Vault: a worker stopped inside `clearAll()`, after the memory was reset and before the
  session is cleared, starts again with the old key and an empty storage; a sign-up
  then draws another one (`torn` in `ReadableWhileOpen`).
* Vault: a `lock()` during the second check of the password in `deleteKeyRing()` leaves a
  signed-up wallet without key rings.
* Interaction: the success of a ping outlives the request it was about
  (`interaction/service.ts:377`), and a later request of the same window is refused
  as if its page had closed, though none was opened for it. A request that arrives
  while its side panel already answers is never marked as shown, so closing its web
  page rejects it under the panel. A page that answers a settled request waits for
  ever for `resolverV2Map`.
* Endpoint health: "a failed opt-in never opens probes"
  (`chains/endpoint-health.ts:387`) does not hold. The write of an opt-in fails; a
  write of another chain, queued meanwhile, has stored the pending intent; the rollback
  fails as well, its error is swallowed (line 389) and the user hears of the failure.
  The next start reads the stored intent as a consent. Until the background ends,
  `ClosedStaysClosed` covers such an opt-in too (`denied`).
* Executor: an execution with `preventAutoSign` "will be persisted to KVStore"
  (`tx-executor/types.ts:155`); only one that is blocked is (`service.ts:118`). One that
  is recorded or resumed and runs when the background ends is gone, even when every
  write was served, and its history keeps a link to it
  (`ibc-history-view/index.tsx:1489` then offers to continue what does not exist).
  `LinkIsLive` says that nothing but an end does this.
* Executor: what the tracker told is forgotten with an end of the background that loses
  the event on the bus, or starts with an older record of the execution; the tracker
  does not tell it again before the swap gets on (`lost` in `ArrivalIsKnown`). A late answer
  about the status erases the error that a failed execution left
  (`recent-send-history/service.ts:2122`); a broadcast that is accepted and whose
  trace fails removes the execution without a history; the removal of a chain
  removes histories and leaves their executions.
* IBC: a hop is stored as completed before its acknowledgement is read. The comment at
  `recent-send-history/service.ts:3376` speaks of undoing that provisional
  completion, but an end of the background in between shows a refused packet as a
  success, or leaves the record untracked (`Torn`, `ends` in `SuccessIsDelivery`).
* IBC: after a timeout the earlier hops are awaited as `timeout_packet`, while
  forwarding chains report them by an acknowledgement with an error
  (`OtherEvent`): such a refund is never followed to its end.
* IBC: a websocket that fails late makes two flows add the result of the same hop,
  and the view shows "Unknown" (`ResultsAreWhole` holds without such a failure); an
  end of the background between broadcast and record loses the transfer's tracking.

## 4. Proofs

TLAPS proves, for every value of the constants:

| Theorem | Says |
|---|---|
| `EpixSwapProofs!TypeCorrect`, `SwapInvariant` | `TypeOK` and `SwapInv` are invariants |
| `EpixSwapProofs!NothingForgotten` | `DispatchedIsRecorded`: a sent transaction that did not fail is known to memory, write and store |
| `EpixSwapProofs!NoStepTwice` | `AtMostOnce`: no step takes effect twice |
| `EpixSwapTruthProofs!RecordsAreTrue` | `TruthInv`: what memory, store and write say of the chains is true |
| `EpixSwapTruthProofs!SecondFollows`, `OutcomesAreTrue` | `SecondAfterFirst`, `OutcomeIsTrue`, across restarts, failed writes and lookups |
| `EpixSwapTruthProofs!LedgerIsImplemented` | `ImplementsLedger`: every step is a step of `SwapLedger` or a stutter |
| `EpixSwapTruthProofs!ConsentInvariant`, `SendsCovered`, `OneActiveSwap` | `ConsentInv`; `SendsAreAuthorized`: each broadcast is covered by a `start()`; `OneActiveSwapPerVault` |
| `EpixSwapTruthProofs!LookupInvariant`, `NoLookupIsLost` | `LookupInv`; `NoLookupOnReplacedRecord` (an action property) |
| `VaultProofs!VaultTypeCorrect`, `VaultInvariant` | `TypeOK` and `VaultInv` are invariants |
| `VaultProofs!LockHolds` | `LockOutlivesTheWorker` |
| `VaultProofs!WalletsAreKept` | `KeepsWallets` (an action property), over ends of the background, for any pages |
| `VaultProofs!OpenIsReadable`, `PasswordOpens` | `ReadableWhileOpen` and `CurrentOpens` while `ends = 0`, if `OneOfEach` |
| `InteractionProofs!TypesHold`, `LoopsWatch`, `FirstAnswerIsFinal` | `TypeOK`, `LoopWatches`, `FirstAnswerWins` |
| `InteractionProofs!OpenedIsTrue`, `PopupIsAwaited` | `OpenedWasMet`: a page that vouches for a request has met it; `PopupPending` |
| `EndpointHealthProofs!TypeCorrect`, `HealthInvariant` | `TypeOK` and `HealthInv` are invariants |
| `EndpointHealthProofs!UsesOnlyAllowed`, `StatusTrue` | `OnlyAllowed`: public endpoints are used and probed only while the user lets them be; `StatusIsTrue`: the status tells which are in use |
| `EndpointHealthProofs!ConsentStored`, `ClosedForGood`, `ChanceOnce` | `ConsentIsStored`, `ClosedStaysClosed`, `ChanceUsedOnce`, over queued and failing writes and restarts |
| `TxExecutorProofs!TypeIsInvariant`, `ExecInvHolds` | `TypeOK`, and `ExecInv` with `FoundInv`, are invariants |
| `TxExecutorProofs!NothingIsSentTwice`, `TransactionsAreInOrder`, `FundsAreThere` | `SentOnce`, `SentInOrder`, `SentWhereArrived`, for any plans, windows and restarts from records of any age |
| `TxExecutorProofs!ArrivalReachesExecutor`, `LinksAreLive` | `ArrivalIsKnown`; `LinkIsLive` (an action property) |
| `TxExecutorProofs!WaitingIsFound` | `BlockedWasRecorded`, for the plans that the swap page makes |
| `IbcTrackerProofs!TypesHold`, `TrackerInvariant` | `TypeOK` and `TrackerInv` are invariants |
| `IbcTrackerProofs!RecordStaysTrue`, `ToldOnlyOfDelivery`, `SuccessIsTrue` | `RecordIsTrue`, `ToldOfDelivery`, `SuccessIsDelivery`, for any number of packets, flows and faults |
| `IbcTrackerProofs!TransfersAreTracked`, `ResultsAreCollected` | `Tracked`: an unfinished transfer is watched; `ResultsAreWhole`: each result is collected once |

They rest on the assumptions on constants alone, which TLC evaluates in every
run: that `VaultOf`, `WindowOf` and so on are functions of the right kind, that the
special values (`Locked`, `Popup`, `None`) are not members of the sets they
are kept apart from, and that bounds are natural numbers. `PageAssumption` of
`TxExecutor` is what the swap page, its only caller, sees to: the chain of the first
transaction is executable, and that transaction is signed or sent already when
the user must sign by himself (`ibc-swap/index.tsx:868`, `:961`).

**Swap.** `AtMostOnce` is not inductive: a second attempt is signed only
because the first is not recorded anywhere. `DispatchedIsRecorded` says that it is
recorded, but a failed write may leave the store behind memory, and a later write
may run ahead. `SwapInv` therefore follows a hash through the three places:
while a transaction is live, its hash is in memory (`MemoryRecords`), in the write
under way and in the store (`StoreInv`). It gets there because the worker
waits for *its* write before it broadcasts (`OneWriteOfWorker`, `WriteHasHash`)
and the attempt is unsent until then (`UnsentWhileRecording`); it stays
because no one removes a hash that is not resolved (`LookupHasHash`,
`NothingToResend`), for which a lookup must be alone on its record
(`Exclusive`). `Unread` is the one exception, a store that could not be read:
memory is empty and no operation runs. Most actions change few of these
variables; `EpixSwapLemmas` states once what each kind of step preserves, and
`EpixSwapProofs` has one lemma per action.

`EpixSwapTruth` adds three invariants that rest on `SwapInv`. `TruthInv`: each flag,
cached proof and outcome, in memory, write and store, is a claim that the chains
never take back (`Truthful`, `ProofsHold`), and the hash of a first step is never
deleted, not even when it failed (`FirstIsRecorded`), so that a failed swap stays
failed. That the second step follows the first (`TurnInv`) is then what `run()`
checks. `LedgerIsImplemented` maps each action to a step of `SwapLedger` or a
stutter: a broadcast to its sending, a finished record to its outcome, and here
`TruthInv` supplies what the abstract guard asks for. `ConsentInv`: an approved operation
may still send each step whose hash is zero or under way (`Covered`), which is what
`SendsAreAuthorized` needs to survive the next broadcast; that the worker sends only for
an open operation (`SendsOpen`) keeps `pause()` from opening a second one under an
approval. `LookupInv`: while a record is in use, its flags come with the proofs
that `observe()` asks for (`FlagsProven`), so a lookup under way means something
is unresolved (`LookupUnresolved`), and `start()` compares with a plan that has nothing
unresolved (`PlansResolved`).

**Vault.** `LockOutlivesTheWorker` speaks of a moment when the session has
served everything. `LockedInSession` says how it gets there: while the vault is
locked, either a removal of the key is queued and nothing behind it sets the
key, or the session is already closed and nothing queued opens it. Keeping this
through `unlock()` needs that a call waits for one request at a time
(`WaitsForOne`), and through `End` that requests are lost together.

`KeepsWallets` holds whichever pages create and delete key rings at once. Every change
stores a snapshot of all vaults that nobody awaits, so `Kept` compares snapshots: what
is stored is in every snapshot under way, and what is in one is in all behind it, but
for what was removed. Ids are new (`IdsNew`, `IdsMade`), or a removal would excuse the
loss of another key ring. The sign-out itself is a step of its own kind (`SignsOut`):
that it may take a key ring with it is a disagreement of section 3.

`ReadableWhileOpen` and `CurrentOpens` need `OneOfEach`: one registration tab, one
popup, each with one call at a time, as the interface offers them: their theorems have
that hypothesis. `KeyInv` relates
memory to what is stored *behind all writes under way* (`OneKey`), which is what
a read will find. For each point where a call stands or will resume it says what
the call still knows: `signUp()` works on an empty and locked vault and has read nothing
of it (`SignsUp`), what `unlock()` has read is the key and stays it, and what
`changeUserPassword()` encrypts anew is the key in memory (`HoldsKey`). Two calls meet only
when the popup removes the last key ring and the tab opens a new vault; `ClearsAlone`
shows that they cannot, because a vault just signed up has nothing to remove. These
two theorems end with the background. What both properties say of a vault after ends,
as long as it is not `torn`, is checked by `vault_ends` only.

**Interaction.** `LoopWatches` is inductive with `TypeOK`: a loop is started by the
request that finds none waiting, a loop ends only in a state where none waits
(`NextWindow`), and enabling the panel rejects everything first.
`FirstAnswerWins` is an action property; it needs `TypeOK` and, for every way a
request is refused, that `Refuse` touches waiting requests only (`RefuseTypes`).
`PopupPending` is inductive with `TypeOK`. `OpenedWasMet` is not: a ping marks requests
as shown that it captured before it was answered. `OpenedInv` follows them: a ping
is for requests that waited in its window (`AskedInWindow`), and a page that
answers pings of a window has met what waits there (`AnsweringMeets`), since it
fetches before it answers and requests that come later are told to it.

**Endpoint health.** A restart reads the store, and what is in the store by then is
any of the queued writes. So `HealthInv` says of every promise that the record,
the store *and every queued write* keep it (`ConsentKept`, `ClosedKept`,
`SpentKept`). What makes them true is that a promise is given only by the end of a
write; `ChoiceWaits` and `FlightWaits` say that until then that write and all
behind it carry the choice, and that the record has not taken it back - or the write
is no longer `current` and nobody is told. What only memory knows to be closed (`denied`)
is the exception: its store may say otherwise, and a restart ends the promise.
`OnlyAllowed` also needs, for a
flight between two probes, that what it has selected is still allowed
(`UsesAllowed`): whatever changes that ends the flight.

**Executor.** A start may read executions and histories of any age, so `ExecInv` says
what it needs of the stored records too (`SavedSound`: one is a record of this
execution that waited), and speaks of the past by what an older record cannot forget:
`AllBefore` asks for transactions that were *ever* confirmed (`proven`). `RunsSound`,
`BlockedInOrder` and `WindowsSound` say that a run, what waits and what a window shows
stand behind such transactions only. That is the reason why neither a stale
window nor a stale record breaks the order: `executeTxs()` skips a transaction that
is confirmed by now, refuses to run beside itself, and what comes back older is what
once waited in its turn. `SentSound` is what keeps it from being sent twice: what was
sent as often as the ends of the background allow is `Spent`, that is, confirmed, failed,
being traced or out of reach; a step that makes a transaction sendable again is an end, and
increases `back`. `ExecutableSound` bounds what may be sent by what the page asked for
and the tracker told, in memory, on the bus and in the storage. `LinkIsLive` is
proved for steps, from `HistorySound` and `ListedSound`: a history is linked only when
its execution is recorded as blocked, and an execution goes together with its link or
as failed. `BlockedWasRecorded` would fail for arbitrary plans: a first transaction that
blocks leaves nothing to record. `FoundInv` says that a run has a history, or has earned
one by a confirmed transaction on an executable chain, or is at the first transaction,
which does not block by `PageAssumption`; it holds of stored records since those have
a history already.

**IBC tracker.** The chains only ever move forward (`ChainInv`), so what a flow has
in hand (`FlowInv`) and what a record says (`RecordIsTrue`) stays true once it is; the
proof carries that through every step that changes a record and through each
snapshot on its way to the storage. `SuccessIsDelivery` needs that completion and
acknowledgement of a hop are read in one handler: without an end of the
background no record is `Torn`. `ToldInv` counts notifications against starts.
`Tracked` is about flows that hand over to one another: `FlowShape` says that each
flow is about a place that the record has reached (`Shape`), so when a flow comes
to rest, the record that it leaves is at its end, or the next flow has started in
the same step, from every snapshot that a start may read. `ResultsAreWhole` assumes no
late failure and no end; `ResultInv` shows that one flow is under way then (`Alone`) and
that the record has the results of exactly the hops behind it (`Collected`).

**Only model-checked.** `ReadableWhileOpen` and `CurrentOpens` after an end of the
background, for two pages and two ends (`vault_ends`). All liveness (`ApprovalEnds`, `WorkerRests`, `ResumeAnswered`, `GoneIsRefused`,
`CheckEnds`, `FollowedToTheEnd`), which the prover does not handle under fairness.

## 5. Limits of the models

* Swap: a store of which only some records can be read is loaded or refused as a
  whole; amounts, fees and routes are not modelled; `network.ts` and `packet.ts`
  are the environment.
* Vault: one registration and one popup at a time, as the interface offers
  them; two concurrent `signUp()` or `changeUserPassword()` calls would leave the MAC of
  one with the cipher of the other. `ReadableWhileOpen` is claimed until a worker was
  stopped inside `clearAll()`, and `CurrentOpens` until then or until an end came between
  the writes of a password (section 3). The insensitive part of a vault, its decryption cache, and the
  selection are left out.
* Interaction: the end of the background while requests wait, overlapping
  `refreshData()` calls, the `waitApprove()` without `returnFn` (which is
  a part of the other), and a browser that refuses to open a popup are left out.
* Endpoint health: a probe is one of its outcomes, tokens are compared and
  nothing else, back-off times, revisions and generations are left out. When the
  background stops before the user has heard of a failed opt-in, nothing is claimed of
  it.
* Executor: executions of type `UNDEFINED` (no history), amounts, fees, how a
  transaction is signed and broadcast per kind of chain, the tracking of what the last
  transaction pays out, and the older tracker of swaps over Skip are left out. The
  counters of ids are taken as stored.
* IBC tracker: one record; the hops of a SwapV2 record that are found on the way,
  chains that are removed, amounts and receivers are left out. The way back of a swap
  stops at its contract only if the answer contains the event of the packet
  (`recent-send-history/service.ts:3182`); an answer found by that event does.

Hazards that no property covers:

* `epix-swap/service.ts:376`: a hash that was stored before a broadcast that never
  happened stays unresolved; the swap waits for the user, and no property says
  that he can always leave it.
* `epix-swap/service.ts:156`: `init()` stops at the first record it cannot read, and the
  records before it stay loaded.
* `epix-swap/service.ts:576`: `pause()` reopens a finished swap (section 3).
* `vault/service.ts:124`: after an end between the writes of cipher, MAC and counter no
  password opens the vault; `CurrentOpens` excepts it (section 3).
* `vault/service.ts:109`: two concurrent `signUp()` or `changeUserPassword()` calls
  (the interface offers one registration at a time).
* `tx-executor/service.ts:89`: a counter of ids whose write is lost gives an id again,
  and the next swap replaces the execution that has it.
* `interaction/service.ts:221`: answering a settled request registers a resolver
  that nothing calls.
* `stores-core/src/core/interaction/interaction.ts:98`: overlapping `refreshData()` calls,
  of which the slower one can bring back an older list.

### Not modelled

`PROJECT.json` lists every component with its reason. They are of four kinds.
Signing, formats, key derivation, numbers and amounts are functions over data
that a model of this size can only restate. Registries (tokens, settings,
permissions, phishing list, enabled chains) are one map each, written through
in one step between two `await`s. Stores, hooks and pages show what the background keeps; where a
page takes part in a protocol - the windows of the executor, the popup and panels
of the interactions, the swap page - it is part of that model. Routers, providers and
key-value stores are the environment: their order is in every model, and so are the writes
that fail or are lost with the background in all models that store something.

## 6. Plan

Modelled, checked and proved so far: the swap service, the vault, the
interactions, endpoint health, the transaction executor with the swap histories,
and the IBC tracker. What is left, the most valuable first:

1. Proofs: `ReadableWhileOpen` and `CurrentOpens` of `Vault` over ends of the background (`KeyInv` for a
   vault that an end has left half written, with the session).
2. An abstract `Keychain` (a set of key rings behind one password, open or closed)
   that `Vault` is shown to implement, with the automatic lock and the migration of
   `KeyRingService` on top.
3. `Permission` on top of `Interaction`; updates of chain infos.
4. Extensions: a partly readable store in `EpixSwap!Restart`; overlapping
   `refreshData()` in `Interaction`; the hops found on the way in `IbcTracker`; lost counters
   of ids in `TxExecutor`.
