# BitLogin in TLA+

BitLogin logs a user in to Nostr with a login name and a password, without a server.  Everything an
account is — its key, its recovery key, its wallet connections — is encrypted into *capsules* and
stored on public Nostr relays, at addresses derived from the password or from a recovery phrase.
Nobody coordinates the relays: each keeps, per address, the event that wins the NIP-01 replacement
order among those it happened to receive.  What makes an account safe is therefore the *order* in
which clients publish, the evidence they wait for, and what each device remembers.  That is what
these modules are about.

All paths below are relative to `src/packages/`; `core` stands for `core/src`, `widget` for `widget/src`.

## Inventory

| component | state | operations | what is hard | what makes it correct |
|---|---|---|---|---|
| vault relays (`core/nostr/pool.ts`, `core/account/publish.ts`, `repair.ts`, `core/nostr/nip09.ts`) | per relay, one event per address | publish and verify, quorum read, repair, deletion request | delivery is late, reordered, repeated or never; a publish that failed was sent all the same | what is verified is found again, whatever is lost or late |
| registration (`core/account/create.ts`) | none | `registerAccount` | the collision check is a read; failing or dying between two capsules | a credential never exists before its recovery capsule; one owner per address |
| login and generation mark (`login.ts`, `highWaterMark.ts`, `capsuleReader.ts`) | per device and account, highest generation seen | `loginWithPassword`, `raiseHighWaterMark` | the mark is read and written in two awaits | the mark only rises; the owner is not refused |
| password change (`changePassword.ts`) | none | `changePassword` | tombstone before or after the successor, two devices at once | never locked out; what is retired stays retired |
| recovery (`recover.ts`, `exportImport.ts`) | the recovered identity, in memory | `recoverWithPhrase`, `completeRecoveryWithNewCredentials` | retries after half a success | no siblings in the recovery chain; a retry is possible |
| enabling the vault (`enableVault.ts`) | none | `enableConnectionVault` | two capsules change, one after the other | one vault root per account, ever |
| connection records (`core/vault/sync.ts`, `session.ts`, `recordHighWaterMark.ts`) | per device and connection, a protected and a legacy mark | list, save, rebind, delete | marks migrate and rise in several awaits; listings come from whoever answers | a listing never goes back; a verified edit is neither lost nor overlooked |
| relay connection (`core/nostr/relay.ts`) | a socket, its connect promise, subscriptions, pending publishes | connect, query, publish, subscribe, close, AUTH | events of an old socket, timers, silent relays | one live socket; every call ends; client and relay agree on the subscriptions |
| remote signer (`core/nostr/nip46.ts`, `widget/signers/nip46.ts`, the `nip46` actions of the worker) | the adopted client, the pending QR attempt, ephemeral keys | start, await, connect, sign, disconnect | two legs and a user race, minutes apart; late answers | a key has one owner until it is wiped; no answer is taken for a closed client |
| crypto worker (`widget/worker/cryptoWorker.ts`, `serialQueue.ts`) | the unlocked session, the recovered identity | register, login, recover, complete, change, restore, sign, logout, one at a time; signer actions outside the queue | relay and storage work between a call and its effect; calls posted meanwhile | calls take effect in the order they were made; a logout is final |
| worker client (`widget/worker/workerClient.ts`) | pending calls with a timer each | call, timeout, worker error, terminate | a call that timed out still runs | every call ends; an answer says what happened |
| session cache (`widget/worker/sessionCache.ts`, `widget/publicSession.ts`, `storage/indexedDbStore.ts`) | encrypted record, device key, public record; shared by all tabs | save, restore, clear | two tabs at once, failing storage, dying between two writes | what is unlocked is what a reload brings back; no record is orphaned by another tab's key |
| widget element (`widget/element.ts`, `globalSession.ts`) | screen, session, pending confirmation, wallet request and offer | the user's clicks and forms, the host's calls, dialogs, answers | a handler resumes after an await on whatever is there by then | no promise of the host is dropped; no other account signs for the one that is shown; a request follows the sign-in it waits for |
| passkeys, browser extension, wallet chooser (`passkey.ts`, `signers/nip07.ts`, `vault/bitcoinConnect.ts`) | an open dialog | ask, answer, cancel | they answer late | part of the element's model |
| headless signer, provider, wallet URIs, cryptography, formats, demo | – | – | wrappers, pure functions | out of scope, see below |

The widget's worker calls one flow at a time; a flow opens a `RelayPool`, reads, builds capsules,
publishes them one after the other and throws at the first publish that cannot be verified.  Flows of
different tabs and devices share nothing but the relays; tabs of one browser profile also share the
key-value store that holds the marks.  `PROJECT.json` lists the hazards found in this code, each at
its line, with the properties that cover it or the reason none does.

## Modules

    RelayNet <- AccountState <- Registration <- PasswordFlows <- PhraseFlows <- Account <- MCAccount
                                                                                Account <- AccountProofs
    RelayNet <- VaultSync <- MCVaultSync
                VaultSync <- VaultProofs
    RelayConnection <- MCRelayConnection
    RelayConnection <- RelayProofs
    SignerSession <- MCSignerSession
    SignerSession <- SignerProofs
    WorkerClient <- SessionCache <- WorkerSession <- MCWorkerSession      (WorkerSession implements SerialSession)
                                    WorkerSession <- WorkerProofs <- WorkerRefinement <- WorkerSafety
    WidgetState <- WidgetSignIn <- WidgetVault <- Widget <- MCWidget
                                                  Widget <- WidgetProofs

`A <- B` reads "B extends A".

* **RelayNet** – the relays as a client sees them.  `sent` is every event that was ever broadcast;
  `held[r]` is what relay `r` stores.  `Deliver(r, e)` may happen to any event of `sent`, at any
  time, any number of times or never: this is loss, delay, reordering, duplication and the
  rebroadcast of `repairReplicas` in one action.  `Purge` is a relay acting on a NIP-09 request.
  `Wins` is the replacement order with its same-second rule, `NextCreatedAt` the monotonic
  timestamp (`timestamp.ts`), `IsQuorum` the half of the relays `queryQuorum` waits for, `CanVerify`
  what `publishAndVerify` must have seen to report success.
* **AccountState** – the capsules (kind, address, account, generation, predecessor, vault root), the
  progress of a flow (`job[c]`, whose `pc` is the await it is at), the generation mark, giving up
  and crashing.
* **Registration**, **PasswordFlows**, **PhraseFlows** – one action per segment of a flow between
  two awaits at which something can happen: `BeginRegister`, `RegisterRecoveryOk`,
  `RegisterCredentialOk`; `BeginLogin`; `BeginChange`, `CheckNew`, `ConfirmChange`; `Recover`,
  `BeginComplete`, `CompleteRecoveryOk`, `CompleteCredentialOk`, `Reset`; `BeginEnable`,
  `ReadRecovery`, `EnableRecoveryOk`, `EnableCredentialOk`.  A comparison of generations, a check of
  the new address or an early return of the code is a guard of the action.
* **Account** – composes the flows, and states the properties.
* **VaultSync** – connection records on the same relays: `Fetch`, the judging of each fetched event
  against its mark (`Check`, or `CheckLegacy`, `MigrateSet`, `MigrateDelete` for a mark of an earlier
  version), `RaiseGet`, `RaiseSet`, then `Finish` or `Edit`, `Save`, `Confirm`, `GiveUp`, `Crash`.
* **RelayConnection** – one `RelayConnection` object and the sockets it opens one after another.
  `ws`, `promise`, `subs` and `pending` are its fields; `sock[s]` and `heard[s]` are a socket and what
  the relay has from it.  A call is `Join`, `UseOpen`, `UseFailed` or `Connect` (the four things
  `connect()` may find); it then goes on when its socket's `Open` releases it (`Proceed`), and ends by
  `AnswerOk`, `AnswerEose`, a timer or a failed connection.  `CloseEvent` comes any time after a
  socket began to close, and clears the promise of whichever socket is current, as the code does.
* **SignerSession** – signing in with a remote signer.  The page's variables are `element.ts`'s
  (`screen`, `code`, `busy`, `preview`, `session`), the worker's are `slot` (`nostrconnectPending`),
  `nip46`, and per leg the client's `stage` and its ephemeral `key`; `using[l]` says whose key a leg
  uses, since `nip46NostrconnectAwait` listens for whatever attempt is pending when it is served.
  Page and worker exchange messages over two ordered channels; every worker action is split at its
  awaits (`Connect`, then `Adopt` or `ConnectFailed`; `NostrconnectAwait`, then `Echoed` or
  `ListenFailed`, then `Adopt` or `ConnectFailed`).  A signature request has two waits, as `rpc` has
  (`nip46.ts:299-309`): for the signer's answer (`Answered`, or `Refused`), and for every relay to
  settle the publish (`Published`), which may end after the answer, or after the client was closed.

* **SerialSession** – what a page may rely on, in seventy lines: calls are served one after the other,
  in the order they were posted; a call changes the session once or not at all, before its answer, and
  the answer says which.
* **WorkerClient**, **SessionCache**, **WorkerSession** – the pages of one origin, each with a worker,
  over one database.  `job[t]` holds the calls tab `t`'s worker has not answered; a call's `pc` is the
  await it is at and `awaited` says that its promise is still there.  `Post`, `TimeOut`, `WorkerError`
  and `Reload` are the page's; `Login` (and registering), `Recover`, `CompleteRecovery`,
  `ChangePassword`, `Sign`, `RestoreSession` and `Logout` begin a handler when the queue lets them
  (`Turn`); the steps of SessionCache are one database transaction each, which may succeed, fail, or never settle
  (`Hang`): `indexedDbStore.ts` listens for `complete` and `error`, not for a transaction aborted at its
  commit, nor for an opening that is blocked.
  `ServesInOrder` states that each worker implements SerialSession, with `job[t]` for the calls and
  the unlocked key for `who`.
* **WidgetState**, **WidgetSignIn**, **WidgetVault**, **Widget** – one `<bitlogin-auth>` element.
  JavaScript runs a handler to its next await without interruption, so the handlers' parts are
  functions of the element's state (`Goto`, `FinishVaultRequest`, `ContinueVaultRequest`, ...) and an
  action applies one.  `Goto` has the code's two hooks, by which a wallet request takes over the
  dashboard and welcome.  `calls` are the worker's to answer, in order (SerialSession), and an answer
  is received with everything its handler does up to the next await.  `prompts` are the browser's
  dialogs.  `open` is the set of promises a host page holds.

### How the modules fit together

`Account` and `VaultSync` say what a call does on the relays; `WorkerSession` takes their outcome (a
call finds its account or is refused) and adds what the worker keeps and saves; `SerialSession` is
what is left of that for a page, and `Widget` is a page over it.  `RelayConnection` gives the deadlines
that the fairness of the others rests on.

### What the models abstract

* One read of the relays, with all its timeouts, is one step: some set of relays answered, with
  what they then held.  So is one verification (acknowledgements and readbacks).  Between two awaits
  of this kind the relays and every other client may move.
* `publishAndVerify` may succeed only when enough relays have acknowledged and enough hold the event;
  it may always fail, since each answer may be lost.
* A failure that changes nothing the model keeps is no step (a refused login); one that ends a flow
  half way is `GiveUp`.  The `TypeError` of `enableVault.ts:205-208` (a credential with a root, a
  stale recovery capsule without) ends a flow the same way.
* Cryptography is ideal: a password or a phrase determines one address, and a capsule decrypts for
  who knows its key.  Event ids are numbers, unique per address; when timestamps tie a new id may
  fall on either side of the old ones (`FreshIds`), as a hash may.
* Clocks: with `Skewed` a flow may read any value of `Clock`, ahead of or behind any other; without,
  a user starts a flow only after the timestamps in use have passed.
* The deletion request travels with its tombstone (`link` names the event it is about).  The recovery
  generation stored with the mark is never compared by the code and is left out.
* `Reuse = FALSE`: a password change takes a fresh password, as the widget does, which generates it
  (`widget/element.ts:1521-1525`).  The library itself would let a caller go back to a retired
  password; a tombstone of its first life could then arrive and destroy it.
* In `RelayConnection`: the delivery of EVENT frames with its verification budgets, and AUTH.  `error`
  and `close` of a socket that never opened are one step.  The owner is one the code has: it uses the
  connection, closes it, and publishes at most one courtesy event afterwards (`nip46.ts:409-420`).
  A query ends as answered even when its CLOSE cannot be sent.
* In `SignerSession`: every leg reaches a signer of its own, so a leg also names an identity.  The two
  requests of a paste leg (`connect`, `get_public_key`) are one wait.  The page's own timeouts (260 and
  320 seconds, `workerClient.ts:45-46`) are above the worker's deadlines for these calls and never
  come first.  Encrypting and decrypting take the path of signing.  `auth_url` is left out.
* In `WorkerSession`: what a sign-in does on the relays is `Account`'s subject.  Capsules and device
  keys are numbered as they are made (`count.made`), so that an old record can be told from a new one.
  An answer is received in the step that sends it: what a page does in between it may as well have
  done before.  A page offers no second sign-in, rotation or restore while it waits for one, as the
  widget's forms do not.  A database whose opening fails (which `indexedDbStore.ts:30` remembers for
  good) is a database all of whose operations fail; one whose opening is blocked makes the first
  operation of a call hang.  `count` holds what the bounds and the properties need: calls, faults, who
  has used the database, whose storage hangs.
  `signedOut` says that a logout had the database to itself and nobody has signed in since: it is
  what the property about logging out is stated with, and no action reads it.
* In `Widget`: accounts are identities; a login name and a password are the identity they open.
  Whether an account has a vault is chosen when it is unlocked.  A passkey sheet and the wallet
  chooser cover the page, an extension's window does not.  A handler's answers that only change what
  is written on the screen are no step.  `offerInFlight` is that an offer's promise is open.
* In `VaultSync`: `known`, in a job, is a history: the edits verified before a read that more relays
  answered than can be without them (`Overlaps`).  No guard reads it.  Left out are sudo tiers,
  malformed marks and the paging limit of 500 records.

## Runs

Three relays, two acknowledgements and two readbacks (the floors of `publish.ts`) are the smallest
instance where a quorum is not everybody, a success is not everywhere, and one relay can be stale.
`MaxWrites` and `MaxEdits` bound how many writing flows start, never how they interleave: two writers
are enough for a race, a failure followed by a retry, or a flow on top of a half-finished one.

In `worker_session` three calls, made by two tabs in any division, are enough for one call to be
posted behind another and a third to find what both have left, or for a logout between two saves; one
fault is a failed storage operation, one that never settles, or a reload, at any point of them.  Timers
may fire at any time and are not bounded.  One identity is enough there, because records are told
apart by their capsules; with two, liveness is out of reach, and the safety properties are proved for
any number.  In `widget` a session is as long as one likes: what is bounded is the number of calls
outstanding at once (`MaxCalls`; two let a host's call or a silent restore overlap a form) and of the
host's wallet promises and faults together (`MaxEvents`).

Deadlock is not checked: at the bound every flow may have ended and the relays may have nothing left
to deliver.

| run | question | instance | outcome |
|---|---|---|---|
| `phrase` | registering and recovering, failing, dying and retrying on one device; does every flow end? | 2 accounts, 2 passwords, 2 writes, crashes | `TypeOK`, `RecoveryBeforeCredential`, `AddressHasOneOwner`, `NoRecoverySiblings`, `EveryFlowEnds` hold |
| `rotation` | two devices change one account's password and log in at the same time | 3 passwords, 2 writes, skewed clocks, acknowledged rollbacks | `NeverLockedOut`, `SuccessorDurable`, `RetiredStaysRetired`, `MarkOnlyRises` hold |
| `vault` | one device enables the vault, changes the password, recovers (from an export too) and dies | a legacy account, relays that obey deletions, 2 writes | `OneVaultRoot`, `NeverLockedOut` hold |
| `vault_records` | one device lists, saves, rebinds and deletes connections, with migration and crashes | 2 connections, 3 records, 3 relays that obey deletions | `TypeOK`, `LastEditDurable`, `EditsFollowTheirRead`, `NeverShownStale`, `QuorumReadsEveryEdit` hold |
| `relay_connection` | what is left behind when sockets drop, stay silent and close late? | a publish, a query, a live subscription, a courtesy publish; 3 sockets | `TypeOK`, `OneLiveSocket`, `SubscriptionsAgree`, `RegistrationsHaveOwners`, `SilenceIsNoAnswer`, `EveryCallEnds` hold |
| `signer_session` | who owns each ephemeral key, and whose answers are taken? | 2 QR codes, 2 pasted addresses, 1 signature | `TypeOK`, `NoOrphanKey`, `OwnKeyIntact`, `OneClient`, `OnlyTheCurrentIsAnswered`, `EveryLegEnds` hold |
| `worker_session` | what do pages and the database agree on when calls overlap, fail, hang, time out and tabs reload, and does every call end? | 2 tabs, 1 identity, a session left by an earlier visit, bounds `MaxCalls` and `MaxFaults` | `TypeOK`, `PageAgrees`, `UnlockedIsSaved`, `LoggedOutStaysOut`, `RecordReadable`, `ServesInOrder`, `EveryCallEnds` hold |
| `widget` | are the promises of the host kept, and does another account ever sign for the one shown, whatever overlaps? | 2 accounts and an extension, 2 calls outstanding, 2 wallet promises or one and a fault | `TypeOK`, `PromisesKept`, `NoOtherAccountSigns`, `AskedFollowsSignIn`, `PhraseUnlessAsked` hold |
| `failed_change` | does the old password still work after a change that failed? | one device | **violated**: `OwnerNotRefused` |
| `recovery_retry` | can a failed recovery be retried? | one device, two attempts | **violated**: `RecoveryRetryable` |
| `signed_as_shown` | does the worker sign with the identity the page shows? | 1 QR code, 1 pasted address | **violated**: `SignedAsShown` |
| `shown_signs` | does the account that is shown sign? | 1 account and an extension | **violated**: `ShownSigns` |

The violated properties are statements of the code's own comments and messages; `PROJECT.json` quotes
each under `findings` and describes the trace.

`NoOtherAccountSigns` says who signs for a host that calls the element, the extension included
(`Signs`): the account shown or the extension, never another account.  That it is the account shown is
`ShownSigns`, and fails.  Edits of one connection on two devices race by the replacement order, which
`docs/connection-vault.md:308-309` accepts; `EditsFollowTheirRead` is what such a race leaves true.

`PageAgrees` and `NoOtherAccountSigns` leave out calls that timed out: the page has been told of a failure
and the worker may still succeed, which is what a timeout is.  `LoggedOutStaysOut` leaves out failing
storage and the calls that another tab makes while the logout runs.

### Demonstrations

Beside the runs, `vault_writers.cfg` (module `MCVaultSync`) checks `EditsFollowTheirRead` with two tabs
that edit one connection on a shared store at the same time; it holds.  Its view leaves out `shown`,
which neither the property nor any guard reads.  The other seven configurations end in a trace that
shows where a promise of the code ends; `tlc -config X.cfg M` prints it.

| configuration, module | violates | what the code says | what it does |
|---|---|---|---|
| `phrase_skipped`, `MCWidget` | `PhraseBeforeDashboard` | `element.ts:1184-1191`: "MANDATORY recovery ceremony", "Sign-in is dispatched only once the phrase is verified" | a `requestNwcConnection` of the host, asked while the phrase is shown, takes over the screen; cancelling it, or sharing a wallet, leads to the dashboard (`element.ts:475`) of an account whose phrase was never verified and of which the host has not been told |
| `signed_after_logout`, `MCSignerSession` | `OnlyTheCurrentSigns` | `cryptoWorker.ts:293-295`: close() "immediately rejects every pending request and wipes keys -- nothing can resolve after logout begins" | an answered request has left `pending` (`nip46.ts:259`) while `rpc` still awaits the publishes to every relay (`nip46.ts:299`); a logout then finds nothing to reject (`nip46.ts:427-431`), and `signEvent` resolves when the publish has settled |
| `full_disk`, `MCWorkerSession` | `SavingBreaksNoCall` | `sessionCache.ts:103-105`: "a full disk or a browser blocking IndexedDB (some private-browsing modes) shouldn't break the login/register/rotate call that triggered this" | a transaction aborted at its commit fires neither `complete` nor `error` (`indexedDbStore.ts:49-50, 59-60, 90-91`): the worker has unlocked the session, the login is never answered, the page reports a timeout, and the queue serves nothing more until a reload |
| `half_quorum`, `MCVaultSync` | `QuorumReadsEveryEdit` | `session.ts:278-284`: below quorum a listing is refused, since "a short listing looks identical to "you have no connections""; `nostr.test.ts:401`: "reports quorum met when a majority of relays respond" | half of the relays is a quorum (`pool.ts:55`) and two replicas verify an edit (`publish.ts:32`): with four relays, or the eight of `bootstrap.ts:55-64`, the two need not meet |
| `record_mark_two_tabs`, `MCVaultSync` | `MarkKeepsMaximum` | `recordHighWaterMark.ts:162`: "Keeps the NIP-01-canonical maximum" | one tab lists a record and is about to raise its mark; another edits it, and raises the mark to the edit; then the first writes its older one |
| `mark_two_tabs`, `MCAccount` | `MarkOnlyRises` | `highWaterMark.ts:24`: "keeping the maximum ever seen" | a login reads the mark; another tab changes the password and raises it; the login writes last, and the retired generation is no longer refused |
| `retired_returns`, `MCAccount` | `RetiredStaysRetired` | `docs/spec.md:1780`: "Every capsule replacement and tombstone is retained by a compliant relay even when the device clock is up to five minutes slow" | a password change and, from a replica its tombstone has not reached, an enabling of the vault on another device are stamped after the same event (`enableVault.ts:267`): the rewritten old capsule may displace the tombstone |

`MarkOnlyRises`, `RetiredStaysRetired` and `QuorumReadsEveryEdit` hold in a run and fail here, which is
the point: a store per client or a shared one, with changes only or with enabling, three relays or
four.

### Known behaviours that nothing here shows

* With four relays or more the half that satisfies the collision check can be the half without a
  replica: `AddressHasOneOwner` does not hold there, for the reason `half_quorum` shows of a listing.
  Two devices that pass the check before either publishes leave the owner to the NIP-01 order.
* A tab that dies between the deletes of a logout (`cryptoWorker.ts:695-696`) leaves the public record:
  a read-only page shows an identity nobody is signed in with, until the next login or logout.
* A wallet question that a late answer covers (a rotation, say) stays pending and refuses every
  further one until the user goes back to welcome or logs out; a late reveal settles whichever request
  is pending by then.

### Fairness

`FairSpec` makes the next step of a flow under way weakly fair, for each client.  The code justifies
it: every await of a flow is bounded by a timeout of `relay.ts`, after which the flow continues or
throws.  Nothing is assumed of the relays (they may never deliver anything) and nothing of users (no
flow need ever start).

`RelayConnection` assumes that timers fire and that a closing socket reports it; not that a socket
opens or a relay answers.  `SignerSession` assumes that both event loops take their messages, that the
deadline of each wait fires (`nip46.ts:289-292`, `478-486`) and that every publish settles, by the
timer of `relay.ts` if not by the relay; not that a signer answers.

`WorkerSession` assumes that the timers of a page's calls fire (`workerClient.ts:131-134`), and that a
worker goes on with what does not hang (`Serve`): a storage transaction that settles, a key derivation,
or a relay with a deadline.  Nothing is assumed of storage, which may fail or never settle, nor that
anybody calls.  `EveryCallEnds` says accordingly that no page waits for ever, and that a worker serves
all it was asked unless its storage hangs; since calls are bounded, "in the end" is enough.  `Widget` is checked for safety only and assumes no
fairness.

### Mutants

Every property of every passing run comes with a mutation of the modelled code that breaks it under
that run's own configuration: a missing merge of marks, an answer taken for a quorum, one replica
taken for two, a tombstone sent before its successor is verified, roots drawn afresh by a retry, a
queue that serves every message as it comes, `put()` for `add()`, an offer's slot claimed too late, and
so on.  They are the operators marked "Mutant" in the modules.

## Proofs

For every finite set of relays and any sets of clients, stores, passwords, accounts, connections, tabs,
identities and clock readings, under the assumptions named in the modules (`RelayAssumption`,
`AccountAssumption`, `VaultAssumption`, `CallAssumption`, `LegAssumption`, `SessionAssumption`,
`ElementAssumption`), and any number of sockets, calls, legs, requests and faults.  `Spec => []P` is
meant where no hypothesis is given.

| module | theorem | establishes |
|---|---|---|
| AccountProofs | `InvHolds`, `TypesHold` | the inductive invariant, and `TypeOK` of the account flows |
| | `OneRootHolds` | `OneVaultRoot` |
| | `RecoveryIsFirst` | `RecoveryBeforeCredential` |
| | `SuccessorHolds` | `SuccessorDurable` |
| | `NobodyIsLockedOut` | `NeverLockedOut`, of behaviours with `[][OwnPasswords]_vars` |
| VaultProofs | `InvHolds`, `TypesHold` | the invariant, and `TypeOK` of the connection records |
| | `NothingStale` | `NeverShownStale`, if `OneTab` |
| | `LastEditIsDurable` | `LastEditDurable` |
| | `WideReadsAreComplete` | `WideReadsMissNothing`: a read that more relays answer than can be without a verified event misses no verified edit |
| | `EditsFollow` | `EditsFollowTheirRead` |
| RelayProofs | `TypeCorrect` | `TypeOK` of the connection |
| | `OneLiveSocketHolds` | `OneLiveSocket` |
| | `SubscriptionsAgreeHolds` | `SubscriptionsAgree` |
| | `RegistrationsHaveOwnersHolds` | `RegistrationsHaveOwners` |
| | `SilenceNeverAnswers` | `SilenceIsNoAnswer` |
| SignerProofs | `TypeCorrect` | `TypeOK` of the signer session |
| | `NoOrphanKeyHolds` | `NoOrphanKey` |
| | `OwnKeyIntactHolds` | `OwnKeyIntact` |
| | `OneClientHolds` | `OneClient` |
| | `OnlyTheCurrentIsAnsweredHolds` | `OnlyTheCurrentIsAnswered` |
| WorkerProofs | `InvHolds`, `TypeCorrect` | the invariant, and `TypeOK` of pages, workers and database |
| WorkerRefinement | `EachWorkerIsSerial` | `ServesInOrder`: every worker implements `SerialSession` |
| | `WorkerImplementsSerialSession` | the same of one tab, with the mapping spelled out |
| WorkerSafety | `NoRecordIsOrphaned` | `RecordReadable` |
| | `LogoutIsFinal` | `LoggedOutStaysOut` |
| | `PageAndWorkerAgree` | `PageAgrees` |
| | `ReloadBringsBackWhatIsUnlocked` | `UnlockedIsSaved` |
| WidgetProofs | `InvHolds`, `TypeCorrect` | the invariant, and `TypeOK` of the element |
| | `NoPromiseIsDropped` | `PromisesKept` |
| | `NoOtherAccountSignsHolds` | `NoOtherAccountSigns` |
| | `NothingIsLeftWaiting` | `AskedFollowsSignIn` |

### Hypotheses

Two theorems hold under a hypothesis, a definition of the proof module, because their properties do:

* `OneTab`, for `NothingStale` – no two clients share a store.  Two tabs of one browser profile do, and
  can lose a mark (`record_mark_two_tabs.cfg`).
* `OwnPasswords`, for `NobodyIsLockedOut` – a flow publishes a credential only where nothing, or its
  own account's, was ever sent, and a password change goes to an address nothing was ever sent to.  The
  widget generates the new password (`widget/element.ts:1521-1525`), so that two changes meet at one
  password only by collision; the run `rotation` explores that case too, on its small instance.

### Arguments

*AccountProofs.*  `TypeOK` alone is not inductive: whether the event a flow publishes next is well
formed depends on what it has in hand.  The invariant is `Inv == TypeOK /\ SoundEvent /\ SoundJob`:
every event ever sent is of its kind's address and account, and at every `pc` the `base` and `pub` of
a job are of the right kind, account and generation, and were sent.  One lemma per action shows the
invariant preserved.  `RootsAgree` adds the one fact about roots: all events of an account that carry
one carry the same, which survives because a flow copies the root of an event that was sent, or
derives it when the account has none but `"derived"`.  Durability properties rest on `DurableStays`: no
step makes a durable event undurable while nobody names it in a deletion request, since a relay only
replaces an event by one that wins.  Then it is enough that each flow broadcasts a credential (a
tombstone) only after `CanVerify` of the recovery capsule (of the successor).

`NeverLockedOut` says that a usable account has a password that opens it.  Each change is right by
`SuccessorDurable`, but the successor may itself have been retired, and by a change that has not read
it: if passwords could come back, devices could retire each other's in a circle.  `Chained` excludes it: passwords can be
ranked so that every change under way leads upwards and above every retired password there is a
*live* one of the same account (`Live`: on enough relays, no tombstone).  `RotationKeepsChain` extends
the ranking to the fresh password of a change, `RetiringKeepsChain` keeps it when the tombstone is
sent.  `ConfirmedKept` and `OneOwner` do the rest: what was verified is in reach until it is retired,
and nobody else's capsule takes its place.

*VaultProofs.*  `NeverShownStale` needs that what a listing shows never beats the mark it left
behind (`ShownIsCovered`), and that what a running action has accepted is not older than the last
listing (`Tracked`); together `Ordered`.  This is inductive only when a store has one client
(`OneTab`): with two, a mark may fall between a listing's read and its write.  The order of events is
total per address because ids are unique there.

`LastEditDurable` needs the history of a connection (`History`): ids are unique and below the counter,
and a tombstone wins over the very event its deletion request names.  So a `Purge` removes only what a
later verified edit replaces, and `Latest` is inductive: behind every verified edit stands one that
covers it and is on enough relays.  All but `MinReadbacks - 1` of the relays answering is then enough
to meet one of them, with eight relays as with three: `WideReadsMissNothing`.  `EditsFollowTheirRead`
carries that through a worker action (`Ahead`): what it has fetched and found covers the edits `known`
from its read, what it publishes beats them, since it is stamped after the record it replaces, and
what others verify meanwhile is not in `known`.  No hypothesis on relays, writers or clocks is needed.

*RelayProofs.*  A close event clears the promise without looking whose it is, so `OneLiveSocket` is not
inductive.  `PromiseIsCurrent` is what makes it safe: while the connection is in use, the only socket
that has not closed is the one the promise belongs to, so the late event can only be its own; after
`close()`, `ClosedIsClosed` says that nothing is alive, and the one courtesy publish opens one socket.
`SubscriptionsAgree` rests on `RegistrationsHaveOwners`, `CallAssumption` and the `REQ`s an opened
socket sends first.  `SilenceIsNoAnswer` then takes one case per action: the only one that ends a query
as answered is the relay's.

*SignerProofs.*  The key properties need that the worker finds nothing of a leg when it generates its
key, and that a leg listens once.  Both rest on the messages: `BornOnce` says that the message which
generates a key is posted once and finds the leg unborn, `AwaitedOnce` that the code of a QR leg, and
the wait the page answers it with, are each under way at most once and while the key is minted.  With
`NoOrphanKey`, `OwnKeyIntact` and `OneClient` they form the inductive invariant.
`OnlyTheCurrentIsAnswered` follows from `PendingIsCurrent`: a request without an answer was sent with
the client adopted now, which retirement preserves because it rejects what it closes.

*WorkerProofs, WorkerRefinement, WorkerSafety.*  `Inv` adds to the types that only the first call of a
queue has begun, and holds at its await what the next storage operation needs (`OneAtATime`, `InHand`),
and that an unfinished recovery has its identity unlocked.  The refinement maps the queue to
`SerialSession`'s calls (`Queue`), the unlocked key to `who`, and `Took` says at which awaits the call
in hand has already taken effect: a login when it has left `posted`, a restore when it is writing the
public record.  Each action is a step of its own worker's `SerialSession` or a stutter, and a stutter of
every other's, although they share the database.  The other properties speak of a quiet state, so each
is proved of the calls under way (`Outstanding`):

* `RecordReadable` – `KeyKept`: unless keys are being deleted, a record about to be written is
  encrypted with the key in the database, which `add()` never replaces.
* `LoggedOutStaysOut` – `Silent`: after the logout nobody is about to write but a restore that finds
  nothing, and what is still there is about to be deleted.
* `PageAgrees` – `Agrees`: a form waits for one answer at a time, and what the page shows is what was
  unlocked before the call in hand, whose `Outcome` it will be told.
* `UnlockedIsSaved` – `Kept`: while one tab is `Alone`, what its call holds is what the database holds
  (`Held`), and unless that call is saving, what is unlocked is stored.

*WidgetProofs.*  The handlers are functions of the page, so the lemmas are about functions: `Follows`
is what every handler makes of a page (it posts at most one call and drops no promise), `Resumes` what
a request that waits for a sign-in can rely on.  `PromisesKept` is inductive with the converse
(`Kept`): a promise that a slot or a call carries is open, and at most one offer is on its way or
shown; without it, settling one could settle another's.  The other two properties leave out timed out
calls, so their half of the invariant (`Smooth`) is conditioned on no fault.

### What is only model-checked

`EveryFlowEnds`, both `EveryCallEnds` and `EveryLegEnds`: liveness under fairness needs `ENABLED`, which is
beyond TLAPS.  Every violated property is refuted by TLC's trace.

Six safety properties of passing runs are checked on their instance and not proved.  Five of them do not
hold for every value of the constants, and conditions that save them would exclude the code's own
configuration: `QuorumReadsEveryEdit`, `AddressHasOneOwner` and `NoRecoverySiblings` need quorums that
overlap two replicas, which eight relays do not give; `MarkOnlyRises` needs a store per tab;
`RetiredStaysRetired` needs that nobody enables the vault meanwhile.  What does hold with any number of
relays is `WideReadsMissNothing` and `EditsFollowTheirRead`.  `PhraseUnlessAsked` is the sixth.

## Not modelled

* Key derivation, encryption, encodings, wallet URIs and validation of malformed capsules are pure
  functions, taken as ideal.
* Imported identities: two accounts made from one key would share a generation mark on a device
  (`highWaterMark.ts:15`), and the screens that import a key.
* Profile and relay-list events are published once, with no marks.
* The headless signer and the NIP-07 provider forward calls to a worker and keep no more than a public
  key; the `window.nostr` slot has no property beyond who wrote it last.
* What the export screen reveals, test signatures, copying and wording.
* A listing of more than 500 records (`core/vault/sync.ts:103`), sudo tiers, the delivery of EVENT
  frames with its verification budgets (`relay.ts:206-221`).

## Plan

Done: the relays, the account flows, the connection records, the relay connection, the remote signer,
the worker's session over the database with the refinement of `SerialSession`, and the widget element;
theorems for what holds of every instance, runs for what does not.

1. `Custody` – an abstract account (who can open it, with which generation) that `Account` implements
   by a refinement mapping.
2. Of the recovery chain and of the owner of an address, what holds where quorums do not overlap two
   replicas: the analogue of `WideReadsMissNothing` for capsules.
3. A proof of `PhraseUnlessAsked`.  A property for the three hazards without one: the crash between a recovered credential and the reset
   of the mark (`core/account/recover.ts:419`), stated of who may still log in; which request a late
   answer settles (`widget/element.ts:506`); the way out of a covered wallet question
   (`widget/element.ts:163`).
4. Abandoned attempts: `element.ts:823` disconnects only when it shows a code or an identity, so
   backing out before the code arrived, or while a pasted address waits, leaves the attempt to the
   worker; `NoOrphanKey` says its key is still held, not when it is wiped.
