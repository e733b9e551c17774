# Formal model of llama-labels

llama-labels (`src/`) is a self-hosted mail labelling service: a Go backend that
polls IMAP mailboxes, classifies each new message with a local model, stores the
label as an IMAP keyword and notifies the user's devices, and a web and mobile
API for mail, contacts, rules, PGP and administration.  This directory holds TLA+
models of the parts of the backend where ordering, concurrency, crashes or lost
messages decide whether it is right, TLC configurations that check them on small
instances, and TLAPS proofs of the central properties for every instance.

Paths below are relative to `src/backend/internal/` unless they start with `src/`.

## 1. Inventory

The backend runs as **two processes** (`src/supervisord.conf`: `--mode server` and
`--mode daemon`; `--mode all` runs both in one).  They share JSON files and no
lock: every store (`state`, `users`, `contacts`, `mailcache`, ...) is opened once
per process, and its mutex protects one process only.  The API process serves
each HTTP request on a goroutine of its own.

| Component | State it keeps | Operations | What makes it correct |
|---|---|---|---|
| mail poller (`processor/poller.go`) | checkpoint UID, processed set, decision journal, rate window | tick, handleMessage, recordMessageFailure, startup sweep, cleanup | no mail is passed over; a message is notified once; an outage retires nothing; the journal is truthful; unread mail is handled in the end |
| per-user state file (`state/store.go`) | `state.json` and a copy of it in each process | refresh, change one section, merge the others, write in place | updates outside of an overlap survive; the phone gets each notification once |
| push dispatch (`processor/push_dispatch.go`, `native_sender.go`) | native devices, delivery mode, pull queue | send, enqueue, prune stale devices | no registration is lost, the cursor moves forward |
| contacts and mobile sync (`contacts/store.go`, `api/contacts_handlers.go`) | contacts with revisions, tombstones, gc watermark; a cursor per phone | upsert, delete, set self, dedupe, gc, changed-since, push | a replica at the last revision equals the book; one self contact; one revision per contact |
| login lockout (`api/login_lockout.go`) | strikes and lock per key | allowed, recordFailure, recordSuccess, sweep | guesses per window are bounded; nobody is locked out early |
| two-factor sign-in (`mfa/mfa.go`, `api/server.go`, `api/mfa_handlers.go`, `api/push_mfa_handlers.go`) | challenges, the account's TOTP, codes and push flags, sessions | login, TOTP, recovery code, push approval, setup, confirm, disable, regenerate, clear | no factor starts two sessions; TOTP is never on without a secret |
| users store and administration (`users/users.go`, `api/server_users.go`, `app/app.go`, `app/migrate.go`) | `users.json`, the MFA-clear progress and marker files, the migrated directories | minting the first administrator, migration, boot-time MFA clear, per-account mutations, last-administrator check | an active administrator remains; the printed password works; the marker means that everybody was cleared |
| mail cache (`mailcache/store.go`, `serveInbox`) | per mailbox a window of entries with revisions | sync with a cursor, upsert, cached load | a client misses no entry another caller stamped |
| rules and Sieve (`rules/*.go`, `api/rules_handlers.go`) | ordered rules | evaluate, compile to and parse a script, edit, reorder, manual run | a script means what it says and survives being shown; the chosen order sticks; a run hits what it evaluated |
| send-as (`sendas/store.go`, `processor/sendas_check.go`, `api/sendas_handlers.go`) | aliases, verification codes, a cooldown | claim, probe, verify by signed mail, expire, remove | only a proved alias sends; every claim is settled |
| device pairing (`api/device_auth.go`, `api/native_pairing_nonce.go`, `api/server_userscope.go`, `api/server.go`) | pairing tokens, redeemed nonces, device rows, the device index | mint, register, authenticate, remove, revoke, rescan | one owner per device id; a token is redeemed once; what is revoked stays out |
| encrypted pickup, CardDAV, groups, PGP, health, relays, frontend | see `PROJECT.json` | | |

**Interactions.**  The daemon's poller calls the IMAP adapter, the classifier, the
rules engine, its own `state.Store` and the push dispatcher.  The API process
calls a second `state.Store` over the same file when devices register, when the
delivery mode changes, when a login asks for a push approval and when a phone
polls `/api/notifications/native/pull`.  `users.json` is written by the API
process and, at boot, by both.  `mailcache.json` is written by the inbox handlers
and by the poller, `send_as_aliases.json` by the API's handlers and the daemon's
tick; rules are written by the API process and read by both.  Contacts are written by the API
process alone, from the web UI, CardDAV and the phones' sync.

**What is hard.**  Steps of two processes between a read and a write of one file;
HTTP handlers that check a copy of a record and then change the record; a process
that dies between the effects of one message; a file that is truncated and
rewritten in place; sync clients whose responses are lost while tombstones are
purged; counters at their limits.  `PROJECT.json` lists each of these hazards at
its line with the properties that cover it, or the reason none does yet.

## 2. Modules

| Module | Models | Checked by | Proved in |
|---|---|---|---|
| `MailPoller` | one user's tick, all paths of handleMessage, sweep, crashes, panics | `MCMailPoller` | `MailPollerProofs` |
| `StateFile` | `state.json` between daemon and API process, push dispatch, the polling phone | `MCStateFile` | `StateFileProofs` |
| `ContactSync` | contact store and its sync clients | itself | `ContactSyncProofs` |
| `FailureLockout` | one strike counter under concurrent requests | itself | `MfaLoginProofs` |
| `MfaLogin` | two-factor sign-in to one account | `MCMfaLogin` | `MfaLoginProofs` |
| `MailCache` | one mailbox window between the inbox handlers and the poller, and the clients that poll it | `MCMailCache` | `MailCacheProofs` |
| `AliasLifecycle` | abstract: what the send-as store promises | through `SendAs` | `SendAsProofs` |
| `SendAs` | send-as aliases between the API's requests and the daemon's tick | itself | `SendAsProofs` |
| `UserAccounts` | `users.json` while two processes start and administrators work | `MCUserAccounts` | `UserAccountsProofs` |
| `Sieve` | the rule language: match trees, engine, compiler, parser | through `FilterRules` | - |
| `FilterRules` | extends `Sieve`: the rule store, its handlers, the manual run over the IMAP adapter | `MCFilterRules` | - |
| `DevicePairing` | pairing tokens, device registration, the device index, revocation | `MCDevicePairing` | `DevicePairingProofs` |

### MailPoller

`checkpoint`, `processed` and `applied` are the three parts of the state store the
poller uses (an "applied" entry of the decision journal stands for the journal);
`from`, `todo`, `next` are `tickUser`'s locals; `cur` and `plan` are the message
`handleMessage` works on and the effects it has left for it.  The paths of
`handleMessage` are sequences of effects (`RejectPath`, `StopPath`, `LabelPath`,
`NoLabelPath`, `FailurePath`), taken one at a time, so that a crash (`Crash`) or a
recovered panic (`Panic`) can fall between any two.  `TickStart` is the semaphore,
which waits for the tick that is running, `Cleanup` and the read of the checkpoint; `Fetch` is
`ListUnreadInbox` with its partition by size; `SetCheckpoint` is the last write of
the tick, which happens whatever became of the messages; `Warmup`, `SweepReset` and
`TickStart(TRUE)` are the startup goroutine, whose reset is not under the
semaphore.  Each store operation may fail; a failed one has changed nothing,
except that a journal entry stays in memory.  External: the IMAP server's
`Deliver`, `Leave`, `MarkUnread`.  History variables: `steady`, `accounted`,
`outage`, `notified`, `excused`.

### StateFile

Two processes, one file with three sections: `core` (read only at the start of an
operation), `devices` and `pull` (read once more by `persistLocked` when the
operation has not changed them).  An operation is `Begin` (refresh and change),
`MergeDevices`, `MergePull`, `Truncate` and `Write`: `os.WriteFile` truncates and
then writes, and a second writer can leave the tail of a longer content, so a
reader may find the file `Torn`.  A mutating operation refuses a torn file, a
reading one falls back on its copy, a starting process does not come up (`New`).
`NativeDeliveryMode`, `EnqueuePullNotification`, `Prune` and `DispatchEnds` are
`SendNativePushToDevices` in either process; `PullNotificationsAfter` is the phone's
poll.  `truth` is a history variable: each section as the finished operations
leave it when run one after the other, `Lost` once two of them overlapped on it.
`Operations` is the set of everything an `op` may be; the assumption says that `NoOp`
is none of it.

### ContactSync

A contact's content is its revision.  `Restamp` is the revision counter: every
write gives what it changes the next revisions, in some order (the code iterates a
map).  `ChangedSince` is the sync answer with its too-old test.  A client pushes
changes one by one, gets an answer or loses it, and starts over from nothing when
told that its cursor is too old.  `GC` is exported and tested in the store but not
called by the running program yet; the model includes it, since the watermark
and the too-old answer exist for its sake.

### FailureLockout

One key.  `Allowed` and `recordFailure`/`recordSuccess` are separate calls around a
slow verification; `trying` is the set of requests between them.  `LockoutEnds` is
time passing; `Sweep` is the eviction another key's failure triggers.  `Attempts` are the
requests; the module's specification has the prefix `Lockout` because `MfaLoginProofs`
extends it together with `MfaLogin`.

### MfaLogin

A request is at a place (`at`) between two store calls of its handler, with the
challenge or session it is about (`of`) and the step, code or approval it carries
(`arg`).  Each action is one critical section of `users.Store`, `mfa.Store` or the
session map together with the decision that follows it.  TOTP secrets are numbered
as they are staged, recovery codes as they are issued; one code stands for a batch.
Passwords and codes are right or wrong by choice.

### MailCache

`win` is the window of `mailcache.json`, `mem` the operation each process has under
its mutex with the window it read (`Refresh`), `req` a client's request to
`serveInbox` (`ListOverviews`, `Sync`, `GetMessageBodies`, the warming `Upsert`,
the reply), `batch` what an actor has fetched for `Upsert`, `view` what a client
shows and its cursor.  Sync and Upsert are the code's merge loops: what is new or
changed takes the next numbers in the order of the loop, `Reply` filters by `Rev`
and `FirstRev`, a change of limit discards the window.  Bodies, attachments and PGP
fields are one flag.  External: the IMAP server.  `clobbered` notes a write that
went over one of the other process.

### SendAs and AliasLifecycle

`AliasLifecycle` is the abstract specification: an alias is created pending, is
verified (only if proved) or fails, and goes for good.  `SendAs` implements it
(`KeepsLifecycle`, the refinement maps an alias of the file to its status and one
that was created and is gone to "removed").  Its steps are the handler's cap check,
cooldown check and record, `Create` with its refresh and write, `Delete`, and the
daemon's tick.  The tick begins for an active user with a mailbox configured
(`TickBegins`); it may end before it comes to the aliases, when a store does not open,
the listing of the mail fails or a message panics (`TickEndsEarly`); otherwise it goes on
to `List`, a decision per alias, `MarkFailed`, `MarkVerified`, `SweepTerminal`.  Both processes
hold a store of their own, so a write can be made from an outrun copy: the abstract `Clobber`
says what that may do and no more.

### UserAccounts

`file` is `users.json`, `boot` where each process is in its start (mint, migrate, the
MFA clear with `progress` and `marker`), `req` the administrators' and users'
handlers, `op` the open `mutate` of each process.  `printed` are the accounts whose
initial password was printed; `raced` notes a removal written after another it had
not seen, or a write over one of the other process.  `FirstFiles` are the files a first
start may find: none, or one the program has left, which has an active administrator
(`FirstFilesAssumption`).

### Sieve and FilterRules

`Sieve` is the language without state: match trees, the engine's meaning, `CompileRule`
and `ParseRuleText` over syntax trees.  A text is the set of its words, a script its
tree; whatever does not lex is one value.  Quoting is modelled by what it does to a
control character.  `FilterRules` adds the store (each operation is one step, since it
re-reads the file under its mutex and only the API process writes), the handlers as
two steps around the decoding of the body, and the manual run: `RunBegin` lists the
folder, `RunBodies` fetches bodies if a rule needs them, `Plan` evaluates, and
`RunApply` makes one IMAP call at a time, in the folder that call selects, on the UID.
`Sieve` uses recursive operators, so it and `FilterRules` are for TLC only.

### DevicePairing

`devices` are the rows of each user's state file as they were last written, `torn` the
files cut off or overlapped by two writes, `copy` what the API's Store has in memory and
falls back on when it lists the devices.  Both processes write the files, each under a
mutex of its own (`writer`): an operation reads the rows (`Open`), cuts the file off
(`Truncate`) and fills it (`Write`), or gives up in between (`WriteFails`), and the other
process comes between any two of these.  `Upsert` and `RemoveOne` are the API's
operations on the rows, `Prune` the removal of a device the relay calls stale, in either
process, and `Touch` any operation on another section, which writes the rows as it read
them.  `StateFile` has the other sections and the crashes of a writer in detail.

`index` is the API process's map from ids to users, `seen` the redeemed nonces, `req` the
handlers between their critical sections.  A registration looks the id up, rescans on a
miss (the files are read one by one without the lock, one that cannot be read or parsed
is passed over, then the index is replaced), reserves, writes, lists and publishes.  A
client may name no id, and the server mints one; a row with the same push token keeps its
id.  Time is counted in half seconds, because a token's expiry is cut to whole seconds
and a nonce's is not.  A restart of the API process forgets requests, index and nonces, a
restart of the daemon its operations; either leaves a file it had cut off torn.

History: `lost` are the ids whose owner the code has lost sight of, in one of five ways: a
removal or a rescan took the index entry, or a write the row, from under a registration in
flight; a rescan brought back the entry of a device removed meanwhile; the registration's
own rescan passed over the owner's file; a write put a removed row back; a list from
memory named a row that had left the file.  `cut` are the secrets a completed revocation
was about, `back` those a write of the daemon put back.  `PairingAssumption` keeps chosen
ids, minted ids and `Nobody` apart and counts the TTL in whole seconds.

## 3. Runs

| Run | Instance | Distinct states | Shows |
|---|---|---|---|
| `poller_safety` | 2 messages, one oversized, budget 1, 1 crash | 1.6 M | `TypeOK`, `CheckpointCovers`, `NotifiedOnce`, `OutageNeverRetires`, `JournalTruthful` |
| `poller_live` | the same without a crash | 0.5 M | `EventuallyServed` |
| `state_safety` | 3 profiles, see below | 3.1 M | `TypeOK`, `NoLostUpdate`, `PhoneSeesEachOnce` |
| `contacts` | 3 contacts, 2 clients, 4 revisions | 0.4 M | `TypeOK`, `UpToDate`, `OneSelf`, `Converges` |
| `lockout_safety` | 4 requests, 3 strikes | 144 | `GuessesBounded`, `NeverEarly` |
| `mfa_safety` | 2 requests, 2 challenges, 2 clock steps, 2 logins | 1.1 M | `TypeOK`, `SecondFactorOnce`, `TOTPOncePerChallenge` |
| `mailcache_safety` | 2 clients, 3 messages, windows of 1 and 2 | 2.2 M | `TypeOK`, `NothingMissed`, `UpdatedIsShown` |
| `sendas` | 2 requests, 1 address, cap 1, 2 aliases, 1 fault | 0.4 M | `TypeOK`, `SentWasProved`, `ProbesBounded`, `EventuallySettled`, `KeepsLifecycle` |
| `users` | 3 accounts, 2 requests, 2 operations, 1 fault | 0.5 M | `TypeOK`, `AdminRemains`, `CredentialsWork`, `ClearIsComplete` |
| `rules` | 2 requests, 2 rules, 4 ids, 2 writes, 1 run, 1 fault | 0.2 M | `TypeOK`, `RoundTrip`, `ScriptMeaning`, `LimitsHold`, `ReorderSticks`, `StraysOnlyLabels` |
| `pairing` | 2 users, 2 requests at a time, 4 in all, 2 tokens, 1 fault, 1 write of the daemon | 2.0 M | `TypeOK`, `OwnerStands`, `TokenOnce`, `RevokedStaysOut` |
| `rules_folder` | as `rules` | | the finding of section 4 |

Properties with a history variable in their premise (`clobbered`, `raced`, `lost`,
`unsure`, `truth = Lost`) say exactly how far the code's locking reaches: they hold
until the named race happens, and section 4 says what happens after it.

**Why the bounds are enough.**  Two messages, one of each size class, let the
listing's order, the rate limit (a budget of one stops the second message) and the
checkpoint differ from the delivery order; one crash or panic can fall on any
step, and the sweep runs again after it.  `StateFile` picks one of three profiles
per behaviour, because all operations at once have too many states: `Sharing`
(both processes change all sections, one crash), `Queueing` (both enqueue three
notifications into a queue of two while the phone polls and the mode changes) and
`Quiet` (only the daemon writes, four notifications, one crash); a queue of two is
cut from the third on.  In `ContactSync`, `Dedupe` needs two contacts and leaves a
third; four revisions suffice to create, delete, purge and re-create while a client
lags.  In `MfaLogin`, a replay needs two requests, two challenges and two logins;
`MaxIssued` bounds challenges and recovery codes together.  In `MailCache` three
messages overflow a window of two, three changes of the mailbox deliver, flag and
remove, and the casts of `MCMailCache` put two clients with different limits, or one
client and the poller or the loads, on one window; a behaviour is followed until a
write goes over another, since nothing is claimed afterwards.  In `SendAs` a second
alias for one address needs the first one gone; two ids suffice, and the cap of one
makes two requests meet at it.  `UserAccounts` starts on an empty directory or with
two administrators who have MFA; a third account can be created and the removals of
two requests meet.  `MCFilterRules` lists bodies and scripts so that every construct
of the language and every refusal occurs, and runs the rules after the edits only
(`MCNext`): a run works on a copy of the rules it read, so edits during a run change
nothing it does, and no handler reads the mailbox.  In `DevicePairing` the two users
contend for one chosen id while minted ids and two push tokens give the merges; a
TTL of one second, begun in the middle of a second, has the moment in which the nonce
is forgotten and the token still valid.  Tokens are minted and the clock moves only while
no request is under way and before the second one, which loses nothing because only the
first step of a registration reads either.  The daemon's write begins while a request is
in flight, since alone it changes nothing but what a prune removes.  The third request
lets an id be claimed twice after a file was passed over or an index lost, or after a row
was put back; the fourth is there for a rescan that has read the files before a device
was removed and its id claimed by the other user.  `LastCalls` of `MCDevicePairing` says
what is left out beside them.  The proofs of section 5 need none of these bounds.
`CHECK_DEADLOCK FALSE` is set where the bounded counters end a
behaviour and, in `StateFile`, where the program itself may stop: a process that
died while the file was truncated leaves a `state.json` no later start can parse.

**Fairness.**  `MailPoller`: the ticker fires again and again (`WF` on
`TickStart(FALSE)`), a tick that has begun goes on (`WF` on its and the handler's
steps: every call in them has a timeout or a retry limit), and the mail server
answers a listing again and again if it is asked again and again (`SF` on
`Fetch`).  Nothing is assumed of the classifier, the limiter's window, the sweep or
the store's writes.  `ContactSync`: a client keeps asking (`WF` on `Respond`) and
not every answer to it is lost (`SF` on `Receive`).  `SendAs`: the ticker fires again and
again for a user who stays active with a mailbox configured (`WF` on `TickBegins`), again
and again a tick gets past the mail (`SF` on `List`: neither every listing fails nor
every tick meets a panic, the premise `MailPoller` has in `SF` on `Fetch`), a check of the
aliases that has begun goes on (`WF` on `checkPendingSendAsAliases`: its IMAP calls have
a deadline) and time passes (`WF` on `Expire`).  Without the second premise an expired
alias stays pending, since only a tick looks at it.  Nothing is assumed of the domains
that answer, of the requests or of the writes, whose failures are bounded in number.
The other modules have no
liveness property and no fairness.

**Mutants.**  Every property of a passing run has a mutant of the definition it is
about (the definitions marked "Mutant of"), under which TLC finds it violated.

## 4. Where the code and its comments disagree

One disagreement is a run of its own, which TLC refutes:

- `rules_folder`: the manual run "lists the target folder's messages live", "evaluates
  every enabled rule against each, and applies matched actions"
  (`api/rules_handlers.go:272`), but `ApplyLabel` and `RemoveLabel` take no folder and
  select INBOX (`adapters/imap/client.go:1358`): a run on another folder puts its
  keywords on the INBOX messages that happen to have the same UIDs.

The others are behaviours of the models; TLC finds them when the premise that
exempts them is dropped, or when the quoted sentence is checked as an invariant:

- A transient classifier error leaves the message unmarked "so it is retried on the
  next poll tick" (`processor/poller.go:526`), but the checkpoint at the end of the
  tick passes it, and no later listing returns it before a sweep.
- `TriggerUnreadSweep` "resets every active user's checkpoint so the next tick
  reconsiders all unread mail" (`processor/poller.go:248`), but a tick in flight
  writes its own checkpoint over the reset.
- `Seq` is "a per-user monotonic cursor" (`state/store.go:113`), but a write of one
  process that has read the pull section before an enqueue of the other takes
  `PullSeq` back.
- Enabling push approval requires TOTP "so a fallback always exists"
  (`api/push_mfa_handlers.go:35`), but the check and the write are two calls.
- A pending secret "only becomes active" on its confirmation (`users/users.go:45`),
  but `EnableTOTP` enables the secret that is pending when it runs, not the one the
  code was checked against.
- "A second poller with an older cursor still correctly receives entries"
  (`mailcache/store.go:117`) holds within one process; an `Upsert` of the daemon that
  read the file before a `Sync` takes the window and its `Seq` back.
- The legacy data is copied to the first administrator "once" (`app/migrate.go:14`),
  but a start after that administrator was removed copies it to the next one too.
- Two registrations of one device id by two users "can't both succeed"
  (`api/server_userscope.go:372`), but a rescan between them replaces the index by
  what the files say and drops a reservation whose row is not written yet, and a rescan
  that meets a torn or unreadable file takes the ids in it for free (`:432`).  A DELETE
  drops the entry of an id whoever has it.
- `revokeUserDevices` "removes every paired native device" (`api/server_userscope.go:396`),
  but a write of the daemon that read the rows before puts one back, secret and all
  (`state/store.go:511`), and with it a second owner of its id if another user has
  claimed it since.
- A pending alias is "marked failed" once its five minutes have passed
  (`processor/sendas_check.go:36`), but only by a tick that has listed the mail: as long as
  the mail server does not answer, or the user is inactive, it stays pending.
- `users.Store` "re-reads from disk before every mutation so the api and daemon processes
  [...] never race a lost update against each other" (`users/users.go:123`), but the
  mutex around the read and the write belongs to one process: a write of the other in
  between is lost.
- A pairing token is "redeemed exactly once" (`api/server.go:1731`), except across a
  restart, and except in the fraction of a second by which its expiry, cut to whole
  seconds, outlasts the nonce.
- `ParseRuleText` drops a `not` at the root in front of a group or of a test with
  several fields (`rules/sieve.go:275`); a control character in a value comes back
  from the script as a letter; a `not` counts towards the depth of a script and not
  of a JSON tree, which `rules/sieve.go:314` calls "the exact same" bound.
- A new rule's order is "the next slot at the end of the list" (`rules/store.go:91`):
  it is the number of rules, which after deletions may be an earlier place.  An edit
  that read its rule before a reordering puts the old place back, and one that read
  it before a deletion re-creates it.

What the properties that hold do not say is as important.  `CheckpointCovers`
counts mail left at the rate limit as accounted for, because the code passes it on
purpose or not; `NoLostUpdate` exempts overlapping writes of one section, where the
code does lose updates; `SecondFactorOnce` does not say that one challenge starts
one session: a TOTP code and a recovery code presented together on one challenge
may each start one.  `AdminRemains` exempts two removals that check before either
writes, where the code can lose its last administrator; `ProbesBounded` bounds the
probes of one cooldown by the requests in flight, because the check and the record
of the cooldown are two critical sections (`api/sendas_handlers.go:101` says that
nothing runs in between).

## 5. Proofs

All proofs hold for every value of the constants that satisfies the module's assumption
(the bounds are naturals, the sets finite where they are counted; for `UserAccounts` and
`DevicePairing` see section 2).  The bounds on faults, calls and identifiers are parameters
like the others: the theorems hold however large they are.

- **`MailPollerProofs`**: `TypeCorrect`; `CheckpointCoversAlways`.  `CheckpointCovers` is
  not inductive, since it says nothing of the listing whose highest UID will be
  stored.  `IInv` adds `TickCovers` (everything steady up to `next` is accounted for,
  still in `todo`, or at work), `Bounded` (no UID in use is above `delivered`, so that a
  delivery cannot fall below a checkpoint) and `Marked`.
  `NotifiedOnceAlways`, `OutageNeverRetiresAlways`, `JournalTruthfulAlways`: the effects
  still to come of a message decide all three, so `HInv` says what the plan may hold
  (`PlanKept`: an "applied" has its label or rule before it, a notification comes last and
  after a mark, nothing marks before the classifier or after an outage) and that whatever
  was notified is marked or excused (`MarkedFirst`).
- **`StateFileProofs`**: `TypeCorrect`, from what the file, an operation and the phone
  may hold (`Types`).  `NoLostUpdateAlways`: `NoLostUpdate` speaks of the file only, and
  the next write decides what the file will be, so `History` adds that the sections a
  process has read for its write are those of `truth`, with its own effect on the one it
  changes (`HeldTrue`).  `PhoneSeesEachOnceAlways`: while only the daemon writes, the
  server's copy, the file and the section the daemon is about to write are each the one
  before some notifications later (`Later`), and of each of the three the phone has
  exactly the entries up to its cursor (`Told`); `Queue` puts the two together, and holds
  through torn reads, failed starts and crashes because none of them invents an entry.
  `CursorForward`, an action property: the cursor then never goes back.
- **`ContactSyncProofs`**: `TypeCorrect`, `UpToDateAlways`, `OneSelfAlways`,
  `RevsDistinctAlways`, `NoSilentChange`.  `Agrees(v, k)` says what a view that was current at
  revision k still shares with the store; every write keeps it because it stamps what it
  changes or moves the watermark past what it purges (`Moves`), and a response that
  is not too old carries a view to a later k (`ResponseAgrees`).  `UpToDate` is the case
  k = seq.  `NoSilentChange`, an action property, is what incremental sync rests on: a
  step that changes a contact, its tombstone or its IsSelf gives it a revision above every
  earlier one, or purges it under the watermark (`Stamped`).
- **`MfaLoginProofs`**, the lockout (`FailureLockout`): `LockoutTypeCorrect`,
  `GuessesBoundedAlways`, `NeverEarlyAlways`.  `Counted` ties the strikes to the wrong guesses
  of the window and, while the key is locked, bounds them together with the requests still
  trying.
- **`MfaLoginProofs`**, sign-in: `TypeCorrect`, `SecondFactorOnceAlways`,
  `TOTPOncePerChallengeAlways`, `SpentForever`, `EnabledHasSecretAlways`.  `SecondFactorOnce`
  speaks of sessions only, and the requests on their way to one decide it.  `OneUse` says, for
  each kind of token (a TOTP step, a recovery code, the approval of a challenge, a
  challenge's one TOTP code), that the tokens held by requests or used by logins are
  spent in the store that keeps them and pairwise distinct.  It is kept because every
  step of the stores leaves spent tokens spent (`AcctProgress`, `HeldProgress`,
  `SpentStays`), a request takes only a token that its step turns from free to spent
  (`Taken`), and a login gets the token of its request.  `RequestMoves` and `LoginMoves`
  are the two steps of the argument, stated for arbitrary sets of spent tokens.
  `SpentForever` is the action property among them: no setting, reset, enrollment or
  expiry makes a spent token free again.
- **`SendAsProofs`**: `TypeCorrect` with who holds which mutex (`Mutexes`);
  `SentWasProvedAlways`, from `CInv`: what is verified in the file or in either copy was
  proved (`ProvedOnly`), a copy nobody has outrun is the file (`Current`), an alias that
  has failed in the API process's copy has failed or is gone in the file, and one that
  has failed in either is so in the daemon's copy (`FailedOnce`), and what the
  tick has yet to decide has not failed (`Deciding`).
  `ProbesBoundedAlways` counts the probes of an address together with the requests on
  their way to one (`PInv`).  `KeepsLifecycleAlways` is the refinement of
  `AliasLifecycle`: under the two invariants each step of either process is a step of the
  abstract life of an alias or a stutter, and a write from an outrun copy is its `Clobber`.
- **`DevicePairingProofs`**: `TypeCorrect`, from what a handler holds at each of its steps
  (`Shape`), that the handler of an operation on a file waits for it (`Served`), and that
  nothing names an id still to be minted (`Minted`).
  `TokenOnceAlways`: a nonce is remembered for a TTL after each redemption (`KInv`).
  `RevokedStaysOutAlways`: a row older than a revocation, in the file or in what the API
  has read for its next write (`Stored`), is still on the revocation's list or was put back
  by the daemon, while it is under way and after it (`RInv`).  The API's own operations
  keep this because one mutex orders them; the daemon's add what they bring to `back`.
  `OwnerStandsAlways`: for each id not lost, whoever has looked the index up can still rely
  on what it said (`Relies`, `OInv`), through rescans that have read some of the files and
  not others.  A step that adds no claim keeps this (`Shrink`), and a write either adds
  none or loses the id.  The lemmas on the way say what `Merged`, `Without` and `Result` do
  to the rows of a file.
- **`UserAccountsProofs`**: `TypeCorrect` with where a process is while it has a `mutate`
  open (`Phases`).  `CredentialsWorkAlways`: what a `mutate` has read contains every
  administrator whose password was printed (`CInv`).  `AdminRemainsAlways`: what a `mutate`
  has read is the file until somebody else writes (`Fresh`), and a removal that passed its
  check still leaves an active administrator (`AInv`).  `ClearIsCompleteAlways`: what is left
  to clear is on the list of every process that clears and has not failed (`LInv`), so that
  progress and marker are true across crashes and failed writes.
- **`MailCacheProofs`**: `TypeCorrect` with the bound of the window.
  `NothingMissedAlways` and `UpdatedIsShownAlways` rest on `Follows(w, cursor, shown)`:
  whoever shows this and asks from this cursor on misses nothing of the window w.  It
  holds of every client, and of what a client will show once the answer under way has
  arrived (`Current`, `CInv`).  A window that is written over the one it was read from keeps it
  (`FollowsGrown`), and the answer of Sync makes up for what its client misses (`Answered`).
  `CursorForward`, an action property: until one process writes over the other, no
  client's cursor goes back.

`RevsDistinct`, `EnabledHasSecret`, `LockoutTypeOK` and the four action properties
(`NoSilentChange`, `SpentForever` and the two named `CursorForward`) are proved and not
checked by a run.  The stronger invariants `Types`, `History`, `Queue`, `HInv`, `CInv`,
`AInv`, `LInv`, `KInv`, `RInv` and `OInv` hold on the instances of section 3 as well.

Only model-checked:

- `EventuallyServed`, `Converges` and `EventuallySettled`: liveness under fairness and
  ENABLED are out of the prover's reach;
- `FilterRules` (`TypeOK`, `RoundTrip`, `ScriptMeaning`, `LimitsHold`, `ReorderSticks`,
  `StraysOnlyLabels`): `Sieve` uses recursive operators, which the prover cannot be used
  with, and what they compute for every input needs an induction over data.

## 6. Not modelled

Formats, cryptography and I/O (PGP, MIME, SMTP, HTTP prompts, QR codes, logging,
configuration); the computation of TOTP codes, DKIM signatures and password hashes;
glob and regular-expression patterns; the matching of duplicate contacts; the
frontend and the relay workers; several users in one tick (each has a state file and a
mailbox of its own).  The one-time pickup does each of its operations in one critical
section of one process.  Desktop pairing codes: `handleDesktopPair` checks their rate
limit and stores them, but nothing in the program validates or consumes one, and the
limit counts failures, of which none is ever recorded.  UIDVALIDITY is never read by the
listing, so the model's mailbox keeps its UIDs.  `PROJECT.json` says for each component what is
left out.

## 7. Plan

1. An abstract notification channel that `StateFile` with one writer implements: the
   invariant `Queue` is most of the refinement already.
2. DAV preconditions over `ContactSync`, the AI-credit flag between the processes.
3. The rule language without recursive operators, so that the handlers of `FilterRules`
   (`LimitsHold`, `ReorderSticks`) can be proved about apart from what a script means.
