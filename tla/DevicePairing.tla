--------------------------- MODULE DevicePairing ---------------------------
(***************************************************************************)
(* Pairing of native devices: single-use pairing tokens, the registration  *)
(* of a device under an id the client chooses, the in-memory index from    *)
(* device ids to users, device authentication, and every way a device is   *)
(* removed.                                                                *)
(*                                                                         *)
(* Each user's devices are rows of a state file that the API server and    *)
(* the daemon both write, each under a mutex of its own: a write reads the *)
(* rows, cuts the file off and fills it again, and the other process comes *)
(* in between (StateFile models the other sections of the file).  The      *)
(* index and the redeemed nonces belong to the API process.  A handler     *)
(* takes the index lock and the files in separate steps, so handlers       *)
(* interleave between them.  Time is counted in half seconds, because a    *)
(* token's expiry is cut to whole seconds and a nonce's is not.            *)
(***************************************************************************)
EXTENDS Integers, Sequences, FiniteSets, SequencesExt

CONSTANTS
    Users, PushTokens,
    ChosenIds,  \* device ids a client may ask for
    Requests,   \* HTTP requests that can be in flight together
    Nobody,     \* not a user
    TTL,        \* nativePairingTokenTTL, in half seconds
    MaxTime,    \* bound: the clock
    MaxCalls,   \* bound: requests made
    MaxTokens,  \* bound: pairing tokens minted
    MaxSecrets, \* bound: device secrets stored
    MaxFaults,  \* bound: restarts and failed reads and writes
    MaxTouches  \* bound: other writes of the files

ASSUME PairingAssumption ==
    /\ Nobody \notin Users \cup ChosenIds \cup Requests
    /\ ChosenIds \cap 1..MaxSecrets = {} /\ Nobody \notin 1..MaxSecrets
    /\ Requests \cap (ChosenIds \cup 1..MaxSecrets) = {}
    /\ TTL \in Nat \ {0} /\ TTL % 2 = 0
    /\ MaxTime \in Nat \ {0} /\ MaxSecrets \in Nat /\ MaxTokens \in Nat

Processes == {"api", "daemon"}

VARIABLES
    now,     \* the clock
    tokens,  \* minted pairing tokens, in order: [user, exp]
    seen,    \* token |-> the time its nonce is remembered until
    devices, \* user |-> the rows of nativeDevices last written: [id, push, secret]
    torn,    \* users whose file cannot be parsed now
    copy,    \* user |-> the rows the API's Store has in memory, none until it opens
    writer,  \* process, user |-> the operation its Store is in: [at, by, base]
    index,   \* deviceIndex: device id |-> user or Nobody
    req,     \* request |-> the state of its handler
    secrets, \* secrets stored so far; a row's secret is its number
    calls,   \* requests made so far
    faults,  \* faults so far
    touches, \* other writes of the files so far
    redeemed,\* history: token |-> when it was redeemed, since the last restart
    lost,    \* history: ids whose owner lost track of them (see OwnerStands)
    cut,     \* history: user |-> secrets stored when the last full revocation began
    back     \* history: secrets a write of the daemon put back (see RevokedStaysOut)

clock   == <<now, tokens, seen, redeemed>>
files   == <<devices, torn, copy, writer, secrets, back>>
counted == <<calls, faults, touches>>

vars == <<clock, files, counted, index, req, lost, cut>>

\* A client's id, or one the server mints: the number of the row's secret.
DeviceIds == ChosenIds \cup 1..MaxSecrets

Idle == [op |-> "idle", at |-> "idle", user |-> Nobody, dev |-> Nobody,
         push |-> Nobody, next |-> <<>>, unread |-> {}, todo |-> <<>>, upto |-> 0,
         clean |-> TRUE]

\* The Store's mutex is free.
Free == [at |-> "free", by |-> Nobody, base |-> <<>>]

\* The clock starts in the middle of a second.
Init ==
    /\ now = 1 /\ tokens = <<>> /\ seen = [t \in 1..MaxTokens |-> 0]
    /\ devices = [u \in Users |-> <<>>] /\ torn = {}
    /\ copy = [u \in Users |-> <<>>]
    /\ writer = [p \in Processes |-> [u \in Users |-> Free]]
    /\ index = [d \in DeviceIds |-> Nobody]
    /\ req = [q \in Requests |-> Idle]
    /\ secrets = 0 /\ faults = 0 /\ calls = 0 /\ touches = 0
    /\ redeemed = [t \in 1..MaxTokens |-> <<>>] /\ lost = {}
    /\ cut = [u \in Users |-> 0] /\ back = {}

----------------------------------------------------------------------------
(* Helpers                                                                 *)

IdsOf(rows) == {rows[i].id : i \in DOMAIN rows}

Ids(u) == IdsOf(devices[u])

\* The registrations of d that have looked the index up and rely on it.
Counting(d) ==
    {q \in Requests : /\ req[q].op = "register" /\ req[q].dev = d
                      /\ req[q].at \in {"rescan", "reserve", "upsert", "upserting",
                                       "list", "publish"}}

\* Who has device id d in a file, or has reserved it and will.
Claimants(d) ==
    {u \in Users : d \in Ids(u)} \cup
    {req[q].user : q \in {r \in Requests : /\ req[r].op = "register" /\ req[r].dev = d
                                           /\ req[r].at \in {"upsert", "upserting",
                                                            "list", "publish"}}}

\* The ids a request can name: no id is guessed before it is minted.
KnownIds == ChosenIds \cup 1..secrets

\* The ids whose entry is taken from under a registration when the index becomes
\* next, ...
Taken(next) ==
    {d \in DeviceIds : index[d] # Nobody /\ next[d] = Nobody /\ Counting(d) # {}}

\* ... the ones it gives to a user whose file has them no longer, ...
Outdated(next) == {d \in DeviceIds : next[d] # Nobody /\ d \notin Ids(next[d])}

\* ... the id of a registration whose own rescan left files of users unread, ...
Overlooked(q, users) ==
    IF req[q].op = "register" THEN {req[q].dev} \cap UNION {Ids(u) : u \in users} ELSE {}

\* ... the ids that leave u's file when a registration is about to publish them, ...
Unpublished(u, rows) ==
    {d \in Ids(u) \ IdsOf(rows) :
        \E q \in Requests : /\ req[q].op = "register" /\ req[q].at = "publish"
                            /\ req[q].user = u /\ req[q].dev = d}

\* ... and the ids that come back to it after they were removed.
Restored(u, rows) == {d \in IdsOf(rows) \cap KnownIds : u \notin Claimants(d)}

Goto(q, at) == req' = [req EXCEPT ![q].at = at]

Finish(q) == req' = [req EXCEPT ![q] = Idle]

Fault == faults < MaxFaults /\ faults' = faults + 1

\* A request of the bounded number comes in.
Arrives(q) ==
    /\ req[q].op = "idle"
    /\ calls < MaxCalls
    /\ calls' = calls + 1

----------------------------------------------------------------------------
(* Pairing tokens                                                          *)

\* handleNotificationPairing: a signed-in user is shown a token.  Its expiry
\* is a Unix time, the fraction of the second dropped.
MintToken(u) ==
    /\ Len(tokens) < MaxTokens
    /\ tokens' = Append(tokens, [user |-> u, exp |-> (now + TTL) \div 2])
    /\ UNCHANGED <<now, seen, redeemed, files, counted, index, req, lost, cut>>

Valid(t) == now \div 2 <= tokens[t].exp

\* Mutant of Consume: the expiry is compared the wrong way round.
ConsumeReversed(t) ==
    /\ ~(seen[t] # 0 /\ seen[t] < now)
    /\ seen' = [seen EXCEPT ![t] = now + TTL]

\* consume: refused while the nonce is remembered, remembered for a TTL.
Consume(t) ==
    /\ ~(now < seen[t])
    /\ seen' = [seen EXCEPT ![t] = now + TTL]

----------------------------------------------------------------------------
(* The Stores: refreshStateFromDiskLocked, the change in memory and        *)
(* persistLocked, one operation of a process on u's file at a time         *)

MutexFree(u) == writer["api"][u].at = "free"

\* What ListNativeDevices and GetNativeDevice of the API return: a file that
\* cannot be parsed leaves the rows in memory.
View(u) == IF u \in torn THEN copy[u] ELSE devices[u]

Look(u) == MutexFree(u) /\ copy' = [copy EXCEPT ![u] = View(u)]

\* The rows are read, at the refresh or, by an operation that changes another
\* section, once more before the write; a torn file ends the operation there.
Open(p, u, by) ==
    /\ writer[p][u].at = "free" /\ u \notin torn
    /\ writer' = [writer EXCEPT ![p][u] = [at |-> "held", by |-> by, base |-> devices[u]]]

\* Mutant of Merged: the id is not looked for.
MergedByPush(rows, row) ==
    LET same == {i \in DOMAIN rows : rows[i].push = row.push}
    IN  IF same = {} THEN Append(rows, row)
        ELSE LET i == CHOOSE k \in same : \A j \in same : k <= j
             IN  [rows EXCEPT ![i] = [row EXCEPT !.id = rows[i].id]]

\* UpsertNativeDevice: the row with the id is replaced, else the row with the
\* push token is, which keeps its id, else there is one row more.
Merged(rows, row) ==
    LET sameId == {i \in DOMAIN rows : rows[i].id = row.id}
        samePush == {i \in DOMAIN rows : rows[i].push = row.push}
    IN  IF sameId # {} THEN [rows EXCEPT ![CHOOSE i \in sameId : TRUE] = row]
        ELSE IF samePush # {}
             THEN LET i == CHOOSE k \in samePush : \A j \in samePush : k <= j
                  IN  [rows EXCEPT ![i] = [row EXCEPT !.id = rows[i].id]]
             ELSE Append(rows, row)

\* RemoveNativeDevice: the first row with the id goes.
Without(rows, d) ==
    LET same == {i \in DOMAIN rows : rows[i].id = d}
        first == CHOOSE k \in same : \A j \in same : k <= j
    IN  IF same = {} THEN rows
        ELSE [i \in 1 .. Len(rows) - 1 |-> rows[IF i < first THEN i ELSE i + 1]]

\* The row of a registration: a new secret, and an id minted for a client that
\* named none.  (Both are numbered when the row is written: nobody sees them before.)
NewRow(q) ==
    [id |-> IF req[q].dev = Nobody THEN secrets + 1 ELSE req[q].dev,
     push |-> req[q].push, secret |-> secrets + 1]

Registers(by) == by \in Requests /\ req[by].op = "register"

\* What an operation leaves of the rows it has read.
Result(w) ==
    IF Registers(w.by) THEN Merged(w.base, NewRow(w.by))
    ELSE Without(w.base, IF w.by \in Requests THEN Head(req[w.by].todo) ELSE w.by)

\* The change is in memory now, written or not.
Remember(p, u) ==
    LET w == writer[p][u]
    IN  /\ writer' = [writer EXCEPT ![p][u] = Free]
        /\ copy' = IF p = "api" THEN [copy EXCEPT ![u] = Result(w)] ELSE copy
        /\ IF Registers(w.by) THEN secrets < MaxSecrets /\ secrets' = secrets + 1
           ELSE UNCHANGED secrets

\* os.WriteFile opens the file with O_TRUNC ...
Truncate(p, u) ==
    /\ writer[p][u].at = "held"
    /\ writer' = [writer EXCEPT ![p][u].at = "writing"]
    /\ torn' = torn \cup {u}
    /\ UNCHANGED <<devices, copy, secrets, back, clock, counted, index, req, lost, cut>>

\* The secrets of rows that are in rows and not in u's file.
Returned(u, rows) ==
    {rows[i].secret : i \in {k \in DOMAIN rows :
                               \A j \in DOMAIN devices[u] : devices[u][j] # rows[k]}}

\* ... and fills it.  Over what the other process wrote in between, a shorter
\* content leaves the end of the longer one standing.
Write(p, u) ==
    LET w == writer[p][u]
        rows == Result(w)
    IN  /\ w.at = "writing"
        /\ devices' = [devices EXCEPT ![u] = rows]
        /\ torn' \in {torn \ {u}} \cup (IF u \in torn THEN {} ELSE {torn \cup {u}})
        /\ Remember(p, u)
        /\ IF w.by \in Requests THEN Goto(w.by, IF Registers(w.by) THEN "list" ELSE "drop")
           ELSE UNCHANGED req
        /\ lost' = lost \cup Unpublished(u, rows) \cup Restored(u, rows)
        /\ back' = IF p = "daemon" THEN back \cup Returned(u, rows) ELSE back
        /\ UNCHANGED <<clock, counted, index, cut>>

\* After a failure a revocation logs it and goes on with the next device; the
\* other requests give up.
GiveUp(q) ==
    IF req[q].op = "revoke"
    THEN req' = [req EXCEPT ![q].at = "remove", ![q].todo = Tail(@), ![q].clean = FALSE]
    ELSE Finish(q)

\* A section that is read once more before the write cannot be, or the file
\* cannot be written and stays as it is.
WriteFails(p, u) ==
    LET w == writer[p][u]
    IN  /\ w.at # "free"
        /\ \/ w.at = "held" /\ u \in torn /\ UNCHANGED faults
           \/ Fault
        /\ Remember(p, u)
        /\ IF w.by \in Requests THEN GiveUp(w.by) ELSE UNCHANGED req
        /\ UNCHANGED <<devices, torn, back, clock, calls, touches, index, lost, cut>>

\* Any operation of either process on another section: marking mail, the
\* checkpoint, the delivery mode, a queued notification, a pairing code.  It
\* writes the rows as it read them.
Touch(p, u) ==
    /\ touches < MaxTouches /\ touches' = touches + 1
    /\ Open(p, u, Nobody)
    /\ UNCHANGED <<devices, torn, copy, secrets, back, clock, calls, faults, index, req,
                   lost, cut>>

\* SendNativePushToDevices, for mail in the daemon and for a login to approve
\* in the API: a device whose push token the relay calls stale is removed.  The
\* index is left alone.
Prune(p, u, d) ==
    /\ touches < MaxTouches /\ touches' = touches + 1
    /\ d \in Ids(u)
    /\ Open(p, u, d)
    /\ UNCHANGED <<devices, torn, copy, secrets, back, clock, calls, faults, index, req,
                   lost, cut>>

\* The API lists u's devices, for a page or before it sends a notification.
ListDevices(u) ==
    /\ Look(u)
    /\ UNCHANGED <<devices, torn, writer, secrets, back, clock, counted, index, req, lost,
                   cut>>

----------------------------------------------------------------------------
(* handleNotificationNativeRegister                                        *)

\* The token is verified and its nonce used up; a client that names no device
\* id (d = Nobody) has nothing to reserve.
RegisterBegin(q, t, d, p) ==
    /\ Arrives(q)
    /\ Valid(t)
    /\ Consume(t)
    /\ redeemed' = [redeemed EXCEPT ![t] = Append(@, now)]
    /\ req' = [req EXCEPT ![q] = [Idle EXCEPT !.op = "register",
                                    !.at = IF d = Nobody THEN "upsert" ELSE "lookup",
                                    !.user = tokens[t].user, !.dev = d, !.push = p]]
    /\ UNCHANGED <<now, tokens, files, faults, touches, index, lost, cut>>

\* lookupUserByDevice, for a registration and for device authentication: a hit
\* is used, a miss makes the handler read every user's file again.
Lookup(q) ==
    LET owner == index[req[q].dev]
    IN  /\ req[q].at = "lookup"
        /\ req' = IF owner = Nobody
                  THEN [req EXCEPT ![q].at = "rescan", ![q].unread = Users,
                                   ![q].next = [d \in DeviceIds |-> Nobody]]
                  ELSE IF req[q].op = "register" THEN [req EXCEPT ![q].at = "reserve"]
                  ELSE [req EXCEPT ![q].at = "get", ![q].user = owner]
        /\ UNCHANGED <<clock, files, counted, index, lost, cut>>

\* rescanDeviceIndex: the files are read one by one without the lock ...
Rescan(q, u) ==
    /\ req[q].at = "rescan" /\ u \in req[q].unread
    /\ u \notin torn
    /\ req' = [req EXCEPT ![q].unread = @ \ {u},
                          ![q].next = [d \in DeviceIds |-> IF d \in Ids(u) THEN u ELSE @[d]]]
    /\ UNCHANGED <<clock, files, counted, index, lost, cut>>

\* ... one that cannot be read or parsed is passed over ...
RescanSkips(q, u) ==
    /\ req[q].at = "rescan" /\ u \in req[q].unread
    /\ \/ u \in torn /\ UNCHANGED faults
       \/ Fault
    /\ req' = [req EXCEPT ![q].unread = @ \ {u}]
    /\ lost' = lost \cup Overlooked(q, {u})
    /\ UNCHANGED <<clock, files, calls, touches, index, cut>>

AfterRescan(q) == IF req[q].op = "register" THEN "reserve" ELSE "again"

\* ... and the index is replaced by what they said.
RescanWrite(q) ==
    /\ req[q].at = "rescan" /\ req[q].unread = {}
    /\ index' = req[q].next
    /\ lost' = lost \cup Taken(index') \cup Outdated(index')
    /\ req' = [req EXCEPT ![q].next = <<>>, ![q].at = AfterRescan(q)]
    /\ UNCHANGED <<clock, files, counted, cut>>

\* The directory of the files cannot be read: the index stays as it is.
RescanFails(q) ==
    /\ req[q].at = "rescan" /\ req[q].unread = Users
    /\ Fault
    /\ req' = [req EXCEPT ![q].next = <<>>, ![q].unread = {}, ![q].at = AfterRescan(q)]
    /\ lost' = lost \cup Overlooked(q, Users)
    /\ UNCHANGED <<clock, files, calls, touches, index, cut>>

\* Mutant of Reserve: the owner in the index is not compared.
ReserveAnyway(q) ==
    /\ req[q].at = "reserve"
    /\ index' = [index EXCEPT ![req[q].dev] = req[q].user]
    /\ Goto(q, "upsert")
    /\ UNCHANGED <<clock, files, counted, lost, cut>>

\* reserveDeviceID: refused when the index has another owner.
Reserve(q) ==
    /\ req[q].at = "reserve"
    /\ IF index[req[q].dev] \in {Nobody, req[q].user}
       THEN /\ index' = [index EXCEPT ![req[q].dev] = req[q].user]
            /\ Goto(q, "upsert")
       ELSE /\ Finish(q)
            /\ UNCHANGED index
    /\ UNCHANGED <<clock, files, counted, lost, cut>>

\* UpsertNativeDevice goes to the file.  Nothing asks whether the account is
\* active.
Upsert(q) ==
    /\ req[q].at = "upsert"
    /\ Open("api", req[q].user, q)
    /\ Goto(q, "upserting")
    /\ UNCHANGED <<devices, torn, copy, secrets, back, clock, counted, index, lost, cut>>

\* The owner's store cannot be opened, or later the file cannot be read: the
\* nonce stays used up, and in the second case the reservation stays in the index.
RegisterFails(q) ==
    /\ req[q].op = "register"
    /\ \/ req[q].at \in {"lookup", "upsert"} /\ Fault
       \/ req[q].at = "upsert" /\ req[q].user \in torn /\ UNCHANGED faults
    /\ Finish(q)
    /\ UNCHANGED <<clock, files, calls, touches, index, lost, cut>>

\* The id the row ended up with is the one of the last row with the push token.
Registered(q) ==
    LET rows == View(req[q].user)
        mine == {i \in DOMAIN rows : rows[i].push = req[q].push}
    IN  IF mine = {} THEN req[q].dev
        ELSE rows[CHOOSE i \in mine : \A j \in mine : j <= i].id

\* The devices are listed to find it; from memory it may be one that has left
\* the file.
ListRegistered(q) ==
    /\ req[q].at = "list"
    /\ Look(req[q].user)
    /\ req' = [req EXCEPT ![q].at = "publish", ![q].dev = Registered(q)]
    /\ lost' = lost \cup ({Registered(q)} \ (Ids(req[q].user) \cup {req[q].dev}))
    /\ UNCHANGED <<devices, torn, writer, secrets, back, clock, counted, index, cut>>

\* No entry is ever looked up under the empty id.
Publish(q) ==
    /\ req[q].at = "publish"
    /\ index' = IF req[q].dev = Nobody THEN index
                ELSE [index EXCEPT ![req[q].dev] = req[q].user]
    /\ Finish(q)
    /\ UNCHANGED <<clock, files, counted, lost, cut>>

----------------------------------------------------------------------------
(* Removal                                                                 *)

\* DELETE /native/devices: a signed-in user names any device id.
DeleteBegin(q, u, d) ==
    /\ Arrives(q)
    /\ req' = [req EXCEPT ![q] = [Idle EXCEPT !.op = "delete", !.at = "remove",
                                    !.user = u, !.todo = <<d>>]]
    /\ UNCHANGED <<clock, files, faults, touches, index, lost, cut>>

\* handleNotificationNativeDeregister: the device authenticates first.
DeregisterBegin(q, d) ==
    /\ Arrives(q)
    /\ req' = [req EXCEPT ![q] = [Idle EXCEPT !.op = "deregister", !.at = "lookup",
                                    !.dev = d]]
    /\ UNCHANGED <<clock, files, faults, touches, index, lost, cut>>

\* The second look of lookupUserByDevice, after its rescan.
LookupAgain(q) ==
    LET owner == index[req[q].dev]
    IN  /\ req[q].at = "again"
        /\ req' = [req EXCEPT ![q] = IF owner = Nobody THEN Idle
                                     ELSE [@ EXCEPT !.at = "get", !.user = owner]]
        /\ UNCHANGED <<clock, files, counted, index, lost, cut>>

\* The rest of deviceAuthFromRequest: the live row of the user the lookup found
\* is read, and the device presents the secret of that row.
Authenticate(q) ==
    /\ req[q].at = "get"
    /\ Look(req[q].user)
    /\ req[q].dev \in IdsOf(View(req[q].user))
    /\ req' = [req EXCEPT ![q].at = "remove", ![q].todo = <<req[q].dev>>]
    /\ UNCHANGED <<devices, torn, writer, secrets, back, clock, counted, index, lost, cut>>

\* There is no row, the secret is another one, the id is locked out or the
\* account inactive; a request that only authenticates ends here as well.
Refuse(q) ==
    /\ req[q].at = "get"
    /\ Finish(q)
    /\ UNCHANGED <<clock, files, counted, index, lost, cut>>

\* Mutant of ToRevoke: the devices the index knows.
ToRevokeIndexed(u) ==
    SetToSeq({d \in DeviceIds : index[d] = u})

\* The devices a revocation goes through: the ones listed when it began.
ToRevoke(u) == [i \in DOMAIN View(u) |-> View(u)[i].id]

\* revokeUserDevices (deactivation, password reset, MFA clear), or the user's
\* own handleNotificationNativeUnpair.  A list from memory may be out of date.
RevokeBegin(q, u, op) ==
    /\ Arrives(q)
    /\ Look(u)
    /\ req' = [req EXCEPT ![q] = [Idle EXCEPT !.op = op, !.at = "remove",
                                    !.user = u, !.todo = ToRevoke(u), !.upto = secrets,
                                    !.clean = u \notin torn]]
    /\ UNCHANGED <<devices, torn, writer, secrets, back, clock, faults, touches, index,
                   lost, cut>>

\* One device of the list is to leave the file ...
RemoveOne(q) ==
    /\ req[q].at = "remove" /\ req[q].todo # <<>>
    /\ Head(req[q].todo) \in Ids(req[q].user)
    /\ Open("api", req[q].user, q)
    /\ Goto(q, "removing")
    /\ UNCHANGED <<devices, torn, copy, secrets, back, clock, counted, index, lost, cut>>

\* ... or is not in it.  Unpair leaves the index alone then.
RemoveAbsent(q) ==
    /\ req[q].at = "remove" /\ req[q].todo # <<>>
    /\ req[q].user \notin torn
    /\ Head(req[q].todo) \notin Ids(req[q].user)
    /\ Look(req[q].user)
    /\ IF req[q].op = "unpair" THEN req' = [req EXCEPT ![q].todo = Tail(@)]
       ELSE Goto(q, "drop")
    /\ UNCHANGED <<devices, torn, writer, secrets, back, clock, counted, index, lost, cut>>

\* The file cannot be read.
RemoveFails(q) ==
    /\ req[q].at = "remove" /\ req[q].todo # <<>>
    /\ \/ req[q].user \in torn /\ UNCHANGED faults
       \/ Fault
    /\ MutexFree(req[q].user)
    /\ GiveUp(q)
    /\ UNCHANGED <<clock, files, calls, touches, index, lost, cut>>

\* The id leaves the index, whoever has it there.
Drop(q) ==
    /\ req[q].at = "drop"
    /\ index' = [index EXCEPT ![Head(req[q].todo)] = Nobody]
    /\ lost' = lost \cup Taken(index')
    /\ req' = [req EXCEPT ![q].at = "remove", ![q].todo = Tail(@)]
    /\ UNCHANGED <<clock, files, counted, cut>>

RemoveDone(q) ==
    /\ req[q].at = "remove" /\ req[q].todo = <<>>
    /\ cut' = IF req[q].op \in {"revoke", "unpair"} /\ req[q].clean
              THEN [cut EXCEPT ![req[q].user] = IF @ > req[q].upto THEN @ ELSE req[q].upto]
              ELSE cut
    /\ Finish(q)
    /\ UNCHANGED <<clock, files, counted, index, lost>>

----------------------------------------------------------------------------

\* The API process restarts: its requests, its index and the nonces are gone,
\* and a file it had cut off stays so.
Restart ==
    /\ Fault
    /\ req' = [q \in Requests |-> Idle]
    /\ index' = [d \in DeviceIds |-> Nobody]
    /\ seen' = [t \in 1..MaxTokens |-> 0]
    /\ redeemed' = [t \in 1..MaxTokens |-> <<>>]
    /\ copy' = [u \in Users |-> <<>>]
    /\ writer' = [writer EXCEPT !["api"] = [u \in Users |-> Free]]
    /\ UNCHANGED <<now, tokens, devices, torn, secrets, back, calls, touches, lost, cut>>

RestartDaemon ==
    /\ Fault
    /\ writer' = [writer EXCEPT !["daemon"] = [u \in Users |-> Free]]
    /\ UNCHANGED <<devices, torn, copy, secrets, back, clock, calls, touches, index, req,
                   lost, cut>>

Tick ==
    /\ now < MaxTime
    /\ now' = now + 1
    /\ UNCHANGED <<tokens, seen, redeemed, files, counted, index, req, lost, cut>>

Register(q) ==
    \/ \E t \in DOMAIN tokens, d \in ChosenIds \cup {Nobody}, p \in PushTokens :
          RegisterBegin(q, t, d, p)
    \/ Reserve(q) \/ Upsert(q) \/ RegisterFails(q) \/ ListRegistered(q) \/ Publish(q)

Find(q) ==
    \/ Lookup(q) \/ LookupAgain(q) \/ RescanWrite(q) \/ RescanFails(q)
    \/ \E u \in Users : Rescan(q, u) \/ RescanSkips(q, u)

Unregister(q) ==
    \/ \E u \in Users, d \in KnownIds : DeleteBegin(q, u, d)
    \/ \E d \in KnownIds : DeregisterBegin(q, d)
    \/ \E u \in Users, op \in {"revoke", "unpair"} : RevokeBegin(q, u, op)
    \/ Authenticate(q) \/ Refuse(q)
    \/ RemoveOne(q) \/ RemoveAbsent(q) \/ RemoveFails(q) \/ Drop(q) \/ RemoveDone(q)

Handle(q) == Register(q) \/ Find(q) \/ Unregister(q)

Store(p, u) ==
    \/ Touch(p, u) \/ (\E d \in DeviceIds : Prune(p, u, d))
    \/ Truncate(p, u) \/ Write(p, u) \/ WriteFails(p, u)

Next ==
    \/ \E q \in Requests : Handle(q)
    \/ \E p \in Processes, u \in Users : Store(p, u)
    \/ \E u \in Users : MintToken(u) \/ ListDevices(u)
    \/ Restart \/ RestartDaemon \/ Tick

Spec == Init /\ [][Next]_vars

----------------------------------------------------------------------------
(* Properties                                                              *)

Operations == {"free", "held", "writing"}

\* Every variable has its type, and a user's rows have distinct ids, in the
\* file and in what an operation has read of it.
TypeOK ==
    /\ now \in 0..MaxTime /\ secrets \in 0..MaxSecrets
    /\ index \in [DeviceIds -> Users \cup {Nobody}]
    /\ torn \subseteq Users /\ lost \subseteq DeviceIds
    /\ \A u \in Users : \A i, j \in DOMAIN devices[u] :
          devices[u][i].id = devices[u][j].id => i = j
    /\ \A p \in Processes, u \in Users :
          /\ writer[p][u].at \in Operations
          /\ \A i, j \in DOMAIN writer[p][u].base :
                writer[p][u].base[i].id = writer[p][u].base[j].id => i = j

\* A device id has one owner, and the index leads to that owner or to nobody
\* (and then to the files): reserveDeviceID lets no second user in and no
\* handler redirects the index.  The ids the code gives up on are named: a
\* removal or a rescan took the entry or row from under a registration in flight,
\* a rescan brought back the entry of a device removed meanwhile
\* (server_userscope.go:368, :451), the registration's own rescan passed over the
\* owner's file (:432-443), or a write put back or a list from memory held a row
\* that had left the file (state/store.go:511-557, :606).
OwnerStands ==
    \A d \in DeviceIds \ lost :
        \A u \in Claimants(d) : Claimants(d) = {u} /\ index[d] \in {u, Nobody}

\* A pairing token is redeemed once: a second redemption needs a restart of
\* the server, which forgets the nonces, or a whole TTL since the first, which
\* leaves the fraction of a second by which the expiry in the token, counted
\* in whole seconds, outlasts the nonce.
TokenOnce ==
    \A t \in DOMAIN redeemed : \A i, j \in DOMAIN redeemed[t] :
        i < j => redeemed[t][j] - redeemed[t][i] >= TTL

\* A revocation that met no error and listed the devices from the file leaves
\* none of the devices that were stored when it began, whatever the API
\* registered, merged or removed beside it: only the daemon puts one back, with
\* a write of rows it read before the removal (state/store.go:511-557).
RevokedStaysOut ==
    \A u \in Users : \A i \in DOMAIN devices[u] :
        devices[u][i].secret > cut[u] \/ devices[u][i].secret \in back

============================================================================
