------------------------------- MODULE SendAs --------------------------------
(***************************************************************************)
(* Send-as aliases of one user: requests to the API process claim an       *)
(* address or remove it, and mail is sent under the verified ones; the     *)
(* daemon looks for the answer to the probe once per tick.  Each process   *)
(* has a Store over send_as_aliases.json with a mutex of its own; an       *)
(* operation reads the file (Refresh), changes the copy and replaces the   *)
(* file (Write).                                                           *)
(*                                                                         *)
(* An alias is its number in the order of creation: UUID and verification  *)
(* code are distinct for distinct aliases.  Times are told apart as the    *)
(* code compares them: aliases expire in the order of creation, a probe is *)
(* within the cooldown or not, a failed alias may have passed its          *)
(* retention.                                                              *)
(***************************************************************************)
EXTENDS Integers, FiniteSets

CONSTANTS
    Requests,   \* requests the API server serves at a time
    Emails,     \* candidate addresses
    Cap,        \* maxSendAsAliasesPerUser
    MaxIds,     \* bound: aliases created
    MaxFaults   \* bound: failed writes and restarts

ASSUME ConstantsAssumption ==
    /\ Cap \in Nat \ {0} /\ MaxIds \in Nat /\ MaxFaults \in Nat
    /\ IsFiniteSet(Requests) /\ "daemon" \notin Requests /\ "none" \notin Requests

VARIABLES
    file,      \* send_as_aliases.json
    copy,      \* per process: Store.aliases, during an operation
    op,        \* per process: who holds the mutex between refresh and write
    next,      \* the number of the next alias
    clobbered, \* whether the last write was made from an outrun copy
    req,       \* per request: where its handler is
    recent,    \* lastSent: the addresses whose cooldown runs
    probes,    \* probes sent to an address in its present cooldown
    proved,    \* aliases whose code came back under a signature of their domain
    expired,   \* the aliases up to this one are past ExpiresAt
    tick,      \* the daemon's checkPendingSendAsAliases
    faults

store  == <<file, copy, op, next, clobbered>>
world  == <<proved, expired>>
api    == <<req, recent, probes>>
vars   == <<store, world, api, tick, faults>>

Ids     == 1 .. MaxIds
Process == {"api", "daemon"}
Free    == [by |-> "none", stale |-> FALSE]
NoTick  == [at |-> "idle", todo |-> {}, id |-> 0]
InTick  == [NoTick EXCEPT !.at = "fetch"]
Idle    == [at |-> "idle", email |-> "none", id |-> 0]
Empty   == [i \in {} |-> 0]

Init ==
    /\ file = Empty /\ copy = [p \in Process |-> Empty]
    /\ op = [p \in Process |-> Free]
    /\ next = 1 /\ clobbered = FALSE
    /\ req = [r \in Requests |-> Idle]
    /\ recent = {} /\ probes = [e \in Emails |-> 0]
    /\ proved = {} /\ expired = 0
    /\ tick = NoTick
    /\ faults = 0
-----------------------------------------------------------------------------
(***************************************************************************)
(* The store.                                                              *)
(***************************************************************************)
Fault == faults < MaxFaults /\ faults' = faults + 1

Refresh(p, who) ==
    /\ op[p] = Free
    /\ copy' = [copy EXCEPT ![p] = file]
    /\ op' = [op EXCEPT ![p].by = who]
    /\ UNCHANGED <<file, next, clobbered>>

\* persistLocked: the other process, if inside an operation, has been outrun.
Write(p, aliases) ==
    /\ file' = aliases
    /\ copy' = [copy EXCEPT ![p] = Empty]
    /\ op' = [q \in Process |->
                 IF q = p THEN Free
                 ELSE [op[q] EXCEPT !.stale = op[q].by # "none"]]
    /\ clobbered' = op[p].stale
    /\ UNCHANGED faults

\* Mutant of Release: an early return keeps the mutex.
ReleaseNever(p) == UNCHANGED <<file, copy, op, clobbered>>

\* The operation returns early ...
Release(p) ==
    /\ copy' = [copy EXCEPT ![p] = Empty]
    /\ op' = [op EXCEPT ![p] = Free]
    /\ UNCHANGED <<file, clobbered>>

\* ... or persistLocked fails: what Store.aliases holds now is read again before
\* its next use.
WriteFails(p) == Fault /\ Release(p)

Without(aliases, S) == [i \in DOMAIN aliases \ S |-> aliases[i]]
WithStatus(aliases, i, s) == [aliases EXCEPT ![i].status = s]
Pending(aliases) == {i \in DOMAIN aliases : aliases[i].status = "pending"}
-----------------------------------------------------------------------------
(***************************************************************************)
(* POST /api/send-as (handleSendAsCreate).                                 *)
(***************************************************************************)
UnderCap(aliases) == Cardinality(DOMAIN aliases) < Cap

CheckCap(r, e) ==
    /\ req[r] = Idle /\ next <= MaxIds
    /\ op["api"] = Free
    /\ UnderCap(file)
    /\ req' = [req EXCEPT ![r] = [at |-> "allowed", email |-> e, id |-> 0]]
    /\ UNCHANGED <<store, world, tick, recent, probes, faults>>

\* Mutant of Allowed: whatever was sent.
AllowedAlways(e) == TRUE

Allowed(e) == e \notin recent

CheckCooldown(r) ==
    /\ req[r].at = "allowed"
    /\ req' = [req EXCEPT ![r] = IF Allowed(req[r].email)
                                 THEN [@ EXCEPT !.at = "record"] ELSE Idle]
    /\ UNCHANGED <<store, world, tick, recent, probes, faults>>

\* The first to record begins a window.
RecordSent(r) ==
    LET e == req[r].email
    IN  /\ req[r].at = "record"
        /\ recent' = recent \cup {e}
        /\ probes' = IF e \in recent THEN probes ELSE [probes EXCEPT ![e] = 0]
        /\ req' = [req EXCEPT ![r].at = "create"]
        /\ UNCHANGED <<store, world, tick, faults>>

Sent(e) == UNCHANGED probes \/ probes' = [probes EXCEPT ![e] = @ + 1]

BeginCreate(r) ==
    /\ req[r].at = "create" /\ next <= MaxIds
    /\ Refresh("api", r)
    /\ UNCHANGED <<world, api, tick, faults>>

\* The record, and then SMTPDeliver, whose error leaves the record pending.
Create(r) ==
    LET e   == req[r].email
        new == [i \in DOMAIN copy["api"] \cup {next} |->
                   IF i = next THEN [status |-> "pending", email |-> e] ELSE copy["api"][i]]
    IN  /\ req[r].at = "create" /\ op["api"].by = r
        /\ next' = next + 1
        /\ \/ Write("api", new) /\ Sent(e)
           \/ WriteFails("api") /\ UNCHANGED probes
        /\ req' = [req EXCEPT ![r] = Idle]
        /\ UNCHANGED <<world, tick, recent>>
-----------------------------------------------------------------------------
(***************************************************************************)
(* DELETE /api/send-as/{id}, and the authority to send mail.               *)
(***************************************************************************)
\* Get, the check of the owner, and the refresh of Delete.
BeginDelete(r, i) ==
    /\ req[r] = Idle
    /\ i \in DOMAIN file
    /\ req' = [req EXCEPT ![r] = [Idle EXCEPT !.at = "delete", !.id = i]]
    /\ Refresh("api", r)
    /\ UNCHANGED <<world, tick, recent, probes, faults>>

Delete(r) ==
    LET i == req[r].id
    IN  /\ req[r].at = "delete"
        /\ Write("api", Without(copy["api"], {i})) \/ WriteFails("api")
        /\ req' = [req EXCEPT ![r] = Idle]
        /\ UNCHANGED <<world, tick, next, recent, probes>>

\* What resolveMailFrom lets mail be sent under: a verified alias of the address.
FindVerifiedByEmail(e) ==
    {i \in DOMAIN file : file[i] = [status |-> "verified", email |-> e]}
-----------------------------------------------------------------------------
(***************************************************************************)
(* The daemon's tick: tickUser, and at its end checkPendingSendAsAliases.  *)
(***************************************************************************)
\* Only for a user who is active and has a mailbox configured.
TickBegins ==
    /\ tick = NoTick
    /\ tick' = InTick
    /\ UNCHANGED <<store, world, api, faults>>

\* A store does not open, ListUnreadInbox fails or the handling of a message
\* panics: the tick does not come to the aliases.
TickEndsEarly ==
    /\ tick = InTick
    /\ tick' = NoTick
    /\ UNCHANGED <<store, world, api, faults>>

\* Mutant of List: what has expired is left out.
ListNotExpired ==
    /\ tick = InTick
    /\ tick' = [NoTick EXCEPT !.at = "check", !.todo = {i \in Pending(file) : i > expired}]
    /\ UNCHANGED <<store, world, api, faults>>

List ==
    /\ tick = InTick
    /\ tick' = [NoTick EXCEPT !.at = "check", !.todo = Pending(file)]
    /\ UNCHANGED <<store, world, api, faults>>

\* What the search and the fetches may bring: the user can put messages with the
\* code into the INBOX, but none with a signature of the alias's domain.
Matches(i) == {"other"} \cup IF i \in proved THEN {"domain"} ELSE {}

\* Mutant of VerifyDKIMForDomain: any message with the code will do.
VerifyAny(raws) == raws # {}

VerifyDKIMForDomain(raws) == "domain" \in raws

\* A search that fails, finds nothing or finds no signature leaves the alias
\* pending.
NotYet(i) ==
    /\ i > expired
    /\ \E raws \in SUBSET Matches(i) : ~VerifyDKIMForDomain(raws)
    /\ tick' = [tick EXCEPT !.todo = @ \ {i}]
    /\ UNCHANGED <<store, world, api, faults>>

\* The decision and the refresh of MarkFailed or MarkVerified: what the decision
\* rests on lasts.
Decide(i) ==
    /\ \/ /\ i <= expired
          /\ tick' = [at |-> "fail", todo |-> tick.todo \ {i}, id |-> i]
       \/ /\ i > expired
          /\ \E raws \in SUBSET Matches(i) : VerifyDKIMForDomain(raws)
          /\ tick' = [at |-> "verify", todo |-> tick.todo \ {i}, id |-> i]
    /\ Refresh("daemon", "daemon")
    /\ UNCHANGED <<world, api, faults>>

Check ==
    \E i \in tick.todo :
        /\ tick.at = "check" /\ \A j \in tick.todo : i <= j
        /\ NotYet(i) \/ Decide(i)

Mine     == copy["daemon"]
MarkDone == tick' = [tick EXCEPT !.at = "check", !.id = 0] /\ UNCHANGED <<world, api, next>>

\* Mutant of MarkFailed: an alias that is gone comes back as a failed one.
MarkFailedAnew ==
    /\ tick.at = "fail"
    /\ Write("daemon", [i \in DOMAIN Mine \cup {tick.id} |->
                           IF i = tick.id
                           THEN [status |-> "failed", email |-> CHOOSE e \in Emails : TRUE]
                           ELSE Mine[i]])
    /\ MarkDone

\* An error unless the alias is there and pending.
MarkFailed ==
    /\ tick.at = "fail"
    /\ IF tick.id \notin Pending(Mine) THEN Release("daemon") /\ UNCHANGED faults
       ELSE Write("daemon", WithStatus(Mine, tick.id, "failed")) \/ WriteFails("daemon")
    /\ MarkDone

\* An error if the alias is gone; a failed one would be verified too.
MarkVerified ==
    /\ tick.at = "verify"
    /\ IF \/ tick.id \notin DOMAIN Mine
          \/ Mine[tick.id].status = "verified"
       THEN Release("daemon") /\ UNCHANGED faults
       ELSE Write("daemon", WithStatus(Mine, tick.id, "verified")) \/ WriteFails("daemon")
    /\ MarkDone

BeginSweep ==
    /\ tick.at = "check" /\ tick.todo = {}
    /\ tick' = [tick EXCEPT !.at = "sweep"]
    /\ Refresh("daemon", "daemon")
    /\ UNCHANGED <<world, api, faults>>

\* Any of the failed ones may have passed the retention.
SweepTerminal ==
    /\ tick.at = "sweep"
    /\ \E old \in SUBSET {i \in DOMAIN Mine : Mine[i].status = "failed"} :
          IF old = {} THEN Release("daemon") /\ UNCHANGED faults
          ELSE Write("daemon", Without(Mine, old)) \/ WriteFails("daemon")
    /\ tick' = NoTick
    /\ UNCHANGED <<world, api, next>>
-----------------------------------------------------------------------------
(***************************************************************************)
(* Time, the domains that answer, and restarts.                            *)
(***************************************************************************)
Expire ==
    /\ expired + 1 < next
    /\ expired' = expired + 1
    /\ UNCHANGED <<store, api, tick, faults, proved>>

\* From here on the entry of lastSent means nothing, swept or not.
CooldownEnds(e) ==
    /\ e \in recent
    /\ recent' = recent \ {e}
    /\ UNCHANGED <<store, world, tick, faults, req, probes>>

Answer(i) ==
    /\ i < next /\ i \notin proved
    /\ proved' = proved \cup {i}
    /\ UNCHANGED <<store, api, tick, faults, expired>>

\* Or a panic while the aliases are checked, which ends the tick.
RestartDaemon ==
    /\ Fault
    /\ tick' = NoTick
    /\ Release("daemon")
    /\ UNCHANGED <<next, world, api>>

\* The cooldown is in memory only: with the process it forgets what was sent.
RestartAPI ==
    /\ Fault
    /\ req' = [r \in Requests |-> Idle]
    /\ recent' = {} /\ probes' = [e \in Emails |-> 0]
    /\ Release("api")
    /\ UNCHANGED <<next, world, tick>>
-----------------------------------------------------------------------------
Handle(r) ==
    \/ \E e \in Emails : CheckCap(r, e)
    \/ CheckCooldown(r) \/ RecordSent(r) \/ BeginCreate(r) \/ Create(r)
    \/ \E i \in Ids : BeginDelete(r, i)
    \/ Delete(r)

checkPendingSendAsAliases ==
    Check \/ MarkFailed \/ MarkVerified \/ BeginSweep \/ SweepTerminal

tickUser == TickBegins \/ TickEndsEarly \/ List \/ checkPendingSendAsAliases

Next ==
    \/ \E r \in Requests : Handle(r)
    \/ tickUser
    \/ Expire \/ (\E i \in Ids : Answer(i)) \/ (\E e \in Emails : CooldownEnds(e))
    \/ RestartDaemon \/ RestartAPI

\* The ticker fires again and again for a user who stays active with a mailbox
\* configured, and again and again a tick gets past the mail; a check of the
\* aliases that has begun goes on, and five minutes pass.
Fairness ==
    /\ WF_vars(TickBegins)
    /\ SF_vars(List)
    /\ WF_vars(checkPendingSendAsAliases)
    /\ WF_vars(Expire)

Spec == Init /\ [][Next]_vars /\ Fairness
-----------------------------------------------------------------------------
Aliases(f) ==
    /\ DOMAIN f \subseteq 1 .. next - 1
    /\ \A i \in DOMAIN f : f[i] \in [status : {"pending", "verified", "failed"}, email : Emails]

\* Every variable keeps its type; no copy names an alias that was never created,
\* and a process holds its mutex exactly while an operation is under way.
TypeOK ==
    /\ Aliases(file) /\ \A p \in Process : Aliases(copy[p])
    /\ next \in 1 .. MaxIds + 1
    /\ tick.at \in {"idle", "fetch", "check", "fail", "verify", "sweep"} /\ tick.todo \subseteq Ids
    /\ \A r \in Requests : req[r].at \in
          {"idle", "allowed", "record", "create", "delete"}
    /\ op["daemon"].by = "daemon" <=> tick.at \in {"fail", "verify", "sweep"}
    /\ faults \in 0 .. MaxFaults

\* Mail goes out under an address only if a message signed by its domain brought
\* the code of the alias back: no stale copy, failed write or clobber makes
\* another one verified (sendas_check.go:40, server.go:899).
SentWasProved == \A e \in Emails : FindVerifiedByEmail(e) \subseteq proved

\* Requests that check the cooldown before any of them records get through
\* together, but nobody passes a window that runs: the probes it has sent and
\* those under way are never more than the requests served at a time
\* (sendas_handlers.go:100).
ProbesBounded ==
    \A e \in recent :
        probes[e] + Cardinality({r \in Requests : /\ req[r].email = e
                                                  /\ req[r].at \in {"record", "create"}})
            <= Cardinality(Requests)

\* As long as ticks get to the aliases again and again, which no tick does while
\* the mail server is down (poller.go:447), no alias stays pending for good: it
\* is verified, fails or goes, whatever becomes of its probe and whichever write
\* is lost (sendas_check.go:36).
EventuallySettled == \A i \in Ids : []<>(i \notin Pending(file))

\* The life of each alias.
Life == INSTANCE AliasLifecycle WITH
    status <- [i \in Ids |-> IF i \in DOMAIN file THEN file[i].status
                             ELSE IF i < next THEN "removed" ELSE "absent"]

\* The two processes together keep to the life of an alias, but for the writes
\* made from an outrun copy (store.go:226).
KeepsLifecycle == Life!Spec
=============================================================================
