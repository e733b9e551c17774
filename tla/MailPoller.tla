------------------------------ MODULE MailPoller ------------------------------
(***************************************************************************)
(* The poller of one user's mailbox (internal/processor/poller.go).  A     *)
(* tick reads the checkpoint, lists the unread mail whose UID is above it, *)
(* runs every listed message through handleMessage and at its end moves    *)
(* the checkpoint to the highest UID listed.  A message that was marked    *)
(* processed is skipped when it is listed again.  After a start the warmup *)
(* goroutine resets the checkpoint (TriggerUnreadSweep) while a tick of    *)
(* the ticker may be in flight, and the process may die between any two    *)
(* steps.                                                                  *)
(*                                                                         *)
(* Every operation on the state store is one step here: it refreshes the   *)
(* store from its file and then writes the file, and one that reports an   *)
(* error has changed nothing (its refresh failed); only the journal is     *)
(* appended to in memory first.  What two processes do to the same file is *)
(* the subject of StateFile.                                               *)
(***************************************************************************)
EXTENDS Integers, Sequences

CONSTANTS
    MaxUID,      \* bound: the mail server hands out the UIDs 1 .. MaxUID
    Oversized,   \* the UIDs whose size is above MaxInboundMessageBytes
    Budget,      \* messages the rate limiter's window admits
    MaxCrashes   \* bound: process deaths and recovered panics of a behaviour

ASSUME ConstantsAssumption ==
    /\ MaxUID \in Nat
    /\ Budget \in Nat
    /\ MaxCrashes \in Nat
    /\ Oversized \subseteq 1 .. MaxUID

UID == 1 .. MaxUID

VARIABLES
    delivered,   \* the highest UID in the mailbox
    unread,      \* UIDs the server reports as UNSEEN
    acted,       \* UIDs whose keywords were stored or whose rules were run
    checkpoint,  \* state.Store.checkpoint, 0 for the empty string
    processed,   \* state.Store.processedSet
    applied,     \* UIDs with an "applied" entry in state.Store.decisions
    pc,          \* where the tick is
    from,        \* tickUser's checkpoint, read before the listing
    todo,        \* the messages of the listing its loop has not reached
    next,        \* tickUser's nextCheckpoint
    cur,         \* the message handleMessage is working on, 0 for none
    plan,        \* the steps handleMessage has left for it
    slots,       \* messages allowByRate would still admit
    sweeper,     \* the startup warmup goroutine
    crashes,
    steady,      \* history: UIDs unread ever since they were delivered
    accounted,   \* history: UIDs marked processed, handled to the end, or left at
                 \* the rate limit
    outage,      \* history: UIDs whose latest attempt failed transiently
    notified,    \* history: UIDs notified outside of an outage
    excused      \* history: UIDs Cleanup forgot or the store failed to mark

mail  == <<delivered, unread, steady>>
store == <<checkpoint, processed, applied>>
tick  == <<from, todo, next>>
work  == <<cur, plan>>
hist  == <<accounted, outage, notified, excused>>
vars  == <<mail, acted, store, pc, tick, work, slots, sweeper, crashes, hist>>

Status == {"applied", "rejected", "skipped", "failed"}

(***************************************************************************)
(* The paths of handleMessage, as the sequences of its effects.  "mark" is *)
(* MarkProcessed, a status is AddDecision with it, "label" is              *)
(* applyKeywordsWithRetry, "notify" the two push notifications, "rule" the *)
(* actions of the matched rules.  An error of "mark", "label", "applied"   *)
(* or "rejected" leaves the path for recordMessageFailure; an error of     *)
(* "skipped", "failed" or "retire" is dropped.                             *)
(***************************************************************************)
RejectPath  == <<"rejected", "mark">>
StopPath    == <<"rule", "applied", "mark", "notify">>
\* Mutants of LabelPath: the journal, or the notification, comes first.
JournalFirst == <<"applied", "label", "mark", "notify">>
NotifyFirst  == <<"label", "notify", "mark", "applied">>

LabelPath   == <<"label", "mark", "applied", "notify">>
NoLabelPath == <<"skipped", "mark", "notify">>

\* Rules that match without stopping are followed by labelling, which is by
\* classification or, with auto-labelling off, by the default label.
HandlePaths(u) ==
    IF u \in Oversized
    THEN {RejectPath}
    ELSE {StopPath} \cup
         {ruling \o labelling : ruling    \in {<<>>, <<"rule", "applied">>},
                                labelling \in {<<"classify">>, LabelPath}}

\* Mutant of FailurePath: every failure retires the message.
AlwaysRetire(retire) == <<"failed", "retire", "notify">>

\* recordMessageFailure: only a transient classifier error leaves the message
\* unmarked.
FailurePath(retire) ==
    IF retire THEN <<"failed", "retire", "notify">> ELSE <<"failed", "notify">>

Steps == Status \cup {"mark", "retire", "label", "notify", "rule", "classify"}
Plans == Seq(Steps)
-----------------------------------------------------------------------------
Init ==
    /\ delivered = 0 /\ unread = {} /\ steady = {}
    /\ acted = {}
    /\ checkpoint = 0 /\ processed = {} /\ applied = {}
    /\ pc = "idle" /\ from = 0 /\ todo = {} /\ next = 0
    /\ cur = 0 /\ plan = <<>>
    /\ slots = Budget
    /\ sweeper = "warmup"
    /\ crashes = 0
    /\ accounted = {} /\ outage = {} /\ notified = {} /\ excused = {}

(***************************************************************************)
(* The mail server and its other clients.                                  *)
(***************************************************************************)
Deliver ==
    /\ delivered < MaxUID
    /\ delivered' = delivered + 1
    /\ unread' = unread \cup {delivered + 1}
    /\ steady' = steady \cup {delivered + 1}
    /\ UNCHANGED <<acted, store, pc, tick, work, slots, sweeper, crashes, hist>>

\* Read, moved or expunged: it no longer answers the UNSEEN search.  Mail that
\* goes between the search and the fetch of one listing counts as gone before
\* the listing, whose maxUID passes it by.
Leave(u) ==
    /\ u \in unread
    /\ unread' = unread \ {u}
    /\ steady' = steady \ {u}
    /\ UNCHANGED <<delivered, acted, store, pc, tick, work, slots, sweeper,
                   crashes, hist>>

MarkUnread(u) ==
    /\ u <= delivered
    /\ u \notin unread
    /\ unread' = unread \cup {u}
    /\ UNCHANGED <<delivered, steady, acted, store, pc, tick, work, slots,
                   sweeper, crashes, hist>>

(***************************************************************************)
(* The tick.                                                               *)
(***************************************************************************)
\* tick takes the semaphore; tickUser cleans the store up, which drops the
\* processed entries and decisions older than 30 days, and reads the checkpoint.
TickStart(bySweep) ==
    /\ pc = "idle"
    /\ bySweep => sweeper \in {"swept", "unswept"}
    /\ \E old \in SUBSET processed :
          /\ processed' = processed \ old
          /\ excused' = excused \cup old
    /\ \E old \in SUBSET applied : applied' = applied \ old
    /\ from' = checkpoint
    /\ sweeper' = IF bySweep THEN "off" ELSE sweeper
    /\ pc' = "fetch"
    /\ UNCHANGED <<mail, acted, checkpoint, todo, next, work, slots,
                   crashes, accounted, outage, notified>>

TickLeaves ==
    /\ pc' = "idle"
    /\ from' = 0 /\ todo' = {} /\ next' = 0
    /\ cur' = 0 /\ plan' = <<>>

FetchFails ==
    /\ pc = "fetch"
    /\ TickLeaves
    /\ UNCHANGED <<mail, acted, store, slots, sweeper, crashes, hist>>

IsMax(m, S) == m \in S /\ \A n \in S : n <= m

Candidates == {u \in unread : u > from}

\* ListUnreadInbox: with nothing to list it hands the checkpoint back.  What
\* was read for the listing is not used after it.
Fetch ==
    /\ pc = "fetch"
    /\ todo' = Candidates
    /\ next' \in Candidates \cup {from}
    /\ IsMax(next', Candidates \cup {from})
    /\ from' = 0
    /\ pc' = "loop"
    /\ UNCHANGED <<mail, acted, store, work, slots, sweeper, crashes, hist>>

\* The listing holds the oversized messages first, then the others, each part
\* in the order of the UIDs.
IsHead(u) ==
    /\ u \in todo
    /\ \A v \in todo : \/ u \in Oversized /\ v \notin Oversized
                       \/ (u \in Oversized <=> v \in Oversized) /\ u <= v

Skip(u) ==
    /\ pc = "loop"
    /\ IsHead(u)
    /\ u \in processed
    /\ todo' = todo \ {u}
    /\ UNCHANGED <<mail, acted, store, pc, from, next, work, slots,
                   sweeper, crashes, hist>>

\* Mutant of RateStop: the loop goes round again instead of ending.
RateSpin(u) ==
    /\ pc = "loop" /\ IsHead(u) /\ u \notin processed /\ slots = 0
    /\ UNCHANGED vars

RateStop(u) ==
    /\ pc = "loop"
    /\ IsHead(u)
    /\ u \notin processed
    /\ slots = 0
    /\ accounted' = accounted \cup todo
    /\ todo' = {}
    /\ pc' = "checkpoint"
    /\ UNCHANGED <<mail, acted, store, from, next, work, slots,
                   sweeper, crashes, outage, notified, excused>>

\* allowByRate takes a slot before the message is handled.
Begin(u) ==
    /\ pc = "loop"
    /\ IsHead(u)
    /\ u \notin processed
    /\ slots > 0
    /\ slots' = slots - 1
    /\ todo' = todo \ {u}
    /\ cur' = u
    /\ plan' \in HandlePaths(u)
    /\ outage' = outage \ {u}
    /\ pc' = "handle"
    /\ UNCHANGED <<mail, acted, store, from, next, sweeper, crashes,
                   accounted, notified, excused>>

LoopEnds ==
    /\ pc = "loop"
    /\ todo = {}
    /\ pc' = "checkpoint"
    /\ UNCHANGED <<mail, acted, store, tick, work, slots, sweeper, crashes, hist>>

\* Mutant of SetCheckpoint: it stores the newest UID there is.
CheckpointNewest ==
    /\ pc = "checkpoint"
    /\ checkpoint' = delivered
    /\ TickLeaves
    /\ UNCHANGED <<mail, acted, processed, applied, slots, sweeper, crashes,
                   hist>>

\* The checkpoint moves whatever happened to the messages of the listing; an
\* empty nextCheckpoint is not written.
SetCheckpoint ==
    /\ pc = "checkpoint"
    /\ checkpoint' \in {checkpoint, IF next = 0 THEN checkpoint ELSE next}
    /\ TickLeaves
    /\ UNCHANGED <<mail, acted, processed, applied, slots, sweeper, crashes,
                   hist>>
-----------------------------------------------------------------------------
(***************************************************************************)
(* handleMessage and recordMessageFailure, one effect at a time.           *)
(***************************************************************************)
At(step) == pc = "handle" /\ plan # <<>> /\ Head(plan) = step

Continue == plan' = Tail(plan)
Fail     == plan' = FailurePath(TRUE)

\* ApplyOutcome runs every action and only collects their errors; an action may
\* mark the message read or move it away.
RunRules ==
    /\ At("rule")
    /\ acted' = acted \cup {cur}
    /\ \E gone \in SUBSET {cur} : unread' = unread \ gone /\ steady' = steady \ gone
    /\ Continue
    /\ UNCHANGED <<delivered, store, pc, tick, cur, slots, sweeper,
                   crashes, hist>>

\* An entry whose write fails stays in memory: it goes out with the next one's
\* or is lost with the process.
AddDecision(status) ==
    /\ At(status)
    /\ \/ /\ applied' = IF status = "applied" THEN applied \cup {cur} ELSE applied
          /\ Continue
       \/ /\ applied' \in {applied, IF status = "applied" THEN applied \cup {cur}
                                     ELSE applied}
          /\ IF status \in {"applied", "rejected"} THEN Fail ELSE Continue
    /\ UNCHANGED <<mail, acted, checkpoint, processed, pc, tick, cur, slots,
                   sweeper, crashes, hist>>

\* classifyWithRetry: a known label, none, or an error after the retries.
Classify(result) ==
    /\ At("classify")
    /\ plan' = CASE result = "label"     -> LabelPath
                 [] result = "none"      -> NoLabelPath
                 [] result = "permanent" -> FailurePath(TRUE)
                 [] result = "transient" -> FailurePath(FALSE)
    /\ outage' = IF result = "transient" THEN outage \cup {cur} ELSE outage
    /\ UNCHANGED <<mail, acted, store, pc, tick, cur, slots, sweeper, crashes,
                   accounted, notified, excused>>

ApplyKeywords ==
    /\ At("label")
    /\ \/ acted' = acted \cup {cur} /\ Continue
       \/ acted' = acted /\ Fail
    /\ UNCHANGED <<mail, store, pc, tick, cur, slots, sweeper, crashes,
                   hist>>

MarkProcessed ==
    /\ \/ /\ At("mark") \/ At("retire")
          /\ processed' = processed \cup {cur}
          /\ accounted' = accounted \cup {cur}
          /\ Continue
          /\ UNCHANGED excused
       \/ /\ At("mark")
          /\ Fail
          /\ UNCHANGED <<processed, accounted, excused>>
       \/ /\ At("retire")
          /\ excused' = excused \cup {cur}
          /\ Continue
          /\ UNCHANGED <<processed, accounted>>
    /\ UNCHANGED <<mail, acted, checkpoint, applied, pc, tick, cur, slots,
                   sweeper, crashes, outage, notified>>

Notify ==
    /\ At("notify")
    /\ notified' = notified \cup ({cur} \ outage)
    /\ Continue
    /\ UNCHANGED <<mail, acted, store, pc, tick, cur, slots, sweeper, crashes,
                   accounted, outage, excused>>

\* Mutant of Return: the message stays at work.
ReturnKeeping ==
    /\ pc = "handle"
    /\ plan = <<>>
    /\ accounted' = accounted \cup {cur}
    /\ pc' = "loop"
    /\ UNCHANGED <<mail, acted, store, tick, work, slots, sweeper, crashes,
                   outage, notified, excused>>

Return ==
    /\ pc = "handle"
    /\ plan = <<>>
    /\ accounted' = accounted \cup {cur}
    /\ cur' = 0
    /\ pc' = "loop"
    /\ UNCHANGED <<mail, acted, store, tick, plan, slots, sweeper, crashes,
                   outage, notified, excused>>
-----------------------------------------------------------------------------
\* The window slides: one more message fits.
Refill ==
    /\ slots < Budget
    /\ slots' = slots + 1
    /\ UNCHANGED <<mail, acted, store, pc, tick, work, sweeper, crashes, hist>>

\* warmupClassifierOnStartup sweeps only when the classifier answered.
Warmup(ok) ==
    /\ sweeper = "warmup"
    /\ sweeper' = IF ok THEN "reset" ELSE "off"
    /\ UNCHANGED <<mail, acted, store, pc, tick, work, slots, crashes, hist>>

\* TriggerUnreadSweep does not hold the tick semaphore while it resets; an
\* error is logged and the tick called all the same.
SweepReset ==
    /\ sweeper = "reset"
    /\ \/ checkpoint' = 0 /\ sweeper' = "swept"
       \/ checkpoint' = checkpoint /\ sweeper' = "unswept"
    /\ UNCHANGED <<mail, acted, processed, applied, pc, tick, work, slots,
                   crashes, hist>>

\* The process dies and starts again: the rate window and the tick are gone.
Crash ==
    /\ crashes < MaxCrashes
    /\ crashes' = crashes + 1
    /\ TickLeaves
    /\ slots' = Budget
    /\ sweeper' = "warmup"
    /\ UNCHANGED <<mail, acted, store, hist>>

\* A panic of tickUser is recovered: the tick ends where it was.
Panic ==
    /\ pc # "idle"
    /\ crashes < MaxCrashes
    /\ crashes' = crashes + 1
    /\ TickLeaves
    /\ UNCHANGED <<mail, acted, store, slots, sweeper, hist>>
-----------------------------------------------------------------------------
Mailbox == Deliver \/ \E u \in UID : Leave(u) \/ MarkUnread(u)

TickStep ==
    \/ Fetch
    \/ \E u \in UID : Skip(u) \/ RateStop(u) \/ Begin(u)
    \/ LoopEnds
    \/ SetCheckpoint

HandleStep ==
    \/ RunRules
    \/ \E status \in Status : AddDecision(status)
    \/ \E result \in {"label", "none", "permanent", "transient"} : Classify(result)
    \/ ApplyKeywords
    \/ MarkProcessed
    \/ Notify
    \/ Return

Sweep == (\E ok \in BOOLEAN : Warmup(ok)) \/ SweepReset \/ TickStart(TRUE)

Next ==
    \/ Mailbox
    \/ TickStart(FALSE)
    \/ FetchFails
    \/ TickStep
    \/ HandleStep
    \/ Sweep
    \/ Refill
    \/ Crash
    \/ Panic

\* The ticker always fires again, a started tick goes on, and the mail server
\* answers a listing again and again; nothing is assumed of the classifier, of
\* the sweep or of the rate limiter.
Fairness ==
    /\ WF_vars(TickStart(FALSE))
    /\ SF_vars(Fetch)
    /\ WF_vars(TickStep)
    /\ WF_vars(HandleStep)

Spec == Init /\ [][Next]_vars /\ Fairness
-----------------------------------------------------------------------------
\* Every variable keeps its type, and a message is at work exactly while
\* handleMessage runs.
TypeOK ==
    /\ delivered \in 0 .. MaxUID
    /\ unread \subseteq 1 .. delivered
    /\ steady \subseteq unread
    /\ acted \subseteq UID
    /\ checkpoint \in 0 .. MaxUID
    /\ processed \subseteq UID
    /\ applied \subseteq UID
    /\ pc \in {"idle", "fetch", "loop", "handle", "checkpoint"}
    /\ from \in 0 .. MaxUID /\ next \in 0 .. MaxUID
    /\ todo \subseteq UID
    /\ cur \in 0 .. MaxUID /\ plan \in Plans
    /\ (pc = "handle") <=> (cur # 0)
    /\ slots \in 0 .. Budget
    /\ sweeper \in {"off", "warmup", "reset", "swept", "unswept"}
    /\ crashes \in 0 .. MaxCrashes
    /\ accounted \subseteq UID /\ outage \subseteq UID
    /\ notified \subseteq UID /\ excused \subseteq UID

\* A message that was unread all along and that the checkpoint has passed was
\* marked processed or went through its handling to the end, or a tick left it
\* at the rate limit: no crash, panic, failed listing or sweep makes the poller
\* pass mail over.
CheckpointCovers ==
    \A u \in steady : u <= checkpoint => u \in accounted

\* A message is notified a second time only if its first notification fell in a
\* classifier outage, Cleanup has forgotten it or the store would not mark it: a
\* crash never leaves a message notified and open.
NotifiedOnce == At("notify") => cur \notin notified \/ cur \in excused

\* A classifier outage never retires a message: the latest attempt at a
\* processed message did not end in a transient error.
OutageNeverRetires == outage \cap processed = {}

\* The decision journal says "applied" only of messages whose labels were
\* stored or whose rules were run, whatever happened between the two writes.
JournalTruthful == applied \subseteq acted

\* Mail that stays unread is handled in the end, or left at the rate limit.
EventuallyServed ==
    \A u \in UID : (u \in steady) ~> (u \in accounted \/ u \notin steady)
=============================================================================
