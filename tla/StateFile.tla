------------------------------ MODULE StateFile ------------------------------
(***************************************************************************)
(* state.json of one user, shared by the daemon and the API server         *)
(* (internal/state/store.go).  Each has a Store of its own: a copy of the  *)
(* file in memory behind a mutex that the other does not see.  An          *)
(* operation refreshes its whole copy from the file, changes one section   *)
(* of it, reads the sections it has not changed once more and writes the   *)
(* file in place, so that the two processes interleave between any two of  *)
(* these steps and a reader may find the file cut off.                     *)
(*                                                                         *)
(* Three sections stand for the file: "core" for what is only read at the  *)
(* start of an operation (checkpoint, processed, pairing codes, AI         *)
(* credits), "devices" for the two registries (nativeDevices and           *)
(* notifications work alike) and "pull" for the queue of the pull mode     *)
(* with its delivery mode.                                                 *)
(***************************************************************************)
EXTENDS Integers, Sequences, FiniteSets

CONSTANTS
    Daemon, Server,  \* the two processes
    Profiles,        \* bound: the kinds of operations a behaviour has, whether the
                     \* server changes the file, its notifications and its crashes
    UIDs,            \* message UIDs the daemon marks and checkpoints
    Devices,         \* native devices
    Torn,            \* the content of a file that cannot be parsed
    Lost,            \* what is known of a section after an overlap
    NoOp,            \* no operation
    MaxQueue         \* maxPullNotifications

\* The operations, each with what it is called with.
Operations ==
    [kind : {"mark"}, arg : UIDs]
        \cup [kind : {"checkpoint"}, arg : UIDs \cup {0}]
        \cup [kind : {"cleanup"}, arg : SUBSET UIDs]
        \cup [kind : {"upsert", "remove", "approver"}, arg : Devices]
        \cup [kind : {"mode"}, arg : {"push", "pull"}]
        \cup [kind : {"enqueue"}, arg : Nat]

ASSUME ConstantsAssumption ==
    /\ Daemon # Server
    /\ \A b \in Profiles : b.shared \in BOOLEAN /\ b.sent \in Nat /\ b.crashes \in Nat
    /\ UIDs \subseteq Nat \ {0}
    /\ MaxQueue \in Nat \ {0}
    /\ NoOp \notin Operations

Processes == {Daemon, Server}
Sections  == {"core", "devices", "pull"}

VARIABLES
    disk,     \* the content of state.json, or Torn
    mem,      \* each Store's copy of it
    op,       \* the operation each Store is in, NoOp for none
    phase,    \* how far it has come
    dispatch, \* the mode each process read for the notification it is sending,
              \* "none" when it is sending none
    sent,     \* notifications given to EnqueuePullNotification
    cursor,   \* the phone: the cursor of its last poll
    fetched,  \* history: notifications the phone was given
    repeated, \* history: notifications it was given twice
    truth,    \* history: each section as the finished operations leave it, run
              \* one after the other; Lost once a write overlapped another
    crashes,
    bound     \* the behaviour's profile

phone  == <<cursor, fetched, repeated>>
limits == <<crashes, bound>>
vars   == <<disk, mem, op, phase, dispatch, sent, phone, truth, limits>>

Registries == UNION {[D -> BOOLEAN] : D \in SUBSET Devices}

\* The devices that are registered with their approver choices, and the mode,
\* are those the user has chosen before.
FirstFiles ==
    [core    : {[checkpoint |-> 0, processed |-> {}]},
     devices : Registries,
     pull    : {[mode |-> m, queue |-> <<>>, seq |-> 0] : m \in {"push", "pull"}}]

(***************************************************************************)
(* The operations, and what each does to the one section it changes.       *)
(***************************************************************************)
SectionOf(o) ==
    IF o.kind \in {"mark", "checkpoint", "cleanup"} THEN "core"
    ELSE IF o.kind \in {"upsert", "remove", "approver"} THEN "devices"
    ELSE "pull"

Trim(q) ==
    IF Len(q) > MaxQueue THEN SubSeq(q, Len(q) - MaxQueue + 1, Len(q)) ELSE q

Enqueue(v, id) ==
    [v EXCEPT !.seq = @ + 1,
              !.queue = Trim(Append(@, [seq |-> v.seq + 1, id |-> id]))]

\* A device that is known keeps its approver choice when it registers again.
Upsert(v, d) ==
    [x \in DOMAIN v \cup {d} |-> IF x \in DOMAIN v THEN v[x] ELSE TRUE]

Effect(o, v) ==
    CASE o.kind = "mark"       -> [v EXCEPT !.processed = @ \cup {o.arg}]
      [] o.kind = "checkpoint" -> [v EXCEPT !.checkpoint = o.arg]
      [] o.kind = "cleanup"    -> [v EXCEPT !.processed = @ \ o.arg]
      [] o.kind = "upsert"     -> Upsert(v, o.arg)
      [] o.kind = "remove"     -> [d \in DOMAIN v \ {o.arg} |-> v[d]]
      [] o.kind = "approver"   -> [v EXCEPT ![o.arg] = ~@]
      [] o.kind = "mode"       -> [v EXCEPT !.mode = o.arg]
      [] o.kind = "enqueue"    -> Enqueue(v, o.arg)

Apply(o, file) == [file EXCEPT ![SectionOf(o)] = Effect(o, @)]
-----------------------------------------------------------------------------
Init ==
    /\ disk \in FirstFiles
    /\ mem = [p \in Processes |-> disk]
    /\ op = [p \in Processes |-> NoOp]
    /\ phase = [p \in Processes |-> "idle"]
    /\ dispatch = [p \in Processes |-> "none"] /\ sent = 0
    /\ cursor = 0 /\ fetched = {} /\ repeated = {}
    /\ truth = disk
    /\ crashes = 0
    /\ bound \in Profiles

(***************************************************************************)
(* One operation: refreshStateFromDiskLocked and the change in memory, and *)
(* persistLocked: the registries, the pull section, the write.             *)
(***************************************************************************)
\* A file that cannot be parsed ends the operation with an error.
Begin(p, o) ==
    /\ phase[p] = "idle"
    /\ o.kind \in bound.kinds
    /\ disk # Torn
    /\ mem' = [mem EXCEPT ![p] = Apply(o, disk)]
    /\ op' = [op EXCEPT ![p] = o]
    /\ phase' = [phase EXCEPT ![p] = "devices"]
    /\ UNCHANGED <<disk, phone, truth, limits>>

\* The poller's tick works on one message, and one operation, at a time.
InTick  == dispatch[Daemon] = "none" /\ UNCHANGED <<dispatch, sent>>
Outside == UNCHANGED <<dispatch, sent>>

MarkProcessed(u) == Begin(Daemon, [kind |-> "mark", arg |-> u]) /\ InTick
SetCheckpoint(u) == Begin(Daemon, [kind |-> "checkpoint", arg |-> u]) /\ InTick
Cleanup(old)     == Begin(Daemon, [kind |-> "cleanup", arg |-> old]) /\ InTick

\* TriggerUnreadSweep, on the warmup goroutine.
ResetCheckpoint == Begin(Daemon, [kind |-> "checkpoint", arg |-> 0]) /\ Outside

UpsertNativeDevice(d) ==
    Begin(Server, [kind |-> "upsert", arg |-> d]) /\ Outside

SetNativeDeliveryMode(m) ==
    Begin(Server, [kind |-> "mode", arg |-> m]) /\ Outside

\* An unknown device ends these two before they write.
Known(d) == disk # Torn /\ d \in DOMAIN disk.devices

RemoveNativeDevice(p, d) ==
    Known(d) /\ Begin(p, [kind |-> "remove", arg |-> d]) /\ Outside

SetNativeDeviceMFAApprover(d) ==
    Known(d) /\ Begin(Server, [kind |-> "approver", arg |-> d]) /\ Outside

\* SendNativePushToDevices lists the devices and reads the mode.  A read of a
\* torn file falls back on the copy in memory.
Read(p, section) == IF disk = Torn THEN mem[p][section] ELSE disk[section]

NativeDeliveryMode(p) ==
    /\ phase[p] = "idle"
    /\ dispatch[p] = "none"
    /\ "enqueue" \in bound.kinds /\ sent < bound.sent
    /\ DOMAIN Read(p, "devices") # {}
    /\ mem' = [mem EXCEPT ![p].devices = Read(p, "devices"),
                          ![p].pull = Read(p, "pull")]
    /\ dispatch' = [dispatch EXCEPT ![p] = Read(p, "pull").mode]
    /\ UNCHANGED <<disk, op, phase, sent, phone, truth, limits>>

\* In the pull mode it then enqueues; a torn file makes that fail.
EnqueuePullNotification(p) ==
    /\ dispatch[p] = "pull"
    /\ sent < bound.sent
    /\ dispatch' = [dispatch EXCEPT ![p] = "none"]
    /\ sent' = sent + 1
    /\ Begin(p, [kind |-> "enqueue", arg |-> sent + 1])

\* In the push mode it removes the devices whose token the relay calls stale.
Prune(p, d) == dispatch[p] = "push" /\ RemoveNativeDevice(p, d)

DispatchEnds(p) ==
    /\ phase[p] = "idle"
    /\ \/ dispatch[p] = "push"
       \/ dispatch[p] = "pull" /\ disk = Torn
    /\ dispatch' = [dispatch EXCEPT ![p] = "none"]
    /\ UNCHANGED <<disk, mem, op, phase, sent, phone, truth, limits>>

\* Mutant of EndOp: the operation is not forgotten.
EndKeepingOp(p) ==
    /\ phase' = [phase EXCEPT ![p] = "idle"]
    /\ UNCHANGED op

\* A failed read of a section ends the operation; its change stays in memory
\* until the next operation refreshes.
EndOp(p) ==
    /\ op' = [op EXCEPT ![p] = NoOp]
    /\ phase' = [phase EXCEPT ![p] = "idle"]

\* Mutant of Merge: persistLocked writes the sections as they were refreshed.
MergeNothing(p, section, then) ==
    /\ phase[p] = section
    /\ phase' = [phase EXCEPT ![p] = then]
    /\ UNCHANGED <<disk, mem, op, dispatch, sent, phone, truth, limits>>

\* persistLocked reads a section it has not changed once more.
Merge(p, section, then) ==
    /\ phase[p] = section
    /\ IF SectionOf(op[p]) # section /\ disk = Torn
       THEN EndOp(p) /\ UNCHANGED mem
       ELSE /\ mem' = IF SectionOf(op[p]) = section THEN mem
                      ELSE [mem EXCEPT ![p][section] = disk[section]]
            /\ phase' = [phase EXCEPT ![p] = then]
            /\ UNCHANGED op
    /\ UNCHANGED <<disk, dispatch, sent, phone, truth, limits>>

MergeDevices(p) == Merge(p, "devices", "pull")
MergePull(p)    == Merge(p, "pull", "write")

\* os.WriteFile opens the file with O_TRUNC ...
Truncate(p) ==
    /\ phase[p] = "write"
    /\ disk' = Torn
    /\ phase' = [phase EXCEPT ![p] = "writing"]
    /\ UNCHANGED <<mem, op, dispatch, sent, phone, truth, limits>>

\* Has process q read this section for the write it is about to do?
Holds(q, section) ==
    /\ op[q] # NoOp
    /\ CASE section = "core" -> TRUE
         [] section = "devices" -> phase[q] # "devices" \/ SectionOf(op[q]) = section
         [] section = "pull" -> phase[q] \notin {"devices", "pull"}
                                  \/ SectionOf(op[q]) = section

\* ... and writes it.  Over the content another process wrote in between, a
\* shorter one leaves the end of the longer one standing.
Write(p) ==
    LET s == SectionOf(op[p])
        raced == \E q \in Processes \ {p} : Holds(q, s)
    IN  /\ phase[p] = "writing"
        /\ disk' \in {mem[p]} \cup (IF disk = Torn THEN {} ELSE {Torn})
        /\ truth' = [truth EXCEPT ![s] = IF raced \/ @ = Lost THEN Lost
                                         ELSE Effect(op[p], @)]
        /\ EndOp(p)
        /\ UNCHANGED <<mem, dispatch, sent, phone, limits>>
-----------------------------------------------------------------------------
\* Mutant of PullNotificationsAfter: what the cursor is at is given again.
PullNotificationsFrom ==
    LET pull  == Read(Server, "pull")
        given == {pull.queue[i].id :
                     i \in {j \in DOMAIN pull.queue : pull.queue[j].seq >= cursor}}
    IN  /\ phase[Server] = "idle" /\ "poll" \in bound.kinds
        /\ mem' = [mem EXCEPT ![Server].pull = pull]
        /\ fetched' = fetched \cup given
        /\ repeated' = repeated \cup (fetched \cap given)
        /\ cursor' = pull.seq
        /\ UNCHANGED <<disk, op, phase, dispatch, sent, truth, limits>>

\* handleNotificationNativePull: the phone is given what is newer than its
\* cursor and the new cursor.
PullNotificationsAfter ==
    LET pull  == Read(Server, "pull")
        given == {pull.queue[i].id :
                     i \in {j \in DOMAIN pull.queue : pull.queue[j].seq > cursor}}
    IN  /\ phase[Server] = "idle"
        /\ "poll" \in bound.kinds
        /\ mem' = [mem EXCEPT ![Server].pull = pull]
        /\ fetched' = fetched \cup given
        /\ repeated' = repeated \cup (fetched \cap given)
        /\ cursor' = pull.seq
        /\ UNCHANGED <<disk, op, phase, dispatch, sent, truth, limits>>

\* A process dies, between any two steps, and comes up again when its New can
\* parse the file.
Crash(p) ==
    /\ crashes < bound.crashes
    /\ phase[p] # "down"
    /\ crashes' = crashes + 1
    /\ op' = [op EXCEPT ![p] = NoOp]
    /\ phase' = [phase EXCEPT ![p] = "down"]
    /\ dispatch' = [dispatch EXCEPT ![p] = "none"]
    /\ UNCHANGED <<disk, mem, sent, phone, truth, bound>>

New(p) ==
    /\ phase[p] = "down"
    /\ disk # Torn
    /\ mem' = [mem EXCEPT ![p] = disk]
    /\ phase' = [phase EXCEPT ![p] = "idle"]
    /\ UNCHANGED <<disk, op, dispatch, sent, phone, truth, limits>>
-----------------------------------------------------------------------------
DaemonOp ==
    \/ \E u \in UIDs : MarkProcessed(u) \/ SetCheckpoint(u)
    \/ \E old \in SUBSET UIDs : Cleanup(old)
    \/ ResetCheckpoint

\* SendNativePushToDevices, for new mail or for a login to approve.
Dispatch(p) ==
    \/ NativeDeliveryMode(p)
    \/ EnqueuePullNotification(p)
    \/ \E d \in Devices : Prune(p, d)
    \/ DispatchEnds(p)

ServerOp ==
    /\ bound.shared
    /\ \/ \E d \in Devices : \/ UpsertNativeDevice(d)
                             \/ RemoveNativeDevice(Server, d)
                             \/ SetNativeDeviceMFAApprover(d)
       \/ \E m \in {"push", "pull"} : SetNativeDeliveryMode(m)
       \/ Dispatch(Server)

Step(p) == MergeDevices(p) \/ MergePull(p) \/ Truncate(p) \/ Write(p) \/ New(p)

Next ==
    \/ DaemonOp
    \/ Dispatch(Daemon)
    \/ ServerOp
    \/ PullNotificationsAfter
    \/ \E p \in Processes : Step(p) \/ Crash(p)

Spec == Init /\ [][Next]_vars
-----------------------------------------------------------------------------
CoreType == [checkpoint : UIDs \cup {0}, processed : SUBSET UIDs]

Entries == [seq : 1 .. bound.sent, id : 1 .. bound.sent]

PullType ==
    [mode : {"push", "pull"},
     queue : UNION {[1 .. n -> Entries] : n \in 0 .. MaxQueue},
     seq : 0 .. bound.sent]

Files == [core : CoreType, devices : Registries, pull : PullType]

\* The file is always one the program can parse or a torn one.
TypeOK ==
    /\ disk \in Files \cup {Torn}
    /\ mem \in [Processes -> Files]
    /\ \A p \in Processes : (op[p] = NoOp) <=> (phase[p] \in {"idle", "down"})
    /\ phase \in [Processes -> {"idle", "down", "devices", "pull", "write", "writing"}]
    /\ dispatch \in [Processes -> {"none", "push", "pull"}]
    /\ sent \in 0 .. bound.sent /\ cursor \in 0 .. bound.sent
    /\ fetched \subseteq 1 .. bound.sent /\ repeated \subseteq fetched
    /\ truth.core \in CoreType \cup {Lost}
    /\ truth.devices \in Registries \cup {Lost}
    /\ truth.pull \in PullType \cup {Lost}
    /\ crashes \in 0 .. bound.crashes

\* What the re-reads of refreshStateFromDiskLocked and persistLocked achieve: a
\* section changes by the operations that changed it, one after the other,
\* unless a write of it came after the other process had read it for its own.
NoLostUpdate ==
    disk # Torn => \A s \in Sections : truth[s] # Lost => disk[s] = truth[s]

\* While only the daemon writes, the phone is given every notification that is
\* still queued and no longer above its cursor, and none twice, crashes and
\* torn reads included.
PhoneSeesEachOnce ==
    ~bound.shared =>
        /\ repeated = {}
        /\ disk # Torn =>
               \A i \in DOMAIN disk.pull.queue :
                   disk.pull.queue[i].seq <= cursor => disk.pull.queue[i].id \in fetched
=============================================================================
