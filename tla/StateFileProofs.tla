--------------------------- MODULE StateFileProofs ---------------------------
(***************************************************************************)
(* Proofs about StateFile, for any message UIDs, devices, length of the    *)
(* queue, number of notifications and of crashes.                          *)
(*                                                                         *)
(* The types come first.  That no update is lost is not inductive: it says *)
(* nothing of the copies that will be written.  HeldTrue says of a process *)
(* in an operation that each section it has read for its write is what the *)
(* finished operations left (truth), with its own effect on the section it *)
(* changes, until another write of that section overlaps.                  *)
(*                                                                         *)
(* The phone is told of the file, but also of the server's copy while the  *)
(* file is torn, and of what the daemon writes next.  Queue orders the     *)
(* three: each is the one before, some notifications later (Later), and of *)
(* each the phone has the entries up to its cursor (Told).                 *)
(***************************************************************************)
EXTENDS StateFile, SequenceTheorems, TLAPS

Queues ==
    {q \in Seq([seq : Nat \ {0}, id : Nat \ {0}]) : Len(q) <= MaxQueue}

Pulls == [mode : {"push", "pull"}, queue : Queues, seq : Nat]

Stored == [core : CoreType, devices : Registries, pull : Pulls]

\* The entries a pull section keeps.
Kept(v) == {v.queue[i] : i \in DOMAIN v.queue}

\* None is newer than the section's cursor or than the n notifications so far.
Within(v, n) ==
    /\ v.seq <= n
    /\ \A e \in Kept(v) : e.seq <= v.seq /\ e.id <= n

-----------------------------------------------------------------------------
(***************************************************************************)
(* What the operations return.                                             *)
(***************************************************************************)
LEMMA RegistryTypes ==
    ASSUME NEW v \in Registries, NEW d \in Devices
    PROVE  /\ Upsert(v, d) \in Registries
           /\ [x \in DOMAIN v \ {d} |-> v[x]] \in Registries
           /\ [v EXCEPT ![d] = ~@] \in Registries
  <1>1. PICK D \in SUBSET Devices : v \in [D -> BOOLEAN]
    BY DEF Registries
  <1>2. /\ D \cup {d} \in SUBSET Devices
        /\ D \ {d} \in SUBSET Devices
    OBVIOUS
  <1>3. Upsert(v, d) \in [D \cup {d} -> BOOLEAN]
    BY <1>1 DEF Upsert
  <1>4. [x \in DOMAIN v \ {d} |-> v[x]] \in [D \ {d} -> BOOLEAN]
    BY <1>1
  <1>5. [v EXCEPT ![d] = ~@] \in [D -> BOOLEAN]
    BY <1>1
  <1> QED
    BY <1>2, <1>3, <1>4, <1>5 DEF Registries

LEMMA TrimTypes ==
    ASSUME NEW S, NEW q \in Seq(S), Len(q) <= MaxQueue + 1
    PROVE  /\ Trim(q) \in Seq(S)
           /\ Len(Trim(q)) <= MaxQueue
           /\ \A i \in DOMAIN Trim(q) : \E j \in DOMAIN q : Trim(q)[i] = q[j]
  <1>0. MaxQueue \in Nat \ {0} /\ Len(q) \in Nat
    BY ConstantsAssumption
  <1>1. CASE Len(q) > MaxQueue
    <2>1. Trim(q) = SubSeq(q, 2, Len(q))
      BY <1>0, <1>1 DEF Trim
    <2>2. /\ SubSeq(q, 2, Len(q)) \in Seq(S)
          /\ Len(SubSeq(q, 2, Len(q))) = Len(q) - 1
          /\ \A i \in 1 .. Len(q) - 1 : SubSeq(q, 2, Len(q))[i] = q[i + 1]
      BY <1>0, <1>1
    <2>3. DOMAIN SubSeq(q, 2, Len(q)) = 1 .. Len(q) - 1
      BY <2>2, <1>0
    <2>4. \A i \in 1 .. Len(q) - 1 : i + 1 \in DOMAIN q
      BY <1>0
    <2>5. \A i \in DOMAIN Trim(q) : \E j \in DOMAIN q : Trim(q)[i] = q[j]
      <3> SUFFICES ASSUME NEW i \in DOMAIN Trim(q)
                   PROVE  \E j \in DOMAIN q : Trim(q)[i] = q[j]
        OBVIOUS
      <3>1. i \in 1 .. Len(q) - 1
        BY <2>1, <2>3
      <3>2. i + 1 \in DOMAIN q /\ Trim(q)[i] = q[i + 1]
        BY <2>1, <2>2, <2>4, <3>1
      <3> QED
        BY <3>2
    <2>6. Trim(q) \in Seq(S)
      BY <2>1, <2>2
    <2>7. Len(Trim(q)) <= MaxQueue
      <3>1. Len(Trim(q)) = Len(q) - 1
        BY <2>1, <2>2
      <3> HIDE DEF Trim
      <3> QED
        BY <1>0, <3>1
    <2> QED
      BY <2>5, <2>6, <2>7
  <1>2. CASE ~(Len(q) > MaxQueue)
    BY <1>0, <1>2 DEF Trim
  <1> QED
    BY <1>1, <1>2

\* An entry has a place in the sequence and a notification.
LEMMA KeptTypes ==
    ASSUME NEW v \in Pulls
    PROVE  \A e \in Kept(v) : e.seq \in Nat \ {0} /\ e.id \in Nat \ {0}
  <1>1. v.queue \in Seq([seq : Nat \ {0}, id : Nat \ {0}])
    BY DEF Pulls, Queues
  <1>2. \A i \in DOMAIN v.queue : v.queue[i] \in [seq : Nat \ {0}, id : Nat \ {0}]
    <2>1. DOMAIN v.queue = 1 .. Len(v.queue)
      BY <1>1
    <2> QED
      BY <1>1, <2>1, ElementOfSeq
  <1> QED
    BY <1>2 DEF Kept

LEMMA EnqueueTypes ==
    ASSUME NEW v \in Pulls, NEW n \in Nat, Within(v, n)
    PROVE  /\ Enqueue(v, n + 1) \in Pulls
           /\ Enqueue(v, n + 1).seq = v.seq + 1
           /\ Kept(Enqueue(v, n + 1)) \subseteq
                  Kept(v) \cup {[seq |-> v.seq + 1, id |-> n + 1]}
           /\ Within(Enqueue(v, n + 1), n + 1)
  <1> DEFINE E == [seq : Nat \ {0}, id : Nat \ {0}]
             e == [seq |-> v.seq + 1, id |-> n + 1]
             long == Append(v.queue, e)
             w == Enqueue(v, n + 1)
  <1>1. v.queue \in Seq(E) /\ Len(v.queue) <= MaxQueue /\ v.seq \in Nat
    BY DEF Pulls, Queues
  <1>2. e \in E
    BY <1>1
  <1>3. /\ long \in Seq(E)
        /\ Len(long) <= MaxQueue + 1
        /\ DOMAIN long = 1 .. Len(v.queue) + 1
        /\ \A i \in DOMAIN long : long[i] = e \/ (i \in DOMAIN v.queue /\ long[i] = v.queue[i])
    <2>1. /\ long \in Seq(E)
          /\ Len(long) = Len(v.queue) + 1
          /\ \A i \in 1 .. Len(v.queue) : long[i] = v.queue[i]
          /\ long[Len(v.queue) + 1] = e
      BY <1>1, <1>2, AppendProperties
    <2>2. Len(v.queue) \in Nat /\ MaxQueue \in Nat
      BY <1>1, ConstantsAssumption
    <2>3. DOMAIN long = 1 .. Len(v.queue) + 1 /\ DOMAIN v.queue = 1 .. Len(v.queue)
      BY <1>1, <2>1
    <2> HIDE DEF long, e, E
    <2> QED
      BY <1>1, <2>1, <2>2, <2>3
  <1>4. /\ Trim(long) \in Seq(E)
        /\ Len(Trim(long)) <= MaxQueue
        /\ \A i \in DOMAIN Trim(long) : \E j \in DOMAIN long : Trim(long)[i] = long[j]
    BY <1>3, TrimTypes
  <1>5. /\ w \in Pulls /\ w.seq = v.seq + 1 /\ w.queue = Trim(long)
    <2>1. w = [[v EXCEPT !.seq = v.seq + 1] EXCEPT !.queue = Trim(long)]
      BY DEF Enqueue
    <2>2. Trim(long) \in Queues
      BY <1>4 DEF Queues
    <2>3. v = [mode |-> v.mode, queue |-> v.queue, seq |-> v.seq] /\ v.mode \in {"push", "pull"}
      BY DEF Pulls
    <2>4. w = [mode |-> v.mode, queue |-> Trim(long), seq |-> v.seq + 1]
      BY <2>1, <2>3
    <2> HIDE DEF w, long
    <2> QED
      BY <1>1, <2>2, <2>3, <2>4 DEF Pulls
  <1>6. Kept(w) \subseteq Kept(v) \cup {e}
    <2> SUFFICES ASSUME NEW i \in DOMAIN w.queue
                 PROVE  w.queue[i] \in Kept(v) \cup {e}
      BY DEF Kept
    <2>1. PICK j \in DOMAIN long : w.queue[i] = long[j]
      BY <1>4, <1>5
    <2> QED
      BY <1>3, <2>1 DEF Kept
  <1>7. Within(w, n + 1)
    <2>1. \A x \in Kept(v) : x.seq <= v.seq + 1 /\ x.id <= n + 1
      <3> SUFFICES ASSUME NEW x \in Kept(v)
                   PROVE  x.seq <= v.seq + 1 /\ x.id <= n + 1
        OBVIOUS
      <3>1. x.seq \in Nat /\ x.id \in Nat
        BY KeptTypes
      <3> QED
        BY <1>1, <3>1 DEF Within
    <2>2. e.seq <= v.seq + 1 /\ e.id <= n + 1
      BY <1>1
    <2>3. v.seq + 1 <= n + 1
      BY <1>1 DEF Within
    <2> QED
      BY <1>5, <1>6, <2>1, <2>2, <2>3 DEF Within
  <1> QED
    BY <1>5, <1>6, <1>7

\* More notifications leave a section within them.
LEMMA WithinMore ==
    ASSUME NEW v \in Pulls, NEW n \in Nat, Within(v, n)
    PROVE  Within(v, n + 1)
  <1>1. \A e \in Kept(v) : e.seq \in Nat /\ e.id \in Nat
    BY KeptTypes
  <1> QED
    BY <1>1 DEF Within, Pulls

\* A section within the notifications of the profile has the model's type.
LEMMA PullTypes ==
    ASSUME NEW v \in Pulls, bound.sent \in Nat, Within(v, bound.sent)
    PROVE  v \in PullType
  <1>1. v.queue \in Seq([seq : Nat \ {0}, id : Nat \ {0}]) /\ Len(v.queue) <= MaxQueue
    BY DEF Pulls, Queues
  <1>2. Len(v.queue) \in 0 .. MaxQueue
    BY <1>1, ConstantsAssumption
  <1>3. \A i \in 1 .. Len(v.queue) : v.queue[i] \in Entries
    <2> SUFFICES ASSUME NEW i \in 1 .. Len(v.queue)
                 PROVE  v.queue[i] \in Entries
      OBVIOUS
    <2>1. v.queue[i] \in [seq : Nat \ {0}, id : Nat \ {0}]
      BY <1>1, ElementOfSeq
    <2>2. v.queue[i].seq <= v.seq /\ v.queue[i].id <= bound.sent /\ v.seq <= bound.sent
      BY <1>1 DEF Within, Kept
    <2>3. v.seq \in Nat
      BY DEF Pulls
    <2>4. v.queue[i].seq \in 1 .. bound.sent /\ v.queue[i].id \in 1 .. bound.sent
      BY <2>1, <2>2, <2>3
    <2> QED
      BY <2>1, <2>4 DEF Entries
  <1>4. v.queue \in [1 .. Len(v.queue) -> Entries]
    BY <1>1, <1>3
  <1>5. v.queue \in UNION {[1 .. n -> Entries] : n \in 0 .. MaxQueue}
    BY <1>2, <1>4
  <1>6. v.seq \in 0 .. bound.sent
    BY DEF Pulls, Within
  <1> QED
    BY <1>5, <1>6 DEF Pulls, PullType

\* An operation returns a file, whose pull section is within the notifications
\* there are after it.
LEMMA ApplyTypes ==
    ASSUME NEW o \in Operations, NEW file \in Stored, NEW n \in Nat, NEW m \in Nat,
           Within(file.pull, n),
           IF o.kind = "enqueue" THEN m = n + 1 /\ o.arg = m ELSE m = n
    PROVE  /\ Apply(o, file) \in Stored
           /\ Within(Apply(o, file).pull, m)
           /\ \A s \in Sections :
                 Apply(o, file)[s] = IF s = SectionOf(o) THEN Effect(o, file[s]) ELSE file[s]
  <1> DEFINE core == file.core
             devices == file.devices
             pull == file.pull
  <1>0. /\ file = [core |-> core, devices |-> devices, pull |-> pull]
        /\ core \in CoreType /\ devices \in Registries /\ pull \in Pulls
    BY DEF Stored
  <1> HIDE DEF core, devices, pull
  <1>1. CASE SectionOf(o) = "core"
    <2>1. \/ o.kind = "mark" /\ o.arg \in UIDs
          \/ o.kind = "checkpoint" /\ o.arg \in UIDs \cup {0}
          \/ o.kind = "cleanup"
      BY <1>1 DEF SectionOf, Operations
    <2>2. Effect(o, core) \in CoreType
      <3>1. core = [checkpoint |-> core.checkpoint, processed |-> core.processed]
            /\ core.checkpoint \in UIDs \cup {0} /\ core.processed \in SUBSET UIDs
        BY <1>0 DEF CoreType
      <3>2. CASE o.kind = "mark" /\ o.arg \in UIDs
        BY <3>1, <3>2 DEF Effect, CoreType
      <3>3. CASE o.kind = "checkpoint" /\ o.arg \in UIDs \cup {0}
        BY <3>1, <3>3 DEF Effect, CoreType
      <3>4. CASE o.kind = "cleanup"
        BY <3>1, <3>4 DEF Effect, CoreType
      <3> QED
        BY <2>1, <3>2, <3>3, <3>4
    <2>3. Apply(o, file) = [core |-> Effect(o, core), devices |-> devices, pull |-> pull]
      BY <1>0, <1>1 DEF Apply
    <2>4. Within(pull, m)
      BY <1>0, <1>1 DEF SectionOf
    <2> QED
      BY <1>0, <1>1, <2>2, <2>3, <2>4 DEF Stored, Sections
  <1>2. CASE SectionOf(o) = "devices"
    <2>1. o.kind \in {"upsert", "remove", "approver"} /\ o.arg \in Devices
      BY <1>2 DEF SectionOf, Operations
    <2>2. Effect(o, devices) \in Registries
      BY <1>0, <2>1, RegistryTypes DEF Effect
    <2>3. Apply(o, file) = [core |-> core, devices |-> Effect(o, devices), pull |-> pull]
      BY <1>0, <1>2 DEF Apply
    <2>4. Within(pull, m)
      BY <1>0, <1>2 DEF SectionOf
    <2> QED
      BY <1>0, <1>2, <2>2, <2>3, <2>4 DEF Stored, Sections
  <1>3. CASE SectionOf(o) = "pull"
    <2>1. \/ o.kind = "mode" /\ o.arg \in {"push", "pull"}
          \/ o.kind = "enqueue"
      BY <1>3 DEF SectionOf, Operations
    <2>2. Effect(o, pull) \in Pulls /\ Within(Effect(o, pull), m)
      <3>1. CASE o.kind = "mode" /\ o.arg \in {"push", "pull"}
        <4>1. pull = [mode |-> pull.mode, queue |-> pull.queue, seq |-> pull.seq]
              /\ pull.queue \in Queues /\ pull.seq \in Nat
          BY <1>0 DEF Pulls
        <4>2. Effect(o, pull) = [mode |-> o.arg, queue |-> pull.queue, seq |-> pull.seq]
          BY <3>1, <4>1 DEF Effect
        <4>3. Within(pull, m)
          BY <1>0, <3>1
        <4> QED
          BY <3>1, <4>1, <4>2, <4>3 DEF Pulls, Within, Kept
      <3>2. CASE o.kind = "enqueue"
        <4>1. Effect(o, pull) = Enqueue(pull, n + 1) /\ m = n + 1
          BY <3>2 DEF Effect
        <4> QED
          BY <1>0, <4>1, EnqueueTypes
      <3> QED
        BY <2>1, <3>1, <3>2
    <2>3. Apply(o, file) = [core |-> core, devices |-> devices, pull |-> Effect(o, pull)]
      BY <1>0, <1>3 DEF Apply
    <2> QED
      BY <1>0, <1>3, <2>2, <2>3 DEF Stored, Sections
  <1> QED
    BY <1>1, <1>2, <1>3 DEF SectionOf
-----------------------------------------------------------------------------
(***************************************************************************)
(* The types.                                                              *)
(***************************************************************************)
Places == {"idle", "down", "devices", "pull", "write", "writing"}
Modes  == {"none", "push", "pull"}

\* The file and the copies of it, each within the notifications so far.
FilesOK ==
    /\ bound \in Profiles
    /\ sent \in 0 .. bound.sent
    /\ disk # Torn => disk \in Stored /\ Within(disk.pull, sent)
    /\ mem \in [Processes -> Stored]
    /\ \A p \in Processes : Within(mem[p].pull, sent)

OpsOK ==
    /\ op \in [Processes -> Operations \cup {NoOp}]
    /\ phase \in [Processes -> Places]
    /\ \A p \in Processes : (op[p] = NoOp) <=> (phase[p] \in {"idle", "down"})
    /\ dispatch \in [Processes -> Modes]
    /\ crashes \in 0 .. bound.crashes

PhoneOK ==
    /\ cursor \in 0 .. sent
    /\ fetched \subseteq 1 .. sent
    /\ repeated \subseteq fetched

Types == FilesOK /\ OpsOK /\ PhoneOK

\* What each process has read for its write is what the finished operations
\* left, with its own effect on the section it changes.
HeldTrue ==
    \A p \in Processes : op[p] # NoOp =>
        \A s \in Sections : Holds(p, s) /\ truth[s] # Lost =>
            mem[p][s] = IF s = SectionOf(op[p]) THEN Effect(op[p], truth[s]) ELSE truth[s]

TruthOK ==
    /\ truth \in [core : CoreType \cup {Lost}, devices : Registries \cup {Lost},
                  pull : Pulls \cup {Lost}]
    /\ truth.pull # Lost => Within(truth.pull, sent)

History == TruthOK /\ HeldTrue /\ NoLostUpdate

\* Of the entries of a section, a phone with these notifications has those up to
\* its cursor.
Told(v, got, at) == \A e \in Kept(v) : e.id \in got <=> e.seq <= at

\* Section w is v some notifications later.
Later(v, w) ==
    /\ v.seq <= w.seq
    /\ \A e \in Kept(w) :
          /\ e.seq <= v.seq => e \in Kept(v)
          /\ e.seq > v.seq => \A f \in Kept(v) : f.id # e.id

\* While only the daemon writes: the server's copy, the file and the section the
\* daemon is about to write are each some notifications later than the other.
Queue ==
    ~bound.shared =>
        /\ op[Server] = NoOp
        /\ repeated = {}
        /\ cursor <= mem[Server].pull.seq
        /\ Told(mem[Server].pull, fetched, cursor)
        /\ disk # Torn => Told(disk.pull, fetched, cursor) /\ Later(mem[Server].pull, disk.pull)
        /\ op[Daemon] # NoOp =>
              Told(mem[Daemon].pull, fetched, cursor) /\ Later(mem[Server].pull, mem[Daemon].pull)
        /\ op[Daemon] # NoOp /\ disk # Torn => Later(disk.pull, mem[Daemon].pull)
-----------------------------------------------------------------------------
(***************************************************************************)
(* The steps.  Every operation begins alike, whoever calls it.             *)
(***************************************************************************)
Starts(p, o) ==
    /\ Begin(p, o)
    /\ dispatch' \in [Processes -> Modes]
    /\ IF o.kind = "enqueue" THEN o.arg = sent + 1 /\ sent' = o.arg /\ sent < bound.sent
                             ELSE sent' = sent
    /\ bound.shared \/ (p = Daemon /\ o.kind # "mode")

\* SendNativePushToDevices between its operations.
Dispatches(p) ==
    /\ NativeDeliveryMode(p) \/ DispatchEnds(p)
    /\ bound.shared \/ p = Daemon

LEMMA OperationsOf ==
    /\ \A u \in UIDs : [kind |-> "mark", arg |-> u] \in Operations
    /\ \A u \in UIDs \cup {0} : [kind |-> "checkpoint", arg |-> u] \in Operations
    /\ \A old \in SUBSET UIDs : [kind |-> "cleanup", arg |-> old] \in Operations
    /\ \A d \in Devices, k \in {"upsert", "remove", "approver"} :
          [kind |-> k, arg |-> d] \in Operations
    /\ \A m \in {"push", "pull"} : [kind |-> "mode", arg |-> m] \in Operations
    /\ \A n \in Nat : [kind |-> "enqueue", arg |-> n] \in Operations
  BY DEF Operations

LEMMA DaemonStarts ==
    ASSUME OpsOK, DaemonOp
    PROVE  \E o \in Operations : Starts(Daemon, o)
  <1>0. Daemon \in Processes /\ dispatch \in [Processes -> Modes]
    BY DEF Processes, OpsOK
  <1>1. ASSUME NEW u \in UIDs, MarkProcessed(u)
        PROVE  Starts(Daemon, [kind |-> "mark", arg |-> u])
    BY <1>0, <1>1 DEF MarkProcessed, InTick, Starts
  <1>2. ASSUME NEW u \in UIDs, SetCheckpoint(u)
        PROVE  Starts(Daemon, [kind |-> "checkpoint", arg |-> u])
    BY <1>0, <1>2 DEF SetCheckpoint, InTick, Starts
  <1>3. ASSUME NEW old \in SUBSET UIDs, Cleanup(old)
        PROVE  Starts(Daemon, [kind |-> "cleanup", arg |-> old])
    BY <1>0, <1>3 DEF Cleanup, InTick, Starts
  <1>4. ASSUME ResetCheckpoint
        PROVE  Starts(Daemon, [kind |-> "checkpoint", arg |-> 0])
    BY <1>0, <1>4 DEF ResetCheckpoint, Outside, Starts
  <1> QED
    BY <1>1, <1>2, <1>3, <1>4, OperationsOf DEF DaemonOp

LEMMA DispatchStarts ==
    ASSUME FilesOK, OpsOK, NEW p \in Processes, Dispatch(p), bound.shared \/ p = Daemon
    PROVE  Dispatches(p) \/ \E o \in Operations : Starts(p, o)
  <1>0. dispatch \in [Processes -> Modes] /\ sent \in Nat
    BY ConstantsAssumption DEF OpsOK, FilesOK
  <1>1. ASSUME EnqueuePullNotification(p)
        PROVE  Starts(p, [kind |-> "enqueue", arg |-> sent + 1])
    <2>1. dispatch' \in [Processes -> Modes]
      BY <1>0, <1>1 DEF EnqueuePullNotification, Modes
    <2> QED
      BY <1>1, <2>1 DEF EnqueuePullNotification, Starts
  <1>2. ASSUME NEW d \in Devices, Prune(p, d)
        PROVE  Starts(p, [kind |-> "remove", arg |-> d])
    BY <1>0, <1>2 DEF Prune, RemoveNativeDevice, Outside, Starts
  <1>3. CASE EnqueuePullNotification(p)
    <2>1. [kind |-> "enqueue", arg |-> sent + 1] \in Operations
      BY <1>0, OperationsOf
    <2> QED
      BY <1>1, <1>3, <2>1
  <1>4. CASE \E d \in Devices : Prune(p, d)
    <2>1. \A d \in Devices : [kind |-> "remove", arg |-> d] \in Operations
      BY OperationsOf
    <2> QED
      BY <1>2, <1>4, <2>1
  <1>5. CASE NativeDeliveryMode(p) \/ DispatchEnds(p)
    BY <1>5 DEF Dispatches
  <1> QED
    BY <1>3, <1>4, <1>5 DEF Dispatch

LEMMA ServerStarts ==
    ASSUME FilesOK, OpsOK, ServerOp
    PROVE  Dispatches(Server) \/ \E o \in Operations : Starts(Server, o)
  <1>0. /\ Server \in Processes /\ dispatch \in [Processes -> Modes] /\ bound.shared
    BY DEF Processes, OpsOK, ServerOp
  <1>1. ASSUME NEW d \in Devices, UpsertNativeDevice(d)
        PROVE  Starts(Server, [kind |-> "upsert", arg |-> d])
    BY <1>0, <1>1 DEF UpsertNativeDevice, Outside, Starts
  <1>2. ASSUME NEW d \in Devices, RemoveNativeDevice(Server, d)
        PROVE  Starts(Server, [kind |-> "remove", arg |-> d])
    BY <1>0, <1>2 DEF RemoveNativeDevice, Outside, Starts
  <1>3. ASSUME NEW d \in Devices, SetNativeDeviceMFAApprover(d)
        PROVE  Starts(Server, [kind |-> "approver", arg |-> d])
    BY <1>0, <1>3 DEF SetNativeDeviceMFAApprover, Outside, Starts
  <1>4. ASSUME NEW m \in {"push", "pull"}, SetNativeDeliveryMode(m)
        PROVE  Starts(Server, [kind |-> "mode", arg |-> m])
    BY <1>0, <1>4 DEF SetNativeDeliveryMode, Outside, Starts
  <1> QED
    BY <1>0, <1>1, <1>2, <1>3, <1>4, OperationsOf, DispatchStarts DEF ServerOp

LEMMA NextCases ==
    ASSUME FilesOK, OpsOK, Next
    PROVE  \/ \E p \in Processes, o \in Operations : Starts(p, o)
           \/ \E p \in Processes : Dispatches(p) \/ Step(p) \/ Crash(p)
           \/ PullNotificationsAfter
  <1>1. Daemon \in Processes /\ Server \in Processes
    BY DEF Processes
  <1> QED
    BY <1>1, DaemonStarts, DispatchStarts, ServerStarts DEF Next
-----------------------------------------------------------------------------
(***************************************************************************)
(* The types are kept.                                                     *)
(***************************************************************************)
LEMMA ProfileTypes ==
    ASSUME FilesOK
    PROVE  bound.sent \in Nat /\ bound.crashes \in Nat /\ sent \in Nat
  BY ConstantsAssumption DEF FilesOK

LEMMA FirstFile ==
    ASSUME NEW file \in FirstFiles
    PROVE  file \in Stored /\ file.pull.seq = 0 /\ Kept(file.pull) = {} /\ Within(file.pull, 0)
  <1>1. /\ <<>> \in Queues
        /\ [checkpoint |-> 0, processed |-> {}] \in CoreType
    BY ConstantsAssumption DEF Queues, CoreType
  <1>2. PICK m \in {"push", "pull"} : file.pull = [mode |-> m, queue |-> <<>>, seq |-> 0]
    BY DEF FirstFiles
  <1>3. file.pull \in Pulls /\ Kept(file.pull) = {} /\ Within(file.pull, 0)
    BY <1>1, <1>2 DEF Pulls, Within, Kept
  <1>4. file \in Stored
    BY <1>1, <1>3 DEF FirstFiles, Stored
  <1> QED
    BY <1>2, <1>3, <1>4

LEMMA InitTypes == Init => Types
  <1> SUFFICES ASSUME Init
               PROVE  Types
    OBVIOUS
  <1>1. disk \in Stored /\ Within(disk.pull, 0)
    BY FirstFile DEF Init
  <1>2. FilesOK
    BY <1>1, ConstantsAssumption DEF Init, FilesOK
  <1>3. OpsOK
    BY <1>2, ProfileTypes DEF Init, OpsOK, Places, Modes
  <1>4. PhoneOK
    BY DEF Init, PhoneOK
  <1> QED
    BY <1>2, <1>3, <1>4 DEF Types

LEMMA UnchangedTypes == Types /\ UNCHANGED vars => Types'
  BY DEF Types, FilesOK, OpsOK, PhoneOK, vars, phone, limits

LEMMA StartTypes ==
    ASSUME Types, NEW p \in Processes, NEW o \in Operations, Starts(p, o)
    PROVE  Types'
  <1>0. /\ FilesOK /\ OpsOK /\ PhoneOK
        /\ bound.sent \in Nat /\ sent \in Nat
    BY ProfileTypes DEF Types
  <1>1. /\ disk # Torn /\ phase[p] = "idle"
        /\ mem' = [mem EXCEPT ![p] = Apply(o, disk)]
        /\ op' = [op EXCEPT ![p] = o] /\ phase' = [phase EXCEPT ![p] = "devices"]
        /\ UNCHANGED <<disk, cursor, fetched, repeated, truth, crashes, bound>>
    BY DEF Starts, Begin, phone, limits
  <1>2. /\ sent' \in 0 .. bound.sent /\ sent' \in Nat
        /\ sent' = sent \/ sent' = sent + 1
        /\ IF o.kind = "enqueue" THEN sent' = sent + 1 /\ o.arg = sent' ELSE sent' = sent
    BY <1>0 DEF FilesOK, Starts
  <1>3. disk \in Stored /\ Within(disk.pull, sent)
    BY <1>0, <1>1 DEF FilesOK
  <1>4. Apply(o, disk) \in Stored /\ Within(Apply(o, disk).pull, sent')
    BY <1>0, <1>2, <1>3, ApplyTypes
  <1>5. \A v \in Pulls : Within(v, sent) => Within(v, sent')
    BY <1>0, <1>2, WithinMore
  <1>6. \A file \in Stored : file.pull \in Pulls
    BY DEF Stored
  <1>7. FilesOK'
    BY <1>0, <1>1, <1>2, <1>3, <1>4, <1>5, <1>6 DEF FilesOK
  <1>8. OpsOK'
    BY <1>0, <1>1, ConstantsAssumption DEF OpsOK, Places, Starts
  <1>9. PhoneOK'
    BY <1>0, <1>1, <1>2 DEF PhoneOK
  <1> QED
    BY <1>7, <1>8, <1>9 DEF Types

LEMMA DispatchTypes ==
    ASSUME Types, NEW p \in Processes, Dispatches(p)
    PROVE  Types'
  <1>0. FilesOK /\ OpsOK /\ PhoneOK
    BY DEF Types
  <1>1. CASE NativeDeliveryMode(p)
    <2>1. /\ UNCHANGED <<disk, op, phase, sent, cursor, fetched, repeated, truth, crashes, bound>>
          /\ mem' = [mem EXCEPT ![p].devices = Read(p, "devices"), ![p].pull = Read(p, "pull")]
          /\ dispatch' = [dispatch EXCEPT ![p] = Read(p, "pull").mode]
      BY <1>1 DEF NativeDeliveryMode, phone, limits
    <2>2. /\ Read(p, "devices") \in Registries /\ Read(p, "pull") \in Pulls
          /\ Within(Read(p, "pull"), sent)
          /\ Read(p, "pull").mode \in {"push", "pull"}
      BY <1>0 DEF FilesOK, Stored, Read, Pulls
    <2>3. /\ mem'[p] \in Stored /\ Within(mem'[p].pull, sent)
          /\ mem' \in [Processes -> Stored]
          /\ \A q \in Processes : q # p => mem'[q] = mem[q]
      BY <1>0, <2>1, <2>2 DEF FilesOK, Stored
    <2>4. FilesOK'
      BY <1>0, <2>1, <2>3 DEF FilesOK
    <2>5. OpsOK'
      BY <1>0, <2>1, <2>2 DEF OpsOK, Modes
    <2> QED
      BY <1>0, <2>1, <2>4, <2>5 DEF Types, PhoneOK
  <1>2. CASE DispatchEnds(p)
    BY <1>0, <1>2 DEF DispatchEnds, Types, FilesOK, OpsOK, PhoneOK, phone, limits, Modes
  <1> QED
    BY <1>1, <1>2 DEF Dispatches

LEMMA EndOpTypes ==
    ASSUME OpsOK, NEW p \in Processes, EndOp(p), UNCHANGED <<dispatch, crashes, bound>>
    PROVE  OpsOK'
  BY DEF OpsOK, EndOp, Places

LEMMA MergeTypes ==
    ASSUME Types, NEW p \in Processes, NEW section \in {"devices", "pull"},
           NEW then \in {"pull", "write"}, Merge(p, section, then)
    PROVE  Types'
  <1>0. FilesOK /\ OpsOK /\ PhoneOK
    BY DEF Types
  <1>1. /\ phase[p] = section
        /\ UNCHANGED <<disk, dispatch, sent, cursor, fetched, repeated, truth, crashes, bound>>
    BY DEF Merge, phone, limits
  <1>2. CASE EndOp(p) /\ UNCHANGED mem
    BY <1>0, <1>1, <1>2, EndOpTypes DEF Types, FilesOK, PhoneOK
  <1>3. CASE phase' = [phase EXCEPT ![p] = then] /\ UNCHANGED <<op, mem>>
    BY <1>0, <1>1, <1>3 DEF Types, FilesOK, PhoneOK, OpsOK, Places
  <1>4. CASE /\ phase' = [phase EXCEPT ![p] = then] /\ UNCHANGED op
             /\ disk # Torn /\ mem' = [mem EXCEPT ![p][section] = disk[section]]
    <2>1. disk \in Stored /\ Within(disk.pull, sent)
      BY <1>0, <1>4 DEF FilesOK
    <2>2. mem'[p] \in Stored /\ Within(mem'[p].pull, sent)
      <3>1. mem[p] \in Stored /\ Within(mem[p].pull, sent)
        BY <1>0 DEF FilesOK
      <3>2. mem'[p] = [mem[p] EXCEPT ![section] = disk[section]]
        BY <1>0, <1>4 DEF FilesOK
      <3>3. CASE section = "devices"
        BY <2>1, <3>1, <3>2, <3>3 DEF Stored
      <3>4. CASE section = "pull"
        BY <2>1, <3>1, <3>2, <3>4 DEF Stored
      <3> QED
        BY <3>3, <3>4
    <2>3. FilesOK'
      BY <1>0, <1>1, <1>4, <2>1, <2>2 DEF FilesOK
    <2>4. OpsOK'
      BY <1>0, <1>1, <1>4 DEF OpsOK, Places
    <2> QED
      BY <1>0, <1>1, <2>3, <2>4 DEF Types, PhoneOK
  <1> QED
    BY <1>2, <1>3, <1>4 DEF Merge

LEMMA StepTypes ==
    ASSUME Types, NEW p \in Processes, Step(p) \/ Crash(p)
    PROVE  Types'
  <1>0. FilesOK /\ OpsOK /\ PhoneOK
    BY DEF Types
  <1>1. CASE MergeDevices(p) \/ MergePull(p)
    BY <1>1, MergeTypes DEF MergeDevices, MergePull
  <1>2. CASE Truncate(p)
    BY <1>0, <1>2 DEF Truncate, Types, FilesOK, OpsOK, PhoneOK, phone, limits, Places
  <1>3. CASE Write(p)
    <2>1. /\ EndOp(p) /\ disk' \in {mem[p], Torn}
          /\ UNCHANGED <<mem, dispatch, sent, cursor, fetched, repeated, crashes, bound>>
      BY <1>3 DEF Write, phone, limits
    <2>2. FilesOK'
      BY <1>0, <2>1 DEF FilesOK
    <2> QED
      BY <1>0, <2>1, <2>2, EndOpTypes DEF Types, PhoneOK
  <1>4. CASE New(p)
    BY <1>0, <1>4 DEF New, Types, FilesOK, OpsOK, PhoneOK, phone, limits, Places
  <1>5. CASE Crash(p)
    <2>1. bound.crashes \in Nat
      BY <1>0, ProfileTypes
    <2> QED
      BY <1>0, <1>5, <2>1 DEF Crash, Types, FilesOK, OpsOK, PhoneOK, phone, Places, Modes
  <1> QED
    BY <1>1, <1>2, <1>3, <1>4, <1>5 DEF Step

LEMMA PollTypes ==
    ASSUME Types, PullNotificationsAfter
    PROVE  Types'
  <1> DEFINE pull == Read(Server, "pull")
             given == {pull.queue[i].id :
                           i \in {j \in DOMAIN pull.queue : pull.queue[j].seq > cursor}}
  <1>0. FilesOK /\ OpsOK /\ PhoneOK /\ sent \in Nat /\ Server \in Processes
    BY ProfileTypes DEF Types, Processes
  <1>1. pull \in Pulls /\ Within(pull, sent)
    BY <1>0 DEF FilesOK, Stored, Read
  <1>2. /\ mem' = [mem EXCEPT ![Server].pull = pull]
        /\ fetched' = fetched \cup given /\ repeated' = repeated \cup (fetched \cap given)
        /\ cursor' = pull.seq
        /\ UNCHANGED <<disk, op, phase, dispatch, sent, truth, crashes, bound>>
    BY DEF PullNotificationsAfter, limits
  <1>3. given \subseteq 1 .. sent
    <2>1. \A e \in Kept(pull) : e.id \in 1 .. sent
      BY <1>0, <1>1, KeptTypes DEF Within
    <2>2. \A i \in DOMAIN pull.queue : pull.queue[i] \in Kept(pull)
      BY DEF Kept
    <2> QED
      BY <2>1, <2>2
  <1>4. pull.seq \in 0 .. sent
    BY <1>0, <1>1 DEF Within, Pulls
  <1> HIDE DEF pull, given
  <1>5. mem'[Server] \in Stored /\ mem'[Server].pull = pull
    BY <1>0, <1>1, <1>2 DEF FilesOK, Stored
  <1>6. FilesOK'
    BY <1>0, <1>1, <1>2, <1>5 DEF FilesOK
  <1>7. OpsOK' /\ PhoneOK'
    BY <1>0, <1>2, <1>3, <1>4 DEF OpsOK, PhoneOK
  <1> QED
    BY <1>6, <1>7 DEF Types

LEMMA NextTypes == Types /\ [Next]_vars => Types'
  <1> SUFFICES ASSUME Types, [Next]_vars
               PROVE  Types'
    OBVIOUS
  <1>1. CASE UNCHANGED vars
    BY <1>1, UnchangedTypes
  <1>2. CASE Next
    BY <1>2, NextCases, StartTypes, DispatchTypes, StepTypes, PollTypes DEF Types
  <1> QED
    BY <1>1, <1>2

LEMMA TypesAlways == Spec => []Types
  BY InitTypes, NextTypes, PTL DEF Spec
-----------------------------------------------------------------------------
(***************************************************************************)
(* No update is lost.                                                      *)
(***************************************************************************)
\* What p holds is what the finished operations left.
True(p) ==
    \A s \in Sections : Holds(p, s) /\ truth[s] # Lost =>
        mem[p][s] = IF s = SectionOf(op[p]) THEN Effect(op[p], truth[s]) ELSE truth[s]

LEMMA HeldParts == HeldTrue <=> \A p \in Processes : op[p] # NoOp => True(p)
  BY DEF HeldTrue, True

LEMMA InitHistory == Init => History
  <1> SUFFICES ASSUME Init
               PROVE  History
    OBVIOUS
  <1>1. disk \in Stored /\ Within(disk.pull, 0) /\ sent = 0
    BY FirstFile DEF Init
  <1>2. TruthOK
    BY <1>1 DEF Init, TruthOK, Stored
  <1>3. HeldTrue /\ NoLostUpdate
    BY DEF Init, HeldTrue, NoLostUpdate
  <1> QED
    BY <1>2, <1>3 DEF History

\* A process that has not moved holds what it held, while the truth stays.
LEMMA OthersHold ==
    ASSUME HeldTrue, NEW q \in Processes,
           mem'[q] = mem[q], op'[q] = op[q], phase'[q] = phase[q], truth' = truth
    PROVE  op'[q] # NoOp => True(q)'
  BY DEF HeldTrue, True, Holds

LEMMA StartHistory ==
    ASSUME Types, History, NEW p \in Processes, NEW o \in Operations, Starts(p, o)
    PROVE  History'
  <1>0. /\ FilesOK /\ OpsOK /\ TruthOK /\ HeldTrue /\ NoLostUpdate
        /\ bound.sent \in Nat /\ sent \in Nat
    BY ProfileTypes DEF Types, History
  <1>1. /\ disk # Torn
        /\ mem' = [mem EXCEPT ![p] = Apply(o, disk)]
        /\ op' = [op EXCEPT ![p] = o] /\ phase' = [phase EXCEPT ![p] = "devices"]
        /\ UNCHANGED <<disk, truth>>
    BY DEF Starts, Begin
  <1>2. /\ sent' \in Nat /\ sent' \in {sent, sent + 1}
        /\ IF o.kind = "enqueue" THEN sent' = sent + 1 /\ o.arg = sent' ELSE sent' = sent
    BY <1>0 DEF Starts
  <1>3. disk \in Stored /\ Within(disk.pull, sent)
    BY <1>0, <1>1 DEF FilesOK
  <1>4. \A s \in Sections :
           Apply(o, disk)[s] = IF s = SectionOf(o) THEN Effect(o, disk[s]) ELSE disk[s]
    BY <1>0, <1>2, <1>3, ApplyTypes
  <1>5. True(p)'
    <2>1. mem'[p] = Apply(o, disk) /\ op'[p] = o
      BY <1>0, <1>1 DEF FilesOK, OpsOK
    <2>2. \A s \in Sections : truth'[s] # Lost => disk[s] = truth'[s]
      BY <1>0, <1>1 DEF NoLostUpdate
    <2> QED
      BY <1>4, <2>1, <2>2 DEF True
  <1>6. \A q \in Processes : q # p => (op'[q] # NoOp => True(q)')
    BY <1>0, <1>1, OthersHold DEF FilesOK, OpsOK
  <1>7. HeldTrue'
    BY <1>5, <1>6 DEF HeldTrue, True
  <1>8. TruthOK'
    <2>1. truth.pull # Lost => truth.pull \in Pulls /\ Within(truth.pull, sent)
      BY <1>0 DEF TruthOK
    <2>2. truth.pull # Lost => Within(truth.pull, sent')
      BY <1>0, <1>2, <2>1, WithinMore
    <2> QED
      BY <1>0, <1>1, <2>2 DEF TruthOK
  <1>9. NoLostUpdate'
    BY <1>0, <1>1 DEF NoLostUpdate
  <1> QED
    BY <1>7, <1>8, <1>9 DEF History

\* A step that leaves the file, the truth and the other process alone, and its
\* own process with no operation or with what it should hold.
LEMMA QuietHistory ==
    ASSUME History, NEW p \in Processes, disk' = disk \/ disk' = Torn,
           UNCHANGED <<truth, sent>>,
           \A q \in Processes : q # p =>
               mem'[q] = mem[q] /\ op'[q] = op[q] /\ phase'[q] = phase[q],
           op'[p] # NoOp => True(p)'
    PROVE  History'
  <1>0. TruthOK /\ HeldTrue /\ NoLostUpdate
    BY DEF History
  <1>1. \A q \in Processes : q # p => (op'[q] # NoOp => True(q)')
    BY <1>0, OthersHold
  <1>2. HeldTrue'
    BY <1>1 DEF HeldTrue, True
  <1>3. TruthOK' /\ NoLostUpdate'
    BY <1>0 DEF TruthOK, NoLostUpdate
  <1> QED
    BY <1>2, <1>3 DEF History

LEMMA MergeHistory ==
    ASSUME Types, History, NEW p \in Processes, NEW section \in {"devices", "pull"},
           NEW then, then = (IF section = "devices" THEN "pull" ELSE "write"),
           Merge(p, section, then)
    PROVE  History'
  <1>0. FilesOK /\ OpsOK /\ HeldTrue /\ NoLostUpdate
    BY DEF Types, History
  <1>1. /\ phase[p] = section /\ op[p] # NoOp
        /\ UNCHANGED <<disk, sent, truth>>
    BY <1>0 DEF Merge, OpsOK
  <1>2. CASE EndOp(p) /\ UNCHANGED mem
    <2>1. /\ op'[p] = NoOp
          /\ \A q \in Processes : q # p =>
               mem'[q] = mem[q] /\ op'[q] = op[q] /\ phase'[q] = phase[q]
      BY <1>0, <1>2 DEF EndOp, OpsOK
    <2> QED
      BY <1>1, <2>1, QuietHistory
  <1>3. CASE /\ phase' = [phase EXCEPT ![p] = then] /\ UNCHANGED op
             /\ IF SectionOf(op[p]) = section THEN mem' = mem
                ELSE disk # Torn /\ mem' = [mem EXCEPT ![p][section] = disk[section]]
    <2>1. phase'[p] = then /\ op'[p] = op[p]
      BY <1>0, <1>3 DEF OpsOK
    <2>2. \A s \in Sections :
             Holds(p, s)' => Holds(p, s) \/ (s = section /\ SectionOf(op[p]) # section)
      BY <1>1, <2>1 DEF Holds, Sections
    <2>3. \A q \in Processes : q # p =>
               mem'[q] = mem[q] /\ op'[q] = op[q] /\ phase'[q] = phase[q]
      BY <1>0, <1>3 DEF OpsOK, FilesOK
    <2>4. \A s \in Sections : s # section \/ SectionOf(op[p]) = section => mem'[p][s] = mem[p][s]
      <3>1. mem[p] \in Stored
        BY <1>0 DEF FilesOK
      <3> QED
        BY <1>0, <1>3, <3>1 DEF FilesOK, Stored, Sections
    <2>5. SectionOf(op[p]) # section => mem'[p][section] = disk[section] /\ disk # Torn
      BY <1>0, <1>3 DEF FilesOK, Stored
    <2>6. \A s \in Sections : Holds(p, s) /\ truth[s] # Lost =>
             mem[p][s] = IF s = SectionOf(op[p]) THEN Effect(op[p], truth[s]) ELSE truth[s]
      BY <1>0, <1>1 DEF HeldTrue
    <2>7. disk # Torn => \A s \in Sections : truth[s] # Lost => disk[s] = truth[s]
      BY <1>0 DEF NoLostUpdate
    <2>8. True(p)'
      <3> SUFFICES ASSUME NEW s \in Sections, Holds(p, s)', truth[s] # Lost
                   PROVE  mem'[p][s] = IF s = SectionOf(op[p]) THEN Effect(op[p], truth[s])
                                       ELSE truth[s]
        BY <1>1, <2>1 DEF True
      <3>1. CASE s = section /\ SectionOf(op[p]) # section
        BY <2>5, <2>7, <3>1
      <3>2. CASE s # section \/ SectionOf(op[p]) = section
        BY <2>2, <2>4, <2>6, <3>2
      <3> QED
        BY <3>1, <3>2
    <2> QED
      BY <1>1, <2>3, <2>8, QuietHistory
  <1> QED
    BY <1>2, <1>3 DEF Merge

\* A write that overlapped no other of its section adds its effect to the truth.
LEMMA WriteHistory ==
    ASSUME Types, History, NEW p \in Processes, Write(p)
    PROVE  History'
  <1> DEFINE s0 == SectionOf(op[p])
             raced == \E q \in Processes \ {p} : Holds(q, s0)
  <1>0. FilesOK /\ OpsOK /\ TruthOK /\ HeldTrue /\ NoLostUpdate
    BY DEF Types, History
  <1>1. /\ phase[p] = "writing" /\ op[p] # NoOp /\ s0 \in Sections
        /\ disk' = mem[p] \/ disk' = Torn
        /\ truth' = [truth EXCEPT ![s0] = IF raced \/ @ = Lost THEN Lost ELSE Effect(op[p], @)]
        /\ EndOp(p) /\ UNCHANGED <<mem, sent>>
    BY <1>0 DEF Write, OpsOK, SectionOf, Sections
  <1>2. /\ op'[p] = NoOp
        /\ \A q \in Processes : q # p => op'[q] = op[q] /\ phase'[q] = phase[q]
    BY <1>0, <1>1 DEF EndOp, OpsOK
  <1>3. /\ \A s \in Sections : s # s0 => truth'[s] = truth[s]
        /\ truth'[s0] # Lost => ~raced /\ truth[s0] # Lost /\ truth'[s0] = Effect(op[p], truth[s0])
    BY <1>0, <1>1 DEF TruthOK, Sections
  <1>4. \A s \in Sections : truth'[s] # Lost => mem[p][s] = truth'[s]
    <2>1. \A s \in Sections : Holds(p, s)
      BY <1>1 DEF Holds, Sections
    <2>2. \A s \in Sections : truth[s] # Lost =>
             mem[p][s] = IF s = s0 THEN Effect(op[p], truth[s]) ELSE truth[s]
      BY <1>0, <1>1, <2>1 DEF HeldTrue
    <2> QED
      BY <1>3, <2>2
  <1>5. NoLostUpdate'
    BY <1>1, <1>4 DEF NoLostUpdate
  <1>6. HeldTrue'
    <2> SUFFICES ASSUME NEW q \in Processes, op'[q] # NoOp,
                        NEW s \in Sections, Holds(q, s)', truth'[s] # Lost
                 PROVE  mem[q][s] = IF s = SectionOf(op'[q]) THEN Effect(op'[q], truth'[s])
                                    ELSE truth'[s]
      BY <1>1 DEF HeldTrue
    <2>1. q # p /\ op'[q] = op[q] /\ phase'[q] = phase[q]
      BY <1>2
    <2>2. Holds(q, s)
      BY <2>1 DEF Holds
    <2>3. s # s0
      BY <1>3, <2>1, <2>2
    <2> QED
      BY <1>0, <1>3, <2>1, <2>2, <2>3 DEF HeldTrue
  <1>7. TruthOK'
    <2>1. mem[p] \in Stored /\ Within(mem[p].pull, sent)
      BY <1>0 DEF FilesOK
    <2>2. /\ truth'["core"] # Lost => truth'["core"] \in CoreType
          /\ truth'["devices"] # Lost => truth'["devices"] \in Registries
          /\ truth'["pull"] # Lost => truth'["pull"] \in Pulls /\ Within(truth'["pull"], sent)
      BY <1>4, <2>1 DEF Stored, Sections
    <2> QED
      BY <1>0, <1>1, <2>2 DEF TruthOK, Sections
  <1> QED
    BY <1>5, <1>6, <1>7 DEF History

LEMMA RestHistory ==
    ASSUME Types, History, NEW p \in Processes,
           \/ Dispatches(p) \/ Truncate(p) \/ New(p) \/ Crash(p)
           \/ p = Server /\ PullNotificationsAfter
    PROVE  History'
  <1>0. FilesOK /\ OpsOK /\ HeldTrue
    BY DEF Types, History
  <1>1. CASE Dispatches(p) \/ New(p) \/ Crash(p) \/ (p = Server /\ PullNotificationsAfter)
    <2>1. /\ UNCHANGED <<disk, truth, sent>>
          /\ op'[p] = NoOp
          /\ \A q \in Processes : q # p =>
               mem'[q] = mem[q] /\ op'[q] = op[q] /\ phase'[q] = phase[q]
      <3>1. CASE NativeDeliveryMode(p)
        BY <1>0, <3>1 DEF NativeDeliveryMode, OpsOK, FilesOK
      <3>2. CASE DispatchEnds(p)
        BY <1>0, <3>2 DEF DispatchEnds, OpsOK, FilesOK
      <3>3. CASE New(p)
        BY <1>0, <3>3 DEF New, OpsOK, FilesOK
      <3>4. CASE Crash(p)
        BY <1>0, <3>4 DEF Crash, OpsOK, FilesOK
      <3>5. CASE p = Server /\ PullNotificationsAfter
        BY <1>0, <3>5 DEF PullNotificationsAfter, OpsOK, FilesOK
      <3> QED
        BY <1>1, <3>1, <3>2, <3>3, <3>4, <3>5 DEF Dispatches
    <2> QED
      BY <2>1, QuietHistory
  <1>2. CASE Truncate(p)
    <2>1. /\ disk' = Torn /\ UNCHANGED <<truth, sent, mem, op>>
          /\ phase[p] = "write" /\ phase'[p] = "writing"
          /\ \A q \in Processes : q # p => phase'[q] = phase[q]
      BY <1>0, <1>2 DEF Truncate, OpsOK
    <2>2. op'[p] # NoOp => True(p)'
      BY <1>0, <2>1 DEF True, HeldTrue, Holds, Sections
    <2> QED
      BY <2>1, <2>2, QuietHistory
  <1> QED
    BY <1>1, <1>2

LEMMA NextHistory == Types /\ History /\ [Next]_vars => History'
  <1> SUFFICES ASSUME Types, History, [Next]_vars
               PROVE  History'
    OBVIOUS
  <1>1. CASE UNCHANGED vars
    BY <1>1 DEF vars, History, TruthOK, HeldTrue, Holds, NoLostUpdate
  <1>2. ASSUME NEW p \in Processes, Step(p) \/ Crash(p)
        PROVE  History'
    <2>1. CASE MergeDevices(p) \/ MergePull(p)
      BY <2>1, MergeHistory DEF MergeDevices, MergePull
    <2>2. CASE Write(p)
      BY <2>2, WriteHistory
    <2> QED
      BY <1>2, <2>1, <2>2, RestHistory DEF Step
  <1>3. CASE Next
    <2>1. Server \in Processes
      BY DEF Processes
    <2> QED
      BY <1>2, <1>3, <2>1, NextCases, StartHistory, RestHistory DEF Types
  <1> QED
    BY <1>1, <1>3

LEMMA HistoryAlways == Spec => []History
  BY InitHistory, InitTypes, NextHistory, NextTypes, PTL DEF Spec
-----------------------------------------------------------------------------
(***************************************************************************)
(* The phone.                                                              *)
(***************************************************************************)
LEMMA LaterItself ==
    ASSUME NEW v \in Pulls, NEW n \in Nat, Within(v, n)
    PROVE  Later(v, v)
  <1>1. \A e \in Kept(v) : e.seq \in Nat
    BY KeptTypes
  <1> QED
    BY <1>1 DEF Later, Within, Pulls

\* A notification is new to whoever knows the notifications so far.
LEMMA LaterEnqueued ==
    ASSUME NEW v \in Pulls, NEW w \in Pulls, NEW n \in Nat, Within(v, n), Within(w, n),
           Later(v, w)
    PROVE  Later(v, Enqueue(w, n + 1))
  <1> DEFINE e == [seq |-> w.seq + 1, id |-> n + 1]
  <1>1. /\ Enqueue(w, n + 1).seq = w.seq + 1
        /\ Kept(Enqueue(w, n + 1)) \subseteq Kept(w) \cup {e}
    BY EnqueueTypes
  <1>2. v.seq \in Nat /\ w.seq \in Nat /\ v.seq <= w.seq
    BY DEF Pulls, Later
  <1>3. /\ e.seq \in Nat /\ ~(e.seq <= v.seq)
        /\ \A f \in Kept(v) : f.id # e.id
    BY <1>2, KeptTypes DEF Within
  <1> HIDE DEF e
  <1> QED
    BY <1>1, <1>2, <1>3 DEF Later

LEMMA ToldEnqueued ==
    ASSUME NEW w \in Pulls, NEW n \in Nat, Within(w, n), Told(w, fetched, cursor),
           fetched \subseteq 1 .. n, cursor \in Nat, cursor <= w.seq
    PROVE  Told(Enqueue(w, n + 1), fetched, cursor)
  <1> DEFINE e == [seq |-> w.seq + 1, id |-> n + 1]
  <1>1. Kept(Enqueue(w, n + 1)) \subseteq Kept(w) \cup {e}
    BY EnqueueTypes
  <1>2. e.id \notin fetched /\ ~(e.seq <= cursor)
    BY DEF Pulls
  <1> QED
    BY <1>1, <1>2 DEF Told

LEMMA InitQueue == Init => Queue
  <1> SUFFICES ASSUME Init
               PROVE  Queue
    OBVIOUS
  <1>1. /\ disk.pull.seq = 0 /\ Kept(disk.pull) = {}
        /\ \A p \in Processes : mem[p] = disk /\ op[p] = NoOp
        /\ cursor = 0 /\ repeated = {}
    BY FirstFile DEF Init
  <1>2. Daemon \in Processes /\ Server \in Processes
    BY DEF Processes
  <1> QED
    BY <1>1, <1>2 DEF Queue, Told, Later

\* The daemon's operation changes the queue only by one entry.
LEMMA StartQueue ==
    ASSUME Types, Queue, NEW p \in Processes, NEW o \in Operations, Starts(p, o)
    PROVE  Queue'
  <1> SUFFICES ASSUME ~bound.shared
               PROVE  Queue'
    BY DEF Starts, Begin, limits, Queue
  <1> DEFINE S == mem[Server].pull
             F == disk.pull
             D == Apply(o, disk).pull
  <1>0. /\ FilesOK /\ OpsOK /\ PhoneOK
        /\ sent \in Nat /\ Daemon \in Processes /\ Server \in Processes /\ Daemon # Server
        /\ p = Daemon /\ o.kind # "mode"
    BY ProfileTypes, ConstantsAssumption DEF Types, Processes, Starts
  <1>1. /\ disk # Torn
        /\ mem' = [mem EXCEPT ![p] = Apply(o, disk)]
        /\ op' = [op EXCEPT ![p] = o]
        /\ UNCHANGED <<disk, cursor, fetched, repeated, bound>>
    BY DEF Starts, Begin, phone, limits
  <1>2. /\ mem'[Server] = mem[Server] /\ mem'[Daemon].pull = D
        /\ op'[Server] = op[Server]
    BY <1>0, <1>1 DEF FilesOK, OpsOK
  <1>3. /\ S \in Pulls /\ F \in Pulls /\ Within(S, sent) /\ Within(F, sent)
        /\ disk \in Stored
    BY <1>0, <1>1 DEF FilesOK, Stored
  <1>4. /\ op[Server] = NoOp /\ repeated = {} /\ cursor <= S.seq
        /\ Told(S, fetched, cursor) /\ Told(F, fetched, cursor) /\ Later(S, F)
    BY <1>1 DEF Queue
  <1>5. Told(D, fetched, cursor) /\ Later(S, D) /\ Later(F, D)
    <2>1. CASE o.kind = "enqueue"
      <3>1. D = Enqueue(F, sent + 1)
        BY <1>3, <2>1 DEF Apply, SectionOf, Effect, Stored, Starts
      <3>2. cursor \in Nat /\ cursor <= F.seq /\ fetched \subseteq 1 .. sent
        BY <1>0, <1>3, <1>4 DEF PhoneOK, Later, Pulls
      <3> QED
        BY <1>0, <1>3, <1>4, <3>1, <3>2, LaterItself, LaterEnqueued, ToldEnqueued
    <2>2. CASE o.kind # "enqueue"
      <3>1. SectionOf(o) # "pull"
        BY <1>0, <2>2 DEF SectionOf, Operations
      <3>2. D = F
        BY <1>3, <3>1 DEF Apply, Stored, SectionOf
      <3> QED
        BY <1>0, <1>3, <1>4, <3>2, LaterItself
    <2> QED
      BY <2>1, <2>2
  <1> HIDE DEF D
  <1> QED
    BY <1>1, <1>2, <1>4, <1>5 DEF Queue

\* The other steps of the daemon take the section from one place to another.
LEMMA StepQueue ==
    ASSUME Types, Queue, NEW p \in Processes, Dispatches(p) \/ Step(p) \/ Crash(p)
    PROVE  Queue'
  <1>0. /\ FilesOK /\ OpsOK /\ sent \in Nat
        /\ Daemon \in Processes /\ Server \in Processes /\ Daemon # Server
        /\ \A q \in Processes : mem[q] \in Stored
        /\ Processes = {Daemon, Server}
    BY ProfileTypes, ConstantsAssumption DEF Types, Processes, FilesOK
  <1>1. UNCHANGED <<cursor, fetched, repeated, bound>>
    BY DEF Dispatches, NativeDeliveryMode, DispatchEnds, Step, MergeDevices, MergePull, Merge,
           Truncate, Write, New, Crash, phone, limits
  <1> SUFFICES ASSUME ~bound.shared
               PROVE  Queue'
    BY <1>1 DEF Queue
  <1>2. /\ op[Server] = NoOp /\ repeated = {} /\ cursor <= mem[Server].pull.seq
        /\ Told(mem[Server].pull, fetched, cursor)
        /\ disk # Torn => Told(disk.pull, fetched, cursor) /\ Later(mem[Server].pull, disk.pull)
        /\ op[Daemon] # NoOp => /\ Told(mem[Daemon].pull, fetched, cursor)
                                /\ Later(mem[Server].pull, mem[Daemon].pull)
        /\ op[Daemon] # NoOp /\ disk # Torn => Later(disk.pull, mem[Daemon].pull)
    BY DEF Queue
  <1>3. disk # Torn => disk \in Stored /\ Later(disk.pull, disk.pull)
    BY <1>0, LaterItself DEF FilesOK, Stored
  <1>4. /\ phase[Server] \in {"idle", "down"}
        /\ op[Daemon] = NoOp <=> phase[Daemon] \in {"idle", "down"}
    BY <1>0, <1>2 DEF OpsOK
  \* The server is at rest or comes up with the file.
  <1>5. CASE Dispatches(p) \/ (Crash(p) /\ p = Daemon)
    <2>1. /\ p = Daemon /\ op'[Daemon] = NoOp /\ op'[Server] = op[Server]
          /\ mem'[Server] = mem[Server] /\ disk' = disk
      <3>1. CASE NativeDeliveryMode(p) /\ p = Daemon
        BY <1>0, <1>4, <3>1 DEF NativeDeliveryMode, FilesOK
      <3>2. CASE DispatchEnds(p) /\ p = Daemon
        BY <1>0, <1>4, <3>2 DEF DispatchEnds
      <3>3. CASE Crash(p) /\ p = Daemon
        BY <1>0, <3>3 DEF Crash, OpsOK
      <3> QED
        BY <1>5, <3>1, <3>2, <3>3 DEF Dispatches
    <2> QED
      BY <1>1, <1>2, <2>1 DEF Queue
  <1>6. CASE Crash(p) /\ p = Server
    <2>1. op'[Server] = NoOp /\ op'[Daemon] = op[Daemon] /\ mem' = mem /\ disk' = disk
      BY <1>0, <1>6 DEF Crash, OpsOK
    <2> QED
      BY <1>1, <1>2, <2>1 DEF Queue
  <1>7. CASE New(p)
    <2>1. /\ disk # Torn /\ op' = op /\ disk' = disk /\ op[p] = NoOp
          /\ mem'[p] = disk /\ \A q \in Processes : q # p => mem'[q] = mem[q]
      BY <1>0, <1>7 DEF New, OpsOK, FilesOK
    <2>2. CASE p = Daemon
      BY <1>0, <1>1, <1>2, <2>1, <2>2 DEF Queue
    <2>3. CASE p = Server
      <3>1. mem[Server].pull \in Pulls /\ disk.pull \in Pulls
        BY <1>0, <1>3, <2>1 DEF Stored
      <3>2. cursor \in Nat
        BY <1>0 DEF Types, PhoneOK
      <3>3. cursor <= disk.pull.seq
        BY <1>2, <2>1, <3>1, <3>2 DEF Later, Pulls
      <3>4. mem'[Server] = disk /\ mem'[Daemon] = mem[Daemon]
        BY <1>0, <2>1, <2>3
      <3> QED
        BY <1>1, <1>2, <1>3, <2>1, <3>3, <3>4 DEF Queue
    <2> QED
      BY <1>0, <2>2, <2>3
  <1>8. CASE MergeDevices(p) \/ MergePull(p) \/ Truncate(p) \/ Write(p)
    <2>1. p = Daemon /\ op[Daemon] # NoOp
      BY <1>0, <1>4, <1>8 DEF MergeDevices, MergePull, Merge, Truncate, Write
    <2>2. /\ op'[Server] = op[Server] /\ mem'[Server] = mem[Server]
          /\ op'[Daemon] # NoOp => op'[Daemon] = op[Daemon]
      BY <1>0, <1>8, <2>1
         DEF MergeDevices, MergePull, Merge, Truncate, Write, EndOp, OpsOK, FilesOK
    <2>3. CASE MergeDevices(p) \/ MergePull(p)
      <3>1. disk' = disk
        BY <2>3 DEF MergeDevices, MergePull, Merge
      <3>2. \/ mem'[Daemon].pull = mem[Daemon].pull
            \/ disk # Torn /\ mem'[Daemon].pull = disk.pull
            \/ op'[Daemon] = NoOp
        <4>1. CASE MergeDevices(p)
          BY <1>0, <2>1, <4>1 DEF MergeDevices, Merge, EndOp, OpsOK, FilesOK, Stored
        <4>2. CASE MergePull(p)
          BY <1>0, <2>1, <4>2 DEF MergePull, Merge, EndOp, OpsOK, FilesOK, Stored
        <4> QED
          BY <2>3, <4>1, <4>2
      <3> QED
        BY <1>1, <1>2, <1>3, <2>1, <2>2, <3>1, <3>2 DEF Queue
    <2>4. CASE Truncate(p)
      <3>1. disk' = Torn /\ mem' = mem /\ op' = op
        BY <2>4 DEF Truncate
      <3> QED
        BY <1>1, <1>2, <3>1 DEF Queue
    <2>5. CASE Write(p)
      <3>1. /\ disk' = mem[Daemon] \/ disk' = Torn
            /\ mem' = mem /\ op'[Daemon] = NoOp
        BY <1>0, <2>1, <2>5 DEF Write, EndOp, OpsOK
      <3> QED
        BY <1>1, <1>2, <2>1, <2>2, <3>1 DEF Queue
    <2> QED
      BY <1>8, <2>3, <2>4, <2>5
  <1> QED
    BY <1>0, <1>5, <1>6, <1>7, <1>8 DEF Step

\* The phone takes what it was not given before, and its cursor moves on to the
\* cursor of the section it was given.
LEMMA ToldPolled ==
    ASSUME NEW v \in Pulls, NEW w \in Pulls, NEW got, NEW at \in Nat, at <= v.seq,
           Told(v, got, at), Told(w, got, at), Later(v, w)
    PROVE  LET given == {e.id : e \in {f \in Kept(v) : f.seq > at}}
           IN  given \cap got = {} /\ Told(w, got \cup given, v.seq)
  <1> DEFINE given == {e.id : e \in {f \in Kept(v) : f.seq > at}}
  <1>1. /\ \A e \in Kept(v) : e.seq \in Nat
        /\ \A e \in Kept(w) : e.seq \in Nat
        /\ v.seq \in Nat
    BY KeptTypes DEF Pulls
  <1>2. given \cap got = {}
    BY <1>1 DEF Told
  <1>3. ASSUME NEW e \in Kept(w)
        PROVE  e.id \in got \cup given <=> e.seq <= v.seq
    <2>1. CASE e.seq <= v.seq
      <3>1. e \in Kept(v)
        BY <2>1 DEF Later
      <3> QED
        BY <1>1, <2>1, <3>1 DEF Told
    <2>2. CASE e.seq > v.seq
      <3>1. e.id \notin given
        BY <2>2 DEF Later
      <3>2. e.id \notin got
        BY <1>1, <2>2 DEF Told
      <3> QED
        BY <1>1, <2>2, <3>1, <3>2
    <2> QED
      BY <1>1, <2>1, <2>2
  <1> QED
    BY <1>2, <1>3 DEF Told

LEMMA PollQueue ==
    ASSUME Types, Queue, PullNotificationsAfter
    PROVE  Queue' /\ (~bound.shared => cursor' >= cursor)
  <1> SUFFICES ASSUME ~bound.shared
               PROVE  Queue' /\ cursor' >= cursor
    BY DEF PullNotificationsAfter, limits, Queue
  <1> DEFINE v == Read(Server, "pull")
             given == {e.id : e \in {f \in Kept(v) : f.seq > cursor}}
  <1>0. /\ FilesOK /\ OpsOK /\ PhoneOK /\ sent \in Nat /\ cursor \in Nat
        /\ Daemon \in Processes /\ Server \in Processes /\ Daemon # Server
    BY ProfileTypes, ConstantsAssumption DEF Types, Processes, PhoneOK
  <1>1. /\ mem' = [mem EXCEPT ![Server].pull = v]
        /\ fetched' = fetched \cup given /\ repeated' = repeated \cup (fetched \cap given)
        /\ cursor' = v.seq
        /\ UNCHANGED <<disk, op, bound>>
    <2>1. {v.queue[i].id : i \in {j \in DOMAIN v.queue : v.queue[j].seq > cursor}} = given
      BY DEF Kept
    <2> QED
      BY <2>1 DEF PullNotificationsAfter, limits
  <1> HIDE DEF given
  <1>2. /\ op[Server] = NoOp /\ repeated = {} /\ cursor <= mem[Server].pull.seq
        /\ Told(mem[Server].pull, fetched, cursor)
        /\ disk # Torn => Told(disk.pull, fetched, cursor) /\ Later(mem[Server].pull, disk.pull)
        /\ op[Daemon] # NoOp => /\ Told(mem[Daemon].pull, fetched, cursor)
                                /\ Later(mem[Server].pull, mem[Daemon].pull)
        /\ op[Daemon] # NoOp /\ disk # Torn => Later(disk.pull, mem[Daemon].pull)
    BY DEF Queue
  <1>3. /\ mem[Server].pull \in Pulls /\ Within(mem[Server].pull, sent)
        /\ mem[Daemon].pull \in Pulls
        /\ disk # Torn => disk.pull \in Pulls /\ Within(disk.pull, sent)
    BY <1>0 DEF FilesOK, Stored
  <1>4. v = IF disk = Torn THEN mem[Server].pull ELSE disk.pull
    BY DEF Read
  <1>5. /\ v \in Pulls /\ Told(v, fetched, cursor) /\ cursor <= v.seq
        /\ Later(v, v)
        /\ op[Daemon] # NoOp => Later(v, mem[Daemon].pull)
    <2>1. CASE disk = Torn
      BY <1>0, <1>2, <1>3, <1>4, <2>1, LaterItself
    <2>2. CASE disk # Torn
      <3>1. cursor <= disk.pull.seq
        BY <1>0, <1>2, <1>3, <2>2 DEF Later, Pulls
      <3> QED
        BY <1>0, <1>2, <1>3, <1>4, <2>2, <3>1, LaterItself
    <2> QED
      BY <2>1, <2>2
  <1>6. mem'[Server].pull = v /\ mem'[Daemon] = mem[Daemon]
    BY <1>0, <1>1 DEF FilesOK, Stored
  <1> HIDE DEF v
  <1>7. fetched \cap given = {} /\ Told(v, fetched', cursor')
    BY <1>0, <1>1, <1>5, ToldPolled DEF given
  <1>8. op[Daemon] # NoOp => Told(mem[Daemon].pull, fetched', cursor')
    BY <1>0, <1>1, <1>2, <1>3, <1>5, ToldPolled DEF given
  <1>9. v.seq \in Nat /\ v.seq <= v.seq
    BY <1>5 DEF Pulls
  <1>10. Queue'
    BY <1>1, <1>2, <1>4, <1>5, <1>6, <1>7, <1>8, <1>9 DEF Queue
  <1> QED
    BY <1>0, <1>1, <1>5, <1>9, <1>10

LEMMA NextQueue ==
    Types /\ Queue /\ [Next]_vars => Queue' /\ (~bound.shared => cursor' >= cursor)
  <1> SUFFICES ASSUME Types, Queue, [Next]_vars
               PROVE  Queue' /\ (~bound.shared => cursor' >= cursor)
    OBVIOUS
  <1>0. cursor \in Int
    BY DEF Types, PhoneOK
  <1>1. CASE UNCHANGED vars
    BY <1>0, <1>1 DEF vars, phone, limits, Queue, Told, Later
  <1>2. ASSUME NEW p \in Processes, NEW o \in Operations, Starts(p, o)
        PROVE  Queue' /\ cursor' >= cursor
    <2>1. cursor' = cursor
      BY <1>2 DEF Starts, Begin, phone
    <2> QED
      BY <1>0, <1>2, <2>1, StartQueue
  <1>3. ASSUME NEW p \in Processes, Dispatches(p) \/ Step(p) \/ Crash(p)
        PROVE  Queue' /\ cursor' >= cursor
    <2>1. cursor' = cursor
      BY <1>3 DEF Dispatches, NativeDeliveryMode, DispatchEnds, Step, MergeDevices, MergePull,
                  Merge, Truncate, Write, New, Crash, phone
    <2> QED
      BY <1>0, <1>3, <2>1, StepQueue
  <1>4. CASE Next
    BY <1>2, <1>3, <1>4, NextCases, PollQueue DEF Types
  <1> QED
    BY <1>1, <1>4

LEMMA QueueAlways == Spec => []Queue
  BY InitQueue, InitTypes, NextQueue, NextTypes, PTL DEF Spec
-----------------------------------------------------------------------------
\* The file is always one the program can parse or a torn one, whatever the
\* processes and their crashes leave of it.
THEOREM TypeCorrect == Spec => []TypeOK
  <1>1. Types /\ History => TypeOK
    <2> SUFFICES ASSUME Types, History
                 PROVE  TypeOK
      OBVIOUS
    <2>0. FilesOK /\ OpsOK /\ PhoneOK /\ TruthOK /\ bound.sent \in Nat /\ sent \in Nat
          /\ sent <= bound.sent
      BY ProfileTypes DEF Types, History, FilesOK
    <2>1. \A v \in Pulls : Within(v, sent) => v \in PullType
      <3> SUFFICES ASSUME NEW v \in Pulls, Within(v, sent)
                   PROVE  v \in PullType
        OBVIOUS
      <3>1. \A e \in Kept(v) : e.id \in Nat
        BY KeptTypes
      <3>2. Within(v, bound.sent)
        BY <2>0, <3>1 DEF Within, Pulls
      <3> QED
        BY <2>0, <3>2, PullTypes
    <2>2. \A file \in Stored : Within(file.pull, sent) => file \in Files
      BY <2>1 DEF Stored, Files
    <2>3. disk \in Files \cup {Torn} /\ mem \in [Processes -> Files]
      BY <2>0, <2>2 DEF FilesOK
    <2>4. /\ truth.core \in CoreType \cup {Lost}
          /\ truth.devices \in Registries \cup {Lost}
          /\ truth.pull \in PullType \cup {Lost}
      BY <2>0, <2>1 DEF TruthOK
    <2> QED
      BY <2>0, <2>3, <2>4 DEF TypeOK, FilesOK, OpsOK, PhoneOK, Places, Modes
  <1> QED
    BY <1>1, TypesAlways, HistoryAlways, PTL

\* A section of the file changes by the operations that changed it, one after the
\* other, unless a write of it came after the other process had read it.
THEOREM NoLostUpdateAlways == Spec => []NoLostUpdate
  BY HistoryAlways, PTL DEF History

\* While only the daemon writes, every notification at or below the phone's cursor
\* that is still queued was given to it, and none was given twice.
THEOREM PhoneSeesEachOnceAlways == Spec => []PhoneSeesEachOnce
  <1>1. Queue => PhoneSeesEachOnce
    BY DEF Queue, Told, Kept, PhoneSeesEachOnce
  <1> QED
    BY <1>1, QueueAlways, PTL

\* While only the daemon writes, the cursor the phone is given never goes back:
\* not after a torn read, and not after a crash of either process.
THEOREM CursorForward == Spec => [][~bound.shared => cursor' >= cursor]_vars
  BY NextQueue, TypesAlways, QueueAlways, PTL DEF Spec
=============================================================================
