--------------------------- MODULE MailPollerProofs ---------------------------
(***************************************************************************)
(* Proofs about MailPoller.  CheckpointCovers is not inductive: it says    *)
(* nothing of the listing a tick is working through, whose highest UID     *)
(* SetCheckpoint will store.  TickCovers follows that UID from the listing *)
(* to the checkpoint, and Bounded and Marked are what its steps need.      *)
(***************************************************************************)
EXTENDS MailPoller, SequenceTheorems, TLAPS

\* The part of TypeOK the argument uses.
Types ==
    /\ delivered \in 0 .. MaxUID
    /\ unread \subseteq 1 .. delivered
    /\ steady \subseteq unread
    /\ checkpoint \in 0 .. MaxUID
    /\ pc \in {"idle", "fetch", "loop", "handle", "checkpoint"}
    /\ from \in 0 .. MaxUID
    /\ next \in 0 .. MaxUID
    /\ todo \subseteq UID
    /\ cur \in 0 .. MaxUID

\* No UID the server has not handed out yet is below any of these.
Bounded == checkpoint <= delivered /\ from <= delivered /\ next <= delivered

Marked == processed \subseteq accounted

\* What the tick knows of the mail its checkpoint will pass.
TickCovers ==
    /\ pc = "fetch" => \A u \in steady : u <= from => u \in accounted
    /\ pc \in {"loop", "handle", "checkpoint"} =>
          \A u \in steady : u <= next => u \in accounted \cup todo \cup {cur}
    /\ pc # "handle" => cur = 0
    /\ pc = "checkpoint" => todo = {}

IInv == Types /\ Bounded /\ Marked /\ TickCovers /\ CheckpointCovers

LEMMA InitInvariant == Init => IInv
  BY ConstantsAssumption
     DEF Init, IInv, Types, Bounded, Marked, TickCovers, CheckpointCovers, UID

\* Steps of the mail server: a new message is above everything read so far,
\* and a message that leaves or comes back is not steady.
LEMMA MailboxInvariant == ASSUME IInv, Mailbox PROVE IInv'
  <1> USE ConstantsAssumption
          DEF IInv, Types, Bounded, Marked, TickCovers, CheckpointCovers, UID,
              store, tick, work, hist
  <1>1. CASE Deliver
    BY <1>1 DEF Deliver
  <1>2. ASSUME NEW u \in UID, Leave(u) PROVE IInv'
    BY <1>2 DEF Leave
  <1>3. ASSUME NEW u \in UID, MarkUnread(u) PROVE IInv'
    BY <1>3 DEF MarkUnread
  <1> QED
    BY <1>1, <1>2, <1>3 DEF Mailbox

\* Steps of the tick: the listing takes everything above from, and what leaves
\* todo is accounted for or is at work.
LEMMA TickInvariant == ASSUME IInv, TickStep PROVE IInv'
  <1> USE ConstantsAssumption
          DEF IInv, Types, Bounded, Marked, TickCovers, CheckpointCovers, UID,
              mail, store, tick, work, hist
  <1>1. CASE Fetch
    <2>1. /\ pc = "fetch" /\ pc' = "loop" /\ cur = 0
          /\ from' = 0 /\ cur' = cur
          /\ UNCHANGED <<delivered, unread, steady, checkpoint, processed,
                         accounted>>
      BY <1>1 DEF Fetch
    <2>2. todo' = {u \in unread : u > from}
      BY <1>1 DEF Fetch, Candidates
    <2>3. next' \in {u \in unread : u > from} \cup {from}
      BY <1>1 DEF Fetch, Candidates
    <2>4. \A u \in steady : u \in accounted \cup todo'
      BY <2>1, <2>2
    <2>5. next' \in 0 .. MaxUID /\ next' <= delivered
      BY <2>3
    <2>6. todo' \subseteq UID
      <3>1. unread \subseteq UID
        OBVIOUS
      <3> QED
        BY <2>2, <3>1
    <2>7. Types' /\ Bounded' /\ Marked' /\ CheckpointCovers'
      BY <2>1, <2>5, <2>6
    <2>8. TickCovers'
      BY <2>1, <2>4
    <2> QED
      BY <2>7, <2>8
  <1>2. ASSUME NEW u \in UID, Skip(u) PROVE IInv'
    BY <1>2 DEF Skip, IsHead
  <1>3. ASSUME NEW u \in UID, RateStop(u) PROVE IInv'
    BY <1>3 DEF RateStop, IsHead
  <1>4. ASSUME NEW u \in UID, Begin(u) PROVE IInv'
    BY <1>4 DEF Begin, IsHead
  <1>5. CASE LoopEnds
    BY <1>5 DEF LoopEnds
  <1>6. CASE SetCheckpoint
    BY <1>6 DEF SetCheckpoint, TickLeaves
  <1> QED
    BY <1>1, <1>2, <1>3, <1>4, <1>5, <1>6 DEF TickStep

\* Steps of handleMessage leave the listing alone, and its message is accounted
\* for before it is no longer at work.
LEMMA HandleInvariant == ASSUME IInv, HandleStep PROVE IInv'
  <1> USE ConstantsAssumption
          DEF IInv, Types, Bounded, Marked, TickCovers, CheckpointCovers, UID,
              mail, store, tick, hist
  <1>1. CASE RunRules
    BY <1>1 DEF RunRules, At
  <1>2. ASSUME NEW status \in Status, AddDecision(status) PROVE IInv'
    BY <1>2 DEF AddDecision, At
  <1>3. ASSUME NEW result \in {"label", "none", "permanent", "transient"},
               Classify(result)
        PROVE  IInv'
    BY <1>3 DEF Classify, At
  <1>4. CASE ApplyKeywords
    BY <1>4 DEF ApplyKeywords, At
  <1>5. CASE MarkProcessed
    BY <1>5 DEF MarkProcessed, At
  <1>6. CASE Notify
    BY <1>6 DEF Notify, At
  <1>7. CASE Return
    BY <1>7 DEF Return
  <1> QED
    BY <1>1, <1>2, <1>3, <1>4, <1>5, <1>6, <1>7 DEF HandleStep

\* A tick starts from a checkpoint that is covered.
LEMMA StartInvariant ==
    ASSUME IInv, NEW bySweep \in BOOLEAN, TickStart(bySweep)
    PROVE  IInv'
  BY DEF TickStart, IInv, Types, Bounded, Marked, TickCovers, CheckpointCovers,
         UID, mail, work

\* Whatever ends a tick early leaves the checkpoint where it was, and a sweep
\* only moves it back.
LEMMA OtherInvariant ==
    ASSUME IInv,
           FetchFails \/ Refill \/ (\E ok \in BOOLEAN : Warmup(ok)) \/ SweepReset
           \/ Crash \/ Panic \/ UNCHANGED vars
    PROVE  IInv'
  <1> USE ConstantsAssumption
          DEF IInv, Types, Bounded, Marked, TickCovers, CheckpointCovers, UID,
              mail, store, tick, work, hist
  <1>1. CASE FetchFails \/ Crash \/ Panic
    <2>1. TickLeaves /\ UNCHANGED <<mail, store, hist>>
      BY <1>1 DEF FetchFails, Crash, Panic
    <2> QED
      BY <2>1 DEF TickLeaves
  <1>2. CASE Refill
    BY <1>2 DEF Refill
  <1>3. CASE \E ok \in BOOLEAN : Warmup(ok)
    BY <1>3 DEF Warmup
  <1>4. CASE SweepReset
    BY <1>4 DEF SweepReset
  <1>5. CASE UNCHANGED vars
    BY <1>5 DEF vars
  <1> QED
    BY <1>1, <1>2, <1>3, <1>4, <1>5

LEMMA NextInvariant == IInv /\ [Next]_vars => IInv'
  <1> SUFFICES ASSUME IInv, [Next]_vars PROVE IInv'
    OBVIOUS
  <1>1. CASE Mailbox
    BY <1>1, MailboxInvariant
  <1>2. CASE TickStart(FALSE)
    BY <1>2, StartInvariant
  <1>3. CASE TickStep
    BY <1>3, TickInvariant
  <1>4. CASE HandleStep
    BY <1>4, HandleInvariant
  <1>5. CASE Sweep
    <2>1. CASE TickStart(TRUE)
      BY <2>1, StartInvariant
    <2> QED
      BY <1>5, <2>1, OtherInvariant DEF Sweep
  <1>6. CASE FetchFails \/ Refill \/ Crash \/ Panic \/ UNCHANGED vars
    BY <1>6, OtherInvariant
  <1> QED
    BY <1>1, <1>2, <1>3, <1>4, <1>5, <1>6 DEF Next

\* For every number of messages, rate limit and number of crashes: the poller's
\* checkpoint never passes mail that was neither handled nor left at the rate
\* limit (SetCheckpoint at the end of tickUser).
THEOREM CheckpointCoversAlways == Spec => []CheckpointCovers
  <1>1. IInv => CheckpointCovers
    BY DEF IInv
  <1> QED
    BY <1>1, InitInvariant, NextInvariant, PTL DEF Spec
-----------------------------------------------------------------------------
(***************************************************************************)
(* Type correctness.                                                       *)
(***************************************************************************)
LEMMA PathTypes ==
    /\ \A u \in UID : \A p \in HandlePaths(u) : p \in Plans
    /\ LabelPath \in Plans /\ NoLabelPath \in Plans /\ <<>> \in Plans
    /\ FailurePath(TRUE) \in Plans /\ FailurePath(FALSE) \in Plans
  <1>1. /\ RejectPath \in Plans /\ StopPath \in Plans
        /\ LabelPath \in Plans /\ NoLabelPath \in Plans
    BY DEF RejectPath, StopPath, LabelPath, NoLabelPath, Plans, Steps, Status
  <1>2. /\ <<>> \in Plans /\ <<"rule", "applied">> \in Plans
        /\ <<"classify">> \in Plans
    BY DEF Plans, Steps, Status
  <1>3. \A r, l \in Plans : r \o l \in Plans
    BY ConcatProperties DEF Plans
  <1>4. ASSUME NEW u \in UID, NEW p \in HandlePaths(u) PROVE p \in Plans
    <2>1. CASE p \in {RejectPath, StopPath}
      BY <2>1, <1>1
    <2>2. CASE \E r \in {<<>>, <<"rule", "applied">>} :
                 \E l \in {<<"classify">>, LabelPath} : p = r \o l
      <3>1. PICK r \in {<<>>, <<"rule", "applied">>},
                 l \in {<<"classify">>, LabelPath} : p = r \o l
        BY <2>2
      <3>2. r \in Plans /\ l \in Plans
        BY <1>1, <1>2
      <3> QED
        BY <3>1, <3>2, <1>3
    <2> QED
      BY <2>1, <2>2 DEF HandlePaths
  <1>5. FailurePath(TRUE) \in Plans /\ FailurePath(FALSE) \in Plans
    <2>1. FailurePath(TRUE) = <<"failed", "retire", "notify">>
      BY DEF FailurePath
    <2>2. FailurePath(FALSE) = <<"failed", "notify">>
      BY DEF FailurePath
    <2>3. /\ <<"failed", "retire", "notify">> \in Plans
          /\ <<"failed", "notify">> \in Plans
      BY DEF Plans, Steps, Status
    <2> QED
      BY <2>1, <2>2, <2>3
  <1> QED
    BY <1>1, <1>2, <1>4, <1>5

\* The plan is replaced by a path, shortened, emptied or kept.
LEMMA PlanNext == plan \in Plans /\ [Next]_vars => plan' \in Plans
  <1> SUFFICES ASSUME plan \in Plans, [Next]_vars PROVE plan' \in Plans
    OBVIOUS
  <1>1. ASSUME plan # <<>>, Continue PROVE plan' \in Plans
    BY <1>1, HeadTailProperties DEF Continue, Plans
  <1>2. ASSUME Fail PROVE plan' \in Plans
    BY <1>2, PathTypes DEF Fail
  <1>3. ASSUME TickLeaves PROVE plan' \in Plans
    BY <1>3, PathTypes DEF TickLeaves
  <1>4. CASE Mailbox
    BY <1>4 DEF Mailbox, Deliver, Leave, MarkUnread, work
  <1>5. ASSUME NEW bySweep \in BOOLEAN, TickStart(bySweep) PROVE plan' \in Plans
    BY <1>5 DEF TickStart, work
  <1>6. CASE FetchFails \/ SetCheckpoint \/ Crash \/ Panic
    BY <1>6, <1>3 DEF FetchFails, SetCheckpoint, Crash, Panic
  <1>7. CASE Fetch \/ LoopEnds \/ Refill \/ SweepReset \/ \E ok \in BOOLEAN : Warmup(ok)
    BY <1>7 DEF Fetch, LoopEnds, Refill, SweepReset, Warmup, work
  <1>8. ASSUME NEW u \in UID, Skip(u) \/ RateStop(u) PROVE plan' \in Plans
    BY <1>8 DEF Skip, RateStop, work
  <1>9. ASSUME NEW u \in UID, Begin(u) PROVE plan' \in Plans
    BY <1>9, PathTypes DEF Begin
  <1>10. CASE RunRules \/ ApplyKeywords \/ MarkProcessed \/ Notify
    BY <1>10, <1>1, <1>2 DEF RunRules, ApplyKeywords, MarkProcessed, Notify, At
  <1>11. ASSUME NEW status \in Status, AddDecision(status) PROVE plan' \in Plans
    BY <1>11, <1>1, <1>2 DEF AddDecision, At
  <1>12. ASSUME NEW result \in {"label", "none", "permanent", "transient"},
                Classify(result)
         PROVE  plan' \in Plans
    BY <1>12, PathTypes DEF Classify
  <1>13. CASE Return \/ UNCHANGED vars
    BY <1>13 DEF Return, vars, work
  <1> QED
    BY <1>4, <1>5, <1>6, <1>7, <1>8, <1>9, <1>10, <1>11, <1>12, <1>13
       DEF Next, TickStep, HandleStep, Sweep

\* What TypeOK says of the sets that Types leaves.
SetTypes ==
    /\ acted \subseteq UID /\ processed \subseteq UID /\ applied \subseteq UID
    /\ accounted \subseteq UID /\ outage \subseteq UID
    /\ notified \subseteq UID /\ excused \subseteq UID

CounterTypes == slots \in 0 .. Budget /\ crashes \in 0 .. MaxCrashes

FlagTypes ==
    /\ sweeper \in {"off", "warmup", "reset", "swept", "unswept"}

AtWork == (pc = "handle") <=> (cur # 0)

LEMMA SetTypesNext == Types /\ AtWork /\ SetTypes /\ [Next]_vars => SetTypes'
  <1> SUFFICES ASSUME Types, AtWork, SetTypes, [Next]_vars PROVE SetTypes'
    OBVIOUS
  <1>0. pc = "handle" => {cur} \subseteq UID
    BY ConstantsAssumption DEF Types, AtWork, UID
  <1>1. CASE Mailbox
    BY <1>1 DEF Mailbox, Deliver, Leave, MarkUnread, store, hist, SetTypes
  <1>2. ASSUME NEW bySweep \in BOOLEAN, TickStart(bySweep) PROVE SetTypes'
    BY <1>2 DEF TickStart, SetTypes
  <1>3. CASE Fetch \/ FetchFails \/ LoopEnds
    BY <1>3 DEF Fetch, FetchFails, LoopEnds, store, hist, SetTypes
  <1>4. CASE SetCheckpoint
    BY <1>4 DEF SetCheckpoint, hist, SetTypes
  <1>5. ASSUME NEW u \in UID, Skip(u) PROVE SetTypes'
    BY <1>5 DEF Skip, store, hist, SetTypes
  <1>6. ASSUME NEW u \in UID, RateStop(u) PROVE SetTypes'
    BY <1>6 DEF RateStop, store, SetTypes, Types
  <1>7. ASSUME NEW u \in UID, Begin(u) PROVE SetTypes'
    BY <1>7 DEF Begin, store, SetTypes
  <1>8. CASE RunRules
    BY <1>0, <1>8 DEF RunRules, At, store, hist, SetTypes
  <1>9. ASSUME NEW status \in Status, AddDecision(status) PROVE SetTypes'
    BY <1>0, <1>9 DEF AddDecision, At, hist, SetTypes
  <1>10. ASSUME NEW result \in {"label", "none", "permanent", "transient"},
                Classify(result)
         PROVE  SetTypes'
    BY <1>0, <1>10 DEF Classify, At, store, SetTypes
  <1>11. CASE ApplyKeywords
    BY <1>0, <1>11 DEF ApplyKeywords, At, store, hist, SetTypes
  <1>12. CASE MarkProcessed
    BY <1>0, <1>12 DEF MarkProcessed, At, SetTypes
  <1>13. CASE Notify
    BY <1>0, <1>13 DEF Notify, At, store, SetTypes
  <1>14. CASE Return
    BY <1>0, <1>14 DEF Return, store, SetTypes
  <1>15. CASE Refill \/ Crash \/ Panic \/ \E ok \in BOOLEAN : Warmup(ok)
    BY <1>15 DEF Refill, Crash, Panic, Warmup, store, hist, SetTypes
  <1>16. CASE SweepReset
    BY <1>16 DEF SweepReset, hist, SetTypes
  <1>17. CASE UNCHANGED vars
    BY <1>17 DEF vars, store, hist, SetTypes
  <1> QED
    BY <1>1, <1>2, <1>3, <1>4, <1>5, <1>6, <1>7, <1>8, <1>9, <1>10, <1>11, <1>12,
       <1>13, <1>14, <1>15, <1>16, <1>17
       DEF Next, TickStep, HandleStep, Sweep

LEMMA CounterTypesNext == CounterTypes /\ [Next]_vars => CounterTypes'
  <1> SUFFICES ASSUME CounterTypes, [Next]_vars PROVE CounterTypes'
    OBVIOUS
  <1>1. CASE Refill
    BY <1>1, ConstantsAssumption DEF Refill, CounterTypes
  <1>2. CASE Crash
    BY <1>2, ConstantsAssumption DEF Crash, CounterTypes
  <1>3. CASE Panic
    BY <1>3, ConstantsAssumption DEF Panic, CounterTypes
  <1>4. ASSUME NEW u \in UID, Begin(u) PROVE CounterTypes'
    BY <1>4, ConstantsAssumption DEF Begin, CounterTypes
  <1>5. CASE UNCHANGED <<slots, crashes>>
    BY <1>5 DEF CounterTypes
  <1> QED
    BY <1>1, <1>2, <1>3, <1>4, <1>5
       DEF Next, vars, Mailbox, Deliver, Leave, MarkUnread, TickStart, FetchFails,
           TickStep, Fetch, Skip, RateStop, LoopEnds, SetCheckpoint, HandleStep,
           RunRules, AddDecision, Classify, ApplyKeywords, MarkProcessed, Notify,
           Return, Sweep, Warmup, SweepReset

LEMMA FlagTypesNext == FlagTypes /\ [Next]_vars => FlagTypes'
  <1> SUFFICES ASSUME FlagTypes, [Next]_vars PROVE FlagTypes'
    OBVIOUS
  <1>1. ASSUME NEW bySweep \in BOOLEAN, TickStart(bySweep) PROVE FlagTypes'
    BY <1>1 DEF TickStart, FlagTypes
  <1>2. CASE FetchFails \/ SetCheckpoint \/ Crash \/ Panic
    BY <1>2 DEF FetchFails, SetCheckpoint, Crash, Panic, TickLeaves, FlagTypes
  <1>3. CASE Fetch
    BY <1>3 DEF Fetch, FlagTypes
  <1>4. CASE SweepReset \/ \E ok \in BOOLEAN : Warmup(ok)
    BY <1>4 DEF SweepReset, Warmup, tick, FlagTypes
  <1>5. CASE UNCHANGED sweeper
    BY <1>5 DEF FlagTypes
  <1> QED
    BY <1>1, <1>2, <1>3, <1>4, <1>5
       DEF Next, vars, tick, Mailbox, Deliver, Leave, MarkUnread, TickStep, Skip,
           RateStop, Begin, LoopEnds, HandleStep, RunRules, AddDecision, Classify,
           ApplyKeywords, MarkProcessed, Notify, Return, Refill, Sweep

LEMMA AtWorkNext == AtWork /\ [Next]_vars => AtWork'
  <1> SUFFICES ASSUME AtWork, [Next]_vars PROVE AtWork'
    OBVIOUS
  <1>1. ASSUME NEW bySweep \in BOOLEAN, TickStart(bySweep) PROVE AtWork'
    BY <1>1 DEF TickStart, AtWork, work
  <1>2. CASE FetchFails \/ SetCheckpoint \/ Crash \/ Panic
    BY <1>2 DEF FetchFails, SetCheckpoint, Crash, Panic, TickLeaves, AtWork
  <1>3. CASE Fetch \/ LoopEnds
    BY <1>3 DEF Fetch, LoopEnds, AtWork, work
  <1>4. ASSUME NEW u \in UID, RateStop(u) PROVE AtWork'
    BY <1>4 DEF RateStop, AtWork, work
  <1>5. ASSUME NEW u \in UID, Begin(u) PROVE AtWork'
    BY <1>5, ConstantsAssumption DEF Begin, AtWork, UID
  <1>6. CASE Return
    BY <1>6 DEF Return, AtWork
  <1>7. CASE UNCHANGED <<pc, cur>>
    BY <1>7 DEF AtWork
  <1> QED
    BY <1>1, <1>2, <1>3, <1>4, <1>5, <1>6, <1>7
       DEF Next, vars, work, Mailbox, Deliver, Leave, MarkUnread, TickStep, Skip,
           HandleStep, RunRules, AddDecision, Classify, ApplyKeywords,
           MarkProcessed, Notify, Refill, Sweep, Warmup, SweepReset

TypesInv ==
    IInv /\ plan \in Plans /\ SetTypes /\ CounterTypes /\ FlagTypes /\ AtWork

\* The variables of the poller keep their types, and a message is at work
\* exactly while handleMessage runs, for every value of the constants.
THEOREM TypeCorrect == Spec => []TypeOK
  <1>1. Init => TypesInv
    <2> SUFFICES ASSUME Init PROVE TypesInv
      OBVIOUS
    <2>1. plan \in Plans
      BY PathTypes DEF Init
    <2>2. SetTypes /\ CounterTypes
      BY ConstantsAssumption DEF Init, SetTypes, CounterTypes
    <2>3. FlagTypes /\ AtWork
      BY DEF Init, FlagTypes, AtWork
    <2> QED
      BY <2>1, <2>2, <2>3, InitInvariant DEF TypesInv
  <1>2. TypesInv /\ [Next]_vars => TypesInv'
    BY NextInvariant, PlanNext, SetTypesNext, CounterTypesNext, FlagTypesNext,
       AtWorkNext DEF TypesInv, IInv
  <1>3. TypesInv => TypeOK
    BY DEF TypesInv, IInv, Types, SetTypes, CounterTypes, FlagTypes, AtWork, TypeOK
  <1> QED
    BY <1>1, <1>2, <1>3, PTL DEF Spec
-----------------------------------------------------------------------------
(***************************************************************************)
(* Notifications, outages and the journal.  The three invariants depend on *)
(* the steps handleMessage has left: HInv says which order they keep, of   *)
(* the tail of every path.                                                 *)
(***************************************************************************)
\* The paths through matching rules, written out.
LEMMA RuledPaths ==
    /\ <<"rule", "applied">> \o <<"classify">> = <<"rule", "applied", "classify">>
    /\ <<"rule", "applied">> \o LabelPath
          = <<"rule", "applied", "label", "mark", "applied", "notify">>
  <1> DEFINE r == <<"rule", "applied">>
             a == <<"classify">>
             b == <<"rule", "applied", "classify">>
             c == <<"label", "mark", "applied", "notify">>
             d == <<"rule", "applied", "label", "mark", "applied", "notify">>
  <1>1. r \in Plans /\ a \in Plans /\ b \in Plans /\ c \in Plans /\ d \in Plans
    BY DEF Plans, Steps, Status
  <1>2. /\ r \o a \in Plans /\ Len(r \o a) = 3
        /\ \A i \in 1 .. 3 : (r \o a)[i] = IF i <= 2 THEN r[i] ELSE a[i - 2]
    BY <1>1, ConcatProperties DEF Plans
  <1>3. /\ r \o c \in Plans /\ Len(r \o c) = 6
        /\ \A i \in 1 .. 6 : (r \o c)[i] = IF i <= 2 THEN r[i] ELSE c[i - 2]
    BY <1>1, ConcatProperties DEF Plans
  <1>4. r \o a = b
    <2>1. \A i \in 1 .. 3 : (r \o a)[i] = b[i]
      BY <1>2
    <2> QED
      BY <1>1, <1>2, <2>1, SeqEqual DEF Plans
  <1>5. r \o c = d
    <2>1. \A i \in 1 .. 6 : (r \o c)[i] = d[i]
      BY <1>3
    <2> QED
      BY <1>1, <1>3, <2>1, SeqEqual DEF Plans
  <1> QED
    BY <1>4, <1>5 DEF LabelPath

\* What is true of a path before its first step.
Proper(p) ==
    \A i \in 1 .. Len(p) :
        /\ p[i] = "applied" => \E j \in 1 .. i - 1 : p[j] \in {"label", "rule"}
        /\ p[i] = "classify" => \A j \in 1 .. i - 1 : p[j] \notin {"mark", "retire"}
        /\ p[i] = "notify" => i = Len(p)

Closing(p) ==
    \A i \in 1 .. Len(p) :
        p[i] = "notify" => \E j \in 1 .. i - 1 : p[j] \in {"mark", "retire"}

LEMMA ProperPaths ==
    /\ \A u \in UID : \A p \in HandlePaths(u) : Proper(p) /\ Closing(p) /\ Len(p) > 0
    /\ Proper(LabelPath) /\ Closing(LabelPath)
    /\ Proper(NoLabelPath) /\ Closing(NoLabelPath)
    /\ Proper(FailurePath(TRUE)) /\ Closing(FailurePath(TRUE))
    /\ Proper(FailurePath(FALSE))
    /\ \A i \in 1 .. Len(FailurePath(FALSE)) : FailurePath(FALSE)[i] \in {"failed", "notify"}
  <1>1. Proper(LabelPath) /\ Closing(LabelPath)
    BY DEF LabelPath, Proper, Closing
  <1>2. Proper(NoLabelPath) /\ Closing(NoLabelPath)
    BY DEF NoLabelPath, Proper, Closing
  <1>3. Proper(FailurePath(TRUE)) /\ Closing(FailurePath(TRUE))
    BY DEF FailurePath, Proper, Closing
  <1>4. /\ Proper(FailurePath(FALSE))
        /\ \A i \in 1 .. Len(FailurePath(FALSE)) : FailurePath(FALSE)[i] \in {"failed", "notify"}
    BY DEF FailurePath, Proper
  <1>5. Proper(RejectPath) /\ Closing(RejectPath) /\ Len(RejectPath) > 0
    BY DEF RejectPath, Proper, Closing
  <1>6. Proper(StopPath) /\ Closing(StopPath) /\ Len(StopPath) > 0
    BY DEF StopPath, Proper, Closing
  <1>7. \A p \in {<<"classify">>, <<"rule", "applied", "classify">>} :
           Proper(p) /\ Closing(p) /\ Len(p) > 0
    <2>1. /\ Proper(<<"classify">>) /\ Closing(<<"classify">>)
          /\ Len(<<"classify">>) > 0
      BY DEF Proper, Closing
    <2>2. LET p == <<"rule", "applied", "classify">>
          IN  Proper(p) /\ Closing(p) /\ Len(p) > 0
      <3> DEFINE p == <<"rule", "applied", "classify">>
      <3>1. Len(p) = 3 /\ p[1] = "rule" /\ p[2] = "applied" /\ p[3] = "classify"
        OBVIOUS
      <3> HIDE DEF p
      <3>2. \A i \in 1 .. Len(p) : i \in {1, 2, 3}
        BY <3>1
      <3>3. \A i, j \in {1, 2, 3} : j \in 1 .. i - 1 <=> j < i
        OBVIOUS
      <3>4. Proper(p) /\ Closing(p) /\ Len(p) > 0
        BY <3>1, <3>2, <3>3 DEF Proper, Closing
      <3> QED
        BY <3>4 DEF p
    <2> QED
      BY <2>1, <2>2
  <1>8. LET p == <<"rule", "applied", "label", "mark", "applied", "notify">>
        IN  Proper(p) /\ Closing(p) /\ Len(p) > 0
    <2> DEFINE p == <<"rule", "applied", "label", "mark", "applied", "notify">>
    <2>1. /\ Len(p) = 6 /\ p[1] = "rule" /\ p[2] = "applied" /\ p[3] = "label"
          /\ p[4] = "mark" /\ p[5] = "applied" /\ p[6] = "notify"
      OBVIOUS
    <2> HIDE DEF p
    <2>2. ASSUME NEW i \in 1 .. Len(p)
          PROVE  /\ p[i] = "applied" => \E j \in 1 .. i - 1 : p[j] \in {"label", "rule"}
                 /\ p[i] # "classify"
                 /\ p[i] = "notify" => i = Len(p)
                 /\ p[i] = "notify" => \E j \in 1 .. i - 1 : p[j] \in {"mark", "retire"}
      <3>1. i \in {1, 2, 3, 4, 5, 6}
        BY <2>1
      <3>2. i \in {2, 5} => 1 \in 1 .. i - 1
        OBVIOUS
      <3>3. i = 6 => 4 \in 1 .. i - 1
        OBVIOUS
      <3> QED
        BY <2>1, <3>1, <3>2, <3>3
    <2>3. Proper(p) /\ Closing(p) /\ Len(p) > 0
      BY <2>1, <2>2 DEF Proper, Closing
    <2> QED
      BY <2>3 DEF p
  <1>9. Len(LabelPath) > 0 /\ <<>> \o LabelPath = LabelPath
        /\ <<>> \o <<"classify">> = <<"classify">>
    BY DEF LabelPath
  <1>10. ASSUME NEW u \in UID, NEW p \in HandlePaths(u)
         PROVE  Proper(p) /\ Closing(p) /\ Len(p) > 0
    <2>1. p \in {RejectPath, StopPath, LabelPath, <<"classify">>,
                 <<"rule", "applied", "classify">>,
                 <<"rule", "applied", "label", "mark", "applied", "notify">>}
      <3>1. CASE p \in {RejectPath, StopPath}
        BY <3>1
      <3>2. CASE \E r \in {<<>>, <<"rule", "applied">>} :
                   \E l \in {<<"classify">>, LabelPath} : p = r \o l
        BY <3>2, <1>9, RuledPaths
      <3> QED
        BY <3>1, <3>2 DEF HandlePaths
    <2> QED
      BY <2>1, <1>1, <1>5, <1>6, <1>7, <1>8, <1>9
  <1> QED
    BY <1>1, <1>2, <1>3, <1>4, <1>10

LEMMA TailPlan ==
    ASSUME NEW p \in Plans, p # <<>>
    PROVE  /\ Len(p) \in Nat \ {0} /\ p[1] = Head(p)
           /\ Len(Tail(p)) = Len(p) - 1
           /\ \A i \in 1 .. Len(p) - 1 : Tail(p)[i] = p[i + 1]
  BY HeadTailProperties DEF Plans

\* What the steps left to handleMessage rest on: the journal comes after labels
\* or rules, a classification before every mark, a notification last and after
\* the mark, and after an outage nothing is marked.
PlanKept ==
    pc = "handle" =>
        \A i \in 1 .. Len(plan) :
            /\ plan[i] = "applied" =>
                  cur \in acted \/ \E j \in 1 .. i - 1 : plan[j] \in {"label", "rule"}
            /\ plan[i] = "classify" =>
                  /\ cur \notin processed
                  /\ \A j \in 1 .. i - 1 : plan[j] \notin {"mark", "retire"}
            /\ plan[i] = "notify" =>
                  /\ i = Len(plan)
                  /\ \/ cur \in outage \cup processed \cup excused
                     \/ \E j \in 1 .. i - 1 : plan[j] \in {"mark", "retire"}
            /\ cur \in outage => plan[i] \in {"failed", "notify"}

\* What was notified is marked or excused, and the message at work was not
\* notified while a step is left to it.
MarkedFirst ==
    /\ notified \subseteq processed \cup excused
    /\ pc = "handle" /\ plan # <<>> => cur \notin notified \/ cur \in excused

HInv == PlanKept /\ MarkedFirst /\ OutageNeverRetires /\ JournalTruthful

LEMMA HInvBegin ==
    ASSUME HInv, NEW u \in UID, Begin(u) PROVE HInv'
  <1>1. /\ plan' \in HandlePaths(u) /\ cur' = u /\ u \notin processed
        /\ outage' = outage \ {u} /\ pc' = "handle"
        /\ UNCHANGED <<acted, processed, applied, notified, excused>>
    BY DEF Begin, store
  <1>2. Proper(plan') /\ Closing(plan')
    BY <1>1, ProperPaths
  <1>3. PlanKept'
    BY <1>1, <1>2 DEF PlanKept, Proper, Closing
  <1> QED
    BY <1>1, <1>3 DEF HInv, MarkedFirst, OutageNeverRetires, JournalTruthful

\* A step that is done leaves the tail of the plan.
LEMMA HInvContinue ==
    ASSUME HInv, plan \in Plans, NEW step, At(step), Continue,
           pc' = pc, cur' = cur, outage' = outage,
           acted \subseteq acted', applied' \subseteq acted',
           processed \subseteq processed', excused \subseteq excused',
           processed' \subseteq processed \cup {cur},
           notified' \subseteq processed' \cup excused',
           step # "notify" => notified' = notified,
           step \in {"label", "rule"} => cur \in acted',
           step \in {"mark", "retire"} => cur \in processed' \cup excused',
           step \notin {"mark", "retire"} => processed' = processed
    PROVE  HInv'
  <1>1. /\ Len(plan) \in Nat \ {0} /\ plan[1] = step /\ plan' = Tail(plan)
        /\ Len(plan') = Len(plan) - 1 /\ plan # <<>>
        /\ \A i \in 1 .. Len(plan) - 1 : plan'[i] = plan[i + 1]
    BY TailPlan DEF At, Continue
  <1>2. pc = "handle" /\ pc' = "handle" /\ 1 \in 1 .. Len(plan)
    BY <1>1 DEF At
  <1>3. ASSUME NEW i \in 1 .. Len(plan'), plan'[i] = "applied"
        PROVE  cur' \in acted' \/ \E j \in 1 .. i - 1 : plan'[j] \in {"label", "rule"}
    <2>1. plan[i + 1] = "applied" /\ i + 1 \in 1 .. Len(plan)
      BY <1>1, <1>3
    <2>2. CASE cur \in acted
      BY <2>2
    <2>3. CASE \E j \in 1 .. i : plan[j] \in {"label", "rule"}
      <3>1. PICK j \in 1 .. i : plan[j] \in {"label", "rule"}
        BY <2>3
      <3>2. CASE j = 1
        BY <3>1, <3>2, <1>1
      <3>3. CASE j # 1
        <4>1. j - 1 \in 1 .. i - 1 /\ plan'[j - 1] = plan[j]
          BY <3>3, <1>1
        <4> QED
          BY <3>1, <4>1
      <3> QED
        BY <3>2, <3>3
    <2> QED
      BY <2>1, <2>2, <2>3, <1>2 DEF HInv, PlanKept
  <1>4. ASSUME NEW i \in 1 .. Len(plan'), plan'[i] = "classify"
        PROVE  /\ cur' \notin processed'
               /\ \A j \in 1 .. i - 1 : plan'[j] \notin {"mark", "retire"}
    <2>1. plan[i + 1] = "classify" /\ i + 1 \in 1 .. Len(plan)
      BY <1>1, <1>4
    <2>2. cur \notin processed /\ \A j \in 1 .. i : plan[j] \notin {"mark", "retire"}
      BY <2>1, <1>2 DEF HInv, PlanKept
    <2> QED
      BY <2>2, <1>1
  <1>5. ASSUME NEW i \in 1 .. Len(plan'), plan'[i] = "notify"
        PROVE  /\ i = Len(plan')
               /\ \/ cur' \in outage' \cup processed' \cup excused'
                  \/ \E j \in 1 .. i - 1 : plan'[j] \in {"mark", "retire"}
    <2>1. plan[i + 1] = "notify" /\ i + 1 \in 1 .. Len(plan)
      BY <1>1, <1>5
    <2>2. i + 1 = Len(plan) /\ i = Len(plan')
      <3>1. i + 1 = Len(plan)
        BY <2>1, <1>2 DEF HInv, PlanKept
      <3>2. i \in 1 .. Len(plan) - 1
        BY <1>1
      <3> QED
        BY <3>1, <3>2, <1>1
    <2>3. CASE cur \in outage \cup processed \cup excused
      BY <2>2, <2>3, <1>1
    <2>4. CASE \E j \in 1 .. i : plan[j] \in {"mark", "retire"}
      <3>1. PICK j \in 1 .. i : plan[j] \in {"mark", "retire"}
        BY <2>4
      <3>2. CASE j = 1
        <4>1. step \in {"mark", "retire"}
          BY <3>1, <3>2, <1>1
        <4> QED
          BY <4>1, <2>2
      <3>3. CASE j # 1
        <4>1. j - 1 \in 1 .. i - 1 /\ j - 1 \in 1 .. Len(plan) - 1
          BY <3>3, <2>2, <1>1
        <4>2. plan'[j - 1] = plan[j]
          BY <4>1, <1>1
        <4>3. plan'[j - 1] \in {"mark", "retire"}
          BY <3>1, <4>2
        <4> QED
          BY <4>1, <4>3, <2>2
      <3> QED
        BY <3>2, <3>3
    <2> QED
      BY <2>1, <2>3, <2>4, <1>2 DEF HInv, PlanKept
  <1>6. ASSUME NEW i \in 1 .. Len(plan'), cur' \in outage'
        PROVE  plan'[i] \in {"failed", "notify"}
    <2>1. plan'[i] = plan[i + 1] /\ i + 1 \in 1 .. Len(plan)
      BY <1>1, <1>6
    <2>2. plan[i + 1] \in {"failed", "notify"}
      BY <1>2, <1>6, <2>1 DEF HInv, PlanKept
    <2> QED
      BY <2>1, <2>2
  <1>7. PlanKept'
    BY <1>3, <1>4, <1>5, <1>6 DEF PlanKept
  <1>8. OutageNeverRetires'
    <2>1. cur \in outage => plan[1] \in {"failed", "notify"}
      BY <1>2 DEF HInv, PlanKept
    <2>2. step \in {"mark", "retire"} => cur \notin outage
      BY <2>1, <1>1
    <2> QED
      BY <2>2 DEF HInv, OutageNeverRetires
  <1>9. MarkedFirst'
    <2>1. CASE step = "notify"
      <3>1. plan' = <<>>
        <4>1. Len(plan') = 0
          <5>1. plan[1] = "notify" => 1 = Len(plan)
            BY <1>2 DEF HInv, PlanKept
          <5> QED
            BY <5>1, <2>1, <1>1
        <4>2. plan' \in Plans
          BY <1>1, HeadTailProperties DEF Plans
        <4> QED
          BY <4>1, <4>2, EmptySeq DEF Plans
      <3> QED
        BY <3>1 DEF MarkedFirst
    <2>2. CASE step # "notify"
      BY <2>2, <1>1, <1>2 DEF HInv, MarkedFirst
    <2> QED
      BY <2>1, <2>2
  <1> QED
    BY <1>7, <1>8, <1>9 DEF JournalTruthful, HInv

\* A step that turns to another path finds the message neither marked by the
\* path it leaves nor in an outage.
LEMMA HInvTurn ==
    ASSUME HInv, plan \in Plans,
           NEW step \in {"label", "mark", "applied", "rejected", "classify"}, At(step),
           plan' \in {FailurePath(TRUE), LabelPath, NoLabelPath},
           pc' = pc, cur' = cur, outage' = outage,
           acted' = acted, applied' \subseteq acted,
           UNCHANGED <<processed, excused, notified>>
    PROVE  HInv'
  <1>1. Len(plan) \in Nat \ {0} /\ plan[1] = step /\ plan # <<>> /\ pc = "handle"
    BY TailPlan DEF At
  <1>2. cur \notin outage
    BY <1>1 DEF HInv, PlanKept
  <1>3. Proper(plan') /\ Closing(plan')
    BY ProperPaths
  <1>4. \A i \in 1 .. Len(plan') : plan'[i] # "classify"
    BY DEF FailurePath, LabelPath, NoLabelPath
  <1>5. PlanKept'
    BY <1>2, <1>3, <1>4 DEF PlanKept, Proper, Closing
  <1> QED
    BY <1>1, <1>5 DEF HInv, MarkedFirst, OutageNeverRetires, JournalTruthful

LEMMA HInvTransient ==
    ASSUME HInv, plan \in Plans, Classify("transient") PROVE HInv'
  <1>1. /\ Len(plan) \in Nat \ {0} /\ plan[1] = "classify" /\ plan # <<>>
        /\ pc = "handle" /\ pc' = pc
    BY TailPlan DEF Classify, At
  <1>2. cur \notin processed
    BY <1>1 DEF HInv, PlanKept
  <1>3. /\ plan' = FailurePath(FALSE) /\ outage' = outage \cup {cur}
        /\ cur' = cur /\ UNCHANGED <<acted, processed, applied, notified, excused>>
    BY DEF Classify, store
  <1>4. /\ Proper(plan')
        /\ \A i \in 1 .. Len(plan') : plan'[i] \in {"failed", "notify"}
    BY <1>3, ProperPaths
  <1>5. PlanKept'
    BY <1>3, <1>4 DEF PlanKept, Proper
  <1> QED
    BY <1>1, <1>2, <1>3, <1>5 DEF HInv, MarkedFirst, OutageNeverRetires, JournalTruthful

LEMMA HInvHandle == ASSUME HInv, plan \in Plans, HandleStep PROVE HInv'
  <1> USE DEF mail, store, tick, hist
  <1>0. applied \subseteq acted /\ notified \subseteq processed \cup excused
    BY DEF HInv, JournalTruthful, MarkedFirst
  <1>1. CASE RunRules
    <2>1. At("rule") /\ Continue
      BY <1>1 DEF RunRules
    <2> QED
      BY <1>0, <1>1, <2>1, HInvContinue DEF RunRules
  <1>2. ASSUME NEW status \in Status, AddDecision(status) PROVE HInv'
    <2>1. At(status) /\ pc = "handle"
      BY <1>2 DEF AddDecision, At
    <2>2. /\ pc' = pc /\ cur' = cur
          /\ UNCHANGED <<acted, processed, outage, notified, excused>>
      BY <1>2 DEF AddDecision
    <2>3. status = "applied" /\ Continue => cur \in acted
      BY <2>1, TailPlan DEF HInv, PlanKept, At
    <2>4. applied' \subseteq acted
      <3>1. status = "applied" => cur \in acted
        BY <2>1, TailPlan DEF HInv, PlanKept, At
      <3> QED
        BY <1>0, <1>2, <3>1 DEF AddDecision
    <2>5. CASE Continue
      <3>1. status \notin {"label", "rule", "mark", "retire", "notify"}
        BY DEF Status
      <3> QED
        BY <1>0, <2>1, <2>2, <2>4, <2>5, <3>1, HInvContinue
    <2>6. CASE Fail /\ status \in {"applied", "rejected"}
      BY <2>1, <2>2, <2>4, <2>6, HInvTurn DEF Fail
    <2> QED
      BY <1>2, <2>5, <2>6 DEF AddDecision
  <1>3. ASSUME NEW result \in {"label", "none", "permanent", "transient"},
               Classify(result)
        PROVE  HInv'
    <2>1. CASE result = "transient"
      BY <1>3, <2>1, HInvTransient
    <2>2. CASE result # "transient"
      <3>1. /\ At("classify") /\ pc' = pc /\ cur' = cur
            /\ UNCHANGED <<acted, applied, processed, outage, notified, excused>>
        BY <1>3, <2>2 DEF Classify
      <3>2. plan' \in {FailurePath(TRUE), LabelPath, NoLabelPath}
        BY <1>3, <2>2 DEF Classify
      <3> QED
        BY <1>0, <3>1, <3>2, HInvTurn
    <2> QED
      BY <2>1, <2>2
  <1>4. CASE ApplyKeywords
    <2>1. /\ At("label") /\ pc' = pc /\ cur' = cur
          /\ UNCHANGED <<applied, processed, outage, notified, excused>>
      BY <1>4 DEF ApplyKeywords
    <2>2. CASE acted' = acted \cup {cur} /\ Continue
      BY <1>0, <2>1, <2>2, HInvContinue
    <2>3. CASE acted' = acted /\ Fail
      BY <1>0, <2>1, <2>3, HInvTurn DEF Fail
    <2> QED
      BY <1>4, <2>2, <2>3 DEF ApplyKeywords
  <1>5. CASE MarkProcessed
    <2>1. /\ pc' = pc /\ cur' = cur
          /\ UNCHANGED <<acted, applied, outage, notified>>
      BY <1>5 DEF MarkProcessed
    <2>2. CASE At("mark") /\ Fail /\ UNCHANGED <<processed, accounted, excused>>
      BY <1>0, <2>1, <2>2, HInvTurn DEF Fail
    <2>3. ASSUME NEW step \in {"mark", "retire"}, At(step), Continue,
                 \/ processed' = processed \cup {cur} /\ excused' = excused
                 \/ excused' = excused \cup {cur} /\ processed' = processed
          PROVE  HInv'
      BY <1>0, <2>1, <2>3, HInvContinue
    <2> QED
      BY <1>5, <2>2, <2>3 DEF MarkProcessed
  <1>6. CASE Notify
    <2>1. /\ At("notify") /\ Continue /\ pc' = pc /\ cur' = cur
          /\ UNCHANGED <<acted, applied, processed, outage, excused>>
          /\ notified' = notified \cup ({cur} \ outage)
      BY <1>6 DEF Notify
    <2>2. cur \in outage \cup processed \cup excused
      <3>1. plan # <<>> /\ plan[1] = "notify" /\ 1 \in 1 .. Len(plan) /\ pc = "handle"
        BY <2>1, TailPlan DEF At
      <3> QED
        BY <3>1 DEF HInv, PlanKept
    <2> QED
      BY <1>0, <2>1, <2>2, HInvContinue
  <1>7. CASE Return
    BY <1>7 DEF Return, HInv, PlanKept, MarkedFirst, OutageNeverRetires, JournalTruthful
  <1> QED
    BY <1>1, <1>2, <1>3, <1>4, <1>5, <1>6, <1>7 DEF HandleStep

\* Everything else leaves the message at work alone, or ends its handling.
LEMMA HInvOther ==
    ASSUME HInv, UNCHANGED <<acted, outage, notified>>,
           applied' \subseteq applied, processed' \subseteq processed,
           excused \subseteq excused', processed \subseteq processed' \cup excused',
           pc' # "handle" \/ UNCHANGED <<pc, cur, plan, processed, excused>>
    PROVE  HInv'
  BY DEF HInv, PlanKept, MarkedFirst, OutageNeverRetires, JournalTruthful

LEMMA HInvNext == HInv /\ plan \in Plans /\ [Next]_vars => HInv'
  <1> SUFFICES ASSUME HInv, plan \in Plans, [Next]_vars PROVE HInv'
    OBVIOUS
  <1> USE DEF mail, store, tick, work, hist
  <1>1. CASE Mailbox
    BY <1>1, HInvOther DEF Mailbox, Deliver, Leave, MarkUnread
  <1>2. ASSUME NEW bySweep \in BOOLEAN, TickStart(bySweep) PROVE HInv'
    BY <1>2, HInvOther DEF TickStart
  <1>3. CASE FetchFails \/ Crash \/ Panic \/ SetCheckpoint
    BY <1>3, HInvOther DEF FetchFails, Crash, Panic, SetCheckpoint, TickLeaves
  <1>4. CASE Fetch \/ LoopEnds
    BY <1>4, HInvOther DEF Fetch, LoopEnds
  <1>5. ASSUME NEW u \in UID, Skip(u) \/ RateStop(u) PROVE HInv'
    BY <1>5, HInvOther DEF Skip, RateStop
  <1>6. ASSUME NEW u \in UID, Begin(u) PROVE HInv'
    BY <1>6, HInvBegin
  <1>7. CASE HandleStep
    BY <1>7, HInvHandle
  <1>8. CASE Refill \/ SweepReset \/ \E ok \in BOOLEAN : Warmup(ok)
    BY <1>8, HInvOther DEF Refill, SweepReset, Warmup
  <1>9. CASE UNCHANGED vars
    BY <1>9, HInvOther DEF vars
  <1> QED
    BY <1>1, <1>2, <1>3, <1>4, <1>5, <1>6, <1>7, <1>8, <1>9 DEF Next, TickStep, Sweep

LEMMA HandlingInvariant == Spec => []HInv
  <1>1. Init => HInv
    BY DEF Init, HInv, PlanKept, MarkedFirst, OutageNeverRetires, JournalTruthful
  <1>2. TypeOK => plan \in Plans
    BY DEF TypeOK
  <1> QED
    BY <1>1, <1>2, HInvNext, TypeCorrect, PTL DEF Spec

\* No crash, panic, failed mark or sweep makes the poller notify a message a
\* second time, but for an outage, the 30 days of Cleanup and a mark the store
\* refused twice: every path marks before it notifies (poller.go).
THEOREM NotifiedOnceAlways == Spec => []NotifiedOnce
  <1>1. HInv => NotifiedOnce
    BY DEF HInv, MarkedFirst, NotifiedOnce, At
  <1> QED
    BY <1>1, HandlingInvariant, PTL

\* A transient classifier error never leads to a mark, on any path and over any
\* number of attempts (recordMessageFailure).
THEOREM OutageNeverRetiresAlways == Spec => []OutageNeverRetires
  <1>1. HInv => OutageNeverRetires
    BY DEF HInv
  <1> QED
    BY <1>1, HandlingInvariant, PTL

\* The journal never says "applied" of a message nothing was done to, whichever
\* write fails or is repeated (AddDecision after applyKeywordsWithRetry).
THEOREM JournalTruthfulAlways == Spec => []JournalTruthful
  <1>1. HInv => JournalTruthful
    BY DEF HInv
  <1> QED
    BY <1>1, HandlingInvariant, PTL
=============================================================================
