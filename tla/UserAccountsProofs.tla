------------------------- MODULE UserAccountsProofs -------------------------
(***************************************************************************)
(* Proofs about UserAccounts.  TInv types the variables and says where a   *)
(* process is when it has a mutate under way, and whose it is (Phases).    *)
(* The three safety invariants rest on it:                                 *)
(*   CInv  what a mutate has read has every administrator whose password   *)
(*         was printed;                                                    *)
(*   AInv  a removal that passed its check leaves an active administrator; *)
(*   LInv  what is still to be cleared is on the list of every process     *)
(*         that clears and has not failed.                                 *)
(***************************************************************************)
EXTENDS UserAccounts, TLAPS

(***************************************************************************)
(* Type correctness, and where the processes and handlers are.             *)
(***************************************************************************)
Files   == UNION {[S -> User] : S \in SUBSET Accounts}
Changes == {"promote", "demote", "deactivate", "reactivate", "enroll", "clear", "create"}

Mutate == [by : Requests \cup {"boot"}, user : Accounts, change : Changes, copy : Files,
           stale : BOOLEAN]

Idle == [by : {"none"}, user : {0}, change : {"none"}, copy : {Nobody}, stale : BOOLEAN]

Boot == [at : {"down", "mint", "admin", "copy", "marker", "list", "clear", "saved", "up"},
         cleared : SUBSET Accounts, todo : SUBSET Accounts, failed : BOOLEAN,
         dest : 0 .. MaxAccounts]

Check == [at : {"idle", "checked"}, user : 0 .. MaxAccounts,
          change : Removal \cup {"none"}, outdated : BOOLEAN]

Types ==
    /\ file \in Files
    /\ op \in [Process -> Idle \cup Mutate]
    /\ boot \in [Process -> Boot]
    /\ progress \subseteq Accounts /\ marker \in BOOLEAN
    /\ data \in [Accounts -> {"none", "legacy", "used"}]
    /\ req \in [Requests -> Check]
    /\ printed \subseteq Accounts /\ enrolled \subseteq Accounts /\ raced \in BOOLEAN
    /\ ops \in 0 .. MaxOps /\ faults \in 0 .. MaxFaults

\* Where a process is when it has a mutate under way, and whose it is.
Phases ==
    /\ \A p \in Process : boot[p].at \notin {"down", "mint"} => file # Nobody
    /\ \A p \in Process : op[p].by # "none" =>
          /\ op[p].copy # Nobody
          /\ op[p].change = "create" => op[p].user \notin DOMAIN op[p].copy
    /\ \A p \in Process : op[p].by = "boot" => boot[p].at = "clear" /\ op[p].change = "clear"
    /\ \A p \in Process : op[p].by \in Requests =>
          /\ p = "api" /\ boot[p].at = "up"
          /\ op[p].change \in Removal =>
                req[op[p].by].at = "checked" /\ req[op[p].by].user = op[p].user
    /\ \A r \in Requests : req[r].at = "checked" =>
          boot["api"].at = "up" /\ req[r].user \in Accounts /\ req[r].change \in Removal

TInv == Types /\ Phases

LEMMA NobodyIs ==
    \A f \in Files : /\ DOMAIN f \subseteq Accounts /\ f \in [DOMAIN f -> User]
                     /\ f # Nobody <=> DOMAIN f # {}
  <1> SUFFICES ASSUME NEW f \in Files
               PROVE  /\ DOMAIN f \subseteq Accounts /\ f \in [DOMAIN f -> User]
                      /\ f # Nobody <=> DOMAIN f # {}
    OBVIOUS
  <1>1. PICK S \in SUBSET Accounts : f \in [S -> User]
    BY DEF Files
  <1>2. DOMAIN f = S
    BY <1>1
  <1>3. ASSUME S = {} PROVE f = Nobody
    BY <1>1, <1>2, <1>3 DEF Nobody
  <1>4. ASSUME f = Nobody PROVE S = {}
    BY <1>2, <1>4 DEF Nobody
  <1> QED
    BY <1>1, <1>2, <1>3, <1>4

LEMMA FileIs ==
    ASSUME NEW S \in SUBSET Accounts, NEW f \in [S -> User] PROVE f \in Files
  BY DEF Files

LEMMA NobodyIsFile == Nobody \in Files
  <1>1. Nobody \in [{} -> User] /\ {} \in SUBSET Accounts
    BY DEF Nobody
  <1> QED
    BY <1>1, FileIs

LEMMA NoOpIs ==
    /\ NoOp \in Idle /\ NoOp.by = "none"
    /\ "none" \notin Requests /\ "boot" \notin Requests
  BY ConstantsAssumption DEF NoOp, Idle

LEMMA DownIs == Down \in Boot /\ Down.at = "down" /\ NoCheck \in Check /\ NoCheck.at = "idle"
  BY ConstantsAssumption DEF Down, Boot, NoCheck, Check

LEMMA OpIs ==
    ASSUME Types, NEW p \in Process
    PROVE  /\ op[p].by = "none" => op[p] \in Idle
           /\ op[p].by # "none" => op[p] \in Mutate
           /\ op[p].by \in Requests \cup {"boot", "none"}
  <1>1. \A m \in Mutate : m.by \in Requests \cup {"boot"}
    BY DEF Mutate
  <1>2. \A m \in Idle : m.by = "none"
    BY DEF Idle
  <1>3. op[p] \in Idle \/ op[p] \in Mutate
    BY DEF Types
  <1> QED
    BY <1>1, <1>2, <1>3, NoOpIs

LEMMA TInvInit == Init => TInv
  <1> SUFFICES ASSUME Init PROVE TInv
    OBVIOUS
  <1>1. file \in Files
    BY FirstFilesAssumption, FileIs DEF Init
  <1>2. Types
    <2>1. boot \in [Process -> Boot] /\ req \in [Requests -> Check]
      BY DownIs DEF Init
    <2>2. op \in [Process -> Idle \cup Mutate]
      BY NoOpIs DEF Init
    <2>3. ops \in 0 .. MaxOps /\ faults \in 0 .. MaxFaults
      BY ConstantsAssumption DEF Init
    <2> QED
      BY <1>1, <2>1, <2>2, <2>3 DEF Init, Types
  <1>3. Phases
    BY DownIs, NoOpIs DEF Init, Phases
  <1> QED
    BY <1>2, <1>3 DEF TInv

\* What a mutate makes of the copy it has read.
LEMMA Outcomes ==
    ASSUME Types, Phases, NEW p \in Process, op[p].by # "none",
           op[p].change = "create" \/ op[p].user \in DOMAIN op[p].copy
    PROVE  /\ Outcome(p) \in Files /\ Outcome(p) # Nobody
           /\ DOMAIN Outcome(p) = DOMAIN op[p].copy \cup {op[p].user}
           /\ \A v \in DOMAIN op[p].copy : v # op[p].user => Outcome(p)[v] = op[p].copy[v]
           /\ op[p].change = "create" =>
                 Outcome(p)[op[p].user] = [admin |-> FALSE, active |-> TRUE, mfa |-> FALSE]
           /\ op[p].change # "create" =>
                 Outcome(p)[op[p].user] = Changed(op[p].copy[op[p].user], op[p].change)
  <1> DEFINE o == op[p]
             f == o.copy
             new == Outcome(p)
  <1>1. o \in Mutate /\ f # Nobody
    BY OpIs DEF Phases
  <1>2. f \in Files /\ o.user \in Accounts /\ o.change \in Changes
    BY <1>1 DEF Mutate
  <1>3. DOMAIN f \subseteq Accounts /\ f \in [DOMAIN f -> User] /\ DOMAIN f # {}
    BY <1>1, <1>2, NobodyIs
  <1>4. CASE o.change = "create"
    <2> DEFINE g == [u \in DOMAIN f \cup {o.user} |->
                        IF u = o.user THEN [admin |-> FALSE, active |-> TRUE, mfa |-> FALSE]
                                      ELSE f[u]]
    <2>1. new = g
      BY <1>4 DEF Outcome
    <2>2. [admin |-> FALSE, active |-> TRUE, mfa |-> FALSE] \in User
      BY DEF User
    <2> HIDE DEF f
    <2>3. g \in [DOMAIN f \cup {o.user} -> User]
      BY <1>3, <2>2
    <2>4. g \in Files
      BY <1>2, <1>3, <2>3, FileIs
    <2>5. DOMAIN g = DOMAIN f \cup {o.user} /\ g # Nobody
      BY <2>3, <2>4, NobodyIs
    <2> QED
      BY <1>4, <2>1, <2>4, <2>5 DEF f
  <1>5. CASE o.change # "create"
    <2> DEFINE c == Changed(f[o.user], o.change)
    <2>1. o.user \in DOMAIN f
      BY <1>5
    <2>2. c \in User
      <3>1. f[o.user] \in User
        BY <1>3, <2>1
      <3> QED
        BY <1>2, <1>5, <3>1 DEF Changed, Changes, User
    <2>3. new = [f EXCEPT ![o.user] = c]
      BY <1>5 DEF Outcome
    <2> HIDE DEF f, c
    <2>4. new \in [DOMAIN f -> User] /\ new[o.user] = c /\ \A v \in DOMAIN f : v # o.user => new[v] = f[v]
      BY <1>3, <2>1, <2>2, <2>3
    <2>5. new \in Files
      BY <1>3, <2>4, FileIs
    <2>6. DOMAIN new = DOMAIN f /\ new # Nobody
      BY <1>3, <2>4, <2>5, NobodyIs
    <2> QED
      BY <1>5, <2>1, <2>4, <2>5, <2>6 DEF f, c
  <1> QED
    BY <1>4, <1>5

\* A process that is starting goes on.
LEMMA BootMoves ==
    ASSUME TInv, NEW p \in Process, NEW b \in Boot, boot' = [boot EXCEPT ![p] = b],
           UNCHANGED <<op, req, enrolled, raced, ops>>,
           op[p].by = "none", boot[p].at # "up",
           \/ file' = file
           \/ file = Nobody /\ file' \in Files /\ file' # Nobody,
           b.at \notin {"down", "mint"} => file' # Nobody,
           data' \in [Accounts -> {"none", "legacy", "used"}], progress' \subseteq Accounts,
           marker' \in BOOLEAN, printed' \subseteq Accounts, faults' \in 0 .. MaxFaults
    PROVE  TInv'
  <1>1. Types /\ Phases
    BY DEF TInv
  <1>2. Types'
    BY <1>1 DEF Types
  <1>3. \A q \in Process : boot'[q] = IF q = p THEN b ELSE boot[q]
    BY <1>1 DEF Types
  <1>4. file # Nobody => file' # Nobody
    OBVIOUS
  <1>5. Phases'
    <2>1. \A q \in Process : boot'[q].at \notin {"down", "mint"} => file' # Nobody
      BY <1>1, <1>3, <1>4 DEF Phases
    <2>2. \A q \in Process : op'[q].by # "none" =>
             /\ op'[q].copy # Nobody
             /\ op'[q].change = "create" => op'[q].user \notin DOMAIN op'[q].copy
      BY <1>1 DEF Phases
    <2>3. \A q \in Process : op'[q].by = "boot" => boot'[q].at = "clear" /\ op'[q].change = "clear"
      BY <1>1, <1>3 DEF Phases
    <2>4. \A q \in Process : op'[q].by \in Requests =>
             /\ q = "api" /\ boot'[q].at = "up"
             /\ op'[q].change \in Removal =>
                   req'[op[q].by].at = "checked" /\ req'[op[q].by].user = op'[q].user
      BY <1>1, <1>3, NoOpIs DEF Phases
    <2>5. \A r \in Requests : req'[r].at = "checked" =>
             boot'["api"].at = "up" /\ req'[r].user \in Accounts /\ req'[r].change \in Removal
      BY <1>1, <1>3 DEF Phases
    <2> QED
      BY <2>1, <2>2, <2>3, <2>4, <2>5 DEF Phases
  <1> QED
    BY <1>2, <1>5 DEF TInv

LEMMA FaultIs ==
    ASSUME Types, Fault \/ UNCHANGED faults PROVE faults' \in 0 .. MaxFaults
  BY ConstantsAssumption DEF Types, Fault

LEMMA StartTypes ==
    ASSUME TInv, NEW p \in Process,
           \/ LoadOrMigrate(p) \/ createInitial(p) \/ FindMissing(p) \/ CopyLegacy(p)
           \/ CheckMarker(p) \/ ListUsers(p) \/ SaveProgress(p) \/ WriteMarker(p)
    PROVE  TInv'
  <1>0. /\ Types /\ Phases /\ boot[p] \in Boot /\ file \in Files /\ boot \in [Process -> Boot]
        /\ data \in [Accounts -> {"none", "legacy", "used"}] /\ progress \subseteq Accounts
        /\ marker \in BOOLEAN /\ printed \subseteq Accounts /\ faults \in 0 .. MaxFaults
    BY DEF TInv, Types
  <1>1. op[p].by = "none" /\ boot[p].at # "up"
    <2>1. boot[p].at # "up"
      BY DEF LoadOrMigrate, createInitial, FindMissing, CopyLegacy, CheckMarker, ListUsers,
             SaveProgress, WriteMarker, Cleared
    <2>2. CASE boot[p].at = "clear"
      BY <2>2, NoOpIs DEF LoadOrMigrate, createInitial, FindMissing, CopyLegacy, CheckMarker,
             ListUsers, SaveProgress, WriteMarker, Cleared
    <2>3. CASE boot[p].at # "clear"
      BY <1>0, <2>1, <2>3, OpIs DEF Phases
    <2> QED
      BY <2>1, <2>2, <2>3
  <1>2. \A a \in {"mint", "admin", "copy", "marker", "list", "clear", "saved", "up"} :
           /\ [boot[p] EXCEPT !.at = a] \in Boot
           /\ [boot[p] EXCEPT !.at = a].at = a
    BY <1>0 DEF Boot
  <1>3. ASSUME NEW a \in {"mint", "admin", "copy", "marker", "list", "clear", "saved", "up"},
               Step(p, a), UNCHANGED <<op, req, enrolled, raced, ops>>,
               \/ file' = file
               \/ file = Nobody /\ file' \in Files /\ file' # Nobody,
               a # "mint" => file' # Nobody,
               data' \in [Accounts -> {"none", "legacy", "used"}], progress' \subseteq Accounts,
               marker' \in BOOLEAN, printed' \subseteq Accounts, faults' \in 0 .. MaxFaults
        PROVE  TInv'
    <2> DEFINE b == [boot[p] EXCEPT !.at = a]
    <2>1. boot' = [boot EXCEPT ![p] = b] /\ b \in Boot /\ b.at = a
      BY <1>0, <1>2, <1>3 DEF Step
    <2> HIDE DEF b
    <2> QED
      BY <1>1, <1>3, <2>1, BootMoves
  <1>4. CASE LoadOrMigrate(p)
    <2>1. UNCHANGED <<file, op, progress, marker, data, req, printed, enrolled, raced, ops, faults>>
      BY <1>4 DEF LoadOrMigrate, disk, hist
    <2>2. CASE file = Nobody
      BY <1>0, <1>3, <1>4, <2>1, <2>2 DEF LoadOrMigrate
    <2>3. CASE file # Nobody
      BY <1>0, <1>3, <1>4, <2>1, <2>3 DEF LoadOrMigrate
    <2> QED
      BY <2>2, <2>3
  <1>5. CASE createInitial(p)
    <2>1. CASE file = Nobody
      <3> DEFINE f == [u \in {Minted(p)} |-> [admin |-> TRUE, active |-> TRUE, mfa |-> FALSE]]
      <3>1. Minted(p) \in Accounts
        BY ConstantsAssumption DEF Minted, Accounts
      <3>2. f \in [{Minted(p)} -> User]
        BY DEF User
      <3>3. f \in Files
        BY <3>1, <3>2, FileIs
      <3>4. f # Nobody
        BY <3>2, <3>3, NobodyIs
      <3>5. file' = f /\ printed' \subseteq Accounts
        BY <1>0, <1>5, <2>1, <3>1 DEF createInitial
      <3>6. UNCHANGED <<op, progress, marker, data, req, enrolled, raced, ops, faults>> /\ Step(p, "admin")
        BY <1>5 DEF createInitial, disk
      <3> HIDE DEF f
      <3> QED
        BY <1>0, <1>3, <2>1, <3>3, <3>4, <3>5, <3>6
    <2>2. CASE file # Nobody
      <3>1. /\ UNCHANGED <<file, op, progress, marker, data, req, printed, enrolled, raced, ops, faults>>
            /\ Step(p, "admin")
        BY <1>5, <2>2 DEF createInitial, disk
      <3> QED
        BY <1>0, <1>3, <2>2, <3>1
    <2> QED
      BY <2>1, <2>2
  <1>6. CASE FindMissing(p)
    <2>1. /\ file # Nobody
          /\ UNCHANGED <<file, op, progress, marker, data, req, printed, enrolled, raced, ops,
                         faults>>
      BY <1>0, <1>6 DEF FindMissing, Phases, disk, hist
    <2>2. CASE Step(p, "marker")
      BY <1>0, <1>3, <2>1, <2>2
    <2>3. ASSUME NEW u \in FirstAdmin(file),
                 boot' = [boot EXCEPT ![p].at = "copy", ![p].dest = u]
          PROVE  TInv'
      <3> DEFINE b == [[boot[p] EXCEPT !.at = "copy"] EXCEPT !.dest = u]
      <3>1. u \in 0 .. MaxAccounts
        BY <1>0, NobodyIs DEF FirstAdmin, ActiveAdmins, Accounts
      <3>2. boot' = [boot EXCEPT ![p] = b]
        BY <1>0, <2>3
      <3>3. b \in Boot
        BY <1>0, <3>1 DEF Boot
      <3> HIDE DEF b
      <3> QED
        BY <1>0, <1>1, <2>1, <3>2, <3>3, BootMoves
    <2> QED
      BY <1>6, <2>2, <2>3 DEF FindMissing
  <1>7. CASE CopyLegacy(p)
    BY <1>0, <1>3, <1>7 DEF CopyLegacy, Phases, hist
  <1>8. CASE CheckMarker(p)
    <2> DEFINE b == [[boot[p] EXCEPT !.at = IF marker THEN "up" ELSE "list"]
                        EXCEPT !.cleared = IF marker THEN {} ELSE progress]
    <2>1. boot' = [boot EXCEPT ![p] = b]
      BY <1>0, <1>8 DEF CheckMarker
    <2>2. b \in Boot
      BY <1>0 DEF Boot
    <2> HIDE DEF b
    <2>3. /\ UNCHANGED <<file, op, progress, marker, data, req, printed, enrolled, raced, ops, faults>>
          /\ file # Nobody
      BY <1>0, <1>8 DEF CheckMarker, Phases, disk, hist
    <2> QED
      BY <1>0, <1>1, <2>1, <2>2, <2>3, BootMoves
  <1>9. CASE ListUsers(p)
    <2> DEFINE t == {u \in DOMAIN file : file[u].mfa} \ boot[p].cleared
               b == [[boot[p] EXCEPT !.at = "clear"] EXCEPT !.todo = t]
    <2>1. boot' = [boot EXCEPT ![p] = b]
      BY <1>0, <1>9 DEF ListUsers
    <2>2. t \subseteq Accounts
      BY <1>0, NobodyIs
    <2> HIDE DEF t
    <2>3. b \in Boot
      BY <1>0, <2>2 DEF Boot
    <2>4. /\ UNCHANGED <<file, op, progress, marker, data, req, printed, enrolled, raced, ops,
                         faults>>
          /\ file # Nobody
      BY <1>0, <1>9 DEF ListUsers, Phases, disk, hist
    <2> HIDE DEF b
    <2> QED
      BY <1>0, <1>1, <2>1, <2>3, <2>4, BootMoves
  <1>10. CASE SaveProgress(p)
    <2>1. PICK f \in BOOLEAN :
             /\ boot' = [boot EXCEPT ![p] = [[boot[p] EXCEPT !.at = "saved"] EXCEPT !.failed = f]]
             /\ Fault \/ UNCHANGED faults
             /\ progress' \subseteq Accounts
      <3>1. CASE /\ progress' = boot[p].cleared /\ UNCHANGED faults
                 /\ boot' = [boot EXCEPT ![p].at = "saved"]
        <4>1. /\ boot[p].failed \in BOOLEAN /\ boot[p].cleared \subseteq Accounts
              /\ [[boot[p] EXCEPT !.at = "saved"] EXCEPT !.failed = boot[p].failed]
                    = [boot[p] EXCEPT !.at = "saved"]
          BY <1>0 DEF Boot
        <4> QED
          BY <1>0, <3>1, <4>1
      <3>2. CASE /\ Fault /\ UNCHANGED progress
                 /\ boot' = [boot EXCEPT ![p].at = "saved", ![p].failed = TRUE]
        BY <1>0, <3>2
      <3> QED
        BY <1>10, <3>1, <3>2 DEF SaveProgress
    <2> DEFINE b == [[boot[p] EXCEPT !.at = "saved"] EXCEPT !.failed = f]
    <2>2. b \in Boot
      BY <1>0 DEF Boot
    <2>3. faults' \in 0 .. MaxFaults /\ boot' = [boot EXCEPT ![p] = b]
      BY <1>0, <2>1, FaultIs
    <2>4. /\ UNCHANGED <<file, op, marker, data, req, printed, enrolled, raced, ops>>
          /\ file # Nobody
      BY <1>0, <1>10 DEF SaveProgress, Cleared, Phases, hist
    <2> HIDE DEF b
    <2> QED
      BY <1>0, <1>1, <2>1, <2>2, <2>3, <2>4, BootMoves
  <1>11. CASE WriteMarker(p)
    <2> DEFINE b == [Down EXCEPT !.at = "up"]
    <2>1. b \in Boot /\ boot' = [boot EXCEPT ![p] = b]
      BY <1>11, DownIs DEF WriteMarker, Up, Boot
    <2>2. faults' \in 0 .. MaxFaults /\ marker' \in BOOLEAN
      BY <1>0, <1>11, FaultIs DEF WriteMarker
    <2> HIDE DEF b
    <2> QED
      BY <1>0, <1>1, <1>11, <2>1, <2>2, BootMoves DEF WriteMarker, Phases, hist
  <1> QED
    BY <1>4, <1>5, <1>6, <1>7, <1>8, <1>9, <1>10, <1>11

\* A mutate begins.
LEMMA Begins ==
    ASSUME TInv, NEW p \in Process, NEW who \in Requests \cup {"boot"}, NEW u \in Accounts,
           NEW change \in Changes, Refresh(p, who, u, change),
           UNCHANGED <<file, boot, data, progress, marker, req, printed, enrolled, raced, faults>>,
           ops' \in 0 .. MaxOps, file # Nobody, change = "create" => u \notin DOMAIN file,
           who = "boot" => boot[p].at = "clear" /\ change = "clear",
           who \in Requests =>
              /\ p = "api" /\ boot[p].at = "up"
              /\ change \in Removal => req[who].at = "checked" /\ req[who].user = u
    PROVE  TInv'
  <1> DEFINE m == [by |-> who, user |-> u, change |-> change, copy |-> file, stale |-> FALSE]
  <1>1. Types /\ Phases
    BY DEF TInv
  <1>2. op' = [op EXCEPT ![p] = m]
    BY DEF Refresh
  <1>3. m \in Mutate
    BY <1>1 DEF Mutate, Types
  <1>4. /\ m.by = who /\ m.user = u /\ m.change = change /\ m.copy = file
    OBVIOUS
  <1> HIDE DEF m
  <1>5. \A q \in Process : op'[q] = IF q = p THEN m ELSE op[q]
    BY <1>1, <1>2 DEF Types
  <1>6. Types'
    BY <1>1, <1>2, <1>3 DEF Types
  <1>7. Phases'
    <2>1. \A q \in Process : op'[q].by # "none" =>
             /\ op'[q].copy # Nobody
             /\ op'[q].change = "create" => op'[q].user \notin DOMAIN op'[q].copy
      BY <1>1, <1>4, <1>5 DEF Phases
    <2>2. \A q \in Process : op'[q].by = "boot" => boot'[q].at = "clear" /\ op'[q].change = "clear"
      BY <1>1, <1>4, <1>5 DEF Phases
    <2>3. \A q \in Process : op'[q].by \in Requests =>
             /\ q = "api" /\ boot'[q].at = "up"
             /\ op'[q].change \in Removal =>
                   req'[op'[q].by].at = "checked" /\ req'[op'[q].by].user = op'[q].user
      BY <1>1, <1>4, <1>5 DEF Phases
    <2> QED
      BY <1>1, <2>1, <2>2, <2>3 DEF Phases
  <1> QED
    BY <1>6, <1>7 DEF TInv

LEMMA Busy ==
    ASSUME TInv, NEW p \in Process, op[p].by # "none"
    PROVE  /\ file # Nobody /\ op[p] \in Mutate
           /\ \/ op[p].by = "boot" /\ boot[p].at = "clear" /\ op[p].change = "clear"
              \/ op[p].by \in Requests /\ p = "api" /\ boot[p].at = "up"
  BY OpIs DEF TInv, Phases

\* The mutates after one has ended.
LEMMA MutateEnds ==
    ASSUME TInv, NEW p \in Process, op[p].by # "none", Write(p) \/ WriteFails(p)
    PROVE  /\ op' \in [Process -> Idle \cup Mutate] /\ op'[p].by = "none"
           /\ \A q \in Process : q # p =>
                 /\ op'[q].by = op[q].by /\ op'[q].user = op[q].user
                 /\ op'[q].change = op[q].change /\ op'[q].copy = op[q].copy
           /\ file' \in Files /\ file' # Nobody /\ enrolled' \subseteq Accounts
           /\ raced' \in BOOLEAN /\ printed' = printed /\ faults' \in 0 .. MaxFaults
  <1>0. /\ Types /\ Phases /\ file # Nobody /\ op[p] \in Mutate /\ file \in Files
        /\ op \in [Process -> Idle \cup Mutate] /\ enrolled \subseteq Accounts
        /\ raced \in BOOLEAN /\ faults \in 0 .. MaxFaults
    BY Busy DEF TInv, Types
  <1>1. CASE Write(p)
    <2> DEFINE st(q) == [op[q] EXCEPT !.stale = op[q].by # "none"]
    <2>1. \A q \in Process : st(q) \in Idle \cup Mutate
      BY <1>0, OpIs DEF Idle, Mutate
    <2>2. \A q \in Process : /\ st(q).by = op[q].by /\ st(q).user = op[q].user
                             /\ st(q).change = op[q].change /\ st(q).copy = op[q].copy
      BY <1>0 DEF Idle, Mutate
    <2>3. op' = [q \in Process |-> IF q = p THEN NoOp ELSE st(q)]
      BY <1>1 DEF Write
    <2> HIDE DEF st
    <2>4. /\ op' \in [Process -> Idle \cup Mutate] /\ op'[p].by = "none"
          /\ \A q \in Process : q # p => op'[q] = st(q)
      BY <2>1, <2>3, NoOpIs
    <2>5. file' \in Files /\ file' # Nobody
      BY <1>0, <1>1, Outcomes DEF Write
    <2>6. enrolled' \subseteq Accounts /\ raced' \in BOOLEAN
      <3>1. op[p].user \in Accounts
        BY <1>0 DEF Mutate
      <3> QED
        BY <1>0, <1>1, <3>1 DEF Write
    <2> QED
      BY <1>0, <1>1, <2>2, <2>4, <2>5, <2>6 DEF Write
  <1>2. CASE WriteFails(p)
    <2>1. op' = [op EXCEPT ![p] = NoOp]
      BY <1>2 DEF WriteFails
    <2>2. faults' \in 0 .. MaxFaults
      BY <1>0, <1>2, FaultIs DEF WriteFails
    <2> QED
      BY <1>0, <1>2, <2>1, <2>2, NoOpIs DEF WriteFails, hist
  <1> QED
    BY <1>1, <1>2

LEMMA Ends ==
    ASSUME TInv, NEW p \in Process, op[p].by # "none", Write(p) \/ WriteFails(p),
           UNCHANGED <<data, progress, marker, ops>>,
           boot' \in [Process -> Boot], \A q \in Process : boot'[q].at = boot[q].at,
           req' \in [Requests -> Check],
           \A r \in Requests :
              \/ req'[r].at = req[r].at /\ req'[r].user = req[r].user /\ req'[r].change = req[r].change
              \/ r = op[p].by /\ req'[r].at = "idle"
    PROVE  TInv'
  <1>0. Types /\ Phases
    BY DEF TInv
  <1>1. /\ op' \in [Process -> Idle \cup Mutate] /\ op'[p].by = "none"
        /\ \A q \in Process : q # p =>
              /\ op'[q].by = op[q].by /\ op'[q].user = op[q].user
              /\ op'[q].change = op[q].change /\ op'[q].copy = op[q].copy
        /\ file' \in Files /\ file' # Nobody /\ enrolled' \subseteq Accounts
        /\ raced' \in BOOLEAN /\ printed' = printed /\ faults' \in 0 .. MaxFaults
    BY MutateEnds
  <1>2. Types'
    BY <1>0, <1>1 DEF Types
  <1>3. Phases'
    <2>1. \A q \in Process : op'[q].by # "none" =>
             /\ op'[q].copy # Nobody
             /\ op'[q].change = "create" => op'[q].user \notin DOMAIN op'[q].copy
      BY <1>0, <1>1 DEF Phases
    <2>2. \A q \in Process : op'[q].by = "boot" => boot'[q].at = "clear" /\ op'[q].change = "clear"
      BY <1>0, <1>1 DEF Phases
    <2>3. ASSUME NEW q \in Process, op'[q].by \in Requests
          PROVE  /\ q = "api" /\ boot'[q].at = "up"
                 /\ op'[q].change \in Removal =>
                       req'[op'[q].by].at = "checked" /\ req'[op'[q].by].user = op'[q].user
      <3>1. q # p /\ q = "api" /\ boot[q].at = "up" /\ op[q].by \in Requests
        BY <1>0, <1>1, <2>3, NoOpIs DEF Phases
      <3>2. op[p].by = "boot"
        BY <3>1, Busy
      <3> QED
        BY <1>0, <1>1, <2>3, <3>1, <3>2, NoOpIs DEF Phases
    <2>4. \A r \in Requests : req'[r].at = "checked" =>
             boot'["api"].at = "up" /\ req'[r].user \in Accounts /\ req'[r].change \in Removal
      BY <1>0 DEF Phases, Process
    <2> QED
      BY <1>0, <1>1, <2>1, <2>2, <2>3, <2>4 DEF Phases
  <1> QED
    BY <1>2, <1>3 DEF TInv

LEMMA ClearTypes ==
    ASSUME TInv, NEW p \in Process, BeginClear(p) \/ ClearUser(p) PROVE TInv'
  <1>0. /\ Types /\ Phases /\ boot \in [Process -> Boot] /\ boot[p] \in Boot
        /\ req \in [Requests -> Check] /\ ops \in 0 .. MaxOps
    BY DEF TInv, Types
  <1>1. CASE BeginClear(p)
    <2>1. PICK u \in boot[p].todo : Refresh(p, "boot", u, "clear")
      BY <1>1 DEF BeginClear
    <2>2. u \in Accounts /\ "clear" \in Changes /\ file # Nobody /\ boot[p].at = "clear"
      BY <1>0, <1>1 DEF Boot, Changes, BeginClear, Phases
    <2>3. UNCHANGED <<file, boot, data, progress, marker, req, printed, enrolled, raced, faults, ops>>
      BY <1>1 DEF BeginClear, disk, hist
    <2> QED
      BY <1>0, <2>1, <2>2, <2>3, Begins, NoOpIs
  <1>2. CASE ClearUser(p)
    <2> DEFINE u == op[p].user
               b1 == [[boot[p] EXCEPT !.todo = @ \ {u}] EXCEPT !.cleared = @ \cup {u}]
               b2 == [[boot[p] EXCEPT !.todo = @ \ {u}] EXCEPT !.failed = TRUE]
    <2>1. op[p].by = "boot" /\ op[p].by # "none" /\ u \in Accounts
      <3>1. op[p].by = "boot" /\ op[p].by # "none"
        BY <1>2 DEF ClearUser
      <3> QED
        BY <3>1, Busy DEF Mutate
    <2>2. b1 \in Boot /\ b1.at = boot[p].at /\ b2 \in Boot /\ b2.at = boot[p].at
      BY <1>0, <2>1 DEF Boot
    <2>3. \/ Write(p) /\ boot' = [boot EXCEPT ![p] = b1]
          \/ WriteFails(p) /\ boot' = [boot EXCEPT ![p] = b2]
      <3>1. CASE Write(p) /\ boot' = [boot EXCEPT ![p].todo = @ \ {u}, ![p].cleared = @ \cup {u}]
        BY <1>0, <3>1
      <3>2. CASE WriteFails(p) /\ boot' = [boot EXCEPT ![p].todo = @ \ {u}, ![p].failed = TRUE]
        BY <1>0, <3>2
      <3> QED
        BY <1>2, <3>1, <3>2 DEF ClearUser
    <2> HIDE DEF b1, b2
    <2>4. boot' \in [Process -> Boot] /\ \A q \in Process : boot'[q].at = boot[q].at
      BY <1>0, <2>2, <2>3
    <2>5. UNCHANGED <<data, progress, marker, ops, req>>
      BY <1>2 DEF ClearUser, disk
    <2> QED
      BY <1>0, <2>1, <2>3, <2>4, <2>5, Ends
  <1> QED
    BY <1>1, <1>2

LEMMA CrashTypes ==
    ASSUME TInv, NEW p \in Process, Crash(p) \/ (\E u \in Accounts : Use(p, u)) PROVE TInv'
  <1>0. Types /\ Phases
    BY DEF TInv
  <1>1. CASE Crash(p)
    <2>1. /\ UNCHANGED <<file, progress, marker, data, printed, enrolled, raced, ops>>
          /\ boot' = [boot EXCEPT ![p] = Down] /\ op' = [op EXCEPT ![p] = NoOp]
          /\ req' = IF p = "api" THEN [r \in Requests |-> NoCheck] ELSE req
          /\ faults' \in 0 .. MaxFaults
      BY <1>0, <1>1, FaultIs DEF Crash, disk, hist
    <2>2. Types'
      BY <1>0, <2>1, NoOpIs, DownIs DEF Types
    <2>3. /\ \A q \in Process : /\ boot'[q] = IF q = p THEN Down ELSE boot[q]
                                /\ op'[q] = IF q = p THEN NoOp ELSE op[q]
      BY <1>0, <2>1 DEF Types
    <2>4. Phases'
      <3>1. \A q \in Process : op'[q].by \in Requests =>
               /\ q = "api" /\ boot'[q].at = "up"
               /\ op'[q].change \in Removal =>
                     req'[op'[q].by].at = "checked" /\ req'[op'[q].by].user = op'[q].user
        BY <1>0, <2>1, <2>3, NoOpIs DEF Phases
      <3>2. \A r \in Requests : req'[r].at = "checked" =>
               boot'["api"].at = "up" /\ req'[r].user \in Accounts /\ req'[r].change \in Removal
        BY <1>0, <2>1, <2>3, DownIs DEF Phases, Process
      <3>3. \A q \in Process : op'[q].by # "none" =>
               /\ op'[q].copy # Nobody
               /\ op'[q].change = "create" => op'[q].user \notin DOMAIN op'[q].copy
        BY <1>0, <2>3, NoOpIs DEF Phases
      <3>4. \A q \in Process : op'[q].by = "boot" => boot'[q].at = "clear" /\ op'[q].change = "clear"
        BY <1>0, <2>3, NoOpIs DEF Phases
      <3>5. \A q \in Process : boot'[q].at \notin {"down", "mint"} => file' # Nobody
        BY <1>0, <2>1, <2>3, DownIs DEF Phases
      <3> QED
        BY <3>1, <3>2, <3>3, <3>4, <3>5 DEF Phases
    <2> QED
      BY <2>2, <2>4 DEF TInv
  <1>2. ASSUME NEW u \in Accounts, Use(p, u) PROVE TInv'
    <2>1. /\ UNCHANGED <<file, op, boot, progress, marker, req, printed, enrolled, raced, ops, faults>>
          /\ data' \in [Accounts -> {"none", "legacy", "used"}]
      BY <1>0, <1>2 DEF Use, Types, hist
    <2>2. Types'
      BY <1>0, <2>1 DEF Types
    <2>3. Phases'
      BY <1>0, <2>1 DEF Phases
    <2> QED
      BY <2>2, <2>3 DEF TInv
  <1> QED
    BY <1>1, <1>2

LEMMA HandleTypes ==
    ASSUME TInv, NEW r \in Requests, Handle(r) PROVE TInv'
  <1>0. /\ Types /\ Phases /\ file \in Files /\ DOMAIN file \subseteq Accounts
        /\ req \in [Requests -> Check] /\ req[r] \in Check /\ ops \in 0 .. MaxOps
        /\ boot \in [Process -> Boot] /\ "api" \in Process
    BY NobodyIs DEF TInv, Types, Process
  <1>1. \A a \in Nat : a < MaxOps => a + 1 \in 0 .. MaxOps
    BY ConstantsAssumption
  <1>2. ASSUME Op PROVE ops' \in 0 .. MaxOps
    BY <1>0, <1>1, <1>2 DEF Op
  <1>3. ASSUME NEW u \in Accounts, NEW change \in Removal, CheckLastAdmin(r, u, change)
        PROVE  TInv'
    <2> DEFINE c == [at |-> "checked", user |-> u, change |-> change, outdated |-> FALSE]
    <2>1. /\ UNCHANGED <<file, op, boot, progress, marker, data, printed, enrolled, raced, faults>>
          /\ req' = [req EXCEPT ![r] = c] /\ boot["api"].at = "up" /\ op["api"].by # r
          /\ ops' \in 0 .. MaxOps
      BY <1>2, <1>3 DEF CheckLastAdmin, disk, hist
    <2>2. c \in Check /\ c.at = "checked" /\ c.user = u /\ c.change = change
      BY DEF Check, Accounts
    <2> HIDE DEF c
    <2>3. Types'
      BY <1>0, <2>1, <2>2 DEF Types
    <2>4. \A s \in Requests : req'[s] = IF s = r THEN c ELSE req[s]
      BY <1>0, <2>1
    <2>5. Phases'
      <3>1. \A q \in Process : op'[q].by \in Requests =>
               /\ q = "api" /\ boot'[q].at = "up"
               /\ op'[q].change \in Removal =>
                     req'[op'[q].by].at = "checked" /\ req'[op'[q].by].user = op'[q].user
        BY <1>0, <2>1, <2>4 DEF Phases
      <3> QED
        BY <1>0, <2>1, <2>2, <2>4, <3>1 DEF Phases
    <2> QED
      BY <2>3, <2>5 DEF TInv
  <1>4. ASSUME NEW u \in Accounts, NEW change \in {"promote", "reactivate", "clear", "enroll"},
               BeginChange(r, u, change)
        PROVE  TInv'
    <2>1. /\ UNCHANGED <<file, boot, progress, marker, data, req, printed, enrolled, raced, faults>>
          /\ boot["api"].at = "up" /\ Refresh("api", r, u, change)
          /\ ops' \in 0 .. MaxOps
      BY <1>2, <1>4 DEF BeginChange, disk, hist
    <2>2. file # Nobody /\ change \in Changes /\ change \notin Removal /\ change # "create"
      BY <1>0, <2>1 DEF Phases, Changes, Removal
    <2> QED
      BY <1>0, <2>1, <2>2, Begins, NoOpIs
  <1>5. ASSUME NEW u \in Accounts, BeginCreate(r, u) PROVE TInv'
    <2>1. /\ UNCHANGED <<file, boot, progress, marker, data, req, printed, enrolled, raced, faults>>
          /\ boot["api"].at = "up" /\ Refresh("api", r, u, "create") /\ u \notin DOMAIN file
          /\ ops' \in 0 .. MaxOps
      BY <1>2, <1>5 DEF BeginCreate, disk, hist
    <2>2. file # Nobody /\ "create" \in Changes /\ "create" \notin Removal
      BY <1>0, <2>1 DEF Phases, Changes, Removal
    <2> QED
      BY <1>0, <2>1, <2>2, Begins, NoOpIs
  <1>6. CASE BeginRemoval(r)
    <2>1. /\ UNCHANGED <<file, boot, progress, marker, data, req, printed, enrolled, raced, faults, ops>>
          /\ req[r].at = "checked" /\ Refresh("api", r, req[r].user, req[r].change)
      BY <1>6 DEF BeginRemoval, disk, hist
    <2>2. boot["api"].at = "up" /\ req[r].user \in Accounts /\ req[r].change \in Removal
      BY <1>0, <2>1 DEF Phases
    <2>3. file # Nobody /\ req[r].change \in Changes /\ req[r].change # "create"
      BY <1>0, <2>2 DEF Phases, Changes, Removal
    <2> QED
      BY <1>0, <2>1, <2>2, <2>3, Begins, NoOpIs
  <1>7. CASE Finish(r)
    <2>1. /\ UNCHANGED <<boot, data, progress, marker, ops>> /\ op["api"].by = r
          /\ op["api"].by # "none" /\ (Write("api") \/ WriteFails("api"))
      BY <1>7, NoOpIs DEF Finish, disk
    <2>2. /\ req' \in [Requests -> Check]
          /\ \A s \in Requests :
                \/ req'[s].at = req[s].at /\ req'[s].user = req[s].user /\ req'[s].change = req[s].change
                \/ s = r /\ req'[s].at = "idle"
      <3>1. CASE req' = [req EXCEPT ![r] = NoCheck]
        BY <1>0, <3>1, DownIs
      <3>2. CASE req' = [s \in Requests |->
                        IF s = r THEN NoCheck
                        ELSE [req[s] EXCEPT !.outdated =
                                 @ \/ (op["api"].change \in Removal /\ req[s].at = "checked")]]
        <4> DEFINE c(s) == [req[s] EXCEPT !.outdated =
                                 @ \/ (op["api"].change \in Removal /\ req[s].at = "checked")]
        <4>1. \A s \in Requests : /\ c(s) \in Check /\ c(s).at = req[s].at
                                  /\ c(s).user = req[s].user /\ c(s).change = req[s].change
          BY <1>0 DEF Check
        <4>2. req' = [s \in Requests |-> IF s = r THEN NoCheck ELSE c(s)]
          BY <3>2
        <4> HIDE DEF c
        <4> QED
          BY <4>1, <4>2, DownIs
      <3> QED
        BY <1>7, <3>1, <3>2 DEF Finish
    <2> QED
      BY <1>0, <2>1, <2>2, Ends
  <1> QED
    BY <1>3, <1>4, <1>5, <1>6, <1>7 DEF Handle

LEMMA TInvNext == TInv /\ [Next]_vars => TInv'
  <1> SUFFICES ASSUME TInv, [Next]_vars PROVE TInv'
    OBVIOUS
  <1>1. ASSUME NEW p \in Process, Start(p) PROVE TInv'
    BY <1>1, StartTypes, ClearTypes DEF Start
  <1>2. CASE UNCHANGED vars
    <2>1. UNCHANGED <<file, op, boot, progress, marker, data, req, printed, enrolled, raced, ops, faults>>
      BY <1>2 DEF vars, disk, hist
    <2>2. Types'
      BY <2>1 DEF TInv, Types
    <2>3. Phases'
      BY <2>1 DEF TInv, Phases
    <2> QED
      BY <2>2, <2>3 DEF TInv
  <1> QED
    BY <1>1, <1>2, CrashTypes, HandleTypes DEF Next

LEMMA TypesInvariant == Spec => []TInv
  BY TInvInit, TInvNext, PTL DEF Spec

\* For any number of accounts, requests and faults: the variables keep their types,
\* and users.json never vanishes again.
THEOREM TypeCorrect == Spec => []TypeOK
  <1>1. TInv => TypeOK
    <2> SUFFICES ASSUME TInv PROVE TypeOK
      OBVIOUS
    <2>1. DOMAIN file \subseteq Accounts /\ \A u \in DOMAIN file : file[u] \in User
      BY NobodyIs DEF TInv, Types
    <2>2. \A p \in Process : boot[p].at \in
            {"down", "mint", "admin", "copy", "marker", "list", "clear", "saved", "up"}
      BY DEF TInv, Types, Boot
    <2> QED
      BY <2>1, <2>2 DEF TInv, Types, Phases, TypeOK
  <1> QED
    BY <1>1, TypesInvariant, PTL

-----------------------------------------------------------------------------
(***************************************************************************)
(* The safety invariants.                                                  *)
(***************************************************************************)

\* What a mutate has read has every minted administrator whose password was printed.
CInv ==
    /\ printed \subseteq DOMAIN file
    /\ \A p \in Process : op[p].by # "none" => printed \subseteq DOMAIN op[p].copy

\* What a mutate has read is the file, until the other process writes.
Fresh == \A p \in Process : op[p].by # "none" /\ ~op[p].stale => op[p].copy = file

\* A removal that passed its check leaves an active administrator.
AInv ==
    /\ Fresh /\ AdminRemains
    /\ \A r \in Requests : ~raced /\ req[r].at = "checked" /\ ~req[r].outdated =>
          \E v \in ActiveAdmins(file) : v # req[r].user

\* The accounts whose MFA is to be cleared still.
LeftOver == {u \in DOMAIN file : file[u].mfa} \ enrolled

\* How far process p has cleared them.
ClearedBy(p) ==
    /\ boot[p].cleared \cap LeftOver = {}
    /\ boot[p].at = "clear" /\ ~boot[p].failed => LeftOver \subseteq boot[p].todo
    /\ boot[p].at = "saved" /\ ~boot[p].failed => LeftOver = {}

LInv ==
    /\ Fresh
    /\ ~raced =>
       /\ marker => LeftOver = {}
       /\ progress \cap LeftOver = {}
       /\ \A p \in Process : ClearedBy(p)

\* What a step does to users.json and to the mutates under way.
LEMMA FileMoves ==
    ASSUME TInv, [Next]_vars
    PROVE  \/ \E p \in Process : op[p].by # "none" /\ Write(p)
           \/ \E p \in Process : file = Nobody /\ createInitial(p)
           \/ /\ UNCHANGED <<file, printed, enrolled, raced>>
              /\ \A q \in Process : op'[q] = op[q] \/ op'[q].by = "none" \/ op'[q].copy = file
  <1> DEFINE Still == /\ UNCHANGED <<file, printed, enrolled, raced>>
                      /\ \A q \in Process : \/ op'[q] = op[q] \/ op'[q].by = "none"
                                            \/ op'[q].copy = file
             Goal == \/ \E p \in Process : op[p].by # "none" /\ Write(p)
                     \/ \E p \in Process : file = Nobody /\ createInitial(p)
                     \/ Still
  <1>0. op \in [Process -> Idle \cup Mutate] /\ "api" \in Process
    BY DEF TInv, Types, Process
  <1>1. ASSUME UNCHANGED <<file, op, hist, raced>> PROVE Goal
    BY <1>1 DEF hist
  <1>2. ASSUME NEW p \in Process, NEW who, NEW u, NEW change, Refresh(p, who, u, change),
               UNCHANGED <<file, hist, raced>>
        PROVE  Goal
    <2> DEFINE m == [by |-> who, user |-> u, change |-> change, copy |-> file, stale |-> FALSE]
    <2>1. op' = [op EXCEPT ![p] = m] /\ m.copy = file
      BY <1>2 DEF Refresh
    <2> HIDE DEF m
    <2>2. \A q \in Process : op'[q] = op[q] \/ op'[q].copy = file
      BY <1>0, <2>1
    <2> QED
      BY <1>2, <2>2 DEF hist
  <1>3. ASSUME NEW p \in Process, op' = [op EXCEPT ![p] = NoOp], UNCHANGED <<file, hist, raced>>
        PROVE  Goal
    <2>1. \A q \in Process : op'[q] = op[q] \/ op'[q].by = "none"
      BY <1>0, <1>3, NoOpIs
    <2> QED
      BY <1>3, <2>1 DEF hist
  <1>4. ASSUME NEW p \in Process, Start(p) PROVE Goal
    <2>1. CASE createInitial(p)
      <3>1. CASE file = Nobody
        BY <2>1, <3>1
      <3>2. CASE file # Nobody
        BY <1>1, <2>1, <3>2 DEF createInitial, hist
      <3> QED
        BY <3>1, <3>2
    <2>2. CASE BeginClear(p)
      <3>1. PICK u \in boot[p].todo : Refresh(p, "boot", u, "clear")
        BY <2>2 DEF BeginClear
      <3> QED
        BY <1>2, <2>2, <3>1 DEF BeginClear
    <2>3. CASE ClearUser(p)
      <3>1. CASE Write(p)
        BY <2>3, <3>1, NoOpIs DEF ClearUser
      <3>2. CASE WriteFails(p)
        BY <1>3, <3>2 DEF WriteFails
      <3> QED
        BY <2>3, <3>1, <3>2 DEF ClearUser
    <2>4. CASE \/ LoadOrMigrate(p) \/ FindMissing(p) \/ CopyLegacy(p) \/ CheckMarker(p)
               \/ ListUsers(p) \/ SaveProgress(p) \/ WriteMarker(p)
      <3>1. UNCHANGED <<file, op, hist, raced>>
        BY <2>4 DEF LoadOrMigrate, FindMissing, CopyLegacy, CheckMarker, ListUsers,
             SaveProgress, WriteMarker
      <3> QED
        BY <1>1, <3>1
    <2> QED
      BY <1>4, <2>1, <2>2, <2>3, <2>4 DEF Start
  <1>5. ASSUME NEW p \in Process, Crash(p) \/ (\E u \in Accounts : Use(p, u)) PROVE Goal
    <2>1. CASE Crash(p)
      BY <1>3, <2>1 DEF Crash
    <2>2. CASE \E u \in Accounts : Use(p, u)
      BY <1>1, <2>2 DEF Use
    <2> QED
      BY <1>5, <2>1, <2>2
  <1>6. ASSUME NEW r \in Requests, Handle(r) PROVE Goal
    <2>1. CASE \E u \in Accounts : \E change \in Removal : CheckLastAdmin(r, u, change)
      BY <1>1, <2>1 DEF CheckLastAdmin
    <2>2. CASE \E u \in Accounts : \E change \in {"promote", "reactivate", "clear", "enroll"} :
                  BeginChange(r, u, change)
      <3>1. PICK u \in Accounts, change \in {"promote", "reactivate", "clear", "enroll"} :
               BeginChange(r, u, change)
        BY <2>2
      <3> QED
        BY <1>0, <1>2, <3>1 DEF BeginChange
    <2>3. CASE \E u \in Accounts : BeginCreate(r, u)
      BY <1>0, <1>2, <2>3 DEF BeginCreate
    <2>4. CASE BeginRemoval(r)
      BY <1>0, <1>2, <2>4 DEF BeginRemoval
    <2>5. CASE Finish(r)
      <3>1. op["api"].by # "none"
        BY <2>5, NoOpIs DEF Finish
      <3>2. CASE Write("api")
        BY <1>0, <3>1, <3>2
      <3>3. CASE WriteFails("api")
        BY <1>0, <1>3, <3>3 DEF WriteFails
      <3> QED
        BY <2>5, <3>2, <3>3 DEF Finish
    <2> QED
      BY <1>6, <2>1, <2>2, <2>3, <2>4, <2>5 DEF Handle
  <1>7. CASE UNCHANGED vars
    BY <1>1, <1>7 DEF vars
  <1>8. CASE Next
    <2>1. ASSUME NEW p \in Process, Start(p) \/ Crash(p) \/ (\E u \in Accounts : Use(p, u))
          PROVE  Goal
      BY <1>4, <1>5, <2>1
    <2> QED
      BY <1>6, <1>8, <2>1 DEF Next
  <1>9. Goal
    BY <1>7, <1>8
  <1> QED
    BY <1>9 DEF Goal, Still

\* The first file is written when no mutate is under way.
LEMMA FirstFile ==
    ASSUME TInv, NEW p \in Process, file = Nobody, createInitial(p)
    PROVE  /\ \A q \in Process : op[q].by = "none" /\ op'[q] = op[q]
           /\ file' = [u \in {Minted(p)} |-> [admin |-> TRUE, active |-> TRUE, mfa |-> FALSE]]
           /\ printed' = printed \cup {Minted(p)}
           /\ UNCHANGED <<req, progress, marker, data, enrolled, raced>>
           /\ boot' = [boot EXCEPT ![p].at = "admin"]
  BY Busy DEF createInitial, disk, Step

LEMMA CInvNext == TInv /\ CInv /\ [Next]_vars => CInv'
  <1> SUFFICES ASSUME TInv, CInv, [Next]_vars PROVE CInv'
    OBVIOUS
  <1>1. ASSUME NEW p \in Process, op[p].by # "none", Write(p) PROVE CInv'
    <2>1. file' = Outcome(p) /\ (op[p].change = "create" \/ op[p].user \in DOMAIN op[p].copy)
      BY <1>1 DEF Write
    <2>2. DOMAIN op[p].copy \subseteq DOMAIN file'
      BY <1>1, <2>1, Outcomes DEF TInv
    <2>3. /\ op'[p].by = "none" /\ printed' = printed
          /\ \A q \in Process : q # p => op'[q].by = op[q].by /\ op'[q].copy = op[q].copy
      BY <1>1, MutateEnds
    <2> QED
      BY <1>1, <2>2, <2>3 DEF CInv
  <1>2. ASSUME NEW p \in Process, file = Nobody, createInitial(p) PROVE CInv'
    <2>1. /\ \A q \in Process : op'[q].by = "none" /\ DOMAIN file' = {Minted(p)}
          /\ printed' = printed \cup {Minted(p)}
      BY <1>2, FirstFile
    <2>2. printed = {}
      BY <1>2 DEF CInv, Nobody
    <2> QED
      BY <2>1, <2>2 DEF CInv
  <1>3. ASSUME UNCHANGED <<file, printed, enrolled, raced>>,
               \A q \in Process : op'[q] = op[q] \/ op'[q].by = "none" \/ op'[q].copy = file
        PROVE  CInv'
    BY <1>3 DEF CInv
  <1> QED
    BY <1>1, <1>2, <1>3, FileMoves

\* For any number of accounts, requests and faults: two processes that start on an
\* empty directory print the password of the one administrator there is.
THEOREM CredentialsWorkAlways == Spec => []CredentialsWork
  <1>1. Init => CInv
    BY NoOpIs DEF Init, CInv
  <1>2. CInv => CredentialsWork
    BY DEF CInv, CredentialsWork
  <1> QED
    BY <1>1, <1>2, CInvNext, TypesInvariant, PTL DEF Spec

LEMMA FreshNext == TInv /\ Fresh /\ [Next]_vars => Fresh'
  <1> SUFFICES ASSUME TInv, Fresh, [Next]_vars PROVE Fresh'
    OBVIOUS
  <1>1. ASSUME NEW p \in Process, op[p].by # "none", Write(p) PROVE Fresh'
    <2>1. ASSUME NEW q \in Process, op'[q].by # "none" PROVE op'[q].stale
      <3>1. q # p /\ op[q].by # "none"
        BY <1>1, <2>1, MutateEnds
      <3>2. op[q] \in Mutate
        BY <3>1, Busy
      <3>3. op'[q] = [op[q] EXCEPT !.stale = op[q].by # "none"]
        BY <1>1, <3>1 DEF Write
      <3>4. op'[q].stale = (op[q].by # "none")
        BY <3>2, <3>3 DEF Mutate
      <3> QED
        BY <3>1, <3>4
    <2> QED
      BY <2>1 DEF Fresh
  <1>2. ASSUME NEW p \in Process, file = Nobody, createInitial(p) PROVE Fresh'
    BY <1>2, FirstFile DEF Fresh
  <1>3. ASSUME UNCHANGED <<file, printed, enrolled, raced>>,
               \A q \in Process : op'[q] = op[q] \/ op'[q].by = "none" \/ op'[q].copy = file
        PROVE  Fresh'
    BY <1>3 DEF Fresh
  <1> QED
    BY <1>1, <1>2, <1>3, FileMoves

\* A write that rests on what still holds: it starts from the file.
LEMMA Written ==
    ASSUME TInv, Fresh, NEW p \in Process, op[p].by # "none", Write(p), ~raced'
    PROVE  /\ ~raced /\ op[p].copy = file /\ \A r \in Requests : op[p].by = r => ~req[r].outdated
           /\ DOMAIN file' = DOMAIN file \cup {op[p].user}
           /\ \A v \in DOMAIN file : v # op[p].user => file'[v] = file[v]
           /\ op[p].change = "create" =>
                 /\ op[p].user \notin DOMAIN file
                 /\ file'[op[p].user] = [admin |-> FALSE, active |-> TRUE, mfa |-> FALSE]
           /\ op[p].change # "create" =>
                 /\ op[p].user \in DOMAIN file /\ file[op[p].user] \in User
                 /\ file'[op[p].user] = Changed(file[op[p].user], op[p].change)
  <1>1. ~raced /\ ~op[p].stale /\ \A r \in Requests : op[p].by = r => ~req[r].outdated
    BY DEF Write
  <1>2. op[p].copy = file
    BY <1>1 DEF Fresh
  <1>3. file' = Outcome(p) /\ (op[p].change = "create" \/ op[p].user \in DOMAIN file)
    BY <1>2 DEF Write
  <1>4. file \in [DOMAIN file -> User]
    BY NobodyIs DEF TInv, Types
  <1>5. op[p].change = "create" => op[p].user \notin DOMAIN file
    BY <1>2 DEF TInv, Phases
  <1>6. /\ DOMAIN Outcome(p) = DOMAIN file \cup {op[p].user}
        /\ \A v \in DOMAIN file : v # op[p].user => Outcome(p)[v] = file[v]
        /\ op[p].change = "create" =>
              Outcome(p)[op[p].user] = [admin |-> FALSE, active |-> TRUE, mfa |-> FALSE]
        /\ op[p].change # "create" =>
              Outcome(p)[op[p].user] = Changed(file[op[p].user], op[p].change)
    BY <1>2, <1>3, Outcomes DEF TInv
  <1>7. op[p].change # "create" => op[p].user \in DOMAIN file /\ file[op[p].user] \in User
    BY <1>3, <1>4
  <1> QED
    BY <1>1, <1>2, <1>3, <1>5, <1>6, <1>7

\* What a change keeps of an account.
LEMMA ChangeKeeps ==
    ASSUME NEW u \in User, NEW change \in Changes \ {"create"}
    PROVE  /\ change \notin Removal /\ u.admin /\ u.active =>
                 Changed(u, change).admin /\ Changed(u, change).active
           /\ change # "enroll" /\ Changed(u, change).mfa => u.mfa
           /\ change = "clear" => ~Changed(u, change).mfa
  BY DEF User, Changes, Removal, Changed

\* Who remains an administrator after it.
LEMMA AdminsAfter ==
    ASSUME TInv, Fresh, NEW p \in Process, op[p].by # "none", Write(p), ~raced'
    PROVE  /\ \A v \in ActiveAdmins(file) : v # op[p].user => v \in ActiveAdmins(file')
           /\ op[p].change \notin Removal =>
                 \A v \in ActiveAdmins(file) : v \in ActiveAdmins(file')
  <1>1. \A v \in ActiveAdmins(file) : v # op[p].user => v \in ActiveAdmins(file')
    BY Written DEF ActiveAdmins
  <1>2. ASSUME op[p].change \notin Removal, op[p].user \in ActiveAdmins(file)
        PROVE  op[p].user \in ActiveAdmins(file')
    <2> DEFINE u == op[p].user
    <2>1. u \in DOMAIN file /\ file[u].admin /\ file[u].active
      BY <1>2 DEF ActiveAdmins
    <2>2. op[p].change # "create"
      BY <2>1, Written
    <2>3. op[p].change \in Changes \ {"create"}
      BY <2>2, Busy DEF Mutate
    <2>4. file[u] \in User /\ file'[u] = Changed(file[u], op[p].change) /\ u \in DOMAIN file'
      BY <2>1, <2>2, Written
    <2>5. file'[u].admin /\ file'[u].active
      BY <1>2, <2>1, <2>3, <2>4, ChangeKeeps
    <2> QED
      BY <2>4, <2>5 DEF ActiveAdmins
  <1> QED
    BY <1>1, <1>2

LEMMA AInvNext == TInv /\ AInv /\ [Next]_vars => AInv'
  <1> SUFFICES ASSUME TInv, AInv, [Next]_vars PROVE AInv'
    OBVIOUS
  <1> DEFINE Left(r) == \E v \in ActiveAdmins(file) : v # req[r].user
  <1>0. /\ Types /\ Phases /\ Fresh /\ AdminRemains /\ req \in [Requests -> Check]
        /\ "api" \in Process
    BY DEF TInv, AInv, Types, Process
  <1>1. Fresh'
    BY <1>0, FreshNext
  <1>2. \A r \in Requests : ~raced /\ req[r].at = "checked" /\ ~req[r].outdated => Left(r)
    BY DEF AInv
  <1>3. ASSUME NEW p \in Process, op[p].by # "none", Write(p),
               \A r \in Requests : req'[r].at = "checked" /\ ~req'[r].outdated =>
                  /\ req[r].at = "checked" /\ ~req[r].outdated /\ req'[r].user = req[r].user
                  /\ op[p].change \notin Removal,
               op[p].change \in Removal => op[p].by \in Requests
        PROVE  AInv'
    <2> SUFFICES ASSUME ~raced'
                 PROVE  /\ ActiveAdmins(file') # {}
                        /\ \A r \in Requests : req'[r].at = "checked" /\ ~req'[r].outdated => Left(r)'
      BY <1>1 DEF AInv, AdminRemains
    <2>1. ~raced /\ file # Nobody /\ \A r \in Requests : op[p].by = r => ~req[r].outdated
      BY <1>0, <1>3, Written, Busy
    <2>2. ActiveAdmins(file) # {}
      BY <1>0, <2>1 DEF AdminRemains
    <2>3. /\ \A v \in ActiveAdmins(file) : v # op[p].user => v \in ActiveAdmins(file')
          /\ op[p].change \notin Removal =>
                \A v \in ActiveAdmins(file) : v \in ActiveAdmins(file')
      BY <1>0, <1>3, AdminsAfter
    <2>4. ActiveAdmins(file') # {}
      <3>1. CASE op[p].change \notin Removal
        BY <2>2, <2>3, <3>1
      <3>2. CASE op[p].change \in Removal
        <4> DEFINE r == op[p].by
        <4>1. r \in Requests /\ req[r].at = "checked" /\ req[r].user = op[p].user
          BY <1>0, <1>3, <3>2 DEF Phases
        <4>2. PICK v \in ActiveAdmins(file) : v # req[r].user
          BY <1>2, <2>1, <4>1
        <4> QED
          BY <2>3, <4>1, <4>2
      <3> QED
        BY <3>1, <3>2
    <2>5. ASSUME NEW r \in Requests, req'[r].at = "checked", ~req'[r].outdated PROVE Left(r)'
      <3>1. /\ req[r].at = "checked" /\ ~req[r].outdated /\ req'[r].user = req[r].user
            /\ op[p].change \notin Removal
        BY <1>3, <2>5
      <3>2. PICK v \in ActiveAdmins(file) : v # req[r].user
        BY <1>2, <2>1, <3>1
      <3> QED
        BY <2>3, <3>1, <3>2
    <2> QED
      BY <2>4, <2>5
  <1>4. ASSUME NEW p \in Process, file = Nobody, createInitial(p) PROVE AInv'
    <2>1. /\ file' = [u \in {Minted(p)} |-> [admin |-> TRUE, active |-> TRUE, mfa |-> FALSE]]
          /\ req' = req
      BY <1>4, FirstFile
    <2>2. Minted(p) \in ActiveAdmins(file')
      BY <2>1 DEF ActiveAdmins
    <2>3. \A r \in Requests : req[r].at # "checked"
      BY <1>0, <1>4 DEF Phases
    <2> QED
      BY <1>1, <2>1, <2>2, <2>3 DEF AInv, AdminRemains
  <1>5. ASSUME UNCHANGED <<file, raced>>,
               \A r \in Requests : req'[r].at = "checked" /\ ~req'[r].outdated =>
                  \/ req[r].at = "checked" /\ ~req[r].outdated /\ req'[r].user = req[r].user
                  \/ Left(r)'
        PROVE  AInv'
    <2>1. AdminRemains'
      BY <1>0, <1>5 DEF AdminRemains
    <2>2. ASSUME NEW r \in Requests, ~raced', req'[r].at = "checked", ~req'[r].outdated
          PROVE  Left(r)'
      BY <1>2, <1>5, <2>2
    <2> QED
      BY <1>1, <2>1, <2>2 DEF AInv
  <1>6. ASSUME NEW p \in Process, Start(p) PROVE AInv'
    <2>1. CASE createInitial(p)
      <3>1. CASE file = Nobody
        BY <1>4, <2>1, <3>1
      <3>2. CASE file # Nobody
        BY <1>5, <2>1, <3>2 DEF createInitial
      <3> QED
        BY <3>1, <3>2
    <2>2. CASE ClearUser(p)
      <3>1. op[p].by = "boot" /\ op[p].by # "none" /\ req' = req
        BY <2>2 DEF ClearUser
      <3>2. op[p].change \notin Removal
        BY <1>0, <3>1 DEF Phases, Removal
      <3>3. CASE Write(p)
        BY <1>3, <3>1, <3>2, <3>3
      <3>4. CASE WriteFails(p)
        BY <1>5, <3>1, <3>4 DEF WriteFails
      <3> QED
        BY <2>2, <3>3, <3>4 DEF ClearUser
    <2>3. CASE \/ LoadOrMigrate(p) \/ FindMissing(p) \/ CopyLegacy(p) \/ CheckMarker(p)
               \/ ListUsers(p) \/ BeginClear(p) \/ SaveProgress(p) \/ WriteMarker(p)
      <3>1. UNCHANGED <<file, req, raced>>
        BY <2>3 DEF LoadOrMigrate, FindMissing, CopyLegacy, CheckMarker, ListUsers,
             BeginClear, SaveProgress, WriteMarker
      <3> QED
        BY <1>5, <3>1
    <2> QED
      BY <1>6, <2>1, <2>2, <2>3 DEF Start
  <1>7. ASSUME NEW p \in Process, Crash(p) \/ (\E u \in Accounts : Use(p, u)) PROVE AInv'
    <2>1. UNCHANGED <<file, raced>> /\ \A r \in Requests : req'[r] = req[r] \/ req'[r] = NoCheck
      BY <1>0, <1>7 DEF Crash, Use
    <2> QED
      BY <1>5, <2>1, DownIs
  <1>8. ASSUME NEW r \in Requests, Handle(r) PROVE AInv'
    <2>1. ASSUME NEW u \in Accounts, NEW change \in Removal, CheckLastAdmin(r, u, change)
          PROVE  AInv'
      <3> DEFINE c == [at |-> "checked", user |-> u, change |-> change, outdated |-> FALSE]
      <3>1. UNCHANGED <<file, raced>> /\ req' = [req EXCEPT ![r] = c] /\ c.user = u
        BY <2>1 DEF CheckLastAdmin
      <3>2. ActiveAdmins(file) # {} /\ ActiveAdmins(file) # {u}
        BY <2>1 DEF CheckLastAdmin, isLastActiveAdmin
      <3>3. \E v \in ActiveAdmins(file) : v # u
        BY <3>2
      <3> HIDE DEF c
      <3>4. \A s \in Requests : req'[s] = IF s = r THEN c ELSE req[s]
        BY <1>0, <3>1
      <3>5. Left(r)'
        BY <3>1, <3>3, <3>4
      <3> QED
        BY <1>5, <3>1, <3>4, <3>5
    <2>2. CASE Finish(r)
      <3>1. op["api"].by = r /\ op["api"].by # "none"
        BY <2>2, NoOpIs DEF Finish
      <3>2. CASE /\ Write("api")
                 /\ req' = [s \in Requests |->
                        IF s = r THEN NoCheck
                        ELSE [req[s] EXCEPT !.outdated =
                                 @ \/ (op["api"].change \in Removal /\ req[s].at = "checked")]]
        <4> DEFINE c(s) == [req[s] EXCEPT !.outdated =
                                 @ \/ (op["api"].change \in Removal /\ req[s].at = "checked")]
        <4>1. \A s \in Requests :
                 /\ c(s).at = req[s].at /\ c(s).user = req[s].user
                 /\ c(s).outdated =
                       (req[s].outdated \/ (op["api"].change \in Removal /\ req[s].at = "checked"))
          BY <1>0 DEF Check
        <4>2. req' = [s \in Requests |-> IF s = r THEN NoCheck ELSE c(s)]
          BY <3>2
        <4> HIDE DEF c
        <4>3. ASSUME NEW s \in Requests, req'[s].at = "checked", ~req'[s].outdated
              PROVE  /\ req[s].at = "checked" /\ ~req[s].outdated /\ req'[s].user = req[s].user
                     /\ op["api"].change \notin Removal
          BY <4>1, <4>2, <4>3, DownIs
        <4> QED
          BY <1>0, <1>3, <3>1, <3>2, <4>3
      <3>3. CASE WriteFails("api") /\ req' = [req EXCEPT ![r] = NoCheck]
        <4>1. \A s \in Requests : req'[s] = req[s] \/ req'[s] = NoCheck
          BY <1>0, <3>3
        <4> QED
          BY <1>5, <3>3, <4>1, DownIs DEF WriteFails
      <3> QED
        BY <2>2, <3>2, <3>3 DEF Finish
    <2>3. CASE \E u \in Accounts : \E change \in {"promote", "reactivate", "clear", "enroll"} :
                  BeginChange(r, u, change)
      BY <1>5, <2>3 DEF BeginChange
    <2>4. CASE (\E u \in Accounts : BeginCreate(r, u)) \/ BeginRemoval(r)
      BY <1>5, <2>4 DEF BeginCreate, BeginRemoval
    <2> QED
      BY <1>8, <2>1, <2>2, <2>3, <2>4 DEF Handle
  <1>9. CASE UNCHANGED vars
    BY <1>5, <1>9 DEF vars
  <1>10. CASE Next
    <2>1. ASSUME NEW p \in Process, Start(p) \/ Crash(p) \/ (\E u \in Accounts : Use(p, u))
          PROVE  AInv'
      BY <1>6, <1>7, <2>1
    <2> QED
      BY <1>8, <1>10, <2>1 DEF Next
  <1> QED
    BY <1>9, <1>10

\* For any number of accounts, requests and faults: as long as no write rests on what
\* another one has changed meanwhile, an active administrator remains.
THEOREM AdminRemainsAlways == Spec => []AdminRemains
  <1>1. Init => AInv
    BY FirstFilesAssumption, NoOpIs, DownIs DEF Init, AInv, Fresh, AdminRemains
  <1>2. AInv => AdminRemains
    BY DEF AInv
  <1> QED
    BY <1>1, <1>2, AInvNext, TypesInvariant, PTL DEF Spec

\* The accounts to clear after a write that rests on what still holds.
LEMMA LeftOverAfter ==
    ASSUME TInv, Fresh, NEW p \in Process, op[p].by # "none", Write(p), ~raced'
    PROVE  /\ LeftOver' \subseteq LeftOver
           /\ op[p].change = "clear" => op[p].user \notin LeftOver'
  <1> DEFINE u == op[p].user
  <1>0. op[p].change \in Changes
    BY Busy DEF Mutate
  <1>1. /\ DOMAIN file' = DOMAIN file \cup {u}
        /\ \A v \in DOMAIN file : v # u => file'[v] = file[v]
    BY Written
  <1>2. IF op[p].change = "enroll" THEN u \in enrolled' /\ enrolled \subseteq enrolled'
                                   ELSE enrolled' = enrolled
    BY DEF Write
  <1>3. ASSUME NEW v \in LeftOver', v # u PROVE v \in LeftOver
    BY <1>1, <1>2, <1>3 DEF LeftOver
  <1>4. CASE op[p].change = "create"
    <2>1. file'[u] = [admin |-> FALSE, active |-> TRUE, mfa |-> FALSE]
      BY <1>4, Written
    <2>2. ~file'[u].mfa
      BY <2>1
    <2> QED
      BY <1>3, <1>4, <2>2 DEF LeftOver
  <1>5. CASE op[p].change # "create"
    <2>1. /\ u \in DOMAIN file /\ file[u] \in User
          /\ file'[u] = Changed(file[u], op[p].change)
      BY <1>5, Written
    <2>2. /\ op[p].change # "enroll" /\ file'[u].mfa => file[u].mfa
          /\ op[p].change = "clear" => ~file'[u].mfa
      BY <1>0, <1>5, <2>1, ChangeKeeps
    <2>3. u \in LeftOver' => u \in LeftOver
      BY <1>2, <2>1, <2>2 DEF LeftOver
    <2> QED
      BY <1>3, <2>2, <2>3 DEF LeftOver
  <1> QED
    BY <1>4, <1>5

\* A process that goes on clearing.
LEMMA ClearMoves ==
    ASSUME TInv, LInv, [Next]_vars, UNCHANGED raced, ~raced => LeftOver' \subseteq LeftOver,
           NEW p \in Process, NEW b \in Boot, boot' = [boot EXCEPT ![p] = b],
           ~raced => /\ marker' => LeftOver' = {}
                     /\ progress' \cap LeftOver' = {}
                     /\ b.cleared \cap LeftOver' = {}
                     /\ b.at = "clear" /\ ~b.failed => LeftOver' \subseteq b.todo
                     /\ b.at = "saved" /\ ~b.failed => LeftOver' = {}
    PROVE  LInv'
  <1>1. Fresh' /\ \A q \in Process : boot'[q] = IF q = p THEN b ELSE boot[q]
    BY FreshNext DEF LInv, TInv, Types
  <1>2. ASSUME ~raced', NEW q \in Process PROVE ClearedBy(q)'
    <2>1. CASE q = p
      BY <1>1, <1>2, <2>1 DEF ClearedBy
    <2>2. CASE q # p
      BY <1>1, <1>2, <2>2 DEF ClearedBy, LInv
    <2> QED
      BY <2>1, <2>2
  <1> QED
    BY <1>1, <1>2 DEF LInv

\* A step that leaves the boot of both processes alone.
LEMMA ClearStays ==
    ASSUME TInv, LInv, [Next]_vars, ~raced' => ~raced /\ LeftOver' \subseteq LeftOver,
           UNCHANGED <<boot, marker, progress>>
    PROVE  LInv'
  <1>1. Fresh'
    BY FreshNext DEF LInv
  <1>2. ASSUME ~raced', NEW q \in Process PROVE ClearedBy(q)'
    BY <1>2 DEF ClearedBy, LInv
  <1> QED
    BY <1>1, <1>2 DEF LInv

LEMMA LInvStart ==
    ASSUME TInv, LInv, [Next]_vars, NEW p \in Process, Start(p) PROVE LInv'
  <1>0. /\ boot \in [Process -> Boot] /\ boot[p] \in Boot /\ Fresh /\ file \in Files
        /\ op \in [Process -> Idle \cup Mutate] /\ progress \subseteq Accounts
    BY DEF TInv, Types, LInv
  <1>1. ~raced => /\ marker => LeftOver = {}
                  /\ progress \cap LeftOver = {}
                  /\ boot[p].cleared \cap LeftOver = {}
                  /\ boot[p].at = "clear" /\ ~boot[p].failed => LeftOver \subseteq boot[p].todo
                  /\ boot[p].at = "saved" /\ ~boot[p].failed => LeftOver = {}
    BY DEF LInv, ClearedBy
  <1>2. UNCHANGED <<file, enrolled>> => LeftOver' = LeftOver
    BY DEF LeftOver
  <1>3. ASSUME NEW a \in {"mint", "admin", "copy", "marker", "list", "up"}, Step(p, a),
               UNCHANGED <<progress, marker, raced>>, LeftOver' \subseteq LeftOver
        PROVE  LInv'
    <2> DEFINE b == [boot[p] EXCEPT !.at = a]
    <2>1. b \in Boot /\ b.at = a /\ b.cleared = boot[p].cleared
      BY <1>0 DEF Boot
    <2>2. boot' = [boot EXCEPT ![p] = b]
      BY <1>0, <1>3 DEF Step
    <2> HIDE DEF b
    <2> QED
      BY <1>1, <1>3, <2>1, <2>2, ClearMoves
  <1>4. CASE LoadOrMigrate(p)
    <2>1. UNCHANGED <<file, enrolled, progress, marker, raced>>
      BY <1>4 DEF LoadOrMigrate, disk, hist
    <2>2. Step(p, "mint") \/ Step(p, "admin")
      BY <1>4 DEF LoadOrMigrate
    <2> QED
      BY <1>2, <1>3, <2>1, <2>2
  <1>5. CASE createInitial(p)
    <2>1. UNCHANGED <<enrolled, progress, marker, raced>> /\ Step(p, "admin")
      BY <1>5 DEF createInitial, disk
    <2>2. CASE file = Nobody
      <3>1. file' = [u \in {Minted(p)} |-> [admin |-> TRUE, active |-> TRUE, mfa |-> FALSE]]
        BY <1>5, <2>2 DEF createInitial
      <3>2. LeftOver' = {}
        BY <3>1 DEF LeftOver
      <3> QED
        BY <1>3, <2>1, <3>2
    <2>3. CASE file # Nobody
      <3>1. file' = file
        BY <1>5, <2>3 DEF createInitial
      <3> QED
        BY <1>2, <1>3, <2>1, <3>1
    <2> QED
      BY <2>2, <2>3
  <1>6. CASE FindMissing(p)
    <2>1. UNCHANGED <<file, enrolled, progress, marker, raced>>
      BY <1>6 DEF FindMissing, disk, hist
    <2>2. CASE Step(p, "marker")
      BY <1>2, <1>3, <2>1, <2>2
    <2>3. ASSUME NEW u \in FirstAdmin(file),
                 boot' = [boot EXCEPT ![p].at = "copy", ![p].dest = u]
          PROVE  LInv'
      <3> DEFINE b == [[boot[p] EXCEPT !.at = "copy"] EXCEPT !.dest = u]
      <3>1. u \in 0 .. MaxAccounts
        BY <1>0, NobodyIs DEF FirstAdmin, ActiveAdmins, Accounts
      <3>2. boot' = [boot EXCEPT ![p] = b]
        BY <1>0, <2>3
      <3>3. b \in Boot /\ b.at = "copy" /\ b.cleared = boot[p].cleared
        BY <1>0, <3>1 DEF Boot
      <3> HIDE DEF b
      <3> QED
        BY <1>1, <1>2, <2>1, <3>2, <3>3, ClearMoves
    <2> QED
      BY <1>6, <2>2, <2>3 DEF FindMissing
  <1>7. CASE CopyLegacy(p)
    <2>1. UNCHANGED <<file, enrolled, progress, marker, raced>> /\ Step(p, "marker")
      BY <1>7 DEF CopyLegacy, hist
    <2> QED
      BY <1>2, <1>3, <2>1
  <1>8. CASE CheckMarker(p)
    <2> DEFINE b == [[boot[p] EXCEPT !.at = IF marker THEN "up" ELSE "list"]
                        EXCEPT !.cleared = IF marker THEN {} ELSE progress]
    <2>1. boot' = [boot EXCEPT ![p] = b]
      BY <1>0, <1>8 DEF CheckMarker
    <2>2. b \in Boot /\ b.at \in {"up", "list"} /\ b.cleared \subseteq progress
      BY <1>0 DEF Boot
    <2> HIDE DEF b
    <2>3. UNCHANGED <<file, enrolled, progress, marker, raced>>
      BY <1>8 DEF CheckMarker, disk, hist
    <2> QED
      BY <1>1, <1>2, <2>1, <2>2, <2>3, ClearMoves
  <1>9. CASE ListUsers(p)
    <2> DEFINE t == {u \in DOMAIN file : file[u].mfa} \ boot[p].cleared
               b == [[boot[p] EXCEPT !.at = "clear"] EXCEPT !.todo = t]
    <2>1. boot' = [boot EXCEPT ![p] = b]
      BY <1>0, <1>9 DEF ListUsers
    <2>2. t \subseteq Accounts
      BY <1>0, NobodyIs
    <2>3. ~raced => LeftOver \subseteq t
      BY <1>1 DEF LeftOver
    <2> HIDE DEF t
    <2>4. b \in Boot /\ b.at = "clear" /\ b.todo = t /\ b.cleared = boot[p].cleared
      BY <1>0, <2>2 DEF Boot
    <2> HIDE DEF b
    <2>5. UNCHANGED <<file, enrolled, progress, marker, raced>>
      BY <1>9 DEF ListUsers, disk, hist
    <2> QED
      BY <1>1, <1>2, <2>1, <2>3, <2>4, <2>5, ClearMoves
  <1>10. CASE BeginClear(p)
    <2>1. UNCHANGED <<file, enrolled, progress, marker, raced, boot>>
      BY <1>10 DEF BeginClear, disk, hist
    <2> QED
      BY <1>2, <2>1, ClearStays
  <1>11. CASE ClearUser(p)
    <2> DEFINE u == op[p].user
               b1 == [[boot[p] EXCEPT !.todo = @ \ {u}] EXCEPT !.cleared = @ \cup {u}]
               b2 == [[boot[p] EXCEPT !.todo = @ \ {u}] EXCEPT !.failed = TRUE]
    <2>1. /\ op[p].by = "boot" /\ op[p].by # "none" /\ u \in Accounts
          /\ op[p].change = "clear" /\ boot[p].at = "clear"
      <3>1. op[p].by = "boot" /\ op[p].by # "none"
        BY <1>11 DEF ClearUser
      <3> QED
        BY <3>1, Busy, NoOpIs DEF Mutate
    <2>2. /\ b1 \in Boot /\ b1.at = boot[p].at /\ b1.todo = boot[p].todo \ {u}
          /\ b1.cleared = boot[p].cleared \cup {u} /\ b1.failed = boot[p].failed
      BY <1>0, <2>1 DEF Boot
    <2>3. /\ b2 \in Boot /\ b2.at = boot[p].at /\ b2.cleared = boot[p].cleared /\ b2.failed = TRUE
      BY <1>0, <2>1 DEF Boot
    <2>4. UNCHANGED <<marker, progress>>
      BY <1>11 DEF ClearUser, disk
    <2>5. CASE Write(p) /\ boot' = [boot EXCEPT ![p].todo = @ \ {u}, ![p].cleared = @ \cup {u}]
      <3>1. boot' = [boot EXCEPT ![p] = b1]
        BY <1>0, <2>5
      <3> HIDE DEF b1
      <3>2. CASE raced'
        <4>1. Fresh'
          BY <1>0, FreshNext
        <4> QED
          BY <3>2, <4>1 DEF LInv
      <3>3. CASE ~raced'
        <4>1. ~raced /\ LeftOver' \subseteq LeftOver /\ u \notin LeftOver'
          BY <1>0, <2>1, <2>5, <3>3, LeftOverAfter, Written
        <4>2. raced' = raced
          BY <2>1, <2>5, <3>3, <4>1, MutateEnds DEF TInv, Types
        <4> HIDE DEF u
        <4> QED
          BY <1>1, <2>1, <2>2, <2>4, <3>1, <4>1, <4>2, ClearMoves
      <3> QED
        BY <3>2, <3>3
    <2>6. CASE WriteFails(p) /\ boot' = [boot EXCEPT ![p].todo = @ \ {u}, ![p].failed = TRUE]
      <3>1. boot' = [boot EXCEPT ![p] = b2]
        BY <1>0, <2>6
      <3>2. UNCHANGED <<file, enrolled, raced>>
        BY <2>6 DEF WriteFails, hist
      <3> HIDE DEF b2
      <3> QED
        BY <1>1, <1>2, <2>1, <2>3, <2>4, <3>1, <3>2, ClearMoves
    <2> QED
      BY <1>11, <2>5, <2>6 DEF ClearUser
  <1>12. CASE SaveProgress(p)
    <2>0. /\ UNCHANGED <<file, enrolled, marker, raced>>
          /\ boot[p].at = "clear" /\ boot[p].todo = {}
      BY <1>12 DEF SaveProgress, Cleared, hist
    <2>1. CASE progress' = boot[p].cleared /\ boot' = [boot EXCEPT ![p].at = "saved"]
      <3> DEFINE b == [boot[p] EXCEPT !.at = "saved"]
      <3>1. /\ b \in Boot /\ b.at = "saved" /\ b.cleared = boot[p].cleared
            /\ b.failed = boot[p].failed
        BY <1>0 DEF Boot
      <3>2. boot' = [boot EXCEPT ![p] = b]
        BY <1>0, <2>1
      <3>3. ~raced => /\ marker' => LeftOver' = {}
                      /\ progress' \cap LeftOver' = {} /\ b.cleared \cap LeftOver' = {}
                      /\ b.at = "saved" /\ ~b.failed => LeftOver' = {}
        BY <1>1, <1>2, <2>0, <2>1, <3>1
      <3> HIDE DEF b
      <3> QED
        BY <1>1, <1>2, <2>0, <3>1, <3>2, <3>3, ClearMoves
    <2>2. CASE UNCHANGED progress /\ boot' = [boot EXCEPT ![p].at = "saved", ![p].failed = TRUE]
      <3> DEFINE b == [[boot[p] EXCEPT !.at = "saved"] EXCEPT !.failed = TRUE]
      <3>1. b \in Boot /\ b.at = "saved" /\ b.cleared = boot[p].cleared /\ b.failed = TRUE
        BY <1>0 DEF Boot
      <3>2. boot' = [boot EXCEPT ![p] = b]
        BY <1>0, <2>2
      <3>3. ~raced => /\ marker' => LeftOver' = {}
                      /\ progress' \cap LeftOver' = {} /\ b.cleared \cap LeftOver' = {}
                      /\ b.at = "saved" /\ ~b.failed => LeftOver' = {}
        BY <1>1, <1>2, <2>0, <2>2, <3>1
      <3> HIDE DEF b
      <3> QED
        BY <1>1, <1>2, <2>0, <3>1, <3>2, <3>3, ClearMoves
    <2> QED
      BY <1>12, <2>1, <2>2 DEF SaveProgress
  <1>13. CASE WriteMarker(p)
    <2> DEFINE b == [Down EXCEPT !.at = "up"]
    <2>1. b \in Boot /\ b.at = "up" /\ b.cleared = {}
      <3>1. Down.cleared = {}
        BY DEF Down
      <3> QED
        BY <3>1, DownIs DEF Boot
    <2>2. boot' = [boot EXCEPT ![p] = b] /\ UNCHANGED <<file, enrolled, progress, raced>>
      BY <1>13 DEF WriteMarker, Up, hist
    <2>3. boot[p].at = "saved" /\ (marker' = marker \/ ~boot[p].failed)
      BY <1>13 DEF WriteMarker
    <2> HIDE DEF b
    <2>4. ~raced /\ marker' => LeftOver = {}
      BY <1>1, <2>3
    <2>5. LeftOver' = LeftOver
      BY <1>2, <2>2
    <2> QED
      BY <1>1, <2>1, <2>2, <2>4, <2>5, ClearMoves
  <1> QED
    BY <1>4, <1>5, <1>6, <1>7, <1>8, <1>9, <1>10, <1>11, <1>12, <1>13 DEF Start

LEMMA LInvNext == TInv /\ LInv /\ [Next]_vars => LInv'
  <1> SUFFICES ASSUME TInv, LInv, [Next]_vars PROVE LInv'
    OBVIOUS
  <1>0. /\ boot \in [Process -> Boot] /\ Fresh /\ "api" \in Process
        /\ ~raced => (marker => LeftOver = {}) /\ progress \cap LeftOver = {}
    BY DEF TInv, Types, LInv, Process
  <1>1. UNCHANGED <<file, enrolled>> => LeftOver' = LeftOver
    BY DEF LeftOver
  <1>2. ASSUME NEW p \in Process, Crash(p) PROVE LInv'
    <2>1. boot' = [boot EXCEPT ![p] = Down] /\ UNCHANGED <<file, enrolled, progress, marker, raced>>
      BY <1>2 DEF Crash, disk, hist
    <2>2. Down.cleared = {} /\ Down.at = "down" /\ Down \in Boot
      BY DownIs DEF Down
    <2> QED
      BY <1>0, <1>1, <2>1, <2>2, ClearMoves
  <1>3. ASSUME NEW p \in Process, NEW u \in Accounts, Use(p, u) PROVE LInv'
    <2>1. UNCHANGED <<file, enrolled, progress, marker, raced, boot>>
      BY <1>3 DEF Use, hist
    <2> QED
      BY <1>1, <2>1, ClearStays
  <1>4. ASSUME NEW r \in Requests, Handle(r) PROVE LInv'
    <2>1. CASE Finish(r)
      <3>1. op["api"].by # "none" /\ UNCHANGED <<boot, marker, progress>>
        BY <2>1, NoOpIs DEF Finish, disk
      <3>2. CASE Write("api")
        BY <1>0, <3>1, <3>2, LeftOverAfter, Written, ClearStays
      <3>3. CASE WriteFails("api")
        BY <1>1, <3>1, <3>3, ClearStays DEF WriteFails, hist
      <3> QED
        BY <2>1, <3>2, <3>3 DEF Finish
    <2>2. CASE \/ \E u \in Accounts : \E change \in Removal : CheckLastAdmin(r, u, change)
               \/ \E u \in Accounts : \E change \in {"promote", "reactivate", "clear", "enroll"} :
                     BeginChange(r, u, change)
               \/ \E u \in Accounts : BeginCreate(r, u)
               \/ BeginRemoval(r)
      <3>1. UNCHANGED <<file, enrolled, progress, marker, raced, boot>>
        BY <2>2 DEF CheckLastAdmin, BeginChange, BeginCreate, BeginRemoval, disk, hist
      <3> QED
        BY <1>1, <3>1, ClearStays
    <2> QED
      BY <1>4, <2>1, <2>2 DEF Handle
  <1>5. CASE UNCHANGED vars
    BY <1>1, <1>5, ClearStays DEF vars, disk, hist
  <1>6. CASE Next
    <2>1. ASSUME NEW p \in Process, Start(p) \/ Crash(p) \/ (\E u \in Accounts : Use(p, u))
          PROVE  LInv'
      BY <1>2, <1>3, <2>1, LInvStart
    <2> QED
      BY <1>4, <1>6, <2>1 DEF Next
  <1> QED
    BY <1>5, <1>6

\* For any number of accounts, requests and faults: as long as no write rests on what
\* another one has changed meanwhile, the marker is written when every account that has
\* not enrolled since is cleared.
THEOREM ClearIsCompleteAlways == Spec => []ClearIsComplete
  <1>1. Init => LInv
    BY NoOpIs DEF Init, LInv, Fresh, ClearedBy, Down
  <1>2. LInv => ClearIsComplete
    BY DEF LInv, LeftOver, ClearIsComplete
  <1> QED
    BY <1>1, <1>2, LInvNext, TypesInvariant, PTL DEF Spec
=============================================================================
