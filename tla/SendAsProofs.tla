----------------------------- MODULE SendAsProofs -----------------------------
(***************************************************************************)
(* Proofs about SendAs, for any number of requests, addresses and aliases: *)
(* type correctness, that mail is sent under proved addresses only, that   *)
(* probes are bounded, and that the two processes implement AliasLifecycle.*)
(***************************************************************************)
EXTENDS SendAs, FiniteSetTheorems, TLAPS

(***************************************************************************)
(* Type correctness.                                                       *)
(***************************************************************************)
Statuses == {"pending", "verified", "failed"}
Working  == {"fail", "verify", "sweep"}

Holders == [by : Requests \cup {"none", "daemon"}, stale : BOOLEAN]

\* Aliases(f) when n is the next number.
Fits(f, n) ==
    /\ DOMAIN f \subseteq 1 .. n - 1
    /\ \A i \in DOMAIN f : f[i] \in [status : Statuses, email : Emails]

StoreTypes ==
    /\ Aliases(file)
    /\ DOMAIN copy = Process
    /\ \A p \in Process : Aliases(copy[p])
    /\ op \in [Process -> Holders] /\ clobbered \in BOOLEAN
    /\ next \in 1 .. MaxIds + 1
    /\ \A p \in Process : op[p].by = "none" => copy[p] = Empty /\ op[p] = Free

ReqTypes ==
    /\ req \in [Requests -> [at : {"idle", "allowed", "record", "create", "delete"},
                             email : Emails \cup {"none"}, id : Ids \cup {0}]]
    /\ \A r \in Requests : req[r].at \in {"allowed", "record", "create"} => req[r].email \in Emails

TickTypes ==
    /\ tick \in [at : {"idle", "fetch", "check"} \cup Working, todo : SUBSET Ids, id : Ids \cup {0}]
    /\ faults \in 0 .. MaxFaults

\* Whoever holds a mutex is inside an operation, and has room for the alias it
\* is about to create.
Mutexes ==
    /\ op["daemon"].by = "daemon" <=> tick.at \in Working
    /\ op["daemon"].by \in {"daemon", "none"}
    /\ op["api"].by \in Requests \cup {"none"}
    /\ \A r \in Requests : req[r].at = "delete" => op["api"].by = r
    /\ \A r \in Requests : op["api"].by = r =>
          /\ req[r].at \in {"create", "delete"}
          /\ req[r].at = "create" => next <= MaxIds

TInv == StoreTypes /\ ReqTypes /\ TickTypes /\ Mutexes

LEMMA TInvInit == Init => TInv
  <1> SUFFICES ASSUME Init PROVE TInv
    OBVIOUS
  <1> USE ConstantsAssumption DEF Init
  <1>1. StoreTypes
    <2>1. Free \in Holders /\ clobbered \in BOOLEAN
      BY DEF Free, Holders
    <2>2. Aliases(file) /\ \A p \in Process : Aliases(copy[p])
      BY DEF Aliases, Empty
    <2> QED
      BY <2>1, <2>2 DEF StoreTypes, Free
  <1>2. ReqTypes
    BY DEF ReqTypes, Idle
  <1>3. TickTypes
    BY DEF TickTypes, NoTick
  <1>4. Mutexes
    BY DEF Mutexes, Free, Process, NoTick, Working, Idle
  <1> QED
    BY <1>1, <1>2, <1>3, <1>4 DEF TInv

\* What is written to the file.
LEMMA FitsWithout ==
    ASSUME NEW f, NEW n, Fits(f, n), NEW S PROVE Fits(Without(f, S), n)
  BY DEF Fits, Without

LEMMA FitsWithStatus ==
    ASSUME NEW f, NEW n, Fits(f, n), NEW i \in DOMAIN f, NEW s \in Statuses
    PROVE  Fits(WithStatus(f, i, s), n)
  BY DEF Fits, WithStatus

LEMMA FitsNew ==
    ASSUME NEW f, NEW n \in Nat \ {0}, Fits(f, n), NEW e \in Emails
    PROVE  Fits([i \in DOMAIN f \cup {n} |->
                   IF i = n THEN [status |-> "pending", email |-> e] ELSE f[i]], n + 1)
  BY DEF Fits, Statuses

\* What each operation of a store does, process by process.
LEMMA RefreshEffect ==
    ASSUME StoreTypes, NEW p \in Process, NEW who \in Requests \cup {"daemon"}, Refresh(p, who)
    PROVE  /\ op[p] = Free /\ copy'[p] = file
           /\ op'[p] = [by |-> who, stale |-> FALSE]
           /\ DOMAIN copy' = Process /\ op' \in [Process -> Holders]
           /\ \A q \in Process : q # p => copy'[q] = copy[q] /\ op'[q] = op[q]
           /\ UNCHANGED <<file, next, clobbered>>
  <1>1. op'[p] = [op[p] EXCEPT !.by = who] /\ op[p] = [by |-> "none", stale |-> FALSE]
    BY DEF StoreTypes, Refresh, Free
  <1>2. op[p] \in Holders /\ op'[p] \in Holders
    BY <1>1 DEF StoreTypes, Holders
  <1>3. op'[p] = [by |-> who, stale |-> FALSE]
    <2>1. op'[p].by = who /\ op'[p].stale = FALSE
      BY <1>1, <1>2 DEF Holders
    <2> QED
      BY <1>2, <2>1 DEF Holders
  <1>4. op' \in [Process -> Holders]
    BY <1>2 DEF StoreTypes, Refresh
  <1> QED
    BY <1>1, <1>3, <1>4 DEF StoreTypes, Refresh, Free

LEMMA ReleaseEffect ==
    ASSUME StoreTypes, NEW p \in Process, Release(p)
    PROVE  /\ copy'[p] = Empty /\ op'[p] = Free
           /\ DOMAIN copy' = Process /\ op' \in [Process -> Holders]
           /\ \A q \in Process : q # p => copy'[q] = copy[q] /\ op'[q] = op[q]
           /\ UNCHANGED <<file, clobbered>>
  <1>1. Free \in Holders
    BY DEF Free, Holders
  <1> QED
    BY <1>1 DEF StoreTypes, Release

LEMMA WriteEffect ==
    ASSUME StoreTypes, NEW p \in Process, NEW f, Write(p, f)
    PROVE  /\ file' = f /\ copy'[p] = Empty /\ op'[p] = Free
           /\ DOMAIN copy' = Process /\ op' \in [Process -> Holders]
           /\ \A q \in Process : q # p =>
                 /\ copy'[q] = copy[q]
                 /\ op'[q] = [by |-> op[q].by, stale |-> op[q].by # "none"]
           /\ clobbered' = op[p].stale /\ UNCHANGED faults
  <1>1. Free \in Holders
    BY DEF Free, Holders
  <1>2. \A q \in Process : [op[q] EXCEPT !.stale = op[q].by # "none"]
                              = [by |-> op[q].by, stale |-> op[q].by # "none"]
    BY DEF StoreTypes, Holders
  <1>3. \A q \in Process : [by |-> op[q].by, stale |-> op[q].by # "none"] \in Holders
    BY DEF StoreTypes, Holders
  <1>4. op' \in [Process -> Holders]
    BY <1>1, <1>2, <1>3 DEF Write
  <1>5. \A q \in Process : q # p => op'[q] = [op[q] EXCEPT !.stale = op[q].by # "none"]
    BY DEF Write
  <1>6. op'[p] = Free
    BY DEF Write
  <1>8. \A q \in Process : q # p =>
           op'[q] = [by |-> op[q].by, stale |-> op[q].by # "none"]
    BY <1>2, <1>5
  <1>7. /\ file' = f /\ copy'[p] = Empty /\ DOMAIN copy' = Process
        /\ \A q \in Process : q # p => copy'[q] = copy[q]
        /\ clobbered' = op[p].stale /\ UNCHANGED faults
    BY DEF StoreTypes, Write
  <1> QED
    BY <1>4, <1>6, <1>7, <1>8
-----------------------------------------------------------------------------
(***************************************************************************)
(* StoreTypes is kept by each operation of a store.                        *)
(***************************************************************************)
LEMMA CopiesFit == StoreTypes => \A p \in Process : Fits(copy[p], next)
  BY DEF StoreTypes, Aliases, Fits, Statuses

LEMMA AliasesKept ==
    ASSUME next \in Nat, next' \in next .. MaxIds + 1, NEW f, Aliases(f)
    PROVE  /\ DOMAIN f \subseteq 1 .. next' - 1
           /\ \A i \in DOMAIN f : f[i] \in [status : Statuses, email : Emails]
  BY ConstantsAssumption DEF Aliases, Statuses

LEMMA RefreshTypes ==
    ASSUME StoreTypes, NEW p \in Process, NEW who \in Requests \cup {"daemon"},
           Refresh(p, who), who # "none"
    PROVE  StoreTypes'
  <1>1. /\ copy'[p] = file /\ op'[p] = [by |-> who, stale |-> FALSE]
        /\ DOMAIN copy' = Process /\ op' \in [Process -> Holders]
        /\ \A q \in Process : q # p => copy'[q] = copy[q] /\ op'[q] = op[q]
        /\ UNCHANGED <<file, next, clobbered>>
    BY RefreshEffect
  <1>2. op'[p].by # "none"
    BY <1>1
  <1>3. \A q \in Process : op'[q].by = "none" => copy'[q] = Empty /\ op'[q] = Free
    BY <1>1, <1>2 DEF StoreTypes
  <1>4. Aliases(file)' /\ \A q \in Process : Aliases(copy[q])'
    BY <1>1 DEF StoreTypes, Aliases
  <1> QED
    BY <1>1, <1>3, <1>4 DEF StoreTypes

LEMMA ReleaseTypes ==
    ASSUME StoreTypes, NEW p \in Process, Release(p), next' \in next .. MaxIds + 1
    PROVE  StoreTypes'
  <1>1. /\ copy'[p] = Empty /\ op'[p] = Free
        /\ DOMAIN copy' = Process /\ op' \in [Process -> Holders]
        /\ \A q \in Process : q # p => copy'[q] = copy[q] /\ op'[q] = op[q]
        /\ UNCHANGED <<file, clobbered>>
    BY ReleaseEffect
  <1>2. Aliases(file)' /\ \A q \in Process : q # p => Aliases(copy[q])'
    BY <1>1, AliasesKept DEF StoreTypes, Aliases, Statuses
  <1>3. Aliases(copy[p])'
    BY <1>1 DEF Aliases, Empty
  <1>4. next' \in 1 .. MaxIds + 1
    BY DEF StoreTypes
  <1> QED
    BY <1>1, <1>2, <1>3, <1>4 DEF StoreTypes

LEMMA WriteTypes ==
    ASSUME StoreTypes, NEW p \in Process, NEW f, Write(p, f),
           next' \in next .. MaxIds + 1, Fits(f, next')
    PROVE  StoreTypes'
  <1>1. /\ file' = f /\ copy'[p] = Empty /\ op'[p] = Free
        /\ DOMAIN copy' = Process /\ op' \in [Process -> Holders]
        /\ \A q \in Process : q # p =>
              copy'[q] = copy[q] /\ op'[q] = [by |-> op[q].by, stale |-> op[q].by # "none"]
        /\ clobbered' = op[p].stale /\ clobbered' \in BOOLEAN
    <2>1. op[p] \in Holders
      BY DEF StoreTypes
    <2>2. op[p].stale \in BOOLEAN
      BY <2>1 DEF Holders
    <2> QED
      BY <2>2, WriteEffect
  <1>2. \A q \in Process : q # p => Aliases(copy[q])'
    BY <1>1, AliasesKept DEF StoreTypes, Aliases, Statuses
  <1>3. Aliases(file)' /\ Aliases(copy[p])'
    BY <1>1 DEF Aliases, Fits, Empty, Statuses
  <1>4. next' \in 1 .. MaxIds + 1
    BY DEF StoreTypes
  <1>5. ASSUME NEW q \in Process, op'[q].by = "none" PROVE copy'[q] = Empty /\ op'[q] = Free
    <2>1. CASE q = p
      BY <2>1, <1>1
    <2>2. CASE q # p
      <3>1. op'[q] = [by |-> op[q].by, stale |-> op[q].by # "none"] /\ copy'[q] = copy[q]
        BY <2>2, <1>1
      <3>2. op[q].by = "none"
        BY <1>5, <3>1
      <3> QED
        BY <3>1, <3>2 DEF StoreTypes, Free
    <2> QED
      BY <2>1, <2>2
  <1> QED
    BY <1>1, <1>2, <1>3, <1>4, <1>5 DEF StoreTypes

LEMMA SameTypes == ASSUME StoreTypes, UNCHANGED store PROVE StoreTypes'
  BY DEF StoreTypes, store, Aliases
-----------------------------------------------------------------------------
(***************************************************************************)
(* Type correctness, one step per action.                                  *)
(***************************************************************************)
\* A request goes on, or ends, between the operations of the store.
LEMMA ReqStep ==
    ASSUME TInv, UNCHANGED <<store, tick, faults>>, NEW r \in Requests,
           op["api"].by # r,
           NEW new \in [at : {"idle", "allowed", "record", "create"},
                        email : Emails \cup {"none"}, id : Ids \cup {0}],
           new.at \in {"allowed", "record", "create"} => new.email \in Emails,
           req' = [req EXCEPT ![r] = new]
    PROVE  TInv'
  <1>1. ReqTypes'
    BY DEF TInv, ReqTypes
  <1>2. Mutexes'
    BY DEF TInv, Mutexes, store, ReqTypes
  <1> QED
    BY <1>1, <1>2, SameTypes DEF TInv, TickTypes

LEMMA HolderBusy ==
    ASSUME TInv, NEW r \in Requests, req[r].at \notin {"create", "delete"}
    PROVE  op["api"].by # r
  BY DEF TInv, Mutexes

LEMMA ReqFields ==
    ASSUME TInv, NEW r \in Requests
    PROVE  /\ req[r] \in [at : {"idle", "allowed", "record", "create", "delete"},
                          email : Emails \cup {"none"}, id : Ids \cup {0}]
           /\ req[r].at \in {"allowed", "record", "create"} => req[r].email \in Emails
  BY DEF TInv, ReqTypes

LEMMA CheckCapTypes ==
    ASSUME TInv, NEW r \in Requests, NEW e \in Emails, CheckCap(r, e) PROVE TInv'
  <1>1. op["api"].by # r
    BY HolderBusy DEF CheckCap, Idle
  <1> QED
    BY <1>1, ReqStep DEF CheckCap

LEMMA CheckCooldownTypes ==
    ASSUME TInv, NEW r \in Requests, CheckCooldown(r) PROVE TInv'
  <1>1. op["api"].by # r
    BY HolderBusy DEF CheckCooldown
  <1> DEFINE new == IF Allowed(req[r].email) THEN [req[r] EXCEPT !.at = "record"] ELSE Idle
  <1>2. req' = [req EXCEPT ![r] = new]
    BY DEF CheckCooldown
  <1>3. req[r].email \in Emails
    BY ReqFields DEF CheckCooldown
  <1>4. new \in [at : {"idle", "allowed", "record", "create"},
                 email : Emails \cup {"none"}, id : Ids \cup {0}]
        /\ (new.at \in {"allowed", "record", "create"} => new.email \in Emails)
    BY <1>3, ReqFields DEF Idle
  <1> QED
    BY <1>1, <1>2, <1>4, ReqStep DEF CheckCooldown

LEMMA RecordSentTypes ==
    ASSUME TInv, NEW r \in Requests, RecordSent(r) PROVE TInv'
  <1>1. op["api"].by # r
    BY HolderBusy DEF RecordSent
  <1> DEFINE new == [req[r] EXCEPT !.at = "create"]
  <1>2. req' = [req EXCEPT ![r] = new]
    BY DEF RecordSent
  <1>3. req[r].email \in Emails
    BY ReqFields DEF RecordSent
  <1>4. new \in [at : {"idle", "allowed", "record", "create"},
                 email : Emails \cup {"none"}, id : Ids \cup {0}]
        /\ (new.at \in {"allowed", "record", "create"} => new.email \in Emails)
    BY <1>3, ReqFields
  <1> QED
    BY <1>1, <1>2, <1>4, ReqStep DEF RecordSent

\* The API process takes its mutex.
LEMMA ApiBegins ==
    ASSUME TInv, NEW r \in Requests, Refresh("api", r), UNCHANGED <<tick, faults>>,
           ReqTypes', req'[r].at \in {"create", "delete"},
           \A s \in Requests : s # r => req'[s] = req[s],
           req'[r].at = "create" => next <= MaxIds
    PROVE  TInv'
  <1>1. StoreTypes /\ "api" \in Process /\ r # "none"
    BY ConstantsAssumption DEF TInv, Process
  <1>2. StoreTypes'
    BY <1>1, RefreshTypes
  <1>3. /\ op'["api"] = [by |-> r, stale |-> FALSE] /\ op'["daemon"] = op["daemon"]
        /\ next' = next /\ op["api"] = Free
    BY <1>1, RefreshEffect DEF Process
  <1>4. \A s \in Requests : op["api"].by # s
    BY <1>3, ConstantsAssumption DEF Free
  <1>5. Mutexes'
    BY <1>1, <1>3, <1>4 DEF TInv, Mutexes
  <1> QED
    BY <1>2, <1>5 DEF TInv, TickTypes

LEMMA BeginCreateTypes ==
    ASSUME TInv, NEW r \in Requests, BeginCreate(r) PROVE TInv'
  <1>1. /\ ReqTypes' /\ req'[r].at = "create" /\ next <= MaxIds
        /\ \A s \in Requests : s # r => req'[s] = req[s]
    BY DEF BeginCreate, TInv, ReqTypes, api
  <1> QED
    BY <1>1, ApiBegins DEF BeginCreate

LEMMA BeginDeleteTypes ==
    ASSUME TInv, NEW r \in Requests, NEW i \in Ids, BeginDelete(r, i) PROVE TInv'
  <1> DEFINE new == [Idle EXCEPT !.at = "delete", !.id = i]
  <1>1. new \in [at : {"delete"}, email : {"none"}, id : Ids]
    BY DEF Idle
  <1>2. req' = [req EXCEPT ![r] = new]
    BY DEF BeginDelete
  <1> HIDE DEF new
  <1>3. /\ ReqTypes' /\ req'[r].at = "delete"
        /\ \A s \in Requests : s # r => req'[s] = req[s]
    BY <1>1, <1>2 DEF TInv, ReqTypes
  <1> QED
    BY <1>3, ApiBegins DEF BeginDelete

\* The API process releases its mutex, with or without a write.
LEMMA ApiEnds ==
    ASSUME TInv, NEW r \in Requests, op["api"].by = r, StoreTypes',
           op'["api"] = Free, op'["daemon"].by = op["daemon"].by,
           tick' = tick, req' = [req EXCEPT ![r] = Idle], faults' \in 0 .. MaxFaults
    PROVE  TInv'
  <1>1. ReqTypes'
    BY DEF TInv, ReqTypes, Idle
  <1>2. Mutexes'
    BY ConstantsAssumption DEF TInv, Mutexes, Free, ReqTypes, Idle
  <1> QED
    BY <1>1, <1>2 DEF TInv, TickTypes

LEMMA Faults == TInv /\ (Fault \/ UNCHANGED faults) => faults' \in 0 .. MaxFaults
  BY ConstantsAssumption DEF TInv, TickTypes, Fault
LEMMA CreateTypes ==
    ASSUME TInv, NEW r \in Requests, Create(r) PROVE TInv'
  <1> DEFINE e   == req[r].email
             new == [i \in DOMAIN copy["api"] \cup {next} |->
                        IF i = next THEN [status |-> "pending", email |-> e]
                                    ELSE copy["api"][i]]
  <1>1. /\ StoreTypes /\ op["api"].by = r /\ tick' = tick
        /\ req' = [req EXCEPT ![r] = Idle]
    BY DEF TInv, Create
  <1>2. "api" \in Process /\ "daemon" \in Process
    BY DEF Process
  <1>3. /\ next' = next + 1 /\ next' \in next .. MaxIds + 1 /\ e \in Emails
        /\ next \in Nat \ {0}
    BY <1>1, ConstantsAssumption DEF TInv, Mutexes, ReqTypes, Create, StoreTypes
  <1>4. Fits(new, next')
    BY <1>1, <1>2, <1>3, CopiesFit, FitsNew
  <1>5. Write("api", new) \/ WriteFails("api")
    BY DEF Create
  <1> HIDE DEF new
  <1>6. CASE Write("api", new)
    <2>1. StoreTypes'
      BY <1>1, <1>2, <1>3, <1>4, <1>6, WriteTypes
    <2>2. /\ op'["api"] = Free /\ UNCHANGED faults
          /\ op'["daemon"] = [by |-> op["daemon"].by, stale |-> op["daemon"].by # "none"]
      BY <1>1, <1>2, <1>6, WriteEffect
    <2>3. op'["daemon"].by = op["daemon"].by
      BY <2>2
    <2> QED
      BY <1>1, <2>1, <2>2, <2>3, ApiEnds, Faults
  <1>7. CASE WriteFails("api")
    <2>1. Release("api") /\ Fault
      BY <1>7 DEF WriteFails
    <2>2. StoreTypes'
      BY <1>1, <1>2, <1>3, <2>1, ReleaseTypes
    <2>3. op'["api"] = Free /\ op'["daemon"].by = op["daemon"].by
      BY <1>1, <1>2, <2>1, ReleaseEffect
    <2> QED
      BY <1>1, <2>1, <2>2, <2>3, ApiEnds, Faults
  <1> QED
    BY <1>5, <1>6, <1>7

LEMMA DeleteTypes ==
    ASSUME TInv, NEW r \in Requests, Delete(r) PROVE TInv'
  <1> DEFINE f == Without(copy["api"], {req[r].id})
  <1>1. /\ StoreTypes /\ next' = next /\ tick' = tick /\ req' = [req EXCEPT ![r] = Idle]
        /\ op["api"].by = r
    BY DEF TInv, Delete, Mutexes
  <1>2. "api" \in Process /\ "daemon" \in Process
    BY DEF Process
  <1>3. next' \in next .. MaxIds + 1
    BY <1>1, ConstantsAssumption DEF StoreTypes
  <1>4. Fits(f, next')
    BY <1>1, <1>2, CopiesFit, FitsWithout
  <1>5. Write("api", f) \/ WriteFails("api")
    BY DEF Delete
  <1> HIDE DEF f
  <1>6. CASE Write("api", f)
    <2>1. StoreTypes'
      BY <1>1, <1>2, <1>3, <1>4, <1>6, WriteTypes
    <2>2. /\ op'["api"] = Free /\ UNCHANGED faults
          /\ op'["daemon"] = [by |-> op["daemon"].by, stale |-> op["daemon"].by # "none"]
      BY <1>1, <1>2, <1>6, WriteEffect
    <2>3. op'["daemon"].by = op["daemon"].by
      BY <2>2
    <2> QED
      BY <1>1, <2>1, <2>2, <2>3, ApiEnds, Faults
  <1>7. CASE WriteFails("api")
    <2>1. Release("api") /\ Fault
      BY <1>7 DEF WriteFails
    <2>2. StoreTypes'
      BY <1>1, <1>2, <1>3, <2>1, ReleaseTypes
    <2>3. op'["api"] = Free /\ op'["daemon"].by = op["daemon"].by
      BY <1>1, <1>2, <2>1, ReleaseEffect
    <2> QED
      BY <1>1, <2>1, <2>2, <2>3, ApiEnds, Faults
  <1> QED
    BY <1>5, <1>6, <1>7
\* The daemon's steps between its operations, and its begin and end of one.
LEMMA TickStep ==
    ASSUME TInv, UNCHANGED <<store, api, faults>>,
           tick' \in [at : {"idle", "fetch", "check"}, todo : SUBSET Ids, id : Ids \cup {0}],
           tick.at \notin Working
    PROVE  TInv'
  <1>1. TickTypes'
    BY DEF TInv, TickTypes
  <1>2. Mutexes'
    BY DEF TInv, Mutexes, store, api, Working
  <1>3. ReqTypes'
    BY DEF TInv, ReqTypes, api
  <1> QED
    BY <1>1, <1>2, <1>3, SameTypes DEF TInv

LEMMA DaemonBegins ==
    ASSUME TInv, Refresh("daemon", "daemon"), UNCHANGED <<api, faults>>,
           tick' \in [at : Working, todo : SUBSET Ids, id : Ids \cup {0}]
    PROVE  TInv'
  <1>1. StoreTypes /\ "daemon" \in Process /\ "daemon" \in Requests \cup {"daemon"}
        /\ "daemon" # "none"
    BY DEF TInv, Process
  <1>2. StoreTypes'
    BY <1>1, RefreshTypes
  <1>3. /\ op'["daemon"] = [by |-> "daemon", stale |-> FALSE] /\ op'["api"] = op["api"]
        /\ next' = next
    BY <1>1, RefreshEffect DEF Process
  <1>4. Mutexes'
    BY <1>3 DEF TInv, Mutexes, api
  <1>5. ReqTypes' /\ TickTypes'
    BY DEF TInv, ReqTypes, TickTypes, api
  <1> QED
    BY <1>2, <1>4, <1>5 DEF TInv

LEMMA DaemonEnds ==
    ASSUME TInv, StoreTypes', UNCHANGED <<api, next>>, faults' \in 0 .. MaxFaults,
           op'["daemon"] = Free, op'["api"].by = op["api"].by,
           tick' \in [at : {"idle", "check"}, todo : SUBSET Ids, id : Ids \cup {0}]
    PROVE  TInv'
  <1>1. Mutexes'
    BY DEF TInv, Mutexes, Free, Working, api
  <1>2. ReqTypes' /\ TickTypes'
    BY DEF TInv, ReqTypes, TickTypes, api
  <1> QED
    BY <1>1, <1>2 DEF TInv

LEMMA DaemonWrites ==
    ASSUME TInv, NEW f, Fits(f, next), Write("daemon", f), UNCHANGED <<api, next>>,
           tick' \in [at : {"idle", "check"}, todo : SUBSET Ids, id : Ids \cup {0}]
    PROVE  TInv'
  <1>1. /\ StoreTypes /\ "daemon" \in Process /\ "api" \in Process
    BY DEF TInv, Process
  <1>2. next' \in next .. MaxIds + 1
    BY <1>1, ConstantsAssumption DEF StoreTypes
  <1>3. StoreTypes'
    BY <1>1, <1>2, WriteTypes
  <1>4. /\ op'["daemon"] = Free /\ UNCHANGED faults
        /\ op'["api"] = [by |-> op["api"].by, stale |-> op["api"].by # "none"]
    BY <1>1, WriteEffect
  <1>5. op'["api"].by = op["api"].by
    BY <1>4
  <1> QED
    BY <1>3, <1>4, <1>5, DaemonEnds, Faults

LEMMA DaemonReleases ==
    ASSUME TInv, Release("daemon"), UNCHANGED <<api, next>>, Fault \/ UNCHANGED faults,
           tick' \in [at : {"idle", "check"}, todo : SUBSET Ids, id : Ids \cup {0}]
    PROVE  TInv'
  <1>1. /\ StoreTypes /\ "daemon" \in Process /\ "api" \in Process
    BY DEF TInv, Process
  <1>2. next' \in next .. MaxIds + 1
    BY <1>1, ConstantsAssumption DEF StoreTypes
  <1>3. StoreTypes'
    BY <1>1, <1>2, ReleaseTypes
  <1>4. op'["daemon"] = Free /\ op'["api"].by = op["api"].by
    BY <1>1, ReleaseEffect
  <1> QED
    BY <1>3, <1>4, DaemonEnds, Faults

LEMMA TickFields == TInv => tick \in [at : {"idle", "fetch", "check"} \cup Working,
                                       todo : SUBSET Ids, id : Ids \cup {0}]
  BY DEF TInv, TickTypes

LEMMA DaemonTypes == ASSUME TInv, tickUser PROVE TInv'
  <1> USE TickFields
  <1>0. Fits(Mine, next) /\ Fits(file, next)
    BY CopiesFit DEF TInv, StoreTypes, Aliases, Fits, Statuses, Process, Mine
  <1>1. CASE List
    <2>1. Pending(file) \subseteq Ids
      BY <1>0, ConstantsAssumption DEF Pending, Fits, Ids, TInv, StoreTypes
    <2>2. tick' = [at |-> "check", todo |-> Pending(file), id |-> 0]
      BY <1>1 DEF List, NoTick
    <2> QED
      BY <1>1, <2>1, <2>2, TickStep DEF List, InTick, NoTick, Working
  <1>7. CASE TickBegins \/ TickEndsEarly
    <2>1. /\ tick' \in [at : {"idle", "fetch"}, todo : SUBSET Ids, id : Ids \cup {0}]
          /\ tick.at \notin Working
      BY <1>7 DEF TickBegins, TickEndsEarly, InTick, NoTick, Working
    <2> QED
      BY <1>7, <2>1, TickStep DEF TickBegins, TickEndsEarly, Working
  <1>2. CASE Check
    <2>1. PICK i \in tick.todo : tick.at = "check" /\ (NotYet(i) \/ Decide(i))
      BY <1>2 DEF Check
    <2>2. CASE NotYet(i)
      <3>1. tick' \in [at : {"idle", "check"}, todo : SUBSET Ids, id : Ids \cup {0}]
        BY <2>1, <2>2 DEF NotYet
      <3> QED
        BY <2>1, <2>2, <3>1, TickStep DEF NotYet, Working
    <2>3. CASE Decide(i)
      <3>1. tick' \in [at : Working, todo : SUBSET Ids, id : Ids \cup {0}]
        BY <2>1, <2>3 DEF Decide, Working
      <3> QED
        BY <2>3, <3>1, DaemonBegins DEF Decide
    <2> QED
      BY <2>1, <2>2, <2>3
  <1>3. CASE MarkFailed
    <2>1. tick' \in [at : {"idle", "check"}, todo : SUBSET Ids, id : Ids \cup {0}]
      BY <1>3 DEF MarkFailed, MarkDone
    <2>2. UNCHANGED <<api, next>>
      BY <1>3 DEF MarkFailed, MarkDone
    <2>3. CASE tick.id \notin Pending(Mine)
      BY <1>3, <2>1, <2>2, <2>3, DaemonReleases DEF MarkFailed
    <2>4. CASE tick.id \in Pending(Mine)
      <3>1. Fits(WithStatus(Mine, tick.id, "failed"), next)
        BY <1>0, <2>4, FitsWithStatus DEF Pending, Statuses
      <3> QED
        BY <1>3, <2>1, <2>2, <2>4, <3>1, DaemonWrites, DaemonReleases DEF MarkFailed, WriteFails
    <2> QED
      BY <2>3, <2>4
  <1>4. CASE MarkVerified
    <2>1. tick' \in [at : {"idle", "check"}, todo : SUBSET Ids, id : Ids \cup {0}]
      BY <1>4 DEF MarkVerified, MarkDone
    <2>2. UNCHANGED <<api, next>>
      BY <1>4 DEF MarkVerified, MarkDone
    <2>3. CASE tick.id \notin DOMAIN Mine \/ Mine[tick.id].status = "verified"
      BY <1>4, <2>1, <2>2, <2>3, DaemonReleases DEF MarkVerified
    <2>4. CASE tick.id \in DOMAIN Mine /\ Mine[tick.id].status # "verified"
      <3>1. Fits(WithStatus(Mine, tick.id, "verified"), next)
        BY <1>0, <2>4, FitsWithStatus DEF Statuses
      <3> QED
        BY <1>4, <2>1, <2>2, <2>4, <3>1, DaemonWrites, DaemonReleases DEF MarkVerified, WriteFails
    <2> QED
      BY <2>3, <2>4
  <1>5. CASE BeginSweep
    <2>1. tick' \in [at : Working, todo : SUBSET Ids, id : Ids \cup {0}]
      BY <1>5 DEF BeginSweep, Working
    <2> QED
      BY <1>5, <2>1, DaemonBegins DEF BeginSweep
  <1>6. CASE SweepTerminal
    <2>1. /\ tick' \in [at : {"idle", "check"}, todo : SUBSET Ids, id : Ids \cup {0}]
          /\ UNCHANGED <<api, next>>
      BY <1>6 DEF SweepTerminal, NoTick
    <2>2. PICK old : IF old = {} THEN Release("daemon") /\ UNCHANGED faults
                     ELSE Write("daemon", Without(Mine, old)) \/ WriteFails("daemon")
      BY <1>6 DEF SweepTerminal
    <2>3. Fits(Without(Mine, old), next)
      BY <1>0, FitsWithout
    <2> QED
      BY <2>1, <2>2, <2>3, DaemonWrites, DaemonReleases DEF WriteFails
  <1> QED
    BY <1>1, <1>2, <1>3, <1>4, <1>5, <1>6, <1>7 DEF tickUser, checkPendingSendAsAliases

LEMMA OtherTypes ==
    ASSUME TInv, \/ Expire \/ RestartDaemon \/ RestartAPI \/ UNCHANGED vars
                 \/ (\E i \in Ids : Answer(i)) \/ (\E e \in Emails : CooldownEnds(e))
    PROVE  TInv'
  <1>1. CASE Expire \/ (\E i \in Ids : Answer(i)) \/ (\E e \in Emails : CooldownEnds(e))
             \/ UNCHANGED vars
    <2>1. UNCHANGED <<store, req, tick, faults>>
      BY <1>1 DEF Expire, Answer, CooldownEnds, vars, api
    <2> QED
      BY <2>1, SameTypes DEF TInv, ReqTypes, TickTypes, Mutexes, store
  <1>2. CASE RestartDaemon
    <2>1. tick' \in [at : {"idle", "check"}, todo : SUBSET Ids, id : Ids \cup {0}]
      BY <1>2 DEF RestartDaemon, NoTick
    <2> QED
      BY <1>2, <2>1, DaemonReleases DEF RestartDaemon
  <1>3. CASE RestartAPI
    <2>1. /\ StoreTypes /\ "daemon" \in Process /\ "api" \in Process
          /\ Release("api") /\ UNCHANGED <<next, tick>> /\ Fault
      BY <1>3 DEF TInv, Process, RestartAPI
    <2>2. next' \in next .. MaxIds + 1
      BY <2>1, ConstantsAssumption DEF StoreTypes
    <2>3. StoreTypes'
      BY <2>1, <2>2, ReleaseTypes
    <2>4. op'["api"] = Free /\ op'["daemon"] = op["daemon"]
      BY <2>1, ReleaseEffect
    <2>5. req' = [r \in Requests |-> Idle]
      BY <1>3 DEF RestartAPI
    <2>6. ReqTypes'
      BY <2>5 DEF ReqTypes, Idle
    <2>7. Mutexes'
      BY <2>1, <2>4, <2>5, ConstantsAssumption DEF TInv, Mutexes, Idle, Free
    <2> QED
      BY <2>1, <2>3, <2>6, <2>7, Faults DEF TInv, TickTypes
  <1> QED
    BY <1>1, <1>2, <1>3

LEMMA TInvNext == TInv /\ [Next]_vars => TInv'
  <1> SUFFICES ASSUME TInv, [Next]_vars PROVE TInv'
    OBVIOUS
  <1>1. ASSUME NEW r \in Requests, Handle(r) PROVE TInv'
    BY <1>1, CheckCapTypes, CheckCooldownTypes, RecordSentTypes, BeginCreateTypes,
       CreateTypes, BeginDeleteTypes, DeleteTypes DEF Handle
  <1>2. CASE tickUser
    BY <1>2, DaemonTypes
  <1> QED
    BY <1>1, <1>2, OtherTypes DEF Next

LEMMA TypesInvariant == Spec => []TInv
  BY TInvInit, TInvNext, PTL DEF Spec

\* For any number of requests, addresses, aliases and faults: the variables
\* keep their types, no copy of the file names an alias that was never created,
\* and the daemon holds its mutex exactly while an operation is under way.
THEOREM TypeCorrect == Spec => []TypeOK
  <1>1. TInv => TypeOK
    BY DEF TInv, StoreTypes, ReqTypes, TickTypes, Mutexes, TypeOK, Working
  <1> QED
    BY <1>1, TypesInvariant, PTL
-----------------------------------------------------------------------------
(***************************************************************************)
(* What the copies of the file know of each other.                         *)
(***************************************************************************)
\* Nothing is verified in f but what was proved.
Sound(f, S) == \A i \in DOMAIN f : f[i].status = "verified" => i \in S

\* A failed alias of f is failed in g too, unless it is gone there.
Agree(f, g) ==
    \A i \in DOMAIN f \cap DOMAIN g : f[i].status = "failed" => g[i].status = "failed"

\* No alias of S is failed in f.
Unfailed(f, S) == \A i \in DOMAIN f \cap S : f[i].status # "failed"

\* The aliases the daemon is about to decide on.
Watched(t) == t.todo \cup IF t.at \in {"fail", "verify"} THEN {t.id} ELSE {}

ProvedOnly ==
    /\ Sound(file, proved) /\ \A p \in Process : Sound(copy[p], proved)
    /\ tick.at = "verify" => tick.id \in proved

\* A copy nobody has outrun is the file.
Current == \A p \in Process : op[p].by # "none" /\ ~op[p].stale => copy[p] = file

\* An alias fails once: a copy of the API process in which it has failed is
\* never older than the daemon's.
FailedOnce ==
    /\ Agree(copy["api"], file) /\ Agree(copy["api"], copy["daemon"])
    /\ Agree(file, copy["daemon"])

\* And the daemon decides on aliases that have not failed.
Deciding ==
    /\ Unfailed(file, Watched(tick)) /\ \A p \in Process : Unfailed(copy[p], Watched(tick))
    /\ tick.at \in {"fail", "verify"} => tick.id \notin tick.todo
    /\ tick.at \in {"idle", "fetch", "sweep"} => tick.todo = {}

CInv == ProvedOnly /\ Current /\ FailedOnce /\ Deciding

LEMMA CInvInit == Init => CInv
  BY DEF Init, CInv, ProvedOnly, Current, FailedOnce, Deciding, Sound, Agree, Unfailed,
         Watched, Empty, Free, NoTick, Process

LEMMA CInvSame ==
    ASSUME CInv, UNCHANGED <<store, tick>>, proved \subseteq proved' PROVE CInv'
  BY DEF CInv, ProvedOnly, Current, FailedOnce, Deciding, Sound, Agree, Unfailed,
         Watched, store

LEMMA CInvRefresh ==
    ASSUME TInv, CInv, NEW p \in Process, NEW who \in Requests \cup {"daemon"},
           Refresh(p, who), proved' = proved,
           IF p = "api" THEN tick' = tick
           ELSE /\ Watched(tick') \subseteq Watched(tick)
                /\ tick'.at = "verify" => tick'.id \in proved
                /\ tick'.at \in {"fail", "verify"} => tick'.id \notin tick'.todo
                /\ tick'.at \in {"idle", "fetch", "sweep"} => tick'.todo = {}
    PROVE  CInv'
  <1>1. /\ copy'[p] = file /\ UNCHANGED file /\ op'[p].stale = FALSE
        /\ \A q \in Process : q # p => copy'[q] = copy[q] /\ op'[q] = op[q]
    <2>1. StoreTypes
      BY DEF TInv
    <2>2. op'[p] = [by |-> who, stale |-> FALSE]
      BY <2>1, RefreshEffect
    <2>3. op'[p].stale = FALSE
      BY <2>2
    <2> QED
      BY <2>1, <2>3, RefreshEffect
  <1>2. "api" \in Process /\ "daemon" \in Process /\ p \in {"api", "daemon"}
    BY DEF Process
  <1>3. Watched(tick') \subseteq Watched(tick)
    BY <1>2
  <1>4. ProvedOnly'
    BY <1>1, <1>2 DEF CInv, ProvedOnly, Sound
  <1>5. Current'
    BY <1>1 DEF CInv, Current
  <1>6. FailedOnce'
    BY <1>1, <1>2 DEF CInv, FailedOnce, Agree
  <1>7. Deciding'
    <2>1. Unfailed(file, Watched(tick'))
      BY <1>3 DEF CInv, Deciding, Unfailed
    <2>2. \A q \in Process : Unfailed(copy[q], Watched(tick'))
      BY <1>3 DEF CInv, Deciding, Unfailed
    <2>3. \A q \in Process : Unfailed(copy'[q], Watched(tick'))
      BY <1>1, <2>1, <2>2
    <2>4. /\ tick'.at \in {"fail", "verify"} => tick'.id \notin tick'.todo
          /\ tick'.at \in {"idle", "fetch", "sweep"} => tick'.todo = {}
      BY <1>2 DEF CInv, Deciding
    <2> QED
      BY <1>1, <2>1, <2>3, <2>4 DEF Deciding
  <1> QED
    BY <1>4, <1>5, <1>6, <1>7 DEF CInv

LEMMA CInvRelease ==
    ASSUME TInv, CInv, NEW p \in Process, Release(p), proved' = proved,
           IF p = "api" THEN tick' = tick
           ELSE /\ tick'.todo \subseteq tick.todo /\ tick'.at \in {"idle", "check"}
                /\ tick'.at = "idle" => tick'.todo = {}
    PROVE  CInv'
  <1>1. /\ copy'[p] = Empty /\ UNCHANGED file /\ op'[p] = Free
        /\ \A q \in Process : q # p => copy'[q] = copy[q] /\ op'[q] = op[q]
    <2>1. StoreTypes
      BY DEF TInv
    <2> QED
      BY <2>1, ReleaseEffect
  <1>2. "api" \in Process /\ "daemon" \in Process /\ p \in {"api", "daemon"}
    BY DEF Process
  <1>3. Watched(tick') \subseteq Watched(tick)
    BY <1>2 DEF Watched
  <1>4. ProvedOnly'
    BY <1>1, <1>2 DEF CInv, ProvedOnly, Sound, Empty
  <1>5. Current'
    BY <1>1 DEF CInv, Current, Free
  <1>6. FailedOnce'
    BY <1>1, <1>2 DEF CInv, FailedOnce, Agree, Empty
  <1>7. Deciding'
    <2>1. Unfailed(file, Watched(tick'))
      BY <1>3 DEF CInv, Deciding, Unfailed
    <2>2. \A q \in Process : Unfailed(copy[q], Watched(tick'))
      BY <1>3 DEF CInv, Deciding, Unfailed
    <2>3. \A q \in Process : Unfailed(copy'[q], Watched(tick'))
      BY <1>1, <2>2 DEF Unfailed, Empty
    <2>4. /\ tick'.at \in {"fail", "verify"} => tick'.id \notin tick'.todo
          /\ tick'.at \in {"idle", "fetch", "sweep"} => tick'.todo = {}
      BY <1>2 DEF CInv, Deciding
    <2> QED
      BY <1>1, <2>1, <2>3, <2>4 DEF Deciding
  <1> QED
    BY <1>4, <1>5, <1>6, <1>7 DEF CInv

LEMMA CInvWrite ==
    ASSUME TInv, CInv, NEW p \in Process, NEW f, Write(p, f), proved' = proved,
           Sound(f, proved), Unfailed(f, Watched(tick')),
           IF p = "api" THEN tick' = tick /\ Agree(f, copy["daemon"])
           ELSE /\ tick'.todo \subseteq tick.todo /\ tick'.at \in {"idle", "check"}
                /\ tick'.at = "idle" => tick'.todo = {}
                /\ Agree(copy["api"], f)
    PROVE  CInv'
  <1>1. /\ file' = f /\ copy'[p] = Empty /\ op'[p] = Free
        /\ \A q \in Process : q # p =>
              copy'[q] = copy[q] /\ op'[q] = [by |-> op[q].by, stale |-> op[q].by # "none"]
    <2>1. StoreTypes
      BY DEF TInv
    <2> QED
      BY <2>1, WriteEffect
  <1>2. "api" \in Process /\ "daemon" \in Process /\ p \in {"api", "daemon"}
    BY DEF Process
  <1>3. Watched(tick') \subseteq Watched(tick)
    BY <1>2 DEF Watched
  <1>4. ProvedOnly'
    BY <1>1, <1>2 DEF CInv, ProvedOnly, Sound, Empty
  <1>5. ASSUME NEW q \in Process, op'[q].by # "none", ~op'[q].stale PROVE copy'[q] = file'
    <2>1. CASE q = p
      BY <1>1, <1>5, <2>1 DEF Free
    <2>2. CASE q # p
      <3>1. op'[q] = [by |-> op[q].by, stale |-> op[q].by # "none"]
        BY <1>1, <2>2
      <3>2. op'[q].by = op[q].by /\ op'[q].stale = (op[q].by # "none")
        BY <3>1
      <3> QED
        BY <1>5, <3>2
    <2> QED
      BY <2>1, <2>2
  <1>6. FailedOnce'
    <2>0. \A g : Agree(Empty, g) /\ Agree(g, Empty)
      BY DEF Agree, Empty
    <2>1. CASE p = "api"
      <3>1. copy'["api"] = Empty /\ copy'["daemon"] = copy["daemon"] /\ file' = f
        BY <1>1, <1>2, <2>1
      <3>2. Agree(f, copy["daemon"])
        BY <2>1
      <3> QED
        BY <2>0, <3>1, <3>2 DEF FailedOnce
    <2>2. CASE p = "daemon"
      <3>1. copy'["daemon"] = Empty /\ copy'["api"] = copy["api"] /\ file' = f
        BY <1>1, <1>2, <2>2
      <3>2. Agree(copy["api"], f)
        BY <2>2
      <3> QED
        BY <2>0, <3>1, <3>2 DEF FailedOnce
    <2> QED
      BY <1>2, <2>1, <2>2
  <1>7. Deciding'
    <2>1. \A q \in Process : Unfailed(copy[q], Watched(tick'))
      BY <1>3 DEF CInv, Deciding, Unfailed
    <2>2. \A q \in Process : Unfailed(copy'[q], Watched(tick'))
      <3>1. Unfailed(Empty, Watched(tick'))
        BY DEF Unfailed, Empty
      <3> QED
        BY <1>1, <2>1, <3>1
    <2>3. /\ tick'.at \in {"fail", "verify"} => tick'.id \notin tick'.todo
          /\ tick'.at \in {"idle", "fetch", "sweep"} => tick'.todo = {}
      BY <1>2 DEF CInv, Deciding
    <2> QED
      BY <1>1, <2>2, <2>3 DEF Deciding
  <1> QED
    BY <1>4, <1>5, <1>6, <1>7 DEF CInv, Current
LEMMA CInvHandle ==
    ASSUME TInv, CInv, NEW r \in Requests, Handle(r) PROVE CInv'
  <1>0. /\ "api" \in Process /\ "daemon" \in Process /\ r \in Requests \cup {"daemon"}
        /\ Sound(copy["api"], proved) /\ Unfailed(copy["api"], Watched(tick))
        /\ Agree(copy["api"], copy["daemon"])
    BY DEF Process, CInv, ProvedOnly, Deciding, FailedOnce
  <1>1. CASE (\E e \in Emails : CheckCap(r, e)) \/ CheckCooldown(r) \/ RecordSent(r)
    <2>1. UNCHANGED <<store, tick, proved>>
      BY <1>1 DEF CheckCap, CheckCooldown, RecordSent, world
    <2> QED
      BY <2>1, CInvSame
  <1>2. CASE BeginCreate(r) \/ \E i \in Ids : BeginDelete(r, i)
    <2>1. Refresh("api", r) /\ UNCHANGED <<tick, proved>>
      BY <1>2 DEF BeginCreate, BeginDelete, world
    <2> QED
      BY <1>0, <2>1, CInvRefresh
  <1>3. ASSUME Release("api"), UNCHANGED <<tick, proved>> PROVE CInv'
    BY <1>0, <1>3, CInvRelease
  <1>4. ASSUME NEW f, Write("api", f), UNCHANGED <<tick, proved>>, Sound(f, proved),
               Unfailed(f, Watched(tick)), Agree(f, copy["daemon"])
        PROVE  CInv'
    BY <1>0, <1>4, CInvWrite
  <1>5. CASE Create(r)
    <2> DEFINE new == [i \in DOMAIN copy["api"] \cup {next} |->
                        IF i = next THEN [status |-> "pending", email |-> req[r].email]
                                    ELSE copy["api"][i]]
    <2>1. UNCHANGED <<tick, proved>> /\ (Write("api", new) \/ WriteFails("api"))
      BY <1>5 DEF Create, world
    <2>2. Sound(new, proved) /\ Unfailed(new, Watched(tick)) /\ Agree(new, copy["daemon"])
      BY <1>0 DEF Sound, Unfailed, Agree
    <2> HIDE DEF new
    <2> QED
      BY <1>3, <1>4, <2>1, <2>2 DEF WriteFails
  <1>6. CASE Delete(r)
    <2> DEFINE f == Without(copy["api"], {req[r].id})
    <2>1. UNCHANGED <<tick, proved>> /\ (Write("api", f) \/ WriteFails("api"))
      BY <1>6 DEF Delete, world
    <2>2. Sound(f, proved) /\ Unfailed(f, Watched(tick)) /\ Agree(f, copy["daemon"])
      BY <1>0 DEF Sound, Unfailed, Agree, Without
    <2> HIDE DEF f
    <2> QED
      BY <1>3, <1>4, <2>1, <2>2 DEF WriteFails
  <1> QED
    BY <1>1, <1>2, <1>5, <1>6 DEF Handle

LEMMA CInvDaemon == ASSUME TInv, CInv, tickUser PROVE CInv'
  <1>0. /\ "api" \in Process /\ "daemon" \in Process /\ "daemon" \in Requests \cup {"daemon"}
        /\ Sound(Mine, proved) /\ Unfailed(Mine, Watched(tick)) /\ Agree(copy["api"], Mine)
    BY DEF Process, CInv, ProvedOnly, Deciding, FailedOnce, Mine
  <1>1. CASE List
    <2>1. /\ tick.at = "fetch" /\ UNCHANGED <<store, proved>>
          /\ tick' = [at |-> "check", todo |-> Pending(file), id |-> 0]
      BY <1>1 DEF List, InTick, NoTick, world
    <2>2. Watched(tick') = Pending(file)
      BY <2>1 DEF Watched
    <2>3. copy["daemon"] = Empty
      <3>1. op["daemon"].by = "none"
        BY <2>1 DEF TInv, Mutexes, NoTick, Working
      <3> QED
        BY <1>0, <3>1 DEF TInv, StoreTypes
    <2>4. Unfailed(file, Watched(tick')) /\ \A p \in Process : Unfailed(copy[p], Watched(tick'))
      BY <2>2, <2>3 DEF Unfailed, Pending, CInv, FailedOnce, Agree, Empty, Process
    <2>5. Deciding'
      BY <2>1, <2>4 DEF Deciding, store
    <2>6. ProvedOnly' /\ Current' /\ FailedOnce'
      BY <2>1 DEF CInv, ProvedOnly, Current, FailedOnce, store
    <2> QED
      BY <2>5, <2>6 DEF CInv
  <1>2. CASE Check
    <2>1. PICK i \in tick.todo : tick.at = "check" /\ (NotYet(i) \/ Decide(i))
      BY <1>2 DEF Check
    <2>2. tick \in [at : {"idle", "fetch", "check"} \cup Working, todo : SUBSET Ids, id : Ids \cup {0}]
      BY TickFields
    <2>3. CASE NotYet(i)
      <3>1. /\ tick' = [tick EXCEPT !.todo = @ \ {i}] /\ UNCHANGED <<store, proved>>
        BY <2>3 DEF NotYet, world
      <3>2. tick'.at = "check" /\ Watched(tick') \subseteq Watched(tick)
        BY <2>1, <2>2, <3>1 DEF Watched
      <3> QED
        BY <3>1, <3>2 DEF CInv, ProvedOnly, Current, FailedOnce, Deciding, Unfailed, store
    <2>4. CASE Decide(i)
      <3>1. Refresh("daemon", "daemon") /\ proved' = proved
        BY <2>4 DEF Decide, world
      <3>2. /\ tick'.todo = tick.todo \ {i} /\ tick'.id = i /\ tick'.at \in {"fail", "verify"}
            /\ tick'.at = "verify" => i \in proved
        BY <2>4 DEF Decide, Matches, VerifyDKIMForDomain
      <3>3. Watched(tick') \subseteq Watched(tick)
        BY <2>1, <3>2 DEF Watched
      <3> QED
        BY <1>0, <3>1, <3>2, <3>3, CInvRefresh
    <2> QED
      BY <2>1, <2>3, <2>4
  <1>3. ASSUME tick' = [tick EXCEPT !.at = "check", !.id = 0]
        PROVE  tick'.todo = tick.todo /\ tick'.at = "check" /\ Watched(tick') = tick.todo
    BY <1>3, TickFields DEF Watched
  <1>4. ASSUME Release("daemon"), UNCHANGED proved,
               tick'.todo \subseteq tick.todo /\ tick'.at \in {"idle", "check"},
               tick'.at = "idle" => tick'.todo = {}
        PROVE  CInv'
    BY <1>0, <1>4, CInvRelease
  <1>5. ASSUME NEW f, Write("daemon", f), UNCHANGED proved,
               tick'.todo \subseteq tick.todo /\ tick'.at \in {"idle", "check"},
               tick'.at = "idle" => tick'.todo = {},
               Sound(f, proved), Unfailed(f, Watched(tick')), Agree(copy["api"], f)
        PROVE  CInv'
    BY <1>0, <1>5, CInvWrite
  <1>6. CASE MarkFailed
    <2> DEFINE f == WithStatus(Mine, tick.id, "failed")
    <2>1. /\ tick' = [tick EXCEPT !.at = "check", !.id = 0] /\ UNCHANGED proved
          /\ tick.at = "fail"
          /\ \/ Release("daemon")
             \/ tick.id \in Pending(Mine) /\ Write("daemon", f)
      BY <1>6 DEF MarkFailed, MarkDone, world, WriteFails
    <2>2. tick.todo \subseteq Watched(tick) /\ tick.id \notin tick.todo
      BY <2>1 DEF CInv, Deciding, Watched
    <2>3. Sound(f, proved) /\ Unfailed(f, tick.todo) /\ Agree(copy["api"], f)
      BY <1>0, <2>2 DEF WithStatus, Sound, Unfailed, Agree
    <2> HIDE DEF f
    <2> QED
      BY <1>3, <1>4, <1>5, <2>1, <2>3
  <1>7. CASE MarkVerified
    <2> DEFINE f == WithStatus(Mine, tick.id, "verified")
    <2>1. /\ tick' = [tick EXCEPT !.at = "check", !.id = 0] /\ UNCHANGED proved
          /\ tick.at = "verify"
          /\ Release("daemon") \/ Write("daemon", f)
      BY <1>7 DEF MarkVerified, MarkDone, world, WriteFails
    <2>2. tick.todo \subseteq Watched(tick) /\ tick.id \in Watched(tick) /\ tick.id \in proved
      BY <2>1 DEF CInv, Deciding, ProvedOnly, Watched
    <2>3. Unfailed(copy["api"], Watched(tick))
      BY <1>0 DEF CInv, Deciding
    <2>4. Sound(f, proved) /\ Unfailed(f, tick.todo) /\ Agree(copy["api"], f)
      BY <1>0, <2>2, <2>3 DEF WithStatus, Sound, Unfailed, Agree
    <2> HIDE DEF f
    <2> QED
      BY <1>3, <1>4, <1>5, <2>1, <2>4
  <1>8. CASE BeginSweep
    <2>1. /\ Refresh("daemon", "daemon") /\ proved' = proved
          /\ tick.todo = {} /\ tick.at = "check" /\ tick' = [tick EXCEPT !.at = "sweep"]
      BY <1>8 DEF BeginSweep, world
    <2>2. tick'.todo = {} /\ tick'.at = "sweep" /\ Watched(tick') = {}
      BY <2>1, TickFields DEF Watched
    <2> QED
      BY <1>0, <2>1, <2>2, CInvRefresh
  <1>9. CASE SweepTerminal
    <2>1. UNCHANGED proved /\ tick' = NoTick
      BY <1>9 DEF SweepTerminal, world
    <2>2. tick'.todo = {} /\ tick'.at = "idle" /\ Watched(tick') = {}
      BY <2>1 DEF NoTick, Watched
    <2>3. PICK old : Release("daemon") \/ Write("daemon", Without(Mine, old))
      BY <1>9 DEF SweepTerminal, WriteFails
    <2> DEFINE f == Without(Mine, old)
    <2>4. Sound(f, proved) /\ Unfailed(f, {}) /\ Agree(copy["api"], f)
      BY <1>0 DEF Without, Sound, Unfailed, Agree
    <2>5. Release("daemon") \/ Write("daemon", f)
      BY <2>3
    <2> HIDE DEF f
    <2> QED
      BY <1>4, <1>5, <2>1, <2>2, <2>4, <2>5
  <1>10. CASE TickBegins \/ TickEndsEarly
    <2>1. /\ UNCHANGED <<store, proved>> /\ tick'.todo = {} /\ tick'.at \in {"idle", "fetch"}
      BY <1>10 DEF TickBegins, TickEndsEarly, InTick, NoTick, world
    <2>2. Watched(tick') = {}
      BY <2>1 DEF Watched
    <2>3. Deciding'
      BY <2>1, <2>2 DEF Deciding, Unfailed, store
    <2>4. ProvedOnly' /\ Current' /\ FailedOnce'
      BY <2>1 DEF CInv, ProvedOnly, Current, FailedOnce, store
    <2> QED
      BY <2>3, <2>4 DEF CInv
  <1> QED
    BY <1>1, <1>2, <1>6, <1>7, <1>8, <1>9, <1>10 DEF tickUser, checkPendingSendAsAliases

LEMMA CInvNext == TInv /\ CInv /\ [Next]_vars => CInv'
  <1> SUFFICES ASSUME TInv, CInv, [Next]_vars PROVE CInv'
    OBVIOUS
  <1>1. CASE Expire \/ (\E i \in Ids : Answer(i)) \/ (\E e \in Emails : CooldownEnds(e))
             \/ UNCHANGED vars
    <2>1. UNCHANGED <<store, tick>> /\ proved \subseteq proved'
      BY <1>1 DEF Expire, Answer, CooldownEnds, vars, world
    <2> QED
      BY <2>1, CInvSame
  <1>2. CASE RestartDaemon
    <2>1. /\ "daemon" \in Process /\ Release("daemon") /\ UNCHANGED proved
          /\ tick'.todo = {} /\ tick'.at = "idle"
      BY <1>2 DEF RestartDaemon, Process, NoTick, world
    <2> QED
      BY <2>1, CInvRelease
  <1>3. CASE RestartAPI
    <2>1. "api" \in Process /\ Release("api") /\ UNCHANGED <<proved, tick>>
      BY <1>3 DEF RestartAPI, Process, world
    <2> QED
      BY <2>1, CInvRelease
  <1> QED
    BY <1>1, <1>2, <1>3, CInvHandle, CInvDaemon DEF Next

LEMMA CopiesInvariant == Spec => [](TInv /\ CInv)
  BY TInvInit, TInvNext, CInvInit, CInvNext, PTL DEF Spec

\* Whatever the two processes write over each other, and whichever write fails:
\* mail goes out only under an address whose domain answered the probe
\* (sendas_check.go:40).
THEOREM SentWasProvedAlways == Spec => []SentWasProved
  <1>1. TInv /\ CInv => SentWasProved
    BY DEF CInv, ProvedOnly, Sound, SentWasProved, FindVerifiedByEmail
  <1> QED
    BY <1>1, CopiesInvariant, PTL
-----------------------------------------------------------------------------
(***************************************************************************)
(* The probes of a window.                                                 *)
(***************************************************************************)
\* The requests that are to send a probe to e.
Underway(q, e) == {r \in Requests : q[r].email = e /\ q[r].at \in {"record", "create"}}

PInv == recent \subseteq Emails /\ probes \in [Emails -> Nat] /\ ProbesBounded

LEMMA CountRequests ==
    /\ Cardinality(Requests) \in Nat
    /\ \A S \in SUBSET Requests : /\ IsFiniteSet(S) /\ Cardinality(S) \in Nat
                                  /\ Cardinality(S) <= Cardinality(Requests)
    /\ \A S \in SUBSET Requests : \A T \in SUBSET S : Cardinality(T) <= Cardinality(S)
  BY ConstantsAssumption, FS_CardinalityType, FS_Subset

LEMMA Bounded ==
    ProbesBounded <=> \A e \in recent :
        probes[e] + Cardinality(Underway(req, e)) <= Cardinality(Requests)
  BY DEF ProbesBounded, Underway

LEMMA BoundedNext ==
    ProbesBounded' <=> \A e \in recent' :
        probes'[e] + Cardinality(Underway(req', e)) <= Cardinality(Requests)
  BY DEF ProbesBounded, Underway

\* No request joins those that are to send under a running cooldown.
LEMMA NoneJoins ==
    ASSUME PInv, recent' \subseteq recent, UNCHANGED probes,
           \A e \in recent' : Underway(req', e) \subseteq Underway(req, e)
    PROVE  PInv'
  <1>1. ASSUME NEW e \in recent'
        PROVE  probes'[e] + Cardinality(Underway(req', e)) <= Cardinality(Requests)
    <2>1. probes'[e] \in Nat /\ probes'[e] = probes[e] /\ e \in recent
      BY DEF PInv
    <2>2. probes[e] + Cardinality(Underway(req, e)) <= Cardinality(Requests)
      BY <2>1, Bounded DEF PInv
    <2>3. /\ Underway(req, e) \in SUBSET Requests
          /\ Underway(req', e) \in SUBSET Underway(req, e)
          /\ Underway(req', e) \in SUBSET Requests
      BY DEF Underway
    <2>4. /\ Cardinality(Underway(req', e)) <= Cardinality(Underway(req, e))
          /\ Cardinality(Underway(req', e)) \in Nat /\ Cardinality(Underway(req, e)) \in Nat
          /\ Cardinality(Requests) \in Nat
      BY <2>3, CountRequests
    <2> QED
      BY <2>1, <2>2, <2>4
  <1> QED
    BY <1>1, BoundedNext DEF PInv

LEMMA ProbesInit == Init => PInv
  BY DEF Init, PInv, ProbesBounded

\* One step per way in which a request comes closer to a probe.
LEMMA ProbesCooldown ==
    ASSUME TInv, PInv, NEW r \in Requests, CheckCooldown(r) PROVE PInv'
  <1>1. ASSUME NEW e \in recent' PROVE Underway(req', e) \subseteq Underway(req, e)
    <2>1. CASE Allowed(req[r].email)
      <3>1. req' = [req EXCEPT ![r] = [req[r] EXCEPT !.at = "record"]]
        BY <2>1 DEF CheckCooldown
      <3>2. req'[r].email = req[r].email /\ req[r].email # e
        BY <2>1, <3>1, ReqFields DEF Allowed, CheckCooldown, TInv, ReqTypes
      <3> QED
        BY <3>1, <3>2 DEF Underway, TInv, ReqTypes
    <2>2. CASE ~Allowed(req[r].email)
      <3>1. req' = [req EXCEPT ![r] = Idle]
        BY <2>2 DEF CheckCooldown
      <3> QED
        BY <3>1 DEF Underway, Idle, TInv, ReqTypes
    <2> QED
      BY <2>1, <2>2
  <1> QED
    BY <1>1, NoneJoins DEF CheckCooldown

LEMMA ProbesRecord ==
    ASSUME TInv, PInv, NEW r \in Requests, RecordSent(r) PROVE PInv'
  <1> DEFINE m == req[r].email
  <1>1. req' = [req EXCEPT ![r] = [req[r] EXCEPT !.at = "create"]] /\ req[r].at = "record"
    BY DEF RecordSent
  <1>2. m \in Emails /\ req'[r].email = m /\ req'[r].at = "create"
    BY <1>1, ReqFields DEF TInv, ReqTypes
  <1>3. \A e \in Emails : Underway(req', e) = Underway(req, e)
    BY <1>1, <1>2 DEF Underway, TInv, ReqTypes
  <1>4. recent' = recent \cup {m}
    BY DEF RecordSent
  <1>5. CASE m \in recent
    BY <1>3, <1>4, <1>5, NoneJoins DEF RecordSent, PInv
  <1>6. CASE m \notin recent
    <2>1. probes' = [probes EXCEPT ![m] = 0]
      BY <1>6 DEF RecordSent
    <2>2. ASSUME NEW e \in recent'
          PROVE  probes'[e] + Cardinality(Underway(req', e)) <= Cardinality(Requests)
      <3>1. e \in Emails /\ Underway(req', e) = Underway(req, e)
        BY <1>2, <1>3, <1>4 DEF PInv
      <3>2. CASE e = m
        <4>1. probes'[e] = 0
          BY <1>2, <2>1, <3>2 DEF PInv
        <4>2. Underway(req', e) \in SUBSET Requests
          BY DEF Underway
        <4> QED
          BY <4>1, <4>2, CountRequests
      <3>3. CASE e # m
        <4>1. e \in recent /\ probes'[e] = probes[e]
          BY <1>4, <2>1, <3>1, <3>3 DEF PInv
        <4> QED
          BY <3>1, <4>1, Bounded DEF PInv
      <3> QED
        BY <3>2, <3>3
    <2>3. recent' \subseteq Emails /\ probes' \in [Emails -> Nat]
      BY <1>2, <1>4, <2>1 DEF PInv
    <2> QED
      BY <2>2, <2>3, BoundedNext DEF PInv
  <1> QED
    BY <1>5, <1>6

\* A request that may send a probe is no longer under way.
LEMMA ProbesCreate ==
    ASSUME TInv, PInv, NEW r \in Requests, Create(r) PROVE PInv'
  <1> DEFINE m == req[r].email
  <1>1. /\ req' = [req EXCEPT ![r] = Idle] /\ req[r].at = "create" /\ recent' = recent
        /\ probes' = probes \/ probes' = [probes EXCEPT ![m] = @ + 1]
    BY DEF Create, Sent
  <1>2. m \in Emails
    BY <1>1, ReqFields
  <1>3. \A e \in Emails : Underway(req', e) \subseteq Underway(req, e)
    BY <1>1 DEF Underway, Idle, TInv, ReqTypes
  <1>4. CASE probes' = probes
    BY <1>1, <1>3, <1>4, NoneJoins DEF PInv
  <1>5. CASE probes' = [probes EXCEPT ![m] = @ + 1]
    <2>1. probes' \in [Emails -> Nat]
      BY <1>2, <1>5 DEF PInv
    <2>2. ASSUME NEW e \in recent
          PROVE  probes'[e] + Cardinality(Underway(req', e)) <= Cardinality(Requests)
      <3>1. /\ e \in Emails /\ probes[e] \in Nat
            /\ probes[e] + Cardinality(Underway(req, e)) <= Cardinality(Requests)
        BY Bounded DEF PInv
      <3>2. Underway(req, e) \in SUBSET Requests /\ Underway(req', e) \in SUBSET Underway(req, e)
        BY <1>3, <3>1 DEF Underway
      <3>3. /\ IsFiniteSet(Underway(req, e)) /\ Cardinality(Underway(req, e)) \in Nat
            /\ Cardinality(Underway(req', e)) \in Nat /\ Cardinality(Requests) \in Nat
            /\ Cardinality(Underway(req', e)) <= Cardinality(Underway(req, e))
        BY <3>2, CountRequests
      <3>4. CASE e = m
        <4>1. r \in Underway(req, e) /\ Underway(req', e) = Underway(req, e) \ {r}
          BY <1>1, <3>4 DEF Underway, Idle, TInv, ReqTypes
        <4>2. Cardinality(Underway(req', e)) = Cardinality(Underway(req, e)) - 1
          BY <3>3, <4>1, FS_RemoveElement
        <4>3. probes'[e] = probes[e] + 1
          BY <1>2, <1>5, <3>4 DEF PInv
        <4> QED
          BY <3>1, <3>3, <4>2, <4>3
      <3>5. CASE e # m
        <4>1. probes'[e] = probes[e]
          BY <1>5, <3>1, <3>5 DEF PInv
        <4> QED
          BY <3>1, <3>3, <4>1
      <3> QED
        BY <3>4, <3>5
    <2> QED
      BY <1>1, <2>1, <2>2, BoundedNext DEF PInv
  <1> QED
    BY <1>1, <1>4, <1>5

LEMMA ProbesNext == TInv /\ PInv /\ [Next]_vars => PInv'
  <1> SUFFICES ASSUME TInv, PInv, [Next]_vars PROVE PInv'
    OBVIOUS
  <1>1. ASSUME NEW r \in Requests,
               \/ \E e \in Emails : CheckCap(r, e)
               \/ \E i \in Ids : BeginDelete(r, i)
               \/ Delete(r)
        PROVE  PInv'
    <2>1. PICK new : /\ req' = [req EXCEPT ![r] = new] /\ new.at \in {"idle", "allowed", "delete"}
                     /\ UNCHANGED <<recent, probes>>
      BY <1>1 DEF CheckCap, BeginDelete, Delete, Idle
    <2>2. \A e \in recent' : Underway(req', e) \subseteq Underway(req, e)
      BY <2>1 DEF Underway, TInv, ReqTypes
    <2> QED
      BY <2>1, <2>2, NoneJoins
  <1>2. ASSUME NEW r \in Requests, Handle(r) PROVE PInv'
    <2>1. CASE (\E e \in Emails : CheckCap(r, e)) \/ (\E i \in Ids : BeginDelete(r, i)) \/ Delete(r)
      BY <1>1, <2>1
    <2>2. CASE BeginCreate(r)
      BY <2>2, NoneJoins DEF BeginCreate, api, Underway
    <2> QED
      BY <1>2, <2>1, <2>2, ProbesCooldown, ProbesRecord, ProbesCreate DEF Handle
  <1>3. CASE tickUser \/ RestartDaemon \/ Expire \/ (\E i \in Ids : Answer(i))
             \/ UNCHANGED vars
    <2>1. UNCHANGED api
      <3>1. CASE tickUser
        BY <3>1 DEF tickUser, checkPendingSendAsAliases, TickBegins, TickEndsEarly, List,
                    Check, NotYet, Decide, MarkFailed, MarkVerified, MarkDone, BeginSweep, SweepTerminal
      <3> QED
        BY <1>3, <3>1 DEF RestartDaemon, Expire, Answer, vars
    <2> QED
      BY <2>1, NoneJoins DEF api
  <1>4. CASE \E e \in Emails : CooldownEnds(e)
    BY <1>4, NoneJoins DEF CooldownEnds
  <1>5. CASE RestartAPI
    <2>1. recent' = {} /\ probes' = [e \in Emails |-> 0]
      BY <1>5 DEF RestartAPI
    <2> QED
      BY <2>1, BoundedNext DEF PInv
  <1> QED
    BY <1>2, <1>3, <1>4, <1>5 DEF Next

\* For any number of requests, whichever of them interleave: within a window no
\* more probes go to an address than requests are served at a time
\* (sendas_handlers.go:100).
THEOREM ProbesBoundedAlways == Spec => []ProbesBounded
  <1>1. Init => TInv /\ PInv
    BY TInvInit, ProbesInit
  <1>2. TInv /\ PInv /\ [Next]_vars => (TInv /\ PInv)'
    BY TInvNext, ProbesNext
  <1>3. TInv /\ PInv => ProbesBounded
    BY DEF PInv
  <1> QED
    BY <1>1, <1>2, <1>3, PTL DEF Spec
-----------------------------------------------------------------------------
(***************************************************************************)
(* The two processes implement AliasLifecycle.                             *)
(***************************************************************************)
\* The life of each alias, by the file f and the next number n.
Lives(f, n) == [i \in Ids |-> IF i \in DOMAIN f THEN f[i].status
                              ELSE IF i < n THEN "removed" ELSE "absent"]

Status == {"absent", "pending", "verified", "failed", "removed"}

LEMMA LivesType ==
    ASSUME NEW f, NEW n \in 1 .. MaxIds + 1, Fits(f, n)
    PROVE  /\ Lives(f, n) \in [Ids -> Status]
           /\ \A i \in DOMAIN f : i \in Ids /\ i < n /\ Lives(f, n)[i] = f[i].status
  BY ConstantsAssumption DEF Fits, Statuses, Lives, Status, Ids

\* The steps of AliasLifecycle, in terms of the file.
LEMMA LifeBecome ==
    ASSUME NEW i \in Ids, NEW from, NEW to, Lives(file, next)[i] = from,
           Lives(file', next')[i] = to,
           \A j \in Ids \ {i} : Lives(file', next')[j] = Lives(file, next)[j],
           clobbered' = FALSE, UNCHANGED proved
    PROVE  Life!Become(i, from, to)
  <1>1. Lives(file', next') = [Lives(file, next) EXCEPT ![i] = to]
    BY DEF Lives
  <1> QED
    BY <1>1 DEF Life!Become, Lives

LEMMA LifeSweep ==
    ASSUME NEW S \in SUBSET Ids, \A i \in S : Lives(file, next)[i] = "failed",
           \A i \in Ids : Lives(file', next')[i] = IF i \in S THEN "removed"
                                                   ELSE Lives(file, next)[i],
           clobbered' = FALSE, UNCHANGED proved
    PROVE  Life!Sweep(S)
  <1>1. Lives(file', next') = [i \in Ids |-> IF i \in S THEN "removed"
                                             ELSE Lives(file, next)[i]]
    BY DEF Lives
  <1> QED
    BY <1>1 DEF Life!Sweep, Lives

LEMMA LifeClobber ==
    ASSUME TInv', ProvedOnly', clobbered' = TRUE, UNCHANGED proved PROVE Life!Next
  <1>1. Lives(file', next') \in [Ids -> Status]
    <2>1. Fits(file', next') /\ next' \in 1 .. MaxIds + 1
      BY DEF TInv, StoreTypes, Aliases, Fits, Statuses
    <2> QED
      BY <2>1, LivesType
  <1>2. ASSUME NEW i \in Ids, Lives(file', next')[i] = "verified" PROVE i \in proved
    BY <1>2 DEF Lives, ProvedOnly, Sound
  <1>3. Life!Clobber
    BY <1>1, <1>2 DEF Life!Clobber, Life!Status, Status, Lives
  <1> QED
    BY <1>3 DEF Life!Next

LEMMA LifeStutter ==
    ASSUME UNCHANGED <<file, next, clobbered, proved>> PROVE UNCHANGED Life!vars
  BY DEF Life!vars

\* A write, by whether the process has been outrun.
LEMMA LifeOutrun ==
    ASSUME TInv, TInv', ProvedOnly', NEW p \in Process, NEW f, Write(p, f), op[p].stale,
           UNCHANGED proved
    PROVE  Life!Next
  <1>1. clobbered' = TRUE
    <2>1. op[p] \in Holders
      BY DEF TInv, StoreTypes
    <2> QED
      BY <2>1 DEF Write, Holders
  <1> QED
    BY <1>1, LifeClobber

LEMMA UpToDate ==
    ASSUME TInv, CInv, NEW p \in Process, op[p].by # "none", ~op[p].stale
    PROVE  /\ copy[p] = file
           /\ \A f : Write(p, f) => file' = f /\ clobbered' = FALSE
  <1>1. op[p].stale = FALSE
    BY DEF TInv, StoreTypes, Holders
  <1> QED
    BY <1>1 DEF CInv, Current, Write

LEMMA LifeCreate ==
    ASSUME TInv, CInv, TInv', CInv', NEW r \in Requests, Create(r) PROVE Life!Next
  <1> DEFINE new == [i \in DOMAIN copy["api"] \cup {next} |->
                        IF i = next THEN [status |-> "pending", email |-> req[r].email]
                                    ELSE copy["api"][i]]
  <1>1. /\ next' = next + 1 /\ proved' = proved /\ op["api"].by = r /\ r # "none"
        /\ Write("api", new) \/ WriteFails("api")
    BY ConstantsAssumption DEF Create, world
  <1>2. /\ next \in 1 .. MaxIds + 1 /\ next \in Ids /\ "api" \in Process
        /\ Fits(file, next) /\ Fits(file', next') /\ next' \in 1 .. MaxIds + 1
    BY <1>1, ConstantsAssumption
    DEF TInv, Mutexes, StoreTypes, Create, Aliases, Fits, Statuses, Ids, Process
  <1>3. next \notin DOMAIN file /\ Lives(file, next)[next] = "absent"
    BY <1>2, ConstantsAssumption DEF Fits, Lives, Ids
  <1>4. TInv' /\ ProvedOnly'
    BY DEF CInv
  <1>5. CASE Write("api", new) /\ op["api"].stale
    BY <1>1, <1>2, <1>4, <1>5, LifeOutrun
  <1>6. CASE Write("api", new) /\ ~op["api"].stale
    <2>1. copy["api"] = file /\ file' = new /\ clobbered' = FALSE
      BY <1>1, <1>2, <1>6, UpToDate
    <2>2. /\ DOMAIN new = DOMAIN file \cup {next} /\ new[next].status = "pending"
          /\ \A i \in DOMAIN file : i # next => new[i] = file[i]
      BY <2>1
    <2> HIDE DEF new
    <2>3. Lives(file', next')[next] = "pending"
      BY <1>2, <2>1, <2>2 DEF Lives
    <2>4. ASSUME NEW i \in Ids \ {next} PROVE Lives(file', next')[i] = Lives(file, next)[i]
      <3>1. i < next + 1 <=> i < next
        BY <1>2 DEF Ids
      <3> QED
        BY <1>1, <2>1, <2>2, <3>1 DEF Lives
    <2>5. Life!Become(next, "absent", "pending")
      BY <1>1, <1>2, <1>3, <2>1, <2>3, <2>4, LifeBecome
    <2> QED
      BY <1>2, <2>5 DEF Life!Create, Life!Next
  <1>7. CASE WriteFails("api")
    <2>1. file' = file /\ clobbered' = clobbered
      BY <1>7 DEF WriteFails, Release
    <2>2. CASE clobbered
      BY <1>1, <1>4, <2>1, <2>2, LifeClobber DEF TInv
    <2>3. CASE ~clobbered
      <3>1. Lives(file', next')[next] = "removed"
        BY <1>1, <1>2, <1>3, <2>1 DEF Lives, Ids
      <3>2. ASSUME NEW i \in Ids \ {next} PROVE Lives(file', next')[i] = Lives(file, next)[i]
        <4>1. i < next + 1 <=> i < next
          BY <1>2 DEF Ids
        <4> QED
          BY <1>1, <2>1, <4>1 DEF Lives
      <3>3. Life!Become(next, "absent", "removed")
        BY <1>1, <1>2, <1>3, <2>1, <2>3, <3>1, <3>2, LifeBecome DEF TInv, StoreTypes
      <3> QED
        BY <1>2, <3>3 DEF Life!Create, Life!Next
    <2> QED
      BY <2>2, <2>3
  <1> QED
    BY <1>1, <1>5, <1>6, <1>7

LEMMA LifeDelete ==
    ASSUME TInv, CInv, TInv', CInv', NEW r \in Requests, Delete(r)
    PROVE  Life!Next \/ UNCHANGED Life!vars
  <1> DEFINE k == req[r].id
  <1>1. /\ next' = next /\ proved' = proved /\ op["api"].by = r /\ r # "none"
        /\ Write("api", Without(copy["api"], {k})) \/ WriteFails("api")
    BY ConstantsAssumption DEF Delete, world, TInv, Mutexes
  <1>2. "api" \in Process /\ Fits(file, next) /\ next \in 1 .. MaxIds + 1
    BY DEF TInv, StoreTypes, Aliases, Fits, Statuses, Process
  <1>3. CASE WriteFails("api")
    BY <1>1, <1>3, LifeStutter DEF WriteFails, Release
  <1>4. CASE Write("api", Without(copy["api"], {k})) /\ op["api"].stale
    BY <1>1, <1>2, <1>4, LifeOutrun DEF CInv
  <1>5. CASE Write("api", Without(copy["api"], {k})) /\ ~op["api"].stale
    <2>1. file' = Without(file, {k}) /\ clobbered' = FALSE
      BY <1>1, <1>2, <1>5, UpToDate
    <2>2. \A i \in DOMAIN file : /\ i \in Ids /\ i < next
                                /\ file[i].status \in {"pending", "verified", "failed"}
      BY <1>2, LivesType DEF Fits, Statuses
    <2>3. \A i \in Ids \ {k} : Lives(file', next')[i] = Lives(file, next)[i]
      BY <1>1, <2>1 DEF Lives, Without
    <2>4. CASE k \in DOMAIN file
      <3>1. Lives(file', next')[k] = "removed" /\ Lives(file, next)[k] = file[k].status
        BY <1>1, <2>1, <2>2, <2>4 DEF Lives, Without
      <3>2. Life!Become(k, file[k].status, "removed")
        BY <1>1, <2>1, <2>2, <2>3, <2>4, <3>1, LifeBecome
      <3>3. Life!Remove(k)
        BY <2>2, <2>4, <3>2 DEF Life!Remove
      <3> QED
        BY <2>2, <2>4, <3>3 DEF Life!Next
    <2>5. CASE k \notin DOMAIN file
      <3>1. Lives(file', next') = Lives(file, next)
        BY <1>1, <2>1, <2>5 DEF Lives, Without
      <3>2. Life!Sweep({})
        BY <1>1, <2>1, <3>1, LifeSweep
      <3> QED
        BY <3>2 DEF Life!Next
    <2> QED
      BY <2>4, <2>5
  <1> QED
    BY <1>1, <1>3, <1>4, <1>5

\* The daemon marks an alias of a copy that is the file.
LEMMA LifeMark ==
    ASSUME TInv, CInv, NEW k \in DOMAIN file, NEW s \in {"failed", "verified"},
           file[k].status = "pending", s = "verified" => k \in proved,
           file' = WithStatus(file, k, s), clobbered' = FALSE, UNCHANGED <<next, proved>>
    PROVE  Life!Next
  <1>1. Fits(file, next) /\ next \in 1 .. MaxIds + 1
    BY DEF TInv, StoreTypes, Aliases, Fits, Statuses
  <1>2. k \in Ids /\ Lives(file, next)[k] = "pending"
    BY <1>1, LivesType
  <1>3. DOMAIN file' = DOMAIN file /\ \A i \in DOMAIN file : i # k => file'[i] = file[i]
    BY DEF WithStatus
  <1>4. file'[k].status = s
    BY <1>1 DEF WithStatus, Fits
  <1>5. Lives(file', next')[k] = s
    BY <1>2, <1>3, <1>4 DEF Lives
  <1>6. Life!Become(k, "pending", s)
    <2>1. \A i \in Ids \ {k} : Lives(file', next')[i] = Lives(file, next)[i]
      BY <1>3 DEF Lives
    <2> QED
      BY <1>2, <1>5, <2>1, LifeBecome
  <1> QED
    BY <1>2, <1>6 DEF Life!Fail, Life!Verify, Life!Next

LEMMA LifeDaemon ==
    ASSUME TInv, CInv, TInv', CInv', tickUser
    PROVE  Life!Next \/ UNCHANGED Life!vars
  <1>1. /\ "daemon" \in Process /\ Fits(file, next) /\ next \in 1 .. MaxIds + 1
        /\ tick.at \in Working => op["daemon"].by # "none"
    BY DEF TInv, StoreTypes, Aliases, Fits, Statuses, Process, Mutexes
  <1>2. UNCHANGED proved
    BY DEF tickUser, checkPendingSendAsAliases, TickBegins, TickEndsEarly, List, Check,
           NotYet, Decide, MarkFailed, MarkVerified, MarkDone, BeginSweep, SweepTerminal, world
  <1>3. CASE TickBegins \/ TickEndsEarly \/ List \/ Check \/ BeginSweep
    BY <1>2, <1>3, LifeStutter
    DEF TickBegins, TickEndsEarly, List, Check, NotYet, Decide, BeginSweep, Refresh, store
  <1>4. ASSUME NEW f, Write("daemon", f), op["daemon"].stale PROVE Life!Next
    BY <1>1, <1>2, <1>4, LifeOutrun DEF CInv
  <1>5. ASSUME Release("daemon") \/ WriteFails("daemon"), UNCHANGED next
        PROVE  UNCHANGED Life!vars
    BY <1>2, <1>5, LifeStutter DEF Release, WriteFails
  <1>6. CASE MarkFailed
    <2>1. /\ UNCHANGED next /\ tick.at = "fail"
          /\ \/ Release("daemon") \/ WriteFails("daemon")
             \/ /\ tick.id \in Pending(Mine)
                /\ Write("daemon", WithStatus(Mine, tick.id, "failed"))
      BY <1>6 DEF MarkFailed, MarkDone
    <2>2. CASE /\ tick.id \in Pending(Mine) /\ ~op["daemon"].stale
               /\ Write("daemon", WithStatus(Mine, tick.id, "failed"))
      <3>1. /\ Mine = file /\ clobbered' = FALSE
            /\ file' = WithStatus(file, tick.id, "failed")
        BY <1>1, <2>1, <2>2, UpToDate DEF Mine, Working
      <3>2. tick.id \in DOMAIN file /\ file[tick.id].status = "pending"
        BY <2>2, <3>1 DEF Pending
      <3> QED
        BY <1>2, <2>1, <3>1, <3>2, LifeMark
    <2> QED
      BY <1>4, <1>5, <2>1, <2>2
  <1>7. CASE MarkVerified
    <2>1. /\ UNCHANGED next /\ tick.at = "verify"
          /\ \/ Release("daemon") \/ WriteFails("daemon")
             \/ /\ tick.id \in DOMAIN Mine /\ Mine[tick.id].status # "verified"
                /\ Write("daemon", WithStatus(Mine, tick.id, "verified"))
      BY <1>7 DEF MarkVerified, MarkDone
    <2>2. CASE /\ tick.id \in DOMAIN Mine /\ Mine[tick.id].status # "verified"
               /\ Write("daemon", WithStatus(Mine, tick.id, "verified"))
               /\ ~op["daemon"].stale
      <3>1. /\ Mine = file /\ clobbered' = FALSE
            /\ file' = WithStatus(file, tick.id, "verified")
        BY <1>1, <2>1, <2>2, UpToDate DEF Mine, Working
      <3>2. tick.id \in proved /\ file[tick.id].status # "failed"
        BY <2>1, <2>2, <3>1 DEF CInv, ProvedOnly, Deciding, Unfailed, Watched
      <3>3. file[tick.id].status = "pending"
        BY <1>1, <2>2, <3>1, <3>2 DEF Fits, Statuses
      <3> QED
        BY <1>2, <2>1, <2>2, <3>1, <3>2, <3>3, LifeMark
    <2> QED
      BY <1>4, <1>5, <2>1, <2>2
  <1>8. CASE SweepTerminal
    <2>1. /\ UNCHANGED next /\ tick.at = "sweep"
          /\ \E old \in SUBSET {i \in DOMAIN Mine : Mine[i].status = "failed"} :
                Release("daemon") \/ Write("daemon", Without(Mine, old)) \/ WriteFails("daemon")
      BY <1>8 DEF SweepTerminal
    <2>2. ASSUME NEW old \in SUBSET {i \in DOMAIN Mine : Mine[i].status = "failed"},
                 Write("daemon", Without(Mine, old)), ~op["daemon"].stale
          PROVE  Life!Next
      <3>1. Mine = file /\ clobbered' = FALSE /\ file' = Without(file, old)
        BY <1>1, <2>1, <2>2, UpToDate DEF Mine, Working
      <3>2. \A i \in old : i \in DOMAIN file /\ file[i].status = "failed"
        BY <3>1
      <3>3. \A i \in old : i \in Ids /\ i < next /\ Lives(file, next)[i] = "failed"
        BY <1>1, <3>2, LivesType
      <3>4. \A i \in Ids : Lives(file', next')[i] = IF i \in old THEN "removed"
                                                      ELSE Lives(file, next)[i]
        BY <2>1, <3>1, <3>3 DEF Lives, Without
      <3>5. old \in SUBSET Ids /\ Life!Sweep(old)
        BY <1>2, <3>1, <3>3, <3>4, LifeSweep
      <3> QED
        BY <3>5 DEF Life!Next
    <2> QED
      BY <1>4, <1>5, <2>1, <2>2
  <1> QED
    BY <1>3, <1>6, <1>7, <1>8 DEF tickUser, checkPendingSendAsAliases

LEMMA LifeNext ==
    TInv /\ CInv /\ TInv' /\ CInv' /\ [Next]_vars => [Life!Next]_(Life!vars)
  <1> SUFFICES ASSUME TInv, CInv, TInv', CInv', [Next]_vars
               PROVE  Life!Next \/ UNCHANGED Life!vars
    OBVIOUS
  <1>1. ASSUME NEW r \in Requests, Handle(r) PROVE Life!Next \/ UNCHANGED Life!vars
    <2>1. CASE \/ (\E e \in Emails : CheckCap(r, e)) \/ CheckCooldown(r) \/ RecordSent(r)
               \/ BeginCreate(r) \/ (\E i \in Ids : BeginDelete(r, i))
      BY <2>1, LifeStutter
      DEF CheckCap, CheckCooldown, RecordSent, BeginCreate, BeginDelete, Refresh, store, world
    <2> QED
      BY <1>1, <2>1, LifeCreate, LifeDelete DEF Handle
  <1>2. ASSUME NEW i \in Ids, Answer(i) PROVE Life!Next
    BY <1>2 DEF Answer, store, Life!Prove, Life!Next
  <1>3. CASE \/ Expire \/ (\E e \in Emails : CooldownEnds(e)) \/ RestartDaemon
             \/ RestartAPI \/ UNCHANGED vars
    BY <1>3, LifeStutter
    DEF Expire, CooldownEnds, RestartDaemon, RestartAPI, Release, store, world, vars
  <1> QED
    BY <1>1, <1>2, <1>3, LifeDaemon DEF Next

\* The two processes, over one file and two copies of it, implement the life of
\* an alias, for any number of requests, addresses, aliases and faults: but for
\* the writes from an outrun copy each step of theirs creates one alias, marks a
\* pending one once, or removes one (store.go:226).
THEOREM KeepsLifecycleAlways == Spec => KeepsLifecycle
  <1>1. Init => Life!Init
    BY DEF Init, Empty, Ids, Life!Init
  <1>2. TInv /\ CInv /\ (TInv /\ CInv)' /\ [Next]_vars => [Life!Next]_(Life!vars)
    BY LifeNext
  <1> QED
    BY <1>1, <1>2, CopiesInvariant, PTL DEF Spec, KeepsLifecycle, Life!Spec
=============================================================================
