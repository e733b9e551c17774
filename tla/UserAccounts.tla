----------------------------- MODULE UserAccounts -----------------------------
(***************************************************************************)
(* users.json between the API process and the daemon: who writes it first, *)
(* what both do with it while they start (the legacy data, MFA_CLEAR_ALL), *)
(* and the handlers of the administrators and of the users' own MFA.  Each *)
(* process has a Store with a mutex of its own; mutate reads the file and  *)
(* replaces it.                                                            *)
(*                                                                         *)
(* Accounts are numbered in the order of CreatedAt.  Number 1 and 2 are    *)
(* also the administrators the two processes mint when there is no file.   *)
(* TOTP and push approval are one flag, mfa.  Passwords, PGP keys and      *)
(* recovery codes go through the same mutate and are left out.             *)
(***************************************************************************)
EXTENDS Integers, FiniteSets

CONSTANTS
    Requests,    \* requests the API server serves at a time
    FirstFiles,  \* what users.json may be at the first start
    MaxAccounts, \* bound: accounts
    MaxOps,      \* bound: operations of administrators and users
    MaxFaults    \* bound: failed writes and crashes

ASSUME ConstantsAssumption ==
    /\ MaxAccounts \in Nat /\ MaxAccounts >= 2 /\ MaxOps \in Nat /\ MaxFaults \in Nat
    /\ "boot" \notin Requests /\ "none" \notin Requests

VARIABLES
    file,      \* users.json; no accounts when it does not exist
    op,        \* per process: the mutate under way, with what it has read
    boot,      \* per process: how far it has started
    progress,  \* mfa-clear-all.progress
    marker,    \* mfa-clear-all.done
    data,      \* per account: its state and configuration directories
    req,       \* per request: what its handler has checked
    printed,   \* the minted administrators whose password was printed
    enrolled,  \* the accounts that have enrolled since the first start
    raced,     \* whether a write ever rested on what no longer held
    ops, faults

disk == <<progress, marker, data>>
hist == <<printed, enrolled>>
vars == <<file, op, boot, disk, req, hist, raced, ops, faults>>

Accounts == 1 .. MaxAccounts
Process  == {"api", "daemon"}
User     == [admin : BOOLEAN, active : BOOLEAN, mfa : BOOLEAN]
Nobody   == [u \in {} |-> 0]
Minted(p) == IF p = "api" THEN 1 ELSE 2
NoOp     == [by |-> "none", user |-> 0, change |-> "none", copy |-> Nobody, stale |-> FALSE]
Down     == [at |-> "down", cleared |-> {}, todo |-> {}, failed |-> FALSE, dest |-> 0]
NoCheck  == [at |-> "idle", user |-> 0, change |-> "none", outdated |-> FALSE]

Init ==
    /\ file \in FirstFiles
    /\ op = [p \in Process |-> NoOp]
    /\ boot = [p \in Process |-> Down]
    /\ progress = {} /\ marker = FALSE
    /\ data = [u \in Accounts |-> "none"]
    /\ req = [r \in Requests |-> NoCheck]
    /\ printed = {} /\ enrolled = {} /\ raced = FALSE
    /\ ops = 0 /\ faults = 0

Fault == faults < MaxFaults /\ faults' = faults + 1
ActiveAdmins(f) == {u \in DOMAIN f : f[u].admin /\ f[u].active}

\* A file that the program has left has an active administrator.
ASSUME FirstFilesAssumption ==
    \A f \in FirstFiles :
        /\ \E S \in SUBSET Accounts : f \in [S -> User]
        /\ f = Nobody \/ ActiveAdmins(f) # {}
-----------------------------------------------------------------------------
(***************************************************************************)
(* mutate.                                                                 *)
(***************************************************************************)
Refresh(p, who, u, change) ==
    /\ op[p] = NoOp
    /\ op' = [op EXCEPT ![p] = [by |-> who, user |-> u, change |-> change,
                                copy |-> file, stale |-> FALSE]]

Changed(user, change) ==
    CASE change = "promote"    -> [user EXCEPT !.admin = TRUE]
      [] change = "demote"     -> [user EXCEPT !.admin = FALSE]
      [] change = "deactivate" -> [user EXCEPT !.active = FALSE]
      [] change = "reactivate" -> [user EXCEPT !.active = TRUE]
      [] change = "enroll"     -> [user EXCEPT !.mfa = TRUE]
      [] change = "clear"      -> [user EXCEPT !.mfa = FALSE]

Removal == {"demote", "deactivate"}

\* What the operation of process p makes of the accounts.
Outcome(p) ==
    LET o == op[p]
    IN  IF o.change = "create"
        THEN [u \in DOMAIN o.copy \cup {o.user} |->
                 IF u = o.user THEN [admin |-> FALSE, active |-> TRUE, mfa |-> FALSE]
                               ELSE o.copy[u]]
        ELSE [o.copy EXCEPT ![o.user] = Changed(@, o.change)]

\* writeLocked: it rests on what no longer holds when the other process has
\* written since the read, or another removal since the check.
Write(p) ==
    /\ op[p].change = "create" \/ op[p].user \in DOMAIN op[p].copy
    /\ file' = Outcome(p)
    /\ op' = [q \in Process |->
                 IF q = p THEN NoOp
                 ELSE [op[q] EXCEPT !.stale = op[q].by # "none"]]
    /\ raced' = (raced \/ op[p].stale \/ \E r \in Requests : op[p].by = r /\ req[r].outdated)
    /\ enrolled' = IF op[p].change = "enroll" THEN enrolled \cup {op[p].user} ELSE enrolled
    /\ UNCHANGED <<printed, faults>>

\* ErrNotFound, when a write of the other process has undone the creation, or a
\* failed write.
WriteFails(p) ==
    /\ IF op[p].change = "create" \/ op[p].user \in DOMAIN op[p].copy
       THEN Fault ELSE UNCHANGED faults
    /\ op' = [op EXCEPT ![p] = NoOp]
    /\ UNCHANGED <<file, raced, hist>>
-----------------------------------------------------------------------------
(***************************************************************************)
(* The start of a process: LoadOrMigrate, migrateLegacySingleUserData and  *)
(* clearAllMFAIfRequested.                                                 *)
(***************************************************************************)
Step(p, at) == boot' = [boot EXCEPT ![p].at = at]

\* Mutant of LoadOrMigrate: a missing file is not noticed.
LoadAnyway(p) ==
    /\ boot[p].at = "down"
    /\ Step(p, "admin")
    /\ UNCHANGED <<file, op, disk, req, hist, raced, ops, faults>>

LoadOrMigrate(p) ==
    /\ boot[p].at = "down"
    /\ Step(p, IF file = Nobody THEN "mint" ELSE "admin")
    /\ UNCHANGED <<file, op, disk, req, hist, raced, ops, faults>>

\* Mutant of createInitial: a rename in the place of the exclusive link.
CreateByRename(p) ==
    /\ boot[p].at = "mint"
    /\ file' = [u \in {Minted(p)} |-> [admin |-> TRUE, active |-> TRUE, mfa |-> FALSE]]
    /\ printed' = printed \cup {Minted(p)}
    /\ Step(p, "admin")
    /\ UNCHANGED <<op, disk, req, enrolled, raced, ops, faults>>

\* The loser of the link adopts the winner's file.
createInitial(p) ==
    /\ boot[p].at = "mint"
    /\ IF file = Nobody
       THEN /\ file' = [u \in {Minted(p)} |-> [admin |-> TRUE, active |-> TRUE, mfa |-> FALSE]]
            /\ printed' = printed \cup {Minted(p)}
       ELSE UNCHANGED <<file, printed>>
    /\ Step(p, "admin")
    /\ UNCHANGED <<op, disk, req, enrolled, raced, ops, faults>>

FirstAdmin(f) == {u \in ActiveAdmins(f) : \A v \in ActiveAdmins(f) : u <= v}

\* copyIfMissing looks for the destination in the first administrator's directory ...
FindMissing(p) ==
    /\ boot[p].at = "admin"
    /\ \/ \E u \in FirstAdmin(file) :
             /\ data[u] = "none"
             /\ boot' = [boot EXCEPT ![p].at = "copy", ![p].dest = u]
       \/ /\ \A u \in FirstAdmin(file) : data[u] # "none"
          /\ Step(p, "marker")
    /\ UNCHANGED <<file, op, disk, req, hist, raced, ops, faults>>

\* ... and writes it, whatever has become of it.
CopyLegacy(p) ==
    /\ boot[p].at = "copy"
    /\ data' = [data EXCEPT ![boot[p].dest] = "legacy"]
    /\ Step(p, "marker")
    /\ UNCHANGED <<file, op, progress, marker, req, hist, raced, ops, faults>>

CheckMarker(p) ==
    /\ boot[p].at = "marker"
    /\ boot' = [boot EXCEPT ![p].at = IF marker THEN "up" ELSE "list",
                            ![p].cleared = IF marker THEN {} ELSE progress]
    /\ UNCHANGED <<file, op, disk, req, hist, raced, ops, faults>>

ListUsers(p) ==
    /\ boot[p].at = "list"
    /\ boot' = [boot EXCEPT ![p].at = "clear",
                   ![p].todo = {u \in DOMAIN file : file[u].mfa} \ boot[p].cleared]
    /\ UNCHANGED <<file, op, disk, req, hist, raced, ops, faults>>

BeginClear(p) ==
    /\ boot[p].at = "clear"
    /\ \E u \in boot[p].todo : /\ \A v \in boot[p].todo : u <= v
                               /\ Refresh(p, "boot", u, "clear")
    /\ UNCHANGED <<file, boot, disk, req, hist, raced, ops, faults>>

\* DisableTOTP, or an error that leaves the account for the next start.
ClearUser(p) ==
    LET u == op[p].user
    IN  /\ op[p].by = "boot"
        /\ \/ /\ Write(p)
              /\ boot' = [boot EXCEPT ![p].todo = @ \ {u}, ![p].cleared = @ \cup {u}]
           \/ /\ WriteFails(p)
              /\ boot' = [boot EXCEPT ![p].todo = @ \ {u}, ![p].failed = TRUE]
        /\ UNCHANGED <<disk, req, ops>>

Cleared(p) == boot[p].at = "clear" /\ boot[p].todo = {} /\ op[p] = NoOp

SaveProgress(p) ==
    /\ Cleared(p)
    /\ \/ progress' = boot[p].cleared /\ UNCHANGED faults
          /\ boot' = [boot EXCEPT ![p].at = "saved"]
       \/ Fault /\ UNCHANGED progress
          /\ boot' = [boot EXCEPT ![p].at = "saved", ![p].failed = TRUE]
    /\ UNCHANGED <<file, op, marker, data, req, hist, raced, ops>>

Up(p) == boot' = [boot EXCEPT ![p] = [Down EXCEPT !.at = "up"]]

\* Mutant of WriteMarker: written although an account failed.
WriteMarkerAnyway(p) ==
    /\ boot[p].at = "saved"
    /\ marker' = TRUE
    /\ Up(p)
    /\ UNCHANGED <<file, op, progress, data, req, hist, raced, ops, faults>>

WriteMarker(p) ==
    /\ boot[p].at = "saved"
    /\ \/ boot[p].failed /\ UNCHANGED <<marker, faults>>
       \/ ~boot[p].failed /\ marker' = TRUE /\ UNCHANGED faults
       \/ ~boot[p].failed /\ UNCHANGED marker /\ Fault
    /\ Up(p)
    /\ UNCHANGED <<file, op, progress, data, req, hist, raced, ops>>

Start(p) ==
    \/ LoadOrMigrate(p) \/ createInitial(p) \/ FindMissing(p) \/ CopyLegacy(p)
    \/ CheckMarker(p) \/ ListUsers(p) \/ BeginClear(p) \/ ClearUser(p)
    \/ SaveProgress(p) \/ WriteMarker(p)

Crash(p) ==
    /\ boot[p].at # "down"
    /\ Fault
    /\ boot' = [boot EXCEPT ![p] = Down]
    /\ op' = [op EXCEPT ![p] = NoOp]
    /\ req' = IF p = "api" THEN [r \in Requests |-> NoCheck] ELSE req
    /\ UNCHANGED <<file, disk, hist, raced, ops>>
-----------------------------------------------------------------------------
(***************************************************************************)
(* The handlers of the API server.                                         *)
(***************************************************************************)
Op == ops < MaxOps /\ ops' = ops + 1

\* Mutant of isLastActiveAdmin: the others are counted whether active or not.
LastAdminOfAll(u) ==
    u \in ActiveAdmins(file) /\ {v \in DOMAIN file : file[v].admin} = {u}

isLastActiveAdmin(u) == ActiveAdmins(file) = {u}

\* handleUsersUpdate and handleUsersDeactivate up to the end of their check.
CheckLastAdmin(r, u, change) ==
    /\ boot["api"].at = "up" /\ req[r] = NoCheck /\ op["api"].by # r
    /\ ActiveAdmins(file) # {} /\ u \in DOMAIN file
    /\ ~isLastActiveAdmin(u)
    /\ Op
    /\ req' = [req EXCEPT ![r] = [at |-> "checked", user |-> u, change |-> change,
                                  outdated |-> FALSE]]
    /\ UNCHANGED <<file, op, boot, disk, hist, raced, faults>>

BeginRemoval(r) ==
    /\ req[r].at = "checked"
    /\ Refresh("api", r, req[r].user, req[r].change)
    /\ UNCHANGED <<file, boot, disk, req, hist, raced, ops, faults>>

\* The handlers without a check: an administrator promotes, reactivates or clears;
\* a user enrolls.
BeginChange(r, u, change) ==
    /\ boot["api"].at = "up" /\ req[r] = NoCheck
    /\ u \in DOMAIN file
    /\ IF change = "enroll" THEN file[u].active /\ ~file[u].mfa
                            ELSE ActiveAdmins(file) # {} /\ Changed(file[u], change) # file[u]
    /\ Op
    /\ Refresh("api", r, u, change)
    /\ UNCHANGED <<file, boot, disk, req, hist, raced, faults>>

BeginCreate(r, u) ==
    /\ boot["api"].at = "up" /\ req[r] = NoCheck
    /\ ActiveAdmins(file) # {}
    /\ u \notin DOMAIN file /\ \A v \in DOMAIN file : v < u
    /\ Op
    /\ Refresh("api", r, u, "create")
    /\ UNCHANGED <<file, boot, disk, req, hist, raced, faults>>

Finish(r) ==
    /\ op["api"].by = r
    /\ \/ /\ Write("api")
          /\ req' = [s \in Requests |->
                        IF s = r THEN NoCheck
                        ELSE [req[s] EXCEPT !.outdated =
                                 @ \/ (op["api"].change \in Removal /\ req[s].at = "checked")]]
       \/ WriteFails("api") /\ req' = [req EXCEPT ![r] = NoCheck]
    /\ UNCHANGED <<boot, disk, ops>>

\* The processes go on to work in the directories of an account.
Use(p, u) ==
    /\ boot[p].at = "up" /\ u \in DOMAIN file /\ file[u].active
    /\ data[u] = "legacy"
    /\ data' = [data EXCEPT ![u] = "used"]
    /\ UNCHANGED <<file, op, boot, progress, marker, req, hist, raced, ops, faults>>
-----------------------------------------------------------------------------
Handle(r) ==
    \/ \E u \in Accounts : \E change \in Removal : CheckLastAdmin(r, u, change)
    \/ \E u \in Accounts : \E change \in {"promote", "reactivate", "clear", "enroll"} :
          BeginChange(r, u, change)
    \/ \E u \in Accounts : BeginCreate(r, u)
    \/ BeginRemoval(r) \/ Finish(r)

Next ==
    \/ \E p \in Process : Start(p) \/ Crash(p) \/ \E u \in Accounts : Use(p, u)
    \/ \E r \in Requests : Handle(r)

Spec == Init /\ [][Next]_vars
-----------------------------------------------------------------------------
\* Every variable keeps its type, and users.json never vanishes again.
TypeOK ==
    /\ DOMAIN file \subseteq Accounts /\ \A u \in DOMAIN file : file[u] \in User
    /\ \A p \in Process : boot[p].at \in
          {"down", "mint", "admin", "copy", "marker", "list", "clear", "saved", "up"}
    /\ \A p \in Process : boot[p].at \notin {"down", "mint"} => file # Nobody
    /\ data \in [Accounts -> {"none", "legacy", "used"}]
    /\ progress \subseteq Accounts /\ ops \in 0 .. MaxOps /\ faults \in 0 .. MaxFaults

\* An active administrator remains, as long as no removal is written after
\* another one it did not see in its check, and no write after one of the other
\* process it did not see in its read (server_users.go:194).
AdminRemains == ~raced /\ file # Nobody => ActiveAdmins(file) # {}

\* Two processes start on an empty directory and both mint an administrator:
\* the password that was printed belongs to the one in users.json
\* (users.go:222).
CredentialsWork == printed \subseteq DOMAIN file

\* Once the marker is there, whoever has MFA has enrolled since, over any
\* failed writes and crashes of the two processes that clear at the same
\* time (app.go:316).
ClearIsComplete ==
    marker /\ ~raced => \A u \in DOMAIN file : file[u].mfa => u \in enrolled
=============================================================================
