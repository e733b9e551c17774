---------------------------- MODULE FailureLockout ----------------------------
(***************************************************************************)
(* The strike counter of one key (internal/api/login_lockout.go): a login  *)
(* name and address, an account's second factor, a CardDAV host or a       *)
(* paired device.  A request asks allowed, verifies the secret it was      *)
(* given, which takes a scrypt computation, and then records the outcome:  *)
(* any number of requests may be between the two calls.                    *)
(***************************************************************************)
EXTENDS Integers, FiniteSets

CONSTANTS
    Attempts,     \* the requests a server works on at a time
    MaxFailures   \* loginMaxFailures, davMaxFailures, ...

ASSUME LockoutAssumption ==
    /\ IsFiniteSet(Attempts)
    /\ MaxFailures \in Nat \ {0}

VARIABLES
    failures,  \* loginLockoutEntry.failures, 0 when there is no entry
    lock,      \* lockedUntil: never set, in the future, or in the past
    trying,    \* requests that were allowed and have not recorded an outcome
    wrong      \* history: wrong secrets since the last success, sweep or the end
               \* of the last lockout

lockoutVars == <<failures, lock, trying, wrong>>

LockoutInit ==
    /\ failures = 0 /\ lock = "never"
    /\ trying = {}
    /\ wrong = 0
-----------------------------------------------------------------------------
Allowed(r) ==
    /\ r \notin trying
    /\ lock # "future"
    /\ trying' = trying \cup {r}
    /\ UNCHANGED <<failures, lock, wrong>>

\* Mutant of recordFailure: the lockout sets in one failure late.
RecordLate(r) ==
    /\ r \in trying
    /\ trying' = trying \ {r}
    /\ failures' = IF lock = "past" THEN 1 ELSE failures + 1
    /\ lock' = IF failures' > MaxFailures THEN "future" ELSE "never"
    /\ wrong' = wrong + 1

\* Mutant of recordFailure: a lockout that has run out leaves its strikes.
RecordOnTop(r) ==
    /\ r \in trying
    /\ trying' = trying \ {r}
    /\ failures' = failures + 1
    /\ lock' = IF failures' >= MaxFailures THEN "future" ELSE "never"
    /\ wrong' = wrong + 1

\* A lockout that has run out takes its strikes with it.
recordFailure(r) ==
    /\ r \in trying
    /\ trying' = trying \ {r}
    /\ failures' = IF lock = "past" THEN 1 ELSE failures + 1
    /\ lock' = IF failures' >= MaxFailures THEN "future" ELSE "never"
    /\ wrong' = wrong + 1

\* A success deletes the entry, a running lockout with it.
recordSuccess(r) ==
    /\ r \in trying
    /\ trying' = trying \ {r}
    /\ failures' = 0 /\ lock' = "never"
    /\ wrong' = 0

\* The request ends with an error that counts neither way.
Abandon(r) ==
    /\ r \in trying
    /\ trying' = trying \ {r}
    /\ UNCHANGED <<failures, lock, wrong>>

LockoutEnds ==
    /\ lock = "future"
    /\ lock' = "past"
    /\ wrong' = 0
    /\ UNCHANGED <<failures, trying>>

\* With too many entries, a failure of some other key deletes those that are
\* not locked.
Sweep ==
    /\ failures > 0
    /\ lock # "future"
    /\ failures' = 0 /\ lock' = "never"
    /\ wrong' = 0
    /\ UNCHANGED trying

LockoutNext ==
    \/ \E r \in Attempts :
          Allowed(r) \/ recordFailure(r) \/ recordSuccess(r) \/ Abandon(r)
    \/ LockoutEnds
    \/ Sweep

LockoutSpec == LockoutInit /\ [][LockoutNext]_lockoutVars
-----------------------------------------------------------------------------
Most == MaxFailures - 1 + Cardinality(Attempts)

\* Every variable keeps its type; the strikes of a key do not grow without bound.
LockoutTypeOK ==
    /\ failures \in 0 .. Most
    /\ lock \in {"never", "future", "past"}
    /\ trying \subseteq Attempts
    /\ wrong \in Nat

\* Between two lockouts, no more wrong secrets are verified than MaxFailures and
\* the requests that were already past allowed when the last strike was counted:
\* allowed and recordFailure are two calls, but the gap is bounded.
GuessesBounded == wrong <= Most

\* Nobody is locked out for fewer than MaxFailures wrong secrets in a row, not
\* even right after an earlier lockout or by failures that straddle a success.
NeverEarly == lock = "future" => wrong >= MaxFailures
=============================================================================
