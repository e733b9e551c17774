------------------------------- MODULE MfaLogin -------------------------------
(***************************************************************************)
(* Two-factor sign-in to one account (internal/mfa/mfa.go, the login, MFA  *)
(* and push handlers of internal/api, internal/users/users.go).  The API   *)
(* server runs the handlers concurrently.  Each reads the account, the     *)
(* challenge or both, decides, and then calls users.Store, mfa.Store and   *)
(* the session map one after the other, each of them atomic under a mutex  *)
(* of its own: an action here is one such call with the decision it leads  *)
(* to, and a request is between two of them.                               *)
(*                                                                         *)
(* Passwords and codes are right when an action says so; the lockouts that *)
(* may turn a request away are the subject of FailureLockout.  The account *)
(* belongs to the one users.Store of the API server.                       *)
(***************************************************************************)
EXTENDS Integers, Sequences

CONSTANTS
    Requests,         \* the requests a server works on at a time
    MaxTOTPAttempts,  \* wrong codes a challenge survives
    MaxChallenges,    \* bound: challenges created
    MaxStep,          \* bound: the TOTP step the clock reaches
    MaxSecrets,       \* bound: secrets staged
    MaxCodes,         \* bound: recovery codes issued
    MaxIssued,        \* bound: challenges and recovery codes together
    MaxLogins         \* bound: sessions started

ASSUME ConstantsAssumption ==
    /\ MaxTOTPAttempts \in Nat /\ MaxChallenges \in Nat
    /\ MaxStep \in Nat /\ MaxSecrets \in Nat \ {0} /\ MaxCodes \in Nat \ {0}
    /\ MaxIssued \in Nat /\ MaxLogins \in Nat

VARIABLES
    acct,       \* the users.User record
    now,        \* the clock, in TOTP steps
    created,    \* challenges created so far: they are 1 .. created
    held,       \* mfa.Store: of those that are live, TOTPAttempts, whether UsedTOTPStep
                \* is set, and PushStatus
    req,        \* where each request is, of which challenge or session, and the
                \* step, code or approval it goes on with
    logins,     \* the sessions started: by which factor, and a TOTP one on which
                \* challenge
    sessions,   \* those the server holds, as indexes of logins
    staged,     \* secrets staged so far
    coded       \* recovery codes issued so far

challenges == <<created, held>>
issued     == <<staged, coded>>
vars       == <<acct, now, challenges, req, logins, sessions, issued>>

Challenge == 1 .. MaxChallenges
Live      == DOMAIN held
Without(c) == [d \in Live \ {c} |-> held[d]]
NewChallenge == [attempts |-> 0, used |-> FALSE, answer |-> "pending"]
Idle      == [at |-> "idle", of |-> 0, arg |-> 0]

\* One recovery code stands for a batch of them.  The account may have enrolled
\* before, and used its codes up since.
Init ==
    /\ \E enrolled, push \in BOOLEAN :
          /\ push => enrolled
          /\ staged = IF enrolled THEN 1 ELSE 0
          /\ coded \in {0, staged}
          /\ acct = [active |-> TRUE, totp |-> enrolled, secret |-> staged,
                     push |-> push, lastStep |-> 0, codes |-> 1 .. coded]
    /\ now = 0
    /\ created = 0 /\ held = <<>>
    /\ req = [r \in Requests |-> Idle]
    /\ logins = <<>> /\ sessions = {}

Goto(r, at, of, arg) == req' = [req EXCEPT ![r] = [at |-> at, of |-> of, arg |-> arg]]
Finish(r)            == req' = [req EXCEPT ![r] = Idle]
At(r, at)            == req[r].at = at

\* totp.Validate accepts a code of the step before, of this one and of the next.
Valid(step) == step \in (now - 1) .. (now + 1) /\ step > 0
Steps       == 1 .. (MaxStep + 1)

Tick ==
    /\ now < MaxStep
    /\ now' = now + 1
    /\ UNCHANGED <<acct, challenges, req, logins, sessions, issued>>
-----------------------------------------------------------------------------
(***************************************************************************)
(* handleLogin and the start of a session.                                 *)
(***************************************************************************)
\* The password is right, and the account read with it says what comes next.
CheckPassword(r) ==
    /\ At(r, "idle")
    /\ acct.active
    /\ IF acct.totp \/ acct.push THEN Goto(r, "create", 0, 0)
                                 ELSE Goto(r, "password", 0, 0)
    /\ UNCHANGED <<acct, now, challenges, logins, sessions, issued>>

Create(r) ==
    /\ At(r, "create")
    /\ created < MaxChallenges /\ created + coded < MaxIssued
    /\ created' = created + 1
    /\ held' = [c \in Live \cup {created'} |-> IF c \in Live THEN held[c] ELSE NewChallenge]
    /\ Finish(r)
    /\ UNCHANGED <<acct, now, logins, sessions, issued>>

Expire(c) ==
    /\ c \in Live
    /\ held' = Without(c)
    /\ UNCHANGED <<acct, now, created, req, logins, sessions, issued>>

\* Once a code is accepted its challenge is deleted and the session started; an
\* approval deleted its challenge before.
startSession(r) ==
    /\ req[r].at \in {"password", "totp", "recovery", "push"}
    /\ Len(logins) < MaxLogins
    /\ held' = Without(req[r].of)
    /\ logins' = Append(logins, [by |-> req[r].at,
                                 on |-> IF At(r, "totp") THEN req[r].of ELSE 0,
                                 arg |-> req[r].arg])
    /\ sessions' = sessions \cup {Len(logins')}
    /\ Finish(r)
    /\ UNCHANGED <<acct, now, created, issued>>
-----------------------------------------------------------------------------
(***************************************************************************)
(* handleMFATOTP and handleMFARecoveryCode.                                *)
(***************************************************************************)
\* Both find the challenge first ...
Get(r, c, then) ==
    /\ At(r, "idle")
    /\ c \in Live
    /\ Goto(r, then, c, 0)
    /\ UNCHANGED <<acct, now, challenges, logins, sessions, issued>>

\* ... and then read the account.
Refused == ~acct.active \/ ~acct.totp

CheckTOTP(r) ==
    /\ At(r, "check totp")
    /\ IF Refused THEN Finish(r)
       ELSE \/ \E step \in Steps : Valid(step) /\ Goto(r, "consume", req[r].of, step)
            \/ Goto(r, "wrong", req[r].of, 0)
    /\ UNCHANGED <<acct, now, challenges, logins, sessions, issued>>

CheckRecovery(r) ==
    /\ At(r, "check recovery")
    /\ IF Refused THEN Finish(r) ELSE Goto(r, "redeem", req[r].of, 0)
    /\ UNCHANGED <<acct, now, challenges, logins, sessions, issued>>

\* Mutant of RecordTOTPAttempt: no attempt is the last.
CountAttempt(r) ==
    LET c == req[r].of
    IN  /\ At(r, "wrong")
        /\ held' = IF c \notin Live THEN held
                   ELSE [held EXCEPT ![c].attempts = @ + 1]
        /\ Finish(r)
        /\ UNCHANGED <<acct, now, created, logins, sessions, issued>>

\* A challenge that is gone has nothing to count.
RecordTOTPAttempt(r) ==
    LET c == req[r].of
    IN  /\ At(r, "wrong")
        /\ held' = IF c \notin Live THEN held
                   ELSE IF held[c].attempts = MaxTOTPAttempts THEN Without(c)
                   ELSE [held EXCEPT ![c].attempts = @ + 1]
        /\ Finish(r)
        /\ UNCHANGED <<acct, now, created, logins, sessions, issued>>

\* Mutant of ConsumeTOTPStep: that a step was used is not looked at.
ConsumeAnyStep(r) ==
    LET c == req[r].of
    IN  /\ At(r, "consume")
        /\ IF c \in Live
           THEN /\ held' = [held EXCEPT ![c].used = TRUE]
                /\ Goto(r, "record", c, req[r].arg)
           ELSE Finish(r) /\ UNCHANGED held
        /\ UNCHANGED <<acct, now, created, logins, sessions, issued>>

ConsumeTOTPStep(r) ==
    LET c == req[r].of
    IN  /\ At(r, "consume")
        /\ IF c \in Live /\ ~held[c].used
           THEN /\ held' = [held EXCEPT ![c].used = TRUE]
                /\ Goto(r, "record", c, req[r].arg)
           ELSE Finish(r) /\ UNCHANGED held
        /\ UNCHANGED <<acct, now, created, logins, sessions, issued>>

\* Mutant of SetLastUsedTOTPStep: the last step itself is accepted again.
SetLastStepAgain(r, then) ==
    /\ req[r].arg >= acct.lastStep
    /\ acct' = [acct EXCEPT !.lastStep = req[r].arg]
    /\ Goto(r, then, req[r].of, req[r].arg)

SetLastUsedTOTPStep(r, then) ==
    /\ req[r].arg > acct.lastStep
    /\ acct' = [acct EXCEPT !.lastStep = req[r].arg]
    /\ Goto(r, then, req[r].of, req[r].arg)

\* A step that is not newer, or an error of the store, costs the challenge.
RecordStep(r) ==
    /\ At(r, "record")
    /\ \/ SetLastUsedTOTPStep(r, "totp") /\ UNCHANGED held
       \/ Finish(r) /\ held' = Without(req[r].of) /\ UNCHANGED acct
    /\ UNCHANGED <<now, created, logins, sessions, issued>>

ConsumeRecoveryCode(r) ==
    /\ At(r, "redeem")
    /\ \/ \E code \in acct.codes :
             /\ acct' = [acct EXCEPT !.codes = @ \ {code}]
             /\ Goto(r, "recovery", req[r].of, code)
       \/ Goto(r, "wrong", req[r].of, 0) /\ UNCHANGED acct
       \/ Finish(r) /\ UNCHANGED acct
    /\ UNCHANGED <<now, challenges, logins, sessions, issued>>
-----------------------------------------------------------------------------
(***************************************************************************)
(* handlePushRespond, of a paired device, and handlePushFinish.            *)
(***************************************************************************)
MayRespond(r, c) ==
    /\ At(r, "idle")
    /\ c \in Live
    /\ acct.active /\ acct.push
    /\ Goto(r, "respond", c, 0)
    /\ UNCHANGED <<acct, now, challenges, logins, sessions, issued>>

\* The first response wins.
ResolvePush(r, approve) ==
    LET c == req[r].of
    IN  /\ At(r, "respond")
        /\ held' = IF c \in Live /\ held[c].answer = "pending"
                   THEN [held EXCEPT ![c].answer = IF approve THEN "approved"
                                                             ELSE "denied"]
                   ELSE held
        /\ Finish(r)
        /\ UNCHANGED <<acct, now, created, logins, sessions, issued>>

ConsumePushApproval(r, c) ==
    /\ At(r, "idle")
    /\ c \in Live /\ held[c].answer = "approved"
    /\ held' = Without(c)
    /\ Goto(r, "finish", c, c)
    /\ UNCHANGED <<acct, now, created, logins, sessions, issued>>

CheckPush(r) ==
    /\ At(r, "finish")
    /\ IF acct.active /\ acct.push THEN Goto(r, "push", req[r].of, req[r].arg)
                                   ELSE Finish(r)
    /\ UNCHANGED <<acct, now, challenges, logins, sessions, issued>>
-----------------------------------------------------------------------------
(***************************************************************************)
(* The account's own settings: withAuth wants a session of an active one.  *)
(***************************************************************************)
\* Only what revokes the other sessions in the end remembers its own.
Begin(r, s, then) ==
    /\ At(r, "idle")
    /\ s \in sessions /\ acct.active
    /\ Goto(r, then, IF then \in {"disable", "regenerate", "revoke"} THEN s ELSE 0, 0)
    /\ UNCHANGED <<acct, now, challenges, logins, sessions, issued>>

BeginSetup(r, s) == ~acct.totp /\ Begin(r, s, "setup")

SetPendingTOTPSecret(r) ==
    /\ At(r, "setup")
    /\ staged < MaxSecrets
    /\ staged' = staged + 1
    /\ acct' = [acct EXCEPT !.secret = staged', !.totp = FALSE, !.codes = {}]
    /\ Finish(r)
    /\ UNCHANGED <<now, challenges, logins, sessions, coded>>

\* handleMFAConfirm reads the pending secret, validates a code of it, records
\* the step and enables whatever secret is pending then.
BeginConfirm(r, s, step) ==
    /\ At(r, "idle")
    /\ s \in sessions /\ acct.active
    /\ ~acct.totp /\ acct.secret # 0
    /\ Valid(step)
    /\ Goto(r, "confirm", 0, step)
    /\ UNCHANGED <<acct, now, challenges, logins, sessions, issued>>

ConfirmStep(r) ==
    /\ At(r, "confirm")
    /\ \/ SetLastUsedTOTPStep(r, "enable")
       \/ Finish(r) /\ UNCHANGED acct
    /\ UNCHANGED <<now, challenges, logins, sessions, issued>>

EnableTOTP(r) ==
    /\ At(r, "enable")
    /\ IF acct.secret = 0 THEN UNCHANGED <<acct, coded>>
       ELSE /\ coded < MaxCodes /\ created + coded < MaxIssued
            /\ coded' = coded + 1
            /\ acct' = [acct EXCEPT !.totp = TRUE, !.codes = {coded'}]
    /\ Finish(r)
    /\ UNCHANGED <<now, challenges, logins, sessions, staged>>

TOTPOff(a) == [a EXCEPT !.totp = FALSE, !.secret = 0, !.codes = {}, !.push = FALSE]

\* The password is confirmed first; the other sessions are revoked last.
DisableTOTP(r) ==
    /\ At(r, "disable")
    /\ acct' = TOTPOff(acct)
    /\ Goto(r, "revoke", req[r].of, 0)
    /\ UNCHANGED <<now, challenges, logins, sessions, issued>>

BeginRegenerate(r, s) == acct.totp /\ Begin(r, s, "regenerate")

ReplaceRecoveryCodes(r) ==
    /\ At(r, "regenerate")
    /\ coded < MaxCodes /\ created + coded < MaxIssued
    /\ coded' = coded + 1
    /\ acct' = [acct EXCEPT !.codes = {coded'}]
    /\ Goto(r, "revoke", req[r].of, 0)
    /\ UNCHANGED <<now, challenges, logins, sessions, staged>>

\* handleMFAPushEnabled: on needs TOTP and a device at the time it reads them.
BeginPushOn(r, s) == acct.totp /\ Begin(r, s, "push on")

SetPushMFAEnabled(r, on) ==
    /\ At(r, IF on THEN "push on" ELSE "push off")
    /\ acct' = [acct EXCEPT !.push = on]
    /\ Finish(r)
    /\ UNCHANGED <<now, challenges, logins, sessions, issued>>

\* revokeUserSessions keeps the session of the caller; an administrator, 0, has
\* none of this account.
Revoke(r) ==
    /\ req[r].at \in {"revoke", "clear"}
    /\ sessions' = sessions \cap {req[r].of}
    /\ IF At(r, "revoke") THEN Finish(r) ELSE Goto(r, "purge", 0, 0)
    /\ UNCHANGED <<acct, now, challenges, logins, issued>>

\* A logout, the end of its 24 hours, or its use while the account is inactive.
DropSession(s) ==
    /\ s \in sessions
    /\ sessions' = sessions \ {s}
    /\ UNCHANGED <<acct, now, challenges, req, logins, issued>>
-----------------------------------------------------------------------------
(***************************************************************************)
(* What an administrator does to the account.                              *)
(***************************************************************************)
ResetPassword(r) ==
    /\ At(r, "idle")
    /\ Goto(r, "revoke", 0, 0)
    /\ UNCHANGED <<acct, now, challenges, logins, sessions, issued>>

Deactivate(r) ==
    /\ At(r, "idle")
    /\ acct' = [acct EXCEPT !.active = FALSE]
    /\ Goto(r, "revoke", 0, 0)
    /\ UNCHANGED <<now, challenges, logins, sessions, issued>>

Reactivate ==
    /\ ~acct.active
    /\ acct' = [acct EXCEPT !.active = TRUE]
    /\ UNCHANGED <<now, challenges, req, logins, sessions, issued>>

\* handleUsersClearMFA turns everything off, revokes the sessions and purges the
\* challenges.
ClearMFA(r) ==
    /\ At(r, "idle")
    /\ acct' = TOTPOff(acct)
    /\ Goto(r, "clear", 0, 0)
    /\ UNCHANGED <<now, challenges, logins, sessions, issued>>

DeleteByUser(r) ==
    /\ At(r, "purge")
    /\ held' = <<>>
    /\ Finish(r)
    /\ UNCHANGED <<acct, now, created, logins, sessions, issued>>
-----------------------------------------------------------------------------
Login(r) == CheckPassword(r) \/ Create(r) \/ startSession(r)

SecondFactor(r) ==
    \/ \E c \in Challenge : Get(r, c, "check totp") \/ Get(r, c, "check recovery")
    \/ CheckTOTP(r) \/ CheckRecovery(r)
    \/ RecordTOTPAttempt(r)
    \/ ConsumeTOTPStep(r) \/ RecordStep(r)
    \/ ConsumeRecoveryCode(r)

Push(r) ==
    \/ \E c \in Challenge : MayRespond(r, c) \/ ConsumePushApproval(r, c)
    \/ \E approve \in BOOLEAN : ResolvePush(r, approve)
    \/ CheckPush(r)

Settings(r) ==
    \/ \E s \in sessions :
          \/ BeginSetup(r, s)
          \/ \E step \in Steps : BeginConfirm(r, s, step)
          \/ Begin(r, s, "disable")
          \/ BeginRegenerate(r, s)
          \/ BeginPushOn(r, s) \/ Begin(r, s, "push off")
          \/ Begin(r, s, "revoke")  \* handleChangePassword, the password set
    \/ SetPendingTOTPSecret(r)
    \/ ConfirmStep(r) \/ EnableTOTP(r)
    \/ DisableTOTP(r)
    \/ ReplaceRecoveryCodes(r)
    \/ \E on \in BOOLEAN : SetPushMFAEnabled(r, on)
    \/ Revoke(r)

Admin(r) == ResetPassword(r) \/ Deactivate(r) \/ ClearMFA(r) \/ DeleteByUser(r)

Next ==
    \/ Tick
    \/ \E c \in Challenge : Expire(c)
    \/ \E r \in Requests : Login(r) \/ SecondFactor(r) \/ Push(r) \/ Settings(r)
                             \/ Admin(r)
    \/ Reactivate
    \/ \E s \in sessions : DropSession(s)

Spec == Init /\ [][Next]_vars
-----------------------------------------------------------------------------
Places ==
    {"idle", "create", "password", "totp", "recovery", "push", "check totp",
     "check recovery", "wrong", "consume", "record", "redeem", "respond", "finish",
     "setup", "confirm", "enable", "disable", "regenerate", "push on", "push off",
     "revoke", "clear", "purge"}

\* Every variable keeps its type, and what is live, held or active was created,
\* started or issued before.
TypeOK ==
    /\ acct \in [active : BOOLEAN, totp : BOOLEAN, secret : 0 .. staged,
                 push : BOOLEAN, lastStep : Nat,
                 codes : SUBSET (1 .. coded)]
    /\ now \in 0 .. MaxStep
    /\ created \in 0 .. MaxChallenges
    /\ Live \subseteq 1 .. created
    /\ held \in [Live -> [attempts : 0 .. MaxTOTPAttempts, used : BOOLEAN,
                          answer : {"pending", "approved", "denied"}]]
    /\ req \in [Requests -> [at : Places, of : Nat, arg : Nat]]
    /\ logins \in Seq([by : {"password", "totp", "recovery", "push"},
                       on : Nat, arg : Nat])
    /\ sessions \subseteq DOMAIN logins
    /\ staged \in 0 .. MaxSecrets /\ coded \in 0 .. MaxCodes

\* No TOTP step, recovery code or push approval starts two sessions, on whatever
\* challenges and by however many requests it is presented at the same time.
SecondFactorOnce ==
    \A i, j \in DOMAIN logins :
        /\ logins[i].by # "password"
        /\ logins[i].by = logins[j].by /\ logins[i].arg = logins[j].arg
        => i = j

\* One challenge takes one TOTP code: ConsumeTOTPStep lets one of the requests
\* through that present different valid steps.
TOTPOncePerChallenge ==
    \A i, j \in DOMAIN logins :
        /\ logins[i].by = "totp" /\ logins[j].by = "totp"
        /\ logins[i].on = logins[j].on
        => i = j

\* TOTP is never on without a secret to check codes against, although the
\* confirmation of an enrollment, a new setup, a disable and an administrator's
\* clear interleave.
EnabledHasSecret == acct.totp => acct.secret # 0
=============================================================================
