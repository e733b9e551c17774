---------------------------- MODULE MfaLoginProofs ----------------------------
(***************************************************************************)
(* Proofs about MfaLogin, for any number of requests, challenges, steps,   *)
(* codes and sessions.  The types come first.  That a factor starts one    *)
(* session is not inductive: it says nothing of the requests on their way  *)
(* to a session.  OneUse follows the token of each factor from the store   *)
(* call that spends it through the request that holds it to the login: a   *)
(* spent token stays spent (SpentStays), a request takes only one that was *)
(* not (Taken), and a login gets the one its request held.                 *)
(*                                                                         *)
(* At the end, the same of FailureLockout, the lockout before the sign-in: *)
(* a specification of its own, over variables of its own.                  *)
(***************************************************************************)
EXTENDS MfaLogin, FailureLockout, FiniteSetTheorems, TLAPS

AcctOK ==
    /\ acct \in [active : BOOLEAN, totp : BOOLEAN, secret : 0 .. staged,
                 push : BOOLEAN, lastStep : Nat,
                 codes : SUBSET (1 .. coded)]
    /\ staged \in 0 .. MaxSecrets /\ coded \in 0 .. MaxCodes
    /\ now \in 0 .. MaxStep

HeldOK ==
    /\ created \in 0 .. MaxChallenges
    /\ Live \subseteq 1 .. created
    /\ held \in [Live -> [attempts : 0 .. MaxTOTPAttempts, used : BOOLEAN,
                          answer : {"pending", "approved", "denied"}]]

ReqOK == req \in [Requests -> [at : Places, of : Nat, arg : Nat]]

LoginsOK ==
    /\ logins \in Seq([by : {"password", "totp", "recovery", "push"},
                       on : Nat, arg : Nat])
    /\ sessions \subseteq DOMAIN logins

Parts == AcctOK /\ HeldOK /\ ReqOK /\ LoginsOK

LEMMA PartsOfType == TypeOK <=> Parts
  BY DEF TypeOK, Parts, AcctOK, HeldOK, ReqOK, LoginsOK

LEMMA InitParts == Init => Parts
  <1> SUFFICES ASSUME Init PROVE Parts
    OBVIOUS
  <1>1. AcctOK
    BY ConstantsAssumption DEF Init, AcctOK
  <1>2. HeldOK
    BY ConstantsAssumption DEF Init, HeldOK, Live
  <1>3. ReqOK
    BY DEF Init, ReqOK, Idle, Places
  <1>4. LoginsOK
    BY DEF Init, LoginsOK
  <1> QED
    BY <1>1, <1>2, <1>3, <1>4 DEF Parts

\* A request that goes to a place with naturals, or finishes, keeps its type.
LEMMA GotoType ==
    ASSUME ReqOK, NEW r \in Requests, NEW at \in Places, NEW of \in Nat, NEW arg \in Nat,
           Goto(r, at, of, arg)
    PROVE  ReqOK'
  BY DEF ReqOK, Goto

LEMMA FinishType ==
    ASSUME ReqOK, NEW r \in Requests, Finish(r)
    PROVE  ReqOK'
  BY DEF ReqOK, Finish, Idle, Places

\* Removing a challenge keeps the type of the others.
LEMMA WithoutType ==
    ASSUME HeldOK, NEW c, held' = Without(c), created' = created
    PROVE  HeldOK'
  BY DEF HeldOK, Without, Live

\* An update of one live challenge keeps the type when the record does.
LEMMA UpdateType ==
    ASSUME HeldOK, NEW c \in Live, created' = created,
           NEW ch \in [attempts : 0 .. MaxTOTPAttempts, used : BOOLEAN,
                       answer : {"pending", "approved", "denied"}],
           held' = [held EXCEPT ![c] = ch]
    PROVE  HeldOK'
  BY DEF HeldOK, Live

\* What a step leaves alone keeps its type.
LEMMA UnchangedTypes ==
    ASSUME Parts
    PROVE  /\ UNCHANGED <<acct, staged, coded, now>> => AcctOK'
           /\ UNCHANGED <<created, held>> => HeldOK'
           /\ UNCHANGED req => ReqOK'
           /\ UNCHANGED <<logins, sessions>> => LoginsOK'
  BY DEF Parts, AcctOK, HeldOK, ReqOK, LoginsOK, Live

\* The place of a request, and what it carries.
LEMMA RequestFields ==
    ASSUME ReqOK, NEW r \in Requests
    PROVE  req[r].of \in Nat /\ req[r].arg \in Nat /\ req[r].at \in Places
  BY DEF ReqOK

\* Sign-in by password, the creation of a challenge and the start of a session.
LEMMA LoginTypes ==
    ASSUME Parts, NEW r \in Requests, Login(r) PROVE Parts'
  <1> USE UnchangedTypes, GotoType, FinishType, WithoutType, RequestFields
          DEF Parts, challenges, issued
  <1>1. CASE CheckPassword(r)
    BY <1>1 DEF CheckPassword, Places
  <1>2. CASE Create(r)
    <2>1. HeldOK'
      BY <1>2, ConstantsAssumption DEF Create, HeldOK, Live, NewChallenge
    <2> QED
      BY <1>2, <2>1 DEF Create
  <1>3. CASE startSession(r)
    <2>1. LoginsOK'
      BY <1>3 DEF startSession, LoginsOK, At
    <2> QED
      BY <1>3, <2>1 DEF startSession
  <1> QED
    BY <1>1, <1>2, <1>3 DEF Login

\* TOTP and recovery codes.
LEMMA SecondFactorTypes ==
    ASSUME Parts, NEW r \in Requests, SecondFactor(r) PROVE Parts'
  <1> USE UnchangedTypes, GotoType, FinishType, WithoutType, RequestFields
          DEF Parts, challenges, issued
  <1>1. ASSUME NEW c \in Challenge, Get(r, c, "check totp") \/ Get(r, c, "check recovery")
        PROVE  Parts'
    <2>1. c \in Nat
      BY ConstantsAssumption DEF Challenge
    <2>2. ReqOK'
      BY <1>1, <2>1 DEF Get, Places
    <2> QED
      BY <1>1, <2>2 DEF Get
  <1>2. CASE CheckTOTP(r)
    <2>1. \A step \in Steps : step \in Nat
      BY ConstantsAssumption DEF Steps
    <2>2. ReqOK'
      BY <1>2, <2>1 DEF CheckTOTP, Places
    <2> QED
      BY <1>2, <2>2 DEF CheckTOTP
  <1>3. CASE CheckRecovery(r)
    BY <1>3 DEF CheckRecovery, Places
  <1>4. CASE RecordTOTPAttempt(r)
    <2> DEFINE c == req[r].of
    <2>1. CASE c \notin Live
      BY <1>4, <2>1 DEF RecordTOTPAttempt
    <2>2. CASE c \in Live /\ held[c].attempts = MaxTOTPAttempts
      <3>1. held' = Without(c) /\ UNCHANGED created
        BY <1>4, <2>2 DEF RecordTOTPAttempt
      <3>2. HeldOK'
        BY <3>1 DEF HeldOK, Live, Without
      <3> QED
        BY <1>4, <3>2 DEF RecordTOTPAttempt
    <2>3. CASE c \in Live /\ held[c].attempts # MaxTOTPAttempts
      <3>1. held' = [held EXCEPT ![c].attempts = @ + 1] /\ UNCHANGED created
        BY <1>4, <2>3 DEF RecordTOTPAttempt
      <3>2. held[c].attempts + 1 \in 0 .. MaxTOTPAttempts
        BY <2>3, ConstantsAssumption DEF HeldOK
      <3>3. HeldOK'
        BY <2>3, <3>1, <3>2 DEF HeldOK, Live
      <3> QED
        BY <1>4, <3>3 DEF RecordTOTPAttempt
    <2> QED
      BY <2>1, <2>2, <2>3
  <1>5. CASE ConsumeTOTPStep(r)
    <2>1. HeldOK'
      <3>1. CASE req[r].of \in Live /\ ~held[req[r].of].used
        <4>1. held' = [held EXCEPT ![req[r].of] = [held[req[r].of] EXCEPT !.used = TRUE]]
          BY <1>5, <3>1 DEF ConsumeTOTPStep
        <4>2. [held[req[r].of] EXCEPT !.used = TRUE]
                \in [attempts : 0 .. MaxTOTPAttempts, used : BOOLEAN,
                     answer : {"pending", "approved", "denied"}]
          BY <3>1 DEF HeldOK
        <4> QED
          BY <1>5, <3>1, <4>1, <4>2, UpdateType DEF ConsumeTOTPStep
      <3>2. CASE ~(req[r].of \in Live /\ ~held[req[r].of].used)
        BY <1>5, <3>2 DEF ConsumeTOTPStep
      <3> QED
        BY <3>1, <3>2
    <2> QED
      BY <1>5, <2>1 DEF ConsumeTOTPStep, Places
  <1>6. CASE RecordStep(r)
    <2>1. AcctOK'
      BY <1>6 DEF RecordStep, SetLastUsedTOTPStep, AcctOK, ReqOK
    <2> QED
      BY <1>6, <2>1 DEF RecordStep, SetLastUsedTOTPStep, Places
  <1>7. CASE ConsumeRecoveryCode(r)
    <2>1. AcctOK'
      BY <1>7 DEF ConsumeRecoveryCode, AcctOK
    <2>2. \A code \in acct.codes : code \in Nat
      BY DEF AcctOK
    <2> QED
      BY <1>7, <2>1, <2>2 DEF ConsumeRecoveryCode, Places
  <1> QED
    BY <1>1, <1>2, <1>3, <1>4, <1>5, <1>6, <1>7 DEF SecondFactor

\* Push approval.
LEMMA PushTypes ==
    ASSUME Parts, NEW r \in Requests, Push(r) PROVE Parts'
  <1> USE UnchangedTypes, GotoType, FinishType, WithoutType, RequestFields
          DEF Parts, challenges, issued
  <1>1. ASSUME NEW c \in Challenge, MayRespond(r, c) \/ ConsumePushApproval(r, c)
        PROVE  Parts'
    <2>1. c \in Nat
      BY ConstantsAssumption DEF Challenge
    <2>2. ReqOK'
      BY <1>1, <2>1 DEF MayRespond, ConsumePushApproval, Places
    <2> QED
      BY <1>1, <2>2 DEF MayRespond, ConsumePushApproval
  <1>2. ASSUME NEW approve \in BOOLEAN, ResolvePush(r, approve) PROVE Parts'
    <2>1. HeldOK'
      BY <1>2 DEF ResolvePush, HeldOK, Live
    <2> QED
      BY <1>2, <2>1 DEF ResolvePush
  <1>3. CASE CheckPush(r)
    BY <1>3 DEF CheckPush, Places
  <1> QED
    BY <1>1, <1>2, <1>3 DEF Push

\* Writing an account: S are the secrets and C the codes there are by then.
Accounts(S, C) ==
    [active : BOOLEAN, totp : BOOLEAN, secret : S, push : BOOLEAN, lastStep : Nat,
     codes : SUBSET C]

LEMMA AccountWrites ==
    ASSUME NEW S, NEW C, NEW a \in Accounts(S, C)
    PROVE  /\ \A s \in S, D \in SUBSET C :
                 [a EXCEPT !.secret = s, !.totp = FALSE, !.codes = D] \in Accounts(S, C)
           /\ \A D \in SUBSET C : [a EXCEPT !.totp = TRUE, !.codes = D] \in Accounts(S, C)
           /\ 0 \in S => TOTPOff(a) \in Accounts(S, C)
  BY DEF Accounts, TOTPOff

LEMMA AccountsGrow ==
    ASSUME NEW S, NEW T, NEW C, NEW D, S \subseteq T, C \subseteq D
    PROVE  Accounts(S, C) \subseteq Accounts(T, D)
  BY DEF Accounts

\* The account's own settings.
LEMMA SettingsTypes ==
    ASSUME Parts, NEW r \in Requests, Settings(r) PROVE Parts'
  <1> USE UnchangedTypes, GotoType, FinishType, RequestFields
          DEF Parts, challenges, issued
  <1>0. \A s \in sessions : s \in Nat
    BY DEF LoginsOK
  <1>1. ASSUME NEW s \in sessions, NEW then \in Places, Begin(r, s, then) PROVE Parts'
    <2>1. ReqOK'
      BY <1>0, <1>1 DEF Begin
    <2> QED
      BY <1>1, <2>1 DEF Begin
  <1>2. ASSUME NEW s \in sessions, NEW step \in Steps, BeginConfirm(r, s, step) PROVE Parts'
    <2>1. step \in Nat
      BY ConstantsAssumption DEF Steps
    <2>2. ReqOK'
      BY <1>2, <2>1 DEF BeginConfirm, Places
    <2>3. AcctOK'
      BY <1>2 DEF BeginConfirm, AcctOK
    <2> QED
      BY <1>2, <2>2, <2>3 DEF BeginConfirm
  <1>3. CASE SetPendingTOTPSecret(r)
    <2>1. AcctOK'
      <3>1. /\ staged' \in 0 .. MaxSecrets /\ 0 .. staged \subseteq 0 .. staged'
            /\ 1 .. staged \subseteq 1 .. staged' /\ staged' \in 0 .. staged'
        BY <1>3, ConstantsAssumption DEF SetPendingTOTPSecret, AcctOK
      <3>2. acct \in Accounts(0 .. staged', 1 .. coded)
        BY <3>1, AccountsGrow DEF AcctOK, Accounts
      <3>3. acct' \in Accounts(0 .. staged', 1 .. coded)
        BY <1>3, <3>1, <3>2, AccountWrites DEF SetPendingTOTPSecret
      <3> QED
        BY <1>3, <3>1, <3>3 DEF SetPendingTOTPSecret, AcctOK, Accounts
    <2> QED
      BY <1>3, <2>1 DEF SetPendingTOTPSecret
  <1>4. CASE ConfirmStep(r)
    <2>1. AcctOK'
      BY <1>4 DEF ConfirmStep, SetLastUsedTOTPStep, AcctOK
    <2> QED
      BY <1>4, <2>1 DEF ConfirmStep, SetLastUsedTOTPStep, Places
  <1>5. CASE EnableTOTP(r)
    <2>1. AcctOK'
      <3>1. CASE acct.secret = 0
        BY <1>5, <3>1 DEF EnableTOTP
      <3>2. CASE acct.secret # 0
        <4>1. /\ coded' \in 0 .. MaxCodes /\ 1 .. coded \subseteq 1 .. coded'
              /\ {coded'} \subseteq 1 .. coded'
          BY <1>5, <3>2, ConstantsAssumption DEF EnableTOTP, AcctOK
        <4>2. acct \in Accounts(0 .. staged, 1 .. coded')
          BY <4>1, AccountsGrow DEF AcctOK, Accounts
        <4>3. acct' \in Accounts(0 .. staged, 1 .. coded')
          <5>1. [acct EXCEPT !.totp = TRUE, !.codes = {coded'}]
                  \in Accounts(0 .. staged, 1 .. coded')
            BY <4>1, <4>2, AccountWrites
          <5> QED
            BY <1>5, <3>2, <5>1 DEF EnableTOTP
        <4> QED
          BY <1>5, <4>1, <4>3 DEF EnableTOTP, AcctOK, Accounts
      <3> QED
        BY <3>1, <3>2
    <2> QED
      BY <1>5, <2>1 DEF EnableTOTP
  <1>6. CASE DisableTOTP(r)
    <2>1. AcctOK'
      <3>1. acct \in Accounts(0 .. staged, 1 .. coded) /\ 0 \in 0 .. staged
        BY DEF AcctOK, Accounts
      <3>2. acct' \in Accounts(0 .. staged, 1 .. coded)
        BY <1>6, <3>1, AccountWrites DEF DisableTOTP
      <3> QED
        BY <1>6, <3>2 DEF DisableTOTP, AcctOK, Accounts
    <2> QED
      BY <1>6, <2>1 DEF DisableTOTP, Places
  <1>7. CASE ReplaceRecoveryCodes(r)
    <2>1. AcctOK'
      BY <1>7, ConstantsAssumption DEF ReplaceRecoveryCodes, AcctOK
    <2> QED
      BY <1>7, <2>1 DEF ReplaceRecoveryCodes, Places
  <1>8. ASSUME NEW on \in BOOLEAN, SetPushMFAEnabled(r, on) PROVE Parts'
    <2>1. AcctOK'
      BY <1>8 DEF SetPushMFAEnabled, AcctOK
    <2> QED
      BY <1>8, <2>1 DEF SetPushMFAEnabled
  <1>9. CASE Revoke(r)
    <2>1. LoginsOK'
      BY <1>9 DEF Revoke, LoginsOK
    <2>2. ReqOK'
      BY <1>9 DEF Revoke, Places
    <2> QED
      BY <1>9, <2>1, <2>2 DEF Revoke
  <1> QED
    BY <1>1, <1>2, <1>3, <1>4, <1>5, <1>6, <1>7, <1>8, <1>9
       DEF Settings, BeginSetup, BeginRegenerate, BeginPushOn, Places

\* The administrator, the clock, and the ends of challenges and sessions.
LEMMA OtherTypes ==
    ASSUME Parts,
           \/ \E r \in Requests : Admin(r)
           \/ Tick \/ Reactivate
           \/ \E c \in Challenge : Expire(c)
           \/ \E s \in sessions : DropSession(s)
    PROVE  Parts'
  <1> USE UnchangedTypes, GotoType, FinishType, WithoutType
          DEF Parts, challenges, issued
  <1>1. ASSUME NEW r \in Requests, ResetPassword(r) PROVE Parts'
    BY <1>1 DEF ResetPassword, Places
  <1>2. ASSUME NEW r \in Requests, Deactivate(r) PROVE Parts'
    <2>1. AcctOK'
      BY <1>2 DEF Deactivate, AcctOK
    <2> QED
      BY <1>2, <2>1 DEF Deactivate, Places
  <1>3. ASSUME NEW r \in Requests, ClearMFA(r) PROVE Parts'
    <2>1. AcctOK'
      <3>1. acct \in Accounts(0 .. staged, 1 .. coded) /\ 0 \in 0 .. staged
        BY DEF AcctOK, Accounts
      <3>2. acct' \in Accounts(0 .. staged, 1 .. coded)
        BY <1>3, <3>1, AccountWrites DEF ClearMFA
      <3> QED
        BY <1>3, <3>2 DEF ClearMFA, AcctOK, Accounts
    <2> QED
      BY <1>3, <2>1 DEF ClearMFA, Places
  <1>4. ASSUME NEW r \in Requests, DeleteByUser(r) PROVE Parts'
    <2>1. HeldOK'
      BY <1>4 DEF DeleteByUser, HeldOK, Live
    <2> QED
      BY <1>4, <2>1 DEF DeleteByUser
  <1>5. CASE Tick
    <2>1. AcctOK'
      BY <1>5, ConstantsAssumption DEF Tick, AcctOK
    <2> QED
      BY <1>5, <2>1 DEF Tick
  <1>6. CASE Reactivate
    <2>1. AcctOK'
      BY <1>6 DEF Reactivate, AcctOK
    <2> QED
      BY <1>6, <2>1 DEF Reactivate
  <1>7. ASSUME NEW c \in Challenge, Expire(c) PROVE Parts'
    BY <1>7 DEF Expire
  <1>8. ASSUME NEW s \in sessions, DropSession(s) PROVE Parts'
    <2>1. LoginsOK'
      BY <1>8 DEF DropSession, LoginsOK
    <2> QED
      BY <1>8, <2>1 DEF DropSession
  <1> QED
    BY <1>1, <1>2, <1>3, <1>4, <1>5, <1>6, <1>7, <1>8 DEF Admin

LEMMA NextTypes == Parts /\ [Next]_vars => Parts'
  <1> SUFFICES ASSUME Parts, [Next]_vars PROVE Parts'
    OBVIOUS
  <1>1. CASE UNCHANGED vars
    BY <1>1, UnchangedTypes DEF vars, challenges, issued, Parts
  <1>2. CASE Next
    BY <1>2, LoginTypes, SecondFactorTypes, PushTypes, SettingsTypes, OtherTypes DEF Next
  <1> QED
    BY <1>1, <1>2

\* Two-factor sign-in keeps its types for any number of requests, challenges,
\* steps, codes and sessions.
THEOREM TypeCorrect == Spec => []TypeOK
  <1>1. Parts => TypeOK
    BY PartsOfType
  <1> QED
    BY <1>1, InitParts, NextTypes, PTL DEF Spec
-----------------------------------------------------------------------------
(***************************************************************************)
(* A login uses up a token: a TOTP step, a recovery code, the approval of  *)
(* a challenge, or a challenge's one TOTP code.  A token is spent when its *)
(* store says so; a request holds it from the call that spends it to the   *)
(* start of its session.                                                   *)
(***************************************************************************)
Kinds == {"totp", "recovery", "push", "challenge"}

Holding(k) ==
    CASE k = "totp"      -> {"totp"}
      [] k = "recovery"  -> {"recovery"}
      [] k = "push"      -> {"finish", "push"}
      [] k = "challenge" -> {"record", "totp"}

Token(q, k)      == IF k = "challenge" THEN q.of ELSE q.arg
Used(l, k)       == l.by = (IF k = "challenge" THEN "totp" ELSE k)
LoginToken(l, k) == IF k = "challenge" THEN l.on ELSE l.arg

Spent(k) ==
    CASE k = "totp"      -> {t \in Nat : t <= acct.lastStep}
      [] k = "recovery"  -> {t \in Nat : t <= coded /\ t \notin acct.codes}
      [] k = "push"      -> {t \in Nat : t <= created /\ t \notin Live}
      [] k = "challenge" -> {t \in Nat : t <= created /\ (t \in Live => held[t].used)}

\* Of the tokens of kind k, those the requests Q hold or the logins L have used
\* are spent, and no two of them hold or have used the same.
OnceIn(S, Q, L, k) ==
    /\ \A r \in Requests : Q[r].at \in Holding(k) => Token(Q[r], k) \in S
    /\ \A i \in DOMAIN L : Used(L[i], k) => LoginToken(L[i], k) \in S
    /\ \A r, q \in Requests :
          /\ Q[r].at \in Holding(k) /\ Q[q].at \in Holding(k)
          /\ Token(Q[r], k) = Token(Q[q], k)
          => r = q
    /\ \A r \in Requests, i \in DOMAIN L :
          Q[r].at \in Holding(k) /\ Used(L[i], k) => Token(Q[r], k) # LoginToken(L[i], k)
    /\ \A i, j \in DOMAIN L :
          /\ Used(L[i], k) /\ Used(L[j], k)
          /\ LoginToken(L[i], k) = LoginToken(L[j], k)
          => i = j

OneUse == \A k \in Kinds : OnceIn(Spent(k), req, logins, k)

\* One request lets its token go, keeps it, or takes one that becomes spent.
LEMMA RequestMoves ==
    ASSUME NEW k, NEW S, NEW S2, NEW Q, NEW Q2, NEW L, NEW r \in Requests,
           OnceIn(S, Q, L, k), S \subseteq S2,
           \A q \in Requests \ {r} : Q2[q] = Q[q],
           Q2[r].at \in Holding(k) =>
              \/ Q[r].at \in Holding(k) /\ Token(Q2[r], k) = Token(Q[r], k)
              \/ Token(Q2[r], k) \in S2 \ S
    PROVE  OnceIn(S2, Q2, L, k)
  <1> DEFINE Has(P, q) == P[q].at \in Holding(k)
             Tok(P, q) == Token(P[q], k)
             Did(i)    == Used(L[i], k)
             Old(i)    == LoginToken(L[i], k)
  <1>1. /\ \A q \in Requests : Has(Q, q) => Tok(Q, q) \in S
        /\ \A i \in DOMAIN L : Did(i) => Old(i) \in S
        /\ \A p, q \in Requests : Has(Q, p) /\ Has(Q, q) /\ Tok(Q, p) = Tok(Q, q) => p = q
        /\ \A q \in Requests, i \in DOMAIN L : Has(Q, q) /\ Did(i) => Tok(Q, q) # Old(i)
        /\ \A i, j \in DOMAIN L : Did(i) /\ Did(j) /\ Old(i) = Old(j) => i = j
    BY DEF OnceIn
  <1>2. \A q \in Requests \ {r} : (Has(Q2, q) <=> Has(Q, q)) /\ Tok(Q2, q) = Tok(Q, q)
    OBVIOUS
  <1>3. Has(Q2, r) => \/ Has(Q, r) /\ Tok(Q2, r) = Tok(Q, r)
                      \/ Tok(Q2, r) \in S2 \ S
    OBVIOUS
  <1>4. /\ \A q \in Requests : Has(Q2, q) => Tok(Q2, q) \in S2
        /\ \A i \in DOMAIN L : Did(i) => Old(i) \in S2
        /\ \A p, q \in Requests : Has(Q2, p) /\ Has(Q2, q) /\ Tok(Q2, p) = Tok(Q2, q) => p = q
        /\ \A q \in Requests, i \in DOMAIN L : Has(Q2, q) /\ Did(i) => Tok(Q2, q) # Old(i)
    <2> HIDE DEF Has, Tok, Did, Old
    <2> QED
      BY <1>1, <1>2, <1>3
  <1> QED
    BY <1>1, <1>4 DEF OnceIn

\* One request gives its token to a login.
LEMMA LoginMoves ==
    ASSUME NEW k, NEW S, NEW S2, NEW Q, NEW Q2, NEW X, NEW L \in Seq(X), NEW l \in X,
           NEW r \in Requests,
           OnceIn(S, Q, L, k), S \subseteq S2,
           \A q \in Requests \ {r} : Q2[q] = Q[q],
           Q2[r].at \notin Holding(k),
           Used(l, k) => Q[r].at \in Holding(k) /\ LoginToken(l, k) = Token(Q[r], k)
    PROVE  OnceIn(S2, Q2, Append(L, l), k)
  <1> DEFINE M == Append(L, l)
             n == Len(L) + 1
             Has(P, q) == P[q].at \in Holding(k)
             Tok(P, q) == Token(P[q], k)
             Did(i)    == Used(M[i], k)
             Old(i)    == LoginToken(M[i], k)
  <1>0. /\ DOMAIN M = DOMAIN L \cup {n} /\ n \notin DOMAIN L
        /\ \A i \in DOMAIN L : M[i] = L[i]
        /\ M[n] = l
    OBVIOUS
  <1>1. /\ \A q \in Requests : Has(Q, q) => Tok(Q, q) \in S
        /\ \A i \in DOMAIN L : Did(i) => Old(i) \in S
        /\ \A p, q \in Requests : Has(Q, p) /\ Has(Q, q) /\ Tok(Q, p) = Tok(Q, q) => p = q
        /\ \A q \in Requests, i \in DOMAIN L : Has(Q, q) /\ Did(i) => Tok(Q, q) # Old(i)
        /\ \A i, j \in DOMAIN L : Did(i) /\ Did(j) /\ Old(i) = Old(j) => i = j
    BY <1>0 DEF OnceIn
  <1>2. \A q \in Requests \ {r} : (Has(Q2, q) <=> Has(Q, q)) /\ Tok(Q2, q) = Tok(Q, q)
    OBVIOUS
  <1>3. ~Has(Q2, r) /\ (Did(n) => Has(Q, r) /\ Old(n) = Tok(Q, r))
    BY <1>0
  <1>4. /\ \A q \in Requests : Has(Q2, q) => Tok(Q2, q) \in S2
        /\ \A i \in DOMAIN M : Did(i) => Old(i) \in S2
        /\ \A p, q \in Requests : Has(Q2, p) /\ Has(Q2, q) /\ Tok(Q2, p) = Tok(Q2, q) => p = q
        /\ \A q \in Requests, i \in DOMAIN M : Has(Q2, q) /\ Did(i) => Tok(Q2, q) # Old(i)
        /\ \A i, j \in DOMAIN M : Did(i) /\ Did(j) /\ Old(i) = Old(j) => i = j
    <2>1. DOMAIN M = DOMAIN L \cup {n}
      BY <1>0
    <2> HIDE DEF Has, Tok, Did, Old, M, n
    <2> QED
      BY <1>1, <1>2, <1>3, <2>1
  <1> QED
    BY <1>4 DEF OnceIn

(***************************************************************************)
(* What a step does to the tokens: the stores never forget a spent one     *)
(* (AcctProgress, HeldProgress), and one request moves (Moved).            *)
(***************************************************************************)
AcctProgress ==
    /\ acct.lastStep <= acct'.lastStep
    /\ coded <= coded'
    /\ \A t \in Nat : t <= coded /\ t \notin acct.codes => t \notin acct'.codes
    /\ EnabledHasSecret => EnabledHasSecret'

HeldProgress ==
    /\ created <= created'
    /\ \A t \in Nat : t <= created /\ t \in Live' =>
          t \in Live /\ (held[t].used => held'[t].used)

Taken(r, k) ==
    req'[r].at \in Holding(k) =>
       \/ req[r].at \in Holding(k) /\ Token(req'[r], k) = Token(req[r], k)
       \/ Token(req'[r], k) \in Spent(k)' \ Spent(k)

Moved(r) ==
    /\ UNCHANGED logins
    /\ \A q \in Requests \ {r} : req'[q] = req[q]
    /\ \A k \in Kinds : Taken(r, k)

\* What is left alone makes no progress.
LEMMA UnchangedProgress ==
    ASSUME Parts
    PROVE  /\ UNCHANGED <<acct, coded>> => AcctProgress
           /\ UNCHANGED <<created, held>> => HeldProgress
           /\ \A c : UNCHANGED created /\ held' = Without(c) => HeldProgress
  <1>1. UNCHANGED <<acct, coded>> => AcctProgress
    BY DEF Parts, AcctOK, AcctProgress, EnabledHasSecret
  <1>2. UNCHANGED <<created, held>> => HeldProgress
    BY DEF Parts, HeldOK, HeldProgress, Live
  <1>3. ASSUME NEW c, UNCHANGED created, held' = Without(c) PROVE HeldProgress
    BY <1>3 DEF Parts, HeldOK, HeldProgress, Live, Without
  <1> QED
    BY <1>1, <1>2, <1>3

Plain == Places \ {"record", "totp", "recovery", "finish", "push"}

\* A request that goes where no token is held.
LEMMA PlainMoves ==
    ASSUME Parts, NEW r \in Requests, UNCHANGED logins
    PROVE  /\ Finish(r) => Moved(r)
           /\ \A at \in Plain, of, arg \in Nat : Goto(r, at, of, arg) => Moved(r)
  <1>1. \A k \in Kinds, at \in Plain : at \notin Holding(k)
    BY DEF Kinds, Holding, Plain
  <1>2. "idle" \in Plain
    BY DEF Plain, Places
  <1>3. ASSUME NEW at \in Plain, NEW of, NEW arg, Goto(r, at, of, arg) PROVE Moved(r)
    <2>1. req'[r].at = at /\ \A q \in Requests \ {r} : req'[q] = req[q]
      BY <1>3 DEF Goto, Parts, ReqOK
    <2> QED
      BY <1>1, <2>1 DEF Moved, Taken
  <1>4. ASSUME Finish(r) PROVE Moved(r)
    <2>1. req'[r].at = "idle" /\ \A q \in Requests \ {r} : req'[q] = req[q]
      BY <1>4 DEF Finish, Idle, Parts, ReqOK
    <2> QED
      BY <1>1, <1>2, <2>1 DEF Moved, Taken
  <1> QED
    BY <1>3, <1>4

\* Steps of a sign-in by password.
LEMMA LoginProgress ==
    ASSUME Parts, NEW r \in Requests, Login(r)
    PROVE  AcctProgress /\ HeldProgress /\ (Moved(r) \/ startSession(r))
  <1> USE UnchangedProgress, PlainMoves DEF challenges, issued
  <1>1. CASE CheckPassword(r)
    BY <1>1 DEF CheckPassword, Plain, Places
  <1>2. CASE Create(r)
    <2>1. HeldProgress
      BY <1>2 DEF Create, HeldProgress, Live, Parts, HeldOK
    <2> QED
      BY <1>2, <2>1 DEF Create
  <1>3. CASE startSession(r)
    BY <1>3 DEF startSession
  <1> QED
    BY <1>1, <1>2, <1>3 DEF Login

\* A step newer than the account's last is recorded as the last.
LEMMA RecordProgress ==
    ASSUME Parts, NEW r \in Requests, NEW then, SetLastUsedTOTPStep(r, then), UNCHANGED coded
    PROVE  /\ AcctProgress
           /\ req[r].arg \in Spent("totp")' \ Spent("totp")
  <1>1. /\ acct.lastStep \in Nat /\ req[r].arg \in Nat
        /\ acct'.lastStep = req[r].arg /\ req[r].arg > acct.lastStep
        /\ acct'.codes = acct.codes /\ acct'.totp = acct.totp
        /\ acct'.secret = acct.secret
    BY DEF SetLastUsedTOTPStep, Parts, AcctOK, ReqOK
  <1> QED
    BY <1>1 DEF AcctProgress, EnabledHasSecret, Spent, Parts, AcctOK

\* Steps of a sign-in by TOTP or by a recovery code.
LEMMA SecondFactorProgress ==
    ASSUME Parts, NEW r \in Requests, SecondFactor(r)
    PROVE  AcctProgress /\ HeldProgress /\ Moved(r)
  <1> USE UnchangedProgress, PlainMoves, RequestFields DEF challenges, issued
  <1>0. ReqOK
    BY DEF Parts
  <1>1. ASSUME NEW c \in Challenge, Get(r, c, "check totp") \/ Get(r, c, "check recovery")
        PROVE  AcctProgress /\ HeldProgress /\ Moved(r)
    <2>1. c \in Nat
      BY ConstantsAssumption DEF Challenge
    <2>2. "check totp" \in Plain /\ "check recovery" \in Plain
      BY DEF Plain, Places
    <2> QED
      BY <1>1, <2>1, <2>2 DEF Get
  <1>2. CASE CheckTOTP(r)
    <2>1. \A step \in Steps : step \in Nat
      BY ConstantsAssumption DEF Steps
    <2>2. "consume" \in Plain /\ "wrong" \in Plain
      BY DEF Plain, Places
    <2> QED
      BY <1>0, <1>2, <2>1, <2>2 DEF CheckTOTP
  <1>3. CASE CheckRecovery(r)
    BY <1>0, <1>3 DEF CheckRecovery, Plain, Places
  <1>4. CASE RecordTOTPAttempt(r)
    <2> DEFINE c == req[r].of
    <2>1. /\ UNCHANGED created
          /\ \/ held' = held
             \/ held' = Without(c)
             \/ c \in Live /\ held' = [held EXCEPT ![c].attempts = @ + 1]
      BY <1>4 DEF RecordTOTPAttempt
    <2>2. created \in Nat /\ \A t \in Live : held[t].used \in BOOLEAN
      BY ConstantsAssumption DEF Parts, HeldOK
    <2> HIDE DEF c
    <2>3. \A t \in Live' : t \in Live /\ held'[t].used = held[t].used
      <3>1. CASE held' = held
        BY <3>1 DEF Live
      <3>2. CASE held' = Without(c)
        BY <3>2 DEF Live, Without
      <3>3. CASE c \in Live /\ held' = [held EXCEPT ![c].attempts = @ + 1]
        BY <3>3 DEF Live
      <3> QED
        BY <2>1, <3>1, <3>2, <3>3
    <2>4. HeldProgress
      BY <2>1, <2>2, <2>3 DEF HeldProgress
    <2> QED
      BY <1>4, <2>4 DEF RecordTOTPAttempt
  <1>5. CASE ConsumeTOTPStep(r)
    <2>1. CASE req[r].of \in Live /\ ~held[req[r].of].used
      <3> DEFINE c == req[r].of
      <3>1. /\ c \in Nat /\ c <= created /\ DOMAIN held' = DOMAIN held
            /\ held'[c].used /\ UNCHANGED created
            /\ \A d \in Live \ {c} : held'[d] = held[d]
        BY <1>0, <1>5, <2>1 DEF ConsumeTOTPStep, Live, Parts, HeldOK
      <3>2. HeldProgress
        <4>1. created <= created' /\ Live' = Live
          BY <3>1 DEF Live, Parts, HeldOK
        <4>2. \A t \in Live : held[t].used => held'[t].used
          BY <3>1
        <4> QED
          BY <4>1, <4>2 DEF HeldProgress
      <3>3. c \in Spent("challenge")' \ Spent("challenge")
        BY <2>1, <3>1 DEF Spent, Live
      <3>4. /\ req'[r].at = "record" /\ req'[r].of = c
            /\ \A q \in Requests \ {r} : req'[q] = req[q]
        BY <1>0, <1>5, <2>1 DEF ConsumeTOTPStep, Goto, ReqOK
      <3>5. \A k \in Kinds : Taken(r, k)
        BY <3>3, <3>4 DEF Taken, Kinds, Holding, Token
      <3> QED
        BY <1>5, <3>2, <3>4, <3>5 DEF ConsumeTOTPStep, Moved
    <2>2. CASE ~(req[r].of \in Live /\ ~held[req[r].of].used)
      BY <1>5, <2>2 DEF ConsumeTOTPStep
    <2> QED
      BY <2>1, <2>2
  <1>6. CASE RecordStep(r)
    <2>1. CASE SetLastUsedTOTPStep(r, "totp") /\ UNCHANGED held
      <3>1. AcctProgress /\ req[r].arg \in Spent("totp")' \ Spent("totp")
        BY <1>6, <2>1, RecordProgress DEF RecordStep
      <3>2. /\ req[r].at = "record"
            /\ req'[r].at = "totp" /\ req'[r].of = req[r].of /\ req'[r].arg = req[r].arg
            /\ \A q \in Requests \ {r} : req'[q] = req[q]
        BY <1>0, <1>6, <2>1 DEF RecordStep, SetLastUsedTOTPStep, Goto, At, ReqOK
      <3>3. \A k \in Kinds : Taken(r, k)
        BY <3>1, <3>2 DEF Taken, Kinds, Holding, Token
      <3> QED
        BY <1>6, <2>1, <3>1, <3>2, <3>3 DEF RecordStep, Moved
    <2>2. CASE Finish(r) /\ held' = Without(req[r].of) /\ UNCHANGED acct
      BY <1>6, <2>2 DEF RecordStep
    <2> QED
      BY <1>6, <2>1, <2>2 DEF RecordStep
  <1>7. CASE ConsumeRecoveryCode(r)
    <2>1. ASSUME NEW code \in acct.codes, acct' = [acct EXCEPT !.codes = @ \ {code}],
                 Goto(r, "recovery", req[r].of, code)
          PROVE  AcctProgress /\ HeldProgress /\ Moved(r)
      <3>1. /\ acct'.codes = acct.codes \ {code} /\ acct'.lastStep = acct.lastStep
            /\ acct'.totp = acct.totp /\ acct'.secret = acct.secret
            /\ acct.lastStep \in Nat /\ coded \in Nat /\ coded' = coded
            /\ code \in Nat /\ code <= coded
        BY <1>7, <2>1 DEF ConsumeRecoveryCode, Parts, AcctOK
      <3>2. AcctProgress
        BY <3>1 DEF AcctProgress, EnabledHasSecret
      <3>3. code \in Spent("recovery")' \ Spent("recovery")
        BY <3>1 DEF Spent
      <3>4. /\ req'[r].at = "recovery" /\ req'[r].arg = code
            /\ \A q \in Requests \ {r} : req'[q] = req[q]
        BY <1>0, <2>1 DEF Goto, ReqOK
      <3>5. \A k \in Kinds : Taken(r, k)
        BY <3>3, <3>4 DEF Taken, Kinds, Holding, Token
      <3> QED
        BY <1>7, <3>2, <3>4, <3>5 DEF ConsumeRecoveryCode, Moved
    <2>2. "wrong" \in Plain
      BY DEF Plain, Places
    <2> QED
      BY <1>0, <1>7, <2>1, <2>2 DEF ConsumeRecoveryCode
  <1> QED
    BY <1>1, <1>2, <1>3, <1>4, <1>5, <1>6, <1>7 DEF SecondFactor

\* Steps of a push approval.
LEMMA PushProgress ==
    ASSUME Parts, NEW r \in Requests, Push(r)
    PROVE  AcctProgress /\ HeldProgress /\ Moved(r)
  <1> USE UnchangedProgress, PlainMoves, RequestFields DEF challenges, issued
  <1>0. ReqOK
    BY DEF Parts
  <1>1. ASSUME NEW c \in Challenge, MayRespond(r, c)
        PROVE  AcctProgress /\ HeldProgress /\ Moved(r)
    <2>1. c \in Nat
      BY ConstantsAssumption DEF Challenge
    <2>2. "respond" \in Plain
      BY DEF Plain, Places
    <2> QED
      BY <1>1, <2>1, <2>2 DEF MayRespond
  <1>2. ASSUME NEW c \in Challenge, ConsumePushApproval(r, c)
        PROVE  AcctProgress /\ HeldProgress /\ Moved(r)
    <2>1. c \in Nat /\ c <= created /\ c \in Live /\ c \notin Live' /\ created' = created
      BY <1>2 DEF ConsumePushApproval, Without, Live, Parts, HeldOK
    <2>2. c \in Spent("push")' \ Spent("push")
      BY <2>1 DEF Spent
    <2>3. /\ req'[r].at = "finish" /\ req'[r].arg = c
          /\ \A q \in Requests \ {r} : req'[q] = req[q]
      BY <1>0, <1>2 DEF ConsumePushApproval, Goto, ReqOK
    <2>4. \A k \in Kinds : Taken(r, k)
      BY <2>2, <2>3 DEF Taken, Kinds, Holding, Token
    <2> QED
      BY <1>2, <2>3, <2>4 DEF ConsumePushApproval, Moved
  <1>3. ASSUME NEW approve \in BOOLEAN, ResolvePush(r, approve)
        PROVE  AcctProgress /\ HeldProgress /\ Moved(r)
    <2>1. HeldProgress
      BY <1>3 DEF ResolvePush, HeldProgress, Live, Parts, HeldOK
    <2> QED
      BY <1>3, <2>1 DEF ResolvePush
  <1>4. CASE CheckPush(r)
    <2>1. CASE acct.active /\ acct.push
      <3>1. /\ req[r].at = "finish"
            /\ req'[r].at = "push" /\ req'[r].of = req[r].of /\ req'[r].arg = req[r].arg
            /\ \A q \in Requests \ {r} : req'[q] = req[q]
        BY <1>0, <1>4, <2>1 DEF CheckPush, Goto, At, ReqOK
      <3>2. \A k \in Kinds : Taken(r, k)
        BY <3>1 DEF Taken, Kinds, Holding, Token
      <3> QED
        BY <1>4, <3>1, <3>2 DEF CheckPush, Moved
    <2>2. CASE ~(acct.active /\ acct.push)
      BY <1>4, <2>2 DEF CheckPush
    <2> QED
      BY <2>1, <2>2
  <1> QED
    BY <1>1, <1>2, <1>3, <1>4 DEF Push

\* Turning TOTP off forgets the codes, which stay spent.
LEMMA OffProgress ==
    ASSUME Parts, acct' = TOTPOff(acct), UNCHANGED coded
    PROVE  AcctProgress
  BY DEF TOTPOff, AcctProgress, EnabledHasSecret, Parts, AcctOK

\* A new batch of codes has a number of its own.
LEMMA CodesProgress ==
    ASSUME Parts, coded' = coded + 1,
           acct'.codes = {coded'}, acct'.lastStep = acct.lastStep,
           EnabledHasSecret => EnabledHasSecret'
    PROVE  AcctProgress
  BY DEF AcctProgress, Parts, AcctOK

\* Steps in the settings: no token is taken.
LEMMA SettingsProgress ==
    ASSUME Parts, NEW r \in Requests, Settings(r)
    PROVE  AcctProgress /\ HeldProgress /\ Moved(r)
  <1> USE UnchangedProgress, PlainMoves, RequestFields DEF challenges, issued
  <1>0. ReqOK /\ \A s \in sessions : s \in Nat
    BY DEF Parts, LoginsOK
  <1>p. /\ "setup" \in Plain /\ "disable" \in Plain /\ "regenerate" \in Plain
        /\ "push on" \in Plain /\ "push off" \in Plain /\ "revoke" \in Plain
        /\ "confirm" \in Plain /\ "enable" \in Plain /\ "purge" \in Plain
    BY DEF Plain, Places
  <1>1. ASSUME NEW s \in sessions, NEW then \in Plain, Begin(r, s, then)
        PROVE  AcctProgress /\ HeldProgress /\ Moved(r)
    BY <1>0, <1>1 DEF Begin
  <1>2. ASSUME NEW s \in sessions, NEW step \in Steps, BeginConfirm(r, s, step)
        PROVE  AcctProgress /\ HeldProgress /\ Moved(r)
    <2>1. step \in Nat
      BY ConstantsAssumption DEF Steps
    <2> QED
      BY <1>2, <1>p, <2>1 DEF BeginConfirm
  <1>3. CASE SetPendingTOTPSecret(r)
    <2>1. AcctProgress
      BY <1>3 DEF SetPendingTOTPSecret, AcctProgress, EnabledHasSecret, Parts, AcctOK
    <2> QED
      BY <1>3, <2>1 DEF SetPendingTOTPSecret
  <1>4. CASE ConfirmStep(r)
    <2>1. AcctProgress
      BY <1>4, RecordProgress DEF ConfirmStep
    <2> QED
      BY <1>0, <1>4, <1>p, <2>1 DEF ConfirmStep, SetLastUsedTOTPStep
  <1>5. CASE EnableTOTP(r)
    <2>1. CASE acct.secret = 0
      BY <1>5, <2>1 DEF EnableTOTP
    <2>2. CASE acct.secret # 0
      <3>1. /\ coded' = coded + 1 /\ acct'.codes = {coded'}
            /\ acct'.lastStep = acct.lastStep /\ acct'.secret = acct.secret
        BY <1>5, <2>2 DEF EnableTOTP, Parts, AcctOK
      <3>2. AcctProgress
        BY <2>2, <3>1, CodesProgress DEF EnabledHasSecret
      <3> QED
        BY <1>5, <3>2 DEF EnableTOTP
    <2> QED
      BY <2>1, <2>2
  <1>6. CASE DisableTOTP(r)
    BY <1>0, <1>6, <1>p, OffProgress DEF DisableTOTP
  <1>7. CASE ReplaceRecoveryCodes(r)
    <2>1. /\ coded' = coded + 1 /\ acct'.codes = {coded'}
          /\ acct'.lastStep = acct.lastStep /\ acct'.secret = acct.secret
          /\ acct'.totp = acct.totp
      BY <1>7 DEF ReplaceRecoveryCodes, Parts, AcctOK
    <2>2. AcctProgress
      BY <2>1, CodesProgress DEF EnabledHasSecret
    <2> QED
      BY <1>0, <1>7, <1>p, <2>2 DEF ReplaceRecoveryCodes
  <1>8. ASSUME NEW on \in BOOLEAN, SetPushMFAEnabled(r, on)
        PROVE  AcctProgress /\ HeldProgress /\ Moved(r)
    <2>1. AcctProgress
      <3>1. /\ acct'.codes = acct.codes /\ acct'.lastStep = acct.lastStep
            /\ acct'.secret = acct.secret /\ acct'.totp = acct.totp /\ coded' = coded
        BY <1>8 DEF SetPushMFAEnabled, Parts, AcctOK
      <3> QED
        BY <3>1 DEF AcctProgress, EnabledHasSecret, Parts, AcctOK
    <2> QED
      BY <1>8, <2>1 DEF SetPushMFAEnabled
  <1>9. CASE Revoke(r)
    BY <1>9, <1>p DEF Revoke
  <1> QED
    BY <1>1, <1>2, <1>3, <1>4, <1>5, <1>6, <1>7, <1>8, <1>9, <1>p
       DEF Settings, BeginSetup, BeginRegenerate, BeginPushOn

\* Steps of the administrator.
LEMMA AdminProgress ==
    ASSUME Parts, NEW r \in Requests, Admin(r)
    PROVE  AcctProgress /\ HeldProgress /\ Moved(r)
  <1> USE UnchangedProgress, PlainMoves DEF challenges, issued
  <1>p. "revoke" \in Plain /\ "clear" \in Plain
    BY DEF Plain, Places
  <1>1. CASE ResetPassword(r)
    BY <1>1, <1>p DEF ResetPassword
  <1>2. CASE Deactivate(r)
    <2>1. AcctProgress
      BY <1>2 DEF Deactivate, AcctProgress, EnabledHasSecret, Parts, AcctOK
    <2> QED
      BY <1>2, <1>p, <2>1 DEF Deactivate
  <1>3. CASE ClearMFA(r)
    BY <1>3, <1>p, OffProgress DEF ClearMFA
  <1>4. CASE DeleteByUser(r)
    <2>1. HeldProgress
      BY <1>4 DEF DeleteByUser, HeldProgress, Live, Parts, HeldOK
    <2> QED
      BY <1>4, <2>1 DEF DeleteByUser
  <1> QED
    BY <1>1, <1>2, <1>3, <1>4 DEF Admin

\* Steps of nobody's request.
Elsewhere ==
    \/ Tick \/ Reactivate
    \/ \E c \in Challenge : Expire(c)
    \/ \E s \in sessions : DropSession(s)

LEMMA ElsewhereProgress ==
    ASSUME Parts, Elsewhere \/ UNCHANGED vars
    PROVE  AcctProgress /\ HeldProgress /\ UNCHANGED <<req, logins>>
  <1> USE UnchangedProgress DEF challenges, issued
  <1>1. CASE Tick
    BY <1>1 DEF Tick
  <1>2. CASE Reactivate
    <2>1. AcctProgress
      BY <1>2 DEF Reactivate, AcctProgress, EnabledHasSecret, Parts, AcctOK
    <2> QED
      BY <1>2, <2>1 DEF Reactivate
  <1>3. ASSUME NEW c \in Challenge, Expire(c)
        PROVE  AcctProgress /\ HeldProgress /\ UNCHANGED <<req, logins>>
    BY <1>3 DEF Expire
  <1>4. ASSUME NEW s \in sessions, DropSession(s)
        PROVE  AcctProgress /\ HeldProgress /\ UNCHANGED <<req, logins>>
    BY <1>4 DEF DropSession
  <1>5. CASE UNCHANGED vars
    BY <1>5 DEF vars
  <1> QED
    BY <1>1, <1>2, <1>3, <1>4, <1>5 DEF Elsewhere

\* Every step is a step of one request that moves or logs in, or of nobody's.
LEMMA NextProgress ==
    ASSUME Parts, [Next]_vars
    PROVE  /\ AcctProgress /\ HeldProgress
           /\ \/ UNCHANGED <<req, logins>>
              \/ \E r \in Requests : Moved(r) \/ startSession(r)
  <1>1. ASSUME NEW r \in Requests,
               Login(r) \/ SecondFactor(r) \/ Push(r) \/ Settings(r) \/ Admin(r)
        PROVE  AcctProgress /\ HeldProgress /\ (Moved(r) \/ startSession(r))
    BY <1>1, LoginProgress, SecondFactorProgress, PushProgress, SettingsProgress,
       AdminProgress
  <1>2. CASE Elsewhere \/ UNCHANGED vars
    BY <1>2, ElsewhereProgress
  <1> QED
    BY <1>1, <1>2 DEF Next, Elsewhere

\* A spent token stays spent.
LEMMA SpentStays ==
    ASSUME Parts, Parts', AcctProgress, HeldProgress
    PROVE  \A k \in Kinds : Spent(k) \subseteq Spent(k)'
  <1>0. /\ acct.lastStep \in Nat /\ acct'.lastStep \in Nat
        /\ coded \in Nat /\ coded' \in Nat
        /\ created \in Nat /\ created' \in Nat
    BY DEF Parts, AcctOK, HeldOK
  <1>1. Spent("totp") \subseteq Spent("totp")'
    BY <1>0 DEF Spent, AcctProgress
  <1>2. Spent("recovery") \subseteq Spent("recovery")'
    BY <1>0 DEF Spent, AcctProgress
  <1>3. Spent("push") \subseteq Spent("push")'
    BY <1>0 DEF Spent, HeldProgress
  <1>4. Spent("challenge") \subseteq Spent("challenge")'
    BY <1>0 DEF Spent, HeldProgress
  <1> QED
    BY <1>1, <1>2, <1>3, <1>4 DEF Kinds

LEMMA NextOneUse == Parts /\ OneUse /\ [Next]_vars => OneUse'
  <1> SUFFICES ASSUME Parts, OneUse, [Next]_vars, NEW k \in Kinds
               PROVE  OnceIn(Spent(k)', req', logins', k)
    BY DEF OneUse, OnceIn, Holding, Token, Used, LoginToken
  <1>1. OnceIn(Spent(k), req, logins, k)
    BY DEF OneUse
  <1>2. Parts'
    BY NextTypes
  <1>3. Spent(k) \subseteq Spent(k)'
    BY <1>2, NextProgress, SpentStays
  <1>4. CASE UNCHANGED <<req, logins>>
    BY <1>1, <1>3, <1>4 DEF OnceIn
  <1>5. ASSUME NEW r \in Requests, Moved(r) PROVE OnceIn(Spent(k)', req', logins', k)
    BY <1>1, <1>3, <1>5, RequestMoves DEF Moved, Taken
  <1>6. ASSUME NEW r \in Requests, startSession(r)
        PROVE  OnceIn(Spent(k)', req', logins', k)
    <2> DEFINE l == [by |-> req[r].at, on |-> IF At(r, "totp") THEN req[r].of ELSE 0,
                     arg |-> req[r].arg]
               X == [by : {"password", "totp", "recovery", "push"}, on : Nat, arg : Nat]
    <2>1. l \in X /\ logins \in Seq(X) /\ logins' = Append(logins, l)
      BY <1>6, RequestFields DEF startSession, Parts, LoginsOK, At
    <2>2. req'[r].at = "idle" /\ \A q \in Requests \ {r} : req'[q] = req[q]
      BY <1>6 DEF startSession, Finish, Idle, Parts, ReqOK
    <2>3. req'[r].at \notin Holding(k)
      BY <2>2 DEF Kinds, Holding
    <2>4. Used(l, k) => req[r].at \in Holding(k) /\ LoginToken(l, k) = Token(req[r], k)
      BY DEF Used, Holding, LoginToken, Token, Kinds, At
    <2> HIDE DEF l, X
    <2> QED
      BY <1>1, <1>3, <2>1, <2>2, <2>3, <2>4, LoginMoves
  <1> QED
    BY <1>4, <1>5, <1>6, NextProgress

LEMMA InitOneUse == Init => OneUse
  <1> SUFFICES ASSUME Init, NEW k \in Kinds PROVE OnceIn(Spent(k), req, logins, k)
    BY DEF OneUse
  <1>1. \A r \in Requests : req[r].at \notin Holding(k)
    BY DEF Init, Idle, Kinds, Holding
  <1>2. DOMAIN logins = {}
    BY DEF Init
  <1> QED
    BY <1>1, <1>2 DEF OnceIn

LEMMA OneUseAlways == Spec => []OneUse
  BY InitParts, InitOneUse, NextTypes, NextOneUse, PTL DEF Spec

\* For any number of requests: no TOTP step, recovery code or push approval starts
\* two sessions.
THEOREM SecondFactorOnceAlways == Spec => []SecondFactorOnce
  <1>1. Parts /\ OneUse => SecondFactorOnce
    <2> SUFFICES ASSUME Parts, OneUse, NEW i \in DOMAIN logins, NEW j \in DOMAIN logins,
                        logins[i].by # "password", logins[i].by = logins[j].by,
                        logins[i].arg = logins[j].arg
                 PROVE  i = j
      BY DEF SecondFactorOnce
    <2> DEFINE k == logins[i].by
    <2>1. k \in Kinds /\ k # "challenge"
      <3> DEFINE X == [by : {"password", "totp", "recovery", "push"}, on : Nat, arg : Nat]
      <3>1. logins[i] \in X
        <4>1. logins \in Seq(X)
          BY DEF Parts, LoginsOK
        <4> HIDE DEF X
        <4> QED
          BY <4>1
      <3>2. k \in {"password", "totp", "recovery", "push"}
        BY <3>1
      <3>3. k # "password"
        OBVIOUS
      <3> QED
        BY <3>2, <3>3 DEF Kinds
    <2>2. OnceIn(Spent(k), req, logins, k)
      BY <2>1 DEF OneUse
    <2> QED
      BY <2>1, <2>2 DEF OnceIn, Used, LoginToken
  <1>2. Spec => []Parts
    BY InitParts, NextTypes, PTL DEF Spec
  <1> QED
    BY <1>1, <1>2, OneUseAlways, PTL

\* For any number of requests: one challenge takes one TOTP code.
THEOREM TOTPOncePerChallengeAlways == Spec => []TOTPOncePerChallenge
  <1>1. OneUse => TOTPOncePerChallenge
    <2> SUFFICES ASSUME OneUse PROVE TOTPOncePerChallenge
      OBVIOUS
    <2>1. OnceIn(Spent("challenge"), req, logins, "challenge")
      BY DEF OneUse, Kinds
    <2> QED
      BY <2>1 DEF OnceIn, Used, LoginToken, TOTPOncePerChallenge
  <1> QED
    BY <1>1, OneUseAlways, PTL

\* A spent TOTP step, recovery code, approval or challenge stays spent, over disabling,
\* enrolling anew, new codes and an administrator's clearing: no setting brings one back.
THEOREM SpentForever == Spec => [][\A k \in Kinds : Spent(k) \subseteq Spent(k)']_vars
  <1>1. Parts /\ [Next]_vars => \A k \in Kinds : Spent(k) \subseteq Spent(k)'
    BY NextTypes, NextProgress, SpentStays
  <1> QED
    BY <1>1, InitParts, NextTypes, PTL DEF Spec

\* TOTP is never on without a secret, whatever interleaves with an enrollment.
THEOREM EnabledHasSecretAlways == Spec => []EnabledHasSecret
  <1>1. Init => EnabledHasSecret
    BY DEF Init, EnabledHasSecret
  <1>2. Parts /\ EnabledHasSecret /\ [Next]_vars => EnabledHasSecret'
    BY NextProgress DEF AcctProgress
  <1> QED
    BY <1>1, <1>2, InitParts, NextTypes, PTL DEF Spec
-----------------------------------------------------------------------------
(***************************************************************************)
(* The lockout of one key, for every number of requests and strikes.       *)
(***************************************************************************)

\* The strikes are the wrong secrets of the window, and while the key is locked
\* the requests that are still trying fit under the bound with them.
Counted ==
    /\ lock = "past" => wrong = 0
    /\ lock # "past" => wrong = failures
    /\ lock = "never" => failures < MaxFailures
    /\ lock = "future" =>
          /\ failures >= MaxFailures
          /\ failures + Cardinality(trying) <= Most

LockoutInv == LockoutTypeOK /\ Counted

\* The requests that are trying are finitely many, and one of them fewer when it
\* records its outcome.
LEMMA TryingCount ==
    ASSUME LockoutTypeOK
    PROVE  /\ Cardinality(Attempts) \in Nat
           /\ Cardinality(trying) \in Nat
           /\ Cardinality(trying) <= Cardinality(Attempts)
           /\ \A r \in trying : Cardinality(trying \ {r}) = Cardinality(trying) - 1
  <1>1. IsFiniteSet(Attempts)
    BY LockoutAssumption
  <1>2. trying \subseteq Attempts
    BY DEF LockoutTypeOK
  <1>3. IsFiniteSet(trying) /\ Cardinality(trying) <= Cardinality(Attempts)
    BY <1>1, <1>2, FS_Subset
  <1>4. Cardinality(Attempts) \in Nat /\ Cardinality(trying) \in Nat
    BY <1>1, <1>3, FS_CardinalityType
  <1>5. \A r \in trying : Cardinality(trying \ {r}) = Cardinality(trying) - 1
    BY <1>3, FS_RemoveElement
  <1> QED
    BY <1>3, <1>4, <1>5

LEMMA InitCounted == LockoutInit => LockoutInv
  BY FS_CardinalityType, LockoutAssumption DEF LockoutInit, LockoutInv, LockoutTypeOK, Counted, Most

LEMMA NextCounted == LockoutInv /\ [LockoutNext]_lockoutVars => LockoutInv'
  <1> SUFFICES ASSUME LockoutInv, [LockoutNext]_lockoutVars
               PROVE  LockoutInv'
    OBVIOUS
  <1> USE LockoutAssumption DEF LockoutInv, LockoutTypeOK, Counted, Most
  <1>0. LockoutTypeOK /\ Cardinality(Attempts) \in Nat
    BY FS_CardinalityType
  <1>1. ASSUME NEW r \in Attempts, Allowed(r)
        PROVE  LockoutInv'
    BY <1>1 DEF Allowed
  <1>2. ASSUME NEW r \in Attempts, recordFailure(r)
        PROVE  LockoutInv'
    <2>1. /\ Cardinality(Attempts) \in Nat
          /\ Cardinality(trying) \in Nat /\ Cardinality(trying') \in Nat
          /\ Cardinality(trying) >= 1
          /\ Cardinality(trying) <= Cardinality(Attempts)
          /\ Cardinality(trying') = Cardinality(trying) - 1
      <3>1. trying' = trying \ {r} /\ r \in trying
        BY <1>2 DEF recordFailure
      <3>2. IsFiniteSet(trying) /\ Cardinality(trying) # 0
        BY <3>1, FS_Subset, FS_EmptySet
      <3> QED
        BY <1>0, <3>1, <3>2, TryingCount
    <2>2. LockoutTypeOK'
      BY <1>2, <2>1 DEF recordFailure
    <2>3. Counted'
      BY <1>2, <2>1 DEF recordFailure
    <2> QED
      BY <2>2, <2>3
  <1>3. ASSUME NEW r \in Attempts, recordSuccess(r)
        PROVE  LockoutInv'
    <2>1. Cardinality(Attempts) \in Nat /\ Cardinality(Attempts) >= 1
      BY <1>0, <1>3, FS_EmptySet DEF recordSuccess
    <2> QED
      BY <1>3, <2>1 DEF recordSuccess
  <1>4. ASSUME NEW r \in Attempts, Abandon(r)
        PROVE  LockoutInv'
    <2>1. /\ Cardinality(trying) \in Nat
          /\ Cardinality(trying') = Cardinality(trying) - 1
          /\ Cardinality(Attempts) \in Nat
      BY <1>0, <1>4, TryingCount DEF Abandon
    <2> QED
      BY <1>4, <2>1 DEF Abandon
  <1>5. CASE LockoutEnds
    BY <1>5 DEF LockoutEnds
  <1>6. CASE Sweep
    BY <1>0, <1>6 DEF Sweep
  <1>7. CASE UNCHANGED lockoutVars
    BY <1>7 DEF lockoutVars
  <1> QED
    BY <1>1, <1>2, <1>3, <1>4, <1>5, <1>6, <1>7 DEF LockoutNext

LEMMA CountedAlways == LockoutSpec => []LockoutInv
  BY InitCounted, NextCounted, PTL DEF LockoutSpec

\* Every variable keeps its type, the strikes of a key their bound.
THEOREM LockoutTypeCorrect == LockoutSpec => []LockoutTypeOK
  BY CountedAlways, PTL DEF LockoutInv

\* However many requests guess at the same time, the wrong secrets verified
\* between two lockouts stay below the strikes and the requests together.
THEOREM GuessesBoundedAlways == LockoutSpec => []GuessesBounded
  <1>1. LockoutInv => GuessesBounded
    BY TryingCount, LockoutAssumption DEF LockoutInv, LockoutTypeOK, Counted, GuessesBounded, Most
  <1> QED
    BY <1>1, CountedAlways, PTL

\* A key is locked only after MaxFailures wrong secrets in a row.
THEOREM NeverEarlyAlways == LockoutSpec => []NeverEarly
  <1>1. LockoutInv => NeverEarly
    BY LockoutAssumption DEF LockoutInv, LockoutTypeOK, Counted, NeverEarly
  <1> QED
    BY <1>1, CountedAlways, PTL
=============================================================================
