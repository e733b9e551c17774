--------------------------- MODULE MailCacheProofs ---------------------------
(***************************************************************************)
(* Proofs about MailCache.  TInv types the variables and keeps the window  *)
(* and what a request has fetched for it within maxWindowEntries.  What a  *)
(* client is told rests on CInv: whoever shows what a client shows and asks*)
(* from its cursor on misses nothing of the window (Follows), now and once *)
(* the reply under way has been received.  A window that Sync or Upsert    *)
(* writes over the one it has read keeps this (FollowsGrown), and the      *)
(* answer of Sync makes up for what its client misses (Answered).          *)
(***************************************************************************)
EXTENDS MailCache, FiniteSetTheorems, WellFoundedInduction, TLAPS

(***************************************************************************)
(* Type correctness.                                                       *)
(***************************************************************************)
Maps(R) == UNION {[S -> R] : S \in SUBSET UID}
Fetched == [meta : Meta, body : BOOLEAN]

Window  == [limit : Limits \cup {0}, seq : 0 .. MaxSeq, entries : Maps(Entry)]
Locked  == [by : Actors \cup {"none"}, win : Window]
Answer  == [cursor : 0 .. MaxSeq, new : Maps(Fetched), updated : Maps(Meta), removed : SUBSET UID]
Request == [at : {"idle", "sync", "bodies", "warm", "reply"}, limit : Limits \cup {0},
            live : Maps(Meta), reply : Answer]
View    == [cursor : 0 .. MaxSeq, shown : Maps(Meta)]

Types ==
    /\ cast \in Casts /\ box \in Maps(Meta) /\ delivered \in 0 .. MaxUID
    /\ win \in Window /\ clobbered \in BOOLEAN
    /\ mem \in [Process -> Locked]
    /\ req \in [Clients -> Request]
    /\ batch \in [Actors -> Maps(Fetched)]
    /\ view \in [Clients -> View]

\* What a request has fetched fits into the window; there is no answer before Sync.
Proper(r) ==
    /\ Cardinality(DOMAIN r.live) <= Cap
    /\ r.at \in {"idle", "sync"} => r.reply = NoReply

\* A window has at most maxWindowEntries.
Bounded ==
    /\ Cardinality(DOMAIN win.entries) <= Cap
    /\ \A c \in Clients : Proper(req[c])

TInv == Types /\ Bounded

LEMMA MapIs ==
    ASSUME NEW R, NEW f \in Maps(R)
    PROVE  DOMAIN f \subseteq UID /\ f \in [DOMAIN f -> R] /\ \A u \in DOMAIN f : f[u] \in R
  <1>1. PICK S \in SUBSET UID : f \in [S -> R]
    BY DEF Maps
  <1> QED
    BY <1>1

LEMMA MapsHave ==
    ASSUME NEW R, NEW S \in SUBSET UID, NEW f \in [S -> R] PROVE f \in Maps(R)
  BY DEF Maps

LEMMA NothingIs == ASSUME NEW R PROVE Nothing \in Maps(R) /\ DOMAIN Nothing = {}
  <1>1. Nothing \in [{} -> R] /\ {} \in SUBSET UID
    BY DEF Nothing
  <1> QED
    BY <1>1, MapsHave

LEMMA UIDsFinite ==
    \A S \in SUBSET UID : IsFiniteSet(S) /\ Cardinality(S) \in Nat
  <1>1. IsFiniteSet(UID)
    BY ConstantsAssumption, FS_Interval DEF UID
  <1> QED
    BY <1>1, FS_Subset, FS_CardinalityType

LEMMA RestingIs ==
    /\ NoWindow \in Window /\ NoOp \in Locked /\ NoReply \in Answer /\ IdleReq \in Request
    /\ NoOp.by = "none" /\ IdleReq.at = "idle" /\ IdleReq.reply = NoReply /\ Proper(IdleReq)
    /\ DOMAIN NoWindow.entries = {} /\ NoWindow.seq = 0 /\ DOMAIN NoReply.updated = {}
  <1>1. \A R : Nothing \in Maps(R) /\ DOMAIN Nothing = {}
    BY NothingIs
  <1>2. 0 \in 0 .. MaxSeq
    BY ConstantsAssumption
  <1>3. NoWindow \in Window /\ DOMAIN NoWindow.entries = {} /\ NoWindow.seq = 0
    BY <1>1, <1>2 DEF NoWindow, Window
  <1>4. NoReply \in Answer /\ DOMAIN NoReply.updated = {}
    BY <1>1, <1>2 DEF NoReply, Answer
  <1>5. NoOp \in Locked /\ NoOp.by = "none"
    BY <1>3 DEF NoOp, Locked
  <1>6. IdleReq \in Request /\ IdleReq.at = "idle" /\ IdleReq.reply = NoReply /\ IdleReq.live = Nothing
    BY <1>1, <1>4 DEF IdleReq, Request
  <1>7. Proper(IdleReq)
    BY <1>1, <1>6, FS_EmptySet, ConstantsAssumption DEF Proper
  <1> QED
    BY <1>3, <1>4, <1>5, <1>6, <1>7

LEMMA Least ==
    ASSUME NEW S \in SUBSET UID, S # {}
    PROVE  \E i \in S : \A j \in S : i <= j
  <1>1. S \in SUBSET Nat
    BY ConstantsAssumption DEF UID
  <1>2. PICK x \in S : \A y \in S : <<y, x>> \notin OpToRel(<, Nat)
    BY <1>1, NatLessThanWellFounded, WFMin
  <1>3. ASSUME NEW y \in S PROVE x <= y
    <2>1. y \in Nat /\ x \in Nat
      BY <1>1
    <2>2. <<y, x>> \in Nat \X Nat /\ <<y, x>>[1] = y /\ <<y, x>>[2] = x
      BY <2>1
    <2>3. ~(y < x)
      BY <1>2, <2>2 DEF OpToRel
    <2> QED
      BY <2>1, <2>3
  <1> QED
    BY <1>3

\* Newest returns at most n messages.
LEMMA NewestFew ==
    ASSUME NEW S \in SUBSET UID, NEW n \in Nat
    PROVE  Newest(S, n) \in SUBSET S /\ Cardinality(Newest(S, n)) <= n
  <1> DEFINE T == Newest(S, n)
  <1>1. T \in SUBSET S /\ T \in SUBSET UID
    BY DEF Newest
  <1>2. CASE T = {}
    BY <1>1, <1>2, FS_EmptySet
  <1>3. CASE T # {}
    <2>1. PICK m \in T : \A v \in T : m <= v
      BY <1>1, <1>3, Least
    <2> DEFINE above == {v \in S : v > m}
    <2>2. Cardinality(above) < n
      BY <2>1 DEF Newest
    <2>3. T \ {m} \in SUBSET above
      <3>1. \A v \in T : v \in Int
        BY <1>1 DEF UID
      <3> QED
        BY <1>1, <2>1, <3>1
    <2>4. /\ IsFiniteSet(above) /\ Cardinality(above) \in Nat
          /\ IsFiniteSet(T) /\ Cardinality(T) \in Nat
      <3>1. above \in SUBSET UID
        OBVIOUS
      <3> QED
        BY <1>1, <3>1, UIDsFinite
    <2> HIDE DEF above, T
    <2>5. Cardinality(T \ {m}) <= Cardinality(above)
      BY <2>3, <2>4, FS_Subset
    <2>6. Cardinality(T \ {m}) = Cardinality(T) - 1
      BY <2>1, <2>4, FS_RemoveElement
    <2>7. Cardinality(T) <= n
      BY <2>2, <2>4, <2>5, <2>6
    <2> QED
      BY <1>1, <2>7 DEF T
  <1> QED
    BY <1>2, <1>3

\* The stamps of an operation are above the sequence number it has read.
LEMMA StampsAbove ==
    ASSUME NEW S \in SUBSET UID, NEW seq \in Nat, NEW newest \in BOOLEAN,
           NEW stamp \in Stamps(S, seq, newest)
    PROVE  /\ DOMAIN stamp = S /\ seq + Cardinality(S) \in Nat
           /\ \A u \in S : stamp[u] \in Nat /\ seq < stamp[u] /\ stamp[u] <= seq + Cardinality(S)
  <1>1. Cardinality(S) \in Nat
    BY UIDsFinite
  <1>2. stamp \in [S -> (seq + 1) .. (seq + Cardinality(S))]
    BY DEF Stamps
  <1> QED
    BY <1>1, <1>2

LEMMA TInvInit == Init => TInv
  <1> SUFFICES ASSUME Init PROVE TInv
    OBVIOUS
  <1>1. \A R : Nothing \in Maps(R)
    BY NothingIs
  <1>2. view \in [Clients -> View]
    <2>1. [cursor |-> 0, shown |-> Nothing] \in View
      BY <1>1, ConstantsAssumption DEF View
    <2> QED
      BY <2>1 DEF Init
  <1>3. Types
    <2>1. mem \in [Process -> Locked] /\ req \in [Clients -> Request] /\ win \in Window
      BY RestingIs DEF Init
    <2>2. box \in Maps(Meta) /\ batch \in [Actors -> Maps(Fetched)]
      BY <1>1 DEF Init
    <2>3. delivered \in 0 .. MaxUID
      BY ConstantsAssumption DEF Init
    <2>4. cast \in Casts /\ clobbered \in BOOLEAN
      BY DEF Init
    <2> QED
      BY <1>2, <2>1, <2>2, <2>3, <2>4 DEF Types
  <1>4. Bounded
    BY RestingIs, FS_EmptySet, ConstantsAssumption DEF Init, Bounded
  <1> QED
    BY <1>3, <1>4 DEF TInv

LEMMA Steps ==
    ASSUME TInv, cast' = cast, box' \in Maps(Meta), delivered' \in 0 .. MaxUID,
           win' \in Window, Cardinality(DOMAIN win'.entries) <= Cap, clobbered' \in BOOLEAN,
           mem' \in [Process -> Locked], batch' \in [Actors -> Maps(Fetched)],
           view' \in [Clients -> View], req' \in [Clients -> Request],
           \A c \in Clients : req'[c] = req[c] \/ Proper(req'[c])
    PROVE  TInv'
  <1>1. Types'
    BY DEF TInv, Types
  <1>2. Bounded'
    BY DEF TInv, Bounded
  <1> QED
    BY <1>1, <1>2 DEF TInv

-----------------------------------------------------------------------------
(***************************************************************************)
(* What Sync and Upsert make of the entries.                               *)
(***************************************************************************)
LEMMA ReconciledIs ==
    ASSUME NEW prev \in Maps(Entry), NEW live \in Maps(Meta), NEW stamp,
           \A u \in DOMAIN live : u \notin Unchanged(prev, live) => stamp[u] \in Nat
    PROVE  LET r == Reconciled(prev, live, stamp)
           IN  /\ r \in Maps(Entry) /\ DOMAIN r = DOMAIN live
               /\ \A u \in DOMAIN live :
                     /\ r[u].meta = live[u]
                     /\ u \in Unchanged(prev, live) => r[u] = prev[u]
                     /\ u \notin Unchanged(prev, live) =>
                           /\ r[u].rev = stamp[u]
                           /\ r[u].first = IF u \in DOMAIN prev THEN prev[u].first ELSE stamp[u]
  <1> DEFINE old == Unchanged(prev, live)
             e(u) == IF u \in old THEN prev[u]
                     ELSE IF u \in DOMAIN prev
                          THEN [prev[u] EXCEPT !.meta = live[u], !.rev = stamp[u]]
                     ELSE [meta |-> live[u], body |-> FALSE, rev |-> stamp[u],
                           first |-> stamp[u]]
             r == Reconciled(prev, live, stamp)
  <1>1. /\ DOMAIN live \subseteq UID /\ \A u \in DOMAIN live : live[u] \in Meta
        /\ \A u \in DOMAIN prev : prev[u] \in Entry
        /\ \A u \in old : u \in DOMAIN prev /\ prev[u].meta = live[u]
    BY MapIs DEF Unchanged
  <1>2. \A u \in DOMAIN live \ old : stamp[u] \in Nat
    OBVIOUS
  <1>3. r = [u \in DOMAIN live |-> e(u)]
    BY DEF Reconciled
  <1>4. ASSUME NEW u \in DOMAIN live
        PROVE  /\ e(u) \in Entry /\ e(u).meta = live[u]
               /\ u \in old => e(u) = prev[u]
               /\ u \notin old => /\ e(u).rev = stamp[u]
                                  /\ e(u).first = IF u \in DOMAIN prev THEN prev[u].first
                                                                       ELSE stamp[u]
    <2>1. CASE u \in old
      BY <1>1, <2>1
    <2>2. CASE u \notin old /\ u \in DOMAIN prev
      <3> DEFINE p == prev[u]
      <3>1. p \in Entry /\ live[u] \in Meta /\ stamp[u] \in Nat
        BY <1>1, <1>2, <2>2
      <3>2. e(u) = [p EXCEPT !.meta = live[u], !.rev = stamp[u]]
        BY <2>2
      <3> HIDE DEF p
      <3>3. /\ e(u) \in Entry /\ e(u).meta = live[u] /\ e(u).rev = stamp[u]
            /\ e(u).first = p.first
        <4> HIDE DEF e
        <4> QED
          BY <3>1, <3>2 DEF Entry
      <3> QED
        BY <2>2, <3>3 DEF p
    <2>3. CASE u \notin old /\ u \notin DOMAIN prev
      <3>1. e(u) = [meta |-> live[u], body |-> FALSE, rev |-> stamp[u], first |-> stamp[u]]
        BY <2>3
      <3>2. live[u] \in Meta /\ stamp[u] \in Nat
        BY <1>1, <1>2, <2>3
      <3> HIDE DEF e
      <3> QED
        BY <2>3, <3>1, <3>2 DEF Entry
    <2> QED
      BY <2>1, <2>2, <2>3
  <1> HIDE DEF e
  <1>5. r \in [DOMAIN live -> Entry] /\ DOMAIN r = DOMAIN live
        /\ \A u \in DOMAIN live : r[u] = e(u)
    BY <1>3, <1>4
  <1>6. r \in Maps(Entry)
    BY <1>1, <1>5, MapsHave
  <1> QED
    BY <1>4, <1>5, <1>6

LEMMA MergedIs ==
    ASSUME NEW old \in Maps(Entry), NEW in \in Maps(Fetched), NEW stamp, NEW bump,
           bump \subseteq DOMAIN in, DOMAIN stamp = bump, \A u \in bump : stamp[u] \in Nat,
           \A u \in DOMAIN in :
              u \in bump <=> (u \in DOMAIN old => old[u].meta # in[u].meta)
    PROVE  LET m == Merged(old, in, stamp)
           IN  /\ m \in Maps(Entry) /\ DOMAIN m = DOMAIN old \cup DOMAIN in
               /\ \A u \in DOMAIN m :
                     /\ u \notin bump => /\ u \in DOMAIN old /\ m[u].meta = old[u].meta
                                         /\ m[u].rev = old[u].rev /\ m[u].first = old[u].first
                     /\ u \in bump =>
                           /\ m[u].rev = stamp[u]
                           /\ m[u].first = IF u \in DOMAIN old THEN old[u].first ELSE stamp[u]
  <1> DEFINE e(u) == IF u \notin DOMAIN in THEN old[u]
                     ELSE IF u \notin DOMAIN old
                          THEN [meta |-> in[u].meta, body |-> in[u].body,
                                rev |-> stamp[u], first |-> stamp[u]]
                     ELSE [old[u] EXCEPT !.meta = in[u].meta, !.body = @ \/ in[u].body,
                                         !.rev = IF u \in DOMAIN stamp THEN stamp[u] ELSE @]
             m == Merged(old, in, stamp)
  <1>1. /\ DOMAIN in \subseteq UID /\ \A u \in DOMAIN in : in[u] \in Fetched
        /\ DOMAIN old \subseteq UID /\ \A u \in DOMAIN old : old[u] \in Entry
        /\ bump \subseteq UID
    BY MapIs
  <1>2. DOMAIN stamp = bump /\ \A u \in bump : stamp[u] \in Nat
    OBVIOUS
  <1>3. m = [u \in DOMAIN old \cup DOMAIN in |-> e(u)]
    BY DEF Merged
  <1>4. ASSUME NEW u \in DOMAIN old \cup DOMAIN in
        PROVE  /\ e(u) \in Entry
               /\ u \notin bump => /\ u \in DOMAIN old /\ e(u).meta = old[u].meta
                                   /\ e(u).rev = old[u].rev /\ e(u).first = old[u].first
               /\ u \in bump =>
                     /\ e(u).rev = stamp[u]
                     /\ e(u).first = IF u \in DOMAIN old THEN old[u].first ELSE stamp[u]
    <2>1. CASE u \notin DOMAIN in
      <3>1. u \notin bump /\ u \in DOMAIN old /\ e(u) = old[u]
        BY <2>1
      <3> QED
        BY <1>1, <3>1
    <2>2. CASE u \in DOMAIN in /\ u \notin DOMAIN old
      <3> DEFINE i == in[u]
      <3>1. e(u) = [meta |-> i.meta, body |-> i.body, rev |-> stamp[u], first |-> stamp[u]]
        BY <2>2
      <3>2. i \in Fetched /\ u \in bump /\ stamp[u] \in Nat
        BY <1>1, <1>2, <2>2
      <3> HIDE DEF i, e
      <3>3. e(u) \in Entry /\ e(u).rev = stamp[u] /\ e(u).first = stamp[u]
        BY <3>1, <3>2 DEF Entry, Fetched
      <3> QED
        BY <2>2, <3>2, <3>3
    <2>3. CASE u \in DOMAIN in /\ u \in DOMAIN old
      <3> DEFINE i == in[u]
                 o == old[u]
                 rev == IF u \in bump THEN stamp[u] ELSE o.rev
      <3>1. e(u) = [o EXCEPT !.meta = i.meta, !.body = @ \/ i.body, !.rev = rev]
        BY <1>2, <2>3
      <3>2. i \in Fetched /\ o \in Entry /\ (u \in bump <=> o.meta # i.meta)
        BY <1>1, <2>3
      <3>3. rev \in Nat
        <4>1. o.rev \in Nat
          BY <3>2 DEF Entry
        <4> QED
          BY <1>2, <4>1
      <3> HIDE DEF i, o, e, rev
      <3>4. e(u) \in Entry /\ e(u).rev = rev /\ e(u).first = o.first /\ e(u).meta = i.meta
        BY <3>1, <3>2, <3>3 DEF Entry, Fetched
      <3> QED
        BY <2>3, <3>2, <3>4 DEF o, rev
    <2> QED
      BY <2>1, <2>2, <2>3
  <1> HIDE DEF e
  <1>5. m \in [DOMAIN old \cup DOMAIN in -> Entry] /\ DOMAIN m = DOMAIN old \cup DOMAIN in
        /\ \A u \in DOMAIN m : m[u] = e(u)
    BY <1>3, <1>4
  <1>6. m \in Maps(Entry)
    BY <1>1, <1>5, MapsHave
  <1> QED
    BY <1>4, <1>5, <1>6

LEMMA ReplyIs ==
    ASSUME NEW prev \in Maps(Entry), NEW entries \in Maps(Entry), NEW seq \in 0 .. MaxSeq,
           NEW since
    PROVE  LET r   == Reply(seq, prev, entries, since)
               new == Fresh(entries, since)
               upd == {u \in DOMAIN entries : entries[u].rev > since} \ new
           IN  /\ r \in Answer /\ r.cursor = seq /\ r.removed = DOMAIN prev \ DOMAIN entries
               /\ DOMAIN r.new = new /\ \A u \in new : r.new[u].meta = entries[u].meta
               /\ DOMAIN r.updated = upd /\ \A u \in upd : r.updated[u] = entries[u].meta
  <1> DEFINE new == Fresh(entries, since)
             upd == {u \in DOMAIN entries : entries[u].rev > since} \ new
             f(u) == [meta |-> entries[u].meta, body |-> entries[u].body]
             n == [u \in new |-> f(u)]
             p == [u \in upd |-> entries[u].meta]
             d == DOMAIN prev \ DOMAIN entries
  <1>1. /\ DOMAIN entries \subseteq UID /\ DOMAIN prev \subseteq UID
        /\ \A u \in DOMAIN entries : entries[u] \in Entry
    BY MapIs
  <1>2. new \subseteq DOMAIN entries /\ upd \subseteq DOMAIN entries
    BY DEF Fresh
  <1>3. \A u \in DOMAIN entries : entries[u].meta \in Meta /\ entries[u].body \in BOOLEAN
    BY <1>1 DEF Entry
  <1>4. \A u \in new : f(u) \in Fetched /\ f(u).meta = entries[u].meta
    BY <1>2, <1>3 DEF Fetched
  <1>5. Reply(seq, prev, entries, since) = [cursor |-> seq, new |-> n, updated |-> p, removed |-> d]
    BY DEF Reply
  <1> HIDE DEF new, upd, f
  <1>6. n \in [new -> Fetched] /\ p \in [upd -> Meta]
    BY <1>2, <1>3, <1>4
  <1>7. n \in Maps(Fetched) /\ p \in Maps(Meta) /\ d \in SUBSET UID
    BY <1>1, <1>2, <1>6, MapsHave
  <1>8. /\ DOMAIN n = new /\ \A u \in new : n[u].meta = entries[u].meta
        /\ DOMAIN p = upd /\ \A u \in upd : p[u] = entries[u].meta
    BY <1>4
  <1> HIDE DEF n, p, d
  <1>9. [cursor |-> seq, new |-> n, updated |-> p, removed |-> d] \in Answer
    BY <1>7 DEF Answer
  <1> QED
    BY <1>5, <1>8, <1>9 DEF new, upd, d

-----------------------------------------------------------------------------
(***************************************************************************)
(* Every step keeps the types.                                             *)
(***************************************************************************)
LEMMA TypesAre ==
    ASSUME TInv
    PROVE  /\ Types /\ Bounded
           /\ box \in Maps(Meta) /\ delivered \in 0 .. MaxUID /\ cast.limits \subseteq Limits
           /\ cast.actors \subseteq Actors
           /\ win \in Window /\ win.entries \in Maps(Entry) /\ win.seq \in 0 .. MaxSeq
           /\ win.seq \in Nat /\ Cardinality(DOMAIN win.entries) <= Cap
           /\ clobbered \in BOOLEAN
           /\ mem \in [Process -> Locked] /\ req \in [Clients -> Request]
           /\ batch \in [Actors -> Maps(Fetched)] /\ view \in [Clients -> View]
           /\ Limits \subseteq 1 .. Cap /\ Cap \in Nat /\ MaxSeq \in Nat /\ MaxUID \in Nat
           /\ Clients \subseteq Actors /\ "loader" \in Actors /\ "poller" \in Actors
  <1>1. cast \in Casts
    BY DEF TInv, Types
  <1>2. cast \in [actors : SUBSET (Clients \cup {"poller", "loader"}), limits : SUBSET Limits]
    BY <1>1, ConstantsAssumption
  <1>3. cast.limits \subseteq Limits /\ cast.actors \subseteq Actors
    BY <1>2 DEF Actors
  <1>4. win \in Window /\ win.entries \in Maps(Entry) /\ win.seq \in 0 .. MaxSeq
    BY DEF TInv, Types, Window
  <1> QED
    BY <1>3, <1>4, ConstantsAssumption DEF TInv, Types, Bounded, Actors

LEMMA MailboxTypes == ASSUME TInv, Mailbox PROVE TInv'
  <1>0. box \in Maps(Meta) /\ delivered \in 0 .. MaxUID /\ MaxUID \in Nat
    BY TypesAre
  <1>1. UNCHANGED <<cast, win, mem, req, batch, view, clobbered>>
    BY DEF Mailbox, Deliver, Flag, Leave, Change
  <1>2. /\ DOMAIN box \subseteq UID /\ box \in [DOMAIN box -> Meta]
        /\ \A u \in DOMAIN box : box[u] \in Meta
    BY <1>0, MapIs
  <1>3. box' \in Maps(Meta) /\ delivered' \in 0 .. MaxUID
    <2>1. CASE Deliver
      <3> DEFINE S == DOMAIN box \cup {delivered'}
      <3>1. delivered' \in UID /\ delivered' \in 0 .. MaxUID
        BY <1>0, <2>1 DEF Deliver, UID
      <3>2. box' \in [S -> Meta]
        BY <1>2, <2>1 DEF Deliver, Meta
      <3>3. S \in SUBSET UID
        BY <1>2, <3>1
      <3> HIDE DEF S
      <3> QED
        BY <3>1, <3>2, <3>3, MapsHave
    <2>2. ASSUME NEW u \in UID, Flag(u) PROVE box' \in Maps(Meta) /\ delivered' \in 0 .. MaxUID
      <3>1. box' \in [DOMAIN box -> Meta] /\ delivered' = delivered
        BY <1>2, <2>2 DEF Flag
      <3> QED
        BY <1>0, <1>2, <3>1, MapsHave
    <2>3. ASSUME NEW u \in UID, Leave(u) PROVE box' \in Maps(Meta) /\ delivered' \in 0 .. MaxUID
      <3>1. box' \in [DOMAIN box \ {u} -> Meta] /\ delivered' = delivered
        BY <1>2, <2>3 DEF Leave
      <3>2. DOMAIN box \ {u} \in SUBSET UID
        BY <1>2
      <3> QED
        BY <1>0, <3>1, <3>2, MapsHave
    <2> QED
      BY <2>1, <2>2, <2>3 DEF Mailbox
  <1> QED
    BY <1>1, <1>3, Steps, TypesAre

\* What Sync writes and answers.
LEMMA Synced ==
    ASSUME TInv, NEW c \in Clients, Sync(c)
    PROVE  LET w    == mem["api"].win
               prev == Previous(w, req[c].limit)
               live == req[c].live
               old  == Unchanged(prev, live)
               e    == win'.entries
               r    == req'[c].reply
               new  == Fresh(e, view[c].cursor)
               upd  == {u \in DOMAIN e : e[u].rev > view[c].cursor} \ new
           IN  /\ win' \in Window /\ Cardinality(DOMAIN e) <= Cap /\ w.seq <= win'.seq
               /\ e \in Maps(Entry) /\ w \in Window
               /\ \A u \in DOMAIN e :
                     IF u \in old
                     THEN u \in DOMAIN w.entries /\ e[u] = w.entries[u]
                     ELSE /\ w.seq < e[u].rev /\ e[u].rev <= win'.seq
                          /\ \/ u \in DOMAIN w.entries /\ e[u].first = w.entries[u].first
                             \/ w.seq < e[u].first /\ e[u].first = e[u].rev
               /\ req' = [req EXCEPT ![c] = req'[c]] /\ req'[c] \in Request
               /\ Proper(req'[c]) /\ req'[c].at = "bodies"
               /\ r.cursor = win'.seq /\ r.removed = DOMAIN prev \ DOMAIN e
               /\ DOMAIN prev \subseteq DOMAIN w.entries
               /\ DOMAIN r.new = new /\ \A u \in new : r.new[u].meta = e[u].meta
               /\ DOMAIN r.updated = upd /\ \A u \in upd : r.updated[u] = e[u].meta
  <1> DEFINE w    == mem["api"].win
             q    == req[c]
             prev == Previous(w, q.limit)
             live == q.live
             old  == Unchanged(prev, live)
             bump == DOMAIN live \ old
             seq  == w.seq + Cardinality(bump)
  <1>1. /\ w \in Window /\ q \in Request /\ req \in [Clients -> Request]
        /\ Proper(q) /\ "api" \in Process /\ Limits \cup {0} \in SUBSET Nat
        /\ MaxSeq \in Nat
    BY TypesAre DEF Locked, Bounded, Process
  <1>2. /\ w.seq \in Nat /\ w.entries \in Maps(Entry) /\ live \in Maps(Meta)
        /\ q.limit \in Limits \cup {0} /\ Cardinality(DOMAIN live) <= Cap
    BY <1>1 DEF Window, Request, Proper
  <1>3. prev \in Maps(Entry) /\ \A u \in DOMAIN prev : u \in DOMAIN w.entries /\ prev[u] = w.entries[u]
    BY <1>2, NothingIs DEF Previous
  <1>4. bump \in SUBSET UID /\ Cardinality(bump) \in Nat
    BY <1>2, MapIs, UIDsFinite
  <1>5. PICK stamp \in Stamps(bump, w.seq, TRUE) :
           /\ win' = [limit |-> q.limit, seq |-> seq, entries |-> Reconciled(prev, live, stamp)]
           /\ req' = [req EXCEPT ![c].at = "bodies",
                        ![c].reply = Reply(seq, prev, Reconciled(prev, live, stamp), view[c].cursor)]
    BY DEF Sync
  <1>6. seq \in 0 .. MaxSeq
    BY <1>1, <1>2, <1>4 DEF Sync
  <1> DEFINE e == Reconciled(prev, live, stamp)
             a == Reply(seq, prev, e, view[c].cursor)
  <1>7. \A u \in bump : stamp[u] \in Nat /\ w.seq < stamp[u] /\ stamp[u] <= seq
    BY <1>2, <1>4, <1>5, StampsAbove
  <1>8. /\ e \in Maps(Entry) /\ DOMAIN e = DOMAIN live
        /\ \A u \in DOMAIN live :
              /\ u \in old => e[u] = prev[u]
              /\ u \notin old => /\ e[u].rev = stamp[u]
                                 /\ e[u].first = IF u \in DOMAIN prev THEN prev[u].first
                                                                      ELSE stamp[u]
    <2>1. \A u \in DOMAIN live : u \notin Unchanged(prev, live) => stamp[u] \in Nat
      BY <1>7
    <2> HIDE DEF prev, live, w, bump, seq
    <2>2. prev \in Maps(Entry) /\ live \in Maps(Meta)
      BY <1>2, <1>3
    <2> QED
      BY <2>1, <2>2, ReconciledIs
  <1>9. \A u \in old : u \in DOMAIN prev
    BY DEF Unchanged
  <1> DEFINE new == Fresh(e, view[c].cursor)
             upd == {u \in DOMAIN e : e[u].rev > view[c].cursor} \ new
  <1>10. /\ a \in Answer /\ a.cursor = seq /\ a.removed = DOMAIN prev \ DOMAIN e
         /\ DOMAIN a.new = new /\ \A u \in new : a.new[u].meta = e[u].meta
         /\ DOMAIN a.updated = upd /\ \A u \in upd : a.updated[u] = e[u].meta
    <2> HIDE DEF e, prev, seq
    <2> QED
      BY <1>3, <1>6, <1>8, ReplyIs
  <1> HIDE DEF a, e, bump, seq, old
  <1>11. win' \in Window /\ win'.entries = e /\ win'.seq = seq
    BY <1>2, <1>5, <1>6, <1>8 DEF Window, e
  <1> DEFINE n == [[q EXCEPT !.at = "bodies"] EXCEPT !.reply = a]
  <1>12. n \in Request /\ n.at = "bodies" /\ n.reply = a /\ n.live = live
    BY <1>1, <1>10 DEF Request
  <1>13. req' = [req EXCEPT ![c] = n]
    BY <1>1, <1>5 DEF a, e
  <1>14. Proper(n)
    BY <1>2, <1>12 DEF Proper
  <1> HIDE DEF n, q
  <1>15. req'[c] = n
    BY <1>1, <1>13
  <1> HIDE DEF prev, live, w
  <1>16. \A u \in DOMAIN e :
            IF u \in old
            THEN u \in DOMAIN w.entries /\ e[u] = w.entries[u]
            ELSE /\ w.seq < e[u].rev /\ e[u].rev <= seq
                 /\ \/ u \in DOMAIN w.entries /\ e[u].first = w.entries[u].first
                    \/ w.seq < e[u].first /\ e[u].first = e[u].rev
    BY <1>3, <1>7, <1>8, <1>9 DEF bump
  <1>17. w.seq <= seq
    BY <1>2, <1>4 DEF seq
  <1> QED
    <2>1. Cardinality(DOMAIN win'.entries) <= Cap
      BY <1>2, <1>8, <1>11
    <2>2. old = Unchanged(Previous(mem["api"].win, req[c].limit), req[c].live)
      BY DEF old, prev, live, w, q
    <2>3. DOMAIN prev \subseteq DOMAIN w.entries
      BY <1>3
    <2>4. prev = Previous(mem["api"].win, req[c].limit) /\ w = mem["api"].win
      BY DEF prev, w, q
    <2>5. /\ e = win'.entries /\ a = req'[c].reply /\ seq = win'.seq /\ live = req[c].live
          /\ req' = [req EXCEPT ![c] = req'[c]] /\ req'[c] \in Request
          /\ Proper(req'[c]) /\ req'[c].at = "bodies"
      BY <1>11, <1>12, <1>13, <1>14, <1>15 DEF live, q
    <2> HIDE DEF new, upd
    <2>6. /\ e \in Maps(Entry) /\ w \in Window /\ win' \in Window
          /\ a.cursor = seq /\ a.removed = DOMAIN prev \ DOMAIN e
          /\ DOMAIN a.new = new /\ \A u \in new : a.new[u].meta = e[u].meta
          /\ DOMAIN a.updated = upd /\ \A u \in upd : a.updated[u] = e[u].meta
      BY <1>1, <1>8, <1>10, <1>11
    <2> QED
      BY <1>16, <1>17, <2>1, <2>2, <2>3, <2>4, <2>5, <2>6 DEF new, upd

\* The window v that an operation writes which has read the window w: an entry is as it
\* was but for its body, or has a stamp of its own.
Grown(w, v) ==
    /\ w.seq <= v.seq
    /\ \A u \in DOMAIN v.entries :
          \/ /\ u \in DOMAIN w.entries /\ v.entries[u].meta = w.entries[u].meta
             /\ v.entries[u].rev = w.entries[u].rev /\ v.entries[u].first = w.entries[u].first
          \/ /\ w.seq < v.entries[u].rev /\ v.entries[u].rev <= v.seq
             /\ \/ u \in DOMAIN w.entries /\ v.entries[u].first = w.entries[u].first
                \/ w.seq < v.entries[u].first /\ v.entries[u].first = v.entries[u].rev

LEMMA SyncGrows ==
    ASSUME TInv, NEW c \in Clients, Sync(c) PROVE Grown(mem["api"].win, win')
  <1> DEFINE w == mem["api"].win
             e == win'.entries
             old == Unchanged(Previous(w, req[c].limit), req[c].live)
  <1>1. /\ w.seq <= win'.seq
        /\ \A u \in DOMAIN e :
              IF u \in old
              THEN u \in DOMAIN w.entries /\ e[u] = w.entries[u]
              ELSE /\ w.seq < e[u].rev /\ e[u].rev <= win'.seq
                   /\ \/ u \in DOMAIN w.entries /\ e[u].first = w.entries[u].first
                      \/ w.seq < e[u].first /\ e[u].first = e[u].rev
    BY Synced
  <1> HIDE DEF old
  <1> QED
    BY <1>1 DEF Grown

\* What Upsert writes.
LEMMA Upserts ==
    ASSUME TInv, NEW a \in Actors, Upsert(a)
    PROVE  LET w == mem[ProcessOf(a)].win
           IN  /\ win' \in Window /\ Cardinality(DOMAIN win'.entries) <= Cap
               /\ Grown(w, win')
  <1> DEFINE p    == ProcessOf(a)
             w    == mem[p].win
             in   == batch[a]
             bump == {u \in DOMAIN in : u \in DOMAIN w.entries => w.entries[u].meta # in[u].meta}
             seq  == w.seq + Cardinality(bump)
             newest == (a = "loader")
  <1>1. /\ p \in Process /\ w \in Window /\ in \in Maps(Fetched) /\ Cap \in Nat
        /\ MaxSeq \in Nat
    BY TypesAre DEF Locked, ProcessOf, Process
  <1>2. w.seq \in Nat /\ w.entries \in Maps(Entry)
    BY <1>1, TypesAre DEF Window
  <1>3. bump \in SUBSET UID /\ Cardinality(bump) \in Nat
    BY <1>1, MapIs, UIDsFinite
  <1>4. PICK stamp \in Stamps(bump, w.seq, newest) :
           win' = [w EXCEPT !.seq = seq,
                      !.entries = [u \in Newest(DOMAIN Merged(w.entries, in, stamp), Cap) |->
                                      Merged(w.entries, in, stamp)[u]]]
    BY DEF Upsert
  <1>5. seq \in 0 .. MaxSeq
    <2>1. seq <= MaxSeq
      BY DEF Upsert
    <2> HIDE DEF bump, w
    <2> QED
      BY <1>1, <1>2, <1>3, <2>1
  <1>6. /\ DOMAIN stamp = bump
        /\ \A u \in bump : stamp[u] \in Nat /\ w.seq < stamp[u] /\ stamp[u] <= seq
    <2>1. newest \in BOOLEAN
      OBVIOUS
    <2> HIDE DEF bump, w, newest
    <2> QED
      BY <1>2, <1>3, <1>4, <2>1, StampsAbove
  <1> DEFINE m == Merged(w.entries, in, stamp)
             e == [u \in Newest(DOMAIN m, Cap) |-> m[u]]
  <1>7. /\ m \in Maps(Entry) /\ DOMAIN m = DOMAIN w.entries \cup DOMAIN in
        /\ \A u \in DOMAIN m :
              /\ u \notin bump => /\ u \in DOMAIN w.entries /\ m[u].meta = w.entries[u].meta
                                  /\ m[u].rev = w.entries[u].rev
                                  /\ m[u].first = w.entries[u].first
              /\ u \in bump =>
                    /\ m[u].rev = stamp[u]
                    /\ m[u].first = IF u \in DOMAIN w.entries THEN w.entries[u].first ELSE stamp[u]
    <2> DEFINE old == w.entries
    <2>1. /\ \A u \in DOMAIN in :
                u \in bump <=> (u \in DOMAIN old => old[u].meta # in[u].meta)
          /\ bump \subseteq DOMAIN in /\ old \in Maps(Entry)
      BY <1>2
    <2>3. \A u \in bump : stamp[u] \in Nat
      BY <1>6
    <2> HIDE DEF bump, in, old, w, seq
    <2>2. LET r == Merged(old, in, stamp)
          IN  /\ r \in Maps(Entry) /\ DOMAIN r = DOMAIN old \cup DOMAIN in
              /\ \A u \in DOMAIN r :
                    /\ u \notin bump => /\ u \in DOMAIN old /\ r[u].meta = old[u].meta
                                        /\ r[u].rev = old[u].rev /\ r[u].first = old[u].first
                    /\ u \in bump =>
                          /\ r[u].rev = stamp[u]
                          /\ r[u].first = IF u \in DOMAIN old THEN old[u].first ELSE stamp[u]
      BY <1>1, <1>6, <2>1, <2>3, MergedIs
    <2> QED
      BY <2>2 DEF old
  <1> HIDE DEF bump, in, w, m, seq
  <1>8. DOMAIN m \in SUBSET UID /\ m \in [DOMAIN m -> Entry]
    BY <1>7, MapIs
  <1>9. /\ Newest(DOMAIN m, Cap) \in SUBSET DOMAIN m
        /\ Cardinality(Newest(DOMAIN m, Cap)) <= Cap
    BY <1>1, <1>8, NewestFew
  <1>10. e \in [Newest(DOMAIN m, Cap) -> Entry] /\ DOMAIN e = Newest(DOMAIN m, Cap)
         /\ \A u \in DOMAIN e : u \in DOMAIN m /\ e[u] = m[u]
    BY <1>8, <1>9
  <1>11. e \in Maps(Entry)
    BY <1>8, <1>9, <1>10, MapsHave
  <1>12. win' = [w EXCEPT !.seq = seq, !.entries = e]
    BY <1>4 DEF m
  <1> HIDE DEF e
  <1>13. win' \in Window /\ win'.entries = e /\ win'.seq = seq
    BY <1>1, <1>5, <1>11, <1>12 DEF Window
  <1>14. w.seq <= seq
    BY <1>2, <1>3 DEF seq
  <1>15. Grown(w, win')
    <2>1. ASSUME NEW u \in DOMAIN e, u \notin bump
          PROVE  /\ u \in DOMAIN w.entries /\ e[u].meta = w.entries[u].meta
                 /\ e[u].rev = w.entries[u].rev /\ e[u].first = w.entries[u].first
      BY <1>7, <1>10, <2>1
    <2>2. ASSUME NEW u \in DOMAIN e, u \in bump
          PROVE  /\ w.seq < e[u].rev /\ e[u].rev <= seq
                 /\ \/ u \in DOMAIN w.entries /\ e[u].first = w.entries[u].first
                    \/ w.seq < e[u].first /\ e[u].first = e[u].rev
      <3>1. /\ e[u].rev = stamp[u]
            /\ e[u].first = IF u \in DOMAIN w.entries THEN w.entries[u].first ELSE stamp[u]
        BY <1>7, <1>10, <2>2
      <3>2. w.seq < stamp[u] /\ stamp[u] <= seq
        BY <1>6, <2>2
      <3> QED
        BY <3>1, <3>2
    <2> QED
      BY <1>13, <1>14, <2>1, <2>2 DEF Grown
  <1> QED
    BY <1>9, <1>10, <1>13, <1>15 DEF w

LEMMA PollTypes == ASSUME TInv, NEW c \in Clients, Poll(c), c \in cast.actors PROVE TInv'
  <1>0. /\ req \in [Clients -> Request] /\ req[c] \in Request /\ Proper(req[c])
        /\ batch \in [Actors -> Maps(Fetched)] /\ view \in [Clients -> View] /\ view[c] \in View
        /\ mem \in [Process -> Locked] /\ box \in Maps(Meta)
        /\ "api" \in Process /\ cast.limits \subseteq Limits /\ Limits \subseteq 1 .. Cap
        /\ Cap \in Nat /\ c \in Actors /\ c # "poller"
    BY TypesAre, ConstantsAssumption DEF Bounded, Process
  <1>1. ASSUME NEW r \in Request, Proper(r), req' = [req EXCEPT ![c] = r]
        PROVE  /\ req' \in [Clients -> Request]
               /\ \A d \in Clients : req'[d] = req[d] \/ Proper(req'[d])
    BY <1>0, <1>1
  <1>2. mem' = [mem EXCEPT !["api"] = NoOp] => mem' \in [Process -> Locked]
    BY <1>0, RestingIs
  <1>3. CASE \E limit \in cast.limits : ListOverviews(c, limit)
    <2>1. PICK limit \in cast.limits : ListOverviews(c, limit)
      BY <1>3
    <2> DEFINE S == Newest(DOMAIN box, limit)
               live == [u \in S |-> box[u]]
               r == [IdleReq EXCEPT !.at = "sync", !.limit = limit, !.live = live]
    <2>2. limit \in Limits /\ limit \in Nat /\ limit <= Cap
      <3>1. limit \in Limits
        BY <1>0
      <3>2. limit \in 1 .. Cap
        BY <1>0, <3>1
      <3> QED
        BY <1>0, <3>1, <3>2
    <2>3. DOMAIN box \in SUBSET UID /\ box \in [DOMAIN box -> Meta]
      BY <1>0, MapIs
    <2>4. S \in SUBSET DOMAIN box /\ Cardinality(S) <= limit
      BY <2>2, <2>3, NewestFew
    <2>5. Cardinality(S) \in Nat /\ S \in SUBSET UID
      BY <2>3, <2>4, UIDsFinite
    <2> HIDE DEF S
    <2>6. live \in [S -> Meta] /\ DOMAIN live = S
      BY <2>3, <2>4
    <2>7. live \in Maps(Meta) /\ Cardinality(DOMAIN live) <= Cap
      <3>1. Cardinality(DOMAIN live) <= Cap
        <4> HIDE DEF live
        <4> QED
          BY <1>0, <2>2, <2>4, <2>5, <2>6
      <3> QED
        BY <2>5, <2>6, <3>1, MapsHave
    <2> HIDE DEF live
    <2>8. r \in Request /\ r.at = "sync" /\ r.live = live /\ r.reply = NoReply
      BY <2>2, <2>7, RestingIs DEF Request
    <2>9. Proper(r)
      BY <2>7, <2>8 DEF Proper
    <2>10. req' = [req EXCEPT ![c] = r] /\ UNCHANGED <<imap, win, mem, batch, view, clobbered>>
      BY <2>1 DEF ListOverviews, live, S
    <2> HIDE DEF r
    <2> QED
      BY <1>1, <2>8, <2>9, <2>10, Steps, TypesAre DEF imap
  <1>4. CASE Sync(c)
    <2>1. /\ win' \in Window /\ Cardinality(DOMAIN win'.entries) <= Cap
          /\ req' = [req EXCEPT ![c] = req'[c]] /\ req'[c] \in Request /\ Proper(req'[c])
      BY <1>4, Synced
    <2>2. /\ UNCHANGED <<imap, batch, view>> /\ mem' = [mem EXCEPT !["api"] = NoOp]
          /\ clobbered' \in BOOLEAN
      BY <1>0, <1>4, TypesAre DEF Sync, Written, Unlock, ProcessOf
    <2>3. /\ req' \in [Clients -> Request]
          /\ \A d \in Clients : req'[d] = req[d] \/ Proper(req'[d])
      BY <1>1, <2>1
    <2> QED
      BY <1>2, <2>1, <2>2, <2>3, Steps, TypesAre DEF imap
  <1>5. CASE SyncFails(c)
    <2>1. /\ UNCHANGED <<imap, win, batch, view, clobbered>>
          /\ mem' = [mem EXCEPT !["api"] = NoOp] /\ req' = [req EXCEPT ![c] = IdleReq]
      BY <1>0, <1>5 DEF SyncFails, Unlock, ProcessOf
    <2> QED
      BY <1>1, <1>2, <2>1, RestingIs, Steps, TypesAre DEF imap
  <1>6. CASE GetMessageBodies(c)
    <2> DEFINE q == req[c]
               old == q.reply.new
               got == {u \in NeedBodies(c) \cap DOMAIN box : HasBody(u)}
               f(u) == IF u \in got THEN [old[u] EXCEPT !.body = TRUE] ELSE old[u]
               new == [u \in DOMAIN old |-> f(u)]
               at == IF got = {} THEN "reply" ELSE "warm"
               in == [u \in got |-> new[u]]
               reply == [q.reply EXCEPT !.new = new]
               r == [[q EXCEPT !.at = at] EXCEPT !.reply = reply]
    <2>1. q.reply \in Answer /\ old \in Maps(Fetched) /\ got \subseteq DOMAIN old
      BY <1>0 DEF Request, Answer, NeedBodies
    <2>2. DOMAIN old \in SUBSET UID /\ \A u \in DOMAIN old : old[u] \in Fetched
      BY <2>1, MapIs
    <2>3. \A u \in DOMAIN old : f(u) \in Fetched
      BY <2>2 DEF Fetched
    <2> HIDE DEF f, got
    <2>4. new \in [DOMAIN old -> Fetched]
      BY <2>3
    <2>5. in \in [got -> Fetched] /\ got \in SUBSET UID
      BY <2>1, <2>2, <2>4
    <2>6. new \in Maps(Fetched) /\ in \in Maps(Fetched)
      BY <2>2, <2>4, <2>5, MapsHave
    <2>7. /\ req' = [req EXCEPT ![c].at = at, ![c].reply.new = new]
          /\ batch' = [batch EXCEPT ![c] = in]
          /\ UNCHANGED <<imap, win, mem, view, clobbered>>
      BY <1>6 DEF GetMessageBodies, f, got
    <2> HIDE DEF new, in, old
    <2>8. reply \in Answer
      BY <2>1, <2>6 DEF Answer
    <2>9. req' = [req EXCEPT ![c] = r]
      BY <1>0, <2>7
    <2> HIDE DEF reply
    <2>10. r \in Request /\ r.at \in {"reply", "warm"} /\ r.live = q.live
      BY <1>0, <2>8 DEF Request
    <2>11. Proper(r)
      BY <1>0, <2>10 DEF Proper
    <2>12. batch' \in [Actors -> Maps(Fetched)]
      BY <1>0, <2>6, <2>7
    <2> HIDE DEF r
    <2> QED
      BY <1>1, <2>7, <2>9, <2>10, <2>11, <2>12, Steps, TypesAre DEF imap
  <1>7. CASE BodiesFail(c) \/ Lose(c)
    <2>1. req' = [req EXCEPT ![c] = IdleReq] /\ UNCHANGED <<imap, win, mem, batch, view, clobbered>>
      BY <1>7 DEF BodiesFail, Lose
    <2> QED
      BY <1>1, <2>1, RestingIs, Steps, TypesAre DEF imap
  <1>8. CASE Receive(c)
    <2> DEFINE r == req[c].reply
               old == view[c].shown
               f(u) == IF u \in DOMAIN r.new THEN r.new[u].meta
                       ELSE IF u \in DOMAIN r.updated THEN r.updated[u] ELSE old[u]
               S == (DOMAIN old \ r.removed) \cup DOMAIN r.new \cup DOMAIN r.updated
               shown == [u \in S |-> f(u)]
               v == [cursor |-> r.cursor, shown |-> shown]
    <2>1. r \in Answer /\ old \in Maps(Meta)
      BY <1>0 DEF Request, View
    <2>2. r.cursor \in 0 .. MaxSeq /\ r.new \in Maps(Fetched) /\ r.updated \in Maps(Meta)
      BY <2>1 DEF Answer
    <2>3. /\ S \in SUBSET UID
          /\ \A u \in DOMAIN old : old[u] \in Meta
          /\ \A u \in DOMAIN r.updated : r.updated[u] \in Meta
          /\ \A u \in DOMAIN r.new : r.new[u] \in Fetched
      BY <2>1, <2>2, MapIs
    <2>4. \A u \in S : f(u) \in Meta
      BY <2>3 DEF Fetched
    <2>5. shown \in Maps(Meta)
      <3> HIDE DEF f, S
      <3>1. shown \in [S -> Meta]
        BY <2>4
      <3> QED
        BY <2>3, <3>1, MapsHave
    <2>6. view' = [view EXCEPT ![c] = v] /\ req' = [req EXCEPT ![c] = IdleReq]
          /\ UNCHANGED <<imap, win, mem, batch, clobbered>>
      BY <1>8 DEF Receive
    <2> HIDE DEF shown, r
    <2>7. v \in View
      BY <2>2, <2>5 DEF View
    <2>8. view' \in [Clients -> View]
      BY <1>0, <2>6, <2>7
    <2> QED
      BY <1>1, <2>6, <2>8, RestingIs, Steps, TypesAre DEF imap
  <1> QED
    BY <1>3, <1>4, <1>5, <1>6, <1>7, <1>8 DEF Poll

\* What Upsert or its failure makes of the batch and of a client's request.
LEMMA UpsertEnds ==
    ASSUME TInv, NEW a \in Actors, Upserted(a)
    PROVE  /\ UNCHANGED <<imap, view>>
           /\ mem' \in [Process -> Locked]
           /\ batch' = [batch EXCEPT ![a] = Nothing] /\ batch' \in [Actors -> Maps(Fetched)]
           /\ req' \in [Clients -> Request]
           /\ \A c \in Clients :
                 \/ req'[c] = req[c]
                 \/ /\ c = a /\ req'[c].at = "reply" /\ req'[c].reply = req[c].reply
                    /\ req'[c].live = req[c].live
  <1>0. /\ mem \in [Process -> Locked] /\ req \in [Clients -> Request]
        /\ batch \in [Actors -> Maps(Fetched)]
    BY TypesAre
  <1>1. mem' \in [Process -> Locked]
    BY <1>0, RestingIs DEF Upserted, Unlock
  <1>2. batch' = [batch EXCEPT ![a] = Nothing] /\ batch' \in [Actors -> Maps(Fetched)]
    BY <1>0, NothingIs DEF Upserted
  <1>3. /\ req' \in [Clients -> Request]
        /\ \A c \in Clients :
              \/ req'[c] = req[c]
              \/ /\ c = a /\ req'[c].at = "reply" /\ req'[c].reply = req[c].reply
                 /\ req'[c].live = req[c].live
    <2>1. CASE a \in Clients
      <3> DEFINE r == [req[a] EXCEPT !.at = "reply"]
      <3>1. /\ r \in Request /\ r.at = "reply" /\ r.reply = req[a].reply
            /\ r.live = req[a].live
        BY <1>0, <2>1 DEF Request
      <3>2. req' = [req EXCEPT ![a] = r]
        BY <2>1 DEF Upserted
      <3> HIDE DEF r
      <3> QED
        BY <1>0, <2>1, <3>1, <3>2
    <2>2. CASE a \notin Clients
      BY <1>0, <2>2 DEF Upserted
    <2> QED
      BY <2>1, <2>2
  <1> QED
    BY <1>1, <1>2, <1>3 DEF Upserted

LEMMA WarmTypes == ASSUME TInv, NEW a \in Actors, Warm(a) PROVE TInv'
  <1>0. /\ mem \in [Process -> Locked] /\ win \in Window /\ ProcessOf(a) \in Process
        /\ clobbered \in BOOLEAN /\ \A c \in Clients : Proper(req[c])
    BY TypesAre DEF ProcessOf, Process, Bounded
  <1>1. CASE Refresh(a)
    <2> DEFINE m == [by |-> a, win |-> win]
    <2>1. m \in Locked
      BY <1>0 DEF Locked
    <2>2. /\ mem' = [mem EXCEPT ![ProcessOf(a)] = m]
          /\ UNCHANGED <<imap, win, req, batch, view, clobbered>>
      BY <1>1 DEF Refresh
    <2> HIDE DEF m
    <2>3. mem' \in [Process -> Locked]
      BY <1>0, <2>1, <2>2
    <2> QED
      BY <2>2, <2>3, Steps, TypesAre DEF imap
  <1>2. ASSUME Upserted(a) PROVE \A c \in Clients : req'[c] = req[c] \/ Proper(req'[c])
    BY <1>0, <1>2, UpsertEnds DEF Proper
  <1>3. CASE Upsert(a)
    <2>1. clobbered' \in BOOLEAN /\ Upserted(a)
      BY <1>0, <1>3 DEF Upsert, Written
    <2>2. win' \in Window /\ Cardinality(DOMAIN win'.entries) <= Cap
      BY <1>3, Upserts
    <2> QED
      BY <1>2, <2>1, <2>2, UpsertEnds, Steps, TypesAre DEF imap
  <1>4. CASE UpsertFails(a)
    BY <1>2, <1>4, UpsertEnds, Steps, TypesAre DEF UpsertFails, imap
  <1> QED
    BY <1>1, <1>3, <1>4 DEF Warm

\* The classic path and the poller fetch entries of the mailbox.
LEMMA FetchTypes ==
    ASSUME TInv,
           \/ \E limit \in cast.limits : ListUnreadMessages(limit)
           \/ ListUnreadInbox
    PROVE  TInv'
  <1>0. box \in Maps(Meta) /\ batch \in [Actors -> Maps(Fetched)]
    BY TypesAre
  <1>1. DOMAIN box \subseteq UID /\ \A u \in DOMAIN box : box[u] \in Meta
    BY <1>0, MapIs
  <1>2. ASSUME NEW S \in SUBSET DOMAIN box PROVE Entries(S) \in Maps(Fetched)
    <2> DEFINE f(u) == [meta |-> box[u], body |-> HasBody(u)]
    <2>1. \A u \in S : f(u) \in Fetched
      BY <1>1 DEF Fetched, HasBody
    <2> HIDE DEF f
    <2>2. [u \in S |-> f(u)] \in [S -> Fetched]
      BY <2>1
    <2>3. [u \in S |-> f(u)] \in Maps(Fetched)
      BY <1>1, <2>2, MapsHave
    <2> QED
      BY <2>3 DEF Entries, f
  <1>3. PICK a \in Actors, S \in SUBSET DOMAIN box :
           /\ batch' = [batch EXCEPT ![a] = Entries(S)]
           /\ UNCHANGED <<imap, win, mem, req, view, clobbered>>
    <2>1. ASSUME NEW limit \in cast.limits, ListUnreadMessages(limit)
          PROVE  \E a \in Actors, S \in SUBSET DOMAIN box :
                    /\ batch' = [batch EXCEPT ![a] = Entries(S)]
                    /\ UNCHANGED <<imap, win, mem, req, view, clobbered>>
      <3>1. Newest(DOMAIN box, limit) \in SUBSET DOMAIN box
        BY DEF Newest
      <3> QED
        BY <2>1, <3>1, TypesAre DEF ListUnreadMessages
    <2>2. ASSUME ListUnreadInbox
          PROVE  \E a \in Actors, S \in SUBSET DOMAIN box :
                    /\ batch' = [batch EXCEPT ![a] = Entries(S)]
                    /\ UNCHANGED <<imap, win, mem, req, view, clobbered>>
      <3>1. PICK S \in SUBSET {u \in DOMAIN box : box[u] = "unread"} :
               batch' = [batch EXCEPT !["poller"] = Entries(S)]
        BY <2>2 DEF ListUnreadInbox
      <3>2. S \in SUBSET DOMAIN box
        OBVIOUS
      <3> QED
        BY <2>2, <3>1, <3>2, TypesAre DEF ListUnreadInbox
    <2> QED
      BY <2>1, <2>2
  <1>4. batch' \in [Actors -> Maps(Fetched)]
    BY <1>0, <1>2, <1>3
  <1> QED
    BY <1>3, <1>4, Steps, TypesAre DEF imap

LEMMA TInvNext == TInv /\ [Next]_vars => TInv'
  <1> SUFFICES ASSUME TInv, [Next]_vars PROVE TInv'
    OBVIOUS
  <1>1. CASE UNCHANGED vars
    BY <1>1, Steps, TypesAre DEF vars, imap
  <1>2. CASE Next
    <2>1. cast.actors \subseteq Actors
      BY TypesAre
    <2> QED
      BY <1>2, <2>1, MailboxTypes, PollTypes, FetchTypes, WarmTypes DEF Next
  <1> QED
    BY <1>1, <1>2

LEMMA TypesInvariant == Spec => []TInv
  BY TInvInit, TInvNext, PTL DEF Spec

\* For any number of clients and messages and any maxWindowEntries: the variables keep
\* their types, and the window its bound, however Sync and Upsert alternate.
THEOREM TypeCorrect == Spec => []TypeOK
  <1>1. TInv => TypeOK
    <2> SUFFICES ASSUME TInv PROVE TypeOK
      OBVIOUS
    <2>0. /\ Types /\ win \in Window /\ win.entries \in Maps(Entry) /\ box \in Maps(Meta)
          /\ Cardinality(DOMAIN win.entries) <= Cap
      BY TypesAre
    <2>1. /\ DOMAIN box \subseteq UID /\ \A u \in DOMAIN box : box[u] \in Meta
          /\ DOMAIN win.entries \subseteq UID
          /\ \A u \in DOMAIN win.entries : win.entries[u] \in Entry
      BY <2>0, MapIs
    <2>2. \A a \in Actors : DOMAIN batch[a] \subseteq UID
      BY <2>0, MapIs DEF Types
    <2>3. \A c \in Clients : req[c].at \in {"idle", "sync", "bodies", "warm", "reply"}
      BY <2>0 DEF Types, Request
    <2>4. \A c \in Clients : view[c].cursor \in Nat /\ view[c].shown \in Maps(Meta)
      BY <2>0 DEF Types, View
    <2>5. \A c \in Clients : DOMAIN view[c].shown \subseteq UID
      BY <2>4, MapIs
    <2>6. win.limit \in Limits \cup {0} /\ win.seq \in 0 .. MaxSeq /\ delivered \in 0 .. MaxUID
      BY <2>0 DEF Types, Window
    <2> QED
      BY <2>0, <2>1, <2>2, <2>3, <2>4, <2>5, <2>6 DEF TypeOK
  <1> QED
    BY <1>1, TypesInvariant, PTL

-----------------------------------------------------------------------------
(***************************************************************************)
(* What a client is still to be told.                                      *)
(***************************************************************************)

\* What a client shows once it has received the reply r.
Shown(r, shown) ==
    [u \in (DOMAIN shown \ r.removed) \cup DOMAIN r.new \cup DOMAIN r.updated |->
        IF u \in DOMAIN r.new THEN r.new[u].meta
        ELSE IF u \in DOMAIN r.updated THEN r.updated[u]
        ELSE shown[u]]

\* No stamp is above the window's sequence number.
Stamped(w) ==
    \A u \in DOMAIN w.entries :
        w.entries[u].first <= w.entries[u].rev /\ w.entries[u].rev <= w.seq

\* Who shows this and asks from this cursor on misses nothing of the window w.
Follows(w, cursor, shown) ==
    /\ cursor <= w.seq
    /\ \A u \in DOMAIN w.entries :
          /\ \/ u \in DOMAIN shown /\ shown[u] = w.entries[u].meta
             \/ w.entries[u].rev > cursor
          /\ w.entries[u].first <= cursor => u \in DOMAIN shown

\* It holds of every client, and will once it has received the reply under way, which
\* does not take its cursor back.
Current(c) ==
    /\ Follows(win, view[c].cursor, view[c].shown)
    /\ req[c].at \in {"bodies", "warm", "reply"} =>
          /\ Follows(win, req[c].reply.cursor, Shown(req[c].reply, view[c].shown))
          /\ view[c].cursor <= req[c].reply.cursor
    /\ DOMAIN req[c].reply.updated \subseteq DOMAIN view[c].shown

\* A client has something to upsert only after its bodies have come.
Warming == \A c \in Clients : req[c].at # "warm" => batch[c] = Nothing

CInv == Warming /\ (~clobbered => Stamped(win) /\ \A c \in Clients : Current(c))

LEMMA EntriesAre ==
    ASSUME NEW w \in Window
    PROVE  \A u \in DOMAIN w.entries : w.entries[u].rev \in Nat /\ w.entries[u].first \in Nat
  <1> DEFINE e == w.entries
  <1>1. e \in Maps(Entry)
    BY DEF Window
  <1> HIDE DEF e
  <1>2. \A u \in DOMAIN e : e[u] \in Entry
    BY <1>1, MapIs
  <1>3. \A u \in DOMAIN e : e[u].rev \in Nat /\ e[u].first \in Nat
    BY <1>2 DEF Entry
  <1> QED
    BY <1>3 DEF e

\* The window may grow: the clients still miss nothing.
LEMMA FollowsGrown ==
    ASSUME NEW w \in Window, NEW v \in Window, Grown(w, v), Stamped(w),
           NEW cursor \in Nat, NEW shown, Follows(w, cursor, shown)
    PROVE  Follows(v, cursor, shown)
  <1>1. w.seq \in Nat /\ v.seq \in Nat /\ w.entries \in Maps(Entry) /\ v.entries \in Maps(Entry)
    BY ConstantsAssumption DEF Window
  <1>2. /\ \A u \in DOMAIN w.entries : w.entries[u].rev \in Nat /\ w.entries[u].first \in Nat
        /\ \A u \in DOMAIN v.entries : v.entries[u].rev \in Nat /\ v.entries[u].first \in Nat
    BY EntriesAre
  <1>3. cursor <= w.seq /\ w.seq <= v.seq
    BY DEF Follows, Grown
  <1>4. ASSUME NEW u \in DOMAIN v.entries
        PROVE  /\ \/ u \in DOMAIN shown /\ shown[u] = v.entries[u].meta
                  \/ v.entries[u].rev > cursor
               /\ v.entries[u].first <= cursor => u \in DOMAIN shown
    <2>1. CASE /\ u \in DOMAIN w.entries /\ v.entries[u].meta = w.entries[u].meta
               /\ v.entries[u].rev = w.entries[u].rev /\ v.entries[u].first = w.entries[u].first
      BY <2>1 DEF Follows
    <2>2. CASE /\ w.seq < v.entries[u].rev
               /\ \/ u \in DOMAIN w.entries /\ v.entries[u].first = w.entries[u].first
                  \/ w.seq < v.entries[u].first
      <3>1. v.entries[u].rev > cursor
        BY <1>1, <1>2, <1>3, <2>2
      <3>2. v.entries[u].first <= cursor => u \in DOMAIN w.entries /\ w.entries[u].first <= cursor
        BY <1>1, <1>2, <1>3, <2>2
      <3> QED
        BY <3>1, <3>2 DEF Follows
    <2> QED
      BY <2>1, <2>2 DEF Grown
  <1> QED
    BY <1>1, <1>3, <1>4 DEF Follows

LEMMA StampedGrown ==
    ASSUME NEW w \in Window, NEW v \in Window, Grown(w, v), Stamped(w) PROVE Stamped(v)
  <1>1. w.seq \in Nat /\ v.seq \in Nat /\ w.entries \in Maps(Entry) /\ v.entries \in Maps(Entry)
    BY ConstantsAssumption DEF Window
  <1>2. /\ \A u \in DOMAIN w.entries : w.entries[u].rev \in Nat /\ w.entries[u].first \in Nat
        /\ \A u \in DOMAIN v.entries : v.entries[u].rev \in Nat /\ v.entries[u].first \in Nat
    BY EntriesAre
  <1>3. w.seq <= v.seq
    BY DEF Grown
  <1>4. ASSUME NEW u \in DOMAIN v.entries
        PROVE  v.entries[u].first <= v.entries[u].rev /\ v.entries[u].rev <= v.seq
    <2>1. u \in DOMAIN w.entries => w.entries[u].first <= w.entries[u].rev /\ w.entries[u].rev <= w.seq
      BY DEF Stamped
    <2>2. CASE /\ u \in DOMAIN w.entries /\ v.entries[u].meta = w.entries[u].meta
               /\ v.entries[u].rev = w.entries[u].rev /\ v.entries[u].first = w.entries[u].first
      BY <1>1, <1>2, <1>3, <2>1, <2>2
    <2>3. CASE /\ w.seq < v.entries[u].rev /\ v.entries[u].rev <= v.seq
               /\ \/ u \in DOMAIN w.entries /\ v.entries[u].first = w.entries[u].first
                  \/ w.seq < v.entries[u].first /\ v.entries[u].first = v.entries[u].rev
      BY <1>1, <1>2, <1>3, <2>1, <2>3
    <2> QED
      BY <2>2, <2>3 DEF Grown
  <1> QED
    BY <1>4 DEF Stamped

LEMMA GrownSelf == ASSUME NEW w \in Window PROVE Grown(w, w)
  <1>1. w.seq \in Nat
    BY ConstantsAssumption DEF Window
  <1> QED
    BY <1>1 DEF Grown

\* The answer of Sync makes up for what its client misses.
LEMMA Answered ==
    ASSUME NEW w \in Window, NEW v \in Window, Grown(w, v), Stamped(w),
           NEW cursor \in Nat, NEW shown, Follows(w, cursor, shown),
           NEW r, NEW new, NEW upd,
           r.cursor = v.seq, \A u \in DOMAIN v.entries : u \notin r.removed,
           \A u : u \in new <=> u \in DOMAIN v.entries /\ v.entries[u].first > cursor,
           \A u : u \in upd <=> /\ u \in DOMAIN v.entries /\ v.entries[u].rev > cursor
                                /\ u \notin new,
           DOMAIN r.new = new, \A u \in new : r.new[u].meta = v.entries[u].meta,
           DOMAIN r.updated = upd, \A u \in upd : r.updated[u] = v.entries[u].meta
    PROVE  /\ Follows(v, r.cursor, Shown(r, shown))
           /\ DOMAIN r.updated \subseteq DOMAIN shown
  <1>1. w.seq \in Nat /\ v.seq \in Nat /\ w.entries \in Maps(Entry) /\ v.entries \in Maps(Entry)
    BY ConstantsAssumption DEF Window
  <1>2. /\ \A u \in DOMAIN v.entries : v.entries[u].rev \in Nat /\ v.entries[u].first \in Nat
    BY EntriesAre
  <1>3. Follows(v, cursor, shown)
    BY FollowsGrown
  <1>4. \A u \in DOMAIN v.entries :
           u \notin new => u \in DOMAIN shown
    BY <1>2, <1>3 DEF Follows
  <1>5. \A u \in DOMAIN v.entries :
           u \notin new /\ u \notin upd => shown[u] = v.entries[u].meta
    BY <1>2, <1>3 DEF Follows
  <1> DEFINE s == Shown(r, shown)
  <1>6. \A u \in DOMAIN v.entries : u \in DOMAIN s /\ s[u] = v.entries[u].meta
    <2> SUFFICES ASSUME NEW u \in DOMAIN v.entries
                 PROVE  u \in DOMAIN s /\ s[u] = v.entries[u].meta
      OBVIOUS
    <2>1. u \in DOMAIN s
      BY <1>4 DEF Shown
    <2>2. s[u] = IF u \in DOMAIN r.new THEN r.new[u].meta
                 ELSE IF u \in DOMAIN r.updated THEN r.updated[u] ELSE shown[u]
      BY <2>1 DEF Shown
    <2> QED
      BY <1>5, <2>1, <2>2
  <1> HIDE DEF s
  <1>7. Follows(v, r.cursor, s)
    BY <1>1, <1>6 DEF Follows
  <1>8. DOMAIN r.updated \subseteq DOMAIN shown
    BY <1>4
  <1> QED
    BY <1>7, <1>8 DEF s

\* Two functions that agree follow alike.
LEMMA FollowsSame ==
    ASSUME NEW w, NEW cursor, NEW s, NEW t, DOMAIN t = DOMAIN s,
           \A u \in DOMAIN s : t[u] = s[u], Follows(w, cursor, s)
    PROVE  Follows(w, cursor, t)
  BY DEF Follows

LEMMA CursorsAre ==
    ASSUME TInv, NEW c \in Clients
    PROVE  /\ view[c].cursor \in Nat /\ req[c].reply.cursor \in Nat
           /\ view[c] \in View /\ req[c] \in Request /\ req[c].reply \in Answer
  <1>1. view[c] \in View /\ req[c] \in Request
    BY TypesAre
  <1>2. req[c].reply \in Answer
    BY <1>1 DEF Request
  <1>3. view[c].cursor \in Nat
    BY <1>1, ConstantsAssumption DEF View
  <1>4. req[c].reply.cursor \in Nat
    BY <1>2, ConstantsAssumption DEF Answer
  <1> QED
    BY <1>1, <1>2, <1>3, <1>4

\* A client is current after a step if it is left alone, gives its request up, or goes
\* from "warm" to "reply".
LEMMA CurrentStays ==
    ASSUME TInv, win' \in Window, Grown(win, win'), Stamped(win),
           NEW c \in Clients, Current(c), view'[c] = view[c],
           \/ req'[c] = req[c]
           \/ req'[c].at \in {"idle", "sync"} /\ req'[c].reply = NoReply
           \/ req[c].at \in {"bodies", "warm", "reply"} /\ req'[c].reply = req[c].reply
    PROVE  Current(c)'
  <1> DEFINE k == view[c].cursor
             s == view[c].shown
             r == req[c].reply
             t == Shown(r, s)
  <1>1. k \in Nat /\ r.cursor \in Nat /\ win \in Window
    BY CursorsAre, TypesAre
  <1>2. /\ Follows(win, k, s) /\ DOMAIN r.updated \subseteq DOMAIN s
        /\ req[c].at \in {"bodies", "warm", "reply"} =>
              Follows(win, r.cursor, t) /\ k <= r.cursor
    BY DEF Current
  <1>3. Follows(win', k, s)
    <2> HIDE DEF k, s
    <2> QED
      BY <1>1, <1>2, FollowsGrown
  <1>4. req[c].at \in {"bodies", "warm", "reply"} => Follows(win', r.cursor, t)
    <2> DEFINE m == r.cursor
    <2> HIDE DEF t, r, m
    <2>1. m \in Nat /\ (req[c].at \in {"bodies", "warm", "reply"} => Follows(win, m, t))
      BY <1>1, <1>2 DEF m
    <2>2. req[c].at \in {"bodies", "warm", "reply"} => Follows(win', m, t)
      BY <1>1, <2>1, FollowsGrown
    <2> QED
      BY <2>2 DEF m
  <1>5. CASE req'[c].at \in {"idle", "sync"} /\ req'[c].reply = NoReply
    <2>1. DOMAIN req'[c].reply.updated = {}
      BY <1>5, RestingIs
    <2>2. req'[c].at \notin {"bodies", "warm", "reply"}
      BY <1>5
    <2> QED
      BY <1>3, <2>1, <2>2 DEF Current
  <1>6. CASE req'[c] = req[c]
    BY <1>2, <1>3, <1>4, <1>6 DEF Current
  <1>7. CASE req[c].at \in {"bodies", "warm", "reply"} /\ req'[c].reply = req[c].reply
    BY <1>2, <1>3, <1>4, <1>7 DEF Current
  <1> QED
    BY <1>5, <1>6, <1>7

\* A step that touches at most one client.
LEMMA CurrentSteps ==
    ASSUME TInv, CInv, win' \in Window, ~clobbered' => ~clobbered /\ Grown(win, win'),
           Warming',
           \A c \in Clients : ~clobbered' =>
              \/ /\ view'[c] = view[c]
                 /\ \/ req'[c] = req[c]
                    \/ req'[c].at \in {"idle", "sync"} /\ req'[c].reply = NoReply
                    \/ req[c].at \in {"bodies", "warm", "reply"} /\ req'[c].reply = req[c].reply
              \/ Current(c)'
    PROVE  CInv'
  <1> SUFFICES ASSUME ~clobbered' PROVE Stamped(win') /\ \A c \in Clients : Current(c)'
    BY DEF CInv
  <1>1. Stamped(win) /\ Grown(win, win') /\ win \in Window /\ \A c \in Clients : Current(c)
    BY TypesAre DEF CInv
  <1>2. Stamped(win')
    BY <1>1, StampedGrown
  <1>3. ASSUME NEW c \in Clients PROVE Current(c)'
    BY <1>1, CurrentStays
  <1> QED
    BY <1>2, <1>3

LEMMA SyncCurrent ==
    ASSUME TInv, CInv, NEW c \in Clients, Sync(c), ~clobbered'
    PROVE  ~clobbered /\ Grown(win, win') /\ Current(c)'
  <1> DEFINE k   == view[c].cursor
             s   == view[c].shown
             e   == win'.entries
             r   == req'[c].reply
             new == Fresh(e, k)
             upd == {u \in DOMAIN e : e[u].rev > k} \ new
  <1>1. ~clobbered /\ win = mem["api"].win /\ view' = view
    BY DEF Sync, Written
  <1>2. Grown(win, win')
    BY <1>1, SyncGrows
  <1>3. /\ win \in Window /\ Stamped(win) /\ Follows(win, k, s) /\ k \in Nat
    BY <1>1, TypesAre, CursorsAre DEF CInv, Current
  <1>4. /\ win' \in Window /\ req'[c].at = "bodies" /\ r.cursor = win'.seq
        /\ \A u \in DOMAIN e : u \notin r.removed
        /\ DOMAIN r.new = new /\ \A u \in new : r.new[u].meta = e[u].meta
        /\ DOMAIN r.updated = upd /\ \A u \in upd : r.updated[u] = e[u].meta
    BY Synced
  <1>5. /\ \A u : u \in new <=> u \in DOMAIN e /\ e[u].first > k
        /\ \A u : u \in upd <=> u \in DOMAIN e /\ e[u].rev > k /\ u \notin new
    BY DEF Fresh
  <1> HIDE DEF k, s, r, new, upd
  <1>6. Follows(win', r.cursor, Shown(r, s)) /\ DOMAIN r.updated \subseteq DOMAIN s
    BY <1>2, <1>3, <1>4, <1>5, Answered
  <1>7. Follows(win', k, s)
    BY <1>2, <1>3, <1>4, FollowsGrown
  <1>8. k <= r.cursor
    BY <1>4, <1>7 DEF Follows
  <1> QED
    BY <1>1, <1>2, <1>6, <1>7, <1>8 DEF Current, k, s, r

LEMMA EmptyIsNothing ==
    ASSUME NEW R, NEW f \in [{} -> R] PROVE f = Nothing
  BY DEF Nothing

LEMMA PollCurrent ==
    ASSUME TInv, CInv, NEW c \in Clients, Poll(c), c \in cast.actors PROVE CInv'
  <1>0. /\ req \in [Clients -> Request] /\ batch \in [Actors -> Maps(Fetched)]
        /\ view \in [Clients -> View] /\ win \in Window /\ Warming /\ c \in Actors
        /\ req[c] \in Request /\ Clients \subseteq Actors /\ Grown(win, win)
    BY TypesAre, GrownSelf DEF CInv
  <1>1. ASSUME UNCHANGED <<win, batch, view, clobbered>>,
               NEW r, req' = [req EXCEPT ![c] = r], r.at \in {"idle", "sync"}, r.reply = NoReply,
               req[c].at # "warm"
        PROVE  CInv'
    <2>1. \A d \in Clients : req'[d] = IF d = c THEN r ELSE req[d]
      BY <1>0, <1>1
    <2>2. Warming'
      BY <1>0, <1>1, <2>1 DEF Warming
    <2>3. \A d \in Clients :
             /\ view'[d] = view[d]
             /\ \/ req'[d] = req[d]
                \/ req'[d].at \in {"idle", "sync"} /\ req'[d].reply = NoReply
      BY <1>1, <2>1
    <2> QED
      BY <1>0, <1>1, <2>2, <2>3, CurrentSteps
  <1>3. CASE \E limit \in cast.limits : ListOverviews(c, limit)
    <2>1. PICK limit \in cast.limits : ListOverviews(c, limit)
      BY <1>3
    <2> DEFINE live == [u \in Newest(DOMAIN box, limit) |-> box[u]]
               r == [IdleReq EXCEPT !.at = "sync", !.limit = limit, !.live = live]
    <2> HIDE DEF live
    <2>2. r.at = "sync" /\ r.reply = NoReply
      BY RestingIs DEF Request
    <2>3. /\ req' = [req EXCEPT ![c] = r] /\ UNCHANGED <<win, batch, view, clobbered>>
          /\ req[c].at = "idle"
      BY <2>1 DEF ListOverviews, live
    <2> HIDE DEF r
    <2> QED
      BY <1>1, <2>2, <2>3
  <1>4. CASE Sync(c)
    <2>1. /\ win' \in Window /\ req' = [req EXCEPT ![c] = req'[c]] /\ req'[c].at = "bodies"
      BY <1>4, Synced
    <2>2. UNCHANGED <<batch, view>> /\ req[c].at = "sync"
      BY <1>4 DEF Sync
    <2>3. \A d \in Clients : d # c => req'[d] = req[d]
      BY <1>0, <2>1
    <2>4. Warming'
      BY <1>0, <2>1, <2>2, <2>3 DEF Warming
    <2>5. ~clobbered' => ~clobbered /\ Grown(win, win') /\ Current(c)'
      BY <1>4, SyncCurrent
    <2> QED
      BY <2>1, <2>2, <2>3, <2>4, <2>5, CurrentSteps
  <1>5. CASE SyncFails(c) \/ BodiesFail(c) \/ Lose(c)
    <2>1. /\ req' = [req EXCEPT ![c] = IdleReq] /\ UNCHANGED <<win, batch, view, clobbered>>
          /\ req[c].at # "warm"
      BY <1>5 DEF SyncFails, BodiesFail, Lose
    <2> QED
      BY <1>1, <2>1, RestingIs
  <1>6. CASE GetMessageBodies(c)
    <2> DEFINE q == req[c]
               old == q.reply.new
               got == {u \in NeedBodies(c) \cap DOMAIN box : HasBody(u)}
               f(u) == IF u \in got THEN [old[u] EXCEPT !.body = TRUE] ELSE old[u]
               new == [u \in DOMAIN old |-> f(u)]
               at == IF got = {} THEN "reply" ELSE "warm"
               in == [u \in got |-> new[u]]
               reply == [q.reply EXCEPT !.new = new]
               r == [[q EXCEPT !.at = at] EXCEPT !.reply = reply]
    <2>1. q.reply \in Answer /\ old \in Maps(Fetched)
      BY <1>0 DEF Request, Answer
    <2>2. \A u \in DOMAIN old : old[u] \in Fetched
      BY <2>1, MapIs
    <2>3. \A u \in DOMAIN old : f(u).meta = old[u].meta
      BY <2>2 DEF Fetched
    <2> HIDE DEF f
    <2>4. DOMAIN new = DOMAIN old /\ \A u \in DOMAIN old : new[u].meta = old[u].meta
      BY <2>3
    <2>5. got = {} => in = Nothing
      <3>1. got = {} => in \in [{} -> {0}]
        BY DEF f
      <3> QED
        BY <3>1, EmptyIsNothing
    <2> HIDE DEF got
    <2>6. /\ req' = [req EXCEPT ![c].at = at, ![c].reply.new = new]
          /\ batch' = [batch EXCEPT ![c] = in] /\ req[c].at = "bodies"
          /\ UNCHANGED <<imap, win, mem, view, clobbered>>
      BY <1>6 DEF GetMessageBodies, f, got
    <2> HIDE DEF new, in, old
    <2>7. /\ reply.cursor = q.reply.cursor /\ reply.new = new
          /\ reply.updated = q.reply.updated /\ reply.removed = q.reply.removed
      BY <2>1 DEF Answer
    <2>8. req' = [req EXCEPT ![c] = r]
      BY <1>0, <2>6
    <2> HIDE DEF reply, at
    <2>9. r.at = at /\ r.reply = reply
      BY <1>0 DEF Request
    <2> HIDE DEF r, q
    <2>10. \A d \in Clients : /\ req'[d] = IF d = c THEN r ELSE req[d]
                              /\ batch'[d] = IF d = c THEN in ELSE batch[d]
      BY <1>0, <2>6, <2>8
    <2>11. Warming'
      <3>1. at # "warm" => in = Nothing
        BY <2>5 DEF at
      <3> QED
        BY <1>0, <2>9, <2>10, <3>1 DEF Warming
    <2>12. ASSUME ~clobbered' PROVE Current(c)'
      <3> DEFINE s == view[c].shown
      <3>1. /\ Follows(win, view[c].cursor, s) /\ DOMAIN q.reply.updated \subseteq DOMAIN s
            /\ Follows(win, q.reply.cursor, Shown(q.reply, s)) /\ view[c].cursor <= q.reply.cursor
        BY <2>6, <2>12 DEF CInv, Current, q
      <3>2. /\ DOMAIN Shown(reply, s) = DOMAIN Shown(q.reply, s)
            /\ \A u \in DOMAIN Shown(q.reply, s) : Shown(reply, s)[u] = Shown(q.reply, s)[u]
        BY <2>4, <2>7 DEF Shown, old
      <3>3. Follows(win, reply.cursor, Shown(reply, s))
        BY <2>7, <3>1, <3>2, FollowsSame
      <3>4. req'[c].reply = reply /\ view'[c] = view[c] /\ win' = win
        BY <2>6, <2>9, <2>10
      <3> QED
        BY <2>7, <3>1, <3>3, <3>4 DEF Current
    <2> QED
      BY <1>0, <2>6, <2>10, <2>11, <2>12, CurrentSteps
  <1>7. CASE Receive(c)
    <2> DEFINE r == req[c].reply
               s == Shown(r, view[c].shown)
               v == [cursor |-> r.cursor, shown |-> s]
    <2>1. /\ view' = [view EXCEPT ![c] = v] /\ req' = [req EXCEPT ![c] = IdleReq]
          /\ UNCHANGED <<imap, win, mem, batch, clobbered>> /\ req[c].at = "reply"
      BY <1>7 DEF Receive, Shown
    <2> HIDE DEF s
    <2>2. \A d \in Clients : /\ req'[d] = IF d = c THEN IdleReq ELSE req[d]
                             /\ view'[d] = IF d = c THEN v ELSE view[d]
      BY <1>0, <2>1
    <2>3. Warming'
      BY <1>0, <2>1, <2>2 DEF Warming
    <2>4. ASSUME ~clobbered' PROVE Current(c)'
      <3>1. Follows(win, r.cursor, s)
        BY <2>1, <2>4 DEF CInv, Current, s
      <3>2. /\ view'[c].cursor = r.cursor /\ view'[c].shown = s /\ req'[c].at = "idle"
            /\ DOMAIN req'[c].reply.updated = {} /\ win' = win
        BY <2>1, <2>2, RestingIs
      <3> QED
        BY <3>1, <3>2 DEF Current
    <2> QED
      BY <1>0, <2>1, <2>2, <2>3, <2>4, CurrentSteps
  <1> QED
    BY <1>3, <1>4, <1>5, <1>6, <1>7 DEF Poll

LEMMA CInvNext == TInv /\ CInv /\ [Next]_vars => CInv'
  <1> SUFFICES ASSUME TInv, CInv, [Next]_vars PROVE CInv'
    OBVIOUS
  <1>0. /\ req \in [Clients -> Request] /\ batch \in [Actors -> Maps(Fetched)] /\ win \in Window
        /\ Warming /\ Grown(win, win) /\ Clients \subseteq Actors /\ cast.actors \subseteq Actors
        /\ "loader" \in Actors /\ "poller" \in Actors
        /\ "loader" \notin Clients /\ "poller" \notin Clients
    BY TypesAre, GrownSelf, ConstantsAssumption DEF CInv
  <1>1. ASSUME UNCHANGED <<win, req, view, clobbered>>, \A c \in Clients : batch'[c] = batch[c]
        PROVE  CInv'
    <2>1. Warming'
      BY <1>0, <1>1 DEF Warming
    <2> QED
      BY <1>0, <1>1, <2>1, CurrentSteps
  <1>2. CASE Mailbox
    BY <1>1, <1>2 DEF Mailbox, Deliver, Flag, Leave
  <1>3. CASE ListUnreadInbox \/ \E limit \in cast.limits : ListUnreadMessages(limit)
    <2>1. /\ UNCHANGED <<win, req, view, clobbered>>
          /\ \E a \in {"poller", "loader"} : \E b : batch' = [batch EXCEPT ![a] = b]
      BY <1>3 DEF ListUnreadInbox, ListUnreadMessages
    <2> QED
      BY <1>0, <1>1, <2>1
  <1>4. ASSUME NEW a \in Actors, Warm(a) PROVE CInv'
    <2>1. CASE Refresh(a)
      BY <1>1, <2>1 DEF Refresh
    <2>2. ASSUME Upserted(a), batch[a] # Nothing, win' \in Window,
                 ~clobbered' => ~clobbered /\ Grown(win, win')
          PROVE  CInv'
      <3>1. /\ view' = view /\ \A b \in Actors : batch'[b] = IF b = a THEN Nothing ELSE batch[b]
            /\ \A c \in Clients :
                  \/ req'[c] = req[c]
                  \/ c = a /\ req'[c].at = "reply" /\ req'[c].reply = req[c].reply
        BY <1>0, <2>2, UpsertEnds
      <3>2. a \in Clients => req[a].at = "warm"
        BY <1>0, <2>2 DEF Warming
      <3>3. Warming'
        BY <1>0, <3>1 DEF Warming
      <3> QED
        BY <2>2, <3>1, <3>2, <3>3, CurrentSteps
    <2>3. CASE Upsert(a)
      <3>1. /\ win' \in Window /\ Grown(mem[ProcessOf(a)].win, win')
        BY <2>3, Upserts
      <3>2. Upserted(a) /\ batch[a] # Nothing
            /\ (~clobbered' => ~clobbered /\ win = mem[ProcessOf(a)].win)
        BY <2>3 DEF Upsert, Written
      <3> QED
        BY <2>2, <3>1, <3>2
    <2>4. CASE UpsertFails(a)
      BY <1>0, <2>2, <2>4 DEF UpsertFails
    <2> QED
      BY <1>4, <2>1, <2>3, <2>4 DEF Warm
  <1>5. CASE UNCHANGED vars
    BY <1>1, <1>5 DEF vars
  <1>6. CASE Next
    BY <1>0, <1>2, <1>3, <1>4, <1>6, PollCurrent DEF Next
  <1> QED
    BY <1>5, <1>6

LEMMA CurrentInvariant == Spec => []CInv
  <1>1. Init => CInv
    <2> SUFFICES ASSUME Init PROVE CInv
      OBVIOUS
    <2>1. win = NoWindow /\ win.seq = 0 /\ DOMAIN win.entries = {}
      BY RestingIs DEF Init
    <2>2. \A c \in Clients : /\ view[c].cursor = 0 /\ req[c].at = "idle"
                             /\ DOMAIN req[c].reply.updated = {}
      BY RestingIs DEF Init
    <2>3. \A c \in Clients : Follows(win, view[c].cursor, view[c].shown)
      BY <2>1, <2>2 DEF Follows
    <2>4. Warming
      BY DEF Init, Warming, Actors
    <2> QED
      BY <2>1, <2>2, <2>3, <2>4 DEF CInv, Stamped, Current
  <1> QED
    BY <1>1, CInvNext, TypesInvariant, PTL DEF Spec

\* For any number of clients and messages, any limits and any maxWindowEntries: until one
\* process writes over the other, no entry of the window is kept from a client for good.
THEOREM NothingMissedAlways == Spec => []NothingMissed
  <1>1. CInv => NothingMissed
    BY DEF CInv, Current, Follows, NothingMissed
  <1> QED
    BY <1>1, CurrentInvariant, PTL

\* For any number of clients and messages, any limits and any maxWindowEntries: until one
\* process writes over the other, a message is reported as updated only to a client that
\* shows it.
THEOREM UpdatedIsShownAlways == Spec => []UpdatedIsShown
  <1>1. CInv => UpdatedIsShown
    BY DEF CInv, Current, UpdatedIsShown
  <1> QED
    BY <1>1, CurrentInvariant, PTL

\* A step of a client in CInv leaves its cursor or takes it forward.
LEMMA CursorMoves ==
    ASSUME TInv, CInv, [Next]_vars, ~clobbered', NEW c \in Clients
    PROVE  view'[c].cursor >= view[c].cursor
  <1>1. view[c].cursor \in Nat /\ req[c].reply.cursor \in Nat
    BY CursorsAre
  <1>2. CASE view' = view
    BY <1>1, <1>2
  <1>3. ASSUME NEW d \in Clients, Receive(d)
        PROVE  view'[c].cursor >= view[c].cursor
    <2>1. CASE d = c
      <3>1. view \in [Clients -> View] /\ req[c].at = "reply" /\ ~clobbered
        BY <1>3, <2>1, TypesAre DEF Receive
      <3>2. view'[c].cursor = req[c].reply.cursor
        BY <1>3, <2>1, <3>1 DEF Receive
      <3> QED
        BY <1>1, <3>1, <3>2 DEF CInv, Current
    <2>2. CASE d # c
      <3>1. view'[c] = view[c]
        BY <1>3, <2>2, TypesAre DEF Receive
      <3> QED
        BY <1>1, <3>1
    <2> QED
      BY <2>1, <2>2
  <1>4. \/ view' = view
        \/ \E d \in Clients : Receive(d)
    <2>1. ASSUME NEW d \in Clients, Poll(d) PROVE view' = view \/ Receive(d)
      BY <2>1 DEF Poll, ListOverviews, Sync, SyncFails, GetMessageBodies, BodiesFail, Lose
    <2>2. ASSUME NEW a \in Actors, Warm(a) PROVE view' = view
      BY <2>2 DEF Warm, Refresh, Upsert, UpsertFails, Upserted
    <2>3. CASE Mailbox
      BY <2>3 DEF Mailbox, Deliver, Flag, Leave
    <2>4. CASE ListUnreadInbox \/ \E limit \in cast.limits : ListUnreadMessages(limit)
      BY <2>4 DEF ListUnreadInbox, ListUnreadMessages
    <2>5. CASE UNCHANGED vars
      BY <2>5 DEF vars
    <2>6. Clients \subseteq Actors /\ cast.actors \subseteq Actors
      BY TypesAre
    <2> QED
      BY <2>1, <2>2, <2>3, <2>4, <2>5, <2>6 DEF Next
  <1> QED
    BY <1>2, <1>3, <1>4

\* For any number of clients and messages: until one process writes over the other, no
\* client's cursor goes back, so that none is sent again what it has taken in.
THEOREM CursorForward ==
    Spec => [][~clobbered' => \A c \in Clients : view'[c].cursor >= view[c].cursor]_vars
  <1>1. TInv /\ CInv /\ [Next]_vars =>
           (~clobbered' => \A c \in Clients : view'[c].cursor >= view[c].cursor)
    BY CursorMoves
  <1> QED
    BY <1>1, TypesInvariant, CurrentInvariant, PTL DEF Spec
=============================================================================
