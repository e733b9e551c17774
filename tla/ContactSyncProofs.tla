-------------------------- MODULE ContactSyncProofs --------------------------
(***************************************************************************)
(* Proofs about ContactSync.  UpToDate alone is not inductive: it says     *)
(* nothing of a client that lags behind, nor of a response on its way.     *)
(* Agrees says what a view that was current at revision k still has in     *)
(* common with the store; every write keeps it, because it stamps what it  *)
(* changes (Moves), and a response that is not too old carries a view from *)
(* one k to the last.                                                      *)
(***************************************************************************)
EXTENDS ContactSync, FiniteSetTheorems, TLAPS

\* What v, the view of a client whose cursor is k, knows of the store.
Agrees(v, k) ==
    \A u \in UID :
        /\ v[u] <= k
        /\ rev[u] > 0 /\ rev[u] <= k => v[u] = AddressBook[u]
        /\ v[u] > 0 /\ rev[u] = 0 => k < gcHigh

Views ==
    \A c \in Clients :
        /\ Agrees(view[c], cursor[c])
        /\ phase[c] = "reply" /\ ~reply[c].tooOld =>
              /\ reply[c].cursor <= seq
              /\ Agrees(Merged(view[c], reply[c]), reply[c].cursor)

IInv == TypeOK /\ Views

\* What a write of the store does to a contact: nothing, or it stamps it, or it
\* purges its tombstone and moves the watermark past it.
Moves ==
    /\ seq <= seq' /\ gcHigh <= gcHigh'
    /\ \A u \in UID :
          \/ rev'[u] = rev[u] /\ (u \in tombs' <=> u \in tombs)
          \/ rev'[u] > seq
          \/ rev'[u] = 0 /\ u \in tombs /\ rev[u] > 0 /\ rev[u] <= gcHigh'

BookTypes ==
    /\ rev \in [UID -> 0 .. seq]
    /\ seq \in 0 .. MaxSeq /\ gcHigh \in 0 .. seq
    /\ tombs \subseteq Known /\ selfs \subseteq Known

\* Restamp gives the contacts of S revisions nobody has had.
LEMMA RestampFacts ==
    ASSUME BookTypes
    PROVE  \A S \in SUBSET UID : Restamp(S) =>
              /\ seq' \in 0 .. MaxSeq /\ seq <= seq'
              /\ rev' \in [UID -> 0 .. seq']
              /\ \A u \in S : rev'[u] > seq
              /\ \A u, v \in S : rev'[u] = rev'[v] => u = v
              /\ \A u \in UID \ S : rev'[u] = rev[u]
  <1> SUFFICES ASSUME NEW S \in SUBSET UID, Restamp(S)
               PROVE  /\ seq' \in 0 .. MaxSeq /\ seq <= seq'
                      /\ rev' \in [UID -> 0 .. seq']
                      /\ \A u \in S : rev'[u] > seq
                      /\ \A u, v \in S : rev'[u] = rev'[v] => u = v
                      /\ \A u \in UID \ S : rev'[u] = rev[u]
    OBVIOUS
  <1>1. Cardinality(S) \in Nat
    BY ConstantsAssumption, FS_Subset, FS_CardinalityType
  <1>2. seq' \in 0 .. MaxSeq /\ seq <= seq'
    BY <1>1, ConstantsAssumption DEF Restamp, BookTypes
  <1>3. PICK stamp \in [S -> (seq + 1) .. seq'] :
            /\ \A u, v \in S : stamp[u] = stamp[v] => u = v
            /\ rev' = [u \in UID |-> IF u \in S THEN stamp[u] ELSE rev[u]]
    BY DEF Restamp
  <1>4. \A u \in S : stamp[u] \in (seq + 1) .. seq'
    BY <1>3
  <1>5. seq \in Nat /\ \A u \in UID : rev[u] \in 0 .. seq
    BY DEF BookTypes
  <1>6. \A u \in UID : rev'[u] = IF u \in S THEN stamp[u] ELSE rev[u]
    BY <1>3
  <1>7. rev' \in [UID -> 0 .. seq']
    <2>1. \A u \in UID : rev'[u] \in 0 .. seq'
      BY <1>2, <1>4, <1>5, <1>6
    <2> QED
      BY <1>3, <2>1
  <1> QED
    BY <1>2, <1>3, <1>4, <1>5, <1>6, <1>7

\* Every operation of the store keeps its types and moves its contacts.
LEMMA StoreMoves ==
    ASSUME BookTypes, Store PROVE BookTypes' /\ Moves
  <1> USE DEF BookTypes, Moves, Known
  <1>1. ASSUME NEW u \in UID, Upsert(u) PROVE BookTypes' /\ Moves
    BY <1>1, RestampFacts DEF Upsert
  <1>2. ASSUME NEW u \in UID, Delete(u) PROVE BookTypes' /\ Moves
    BY <1>2, RestampFacts DEF Delete
  <1>3. ASSUME NEW u \in UID, NEW on \in BOOLEAN, SetSelf(u, on)
        PROVE  BookTypes' /\ Moves
    BY <1>3, RestampFacts DEF SetSelf
  <1>4. ASSUME NEW S \in SUBSET Live, NEW L \in SUBSET Live, Dedupe(S, L)
        PROVE  BookTypes' /\ Moves
    BY <1>4, RestampFacts DEF Dedupe, Live
  <1>5. ASSUME NEW purged \in SUBSET tombs, GC(purged) PROVE BookTypes' /\ Moves
    BY <1>5 DEF GC
  <1> QED
    BY <1>1, <1>2, <1>3, <1>4, <1>5 DEF Store

\* A write keeps what a view knows.
LEMMA MovesKeepAgrees ==
    ASSUME BookTypes, BookTypes', Moves
    PROVE  \A v \in [UID -> Nat], k \in 0 .. seq : Agrees(v, k) => Agrees(v, k)'
  BY DEF BookTypes, Moves, Agrees, AddressBook, Known

\* A response that is not too old brings a view up to the last revision.
LEMMA ResponseAgrees ==
    ASSUME BookTypes,
           NEW v \in [UID -> Nat], NEW k \in 0 .. seq, Agrees(v, k), ~TooOld(k)
    PROVE  /\ ChangedSince(k) \in Replies
           /\ ~ChangedSince(k).tooOld
           /\ ChangedSince(k).cursor = seq
           /\ Agrees(Merged(v, ChangedSince(k)), seq)
  BY DEF BookTypes, Agrees, AddressBook, Known, TooOld, ChangedSince, Merged, Replies

LEMMA InitInvariant == Init => IInv
  BY ConstantsAssumption
     DEF Init, IInv, TypeOK, Views, Agrees, Known, Nothing, NoReply, Replies

\* What a step must keep of one client's view when it leaves the client alone.
LEMMA StoreInvariant ==
    ASSUME IInv, Store, UNCHANGED <<reply, view, cursor>>,
           phase' \in [Clients -> {"idle", "pushing", "reply"}],
           \A c \in Clients : phase'[c] = "reply" => phase[c] = "reply"
    PROVE  IInv'
  <1>1. BookTypes
    BY DEF IInv, TypeOK, BookTypes
  <1>2. BookTypes' /\ Moves
    BY <1>1, StoreMoves
  <1>3. \A v \in [UID -> Nat], k \in 0 .. seq : Agrees(v, k) => Agrees(v, k)'
    BY <1>1, <1>2, MovesKeepAgrees
  <1>4. TypeOK'
    <2>1. cursor' \in [Clients -> 0 .. seq']
      BY <1>1, <1>2 DEF IInv, TypeOK, BookTypes, Moves
    <2> QED
      BY <1>2, <2>1 DEF IInv, TypeOK, BookTypes
  <1>5. ASSUME NEW c \in Clients PROVE Agrees(view[c], cursor[c])'
    <2>1. view[c] \in [UID -> Nat] /\ cursor[c] \in 0 .. seq
      BY DEF IInv, TypeOK
    <2>2. Agrees(view[c], cursor[c])
      BY DEF IInv, Views
    <2>3. \A w \in [UID -> Nat], j \in 0 .. seq :
              w = view'[c] /\ j = cursor'[c] /\ Agrees(w, j)'
              => Agrees(view[c], cursor[c])'
      BY DEF Agrees
    <2> QED
      BY <1>3, <2>1, <2>2, <2>3
  <1>6. ASSUME NEW c \in Clients, phase'[c] = "reply", ~reply'[c].tooOld
        PROVE  /\ reply'[c].cursor <= seq'
               /\ Agrees(Merged(view[c], reply[c]), reply[c].cursor)'
    <2>1. phase[c] = "reply" /\ ~reply[c].tooOld
      BY <1>6
    <2>2. /\ reply[c] \in Replies /\ view[c] \in [UID -> Nat]
          /\ reply[c].cursor <= seq
          /\ Agrees(Merged(view[c], reply[c]), reply[c].cursor)
      BY <2>1 DEF IInv, TypeOK, Views
    <2>3. /\ Merged(view[c], reply[c]) \in [UID -> Nat]
          /\ reply[c].cursor \in 0 .. seq
      BY <1>1, <2>2 DEF Merged, Replies, BookTypes
    <2>4. \A w \in [UID -> Nat], j \in 0 .. seq :
              w = Merged(view'[c], reply'[c]) /\ j = reply'[c].cursor /\ Agrees(w, j)'
              => Agrees(Merged(view[c], reply[c]), reply[c].cursor)'
      BY DEF Agrees, Merged
    <2>5. Merged(view'[c], reply'[c]) = Merged(view[c], reply[c])
      OBVIOUS
    <2> QED
      BY <1>1, <1>2, <1>3, <2>2, <2>3, <2>4, <2>5 DEF BookTypes, Moves
  <1> QED
    BY <1>4, <1>5, <1>6 DEF IInv, Views

\* A client's own steps leave the store alone.
LEMMA ClientInvariant ==
    ASSUME IInv, NEW c \in Clients, PushFails(c) \/ Respond(c) \/ Lose(c) \/ Receive(c)
    PROVE  IInv'
  <1>1. BookTypes
    BY DEF IInv, TypeOK, BookTypes
  <1>2. UNCHANGED book
    BY DEF PushFails, Respond, Lose, Receive
  <1>3. \A v, k : Agrees(v, k)' <=> Agrees(v, k)
    BY <1>2 DEF Agrees, AddressBook, book
  <1>4. /\ view[c] \in [UID -> Nat] /\ cursor[c] \in 0 .. seq
        /\ Agrees(view[c], cursor[c])
    BY DEF IInv, TypeOK, Views
  \* It is enough to look at the client itself.
  <1>5. ASSUME TypeOK',
               Agrees(view'[c], cursor'[c]),
               phase'[c] = "reply" /\ ~reply'[c].tooOld =>
                  /\ reply'[c].cursor <= seq
                  /\ Agrees(Merged(view'[c], reply'[c]), reply'[c].cursor),
               \A d \in Clients \ {c} :
                  /\ phase'[d] = phase[d] /\ reply'[d] = reply[d]
                  /\ view'[d] = view[d] /\ cursor'[d] = cursor[d]
        PROVE  IInv'
    <2>1. ASSUME NEW d \in Clients
          PROVE  /\ Agrees(view'[d], cursor'[d])
                 /\ phase'[d] = "reply" /\ ~reply'[d].tooOld =>
                      /\ reply'[d].cursor <= seq
                      /\ Agrees(Merged(view'[d], reply'[d]), reply'[d].cursor)
      <3>1. CASE d = c
        BY <1>5, <3>1
      <3>2. CASE d # c
        BY <1>5, <3>2 DEF IInv, Views
      <3> QED
        BY <3>1, <3>2
    <2>2. seq' = seq
      BY <1>2 DEF book
    <2>3. \A v, r : Merged(v, r)' = Merged(v, r)
      BY DEF Merged
    <2>4. Views'
      BY <1>3, <2>1, <2>2, <2>3 DEF Views, Agrees, Merged
    <2> QED
      BY <1>5, <2>4 DEF IInv
  <1>6. CASE PushFails(c)
    <2>1. TypeOK'
      BY <1>6 DEF IInv, TypeOK, PushFails, book, Known
    <2> QED
      BY <1>4, <1>5, <1>6, <2>1 DEF IInv, TypeOK, PushFails
  <1>7. CASE Lose(c)
    <2>1. NoReply \in Replies
      BY DEF NoReply, Replies, Nothing
    <2>2. TypeOK'
      BY <1>7, <2>1 DEF IInv, TypeOK, Lose, book, Known
    <2> QED
      BY <1>4, <1>5, <1>7, <2>2 DEF IInv, TypeOK, Lose
  <1>8. CASE Respond(c)
    <2>1. ChangedSince(cursor[c]) \in Replies
      <3>1. CASE TooOld(cursor[c])
        <4>1. ChangedSince(cursor[c]) =
                [tooOld |-> TRUE, changed |-> Nothing, deleted |-> {}, cursor |-> seq]
          BY <3>1 DEF ChangedSince, NoReply
        <4>2. Nothing \in [UID -> Nat] /\ seq \in Nat
          BY <1>1 DEF Nothing, BookTypes
        <4> QED
          BY <4>1, <4>2 DEF Replies
      <3>2. CASE ~TooOld(cursor[c])
        BY <1>1, <1>4, <3>2, ResponseAgrees
      <3> QED
        BY <3>1, <3>2
    <2>2. TypeOK'
      BY <1>8, <2>1 DEF IInv, TypeOK, Respond, book, Known
    <2>3. reply'[c] = ChangedSince(cursor[c])
      BY <1>8 DEF IInv, TypeOK, Respond
    <2>4. CASE TooOld(cursor[c])
      <3>1. reply'[c].tooOld
        BY <2>3, <2>4 DEF ChangedSince, NoReply
      <3> QED
        BY <1>4, <1>5, <1>8, <2>2, <3>1 DEF IInv, TypeOK, Respond
    <2>5. CASE ~TooOld(cursor[c])
      <3>1. /\ reply'[c].cursor = seq
            /\ Agrees(Merged(view[c], reply'[c]), seq)
        BY <1>1, <1>4, <2>3, <2>5, ResponseAgrees
      <3>2. seq <= seq
        BY <1>1 DEF BookTypes
      <3> QED
        BY <1>4, <1>5, <1>8, <2>2, <3>1, <3>2 DEF IInv, TypeOK, Respond
    <2> QED
      BY <2>4, <2>5
  <1>9. CASE Receive(c)
    <2>1. NoReply \in Replies /\ reply[c] \in Replies
      BY DEF IInv, TypeOK, NoReply, Replies, Nothing
    <2>2. phase'[c] = "idle"
      BY <1>9 DEF IInv, TypeOK, Receive
    <2>3. CASE reply[c].tooOld
      <3>1. view'[c] = Nothing /\ cursor'[c] = 0
        BY <1>9, <2>3 DEF IInv, TypeOK, Receive
      <3>2. Agrees(Nothing, 0)
        BY <1>1 DEF Agrees, Nothing, BookTypes
      <3>3. TypeOK'
        <4>1. view' \in [Clients -> [UID -> Nat]]
          BY <1>9, <2>3 DEF IInv, TypeOK, Receive, Nothing
        <4>2. cursor' \in [Clients -> 0 .. seq]
          BY <1>1, <1>9, <2>3 DEF IInv, TypeOK, Receive, BookTypes
        <4> QED
          BY <1>9, <2>1, <4>1, <4>2 DEF IInv, TypeOK, Receive, book, Known
      <3> QED
        BY <1>5, <1>9, <2>2, <3>1, <3>2, <3>3 DEF IInv, TypeOK, Receive
    <2>4. CASE ~reply[c].tooOld
      <3>1. /\ view'[c] = Merged(view[c], reply[c])
            /\ cursor'[c] = reply[c].cursor
        BY <1>9, <2>4 DEF IInv, TypeOK, Receive
      <3>2. /\ reply[c].cursor <= seq
            /\ Agrees(Merged(view[c], reply[c]), reply[c].cursor)
        BY <1>9, <2>4 DEF IInv, Views, Receive
      <3>3. Merged(view[c], reply[c]) \in [UID -> Nat] /\ reply[c].cursor \in 0 .. seq
        BY <1>1, <1>4, <2>1, <3>2 DEF Merged, Replies, BookTypes
      <3>4. TypeOK'
        BY <1>9, <2>1, <2>4, <3>3 DEF IInv, TypeOK, Receive, book, Known
      <3> QED
        BY <1>5, <1>9, <2>2, <3>1, <3>2, <3>4 DEF IInv, TypeOK, Receive
    <2> QED
      BY <2>3, <2>4
  <1> QED
    BY <1>6, <1>7, <1>8, <1>9

LEMMA NextInvariant == IInv /\ [Next]_vars => IInv'
  <1> SUFFICES ASSUME IInv, [Next]_vars PROVE IInv'
    OBVIOUS
  <1>1. phase \in [Clients -> {"idle", "pushing", "reply"}]
    BY DEF IInv, TypeOK
  <1>2. CASE Store /\ UNCHANGED clients
    BY <1>1, <1>2, StoreInvariant DEF clients
  <1>3. ASSUME NEW c \in Clients, NEW u \in UID, Push(c, u) PROVE IInv'
    <2>1. Store
      BY <1>3 DEF Push, Store
    <2>2. /\ phase' \in [Clients -> {"idle", "pushing", "reply"}]
          /\ \A d \in Clients : phase'[d] = "reply" => phase[d] = "reply"
      BY <1>1, <1>3 DEF Push
    <2> QED
      BY <1>3, <2>1, <2>2, StoreInvariant DEF Push
  <1>4. ASSUME NEW c \in Clients, PushFails(c) \/ Respond(c) \/ Lose(c) \/ Receive(c)
        PROVE  IInv'
    BY <1>4, ClientInvariant
  <1>5. CASE UNCHANGED vars
    BY <1>5 DEF vars, book, clients, IInv, TypeOK, Views, Agrees, AddressBook, Known,
                Merged
  <1> QED
    BY <1>2, <1>3, <1>4, <1>5 DEF Next

\* For every set of contacts and of clients: the store's revisions, tombstones and
\* watermark and the clients' cursors keep their types.
THEOREM TypeCorrect == Spec => []TypeOK
  <1>1. IInv => TypeOK
    BY DEF IInv
  <1> QED
    BY <1>1, InitInvariant, NextInvariant, PTL DEF Spec

\* For every set of contacts and of clients: a client whose cursor is the store's
\* last revision holds exactly the store's address book (ChangedSince, GC's
\* watermark and the stamps of every write).
THEOREM UpToDateAlways == Spec => []UpToDate
  <1>1. IInv => UpToDate
    <2> SUFFICES ASSUME IInv, NEW c \in Clients, cursor[c] = seq
                 PROVE  view[c] = AddressBook
      BY DEF UpToDate
    <2>1. /\ Agrees(view[c], seq) /\ view[c] \in [UID -> Nat]
          /\ rev \in [UID -> 0 .. seq] /\ gcHigh \in 0 .. seq /\ seq \in Nat
          /\ tombs \subseteq Known
      BY DEF IInv, TypeOK, Views
    <2>2. \A u \in UID : view[c][u] = AddressBook[u]
      BY <2>1 DEF Agrees, AddressBook, Known
    <2> QED
      BY <2>1, <2>2 DEF AddressBook
  <1> QED
    BY <1>1, InitInvariant, NextInvariant, PTL DEF Spec

LEMMA OneSelfNext == OneSelf /\ [Next]_vars => OneSelf'
  <1> SUFFICES ASSUME OneSelf, [Next]_vars PROVE OneSelf'
    OBVIOUS
  <1>1. ASSUME Store PROVE OneSelf'
    BY <1>1 DEF Store, Upsert, Delete, SetSelf, Dedupe, GC, OneSelf
  <1>2. CASE UNCHANGED book
    BY <1>2 DEF book, OneSelf
  <1> QED
    BY <1>1, <1>2 DEF Next, vars, Push, PushFails, Respond, Lose, Receive, Store

\* At most one contact is marked as the user's own, whatever is written, merged,
\* deleted or brought back (SetSelf, upsertLocked, Dedupe).
THEOREM OneSelfAlways == Spec => []OneSelf
  <1>1. Init => OneSelf
    BY DEF Init, OneSelf
  <1> QED
    BY <1>1, OneSelfNext, PTL DEF Spec

LEMMA RevsDistinctNext == TypeOK /\ RevsDistinct /\ [Next]_vars => RevsDistinct'
  <1> SUFFICES ASSUME TypeOK, RevsDistinct, [Next]_vars PROVE RevsDistinct'
    OBVIOUS
  <1>1. BookTypes
    BY DEF TypeOK, BookTypes
  <1>2. ASSUME NEW S \in SUBSET UID, Restamp(S) PROVE RevsDistinct'
    <2>1. /\ \A u \in S : rev'[u] > seq
          /\ \A u, v \in S : rev'[u] = rev'[v] => u = v
          /\ \A u \in UID \ S : rev'[u] = rev[u] /\ rev[u] \in 0 .. seq
          /\ \A u \in UID : rev'[u] \in Nat
      BY <1>1, <1>2, RestampFacts DEF BookTypes
    <2>2. seq \in Nat
      BY <1>1 DEF BookTypes
    <2> QED
      BY <2>1, <2>2 DEF RevsDistinct, Known
  <1>3. ASSUME Store PROVE RevsDistinct'
    <2>1. ASSUME NEW u \in UID, Upsert(u) \/ Delete(u) PROVE RevsDistinct'
      BY <1>2, <2>1 DEF Upsert, Delete
    <2>2. ASSUME NEW u \in UID, NEW on \in BOOLEAN, SetSelf(u, on)
          PROVE  RevsDistinct'
      <3>1. selfs \subseteq UID
        BY <1>1 DEF BookTypes, Known
      <3> QED
        BY <1>2, <2>2, <3>1 DEF SetSelf
    <2>3. ASSUME NEW A \in SUBSET Live, NEW B \in SUBSET Live, Dedupe(A, B)
          PROVE  RevsDistinct'
      <3>1. A \cup B \in SUBSET UID
        BY DEF Live, Known
      <3> QED
        BY <1>2, <2>3, <3>1 DEF Dedupe
    <2>4. ASSUME NEW purged \in SUBSET tombs, GC(purged) PROVE RevsDistinct'
      BY <2>4 DEF GC, RevsDistinct, Known
    <2> QED
      BY <1>3, <2>1, <2>2, <2>3, <2>4 DEF Store
  <1>4. CASE UNCHANGED book
    BY <1>4 DEF book, RevsDistinct, Known
  <1> QED
    BY <1>3, <1>4 DEF Next, vars, Push, PushFails, Respond, Lose, Receive, Store

\* Two contacts of the store never have the same revision, and so never the same
\* ETag (Contact.ETag, the stamps of every write).
THEOREM RevsDistinctAlways == Spec => []RevsDistinct
  <1>1. Init => RevsDistinct
    BY DEF Init, RevsDistinct, Known, Nothing
  <1>2. IInv => TypeOK
    BY DEF IInv
  <1> QED
    BY <1>1, <1>2, InitInvariant, NextInvariant, RevsDistinctNext, PTL DEF Spec

\* A write changes a contact, its tombstone or its IsSelf only with a revision that
\* nobody has had, or purges a tombstone and moves the watermark past it.
Stamped ==
    /\ seq <= seq' /\ gcHigh <= gcHigh'
    /\ \A u \in UID :
          \/ rev'[u] = rev[u] /\ (u \in tombs' <=> u \in tombs) /\ (u \in selfs' <=> u \in selfs)
          \/ rev'[u] > seq
          \/ rev'[u] = 0 /\ u \in tombs /\ rev[u] > 0 /\ rev[u] <= gcHigh'

LEMMA StoreStamps ==
    ASSUME BookTypes, Store PROVE Stamped
  <1>0. BookTypes' /\ Moves
    BY StoreMoves
  <1>1. ASSUME NEW v \in UID, ~(v \in selfs' <=> v \in selfs)
        PROVE  rev'[v] > seq \/ (rev'[v] = 0 /\ v \in tombs /\ rev[v] > 0 /\ rev[v] <= gcHigh')
    <2>1. ASSUME NEW u \in UID, Upsert(u) PROVE FALSE
      BY <1>1, <2>1 DEF Upsert
    <2>2. ASSUME NEW u \in UID, Delete(u) PROVE rev'[v] > seq
      BY <1>1, <2>2, RestampFacts DEF Delete
    <2>3. ASSUME NEW u \in UID, NEW on \in BOOLEAN, SetSelf(u, on) PROVE rev'[v] > seq
      <3> DEFINE flipped == (IF on THEN selfs \ {u} ELSE {})
                              \cup (IF (u \in selfs) # on THEN {u} ELSE {})
      <3>1. Restamp(flipped) /\ selfs' = IF on THEN {u} ELSE selfs \ {u}
        BY <2>3 DEF SetSelf
      <3>2. flipped \in SUBSET UID /\ v \in flipped
        BY <1>1, <3>1 DEF BookTypes, Known
      <3> HIDE DEF flipped
      <3> QED
        BY <3>1, <3>2, RestampFacts
    <2>4. ASSUME NEW survivors \in SUBSET Live, NEW losers \in SUBSET Live,
                 Dedupe(survivors, losers)
          PROVE  rev'[v] > seq
      <3>1. Restamp(survivors \cup losers) /\ selfs' = selfs \ losers
        BY <2>4 DEF Dedupe
      <3>2. survivors \cup losers \in SUBSET UID /\ v \in losers
        BY <1>1, <3>1 DEF Live, Known
      <3> QED
        BY <3>1, <3>2, RestampFacts
    <2>5. ASSUME NEW purged \in SUBSET tombs, GC(purged)
          PROVE  rev'[v] = 0 /\ v \in tombs /\ rev[v] > 0 /\ rev[v] <= gcHigh'
      BY <1>1, <2>5 DEF GC, BookTypes, Known
    <2> QED
      BY <2>1, <2>2, <2>3, <2>4, <2>5 DEF Store
  <1> QED
    BY <1>0, <1>1 DEF Moves, Stamped

\* No silent change: whatever two writers, a purge and the clients do, a contact never
\* differs from before without a newer revision or a watermark above its old one.
THEOREM NoSilentChange == Spec => [][Stamped]_vars
  <1>1. IInv /\ [Next]_vars => Stamped \/ UNCHANGED vars
    <2> SUFFICES ASSUME IInv, Next
                 PROVE  Stamped \/ UNCHANGED vars
      OBVIOUS
    <2>1. BookTypes
      BY DEF IInv, TypeOK, BookTypes
    <2>2. CASE Store
      BY <2>1, <2>2, StoreStamps
    <2>3. CASE UNCHANGED book
      BY <2>1, <2>3 DEF book, Stamped, BookTypes
    <2> QED
      BY <2>2, <2>3 DEF Next, Push, PushFails, Respond, Lose, Receive, Store
  <1> QED
    BY <1>1, InitInvariant, NextInvariant, PTL DEF Spec
=============================================================================
