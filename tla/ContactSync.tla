----------------------------- MODULE ContactSync -----------------------------
(***************************************************************************)
(* A user's address book (internal/contacts/store.go) and the replicas     *)
(* that follow it through /api/contacts/sync (handleContactsSync).  Every  *)
(* write stamps the contacts it changes with the next revisions; a deleted *)
(* contact stays behind as a tombstone until GC purges it; a client asks   *)
(* for what changed after its cursor.  Only the API process opens the      *)
(* store, one Store per user, whose operations are atomic under its mutex  *)
(* and write the file by renaming, so that each is one step here.          *)
(*                                                                         *)
(* The content of a contact is told apart by its revision alone.           *)
(***************************************************************************)
EXTENDS Integers, FiniteSets

CONSTANTS
    UID,      \* contact UIDs, of the server or made up by a client
    Clients,  \* paired devices
    MaxSeq    \* bound: revisions the store hands out

ASSUME ConstantsAssumption == IsFiniteSet(UID) /\ MaxSeq \in Nat

VARIABLES
    rev,      \* revision of each contact in the store, 0 for one it does not hold
    tombs,    \* its tombstones
    selfs,    \* contacts with IsSelf
    seq,      \* the last revision handed out
    gcHigh,   \* gcHighWaterRev
    phase,    \* where each client's request is
    reply,    \* the response on its way to each client
    view,     \* each client's address book: the revision it holds, 0 for none
    cursor    \* each client's cursor

book    == <<rev, tombs, selfs, seq, gcHigh>>
clients == <<phase, reply, view, cursor>>
vars    == <<book, clients>>

Known == {u \in UID : rev[u] > 0}
Live  == Known \ tombs

\* What a replica should hold.
AddressBook == [u \in UID |-> IF u \in tombs THEN 0 ELSE rev[u]]

Nothing == [u \in UID |-> 0]
NoReply == [tooOld |-> FALSE, changed |-> Nothing, deleted |-> {}, cursor |-> 0]

Init ==
    /\ rev = Nothing /\ tombs = {} /\ selfs = {}
    /\ seq = 0 /\ gcHigh = 0
    /\ phase = [c \in Clients |-> "idle"]
    /\ reply = [c \in Clients |-> NoReply]
    /\ view = [c \in Clients |-> Nothing]
    /\ cursor = [c \in Clients |-> 0]
-----------------------------------------------------------------------------
(***************************************************************************)
(* The store.                                                              *)
(***************************************************************************)
\* Mutant of Restamp: the counter does not move.
RestampStill(S) ==
    /\ seq < MaxSeq
    /\ rev' = [u \in UID |-> IF u \in S THEN seq + 1 ELSE rev[u]]
    /\ UNCHANGED seq

\* The contacts of S get the next revisions, in some order.
Restamp(S) ==
    /\ seq' = seq + Cardinality(S)
    /\ seq' <= MaxSeq
    /\ \E stamp \in [S -> (seq + 1) .. seq'] :
          /\ \A u, v \in S : stamp[u] = stamp[v] => u = v
          /\ rev' = [u \in UID |-> IF u \in S THEN stamp[u] ELSE rev[u]]

\* POST, PUT, CardDAV PUT and a change a client pushes: a known contact keeps
\* its IsSelf, a tombstone comes back.
Upsert(u) ==
    /\ Restamp({u})
    /\ tombs' = tombs \ {u}
    /\ UNCHANGED <<selfs, gcHigh>>

\* A tombstone is tombstoned again.
Delete(u) ==
    /\ u \in Known
    /\ Restamp({u})
    /\ tombs' = tombs \cup {u}
    /\ selfs' = selfs \ {u}
    /\ UNCHANGED gcHigh

\* Mutant of SetSelf: the former holder keeps the flag.
SetSelfToo(u, on) ==
    /\ u \in Known
    /\ (u \in selfs) # on
    /\ Restamp({u})
    /\ selfs' = IF on THEN selfs \cup {u} ELSE selfs \ {u}
    /\ UNCHANGED <<tombs, gcHigh>>

\* Whoever's flag flips is stamped; a tombstone may be marked, too.
SetSelf(u, on) ==
    LET others  == IF on THEN selfs \ {u} ELSE {}
        flipped == others \cup (IF (u \in selfs) # on THEN {u} ELSE {})
    IN  /\ u \in Known
        /\ flipped # {}
        /\ Restamp(flipped)
        /\ selfs' = IF on THEN {u} ELSE selfs \ {u}
        /\ UNCHANGED <<tombs, gcHigh>>

\* Each group of duplicates has one survivor and at least one loser, which
\* becomes a tombstone.  Which contacts are duplicates is left open.
Dedupe(survivors, losers) ==
    /\ survivors # {}
    /\ survivors \cap losers = {}
    /\ Cardinality(survivors) <= Cardinality(losers)
    /\ Restamp(survivors \cup losers)
    /\ tombs' = tombs \cup losers
    /\ selfs' = selfs \ losers
    /\ UNCHANGED gcHigh

\* Mutant of GC: the watermark stays where it was.
GCUnmarked(purged) ==
    /\ purged # {}
    /\ rev' = [u \in UID |-> IF u \in purged THEN 0 ELSE rev[u]]
    /\ tombs' = tombs \ purged
    /\ selfs' = selfs \ purged
    /\ UNCHANGED <<seq, gcHigh>>

\* Any tombstones may be the ones past their retention.
GC(purged) ==
    /\ purged # {}
    /\ rev' = [u \in UID |-> IF u \in purged THEN 0 ELSE rev[u]]
    /\ tombs' = tombs \ purged
    /\ selfs' = selfs \ purged
    /\ gcHigh' \in {gcHigh} \cup {rev[u] : u \in purged}
    /\ \A r \in {gcHigh} \cup {rev[u] : u \in purged} : r <= gcHigh'
    /\ UNCHANGED seq

\* Mutant of TooOld: a request for a full snapshot is refused, too.
TooOldEvenFull(since) == since < gcHigh

TooOld(since) == since > 0 /\ since < gcHigh

ChangedSince(since) ==
    LET news == {u \in Known : rev[u] > since}
    IN  IF TooOld(since) THEN [NoReply EXCEPT !.tooOld = TRUE, !.cursor = seq]
        ELSE [tooOld  |-> FALSE,
              changed |-> [u \in UID |-> IF u \in news \ tombs THEN rev[u] ELSE 0],
              deleted |-> news \cap tombs,
              cursor  |-> seq]
-----------------------------------------------------------------------------
(***************************************************************************)
(* The clients.  A GET is answered at once; the changes of a POST are      *)
(* applied one by one, others' writes between them, before the same answer *)
(* is given.                                                               *)
(***************************************************************************)
Push(c, u) ==
    /\ phase[c] \in {"idle", "pushing"}
    /\ Upsert(u) \/ Delete(u)
    /\ phase' = [phase EXCEPT ![c] = "pushing"]
    /\ UNCHANGED <<reply, view, cursor>>

\* A change cannot be applied, or the connection breaks.
PushFails(c) ==
    /\ phase[c] = "pushing"
    /\ phase' = [phase EXCEPT ![c] = "idle"]
    /\ UNCHANGED <<book, reply, view, cursor>>

Respond(c) ==
    /\ phase[c] \in {"idle", "pushing"}
    /\ phase' = [phase EXCEPT ![c] = "reply"]
    /\ reply' = [reply EXCEPT ![c] = ChangedSince(cursor[c])]
    /\ UNCHANGED <<book, view, cursor>>

\* The response is lost on its way; the client asks again.
Lose(c) ==
    /\ phase[c] = "reply"
    /\ phase' = [phase EXCEPT ![c] = "idle"]
    /\ reply' = [reply EXCEPT ![c] = NoReply]
    /\ UNCHANGED <<book, view, cursor>>

\* The view a response that is not too old leads to.
Merged(v, r) ==
    [u \in UID |-> IF r.changed[u] > 0 THEN r.changed[u]
                   ELSE IF u \in r.deleted THEN 0 ELSE v[u]]

\* Told that its cursor is too old, the client starts over from nothing.
Receive(c) ==
    /\ phase[c] = "reply"
    /\ phase' = [phase EXCEPT ![c] = "idle"]
    /\ reply' = [reply EXCEPT ![c] = NoReply]
    /\ IF reply[c].tooOld
       THEN /\ view' = [view EXCEPT ![c] = Nothing]
            /\ cursor' = [cursor EXCEPT ![c] = 0]
       ELSE /\ view' = [view EXCEPT ![c] = Merged(@, reply[c])]
            /\ cursor' = [cursor EXCEPT ![c] = reply[c].cursor]
    /\ UNCHANGED book
-----------------------------------------------------------------------------
Store ==
    \/ \E u \in UID : Upsert(u) \/ Delete(u)
    \/ \E u \in UID, on \in BOOLEAN : SetSelf(u, on)
    \/ \E survivors, losers \in SUBSET Live : Dedupe(survivors, losers)
    \/ \E purged \in SUBSET tombs : GC(purged)

Next ==
    \/ Store /\ UNCHANGED clients
    \/ \E c \in Clients :
          \/ \E u \in UID : Push(c, u)
          \/ PushFails(c)
          \/ Respond(c)
          \/ Lose(c)
          \/ Receive(c)

\* A client keeps asking, and not every response to it is lost.
Fairness == \A c \in Clients : WF_vars(Respond(c)) /\ SF_vars(Receive(c))

Spec == Init /\ [][Next]_vars /\ Fairness
-----------------------------------------------------------------------------
Replies ==
    [tooOld : BOOLEAN, changed : [UID -> Nat], deleted : SUBSET UID, cursor : Nat]

\* Every variable keeps its type, and tombstones and the self contact are
\* contacts the store holds.
TypeOK ==
    /\ rev \in [UID -> 0 .. seq]
    /\ seq \in 0 .. MaxSeq /\ gcHigh \in 0 .. seq
    /\ tombs \subseteq Known /\ selfs \subseteq Known
    /\ phase \in [Clients -> {"idle", "pushing", "reply"}]
    /\ reply \in [Clients -> Replies]
    /\ view \in [Clients -> [UID -> Nat]]
    /\ cursor \in [Clients -> 0 .. seq]

\* A client that has reached the last revision holds the address book as it is,
\* down to the deletions, whatever was purged or lost in between: ChangedSince
\* sends what a cursor is missing or calls the cursor too old.
UpToDate == \A c \in Clients : cursor[c] = seq => view[c] = AddressBook

\* SetSelf keeps at most one contact marked, tombstones included, although
\* Upsert carries the mark over and Dedupe merges contacts that have it.
OneSelf == \A u, v \in selfs : u = v

\* No two contacts share a revision: it stands for the content in the ETag.
RevsDistinct == \A u, v \in Known : rev[u] = rev[v] => u = v

\* Once nobody changes the address book any more, every client comes to hold it.
Converges == <>[](\A c \in Clients : view[c] = AddressBook)
=============================================================================
