------------------------------- MODULE MailCache -------------------------------
(***************************************************************************)
(* The mail cache of one mailbox (internal/mailcache) and who works on it: *)
(* the delta polls and the classic loads of GET /api/inbox in the API      *)
(* process, and the poller of the daemon.  Each process has a Store of its *)
(* own over mailcache.json, with a mutex of its own: an operation reads    *)
(* the file again (Refresh) and replaces it when it is done (Sync or       *)
(* Upsert).                                                                *)
(*                                                                         *)
(* A message's metadata is its \Seen flag; a change of labels or headers   *)
(* is told apart the same way.  A body is there or not, and carries the    *)
(* attachment and PGP fields with it.                                      *)
(***************************************************************************)
EXTENDS Integers, FiniteSets

CONSTANTS
    Clients,     \* who polls for deltas, one request at a time each
    Limits,      \* the limits handleInbox lets through
    Casts,       \* bound: who takes part in a run, and with which limits
    Cap,         \* maxWindowEntries
    Bodiless,    \* messages whose text stays empty: nobody can decrypt them
    MaxUID,      \* bound: messages delivered
    MaxChanges,  \* bound: changes of the mailbox, deliveries included
    MaxSeq       \* bound: the window's sequence number

ASSUME ConstantsAssumption ==
    /\ Cap \in Nat \ {0} /\ Limits \subseteq 1 .. Cap
    /\ MaxUID \in Nat /\ MaxChanges \in Nat /\ MaxSeq \in Nat
    /\ {"poller", "loader"} \cap Clients = {}
    /\ Casts \subseteq [actors : SUBSET (Clients \cup {"poller", "loader"}),
                        limits : SUBSET Limits]

VARIABLES
    cast,      \* the member of Casts this run is about
    box,       \* the mailbox on the IMAP server: the flag of each UID in it
    delivered, \* messages delivered so far: UIDs ascend
    changes,   \* changes of the mailbox so far
    win,       \* mailcache.json: the mailboxWindow
    mem,       \* per process: the operation under its mutex, with what it read
    req,       \* per client: its request to serveInbox
    batch,     \* per actor: the entries it has fetched for Upsert
    view,      \* per client: its cursor and the messages it shows
    clobbered  \* history: a write of one process went over one of the other

imap == <<cast, box, delivered, changes>>
vars == <<imap, win, mem, req, batch, view, clobbered>>

UID     == 1 .. MaxUID
Meta    == {"unread", "read"}
Actors  == Clients \cup {"poller", "loader"}
Process == {"api", "daemon"}
ProcessOf(a) == IF a = "poller" THEN "daemon" ELSE "api"

Nothing == [u \in {} |-> 0]
NoWindow == [limit |-> 0, seq |-> 0, entries |-> Nothing]
NoOp     == [by |-> "none", win |-> NoWindow]
NoReply  == [cursor |-> 0, new |-> Nothing, updated |-> Nothing, removed |-> {}]
IdleReq  == [at |-> "idle", limit |-> 0, live |-> Nothing, reply |-> NoReply]

Init ==
    /\ cast \in Casts
    /\ box = Nothing /\ delivered = 0 /\ changes = 0
    /\ win = NoWindow
    /\ mem = [p \in Process |-> NoOp]
    /\ req = [c \in Clients |-> IdleReq]
    /\ batch = [a \in Actors |-> Nothing]
    /\ view = [c \in Clients |-> [cursor |-> 0, shown |-> Nothing]]
    /\ clobbered = FALSE
-----------------------------------------------------------------------------
(***************************************************************************)
(* The IMAP server.                                                        *)
(***************************************************************************)
Change == changes < MaxChanges /\ changes' = changes + 1 /\ UNCHANGED cast

Deliver ==
    /\ delivered < MaxUID
    /\ delivered' = delivered + 1
    /\ box' = [u \in DOMAIN box \cup {delivered'} |->
                  IF u \in DOMAIN box THEN box[u] ELSE "unread"]
    /\ Change
    /\ UNCHANGED <<win, mem, req, batch, view, clobbered>>

Flag(u) ==
    /\ u \in DOMAIN box
    /\ \E m \in Meta \ {box[u]} : box' = [box EXCEPT ![u] = m]
    /\ Change
    /\ UNCHANGED <<delivered, win, mem, req, batch, view, clobbered>>

Leave(u) ==
    /\ u \in DOMAIN box
    /\ box' = [v \in DOMAIN box \ {u} |-> box[v]]
    /\ Change
    /\ UNCHANGED <<delivered, win, mem, req, batch, view, clobbered>>

\* Mutant of Newest: one more than the n messages.
NewestAndOne(S, n) == {u \in S : Cardinality({v \in S : v > u}) <= n}

\* The n messages with the highest UIDs.
Newest(S, n) == {u \in S : Cardinality({v \in S : v > u}) < n}

HasBody(u)   == u \notin Bodiless
Entries(S)   == [u \in S |-> [meta |-> box[u], body |-> HasBody(u)]]
-----------------------------------------------------------------------------
(***************************************************************************)
(* An operation of a Store: refreshFromDiskLocked under the mutex, and     *)
(* persistLocked with the outcome, or not at all.                          *)
(***************************************************************************)
Waiting(a) == (a \in Clients /\ req[a].at = "sync") \/ batch[a] # Nothing

Refresh(a) ==
    LET p == ProcessOf(a)
    IN  /\ Waiting(a)
        /\ mem[p] = NoOp
        /\ mem' = [mem EXCEPT ![p] = [by |-> a, win |-> win]]
        /\ UNCHANGED <<imap, win, req, batch, view, clobbered>>

Operating(a) == mem[ProcessOf(a)].by = a
Unlock(a)    == mem' = [mem EXCEPT ![ProcessOf(a)] = NoOp]

\* The window is replaced, whatever became of it since the process read it.
Written(p) == clobbered' = (clobbered \/ win # mem[p].win)

\* Sequence numbers for the entries of S, in the order of the loop: newest first
\* as ListOverviews and ListUnreadMessages return them, or oldest first.
Stamps(S, seq, newestFirst) ==
    {f \in [S -> (seq + 1) .. (seq + Cardinality(S))] :
        \A u, v \in S : u > v => (newestFirst <=> f[u] < f[v])}
-----------------------------------------------------------------------------
(***************************************************************************)
(* The delta path of serveInbox.                                           *)
(***************************************************************************)
ListOverviews(c, limit) ==
    /\ req[c].at = "idle"
    /\ req' = [req EXCEPT ![c] =
                  [IdleReq EXCEPT !.at = "sync", !.limit = limit,
                      !.live = [u \in Newest(DOMAIN box, limit) |-> box[u]]]]
    /\ UNCHANGED <<imap, win, mem, batch, view, clobbered>>

\* What the window holds that may be compared: nothing after a change of limit.
Previous(w, limit) ==
    IF w.limit # 0 /\ w.limit # limit THEN Nothing ELSE w.entries

Unchanged(prev, live) == {u \in DOMAIN live \cap DOMAIN prev : prev[u].meta = live[u]}

\* The window after Sync: what is new or changed takes a stamp of its own.
Reconciled(prev, live, stamp) ==
    [u \in DOMAIN live |->
        IF u \in Unchanged(prev, live) THEN prev[u]
        ELSE IF u \in DOMAIN prev THEN [prev[u] EXCEPT !.meta = live[u], !.rev = stamp[u]]
        ELSE [meta |-> live[u], body |-> FALSE, rev |-> stamp[u], first |-> stamp[u]]]

\* Mutant of Fresh: the first entry stamped after the cursor is taken for known.
FreshLater(entries, since) == {u \in DOMAIN entries : entries[u].first > since + 1}

Fresh(entries, since) == {u \in DOMAIN entries : entries[u].first > since}

Reply(seq, prev, entries, since) ==
    LET new == Fresh(entries, since)
        upd == {u \in DOMAIN entries : entries[u].rev > since} \ new
    IN  [cursor  |-> seq,
         new     |-> [u \in new |-> [meta |-> entries[u].meta, body |-> entries[u].body]],
         updated |-> [u \in upd |-> entries[u].meta],
         removed |-> DOMAIN prev \ DOMAIN entries]

Sync(c) ==
    LET w    == mem["api"].win
        live == req[c].live
        prev == Previous(w, req[c].limit)
        bump == DOMAIN live \ Unchanged(prev, live)
        seq  == w.seq + Cardinality(bump)
    IN  /\ req[c].at = "sync" /\ Operating(c)
        /\ seq <= MaxSeq
        /\ \E stamp \in Stamps(bump, w.seq, TRUE) :
              LET entries == Reconciled(prev, live, stamp)
              IN  /\ win' = [limit |-> req[c].limit, seq |-> seq, entries |-> entries]
                  /\ req' = [req EXCEPT ![c].at = "bodies",
                                ![c].reply = Reply(seq, prev, entries, view[c].cursor)]
        /\ Written("api")
        /\ Unlock(c)
        /\ UNCHANGED <<imap, batch, view>>

\* The file cannot be read or replaced: 500.
SyncFails(c) ==
    /\ req[c].at = "sync" /\ Operating(c)
    /\ req' = [req EXCEPT ![c] = IdleReq]
    /\ Unlock(c)
    /\ UNCHANGED <<imap, win, batch, view, clobbered>>

NeedBodies(c) == {u \in DOMAIN req[c].reply.new : ~req[c].reply.new[u].body}

\* A message that has left meanwhile has no contents; one whose text is empty
\* is not warmed.
GetMessageBodies(c) ==
    LET got == {u \in NeedBodies(c) \cap DOMAIN box : HasBody(u)}
        new == [u \in DOMAIN req[c].reply.new |->
                   IF u \in got THEN [req[c].reply.new[u] EXCEPT !.body = TRUE]
                                ELSE req[c].reply.new[u]]
    IN  /\ req[c].at = "bodies"
        /\ req' = [req EXCEPT ![c].at = IF got = {} THEN "reply" ELSE "warm",
                              ![c].reply.new = new]
        /\ batch' = [batch EXCEPT ![c] = [u \in got |-> new[u]]]
        /\ UNCHANGED <<imap, win, mem, view, clobbered>>

\* 502 although the window is already synchronised.
BodiesFail(c) ==
    /\ req[c].at = "bodies" /\ NeedBodies(c) # {}
    /\ req' = [req EXCEPT ![c] = IdleReq]
    /\ UNCHANGED <<imap, win, mem, batch, view, clobbered>>

\* The client takes in the changes and the cursor together ...
Receive(c) ==
    LET r     == req[c].reply
        kept  == DOMAIN view[c].shown \ r.removed
        shown == [u \in kept \cup DOMAIN r.new \cup DOMAIN r.updated |->
                     IF u \in DOMAIN r.new THEN r.new[u].meta
                     ELSE IF u \in DOMAIN r.updated THEN r.updated[u]
                     ELSE view[c].shown[u]]
    IN  /\ req[c].at = "reply"
        /\ view' = [view EXCEPT ![c] = [cursor |-> r.cursor, shown |-> shown]]
        /\ req' = [req EXCEPT ![c] = IdleReq]
        /\ UNCHANGED <<imap, win, mem, batch, clobbered>>

\* ... or never sees the reply.
Lose(c) ==
    /\ req[c].at = "reply"
    /\ req' = [req EXCEPT ![c] = IdleReq]
    /\ UNCHANGED <<imap, win, mem, batch, view, clobbered>>
-----------------------------------------------------------------------------
(***************************************************************************)
(* The classic path of serveInbox, the poller, and Upsert.                 *)
(***************************************************************************)
Warmed(limit) ==
    LET top == Newest(DOMAIN win.entries, limit)
    IN  Cardinality(top) = limit /\ \A u \in top : win.entries[u].body

ListUnreadMessages(limit) ==
    /\ batch["loader"] = Nothing
    /\ ~Warmed(limit)
    /\ batch' = [batch EXCEPT !["loader"] = Entries(Newest(DOMAIN box, limit))]
    /\ UNCHANGED <<imap, win, mem, req, view, clobbered>>

\* Any of the unread ones may be above the checkpoint.
ListUnreadInbox ==
    /\ batch["poller"] = Nothing
    /\ \E S \in SUBSET {u \in DOMAIN box : box[u] = "unread"} :
          batch' = [batch EXCEPT !["poller"] = Entries(S)]
    /\ UNCHANGED <<imap, win, mem, req, view, clobbered>>

\* Mutant of Merged: an entry that changes keeps its sequence number.
MergedQuietly(old, in, stamp) ==
    [u \in DOMAIN old \cup DOMAIN in |->
        IF u \notin DOMAIN in THEN old[u]
        ELSE IF u \notin DOMAIN old
             THEN [meta |-> in[u].meta, body |-> in[u].body,
                   rev |-> stamp[u], first |-> stamp[u]]
        ELSE [old[u] EXCEPT !.meta = in[u].meta, !.body = @ \/ in[u].body]]

\* A body is attached without a new sequence number, and never taken away.
Merged(old, in, stamp) ==
    [u \in DOMAIN old \cup DOMAIN in |->
        IF u \notin DOMAIN in THEN old[u]
        ELSE IF u \notin DOMAIN old
             THEN [meta |-> in[u].meta, body |-> in[u].body,
                   rev |-> stamp[u], first |-> stamp[u]]
        ELSE [old[u] EXCEPT !.meta = in[u].meta, !.body = @ \/ in[u].body,
                            !.rev = IF u \in DOMAIN stamp THEN stamp[u] ELSE @]]

Upserted(a) ==
    /\ batch' = [batch EXCEPT ![a] = Nothing]
    /\ IF a \in Clients THEN req' = [req EXCEPT ![a].at = "reply"] ELSE UNCHANGED req
    /\ Unlock(a)
    /\ UNCHANGED <<imap, view>>

Upsert(a) ==
    LET w    == mem[ProcessOf(a)].win
        in   == batch[a]
        bump == {u \in DOMAIN in : u \in DOMAIN w.entries => w.entries[u].meta # in[u].meta}
        seq  == w.seq + Cardinality(bump)
    IN  /\ in # Nothing /\ Operating(a)
        /\ seq <= MaxSeq
        /\ \E stamp \in Stamps(bump, w.seq, a = "loader") :
              LET all == Merged(w.entries, in, stamp)
              IN  win' = [w EXCEPT !.seq = seq,
                             !.entries = [u \in Newest(DOMAIN all, Cap) |-> all[u]]]
        /\ Written(ProcessOf(a))
        /\ Upserted(a)

\* The error is logged and the caller goes on.
UpsertFails(a) ==
    /\ batch[a] # Nothing /\ Operating(a)
    /\ Upserted(a)
    /\ UNCHANGED <<win, clobbered>>
-----------------------------------------------------------------------------
Mailbox == Deliver \/ \E u \in UID : Flag(u) \/ Leave(u)

Poll(c) ==
    \/ \E limit \in cast.limits : ListOverviews(c, limit)
    \/ Sync(c) \/ SyncFails(c)
    \/ GetMessageBodies(c) \/ BodiesFail(c)
    \/ Receive(c) \/ Lose(c)

Warm(a) == Refresh(a) \/ Upsert(a) \/ UpsertFails(a)

Next ==
    \/ Mailbox
    \/ \E c \in Clients \cap cast.actors : Poll(c)
    \/ "loader" \in cast.actors /\ \E limit \in cast.limits : ListUnreadMessages(limit)
    \/ "poller" \in cast.actors /\ ListUnreadInbox
    \/ \E a \in cast.actors : Warm(a)

Spec == Init /\ [][Next]_vars
-----------------------------------------------------------------------------
Entry  == [meta : Meta, body : BOOLEAN, rev : Nat, first : Nat]

\* Every variable keeps its type, and the window its bound (store.go:12): however
\* Sync and Upsert alternate, it never outgrows maxWindowEntries.
TypeOK ==
    /\ DOMAIN box \subseteq UID /\ \A u \in DOMAIN box : box[u] \in Meta
    /\ delivered \in 0 .. MaxUID
    /\ win.limit \in Limits \cup {0} /\ win.seq \in 0 .. MaxSeq
    /\ DOMAIN win.entries \subseteq UID /\ Cardinality(DOMAIN win.entries) <= Cap
    /\ \A u \in DOMAIN win.entries : win.entries[u] \in Entry
    /\ \A c \in Clients : req[c].at \in {"idle", "sync", "bodies", "warm", "reply"}
    /\ \A a \in Actors : DOMAIN batch[a] \subseteq UID
    /\ \A c \in Clients : view[c].cursor \in Nat /\ DOMAIN view[c].shown \subseteq UID

\* A client misses nothing: an entry of the window that it does not show as it
\* is carries a sequence number above the client's cursor, so its next poll
\* brings the entry, whoever's Sync or Upsert put it there (store.go:113).  The
\* mutex of a Store is of one process: a write over one of the other process
\* takes the window and its Seq back, and nothing is claimed after it.
NothingMissed ==
    ~clobbered => \A c \in Clients : \A u \in DOMAIN win.entries :
        \/ u \in DOMAIN view[c].shown /\ view[c].shown[u] = win.entries[u].meta
        \/ win.entries[u].rev > view[c].cursor

\* A message is reported as updated, and so without its body, only to a client
\* that shows it (mailcache.go:117).
UpdatedIsShown ==
    ~clobbered => \A c \in Clients : DOMAIN req[c].reply.updated \subseteq DOMAIN view[c].shown
=============================================================================
