------------------------ MODULE DevicePairingProofs ------------------------
(***************************************************************************)
(* Proofs about DevicePairing.  TInv is the type invariant in the form that*)
(* is inductive: what a handler holds at each of its steps (Shape), that   *)
(* the handler of an operation on a file waits for it (Served), and no     *)
(* trace of an id that is still to be minted (Minted).  The three safety   *)
(* invariants rest on it:                                                  *)
(*   KInv  a nonce is remembered for a TTL after each of its redemptions;  *)
(*   RInv  a row older than a revocation, in the file or in what the API   *)
(*         is about to write, is on the revocation's list or was put back  *)
(*         by the daemon;                                                  *)
(*   OInv  what a registration found in the index still holds (Relies).    *)
(***************************************************************************)
EXTENDS DevicePairing, WellFoundedInduction, TLAPS

USE DEF clock, files, counted

(***************************************************************************)
(* The rows of a file.                                                     *)
(***************************************************************************)
Row == [id : DeviceIds, push : PushTokens, secret : 1 .. MaxSecrets]

Distinct(rows) == \A i, j \in DOMAIN rows : rows[i].id = rows[j].id => i = j

LEMMA Least ==
    ASSUME NEW S \in SUBSET Nat, S # {}
    PROVE  \E i \in S : \A j \in S : i <= j
  <1>1. PICK x \in S : \A y \in S : <<y, x>> \notin OpToRel(<, Nat)
    BY NatLessThanWellFounded, WFMin
  <1>2. ASSUME NEW y \in S PROVE x <= y
    <2>1. y \in Nat /\ x \in Nat
      OBVIOUS
    <2>2. <<y, x>> \in Nat \X Nat /\ <<y, x>>[1] = y /\ <<y, x>>[2] = x
      BY <2>1
    <2>3. ~(y < x)
      BY <1>1, <2>2 DEF OpToRel
    <2> QED
      BY <2>1, <2>3
  <1> QED
    BY <1>2

LEMMA Greatest ==
    ASSUME NEW n \in Nat, NEW S \in SUBSET (1 .. n), S # {}
    PROVE  \E i \in S : \A j \in S : j <= i
  <1> DEFINE T == {n - i : i \in S}
  <1>1. T \in SUBSET Nat /\ T # {}
    <2>1. \A i \in S : n - i \in Nat
      OBVIOUS
    <2> QED
      BY <2>1
  <1>2. PICK k \in T : \A m \in T : k <= m
    <2> HIDE DEF T
    <2> QED
      BY <1>1, Least
  <1>3. PICK i \in S : k = n - i
    BY <1>2
  <1>4. \A j \in S : n - i <= n - j
    BY <1>2, <1>3
  <1>5. \A j \in S : j <= i
    BY <1>4
  <1> QED
    BY <1>5

LEMMA MergedRows ==
    ASSUME NEW rows \in Seq(Row), Distinct(rows), NEW row \in Row
    PROVE  /\ Merged(rows, row) \in Seq(Row) /\ Distinct(Merged(rows, row))
           /\ IdsOf(rows) \subseteq IdsOf(Merged(rows, row))
           /\ IdsOf(Merged(rows, row)) \subseteq IdsOf(rows) \cup {row.id}
           /\ \A i \in DOMAIN Merged(rows, row) :
                 \/ Merged(rows, row)[i].secret = row.secret
                 \/ \E j \in DOMAIN rows : Merged(rows, row)[i] = rows[j]
  <1> DEFINE sameId   == {i \in DOMAIN rows : rows[i].id = row.id}
             samePush == {i \in DOMAIN rows : rows[i].push = row.push}
             new      == Merged(rows, row)
  <1>0. DOMAIN rows = 1 .. Len(rows) /\ \A i \in DOMAIN rows : rows[i] \in Row
    OBVIOUS
  <1>1. CASE sameId # {}
    <2>1. PICK i \in sameId : new = [rows EXCEPT ![i] = row]
      BY <1>1 DEF Merged
    <2>2. new \in Seq(Row) /\ DOMAIN new = DOMAIN rows
      BY <1>0, <2>1
    <2>3. \A j \in DOMAIN rows : new[j] = IF j = i THEN row ELSE rows[j]
      BY <1>0, <2>1
    <2>4. \A j \in DOMAIN rows : new[j].id = rows[j].id
      BY <2>1, <2>3
    <2> HIDE DEF new
    <2>5. Distinct(new) /\ IdsOf(new) = IdsOf(rows)
      BY <2>2, <2>4 DEF Distinct, IdsOf
    <2> QED
      BY <2>2, <2>3, <2>5 DEF new
  <1>2. CASE sameId = {} /\ samePush # {}
    <2> DEFINE i == CHOOSE k \in samePush : \A j \in samePush : k <= j
    <2>1. i \in samePush
      <3>1. samePush \in SUBSET Nat
        BY <1>0
      <3>2. \E k \in samePush : \A j \in samePush : k <= j
        BY <1>2, <3>1, Least
      <3> QED
        BY <3>2
    <2>2. new = [rows EXCEPT ![i] = [row EXCEPT !.id = rows[i].id]]
      BY <1>2 DEF Merged
    <2> HIDE DEF i
    <2>3. [row EXCEPT !.id = rows[i].id] \in Row
      BY <1>0, <2>1 DEF Row
    <2>4. new \in Seq(Row) /\ DOMAIN new = DOMAIN rows
      <3>1. \A r \in Row : LET s == [rows EXCEPT ![i] = r]
                           IN  s \in Seq(Row) /\ DOMAIN s = DOMAIN rows
        BY <2>1
      <3> QED
        BY <2>2, <2>3, <3>1
    <2>5. /\ \A j \in DOMAIN rows : j # i => new[j] = rows[j]
          /\ new[i].id = rows[i].id /\ new[i].secret = row.secret
      BY <1>0, <2>1, <2>2, <2>3 DEF Row
    <2> HIDE DEF new
    <2>6. \A j \in DOMAIN rows : new[j].id = rows[j].id
      BY <2>5
    <2>7. Distinct(new) /\ IdsOf(new) = IdsOf(rows)
      BY <2>4, <2>6 DEF Distinct, IdsOf
    <2> QED
      BY <2>4, <2>5, <2>7 DEF new
  <1>3. CASE sameId = {} /\ samePush = {}
    <2>1. new = Append(rows, row)
      BY <1>3 DEF Merged
    <2> HIDE DEF new
    <2>2. /\ new \in Seq(Row) /\ Len(new) = Len(rows) + 1 /\ new[Len(rows) + 1] = row
          /\ DOMAIN new = 1 .. Len(rows) + 1
          /\ \A i \in 1 .. Len(rows) : new[i] = rows[i]
      BY <2>1
    <2>3. \A i \in 1 .. Len(rows) : rows[i].id # row.id
      BY <1>0, <1>3
    <2>4. Distinct(new)
      BY <1>0, <2>2, <2>3 DEF Distinct
    <2>5. IdsOf(rows) \subseteq IdsOf(new) /\ IdsOf(new) \subseteq IdsOf(rows) \cup {row.id}
      BY <1>0, <2>2 DEF IdsOf
    <2> QED
      BY <1>0, <2>2, <2>4, <2>5 DEF new
  <1> QED
    BY <1>1, <1>2, <1>3

LEMMA WithoutRows ==
    ASSUME NEW rows \in Seq(Row), Distinct(rows), NEW d
    PROVE  /\ Without(rows, d) \in Seq(Row) /\ Distinct(Without(rows, d))
           /\ IdsOf(Without(rows, d)) = IdsOf(rows) \ {d}
           /\ \A i \in DOMAIN Without(rows, d) :
                 /\ Without(rows, d)[i].id # d
                 /\ \E j \in DOMAIN rows : Without(rows, d)[i] = rows[j]
  <1> DEFINE same == {i \in DOMAIN rows : rows[i].id = d}
             new  == Without(rows, d)
  <1>0. DOMAIN rows = 1 .. Len(rows) /\ Len(rows) \in Nat /\ \A i \in DOMAIN rows : rows[i] \in Row
    OBVIOUS
  <1>1. CASE same = {}
    BY <1>0, <1>1 DEF Without, IdsOf
  <1>2. CASE same # {}
    <2> DEFINE first == CHOOSE k \in same : \A j \in same : k <= j
    <2>1. first \in same
      <3>1. same \in SUBSET Nat
        BY <1>0
      <3>2. \E k \in same : \A j \in same : k <= j
        BY <1>2, <3>1, Least
      <3> QED
        BY <3>2
    <2>2. new = [i \in 1 .. Len(rows) - 1 |-> rows[IF i < first THEN i ELSE i + 1]]
      BY <1>2 DEF Without
    <2> HIDE DEF first
    <2>3. first \in 1 .. Len(rows) /\ rows[first].id = d
      BY <1>0, <2>1
    <2>4. new \in Seq(Row) /\ DOMAIN new = 1 .. Len(rows) - 1
      BY <1>0, <2>2, <2>3
    <2>5. \A i \in 1 .. Len(rows) - 1 :
             /\ i < first => new[i] = rows[i] /\ i # first
             /\ ~(i < first) => new[i] = rows[i + 1] /\ i + 1 # first /\ i + 1 \in 1 .. Len(rows)
      BY <1>0, <2>2, <2>3
    <2> HIDE DEF new
    <2>6. \A j \in 1 .. Len(rows) : j # first => rows[j].id # d
      BY <1>0, <2>3 DEF Distinct
    <2>7. ASSUME NEW i \in DOMAIN new
          PROVE  new[i].id # d /\ \E j \in DOMAIN rows : new[i] = rows[j]
      BY <1>0, <2>4, <2>5, <2>6
    <2>8. Distinct(new)
      <3> DEFINE at(i) == IF i < first THEN i ELSE i + 1
      <3>1. \A i \in DOMAIN new : at(i) \in DOMAIN rows /\ new[i] = rows[at(i)]
        BY <1>0, <2>3, <2>4, <2>5
      <3>2. \A i, j \in DOMAIN new : at(i) = at(j) => i = j
        BY <2>3, <2>4
      <3> HIDE DEF at
      <3> QED
        BY <3>1, <3>2 DEF Distinct
    <2>9. ASSUME NEW j \in DOMAIN rows, rows[j].id # d
          PROVE  \E i \in DOMAIN new : new[i] = rows[j]
      <3>1. CASE j < first
        BY <1>0, <2>3, <2>4, <2>5, <3>1
      <3>2. CASE first < j
        <4>1. j - 1 \in 1 .. Len(rows) - 1 /\ ~(j - 1 < first)
          BY <1>0, <2>3, <3>2
        <4>2. new[j - 1] = rows[j]
          BY <2>5, <4>1
        <4> QED
          BY <2>4, <4>1, <4>2
      <3> QED
        BY <1>0, <2>3, <2>9, <3>1, <3>2
    <2>10. IdsOf(new) = IdsOf(rows) \ {d}
      BY <2>7, <2>9 DEF IdsOf
    <2> QED
      BY <2>4, <2>7, <2>8, <2>10 DEF new
  <1> QED
    BY <1>1, <1>2
-----------------------------------------------------------------------------
(***************************************************************************)
(* Type correctness.                                                       *)
(***************************************************************************)
Owners == Users \cup {Nobody}

Handler ==
    [op : {"idle", "register", "deregister", "delete", "revoke", "unpair"},
     at : {"idle", "lookup", "rescan", "reserve", "upsert", "upserting", "list", "publish",
           "again", "get", "remove", "removing", "drop"},
     user : Owners, dev : DeviceIds \cup {Nobody}, push : PushTokens \cup {Nobody},
     next : [DeviceIds -> Owners] \cup {<<>>}, unread : SUBSET Users,
     todo : Seq(DeviceIds), upto : 0 .. MaxSecrets, clean : BOOLEAN]

\* Where a handler is, and what it has there; it names ids of known only.
Shape(r, known) ==
    /\ r.op = "idle" => r.at = "idle"
    /\ r.op = "register" =>
          /\ r.at \in {"lookup", "rescan", "reserve", "upsert", "upserting", "list", "publish"}
          /\ r.user \in Users /\ r.push \in PushTokens
    /\ r.op = "deregister" =>
          r.at \in {"lookup", "rescan", "again", "get", "remove", "removing", "drop"}
    /\ r.op \in {"delete", "revoke", "unpair"} => r.at \in {"remove", "removing", "drop"}
    /\ r.at \in {"lookup", "rescan", "reserve", "again", "get"} => r.dev \in DeviceIds
    /\ r.at \in {"get", "remove", "removing", "drop"} => r.user \in Users
    /\ r.at \in {"removing", "drop"} => r.todo # <<>>
    /\ r.dev \in known \cup {Nobody}
    /\ r.at = "rescan" => /\ r.next \in [DeviceIds -> Owners]
                          /\ \A d \in DeviceIds \ known : r.next[d] = Nobody

Stores ==
    /\ secrets \in 0 .. MaxSecrets
    /\ devices \in [Users -> Seq(Row)] /\ \A u \in Users : Distinct(devices[u])
    /\ torn \subseteq Users
    /\ copy \in [Users -> Seq(Row)]
    /\ index \in [DeviceIds -> Owners]
    /\ lost \subseteq DeviceIds
    /\ cut \in [Users -> 0 .. MaxSecrets]

\* What an operation of a Store has read.
Operation == [at : Operations, by : Requests \cup DeviceIds \cup {Nobody}, base : Seq(Row)]

Writers ==
    /\ writer \in [Processes -> [Users -> Operation]]
    /\ \A p \in Processes, u \in Users : Distinct(writer[p][u].base)

Token == [user : Users, exp : Int]

Tokens ==
    /\ now \in 0 .. MaxTime
    /\ tokens \in Seq(Token) /\ Len(tokens) <= MaxTokens
    /\ seen \in [1 .. MaxTokens -> Nat]
    /\ redeemed \in [1 .. MaxTokens -> Seq(Nat)]

Handlers == req \in [Requests -> Handler] /\ \A q \in Requests : Shape(req[q], KnownIds)

\* The handler an operation of the API is for waits for it.
Waits(u, r) ==
    /\ r.user = u
    /\ r.at = IF r.op = "register" THEN "upserting" ELSE "removing"

Served ==
    \A p \in Processes, u \in Users :
        writer[p][u].by \in Requests => p = "api" /\ Waits(u, req[writer[p][u].by])

\* An id that is still to be minted is nowhere.
Minted ==
    \A d \in DeviceIds \ KnownIds :
        /\ index[d] = Nobody
        /\ \A u \in Users : d \notin IdsOf(devices[u]) \cup IdsOf(copy[u])
        /\ \A p \in Processes, u \in Users : d \notin IdsOf(writer[p][u].base)

TInv == Stores /\ Writers /\ Tokens /\ Handlers /\ Served /\ Minted

LEMMA Known ==
    Stores => /\ KnownIds \subseteq DeviceIds /\ Nobody \notin DeviceIds
              /\ Requests \cap DeviceIds = {} /\ Nobody \notin Requests
  BY PairingAssumption DEF Stores, KnownIds, DeviceIds

LEMMA IdleIsHandler == Idle \in Handler /\ \A known : Shape(Idle, known)
  BY PairingAssumption DEF Idle, Handler, Shape, Owners

LEMMA FreeIsOperation ==
    Free \in Operation /\ Distinct(Free.base) /\ IdsOf(Free.base) = {} /\ Free.by = Nobody
  BY DEF Free, Operation, Operations, Distinct, IdsOf

LEMMA RowIsRow ==
    ASSUME NEW rows \in Seq(Row), NEW i \in DOMAIN rows
    PROVE  rows[i] \in Row /\ rows[i].id \in DeviceIds
  <1>1. rows[i] \in Row
    OBVIOUS
  <1> QED
    BY <1>1 DEF Row

LEMMA TInvInit == Init => TInv
  <1> SUFFICES ASSUME Init PROVE TInv
    OBVIOUS
  <1> USE PairingAssumption DEF Init
  <1>1. Stores
    <2>1. devices \in [Users -> Seq(Row)] /\ \A u \in Users : Distinct(devices[u])
      BY DEF Distinct
    <2> QED
      BY <2>1 DEF Stores, Owners
  <1>2. Writers /\ Served
    BY FreeIsOperation DEF Writers, Served
  <1>3. Tokens
    BY DEF Tokens
  <1>4. Handlers
    BY IdleIsHandler DEF Handlers
  <1>5. Minted
    <2>1. IdsOf(<<>>) = {}
      BY DEF IdsOf
    <2> QED
      BY <2>1, FreeIsOperation DEF Minted
  <1> QED
    BY <1>1, <1>2, <1>3, <1>4, <1>5 DEF TInv

LEMMA HandlerOf ==
    ASSUME TInv, NEW q \in Requests
    PROVE  req[q] \in Handler /\ Shape(req[q], KnownIds)
  BY DEF TInv, Handlers

LEMMA OperationOf ==
    ASSUME TInv, NEW p \in Processes, NEW u \in Users
    PROVE  /\ writer[p][u] \in Operation /\ Distinct(writer[p][u].base)
           /\ writer[p][u].by \in Requests \cup DeviceIds \cup {Nobody}
           /\ writer[p][u].base \in Seq(Row)
           /\ writer[p][u].by \in Requests =>
                 p = "api" /\ Waits(u, req[writer[p][u].by])
           /\ IdsOf(writer[p][u].base) \subseteq KnownIds
  <1>1. writer[p][u] \in Operation /\ Distinct(writer[p][u].base)
    BY DEF TInv, Writers
  <1>2. IdsOf(writer[p][u].base) \subseteq DeviceIds
    BY <1>1, RowIsRow DEF IdsOf, Operation
  <1> QED
    BY <1>1, <1>2 DEF TInv, Served, Minted, Operation

\* One operation of a Store begins, goes on or ends.
LEMMA WriterAt ==
    ASSUME Writers, NEW p \in Processes, NEW u \in Users, NEW w \in Operation, Distinct(w.base),
           writer' = [writer EXCEPT ![p][u] = w]
    PROVE  /\ \A o \in Processes, v \in Users :
                 writer'[o][v] = IF o = p /\ v = u THEN w ELSE writer[o][v]
           /\ Writers'
  <1>1. writer \in [Processes -> [Users -> Operation]]
    BY DEF Writers
  <1>2. writer' \in [Processes -> [Users -> Operation]]
    BY <1>1
  <1>3. \A o \in Processes, v \in Users :
           writer'[o][v] = IF o = p /\ v = u THEN w ELSE writer[o][v]
    BY <1>1
  <1> QED
    BY <1>2, <1>3 DEF Writers

\* What the API has in memory after it looked at a file.
LEMMA LookTypes ==
    ASSUME TInv, copy' = copy \/ \E u \in Users : Look(u)
    PROVE  /\ copy' \in [Users -> Seq(Row)]
           /\ \A d \in DeviceIds \ KnownIds : \A u \in Users : d \notin IdsOf(copy'[u])
  <1>1. /\ copy \in [Users -> Seq(Row)] /\ devices \in [Users -> Seq(Row)]
        /\ \A d \in DeviceIds \ KnownIds : \A u \in Users :
              d \notin IdsOf(copy[u]) /\ d \notin IdsOf(devices[u])
    BY DEF TInv, Stores, Minted
  <1>2. ASSUME NEW u \in Users, copy' = [copy EXCEPT ![u] = View(u)]
        PROVE  /\ copy' \in [Users -> Seq(Row)]
               /\ \A v \in Users : copy'[v] = copy[v] \/ copy'[v] = devices[v]
    BY <1>1, <1>2 DEF View
  <1>3. CASE copy' = copy
    BY <1>1, <1>3
  <1>4. CASE \E u \in Users : Look(u)
    BY <1>1, <1>2, <1>4 DEF Look
  <1> QED
    BY <1>3, <1>4

LEMMA ViewTypes ==
    ASSUME TInv, NEW u \in Users
    PROVE  View(u) \in Seq(Row) /\ IdsOf(View(u)) \subseteq KnownIds
  <1>1. View(u) \in Seq(Row) /\ (View(u) = copy[u] \/ View(u) = devices[u])
    BY DEF TInv, Stores, View
  <1>2. IdsOf(View(u)) \subseteq DeviceIds
    BY <1>1, RowIsRow DEF IdsOf
  <1> QED
    BY <1>1, <1>2 DEF TInv, Minted

\* The row a registration finds itself in.
LEMMA RegisteredRow ==
    ASSUME NEW q \in Requests, View(req[q].user) \in Seq(Row)
    PROVE  Registered(q) = req[q].dev \/ Registered(q) \in IdsOf(View(req[q].user))
  <1> DEFINE rows == View(req[q].user)
             mine == {i \in DOMAIN rows : rows[i].push = req[q].push}
             i    == CHOOSE k \in mine : \A j \in mine : j <= k
  <1>1. CASE mine = {}
    BY <1>1 DEF Registered
  <1>2. CASE mine # {}
    <2>1. mine \in SUBSET (1 .. Len(rows)) /\ Len(rows) \in Nat
      OBVIOUS
    <2>2. \E k \in mine : \A j \in mine : j <= k
      BY <1>2, <2>1, Greatest
    <2>3. i \in mine
      BY <2>2
    <2>4. Registered(q) = rows[i].id
      BY <1>2 DEF Registered
    <2> QED
      BY <2>3, <2>4 DEF IdsOf
  <1> QED
    BY <1>1, <1>2

LEMMA SameHistory ==
    ASSUME Stores, UNCHANGED <<lost, cut>>
    PROVE  lost' \subseteq DeviceIds /\ cut' \in [Users -> 0 .. MaxSecrets]
  BY DEF Stores

\* A handler of which no operation is waiting goes on.
LEMMA Unserved ==
    ASSUME TInv, writer' = writer, NEW q \in Requests, req[q].at \notin {"upserting", "removing"},
           \A x \in Requests : x # q => req'[x] = req[x]
    PROVE  Served'
  <1> SUFFICES ASSUME NEW p \in Processes, NEW u \in Users, writer[p][u].by \in Requests
               PROVE  p = "api" /\ Waits(u, req'[writer[p][u].by])
    BY DEF Served, Waits
  <1>1. p = "api" /\ Waits(u, req[writer[p][u].by])
    BY OperationOf
  <1>2. writer[p][u].by # q
    BY <1>1 DEF Waits
  <1> QED
    BY <1>1, <1>2

\* A handler changes the index, or goes on.
LEMMA ChangeStep ==
    ASSUME TInv, UNCHANGED <<now, tokens, seen, redeemed, devices, torn, writer, secrets>>,
           copy' = copy \/ \E u \in Users : Look(u),
           lost' \subseteq DeviceIds, cut' \in [Users -> 0 .. MaxSecrets],
           index' \in [DeviceIds -> Owners],
           \A d \in DeviceIds \ KnownIds : index'[d] = Nobody,
           NEW q \in Requests, req[q].at \notin {"upserting", "removing"},
           NEW r \in Handler, Shape(r, KnownIds), req' = [req EXCEPT ![q] = r]
    PROVE  TInv'
  <1>1. KnownIds' = KnownIds
    BY DEF KnownIds
  <1>2. /\ copy' \in [Users -> Seq(Row)]
        /\ \A d \in DeviceIds \ KnownIds : \A u \in Users : d \notin IdsOf(copy'[u])
    BY LookTypes
  <1>3. Stores' /\ Writers' /\ Tokens'
    BY <1>2 DEF TInv, Stores, Writers, Tokens
  <1>4. Handlers'
    BY <1>1 DEF TInv, Handlers
  <1>5. Served'
    BY Unserved DEF TInv, Handlers
  <1>6. Minted'
    BY <1>1, <1>2 DEF TInv, Minted
  <1> QED
    BY <1>3, <1>4, <1>5, <1>6 DEF TInv

\* A handler goes on while the index stays.
LEMMA HandlerStep ==
    ASSUME TInv, UNCHANGED <<now, tokens, seen, redeemed, devices, torn, writer, secrets, index>>,
           copy' = copy \/ \E u \in Users : Look(u),
           lost' \subseteq DeviceIds, cut' \in [Users -> 0 .. MaxSecrets],
           NEW q \in Requests, req[q].at \notin {"upserting", "removing"},
           NEW r \in Handler, Shape(r, KnownIds), req' = [req EXCEPT ![q] = r]
    PROVE  TInv'
  BY ChangeStep DEF TInv, Stores, Minted

LEMMA SameFiles ==
    ASSUME TInv, UNCHANGED <<files, index, lost, cut, req>>
    PROVE  Stores' /\ Writers' /\ Handlers' /\ Served' /\ Minted'
  <1>1. KnownIds' = KnownIds
    BY DEF KnownIds
  <1>2. Stores' /\ Writers' /\ Minted'
    BY <1>1 DEF TInv, Stores, Writers, Minted
  <1>3. Handlers'
    BY <1>1 DEF TInv, Handlers
  <1>4. Served'
    BY DEF TInv, Served, Waits
  <1> QED
    BY <1>2, <1>3, <1>4

LEMMA QuietTypes ==
    ASSUME TInv, NEW q \in Requests,
           \/ Lookup(q) \/ LookupAgain(q) \/ Refuse(q) \/ RegisterFails(q)
           \/ RemoveFails(q) \/ RemoveAbsent(q) \/ RescanFails(q)
           \/ (\E u \in Users : Rescan(q, u) \/ RescanSkips(q, u))
    PROVE  TInv'
  <1>0. /\ req[q] \in Handler /\ Shape(req[q], KnownIds) /\ req \in [Requests -> Handler]
        /\ Stores
    BY HandlerOf DEF TInv, Handlers
  <1>00. /\ KnownIds \subseteq DeviceIds /\ Nobody \notin DeviceIds
         /\ index \in [DeviceIds -> Owners]
         /\ \A d \in DeviceIds \ KnownIds : index[d] = Nobody /\ \A u \in Users : d \notin Ids(u)
    BY Known DEF TInv, Stores, Minted, Ids
  <1>1. CASE Lookup(q)
    <2> DEFINE owner == index[req[q].dev]
    <2>1. CASE owner = Nobody
      <3> DEFINE r == [[[req[q] EXCEPT !.at = "rescan"] EXCEPT !.unread = Users]
                            EXCEPT !.next = [d \in DeviceIds |-> Nobody]]
      <3>1. req' = [req EXCEPT ![q] = r]
        BY <1>0, <1>1, <2>1 DEF Lookup
      <3>2. r \in Handler /\ Shape(r, KnownIds)
        BY <1>0, <1>1 DEF Lookup, Handler, Shape, Owners
      <3> QED
        BY <1>0, <1>1, <3>1, <3>2, HandlerStep, SameHistory DEF Lookup
    <2>2. CASE owner # Nobody /\ req[q].op = "register"
      <3> DEFINE r == [req[q] EXCEPT !.at = "reserve"]
      <3>1. req' = [req EXCEPT ![q] = r]
        BY <1>0, <1>1, <2>2 DEF Lookup
      <3>2. r \in Handler /\ Shape(r, KnownIds)
        BY <1>0, <1>1, <2>2 DEF Lookup, Handler, Shape
      <3> QED
        BY <1>0, <1>1, <3>1, <3>2, HandlerStep, SameHistory DEF Lookup
    <2>3. CASE owner # Nobody /\ req[q].op # "register"
      <3> DEFINE r == [[req[q] EXCEPT !.at = "get"] EXCEPT !.user = owner]
      <3>1. req' = [req EXCEPT ![q] = r]
        BY <1>0, <1>1, <2>3 DEF Lookup
      <3>2. owner \in Users
        BY <1>0, <1>00, <1>1, <2>3 DEF Lookup, Shape, Owners
      <3>3. r \in Handler /\ Shape(r, KnownIds)
        BY <1>0, <1>1, <2>3, <3>2 DEF Lookup, Handler, Shape, Owners
      <3> QED
        BY <1>0, <1>1, <3>1, <3>3, HandlerStep, SameHistory DEF Lookup
    <2> QED
      BY <2>1, <2>2, <2>3
  <1>2. CASE \E u \in Users : Rescan(q, u)
    <2>1. PICK u \in Users : Rescan(q, u)
      BY <1>2
    <2> DEFINE next == [d \in DeviceIds |-> IF d \in Ids(u) THEN u ELSE req[q].next[d]]
               r    == [[req[q] EXCEPT !.unread = @ \ {u}] EXCEPT !.next = next]
    <2>2. req[q].next \in [DeviceIds -> Owners] /\ \A d \in DeviceIds \ KnownIds : req[q].next[d] = Nobody
      BY <1>0, <2>1 DEF Rescan, Shape
    <2>3. next \in [DeviceIds -> Owners] /\ \A d \in DeviceIds \ KnownIds : next[d] = Nobody
      BY <1>00, <2>2 DEF Owners
    <2>4. req' = [req EXCEPT ![q] = r]
      BY <1>0, <2>1 DEF Rescan, Handler
    <2> HIDE DEF next
    <2>5. r \in Handler /\ Shape(r, KnownIds)
      BY <1>0, <2>1, <2>3 DEF Rescan, Handler, Shape
    <2> QED
      BY <1>0, <2>1, <2>4, <2>5, HandlerStep, SameHistory DEF Rescan
  <1>3. CASE (\E u \in Users : RescanSkips(q, u)) \/ RescanFails(q)
    <2>1. lost' \subseteq DeviceIds /\ cut' \in [Users -> 0 .. MaxSecrets]
      <3>1. \A users \in SUBSET Users : Overlooked(q, users) \subseteq DeviceIds
        BY <1>0, <1>3 DEF RescanSkips, RescanFails, Overlooked, Shape
      <3> QED
        BY <1>0, <1>3, <3>1 DEF RescanSkips, RescanFails, Stores
    <2>2. ASSUME NEW u \in Users, RescanSkips(q, u) PROVE TInv'
      <3> DEFINE r == [req[q] EXCEPT !.unread = @ \ {u}]
      <3>1. req' = [req EXCEPT ![q] = r]
        BY <1>0, <2>2 DEF RescanSkips
      <3>2. r \in Handler /\ Shape(r, KnownIds)
        BY <1>0, <2>2 DEF RescanSkips, Handler, Shape
      <3> QED
        BY <2>1, <2>2, <3>1, <3>2, HandlerStep DEF RescanSkips
    <2>3. CASE RescanFails(q)
      <3> DEFINE r == [[[req[q] EXCEPT !.next = <<>>] EXCEPT !.unread = {}]
                            EXCEPT !.at = AfterRescan(q)]
      <3>1. req' = [req EXCEPT ![q] = r]
        BY <1>0, <2>3 DEF RescanFails, Handler
      <3>2. r \in Handler /\ Shape(r, KnownIds)
        BY <1>0, <2>3 DEF RescanFails, AfterRescan, Handler, Shape
      <3> QED
        BY <2>1, <2>3, <3>1, <3>2, HandlerStep DEF RescanFails
    <2> QED
      BY <1>3, <2>2, <2>3
  <1>4. CASE LookupAgain(q)
    <2> DEFINE owner == index[req[q].dev]
               r == [[req[q] EXCEPT !.at = "get"] EXCEPT !.user = owner]
    <2>1. CASE owner = Nobody
      BY <1>0, <1>4, <2>1, HandlerStep, IdleIsHandler, SameHistory DEF LookupAgain
    <2>2. CASE owner # Nobody
      <3>1. req' = [req EXCEPT ![q] = r]
        BY <1>0, <1>4, <2>2 DEF LookupAgain
      <3>2. owner \in Users /\ req[q].op # "register"
        BY <1>0, <1>00, <1>4, <2>2 DEF LookupAgain, Shape, Owners
      <3>3. r \in Handler /\ Shape(r, KnownIds)
        BY <1>0, <1>4, <3>2 DEF LookupAgain, Handler, Shape, Owners
      <3> QED
        BY <1>0, <1>4, <3>1, <3>3, HandlerStep, SameHistory DEF LookupAgain
    <2> QED
      BY <2>1, <2>2
  <1>5. CASE Refuse(q)
    BY <1>0, <1>5, HandlerStep, IdleIsHandler, SameHistory DEF Refuse, Finish
  <1>6. CASE RegisterFails(q)
    <2>1. req[q].at \notin {"upserting", "removing"}
      BY <1>6 DEF RegisterFails
    <2> QED
      BY <1>0, <1>6, <2>1, HandlerStep, IdleIsHandler, SameHistory DEF RegisterFails, Finish
  <1>7. CASE RemoveFails(q) \/ RemoveAbsent(q)
    <2> DEFINE skip == [[[req[q] EXCEPT !.at = "remove"] EXCEPT !.todo = Tail(@)]
                            EXCEPT !.clean = FALSE]
               tl   == [req[q] EXCEPT !.todo = Tail(@)]
               dr   == [req[q] EXCEPT !.at = "drop"]
    <2>1. /\ req[q].todo \in Seq(DeviceIds) /\ req[q].todo # <<>> /\ req[q].at = "remove"
          /\ req[q].user \in Users
      BY <1>0, <1>7 DEF RemoveFails, RemoveAbsent, Handler, Shape
    <2>2. Tail(req[q].todo) \in Seq(DeviceIds)
      BY <2>1
    <2>3. /\ skip \in Handler /\ Shape(skip, KnownIds) /\ tl \in Handler /\ Shape(tl, KnownIds)
          /\ dr \in Handler /\ Shape(dr, KnownIds) /\ Idle \in Handler /\ Shape(Idle, KnownIds)
      <3>1. skip \in Handler /\ tl \in Handler /\ dr \in Handler
        BY <1>0, <2>2 DEF Handler
      <3>2. Shape(skip, KnownIds)
        BY <1>0, <2>1 DEF Shape, Handler
      <3>3. Shape(tl, KnownIds)
        BY <1>0, <2>1 DEF Shape, Handler
      <3>4. Shape(dr, KnownIds)
        BY <1>0, <2>1 DEF Shape, Handler
      <3> QED
        BY <3>1, <3>2, <3>3, <3>4, IdleIsHandler
    <2>4. \/ req' = [req EXCEPT ![q] = skip] \/ req' = [req EXCEPT ![q] = Idle]
          \/ req' = [req EXCEPT ![q] = tl] \/ req' = [req EXCEPT ![q] = dr]
      <3>1. CASE RemoveFails(q)
        BY <1>0, <3>1 DEF RemoveFails, GiveUp, Finish, Handler
      <3>2. CASE RemoveAbsent(q)
        BY <1>0, <3>2 DEF RemoveAbsent, Goto, Handler
      <3> QED
        BY <1>7, <3>1, <3>2
    <2>5. PICK r \in Handler : Shape(r, KnownIds) /\ req' = [req EXCEPT ![q] = r]
      <3> HIDE DEF skip, tl, dr
      <3> QED
        BY <2>3, <2>4
    <2>6. /\ UNCHANGED <<now, tokens, seen, redeemed, devices, torn, writer, secrets, index, lost, cut>>
          /\ copy' = copy \/ \E u \in Users : Look(u)
      BY <1>7, <2>1 DEF RemoveFails, RemoveAbsent
    <2> QED
      BY <1>0, <2>1, <2>5, <2>6, HandlerStep, SameHistory
  <1> QED
    BY <1>1, <1>2, <1>3, <1>4, <1>5, <1>6, <1>7

\* The handlers that look at the rows.
LEMMA LookingTypes ==
    ASSUME TInv, NEW q \in Requests, ListRegistered(q) \/ Authenticate(q) PROVE TInv'
  <1>0. /\ req[q] \in Handler /\ Shape(req[q], KnownIds) /\ req \in [Requests -> Handler]
        /\ Stores /\ KnownIds \subseteq DeviceIds /\ Nobody \notin DeviceIds
    BY HandlerOf, Known DEF TInv, Handlers
  <1>1. CASE ListRegistered(q)
    <2> DEFINE id == Registered(q)
               r  == [[req[q] EXCEPT !.at = "publish"] EXCEPT !.dev = id]
    <2>1. /\ id \in KnownIds \cup {Nobody} /\ req[q].user \in Users
          /\ id = req[q].dev \/ id \in KnownIds
      <3>1. req[q].user \in Users /\ req[q].dev \in KnownIds \cup {Nobody}
        BY <1>0, <1>1 DEF ListRegistered, Shape, Handler
      <3>2. /\ View(req[q].user) \in Seq(Row)
            /\ IdsOf(View(req[q].user)) \subseteq KnownIds
        BY <3>1, ViewTypes
      <3> QED
        BY <3>1, <3>2, RegisteredRow
    <2>2. req' = [req EXCEPT ![q] = r]
      BY <1>0, <1>1 DEF ListRegistered
    <2>3. lost' \subseteq DeviceIds
      <3>1. {id} \ (Ids(req[q].user) \cup {req[q].dev}) \subseteq DeviceIds
        BY <1>0, <2>1
      <3> QED
        BY <1>0, <1>1, <3>1 DEF ListRegistered, Stores
    <2> HIDE DEF id
    <2>4. r \in Handler /\ Shape(r, KnownIds)
      BY <1>0, <1>1, <2>1 DEF ListRegistered, Handler, Shape
    <2> QED
      BY <1>0, <1>1, <2>1, <2>2, <2>3, <2>4, HandlerStep DEF ListRegistered, Stores
  <1>2. CASE Authenticate(q)
    <2> DEFINE r == [[req[q] EXCEPT !.at = "remove"] EXCEPT !.todo = <<req[q].dev>>]
    <2>1. req' = [req EXCEPT ![q] = r]
      BY <1>0, <1>2 DEF Authenticate
    <2>2. /\ req[q].dev \in DeviceIds /\ <<req[q].dev>> \in Seq(DeviceIds)
          /\ req[q].user \in Users
      BY <1>0, <1>2 DEF Authenticate, Shape
    <2>3. r \in Handler /\ Shape(r, KnownIds)
      BY <1>0, <1>2, <2>2 DEF Authenticate, Handler, Shape
    <2> QED
      BY <1>0, <1>2, <2>1, <2>2, <2>3, HandlerStep, SameHistory DEF Authenticate
  <1> QED
    BY <1>1, <1>2

\* A request comes in.
LEMMA ArrivesTypes ==
    ASSUME TInv, NEW q \in Requests,
           \/ \E u \in Users, d \in KnownIds : DeleteBegin(q, u, d)
           \/ \E d \in KnownIds : DeregisterBegin(q, d)
           \/ \E u \in Users, op \in {"revoke", "unpair"} : RevokeBegin(q, u, op)
    PROVE  TInv'
  <1>0. /\ Stores /\ KnownIds \subseteq DeviceIds /\ Nobody \notin DeviceIds
        /\ req \in [Requests -> Handler] /\ Shape(req[q], KnownIds) /\ req[q].at = "idle"
    BY HandlerOf, Known DEF TInv, Handlers, DeleteBegin, DeregisterBegin, RevokeBegin, Arrives,
       Shape
  <1>1. ASSUME NEW u \in Users, NEW d \in KnownIds, DeleteBegin(q, u, d) PROVE TInv'
    <2> DEFINE ids == <<d>>
               r == [Idle EXCEPT !.op = "delete", !.at = "remove", !.user = u, !.todo = ids]
    <2>1. ids \in Seq(DeviceIds)
      BY <1>0
    <2>2. req' = [req EXCEPT ![q] = r]
      BY <1>1 DEF DeleteBegin
    <2> HIDE DEF ids
    <2>3. r \in Handler
      BY <2>1, IdleIsHandler DEF Handler, Owners
    <2>4. r.op = "delete" /\ r.at = "remove" /\ r.user = u /\ r.dev = Nobody
      BY DEF Idle
    <2> HIDE DEF r
    <2>5. Shape(r, KnownIds)
      BY <2>4 DEF Shape
    <2> QED
      BY <1>0, <1>1, <2>2, <2>3, <2>5, HandlerStep, SameHistory DEF DeleteBegin
  <1>2. ASSUME NEW d \in KnownIds, DeregisterBegin(q, d) PROVE TInv'
    <2> DEFINE r == [Idle EXCEPT !.op = "deregister", !.at = "lookup", !.dev = d]
    <2>0. d \in DeviceIds /\ d \in KnownIds /\ Idle \in Handler
      BY <1>0, IdleIsHandler
    <2>1. r \in Handler /\ Shape(r, KnownIds)
      <3>1. r \in Handler
        BY <2>0 DEF Handler
      <3>2. r.op = "deregister" /\ r.at = "lookup" /\ r.dev = d
        BY <2>0 DEF Handler
      <3> HIDE DEF r
      <3> QED
        BY <2>0, <3>1, <3>2 DEF Shape
    <2>2. /\ req' = [req EXCEPT ![q] = r]
          /\ UNCHANGED <<now, tokens, seen, redeemed, devices, torn, copy, writer, secrets,
                         index, lost, cut>>
      BY <1>2 DEF DeregisterBegin
    <2> HIDE DEF r
    <2> QED
      BY <1>0, <2>1, <2>2, HandlerStep, SameHistory
  <1>3. ASSUME NEW u \in Users, NEW op \in {"revoke", "unpair"}, RevokeBegin(q, u, op)
        PROVE  TInv'
    <2> DEFINE ids == ToRevoke(u)
               r == [Idle EXCEPT !.op = op, !.at = "remove", !.user = u, !.todo = ids,
                                 !.upto = secrets, !.clean = u \notin torn]
    <2>1. ids \in Seq(DeviceIds)
      <3>1. View(u) \in Seq(Row)
        BY ViewTypes
      <3>2. \A i \in DOMAIN View(u) : View(u)[i].id \in DeviceIds
        BY <3>1, RowIsRow
      <3> QED
        BY <3>1, <3>2 DEF ToRevoke
    <2> HIDE DEF ids
    <2>2. r \in Handler /\ Shape(r, KnownIds)
      <3>1. r.op \in {"revoke", "unpair"} /\ r.at = "remove" /\ r.user = u /\ r.dev = Nobody
        BY <1>0 DEF Idle
      <3>2. r \in Handler
        BY <1>0, <2>1, PairingAssumption DEF Idle, Handler, Owners, Stores
      <3> HIDE DEF r
      <3>3. Shape(r, KnownIds)
        BY <3>1 DEF Shape
      <3> QED
        BY <3>2, <3>3
    <2>3. req' = [req EXCEPT ![q] = r]
      BY <1>3 DEF RevokeBegin, ids
    <2> HIDE DEF r
    <2> QED
      BY <1>0, <1>3, <2>2, <2>3, HandlerStep, SameHistory DEF RevokeBegin
  <1> QED
    BY <1>1, <1>2, <1>3

LEMMA IndexTypes ==
    ASSUME TInv, NEW q \in Requests,
           RescanWrite(q) \/ Reserve(q) \/ Publish(q) \/ Drop(q) \/ RemoveDone(q)
    PROVE  TInv'
  <1>0. /\ req[q] \in Handler /\ Shape(req[q], KnownIds) /\ req \in [Requests -> Handler]
        /\ Stores /\ KnownIds \subseteq DeviceIds /\ Nobody \notin DeviceIds
    BY HandlerOf, Known DEF TInv, Handlers
  <1>1. index \in [DeviceIds -> Owners] /\ \A d \in DeviceIds \ KnownIds : index[d] = Nobody
    BY DEF TInv, Stores, Minted
  <1>2. CASE RescanWrite(q)
    <2> DEFINE r == [[req[q] EXCEPT !.next = <<>>] EXCEPT !.at = AfterRescan(q)]
    <2>1. /\ index' \in [DeviceIds -> Owners]
          /\ \A d \in DeviceIds \ KnownIds : index'[d] = Nobody
      BY <1>0, <1>2 DEF RescanWrite, Shape
    <2>2. lost' \subseteq DeviceIds
      BY <1>0, <1>2 DEF RescanWrite, Taken, Outdated, Stores
    <2>3. req' = [req EXCEPT ![q] = r]
      BY <1>0, <1>2 DEF RescanWrite, Handler
    <2>4. r \in Handler /\ Shape(r, KnownIds) /\ req[q].at = "rescan"
      BY <1>0, <1>2 DEF RescanWrite, AfterRescan, Handler, Shape
    <2> HIDE DEF r
    <2> QED
      BY <1>0, <1>2, <2>1, <2>2, <2>3, <2>4, ChangeStep DEF RescanWrite, Stores
  <1>3. CASE Reserve(q)
    <2> DEFINE r == [req[q] EXCEPT !.at = "upsert"]
    <2>1. CASE index[req[q].dev] \in {Nobody, req[q].user}
      <3>1. /\ index' = [index EXCEPT ![req[q].dev] = req[q].user]
            /\ req' = [req EXCEPT ![q] = r] /\ req[q].at = "reserve"
        BY <1>3, <2>1 DEF Reserve, Goto
      <3>2. req[q].dev \in KnownIds
        BY <1>0, <3>1 DEF Shape
      <3>3. /\ index' \in [DeviceIds -> Owners]
            /\ \A d \in DeviceIds \ KnownIds : index'[d] = Nobody
        BY <1>0, <1>1, <3>1, <3>2 DEF Handler
      <3>4. r \in Handler /\ Shape(r, KnownIds)
        BY <1>0, <3>1 DEF Handler, Shape
      <3> QED
        BY <1>0, <1>3, <3>1, <3>3, <3>4, ChangeStep, SameHistory DEF Reserve
    <2>2. CASE index[req[q].dev] \notin {Nobody, req[q].user}
      BY <1>0, <1>3, <2>2, HandlerStep, IdleIsHandler, SameHistory DEF Reserve, Finish
    <2> QED
      BY <2>1, <2>2
  <1>4. CASE Publish(q)
    <2>1. /\ index' = IF req[q].dev = Nobody THEN index
                      ELSE [index EXCEPT ![req[q].dev] = req[q].user]
          /\ req' = [req EXCEPT ![q] = Idle]
      BY <1>4 DEF Publish, Finish
    <2>2. /\ index' \in [DeviceIds -> Owners]
          /\ \A d \in DeviceIds \ KnownIds : index'[d] = Nobody
      BY <1>0, <1>1, <2>1 DEF Handler, Shape
    <2> QED
      BY <1>0, <1>4, <2>1, <2>2, ChangeStep, IdleIsHandler, SameHistory DEF Publish
  <1>5. CASE Drop(q)
    <2> DEFINE r == [[req[q] EXCEPT !.at = "remove"] EXCEPT !.todo = Tail(@)]
    <2>1. req[q].todo \in Seq(DeviceIds) /\ req[q].todo # <<>> /\ req[q].user \in Users
      BY <1>0, <1>5 DEF Drop, Handler, Shape
    <2>2. Head(req[q].todo) \in DeviceIds /\ Tail(req[q].todo) \in Seq(DeviceIds)
      BY <2>1
    <2>3. /\ index' \in [DeviceIds -> Owners]
          /\ \A d \in DeviceIds \ KnownIds : index'[d] = Nobody
      BY <1>1, <1>5, <2>2 DEF Drop, Owners
    <2>4. lost' \subseteq DeviceIds
      BY <1>0, <1>5 DEF Drop, Taken, Stores
    <2>5. req' = [req EXCEPT ![q] = r]
      BY <1>0, <1>5 DEF Drop, Handler
    <2>6. r \in Handler /\ Shape(r, KnownIds)
      <3>1. r \in Handler
        BY <1>0, <2>2 DEF Handler
      <3>2. Shape(r, KnownIds)
        BY <1>0, <1>5, <2>1 DEF Drop, Handler, Shape
      <3> QED
        BY <3>1, <3>2
    <2> HIDE DEF r
    <2> QED
      BY <1>0, <1>5, <2>3, <2>4, <2>5, <2>6, ChangeStep DEF Drop, Stores
  <1>6. CASE RemoveDone(q)
    <2>1. cut' \in [Users -> 0 .. MaxSecrets]
      BY <1>0, <1>6 DEF RemoveDone, Stores, Handler, Shape
    <2>2. lost' \subseteq DeviceIds
      BY <1>0, <1>6 DEF RemoveDone, Stores
    <2> QED
      BY <1>0, <1>6, <2>1, <2>2, HandlerStep, IdleIsHandler DEF RemoveDone, Finish
  <1> QED
    BY <1>2, <1>3, <1>4, <1>5, <1>6

\* A token comes into being, or is redeemed.
LEMMA TokenTypes ==
    ASSUME TInv, \/ \E u \in Users : MintToken(u)
                 \/ \E q \in Requests, t \in DOMAIN tokens, d \in ChosenIds \cup {Nobody},
                       p \in PushTokens : RegisterBegin(q, t, d, p)
    PROVE  TInv'
  <1>0. Stores /\ Tokens /\ KnownIds \subseteq DeviceIds /\ Nobody \notin DeviceIds
    BY Known DEF TInv
  <1>1. ASSUME NEW u \in Users, MintToken(u) PROVE TInv'
    <2> DEFINE t == [user |-> u, exp |-> (now + TTL) \div 2]
    <2>1. t \in Token
      <3>1. (now + TTL) \div 2 \in Int
        BY <1>0, PairingAssumption DEF Tokens
      <3> QED
        BY <3>1 DEF Token
    <2>2. tokens' = Append(tokens, t) /\ Len(tokens) < MaxTokens
      BY <1>1 DEF MintToken
    <2> HIDE DEF t
    <2>3. Tokens'
      <3>1. /\ tokens \in Seq(Token) /\ Len(tokens) \in Nat /\ MaxTokens \in Nat
            /\ UNCHANGED <<now, seen, redeemed>>
        BY <1>0, <1>1, PairingAssumption DEF MintToken, Tokens
      <3>2. tokens' \in Seq(Token) /\ Len(tokens') = Len(tokens) + 1
        BY <2>1, <2>2, <3>1
      <3>3. Len(tokens') <= MaxTokens
        BY <2>2, <3>1, <3>2
      <3> QED
        BY <1>0, <3>1, <3>2, <3>3 DEF Tokens
    <2>4. UNCHANGED <<files, index, lost, cut, req>>
      BY <1>1 DEF MintToken
    <2> QED
      BY <2>3, <2>4, SameFiles DEF TInv
  <1>2. ASSUME NEW q \in Requests, NEW t \in DOMAIN tokens, NEW d \in ChosenIds \cup {Nobody},
               NEW p \in PushTokens, RegisterBegin(q, t, d, p)
        PROVE  TInv'
    <2> DEFINE r == [Idle EXCEPT !.op = "register",
                                 !.at = IF d = Nobody THEN "upsert" ELSE "lookup",
                                 !.user = tokens[t].user, !.dev = d, !.push = p]
    <2>1. /\ t \in 1 .. MaxTokens /\ tokens[t].user \in Users
      <3>0. tokens \in Seq(Token)
        BY <1>0 DEF Tokens
      <3>1. t \in 1 .. Len(tokens) /\ tokens[t] \in Token
        BY <3>0
      <3> QED
        BY <1>0, <3>1, PairingAssumption DEF Tokens, Token
    <2>2. d \in KnownIds \cup {Nobody} /\ d \in DeviceIds \cup {Nobody}
      BY DEF KnownIds, DeviceIds
    <2>3. r \in Handler /\ Shape(r, KnownIds)
      <3>1. r \in Handler
        BY <2>1, <2>2, IdleIsHandler DEF Handler, Owners
      <3>2. /\ r.op = "register" /\ r.at = IF d = Nobody THEN "upsert" ELSE "lookup"
            /\ r.user = tokens[t].user /\ r.dev = d /\ r.push = p
        BY DEF Idle
      <3> HIDE DEF r
      <3>3. r.at = "upsert" \/ (r.at = "lookup" /\ r.dev \in DeviceIds)
        BY <2>2, <3>2
      <3>4. Shape(r, KnownIds)
        BY <2>1, <2>2, <3>2, <3>3 DEF Shape
      <3> QED
        BY <3>1, <3>4
    <2>4. req' = [req EXCEPT ![q] = r] /\ req[q].op = "idle"
      BY <1>2 DEF RegisterBegin, Arrives
    <2> HIDE DEF r
    <2>5. Tokens'
      <3>1. seen' \in [1 .. MaxTokens -> Nat]
        <4>1. now + TTL \in Nat /\ seen \in [1 .. MaxTokens -> Nat]
          BY <1>0, PairingAssumption DEF Tokens
        <4>2. seen' = [seen EXCEPT ![t] = now + TTL]
          BY <1>2 DEF RegisterBegin, Consume
        <4> QED
          BY <2>1, <4>1, <4>2
      <3>2. redeemed' \in [1 .. MaxTokens -> Seq(Nat)]
        <4>1. Append(redeemed[t], now) \in Seq(Nat)
          BY <1>0, <2>1 DEF Tokens
        <4> QED
          BY <1>0, <1>2, <2>1, <4>1 DEF RegisterBegin, Tokens
      <3> QED
        BY <1>0, <1>2, <3>1, <3>2 DEF RegisterBegin, Tokens
    <2>6. KnownIds' = KnownIds
      BY <1>2 DEF RegisterBegin, KnownIds
    <2>7. Handlers'
      BY <2>3, <2>4, <2>6 DEF TInv, Handlers
    <2>8. UNCHANGED <<files, index, lost, cut>>
      BY <1>2 DEF RegisterBegin
    <2>9. Stores' /\ Writers' /\ Minted'
      BY <2>6, <2>8 DEF TInv, Stores, Writers, Minted
    <2>10. Served'
      <3>1. /\ req \in [Requests -> Handler] /\ Shape(req[q], KnownIds)
            /\ req[q].at \notin {"upserting", "removing"}
        BY <2>4, HandlerOf DEF TInv, Handlers, Shape
      <3>2. \A x \in Requests : x # q => req'[x] = req[x]
        BY <2>4, <3>1
      <3> QED
        BY <2>8, <3>1, <3>2, Unserved
    <2> QED
      BY <2>5, <2>7, <2>9, <2>10 DEF TInv
  <1> QED
    BY <1>1, <1>2

\* The row a registration stores.
LEMMA NewRowIs ==
    ASSUME TInv, NEW q \in Requests, req[q].op = "register", secrets < MaxSecrets
    PROVE  /\ NewRow(q) \in Row /\ NewRow(q).secret = secrets + 1
           /\ NewRow(q).id = IF req[q].dev = Nobody THEN secrets + 1 ELSE req[q].dev
           /\ NewRow(q).id \in KnownIds \cup {secrets + 1}
  <1>1. /\ req[q].push \in PushTokens /\ req[q].dev \in KnownIds \cup {Nobody}
        /\ secrets \in 0 .. MaxSecrets /\ KnownIds \subseteq DeviceIds
    BY HandlerOf, Known DEF TInv, Stores, Shape
  <1>2. secrets + 1 \in 1 .. MaxSecrets /\ secrets + 1 \in DeviceIds
    BY <1>1, PairingAssumption DEF DeviceIds
  <1> QED
    BY <1>1, <1>2 DEF NewRow, Row

\* What an operation leaves of the rows it has read.
LEMMA ResultRows ==
    ASSUME TInv, NEW p \in Processes, NEW u \in Users,
           Registers(writer[p][u].by) => secrets < MaxSecrets
    PROVE  LET w    == writer[p][u]
               rows == Result(w)
           IN  /\ rows \in Seq(Row) /\ Distinct(rows)
               /\ IdsOf(rows) \subseteq IdsOf(w.base) \cup
                     (IF Registers(w.by) THEN {NewRow(w.by).id} ELSE {})
               /\ \A i \in DOMAIN rows :
                     \/ \E j \in DOMAIN w.base : rows[i] = w.base[j]
                     \/ Registers(w.by) /\ rows[i].secret = secrets + 1
               /\ w.by \in Requests /\ ~ Registers(w.by) =>
                     \A i \in DOMAIN rows : rows[i].id # Head(req[w.by].todo)
  <1> DEFINE w == writer[p][u]
  <1>1. w.base \in Seq(Row) /\ Distinct(w.base)
    BY OperationOf
  <1>2. CASE Registers(w.by)
    <2> DEFINE row  == NewRow(w.by)
               base == w.base
               rows == Result(w)
    <2>1. row \in Row /\ row.secret = secrets + 1 /\ rows = Merged(base, row)
      BY <1>2, NewRowIs DEF Registers, Result
    <2>2. base \in Seq(Row) /\ Distinct(base)
      BY <1>1
    <2> HIDE DEF row, base, rows
    <2>3. /\ rows \in Seq(Row) /\ Distinct(rows)
          /\ IdsOf(rows) \subseteq IdsOf(base) \cup {row.id}
          /\ \A i \in DOMAIN rows :
                \/ rows[i].secret = row.secret
                \/ \E j \in DOMAIN base : rows[i] = base[j]
      BY <2>1, <2>2, MergedRows
    <2> QED
      BY <1>2, <2>1, <2>3 DEF row, base, rows
  <1>3. CASE ~ Registers(w.by)
    <2> DEFINE d == IF w.by \in Requests THEN Head(req[w.by].todo) ELSE w.by
    <2>1. Result(w) = Without(w.base, d)
      BY <1>3 DEF Result
    <2> HIDE DEF w, d
    <2>2. /\ Result(w) \in Seq(Row) /\ Distinct(Result(w))
          /\ IdsOf(Result(w)) \subseteq IdsOf(w.base)
          /\ \A i \in DOMAIN Result(w) :
                /\ Result(w)[i].id # d
                /\ \E j \in DOMAIN w.base : Result(w)[i] = w.base[j]
      BY <1>1, <2>1, WithoutRows
    <2> QED
      BY <1>3, <2>2 DEF w, d
  <1> QED
    BY <1>2, <1>3

\* An operation reads the rows; a handler may wait for it from now on.
LEMMA OpenTypes ==
    ASSUME TInv, NEW p \in Processes, NEW u \in Users,
           NEW by \in Requests \cup DeviceIds \cup {Nobody}, Open(p, u, by),
           UNCHANGED <<devices, torn, copy, secrets, back, clock, index, lost, cut>>, Handlers',
           \A x \in Requests : x # by => req'[x] = req[x],
           by \in Requests => /\ p = "api" /\ Waits(u, req'[by])
                              /\ req[by].at \notin {"upserting", "removing"}
    PROVE  TInv'
  <1> DEFINE w == [at |-> "held", by |-> by, base |-> devices[u]]
  <1>1. KnownIds' = KnownIds /\ devices[u] \in Seq(Row) /\ Distinct(devices[u])
    BY DEF TInv, Stores, KnownIds
  <1>2. w \in Operation /\ Distinct(w.base)
    BY <1>1 DEF Operation, Operations
  <1>3. writer' = [writer EXCEPT ![p][u] = w]
    BY DEF Open
  <1> HIDE DEF w
  <1>4. /\ \A o \in Processes, v \in Users :
              writer'[o][v] = IF o = p /\ v = u THEN w ELSE writer[o][v]
        /\ Writers'
    BY <1>2, <1>3, WriterAt DEF TInv
  <1>5. w.by = by /\ w.base = devices[u]
    BY DEF w
  <1>6. Served'
    <2> SUFFICES ASSUME NEW o \in Processes, NEW v \in Users, writer'[o][v].by \in Requests
                 PROVE  o = "api" /\ Waits(v, req'[writer'[o][v].by])
      BY DEF Served, Waits
    <2>1. CASE o = p /\ v = u
      BY <1>4, <1>5, <2>1
    <2>2. CASE ~ (o = p /\ v = u)
      <3>1. writer'[o][v] = writer[o][v]
        BY <1>4, <2>2
      <3>2. o = "api" /\ Waits(v, req[writer[o][v].by])
        BY <3>1, OperationOf
      <3>3. writer[o][v].by # by
        BY <3>1, <3>2 DEF Waits
      <3> QED
        BY <3>1, <3>2, <3>3
    <2> QED
      BY <2>1, <2>2
  <1>7. Minted'
    BY <1>1, <1>4, <1>5 DEF TInv, Minted
  <1>8. Stores' /\ Tokens'
    BY DEF TInv, Stores, Tokens
  <1> QED
    BY <1>4, <1>6, <1>7, <1>8 DEF TInv

\* An operation ends, and the handler it was for goes on.
LEMMA EndTypes ==
    ASSUME TInv, NEW p \in Processes, NEW u \in Users, Remember(p, u),
           devices' = devices \/ devices' = [devices EXCEPT ![u] = Result(writer[p][u])],
           torn' \subseteq Users, lost' \subseteq DeviceIds, UNCHANGED <<clock, index, cut>>,
           \/ writer[p][u].by \notin Requests /\ req' = req
           \/ /\ writer[p][u].by \in Requests
              /\ \E r \in Handler : /\ Shape(r, KnownIds)
                                    /\ req' = [req EXCEPT ![writer[p][u].by] = r]
    PROVE  TInv'
  <1> DEFINE w    == writer[p][u]
             rows == Result(w)
  <1>0. /\ writer' = [writer EXCEPT ![p][u] = Free]
        /\ copy' = copy \/ copy' = [copy EXCEPT ![u] = rows]
        /\ \/ Registers(w.by) /\ secrets < MaxSecrets /\ secrets' = secrets + 1
           \/ ~ Registers(w.by) /\ secrets' = secrets
    BY DEF Remember
  <1>1. /\ rows \in Seq(Row) /\ Distinct(rows)
        /\ IdsOf(rows) \subseteq IdsOf(w.base) \cup
              (IF Registers(w.by) THEN {NewRow(w.by).id} ELSE {})
    BY <1>0, ResultRows
  <1>2. /\ secrets' \in 0 .. MaxSecrets /\ KnownIds \subseteq KnownIds'
        /\ Registers(w.by) => KnownIds' = KnownIds \cup {secrets + 1}
    <2>1. secrets \in 0 .. MaxSecrets /\ MaxSecrets \in Nat
      BY PairingAssumption DEF TInv, Stores
    <2>2. CASE secrets < MaxSecrets /\ secrets' = secrets + 1
      <3>1. 1 .. secrets' = 1 .. secrets \cup {secrets + 1}
        BY <2>1, <2>2
      <3> QED
        BY <2>1, <2>2, <3>1 DEF KnownIds
    <2>3. CASE ~ Registers(w.by) /\ secrets' = secrets
      BY <2>1, <2>3 DEF KnownIds
    <2> QED
      BY <1>0, <2>2, <2>3
  <1>3. IdsOf(rows) \subseteq KnownIds'
    <2>1. IdsOf(w.base) \subseteq KnownIds
      BY OperationOf
    <2>2. CASE Registers(w.by)
      BY <1>0, <1>1, <1>2, <2>1, <2>2, NewRowIs DEF Registers
    <2> QED
      BY <1>1, <1>2, <2>1, <2>2
  <1> HIDE DEF rows
  <1>4. /\ \A o \in Processes, v \in Users :
              writer'[o][v] = IF o = p /\ v = u THEN Free ELSE writer[o][v]
        /\ Writers'
    BY <1>0, FreeIsOperation, WriterAt DEF TInv
  <1>5. /\ devices \in [Users -> Seq(Row)] /\ copy \in [Users -> Seq(Row)]
        /\ \A v \in Users : Distinct(devices[v])
    BY DEF TInv, Stores
  <1>6. /\ devices' \in [Users -> Seq(Row)] /\ copy' \in [Users -> Seq(Row)]
        /\ \A v \in Users : /\ devices'[v] = devices[v] \/ devices'[v] = rows
                            /\ copy'[v] = copy[v] \/ copy'[v] = rows
    BY <1>0, <1>1, <1>5 DEF rows
  <1>7. Stores' /\ Tokens'
    <2>1. \A v \in Users : Distinct(devices'[v])
      BY <1>1, <1>5, <1>6
    <2> QED
      BY <1>2, <1>6, <2>1 DEF TInv, Stores, Tokens
  <1>8. Minted'
    <2> SUFFICES ASSUME NEW d \in DeviceIds \ KnownIds'
                 PROVE  /\ index'[d] = Nobody
                        /\ \A v \in Users : d \notin IdsOf(devices'[v]) \cup IdsOf(copy'[v])
                        /\ \A o \in Processes, v \in Users : d \notin IdsOf(writer'[o][v].base)
      BY DEF Minted
    <2>1. d \in DeviceIds \ KnownIds /\ d \notin IdsOf(rows)
      BY <1>2, <1>3
    <2>2. /\ index[d] = Nobody
          /\ \A v \in Users : d \notin IdsOf(devices[v]) \cup IdsOf(copy[v])
          /\ \A o \in Processes, v \in Users : d \notin IdsOf(writer[o][v].base)
      BY <2>1 DEF TInv, Minted
    <2>3. \A v \in Users : d \notin IdsOf(devices'[v]) \cup IdsOf(copy'[v])
      BY <1>6, <2>1, <2>2
    <2>4. \A o \in Processes, v \in Users : d \notin IdsOf(writer'[o][v].base)
      BY <1>4, <2>2, FreeIsOperation
    <2> QED
      BY <1>4, <1>6, <2>2, <2>3, <2>4
  <1>9. /\ req' \in [Requests -> Handler]
        /\ \A x \in Requests : Shape(req'[x], KnownIds) /\ (x # w.by => req'[x] = req[x])
    BY DEF TInv, Handlers
  <1>10. Handlers'
    BY <1>2, <1>9 DEF Handlers, Shape
  <1>11. Served'
    <2> SUFFICES ASSUME NEW o \in Processes, NEW v \in Users, writer'[o][v].by \in Requests
                 PROVE  o = "api" /\ Waits(v, req'[writer'[o][v].by])
      BY DEF Served, Waits
    <2>1. writer'[o][v] = writer[o][v] /\ ~ (o = p /\ v = u)
      BY <1>4, FreeIsOperation, Known DEF TInv
    <2>2. o = "api" /\ Waits(v, req[writer[o][v].by])
      BY <2>1, OperationOf
    <2>3. writer[o][v].by # w.by
      <3>1. CASE w.by \in Requests
        <4>1. p = "api" /\ Waits(u, req[w.by])
          BY <3>1, OperationOf
        <4> QED
          BY <2>1, <2>2, <4>1 DEF Waits
      <3> QED
        BY <2>1, <3>1
    <2> QED
      BY <1>9, <2>1, <2>2, <2>3
  <1> QED
    BY <1>4, <1>7, <1>8, <1>10, <1>11 DEF TInv

\* Other operations of either process, and those of the handlers, begin ...
LEMMA BeginTypes ==
    ASSUME TInv, NEW p \in Processes, NEW u \in Users,
           Touch(p, u) \/ (\E d \in DeviceIds : Prune(p, u, d)) \/ Truncate(p, u)
    PROVE  TInv'
  <1>1. KnownIds' = KnownIds
    BY DEF Touch, Prune, Truncate, KnownIds
  <1>2. CASE Touch(p, u) \/ (\E d \in DeviceIds : Prune(p, u, d))
    <2>1. /\ \E by \in DeviceIds \cup {Nobody} : Open(p, u, by)
          /\ UNCHANGED <<devices, torn, copy, secrets, back, clock, index, lost, cut, req>>
      BY <1>2 DEF Touch, Prune
    <2>2. Handlers'
      BY <1>1, <2>1 DEF TInv, Handlers
    <2>3. \A by \in DeviceIds \cup {Nobody} : by \notin Requests
      BY Known DEF TInv
    <2> QED
      BY <2>1, <2>2, <2>3, OpenTypes
  <1>3. CASE Truncate(p, u)
    <2> DEFINE w == [writer[p][u] EXCEPT !.at = "writing"]
    <2>1. /\ writer[p][u] \in Operation /\ Distinct(writer[p][u].base)
          /\ writer \in [Processes -> [Users -> Operation]]
      BY OperationOf DEF TInv, Writers
    <2>2. /\ w \in Operation /\ Distinct(w.base) /\ w.by = writer[p][u].by
          /\ w.base = writer[p][u].base
      BY <2>1 DEF Operation, Operations
    <2>3. writer' = [writer EXCEPT ![p][u] = w]
      BY <1>3, <2>1 DEF Truncate
    <2> HIDE DEF w
    <2>4. /\ \A o \in Processes, v \in Users :
                writer'[o][v] = IF o = p /\ v = u THEN w ELSE writer[o][v]
          /\ Writers'
      BY <2>2, <2>3, WriterAt DEF TInv
    <2>5. Stores' /\ Tokens' /\ Handlers'
      BY <1>1, <1>3 DEF Truncate, TInv, Stores, Tokens, Handlers
    <2>6. Served'
      BY <1>3, <2>2, <2>4 DEF Truncate, TInv, Served, Waits
    <2>7. Minted'
      BY <1>1, <1>3, <2>2, <2>4 DEF Truncate, TInv, Minted
    <2> QED
      BY <2>4, <2>5, <2>6, <2>7 DEF TInv
  <1> QED
    BY <1>2, <1>3

LEMMA HandlerBeginTypes ==
    ASSUME TInv, NEW q \in Requests, Upsert(q) \/ RemoveOne(q) PROVE TInv'
  <1> DEFINE u == req[q].user
             r == [req[q] EXCEPT !.at = IF req[q].op = "register" THEN "upserting" ELSE "removing"]
  <1>0. req[q] \in Handler /\ Shape(req[q], KnownIds) /\ req \in [Requests -> Handler]
    BY HandlerOf DEF TInv, Handlers
  <1>1. /\ u \in Users /\ r \in Handler /\ Shape(r, KnownIds) /\ Waits(u, r)
        /\ req[q].at \notin {"upserting", "removing"}
        /\ req' = [req EXCEPT ![q] = r]
    <2>1. CASE Upsert(q)
      <3>1. req[q].op = "register" /\ req[q].at = "upsert"
        BY <1>0, <2>1 DEF Upsert, Shape, Handler
      <3> QED
        BY <1>0, <2>1, <3>1 DEF Upsert, Goto, Shape, Handler, Waits
    <2>2. CASE RemoveOne(q)
      <3>1. req[q].op # "register" /\ req[q].at = "remove" /\ req[q].todo # <<>>
        BY <1>0, <2>2 DEF RemoveOne, Shape, Handler
      <3> QED
        BY <1>0, <2>2, <3>1 DEF RemoveOne, Goto, Shape, Handler, Waits
    <2> QED
      BY <2>1, <2>2
  <1>2. /\ Open("api", u, q)
        /\ UNCHANGED <<devices, torn, copy, secrets, back, clock, index, lost, cut>>
    BY DEF Upsert, RemoveOne
  <1>3. KnownIds' = KnownIds
    BY <1>2 DEF KnownIds
  <1> HIDE DEF r, u
  <1>4. Handlers' /\ req'[q] = r /\ \A x \in Requests : x # q => req'[x] = req[x]
    BY <1>0, <1>1, <1>3 DEF TInv, Handlers
  <1> QED
    BY <1>1, <1>2, <1>4, OpenTypes DEF Processes

\* ... and end.
LEMMA WriteTypes ==
    ASSUME TInv, NEW p \in Processes, NEW u \in Users, Write(p, u) \/ WriteFails(p, u)
    PROVE  TInv'
  <1> DEFINE w == writer[p][u]
  <1>1. Remember(p, u) /\ UNCHANGED <<clock, index, cut>>
    BY DEF Write, WriteFails
  <1>2. /\ devices' = devices \/ devices' = [devices EXCEPT ![u] = Result(w)]
        /\ torn' \subseteq Users
    BY DEF Write, WriteFails, TInv, Stores
  <1>3. lost' \subseteq DeviceIds
    <2>1. lost \subseteq DeviceIds /\ KnownIds \subseteq DeviceIds
      BY Known DEF TInv, Stores
    <2>2. Restored(u, Result(w)) \subseteq DeviceIds
      BY <2>1 DEF Restored
    <2>3. Unpublished(u, Result(w)) \subseteq DeviceIds
      <3>1. devices[u] \in Seq(Row)
        BY DEF TInv, Stores
      <3>2. Ids(u) \subseteq DeviceIds
        BY <3>1, RowIsRow DEF Ids, IdsOf
      <3> QED
        BY <3>2 DEF Unpublished
    <2> QED
      BY <2>1, <2>2, <2>3 DEF Write, WriteFails
  <1>4. CASE w.by \notin Requests
    <2>1. req' = req
      BY <1>4 DEF Write, WriteFails
    <2> QED
      BY <1>1, <1>2, <1>3, <1>4, <2>1, EndTypes
  <1>5. CASE w.by \in Requests
    <2> DEFINE q    == w.by
               list == [req[q] EXCEPT !.at = "list"]
               dr   == [req[q] EXCEPT !.at = "drop"]
               skip == [[[req[q] EXCEPT !.at = "remove"] EXCEPT !.todo = Tail(@)]
                            EXCEPT !.clean = FALSE]
    <2>1. /\ req[q] \in Handler /\ Shape(req[q], KnownIds) /\ req \in [Requests -> Handler]
          /\ Waits(u, req[q])
      BY <1>5, HandlerOf, OperationOf DEF TInv, Handlers
    <2>2. CASE req[q].op = "register"
      <3>1. list \in Handler /\ Shape(list, KnownIds)
        BY <2>1, <2>2 DEF Shape, Handler
      <3>2. req' = [req EXCEPT ![q] = list] \/ req' = [req EXCEPT ![q] = Idle]
        BY <1>5, <2>1, <2>2 DEF Write, WriteFails, Goto, GiveUp, Finish, Registers
      <3> HIDE DEF list
      <3>3. \E r \in Handler : Shape(r, KnownIds) /\ req' = [req EXCEPT ![q] = r]
        BY <3>1, <3>2, IdleIsHandler
      <3> QED
        BY <1>1, <1>2, <1>3, <1>5, <3>3, EndTypes
    <2>3. CASE req[q].op # "register"
      <3>1. req[q].todo \in Seq(DeviceIds) /\ req[q].todo # <<>> /\ req[q].at = "removing"
        BY <2>1, <2>3 DEF Shape, Handler, Waits
      <3>2. Tail(req[q].todo) \in Seq(DeviceIds)
        BY <3>1
      <3>3. dr \in Handler /\ Shape(dr, KnownIds)
        BY <2>1, <2>3, <3>1 DEF Shape, Handler
      <3>4. skip \in Handler /\ Shape(skip, KnownIds)
        <4>1. skip \in Handler
          BY <2>1, <3>2 DEF Handler
        <4>2. /\ skip.op = req[q].op /\ skip.user = req[q].user /\ skip.dev = req[q].dev
              /\ skip.at = "remove"
          BY <2>1 DEF Handler
        <4>3. req[q].op \in {"deregister", "delete", "revoke", "unpair"} /\ req[q].user \in Users
          BY <2>1, <2>3, <3>1 DEF Shape, Handler
        <4> HIDE DEF skip
        <4> QED
          BY <2>1, <4>1, <4>2, <4>3 DEF Shape
      <3>5. \/ req' = [req EXCEPT ![q] = dr] \/ req' = [req EXCEPT ![q] = skip]
            \/ req' = [req EXCEPT ![q] = Idle]
        BY <1>5, <2>1, <2>3 DEF Write, WriteFails, Goto, GiveUp, Finish, Registers, Handler
      <3> HIDE DEF dr, skip
      <3>6. \E r \in Handler : Shape(r, KnownIds) /\ req' = [req EXCEPT ![q] = r]
        BY <3>3, <3>4, <3>5, IdleIsHandler
      <3> QED
        BY <1>1, <1>2, <1>3, <1>5, <3>6, EndTypes
    <2> QED
      BY <2>2, <2>3
  <1> QED
    BY <1>4, <1>5

LEMMA OtherTypes ==
    ASSUME TInv, \/ \E u \in Users : ListDevices(u)
                 \/ Restart \/ RestartDaemon \/ Tick \/ UNCHANGED vars
    PROVE  TInv'
  <1>0. writer \in [Processes -> [Users -> Operation]]
    BY DEF TInv, Writers
  <1>1. CASE \E u \in Users : ListDevices(u)
    <2>1. /\ UNCHANGED <<devices, torn, writer, secrets, back, clock, index, req, lost, cut>>
          /\ \E u \in Users : Look(u)
      BY <1>1 DEF ListDevices
    <2>2. KnownIds' = KnownIds
      BY <2>1 DEF KnownIds
    <2>3. /\ copy' \in [Users -> Seq(Row)]
          /\ \A d \in DeviceIds \ KnownIds : \A u \in Users : d \notin IdsOf(copy'[u])
      BY <2>1, LookTypes
    <2>4. Stores' /\ Writers' /\ Tokens' /\ Handlers'
      BY <2>1, <2>2, <2>3 DEF TInv, Stores, Writers, Tokens, Handlers
    <2>5. Served' /\ Minted'
      BY <2>1, <2>2, <2>3 DEF TInv, Served, Waits, Minted
    <2> QED
      BY <2>4, <2>5 DEF TInv
  <1>2. ASSUME NEW p \in Processes, writer' = [writer EXCEPT ![p] = [u \in Users |-> Free]],
               UNCHANGED <<now, tokens, devices, torn, secrets, lost, cut>>,
               copy' = copy \/ copy' = [u \in Users |-> <<>>],
               index' = index \/ index' = [d \in DeviceIds |-> Nobody],
               \/ UNCHANGED <<seen, redeemed>>
               \/ seen' = [t \in 1 .. MaxTokens |-> 0] /\ redeemed' = [t \in 1 .. MaxTokens |-> <<>>],
               req' = req \/ (req' = [q \in Requests |-> Idle] /\ p = "api")
        PROVE  TInv'
    <2>1. \A o \in Processes, u \in Users :
             writer'[o][u] = IF o = p THEN Free ELSE writer[o][u]
      BY <1>0, <1>2
    <2>2. KnownIds' = KnownIds
      BY <1>2 DEF KnownIds
    <2>3. Stores' /\ Tokens'
      <3>1. copy' \in [Users -> Seq(Row)]
        <4>1. copy \in [Users -> Seq(Row)] /\ [u \in Users |-> <<>>] \in [Users -> Seq(Row)]
          BY DEF TInv, Stores
        <4> QED
          BY <1>2, <4>1
      <3>2. index' \in [DeviceIds -> Owners]
        BY <1>2 DEF TInv, Stores, Owners
      <3>3. /\ seen' \in [1 .. MaxTokens -> Nat]
            /\ redeemed' \in [1 .. MaxTokens -> Seq(Nat)]
        <4>1. /\ seen \in [1 .. MaxTokens -> Nat] /\ redeemed \in [1 .. MaxTokens -> Seq(Nat)]
              /\ [t \in 1 .. MaxTokens |-> 0] \in [1 .. MaxTokens -> Nat]
              /\ [t \in 1 .. MaxTokens |-> <<>>] \in [1 .. MaxTokens -> Seq(Nat)]
          BY DEF TInv, Tokens
        <4> QED
          BY <1>2, <4>1
      <3>4. Stores'
        BY <1>2, <3>1, <3>2 DEF TInv, Stores
      <3> QED
        BY <1>2, <3>3, <3>4 DEF TInv, Tokens
    <2>4. Writers'
      <3>1. writer' \in [Processes -> [Users -> Operation]]
        BY <1>0, <1>2, FreeIsOperation
      <3> QED
        BY <2>1, <3>1, FreeIsOperation DEF TInv, Writers
    <2>5. Handlers'
      BY <1>2, <2>2, IdleIsHandler DEF TInv, Handlers
    <2>6. Served'
      <3> SUFFICES ASSUME NEW o \in Processes, NEW v \in Users, writer'[o][v].by \in Requests
                   PROVE  o = "api" /\ Waits(v, req'[writer'[o][v].by])
        BY DEF Served, Waits
      <3>1. o # p /\ writer'[o][v] = writer[o][v]
        BY <2>1, FreeIsOperation, Known DEF TInv
      <3>2. o = "api" /\ Waits(v, req[writer[o][v].by])
        BY <3>1, OperationOf
      <3> QED
        BY <1>2, <3>1, <3>2
    <2>7. Minted'
      <3>1. IdsOf(<<>>) = {}
        BY DEF IdsOf
      <3> QED
        BY <1>2, <2>1, <2>2, <3>1, FreeIsOperation DEF TInv, Minted
    <2> QED
      BY <2>3, <2>4, <2>5, <2>6, <2>7 DEF TInv
  <1>3. CASE Restart
    BY <1>2, <1>3 DEF Restart, Processes
  <1>4. CASE RestartDaemon
    BY <1>2, <1>4 DEF RestartDaemon, Processes
  <1>5. CASE Tick \/ UNCHANGED vars
    <2>1. UNCHANGED <<tokens, seen, redeemed, files, index, lost, cut, req>>
      BY <1>5 DEF Tick, vars
    <2>2. now' \in 0 .. MaxTime
      BY <1>5, PairingAssumption DEF Tick, vars, TInv, Tokens
    <2>3. Tokens'
      BY <2>1, <2>2 DEF TInv, Tokens
    <2> QED
      BY <2>1, <2>3, SameFiles DEF TInv
  <1> QED
    BY <1>1, <1>3, <1>4, <1>5

LEMMA TInvNext == TInv /\ [Next]_vars => TInv'
  <1> SUFFICES ASSUME TInv, [Next]_vars PROVE TInv'
    OBVIOUS
  <1>1. ASSUME NEW q \in Requests, Register(q) PROVE TInv'
    BY <1>1, QuietTypes, LookingTypes, IndexTypes, TokenTypes, HandlerBeginTypes DEF Register
  <1>2. ASSUME NEW q \in Requests, Find(q) PROVE TInv'
    BY <1>2, QuietTypes, IndexTypes DEF Find
  <1>3. ASSUME NEW q \in Requests, Unregister(q) PROVE TInv'
    BY <1>3, QuietTypes, LookingTypes, ArrivesTypes, IndexTypes, HandlerBeginTypes
    DEF Unregister
  <1>4. ASSUME NEW p \in Processes, NEW u \in Users, Store(p, u) PROVE TInv'
    BY <1>4, BeginTypes, WriteTypes DEF Store
  <1> QED
    BY <1>1, <1>2, <1>3, <1>4, TokenTypes, OtherTypes DEF Next, Handle

LEMMA TypesInvariant == Spec => []TInv
  BY TInvInit, TInvNext, PTL DEF Spec

\* For any number of users, ids, push tokens, requests, faults and other writes:
\* the variables keep their types, no file has two rows of one device id, and no
\* operation of either process reads two.
THEOREM TypeCorrect == Spec => []TypeOK
  <1>1. TInv => TypeOK
    BY DEF TInv, Stores, Writers, Operation, Tokens, Owners, Distinct, TypeOK
  <1> QED
    BY <1>1, TypesInvariant, PTL
-----------------------------------------------------------------------------
(***************************************************************************)
(* A token is redeemed once.                                               *)
(***************************************************************************)

\* A nonce is remembered for a TTL after each of its redemptions.
Remembered ==
    \A t \in 1 .. MaxTokens : \A i \in DOMAIN redeemed[t] : redeemed[t][i] + TTL <= seen[t]

KInv == Remembered /\ TokenOnce

LEMMA TokenIndex ==
    ASSUME Tokens, NEW t \in DOMAIN tokens PROVE t \in 1 .. MaxTokens /\ tokens[t] \in Token
  <1>1. tokens \in Seq(Token) /\ Len(tokens) <= MaxTokens
    BY DEF Tokens
  <1>2. t \in 1 .. Len(tokens) /\ tokens[t] \in Token
    BY <1>1
  <1> QED
    BY <1>1, <1>2, PairingAssumption

LEMMA KInvInit == Init => KInv
  BY DEF Init, KInv, Remembered, TokenOnce

LEMMA RedeemOnce ==
    ASSUME TInv, KInv, NEW q \in Requests, NEW t \in DOMAIN tokens,
           NEW d, NEW p, RegisterBegin(q, t, d, p)
    PROVE  KInv'
  <1> DEFINE new == Append(redeemed[t], now)
             n   == Len(redeemed[t])
  <1>1. /\ t \in 1 .. MaxTokens /\ redeemed[t] \in Seq(Nat) /\ seen[t] \in Nat /\ now \in Nat
        /\ TTL \in Nat /\ seen \in [1 .. MaxTokens -> Nat]
        /\ redeemed \in [1 .. MaxTokens -> Seq(Nat)]
    BY TokenIndex, PairingAssumption DEF TInv, Tokens
  <1>2. /\ seen' = [seen EXCEPT ![t] = now + TTL] /\ ~(now < seen[t])
        /\ redeemed' = [redeemed EXCEPT ![t] = new]
    BY DEF RegisterBegin, Consume
  <1>3. /\ new \in Seq(Nat) /\ DOMAIN new = 1 .. n + 1 /\ n \in Nat /\ new[n + 1] = now
        /\ DOMAIN redeemed[t] = 1 .. n
        /\ \A i \in 1 .. n : new[i] = redeemed[t][i] /\ new[i] \in Nat
    BY <1>1
  <1> HIDE DEF new, n
  <1>4. \A i \in 1 .. n : redeemed[t][i] + TTL <= seen[t]
    BY <1>1, <1>3 DEF KInv, Remembered
  <1>5. seen[t] <= now
    BY <1>1, <1>2
  <1>6. ASSUME NEW i \in 1 .. n PROVE new[i] + TTL <= now /\ now - new[i] >= TTL
    <2>1. new[i] \in Nat /\ new[i] + TTL <= seen[t]
      BY <1>3, <1>4
    <2> QED
      BY <1>1, <1>5, <2>1
  <1>7. \A i \in DOMAIN new : new[i] + TTL <= now + TTL
    BY <1>1, <1>3, <1>6
  <1>8. \A i, j \in DOMAIN new : i < j => new[j] - new[i] >= TTL
    <2>1. \A i, j \in 1 .. n : i < j => redeemed[t][j] - redeemed[t][i] >= TTL
      BY <1>1, <1>3 DEF KInv, TokenOnce
    <2>2. ASSUME NEW i \in 1 .. n, NEW j \in 1 .. n, i < j PROVE new[j] - new[i] >= TTL
      BY <1>3, <2>1, <2>2
    <2>3. ASSUME NEW i \in 1 .. n PROVE new[n + 1] - new[i] >= TTL
      BY <1>3, <1>6, <2>3
    <2>4. ASSUME NEW i \in 1 .. n + 1, NEW j \in 1 .. n + 1, i < j
          PROVE  new[j] - new[i] >= TTL
      <3>1. i \in 1 .. n /\ (j \in 1 .. n \/ j = n + 1)
        BY <1>3, <2>4
      <3> QED
        BY <2>2, <2>3, <2>4, <3>1
    <2> QED
      BY <1>3, <2>4
  <1>9. \A x \in 1 .. MaxTokens : /\ redeemed'[x] = IF x = t THEN new ELSE redeemed[x]
                                  /\ seen'[x] = IF x = t THEN now + TTL ELSE seen[x]
    BY <1>1, <1>2
  <1>10. Remembered'
    BY <1>7, <1>9 DEF KInv, Remembered
  <1>11. TokenOnce'
    <2>1. DOMAIN redeemed' = 1 .. MaxTokens /\ DOMAIN redeemed = 1 .. MaxTokens
      BY <1>1, <1>2
    <2> QED
      BY <1>8, <1>9, <2>1 DEF KInv, TokenOnce
  <1> QED
    BY <1>10, <1>11 DEF KInv

LEMMA KInvNext == TInv /\ KInv /\ [Next]_vars => KInv'
  <1> SUFFICES ASSUME TInv, KInv, [Next]_vars PROVE KInv'
    OBVIOUS
  <1>1. ASSUME UNCHANGED <<redeemed, seen>> PROVE KInv'
    BY <1>1 DEF KInv, Remembered, TokenOnce
  <1>2. CASE Restart
    <2>1. redeemed' = [t \in 1 .. MaxTokens |-> <<>>]
      BY <1>2 DEF Restart
    <2> QED
      BY <2>1 DEF KInv, Remembered, TokenOnce
  <1>3. ASSUME NEW q \in Requests, Register(q) PROVE KInv'
    <2>1. CASE \E t \in DOMAIN tokens, d \in ChosenIds \cup {Nobody}, p \in PushTokens :
                  RegisterBegin(q, t, d, p)
      BY <2>1, RedeemOnce
    <2>2. CASE Reserve(q) \/ Upsert(q) \/ RegisterFails(q) \/ ListRegistered(q) \/ Publish(q)
      BY <1>1, <2>2 DEF Reserve, Upsert, RegisterFails, ListRegistered, Publish
    <2> QED
      BY <1>3, <2>1, <2>2 DEF Register
  <1>4. ASSUME NEW q \in Requests, Find(q) PROVE KInv'
    BY <1>1, <1>4 DEF Find, Lookup, LookupAgain, RescanWrite, RescanFails, Rescan, RescanSkips
  <1>5. ASSUME NEW q \in Requests, Unregister(q) PROVE KInv'
    BY <1>1, <1>5 DEF Unregister, DeleteBegin, DeregisterBegin, RevokeBegin, Authenticate,
                      Refuse, RemoveOne, RemoveAbsent, RemoveFails, Drop, RemoveDone
  <1>6. ASSUME NEW p \in Processes, NEW u \in Users, Store(p, u) PROVE KInv'
    BY <1>1, <1>6 DEF Store, Touch, Prune, Truncate, Write, WriteFails
  <1>7. CASE (\E u \in Users : MintToken(u) \/ ListDevices(u)) \/ RestartDaemon \/ Tick
             \/ UNCHANGED vars
    BY <1>1, <1>7 DEF MintToken, ListDevices, RestartDaemon, Tick, vars
  <1> QED
    BY <1>2, <1>3, <1>4, <1>5, <1>6, <1>7 DEF Next, Handle

\* For any TTL, clock and number of requests: between two redemptions of a
\* pairing token lies a restart or a TTL, however the registrations interleave.
THEOREM TokenOnceAlways == Spec => []TokenOnce
  <1>1. KInv => TokenOnce
    BY DEF KInv
  <1> QED
    BY <1>1, KInvInit, KInvNext, TypesInvariant, PTL DEF Spec
-----------------------------------------------------------------------------
(***************************************************************************)
(* A revoked device stays out.                                             *)
(***************************************************************************)

\* The ids a revocation has still to remove; the one at hand is out of the file.
Left(r) == {r.todo[k] : k \in (IF r.at = "drop" THEN 2 ELSE 1) .. Len(r.todo)}

\* A revocation that met no error and listed the devices from the file.
Revoking(r) == r.op \in {"revoke", "unpair"} /\ r.clean

RowsOf(rows) == {rows[i] : i \in DOMAIN rows}

\* The rows of u's file, and those the API has read to write them.  The daemon's
\* do not count: what they put back is in back.
Stored(u) ==
    RowsOf(devices[u]) \cup (IF MutexFree(u) THEN {} ELSE RowsOf(writer["api"][u].base))

\* What is stored is newer than the last revocation, or was put back, ...
Cut ==
    \A u \in Users : /\ cut[u] <= secrets
                     /\ \A row \in Stored(u) : row.secret > cut[u] \/ row.secret \in back

\* ... and so with one under way, or else it is on its list.
Listed ==
    \A q \in Requests : Revoking(req[q]) =>
        /\ req[q].upto <= secrets
        /\ \A row \in Stored(req[q].user) :
              \/ row.secret > req[q].upto \/ row.secret \in back
              \/ row.id \in Left(req[q])

RInv == Cut /\ Listed

LEMMA RInvInit == Init => RInv
  BY IdleIsHandler DEF Init, RInv, Cut, Listed, Stored, RowsOf, MutexFree, Processes, Free,
                       Revoking, Idle

\* Rows that were there, or one with a newer secret, or one the daemon puts back;
\* what leaves a revocation's list has left the file.
LEMMA RowsKeepRevoked ==
    ASSUME TInv, RInv, cut' = cut, secrets' \in Nat, secrets <= secrets', back \subseteq back',
           \A v \in Users : \A row \in Stored(v)' :
              \/ row \in Stored(v) \/ row.secret \in back'
              \/ row.secret = secrets' /\ secrets < secrets',
           \A q \in Requests : Revoking(req'[q]) =>
               /\ Revoking(req[q]) /\ req'[q].upto = req[q].upto /\ req'[q].user = req[q].user
               /\ \A v \in Users : v = req[q].user =>
                     \A row \in Stored(v)' : row.id \in Left(req[q]) => row.id \in Left(req'[q])
    PROVE  RInv'
  <1>0. secrets \in Nat /\ cut \in [Users -> 0 .. MaxSecrets] /\ MaxSecrets \in Nat
    BY PairingAssumption DEF TInv, Stores
  <1>1. ASSUME NEW v \in Users
        PROVE  /\ cut[v] \in Nat /\ cut[v] <= secrets /\ cut[v] <= secrets'
               /\ \A row \in Stored(v) : row.secret > cut[v] \/ row.secret \in back
    <2>1. cut[v] \in Nat
      BY <1>0
    <2> QED
      BY <1>0, <2>1 DEF RInv, Cut
  <1>2. ASSUME NEW v \in Users, NEW row \in Stored(v)'
        PROVE  row.secret > cut[v] \/ row.secret \in back'
    <2>1. CASE row.secret = secrets' /\ secrets < secrets'
      BY <1>0, <1>1, <2>1
    <2>2. CASE row \in Stored(v) \/ row.secret \in back'
      BY <1>1, <2>2
    <2> QED
      BY <1>2, <2>1, <2>2
  <1>3. Cut'
    BY <1>1, <1>2 DEF Cut
  <1>4. ASSUME NEW q \in Requests, Revoking(req'[q]),
               NEW v \in Users, v = req[q].user, NEW n \in Nat, n = req[q].upto
        PROVE  /\ req'[q].upto <= secrets' /\ req'[q].user = v
               /\ \A row \in Stored(v)' : \/ row.secret > req'[q].upto \/ row.secret \in back'
                                         \/ row.id \in Left(req'[q])
    <2>1. /\ Revoking(req[q]) /\ req'[q].upto = n /\ req'[q].user = v /\ n <= secrets
          /\ \A row \in Stored(v) : \/ row.secret > n \/ row.secret \in back
                                    \/ row.id \in Left(req[q])
          /\ \A row \in Stored(v)' : row.id \in Left(req[q]) => row.id \in Left(req'[q])
      BY <1>4 DEF RInv, Listed
    <2>2. n <= secrets'
      BY <1>0, <2>1
    <2>3. ASSUME NEW row \in Stored(v)'
          PROVE  row.secret > n \/ row.secret \in back' \/ row.id \in Left(req'[q])
      <3>1. CASE row.secret = secrets' /\ secrets < secrets'
        BY <1>0, <2>1, <3>1
      <3>2. CASE row \in Stored(v) \/ row.secret \in back'
        BY <2>1, <2>3, <3>2
      <3> QED
        BY <2>3, <3>1, <3>2
    <2> QED
      BY <2>1, <2>2, <2>3
  <1>5. Listed'
    <2> SUFFICES ASSUME NEW q \in Requests, Revoking(req'[q])
                 PROVE  /\ req'[q].upto <= secrets'
                        /\ \A row \in Stored(req[q].user)' :
                              \/ row.secret > req'[q].upto \/ row.secret \in back'
                              \/ row.id \in Left(req'[q])
      BY DEF Listed
    <2>1. req[q].user \in Users /\ req[q].upto \in Nat /\ req'[q].user = req[q].user
      <3>1. req[q] \in Handler /\ Shape(req[q], KnownIds) /\ Revoking(req[q])
        BY HandlerOf
      <3>2. req[q].upto \in 0 .. MaxSecrets
        BY <3>1 DEF Handler
      <3>3. req[q].user \in Users
        BY <3>1 DEF Shape, Revoking
      <3> QED
        BY <1>0, <3>2, <3>3
    <2> QED
      BY <1>4, <2>1
  <1> QED
    BY <1>3, <1>5 DEF RInv

\* No row is added, and the revocations under way have what they had to do.
LEMMA RevocationsStay ==
    ASSUME TInv, RInv, UNCHANGED <<secrets, back, cut>>,
           \A u \in Users : Stored(u)' \subseteq Stored(u),
           \A q \in Requests : Revoking(req'[q]) =>
               /\ Revoking(req[q]) /\ req'[q].upto = req[q].upto /\ req'[q].user = req[q].user
               /\ Left(req[q]) \subseteq Left(req'[q])
    PROVE  RInv'
  <1>1. secrets' \in Nat /\ secrets <= secrets'
    BY PairingAssumption DEF TInv, Stores
  <1> QED
    BY <1>1, RowsKeepRevoked

LEMMA SameStored ==
    ASSUME NEW u, UNCHANGED <<devices, writer>> PROVE Stored(u)' = Stored(u)
  BY DEF Stored, RowsOf, MutexFree

\* An operation of the API, or of the daemon, begins or goes on.
LEMMA OpenStored ==
    ASSUME TInv, NEW p \in Processes, NEW u \in Users, devices' = devices,
           \/ \E by \in Requests \cup DeviceIds \cup {Nobody} : Open(p, u, by)
           \/ Truncate(p, u)
    PROVE  \A v \in Users : Stored(v)' \subseteq Stored(v)
  <1>0. writer \in [Processes -> [Users -> Operation]]
    BY DEF TInv, Writers
  <1>1. ASSUME NEW by \in Requests \cup DeviceIds \cup {Nobody}, Open(p, u, by),
               NEW v \in Users
        PROVE  Stored(v)' \subseteq Stored(v)
    <2>1. \/ writer'["api"][v] = writer["api"][v]
          \/ v = u /\ writer'["api"][v].at = "held" /\ writer'["api"][v].base = devices[v]
      BY <1>0, <1>1 DEF Open, Processes
    <2> QED
      BY <2>1 DEF Stored, RowsOf, MutexFree
  <1>2. ASSUME Truncate(p, u), NEW v \in Users PROVE Stored(v)' \subseteq Stored(v)
    <2>1. writer["api"][v] \in Operation
      BY <1>0 DEF Processes
    <2>2. \/ writer'["api"][v] = writer["api"][v]
          \/ /\ writer["api"][v].at = "held" /\ writer'["api"][v].at = "writing"
             /\ writer'["api"][v].base = writer["api"][v].base
      BY <1>0, <1>2, <2>1 DEF Truncate, Processes, Operation
    <2> QED
      BY <2>2 DEF Stored, RowsOf, MutexFree
  <1> QED
    BY <1>1, <1>2

\* What a step of a handler does to the handlers: the others stay, and its own
\* goes on or ends.
LEMMA FindMoves ==
    ASSUME TInv, NEW q \in Requests, Find(q)
    PROVE  /\ \A x \in Requests : x # q => req'[x] = req[x]
           /\ req'[q] = Idle \/ req'[q].op = req[q].op
           /\ req[q].op \in {"register", "deregister"}
           /\ UNCHANGED <<files, cut>>
  <1>0. req[q] \in Handler /\ Shape(req[q], KnownIds) /\ req \in [Requests -> Handler]
    BY HandlerOf DEF TInv, Handlers
  <1>1. CASE Lookup(q)
    <2>1. req[q].op \in {"register", "deregister"}
      BY <1>0, <1>1 DEF Lookup, Shape, Handler
    <2> QED
      BY <1>0, <1>1, <2>1 DEF Lookup, Handler
  <1>2. CASE LookupAgain(q)
    <2>1. req[q].op \in {"register", "deregister"}
      BY <1>0, <1>2 DEF LookupAgain, Shape, Handler
    <2>2. \/ req' = [req EXCEPT ![q] = Idle]
          \/ req' = [req EXCEPT ![q].at = "get", ![q].user = index[req[q].dev]]
      BY <1>0, <1>2 DEF LookupAgain
    <2>3. CASE req' = [req EXCEPT ![q] = Idle]
      BY <1>0, <1>2, <2>1, <2>3 DEF LookupAgain
    <2>4. CASE req' = [req EXCEPT ![q].at = "get", ![q].user = index[req[q].dev]]
      BY <1>0, <1>2, <2>1, <2>4 DEF LookupAgain, Handler
    <2> QED
      BY <2>2, <2>3, <2>4
  <1>3. CASE RescanWrite(q) \/ RescanFails(q) \/ \E u \in Users : Rescan(q, u) \/ RescanSkips(q, u)
    <2>1. req[q].op \in {"register", "deregister"} /\ UNCHANGED <<files, cut>>
      BY <1>0, <1>3 DEF RescanWrite, RescanFails, Rescan, RescanSkips, Shape, Handler
    <2>2. CASE RescanWrite(q)
      BY <1>0, <2>1, <2>2 DEF RescanWrite, Handler
    <2>3. CASE RescanFails(q)
      BY <1>0, <2>1, <2>3 DEF RescanFails, Handler
    <2>4. ASSUME NEW u \in Users, Rescan(q, u)
          PROVE  req'[q].op = req[q].op /\ \A x \in Requests : x # q => req'[x] = req[x]
      <3> DEFINE next == [d \in DeviceIds |-> IF d \in Ids(u) THEN u ELSE req[q].next[d]]
                 r    == [[req[q] EXCEPT !.unread = @ \ {u}] EXCEPT !.next = next]
      <3>1. req' = [req EXCEPT ![q] = r]
        BY <1>0, <2>4 DEF Rescan, Handler
      <3> HIDE DEF next
      <3>2. r.op = req[q].op
        BY <1>0 DEF Handler
      <3> QED
        BY <1>0, <3>1, <3>2
    <2>5. ASSUME NEW u \in Users, RescanSkips(q, u)
          PROVE  req'[q].op = req[q].op /\ \A x \in Requests : x # q => req'[x] = req[x]
      BY <1>0, <2>5 DEF RescanSkips, Handler
    <2> QED
      BY <1>3, <2>1, <2>2, <2>3, <2>4, <2>5
  <1> QED
    BY <1>1, <1>2, <1>3 DEF Find

LEMMA RegisterMoves ==
    ASSUME TInv, NEW q \in Requests, Register(q)
    PROVE  /\ \A x \in Requests : x # q => req'[x] = req[x]
           /\ req'[q] = Idle \/ req'[q].op = "register"
           /\ UNCHANGED <<devices, torn, secrets, back, cut>>
           /\ writer' = writer \/ \E u \in Users, p \in Processes : Open(p, u, q)
  <1>0. req[q] \in Handler /\ Shape(req[q], KnownIds) /\ req \in [Requests -> Handler]
    BY HandlerOf DEF TInv, Handlers
  <1>1. ASSUME NEW t, NEW d, NEW p, RegisterBegin(q, t, d, p)
        PROVE  /\ \A x \in Requests : x # q => req'[x] = req[x]
               /\ req'[q].op = "register"
               /\ UNCHANGED <<files, cut>>
    BY <1>0, <1>1 DEF RegisterBegin, Idle
  <1>2. CASE Reserve(q)
    <2>1. req[q].op = "register"
      BY <1>0, <1>2 DEF Reserve, Shape, Handler
    <2>2. req' = [req EXCEPT ![q].at = "upsert"] \/ req' = [req EXCEPT ![q] = Idle]
      BY <1>2 DEF Reserve, Goto, Finish
    <2> QED
      BY <1>0, <1>2, <2>1, <2>2 DEF Reserve, Handler
  <1>3. CASE Upsert(q)
    <2>1. req[q].op = "register" /\ req[q].user \in Users
      BY <1>0, <1>3 DEF Upsert, Shape, Handler
    <2> QED
      BY <1>0, <1>3, <2>1 DEF Upsert, Goto, Processes, Handler
  <1>4. CASE RegisterFails(q) \/ Publish(q)
    BY <1>0, <1>4 DEF RegisterFails, Publish, Finish
  <1>5. CASE ListRegistered(q)
    <2>1. req[q].op = "register"
      BY <1>0, <1>5 DEF ListRegistered, Shape, Handler
    <2> QED
      BY <1>0, <1>5, <2>1 DEF ListRegistered, Handler
  <1> QED
    BY <1>1, <1>2, <1>3, <1>4, <1>5 DEF Register

LEMMA UnregisterMoves ==
    ASSUME TInv, NEW q \in Requests, Unregister(q)
    PROVE  /\ \A x \in Requests : x # q => req'[x] = req[x]
           /\ req'[q].op # "register"
           /\ UNCHANGED <<devices, torn, secrets, back>>
  <1>0. req[q] \in Handler /\ Shape(req[q], KnownIds) /\ req \in [Requests -> Handler]
    BY HandlerOf DEF TInv, Handlers
  <1>1. ASSUME NEW u, NEW d, DeleteBegin(q, u, d)
        PROVE  /\ \A x \in Requests : x # q => req'[x] = req[x]
               /\ req'[q].op = "delete" /\ UNCHANGED files
    BY <1>0, <1>1 DEF DeleteBegin, Idle
  <1>2. ASSUME NEW d, DeregisterBegin(q, d)
        PROVE  /\ \A x \in Requests : x # q => req'[x] = req[x]
               /\ req'[q].op = "deregister" /\ UNCHANGED files
    BY <1>0, <1>2 DEF DeregisterBegin, Idle
  <1>3. ASSUME NEW u, NEW op \in {"revoke", "unpair"}, RevokeBegin(q, u, op)
        PROVE  /\ \A x \in Requests : x # q => req'[x] = req[x]
               /\ req'[q].op = op /\ UNCHANGED <<devices, torn, secrets, back>>
    BY <1>0, <1>3 DEF RevokeBegin, Idle
  <1>4. CASE Refuse(q) \/ RemoveDone(q)
    BY <1>0, <1>4 DEF Refuse, RemoveDone, Finish, Idle
  <1>5. CASE Authenticate(q) \/ RemoveOne(q) \/ RemoveAbsent(q) \/ RemoveFails(q) \/ Drop(q)
    <2>1. req[q].op # "register"
      BY <1>0, <1>5 DEF Authenticate, RemoveOne, RemoveAbsent, RemoveFails, Drop, Shape
    <2>2. CASE Authenticate(q) \/ RemoveOne(q) \/ Drop(q)
      BY <1>0, <2>1, <2>2 DEF Authenticate, RemoveOne, Drop, Goto, Handler
    <2>3. CASE RemoveAbsent(q)
      BY <1>0, <2>1, <2>3 DEF RemoveAbsent, Goto, Handler
    <2>4. CASE RemoveFails(q)
      BY <1>0, <2>1, <2>4 DEF RemoveFails, GiveUp, Finish, Handler, Idle
    <2> QED
      BY <1>5, <2>2, <2>3, <2>4
  <1> QED
    BY <1>1, <1>2, <1>3, <1>4, <1>5 DEF Unregister

\* The handlers that are no revocation.
LEMMA OthersKeepRevoked ==
    ASSUME TInv, RInv, NEW q \in Requests,
           \/ Register(q) \/ Find(q) \/ Authenticate(q) \/ Refuse(q)
           \/ (\E u \in Users, d \in KnownIds : DeleteBegin(q, u, d))
           \/ (\E d \in KnownIds : DeregisterBegin(q, d))
    PROVE  RInv'
  <1>0. req[q] \in Handler /\ Shape(req[q], KnownIds) /\ req \in [Requests -> Handler]
    BY HandlerOf DEF TInv, Handlers
  <1>1. ASSUME \A x \in Requests : x # q => req'[x] = req[x],
               req'[q] = Idle \/ req'[q].op \in {"register", "deregister", "delete"},
               UNCHANGED <<secrets, back, cut>>, \A u \in Users : Stored(u)' \subseteq Stored(u)
        PROVE  RInv'
    <2>1. ~ Revoking(req'[q])
      BY <1>1 DEF Revoking, Idle
    <2> QED
      BY <1>1, <2>1, RevocationsStay
  <1>2. CASE Register(q)
    <2>1. \A u \in Users : Stored(u)' \subseteq Stored(u)
      BY <1>2, RegisterMoves, OpenStored, SameStored
    <2> QED
      BY <1>1, <1>2, <2>1, RegisterMoves
  <1>3. CASE Find(q)
    <2>1. \A u \in Users : Stored(u)' \subseteq Stored(u)
      BY <1>3, FindMoves, SameStored
    <2> QED
      BY <1>1, <1>3, <2>1, FindMoves
  <1>4. CASE \/ Authenticate(q) \/ Refuse(q)
             \/ (\E u \in Users, d \in KnownIds : DeleteBegin(q, u, d))
             \/ (\E d \in KnownIds : DeregisterBegin(q, d))
    <2>1. UNCHANGED <<devices, writer, secrets, back, cut>>
      BY <1>4 DEF Authenticate, Refuse, DeleteBegin, DeregisterBegin
    <2>2. /\ \A x \in Requests : x # q => req'[x] = req[x]
          /\ req'[q] = Idle \/ req'[q].op \in {"deregister", "delete"}
      <3>1. CASE Authenticate(q)
        <4>1. req[q].op \in {"register", "deregister", "delete"} /\ req[q].op # "register"
          BY <1>0, <3>1 DEF Authenticate, Shape, Handler
        <4> QED
          BY <1>0, <3>1, <4>1 DEF Authenticate, Handler
      <3>2. CASE Refuse(q)
        BY <1>0, <3>2 DEF Refuse, Finish
      <3>3. ASSUME NEW u \in Users, NEW d \in KnownIds, DeleteBegin(q, u, d)
            PROVE  req'[q].op = "delete" /\ \A x \in Requests : x # q => req'[x] = req[x]
        BY <1>0, <3>3 DEF DeleteBegin, Idle
      <3>4. ASSUME NEW d \in KnownIds, DeregisterBegin(q, d)
            PROVE  req'[q].op = "deregister" /\ \A x \in Requests : x # q => req'[x] = req[x]
        BY <1>0, <3>4 DEF DeregisterBegin, Idle
      <3> QED
        BY <1>4, <3>1, <3>2, <3>3, <3>4
    <2>3. \A u \in Users : Stored(u)' \subseteq Stored(u)
      BY <2>1, SameStored
    <2> QED
      BY <1>1, <2>1, <2>2, <2>3
  <1> QED
    BY <1>2, <1>3, <1>4

\* A revocation begins with every device of the file.
LEMMA RevokeBeginKeeps ==
    ASSUME TInv, RInv, NEW q \in Requests, NEW u \in Users, NEW op \in {"revoke", "unpair"},
           RevokeBegin(q, u, op)
    PROVE  RInv'
  <1>0. req \in [Requests -> Handler] /\ secrets \in Nat
    BY PairingAssumption DEF TInv, Handlers, Stores
  <1>1. /\ UNCHANGED <<devices, writer, secrets, back, cut>> /\ MutexFree(u)
        /\ \A x \in Requests \ {q} : req'[x] = req[x]
        /\ req'[q].upto = secrets /\ req'[q].user = u /\ req'[q].at = "remove"
        /\ req'[q].todo = ToRevoke(u) /\ (req'[q].clean => u \notin torn)
    BY <1>0 DEF RevokeBegin, Look, Idle
  <1>2. \A v \in Users : Stored(v)' = Stored(v)
    BY <1>1, SameStored
  <1>3. ASSUME u \notin torn PROVE \A row \in Stored(u) : row.id \in Left(req'[q])
    <2>1. View(u) = devices[u] /\ devices[u] \in Seq(Row)
      BY <1>3 DEF TInv, Stores, View
    <2>2. /\ DOMAIN devices[u] = 1 .. Len(devices[u]) /\ Len(ToRevoke(u)) = Len(devices[u])
          /\ \A i \in DOMAIN devices[u] : ToRevoke(u)[i] = devices[u][i].id
      BY <2>1 DEF ToRevoke
    <2>3. Left(req'[q]) = {devices[u][i].id : i \in DOMAIN devices[u]}
      BY <1>1, <2>2 DEF Left
    <2>4. Stored(u) = RowsOf(devices[u])
      BY <1>1 DEF Stored
    <2> QED
      BY <2>3, <2>4 DEF RowsOf
  <1>4. ASSUME NEW x \in Requests, Revoking(req'[x]), NEW v \in Users, v = req'[x].user
        PROVE  /\ req'[x].upto <= secrets
               /\ \A row \in Stored(v) : \/ row.secret > req'[x].upto \/ row.secret \in back
                                         \/ row.id \in Left(req'[x])
    <2>1. CASE x = q
      <3>1. v = u /\ req'[x].upto = secrets /\ secrets <= secrets /\ u \notin torn
        BY <1>0, <1>1, <1>4, <2>1 DEF Revoking
      <3> QED
        BY <1>3, <2>1, <3>1
    <2>2. CASE x # q
      BY <1>1, <1>4, <2>2 DEF RInv, Listed
    <2> QED
      BY <2>1, <2>2
  <1>5. Listed'
    <2>1. \A x \in Requests : Revoking(req'[x]) => req'[x].user \in Users
      <3>1. \A x \in Requests : Revoking(req[x]) => req[x].user \in Users
        BY HandlerOf DEF Revoking, Shape
      <3> QED
        BY <1>1, <3>1
    <2> QED
      BY <1>1, <1>2, <1>4, <2>1 DEF Listed
  <1>6. Cut'
    BY <1>1, <1>2 DEF RInv, Cut
  <1> QED
    BY <1>5, <1>6 DEF RInv

\* The ids a list has after its head.
LEMMA TailIds ==
    ASSUME NEW S, NEW todo \in Seq(S), todo # <<>>
    PROVE  /\ {todo[k] : k \in 1 .. Len(todo)} \subseteq
                  {Head(todo)} \cup {todo[k] : k \in 2 .. Len(todo)}
           /\ {Tail(todo)[k] : k \in 1 .. Len(Tail(todo))} = {todo[k] : k \in 2 .. Len(todo)}
  <1>1. /\ Len(todo) \in Nat /\ Len(Tail(todo)) = Len(todo) - 1 /\ Head(todo) = todo[1]
        /\ \A k \in 2 .. Len(todo) : k - 1 \in 1 .. Len(todo) - 1 /\ todo[k] = Tail(todo)[k - 1]
        /\ \A k \in 1 .. Len(todo) - 1 : k + 1 \in 2 .. Len(todo) /\ todo[k + 1] = Tail(todo)[k]
    OBVIOUS
  <1>2. \A k \in 1 .. Len(todo) : k = 1 \/ k \in 2 .. Len(todo)
    BY <1>1
  <1>3. {todo[k] : k \in 1 .. Len(todo)} \subseteq
            {Head(todo)} \cup {todo[k] : k \in 2 .. Len(todo)}
    BY <1>1, <1>2
  <1>4. \A k \in 1 .. Len(Tail(todo)) : \E j \in 2 .. Len(todo) : Tail(todo)[k] = todo[j]
    <2>1. \A k \in 1 .. Len(Tail(todo)) : k \in 1 .. Len(todo) - 1
      BY <1>1
    <2> QED
      BY <1>1, <2>1
  <1>5. \A j \in 2 .. Len(todo) : \E k \in 1 .. Len(Tail(todo)) : Tail(todo)[k] = todo[j]
    BY <1>1
  <1> DEFINE A == {Tail(todo)[k] : k \in 1 .. Len(Tail(todo))}
             B == {todo[k] : k \in 2 .. Len(todo)}
  <1>6. A \subseteq B
    BY <1>4
  <1>7. B \subseteq A
    BY <1>5
  <1>8. A = B
    <2> HIDE DEF A, B
    <2> QED
      BY <1>6, <1>7
  <1> QED
    BY <1>3, <1>8

\* A revocation goes on.
LEMMA RevocationsGoOn ==
    ASSUME TInv, RInv, NEW q \in Requests,
           RemoveOne(q) \/ RemoveAbsent(q) \/ RemoveFails(q) \/ Drop(q)
    PROVE  RInv'
  <1> DEFINE todo == req[q].todo
  <1>0. /\ req[q] \in Handler /\ Shape(req[q], KnownIds) /\ req \in [Requests -> Handler]
        /\ secrets \in Nat
    BY HandlerOf, PairingAssumption DEF TInv, Handlers, Stores
  <1>1. /\ todo \in Seq(DeviceIds) /\ todo # <<>> /\ req[q].user \in Users
        /\ req[q].at \in {"remove", "drop"}
    BY <1>0 DEF RemoveOne, RemoveAbsent, RemoveFails, Drop, Handler, Shape
  <1>2. /\ {todo[k] : k \in 1 .. Len(todo)} \subseteq
                {Head(todo)} \cup {todo[k] : k \in 2 .. Len(todo)}
        /\ {Tail(todo)[k] : k \in 1 .. Len(Tail(todo))} = {todo[k] : k \in 2 .. Len(todo)}
    BY <1>1, TailIds
  <1>3. CASE RemoveOne(q)
    <2>1. /\ Open("api", req[q].user, q) /\ UNCHANGED <<devices, secrets, back, cut>>
          /\ req' = [req EXCEPT ![q].at = "removing"] /\ req[q].at = "remove"
      BY <1>3 DEF RemoveOne, Goto
    <2>2. \A v \in Users : Stored(v)' \subseteq Stored(v)
      BY <1>1, <2>1, OpenStored DEF Processes
    <2>3. /\ \A x \in Requests : x # q => req'[x] = req[x]
          /\ req'[q].op = req[q].op /\ req'[q].clean = req[q].clean
          /\ req'[q].upto = req[q].upto /\ req'[q].user = req[q].user
          /\ req'[q].todo = todo /\ req'[q].at = "removing"
      BY <1>0, <2>1 DEF Handler
    <2>4. Left(req'[q]) = Left(req[q])
      BY <2>1, <2>3 DEF Left
    <2> QED
      BY <2>1, <2>2, <2>3, <2>4, RevocationsStay DEF Revoking
  <1>4. CASE RemoveAbsent(q)
    <2>1. /\ MutexFree(req[q].user) /\ Head(todo) \notin Ids(req[q].user)
          /\ UNCHANGED <<devices, writer, secrets, back, cut>> /\ req[q].at = "remove"
      BY <1>4 DEF RemoveAbsent, Look
    <2>2. /\ \A x \in Requests : x # q => req'[x] = req[x]
          /\ req'[q].op = req[q].op /\ req'[q].clean = req[q].clean
          /\ req'[q].upto = req[q].upto /\ req'[q].user = req[q].user
          /\ \/ req'[q].at = "drop" /\ req'[q].todo = todo
             \/ req'[q].at = "remove" /\ req'[q].todo = Tail(todo)
      BY <1>0, <1>4 DEF RemoveAbsent, Goto, Handler
    <2>3. Left(req[q]) \subseteq {Head(todo)} \cup Left(req'[q])
      <3>1. Left(req[q]) = {todo[k] : k \in 1 .. Len(todo)}
        BY <2>1 DEF Left
      <3>2. CASE req'[q].at = "drop" /\ req'[q].todo = todo
        <4>1. Left(req'[q]) = {todo[k] : k \in 2 .. Len(todo)}
          BY <3>2 DEF Left
        <4> QED
          BY <1>2, <3>1, <4>1
      <3>3. CASE req'[q].at = "remove" /\ req'[q].todo = Tail(todo)
        <4>1. Left(req'[q]) = {Tail(todo)[k] : k \in 1 .. Len(Tail(todo))}
          BY <3>3 DEF Left
        <4> QED
          BY <1>2, <3>1, <4>1
      <3> QED
        BY <2>2, <3>2, <3>3
    <2>4. ASSUME NEW v \in Users, v = req[q].user
          PROVE  \A row \in Stored(v)' : row.id # Head(todo)
      <3>1. Stored(v)' = RowsOf(devices[v])
        BY <2>1, <2>4, SameStored DEF Stored
      <3> QED
        BY <2>1, <2>4, <3>1 DEF RowsOf, Ids, IdsOf
    <2>5. ASSUME NEW x \in Requests, Revoking(req'[x])
          PROVE  /\ Revoking(req[x]) /\ req'[x].upto = req[x].upto /\ req'[x].user = req[x].user
                 /\ \A v \in Users : v = req[x].user =>
                       \A row \in Stored(v)' : row.id \in Left(req[x]) => row.id \in Left(req'[x])
      <3>1. CASE x = q
        BY <2>2, <2>3, <2>4, <2>5, <3>1 DEF Revoking
      <3>2. CASE x # q
        BY <2>2, <2>5, <3>2
      <3> QED
        BY <3>1, <3>2
    <2>6. \A v \in Users : Stored(v)' = Stored(v)
      BY <2>1, SameStored
    <2> QED
      BY <1>0, <2>1, <2>5, <2>6, RowsKeepRevoked
  <1>5. CASE RemoveFails(q)
    <2>1. /\ UNCHANGED <<devices, writer, secrets, back, cut>>
          /\ \A x \in Requests : x # q => req'[x] = req[x]
      BY <1>0, <1>5 DEF RemoveFails, GiveUp, Finish
    <2>2. ~ Revoking(req'[q])
      <3> DEFINE r == [[[req[q] EXCEPT !.at = "remove"] EXCEPT !.todo = Tail(@)]
                            EXCEPT !.clean = FALSE]
      <3>1. req' = [req EXCEPT ![q] = r] \/ req' = [req EXCEPT ![q] = Idle]
        BY <1>0, <1>5 DEF RemoveFails, GiveUp, Finish, Handler
      <3>2. r.clean = FALSE
        BY <1>0 DEF Handler
      <3> HIDE DEF r
      <3> QED
        BY <1>0, <3>1, <3>2 DEF Revoking, Idle
    <2>3. \A v \in Users : Stored(v)' = Stored(v)
      BY <2>1, SameStored
    <2> QED
      BY <2>1, <2>2, <2>3, RevocationsStay
  <1>6. CASE Drop(q)
    <2>1. /\ req'[q].op = req[q].op /\ req'[q].clean = req[q].clean
          /\ req'[q].upto = req[q].upto /\ req'[q].user = req[q].user
          /\ req'[q].at = "remove" /\ req'[q].todo = Tail(todo) /\ req[q].at = "drop"
          /\ \A x \in Requests : x # q => req'[x] = req[x]
          /\ UNCHANGED <<devices, writer, secrets, back, cut>>
      BY <1>0, <1>6 DEF Drop, Handler
    <2>2. Left(req[q]) \subseteq Left(req'[q])
      BY <1>2, <2>1 DEF Left
    <2>3. \A v \in Users : Stored(v)' = Stored(v)
      BY <2>1, SameStored
    <2> QED
      BY <2>1, <2>2, <2>3, RevocationsStay DEF Revoking
  <1> QED
    BY <1>3, <1>4, <1>5, <1>6

\* A revocation is over: what is stored is newer, or was put back.
LEMMA RemoveDoneKeeps ==
    ASSUME TInv, RInv, NEW q \in Requests, RemoveDone(q) PROVE RInv'
  <1>1. /\ req[q] \in Handler /\ Shape(req[q], KnownIds) /\ req[q].at = "remove"
        /\ req[q].todo = <<>> /\ req \in [Requests -> Handler]
    BY HandlerOf DEF TInv, Handlers, RemoveDone
  <1>2. /\ UNCHANGED <<devices, writer, secrets, back>>
        /\ \A x \in Requests : x # q => req'[x] = req[x]
        /\ req'[q] = Idle
    BY <1>1 DEF RemoveDone, Finish
  <1>3. \A v \in Users : Stored(v)' = Stored(v)
    BY <1>2, SameStored
  <1>4. Listed'
    <2>1. \A x \in Requests : Revoking(req'[x]) => req'[x] = req[x] /\ req[x].user \in Users
      <3>1. \A x \in Requests : Revoking(req[x]) => req[x].user \in Users
        BY HandlerOf DEF Revoking, Shape
      <3> QED
        BY <1>2, <3>1 DEF Revoking, Idle
    <2> QED
      BY <1>2, <1>3, <2>1 DEF RInv, Listed
  <1>5. Cut'
    <2>1. CASE cut' = cut
      BY <1>2, <1>3, <2>1 DEF RInv, Cut
    <2>2. CASE /\ Revoking(req[q])
               /\ cut' = [cut EXCEPT ![req[q].user] = IF @ > req[q].upto THEN @ ELSE req[q].upto]
      <3>1. Left(req[q]) = {}
        BY <1>1 DEF Left
      <3>2. /\ req[q].upto <= secrets
            /\ \A row \in Stored(req[q].user) : row.secret > req[q].upto \/ row.secret \in back
        BY <2>2, <3>1 DEF RInv, Listed
      <3>3. \A v \in Users : cut'[v] = cut[v] \/ (v = req[q].user /\ cut'[v] = req[q].upto)
        BY <2>2 DEF TInv, Stores
      <3> QED
        BY <1>2, <1>3, <3>2, <3>3 DEF RInv, Cut
    <2> QED
      BY <2>1, <2>2 DEF RemoveDone, Revoking
  <1> QED
    BY <1>4, <1>5 DEF RInv

\* An operation ends: the API's leaves rows it had read and the new one, the
\* daemon's rows of the file and ones it puts back.
LEMMA EndKeeps ==
    ASSUME TInv, RInv, NEW p \in Processes, NEW u \in Users, Write(p, u) \/ WriteFails(p, u)
    PROVE  RInv'
  <1> DEFINE w    == writer[p][u]
             rows == Result(w)
             q    == w.by
  <1>0. /\ writer \in [Processes -> [Users -> Operation]] /\ req \in [Requests -> Handler]
        /\ devices \in [Users -> Seq(Row)] /\ secrets \in Nat
    BY PairingAssumption DEF TInv, Writers, Handlers, Stores
  <1>1. /\ writer' = [writer EXCEPT ![p][u] = Free] /\ cut' = cut /\ w.at # "free"
        /\ \/ Registers(w.by) /\ secrets < MaxSecrets /\ secrets' = secrets + 1
           \/ ~ Registers(w.by) /\ secrets' = secrets
    BY DEF Write, WriteFails, Remember
  <1>2. /\ \A v \in Users : MutexFree(v)' \/ writer'["api"][v] = writer["api"][v]
        /\ p = "api" => MutexFree(u)'
    <2>1. \A v \in Users : writer'["api"][v] = IF p = "api" /\ v = u THEN Free ELSE writer["api"][v]
      BY <1>0, <1>1 DEF Processes
    <2> QED
      BY <2>1 DEF MutexFree, Free
  <1>3. secrets' \in Nat /\ secrets <= secrets' /\ back \subseteq back'
    BY <1>0, <1>1 DEF Write, WriteFails
  <1>4. /\ \A i \in DOMAIN rows : \/ \E j \in DOMAIN w.base : rows[i] = w.base[j]
                                  \/ Registers(q) /\ rows[i].secret = secrets + 1
        /\ q \in Requests /\ ~ Registers(q) => \A i \in DOMAIN rows : rows[i].id # Head(req[q].todo)
    BY <1>1, ResultRows
  <1>5. q \in Requests => p = "api" /\ Waits(u, req[q])
    BY OperationOf
  <1> HIDE DEF rows
  <1>6. ASSUME NEW v \in Users, devices'[v] = devices[v]
        PROVE  Stored(v)' \subseteq Stored(v)
    BY <1>2, <1>6 DEF Stored, RowsOf, MutexFree
  <1>7. CASE WriteFails(p, u)
    <2>1. /\ devices' = devices
          /\ \A x \in Requests : Revoking(req'[x]) => req'[x] = req[x]
      <3>1. CASE q \notin Requests
        BY <1>7, <3>1 DEF WriteFails
      <3>2. CASE q \in Requests
        <4>1. /\ \A x \in Requests : x # q => req'[x] = req[x]
              /\ req'[q].clean = FALSE \/ req'[q] = Idle
          BY <1>0, <1>7, <3>2 DEF WriteFails, GiveUp, Finish, Handler
        <4> QED
          BY <1>7, <4>1 DEF WriteFails, Revoking, Idle
      <3> QED
        BY <3>1, <3>2
    <2>2. \A v \in Users : Stored(v)' \subseteq Stored(v)
      BY <1>6, <2>1
    <2> QED
      BY <1>1, <1>3, <2>1, <2>2, RowsKeepRevoked
  <1>8. CASE Write(p, u)
    <2>1. devices' = [devices EXCEPT ![u] = rows]
      BY <1>8 DEF Write, rows
    <2>2. \A v \in Users : devices'[v] = IF v = u THEN rows ELSE devices[v]
      BY <1>0, <2>1
    <2>3. CASE p = "daemon"
      <3>1. q \notin Requests /\ back' = back \cup Returned(u, rows) /\ req' = req
        BY <1>5, <1>8, <2>3 DEF Write, rows
      <3>2. ASSUME NEW row \in Stored(u)' PROVE row \in Stored(u) \/ row.secret \in back'
        <4>1. row \in RowsOf(rows) \/ row \in Stored(u)
          BY <1>2, <2>2, <3>2 DEF Stored, RowsOf, MutexFree
        <4>2. ASSUME NEW i \in DOMAIN rows, row = rows[i]
              PROVE  row \in Stored(u) \/ row.secret \in back'
          <5>1. CASE \E j \in DOMAIN devices[u] : devices[u][j] = rows[i]
            BY <4>2, <5>1 DEF Stored, RowsOf
          <5>2. CASE \A j \in DOMAIN devices[u] : devices[u][j] # rows[i]
            BY <3>1, <4>2, <5>2 DEF Returned
          <5> QED
            BY <5>1, <5>2
        <4> QED
          BY <4>1, <4>2 DEF RowsOf
      <3>3. \A v \in Users : \A row \in Stored(v)' : row \in Stored(v) \/ row.secret \in back'
        BY <1>6, <2>2, <3>2
      <3> QED
        BY <1>1, <1>3, <3>1, <3>3, RowsKeepRevoked
    <2>4. CASE p = "api"
      <3>1. Stored(u)' = RowsOf(rows)
        BY <1>2, <2>2, <2>4 DEF Stored, RowsOf, MutexFree
      <3>2. ASSUME NEW row \in Stored(u)'
            PROVE  row \in Stored(u) \/ (row.secret = secrets' /\ secrets < secrets')
        <4>1. PICK i \in DOMAIN rows : row = rows[i]
          BY <3>1, <3>2 DEF RowsOf
        <4>2. CASE \E j \in DOMAIN w.base : rows[i] = w.base[j]
          BY <1>1, <2>4, <4>1, <4>2 DEF Stored, RowsOf, MutexFree
        <4>3. CASE Registers(q) /\ rows[i].secret = secrets + 1
          BY <1>0, <1>1, <4>1, <4>3
        <4> QED
          BY <1>4, <4>2, <4>3
      <3>3. \A v \in Users : \A row \in Stored(v)' :
               row \in Stored(v) \/ (row.secret = secrets' /\ secrets < secrets')
        BY <1>6, <2>2, <3>2
      <3>4. ASSUME NEW x \in Requests, Revoking(req'[x])
            PROVE  /\ Revoking(req[x]) /\ req'[x].upto = req[x].upto /\ req'[x].user = req[x].user
                   /\ \A v \in Users : v = req[x].user =>
                         \A row \in Stored(v)' : row.id \in Left(req[x]) => row.id \in Left(req'[x])
        <4>1. CASE q \in Requests /\ x = q
          <5> DEFINE todo == req[q].todo
          <5>1. /\ req' = [req EXCEPT ![q].at = IF Registers(q) THEN "list" ELSE "drop"]
                /\ req[q] \in Handler /\ Shape(req[q], KnownIds)
            BY <1>8, <4>1, HandlerOf DEF Write, Goto
          <5>2. ~ Registers(q)
            BY <1>0, <3>4, <4>1, <5>1 DEF Registers, Revoking, Handler
          <5>3. /\ req'[q].op = req[q].op /\ req'[q].clean = req[q].clean
                /\ req'[q].upto = req[q].upto /\ req'[q].user = req[q].user
                /\ req'[q].todo = todo /\ req'[q].at = "drop" /\ req[q].user = u
                /\ req[q].at = "removing"
            BY <1>0, <1>5, <4>1, <5>1, <5>2 DEF Handler, Waits, Registers
          <5>4. /\ {todo[k] : k \in 1 .. Len(todo)} \subseteq
                       {Head(todo)} \cup {todo[k] : k \in 2 .. Len(todo)}
                /\ todo \in Seq(DeviceIds)
            <6>1. todo \in Seq(DeviceIds) /\ todo # <<>>
              BY <5>1, <5>3 DEF Handler, Shape
            <6> HIDE DEF todo
            <6> QED
              BY <6>1, TailIds
          <5>5. Left(req[q]) \subseteq {Head(todo)} \cup Left(req'[q])
            <6>1. Left(req[q]) = {todo[k] : k \in 1 .. Len(todo)}
              BY <5>3 DEF Left
            <6>2. Left(req'[q]) = {todo[k] : k \in 2 .. Len(todo)}
              BY <5>3 DEF Left
            <6> QED
              BY <5>4, <6>1, <6>2
          <5>6. \A row \in Stored(u)' : row.id # Head(todo)
            BY <1>4, <3>1, <4>1, <5>2 DEF RowsOf
          <5> QED
            BY <3>4, <4>1, <5>3, <5>5, <5>6 DEF Revoking
        <4>2. CASE ~ (q \in Requests /\ x = q)
          <5>1. req'[x] = req[x]
            BY <1>0, <1>8, <4>2 DEF Write, Goto
          <5> QED
            BY <3>4, <5>1
        <4> QED
          BY <4>1, <4>2
      <3> QED
        BY <1>1, <1>3, <3>3, <3>4, RowsKeepRevoked
    <2> QED
      BY <2>3, <2>4 DEF Processes
  <1> QED
    BY <1>7, <1>8

LEMMA RInvNext == TInv /\ RInv /\ [Next]_vars => RInv'
  <1> SUFFICES ASSUME TInv, RInv, [Next]_vars PROVE RInv'
    OBVIOUS
  <1>0. writer \in [Processes -> [Users -> Operation]]
    BY DEF TInv, Writers
  <1>1. ASSUME NEW q \in Requests, Handle(q) PROVE RInv'
    BY <1>1, OthersKeepRevoked, RevokeBeginKeeps, RevocationsGoOn, RemoveDoneKeeps
    DEF Handle, Unregister
  <1>2. ASSUME NEW p \in Processes, NEW u \in Users, Store(p, u) PROVE RInv'
    <2>1. CASE Touch(p, u) \/ (\E d \in DeviceIds : Prune(p, u, d)) \/ Truncate(p, u)
      <3>1. /\ UNCHANGED <<devices, secrets, back, cut, req>>
            /\ \/ \E by \in Requests \cup DeviceIds \cup {Nobody} : Open(p, u, by)
               \/ Truncate(p, u)
        BY <2>1 DEF Touch, Prune, Truncate
      <3>2. \A v \in Users : Stored(v)' \subseteq Stored(v)
        BY <3>1, OpenStored
      <3> QED
        BY <3>1, <3>2, RevocationsStay
    <2> QED
      BY <1>2, <2>1, EndKeeps DEF Store
  <1>3. CASE Restart
    <2>1. /\ UNCHANGED <<devices, secrets, back, cut>> /\ \A x \in Requests : ~ Revoking(req'[x])
          /\ \A v \in Users : writer'["api"][v] = Free
      BY <1>0, <1>3 DEF Restart, Revoking, Idle, Processes
    <2>2. \A v \in Users : Stored(v)' \subseteq Stored(v)
      BY <2>1 DEF Stored, RowsOf, MutexFree, Free
    <2> QED
      BY <2>1, <2>2, RevocationsStay
  <1>4. CASE RestartDaemon
    <2>1. /\ UNCHANGED <<devices, secrets, back, cut, req>>
          /\ writer'["api"] = writer["api"]
      BY <1>0, <1>4 DEF RestartDaemon, Processes
    <2>2. \A v \in Users : Stored(v)' \subseteq Stored(v)
      BY <2>1 DEF Stored, RowsOf, MutexFree
    <2> QED
      BY <2>1, <2>2, RevocationsStay
  <1>5. CASE (\E u \in Users : MintToken(u) \/ ListDevices(u)) \/ Tick \/ UNCHANGED vars
    <2>1. UNCHANGED <<devices, writer, secrets, back, cut, req>>
      BY <1>5 DEF MintToken, ListDevices, Tick, vars
    <2>2. \A v \in Users : Stored(v)' = Stored(v)
      BY <2>1, SameStored
    <2> QED
      BY <2>1, <2>2, RevocationsStay
  <1> QED
    BY <1>1, <1>2, <1>3, <1>4, <1>5 DEF Next

\* For any number of users, devices, requests, failures and other writes of the
\* files: a revocation that met no error and listed the devices from the file
\* leaves none of the devices that were stored when it began, but those of which
\* the daemon put the row back.
THEOREM RevokedStaysOutAlways == Spec => []RevokedStaysOut
  <1>1. ASSUME RInv PROVE RevokedStaysOut
    <2>1. \A u \in Users : \A i \in DOMAIN devices[u] : devices[u][i] \in Stored(u)
      BY DEF Stored, RowsOf
    <2> QED
      BY <1>1, <2>1 DEF RInv, Cut, RevokedStaysOut
  <1> QED
    BY <1>1, RInvInit, RInvNext, TypesInvariant, PTL DEF Spec
-----------------------------------------------------------------------------
(***************************************************************************)
(* A device id has one owner.                                              *)
(***************************************************************************)
Counts(r, d) ==
    /\ r.op = "register" /\ r.dev = d
    /\ r.at \in {"rescan", "reserve", "upsert", "upserting", "list", "publish"}

Claims(r, d) ==
    r.op = "register" /\ r.dev = d /\ r.at \in {"upsert", "upserting", "list", "publish"}

\* What a registration of d relies on.
Relies(r, d) ==
    /\ r.at \in {"upsert", "upserting", "list"} => index[d] = r.user
    /\ r.at = "publish" => index[d] = r.user \/ d \in Ids(r.user)
    /\ r.at = "reserve" /\ index[d] = Nobody => Claimants(d) = {}
    /\ r.at = "rescan" /\ r.next[d] = Nobody /\ index[d] = Nobody => Claimants(d) \subseteq r.unread

Stands(d) ==
    /\ \A u \in Claimants(d) : Claimants(d) = {u} /\ index[d] \in {u, Nobody}
    /\ \A q \in Requests : Counts(req[q], d) => Relies(req[q], d)

OInv == \A d \in DeviceIds \ lost : Stands(d)

LEMMA IdsAreOf == \A u \in Users : Ids(u) = IdsOf(devices[u])
  BY DEF Ids

LEMMA ClaimantsAre ==
    ASSUME NEW d
    PROVE  \A u : u \in Claimants(d) <=> \/ u \in Users /\ d \in Ids(u)
                                         \/ \E q \in Requests : Claims(req[q], d) /\ req[q].user = u
  BY DEF Claimants, Claims

LEMMA ClaimantsAreNext ==
    ASSUME NEW d
    PROVE  \A u : u \in Claimants(d)' <=> \/ u \in Users /\ d \in IdsOf(devices'[u])
                                          \/ \E q \in Requests : Claims(req'[q], d) /\ req'[q].user = u
  BY DEF Claimants, Claims, Ids, IdsOf

LEMMA ClaimantsAreUsers == ASSUME TInv, NEW d PROVE Claimants(d) \subseteq Users
  <1>1. ASSUME NEW q \in Requests, Claims(req[q], d) PROVE req[q].user \in Users
    BY <1>1, HandlerOf DEF Claims, Shape
  <1> QED
    BY <1>1, ClaimantsAre

\* A device id whose entry is that of its only claimant.
LEMMA Settled ==
    ASSUME NEW d \in DeviceIds, NEW u \in Users, index'[d] = u, Claimants(d)' \subseteq {u}
    PROVE  Stands(d)'
  <1>1. u # Nobody
    BY PairingAssumption
  <1>2. \A v \in Claimants(d)' : Claimants(d)' = {v} /\ index'[d] \in {v, Nobody}
    OBVIOUS
  <1>3. ASSUME NEW q \in Requests, Counts(req'[q], d)
        PROVE  Relies(req[q], d)'
    <2>1. Claims(req'[q], d) => req'[q].user = u
      BY ClaimantsAreNext
    <2> QED
      BY <1>1, <1>3, <2>1 DEF Relies, Counts, Claims
  <1> QED
    BY <1>2, <1>3 DEF Stands, Counts

\* No claim is added, and the registrations in flight have what they rely on.
LEMMA Shrink ==
    ASSUME NEW d \in DeviceIds, Stands(d),
           \/ index'[d] = index[d]
           \/ index'[d] = Nobody /\ \A q \in Requests : ~ Counts(req'[q], d),
           \A u \in Users : d \in IdsOf(devices'[u]) => u \in Claimants(d),
           \A q \in Requests : Counts(req'[q], d) =>
               /\ Relies(req'[q], d)
               /\ Claims(req'[q], d) => req'[q].user \in Claimants(d)
               /\ req'[q].at = "publish" =>
                      index[d] = req'[q].user \/ d \in IdsOf(devices'[req'[q].user])
    PROVE  Stands(d)'
  <1>1. Claimants(d)' \subseteq Claimants(d)
    <2>1. \A q \in Requests : Claims(req'[q], d) => Counts(req'[q], d)
      BY DEF Claims, Counts
    <2> QED
      BY <2>1, ClaimantsAre, ClaimantsAreNext, IdsAreOf
  <1>2. \A u \in Claimants(d)' : Claimants(d)' = {u} /\ index'[d] \in {u, Nobody}
    BY <1>1 DEF Stands
  <1>3. ASSUME NEW q \in Requests, Counts(req'[q], d)
        PROVE  Relies(req[q], d)'
    <2>1. index'[d] = index[d]
      BY <1>3
    <2>2. \A u : Ids(u)' = IdsOf(devices'[u])
      BY DEF Ids, IdsOf
    <2> QED
      BY <1>1, <1>3, <2>1, <2>2 DEF Relies
  <1> QED
    BY <1>2, <1>3 DEF Stands, Counts

\* What a registration in flight has.
LEMMA Standing ==
    ASSUME NEW d \in DeviceIds, Stands(d), NEW q \in Requests, Counts(req[q], d)
    PROVE  /\ Relies(req[q], d)
           /\ Claims(req[q], d) => req[q].user \in Claimants(d)
           /\ req[q].at = "publish" => index[d] = req[q].user \/ d \in Ids(req[q].user)
  BY ClaimantsAre DEF Stands, Relies

\* A handler goes on while files and index stay.
LEMMA HandlerMoves ==
    ASSUME OInv, UNCHANGED <<index, devices>>, lost \subseteq lost', NEW q \in Requests,
           \A x \in Requests : x # q => req'[x] = req[x],
           \A d \in DeviceIds \ lost' : Counts(req'[q], d) =>
               Relies(req'[q], d) /\ (Claims(req'[q], d) => req'[q].user \in Claimants(d))
    PROVE  OInv'
  <1>1. ASSUME NEW d \in DeviceIds \ lost' PROVE Stands(d)'
    <2>1. Stands(d)
      BY DEF OInv
    <2>2. ASSUME NEW x \in Requests, Counts(req'[x], d)
          PROVE  /\ Relies(req'[x], d)
                 /\ Claims(req'[x], d) => req'[x].user \in Claimants(d)
                 /\ req'[x].at = "publish" =>
                        index[d] = req'[x].user \/ d \in IdsOf(devices'[req'[x].user])
      <3>1. \A u : IdsOf(devices'[u]) = Ids(u)
        BY DEF Ids, IdsOf
      <3>2. CASE x = q
        BY <2>2, <3>1, <3>2 DEF Relies
      <3>3. CASE x # q
        BY <2>1, <2>2, <3>1, <3>3, Standing
      <3> QED
        BY <3>2, <3>3
    <2>3. \A u \in Users : d \in IdsOf(devices'[u]) => u \in Claimants(d)
      BY ClaimantsAre, IdsAreOf
    <2> QED
      BY <2>1, <2>2, <2>3, Shrink
  <1> QED
    BY <1>1 DEF OInv

\* A handler that is no registration, or ends, goes on.
LEMMA OthersMove ==
    ASSUME OInv, UNCHANGED <<index, devices>>, lost \subseteq lost', NEW q \in Requests,
           \A x \in Requests : x # q => req'[x] = req[x], req'[q].op # "register"
    PROVE  OInv'
  BY HandlerMoves DEF Counts

LEMMA OInvInit == Init => OInv
  <1> SUFFICES ASSUME Init, NEW d \in DeviceIds PROVE Stands(d)
    BY DEF OInv
  <1>1. Claimants(d) = {}
    BY ClaimantsAre DEF Init, Ids, IdsOf, Claims, Idle
  <1> QED
    BY <1>1 DEF Init, Stands, Counts, Idle

LEMMA LookupStands ==
    ASSUME TInv, OInv, NEW q \in Requests, req[q].op = "register", Lookup(q) PROVE OInv'
  <1> DEFINE owner == index[req[q].dev]
  <1>0. /\ req[q] \in Handler /\ Shape(req[q], KnownIds) /\ req \in [Requests -> Handler]
        /\ UNCHANGED <<index, devices, lost>> /\ Nobody \notin Users /\ Nobody \notin DeviceIds
    BY HandlerOf, Known, PairingAssumption DEF TInv, Handlers, Lookup
  <1>1. CASE owner = Nobody
    <2>1. /\ \A x \in Requests : x # q => req'[x] = req[x]
          /\ req'[q].at = "rescan" /\ req'[q].unread = Users
      BY <1>0, <1>1 DEF Lookup, Handler
    <2>2. ASSUME NEW d PROVE Relies(req'[q], d) /\ ~ Claims(req'[q], d)
      BY <2>1, ClaimantsAreUsers DEF Relies, Claims
    <2> QED
      BY <1>0, <2>1, <2>2, HandlerMoves
  <1>2. CASE owner # Nobody
    <2>1. /\ \A x \in Requests : x # q => req'[x] = req[x]
          /\ req'[q].at = "reserve" /\ req'[q].dev = req[q].dev
      BY <1>0, <1>2 DEF Lookup, Handler
    <2>2. ASSUME NEW d, Counts(req'[q], d) PROVE Relies(req'[q], d) /\ ~ Claims(req'[q], d)
      BY <1>2, <2>1, <2>2 DEF Relies, Claims, Counts
    <2> QED
      BY <1>0, <2>1, <2>2, HandlerMoves
  <1> QED
    BY <1>1, <1>2

\* Nobody claims an id without an entry but who has it in the file.
LEMMA NoEntry ==
    ASSUME TInv, NEW d \in DeviceIds, Stands(d), index[d] = Nobody, NEW u \in Claimants(d)
    PROVE  u \in Users /\ d \in Ids(u)
  <1>1. ASSUME NEW x \in Requests, Claims(req[x], d), req[x].user = u PROVE d \in Ids(u)
    <2>1. Counts(req[x], d) /\ req[x].at \in {"upsert", "upserting", "list", "publish"}
      BY <1>1 DEF Claims, Counts
    <2>2. Relies(req[x], d) /\ req[x].user # Nobody
      BY <2>1, HandlerOf, PairingAssumption DEF Stands, Counts, Shape
    <2> QED
      BY <1>1, <2>1, <2>2 DEF Relies
  <1> QED
    BY <1>1, ClaimantsAre, ClaimantsAreUsers

LEMMA RescanStands ==
    ASSUME TInv, OInv, NEW q \in Requests, req[q].op = "register",
           NEW u \in Users, Rescan(q, u) \/ RescanSkips(q, u)
    PROVE  OInv'
  <1> DEFINE next == IF Rescan(q, u)
                     THEN [d \in DeviceIds |-> IF d \in Ids(u) THEN u ELSE req[q].next[d]]
                     ELSE req[q].next
             r    == [[req[q] EXCEPT !.unread = @ \ {u}] EXCEPT !.next = next]
  <1>0. /\ req[q] \in Handler /\ Shape(req[q], KnownIds) /\ req \in [Requests -> Handler]
        /\ UNCHANGED <<index, devices>> /\ lost \subseteq lost' /\ req[q].at = "rescan"
        /\ Nobody \notin Users
    BY HandlerOf, PairingAssumption DEF TInv, Handlers, Rescan, RescanSkips
  <1>1. req' = [req EXCEPT ![q] = r]
    <2>1. CASE Rescan(q, u)
      BY <1>0, <2>1 DEF Rescan, Handler
    <2>2. CASE ~ Rescan(q, u)
      BY <1>0, <2>2 DEF RescanSkips, Handler
    <2> QED
      BY <2>1, <2>2
  <1>2. ASSUME NEW d \in DeviceIds \ lost', d = req[q].dev, next[d] = Nobody
        PROVE  d \notin Ids(u) /\ req[q].next[d] = Nobody
    <2>1. CASE Rescan(q, u)
      BY <1>0, <1>2, <2>1
    <2>2. CASE ~ Rescan(q, u)
      <3>1. lost' = lost \cup Overlooked(q, {u})
        BY <2>2 DEF RescanSkips
      <3>2. d \notin Overlooked(q, {u})
        BY <1>2, <3>1
      <3> QED
        BY <1>2, <2>2, <3>2 DEF Overlooked
    <2> QED
      BY <2>1, <2>2
  <1> HIDE DEF next
  <1>3. /\ r.op = "register" /\ r.at = "rescan" /\ r.dev = req[q].dev
        /\ r.unread = req[q].unread \ {u} /\ r.next = next
    BY <1>0 DEF Handler
  <1> HIDE DEF r
  <1>4. ASSUME NEW d \in DeviceIds \ lost', Counts(r, d)
        PROVE  Relies(r, d) /\ ~ Claims(r, d)
    <2>1. Counts(req[q], d) /\ Stands(d) /\ d = req[q].dev
      BY <1>0, <1>3, <1>4 DEF Counts, OInv
    <2>2. ASSUME next[d] = Nobody, index[d] = Nobody PROVE Claimants(d) \subseteq req[q].unread \ {u}
      <3>1. d \notin Ids(u) /\ req[q].next[d] = Nobody
        BY <1>2, <2>1, <2>2
      <3>2. Claimants(d) \subseteq req[q].unread
        BY <1>0, <2>1, <2>2, <3>1 DEF Stands, Relies
      <3>3. u \notin Claimants(d)
        BY <2>1, <2>2, <3>1, NoEntry
      <3> QED
        BY <3>2, <3>3
    <2> QED
      BY <1>3, <2>2 DEF Relies, Claims
  <1>5. req'[q] = r /\ \A x \in Requests : x # q => req'[x] = req[x]
    BY <1>0, <1>1
  <1> QED
    BY <1>0, <1>4, <1>5, HandlerMoves

LEMMA RescanFailsStands ==
    ASSUME TInv, OInv, NEW q \in Requests, req[q].op = "register", RescanFails(q) PROVE OInv'
  <1>0. /\ req[q] \in Handler /\ req \in [Requests -> Handler]
        /\ UNCHANGED <<index, devices>> /\ lost' = lost \cup Overlooked(q, Users)
        /\ req[q].at = "rescan"
    BY HandlerOf DEF TInv, Handlers, RescanFails
  <1>1. /\ \A x \in Requests : x # q => req'[x] = req[x]
        /\ req'[q].at = "reserve" /\ req'[q].dev = req[q].dev
    BY <1>0 DEF RescanFails, AfterRescan, Handler
  <1>2. ASSUME NEW d \in DeviceIds \ lost', Counts(req'[q], d)
        PROVE  Relies(req'[q], d) /\ ~ Claims(req'[q], d)
    <2>1. Stands(d) /\ d = req[q].dev /\ d \notin Overlooked(q, Users)
      BY <1>0, <1>1, <1>2 DEF Counts, OInv
    <2>2. \A u \in Users : d \notin Ids(u)
      BY <2>1 DEF Overlooked
    <2>3. index[d] = Nobody => Claimants(d) = {}
      BY <2>1, <2>2, NoEntry
    <2> QED
      BY <1>1, <2>3 DEF Relies, Claims
  <1> QED
    BY <1>0, <1>1, <1>2, HandlerMoves

\* The row a registration finds itself in is in the file, or its id is lost.
LEMMA ListStands ==
    ASSUME TInv, OInv, NEW q \in Requests, ListRegistered(q) PROVE OInv'
  <1> DEFINE id == Registered(q)
             u  == req[q].user
  <1>0. /\ req[q] \in Handler /\ Shape(req[q], KnownIds) /\ req \in [Requests -> Handler]
        /\ UNCHANGED <<index, devices>> /\ lost' = lost \cup ({id} \ (Ids(u) \cup {req[q].dev}))
    BY HandlerOf DEF TInv, Handlers, ListRegistered
  <1>1. /\ req[q].at = "list" /\ u \in Users /\ req[q].op = "register"
        /\ \A x \in Requests : x # q => req'[x] = req[x]
        /\ req'[q].at = "publish" /\ req'[q].dev = id /\ req'[q].user = u
    BY <1>0 DEF ListRegistered, Handler, Shape
  <1> HIDE DEF id
  <1>2. ASSUME NEW d \in DeviceIds \ lost', d = id
        PROVE  (index[d] = u \/ d \in Ids(u)) /\ u \in Claimants(d)
    <2>1. d \in Ids(u) \/ d = req[q].dev
      BY <1>0, <1>2
    <2>2. CASE d \in Ids(u)
      BY <1>1, <2>2, ClaimantsAre
    <2>3. CASE d = req[q].dev
      <3>1. Counts(req[q], d) /\ Claims(req[q], d) /\ Stands(d)
        BY <1>0, <1>1, <2>3 DEF Counts, Claims, OInv
      <3> QED
        BY <1>1, <3>1, ClaimantsAre DEF Stands, Relies
    <2> QED
      BY <2>1, <2>2, <2>3
  <1>3. ASSUME NEW d \in DeviceIds \ lost', Counts(req'[q], d)
        PROVE  Relies(req'[q], d) /\ req'[q].user \in Claimants(d)
    BY <1>1, <1>2, <1>3 DEF Counts, Relies
  <1> QED
    BY <1>0, <1>1, <1>3, HandlerMoves

\* The other steps of a handler that leave the index.
LEMMA HandlersMove ==
    ASSUME TInv, OInv, NEW q \in Requests,
           \/ \E t \in DOMAIN tokens, d \in ChosenIds \cup {Nobody}, p \in PushTokens :
                 RegisterBegin(q, t, d, p)
           \/ Upsert(q) \/ RegisterFails(q)
           \/ Find(q) /\ ~ RescanWrite(q)
           \/ Unregister(q) /\ ~ Drop(q)
    PROVE  OInv'
  <1>0. /\ req[q] \in Handler /\ Shape(req[q], KnownIds) /\ req \in [Requests -> Handler]
        /\ Nobody \notin DeviceIds
    BY HandlerOf, Known DEF TInv, Handlers
  <1>1. ASSUME NEW t, NEW d, NEW p, RegisterBegin(q, t, d, p) PROVE OInv'
    <2>1. /\ UNCHANGED <<index, devices, lost>>
          /\ \A x \in Requests : x # q => req'[x] = req[x]
          /\ req'[q].at = IF d = Nobody THEN "upsert" ELSE "lookup"
          /\ req'[q].dev = d
      BY <1>0, <1>1 DEF RegisterBegin, Idle
    <2>2. \A e \in DeviceIds : ~ Counts(req'[q], e)
      BY <1>0, <2>1 DEF Counts
    <2> QED
      BY <2>1, <2>2, HandlerMoves
  <1>2. CASE Upsert(q)
    <2>1. /\ UNCHANGED <<index, devices, lost>>
          /\ \A x \in Requests : x # q => req'[x] = req[x]
          /\ req'[q].at = "upserting" /\ req'[q].dev = req[q].dev /\ req'[q].user = req[q].user
          /\ req'[q].op = req[q].op /\ req[q].at = "upsert"
      BY <1>0, <1>2 DEF Upsert, Goto, Handler
    <2>2. ASSUME NEW d \in DeviceIds \ lost', Counts(req'[q], d)
          PROVE  Relies(req'[q], d) /\ req'[q].user \in Claimants(d)
      <3>1. Counts(req[q], d) /\ Claims(req[q], d) /\ Stands(d)
        BY <2>1, <2>2 DEF Counts, Claims, OInv
      <3>2. Relies(req[q], d) /\ req[q].user \in Claimants(d)
        BY <3>1, ClaimantsAre DEF Stands
      <3> QED
        BY <2>1, <3>2 DEF Relies
    <2> QED
      BY <2>1, <2>2, HandlerMoves
  <1>3. CASE RegisterFails(q)
    <2>1. /\ req'[q] = Idle /\ \A x \in Requests : x # q => req'[x] = req[x]
          /\ UNCHANGED <<index, devices, lost>>
      BY <1>0, <1>3 DEF RegisterFails, Finish
    <2> QED
      BY <2>1, OthersMove DEF Idle
  <1>4. CASE Find(q) /\ ~ RescanWrite(q)
    <2>1. CASE req'[q].op # "register"
      <3>1. UNCHANGED <<index, devices>> /\ lost \subseteq lost'
        BY <1>4 DEF Find, Lookup, LookupAgain, RescanFails, Rescan, RescanSkips
      <3> QED
        BY <1>4, <2>1, <3>1, FindMoves, OthersMove
    <2>2. CASE req'[q].op = "register"
      <3>1. req[q].op = "register"
        BY <1>4, <2>2, FindMoves DEF Idle
      <3>2. ~ LookupAgain(q)
        BY <1>0, <3>1 DEF LookupAgain, Shape
      <3> QED
        BY <1>4, <3>1, <3>2, LookupStands, RescanStands, RescanFailsStands DEF Find
    <2> QED
      BY <2>1, <2>2
  <1>5. CASE Unregister(q) /\ ~ Drop(q)
    <2>1. UNCHANGED <<index, lost>>
      BY <1>5 DEF Unregister, DeleteBegin, DeregisterBegin, RevokeBegin, Authenticate, Refuse,
                  RemoveOne, RemoveAbsent, RemoveFails, RemoveDone
    <2> QED
      BY <1>5, <2>1, UnregisterMoves, OthersMove
  <1> QED
    BY <1>1, <1>2, <1>3, <1>4, <1>5

\* Who holds the entry of an id, or finds none, is its only claimant.
LEMMA OnlyClaimant ==
    ASSUME NEW d \in DeviceIds, Stands(d), NEW u \in Users, index[d] = u
    PROVE  Claimants(d) \subseteq {u}
  BY PairingAssumption DEF Stands

\* For the ids a step does not touch.
LEMMA Untouched ==
    ASSUME NEW d \in DeviceIds, Stands(d), index'[d] = index[d],
           \A u \in Users : d \in IdsOf(devices'[u]) <=> d \in IdsOf(devices[u]),
           \A q \in Requests : Counts(req'[q], d) =>
              req'[q] = req[q] /\ (req[q].at = "publish" => req[q].user \in Users)
    PROVE  Stands(d)'
  <1>1. ASSUME NEW q \in Requests, Counts(req'[q], d)
        PROVE  /\ Relies(req'[q], d)
               /\ Claims(req'[q], d) => req'[q].user \in Claimants(d)
               /\ req'[q].at = "publish" =>
                      index[d] = req'[q].user \/ d \in IdsOf(devices'[req'[q].user])
    BY <1>1, Standing, IdsAreOf
  <1>2. \A u \in Users : d \in IdsOf(devices'[u]) => u \in Claimants(d)
    BY ClaimantsAre, IdsAreOf
  <1> QED
    BY <1>1, <1>2, Shrink

LEMMA PublisherIsUser ==
    ASSUME TInv, NEW q \in Requests, NEW d, Counts(req[q], d) PROVE req[q].user \in Users
  BY HandlerOf DEF Counts, Shape

LEMMA RescanWriteStands ==
    ASSUME TInv, OInv, NEW q \in Requests, RescanWrite(q) PROVE OInv'
  <1> DEFINE next == req[q].next
  <1>0. /\ req[q] \in Handler /\ Shape(req[q], KnownIds) /\ req \in [Requests -> Handler]
        /\ req[q].at = "rescan" /\ req[q].unread = {} /\ index' = next /\ devices' = devices
        /\ lost' = lost \cup Taken(next) \cup Outdated(next)
        /\ index \in [DeviceIds -> Owners]
    BY HandlerOf DEF TInv, Handlers, Stores, RescanWrite
  <1>1. /\ \A x \in Requests : x # q => req'[x] = req[x]
        /\ req'[q].op = req[q].op /\ req'[q].dev = req[q].dev
        /\ req'[q].at = IF req[q].op = "register" THEN "reserve" ELSE "again"
    BY <1>0 DEF RescanWrite, AfterRescan, Handler
  <1>2. next \in [DeviceIds -> Owners] /\ Nobody \notin Users
    BY <1>0, PairingAssumption DEF Shape
  <1>3. ASSUME NEW d \in DeviceIds \ lost' PROVE Stands(d)'
    <2>1. d \in DeviceIds /\ d \notin lost /\ d \notin Taken(next) /\ d \notin Outdated(next)
      BY <1>0, <1>3
    <2>2. Stands(d)
      BY <2>1 DEF OInv
    <2>3. /\ \A u : IdsOf(devices'[u]) = IdsOf(devices[u])
          /\ ~ Claims(req'[q], d) /\ (Counts(req'[q], d) => Counts(req[q], d))
      BY <1>0, <1>1 DEF Claims, Counts
    <2>4. CASE next[d] = Nobody /\ index[d] = Nobody
      <3>1. ASSUME Counts(req'[q], d) PROVE Relies(req'[q], d)
        <4>1. Claimants(d) = {}
          BY <1>0, <2>2, <2>3, <2>4, <3>1 DEF Stands, Relies
        <4> QED
          BY <1>0, <1>1, <2>3, <3>1, <4>1 DEF Relies, Counts
      <3>2. ASSUME NEW x \in Requests, Counts(req'[x], d)
            PROVE  /\ Relies(req'[x], d)
                   /\ Claims(req'[x], d) => req'[x].user \in Claimants(d)
                   /\ req'[x].at = "publish" =>
                          index[d] = req'[x].user \/ d \in IdsOf(devices'[req'[x].user])
        <4>1. CASE x = q
          BY <1>1, <2>3, <3>1, <3>2, <4>1
        <4>2. CASE x # q
          BY <1>1, <2>2, <2>3, <3>2, <4>2, Standing, IdsAreOf, PublisherIsUser
        <4> QED
          BY <4>1, <4>2
      <3>3. \A u \in Users : d \in IdsOf(devices'[u]) => u \in Claimants(d)
        BY <2>3, ClaimantsAre, IdsAreOf
      <3> QED
        BY <1>0, <2>1, <2>2, <2>4, <3>2, <3>3, Shrink
    <2>5. CASE next[d] = Nobody /\ index[d] # Nobody
      <3>1. Counting(d) = {}
        BY <2>1, <2>5 DEF Taken
      <3>2. \A x \in Requests : ~ Counts(req[x], d)
        BY <3>1 DEF Counting, Counts
      <3>3. \A x \in Requests : ~ Counts(req'[x], d)
        BY <1>1, <2>3, <3>2
      <3>4. \A u \in Users : d \in IdsOf(devices'[u]) => u \in Claimants(d)
        BY <2>3, ClaimantsAre, IdsAreOf
      <3> QED
        BY <1>0, <2>1, <2>2, <2>5, <3>3, <3>4, Shrink
    <2>6. CASE next[d] # Nobody
      <3> DEFINE u == next[d]
      <3>1. u \in Users /\ d \in Ids(u)
        BY <1>2, <2>1, <2>6 DEF Outdated, Owners
      <3>2. Claimants(d) \subseteq {u}
        BY <2>2, <3>1, ClaimantsAre DEF Stands
      <3>3. Claimants(d)' \subseteq Claimants(d)
        BY <1>1, <2>3, ClaimantsAre, ClaimantsAreNext, IdsAreOf
      <3>4. index'[d] = u
        BY <1>0
      <3> HIDE DEF u
      <3> QED
        BY <2>1, <3>1, <3>2, <3>3, <3>4, Settled
    <2> QED
      BY <2>4, <2>5, <2>6
  <1> QED
    BY <1>3 DEF OInv

LEMMA ReserveStands ==
    ASSUME TInv, OInv, NEW q \in Requests, Reserve(q) PROVE OInv'
  <1> DEFINE u == req[q].user
             e == req[q].dev
  <1>0. /\ req[q] \in Handler /\ Shape(req[q], KnownIds) /\ req \in [Requests -> Handler]
        /\ req[q].at = "reserve" /\ index \in [DeviceIds -> Owners]
        /\ UNCHANGED <<devices, lost>>
    BY HandlerOf DEF TInv, Handlers, Stores, Reserve
  <1>1. u \in Users /\ e \in DeviceIds /\ req[q].op = "register"
    BY <1>0 DEF Shape, Handler
  <1>2. CASE index[e] \notin {Nobody, u}
    <2>1. /\ UNCHANGED <<index, devices, lost>> /\ req'[q] = Idle
          /\ \A x \in Requests : x # q => req'[x] = req[x]
      BY <1>0, <1>2 DEF Reserve, Finish
    <2> QED
      BY <2>1, OthersMove DEF Idle
  <1>3. CASE index[e] \in {Nobody, u}
    <2>1. /\ index' = [index EXCEPT ![e] = u] /\ req'[q].dev = e /\ req'[q].user = u
          /\ \A x \in Requests : x # q => req'[x] = req[x]
      BY <1>0, <1>3 DEF Reserve, Goto, Handler
    <2>2. /\ \A v : IdsOf(devices'[v]) = IdsOf(devices[v])
          /\ index'[e] = u /\ \A d \in DeviceIds : d # e => index'[d] = index[d]
      BY <1>0, <1>1, <2>1
    <2> HIDE DEF u, e
    <2>3. ASSUME NEW d \in DeviceIds \ lost PROVE Stands(d)'
      <3>1. Stands(d)
        BY <2>3 DEF OInv
      <3>2. CASE d = e
        <4>1. Claimants(d) \subseteq {u}
          <5>1. CASE index[d] = u
            BY <1>1, <3>1, <5>1, OnlyClaimant
          <5>2. CASE index[d] = Nobody
            <6>1. Counts(req[q], d)
              BY <1>0, <1>1, <3>2 DEF Counts, e
            <6> QED
              BY <1>0, <3>1, <5>2, <6>1 DEF Stands, Relies
          <5> QED
            BY <1>3, <3>2, <5>1, <5>2
        <4>2. Claimants(d)' \subseteq Claimants(d) \cup {u}
          BY <2>1, <2>2, ClaimantsAre, ClaimantsAreNext, IdsAreOf
        <4> QED
          BY <1>1, <2>2, <3>2, <4>1, <4>2, Settled
      <3>3. CASE d # e
        <4>1. \A x \in Requests : Counts(req'[x], d) => req'[x] = req[x] /\ req[x].user \in Users
          BY <2>1, <3>3, PublisherIsUser DEF Counts
        <4> QED
          BY <2>2, <3>1, <3>3, <4>1, Untouched
      <3> QED
        BY <3>2, <3>3
    <2> QED
      BY <1>0, <2>3 DEF OInv
  <1> QED
    BY <1>2, <1>3

LEMMA PublishStands ==
    ASSUME TInv, OInv, NEW q \in Requests, Publish(q) PROVE OInv'
  <1> DEFINE u == req[q].user
             e == req[q].dev
  <1>0. /\ req[q] \in Handler /\ Shape(req[q], KnownIds) /\ req \in [Requests -> Handler]
        /\ req[q].at = "publish" /\ index \in [DeviceIds -> Owners]
        /\ UNCHANGED <<devices, lost>>
    BY HandlerOf DEF TInv, Handlers, Stores, Publish
  <1>1. u \in Users /\ e \in DeviceIds \cup {Nobody} /\ req[q].op = "register"
    BY <1>0 DEF Shape, Handler
  <1>2. req'[q] = Idle /\ \A x \in Requests : x # q => req'[x] = req[x]
    BY <1>0 DEF Publish, Finish
  <1>3. CASE e = Nobody
    BY <1>0, <1>2, <1>3, OthersMove DEF Publish, Idle
  <1>4. CASE e # Nobody
    <2>1. /\ \A v : IdsOf(devices'[v]) = IdsOf(devices[v])
          /\ index'[e] = u /\ \A d \in DeviceIds : d # e => index'[d] = index[d]
      BY <1>0, <1>1, <1>4 DEF Publish
    <2> HIDE DEF u, e
    <2>2. ASSUME NEW d \in DeviceIds \ lost PROVE Stands(d)'
      <3>1. Stands(d)
        BY <2>2 DEF OInv
      <3>2. \A x \in Requests : Counts(req'[x], d) => req'[x] = req[x] /\ req[x].user \in Users
        BY <1>2, PublisherIsUser DEF Counts, Idle
      <3>3. CASE d = e
        <4>1. u \in Claimants(d)
          BY <1>0, <1>1, <3>3, ClaimantsAre DEF Claims, u, e
        <4>2. Claimants(d) = {u}
          BY <3>1, <4>1 DEF Stands
        <4>3. Claimants(d)' \subseteq Claimants(d)
          <5>1. ~ Claims(req'[q], d)
            BY <1>2 DEF Claims, Idle
          <5> QED
            BY <1>2, <2>1, <5>1, ClaimantsAre, ClaimantsAreNext, IdsAreOf
        <4> QED
          BY <1>1, <2>1, <3>3, <4>2, <4>3, Settled
      <3>4. CASE d # e
        BY <2>1, <3>1, <3>2, <3>4, Untouched
      <3> QED
        BY <3>3, <3>4
    <2> QED
      BY <1>0, <2>2 DEF OInv
  <1> QED
    BY <1>3, <1>4

LEMMA DropStands ==
    ASSUME TInv, OInv, NEW q \in Requests, Drop(q) PROVE OInv'
  <1> DEFINE e == Head(req[q].todo)
  <1>0. /\ req[q] \in Handler /\ Shape(req[q], KnownIds) /\ req \in [Requests -> Handler]
        /\ req[q].at = "drop" /\ index \in [DeviceIds -> Owners] /\ devices' = devices
        /\ lost' = lost \cup Taken(index') /\ index' = [index EXCEPT ![e] = Nobody]
    BY HandlerOf DEF TInv, Handlers, Stores, Drop
  <1>1. req[q].op # "register"
    BY <1>0 DEF Shape
  <1>2. req'[q].op = req[q].op /\ \A x \in Requests : x # q => req'[x] = req[x]
    BY <1>0 DEF Drop, Handler
  <1> HIDE DEF e
  <1>3. \A d \in DeviceIds : index'[d] = IF d = e THEN Nobody ELSE index[d]
    BY <1>0
  <1>4. ASSUME NEW d \in DeviceIds \ lost' PROVE Stands(d)'
    <2>1. d \in DeviceIds /\ d \notin lost /\ d \notin Taken(index')
      BY <1>0, <1>4
    <2>2. Stands(d)
      BY <2>1 DEF OInv
    <2>3. \A u : IdsOf(devices'[u]) = IdsOf(devices[u])
      BY <1>0
    <2>4. \A x \in Requests : Counts(req'[x], d) => req'[x] = req[x] /\ req[x].user \in Users
      BY <1>1, <1>2, PublisherIsUser DEF Counts
    <2>5. CASE index'[d] = index[d]
      BY <2>1, <2>2, <2>3, <2>4, <2>5, Untouched
    <2>6. CASE index'[d] # index[d]
      <3>1. index'[d] = Nobody /\ index[d] # Nobody
        BY <1>3, <2>1, <2>6
      <3>2. Counting(d) = {}
        BY <2>1, <3>1 DEF Taken
      <3>3. \A x \in Requests : ~ Counts(req'[x], d)
        BY <2>4, <3>2 DEF Counting, Counts
      <3>4. \A u \in Users : d \in IdsOf(devices'[u]) => u \in Claimants(d)
        BY <2>3, ClaimantsAre, IdsAreOf
      <3> QED
        BY <2>1, <2>2, <3>1, <3>3, <3>4, Shrink
    <2> QED
      BY <2>5, <2>6
  <1> QED
    BY <1>4 DEF OInv

\* The rows of a file change: for an id that has been seen, what leaves them and
\* what comes to them is lost or has an owner already.
LEMMA WriteStands ==
    ASSUME TInv, OInv, NEW p \in Processes, NEW u \in Users, Write(p, u) PROVE OInv'
  <1> DEFINE w    == writer[p][u]
             rows == Result(w)
             q    == w.by
  <1>0. /\ req \in [Requests -> Handler] /\ devices \in [Users -> Seq(Row)]
        /\ KnownIds \subseteq DeviceIds
    BY Known DEF TInv, Handlers, Stores
  <1>1. /\ devices' = [devices EXCEPT ![u] = rows] /\ index' = index
        /\ lost' = lost \cup Unpublished(u, rows) \cup Restored(u, rows)
    BY DEF Write
  <1>2. q \in Requests => p = "api" /\ Waits(u, req[q])
    BY OperationOf
  <1>3. IF q \in Requests
        THEN Goto(q, IF Registers(q) THEN "list" ELSE "drop")
        ELSE UNCHANGED req
    BY DEF Write
  <1> HIDE DEF rows, q
  <1>4. \A v \in Users : devices'[v] = IF v = u THEN rows ELSE devices[v]
    BY <1>0, <1>1
  <1>5. /\ \A x \in Requests : x # q => req'[x] = req[x]
        /\ q \in Requests =>
              /\ req'[q].op = req[q].op /\ req'[q].user = req[q].user /\ req'[q].dev = req[q].dev
              /\ req[q].op = "register" => req[q].at = "upserting" /\ req'[q].at = "list"
              /\ req[q].op # "register" => req'[q].op # "register"
    BY <1>0, <1>2, <1>3 DEF Goto, Registers, Waits, Handler
  <1>6. ASSUME NEW d \in DeviceIds \ lost', d \in KnownIds PROVE Stands(d)'
    <2>1. Stands(d) /\ d \notin Unpublished(u, rows) /\ d \notin Restored(u, rows)
      BY <1>1, <1>6 DEF OInv
    <2>2. \A v \in Users : d \in IdsOf(devices'[v]) => v \in Claimants(d)
      BY <1>4, <1>6, <2>1, ClaimantsAre, IdsAreOf DEF Restored
    <2>3. ASSUME NEW x \in Requests, Counts(req'[x], d)
          PROVE  /\ Relies(req'[x], d)
                 /\ Claims(req'[x], d) => req'[x].user \in Claimants(d)
                 /\ req'[x].at = "publish" =>
                        index[d] = req'[x].user \/ d \in IdsOf(devices'[req'[x].user])
      <3>1. CASE x = q
        <4>1. /\ Counts(req[q], d) /\ Claims(req[q], d) /\ req[q].at = "upserting"
              /\ req'[q].at = "list" /\ req'[q].user = req[q].user
          BY <1>5, <2>3, <3>1 DEF Counts, Claims
        <4>2. Relies(req[q], d) /\ req[q].user \in Claimants(d)
          BY <2>1, <3>1, <4>1, Standing
        <4> QED
          BY <3>1, <4>1, <4>2 DEF Relies
      <3>2. CASE x # q
        <4>1. req'[x] = req[x] /\ Counts(req[x], d) /\ req[x].user \in Users
          BY <1>5, <2>3, <3>2, PublisherIsUser
        <4>2. /\ Relies(req[x], d) /\ (Claims(req[x], d) => req[x].user \in Claimants(d))
              /\ req[x].at = "publish" => index[d] = req[x].user \/ d \in Ids(req[x].user)
          BY <2>1, <4>1, Standing
        <4>3. ASSUME req[x].at = "publish", d \in Ids(req[x].user)
              PROVE  d \in IdsOf(devices'[req[x].user])
          <5>1. CASE req[x].user = u
            <6>1. req[x].op = "register" /\ req[x].dev = d
              BY <4>1 DEF Counts
            <6> QED
              BY <1>4, <2>1, <4>3, <5>1, <6>1 DEF Unpublished
          <5>2. CASE req[x].user # u
            BY <1>4, <4>1, <4>3, <5>2, IdsAreOf
          <5> QED
            BY <5>1, <5>2
        <4> QED
          BY <4>1, <4>2, <4>3
      <3> QED
        BY <3>1, <3>2
    <2> QED
      BY <1>1, <2>1, <2>2, <2>3, Shrink
  <1>7. ASSUME NEW d \in DeviceIds \ lost', d \notin KnownIds PROVE Stands(d)'
    <2>1. index[d] = Nobody /\ \A v \in Users : d \notin IdsOf(devices[v])
      BY <1>7 DEF TInv, Minted
    <2>2. ASSUME NEW x \in Requests PROVE req'[x].dev # d
      <3>1. req[x].dev # d
        BY <1>0, <1>7, HandlerOf, Known DEF Shape, TInv
      <3> QED
        BY <1>5, <3>1
    <2>3. Claimants(d)' \subseteq {u}
      BY <1>4, <2>1, <2>2, ClaimantsAreNext DEF Claims
    <2>4. \A v \in Claimants(d)' : Claimants(d)' = {v} /\ index'[d] \in {v, Nobody}
      BY <1>1, <2>1, <2>3
    <2>5. \A x \in Requests : ~ Counts(req'[x], d)
      BY <2>2 DEF Counts
    <2> QED
      BY <2>4, <2>5 DEF Stands, Counts
  <1> QED
    BY <1>6, <1>7 DEF OInv

LEMMA StoreStands ==
    ASSUME TInv, OInv, NEW p \in Processes, NEW u \in Users, Store(p, u) PROVE OInv'
  <1>1. ASSUME UNCHANGED <<devices, index, req, lost>> PROVE OInv'
    <2>1. ASSUME NEW d \in DeviceIds \ lost PROVE Stands(d)'
      BY <1>1, PublisherIsUser, Untouched DEF OInv
    <2> QED
      BY <1>1, <2>1 DEF OInv
  <1>2. CASE Touch(p, u) \/ Truncate(p, u) \/ \E d \in DeviceIds : Prune(p, u, d)
    BY <1>1, <1>2 DEF Touch, Truncate, Prune
  <1>3. CASE WriteFails(p, u)
    <2> DEFINE q == writer[p][u].by
    <2>0. UNCHANGED <<devices, index, lost>> /\ req \in [Requests -> Handler]
      BY <1>3 DEF WriteFails, TInv, Handlers
    <2>1. CASE q \notin Requests
      BY <1>1, <1>3, <2>0, <2>1 DEF WriteFails
    <2>2. CASE q \in Requests
      <3>1. GiveUp(q)
        BY <1>3, <2>2 DEF WriteFails
      <3>2. CASE req[q].op = "revoke"
        <4> DEFINE r == [req[q] EXCEPT !.at = "remove", !.todo = Tail(@), !.clean = FALSE]
        <4>1. req' = [req EXCEPT ![q] = r]
          BY <2>0, <2>2, <3>1, <3>2 DEF GiveUp
        <4>2. r.op = "revoke"
          BY <2>0, <2>2, <3>2 DEF Handler
        <4> HIDE DEF r
        <4>3. req'[q].op = "revoke" /\ \A x \in Requests : x # q => req'[x] = req[x]
          BY <2>0, <2>2, <4>1, <4>2
        <4> QED
          BY <2>0, <2>2, <4>3, OthersMove
      <3>3. CASE req[q].op # "revoke"
        <4>1. req'[q] = Idle /\ \A x \in Requests : x # q => req'[x] = req[x]
          BY <2>0, <2>2, <3>1, <3>3 DEF GiveUp, Finish
        <4> QED
          BY <2>0, <2>2, <4>1, OthersMove DEF Idle
      <3> QED
        BY <3>2, <3>3
    <2> QED
      BY <2>1, <2>2
  <1> QED
    BY <1>2, <1>3, WriteStands DEF Store

LEMMA OInvNext == TInv /\ OInv /\ [Next]_vars => OInv'
  <1> SUFFICES ASSUME TInv, OInv, [Next]_vars PROVE OInv'
    OBVIOUS
  <1>1. ASSUME NEW q \in Requests, Handle(q) PROVE OInv'
    <2>1. CASE RescanWrite(q)
      BY <2>1, RescanWriteStands
    <2>2. CASE Drop(q)
      BY <2>2, DropStands
    <2>3. CASE Find(q) /\ ~ RescanWrite(q)
      BY <2>3, HandlersMove
    <2>4. CASE Unregister(q) /\ ~ Drop(q)
      BY <2>4, HandlersMove
    <2>5. CASE Register(q)
      BY <2>5, HandlersMove, ReserveStands, ListStands, PublishStands DEF Register
    <2> QED
      BY <1>1, <2>1, <2>2, <2>3, <2>4, <2>5 DEF Handle
  <1>2. CASE Restart
    <2>1. /\ devices' = devices /\ lost' = lost /\ \A q \in Requests : req'[q] = Idle
          /\ \A d \in DeviceIds : index'[d] = Nobody
      BY <1>2 DEF Restart
    <2>2. ASSUME NEW d \in DeviceIds \ lost PROVE Stands(d)'
      <3>1. \A q \in Requests : ~ Counts(req'[q], d)
        BY <2>1 DEF Counts, Idle
      <3>2. \A u \in Users : d \in IdsOf(devices'[u]) => u \in Claimants(d)
        BY <2>1, ClaimantsAre, IdsAreOf
      <3> QED
        BY <2>1, <3>1, <3>2, Shrink DEF OInv
    <2> QED
      BY <2>1, <2>2 DEF OInv
  <1>3. CASE \/ \E u \in Users : MintToken(u) \/ ListDevices(u)
             \/ RestartDaemon \/ Tick \/ UNCHANGED vars
    <2>1. UNCHANGED <<devices, index, lost, req>>
      BY <1>3 DEF MintToken, ListDevices, RestartDaemon, Tick, vars
    <2>2. ASSUME NEW d \in DeviceIds \ lost PROVE Stands(d)'
      BY <2>1, PublisherIsUser, Untouched DEF OInv
    <2> QED
      BY <2>1, <2>2 DEF OInv
  <1> QED
    BY <1>1, <1>2, <1>3, StoreStands DEF Next

\* For any number of users, ids, requests and failures, and with the daemon's writes
\* in between: a device id whose owner no removal, rescan, late write or list from
\* memory has lost sight of (the cases OwnerStands names) has one owner, and the
\* index leads to that owner or to the files.
THEOREM OwnerStandsAlways == Spec => []OwnerStands
  <1>1. OInv => OwnerStands
    BY DEF OInv, Stands, OwnerStands
  <1> QED
    BY <1>1, OInvInit, OInvNext, TypesInvariant, PTL DEF Spec
============================================================================
