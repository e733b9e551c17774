-------------------------- MODULE MCDevicePairing --------------------------
(***************************************************************************)
(* DevicePairing for TLC.  Requests, the ids clients choose and the push   *)
(* tokens are interchangeable, and so are the users.                       *)
(*                                                                         *)
(* MCNext:  Tokens are minted and the clock moves while no request is under*)
(* way.  Only the first step of a registration reads either: a token that  *)
(* is valid there could have been minted, and the clock could have moved,  *)
(* before the other request began; and nothing reads them after the second *)
(* request.  The other writes of the files are the daemon's, begun while a *)
(* request is in flight: alone, or under the API's own mutex, such a write *)
(* puts back what it read.                                                 *)
(*                                                                         *)
(* LastCalls:  The third and fourth call are there for what takes so many  *)
(* requests, and what they do not need is left out beside them.            *)
(*   third  With one push token.  With a fault: a file passed over by a    *)
(*          rescan or an index lost in a restart, then two claims of an id.*)
(*          With a write of the daemon: a row put back after a removal and *)
(*          claimed by the other user, or a fault on top of it.            *)
(*   fourth A rescan that read the files before a device was removed and   *)
(*          its id claimed by the other user, and replaces the index after.*)
(* The clock matters to tokens alone: with a write of the daemon, and with *)
(* a fault before the third call, it stands still.                         *)
(***************************************************************************)
EXTENDS DevicePairing, FiniteSets, TLC

\* No request is under way, and at most one has been made.
Quiet == calls <= 1 /\ \A q \in Requests : req[q] = Idle

\* The daemon comes in between the steps of a request.
Beside(p) == p = "daemon" /\ \E q \in Requests : req[q] # Idle

MCNext ==
    \/ \E q \in Requests : Handle(q)
    \/ \E p \in Processes, u \in Users : Store(p, u) /\ (touches' # touches => Beside(p))
    \/ \E u \in Users : (Quiet /\ MintToken(u)) \/ ListDevices(u)
    \/ Restart \/ RestartDaemon
    \/ Quiet /\ Tick

\* The push tokens that rows and registrations have.
PushesInUse ==
    UNION {{devices[u][i].push : i \in DOMAIN devices[u]} : u \in Users}
        \cup {req[q].push : q \in {r \in Requests : req[r].op = "register"}}

\* No row has a minted id.
ChosenOnly == \A u \in Users : Ids(u) \subseteq ChosenIds

\* No fault, no minted id, no time passed.
Plain ==
    /\ faults = 0 /\ now = 1 /\ ChosenOnly
    /\ \A q \in Requests : req[q].op = "register" => req[q].dev # Nobody

Registrations == \A q \in Requests : req[q].op \in {"idle", "register"}

LastCalls ==
    /\ touches > 0 => now = 1
    /\ calls >= 3 => Cardinality(PushesInUse) <= 1
    /\ calls = 3 /\ faults > 0 => now = 1 /\ ChosenOnly
    /\ calls = 3 /\ touches > 0 => Plain \/ (faults > 0 /\ Registrations)
    /\ calls = 4 => touches = 0 /\ Plain

MCSpec == Init /\ [][MCNext /\ LastCalls']_vars

Symmetry ==
    Permutations(Requests) \cup Permutations(ChosenIds) \cup Permutations(PushTokens)
        \cup Permutations(Users)
============================================================================
