----------------------------- MODULE MCStateFile -----------------------------
(***************************************************************************)
(* StateFile for TLC.  A behaviour of all operations at once would have    *)
(* too many states: each profile lets some of them interleave.             *)
(***************************************************************************)
EXTENDS StateFile

OneUID == {1}

\* Both processes work on all three sections and one of them dies.
Sharing ==
    [kinds   |-> {"mark", "checkpoint", "cleanup", "upsert", "remove", "approver", "mode"},
     shared  |-> TRUE, sent |-> 0, crashes |-> 1]

\* Both enqueue while the phone polls and the mode may change.
Queueing ==
    [kinds  |-> {"remove", "mode", "enqueue", "poll"},
     shared |-> TRUE, sent |-> 3, crashes |-> 0]

\* Only the daemon enqueues, and one of the processes dies.
Quiet ==
    [kinds  |-> {"mark", "remove", "enqueue", "poll"},
     shared |-> FALSE, sent |-> 4, crashes |-> 1]

AllProfiles == {Sharing, Queueing, Quiet}
=============================================================================
