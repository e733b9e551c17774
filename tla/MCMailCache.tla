------------------------------ MODULE MCMailCache ------------------------------
(***************************************************************************)
(* MailCache for TLC: two clients that ask for windows of different sizes, *)
(* or one client beside the poller or the classic loads.  The clients may  *)
(* be exchanged.  A behaviour is followed until a write goes over another  *)
(* one, after which the properties claim nothing.                          *)
(***************************************************************************)
EXTENDS MailCache, TLC

MCCasts ==
    {[actors |-> Clients, limits |-> Limits]}
    \cup {[actors |-> {c, other}, limits |-> {2}] : c \in Clients, other \in {"poller", "loader"}}

MCNext == ~clobbered /\ Next

MCSpec == Init /\ [][MCNext]_vars

Symmetry == Permutations(Clients)
=============================================================================
