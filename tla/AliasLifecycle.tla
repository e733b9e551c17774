--------------------------- MODULE AliasLifecycle ----------------------------
(***************************************************************************)
(* What the send-as store promises to the path that sends mail: an alias   *)
(* is created pending, is verified or fails once, and goes for good.  Only *)
(* an alias that was proved is ever verified.  A write made from a copy    *)
(* the other process has outrun (a clobber) may take records back to what  *)
(* they were, but proves nothing.                                          *)
(***************************************************************************)
EXTENDS Naturals

CONSTANT Ids

VARIABLES
    status,     \* the life of each alias
    proved,     \* the aliases whose domain has answered the probe
    clobbered   \* whether the last write was a clobber

vars == <<status, proved, clobbered>>

Status == {"absent", "pending", "verified", "failed", "removed"}

Init ==
    /\ status = [i \in Ids |-> "absent"]
    /\ proved = {}
    /\ clobbered = FALSE

Become(i, from, to) ==
    /\ status[i] = from
    /\ status' = [status EXCEPT ![i] = to]
    /\ clobbered' = FALSE
    /\ UNCHANGED proved

Create(i)  == Become(i, "absent", "pending") \/ Become(i, "absent", "removed")
Fail(i)    == Become(i, "pending", "failed")
Verify(i)  == i \in proved /\ Become(i, "pending", "verified")
Remove(i)  == \E s \in {"pending", "verified", "failed"} : Become(i, s, "removed")

\* The failed ones of a day ago go together.
Sweep(S) ==
    /\ \A i \in S : status[i] = "failed"
    /\ status' = [i \in Ids |-> IF i \in S THEN "removed" ELSE status[i]]
    /\ clobbered' = FALSE
    /\ UNCHANGED proved

Prove(i) ==
    /\ proved' = proved \cup {i}
    /\ UNCHANGED <<status, clobbered>>

Clobber ==
    /\ status' \in [Ids -> Status]
    /\ \A i \in Ids : status'[i] = "verified" => i \in proved
    /\ clobbered' = TRUE
    /\ UNCHANGED proved

Next ==
    \/ \E i \in Ids : Create(i) \/ Fail(i) \/ Verify(i) \/ Remove(i) \/ Prove(i)
    \/ \E S \in SUBSET Ids : Sweep(S)
    \/ Clobber

Spec == Init /\ [][Next]_vars

\* Only what was proved is verified.
VerifiedWasProved == \A i \in Ids : status[i] = "verified" => i \in proved
=============================================================================
