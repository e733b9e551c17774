----------------------------- MODULE MCMailPoller -----------------------------
(***************************************************************************)
(* MailPoller for TLC: the sets of UIDs the configurations use.            *)
(***************************************************************************)
EXTENDS MailPoller

SecondOversized == {2}
=============================================================================
