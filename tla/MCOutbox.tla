------------------------------- MODULE MCOutbox -------------------------------
(***************************************************************************)
(* Instances of Outbox for TLC: an approval step with two candidates, and  *)
(* a topic nobody handles.                                                 *)
(***************************************************************************)
EXTENDS Outbox, TLC

CONSTANTS step, other, u1, u2

RecipientsOf == (step :> {u1, u2}) @@ (other :> {})
=============================================================================
