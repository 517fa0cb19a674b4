--------------------------- MODULE ExecutionLease ---------------------------
(***************************************************************************)
(* What the gateway promises the remote owner of the robot: leases are     *)
(* granted one at a time; the owner of a lease may HOLD or STOP at once    *)
(* and FOLLOW only after the robot was aligned; a command carries a larger *)
(* sequence than everything dispatched before it under the same lease (the *)
(* sequences of one lease may pass the start of the next); and a lease     *)
(* that is being revoked is held, dispatches nothing and can only end.     *)
(*                                                                         *)
(* The specification knows no transactions, acknowledgements, timers,      *)
(* staging or brake: HeavyGateway implements it.                           *)
(***************************************************************************)
EXTENDS Naturals

CONSTANT Span        \* the sequences of lease l start after l * Span

VARIABLES
  lease,     \* the number of the latest lease
  phase,     \* of that lease
  mode,      \* of the command in force
  last       \* the sequence dispatched last, or where the lease starts

leaseVars == <<lease, phase, mode, last>>

LeaseInit == lease = 0 /\ phase = "none" /\ mode = "none" /\ last = 0

Acquire ==
  /\ phase = "none" /\ phase' = "aligning"
  /\ lease' = lease + 1 /\ last' = lease' * Span /\ mode' = "STOP"

Align ==
  /\ phase = "aligning" /\ phase' = "usable"
  /\ UNCHANGED <<lease, mode, last>>

\* A dispatch completes the alignment, but a FOLLOW needs it beforehand.
Dispatch ==
  /\ phase \in {"aligning", "usable"} /\ phase' = "usable"
  /\ last' \in Nat /\ last' > last
  /\ mode' \in {"HOLD", "STOP"} \/ (mode' = "FOLLOW" /\ phase = "usable")
  /\ lease' = lease

\* The owner is silent: the robot is held, the lease is kept.
Hold ==
  /\ phase = "usable" /\ mode' = "HOLD"
  /\ UNCHANGED <<lease, phase, last>>

Revoke ==
  /\ phase \in {"aligning", "usable"} /\ phase' = "revoking" /\ mode' = "HOLD"
  /\ UNCHANGED <<lease, last>>

End ==
  /\ phase # "none" /\ phase' = "none" /\ mode' = "none"
  /\ UNCHANGED <<lease, last>>

LeaseNext == Acquire \/ Align \/ Dispatch \/ Hold \/ Revoke \/ End

Spec == LeaseInit /\ [][LeaseNext]_leaseVars
=============================================================================
