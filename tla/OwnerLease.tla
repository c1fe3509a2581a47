----------------------------- MODULE OwnerLease -----------------------------
(***************************************************************************)
(* The generation-fenced role lease of spx-ledger (ownership.rs).  The     *)
(* table runtime_owners holds one row per role; each operation below is    *)
(* one immediate SQLite transaction on that row.  A role nobody ever       *)
(* acquired is the row NoLease: generation 0, inactive.                    *)
(*                                                                         *)
(* `s' is the timestamp the caller read before the transaction, `d' the    *)
(* configured lease duration.                                              *)
(***************************************************************************)
EXTENDS Integers

NoLease(nobody) == [id |-> nobody, gen |-> 0, active |-> FALSE, until |-> 0]

\* require_owner_in_transaction: the caller's id and generation are current
\* and the stored lease is unexpired at the caller's own timestamp.
Owns(lease, id, gen, s) ==
    /\ lease.id = id
    /\ lease.gen = gen
    /\ lease.active
    /\ lease.until > s

\* acquire_owner succeeds for the live holder itself, or when the role is free.
Reentrant(lease, id, s) == lease.active /\ lease.id = id /\ lease.until > s

Acquirable(lease, id, s) ==
    Reentrant(lease, id, s) \/ ~lease.active \/ lease.until <= s

\* Only a re-entrant acquisition keeps the generation.
Acquired(lease, id, s, d) ==
    [id     |-> id,
     gen    |-> IF Reentrant(lease, id, s) THEN lease.gen ELSE lease.gen + 1,
     active |-> TRUE,
     until  |-> s + d]

\* renew_owner: a compare-and-set on (id, generation, active, unexpired).
Renewed(lease, s, d) == [lease EXCEPT !.until = s + d]

\* release_owner changes the row only for the caller's current generation.
Released(lease, id, gen) ==
    IF lease.id = id /\ lease.gen = gen /\ lease.active
    THEN [lease EXCEPT !.active = FALSE]
    ELSE lease
=============================================================================
