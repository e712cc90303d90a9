------------------------------- MODULE JobQueue -------------------------------
(***************************************************************************)
(* The lease protocol that the job tables of this system share: what a     *)
(* claim, a retry, a deferral and an end make of a row.  Each table's own  *)
(* module says when they happen; they differ there.                        *)
(***************************************************************************)
EXTENDS Naturals

CONSTANT Nil      \* locked_by IS NULL

\* A row: leased is lease_expires_at > now(), due is available_at <= now().
JobRow(status, workers, tries) ==
  [status : status, attempts : 0 .. tries + 1, lockedBy : workers \cup {Nil},
   leased : BOOLEAN, due : BOOLEAN]
NewRow(status) == [status |-> status, attempts |-> 0, lockedBy |-> Nil, leased |-> FALSE, due |-> TRUE]

Taken(j, w) == [j EXCEPT !.status = "RUNNING", !.attempts = @ + 1, !.lockedBy = w, !.leased = TRUE]
Freed(j, status) == [j EXCEPT !.status = status, !.lockedBy = Nil, !.leased = FALSE]
Later(j, status) == [Freed(j, status) EXCEPT !.due = FALSE]
GivenBack(j) == [j EXCEPT !.attempts = IF @ = 0 THEN 0 ELSE @ - 1]
Renewed(j) == [j EXCEPT !.status = "PENDING", !.attempts = 0, !.due = TRUE]
Holds(j, w) == j.status = "RUNNING" /\ j.lockedBy = w
=============================================================================
