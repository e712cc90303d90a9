--------------------------- MODULE RevisionHistory ---------------------------
(***************************************************************************)
(* What the brand store promises: the in-memory store the service is       *)
(* tested against (src/brand/memory-store.ts), in which every call is one  *)
(* indivisible step.  Revisions of the workspace's profile are named by    *)
(* their revision numbers.                                                 *)
(***************************************************************************)
EXTENDS Naturals, FiniteSets

CONSTANTS Revisions, Keys, None

VARIABLES
  history,      \* the status of every revision, None before it is created
  requests,     \* onboardingRequests: the revision of each idempotency key
  outbox        \* the events pushed, as <<topic, revision>>

historyVars == <<history, requests, outbox>>

Existing == {r \in Revisions : history[r] # None}
NextRevision == Cardinality(Existing) + 1

Init ==
  /\ history = [r \in Revisions |-> None]
  /\ requests = [k \in Keys |-> None]
  /\ outbox = {}

createRevision(k) ==
  /\ requests[k] = None /\ NextRevision \in Revisions
  /\ history' = [history EXCEPT ![NextRevision] = "GENERATING"]
  /\ requests' = [requests EXCEPT ![k] = NextRevision]
  /\ outbox' = outbox \cup {<<"generation-requested", NextRevision>>}

createEditedRevision(base) ==
  /\ history[base] \in {"REVIEW_REQUIRED", "APPROVED", "SUPERSEDED"}
  /\ NextRevision \in Revisions
  /\ history' = [history EXCEPT ![NextRevision] = "REVIEW_REQUIRED"]
  /\ outbox' = outbox \cup {<<"review-required", NextRevision>>}
  /\ UNCHANGED requests

completeGeneration(r) ==
  /\ history[r] = "GENERATING"
  /\ history' = [history EXCEPT ![r] = "REVIEW_REQUIRED"]
  /\ outbox' = outbox \cup {<<"review-required", r>>}
  /\ UNCHANGED requests

failGeneration(r) ==
  /\ history[r] = "GENERATING"
  /\ history' = [history EXCEPT ![r] = "GENERATION_FAILED"]
  /\ UNCHANGED <<requests, outbox>>

approveRevision(r) ==
  /\ history[r] = "REVIEW_REQUIRED"
  /\ history' = [q \in Revisions |-> IF q = r THEN "APPROVED"
                                     ELSE IF history[q] = "APPROVED" THEN "SUPERSEDED"
                                     ELSE history[q]]
  /\ outbox' = outbox \cup {<<"approved", r>>}
  /\ UNCHANGED requests

Next ==
  \/ \E k \in Keys : createRevision(k)
  \/ \E r \in Revisions : \/ createEditedRevision(r) \/ completeGeneration(r)
                          \/ failGeneration(r) \/ approveRevision(r)

Spec == Init /\ [][Next]_historyVars
=============================================================================
