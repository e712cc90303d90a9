-------------------------- MODULE ProductPublication --------------------------
(***************************************************************************)
(* Publication of a revision as a Shopify product: the job queue           *)
(* (src/shopify/job-store.ts), its workers (worker.ts) and the upsert by   *)
(* handle (publisher.ts, product-mapper.ts).                               *)
(***************************************************************************)
EXTENDS Mockups

publisherFrame == <<contentJob, content, design, passed, mockJob, mockOrder, snapshot,
                    writer, renderer, editor>>
PublisherFails(w, e) == publisher' = [publisher EXCEPT ![w] = Failing(@, e)]
PublisherRests(w) == publisher' = [publisher EXCEPT ![w] = NoCall]
SetPublication(w, row) == pubJob' = [pubJob EXCEPT ![publisher[w].of] = row]
OwnsPublication(w) == Holds(pubJob[publisher[w].of], w)

\* Mutant: a publication whose last attempt lost its lease is left alone.
PublicationClaimableBelow(j) ==
  /\ j.attempts < MaxTries
  /\ \/ j.status = "PENDING" /\ j.due
     \/ j.status = "RUNNING" /\ ~j.leased

PublicationClaimable(j) ==
  \/ j.status = "PENDING" /\ j.attempts < MaxTries /\ j.due
  \/ j.status = "RUNNING" /\ j.attempts <= MaxTries /\ ~j.leased

ClaimPublication(w, n) ==
  /\ publisher[w].pc = "idle" /\ PublicationClaimable(pubJob[n])
  /\ pubJob' = [pubJob EXCEPT ![n] = Taken(@, w)]
  /\ publisher' = [publisher EXCEPT ![w] = CallOn(n, pubJob[n])]
  /\ UNCHANGED <<product, publisherFrame>>

\* payload: an approved revision and the images of its snapshot, else 422.
ReadPayload(w) ==
  LET n == publisher[w].of
  IN  /\ publisher[w].pc = "work"
      /\ \/ IF content[n] = "APPROVED"
           THEN publisher' = [publisher EXCEPT ![w].pc = "send", ![w].holds = pubJob[n].images]
           ELSE PublisherFails(w, "permanent")
         \/ PublisherFails(w, "transient")
      /\ UNCHANGED <<pubJob, product, publisherFrame>>

\* productSet upserts the product of the revision's handle; its answer may be lost.
Publish(w) ==
  LET n == publisher[w].of
  IN  /\ publisher[w].pc = "send"
      /\ \/ /\ product' = [product EXCEPT ![n] = publisher[w].holds]
            /\ \/ publisher' = [publisher EXCEPT ![w].pc = "done"]
               \/ PublisherFails(w, "transient")
         \/ /\ \E e \in {"connection", "rateLimit", "transient", "permanent"} : PublisherFails(w, e)
            /\ UNCHANGED product
      /\ UNCHANGED <<pubJob, publisherFrame>>

RecordSuccess(w) ==
  /\ publisher[w].pc = "done"
  /\ \/ OwnsPublication(w) /\ PublisherRests(w)
          /\ SetPublication(w, Freed(pubJob[publisher[w].of], "SUCCEEDED"))
     \/ PublisherFails(w, "transient") /\ UNCHANGED pubJob
  /\ UNCHANGED <<product, publisherFrame>>

\* Mutant: the catch block matches the job by its id alone.
HandlePublishErrorById(w) ==
  /\ publisher[w].pc = "error"
  /\ SetPublication(w, Later(pubJob[publisher[w].of], "PENDING"))
  /\ PublisherRests(w) /\ UNCHANGED <<product, publisherFrame>>

HandlePublishError(w) ==
  LET j == pubJob[publisher[w].of]  e == publisher[w].error
      retries == e = "transient" /\ publisher[w].attempt < MaxTries
  IN  /\ publisher[w].pc = "error"
      /\ \/ /\ OwnsPublication(w) /\ e \in {"connection", "rateLimit"}
            /\ SetPublication(w, GivenBack(Later(j, "PENDING")))
         \/ OwnsPublication(w) /\ retries /\ SetPublication(w, Later(j, "PENDING"))
         \/ /\ OwnsPublication(w) /\ e \notin {"connection", "rateLimit"} /\ ~retries
            /\ SetPublication(w, Freed(j, "FAILED"))
         \/ UNCHANGED pubJob
      /\ PublisherRests(w) /\ UNCHANGED <<product, publisherFrame>>

PublicationLeaseExpires(n) ==
  /\ pubJob[n].leased /\ pubJob' = [pubJob EXCEPT ![n].leased = FALSE]
  /\ UNCHANGED <<product, publisher, publisherFrame>>

PublicationFallsDue(n) ==
  /\ ~pubJob[n].due /\ pubJob' = [pubJob EXCEPT ![n].due = TRUE]
  /\ UNCHANGED <<product, publisher, publisherFrame>>

PublisherCrash(w) ==
  /\ publisher[w].pc # "idle" /\ PublisherRests(w)
  /\ UNCHANGED <<pubJob, product, publisherFrame>>
=============================================================================
