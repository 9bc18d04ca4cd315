---------------------------- MODULE KeyLifecycle ----------------------------
(***************************************************************************)
(* What deduplication promises, without queues and workers: the life of    *)
(* the (set, depth, url) keys of the crawled-URL sets.  A new key is       *)
(* requested once and is pending; a pending key is fetched, or becomes new *)
(* again, or is lost; a fetched key is never requested again, and a lost   *)
(* one cannot be, because its mark is still there.                         *)
(***************************************************************************)

VARIABLES
  pending,    \* the keys whose requests are under way
  fetched,    \* the keys whose responses were fanned out
  lost        \* the keys that are marked, and neither

Known == pending \cup fetched \cup lost

Init == pending = {} /\ fetched = {} /\ lost = {}

Request(k) ==
  /\ k \notin Known
  /\ pending' = pending \cup {k}
  /\ UNCHANGED <<fetched, lost>>

Fetch(k) ==
  /\ pending' = pending \ {k}
  /\ fetched' = fetched \cup {k}
  /\ UNCHANGED lost

(* Pending requests fail, several at once: a crash loses what was          *)
(* delivered to the consumer, and a page whose continuation cannot be      *)
(* published is lost while the mark of the continuation is rolled back.    *)
Fail ==
  /\ pending' \subseteq pending
  /\ lost \subseteq lost'
  /\ lost' \subseteq lost \cup (pending \ pending')
  /\ UNCHANGED fetched

Next ==
  \/ \E k \in pending' : Request(k)
  \/ \E k \in pending : Fetch(k)
  \/ Fail

Spec == Init /\ [][Next]_<<pending, fetched, lost>>
=============================================================================
