----------------------------- MODULE AuditTrail -----------------------------
(***************************************************************************)
(* What the audit log promises its callers, without tables, locks, retries *)
(* or processes: records queue in the order they were taken, enter an      *)
(* append-only trail in that order, and a growing prefix of the trail is   *)
(* signed.  The newest record may be written to the stream, once.  Only    *)
(* the end of a process loses what still queues.                           *)
(***************************************************************************)
EXTENDS Naturals, Sequences

CONSTANT RecordSet

VARIABLES trail, queue, signed, streamed, up

vars == <<trail, queue, signed, streamed, up>>

Init == trail = <<>> /\ queue = <<>> /\ signed = 0 /\ streamed = 0 /\ up = FALSE

\* A process begins with an empty queue.
Begin ==
  /\ ~up /\ up' = TRUE
  /\ UNCHANGED <<trail, queue, signed, streamed>>

\* Append has taken a record.
Take(r) ==
  /\ up /\ queue' = Append(queue, r)
  /\ UNCHANGED <<trail, signed, streamed, up>>

\* The oldest record taken becomes durable.
Keep ==
  /\ queue # <<>>
  /\ trail' = Append(trail, Head(queue))
  /\ queue' = Tail(queue)
  /\ UNCHANGED <<signed, streamed, up>>

\* A checkpoint covers the trail as it stands.
Sign ==
  /\ up /\ signed' = Len(trail)
  /\ UNCHANGED <<trail, queue, streamed, up>>

\* The newest record is written to the stream, after it became durable.
Stream ==
  /\ streamed < Len(trail) /\ streamed' = Len(trail)
  /\ UNCHANGED <<trail, queue, signed, up>>

\* The process ends, perhaps signing what is there.
End ==
  /\ up /\ up' = FALSE
  /\ queue' = <<>>
  /\ signed' \in {signed, Len(trail)}
  /\ UNCHANGED <<trail, streamed>>

Next == Begin \/ (\E r \in RecordSet : Take(r)) \/ Keep \/ Sign \/ Stream \/ End

Spec == Init /\ [][Next]_vars
=============================================================================
