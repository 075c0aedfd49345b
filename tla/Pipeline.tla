------------------------------ MODULE Pipeline ------------------------------
(***************************************************************************)
(* What lies between poll_request and execute_round: the stage PassThrough *)
(* (pipeline.rs) and the stage Batched, which merges adjacent reads and    *)
(* writes (batch.rs) and orders the result by priority (scheduler.rs).     *)
(*                                                                         *)
(* Both are functions of the requests added since the last drain: Batched  *)
(* drains its scheduler completely every time, so nothing waits there.     *)
(***************************************************************************)
EXTENDS Integers, Sequences, FiniteSets

Tagged(req, channel) == [req |-> req, channel |-> channel]

\* A MergedOp with a single source.
Single(t) ==
  [req |-> t.req, channel |-> t.channel,
   sources |-> <<[id |-> t.req.id, within |-> 0, len |-> t.req.len]>>]

PassThroughDrain(pending) == [i \in DOMAIN pending |-> Single(pending[i])]
-----------------------------------------------------------------------------
(* Parts of a sequence.  An order is a set of pairs, and the place of an   *)
(* element is the number of elements before it.                            *)

\* The elements of s at the indices I, in the order R of the indices.
Arranged(s, I, R) ==
  LET place(i) == Cardinality({j \in I : <<j, i>> \in R})
  IN  [k \in 1 .. Cardinality(I) |-> s[CHOOSE i \in I : place(i) = k - 1]]

\* In the order of s.
Selected(s, I) == Arranged(s, I, {p \in I \X I : p[1] < p[2]})
-----------------------------------------------------------------------------
(* batch.rs *)

End(req) == req.offset + req.len

\* The order of sort_by, which is stable.
SortsBefore(s, i, j) ==
  LET a == s[i]
      b == s[j]
  IN  \/ a.channel < b.channel
      \/ a.channel = b.channel /\ a.req.fd < b.req.fd
      \/ /\ a.channel = b.channel /\ a.req.fd = b.req.fd
         /\ \/ a.req.offset < b.req.offset
            \/ a.req.offset = b.req.offset /\ i < j

Sorted(s, I) ==
  Arranged(s, I, {p \in I \X I : SortsBefore(s, p[1], p[2])})

\* Adjacent to the merged operation or overlapping it.
JoinsOverlapping(op, t) ==
  /\ t.channel = op.channel
  /\ t.req.fd = op.req.fd
  /\ t.req.offset < End(op.req)

Joins(op, t) ==
  /\ t.channel = op.channel
  /\ t.req.fd = op.req.fd
  /\ t.req.offset <= End(op.req)

\* The operation with one more source, and the span of both.
SpanToLast(op, t) == End(t.req) - op.req.offset
Span(op, t) == IF End(t.req) > End(op.req) THEN End(t.req) - op.req.offset
               ELSE op.req.len

JoinedAtLast(op, t) ==
  [op EXCEPT !.sources = Append(@, [id     |-> t.req.id,
                                    within |-> t.req.offset - op.req.offset,
                                    len    |-> t.req.len]),
             !.req.len = Span(op, t), !.req.data_offset = t.req.data_offset]

Joined(op, t) ==
  [op EXCEPT !.sources = Append(@, [id     |-> t.req.id,
                                    within |-> t.req.offset - op.req.offset,
                                    len    |-> t.req.len]),
             !.req.len = Span(op, t)]

\* One more of the sorted requests: it joins the operation before it, or
\* begins another.
MergeNext(merged, t) ==
  LET last == merged[Len(merged)]
  IN  IF merged # <<>> /\ Joins(last, t)
      THEN [merged EXCEPT ![Len(merged)] = Joined(last, t)]
      ELSE Append(merged, Single(t))

\* What the first n of the sorted requests ts are merged to.
Merged(ts) ==
  LET upTo[n \in 0 .. Len(ts)] ==
        IF n = 0 THEN <<>> ELSE MergeNext(upTo[n - 1], ts[n])
  IN  upTo

MergeAdjacent(ts) == Merged(ts)[Len(ts)]

OfKind(pending, op) == {i \in DOMAIN pending : pending[i].req.op = op}

DrainMerged(pending) ==
  LET reads == OfKind(pending, "Read")
      writes == OfKind(pending, "Write")
      others == DOMAIN pending \ (reads \cup writes)
  IN  PassThroughDrain(Selected(pending, others))
        \o MergeAdjacent(Sorted(pending, reads))
        \o MergeAdjacent(Sorted(pending, writes))
-----------------------------------------------------------------------------
(* scheduler.rs: enqueue_all, then drain(len). *)

Queue(ops, priority) ==
  Selected(ops, {i \in DOMAIN ops : ops[i].req.priority = priority})

DrainHighFirst(ops) ==
  Queue(ops, "High") \o Queue(ops, "Critical") \o Queue(ops, "Low")

DrainWithoutLow(ops) == Queue(ops, "Critical") \o Queue(ops, "High")

DrainByPriority(ops) ==
  Queue(ops, "Critical") \o Queue(ops, "High") \o Queue(ops, "Low")

BatchedDrain(pending) == DrainByPriority(DrainMerged(pending))
=============================================================================
