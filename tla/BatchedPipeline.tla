-------------------------- MODULE BatchedPipeline --------------------------
(***************************************************************************)
(* The stage Batched of pipeline.rs on its own: requests are added in any  *)
(* number from every channel (the protocol lets a client have a ring full  *)
(* of them outstanding) and drained together.  A request carries its       *)
(* payload where a client's bump allocator puts it.                        *)
(***************************************************************************)
EXTENDS Pipeline

CONSTANTS Channels, Fds, Offsets, Lens, Ops,
          MaxPending   \* bound on the requests of a round

\* Channel indices, virtual fds, offsets and lengths are unsigned integers.
ASSUME BatchAssumption ==
  /\ Channels \subseteq Nat /\ Fds \subseteq Nat
  /\ Offsets \subseteq Nat /\ Lens \subseteq Nat
  /\ MaxPending \in Nat

VARIABLES pending,   \* added since the last drain
          round,     \* what the last drain took, until its round is over
          ops        \* what it made of it

vars == <<pending, round, ops>>

Request(id, op, priority, fd, offset, len, data_offset) ==
  [id |-> id, op |-> op, priority |-> priority, fd |-> fd, offset |-> offset,
   len |-> len, data_offset |-> data_offset]

Priorities(op) ==
  CASE op = "Sync" -> {"Critical"}
    [] op = "Close" -> {"Low"}
    [] OTHER -> {"High", "Low"}

\* DataRegion::alloc of the channel's client, before the region wraps.
Allocated(ch) ==
  LET used[n \in 0 .. Len(pending)] ==
        IF n = 0 THEN 0
        ELSE used[n - 1] + IF pending[n].channel = ch THEN pending[n].req.len ELSE 0
  IN  used[Len(pending)]

Init == pending = <<>> /\ round = <<>> /\ ops = <<>>

Add(ch, op, priority, fd, offset, len) ==
  /\ Len(pending) < MaxPending
  /\ pending' = Append(pending,
       Tagged(Request(Len(pending) + 1, op, priority, fd, offset, len,
                      Allocated(ch)), ch))
  /\ round' = <<>> /\ ops' = <<>>

Drain ==
  /\ pending # <<>>
  /\ pending' = <<>>
  /\ round' = pending
  /\ ops' = BatchedDrain(pending)

AddAny ==
  \E ch \in Channels, fd \in Fds, op \in Ops :
    \E priority \in Priorities(op) :
      IF op \in {"Read", "Write"}
      THEN \E offset \in Offsets, len \in Lens : Add(ch, op, priority, fd, offset, len)
      ELSE Add(ch, op, priority, fd, 0, 0)

Next == AddAny \/ Drain

Spec == Init /\ [][Next]_vars
-----------------------------------------------------------------------------
\* The request of the round that a source stands for.
Origin(source) == round[source.id]

\* Every source of every operation, tagged with the operation.
AllSources == {<<i, k>> : i \in DOMAIN ops, k \in 1 .. MaxPending}
Sources == {ik \in AllSources : ik[2] \in DOMAIN ops[ik[1]].sources}
Source(ik) == ops[ik[1]].sources[ik[2]]

(* Each request of the round is a source of exactly one operation, of its  *)
(* own kind, channel and fd: the fan-out answers each requester once.      *)
FanOut ==
  /\ \A i \in DOMAIN round :
       Cardinality({ik \in Sources : Source(ik).id = i}) = 1
  /\ \A ik \in Sources :
       LET op == ops[ik[1]]
           t == Origin(Source(ik))
       IN  /\ op.channel = t.channel
           /\ op.req.op = t.req.op
           /\ op.req.fd = t.req.fd

(* The slice of a source is where its request lies in the file, and inside *)
(* what the operation transfers: "each original requestor gets their slice"*)
Slices ==
  \A ik \in Sources :
    LET op == ops[ik[1]].req
        s == Source(ik)
        r == Origin(s).req
    IN  r.op \in {"Read", "Write"} =>
          /\ op.offset + s.within = r.offset
          /\ s.len = r.len
          /\ s.within + s.len <= op.len

(* Reference for merging: two requests of a kind, channel and fd touch when*)
(* their ranges are adjacent or overlap; an operation is exactly a class of*)
(* the transitive closure, and its range is the union of theirs.           *)
Mergeable(i, j) ==
  LET a == round[i]
      b == round[j]
  IN  /\ a.channel = b.channel /\ a.req.fd = b.req.fd /\ a.req.op = b.req.op
      /\ a.req.op \in {"Read", "Write"}
      /\ a.req.offset <= End(b.req) /\ b.req.offset <= End(a.req)

\* The requests reachable from i; no chain is longer than the round.
Class(i) ==
  LET grow[n \in 0 .. Len(round)] ==
        IF n = 0 THEN {i}
        ELSE grow[n - 1] \cup
               {j \in DOMAIN round : \E k \in grow[n - 1] : Mergeable(k, j)}
  IN  grow[Len(round)]

Units(r) == {r.offset + d : d \in 0 .. r.len - 1}

MergesClasses ==
  \A n \in DOMAIN ops :
    LET members == {ops[n].sources[k].id : k \in DOMAIN ops[n].sources} IN
      /\ \A i \in members : members = Class(i)
      /\ Units(ops[n].req) = UNION {Units(round[i].req) : i \in members}

Rank(priority) ==
  CASE priority = "Critical" -> 2 [] priority = "High" -> 1 [] OTHER -> 0

(* Operations come out by priority, and those that are never merged in the *)
(* order they came in.                                                     *)
PriorityOrder ==
  \A m, n \in DOMAIN ops : m < n =>
    /\ Rank(ops[m].req.priority) >= Rank(ops[n].req.priority)
    /\ (/\ ops[m].req.priority = ops[n].req.priority
        /\ {ops[m].req.op, ops[n].req.op} \cap {"Read", "Write"} = {})
         => ops[m].sources[1].id < ops[n].sources[1].id

(* A merged write takes its payload from one place in the data region.     *)
(* Where the payloads of its requests lie there as their ranges lie in the *)
(* file, it stores for each of them its own bytes; otherwise it does not   *)
(* (nothing in batch.rs looks at the data_offset of the others).           *)
StreamedPayload ==
  \A n \in DOMAIN ops :
    LET op == ops[n].req
        members == {ops[n].sources[k].id : k \in DOMAIN ops[n].sources}
        streamed == \A i, j \in members :
                      round[i].req.data_offset - round[i].req.offset
                        = round[j].req.data_offset - round[j].req.offset
    IN  op.op = "Write" /\ streamed =>
          \A i \in members :
            op.data_offset + (round[i].req.offset - op.offset) = round[i].req.data_offset
=============================================================================
