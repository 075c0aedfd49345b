----------------------- MODULE BatchedPipelineProofs -----------------------
(***************************************************************************)
(* Theorems about BatchedPipeline: whatever is pending, in whatever mix of *)
(* channels, the stage Batched makes of it what its comments promise.      *)
(***************************************************************************)
EXTENDS BatchedPipeline, PipelineProofs

(* Requests and operations.                                                *)

RequestOf == [id : Nat, op : Ops, priority : Queues, fd : Nat, offset : Nat,
              len : Nat, data_offset : Nat]
Item == [req : RequestOf, channel : Nat]
SourceOf == [id : Nat, within : Nat, len : Nat]
Operation == [req : RequestOf, channel : Nat, sources : Seq(SourceOf)]

\* Requests of one round: the id of a request is its place.
Numbered(s) ==
  /\ s \in Seq(Item) /\ Len(s) <= MaxPending
  /\ \A i \in DOMAIN s : s[i].req.id = i

Transfers == {"Read", "Write"}
-----------------------------------------------------------------------------
(* Merging, on any sequence that is sorted.                                *)

Sorts(ts) ==
  \A j, k \in 1 .. Len(ts) : j < k =>
    \/ ts[j].channel < ts[k].channel
    \/ ts[j].channel = ts[k].channel /\ ts[j].req.fd < ts[k].req.fd
    \/ /\ ts[j].channel = ts[k].channel /\ ts[j].req.fd = ts[k].req.fd
       /\ ts[j].req.offset <= ts[k].req.offset

\* op is what the requests of ts from lo to before hi are merged to.
Group(op, ts, lo, hi) ==
  /\ op \in Operation /\ lo < hi
  /\ op.req = [ts[lo].req EXCEPT !.len = op.req.len] /\ op.channel = ts[lo].channel
  /\ Len(op.sources) = hi - lo
  /\ \A k \in lo .. hi - 1 :
       /\ op.sources[k - lo + 1] = [id |-> ts[k].req.id,
                                    within |-> ts[k].req.offset - ts[lo].req.offset,
                                    len |-> ts[k].req.len]
       /\ ts[k].channel = ts[lo].channel /\ ts[k].req.fd = ts[lo].req.fd
       /\ ts[lo].req.offset <= ts[k].req.offset
       /\ End(ts[k].req) <= End(op.req)
       /\ k > lo => \E j \in lo .. k - 1 : ts[k].req.offset <= End(ts[j].req)
  /\ \E k \in lo .. hi - 1 : End(ts[k].req) = End(op.req)

(* The fields of a request.                                                *)
LEMMA RequestTyped ==
  ASSUME NEW t \in Item
  PROVE  /\ t.req \in RequestOf /\ t.channel \in Nat
         /\ t.req.id \in Nat /\ t.req.fd \in Nat /\ t.req.offset \in Nat
         /\ t.req.len \in Nat /\ t.req.data_offset \in Nat /\ t.req.priority \in Queues
         /\ End(t.req) \in Nat
<1>1. t.req \in RequestOf /\ t.channel \in Nat
  BY DEF Item
<1>2. /\ t.req.id \in Nat /\ t.req.fd \in Nat /\ t.req.offset \in Nat
      /\ t.req.len \in Nat /\ t.req.data_offset \in Nat /\ t.req.priority \in Queues
  BY <1>1 DEF RequestOf
<1> QED
  BY <1>1, <1>2 DEF End

(* A request on its own is a group.                                        *)
LEMMA SingleGroup ==
  ASSUME NEW ts \in Seq(Item), NEW n \in 1 .. Len(ts)
  PROVE  Group(Single(ts[n]), ts, n, n + 1)
<1>1. ts[n] \in Item /\ n \in Nat
  OBVIOUS
<1> DEFINE t == ts[n]
           op == Single(t)
<1>2. /\ op.req = t.req /\ op.channel = t.channel
      /\ op.sources = <<[id |-> t.req.id, within |-> 0, len |-> t.req.len]>>
      /\ op \in Operation
  <2>1. op = [req |-> t.req, channel |-> t.channel,
              sources |-> <<[id |-> t.req.id, within |-> 0, len |-> t.req.len]>>]
    BY DEF Single
  <2>2. [id |-> t.req.id, within |-> 0, len |-> t.req.len] \in SourceOf
    BY <1>1, RequestTyped DEF SourceOf
  <2>3. <<[id |-> t.req.id, within |-> 0, len |-> t.req.len]>> \in Seq(SourceOf)
    BY <2>2
  <2> QED
    BY <1>1, <2>1, <2>3, RequestTyped DEF Operation
<1>3. t.req = [t.req EXCEPT !.len = t.req.len]
  BY <1>1 DEF Item, RequestOf
<1>4. t.req.offset - t.req.offset = 0 /\ End(t.req) <= End(t.req)
  BY <1>1 DEF Item, RequestOf, End
<1>5. Len(op.sources) = 1 /\ op.sources[1] = [id |-> t.req.id, within |-> 0, len |-> t.req.len]
  BY <1>2
<1> HIDE DEF op
<1>6. \A k \in n .. (n + 1) - 1 : k = n
  BY <1>1
<1>7. n < n + 1 /\ (n + 1) - n = 1 /\ n - n + 1 = 1 /\ n \in n .. (n + 1) - 1
      /\ t.req.offset <= t.req.offset /\ ~ (n > n)
  BY <1>1 DEF Item, RequestOf
<1>8. Group(op, ts, n, n + 1)
  BY <1>2, <1>3, <1>4, <1>5, <1>6, <1>7 DEF Group
<1> QED
  BY <1>8 DEF op

(* The request after a group that joins it makes it a group by one larger. *)
LEMMA JoinedGroup ==
  ASSUME NEW ts \in Seq(Item), Sorts(ts), NEW op, NEW lo \in 1 .. Len(ts),
         NEW hi \in 1 .. Len(ts), Group(op, ts, lo, hi), Joins(op, ts[hi])
  PROVE  Group(Joined(op, ts[hi]), ts, lo, hi + 1)
<1> DEFINE t == ts[hi]
           new == Joined(op, t)
           src == [id |-> t.req.id, within |-> t.req.offset - op.req.offset,
                   len |-> t.req.len]
<1>1. /\ t \in Item /\ ts[lo] \in Item /\ op \in Operation /\ lo < hi
      /\ lo \in Nat /\ hi \in Nat
      /\ op.req = [ts[lo].req EXCEPT !.len = op.req.len] /\ op.channel = ts[lo].channel
      /\ Len(op.sources) = hi - lo
  BY DEF Group
<1>2. /\ op.req.offset = ts[lo].req.offset /\ op.req.fd = ts[lo].req.fd
      /\ op.req.offset \in Nat /\ op.req.len \in Nat /\ t.req.offset \in Nat /\ t.req.len \in Nat
      /\ t.req.id \in Nat /\ ts[lo].req.offset \in Nat
  BY <1>1 DEF Item, RequestOf, Operation
<1>3. t.channel = ts[lo].channel /\ t.req.fd = ts[lo].req.fd /\ t.req.offset <= End(op.req)
  BY <1>1, <1>2 DEF Joins
<1>4. ts[lo].req.offset <= t.req.offset
  <2>1. t.channel \in Nat /\ t.req.fd \in Nat
    BY <1>1 DEF Item, RequestOf
  <2> QED
    BY <1>1, <1>3, <2>1 DEF Sorts
<1>5. src \in SourceOf
  BY <1>2, <1>4 DEF SourceOf
<1>6. Span(op, t) \in Nat
      /\ op.req.offset + Span(op, t) = IF End(t.req) > End(op.req) THEN End(t.req)
                                       ELSE End(op.req)
  BY <1>2, <1>4 DEF Span, End
<1>7. /\ new \in Operation /\ new.sources = Append(op.sources, src)
      /\ new.req = [op.req EXCEPT !.len = Span(op, t)] /\ new.channel = op.channel
      /\ new.req.len = Span(op, t) /\ new.req.offset = op.req.offset
  <2>1. /\ op.req \in RequestOf /\ op.channel \in Nat /\ op.sources \in Seq(SourceOf)
        /\ op = [req |-> op.req, channel |-> op.channel, sources |-> op.sources]
    BY <1>1 DEF Operation
  <2>2. new = [req |-> [op.req EXCEPT !.len = Span(op, t)], channel |-> op.channel,
               sources |-> Append(op.sources, src)]
    <3>1. new = [op EXCEPT !.sources = Append(@, src), !.req.len = Span(op, t)]
      BY DEF Joined
    <3> HIDE DEF new, src, t
    <3> QED
      BY <2>1, <3>1
  <2> HIDE DEF new, src, t
  <2>3. /\ [op.req EXCEPT !.len = Span(op, t)] \in RequestOf
        /\ [op.req EXCEPT !.len = Span(op, t)].len = Span(op, t)
        /\ [op.req EXCEPT !.len = Span(op, t)].offset = op.req.offset
    BY <1>6, <2>1 DEF RequestOf
  <2>4. Append(op.sources, src) \in Seq(SourceOf)
    BY <1>5, <2>1
  <2> QED
    BY <2>1, <2>2, <2>3, <2>4 DEF Operation
<1>8. new.req = [ts[lo].req EXCEPT !.len = new.req.len]
  BY <1>1, <1>7 DEF Item, RequestOf
<1>9. End(new.req) = IF End(t.req) > End(op.req) THEN End(t.req) ELSE End(op.req)
  BY <1>6, <1>7 DEF End
<1>10. End(t.req) \in Nat /\ End(op.req) \in Nat
  BY <1>2 DEF End
<1>11. /\ op.sources \in Seq(SourceOf) /\ Len(new.sources) = (hi + 1) - lo
       /\ \A k \in 1 .. hi - lo : new.sources[k] = op.sources[k]
       /\ new.sources[hi - lo + 1] = src
  BY <1>1, <1>5, <1>7 DEF Operation
<1> HIDE DEF new, src, t
<1>12. ASSUME NEW k \in lo .. (hi + 1) - 1
       PROVE  /\ new.sources[k - lo + 1] = [id |-> ts[k].req.id,
                                    within |-> ts[k].req.offset - ts[lo].req.offset,
                                    len |-> ts[k].req.len]
              /\ ts[k].channel = ts[lo].channel /\ ts[k].req.fd = ts[lo].req.fd
              /\ ts[lo].req.offset <= ts[k].req.offset
              /\ End(ts[k].req) <= End(new.req)
              /\ k > lo => \E j \in lo .. k - 1 : ts[k].req.offset <= End(ts[j].req)
  <2>1. CASE k = hi
    <3>1. k - lo + 1 = hi - lo + 1
      BY <1>1, <2>1
    <3>2. \E j \in lo .. hi - 1 : End(ts[j].req) = End(op.req)
      BY DEF Group
    <3>3. new.sources[k - lo + 1] = src
      BY <1>11, <3>1
    <3>4. src = [id |-> ts[k].req.id, within |-> ts[k].req.offset - ts[lo].req.offset,
                 len |-> ts[k].req.len]
      BY <1>2, <2>1 DEF src, t
    <3>5. End(t.req) <= End(new.req)
      BY <1>9, <1>10
    <3> QED
      BY <1>3, <1>4, <2>1, <3>2, <3>3, <3>4, <3>5 DEF t
  <2>2. CASE k # hi
    <3>1. k \in lo .. hi - 1 /\ k - lo + 1 \in 1 .. hi - lo
      BY <1>1, <2>2
    <3>2. End(ts[k].req) <= End(op.req)
      BY <3>1 DEF Group
    <3>3. ts[k] \in Item
      BY <3>1
    <3>4. End(ts[k].req) \in Nat
      BY <3>3, RequestTyped
    <3>5. End(ts[k].req) <= End(new.req)
      BY <1>9, <1>10, <3>2, <3>4
    <3> QED
      BY <1>11, <3>1, <3>5 DEF Group
  <2> QED
    BY <2>1, <2>2
<1>13. \E k \in lo .. (hi + 1) - 1 : End(ts[k].req) = End(new.req)
  <2>1. PICK k \in lo .. hi - 1 : End(ts[k].req) = End(op.req)
    BY DEF Group
  <2>2. k \in lo .. (hi + 1) - 1 /\ hi \in lo .. (hi + 1) - 1
    BY <1>1
  <2> QED
    BY <1>9, <2>1, <2>2 DEF t
<1>14. new.channel = ts[lo].channel /\ lo < hi + 1
  BY <1>1, <1>7
<1>15. Group(new, ts, lo, hi + 1)
  BY <1>7, <1>8, <1>11, <1>12, <1>13, <1>14 DEF Group
<1> QED
  BY <1>15 DEF new, t

-----------------------------------------------------------------------------
\* m is what the first n requests of ts are merged to, and f[g] is where the
\* g-th operation begins.
Splits(f, m, ts, n) ==
  /\ f \in [1 .. Len(m) + 1 -> 1 .. n + 1]
  /\ f[1] = 1 /\ f[Len(m) + 1] = n + 1
  /\ \A g \in 1 .. Len(m) :
       /\ f[g] < f[g + 1]
       /\ Group(m[g], ts, f[g], f[g + 1])
       /\ g < Len(m) => ~ Joins(m[g], ts[f[g + 1]])

Grouped(m, ts, n) == m \in Seq(Operation) /\ \E f : Splits(f, m, ts, n)

(* merge_adjacent, one request further.                                    *)
LEMMA GroupedFurther ==
  ASSUME NEW ts \in Seq(Item), Sorts(ts), NEW n \in Nat, n + 1 \in 1 .. Len(ts), NEW m,
         Grouped(m, ts, n)
  PROVE  Grouped(MergeNext(m, ts[n + 1]), ts, n + 1)
<1> DEFINE L == Len(m)
           t == ts[n + 1]
<1>1. m \in Seq(Operation) /\ L \in Nat /\ DOMAIN m = 1 .. L /\ (m # <<>> <=> L # 0)
  <2>1. m \in Seq(Operation)
    BY DEF Grouped
  <2> QED
    BY <2>1
<1>2. PICK f : Splits(f, m, ts, n)
  BY DEF Grouped
<1>3. /\ f \in [1 .. L + 1 -> 1 .. n + 1] /\ f[1] = 1 /\ f[L + 1] = n + 1
      /\ \A g \in 1 .. L : /\ f[g] < f[g + 1] /\ Group(m[g], ts, f[g], f[g + 1])
                           /\ g < L => ~ Joins(m[g], ts[f[g + 1]])
  BY <1>2 DEF Splits
<1> HIDE DEF L, t
<1>4. CASE m # <<>> /\ Joins(m[L], t)
  <2> DEFINE new == [m EXCEPT ![L] = Joined(m[L], t)]
             h == [f EXCEPT ![L + 1] = n + 2]
  <2>1. MergeNext(m, t) = new
    BY <1>4 DEF MergeNext, L, t
  <2>2. L \in 1 .. L /\ f[L] \in 1 .. n + 1 /\ L - 1 + 1 = L /\ L + 1 \in 1 .. L + 1
        /\ L \in 1 .. L + 1 /\ L # L + 1
    BY <1>1, <1>3, <1>4
  <2>3. Group(m[L], ts, f[L], n + 1)
    BY <1>3, <2>2
  <2>4. f[L] \in 1 .. Len(ts) /\ n + 1 \in 1 .. Len(ts)
    BY <2>2
  <2>5. Group(Joined(m[L], t), ts, f[L], (n + 1) + 1)
    BY <1>4, <2>3, <2>4, JoinedGroup DEF t
  <2>6. Joined(m[L], t) \in Operation
    BY <2>5 DEF Group
  <2>7. /\ new \in Seq(Operation) /\ Len(new) = L /\ new[L] = Joined(m[L], t)
        /\ \A g \in 1 .. L : g # L => new[g] = m[g]
    <3> DEFINE v == Joined(m[L], t)
    <3>1. v \in Operation /\ new = [m EXCEPT ![L] = v]
      BY <2>6
    <3> HIDE DEF v, new
    <3>2. new \in Seq(Operation) /\ DOMAIN new = DOMAIN m /\ Len(new) = Len(m)
      <4>1. m \in [1 .. Len(m) -> Operation] /\ Len(m) \in Nat
        BY <1>1
      <4>2. new \in [1 .. Len(m) -> Operation]
        BY <3>1, <4>1
      <4>3. new \in Seq(Operation)
        BY <4>1, <4>2
      <4>4. DOMAIN new = 1 .. Len(m) /\ DOMAIN m = 1 .. Len(m)
        BY <4>1, <4>2
      <4>5. Len(new) = Len(m)
        BY <4>1, <4>3, <4>4
      <4> QED
        BY <4>3, <4>4, <4>5
    <3>3. new[L] = v /\ \A g \in 1 .. L : g # L => new[g] = m[g]
      BY <1>1, <2>2, <3>1
    <3> QED
      BY <3>2, <3>3 DEF L, v
  <2>8. /\ h \in [1 .. L + 1 -> 1 .. (n + 1) + 1] /\ h[L + 1] = (n + 1) + 1
        /\ \A g \in 1 .. L : h[g] = f[g]
    BY <1>1, <1>3
  <2>9. h[1] = 1
    BY <1>3, <2>2, <2>8
  <2> HIDE DEF new, h
  <2>10. ASSUME NEW g \in 1 .. L
         PROVE  /\ h[g] < h[g + 1] /\ Group(new[g], ts, h[g], h[g + 1])
                /\ g < L => ~ Joins(new[g], ts[h[g + 1]])
    <3>1. CASE g = L
      <4>1. h[L] = f[L] /\ h[L + 1] = (n + 1) + 1
        BY <2>2, <2>8
      <4>2. h[L] < h[L + 1]
        BY <2>2, <4>1
      <4> QED
        BY <1>1, <2>5, <2>7, <3>1, <4>1, <4>2
    <3>2. CASE g # L
      <4>1. g + 1 \in 1 .. L
        BY <1>1, <3>2
      <4>2. new[g] = m[g] /\ h[g] = f[g] /\ h[g + 1] = f[g + 1]
        BY <2>7, <2>8, <3>2, <4>1
      <4> QED
        BY <1>3, <4>2
    <3> QED
      BY <3>1, <3>2
  <2>11. Splits(h, new, ts, n + 1)
    BY <2>7, <2>8, <2>9, <2>10 DEF Splits, L
  <2> QED
    BY <2>1, <2>7, <2>11 DEF Grouped, t
<1>5. CASE ~ (m # <<>> /\ Joins(m[L], t))
  <2> DEFINE new == Append(m, Single(t))
             h == [g \in 1 .. L + 2 |-> IF g = L + 2 THEN n + 2 ELSE f[g]]
  <2>1. MergeNext(m, t) = new
    BY <1>5 DEF MergeNext, L, t
  <2>2. Group(Single(t), ts, n + 1, (n + 1) + 1)
    BY SingleGroup DEF t
  <2>3. Single(t) \in Operation
    BY <2>2 DEF Group
  <2>4. /\ new \in Seq(Operation) /\ Len(new) = L + 1 /\ new[L + 1] = Single(t)
        /\ \A g \in 1 .. L : new[g] = m[g]
    BY <1>1, <2>3
  <2>5. \A g \in 1 .. L + 1 : f[g] \in 1 .. (n + 1) + 1
    BY <1>3
  <2>6. \A g \in 1 .. L + 2 : g # L + 2 => g \in 1 .. L + 1
    BY <1>1
  <2>7. /\ h \in [1 .. L + 2 -> 1 .. (n + 1) + 1] /\ h[L + 2] = (n + 1) + 1
        /\ \A g \in 1 .. L + 1 : h[g] = f[g]
    BY <1>1, <2>5, <2>6
  <2>8. h[1] = 1 /\ h[L + 1] = n + 1
    BY <1>1, <1>3, <2>7
  <2> HIDE DEF new, h
  <2>9. ASSUME NEW g \in 1 .. L + 1
         PROVE  /\ h[g] < h[g + 1] /\ Group(new[g], ts, h[g], h[g + 1])
                /\ g < L + 1 => ~ Joins(new[g], ts[h[g + 1]])
    <3>1. CASE g = L + 1
      <4>1. g + 1 = L + 2 /\ ~ (g < L + 1)
        BY <1>1, <3>1
      <4>2. h[g] = n + 1 /\ h[g + 1] = (n + 1) + 1
        BY <2>7, <2>8, <3>1, <4>1
      <4> QED
        BY <2>2, <2>4, <3>1, <4>1, <4>2
    <3>2. CASE g # L + 1
      <4>1. g \in 1 .. L /\ g + 1 \in 1 .. L + 1 /\ g \in 1 .. L + 1
        BY <1>1, <3>2
      <4>2. new[g] = m[g] /\ h[g] = f[g] /\ h[g + 1] = f[g + 1]
        BY <2>4, <2>7, <4>1
      <4>3. ~ Joins(m[g], ts[f[g + 1]])
        <5>1. CASE g < L
          BY <1>3, <4>1, <5>1
        <5>2. CASE ~ (g < L)
          <6>1. g = L /\ m # <<>>
            BY <1>1, <4>1, <5>2
          <6> QED
            BY <1>3, <1>5, <6>1 DEF t
        <5> QED
          BY <5>1, <5>2
      <4> QED
        BY <1>3, <4>1, <4>2, <4>3
    <3> QED
      BY <3>1, <3>2
  <2>10. h \in [1 .. (L + 1) + 1 -> 1 .. (n + 1) + 1] /\ h[(L + 1) + 1] = (n + 1) + 1
    BY <1>1, <2>7
  <2>11. Splits(h, new, ts, n + 1)
    BY <2>4, <2>8, <2>9, <2>10 DEF Splits, L
  <2> QED
    BY <2>1, <2>4, <2>11 DEF Grouped, t
<1> QED
  BY <1>4, <1>5

(* merge_adjacent splits the sorted requests into groups that do not join. *)
LEMMA MergeGroups ==
  ASSUME NEW ts \in Seq(Item), Sorts(ts)
  PROVE  Grouped(MergeAdjacent(ts), ts, Len(ts))
<1> DEFINE S == {n \in Nat : n <= Len(ts) => Grouped(Merged(ts)[n], ts, n)}
<1>1. Len(ts) \in Nat
  OBVIOUS
<1>2. 0 \in S
  <2>1. Splits([g \in 1 .. 1 |-> 1], <<>>, ts, 0)
    BY DEF Splits
  <2>2. Merged(ts)[0] = <<>>
    BY <1>1, MergedEquation
  <2>3. Grouped(Merged(ts)[0], ts, 0)
    BY <2>1, <2>2 DEF Grouped
  <2> QED
    BY <2>3
<1>3. ASSUME NEW n \in Nat, n \in S PROVE n + 1 \in S
  <2> SUFFICES ASSUME n + 1 <= Len(ts) PROVE Grouped(Merged(ts)[n + 1], ts, n + 1)
    OBVIOUS
  <2>1. n + 1 \in 1 .. Len(ts) /\ (n + 1) - 1 = n /\ n <= Len(ts)
    BY <1>1
  <2>2. Merged(ts)[n + 1] = MergeNext(Merged(ts)[(n + 1) - 1], ts[n + 1])
    BY <1>1, <2>1, MergedEquation
  <2>3. Grouped(Merged(ts)[n], ts, n)
    BY <1>3, <2>1
  <2>4. Grouped(MergeNext(Merged(ts)[n], ts[n + 1]), ts, n + 1)
    BY <2>1, <2>3, GroupedFurther
  <2> QED
    BY <2>1, <2>2, <2>4
<1> HIDE DEF S
<1>4. Len(ts) \in S
  BY <1>1, <1>2, <1>3, NatInSet
<1> QED
  BY <1>1, <1>4 DEF S, MergeAdjacent

-----------------------------------------------------------------------------
(* The groups of a split.                                                  *)

(* Groups begin one after the other.                                       *)
LEMMA SplitsRise ==
  ASSUME NEW f, NEW m, NEW ts, NEW n \in Nat, Splits(f, m, ts, n), Len(m) \in Nat
  PROVE  \A g, h \in 1 .. Len(m) + 1 : g < h => f[g] < f[h]
<1> DEFINE L == Len(m)
           S == {d \in Nat : \A g \in 1 .. L + 1 : g + d + 1 \in 1 .. L + 1 => f[g] < f[g + d + 1]}
<1>1. /\ f \in [1 .. L + 1 -> 1 .. n + 1] /\ L \in Nat
      /\ \A g \in 1 .. L : f[g] < f[g + 1]
  BY DEF Splits
<1>2. 0 \in S
  <2>1. ASSUME NEW g \in 1 .. L + 1, g + 0 + 1 \in 1 .. L + 1 PROVE f[g] < f[g + 0 + 1]
    <3>1. g \in 1 .. L /\ g + 0 + 1 = g + 1
      BY <1>1, <2>1
    <3> QED
      BY <1>1, <3>1
  <2> QED
    BY <2>1
<1>3. ASSUME NEW d \in Nat, d \in S PROVE d + 1 \in S
  <2>1. ASSUME NEW g \in 1 .. L + 1, g + (d + 1) + 1 \in 1 .. L + 1
        PROVE  f[g] < f[g + (d + 1) + 1]
    <3>1. g + d + 1 \in 1 .. L /\ (g + d + 1) + 1 = g + (d + 1) + 1 /\ g + d + 1 \in 1 .. L + 1
      BY <1>1, <2>1
    <3>2. f[g] < f[g + d + 1]
      BY <1>3, <3>1
    <3>3. f[g + d + 1] < f[g + (d + 1) + 1]
      BY <1>1, <3>1
    <3>4. f[g] \in 1 .. n + 1 /\ f[g + d + 1] \in 1 .. n + 1 /\ f[g + (d + 1) + 1] \in 1 .. n + 1
      BY <1>1, <2>1, <3>1
    <3> QED
      BY <3>2, <3>3, <3>4
  <2> QED
    BY <2>1
<1> HIDE DEF S
<1>4. Nat \subseteq S
  BY <1>2, <1>3, NatInSet
<1>5. ASSUME NEW g \in 1 .. L + 1, NEW h \in 1 .. L + 1, g < h PROVE f[g] < f[h]
  <2>1. h - g - 1 \in Nat /\ g + (h - g - 1) + 1 = h
    BY <1>1, <1>5
  <2>2. h - g - 1 \in S
    BY <1>4, <2>1
  <2>3. g + (h - g - 1) + 1 \in 1 .. L + 1 => f[g] < f[g + (h - g - 1) + 1]
    BY <2>2 DEF S
  <2> QED
    BY <2>1, <2>3
<1> QED
  BY <1>5

(* Every request is in a group.                                            *)
LEMMA SplitsCover ==
  ASSUME NEW f, NEW m, NEW ts, NEW n \in Nat, Splits(f, m, ts, n), Len(m) \in Nat,
         NEW k \in 1 .. n
  PROVE  \E g \in 1 .. Len(m) : k \in f[g] .. f[g + 1] - 1
<1> DEFINE L == Len(m)
           T == {h \in 1 .. L + 1 : k < f[h]}
<1>1. f \in [1 .. L + 1 -> 1 .. n + 1] /\ f[1] = 1 /\ f[L + 1] = n + 1 /\ L \in Nat
  BY DEF Splits
<1>2. T \subseteq Nat /\ L + 1 \in T
  BY <1>1
<1>3. PICK h \in T : \A y \in T : h <= y
  BY <1>2, LeastNat
<1>4. h \in 1 .. L + 1 /\ k < f[h] /\ h # 1
  BY <1>1, <1>3
<1>5. h - 1 \in 1 .. L /\ h - 1 \in 1 .. L + 1 /\ (h - 1) + 1 = h /\ ~ (h <= h - 1)
  BY <1>1, <1>4
<1>6. ~ (k < f[h - 1])
  BY <1>3, <1>5
<1>7. f[h - 1] \in 1 .. n + 1 /\ f[h] \in 1 .. n + 1
  BY <1>1, <1>4, <1>5
<1>8. k \in f[h - 1] .. f[(h - 1) + 1] - 1
  BY <1>4, <1>5, <1>6, <1>7
<1> QED
  BY <1>5, <1>8

(* Groups are apart: what comes after a group, on the same channel and fd, *)
(* begins behind the end of it.                                            *)
LEMMA GroupsApart ==
  ASSUME NEW ts \in Seq(Item), Sorts(ts), NEW m, NEW f, Splits(f, m, ts, Len(ts)),
         Len(m) \in Nat, NEW g \in 1 .. Len(m), NEW k \in f[g] .. f[g + 1] - 1,
         NEW q \in f[g + 1] .. Len(ts),
         ts[q].channel = ts[k].channel, ts[q].req.fd = ts[k].req.fd
  PROVE  End(ts[k].req) < ts[q].req.offset
<1> DEFINE lo == f[g]
           hi == f[g + 1]
           op == m[g]
<1>1. /\ f \in [1 .. Len(m) + 1 -> 1 .. Len(ts) + 1] /\ f[Len(m) + 1] = Len(ts) + 1
      /\ Len(ts) \in Nat /\ g + 1 \in 1 .. Len(m) + 1 /\ g \in 1 .. Len(m) + 1
  BY DEF Splits
<1>2. lo < hi /\ Group(op, ts, lo, hi) /\ (g < Len(m) => ~ Joins(op, ts[hi]))
  BY DEF Splits
<1>3. lo \in 1 .. Len(ts) + 1 /\ hi \in 1 .. Len(ts) + 1
  BY <1>1
<1> HIDE DEF lo, hi, op
<1>4. /\ k \in lo .. hi - 1 /\ q \in hi .. Len(ts) /\ k \in 1 .. Len(ts) /\ q \in 1 .. Len(ts)
      /\ hi \in 1 .. Len(ts) /\ lo \in 1 .. Len(ts) /\ k < hi /\ k < q /\ hi <= q
  BY <1>1, <1>3 DEF lo, hi
<1>5. g < Len(m)
  BY <1>1, <1>4 DEF hi
<1>6. ts[k] \in Item /\ ts[q] \in Item /\ ts[hi] \in Item /\ ts[lo] \in Item
  BY <1>4
<1>7. /\ ts[k].channel = ts[lo].channel /\ ts[k].req.fd = ts[lo].req.fd
      /\ End(ts[k].req) <= End(op.req) /\ op \in Operation
      /\ op.channel = ts[lo].channel /\ op.req = [ts[lo].req EXCEPT !.len = op.req.len]
  BY <1>2, <1>4 DEF Group
<1>8. op.req.fd = ts[lo].req.fd /\ End(op.req) \in Nat
  <2>1. op.req.fd = ts[lo].req.fd
    BY <1>6, <1>7, RequestTyped DEF RequestOf
  <2>2. op.req \in RequestOf
    BY <1>7 DEF Operation
  <2>3. op.req.offset \in Nat /\ op.req.len \in Nat
    BY <2>2 DEF RequestOf
  <2> QED
    BY <2>1, <2>3 DEF End
<1>9. ts[hi].channel = ts[q].channel /\ ts[hi].req.fd = ts[q].req.fd
      /\ ts[hi].req.offset <= ts[q].req.offset
  <2>1. CASE hi = q
    BY <1>6, <2>1, RequestTyped
  <2>2. CASE hi # q
    <3>1. hi < q
      BY <1>4, <2>2
    <3>2. \/ ts[hi].channel < ts[q].channel
          \/ ts[hi].channel = ts[q].channel /\ ts[hi].req.fd < ts[q].req.fd
          \/ /\ ts[hi].channel = ts[q].channel /\ ts[hi].req.fd = ts[q].req.fd
             /\ ts[hi].req.offset <= ts[q].req.offset
      BY <1>4, <3>1 DEF Sorts
    <3>3. \/ ts[k].channel < ts[hi].channel
          \/ ts[k].channel = ts[hi].channel /\ ts[k].req.fd < ts[hi].req.fd
          \/ /\ ts[k].channel = ts[hi].channel /\ ts[k].req.fd = ts[hi].req.fd
             /\ ts[k].req.offset <= ts[hi].req.offset
      BY <1>4 DEF Sorts
    <3>4. /\ ts[hi].channel \in Nat /\ ts[hi].req.fd \in Nat /\ ts[q].channel \in Nat
          /\ ts[q].req.fd \in Nat
      BY <1>6, RequestTyped
    <3> QED
      BY <3>2, <3>3, <3>4
  <2> QED
    BY <2>1, <2>2
<1>10. ~ (ts[hi].req.offset <= End(op.req))
  BY <1>2, <1>5, <1>7, <1>8, <1>9 DEF Joins
<1>11. ts[hi].req.offset \in Nat /\ ts[q].req.offset \in Nat /\ End(ts[k].req) \in Nat
  BY <1>6, RequestTyped
<1> QED
  BY <1>7, <1>8, <1>9, <1>10, <1>11

-----------------------------------------------------------------------------
(* Operations of a round.                                                  *)

Ids(op) == {op.sources[k].id : k \in DOMAIN op.sources}

\* The source s of op is the request it names, where that lies.
Places(op, s) ==
  LET r == round[s.id] IN
  /\ s.id \in DOMAIN round
  /\ op.channel = r.channel /\ op.req.op = r.req.op /\ op.req.fd = r.req.fd
  /\ r.req.op \in Transfers =>
       /\ op.req.offset + s.within = r.req.offset
       /\ s.len = r.req.len
       /\ s.within + s.len <= op.req.len

\* op has the place, payload and priority of its first source.
Leads(op, i) ==
  /\ i \in Ids(op)
  /\ op.req.offset = round[i].req.offset /\ op.req.data_offset = round[i].req.data_offset
  /\ op.req.priority = round[i].req.priority

Closed(M) == \A i \in M, j \in DOMAIN round : Mergeable(i, j) => j \in M

\* M is one class: closed, and no part of it is.
OneClass(M) ==
  /\ M \subseteq DOMAIN round /\ Closed(M)
  /\ \A C \in SUBSET DOMAIN round : Closed(C) /\ C \cap M # {} => M \subseteq C

Faithful(op) ==
  /\ op \in Operation /\ Len(op.sources) \in 1 .. Len(round)
  /\ \A k \in DOMAIN op.sources : Places(op, op.sources[k])
  /\ Leads(op, op.sources[1].id)
  /\ OneClass(Ids(op))
  /\ Units(op.req) = UNION {Units(round[i].req) : i \in Ids(op)}

\* e lists the indices of the requests of the round that ts is made of.
Indexes(e, ts, I) ==
  /\ ts \in Seq(Item) /\ Len(ts) <= Len(round) /\ I \in SUBSET DOMAIN round
  /\ e \in [1 .. Len(ts) -> I]
  /\ \A k \in 1 .. Len(ts) : ts[k] = round[e[k]] /\ ts[k].req.id = e[k]
  /\ \A i \in I : \E k \in 1 .. Len(ts) : e[k] = i
  /\ \A j, k \in 1 .. Len(ts) : j # k => e[j] # e[k]

(* Arranging requests of the round in an order.                            *)
LEMMA ArrangedIndexes ==
  ASSUME Numbered(round), NEW I \in SUBSET DOMAIN round, NEW R, Orders(R, I)
  PROVE  \E e : /\ Indexes(e, Arranged(round, I, R), I)
                /\ \A j, k \in 1 .. Len(Arranged(round, I, R)) : j < k => <<e[j], e[k]>> \in R
<1> DEFINE N == 1 .. Cardinality(I)
           ts == Arranged(round, I, R)
<1>1. round \in Seq(Item) /\ DOMAIN round = 1 .. Len(round) /\ Len(round) \in Nat
  BY DEF Numbered
<1>2. IsFiniteSet(I) /\ Cardinality(I) \in Nat /\ Cardinality(I) <= Len(round)
  <2>1. IsFiniteSet(1 .. Len(round)) /\ Cardinality(1 .. Len(round)) = Len(round)
    <3> DEFINE n == Len(round)
    <3>1. 1 \in Int /\ n \in Int /\ n \in Nat
      BY <1>1
    <3> HIDE DEF n
    <3>2. IsFiniteSet(1 .. n) /\ Cardinality(1 .. n) = IF 1 > n THEN 0 ELSE n - 1 + 1
      BY <3>1, FS_Interval
    <3>3. IsFiniteSet(1 .. n) /\ Cardinality(1 .. n) = n
      BY <3>1, <3>2
    <3> QED
      BY <3>3 DEF n
  <2> QED
    BY <1>1, <2>1, FS_Subset, FS_CardinalityType
<1>3. PICK e \in [N -> I] :
        /\ ts = [k \in N |-> round[e[k]]]
        /\ \A i \in I : \E k \in N : e[k] = i
        /\ \A j, k \in N : j < k => <<e[j], e[k]>> \in R
  BY <1>2, ArrangedInOrder
<1> HIDE DEF ts
<1>4. ASSUME NEW k \in N PROVE ts[k] = round[e[k]] /\ ts[k] \in Item /\ ts[k].req.id = e[k]
  <2>1. e[k] \in I /\ e[k] \in DOMAIN round /\ ts[k] = round[e[k]]
    BY <1>3
  <2> QED
    BY <1>1, <2>1 DEF Numbered
<1>5. ts \in Seq(Item) /\ Len(ts) = Cardinality(I)
  BY <1>2, <1>3, <1>4
<1>6. ASSUME NEW j \in N, NEW k \in N, j # k PROVE e[j] # e[k]
  <2>1. j < k \/ k < j
    BY <1>2, <1>6
  <2>2. <<e[j], e[k]>> \in R \/ <<e[k], e[j]>> \in R
    BY <1>3, <2>1
  <2>3. e[j] \in I /\ e[k] \in I
    BY <1>3
  <2> QED
    BY <2>2, <2>3 DEF Orders
<1>7. Indexes(e, ts, I)
  BY <1>2, <1>3, <1>4, <1>5, <1>6 DEF Indexes
<1> QED
  BY <1>3, <1>5, <1>7 DEF ts

(* The sorted requests.                                                    *)
LEMMA SortedIndexes ==
  ASSUME Numbered(round), NEW I \in SUBSET DOMAIN round
  PROVE  \E e : Indexes(e, Sorted(round, I), I) /\ Sorts(Sorted(round, I))
<1> DEFINE R == {p \in I \X I : SortsBefore(round, p[1], p[2])}
           ts == Sorted(round, I)
<1>1. round \in Seq(Item) /\ DOMAIN round = 1 .. Len(round) /\ Len(round) \in Nat
  BY DEF Numbered
<1>2. ASSUME NEW i \in I
      PROVE  round[i].channel \in Int /\ round[i].req.fd \in Int /\ round[i].req.offset \in Int
  <2>1. round[i] \in Item
    BY <1>1
  <2> QED
    BY <2>1, RequestTyped
<1>3. I \subseteq Nat
  BY <1>1
<1>4. Orders(R, I) /\ \A i, j \in I : <<i, j>> \in R <=> SortsBefore(round, i, j)
  BY <1>2, <1>3, SortsBeforeOrders
<1>5. ts = Arranged(round, I, R)
  BY DEF Sorted
<1> HIDE DEF R, ts
<1>6. PICK e : Indexes(e, ts, I) /\ \A j, k \in 1 .. Len(ts) : j < k => <<e[j], e[k]>> \in R
  BY <1>4, <1>5, ArrangedIndexes
<1>7. ASSUME NEW j \in 1 .. Len(ts), NEW k \in 1 .. Len(ts), j < k
      PROVE  \/ ts[j].channel < ts[k].channel
             \/ ts[j].channel = ts[k].channel /\ ts[j].req.fd < ts[k].req.fd
             \/ /\ ts[j].channel = ts[k].channel /\ ts[j].req.fd = ts[k].req.fd
                /\ ts[j].req.offset <= ts[k].req.offset
  <2>1. e[j] \in I /\ e[k] \in I /\ ts[j] = round[e[j]] /\ ts[k] = round[e[k]]
    BY <1>6 DEF Indexes
  <2>2. SortsBefore(round, e[j], e[k])
    BY <1>4, <1>6, <1>7, <2>1
  <2>3. ts[j].req.offset \in Int /\ ts[k].req.offset \in Int
    BY <1>2, <2>1
  <2> QED
    BY <2>1, <2>2, <2>3 DEF SortsBefore
<1>8. Sorts(ts)
  BY <1>7 DEF Sorts
<1> QED
  BY <1>6, <1>8 DEF ts

(* Requests of one kind touch when their ranges do.                        *)
LEMMA MergeableIs ==
  ASSUME Numbered(round), NEW I \in SUBSET DOMAIN round, NEW kind \in Transfers,
         \A i \in I : round[i].req.op = kind,
         NEW ts, NEW e, Indexes(e, ts, I), NEW j \in 1 .. Len(ts), NEW k \in 1 .. Len(ts)
  PROVE  Mergeable(e[j], e[k]) <=>
           /\ ts[j].channel = ts[k].channel /\ ts[j].req.fd = ts[k].req.fd
           /\ ts[j].req.offset <= End(ts[k].req) /\ ts[k].req.offset <= End(ts[j].req)
<1>1. ts[j] = round[e[j]] /\ ts[k] = round[e[k]] /\ e[j] \in I /\ e[k] \in I
  BY DEF Indexes
<1> QED
  BY <1>1 DEF Mergeable, Transfers

-----------------------------------------------------------------------------
(* What a class of the round is merged to.                                 *)

\* m is what the requests of one kind, at I and sorted to ts, are merged to.
Merging(kind, I, e, ts, f, m) ==
  /\ kind \in Transfers /\ I = OfKind(round, kind)
  /\ Indexes(e, ts, I) /\ Sorts(ts)
  /\ m \in Seq(Operation) /\ Splits(f, m, ts, Len(ts))

(* The units of a range.                                                   *)
LEMMA UnitsOf ==
  ASSUME NEW r, r.offset \in Nat, r.len \in Nat
  PROVE  Units(r) = {u \in Nat : r.offset <= u /\ u < End(r)}
<1>1. ASSUME NEW u \in Nat, r.offset <= u, u < End(r) PROVE u \in Units(r)
  <2>1. u - r.offset \in 0 .. r.len - 1 /\ r.offset + (u - r.offset) = u
    BY <1>1 DEF End
  <2> QED
    BY <2>1 DEF Units
<1>2. ASSUME NEW u \in Units(r) PROVE u \in Nat /\ r.offset <= u /\ u < End(r)
  <2>1. PICK d \in 0 .. r.len - 1 : u = r.offset + d
    BY DEF Units
  <2> QED
    BY <2>1 DEF End
<1> QED
  BY <1>1, <1>2

\* The g-th operation is made of the requests from f[g] to before f[g + 1].
Spans(e, ts, f, m, g) ==
  /\ ts \in Seq(Item) /\ Len(ts) \in Nat /\ Len(ts) <= Len(round) /\ Len(m) \in Nat
  /\ f[g] \in 1 .. Len(ts) /\ f[g + 1] \in 2 .. Len(ts) + 1 /\ f[g] < f[g + 1]
  /\ m[g] \in Operation /\ Group(m[g], ts, f[g], f[g + 1])
  /\ \A k \in f[g] .. f[g + 1] - 1 : k \in 1 .. Len(ts)
  /\ Len(m[g].sources) = f[g + 1] - f[g]
  /\ m[g].sources[1].id = e[f[g]]
  /\ Ids(m[g]) = {e[k] : k \in f[g] .. f[g + 1] - 1}
  /\ \A k \in 1 .. Len(m[g].sources) :
       m[g].sources[k].id = e[f[g] + k - 1] /\ f[g] + k - 1 \in f[g] .. f[g + 1] - 1

(* Every operation spans its group.                                        *)
LEMMA GroupSpans ==
  ASSUME Numbered(round), NEW kind, NEW I, NEW e, NEW ts, NEW f, NEW m,
         Merging(kind, I, e, ts, f, m), NEW g \in 1 .. Len(m)
  PROVE  Spans(e, ts, f, m, g)
<1> DEFINE lo == f[g]
           hi == f[g + 1]
           op == m[g]
<1>1. /\ ts \in Seq(Item) /\ Len(ts) \in Nat /\ Len(m) \in Nat /\ m \in Seq(Operation)
      /\ Splits(f, m, ts, Len(ts)) /\ Indexes(e, ts, I) /\ Len(ts) <= Len(round)
  <2>1. ts \in Seq(Item) /\ m \in Seq(Operation) /\ Len(ts) <= Len(round)
    BY DEF Merging, Indexes
  <2>2. Len(ts) \in Nat /\ Len(m) \in Nat
    BY <2>1
  <2> QED
    BY <2>1, <2>2 DEF Merging
<1>2. /\ f \in [1 .. Len(m) + 1 -> 1 .. Len(ts) + 1]
      /\ lo < hi /\ Group(op, ts, lo, hi)
  BY <1>1 DEF Splits
<1>3. lo \in 1 .. Len(ts) /\ hi \in 2 .. Len(ts) + 1
  <2>1. g \in 1 .. Len(m) + 1 /\ g + 1 \in 1 .. Len(m) + 1
    BY <1>1
  <2>2. lo \in 1 .. Len(ts) + 1 /\ hi \in 1 .. Len(ts) + 1
    BY <1>2, <2>1
  <2> HIDE DEF lo, hi
  <2> QED
    BY <1>1, <1>2, <2>2
<1> HIDE DEF lo, hi, op
<1>4. \A k \in lo .. hi - 1 : k \in 1 .. Len(ts) /\ k - lo + 1 \in 1 .. hi - lo
  BY <1>1, <1>3
<1>5. op \in Operation /\ Len(op.sources) = hi - lo /\ DOMAIN op.sources = 1 .. hi - lo
  <2>1. op \in Operation /\ Len(op.sources) = hi - lo
    BY <1>2 DEF Group
  <2> QED
    BY <2>1 DEF Operation
<1>6. \A k \in lo .. hi - 1 : op.sources[k - lo + 1].id = e[k]
  <2>1. ASSUME NEW k \in lo .. hi - 1 PROVE op.sources[k - lo + 1].id = ts[k].req.id
    <3>1. op.sources[k - lo + 1] = [id |-> ts[k].req.id,
                                    within |-> ts[k].req.offset - ts[lo].req.offset,
                                    len |-> ts[k].req.len]
      BY <1>2 DEF Group
    <3> QED
      BY <3>1
  <2>2. \A k \in 1 .. Len(ts) : ts[k].req.id = e[k]
    BY <1>1 DEF Indexes
  <2> QED
    BY <1>4, <2>1, <2>2
<1>7. ASSUME NEW k \in 1 .. hi - lo
      PROVE  op.sources[k].id = e[lo + k - 1] /\ lo + k - 1 \in lo .. hi - 1
  <2>1. lo + k - 1 \in lo .. hi - 1 /\ (lo + k - 1) - lo + 1 = k
    BY <1>3
  <2>2. op.sources[(lo + k - 1) - lo + 1].id = e[lo + k - 1]
    BY <1>6, <2>1
  <2> QED
    BY <2>1, <2>2
<1>8. Ids(op) = {e[k] : k \in lo .. hi - 1}
  <2>1. ASSUME NEW k \in lo .. hi - 1 PROVE e[k] \in Ids(op)
    BY <1>4, <1>5, <1>6 DEF Ids
  <2>2. ASSUME NEW i \in Ids(op) PROVE \E k \in lo .. hi - 1 : i = e[k]
    BY <1>5, <1>7 DEF Ids
  <2> QED
    BY <2>1, <2>2
<1>9. op.sources[1].id = e[lo]
  <2>1. 1 \in 1 .. hi - lo /\ lo + 1 - 1 = lo
    BY <1>2, <1>3
  <2> QED
    BY <1>7, <2>1
<1> QED
  BY <1>1, <1>2, <1>3, <1>4, <1>5, <1>7, <1>8, <1>9 DEF lo, hi, op, Spans

(* Each source is where its request lies, and the first leads.             *)
LEMMA GroupPlaces ==
  ASSUME Numbered(round), NEW kind, NEW I, NEW e, NEW ts, NEW f, NEW m,
         Merging(kind, I, e, ts, f, m), NEW g \in 1 .. Len(m)
  PROVE  /\ \A k \in DOMAIN m[g].sources : Places(m[g], m[g].sources[k])
         /\ Leads(m[g], m[g].sources[1].id)
<1> DEFINE lo == f[g]
           hi == f[g + 1]
           op == m[g]
<1>1. /\ ts \in Seq(Item) /\ Len(ts) \in Nat /\ lo \in 1 .. Len(ts) /\ hi \in 2 .. Len(ts) + 1
      /\ lo < hi /\ op \in Operation /\ Group(op, ts, lo, hi)
      /\ \A k \in lo .. hi - 1 : k \in 1 .. Len(ts)
      /\ Len(op.sources) = hi - lo /\ op.sources[1].id = e[lo]
      /\ Ids(op) = {e[k] : k \in lo .. hi - 1}
      /\ \A k \in 1 .. Len(op.sources) : op.sources[k].id = e[lo + k - 1]
                                         /\ lo + k - 1 \in lo .. hi - 1
  <2>1. Spans(e, ts, f, m, g)
    BY GroupSpans
  <2> QED
    BY <2>1 DEF Spans
<1>2. /\ \A k \in 1 .. Len(ts) : ts[k] = round[e[k]] /\ e[k] \in I
      /\ \A i \in I : i \in DOMAIN round /\ round[i].req.op = kind
      /\ kind \in Transfers
  BY DEF Merging, Indexes, OfKind
<1> HIDE DEF lo, hi, op
<1>3. ts[lo] \in Item /\ lo \in lo .. hi - 1
  BY <1>1
<1>4. op.req = [ts[lo].req EXCEPT !.len = op.req.len] /\ op.channel = ts[lo].channel
  BY <1>1 DEF Group
<1>5. /\ op.req.offset = ts[lo].req.offset /\ op.req.fd = ts[lo].req.fd
      /\ op.req.op = ts[lo].req.op /\ op.req.priority = ts[lo].req.priority
      /\ op.req.data_offset = ts[lo].req.data_offset
  BY <1>3, <1>4, RequestTyped DEF RequestOf
<1>6. ts[lo].req.op = kind /\ op.req.len \in Nat
  <2>1. op.req \in RequestOf
    BY <1>1 DEF Operation
  <2> QED
    BY <1>1, <1>2, <2>1 DEF RequestOf
<1>7. ASSUME NEW n \in DOMAIN op.sources PROVE Places(op, op.sources[n])
  <2> DEFINE k == lo + n - 1
             s == op.sources[n]
  <2>1. DOMAIN op.sources = 1 .. Len(op.sources)
    BY <1>1 DEF Operation
  <2>2. n \in 1 .. Len(op.sources) /\ s.id = e[k] /\ k \in lo .. hi - 1 /\ k - lo + 1 = n
    <3>1. n \in 1 .. Len(op.sources) /\ lo \in Nat
      BY <1>1, <2>1
    <3>2. k - lo + 1 = n
      BY <3>1
    <3> QED
      BY <1>1, <3>1, <3>2
  <2> HIDE DEF k
  <2>3. /\ s = [id |-> ts[k].req.id, within |-> ts[k].req.offset - ts[lo].req.offset,
                len |-> ts[k].req.len]
        /\ ts[k].channel = ts[lo].channel /\ ts[k].req.fd = ts[lo].req.fd
        /\ End(ts[k].req) <= End(op.req)
    <3>1. op.sources[k - lo + 1] = s
      BY <2>2
    <3> QED
      BY <1>1, <2>2, <3>1 DEF Group
  <2>4. ts[k] \in Item /\ ts[k] = round[s.id] /\ s.id \in DOMAIN round /\ ts[k].req.op = kind
    BY <1>1, <1>2, <2>2
  <2>5. /\ ts[k].req.offset \in Nat /\ ts[k].req.len \in Nat /\ ts[lo].req.offset \in Nat
    BY <1>3, <2>4, RequestTyped
  <2>6. s.within = ts[k].req.offset - ts[lo].req.offset /\ s.len = ts[k].req.len
    BY <2>3
  <2> HIDE DEF s
  <2>7. op.req.offset + s.within = ts[k].req.offset /\ s.within + s.len <= op.req.len
    BY <1>5, <1>6, <2>3, <2>5, <2>6 DEF End
  <2>8. op.channel = ts[k].channel /\ op.req.op = ts[k].req.op /\ op.req.fd = ts[k].req.fd
    BY <1>4, <1>5, <1>6, <2>3, <2>4
  <2>9. Places(op, s)
    BY <2>4, <2>6, <2>7, <2>8 DEF Places
  <2> QED
    BY <2>9 DEF s
<1>8. Leads(op, op.sources[1].id)
  <2>1. op.sources[1].id = e[lo] /\ e[lo] \in Ids(op) /\ ts[lo] = round[e[lo]]
    BY <1>1, <1>2, <1>3
  <2> QED
    BY <1>5, <2>1 DEF Leads
<1> QED
  BY <1>7, <1>8 DEF op

(* A group is a class: nothing outside it touches it, and a chain of       *)
(* requests that touch leads from any of its requests to any other.        *)
LEMMA GroupClass ==
  ASSUME Numbered(round), NEW kind, NEW I, NEW e, NEW ts, NEW f, NEW m,
         Merging(kind, I, e, ts, f, m), NEW g \in 1 .. Len(m)
  PROVE  OneClass(Ids(m[g]))
<1> DEFINE lo == f[g]
           hi == f[g + 1]
           op == m[g]
           M == Ids(op)
<1>1. /\ ts \in Seq(Item) /\ Len(ts) \in Nat /\ lo \in 1 .. Len(ts) /\ hi \in 2 .. Len(ts) + 1
      /\ lo < hi /\ Group(op, ts, lo, hi) /\ Len(m) \in Nat
      /\ \A k \in lo .. hi - 1 : k \in 1 .. Len(ts)
      /\ M = {e[k] : k \in lo .. hi - 1}
  <2>1. Spans(e, ts, f, m, g)
    BY GroupSpans
  <2> QED
    BY <2>1 DEF Spans
<1>2. /\ kind \in Transfers /\ I = OfKind(round, kind)
      /\ Indexes(e, ts, I) /\ Sorts(ts) /\ Splits(f, m, ts, Len(ts))
  BY DEF Merging
<1>3. /\ \A i \in I : i \in DOMAIN round /\ round[i].req.op = kind
      /\ \A i \in DOMAIN round : round[i].req.op = kind => i \in I
      /\ I \in SUBSET DOMAIN round
  BY <1>2 DEF OfKind
<1>4. /\ \A k \in 1 .. Len(ts) : e[k] \in I
      /\ \A i \in I : \E k \in 1 .. Len(ts) : e[k] = i
  BY <1>2 DEF Indexes
<1>5. \A j, k \in 1 .. Len(ts) :
        Mergeable(e[j], e[k]) <=>
          /\ ts[j].channel = ts[k].channel /\ ts[j].req.fd = ts[k].req.fd
          /\ ts[j].req.offset <= End(ts[k].req) /\ ts[k].req.offset <= End(ts[j].req)
  BY <1>2, <1>3, MergeableIs
<1>6. \A k \in 1 .. Len(ts) : /\ ts[k] \in Item /\ ts[k].req.offset \in Nat
                              /\ ts[k].req.len \in Nat /\ End(ts[k].req) \in Nat
                              /\ ts[k].req.offset <= End(ts[k].req)
  <2> SUFFICES ASSUME NEW k \in 1 .. Len(ts)
               PROVE  /\ ts[k] \in Item /\ ts[k].req.offset \in Nat
                      /\ ts[k].req.len \in Nat /\ End(ts[k].req) \in Nat
                      /\ ts[k].req.offset <= End(ts[k].req)
    OBVIOUS
  <2>1. ts[k] \in Item
    BY <1>1
  <2>2. ts[k].req.offset \in Nat /\ ts[k].req.len \in Nat
    BY <2>1, RequestTyped
  <2> QED
    BY <2>1, <2>2 DEF End
<1>7. \A k \in lo .. hi - 1 :
        /\ ts[k].channel = ts[lo].channel /\ ts[k].req.fd = ts[lo].req.fd
        /\ k > lo => \E j \in lo .. k - 1 : ts[k].req.offset <= End(ts[j].req)
  BY <1>1 DEF Group
\* Groups before and after.
<1>8. /\ \A h \in 1 .. Len(m) : \A k, q : k \in f[h] .. f[h + 1] - 1 /\ q \in f[h + 1] .. Len(ts)
           /\ ts[q].channel = ts[k].channel /\ ts[q].req.fd = ts[k].req.fd
           => End(ts[k].req) < ts[q].req.offset
      /\ \A a, b \in 1 .. Len(m) + 1 : a < b => f[a] < f[b]
      /\ \A k \in 1 .. Len(ts) : \E h \in 1 .. Len(m) : k \in f[h] .. f[h + 1] - 1
      /\ f \in [1 .. Len(m) + 1 -> 1 .. Len(ts) + 1]
  <2>1. \A h \in 1 .. Len(m) : \A k, q : k \in f[h] .. f[h + 1] - 1 /\ q \in f[h + 1] .. Len(ts)
           /\ ts[q].channel = ts[k].channel /\ ts[q].req.fd = ts[k].req.fd
           => End(ts[k].req) < ts[q].req.offset
    BY <1>1, <1>2, GroupsApart
  <2>2. \A a, b \in 1 .. Len(m) + 1 : a < b => f[a] < f[b]
    BY <1>1, <1>2, SplitsRise
  <2>3. \A k \in 1 .. Len(ts) : \E h \in 1 .. Len(m) : k \in f[h] .. f[h + 1] - 1
    BY <1>1, <1>2, SplitsCover
  <2>4. f \in [1 .. Len(m) + 1 -> 1 .. Len(ts) + 1]
    BY <1>2 DEF Splits
  <2> QED
    BY <2>1, <2>2, <2>3, <2>4
<1>9. ASSUME NEW k \in lo .. hi - 1, NEW j \in DOMAIN round, Mergeable(e[k], j)
      PROVE  j \in M
  <2>1. k \in 1 .. Len(ts) /\ round[e[k]].req.op = kind
    BY <1>1, <1>3, <1>4
  <2>2. round[j].req.op = kind
    BY <1>9, <2>1 DEF Mergeable
  <2>3. PICK q \in 1 .. Len(ts) : e[q] = j
    BY <1>3, <1>4, <2>2
  <2>4. /\ ts[k].channel = ts[q].channel /\ ts[k].req.fd = ts[q].req.fd
        /\ ts[k].req.offset <= End(ts[q].req) /\ ts[q].req.offset <= End(ts[k].req)
    BY <1>5, <1>9, <2>1, <2>3
  <2>5. /\ ts[k].req.offset \in Nat /\ End(ts[k].req) \in Nat
        /\ ts[q].req.offset \in Nat /\ End(ts[q].req) \in Nat
    BY <1>6, <2>1
  <2>6. CASE q \in lo .. hi - 1
    BY <1>1, <2>3, <2>6
  <2>7. CASE q \in hi .. Len(ts)
    <3>1. End(ts[k].req) < ts[q].req.offset
      BY <1>8, <2>4, <2>7
    <3> QED
      BY <2>4, <2>5, <3>1
  <2>8. CASE q < lo
    <3>1. PICK h \in 1 .. Len(m) : q \in f[h] .. f[h + 1] - 1
      BY <1>8
    <3>2. h \in 1 .. Len(m) + 1 /\ h + 1 \in 1 .. Len(m) + 1 /\ g \in 1 .. Len(m) + 1
      BY <1>1
    <3>3. f[h] \in 1 .. Len(ts) + 1 /\ f[h + 1] \in 1 .. Len(ts) + 1 /\ f[h] <= q
      <4>1. f[h] \in 1 .. Len(ts) + 1 /\ f[h + 1] \in 1 .. Len(ts) + 1
        <5> DEFINE x == h + 1
        <5>1. x \in 1 .. Len(m) + 1 /\ h \in 1 .. Len(m) + 1
          BY <3>2
        <5> HIDE DEF x
        <5>2. f[h] \in 1 .. Len(ts) + 1 /\ f[x] \in 1 .. Len(ts) + 1
          BY <1>8, <5>1
        <5> QED
          BY <5>2 DEF x
      <4>2. f[h] \in Int /\ f[h + 1] \in Int
        BY <1>1, <4>1
      <4> HIDE DEF lo, hi
      <4> QED
        BY <3>1, <4>1, <4>2
    <3>4. h < g
      <4>1. CASE g < h
        <5>1. f[g] < f[h]
          BY <1>8, <3>2, <4>1
        <5> QED
          BY <1>1, <2>8, <3>3, <5>1
      <4>2. CASE g = h
        BY <1>1, <2>8, <3>3, <4>2
      <4> QED
        BY <1>1, <4>1, <4>2
    <3>5. f[h + 1] <= lo
      <4>1. CASE h + 1 = g
        BY <1>1, <4>1
      <4>2. CASE h + 1 < g
        <5>1. f[h + 1] < f[g]
          BY <1>8, <3>2, <4>2
        <5> QED
          BY <1>1, <3>3, <5>1
      <4> QED
        BY <1>1, <3>2, <3>4, <4>1, <4>2
    <3>6. k \in f[h + 1] .. Len(ts)
      BY <1>1, <2>1, <3>3, <3>5
    <3>7. End(ts[q].req) < ts[k].req.offset
      BY <1>8, <2>4, <3>1, <3>6
    <3> QED
      BY <2>4, <2>5, <3>7
  <2> QED
    BY <1>1, <2>6, <2>7, <2>8
<1> HIDE DEF lo, hi, M
\* Any but the first touches one before it.
<1>10. ASSUME NEW k \in lo .. hi - 1, k # lo
       PROVE  \E j \in lo .. hi - 1 : j < k /\ Mergeable(e[j], e[k]) /\ Mergeable(e[k], e[j])
  <2>1. PICK j \in lo .. k - 1 : ts[k].req.offset <= End(ts[j].req)
    BY <1>1, <1>7, <1>10
  <2>2. j \in lo .. hi - 1 /\ j < k /\ j \in 1 .. Len(ts) /\ k \in 1 .. Len(ts)
    BY <1>1
  <2>3. ts[j].channel = ts[k].channel /\ ts[j].req.fd = ts[k].req.fd
    BY <1>7, <2>2
  <2>4. ts[j].req.offset <= ts[k].req.offset
    <3>1. ts[k].channel \in Nat /\ ts[k].req.fd \in Nat
      BY <1>6, <2>2, RequestTyped
    <3> QED
      BY <1>2, <2>2, <2>3, <3>1 DEF Sorts
  <2>5. ts[j].req.offset <= End(ts[k].req)
    BY <1>6, <2>2, <2>4
  <2> QED
    BY <1>5, <2>1, <2>2, <2>3, <2>5
<1>11. ASSUME NEW C \in SUBSET DOMAIN round, Closed(C), C \cap M # {}
       PROVE  M \subseteq C
  <2>1. \A k \in lo .. hi - 1 : e[k] \in DOMAIN round
    BY <1>1, <1>3, <1>4
  <2> DEFINE T == {k \in lo .. hi - 1 : e[k] \in C}
             U == {k \in lo .. hi - 1 : e[k] \notin C}
  <2>2. T \subseteq Nat /\ U \subseteq Nat
    BY <1>1
  <2>3. T # {}
    BY <1>1, <1>11
  <2>4. PICK k \in T : \A y \in T : k <= y
    BY <2>2, <2>3, LeastNat
  <2>5. k = lo
    <3> SUFFICES ASSUME k # lo PROVE FALSE
      OBVIOUS
    <3>1. PICK j \in lo .. hi - 1 : j < k /\ Mergeable(e[j], e[k]) /\ Mergeable(e[k], e[j])
      BY <1>10
    <3>2. j \in T
      BY <1>11, <2>1, <3>1 DEF Closed
    <3> QED
      BY <1>1, <2>4, <3>1, <3>2
  <2>6. U = {}
    <3> SUFFICES ASSUME U # {} PROVE FALSE
      OBVIOUS
    <3>1. PICK n \in U : \A y \in U : n <= y
      BY <2>2, LeastNat
    <3>2. n # lo /\ n \in lo .. hi - 1
      BY <2>4, <2>5
    <3>3. PICK j \in lo .. hi - 1 : j < n /\ Mergeable(e[j], e[n])
      BY <1>10, <3>2
    <3>4. j \in U
      BY <1>11, <2>1, <3>1, <3>2, <3>3 DEF Closed
    <3> QED
      BY <1>1, <3>1, <3>3, <3>4
  <2> QED
    BY <1>1, <2>6
<1>12. M \subseteq DOMAIN round
  BY <1>1, <1>3, <1>4
<1>13. Closed(M)
  <2>1. ASSUME NEW i \in M, NEW j \in DOMAIN round, Mergeable(i, j) PROVE j \in M
    <3>1. PICK k \in lo .. hi - 1 : i = e[k]
      BY <1>1
    <3> QED
      BY <1>9, <2>1, <3>1 DEF lo, hi, M
  <2> QED
    BY <2>1 DEF Closed
<1>14. OneClass(M)
  BY <1>11, <1>12, <1>13 DEF OneClass
<1> QED
  BY <1>14 DEF M

(* The range of a group is the union of the ranges of its requests: where  *)
(* the requests so far end, or before, the next one begins.                *)
LEMMA GroupUnits ==
  ASSUME Numbered(round), NEW kind, NEW I, NEW e, NEW ts, NEW f, NEW m,
         Merging(kind, I, e, ts, f, m), NEW g \in 1 .. Len(m)
  PROVE  Units(m[g].req) = UNION {Units(round[i].req) : i \in Ids(m[g])}
<1> DEFINE lo == f[g]
           hi == f[g + 1]
           op == m[g]
           M == Ids(op)
<1>1. /\ ts \in Seq(Item) /\ lo \in 1 .. Len(ts) /\ lo \in Nat /\ hi \in Nat
      /\ lo < hi /\ Group(op, ts, lo, hi)
      /\ \A k \in lo .. hi - 1 : k \in 1 .. Len(ts)
      /\ M = {e[k] : k \in lo .. hi - 1}
  <2>1. Spans(e, ts, f, m, g)
    BY GroupSpans
  <2> QED
    BY <2>1 DEF Spans
<1>2. \A k \in 1 .. Len(ts) : ts[k] = round[e[k]]
  BY DEF Merging, Indexes
<1> HIDE DEF lo, hi, op, M
<1>3. ASSUME NEW k \in lo .. hi - 1
      PROVE  /\ ts[k].req.offset \in Nat /\ ts[k].req.len \in Nat /\ End(ts[k].req) \in Nat
             /\ Units(ts[k].req) = {u \in Nat : ts[k].req.offset <= u /\ u < End(ts[k].req)}
  <2>1. ts[k] \in Item
    BY <1>1
  <2>2. ts[k].req.offset \in Nat /\ ts[k].req.len \in Nat /\ End(ts[k].req) \in Nat
    BY <2>1, RequestTyped
  <2> QED
    BY <2>2, UnitsOf
<1>4. /\ op.req.offset = ts[lo].req.offset /\ op.req.offset \in Nat /\ op.req.len \in Nat
      /\ Units(op.req) = {u \in Nat : op.req.offset <= u /\ u < End(op.req)}
  <2>1. ts[lo] \in Item /\ op \in Operation /\ op.req = [ts[lo].req EXCEPT !.len = op.req.len]
    BY <1>1 DEF Group
  <2>2. op.req.offset = ts[lo].req.offset
    BY <2>1, RequestTyped DEF RequestOf
  <2>3. op.req.offset \in Nat /\ op.req.len \in Nat
    <3>1. op.req \in RequestOf
      BY <2>1 DEF Operation
    <3> QED
      BY <3>1 DEF RequestOf
  <2> QED
    BY <2>2, <2>3, UnitsOf
<1>5. /\ \A k \in lo .. hi - 1 :
           /\ ts[lo].req.offset <= ts[k].req.offset /\ End(ts[k].req) <= End(op.req)
           /\ k > lo => \E j \in lo .. k - 1 : ts[k].req.offset <= End(ts[j].req)
      /\ \E k \in lo .. hi - 1 : End(ts[k].req) = End(op.req)
  BY <1>1 DEF Group
<1>6. ASSUME NEW u \in Units(op.req)
      PROVE  \E k \in lo .. hi - 1 : u \in Units(ts[k].req)
  <2> DEFINE W == {k \in lo .. hi - 1 : u < End(ts[k].req)}
  <2>1. u \in Nat /\ op.req.offset <= u /\ u < End(op.req)
    BY <1>4
  <2>2. W # {} /\ W \subseteq Nat
    BY <1>1, <1>5, <2>1
  <2>3. PICK k \in W : \A y \in W : k <= y
    BY <2>2, LeastNat
  <2>4. k \in lo .. hi - 1 /\ u < End(ts[k].req)
    BY <2>3
  <2>5. ts[k].req.offset <= u
    <3>1. CASE k = lo
      BY <1>4, <2>1, <3>1
    <3>2. CASE k # lo
      <4>1. PICK j \in lo .. k - 1 : ts[k].req.offset <= End(ts[j].req)
        <5>1. k > lo
          BY <1>1, <2>4, <3>2
        <5> QED
          BY <1>5, <2>4, <5>1
      <4>2. j \in lo .. hi - 1 /\ ~ (k <= j)
        BY <1>1, <2>4
      <4>3. ~ (u < End(ts[j].req))
        BY <2>3, <4>2
      <4> QED
        BY <1>3, <2>1, <2>4, <4>1, <4>2, <4>3
    <3> QED
      BY <3>1, <3>2
  <2> QED
    BY <1>3, <2>1, <2>4, <2>5
<1>7. ASSUME NEW k \in lo .. hi - 1, NEW u \in Units(ts[k].req)
      PROVE  u \in Units(op.req)
  <2>1. /\ u \in Nat /\ ts[k].req.offset <= u /\ u < End(ts[k].req)
        /\ ts[k].req.offset \in Nat /\ End(ts[k].req) \in Nat
    BY <1>3, <1>7
  <2>2. op.req.offset <= ts[k].req.offset /\ End(ts[k].req) <= End(op.req)
    BY <1>4, <1>5
  <2>3. End(op.req) \in Nat
    BY <1>4 DEF End
  <2> QED
    BY <1>4, <2>1, <2>2, <2>3
<1>8. \A k \in lo .. hi - 1 : Units(round[e[k]].req) = Units(ts[k].req)
  BY <1>1, <1>2
<1>9. Units(op.req) = UNION {Units(round[i].req) : i \in M}
  <2>1. ASSUME NEW u \in Units(op.req) PROVE \E i \in M : u \in Units(round[i].req)
    BY <1>1, <1>6, <1>8
  <2>2. ASSUME NEW i \in M, NEW u \in Units(round[i].req) PROVE u \in Units(op.req)
    <3>1. PICK k \in lo .. hi - 1 : i = e[k]
      BY <1>1
    <3> QED
      BY <1>7, <1>8, <2>2, <3>1
  <2> QED
    BY <2>1, <2>2
<1> QED
  BY <1>9 DEF op, M

(* A merged operation is faithful to the requests it was made of.          *)
LEMMA GroupFaithful ==
  ASSUME Numbered(round), NEW kind, NEW I, NEW e, NEW ts, NEW f, NEW m,
         Merging(kind, I, e, ts, f, m), NEW g \in 1 .. Len(m)
  PROVE  Faithful(m[g])
<1>1. m[g] \in Operation /\ Len(m[g].sources) \in 1 .. Len(round)
  <2>1. Spans(e, ts, f, m, g)
    BY GroupSpans
  <2>2. /\ m[g] \in Operation /\ Len(m[g].sources) = f[g + 1] - f[g] /\ f[g] < f[g + 1]
        /\ f[g] \in 1 .. Len(ts) /\ f[g + 1] \in 2 .. Len(ts) + 1 /\ Len(ts) <= Len(round)
        /\ Len(ts) \in Nat
    BY <2>1 DEF Spans
  <2>3. Len(round) \in Nat
    BY DEF Numbered
  <2> QED
    BY <2>2, <2>3
<1> QED
  BY <1>1, GroupPlaces, GroupClass, GroupUnits DEF Faithful
-----------------------------------------------------------------------------
\* d hands out the requests of the round at I, each once.
Deals(d, I) ==
  /\ d \in Seq(Operation)
  /\ \A n \in 1 .. Len(d) : Faithful(d[n]) /\ Ids(d[n]) \subseteq I
  /\ \A i \in I : \E n \in 1 .. Len(d) : i \in Ids(d[n])
  /\ \A n, q \in 1 .. Len(d) :
       \A j \in 1 .. Len(d[n].sources), k \in 1 .. Len(d[q].sources) :
         d[n].sources[j].id = d[q].sources[k].id => n = q /\ j = k

(* The merged requests of a kind.                                          *)
LEMMA MergedDeals ==
  ASSUME Numbered(round), NEW kind \in Transfers
  PROVE  /\ Deals(MergeAdjacent(Sorted(round, OfKind(round, kind))), OfKind(round, kind))
         /\ \A n \in 1 .. Len(MergeAdjacent(Sorted(round, OfKind(round, kind)))) :
              MergeAdjacent(Sorted(round, OfKind(round, kind)))[n].req.op = kind
<1> DEFINE I == OfKind(round, kind)
           ts == Sorted(round, I)
           m == MergeAdjacent(ts)
<1>1. I \in SUBSET DOMAIN round /\ \A i \in I : round[i].req.op = kind
  BY DEF OfKind
<1>2. PICK e : Indexes(e, ts, I) /\ Sorts(ts)
  BY <1>1, SortedIndexes
<1>3. ts \in Seq(Item)
  BY <1>2 DEF Indexes
<1>4. Grouped(m, ts, Len(ts))
  BY <1>2, <1>3, MergeGroups
<1> HIDE DEF ts, m
<1>5. PICK f : Splits(f, m, ts, Len(ts))
  BY <1>4 DEF Grouped
<1>6. m \in Seq(Operation) /\ Merging(kind, I, e, ts, f, m)
  BY <1>2, <1>4, <1>5 DEF Grouped, Merging
<1> HIDE DEF I
<1>7. /\ Len(m) \in Nat /\ Len(ts) \in Nat
      /\ \A k \in 1 .. Len(ts) : e[k] \in I
      /\ \A i \in I : \E k \in 1 .. Len(ts) : e[k] = i
      /\ \A j, k \in 1 .. Len(ts) : j # k => e[j] # e[k]
  BY <1>2, <1>3, <1>6 DEF Indexes
<1>8. ASSUME NEW g \in 1 .. Len(m)
      PROVE  /\ Faithful(m[g])
             /\ f[g] \in Nat /\ f[g + 1] \in Nat
             /\ \A k \in f[g] .. f[g + 1] - 1 : k \in 1 .. Len(ts)
             /\ Ids(m[g]) = {e[k] : k \in f[g] .. f[g + 1] - 1}
             /\ \A k \in 1 .. Len(m[g].sources) :
                  m[g].sources[k].id = e[f[g] + k - 1] /\ f[g] + k - 1 \in f[g] .. f[g + 1] - 1
  <2>1. Spans(e, ts, f, m, g)
    BY <1>6, GroupSpans
  <2>2. Faithful(m[g])
    BY <1>6, GroupFaithful
  <2>3. f[g] \in Nat /\ f[g + 1] \in Nat
    BY <2>1 DEF Spans
  <2> QED
    BY <2>1, <2>2, <2>3 DEF Spans
<1>9. ASSUME NEW g \in 1 .. Len(m) PROVE Ids(m[g]) \subseteq I
  <2>1. ASSUME NEW k \in f[g] .. f[g + 1] - 1 PROVE e[k] \in I
    BY <1>7, <1>8
  <2>2. Ids(m[g]) = {e[k] : k \in f[g] .. f[g + 1] - 1}
    BY <1>8
  <2> QED
    BY <2>1, <2>2
<1>10. ASSUME NEW i \in I PROVE \E g \in 1 .. Len(m) : i \in Ids(m[g])
  <2>1. PICK k \in 1 .. Len(ts) : e[k] = i
    BY <1>7
  <2>2. PICK g \in 1 .. Len(m) : k \in f[g] .. f[g + 1] - 1
    BY <1>5, <1>7, SplitsCover
  <2> QED
    BY <1>8, <2>1, <2>2
<1>11. ASSUME NEW g \in 1 .. Len(m), NEW h \in 1 .. Len(m),
              NEW j \in 1 .. Len(m[g].sources), NEW k \in 1 .. Len(m[h].sources),
              m[g].sources[j].id = m[h].sources[k].id
       PROVE  g = h /\ j = k
  <2> DEFINE p == f[g] + j - 1
             q == f[h] + k - 1
  <2>1. /\ p \in f[g] .. f[g + 1] - 1 /\ q \in f[h] .. f[h + 1] - 1
        /\ p \in 1 .. Len(ts) /\ q \in 1 .. Len(ts) /\ e[p] = e[q]
    BY <1>8, <1>11
  <2>2. p = q
    BY <1>7, <2>1
  <2>3. \A a, b \in 1 .. Len(m) : a < b => f[a + 1] <= f[b]
    <3> SUFFICES ASSUME NEW a \in 1 .. Len(m), NEW b \in 1 .. Len(m), a < b
                 PROVE  f[a + 1] <= f[b]
      OBVIOUS
    <3>1. a + 1 \in 1 .. Len(m) + 1 /\ b \in 1 .. Len(m) + 1 /\ (a + 1 = b \/ a + 1 < b)
      BY <1>7
    <3>2. a + 1 < b => f[a + 1] < f[b]
      BY <1>5, <1>7, <3>1, SplitsRise
    <3>3. f[a + 1] \in Nat /\ f[b] \in Nat
      BY <1>8
    <3> QED
      BY <3>1, <3>2, <3>3
  <2>4. /\ f[g] \in Nat /\ f[g + 1] \in Nat /\ f[h] \in Nat /\ f[h + 1] \in Nat
        /\ j \in Nat /\ k \in Nat
    BY <1>8
  <2>5. ~ (g < h)
    <3> SUFFICES ASSUME g < h PROVE FALSE
      OBVIOUS
    <3>1. f[g + 1] <= f[h]
      BY <2>3
    <3> QED
      BY <2>1, <2>2, <2>4, <3>1
  <2>6. ~ (h < g)
    <3> SUFFICES ASSUME h < g PROVE FALSE
      OBVIOUS
    <3>1. f[h + 1] <= f[g]
      BY <2>3
    <3> QED
      BY <2>1, <2>2, <2>4, <3>1
  <2>7. g = h
    BY <1>7, <2>5, <2>6
  <2> QED
    BY <2>2, <2>4, <2>7
<1>12. Deals(m, I)
  BY <1>6, <1>8, <1>9, <1>10, <1>11 DEF Deals
<1>13. ASSUME NEW n \in 1 .. Len(m) PROVE m[n].req.op = kind
  <2>1. /\ Faithful(m[n]) /\ m[n].sources[1].id \in I
        /\ 1 \in DOMAIN m[n].sources
    <3>1. Faithful(m[n])
      BY <1>8
    <3>2. m[n].sources \in Seq(SourceOf) /\ Len(m[n].sources) \in 1 .. Len(round)
      BY <3>1 DEF Faithful, Operation
    <3>3. 1 \in DOMAIN m[n].sources
      BY <3>2
    <3> QED
      BY <1>9, <3>1, <3>3 DEF Ids
  <2>2. Places(m[n], m[n].sources[1])
    BY <2>1 DEF Faithful
  <2>3. m[n].req.op = round[m[n].sources[1].id].req.op
    BY <2>2 DEF Places
  <2> QED
    BY <1>1, <2>1, <2>3 DEF I
<1> QED
  BY <1>12, <1>13 DEF m, ts, I

(* Two sequences, one after the other.                                     *)
LEMMA ConcatFacts ==
  ASSUME NEW S, NEW d \in Seq(S), NEW e \in Seq(S)
  PROVE  /\ d \o e \in Seq(S) /\ Len(d \o e) = Len(d) + Len(e)
         /\ Len(d) \in Nat /\ Len(e) \in Nat
         /\ \A k \in 1 .. Len(d) : (d \o e)[k] = d[k] /\ k \in 1 .. Len(d \o e)
         /\ \A k \in 1 .. Len(e) : (d \o e)[Len(d) + k] = e[k]
                                   /\ Len(d) + k \in 1 .. Len(d \o e)
         /\ \A k \in 1 .. Len(d \o e) :
              \/ k \in 1 .. Len(d) /\ (d \o e)[k] = d[k]
              \/ k > Len(d) /\ k - Len(d) \in 1 .. Len(e) /\ (d \o e)[k] = e[k - Len(d)]
<1>1. /\ d \o e \in Seq(S) /\ Len(d \o e) = Len(d) + Len(e)
      /\ Len(d) \in Nat /\ Len(e) \in Nat
      /\ \A k \in 1 .. Len(d) : (d \o e)[k] = d[k]
      /\ \A k \in 1 .. Len(e) : (d \o e)[Len(d) + k] = e[k]
  OBVIOUS
<1>2. /\ \A k \in 1 .. Len(d) : k \in 1 .. Len(d \o e)
      /\ \A k \in 1 .. Len(e) : Len(d) + k \in 1 .. Len(d \o e)
  BY <1>1
<1>3. ASSUME NEW k \in 1 .. Len(d \o e), k \notin 1 .. Len(d)
      PROVE  k > Len(d) /\ k - Len(d) \in 1 .. Len(e) /\ (d \o e)[k] = e[k - Len(d)]
  <2>1. k > Len(d) /\ k - Len(d) \in 1 .. Len(e) /\ Len(d) + (k - Len(d)) = k
    BY <1>1, <1>3
  <2>2. (d \o e)[Len(d) + (k - Len(d))] = e[k - Len(d)]
    BY <1>1, <2>1
  <2> QED
    BY <2>1, <2>2
<1> QED
  BY <1>1, <1>2, <1>3

(* What hands out disjoint parts, one after the other, hands out both.     *)
LEMMA ConcatDeals ==
  ASSUME NEW d, NEW e, NEW I, NEW J, Deals(d, I), Deals(e, J), I \cap J = {}
  PROVE  Deals(d \o e, I \cup J)
<1> DEFINE c == d \o e
           L == Len(d)
<1>1. d \in Seq(Operation) /\ e \in Seq(Operation)
  BY DEF Deals
<1>2. /\ c \in Seq(Operation) /\ L \in Nat
      /\ \A k \in 1 .. L : c[k] = d[k] /\ k \in 1 .. Len(c)
      /\ \A k \in 1 .. Len(e) : c[L + k] = e[k] /\ L + k \in 1 .. Len(c)
      /\ \A k \in 1 .. Len(c) : \/ k \in 1 .. L /\ c[k] = d[k]
                                \/ k > L /\ k - L \in 1 .. Len(e) /\ c[k] = e[k - L]
  BY <1>1, ConcatFacts
<1> HIDE DEF c, L
<1>3. /\ \A n \in 1 .. L : Faithful(d[n]) /\ Ids(d[n]) \subseteq I
      /\ \A n \in 1 .. Len(e) : Faithful(e[n]) /\ Ids(e[n]) \subseteq J
  BY DEF Deals, L
<1>4. ASSUME NEW n \in 1 .. Len(c)
      PROVE  Faithful(c[n]) /\ Ids(c[n]) \subseteq I \cup J
  BY <1>2, <1>3
<1>5. ASSUME NEW i \in I \cup J PROVE \E n \in 1 .. Len(c) : i \in Ids(c[n])
  <2>1. CASE i \in I
    <3>1. PICK n \in 1 .. L : i \in Ids(d[n])
      BY <2>1 DEF Deals, L
    <3> QED
      BY <1>2, <3>1
  <2>2. CASE i \in J
    <3>1. PICK n \in 1 .. Len(e) : i \in Ids(e[n])
      BY <2>2 DEF Deals
    <3> QED
      BY <1>2, <3>1
  <2> QED
    BY <2>1, <2>2
<1>6. ASSUME NEW n \in 1 .. Len(c), NEW q \in 1 .. Len(c),
             NEW j \in 1 .. Len(c[n].sources), NEW k \in 1 .. Len(c[q].sources),
             c[n].sources[j].id = c[q].sources[k].id
      PROVE  n = q /\ j = k
  <2>1. c[n] \in Operation /\ c[q] \in Operation
    BY <1>2
  <2>2. c[n].sources[j].id \in Ids(c[n]) /\ c[q].sources[k].id \in Ids(c[q])
    <3>1. DOMAIN c[n].sources = 1 .. Len(c[n].sources) /\ DOMAIN c[q].sources = 1 .. Len(c[q].sources)
      BY <2>1 DEF Operation
    <3> QED
      BY <3>1 DEF Ids
  <2>3. CASE n \in 1 .. L /\ q \in 1 .. L
    <3>1. c[n] = d[n] /\ c[q] = d[q]
      BY <1>2, <2>3
    <3> QED
      BY <1>6, <2>3, <3>1 DEF Deals, L
  <2>4. CASE n \notin 1 .. L /\ q \notin 1 .. L
    <3>1. c[n] = e[n - L] /\ c[q] = e[q - L] /\ n - L \in 1 .. Len(e) /\ q - L \in 1 .. Len(e)
      BY <1>2, <2>4
    <3>2. n - L = q - L /\ j = k
      <4> DEFINE a == n - L
                 b == q - L
      <4>1. /\ a \in 1 .. Len(e) /\ b \in 1 .. Len(e) /\ c[n] = e[a] /\ c[q] = e[b]
        BY <3>1
      <4> HIDE DEF a, b
      <4>2. /\ j \in 1 .. Len(e[a].sources) /\ k \in 1 .. Len(e[b].sources)
            /\ e[a].sources[j].id = e[b].sources[k].id
        BY <1>6, <4>1
      <4>3. a = b /\ j = k
        BY <4>1, <4>2 DEF Deals
      <4> QED
        BY <4>3 DEF a, b
    <3> QED
      BY <1>2, <3>2
  <2>5. CASE n \in 1 .. L /\ q \notin 1 .. L
    <3>1. c[n].sources[j].id \in I /\ c[q].sources[k].id \in J
      BY <1>2, <1>3, <2>2, <2>5
    <3> QED
      BY <1>6, <3>1
  <2>6. CASE n \notin 1 .. L /\ q \in 1 .. L
    <3>1. c[n].sources[j].id \in J /\ c[q].sources[k].id \in I
      BY <1>2, <1>3, <2>2, <2>6
    <3> QED
      BY <1>6, <3>1
  <2> QED
    BY <2>3, <2>4, <2>5, <2>6
<1>7. Deals(c, I \cup J)
  BY <1>2, <1>4, <1>5, <1>6 DEF Deals
<1> QED
  BY <1>7 DEF c

\* Of what is never merged, first come first.
InTurn(d) ==
  \A m, n \in 1 .. Len(d) :
    m < n /\ d[m].req.op \notin Transfers /\ d[n].req.op \notin Transfers
      => d[m].sources[1].id < d[n].sources[1].id

(* Requests that are not transfers are handed out as they came.            *)
LEMMA SinglesDeal ==
  ASSUME Numbered(round), NEW I \in SUBSET DOMAIN round,
         \A i \in I : round[i].req.op \notin Transfers
  PROVE  /\ Deals(PassThroughDrain(Selected(round, I)), I)
         /\ InTurn(PassThroughDrain(Selected(round, I)))
<1> DEFINE R == {p \in I \X I : p[1] < p[2]}
           ts == Selected(round, I)
           d == PassThroughDrain(ts)
<1>1. round \in Seq(Item) /\ DOMAIN round = 1 .. Len(round) /\ Len(round) \in Nat
      /\ \A i \in DOMAIN round : round[i] \in Item /\ round[i].req.id = i /\ i \in Nat
  <2>1. round \in Seq(Item)
    BY DEF Numbered
  <2> QED
    BY <2>1 DEF Numbered
<1>2. \A i, j \in I : <<i, j>> \in R <=> i < j
  OBVIOUS
<1>3. Orders(R, I)
  BY <1>1, <1>2 DEF Orders
<1>4. ts = Arranged(round, I, R)
  BY DEF Selected
<1> HIDE DEF R, ts
<1>5. PICK e : Indexes(e, ts, I) /\ \A j, k \in 1 .. Len(ts) : j < k => <<e[j], e[k]>> \in R
  BY <1>3, <1>4, ArrangedIndexes
<1>6. /\ ts \in Seq(Item) /\ Len(ts) \in Nat /\ Len(ts) <= Len(round)
      /\ \A k \in 1 .. Len(ts) : e[k] \in I /\ ts[k] = round[e[k]]
      /\ \A i \in I : \E k \in 1 .. Len(ts) : e[k] = i
      /\ \A j, k \in 1 .. Len(ts) : j # k => e[j] # e[k]
      /\ \A j, k \in 1 .. Len(ts) : j < k => e[j] < e[k]
  <2>1. ts \in Seq(Item)
    BY <1>5 DEF Indexes
  <2>2. Len(ts) \in Nat
    BY <2>1
  <2> QED
    BY <1>2, <1>5, <2>1, <2>2 DEF Indexes
<1>7. ASSUME NEW i \in I
      PROVE  LET op == Single(round[i]) IN
             /\ Faithful(op) /\ Ids(op) = {i} /\ Len(op.sources) = 1 /\ op.sources[1].id = i
  <2> DEFINE t == round[i]
             op == Single(t)
             s == [id |-> t.req.id, within |-> 0, len |-> t.req.len]
  <2>1. i \in DOMAIN round /\ t \in Item /\ t.req.id = i /\ t.req.op \notin Transfers
    BY <1>1
  <2>2. op = [req |-> t.req, channel |-> t.channel, sources |-> <<s>>]
    BY DEF Single
  <2>3. s \in SourceOf /\ s.id = i
    BY <2>1, RequestTyped DEF SourceOf
  <2> HIDE DEF s
  <2>4. op.sources = <<s>> /\ op.req = t.req /\ op.channel = t.channel /\ op \in Operation
    <3>1. <<s>> \in Seq(SourceOf)
      BY <2>3
    <3> QED
      BY <2>1, <2>2, <3>1, RequestTyped DEF Operation
  <2> HIDE DEF op
  <2>5. Len(op.sources) = 1 /\ op.sources[1] = s /\ DOMAIN op.sources = {1}
    BY <2>4
  <2>6. Ids(op) = {i}
    BY <2>3, <2>5 DEF Ids
  <2>7. Len(op.sources) \in 1 .. Len(round)
    BY <1>1, <2>1, <2>5
  <2>8. Places(op, s)
    BY <2>1, <2>3, <2>4 DEF Places
  <2>9. Leads(op, i)
    BY <2>4, <2>6 DEF Leads
  <2>10. OneClass({i})
    BY <2>1 DEF OneClass, Closed, Mergeable, Transfers
  <2>11. Units(op.req) = UNION {Units(round[j].req) : j \in {i}}
    BY <2>4
  <2>12. Faithful(op)
    BY <2>3, <2>4, <2>5, <2>6, <2>7, <2>8, <2>9, <2>10, <2>11 DEF Faithful
  <2> QED
    BY <2>3, <2>5, <2>6, <2>12 DEF op
<1>8. d = [k \in 1 .. Len(ts) |-> Single(ts[k])]
  BY <1>6 DEF PassThroughDrain
<1> HIDE DEF d
<1>9. ASSUME NEW k \in 1 .. Len(ts)
      PROVE  /\ Faithful(d[k]) /\ d[k] \in Operation /\ Ids(d[k]) = {e[k]}
             /\ Len(d[k].sources) = 1 /\ d[k].sources[1].id = e[k]
  <2>1. d[k] = Single(round[e[k]]) /\ e[k] \in I
    BY <1>6, <1>8
  <2>2. Faithful(d[k])
    BY <1>7, <2>1
  <2> QED
    BY <1>7, <2>1, <2>2 DEF Faithful
<1>10. d \in Seq(Operation) /\ Len(d) = Len(ts)
  BY <1>6, <1>8, <1>9
<1>11. Deals(d, I)
  <2>1. ASSUME NEW n \in 1 .. Len(d), NEW q \in 1 .. Len(d),
               NEW j \in 1 .. Len(d[n].sources), NEW k \in 1 .. Len(d[q].sources),
               d[n].sources[j].id = d[q].sources[k].id
        PROVE  n = q /\ j = k
    <3>1. j = 1 /\ k = 1 /\ e[n] = e[q]
      BY <1>9, <1>10, <2>1
    <3> QED
      BY <1>6, <1>10, <3>1
  <2>2. ASSUME NEW i \in I PROVE \E n \in 1 .. Len(d) : i \in Ids(d[n])
    <3>1. PICK k \in 1 .. Len(ts) : e[k] = i
      BY <1>6
    <3>2. Ids(d[k]) = {i} /\ k \in 1 .. Len(d)
      BY <1>9, <1>10, <3>1
    <3> QED
      BY <3>2
  <2>3. ASSUME NEW n \in 1 .. Len(d) PROVE Faithful(d[n]) /\ Ids(d[n]) \subseteq I
    <3>1. n \in 1 .. Len(ts)
      BY <1>10
    <3>2. Faithful(d[n]) /\ Ids(d[n]) = {e[n]}
      BY <1>9, <3>1
    <3>3. e[n] \in I
      BY <1>6, <3>1
    <3> QED
      BY <3>2, <3>3
  <2> QED
    BY <1>10, <2>1, <2>2, <2>3 DEF Deals
<1>12. InTurn(d)
  BY <1>6, <1>9, <1>10 DEF InTurn
<1> QED
  BY <1>11, <1>12 DEF d, ts

-----------------------------------------------------------------------------
(* The scheduler.                                                          *)

\* The requests of the operations of d that have priority p.
Part(d, I, p) ==
  {i \in I : \E n \in 1 .. Len(d) : i \in Ids(d[n]) /\ d[n].req.priority = p}

\* q are the operations of d that have priority p: e says where they were.
Queued(e, q, d, p) ==
  /\ q \in Seq(Operation) /\ e \in [1 .. Len(q) -> 1 .. Len(d)]
  /\ \A k \in 1 .. Len(q) : q[k] = d[e[k]] /\ q[k].req.priority = p
  /\ \A n \in 1 .. Len(d) : d[n].req.priority = p => \E k \in 1 .. Len(q) : e[k] = n
  /\ \A j, k \in 1 .. Len(q) : j < k => e[j] < e[k]

(* A queue holds the operations of its priority, in their order.           *)
LEMMA QueueIs ==
  ASSUME NEW d \in Seq(Operation), NEW p
  PROVE  \E e : Queued(e, Queue(d, p), d, p)
<1> DEFINE K == {n \in DOMAIN d : d[n].req.priority = p}
           R == {x \in K \X K : x[1] < x[2]}
           N == 1 .. Cardinality(K)
           q == Queue(d, p)
<1>1. DOMAIN d = 1 .. Len(d) /\ Len(d) \in Nat /\ K \subseteq 1 .. Len(d)
  OBVIOUS
<1>2. IsFiniteSet(K) /\ Cardinality(K) \in Nat
  <2>1. IsFiniteSet(K)
    <3> DEFINE l == Len(d)
    <3>1. 1 \in Int /\ l \in Int
      BY <1>1
    <3>2. K \subseteq 1 .. l
      BY <1>1
    <3> HIDE DEF l, K
    <3>3. IsFiniteSet(1 .. l)
      BY <3>1, FS_Interval
    <3> QED
      BY <3>2, <3>3, FS_Subset
  <2> QED
    BY <2>1, FS_CardinalityType
<1>3. \A i, j \in K : <<i, j>> \in R <=> i < j
  OBVIOUS
<1>4. Orders(R, K)
  BY <1>1, <1>3 DEF Orders
<1>5. q = Arranged(d, K, R)
  BY DEF Queue, Selected
<1>6. \A n \in K : d[n] \in Operation /\ d[n].req.priority = p
  OBVIOUS
<1>7. \A n \in 1 .. Len(d) : d[n].req.priority = p => n \in K
  BY <1>1
<1> HIDE DEF R, q, K
<1>8. PICK e \in [N -> K] :
        /\ q = [k \in N |-> d[e[k]]]
        /\ \A i \in K : \E k \in N : e[k] = i
        /\ \A j, k \in N : j < k => <<e[j], e[k]>> \in R
  BY <1>2, <1>4, <1>5, ArrangedInOrder
<1>9. \A k \in N : e[k] \in K /\ q[k] = d[e[k]] /\ q[k] \in Operation /\ q[k].req.priority = p
  BY <1>6, <1>8
<1>10. q \in Seq(Operation) /\ Len(q) = Cardinality(K)
  BY <1>2, <1>8, <1>9
<1>11. e \in [1 .. Len(q) -> 1 .. Len(d)]
  BY <1>1, <1>8, <1>10
<1>12. \A j, k \in N : j < k => e[j] < e[k]
  BY <1>3, <1>8, <1>9
<1>13. Queued(e, q, d, p)
  BY <1>7, <1>8, <1>9, <1>10, <1>11, <1>12 DEF Queued
<1> QED
  BY <1>13 DEF q

(* A queue hands out its part, and keeps what came first first.            *)
LEMMA QueueDeals ==
  ASSUME NEW d, NEW I, Deals(d, I), InTurn(d), NEW p
  PROVE  /\ Deals(Queue(d, p), Part(d, I, p)) /\ InTurn(Queue(d, p))
         /\ \A k \in 1 .. Len(Queue(d, p)) : Queue(d, p)[k].req.priority = p
<1> DEFINE q == Queue(d, p)
<1>1. d \in Seq(Operation)
  BY DEF Deals
<1>2. PICK e : Queued(e, q, d, p)
  BY <1>1, QueueIs
<1> HIDE DEF q
<1>3. /\ q \in Seq(Operation) /\ Len(q) \in Nat
      /\ \A k \in 1 .. Len(q) : e[k] \in 1 .. Len(d) /\ q[k] = d[e[k]] /\ q[k].req.priority = p
      /\ \A n \in 1 .. Len(d) : d[n].req.priority = p => \E k \in 1 .. Len(q) : e[k] = n
      /\ \A j, k \in 1 .. Len(q) : j < k => e[j] < e[k]
  <2>1. q \in Seq(Operation)
    BY <1>2 DEF Queued
  <2>2. Len(q) \in Nat
    BY <2>1
  <2> QED
    BY <1>2, <2>1, <2>2 DEF Queued
<1>4. ASSUME NEW k \in 1 .. Len(q)
      PROVE  Faithful(q[k]) /\ Ids(q[k]) \subseteq Part(d, I, p)
  <2>1. e[k] \in 1 .. Len(d) /\ q[k] = d[e[k]] /\ d[e[k]].req.priority = p
    BY <1>3
  <2>2. Faithful(d[e[k]]) /\ Ids(d[e[k]]) \subseteq I
    BY <2>1 DEF Deals
  <2> QED
    BY <2>1, <2>2 DEF Part
<1>5. ASSUME NEW i \in Part(d, I, p) PROVE \E k \in 1 .. Len(q) : i \in Ids(q[k])
  <2>1. PICK n \in 1 .. Len(d) : i \in Ids(d[n]) /\ d[n].req.priority = p
    BY DEF Part
  <2>2. PICK k \in 1 .. Len(q) : e[k] = n
    BY <1>3, <2>1
  <2> QED
    BY <1>3, <2>1, <2>2
<1>6. ASSUME NEW n \in 1 .. Len(q), NEW m \in 1 .. Len(q),
             NEW j \in 1 .. Len(q[n].sources), NEW k \in 1 .. Len(q[m].sources),
             q[n].sources[j].id = q[m].sources[k].id
      PROVE  n = m /\ j = k
  <2>1. e[n] \in 1 .. Len(d) /\ q[n] = d[e[n]] /\ e[m] \in 1 .. Len(d) /\ q[m] = d[e[m]]
    BY <1>3
  <2>2. e[n] = e[m] /\ j = k
    <3> DEFINE a == e[n]
               b == e[m]
    <3>1. a \in 1 .. Len(d) /\ b \in 1 .. Len(d) /\ q[n] = d[a] /\ q[m] = d[b]
      BY <2>1
    <3> HIDE DEF a, b
    <3>2. /\ j \in 1 .. Len(d[a].sources) /\ k \in 1 .. Len(d[b].sources)
          /\ d[a].sources[j].id = d[b].sources[k].id
      BY <1>6, <3>1
    <3>3. \A x, y \in 1 .. Len(d) :
            \A s \in 1 .. Len(d[x].sources), t \in 1 .. Len(d[y].sources) :
              d[x].sources[s].id = d[y].sources[t].id => x = y /\ s = t
      BY DEF Deals
    <3>4. a = b /\ j = k
      BY <3>1, <3>2, <3>3
    <3> QED
      BY <3>4 DEF a, b
  <2>3. ~ (n < m) /\ ~ (m < n)
    BY <1>3, <2>1, <2>2
  <2> QED
    BY <1>3, <2>2, <2>3
<1>7. Deals(q, Part(d, I, p))
  BY <1>3, <1>4, <1>5, <1>6 DEF Deals
<1>8. InTurn(q)
  <2> SUFFICES ASSUME NEW m \in 1 .. Len(q), NEW n \in 1 .. Len(q), m < n,
                      q[m].req.op \notin Transfers, q[n].req.op \notin Transfers
               PROVE  q[m].sources[1].id < q[n].sources[1].id
    BY DEF InTurn
  <2>1. /\ e[m] \in 1 .. Len(d) /\ q[m] = d[e[m]] /\ e[n] \in 1 .. Len(d) /\ q[n] = d[e[n]]
        /\ e[m] < e[n]
    BY <1>3
  <2> QED
    BY <2>1 DEF InTurn
<1> QED
  BY <1>3, <1>7, <1>8 DEF q

\* By priority, and within a priority in turn.
Prioritized(d) ==
  \A m, n \in 1 .. Len(d) : m < n =>
    /\ Rank(d[m].req.priority) >= Rank(d[n].req.priority)
    /\ (/\ d[m].req.priority = d[n].req.priority
        /\ d[m].req.op \notin Transfers /\ d[n].req.op \notin Transfers)
         => d[m].sources[1].id < d[n].sources[1].id

(* The three ranks.                                                        *)
LEMMA Ranks == Rank("Critical") = 2 /\ Rank("High") = 1 /\ Rank("Low") = 0
BY Zenon DEF Rank

(* The operations of one priority, then those of lower ones.               *)
LEMMA ConcatPrioritized ==
  ASSUME NEW d \in Seq(Operation), NEW e \in Seq(Operation), Prioritized(d), Prioritized(e),
         \A m \in 1 .. Len(d), n \in 1 .. Len(e) :
           /\ Rank(d[m].req.priority) \in Nat /\ Rank(e[n].req.priority) \in Nat
           /\ Rank(d[m].req.priority) > Rank(e[n].req.priority)
  PROVE  Prioritized(d \o e)
<1> DEFINE c == d \o e
           L == Len(d)
<1>1. /\ L \in Nat /\ Len(c) \in Nat
      /\ \A k \in 1 .. Len(c) : \/ k \in 1 .. L /\ c[k] = d[k]
                                \/ k > L /\ k - L \in 1 .. Len(e) /\ c[k] = e[k - L]
  <2>1. c \in Seq(Operation)
    BY ConcatFacts
  <2>2. Len(c) \in Nat
    BY <2>1
  <2> QED
    BY <2>2, ConcatFacts
<1> HIDE DEF c, L
<1> SUFFICES ASSUME NEW m \in 1 .. Len(c), NEW n \in 1 .. Len(c), m < n
             PROVE  /\ Rank(c[m].req.priority) >= Rank(c[n].req.priority)
                    /\ (/\ c[m].req.priority = c[n].req.priority
                        /\ c[m].req.op \notin Transfers /\ c[n].req.op \notin Transfers)
                         => c[m].sources[1].id < c[n].sources[1].id
  BY DEF Prioritized, c
<1>2. CASE m \in 1 .. L /\ n \in 1 .. L
  <2>1. c[m] = d[m] /\ c[n] = d[n]
    BY <1>1, <1>2
  <2> QED
    BY <1>2, <2>1 DEF Prioritized, L
<1>3. CASE m \notin 1 .. L
  <2> DEFINE a == m - L
             b == n - L
  <2>1. c[m] = e[a] /\ c[n] = e[b] /\ a \in 1 .. Len(e) /\ b \in 1 .. Len(e) /\ a < b
    BY <1>1, <1>3
  <2> HIDE DEF a, b
  <2> QED
    BY <2>1 DEF Prioritized
<1>4. CASE m \in 1 .. L /\ n \notin 1 .. L
  <2>1. c[m] = d[m] /\ c[n] = e[n - L] /\ n - L \in 1 .. Len(e)
    BY <1>1, <1>4
  <2> DEFINE b == n - L
             x == Rank(d[m].req.priority)
             y == Rank(e[b].req.priority)
  <2>2. x \in Nat /\ y \in Nat /\ x > y
    BY <1>4, <2>1 DEF L
  <2>3. Rank(c[m].req.priority) = x /\ Rank(c[n].req.priority) = y
    BY <2>1
  <2> HIDE DEF x, y
  <2>4. x >= y /\ x # y
    BY <2>2
  <2>5. c[m].req.priority # c[n].req.priority
    BY <2>3, <2>4, Zenon
  <2>6. Rank(c[m].req.priority) >= Rank(c[n].req.priority)
    BY <2>3, <2>4
  <2> QED
    BY <2>5, <2>6, Zenon
<1> QED
  BY <1>2, <1>3, <1>4

(* One priority is in order if it is in turn.                              *)
LEMMA QueuePrioritized ==
  ASSUME NEW d, InTurn(d), NEW p \in Queues, \A k \in 1 .. Len(d) : d[k].req.priority = p
  PROVE  Prioritized(d)
<1>1. Rank(p) \in Nat
  BY Ranks DEF Queues
<1> QED
  BY <1>1 DEF Prioritized, InTurn

-----------------------------------------------------------------------------
(* The whole drain.                                                        *)

(* The drain of the batch engine hands out every request of the round.     *)
LEMMA DrainMergedDeals ==
  ASSUME Numbered(round)
  PROVE  Deals(DrainMerged(round), DOMAIN round) /\ InTurn(DrainMerged(round))
<1> DEFINE reads == OfKind(round, "Read")
           writes == OfKind(round, "Write")
           others == DOMAIN round \ (reads \cup writes)
           a == PassThroughDrain(Selected(round, others))
           b == MergeAdjacent(Sorted(round, reads))
           c == MergeAdjacent(Sorted(round, writes))
<1>1. /\ others \in SUBSET DOMAIN round /\ others \cap reads = {}
      /\ (others \cup reads) \cap writes = {} /\ (others \cup reads) \cup writes = DOMAIN round
      /\ \A i \in others : round[i].req.op \notin Transfers
  BY DEF OfKind, Transfers
<1>2. Deals(a, others) /\ InTurn(a)
  BY <1>1, SinglesDeal
<1>3. Deals(b, reads) /\ \A n \in 1 .. Len(b) : b[n].req.op = "Read"
  <2>1. "Read" \in Transfers
    BY DEF Transfers
  <2> QED
    BY <2>1, MergedDeals
<1>4. Deals(c, writes) /\ \A n \in 1 .. Len(c) : c[n].req.op = "Write"
  <2>1. "Write" \in Transfers
    BY DEF Transfers
  <2> QED
    BY <2>1, MergedDeals
<1>5. DrainMerged(round) = (a \o b) \o c
  BY DEF DrainMerged
<1> HIDE DEF reads, writes, others, a, b, c
<1>6. Deals(a \o b, others \cup reads)
  BY <1>1, <1>2, <1>3, ConcatDeals
<1>7. Deals((a \o b) \o c, DOMAIN round)
  BY <1>1, <1>4, <1>6, ConcatDeals
<1>8. InTurn((a \o b) \o c)
  <2> DEFINE ab == a \o b
             d == ab \o c
  <2>1. a \in Seq(Operation) /\ b \in Seq(Operation) /\ c \in Seq(Operation)
    BY <1>2, <1>3, <1>4 DEF Deals
  <2>2. /\ ab \in Seq(Operation)
        /\ \A k \in 1 .. Len(ab) : \/ k \in 1 .. Len(a) /\ ab[k] = a[k]
                                   \/ k - Len(a) \in 1 .. Len(b) /\ ab[k] = b[k - Len(a)]
    BY <2>1, ConcatFacts
  <2> HIDE DEF ab
  <2>3. \A k \in 1 .. Len(d) : \/ k \in 1 .. Len(ab) /\ d[k] = ab[k]
                               \/ k - Len(ab) \in 1 .. Len(c) /\ d[k] = c[k - Len(ab)]
    BY <2>1, <2>2, ConcatFacts
  <2> HIDE DEF d
  <2>4. \A k \in 1 .. Len(d) :
          d[k].req.op \notin Transfers => k \in 1 .. Len(a) /\ d[k] = a[k]
    <3> SUFFICES ASSUME NEW k \in 1 .. Len(d), d[k].req.op \notin Transfers
                 PROVE  k \in 1 .. Len(a) /\ d[k] = a[k]
      OBVIOUS
    <3>1. k \in 1 .. Len(ab) /\ d[k] = ab[k]
      BY <1>4, <2>3 DEF Transfers
    <3> QED
      BY <1>3, <2>2, <3>1 DEF Transfers
  <2>5. InTurn(d)
    <3> SUFFICES ASSUME NEW m \in 1 .. Len(d), NEW n \in 1 .. Len(d), m < n,
                        d[m].req.op \notin Transfers, d[n].req.op \notin Transfers
                 PROVE  d[m].sources[1].id < d[n].sources[1].id
      BY DEF InTurn
    <3>1. m \in 1 .. Len(a) /\ d[m] = a[m] /\ n \in 1 .. Len(a) /\ d[n] = a[n]
      BY <2>4
    <3> QED
      BY <1>2, <3>1 DEF InTurn
  <2> QED
    BY <2>5 DEF d, ab
<1> QED
  BY <1>5, <1>7, <1>8

(* The parts of the three priorities are all there is, and are apart.      *)
LEMMA PartsApart ==
  ASSUME NEW d, NEW I, Deals(d, I)
  PROVE  /\ Part(d, I, "Critical") \cap Part(d, I, "High") = {}
         /\ (Part(d, I, "Critical") \cup Part(d, I, "High")) \cap Part(d, I, "Low") = {}
         /\ (Part(d, I, "Critical") \cup Part(d, I, "High")) \cup Part(d, I, "Low") = I
<1>1. \A n \in 1 .. Len(d) :
        d[n].req.priority \in Queues /\ DOMAIN d[n].sources = 1 .. Len(d[n].sources)
  <2> SUFFICES ASSUME NEW n \in 1 .. Len(d)
               PROVE  d[n].req.priority \in Queues
                      /\ DOMAIN d[n].sources = 1 .. Len(d[n].sources)
    OBVIOUS
  <2>1. d[n] \in Operation
    BY DEF Deals
  <2>2. d[n].req \in RequestOf /\ d[n].sources \in Seq(SourceOf)
    BY <2>1 DEF Operation
  <2> QED
    BY <2>2 DEF RequestOf
<1>2. \A n, q \in 1 .. Len(d) : Ids(d[n]) \cap Ids(d[q]) # {} => n = q
  <2> SUFFICES ASSUME NEW n \in 1 .. Len(d), NEW q \in 1 .. Len(d), NEW i \in Ids(d[n]),
                      i \in Ids(d[q])
               PROVE  n = q
    OBVIOUS
  <2>1. PICK j \in 1 .. Len(d[n].sources) : d[n].sources[j].id = i
    BY <1>1 DEF Ids
  <2>2. PICK k \in 1 .. Len(d[q].sources) : d[q].sources[k].id = i
    BY <1>1 DEF Ids
  <2>3. \A x, y \in 1 .. Len(d) :
          \A s \in 1 .. Len(d[x].sources), t \in 1 .. Len(d[y].sources) :
            d[x].sources[s].id = d[y].sources[t].id => x = y /\ s = t
    BY DEF Deals
  <2> QED
    BY <2>1, <2>2, <2>3
<1>3. \A i \in I : \E n \in 1 .. Len(d) : i \in Ids(d[n])
  BY DEF Deals
<1>4. \A p, r : p # r => Part(d, I, p) \cap Part(d, I, r) = {}
  BY <1>2 DEF Part
<1>5. \A i \in I : \E p \in Queues : i \in Part(d, I, p)
  BY <1>1, <1>3 DEF Part
<1>6. \A p : Part(d, I, p) \subseteq I
  BY DEF Part
<1> QED
  BY <1>4, <1>5, <1>6 DEF Queues

(* The stage hands out every request of the round once, by priority.       *)
LEMMA BatchedDeals ==
  ASSUME Numbered(round)
  PROVE  Deals(BatchedDrain(round), DOMAIN round) /\ Prioritized(BatchedDrain(round))
<1> DEFINE d == DrainMerged(round)
           I == DOMAIN round
           c == Queue(d, "Critical")
           h == Queue(d, "High")
           l == Queue(d, "Low")
<1>1. Deals(d, I) /\ InTurn(d)
  BY DrainMergedDeals
<1> HIDE DEF d, I
<1>2. BatchedDrain(round) = (c \o h) \o l
  BY DEF BatchedDrain, DrainByPriority, d
<1>3. /\ Deals(c, Part(d, I, "Critical")) /\ InTurn(c)
      /\ \A k \in 1 .. Len(c) : c[k].req.priority = "Critical"
  BY <1>1, QueueDeals
<1>4. /\ Deals(h, Part(d, I, "High")) /\ InTurn(h)
      /\ \A k \in 1 .. Len(h) : h[k].req.priority = "High"
  BY <1>1, QueueDeals
<1>5. /\ Deals(l, Part(d, I, "Low")) /\ InTurn(l)
      /\ \A k \in 1 .. Len(l) : l[k].req.priority = "Low"
  BY <1>1, QueueDeals
<1> HIDE DEF c, h, l
<1>6. /\ Part(d, I, "Critical") \cap Part(d, I, "High") = {}
      /\ (Part(d, I, "Critical") \cup Part(d, I, "High")) \cap Part(d, I, "Low") = {}
      /\ (Part(d, I, "Critical") \cup Part(d, I, "High")) \cup Part(d, I, "Low") = I
  BY <1>1, PartsApart
<1>7. Deals(c \o h, Part(d, I, "Critical") \cup Part(d, I, "High"))
  BY <1>3, <1>4, <1>6, ConcatDeals
<1>8. Deals((c \o h) \o l, I)
  BY <1>5, <1>6, <1>7, ConcatDeals
<1>9. /\ c \in Seq(Operation) /\ h \in Seq(Operation) /\ l \in Seq(Operation)
      /\ c \o h \in Seq(Operation)
  BY <1>3, <1>4, <1>5, <1>7 DEF Deals
<1>10. Prioritized(c) /\ Prioritized(h) /\ Prioritized(l)
  BY <1>3, <1>4, <1>5, QueuePrioritized DEF Queues
<1>11. Prioritized(c \o h)
  <2>1. \A m \in 1 .. Len(c), n \in 1 .. Len(h) :
           /\ Rank(c[m].req.priority) \in Nat /\ Rank(h[n].req.priority) \in Nat
           /\ Rank(c[m].req.priority) > Rank(h[n].req.priority)
    BY <1>3, <1>4, Ranks
  <2> QED
    BY <1>9, <1>10, <2>1, ConcatPrioritized
<1>12. Prioritized((c \o h) \o l)
  <2> DEFINE ch == c \o h
  <2>1. \A k \in 1 .. Len(ch) : \/ k \in 1 .. Len(c) /\ ch[k] = c[k]
                                \/ k - Len(c) \in 1 .. Len(h) /\ ch[k] = h[k - Len(c)]
    BY <1>9, ConcatFacts
  <2> HIDE DEF ch
  <2>2. \A k \in 1 .. Len(ch) : ch[k].req.priority \in {"Critical", "High"}
    BY <1>3, <1>4, <2>1
  <2>3. \A m \in 1 .. Len(ch), n \in 1 .. Len(l) :
           /\ Rank(ch[m].req.priority) \in Nat /\ Rank(l[n].req.priority) \in Nat
           /\ Rank(ch[m].req.priority) > Rank(l[n].req.priority)
    BY <1>5, <2>2, Ranks
  <2>4. ch \in Seq(Operation) /\ Prioritized(ch)
    BY <1>9, <1>11 DEF ch
  <2>5. Prioritized(ch \o l)
    BY <1>9, <1>10, <2>3, <2>4, ConcatPrioritized
  <2> QED
    BY <2>5 DEF ch
<1> QED
  BY <1>2, <1>8, <1>12 DEF I

-----------------------------------------------------------------------------
(* The reference for merging: what Class computes.                         *)

\* C and the requests that touch one of C.
Grown(C) == C \cup {j \in DOMAIN round : \E k \in C : Mergeable(k, j)}

\* g lists what is reachable from i in up to m steps.
Grows(g, i, m) == g = [n \in 0 .. m |-> IF n = 0 THEN {i} ELSE Grown(g[n - 1])]

(* Reaching further one step at a time is well defined.                    *)
LEMMA GrowsExists ==
  ASSUME NEW i, NEW m \in Nat
  PROVE  \E g : Grows(g, i, m)
<1> DEFINE S == {k \in Nat : \E g : Grows(g, i, k)}
<1>1. 0 \in S
  <2>1. Grows([n \in 0 .. 0 |-> {i}], i, 0)
    BY DEF Grows
  <2> QED
    BY <2>1
<1>2. ASSUME NEW k \in Nat, k \in S PROVE k + 1 \in S
  <2>1. PICK g : Grows(g, i, k)
    BY <1>2
  <2> DEFINE h == [n \in 0 .. k + 1 |-> IF n = k + 1 THEN Grown(g[k]) ELSE g[n]]
  <2>2. ASSUME NEW n \in 0 .. k + 1
        PROVE  h[n] = IF n = 0 THEN {i} ELSE Grown(h[n - 1])
    <3>1. CASE n = k + 1
      BY <3>1
    <3>2. CASE n # k + 1
      <4>1. n \in 0 .. k /\ h[n] = g[n]
        BY <3>2
      <4>2. n # 0 => n - 1 \in 0 .. k + 1 /\ h[n - 1] = g[n - 1]
        BY <4>1
      <4>3. g[n] = IF n = 0 THEN {i} ELSE Grown(g[n - 1])
        BY <2>1, <4>1 DEF Grows
      <4> QED
        BY <4>1, <4>2, <4>3
    <3> QED
      BY <3>1, <3>2
  <2> HIDE DEF h
  <2>3. Grows(h, i, k + 1)
    BY <2>2 DEF h, Grows
  <2> QED
    BY <2>3
<1> HIDE DEF S
<1>3. Nat \subseteq S
  BY <1>1, <1>2, NatInSet
<1> QED
  BY <1>3 DEF S

(* From any request of a class all of the class is reached, in no more     *)
(* steps than there are requests: each adds a request or is the last.      *)
LEMMA ClassIs ==
  ASSUME Numbered(round), NEW M, OneClass(M), NEW i \in M
  PROVE  Class(i) = M
<1> DEFINE L == Len(round)
           g == CHOOSE g : Grows(g, i, L)
<1>1. L \in Nat /\ DOMAIN round = 1 .. L
  BY DEF Numbered
<1>2. Class(i) = g[L]
  BY DEF Class, Grows, Grown
<1>3. Grows(g, i, L)
  BY <1>1, GrowsExists
<1> HIDE DEF L, g
<1>4. /\ g[0] = {i}
      /\ \A n \in Nat : n + 1 <= L => g[n + 1] = Grown(g[n])
  <2>1. \A n \in 0 .. L : g[n] = IF n = 0 THEN {i} ELSE Grown(g[n - 1])
    BY <1>3 DEF Grows
  <2>2. 0 \in 0 .. L
    BY <1>1
  <2>3. ASSUME NEW n \in Nat, n + 1 <= L PROVE g[n + 1] = Grown(g[n])
    <3>1. n + 1 \in 0 .. L /\ n + 1 # 0 /\ (n + 1) - 1 = n
      BY <1>1, <2>3
    <3> QED
      BY <2>1, <3>1
  <2> QED
    BY <2>1, <2>2, <2>3
<1>5. /\ M \subseteq DOMAIN round /\ Closed(M)
      /\ \A C \in SUBSET DOMAIN round : Closed(C) /\ C \cap M # {} => M \subseteq C
  BY DEF OneClass
<1>6. IsFiniteSet(M) /\ Cardinality(M) <= L
  <2>1. IsFiniteSet(1 .. L) /\ Cardinality(1 .. L) = L
    BY <1>1, FS_Interval
  <2> QED
    BY <1>1, <1>5, <2>1, FS_Subset
<1> DEFINE Reached(n) == /\ g[n] \subseteq M /\ i \in g[n]
                         /\ Closed(g[n]) \/ Cardinality(g[n]) >= n + 1
           S == {n \in Nat : n <= L => Reached(n)}
<1>7. 0 \in S
  <2>1. Cardinality({i}) = 1
    BY FS_Singleton
  <2> QED
    BY <1>4, <2>1
<1>8. ASSUME NEW n \in Nat, n \in S PROVE n + 1 \in S
  <2> SUFFICES ASSUME n + 1 <= L PROVE Reached(n + 1)
    OBVIOUS
  <2>1. Reached(n) /\ g[n + 1] = Grown(g[n])
    BY <1>1, <1>4, <1>8
  <2>2. g[n] \subseteq g[n + 1] /\ g[n + 1] \subseteq M /\ i \in g[n + 1]
    BY <1>5, <2>1 DEF Grown, Closed
  <2>3. CASE Closed(g[n])
    <3>1. g[n + 1] = g[n]
      BY <2>1, <2>3 DEF Grown, Closed
    <3> QED
      BY <2>2, <2>3, <3>1
  <2>4. CASE ~ Closed(g[n])
    <3>1. PICK k \in g[n], j \in DOMAIN round : Mergeable(k, j) /\ j \notin g[n]
      BY <2>4 DEF Closed
    <3>2. g[n] \cup {j} \subseteq g[n + 1]
      BY <2>1, <3>1 DEF Grown
    <3>3. IsFiniteSet(g[n]) /\ IsFiniteSet(g[n + 1])
      BY <1>6, <2>1, <2>2, FS_Subset
    <3>4. Cardinality(g[n] \cup {j}) = Cardinality(g[n]) + 1
      BY <3>1, <3>3, FS_AddElement
    <3>5. Cardinality(g[n] \cup {j}) <= Cardinality(g[n + 1])
      BY <3>2, <3>3, FS_Subset
    <3>6. Cardinality(g[n]) \in Nat /\ Cardinality(g[n + 1]) \in Nat
      BY <3>3, FS_CardinalityType
    <3>7. Cardinality(g[n]) >= n + 1
      BY <2>1, <2>4
    <3>8. Cardinality(g[n + 1]) >= (n + 1) + 1
      BY <3>4, <3>5, <3>6, <3>7
    <3> QED
      BY <2>2, <3>8
  <2> QED
    BY <2>3, <2>4
<1> HIDE DEF S
<1>9. Nat \subseteq S
  BY <1>7, <1>8, NatInSet
<1>10. Reached(L)
  BY <1>1, <1>9 DEF S
<1>11. Closed(g[L])
  <2>1. IsFiniteSet(g[L]) /\ Cardinality(g[L]) <= Cardinality(M)
    BY <1>6, <1>10, FS_Subset
  <2>2. Cardinality(g[L]) \in Nat /\ Cardinality(M) \in Nat
    BY <1>6, <2>1, FS_CardinalityType
  <2>3. Cardinality(g[L]) >= L + 1 => FALSE
    BY <1>1, <1>6, <2>1, <2>2
  <2> QED
    BY <1>10, <2>3
<1>12. M \subseteq g[L]
  <2>1. g[L] \in SUBSET DOMAIN round /\ g[L] \cap M # {}
    BY <1>5, <1>10
  <2> QED
    BY <1>5, <1>11, <2>1
<1> QED
  BY <1>2, <1>10, <1>12

(* A channel's payloads before the next one: a number.                     *)
LEMMA AllocatedNat ==
  ASSUME pending \in Seq(Item), NEW ch
  PROVE  Allocated(ch) \in Nat
<1> DEFINE Taken(n) == IF pending[n].channel = ch THEN pending[n].req.len ELSE 0
           Fits(g, m) == g = [n \in 0 .. m |-> IF n = 0 THEN 0 ELSE g[n - 1] + Taken(n)]
           L == Len(pending)
           S == {k \in Nat : k <= L => \E g : Fits(g, k) /\ g[k] \in Nat}
<1>1. L \in Nat
  OBVIOUS
<1>2. 0 \in S
  <2> DEFINE z == [n \in 0 .. 0 |-> 0]
  <2>1. Fits(z, 0)
    OBVIOUS
  <2>2. z[0] \in Nat
    OBVIOUS
  <2> HIDE DEF z, Fits
  <2> QED
    BY <2>1, <2>2
<1>3. \A n \in 1 .. L : Taken(n) \in Nat
  <2> SUFFICES ASSUME NEW n \in 1 .. L PROVE Taken(n) \in Nat
    OBVIOUS
  <2>1. pending[n] \in Item
    OBVIOUS
  <2>2. pending[n].req.len \in Nat
    BY <2>1, RequestTyped
  <2> QED
    BY <2>2
<1>4. ASSUME NEW k \in Nat, k \in S PROVE k + 1 \in S
  <2> SUFFICES ASSUME k + 1 <= L PROVE \E g : Fits(g, k + 1) /\ g[k + 1] \in Nat
    OBVIOUS
  <2> HIDE DEF Taken
  <2>1. PICK g : Fits(g, k) /\ g[k] \in Nat
    BY <1>1, <1>4
  <2> DEFINE h == [n \in 0 .. k + 1 |-> IF n = k + 1 THEN g[k] + Taken(k + 1) ELSE g[n]]
  <2>2. ASSUME NEW n \in 0 .. k + 1
        PROVE  h[n] = IF n = 0 THEN 0 ELSE h[n - 1] + Taken(n)
    <3>1. CASE n = k + 1
      BY <3>1
    <3>2. CASE n # k + 1
      <4>1. n \in 0 .. k /\ h[n] = g[n]
        BY <3>2
      <4>2. n # 0 => n - 1 \in 0 .. k + 1 /\ h[n - 1] = g[n - 1]
        BY <4>1
      <4>3. g[n] = IF n = 0 THEN 0 ELSE g[n - 1] + Taken(n)
        BY <2>1, <4>1
      <4> QED
        BY <4>1, <4>2, <4>3
    <3> QED
      BY <3>1, <3>2
  <2>3. h[k + 1] \in Nat
    BY <1>1, <1>3, <2>1
  <2> HIDE DEF h
  <2>4. Fits(h, k + 1)
    BY <2>2 DEF h
  <2> QED
    BY <2>3, <2>4
<1>5. Allocated(ch) = (CHOOSE g : Fits(g, L))[L]
  BY DEF Allocated
<1> HIDE DEF S, Taken
<1>6. Nat \subseteq S
  BY <1>2, <1>4, NatInSet
<1> HIDE DEF L
<1>7. PICK g : Fits(g, L) /\ g[L] \in Nat
  <2> HIDE DEF Fits
  <2>1. L \in S
    BY <1>1, <1>6
  <2> QED
    BY <1>1, <2>1 DEF S
<1> DEFINE c == CHOOSE x : Fits(x, L)
<1>8. Fits(c, L)
  BY <1>7
<1> HIDE DEF c
<1> DEFINE T == {n \in Nat : n <= L => c[n] = g[n]}
<1>9. 0 \in T
  BY <1>1, <1>7, <1>8
<1>10. ASSUME NEW n \in Nat, n \in T PROVE n + 1 \in T
  <2> SUFFICES ASSUME n + 1 <= L PROVE c[n + 1] = g[n + 1]
    OBVIOUS
  <2>1. c[n] = g[n] /\ n + 1 \in 0 .. L /\ (n + 1) - 1 = n /\ n + 1 # 0
    BY <1>1, <1>10
  <2>2. c[n + 1] = c[n] + Taken(n + 1) /\ g[n + 1] = g[n] + Taken(n + 1)
    BY <1>7, <1>8, <2>1
  <2> QED
    BY <2>1, <2>2
<1> HIDE DEF T
<1>11. Nat \subseteq T
  BY <1>9, <1>10, NatInSet
<1> QED
  BY <1>1, <1>5, <1>7, <1>11 DEF T, c

-----------------------------------------------------------------------------
(* The specification.                                                      *)

\* The operations are what the stage made of the round, or both are gone.
Inv ==
  /\ Numbered(pending) /\ Numbered(round)
  /\ (round = <<>> /\ ops = <<>>) \/ ops = BatchedDrain(round)

(* One request more.                                                       *)
LEMMA NumberedAppend ==
  ASSUME NEW s, Numbered(s), Len(s) < MaxPending, NEW t \in Item,
         t.req.id = Len(s) + 1
  PROVE  Numbered(Append(s, t))
<1> DEFINE a == Append(s, t)
<1>1. /\ a \in Seq(Item) /\ Len(a) = Len(s) + 1 /\ DOMAIN a = 1 .. Len(s) + 1
      /\ Len(s) \in Nat /\ DOMAIN s = 1 .. Len(s)
  BY DEF Numbered
<1>2. a[Len(s) + 1] = t /\ \A i \in 1 .. Len(s) : a[i] = s[i]
  BY DEF Numbered
<1> HIDE DEF a
<1>3. ASSUME NEW i \in DOMAIN a PROVE a[i].req.id = i
  <2>1. CASE i = Len(s) + 1
    BY <1>2, <2>1
  <2>2. CASE i # Len(s) + 1
    <3>1. i \in DOMAIN s /\ a[i] = s[i]
      BY <1>1, <1>2, <2>2
    <3> QED
      BY <3>1 DEF Numbered
  <2> QED
    BY <2>1, <2>2
<1>4. Len(a) <= MaxPending
  BY <1>1, BatchAssumption
<1> QED
  BY <1>1, <1>3, <1>4 DEF a, Numbered

(* Nothing at first.                                                       *)
LEMMA InvInit == Init => Inv
<1> SUFFICES ASSUME Init PROVE Inv
  OBVIOUS
<1>1. Numbered(<<>>)
  BY BatchAssumption DEF Numbered
<1> QED
  BY <1>1 DEF Init, Inv

(* What a client may ask for has the types of the wire.                    *)
LEMMA AddKeeps ==
  ASSUME Inv, NEW ch \in Channels, NEW fd \in Fds, NEW op \in Ops,
         NEW priority \in Priorities(op), NEW offset \in Nat, NEW len \in Nat,
         Add(ch, op, priority, fd, offset, len)
  PROVE  Inv'
<1> DEFINE r == Request(Len(pending) + 1, op, priority, fd, offset, len, Allocated(ch))
           t == Tagged(r, ch)
<1>1. Numbered(pending) /\ Len(pending) \in Nat
  BY DEF Inv, Numbered
<1>2. priority \in Queues
  <2>1. Priorities(op) \in {{"Critical"}, {"Low"}, {"High", "Low"}}
    BY Zenon DEF Priorities
  <2> QED
    BY <2>1 DEF Queues
<1>3. Allocated(ch) \in Nat
  BY <1>1, AllocatedNat DEF Numbered
<1>4. r \in RequestOf /\ r.id = Len(pending) + 1
  BY <1>1, <1>2, <1>3, BatchAssumption DEF Request, RequestOf
<1> HIDE DEF r
<1>5. t \in Item /\ t.req.id = Len(pending) + 1
  BY <1>4, BatchAssumption DEF Tagged, Item
<1>6. Len(pending) < MaxPending /\ pending' = Append(pending, t) /\ round' = <<>> /\ ops' = <<>>
  BY DEF Add, r
<1> HIDE DEF t
<1>7. Numbered(pending')
  BY <1>1, <1>5, <1>6, NumberedAppend
<1>8. Numbered(<<>>)
  BY BatchAssumption DEF Numbered
<1> QED
  BY <1>6, <1>7, <1>8 DEF Inv

(* Every step.                                                             *)
LEMMA InvNext == Inv /\ [Next]_vars => Inv'
<1> SUFFICES ASSUME Inv, [Next]_vars PROVE Inv'
  OBVIOUS
<1>1. CASE AddAny
  <2>1. PICK ch \in Channels, fd \in Fds, op \in Ops :
          \E priority \in Priorities(op) :
            IF op \in {"Read", "Write"}
            THEN \E offset \in Offsets, len \in Lens :
                   Add(ch, op, priority, fd, offset, len)
            ELSE Add(ch, op, priority, fd, 0, 0)
    BY <1>1 DEF AddAny
  <2>2. PICK priority \in Priorities(op) :
          IF op \in {"Read", "Write"}
          THEN \E offset \in Offsets, len \in Lens :
                 Add(ch, op, priority, fd, offset, len)
          ELSE Add(ch, op, priority, fd, 0, 0)
    BY <2>1
  <2>3. PICK offset \in Nat, len \in Nat : Add(ch, op, priority, fd, offset, len)
    BY <2>2, BatchAssumption
  <2> QED
    BY <2>3, AddKeeps
<1>2. CASE Drain
  <2>1. Numbered(<<>>)
    BY BatchAssumption DEF Numbered
  <2> QED
    BY <1>2, <2>1 DEF Drain, Inv
<1>3. CASE UNCHANGED vars
  BY <1>3 DEF vars, Inv
<1> QED
  BY <1>1, <1>2, <1>3 DEF Next

(* The operations hand out the round.                                      *)
LEMMA OpsDeal ==
  ASSUME Inv
  PROVE  Numbered(round) /\ Deals(ops, DOMAIN round) /\ Prioritized(ops)
<1>1. CASE round = <<>> /\ ops = <<>>
  BY <1>1 DEF Inv, Deals, Prioritized
<1>2. CASE ops = BatchedDrain(round)
  BY <1>2, BatchedDeals DEF Inv
<1> QED
  BY <1>1, <1>2 DEF Inv

(* The sources of all operations.                                          *)
LEMMA SourcesAre ==
  ASSUME Inv
  PROVE  /\ ops \in Seq(Operation)
         /\ \A n \in 1 .. Len(ops) : /\ Faithful(ops[n]) /\ Len(ops[n].sources) \in Nat
                                     /\ DOMAIN ops[n].sources = 1 .. Len(ops[n].sources)
         /\ \A ik : ik \in Sources <=>
              \E n \in 1 .. Len(ops) : \E k \in 1 .. Len(ops[n].sources) : ik = <<n, k>>
<1>1. ops \in Seq(Operation) /\ DOMAIN ops = 1 .. Len(ops)
  BY OpsDeal DEF Deals
<1>2. ASSUME NEW n \in 1 .. Len(ops)
      PROVE  /\ Faithful(ops[n]) /\ Len(ops[n].sources) \in Nat
             /\ DOMAIN ops[n].sources = 1 .. Len(ops[n].sources)
             /\ Len(ops[n].sources) <= MaxPending
  <2>1. Faithful(ops[n]) /\ ops[n] \in Operation
    BY OpsDeal DEF Deals, Faithful
  <2>2. ops[n].sources \in Seq(SourceOf)
    BY <2>1 DEF Operation
  <2>3. Len(ops[n].sources) <= Len(round) /\ Len(round) <= MaxPending /\ Len(round) \in Nat
    BY <2>1, OpsDeal DEF Faithful, Numbered
  <2> QED
    BY <2>1, <2>2, <2>3, BatchAssumption
<1>3. ASSUME NEW n \in 1 .. Len(ops), NEW k
      PROVE  (k \in 1 .. MaxPending /\ k \in DOMAIN ops[n].sources)
               <=> k \in 1 .. Len(ops[n].sources)
  BY <1>2, BatchAssumption
<1>4. ASSUME NEW ik
      PROVE  ik \in Sources <=>
               \E n \in 1 .. Len(ops) : \E k \in 1 .. Len(ops[n].sources) : ik = <<n, k>>
  <2>1. ik \in Sources <=> \E n \in 1 .. Len(ops), k \in 1 .. MaxPending :
                             ik = <<n, k>> /\ k \in DOMAIN ops[n].sources
    BY <1>1 DEF Sources, AllSources
  <2> QED
    BY <1>3, <2>1
<1> QED
  BY <1>1, <1>2, <1>4

(* Theorems.                                                               *)

(* However many requests are pending and whoever sent them, the operations *)
(* the stage makes of them answer each requester once.                     *)
LEMMA InvFanOut == Inv => FanOut
<1> SUFFICES ASSUME Inv PROVE FanOut
  OBVIOUS
<1>1. /\ \A i \in DOMAIN round : \E n \in 1 .. Len(ops) : i \in Ids(ops[n])
      /\ \A n, q \in 1 .. Len(ops) :
           \A j \in 1 .. Len(ops[n].sources), k \in 1 .. Len(ops[q].sources) :
             ops[n].sources[j].id = ops[q].sources[k].id => n = q /\ j = k
  BY OpsDeal DEF Deals
<1>2. \A n \in 1 .. Len(ops) : \A k : Source(<<n, k>>) = ops[n].sources[k]
  BY DEF Source
<1>3. ASSUME NEW i \in DOMAIN round
      PROVE  Cardinality({ik \in Sources : Source(ik).id = i}) = 1
  <2>1. PICK n \in 1 .. Len(ops) : i \in Ids(ops[n])
    BY <1>1
  <2>2. PICK k \in 1 .. Len(ops[n].sources) : ops[n].sources[k].id = i
    BY <2>1, SourcesAre DEF Ids
  <2>3. <<n, k>> \in Sources /\ Source(<<n, k>>).id = i
    BY <1>2, <2>2, SourcesAre
  <2>4. ASSUME NEW ik \in Sources, Source(ik).id = i PROVE ik = <<n, k>>
    <3>0. PICK q \in 1 .. Len(ops) : \E j \in 1 .. Len(ops[q].sources) : ik = <<q, j>>
      BY SourcesAre
    <3>1. PICK j \in 1 .. Len(ops[q].sources) : ik = <<q, j>>
      BY <3>0
    <3>2. ops[q].sources[j].id = ops[n].sources[k].id
      BY <1>2, <2>2, <2>4, <3>1
    <3>3. q = n /\ j = k
      BY <1>1, <3>2
    <3> QED
      BY <3>1, <3>3
  <2>5. {ik \in Sources : Source(ik).id = i} = {<<n, k>>}
    BY <2>3, <2>4
  <2> QED
    BY <2>5, FS_Singleton
<1>4. ASSUME NEW ik \in Sources
      PROVE  /\ ops[ik[1]].channel = Origin(Source(ik)).channel
             /\ ops[ik[1]].req.op = Origin(Source(ik)).req.op
             /\ ops[ik[1]].req.fd = Origin(Source(ik)).req.fd
  <2>0. PICK n \in 1 .. Len(ops) : \E k \in 1 .. Len(ops[n].sources) : ik = <<n, k>>
    BY SourcesAre
  <2>1. PICK k \in 1 .. Len(ops[n].sources) : ik = <<n, k>>
    BY <2>0
  <2>2. Places(ops[n], ops[n].sources[k])
    BY SourcesAre DEF Faithful
  <2> QED
    BY <1>2, <2>1, <2>2 DEF Places, Origin
<1> QED
  BY <1>3, <1>4 DEF FanOut

(* Each of them with its own slice.                                        *)
LEMMA InvSlices == Inv => Slices
<1> SUFFICES ASSUME Inv, NEW ik \in Sources, Origin(Source(ik)).req.op \in Transfers
             PROVE  /\ ops[ik[1]].req.offset + Source(ik).within
                         = Origin(Source(ik)).req.offset
                    /\ Source(ik).len = Origin(Source(ik)).req.len
                    /\ Source(ik).within + Source(ik).len <= ops[ik[1]].req.len
  BY DEF Slices, Transfers
<1>0. PICK n \in 1 .. Len(ops) : \E k \in 1 .. Len(ops[n].sources) : ik = <<n, k>>
  BY SourcesAre
<1>1. PICK k \in 1 .. Len(ops[n].sources) : ik = <<n, k>>
  BY <1>0
<1>2. Places(ops[n], ops[n].sources[k])
  BY SourcesAre DEF Faithful
<1>3. ik[1] = n /\ Source(ik) = ops[n].sources[k]
  BY <1>1 DEF Source
<1> QED
  BY <1>2, <1>3 DEF Places, Origin

(* What is merged is a class of the requests that touch.                   *)
LEMMA InvMergesClasses == Inv => MergesClasses
<1> SUFFICES ASSUME Inv, NEW n \in 1 .. Len(ops)
             PROVE  /\ \A i \in Ids(ops[n]) : Ids(ops[n]) = Class(i)
                    /\ Units(ops[n].req) = UNION {Units(round[i].req) : i \in Ids(ops[n])}
  <2>1. MergesClasses <=> \A n \in DOMAIN ops :
          /\ \A i \in Ids(ops[n]) : Ids(ops[n]) = Class(i)
          /\ Units(ops[n].req) = UNION {Units(round[i].req) : i \in Ids(ops[n])}
    BY Zenon DEF MergesClasses, Ids
  <2>2. Inv => DOMAIN ops = 1 .. Len(ops)
    BY SourcesAre
  <2> QED
    BY <2>1, <2>2, Zenon
<1>1. /\ OneClass(Ids(ops[n]))
      /\ Units(ops[n].req) = UNION {Units(round[i].req) : i \in Ids(ops[n])}
  BY SourcesAre DEF Faithful
<1>2. \A i \in Ids(ops[n]) : Class(i) = Ids(ops[n])
  BY <1>1, OpsDeal, ClassIs
<1> QED
  BY <1>1, <1>2

(* By priority, and what is not merged as it came.                         *)
LEMMA InvPriorityOrder == Inv => PriorityOrder
<1> SUFFICES ASSUME Inv PROVE PriorityOrder
  OBVIOUS
<1>1. Prioritized(ops) /\ DOMAIN ops = 1 .. Len(ops)
  BY OpsDeal, SourcesAre
<1>2. \A a, b : {a, b} \cap {"Read", "Write"} = {} => a \notin Transfers /\ b \notin Transfers
  BY DEF Transfers
<1> QED
  BY <1>1, <1>2 DEF PriorityOrder, Prioritized

(* The bytes that are stored are those of the requests, if their payloads  *)
(* lie as their ranges do.                                                 *)
LEMMA InvStreamedPayload == Inv => StreamedPayload
<1> SUFFICES ASSUME Inv, NEW n \in 1 .. Len(ops),
                    \A i, j \in Ids(ops[n]) :
                      round[i].req.data_offset - round[i].req.offset
                        = round[j].req.data_offset - round[j].req.offset,
                    NEW i \in Ids(ops[n])
             PROVE  ops[n].req.data_offset + (round[i].req.offset - ops[n].req.offset)
                      = round[i].req.data_offset
  <2>1. StreamedPayload <=> \A n \in DOMAIN ops :
          (/\ ops[n].req.op = "Write"
           /\ \A i, j \in Ids(ops[n]) :
                round[i].req.data_offset - round[i].req.offset
                  = round[j].req.data_offset - round[j].req.offset)
          => \A i \in Ids(ops[n]) :
               ops[n].req.data_offset + (round[i].req.offset - ops[n].req.offset)
                 = round[i].req.data_offset
    BY Zenon DEF StreamedPayload, Ids
  <2>2. Inv => DOMAIN ops = 1 .. Len(ops)
    BY SourcesAre
  <2> QED
    BY <2>1, <2>2, Zenon
<1> DEFINE j == ops[n].sources[1].id
<1>1. Leads(ops[n], j) /\ OneClass(Ids(ops[n]))
  BY SourcesAre DEF Faithful
<1> HIDE DEF j
<1>2. i \in DOMAIN round /\ j \in DOMAIN round /\ j \in Ids(ops[n])
  BY <1>1 DEF Leads, OneClass
<1>3. round[i] \in Item /\ round[j] \in Item
  BY <1>2, OpsDeal DEF Numbered
<1>4. /\ round[i].req.data_offset \in Nat /\ round[i].req.offset \in Nat
      /\ round[j].req.data_offset \in Nat /\ round[j].req.offset \in Nat
  BY <1>3, RequestTyped
<1>5. round[i].req.data_offset - round[i].req.offset
        = round[j].req.data_offset - round[j].req.offset
  BY <1>2
<1>6. ops[n].req.offset = round[j].req.offset /\ ops[n].req.data_offset = round[j].req.data_offset
  BY <1>1 DEF Leads
<1> QED
  <2> DEFINE a == round[i].req.data_offset
             b == round[i].req.offset
             c == round[j].req.data_offset
             d == round[j].req.offset
  <2>1. a \in Nat /\ b \in Nat /\ c \in Nat /\ d \in Nat /\ a - b = c - d
    BY <1>4, <1>5
  <2>2. ops[n].req.data_offset = c /\ ops[n].req.offset = d
    BY <1>6
  <2> HIDE DEF a, b, c, d
  <2>3. c + (b - d) = a
    BY <2>1
  <2>4. ops[n].req.data_offset + (b - ops[n].req.offset) = a
    BY <2>2, <2>3
  <2> QED
    BY <2>4 DEF a, b

(* The inductive invariant.                                                *)
THEOREM BatchInvariance == Spec => []Inv
BY InvInit, InvNext, PTL DEF Spec

(* Every request of a round, whatever it was drained with, is a source of  *)
(* exactly one operation of its kind, channel and fd.                      *)
THEOREM AnswersEachOnce == Spec => []FanOut
BY BatchInvariance, InvFanOut, PTL

(* The slice of a merged operation that a requester gets is the range it   *)
(* asked for.                                                              *)
THEOREM SlicesFit == Spec => []Slices
BY BatchInvariance, InvSlices, PTL

(* One pass over the sorted requests finds the transitive closure of       *)
(* "adjacent or overlapping", and the merged range is the union.           *)
THEOREM MergesExactly == Spec => []MergesClasses
BY BatchInvariance, InvMergesClasses, PTL

(* Critical before High before Low, first come first within a priority.    *)
THEOREM InPriorityOrder == Spec => []PriorityOrder
BY BatchInvariance, InvPriorityOrder, PTL

(* Merged writes store the bytes of each of their requests where these     *)
(* were allocated in the order of the file.                                *)
THEOREM StoresStreams == Spec => []StreamedPayload
BY BatchInvariance, InvStreamedPayload, PTL
=============================================================================
