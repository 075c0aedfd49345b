------------------------ MODULE UringExecutorProofs ------------------------
(***************************************************************************)
(* Until a kernel call fails, IoUringExecutor gives every operation its    *)
(* own result, leaves nothing behind and keeps the promise of fsync, for   *)
(* every size of the queue, of the batches and every order of completion.  *)
(***************************************************************************)
EXTENDS UringExecutor, FiniteSetTheorems, SequenceTheorems, TLAPS

Op == [id : Nat, kind : Single \cup Batched]
SqEntry == [tag : Nat, op : Op]
CqEntry == [tag : Nat, of : Nat, status : {"ok", "error"}]
Result == [of : Nat, status : {"ok", "error"}]

Types ==
  /\ mode \in {"idle", "single", "batch"} /\ at \in {"enter", "wait"}
  /\ ops \in Seq(Op) /\ base \in Nat
  /\ result \in [1 .. Len(ops) -> Result]
  /\ sq \in Seq(SqEntry) /\ cq \in Seq(CqEntry)
  /\ flight \subseteq SqEntry /\ IsFiniteSet(flight)
  /\ files \in [written : SUBSET Nat, durable : SUBSET Nat]

Chunk == base + 1 .. ChunkEnd(base, ops)

\* The user_data of operation i: a single call has 0.
TagOf(i) == IF mode = "single" THEN 0 ELSE i - 1
EntryOf(i) == [tag |-> TagOf(i), op |-> ops[i]]
Answers(k, i) == cq[k].tag = TagOf(i) /\ cq[k].of = ops[i].id

\* An operation answered with success has taken effect, an fsync after all
\* that was acknowledged.
Honest(i, status) ==
  status = "ok" =>
    /\ ops[i].kind = "Write" => ops[i].id \in files.written
    /\ ops[i].kind = "Fsync" => acked \subseteq files.durable

\* The operations of a call have ids of their own.
Numbered ==
  \A i, j \in 1 .. Len(ops) : ops[i].id > 0 /\ (ops[i].id = ops[j].id => i = j)

Idle ==
  mode = "idle" => at = "enter" /\ sq = <<>> /\ cq = <<>> /\ flight = {} /\ ResultsOwn

\* The chunks before this one have their results.
Called ==
  InCall =>
    /\ base < Len(ops)
    /\ mode = "single" => Len(ops) = 1 /\ base = 0
    /\ \A i \in 1 .. base : result[i].of = ops[i].id /\ Honest(i, result[i].status)
    /\ \A i \in base + 1 .. Len(ops) : result[i] = Zero

\* The chunk is in the submission queue, before the kernel is entered.
Pushed ==
  InCall /\ at = "enter" =>
    /\ flight = {} /\ cq = <<>>
    /\ Len(sq) = ChunkEnd(base, ops) - base
    /\ \A k \in 1 .. Len(sq) : sq[k] = EntryOf(base + k)

\* Each operation of the chunk is with the kernel or has one completion.
Submitted ==
  InCall /\ at = "wait" =>
    /\ sq = <<>>
    /\ Cardinality(flight) + Len(cq) = ChunkEnd(base, ops) - base
    /\ \A e \in flight : \E i \in Chunk : e = EntryOf(i)
    /\ \A e \in flight : \A k \in 1 .. Len(cq) : cq[k].tag # e.tag
    /\ \A k \in 1 .. Len(cq) : \E i \in Chunk : Answers(k, i) /\ Honest(i, cq[k].status)
    /\ \A k, l \in 1 .. Len(cq) : cq[k].tag = cq[l].tag => k = l
    /\ \A i \in Chunk : EntryOf(i) \in flight \/ \E k \in 1 .. Len(cq) : Answers(k, i)

Kept ==
  files.durable \subseteq files.written /\ acked \subseteq files.written
  /\ promised \subseteq files.durable

Sound == Types /\ Numbered /\ Idle /\ Called /\ Pushed /\ Submitted /\ Kept

UringInv == faults \in Nat /\ used \in Nat /\ (faults = 0 => Sound)
-----------------------------------------------------------------------------
(* A chunk is not empty, lies in the batch and fits the queue.             *)
LEMMA ChunkFits ==
  ASSUME NEW s, Len(s) \in Nat, NEW b \in Nat, b < Len(s)
  PROVE  /\ ChunkEnd(b, s) \in Nat
         /\ b < ChunkEnd(b, s) /\ ChunkEnd(b, s) <= Len(s)
         /\ ChunkEnd(b, s) - b <= Capacity
BY UringAssumption DEF ChunkEnd, Lesser

(* The entries of a chunk are its operations, tagged with their index.     *)
LEMMA EntriesOfChunk ==
  ASSUME NEW s \in Seq(Op), NEW b \in Nat, b < Len(s)
  PROVE  /\ Entries(b, s) \in Seq(SqEntry)
         /\ Len(Entries(b, s)) = ChunkEnd(b, s) - b
         /\ \A k \in 1 .. ChunkEnd(b, s) - b :
              Entries(b, s)[k] = [tag |-> b + k - 1, op |-> s[b + k]]
<1> DEFINE n == ChunkEnd(b, s) - b
<1>1. n \in Nat /\ b + n <= Len(s)
  BY ChunkFits
<1>2. \A k \in 1 .. n : b + k \in 1 .. Len(s)
  BY <1>1
<1>3. \A k \in 1 .. n : [tag |-> b + k - 1, op |-> s[b + k]] \in SqEntry
  BY <1>2 DEF SqEntry
<1>4. Entries(b, s) = [k \in 1 .. n |-> [tag |-> b + k - 1, op |-> s[b + k]]]
  BY DEF Entries, Tag
<1> QED
  BY <1>1, <1>3, <1>4

(* A chunk pushed to an empty queue is what the queue holds.               *)
LEMMA PushIntoEmpty ==
  ASSUME NEW s \in Seq(Op), NEW b \in Nat, b < Len(s), sq = <<>>, PushChunk(b, s)
  PROVE  mode' = "batch" /\ at' = "enter" /\ base' = b /\ sq' = Entries(b, s)
<1>1. Entries(b, s) \in Seq(SqEntry) /\ Len(Entries(b, s)) <= Capacity
  BY EntriesOfChunk, ChunkFits
<1>2. sq \o Entries(b, s) = Entries(b, s)
  BY <1>1, ConcatEmptySeq
<1>3. Len(sq) + Len(Entries(b, s)) <= Capacity
  BY <1>1
<1> QED
  BY <1>2, <1>3 DEF PushChunk

(* A sequence without repetition has as many elements as places.           *)
LEMMA DistinctCount ==
  ASSUME NEW S, NEW s \in Seq(S), \A k, l \in 1 .. Len(s) : s[k] = s[l] => k = l
  PROVE  LET E == {s[k] : k \in DOMAIN s}
         IN  IsFiniteSet(E) /\ Cardinality(E) = Len(s)
<1> DEFINE E == {s[k] : k \in DOMAIN s}
           n == Len(s)
<1>1. n \in Nat /\ DOMAIN s = 1 .. n
  OBVIOUS
<1>2. s \in [1 .. n -> E]
  BY <1>1
<1>3. s \in Bijection(1 .. n, E)
  BY <1>1, <1>2 DEF Bijection, Injection, Surjection, IsInjective
<1>4. ExistsBijection(1 .. n, E)
  BY <1>3 DEF ExistsBijection
<1> QED
  BY <1>1, <1>4, FS_CountingElements, FS_NatBijection
-----------------------------------------------------------------------------
(* The initial state.                                                      *)
LEMMA UringInit == Init => UringInv
<1> SUFFICES ASSUME Init PROVE UringInv
  OBVIOUS
<1>1. Types
  BY FS_EmptySet DEF Init, Types
<1> QED
  BY <1>1 DEF Init, UringInv, Sound, Numbered, Idle, Called, Pushed, Submitted, Kept, InCall,
              ResultsOwn
-----------------------------------------------------------------------------
(* A call is a sequence of operations with ids of their own.               *)
LEMMA CallShape ==
  ASSUME NEW first \in Nat \ {0}, NEW call,
         call \in BatchCalls(first) \cup SingleCalls(first)
  PROVE  /\ call \in Seq(Op) /\ Len(call) > 0
         /\ call \in SingleCalls(first) => Len(call) = 1
         /\ \A i, j \in 1 .. Len(call) :
              call[i].id > 0 /\ (call[i].id = call[j].id => i = j)
<1>1. CASE call \in BatchCalls(first)
  <2>0. PICK n \in 1 .. MaxBatch :
          call \in {[k \in 1 .. n |-> Operation(first + k - 1, kinds[k])] :
                      kinds \in [1 .. n -> Batched]}
    BY <1>1 DEF BatchCalls
  <2>1. PICK kinds \in [1 .. n -> Batched] :
          call = [k \in 1 .. n |-> Operation(first + k - 1, kinds[k])]
    BY <2>0
  <2>2. n \in Nat /\ n > 0
    BY UringAssumption
  <2>3. \A k \in 1 .. n : Operation(first + k - 1, kinds[k]) \in Op
    BY <2>2, <2>1 DEF Operation, Op
  <2>4. \A c \in SingleCalls(first) : Len(c) = 1
    BY DEF SingleCalls
  <2>5. call \in Seq(Op) /\ Len(call) = n
    BY <2>1, <2>2, <2>3
  <2>6. \A k \in 1 .. n : call[k].id = first + k - 1
    BY <2>1, <2>2 DEF Operation
  <2>7. \A i, j \in 1 .. n : call[i].id > 0 /\ (call[i].id = call[j].id => i = j)
    BY <2>2, <2>6
  <2> QED
    BY <2>2, <2>4, <2>5, <2>7
<1>2. CASE call \in SingleCalls(first)
  <2>1. PICK kind \in Single : call = <<Operation(first, kind)>>
    BY <1>2 DEF SingleCalls
  <2>2. Operation(first, kind) \in Op /\ Operation(first, kind).id = first
    BY DEF Operation, Op
  <2> QED
    BY <2>1, <2>2
<1> QED
  BY <1>1, <1>2

\* No operation of a call has a result before it.
LEMMA FreshResult ==
  ASSUME NEW call \in Seq(Op)
  PROVE  [i \in DOMAIN call |-> Zero] \in [1 .. Len(call) -> Result]
BY DEF Zero, Result

(* execute_batch is called.                                                *)
LEMMA CallBatchSound ==
  ASSUME UringInv, CallBatch
  PROVE  UringInv'
<1> SUFFICES ASSUME faults' = 0 PROVE Sound'
  <2>1. PICK call \in BatchCalls(used + 1) : used' = used + Len(call)
    BY DEF CallBatch
  <2>2. call \in Seq(Op)
    BY <2>1, CallShape DEF UringInv
  <2> QED
    BY <2>1, <2>2 DEF UringInv, CallBatch, errors
<1>1. Sound /\ used \in Nat
  BY DEF UringInv, CallBatch, errors
<1>2. PICK call \in BatchCalls(used + 1) :
        ops' = call /\ result' = [i \in DOMAIN call |-> Zero] /\ PushChunk(0, call)
  BY DEF CallBatch
<1>3. /\ call \in Seq(Op) /\ Len(call) > 0
      /\ \A i, j \in 1 .. Len(call) : call[i].id > 0 /\ (call[i].id = call[j].id => i = j)
  BY <1>1, <1>2, CallShape
<1>4. sq = <<>> /\ cq = <<>> /\ flight = {}
  BY <1>1 DEF Sound, Idle, CallBatch
<1>5. mode' = "batch" /\ at' = "enter" /\ base' = 0 /\ sq' = Entries(0, call)
  BY <1>2, <1>3, <1>4, PushIntoEmpty
<1>6. /\ Entries(0, call) \in Seq(SqEntry)
      /\ Len(Entries(0, call)) = ChunkEnd(0, call) - 0
      /\ \A k \in 1 .. ChunkEnd(0, call) - 0 :
           Entries(0, call)[k] = [tag |-> 0 + k - 1, op |-> call[0 + k]]
  BY <1>3, EntriesOfChunk
<1>7. UNCHANGED <<flight, cq, files, acked, promised>>
  BY DEF CallBatch, history
<1>8. Types'
  <2>1. result' \in [1 .. Len(call) -> Result]
    BY <1>2, <1>3, FreshResult
  <2> QED
    BY <1>1, <1>2, <1>3, <1>5, <1>6, <1>7, <2>1 DEF Sound, Types
<1>9. Numbered' /\ Idle' /\ Called' /\ Submitted' /\ Kept'
  BY <1>1, <1>2, <1>3, <1>5, <1>7
     DEF Sound, Numbered, Idle, Called, Submitted, Kept, InCall
<1>10. Pushed'
  BY <1>2, <1>4, <1>5, <1>6, <1>7 DEF Pushed, EntryOf, TagOf
<1> QED
  BY <1>8, <1>9, <1>10 DEF Sound

(* open or close is called.                                                *)
LEMMA CallSingleSound ==
  ASSUME UringInv, CallSingle
  PROVE  UringInv'
<1> SUFFICES ASSUME faults' = 0 PROVE Sound'
  BY DEF UringInv, CallSingle, errors
<1>1. Sound /\ used \in Nat
  BY DEF UringInv, CallSingle, errors
<1>2. PICK call \in SingleCalls(used + 1) :
        /\ ops' = call
        /\ sq' = IF Len(sq) < Capacity
                 THEN Append(sq, [tag |-> 0, op |-> call[1]]) ELSE sq
  BY DEF CallSingle
<1>3. /\ call \in Seq(Op) /\ Len(call) = 1
      /\ \A i, j \in 1 .. Len(call) : call[i].id > 0 /\ (call[i].id = call[j].id => i = j)
  BY <1>1, <1>2, CallShape
<1>4. sq = <<>> /\ cq = <<>> /\ flight = {}
  BY <1>1 DEF Sound, Idle, CallSingle
<1>5. sq' = <<[tag |-> 0, op |-> call[1]]>>
  BY <1>2, <1>4, UringAssumption
<1>6. /\ mode' = "single" /\ at' = "enter" /\ base' = 0 /\ result' = <<Zero>>
      /\ UNCHANGED <<flight, cq, files, acked, promised>>
  BY DEF CallSingle, history
<1>7. ChunkEnd(0, call) = 1
  BY <1>3, UringAssumption DEF ChunkEnd, Lesser
<1>8. Types'
  <2>0. call \in Seq(Op) /\ Len(call) = 1
    BY <1>3
  <2>1. call[1] \in Op
    BY <2>0, ElementOfSeq
  <2>2. sq' \in Seq(SqEntry)
    BY <1>5, <2>1 DEF SqEntry
  <2>3. result' \in [1 .. Len(call) -> Result]
    BY <1>3, <1>6 DEF Zero, Result
  <2> QED
    BY <1>1, <1>2, <1>3, <1>6, <2>2, <2>3 DEF Sound, Types
<1>9. Numbered' /\ Idle' /\ Called' /\ Submitted' /\ Kept'
  BY <1>1, <1>2, <1>3, <1>6
     DEF Sound, Numbered, Idle, Called, Submitted, Kept, InCall
<1>10. Pushed'
  BY <1>2, <1>4, <1>5, <1>6, <1>7 DEF Pushed, EntryOf, TagOf
<1> QED
  BY <1>8, <1>9, <1>10 DEF Sound
-----------------------------------------------------------------------------
(* The kernel takes the chunk.                                             *)
LEMMA EnterSound ==
  ASSUME UringInv, Enter
  PROVE  UringInv'
<1> SUFFICES ASSUME faults' = 0 PROVE Sound'
  BY DEF UringInv, Enter, errors
<1>1. Sound
  BY DEF UringInv, Enter, errors
<1>2. /\ flight = {} /\ cq = <<>>
      /\ Len(sq) = ChunkEnd(base, ops) - base
      /\ \A k \in 1 .. Len(sq) : sq[k] = EntryOf(base + k)
  BY <1>1 DEF Sound, Pushed, Enter
<1>3. InCall /\ base < Len(ops) /\ base \in Nat /\ ops \in Seq(Op) /\ sq \in Seq(SqEntry)
      /\ (mode = "single" => Len(ops) = 1 /\ base = 0)
  BY <1>1 DEF Sound, Called, Types, Enter
<1>4. ChunkEnd(base, ops) \in Nat /\ base < ChunkEnd(base, ops)
      /\ ChunkEnd(base, ops) <= Len(ops)
  BY <1>3, ChunkFits
<1> DEFINE E == {sq[k] : k \in DOMAIN sq}
<1>5. /\ flight' = E /\ sq' = <<>> /\ at' = "wait"
      /\ UNCHANGED <<mode, ops, result, base, cq, files, acked, promised>>
  BY <1>2 DEF Enter, history
<1>6. \A k, l \in 1 .. Len(sq) : sq[k] = sq[l] => k = l
  BY <1>2, <1>3, <1>4 DEF EntryOf, TagOf
<1>7. IsFiniteSet(E) /\ Cardinality(E) = Len(sq)
  BY <1>3, <1>6, DistinctCount
<1>8. E \subseteq SqEntry
  BY <1>3
<1>9. \A i \in Chunk : EntryOf(i) \in E
  <2> TAKE i \in Chunk
  <2>1. i - base \in 1 .. Len(sq) /\ base + (i - base) = i
    BY <1>2, <1>3, <1>4 DEF Chunk
  <2> QED
    BY <1>2, <1>3, <2>1
<1>10. \A e \in E : \E i \in Chunk : e = EntryOf(i)
  BY <1>2, <1>3, <1>4 DEF Chunk
<1>11. UNCHANGED Chunk /\ \A i : UNCHANGED EntryOf(i)
  BY <1>5 DEF Chunk, EntryOf, TagOf
<1>12. Types'
  BY <1>1, <1>5, <1>7, <1>8 DEF Sound, Types
<1>13. Numbered' /\ Idle' /\ Called' /\ Pushed' /\ Kept'
  BY <1>1, <1>3, <1>5 DEF Sound, Numbered, Idle, Called, Pushed, Kept, InCall, Honest
<1>14. Submitted'
  <2> HIDE DEF E
  <2>1. sq' = <<>> /\ Len(cq') = 0 /\ flight' = E
    BY <1>2, <1>5
  <2>2. Cardinality(flight') + Len(cq') = ChunkEnd(base', ops') - base'
    BY <1>2, <1>3, <1>4, <1>5, <1>7, <2>1
  <2>3. \A e \in flight' : \E i \in Chunk' : e = EntryOf(i)'
    BY <1>10, <1>11, <2>1
  <2>4. \A i \in Chunk' : EntryOf(i)' \in flight'
    BY <1>9, <1>11, <2>1
  <2> QED
    BY <2>1, <2>2, <2>3, <2>4 DEF Submitted
<1> QED
  BY <1>12, <1>13, <1>14 DEF Sound
-----------------------------------------------------------------------------
(* The kernel completes an operation.                                      *)

\* Nothing that was done is undone, and the operation is done.
LEMMA EffectGrows ==
  ASSUME NEW op \in Op, NEW f \in [written : SUBSET Nat, durable : SUBSET Nat],
         f.durable \subseteq f.written
  PROVE  LET g == Effect(op, f)
         IN  /\ g \in [written : SUBSET Nat, durable : SUBSET Nat]
             /\ f.written \subseteq g.written /\ f.durable \subseteq g.durable
             /\ g.durable \subseteq g.written
             /\ op.kind = "Write" => op.id \in g.written
             /\ op.kind = "Fsync" => g.durable = f.written
<1>1. CASE op.kind = "Write"
  <2>1. Effect(op, f) = [f EXCEPT !.written = f.written \cup {op.id}]
    BY <1>1 DEF Effect
  <2> QED
    BY <1>1, <2>1 DEF Op
<1>2. CASE op.kind = "Fsync"
  <2>1. Effect(op, f) = [f EXCEPT !.durable = f.written]
    BY <1>2 DEF Effect
  <2> QED
    BY <1>2, <2>1
<1>3. CASE op.kind # "Write" /\ op.kind # "Fsync"
  <2>1. Effect(op, f) = f
    BY <1>3 DEF Effect
  <2> QED
    BY <1>3, <2>1
<1> QED
  BY <1>1, <1>2, <1>3

(* An operation moves from the kernel to the completion queue.             *)
LEMMA CompleteSound ==
  ASSUME UringInv, NEW e \in flight, Complete(e)
  PROVE  UringInv'
<1> SUFFICES ASSUME faults' = 0 PROVE Sound'
  BY DEF UringInv, Complete, errors
<1>1. Sound
  BY DEF UringInv, Complete, errors
<1>2. InCall /\ at = "wait"
  BY <1>1 DEF Sound, Types, Idle, Pushed, InCall
<1>3. PICK status \in {"ok", "error"} :
        /\ cq' = Append(cq, [tag |-> e.tag, of |-> e.op.id, status |-> status])
        /\ files' = IF status = "ok" THEN Effect(e.op, files) ELSE files
  BY DEF Complete
<1>4. /\ flight' = flight \ {e}
      /\ UNCHANGED <<mode, at, ops, result, base, sq, acked, promised>>
  BY DEF Complete, callVars, history
<1>5. /\ sq = <<>>
      /\ Cardinality(flight) + Len(cq) = ChunkEnd(base, ops) - base
      /\ \A f \in flight : \E i \in Chunk : f = EntryOf(i)
      /\ \A f \in flight : \A k \in 1 .. Len(cq) : cq[k].tag # f.tag
      /\ \A k \in 1 .. Len(cq) : \E i \in Chunk : Answers(k, i) /\ Honest(i, cq[k].status)
      /\ \A k, l \in 1 .. Len(cq) : cq[k].tag = cq[l].tag => k = l
      /\ \A i \in Chunk : EntryOf(i) \in flight \/ \E k \in 1 .. Len(cq) : Answers(k, i)
  BY <1>1, <1>2 DEF Sound, Submitted
<1>6. /\ ops \in Seq(Op) /\ base \in Nat /\ base < Len(ops)
      /\ cq \in Seq(CqEntry) /\ flight \subseteq SqEntry /\ IsFiniteSet(flight)
      /\ mode = "single" => Len(ops) = 1 /\ base = 0
  BY <1>1, <1>2 DEF Sound, Types, Called
<1>7. ChunkEnd(base, ops) \in Nat /\ ChunkEnd(base, ops) <= Len(ops)
  BY <1>6, ChunkFits
<1>8. PICK j \in Chunk : e = EntryOf(j)
  BY <1>5
<1>9. j \in 1 .. Len(ops) /\ ops[j] \in Op /\ e.op = ops[j] /\ e.tag = TagOf(j)
  BY <1>6, <1>7, <1>8 DEF Chunk, EntryOf
<1> DEFINE c == [tag |-> e.tag, of |-> e.op.id, status |-> status]
<1>0. PICK n \in Nat : n = Len(cq)
  BY <1>6
<1>10. /\ cq' \in Seq(CqEntry) /\ Len(cq') = n + 1 /\ Len(cq) = n
       /\ \A k \in 1 .. n : cq'[k] = cq[k]
       /\ cq'[n + 1] = c
  <2>1. c \in CqEntry
    BY <1>6 DEF SqEntry, CqEntry, Op
  <2> QED
    BY <1>0, <1>3, <1>6, <2>1, AppendProperties
<1>11. /\ files' \in [written : SUBSET Nat, durable : SUBSET Nat]
       /\ files.written \subseteq files'.written /\ files.durable \subseteq files'.durable
       /\ files'.durable \subseteq files'.written
       /\ status = "ok" => /\ ops[j].kind = "Write" => ops[j].id \in files'.written
                           /\ ops[j].kind = "Fsync" => files'.durable = files.written
  <2>1. files \in [written : SUBSET Nat, durable : SUBSET Nat]
        /\ files.durable \subseteq files.written
    BY <1>1 DEF Sound, Types, Kept
  <2> QED
    BY <1>3, <1>9, <2>1, EffectGrows
<1>12. /\ acked \subseteq files.written /\ promised \subseteq files.durable
  BY <1>1 DEF Sound, Kept
<1>13. /\ Chunk' = Chunk /\ \A i : TagOf(i)' = TagOf(i) /\ EntryOf(i)' = EntryOf(i)
       /\ \A i, st : Honest(i, st) => Honest(i, st)'
  BY <1>4, <1>11 DEF Chunk, TagOf, EntryOf, Honest
<1>14. Types'
  <2>1. IsFiniteSet(flight')
    BY <1>4, <1>6, FS_RemoveElement
  <2>2. flight' \subseteq SqEntry
    BY <1>4, <1>6
  <2> QED
    BY <1>1, <1>4, <1>10, <1>11, <2>1, <2>2 DEF Sound, Types
<1>15. Numbered' /\ Idle' /\ Pushed' /\ Kept'
  BY <1>1, <1>2, <1>4, <1>11, <1>12 DEF Sound, Numbered, Idle, Pushed, Kept, InCall
<1>16. Called'
  BY <1>1, <1>4, <1>13 DEF Sound, Called, InCall
<1>17. Submitted'
  <2>1. Cardinality(flight') + Len(cq') = ChunkEnd(base, ops) - base
    <3>1. Cardinality(flight') = Cardinality(flight) - 1 /\ Cardinality(flight) \in Nat
      BY <1>4, <1>6, FS_RemoveElement, FS_CardinalityType
    <3> QED
      BY <1>5, <1>7, <1>6, <1>10, <3>1
  <2>2. \A f \in flight' : \A k \in 1 .. Len(cq') : cq'[k].tag # f.tag
    <3> TAKE f \in flight'
    <3> TAKE k \in 1 .. Len(cq')
    <3>1. f \in flight /\ f # e
      BY <1>4
    <3>2. PICK i \in Chunk : f = EntryOf(i)
      BY <1>5, <3>1
    <3>3. f.tag # e.tag
      <4>1. CASE mode = "single"
        <5>1. base = 0 /\ ChunkEnd(base, ops) <= 1
          BY <1>6, <1>7, <4>1
        <5>2. \A a, b \in Chunk : a = b
          BY <1>7, <5>1 DEF Chunk
        <5> QED
          BY <1>8, <3>1, <3>2, <5>2
      <4>2. CASE mode # "single"
        <5>1. PICK a : a = j
          OBVIOUS
        <5>2. a \in Nat /\ i \in Nat /\ i # a
          BY <1>6, <1>7, <1>8, <3>1, <3>2, <5>1 DEF Chunk
        <5>3. e.tag = a - 1 /\ f.tag = i - 1
          BY <1>8, <3>2, <4>2, <5>1 DEF EntryOf, TagOf
        <5> QED
          BY <5>2, <5>3
      <4> QED
        BY <4>1, <4>2
    <3>4. CASE k = n + 1
      BY <1>10, <3>3, <3>4
    <3>5. CASE k \in 1 .. n
      BY <1>5, <1>10, <3>1, <3>5
    <3> QED
      BY <1>10, <3>4, <3>5
  <2>3. \A k \in 1 .. Len(cq') : \E i \in Chunk : Answers(k, i)' /\ Honest(i, cq[k].status)'
    <3> TAKE k \in 1 .. Len(cq')
    <3>1. CASE k = n + 1
      <4>1. Answers(k, j)'
        BY <1>4, <1>9, <1>10, <1>13, <3>1 DEF Answers
      <4>2. Honest(j, status)'
        BY <1>4, <1>11, <1>12 DEF Honest
      <4> QED
        BY <1>10, <3>1, <4>1, <4>2
    <3>2. CASE k \in 1 .. n
      <4>1. PICK i \in Chunk : Answers(k, i) /\ Honest(i, cq[k].status)
        BY <1>0, <1>5, <3>2
      <4> QED
        BY <1>4, <1>10, <1>13, <3>2, <4>1 DEF Answers
    <3> QED
      BY <1>10, <3>1, <3>2
  <2>4. \A k, l \in 1 .. Len(cq') : cq'[k].tag = cq'[l].tag => k = l
    <3>1. \A k \in 1 .. n : cq[k].tag # e.tag
      BY <1>0, <1>5
    <3> QED
      BY <1>5, <1>10, <3>1
  <2>5. \A i \in Chunk : EntryOf(i) \in flight' \/ \E k \in 1 .. Len(cq') : Answers(k, i)'
    <3> TAKE i \in Chunk
    <3>1. CASE EntryOf(i) = e
      <4>1. Answers(n + 1, i)'
        BY <1>4, <1>10, <1>13, <3>1 DEF Answers, EntryOf
      <4> QED
        BY <1>10, <4>1
    <3>2. CASE EntryOf(i) # e /\ EntryOf(i) \in flight
      BY <1>4, <3>2
    <3>3. CASE EntryOf(i) \notin flight
      <4>1. PICK k \in 1 .. n : Answers(k, i)
        BY <1>0, <1>5, <3>3
      <4>2. Answers(k, i)'
        BY <1>4, <1>10, <1>13, <4>1 DEF Answers
      <4> QED
        BY <1>10, <4>2
    <3> QED
      BY <3>1, <3>2, <3>3
  <2>6. \A f \in flight' : \E i \in Chunk : f = EntryOf(i)
    BY <1>4, <1>5
  <2> QED
    BY <1>4, <1>5, <1>13, <2>1, <2>2, <2>3, <2>4, <2>5, <2>6 DEF Submitted
<1> QED
  BY <1>14, <1>15, <1>16, <1>17 DEF Sound
-----------------------------------------------------------------------------
(* The call takes the completions.                                         *)

(* When as many completions are there as the call waits for, they are one  *)
(* for each operation of the chunk.                                        *)
LEMMA ChunkAnswered ==
  ASSUME Sound, InCall, Woken
  PROVE  /\ at = "wait" /\ flight = {} /\ sq = <<>>
         /\ Len(cq) = ChunkEnd(base, ops) - base
         /\ \A i \in Chunk : \E k \in 1 .. Len(cq) :
              /\ Answers(k, i) /\ Honest(i, cq[k].status)
              /\ \A l \in 1 .. Len(cq) : cq[l].tag = TagOf(i) => l = k
<1>1. at = "wait" /\ Len(cq) >= Wanted
  BY DEF Sound, Types, Woken
<1>2. /\ sq = <<>>
      /\ Cardinality(flight) + Len(cq) = ChunkEnd(base, ops) - base
      /\ \A k \in 1 .. Len(cq) : \E i \in Chunk : Answers(k, i) /\ Honest(i, cq[k].status)
      /\ \A k, l \in 1 .. Len(cq) : cq[k].tag = cq[l].tag => k = l
      /\ \A i \in Chunk : EntryOf(i) \in flight \/ \E k \in 1 .. Len(cq) : Answers(k, i)
  BY <1>1 DEF Sound, Submitted
<1>3. /\ ops \in Seq(Op) /\ base \in Nat /\ base < Len(ops) /\ cq \in Seq(CqEntry)
      /\ IsFiniteSet(flight)
      /\ (mode = "single" => Len(ops) = 1 /\ base = 0)
  BY DEF Sound, Types, Called
<1>4. ChunkEnd(base, ops) \in Nat /\ base < ChunkEnd(base, ops)
      /\ ChunkEnd(base, ops) <= Len(ops)
  BY <1>3, ChunkFits
<1>5. mode = "single" => base = 0 /\ ChunkEnd(base, ops) = 1
  <2> SUFFICES ASSUME mode = "single" PROVE base = 0 /\ ChunkEnd(base, ops) = 1
    OBVIOUS
  <2>1. base = 0 /\ Len(ops) = 1
    BY <1>3
  <2> QED
    BY <2>1, UringAssumption DEF ChunkEnd, Lesser
<1>6. Wanted = ChunkEnd(base, ops) - base
  <2>1. CASE mode = "single"
    BY <1>5, <2>1 DEF Wanted
  <2>2. CASE mode # "single"
    BY <2>2 DEF Wanted
  <2> QED
    BY <2>1, <2>2
<1>7. Cardinality(flight) = 0 /\ Len(cq) = ChunkEnd(base, ops) - base
  <2>1. Cardinality(flight) \in Nat /\ Len(cq) \in Nat
    BY <1>3, FS_CardinalityType
  <2> QED
    BY <1>1, <1>2, <1>3, <1>4, <1>6, <2>1
<1>8. flight = {}
  BY <1>3, <1>7, FS_EmptySet
<1>9. \A i, j \in Chunk : TagOf(i) = TagOf(j) => i = j
  <2>1. CASE mode = "single"
    BY <1>5, <2>1 DEF Chunk
  <2>2. CASE mode # "single"
    BY <1>3, <1>4, <2>2 DEF TagOf, Chunk
  <2> QED
    BY <2>1, <2>2
<1>10. ASSUME NEW i \in Chunk
       PROVE  \E k \in 1 .. Len(cq) :
                /\ Answers(k, i) /\ Honest(i, cq[k].status)
                /\ \A l \in 1 .. Len(cq) : cq[l].tag = TagOf(i) => l = k
  <2>1. PICK k \in 1 .. Len(cq) : Answers(k, i)
    BY <1>2, <1>8
  <2>2. PICK j \in Chunk : Answers(k, j) /\ Honest(j, cq[k].status)
    BY <1>2
  <2>3. i = j
    BY <1>9, <2>1, <2>2 DEF Answers
  <2>4. \A l \in 1 .. Len(cq) : cq[l].tag = TagOf(i) => l = k
    BY <1>2, <2>1 DEF Answers
  <2> QED
    BY <2>1, <2>2, <2>3, <2>4
<1> QED
  BY <1>1, <1>2, <1>7, <1>8, <1>10

(* Answers that are honest keep the record of what was acknowledged true.  *)
LEMMA ReturnKept ==
  ASSUME NEW answers, Kept, Return(answers), UNCHANGED files,
         \A i \in DOMAIN ops : Honest(i, answers[i].status)
  PROVE  Kept'
<1>1. \A kind : \A id \in Succeeded(kind, answers) :
        \E i \in DOMAIN ops : ops[i].kind = kind /\ ops[i].id = id /\ answers[i].status = "ok"
  BY DEF Succeeded
<1>2. Succeeded("Write", answers) \subseteq files.written
  BY <1>1 DEF Honest
<1>3. Succeeded("Fsync", answers) # {} => acked \subseteq files.durable
  BY <1>1 DEF Honest
<1> QED
  BY <1>2, <1>3 DEF Kept, Return

(* A single call returns.                                                  *)
LEMMA TakeOneSound ==
  ASSUME UringInv, TakeOne
  PROVE  UringInv'
<1> SUFFICES ASSUME faults' = 0 PROVE Sound'
  BY DEF UringInv, TakeOne, errors
<1>1. Sound /\ InCall /\ Woken /\ mode = "single"
  BY DEF UringInv, TakeOne, InCall, errors
<1>2. /\ ops \in Seq(Op) /\ Len(ops) = 1 /\ base = 0 /\ cq \in Seq(CqEntry)
  BY <1>1 DEF Sound, Types, Called
<1>3. ChunkEnd(base, ops) = 1
  BY <1>2, UringAssumption DEF ChunkEnd, Lesser
<1>4. /\ flight = {} /\ sq = <<>> /\ Len(cq) = 1
      /\ Answers(1, 1) /\ Honest(1, cq[1].status)
  <2>1. flight = {} /\ sq = <<>> /\ Len(cq) = 1 /\ 1 \in Chunk
    BY <1>1, <1>2, <1>3, ChunkAnswered DEF Chunk
  <2>2. PICK k \in 1 .. Len(cq) : Answers(k, 1) /\ Honest(1, cq[k].status)
    BY <1>1, <2>1, ChunkAnswered
  <2> QED
    BY <2>1, <2>2
<1> DEFINE answers == <<[of |-> cq[1].of, status |-> cq[1].status]>>
<1>5. Head(cq) = cq[1] /\ Tail(cq) = <<>> /\ cq # <<>> /\ cq[1] \in CqEntry
  <2>0. cq # <<>> /\ cq[1] \in CqEntry
    BY <1>2, <1>4, ElementOfSeq
  <2>1. cq # <<>> /\ cq[1] \in CqEntry /\ Head(cq) = cq[1]
    BY <1>2, <2>0
  <2>2. Tail(cq) \in Seq(CqEntry) /\ Len(Tail(cq)) = 0
    BY <1>2, <1>4, <2>1, HeadTailProperties
  <2> QED
    BY <2>1, <2>2, EmptySeq
<1>6. Return(answers) /\ cq' = <<>>
      /\ UNCHANGED <<ops, sq, flight, used, faults, files>>
  BY <1>5 DEF TakeOne, errors
<1>7. \A i \in DOMAIN ops : Honest(i, answers[i].status)
  BY <1>2, <1>4
<1>8. Kept'
  BY <1>1, <1>6, <1>7, ReturnKept DEF Sound
<1>9. mode' = "idle" /\ at' = "enter" /\ base' = 0 /\ result' = answers
  BY <1>6 DEF Return
<1>10. Types'
  <2>1. answers \in [1 .. Len(ops) -> Result]
    BY <1>2, <1>5 DEF CqEntry, Result
  <2> HIDE DEF answers
  <2> QED
    BY <1>1, <1>6, <1>9, <2>1 DEF Sound, Types
<1>11. Idle'
  <2>1. answers[1].of = ops[1].id
    BY <1>4 DEF Answers
  <2>2. ResultsOwn'
    BY <1>2, <1>6, <1>9, <2>1 DEF ResultsOwn
  <2> QED
    BY <1>4, <1>6, <1>9, <2>2 DEF Idle
<1>12. Numbered'
  BY <1>1, <1>6 DEF Sound, Numbered
<1> QED
  BY <1>8, <1>9, <1>10, <1>11, <1>12 DEF Sound, Called, Pushed, Submitted, InCall

(* What a chunk leaves in the results, for it and the chunks before it.    *)
LEMMA ChunkReaped ==
  ASSUME Sound, mode = "batch", Woken
  PROVE  /\ Reaped \in [1 .. Len(ops) -> Result]
         /\ \A i \in 1 .. ChunkEnd(base, ops) :
              Reaped[i].of = ops[i].id /\ Honest(i, Reaped[i].status)
         /\ \A i \in ChunkEnd(base, ops) + 1 .. Len(ops) : Reaped[i] = Zero
<1>1. InCall
  BY DEF InCall
<1>2. /\ ops \in Seq(Op) /\ base \in Nat /\ base < Len(ops) /\ cq \in Seq(CqEntry)
      /\ result \in [1 .. Len(ops) -> Result]
      /\ \A i \in 1 .. base : result[i].of = ops[i].id /\ Honest(i, result[i].status)
      /\ \A i \in base + 1 .. Len(ops) : result[i] = Zero
  BY <1>1 DEF Sound, Types, Called
<1>3. ChunkEnd(base, ops) \in Nat /\ base < ChunkEnd(base, ops)
      /\ ChunkEnd(base, ops) <= Len(ops)
  BY <1>2, ChunkFits
<1>4. ASSUME NEW i \in Chunk
      PROVE  /\ Reaped[i] \in Result
             /\ Reaped[i].of = ops[i].id /\ Honest(i, Reaped[i].status)
  <2>1. PICK k \in 1 .. Len(cq) :
          /\ Answers(k, i) /\ Honest(i, cq[k].status)
          /\ \A l \in 1 .. Len(cq) : cq[l].tag = TagOf(i) => l = k
    BY <1>1, ChunkAnswered
  <2>2. TagOf(i) = i - 1
    BY DEF TagOf
  <2>3. Tagged(i) = {k}
    BY <1>2, <2>1, <2>2 DEF Tagged, Answers
  <2>4. LastOf({k}) = k
    BY DEF LastOf
  <2>5. i \in DOMAIN ops
    BY <1>2, <1>3 DEF Chunk
  <2>6. Reaped[i] = [of |-> cq[k].of, status |-> cq[k].status]
    BY <2>3, <2>4, <2>5 DEF Reaped, Chunk
  <2>7. cq[k] \in CqEntry
    BY <1>2, <2>1
  <2> QED
    BY <2>1, <2>6, <2>7 DEF Answers, CqEntry, Result
<1>5. ASSUME NEW i \in 1 .. Len(ops), i \notin Chunk
      PROVE  Reaped[i] = result[i]
  BY <1>2, <1>5 DEF Reaped, Chunk
<1>6. Reaped \in [1 .. Len(ops) -> Result]
  <2>1. DOMAIN Reaped = 1 .. Len(ops)
    BY <1>2 DEF Reaped
  <2>2. Reaped = [i \in DOMAIN Reaped |-> Reaped[i]]
    BY DEF Reaped
  <2>3. \A i \in 1 .. Len(ops) : Reaped[i] \in Result
    BY <1>2, <1>4, <1>5
  <2> QED
    BY <2>1, <2>2, <2>3
<1>7. ASSUME NEW i \in 1 .. ChunkEnd(base, ops)
      PROVE  Reaped[i].of = ops[i].id /\ Honest(i, Reaped[i].status)
  <2>1. CASE i \in Chunk
    BY <1>4, <2>1
  <2>2. CASE i \notin Chunk
    <3>1. i \in 1 .. base /\ i \in 1 .. Len(ops)
      BY <1>2, <1>3, <2>2 DEF Chunk
    <3> QED
      BY <1>2, <1>5, <2>2, <3>1
  <2> QED
    BY <2>1, <2>2
<1>8. ASSUME NEW i \in ChunkEnd(base, ops) + 1 .. Len(ops)
      PROVE  Reaped[i] = Zero
  <2>1. i \in 1 .. Len(ops) /\ i \notin Chunk /\ i \in base + 1 .. Len(ops)
    BY <1>2, <1>3 DEF Chunk
  <2> QED
    BY <1>2, <1>5, <2>1
<1> QED
  BY <1>6, <1>7, <1>8

(* A chunk is done: the call returns, or pushes the next one.              *)
LEMMA TakeAllSound ==
  ASSUME UringInv, TakeAll
  PROVE  UringInv'
<1> SUFFICES ASSUME faults' = 0 PROVE Sound'
  BY DEF UringInv, TakeAll, errors
<1>1. Sound /\ InCall /\ Woken /\ mode = "batch"
  BY DEF UringInv, TakeAll, InCall, errors
<1>2. /\ Reaped \in [1 .. Len(ops) -> Result]
      /\ \A i \in 1 .. ChunkEnd(base, ops) :
           Reaped[i].of = ops[i].id /\ Honest(i, Reaped[i].status)
      /\ \A i \in ChunkEnd(base, ops) + 1 .. Len(ops) : Reaped[i] = Zero
  BY <1>1, ChunkReaped
<1>3. flight = {} /\ sq = <<>>
  BY <1>1, ChunkAnswered
<1>4. /\ ops \in Seq(Op) /\ base \in Nat /\ base < Len(ops)
  BY <1>1 DEF Sound, Types, Called
<1>5. ChunkEnd(base, ops) \in Nat /\ ChunkEnd(base, ops) <= Len(ops)
  BY <1>4, ChunkFits
<1>6. cq' = <<>> /\ UNCHANGED <<ops, flight, files>> /\ Numbered'
  BY <1>1 DEF TakeAll, Sound, Numbered
<1>7. CASE ChunkEnd(base, ops) = Len(ops)
  <2>1. Return(Reaped) /\ UNCHANGED sq
    BY <1>7 DEF TakeAll
  <2>2. \A i \in DOMAIN ops : Honest(i, Reaped[i].status)
    BY <1>2, <1>4, <1>7
  <2>3. Kept'
    BY <1>1, <1>6, <2>1, <2>2, ReturnKept DEF Sound
  <2>4. mode' = "idle" /\ at' = "enter" /\ base' = 0 /\ result' = Reaped
    BY <2>1 DEF Return
  <2>5. Types'
    BY <1>1, <1>2, <1>6, <2>1, <2>4 DEF Sound, Types
  <2>6. ResultsOwn'
    BY <1>2, <1>4, <1>6, <1>7, <2>4 DEF ResultsOwn
  <2>7. Idle'
    BY <1>3, <1>6, <2>1, <2>4, <2>6 DEF Idle
  <2> QED
    BY <1>6, <2>3, <2>4, <2>5, <2>7 DEF Sound, Called, Pushed, Submitted, InCall
<1>8. CASE ChunkEnd(base, ops) # Len(ops)
  <2> DEFINE b == ChunkEnd(base, ops)
  <2>1. PushChunk(b, ops) /\ result' = Reaped /\ UNCHANGED <<acked, promised>>
    BY <1>8 DEF TakeAll, history
  <2>2. b \in Nat /\ b < Len(ops)
    BY <1>4, <1>5, <1>8
  <2>3. mode' = "batch" /\ at' = "enter" /\ base' = b /\ sq' = Entries(b, ops)
    BY <1>3, <1>4, <2>1, <2>2, PushIntoEmpty
  <2>4. /\ Entries(b, ops) \in Seq(SqEntry)
        /\ Len(Entries(b, ops)) = ChunkEnd(b, ops) - b
        /\ \A k \in 1 .. ChunkEnd(b, ops) - b :
             Entries(b, ops)[k] = [tag |-> b + k - 1, op |-> ops[b + k]]
    BY <1>4, <2>2, EntriesOfChunk
  <2> HIDE DEF b
  <2>5. Types'
    BY <1>1, <1>2, <1>6, <2>1, <2>2, <2>3, <2>4 DEF Sound, Types
  <2>6. Called'
    <3>1. \A i \in 1 .. b : result'[i].of = ops[i].id /\ Honest(i, result[i].status)'
      BY <1>2, <1>6, <2>1 DEF Honest, b
    <3>2. \A i \in b + 1 .. Len(ops) : result'[i] = Zero
      BY <1>2, <2>1 DEF b
    <3> QED
      BY <1>6, <2>2, <2>3, <3>1, <3>2 DEF Called
  <2>7. Pushed'
    <3>1. ASSUME NEW k \in 1 .. Len(sq') PROVE sq'[k] = EntryOf(base + k)'
      <4>1. sq'[k] = [tag |-> b + k - 1, op |-> ops[b + k]]
        BY <2>3, <2>4
      <4>2. EntryOf(base + k)' = [tag |-> TagOf(base + k)', op |-> ops[b + k]]
        BY <1>6, <2>3 DEF EntryOf
      <4>3. TagOf(base + k)' = b + k - 1
        BY <2>2, <2>3, <2>4 DEF TagOf
      <4> QED
        BY <4>1, <4>2, <4>3
    <3> QED
      BY <1>3, <1>6, <2>3, <2>4, <3>1 DEF Pushed
  <2>8. Idle' /\ Submitted' /\ Kept'
    BY <1>1, <1>6, <2>1, <2>3 DEF Sound, Idle, Submitted, Kept
  <2> QED
    BY <1>6, <2>5, <2>6, <2>7, <2>8 DEF Sound
<1> QED
  BY <1>7, <1>8
-----------------------------------------------------------------------------
(* Every step keeps the invariant.                                         *)
LEMMA UringNext == UringInv /\ [Next]_vars => UringInv'
<1> SUFFICES ASSUME UringInv, [Next]_vars PROVE UringInv'
  OBVIOUS
<1>1. CASE EnterFails \/ Interrupted
  BY <1>1 DEF EnterFails, Interrupted, UringInv
<1>2. CASE UNCHANGED vars
  <2>1. UNCHANGED <<mode, at, ops, result, base, sq, flight, cq, used, faults, files,
                    acked, promised>>
    BY <1>2 DEF vars, errors, callVars, queueVars, history
  <2>2. Types' = Types /\ Numbered' = Numbered /\ Kept' = Kept
    BY <2>1 DEF Types, Numbered, Kept
  <2>3. Idle' = Idle
    BY <2>1 DEF Idle, ResultsOwn
  <2>4. Called' = Called
    BY <2>1 DEF Called, InCall, Honest
  <2>5. Pushed' = Pushed
    BY <2>1 DEF Pushed, InCall, EntryOf, TagOf
  <2>6. Submitted' = Submitted
    BY <2>1 DEF Submitted, InCall, Chunk, EntryOf, TagOf, Answers, Honest
  <2> QED
    BY <2>1, <2>2, <2>3, <2>4, <2>5, <2>6 DEF UringInv, Sound
<1> QED
  BY <1>1, <1>2, CallBatchSound, CallSingleSound, EnterSound, TakeOneSound,
     TakeAllSound, CompleteSound DEF Next, Executor

(* The invariant holds in every execution.                                 *)
THEOREM UringInvariance == Spec => []UringInv
BY UringInit, UringNext, PTL DEF Spec

(* Until a kernel call fails, every call returns to each operation its own *)
(* result.                                                                 *)
THEOREM OwnResults == Spec => []OwnUntilFault
<1>1. UringInv => OwnUntilFault
  BY DEF UringInv, Sound, Types, Idle, OwnUntilFault, ResultsOwn
<1> QED
  BY <1>1, UringInvariance, PTL

(* Until then nothing of a call is left in the queues when it has returned.*)
THEOREM QueuesEmptied == Spec => []NothingLeftBehind
<1>1. UringInv => NothingLeftBehind
  BY DEF UringInv, Sound, Idle, NothingLeftBehind
<1> QED
  BY <1>1, UringInvariance, PTL

(* Until then a successful fsync has put every write acknowledged before it*)
(* on the device, whatever the order of completion.                        *)
THEOREM FsyncDurable == Spec => []SyncedIsDurable
<1>1. UringInv => SyncedIsDurable
  BY DEF UringInv, Sound, Kept, SyncedIsDurable
<1> QED
  BY <1>1, UringInvariance, PTL
-----------------------------------------------------------------------------
(* The executor implements its contract.                                   *)

\* OutcomeOf, as a function of what it looks at.
OutcomeIn(id, res, c) ==
  IF res.of # 0 THEN res.status
  ELSE IF {k \in DOMAIN c : c[k].of = id} # {}
       THEN c[LastOf({k \in DOMAIN c : c[k].of = id})].status
  ELSE "undone"

(* The outcome of an operation depends on its result and its completions.  *)
LEMMA OutcomeIsIn == \A i : /\ OutcomeOf(i) = OutcomeIn(ops[i].id, result[i], cq)
                            /\ OutcomeOf(i)' = OutcomeIn(ops'[i].id, result'[i], cq')
BY DEF OutcomeOf, OutcomeIn, Completion

(* A result decides the outcome.                                           *)
LEMMA OutcomeDecided ==
  ASSUME NEW id, NEW res, NEW c, res.of # 0
  PROVE  OutcomeIn(id, res, c) = res.status
BY DEF OutcomeIn

(* Without a result, its only completion does.                             *)
LEMMA OutcomeCompleted ==
  ASSUME NEW id, NEW res, NEW c, res.of = 0, NEW k \in DOMAIN c, c[k].of = id,
         \A l \in DOMAIN c : c[l].of = id => l = k
  PROVE  OutcomeIn(id, res, c) = c[k].status
<1>1. {l \in DOMAIN c : c[l].of = id} = {k}
  OBVIOUS
<1>2. LastOf({k}) = k
  BY DEF LastOf
<1> QED
  BY <1>1, <1>2 DEF OutcomeIn

(* Without either, the operation is undone.                                *)
LEMMA OutcomeUndone ==
  ASSUME NEW id, NEW res, NEW c, res.of = 0, \A l \in DOMAIN c : c[l].of # id
  PROVE  OutcomeIn(id, res, c) = "undone"
BY DEF OutcomeIn

(* While the kernel is busy, a completion tells which operation it is of.  *)
LEMMA AnswerOf ==
  ASSUME Sound, InCall, at = "wait", NEW k \in 1 .. Len(cq), NEW i \in 1 .. Len(ops),
         cq[k].of = ops[i].id
  PROVE  /\ i \in Chunk /\ Answers(k, i)
         /\ \A l \in 1 .. Len(cq) : cq[l].of = ops[i].id => l = k
<1>1. \A l \in 1 .. Len(cq) : \E j \in Chunk : Answers(l, j)
  BY DEF Sound, Submitted
<1>2. Chunk \subseteq 1 .. Len(ops)
  <2>1. ops \in Seq(Op) /\ base \in Nat /\ base < Len(ops)
    BY DEF Sound, Types, Called
  <2> QED
    BY <2>1, ChunkFits DEF Chunk
<1>3. \A l \in 1 .. Len(cq) : cq[l].of = ops[i].id => i \in Chunk /\ Answers(l, i)
  BY <1>1, <1>2 DEF Sound, Numbered, Answers
<1>4. \A l \in 1 .. Len(cq) : cq[l].of = ops[i].id => l = k
  BY <1>3 DEF Sound, Submitted, Answers
<1> QED
  BY <1>3, <1>4

(* What a call reaps is the outcome of its operations.                     *)
LEMMA ReapedIsOutcome ==
  ASSUME Sound, mode = "batch", Woken, NEW i \in 1 .. ChunkEnd(base, ops)
  PROVE  Reaped[i].status = OutcomeOf(i) /\ i \in 1 .. Len(ops)
<1>1. InCall /\ at = "wait"
  BY ChunkAnswered DEF InCall
<1>2. /\ ops \in Seq(Op) /\ base \in Nat /\ base < Len(ops) /\ cq \in Seq(CqEntry)
      /\ \A j \in 1 .. base : result[j].of = ops[j].id
      /\ \A j \in base + 1 .. Len(ops) : result[j] = Zero
  BY <1>1 DEF Sound, Types, Called
<1>3. ChunkEnd(base, ops) \in Nat /\ ChunkEnd(base, ops) <= Len(ops)
  BY <1>2, ChunkFits
<1>4. i \in 1 .. Len(ops) /\ i \in DOMAIN ops
  BY <1>2, <1>3
<1>5. CASE i \in Chunk
  <2>1. PICK k \in 1 .. Len(cq) :
          /\ Answers(k, i) /\ \A l \in 1 .. Len(cq) : cq[l].tag = TagOf(i) => l = k
    BY <1>1, <1>5, ChunkAnswered
  <2>2. TagOf(i) = i - 1
    BY DEF TagOf
  <2>3. Tagged(i) = {k} /\ LastOf({k}) = k
    BY <1>2, <2>1, <2>2 DEF Tagged, Answers, LastOf
  <2>4. Reaped[i].status = cq[k].status
    BY <1>4, <1>5, <2>3 DEF Reaped, Chunk
  <2>5. result[i].of = 0
    BY <1>2, <1>4, <1>5 DEF Chunk, Zero
  <2>6. cq[k].of = ops[i].id /\ \A l \in 1 .. Len(cq) : cq[l].of = ops[i].id => l = k
    BY <1>1, <1>4, <2>1, AnswerOf DEF Answers
  <2>7. DOMAIN cq = 1 .. Len(cq)
    BY <1>2
  <2> QED
    BY <1>4, <2>4, <2>5, <2>6, <2>7, OutcomeCompleted, OutcomeIsIn
<1>6. CASE i \notin Chunk
  <2>1. i \in 1 .. base
    BY <1>2, <1>3, <1>6 DEF Chunk
  <2>2. result[i].of # 0
    BY <1>2, <1>4, <2>1 DEF Sound, Numbered
  <2>3. Reaped[i] = result[i]
    BY <1>4, <1>6 DEF Reaped, Chunk
  <2> QED
    BY <1>4, <2>2, <2>3, OutcomeDecided, OutcomeIsIn
<1> QED
  BY <1>5, <1>6

\* The contract's outcome and answer, in terms of the executor.
Outcome == [i \in DOMAIN ops |-> OutcomeOf(i)]
Answer == IF mode = "idle" THEN [i \in DOMAIN ops |-> result[i].status] ELSE <<>>

(* A call of the executor is a call of the contract.                       *)
LEMMA CallStep ==
  ASSUME mode = "idle", NEW call \in BatchCalls(used + 1) \cup SingleCalls(used + 1),
         call \in Seq(Op), ops' = call, used' = used + Len(call),
         \A i \in 1 .. Len(call) : result'[i] = Zero,
         mode' \in {"single", "batch"}, cq' = <<>>, files' = files
  PROVE  Contract!Call
<1>1. ~InCall /\ InCall' = TRUE /\ Answer' = <<>>
  BY DEF InCall, Answer
<1>2. ASSUME NEW i \in DOMAIN call PROVE OutcomeOf(i)' = "undone"
  <2>1. result'[i].of = 0 /\ DOMAIN cq' = {}
    BY DEF Zero
  <2> QED
    BY <2>1, OutcomeIsIn, OutcomeUndone
<1>3. Outcome' = [i \in DOMAIN call |-> "undone"]
  BY <1>2 DEF Outcome
<1> QED
  BY <1>1, <1>3 DEF Contract!Call, Contract!Undone, Outcome, Answer

(* execute_batch, called.                                                  *)
LEMMA CallBatchStep ==
  ASSUME UringInv, CallBatch, faults' = 0
  PROVE  Contract!Call
<1>1. Sound /\ used \in Nat /\ mode = "idle"
  BY DEF UringInv, CallBatch, errors
<1>2. PICK call \in BatchCalls(used + 1) :
        /\ ops' = call /\ used' = used + Len(call)
        /\ result' = [i \in DOMAIN call |-> Zero] /\ PushChunk(0, call)
  BY DEF CallBatch
<1>3. call \in Seq(Op) /\ Len(call) > 0
  BY <1>1, <1>2, CallShape
<1>4. sq = <<>> /\ cq = <<>>
  BY <1>1 DEF Sound, Idle
<1>5. mode' = "batch"
  BY <1>2, <1>3, <1>4, PushIntoEmpty
<1>6. cq' = <<>> /\ files' = files
  BY <1>4 DEF CallBatch
<1> QED
  BY <1>1, <1>2, <1>3, <1>5, <1>6, CallStep

(* open or close, called.                                                  *)
LEMMA CallSingleStep ==
  ASSUME UringInv, CallSingle, faults' = 0
  PROVE  Contract!Call
<1>1. Sound /\ used \in Nat /\ mode = "idle"
  BY DEF UringInv, CallSingle, errors
<1>2. PICK call \in SingleCalls(used + 1) : ops' = call
  BY DEF CallSingle
<1>3. call \in Seq(Op) /\ Len(call) = 1
  BY <1>1, <1>2, CallShape
<1>4. cq' = <<>> /\ files' = files
  BY <1>1 DEF Sound, Idle, CallSingle
<1>5. used' = used + Len(call) /\ mode' = "single" /\ result' = <<Zero>>
  BY <1>3 DEF CallSingle
<1>6. \A i \in 1 .. Len(call) : result'[i] = Zero
  BY <1>3, <1>5
<1> QED
  BY <1>1, <1>2, <1>3, <1>4, <1>5, <1>6, CallStep

(* Entering the kernel is not visible to the contract.                     *)
LEMMA EnterStep ==
  ASSUME Enter
  PROVE  UNCHANGED Contract!vars
<1>1. UNCHANGED <<mode, ops, result, cq, files, used>>
  BY DEF Enter
<1>2. \A i : OutcomeOf(i)' = OutcomeOf(i)
  BY <1>1, OutcomeIsIn
<1> QED
  BY <1>1, <1>2 DEF Contract!vars, InCall

(* A completion performs the operation it is of.                           *)
LEMMA CompleteStep ==
  ASSUME UringInv, NEW e \in flight, Complete(e), faults' = 0
  PROVE  \E i \in DOMAIN ops : Contract!Perform(i)
<1>1. Sound /\ UringInv'
  BY CompleteSound DEF UringInv, Complete, errors
<1>2. InCall /\ at = "wait"
  BY <1>1 DEF Sound, Types, Idle, Pushed, InCall
<1>3. PICK status \in {"ok", "error"} :
        /\ cq' = Append(cq, [tag |-> e.tag, of |-> e.op.id, status |-> status])
        /\ files' = IF status = "ok" THEN Effect(e.op, files) ELSE files
  BY DEF Complete
<1>4. UNCHANGED <<mode, at, ops, result, base, used>>
  BY DEF Complete, callVars
<1>5. /\ ops \in Seq(Op) /\ base \in Nat /\ base < Len(ops) /\ cq \in Seq(CqEntry)
      /\ \A j \in base + 1 .. Len(ops) : result[j] = Zero
  BY <1>1, <1>2 DEF Sound, Types, Called
<1>6. PICK i \in Chunk : e = EntryOf(i)
  BY <1>1, <1>2 DEF Sound, Submitted
<1>7. i \in 1 .. Len(ops) /\ result[i].of = 0
  <2>1. ChunkEnd(base, ops) \in Nat /\ ChunkEnd(base, ops) <= Len(ops)
    BY <1>5, ChunkFits
  <2>2. i \in base + 1 .. Len(ops) /\ i \in 1 .. Len(ops)
    BY <1>5, <2>1 DEF Chunk
  <2> QED
    BY <1>5, <2>2 DEF Zero
<1>8. e.tag = TagOf(i) /\ e.op = ops[i]
  BY <1>6 DEF EntryOf
<1>9. \A k \in 1 .. Len(cq) : cq[k].of # ops[i].id
  <2> SUFFICES ASSUME NEW k \in 1 .. Len(cq), cq[k].of = ops[i].id PROVE FALSE
    OBVIOUS
  <2>1. cq[k].tag = TagOf(i)
    BY <1>1, <1>2, <1>7, AnswerOf DEF Answers
  <2> QED
    BY <1>1, <1>2, <1>8, <2>1 DEF Sound, Submitted
<1>10. PICK n : n = Len(cq) + 1 /\ n \in Nat
  BY <1>5
<1>11. /\ DOMAIN cq = 1 .. Len(cq) /\ DOMAIN cq' = 1 .. n
       /\ cq'[n] = [tag |-> e.tag, of |-> ops[i].id, status |-> status]
       /\ \A k \in 1 .. Len(cq) : cq'[k] = cq[k]
  BY <1>3, <1>5, <1>8, <1>10
<1>12. OutcomeOf(i) = "undone"
  BY <1>7, <1>9, <1>11, OutcomeIsIn, OutcomeUndone
<1>13. OutcomeOf(i)' = status
  <2>1. n \in DOMAIN cq' /\ cq'[n].of = ops[i].id /\ cq'[n].status = status
    BY <1>10, <1>11
  <2>2. \A l \in DOMAIN cq' : cq'[l].of = ops[i].id => l = n
    BY <1>9, <1>10, <1>11
  <2> QED
    BY <1>4, <1>7, <2>1, <2>2, OutcomeIsIn, OutcomeCompleted
<1>14. ASSUME NEW j \in 1 .. Len(ops), j # i PROVE OutcomeOf(j)' = OutcomeOf(j)
  <2>1. ops[j].id # ops[i].id
    BY <1>1, <1>7, <1>14 DEF Sound, Numbered
  <2>2. cq'[n].of # ops[j].id
    BY <1>11, <2>1
  <2>3. CASE result[j].of # 0
    BY <1>4, <2>3, OutcomeIsIn, OutcomeDecided
  <2>4. CASE result[j].of = 0 /\ \A k \in 1 .. Len(cq) : cq[k].of # ops[j].id
    <3>1. \A k \in DOMAIN cq' : cq'[k].of # ops[j].id
      BY <1>10, <1>11, <2>2, <2>4
    <3>2. OutcomeOf(j) = "undone"
      BY <1>11, <2>4, OutcomeIsIn, OutcomeUndone
    <3>3. OutcomeOf(j)' = "undone"
      BY <1>4, <2>4, <3>1, OutcomeIsIn, OutcomeUndone
    <3> QED
      BY <3>2, <3>3
  <2>5. ASSUME result[j].of = 0, NEW k \in 1 .. Len(cq), cq[k].of = ops[j].id
        PROVE  OutcomeOf(j)' = OutcomeOf(j)
    <3>1. \A l \in DOMAIN cq : cq[l].of = ops[j].id => l = k
      BY <1>1, <1>2, <1>11, <2>5, AnswerOf
    <3>2. k \in DOMAIN cq /\ k \in DOMAIN cq' /\ cq'[k] = cq[k]
      BY <1>5, <1>10, <1>11
    <3>3. \A l \in DOMAIN cq' : cq'[l].of = ops[j].id => l = k
      BY <1>10, <1>11, <2>2, <3>1
    <3>4. OutcomeOf(j) = cq[k].status
      BY <2>5, <3>1, <3>2, OutcomeIsIn, OutcomeCompleted
    <3>5. OutcomeOf(j)' = cq[k].status
      BY <1>4, <2>5, <3>2, <3>3, OutcomeIsIn, OutcomeCompleted
    <3> QED
      BY <3>4, <3>5
  <2> QED
    BY <2>3, <2>4, <2>5
<1>15. DOMAIN ops = 1 .. Len(ops) /\ UNCHANGED <<Answer, InCall>>
  BY <1>4, <1>5 DEF Answer, InCall
<1>16. Outcome' = [Outcome EXCEPT ![i] = status]
  BY <1>4, <1>7, <1>13, <1>14, <1>15 DEF Outcome
<1>17. Contract!Perform(i)
  BY <1>2, <1>3, <1>4, <1>7, <1>8, <1>12, <1>15, <1>16
     DEF Contract!Perform, Contract!Undone, Outcome, Answer
<1> QED
  BY <1>7, <1>15, <1>17

(* A call that returns the outcome of its operations is a return of the    *)
(* contract.                                                               *)
LEMMA ReturnStep ==
  ASSUME Sound, InCall, NEW answers, Return(answers), UNCHANGED <<ops, files, used>>,
         \A i \in 1 .. Len(ops) :
           answers[i] \in Result /\ answers[i].of = ops[i].id
           /\ answers[i].status = OutcomeOf(i)
  PROVE  Contract!Return
<1>1. DOMAIN ops = 1 .. Len(ops) /\ \A i \in 1 .. Len(ops) : ops[i].id # 0
  BY DEF Sound, Types, Numbered
<1>2. mode' = "idle" /\ result' = answers /\ InCall' = FALSE
  BY DEF Return, InCall
<1>3. ASSUME NEW i \in DOMAIN ops
      PROVE  /\ OutcomeOf(i)' = OutcomeOf(i) /\ OutcomeOf(i) # "undone"
             /\ result'[i].status = OutcomeOf(i)
  <2>1. result'[i].of # 0 /\ result'[i].status = OutcomeOf(i)
    BY <1>1, <1>2
  <2>2. OutcomeOf(i)' = result'[i].status
    BY <2>1, OutcomeIsIn, OutcomeDecided
  <2>3. OutcomeOf(i) \in {"ok", "error"}
    BY <1>1 DEF Result
  <2> QED
    BY <2>1, <2>2, <2>3
<1>4. Outcome' = Outcome
  BY <1>3 DEF Outcome
<1>5. Answer' = Outcome
  BY <1>2, <1>3 DEF Answer, Outcome
<1> QED
  BY <1>2, <1>3, <1>4, <1>5 DEF Contract!Return, Contract!Undone, Outcome, Answer

(* A single call returns the outcome of its operation.                     *)
LEMMA TakeOneStep ==
  ASSUME UringInv, TakeOne, faults' = 0
  PROVE  Contract!Return
<1>1. Sound /\ InCall /\ Woken /\ mode = "single"
  BY DEF UringInv, TakeOne, InCall, errors
<1>2. /\ ops \in Seq(Op) /\ Len(ops) = 1 /\ base = 0 /\ cq \in Seq(CqEntry)
      /\ result[1] = Zero
  BY <1>1 DEF Sound, Types, Called
<1>3. ChunkEnd(base, ops) = 1
  BY <1>2, UringAssumption DEF ChunkEnd, Lesser
<1>4. at = "wait" /\ Len(cq) = 1 /\ Answers(1, 1)
  <2>1. at = "wait" /\ Len(cq) = 1 /\ 1 \in Chunk
    BY <1>1, <1>2, <1>3, ChunkAnswered DEF Chunk
  <2>2. PICK k \in 1 .. Len(cq) : Answers(k, 1)
    BY <1>1, <2>1, ChunkAnswered
  <2> QED
    BY <2>1, <2>2
<1>5. cq # <<>> /\ cq[1] \in CqEntry
  BY <1>2, <1>4, ElementOfSeq
<1> DEFINE answers == <<[of |-> cq[1].of, status |-> cq[1].status]>>
<1>6. Return(answers) /\ UNCHANGED <<ops, files, used>>
  <2>1. Head(cq) = cq[1] /\ cq # <<>>
    BY <1>2, <1>5
  <2> QED
    BY <2>1 DEF TakeOne
<1>7. answers[1] \in Result /\ answers[1].of = ops[1].id /\ answers[1].status = cq[1].status
  BY <1>4, <1>5 DEF CqEntry, Result, Answers
<1>8. OutcomeOf(1) = cq[1].status
  <2>1. result[1].of = 0 /\ DOMAIN cq = {1} /\ cq[1].of = ops[1].id
    BY <1>2, <1>4 DEF Zero, Answers
  <2> QED
    BY <2>1, OutcomeIsIn, OutcomeCompleted
<1>9. \A i \in 1 .. Len(ops) :
        answers[i] \in Result /\ answers[i].of = ops[i].id /\ answers[i].status = OutcomeOf(i)
  BY <1>2, <1>7, <1>8
<1> HIDE DEF answers
<1> QED
  BY <1>1, <1>6, <1>9, ReturnStep

(* The last chunk of a batch returns; the others are not visible.          *)
LEMMA TakeAllStep ==
  ASSUME UringInv, TakeAll, faults' = 0
  PROVE  Contract!Return \/ UNCHANGED Contract!vars
<1>1. Sound /\ InCall /\ Woken /\ mode = "batch"
  BY DEF UringInv, TakeAll, InCall, errors
<1>2. /\ ops \in Seq(Op) /\ base \in Nat /\ base < Len(ops) /\ cq \in Seq(CqEntry)
      /\ \A i \in base + 1 .. Len(ops) : result[i] = Zero
  BY <1>1 DEF Sound, Types, Called
<1>3. ChunkEnd(base, ops) \in Nat /\ base < ChunkEnd(base, ops)
      /\ ChunkEnd(base, ops) <= Len(ops)
  BY <1>2, ChunkFits
<1>4. /\ Reaped \in [1 .. Len(ops) -> Result]
      /\ \A i \in 1 .. ChunkEnd(base, ops) : Reaped[i].of = ops[i].id
      /\ \A i \in ChunkEnd(base, ops) + 1 .. Len(ops) : Reaped[i] = Zero
  BY <1>1, ChunkReaped
<1>5. cq' = <<>> /\ UNCHANGED <<ops, files, used>>
  BY DEF TakeAll
<1>6. CASE ChunkEnd(base, ops) = Len(ops)
  <2>1. Return(Reaped)
    BY <1>6 DEF TakeAll
  <2>2. \A i \in 1 .. Len(ops) :
          Reaped[i] \in Result /\ Reaped[i].of = ops[i].id /\ Reaped[i].status = OutcomeOf(i)
    BY <1>1, <1>4, <1>6, ReapedIsOutcome
  <2> QED
    BY <1>1, <1>5, <2>1, <2>2, ReturnStep
<1>7. CASE ChunkEnd(base, ops) # Len(ops)
  <2>1. PushChunk(ChunkEnd(base, ops), ops) /\ result' = Reaped
    BY <1>7 DEF TakeAll
  <2>2. sq = <<>> /\ at = "wait"
    BY <1>1, ChunkAnswered
  <2>3. mode' = "batch"
    BY <1>2, <1>3, <1>7, <2>1, <2>2, PushIntoEmpty
  <2>4. ASSUME NEW i \in 1 .. Len(ops) PROVE OutcomeOf(i)' = OutcomeOf(i)
    <3>1. CASE i \in 1 .. ChunkEnd(base, ops)
      <4>1. ops[i].id # 0
        BY <1>1 DEF Sound, Numbered
      <4>2. result'[i].of # 0 /\ result'[i].status = OutcomeOf(i)
        BY <1>1, <1>4, <2>1, <3>1, <4>1, ReapedIsOutcome
      <4> QED
        BY <4>2, OutcomeIsIn, OutcomeDecided
    <3>2. CASE i \in ChunkEnd(base, ops) + 1 .. Len(ops)
      <4>1. i \notin Chunk /\ result[i].of = 0 /\ result'[i].of = 0
        BY <1>2, <1>3, <1>4, <2>1, <3>2 DEF Chunk, Zero
      <4>2. \A k \in DOMAIN cq : cq[k].of # ops[i].id
        BY <1>1, <1>2, <2>2, <4>1, AnswerOf
      <4>3. OutcomeOf(i) = "undone"
        BY <4>1, <4>2, OutcomeIsIn, OutcomeUndone
      <4>4. OutcomeOf(i)' = "undone"
        <5>1. \A k \in DOMAIN cq' : cq'[k].of # ops'[i].id
          BY <1>5
        <5> QED
          BY <4>1, <5>1, OutcomeIsIn, OutcomeUndone
      <4> QED
        BY <4>3, <4>4
    <3> QED
      BY <1>3, <3>1, <3>2
  <2>5. DOMAIN ops = 1 .. Len(ops)
    BY <1>2
  <2>6. Outcome' = Outcome
    BY <1>5, <2>4, <2>5 DEF Outcome
  <2>7. Answer' = Answer /\ InCall' = InCall
    BY <1>1, <2>3 DEF Answer, InCall
  <2> QED
    BY <1>5, <2>6, <2>7 DEF Contract!vars, Outcome, Answer
<1> QED
  BY <1>6, <1>7

(* Until a kernel call fails, every step of the executor is a step of its  *)
(* contract or not visible to it: each operation of a call is performed    *)
(* once, in any order, and the call returns the outcome of each.           *)
THEOREM RefinesContract == Spec => ImplementsContract
<1>1. ASSUME UringInv, Next, faults' = 0
      PROVE  Contract!Next \/ UNCHANGED Contract!vars
  <2>1. ~EnterFails /\ ~Interrupted
    BY <1>1 DEF EnterFails, Interrupted, UringInv
  <2> QED
    BY <1>1, <2>1, CallBatchStep, CallSingleStep, EnterStep, CompleteStep, TakeOneStep,
       TakeAllStep DEF Next, Executor, Contract!Next
<1>2. UringInv /\ [Next]_vars => [faults' = 0 => Contract!Next \/ UNCHANGED Contract!vars]_vars
  BY <1>1
<1> QED
  BY <1>2, UringInvariance, PTL DEF Spec, ImplementsContract
-----------------------------------------------------------------------------
(* Well-formedness, also after a kernel call has failed.                   *)

UsedOp(n) == [id : 1 .. n, kind : Single \cup Batched]
UsedEntry(n) == [tag : Nat, op : UsedOp(n)]

WellFormed ==
  /\ used \in Nat
  /\ mode \in {"idle", "single", "batch", "panicked"}
  /\ at \in {"enter", "wait", "reap"}
  /\ ops \in Seq(UsedOp(used)) /\ DOMAIN result = DOMAIN ops
  /\ base \in Nat /\ base <= Len(ops)
  /\ mode = "idle" => base = 0
  /\ mode = "single" => Len(ops) = 1
  /\ mode = "batch" => base < Len(ops)
  /\ sq \in Seq(UsedEntry(used)) /\ Len(sq) <= Capacity
  /\ flight \subseteq UsedEntry(used)
  /\ files \in [written : SUBSET (1 .. used), durable : SUBSET (1 .. used)]
  /\ files.durable \subseteq files.written

(* What was numbered stays numbered when more operations are.              *)
LEMMA UsedGrows ==
  ASSUME NEW n \in Nat, NEW m \in Nat, n <= m
  PROVE  /\ UsedEntry(n) \subseteq UsedEntry(m)
         /\ Seq(UsedOp(n)) \subseteq Seq(UsedOp(m))
         /\ Seq(UsedEntry(n)) \subseteq Seq(UsedEntry(m))
<1>1. UsedOp(n) \subseteq UsedOp(m)
  BY DEF UsedOp
<1>2. UsedEntry(n) \subseteq UsedEntry(m)
  BY <1>1 DEF UsedEntry
<1>3. ASSUME NEW S, NEW T, S \subseteq T PROVE Seq(S) \subseteq Seq(T)
  BY <1>3
<1> QED
  BY <1>1, <1>2, <1>3

(* The operations of a call are numbered from the first.                   *)
LEMMA CallNumbered ==
  ASSUME NEW old \in Nat, NEW call,
         call \in BatchCalls(old + 1) \cup SingleCalls(old + 1)
  PROVE  /\ Len(call) \in Nat /\ Len(call) > 0
         /\ call \in SingleCalls(old + 1) => Len(call) = 1
         /\ call \in Seq(UsedOp(old + Len(call)))
<1> DEFINE first == old + 1
<1>1. CASE call \in BatchCalls(first)
  <2>0. PICK n \in 1 .. MaxBatch :
          call \in {[k \in 1 .. n |-> Operation(first + k - 1, kinds[k])] :
                      kinds \in [1 .. n -> Batched]}
    BY <1>1 DEF BatchCalls
  <2>1. PICK kinds \in [1 .. n -> Batched] :
          call = [k \in 1 .. n |-> Operation(first + k - 1, kinds[k])]
    BY <2>0
  <2>2. n \in Nat /\ n > 0
    BY UringAssumption
  <2>3. \A k \in 1 .. n : Operation(first + k - 1, kinds[k]) \in UsedOp(old + n)
    BY <2>1, <2>2 DEF Operation, UsedOp
  <2>4. \A c \in SingleCalls(first) : Len(c) = 1
    BY DEF SingleCalls
  <2>5. call \in Seq(UsedOp(old + n)) /\ Len(call) = n
    BY <2>1, <2>2, <2>3
  <2> QED
    BY <2>2, <2>4, <2>5
<1>2. CASE call \in SingleCalls(first)
  <2>1. PICK kind \in Single : call = <<Operation(first, kind)>>
    BY <1>2 DEF SingleCalls
  <2>2. Operation(first, kind) \in UsedOp(old + 1)
    BY DEF Operation, UsedOp
  <2> QED
    BY <2>1, <2>2
<1> QED
  BY <1>1, <1>2

(* A chunk is pushed whole, or nothing is.                                 *)
LEMMA PushWellFormed ==
  ASSUME NEW n \in Nat, NEW s \in Seq(UsedOp(n)), NEW b \in Nat, b < Len(s),
         sq \in Seq(UsedEntry(n)), Len(sq) <= Capacity, PushChunk(b, s)
  PROVE  /\ sq' \in Seq(UsedEntry(n)) /\ Len(sq') <= Capacity
         /\ \/ mode' = "batch" /\ at' = "enter" /\ base' = b
            \/ mode' = "panicked" /\ at' = at /\ base' = base
<1> DEFINE c == ChunkEnd(b, s) - b
<1>1. c \in Nat /\ b + c <= Len(s)
  BY ChunkFits
<1>2. \A k \in 1 .. c : b + k \in 1 .. Len(s)
  BY <1>1
<1>3. \A k \in 1 .. c : [tag |-> b + k - 1, op |-> s[b + k]] \in UsedEntry(n)
  BY <1>2 DEF UsedEntry
<1>4. Entries(b, s) = [k \in 1 .. c |-> [tag |-> b + k - 1, op |-> s[b + k]]]
  BY DEF Entries, Tag
<1>5. Entries(b, s) \in Seq(UsedEntry(n))
  <2>1. Entries(b, s) \in [1 .. c -> UsedEntry(n)]
    BY <1>3, <1>4
  <2>2. ASSUME NEW S, NEW m \in Nat, NEW f \in [1 .. m -> S] PROVE f \in Seq(S)
    OBVIOUS
  <2> QED
    BY <1>1, <2>1, <2>2
<1>6. sq \o Entries(b, s) \in Seq(UsedEntry(n))
      /\ Len(sq \o Entries(b, s)) = Len(sq) + Len(Entries(b, s))
  BY <1>5, ConcatProperties
<1> QED
  BY <1>6 DEF PushChunk

(* Entering execute_batch keeps the variables in their types.              *)
LEMMA CallBatchWellFormed ==
  ASSUME WellFormed, CallBatch
  PROVE  WellFormed'
<1>1. PICK call \in BatchCalls(used + 1) :
        /\ used' = used + Len(call) /\ ops' = call
        /\ result' = [i \in DOMAIN call |-> Zero] /\ PushChunk(0, call)
  BY DEF CallBatch
<1>2. Len(call) \in Nat /\ Len(call) > 0 /\ call \in Seq(UsedOp(used + Len(call)))
  BY <1>1, CallNumbered DEF WellFormed
<1>3. used' \in Nat /\ used <= used' /\ used + Len(call) = used'
  BY <1>1, <1>2 DEF WellFormed
<1>4. /\ UsedEntry(used) \subseteq UsedEntry(used')
      /\ Seq(UsedEntry(used)) \subseteq Seq(UsedEntry(used'))
  BY <1>3, UsedGrows DEF WellFormed
<1>5. /\ sq' \in Seq(UsedEntry(used')) /\ Len(sq') <= Capacity
      /\ \/ mode' = "batch" /\ at' = "enter" /\ base' = 0
         \/ mode' = "panicked" /\ at' = at /\ base' = base
  BY <1>1, <1>2, <1>3, <1>4, PushWellFormed DEF WellFormed
<1>6. UNCHANGED <<flight, files>> /\ mode = "idle"
  BY DEF CallBatch
<1>7. files' \in [written : SUBSET (1 .. used'), durable : SUBSET (1 .. used')]
  BY <1>3, <1>6 DEF WellFormed
<1> QED
  BY <1>1, <1>2, <1>3, <1>4, <1>5, <1>6, <1>7 DEF WellFormed

(* Entering one of the single operations keeps the variables in their      *)
(* types.                                                                  *)
LEMMA CallSingleWellFormed ==
  ASSUME WellFormed, CallSingle
  PROVE  WellFormed'
<1>1. PICK call \in SingleCalls(used + 1) :
        /\ ops' = call
        /\ sq' = IF Len(sq) < Capacity
                 THEN Append(sq, [tag |-> 0, op |-> call[1]]) ELSE sq
  BY DEF CallSingle
<1>2. Len(call) = 1 /\ call \in Seq(UsedOp(used + Len(call)))
  BY <1>1, CallNumbered DEF WellFormed
<1>3. used' \in Nat /\ used <= used' /\ used + Len(call) = used'
  BY <1>2 DEF WellFormed, CallSingle
<1>4. /\ UsedEntry(used) \subseteq UsedEntry(used')
      /\ Seq(UsedEntry(used)) \subseteq Seq(UsedEntry(used'))
  BY <1>3, UsedGrows DEF WellFormed
<1>5. call[1] \in UsedOp(used')
  BY <1>2, <1>3, ElementOfSeq
<1>6. [tag |-> 0, op |-> call[1]] \in UsedEntry(used')
  BY <1>5 DEF UsedEntry
<1>7. sq' \in Seq(UsedEntry(used')) /\ Len(sq') <= Capacity
  BY <1>1, <1>4, <1>6, UringAssumption DEF WellFormed
<1>8. /\ mode' = "single" /\ at' = "enter" /\ base' = 0 /\ result' = <<Zero>>
      /\ UNCHANGED <<flight, files>>
  BY DEF CallSingle
<1>9. files' \in [written : SUBSET (1 .. used'), durable : SUBSET (1 .. used')]
  BY <1>3, <1>8 DEF WellFormed
<1> QED
  BY <1>1, <1>2, <1>3, <1>4, <1>7, <1>8, <1>9 DEF WellFormed

(* A chunk handed to the kernel keeps the variables in their types,        *)
(* whether the wait was cut short or not.                                  *)
LEMMA EnterWellFormed ==
  ASSUME WellFormed, Enter
  PROVE  WellFormed'
<1>1. {sq[k] : k \in DOMAIN sq} \subseteq UsedEntry(used)
  BY DEF WellFormed
<1>2. <<>> \in Seq(UsedEntry(used)) /\ Len(<<>>) <= Capacity
  BY UringAssumption
<1> QED
  BY <1>1, <1>2 DEF WellFormed, Enter

(* A completion the kernel posts keeps the variables in their types.       *)
LEMMA CompleteWellFormed ==
  ASSUME WellFormed, NEW e \in flight, Complete(e)
  PROVE  WellFormed'
<1>1. flight' \subseteq flight /\ UNCHANGED <<mode, at, ops, result, base, sq, used>>
  BY DEF Complete, callVars
<1>2. files' = Effect(e.op, files) \/ files' = files
  BY DEF Complete
<1>3. e.op.id \in 1 .. used
  BY DEF WellFormed, UsedEntry, UsedOp
<1>4. /\ files' \in [written : SUBSET (1 .. used), durable : SUBSET (1 .. used)]
      /\ files'.durable \subseteq files'.written
  <2>1. CASE e.op.kind = "Write" /\ files' = Effect(e.op, files)
    <3>1. files' = [files EXCEPT !.written = files.written \cup {e.op.id}]
      BY <2>1 DEF Effect
    <3> QED
      BY <1>3, <3>1 DEF WellFormed
  <2>2. CASE e.op.kind = "Fsync" /\ files' = Effect(e.op, files)
    <3>1. files' = [files EXCEPT !.durable = files.written]
      BY <2>2 DEF Effect
    <3> QED
      BY <3>1 DEF WellFormed
  <2>3. CASE files' = files \/ (e.op.kind # "Write" /\ e.op.kind # "Fsync")
    <3>1. files' = files
      BY <1>2, <2>3 DEF Effect
    <3> QED
      BY <3>1 DEF WellFormed
  <2> QED
    BY <1>2, <2>1, <2>2, <2>3
<1> QED
  BY <1>1, <1>4 DEF WellFormed

(* What the kernel does not take stays in the queue.                       *)
LEMMA EnterFailsWellFormed ==
  ASSUME WellFormed, EnterFails
  PROVE  WellFormed'
<1>1. PICK n \in 0 .. Len(sq) - 1 :
        /\ flight' = flight \cup {sq[k] : k \in 1 .. n}
        /\ sq' = SubSeq(sq, n + 1, Len(sq))
  BY DEF EnterFails
<1>2. sq \in Seq(UsedEntry(used)) /\ Len(sq) <= Capacity /\ flight \subseteq UsedEntry(used)
  BY DEF WellFormed
<1>3. {sq[k] : k \in 1 .. n} \subseteq UsedEntry(used)
  BY <1>2
<1>4. sq' \in Seq(UsedEntry(used)) /\ Len(sq') <= Capacity
  <2>1. sq' \in Seq(UsedEntry(used)) /\ Len(sq') = Len(sq) - (n + 1) + 1
    BY <1>1, <1>2, SubSeqProperties
  <2> QED
    BY <1>2, <2>1, UringAssumption
<1>5. at' \in {"enter", "wait", "reap"}
      /\ UNCHANGED <<mode, ops, result, base, used, files>>
  BY DEF EnterFails
<1> QED
  BY <1>1, <1>2, <1>3, <1>4, <1>5 DEF WellFormed

(* Taking one completion keeps the variables in their types.               *)
LEMMA TakeOneWellFormed ==
  ASSUME WellFormed, TakeOne
  PROVE  WellFormed'
<1>1. /\ mode' = "idle" /\ at' = "enter" /\ base' = 0 /\ DOMAIN result' = 1 .. 1
      /\ UNCHANGED <<ops, sq, flight, used, files>>
  <2>1. \A x : DOMAIN <<x>> = 1 .. 1
    OBVIOUS
  <2> QED
    BY <2>1 DEF TakeOne, Return
<1>2. DOMAIN ops = 1 .. 1
  BY DEF WellFormed, TakeOne
<1> QED
  BY <1>1, <1>2 DEF WellFormed

(* Taking all completions keeps the variables in their types.              *)
LEMMA TakeAllWellFormed ==
  ASSUME WellFormed, TakeAll
  PROVE  WellFormed'
<1>1. UNCHANGED <<ops, flight, used, files>> /\ DOMAIN Reaped = DOMAIN ops
      /\ result' = Reaped
  BY DEF TakeAll, Reaped, Return
<1>2. Len(ops) \in Nat /\ base < Len(ops) /\ base \in Nat /\ mode = "batch"
  BY DEF WellFormed, TakeAll
<1>3. ChunkEnd(base, ops) \in Nat /\ ChunkEnd(base, ops) <= Len(ops)
  BY <1>2, ChunkFits
<1>4. CASE ChunkEnd(base, ops) = Len(ops)
  <2>1. mode' = "idle" /\ at' = "enter" /\ base' = 0 /\ sq' = sq
    BY <1>4 DEF TakeAll, Return
  <2> QED
    BY <1>1, <1>2, <2>1 DEF WellFormed
<1>5. CASE ChunkEnd(base, ops) # Len(ops)
  <2>1. PushChunk(ChunkEnd(base, ops), ops)
    BY <1>5 DEF TakeAll
  <2>2. ChunkEnd(base, ops) < Len(ops)
    BY <1>2, <1>3, <1>5
  <2>3. /\ sq' \in Seq(UsedEntry(used)) /\ Len(sq') <= Capacity
        /\ \/ mode' = "batch" /\ at' = "enter" /\ base' = ChunkEnd(base, ops)
           \/ mode' = "panicked" /\ at' = at /\ base' = base
    BY <1>3, <2>1, <2>2, PushWellFormed DEF WellFormed
  <2> QED
    BY <1>1, <1>2, <1>3, <2>2, <2>3 DEF WellFormed
<1> QED
  BY <1>4, <1>5

(* Every step keeps the variables in their types.                          *)
LEMMA WellFormedInvariant == Spec => []WellFormed
<1>1. Init => WellFormed
  BY UringAssumption DEF Init, WellFormed
<1>2. WellFormed /\ [Next]_vars => WellFormed'
  <2> SUFFICES ASSUME WellFormed, [Next]_vars PROVE WellFormed'
    OBVIOUS
  <2>1. CASE Interrupted
    BY <2>1 DEF Interrupted, queueVars, WellFormed
  <2>2. CASE UNCHANGED vars
    BY <2>2 DEF vars, errors, callVars, queueVars, WellFormed
  <2> QED
    BY <2>1, <2>2, CallBatchWellFormed, CallSingleWellFormed, EnterWellFormed,
       EnterFailsWellFormed,
       CompleteWellFormed, TakeOneWellFormed, TakeAllWellFormed DEF Next, Executor
<1> QED
  BY <1>1, <1>2, PTL DEF Spec

(* Whatever the kernel answers and when, also if a call fails, the queue   *)
(* never holds more than its capacity, each operation of a call has one    *)
(* result, and nothing reaches the files that was not asked for.           *)
THEOREM UringTypes == Spec => []TypeOK
<1>1. WellFormed => TypeOK
  BY DEF WellFormed, TypeOK
<1> QED
  BY <1>1, WellFormedInvariant, PTL
-----------------------------------------------------------------------------
(* The room in the queue.                                                  *)

\* Unless a submission was refused, entries are in the queue only between
\* the push of a call's chunk and the kernel call.
Emptied == ~refused => mode # "panicked" /\ (sq = <<>> \/ (InCall /\ at = "enter"))

(* A chunk has room in an empty queue.                                     *)
LEMMA ChunkHasRoom ==
  ASSUME NEW s, Len(s) \in Nat, NEW b \in Nat, b < Len(s), sq = <<>>, PushChunk(b, s)
  PROVE  mode' = "batch" /\ at' = "enter"
<1>1. ChunkEnd(b, s) - b \in Nat /\ ChunkEnd(b, s) - b <= Capacity
  BY ChunkFits
<1>2. Len(Entries(b, s)) = ChunkEnd(b, s) - b
  BY <1>1 DEF Entries
<1>3. Len(sq) + Len(Entries(b, s)) <= Capacity
  BY <1>1, <1>2
<1> QED
  BY <1>3 DEF PushChunk

(* Every step keeps the queue empty between the calls.                     *)
LEMMA EmptiedNext ==
  ASSUME WellFormed, Emptied, [Next]_vars
  PROVE  Emptied'
<1>1. CASE CallBatch
  <2>1. PICK call \in BatchCalls(used + 1) : PushChunk(0, call)
    BY <1>1 DEF CallBatch
  <2>2. Len(call) \in Nat /\ Len(call) > 0
    BY <2>1, CallNumbered DEF WellFormed
  <2>3. ~refused => sq = <<>>
    BY <1>1 DEF CallBatch, Emptied, InCall
  <2> QED
    BY <1>1, <2>1, <2>2, <2>3, ChunkHasRoom DEF CallBatch, errors, Emptied, InCall
<1>2. CASE CallSingle
  BY <1>2 DEF CallSingle, errors, Emptied, InCall
<1>3. CASE Enter
  BY <1>3 DEF Enter, errors, Emptied, InCall
<1>4. CASE EnterFails
  BY <1>4 DEF EnterFails, Emptied
<1>5. CASE Interrupted
  BY <1>5 DEF Interrupted, queueVars, Emptied
<1>6. CASE TakeOne
  BY <1>6 DEF TakeOne, Woken, Return, errors, Emptied, InCall
<1>7. CASE TakeAll
  <2>1. ~refused => sq = <<>>
    BY <1>7 DEF TakeAll, Woken, Emptied
  <2>2. ops' = ops /\ refused' = refused
    BY <1>7 DEF TakeAll, errors
  <2>3. CASE ChunkEnd(base, ops) = Len(ops)
    BY <1>7, <2>1, <2>2, <2>3 DEF TakeAll, Return, Emptied
  <2>4. CASE ChunkEnd(base, ops) # Len(ops)
    <3>1. PushChunk(ChunkEnd(base, ops), ops)
      BY <1>7, <2>4 DEF TakeAll
    <3>2. Len(ops) \in Nat /\ base \in Nat /\ base < Len(ops)
      BY <1>7 DEF TakeAll, WellFormed
    <3>3. ChunkEnd(base, ops) \in Nat /\ ChunkEnd(base, ops) < Len(ops)
      BY <2>4, <3>2, ChunkFits
    <3> QED
      BY <2>1, <2>2, <3>1, <3>2, <3>3, ChunkHasRoom DEF Emptied, InCall
  <2> QED
    BY <2>3, <2>4
<1>8. CASE \E e \in flight : Complete(e)
  BY <1>8 DEF Complete, callVars, errors, Emptied, InCall
<1>9. CASE UNCHANGED vars
  BY <1>9 DEF vars, errors, callVars, queueVars, Emptied, InCall
<1> QED
  BY <1>1, <1>2, <1>3, <1>4, <1>5, <1>6, <1>7, <1>8, <1>9 DEF Next, Executor

(* Until the kernel refuses a submission, no chunk is too large for the    *)
(* queue: for every capacity and every batch, also after a wait that a     *)
(* signal ended.                                                           *)
THEOREM ChunksFit == Spec => []FitsUntilRefused
<1>1. Init => Emptied
  BY DEF Init, Emptied
<1>2. Emptied => FitsUntilRefused
  BY DEF Emptied, FitsUntilRefused
<1> QED
  BY <1>1, <1>2, EmptiedNext, WellFormedInvariant, PTL DEF Spec
=============================================================================
