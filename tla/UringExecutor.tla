--------------------------- MODULE UringExecutor ---------------------------
(***************************************************************************)
(* IoUringExecutor (executor.rs, mod uring).  A call pushes entries to the *)
(* submission queue, enters the kernel to submit them and wait, and takes  *)
(* what the completion queue holds for their results.  open, close and the *)
(* other methods for one operation do it with one entry, execute_batch in  *)
(* chunks that fit the queue.  The kernel performs submitted operations in *)
(* any order.  `.ok()` drops every error of the kernel call: it may have   *)
(* submitted nothing, or the first entries only, and not waited (EAGAIN,   *)
(* EBUSY), or stopped waiting (EINTR).                                     *)
(***************************************************************************)
EXTENDS Integers, Sequences, FiniteSets

CONSTANTS Capacity,   \* entries of the submission queue, 256 in main.rs
          MaxBatch,   \* bound on the operations of a batch
          MaxOps,     \* bound on all operations
          MaxFaults   \* bound on the errors of the kernel call

ASSUME UringAssumption ==
  /\ Capacity \in Nat \ {0} /\ MaxBatch \in Nat /\ MaxOps \in Nat
  /\ MaxFaults \in Nat

Single == {"Open", "Close"}
Batched == {"Read", "Write", "Fsync"}
Operation(id, kind) == [id |-> id, kind |-> kind]

VARIABLES
  mode,       \* "idle", "single", "batch" or "panicked"
  at,         \* in submit_and_wait: "enter", "wait" or "reap"
  ops,        \* the operations of the call, or of the last one
  result,     \* what the caller gets for each
  base,       \* operations before the chunk
  sq,         \* entries pushed and not submitted
  flight,     \* entries the kernel works on
  cq,         \* completions not taken yet
  used,       \* operations so far
  faults,     \* errors so far
  refused,    \* whether one of them left entries in the submission queue
  files,      \* the writes performed, and those on the device
  acked,      \* writes answered with success
  promised    \* writes acknowledged before an fsync that was answered so

callVars == <<mode, at, ops, result, base>>
queueVars == <<sq, flight, cq>>
history == <<acked, promised>>
errors == <<faults, refused>>
vars == <<callVars, queueVars, used, errors, files, history>>

\* BatchOp::new: 0, which reads as success.
Zero == [of |-> 0, status |-> "ok"]
Eio == [of |-> 0, status |-> "error"]

Init ==
  /\ mode = "idle" /\ at = "enter" /\ ops = <<>> /\ result = <<>> /\ base = 0
  /\ sq = <<>> /\ flight = {} /\ cq = <<>>
  /\ used = 0 /\ faults = 0 /\ refused = FALSE
  /\ files = [written |-> {}, durable |-> {}]
  /\ acked = {} /\ promised = {}
-----------------------------------------------------------------------------
(* Pushing.                                                                *)

Lesser(a, b) == IF a < b THEN a ELSE b

ChunkEndTooLate(b, s) == Lesser(b + Capacity + 1, Len(s))

\* The last operation of the chunk that begins after b of the call s.
ChunkEnd(b, s) == Lesser(b + Capacity, Len(s))

TagInChunk(b, i) == i - b - 1

\* The index of operation i, from 0; open and close are tagged 0, too.
Tag(b, i) == i - 1

\* build_entry for the operations of a chunk; the tag is the user_data.
Entries(b, s) ==
  [k \in 1 .. ChunkEnd(b, s) - b |-> [tag |-> Tag(b, b + k), op |-> s[b + k]]]

PushChunkBlindly(b, s) ==
  /\ mode' = "batch" /\ at' = "enter" /\ base' = b
  /\ sq' = sq \o Entries(b, s)

\* submit_chunk up to the kernel call; push(..).expect(..).
PushChunk(b, s) ==
  IF Len(sq) + Len(Entries(b, s)) <= Capacity
  THEN /\ mode' = "batch" /\ at' = "enter" /\ base' = b
       /\ sq' = sq \o Entries(b, s)
  ELSE mode' = "panicked" /\ UNCHANGED <<at, base, sq>>

\* The caller is the service loop, one call at a time.
BatchCalls(first) ==
  UNION {{[k \in 1 .. n |-> Operation(first + k - 1, kinds[k])] :
            kinds \in [1 .. n -> Batched]} : n \in 1 .. MaxBatch}
SingleCalls(first) == {<<Operation(first, kind)>> : kind \in Single}

CallBatch ==
  /\ mode = "idle"
  /\ \E call \in BatchCalls(used + 1) :
       /\ used + Len(call) <= MaxOps
       /\ used' = used + Len(call)
       /\ ops' = call
       /\ result' = [i \in DOMAIN call |-> Zero]
       /\ PushChunk(0, call)
  /\ UNCHANGED <<flight, cq, errors, files, history>>

\* push(..).ok(): an entry that finds the queue full is dropped.
CallSingle ==
  /\ mode = "idle"
  /\ used < MaxOps
  /\ used' = used + 1
  /\ \E call \in SingleCalls(used + 1) :
       /\ ops' = call
       /\ sq' = IF Len(sq) < Capacity
                THEN Append(sq, [tag |-> 0, op |-> call[1]]) ELSE sq
  /\ mode' = "single" /\ at' = "enter" /\ base' = 0
  /\ result' = <<Zero>>
  /\ UNCHANGED <<flight, cq, errors, files, history>>
-----------------------------------------------------------------------------
(* submit_and_wait, and the kernel.                                        *)

InCall == mode \in {"single", "batch"}

Enter ==
  /\ InCall /\ at = "enter"
  /\ flight' = flight \cup {sq[k] : k \in DOMAIN sq}
  /\ sq' = <<>>
  /\ at' = "wait"
  /\ UNCHANGED <<mode, ops, result, base, cq, used, errors, files, history>>

\* The kernel refuses the entries after the first n, and does not wait: they
\* stay in the queue, in front of what is pushed next.
EnterFails ==
  /\ InCall /\ at = "enter"
  /\ faults < MaxFaults
  /\ \E n \in 0 .. Len(sq) - 1 :
       /\ flight' = flight \cup {sq[k] : k \in 1 .. n}
       /\ sq' = SubSeq(sq, n + 1, Len(sq))
  /\ faults' = faults + 1 /\ refused' = TRUE
  /\ at' = "reap"
  /\ UNCHANGED <<mode, ops, result, base, cq, used, files, history>>

\* A signal ends the wait.
Interrupted ==
  /\ InCall /\ at = "wait"
  /\ faults < MaxFaults
  /\ faults' = faults + 1
  /\ at' = "reap"
  /\ UNCHANGED <<mode, ops, result, base, queueVars, used, refused, files, history>>

\* What performing op does to the files.
Effect(op, f) ==
  CASE op.kind = "Write" -> [f EXCEPT !.written = @ \cup {op.id}]
    [] op.kind = "Fsync" -> [f EXCEPT !.durable = f.written]
    [] OTHER             -> f

Complete(e) ==
  /\ e \in flight
  /\ flight' = flight \ {e}
  /\ \E status \in {"ok", "error"} :
       /\ cq' = Append(cq, [tag |-> e.tag, of |-> e.op.id, status |-> status])
       /\ files' = IF status = "ok" THEN Effect(e.op, files) ELSE files
  /\ UNCHANGED <<callVars, sq, used, errors, history>>
-----------------------------------------------------------------------------
(* Taking completions.                                                     *)

WantedOne == 1
WantedFull == Capacity
Wanted == IF mode = "single" THEN 1 ELSE ChunkEnd(base, ops) - base

\* The wait counts whatever is in the completion queue.
Woken == at = "reap" \/ (at = "wait" /\ Len(cq) >= Wanted)

Succeeded(kind, answers) ==
  {ops[i].id : i \in {j \in DOMAIN ops : ops[j].kind = kind /\ answers[j].status = "ok"}}

\* The call returns these answers.
Return(answers) ==
  /\ mode' = "idle" /\ at' = "enter" /\ base' = 0
  /\ result' = answers
  /\ acked' = acked \cup Succeeded("Write", answers)
  /\ promised' = IF Succeeded("Fsync", answers) = {} THEN promised
                 ELSE promised \cup acked

\* submit_and_wait_one: the next completion, whatever it is of.
TakeOne ==
  /\ mode = "single" /\ Woken
  /\ IF cq = <<>> THEN Return(<<Eio>>) /\ UNCHANGED cq
     ELSE /\ Return(<<[of |-> Head(cq).of, status |-> Head(cq).status]>>)
          /\ cq' = Tail(cq)
  /\ UNCHANGED <<ops, sq, flight, used, errors, files>>

\* The last completion with the tag of operation i, if there is one.
Tagged(i) == {k \in DOMAIN cq : cq[k].tag = i - 1}
LastOf(S) == CHOOSE k \in S : \A l \in S : l <= k

Reaped ==
  [i \in DOMAIN ops |->
     IF i \in base + 1 .. ChunkEnd(base, ops) /\ Tagged(i) # {}
     THEN [of |-> cq[LastOf(Tagged(i))].of, status |-> cq[LastOf(Tagged(i))].status]
     ELSE result[i]]

\* The rest of submit_chunk, and of the loop in execute_batch.
TakeAll ==
  /\ mode = "batch" /\ Woken
  /\ cq' = <<>>
  /\ IF ChunkEnd(base, ops) = Len(ops)
     THEN Return(Reaped) /\ UNCHANGED sq
     ELSE PushChunk(ChunkEnd(base, ops), ops) /\ result' = Reaped /\ UNCHANGED history
  /\ UNCHANGED <<ops, flight, used, errors, files>>
-----------------------------------------------------------------------------
Executor == Enter \/ EnterFails \/ Interrupted \/ TakeOne \/ TakeAll

Next ==
  \/ CallBatch \/ CallSingle
  \/ Executor
  \/ \E e \in flight : Complete(e)

Spec == Init /\ [][Next]_vars

\* The service thread runs, and the kernel completes what it has accepted.
Fairness ==
  /\ WF_vars(Enter) /\ WF_vars(TakeOne \/ TakeAll)
  /\ WF_vars(\E e \in flight : Complete(e))

LiveSpec == Spec /\ Fairness
-----------------------------------------------------------------------------
(* Types.                                                                  *)
TypeOK ==
  /\ mode \in {"idle", "single", "batch", "panicked"}
  /\ at \in {"enter", "wait", "reap"}
  /\ DOMAIN result = DOMAIN ops
  /\ base \in 0 .. Len(ops)
  /\ Len(sq) <= Capacity
  /\ files.durable \subseteq files.written /\ files.written \subseteq 1 .. used

(* executor.rs, BatchOp: "its result slot, filled in by `execute_batch`".  *)
(* When a call has returned, each operation has its own result, not the    *)
(* zero it started with and not the completion of another one.             *)
ResultsOwn == mode = "idle" => \A i \in DOMAIN ops : result[i].of = ops[i].id

(* As long as no kernel call has failed, they all have.                    *)
OwnUntilFault == faults = 0 => ResultsOwn

(* Nor has a call returned while the kernel still works on one of its      *)
(* operations: the path of an open, or the client's slot of the data       *)
(* region, is not the kernel's any more when the caller goes on.           *)
NothingLeftBehind ==
  faults = 0 /\ mode = "idle" => sq = <<>> /\ flight = {} /\ cq = <<>>

(* An fsync answered with success has put every write that was             *)
(* acknowledged before it on the device, in whatever order the kernel runs *)
(* the operations of a batch.                                              *)
SyncedIsDurable == faults = 0 => promised \subseteq files.durable

(* executor.rs:176: "ring was sized to hold at least `ops.len()` entries   *)
(* (chunking guarantees this)".  As long as the kernel has taken all       *)
(* entries, no chunk meets a queue without room for it, which would end the*)
(* daemon (`expect` in submit_chunk), whatever the batches, the calls      *)
(* between them and the signals.                                           *)
FitsUntilRefused == ~refused => mode # "panicked"

(* A call returns, also when a signal ended its wait or a submission was   *)
(* refused; after a refused submission it may also end the daemon, at the  *)
(* `expect` in submit_chunk, but in no case is it waited for ever.         *)
CallReturns == InCall ~> (mode = "idle" \/ (mode = "panicked" /\ refused))
-----------------------------------------------------------------------------
(* The executor implements its contract until a kernel call fails.         *)

Completion(i) == {k \in DOMAIN cq : cq[k].of = ops[i].id}

OutcomeOf(i) ==
  IF result[i].of # 0 THEN result[i].status
  ELSE IF Completion(i) # {} THEN cq[LastOf(Completion(i))].status
  ELSE "undone"

Contract ==
  INSTANCE ExecutorContract
    WITH calling <- InCall,
         outcome <- [i \in DOMAIN ops |-> OutcomeOf(i)],
         answer <- IF mode = "idle" THEN [i \in DOMAIN ops |-> result[i].status] ELSE <<>>,
         Calls <- LAMBDA first : BatchCalls(first) \cup SingleCalls(first)

ImplementsContract ==
  [][faults' = 0 => Contract!Next \/ UNCHANGED Contract!vars]_vars
=============================================================================
