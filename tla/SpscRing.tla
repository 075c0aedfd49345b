------------------------------ MODULE SpscRing ------------------------------
(***************************************************************************)
(* The lock-free ring of atlas-protocol/src/spsc.rs, one step per access   *)
(* to shared memory.  `head` and `tail` are usize counters that wrap; an   *)
(* Acquire load may return any value at least as new as the one the thread *)
(* saw before.  A slot is written and read over an interval (the payload   *)
(* spans several cache lines): between the two ends of a write it holds    *)
(* Torn.                                                                   *)
(*                                                                         *)
(* The memory orderings are part of the model.  happensBeforeC and         *)
(* happensBeforeP are the slots whose latest write (latest read) is ordered*)
(* before the next step of the consumer (producer) by a Release store that *)
(* an Acquire load has observed; an access outside them is a data race.    *)
(***************************************************************************)
EXTENDS Integers

CONSTANTS N,        \* slots in the ring
          Modulus,  \* number of values of a usize
          T,        \* payloads
          None,     \* no payload
          Torn      \* contents of a slot that is being written

ASSUME RingAssumption ==
  /\ N \in Nat \ {0}
  /\ Modulus \in Nat
  /\ Modulus >= 2 * N
  /\ Modulus % N = 0
  /\ None \notin T
  /\ Torn \notin T

VARIABLES
  tail, head, slots,              \* shared memory
  pcP, localTail, cachedHead, arg,   \* the Producer and the caller of push
  pcC, localHead, cachedTail, val,   \* the Consumer
  got,                            \* the value the last pop returned
  happensBeforeP, happensBeforeC

producerVars == <<pcP, localTail, cachedHead, arg>>
consumerVars == <<pcC, localHead, cachedTail, val, got>>
vars == <<tail, head, slots, producerVars, consumerVars,
          happensBeforeP, happensBeforeC>>

Counter == 0 .. Modulus - 1
Slot == 0 .. N - 1

\* usize::wrapping_sub and wrapping_add.
Sub(a, b) == IF a >= b THEN a - b ELSE a - b + Modulus
Add(a, k) == IF a + k < Modulus THEN a + k ELSE a + k - Modulus

\* counter & (N - 1)
Idx(c) == c % N

\* The k counters from a on, and the slots they fall in.
SlotsFrom(a, k) == {Idx(Add(a, i)) : i \in 0 .. k - 1}

\* What an atomic load may return: no older than `old`, what was seen before.
Loads(old, cur) == {Add(old, i) : i \in 0 .. Sub(cur, old)}

TailStoreRelaxed == "Relaxed"
TailStore == "Release"
TailLoad  == "Acquire"
HeadStore == "Release"
HeadLoad  == "Acquire"

\* The slots a load that observed a store orders before the loading thread.
Ordered(store, load, S) ==
  IF store = "Release" /\ load = "Acquire" THEN S ELSE {}
-----------------------------------------------------------------------------
(* Initialisation: a zeroed segment, Producer::new and Consumer::new.      *)

Init ==
  /\ tail = 0 /\ head = 0
  /\ slots = [i \in Slot |-> None]
  /\ pcP = "idle" /\ localTail = 0 /\ cachedHead = 0 /\ arg = None
  /\ pcC = "idle" /\ localHead = 0 /\ cachedTail = 0 /\ val = None
  /\ got = None
  /\ happensBeforeP = Slot
  /\ happensBeforeC = {}
-----------------------------------------------------------------------------
(* Producer.  Every caller of push retries on RingFull, so a push is in    *)
(* progress ("check") until there is room.                                 *)

StartPush(v) ==
  /\ pcP = "idle"
  /\ pcP' = "check"
  /\ arg' = v
  /\ UNCHANGED <<tail, head, slots, localTail, cachedHead, consumerVars,
                 happensBeforeP, happensBeforeC>>

\* ptr::write begins.
BeginWrite ==
  /\ pcP' = "write"
  /\ slots' = [slots EXCEPT ![Idx(localTail)] = Torn]
  /\ happensBeforeC' = happensBeforeC \ {Idx(localTail)}

FullOffByOne(h) == Sub(localTail, h) > N
Full(h) == Sub(localTail, h) >= N

PushFast ==
  /\ pcP = "check"
  /\ ~Full(cachedHead)
  /\ BeginWrite
  /\ UNCHANGED <<tail, head, localTail, cachedHead, arg, consumerVars,
                 happensBeforeP>>

LoadHeadNever == UNCHANGED <<cachedHead, happensBeforeP>>
LoadHead ==
  /\ cachedHead' \in Loads(cachedHead, head)
  /\ happensBeforeP' = happensBeforeP \cup
       Ordered(HeadStore, HeadLoad,
               SlotsFrom(localTail, N - Sub(localTail, cachedHead')))

PushRefresh ==
  /\ pcP = "check"
  /\ Full(cachedHead)
  /\ LoadHead
  /\ ~Full(cachedHead')
  /\ BeginWrite
  /\ UNCHANGED <<tail, head, localTail, arg, consumerVars>>

PushFull ==
  /\ pcP = "check"
  /\ Full(cachedHead)
  /\ LoadHead
  /\ Full(cachedHead')
  /\ UNCHANGED <<tail, head, slots, pcP, localTail, arg, consumerVars,
                 happensBeforeC>>

WriteSlot ==
  /\ pcP = "write"
  /\ slots' = [slots EXCEPT ![Idx(localTail)] = arg]
  /\ localTail' = Add(localTail, 1)
  /\ pcP' = "publish"
  /\ UNCHANGED <<tail, head, cachedHead, arg, consumerVars,
                 happensBeforeP, happensBeforeC>>

PublishTail ==
  /\ pcP = "publish"
  /\ tail' = localTail
  /\ pcP' = "idle"
  /\ arg' = None
  /\ UNCHANGED <<head, slots, localTail, cachedHead, consumerVars,
                 happensBeforeP, happensBeforeC>>

ProducerRestartBlind ==
  /\ pcP' = "idle"
  /\ arg' = None
  /\ localTail' = tail
  /\ cachedHead' = tail
  /\ happensBeforeP' = happensBeforeP \cup
       Ordered(HeadStore, "Acquire", SlotsFrom(tail, N - Sub(tail, head)))
  /\ UNCHANGED <<tail, head, slots, consumerVars, happensBeforeC>>

\* The producer's process dies and a new one calls Producer::new.
ProducerRestart ==
  /\ pcP' = "idle"
  /\ arg' = None
  /\ localTail' = tail
  /\ cachedHead' = head
  /\ happensBeforeP' = happensBeforeP \cup
       Ordered(HeadStore, "Acquire", SlotsFrom(tail, N - Sub(tail, head)))
  /\ UNCHANGED <<tail, head, slots, consumerVars, happensBeforeC>>
-----------------------------------------------------------------------------
(* Consumer.  Every caller polls again after a pop that returned None.     *)

\* ptr::read begins.
BeginRead ==
  /\ pcC' = "read"
  /\ happensBeforeP' = happensBeforeP \ {Idx(localHead)}

PopFastNoWrap ==
  /\ pcC = "idle"
  /\ localHead < cachedTail
  /\ BeginRead
  /\ UNCHANGED <<tail, head, slots, producerVars, localHead, cachedTail, val,
                 got, happensBeforeC>>

PopFast ==
  /\ pcC = "idle"
  /\ localHead # cachedTail
  /\ BeginRead
  /\ UNCHANGED <<tail, head, slots, producerVars, localHead, cachedTail, val,
                 got, happensBeforeC>>

LoadTail ==
  /\ cachedTail' \in Loads(cachedTail, tail)
  /\ happensBeforeC' = happensBeforeC \cup
       Ordered(TailStore, TailLoad,
               SlotsFrom(localHead, Sub(cachedTail', localHead)))

PopReload ==
  /\ pcC = "idle"
  /\ localHead = cachedTail
  /\ LoadTail
  /\ localHead # cachedTail'
  /\ BeginRead
  /\ UNCHANGED <<tail, head, slots, producerVars, localHead, val, got>>

PopEmpty ==
  /\ pcC = "idle"
  /\ localHead = cachedTail
  /\ LoadTail
  /\ localHead = cachedTail'
  /\ UNCHANGED <<tail, head, slots, producerVars, pcC, localHead, val, got,
                 happensBeforeP>>

ReadSlot ==
  /\ pcC = "read"
  /\ val' = slots[Idx(localHead)]
  /\ localHead' = Add(localHead, 1)
  /\ pcC' = "publish"
  /\ UNCHANGED <<tail, head, slots, producerVars, cachedTail, got,
                 happensBeforeP, happensBeforeC>>

PublishHead ==
  /\ pcC = "publish"
  /\ head' = localHead
  /\ got' = val
  /\ val' = None
  /\ pcC' = "idle"
  /\ UNCHANGED <<tail, slots, producerVars, localHead, cachedTail,
                 happensBeforeP, happensBeforeC>>

\* The consumer's process dies and a new one calls Consumer::new.
ConsumerRestart ==
  /\ pcC' = "idle"
  /\ val' = None
  /\ localHead' = head
  /\ cachedTail' = tail
  /\ happensBeforeC' = happensBeforeC \cup
       Ordered(TailStore, "Acquire", SlotsFrom(head, Sub(tail, head)))
  /\ UNCHANGED <<tail, head, slots, producerVars, got, happensBeforeP>>
-----------------------------------------------------------------------------
Producer == (\E v \in T : StartPush(v)) \/ PushFast \/ PushRefresh \/ PushFull
              \/ WriteSlot \/ PublishTail
Consumer == PopFast \/ PopReload \/ PopEmpty \/ ReadSlot \/ PublishHead
Restart  == ProducerRestart \/ ConsumerRestart

Next == Producer \/ Consumer \/ Restart

Spec == Init /\ [][Next]_vars

(***************************************************************************)
(* Both endpoints are polled by loops that never give up, and an atomic    *)
(* store becomes visible to a load repeated often enough: PushRefresh and  *)
(* PopReload, the loads that see something new, cannot be put off forever. *)
(***************************************************************************)
Fairness ==
  /\ WF_vars(PushFast) /\ WF_vars(PushRefresh)
  /\ WF_vars(WriteSlot) /\ WF_vars(PublishTail)
  /\ WF_vars(PopFast) /\ WF_vars(PopReload)
  /\ WF_vars(ReadSlot) /\ WF_vars(PublishHead)

\* Processes restart, but not for ever.
LiveSpec == Spec /\ Fairness /\ <>[][Producer \/ Consumer]_vars
-----------------------------------------------------------------------------
(* Every variable holds a value of its type: the counters stay below the   *)
(* modulus of usize, and what the consumer reads is never a torn payload.  *)
TypeOK ==
  /\ {tail, head, localTail, cachedHead, localHead, cachedTail} \subseteq Counter
  /\ slots \in [Slot -> T \cup {None, Torn}]
  /\ pcP \in {"idle", "check", "write", "publish"}
  /\ pcC \in {"idle", "read", "publish"}
  /\ arg \in T \cup {None} /\ (arg = None <=> pcP = "idle")
  /\ {val, got} \subseteq T \cup {None}
  /\ happensBeforeP \subseteq Slot
  /\ happensBeforeC \subseteq Slot

(* No data race on a slot: whenever the producer is writing a slot, the    *)
(* consumer's last read of it happens before; whenever the consumer is     *)
(* reading one, the producer's last write happens before.  (Whichever      *)
(* begins second in the same slot takes it away from the other, so the two *)
(* are never inside one slot together.)  This is what the Release/Acquire  *)
(* pairs and the two fullness and emptiness tests exist for.               *)
RaceFree ==
  /\ pcP = "write" => Idx(localTail) \in happensBeforeP
  /\ pcC = "read"  => Idx(localHead) \in happensBeforeC

(* The inductive invariant behind both.  Along the counters, in the order  *)
(*    cachedHead <= head <= localHead <= cachedTail <= tail <= localTail   *)
(* no two are more than N apart, and an endpoint runs ahead of the counter *)
(* it owns by one, between a slot access and the store that publishes it.  *)
Occupancy == Sub(tail, head) <= N

ProducerView ==
  /\ localTail = IF pcP = "publish" THEN Add(tail, 1) ELSE tail
  /\ Sub(localTail, head) <= Sub(localTail, cachedHead)
  /\ Sub(localTail, cachedHead) <= N
  /\ pcP = "write" => Sub(localTail, cachedHead) < N
  /\ pcP = "publish" => Sub(tail, head) < N

ConsumerView ==
  /\ localHead = IF pcC = "publish" THEN Add(head, 1) ELSE head
  /\ Sub(cachedTail, localHead) <= Sub(tail, localHead)
  /\ pcC = "read" => localHead # cachedTail
  /\ pcC = "publish" => tail # head

\* The slots between head and tail hold whole payloads, the accesses in
\* progress included.
SlotsView ==
  /\ \A i \in 0 .. Sub(tail, head) - 1 : slots[Idx(Add(head, i))] \in T
  /\ pcP = "publish" => slots[Idx(tail)] = arg
  /\ pcC = "publish" => val = slots[Idx(head)]

\* What each endpoint may touch without loading the other's counter again.
OrderView ==
  /\ \A i \in 0 .. Sub(cachedTail, localHead) - 1 :
       Idx(Add(localHead, i)) \in happensBeforeC
  /\ \A i \in 0 .. N - Sub(localTail, cachedHead) - 1 :
       Idx(Add(localTail, i)) \in happensBeforeP

IInv == /\ TypeOK /\ Occupancy /\ ProducerView /\ ConsumerView
        /\ SlotsView /\ OrderView

(* The ring is a bounded FIFO channel: nothing is lost, torn, duplicated   *)
(* or reordered, across counter wrap-around and restarts of either end.    *)
Buffered == [i \in 1 .. Sub(tail, head) |-> slots[Idx(Add(head, i - 1))]]

Fifo == INSTANCE FifoChannel
          WITH inp <- arg, q <- Buffered, out <- got, Capacity <- N

ImplementsFifo == Fifo!Spec

(* A push that waits for room gets it: the retry loops of the callers end. *)
PushCompletes == (pcP = "check") ~> (pcP = "idle")

(* Every value published is eventually popped, wherever the counters are.  *)
Delivered == \A h \in Counter : (head = h /\ tail # h) ~> (head # h)
=============================================================================
