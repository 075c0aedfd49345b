--------------------------- MODULE SpscRingProofs ---------------------------
(***************************************************************************)
(* Proofs about SpscRing for every capacity N, every counter width and     *)
(* every set of payloads: type correctness, freedom from data races, and   *)
(* that the ring implements FifoChannel.                                   *)
(***************************************************************************)
EXTENDS SpscRing, SequenceTheorems, TLAPS
-----------------------------------------------------------------------------
(* Wrapping arithmetic.                                                    *)

(* Adding up to N to a counter yields a counter that far ahead of it.      *)
LEMMA AddAhead ==
  ASSUME NEW a \in Counter, NEW k \in 0 .. N
  PROVE  Add(a, k) \in Counter /\ Sub(Add(a, k), a) = k
  BY RingAssumption DEF Counter, Add, Sub

(* The distance between two counters is a natural number below the modulus,*)
(* zero only between equal counters.                                       *)
LEMMA SubType ==
  ASSUME NEW a \in Counter, NEW b \in Counter
  PROVE  Sub(a, b) \in 0 .. Modulus - 1 /\ (Sub(a, b) = 0 <=> a = b)
  BY RingAssumption DEF Counter, Sub

(* One step of the counter ahead lengthens a distance shorter than N ...   *)
LEMMA StepAhead ==
  ASSUME NEW a \in Counter, NEW b \in Counter, Sub(a, b) < N
  PROVE  Add(a, 1) \in Counter /\ Sub(Add(a, 1), b) = Sub(a, b) + 1
  BY RingAssumption DEF Counter, Add, Sub

(* ... and one step of the counter behind shortens it, if there is any.    *)
LEMMA StepBehind ==
  ASSUME NEW a \in Counter, NEW b \in Counter, a # b
  PROVE  Add(b, 1) \in Counter /\ Sub(a, Add(b, 1)) = Sub(a, b) - 1
  BY RingAssumption DEF Counter, Add, Sub

(* Offsets add up.                                                         *)
LEMMA AddOne ==
  ASSUME NEW a \in Counter, NEW i \in 0 .. N - 1
  PROVE  Add(Add(a, 1), i) = Add(a, i + 1)
  BY RingAssumption DEF Counter, Add

(* A counter is its distance ahead of any counter behind it.               *)
LEMMA AddSub ==
  ASSUME NEW a \in Counter, NEW b \in Counter
  PROVE  Add(b, Sub(a, b)) = a
  BY RingAssumption DEF Counter, Add, Sub

(* A load returns a counter between the one seen before and the current.   *)
LEMMA LoadBetween ==
  ASSUME NEW old \in Counter, NEW cur \in Counter, NEW c \in Loads(old, cur)
  PROVE  /\ c \in Counter
         /\ Sub(cur, old) = Sub(cur, c) + Sub(c, old)
<1>1. PICK i \in 0 .. Sub(cur, old) : c = Add(old, i)  BY DEF Loads
<1>2. QED  BY <1>1, RingAssumption DEF Counter, Add, Sub
-----------------------------------------------------------------------------
(* Slots.                                                                  *)

(* No multiple of N lies strictly between 0 and N.                         *)
LEMMA NoMultiple ==
  ASSUME NEW p \in Int, NEW d \in Int, N * p = d, 0 < d, d < N
  PROVE  FALSE
<1>1. CASE p >= 1  BY <1>1, RingAssumption, N * p >= N
<1>2. CASE p <= 0  BY <1>2, RingAssumption, N * p <= 0
<1>3. QED  BY <1>1, <1>2

(* counter & (N - 1) is a slot of the ring.                                *)
LEMMA IdxType == ASSUME NEW c \in Counter PROVE Idx(c) \in Slot
  BY RingAssumption DEF Counter, Idx, Slot

(* Counters less than N apart fall in different slots, also where they wrap*)
(* around: this is where N must divide the modulus.                        *)
LEMMA IdxDistinct ==
  ASSUME NEW a \in Counter, NEW b \in Counter, 0 < Sub(a, b), Sub(a, b) < N
  PROVE  Idx(a) # Idx(b)
<1> DEFINE qa == a \div N
           qb == b \div N
           laps == Modulus \div N
<1>1. SUFFICES ASSUME Idx(a) = Idx(b) PROVE FALSE
  OBVIOUS
<1>2. a \in Int /\ b \in Int /\ N \in Int /\ Modulus \in Int
  BY RingAssumption DEF Counter
<1>3. a = N * qa + (a % N) /\ qa \in Int  BY RingAssumption, <1>2
<1>4. b = N * qb + (b % N) /\ qb \in Int  BY RingAssumption, <1>2
<1>5. Modulus = N * laps /\ laps \in Int  BY RingAssumption, <1>2
<1>6. a % N = b % N  BY <1>1 DEF Idx
<1> HIDE DEF qa, qb, laps
<1>7. a - b = N * (qa - qb)
  <2>1. N * (qa - qb) = N * qa - N * qb  BY <1>2, <1>3, <1>4
  <2>2. QED  BY <2>1, <1>2, <1>3, <1>4, <1>6, RingAssumption
<1>8. CASE a >= b
  BY <1>8, <1>7, <1>3, <1>4, NoMultiple, RingAssumption DEF Sub
<1>9. CASE ~(a >= b)
  <2>1. N * (qa - qb + laps) = N * (qa - qb) + N * laps
    BY <1>2, <1>3, <1>4, <1>5
  <2>2. a - b + Modulus = N * (qa - qb + laps)  BY <2>1, <1>5, <1>7
  <2>3. 0 < a - b + Modulus /\ a - b + Modulus < N  BY <1>9 DEF Sub
  <2>4. qa - qb + laps \in Int /\ a - b + Modulus \in Int
    BY <1>2, <1>3, <1>4, <1>5
  <2> HIDE DEF qa, qb, laps
  <2>5. QED  BY <2>2, <2>3, <2>4, NoMultiple
<1>10. QED  BY <1>8, <1>9

(* The counters from a up to b, less than N ahead, avoid the slot of b.    *)
LEMMA SlotAhead ==
  ASSUME NEW a \in Counter, NEW b \in Counter, Sub(b, a) < N,
         NEW i \in 0 .. Sub(b, a) - 1
  PROVE  Idx(Add(a, i)) # Idx(b)
<1>1. Add(a, i) \in Counter /\ Sub(b, Add(a, i)) = Sub(b, a) - i
  BY RingAssumption DEF Counter, Add, Sub
<1>2. QED  BY <1>1, SubType, RingAssumption, IdxDistinct

(* The counters from a on, as long as they are less than N ahead of b, and *)
(* not b itself, avoid the slot of b.                                      *)
LEMMA SlotBehind ==
  ASSUME NEW a \in Counter, NEW b \in Counter, a # b,
         NEW i \in 0 .. N - Sub(a, b) - 1
  PROVE  Idx(Add(a, i)) # Idx(b)
<1>1. Add(a, i) \in Counter /\ Sub(Add(a, i), b) = Sub(a, b) + i
  BY RingAssumption, SubType DEF Counter, Add, Sub
<1>2. QED  BY <1>1, SubType, RingAssumption, IdxDistinct
-----------------------------------------------------------------------------
(* The inductive invariant.                                                *)

(* The zeroed segment and the two fresh endpoints satisfy it.              *)
LEMMA InitIInv == Init => IInv
<1> SUFFICES ASSUME Init PROVE IInv
  OBVIOUS
<1>1. 0 \in Counter /\ Sub(0, 0) = 0
  BY RingAssumption DEF Counter, Sub
<1>2. TypeOK
  BY <1>1, RingAssumption DEF Init, TypeOK
<1>3. Occupancy /\ ProducerView /\ ConsumerView /\ SlotsView
  BY <1>1, RingAssumption DEF Init, Occupancy, ProducerView, ConsumerView, SlotsView
<1>4. OrderView
  <2>1. ASSUME NEW i \in 0 .. N - 1 PROVE Idx(Add(0, i)) \in Slot
    BY <1>1, AddAhead, IdxType, RingAssumption
  <2>2. QED  BY <2>1, <1>1, RingAssumption DEF Init, OrderView
<1>5. QED  BY <1>2, <1>3, <1>4 DEF IInv

(* What the invariant says of the counters alone.                          *)
LEMMA Facts ==
  ASSUME IInv
  PROVE  /\ {tail, head, localTail, cachedHead, localHead, cachedTail} \subseteq Counter
         /\ Sub(tail, head) \in 0 .. N
         /\ Sub(localTail, head) \in 0 .. N
         /\ Sub(localTail, cachedHead) \in 0 .. N
         /\ Sub(cachedTail, localHead) \in 0 .. N
         /\ Sub(tail, localHead) <= Sub(tail, head)
         /\ Sub(tail, localHead) \in 0 .. N
         /\ Sub(tail, head) <= Sub(localTail, head)
<1>1. {tail, head, localTail, cachedHead, localHead, cachedTail} \subseteq Counter
  BY DEF IInv, TypeOK
<1>2. Sub(tail, head) \in 0 .. N
  BY <1>1, SubType DEF IInv, Occupancy
<1>3. /\ Sub(localTail, cachedHead) \in 0 .. N
      /\ Sub(localTail, head) \in 0 .. N
  BY <1>1, SubType, RingAssumption DEF IInv, ProducerView
<1>4. Sub(tail, localHead) <= Sub(tail, head) /\ Sub(tail, localHead) \in 0 .. N
  <2>1. CASE pcC = "publish"
    <3>1. localHead = Add(head, 1) /\ tail # head
      BY <2>1 DEF IInv, ConsumerView
    <3>2. Sub(tail, localHead) = Sub(tail, head) - 1
      BY <3>1, <1>1, StepBehind
    <3>3. Sub(tail, head) # 0  BY <3>1, <1>1, SubType
    <3>4. QED  BY <3>2, <3>3, <1>2, RingAssumption
  <2>2. CASE pcC # "publish"
    BY <2>2, <1>1, <1>2 DEF IInv, ConsumerView
  <2>3. QED  BY <2>1, <2>2
<1>5. Sub(tail, head) <= Sub(localTail, head)
  <2>1. CASE pcP = "publish"
    <3>1. localTail = Add(tail, 1)  BY <2>1 DEF IInv, ProducerView
    <3>2. Sub(tail, head) < N  BY <2>1 DEF IInv, ProducerView
    <3>3. Sub(localTail, head) = Sub(tail, head) + 1
      BY <3>1, <3>2, <1>1, StepAhead
    <3>4. QED  BY <3>3, <1>2, RingAssumption
  <2>2. CASE pcP # "publish"
    BY <2>2, <1>2 DEF IInv, ProducerView
  <2>3. QED  BY <2>1, <2>2
<1>6. Sub(cachedTail, localHead) \in 0 .. N
  <2>1. Sub(cachedTail, localHead) \in 0 .. Modulus - 1  BY <1>1, SubType
  <2>2. Sub(cachedTail, localHead) <= Sub(tail, localHead)
    BY DEF IInv, ConsumerView
  <2>3. QED  BY <2>1, <2>2, <1>4, RingAssumption
<1>7. QED  BY <1>1, <1>2, <1>3, <1>4, <1>5, <1>6
-----------------------------------------------------------------------------
(* The two loads of the other endpoint's counter.                          *)

(* SlotsFrom yields slots.                                                 *)
LEMMA SlotsFromType ==
  ASSUME NEW a \in Counter, NEW k \in 0 .. N
  PROVE  SlotsFrom(a, k) \subseteq Slot
<1>1. ASSUME NEW i \in 0 .. k - 1 PROVE Idx(Add(a, i)) \in Slot
  <2>1. i \in 0 .. N  BY RingAssumption
  <2>2. QED  BY <2>1, AddAhead, IdxType
<1>2. QED  BY <1>1 DEF SlotsFrom

(* A load returns a counter at a distance between those of the counter seen*)
(* before and of the current one.                                          *)
LEMMA LoadBehind ==
  ASSUME NEW a \in Counter, NEW old \in Counter, NEW cur \in Counter,
         Sub(a, cur) <= Sub(a, old), NEW c \in Loads(old, cur)
  PROVE  c \in Counter /\ Sub(a, cur) <= Sub(a, c) /\ Sub(a, c) <= Sub(a, old)
<1>1. c \in Counter /\ Sub(cur, old) = Sub(cur, c) + Sub(c, old)
  BY LoadBetween
<1>2. QED  BY <1>1, RingAssumption DEF Counter, Sub

(* The same for a load of a counter that grows away from a fixed one.      *)
LEMMA LoadAhead ==
  ASSUME NEW a \in Counter, NEW old \in Counter, NEW cur \in Counter,
         Sub(old, a) <= Sub(cur, a), NEW c \in Loads(old, cur)
  PROVE  c \in Counter /\ Sub(c, a) <= Sub(cur, a)
<1>1. c \in Counter /\ Sub(cur, old) = Sub(cur, c) + Sub(c, old)
  BY LoadBetween
<1>2. QED  BY <1>1, RingAssumption DEF Counter, Sub

(* What the producer knows after it loaded head, or did not.               *)
HeadKnown ==
  /\ cachedHead' \in Counter
  /\ Sub(localTail, head) <= Sub(localTail, cachedHead')
  /\ Sub(localTail, cachedHead') \in 0 .. N
  /\ happensBeforeP' \subseteq Slot
  /\ \A i \in 0 .. N - Sub(localTail, cachedHead') - 1 :
       Idx(Add(localTail, i)) \in happensBeforeP'

(* The producer still knows it when it does not load head.                 *)
LEMMA HeadUnchanged ==
  ASSUME IInv, UNCHANGED <<cachedHead, happensBeforeP>> PROVE HeadKnown
<1>1. /\ localTail \in Counter /\ cachedHead \in Counter
      /\ Sub(localTail, cachedHead) \in 0 .. N
  BY Facts
<1>2. QED  BY <1>1 DEF HeadKnown, IInv, TypeOK, ProducerView, OrderView

(* The producer knows it after it loaded head, however old the value it    *)
(* got.                                                                    *)
LEMMA HeadLoaded == ASSUME IInv, LoadHead PROVE HeadKnown
<1>1. /\ localTail \in Counter /\ head \in Counter /\ cachedHead \in Counter
      /\ Sub(localTail, cachedHead) \in 0 .. N
  BY Facts
<1>2. Sub(localTail, head) <= Sub(localTail, cachedHead)
  BY DEF IInv, ProducerView
<1>3. cachedHead' \in Loads(cachedHead, head)  BY DEF LoadHead
<1>4. /\ cachedHead' \in Counter
      /\ Sub(localTail, head) <= Sub(localTail, cachedHead')
      /\ Sub(localTail, cachedHead') <= Sub(localTail, cachedHead)
  BY <1>1, <1>2, <1>3, LoadBehind
<1>5. Sub(localTail, cachedHead') \in 0 .. N
  <2>1. Sub(localTail, cachedHead') \in 0 .. Modulus - 1
    BY <1>1, <1>4, SubType
  <2>2. QED  BY <2>1, <1>1, <1>4, RingAssumption
<1> DEFINE gained == SlotsFrom(localTail, N - Sub(localTail, cachedHead'))
<1>6. happensBeforeP' = happensBeforeP \cup gained
  BY DEF LoadHead, Ordered, HeadStore, HeadLoad
<1>7. happensBeforeP' \subseteq Slot
  <2>1. N - Sub(localTail, cachedHead') \in 0 .. N  BY <1>5, RingAssumption
  <2>2. gained \subseteq Slot  BY <2>1, <1>1, SlotsFromType
  <2>3. QED  BY <2>2, <1>6 DEF IInv, TypeOK
<1>8. \A i \in 0 .. N - Sub(localTail, cachedHead') - 1 :
        Idx(Add(localTail, i)) \in happensBeforeP'
  BY <1>6 DEF SlotsFrom
<1>9. QED  BY <1>4, <1>5, <1>7, <1>8 DEF HeadKnown

(* What the consumer knows after it loaded tail, or did not.               *)
TailKnown ==
  /\ cachedTail' \in Counter
  /\ Sub(cachedTail', localHead) <= Sub(tail, localHead)
  /\ Sub(cachedTail', localHead) \in 0 .. N
  /\ happensBeforeC' \subseteq Slot
  /\ \A i \in 0 .. Sub(cachedTail', localHead) - 1 :
       Idx(Add(localHead, i)) \in happensBeforeC'

(* The consumer still knows it when it does not load tail.                 *)
LEMMA TailUnchanged ==
  ASSUME IInv, UNCHANGED <<cachedTail, happensBeforeC>> PROVE TailKnown
<1>1. /\ localHead \in Counter /\ cachedTail \in Counter
      /\ Sub(cachedTail, localHead) \in 0 .. N
  BY Facts
<1>2. QED  BY <1>1 DEF TailKnown, IInv, TypeOK, ConsumerView, OrderView

(* The consumer knows it after it loaded tail, however old the value it    *)
(* got.                                                                    *)
LEMMA TailLoaded == ASSUME IInv, LoadTail PROVE TailKnown
<1>1. /\ localHead \in Counter /\ tail \in Counter /\ cachedTail \in Counter
      /\ Sub(tail, localHead) \in 0 .. N
  BY Facts
<1>2. Sub(cachedTail, localHead) <= Sub(tail, localHead)
  BY DEF IInv, ConsumerView
<1>3. cachedTail' \in Loads(cachedTail, tail)  BY DEF LoadTail
<1>4. cachedTail' \in Counter /\ Sub(cachedTail', localHead) <= Sub(tail, localHead)
  BY <1>1, <1>2, <1>3, LoadAhead
<1>5. Sub(cachedTail', localHead) \in 0 .. N
  <2>1. Sub(cachedTail', localHead) \in 0 .. Modulus - 1
    BY <1>1, <1>4, SubType
  <2>2. QED  BY <2>1, <1>1, <1>4, RingAssumption
<1> DEFINE gained == SlotsFrom(localHead, Sub(cachedTail', localHead))
<1>6. happensBeforeC' = happensBeforeC \cup gained
  BY DEF LoadTail, Ordered, TailStore, TailLoad
<1>7. happensBeforeC' \subseteq Slot
  <2>1. gained \subseteq Slot  BY <1>1, <1>5, SlotsFromType
  <2>2. QED  BY <2>1, <1>6 DEF IInv, TypeOK
<1>8. \A i \in 0 .. Sub(cachedTail', localHead) - 1 :
        Idx(Add(localHead, i)) \in happensBeforeC'
  BY <1>6 DEF SlotsFrom
<1>9. QED  BY <1>4, <1>5, <1>7, <1>8 DEF TailKnown
-----------------------------------------------------------------------------
(* Each action preserves the invariant.                                    *)

LEMMA StartPushStep ==
  ASSUME IInv, NEW v \in T, StartPush(v) PROVE IInv'
<1>1. TypeOK'
  BY RingAssumption DEF IInv, TypeOK, StartPush, consumerVars
<1>2. (Occupancy /\ ProducerView /\ ConsumerView /\ OrderView)'
  BY DEF IInv, StartPush, consumerVars, Occupancy, ProducerView, ConsumerView,
         OrderView
<1>3. SlotsView'
  BY DEF IInv, StartPush, consumerVars, SlotsView
<1>4. QED  BY <1>1, <1>2, <1>3 DEF IInv

(* The write begins in a slot outside head..tail that the consumer has left.*)
LEMMA BeginWriteStep ==
  ASSUME IInv, pcP = "check", HeadKnown, ~Full(cachedHead'), BeginWrite,
         UNCHANGED <<tail, head, localTail, arg, consumerVars>>
  PROVE  IInv'
<1>1. /\ tail \in Counter /\ head \in Counter /\ localTail \in Counter
      /\ localHead \in Counter /\ cachedTail \in Counter
      /\ Sub(tail, head) \in 0 .. N
      /\ Sub(tail, localHead) \in 0 .. N
      /\ Sub(cachedTail, localHead) \in 0 .. N
  BY Facts
<1>2. localTail = tail  BY DEF IInv, ProducerView
<1>3. Sub(localTail, cachedHead') < N
  BY RingAssumption DEF Full, HeadKnown
<1>4. Sub(tail, head) < N
  BY <1>1, <1>2, <1>3, RingAssumption DEF HeadKnown
<1>5. Idx(tail) \in Slot  BY <1>1, IdxType
<1>6. TypeOK'
  BY <1>2, <1>5 DEF IInv, TypeOK, BeginWrite, consumerVars, HeadKnown
<1>7. (Occupancy /\ ProducerView /\ ConsumerView)'
  BY <1>2, <1>3 DEF IInv, Occupancy, ProducerView, ConsumerView, HeadKnown,
                    BeginWrite, consumerVars
<1>8. SlotsView'
  <2>1. ASSUME NEW i \in 0 .. Sub(tail, head) - 1
        PROVE  slots'[Idx(Add(head, i))] = slots[Idx(Add(head, i))]
    <3>1. Idx(Add(head, i)) # Idx(tail)  BY <1>1, <1>4, SlotAhead
    <3>2. QED  BY <3>1, <1>2 DEF BeginWrite, IInv, TypeOK
  <2>2. pcC = "publish" => slots'[Idx(head)] = slots[Idx(head)]
    <3>1. SUFFICES ASSUME pcC = "publish"
                   PROVE  slots'[Idx(head)] = slots[Idx(head)]
      OBVIOUS
    <3>2. Sub(tail, head) > 0
      BY <3>1, <1>1, SubType, RingAssumption DEF IInv, ConsumerView
    <3>3. 0 \in 0 .. Sub(tail, head) - 1  BY <3>2, <1>1, RingAssumption
    <3>4. Add(head, 0) = head  BY <1>1, RingAssumption DEF Add, Counter
    <3>5. QED  BY <2>1, <3>3, <3>4
  <2>3. QED  BY <2>1, <2>2 DEF IInv, SlotsView, BeginWrite, consumerVars
<1>9. OrderView'
  <2>1. ASSUME NEW i \in 0 .. Sub(cachedTail, localHead) - 1
        PROVE  Idx(Add(localHead, i)) # Idx(tail)
    <3>1. Sub(tail, localHead) < N
      BY <1>1, <1>4, Facts, RingAssumption
    <3>2. i \in 0 .. Sub(tail, localHead) - 1
      BY <1>1, RingAssumption DEF IInv, ConsumerView
    <3>3. QED  BY <1>1, <3>1, <3>2, SlotAhead
  <2>2. \A i \in 0 .. Sub(cachedTail, localHead) - 1 :
          Idx(Add(localHead, i)) \in happensBeforeC'
    BY <2>1, <1>2 DEF IInv, OrderView, BeginWrite
  <2>3. QED  BY <2>2 DEF OrderView, HeadKnown, consumerVars
<1>10. QED  BY <1>6, <1>7, <1>8, <1>9 DEF IInv

(* A push that finds room by its cached head keeps the invariant.          *)
LEMMA PushFastStep == ASSUME IInv, PushFast PROVE IInv'
<1>1. HeadKnown  BY HeadUnchanged DEF PushFast
<1>2. QED  BY <1>1, BeginWriteStep DEF PushFast

(* A push that finds room after reloading head keeps the invariant.        *)
LEMMA PushRefreshStep == ASSUME IInv, PushRefresh PROVE IInv'
<1>1. HeadKnown  BY HeadLoaded DEF PushRefresh
<1>2. QED  BY <1>1, BeginWriteStep DEF PushRefresh

(* A push that finds the ring full keeps the invariant.                    *)
LEMMA PushFullStep == ASSUME IInv, PushFull PROVE IInv'
<1>1. HeadKnown  BY HeadLoaded DEF PushFull
<1>2. TypeOK'
  BY <1>1 DEF IInv, TypeOK, PushFull, consumerVars, HeadKnown
<1>3. (Occupancy /\ ProducerView /\ ConsumerView)'
  BY <1>1 DEF IInv, Occupancy, ProducerView, ConsumerView, HeadKnown, PushFull,
              consumerVars
<1>4. (SlotsView /\ OrderView)'
  BY <1>1 DEF IInv, SlotsView, OrderView, HeadKnown, PushFull, consumerVars
<1>5. QED  BY <1>2, <1>3, <1>4 DEF IInv

(* The payload is whole before localTail moves past its slot.              *)
LEMMA WriteSlotStep == ASSUME IInv, WriteSlot PROVE IInv'
<1>1. /\ tail \in Counter /\ head \in Counter /\ cachedHead \in Counter
      /\ Sub(tail, head) \in 0 .. N
  BY Facts
<1>2. pcP = "write" /\ localTail = tail  BY DEF IInv, ProducerView, WriteSlot
<1>3. Sub(tail, cachedHead) < N /\ Sub(tail, head) <= Sub(tail, cachedHead)
  BY <1>2 DEF IInv, ProducerView
<1>4. Sub(tail, cachedHead) \in 0 .. N - 1
  BY <1>1, <1>2, <1>3, Facts, RingAssumption
<1>5. Sub(tail, head) < N  BY <1>1, <1>3, <1>4, RingAssumption
<1>6. /\ localTail' = Add(tail, 1) /\ Add(tail, 1) \in Counter
      /\ Sub(localTail', cachedHead) = Sub(tail, cachedHead) + 1
      /\ Sub(localTail', head) = Sub(tail, head) + 1
  BY <1>1, <1>2, <1>3, <1>5, StepAhead DEF WriteSlot
<1>7. arg \in T /\ arg # None
  BY <1>2 DEF IInv, TypeOK
<1>8. Idx(tail) \in Slot  BY <1>1, IdxType
<1>9. TypeOK'
  BY <1>2, <1>6, <1>7, <1>8 DEF IInv, TypeOK, WriteSlot, consumerVars
<1>10. (Occupancy /\ ProducerView /\ ConsumerView)'
  <2>1. ProducerView'
    BY <1>1, <1>3, <1>4, <1>5, <1>6, RingAssumption DEF ProducerView, WriteSlot
  <2>2. QED  BY <2>1 DEF IInv, Occupancy, ConsumerView, WriteSlot, consumerVars
<1>11. SlotsView'
  <2>1. ASSUME NEW i \in 0 .. Sub(tail, head) - 1
        PROVE  slots'[Idx(Add(head, i))] = slots[Idx(Add(head, i))]
    <3>1. Idx(Add(head, i)) # Idx(tail)  BY <1>1, <1>5, SlotAhead
    <3>2. QED  BY <3>1, <1>2 DEF WriteSlot, IInv, TypeOK
  <2>2. pcC = "publish" => slots'[Idx(head)] = slots[Idx(head)]
    <3>1. SUFFICES ASSUME pcC = "publish"
                   PROVE  slots'[Idx(head)] = slots[Idx(head)]
      OBVIOUS
    <3>2. Sub(tail, head) > 0
      BY <3>1, <1>1, SubType, RingAssumption DEF IInv, ConsumerView
    <3>3. 0 \in 0 .. Sub(tail, head) - 1  BY <3>2, <1>1, RingAssumption
    <3>4. Add(head, 0) = head  BY <1>1, RingAssumption DEF Add, Counter
    <3>5. QED  BY <2>1, <3>3, <3>4
  <2>3. slots'[Idx(tail)] = arg
    BY <1>2, <1>8 DEF WriteSlot, IInv, TypeOK
  <2>4. QED
    BY <2>1, <2>2, <2>3 DEF IInv, SlotsView, WriteSlot, consumerVars
<1>12. OrderView'
  <2>1. ASSUME NEW i \in 0 .. N - Sub(localTail', cachedHead) - 1
        PROVE  Idx(Add(localTail', i)) \in happensBeforeP
    <3>1. i \in 0 .. N - 1  BY <1>4, <1>6, RingAssumption
    <3>2. Add(localTail', i) = Add(tail, i + 1)  BY <3>1, <1>1, <1>6, AddOne
    <3>3. i + 1 \in 0 .. N - Sub(tail, cachedHead) - 1
      BY <1>4, <1>6, RingAssumption
    <3>4. QED  BY <3>2, <3>3, <1>2 DEF IInv, OrderView
  <2>2. QED  BY <2>1 DEF IInv, OrderView, WriteSlot, consumerVars
<1>13. QED  BY <1>9, <1>10, <1>11, <1>12 DEF IInv

(* Publishing the new tail keeps the invariant.                            *)
LEMMA PublishTailStep == ASSUME IInv, PublishTail PROVE IInv'
<1>1. /\ tail \in Counter /\ head \in Counter /\ localHead \in Counter
      /\ Sub(tail, head) \in 0 .. N
      /\ Sub(tail, localHead) \in 0 .. N
      /\ Sub(tail, localHead) <= Sub(tail, head)
      /\ Sub(cachedTail, localHead) \in 0 .. N
  BY Facts
<1>2. pcP = "publish" /\ Sub(tail, head) < N /\ tail' = Add(tail, 1)
      /\ tail' = localTail
  BY DEF IInv, ProducerView, PublishTail
<1>3. /\ Sub(tail', head) = Sub(tail, head) + 1
      /\ Sub(tail', localHead) = Sub(tail, localHead) + 1
      /\ tail' \in Counter
  <2>1. Sub(tail, localHead) < N  BY <1>1, <1>2, RingAssumption
  <2>2. QED  BY <2>1, <1>1, <1>2, StepAhead
<1>4. slots[Idx(tail)] = arg /\ arg \in T
  BY <1>2 DEF IInv, SlotsView, TypeOK
<1>5. TypeOK'
  BY <1>3 DEF IInv, TypeOK, PublishTail, consumerVars
<1>6. (Occupancy /\ ProducerView)'
  BY <1>1, <1>2, <1>3, RingAssumption
  DEF IInv, Occupancy, ProducerView, PublishTail
<1>7. ConsumerView'
  <2>1. Sub(cachedTail, localHead) <= Sub(tail', localHead)
    BY <1>1, <1>3, RingAssumption DEF IInv, ConsumerView
  <2>2. tail' # head  BY <1>1, <1>3, SubType, RingAssumption
  <2>3. QED  BY <2>1, <2>2 DEF IInv, ConsumerView, PublishTail, consumerVars
<1>8. SlotsView'
  <2>1. ASSUME NEW i \in 0 .. Sub(tail', head) - 1
        PROVE  slots[Idx(Add(head, i))] \in T
    <3>1. CASE i = Sub(tail, head)
      BY <3>1, <1>1, <1>4, AddSub
    <3>2. CASE i # Sub(tail, head)
      <4>1. i \in 0 .. Sub(tail, head) - 1
        BY <3>2, <1>1, <1>3, RingAssumption
      <4>2. QED  BY <4>1 DEF IInv, SlotsView
    <3>3. QED  BY <3>1, <3>2
  <2>2. QED
    BY <2>1, <1>2 DEF IInv, SlotsView, PublishTail, consumerVars
<1>9. OrderView'
  BY DEF IInv, OrderView, PublishTail, consumerVars
<1>10. QED  BY <1>5, <1>6, <1>7, <1>8, <1>9 DEF IInv

(* A producer that attaches again keeps the invariant.                     *)
LEMMA ProducerRestartStep == ASSUME IInv, ProducerRestart PROVE IInv'
<1>1. /\ tail \in Counter /\ head \in Counter /\ Sub(tail, head) \in 0 .. N
  BY Facts
<1> DEFINE gained == SlotsFrom(tail, N - Sub(tail, head))
<1>2. happensBeforeP' = happensBeforeP \cup gained
  BY DEF ProducerRestart, Ordered, HeadStore
<1>3. TypeOK'
  <2>1. N - Sub(tail, head) \in 0 .. N  BY <1>1, RingAssumption
  <2>2. gained \subseteq Slot  BY <2>1, <1>1, SlotsFromType
  <2>3. QED
    BY <2>2, <1>1, <1>2 DEF IInv, TypeOK, ProducerRestart, consumerVars
<1>4. (Occupancy /\ ProducerView /\ ConsumerView)'
  BY <1>1, RingAssumption
  DEF IInv, Occupancy, ProducerView, ConsumerView, ProducerRestart, consumerVars
<1>5. SlotsView'
  BY DEF IInv, SlotsView, ProducerRestart, consumerVars
<1>6. OrderView'
  <2>1. \A i \in 0 .. N - Sub(tail, head) - 1 :
          Idx(Add(tail, i)) \in happensBeforeP'
    BY <1>2 DEF SlotsFrom
  <2>2. QED  BY <2>1 DEF IInv, OrderView, ProducerRestart, consumerVars
<1>7. QED  BY <1>3, <1>4, <1>5, <1>6 DEF IInv
-----------------------------------------------------------------------------
(* The read begins in a slot that the producer may not enter before it has *)
(* loaded head again.                                                      *)
LEMMA BeginReadStep ==
  ASSUME IInv, pcC = "idle", TailKnown, localHead # cachedTail', BeginRead,
         UNCHANGED <<tail, head, slots, producerVars, localHead, val, got>>
  PROVE  IInv'
<1>1. /\ tail \in Counter /\ head \in Counter /\ localTail \in Counter
      /\ localHead \in Counter /\ cachedHead \in Counter
      /\ Sub(tail, head) \in 0 .. N
      /\ Sub(localTail, head) \in 0 .. N
      /\ Sub(tail, head) <= Sub(localTail, head)
      /\ Sub(localTail, cachedHead) \in 0 .. N
  BY Facts
<1>2. localHead = head  BY DEF IInv, ConsumerView
<1>3. Sub(tail, head) > 0
  <2>1. Sub(cachedTail', localHead) # 0  BY <1>1, SubType DEF TailKnown
  <2>2. QED  BY <2>1, <1>1, <1>2, RingAssumption DEF TailKnown
<1>4. localTail # head
  <2>1. Sub(localTail, head) # 0  BY <1>1, <1>3, RingAssumption
  <2>2. QED  BY <2>1, <1>1, SubType
<1>5. TypeOK'
  BY DEF IInv, TypeOK, TailKnown, BeginRead, producerVars
<1>6. (Occupancy /\ ProducerView /\ ConsumerView /\ SlotsView)'
  BY <1>2 DEF IInv, Occupancy, ProducerView, ConsumerView, SlotsView, TailKnown,
              BeginRead, producerVars
<1>7. OrderView'
  <2>1. ASSUME NEW i \in 0 .. N - Sub(localTail, cachedHead) - 1
        PROVE  Idx(Add(localTail, i)) # Idx(head)
    <3>1. i \in 0 .. N - Sub(localTail, head) - 1
      BY <1>1, RingAssumption DEF IInv, ProducerView
    <3>2. QED  BY <3>1, <1>1, <1>4, SlotBehind
  <2>2. \A i \in 0 .. N - Sub(localTail, cachedHead) - 1 :
          Idx(Add(localTail, i)) \in happensBeforeP'
    BY <2>1, <1>2 DEF IInv, OrderView, BeginRead
  <2>3. QED  BY <2>2 DEF OrderView, TailKnown, producerVars
<1>8. QED  BY <1>5, <1>6, <1>7 DEF IInv

(* A pop that finds an entry by its cached tail keeps the invariant.       *)
LEMMA PopFastStep == ASSUME IInv, PopFast PROVE IInv'
<1>1. TailKnown  BY TailUnchanged DEF PopFast
<1>2. QED  BY <1>1, BeginReadStep DEF PopFast

(* A pop that finds an entry after reloading tail keeps the invariant.     *)
LEMMA PopReloadStep == ASSUME IInv, PopReload PROVE IInv'
<1>1. TailKnown  BY TailLoaded DEF PopReload
<1>2. QED  BY <1>1, BeginReadStep DEF PopReload

(* A pop that finds the ring empty keeps the invariant.                    *)
LEMMA PopEmptyStep == ASSUME IInv, PopEmpty PROVE IInv'
<1>1. TailKnown  BY TailLoaded DEF PopEmpty
<1>2. TypeOK'
  BY <1>1 DEF IInv, TypeOK, PopEmpty, producerVars, TailKnown
<1>3. (Occupancy /\ ProducerView /\ ConsumerView)'
  BY <1>1 DEF IInv, Occupancy, ProducerView, ConsumerView, TailKnown, PopEmpty,
              producerVars
<1>4. (SlotsView /\ OrderView)'
  BY <1>1 DEF IInv, SlotsView, OrderView, TailKnown, PopEmpty, producerVars
<1>5. QED  BY <1>2, <1>3, <1>4 DEF IInv

(* The consumer takes a whole payload out.                                 *)
LEMMA ReadSlotStep == ASSUME IInv, ReadSlot PROVE IInv'
<1>1. /\ tail \in Counter /\ head \in Counter /\ cachedTail \in Counter
      /\ Sub(tail, head) \in 0 .. N
      /\ Sub(cachedTail, localHead) \in 0 .. N
  BY Facts
<1>2. pcC = "read" /\ localHead = head /\ head # cachedTail
  BY DEF IInv, ConsumerView, ReadSlot
<1>3. Sub(cachedTail, head) > 0
  BY <1>1, <1>2, SubType, RingAssumption
<1>4. Sub(cachedTail, head) <= Sub(tail, head)
  BY <1>2 DEF IInv, ConsumerView
<1>5. tail # head
  BY <1>1, <1>2, <1>3, <1>4, SubType, RingAssumption
<1>6. /\ localHead' = Add(head, 1) /\ Add(head, 1) \in Counter
      /\ Sub(cachedTail, localHead') = Sub(cachedTail, head) - 1
      /\ Sub(tail, localHead') = Sub(tail, head) - 1
  BY <1>1, <1>2, <1>5, StepBehind DEF ReadSlot
<1>7. val' = slots[Idx(head)] /\ slots[Idx(head)] \in T
  <2>1. 0 \in 0 .. Sub(tail, head) - 1
    BY <1>1, <1>5, SubType, RingAssumption
  <2>2. Add(head, 0) = head  BY <1>1, RingAssumption DEF Add, Counter
  <2>3. slots[Idx(Add(head, 0))] \in T  BY <2>1 DEF IInv, SlotsView
  <2>4. QED  BY <2>2, <2>3, <1>2 DEF ReadSlot
<1>8. TypeOK'
  BY <1>6, <1>7 DEF IInv, TypeOK, ReadSlot, producerVars
<1>9. (Occupancy /\ ProducerView)'
  BY DEF IInv, Occupancy, ProducerView, ReadSlot, producerVars
<1>10. ConsumerView'
  BY <1>1, <1>2, <1>4, <1>5, <1>6, RingAssumption DEF ConsumerView, ReadSlot
<1>11. SlotsView'
  BY <1>7 DEF IInv, SlotsView, ReadSlot, producerVars
<1>12. OrderView'
  <2>1. ASSUME NEW i \in 0 .. Sub(cachedTail, localHead') - 1
        PROVE  Idx(Add(localHead', i)) \in happensBeforeC
    <3>1. i \in 0 .. N - 1  BY <1>1, <1>2, <1>6, RingAssumption
    <3>2. Add(localHead', i) = Add(head, i + 1)  BY <3>1, <1>1, <1>6, AddOne
    <3>3. i + 1 \in 0 .. Sub(cachedTail, head) - 1
      BY <1>1, <1>2, <1>6, RingAssumption
    <3>4. QED  BY <3>2, <3>3, <1>2 DEF IInv, OrderView
  <2>2. QED  BY <2>1 DEF IInv, OrderView, ReadSlot, producerVars
<1>13. QED  BY <1>8, <1>9, <1>10, <1>11, <1>12 DEF IInv

(* Publishing the new head keeps the invariant.                            *)
LEMMA PublishHeadStep == ASSUME IInv, PublishHead PROVE IInv'
<1>1. /\ tail \in Counter /\ head \in Counter /\ localTail \in Counter
      /\ cachedHead \in Counter
      /\ Sub(tail, head) \in 0 .. N
      /\ Sub(localTail, head) \in 0 .. N
      /\ Sub(tail, head) <= Sub(localTail, head)
      /\ Sub(localTail, cachedHead) \in 0 .. N
  BY Facts
<1>2. head' = Add(head, 1) /\ head' = localHead /\ tail # head
  BY DEF IInv, ConsumerView, PublishHead
<1>3. Sub(tail, head) > 0  BY <1>1, <1>2, SubType, RingAssumption
<1>4. localTail # head
  <2>1. Sub(localTail, head) # 0  BY <1>1, <1>3, RingAssumption
  <2>2. QED  BY <2>1, <1>1, SubType
<1>5. /\ Sub(tail, head') = Sub(tail, head) - 1
      /\ Sub(localTail, head') = Sub(localTail, head) - 1
      /\ head' \in Counter
  BY <1>1, <1>2, <1>4, StepBehind
<1>6. TypeOK'
  BY <1>5 DEF IInv, TypeOK, PublishHead, producerVars
<1>7. Occupancy' /\ ProducerView'
  BY <1>1, <1>5, RingAssumption
  DEF IInv, Occupancy, ProducerView, PublishHead, producerVars
<1>8. ConsumerView'
  BY <1>2 DEF IInv, ConsumerView, PublishHead
<1>9. SlotsView'
  <2>1. ASSUME NEW i \in 0 .. Sub(tail, head') - 1
        PROVE  slots[Idx(Add(head', i))] \in T
    <3>1. i \in 0 .. N - 1  BY <1>1, <1>5, RingAssumption
    <3>2. Add(head', i) = Add(head, i + 1)  BY <3>1, <1>1, <1>2, AddOne
    <3>3. i + 1 \in 0 .. Sub(tail, head) - 1
      BY <1>1, <1>5, RingAssumption
    <3>4. QED  BY <3>2, <3>3 DEF IInv, SlotsView
  <2>2. QED
    BY <2>1 DEF IInv, SlotsView, PublishHead, producerVars
<1>10. OrderView'
  BY DEF IInv, OrderView, PublishHead, producerVars
<1>11. QED  BY <1>6, <1>7, <1>8, <1>9, <1>10 DEF IInv

(* A consumer that attaches again keeps the invariant.                     *)
LEMMA ConsumerRestartStep == ASSUME IInv, ConsumerRestart PROVE IInv'
<1>1. /\ tail \in Counter /\ head \in Counter /\ Sub(tail, head) \in 0 .. N
  BY Facts
<1> DEFINE gained == SlotsFrom(head, Sub(tail, head))
<1>2. happensBeforeC' = happensBeforeC \cup gained
  BY DEF ConsumerRestart, Ordered, TailStore
<1>3. TypeOK'
  <2>1. gained \subseteq Slot  BY <1>1, SlotsFromType
  <2>2. QED
    BY <2>1, <1>1, <1>2 DEF IInv, TypeOK, ConsumerRestart, producerVars
<1>4. (Occupancy /\ ProducerView /\ ConsumerView)'
  BY <1>1, RingAssumption
  DEF IInv, Occupancy, ProducerView, ConsumerView, ConsumerRestart, producerVars
<1>5. SlotsView'
  BY DEF IInv, SlotsView, ConsumerRestart, producerVars
<1>6. OrderView'
  <2>1. \A i \in 0 .. Sub(tail, head) - 1 :
          Idx(Add(head, i)) \in happensBeforeC'
    BY <1>2 DEF SlotsFrom
  <2>2. QED  BY <2>1 DEF IInv, OrderView, ConsumerRestart, producerVars
<1>7. QED  BY <1>3, <1>4, <1>5, <1>6 DEF IInv
-----------------------------------------------------------------------------
(* The invariant holds.                                                    *)

LEMMA NextIInv == IInv /\ [Next]_vars => IInv'
<1> SUFFICES ASSUME IInv, [Next]_vars PROVE IInv'
  OBVIOUS
<1>1. ASSUME NEW v \in T, StartPush(v) PROVE IInv'  BY <1>1, StartPushStep
<1>2. CASE PushFast  BY <1>2, PushFastStep
<1>3. CASE PushRefresh  BY <1>3, PushRefreshStep
<1>4. CASE PushFull  BY <1>4, PushFullStep
<1>5. CASE WriteSlot  BY <1>5, WriteSlotStep
<1>6. CASE PublishTail  BY <1>6, PublishTailStep
<1>7. CASE ProducerRestart  BY <1>7, ProducerRestartStep
<1>8. CASE PopFast  BY <1>8, PopFastStep
<1>9. CASE PopReload  BY <1>9, PopReloadStep
<1>10. CASE PopEmpty  BY <1>10, PopEmptyStep
<1>11. CASE ReadSlot  BY <1>11, ReadSlotStep
<1>12. CASE PublishHead  BY <1>12, PublishHeadStep
<1>13. CASE ConsumerRestart  BY <1>13, ConsumerRestartStep
<1>14. CASE UNCHANGED vars
  BY <1>14 DEF IInv, TypeOK, Occupancy, ProducerView, ConsumerView, SlotsView,
               OrderView, vars, producerVars, consumerVars
<1>15. QED
  BY <1>1, <1>2, <1>3, <1>4, <1>5, <1>6, <1>7, <1>8, <1>9, <1>10, <1>11, <1>12,
     <1>13, <1>14 DEF Next, Producer, Consumer, Restart

(* The counters, the two endpoints' views of them, the slots between them  *)
(* and the orderings agree in every reachable state.                       *)
THEOREM Invariance == Spec => []IInv
<1>1. QED  BY InitIInv, NextIInv, PTL DEF Spec

(* Every variable keeps its type; in particular pop never returns a torn   *)
(* payload, and the counters stay below the modulus.                       *)
THEOREM TypeCorrect == Spec => []TypeOK
<1>1. IInv => TypeOK  BY DEF IInv
<1>2. QED  BY <1>1, Invariance, PTL

(* No slot is accessed by one endpoint without the other's last conflicting*)
(* access happening before: push and pop are free of data races.           *)
THEOREM RaceFreedom == Spec => []RaceFree
<1>1. IInv => RaceFree
  <2> SUFFICES ASSUME IInv PROVE RaceFree
    OBVIOUS
  <2>1. /\ localTail \in Counter /\ localHead \in Counter /\ cachedTail \in Counter
        /\ Sub(localTail, cachedHead) \in 0 .. N
        /\ Sub(cachedTail, localHead) \in 0 .. N
    BY Facts
  <2>2. Add(localTail, 0) = localTail /\ Add(localHead, 0) = localHead
    BY <2>1, RingAssumption DEF Add, Counter
  <2>3. ASSUME pcP = "write" PROVE Idx(localTail) \in happensBeforeP
    <3>1. 0 \in 0 .. N - Sub(localTail, cachedHead) - 1
      BY <2>1, <2>3, RingAssumption DEF IInv, ProducerView
    <3>2. Idx(Add(localTail, 0)) \in happensBeforeP
      BY <3>1 DEF IInv, OrderView
    <3>3. QED  BY <2>2, <3>2
  <2>4. ASSUME pcC = "read" PROVE Idx(localHead) \in happensBeforeC
    <3>1. localHead # cachedTail  BY <2>4 DEF IInv, ConsumerView
    <3>2. 0 \in 0 .. Sub(cachedTail, localHead) - 1
      BY <2>1, <3>1, SubType, RingAssumption
    <3>3. Idx(Add(localHead, 0)) \in happensBeforeC
      BY <3>2 DEF IInv, OrderView
    <3>4. QED  BY <2>2, <3>3
  <2>5. QED  BY <2>3, <2>4 DEF RaceFree
<1>2. QED  BY <1>1, Invariance, PTL
-----------------------------------------------------------------------------
(* The ring implements the bounded FIFO channel.                           *)

(* A function on 1 .. n with values in S is a sequence of length n.        *)
LEMMA SeqOf ==
  ASSUME NEW S, NEW n \in Nat, NEW s \in [1 .. n -> S]
  PROVE  s \in Seq(S) /\ Len(s) = n
  OBVIOUS

(* The mapped queue is a sequence as long as the counters are apart.       *)
LEMMA BufferedType ==
  ASSUME IInv
  PROVE  /\ Buffered \in Seq(T) /\ Len(Buffered) = Sub(tail, head)
         /\ \A i \in 1 .. Sub(tail, head) :
              Buffered[i] = slots[Idx(Add(head, i - 1))]
<1>1. Sub(tail, head) \in Nat  BY Facts, RingAssumption
<1>2. ASSUME NEW i \in 1 .. Sub(tail, head)
      PROVE  slots[Idx(Add(head, i - 1))] \in T
  <2>1. i - 1 \in 0 .. Sub(tail, head) - 1  BY <1>1
  <2>2. QED  BY <2>1 DEF IInv, SlotsView
<1>3. QED  BY <1>1, <1>2 DEF Buffered

(* A step that leaves the counters and the published slots alone leaves it *)
(* alone.                                                                  *)
LEMMA BufferedKept ==
  ASSUME IInv, tail' = tail, head' = head,
         \A i \in 0 .. Sub(tail, head) - 1 :
           slots'[Idx(Add(head, i))] = slots[Idx(Add(head, i))]
  PROVE  Buffered' = Buffered
<1>1. Sub(tail, head) \in Nat  BY Facts, RingAssumption
<1>2. ASSUME NEW i \in 1 .. Sub(tail, head)
      PROVE  slots'[Idx(Add(head, i - 1))] = slots[Idx(Add(head, i - 1))]
  <2>1. i - 1 \in 0 .. Sub(tail, head) - 1  BY <1>1
  <2>2. QED  BY <2>1
<1>3. QED  BY <1>2 DEF Buffered

(* Writing the slot at tail changes nothing that is buffered, as the ring  *)
(* is not full.                                                            *)
LEMMA WriteOutside ==
  ASSUME IInv, Sub(tail, head) < N, NEW v, tail' = tail, head' = head,
         slots' = [slots EXCEPT ![Idx(tail)] = v]
  PROVE  Buffered' = Buffered
<1>1. tail \in Counter /\ head \in Counter  BY Facts
<1>2. ASSUME NEW i \in 0 .. Sub(tail, head) - 1
      PROVE  slots'[Idx(Add(head, i))] = slots[Idx(Add(head, i))]
  <2>1. Idx(Add(head, i)) # Idx(tail)  BY <1>1, SlotAhead
  <2>2. QED  BY <2>1 DEF IInv, TypeOK
<1>3. QED  BY <1>2, BufferedKept

(* Publishing the new tail is the Send of the queue: the slot written      *)
(* becomes its last entry.                                                 *)
LEMMA PublishTailSends == ASSUME IInv, PublishTail PROVE Fifo!Send
<1>1. /\ tail \in Counter /\ head \in Counter
      /\ Sub(tail, head) \in 0 .. N
  BY Facts
<1>2. pcP = "publish" /\ Sub(tail, head) < N /\ tail' = Add(tail, 1)
  BY DEF IInv, ProducerView, PublishTail
<1>3. Sub(tail', head) = Sub(tail, head) + 1
  BY <1>1, <1>2, StepAhead
<1>4. arg \in T /\ arg # None /\ slots[Idx(tail)] = arg
  BY <1>2 DEF IInv, TypeOK, SlotsView
<1>5. Add(head, Sub(tail, head)) = tail  BY <1>1, AddSub
<1> DEFINE n == Sub(tail, head)
<1>6. n \in Nat  BY <1>1, RingAssumption
<1>7. Buffered' = [i \in 1 .. n + 1 |-> slots[Idx(Add(head, i - 1))]]
  BY <1>3 DEF Buffered, PublishTail
<1>8. slots[Idx(Add(head, (n + 1) - 1))] = arg
  <2>1. (n + 1) - 1 = n  BY <1>6
  <2>2. QED  BY <2>1, <1>4, <1>5
<1>9. Buffered' = Append(Buffered, arg)
  <2>1. Buffered \in Seq(T) /\ Len(Buffered) = n  BY BufferedType
  <2>2. \A i \in 1 .. n : Buffered[i] = slots[Idx(Add(head, i - 1))]
    BY BufferedType
  <2>3. ASSUME NEW i \in 1 .. n + 1
        PROVE  /\ slots[Idx(Add(head, i - 1))] \in T
               /\ slots[Idx(Add(head, i - 1))] = Append(Buffered, arg)[i]
    <3>1. CASE i = n + 1
      BY <3>1, <1>4, <1>8, <2>1, AppendProperties
    <3>2. CASE i # n + 1
      <4>1. i \in 1 .. n  BY <3>2, <1>6
      <4>2. Append(Buffered, arg)[i] = Buffered[i]
        BY <4>1, <2>1, <1>4, AppendProperties
      <4>3. Buffered[i] \in T  BY <4>1, <2>1, ElementOfSeq
      <4>4. QED  BY <4>1, <4>2, <4>3, <2>2
    <3>3. QED  BY <3>1, <3>2
  <2>4. Append(Buffered, arg) \in Seq(T) /\ Len(Append(Buffered, arg)) = n + 1
    BY <2>1, <1>4, AppendProperties
  <2> HIDE DEF n
  <2>5. n + 1 \in Nat  BY <1>6
  <2>6. Buffered' \in [1 .. n + 1 -> T]  BY <2>3, <1>7
  <2>7. \A i \in 1 .. n + 1 : Buffered'[i] = Append(Buffered, arg)[i]
    BY <2>3, <1>7
  <2>8. Buffered' \in Seq(T) /\ Len(Buffered') = n + 1
    BY <2>5, <2>6, SeqOf
  <2>9. QED  BY <2>4, <2>7, <2>8, SeqEqual
<1>10. Len(Buffered) < N  BY <1>2, BufferedType
<1>11. QED  BY <1>4, <1>9, <1>10 DEF Fifo!Send, PublishTail, consumerVars

(* Publishing the new head is the Receive of the queue: its first entry    *)
(* goes.                                                                   *)
LEMMA PublishHeadReceives == ASSUME IInv, PublishHead PROVE Fifo!Recv
<1>1. /\ tail \in Counter /\ head \in Counter /\ Sub(tail, head) \in 0 .. N
  BY Facts
<1>2. head' = Add(head, 1) /\ tail # head /\ val = slots[Idx(head)]
  BY DEF IInv, ConsumerView, SlotsView, PublishHead
<1>3. Sub(tail, head) > 0  BY <1>1, <1>2, SubType, RingAssumption
<1>4. Sub(tail, head') = Sub(tail, head) - 1
  BY <1>1, <1>2, StepBehind
<1> DEFINE n == Sub(tail, head)
<1>5. n \in Nat /\ n > 0 /\ n <= N  BY <1>1, <1>3, RingAssumption
<1>6. Buffered \in Seq(T) /\ Len(Buffered) = n  BY BufferedType
<1>7. \A i \in 1 .. n : Buffered[i] = slots[Idx(Add(head, i - 1))]
  BY BufferedType
<1>8. Head(Buffered) = val
  <2>1. Add(head, 1 - 1) = head  BY <1>1, RingAssumption DEF Add, Counter
  <2>2. Buffered[1] = slots[Idx(Add(head, 1 - 1))]  BY <1>5, <1>7
  <2>3. QED  BY <2>1, <2>2, <1>2, <1>5, <1>6
<1>9. Buffered' = Tail(Buffered)
  <2>1. Buffered' = [i \in 1 .. n - 1 |-> slots[Idx(Add(head', i - 1))]]
    BY <1>4 DEF Buffered, PublishHead
  <2>2. /\ Tail(Buffered) \in Seq(T) /\ Len(Tail(Buffered)) = n - 1
        /\ \A i \in 1 .. n - 1 : Tail(Buffered)[i] = Buffered[i + 1]
    <3>1. Buffered # <<>>  BY <1>5, <1>6
    <3>2. QED  BY <3>1, <1>6, HeadTailProperties
  <2>3. ASSUME NEW i \in 1 .. n - 1
        PROVE  /\ slots[Idx(Add(head', i - 1))] = Tail(Buffered)[i]
               /\ Tail(Buffered)[i] \in T
    <3>1. i - 1 \in 0 .. N - 1  BY <1>5, RingAssumption
    <3>2. Add(head', i - 1) = Add(head, (i - 1) + 1)
      BY <3>1, <1>1, <1>2, AddOne
    <3>3. (i - 1) + 1 = (i + 1) - 1 /\ i + 1 \in 1 .. n  BY <1>5
    <3>4. Tail(Buffered)[i] = Buffered[i + 1]  BY <2>2
    <3>5. Buffered[i + 1] \in T  BY <3>3, <1>6, ElementOfSeq
    <3>6. QED  BY <3>2, <3>3, <3>4, <3>5, <1>7
  <2>4. n - 1 \in Nat  BY <1>5
  <2> HIDE DEF n
  <2>5. Buffered' \in [1 .. n - 1 -> T]  BY <2>1, <2>3
  <2>6. \A i \in 1 .. n - 1 : Buffered'[i] = Tail(Buffered)[i]
    BY <2>1, <2>3
  <2>7. Buffered' \in Seq(T) /\ Len(Buffered') = n - 1
    BY <2>4, <2>5, SeqOf
  <2>8. QED  BY <2>2, <2>6, <2>7, SeqEqual
<1>10. Buffered # <<>>  BY <1>5, <1>6
<1>11. QED  BY <1>8, <1>9, <1>10 DEF Fifo!Recv, PublishHead, producerVars

(* Every step of the ring is a step of the channel or changes nothing there*)
LEMMA FifoStep == IInv /\ [Next]_vars => [Fifo!Next]_(Fifo!vars)
<1> SUFFICES ASSUME IInv, [Next]_vars PROVE [Fifo!Next]_(Fifo!vars)
  OBVIOUS
<1> USE DEF Fifo!vars
<1>1. ASSUME NEW v \in T, StartPush(v) PROVE Fifo!Next
  <2>1. arg = None  BY <1>1 DEF StartPush, IInv, TypeOK
  <2>2. Buffered' = Buffered
    BY <1>1, BufferedKept DEF StartPush
  <2>3. Fifo!Call(v)
    BY <2>1, <2>2, <1>1 DEF Fifo!Call, StartPush, consumerVars
  <2>4. QED  BY <2>3 DEF Fifo!Next
<1>2. ASSUME pcP = "check", BeginWrite, HeadKnown, ~Full(cachedHead'),
             UNCHANGED <<tail, head, localTail, arg, got>>
      PROVE  UNCHANGED Fifo!vars
  <2>1. localTail = tail  BY <1>2 DEF IInv, ProducerView
  <2>2. Sub(tail, head) < N
    <3>1. Sub(localTail, cachedHead') < N
      BY <1>2, RingAssumption DEF Full, HeadKnown
    <3>2. QED  BY <1>2, <2>1, <3>1, Facts, RingAssumption DEF HeadKnown
  <2>3. Buffered' = Buffered
    BY <1>2, <2>1, <2>2, WriteOutside DEF BeginWrite
  <2>4. QED  BY <1>2, <2>3
<1>3. CASE PushFast
  BY <1>2, <1>3, HeadUnchanged DEF PushFast, consumerVars
<1>4. CASE PushRefresh
  BY <1>2, <1>4, HeadLoaded DEF PushRefresh, consumerVars
<1>5. CASE WriteSlot
  <2>1. localTail = tail /\ Sub(tail, head) < N
    BY <1>5, Facts, RingAssumption DEF WriteSlot, IInv, ProducerView
  <2>2. Buffered' = Buffered
    BY <1>5, <2>1, WriteOutside DEF WriteSlot
  <2>3. QED  BY <1>5, <2>2 DEF WriteSlot, consumerVars
<1>6. CASE PublishTail  BY <1>6, PublishTailSends DEF Fifo!Next
<1>7. CASE ProducerRestart
  <2>1. Buffered' = Buffered
    BY <1>7, BufferedKept DEF ProducerRestart
  <2>2. QED
    BY <1>7, <2>1 DEF ProducerRestart, Fifo!Next, Fifo!Abandon, consumerVars
<1>8. CASE PublishHead  BY <1>8, PublishHeadReceives DEF Fifo!Next
<1>9. CASE UNCHANGED <<tail, head, slots, arg, got>>
  <2>1. Buffered' = Buffered  BY <1>9, BufferedKept
  <2>2. QED  BY <1>9, <2>1
<1>10. CASE PushFull \/ PopFast \/ PopReload \/ PopEmpty \/ ReadSlot
              \/ ConsumerRestart \/ UNCHANGED vars
  BY <1>9, <1>10 DEF PushFull, PopFast, PopReload, PopEmpty, ReadSlot,
     ConsumerRestart, vars, producerVars, consumerVars
<1>11. QED
  BY <1>1, <1>3, <1>4, <1>5, <1>6, <1>7, <1>8, <1>10
  DEF Next, Producer, Consumer, Restart

(* Across wrap-around, full and empty rings and restarts of either end, the*)
(* ring loses, repeats, reorders and tears nothing.                        *)
THEOREM RefinesFifo == Spec => ImplementsFifo
<1>1. Init => Fifo!Init
  <2> SUFFICES ASSUME Init PROVE Buffered = <<>>
    BY DEF Init, Fifo!Init
  <2>1. Sub(tail, head) = 0  BY DEF Init, Sub
  <2>2. QED  BY <2>1 DEF Buffered
<1>2. QED
  BY <1>1, Invariance, FifoStep, PTL DEF Spec, ImplementsFifo, Fifo!Spec
=============================================================================
