--------------------------- MODULE EnvShimProofs ---------------------------
(***************************************************************************)
(* First DataRegion::alloc on its own: it hands out slots inside the       *)
(* region, and overlapping ones only in different laps, for any number of  *)
(* threads, any region, any width of the counter and any lengths below     *)
(* half of its range.  Then the shim: the threads of RocksDB use the       *)
(* allocator as DataRegion describes it, so what is proved there holds for *)
(* them, however they share the client; and, while no two of them are in   *)
(* send_request at a time, files, handles and calls are in order.          *)
(***************************************************************************)
EXTENDS EnvShim, SequenceTheorems, FiniteSetTheorems, TLAPS
-----------------------------------------------------------------------------
(* The allocator.                                                          *)

(* The conversion of a length to u32 keeps it, as it is below 2 GiB.       *)
LEMMA LengthFits ==
  ASSUME NEW n \in Sizes
  PROVE  AsU32(n) = n /\ n \in Nat /\ 2 * n < Modulus
<1>1. n \in Nat /\ 2 * n < Modulus
  BY RegionAssumption
<1>2. 0 <= n /\ n < Modulus /\ Modulus \in Nat \ {0}
  BY <1>1, RegionAssumption
<1> DEFINE q == n \div Modulus
           r == n % Modulus
<1>3. n = Modulus * q + r /\ q \in Int /\ r \in 0 .. Modulus - 1
  BY <1>1, <1>2
<1> HIDE DEF q, r
<1>4. q = 0
  <2>1. CASE q >= 1
    <3>1. Modulus * q >= Modulus
      BY <1>2, <1>3, <2>1
    <3> QED
      BY <1>1, <1>2, <1>3, <3>1
  <2>2. CASE q <= -1
    <3>1. Modulus * q <= -Modulus
      BY <1>2, <1>3, <2>2
    <3> QED
      BY <1>1, <1>2, <1>3, <3>1
  <2> QED
    BY <1>3, <2>1, <2>2
<1>5. r = n
  BY <1>2, <1>3, <1>4
<1> QED
  BY <1>1, <1>5 DEF AsU32, r

(* A counter and a length below half of the range: the sum is exact.       *)
LEMMA SumExact ==
  ASSUME NEW c \in Nat, NEW n \in Nat, 2 * c < Modulus, 2 * n < Modulus
  PROVE  Plus(c, n) = c + n
BY RegionAssumption DEF Plus

(* A fresh region satisfies the invariant.                                 *)
LEMMA InitInv == AllocInit => AllocInv
BY RegionAssumption
  DEF AllocInit, AllocInv, AllocTypeOK, NoOverflow, BelowOffset, InBounds, LapDisjoint

(* What a successful compare_exchange does, in exact arithmetic.           *)
LEMMA TakeExact ==
  ASSUME NEW t \in Callers, AllocInv, Exchange(t)
  PROVE  /\ \/ /\ offset + want[t] > RegionLen
               /\ held' = [held EXCEPT ![t] = [start |-> 0, len |-> want[t], lap |-> laps + 1]]
               /\ offset' = want[t] /\ laps' = laps + 1
            \/ /\ offset + want[t] <= RegionLen
               /\ held' = [held EXCEPT ![t] = [start |-> offset, len |-> want[t], lap |-> laps]]
               /\ offset' = offset + want[t] /\ laps' = laps
         /\ step' = [step EXCEPT ![t] = "held"]
         /\ UNCHANGED <<want, cur>>
         /\ offset \in Nat /\ want[t] \in Nat /\ laps \in Nat
         /\ 2 * offset < Modulus /\ 2 * want[t] < Modulus
<1>1. offset \in Nat /\ want[t] \in Nat /\ laps \in Nat /\ RegionLen \in Nat
  BY RegionAssumption DEF AllocInv, AllocTypeOK
<1>2. 2 * offset < Modulus /\ 2 * want[t] < Modulus
  BY DEF AllocInv, NoOverflow
<1>3. cur[t] = offset
  BY DEF Exchange
<1>4. Plus(offset, want[t]) = offset + want[t]
  BY <1>1, <1>2, SumExact
<1>5. Plus(0, want[t]) = want[t]
  BY <1>1, <1>2, RegionAssumption DEF Plus
<1>6. StartsOver(cur[t], want[t]) <=> offset + want[t] > RegionLen
  BY <1>3, <1>4 DEF StartsOver
<1>7. CASE offset + want[t] > RegionLen
  BY <1>1, <1>2, <1>3, <1>4, <1>5, <1>6, <1>7 DEF Exchange, Take
<1>8. CASE offset + want[t] <= RegionLen
  <2>1. ~StartsOver(cur[t], want[t])
    BY <1>1, <1>6, <1>8
  <2> QED
    BY <1>1, <1>2, <1>3, <1>4, <1>8, <2>1 DEF Exchange, Take
<1> QED
  BY <1>1, <1>7, <1>8

(* A successful compare_exchange keeps the invariant: the new slot begins  *)
(* where everything given out in this lap ends, or it begins a lap.        *)
LEMMA ExchangeInv ==
  ASSUME NEW t \in Callers, AllocInv, Exchange(t)
  PROVE  AllocInv'
<1> DEFINE new == held'[t]
<1>1. /\ step' = [step EXCEPT ![t] = "held"] /\ UNCHANGED <<want, cur>>
      /\ offset \in Nat /\ want[t] \in Nat /\ laps \in Nat
      /\ 2 * offset < Modulus /\ 2 * want[t] < Modulus
  BY TakeExact
<1>2. RegionLen \in Nat \ {0} /\ Modulus \in Nat /\ 2 * RegionLen < Modulus
  BY RegionAssumption
<1>3. CASE /\ offset + want[t] > RegionLen
           /\ held' = [held EXCEPT ![t] = [start |-> 0, len |-> want[t], lap |-> laps + 1]]
           /\ offset' = want[t] /\ laps' = laps + 1
  <2>1. AllocTypeOK'
    BY <1>1, <1>3 DEF AllocInv, AllocTypeOK
  <2>2. NoOverflow'
    BY <1>1, <1>3 DEF AllocInv, NoOverflow
  <2>3. \A u \in Callers : step'[u] = "held" /\ u # t =>
          step[u] = "held" /\ held'[u] = held[u] /\ held'[u].lap <= laps
    BY <1>1, <1>3 DEF AllocInv, AllocTypeOK, BelowOffset
  <2>4. new = [start |-> 0, len |-> want[t], lap |-> laps + 1]
    BY <1>3 DEF AllocInv, AllocTypeOK
  <2>5. BelowOffset'
    <3> SUFFICES ASSUME NEW u \in Callers, step'[u] = "held"
                 PROVE  /\ held'[u].lap <= laps'
                        /\ held'[u].lap = laps' => held'[u].start + held'[u].len <= offset'
      BY DEF BelowOffset
    <3>1. CASE u = t
      BY <1>1, <1>3, <2>4, <3>1
    <3>2. CASE u # t
      <4>1. held'[u].lap <= laps /\ held'[u].lap \in Nat
        BY <2>1, <2>3, <3>2 DEF AllocTypeOK
      <4> QED
        BY <1>1, <1>3, <4>1
    <3> QED
      BY <3>1, <3>2
  <2>6. InBounds'
    BY <1>1, <1>2, <1>3, <2>3, <2>4 DEF AllocInv, InBounds
  <2>7. LapDisjoint'
    <3> SUFFICES ASSUME NEW u \in Callers, NEW v \in Callers, u # v,
                        step'[u] = "held", step'[v] = "held", held'[u].lap = held'[v].lap
                 PROVE  Apart(held'[u], held'[v])
      BY DEF LapDisjoint
    <3>1. \A w \in Callers : step'[w] = "held" /\ w # t => held'[w].lap # new.lap
      <4> SUFFICES ASSUME NEW w \in Callers, step'[w] = "held", w # t
                   PROVE  held'[w].lap # new.lap
        OBVIOUS
      <4>1. held'[w].lap <= laps /\ held'[w].lap \in Nat
        BY <2>1, <2>3 DEF AllocTypeOK
      <4>2. new.lap = laps + 1
        BY <2>4
      <4> QED
        BY <1>1, <4>1, <4>2
    <3>2. u # t /\ v # t
      BY <3>1
    <3> QED
      BY <2>3, <3>2 DEF AllocInv, LapDisjoint
  <2> QED
    BY <2>1, <2>2, <2>5, <2>6, <2>7 DEF AllocInv
<1>4. CASE /\ offset + want[t] <= RegionLen
           /\ held' = [held EXCEPT ![t] = [start |-> offset, len |-> want[t], lap |-> laps]]
           /\ offset' = offset + want[t] /\ laps' = laps
  <2>1. AllocTypeOK'
    BY <1>1, <1>4 DEF AllocInv, AllocTypeOK
  <2>2. NoOverflow'
    BY <1>1, <1>2, <1>4 DEF AllocInv, NoOverflow
  <2>3. \A u \in Callers : step'[u] = "held" /\ u # t =>
          /\ step[u] = "held" /\ held'[u] = held[u] /\ held'[u].lap <= laps
          /\ held'[u].lap = laps => held'[u].start + held'[u].len <= offset
    BY <1>1, <1>4 DEF AllocInv, AllocTypeOK, BelowOffset
  <2>4. new = [start |-> offset, len |-> want[t], lap |-> laps]
    BY <1>4 DEF AllocInv, AllocTypeOK
  <2>5. BelowOffset'
    <3> SUFFICES ASSUME NEW u \in Callers, step'[u] = "held"
                 PROVE  /\ held'[u].lap <= laps'
                        /\ held'[u].lap = laps' => held'[u].start + held'[u].len <= offset'
      BY DEF BelowOffset
    <3>1. CASE u = t
      BY <1>1, <1>4, <2>4, <3>1
    <3>2. CASE u # t
      <4>1. held'[u].start \in Nat /\ held'[u].len \in Nat
        BY <2>1 DEF AllocTypeOK
      <4> QED
        BY <1>1, <1>4, <2>3, <3>2, <4>1
    <3> QED
      BY <3>1, <3>2
  <2>6. InBounds'
    BY <1>1, <1>2, <1>4, <2>3, <2>4 DEF AllocInv, InBounds
  <2>7. LapDisjoint'
    <3> SUFFICES ASSUME NEW u \in Callers, NEW v \in Callers, u # v,
                        step'[u] = "held", step'[v] = "held", held'[u].lap = held'[v].lap
                 PROVE  Apart(held'[u], held'[v])
      BY DEF LapDisjoint
    <3>1. CASE u = t
      <4>1. held'[v].lap = laps
        BY <2>4, <3>1
      <4> QED
        BY <2>3, <2>4, <3>1, <4>1 DEF Apart
    <3>2. CASE v = t
      <4>1. held'[u].lap = laps
        BY <2>4, <3>2
      <4> QED
        BY <2>3, <2>4, <3>2, <4>1 DEF Apart
    <3>3. CASE u # t /\ v # t
      BY <2>3, <3>3 DEF AllocInv, LapDisjoint
    <3> QED
      BY <3>1, <3>2, <3>3
  <2> QED
    BY <2>1, <2>2, <2>5, <2>6, <2>7 DEF AllocInv
<1> QED
  BY <1>3, <1>4, TakeExact

(* Every step keeps the invariant.                                         *)
LEMMA NextInv == AllocInv /\ [AllocNext]_regionVars => AllocInv'
<1> SUFFICES ASSUME AllocInv, [AllocNext]_regionVars PROVE AllocInv'
  OBVIOUS
<1>1. ASSUME NEW t \in Callers, NEW n \in Sizes, AllocBegin(t, n)
      PROVE  AllocInv'
  <2>1. want' = [want EXCEPT ![t] = n] /\ n \in Nat /\ 2 * n < Modulus
    BY <1>1, LengthFits DEF AllocBegin
  <2>2. step' = [step EXCEPT ![t] = "load"] /\ UNCHANGED <<offset, cur, held, laps>>
    BY <1>1 DEF AllocBegin
  <2>3. AllocTypeOK' /\ NoOverflow'
    BY <2>1, <2>2 DEF AllocInv, AllocTypeOK, NoOverflow
  <2>4. \A u \in Callers : step'[u] = "held" => step[u] = "held"
    BY <2>2 DEF AllocInv, AllocTypeOK
  <2> QED
    BY <2>2, <2>3, <2>4 DEF AllocInv, BelowOffset, InBounds, LapDisjoint
<1>2. ASSUME NEW t \in Callers, Load(t) \/ ExchangeFails(t) \/ Release(t)
      PROVE  AllocInv'
  <2>1. /\ step' \in [Callers -> {"idle", "load", "exchange", "held"}]
        /\ cur' \in [Callers -> Nat]
        /\ \A u \in Callers : step'[u] = "held" => step[u] = "held"
        /\ UNCHANGED <<offset, want, held, laps>>
    BY <1>2 DEF Load, ExchangeFails, Release, AllocInv, AllocTypeOK
  <2> QED
    BY <2>1 DEF AllocInv, AllocTypeOK, NoOverflow, BelowOffset, InBounds, LapDisjoint
<1>3. CASE UNCHANGED regionVars
  BY <1>3 DEF regionVars, AllocInv, AllocTypeOK, NoOverflow, BelowOffset, InBounds,
              LapDisjoint
<1> QED
  BY <1>1, <1>2, <1>3, ExchangeInv DEF AllocNext

(* The inductive invariant of the allocator.                               *)
THEOREM AllocInvariance == AllocSpec => []AllocInv
BY InitInv, NextInv, PTL DEF AllocSpec

(* Every slot that can lie within the region does.                         *)
THEOREM AllocInBounds == AllocSpec => []InBounds
<1>1. AllocInv => InBounds
  BY DEF AllocInv
<1> QED
  BY <1>1, AllocInvariance, PTL

(* Slots in use overlap only across laps.                                  *)
THEOREM AllocDisjoint == AllocSpec => []LapDisjoint
<1>1. AllocInv => LapDisjoint
  BY DEF AllocInv
<1> QED
  BY <1>1, AllocInvariance, PTL
-----------------------------------------------------------------------------
(* The shim.                                                               *)

(* A call that begins takes a length from Sizes, or leaves the allocator.  *)
LEMMA CallAllocates ==
  ASSUME NEW t \in Callers, Call(t)
  PROVE  [AllocNext]_regionVars
<1>1. ASSUME NEW c, Plain(t, c) PROVE [AllocNext]_regionVars
  BY <1>1 DEF Plain
<1>2. ASSUME NEW c, NEW n \in Sizes, c.len = n, WithPayload(t, c)
      PROVE  [AllocNext]_regionVars
  BY <1>2 DEF WithPayload, AllocNext
<1>3. ASSUME NEW p \in Paths, NewWritableFile(t, p) \/ NewRandomAccessFile(t, p)
      PROVE  [AllocNext]_regionVars
  BY <1>1, <1>3 DEF NewWritableFile, NewRandomAccessFile
<1>4. ASSUME NEW o \in DOMAIN objects, NEW n \in Sizes,
             AppendData(t, o, n) \/ Read(t, o, 0, n)
      PROVE  [AllocNext]_regionVars
  <2>1. CASE AppendData(t, o, n)
    <3> DEFINE c == OnObject(o, "Append", n, objects[o].offset)
    <3>1. c.len = n
      BY DEF OnObject, Request
    <3>2. WithPayload(t, c)
      BY <2>1 DEF AppendData
    <3> QED
      BY <1>2, <3>1, <3>2
  <2>2. CASE Read(t, o, 0, n)
    <3> DEFINE c == OnObject(o, "Read", n, 0)
    <3>1. c.len = n
      BY DEF OnObject, Request
    <3>2. WithPayload(t, c)
      BY <2>2 DEF Read
    <3> QED
      BY <1>2, <3>1, <3>2
  <2> QED
    BY <1>4, <2>1, <2>2
<1>5. ASSUME NEW o \in DOMAIN objects,
             Sync(t, o) \/ Close(t, o) \/ Destroy(t, o) \/ DestroyClosed(t, o)
      PROVE  [AllocNext]_regionVars
  <2>1. CASE DestroyClosed(t, o)
    BY <2>1 DEF DestroyClosed
  <2> QED
    BY <1>1, <1>5, <2>1 DEF Sync, Close, Destroy
<1> QED
  BY <1>3, <1>4, <1>5 DEF Call

(* So does every other step.                                               *)
LEMMA StepAllocates == [Next]_vars => [AllocNext]_regionVars
<1> SUFFICES ASSUME [Next]_vars PROVE [AllocNext]_regionVars
  OBVIOUS
<1>1. ASSUME NEW t \in Callers, Allocate(t) PROVE [AllocNext]_regionVars
  BY <1>1 DEF Allocate, AllocNext
<1>2. ASSUME NEW t \in Callers, Submit(t) \/ Push(t) PROVE [AllocNext]_regionVars
  BY <1>2 DEF Submit, Push
<1>3. ASSUME NEW t \in Callers, PopResponse(t) PROVE [AllocNext]_regionVars
  <2>1. Release(t) \/ UNCHANGED regionVars
    BY <1>3 DEF PopResponse
  <2> QED
    BY <2>1 DEF AllocNext
<1>4. CASE Serve \/ ServeFails
  BY <1>4 DEF Serve, ServeFails, Reply
<1>5. CASE UNCHANGED vars
  BY <1>5 DEF vars
<1> QED
  BY <1>1, <1>2, <1>3, <1>4, <1>5, CallAllocates DEF Next, Thread

(* The shim implements the allocator's specification.                      *)
THEOREM ShimAllocates == Spec => AllocSpec
<1>1. Init => AllocInit
  BY DEF Init
<1> QED
  BY <1>1, StepAllocates, PTL DEF Spec, AllocSpec

(* Threads in calls at the same time write and read slots that overlap     *)
(* only when the region was started over in between.                       *)
THEOREM ShimDisjoint == Spec => []LapDisjoint
BY ShimAllocates, AllocDisjoint, PTL
-----------------------------------------------------------------------------
(* What is stored where.                                                   *)

Payloads == {"Append", "Read"}
Owned == {"Append", "Sync", "Close", "Destroy"}
Ops == Opens \cup Payloads \cup Owned

Object == [kind : {"Writable", "RandomAccess"}, path : Paths, fd : Nat, offset : Nat,
           alive : BOOLEAN]
CallRecord == [op : Ops \cup {"None"}, obj : Nat, path : Paths \cup {""}, fd : Nat,
               len : Nat, at : Nat, id : Nat]
Entry == [call : CallRecord, slot : Nat]
Response == [id : Nat, ok : BOOLEAN, fd : Nat]
Span == 0 .. RegionLen - 1

Types ==
  /\ calls \in Nat /\ calls <= MaxCalls /\ faults \in Nat /\ shared \in BOOLEAN
  /\ nextId \in Nat \ {0} /\ nextFd \in Nat \ {0}
  /\ objects \in Seq(Object) /\ appended \in Seq(Seq(Nat))
  /\ Len(appended) = Len(objects)
  /\ call \in [Callers -> CallRecord]
  /\ pc \in [Callers -> {"idle", "alloc", "submit", "push", "wait"}]
  /\ reqRing \in Seq(Entry) /\ respRing \in Seq(Response)
  /\ DOMAIN table \subseteq 1 .. nextFd - 1 /\ table \in [DOMAIN table -> Paths]

\* Every unit is the id of a request, or blank.
Contents ==
  /\ region \in [Span -> 0 .. nextId]
  /\ files \in [Paths -> [Position -> 0 .. nextId]]

\* A thread is in the allocator when its call says so, and its slot is as
\* long as its payload.
Allocates ==
  /\ offset <= RegionLen
  /\ \A t \in Callers :
       /\ want[t] <= RegionLen
       /\ pc[t] \in {"idle", "alloc"} => step[t] # "held"
       /\ pc[t] # "alloc" => step[t] \in {"idle", "held"}
       /\ pc[t] = "alloc" => call[t].op \in Payloads /\ want[t] = call[t].len
       /\ pc[t] \in {"submit", "push", "wait"} =>
            (call[t].op \in Payloads <=> step[t] = "held")
       /\ step[t] = "held" => want[t] = call[t].len /\ held[t].len = call[t].len

\* What a call refers to exists.
Refers(c, n) ==
  /\ c.op \in Ops
  /\ c.op \in Opens => c.path \in Paths /\ c.obj = 0
  /\ c.op \notin Opens => c.obj \in 1 .. n
  /\ c.op = "Read" => c.at = 0
  /\ c.op \in Payloads => c.len \in 1 .. RegionLen

CallsRefer == \A t \in Callers : pc[t] # "idle" => Refers(call[t], Len(objects)) /\ calls > 0

\* A request keeps within the region.
RequestsFit ==
  \A k \in 1 .. Len(reqRing) :
    LET r == reqRing[k] IN
      /\ Refers(r.call, Len(objects)) /\ calls > 0
      /\ r.call.op \in Payloads => r.slot + r.call.len <= RegionLen

Shapes == AllocInv /\ Types /\ Contents /\ Allocates /\ CallsRefer /\ RequestsFit
-----------------------------------------------------------------------------
(* Calls on one object, and of one path.                                   *)

Alive(o) == o \in 1 .. Len(objects) /\ objects[o].alive
AliveWriter(o) == Alive(o) /\ objects[o].kind = "Writable"

\* What changes an object is called on it once at a time, while it is alive.
ObjectsApart ==
  /\ \A t \in Callers : pc[t] # "idle" /\ call[t].op \in Owned =>
       Alive(call[t].obj) /\ call[t].fd = objects[call[t].obj].fd
  /\ \A t \in Callers : pc[t] # "idle" /\ call[t].op = "Append" =>
       AliveWriter(call[t].obj)
  /\ \A t, u \in Callers :
       t # u /\ pc[t] # "idle" /\ pc[u] # "idle" /\ call[t].obj = call[u].obj
         => ~(call[t].op \in Owned /\ call[u].op \in Owned)

\* A path is written through one object.
Creates(t, p) == pc[t] # "idle" /\ call[t].op = "NewWritableFile" /\ call[t].path = p
PathsApart ==
  /\ \A o, q \in 1 .. Len(objects) :
       AliveWriter(o) /\ AliveWriter(q) /\ objects[o].path = objects[q].path => o = q
  /\ \A t \in Callers, o \in 1 .. Len(objects) :
       AliveWriter(o) => ~Creates(t, objects[o].path)
  /\ \A t, u \in Callers, p \in Paths : Creates(t, p) /\ Creates(u, p) => t = u

\* Offsets stay in the files that are modelled.
Offsets ==
  /\ \A o \in 1 .. Len(objects) :
       objects[o].offset <= calls * RegionLen /\ Len(appended[o]) = objects[o].offset
  /\ \A t \in Callers : pc[t] # "idle" /\ call[t].op = "Append" =>
       /\ call[t].at = objects[call[t].obj].offset
       /\ call[t].at + call[t].len <= calls * RegionLen

Apartness == ObjectsApart /\ PathsApart /\ Offsets
-----------------------------------------------------------------------------
(* One thread at a time in the client.                                     *)

Inside(t) == pc[t] \in {"push", "wait"}
Unserved(t) == reqRing = <<[call |-> call[t], slot |-> held[t].start]>> /\ respRing = <<>>
Served(t) == reqRing = <<>> /\ Len(respRing) = 1 /\ respRing[1].id = call[t].id
Told(t) == pc[t] = "wait" /\ Served(t)
Ok(t) == Told(t) /\ respRing[1].ok

InTurn ==
  /\ \A t, u \in Callers : Inside(t) /\ Inside(u) => t = u
  /\ (\A t \in Callers : pc[t] # "wait") => reqRing = <<>> /\ respRing = <<>>
  /\ \A t \in Callers : pc[t] = "wait" => Unserved(t) \/ Served(t)

\* A handle is open until the answer to its close, and belongs to an object
\* or to the answer to its open.
Gone(t, o) == Told(t) /\ call[t].obj = o /\ call[t].op \in {"Close", "Destroy"}
Handles ==
  /\ \A o \in 1 .. Len(objects) : objects[o].fd < nextFd
  /\ \A o, q \in 1 .. Len(objects) :
       Alive(o) /\ Alive(q) /\ objects[o].fd = objects[q].fd => o = q \/ objects[o].fd = 0
  /\ \A o \in 1 .. Len(objects) : Alive(o) /\ objects[o].fd # 0 =>
       \/ objects[o].fd \in DOMAIN table /\ table[objects[o].fd] = objects[o].path
       \/ \E t \in Callers : Gone(t, o)
  /\ \A fd \in DOMAIN table :
       \/ \E o \in 1 .. Len(objects) : Alive(o) /\ objects[o].fd = fd
       \/ \E t \in Callers : Ok(t) /\ respRing[1].fd = fd /\ call[t].op \in Opens
  /\ \A t \in Callers : Told(t) =>
       /\ call[t].op \notin Opens => respRing[1].fd = 0
       /\ call[t].op \in {"Close", "Destroy"} => call[t].fd \notin DOMAIN table
       /\ call[t].op \in Opens /\ respRing[1].ok =>
            /\ respRing[1].fd \in DOMAIN table /\ table[respRing[1].fd] = call[t].path
            /\ \A o \in 1 .. Len(objects) : Alive(o) => objects[o].fd # respRing[1].fd

\* What is in a file at a position where v was written.
Holds(p, i, v) == files[p][i] = v \/ (faults > 0 /\ files[p][i] = Blank)

Writes(t, o) == Ok(t) /\ call[t].op = "Append" /\ call[t].obj = o
AppendsHold ==
  \A o \in 1 .. Len(objects) : AliveWriter(o) =>
    \A i \in 1 .. Len(appended[o]) : Holds(objects[o].path, i - 1, appended[o][i])
RestBlank ==
  \A o \in 1 .. Len(objects) : AliveWriter(o) =>
    \A i \in Position : i >= objects[o].offset =>
      \/ files[objects[o].path][i] = Blank
      \/ \E t \in Callers : Writes(t, o) /\ i < call[t].at + call[t].len
AnswersHold ==
  \A t \in Callers : Ok(t) /\ call[t].op = "Append" =>
    \A i \in call[t].at .. call[t].at + call[t].len - 1 :
      Holds(objects[call[t].obj].path, i, call[t].id)
NewBlank ==
  \A t \in Callers : Ok(t) /\ call[t].op = "NewWritableFile" =>
    \A i \in Position : files[call[t].path][i] = Blank
Written == AppendsHold /\ RestBlank /\ AnswersHold /\ NewBlank

\* The payload of an append stays in its slot.
Copies ==
  \A t \in Callers : Inside(t) /\ call[t].op = "Append" =>
     \A k \in Span : held[t].start <= k /\ k < held[t].start + call[t].len =>
       region[k] = call[t].id

Turn == InTurn /\ Handles /\ Written /\ Copies
Alone == ~shared => Turn
EnvInv == Shapes /\ Apartness /\ Alone

-----------------------------------------------------------------------------
(* The steps, in the form the proofs need.                                 *)

\* What RocksDB may ask for.
Legal(c) ==
  \/ c.op = "NewWritableFile" /\ c.path \in Paths /\ c.obj = 0 /\ ~Writing(c.path)
  \/ c.op = "NewRandomAccessFile" /\ c.path \in Paths /\ c.obj = 0
  \/ /\ c.op \in {"Append", "Sync", "Close"} /\ AliveWriter(c.obj) /\ ~InUse(c.obj)
     /\ c.fd = objects[c.obj].fd
     /\ c.op = "Append" => c.at = objects[c.obj].offset /\ c.len \in Sizes
  \/ c.op = "Read" /\ c.obj \in 1 .. Len(objects) /\ c.at = 0 /\ c.len \in Sizes
  \/ /\ c.op = "Destroy" /\ Alive(c.obj) /\ ~InUse(c.obj)
     /\ c.fd = objects[c.obj].fd

Begins(t, c) ==
  /\ pc[t] = "idle" /\ calls < MaxCalls /\ calls' = calls + 1
  /\ call' = [call EXCEPT ![t] = c]
  /\ UNCHANGED <<objects, nextId, shared, appended, region, reqRing, respRing,
                 table, nextFd, files, faults>>
  /\ IF c.op \in Payloads
     THEN AllocBegin(t, c.len) /\ pc' = [pc EXCEPT ![t] = "alloc"]
     ELSE UNCHANGED regionVars /\ pc' = [pc EXCEPT ![t] = "submit"]

(* A call without a payload begins with a legal call record.               *)
LEMMA PlainBegins ==
  ASSUME NEW t, NEW c \in CallRecord, Legal(c), c.op \notin Payloads, Plain(t, c)
  PROVE  \E d \in CallRecord : Legal(d) /\ Begins(t, d)
<1>1. Begins(t, c)
  BY DEF Plain, CallWith, Begins, daemonVars
<1> QED
  BY <1>1

(* A call with a payload begins with a legal call record, whose length     *)
(* fits the region.                                                        *)
LEMMA PayloadBegins ==
  ASSUME NEW t, NEW c \in CallRecord, Legal(c), c.op \in Payloads, WithPayload(t, c)
  PROVE  \E d \in CallRecord : Legal(d) /\ Begins(t, d)
<1>1. Begins(t, c)
  BY DEF WithPayload, CallWith, Begins, daemonVars
<1> QED
  BY <1>1

(* A call that changes more than an object begins with a legal request.    *)
LEMMA CallBegins ==
  ASSUME Types, NEW t \in Callers, Call(t)
  PROVE  \/ \E o \in 1 .. Len(objects) : DestroyClosed(t, o)
         \/ \E c \in CallRecord : Legal(c) /\ Begins(t, c)
<1>1. DOMAIN objects = 1 .. Len(objects) /\ objects \in Seq(Object)
  BY DEF Types
<1>2. \A o \in 1 .. Len(objects) : objects[o] \in Object
  BY <1>1
<1>3. ASSUME NEW p \in Paths, NewWritableFile(t, p)
      PROVE  \E c \in CallRecord : Legal(c) /\ Begins(t, c)
  <2> DEFINE c == Request("NewWritableFile", 0, p, 0, 0, 0)
  <2>1. c \in CallRecord /\ c.op = "NewWritableFile" /\ c.path = p /\ c.obj = 0
    BY DEF Request, CallRecord, Ops, Opens
  <2>2. Legal(c) /\ c.op \notin Payloads
    BY <1>3, <2>1 DEF NewWritableFile, Legal, Payloads
  <2>3. Plain(t, c)
    BY <1>3 DEF NewWritableFile
  <2> HIDE DEF c
  <2> QED
    BY <2>1, <2>2, <2>3, PlainBegins
<1>4. ASSUME NEW p \in Paths, NewRandomAccessFile(t, p)
      PROVE  \E c \in CallRecord : Legal(c) /\ Begins(t, c)
  <2> DEFINE c == Request("NewRandomAccessFile", 0, p, 0, 0, 0)
  <2>1. c \in CallRecord /\ c.op = "NewRandomAccessFile" /\ c.path = p /\ c.obj = 0
    BY DEF Request, CallRecord, Ops, Opens
  <2>2. Legal(c) /\ c.op \notin Payloads
    BY <2>1 DEF Legal, Payloads
  <2>3. Plain(t, c)
    BY <1>4 DEF NewRandomAccessFile
  <2> HIDE DEF c
  <2> QED
    BY <2>1, <2>2, <2>3, PlainBegins
<1>5. ASSUME NEW o \in 1 .. Len(objects), NEW n \in Sizes,
             AppendData(t, o, n) \/ Read(t, o, 0, n)
      PROVE  \E c \in CallRecord : Legal(c) /\ Begins(t, c)
  <2>0. n \in Nat
    BY RegionAssumption
  <2>1. CASE AppendData(t, o, n)
    <3> DEFINE c == OnObject(o, "Append", n, objects[o].offset)
    <3>1. /\ c \in CallRecord /\ c.op = "Append" /\ c.obj = o /\ c.fd = objects[o].fd
          /\ c.len = n /\ c.at = objects[o].offset
      BY <1>2, <2>0 DEF OnObject, Request, CallRecord, Object, Ops, Payloads
    <3>2. Legal(c) /\ c.op \in Payloads
      BY <2>1, <3>1 DEF AppendData, Usable, Legal, Payloads, Alive, AliveWriter
    <3>3. WithPayload(t, c)
      BY <2>1 DEF AppendData
    <3> HIDE DEF c
    <3> QED
      BY <3>1, <3>2, <3>3, PayloadBegins
  <2>2. CASE Read(t, o, 0, n)
    <3> DEFINE c == OnObject(o, "Read", n, 0)
    <3>1. /\ c \in CallRecord /\ c.op = "Read" /\ c.obj = o /\ c.len = n /\ c.at = 0
      BY <1>2, <2>0 DEF OnObject, Request, CallRecord, Object, Ops, Payloads
    <3>2. Legal(c) /\ c.op \in Payloads
      BY <3>1 DEF Legal, Payloads
    <3>3. WithPayload(t, c)
      BY <2>2 DEF Read
    <3> HIDE DEF c
    <3> QED
      BY <3>1, <3>2, <3>3, PayloadBegins
  <2> QED
    BY <1>5, <2>1, <2>2
<1>6. ASSUME NEW o \in 1 .. Len(objects), Sync(t, o) \/ Close(t, o) \/ Destroy(t, o)
      PROVE  \E c \in CallRecord : Legal(c) /\ Begins(t, c)
  <2>1. ASSUME NEW op \in {"Sync", "Close", "Destroy"}, Plain(t, OnObject(o, op, 0, 0)),
               Alive(o), ~InUse(o), op = "Destroy" \/ AliveWriter(o)
        PROVE  \E c \in CallRecord : Legal(c) /\ Begins(t, c)
    <3> DEFINE c == OnObject(o, op, 0, 0)
    <3>1. c \in CallRecord /\ c.op = op /\ c.obj = o /\ c.fd = objects[o].fd
      BY <1>2 DEF OnObject, Request, CallRecord, Object, Ops, Owned
    <3>2. Legal(c) /\ c.op \notin Payloads
      BY <2>1, <3>1 DEF Legal, Payloads
    <3>3. Plain(t, c)
      BY <2>1
    <3> HIDE DEF c
    <3> QED
      BY <3>1, <3>2, <3>3, PlainBegins
  <2>2. CASE Sync(t, o)
    BY <2>1, <2>2 DEF Sync, Usable, Alive, AliveWriter
  <2>3. CASE Close(t, o)
    BY <2>1, <2>3 DEF Close, Usable, Alive, AliveWriter
  <2>4. CASE Destroy(t, o)
    BY <2>1, <2>4 DEF Destroy, Usable, Alive, AliveWriter
  <2> QED
    BY <1>6, <2>2, <2>3, <2>4
<1> QED
  BY <1>1, <1>3, <1>4, <1>5, <1>6 DEF Call

\* Object o changes, and no other.
Changes(o, fd, pos, alive) ==
  /\ objects' \in Seq(Object) /\ Len(objects') = Len(objects)
  /\ \A q \in 1 .. Len(objects) : q # o => objects'[q] = objects[q]
  /\ objects'[o].kind = objects[o].kind /\ objects'[o].path = objects[o].path
  /\ objects'[o].fd = fd /\ objects'[o].offset = pos /\ objects'[o].alive = alive

(* Replacing one object by one of its own kind and path changes that       *)
(* object only.                                                            *)
LEMMA ObjectChanges ==
  ASSUME objects \in Seq(Object), NEW o \in 1 .. Len(objects), NEW new \in Object,
         objects' = [objects EXCEPT ![o] = new],
         new.kind = objects[o].kind, new.path = objects[o].path
  PROVE  Changes(o, new.fd, new.offset, new.alive)
<1>1. objects' \in Seq(Object) /\ Len(objects') = Len(objects)
      /\ \A q \in 1 .. Len(objects) : objects'[q] = IF q = o THEN new ELSE objects[q]
  BY ExceptSeq
<1> QED
  BY <1>1 DEF Changes

(* Deleting an object changes that object only.                            *)
LEMMA ObjectEnds ==
  ASSUME objects \in Seq(Object), NEW o \in 1 .. Len(objects),
         objects' = [objects EXCEPT ![o].alive = FALSE]
  PROVE  Changes(o, objects[o].fd, objects[o].offset, FALSE)
<1> DEFINE new == [objects[o] EXCEPT !.alive = FALSE]
<1>1. objects[o] \in Object
  OBVIOUS
<1>2. /\ new \in Object /\ new.kind = objects[o].kind /\ new.path = objects[o].path
      /\ new.fd = objects[o].fd /\ new.offset = objects[o].offset /\ new.alive = FALSE
  BY <1>1 DEF Object
<1>3. objects' = [objects EXCEPT ![o] = new]
  OBVIOUS
<1> HIDE DEF new
<1> QED
  BY <1>2, <1>3, ObjectChanges

(* Closing an object changes that object only.                             *)
LEMMA ObjectClosed ==
  ASSUME objects \in Seq(Object), NEW o \in 1 .. Len(objects),
         objects' = [objects EXCEPT ![o].fd = 0]
  PROVE  Changes(o, 0, objects[o].offset, objects[o].alive)
<1> DEFINE new == [objects[o] EXCEPT !.fd = 0]
<1>1. objects[o] \in Object
  OBVIOUS
<1>2. /\ new \in Object /\ new.kind = objects[o].kind /\ new.path = objects[o].path
      /\ new.fd = 0 /\ new.offset = objects[o].offset /\ new.alive = objects[o].alive
  BY <1>1 DEF Object
<1>3. objects' = [objects EXCEPT ![o] = new]
  OBVIOUS
<1> HIDE DEF new
<1> QED
  BY <1>2, <1>3, ObjectChanges

(* Moving the offset of an object changes that object only.                *)
LEMMA ObjectAppended ==
  ASSUME objects \in Seq(Object), NEW o \in 1 .. Len(objects), NEW n \in Nat,
         objects' = [objects EXCEPT ![o].offset = @ + n]
  PROVE  Changes(o, objects[o].fd, objects[o].offset + n, objects[o].alive)
<1>1. objects[o] \in Object
  OBVIOUS
<1>0. PICK m \in Nat : m = objects[o].offset + n
  BY <1>1 DEF Object
<1> DEFINE new == [objects[o] EXCEPT !.offset = m]
<1>2. /\ new \in Object /\ new.kind = objects[o].kind /\ new.path = objects[o].path
      /\ new.fd = objects[o].fd /\ new.offset = m
      /\ new.alive = objects[o].alive
  BY <1>1 DEF Object
<1>3. objects' = [objects EXCEPT ![o] = new]
  BY <1>0
<1> HIDE DEF new
<1> QED
  BY <1>0, <1>2, <1>3, ObjectChanges

\* The end of a call, for each outcome.
OpenEnds(c, resp) ==
  /\ c.op \in Opens /\ resp.ok
  /\ objects' = Append(objects,
       Opened(IF c.op = "NewWritableFile" THEN "Writable" ELSE "RandomAccess",
              c.path, resp.fd))
  /\ appended' = Append(appended, <<>>)
AppendEnds(c, resp) ==
  /\ c.op = "Append" /\ resp.ok
  /\ Changes(c.obj, objects[c.obj].fd, objects[c.obj].offset + c.len, objects[c.obj].alive)
  /\ appended' = [appended EXCEPT ![c.obj] = @ \o [i \in 1 .. c.len |-> c.id]]
CloseEnds(c) ==
  /\ c.op = "Close" /\ appended' = appended
  /\ Changes(c.obj, 0, objects[c.obj].offset, objects[c.obj].alive)
DestroyEnds(c) ==
  /\ c.op = "Destroy" /\ appended' = appended
  /\ Changes(c.obj, objects[c.obj].fd, objects[c.obj].offset, FALSE)
OtherEnds(c, resp) ==
  /\ c.op \notin {"Close", "Destroy"}
  /\ c.op \in Opens \cup {"Append"} => ~resp.ok
  /\ UNCHANGED <<objects, appended>>
Ends(c, resp) ==
  OpenEnds(c, resp) \/ AppendEnds(c, resp) \/ CloseEnds(c) \/ DestroyEnds(c)
    \/ OtherEnds(c, resp)

(* Every way a call can return, as a change of at most one object and its  *)
(* appends.                                                                *)
LEMMA FinishEnds ==
  ASSUME Types, NEW c \in CallRecord, Refers(c, Len(objects)), NEW resp, Finish(c, resp)
  PROVE  Ends(c, resp)
<1>0. objects \in Seq(Object) /\ c.len \in Nat
  BY DEF Types, CallRecord
<1>1. ASSUME c.op \in Opens, AfterOpen(c, resp) PROVE Ends(c, resp)
  BY <1>1 DEF AfterOpen, Ends, OpenEnds, OtherEnds, Opens
<1>2. ASSUME c.op = "Append", AfterAppend(c, resp.ok) PROVE Ends(c, resp)
  <2>1. c.obj \in 1 .. Len(objects)
    BY <1>2 DEF Refers, Opens
  <2> QED
    BY <1>0, <1>2, <2>1, ObjectAppended DEF AfterAppend, Ends, AppendEnds, OtherEnds
<1>3. ASSUME c.op = "Close", AfterClose(c, resp.ok) PROVE Ends(c, resp)
  <2>1. c.obj \in 1 .. Len(objects)
    BY <1>3 DEF Refers, Opens
  <2> QED
    BY <1>0, <1>3, <2>1, ObjectClosed DEF AfterClose, Ends, CloseEnds
<1>4. ASSUME c.op = "Destroy", objects' = [objects EXCEPT ![c.obj].alive = FALSE],
             UNCHANGED appended
      PROVE  Ends(c, resp)
  <2>1. c.obj \in 1 .. Len(objects)
    BY <1>4 DEF Refers, Opens
  <2> QED
    BY <1>0, <1>4, <2>1, ObjectEnds DEF Ends, DestroyEnds
<1>5. ASSUME c.op \in {"Read", "Sync"}, UNCHANGED <<objects, appended>>
      PROVE  Ends(c, resp)
  BY <1>5 DEF Ends, OtherEnds, Opens
<1> QED
  BY <1>1, <1>2, <1>3, <1>4, <1>5 DEF Finish

-----------------------------------------------------------------------------
(* The shapes are kept.                                                    *)

LEMMA BeginTypes ==
  ASSUME Types, NEW t \in Callers, NEW c \in CallRecord, Begins(t, c)
  PROVE  Types'
<1>1. calls' \in Nat /\ calls' <= MaxCalls
  BY EnvAssumption DEF Types, Begins
<1>2. call' \in [Callers -> CallRecord]
      /\ pc' \in [Callers -> {"idle", "alloc", "submit", "push", "wait"}]
  BY DEF Types, Begins
<1> QED
  BY <1>1, <1>2 DEF Types, Begins

(* Deleting a closed object keeps the types: it makes no call.             *)
LEMMA DestroyClosedTypes ==
  ASSUME Types, NEW t \in Callers, NEW o \in 1 .. Len(objects), DestroyClosed(t, o)
  PROVE  Types' /\ Changes(o, objects[o].fd, objects[o].offset, FALSE)
<1>1. Changes(o, objects[o].fd, objects[o].offset, FALSE)
  BY ObjectEnds DEF Types, DestroyClosed
<1> QED
  BY <1>1 DEF Types, DestroyClosed, Changes, daemonVars

(* Filling in a request keeps the types; it gives the call the next id.    *)
LEMMA SubmitTypes ==
  ASSUME Types, NEW t \in Callers, Submit(t)
  PROVE  /\ Types' /\ call'[t] = [call[t] EXCEPT !.id = nextId]
         /\ \A u \in Callers : u # t => call'[u] = call[u]
<1> DEFINE new == [call[t] EXCEPT !.id = nextId]
<1>1. call[t] \in CallRecord /\ nextId \in Nat
  BY DEF Types
<1>2. new \in CallRecord
  BY <1>1 DEF CallRecord
<1>3. call' = [call EXCEPT ![t] = new]
  BY DEF Submit
<1>4. call' \in [Callers -> CallRecord] /\ call'[t] = new
      /\ \A u \in Callers : u # t => call'[u] = call[u]
  <2> HIDE DEF new
  <2> QED
    BY <1>2, <1>3 DEF Types
<1>5. pc' \in [Callers -> {"idle", "alloc", "submit", "push", "wait"}]
  BY DEF Types, Submit
<1>6. nextId' \in Nat \ {0} /\ shared' \in BOOLEAN
  BY DEF Types, Submit
<1> QED
  BY <1>4, <1>5, <1>6 DEF Types, Submit, daemonVars

(* Pushing a request keeps the types.                                      *)
LEMMA PushTypes ==
  ASSUME Types, AllocInv, NEW t \in Callers, Push(t)
  PROVE  Types'
<1>1. [call |-> call[t], slot |-> held[t].start] \in Entry
  BY DEF Types, AllocInv, AllocTypeOK, Entry
<1>2. reqRing' \in Seq(Entry)
  BY <1>1 DEF Types, Push
<1>3. pc' \in [Callers -> {"idle", "alloc", "submit", "push", "wait"}]
  BY DEF Types, Push
<1> QED
  BY <1>2, <1>3 DEF Types, Push, daemonVars

(* The return of a call keeps the objects and what was appended to them    *)
(* typed.                                                                  *)
LEMMA EndTypes ==
  ASSUME Types, NEW c \in CallRecord, Refers(c, Len(objects)), NEW resp \in Response, Ends(c, resp)
  PROVE  /\ objects' \in Seq(Object) /\ appended' \in Seq(Seq(Nat))
         /\ Len(appended') = Len(objects')
<1>1. CASE OpenEnds(c, resp)
  <2>1. \A kind \in {"Writable", "RandomAccess"} : Opened(kind, c.path, resp.fd) \in Object
    BY <1>1 DEF Opened, Object, OpenEnds, Refers, Response
  <2> QED
    BY <1>1, <2>1 DEF OpenEnds, Types
<1>2. CASE AppendEnds(c, resp)
  <2>1. c.obj \in 1 .. Len(appended) /\ c.len \in Nat /\ c.id \in Nat
    BY <1>2 DEF AppendEnds, Refers, Opens, Types, CallRecord
  <2>2. appended[c.obj] \in Seq(Nat) /\ [i \in 1 .. c.len |-> c.id] \in Seq(Nat)
    <3>1. ASSUME NEW n \in Nat, NEW v \in Nat PROVE [i \in 1 .. n |-> v] \in Seq(Nat)
      OBVIOUS
    <3>2. appended[c.obj] \in Seq(Nat)
      BY <2>1, ElementOfSeq DEF Types
    <3> QED
      BY <2>1, <3>1, <3>2
  <2>3. PICK new \in Seq(Nat) : new = appended[c.obj] \o [i \in 1 .. c.len |-> c.id]
    BY <2>2, ConcatProperties
  <2>4. appended' = [appended EXCEPT ![c.obj] = new]
    BY <1>2, <2>3 DEF AppendEnds
  <2> QED
    BY <1>2, <2>1, <2>3, <2>4 DEF AppendEnds, Changes, Types
<1>3. CASE CloseEnds(c) \/ DestroyEnds(c) \/ OtherEnds(c, resp)
  BY <1>3 DEF CloseEnds, DestroyEnds, OtherEnds, Changes, Types
<1> QED
  BY <1>1, <1>2, <1>3 DEF Ends

\* A response that is taken for an answer, and one that is not.
Returned(t) ==
  /\ pc' = [pc EXCEPT ![t] = "idle"] /\ call' = [call EXCEPT ![t] = NoCall]
  /\ Ends(call[t], respRing[1])
  /\ IF step[t] = "held" THEN Release(t) ELSE UNCHANGED regionVars
Dropped == UNCHANGED <<regionVars, pc, call, objects, appended>>

(* A thread takes the first response, whoever it is for: its own, and its  *)
(* call returns, or another's, which is dropped.                           *)
LEMMA PopCases ==
  ASSUME Types, CallsRefer, NEW t \in Callers, PopResponse(t)
  PROVE  /\ pc[t] = "wait" /\ Len(respRing) > 0 /\ respRing[1] \in Response
         /\ respRing' = Tail(respRing)
         /\ UNCHANGED <<calls, nextId, shared, region, reqRing, table, nextFd, files,
                        faults>>
         /\ Refers(call[t], Len(objects)) /\ call[t] \in CallRecord
         /\ \/ respRing[1].id = call[t].id /\ Returned(t)
            \/ respRing[1].id # call[t].id /\ Dropped
<1>1. /\ pc[t] = "wait" /\ respRing # <<>> /\ respRing' = Tail(respRing)
      /\ UNCHANGED <<calls, nextId, shared, region, reqRing, table, nextFd, files, faults>>
  BY DEF PopResponse, daemonVars
<1>2. Len(respRing) > 0 /\ Head(respRing) = respRing[1] /\ respRing[1] \in Response
  BY <1>1 DEF Types
<1>3. Refers(call[t], Len(objects)) /\ call[t] \in CallRecord
  BY <1>1 DEF CallsRefer, Types
<1>4. CASE respRing[1].id = call[t].id
  <2>1. Ends(call[t], respRing[1])
    BY <1>2, <1>3, <1>4, FinishEnds DEF PopResponse
  <2> QED
    BY <1>1, <1>2, <1>3, <1>4, <2>1 DEF PopResponse, Returned
<1>5. CASE respRing[1].id # call[t].id
  BY <1>1, <1>2, <1>3, <1>5 DEF PopResponse, Dropped
<1> QED
  BY <1>4, <1>5

(* Taking a response keeps the types.                                      *)
LEMMA PopTypes ==
  ASSUME Types, CallsRefer, NEW t \in Callers, PopResponse(t)
  PROVE  Types'
<1>1. /\ respRing' = Tail(respRing) /\ Len(respRing) > 0
      /\ UNCHANGED <<calls, nextId, shared, reqRing, table, nextFd, faults>>
      /\ Refers(call[t], Len(objects)) /\ call[t] \in CallRecord /\ respRing[1] \in Response
      /\ Returned(t) \/ Dropped
  BY PopCases
<1>2. respRing' \in Seq(Response)
  BY <1>1 DEF Types
<1>3. CASE Returned(t)
  <2>1. NoCall \in CallRecord
    BY DEF NoCall, Request, CallRecord
  <2>2. call' \in [Callers -> CallRecord]
        /\ pc' \in [Callers -> {"idle", "alloc", "submit", "push", "wait"}]
    BY <1>3, <2>1 DEF Types, Returned
  <2>3. /\ objects' \in Seq(Object) /\ appended' \in Seq(Seq(Nat))
        /\ Len(appended') = Len(objects')
    BY <1>1, <1>3, EndTypes DEF Returned
  <2> QED
    BY <1>1, <1>2, <2>2, <2>3 DEF Types
<1>4. CASE Dropped
  BY <1>1, <1>2, <1>4 DEF Types, Dropped
<1> QED
  BY <1>1, <1>3, <1>4

(* The daemon's reply takes the first request and adds one response, with  *)
(* that request's id.                                                      *)
LEMMA ReplyTypes ==
  ASSUME Types, reqRing # <<>>, NEW ok \in BOOLEAN, Reply(ok)
  PROVE  /\ Len(reqRing) > 0 /\ Head(reqRing) = reqRing[1] /\ reqRing[1] \in Entry
         /\ reqRing' \in Seq(Entry) /\ respRing' \in Seq(Response)
         /\ respRing' = Append(respRing, Answer(reqRing[1].call.id, ok,
                          IF reqRing[1].call.op \in Opens THEN nextFd ELSE 0))
         /\ reqRing' = Tail(reqRing)
         /\ UNCHANGED <<regionVars, threadVars>>
<1>1. Len(reqRing) > 0 /\ Head(reqRing) = reqRing[1] /\ reqRing[1] \in Entry
  BY DEF Types
<1>2. PICK fd \in Nat : fd = IF reqRing[1].call.op \in Opens THEN nextFd ELSE 0
  BY DEF Types
<1>3. Answer(reqRing[1].call.id, ok, fd) \in Response
  BY <1>1 DEF Answer, Response, Entry, CallRecord
<1>4. respRing' = Append(respRing, Answer(reqRing[1].call.id, ok, fd))
  BY <1>1, <1>2 DEF Reply
<1>5. respRing' \in Seq(Response)
  BY <1>3, <1>4 DEF Types
<1>6. reqRing' = Tail(reqRing) /\ reqRing' \in Seq(Entry)
  BY <1>1 DEF Reply, Types
<1> QED
  BY <1>1, <1>2, <1>4, <1>5, <1>6 DEF Reply

(* The daemon's table with a new handle: the handles below it stay.        *)
LEMMA TableAdded ==
  ASSUME Types, NEW p \in Paths
  PROVE  /\ DOMAIN Added(p) = DOMAIN table \cup {nextFd}
         /\ DOMAIN Added(p) \subseteq 1 .. nextFd + 1 - 1
         /\ Added(p) \in [DOMAIN Added(p) -> Paths]
         /\ Added(p)[nextFd] = p
         /\ \A fd \in DOMAIN table : Added(p)[fd] = table[fd]
BY DEF Types, Added

(* The daemon's table without a handle.                                    *)
LEMMA TableRestricted ==
  ASSUME Types, NEW fd
  PROVE  LET T == Restrict(table, DOMAIN table \ {fd}) IN
           /\ DOMAIN T = DOMAIN table \ {fd} /\ T \in [DOMAIN T -> Paths]
           /\ \A d \in DOMAIN T : T[d] = table[d]
BY DEF Types, Restrict

(* The daemon serving a request keeps the types.                           *)
LEMMA ServeTypes ==
  ASSUME Types, RequestsFit, Serve
  PROVE  Types'
<1> DEFINE r == reqRing[1]
           c == reqRing[1].call
<1>1. /\ reqRing' \in Seq(Entry) /\ respRing' \in Seq(Response)
      /\ Len(reqRing) > 0 /\ Head(reqRing) = r /\ UNCHANGED <<regionVars, threadVars>>
  BY ReplyTypes DEF Serve
<1>2. 1 \in 1 .. Len(reqRing)
  BY <1>1 DEF Types
<1>3. Refers(c, Len(objects))
  BY <1>2 DEF RequestsFit
<1>4. Performed(r)
  BY <1>1 DEF Serve
<1>5. /\ nextFd' \in Nat \ {0} /\ faults' \in Nat
      /\ DOMAIN table' \subseteq 1 .. nextFd' - 1 /\ table' \in [DOMAIN table' -> Paths]
  <2>1. CASE c.op \in Opens
    <3>1. table' = Added(c.path) /\ nextFd' = nextFd + 1 /\ faults' = faults
      BY <1>4, <2>1 DEF Performed, Opens
    <3>2. c.path \in Paths
      BY <1>3, <2>1 DEF Refers
    <3>3. /\ DOMAIN Added(c.path) \subseteq 1 .. nextFd + 1 - 1
          /\ Added(c.path) \in [DOMAIN Added(c.path) -> Paths]
      BY <3>2, TableAdded
    <3> QED
      BY <3>1, <3>3 DEF Types
  <2>2. CASE c.op \in {"Close", "Destroy"}
    <3>1. table' = Restrict(table, DOMAIN table \ {c.fd}) /\ UNCHANGED <<nextFd, faults>>
      BY <1>4, <2>2 DEF Performed, Opens
    <3>2. DOMAIN table' = DOMAIN table \ {c.fd} /\ table' \in [DOMAIN table' -> Paths]
      BY <3>1, TableRestricted
    <3> QED
      BY <3>1, <3>2 DEF Types
  <2>3. CASE c.op = "Append"
    <3>1. faults' \in {faults, faults + 1} /\ UNCHANGED <<table, nextFd>>
      BY <1>4, <2>3 DEF Performed, Opens
    <3> QED
      BY <3>1 DEF Types
  <2>4. CASE c.op \in {"Read", "Sync"}
    <3>1. UNCHANGED <<table, nextFd, faults>>
      BY <1>4, <2>4 DEF Performed, Opens, daemonVars
    <3> QED
      BY <3>1 DEF Types
  <2> QED
    BY <1>3, <2>1, <2>2, <2>3, <2>4 DEF Refers, Ops, Payloads, Owned
<1> QED
  BY <1>1, <1>5 DEF Types, threadVars

(* The daemon refusing a request, or failing it: a close forgets the       *)
(* handle either way.                                                      *)
LEMMA FailCases ==
  ASSUME Types, ServeFails
  PROVE  LET c == reqRing[1].call IN
         /\ reqRing # <<>> /\ Reply(FALSE) /\ UNCHANGED <<nextFd, files, region>>
         /\ faults' \in {faults, faults + 1}
         /\ table' = IF c.op \in {"Close", "Destroy"}
                     THEN Restrict(table, DOMAIN table \ {c.fd}) ELSE table
         /\ faults' = faults => ~Valid(c)
<1>1. Head(reqRing) = reqRing[1]
  BY DEF Types, ServeFails
<1> DEFINE c == reqRing[1].call
<1>2. faults \in Nat /\ faults + 1 # faults
  BY DEF Types
<1>3. faults' = IF Valid(c) THEN faults + 1 ELSE faults
  BY <1>1 DEF ServeFails
<1>4. table' = IF c.op \in {"Close", "Destroy"}
               THEN Restrict(table, DOMAIN table \ {c.fd}) ELSE table
  BY <1>1 DEF ServeFails
<1>5. reqRing # <<>> /\ Reply(FALSE) /\ UNCHANGED <<nextFd, files, region>>
  BY DEF ServeFails
<1>6. faults' \in {faults, faults + 1} /\ (faults' = faults => ~Valid(c))
  BY <1>2, <1>3
<1> HIDE DEF c
<1> QED
  BY <1>4, <1>5, <1>6 DEF c

(* The daemon failing a request keeps the types.                           *)
LEMMA ServeFailsTypes ==
  ASSUME Types, ServeFails
  PROVE  Types'
<1> DEFINE c == reqRing[1].call
<1>1. /\ reqRing # <<>> /\ Reply(FALSE) /\ UNCHANGED <<nextFd, files, region>>
      /\ faults' \in {faults, faults + 1}
      /\ table' = IF c.op \in {"Close", "Destroy"}
                  THEN Restrict(table, DOMAIN table \ {c.fd}) ELSE table
  BY FailCases
<1>2. /\ reqRing' \in Seq(Entry) /\ respRing' \in Seq(Response)
      /\ UNCHANGED <<regionVars, threadVars>>
  BY <1>1, ReplyTypes
<1>3. DOMAIN table' \subseteq DOMAIN table /\ table' \in [DOMAIN table' -> Paths]
  <2>1. CASE c.op \in {"Close", "Destroy"}
    <3>1. table' = Restrict(table, DOMAIN table \ {c.fd})
      BY <1>1, <2>1
    <3> QED
      BY <3>1, TableRestricted
  <2>2. CASE c.op \notin {"Close", "Destroy"}
    <3>1. table' = table
      BY <1>1, <2>2
    <3> QED
      BY <3>1 DEF Types
  <2> QED
    BY <2>1, <2>2
<1>4. faults' \in Nat
  BY <1>1 DEF Types
<1> QED
  BY <1>1, <1>2, <1>3, <1>4 DEF Types, threadVars

(* A new call keeps the allocation.                                        *)
LEMMA BeginAllocates ==
  ASSUME Types, AllocInv, Allocates, NEW t \in Callers, NEW c \in CallRecord, Legal(c),
         Begins(t, c)
  PROVE  Allocates'
<1>1. /\ pc \in [Callers -> {"idle", "alloc", "submit", "push", "wait"}]
      /\ call \in [Callers -> CallRecord] /\ want \in [Callers -> Nat]
      /\ step \in [Callers -> {"idle", "load", "exchange", "held"}]
  BY DEF Types, AllocInv, AllocTypeOK
<1>2. pc[t] = "idle" /\ call' = [call EXCEPT ![t] = c]
  BY DEF Begins
<1>3. CASE c.op \in Payloads
  <2>1. c.len \in Sizes
    BY <1>3 DEF Legal, Payloads
  <2>2. AsU32(c.len) = c.len /\ c.len <= RegionLen
    BY <2>1, LengthFits, EnvAssumption
  <2>3. /\ step' = [step EXCEPT ![t] = "load"] /\ want' = [want EXCEPT ![t] = c.len]
        /\ UNCHANGED <<offset, held>> /\ pc' = [pc EXCEPT ![t] = "alloc"]
    BY <1>3, <2>2 DEF Begins, AllocBegin
  <2> QED
    BY <1>1, <1>2, <1>3, <2>2, <2>3 DEF Allocates
<1>4. CASE c.op \notin Payloads
  <2>1. UNCHANGED <<offset, step, want, held>> /\ pc' = [pc EXCEPT ![t] = "submit"]
    BY <1>4 DEF Begins, regionVars
  <2> QED
    BY <1>1, <1>2, <1>4, <2>1 DEF Allocates
<1> QED
  BY <1>3, <1>4

(* The allocation of a payload keeps itself.                               *)
LEMMA AllocateAllocates ==
  ASSUME Types, AllocInv, Allocates, NEW t \in Callers, Allocate(t)
  PROVE  Allocates'
<1>1. /\ pc \in [Callers -> {"idle", "alloc", "submit", "push", "wait"}]
      /\ step \in [Callers -> {"idle", "load", "exchange", "held"}]
      /\ held \in [Callers -> [start : Nat, len : Nat, lap : Nat]]
  BY DEF Types, AllocInv, AllocTypeOK
<1>2. pc[t] = "alloc" /\ UNCHANGED call
  BY DEF Allocate
<1>3. ASSUME Load(t) \/ ExchangeFails(t), UNCHANGED pc PROVE Allocates'
  BY <1>1, <1>2, <1>3 DEF Load, ExchangeFails, Allocates
<1>4. ASSUME Exchange(t), pc' = [pc EXCEPT ![t] = "submit"] PROVE Allocates'
  <2>1. /\ step' = [step EXCEPT ![t] = "held"] /\ UNCHANGED want
        /\ offset \in Nat /\ want[t] \in Nat
        /\ \/ offset + want[t] > RegionLen /\ offset' = want[t]
           \/ offset + want[t] <= RegionLen /\ offset' = offset + want[t]
    BY <1>4, TakeExact
  <2>2. held'[t].len = want[t] /\ \A u \in Callers : u # t => held'[u] = held[u]
    BY <1>1, <1>4, TakeExact
  <2>3. offset' <= RegionLen
    BY <2>1 DEF Allocates
  <2> QED
    BY <1>1, <1>2, <1>4, <2>1, <2>2, <2>3 DEF Allocates
<1> QED
  BY <1>3, <1>4 DEF Allocate

(* Filling in a request keeps the allocation.                              *)
LEMMA SubmitAllocates ==
  ASSUME Types, Allocates, NEW t \in Callers, Submit(t)
  PROVE  Allocates'
<1>1. /\ call'[t].op = call[t].op /\ call'[t].len = call[t].len
      /\ \A u \in Callers : u # t => call'[u] = call[u]
  BY SubmitTypes DEF Types, CallRecord
<1>2. /\ pc[t] = "submit" /\ pc' = [pc EXCEPT ![t] = "push"]
      /\ pc \in [Callers -> {"idle", "alloc", "submit", "push", "wait"}]
      /\ UNCHANGED <<offset, step, want, held>>
  BY DEF Submit, Types, regionVars
<1> QED
  BY <1>1, <1>2 DEF Allocates

(* Pushing a request keeps the allocation.                                 *)
LEMMA PushAllocates ==
  ASSUME Types, Allocates, NEW t \in Callers, Push(t)
  PROVE  Allocates'
BY DEF Push, Types, regionVars, Allocates

(* The return of a call releases its payload and keeps the others.         *)
LEMMA PopAllocates ==
  ASSUME Types, AllocInv, Allocates, CallsRefer, NEW t \in Callers, PopResponse(t)
  PROVE  Allocates'
<1>1. pc[t] = "wait" /\ (Returned(t) \/ Dropped)
  BY PopCases
<1>2. CASE Returned(t)
  <2>1. /\ pc \in [Callers -> {"idle", "alloc", "submit", "push", "wait"}]
        /\ call \in [Callers -> CallRecord]
        /\ step \in [Callers -> {"idle", "load", "exchange", "held"}]
    BY DEF Types, AllocInv, AllocTypeOK
  <2>2. /\ step'[t] = "idle" /\ \A u \in Callers : u # t => step'[u] = step[u]
        /\ UNCHANGED <<offset, want, held>>
    BY <1>1, <1>2, <2>1 DEF Returned, Release, regionVars, Allocates
  <2>3. /\ pc'[t] = "idle"
        /\ \A u \in Callers : u # t => pc'[u] = pc[u] /\ call'[u] = call[u]
    BY <1>2, <2>1 DEF Returned
  <2> QED
    BY <2>2, <2>3 DEF Allocates
<1>3. CASE Dropped
  BY <1>3 DEF Dropped, Allocates, regionVars
<1> QED
  BY <1>1, <1>2, <1>3

(* Objects are created and never renumbered.                               *)
LEMMA ObjectsGrow ==
  ASSUME Types, NEW c, NEW resp, Ends(c, resp)
  PROVE  Len(objects) \in Nat /\ Len(objects') \in Nat /\ Len(objects) <= Len(objects')
<1>1. Len(objects) \in Nat
  BY DEF Types
<1>2. CASE OpenEnds(c, resp)
  BY <1>2 DEF OpenEnds, Types
<1>3. CASE AppendEnds(c, resp) \/ CloseEnds(c) \/ DestroyEnds(c) \/ OtherEnds(c, resp)
  BY <1>1, <1>3 DEF AppendEnds, CloseEnds, DestroyEnds, OtherEnds, Changes
<1> QED
  BY <1>2, <1>3 DEF Ends

(* A legal call names an object that exists.                               *)
LEMMA LegalRefers ==
  ASSUME NEW c \in CallRecord, Legal(c)
  PROVE  Refers(c, Len(objects))
<1>1. c.op \in Payloads => c.len \in 1 .. RegionLen
  BY EnvAssumption DEF Legal, Payloads
<1> QED
  BY <1>1 DEF Legal, Refers, Alive, AliveWriter, Ops, Opens, Payloads, Owned

(* An object that exists goes on existing.                                 *)
LEMMA RefersGrows ==
  ASSUME NEW c, NEW n \in Nat, NEW m \in Nat, n <= m, Refers(c, n)
  PROVE  Refers(c, m)
BY DEF Refers

\* A step that adds objects, or calls, and changes only the call of t.
LEMMA ReferKept ==
  ASSUME Types, CallsRefer, RequestsFit,
         Len(objects') \in Nat, Len(objects) <= Len(objects'), calls' \in {calls, calls + 1},
         NEW t \in Callers,
         \A u \in Callers : u # t => pc'[u] = pc[u] /\ call'[u] = call[u]
  PROVE  /\ \A u \in Callers : u # t /\ pc'[u] # "idle" =>
              Refers(call'[u], Len(objects')) /\ calls' > 0
         /\ \A k \in 1 .. Len(reqRing) :
              /\ Refers(reqRing[k].call, Len(objects')) /\ calls' > 0
              /\ reqRing[k].call.op \in Payloads =>
                   reqRing[k].slot + reqRing[k].call.len <= RegionLen
<1>1. Len(objects) \in Nat /\ calls \in Nat
  BY DEF Types
<1>2. ASSUME NEW u \in Callers, u # t, pc'[u] # "idle"
      PROVE  Refers(call'[u], Len(objects')) /\ calls' > 0
  <2>1. Refers(call[u], Len(objects)) /\ calls > 0 /\ call'[u] = call[u]
    BY <1>2 DEF CallsRefer
  <2> QED
    BY <1>1, <2>1, RefersGrows
<1>3. ASSUME NEW k \in 1 .. Len(reqRing)
      PROVE  /\ Refers(reqRing[k].call, Len(objects')) /\ calls' > 0
             /\ reqRing[k].call.op \in Payloads =>
                  reqRing[k].slot + reqRing[k].call.len <= RegionLen
  <2>1. /\ Refers(reqRing[k].call, Len(objects)) /\ calls > 0
        /\ reqRing[k].call.op \in Payloads =>
             reqRing[k].slot + reqRing[k].call.len <= RegionLen
    BY <1>3 DEF RequestsFit
  <2> QED
    BY <1>1, <2>1, RefersGrows
<1> QED
  BY <1>2, <1>3

(* The calls and requests refer to what exists after each step.            *)
LEMMA BeginRefers ==
  ASSUME Types, CallsRefer, RequestsFit, NEW t \in Callers, NEW c \in CallRecord, Legal(c),
         Begins(t, c)
  PROVE  CallsRefer' /\ RequestsFit'
<1>1. /\ pc'[t] # "idle" /\ call'[t] = c /\ calls' = calls + 1
      /\ \A u \in Callers : u # t => pc'[u] = pc[u] /\ call'[u] = call[u]
      /\ UNCHANGED <<objects, reqRing>>
  BY DEF Begins, Types
<1>2. Refers(c, Len(objects)) /\ calls + 1 > 0 /\ Len(objects) \in Nat
  BY LegalRefers DEF Types
<1>3. /\ \A u \in Callers : u # t /\ pc'[u] # "idle" =>
           Refers(call'[u], Len(objects')) /\ calls' > 0
      /\ \A k \in 1 .. Len(reqRing) :
           /\ Refers(reqRing[k].call, Len(objects')) /\ calls' > 0
           /\ reqRing[k].call.op \in Payloads =>
                reqRing[k].slot + reqRing[k].call.len <= RegionLen
  BY <1>1, <1>2, ReferKept
<1> QED
  BY <1>1, <1>2, <1>3 DEF CallsRefer, RequestsFit

(* Filling in a request keeps the objects the calls name, and the payloads *)
(* the requests name.                                                      *)
LEMMA SubmitRefers ==
  ASSUME Types, CallsRefer, RequestsFit, NEW t \in Callers, Submit(t)
  PROVE  CallsRefer' /\ RequestsFit'
<1>1. /\ pc[t] = "submit" /\ call'[t] = [call[t] EXCEPT !.id = nextId]
      /\ \A u \in Callers : u # t => pc'[u] = pc[u] /\ call'[u] = call[u]
      /\ UNCHANGED <<objects, reqRing, calls>>
  BY SubmitTypes DEF Submit, Types
<1>2. Refers(call[t], Len(objects)) /\ calls > 0 /\ call[t] \in CallRecord
  BY <1>1 DEF CallsRefer, Types
<1>3. Refers(call'[t], Len(objects))
  BY <1>1, <1>2 DEF Refers, CallRecord
<1> QED
  BY <1>1, <1>2, <1>3 DEF CallsRefer, RequestsFit

(* Pushing a request keeps them too: its payload is the one the thread     *)
(* holds.                                                                  *)
LEMMA PushRefers ==
  ASSUME Types, AllocInv, Allocates, CallsRefer, RequestsFit, NEW t \in Callers, Push(t)
  PROVE  CallsRefer' /\ RequestsFit'
<1> DEFINE r == [call |-> call[t], slot |-> held[t].start]
<1>1. /\ pc[t] = "push" /\ reqRing' = Append(reqRing, r)
      /\ \A u \in Callers : pc'[u] # "idle" => pc[u] # "idle"
      /\ UNCHANGED <<objects, call, calls>>
  BY DEF Push, Types
<1>2. Refers(call[t], Len(objects)) /\ calls > 0
  BY <1>1 DEF CallsRefer
<1>3. r.call.op \in Payloads => r.slot + r.call.len <= RegionLen
  <2>1. SUFFICES ASSUME call[t].op \in Payloads
                 PROVE  held[t].start + call[t].len <= RegionLen
    OBVIOUS
  <2>2. step[t] = "held" /\ held[t].len = call[t].len /\ call[t].len <= RegionLen
    BY <1>1, <1>2, <2>1 DEF Allocates, Refers
  <2> QED
    BY <2>2 DEF AllocInv, InBounds
<1>4. /\ Len(reqRing') = Len(reqRing) + 1 /\ Len(reqRing) \in Nat
      /\ reqRing'[Len(reqRing) + 1] = r
      /\ \A k \in 1 .. Len(reqRing) : reqRing'[k] = reqRing[k]
  BY <1>1 DEF Types
<1>5. RequestsFit'
  <2> SUFFICES ASSUME NEW k \in 1 .. Len(reqRing')
               PROVE  /\ Refers(reqRing'[k].call, Len(objects')) /\ calls' > 0
                      /\ reqRing'[k].call.op \in Payloads =>
                           reqRing'[k].slot + reqRing'[k].call.len <= RegionLen
    BY DEF RequestsFit
  <2>1. CASE k = Len(reqRing) + 1
    <3>1. reqRing'[k].call = call[t] /\ reqRing'[k].slot = r.slot
      BY <1>4, <2>1
    <3> QED
      BY <1>1, <1>2, <1>3, <3>1
  <2>2. CASE k \in 1 .. Len(reqRing)
    BY <1>1, <1>4, <2>2 DEF RequestsFit
  <2> QED
    BY <1>4, <2>1, <2>2
<1> QED
  BY <1>1, <1>5 DEF CallsRefer

(* Taking a response keeps them.                                           *)
LEMMA PopRefers ==
  ASSUME Types, CallsRefer, RequestsFit, NEW t \in Callers, PopResponse(t)
  PROVE  CallsRefer' /\ RequestsFit'
<1>1. UNCHANGED <<calls, reqRing>> /\ (Returned(t) \/ Dropped)
  BY PopCases
<1>2. CASE Returned(t)
  <2>1. /\ pc'[t] = "idle"
        /\ \A u \in Callers : u # t => pc'[u] = pc[u] /\ call'[u] = call[u]
    BY <1>2 DEF Returned, Types
  <2>2. Len(objects') \in Nat /\ Len(objects) <= Len(objects')
    BY <1>2, ObjectsGrow DEF Returned
  <2>3. calls' \in {calls, calls + 1}
    BY <1>1
  <2> QED
    BY <1>1, <2>1, <2>2, <2>3, ReferKept DEF CallsRefer, RequestsFit
<1>3. CASE Dropped
  BY <1>1, <1>3 DEF Dropped, CallsRefer, RequestsFit
<1> QED
  BY <1>1, <1>2, <1>3

(* The daemon's reply keeps them.                                          *)
LEMMA ReplyRefers ==
  ASSUME Types, CallsRefer, RequestsFit, reqRing # <<>>, NEW ok \in BOOLEAN, Reply(ok)
  PROVE  CallsRefer' /\ RequestsFit'
<1>1. reqRing' = Tail(reqRing) /\ UNCHANGED threadVars /\ Len(reqRing) > 0
  BY ReplyTypes
<1>2. /\ \A k \in 1 .. Len(reqRing') : k + 1 \in 1 .. Len(reqRing)
      /\ \A k \in 1 .. Len(reqRing') : reqRing'[k] = reqRing[k + 1]
  BY <1>1 DEF Types
<1> QED
  BY <1>1, <1>2 DEF CallsRefer, RequestsFit, threadVars

(* A position of the first call is a position of the file.                 *)
LEMMA FirstPositions ==
  ASSUME Types, calls > 0
  PROVE  /\ RegionLen \in Nat \ {0} /\ calls * RegionLen \in Nat
         /\ MaxCalls * RegionLen \in Nat
         /\ calls * RegionLen <= MaxCalls * RegionLen
         /\ \A i \in Nat : i < RegionLen => i \in Position
         /\ \A i \in Nat : i < calls * RegionLen => i \in Position
<1>1. calls \in Nat /\ MaxCalls \in Nat /\ calls <= MaxCalls /\ RegionLen \in Nat \ {0}
  BY RegionAssumption, EnvAssumption DEF Types
<1>2. PICK d \in Nat : MaxCalls = calls + d
  <2>1. MaxCalls - calls \in Nat /\ MaxCalls = calls + (MaxCalls - calls)
    BY <1>1
  <2> QED
    BY <2>1
<1>3. PICK b \in Nat : calls = 1 + b
  <2>1. calls - 1 \in Nat /\ calls = 1 + (calls - 1)
    BY <1>1
  <2> QED
    BY <2>1
<1>4. d * RegionLen \in Nat /\ b * RegionLen \in Nat
  BY <1>1
<1>5. MaxCalls * RegionLen = calls * RegionLen + d * RegionLen
  BY <1>1, <1>2
<1>6. calls * RegionLen = RegionLen + b * RegionLen
  BY <1>1, <1>3
<1> QED
  BY <1>1, <1>4, <1>5, <1>6 DEF Position

(* The client's copy puts the mark of this append into every unit of its   *)
(* payload, and touches no unit outside it.                                *)
LEMMA SubmitContents ==
  ASSUME Types, AllocInv, Allocates, CallsRefer, Contents, NEW t \in Callers, Submit(t)
  PROVE  /\ Contents'
         /\ call[t].op = "Append" => \A k \in Span :
              held[t].start <= k /\ k < held[t].start + call[t].len => region'[k] = nextId
<1>1. pc[t] = "submit" /\ nextId' = nextId + 1 /\ files' = files /\ nextId \in Nat
  BY DEF Submit, Types, daemonVars
<1>2. Refers(call[t], Len(objects)) /\ calls > 0
  BY <1>1 DEF CallsRefer
<1>3. 0 .. nextId \subseteq 0 .. nextId'
  BY <1>1
<1>4. files' \in [Paths -> [Position -> 0 .. nextId']]
  BY <1>1, <1>3 DEF Contents
<1>5. region \in [Span -> 0 .. nextId']
  BY <1>3 DEF Contents
<1>6. CASE call[t].op = "Append"
  <2> DEFINE from == [i \in Position |-> nextId]
  <2>1. /\ region' = Copied(region, held[t].start, from, 0, call[t].len)
    BY <1>6 DEF Submit
  <2>2. held[t].start \in Nat /\ call[t].len \in Nat /\ call[t].len <= RegionLen
    <3>1. held[t].start \in Nat /\ call[t].len \in Nat
      BY DEF AllocInv, AllocTypeOK, Types, CallRecord
    <3>2. call[t].len \in 1 .. RegionLen
      BY <1>2, <1>6 DEF Refers, Payloads
    <3> QED
      BY <3>1, <3>2, RegionAssumption
  <2>3. \A k \in Span : held[t].start <= k /\ k < held[t].start + call[t].len =>
          0 + k - held[t].start \in Position
    BY <1>2, <2>2, FirstPositions DEF Span
  <2>4. \A k \in Span : held[t].start <= k /\ k < held[t].start + call[t].len =>
          from[0 + k - held[t].start] = nextId
    BY <2>3
  <2>5. nextId \in 0 .. nextId' /\ Span \subseteq Int /\ held[t].start \in Int /\ 0 \in Int
    BY <1>1, <2>2 DEF Span
  <2> HIDE DEF from
  <2>6. \A k \in Span : held[t].start <= k /\ k < held[t].start + call[t].len =>
          from[0 + k - held[t].start] \in 0 .. nextId'
    BY <2>4, <2>5
  <2>7. /\ region' \in [Span -> 0 .. nextId']
        /\ \A k \in Span : held[t].start <= k /\ k < held[t].start + call[t].len =>
             region'[k] = from[0 + k - held[t].start]
    BY <1>5, <2>1, <2>2, <2>5, <2>6 DEF Copied
  <2> QED
    BY <1>4, <2>4, <2>7 DEF Contents
<1>7. CASE call[t].op # "Append"
  BY <1>4, <1>5, <1>7 DEF Submit, Contents
<1> QED
  BY <1>6, <1>7

(* A file after the daemon wrote a payload into it, unit by unit.          *)
LEMMA AppendedFile ==
  ASSUME Types, Contents, NEW p \in Paths, NEW j \in Nat, NEW s \in Nat, NEW n \in Nat,
         s + n <= RegionLen
  PROVE  /\ Copied(files[p], j, region, s, n) \in [Position -> 0 .. nextId]
         /\ \A k \in Position : j <= k /\ k < j + n =>
              Copied(files[p], j, region, s, n)[k] = region[s + k - j]
         /\ \A k \in Position : ~(j <= k /\ k < j + n) =>
              Copied(files[p], j, region, s, n)[k] = files[p][k]
<1>1. files[p] \in [Position -> 0 .. nextId] /\ Position \subseteq Int
  BY EnvAssumption, RegionAssumption DEF Contents, Position
<1>2. \A k \in Position : j <= k /\ k < j + n => s + k - j \in Span
  BY <1>1, RegionAssumption DEF Span
<1>3. \A k \in Position : j <= k /\ k < j + n => region[s + k - j] \in 0 .. nextId
  BY <1>2 DEF Contents
<1> QED
  BY <1>1, <1>3 DEF Copied

(* The region after the daemon read a file into it holds values of the     *)
(* region.                                                                 *)
LEMMA ReadRegion ==
  ASSUME Types, Contents, calls > 0, NEW p \in Paths, NEW s \in Nat, NEW n \in Nat,
         n <= RegionLen
  PROVE  Copied(region, s, files[p], 0, n) \in [Span -> 0 .. nextId]
<1>1. files[p] \in [Position -> 0 .. nextId]
  BY DEF Contents
<1>2. \A k \in Span : s <= k /\ k < s + n => 0 + k - s \in Position
  BY FirstPositions DEF Span
<1>3. \A k \in Span : s <= k /\ k < s + n => files[p][0 + k - s] \in 0 .. nextId
  BY <1>1, <1>2
<1>4. Span \subseteq Int /\ region \in [Span -> 0 .. nextId]
  BY DEF Span, Contents
<1> QED
  BY <1>3, <1>4 DEF Copied

(* The daemon serving a request keeps the contents of the region and of    *)
(* the files typed.                                                        *)
LEMMA ServeContents ==
  ASSUME Types, Contents, RequestsFit, Serve
  PROVE  Contents'
<1> DEFINE r == reqRing[1]
           c == reqRing[1].call
<1>1. Head(reqRing) = r /\ r \in Entry /\ nextId' = nextId /\ 1 \in 1 .. Len(reqRing)
  <2>1. /\ Head(reqRing) = r /\ r \in Entry /\ UNCHANGED threadVars /\ Len(reqRing) > 0
        /\ Len(reqRing) \in Nat
    <3>1. reqRing # <<>> /\ Reply(TRUE)
      BY DEF Serve
    <3>2. Len(reqRing) \in Nat
      BY DEF Types
    <3> QED
      BY <3>1, <3>2, ReplyTypes
  <2> QED
    BY <2>1 DEF threadVars
<1>2. /\ Refers(c, Len(objects)) /\ calls > 0
      /\ c.op \in Payloads => r.slot + c.len <= RegionLen
  BY <1>1 DEF RequestsFit
<1>3. Performed(r) /\ Valid(c)
  BY <1>1 DEF Serve
<1>4. r.slot \in Nat /\ c \in CallRecord /\ c.at \in Nat /\ c.len \in Nat
  BY <1>1 DEF Entry, CallRecord
<1>5. CASE c.op = "NewWritableFile"
  <2>1. files' = [files EXCEPT ![c.path] = [i \in Position |-> Blank]] /\ region' = region
    BY <1>3, <1>5 DEF Performed, Opens
  <2>2. [i \in Position |-> Blank] \in [Position -> 0 .. nextId]
    BY DEF Blank, Types
  <2> QED
    BY <1>1, <2>1, <2>2 DEF Contents
<1>6. CASE c.op = "Append"
  <2>1. PICK n \in 1 .. c.len :
          files' = [files EXCEPT ![table[c.fd]] = Copied(@, c.at, region, r.slot, n)]
    BY <1>3, <1>6 DEF Performed, Opens
  <2>2. region' = region
    BY <1>3, <1>6 DEF Performed, Opens
  <2>3. PICK p \in Paths : p = table[c.fd]
    BY <1>3, <1>6 DEF Valid, Opens, Types
  <2>4. n \in Nat /\ r.slot + n <= RegionLen
    BY <1>2, <1>4, <1>6, RegionAssumption DEF Payloads
  <2>5. files' = [files EXCEPT ![p] = Copied(files[p], c.at, region, r.slot, n)]
    BY <2>1, <2>3 DEF Contents
  <2>6. Copied(files[p], c.at, region, r.slot, n) \in [Position -> 0 .. nextId]
    BY <1>4, <2>3, <2>4, AppendedFile
  <2> QED
    BY <1>1, <2>2, <2>5, <2>6 DEF Contents
<1>7. CASE c.op = "Read"
  <2>1. region' = Copied(region, r.slot, files[table[c.fd]], c.at, c.len) /\ files' = files
    BY <1>3, <1>7 DEF Performed, Opens
  <2>2. c.at = 0 /\ c.len <= RegionLen
    BY <1>2, <1>7 DEF Refers, Payloads
  <2>3. PICK p \in Paths : p = table[c.fd]
    BY <1>3, <1>7 DEF Valid, Opens, Types
  <2>4. Copied(region, r.slot, files[p], 0, c.len) \in [Span -> 0 .. nextId]
    BY <1>2, <1>4, <2>2, ReadRegion
  <2> QED
    BY <1>1, <2>1, <2>2, <2>3, <2>4 DEF Contents
<1>8. CASE c.op \notin {"NewWritableFile", "Append", "Read"}
  <2>1. UNCHANGED <<files, region>>
    BY <1>3, <1>8 DEF Performed, daemonVars
  <2> QED
    BY <1>1, <2>1 DEF Contents
<1> QED
  BY <1>5, <1>6, <1>7, <1>8

(* The shapes are an invariant of their own: they hold also when several   *)
(* threads are in the client at once.                                      *)
LEMMA ShapesInit == Init => Shapes
<1> SUFFICES ASSUME Init PROVE Shapes
  OBVIOUS
<1>1. AllocInv
  BY InitInv DEF Init
<1>2. Types
  <2>1. NoCall \in CallRecord
    BY DEF NoCall, Request, CallRecord
  <2>2. table \in [DOMAIN table -> Paths] /\ DOMAIN table = {}
    <3>1. table = <<>> /\ DOMAIN <<>> = {}
      BY DEF Init
    <3> QED
      BY <3>1
  <2> QED
    <3>1. call \in [Callers -> CallRecord]
          /\ pc \in [Callers -> {"idle", "alloc", "submit", "push", "wait"}]
      BY <2>1 DEF Init
    <3>2. /\ objects \in Seq(Object) /\ appended \in Seq(Seq(Nat))
          /\ Len(appended) = Len(objects)
          /\ reqRing \in Seq(Entry) /\ respRing \in Seq(Response)
      BY DEF Init
    <3>3. /\ calls \in Nat /\ calls <= MaxCalls /\ faults \in Nat /\ shared \in BOOLEAN
          /\ nextId \in Nat \ {0} /\ nextFd \in Nat \ {0}
      <4>1. calls = 0 /\ faults = 0 /\ nextId = 1 /\ nextFd = 1 /\ shared \in BOOLEAN
        BY DEF Init
      <4> QED
        BY <4>1, EnvAssumption
    <3> QED
      BY <2>2, <3>1, <3>2, <3>3 DEF Types
<1>3. Contents
  BY DEF Init, Contents, Span, Blank
<1>4. Allocates
  BY RegionAssumption DEF Init, AllocInit, Allocates
<1> QED
  BY <1>1, <1>2, <1>3, <1>4 DEF Init, Shapes, CallsRefer, RequestsFit

(* Types, allocation and references are kept by every step.                *)
LEMMA ShapesKept == Shapes /\ [Next]_vars => Shapes'
<1> SUFFICES ASSUME Shapes, [Next]_vars PROVE Shapes'
  OBVIOUS
<1> USE DEF Shapes
<1>1. AllocInv'
  BY StepAllocates, NextInv
<1>2. ASSUME NEW t \in Callers, NEW c \in CallRecord, Legal(c), Begins(t, c)
      PROVE  Shapes'
  BY <1>1, <1>2, BeginTypes, BeginAllocates, BeginRefers DEF Begins, Contents
<1>3. ASSUME NEW t \in Callers, NEW o \in 1 .. Len(objects), DestroyClosed(t, o)
      PROVE  Shapes'
  <2>1. /\ Types' /\ Len(objects') = Len(objects)
        /\ UNCHANGED <<regionVars, region, call, pc, calls, nextId, reqRing, files>>
    BY <1>3, DestroyClosedTypes DEF Changes, DestroyClosed, daemonVars
  <2>2. Contents' /\ Allocates'
    BY <2>1 DEF Contents, Allocates, regionVars
  <2>3. CallsRefer' /\ RequestsFit'
    BY <2>1 DEF CallsRefer, RequestsFit
  <2> QED
    BY <1>1, <2>1, <2>2, <2>3
<1>4. ASSUME NEW t \in Callers, Allocate(t) PROVE Shapes'
  <2>1. UNCHANGED <<objects, call, calls, nextId, shared, appended, region, reqRing,
                    respRing, table, nextFd, files, faults>>
        /\ (UNCHANGED pc \/ pc' = [pc EXCEPT ![t] = "submit"])
    BY <1>4 DEF Allocate, daemonVars
  <2>2. \A u \in Callers : pc'[u] # "idle" => pc[u] # "idle"
    BY <1>4 DEF Allocate, Types
  <2>3. Types' /\ Contents'
    BY <2>1 DEF Types, Contents
  <2>4. CallsRefer' /\ RequestsFit'
    BY <2>1, <2>2 DEF CallsRefer, RequestsFit
  <2> QED
    BY <1>1, <1>4, <2>3, <2>4, AllocateAllocates
<1>5. ASSUME NEW t \in Callers, Submit(t) PROVE Shapes'
  BY <1>1, <1>5, SubmitTypes, SubmitAllocates, SubmitContents, SubmitRefers
<1>6. ASSUME NEW t \in Callers, Push(t) PROVE Shapes'
  BY <1>1, <1>6, PushTypes, PushAllocates, PushRefers DEF Push, Contents, daemonVars
<1>7. ASSUME NEW t \in Callers, PopResponse(t) PROVE Shapes'
  <2>1. UNCHANGED <<nextId, region, files>>
    BY <1>7, PopCases
  <2> QED
    BY <1>1, <1>7, <2>1, PopTypes, PopAllocates, PopRefers DEF Contents
<1>8. ASSUME NEW ok \in BOOLEAN, reqRing # <<>>, Reply(ok)
      PROVE  Allocates' /\ CallsRefer' /\ RequestsFit'
  <2>1. UNCHANGED <<regionVars, threadVars>>
    BY <1>8, ReplyTypes
  <2>2. Allocates'
    BY <2>1 DEF Allocates, regionVars, threadVars
  <2> QED
    BY <1>8, <2>2, ReplyRefers
<1>9. CASE Serve
  <2>1. reqRing # <<>> /\ Reply(TRUE)
    BY <1>9 DEF Serve
  <2> QED
    BY <1>1, <1>8, <1>9, <2>1, ServeTypes, ServeContents
<1>10. CASE ServeFails
  <2>1. reqRing # <<>> /\ Reply(FALSE) /\ UNCHANGED <<files, region>>
    BY <1>10 DEF ServeFails
  <2>2. UNCHANGED nextId
    BY <2>1 DEF Reply, threadVars
  <2> QED
    BY <1>1, <1>8, <1>10, <2>1, <2>2, ServeFailsTypes DEF Contents
<1>11. CASE UNCHANGED vars
  BY <1>11 DEF vars, regionVars, threadVars, daemonVars, AllocInv, AllocTypeOK, NoOverflow,
       BelowOffset, InBounds, LapDisjoint, Types, Contents, Allocates, CallsRefer, RequestsFit
<1>12. ASSUME NEW t \in Callers, Call(t) PROVE Shapes'
  BY <1>2, <1>3, <1>12, CallBegins
<1> QED
  BY <1>4, <1>5, <1>6, <1>7, <1>9, <1>10, <1>11, <1>12 DEF Next, Thread

(* Types, for any number of threads: the slot of a call stays until the    *)
(* call ends, and the region and the table hold what they may.             *)
THEOREM ShimTypes == Spec => []TypeOK
<1>1. Shapes => TypeOK
  BY DEF Shapes, Types, Contents, Allocates, Span, TypeOK
<1> QED
  BY <1>1, ShapesInit, ShapesKept, PTL DEF Spec

-----------------------------------------------------------------------------
(* Calls stay apart.                                                       *)

LEMMA BeginApart ==
  ASSUME Shapes, Apartness, NEW t \in Callers, NEW c \in CallRecord, Legal(c), Begins(t, c)
  PROVE  Apartness'
<1>1. /\ pc[t] = "idle" /\ pc'[t] # "idle" /\ call'[t] = c /\ calls' = calls + 1
      /\ \A u \in Callers : u # t => pc'[u] = pc[u] /\ call'[u] = call[u]
      /\ UNCHANGED <<objects, appended>>
  BY DEF Shapes, Types, Begins
<1>2. c.op \in Owned => Alive(c.obj) /\ ~InUse(c.obj) /\ c.fd = objects[c.obj].fd
  BY DEF Legal, Owned, AliveWriter
<1>3. c.op = "Append" =>
        AliveWriter(c.obj) /\ c.at = objects[c.obj].offset /\ c.len \in Sizes
  BY DEF Legal
<1>4. c.op = "NewWritableFile" => ~Writing(c.path)
  BY DEF Legal
<1>5. ObjectsApart'
  <2>1. \A u \in Callers : u # t /\ pc[u] # "idle" /\ c.op \in Owned => call[u].obj # c.obj
    BY <1>2 DEF InUse
  <2> QED
    BY <1>1, <1>2, <1>3, <2>1 DEF Apartness, ObjectsApart, Alive, AliveWriter
<1>6. PathsApart'
  <2>1. \A o \in 1 .. Len(objects) :
          c.op = "NewWritableFile" /\ AliveWriter(o) => objects[o].path # c.path
    BY <1>4 DEF Shapes, Types, Writing, AliveWriter, Alive
  <2>2. \A u \in Callers : c.op = "NewWritableFile" => ~Creates(u, c.path)
    BY <1>4 DEF Writing, Creates
  <2> QED
    BY <1>1, <2>1, <2>2 DEF Apartness, PathsApart, Creates, Alive, AliveWriter
<1>7. Offsets'
  <2>1. /\ calls \in Nat /\ RegionLen \in Nat
        /\ \A o \in 1 .. Len(objects) : objects[o] \in Object
        /\ \A u \in Callers : call[u] \in CallRecord
    BY RegionAssumption DEF Shapes, Types
  <2>2. PICK b \in Nat : b = calls * RegionLen
    BY <2>1
  <2>3. (calls + 1) * RegionLen = b + RegionLen
    BY <2>1, <2>2
  <2>4. /\ \A o \in 1 .. Len(objects) :
             objects[o].offset <= b /\ Len(appended[o]) = objects[o].offset
        /\ \A u \in Callers : pc[u] # "idle" /\ call[u].op = "Append" =>
             call[u].at = objects[call[u].obj].offset /\ call[u].at + call[u].len <= b
    BY <2>2 DEF Apartness, Offsets
  <2>5. c.op = "Append" => c.at + c.len <= b + RegionLen
    <3>1. c.op = "Append" => c.obj \in 1 .. Len(objects) /\ c.len \in 1 .. RegionLen
      BY <1>3, EnvAssumption DEF AliveWriter, Alive
    <3> QED
      BY <1>3, <2>1, <2>2, <2>4, <3>1 DEF Object
  <2>6. \A o \in 1 .. Len(objects) :
          objects[o].offset <= b + RegionLen /\ Len(appended[o]) = objects[o].offset
    BY <2>1, <2>2, <2>4 DEF Object
  <2>7. \A u \in Callers : pc[u] # "idle" /\ call[u].op = "Append" =>
          /\ call[u].at = objects[call[u].obj].offset
          /\ call[u].at + call[u].len <= b + RegionLen
    <3>1. ASSUME NEW u \in Callers PROVE call[u].at + call[u].len \in Nat
      <4>1. call[u] \in CallRecord
        BY <2>1
      <4>2. call[u].at \in Nat /\ call[u].len \in Nat
        BY <4>1 DEF CallRecord
      <4> QED
        BY <4>2
    <3>2. b \in Nat
      BY <2>1, <2>2
    <3>3. \A n \in Nat : n <= b => n <= b + RegionLen
      BY <2>1, <3>2
    <3> QED
      BY <2>4, <3>1, <3>3
  <2> QED
    BY <1>1, <1>3, <2>3, <2>5, <2>6, <2>7 DEF Offsets
<1> QED
  BY <1>5, <1>6, <1>7 DEF Apartness

(* A step that changes no object, and no call but for its id.              *)
LEMMA SameApart ==
  ASSUME Apartness, UNCHANGED <<objects, appended, calls>>,
         \A u \in Callers :
           /\ pc'[u] = "idle" <=> pc[u] = "idle"
           /\ call'[u].op = call[u].op /\ call'[u].obj = call[u].obj
           /\ call'[u].path = call[u].path /\ call'[u].fd = call[u].fd
           /\ call'[u].len = call[u].len /\ call'[u].at = call[u].at
  PROVE  Apartness'
<1>1. ObjectsApart'
  BY DEF Apartness, ObjectsApart, Alive, AliveWriter
<1>2. PathsApart'
  BY DEF Apartness, PathsApart, Creates, Alive, AliveWriter
<1>3. Offsets'
  BY DEF Apartness, Offsets
<1> QED
  BY <1>1, <1>2, <1>3 DEF Apartness

(* Deleting a closed object keeps the calls apart: nobody uses it.         *)
LEMMA DestroyClosedApart ==
  ASSUME Shapes, Apartness, NEW t \in Callers, NEW o \in 1 .. Len(objects),
         DestroyClosed(t, o)
  PROVE  Apartness'
<1>1. Changes(o, objects[o].fd, objects[o].offset, FALSE)
  BY DestroyClosedTypes DEF Shapes
<1>2. ~InUse(o) /\ UNCHANGED <<call, pc, calls, appended>>
  BY DEF DestroyClosed
<1>3. \A u \in Callers : pc[u] # "idle" => call[u].obj # o
  BY <1>2 DEF InUse
<1>4. ObjectsApart'
  BY <1>1, <1>2, <1>3 DEF Apartness, ObjectsApart, Alive, AliveWriter, Changes
<1>5. PathsApart'
  BY <1>1, <1>2 DEF Apartness, PathsApart, Creates, Alive, AliveWriter, Changes
<1>6. Offsets'
  <2>1. \A u \in Callers : pc[u] # "idle" /\ call[u].op = "Append" =>
          call[u].obj \in 1 .. Len(objects)
    BY DEF Apartness, ObjectsApart, Alive, AliveWriter
  <2> QED
    BY <1>1, <1>2, <1>3, <2>1 DEF Apartness, Offsets, Changes
<1> QED
  BY <1>4, <1>5, <1>6 DEF Apartness

(* The end of a call frees its object and its path for others.             *)
LEMMA EndApart ==
  ASSUME Shapes, Apartness, NEW t \in Callers, pc[t] = "wait",
         Refers(call[t], Len(objects)),
         NEW resp \in Response, Ends(call[t], resp), UNCHANGED calls,
         pc' = [pc EXCEPT ![t] = "idle"], call' = [call EXCEPT ![t] = NoCall]
  PROVE  Apartness'
<1> DEFINE c == call[t]
           n == Len(objects)
<1>1. /\ pc'[t] = "idle"
      /\ \A u \in Callers : u # t => pc'[u] = pc[u] /\ call'[u] = call[u]
  BY DEF Shapes, Types
<1>2. /\ n \in Nat /\ objects \in Seq(Object) /\ appended \in Seq(Seq(Nat))
      /\ Len(appended) = n
  BY DEF Shapes, Types
<1>3. /\ ObjectsApart /\ PathsApart /\ Offsets
      /\ \A u \in Callers : pc[u] # "idle" /\ call[u].op \in Owned => Alive(call[u].obj)
  BY DEF Apartness, ObjectsApart
<1>0. PICK b \in Nat : b = calls * RegionLen /\ b = calls' * RegionLen
  BY RegionAssumption DEF Shapes, Types
<1>11. /\ \A o \in 1 .. n : objects[o].offset <= b /\ Len(appended[o]) = objects[o].offset
       /\ \A u \in Callers : pc[u] # "idle" /\ call[u].op = "Append" =>
            /\ call[u].obj \in 1 .. n /\ call[u].at = objects[call[u].obj].offset
            /\ call[u].at + call[u].len <= b
  BY <1>0, <1>3 DEF Offsets, Alive, Owned
<1>12. ASSUME \A o \in 1 .. Len(objects') :
                objects'[o].offset <= b /\ Len(appended'[o]) = objects'[o].offset,
              \A u \in Callers : pc'[u] # "idle" /\ call'[u].op = "Append" =>
                /\ call'[u].at = objects'[call'[u].obj].offset
                /\ call'[u].at + call'[u].len <= b
       PROVE  Offsets'
  BY <1>0, <1>12 DEF Offsets
<1>4. CASE OpenEnds(c, resp)
  <2>1. PICK new : new = Opened(IF c.op = "NewWritableFile" THEN "Writable" ELSE "RandomAccess",
                               c.path, resp.fd)
    OBVIOUS
  <2>2. /\ new.kind = "Writable" => Creates(t, c.path)
        /\ new.path = c.path /\ new.offset = 0 /\ c.path \in Paths
    BY <1>4, <2>1 DEF Opened, Creates, OpenEnds, Refers
  <2>3. /\ Len(objects') = n + 1 /\ objects'[n + 1] = new
        /\ \A o \in 1 .. n : objects'[o] = objects[o]
        /\ Len(appended') = n + 1 /\ appended'[n + 1] = <<>>
        /\ \A o \in 1 .. n : appended'[o] = appended[o]
    BY <1>2, <1>4, <2>1 DEF OpenEnds
  <2>4. ObjectsApart'
    BY <1>1, <1>2, <1>3, <2>3 DEF ObjectsApart, Alive, AliveWriter
  <2>5. PathsApart'
    <3>1. ASSUME NEW o \in 1 .. n + 1, NEW q \in 1 .. n + 1, AliveWriter(o)', AliveWriter(q)',
                 objects'[o].path = objects'[q].path
          PROVE  o = q
      <4>1. ASSUME NEW x \in 1 .. n, objects'[n + 1].kind = "Writable", AliveWriter(x)'
            PROVE  objects'[x].path # objects'[n + 1].path
        <5>1. AliveWriter(x) /\ objects'[x] = objects[x]
          BY <2>3, <4>1 DEF AliveWriter, Alive
        <5> QED
          BY <1>3, <2>2, <2>3, <4>1, <5>1 DEF PathsApart
      <4>2. CASE o \in 1 .. n /\ q \in 1 .. n
        BY <1>3, <2>3, <3>1, <4>2 DEF PathsApart, AliveWriter, Alive
      <4>3. CASE o \in 1 .. n /\ q = n + 1
        BY <3>1, <4>1, <4>3 DEF AliveWriter
      <4>4. CASE o = n + 1 /\ q \in 1 .. n
        BY <3>1, <4>1, <4>4 DEF AliveWriter
      <4> QED
        BY <1>2, <4>2, <4>3, <4>4
    <3>2. ASSUME NEW u \in Callers, NEW o \in 1 .. n + 1, AliveWriter(o)',
                 Creates(u, objects[o].path)'
          PROVE  FALSE
      <4>1. u # t /\ Creates(u, objects'[o].path)
        BY <1>1, <3>2 DEF Creates
      <4>2. CASE o \in 1 .. n
        <5>1. AliveWriter(o) /\ objects'[o] = objects[o]
          BY <2>3, <3>2, <4>2 DEF AliveWriter, Alive
        <5> QED
          BY <1>3, <4>1, <4>2, <5>1 DEF PathsApart
      <4>3. CASE o = n + 1
        BY <1>3, <2>2, <2>3, <3>2, <4>1, <4>3 DEF PathsApart, AliveWriter
      <4> QED
        BY <1>2, <4>2, <4>3
    <3>3. \A u, v \in Callers, p \in Paths : Creates(u, p)' /\ Creates(v, p)' => u = v
      BY <1>1, <1>3 DEF PathsApart, Creates
    <3> QED
      BY <2>3, <3>1, <3>2, <3>3 DEF PathsApart
  <2>6. Offsets'
    <3>1. calls * RegionLen \in Nat /\ Len(<<>>) = 0
      BY RegionAssumption DEF Shapes, Types
    <3>2. \A o \in 1 .. n + 1 : o \in 1 .. n \/ o = n + 1
      BY <1>2
    <3>3. \A u \in Callers : pc[u] # "idle" /\ call[u].op = "Append" =>
            call[u].obj \in 1 .. n
      BY <1>3 DEF Alive, Owned
    <3> QED
      BY <1>1, <1>3, <2>2, <2>3, <3>1, <3>2, <3>3 DEF Offsets
  <2> QED
    BY <2>4, <2>5, <2>6 DEF Apartness
<1>5. ASSUME c.op \in Owned, NEW fd, NEW pos, NEW alive \in BOOLEAN,
             Changes(c.obj, fd, pos, alive), alive => objects[c.obj].alive
      PROVE  ObjectsApart' /\ PathsApart'
  <2>1. c.obj \in 1 .. n
    BY <1>3, <1>5 DEF Alive
  <2>2. \A u \in Callers : u # t /\ pc[u] # "idle" /\ call[u].op \in Owned =>
          call[u].obj # c.obj /\ Alive(call[u].obj)
    BY <1>3, <1>5 DEF ObjectsApart
  <2>3. ObjectsApart'
    BY <1>1, <1>3, <1>5, <2>2 DEF ObjectsApart, Alive, AliveWriter, Changes, Owned
  <2>4. /\ \A o \in 1 .. n : objects'[o].path = objects[o].path
                                /\ objects'[o].kind = objects[o].kind
                                /\ (objects'[o].alive => objects[o].alive)
        /\ Len(objects') = n
    BY <1>5 DEF Changes
  <2>5. PathsApart'
    BY <1>1, <1>3, <2>4 DEF PathsApart, Creates, AliveWriter, Alive
  <2> QED
    BY <2>3, <2>5
<1>6. ASSUME c.op \in {"Close", "Destroy"}, appended' = appended, NEW fd, NEW alive,
             Changes(c.obj, fd, objects[c.obj].offset, alive)
      PROVE  Offsets'
  <2>1. /\ \A o \in 1 .. n : objects'[o].offset = objects[o].offset
        /\ Len(objects') = n
    BY <1>6 DEF Changes
  <2>2. \A o \in 1 .. Len(objects') :
          objects'[o].offset <= b /\ Len(appended'[o]) = objects'[o].offset
    BY <1>6, <1>11, <2>1
  <2>3. \A u \in Callers : pc'[u] # "idle" /\ call'[u].op = "Append" =>
          /\ call'[u].at = objects'[call'[u].obj].offset
          /\ call'[u].at + call'[u].len <= b
    BY <1>1, <1>11, <2>1
  <2> QED
    BY <1>12, <2>2, <2>3
<1>7. CASE CloseEnds(c)
  <2>1. Alive(c.obj)
    BY <1>3, <1>7 DEF CloseEnds, Owned
  <2>2. c.op \in Owned /\ objects[c.obj].alive /\ TRUE \in BOOLEAN
        /\ Changes(c.obj, 0, objects[c.obj].offset, TRUE)
    BY <1>7, <2>1 DEF CloseEnds, Owned, Alive
  <2>3. ObjectsApart' /\ PathsApart'
    BY <1>5, <2>2
  <2>4. Offsets'
    BY <1>6, <1>7, <2>2 DEF CloseEnds
  <2> QED
    BY <2>3, <2>4 DEF Apartness
<1>8. CASE DestroyEnds(c)
  <2>1. c.op \in Owned /\ Changes(c.obj, objects[c.obj].fd, objects[c.obj].offset, FALSE)
    BY <1>8 DEF DestroyEnds, Owned
  <2>2. ObjectsApart' /\ PathsApart'
    BY <1>5, <2>1
  <2>3. Offsets'
    BY <1>6, <1>8, <2>1 DEF DestroyEnds
  <2> QED
    BY <2>2, <2>3 DEF Apartness
<1>9. CASE AppendEnds(c, resp)
  <2>1. /\ Alive(c.obj) /\ c.obj \in 1 .. n /\ c.op = "Append" /\ c.op \in Owned
        /\ objects[c.obj].alive
    BY <1>3, <1>9 DEF AppendEnds, Owned, Alive
  <2>2. Changes(c.obj, objects[c.obj].fd, objects[c.obj].offset + c.len, TRUE)
    BY <1>9, <2>1 DEF AppendEnds
  <2>3. ObjectsApart' /\ PathsApart'
    BY <1>5, <2>1, <2>2
  <2>4. c.at = objects[c.obj].offset /\ c.at + c.len <= calls * RegionLen
    BY <1>3, <2>1 DEF Offsets
  <2>5. /\ appended'[c.obj] = appended[c.obj] \o [i \in 1 .. c.len |-> c.id]
        /\ \A o \in 1 .. n : o # c.obj => appended'[o] = appended[o]
    <3>1. PICK rest : rest = [i \in 1 .. c.len |-> c.id]
      OBVIOUS
    <3>2. appended' = [appended EXCEPT ![c.obj] = appended[c.obj] \o rest]
      BY <1>9, <3>1 DEF AppendEnds
    <3> QED
      <4>1. DOMAIN appended = 1 .. n
        BY <1>2
      <4> HIDE DEF c, n
      <4> QED
        BY <2>1, <3>1, <3>2, <4>1
  <2>6. Len(appended'[c.obj]) = Len(appended[c.obj]) + c.len
    <3>1. ASSUME NEW m \in Nat, NEW v \in Nat
          PROVE  [i \in 1 .. m |-> v] \in Seq(Nat) /\ Len([i \in 1 .. m |-> v]) = m
      OBVIOUS
    <3>2. appended[c.obj] \in Seq(Nat) /\ c \in CallRecord
      BY <1>2, <2>1, ElementOfSeq DEF Shapes, Types
    <3>3. c.len \in Nat /\ c.id \in Nat
      BY <3>2 DEF CallRecord
    <3> QED
      BY <2>5, <3>1, <3>2, <3>3, ConcatProperties
  <2>7. \A u \in Callers : u # t /\ pc[u] # "idle" /\ call[u].op = "Append" =>
          call[u].obj \in 1 .. n /\ call[u].obj # c.obj
    BY <1>3, <2>1 DEF ObjectsApart, Alive, Owned
  <2>8. Offsets'
    <3>1. \A o \in 1 .. Len(objects') :
            objects'[o].offset <= b /\ Len(appended'[o]) = objects'[o].offset
      <4>1. /\ objects'[c.obj].offset = objects[c.obj].offset + c.len
            /\ \A o \in 1 .. n : o # c.obj => objects'[o] = objects[o]
            /\ Len(objects') = n
        BY <2>2 DEF Changes
      <4>2. objects[c.obj].offset + c.len <= b
        BY <1>0, <2>4
      <4> HIDE DEF c
      <4> QED
        BY <1>11, <2>1, <2>5, <2>6, <4>1, <4>2
    <3>2. \A u \in Callers : pc'[u] # "idle" /\ call'[u].op = "Append" =>
            /\ call'[u].at = objects'[call'[u].obj].offset
            /\ call'[u].at + call'[u].len <= b
      BY <1>1, <1>11, <2>2, <2>7 DEF Changes
    <3> QED
      BY <1>12, <3>1, <3>2
  <2> QED
    BY <2>3, <2>8 DEF Apartness
<1>10. CASE OtherEnds(c, resp)
  <2>1. UNCHANGED <<objects, appended>>
    BY <1>10 DEF OtherEnds
  <2>2. ObjectsApart' /\ PathsApart'
    BY <1>1, <1>3, <2>1 DEF ObjectsApart, PathsApart, Creates, Alive, AliveWriter
  <2>3. Offsets'
    BY <1>1, <1>3, <2>1 DEF Offsets
  <2> QED
    BY <2>2, <2>3 DEF Apartness
<1> QED
  BY <1>4, <1>7, <1>8, <1>9, <1>10 DEF Ends

(* No step makes two threads use one object, or two objects append to one  *)
(* file.                                                                   *)
LEMMA ApartKept == Shapes /\ Apartness /\ [Next]_vars => Apartness'
<1> SUFFICES ASSUME Shapes, Apartness, [Next]_vars PROVE Apartness'
  OBVIOUS
<1>1. ASSUME NEW t \in Callers, Call(t) PROVE Apartness'
  BY <1>1, CallBegins, BeginApart, DestroyClosedApart DEF Shapes
<1>2. ASSUME NEW t \in Callers, Allocate(t) \/ Push(t) PROVE Apartness'
  <2>1. /\ UNCHANGED <<objects, appended, calls, call>>
        /\ \A u \in Callers : pc'[u] = "idle" <=> pc[u] = "idle"
    BY <1>2 DEF Allocate, Push, Shapes, Types
  <2> QED
    BY <2>1, SameApart
<1>3. ASSUME NEW t \in Callers, Submit(t) PROVE Apartness'
  <2>1. /\ UNCHANGED <<objects, appended, calls>>
        /\ \A u \in Callers : pc'[u] = "idle" <=> pc[u] = "idle"
    BY <1>3 DEF Submit, Shapes, Types
  <2>2. /\ call'[t] = [call[t] EXCEPT !.id = nextId] /\ call[t] \in CallRecord
        /\ \A u \in Callers : u # t => call'[u] = call[u]
    BY <1>3, SubmitTypes DEF Shapes, Types
  <2>3. /\ call'[t].op = call[t].op /\ call'[t].obj = call[t].obj
        /\ call'[t].path = call[t].path /\ call'[t].fd = call[t].fd
        /\ call'[t].len = call[t].len /\ call'[t].at = call[t].at
    BY <2>2 DEF CallRecord
  <2> QED
    BY <2>1, <2>2, <2>3, SameApart
<1>4. ASSUME NEW t \in Callers, PopResponse(t) PROVE Apartness'
  <2>1. /\ pc[t] = "wait" /\ respRing[1] \in Response /\ UNCHANGED calls
        /\ Refers(call[t], Len(objects)) /\ (Returned(t) \/ Dropped)
    BY <1>4, PopCases DEF Shapes
  <2>2. CASE Returned(t)
    BY <2>1, <2>2, EndApart DEF Returned
  <2>3. CASE Dropped
    BY <2>1, <2>3, SameApart DEF Dropped
  <2> QED
    BY <2>1, <2>2, <2>3
<1>5. CASE Serve \/ ServeFails \/ UNCHANGED vars
  <2>1. UNCHANGED <<objects, appended, calls, call, pc>>
    BY <1>5 DEF Serve, ServeFails, Reply, vars, threadVars
  <2> QED
    BY <2>1, SameApart
<1> QED
  BY <1>1, <1>2, <1>3, <1>4, <1>5 DEF Next, Thread
-----------------------------------------------------------------------------
(* While one thread at a time is in the client.                            *)

\* Threads that do not wait come and go.
LEMMA TurnKept ==
  ASSUME InTurn, UNCHANGED <<reqRing, respRing>>,
         \A u \in Callers :
           /\ pc'[u] \in {"push", "wait"} => Inside(u)
           /\ pc'[u] = "wait" <=> pc[u] = "wait"
           /\ pc[u] = "wait" => call'[u] = call[u] /\ held'[u] = held[u]
  PROVE  InTurn'
<1>1. \A u, v \in Callers : Inside(u)' /\ Inside(v)' => u = v
  BY DEF InTurn, Inside
<1>2. (\A u \in Callers : pc'[u] # "wait") => reqRing' = <<>> /\ respRing' = <<>>
  BY DEF InTurn
<1>3. ASSUME NEW u \in Callers, pc'[u] = "wait" PROVE Unserved(u)' \/ Served(u)'
  BY <1>3 DEF InTurn, Unserved, Served
<1> QED
  BY <1>1, <1>2, <1>3 DEF InTurn

\* The one that waits, and what is in the rings.
LEMMA Waiting ==
  ASSUME Shapes, InTurn, NEW t \in Callers, pc[t] = "wait"
  PROVE  /\ \A u \in Callers : Inside(u) => u = t
         /\ respRing # <<>> =>
              /\ Told(t) /\ reqRing = <<>> /\ Len(respRing) = 1
              /\ respRing[1].id = call[t].id /\ Tail(respRing) = <<>>
         /\ reqRing # <<>> =>
              /\ respRing = <<>> /\ Len(reqRing) = 1 /\ Tail(reqRing) = <<>>
              /\ reqRing[1] = [call |-> call[t], slot |-> held[t].start]
<1>1. Inside(t) /\ (Unserved(t) \/ Served(t))
  BY DEF InTurn, Inside
<1>2. \A u \in Callers : Inside(u) => u = t
  BY <1>1 DEF InTurn
<1>3. ASSUME respRing # <<>>
      PROVE  /\ Told(t) /\ reqRing = <<>> /\ Len(respRing) = 1
             /\ respRing[1].id = call[t].id /\ Tail(respRing) = <<>>
  <2>1. Served(t) /\ respRing \in Seq(Response)
    BY <1>1, <1>3 DEF Unserved, Shapes, Types
  <2> QED
    <3>1. Len(respRing) = 1 /\ reqRing = <<>> /\ respRing[1].id = call[t].id /\ Told(t)
      BY <2>1 DEF Served, Told
    <3>2. Tail(respRing) = <<>>
      <4>1. Tail(respRing) \in Seq(Response) /\ Len(Tail(respRing)) = 0
        BY <1>3, <2>1, <3>1, HeadTailProperties
      <4> QED
        BY <4>1, EmptySeq
    <3> QED
      BY <3>1, <3>2
<1>4. ASSUME reqRing # <<>>
      PROVE  /\ respRing = <<>> /\ Len(reqRing) = 1 /\ Tail(reqRing) = <<>>
             /\ reqRing[1] = [call |-> call[t], slot |-> held[t].start]
  <2>1. Unserved(t)
    BY <1>1, <1>4 DEF Served
  <2>2. PICK x : x = [call |-> call[t], slot |-> held[t].start]
    OBVIOUS
  <2>3. reqRing = <<x>> /\ respRing = <<>>
    BY <2>1, <2>2 DEF Unserved
  <2>4. Len(reqRing) = 1 /\ Tail(reqRing) = <<>> /\ reqRing[1] = x
    BY <2>3
  <2> QED
    BY <2>2, <2>3, <2>4
<1> QED
  BY <1>2, <1>3, <1>4

\* A request or an answer has a thread that waits for it.
LEMMA SomeoneWaits ==
  ASSUME InTurn, reqRing # <<>> \/ respRing # <<>>
  PROVE  \E t \in Callers : pc[t] = "wait"
BY DEF InTurn

\* Before anything is answered, no thread is told.
LEMMA NoneTold ==
  ASSUME respRing = <<>>, NEW t
  PROVE  ~Told(t) /\ ~Ok(t)
BY DEF Told, Served, Ok

\* A step that no waiting thread sees.
SameWaits ==
  /\ UNCHANGED <<reqRing, respRing>>
  /\ \A u \in Callers :
       /\ pc'[u] = "wait" <=> pc[u] = "wait"
       /\ pc[u] = "wait" => call'[u] = call[u]

(* A step that changes neither the waits, nor the objects, nor the         *)
(* daemon's table keeps the handles owned.                                 *)
LEMMA SameHandles ==
  ASSUME Handles, SameWaits, UNCHANGED <<objects, table, nextFd>>
  PROVE  Handles'
<1>1. \A u \in Callers : Told(u)' <=> Told(u)
  BY DEF SameWaits, Told, Served
<1>2. \A u \in Callers : Told(u) => call'[u] = call[u]
  BY DEF SameWaits, Told
<1>3. UNCHANGED <<reqRing, respRing>>
  BY DEF SameWaits
<1> QED
  BY <1>1, <1>2, <1>3 DEF Handles, Gone, Ok, Alive

(* A step that changes neither the waits, nor the objects, nor the files   *)
(* keeps what is written.                                                  *)
LEMMA SameWritten ==
  ASSUME Written, SameWaits, UNCHANGED <<objects, appended, files, faults>>
  PROVE  Written'
<1>1. \A u \in Callers : Told(u)' <=> Told(u)
  BY DEF SameWaits, Told, Served
<1>2. \A u \in Callers : Told(u) => call'[u] = call[u]
  BY DEF SameWaits, Told
<1>3. UNCHANGED <<reqRing, respRing>>
  BY DEF SameWaits
<1> QED
  BY <1>1, <1>2, <1>3 DEF Written, AppendsHold, RestBlank, AnswersHold, NewBlank,
     Writes, Ok, Alive, AliveWriter, Holds

(* A new call keeps what holds while one call waits at a time.             *)
LEMMA BeginTurn ==
  ASSUME Shapes, Turn, NEW t \in Callers, NEW c \in CallRecord, Begins(t, c)
  PROVE  Turn'
<1>1. /\ pc[t] = "idle" /\ pc'[t] \in {"alloc", "submit"}
      /\ \A u \in Callers : u # t => pc'[u] = pc[u] /\ call'[u] = call[u]
      /\ UNCHANGED <<objects, appended, region, reqRing, respRing, table, nextFd, files,
                     faults, held>>
  BY DEF Shapes, Types, Begins, AllocBegin, regionVars
<1>2. SameWaits
  BY <1>1 DEF SameWaits
<1>3. InTurn'
  BY <1>1, TurnKept DEF Turn, Inside
<1>4. Copies'
  BY <1>1 DEF Turn, Copies, Inside
<1> QED
  BY <1>1, <1>2, <1>3, <1>4, SameHandles, SameWritten DEF Turn

(* The allocation of a payload keeps it.                                   *)
LEMMA AllocateTurn ==
  ASSUME Shapes, Turn, NEW t \in Callers, Allocate(t)
  PROVE  Turn'
<1>1. /\ pc[t] = "alloc" /\ pc'[t] \in {"alloc", "submit"}
      /\ \A u \in Callers : u # t => pc'[u] = pc[u] /\ held'[u] = held[u]
      /\ UNCHANGED <<objects, appended, region, reqRing, respRing, table, nextFd, files,
                     faults, call>>
  <2>1. pc[t] = "alloc" /\ held \in [Callers -> [start : Nat, len : Nat, lap : Nat]]
    BY DEF Allocate, Shapes, AllocInv, AllocTypeOK
  <2>2. \A u \in Callers : u # t => held'[u] = held[u]
    BY <2>1, TakeExact DEF Allocate, Load, ExchangeFails, Shapes
  <2> QED
    BY <2>1, <2>2 DEF Allocate, Shapes, Types, daemonVars
<1>2. SameWaits
  BY <1>1 DEF SameWaits
<1>3. InTurn'
  BY <1>1, TurnKept DEF Turn, Inside
<1>4. Copies'
  BY <1>1 DEF Turn, Copies, Inside
<1> QED
  BY <1>1, <1>2, <1>3, <1>4, SameHandles, SameWritten DEF Turn

(* Filling in a request keeps it, as long as no second call waits.         *)
LEMMA SubmitTurn ==
  ASSUME Shapes, Turn, NEW t \in Callers, Submit(t), ~shared'
  PROVE  Turn'
<1>1. /\ pc[t] = "submit" /\ pc'[t] = "push"
      /\ \A u \in Callers : u # t => pc'[u] = pc[u]
      /\ UNCHANGED <<objects, appended, reqRing, respRing, table, nextFd, files, faults,
                     held>>
  BY DEF Submit, Shapes, Types, daemonVars, regionVars
<1>2. \A u \in Callers : ~Inside(u) /\ pc[u] # "wait"
  BY DEF Submit, Inside
<1>3. /\ call'[t] = [call[t] EXCEPT !.id = nextId] /\ call[t] \in CallRecord
      /\ \A u \in Callers : u # t => call'[u] = call[u]
  BY SubmitTypes DEF Shapes, Types
<1>4. SameWaits
  BY <1>1, <1>2 DEF SameWaits
<1>5. InTurn'
  BY <1>1, <1>2 DEF Turn, InTurn, Inside
<1>6. Copies'
  <2>1. call[t].op = "Append" => \A k \in Span :
          held[t].start <= k /\ k < held[t].start + call[t].len => region'[k] = nextId
    BY SubmitContents DEF Shapes
  <2>2. call'[t].op = call[t].op /\ call'[t].len = call[t].len /\ call'[t].id = nextId
    BY <1>3 DEF CallRecord
  <2> QED
    BY <1>1, <1>2, <2>1, <2>2 DEF Copies, Inside
<1> QED
  BY <1>1, <1>4, <1>5, <1>6, SameHandles, SameWritten DEF Turn

(* Pushing the request keeps it: the waiting call now has its request in   *)
(* the ring.                                                               *)
LEMMA PushTurn ==
  ASSUME Shapes, Turn, NEW t \in Callers, Push(t)
  PROVE  Turn'
<1>1. /\ pc[t] = "push" /\ pc'[t] = "wait"
      /\ reqRing' = Append(reqRing, [call |-> call[t], slot |-> held[t].start])
      /\ \A u \in Callers : u # t => pc'[u] = pc[u]
      /\ UNCHANGED <<objects, appended, region, respRing, table, nextFd, files, faults,
                     held, call>>
  BY DEF Push, Shapes, Types, daemonVars, regionVars
<1>2. \A u \in Callers : Inside(u) => u = t
  BY <1>1 DEF Turn, InTurn, Inside
<1>3. \A u \in Callers : pc[u] # "wait"
  BY <1>1, <1>2 DEF Inside
<1>4. reqRing = <<>> /\ respRing = <<>>
  BY <1>3 DEF Turn, InTurn
<1>5. PICK x : x = [call |-> call[t], slot |-> held[t].start]
  OBVIOUS
<1>6. reqRing' = <<x>> /\ respRing' = <<>>
  BY <1>1, <1>4, <1>5
<1>7. InTurn'
  <2>1. \A u, v \in Callers : Inside(u)' /\ Inside(v)' => u = v
    BY <1>1, <1>2 DEF Inside
  <2>2. Unserved(t)'
    BY <1>1, <1>5, <1>6 DEF Unserved
  <2>3. \A u \in Callers : pc'[u] = "wait" => u = t
    BY <1>1, <1>3
  <2> QED
    BY <1>1, <2>1, <2>2, <2>3 DEF InTurn
<1>8. \A u : ~Told(u) /\ ~Told(u)' /\ ~Ok(u) /\ ~Ok(u)'
  <2>1. Len(<<>>) # 1
    OBVIOUS
  <2> QED
    BY <1>4, <1>6, <2>1 DEF Told, Served, Ok
<1>9. Handles'
  BY <1>1, <1>8 DEF Turn, Handles, Gone, Alive
<1>10. Written'
  BY <1>1, <1>8 DEF Turn, Written, AppendsHold, RestBlank, AnswersHold, NewBlank,
       Writes, Alive, AliveWriter, Holds
<1>11. Copies'
  BY <1>1 DEF Turn, Copies, Inside
<1> QED
  BY <1>7, <1>9, <1>10, <1>11 DEF Turn

(* Deleting a closed object keeps it: its handle has gone.                 *)
LEMMA DestroyClosedTurn ==
  ASSUME Shapes, Turn, NEW t \in Callers, NEW o \in 1 .. Len(objects), DestroyClosed(t, o)
  PROVE  Turn'
<1>1. /\ Changes(o, objects[o].fd, objects[o].offset, FALSE) /\ objects[o].fd = 0
      /\ UNCHANGED <<pc, call, appended, region, reqRing, respRing, table, nextFd, files,
                     faults, held>>
  BY DestroyClosedTypes DEF Shapes, DestroyClosed, daemonVars, regionVars
<1>2. InTurn'
  BY <1>1 DEF Turn, InTurn, Inside, Unserved, Served
<1>3. \A u \in Callers : (Told(u)' <=> Told(u)) /\ (Ok(u)' <=> Ok(u))
  BY <1>1 DEF Told, Served, Ok
<1>4. /\ Len(objects') = Len(objects)
      /\ \A q \in 1 .. Len(objects) :
           /\ objects'[q].fd = objects[q].fd /\ objects'[q].path = objects[q].path
           /\ objects'[q].offset = objects[q].offset /\ objects'[q].kind = objects[q].kind
           /\ objects'[q].alive => objects[q].alive
           /\ objects[q].fd # 0 => objects'[q].alive = objects[q].alive
  BY <1>1 DEF Changes
<1>5. 0 \notin DOMAIN table
  BY DEF Shapes, Types
<1>6. Handles'
  BY <1>1, <1>3, <1>4, <1>5 DEF Turn, Handles, Gone, Alive
<1>7. Written'
  <2>1. \A u \in Callers : Ok(u) /\ call[u].op = "Append" => call[u].obj \in 1 .. Len(objects)
    BY DEF Shapes, CallsRefer, Refers, Opens, Ok, Told
  <2> QED
    <3>1. AppendsHold'
      BY <1>1, <1>4 DEF Turn, Written, AppendsHold, Alive, AliveWriter, Holds
    <3>2. RestBlank'
      BY <1>1, <1>3, <1>4 DEF Turn, Written, RestBlank, Writes, Alive, AliveWriter
    <3>3. AnswersHold'
      BY <1>1, <1>3, <1>4, <2>1 DEF Turn, Written, AnswersHold, Holds
    <3>4. NewBlank'
      BY <1>1, <1>3 DEF Turn, Written, NewBlank
    <3> QED
      BY <3>1, <3>2, <3>3, <3>4 DEF Written
<1>8. Copies'
  BY <1>1 DEF Turn, Copies, Inside
<1> QED
  BY <1>2, <1>6, <1>7, <1>8 DEF Turn

\* When the answer is taken, the rings are empty and nobody is inside.
LEMMA PopFrees ==
  ASSUME Shapes, Turn, NEW t \in Callers, PopResponse(t)
  PROVE  /\ Told(t) /\ \A u \in Callers : Told(u) => u = t
         /\ Ends(call[t], respRing[1]) /\ Refers(call[t], Len(objects))
         /\ UNCHANGED <<table, nextFd, files, faults, calls>>
         /\ InTurn' /\ Copies'
         /\ \A u \in Callers : ~Inside(u)' /\ ~Told(u)' /\ ~Ok(u)'
<1>1. /\ pc[t] = "wait" /\ Len(respRing) > 0 /\ respRing' = Tail(respRing)
      /\ UNCHANGED <<reqRing, table, nextFd, files, faults, calls>>
      /\ Refers(call[t], Len(objects))
      /\ \/ respRing[1].id = call[t].id /\ Returned(t)
         \/ respRing[1].id # call[t].id /\ Dropped
  BY PopCases DEF Shapes
<1>2. /\ Told(t) /\ reqRing = <<>> /\ respRing[1].id = call[t].id
      /\ Tail(respRing) = <<>> /\ \A u \in Callers : Inside(u) => u = t
  <2>1. respRing # <<>>
    BY <1>1
  <2> QED
    BY <1>1, <2>1, Waiting DEF Turn
<1>3. Returned(t) /\ reqRing' = <<>> /\ respRing' = <<>>
  BY <1>1, <1>2
<1>4. /\ pc'[t] = "idle" /\ \A u \in Callers : u # t => pc'[u] = pc[u]
  BY <1>3 DEF Returned, Shapes, Types
<1>5. \A u \in Callers : pc'[u] \notin {"push", "wait"}
  BY <1>2, <1>4 DEF Inside
<1>6. \A u \in Callers : ~Inside(u)' /\ ~Told(u)' /\ ~Ok(u)'
  BY <1>5 DEF Inside, Told, Ok
<1>7. InTurn'
  BY <1>3, <1>5 DEF InTurn, Inside
<1>8. Copies'
  BY <1>5 DEF Copies, Inside
<1> QED
  BY <1>1, <1>2, <1>3, <1>6, <1>7, <1>8 DEF Returned, Told, Inside

(* The return of the waiting call keeps the handles owned: an open gets    *)
(* the handle the daemon made, a close gives it up.                        *)
LEMMA PopHandles ==
  ASSUME Shapes, Apartness, Turn, NEW t \in Callers, PopResponse(t)
  PROVE  Handles'
<1> DEFINE c == call[t]
           n == Len(objects)
           r == respRing[1]
<1>1. /\ Told(t) /\ \A u \in Callers : Told(u) => u = t
      /\ Ends(c, r) /\ UNCHANGED <<table, nextFd>>
      /\ \A u \in Callers : ~Told(u)' /\ ~Ok(u)'
  BY PopFrees
<1>2. /\ n \in Nat /\ objects \in Seq(Object) /\ nextFd \in Nat
      /\ DOMAIN table \subseteq 1 .. nextFd - 1
      /\ \A o \in 1 .. n : objects[o] \in Object
  BY DEF Shapes, Types
<1>3. /\ \A o \in 1 .. n : objects[o].fd < nextFd
      /\ \A o, q \in 1 .. n :
           Alive(o) /\ Alive(q) /\ objects[o].fd = objects[q].fd => o = q \/ objects[o].fd = 0
      /\ \A o \in 1 .. n : Alive(o) /\ objects[o].fd # 0 =>
           \/ objects[o].fd \in DOMAIN table /\ table[objects[o].fd] = objects[o].path
           \/ c.obj = o /\ c.op \in {"Close", "Destroy"}
      /\ \A fd \in DOMAIN table :
           \/ \E o \in 1 .. n : Alive(o) /\ objects[o].fd = fd
           \/ r.ok /\ r.fd = fd /\ c.op \in Opens
      /\ c.op \in {"Close", "Destroy"} => c.fd \notin DOMAIN table
      /\ c.op \in Opens /\ r.ok =>
           /\ r.fd \in DOMAIN table /\ table[r.fd] = c.path
           /\ \A o \in 1 .. n : Alive(o) => objects[o].fd # r.fd
  BY <1>1 DEF Turn, Handles, Gone, Ok
<1>4. c.op \in Owned => Alive(c.obj) /\ c.fd = objects[c.obj].fd
  BY <1>1 DEF Apartness, ObjectsApart, Told
<1>5. ASSUME \A o \in 1 .. Len(objects') : objects'[o].fd < nextFd,
             \A o, q \in 1 .. Len(objects') :
               objects'[o].alive /\ objects'[q].alive /\ objects'[o].fd = objects'[q].fd
                 => o = q \/ objects'[o].fd = 0,
             \A o \in 1 .. Len(objects') : objects'[o].alive /\ objects'[o].fd # 0 =>
               objects'[o].fd \in DOMAIN table /\ table[objects'[o].fd] = objects'[o].path,
             \A fd \in DOMAIN table :
               \E o \in 1 .. Len(objects') : objects'[o].alive /\ objects'[o].fd = fd
      PROVE  Handles'
  BY <1>1, <1>5 DEF Handles, Alive
<1>6. CASE OpenEnds(c, r)
  <2>1. PICK new : new = Opened(IF c.op = "NewWritableFile" THEN "Writable" ELSE "RandomAccess",
                               c.path, r.fd)
    OBVIOUS
  <2>2. /\ Len(objects') = n + 1 /\ objects'[n + 1] = new
        /\ \A o \in 1 .. n : objects'[o] = objects[o]
    BY <1>2, <1>6, <2>1 DEF OpenEnds
  <2>3. new.fd = r.fd /\ new.path = c.path /\ new.alive /\ c.op \in Opens /\ r.ok
    BY <1>6, <2>1 DEF Opened, OpenEnds
  <2>4. r.fd < nextFd /\ c.op \notin {"Close", "Destroy"}
    BY <1>2, <1>3, <2>3 DEF Opens
  <2>5. \A o \in 1 .. n + 1 : o \in 1 .. n \/ o = n + 1
    BY <1>2
  <2>6. \A o \in 1 .. Len(objects') : objects'[o].fd < nextFd
    BY <1>3, <2>2, <2>3, <2>4, <2>5
  <2>7. ASSUME NEW o \in 1 .. Len(objects'), NEW q \in 1 .. Len(objects'),
               objects'[o].alive, objects'[q].alive, objects'[o].fd = objects'[q].fd
        PROVE  o = q \/ objects'[o].fd = 0
    BY <1>3, <2>2, <2>3, <2>5, <2>7 DEF Alive
  <2>8. \A o \in 1 .. Len(objects') : objects'[o].alive /\ objects'[o].fd # 0 =>
          objects'[o].fd \in DOMAIN table /\ table[objects'[o].fd] = objects'[o].path
    BY <1>3, <2>2, <2>3, <2>4, <2>5 DEF Alive
  <2>9. \A fd \in DOMAIN table :
          \E o \in 1 .. Len(objects') : objects'[o].alive /\ objects'[o].fd = fd
    <3>1. n + 1 \in 1 .. n + 1 /\ 1 .. n \subseteq 1 .. n + 1
      BY <1>2
    <3> QED
      BY <1>3, <2>2, <2>3, <3>1 DEF Alive
  <2> QED
    BY <1>5, <2>6, <2>7, <2>8, <2>9
<1>7. ASSUME NEW fd \in {0, objects[c.obj].fd}, NEW pos, NEW alive \in BOOLEAN,
             c.op \in Owned, Changes(c.obj, fd, pos, alive), c.op \notin Opens,
             alive => objects[c.obj].alive,
             c.op \in {"Close", "Destroy"} <=> fd = 0 \/ ~alive
      PROVE  Handles'
  <2>1. /\ c.obj \in 1 .. n /\ objects[c.obj].alive /\ c.fd = objects[c.obj].fd
        /\ c.fd \in Nat /\ 0 < nextFd
    BY <1>2, <1>4, <1>7 DEF Alive, Object, Shapes, Types
  <2>2. /\ Len(objects') = n /\ objects'[c.obj].fd = fd /\ objects'[c.obj].alive = alive
        /\ objects'[c.obj].path = objects[c.obj].path
        /\ \A o \in 1 .. n : o # c.obj => objects'[o] = objects[o]
    BY <1>7 DEF Changes
  <2> HIDE DEF c
  <2>3. \A o \in 1 .. n : objects'[o].fd < nextFd
    BY <1>3, <1>7, <2>1, <2>2
  <2>4. ASSUME NEW o \in 1 .. n, NEW q \in 1 .. n,
               objects'[o].alive, objects'[q].alive, objects'[o].fd = objects'[q].fd
        PROVE  o = q \/ objects'[o].fd = 0
    <3>1. objects[o].alive /\ objects[q].alive
      BY <1>7, <2>2, <2>4
    <3>2. CASE fd = 0
      <4>1. objects'[c.obj].fd = 0
        BY <2>2, <3>2
      <4> QED
        BY <1>3, <2>2, <2>4, <3>1, <4>1 DEF Alive
    <3>3. CASE fd = objects[c.obj].fd
      <4>1. objects'[o].fd = objects[o].fd /\ objects'[q].fd = objects[q].fd
        BY <2>2, <3>3
      <4> QED
        BY <1>3, <2>4, <3>1, <4>1 DEF Alive
    <3> QED
      BY <1>7, <3>2, <3>3
  <2>5. \A o \in 1 .. n : objects'[o].alive /\ objects'[o].fd # 0 =>
          objects'[o].fd \in DOMAIN table /\ table[objects'[o].fd] = objects'[o].path
    <3> SUFFICES ASSUME NEW o \in 1 .. n, objects'[o].alive, objects'[o].fd # 0
                 PROVE  /\ objects'[o].fd \in DOMAIN table
                        /\ table[objects'[o].fd] = objects'[o].path
      OBVIOUS
    <3>1. CASE o # c.obj
      <4>1. objects'[o] = objects[o]
        BY <2>2, <3>1
      <4> QED
        BY <1>3, <3>1, <4>1 DEF Alive
    <3>2. CASE o = c.obj
      <4>1. /\ objects'[o].fd = fd /\ alive /\ objects'[o].path = objects[o].path
            /\ objects[o].alive
        BY <2>1, <2>2, <3>2
      <4>2. fd # 0 /\ fd = objects[o].fd
        BY <1>7, <3>2, <4>1
      <4>3. c.op \notin {"Close", "Destroy"}
        BY <1>7, <4>1, <4>2
      <4>4. fd \in DOMAIN table /\ table[fd] = objects[o].path
        BY <1>3, <3>2, <4>1, <4>2, <4>3 DEF Alive
      <4> QED
        BY <4>1, <4>4
    <3> QED
      BY <3>1, <3>2
  <2>6. \A d \in DOMAIN table : \E o \in 1 .. n : objects'[o].alive /\ objects'[o].fd = d
    <3> TAKE d \in DOMAIN table
    <3>1. PICK o \in 1 .. n : objects[o].alive /\ objects[o].fd = d
      BY <1>3, <1>7 DEF Alive
    <3>2. CASE o # c.obj
      BY <2>2, <3>1, <3>2
    <3>3. CASE o = c.obj
      <4>1. fd # 0 /\ alive
        BY <1>3, <1>7, <2>1, <3>1, <3>3
      <4> QED
        BY <1>7, <2>1, <2>2, <3>1, <3>3, <4>1
    <3> QED
      BY <3>2, <3>3
  <2> QED
    BY <1>5, <2>2, <2>3, <2>4, <2>5, <2>6
<1>8. CASE CloseEnds(c)
  <2>1. c.op = "Close" /\ Changes(c.obj, 0, objects[c.obj].offset, objects[c.obj].alive)
    BY <1>8 DEF CloseEnds
  <2>2. objects[c.obj].alive \in BOOLEAN
    BY <1>2, <1>4, <2>1 DEF Owned, Alive, Object
  <2> QED
    BY <1>7, <2>1, <2>2 DEF Owned, Opens
<1>9. CASE DestroyEnds(c)
  <2>1. /\ c.op = "Destroy"
        /\ Changes(c.obj, objects[c.obj].fd, objects[c.obj].offset, FALSE)
    BY <1>9 DEF DestroyEnds
  <2> QED
    BY <1>7, <2>1 DEF Owned, Opens
<1>10. CASE AppendEnds(c, r) \/ OtherEnds(c, r)
  <2>1. /\ Len(objects') = n
        /\ \A o \in 1 .. n : objects'[o].fd = objects[o].fd
             /\ objects'[o].alive = objects[o].alive /\ objects'[o].path = objects[o].path
    BY <1>10 DEF AppendEnds, OtherEnds, Changes
  <2>2. c.op \notin {"Close", "Destroy"} /\ ~(c.op \in Opens /\ r.ok)
    BY <1>10 DEF AppendEnds, OtherEnds, Opens
  <2> QED
    BY <1>3, <1>5, <2>1, <2>2 DEF Alive
<1> QED
  BY <1>1, <1>6, <1>8, <1>9, <1>10 DEF Ends

(* The return of the waiting call keeps the files what was appended to     *)
(* them: an append that was answered is in its file.                       *)
LEMMA PopWritten ==
  ASSUME Shapes, Apartness, Turn, NEW t \in Callers, PopResponse(t)
  PROVE  Written'
<1> DEFINE c == call[t]
           n == Len(objects)
           r == respRing[1]
<1>1. /\ Told(t) /\ \A u \in Callers : Told(u) => u = t
      /\ Ends(c, r) /\ UNCHANGED <<files, faults>>
      /\ \A u \in Callers : ~Told(u)' /\ ~Ok(u)'
  BY PopFrees
<1>2. /\ n \in Nat /\ objects \in Seq(Object) /\ appended \in Seq(Seq(Nat))
      /\ Len(appended) = n /\ c \in CallRecord
  BY DEF Shapes, Types
<1>3. /\ \A o \in 1 .. n : AliveWriter(o) =>
           \A i \in 1 .. Len(appended[o]) : Holds(objects[o].path, i - 1, appended[o][i])
      /\ \A o \in 1 .. n : AliveWriter(o) =>
           \A i \in Position : i >= objects[o].offset =>
             \/ files[objects[o].path][i] = Blank
             \/ r.ok /\ c.op = "Append" /\ c.obj = o /\ i < c.at + c.len
      /\ r.ok /\ c.op = "Append" => \A i \in c.at .. c.at + c.len - 1 :
           Holds(objects[c.obj].path, i, c.id)
      /\ r.ok /\ c.op = "NewWritableFile" => \A i \in Position : files[c.path][i] = Blank
  BY <1>1 DEF Turn, Written, AppendsHold, RestBlank, AnswersHold, NewBlank, Writes, Ok
<1>4. ASSUME \A o \in 1 .. Len(objects') : objects'[o].alive /\ objects'[o].kind = "Writable" =>
               \A i \in 1 .. Len(appended'[o]) :
                 Holds(objects'[o].path, i - 1, appended'[o][i]),
             \A o \in 1 .. Len(objects') : objects'[o].alive /\ objects'[o].kind = "Writable" =>
               \A i \in Position : i >= objects'[o].offset => files[objects'[o].path][i] = Blank
      PROVE  Written'
  BY <1>1, <1>4 DEF Written, AppendsHold, RestBlank, AnswersHold, NewBlank, AliveWriter, Alive,
     Holds
<1>5. CASE OpenEnds(c, r)
  <2>1. PICK new : new = Opened(IF c.op = "NewWritableFile" THEN "Writable" ELSE "RandomAccess",
                               c.path, r.fd)
    OBVIOUS
  <2>2. /\ Len(objects') = n + 1 /\ objects'[n + 1] = new
        /\ \A o \in 1 .. n : objects'[o] = objects[o] /\ appended'[o] = appended[o]
        /\ appended'[n + 1] = <<>>
    BY <1>2, <1>5, <2>1 DEF OpenEnds
  <2>3. /\ new.path = c.path /\ new.offset = 0 /\ c.op # "Append"
        /\ new.kind = "Writable" => r.ok /\ c.op = "NewWritableFile"
    BY <1>5, <2>1 DEF Opened, OpenEnds, Opens
  <2>4. \A o \in 1 .. n + 1 : o \in 1 .. n \/ o = n + 1
    BY <1>2
  <2>5. ASSUME NEW o \in 1 .. n + 1, objects'[o].alive, objects'[o].kind = "Writable"
        PROVE  \A i \in 1 .. Len(appended'[o]) :
                 Holds(objects'[o].path, i - 1, appended'[o][i])
    <3>1. CASE o \in 1 .. n
      BY <1>3, <2>2, <2>5, <3>1 DEF AliveWriter, Alive
    <3>2. CASE o = n + 1
      BY <2>2, <3>2
    <3> QED
      BY <2>4, <3>1, <3>2
  <2>6. ASSUME NEW o \in 1 .. n + 1, objects'[o].alive, objects'[o].kind = "Writable"
        PROVE  \A i \in Position : i >= objects'[o].offset => files[objects'[o].path][i] = Blank
    <3>1. CASE o \in 1 .. n
      BY <1>3, <2>2, <2>3, <2>6, <3>1 DEF AliveWriter, Alive
    <3>2. CASE o = n + 1
      BY <1>3, <2>2, <2>3, <2>6, <3>2
    <3> QED
      BY <2>4, <3>1, <3>2
  <2> QED
    BY <1>4, <2>2, <2>5, <2>6
<1>6. CASE AppendEnds(c, r)
  <2>1. /\ c.op = "Append" /\ r.ok /\ Len(objects') = n
        /\ \A q \in 1 .. n : q # c.obj => objects'[q] = objects[q]
        /\ objects'[c.obj].kind = objects[c.obj].kind
        /\ objects'[c.obj].path = objects[c.obj].path
        /\ objects'[c.obj].offset = objects[c.obj].offset + c.len
        /\ objects'[c.obj].alive = objects[c.obj].alive
    BY <1>6 DEF AppendEnds, Changes
  <2>2. /\ c.obj \in 1 .. n /\ c.at = objects[c.obj].offset
        /\ Len(appended[c.obj]) = objects[c.obj].offset
    <3>1. c.obj \in 1 .. n /\ pc[t] # "idle"
      BY <1>1, <2>1 DEF Apartness, ObjectsApart, Told, AliveWriter, Alive
    <3> QED
      BY <2>1, <3>1 DEF Apartness, Offsets
  <2>3. c.len \in Nat /\ c.at \in Nat /\ objects[c.obj] \in Object /\ c.id \in Nat
    <3>1. objects[c.obj] \in Object
      BY <1>2, <2>2
    <3>2. c.len \in Nat /\ c.at \in Nat /\ c.id \in Nat
      BY <1>2 DEF CallRecord
    <3> QED
      BY <3>1, <3>2
  <2> DEFINE more == [i \in 1 .. c.len |-> c.id]
  <2>4. more \in Seq(Nat) /\ Len(more) = c.len /\ \A i \in 1 .. c.len : more[i] = c.id
    BY <2>3
  <2>5. /\ appended'[c.obj] = appended[c.obj] \o more
        /\ \A q \in 1 .. n : q # c.obj => appended'[q] = appended[q]
    <3>1. appended' = [appended EXCEPT ![c.obj] = appended[c.obj] \o more]
      BY <1>6 DEF AppendEnds
    <3> HIDE DEF more
    <3> QED
      BY <1>2, <2>2, <3>1
  <2> HIDE DEF more
  <2>6. appended[c.obj] \in Seq(Nat) /\ Len(appended[c.obj]) \in Nat
    BY <1>2, <2>2
  <2>7. /\ Len(appended'[c.obj]) = c.at + c.len
        /\ \A i \in 1 .. c.at + c.len :
             appended'[c.obj][i] = IF i <= c.at THEN appended[c.obj][i] ELSE c.id
    <3>1. /\ Len(appended'[c.obj]) = c.at + c.len
          /\ \A i \in 1 .. c.at + c.len :
             appended'[c.obj][i] = IF i <= c.at THEN appended[c.obj][i] ELSE more[i - c.at]
      <4>1. PICK old \in Seq(Nat) : old = appended[c.obj]
        BY <2>6
      <4>2. /\ Len(old \o more) = Len(old) + Len(more)
            /\ \A i \in 1 .. Len(old) + Len(more) :
                 (old \o more)[i] = IF i <= Len(old) THEN old[i] ELSE more[i - Len(old)]
        BY <2>4, <4>1, ConcatProperties
      <4>3. Len(old) = c.at /\ Len(more) = c.len /\ appended'[c.obj] = old \o more
        BY <2>2, <2>4, <2>5, <4>1
      <4> QED
        BY <4>1, <4>2, <4>3
    <3>2. \A i \in 1 .. c.at + c.len : i <= c.at \/ i - c.at \in 1 .. c.len
      BY <2>3
    <3> QED
      BY <2>4, <3>1, <3>2
  <2>8. ASSUME NEW o \in 1 .. n, objects'[o].alive, objects'[o].kind = "Writable"
        PROVE  \A i \in 1 .. Len(appended'[o]) :
                 Holds(objects'[o].path, i - 1, appended'[o][i])
    <3>1. AliveWriter(o) /\ objects'[o].path = objects[o].path
      BY <2>1, <2>8 DEF AliveWriter, Alive
    <3>2. CASE o # c.obj
      BY <1>3, <2>5, <3>1, <3>2
    <3>3. CASE o = c.obj
      <4> TAKE i \in 1 .. Len(appended'[o])
      <4>1. i \in 1 .. c.at + c.len
        BY <2>7, <3>3
      <4>2. CASE i <= c.at
        <5>1. i \in 1 .. Len(appended[o]) /\ appended'[o][i] = appended[o][i]
          BY <2>2, <2>3, <2>7, <3>3, <4>1, <4>2
        <5> QED
          BY <1>3, <3>1, <5>1
      <4>3. CASE ~(i <= c.at)
        <5>1. i - 1 \in c.at .. c.at + c.len - 1 /\ appended'[o][i] = c.id
          BY <2>3, <2>7, <3>3, <4>1, <4>3
        <5> QED
          BY <1>3, <2>1, <3>1, <3>3, <5>1
      <4> QED
        BY <4>2, <4>3
    <3> QED
      BY <3>2, <3>3
  <2>9. ASSUME NEW o \in 1 .. n, objects'[o].alive, objects'[o].kind = "Writable"
        PROVE  \A i \in Position : i >= objects'[o].offset => files[objects'[o].path][i] = Blank
    <3>1. AliveWriter(o) /\ objects'[o].path = objects[o].path
      BY <2>1, <2>9 DEF AliveWriter, Alive
    <3>2. CASE o # c.obj
      BY <1>3, <2>1, <3>1, <3>2
    <3>3. CASE o = c.obj
      <4> SUFFICES ASSUME NEW i \in Position, i >= objects'[o].offset
                   PROVE  files[objects[o].path][i] = Blank
        BY <3>1
      <4>1. i \in Int
        BY EnvAssumption, RegionAssumption DEF Position
      <4>2. i >= objects[o].offset /\ ~(i < c.at + c.len)
        <5>1. objects[o].offset \in Nat
          BY <2>3, <3>3 DEF Object
        <5> QED
          BY <2>1, <2>2, <2>3, <3>3, <4>1, <5>1
      <4> QED
        BY <1>3, <3>1, <4>2
    <3> QED
      BY <3>2, <3>3
  <2> QED
    BY <1>4, <2>1, <2>8, <2>9
<1>7. CASE CloseEnds(c) \/ DestroyEnds(c) \/ OtherEnds(c, r)
  <2>1. /\ Len(objects') = n /\ appended' = appended /\ ~(r.ok /\ c.op = "Append")
        /\ \A o \in 1 .. n :
             /\ objects'[o].alive => objects[o].alive
             /\ objects'[o].kind = objects[o].kind /\ objects'[o].path = objects[o].path
             /\ objects'[o].offset = objects[o].offset
    <3>1. CASE CloseEnds(c)
      BY <3>1 DEF CloseEnds, Changes
    <3>2. CASE DestroyEnds(c)
      BY <3>2 DEF DestroyEnds, Changes
    <3>3. CASE OtherEnds(c, r)
      BY <3>3 DEF OtherEnds
    <3> QED
      BY <1>7, <3>1, <3>2, <3>3
  <2> QED
    BY <1>3, <1>4, <2>1 DEF AliveWriter, Alive
<1> QED
  BY <1>1, <1>5, <1>6, <1>7 DEF Ends

(* Taking a response keeps what holds while one call waits at a time.      *)
LEMMA PopTurn ==
  ASSUME Shapes, Apartness, Turn, NEW t \in Callers, PopResponse(t)
  PROVE  Turn'
BY PopFrees, PopHandles, PopWritten DEF Turn

-----------------------------------------------------------------------------
(* The daemon answers the one call there is.                               *)

Answers(t, ok) ==
  /\ pc[t] = "wait" /\ \A u \in Callers : Inside(u) => u = t
  /\ reqRing[1].call = call[t] /\ reqRing[1].slot = held[t].start
  /\ respRing = <<>> /\ reqRing' = <<>> /\ Len(respRing') = 1
  /\ respRing'[1].id = call[t].id /\ respRing'[1].ok = ok
  /\ respRing'[1].fd = IF call[t].op \in Opens THEN nextFd ELSE 0
  /\ UNCHANGED <<regionVars, threadVars>>

(* While one call waits at a time, the request the daemon answers is the   *)
(* waiting call's.                                                         *)
LEMMA ReplyAnswers ==
  ASSUME Shapes, InTurn, reqRing # <<>>, NEW ok \in BOOLEAN, Reply(ok)
  PROVE  \E t \in Callers : Answers(t, ok)
<1>1. PICK t \in Callers : pc[t] = "wait"
  BY SomeoneWaits
<1>2. /\ \A u \in Callers : Inside(u) => u = t
      /\ respRing = <<>> /\ Tail(reqRing) = <<>>
      /\ reqRing[1] = [call |-> call[t], slot |-> held[t].start]
  BY <1>1, Waiting
<1>3. reqRing[1].call = call[t] /\ reqRing[1].slot = held[t].start
  BY <1>2
<1>4. PICK fd : fd = IF call[t].op \in Opens THEN nextFd ELSE 0
  OBVIOUS
<1>5. PICK x : x = Answer(call[t].id, ok, fd)
  OBVIOUS
<1>6. /\ respRing' = Append(respRing, x) /\ reqRing' = <<>>
      /\ UNCHANGED <<regionVars, threadVars>>
  BY <1>2, <1>3, <1>4, <1>5, ReplyTypes DEF Shapes
<1>7. Len(respRing') = 1 /\ respRing'[1] = x
  <2>1. respRing' = <<x>>
    BY <1>2, <1>6
  <2> QED
    BY <2>1
<1>8. x.id = call[t].id /\ x.ok = ok /\ x.fd = fd
  BY <1>5 DEF Answer
<1> QED
  BY <1>1, <1>2, <1>3, <1>4, <1>6, <1>7, <1>8 DEF Answers

\* Nobody knew the answer, and now the one that waits does.
LEMMA AnswersTell ==
  ASSUME InTurn, NEW t \in Callers, NEW ok \in BOOLEAN, Answers(t, ok)
  PROVE  /\ InTurn'
         /\ \A u \in Callers : ~Told(u) /\ ~Ok(u)
         /\ pc' = pc /\ call' = call /\ held' = held /\ objects' = objects
         /\ appended' = appended
         /\ \A u \in Callers : Told(u)' <=> u = t
         /\ \A u \in Callers : Ok(u)' <=> u = t /\ ok
<1>1. pc' = pc /\ call' = call /\ held' = held /\ objects' = objects /\ appended' = appended
  BY DEF Answers, threadVars, regionVars
<1>2. \A u \in Callers : ~Told(u) /\ ~Ok(u)
  BY NoneTold DEF Answers
<1>3. Served(t)' /\ Told(t)'
  BY <1>1 DEF Answers, Served, Told
<1>4. \A u \in Callers : Told(u)' <=> u = t
  BY <1>1, <1>3 DEF Answers, Told, Inside
<1>5. \A u \in Callers : Ok(u)' <=> u = t /\ ok
  BY <1>4 DEF Ok, Answers
<1>6. InTurn'
  <2>1. \A u, v \in Callers : Inside(u)' /\ Inside(v)' => u = v
    BY <1>1 DEF InTurn, Inside
  <2>2. \A u \in Callers : pc'[u] = "wait" => u = t
    BY <1>1 DEF Answers, Inside
  <2>3. pc'[t] = "wait"
    BY <1>1 DEF Answers
  <2> QED
    BY <1>3, <2>1, <2>2, <2>3 DEF InTurn
<1> QED
  BY <1>1, <1>2, <1>4, <1>5, <1>6

(* The daemon's answer keeps the handles owned.                            *)
LEMMA AnswersHandles ==
  ASSUME Shapes, Apartness, Turn, NEW t \in Callers, NEW ok \in BOOLEAN, Answers(t, ok),
         LET c == call[t] IN
           \/ /\ ok /\ c.op \in Opens /\ table' = Added(c.path) /\ nextFd' = nextFd + 1
           \/ /\ c.op \in {"Close", "Destroy"} /\ nextFd' = nextFd
              /\ table' = Restrict(table, DOMAIN table \ {c.fd})
           \/ /\ c.op \notin {"Close", "Destroy"} /\ table' = table /\ nextFd' = nextFd
              /\ c.op \in Opens => ~ok
  PROVE  Handles'
<1> DEFINE c == call[t]
           n == Len(objects)
           f == respRing'[1].fd
<1>1. /\ \A u \in Callers : ~Told(u) /\ ~Ok(u)
      /\ call' = call /\ objects' = objects
      /\ \A u \in Callers : Told(u)' <=> u = t
      /\ \A u \in Callers : Ok(u)' <=> u = t /\ ok
  BY AnswersTell DEF Turn
<1>2. f = (IF c.op \in Opens THEN nextFd ELSE 0) /\ Refers(c, n)
  BY DEF Answers, Shapes, CallsRefer
<1>3. /\ nextFd \in Nat \ {0} /\ DOMAIN table \subseteq 1 .. nextFd - 1
      /\ \A o \in 1 .. n : objects[o].fd \in Nat
  <2>1. \A o \in 1 .. n : objects[o] \in Object
    BY DEF Shapes, Types
  <2> QED
    BY <2>1 DEF Shapes, Types, Object
<1>4. /\ \A o \in 1 .. n : objects[o].fd < nextFd
      /\ \A o, q \in 1 .. n :
           Alive(o) /\ Alive(q) /\ objects[o].fd = objects[q].fd => o = q \/ objects[o].fd = 0
      /\ \A o \in 1 .. n : Alive(o) /\ objects[o].fd # 0 =>
           objects[o].fd \in DOMAIN table /\ table[objects[o].fd] = objects[o].path
      /\ \A fd \in DOMAIN table : \E o \in 1 .. n : Alive(o) /\ objects[o].fd = fd
  BY <1>1 DEF Turn, Handles, Gone
<1>5. ASSUME \A o \in 1 .. n : objects[o].fd < nextFd',
             \A o \in 1 .. n : Alive(o) /\ objects[o].fd # 0 =>
               \/ objects[o].fd \in DOMAIN table' /\ table'[objects[o].fd] = objects[o].path
               \/ c.obj = o /\ c.op \in {"Close", "Destroy"},
             \A fd \in DOMAIN table' :
               \/ \E o \in 1 .. n : Alive(o) /\ objects[o].fd = fd
               \/ ok /\ f = fd /\ c.op \in Opens,
             c.op \in {"Close", "Destroy"} => c.fd \notin DOMAIN table',
             c.op \in Opens /\ ok =>
               /\ f \in DOMAIN table' /\ table'[f] = c.path
               /\ \A o \in 1 .. n : Alive(o) => objects[o].fd # f
      PROVE  Handles'
  <2>1. respRing'[1].ok = ok
    BY DEF Answers
  <2> QED
    BY <1>1, <1>2, <1>4, <1>5, <2>1 DEF Handles, Gone, Alive
<1>6. CASE ok /\ c.op \in Opens /\ table' = Added(c.path) /\ nextFd' = nextFd + 1
  <2>1. c.path \in Paths
    BY <1>2, <1>6 DEF Refers
  <2>2. /\ DOMAIN table' = DOMAIN table \cup {nextFd} /\ table'[nextFd] = c.path
        /\ \A fd \in DOMAIN table : table'[fd] = table[fd]
    BY <1>6, <2>1, TableAdded DEF Shapes
  <2>3. f = nextFd /\ c.op \notin {"Close", "Destroy"}
    BY <1>2, <1>6 DEF Opens
  <2>4. \A o \in 1 .. n : objects[o].fd < nextFd' /\ objects[o].fd # nextFd
    BY <1>3, <1>4, <1>6
  <2>5. \A o \in 1 .. n : Alive(o) /\ objects[o].fd # 0 =>
          objects[o].fd \in DOMAIN table' /\ table'[objects[o].fd] = objects[o].path
    BY <1>4, <2>2
  <2>6. \A fd \in DOMAIN table' :
          (\E o \in 1 .. n : Alive(o) /\ objects[o].fd = fd) \/ f = fd
    BY <1>4, <2>2, <2>3
  <2>7. f \in DOMAIN table' /\ table'[f] = c.path
        /\ \A o \in 1 .. n : Alive(o) => objects[o].fd # f
    BY <2>2, <2>3, <2>4
  <2>8. ok
    BY <1>6, <2>3
  <2> QED
    BY <1>5, <1>6, <2>3, <2>4, <2>5, <2>6, <2>7, <2>8
<1>7. CASE /\ c.op \in {"Close", "Destroy"} /\ nextFd' = nextFd
           /\ table' = Restrict(table, DOMAIN table \ {c.fd})
  <2>1. /\ DOMAIN table' = DOMAIN table \ {c.fd}
        /\ \A fd \in DOMAIN table' : table'[fd] = table[fd]
    BY <1>7, TableRestricted DEF Shapes
  <2>2. c.op \notin Opens /\ pc[t] # "idle"
    BY <1>7 DEF Opens, Answers
  <2>3. Alive(c.obj) /\ c.fd = objects[c.obj].fd
    BY <1>7, <2>2 DEF Apartness, ObjectsApart, Owned
  <2>4. ASSUME NEW o \in 1 .. n, Alive(o), objects[o].fd # 0
        PROVE  \/ objects[o].fd \in DOMAIN table' /\ table'[objects[o].fd] = objects[o].path
               \/ c.obj = o /\ c.op \in {"Close", "Destroy"}
    <3>1. c.obj \in 1 .. n
      BY <2>3 DEF Alive
    <3> QED
      BY <1>4, <1>7, <2>1, <2>3, <2>4, <3>1
  <2> QED
    BY <1>4, <1>5, <1>7, <2>1, <2>2, <2>4
<1>8. CASE /\ c.op \notin {"Close", "Destroy"} /\ table' = table /\ nextFd' = nextFd
           /\ c.op \in Opens => ~ok
  BY <1>4, <1>5, <1>8
<1> QED
  BY <1>6, <1>7, <1>8

\* An answer to a call that wrote nothing where it matters.
LEMMA AnswersWritten ==
  ASSUME Shapes, Turn, NEW t \in Callers, NEW ok \in BOOLEAN, Answers(t, ok),
         faults' \in {faults, faults + 1},
         \A o \in 1 .. Len(objects) :
           AliveWriter(o) => files'[objects[o].path] = files[objects[o].path],
         call[t].op = "Append" => ~ok,
         call[t].op = "NewWritableFile" /\ ok =>
           \A i \in Position : files'[call[t].path][i] = Blank
  PROVE  Written'
<1>1. /\ \A u \in Callers : ~Told(u) /\ ~Ok(u)
      /\ call' = call /\ objects' = objects /\ appended' = appended
      /\ \A u \in Callers : Ok(u)' <=> u = t /\ ok
  BY AnswersTell DEF Turn
<1>2. faults > 0 => faults' > 0
  BY DEF Shapes, Types
<1>3. AppendsHold'
  BY <1>1, <1>2 DEF Turn, Written, AppendsHold, AliveWriter, Alive, Holds
<1>4. RestBlank'
  BY <1>1 DEF Turn, Written, RestBlank, AliveWriter, Alive, Writes
<1>5. AnswersHold'
  BY <1>1 DEF AnswersHold
<1>6. NewBlank'
  BY <1>1 DEF NewBlank
<1> QED
  BY <1>3, <1>4, <1>5, <1>6 DEF Written

\* The write of an append, as far as it went.
LEMMA AppendWritten ==
  ASSUME Shapes, Apartness, Turn, NEW t \in Callers, Answers(t, TRUE),
         call[t].op = "Append", call[t].fd \in DOMAIN table,
         NEW n \in 1 .. call[t].len,
         faults' = IF n < call[t].len THEN faults + 1 ELSE faults,
         files' = [files EXCEPT ![table[call[t].fd]] =
                     Copied(@, call[t].at, region, held[t].start, n)]
  PROVE  Written'
<1> DEFINE c == call[t]
           s == held[t].start
<1>1. /\ \A u \in Callers : ~Told(u) /\ ~Ok(u)
      /\ call' = call /\ objects' = objects /\ appended' = appended
      /\ \A u \in Callers : Ok(u)' <=> u = t
  BY AnswersTell DEF Turn
<1>2. pc[t] = "wait"
  BY DEF Answers
<1>3. /\ AliveWriter(c.obj) /\ c.obj \in 1 .. Len(objects) /\ c.fd = objects[c.obj].fd
      /\ c.at = objects[c.obj].offset /\ c.at + c.len <= calls * RegionLen
  BY <1>2 DEF Apartness, ObjectsApart, Offsets, Owned, AliveWriter, Alive
<1>4. PICK p \in Paths : p = objects[c.obj].path
  <2>1. objects[c.obj] \in Object
    BY <1>3 DEF Shapes, Types
  <2> QED
    BY <2>1 DEF Object
<1>5. table[c.fd] = p
  <2>1. c.fd # 0
    BY DEF Shapes, Types
  <2>2. Alive(c.obj) /\ \A u \in Callers : ~Gone(u, c.obj)
    BY <1>1, <1>3 DEF AliveWriter, Gone
  <2> QED
    BY <1>3, <1>4, <2>1, <2>2 DEF Turn, Handles
<1>6. /\ c.at \in Nat /\ c.len \in Nat /\ s \in Nat /\ n \in Nat /\ n <= c.len /\ calls > 0
      /\ s + c.len <= RegionLen /\ faults \in Nat
  <2>1. c \in CallRecord /\ held[t] \in [start : Nat, len : Nat, lap : Nat]
    BY DEF Shapes, Types, AllocInv, AllocTypeOK
  <2>2. c.at \in Nat /\ c.len \in Nat /\ s \in Nat
    BY <2>1 DEF CallRecord
  <2>3. step[t] = "held" /\ held[t].len = c.len /\ c.len <= RegionLen
    BY <1>2 DEF Shapes, CallsRefer, Refers, Allocates, Payloads
  <2>4. held[t].start + held[t].len <= RegionLen
    BY <2>3 DEF Shapes, AllocInv, InBounds
  <2> QED
    BY <1>2, <2>2, <2>3, <2>4 DEF Shapes, Types, CallsRefer
<1>7. /\ \A k \in Position : c.at <= k /\ k < c.at + n => files'[p][k] = region[s + k - c.at]
      /\ \A k \in Position : ~(c.at <= k /\ k < c.at + n) => files'[p][k] = files[p][k]
      /\ \A q \in Paths : q # p => files'[q] = files[q]
  <2>1. files' = [files EXCEPT ![p] = Copied(files[p], c.at, region, s, n)]
    BY <1>5 DEF Shapes, Contents
  <2>2. files'[p] = Copied(files[p], c.at, region, s, n)
        /\ \A q \in Paths : q # p => files'[q] = files[q]
    BY <2>1 DEF Shapes, Contents
  <2>3. s + n <= RegionLen
    BY <1>6, RegionAssumption
  <2> QED
    <3>1. PICK j \in Nat : j = c.at
      BY <1>6
    <3>2. PICK k0 \in Nat : k0 = s
      BY <1>6
    <3>3. n \in Nat /\ k0 + n <= RegionLen
      BY <1>6, <2>3, <3>2
    <3>4. /\ \A k \in Position : j <= k /\ k < j + n =>
               Copied(files[p], j, region, k0, n)[k] = region[k0 + k - j]
          /\ \A k \in Position : ~(j <= k /\ k < j + n) =>
               Copied(files[p], j, region, k0, n)[k] = files[p][k]
      BY <3>3, AppendedFile DEF Shapes
    <3>5. files'[p] = Copied(files[p], j, region, k0, n)
      BY <2>2, <3>1, <3>2
    <3> QED
      BY <2>2, <3>1, <3>2, <3>4, <3>5
<1>8. \A k \in Position : c.at <= k /\ k < c.at + n => files'[p][k] = c.id
  <2>1. \A k \in Position : c.at <= k /\ k < c.at + n =>
          s + k - c.at \in Span /\ s <= s + k - c.at /\ s + k - c.at < s + c.len
    <3>1. Position \subseteq Int
      BY EnvAssumption, RegionAssumption DEF Position
    <3> QED
      BY <1>6, <3>1, RegionAssumption DEF Span
  <2>2. \A k \in Span : s <= k /\ k < s + c.len => region[k] = c.id
    BY <1>2 DEF Turn, Copies, Inside
  <2> QED
    BY <1>7, <2>1, <2>2
<1>9. \A o \in 1 .. Len(objects) : AliveWriter(o) /\ o # c.obj =>
        files'[objects[o].path] = files[objects[o].path]
  <2>1. \A o \in 1 .. Len(objects) : objects[o] \in Object
    BY DEF Shapes, Types
  <2>2. \A o \in 1 .. Len(objects) : objects[o].path \in Paths
    BY <2>1 DEF Object
  <2> QED
    BY <1>3, <1>4, <1>7, <2>2 DEF Apartness, PathsApart
<1>10. /\ faults > 0 => faults' > 0
       /\ n < c.len => faults' > 0
  BY <1>6
<1>11. /\ \A o \in 1 .. Len(objects) : AliveWriter(o) =>
            \A i \in Position : i >= objects[o].offset => files[objects[o].path][i] = Blank
       /\ \A o \in 1 .. Len(objects) : AliveWriter(o) =>
            \A i \in 1 .. Len(appended[o]) : Holds(objects[o].path, i - 1, appended[o][i])
  BY <1>1 DEF Turn, Written, RestBlank, AppendsHold, Writes
<1>12. \A i \in Int : c.at <= i /\ i < c.at + c.len => i \in Position
  <2>1. \A i \in Int : c.at <= i /\ i < c.at + c.len => i \in Nat /\ i < calls * RegionLen
    <3>1. PICK b \in Nat : b = calls * RegionLen
      BY <1>6, FirstPositions DEF Shapes
    <3> QED
      BY <1>3, <1>6, <3>1
  <2> QED
    BY <1>6, <2>1, FirstPositions DEF Shapes
<1> HIDE DEF c, s
<1>13. AppendsHold'
  <2> SUFFICES ASSUME NEW o \in 1 .. Len(objects), AliveWriter(o),
                      NEW i \in 1 .. Len(appended[o])
               PROVE  \/ files'[objects[o].path][i - 1] = appended[o][i]
                      \/ faults' > 0 /\ files'[objects[o].path][i - 1] = Blank
    BY <1>1 DEF AppendsHold, AliveWriter, Alive, Holds
  <2>1. \/ files[objects[o].path][i - 1] = appended[o][i]
        \/ faults > 0 /\ files[objects[o].path][i - 1] = Blank
    BY <1>11 DEF Holds
  <2>2. CASE o # c.obj
    BY <1>9, <1>10, <2>1, <2>2
  <2>3. CASE o = c.obj
    <3>1. Len(appended[o]) = c.at
      BY <1>3, <2>3 DEF Apartness, Offsets
    <3>2. i - 1 \in Nat /\ i - 1 < c.at /\ i - 1 < calls * RegionLen
      <4>1. PICK b \in Nat : b = calls * RegionLen
        BY <1>6, FirstPositions DEF Shapes
      <4>2. c.at + c.len <= b
        BY <1>3, <4>1
      <4>3. i \in 1 .. c.at
        BY <3>1
      <4>4. i - 1 \in Nat /\ i - 1 < c.at /\ i - 1 < b
        BY <1>6, <4>1, <4>2, <4>3
      <4> QED
        BY <4>1, <4>4
    <3>3. i - 1 \in Position
      BY <1>6, <3>2, FirstPositions DEF Shapes
    <3>4. files'[p][i - 1] = files[p][i - 1]
      BY <1>6, <1>7, <3>2, <3>3
    <3> QED
      BY <1>4, <1>10, <2>1, <2>3, <3>4
  <2> QED
    BY <2>2, <2>3
<1>14. RestBlank'
  <2> SUFFICES ASSUME NEW o \in 1 .. Len(objects), AliveWriter(o),
                      NEW i \in Position, i >= objects[o].offset
               PROVE  \/ files'[objects[o].path][i] = Blank
                      \/ o = c.obj /\ i < c.at + c.len
    BY <1>1 DEF RestBlank, AliveWriter, Alive, Writes, c
  <2>1. files[objects[o].path][i] = Blank
    BY <1>11
  <2>2. CASE o # c.obj
    BY <1>9, <2>1, <2>2
  <2>3. CASE o = c.obj /\ ~(i < c.at + c.len)
    <3>1. ~(i < c.at + n)
      BY <1>6, <2>3, EnvAssumption, RegionAssumption DEF Position
    <3> QED
      BY <1>4, <1>7, <2>1, <2>3, <3>1
  <2> QED
    BY <2>2, <2>3
<1>15. AnswersHold'
  <2> SUFFICES ASSUME NEW i \in c.at .. c.at + c.len - 1
               PROVE  \/ files'[p][i] = c.id
                      \/ faults' > 0 /\ files'[p][i] = Blank
    BY <1>1, <1>4 DEF AnswersHold, Holds, c
  <2>1. i \in Int /\ c.at <= i /\ i < c.at + c.len /\ i \in Position
    BY <1>6, <1>12
  <2>2. CASE i < c.at + n
    BY <1>8, <2>1, <2>2
  <2>3. CASE ~(i < c.at + n)
    <3>1. files'[p][i] = files[p][i]
      BY <1>7, <2>1, <2>3
    <3>2. files[p][i] = Blank
      BY <1>3, <1>4, <1>6, <1>11, <2>1
    <3>3. n < c.len
      BY <1>6, <2>1, <2>3
    <3> QED
      BY <1>10, <3>1, <3>2, <3>3
  <2> QED
    BY <2>2, <2>3
<1>16. NewBlank'
  BY <1>1 DEF NewBlank
<1> QED
  BY <1>13, <1>14, <1>15, <1>16 DEF Written

(* The daemon serving a request keeps what holds while one call waits at a *)
(* time.                                                                   *)
LEMMA ServeTurn ==
  ASSUME Shapes, Apartness, Turn, Serve
  PROVE  Turn'
<1>1. reqRing # <<>> /\ Reply(TRUE)
  BY DEF Serve
<1>2. PICK t \in Callers : Answers(t, TRUE)
  BY <1>1, ReplyAnswers DEF Turn
<1> DEFINE c == call[t]
<1>3. /\ InTurn' /\ pc' = pc /\ call' = call /\ held' = held
      /\ pc[t] = "wait" /\ \A u \in Callers : Inside(u) => u = t
      /\ reqRing[1].call = c /\ reqRing[1].slot = held[t].start
  BY <1>2, AnswersTell DEF Turn, Answers
<1>4. Performed(reqRing[1]) /\ Valid(c)
  <2>1. Head(reqRing) = reqRing[1]
    BY <1>1 DEF Shapes, Types
  <2> QED
    BY <1>3, <2>1 DEF Serve
<1>5. Refers(c, Len(objects)) /\ c \in CallRecord /\ faults \in Nat
  BY <1>3 DEF Shapes, CallsRefer, Types
<1>6. Copies'
  <2>1. CASE c.op = "Read"
    BY <1>3, <2>1 DEF Copies, Inside
  <2>2. CASE c.op # "Read"
    <3>1. region' = region
      BY <1>3, <1>4, <2>2 DEF Performed
    <3> QED
      BY <1>3, <3>1 DEF Turn, Copies, Inside
  <2> QED
    BY <2>1, <2>2
<1>7. CASE c.op \in Opens
  <2>1. c.path \in Paths
    BY <1>5, <1>7 DEF Refers
  <2>2. /\ table' = Added(c.path) /\ nextFd' = nextFd + 1 /\ faults' = faults
        /\ \/ c.op = "NewRandomAccessFile" /\ files' = files
           \/ /\ c.op = "NewWritableFile"
              /\ files' = [files EXCEPT ![c.path] = [i \in Position |-> Blank]]
    BY <1>3, <1>4, <1>7 DEF Performed, Opens
  <2>3. Handles'
    BY <1>2, <1>7, <2>2, AnswersHandles
  <2>4. \A o \in 1 .. Len(objects) :
          AliveWriter(o) => files'[objects[o].path] = files[objects[o].path]
    <3> SUFFICES ASSUME NEW o \in 1 .. Len(objects), AliveWriter(o)
                 PROVE  files'[objects[o].path] = files[objects[o].path]
      OBVIOUS
    <3>1. c.op = "NewWritableFile" => objects[o].path # c.path
      BY <1>3 DEF Apartness, PathsApart, Creates
    <3>2. objects[o] \in Object
      BY DEF Shapes, Types
    <3>3. objects[o].path \in Paths
      BY <3>2 DEF Object
    <3> QED
      BY <2>2, <3>1, <3>3 DEF Shapes, Contents
  <2>5. c.op = "NewWritableFile" => \A i \in Position : files'[c.path][i] = Blank
    BY <2>1, <2>2 DEF Shapes, Contents
  <2>6. Written'
    BY <1>2, <1>7, <2>2, <2>4, <2>5, AnswersWritten DEF Opens
  <2> QED
    BY <1>3, <1>6, <2>3, <2>6 DEF Turn
<1>8. CASE c.op = "Append"
  <2>1. c.fd \in DOMAIN table
    BY <1>4, <1>8 DEF Valid, Opens
  <2>2. PICK n \in 1 .. c.len :
          /\ faults' = IF n < c.len THEN faults + 1 ELSE faults
          /\ files' = [files EXCEPT ![table[c.fd]] =
                         Copied(@, c.at, region, held[t].start, n)]
    BY <1>3, <1>4, <1>8 DEF Performed, Opens
  <2>3. UNCHANGED <<table, nextFd>>
    BY <1>3, <1>4, <1>8 DEF Performed, Opens
  <2>4. Handles'
    BY <1>2, <1>8, <2>3, AnswersHandles DEF Opens
  <2>5. Written'
    BY <1>2, <1>8, <2>1, <2>2, AppendWritten
  <2> QED
    BY <1>3, <1>6, <2>4, <2>5 DEF Turn
<1>9. CASE c.op \notin Opens \cup {"Append"}
  <2>1. /\ UNCHANGED <<nextFd, files, faults>>
        /\ \/ /\ c.op \in {"Close", "Destroy"}
              /\ table' = Restrict(table, DOMAIN table \ {c.fd})
           \/ c.op \in {"Read", "Sync"} /\ table' = table
    BY <1>3, <1>4, <1>9 DEF Performed, Opens, daemonVars
  <2>2. Handles'
    BY <1>2, <1>9, <2>1, AnswersHandles
  <2>3. Written'
    BY <1>2, <1>9, <2>1, AnswersWritten DEF Opens
  <2> QED
    BY <1>3, <1>6, <2>2, <2>3 DEF Turn
<1> QED
  BY <1>7, <1>8, <1>9

(* The daemon failing a request keeps it.                                  *)
LEMMA ServeFailsTurn ==
  ASSUME Shapes, Apartness, Turn, ServeFails
  PROVE  Turn'
<1>1. /\ reqRing # <<>> /\ Reply(FALSE) /\ UNCHANGED <<nextFd, files, region>>
      /\ faults' \in {faults, faults + 1}
      /\ table' = IF reqRing[1].call.op \in {"Close", "Destroy"}
                  THEN Restrict(table, DOMAIN table \ {reqRing[1].call.fd}) ELSE table
  BY FailCases DEF Shapes
<1>2. PICK t \in Callers : Answers(t, FALSE)
  BY <1>1, ReplyAnswers DEF Turn
<1> DEFINE c == call[t]
<1>3. /\ InTurn' /\ pc' = pc /\ call' = call /\ held' = held /\ reqRing[1].call = c
  BY <1>2, AnswersTell DEF Turn, Answers
<1>4. Copies'
  BY <1>1, <1>3 DEF Turn, Copies, Inside
<1>5. \/ c.op \in {"Close", "Destroy"} /\ table' = Restrict(table, DOMAIN table \ {c.fd})
      \/ c.op \notin {"Close", "Destroy"} /\ table' = table
  BY <1>1, <1>3
<1>6. Handles'
  BY <1>1, <1>2, <1>5, AnswersHandles
<1>7. Written'
  BY <1>1, <1>2, AnswersWritten
<1> QED
  BY <1>3, <1>4, <1>6, <1>7 DEF Turn

(* A step that changes nothing keeps it.                                   *)
LEMMA SameTurn ==
  ASSUME Turn, UNCHANGED vars
  PROVE  Turn'
<1>1. UNCHANGED <<objects, call, pc, appended, region, reqRing, respRing, table, nextFd,
                  files, faults, held>>
  BY DEF vars, threadVars, daemonVars, regionVars
<1> QED
  BY <1>1 DEF Turn, InTurn, Handles, Gone, Written, AppendsHold, RestBlank, AnswersHold,
     NewBlank, Writes, Copies, Inside, Unserved, Served, Told, Ok, Alive, AliveWriter, Holds

(* Every step keeps what holds while one call waits at a time, until a     *)
(* second one does.                                                        *)
LEMMA AloneKept == EnvInv /\ [Next]_vars => Alone'
<1> SUFFICES ASSUME Shapes, Apartness, Alone, [Next]_vars, ~shared'
             PROVE  Turn'
  BY DEF EnvInv, Alone
<1>1. Turn
  <2>1. ~shared
    <3>1. ASSUME NEW t \in Callers, Call(t) PROVE ~shared
      BY <3>1, CallBegins DEF Shapes, Begins, DestroyClosed
    <3>2. ASSUME NEW t \in Callers, Thread(t) PROVE ~shared
      <4>1. CASE Submit(t)
        BY <4>1 DEF Submit
      <4>2. CASE Allocate(t) \/ Push(t) \/ PopResponse(t)
        BY <4>2 DEF Allocate, Push, PopResponse
      <4> QED
        BY <3>2, <4>1, <4>2 DEF Thread
    <3>3. CASE Serve \/ ServeFails \/ UNCHANGED vars
      BY <3>3 DEF Serve, ServeFails, Reply, threadVars, vars
    <3> QED
      BY <3>1, <3>2, <3>3 DEF Next
  <2> QED
    BY <2>1 DEF Alone
<1>2. ASSUME NEW t \in Callers, Call(t) PROVE Turn'
  <2>1. CASE \E o \in 1 .. Len(objects) : DestroyClosed(t, o)
    BY <1>1, <2>1, DestroyClosedTurn
  <2>2. CASE ~\E o \in 1 .. Len(objects) : DestroyClosed(t, o)
    <3>1. \E d \in CallRecord : Legal(d) /\ Begins(t, d)
      BY <1>2, <2>2, CallBegins DEF Shapes
    <3> QED
      BY <1>1, <3>1, BeginTurn
  <2> QED
    BY <2>1, <2>2
<1>3. ASSUME NEW t \in Callers, Thread(t) PROVE Turn'
  BY <1>1, <1>3, AllocateTurn, SubmitTurn, PushTurn, PopTurn DEF Thread
<1> QED
  BY <1>1, <1>2, <1>3, ServeTurn, ServeFailsTurn, SameTurn DEF Next


(***************************************************************************)
(* The shapes and the apartness of the calls hold however many threads are *)
(* in the client; the rest of the invariant while one at a time is in it.  *)
(***************************************************************************)
LEMMA EnvInvariant == Spec => []EnvInv
<1>1. Init => EnvInv
  <2> SUFFICES ASSUME Init PROVE EnvInv
    OBVIOUS
  <2>1. Shapes
    BY ShapesInit
  <2>2. /\ objects = <<>> /\ appended = <<>> /\ respRing = <<>> /\ reqRing = <<>>
        /\ DOMAIN table = {} /\ \A t \in Callers : pc[t] = "idle"
    BY DEF Init
  <2>3. Len(objects) = 0 /\ Len(respRing) = 0
    BY <2>2
  <2>4. Apartness
    BY <2>2, <2>3 DEF Apartness, ObjectsApart, PathsApart, Offsets, Creates, Alive, AliveWriter
  <2>5. Turn
    BY <2>2, <2>3 DEF Turn, InTurn, Handles, Written, AppendsHold, RestBlank, AnswersHold,
       NewBlank, Copies, Inside, Told, Ok
  <2> QED
    BY <2>1, <2>4, <2>5 DEF EnvInv, Alone
<1>2. EnvInv /\ [Next]_vars => EnvInv'
  BY ShapesKept, ApartKept, AloneKept DEF EnvInv
<1> QED
  BY <1>1, <1>2, PTL DEF Spec

(* FileIsAppends: while one thread at a time is in the client, a writable  *)
(* file holds what was appended to it, in order and nothing else, but for  *)
(* the holes of writes the kernel cut short.                               *)
THEOREM ShimFiles == Spec => []FileIsAppends
<1>1. EnvInv => FileIsAppends
  <2> SUFFICES ASSUME EnvInv, ~shared PROVE
        \A o \in DOMAIN objects :
          objects[o].kind = "Writable" /\ objects[o].alive =>
            /\ Len(appended[o]) = objects[o].offset
            /\ \A i \in DOMAIN appended[o] :
                 \/ files[objects[o].path][i - 1] = appended[o][i]
                 \/ faults > 0 /\ files[objects[o].path][i - 1] = Blank
    BY DEF FileIsAppends
  <2>1. /\ DOMAIN objects = 1 .. Len(objects) /\ Turn /\ Offsets
        /\ \A o \in 1 .. Len(objects) : DOMAIN appended[o] = 1 .. Len(appended[o])
    <3>1. objects \in Seq(Object) /\ appended \in Seq(Seq(Nat)) /\ Len(appended) = Len(objects)
      BY DEF EnvInv, Shapes, Types
    <3>2. \A o \in 1 .. Len(objects) : appended[o] \in Seq(Nat)
      BY <3>1
    <3> QED
      BY <3>1, <3>2 DEF EnvInv, Apartness, Alone
  <2> QED
    BY <2>1 DEF Turn, Offsets, Written, AppendsHold, AliveWriter, Alive, Holds
<1> QED
  BY <1>1, EnvInvariant, PTL

(* HandlesOwned: while one thread at a time is in the client, each handle  *)
(* of the daemon belongs to exactly one object or to the answer that will  *)
(* make one, and an object that nobody closes has its handle.              *)
THEOREM ShimHandles == Spec => []HandlesOwned
<1>1. EnvInv => HandlesOwned
  <2> SUFFICES ASSUME EnvInv, ~shared
               PROVE  /\ \A fd \in DOMAIN table : Cardinality(Owners(fd)) = 1
                      /\ \A o \in DOMAIN objects :
                           objects[o].alive /\ objects[o].fd # 0 /\ ~Closing(o)
                             => objects[o].fd \in DOMAIN table
    BY DEF HandlesOwned
  <2>1. /\ Shapes /\ Turn /\ DOMAIN objects = 1 .. Len(objects)
        /\ DOMAIN respRing = 1 .. Len(respRing) /\ 0 \notin DOMAIN objects
        /\ 0 \notin DOMAIN table
    BY DEF EnvInv, Alone, Shapes, Types
  <2>2. \A i \in DOMAIN respRing : i = 1 /\ \E t \in Callers : Told(t)
    <3> SUFFICES ASSUME NEW i \in DOMAIN respRing
                 PROVE  i = 1 /\ \E t \in Callers : Told(t)
      OBVIOUS
    <3>1. respRing # <<>>
      BY <2>1
    <3>2. PICK t \in Callers : pc[t] = "wait"
      BY <2>1, <3>1, SomeoneWaits DEF Turn
    <3>3. Told(t) /\ Len(respRing) = 1
      BY <2>1, <3>1, <3>2, Waiting DEF Turn
    <3> QED
      BY <2>1, <3>3
  <2>3. ASSUME NEW fd \in DOMAIN table PROVE Cardinality(Owners(fd)) = 1
    <3> DEFINE Here == {o \in DOMAIN objects : objects[o].alive /\ objects[o].fd = fd}
               Coming == {0 : i \in {j \in DOMAIN respRing : respRing[j].ok /\ respRing[j].fd = fd}}
    <3>1. Owners(fd) = Here \cup Coming
      BY DEF Owners
    <3>2. fd # 0
      BY <2>1
    <3>3. \A o, q \in Here : o = q
      BY <2>1, <3>2 DEF Turn, Handles, Alive
    <3>4. ASSUME NEW x \in Coming
          PROVE  x = 0 /\ Here = {}
      <4>1. PICK i \in DOMAIN respRing : respRing[i].ok /\ respRing[i].fd = fd /\ x = 0
        BY <3>4
      <4>2. PICK t \in Callers : i = 1 /\ Told(t)
        BY <2>2
      <4>3. call[t].op \in Opens
        BY <2>1, <3>2, <4>1, <4>2 DEF Turn, Handles
      <4>4. \A o \in 1 .. Len(objects) : Alive(o) => objects[o].fd # fd
        BY <2>1, <4>1, <4>2, <4>3 DEF Turn, Handles
      <4> QED
        BY <2>1, <4>1, <4>4 DEF Alive
    <3>5. (\E o \in Here : TRUE) \/ 0 \in Coming
      <4>1. CASE \E o \in 1 .. Len(objects) : Alive(o) /\ objects[o].fd = fd
        BY <2>1, <4>1 DEF Alive
      <4>2. CASE \E t \in Callers : Ok(t) /\ respRing[1].fd = fd
        <5>1. 1 \in DOMAIN respRing /\ respRing[1].ok /\ respRing[1].fd = fd
          BY <2>1, <4>2 DEF Ok, Told, Served
        <5> QED
          BY <5>1
      <4> QED
        BY <2>1, <4>1, <4>2 DEF Turn, Handles
    <3> HIDE DEF Here, Coming
    <3>6. \E x : Owners(fd) = {x}
      BY <3>1, <3>3, <3>4, <3>5
    <3> QED
      BY <3>6, FS_Singleton
  <2>4. ASSUME NEW o \in DOMAIN objects, objects[o].alive, objects[o].fd # 0, ~Closing(o)
        PROVE  objects[o].fd \in DOMAIN table
    <3>1. \A t \in Callers : ~Gone(t, o)
      BY <2>4 DEF Closing, Gone, Told
    <3> QED
      BY <2>1, <2>4, <3>1 DEF Turn, Handles, Alive
  <2> QED
    BY <2>3, <2>4
<1> QED
  BY <1>1, EnvInvariant, PTL
=============================================================================
