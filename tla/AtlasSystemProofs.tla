-------------------------- MODULE AtlasSystemProofs --------------------------
(***************************************************************************)
(* What holds of AtlasSystem for any number of clients, whatever the sizes *)
(* of rings and regions.                                                   *)
(***************************************************************************)
EXTENDS AtlasSystem, PipelineProofs

(* The inductive invariant.                                                *)

Waiting == {c \in Clients : pc[c] = "wait"}

\* The request of c as it travels.
Tag(c) == Tagged(req[c], c)

\* resp may be the answer c waits for.
Answers(c, resp) ==
  /\ resp.id = req[c].id
  /\ req[c].op = "Open" /\ resp.status = "ok" => resp.fd \in VirtualFds
  /\ req[c].op = "Read" => resp.data_offset + resp.data_len <= RegionSize

(* Requests are what the client library builds.                            *)
RequestsFormed ==
  \A c \in Clients : pc[c] # "idle" =>
    /\ req[c].op # "None"
    /\ req[c].op = "Open" => req[c].path \in Paths
    /\ req[c].op # "Open" => req[c].fd \in DOMAIN handles[c]
    /\ req[c].op \in {"Read", "Write"} =>
         /\ req[c].len = IoLen
         /\ req[c].data_offset + IoLen <= RegionSize

(* Rings and queues hold the request, or an answer to the request, of the  *)
(* current call of a client.                                               *)
Holds ==
  /\ \A c \in Clients :
       /\ reqRing[c] \in {<<>>, <<req[c]>>}
       /\ Len(respRing[c]) <= 1
       /\ \A i \in DOMAIN respRing[c] : Answers(c, respRing[c][i])
  /\ \A i \in DOMAIN pending : pending[i] = Tag(pending[i].channel)
  /\ \A i \in DOMAIN ops : ops[i] = Single(Tag(ops[i].channel))
  /\ \A i \in DOMAIN batch :
       /\ batch[i].op = Single(Tag(batch[i].op.channel))
       /\ batch[i].op.req.op \in {"Read", "Write", "Sync"}
       /\ batch[i].n <= batch[i].op.req.len
  /\ \A i \in DOMAIN outbox : Answers(outbox[i].channel, outbox[i].resp)

\* The clients that have something in a ring or a queue.
InRing(ring) == {c \in Clients : ring[c] # <<>>}
Owners(queue) == {queue[i].channel : i \in DOMAIN queue}

Apart(queue) ==
  \A i, j \in DOMAIN queue : queue[i].channel = queue[j].channel => i = j

(* No queue holds two things of one client.                                *)
QueuesApart == Apart(pending) /\ Apart(ops) /\ Apart(Prepared) /\ Apart(outbox)

\* The clients of the three queues of a round are engaged in it.
InRound == Owners(ops) \cup Owners(Prepared) \cup Owners(outbox)

(* No client has something in two of them.                                 *)
StagesApart ==
  /\ InRing(reqRing) \cap (Owners(pending) \cup InRound \cup InRing(respRing)) = {}
  /\ Owners(pending) \cap (InRound \cup InRing(respRing)) = {}
  /\ InRound \cap InRing(respRing) = {}
  /\ Owners(ops) \cap (Owners(Prepared) \cup Owners(outbox)) = {}
  /\ Owners(Prepared) \cap Owners(outbox) = {}

Engaged == InRing(reqRing) \cup Owners(pending) \cup InRound \cup InRing(respRing)

(* Only calls that wait are on their way, and all of them, unless a crash  *)
(* lost some.                                                              *)
OnTheWay ==
  /\ Engaged \subseteq Waiting
  /\ crashes = 0 => Waiting \subseteq Engaged

(* Which queues a phase of the loop uses.                                  *)
Phases ==
  /\ svc # "round" => ops = <<>> /\ batch = <<>> /\ outbox = <<>>
  /\ svc # "poll" => pending = <<>>
  /\ svc = "down" => fdTable = <<>> /\ nextFd = 1

(* The fd table names every open descriptor once.                          *)
TableExact ==
  /\ \A v, w \in DOMAIN fdTable : fdTable[v] = fdTable[w] => v = w
  /\ \A v \in DOMAIN fdTable : openFile[fdTable[v]] # NoPath
  /\ \A d \in RealFds : openFile[d] # NoPath => \E v \in DOMAIN fdTable : fdTable[v] = d

\* The responses on their way to the clients.
Mail == {outbox[i] : i \in DOMAIN outbox}
          \cup {[channel |-> c, resp |-> Head(respRing[c])] : c \in InRing(respRing)}

\* The responses that hand out a virtual fd.
Grants == {m \in Mail : req[m.channel].op = "Open" /\ m.resp.status = "ok"}

(* A virtual fd belongs to one client, which was given it, or will be by a *)
(* response on its way; as long as it is open its file is the one that     *)
(* client asked for; and a prepared operation holds its descriptor.        *)
Ownership ==
  /\ \A c \in Clients : DOMAIN handles[c] \subseteq 1 .. nextFd - 1
  /\ \A c, d \in Clients : c # d => DOMAIN handles[c] \cap DOMAIN handles[d] = {}
  /\ \A m \in Grants :
       /\ m.resp.fd \in DOMAIN fdTable
       /\ openFile[fdTable[m.resp.fd]] = req[m.channel].path
       /\ \A c \in Clients : m.resp.fd \notin DOMAIN handles[c]
  /\ \A m, n \in Grants : m.resp.fd = n.resp.fd => m.channel = n.channel
  /\ \A c \in Clients : \A v \in DOMAIN handles[c] :
       v \in DOMAIN fdTable => openFile[fdTable[v]] = handles[c][v]
  /\ \A i \in DOMAIN batch :
       /\ batch[i].op.req.fd \in DOMAIN fdTable
       /\ batch[i].fd = fdTable[batch[i].op.req.fd]

IInv ==
  /\ TypeOK
  /\ RequestsFormed
  /\ Holds
  /\ QueuesApart
  /\ StagesApart
  /\ OnTheWay
  /\ Phases
  /\ TableExact
  /\ crashes \in Nat
  /\ crashes = 0 => Ownership
-----------------------------------------------------------------------------
(* Sequences and tables.                                                   *)

LEMMA AppendFacts ==
  ASSUME NEW S, NEW q \in Seq(S), NEW e \in S
  PROVE  /\ Append(q, e) \in Seq(S)
         /\ \A i \in DOMAIN Append(q, e) :
              \/ i \in DOMAIN q /\ Append(q, e)[i] = q[i]
              \/ i = Len(q) + 1 /\ Append(q, e)[i] = e
         /\ Owners(Append(q, e)) = Owners(q) \cup {e.channel}
         /\ Apart(q) /\ e.channel \notin Owners(q) => Apart(Append(q, e))
<1> DEFINE r == Append(q, e)
<1>1. r \in Seq(S) /\ Len(r) = Len(q) + 1 /\ Len(q) \in Nat
  OBVIOUS
<1>2. DOMAIN q = 1 .. Len(q) /\ DOMAIN r = 1 .. Len(q) + 1
  BY <1>1
<1>3. \A i \in DOMAIN r : \/ i \in DOMAIN q /\ r[i] = q[i]
                          \/ i = Len(q) + 1 /\ r[i] = e
  BY <1>1, <1>2
<1>4. \A i \in DOMAIN q : i \in DOMAIN r /\ r[i] = q[i]
  BY <1>1, <1>2
<1>5. Len(q) + 1 \in DOMAIN r /\ r[Len(q) + 1] = e
  BY <1>1, <1>2
<1> HIDE DEF r
<1>6. Owners(r) = Owners(q) \cup {e.channel}
  BY <1>3, <1>4, <1>5 DEF Owners
<1>7. Apart(q) /\ e.channel \notin Owners(q) => Apart(r)
  BY <1>3 DEF Owners, Apart
<1> QED
  BY <1>1, <1>3, <1>6, <1>7 DEF r

(* The queues of the daemon are taken from the front: what is left, whose  *)
(* it is, and that it still holds each client once.                        *)
LEMMA TailFacts ==
  ASSUME NEW S, NEW q \in Seq(S), q # <<>>
  PROVE  /\ Tail(q) \in Seq(S) /\ Head(q) \in S
         /\ 1 \in DOMAIN q /\ Head(q) = q[1]
         /\ \A i \in DOMAIN Tail(q) : i + 1 \in DOMAIN q /\ Tail(q)[i] = q[i + 1]
         /\ Head(q).channel \in Owners(q)
         /\ Apart(q) => Owners(Tail(q)) = Owners(q) \ {Head(q).channel}
         /\ Apart(q) => Apart(Tail(q))
<1> DEFINE r == Tail(q)
<1>1. /\ r \in Seq(S) /\ Len(r) = Len(q) - 1 /\ Len(q) \in Nat \ {0}
      /\ Head(q) \in S /\ Head(q) = q[1]
  OBVIOUS
<1>2. DOMAIN q = 1 .. Len(q) /\ DOMAIN r = 1 .. Len(q) - 1
  BY <1>1
<1>3. \A i \in DOMAIN r : i + 1 \in DOMAIN q /\ i + 1 # 1 /\ r[i] = q[i + 1]
  BY <1>1, <1>2
<1>4. \A i \in DOMAIN q : i = 1 \/ (i - 1 \in DOMAIN r /\ r[i - 1] = q[i])
  BY <1>1, <1>2
<1>5. 1 \in DOMAIN q
  BY <1>1, <1>2
<1>6. \A i, j \in DOMAIN r : i + 1 = j + 1 => i = j
  BY <1>2
<1> HIDE DEF r
<1>7. Head(q).channel \in Owners(q)
  BY <1>1, <1>5 DEF Owners
<1>8. Apart(q) => Owners(r) = Owners(q) \ {q[1].channel}
  BY <1>3, <1>4, <1>5 DEF Owners, Apart
<1>9. Apart(q) => Apart(r)
  BY <1>3, <1>6 DEF Apart
<1> QED
  BY <1>1, <1>3, <1>5, <1>7, <1>8, <1>9 DEF r

(* Tail, pointwise.                                                        *)
LEMMA TailIs ==
  ASSUME NEW S, NEW q \in Seq(S), q # <<>>
  PROVE  Tail(q) = [i \in 1 .. Len(q) - 1 |-> q[i + 1]]
<1>1. Tail(q) \in Seq(S) /\ Len(Tail(q)) = Len(q) - 1
  OBVIOUS
<1>2. DOMAIN Tail(q) = 1 .. Len(q) - 1
  BY <1>1
<1>3. \A i \in 1 .. Len(q) - 1 : Tail(q)[i] = q[i + 1]
  BY <1>1
<1> DEFINE r == Tail(q)
<1> HIDE DEF r
<1>4. r \in [1 .. Len(q) - 1 -> S]
  <2>1. r \in Seq(S) /\ Len(r) = Len(q) - 1
    BY <1>1 DEF r
  <2>2. r \in [1 .. Len(r) -> S]
    BY <2>1
  <2> QED
    BY <2>1, <2>2
<1>5. r = [i \in 1 .. Len(q) - 1 |-> q[i + 1]]
  BY <1>3, <1>4 DEF r
<1> QED
  BY <1>5 DEF r

(* The empty queue holds nobody.                                           *)
LEMMA EmptyQueue == Owners(<<>>) = {} /\ Apart(<<>>)
BY DEF Owners, Apart

(* Preparing one operation more adds it at the end of the prepared ones.   *)
LEMMA PreparedAppend ==
  ASSUME NEW S, batch \in Seq(S), NEW b \in S, batch' = Append(batch, b)
  PROVE  Prepared' = Append(Prepared, b.op)
<1>1. /\ Len(batch) \in Nat /\ DOMAIN batch = 1 .. Len(batch)
      /\ DOMAIN batch' = 1 .. Len(batch) + 1
      /\ \A i \in 1 .. Len(batch) : batch'[i] = batch[i]
      /\ batch'[Len(batch) + 1] = b
  OBVIOUS
<1>2. Prepared \in Seq({s.op : s \in S}) /\ Len(Prepared) = Len(batch) /\ b.op \in {s.op : s \in S}
  BY <1>1 DEF Prepared
<1>3. Append(Prepared, b.op) = [i \in 1 .. Len(batch) + 1 |-> IF i = Len(batch) + 1 THEN b.op ELSE Prepared[i]]
  BY <1>1, <1>2
<1>4. Prepared' = [i \in 1 .. Len(batch) + 1 |-> batch'[i].op]
  BY <1>1 DEF Prepared
<1> QED
  BY <1>1, <1>3, <1>4 DEF Prepared

(* Answering the first settled operation takes it off the prepared ones.   *)
LEMMA PreparedTail ==
  ASSUME NEW S, batch \in Seq(S), batch # <<>>, batch' = Tail(batch)
  PROVE  Prepared' = Tail(Prepared) /\ Prepared # <<>> /\ Head(Prepared) = Head(batch).op
<1>1. /\ Len(batch) \in Nat \ {0} /\ DOMAIN batch = 1 .. Len(batch)
      /\ DOMAIN batch' = 1 .. Len(batch) - 1
      /\ \A i \in 1 .. Len(batch) - 1 : batch'[i] = batch[i + 1]
      /\ Head(batch) = batch[1]
  OBVIOUS
<1>2. Prepared \in Seq({s.op : s \in S}) /\ Len(Prepared) = Len(batch)
  BY <1>1 DEF Prepared
<1>3. Head(Prepared) = Prepared[1] /\ Prepared # <<>>
  BY <1>1, <1>2
<1>5. Tail(Prepared) = [i \in 1 .. Len(batch) - 1 |-> Prepared[i + 1]]
  BY <1>1, <1>2, <1>3, TailIs
<1>4. Prepared' = [i \in 1 .. Len(batch) - 1 |-> batch'[i].op]
  BY <1>1 DEF Prepared
<1> QED
  BY <1>1, <1>3, <1>4, <1>5 DEF Prepared
-----------------------------------------------------------------------------
(* Data.                                                                   *)

LEMMA TablesFacts ==
  ASSUME NEW D, NEW S, NEW f
  PROVE  f \in Tables(D, S) <=> f \in [DOMAIN f -> S] /\ DOMAIN f \subseteq D
BY DEF Tables

(* The empty table is a table.                                             *)
LEMMA EmptyTable ==
  ASSUME NEW D, NEW S
  PROVE  <<>> \in Tables(D, S) /\ DOMAIN <<>> = {}
<1>1. DOMAIN <<>> = {} /\ <<>> \in [{} -> S]
  OBVIOUS
<1> QED
  BY <1>1, TablesFacts

(* Inserting a handle into a table: its domain and its values.             *)
LEMMA ExtendedFacts ==
  ASSUME NEW D, NEW S, NEW f \in Tables(D, S), NEW x \in D, NEW v \in S
  PROVE  /\ Extended(f, x, v) \in Tables(D, S)
         /\ DOMAIN Extended(f, x, v) = DOMAIN f \cup {x}
         /\ Extended(f, x, v)[x] = v
         /\ \A y \in DOMAIN f : y # x => Extended(f, x, v)[y] = f[y]
<1>1. f \in [DOMAIN f -> S] /\ DOMAIN f \subseteq D
  BY TablesFacts
<1>2. Extended(f, x, v) \in [DOMAIN f \cup {x} -> S]
  BY <1>1 DEF Extended
<1>3. DOMAIN Extended(f, x, v) = DOMAIN f \cup {x}
  BY DEF Extended
<1>4. Extended(f, x, v) \in Tables(D, S)
  BY <1>1, <1>2, <1>3, TablesFacts
<1> QED
  BY <1>3, <1>4 DEF Extended

(* Removing handles from a table: its domain and its values.               *)
LEMMA RestrictFacts ==
  ASSUME NEW D, NEW S, NEW f \in Tables(D, S), NEW E, E \subseteq DOMAIN f
  PROVE  /\ Restrict(f, E) \in Tables(D, S)
         /\ DOMAIN Restrict(f, E) = E
         /\ \A y \in E : Restrict(f, E)[y] = f[y]
<1>1. f \in [DOMAIN f -> S] /\ DOMAIN f \subseteq D
  BY TablesFacts
<1>2. Restrict(f, E) \in [E -> S] /\ DOMAIN Restrict(f, E) = E
  BY <1>1 DEF Restrict
<1>3. Restrict(f, E) \in Tables(D, S)
  BY <1>1, <1>2, TablesFacts
<1> QED
  BY <1>2, <1>3 DEF Restrict

(* The least of a non-empty set of naturals.                               *)
LEMMA MinFacts ==
  ASSUME NEW T, T \subseteq Nat, T # {}
  PROVE  Min(T) \in T /\ \A y \in T : Min(T) <= y
<1>1. \E x \in T : \A y \in T : x <= y
  BY LeastNat
<1> QED
  BY <1>1 DEF Min

(* The lesser of two naturals.                                             *)
LEMMA PairMin ==
  ASSUME NEW a \in Nat, NEW b \in Nat
  PROVE  Min({a, b}) \in Nat /\ Min({a, b}) <= a /\ Min({a, b}) <= b
<1>1. {a, b} \subseteq Nat /\ {a, b} # {} /\ a \in {a, b} /\ b \in {a, b}
  OBVIOUS
<1> QED
  BY <1>1, MinFacts

(* The greater of two naturals.                                            *)
LEMMA PairMax ==
  ASSUME NEW a \in Nat, NEW b \in Nat
  PROVE  Max({a, b}) \in {a, b} /\ Max({a, b}) >= a /\ Max({a, b}) >= b
<1>1. \E x \in {a, b} : \A y \in {a, b} : x >= y
  <2>1. CASE a >= b
    BY <2>1
  <2>2. CASE b >= a
    BY <2>2
  <2> QED
    BY <2>1, <2>2
<1> QED
  BY <1>1 DEF Max

(* A slice inside the data region has the length asked for.                *)
LEMMA SliceType ==
  ASSUME NEW data \in [0 .. RegionSize - 1 -> Unit], NEW offset \in Nat, NEW n \in Nat,
         offset + n <= RegionSize
  PROVE  Slice(data, offset, n) \in Seq(Unit) /\ Len(Slice(data, offset, n)) = n
<1>1. RegionSize \in Nat
  BY ProtocolAssumption
<1>2. \A i \in 1 .. n : offset + i - 1 \in 0 .. RegionSize - 1
  BY <1>1
<1>3. \A i \in 1 .. n : data[offset + i - 1] \in Unit
  BY <1>2
<1>4. Slice(data, offset, n) \in [1 .. n -> Unit]
  BY <1>3 DEF Slice
<1> QED
  BY <1>4

(* Storing into the data region leaves it a data region.                   *)
LEMMA StoredType ==
  ASSUME NEW old \in [0 .. RegionSize - 1 -> Unit], NEW offset \in Nat, NEW data \in Seq(Unit)
  PROVE  Stored(old, offset, data) \in [0 .. RegionSize - 1 -> Unit]
<1>1. RegionSize \in Nat /\ Len(data) \in Nat
  BY ProtocolAssumption
<1>2. ASSUME NEW i \in 0 .. RegionSize - 1, offset <= i /\ i < offset + Len(data)
      PROVE  data[i - offset + 1] \in Unit
  <2>1. i - offset + 1 \in 1 .. Len(data)
    BY <1>1, <1>2
  <2> QED
    BY <2>1
<1> QED
  BY <1>2 DEF Stored

(* A read of a file returns at most the units asked for.                   *)
LEMMA ContentsType ==
  ASSUME NEW content \in Seq(Unit), NEW offset \in Nat, NEW n \in Nat
  PROVE  /\ Contents(content, offset, n) \in Seq(Unit)
         /\ Len(Contents(content, offset, n)) <= n
<1>1. Len(content) \in Nat
  OBVIOUS
<1> DEFINE m == Min({offset + n, Len(content)})
<1>2. m \in Nat /\ m <= Len(content) /\ m <= offset + n
  <2>1. offset + n \in Nat
    OBVIOUS
  <2> QED
    BY <1>1, <2>1, PairMin
<1> HIDE DEF m
<1>3. SubSeq(content, offset + 1, m) \in Seq(Unit)
  BY <1>1, <1>2
<1>4. Len(SubSeq(content, offset + 1, m)) <= n
  BY <1>1, <1>2
<1> QED
  BY <1>3, <1>4 DEF Contents, m

(* A write into a file leaves a file.                                      *)
LEMMA OverwrittenType ==
  ASSUME NEW content \in Seq(Unit), NEW offset \in Nat, NEW data \in Seq(Unit)
  PROVE  Overwritten(content, offset, data) \in Seq(Unit)
<1>1. Len(content) \in Nat /\ Len(data) \in Nat /\ offset + Len(data) \in Nat
  OBVIOUS
<1> DEFINE m == Max({Len(content), offset + Len(data)})
<1>2. m \in Nat
  BY <1>1, PairMax
<1> HIDE DEF m
<1>3. ASSUME NEW i \in 1 .. m
      PROVE  (IF i > offset /\ i <= offset + Len(data) THEN data[i - offset]
              ELSE IF i <= Len(content) THEN content[i] ELSE Blank) \in Unit
  <2>1. CASE i > offset /\ i <= offset + Len(data)
    <3>1. i - offset \in 1 .. Len(data)
      BY <1>1, <1>2, <2>1
    <3> QED
      BY <2>1, <3>1
  <2>2. CASE ~ (i > offset /\ i <= offset + Len(data)) /\ i <= Len(content)
    <3>1. i \in 1 .. Len(content)
      BY <1>1, <1>2, <2>2
    <3> QED
      BY <2>2, <3>1
  <2>3. Blank \in Unit
    BY DEF Unit
  <2> QED
    BY <2>1, <2>2, <2>3
<1>4. Overwritten(content, offset, data) \in [1 .. m -> Unit]
  BY <1>3 DEF Overwritten, m
<1> QED
  BY <1>2, <1>4

(* The fields of an error response.                                        *)
LEMMA ErrFields ==
  ASSUME NEW id, NEW status
  PROVE  ResponseErr(id, status) =
           [id |-> id, status |-> status, fd |-> 0, data_offset |-> 0, data_len |-> 0]
BY DEF ResponseErr, ResponseOk

(* The fields of the response to an open.                                  *)
LEMMA FdFields ==
  ASSUME NEW id, NEW fd
  PROVE  ResponseFd(id, fd) =
           [id |-> id, status |-> "ok", fd |-> fd, data_offset |-> 0, data_len |-> 0]
BY DEF ResponseFd, ResponseOk

(* The fields of the response to a write.                                  *)
LEMMA WriteFields ==
  ASSUME NEW source
  PROVE  WriteResponse(source) =
           [id |-> source.id, status |-> "ok", fd |-> 0, data_offset |-> 0,
            data_len |-> source.len]
BY DEF WriteResponse, ResponseOk

(* The fields of the response to one source of a read.                     *)
LEMMA ReadFields ==
  ASSUME NEW done, NEW source
  PROVE  ReadResponse(done, source) =
           [id |-> source.id, status |-> "ok", fd |-> 0,
            data_offset |-> done.op.req.data_offset + source.within,
            data_len |-> IF source.within < done.n
                         THEN LesserOf(done.n - source.within, source.len) ELSE 0]
<1> DEFINE R(d, n) ==
             [id |-> source.id, status |-> "ok", fd |-> 0, data_offset |-> d, data_len |-> n]
           at == done.op.req.data_offset + source.within
           len == IF source.within < done.n
                  THEN LesserOf(done.n - source.within, source.len) ELSE 0
<1> HIDE DEF at, len
<1>1. ResponseOk(source.id) = R(0, 0)
  BY DEF ResponseOk
<1>2. [R(0, 0) EXCEPT !.data_offset = at] = R(at, 0)
  OBVIOUS
<1>3. [R(at, 0) EXCEPT !.data_len = len] = R(at, len)
  OBVIOUS
<1> HIDE DEF R
<1>4. ReadResponse(done, source) = R(at, len)
  BY <1>1, <1>2, <1>3, Zenon DEF ReadResponse, at, len
<1> QED
  BY <1>4, Zenon DEF R, at, len

(* The fields of an open request.                                          *)
LEMMA OpenFields ==
  ASSUME NEW c, NEW p
  PROVE  OpenRequest(c, p) =
           [id |-> nextId[c], op |-> "Open", priority |-> "High", fd |-> 0, offset |-> 0,
            len |-> 0, data_offset |-> 0, path |-> p]
BY DEF OpenRequest, IoRequest

(* The fields of a read or a write request.                                *)
LEMMA TransferFields ==
  ASSUME NEW c, NEW op, NEW fd, NEW offset
  PROVE  TransferRequest(c, op, fd, offset) =
           [id |-> nextId[c], op |-> op, priority |-> "High", fd |-> fd, offset |-> offset,
            len |-> IoLen, data_offset |-> AllocStart(c, IoLen), path |-> NoPath]
<1> DEFINE R(v, o, n, d) ==
             [id |-> nextId[c], op |-> op, priority |-> "High", fd |-> v, offset |-> o,
              len |-> n, data_offset |-> d, path |-> NoPath]
<1>1. IoRequest(nextId[c], op, "High") = R(0, 0, 0, 0)
  BY DEF IoRequest
<1>2. [R(0, 0, 0, 0) EXCEPT !.fd = fd] = R(fd, 0, 0, 0)
  OBVIOUS
<1>3. [R(fd, 0, 0, 0) EXCEPT !.offset = offset] = R(fd, offset, 0, 0)
  OBVIOUS
<1>4. [R(fd, offset, 0, 0) EXCEPT !.len = IoLen] = R(fd, offset, IoLen, 0)
  OBVIOUS
<1>5. [R(fd, offset, IoLen, 0) EXCEPT !.data_offset = AllocStart(c, IoLen)]
        = R(fd, offset, IoLen, AllocStart(c, IoLen))
  OBVIOUS
<1> HIDE DEF R
<1>6. TransferRequest(c, op, fd, offset) = R(fd, offset, IoLen, AllocStart(c, IoLen))
  BY <1>1, <1>2, <1>3, <1>4, <1>5, Zenon DEF TransferRequest
<1> QED
  BY <1>6 DEF R

(* The fields of a request that names a descriptor only.                   *)
LEMMA FdRequestFields ==
  ASSUME NEW c, NEW op, NEW priority, NEW fd
  PROVE  FdRequest(c, op, priority, fd) =
           [id |-> nextId[c], op |-> op, priority |-> priority, fd |-> fd, offset |-> 0,
            len |-> 0, data_offset |-> 0, path |-> NoPath]
BY DEF FdRequest, IoRequest

(* The responses the daemon builds are responses, and carry the id they    *)
(* are given.                                                              *)
LEMMA ResponsesTyped ==
  ASSUME NEW id \in Nat
  PROVE  /\ ResponseOk(id) \in Response /\ ResponseOk(id).id = id
         /\ ResponseOk(id).status = "ok" /\ ResponseOk(id).fd = 0
         /\ \A status \in Statuses : /\ ResponseErr(id, status) \in Response
                                     /\ ResponseErr(id, status).id = id
                                     /\ ResponseErr(id, status).status = status
                                     /\ ResponseErr(id, status).data_offset = 0
                                     /\ ResponseErr(id, status).data_len = 0
         /\ \A fd \in Nat : /\ ResponseFd(id, fd) \in Response
                            /\ ResponseFd(id, fd).id = id
                            /\ ResponseFd(id, fd).status = "ok"
                            /\ ResponseFd(id, fd).fd = fd
<1>1. ResponseOk(id) \in Response
  BY DEF ResponseOk, Response, Statuses
<1>2. \A status \in Statuses : /\ ResponseErr(id, status) \in Response
                               /\ ResponseErr(id, status).id = id
                               /\ ResponseErr(id, status).status = status
                               /\ ResponseErr(id, status).data_offset = 0
                               /\ ResponseErr(id, status).data_len = 0
  BY ErrFields DEF Response
<1>3. \A fd \in Nat : /\ ResponseFd(id, fd) \in Response
                      /\ ResponseFd(id, fd).id = id
                      /\ ResponseFd(id, fd).status = "ok"
                      /\ ResponseFd(id, fd).fd = fd
  BY FdFields DEF Response, Statuses
<1> QED
  BY <1>1, <1>2, <1>3 DEF ResponseOk

(* The outcome of a call that has not returned.                            *)
LEMMA NoOutcome == NoResult \in Outcome
<1>1. <<>> \in Seq(Unit) /\ 0 \in Nat
  OBVIOUS
<1> QED
  BY <1>1 DEF NoResult, Outcome

-----------------------------------------------------------------------------
(* The initial states.                                                     *)

LEMMA InitInvariant == Init => IInv
<1> SUFFICES ASSUME Init PROVE IInv
  OBVIOUS
<1> USE DEF Init, ProtocolInit, ClientInit, ServiceInit, StorageInit
<1>1. TypeOK
  <2>1. NoRequest \in Request
    BY DEF NoRequest, IoRequest, Request
  <2>2. <<>> \in Tables(VirtualFds, Paths) /\ <<>> \in Tables(1 .. nextFd - 1, RealFds)
    BY EmptyTable
  <2>3. [i \in 0 .. RegionSize - 1 |-> Blank] \in [0 .. RegionSize - 1 -> Unit]
    BY DEF Unit
  <2>4. channel \in 1 .. NumClients + 1 /\ nextFd \in 1 .. MaxFd + 1
    BY ProtocolAssumption, ServiceAssumption
  <2>5. allocated \in [Clients -> 0 .. RegionSize]
    BY ProtocolAssumption
  <2>6. got \in [Clients -> Outcome]
    BY NoOutcome
  <2> QED
    BY <2>1, <2>2, <2>3, <2>4, <2>5, <2>6 DEF TypeOK
<1>2. Prepared = <<>>
  BY DEF Prepared
<1>3. InRing(reqRing) = {} /\ InRing(respRing) = {} /\ Waiting = {}
  BY DEF InRing, Waiting
<1>4. RequestsFormed /\ Holds
  BY DEF RequestsFormed, Holds
<1>5. QueuesApart /\ StagesApart /\ OnTheWay /\ Phases
  BY <1>2, <1>3, EmptyQueue DEF QueuesApart, StagesApart, OnTheWay, Engaged, InRound, Phases
<1>6. TableExact
  BY DEF TableExact
<1>7. Ownership
  <2>1. Mail = {} /\ Grants = {}
    BY <1>3 DEF Mail, Grants
  <2>2. \A c \in Clients : DOMAIN handles[c] = {}
    OBVIOUS
  <2> QED
    BY <2>1, <2>2 DEF Ownership
<1> QED
  BY <1>1, <1>4, <1>5, <1>6, <1>7 DEF IInv
-----------------------------------------------------------------------------
(* Elements of the queues.                                                 *)

LEMMA ElementTypes ==
  ASSUME TypeOK
  PROVE  /\ \A i \in DOMAIN pending :
              pending[i] \in TaggedRequest /\ pending[i].channel \in Clients
         /\ \A i \in DOMAIN ops : ops[i] \in Operation /\ ops[i].channel \in Clients
         /\ \A i \in DOMAIN batch : /\ batch[i] \in BatchEntry
                                    /\ batch[i].op \in Operation
                                    /\ batch[i].op.channel \in Clients
         /\ \A i \in DOMAIN outbox :
              outbox[i] \in Addressed /\ outbox[i].channel \in Clients
<1>1. /\ pending \in Seq(TaggedRequest) /\ ops \in Seq(Operation)
      /\ batch \in Seq(BatchEntry) /\ outbox \in Seq(Addressed)
  BY DEF TypeOK
<1>2. /\ \A i \in DOMAIN pending : pending[i] \in TaggedRequest
      /\ \A i \in DOMAIN ops : ops[i] \in Operation
      /\ \A i \in DOMAIN batch : batch[i] \in BatchEntry
      /\ \A i \in DOMAIN outbox : outbox[i] \in Addressed
  BY <1>1
<1>3. /\ \A t \in TaggedRequest : t.channel \in Clients
      /\ \A op \in Operation : op.channel \in Clients
      /\ \A b \in BatchEntry : b.op \in Operation
      /\ \A m \in Addressed : m.channel \in Clients
  BY DEF TaggedRequest, Operation, BatchEntry, Addressed
<1> QED
  BY <1>2, <1>3

(* Whoever has an element in a stage of the daemon is among the owners of  *)
(* that stage.                                                             *)
LEMMA ElementOwners ==
  /\ \A i \in DOMAIN pending : pending[i].channel \in Owners(pending)
  /\ \A i \in DOMAIN ops : ops[i].channel \in Owners(ops)
  /\ \A i \in DOMAIN batch : batch[i].op.channel \in Owners(Prepared)
  /\ \A i \in DOMAIN outbox : outbox[i].channel \in Owners(outbox)
BY DEF Owners, Prepared
-----------------------------------------------------------------------------
(* The steps of the clients.                                               *)

ServiceUnchanged == UNCHANGED <<serviceVars, storageVars, crashes>>

(* A call begins: nothing of the client is on its way.                     *)
LEMMA SubmitInvariant ==
  ASSUME IInv, NEW c \in Clients, NEW r \in Request, Submit(c, r), ServiceUnchanged,
         r.op # "None",
         r.op = "Open" => r.path \in Paths,
         r.op # "Open" => r.fd \in DOMAIN handles[c],
         r.op \in {"Read", "Write"} =>
           r.len = IoLen /\ r.data_offset + IoLen <= RegionSize,
         allocated' \in [Clients -> 0 .. RegionSize],
         region' \in [Clients -> [0 .. RegionSize - 1 -> Unit]]
  PROVE  IInv'
<1> USE DEF ServiceUnchanged, Submit, serviceVars, storageVars, roundVars, fdVars
<1>0. TypeOK
  BY DEF IInv
<1>1. /\ pc[c] = "idle" /\ pc' \in [Clients -> {"idle", "push", "wait"}] /\ pc'[c] = "push"
      /\ req' \in [Clients -> Request] /\ req'[c] = r
      /\ \A d \in Clients : d # c => req'[d] = req[d] /\ pc'[d] = pc[d]
  BY <1>0 DEF TypeOK
<1>2. TypeOK'
  <2>1. got' \in [Clients -> Outcome]
    BY <1>0, NoOutcome DEF TypeOK
  <2> QED
    BY <1>0, <1>1, <2>1 DEF TypeOK
<1>3. RequestsFormed'
  BY <1>1 DEF IInv, RequestsFormed
<1>4. Waiting' = Waiting /\ c \notin Waiting /\ c \notin Engaged
  BY <1>1 DEF Waiting, IInv, OnTheWay
<1>5. /\ reqRing[c] = <<>> /\ respRing[c] = <<>>
      /\ c \notin Owners(pending) /\ c \notin Owners(ops) /\ c \notin Owners(Prepared)
      /\ c \notin Owners(outbox)
  BY <1>4 DEF Engaged, InRing, InRound
<1>6. /\ \A i \in DOMAIN pending : pending[i].channel \in Clients \ {c}
      /\ \A i \in DOMAIN ops : ops[i].channel \in Clients \ {c}
      /\ \A i \in DOMAIN batch : batch[i].op.channel \in Clients \ {c}
      /\ \A i \in DOMAIN outbox : outbox[i].channel \in Clients \ {c}
  BY <1>0, <1>5, ElementTypes, ElementOwners
<1>7. Holds'
  BY <1>1, <1>5, <1>6 DEF IInv, Holds, Answers, Tag
<1>8. Prepared' = Prepared
  BY DEF Prepared
<1>9. QueuesApart' /\ StagesApart' /\ OnTheWay' /\ Phases' /\ TableExact'
  BY <1>4, <1>8 DEF IInv, QueuesApart, StagesApart, OnTheWay, Phases, TableExact, Engaged,
                    InRound, InRing
<1>10. Ownership => Ownership'
  <2>1. \A m \in Mail : m.channel \in Clients \ {c}
    BY <1>5, <1>6 DEF Mail, InRing
  <2>2. Mail' = Mail
    BY DEF Mail, InRing
  <2>3. Grants' = Grants /\ \A m \in Grants : req'[m.channel] = req[m.channel]
    BY <1>1, <2>1, <2>2 DEF Grants
  <2> QED
    BY <2>3 DEF Ownership
<1> QED
  BY <1>2, <1>3, <1>7, <1>9, <1>10 DEF IInv

(* A call of the client library keeps the invariant.                       *)
LEMMA CallInvariant ==
  ASSUME IInv, NEW c \in Clients, Call(c), ServiceUnchanged
  PROVE  IInv'
<1>0. TypeOK
  BY DEF IInv
<1>1. /\ nextId[c] \in Nat /\ allocated[c] \in 0 .. RegionSize
      /\ region[c] \in [0 .. RegionSize - 1 -> Unit]
      /\ allocated \in [Clients -> 0 .. RegionSize]
      /\ region \in [Clients -> [0 .. RegionSize - 1 -> Unit]]
  BY <1>0 DEF TypeOK
<1>2. /\ RegionSize \in Nat /\ IoLen \in 1 .. RegionSize
      /\ AllocStart(c, IoLen) \in Nat /\ AllocStart(c, IoLen) + IoLen <= RegionSize
  BY <1>1, ProtocolAssumption, ClientAssumption DEF AllocStart
<1>3. \A fd \in DOMAIN handles[c] : fd \in Nat
  <2>1. handles[c] \in Tables(VirtualFds, Paths)
    BY <1>0 DEF TypeOK
  <2>2. DOMAIN handles[c] \subseteq VirtualFds
    BY <2>1, TablesFacts
  <2> QED
    BY <2>2, ServiceAssumption DEF VirtualFds
<1>4. ASSUME NEW p \in Paths, Open(c, p) PROVE IInv'
  <2>1. /\ OpenRequest(c, p) \in Request
        /\ OpenRequest(c, p).op = "Open" /\ OpenRequest(c, p).path = p
    BY <1>1, OpenFields DEF Request
  <2> QED
    BY <1>1, <1>4, <2>1, SubmitInvariant DEF Open
<1>5. ASSUME NEW fd \in DOMAIN handles[c], NEW o \in Offsets, NEW op \in {"Read", "Write"}
      PROVE  LET r == TransferRequest(c, op, fd, o)
             IN  /\ r \in Request /\ r.op = op /\ r.fd = fd /\ r.len = IoLen
                 /\ r.data_offset + IoLen <= RegionSize
  BY <1>1, <1>2, <1>3, TransferFields, ClientAssumption DEF Request
<1>6. Alloc(c, IoLen) => allocated' \in [Clients -> 0 .. RegionSize]
  BY <1>1, <1>2 DEF Alloc
<1>7. ASSUME NEW fd \in DOMAIN handles[c], NEW o \in Offsets, Read(c, fd, o) PROVE IInv'
  BY <1>1, <1>5, <1>6, <1>7, SubmitInvariant DEF Read
<1>8. ASSUME NEW fd \in DOMAIN handles[c], NEW o \in Offsets, NEW v \in Values,
             Write(c, fd, o, [i \in 1 .. IoLen |-> v])
      PROVE  IInv'
  <2> DEFINE data == [i \in 1 .. IoLen |-> v]
  <2>1. data \in Seq(Unit)
    BY <1>2 DEF Unit
  <2> HIDE DEF data
  <2>2. Write(c, fd, o, data)
    BY <1>8 DEF data
  <2>3. Stored(region[c], AllocStart(c, IoLen), data) \in [0 .. RegionSize - 1 -> Unit]
    BY <1>1, <1>2, <2>1, StoredType
  <2>4. region' \in [Clients -> [0 .. RegionSize - 1 -> Unit]]
    BY <1>1, <2>2, <2>3 DEF Write
  <2> QED
    BY <1>5, <1>6, <2>2, <2>4, SubmitInvariant DEF Write
<1>9. ASSUME NEW fd \in DOMAIN handles[c], Sync(c, fd) \/ Close(c, fd) PROVE IInv'
  <2>1. PICK op \in {"Sync", "Close"}, priority \in {"Critical", "Low"} :
          /\ Submit(c, FdRequest(c, op, priority, fd))
          /\ UNCHANGED <<region, allocated>>
    BY <1>9 DEF Sync, Close
  <2>2. LET r == FdRequest(c, op, priority, fd)
        IN  r \in Request /\ r.op = op /\ r.fd = fd
    BY <1>1, <1>3, FdRequestFields DEF Request
  <2> QED
    BY <1>1, <2>1, <2>2, SubmitInvariant
<1> QED
  BY <1>4, <1>7, <1>8, <1>9 DEF Call

(* The push of the request keeps the invariant.                            *)
LEMMA PushInvariant ==
  ASSUME IInv, NEW c \in Clients, PushRequest(c), ServiceUnchanged
  PROVE  IInv'
<1> USE DEF ServiceUnchanged, PushRequest, serviceVars, storageVars, roundVars, fdVars
<1>0. TypeOK
  BY DEF IInv
<1>1. c \notin Waiting /\ c \notin Engaged
  BY DEF Waiting, IInv, OnTheWay
<1>2. reqRing[c] = <<>> /\ req[c] \in Request
  BY <1>0, <1>1 DEF Engaged, InRing, TypeOK
<1>3. /\ reqRing' \in [Clients -> Seq(Request)] /\ reqRing'[c] = <<req[c]>>
      /\ \A d \in Clients : d # c => reqRing'[d] = reqRing[d]
  <2>1. Append(reqRing[c], req[c]) = <<req[c]>>
    BY <1>2
  <2> QED
    BY <1>0, <1>2, <2>1 DEF TypeOK
<1>4. /\ pc[c] = "push" /\ pc' \in [Clients -> {"idle", "push", "wait"}] /\ pc'[c] = "wait"
      /\ \A d \in Clients : d # c => pc'[d] = pc[d]
  BY <1>0 DEF TypeOK
<1>5. TypeOK'
  BY <1>0, <1>3, <1>4 DEF TypeOK
<1>6. RequestsFormed'
  BY <1>4 DEF IInv, RequestsFormed
<1>7. Holds'
  BY <1>3 DEF IInv, Holds, Answers, Tag
<1>8. /\ Prepared' = Prepared
      /\ Waiting' = Waiting \cup {c}
      /\ InRing(reqRing)' = InRing(reqRing) \cup {c}
      /\ InRing(respRing)' = InRing(respRing)
      /\ Owners(pending)' = Owners(pending) /\ InRound' = InRound
      /\ Owners(ops)' = Owners(ops) /\ Owners(Prepared)' = Owners(Prepared)
      /\ Owners(outbox)' = Owners(outbox)
  BY <1>3, <1>4 DEF Prepared, Waiting, InRing, InRound
<1>9. QueuesApart' /\ Phases' /\ TableExact'
  BY <1>8 DEF IInv, QueuesApart, Phases, TableExact
<1>10. Ownership => Ownership'
  <2>1. Mail' = Mail /\ Grants' = Grants
    BY <1>8 DEF Mail, Grants
  <2> QED
    BY <2>1 DEF Ownership
<1> HIDE DEF ServiceUnchanged, PushRequest, serviceVars, storageVars, roundVars, fdVars
<1>11. StagesApart'
  BY <1>1, <1>8 DEF IInv, StagesApart, Engaged
<1>12. OnTheWay'
  BY <1>8 DEF IInv, OnTheWay, Engaged, ServiceUnchanged
<1> QED
  BY <1>5, <1>6, <1>7, <1>9, <1>10, <1>11, <1>12 DEF IInv, ServiceUnchanged

(* Ownership survives a step that leaves the tables alone, grants nothing  *)
(* new and adds no prepared operation.                                     *)
LEMMA OwnershipKept ==
  ASSUME Ownership, UNCHANGED <<handles, fdTable, nextFd, openFile>>,
         Grants' \subseteq Grants, \A m \in Grants' : req'[m.channel] = req[m.channel],
         \A i \in DOMAIN batch' : \E j \in DOMAIN batch :
           batch'[i].op = batch[j].op /\ batch'[i].fd = batch[j].fd
  PROVE  Ownership'
<1>1. \A i \in DOMAIN batch' : /\ batch'[i].op.req.fd \in DOMAIN fdTable
                               /\ batch'[i].fd = fdTable[batch'[i].op.req.fd]
  BY DEF Ownership
<1> QED
  BY <1>1 DEF Ownership

(* The call returns, and an open hands its virtual fd to the client.        *)
LEMMA OutcomeType ==
  ASSUME NEW c \in Clients, region[c] \in [0 .. RegionSize - 1 -> Unit],
         NEW resp \in Response, Answers(c, resp)
  PROVE  Returned(c, resp) \in Outcome
<1>1. /\ resp.status \in Statuses /\ resp.fd \in Nat /\ resp.data_offset \in Nat
      /\ resp.data_len \in Nat
  BY DEF Response
<1> DEFINE data == IF req[c].op = "Read"
                   THEN Slice(region[c], resp.data_offset, resp.data_len) ELSE <<>>
<1>2. data \in Seq(Unit)
  <2>1. CASE req[c].op = "Read"
    <3>1. resp.data_offset + resp.data_len <= RegionSize
      BY <2>1 DEF Answers
    <3> QED
      BY <1>1, <2>1, <3>1, SliceType
  <2>2. CASE req[c].op # "Read"
    BY <2>2
  <2> QED
    BY <2>1, <2>2
<1>3. Returned(c, resp) =
        [status |-> resp.status, fd |-> resp.fd, len |-> resp.data_len, data |-> data]
  BY DEF Returned
<1> HIDE DEF data
<1> QED
  BY <1>1, <1>2, <1>3 DEF Outcome

(* The client taking its response keeps the invariant: the answer is for   *)
(* the call it waits in, and a granted descriptor becomes its handle.      *)
LEMMA PopInvariant ==
  ASSUME IInv, NEW c \in Clients, PopResponse(c), ServiceUnchanged
  PROVE  IInv'
<1> DEFINE resp == Head(respRing[c])
<1>0. TypeOK
  BY DEF IInv
<1>a. /\ pc[c] = "wait" /\ respRing[c] # <<>>
      /\ respRing' = [respRing EXCEPT ![c] = Tail(respRing[c])]
      /\ resp.id = req[c].id => ReturnToCaller(c, resp)
  BY DEF PopResponse
<1>b. /\ UNCHANGED <<reqRing, region, svc, channel, pending, ops, batch, outbox>>
      /\ UNCHANGED <<fdTable, nextFd, openFile, files, durable, crashes>>
  BY DEF ServiceUnchanged, PopResponse, serviceVars, storageVars, roundVars, fdVars
<1>1. /\ respRing[c] \in Seq(Response) /\ respRing[c] # <<>> /\ Len(respRing[c]) <= 1
      /\ resp \in Response /\ resp = respRing[c][1] /\ 1 \in DOMAIN respRing[c]
      /\ Tail(respRing[c]) = <<>>
  <2>1. respRing[c] \in Seq(Response) /\ respRing[c] # <<>> /\ Len(respRing[c]) <= 1
    <3>1. respRing[c] \in Seq(Response)
      BY <1>0 DEF TypeOK
    <3>2. Len(respRing[c]) <= 1
      BY DEF IInv, Holds
    <3> QED
      BY <1>a, <3>1, <3>2
  <2> QED
    BY <2>1
<1>2. Answers(c, resp)
  BY <1>1 DEF IInv, Holds
<1>3. ReturnToCaller(c, resp)
  BY <1>a, <1>2 DEF Answers
<1> HIDE DEF resp
<1>4. /\ pc[c] = "wait" /\ pc' \in [Clients -> {"idle", "push", "wait"}] /\ pc'[c] = "idle"
      /\ req' \in [Clients -> Request] /\ req'[c] = NoRequest
      /\ \A d \in Clients : d # c => pc'[d] = pc[d] /\ req'[d] = req[d]
      /\ respRing' \in [Clients -> Seq(Response)] /\ respRing'[c] = <<>>
      /\ \A d \in Clients : d # c => respRing'[d] = respRing[d]
  <2>1. NoRequest \in Request
    BY DEF NoRequest, IoRequest, Request
  <2>2. respRing' = [respRing EXCEPT ![c] = <<>>]
    BY <1>1, <1>a, Zenon
  <2>3. <<>> \in Seq(Response)
    OBVIOUS
  <2> QED
    BY <1>0, <1>3, <2>1, <2>2, <2>3, <1>a DEF TypeOK, ReturnToCaller
<1>5. /\ Waiting' = Waiting \ {c} /\ c \in InRing(respRing)
      /\ InRing(respRing)' = InRing(respRing) \ {c}
      /\ InRing(reqRing)' = InRing(reqRing) /\ Prepared' = Prepared
      /\ Owners(pending)' = Owners(pending) /\ InRound' = InRound
      /\ Owners(ops)' = Owners(ops) /\ Owners(Prepared)' = Owners(Prepared)
      /\ Owners(outbox)' = Owners(outbox)
  BY <1>b, <1>1, <1>4 DEF Waiting, InRing, Prepared, InRound
<1>6. /\ \A i \in DOMAIN pending : pending[i].channel \in Clients \ {c}
      /\ \A i \in DOMAIN ops : ops[i].channel \in Clients \ {c}
      /\ \A i \in DOMAIN batch : batch[i].op.channel \in Clients \ {c}
      /\ \A i \in DOMAIN outbox : outbox[i].channel \in Clients \ {c}
      /\ reqRing[c] = <<>>
  <2>1. /\ c \notin InRing(reqRing) /\ c \notin Owners(pending) /\ c \notin Owners(ops)
        /\ c \notin Owners(Prepared) /\ c \notin Owners(outbox)
    BY <1>b, <1>5 DEF IInv, StagesApart, InRound
  <2> QED
    BY <1>b, <1>0, <2>1, ElementTypes, ElementOwners DEF InRing
\* What the client learns of its handles.
<1>7. /\ handles' \in [Clients -> Tables(VirtualFds, Paths)]
      /\ \A d \in Clients : d # c => handles'[d] = handles[d]
      /\ ~ (req[c].op = "Open" /\ resp.status = "ok") => handles' = handles
      /\ req[c].op = "Open" /\ resp.status = "ok" =>
           /\ DOMAIN handles'[c] = DOMAIN handles[c] \cup {resp.fd}
           /\ handles'[c][resp.fd] = req[c].path
           /\ \A v \in DOMAIN handles[c] : v # resp.fd => handles'[c][v] = handles[c][v]
  <2>1. handles \in [Clients -> Tables(VirtualFds, Paths)]
    BY <1>b, <1>0 DEF TypeOK
  <2>2. CASE ~ (req[c].op = "Open" /\ resp.status = "ok")
    BY <1>b, <1>3, <2>1, <2>2 DEF ReturnToCaller
  <2>3. CASE req[c].op = "Open" /\ resp.status = "ok"
    <3>1. resp.fd \in VirtualFds /\ req[c].path \in Paths
      BY <1>b, <1>2, <1>4, <2>3 DEF Answers, IInv, RequestsFormed
    <3>2. handles[c] \in Tables(VirtualFds, Paths)
      BY <1>b, <2>1
    <3>3. handles' = [handles EXCEPT ![c] = Extended(handles[c], resp.fd, req[c].path)]
      BY <1>b, <1>3, <2>3 DEF ReturnToCaller
    <3>4. Extended(handles[c], resp.fd, req[c].path) \in Tables(VirtualFds, Paths)
      BY <1>b, <3>1, <3>2, ExtendedFacts
    <3>5. /\ handles' \in [Clients -> Tables(VirtualFds, Paths)]
          /\ handles'[c] = Extended(handles[c], resp.fd, req[c].path)
          /\ \A d \in Clients : d # c => handles'[d] = handles[d]
      BY <1>b, <2>1, <3>3, <3>4
    <3> DEFINE f == handles[c]
               g == Extended(f, resp.fd, req[c].path)
    <3> HIDE DEF f
    <3>6. /\ DOMAIN g = DOMAIN f \cup {resp.fd} /\ g[resp.fd] = req[c].path
          /\ \A v \in DOMAIN f : v # resp.fd => g[v] = f[v]
      <4>1. f \in Tables(VirtualFds, Paths)
        BY <3>2 DEF f
      <4> QED
        BY <3>1, <4>1, ExtendedFacts
    <3> HIDE DEF g
    <3>7. handles'[c] = g /\ f = handles[c]
      BY <3>5 DEF f, g
    <3> QED
      BY <1>b, <2>3, <3>5, <3>6, <3>7
  <2> QED
    BY <1>b, <2>2, <2>3
<1>8. TypeOK'
  <2>1. Returned(c, resp) \in Outcome
    BY <1>b, <1>0, <1>1, <1>2, OutcomeType DEF TypeOK
  <2>2. got' \in [Clients -> Outcome]
    BY <1>0, <1>3, <2>1 DEF TypeOK, ReturnToCaller
  <2> QED
    BY <1>b, <1>0, <1>3, <1>4, <1>7, <2>2 DEF TypeOK, ReturnToCaller
<1>9. RequestsFormed'
  BY <1>b, <1>4, <1>7 DEF IInv, RequestsFormed
<1>10. Holds'
  <2>1. \A d \in Clients :
          (/\ reqRing[d] \in {<<>>, <<req[d]>>}
           /\ Len(respRing[d]) <= 1
           /\ \A i \in DOMAIN respRing[d] : Answers(d, respRing[d][i]))'
    <3> SUFFICES ASSUME NEW d \in Clients
                 PROVE  (/\ reqRing[d] \in {<<>>, <<req[d]>>}
                         /\ Len(respRing[d]) <= 1
                         /\ \A i \in DOMAIN respRing[d] : Answers(d, respRing[d][i]))'
      BY <1>b
    <3>1. CASE d = c
      <4>1. reqRing'[d] = <<>> /\ respRing'[d] = <<>>
        BY <1>b, <1>4, <1>6, <3>1
      <4>2. Len(respRing'[d]) = 0 /\ DOMAIN respRing'[d] = {}
        BY <4>1
      <4> QED
        BY <4>1, <4>2
    <3>2. CASE d # c
      BY <1>b, <1>4, <3>2 DEF IInv, Holds, Answers
    <3> QED
      BY <1>b, <3>1, <3>2
  <2>2. \A d \in Clients \ {c} : req'[d] = req[d]
    BY <1>b, <1>4
  <2>3. /\ \A i \in DOMAIN pending : pending[i] = Tag(pending[i].channel)
        /\ \A i \in DOMAIN ops : ops[i] = Single(Tag(ops[i].channel))
        /\ \A i \in DOMAIN batch :
             /\ batch[i].op = Single(Tag(batch[i].op.channel))
             /\ batch[i].op.req.op \in {"Read", "Write", "Sync"}
             /\ batch[i].n <= batch[i].op.req.len
        /\ \A i \in DOMAIN outbox : Answers(outbox[i].channel, outbox[i].resp)
    BY DEF IInv, Holds
  <2>4. UNCHANGED <<pending, ops, batch, outbox>>
    BY <1>b
  <2>5. (/\ \A i \in DOMAIN pending : pending[i] = Tag(pending[i].channel)
         /\ \A i \in DOMAIN ops : ops[i] = Single(Tag(ops[i].channel)))'
    BY <1>b, <1>6, <2>2, <2>3, <2>4 DEF Tag
  <2>6. (\A i \in DOMAIN batch :
           /\ batch[i].op = Single(Tag(batch[i].op.channel))
           /\ batch[i].op.req.op \in {"Read", "Write", "Sync"}
           /\ batch[i].n <= batch[i].op.req.len)'
    BY <1>b, <1>6, <2>2, <2>3, <2>4 DEF Tag
  <2>7. (\A i \in DOMAIN outbox : Answers(outbox[i].channel, outbox[i].resp))'
    BY <1>b, <1>6, <2>2, <2>3, <2>4 DEF Answers
  <2> QED
    BY <1>b, <2>1, <2>5, <2>6, <2>7 DEF Holds
<1>11. QueuesApart' /\ Phases' /\ TableExact'
  BY <1>b, <1>5 DEF IInv, QueuesApart, Phases, TableExact
<1>12. \A m \in Mail : m.channel \in Clients
  BY <1>b, <1>0, ElementTypes DEF Mail, InRing
<1>13. Mail' = {m \in Mail : m.channel # c}
  <2>1. \A d \in InRing(respRing)' : d \in Clients \ {c} /\ d \in InRing(respRing) /\ respRing'[d] = respRing[d]
    BY <1>b, <1>4, <1>5 DEF InRing
  <2>2. ASSUME NEW m \in Mail' PROVE m \in Mail /\ m.channel # c
    <3>1. CASE \E i \in DOMAIN outbox : m = outbox[i]
      BY <1>b, <1>6, <3>1 DEF Mail
    <3>2. CASE \E d \in InRing(respRing)' : m = [channel |-> d, resp |-> Head(respRing'[d])]
      <4>1. PICK d \in InRing(respRing)' : m = [channel |-> d, resp |-> Head(respRing'[d])]
        BY <1>b, <3>2
      <4>2. d \in InRing(respRing) /\ d # c /\ m = [channel |-> d, resp |-> Head(respRing[d])]
        BY <1>b, <2>1, <4>1
      <4> QED
        BY <4>2 DEF Mail
    <3> QED
      BY <1>b, <2>2, <3>1, <3>2 DEF Mail
  <2>3. ASSUME NEW m \in Mail, m.channel # c PROVE m \in Mail'
    <3>1. CASE \E i \in DOMAIN outbox : m = outbox[i]
      BY <1>b, <3>1 DEF Mail
    <3>2. CASE \E d \in InRing(respRing) : m = [channel |-> d, resp |-> Head(respRing[d])]
      <4>1. PICK d \in InRing(respRing) : m = [channel |-> d, resp |-> Head(respRing[d])]
        BY <1>b, <3>2
      <4>2. d # c /\ d \in InRing(respRing)' /\ respRing'[d] = respRing[d]
        BY <1>b, <1>4, <1>5, <2>3, <4>1 DEF InRing
      <4> QED
        BY <4>1, <4>2 DEF Mail
    <3> QED
      BY <1>b, <3>1, <3>2 DEF Mail
  <2> QED
    BY <1>b, <2>2, <2>3
<1>14. Grants' = {m \in Grants : m.channel # c}
  BY <1>b, <1>4, <1>12, <1>13 DEF Grants
<1>15. \A m \in Grants' : m \in Grants /\ m.channel \in Clients \ {c} /\ req'[m.channel] = req[m.channel]
  BY <1>b, <1>4, <1>12, <1>14 DEF Grants
<1>16. UNCHANGED <<fdTable, nextFd, openFile, batch>>
  BY <1>b
<1>17. ASSUME Ownership, ~ (req[c].op = "Open" /\ resp.status = "ok") PROVE Ownership'
  <2>1. handles' = handles
    BY <1>b, <1>7, <1>17
  <2> QED
    BY <1>b, <1>15, <1>16, <1>17, <2>1, OwnershipKept
<1>18. ASSUME Ownership, req[c].op = "Open", resp.status = "ok" PROVE Ownership'
  <2> DEFINE m0 == [channel |-> c, resp |-> resp]
  <2>1. m0 \in Grants /\ m0.channel = c /\ m0.resp = resp
    <3>1. m0 \in Mail
      BY <1>b, <1>5 DEF Mail, resp
    <3> QED
      BY <1>b, <1>18, <3>1 DEF Grants
  <2> HIDE DEF m0
  <2>2. /\ resp.fd \in DOMAIN fdTable
        /\ openFile[fdTable[resp.fd]] = req[c].path
        /\ \A d \in Clients : resp.fd \notin DOMAIN handles[d]
        /\ \A m \in Grants : m.resp.fd = resp.fd => m.channel = c
    BY <1>b, <1>18, <2>1 DEF Ownership
  <2>3. resp.fd \in 1 .. nextFd - 1
    <3>1. fdTable \in Tables(1 .. nextFd - 1, RealFds)
      BY <1>b, <1>0 DEF TypeOK
    <3> QED
      BY <1>b, <2>2, <3>1, TablesFacts
  <2>4. /\ DOMAIN handles'[c] = DOMAIN handles[c] \cup {resp.fd}
        /\ handles'[c][resp.fd] = req[c].path
        /\ \A v \in DOMAIN handles[c] : v # resp.fd => handles'[c][v] = handles[c][v]
        /\ \A d \in Clients : d # c => handles'[d] = handles[d]
    BY <1>b, <1>7, <1>18
  <2>5. \A d \in Clients : DOMAIN handles'[d] \subseteq 1 .. nextFd' - 1
    BY <1>b, <1>16, <1>18, <2>3, <2>4 DEF Ownership
  <2>6. \A d, e \in Clients : d # e => DOMAIN handles'[d] \cap DOMAIN handles'[e] = {}
    <3>1. \A d \in Clients : d # c => DOMAIN handles'[c] \cap DOMAIN handles[d] = {}
      BY <1>b, <1>18, <2>2, <2>4 DEF Ownership
    <3> QED
      BY <1>b, <1>18, <2>4, <3>1 DEF Ownership
  <2>7. \A m \in Grants' :
          /\ m.resp.fd \in DOMAIN fdTable'
          /\ openFile'[fdTable'[m.resp.fd]] = req'[m.channel].path
          /\ \A d \in Clients : m.resp.fd \notin DOMAIN handles'[d]
    <3> SUFFICES ASSUME NEW m \in Grants'
                 PROVE  /\ m.resp.fd \in DOMAIN fdTable
                        /\ openFile[fdTable[m.resp.fd]] = req'[m.channel].path
                        /\ \A d \in Clients : m.resp.fd \notin DOMAIN handles'[d]
      BY <1>b, <1>16
    <3>1. /\ m \in Grants /\ m.channel # c /\ req'[m.channel] = req[m.channel]
          /\ m.resp.fd # resp.fd
      BY <1>b, <1>15, <2>2
    <3>2. /\ m.resp.fd \in DOMAIN fdTable
          /\ openFile[fdTable[m.resp.fd]] = req[m.channel].path
          /\ \A d \in Clients : m.resp.fd \notin DOMAIN handles[d]
      BY <1>b, <1>18, <3>1 DEF Ownership
    <3> QED
      BY <1>b, <2>4, <3>1, <3>2
  <2>8. \A m, n \in Grants' : m.resp.fd = n.resp.fd => m.channel = n.channel
    BY <1>b, <1>15, <1>18 DEF Ownership
  <2>9. \A d \in Clients : \A v \in DOMAIN handles'[d] :
          v \in DOMAIN fdTable' => openFile'[fdTable'[v]] = handles'[d][v]
    <3> SUFFICES ASSUME NEW d \in Clients, NEW v \in DOMAIN handles'[d], v \in DOMAIN fdTable
                 PROVE  openFile[fdTable[v]] = handles'[d][v]
      BY <1>b, <1>16
    <3>1. CASE d = c /\ v = resp.fd
      BY <1>b, <2>2, <2>4, <3>1
    <3>2. CASE ~ (d = c /\ v = resp.fd)
      <4>1. v \in DOMAIN handles[d] /\ handles'[d][v] = handles[d][v]
        BY <1>b, <2>4, <3>2
      <4> QED
        BY <1>b, <1>18, <4>1 DEF Ownership
    <3> QED
      BY <1>b, <3>1, <3>2
  <2>10. \A i \in DOMAIN batch' : /\ batch'[i].op.req.fd \in DOMAIN fdTable'
                                 /\ batch'[i].fd = fdTable'[batch'[i].op.req.fd]
    BY <1>b, <1>16, <1>18 DEF Ownership
  <2> QED
    BY <1>b, <2>5, <2>6, <2>7, <2>8, <2>9, <2>10 DEF Ownership
<1>19. StagesApart'
  BY <1>b, <1>5 DEF IInv, StagesApart
<1>20. OnTheWay'
  <2>1. crashes' = crashes
    BY <1>b
  <2>2. c \notin InRing(reqRing) /\ c \notin Owners(pending) /\ c \notin InRound
    BY <1>b, <1>5 DEF IInv, StagesApart
  <2> QED
    BY <1>b, <1>5, <2>1, <2>2 DEF IInv, OnTheWay, Engaged
<1> QED
  <2>1. crashes' = crashes
    BY <1>b
  <2> QED
    BY <1>b, <1>8, <1>9, <1>10, <1>11, <1>17, <1>18, <1>19, <1>20, <2>1 DEF IInv

(* The steps of the daemon: the calls of the clients stay as they are.     *)

CallsUnchanged == UNCHANGED <<clientVars, crashes>>

(* A step that moves things from queue to queue and leaves the descriptors *)
(* alone.                                                                  *)
LEMMA MoveInvariant ==
  ASSUME IInv, CallsUnchanged, UNCHANGED <<fdTable, nextFd, openFile>>,
         TypeOK', Holds', QueuesApart', StagesApart', Phases',
         Engaged' = Engaged, Grants' \subseteq Grants,
         \A i \in DOMAIN batch' :
           \/ \E j \in DOMAIN batch :
                batch'[i].op = batch[j].op /\ batch'[i].fd = batch[j].fd
           \/ /\ batch'[i].op.req.fd \in DOMAIN fdTable
              /\ batch'[i].fd = fdTable[batch'[i].op.req.fd]
  PROVE  IInv'
<1>1. UNCHANGED <<pc, req, handles, crashes>>
  BY DEF CallsUnchanged, clientVars
<1>2. Waiting' = Waiting
  BY <1>1 DEF Waiting
<1>3. RequestsFormed'
  BY <1>1 DEF IInv, RequestsFormed
<1>4. OnTheWay'
  BY <1>1, <1>2 DEF IInv, OnTheWay
<1>5. TableExact'
  BY DEF IInv, TableExact
<1>6. Ownership => Ownership'
  <2> SUFFICES ASSUME Ownership PROVE Ownership'
    OBVIOUS
  <2>1. \A i \in DOMAIN batch' : /\ batch'[i].op.req.fd \in DOMAIN fdTable
                                /\ batch'[i].fd = fdTable[batch'[i].op.req.fd]
    BY DEF Ownership
  <2> QED
    BY <1>1, <2>1 DEF Ownership
<1> QED
  BY <1>1, <1>3, <1>4, <1>5, <1>6 DEF IInv

(* A step that only goes on to another phase, or clears the flag.          *)
LEMMA StillInvariant ==
  ASSUME IInv, CallsUnchanged, UNCHANGED <<sharedVars, roundVars, fdVars, storageVars>>,
         svc' \in {"round", "poll", "stopped", "down"}, channel' \in 1 .. NumClients + 1,
         Phases'
  PROVE  IInv'
<1> USE DEF CallsUnchanged, sharedVars, clientVars, roundVars, fdVars, storageVars
<1>1. TypeOK'
  BY DEF IInv, TypeOK
<1>2. Holds'
  BY DEF IInv, Holds, Answers, Tag
<1>3. /\ Prepared' = Prepared /\ Mail' = Mail
      /\ InRing(reqRing)' = InRing(reqRing) /\ InRing(respRing)' = InRing(respRing)
      /\ Owners(pending)' = Owners(pending) /\ InRound' = InRound
      /\ Owners(ops)' = Owners(ops) /\ Owners(Prepared)' = Owners(Prepared)
      /\ Owners(outbox)' = Owners(outbox)
  BY DEF Prepared, Mail, InRing, InRound
<1>4. QueuesApart' /\ StagesApart'
  BY <1>3 DEF IInv, QueuesApart, StagesApart
<1>5. Engaged' = Engaged /\ Grants' \subseteq Grants
  BY <1>3 DEF Engaged, Grants
<1>6. UNCHANGED <<fdTable, nextFd, openFile, batch>>
  OBVIOUS
<1> QED
  BY <1>1, <1>2, <1>4, <1>5, <1>6, MoveInvariant

(* The steps between the phases of the loop keep the invariant: the stages *)
(* they leave are empty.                                                   *)
LEMMA PhaseInvariant ==
  ASSUME IInv, CallsUnchanged, StartPolling \/ PollEmpty \/ Stop \/ Signal \/ Restart
  PROVE  IInv'
<1>1. /\ UNCHANGED <<sharedVars, roundVars, fdVars, storageVars>>
      /\ svc' \in {"round", "poll", "stopped", "down"}
  <2>1. TypeOK
    BY DEF IInv
  <2> QED
    BY <2>1 DEF StartPolling, PollEmpty, Stop, Signal, Restart, TypeOK
<1>2. channel' \in 1 .. NumClients + 1
  <2>1. channel \in 1 .. NumClients + 1 /\ NumClients \in Nat
    BY ProtocolAssumption DEF IInv, TypeOK
  <2> QED
    BY <2>1, ProtocolAssumption DEF StartPolling, PollEmpty, Stop, Signal, Restart, Clients
<1>3. Phases'
  <2>1. Phases /\ UNCHANGED <<pending, ops, batch, outbox, fdTable, nextFd>>
    BY <1>1 DEF IInv, roundVars, fdVars
  <2> QED
    BY <2>1 DEF Phases, StartPolling, PollEmpty, Stop, Signal, Restart, RoundDone
<1> QED
  BY <1>1, <1>2, <1>3, StillInvariant

(* The daemon taking a request off a ring keeps the invariant.             *)
LEMMA PollInvariant ==
  ASSUME IInv, CallsUnchanged, PollRequest
  PROVE  IInv'
<1> DEFINE c == channel
           t == Tag(c)
<1>0. TypeOK /\ c \in Clients /\ reqRing[c] # <<>>
  BY DEF IInv, PollRequest
<1>1. reqRing[c] = <<req[c]>> /\ req[c] \in Request
  BY <1>0 DEF IInv, Holds, TypeOK
<1>2. /\ UNCHANGED <<fdTable, nextFd, openFile, files, durable, svc, channel, ops, batch>>
      /\ UNCHANGED <<outbox, respRing, region, pc, req, nextId, allocated, handles, got, crashes>>
  BY DEF PollRequest, CallsUnchanged, clientVars, fdVars, storageVars
<1>3. /\ reqRing' = [reqRing EXCEPT ![c] = <<>>]
      /\ pending' = Append(pending, t)
  <2>1. Tail(reqRing[c]) = <<>> /\ Head(reqRing[c]) = req[c]
    BY <1>1
  <2>2. reqRing' = [reqRing EXCEPT ![c] = Tail(reqRing[c])]
        /\ pending' = Append(pending, Tagged(Head(reqRing[c]), c))
    BY DEF PollRequest
  <2> QED
    BY <2>1, <2>2, Zenon DEF Tag
<1>4. /\ reqRing' \in [Clients -> Seq(Request)] /\ reqRing'[c] = <<>>
      /\ \A d \in Clients : d # c => reqRing'[d] = reqRing[d]
  <2>1. <<>> \in Seq(Request)
    OBVIOUS
  <2> QED
    BY <1>0, <1>3, <2>1 DEF TypeOK
<1>5. t \in TaggedRequest /\ t.channel = c
  BY <1>0, <1>1 DEF TaggedRequest, Tag, Tagged
<1> HIDE DEF t
<1>6. c \in InRing(reqRing) /\ c \notin Owners(pending)
  BY <1>0 DEF InRing, IInv, StagesApart
<1>7. pending \in Seq(TaggedRequest)
  BY <1>0 DEF TypeOK
<1>8. /\ pending' \in Seq(TaggedRequest) /\ Apart(pending)'
      /\ Owners(pending)' = Owners(pending) \cup {c}
      /\ \A i \in DOMAIN pending' : \/ i \in DOMAIN pending /\ pending'[i] = pending[i]
                                    \/ pending'[i] = t
  <2>1. Apart(pending)
    BY DEF IInv, QueuesApart
  <2>2. /\ Append(pending, t) \in Seq(TaggedRequest)
        /\ Owners(Append(pending, t)) = Owners(pending) \cup {c}
        /\ Apart(Append(pending, t))
        /\ \A i \in DOMAIN Append(pending, t) :
             \/ i \in DOMAIN pending /\ Append(pending, t)[i] = pending[i]
             \/ Append(pending, t)[i] = t
    BY <1>5, <1>6, <1>7, <2>1, AppendFacts
  <2> QED
    BY <1>3, <2>2
<1>9. TypeOK'
  BY <1>0, <1>2, <1>4, <1>8 DEF TypeOK
<1>10. Holds'
  <2>1. (\A i \in DOMAIN pending : pending[i] = Tag(pending[i].channel))'
    BY <1>2, <1>5, <1>8 DEF IInv, Holds, Tag, t
  <2>2. (\A d \in Clients : reqRing[d] \in {<<>>, <<req[d]>>})'
    BY <1>2, <1>4 DEF IInv, Holds
  <2> QED
    BY <1>2, <2>1, <2>2 DEF IInv, Holds, Answers, Tag
<1>11. /\ InRing(reqRing)' = InRing(reqRing) \ {c}
       /\ InRing(respRing)' = InRing(respRing) /\ Prepared' = Prepared
       /\ InRound' = InRound /\ Mail' = Mail /\ Apart(ops)' = Apart(ops)
       /\ Apart(Prepared)' = Apart(Prepared) /\ Apart(outbox)' = Apart(outbox)
       /\ Owners(ops)' = Owners(ops) /\ Owners(Prepared)' = Owners(Prepared)
       /\ Owners(outbox)' = Owners(outbox)
  BY <1>2, <1>4 DEF InRing, Prepared, InRound, Mail
<1>12. QueuesApart'
  BY <1>8, <1>11 DEF IInv, QueuesApart
<1>13. StagesApart' /\ Engaged' = Engaged
  BY <1>6, <1>8, <1>11 DEF IInv, StagesApart, Engaged
<1>14. Phases'
  BY <1>2 DEF IInv, Phases, PollRequest
<1>15. Grants' = Grants
  BY <1>2, <1>11 DEF Grants
<1> QED
  BY <1>2, <1>9, <1>10, <1>12, <1>13, <1>14, <1>15, MoveInvariant

(* The drain of the scheduler keeps the invariant: what it hands over      *)
(* lists what was pending, one operation per client.                       *)
LEMMA DrainInvariant ==
  ASSUME IInv, CallsUnchanged, Drain
  PROVE  IInv'
<1> DEFINE T == {Tag(d) : d \in Owners(pending)}
           X == {Single(pending[i]) : i \in DOMAIN pending}
<1>0. TypeOK /\ pending \in Seq(TaggedRequest) /\ svc = "poll"
  BY DEF IInv, TypeOK, Drain
<1>1. /\ UNCHANGED <<fdTable, nextFd, openFile, files, durable, channel, reqRing, batch>>
      /\ UNCHANGED <<outbox, respRing, region, pc, req, nextId, allocated, handles>>
      /\ UNCHANGED <<got, crashes>>
      /\ ops' = DrainedOps /\ pending' = <<>> /\ svc' = "round"
  BY DEF Drain, CallsUnchanged, clientVars, fdVars, storageVars, sharedVars
<1>2. /\ \A i \in DOMAIN pending : /\ pending[i] = Tag(pending[i].channel)
                                   /\ pending[i].channel \in Owners(pending)
      /\ Owners(pending) \subseteq Clients /\ Apart(pending)
  BY <1>0, ElementTypes, ElementOwners DEF IInv, Holds, QueuesApart, Owners
<1>3. ops = <<>> /\ batch = <<>> /\ outbox = <<>>
  BY <1>0 DEF IInv, Phases
<1>4. /\ \A t \in T : /\ t \in TaggedRequest /\ t.channel \in Owners(pending)
                      /\ t = Tag(t.channel)
      /\ DistinctChannels(T)
  BY <1>0, <1>2 DEF TypeOK, Tag, Tagged, TaggedRequest, DistinctChannels
<1>5. \A i \in DOMAIN pending : pending[i] \in T
  BY <1>2
<1>6. pending \in Seq(T)
  <2>1. Len(pending) \in Nat /\ DOMAIN pending = 1 .. Len(pending)
        /\ pending \in [DOMAIN pending -> TaggedRequest]
    BY <1>0
  <2>2. pending \in [1 .. Len(pending) -> T]
    BY <1>5, <2>1
  <2> QED
    BY <2>1, <2>2
<1>7. \A i, j \in DOMAIN pending : pending[i] = pending[j] => i = j
  BY <1>2 DEF Apart
<1>8. Lists(ops', X)
  <2>1. CASE pipeline = "Batched"
    <3>1. \A t \in T : t.req \in Request /\ t.channel \in Clients
      BY <1>4 DEF TaggedRequest
    <3>2. \A t \in T : t.channel \in Nat /\ t.req.fd \in Nat /\ t.req.offset \in Nat
                       /\ t.req.priority \in Queues
      BY <3>1, ProtocolAssumption DEF Request, Clients, Queues
    <3>3. Sortable(T)
      BY <3>2 DEF Sortable
    <3>4. Lists(BatchedDrain(pending), X)
      BY <1>4, <1>6, <1>7, <3>2, <3>3, BatchedDrainLists
    <3> QED
      BY <1>1, <2>1, <3>4 DEF DrainedOps
  <2>2. CASE pipeline # "Batched"
    <3>1. Lists(pending, {pending[i] : i \in DOMAIN pending})
      <4>1. Len(pending) \in Nat /\ DOMAIN pending = 1 .. Len(pending)
        BY <1>0
      <4>2. pending \in Seq({pending[i] : i \in DOMAIN pending})
        BY <1>0, <4>1
      <4> QED
        BY <1>7, <4>1, <4>2 DEF Lists
    <3>2. DistinctChannels({pending[i] : i \in DOMAIN pending})
      BY <1>2 DEF DistinctChannels
    <3>3. Lists(PassThroughDrain(pending), {Single(t) : t \in {pending[i] : i \in DOMAIN pending}})
      BY <3>1, <3>2, SinglesList
    <3>4. {Single(t) : t \in {pending[i] : i \in DOMAIN pending}} = X
      OBVIOUS
    <3> QED
      BY <1>1, <2>2, <3>3, <3>4 DEF DrainedOps
  <2> QED
    BY <2>1, <2>2
<1>9. \A x \in X : /\ x.channel \in Owners(pending) /\ x.channel \in Clients
                   /\ x = Single(Tag(x.channel)) /\ x \in Operation
  <2> SUFFICES ASSUME NEW i \in DOMAIN pending
               PROVE  LET x == Single(pending[i])
                      IN  /\ x.channel \in Owners(pending) /\ x.channel \in Clients
                          /\ x = Single(Tag(x.channel)) /\ x \in Operation
    OBVIOUS
  <2>1. Single(pending[i]).channel = pending[i].channel
    BY DEF Single
  <2>2. Single(pending[i]) \in Operation
    <3>1. pending[i].req \in Request /\ pending[i].channel \in Clients
      BY <1>0, ElementTypes DEF TaggedRequest
    <3>2. pending[i].req.id \in Nat /\ pending[i].req.len \in Nat
      BY <3>1 DEF Request
    <3>3. <<[id |-> pending[i].req.id, within |-> 0, len |-> pending[i].req.len]>>
            \in Seq([id : Nat, within : Nat, len : Nat])
      BY <3>2
    <3> QED
      BY <3>1, <3>3 DEF Single, Operation
  <2> QED
    BY <1>2, <2>1, <2>2
<1> HIDE DEF X, T
<1>10. /\ \A i \in DOMAIN ops' : ops'[i] \in X
       /\ ops' \in Seq(Operation)
       /\ Apart(ops)'
  <2>1. ops' \in Seq(X) /\ DOMAIN ops' = 1 .. Len(ops')
    BY <1>8 DEF Lists
  <2>2. \A i \in DOMAIN ops' : ops'[i] \in X
    BY <2>1
  <2>3. ops' \in Seq(Operation)
    BY <1>9, <2>1
  <2>4. \A i, j \in DOMAIN ops' : ops'[i].channel = ops'[j].channel => ops'[i] = ops'[j]
    BY <1>9, <2>2
  <2>5. \A i, j \in DOMAIN ops' : ops'[i] = ops'[j] => i = j
    BY <1>8, <2>1 DEF Lists
  <2> QED
    BY <2>2, <2>3, <2>4, <2>5 DEF Apart
<1>11. Owners(ops)' = Owners(pending)
  <2>1. \A d \in Owners(ops)' : d \in Owners(pending)
    BY <1>9, <1>10 DEF Owners
  <2>2. ASSUME NEW d \in Owners(pending) PROVE d \in Owners(ops)'
    <3>1. PICK i \in DOMAIN pending : pending[i].channel = d
      BY DEF Owners
    <3>2. Single(pending[i]) \in X /\ Single(pending[i]).channel = d
      BY <3>1 DEF X, Single
    <3>3. PICK k \in 1 .. Len(ops') : ops'[k] = Single(pending[i])
      BY <1>8, <3>2 DEF Lists
    <3>4. k \in DOMAIN ops'
      BY <1>10, <3>3
    <3> QED
      BY <3>2, <3>3, <3>4 DEF Owners
  <2> QED
    BY <2>1, <2>2
<1>12. TypeOK'
  <2>1. <<>> \in Seq(TaggedRequest)
    OBVIOUS
  <2> QED
    BY <1>0, <1>1, <1>10, <2>1 DEF TypeOK
<1>13. Holds'
  <2>1. (\A i \in DOMAIN ops : ops[i] = Single(Tag(ops[i].channel)))'
    BY <1>1, <1>9, <1>10 DEF Tag
  <2>2. (\A i \in DOMAIN pending : pending[i] = Tag(pending[i].channel))'
    BY <1>1
  <2> QED
    BY <1>1, <2>1, <2>2 DEF IInv, Holds, Answers, Tag
<1>14. /\ InRing(reqRing)' = InRing(reqRing) /\ InRing(respRing)' = InRing(respRing)
       /\ Prepared' = Prepared /\ Mail' = Mail /\ Prepared = <<>>
       /\ Owners(Prepared) = {} /\ Owners(Prepared)' = {}
       /\ Owners(outbox)' = {} /\ Owners(outbox) = {} /\ Owners(ops) = {}
       /\ Owners(pending)' = {} /\ Apart(pending)' /\ Apart(outbox)' /\ Apart(Prepared)'
  <2>1. Prepared = <<>>
    BY <1>3 DEF Prepared
  <2> QED
    BY <1>1, <1>3, <2>1, EmptyQueue DEF InRing, Prepared, Mail
<1>15. QueuesApart'
  BY <1>10, <1>14 DEF QueuesApart
<1>16. StagesApart' /\ Engaged' = Engaged
  <2>1. InRound = {} /\ InRound' = Owners(pending)
    BY <1>11, <1>14 DEF InRound
  <2> QED
    BY <1>11, <1>14, <2>1 DEF IInv, StagesApart, Engaged
<1>17. Phases'
  BY <1>1 DEF Phases
<1>18. Grants' = Grants
  BY <1>1, <1>14 DEF Grants
<1> QED
  BY <1>1, <1>12, <1>13, <1>15, <1>16, <1>17, <1>18, MoveInvariant

\* The call that is being served: c waits, and its operation is its request.
LEMMA ServedCall ==
  ASSUME IInv, NEW c \in Clients, c \in Engaged
  PROVE  /\ pc[c] = "wait" /\ req[c] \in Request /\ req[c].id \in Nat
         /\ req[c].op # "None"
         /\ req[c].op = "Open" => req[c].path \in Paths
         /\ req[c].op # "Open" => req[c].fd \in DOMAIN handles[c]
         /\ req[c].op \in {"Read", "Write"} =>
              req[c].len = IoLen /\ req[c].data_offset + IoLen <= RegionSize
<1>1. pc[c] = "wait"
  BY DEF IInv, OnTheWay, Waiting
<1>2. req[c] \in Request
  BY DEF IInv, TypeOK
<1>3. req[c].id \in Nat
  BY <1>2 DEF Request
<1> QED
  BY <1>1, <1>2, <1>3 DEF IInv, RequestsFormed

(* An operation is taken from the round and answered at once.              *)
LEMMA AnswerFacts ==
  ASSUME IInv, CallsUnchanged, ops # <<>>, outbox = <<>>, NEW r \in Response,
         r.id = req[Head(ops).channel].id,
         req[Head(ops).channel].op = "Open" /\ r.status = "ok" => r.fd \in VirtualFds,
         req[Head(ops).channel].op = "Read" => r.data_offset + r.data_len <= RegionSize,
         ops' = Tail(ops),
         outbox' = <<[channel |-> Head(ops).channel, resp |-> r]>>,
         UNCHANGED <<reqRing, respRing, pending, batch>>
  PROVE  /\ ops' \in Seq(Operation) /\ outbox' \in Seq(Addressed)
         /\ Holds' /\ QueuesApart' /\ StagesApart' /\ Engaged' = Engaged
         /\ Mail' = Mail \cup {[channel |-> Head(ops).channel, resp |-> r]}
<1> DEFINE c == Head(ops).channel
           m == [channel |-> c, resp |-> r]
<1>1. /\ ops \in Seq(Operation) /\ Apart(ops) /\ UNCHANGED <<pc, req>>
  BY DEF IInv, TypeOK, QueuesApart, CallsUnchanged, clientVars
<1>2. /\ ops' \in Seq(Operation) /\ c \in Owners(ops) /\ Head(ops) = ops[1] /\ 1 \in DOMAIN ops
      /\ Owners(ops)' = Owners(ops) \ {c} /\ Apart(ops)'
      /\ \A i \in DOMAIN ops' : i + 1 \in DOMAIN ops /\ ops'[i] = ops[i + 1]
  <2>1. /\ Tail(ops) \in Seq(Operation) /\ c \in Owners(ops) /\ Head(ops) = ops[1]
        /\ 1 \in DOMAIN ops
        /\ Owners(Tail(ops)) = Owners(ops) \ {c} /\ Apart(Tail(ops))
        /\ \A i \in DOMAIN Tail(ops) : i + 1 \in DOMAIN ops /\ Tail(ops)[i] = ops[i + 1]
    BY <1>1, TailFacts
  <2> QED
    BY <2>1
<1>3. c \in Clients
  BY <1>2, ElementTypes DEF IInv
<1> HIDE DEF c
<1>4. m \in Addressed
  BY <1>3 DEF Addressed
<1>5. outbox' = <<m>>
  BY DEF c
<1>6. /\ outbox' \in Seq(Addressed) /\ DOMAIN outbox' = {1} /\ outbox'[1] = m
  BY <1>4, <1>5
<1>7. Holds'
  <2>1. (\A i \in DOMAIN ops : ops[i] = Single(Tag(ops[i].channel)))'
    BY <1>1, <1>2 DEF IInv, Holds, Tag
  <2>2. (\A i \in DOMAIN outbox : Answers(outbox[i].channel, outbox[i].resp))'
    BY <1>1, <1>6 DEF Answers, c
  <2> QED
    BY <1>1, <2>1, <2>2 DEF IInv, Holds, Answers, Tag
<1>8. /\ Owners(outbox)' = {c} /\ Apart(outbox)' /\ Owners(outbox) = {}
  BY <1>6, EmptyQueue DEF Owners, Apart
<1>9. /\ InRing(reqRing)' = InRing(reqRing) /\ InRing(respRing)' = InRing(respRing)
      /\ Prepared' = Prepared /\ Owners(Prepared)' = Owners(Prepared)
      /\ Owners(pending)' = Owners(pending)
      /\ Apart(pending)' = Apart(pending) /\ Apart(Prepared)' = Apart(Prepared)
  BY DEF InRing, Prepared
<1>10. Mail' = Mail \cup {m}
  BY <1>6 DEF Mail, InRing
<1>11. QueuesApart'
  BY <1>2, <1>8, <1>9 DEF IInv, QueuesApart
<1>12. InRound' = InRound
  BY <1>2, <1>8, <1>9 DEF InRound
<1>13. StagesApart' /\ Engaged' = Engaged
  BY <1>2, <1>8, <1>9, <1>12 DEF IInv, StagesApart, Engaged
<1> QED
  BY <1>2, <1>6, <1>7, <1>10, <1>11, <1>13 DEF c

\* The operation the daemon takes next.
LEMMA TakenOp ==
  ASSUME IInv, NEW kinds, TakeOp(kinds)
  PROVE  LET op == Head(ops)
         IN  /\ op \in Operation /\ op.channel \in Clients /\ op.channel \in Engaged
             /\ op = Single(Tag(op.channel)) /\ op.req = req[op.channel]
             /\ op.req.op \in kinds
             /\ op.sources = <<[id |-> op.req.id, within |-> 0, len |-> op.req.len]>>
             /\ svc = "round" /\ outbox = <<>> /\ ops # <<>> /\ ops' = Tail(ops)
<1> DEFINE op == Head(ops)
<1>1. ops \in Seq(Operation) /\ ops # <<>>
  BY DEF IInv, TypeOK, TakeOp
<1>2. op = ops[1] /\ 1 \in DOMAIN ops /\ op \in Operation /\ op.channel \in Owners(ops)
  BY <1>1, TailFacts
<1>3. op = Single(Tag(op.channel))
  BY <1>2 DEF IInv, Holds
<1>4. op.channel \in Clients /\ op.channel \in Engaged
  BY <1>2 DEF Operation, Engaged, InRound
<1> HIDE DEF op
<1>5. op.req = req[op.channel]
  BY <1>3 DEF Single, Tag, Tagged
<1>6. op.sources = <<[id |-> op.req.id, within |-> 0, len |-> op.req.len]>>
  BY <1>3, <1>5 DEF Single, Tag, Tagged
<1> QED
  BY <1>2, <1>3, <1>4, <1>5, <1>6 DEF TakeOp, op

(* The next number gets an entry.                                          *)
LEMMA NextEntry ==
  ASSUME NEW n \in Nat, n > 0, NEW S, NEW f \in Tables(1 .. n - 1, S), NEW v \in S
  PROVE  /\ Extended(f, n, v) \in Tables(1 .. n, S)
         /\ DOMAIN f \subseteq 1 .. n - 1 /\ n \notin DOMAIN f
<1>1. f \in [DOMAIN f -> S] /\ DOMAIN f \subseteq 1 .. n - 1
  BY TablesFacts
<1>2. f \in [DOMAIN f -> S] /\ DOMAIN f \subseteq 1 .. n
  BY <1>1
<1>3. f \in Tables(1 .. n, S)
  BY <1>2, TablesFacts
<1>4. n \in 1 .. n /\ n \notin DOMAIN f
  BY <1>1
<1> DEFINE D == 1 .. n
<1>5. f \in Tables(D, S) /\ n \in D
  BY <1>3, <1>4
<1> HIDE DEF D
<1>6. Extended(f, n, v) \in Tables(D, S)
  BY <1>5, ExtendedFacts
<1> QED
  BY <1>1, <1>4, <1>6 DEF D, Extended

(* Open: the lowest free descriptor under the next virtual fd.             *)
LEMMA OpenedInvariant ==
  ASSUME IInv, CallsUnchanged, TakeOp({"Open"}), FreeFds # {}, nextFd <= MaxFd,
         openFile' = [openFile EXCEPT ![LowestFree] = Head(ops).req.path],
         fdTable' = Extended(fdTable, FreshFd, LowestFree),
         nextFd' = nextFd + 1,
         outbox' = <<Reply(Head(ops), ResponseFd(Head(ops).req.id, FreshFd))>>,
         UNCHANGED <<svc, channel, pending, batch, sharedVars, files, durable>>
  PROVE  IInv'
<1> DEFINE op == Head(ops)
           c == op.channel
           d == LowestFree
           r == ResponseFd(op.req.id, nextFd)
           m == [channel |-> c, resp |-> r]
<1>0. TypeOK /\ UNCHANGED <<pc, req, nextId, allocated, handles, got, crashes>>
      /\ UNCHANGED <<reqRing, respRing, region>>
  BY DEF IInv, CallsUnchanged, clientVars, sharedVars
<1>1. /\ c \in Clients /\ c \in Engaged /\ op.req = req[c] /\ req[c].op = "Open"
      /\ svc = "round" /\ outbox = <<>> /\ ops # <<>> /\ ops' = Tail(ops)
  BY TakenOp
<1>2. req[c].path \in Paths /\ req[c].id \in Nat
  BY <1>1, ServedCall
<1>3. nextFd \in 1 .. MaxFd /\ nextFd \in Nat /\ fdTable \in Tables(1 .. nextFd - 1, RealFds)
  BY <1>0, ServiceAssumption DEF TypeOK
<1>4. d \in RealFds /\ openFile[d] = NoPath
  <2>1. FreeFds \subseteq Nat
    BY StorageAssumption DEF FreeFds
  <2>2. d \in FreeFds
    BY <2>1, MinFacts DEF LowestFree
  <2> QED
    BY <2>2 DEF FreeFds
<1> HIDE DEF op, c, d, r, m
<1>5. /\ r \in Response /\ r.id = req[c].id /\ r.status = "ok" /\ r.fd = nextFd
      /\ r.fd \in VirtualFds
  BY <1>1, <1>2, <1>3, ResponsesTyped DEF r, VirtualFds
<1>6. outbox' = <<m>>
  BY DEF op, c, r, m, FreshFd, Reply
<1>7. /\ ops' \in Seq(Operation) /\ outbox' \in Seq(Addressed)
      /\ Holds' /\ QueuesApart' /\ StagesApart' /\ Engaged' = Engaged
      /\ Mail' = Mail \cup {m}
  BY <1>0, <1>1, <1>5, <1>6, AnswerFacts DEF op, c, m
<1>8. /\ fdTable' \in Tables(1 .. nextFd' - 1, RealFds)
      /\ DOMAIN fdTable' = DOMAIN fdTable \cup {nextFd} /\ fdTable'[nextFd] = d
      /\ \A v \in DOMAIN fdTable : v # nextFd /\ fdTable'[v] = fdTable[v]
      /\ nextFd' = nextFd + 1 /\ nextFd' \in 1 .. MaxFd + 1
      /\ DOMAIN fdTable \subseteq 1 .. nextFd - 1
  <2>1. fdTable' = Extended(fdTable, nextFd, d) /\ nextFd' = nextFd + 1
    BY DEF FreshFd, d
  <2>2. nextFd + 1 \in 1 .. MaxFd + 1 /\ nextFd + 1 - 1 = nextFd
    BY <1>3, ServiceAssumption
  <2> QED
    <3>1. fdTable' \in Tables(1 .. nextFd, RealFds) /\ DOMAIN fdTable \subseteq 1 .. nextFd - 1
          /\ nextFd \notin DOMAIN fdTable
      BY <1>3, <1>4, <2>1, NextEntry
    <3>2. /\ DOMAIN fdTable' = DOMAIN fdTable \cup {nextFd} /\ fdTable'[nextFd] = d
          /\ \A v \in DOMAIN fdTable : v # nextFd => fdTable'[v] = fdTable[v]
      <4>1. fdTable' = [y \in DOMAIN fdTable \cup {nextFd} |-> IF y = nextFd THEN d ELSE fdTable[y]]
        BY <2>1, Zenon DEF Extended
      <4>2. DOMAIN fdTable' = DOMAIN fdTable \cup {nextFd}
        BY <4>1, Zenon
      <4>3. fdTable'[nextFd] = d
        BY <4>1
      <4>4. \A v \in DOMAIN fdTable : v # nextFd => fdTable'[v] = fdTable[v]
        BY <4>1
      <4> QED
        BY <4>2, <4>3, <4>4
    <3>3. nextFd' - 1 = nextFd /\ nextFd' \in 1 .. MaxFd + 1
      BY <1>3, <2>1, <2>2
    <3> QED
      BY <2>1, <3>1, <3>2, <3>3
<1>9. /\ openFile' \in [RealFds -> Paths \cup {NoPath}] /\ openFile'[d] = req[c].path
      /\ req[c].path # NoPath
      /\ \A e \in RealFds : e # d => openFile'[e] = openFile[e]
  <2>1. openFile' = [openFile EXCEPT ![d] = req[c].path]
    BY <1>1 DEF d, op
  <2> QED
    BY <1>0, <1>2, <1>4, <2>1, ProtocolAssumption DEF TypeOK
<1>10. \A v \in DOMAIN fdTable :
         /\ fdTable[v] \in RealFds /\ fdTable[v] # d
         /\ openFile'[fdTable'[v]] = openFile[fdTable[v]]
  <2>1. fdTable \in [DOMAIN fdTable -> RealFds]
    BY <1>3, TablesFacts
  <2>2. \A v \in DOMAIN fdTable : fdTable[v] \in RealFds /\ fdTable[v] # d
    BY <1>4, <2>1 DEF IInv, TableExact
  <2> QED
    BY <1>8, <1>9, <2>2
<1>11. TypeOK'
  BY <1>0, <1>7, <1>8, <1>9 DEF TypeOK
<1>12. RequestsFormed' /\ OnTheWay'
  BY <1>0, <1>7 DEF IInv, RequestsFormed, OnTheWay, Waiting
<1>13. Phases'
  BY <1>1 DEF IInv, Phases
<1>14. TableExact'
  <2>1. \A v, w \in DOMAIN fdTable' : fdTable'[v] = fdTable'[w] => v = w
    BY <1>8, <1>10 DEF IInv, TableExact
  <2>2. \A v \in DOMAIN fdTable' : openFile'[fdTable'[v]] # NoPath
    BY <1>8, <1>9, <1>10 DEF IInv, TableExact
  <2>3. ASSUME NEW e \in RealFds, openFile'[e] # NoPath
        PROVE  \E v \in DOMAIN fdTable' : fdTable'[v] = e
    <3>1. CASE e = d
      BY <1>8, <3>1
    <3>2. CASE e # d
      <4>1. openFile[e] # NoPath
        BY <1>9, <2>3, <3>2
      <4>2. PICK v \in DOMAIN fdTable : fdTable[v] = e
        BY <4>1 DEF IInv, TableExact
      <4> QED
        BY <1>8, <4>2
    <3> QED
      BY <3>1, <3>2
  <2> QED
    BY <2>1, <2>2, <2>3 DEF TableExact
<1>15. ASSUME Ownership PROVE Ownership'
  <2>1. \A n \in Grants' : n \in Grants \/ n = m
    BY <1>0, <1>7 DEF Grants
  <2>2. \A n \in Grants : /\ n.resp.fd \in DOMAIN fdTable /\ n.resp.fd # nextFd
                          /\ openFile[fdTable[n.resp.fd]] = req[n.channel].path
                          /\ \A e \in Clients : n.resp.fd \notin DOMAIN handles[e]
    BY <1>8, <1>15 DEF Ownership
  <2>3. m.channel = c /\ m.resp.fd = nextFd
    BY <1>5 DEF m
  <2>4. \A e \in Clients : DOMAIN handles[e] \subseteq 1 .. nextFd - 1
    BY <1>15 DEF Ownership
  <2>5. \A e \in Clients : /\ nextFd \notin DOMAIN handles[e]
                           /\ DOMAIN handles[e] \subseteq 1 .. nextFd' - 1
    BY <1>3, <1>8, <2>4
  <2>6. \A n \in Grants' :
          /\ n.resp.fd \in DOMAIN fdTable'
          /\ openFile'[fdTable'[n.resp.fd]] = req'[n.channel].path
          /\ \A e \in Clients : n.resp.fd \notin DOMAIN handles'[e]
    <3> SUFFICES ASSUME NEW n \in Grants'
                 PROVE  /\ n.resp.fd \in DOMAIN fdTable'
                        /\ openFile'[fdTable'[n.resp.fd]] = req[n.channel].path
                        /\ \A e \in Clients : n.resp.fd \notin DOMAIN handles[e]
      BY <1>0
    <3>1. CASE n \in Grants
      BY <1>8, <1>10, <2>2, <3>1
    <3>2. CASE n = m
      BY <1>8, <1>9, <2>3, <2>5, <3>2
    <3> QED
      BY <2>1, <3>1, <3>2
  <2>7. \A n, k \in Grants' : n.resp.fd = k.resp.fd => n.channel = k.channel
    <3>1. \A n, k \in Grants : n.resp.fd = k.resp.fd => n.channel = k.channel
      BY <1>15 DEF Ownership
    <3> QED
      BY <2>1, <2>2, <2>3, <3>1
  <2>8. \A e \in Clients : \A v \in DOMAIN handles'[e] :
          v \in DOMAIN fdTable' => openFile'[fdTable'[v]] = handles'[e][v]
    <3> SUFFICES ASSUME NEW e \in Clients, NEW v \in DOMAIN handles[e], v \in DOMAIN fdTable'
                 PROVE  openFile'[fdTable'[v]] = handles[e][v]
      BY <1>0
    <3>1. v \in DOMAIN fdTable
      BY <1>8, <2>5
    <3>2. openFile[fdTable[v]] = handles[e][v]
      BY <1>15, <3>1 DEF Ownership
    <3> QED
      BY <1>10, <3>1, <3>2
  <2>9. \A i \in DOMAIN batch' : /\ batch'[i].op.req.fd \in DOMAIN fdTable'
                                 /\ batch'[i].fd = fdTable'[batch'[i].op.req.fd]
    BY <1>8, <1>15 DEF Ownership
  <2>10. \A e, f \in Clients : e # f => DOMAIN handles'[e] \cap DOMAIN handles'[f] = {}
    BY <1>0, <1>15 DEF Ownership
  <2> QED
    BY <1>0, <2>5, <2>6, <2>7, <2>8, <2>9, <2>10 DEF Ownership
<1> QED
  BY <1>0, <1>7, <1>11, <1>12, <1>13, <1>14, <1>15 DEF IInv

(* An operation is taken from the round and refused.                       *)
LEMMA RefusedInvariant ==
  ASSUME IInv, CallsUnchanged, NEW kinds, TakeOp(kinds), NEW status \in Statuses \ {"ok"},
         outbox' = <<Reply(Head(ops), ResponseErr(Head(ops).req.id, status))>>,
         UNCHANGED <<svc, channel, pending, batch, sharedVars, fdVars, storageVars>>
  PROVE  IInv'
<1> DEFINE op == Head(ops)
           c == op.channel
           r == ResponseErr(op.req.id, status)
<1>1. /\ c \in Clients /\ c \in Engaged /\ op.req = req[c]
      /\ svc = "round" /\ outbox = <<>> /\ ops # <<>> /\ ops' = Tail(ops)
  BY TakenOp
<1>2. req[c].id \in Nat
  BY <1>1, ServedCall
<1> HIDE DEF op, c, r
<1>3. /\ r \in Response /\ r.id = req[c].id /\ r.status = status
      /\ r.data_offset + r.data_len <= RegionSize
  BY <1>1, <1>2, ResponsesTyped, ProtocolAssumption DEF r
<1>4. outbox' = <<[channel |-> c, resp |-> r]>>
  BY DEF op, c, r, Reply
<1>5. /\ UNCHANGED <<reqRing, respRing, region, pending, batch, svc, channel, files, durable>>
      /\ UNCHANGED <<fdTable, nextFd, openFile>>
  BY DEF sharedVars, fdVars, storageVars
<1>6. /\ ops' \in Seq(Operation) /\ outbox' \in Seq(Addressed)
      /\ Holds' /\ QueuesApart' /\ StagesApart' /\ Engaged' = Engaged
      /\ Mail' = Mail \cup {[channel |-> c, resp |-> r]}
  BY <1>1, <1>3, <1>4, <1>5, AnswerFacts DEF op, c
<1>7. UNCHANGED <<pc, req, nextId, allocated, handles, got, crashes>>
  BY DEF CallsUnchanged, clientVars
<1>8. TypeOK'
  BY <1>5, <1>6, <1>7 DEF IInv, TypeOK
<1>9. Phases'
  BY <1>1, <1>5 DEF IInv, Phases
<1>10. Grants' \subseteq Grants
  BY <1>3, <1>6, <1>7 DEF Grants
<1> QED
  BY <1>5, <1>6, <1>8, <1>9, <1>10, MoveInvariant

(* An open keeps the invariant: the descriptor it inserts was in no table, *)
(* no handle and no answer on its way.                                     *)
LEMMA HandleOpenInvariant ==
  ASSUME IInv, CallsUnchanged, HandleOpen
  PROVE  IInv'
<1> DEFINE op == Head(ops)
<1>1. /\ TakeOp({"Open"})
      /\ UNCHANGED <<svc, channel, pending, batch, sharedVars, files, durable>>
      /\ \/ /\ FreeFds # {} /\ nextFd <= MaxFd
            /\ openFile' = [openFile EXCEPT ![LowestFree] = op.req.path]
            /\ fdTable' = Extended(fdTable, FreshFd, LowestFree)
            /\ nextFd' = nextFd + 1
            /\ outbox' = <<Reply(op, ResponseFd(op.req.id, FreshFd))>>
         \/ /\ outbox' = <<Reply(op, ResponseErr(op.req.id, "EMFILE"))>>
            /\ UNCHANGED <<openFile, fdVars>>
  BY DEF HandleOpen
<1>2. "EMFILE" \in Statuses \ {"ok"}
  BY DEF Statuses
<1>3. UNCHANGED <<openFile, fdVars>> => UNCHANGED <<fdVars, storageVars>>
  BY <1>1 DEF storageVars
<1> QED
  BY <1>1, <1>2, <1>3, OpenedInvariant, RefusedInvariant

(* Close: the descriptor is closed and its virtual fd forgotten.  No       *)
(* prepared operation uses it: that one would be of the same client.       *)
LEMMA ClosedInvariant ==
  ASSUME IInv, CallsUnchanged, TakeOp({"Close"}),
         Head(ops).req.fd \in DOMAIN fdTable, ForgetFd(Head(ops).req.fd),
         NEW r \in Response, r.id = Head(ops).req.id,
         outbox' = <<[channel |-> Head(ops).channel, resp |-> r]>>,
         UNCHANGED <<svc, channel, pending, batch, nextFd, sharedVars, files, durable>>
  PROVE  IInv'
<1> DEFINE op == Head(ops)
           c == op.channel
           v == op.req.fd
           d == fdTable[v]
           m == [channel |-> c, resp |-> r]
<1>0. /\ TypeOK /\ UNCHANGED <<pc, req, nextId, allocated, handles, got, crashes>>
      /\ UNCHANGED <<reqRing, respRing, region>>
  BY DEF IInv, CallsUnchanged, clientVars, sharedVars
<1>1. /\ c \in Clients /\ c \in Engaged /\ op.req = req[c] /\ req[c].op = "Close"
      /\ svc = "round" /\ outbox = <<>> /\ ops # <<>> /\ ops' = Tail(ops)
      /\ c \in Owners(ops) /\ ops \in Seq(Operation)
  <2>1. ops \in Seq(Operation) /\ ops # <<>>
    BY <1>0 DEF TypeOK, TakeOp
  <2> QED
    BY <2>1, TakenOp, TailFacts
<1>2. v \in DOMAIN handles[c]
  BY <1>1, ServedCall
<1>3. fdTable \in [DOMAIN fdTable -> RealFds] /\ fdTable \in Tables(1 .. nextFd - 1, RealFds)
  BY <1>0, TablesFacts DEF TypeOK
<1>4. v \in DOMAIN fdTable /\ d \in RealFds
  BY <1>3
<1>5. /\ fdTable' = Restrict(fdTable, DOMAIN fdTable \ {v})
      /\ openFile' = [openFile EXCEPT ![d] = NoPath]
  BY DEF ForgetFd
<1>6. /\ ops' \in Seq(Operation) /\ outbox' \in Seq(Addressed)
      /\ Holds' /\ QueuesApart' /\ StagesApart' /\ Engaged' = Engaged
      /\ Mail' = Mail \cup {m}
  BY <1>0, <1>1, AnswerFacts
<1> HIDE DEF op, c, v, d, m
<1>7. /\ fdTable' \in Tables(1 .. nextFd' - 1, RealFds)
      /\ DOMAIN fdTable' = DOMAIN fdTable \ {v}
      /\ \A w \in DOMAIN fdTable' : fdTable'[w] = fdTable[w]
  <2>1. fdTable' = [w \in DOMAIN fdTable \ {v} |-> fdTable[w]]
    BY <1>5, Zenon DEF Restrict
  <2>2. DOMAIN fdTable \ {v} \subseteq DOMAIN fdTable
    OBVIOUS
  <2>3. Restrict(fdTable, DOMAIN fdTable \ {v}) \in Tables(1 .. nextFd - 1, RealFds)
    BY <1>3, <2>2, RestrictFacts
  <2> QED
    BY <1>5, <2>1, <2>3
<1>8. /\ openFile' \in [RealFds -> Paths \cup {NoPath}] /\ openFile'[d] = NoPath
      /\ \A e \in RealFds : e # d => openFile'[e] = openFile[e]
  BY <1>0, <1>4, <1>5 DEF TypeOK
<1>9. \A w \in DOMAIN fdTable' :
        /\ w \in DOMAIN fdTable /\ w # v /\ fdTable[w] \in RealFds /\ fdTable[w] # d
        /\ openFile'[fdTable'[w]] = openFile[fdTable[w]]
  <2>1. \A w \in DOMAIN fdTable : w # v => fdTable[w] \in RealFds /\ fdTable[w] # d
    BY <1>3, <1>4 DEF IInv, TableExact, d
  <2> QED
    BY <1>7, <1>8, <2>1
<1>10. TypeOK'
  BY <1>0, <1>6, <1>7, <1>8 DEF TypeOK
<1>11. RequestsFormed' /\ OnTheWay'
  BY <1>0, <1>6 DEF IInv, RequestsFormed, OnTheWay, Waiting
<1>12. Phases'
  BY <1>1 DEF IInv, Phases
<1>13. TableExact'
  <2>1. \A w, x \in DOMAIN fdTable' : fdTable'[w] = fdTable'[x] => w = x
    BY <1>7, <1>9 DEF IInv, TableExact
  <2>2. \A w \in DOMAIN fdTable' : openFile'[fdTable'[w]] # NoPath
    BY <1>9 DEF IInv, TableExact
  <2>3. ASSUME NEW e \in RealFds, openFile'[e] # NoPath
        PROVE  \E w \in DOMAIN fdTable' : fdTable'[w] = e
    <3>1. e # d /\ openFile[e] # NoPath
      BY <1>8, <2>3
    <3>2. PICK w \in DOMAIN fdTable : fdTable[w] = e
      BY <3>1 DEF IInv, TableExact
    <3> QED
      BY <1>7, <3>1, <3>2 DEF d
  <2> QED
    BY <2>1, <2>2, <2>3 DEF TableExact
<1>14. ASSUME Ownership PROVE Ownership'
  <2>1. Grants' \subseteq Grants
    BY <1>0, <1>1, <1>6 DEF Grants, m
  <2>2. \A n \in Grants' :
          /\ n.resp.fd \in DOMAIN fdTable'
          /\ openFile'[fdTable'[n.resp.fd]] = req'[n.channel].path
          /\ \A e \in Clients : n.resp.fd \notin DOMAIN handles'[e]
    <3> SUFFICES ASSUME NEW n \in Grants
                 PROVE  /\ n.resp.fd \in DOMAIN fdTable'
                        /\ openFile'[fdTable'[n.resp.fd]] = req[n.channel].path
                        /\ \A e \in Clients : n.resp.fd \notin DOMAIN handles[e]
      BY <1>0, <2>1
    <3>1. /\ n.resp.fd \in DOMAIN fdTable
          /\ openFile[fdTable[n.resp.fd]] = req[n.channel].path
          /\ \A e \in Clients : n.resp.fd \notin DOMAIN handles[e]
      BY <1>14 DEF Ownership
    <3>2. n.resp.fd \in DOMAIN fdTable'
      BY <1>1, <1>2, <1>7, <3>1
    <3> QED
      BY <1>9, <3>1, <3>2
  <2>3. \A n, k \in Grants' : n.resp.fd = k.resp.fd => n.channel = k.channel
    BY <1>14, <2>1 DEF Ownership
  <2>4. \A e \in Clients : \A w \in DOMAIN handles'[e] :
          w \in DOMAIN fdTable' => openFile'[fdTable'[w]] = handles'[e][w]
    <3> SUFFICES ASSUME NEW e \in Clients, NEW w \in DOMAIN handles[e], w \in DOMAIN fdTable'
                 PROVE  openFile'[fdTable'[w]] = handles[e][w]
      BY <1>0
    <3>1. openFile[fdTable[w]] = handles[e][w]
      BY <1>9, <1>14 DEF Ownership
    <3> QED
      BY <1>9, <3>1
  <2>5. \A i \in DOMAIN batch' : /\ batch'[i].op.req.fd \in DOMAIN fdTable'
                                 /\ batch'[i].fd = fdTable'[batch'[i].op.req.fd]
    <3> SUFFICES ASSUME NEW i \in DOMAIN batch
                 PROVE  /\ batch[i].op.req.fd \in DOMAIN fdTable'
                        /\ batch[i].fd = fdTable'[batch[i].op.req.fd]
      OBVIOUS
    <3> DEFINE e == batch[i].op.channel
               w == batch[i].op.req.fd
    <3>1. e \in Clients /\ e \in Owners(Prepared)
      BY <1>0, ElementTypes, ElementOwners
    <3>2. e # c /\ e \in Engaged
      BY <1>1, <3>1 DEF IInv, StagesApart, Engaged, InRound
    <3>3. batch[i].op.req = req[e] /\ req[e].op # "Open"
      <4>1. /\ batch[i].op = Single(Tag(e))
            /\ batch[i].op.req.op \in {"Read", "Write", "Sync"}
        BY DEF IInv, Holds
      <4> QED
        BY <4>1 DEF Single, Tag, Tagged
    <3>4. w \in DOMAIN handles[e]
      BY <3>1, <3>2, <3>3, ServedCall
    <3>5. w # v
      BY <1>1, <1>2, <1>14, <3>1, <3>2, <3>4 DEF Ownership
    <3>6. w \in DOMAIN fdTable /\ batch[i].fd = fdTable[w]
      BY <1>14 DEF Ownership
    <3> QED
      BY <1>7, <3>5, <3>6
  <2>6. /\ \A e \in Clients : DOMAIN handles'[e] \subseteq 1 .. nextFd' - 1
        /\ \A e, f \in Clients : e # f => DOMAIN handles'[e] \cap DOMAIN handles'[f] = {}
    BY <1>0, <1>14 DEF Ownership
  <2> QED
    BY <2>2, <2>3, <2>4, <2>5, <2>6 DEF Ownership
<1> QED
  BY <1>0, <1>6, <1>10, <1>11, <1>12, <1>13, <1>14 DEF IInv

(* A close keeps the invariant: the descriptor it removes was that         *)
(* client's.                                                               *)
LEMMA HandleCloseInvariant ==
  ASSUME IInv, CallsUnchanged, HandleClose
  PROVE  IInv'
<1> DEFINE op == Head(ops)
           Closed(r) == outbox' = <<[channel |-> op.channel, resp |-> r]>>
<1>0. /\ TakeOp({"Close"})
      /\ UNCHANGED <<svc, channel, pending, batch, nextFd, sharedVars, files, durable>>
  BY DEF HandleClose
<1>1. op.req.id \in Nat
  BY <1>0, TakenOp, ServedCall
<1>2. CASE op.req.fd \in DOMAIN fdTable
  <2>1. /\ ForgetFd(op.req.fd)
        /\ Closed(ResponseOk(op.req.id)) \/ Closed(ResponseErr(op.req.id, "EIO"))
    BY <1>2 DEF HandleClose, Reply
  <2>2. PICK r \in {ResponseOk(op.req.id), ResponseErr(op.req.id, "EIO")} : Closed(r)
    BY <2>1
  <2>3. r \in Response /\ r.id = op.req.id
    BY <1>1, ResponsesTyped DEF Statuses
  <2> QED
    BY <1>0, <1>2, <2>1, <2>2, <2>3, ClosedInvariant
<1>3. CASE op.req.fd \notin DOMAIN fdTable
  <2>1. outbox' = <<Reply(op, ResponseErr(op.req.id, "EBADF"))>>
        /\ UNCHANGED <<fdTable, openFile>>
    BY <1>3 DEF HandleClose
  <2>2. "EBADF" \in Statuses \ {"ok"}
    BY DEF Statuses
  <2>3. UNCHANGED <<fdVars, storageVars>>
    BY <1>0, <2>1 DEF fdVars, storageVars
  <2> QED
    BY <1>0, <2>1, <2>2, <2>3, RefusedInvariant
<1> QED
  BY <1>2, <1>3

(* A request is prepared with the descriptor its virtual fd stands for.    *)
LEMMA PreparedInvariant ==
  ASSUME IInv, CallsUnchanged, TakeOp({"Read", "Write", "Sync"}),
         Head(ops).req.fd \in DOMAIN fdTable,
         batch' = Append(batch, [op |-> Head(ops), fd |-> fdTable[Head(ops).req.fd],
                                 status |-> "todo", n |-> 0]),
         UNCHANGED <<svc, channel, pending, outbox, sharedVars, fdVars, storageVars>>
  PROVE  IInv'
<1> DEFINE op == Head(ops)
           c == op.channel
           b == [op |-> op, fd |-> fdTable[op.req.fd], status |-> "todo", n |-> 0]
<1>0. /\ TypeOK /\ UNCHANGED <<pc, req, nextId, allocated, handles, got, crashes>>
      /\ UNCHANGED <<reqRing, respRing, region, fdTable, nextFd, openFile, files, durable>>
  BY DEF IInv, CallsUnchanged, clientVars, sharedVars, fdVars, storageVars
<1>1. /\ c \in Clients /\ c \in Engaged /\ op \in Operation /\ op = Single(Tag(c))
      /\ op.req = req[c] /\ op.req.op \in {"Read", "Write", "Sync"}
      /\ svc = "round" /\ outbox = <<>> /\ ops # <<>> /\ ops' = Tail(ops)
  BY TakenOp
<1>2. /\ ops \in Seq(Operation) /\ Apart(ops) /\ batch \in Seq(BatchEntry) /\ Apart(Prepared)
  BY <1>0 DEF TypeOK, IInv, QueuesApart
<1>3. b \in BatchEntry /\ b.op = op /\ b.fd = fdTable[op.req.fd] /\ b.n <= b.op.req.len
  <2>1. fdTable \in Tables(1 .. nextFd - 1, RealFds)
    BY <1>0 DEF TypeOK
  <2>2. fdTable[op.req.fd] \in RealFds
    BY <2>1, TablesFacts
  <2>3. op.req.len \in Nat
    BY <1>1 DEF Operation, Request
  <2>4. b \in BatchEntry
    BY <1>1, <2>2 DEF BatchEntry
  <2> QED
    BY <2>3, <2>4
<1>4. batch' = Append(batch, b)
  OBVIOUS
<1> HIDE DEF b
<1>5. /\ c \in Owners(ops) /\ ops' \in Seq(Operation) /\ Apart(ops)'
      /\ Owners(ops)' = Owners(ops) \ {c}
      /\ \A i \in DOMAIN ops' : i + 1 \in DOMAIN ops /\ ops'[i] = ops[i + 1]
  <2>1. /\ c \in Owners(ops) /\ Tail(ops) \in Seq(Operation) /\ Apart(Tail(ops))
        /\ Owners(Tail(ops)) = Owners(ops) \ {c}
        /\ \A i \in DOMAIN Tail(ops) : i + 1 \in DOMAIN ops /\ Tail(ops)[i] = ops[i + 1]
    BY <1>1, <1>2, TailFacts
  <2> QED
    BY <1>1, <2>1
<1> HIDE DEF op, c
<1>6. /\ batch' \in Seq(BatchEntry)
      /\ \A i \in DOMAIN batch' : \/ i \in DOMAIN batch /\ batch'[i] = batch[i]
                                  \/ batch'[i] = b
  BY <1>2, <1>3, <1>4, AppendFacts
<1>7. /\ Owners(Prepared)' = Owners(Prepared) \cup {c}
      /\ Apart(Prepared)'
  <2>1. Prepared' = Append(Prepared, op)
    BY <1>2, <1>3, <1>4, PreparedAppend
  <2>2. Prepared \in Seq(Operation)
    <3>1. \A i \in DOMAIN batch : batch[i].op \in Operation
      BY <1>0, ElementTypes
    <3>2. Prepared \in [1 .. Len(batch) -> Operation] /\ Len(batch) \in Nat
      BY <1>2, <3>1 DEF Prepared
    <3> QED
      BY <3>2
  <2>3. c \notin Owners(Prepared)
    BY <1>5 DEF IInv, StagesApart
  <2>4. op.channel = c
    BY DEF c
  <2>5. /\ Owners(Append(Prepared, op)) = Owners(Prepared) \cup {op.channel}
        /\ Apart(Append(Prepared, op))
    BY <1>1, <1>2, <2>2, <2>3, <2>4, AppendFacts
  <2> QED
    BY <2>1, <2>4, <2>5
<1>8. TypeOK'
  BY <1>0, <1>5, <1>6 DEF TypeOK
<1>9. Holds'
  <2>1. (\A i \in DOMAIN ops : ops[i] = Single(Tag(ops[i].channel)))'
    BY <1>0, <1>5 DEF IInv, Holds, Tag
  <2>2. \A i \in DOMAIN batch' :
          /\ batch'[i].op = Single(Tag(batch'[i].op.channel))
          /\ batch'[i].op.req.op \in {"Read", "Write", "Sync"}
    BY <1>1, <1>3, <1>6 DEF IInv, Holds, c
  <2>3. \A i \in DOMAIN batch' : batch'[i].n <= batch'[i].op.req.len
    BY <1>3, <1>6 DEF IInv, Holds
  <2>4. \A d : Tag(d)' = Tag(d)
    BY <1>0 DEF Tag
  <2> QED
    BY <1>0, <2>1, <2>2, <2>3, <2>4 DEF IInv, Holds, Answers, Tag
<1>10. /\ InRing(reqRing)' = InRing(reqRing) /\ InRing(respRing)' = InRing(respRing)
       /\ Owners(pending)' = Owners(pending) /\ Owners(outbox)' = Owners(outbox)
       /\ Apart(pending)' = Apart(pending) /\ Apart(outbox)' = Apart(outbox)
       /\ Mail' = Mail /\ Owners(outbox) = {}
  BY <1>0, <1>1, EmptyQueue DEF InRing, Mail
<1>11. QueuesApart'
  BY <1>5, <1>7, <1>10 DEF IInv, QueuesApart
<1>12. InRound' = InRound
  BY <1>5, <1>7, <1>10 DEF InRound
<1>13. StagesApart' /\ Engaged' = Engaged
  BY <1>5, <1>7, <1>10, <1>12 DEF IInv, StagesApart, Engaged
<1>14. Phases'
  BY <1>0, <1>1 DEF IInv, Phases
<1>15. Grants' = Grants
  BY <1>0, <1>10 DEF Grants
<1>16. \A i \in DOMAIN batch' :
         \/ \E j \in DOMAIN batch :
              batch'[i].op = batch[j].op /\ batch'[i].fd = batch[j].fd
         \/ /\ batch'[i].op.req.fd \in DOMAIN fdTable
            /\ batch'[i].fd = fdTable[batch'[i].op.req.fd]
  <2>1. op.req.fd \in DOMAIN fdTable
    BY DEF op
  <2> QED
    BY <1>3, <1>6, <2>1
<1> QED
  BY <1>0, <1>8, <1>9, <1>11, <1>13, <1>14, <1>15, <1>16, MoveInvariant

(* Preparing an operation for the executor keeps the invariant.            *)
LEMMA PrepareInvariant ==
  ASSUME IInv, CallsUnchanged, Prepare
  PROVE  IInv'
<1> DEFINE op == Head(ops)
<1>0. /\ TakeOp({"Read", "Write", "Sync"})
      /\ UNCHANGED <<svc, channel, pending, sharedVars, fdVars, storageVars>>
  BY DEF Prepare
<1>1. CASE op.req.fd \in DOMAIN fdTable
  BY <1>0, <1>1, PreparedInvariant DEF Prepare
<1>2. CASE op.req.fd \notin DOMAIN fdTable
  <2>1. /\ outbox' = ReplyAll(op, LAMBDA s : ResponseErr(s.id, "EBADF"))
        /\ UNCHANGED batch
    BY <1>2 DEF Prepare
  <2>2. op.sources = <<[id |-> op.req.id, within |-> 0, len |-> op.req.len]>>
    BY <1>0, TakenOp
  <2> HIDE DEF op
  <2>3. ReplyAll(op, LAMBDA s : ResponseErr(s.id, "EBADF"))
          = <<Reply(op, ResponseErr(op.req.id, "EBADF"))>>
    BY <2>2 DEF ReplyAll
  <2>4. "EBADF" \in Statuses \ {"ok"}
    BY DEF Statuses
  <2> QED
    BY <1>0, <2>1, <2>3, <2>4, RefusedInvariant DEF op
<1> QED
  BY <1>1, <1>2

(* A prepared operation has been performed.                                *)
LEMMA CompletedInvariant ==
  ASSUME IInv, CallsUnchanged, NEW i \in DOMAIN batch, svc = "round",
         NEW status \in Statuses, NEW n \in Nat, n <= batch[i].op.req.len,
         Complete(i, status, n),
         UNCHANGED <<svc, channel, pending, ops, outbox, fdVars, reqRing, respRing, openFile>>,
         region' \in [Clients -> [0 .. RegionSize - 1 -> Unit]],
         files' \in [Paths -> Seq(Unit)], durable' \in [Paths -> Seq(Unit)]
  PROVE  IInv'
<1> DEFINE b == [op |-> batch[i].op, fd |-> batch[i].fd, status |-> status, n |-> n]
<1>0. /\ TypeOK /\ UNCHANGED <<pc, req, nextId, allocated, handles, got, crashes>>
      /\ UNCHANGED <<fdTable, nextFd>> /\ batch \in Seq(BatchEntry)
  BY DEF IInv, TypeOK, CallsUnchanged, clientVars, fdVars
<1>1. b \in BatchEntry /\ b.op = batch[i].op /\ b.fd = batch[i].fd /\ b.n <= b.op.req.len
  <2>1. batch[i] \in BatchEntry
    BY <1>0
  <2> QED
    BY <2>1 DEF BatchEntry
<1>2. batch' = [batch EXCEPT ![i] = b]
  BY Zenon DEF Complete
<1> HIDE DEF b
<1>3. /\ batch' \in Seq(BatchEntry) /\ DOMAIN batch' = DOMAIN batch
      /\ \A j \in DOMAIN batch : batch'[j] = IF j = i THEN b ELSE batch[j]
  BY <1>0, <1>1, <1>2
<1>4. \A j \in DOMAIN batch : batch'[j].op = batch[j].op /\ batch'[j].fd = batch[j].fd
  BY <1>1, <1>3
<1>5. Prepared' = Prepared
  BY <1>3, <1>4 DEF Prepared
<1>6. TypeOK'
  BY <1>0, <1>3 DEF TypeOK
<1>7. Holds'
  <2>1. \A j \in DOMAIN batch' :
          /\ batch'[j].op = Single(Tag(batch'[j].op.channel))
          /\ batch'[j].op.req.op \in {"Read", "Write", "Sync"}
    BY <1>3, <1>4 DEF IInv, Holds
  <2>2. \A j \in DOMAIN batch' : batch'[j].n <= batch'[j].op.req.len
    BY <1>1, <1>3 DEF IInv, Holds
  <2>3. \A d : Tag(d)' = Tag(d)
    BY <1>0 DEF Tag
  <2> QED
    BY <1>0, <2>1, <2>2, <2>3 DEF IInv, Holds, Answers
<1>8. /\ InRing(reqRing)' = InRing(reqRing) /\ InRing(respRing)' = InRing(respRing)
      /\ Owners(pending)' = Owners(pending) /\ InRound' = InRound /\ Mail' = Mail
      /\ Owners(ops)' = Owners(ops) /\ Owners(Prepared)' = Owners(Prepared)
      /\ Owners(outbox)' = Owners(outbox)
  BY <1>5 DEF InRing, InRound, Mail
<1>9. QueuesApart' /\ StagesApart' /\ Engaged' = Engaged
  BY <1>5, <1>8 DEF IInv, QueuesApart, StagesApart, Engaged
<1>10. Phases'
  BY <1>0 DEF IInv, Phases
<1>11. Grants' = Grants
  BY <1>0, <1>8 DEF Grants
<1>12. \A j \in DOMAIN batch' : \E k \in DOMAIN batch :
         batch'[j].op = batch[k].op /\ batch'[j].fd = batch[k].fd
  BY <1>3, <1>4
<1> QED
  BY <1>0, <1>6, <1>7, <1>9, <1>10, <1>11, <1>12, MoveInvariant

\* A prepared operation, and the file it may be performed on.
LEMMA PreparedOp ==
  ASSUME IInv, NEW i \in DOMAIN batch
  PROVE  LET r == batch[i].op.req
             c == batch[i].op.channel
             p == openFile[batch[i].fd]
         IN  /\ c \in Clients /\ r = req[c] /\ r \in Request
             /\ r.offset \in Nat /\ r.len \in Nat /\ r.data_offset \in Nat
             /\ r.op \in {"Read", "Write"} =>
                  r.len = IoLen /\ r.data_offset + IoLen <= RegionSize
             /\ p # NoPath => p \in Paths
             /\ region[c] \in [0 .. RegionSize - 1 -> Unit]
<1> DEFINE r == batch[i].op.req
           c == batch[i].op.channel
<1>1. TypeOK /\ c \in Clients /\ batch[i] \in BatchEntry
  BY ElementTypes DEF IInv
<1>2. c \in Engaged
  BY ElementOwners DEF Engaged, InRound
<1>3. r = req[c]
  <2>1. batch[i].op = Single(Tag(c))
    BY DEF IInv, Holds
  <2> QED
    BY <2>1 DEF Single, Tag, Tagged
<1> HIDE DEF r, c
<1>4. r \in Request /\ region[c] \in [0 .. RegionSize - 1 -> Unit]
  BY <1>1, <1>3 DEF TypeOK
<1>5. r.offset \in Nat /\ r.len \in Nat /\ r.data_offset \in Nat
  BY <1>4 DEF Request
<1>6. r.op \in {"Read", "Write"} => r.len = IoLen /\ r.data_offset + IoLen <= RegionSize
  BY <1>1, <1>2, <1>3, ServedCall
<1>7. openFile[batch[i].fd] \in Paths \cup {NoPath}
  BY <1>1 DEF TypeOK, BatchEntry
<1> QED
  BY <1>1, <1>3, <1>4, <1>5, <1>6, <1>7 DEF r, c

\* A refused operation leaves the data as it is.
LEMMA RefuseInvariant ==
  ASSUME IInv, CallsUnchanged, NEW i \in DOMAIN batch, svc = "round", Refuse(i),
         UNCHANGED <<svc, channel, pending, ops, outbox, fdVars, reqRing, respRing, openFile>>,
         UNCHANGED <<region, files, durable>>
  PROVE  IInv'
<1>1. PICK status \in {"EBADF", "EIO"} : Complete(i, status, 0)
  BY DEF Refuse
<1>2. status \in Statuses /\ 0 \in Nat /\ 0 <= batch[i].op.req.len
  BY PreparedOp DEF Statuses
<1>3. /\ region' \in [Clients -> [0 .. RegionSize - 1 -> Unit]]
      /\ files' \in [Paths -> Seq(Unit)] /\ durable' \in [Paths -> Seq(Unit)]
  BY DEF IInv, TypeOK
<1> QED
  BY <1>1, <1>2, <1>3, CompletedInvariant

(* A pread keeps the invariant, whatever the device answers.               *)
LEMMA PreadInvariant ==
  ASSUME IInv, CallsUnchanged, NEW i \in DOMAIN batch, Pread(i)
  PROVE  IInv'
<1> DEFINE r == batch[i].op.req
           c == batch[i].op.channel
           p == openFile[batch[i].fd]
<1>0. /\ svc = "round" /\ r.op = "Read" /\ UNCHANGED <<files, durable>>
      /\ UNCHANGED <<svc, channel, pending, ops, outbox, fdVars, reqRing, respRing, openFile>>
  BY DEF Pread, Execute
<1>1. CASE Refuse(i) /\ UNCHANGED region
  BY <1>0, <1>1, RefuseInvariant
<1>2. CASE ~ (Refuse(i) /\ UNCHANGED region)
  <2> DEFINE found == Contents(files[p], r.offset, r.len)
  <2>1. p # NoPath /\ \E n \in 0 .. Len(found) :
          /\ region' = [region EXCEPT ![c] = Stored(@, r.data_offset, SubSeq(found, 1, n))]
          /\ Complete(i, "ok", n)
    BY <1>2 DEF Pread
  <2>2. /\ c \in Clients /\ r.offset \in Nat /\ r.len \in Nat /\ r.data_offset \in Nat
        /\ p \in Paths /\ region[c] \in [0 .. RegionSize - 1 -> Unit]
    BY <2>1, PreparedOp
  <2>3. TypeOK
    BY DEF IInv
  <2>4. found \in Seq(Unit) /\ Len(found) <= r.len
    <3>1. files[p] \in Seq(Unit)
      BY <2>2, <2>3 DEF TypeOK
    <3> QED
      BY <2>2, <3>1, ContentsType
  <2> HIDE DEF found
  <2>5. PICK n \in 0 .. Len(found) :
          /\ region' = [region EXCEPT ![c] = Stored(@, r.data_offset, SubSeq(found, 1, n))]
          /\ Complete(i, "ok", n)
    BY <2>1
  <2>6. n \in Nat /\ n <= r.len /\ SubSeq(found, 1, n) \in Seq(Unit)
    BY <2>2, <2>4
  <2>7. Stored(region[c], r.data_offset, SubSeq(found, 1, n)) \in [0 .. RegionSize - 1 -> Unit]
    BY <2>2, <2>6, StoredType
  <2>8. region' = [region EXCEPT ![c] = Stored(region[c], r.data_offset, SubSeq(found, 1, n))]
    BY <2>5, Zenon
  <2> HIDE DEF r, c, p
  <2>9. region' \in [Clients -> [0 .. RegionSize - 1 -> Unit]]
    BY <2>2, <2>3, <2>7, <2>8 DEF TypeOK
  <2>10. /\ files' \in [Paths -> Seq(Unit)] /\ durable' \in [Paths -> Seq(Unit)]
    BY <1>0, <2>3 DEF TypeOK
  <2>11. "ok" \in Statuses
    BY DEF Statuses
  <2> QED
    BY <1>0, <2>5, <2>6, <2>9, <2>10, <2>11, CompletedInvariant DEF r
<1> QED
  BY <1>1, <1>2

(* A pwrite keeps the invariant, whatever the device answers.              *)
LEMMA PwriteInvariant ==
  ASSUME IInv, CallsUnchanged, NEW i \in DOMAIN batch, Pwrite(i)
  PROVE  IInv'
<1> DEFINE r == batch[i].op.req
           c == batch[i].op.channel
           p == openFile[batch[i].fd]
<1>0. /\ svc = "round" /\ r.op = "Write" /\ UNCHANGED <<region, durable>>
      /\ UNCHANGED <<svc, channel, pending, ops, outbox, fdVars, reqRing, respRing, openFile>>
  BY DEF Pwrite, Execute
<1>1. CASE Refuse(i) /\ UNCHANGED files
  BY <1>0, <1>1, RefuseInvariant
<1>2. CASE ~ (Refuse(i) /\ UNCHANGED files)
  <2>1. p # NoPath /\ \E n \in 1 .. r.len :
          /\ files' = [files EXCEPT ![p] =
               Overwritten(@, r.offset, Slice(region[c], r.data_offset, n))]
          /\ Complete(i, "ok", n)
    BY <1>2 DEF Pwrite
  <2>2. PICK n \in 1 .. r.len :
          /\ files' = [files EXCEPT ![p] =
               Overwritten(@, r.offset, Slice(region[c], r.data_offset, n))]
          /\ Complete(i, "ok", n)
    BY <2>1
  <2>3. /\ c \in Clients /\ r.offset \in Nat /\ r.len \in Nat /\ r.data_offset \in Nat
        /\ r.len = IoLen /\ r.data_offset + IoLen <= RegionSize
        /\ p \in Paths /\ region[c] \in [0 .. RegionSize - 1 -> Unit]
    BY <1>0, <2>1, PreparedOp
  <2>4. TypeOK /\ files[p] \in Seq(Unit)
    BY <2>3 DEF IInv, TypeOK
  <2> HIDE DEF r, c, p
  <2>5. n \in Nat /\ n <= r.len /\ r.data_offset + n <= RegionSize
    BY <2>3, ProtocolAssumption
  <2>6. Slice(region[c], r.data_offset, n) \in Seq(Unit)
    BY <2>3, <2>5, SliceType
  <2>7. Overwritten(files[p], r.offset, Slice(region[c], r.data_offset, n)) \in Seq(Unit)
    BY <2>3, <2>4, <2>6, OverwrittenType
  <2>8. files' \in [Paths -> Seq(Unit)]
    BY <2>2, <2>3, <2>4, <2>7 DEF TypeOK
  <2>9. /\ region' \in [Clients -> [0 .. RegionSize - 1 -> Unit]]
        /\ durable' \in [Paths -> Seq(Unit)]
    BY <1>0, <2>4 DEF TypeOK
  <2>10. "ok" \in Statuses
    BY DEF Statuses
  <2> QED
    BY <1>0, <2>2, <2>5, <2>8, <2>9, <2>10, CompletedInvariant DEF r
<1> QED
  BY <1>1, <1>2

(* An fsync keeps the invariant, whatever the device answers.              *)
LEMMA FsyncInvariant ==
  ASSUME IInv, CallsUnchanged, NEW i \in DOMAIN batch, Fsync(i)
  PROVE  IInv'
<1> DEFINE p == openFile[batch[i].fd]
<1>0. /\ svc = "round" /\ UNCHANGED <<region, files>>
      /\ UNCHANGED <<svc, channel, pending, ops, outbox, fdVars, reqRing, respRing, openFile>>
  BY DEF Fsync, Execute
<1>1. CASE Refuse(i) /\ UNCHANGED durable
  BY <1>0, <1>1, RefuseInvariant
<1>2. CASE ~ (Refuse(i) /\ UNCHANGED durable)
  <2>1. p # NoPath /\ durable' = [durable EXCEPT ![p] = files[p]] /\ Complete(i, "ok", 0)
    BY <1>2 DEF Fsync
  <2>2. p \in Paths
    BY <2>1, PreparedOp
  <2> HIDE DEF p
  <2>3. /\ region' \in [Clients -> [0 .. RegionSize - 1 -> Unit]]
        /\ files' \in [Paths -> Seq(Unit)] /\ durable' \in [Paths -> Seq(Unit)]
    BY <1>0, <2>1, <2>2 DEF IInv, TypeOK
  <2>4. "ok" \in Statuses /\ 0 \in Nat /\ 0 <= batch[i].op.req.len
    BY PreparedOp DEF Statuses
  <2> QED
    BY <1>0, <2>1, <2>3, <2>4, CompletedInvariant
<1> QED
  BY <1>1, <1>2

(* The answer to one source of a settled operation is a response with that *)
(* source's id.                                                            *)
LEMMA BatchResponseTyped ==
  ASSUME NEW done \in BatchEntry, done.status # "todo",
         NEW source \in [id : Nat, within : Nat, len : Nat]
  PROVE  BatchResponse(done, source) \in Response /\ BatchResponse(done, source).id = source.id
<1> DEFINE r == BatchResponse(done, source)
<1>0. /\ source.id \in Nat /\ source.within \in Nat /\ source.len \in Nat
      /\ done.status \in Statuses /\ done.n \in Nat /\ done.op.req \in Request
  BY DEF BatchEntry, Operation
<1>1. done.op.req.data_offset \in Nat
  BY <1>0 DEF Request
<1>2. CASE done.status # "ok"
  <2>1. r = ResponseErr(source.id, done.status)
    BY <1>2 DEF BatchResponse
  <2> QED
    BY <1>0, <2>1, ResponsesTyped
<1>3. CASE done.status = "ok" /\ done.op.req.op = "Read"
  <2> DEFINE len == IF source.within < done.n
                    THEN LesserOf(done.n - source.within, source.len) ELSE 0
             at == done.op.req.data_offset + source.within
  <2>1. r = ReadResponse(done, source)
    BY <1>3 DEF BatchResponse
  <2>2. len \in Nat
    BY <1>0 DEF LesserOf
  <2>3. at \in Nat
    BY <1>0, <1>1
  <2>4. ReadResponse(done, source) =
          [id |-> source.id, status |-> "ok", fd |-> 0, data_offset |-> at, data_len |-> len]
    BY ReadFields
  <2> HIDE DEF len, at, r
  <2> QED
    BY <1>0, <2>1, <2>2, <2>3, <2>4 DEF Response, Statuses, r
<1>4. CASE done.status = "ok" /\ done.op.req.op = "Write"
  <2>1. r = WriteResponse(source)
    BY <1>4 DEF BatchResponse
  <2> QED
    BY <1>0, <2>1, WriteFields DEF Response, Statuses
<1>5. CASE done.status = "ok" /\ done.op.req.op # "Read" /\ done.op.req.op # "Write"
  <2>1. r = ResponseOk(source.id)
    BY <1>5 DEF BatchResponse
  <2> QED
    BY <1>0, <2>1, ResponsesTyped
<1> QED
  BY <1>2, <1>3, <1>4, <1>5

\* What a response says was read lies in the buffer of the request.
LEMMA BatchResponseFits ==
  ASSUME NEW done \in BatchEntry, done.status # "todo", done.op.req.op = "Read",
         NEW source \in [id : Nat, within : {0}, len : Nat],
         done.op.req.data_offset + source.len <= RegionSize
  PROVE  BatchResponse(done, source).data_offset + BatchResponse(done, source).data_len
           <= RegionSize
<1> DEFINE r == BatchResponse(done, source)
<1>0. /\ source.id \in Nat /\ source.within = 0 /\ source.len \in Nat
      /\ done.status \in Statuses /\ done.n \in Nat /\ done.op.req \in Request
      /\ RegionSize \in Nat
  BY ProtocolAssumption DEF BatchEntry, Operation
<1>1. done.op.req.data_offset \in Nat
  BY <1>0 DEF Request
<1>2. CASE done.status # "ok"
  <2>1. r = ResponseErr(source.id, done.status)
    BY <1>2 DEF BatchResponse
  <2>2. r.data_offset = 0 /\ r.data_len = 0
    BY <1>0, <2>1, ResponsesTyped
  <2> HIDE DEF r
  <2> QED
    BY <1>0, <2>2 DEF r
<1>3. CASE done.status = "ok"
  <2> DEFINE len == IF source.within < done.n
                    THEN LesserOf(done.n - source.within, source.len) ELSE 0
             at == done.op.req.data_offset + source.within
  <2>1. r = ReadResponse(done, source)
    BY <1>3 DEF BatchResponse
  <2>2. len \in Nat /\ len <= source.len
    BY <1>0 DEF LesserOf
  <2>3. at \in Nat /\ at = done.op.req.data_offset
    BY <1>0, <1>1
  <2>4. ReadResponse(done, source) =
          [id |-> source.id, status |-> "ok", fd |-> 0, data_offset |-> at, data_len |-> len]
    BY ReadFields
  <2> HIDE DEF len, at, r
  <2>5. r.data_offset = at /\ r.data_len = len
    BY <2>1, <2>4
  <2> QED
    BY <1>0, <1>1, <2>2, <2>3, <2>5 DEF r
<1> QED
  BY <1>2, <1>3

(* Handing the answers to the response rings keeps the invariant.          *)
LEMMA RespondInvariant ==
  ASSUME IInv, CallsUnchanged, Respond
  PROVE  IInv'
<1> DEFINE b == Head(batch)
           c == b.op.channel
           s == [id |-> b.op.req.id, within |-> 0, len |-> b.op.req.len]
           r == BatchResponse(b, s)
           m == [channel |-> c, resp |-> r]
<1>0. /\ TypeOK /\ UNCHANGED <<pc, req, nextId, allocated, handles, got, crashes>>
      /\ UNCHANGED <<reqRing, respRing, region, fdTable, nextFd, openFile, files, durable>>
      /\ UNCHANGED <<svc, channel, pending, ops>>
      /\ svc = "round" /\ ops = <<>> /\ outbox = <<>> /\ batch # <<>>
      /\ outbox' = BatchReplies(b) /\ batch' = Tail(batch)
      /\ \A i \in DOMAIN batch : batch[i].status # "todo"
  BY DEF IInv, CallsUnchanged, clientVars, sharedVars, fdVars, storageVars, Respond
<1>1. /\ batch \in Seq(BatchEntry) /\ b \in BatchEntry /\ b = batch[1] /\ 1 \in DOMAIN batch
      /\ batch' \in Seq(BatchEntry)
      /\ \A i \in DOMAIN batch' : i + 1 \in DOMAIN batch /\ batch'[i] = batch[i + 1]
  <2>1. batch \in Seq(BatchEntry)
    BY <1>0 DEF TypeOK
  <2>2. /\ Tail(batch) \in Seq(BatchEntry) /\ b \in BatchEntry /\ b = batch[1]
        /\ 1 \in DOMAIN batch
        /\ \A i \in DOMAIN Tail(batch) : i + 1 \in DOMAIN batch /\ Tail(batch)[i] = batch[i + 1]
    BY <1>0, <2>1, TailFacts
  <2> QED
    BY <1>0, <2>1, <2>2
<1>2. /\ c \in Clients /\ c \in Owners(Prepared) /\ b.op = Single(Tag(c))
      /\ b.op.req.op \in {"Read", "Write", "Sync"} /\ b.status # "todo" /\ b.op \in Operation
  <2>1. b.op = Single(Tag(c)) /\ b.op.req.op \in {"Read", "Write", "Sync"}
    BY <1>1 DEF IInv, Holds
  <2> QED
    BY <1>0, <1>1, <2>1, ElementTypes, ElementOwners
<1> HIDE DEF b, c
<1>3. b.op.req = req[c] /\ b.op.sources = <<s>>
  <2>1. Single(Tag(c)).req = req[c]
    BY DEF Single, Tag, Tagged
  <2>2. Single(Tag(c)).sources = <<[id |-> req[c].id, within |-> 0, len |-> req[c].len]>>
    BY DEF Single, Tag, Tagged
  <2> QED
    BY <1>2, <2>1, <2>2
<1>4. s \in [id : Nat, within : Nat, len : Nat] /\ s.id = req[c].id
  <2>1. b.op.req \in Request
    BY <1>2 DEF Operation
  <2>2. b.op.req.id \in Nat /\ b.op.req.len \in Nat
    BY <2>1 DEF Request
  <2> QED
    BY <1>3, <2>2
<1> HIDE DEF s
<1>5. r \in Response /\ r.id = req[c].id
  BY <1>1, <1>2, <1>4, BatchResponseTyped
<1>6. outbox' = <<m>>
  <2>1. BatchReplies(b) = <<Reply(b.op, BatchResponse(b, s))>>
    BY <1>3 DEF BatchReplies, ReplyAll
  <2> QED
    BY <1>0, <2>1 DEF Reply, c
<1> HIDE DEF r
<1>7. m \in Addressed
  BY <1>2, <1>5 DEF Addressed
<1>8. outbox' \in Seq(Addressed) /\ DOMAIN outbox' = {1} /\ outbox'[1] = m
  BY <1>6, <1>7
<1>9. /\ Owners(Prepared)' = Owners(Prepared) \ {c} /\ Apart(Prepared)'
  <2>1. /\ Prepared' = Tail(Prepared) /\ Prepared # <<>> /\ Head(Prepared) = b.op
    BY <1>0, <1>1, PreparedTail DEF b
  <2>2. Prepared \in Seq(Operation)
    <3>1. \A i \in DOMAIN batch : batch[i].op \in Operation
      BY <1>0, ElementTypes
    <3>2. Prepared \in [1 .. Len(batch) -> Operation] /\ Len(batch) \in Nat
      BY <1>1, <3>1 DEF Prepared
    <3> QED
      BY <3>2
  <2>3. Apart(Prepared)
    BY DEF IInv, QueuesApart
  <2>4. /\ Owners(Tail(Prepared)) = Owners(Prepared) \ {Head(Prepared).channel}
        /\ Apart(Tail(Prepared))
    BY <2>1, <2>2, <2>3, TailFacts
  <2> QED
    BY <2>1, <2>4 DEF c
<1>10. TypeOK'
  BY <1>0, <1>1, <1>8 DEF TypeOK
<1>11. Holds'
  <2>1. (\A i \in DOMAIN batch :
           /\ batch[i].op = Single(Tag(batch[i].op.channel))
           /\ batch[i].op.req.op \in {"Read", "Write", "Sync"}
           /\ batch[i].n <= batch[i].op.req.len)'
    BY <1>0, <1>1 DEF IInv, Holds, Tag
  <2>2. req[c].op = "Read" => r.data_offset + r.data_len <= RegionSize
    <3> SUFFICES ASSUME req[c].op = "Read" PROVE r.data_offset + r.data_len <= RegionSize
      OBVIOUS
    <3>1. s.within = 0 /\ s.len = req[c].len /\ s \in [id : Nat, within : {0}, len : Nat]
      BY <1>3, <1>4 DEF s
    <3>2. req[c].data_offset + req[c].len <= RegionSize
      BY <1>2 DEF IInv, RequestsFormed, OnTheWay, Waiting, Engaged, InRound
    <3> QED
      BY <1>1, <1>2, <1>3, <3>1, <3>2, BatchResponseFits DEF r
  <2>3. (\A i \in DOMAIN outbox : Answers(outbox[i].channel, outbox[i].resp))'
    BY <1>0, <1>2, <1>3, <1>5, <1>8, <2>2 DEF Answers
  <2> QED
    BY <1>0, <2>1, <2>3 DEF IInv, Holds, Answers, Tag
<1>12. /\ Owners(outbox)' = {c} /\ Apart(outbox)' /\ Owners(outbox) = {}
  BY <1>0, <1>8, EmptyQueue DEF Owners, Apart
<1>13. /\ InRing(reqRing)' = InRing(reqRing) /\ InRing(respRing)' = InRing(respRing)
       /\ Owners(pending)' = Owners(pending) /\ Owners(ops)' = Owners(ops)
       /\ Apart(pending)' = Apart(pending) /\ Apart(ops)' = Apart(ops)
       /\ Mail' = Mail \cup {m}
  BY <1>0, <1>8 DEF InRing, Mail
<1>14. QueuesApart'
  BY <1>9, <1>12, <1>13 DEF IInv, QueuesApart
<1>15. InRound' = InRound
  BY <1>2, <1>9, <1>12, <1>13 DEF InRound
<1>16. StagesApart' /\ Engaged' = Engaged
  BY <1>2, <1>9, <1>12, <1>13, <1>15 DEF IInv, StagesApart, Engaged
<1>17. Phases'
  BY <1>0 DEF IInv, Phases
<1>18. Grants' \subseteq Grants
  BY <1>0, <1>2, <1>3, <1>13 DEF Grants
<1>19. \A i \in DOMAIN batch' : \E j \in DOMAIN batch :
         batch'[i].op = batch[j].op /\ batch'[i].fd = batch[j].fd
  BY <1>1
<1> QED
  BY <1>0, <1>10, <1>11, <1>14, <1>16, <1>17, <1>18, <1>19, MoveInvariant

(* The response goes to the ring of its client, which is empty.            *)
LEMMA SendInvariant ==
  ASSUME IInv, CallsUnchanged, SendResponse
  PROVE  IInv'
<1> DEFINE m == Head(outbox)
           c == m.channel
<1>0. /\ TypeOK /\ UNCHANGED <<pc, req, nextId, allocated, handles, got, crashes>>
      /\ UNCHANGED <<reqRing, region, fdTable, nextFd, openFile, files, durable>>
      /\ UNCHANGED <<svc, channel, pending, ops, batch>>
      /\ outbox # <<>> /\ outbox' = Tail(outbox)
      /\ respRing' = [respRing EXCEPT ![c] = Append(respRing[c], m.resp)]
  BY DEF IInv, CallsUnchanged, clientVars, fdVars, storageVars, SendResponse
<1>1. /\ outbox \in Seq(Addressed) /\ m \in Addressed /\ m = outbox[1] /\ 1 \in DOMAIN outbox
      /\ outbox' \in Seq(Addressed) /\ c \in Owners(outbox)
      /\ Owners(outbox)' = Owners(outbox) \ {c} /\ Apart(outbox)'
      /\ \A i \in DOMAIN outbox' : i + 1 \in DOMAIN outbox /\ outbox'[i] = outbox[i + 1]
  <2>1. outbox \in Seq(Addressed) /\ Apart(outbox)
    BY <1>0 DEF TypeOK, IInv, QueuesApart
  <2>2. /\ m \in Addressed /\ m = outbox[1] /\ 1 \in DOMAIN outbox
        /\ Tail(outbox) \in Seq(Addressed) /\ c \in Owners(outbox)
        /\ Owners(Tail(outbox)) = Owners(outbox) \ {c} /\ Apart(Tail(outbox))
        /\ \A i \in DOMAIN Tail(outbox) : i + 1 \in DOMAIN outbox /\ Tail(outbox)[i] = outbox[i + 1]
    BY <1>0, <2>1, TailFacts
  <2> QED
    BY <1>0, <2>1, <2>2
<1> HIDE DEF m
<1>2. c \in Clients /\ m.resp \in Response /\ m = [channel |-> c, resp |-> m.resp]
  BY <1>1 DEF Addressed
<1>3. respRing[c] = <<>>
  BY <1>1, <1>2 DEF IInv, StagesApart, InRound, InRing
<1>4. /\ respRing' \in [Clients -> Seq(Response)] /\ respRing'[c] = <<m.resp>>
      /\ \A d \in Clients : d # c => respRing'[d] = respRing[d]
  <2>1. Append(respRing[c], m.resp) = <<m.resp>> /\ <<m.resp>> \in Seq(Response)
    BY <1>2, <1>3
  <2> QED
    BY <1>0, <1>2, <2>1 DEF TypeOK
<1>5. /\ Len(respRing'[c]) = 1 /\ Head(respRing'[c]) = m.resp
      /\ \A i \in DOMAIN respRing'[c] : respRing'[c][i] = m.resp
  BY <1>4
<1>6. Answers(c, m.resp)
  BY <1>1 DEF IInv, Holds
<1>7. TypeOK'
  BY <1>0, <1>1, <1>4 DEF TypeOK
<1> HIDE DEF c
<1>8. Holds'
  <2>1. ASSUME NEW d \in Clients
        PROVE  (/\ reqRing[d] \in {<<>>, <<req[d]>>}
                /\ Len(respRing[d]) <= 1
                /\ \A i \in DOMAIN respRing[d] : Answers(d, respRing[d][i]))'
    <3>1. CASE d = c
      BY <1>0, <1>5, <1>6, <3>1 DEF IInv, Holds, Answers
    <3>2. CASE d # c
      BY <1>0, <1>4, <3>2 DEF IInv, Holds, Answers
    <3> QED
      BY <3>1, <3>2
  <2>2. (\A i \in DOMAIN outbox : Answers(outbox[i].channel, outbox[i].resp))'
    BY <1>0, <1>1 DEF IInv, Holds, Answers
  <2> QED
    BY <1>0, <2>1, <2>2 DEF IInv, Holds, Tag
<1>9. /\ InRing(reqRing)' = InRing(reqRing) /\ InRing(respRing)' = InRing(respRing) \cup {c}
      /\ Owners(pending)' = Owners(pending) /\ Owners(ops)' = Owners(ops)
      /\ Prepared' = Prepared /\ Owners(Prepared)' = Owners(Prepared)
      /\ Apart(pending)' = Apart(pending) /\ Apart(ops)' = Apart(ops)
      /\ Apart(Prepared)' = Apart(Prepared)
  BY <1>0, <1>2, <1>4 DEF InRing, Prepared
<1>10. QueuesApart'
  BY <1>1, <1>9 DEF IInv, QueuesApart, c
<1>11. c \in Owners(outbox) /\ Owners(outbox)' = Owners(outbox) \ {c}
  BY <1>1 DEF c
<1>12. InRound' = InRound \ {c}
  BY <1>9, <1>11 DEF InRound, IInv, StagesApart
<1>13. c \in InRound
  BY <1>11 DEF InRound
<1>14. StagesApart' /\ Engaged' = Engaged
  BY <1>9, <1>11, <1>12, <1>13 DEF IInv, StagesApart, Engaged
<1>15. Phases'
  <2>1. svc = "round"
    BY <1>0 DEF IInv, Phases
  <2> QED
    BY <1>0, <2>1 DEF IInv, Phases
<1>16. Mail' \subseteq Mail
  <2> SUFFICES ASSUME NEW n \in Mail' PROVE n \in Mail
    OBVIOUS
  <2>1. CASE \E i \in DOMAIN outbox' : n = outbox'[i]
    BY <1>1, <2>1 DEF Mail
  <2>2. CASE \E d \in InRing(respRing)' : n = [channel |-> d, resp |-> Head(respRing'[d])]
    <3>1. PICK d \in InRing(respRing)' : n = [channel |-> d, resp |-> Head(respRing'[d])]
      BY <2>2
    <3>2. CASE d = c
      <4>1. n = m
        BY <1>2, <1>5, <3>1, <3>2 DEF c
      <4> QED
        BY <1>1, <4>1 DEF Mail
    <3>3. CASE d # c
      <4>1. d \in InRing(respRing) /\ n = [channel |-> d, resp |-> Head(respRing[d])]
        BY <1>4, <1>9, <3>1, <3>3 DEF InRing
      <4> QED
        BY <4>1 DEF Mail
    <3> QED
      BY <3>2, <3>3
  <2> QED
    BY <2>1, <2>2 DEF Mail
<1>17. Grants' \subseteq Grants
  BY <1>0, <1>16 DEF Grants
<1> QED
  BY <1>0, <1>7, <1>8, <1>10, <1>14, <1>15, <1>17, MoveInvariant

(* A crash takes what was in the daemon; descriptors and table go together.*)
LEMMA CrashInvariant ==
  ASSUME IInv, Crash, UNCHANGED clientVars, crashes' = crashes + 1
  PROVE  IInv'
<1>0. /\ TypeOK /\ UNCHANGED <<pc, req, nextId, allocated, handles, got>>
      /\ UNCHANGED <<reqRing, respRing, region, files, durable>>
      /\ svc' = "down" /\ channel' = 1
      /\ pending' = <<>> /\ ops' = <<>> /\ batch' = <<>> /\ outbox' = <<>>
      /\ fdTable' = <<>> /\ nextFd' = 1
      /\ openFile' = [fd \in RealFds |-> NoPath]
      /\ crashes \in Nat
  BY DEF IInv, clientVars, sharedVars, Crash
<1>1. TypeOK'
  <2>1. fdTable' \in Tables(1 .. nextFd' - 1, RealFds)
    BY <1>0, EmptyTable
  <2>2. /\ <<>> \in Seq(TaggedRequest) /\ <<>> \in Seq(Operation)
        /\ <<>> \in Seq(BatchEntry) /\ <<>> \in Seq(Addressed)
    OBVIOUS
  <2>3. channel' \in 1 .. NumClients + 1 /\ nextFd' \in 1 .. MaxFd + 1
    BY <1>0, ProtocolAssumption, ServiceAssumption
  <2>4. openFile' \in [RealFds -> Paths \cup {NoPath}]
    BY <1>0
  <2> QED
    BY <1>0, <2>1, <2>2, <2>3, <2>4 DEF TypeOK
<1>2. RequestsFormed'
  BY <1>0 DEF IInv, RequestsFormed
<1>3. Holds'
  BY <1>0 DEF IInv, Holds, Answers
<1>4. /\ InRing(reqRing)' = InRing(reqRing) /\ InRing(respRing)' = InRing(respRing)
      /\ Waiting' = Waiting
      /\ Owners(pending)' = {} /\ Owners(ops)' = {} /\ Owners(Prepared)' = {}
      /\ Owners(outbox)' = {} /\ InRound' = {}
      /\ Apart(pending)' /\ Apart(ops)' /\ Apart(Prepared)' /\ Apart(outbox)'
  <2>1. Prepared' = <<>>
    BY <1>0 DEF Prepared
  <2> QED
    BY <1>0, <2>1, EmptyQueue DEF InRing, Waiting, InRound
<1>5. QueuesApart'
  BY <1>4 DEF QueuesApart
<1>6. StagesApart'
  BY <1>4 DEF IInv, StagesApart
<1>7. OnTheWay' /\ crashes' \in Nat /\ crashes' # 0
  <2>1. crashes' \in Nat /\ crashes' # 0
    BY <1>0
  <2> QED
    BY <1>4, <2>1 DEF IInv, OnTheWay, Engaged
<1>8. Phases' /\ TableExact'
  BY <1>0 DEF Phases, TableExact
<1> QED
  BY <1>1, <1>2, <1>3, <1>5, <1>6, <1>7, <1>8 DEF IInv

-----------------------------------------------------------------------------
(* Every step.                                                             *)

\* The variables that the invariant is about.
watched == <<sharedVars, pc, req, nextId, allocated, handles, got, svc, channel, roundVars,
             fdVars, storageVars, crashes>>

(* A step that changes none of the variables keeps the invariant.          *)
LEMMA StutterInvariant ==
  ASSUME IInv, UNCHANGED watched
  PROVE  IInv'
<1> USE DEF watched, sharedVars, roundVars, fdVars, storageVars
<1>1. TypeOK'
  BY DEF IInv, TypeOK
<1>2. /\ Prepared' = Prepared /\ Mail' = Mail /\ Waiting' = Waiting
      /\ InRing(reqRing)' = InRing(reqRing) /\ InRing(respRing)' = InRing(respRing)
      /\ Owners(pending)' = Owners(pending) /\ InRound' = InRound
      /\ Owners(ops)' = Owners(ops) /\ Owners(Prepared)' = Owners(Prepared)
      /\ Owners(outbox)' = Owners(outbox)
  BY DEF Prepared, Mail, InRing, InRound, Waiting
<1>3. Grants' = Grants
  BY <1>2 DEF Grants
<1>4. RequestsFormed' /\ Holds'
  BY DEF IInv, RequestsFormed, Holds, Answers, Tag
<1>5. QueuesApart' /\ StagesApart' /\ OnTheWay'
  BY <1>2 DEF IInv, QueuesApart, StagesApart, OnTheWay, Engaged
<1>6. Phases' /\ TableExact' /\ (Ownership => Ownership')
  BY <1>3 DEF IInv, Phases, TableExact, Ownership
<1> QED
  BY <1>1, <1>4, <1>5, <1>6 DEF IInv

(* Every step of the daemon keeps the invariant.                           *)
LEMMA ServiceInvariant ==
  ASSUME IInv, Service
  PROVE  IInv'
<1>1. CallsUnchanged
  BY DEF Service, CallsUnchanged
<1>2. CASE StartPolling \/ PollEmpty \/ Stop
  BY <1>1, <1>2, PhaseInvariant
<1>3. CASE PollRequest
  BY <1>1, <1>3, PollInvariant
<1>4. CASE Drain
  BY <1>1, <1>4, DrainInvariant
<1>5. CASE HandleOpen
  BY <1>1, <1>5, HandleOpenInvariant
<1>6. CASE HandleClose
  BY <1>1, <1>6, HandleCloseInvariant
<1>7. CASE Prepare
  BY <1>1, <1>7, PrepareInvariant
<1>8. CASE \E i \in DOMAIN batch : Pread(i) \/ Pwrite(i) \/ Fsync(i)
  BY <1>1, <1>8, PreadInvariant, PwriteInvariant, FsyncInvariant
<1>9. CASE Respond
  BY <1>1, <1>9, RespondInvariant
<1>10. CASE SendResponse
  BY <1>1, <1>10, SendInvariant
<1> QED
  BY <1>2, <1>3, <1>4, <1>5, <1>6, <1>7, <1>8, <1>9, <1>10 DEF Service, ServiceStep

(* Every step of the system keeps the invariant.                           *)
LEMMA NextInvariant ==
  ASSUME IInv, [Next]_vars
  PROVE  IInv'
<1>1. ASSUME NEW c \in Clients, Client(c) PROVE IInv'
  <2>1. ClientStep(c) /\ ServiceUnchanged
    BY <1>1 DEF Client, ServiceUnchanged
  <2> QED
    BY <2>1, CallInvariant, PushInvariant, PopInvariant DEF ClientStep
<1>2. ASSUME NEW c \in Clients, Die(c) PROVE IInv'
  <2>1. UNCHANGED watched
    BY <1>2 DEF Die, watched, clientVars, serviceVars
  <2> QED
    BY <2>1, StutterInvariant
<1>3. CASE Service
  BY <1>3, ServiceInvariant
<1>4. CASE Terminate
  BY <1>4, PhaseInvariant DEF Terminate, CallsUnchanged
<1>5. CASE Fail
  BY <1>5, CrashInvariant DEF Fail
<1>6. CASE Recover
  BY <1>6, PhaseInvariant DEF Recover, CallsUnchanged
<1>7. CASE UNCHANGED vars
  <2>1. UNCHANGED watched
    BY <1>7 DEF vars, watched, clientVars, serviceVars
  <2> QED
    BY <2>1, StutterInvariant
<1> QED
  BY <1>1, <1>2, <1>3, <1>4, <1>5, <1>6, <1>7 DEF Next

(* What is true of every state that the system reaches.                    *)
THEOREM Invariance == Spec => []IInv
<1>1. Init => IInv
  BY InitInvariant
<1>2. IInv /\ [Next]_vars => IInv'
  BY NextInvariant
<1> QED
  BY <1>1, <1>2, PTL DEF Spec

-----------------------------------------------------------------------------
(* Where a call is.                                                        *)

LEMMA RingPlaces ==
  ASSUME NEW S, NEW ring \in Seq(S), Len(ring) <= 1, NEW name
  PROVE  /\ ring = <<>> => Ring(name, ring) = {}
         /\ ring # <<>> => \E p : Ring(name, ring) = {p}
<1>1. ring = <<>> => Ring(name, ring) = {}
  BY DEF Ring
<1>2. ASSUME ring # <<>> PROVE Ring(name, ring) = {<<name, 1, 1>>}
  <2>1. Len(ring) \in Nat /\ DOMAIN ring = 1 .. Len(ring)
    OBVIOUS
  <2>2. Len(ring) # 0
    BY <1>2
  <2>3. Len(ring) = 1
    BY <2>1, <2>2
  <2>4. DOMAIN ring = {1}
    BY <2>1, <2>3
  <2> QED
    BY <2>4 DEF Ring
<1> QED
  BY <1>1, <1>2

(* A client has one place in a queue that holds it, and none in one that   *)
(* does not.                                                               *)
LEMMA QueuedPlaces ==
  ASSUME NEW queue, Apart(queue), NEW c, NEW name
  PROVE  /\ c \notin Owners(queue) => Queued(name, queue, c) = {}
         /\ c \in Owners(queue) => \E p : Queued(name, queue, c) = {p}
<1>1. c \notin Owners(queue) => Queued(name, queue, c) = {}
  BY DEF Queued, Owners
<1>2. ASSUME c \in Owners(queue) PROVE \E p : Queued(name, queue, c) = {p}
  <2>1. PICK i \in DOMAIN queue : queue[i].channel = c
    BY <1>2 DEF Owners
  <2>2. {j \in DOMAIN queue : queue[j].channel = c} = {i}
    BY <2>1 DEF Apart
  <2>3. Queued(name, queue, c) = {<<name, i, 1>>}
    BY <2>2 DEF Queued
  <2> QED
    BY <2>3
<1> QED
  BY <1>1, <1>2

(* The same for the sources of the merged operations.                      *)
LEMMA MergesPlaces ==
  ASSUME NEW merged, Apart(merged), NEW c, NEW name,
         \A i \in DOMAIN merged : DOMAIN merged[i].sources = {1}
  PROVE  /\ c \notin Owners(merged) => Merges(name, merged, c) = {}
         /\ c \in Owners(merged) => \E p : Merges(name, merged, c) = {p}
<1>1. c \notin Owners(merged) => Merges(name, merged, c) = {}
  BY DEF Merges, Owners
<1>2. ASSUME c \in Owners(merged) PROVE \E p : Merges(name, merged, c) = {p}
  <2>1. PICK i \in DOMAIN merged : merged[i].channel = c
    BY <1>2 DEF Owners
  <2>2. {j \in DOMAIN merged : merged[j].channel = c} = {i}
    BY <2>1 DEF Apart
  <2>3. {<<name, i, k>> : k \in DOMAIN merged[i].sources} = {<<name, i, 1>>}
    BY <2>1
  <2>4. Merges(name, merged, c)
          = UNION {{<<name, j, k>> : k \in DOMAIN merged[j].sources} : j \in {i}}
    BY <2>2, Zenon DEF Merges
  <2>5. Merges(name, merged, c) = {<<name, i, 1>>}
    BY <2>3, <2>4
  <2> QED
    BY <2>5
<1> QED
  BY <1>1, <1>2

\* A call that is on its way is in one place, any other in none.
LEMMA CallPlaces ==
  ASSUME IInv, NEW c \in Clients
  PROVE  Cardinality(Places(c)) = IF c \in Engaged THEN 1 ELSE 0
<1>1. TypeOK /\ QueuesApart /\ StagesApart
  BY DEF IInv
<1>2. /\ reqRing[c] \in Seq(Request) /\ Len(reqRing[c]) <= 1
      /\ respRing[c] \in Seq(Response) /\ Len(respRing[c]) <= 1
  <2>1. reqRing[c] \in {<<>>, <<req[c]>>} /\ Len(respRing[c]) <= 1
    BY DEF IInv, Holds
  <2>2. Len(reqRing[c]) <= 1
    <3>1. Len(<<>>) = 0 /\ Len(<<req[c]>>) = 1
      OBVIOUS
    <3>2. CASE reqRing[c] = <<>>
      BY <3>1, <3>2
    <3>3. CASE reqRing[c] = <<req[c]>>
      BY <3>1, <3>3
    <3> QED
      BY <2>1, <3>2, <3>3
  <2> QED
    BY <1>1, <2>1, <2>2 DEF TypeOK
<1>3. /\ \A i \in DOMAIN ops : DOMAIN ops[i].sources = {1}
      /\ \A i \in DOMAIN Prepared : DOMAIN Prepared[i].sources = {1}
  <2>1. \A t : DOMAIN Single(t).sources = {1}
    BY DEF Single
  <2>2. /\ \A i \in DOMAIN ops : ops[i] = Single(Tag(ops[i].channel))
        /\ \A i \in DOMAIN batch : batch[i].op = Single(Tag(batch[i].op.channel))
    BY DEF IInv, Holds
  <2>3. \A i \in DOMAIN Prepared : i \in DOMAIN batch /\ Prepared[i] = batch[i].op
    BY DEF Prepared
  <2>4. \A i \in DOMAIN ops : DOMAIN ops[i].sources = {1}
    BY <2>1, <2>2
  <2>5. \A i \in DOMAIN Prepared : DOMAIN Prepared[i].sources = {1}
    BY <2>1, <2>2, <2>3
  <2> QED
    BY <2>4, <2>5
<1> DEFINE A == Ring("reqRing", reqRing[c])
           B == Queued("pending", pending, c)
           C == Merges("ops", ops, c)
           D == Merges("batch", Prepared, c)
           E == Queued("outbox", outbox, c)
           F == Ring("respRing", respRing[c])
           Fits(X, here) == (~ here => X = {}) /\ (here => \E p : X = {p})
<1>4. Fits(A, c \in InRing(reqRing)) /\ Fits(F, c \in InRing(respRing))
  <2>1. /\ reqRing[c] = <<>> => A = {}
        /\ reqRing[c] # <<>> => \E p : A = {p}
    BY <1>2, RingPlaces
  <2>2. /\ respRing[c] = <<>> => F = {}
        /\ respRing[c] # <<>> => \E p : F = {p}
    BY <1>2, RingPlaces
  <2> HIDE DEF A, F
  <2> QED
    BY <2>1, <2>2 DEF InRing
<1>5. Fits(B, c \in Owners(pending)) /\ Fits(E, c \in Owners(outbox))
  BY <1>1, QueuedPlaces DEF QueuesApart
<1>6. Fits(C, c \in Owners(ops)) /\ Fits(D, c \in Owners(Prepared))
  BY <1>1, <1>3, MergesPlaces DEF QueuesApart
<1>7. Places(c) = A \cup B \cup C \cup D \cup E \cup F
  BY DEF Places
<1> HIDE DEF A, B, C, D, E, F
<1>8. c \notin Engaged => Places(c) = {}
  BY <1>4, <1>5, <1>6, <1>7 DEF Engaged, InRound
<1>9. c \in Engaged => \E p : Places(c) = {p}
  BY <1>1, <1>4, <1>5, <1>6, <1>7 DEF Engaged, InRound, StagesApart
<1> QED
  BY <1>8, <1>9, FS_EmptySet, FS_Singleton
-----------------------------------------------------------------------------
(* The properties.                                                         *)

(* Every variable keeps its type: requests and responses are ones the wire *)
(* format has, regions and tables stay within their bounds.                *)
THEOREM Types == Spec => []TypeOK
<1>1. IInv => TypeOK
  BY DEF IInv
<1> QED
  BY <1>1, Invariance, PTL

(* No request is run or answered twice, whatever crashes and restarts.     *)
THEOREM NeverTwice == Spec => []AtMostOnce
<1>1. IInv => AtMostOnce
  <2> SUFFICES ASSUME IInv, NEW c \in Clients
               PROVE  Cardinality(Places(c)) <= IF pc[c] = "wait" THEN 1 ELSE 0
    BY DEF AtMostOnce
  <2>1. c \in Engaged => pc[c] = "wait"
    BY DEF IInv, OnTheWay, Waiting
  <2> QED
    BY <2>1, CallPlaces
<1> QED
  BY <1>1, Invariance, PTL

(* As long as the daemon has not crashed, every call that waits is in      *)
(* exactly one ring, queue or merged operation.                            *)
THEOREM NothingLost == Spec => [](crashes = 0 => Conserved)
<1>1. IInv => (crashes = 0 => Conserved)
  <2> SUFFICES ASSUME IInv, crashes = 0, NEW c \in Clients
               PROVE  Cardinality(Places(c)) = IF pc[c] = "wait" THEN 1 ELSE 0
    BY DEF Conserved
  <2>1. c \in Engaged <=> pc[c] = "wait"
    BY DEF IInv, OnTheWay, Waiting
  <2> QED
    BY <2>1, CallPlaces
<1> QED
  BY <1>1, Invariance, PTL

(* send_request never meets an answer to another request, so it never has  *)
(* to throw one away.                                                      *)
THEOREM AnswersToTheCall == Spec => []AnswersMatch
<1>1. IInv => AnswersMatch
  BY DEF IInv, Holds, Answers, AnswersMatch
<1> QED
  BY <1>1, Invariance, PTL

(* send_response never spins: the response ring of a client it answers is  *)
(* empty.                                                                  *)
THEOREM NoSpin == Spec => []NeverBlocked
<1>1. IInv => NeverBlocked
  <2> SUFFICES ASSUME IInv, outbox # <<>>
               PROVE  Len(respRing[Head(outbox).channel]) < RingCapacity
    BY DEF NeverBlocked
  <2> DEFINE c == Head(outbox).channel
  <2>1. outbox \in Seq(Addressed)
    BY DEF IInv, TypeOK
  <2>2. c \in Owners(outbox) /\ Head(outbox) \in Addressed
    BY <2>1, TailFacts
  <2>3. c \in Clients /\ c \in InRound
    BY <2>2 DEF Addressed, InRound
  <2> HIDE DEF c
  <2>4. respRing[c] = <<>>
    BY <2>3 DEF IInv, StagesApart, InRing
  <2>5. Len(respRing[c]) = 0
    BY <2>4
  <2> QED
    BY <2>5, ProtocolAssumption DEF c
<1> QED
  BY <1>1, Invariance, PTL

(* Open and close keep the fd table and the descriptors of the daemon in   *)
(* step: none leaks, and no two virtual fds share one.                     *)
THEOREM NoLeak == Spec => []FdTableExact
<1>1. IInv => FdTableExact
  <2> SUFFICES ASSUME IInv
               PROVE  IsInjective(fdTable) /\ Range(fdTable) = RealFds \ FreeFds
    BY DEF FdTableExact
  <2>1. TableExact /\ fdTable \in Tables(1 .. nextFd - 1, RealFds)
    BY DEF IInv, TypeOK
  <2>2. fdTable \in [DOMAIN fdTable -> RealFds]
    BY <2>1, TablesFacts
  <2>3. IsInjective(fdTable)
    BY <2>1 DEF IsInjective, TableExact
  <2>4. Range(fdTable) = RealFds \ FreeFds
    BY <2>1, <2>2 DEF TableExact, FreeFds, Range
  <2> QED
    BY <2>3, <2>4
<1> QED
  BY <1>1, Invariance, PTL

(* As long as the daemon has not crashed, a prepared operation acts on the *)
(* file its own client opened under the virtual fd it names.               *)
THEOREM Isolated == Spec => [](crashes = 0 => Isolation)
<1>1. IInv => (crashes = 0 => Isolation)
  <2> SUFFICES ASSUME IInv, crashes = 0, NEW i \in DOMAIN batch
               PROVE  LET op == batch[i].op
                      IN  /\ op.req.fd \in DOMAIN handles[op.channel]
                          /\ openFile[batch[i].fd] = handles[op.channel][op.req.fd]
    BY DEF Isolation
  <2> DEFINE c == batch[i].op.channel
             v == batch[i].op.req.fd
  <2>1. c \in Clients /\ c \in Engaged
    BY ElementTypes, ElementOwners DEF IInv, Engaged, InRound
  <2>2. batch[i].op.req = req[c] /\ req[c].op # "Open"
    <3>1. batch[i].op = Single(Tag(c)) /\ batch[i].op.req.op \in {"Read", "Write", "Sync"}
      BY DEF IInv, Holds
    <3> QED
      BY <3>1 DEF Single, Tag, Tagged
  <2>3. v \in DOMAIN handles[c]
    BY <2>1, <2>2, ServedCall
  <2>4. Ownership
    BY DEF IInv
  <2>5. v \in DOMAIN fdTable /\ batch[i].fd = fdTable[v]
    BY <2>4 DEF Ownership
  <2> HIDE DEF c, v
  <2>6. openFile[fdTable[v]] = handles[c][v]
    BY <2>1, <2>3, <2>4, <2>5 DEF Ownership
  <2> QED
    BY <2>3, <2>5, <2>6 DEF c, v
<1> QED
  BY <1>1, Invariance, PTL

(* A daemon that stopped, and never crashed, answered everything it took.  *)
THEOREM NothingAbandoned == Spec => [](crashes = 0 => StopsClean)
<1>1. IInv => (crashes = 0 => StopsClean)
  <2> SUFFICES ASSUME IInv, crashes = 0, svc = "stopped", NEW c \in Clients, pc[c] = "wait"
               PROVE  reqRing[c] # <<>> \/ respRing[c] # <<>>
    BY DEF StopsClean
  <2>1. c \in Engaged
    BY DEF IInv, OnTheWay, Waiting
  <2>2. pending = <<>> /\ ops = <<>> /\ batch = <<>> /\ outbox = <<>>
    BY DEF IInv, Phases
  <2>3. Owners(pending) = {} /\ InRound = {}
    <3>1. Prepared = <<>>
      BY <2>2 DEF Prepared
    <3> QED
      BY <2>2, <3>1, EmptyQueue DEF InRound
  <2> QED
    BY <2>1, <2>3 DEF Engaged, InRing
<1> QED
  BY <1>1, Invariance, PTL
=============================================================================
