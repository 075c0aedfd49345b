---------------------------- MODULE AtlasIOProofs ----------------------------
(***************************************************************************)
(* As long as the daemon does not crash, clients and daemon implement      *)
(* AtlasIO: every call takes effect once and atomically.                   *)
(***************************************************************************)
EXTENDS AtlasSystemProofs

\* A ring with at most one element.
LEMMA ShortRing ==
  ASSUME NEW S, NEW ring \in Seq(S), Len(ring) <= 1, ring # <<>>
  PROVE  DOMAIN ring = {1} /\ Head(ring) = ring[1] /\ Tail(ring) = <<>>
<1>1. Len(ring) \in Nat /\ DOMAIN ring = 1 .. Len(ring) /\ Head(ring) = ring[1]
  OBVIOUS
<1>2. Len(ring) # 0
  OBVIOUS
<1>3. Len(ring) = 1
  BY <1>1, <1>2
<1>4. DOMAIN ring = {1}
  BY <1>1, <1>3
<1>5. Tail(ring) \in Seq(S) /\ Len(Tail(ring)) = 0
  BY <1>3
<1>6. Tail(ring) = <<>>
  BY <1>5
<1> QED
  BY <1>1, <1>4, <1>6

(* The decisions: responses on their way, and those that the results of the*)
(* batch will be answered with.                                            *)
Settled(b) == [channel |-> b.op.channel, resp |-> BatchResponse(b, b.op.sources[1])]
Finished == {i \in DOMAIN batch : batch[i].status # "todo"}
Verdicts == {Settled(batch[i]) : i \in Finished}
Decisions == Mail \cup Verdicts

(* The call of a client, told from its decision.                           *)
CallsDecided ==
  \A c \in Clients :
    /\ pc[c] = "idle" => CallOf(c) = [state |-> "idle", res |-> got[c]]
    /\ pc[c] # "idle" /\ (\A m \in Decisions : m.channel # c) =>
         CallOf(c) = [state |-> "pending", req |-> Carried(c)]
    /\ \A m \in Decisions : m.channel = c =>
         /\ pc[c] = "wait"
         /\ CallOf(c) = [state |-> "done", res |-> Returned(c, m.resp)]

\* A batch entry has one source, its request.
LEMMA OneSource ==
  ASSUME IInv, NEW i \in DOMAIN batch
  PROVE  LET b == batch[i]
             c == b.op.channel
         IN  /\ c \in Clients /\ c \in Owners(Prepared)
             /\ b.op.req = req[c]
             /\ b.op.sources = <<[id |-> req[c].id, within |-> 0, len |-> req[c].len]>>
             /\ BatchReplies(b) = <<Settled(b)>>
<1> DEFINE b == batch[i]
           c == b.op.channel
           s == [id |-> req[c].id, within |-> 0, len |-> req[c].len]
<1>1. c \in Clients /\ c \in Owners(Prepared)
  BY ElementTypes, ElementOwners DEF IInv
<1>2. b.op = Single(Tag(c))
  BY DEF IInv, Holds
<1>3. b.op.req = req[c]
  BY <1>2 DEF Single, Tag, Tagged
<1>4. b.op.sources = <<s>>
  BY <1>2 DEF Single, Tag, Tagged
<1> HIDE DEF b, c, s
<1>5. b.op.sources[1] = s /\ DOMAIN b.op.sources = {1}
  BY <1>4
<1>6. BatchReplies(b) = <<Reply(b.op, BatchResponse(b, s))>>
  BY <1>4 DEF BatchReplies, ReplyAll
<1>7. BatchReplies(b) = <<Settled(b)>>
  BY <1>5, <1>6 DEF Reply, Settled
<1> QED
  BY <1>1, <1>3, <1>4, <1>7 DEF b, c, s

\* Every decision is for a client that waits, and no client has two.
LEMMA OneDecision ==
  ASSUME IInv
  PROVE  /\ \A m \in Decisions : m.channel \in Engaged /\ m.channel \in Clients
         /\ \A m, n \in Decisions : m.channel = n.channel => m = n
         /\ \A m \in Verdicts : m.channel \in Owners(Prepared)
         /\ \A m \in Mail : m.channel \in Owners(outbox) \cup InRing(respRing)
<1> DEFINE O == {outbox[i] : i \in DOMAIN outbox}
           R == {[channel |-> c, resp |-> Head(respRing[c])] : c \in InRing(respRing)}
<1>1. /\ \A m \in O : m.channel \in Owners(outbox) /\ m.channel \in Clients
      /\ \A m, n \in O : m.channel = n.channel => m = n
  BY ElementTypes, ElementOwners DEF IInv, QueuesApart, Apart
<1>2. /\ \A m \in R : m.channel \in InRing(respRing) /\ m.channel \in Clients
      /\ \A m, n \in R : m.channel = n.channel => m = n
  BY DEF InRing
<1>3. /\ \A m \in Verdicts : m.channel \in Owners(Prepared) /\ m.channel \in Clients
      /\ \A m, n \in Verdicts : m.channel = n.channel => m = n
  <2>1. \A i \in DOMAIN batch : /\ Settled(batch[i]).channel \in Owners(Prepared)
                                /\ Settled(batch[i]).channel \in Clients
    BY OneSource DEF Settled
  <2>2. \A i, j \in DOMAIN batch :
          Settled(batch[i]).channel = Settled(batch[j]).channel => i = j
    <3>1. \A i, j \in DOMAIN Prepared : Prepared[i].channel = Prepared[j].channel => i = j
      BY DEF IInv, QueuesApart, Apart
    <3>2. \A i \in DOMAIN batch : i \in DOMAIN Prepared /\ Prepared[i] = batch[i].op
      BY DEF Prepared
    <3>3. \A i \in DOMAIN batch : Settled(batch[i]).channel = Prepared[i].channel
      BY <3>2 DEF Settled
    <3> QED
      BY <3>1, <3>2, <3>3
  <2> QED
    BY <2>1, <2>2 DEF Verdicts, Finished
<1>4. /\ Owners(Prepared) \cap Owners(outbox) = {}
      /\ InRing(respRing) \cap Owners(Prepared) = {}
      /\ InRing(respRing) \cap Owners(outbox) = {}
      /\ Owners(Prepared) \cup Owners(outbox) \cup InRing(respRing) \subseteq Engaged
  BY DEF IInv, StagesApart, InRound, Engaged
<1>5. Mail = O \cup R
  BY DEF Mail
<1> HIDE DEF O, R
<1> QED
  BY <1>1, <1>2, <1>3, <1>4, <1>5 DEF Decisions

\* What is decided for c are the decisions addressed to it.
LEMMA DecidedIs ==
  ASSUME IInv, NEW c \in Clients
  PROVE  Decided(c) = {m.resp : m \in {n \in Decisions : n.channel = c}}
<1> DEFINE R == {respRing[c][i] : i \in DOMAIN respRing[c]}
           O == ResponsesTo(c, outbox)
           B == UNION {ResponsesTo(c, BatchReplies(batch[i])) : i \in Finished}
<1>1. Decided(c) = R \cup O \cup B
  BY DEF Decided, Finished
<1>2. \A resp : resp \in R <=> (c \in InRing(respRing) /\ resp = Head(respRing[c]))
  <2>1. respRing[c] \in Seq(Response) /\ Len(respRing[c]) <= 1
    BY DEF IInv, TypeOK, Holds
  <2>2. CASE respRing[c] = <<>>
    BY <2>2 DEF InRing
  <2>3. CASE respRing[c] # <<>>
    <3>1. DOMAIN respRing[c] = {1} /\ Head(respRing[c]) = respRing[c][1]
      BY <2>1, <2>3, ShortRing
    <3> QED
      BY <2>3, <3>1 DEF InRing
  <2> QED
    BY <2>2, <2>3
<1>3. \A resp : resp \in O <=> \E i \in DOMAIN outbox : outbox[i].channel = c /\ outbox[i].resp = resp
  BY DEF ResponsesTo
<1>4. \A resp : resp \in B <=> \E i \in Finished :
                  Settled(batch[i]).channel = c /\ Settled(batch[i]).resp = resp
  <2>1. \A i \in Finished : BatchReplies(batch[i]) = <<Settled(batch[i])>>
    BY OneSource DEF Finished
  <2>2. \A i \in Finished : \A resp :
          resp \in ResponsesTo(c, BatchReplies(batch[i]))
            <=> Settled(batch[i]).channel = c /\ Settled(batch[i]).resp = resp
    <3> SUFFICES ASSUME NEW i \in Finished, NEW resp
                 PROVE  resp \in ResponsesTo(c, BatchReplies(batch[i]))
                          <=> Settled(batch[i]).channel = c /\ Settled(batch[i]).resp = resp
      OBVIOUS
    <3> DEFINE q == BatchReplies(batch[i])
               m == Settled(batch[i])
    <3>1. q = <<m>>
      BY <2>1
    <3> HIDE DEF q, m
    <3>2. DOMAIN q = {1} /\ q[1] = m
      BY <3>1
    <3>3. resp \in ResponsesTo(c, q) <=> m.channel = c /\ m.resp = resp
      BY <3>2 DEF ResponsesTo
    <3> QED
      BY <3>3 DEF q, m
  <2> QED
    BY <2>2
<1> HIDE DEF R, O, B
<1>5. \A resp : resp \in Decided(c) <=> \E m \in Decisions : m.channel = c /\ m.resp = resp
  <2> DEFINE Rings == {[channel |-> d, resp |-> Head(respRing[d])] : d \in InRing(respRing)}
             Out == {outbox[i] : i \in DOMAIN outbox}
  <2>1. \A resp : resp \in R <=> \E m \in Rings : m.channel = c /\ m.resp = resp
    <3>1. ASSUME c \in InRing(respRing)
          PROVE  \E m \in Rings : m.channel = c /\ m.resp = Head(respRing[c])
      <4>1. [channel |-> c, resp |-> Head(respRing[c])] \in Rings
        BY <3>1
      <4> QED
        BY <4>1
    <3>2. \A m \in Rings : m.channel = c => c \in InRing(respRing) /\ m.resp = Head(respRing[c])
      OBVIOUS
    <3> HIDE DEF Rings
    <3> QED
      BY <1>2, <3>1, <3>2
  <2>2. \A resp : resp \in O <=> \E m \in Out : m.channel = c /\ m.resp = resp
    BY <1>3
  <2>3. \A resp : resp \in B <=> \E m \in Verdicts : m.channel = c /\ m.resp = resp
    BY <1>4 DEF Verdicts
  <2>4. Decisions = Out \cup Rings \cup Verdicts
    BY DEF Decisions, Mail
  <2> HIDE DEF Rings, Out
  <2> QED
    BY <1>1, <2>1, <2>2, <2>3, <2>4
<1> QED
  BY <1>5

(* What the inductive invariant says of the calls under way, in the terms  *)
(* of AtlasIO.                                                             *)
LEMMA CallFacts == IInv => CallsDecided
<1> SUFFICES ASSUME IInv, NEW c \in Clients
             PROVE  /\ pc[c] = "idle" => CallOf(c) = [state |-> "idle", res |-> got[c]]
                    /\ pc[c] # "idle" /\ (\A m \in Decisions : m.channel # c) =>
                         CallOf(c) = [state |-> "pending", req |-> Carried(c)]
                    /\ \A m \in Decisions : m.channel = c =>
                         /\ pc[c] = "wait"
                         /\ CallOf(c) = [state |-> "done", res |-> Returned(c, m.resp)]
  BY DEF CallsDecided
<1>1. CASE \A m \in Decisions : m.channel # c
  <2>1. Decided(c) = {}
    BY <1>1, DecidedIs
  <2> QED
    BY <1>1, <2>1 DEF CallOf
<1>2. ASSUME NEW m \in Decisions, m.channel = c
      PROVE  pc[c] = "wait" /\ CallOf(c) = [state |-> "done", res |-> Returned(c, m.resp)]
  <2>1. Decided(c) = {m.resp}
    BY <1>2, DecidedIs, OneDecision
  <2>2. pc[c] = "wait"
    BY <1>2, OneDecision DEF IInv, OnTheWay, Waiting
  <2>3. (CHOOSE resp \in Decided(c) : TRUE) = m.resp
    BY <2>1
  <2> QED
    BY <2>1, <2>2, <2>3 DEF CallOf
<1> QED
  BY <1>1, <1>2 DEF CallOf

(* The same facts in the state a step leads to.                            *)
LEMMA CallFactsNext == IInv' => CallsDecided'
BY CallFacts, PTL

-----------------------------------------------------------------------------
(* How a step of the system changes the calls.                             *)

\* What an application asks, and what it makes of a response, when its
\* region holds this data.
Asked(r, data) ==
  AppRequest(r.op, r.fd, r.offset, r.len, r.path,
             IF r.op = "Write" THEN Slice(data, r.data_offset, r.len) ELSE <<>>)
Told(op, resp, data) ==
  [status |-> resp.status, fd |-> resp.fd, len |-> resp.data_len,
   data |-> IF op = "Read" THEN Slice(data, resp.data_offset, resp.data_len) ELSE <<>>]

(* A client whose decision stays sees nothing.                             *)
LEMMA CallKept ==
  ASSUME CallsDecided, CallsDecided', NEW c \in Clients,
         pc[c] = "idle" <=> pc'[c] = "idle",
         req'[c] = req[c], got'[c] = got[c], region'[c] = region[c],
         \A m : m \in Decisions /\ m.channel = c <=> m \in Decisions' /\ m.channel = c
  PROVE  Calls'[c] = Calls[c]
<1> SUFFICES CallOf(c)' = CallOf(c)
  BY DEF Calls
<1>1. CASE pc[c] = "idle"
  BY <1>1 DEF CallsDecided
<1>2. CASE pc[c] # "idle" /\ \A m \in Decisions : m.channel # c
  <2>1. \A m \in Decisions' : m.channel # c
    BY <1>2
  <2>2. Carried(c)' = Carried(c)
    BY DEF Carried, AppRequest, Slice
  <2> QED
    BY <1>2, <2>1, <2>2 DEF CallsDecided
<1>3. ASSUME NEW m \in Decisions, m.channel = c
      PROVE  CallOf(c)' = CallOf(c)
  <2>1. m \in Decisions'
    BY <1>3
  <2>2. Returned(c, m.resp)' = Returned(c, m.resp)
    BY DEF Returned, Slice
  <2>3. CallOf(c) = [state |-> "done", res |-> Returned(c, m.resp)]
    BY <1>3 DEF CallsDecided
  <2>4. CallOf(c)' = [state |-> "done", res |-> Returned(c, m.resp)']
    BY <1>3, <2>1 DEF CallsDecided
  <2> QED
    BY <2>2, <2>3, <2>4
<1> QED
  BY <1>1, <1>2, <1>3

(* A step that changes no decision changes no call.                        *)
LEMMA CallsKept ==
  ASSUME CallsDecided, CallsDecided',
         \A c \in Clients : pc[c] = "idle" <=> pc'[c] = "idle",
         UNCHANGED <<req, got, region>>, Decisions' = Decisions
  PROVE  Calls' = Calls
<1>1. \A c \in Clients : Calls'[c] = Calls[c]
  BY CallKept
<1> QED
  BY <1>1 DEF Calls

(* A step that decides the call of c ends it, and changes no other.        *)
LEMMA CallDecided ==
  ASSUME IInv, CallsDecided, CallsDecided', UNCHANGED <<pc, req, got>>,
         NEW m, m.channel \in Clients, m.channel \in Engaged,
         \A n \in Decisions : n.channel # m.channel,
         Decisions' = Decisions \cup {m},
         \A d \in Clients : d # m.channel => region'[d] = region[d]
  PROVE  /\ Calls[m.channel] = [state |-> "pending", req |-> Carried(m.channel)]
         /\ Calls' = [Calls EXCEPT ![m.channel] =
                        [state |-> "done",
                         res |-> Told(req[m.channel].op, m.resp, region'[m.channel])]]
<1> DEFINE c == m.channel
           res == Told(req[c].op, m.resp, region'[c])
<1>1. pc[c] = "wait"
  BY DEF IInv, OnTheWay, Waiting
<1>2. CallOf(c) = [state |-> "pending", req |-> Carried(c)]
  BY <1>1 DEF CallsDecided
<1>3. CallOf(c)' = [state |-> "done", res |-> res]
  <2>1. Returned(c, m.resp)' = res
    BY DEF Returned, Told
  <2> QED
    BY <2>1 DEF CallsDecided
<1>4. ASSUME NEW d \in Clients, d # c PROVE Calls'[d] = Calls[d]
  <2>1. \A n : n \in Decisions /\ n.channel = d <=> n \in Decisions' /\ n.channel = d
    BY <1>4
  <2> QED
    BY <1>4, <2>1, CallKept
<1> HIDE DEF c, res
<1>5. Calls' = [d \in Clients |-> CallOf(d)']
  BY DEF Calls
<1>6. Calls' = [Calls EXCEPT ![c] = [state |-> "done", res |-> res]]
  BY <1>3, <1>4, <1>5 DEF Calls
<1> QED
  BY <1>2, <1>6 DEF Calls, c, res

(* What the decisions are made of.                                         *)
LEMMA DecisionsFrom ==
  /\ UNCHANGED <<outbox, respRing>> => Mail' = Mail
  /\ UNCHANGED batch => Verdicts' = Verdicts
  /\ UNCHANGED <<outbox, respRing, batch>> => Decisions' = Decisions
BY DEF Mail, InRing, Verdicts, Finished, Settled, BatchResponse, ReadResponse, WriteResponse,
       ResponseErr, ResponseOk, Decisions

-----------------------------------------------------------------------------
(* The steps an application does not see.                                  *)

LEMMA Unseen ==
  ASSUME IInv, IInv', \A c \in Clients : pc[c] = "idle" <=> pc'[c] = "idle",
         UNCHANGED <<req, got, region>>, Decisions' = Decisions,
         UNCHANGED <<fdVars, storageVars>>
  PROVE  UNCHANGED IO!vars
<1>1. Calls' = Calls
  BY CallFacts, CallFactsNext, CallsKept
<1>2. UNCHANGED <<fdTable, nextFd, openFile, files, durable>>
  BY DEF fdVars, storageVars
<1>3. OpenPaths' = OpenPaths /\ (1 .. nextFd - 1)' = 1 .. nextFd - 1
  BY <1>2 DEF OpenPaths
<1> QED
  BY <1>1, <1>2, <1>3 DEF IO!vars

\* Polling, the end of a round and its beginning, signals, deaths.
LEMMA UnseenStep ==
  ASSUME IInv, IInv', UNCHANGED <<pc, req, got, region, outbox, respRing, batch>>,
         UNCHANGED <<fdVars, storageVars>>
  PROVE  UNCHANGED IO!vars
<1>1. Decisions' = Decisions
  BY DecisionsFrom
<1> QED
  BY <1>1, Unseen

(* Writing the request into the ring is a stutter of AtlasIO: the call was *)
(* invoked when the client filled it in.                                   *)
LEMMA PushUnseen ==
  ASSUME IInv, IInv', NEW c \in Clients, PushRequest(c), ServiceUnchanged
  PROVE  UNCHANGED IO!vars
<1>1. /\ UNCHANGED <<req, got, region, outbox, respRing, batch>>
      /\ UNCHANGED <<fdVars, storageVars>>
      /\ pc[c] = "push" /\ pc' = [pc EXCEPT ![c] = "wait"]
  BY DEF PushRequest, ServiceUnchanged, serviceVars, roundVars
<1>2. \A d \in Clients : pc[d] = "idle" <=> pc'[d] = "idle"
  BY <1>1 DEF IInv, TypeOK
<1>3. Decisions' = Decisions
  BY <1>1, DecisionsFrom
<1> QED
  BY <1>1, <1>2, <1>3, Unseen

\* A prepared operation is not decided.
LEMMA PreparedUnseen ==
  ASSUME IInv, IInv', CallsUnchanged, Prepare,
         Head(ops).req.fd \in DOMAIN fdTable
  PROVE  UNCHANGED IO!vars
<1> DEFINE b == [op |-> Head(ops), fd |-> fdTable[Head(ops).req.fd], status |-> "todo", n |-> 0]
<1>1. /\ UNCHANGED <<pc, req, got, region, respRing, outbox>>
      /\ UNCHANGED <<fdVars, storageVars>> /\ batch' = Append(batch, b)
  BY DEF Prepare, CallsUnchanged, clientVars, sharedVars
<1>2. batch \in Seq(BatchEntry) /\ batch' \in Seq(BatchEntry)
  BY DEF IInv, TypeOK
<1>3. b.status = "todo"
  OBVIOUS
<1> HIDE DEF b
<1>4. /\ DOMAIN batch = 1 .. Len(batch) /\ DOMAIN batch' = 1 .. Len(batch) + 1
      /\ Len(batch) \in Nat
      /\ \A i \in 1 .. Len(batch) : batch'[i] = batch[i]
      /\ batch'[Len(batch) + 1] = b
  <2>1. Len(batch') = Len(batch) + 1 /\ Len(batch) \in Nat
    <3>1. \E S : batch \in Seq(S) /\ b \in S
      <4>1. batch \in Seq(BatchEntry \cup {b})
        BY <1>2
      <4> QED
        BY <4>1
    <3> QED
      BY <1>1, <3>1
  <2> QED
    BY <1>1, <1>2, <2>1
<1>5. Finished' = Finished
  BY <1>3, <1>4 DEF Finished
<1>6. Verdicts' = {Settled(batch'[i]) : i \in Finished'}
  BY DEF Verdicts, Settled, BatchResponse, ReadResponse, WriteResponse, ResponseErr, ResponseOk
<1>7. Verdicts' = Verdicts
  BY <1>4, <1>5, <1>6 DEF Verdicts, Finished
<1>8. Decisions' = Decisions
  BY <1>1, <1>7, DecisionsFrom DEF Decisions
<1> QED
  BY <1>1, <1>8, Unseen

\* The verdict of the first entry becomes a response about to be sent.
LEMMA RespondUnseen ==
  ASSUME IInv, IInv', CallsUnchanged, Respond
  PROVE  UNCHANGED IO!vars
<1> DEFINE m == Settled(batch[1])
<1>1. /\ UNCHANGED <<pc, req, got, region, respRing>> /\ UNCHANGED <<fdVars, storageVars>>
      /\ outbox = <<>> /\ batch # <<>> /\ outbox' = BatchReplies(Head(batch))
      /\ batch' = Tail(batch) /\ \A i \in DOMAIN batch : batch[i].status # "todo"
  BY DEF Respond, CallsUnchanged, clientVars, sharedVars
<1>2. batch \in Seq(BatchEntry)
  BY DEF IInv, TypeOK
<1>3. /\ Len(batch) \in Nat \ {0} /\ DOMAIN batch = 1 .. Len(batch)
      /\ DOMAIN batch' = 1 .. Len(batch) - 1 /\ Head(batch) = batch[1]
      /\ \A i \in 1 .. Len(batch) - 1 : batch'[i] = batch[i + 1]
  BY <1>1, <1>2
<1>4. outbox' = <<m>>
  <2>1. 1 \in DOMAIN batch
    BY <1>3
  <2>2. BatchReplies(batch[1]) = <<m>>
    BY <2>1, OneSource
  <2> QED
    BY <1>1, <1>3, <2>2
<1> HIDE DEF m
<1>5. DOMAIN outbox' = {1} /\ outbox'[1] = m /\ DOMAIN outbox = {}
  BY <1>1, <1>4
<1>6. Mail' = Mail \cup {m}
  BY <1>1, <1>5 DEF Mail, InRing
<1>7. Finished = 1 .. Len(batch) /\ Finished' = 1 .. Len(batch) - 1
  BY <1>1, <1>3 DEF Finished
<1>8. Verdicts' = {Settled(batch'[i]) : i \in Finished'}
  BY DEF Verdicts, Settled
<1>9. Verdicts = Verdicts' \cup {m}
  <2>1. \A n \in Verdicts' : n \in Verdicts
    BY <1>3, <1>7, <1>8 DEF Verdicts
  <2>2. m \in Verdicts
    BY <1>3, <1>7 DEF Verdicts, m
  <2>3. \A n \in Verdicts : n \in Verdicts' \/ n = m
    <3> SUFFICES ASSUME NEW i \in 1 .. Len(batch), i # 1 PROVE Settled(batch[i]) \in Verdicts'
      BY <1>7 DEF Verdicts, m
    <3>1. i - 1 \in 1 .. Len(batch) - 1 /\ batch'[i - 1] = batch[i]
      BY <1>3
    <3> QED
      BY <1>7, <1>8, <3>1
  <2> QED
    BY <2>1, <2>2, <2>3
<1>10. Decisions' = Decisions
  BY <1>6, <1>9 DEF Decisions
<1> QED
  BY <1>1, <1>10, Unseen

\* The response goes from the daemon to the ring of its client.
LEMMA SendUnseen ==
  ASSUME IInv, IInv', CallsUnchanged, SendResponse
  PROVE  UNCHANGED IO!vars
<1> DEFINE m == Head(outbox)
           c == m.channel
<1>1. /\ UNCHANGED <<pc, req, got, region, batch>> /\ UNCHANGED <<fdVars, storageVars>>
      /\ outbox # <<>> /\ outbox' = Tail(outbox)
      /\ respRing' = [respRing EXCEPT ![c] = Append(respRing[c], m.resp)]
  BY DEF SendResponse, CallsUnchanged, clientVars
<1>2. outbox \in Seq(Addressed) /\ respRing \in [Clients -> Seq(Response)]
  BY DEF IInv, TypeOK
<1>3. /\ m \in Addressed /\ c \in Owners(outbox) /\ m = outbox[1] /\ 1 \in DOMAIN outbox
      /\ \A i \in DOMAIN outbox' : i + 1 \in DOMAIN outbox /\ outbox'[i] = outbox[i + 1]
  BY <1>1, <1>2, TailFacts
<1>4. \A i \in DOMAIN outbox : i = 1 \/ (i - 1 \in DOMAIN outbox' /\ outbox'[i - 1] = outbox[i])
  <2>1. /\ Len(outbox) \in Nat /\ DOMAIN outbox = 1 .. Len(outbox)
        /\ DOMAIN outbox' = 1 .. Len(outbox) - 1
        /\ \A i \in 1 .. Len(outbox) - 1 : outbox'[i] = outbox[i + 1]
    BY <1>1, <1>2
  <2> QED
    BY <2>1
<1> HIDE DEF m
<1>5. c \in Clients /\ m.resp \in Response /\ m = [channel |-> c, resp |-> m.resp]
  BY <1>3 DEF Addressed
<1>6. respRing[c] = <<>>
  BY <1>3, <1>5 DEF IInv, StagesApart, InRound, InRing
<1>7. /\ respRing'[c] # <<>> /\ Head(respRing'[c]) = m.resp
      /\ \A d \in Clients : d # c => respRing'[d] = respRing[d]
  <2>1. Append(respRing[c], m.resp) = <<m.resp>>
    BY <1>5, <1>6
  <2> QED
    BY <1>1, <1>2, <1>5, <2>1
<1>8. m \in Mail'
  BY <1>5, <1>7 DEF Mail, InRing, c
<1> HIDE DEF c
<1>9. Mail' = Mail
  <2>1. ASSUME NEW n \in Mail PROVE n \in Mail'
    <3>1. CASE \E i \in DOMAIN outbox : n = outbox[i]
      BY <1>3, <1>4, <1>8, <3>1 DEF Mail
    <3>2. CASE \E d \in InRing(respRing) : n = [channel |-> d, resp |-> Head(respRing[d])]
      <4>1. PICK d \in InRing(respRing) : n = [channel |-> d, resp |-> Head(respRing[d])]
        BY <3>2
      <4>2. d \in InRing(respRing)' /\ respRing'[d] = respRing[d]
        BY <1>6, <1>7, <4>1 DEF InRing
      <4> QED
        BY <4>1, <4>2 DEF Mail
    <3> QED
      BY <3>1, <3>2 DEF Mail
  <2>2. ASSUME NEW n \in Mail' PROVE n \in Mail
    <3>1. CASE \E i \in DOMAIN outbox' : n = outbox'[i]
      BY <1>3, <3>1 DEF Mail
    <3>2. CASE \E d \in InRing(respRing)' : n = [channel |-> d, resp |-> Head(respRing'[d])]
      <4>1. PICK d \in InRing(respRing)' : n = [channel |-> d, resp |-> Head(respRing'[d])]
        BY <3>2
      <4>2. CASE d = c
        BY <1>3, <1>5, <1>7, <4>1, <4>2 DEF Mail
      <4>3. CASE d # c
        <5>1. d \in InRing(respRing) /\ n = [channel |-> d, resp |-> Head(respRing[d])]
          BY <1>7, <4>1, <4>3 DEF InRing
        <5> QED
          BY <5>1 DEF Mail
      <4> QED
        BY <4>2, <4>3
    <3> QED
      BY <3>1, <3>2 DEF Mail
  <2> QED
    BY <2>1, <2>2
<1>10. Decisions' = Decisions
  BY <1>1, <1>9, DecisionsFrom DEF Decisions
<1> QED
  BY <1>1, <1>10, Unseen
-----------------------------------------------------------------------------
(* Calls and their return.                                                 *)

LEMMA PopReturns ==
  ASSUME IInv, IInv', NEW c \in Clients, PopResponse(c), ServiceUnchanged
  PROVE  IO!Return(c)
<1> DEFINE r == Head(respRing[c])
           m == [channel |-> c, resp |-> r]
<1>1. /\ pc[c] = "wait" /\ respRing[c] # <<>>
      /\ respRing' = [respRing EXCEPT ![c] = Tail(respRing[c])]
      /\ UNCHANGED <<region, outbox, batch>> /\ UNCHANGED <<fdVars, storageVars>>
  BY DEF PopResponse, ServiceUnchanged, serviceVars, roundVars
<1>2. /\ respRing \in [Clients -> Seq(Response)] /\ respRing[c] \in Seq(Response)
      /\ Len(respRing[c]) <= 1
      /\ pc \in [Clients -> {"idle", "push", "wait"}] /\ req \in [Clients -> Request]
  BY DEF IInv, TypeOK, Holds
<1>3. r.id = req[c].id
  <2>1. 1 \in DOMAIN respRing[c] /\ r = respRing[c][1]
    BY <1>1, <1>2, ShortRing
  <2> QED
    BY <2>1 DEF IInv, Holds, Answers
<1>4. ReturnToCaller(c, r)
  BY <1>3 DEF PopResponse
<1>5. /\ got' = [got EXCEPT ![c] = Returned(c, r)] /\ pc' = [pc EXCEPT ![c] = "idle"]
      /\ req' = [req EXCEPT ![c] = NoRequest]
  BY <1>4 DEF ReturnToCaller
<1>6. /\ respRing'[c] = <<>> /\ \A d \in Clients : d # c => respRing'[d] = respRing[d]
  BY <1>1, <1>2, ShortRing
<1>7. m \in Mail
  BY <1>1 DEF Mail, InRing
<1>8. \A n : n.channel # c => (n \in Mail <=> n \in Mail')
  BY <1>1, <1>6 DEF Mail, InRing
<1>9. \A d \in Clients : d # c =>
        \A n : n \in Decisions /\ n.channel = d <=> n \in Decisions' /\ n.channel = d
  BY <1>1, <1>8, DecisionsFrom DEF Decisions
<1>10. CallsDecided /\ CallsDecided'
  BY CallFacts, CallFactsNext
<1>11. CallOf(c) = [state |-> "done", res |-> Returned(c, r)]
  <2>1. m \in Decisions /\ m.channel = c /\ m.resp = r
    BY <1>7 DEF Decisions
  <2> HIDE DEF m, r
  <2> QED
    BY <1>10, <2>1 DEF CallsDecided
<1>12. pc'[c] = "idle"
  BY <1>2, <1>5
<1>13. CallOf(c)' = [state |-> "idle", res |-> got'[c]]
  BY <1>10, <1>12 DEF CallsDecided
<1>14. got'[c] = Returned(c, r)
  BY <1>5 DEF IInv, TypeOK
<1>15. \A d \in Clients : d # c => Calls'[d] = Calls[d]
  <2> SUFFICES ASSUME NEW d \in Clients, d # c PROVE Calls'[d] = Calls[d]
    OBVIOUS
  <2>1. /\ pc'[d] = pc[d] /\ req'[d] = req[d] /\ got'[d] = got[d] /\ region'[d] = region[d]
    BY <1>1, <1>5 DEF IInv, TypeOK
  <2>2. \A n : n \in Decisions /\ n.channel = d <=> n \in Decisions' /\ n.channel = d
    BY <1>9
  <2> QED
    BY <1>10, <2>1, <2>2, CallKept
<1> DEFINE res == Returned(c, r)
<1> HIDE DEF res
<1>16. Calls' = [d \in Clients |-> CallOf(d)']
  BY DEF Calls
<1>17. Calls[c] = [state |-> "done", res |-> res]
  BY <1>11 DEF Calls, res
<1>18. Calls' = [Calls EXCEPT ![c] = [state |-> "idle", res |-> res]]
  BY <1>13, <1>14, <1>15, <1>16 DEF Calls, res
<1>19. Calls[c].state = "done" /\ Calls[c].res = res
  BY <1>17
<1>20. Calls' = [Calls EXCEPT ![c] = IO!Idle(Calls[c].res)]
  BY <1>18, <1>19 DEF IO!Idle
<1>21. OpenPaths' = OpenPaths /\ nextFd' = nextFd /\ UNCHANGED <<files, durable>>
  BY <1>1 DEF fdVars, storageVars, OpenPaths
<1> QED
  BY <1>19, <1>20, <1>21 DEF IO!Return

(* A client that fills in a request invokes the operation it is for.       *)
LEMMA SubmitInvokes ==
  ASSUME IInv, IInv', NEW c \in Clients, NEW r, Submit(c, r), ServiceUnchanged,
         \A d \in Clients : d # c => region'[d] = region[d],
         Asked(r, region'[c]) \in AppRequests
  PROVE  IO!Invoke(c)
<1>1. /\ pc[c] = "idle" /\ pc' = [pc EXCEPT ![c] = "push"] /\ req' = [req EXCEPT ![c] = r]
      /\ got' = [got EXCEPT ![c] = NoResult]
      /\ UNCHANGED <<respRing, outbox, batch>> /\ UNCHANGED <<fdVars, storageVars>>
  BY DEF Submit, ServiceUnchanged, serviceVars, roundVars
<1>2. Decisions' = Decisions
  BY <1>1, DecisionsFrom
<1>3. CallsDecided /\ CallsDecided'
  BY CallFacts, CallFactsNext
<1>4. pc'[c] = "push" /\ \A d \in Clients : d # c =>
        pc'[d] = pc[d] /\ req'[d] = req[d] /\ got'[d] = got[d]
  BY <1>1 DEF IInv, TypeOK
<1>5. CallOf(c) = [state |-> "idle", res |-> got[c]]
  BY <1>1, <1>3 DEF CallsDecided
<1>6. \A m \in Decisions' : m.channel # c
  BY <1>1, <1>2, <1>3 DEF CallsDecided
<1>7. CallOf(c)' = [state |-> "pending", req |-> Asked(r, region'[c])]
  <2>1. req'[c] = r
    BY <1>1 DEF IInv, TypeOK
  <2>2. Carried(c)' = Asked(r, region'[c])
    BY <2>1 DEF Carried, Asked
  <2> QED
    BY <1>3, <1>4, <1>6, <2>2 DEF CallsDecided
<1>8. \A d \in Clients : d # c => Calls'[d] = Calls[d]
  BY <1>2, <1>3, <1>4, CallKept
<1> DEFINE a == Asked(r, region'[c])
<1> HIDE DEF a
<1>9. Calls' = [d \in Clients |-> CallOf(d)']
  BY DEF Calls
<1>10. Calls' = [Calls EXCEPT ![c] = [state |-> "pending", req |-> a]]
  BY <1>7, <1>8, <1>9 DEF Calls, a
<1>11. Calls[c].state = "idle"
  BY <1>5 DEF Calls
<1>12. a \in AppRequests
  BY DEF a
<1>13. OpenPaths' = OpenPaths /\ nextFd' = nextFd /\ UNCHANGED <<files, durable>>
  BY <1>1 DEF fdVars, storageVars, OpenPaths
<1> QED
  BY <1>10, <1>11, <1>12, <1>13 DEF IO!Invoke, IO!Pending

\* What is stored in a region is read back from it.
LEMMA SliceStored ==
  ASSUME NEW old \in [0 .. RegionSize - 1 -> Unit], NEW data \in Seq(Unit), NEW offset \in Nat,
         offset + Len(data) <= RegionSize
  PROVE  Slice(Stored(old, offset, data), offset, Len(data)) = data
<1>1. RegionSize \in Nat /\ Len(data) \in Nat /\ DOMAIN data = 1 .. Len(data)
  BY ProtocolAssumption
<1>2. DOMAIN old = 0 .. RegionSize - 1
  OBVIOUS
<1>3. ASSUME NEW i \in 1 .. Len(data)
      PROVE  Stored(old, offset, data)[offset + i - 1] = data[i]
  <2>1. offset + i - 1 \in DOMAIN old
    BY <1>1, <1>2
  <2>2. /\ offset <= offset + i - 1 /\ offset + i - 1 < offset + Len(data)
        /\ (offset + i - 1) - offset + 1 = i
    BY <1>1
  <2> QED
    BY <2>1, <2>2 DEF Stored
<1>4. Slice(Stored(old, offset, data), offset, Len(data)) = [i \in 1 .. Len(data) |-> data[i]]
  BY <1>3 DEF Slice
<1>5. data = [i \in DOMAIN data |-> data[i]]
  BY <1>1
<1> QED
  BY <1>1, <1>4, <1>5

(* Whichever of the five calls a client makes, it is an Invoke of AtlasIO. *)
LEMMA CallInvokes ==
  ASSUME IInv, IInv', NEW c \in Clients, Call(c), ServiceUnchanged
  PROVE  IO!Invoke(c)
<1>1. /\ allocated[c] \in 0 .. RegionSize
      /\ region \in [Clients -> [0 .. RegionSize - 1 -> Unit]]
      /\ region[c] \in [0 .. RegionSize - 1 -> Unit]
      /\ req \in [Clients -> Request]
      /\ DOMAIN handles[c] \subseteq VirtualFds
  <2>1. handles[c] \in Tables(VirtualFds, Paths)
    BY DEF IInv, TypeOK
  <2> QED
    BY <2>1, TablesFacts DEF IInv, TypeOK
<1>2. /\ RegionSize \in Nat /\ IoLen \in 1 .. RegionSize
      /\ AllocStart(c, IoLen) \in Nat /\ AllocStart(c, IoLen) + IoLen <= RegionSize
  BY <1>1, ProtocolAssumption, ClientAssumption DEF AllocStart
<1>3. ASSUME NEW p \in Paths, Open(c, p) PROVE IO!Invoke(c)
  <2>1. Submit(c, OpenRequest(c, p)) /\ region' = region
    BY <1>3 DEF Open
  <2>2. Asked(OpenRequest(c, p), region'[c])
          = AppRequest("Open", 0, 0, 0, p, <<>>)
    BY OpenFields DEF Asked
  <2>3. Asked(OpenRequest(c, p), region'[c]) \in AppRequests
    BY <2>2 DEF AppRequests
  <2> QED
    BY <2>1, <2>3, SubmitInvokes
<1>4. ASSUME NEW fd \in DOMAIN handles[c], NEW o \in Offsets, Read(c, fd, o) PROVE IO!Invoke(c)
  <2>1. Submit(c, TransferRequest(c, "Read", fd, o)) /\ region' = region
    BY <1>4 DEF Read
  <2>2. Asked(TransferRequest(c, "Read", fd, o), region'[c])
          = AppRequest("Read", fd, o, IoLen, NoPath, <<>>)
    BY TransferFields DEF Asked
  <2>3. Asked(TransferRequest(c, "Read", fd, o), region'[c]) \in AppRequests
    BY <1>1, <2>2 DEF AppRequests
  <2> QED
    BY <2>1, <2>3, SubmitInvokes
<1>5. ASSUME NEW fd \in DOMAIN handles[c], NEW o \in Offsets, NEW v \in Values,
             Write(c, fd, o, [i \in 1 .. IoLen |-> v])
      PROVE  IO!Invoke(c)
  <2> DEFINE data == [i \in 1 .. IoLen |-> v]
             start == AllocStart(c, IoLen)
  <2>1. data \in Seq(Unit) /\ Len(data) = IoLen
    BY <1>2 DEF Unit
  <2>2. AppRequest("Write", fd, o, IoLen, NoPath, data) \in AppRequests
    <3> DEFINE Filled(w) == [i \in 1 .. IoLen |-> w]
               Writes == {AppRequest("Write", f, at, IoLen, NoPath, Filled(w)) :
                            f \in VirtualFds, at \in Offsets, w \in Values}
    <3>1. Writes \subseteq AppRequests
      BY SMT DEF AppRequests
    <3>2. Filled(v) = data /\ fd \in VirtualFds
      BY <1>1
    <3> HIDE DEF data, Filled
    <3>3. AppRequest("Write", fd, o, IoLen, NoPath, Filled(v)) \in Writes
      BY <3>2
    <3> QED
      BY <3>1, <3>2, <3>3
  <2>3. Write(c, fd, o, data)
    BY <1>5
  <2> HIDE DEF data
  <2>4. Submit(c, TransferRequest(c, "Write", fd, o))
        /\ region' = [region EXCEPT ![c] = Stored(region[c], start, data)]
    BY <2>3 DEF Write
  <2>5. PICK r : r = TransferRequest(c, "Write", fd, o)
    OBVIOUS
  <2>6. /\ r.op = "Write" /\ r.fd = fd /\ r.offset = o /\ r.len = IoLen
        /\ r.path = NoPath /\ r.data_offset = start
    BY <2>5, TransferFields
  <2> HIDE DEF start
  <2>7. region'[c] = Stored(region[c], start, data)
    BY <1>1, <2>4
  <2>8. Slice(region'[c], start, IoLen) = data
    BY <1>1, <1>2, <2>1, <2>7, SliceStored DEF start
  <2>9. Asked(r, region'[c]) = AppRequest("Write", fd, o, IoLen, NoPath, data)
    BY <2>6, <2>8 DEF Asked
  <2>10. \A d \in Clients : d # c => region'[d] = region[d]
    BY <1>1, <2>4
  <2> QED
    BY <2>2, <2>4, <2>5, <2>9, <2>10, SubmitInvokes
<1>6. ASSUME NEW fd \in DOMAIN handles[c], Sync(c, fd) \/ Close(c, fd) PROVE IO!Invoke(c)
  <2>1. PICK op \in {"Sync", "Close"}, priority \in {"Critical", "Low"} :
          Submit(c, FdRequest(c, op, priority, fd)) /\ region' = region
    BY <1>6 DEF Sync, Close
  <2>2. Asked(FdRequest(c, op, priority, fd), region'[c])
          = AppRequest(op, fd, 0, 0, NoPath, <<>>)
    BY FdRequestFields DEF Asked
  <2>3. Asked(FdRequest(c, op, priority, fd), region'[c]) \in AppRequests
    BY <1>1, <2>2 DEF AppRequests
  <2> QED
    BY <2>1, <2>3, SubmitInvokes
<1> QED
  BY <1>3, <1>4, <1>5, <1>6 DEF Call

-----------------------------------------------------------------------------
(* Calls that end when their operation is taken from the round.            *)

\* What a caller makes of an error.
LEMMA ToldError ==
  ASSUME NEW op, NEW data, NEW id, NEW status
  PROVE  Told(op, ResponseErr(id, status), data) = IO!Failed(status)
<1> DEFINE r == ResponseErr(id, status)
<1>1. r.status = status /\ r.fd = 0 /\ r.data_offset = 0 /\ r.data_len = 0
  BY ErrFields
<1> HIDE DEF r
<1>2. Slice(data, 0, 0) = <<>>
  BY DEF Slice
<1>3. Told(op, r, data) = [status |-> status, fd |-> 0, len |-> 0, data |-> <<>>]
  BY <1>1, <1>2 DEF Told
<1> QED
  BY <1>3 DEF r, IO!Failed, IO!Result

(* The call of a client, by the fields of its request.                     *)
LEMMA CarriedFields ==
  ASSUME NEW c
  PROVE  /\ Carried(c).op = req[c].op /\ Carried(c).fd = req[c].fd
         /\ Carried(c).offset = req[c].offset /\ Carried(c).len = req[c].len
         /\ Carried(c).path = req[c].path
         /\ req[c].op = "Write" =>
              Carried(c).data = Slice(region[c], req[c].data_offset, req[c].len)
BY DEF Carried, AppRequest

(* An operation that is answered at once ends the call of its client.      *)
LEMMA AnswerEnds ==
  ASSUME IInv, IInv', CallsUnchanged, NEW kinds, TakeOp(kinds),
         NEW c, c = Head(ops).channel, NEW r,
         outbox' = <<[channel |-> c, resp |-> r]>>, UNCHANGED <<region, respRing, batch>>
  PROVE  /\ c \in Clients /\ Head(ops).req = req[c] /\ req[c].op \in kinds
         /\ Calls[c] = [state |-> "pending", req |-> Carried(c)]
         /\ IO!Ends(c, Told(req[c].op, r, region'[c]))
<1> DEFINE m == [channel |-> c, resp |-> r]
<1>1. /\ c \in Clients /\ c \in Engaged /\ Head(ops).req = req[c] /\ req[c].op \in kinds
      /\ outbox = <<>> /\ ops # <<>>
  BY TakenOp
<1>2. c \in Owners(ops)
  BY <1>1, TailFacts DEF IInv, TypeOK
<1>3. \A n \in Decisions : n.channel # c
  <2>1. c \notin Owners(Prepared) /\ c \notin Owners(outbox) /\ c \notin InRing(respRing)
    BY <1>2 DEF IInv, StagesApart, InRound
  <2> QED
    BY <2>1, OneDecision DEF Decisions
<1>4. DOMAIN outbox = {} /\ outbox' = <<m>> /\ m.channel = c /\ m.resp = r
  BY <1>1
<1> HIDE DEF m
<1>5. DOMAIN outbox' = {1} /\ outbox'[1] = m
  BY <1>4
<1>6. Mail' = Mail \cup {m}
  BY <1>4, <1>5 DEF Mail, InRing
<1>7. Decisions' = Decisions \cup {m}
  BY <1>6, DecisionsFrom DEF Decisions
<1>8. UNCHANGED <<pc, req, got>>
  BY DEF CallsUnchanged, clientVars
<1>9. /\ Calls[c] = [state |-> "pending", req |-> Carried(c)]
      /\ Calls' = [Calls EXCEPT ![c] = [state |-> "done", res |-> Told(req[c].op, r, region'[c])]]
  BY <1>1, <1>3, <1>4, <1>7, <1>8, CallFacts, CallFactsNext, CallDecided
<1> QED
  BY <1>1, <1>9 DEF IO!Ends, IO!Done

(* A step that refuses an operation leaves handles and files as they are.  *)
LEMMA RefusedEnds ==
  ASSUME IInv, IInv', CallsUnchanged, NEW kinds, TakeOp(kinds), NEW status,
         NEW c, c = Head(ops).channel,
         outbox' = <<Reply(Head(ops), ResponseErr(Head(ops).req.id, status))>>,
         UNCHANGED <<batch, sharedVars, fdVars, storageVars>>
  PROVE  /\ c \in Clients /\ req[c].op \in kinds /\ Head(ops).req = req[c]
         /\ Calls[c] = [state |-> "pending", req |-> Carried(c)]
         /\ IO!Ends(c, IO!Failed(status))
         /\ UNCHANGED <<OpenPaths, nextFd, files, durable>>
<1> DEFINE r == ResponseErr(Head(ops).req.id, status)
<1>1. PICK id : id = Head(ops).req.id
  OBVIOUS
<1> DEFINE e == ResponseErr(id, status)
<1>2. outbox' = <<[channel |-> c, resp |-> e]>> /\ UNCHANGED <<region, respRing, batch>>
  BY <1>1 DEF Reply, sharedVars
<1>3. Told(req[c].op, e, region'[c]) = IO!Failed(status)
  BY ToldError
<1> HIDE DEF e
<1>4. /\ c \in Clients /\ Head(ops).req = req[c] /\ req[c].op \in kinds
      /\ Calls[c] = [state |-> "pending", req |-> Carried(c)]
      /\ IO!Ends(c, Told(req[c].op, e, region'[c]))
  BY <1>2, AnswerEnds
<1>5. UNCHANGED <<OpenPaths, nextFd, files, durable>>
  BY DEF fdVars, storageVars, OpenPaths
<1> QED
  BY <1>3, <1>4, <1>5

(* A request answered with EBADF, its descriptor not being in fd_table,    *)
(* ends its call as a bad handle.                                          *)
LEMMA BadHandleEnds ==
  ASSUME IInv, IInv', CallsUnchanged, NEW kinds, TakeOp(kinds), "Open" \notin kinds,
         Head(ops).req.fd \notin DOMAIN fdTable,
         outbox' = <<Reply(Head(ops), ResponseErr(Head(ops).req.id, "EBADF"))>>,
         UNCHANGED <<batch, sharedVars, fdVars, storageVars>>
  PROVE  \E c \in Clients : IO!BadHandle(c)
<1>1. PICK c : c = Head(ops).channel
  OBVIOUS
<1>2. /\ c \in Clients /\ req[c].op \in kinds /\ Head(ops).req = req[c]
      /\ Calls[c] = [state |-> "pending", req |-> Carried(c)]
      /\ IO!Ends(c, IO!Failed("EBADF"))
      /\ UNCHANGED <<OpenPaths, nextFd, files, durable>>
  BY <1>1, RefusedEnds
<1>3. /\ Calls[c].state = "pending" /\ Calls[c].req.op = req[c].op
      /\ Calls[c].req.fd = req[c].fd
  BY <1>2, CarriedFields
<1>4. req[c].fd \notin DOMAIN OpenPaths /\ req[c].op # "Open"
  BY <1>2 DEF OpenPaths
<1>5. IO!BadHandle(c)
  BY <1>2, <1>3, <1>4 DEF IO!BadHandle
<1> QED
  BY <1>2, <1>5

(* The daemon opening a file takes effect as the Open of the client it     *)
(* reads from.                                                             *)
LEMMA HandleOpenEnds ==
  ASSUME IInv, IInv', CallsUnchanged, HandleOpen
  PROVE  \E c \in Clients : IO!Open(c)
<1>1. PICK c : c = Head(ops).channel
  OBVIOUS
<1>2. /\ TakeOp({"Open"})
      /\ UNCHANGED <<batch, sharedVars, files, durable>>
  BY DEF HandleOpen
<1>3. CASE /\ outbox' = <<Reply(Head(ops), ResponseErr(Head(ops).req.id, "EMFILE"))>>
           /\ UNCHANGED <<openFile, fdVars>>
  <2>1. UNCHANGED <<batch, sharedVars, fdVars, storageVars>>
    BY <1>2, <1>3 DEF storageVars
  <2>2. /\ c \in Clients /\ req[c].op = "Open"
        /\ Calls[c] = [state |-> "pending", req |-> Carried(c)]
        /\ IO!Ends(c, IO!Failed("EMFILE"))
        /\ UNCHANGED <<OpenPaths, nextFd, files, durable>>
    BY <1>1, <1>2, <1>3, <2>1, RefusedEnds
  <2>3. Calls[c].state = "pending" /\ Calls[c].req.op = "Open"
    BY <2>2, CarriedFields
  <2>4. IO!Open(c)
    BY <2>2, <2>3 DEF IO!Open, IO!Called
  <2> QED
    BY <2>2, <2>4
<1>4. CASE /\ FreeFds # {} /\ nextFd <= MaxFd
           /\ openFile' = [openFile EXCEPT ![LowestFree] = Head(ops).req.path]
           /\ fdTable' = Extended(fdTable, FreshFd, LowestFree)
           /\ nextFd' = nextFd + 1
           /\ outbox' = <<Reply(Head(ops), ResponseFd(Head(ops).req.id, FreshFd))>>
  <2>1. PICK id, v, d : id = Head(ops).req.id /\ v = nextFd /\ d = LowestFree
    OBVIOUS
  <2> DEFINE r == ResponseFd(id, v)
  <2>2. r.status = "ok" /\ r.fd = v /\ r.data_offset = 0 /\ r.data_len = 0
    BY FdFields
  <2>3. outbox' = <<[channel |-> c, resp |-> r]>> /\ UNCHANGED <<region, respRing, batch>>
    BY <1>1, <1>2, <1>4, <2>1 DEF Reply, FreshFd, sharedVars
  <2> HIDE DEF r
  <2>4. /\ c \in Clients /\ Head(ops).req = req[c] /\ req[c].op = "Open"
        /\ Calls[c] = [state |-> "pending", req |-> Carried(c)]
        /\ IO!Ends(c, Told(req[c].op, r, region'[c]))
    BY <1>1, <1>2, <2>3, AnswerEnds
  <2>5. Told(req[c].op, r, region'[c]) = IO!Result("ok", v, 0, <<>>)
    BY <2>2, <2>4 DEF Told, IO!Result
  <2>6. /\ v \in VirtualFds \ (1 .. nextFd - 1)
        /\ (1 .. nextFd - 1)' = (1 .. nextFd - 1) \cup {v}
    BY <1>4, <2>1, ServiceAssumption DEF IInv, TypeOK, VirtualFds
  <2>7. DOMAIN fdTable \subseteq 1 .. nextFd - 1 /\ fdTable \in [DOMAIN fdTable -> RealFds]
    BY TablesFacts DEF IInv, TypeOK
  <2>8. d \in RealFds /\ openFile[d] = NoPath
    BY <1>4, <2>1, MinFacts, StorageAssumption DEF LowestFree, FreeFds
  <2>9. OpenPaths' = [w \in DOMAIN OpenPaths \cup {v} |->
                         IF w = v THEN Calls[c].req.path ELSE OpenPaths[w]]
    <3>1. Calls[c].req.path = req[c].path
      BY <2>4, CarriedFields
    <3>2. /\ DOMAIN fdTable' = DOMAIN fdTable \cup {v} /\ fdTable'[v] = d
          /\ \A w \in DOMAIN fdTable : w # v => fdTable'[w] = fdTable[w]
      BY <1>4, <2>1 DEF Extended, FreshFd
    <3>3. openFile'[d] = req[c].path /\ \A e \in RealFds : e # d => openFile'[e] = openFile[e]
      BY <1>4, <2>1, <2>4, <2>8 DEF IInv, TypeOK
    <3>4. \A w \in DOMAIN fdTable : fdTable[w] \in RealFds /\ fdTable[w] # d
      BY <2>7, <2>8 DEF IInv, TableExact
    <3>5. OpenPaths' = [w \in DOMAIN fdTable' |-> openFile'[fdTable'[w]]]
      BY DEF OpenPaths
    <3> QED
      BY <3>1, <3>2, <3>3, <3>4, <3>5 DEF OpenPaths
  <2>10. Calls[c].state = "pending" /\ Calls[c].req.op = "Open"
    BY <2>4, CarriedFields
  <2>11. IO!Open(c)
    BY <1>2, <2>4, <2>5, <2>6, <2>9, <2>10 DEF IO!Open, IO!Called
  <2> QED
    BY <2>4, <2>11
<1> QED
  BY <1>3, <1>4 DEF HandleOpen

(* A close takes effect as Close, or as a bad handle when fd_table has no  *)
(* entry.                                                                  *)
LEMMA HandleCloseEnds ==
  ASSUME IInv, IInv', CallsUnchanged, HandleClose
  PROVE  \E c \in Clients : IO!Close(c) \/ IO!BadHandle(c)
<1>1. /\ TakeOp({"Close"})
      /\ UNCHANGED <<batch, nextFd, sharedVars, files, durable>>
  BY DEF HandleClose
<1>2. CASE Head(ops).req.fd \notin DOMAIN fdTable
  <2>1. /\ outbox' = <<Reply(Head(ops), ResponseErr(Head(ops).req.id, "EBADF"))>>
        /\ UNCHANGED <<fdTable, openFile>>
    BY <1>2 DEF HandleClose
  <2>2. UNCHANGED <<batch, sharedVars, fdVars, storageVars>>
    BY <1>1, <2>1 DEF fdVars, storageVars
  <2> QED
    BY <1>1, <1>2, <2>1, <2>2, BadHandleEnds
<1>3. CASE Head(ops).req.fd \in DOMAIN fdTable
  <2>1. PICK c, id, v : c = Head(ops).channel /\ id = Head(ops).req.id /\ v = Head(ops).req.fd
    OBVIOUS
  <2>2. PICK r \in {ResponseOk(id), ResponseErr(id, "EIO")} :
          outbox' = <<[channel |-> c, resp |-> r]>>
    BY <1>3, <2>1 DEF HandleClose, Reply
  <2>3. ForgetFd(v)
    BY <1>3, <2>1 DEF HandleClose
  <2>4. /\ c \in Clients /\ Head(ops).req = req[c] /\ req[c].op = "Close"
        /\ Calls[c] = [state |-> "pending", req |-> Carried(c)]
        /\ IO!Ends(c, Told(req[c].op, r, region'[c]))
    BY <1>1, <2>1, <2>2, AnswerEnds DEF sharedVars
  <2>5. \/ Told(req[c].op, r, region'[c]) = IO!Result("ok", 0, 0, <<>>)
        \/ Told(req[c].op, r, region'[c]) = IO!Failed("EIO")
    <3>1. CASE r = ResponseOk(id)
      <4>1. r.status = "ok" /\ r.fd = 0 /\ r.data_len = 0
        BY <3>1 DEF ResponseOk
      <4> QED
        BY <2>4, <4>1 DEF Told, IO!Result
    <3>2. CASE r = ResponseErr(id, "EIO")
      BY <3>2, ToldError
    <3> QED
      BY <2>2, <3>1, <3>2
  <2>6. v \in DOMAIN OpenPaths /\ v = Calls[c].req.fd
    BY <1>3, <2>1, <2>4, CarriedFields DEF OpenPaths
  <2>7. fdTable \in [DOMAIN fdTable -> RealFds]
    BY TablesFacts DEF IInv, TypeOK
  <2>8. /\ DOMAIN fdTable' = DOMAIN fdTable \ {v}
        /\ \A w \in DOMAIN fdTable \ {v} : fdTable'[w] = fdTable[w]
    BY <2>3 DEF ForgetFd, Restrict
  <2>9. \A w \in DOMAIN fdTable \ {v} : openFile'[fdTable[w]] = openFile[fdTable[w]]
    BY <1>3, <2>1, <2>3, <2>7 DEF ForgetFd, IInv, TypeOK, TableExact
  <2>10. OpenPaths' = IO!Restrict(OpenPaths, DOMAIN OpenPaths \ {v})
    <3>1. OpenPaths' = [w \in DOMAIN fdTable' |-> openFile'[fdTable'[w]]]
      BY DEF OpenPaths
    <3>2. DOMAIN OpenPaths = DOMAIN fdTable
      BY DEF OpenPaths
    <3>3. IO!Restrict(OpenPaths, DOMAIN OpenPaths \ {v})
            = [w \in DOMAIN fdTable \ {v} |-> OpenPaths[w]]
      BY <3>2 DEF IO!Restrict
    <3> QED
      BY <2>8, <2>9, <3>1, <3>2, <3>3 DEF OpenPaths
  <2>11. Calls[c].state = "pending" /\ Calls[c].req.op = "Close"
    BY <2>4, CarriedFields
  <2>12. IO!Close(c)
    BY <1>1, <2>4, <2>5, <2>6, <2>10, <2>11 DEF IO!Close, IO!Called
  <2> QED
    BY <2>4, <2>12
<1> QED
  BY <1>2, <1>3

(* Preparing a read, a write or an fsync decides nothing, except for a     *)
(* descriptor that is not in fd_table.                                     *)
LEMMA PrepareEnds ==
  ASSUME IInv, IInv', CallsUnchanged, Prepare
  PROVE  UNCHANGED IO!vars \/ \E c \in Clients : IO!BadHandle(c)
<1> DEFINE op == Head(ops)
<1>1. /\ TakeOp({"Read", "Write", "Sync"})
      /\ UNCHANGED <<sharedVars, fdVars, storageVars>>
  BY DEF Prepare
<1>2. CASE op.req.fd \in DOMAIN fdTable
  BY <1>2, PreparedUnseen
<1>3. CASE op.req.fd \notin DOMAIN fdTable
  <2>1. /\ outbox' = ReplyAll(op, LAMBDA s : ResponseErr(s.id, "EBADF"))
        /\ UNCHANGED batch
    BY <1>3 DEF Prepare
  <2>2. op.sources = <<[id |-> op.req.id, within |-> 0, len |-> op.req.len]>>
    BY <1>1, TakenOp
  <2> HIDE DEF op
  <2>3. ReplyAll(op, LAMBDA s : ResponseErr(s.id, "EBADF"))
          = <<Reply(op, ResponseErr(op.req.id, "EBADF"))>>
    BY <2>2 DEF ReplyAll
  <2> QED
    BY <1>1, <1>3, <2>1, <2>3, BadHandleEnds DEF op
<1> QED
  BY <1>2, <1>3

-----------------------------------------------------------------------------
(* Calls that end when the executor has performed their operation.         *)

(* The result of a prepared operation ends the call of its client.         *)
LEMMA CompleteEnds ==
  ASSUME IInv, IInv', CallsUnchanged,
         NEW i, i \in DOMAIN batch, batch[i].status = "todo",
         NEW status, status # "todo", NEW n, Complete(i, status, n),
         UNCHANGED <<outbox, respRing>>, NEW c, c = batch[i].op.channel,
         \A d \in Clients : d # c => region'[d] = region[d]
  PROVE  \E done, s, r :
           /\ done.op = batch[i].op /\ done.status = status /\ done.n = n
           /\ s.id = req[c].id /\ s.within = 0 /\ s.len = req[c].len
           /\ r = BatchResponse(done, s)
           /\ Calls[c] = [state |-> "pending", req |-> Carried(c)]
           /\ IO!Ends(c, Told(req[c].op, r, region'[c]))
<1>1. PICK done : done = [op |-> batch[i].op, fd |-> batch[i].fd, status |-> status, n |-> n]
  OBVIOUS
<1>2. PICK s : s = [id |-> req[c].id, within |-> 0, len |-> req[c].len]
  OBVIOUS
<1>3. PICK r : r = BatchResponse(done, s)
  OBVIOUS
<1> DEFINE m == [channel |-> c, resp |-> r]
<1>4. /\ done.op = batch[i].op /\ done.status = status /\ done.n = n
      /\ s.id = req[c].id /\ s.within = 0 /\ s.len = req[c].len
  BY <1>1, <1>2
<1>5. /\ c \in Clients /\ c \in Owners(Prepared) /\ batch[i].op.sources = <<s>>
  BY <1>2, OneSource
<1>6. batch' = [batch EXCEPT ![i] = done]
  BY <1>1, Zenon DEF Complete
<1>7. /\ DOMAIN batch' = DOMAIN batch /\ batch'[i] = done
      /\ \A j \in DOMAIN batch : j # i => batch'[j] = batch[j]
  BY <1>6 DEF IInv, TypeOK
<1>8. Settled(done) = m
  <2>1. done.op.sources[1] = s
    BY <1>4, <1>5
  <2> QED
    BY <1>3, <1>4, <2>1 DEF Settled
<1>9. m.channel = c /\ m.resp = r
  OBVIOUS
<1> HIDE DEF m
<1>10. Finished' = Finished \cup {i} /\ i \notin Finished
  BY <1>4, <1>7 DEF Finished
<1>11. Verdicts' = {Settled(batch'[j]) : j \in Finished'}
  BY DEF Verdicts, Settled, BatchResponse, ReadResponse, WriteResponse, ResponseErr, ResponseOk
<1>12. Verdicts' = Verdicts \cup {m}
  <2>1. \A j \in Finished : j \in Finished' /\ batch'[j] = batch[j]
    BY <1>7, <1>10 DEF Finished
  <2>2. i \in Finished' /\ Settled(batch'[i]) = m
    BY <1>7, <1>8, <1>10
  <2>3. \A j \in Finished' : j = i \/ j \in Finished
    BY <1>10
  <2> QED
    BY <1>11, <2>1, <2>2, <2>3 DEF Verdicts
<1>13. Decisions' = Decisions \cup {m}
  BY <1>12, DecisionsFrom DEF Decisions
<1>14. \A d \in Decisions : d.channel # c
  <2>1. c \notin Owners(outbox) /\ c \notin InRing(respRing) /\ c \in Engaged
    BY <1>5 DEF IInv, StagesApart, InRound, Engaged
  <2>2. \A j \in Finished : Settled(batch[j]).channel # c
    <3>1. \A j, k \in DOMAIN Prepared : Prepared[j].channel = Prepared[k].channel => j = k
      BY DEF IInv, QueuesApart, Apart
    <3>2. \A j \in DOMAIN batch : batch[j].op.channel = c => j = i
      BY <3>1 DEF Prepared
    <3> QED
      BY <1>10, <3>2 DEF Settled, Finished
  <2> QED
    BY <2>1, <2>2, OneDecision DEF Decisions, Verdicts
<1>15. UNCHANGED <<pc, req, got>> /\ c \in Engaged
  BY <1>5 DEF CallsUnchanged, clientVars, Engaged, InRound
<1>16. /\ Calls[c] = [state |-> "pending", req |-> Carried(c)]
       /\ Calls' = [Calls EXCEPT ![c] = [state |-> "done", res |-> Told(req[c].op, r, region'[c])]]
  BY <1>5, <1>9, <1>13, <1>14, <1>15, CallFacts, CallFactsNext, CallDecided
<1> QED
  BY <1>3, <1>4, <1>16 DEF IO!Ends, IO!Done

(* A prepared operation is performed on the open file its call names.      *)
LEMMA OpenedFile ==
  ASSUME IInv, crashes = 0, NEW i \in DOMAIN batch, NEW c, c = batch[i].op.channel
  PROVE  /\ c \in Clients /\ batch[i].op.req = req[c] /\ Carried(c).fd \in DOMAIN OpenPaths
         /\ openFile[batch[i].fd] = OpenPaths[Carried(c).fd]
         /\ OpenPaths[Carried(c).fd] \in Paths
<1>1. c \in Clients /\ batch[i].op.req = req[c]
  BY OneSource
<1>2. req[c].fd \in DOMAIN fdTable /\ batch[i].fd = fdTable[req[c].fd]
  BY <1>1 DEF IInv, Ownership
<1>3. openFile[fdTable[req[c].fd]] # NoPath
  BY <1>2 DEF IInv, TableExact
<1>4. openFile[fdTable[req[c].fd]] \in Paths
  <2>1. fdTable \in [DOMAIN fdTable -> RealFds]
    BY TablesFacts DEF IInv, TypeOK
  <2> QED
    BY <1>2, <1>3, <2>1 DEF IInv, TypeOK
<1>5. Carried(c).fd = req[c].fd
  BY CarriedFields
<1> QED
  BY <1>1, <1>2, <1>4, <1>5 DEF OpenPaths

(* An errno: the descriptor is open, so it is EIO.                         *)
LEMMA RefuseEnds ==
  ASSUME IInv, IInv', CallsUnchanged, crashes = 0,
         NEW i \in DOMAIN batch, NEW kind \in {"Read", "Write", "Sync"}, Execute(i, kind),
         Refuse(i), UNCHANGED <<region, files, durable>>
  PROVE  \E c \in Clients : IO!DeviceError(c)
<1>1. PICK c : c = batch[i].op.channel
  OBVIOUS
<1>2. /\ c \in Clients /\ batch[i].op.req = req[c] /\ Carried(c).fd \in DOMAIN OpenPaths
      /\ openFile[batch[i].fd] # NoPath
  BY <1>1, OpenedFile, ProtocolAssumption
<1>3. Complete(i, "EIO", 0)
  BY <1>2 DEF Refuse
<1>4. /\ batch[i].status = "todo" /\ batch[i].op.req.op = kind
      /\ UNCHANGED <<outbox, respRing, fdVars, openFile>>
  BY DEF Execute
<1>5. PICK done, s, r :
        /\ done.op = batch[i].op /\ done.status = "EIO" /\ done.n = 0
        /\ s.id = req[c].id /\ s.within = 0 /\ s.len = req[c].len
        /\ r = BatchResponse(done, s)
        /\ Calls[c] = [state |-> "pending", req |-> Carried(c)]
        /\ IO!Ends(c, Told(req[c].op, r, region'[c]))
  BY <1>1, <1>3, <1>4, CompleteEnds
<1>6. r = ResponseErr(s.id, "EIO")
  BY <1>5 DEF BatchResponse
<1>7. Told(req[c].op, r, region'[c]) = IO!Failed("EIO")
  BY <1>6, ToldError
<1>8. /\ Calls[c].state = "pending" /\ Calls[c].req.op = kind
      /\ Calls[c].req.fd \in DOMAIN OpenPaths
  BY <1>2, <1>4, <1>5, CarriedFields
<1>9. UNCHANGED <<OpenPaths, nextFd>>
  BY <1>4 DEF fdVars, OpenPaths
<1>10. IO!DeviceError(c)
  BY <1>5, <1>7, <1>8, <1>9 DEF IO!DeviceError
<1> QED
  BY <1>2, <1>10

(* The executor's fsync is the moment at which Sync takes effect, or the   *)
(* device fails.                                                           *)
LEMMA FsyncEnds ==
  ASSUME IInv, IInv', CallsUnchanged, crashes = 0, NEW i \in DOMAIN batch, Fsync(i)
  PROVE  \E c \in Clients : IO!Sync(c) \/ IO!DeviceError(c)
<1>1. PICK c, p : c = batch[i].op.channel /\ p = openFile[batch[i].fd]
  OBVIOUS
<1>2. Execute(i, "Sync") /\ UNCHANGED <<region, files>>
  BY DEF Fsync
<1>3. CASE Refuse(i) /\ UNCHANGED durable
  BY <1>2, <1>3, RefuseEnds
<1>4. CASE ~ (Refuse(i) /\ UNCHANGED durable)
  <2>1. durable' = [durable EXCEPT ![p] = files[p]] /\ Complete(i, "ok", 0)
    BY <1>1, <1>4 DEF Fsync
  <2>2. /\ batch[i].status = "todo" /\ batch[i].op.req.op = "Sync"
        /\ UNCHANGED <<outbox, respRing, fdVars, openFile>>
    BY <1>2 DEF Execute
  <2>3. PICK done, s, r :
          /\ done.op = batch[i].op /\ done.status = "ok" /\ done.n = 0
          /\ s.id = req[c].id /\ s.within = 0 /\ s.len = req[c].len
          /\ r = BatchResponse(done, s)
          /\ Calls[c] = [state |-> "pending", req |-> Carried(c)]
          /\ IO!Ends(c, Told(req[c].op, r, region'[c]))
    BY <1>1, <1>2, <2>1, <2>2, CompleteEnds
  <2>4. /\ c \in Clients /\ batch[i].op.req = req[c] /\ Carried(c).fd \in DOMAIN OpenPaths
        /\ p = OpenPaths[Carried(c).fd]
    BY <1>1, OpenedFile
  <2>5. r.status = "ok" /\ r.fd = 0 /\ r.data_len = 0
    <3>1. r = ResponseOk(s.id)
      BY <2>2, <2>3 DEF BatchResponse
    <3> QED
      BY <3>1 DEF ResponseOk
  <2>6. Told(req[c].op, r, region'[c]) = IO!Result("ok", 0, 0, <<>>)
    BY <2>2, <2>4, <2>5 DEF Told, IO!Result
  <2>7. Calls[c].state = "pending" /\ Calls[c].req.op = "Sync" /\ Calls[c].req = Carried(c)
    BY <2>2, <2>3, <2>4, CarriedFields
  <2>8. UNCHANGED <<OpenPaths, nextFd>>
    BY <2>2 DEF fdVars, OpenPaths
  <2>9. IO!Sync(c)
    BY <1>2, <2>1, <2>3, <2>4, <2>6, <2>7, <2>8 DEF IO!Sync, IO!Called
  <2> QED
    BY <2>4, <2>9
<1> QED
  BY <1>3, <1>4

\* The beginning of what a region holds.
LEMMA SliceBegin ==
  ASSUME NEW data \in [0 .. RegionSize - 1 -> Unit], NEW offset \in Nat, NEW len \in Nat,
         NEW n \in 0 .. len, offset + len <= RegionSize
  PROVE  SubSeq(Slice(data, offset, len), 1, n) = Slice(data, offset, n)
<1>1. /\ Slice(data, offset, len) \in Seq(Unit) /\ Len(Slice(data, offset, len)) = len
  BY SliceType
<1>2. \A j \in 1 .. n : Slice(data, offset, len)[j] = data[offset + j - 1]
  BY DEF Slice
<1> DEFINE q == Slice(data, offset, len)
<1> HIDE DEF q
<1>3. SubSeq(q, 1, n) = [j \in 1 .. n |-> q[j]]
  BY <1>1 DEF q
<1> QED
  BY <1>2, <1>3 DEF q, Slice

(* The executor's pwrite is the moment at which Write takes effect, or the *)
(* device fails.                                                           *)
LEMMA PwriteEnds ==
  ASSUME IInv, IInv', CallsUnchanged, crashes = 0, NEW i \in DOMAIN batch, Pwrite(i)
  PROVE  \E c \in Clients : IO!Write(c) \/ IO!DeviceError(c)
<1>1. PICK c, p : c = batch[i].op.channel /\ p = openFile[batch[i].fd]
  OBVIOUS
<1>2. Execute(i, "Write") /\ UNCHANGED <<region, durable>>
  BY DEF Pwrite
<1>3. CASE Refuse(i) /\ UNCHANGED files
  BY <1>2, <1>3, RefuseEnds
<1>4. CASE ~ (Refuse(i) /\ UNCHANGED files)
  <2>1. /\ c \in Clients /\ batch[i].op.req = req[c] /\ Carried(c).fd \in DOMAIN OpenPaths
        /\ p = OpenPaths[Carried(c).fd]
    BY <1>1, OpenedFile
  <2>2. PICK n \in 1 .. req[c].len :
          /\ files' = [files EXCEPT ![p] =
               Overwritten(@, req[c].offset, Slice(region[c], req[c].data_offset, n))]
          /\ Complete(i, "ok", n)
    BY <1>1, <1>4, <2>1 DEF Pwrite
  <2>3. /\ batch[i].status = "todo" /\ req[c].op = "Write"
        /\ UNCHANGED <<outbox, respRing, fdVars, openFile>>
    BY <1>2, <2>1 DEF Execute
  <2>4. PICK done, s, r :
          /\ done.op = batch[i].op /\ done.status = "ok" /\ done.n = n
          /\ s.id = req[c].id /\ s.within = 0 /\ s.len = req[c].len
          /\ r = BatchResponse(done, s)
          /\ Calls[c] = [state |-> "pending", req |-> Carried(c)]
          /\ IO!Ends(c, Told(req[c].op, r, region'[c]))
    BY <1>1, <1>2, <2>2, <2>3, CompleteEnds
  <2>5. r.status = "ok" /\ r.fd = 0 /\ r.data_len = req[c].len
    <3>1. r = WriteResponse(s)
      BY <2>1, <2>3, <2>4 DEF BatchResponse
    <3> QED
      BY <2>4, <3>1, WriteFields
  <2>6. Told(req[c].op, r, region'[c]) = IO!Result("ok", 0, req[c].len, <<>>)
    BY <2>3, <2>5 DEF Told, IO!Result
  <2>7. /\ Calls[c].state = "pending" /\ Calls[c].req.op = "Write" /\ Calls[c].req = Carried(c)
        /\ Carried(c).len = req[c].len /\ Carried(c).offset = req[c].offset
        /\ Carried(c).data = Slice(region[c], req[c].data_offset, req[c].len)
    BY <2>3, <2>4, CarriedFields
  <2>8. SubSeq(Carried(c).data, 1, n) = Slice(region[c], req[c].data_offset, n)
    <3>1. /\ req[c].data_offset \in Nat /\ req[c].len \in Nat
          /\ req[c].data_offset + req[c].len <= RegionSize
          /\ region[c] \in [0 .. RegionSize - 1 -> Unit]
      BY <1>1, <2>1, <2>3, PreparedOp
    <3>2. n \in 0 .. req[c].len
      BY <3>1
    <3> QED
      BY <2>7, <3>1, <3>2, SliceBegin
  <2>9. UNCHANGED <<OpenPaths, nextFd>>
    BY <2>3 DEF fdVars, OpenPaths
  <2>10. files' = [files EXCEPT ![p] =
                     Overwritten(files[p], Carried(c).offset, SubSeq(Carried(c).data, 1, n))]
    BY <2>2, <2>7, <2>8
  <2> DEFINE a == Calls[c].req
  <2>11. /\ a.fd \in DOMAIN OpenPaths /\ OpenPaths[a.fd] = p /\ a.len = req[c].len
         /\ n \in 1 .. a.len
         /\ files' = [files EXCEPT ![p] = Overwritten(files[p], a.offset, SubSeq(a.data, 1, n))]
    BY <2>1, <2>7, <2>10
  <2> HIDE DEF a
  <2>12. \E k \in 1 .. a.len :
           files' = [files EXCEPT ![OpenPaths[a.fd]] =
                       Overwritten(files[OpenPaths[a.fd]], a.offset, SubSeq(a.data, 1, k))]
    BY <2>11, Zenon
  <2>13. IO!Ends(c, IO!Result("ok", 0, a.len, <<>>)) /\ IO!Called(c, "Write")
    BY <2>4, <2>6, <2>7, <2>11 DEF IO!Called
  <2>14. UNCHANGED <<OpenPaths, 1 .. nextFd - 1, durable>>
    BY <1>2, <2>9
  <2>15. IO!Write(c)
    BY <2>11, <2>12, <2>13, <2>14, Zenon DEF IO!Write, a
  <2> QED
    BY <2>1, <2>15
<1> QED
  BY <1>3, <1>4

(* The executor's pread is the moment at which Read takes effect, or the   *)
(* device fails.                                                           *)
LEMMA PreadEnds ==
  ASSUME IInv, IInv', CallsUnchanged, crashes = 0, NEW i \in DOMAIN batch, Pread(i)
  PROVE  \E c \in Clients : IO!Read(c) \/ IO!DeviceError(c)
<1>1. PICK c, p : c = batch[i].op.channel /\ p = openFile[batch[i].fd]
  OBVIOUS
<1>2. Execute(i, "Read") /\ UNCHANGED <<files, durable>>
  BY DEF Pread
<1>3. CASE Refuse(i) /\ UNCHANGED region
  BY <1>2, <1>3, RefuseEnds
<1>4. CASE ~ (Refuse(i) /\ UNCHANGED region)
  <2>1. /\ c \in Clients /\ batch[i].op.req = req[c] /\ Carried(c).fd \in DOMAIN OpenPaths
        /\ p = OpenPaths[Carried(c).fd] /\ p \in Paths
    BY <1>1, OpenedFile
  <2>2. PICK found : found = Contents(files[p], req[c].offset, req[c].len)
    OBVIOUS
  <2>3. PICK n \in 0 .. Len(found) :
          /\ n = 0 => found = <<>>
          /\ region' = [region EXCEPT ![c] =
               Stored(@, req[c].data_offset, SubSeq(found, 1, n))]
          /\ Complete(i, "ok", n)
    BY <1>1, <1>4, <2>1, <2>2 DEF Pread
  <2>4. /\ batch[i].status = "todo" /\ req[c].op = "Read"
        /\ UNCHANGED <<outbox, respRing, fdVars, openFile>>
    BY <1>2, <2>1 DEF Execute
  <2>5. /\ req[c].offset \in Nat /\ req[c].data_offset \in Nat /\ req[c].len \in Nat
        /\ req[c].data_offset + req[c].len <= RegionSize
        /\ region[c] \in [0 .. RegionSize - 1 -> Unit]
        /\ region \in [Clients -> [0 .. RegionSize - 1 -> Unit]]
        /\ files[p] \in Seq(Unit) /\ RegionSize \in Nat
    <3>1. files[p] \in Seq(Unit) /\ region \in [Clients -> [0 .. RegionSize - 1 -> Unit]]
      BY <2>1 DEF IInv, TypeOK
    <3> QED
      BY <1>1, <2>1, <2>4, <3>1, PreparedOp, ProtocolAssumption
  <2>6. /\ found \in Seq(Unit) /\ Len(found) <= req[c].len /\ Len(found) \in Nat
        /\ n \in Nat /\ n <= req[c].len
    <3>1. found \in Seq(Unit) /\ Len(found) <= req[c].len
      BY <2>2, <2>5, ContentsType
    <3>2. Len(found) \in Nat
      BY <3>1
    <3> QED
      BY <2>3, <2>5, <3>1, <3>2
  <2>7. PICK data : data = SubSeq(found, 1, n)
    OBVIOUS
  <2>8. data \in Seq(Unit) /\ Len(data) = n
    BY <2>6, <2>7
  <2>9. /\ region'[c] = Stored(region[c], req[c].data_offset, data)
        /\ \A d \in Clients : d # c => region'[d] = region[d]
    BY <2>1, <2>3, <2>5, <2>7
  <2>10. PICK done, s, r :
           /\ done.op = batch[i].op /\ done.status = "ok" /\ done.n = n
           /\ s.id = req[c].id /\ s.within = 0 /\ s.len = req[c].len
           /\ r = BatchResponse(done, s)
           /\ Calls[c] = [state |-> "pending", req |-> Carried(c)]
           /\ IO!Ends(c, Told(req[c].op, r, region'[c]))
    BY <1>1, <2>3, <2>4, <2>9, CompleteEnds
  <2>11. r.status = "ok" /\ r.fd = 0 /\ r.data_offset = req[c].data_offset /\ r.data_len = n
    <3>1. r = ReadResponse(done, s)
      BY <2>1, <2>4, <2>10 DEF BatchResponse
    <3>2. /\ r.status = "ok" /\ r.fd = 0
          /\ r.data_offset = done.op.req.data_offset + s.within
          /\ r.data_len = IF s.within < done.n
                          THEN LesserOf(done.n - s.within, s.len) ELSE 0
      BY <3>1, ReadFields
    <3>3. r.data_len = IF 0 < n THEN LesserOf(n - 0, req[c].len) ELSE 0
      BY <2>10, <3>2
    <3>4. r.data_len = n
      BY <2>5, <2>6, <3>3 DEF LesserOf
    <3> QED
      BY <2>1, <2>5, <2>10, <3>2, <3>4
  <2>12. Slice(region'[c], req[c].data_offset, n) = data
    <3>1. req[c].data_offset + Len(data) <= RegionSize
      BY <2>5, <2>6, <2>8
    <3> QED
      BY <2>5, <2>8, <2>9, <3>1, SliceStored
  <2>13. Told(req[c].op, r, region'[c]) = IO!Result("ok", 0, n, data)
    BY <2>4, <2>11, <2>12 DEF Told, IO!Result
  <2>14. /\ Calls[c].state = "pending" /\ Calls[c].req.op = "Read" /\ Calls[c].req = Carried(c)
         /\ Carried(c).len = req[c].len /\ Carried(c).offset = req[c].offset
    BY <2>4, <2>10, CarriedFields
  <2>15. UNCHANGED <<OpenPaths, nextFd>>
    BY <2>4 DEF fdVars, OpenPaths
  <2> DEFINE a == Calls[c].req
  <2>16. a.fd \in DOMAIN OpenPaths /\ found = Contents(files[OpenPaths[a.fd]], a.offset, a.len)
    BY <2>1, <2>2, <2>14
  <2> HIDE DEF a
  <2>17. IO!Ends(c, IO!Result("ok", 0, n, SubSeq(found, 1, n)))
    BY <2>7, <2>10, <2>13
  <2>18. IO!Called(c, "Read") /\ UNCHANGED <<OpenPaths, 1 .. nextFd - 1, files, durable>>
    BY <1>2, <2>14, <2>15 DEF IO!Called
  <2>19. IO!Read(c)
    BY <2>3, <2>16, <2>17, <2>18, Zenon DEF IO!Read, a
  <2> QED
    BY <2>1, <2>19
<1> QED
  BY <1>3, <1>4

-----------------------------------------------------------------------------
(* The refinement.                                                         *)

LEMMA InitImplements == Init => IO!Init
<1> SUFFICES ASSUME Init PROVE IO!Init
  OBVIOUS
<1>1. /\ pc = [c \in Clients |-> "idle"] /\ got = [c \in Clients |-> NoResult]
      /\ fdTable = <<>> /\ nextFd = 1
      /\ files = [p \in Paths |-> <<>>] /\ durable = [p \in Paths |-> <<>>]
  BY DEF Init, ClientInit, ServiceInit, StorageInit
<1>2. Calls = [c \in Clients |-> IO!Idle(IO!Result("none", 0, 0, <<>>))]
  BY <1>1 DEF Calls, CallOf, NoResult, IO!Idle, IO!Result
<1>3. OpenPaths = <<>>
  BY <1>1 DEF OpenPaths
<1>4. 1 .. nextFd - 1 = {}
  BY <1>1
<1> QED
  BY <1>1, <1>2, <1>3, <1>4 DEF IO!Init

(* Every step of the daemon is a step of AtlasIO or a stutter.             *)
LEMMA ServiceImplements ==
  ASSUME IInv, IInv', crashes = 0, Service
  PROVE  [IO!Next]_(IO!vars)
<1>1. CallsUnchanged
  BY DEF Service, CallsUnchanged
<1>2. CASE StartPolling \/ PollRequest \/ PollEmpty \/ Drain \/ Stop
  <2>1. /\ UNCHANGED <<pc, req, got, region, outbox, respRing, batch>>
        /\ UNCHANGED <<fdVars, storageVars>>
    BY <1>1, <1>2 DEF StartPolling, PollRequest, PollEmpty, Drain, Stop, roundVars, sharedVars,
                      CallsUnchanged, clientVars
  <2> QED
    BY <2>1, UnseenStep
<1>3. CASE HandleOpen
  BY <1>1, <1>3, HandleOpenEnds DEF IO!Next
<1>4. CASE HandleClose
  BY <1>1, <1>4, HandleCloseEnds DEF IO!Next
<1>5. CASE Prepare
  BY <1>1, <1>5, PrepareEnds DEF IO!Next
<1>6. ASSUME NEW i \in DOMAIN batch, Pread(i) PROVE IO!Next
  BY <1>1, <1>6, PreadEnds DEF IO!Next
<1>7. ASSUME NEW i \in DOMAIN batch, Pwrite(i) PROVE IO!Next
  BY <1>1, <1>7, PwriteEnds DEF IO!Next
<1>8. ASSUME NEW i \in DOMAIN batch, Fsync(i) PROVE IO!Next
  BY <1>1, <1>8, FsyncEnds DEF IO!Next
<1>9. CASE Respond
  BY <1>1, <1>9, RespondUnseen
<1>10. CASE SendResponse
  BY <1>1, <1>10, SendUnseen
<1> QED
  BY <1>2, <1>3, <1>4, <1>5, <1>6, <1>7, <1>8, <1>9, <1>10 DEF Service, ServiceStep

(* Every step of the system, while no crash has happened, is a step of     *)
(* AtlasIO or a stutter.                                                   *)
LEMMA NextImplements ==
  ASSUME IInv, IInv', crashes = 0, crashes' = 0, [Next]_vars
  PROVE  [IO!Next]_(IO!vars)
<1>1. ASSUME NEW c \in Clients, Client(c) PROVE [IO!Next]_(IO!vars)
  <2>1. ClientStep(c) /\ ServiceUnchanged
    BY <1>1 DEF Client, ServiceUnchanged
  <2>2. CASE Call(c)
    BY <2>1, <2>2, CallInvokes DEF IO!Next
  <2>3. CASE PushRequest(c)
    BY <2>1, <2>3, PushUnseen
  <2>4. CASE PopResponse(c)
    BY <2>1, <2>4, PopReturns DEF IO!Next
  <2> QED
    BY <2>1, <2>2, <2>3, <2>4 DEF ClientStep
<1>2. CASE Service
  BY <1>2, ServiceImplements
<1>3. CASE (\E c \in Clients : Die(c)) \/ Terminate \/ Recover \/ UNCHANGED vars
  <2>1. /\ UNCHANGED <<pc, req, got, region, outbox, respRing, batch>>
        /\ UNCHANGED <<fdVars, storageVars>>
    BY <1>3 DEF Die, Terminate, Signal, Recover, Restart, vars, sharedVars, clientVars,
                serviceVars, roundVars, fdVars, storageVars
  <2> QED
    BY <2>1, UnseenStep
<1>4. CASE Fail
  <2>1. crashes' = crashes + 1
    BY <1>4 DEF Fail
  <2> QED
    BY <2>1
<1> QED
  BY <1>1, <1>2, <1>3, <1>4 DEF Next

(* As long as the daemon does not crash, every call of an application      *)
(* takes effect once and atomically, on the file its virtual fd was opened *)
(* on: rings, rounds, batching, the order of execution and the other       *)
(* clients cannot be observed.                                             *)
THEOREM Implements == Spec /\ [](crashes = 0) => ImplementsIO
<1>1. Init => IO!Init
  BY InitImplements
<1>2. IInv /\ IInv' /\ crashes = 0 /\ (crashes = 0)' /\ [Next]_vars => [IO!Next]_(IO!vars)
  BY NextImplements
<1> QED
  BY <1>1, <1>2, Invariance, PTL DEF Spec, ImplementsIO, IO!Spec
=============================================================================
