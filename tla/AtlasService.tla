---------------------------- MODULE AtlasService ----------------------------
(***************************************************************************)
(* The daemon: the loop of AtlasService::run and execute_round (service.rs)*)
(* over the request and response rings.  A round goes through two queues:  *)
(* `ops`, what the pipeline drained, and `batch`, the reads, writes and    *)
(* fsyncs prepared from them, each "todo" until the executor has performed *)
(* it.  `outbox` holds the responses the thread is about to push, one      *)
(* send_response each.                                                     *)
(***************************************************************************)
EXTENDS Storage, Pipeline, Functions

CONSTANT MaxFd   \* bound on the virtual fds given out

ASSUME ServiceAssumption == MaxFd \in Nat

VARIABLES pipeline,   \* "PassThrough" or "Batched", chosen when it is built
          running,    \* the flag the signal handler clears
          svc,        \* "round", "poll", "stopped" or "down"
          channel,    \* the channel polled next
          pending, ops, batch, outbox,
          fdTable,    \* virtual fd -> descriptor
          nextFd

roundVars == <<pending, ops, batch, outbox>>
fdVars == <<fdTable, nextFd>>
serviceVars == <<pipeline, running, svc, channel, roundVars, fdVars>>

ServiceInit ==
  /\ pipeline \in {"PassThrough", "Batched"}
  /\ running = TRUE /\ svc = "round" /\ channel = 1
  /\ pending = <<>> /\ ops = <<>> /\ batch = <<>> /\ outbox = <<>>
  /\ fdTable = <<>> /\ nextFd = 1
-----------------------------------------------------------------------------
(* AtlasService::run                                                       *)

RoundDone == svc = "round" /\ ops = <<>> /\ batch = <<>> /\ outbox = <<>>

StartPollingAnyway ==
  /\ RoundDone
  /\ svc' = "poll"
  /\ channel' = 1
  /\ UNCHANGED <<pipeline, running, roundVars, fdVars, sharedVars, storageVars>>

StartPolling ==
  /\ RoundDone
  /\ running
  /\ svc' = "poll"
  /\ channel' = 1
  /\ UNCHANGED <<pipeline, running, roundVars, fdVars, sharedVars, storageVars>>

StopMidRound ==
  /\ svc = "round"
  /\ ~running
  /\ svc' = "stopped"
  /\ UNCHANGED <<pipeline, running, channel, roundVars, fdVars, sharedVars, storageVars>>

Stop ==
  /\ RoundDone
  /\ ~running
  /\ svc' = "stopped"
  /\ UNCHANGED <<pipeline, running, channel, roundVars, fdVars, sharedVars, storageVars>>

PollRequestPeek ==
  /\ svc = "poll"
  /\ channel \in Clients
  /\ reqRing[channel] # <<>>
  /\ pending' = Append(pending, Tagged(Head(reqRing[channel]), channel))
  /\ UNCHANGED <<pipeline, running, svc, channel, ops, batch, outbox, fdVars,
                 sharedVars, storageVars>>

\* A request of the channel is added to the pipeline.
PollRequest ==
  /\ svc = "poll"
  /\ channel \in Clients
  /\ reqRing[channel] # <<>>
  /\ reqRing' = [reqRing EXCEPT ![channel] = Tail(@)]
  /\ pending' = Append(pending, Tagged(Head(reqRing[channel]), channel))
  /\ UNCHANGED <<pipeline, running, svc, channel, ops, batch, outbox, fdVars,
                 respRing, region, storageVars>>

PollEmptyEnough ==
  /\ svc = "poll"
  /\ channel \in Clients
  /\ reqRing[channel] = <<>>
  /\ channel' = NumClients + 1
  /\ UNCHANGED <<pipeline, running, svc, roundVars, fdVars, sharedVars, storageVars>>

PollEmpty ==
  /\ svc = "poll"
  /\ channel \in Clients
  /\ reqRing[channel] = <<>>
  /\ channel' = channel + 1
  /\ UNCHANGED <<pipeline, running, svc, roundVars, fdVars, sharedVars, storageVars>>

DrainedOps ==
  IF pipeline = "Batched" THEN BatchedDrain(pending) ELSE PassThroughDrain(pending)

DrainKeepsPending ==
  /\ svc = "poll"
  /\ channel \notin Clients
  /\ ops' = DrainedOps
  /\ svc' = "round"
  /\ UNCHANGED <<pipeline, running, channel, pending, batch, outbox, fdVars,
                 sharedVars, storageVars>>

Drain ==
  /\ svc = "poll"
  /\ channel \notin Clients
  /\ ops' = DrainedOps
  /\ pending' = <<>>
  /\ svc' = "round"
  /\ UNCHANGED <<pipeline, running, channel, batch, outbox, fdVars, sharedVars,
                 storageVars>>
-----------------------------------------------------------------------------
(* execute_round, first pass: open and close run inline, the rest is       *)
(* prepared with the descriptor its virtual fd stands for now.             *)

Reply(op, resp) == [channel |-> op.channel, resp |-> resp]

\* One response to each of the requests merged into op.
ReplyAll(op, respTo(_)) ==
  [i \in DOMAIN op.sources |-> Reply(op, respTo(op.sources[i]))]

TakeOp(kinds) ==
  /\ svc = "round" /\ outbox = <<>>
  /\ ops # <<>>
  /\ Head(ops).req.op \in kinds
  /\ ops' = Tail(ops)

\* The virtual fd of the next open.
FreshFdReused == Cardinality(DOMAIN fdTable) + 1
FreshFd == nextFd

ResponseFd(id, fd) == [ResponseOk(id) EXCEPT !.fd = fd]

HandleOpen ==
  /\ TakeOp({"Open"})
  /\ LET op == Head(ops) IN
       \/ /\ FreeFds # {} /\ nextFd <= MaxFd
          /\ openFile' = [openFile EXCEPT ![LowestFree] = op.req.path]
          /\ fdTable' = Extended(fdTable, FreshFd, LowestFree)
          /\ nextFd' = nextFd + 1
          /\ outbox' = <<Reply(op, ResponseFd(op.req.id, FreshFd))>>
       \/ /\ outbox' = <<Reply(op, ResponseErr(op.req.id, "EMFILE"))>>
          /\ UNCHANGED <<openFile, fdVars>>
  /\ UNCHANGED <<pipeline, running, svc, channel, pending, batch, sharedVars,
                 files, durable>>

\* The descriptor behind a virtual fd is closed and forgotten.
ForgetFdGet(fd) == openFile' = [openFile EXCEPT ![fdTable[fd]] = NoPath]
                   /\ UNCHANGED fdTable
ForgetFd(fd) ==
  /\ fdTable' = Restrict(fdTable, DOMAIN fdTable \ {fd})
  /\ openFile' = [openFile EXCEPT ![fdTable[fd]] = NoPath]

HandleClose ==
  /\ TakeOp({"Close"})
  /\ LET op == Head(ops) IN
       IF op.req.fd \in DOMAIN fdTable
       THEN /\ ForgetFd(op.req.fd)
            /\ \/ outbox' = <<Reply(op, ResponseOk(op.req.id))>>
               \/ outbox' = <<Reply(op, ResponseErr(op.req.id, "EIO"))>>
       ELSE /\ outbox' = <<Reply(op, ResponseErr(op.req.id, "EBADF"))>>
            /\ UNCHANGED <<fdTable, openFile>>
  /\ UNCHANGED <<pipeline, running, svc, channel, pending, batch, nextFd,
                 sharedVars, files, durable>>

Prepare ==
  /\ TakeOp({"Read", "Write", "Sync"})
  /\ LET op == Head(ops) IN
       IF op.req.fd \in DOMAIN fdTable
       THEN /\ batch' = Append(batch, [op |-> op, fd |-> fdTable[op.req.fd],
                                     status |-> "todo", n |-> 0])
            /\ UNCHANGED outbox
       ELSE /\ outbox' = ReplyAll(op, LAMBDA s : ResponseErr(s.id, "EBADF"))
            /\ UNCHANGED batch
  /\ UNCHANGED <<pipeline, running, svc, channel, pending, fdVars, sharedVars,
                 storageVars>>
-----------------------------------------------------------------------------
(* executor.execute_batch.  PosixExecutor performs the operations one after*)
(* the other, IoUringExecutor in any order (ExecutorContract): any order   *)
(* covers both.                                                            *)

AnyTodo(i, kind) ==
  /\ svc = "round" /\ ops = <<>> /\ outbox = <<>>
  /\ batch[i].op.req.op = kind
  /\ UNCHANGED <<pipeline, running, svc, channel, pending, ops, outbox, fdVars, reqRing,
                 respRing, openFile>>

Execute(i, kind) ==
  /\ svc = "round" /\ ops = <<>> /\ outbox = <<>>
  /\ batch[i].op.req.op = kind /\ batch[i].status = "todo"
  /\ UNCHANGED <<pipeline, running, svc, channel, pending, ops, outbox, fdVars, reqRing,
                 respRing, openFile>>

Complete(i, status, n) ==
  batch' = [batch EXCEPT ![i] = [op |-> @.op, fd |-> @.fd, status |-> status, n |-> n]]

\* An errno.  The descriptor may be closed by now: two handles of different
\* daemons can name it.
Refuse(i) ==
  Complete(i, IF openFile[batch[i].fd] = NoPath THEN "EBADF" ELSE "EIO", 0)

Pread(i) ==
  /\ Execute(i, "Read")
  /\ LET r == batch[i].op.req
         c == batch[i].op.channel
         p == openFile[batch[i].fd]
     IN \/ /\ p # NoPath
           /\ LET found == Contents(files[p], r.offset, r.len) IN
                \E n \in 0 .. Len(found) :
                  /\ n = 0 => found = <<>>
                  /\ region' = [region EXCEPT ![c] =
                                  Stored(@, r.data_offset, SubSeq(found, 1, n))]
                  /\ Complete(i, "ok", n)
        \/ Refuse(i) /\ UNCHANGED region
  /\ UNCHANGED <<files, durable>>

Pwrite(i) ==
  /\ Execute(i, "Write")
  /\ LET r == batch[i].op.req
         c == batch[i].op.channel
         p == openFile[batch[i].fd]
     IN \/ /\ p # NoPath
           /\ \E n \in 1 .. r.len :
                /\ files' = [files EXCEPT ![p] =
                     Overwritten(@, r.offset, Slice(region[c], r.data_offset, n))]
                /\ Complete(i, "ok", n)
        \/ Refuse(i) /\ UNCHANGED files
  /\ UNCHANGED <<region, durable>>

Fsync(i) ==
  /\ Execute(i, "Sync")
  /\ LET p == openFile[batch[i].fd]
     IN \/ /\ p # NoPath
           /\ durable' = [durable EXCEPT ![p] = files[p]]
           /\ Complete(i, "ok", 0)
        \/ Refuse(i) /\ UNCHANGED durable
  /\ UNCHANGED <<region, files>>
-----------------------------------------------------------------------------
(* execute_round, last pass: the responses of the batch.                   *)

LesserOf(a, b) == IF a < b THEN a ELSE b

ReadResponse(done, source) ==
  [ResponseOk(source.id) EXCEPT
     !.data_offset = done.op.req.data_offset + source.within,
     !.data_len = IF source.within < done.n
                  THEN LesserOf(done.n - source.within, source.len) ELSE 0]

\* The length asked for, whatever pwrite returned.
WriteResponse(source) ==
  [ResponseOk(source.id) EXCEPT !.data_len = source.len]

BatchResponse(done, source) ==
  IF done.status # "ok" THEN ResponseErr(source.id, done.status)
  ELSE IF done.op.req.op = "Read" THEN ReadResponse(done, source)
  ELSE IF done.op.req.op = "Write" THEN WriteResponse(source)
  ELSE ResponseOk(source.id)

BatchReplies(done) == ReplyAll(done.op, LAMBDA s : BatchResponse(done, s))

Respond ==
  /\ svc = "round" /\ ops = <<>> /\ outbox = <<>>
  /\ batch # <<>>
  /\ \A i \in DOMAIN batch : batch[i].status # "todo"
  /\ outbox' = BatchReplies(Head(batch))
  /\ batch' = Tail(batch)
  /\ UNCHANGED <<pipeline, running, svc, channel, pending, ops, fdVars, sharedVars,
                 storageVars>>

SendResponseAgain ==
  /\ outbox # <<>>
  /\ LET c == Head(outbox).channel IN
       /\ Len(respRing[c]) < RingCapacity
       /\ respRing' = [respRing EXCEPT ![c] = Append(@, Head(outbox).resp)]
  /\ UNCHANGED <<pipeline, running, svc, channel, roundVars, fdVars, reqRing, region,
                 storageVars>>

\* ServiceChannel::send_response spins while the response ring is full.
SendResponse ==
  /\ outbox # <<>>
  /\ LET c == Head(outbox).channel IN
       /\ Len(respRing[c]) < RingCapacity
       /\ respRing' = [respRing EXCEPT ![c] = Append(@, Head(outbox).resp)]
  /\ outbox' = Tail(outbox)
  /\ UNCHANGED <<pipeline, running, svc, channel, pending, ops, batch, fdVars,
                 reqRing, region, storageVars>>
-----------------------------------------------------------------------------
(* The signal handler and its watcher thread (main.rs).                    *)
Signal ==
  /\ running
  /\ svc # "down"
  /\ running' = FALSE
  /\ UNCHANGED <<pipeline, svc, channel, roundVars, fdVars, sharedVars, storageVars>>

\* The process dies: the kernel closes its descriptors, the rings stay.
Crash ==
  /\ svc \notin {"down", "stopped"}
  /\ svc' = "down"
  /\ running' = FALSE
  /\ channel' = 1
  /\ pending' = <<>> /\ ops' = <<>> /\ batch' = <<>> /\ outbox' = <<>>
  /\ fdTable' = <<>> /\ nextFd' = 1
  /\ openFile' = [fd \in RealFds |-> NoPath]
  /\ UNCHANGED <<pipeline, sharedVars, files, durable>>

RestartClearsRings ==
  /\ svc = "down"
  /\ svc' = "round"
  /\ running' = TRUE
  /\ reqRing' = [c \in Clients |-> <<>>]
  /\ respRing' = [c \in Clients |-> <<>>]
  /\ UNCHANGED <<pipeline, channel, roundVars, fdVars, region, storageVars>>

\* A new daemon registers the same instances: both rings keep their
\* contents and their counters (attach, init_in_place, Producer::new).
Restart ==
  /\ svc = "down"
  /\ svc' = "round"
  /\ running' = TRUE
  /\ UNCHANGED <<pipeline, channel, roundVars, fdVars, sharedVars, storageVars>>
-----------------------------------------------------------------------------
ServiceStep ==
  \/ StartPolling \/ PollRequest \/ PollEmpty \/ Drain
  \/ HandleOpen \/ HandleClose \/ Prepare
  \/ \E i \in DOMAIN batch : Pread(i) \/ Pwrite(i) \/ Fsync(i)
  \/ Respond \/ SendResponse
  \/ Stop
=============================================================================
