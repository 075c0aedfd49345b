---------------------------- MODULE AtlasSystem ----------------------------
(***************************************************************************)
(* The clients and the daemon over the shared memory between them.         *)
(***************************************************************************)
EXTENDS AtlasClient, AtlasService

CONSTANTS MaxCrashes,   \* bound on the crashes of the daemon
          MaxDeaths     \* bound on the clients that die

VARIABLES crashes,
          dead          \* clients whose process is gone

vars == <<sharedVars, clientVars, serviceVars, storageVars, crashes, dead>>

Init == /\ ProtocolInit /\ ClientInit /\ ServiceInit /\ StorageInit
        /\ crashes = 0 /\ dead = {}

ClientStep(c) == Call(c) \/ PushRequest(c) \/ PopResponse(c)

Client(c) == /\ c \notin dead
             /\ ClientStep(c)
             /\ UNCHANGED <<serviceVars, storageVars, crashes, dead>>

\* A client dies anywhere.  Nobody tells the daemon: the rings, the region
\* and the entries of the fd table stay.
Die(c) == /\ c \notin dead
          /\ Cardinality(dead) < MaxDeaths
          /\ dead' = dead \cup {c}
          /\ UNCHANGED <<sharedVars, clientVars, serviceVars, storageVars, crashes>>

Service == ServiceStep /\ UNCHANGED <<clientVars, crashes, dead>>

Terminate == Signal /\ UNCHANGED <<clientVars, crashes, dead>>

Fail == /\ crashes < MaxCrashes
        /\ Crash
        /\ crashes' = crashes + 1
        /\ UNCHANGED <<clientVars, dead>>

Recover == Restart /\ UNCHANGED <<clientVars, crashes, dead>>

Next == (\E c \in Clients : Client(c) \/ Die(c)) \/ Service \/ Terminate \/ Fail \/ Recover

Spec == Init /\ [][Next]_vars

(***************************************************************************)
(* The daemon is one loop and a client inside a call spins: the scheduler  *)
(* of the machine lets each run again and again.  Nothing obliges an       *)
(* application to call.  A daemon that failed is started again by systemd  *)
(* (Restart=on-failure in docs/src/usage/running.md).                      *)
(***************************************************************************)
Spin(c) == /\ c \notin dead
           /\ PushRequest(c) \/ PopResponse(c)
           /\ UNCHANGED <<serviceVars, storageVars, crashes, dead>>

Fairness == /\ WF_vars(Service) /\ \A c \in Clients : WF_vars(Spin(c))
            /\ WF_vars(Recover)

LiveSpec == Spec /\ Fairness
-----------------------------------------------------------------------------
VirtualFds == 1 .. MaxFd

TaggedRequest == [req : Request, channel : Clients]

\* MergedOp
Operation ==
  [req : Request, channel : Clients,
   sources : Seq([id : Nat, within : Nat, len : Nat])]

BatchEntry ==
  [op : Operation, fd : RealFds, n : Nat, status : Statuses \cup {"todo"}]

Addressed == [channel : Clients, resp : Response]

\* What a call returns.
Outcome ==
  [status : Statuses \cup {"none"}, fd : Nat, len : Nat, data : Seq(Unit)]

\* The tables that have an entry for some of D.
Tables(D, S) == UNION {[E -> S] : E \in SUBSET D}

(* Types.                                                                  *)
TypeOK ==
  /\ pc \in [Clients -> {"idle", "push", "wait"}]
  /\ req \in [Clients -> Request]
  /\ nextId \in [Clients -> Nat]
  /\ allocated \in [Clients -> 0 .. RegionSize]
  /\ handles \in [Clients -> Tables(VirtualFds, Paths)]
  /\ got \in [Clients -> Outcome]
  /\ reqRing \in [Clients -> Seq(Request)]
  /\ respRing \in [Clients -> Seq(Response)]
  /\ region \in [Clients -> [0 .. RegionSize - 1 -> Unit]]
  /\ svc \in {"round", "poll", "stopped", "down"}
  /\ channel \in 1 .. NumClients + 1
  /\ pending \in Seq(TaggedRequest)
  /\ ops \in Seq(Operation)
  /\ batch \in Seq(BatchEntry)
  /\ outbox \in Seq(Addressed)
  /\ nextFd \in 1 .. MaxFd + 1
  /\ fdTable \in Tables(1 .. nextFd - 1, RealFds)
  /\ openFile \in [RealFds -> Paths \cup {NoPath}]
  /\ files \in [Paths -> Seq(Unit)]
  /\ durable \in [Paths -> Seq(Unit)]
-----------------------------------------------------------------------------
(* Where the current call of c is: the places that hold its request or its *)
(* response.  A merged operation holds a request in each of its sources.   *)

Ring(name, ring) == {<<name, i, 1>> : i \in DOMAIN ring}

Queued(name, queue, c) ==
  {<<name, i, 1>> : i \in {j \in DOMAIN queue : queue[j].channel = c}}

Merges(name, merged, c) ==
  UNION {{<<name, i, k>> : k \in DOMAIN merged[i].sources} :
           i \in {j \in DOMAIN merged : merged[j].channel = c}}

\* The operations of the batch.
Prepared == [i \in DOMAIN batch |-> batch[i].op]

Places(c) ==
  Ring("reqRing", reqRing[c]) \cup Queued("pending", pending, c)
  \cup Merges("ops", ops, c) \cup Merges("batch", Prepared, c)
  \cup Queued("outbox", outbox, c) \cup Ring("respRing", respRing[c])

(* A call that waits is in exactly one place, one that does not wait is in *)
(* none: no request is dropped, run twice or answered twice on its way     *)
(* through rings, pipeline, round and batch.                               *)
Conserved ==
  \A c \in Clients : Cardinality(Places(c)) = IF pc[c] = "wait" THEN 1 ELSE 0

(* Also when the daemon crashes and is started again: what was taken off   *)
(* the rings is lost, never duplicated.                                    *)
AtMostOnce ==
  \A c \in Clients : Cardinality(Places(c)) <= IF pc[c] = "wait" THEN 1 ELSE 0

(* The responses on their way to c answer the call c waits for: the loop of*)
(* send_request never has to drop one.                                     *)
AnswersMatch ==
  \A c \in Clients :
    /\ \A i \in DOMAIN respRing[c] : respRing[c][i].id = req[c].id
    /\ \A i \in DOMAIN outbox :
         outbox[i].channel = c => outbox[i].resp.id = req[c].id

(* The one service thread never spins on a full response ring, where one   *)
(* slow client would hold up all the others.                               *)
NeverBlocked ==
  outbox # <<>> => Len(respRing[Head(outbox).channel]) < RingCapacity

(* Isolation: a prepared operation acts on the file that its own client    *)
(* opened under the virtual fd it names, whatever the other clients open   *)
(* and close in the same round.                                            *)
Isolation ==
  \A i \in DOMAIN batch :
    LET op == batch[i].op IN
      /\ op.req.fd \in DOMAIN handles[op.channel]
      /\ openFile[batch[i].fd] = handles[op.channel][op.req.fd]

(* The fd table names every open descriptor of the daemon exactly once: no *)
(* descriptor leaks and no two virtual fds share one.                      *)
FdTableExact ==
  svc # "stopped" =>
    /\ IsInjective(fdTable)
    /\ Range(fdTable) = RealFds \ FreeFds

(* When the daemon has stopped, no request it took off a ring is left      *)
(* without an answer.                                                      *)
StopsClean ==
  svc = "stopped" =>
    \A c \in Clients : pc[c] = "wait" => reqRing[c] # <<>> \/ respRing[c] # <<>>
-----------------------------------------------------------------------------
(* The system implements AtlasIO.                                          *)

ResponsesTo(c, replies) ==
  {replies[i].resp : i \in {j \in DOMAIN replies : replies[j].channel = c}}

\* Responses to c that are decided: pushed, about to be, or to be built.
Decided(c) ==
  {respRing[c][i] : i \in DOMAIN respRing[c]}
  \cup ResponsesTo(c, outbox)
  \cup UNION {ResponsesTo(c, BatchReplies(batch[i])) :
                i \in {j \in DOMAIN batch : batch[j].status # "todo"}}

AppRequest(op, fd, offset, len, path, data) ==
  [op |-> op, fd |-> fd, offset |-> offset, len |-> len, path |-> path,
   data |-> data]

AppRequests ==
  {AppRequest("Open", 0, 0, 0, p, <<>>) : p \in Paths}
  \cup {AppRequest(op, fd, 0, 0, NoPath, <<>>) :
          op \in {"Sync", "Close"}, fd \in VirtualFds}
  \cup {AppRequest("Read", fd, o, IoLen, NoPath, <<>>) :
          fd \in VirtualFds, o \in Offsets}
  \cup {AppRequest("Write", fd, o, IoLen, NoPath, [i \in 1 .. IoLen |-> v]) :
          fd \in VirtualFds, o \in Offsets, v \in Values}

Carried(c) ==
  AppRequest(req[c].op, req[c].fd, req[c].offset, req[c].len, req[c].path,
             IF req[c].op = "Write"
             THEN Slice(region[c], req[c].data_offset, req[c].len) ELSE <<>>)

CallOf(c) ==
  IF pc[c] = "idle" THEN [state |-> "idle", res |-> got[c]]
  ELSE IF Decided(c) = {} THEN [state |-> "pending", req |-> Carried(c)]
  ELSE [state |-> "done", res |-> Returned(c, CHOOSE resp \in Decided(c) : TRUE)]

Calls == [c \in Clients |-> CallOf(c)]

\* The path each virtual fd stands for.
OpenPaths == [v \in DOMAIN fdTable |-> openFile[fdTable[v]]]

IO == INSTANCE AtlasIO
        WITH call <- Calls,
             handle <- OpenPaths,
             given <- 1 .. nextFd - 1,
             Handles <- VirtualFds,
             Requests <- AppRequests

(* Every call takes effect once and atomically on its own file: batching,  *)
(* reordering by priority and the interleaving of rounds with the clients  *)
(* cannot be observed.                                                     *)
ImplementsIO == IO!Spec
-----------------------------------------------------------------------------
(* protocol.md of the docs: data_len is the bytes actually read/written.   *)
DataLenActual ==
  \A i \in DOMAIN batch :
    batch[i].status = "ok" =>
      \A k \in DOMAIN BatchReplies(batch[i]) :
        LET resp == BatchReplies(batch[i])[k].resp IN
          batch[i].op.req.op \in {"Read", "Write"} => resp.data_len = batch[i].n
-----------------------------------------------------------------------------
(* Every call returns, unless the daemon is told to stop or crashes with   *)
(* the request in its own memory: a client waits without a timeout.        *)
CallsReturn ==
  \A c \in Clients :
    (pc[c] = "push" \/ Places(c) # {}) ~> (pc[c] = "idle" \/ ~running \/ c \in dead)

(* Told to stop, the daemon stops: the loop that empties a request ring    *)
(* and the one that waits for room in a response ring both end.            *)
ShutdownCompletes == (~running /\ svc # "down") ~> (svc \in {"stopped", "down"})

(* A request that was still in its ring when the daemon crashed is         *)
(* answered by the next one, unless that one stops or crashes.             *)
ServedAfterRestart ==
  \A c \in Clients :
    (svc = "down" /\ reqRing[c] # <<>>)
      ~> (pc[c] = "idle" \/ c \in dead \/ (svc # "down" /\ ~running))
=============================================================================
