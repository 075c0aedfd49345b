------------------------------ MODULE EnvShim ------------------------------
(***************************************************************************)
(* AtlasEnv and its files (atlas-client/cpp/atlas_env.cpp), over the C     *)
(* functions of ffi.rs and one AtlasClient.  RocksDB calls from many       *)
(* threads; the shim takes no lock, so two threads can be in send_request  *)
(* of the one client at a time.  That is a data race on the ends of both   *)
(* rings: `shared` records it, and from then on the model shows what       *)
(* happens when every push and pop still is one whole step, the best case. *)
(* The daemon is external here: each call takes effect once, on the file   *)
(* of its handle (AtlasIO).                                                *)
(***************************************************************************)
EXTENDS DataRegion, Sequences, FiniteSets, Functions

CONSTANTS Paths,
          MaxCalls,   \* bound on the calls of RocksDB
          MaxFaults   \* bound on short writes and calls that fail

\* The buffers of RocksDB fit the region.  This restricts RocksDB: neither
\* alloc nor the daemon compares a length with the size of the region.
ASSUME EnvAssumption ==
  /\ MaxCalls \in Nat /\ MaxFaults \in Nat
  /\ \A n \in Sizes : n \in 1 .. RegionLen

VARIABLES
  objects,   \* the file objects, in the order they were made
  call,      \* per thread: the call it is in
  pc,        \* per thread: "idle", "alloc", "submit", "push", "wait"
  calls, nextId, shared,
  region,    \* the data region
  reqRing, respRing,
  table, nextFd,    \* the daemon: virtual fd -> path
  files,     \* per path, what is at each position
  faults,
  appended   \* per object: what its successful appends have passed

threadVars == <<objects, call, pc, calls, nextId, shared, appended>>
daemonVars == <<table, nextFd, files, faults>>
vars == <<regionVars, threadVars, region, reqRing, respRing, daemonVars>>

\* A unit of payload is the id of the request that wrote it.
Blank == 0
Opens == {"NewWritableFile", "NewRandomAccessFile"}
Position == 0 .. MaxCalls * RegionLen - 1
Request(op, obj, path, fd, n, pos) ==
  [op |-> op, obj |-> obj, path |-> path, fd |-> fd, len |-> n, at |-> pos, id |-> 0]
NoCall == Request("None", 0, "", 0, 0, 0)

Init ==
  /\ AllocInit
  /\ objects = <<>> /\ appended = <<>>
  /\ call = [t \in Callers |-> NoCall]
  /\ pc = [t \in Callers |-> "idle"]
  /\ calls = 0 /\ nextId = 1 /\ shared = FALSE
  /\ region = [i \in 0 .. RegionLen - 1 |-> Blank]
  /\ reqRing = <<>> /\ respRing = <<>>
  /\ table = <<>> /\ nextFd = 1
  /\ files = [p \in Paths |-> [i \in Position |-> Blank]]
  /\ faults = 0

\* n units of `from`, from its position i on, put into `into` at position j.
Copied(into, j, from, i, n) ==
  [k \in DOMAIN into |-> IF j <= k /\ k < j + n THEN from[i + k - j] ELSE into[k]]
-----------------------------------------------------------------------------
(* The methods of the Env and of its files, up to the call of the client.  *)

CallWith(t, c) ==
  /\ pc[t] = "idle"
  /\ calls < MaxCalls
  /\ calls' = calls + 1
  /\ call' = [call EXCEPT ![t] = c]
  /\ UNCHANGED <<objects, nextId, shared, appended, region, reqRing, respRing, daemonVars>>

\* A call without payload, and one with.
Plain(t, c) ==
  /\ CallWith(t, c)
  /\ pc' = [pc EXCEPT ![t] = "submit"]
  /\ UNCHANGED regionVars
WithPayload(t, c) ==
  /\ CallWith(t, c)
  /\ AllocBegin(t, c.len)
  /\ pc' = [pc EXCEPT ![t] = "alloc"]

\* RocksDB uses a writable file from one thread at a time, not after Close,
\* and opens a path for writing once at a time.  It destroys what no thread
\* uses.
InUse(o) == \E t \in Callers : pc[t] # "idle" /\ call[t].obj = o
Usable(o) ==
  /\ objects[o].alive
  /\ objects[o].kind = "Writable" => objects[o].fd # 0 /\ ~InUse(o)
Writing(p) ==
  \/ \E o \in DOMAIN objects : objects[o].kind = "Writable" /\ objects[o].path = p
                               /\ objects[o].alive
  \/ \E t \in Callers : pc[t] # "idle" /\ call[t].op = "NewWritableFile" /\ call[t].path = p

NewWritableFile(t, p) ==
  /\ ~Writing(p)
  /\ Plain(t, Request("NewWritableFile", 0, p, 0, 0, 0))

NewRandomAccessFile(t, p) ==
  Plain(t, Request("NewRandomAccessFile", 0, p, 0, 0, 0))

OnObject(o, op, n, pos) == Request(op, o, "", objects[o].fd, n, pos)

AppendData(t, o, n) ==
  /\ Usable(o) /\ objects[o].kind = "Writable"
  /\ WithPayload(t, OnObject(o, "Append", n, objects[o].offset))

Read(t, o, at, n) ==
  /\ Usable(o) /\ objects[o].kind = "RandomAccess"
  /\ WithPayload(t, OnObject(o, "Read", n, at))

Sync(t, o) ==
  /\ Usable(o) /\ objects[o].kind = "Writable"
  /\ Plain(t, OnObject(o, "Sync", 0, 0))

Close(t, o) ==
  /\ Usable(o) /\ objects[o].kind = "Writable"
  /\ Plain(t, OnObject(o, "Close", 0, 0))

\* A destructor: a writable file that was closed has nothing to do.
Destroy(t, o) ==
  /\ objects[o].alive /\ ~InUse(o)
  /\ objects[o].kind = "RandomAccess" \/ objects[o].fd # 0
  /\ Plain(t, OnObject(o, "Destroy", 0, 0))

DestroyClosed(t, o) ==
  /\ objects[o].alive /\ ~InUse(o) /\ pc[t] = "idle"
  /\ objects[o].kind = "Writable" /\ objects[o].fd = 0
  /\ objects' = [objects EXCEPT ![o].alive = FALSE]
  /\ UNCHANGED <<regionVars, call, pc, calls, nextId, shared, appended, region,
                 reqRing, respRing, daemonVars>>

Call(t) ==
  \/ \E p \in Paths : NewWritableFile(t, p) \/ NewRandomAccessFile(t, p)
  \/ \E o \in DOMAIN objects :
       \/ \E n \in Sizes : AppendData(t, o, n) \/ Read(t, o, 0, n)
       \/ Sync(t, o) \/ Close(t, o) \/ Destroy(t, o) \/ DestroyClosed(t, o)
-----------------------------------------------------------------------------
(* AtlasClient and send_request.                                           *)

Allocate(t) ==
  /\ pc[t] = "alloc"
  /\ \/ (Load(t) \/ ExchangeFails(t)) /\ UNCHANGED pc
     \/ Exchange(t) /\ pc' = [pc EXCEPT ![t] = "submit"]
  /\ UNCHANGED <<objects, call, calls, nextId, shared, appended, region, reqRing,
                 respRing, daemonVars>>

\* The payload is copied to the slot and the request gets its id.
Submit(t) ==
  /\ pc[t] = "submit"
  /\ pc' = [pc EXCEPT ![t] = "push"]
  /\ nextId' = nextId + 1
  /\ call' = [call EXCEPT ![t].id = nextId]
  /\ shared' = (shared \/ \E u \in Callers : pc[u] \in {"push", "wait"})
  /\ region' = IF call[t].op = "Append"
               THEN Copied(region, held[t].start, [i \in Position |-> nextId], 0, call[t].len)
               ELSE region
  /\ UNCHANGED <<regionVars, objects, calls, appended, reqRing, respRing, daemonVars>>

\* A thread is in send_request once: the ring has room for all of them.
Push(t) ==
  /\ pc[t] = "push"
  /\ pc' = [pc EXCEPT ![t] = "wait"]
  /\ reqRing' = Append(reqRing, [call |-> call[t], slot |-> held[t].start])
  /\ UNCHANGED <<regionVars, objects, call, calls, nextId, shared, appended, region,
                 respRing, daemonVars>>

Opened(kind, p, fd) ==
  [kind |-> kind, path |-> p, fd |-> fd, offset |-> 0, alive |-> TRUE]

AfterAppendAnyway(c, ok) ==
  /\ objects' = [objects EXCEPT ![c.obj].offset = @ + c.len]
  /\ appended' = IF ok THEN [appended EXCEPT ![c.obj] = @ \o [i \in 1 .. c.len |-> c.id]]
                 ELSE appended

\* `offset_ += data.size()`, after a write that did not fail.
AfterAppend(c, ok) ==
  IF ok
  THEN /\ objects' = [objects EXCEPT ![c.obj].offset = @ + c.len]
       /\ appended' = [appended EXCEPT ![c.obj] = @ \o [i \in 1 .. c.len |-> c.id]]
  ELSE UNCHANGED <<objects, appended>>

AfterCloseIfOk(c, ok) ==
  /\ objects' = IF ok THEN [objects EXCEPT ![c.obj].fd = 0] ELSE objects
  /\ UNCHANGED appended

\* `fd_ = 0`, whether or not close reported an error.
AfterClose(c, ok) ==
  /\ objects' = [objects EXCEPT ![c.obj].fd = 0]
  /\ UNCHANGED appended

AfterOpen(c, resp) ==
  IF resp.ok
  THEN /\ objects' = Append(objects,
              Opened(IF c.op = "NewWritableFile" THEN "Writable" ELSE "RandomAccess",
                     c.path, resp.fd))
       /\ appended' = Append(appended, <<>>)
  ELSE UNCHANGED <<objects, appended>>

\* The rest of the method, with the answer it got.
Finish(c, resp) ==
  \/ c.op \in Opens /\ AfterOpen(c, resp)
  \/ c.op = "Append" /\ AfterAppend(c, resp.ok)
  \/ c.op = "Close" /\ AfterClose(c, resp.ok)
  \/ c.op = "Destroy" /\ objects' = [objects EXCEPT ![c.obj].alive = FALSE]
                       /\ UNCHANGED appended
  \/ c.op \in {"Read", "Sync"} /\ UNCHANGED <<objects, appended>>

\* A response with another id is thrown away.
PopResponse(t) ==
  /\ pc[t] = "wait"
  /\ respRing # <<>>
  /\ respRing' = Tail(respRing)
  /\ IF Head(respRing).id = call[t].id
     THEN /\ pc' = [pc EXCEPT ![t] = "idle"]
          /\ call' = [call EXCEPT ![t] = NoCall]
          /\ Finish(call[t], Head(respRing))
          /\ IF step[t] = "held" THEN Release(t) ELSE UNCHANGED regionVars
     ELSE UNCHANGED <<regionVars, pc, call, objects, appended>>
  /\ UNCHANGED <<calls, nextId, shared, region, reqRing, daemonVars>>
-----------------------------------------------------------------------------
(* The daemon, one request after the other.                                *)

Answer(id, ok, fd) == [id |-> id, ok |-> ok, fd |-> fd]

\* The table with a handle for p.
Added(p) == [fd \in DOMAIN table \cup {nextFd} |-> IF fd = nextFd THEN p ELSE table[fd]]

\* What the request does when it succeeds, and the handle it returns.
Performed(r) ==
  LET c == r.call IN
  \/ /\ c.op = "NewWritableFile"
     /\ table' = Added(c.path) /\ nextFd' = nextFd + 1
     /\ files' = [files EXCEPT ![c.path] = [i \in Position |-> Blank]]
     /\ UNCHANGED <<faults, region>>
  \/ /\ c.op = "NewRandomAccessFile"
     /\ table' = Added(c.path) /\ nextFd' = nextFd + 1
     /\ UNCHANGED <<files, faults, region>>
  \/ /\ c.op = "Append"
     /\ \E n \in 1 .. c.len :
          /\ n < c.len => faults < MaxFaults
          /\ faults' = IF n < c.len THEN faults + 1 ELSE faults
          /\ files' = [files EXCEPT ![table[c.fd]] = Copied(@, c.at, region, r.slot, n)]
     /\ UNCHANGED <<table, nextFd, region>>
  \/ /\ c.op = "Read"
     /\ region' = Copied(region, r.slot, files[table[c.fd]], c.at, c.len)
     /\ UNCHANGED <<table, nextFd, files, faults>>
  \/ /\ c.op \in {"Close", "Destroy"}
     /\ table' = Restrict(table, DOMAIN table \ {c.fd})
     /\ UNCHANGED <<nextFd, files, faults, region>>
  \/ c.op = "Sync" /\ UNCHANGED <<daemonVars, region>>

\* A call that opens, or one whose handle is open.
Valid(c) == c.op \in Opens \/ c.fd \in DOMAIN table

Reply(ok) ==
  /\ reqRing' = Tail(reqRing)
  /\ LET c == Head(reqRing).call IN
       respRing' = Append(respRing, Answer(c.id, ok, IF c.op \in Opens THEN nextFd ELSE 0))
  /\ UNCHANGED <<regionVars, threadVars>>

Serve ==
  /\ reqRing # <<>>
  /\ Valid(Head(reqRing).call)
  /\ Performed(Head(reqRing))
  /\ Reply(TRUE)

\* EBADF, or an error of the device; close forgets the handle all the same.
ServeFails ==
  /\ reqRing # <<>>
  /\ LET c == Head(reqRing).call IN
       /\ Valid(c) => faults < MaxFaults
       /\ faults' = IF Valid(c) THEN faults + 1 ELSE faults
       /\ table' = IF c.op \in {"Close", "Destroy"}
                   THEN Restrict(table, DOMAIN table \ {c.fd}) ELSE table
  /\ Reply(FALSE)
  /\ UNCHANGED <<nextFd, files, region>>
-----------------------------------------------------------------------------
Thread(t) == Allocate(t) \/ Submit(t) \/ Push(t) \/ PopResponse(t)

Next == (\E t \in Callers : Call(t) \/ Thread(t)) \/ Serve \/ ServeFails

Spec == Init /\ [][Next]_vars

(***************************************************************************)
(* Threads inside a call run, the daemon serves, and a compare_exchange of *)
(* a thread that keeps trying succeeds.                                    *)
(***************************************************************************)
Fairness ==
  /\ \A t \in Callers :
       /\ WF_vars(Thread(t))
       /\ SF_vars(Allocate(t) /\ Exchange(t))
  /\ WF_vars(Serve \/ ServeFails)

LiveSpec == Spec /\ Fairness
-----------------------------------------------------------------------------
(* Types, and the inductive invariant of the allocator.                    *)
TypeOK ==
  /\ AllocInv /\ offset <= RegionLen
  /\ pc \in [Callers -> {"idle", "alloc", "submit", "push", "wait"}]
  /\ \A t \in Callers : step[t] = "held" => pc[t] \in {"submit", "push", "wait"}
  /\ DOMAIN objects = DOMAIN appended
  /\ DOMAIN table \subseteq 1 .. nextFd - 1
  /\ region \in [0 .. RegionLen - 1 -> 0 .. nextId]

(* A writable file holds what was appended to it, in order and nothing     *)
(* else: a failed append is overwritten by the next, and only a write the  *)
(* kernel cut short, which the daemon answers as complete, leaves a hole.  *)
FileIsAppends ==
  ~shared =>
    \A o \in DOMAIN objects :
      objects[o].kind = "Writable" /\ objects[o].alive =>
        /\ Len(appended[o]) = objects[o].offset
        /\ \A i \in DOMAIN appended[o] :
             \/ files[objects[o].path][i - 1] = appended[o][i]
             \/ faults > 0 /\ files[objects[o].path][i - 1] = Blank

(* Each handle of the daemon belongs to one file object, or to the answer  *)
(* that will make one, and is closed exactly once: by Close or by the      *)
(* destructor, not by both, also when close reports an error.              *)
Owners(fd) ==
  {o \in DOMAIN objects : objects[o].alive /\ objects[o].fd = fd}
  \cup {0 : i \in {j \in DOMAIN respRing : respRing[j].ok /\ respRing[j].fd = fd}}

Closing(o) == \E t \in Callers : pc[t] # "idle" /\ call[t].obj = o
                                 /\ call[t].op \in {"Close", "Destroy"}

HandlesOwned ==
  ~shared =>
    /\ \A fd \in DOMAIN table : Cardinality(Owners(fd)) = 1
    /\ \A o \in DOMAIN objects :
         objects[o].alive /\ objects[o].fd # 0 /\ ~Closing(o)
           => objects[o].fd \in DOMAIN table

(* A call of the client returns, as long as one thread at a time is in it. *)
ReturnsUnlessShared == \A t \in Callers : pc[t] # "idle" ~> (pc[t] = "idle" \/ shared)

(* client.md of the docs: the calling thread blocks until the daemon       *)
(* responds, as RocksDB's synchronous Env contract wants it.               *)
Returns == \A t \in Callers : pc[t] # "idle" ~> pc[t] = "idle"
=============================================================================
