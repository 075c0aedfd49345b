---------------------------- MODULE AtlasClient ----------------------------
(***************************************************************************)
(* AtlasClient (atlas-client/src/lib.rs) and the application that calls it:*)
(* one synchronous call at a time, each a request pushed to the request    *)
(* ring and a spin on the response ring until the answer arrives.  The     *)
(* clients live in processes of their own, so each counts its request ids  *)
(* from 1.                                                                 *)
(***************************************************************************)
EXTENDS Protocol

CONSTANTS MaxCalls,  \* bounds on the calls of the clients, one is chosen
          Offsets,   \* file offsets used by the application
          IoLen      \* units read or written by a call

ASSUME ClientAssumption == Offsets \subseteq Nat /\ IoLen \in 1 .. RegionSize

VARIABLES quota,     \* per client: bound on its calls
          pc,        \* per client: "idle", "push" or "wait"
          req,       \* per client: the request of the current call
          nextId,    \* per client: NEXT_REQ_ID
          allocated, \* per client: DataRegion.offset
          handles,   \* per client: the path it opened, by virtual fd
          got        \* per client: what the last call returned

clientVars == <<quota, pc, req, nextId, allocated, handles, got>>

NoRequest == IoRequest(0, "None", "Low")
NoResult == [status |-> "none", fd |-> 0, len |-> 0, data |-> <<>>]

ClientInit ==
  /\ quota \in MaxCalls
  /\ pc = [c \in Clients |-> "idle"]
  /\ req = [c \in Clients |-> NoRequest]
  /\ nextId = [c \in Clients |-> 1]
  /\ allocated = [c \in Clients |-> 0]
  /\ handles = [c \in Clients |-> <<>>]
  /\ got = [c \in Clients |-> NoResult]
-----------------------------------------------------------------------------
(* The calls, up to the push.                                              *)

\* DataRegion::alloc: a bump allocator that starts over at the end.
AllocStartNoWrap(c, n) == allocated[c]
AllocStart(c, n) == IF allocated[c] + n > RegionSize THEN 0 ELSE allocated[c]
Alloc(c, n) == allocated' = [allocated EXCEPT ![c] = AllocStart(c, n) + n]

Submit(c, r) ==
  /\ pc[c] = "idle"
  /\ nextId[c] <= quota[c]
  /\ nextId' = [nextId EXCEPT ![c] = @ + 1]
  /\ pc' = [pc EXCEPT ![c] = "push"]
  /\ req' = [req EXCEPT ![c] = r]
  /\ got' = [got EXCEPT ![c] = NoResult]
  /\ UNCHANGED <<quota, reqRing, respRing, handles>>

OpenRequest(c, p) == [IoRequest(nextId[c], "Open", "High") EXCEPT !.path = p]

\* A read or a write of IoLen units.
TransferRequest(c, op, fd, offset) ==
  [IoRequest(nextId[c], op, "High") EXCEPT
     !.fd = fd, !.offset = offset, !.len = IoLen, !.data_offset = AllocStart(c, IoLen)]

FdRequest(c, op, priority, fd) == [IoRequest(nextId[c], op, priority) EXCEPT !.fd = fd]

Open(c, p) ==
  /\ Submit(c, OpenRequest(c, p))
  /\ UNCHANGED <<region, allocated>>

Read(c, fd, offset) ==
  /\ Submit(c, TransferRequest(c, "Read", fd, offset))
  /\ Alloc(c, IoLen)
  /\ UNCHANGED region

Write(c, fd, offset, data) ==
  /\ Submit(c, TransferRequest(c, "Write", fd, offset))
  /\ Alloc(c, IoLen)
  /\ region' = [region EXCEPT ![c] = Stored(@, AllocStart(c, IoLen), data)]

Sync(c, fd) ==
  /\ Submit(c, FdRequest(c, "Sync", "Critical", fd))
  /\ UNCHANGED <<region, allocated>>

Close(c, fd) ==
  /\ Submit(c, FdRequest(c, "Close", "Low", fd))
  /\ UNCHANGED <<region, allocated>>

\* The application uses the virtual fds it was given, closed ones included.
Call(c) ==
  \/ \E p \in Paths : Open(c, p)
  \/ \E fd \in DOMAIN handles[c] :
       \/ \E o \in Offsets : Read(c, fd, o)
       \/ \E o \in Offsets, v \in Values : Write(c, fd, o, [i \in 1 .. IoLen |-> v])
       \/ Sync(c, fd)
       \/ Close(c, fd)
-----------------------------------------------------------------------------
(* ClientChannel::send_request.                                            *)

PushRequest(c) ==
  /\ pc[c] = "push"
  /\ Len(reqRing[c]) < RingCapacity
  /\ reqRing' = [reqRing EXCEPT ![c] = Append(@, req[c])]
  /\ pc' = [pc EXCEPT ![c] = "wait"]
  /\ UNCHANGED <<quota, respRing, region, req, nextId, allocated, handles, got>>

\* What the caller makes of the response.
Returned(c, resp) ==
  [status |-> resp.status, fd |-> resp.fd, len |-> resp.data_len,
   data |-> IF req[c].op = "Read"
            THEN Slice(region[c], resp.data_offset, resp.data_len) ELSE <<>>]

ReturnToCaller(c, resp) ==
  /\ got' = [got EXCEPT ![c] = Returned(c, resp)]
  /\ handles' = IF req[c].op = "Open" /\ resp.status = "ok"
                THEN [handles EXCEPT ![c] = Extended(@, resp.fd, req[c].path)]
                ELSE handles
  /\ pc' = [pc EXCEPT ![c] = "idle"]
  /\ req' = [req EXCEPT ![c] = NoRequest]
  /\ UNCHANGED <<quota, nextId, allocated>>

\* A response to something else is thrown away.
PopResponse(c) ==
  /\ pc[c] = "wait"
  /\ respRing[c] # <<>>
  /\ respRing' = [respRing EXCEPT ![c] = Tail(@)]
  /\ IF Head(respRing[c]).id = req[c].id
     THEN ReturnToCaller(c, Head(respRing[c]))
     ELSE UNCHANGED clientVars
  /\ UNCHANGED <<reqRing, region>>
=============================================================================
