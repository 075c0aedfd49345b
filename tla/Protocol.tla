------------------------------ MODULE Protocol ------------------------------
(***************************************************************************)
(* The wire format (atlas-protocol/src/lib.rs) and the shared memory of    *)
(* the instances.  Each client has a request ring, a response ring and a   *)
(* data region of its own; SpscRing shows that a ring is the bounded FIFO  *)
(* channel it is here.  Paths, file contents and errno values are opaque.  *)
(***************************************************************************)
EXTENDS Integers, Sequences

CONSTANTS NumClients,    \* registered instances
          RingCapacity,  \* RING_CAPACITY
          RegionSize,    \* DATA_REGION_SIZE, in units of payload
          Paths,
          Values,        \* what a unit of payload can be
          Blank          \* a unit never written

NoPath == "no path"

ASSUME ProtocolAssumption ==
  /\ NumClients \in Nat \ {0}
  /\ RingCapacity \in Nat \ {0}
  /\ RegionSize \in Nat \ {0}
  /\ Blank \notin Values
  /\ NoPath \notin Paths

\* A client and its index in AtlasService.channels are the same number.
Clients == 1 .. NumClients

VARIABLES reqRing,    \* per client: requests pushed and not yet popped
          respRing,   \* per client: responses pushed and not yet popped
          region      \* per client: the data region

sharedVars == <<reqRing, respRing, region>>

Unit == Values \cup {Blank}

IoRequest(id, op, priority) ==
  [id |-> id, op |-> op, priority |-> priority, fd |-> 0, offset |-> 0,
   len |-> 0, data_offset |-> 0, path |-> NoPath]

Request ==
  [id : Nat, op : {"Open", "Read", "Write", "Sync", "Close", "None"},
   priority : {"Critical", "High", "Low"}, fd : Nat, offset : Nat, len : Nat,
   data_offset : Nat, path : Paths \cup {NoPath}]

Statuses == {"ok", "EMFILE", "EBADF", "EIO"}

Response ==
  [id : Nat, status : Statuses, fd : Nat, data_offset : Nat, data_len : Nat]

ResponseOk(id) ==
  [id |-> id, status |-> "ok", fd |-> 0, data_offset |-> 0, data_len |-> 0]

ResponseErr(id, status) == [ResponseOk(id) EXCEPT !.status = status]

\* A table with one more entry, or with another value for the one it has.
Extended(f, x, v) == [y \in DOMAIN f \cup {x} |-> IF y = x THEN v ELSE f[y]]

\* n units of a data region.
Slice(data, offset, n) == [i \in 1 .. n |-> data[offset + i - 1]]

\* `data` stored in a data region.
Stored(old, offset, data) ==
  [i \in DOMAIN old |-> IF offset <= i /\ i < offset + Len(data)
                        THEN data[i - offset + 1] ELSE old[i]]

ProtocolInit ==
  /\ reqRing = [c \in Clients |-> <<>>]
  /\ respRing = [c \in Clients |-> <<>>]
  /\ region = [c \in Clients |-> [i \in 0 .. RegionSize - 1 |-> Blank]]
=============================================================================
