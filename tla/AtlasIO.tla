------------------------------ MODULE AtlasIO ------------------------------
(***************************************************************************)
(* What the daemon and its client library promise an application: every    *)
(* call of open, read, write, sync and close takes effect once, atomically,*)
(* between the call and its return, on the file its handle was opened on;  *)
(* a handle that was never given out, or was closed, gets EBADF; handles   *)
(* are never used again.                                                   *)
(***************************************************************************)
EXTENDS Integers, Sequences, Functions

CONSTANTS Clients, Paths, Handles,
          Requests,             \* [op, fd, offset, len, path, data]
          Contents(_, _, _),    \* content, offset, length: the units there
          Overwritten(_, _, _)  \* content, offset, data: the content after

VARIABLES call,     \* per client: its call, or the result of the last one
          handle,   \* the path each open handle stands for
          given,    \* every handle ever given out
          files, durable

vars == <<call, handle, given, files, durable>>

Result(status, fd, len, data) ==
  [status |-> status, fd |-> fd, len |-> len, data |-> data]
Idle(res) == [state |-> "idle", res |-> res]
Pending(r) == [state |-> "pending", req |-> r]
Done(res) == [state |-> "done", res |-> res]
Failed(status) == Result(status, 0, 0, <<>>)

Init ==
  /\ call = [c \in Clients |-> Idle(Result("none", 0, 0, <<>>))]
  /\ handle = <<>>
  /\ given = {}
  /\ files = [p \in Paths |-> <<>>]
  /\ durable = [p \in Paths |-> <<>>]

Invoke(c) ==
  /\ call[c].state = "idle"
  /\ \E r \in Requests : call' = [call EXCEPT ![c] = Pending(r)]
  /\ UNCHANGED <<handle, given, files, durable>>

Return(c) ==
  /\ call[c].state = "done"
  /\ call' = [call EXCEPT ![c] = Idle(call[c].res)]
  /\ UNCHANGED <<handle, given, files, durable>>

\* The call of c ends with this result.
Ends(c, res) == call' = [call EXCEPT ![c] = Done(res)]

Called(c, op) == call[c].state = "pending" /\ call[c].req.op = op

Open(c) ==
  /\ Called(c, "Open")
  /\ \/ \E fd \in Handles \ given :
          /\ Ends(c, Result("ok", fd, 0, <<>>))
          /\ handle' = [v \in DOMAIN handle \cup {fd} |->
                         IF v = fd THEN call[c].req.path ELSE handle[v]]
          /\ given' = given \cup {fd}
     \/ /\ Ends(c, Failed("EMFILE"))
        /\ UNCHANGED <<handle, given>>
  /\ UNCHANGED <<files, durable>>

BadHandle(c) ==
  /\ call[c].state = "pending"
  /\ call[c].req.op # "Open"
  /\ call[c].req.fd \notin DOMAIN handle
  /\ Ends(c, Failed("EBADF"))
  /\ UNCHANGED <<handle, given, files, durable>>

\* The device reports an error: nothing changed.
DeviceError(c) ==
  /\ call[c].state = "pending"
  /\ call[c].req.op \in {"Read", "Write", "Sync"}
  /\ call[c].req.fd \in DOMAIN handle
  /\ Ends(c, Failed("EIO"))
  /\ UNCHANGED <<handle, given, files, durable>>

\* A handle is gone after close, whether or not close reports an error.
Close(c) ==
  /\ Called(c, "Close")
  /\ call[c].req.fd \in DOMAIN handle
  /\ Ends(c, Result("ok", 0, 0, <<>>)) \/ Ends(c, Failed("EIO"))
  /\ handle' = Restrict(handle, DOMAIN handle \ {call[c].req.fd})
  /\ UNCHANGED <<given, files, durable>>

\* Some of what is there, all of it or not; nothing only at the end of file.
Read(c) ==
  /\ Called(c, "Read")
  /\ call[c].req.fd \in DOMAIN handle
  /\ LET found == Contents(files[handle[call[c].req.fd]], call[c].req.offset,
                           call[c].req.len)
     IN \E n \in 0 .. Len(found) :
          /\ n = 0 => found = <<>>
          /\ Ends(c, Result("ok", 0, n, SubSeq(found, 1, n)))
  /\ UNCHANGED <<handle, given, files, durable>>

\* A first part of the data is stored.  The length returned is the length
\* asked for, also when less was stored.
Write(c) ==
  /\ Called(c, "Write")
  /\ call[c].req.fd \in DOMAIN handle
  /\ \E n \in 1 .. call[c].req.len :
       files' = [files EXCEPT ![handle[call[c].req.fd]] =
                   Overwritten(@, call[c].req.offset, SubSeq(call[c].req.data, 1, n))]
  /\ Ends(c, Result("ok", 0, call[c].req.len, <<>>))
  /\ UNCHANGED <<handle, given, durable>>

\* Everything the file holds is on the device before sync returns.
Sync(c) ==
  /\ Called(c, "Sync")
  /\ call[c].req.fd \in DOMAIN handle
  /\ durable' = [durable EXCEPT ![handle[call[c].req.fd]] =
                   files[handle[call[c].req.fd]]]
  /\ Ends(c, Result("ok", 0, 0, <<>>))
  /\ UNCHANGED <<handle, given, files>>

Next == \E c \in Clients :
          \/ Invoke(c) \/ Return(c)
          \/ Open(c) \/ BadHandle(c) \/ DeviceError(c) \/ Close(c)
          \/ Read(c) \/ Write(c) \/ Sync(c)

Spec == Init /\ [][Next]_vars
=============================================================================
