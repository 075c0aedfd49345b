------------------------------ MODULE Storage ------------------------------
(***************************************************************************)
(* The kernel as executor.rs uses it: file descriptors of the daemon, and  *)
(* files with what a crash of the machine would keep of them.  External.   *)
(***************************************************************************)
EXTENDS Protocol, FiniteSetsExt

CONSTANT RealFds   \* the descriptors the daemon may have open (RLIMIT_NOFILE)

ASSUME StorageAssumption == RealFds \subseteq Nat

VARIABLES openFile,  \* per descriptor: the path it is open on, or NoPath
          files,     \* per path: the contents
          durable    \* per path: the contents as of the last fsync

storageVars == <<openFile, files, durable>>

StorageInit ==
  /\ openFile = [fd \in RealFds |-> NoPath]
  /\ files = [p \in Paths |-> <<>>]
  /\ durable = [p \in Paths |-> <<>>]

\* open(2) returns the lowest descriptor not in use.
FreeFds == {fd \in RealFds : openFile[fd] = NoPath}
LowestFree == Min(FreeFds)

\* The units at an offset of a file, at most n of them.
Contents(content, offset, n) ==
  SubSeq(content, offset + 1, Min({offset + n, Len(content)}))

\* A file after a pwrite of `data`.
Overwritten(content, offset, data) ==
  [i \in 1 .. Max({Len(content), offset + Len(data)}) |->
     IF i > offset /\ i <= offset + Len(data) THEN data[i - offset]
     ELSE IF i <= Len(content) THEN content[i] ELSE Blank]
=============================================================================
