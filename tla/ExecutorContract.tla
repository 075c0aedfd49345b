-------------------------- MODULE ExecutorContract --------------------------
(***************************************************************************)
(* What the service relies on when it calls an IoExecutor (executor.rs):   *)
(* each operation of a call is performed once, between the call and its    *)
(* return, in any order, and gets the outcome the kernel gave to it.       *)
(***************************************************************************)
EXTENDS Integers, Sequences

CONSTANTS Calls(_),      \* the calls that may be made with ids from n on
          Effect(_, _)   \* an operation and its outcome: what it does to files

VARIABLES calling,   \* whether a call is in progress
          ops,       \* its operations, or those of the last call
          outcome,   \* what the kernel answered to each, or Undone
          answer,    \* what the last call returned for each
          files, used

vars == <<calling, ops, outcome, answer, files, used>>

Undone == "undone"

Call ==
  /\ ~calling
  /\ calling' = TRUE
  /\ \E call \in Calls(used + 1) :
       /\ ops' = call
       /\ outcome' = [i \in DOMAIN call |-> Undone]
       /\ used' = used + Len(call)
  /\ answer' = <<>>
  /\ UNCHANGED files

Perform(i) ==
  /\ calling
  /\ outcome[i] = Undone
  /\ \E status \in {"ok", "error"} :
       /\ outcome' = [outcome EXCEPT ![i] = status]
       /\ files' = IF status = "ok" THEN Effect(ops[i], files) ELSE files
  /\ UNCHANGED <<calling, ops, answer, used>>

Return ==
  /\ calling
  /\ \A i \in DOMAIN ops : outcome[i] # Undone
  /\ calling' = FALSE
  /\ answer' = outcome
  /\ UNCHANGED <<ops, outcome, files, used>>

Next == Call \/ (\E i \in DOMAIN ops : Perform(i)) \/ Return
=============================================================================
