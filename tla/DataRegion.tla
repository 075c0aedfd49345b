----------------------------- MODULE DataRegion -----------------------------
(***************************************************************************)
(* DataRegion::alloc (atlas-client/src/channel.rs), one step per access to *)
(* the shared counter: a bump allocator that starts over when the region is*)
(* used up and never asks whether what it gave out before is still in use. *)
(* Several threads may be in it: it takes &self.                           *)
(***************************************************************************)
EXTENDS Integers

CONSTANTS Callers,    \* the threads that share the client
          RegionLen,  \* DATA_REGION_SIZE
          Modulus,    \* number of values of a u32
          Sizes       \* lengths asked for

\* Requests stay below half of what a u32 holds, 2 GiB.
ASSUME RegionAssumption ==
  /\ RegionLen \in Nat \ {0}
  /\ Modulus \in Nat /\ 2 * RegionLen < Modulus
  /\ Sizes \subseteq Nat /\ \A n \in Sizes : 2 * n < Modulus

VARIABLES
  offset,  \* the shared counter
  step,    \* per caller: "idle", "load", "exchange", or "held" with a slot
  want,    \* per caller: n
  cur,     \* per caller: the counter as it loaded it
  held,    \* per caller: the slot it got, and in which lap of the region
  laps     \* how often the region was started over

regionVars == <<offset, step, want, cur, held, laps>>

AllocInit ==
  /\ offset = 0
  /\ step = [t \in Callers |-> "idle"]
  /\ want = [t \in Callers |-> 0]
  /\ cur = [t \in Callers |-> 0]
  /\ held = [t \in Callers |-> [start |-> 0, len |-> 0, lap |-> 0]]
  /\ laps = 0
-----------------------------------------------------------------------------
\* usize as u32, and u32 addition.
AsU32(n) == n % Modulus
Plus(a, b) == IF a + b < Modulus THEN a + b ELSE a + b - Modulus

StartsOverLate(c, n) == Plus(c, n) > RegionLen + 1
StartsOverNever(c, n) == FALSE

\* An allocation of n that finds the counter at c goes back to 0.
StartsOver(c, n) == Plus(c, n) > RegionLen

AllocBegin(t, n) ==
  /\ step[t] = "idle"
  /\ step' = [step EXCEPT ![t] = "load"]
  /\ want' = [want EXCEPT ![t] = AsU32(n)]
  /\ UNCHANGED <<offset, cur, held, laps>>

Load(t) ==
  /\ step[t] = "load"
  /\ step' = [step EXCEPT ![t] = "exchange"]
  /\ cur' = [cur EXCEPT ![t] = offset]
  /\ UNCHANGED <<offset, want, held, laps>>

\* The slot t gets, and the counter after it.
Take(t) ==
  LET over  == StartsOver(cur[t], want[t])
      start == IF over THEN 0 ELSE cur[t]
      lap   == IF over THEN laps + 1 ELSE laps
  IN  /\ step' = [step EXCEPT ![t] = "held"]
      /\ held' = [held EXCEPT ![t] = [start |-> start, len |-> want[t], lap |-> lap]]
      /\ offset' = Plus(start, want[t])
      /\ laps' = lap

ExchangeBlind(t) ==
  /\ step[t] = "exchange"
  /\ Take(t)
  /\ UNCHANGED <<want, cur>>

\* compare_exchange_weak.
Exchange(t) ==
  /\ step[t] = "exchange"
  /\ offset = cur[t]
  /\ Take(t)
  /\ UNCHANGED <<want, cur>>

ExchangeFailsWithoutLoad(t) ==
  /\ step[t] = "exchange"
  /\ offset # cur[t]
  /\ UNCHANGED regionVars

\* It fails when the counter has changed, and may fail for no reason.
ExchangeFails(t) ==
  /\ step[t] = "exchange"
  /\ step' = [step EXCEPT ![t] = "load"]
  /\ UNCHANGED <<offset, want, cur, held, laps>>

\* The call that asked for the slot returns.
Release(t) ==
  /\ step[t] = "held"
  /\ step' = [step EXCEPT ![t] = "idle"]
  /\ UNCHANGED <<offset, want, cur, held, laps>>

AllocNext ==
  \E t \in Callers :
    \/ \E n \in Sizes : AllocBegin(t, n)
    \/ Load(t) \/ Exchange(t) \/ ExchangeFails(t) \/ Release(t)

AllocSpec == AllocInit /\ [][AllocNext]_regionVars
-----------------------------------------------------------------------------
(* A slot that can lie within the region does: the copy of the client and  *)
(* the pread of the daemon stay in the mapping.                            *)
InBounds ==
  \A t \in Callers :
    step[t] = "held" /\ held[t].len <= RegionLen => held[t].start + held[t].len <= RegionLen

Apart(a, b) == a.start + a.len <= b.start \/ b.start + b.len <= a.start

(* Threads that allocate at the same time do not get overlapping slots,    *)
(* until the region is started over under one of them.                     *)
LapDisjoint ==
  \A t, u \in Callers :
    t # u /\ step[t] = "held" /\ step[u] = "held" /\ held[t].lap = held[u].lap
      => Apart(held[t], held[u])
-----------------------------------------------------------------------------
(* The inductive invariant behind both.                                    *)
AllocTypeOK ==
  /\ offset \in Nat /\ laps \in Nat
  /\ step \in [Callers -> {"idle", "load", "exchange", "held"}]
  /\ want \in [Callers -> Nat] /\ cur \in [Callers -> Nat]
  /\ held \in [Callers -> [start : Nat, len : Nat, lap : Nat]]

\* No sum of the counter and a length overflows.
NoOverflow ==
  /\ 2 * offset < Modulus
  /\ \A t \in Callers : 2 * want[t] < Modulus

\* What was given out in this lap lies below the counter.
BelowOffset ==
  \A t \in Callers :
    step[t] = "held" => /\ held[t].lap <= laps
                        /\ held[t].lap = laps => held[t].start + held[t].len <= offset

AllocInv == AllocTypeOK /\ NoOverflow /\ BelowOffset /\ InBounds /\ LapDisjoint
=============================================================================
