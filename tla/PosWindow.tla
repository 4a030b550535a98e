----------------------------- MODULE PosWindow -----------------------------
(***************************************************************************)
(* winbuf.c and posbuf.c: a ring of the last WinSize pedal reports and the *)
(* running sum that posbuf_add keeps of it by adding the new report and    *)
(* subtracting the one it evicts.  The sum is an int16_t.                  *)
(*                                                                         *)
(* travel is a history variable: no code reads it, it records what the     *)
(* sum is meant to be (see PedalTravel).                                   *)
(***************************************************************************)
EXTENDS Integers

CONSTANTS WinSize,   \* wb.win_size
          MaxStep,   \* a report moves the pedal by at most this many steps
          HalfWord   \* 2^15: an int16_t is in -HalfWord .. HalfWord-1

\* win_w_init refuses an empty window; a report is at most one step for each
\* of the samples of a report period, 160 in this build, so that a whole
\* window (10 * 160) fits in the sum.
ASSUME WindowAssumption == /\ WinSize \in Nat \ {0}
                           /\ MaxStep \in Nat
                           /\ HalfWord \in Nat
                           /\ WinSize * MaxStep < HalfWord

VARIABLES buf,     \* wb.buf, the slots the window uses
          index,   \* wb.index, the slot to overwrite next
          sum,     \* sum of posbuf.c
          travel   \* history: see PedalTravel

windowVars == <<buf, index, sum, travel>>

Slots == 0 .. WinSize-1

\* Conversion of an int to int16_t.
Int16(x) == ((x + HalfWord) % (2 * HalfWord)) - HalfWord

Promise == INSTANCE PedalTravel WITH winPos <- sum

-----------------------------------------------------------------------------
win_w_init == buf = [k \in Slots |-> 0] /\ index = 0

\* Overwrites the oldest slot; the caller gets what was in it (Evicted).
Evicted == buf[index]

\* Faults: the wrap comes one slot late, or one slot early.
win_w_add_late(object) ==
  /\ buf' = [buf EXCEPT ![index] = object]
  /\ index' = IF index + 1 > WinSize THEN 0 ELSE index + 1
win_w_add_early(object) ==
  /\ buf' = [buf EXCEPT ![index] = object]
  /\ index' = IF index + 2 >= WinSize THEN 0 ELSE index + 1

win_w_add(object) ==
  /\ buf' = [buf EXCEPT ![index] = object]
  /\ index' = IF index + 1 >= WinSize THEN 0 ELSE index + 1

posbuf_init == /\ win_w_init
               /\ sum = 0
               /\ travel = Promise!NoTravel

\* Fault: the slot is read after it was overwritten.
posbuf_add_stale(obj) == /\ win_w_add(obj)
                         /\ sum' = Int16(sum + obj - buf'[index])
                         /\ travel' = Promise!Extend(travel, obj)

posbuf_add(obj) == /\ win_w_add(obj)
                   /\ sum' = Int16(sum + obj - Evicted)
                   /\ travel' = Promise!Extend(travel, obj)

WindowNext == \E obj \in Promise!Steps : posbuf_add(obj)

WindowSpec == posbuf_init /\ [][WindowNext]_windowVars

-----------------------------------------------------------------------------
\* How many reports ago slot k was written (WinSize for the next to go).
Age(k) == IF k < index THEN index - k ELSE index - k + WinSize

\* Types: the index stays inside the window and the sum in an int16_t.
WindowTypeOK == /\ buf \in [Slots -> Promise!Steps]
                /\ index \in Slots
                /\ sum \in -HalfWord .. HalfWord-1
                /\ travel \in [0..WinSize -> Int]

\* The ring holds the last WinSize reports in the order of their age: a slot
\* is the difference between two consecutive travels.
RingHoldsReports ==
  \A k \in Slots : buf[k] = travel[Age(k)] - travel[Age(k) - 1]

\* The movement over i reports is at most i full reports.
TravelBounded ==
  \A i \in 0..WinSize : -(i * MaxStep) <= travel[i] /\ travel[i] <= i * MaxStep

\* posbuf_add returns the net movement over exactly the last WinSize reports:
\* nothing is counted twice, dropped early or lost to the int16_t, however
\* often the ring has wrapped.
SumIsTravel == sum = travel[WinSize]

\* The inductive invariant of the proofs in PosWindow_proofs.
WindowInv == /\ WindowTypeOK
             /\ travel[0] = 0
             /\ RingHoldsReports
             /\ TravelBounded
             /\ SumIsTravel

\* Every posbuf_add is a report of the window's promise.
ImplementsTravel == Promise!Spec
=============================================================================
