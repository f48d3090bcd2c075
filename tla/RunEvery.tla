------------------------------- MODULE RunEvery -------------------------------
(***************************************************************************)
(* The clock and the frame loop of lib/run_every.c.                        *)
(*                                                                         *)
(* Time is kept as milliseconds in an int.  The monotonic clock is finer,  *)
(* so every reading is rounded down, and an int holds 25 days of it, so it *)
(* wraps; the loop only ever subtracts two readings.  (The difference of   *)
(* two ints that straddles the wrap overflows; gcc -O0 and -O1, which the  *)
(* Makefile asks for, subtract in machine words.)  Time passes freely      *)
(* between any two statements.                                             *)
(***************************************************************************)
EXTENDS Integers

CONSTANTS
  IntRange,    \* 2^32, how many values an int has
  TicksPerMs,  \* instants of the clock in a millisecond, 10^6 in the code
  Interval,    \* interval_ms
  LongestFrame,\* bound on the time between two readings, in ms
  Horizon      \* bound on the time that passes, in ticks

ASSUME RunEveryAssumption ==
  /\ IntRange \in Nat \ {0} /\ IntRange % 2 = 0
  /\ TicksPerMs \in Nat \ {0}
  /\ Interval \in Nat /\ LongestFrame \in Nat
  /\ 2 * (Interval + LongestFrame) < IntRange
  /\ Horizon \in Nat

VARIABLES
  now,       \* CLOCK_MONOTONIC, in ticks
  pc,        \* where run_every is
  last, start, deltaTime, sleepTime, run,  \* its locals
  wakeAt,    \* when nanosleep returns, at the earliest
  previous,  \* history: the true millisecond of the reading before `start`
  begun      \* history: the true millisecond of the reading in `start`

vars == <<now, pc, last, start, deltaTime, sleepTime, run, wakeAt, previous, begun>>

Half == IntRange \div 2
Int32 == -Half .. Half - 1

\* A slip: the value does not wrap.
NotWrapped(x) == x

\* x as an int.
AsInt(x) == ((x + Half) % IntRange) - Half

Ms == now \div TicksPerMs

\* get_curr_time_ms
CurrTimeMs == AsInt(Ms)

\* The call: `last` lies one interval back.
Init ==
  /\ now \in 0 .. Horizon
  /\ last = AsInt(CurrTimeMs - Interval)
  /\ previous = Ms - Interval
  /\ pc = "loop"
  /\ run = TRUE
  /\ start = 0 /\ deltaTime = 0 /\ sleepTime = 0
  /\ wakeAt = 0
  /\ begun = Ms

\* Time passes, whatever run_every is doing.
Tick ==
  /\ now < Horizon
  /\ (now + 1) \div TicksPerMs - begun <= LongestFrame
  /\ now' = now + 1
  /\ UNCHANGED <<pc, last, start, deltaTime, sleepTime, run, wakeAt, previous, begun>>

\* What passed since a reading; in the slip, as a wider number.
ElapsedWide(from) == CurrTimeMs - from
Elapsed(from) == AsInt(CurrTimeMs - from)

ReadStart ==
  /\ pc = "loop" /\ run
  /\ start' = CurrTimeMs
  /\ deltaTime' = Elapsed(last)
  /\ begun' = Ms
  /\ pc' = "call"
  /\ UNCHANGED <<now, last, sleepTime, run, wakeAt, previous>>

\* re_args.func(delta_time, ...) returns.
Call ==
  /\ pc = "call"
  /\ run' \in BOOLEAN
  /\ pc' = "measure"
  /\ UNCHANGED <<now, last, start, deltaTime, sleepTime, wakeAt, previous, begun>>

\* The rest of the interval; in the slip, measured from the frame before.
RestFromLast == AsInt(Interval - Elapsed(last))
Rest == AsInt(Interval - Elapsed(start))

\* A second reading of the clock.
Measure ==
  /\ pc = "measure"
  /\ sleepTime' = Rest
  /\ pc' = "sleep"
  /\ UNCHANGED <<now, last, start, deltaTime, run, wakeAt, previous, begun>>

\* sleep(): nothing to do when the frame was late.  The program handles no
\* signals, so nanosleep is not cut short.
Sleep ==
  /\ pc = "sleep"
  /\ wakeAt' = IF sleepTime > 0 THEN now + sleepTime * TicksPerMs ELSE now
  /\ pc' = "wake"
  /\ UNCHANGED <<now, last, start, deltaTime, sleepTime, run, previous, begun>>

\* nanosleep returns at its time or later; last = start, and the loop's test.
Wake ==
  /\ pc = "wake" /\ now >= wakeAt
  /\ last' = start
  /\ previous' = begun
  /\ pc' = IF run THEN "loop" ELSE "returned"
  /\ UNCHANGED <<now, start, deltaTime, sleepTime, run, wakeAt, begun>>

Next == Tick \/ ReadStart \/ Call \/ Measure \/ Sleep \/ Wake

Spec == Init /\ [][Next]_vars

-----------------------------------------------------------------------------
TypeOK ==
  /\ now \in 0 .. Horizon
  /\ pc \in {"loop", "call", "measure", "sleep", "wake", "returned"}
  /\ {last, start, deltaTime, sleepTime} \subseteq Int32
  /\ run \in BOOLEAN
  /\ wakeAt \in Nat
  /\ previous \in Int /\ begun \in Nat

\* The callback is told the time since its last call, rounded at both ends the
\* same way, though the readings it is computed from wrap: so the times it is
\* told add up to the time that passed and no rounding error piles up.
DeltaIsElapsed ==
  pc \in {"call", "measure", "sleep", "wake"} => deltaTime = begun - previous

\* Two calls are never less than the interval apart, wherever in a millisecond
\* the clock is read: the physics is never stepped by less than the interval.
NeverEarly ==
  pc \in {"call", "measure", "sleep", "wake"} => begun - previous >= Interval
=============================================================================
