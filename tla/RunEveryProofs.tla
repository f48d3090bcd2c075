--------------------------- MODULE RunEveryProofs ----------------------------
(***************************************************************************)
(* Proofs about RunEvery, for ints of any width, clocks of any precision   *)
(* and any interval that is short against the range of an int.             *)
(*                                                                         *)
(* The readings wrap; what is subtracted does not go far.  So the locals   *)
(* of run_every are the true milliseconds as ints, and differences of them *)
(* are the true differences.  That no call is early needs, of the sleep,   *)
(* that the reading it was computed from is not later than the sleep.      *)
(***************************************************************************)
EXTENDS RunEvery, Lemmas

\* An int has as many negative values as others.
LEMMA TwoHalves ==
  /\ IntRange \in Nat \ {0} /\ Half \in Nat \ {0}
  /\ IntRange = 2 * Half
  /\ Interval + LongestFrame < Half
<1>1. /\ IntRange \in Nat \ {0} /\ IntRange % 2 = 0
      /\ Interval \in Nat /\ LongestFrame \in Nat
      /\ 2 * (Interval + LongestFrame) < IntRange
  BY RunEveryAssumption
<1>2. IntRange = 2 * (IntRange \div 2) /\ IntRange \div 2 \in Int
  BY <1>1
<1> QED BY <1>1, <1>2 DEF Half

\* Wrapping takes away a multiple of the range.
LEMMA AsIntWraps ==
  ASSUME NEW x \in Int
  PROVE  AsInt(x) \in Int32 /\ \E k \in Int : AsInt(x) = x - IntRange * k
<1> DEFINE a == x + Half
           k == a \div IntRange
<1>1. /\ a \in Int /\ k \in Int /\ a % IntRange \in 0 .. IntRange - 1
      /\ a = IntRange * k + (a % IntRange)
  <2>1. a \in Int /\ IntRange \in Nat \ {0}
    BY TwoHalves
  <2> HIDE DEF a
  <2> QED BY <2>1
<1>2. AsInt(x) = (a % IntRange) - Half
  BY DEF AsInt
<1>3. AsInt(x) = x - IntRange * k
  BY <1>1, <1>2, TwoHalves
<1>4. AsInt(x) \in Int32
  BY <1>1, <1>2, TwoHalves DEF Int32
<1> QED BY <1>1, <1>3, <1>4

\* And one int only differs from a number by such a multiple.
LEMMA AsIntUnique ==
  ASSUME NEW k \in Int, NEW y \in Int32
  PROVE  AsInt(y + IntRange * k) = y
<1>1. y + Half \in 0 .. IntRange - 1 /\ y \in Int
  BY TwoHalves DEF Int32
<1>2. (IntRange * k + (y + Half)) % IntRange = y + Half
  BY <1>1, TwoHalves, ModUnique
<1>3. (y + IntRange * k) + Half = IntRange * k + (y + Half)
  BY <1>1, TwoHalves
<1> QED BY <1>1, <1>2, <1>3, TwoHalves DEF AsInt

\* What an int can hold is unchanged.
LEMMA AsIntSame ==
  ASSUME NEW y \in Int32
  PROVE  AsInt(y) = y
<1>1. AsInt(y + IntRange * 0) = y
  BY AsIntUnique
<1>2. y + IntRange * 0 = y
  BY TwoHalves DEF Int32
<1> QED BY <1>1, <1>2

\* The difference of two readings that are close, though one of them may have
\* wrapped and the other not.
LEMMA Difference ==
  ASSUME NEW a \in Int, NEW b \in Int, a - b \in Int32
  PROVE  AsInt(AsInt(a) - AsInt(b)) = a - b
<1>1. PICK m \in Int : AsInt(a) = a - IntRange * m
  BY AsIntWraps
<1>2. PICK n \in Int : AsInt(b) = b - IntRange * n
  BY AsIntWraps
<1>3. AsInt((a - b) + IntRange * (n - m)) = a - b
  BY AsIntUnique
<1>4. AsInt(a) - AsInt(b) = (a - b) + IntRange * (n - m)
  BY <1>1, <1>2, TwoHalves
<1> QED BY <1>3, <1>4

\* One int less a number, wrapped again.
LEMMA WrapTwice ==
  ASSUME NEW a \in Int, NEW b \in Int
  PROVE  AsInt(AsInt(a) - b) = AsInt(a - b)
<1>1. PICK m \in Int : AsInt(a) = a - IntRange * m
  BY AsIntWraps
<1>2. PICK n \in Int : AsInt(a - b) = (a - b) - IntRange * n
  BY AsIntWraps
<1>3. AsInt(AsInt(a - b) + IntRange * (n - m)) = AsInt(a - b)
  BY AsIntUnique, AsIntWraps
<1>4. AsInt(a) - b = AsInt(a - b) + IntRange * (n - m)
  BY <1>1, <1>2, TwoHalves
<1> QED BY <1>3, <1>4

\* The milliseconds of an instant.
LEMMA MsRange ==
  ASSUME NEW t \in Nat
  PROVE  /\ t \div TicksPerMs \in Nat
         /\ \A n \in Int : t >= n * TicksPerMs => t \div TicksPerMs >= n
<1> DEFINE m == t \div TicksPerMs
<1>1. /\ m \in Int /\ t % TicksPerMs \in 0 .. TicksPerMs - 1
      /\ t = TicksPerMs * m + (t % TicksPerMs)
      /\ TicksPerMs \in Nat \ {0}
  BY RunEveryAssumption, DivMod
<1> HIDE DEF m
<1>2. ASSUME NEW n \in Int, t >= n * TicksPerMs PROVE m >= n
  <2>1. SUFFICES ASSUME m + 1 <= n PROVE FALSE
    BY <1>1
  <2>2. TicksPerMs * (m + 1) <= TicksPerMs * n
    BY <2>1, <1>1
  <2>3. TicksPerMs * (m + 1) = TicksPerMs * m + TicksPerMs
    BY <1>1
  <2>4. n * TicksPerMs = TicksPerMs * n
    BY <1>1
  <2> QED BY <1>1, <1>2, <2>2, <2>3, <2>4
<1>3. m >= 0
  <2>1. t >= 0 * TicksPerMs
    BY <1>1
  <2> QED BY <2>1, <1>2
<1> QED BY <1>1, <1>2, <1>3 DEF m

-----------------------------------------------------------------------------
\* Inside the body of the loop.
Inside == pc \in {"call", "measure", "sleep", "wake"}

\* What is true of the readings.
ClockInv ==
  /\ begun <= Ms /\ Ms - begun <= LongestFrame
  /\ last = AsInt(previous)
  /\ pc = "loop" => previous <= Ms - Interval /\ begun - previous <= Interval
  /\ Inside => start = AsInt(begun)

\* The sleep lasts until the interval since `start` is over.
SleepInv ==
  /\ pc = "sleep" => sleepTime + (Ms - begun) >= Interval
  /\ pc = "wake" => wakeAt >= (begun + Interval) * TicksPerMs

\* The inductive invariant.
IInv == TypeOK /\ ClockInv /\ SleepInv /\ DeltaIsElapsed /\ NeverEarly

\* The call of run_every.
LEMMA InitIInv == Init => IInv
<1> SUFFICES ASSUME Init PROVE IInv
  OBVIOUS
<1> USE DEF Init
<1>1. Ms \in Nat /\ Interval \in Nat /\ LongestFrame \in Nat /\ now \in Nat
  BY MsRange, RunEveryAssumption DEF Ms
<1>2. last = AsInt(previous)
  BY <1>1, WrapTwice DEF CurrTimeMs
<1>3. previous \in Int /\ begun \in Nat /\ {last, start, deltaTime, sleepTime} \subseteq Int32
  BY <1>1, <1>2, AsIntWraps, TwoHalves DEF Int32
<1>4. TypeOK
  BY <1>3 DEF TypeOK
<1>5. ClockInv
  BY <1>1, <1>2 DEF ClockInv, Inside
<1> QED BY <1>4, <1>5 DEF IInv, SleepInv, DeltaIsElapsed, NeverEarly

\* What the invariant says about types.
LEMMA Typed ==
  ASSUME IInv
  PROVE  /\ now \in Nat /\ Ms \in Nat /\ begun \in Nat /\ previous \in Int
         /\ Interval \in Nat /\ LongestFrame \in Nat /\ TicksPerMs \in Nat \ {0}
         /\ {last, start, deltaTime, sleepTime} \subseteq Int
BY MsRange, RunEveryAssumption, TwoHalves DEF IInv, TypeOK, Ms, Int32

\* Time passes.
LEMMA TickStep ==
  ASSUME IInv, Tick
  PROVE  IInv'
<1>1. /\ now' = now + 1 /\ now < Horizon /\ Ms' - begun <= LongestFrame
      /\ UNCHANGED <<pc, last, start, deltaTime, sleepTime, run, wakeAt, previous, begun>>
  BY DEF Tick, Ms
<1>2. Ms' \in Nat /\ Ms' >= Ms
  <2>1. Ms' = (now + 1) \div TicksPerMs
    BY <1>1 DEF Ms
  <2>2. now >= Ms * TicksPerMs
    <3>1. /\ now = TicksPerMs * Ms + (now % TicksPerMs) /\ now % TicksPerMs \in 0 .. TicksPerMs - 1
      BY Typed DEF Ms
    <3>2. Ms * TicksPerMs = TicksPerMs * Ms
      BY Typed
    <3> QED BY <3>1, <3>2, Typed
  <2>3. now + 1 \in Nat /\ now + 1 >= Ms * TicksPerMs
    <3>1. Ms * TicksPerMs \in Int
      BY Typed
    <3> QED BY <3>1, <2>2, Typed
  <2> QED BY <2>1, <2>3, Typed, MsRange
<1>3. TypeOK'
  BY <1>1, RunEveryAssumption DEF IInv, TypeOK
<1>4. ClockInv'
  BY <1>1, <1>2, Typed DEF IInv, ClockInv, Inside
<1>5. SleepInv'
  BY <1>1, <1>2, Typed DEF IInv, SleepInv
<1>6. DeltaIsElapsed' /\ NeverEarly'
  BY <1>1 DEF IInv, DeltaIsElapsed, NeverEarly
<1> QED BY <1>3, <1>4, <1>5, <1>6 DEF IInv

\* The reading that starts a call: `previous` is at least an interval ago, and
\* not so long ago that the difference does not fit.
LEMMA ReadStartStep ==
  ASSUME IInv, ReadStart
  PROVE  IInv'
<1>1. /\ pc = "loop" /\ pc' = "call" /\ start' = AsInt(Ms) /\ begun' = Ms /\ Ms' = Ms
      /\ deltaTime' = AsInt(AsInt(Ms) - last)
      /\ UNCHANGED <<now, last, sleepTime, run, wakeAt, previous>>
  BY DEF ReadStart, Elapsed, CurrTimeMs, Ms
<1>2. /\ Ms - previous >= Interval /\ Ms - previous <= Interval + LongestFrame
      /\ Ms - previous \in Int32
  BY <1>1, Typed, TwoHalves DEF IInv, ClockInv, Int32
<1>3. deltaTime' = Ms - previous
  BY <1>1, <1>2, Typed, Difference DEF IInv, ClockInv
<1>4. TypeOK'
  BY <1>1, <1>2, <1>3, Typed, AsIntWraps DEF IInv, TypeOK
<1>5. ClockInv'
  BY <1>1, Typed DEF IInv, ClockInv, Inside
<1> QED BY <1>1, <1>2, <1>3, <1>4, <1>5 DEF IInv, SleepInv, DeltaIsElapsed, NeverEarly

\* The second reading: what is left of the interval, or less than nothing.
LEMMA MeasureStep ==
  ASSUME IInv, Measure
  PROVE  IInv'
<1>1. /\ pc = "measure" /\ pc' = "sleep" /\ Ms' = Ms
      /\ sleepTime' = AsInt(Interval - AsInt(AsInt(Ms) - start))
      /\ UNCHANGED <<now, last, start, deltaTime, run, wakeAt, previous, begun>>
  BY DEF Measure, Rest, Elapsed, CurrTimeMs, Ms
<1>2. /\ start = AsInt(begun) /\ begun <= Ms /\ Ms - begun <= LongestFrame
  BY <1>1 DEF IInv, ClockInv, Inside
<1>3. AsInt(AsInt(Ms) - start) = Ms - begun
  <2>1. Ms - begun \in Int32
    BY <1>2, Typed, TwoHalves DEF Int32
  <2> QED BY <2>1, <1>2, Typed, Difference
<1>4. sleepTime' = Interval - (Ms - begun) /\ sleepTime' \in Int32
  <2>1. Interval - (Ms - begun) \in Int32
    BY <1>2, Typed, TwoHalves DEF Int32
  <2> QED BY <2>1, <1>1, <1>3, AsIntSame
<1>5. TypeOK' /\ ClockInv'
  BY <1>1, <1>4 DEF IInv, TypeOK, ClockInv, Inside
<1>6. SleepInv'
  BY <1>1, <1>4, Typed DEF SleepInv
<1> QED BY <1>1, <1>5, <1>6 DEF IInv, DeltaIsElapsed, NeverEarly

\* The sleep ends when the interval does, or the frame was late already.
LEMMA SleepStep ==
  ASSUME IInv, Sleep
  PROVE  IInv'
<1>1. /\ pc = "sleep" /\ pc' = "wake" /\ Ms' = Ms
      /\ wakeAt' = IF sleepTime > 0 THEN now + sleepTime * TicksPerMs ELSE now
      /\ UNCHANGED <<now, last, start, deltaTime, sleepTime, run, previous, begun>>
  BY DEF Sleep, Ms
<1>2. sleepTime + (Ms - begun) >= Interval
  BY <1>1 DEF IInv, SleepInv
<1>3. now >= TicksPerMs * Ms /\ TicksPerMs * Ms \in Int
  <2>1. now = TicksPerMs * Ms + (now % TicksPerMs) /\ now % TicksPerMs \in 0 .. TicksPerMs - 1
    BY Typed DEF Ms
  <2>2. TicksPerMs * Ms \in Int
    BY Typed
  <2> QED BY <2>1, <2>2, Typed
<1>4. wakeAt' \in Nat /\ wakeAt' >= TicksPerMs * (begun + Interval)
  <2>1. CASE sleepTime > 0
    <3>1. sleepTime * TicksPerMs = TicksPerMs * sleepTime /\ TicksPerMs * sleepTime \in Nat
      BY <2>1, Typed
    <3>2. TicksPerMs * (Ms + sleepTime) = TicksPerMs * Ms + TicksPerMs * sleepTime
      BY Typed
    <3>3. TicksPerMs * (Ms + sleepTime) >= TicksPerMs * (begun + Interval)
      <4> DEFINE x == Ms + sleepTime
                 y == begun + Interval
      <4>1. x \in Int /\ y \in Int /\ x >= y
        BY <1>2, Typed
      <4> HIDE DEF x, y
      <4>2. TicksPerMs * x >= TicksPerMs * y
        BY <4>1, Typed
      <4> QED BY <4>2 DEF x, y
    <3>4. TicksPerMs * (begun + Interval) \in Int
      BY Typed
    <3> QED BY <2>1, <1>1, <1>3, <3>1, <3>2, <3>3, <3>4, Typed
  <2>2. CASE ~(sleepTime > 0)
    <3> DEFINE y == begun + Interval
    <3>1. y \in Int /\ Ms >= y
      BY <2>2, <1>2, Typed
    <3> HIDE DEF y
    <3>2. TicksPerMs * Ms >= TicksPerMs * y /\ TicksPerMs * y \in Int
      BY <3>1, Typed
    <3> QED BY <2>2, <1>1, <1>3, <3>2, Typed DEF y
  <2> QED BY <2>1, <2>2
<1>5. SleepInv'
  <2>1. TicksPerMs * (begun + Interval) = (begun + Interval) * TicksPerMs
    BY Typed
  <2> QED BY <2>1, <1>1, <1>4 DEF SleepInv
<1>6. TypeOK' /\ ClockInv'
  BY <1>1, <1>4 DEF IInv, TypeOK, ClockInv, Inside
<1> QED BY <1>1, <1>5, <1>6 DEF IInv, DeltaIsElapsed, NeverEarly

\* The loop goes round: an interval has passed since the reading in `last`.
LEMMA WakeStep ==
  ASSUME IInv, Wake
  PROVE  IInv'
<1>1. /\ pc = "wake" /\ pc' \in {"loop", "returned"} /\ now >= wakeAt
      /\ last' = start /\ previous' = begun /\ Ms' = Ms
      /\ UNCHANGED <<now, start, deltaTime, sleepTime, run, wakeAt, begun>>
  BY DEF Wake, Ms
<1>2. Ms >= begun + Interval
  <2>1. wakeAt >= (begun + Interval) * TicksPerMs /\ wakeAt \in Nat
    BY <1>1 DEF IInv, SleepInv, TypeOK
  <2>2. (begun + Interval) * TicksPerMs \in Int /\ begun + Interval \in Int
    BY Typed
  <2>3. now >= (begun + Interval) * TicksPerMs
    BY <1>1, <2>1, <2>2, Typed
  <2> QED BY <2>2, <2>3, Typed, MsRange DEF Ms
<1>3. TypeOK'
  BY <1>1, Typed DEF IInv, TypeOK
<1>4. ClockInv'
  BY <1>1, <1>2, Typed DEF IInv, ClockInv, Inside
<1> QED BY <1>1, <1>3, <1>4 DEF IInv, SleepInv, DeltaIsElapsed, NeverEarly

\* Every step keeps the invariant.
LEMMA StepIInv == IInv /\ [Next]_vars => IInv'
<1> SUFFICES ASSUME IInv, [Next]_vars PROVE IInv'
  OBVIOUS
<1>1. CASE UNCHANGED vars
  BY <1>1 DEF vars, IInv, TypeOK, ClockInv, SleepInv, Inside, Ms, DeltaIsElapsed, NeverEarly
<1>2. CASE Call
  <2>1. /\ pc = "call" /\ pc' = "measure" /\ run' \in BOOLEAN /\ Ms' = Ms
        /\ UNCHANGED <<now, last, start, deltaTime, sleepTime, wakeAt, previous, begun>>
    BY <1>2 DEF Call, Ms
  <2> QED BY <2>1 DEF IInv, TypeOK, ClockInv, SleepInv, Inside, DeltaIsElapsed, NeverEarly
<1> QED BY <1>1, <1>2, TickStep, ReadStartStep, MeasureStep, SleepStep, WakeStep DEF Next

\* The invariant holds always.
LEMMA SpecIInv == Spec => []IInv
BY InitIInv, StepIInv, PTL DEF Spec

\* The locals of run_every are ints, whatever the clock has come to.
THEOREM SpecTypeOK == Spec => []TypeOK
BY SpecIInv, PTL DEF IInv

\* The callback is told the milliseconds since its last call, across the wrap.
THEOREM SpecDeltaIsElapsed == Spec => []DeltaIsElapsed
BY SpecIInv, PTL DEF IInv

\* And these are never fewer than the interval.
THEOREM SpecNeverEarly == Spec => []NeverEarly
BY SpecIInv, PTL DEF IInv
=============================================================================
