-------------------------- MODULE TimerSys_proofs --------------------------
(***************************************************************************)
(* Proofs about TimerSys, for every period, width of the clock and bounds  *)
(* on latency and calls that TimerConstantsOK allows.                      *)
(***************************************************************************)
EXTENDS TimerSys, TLAPS

-----------------------------------------------------------------------------
(***************************************************************************)
(* Sums on a counter that wraps.                                           *)
(***************************************************************************)

\* A remainder is below its modulus.
LEMMA ModRange ==
  ASSUME NEW m \in Nat \ {0}, NEW x \in Nat
  PROVE  x % m \in 0 .. m - 1
  BY SMT

\* A sum of up to three terms wraps at most twice.
LEMMA ModOfSum ==
  ASSUME NEW m \in Nat \ {0}, NEW x \in 0 .. m - 1
  PROVE  x % m = x /\ (x + m) % m = x /\ (x + 2 * m) % m = x
  <1>1. x % m = x BY SMT
  <1>2. (x + m) % m = x BY SMT
  <1>3. (x + 2 * m) % m = x BY SMT
  <1>. QED BY <1>1, <1>2, <1>3

LEMMA ModByCases ==
  ASSUME NEW m \in Nat \ {0}, NEW x \in 0 .. 3 * m - 1
  PROVE  x % m = IF x < m THEN x ELSE IF x < 2 * m THEN x - m ELSE x - 2 * m
  <1>1. CASE x < m BY <1>1, ModOfSum
  <1>2. CASE x >= m /\ x < 2 * m
    <2>1. x - m \in 0 .. m - 1 BY <1>2
    <2>2. (x - m + m) % m = x - m BY <2>1, ModOfSum
    <2>3. x - m + m = x BY <1>2
    <2>. QED BY <1>2, <2>2, <2>3
  <1>3. CASE x >= 2 * m
    <2>1. x - 2 * m \in 0 .. m - 1 BY <1>3
    <2>2. (x - 2 * m + 2 * m) % m = x - 2 * m BY <2>1, ModOfSum
    <2>3. x - 2 * m + 2 * m = x BY <1>3
    <2>. QED BY <1>3, <2>2, <2>3
  <1>. QED BY <1>1, <1>2, <1>3

-----------------------------------------------------------------------------
(***************************************************************************)
(* The inductive invariant.                                                *)
(***************************************************************************)

\* The interrupt is masked exactly during a call.
Masked == SREG_I = (pc = "idle")

\* TCNT1 tells how long the interrupt has been pending.
PendingCounted == OCF1A => TCNT1 = pending

\* The counter stands still while it is in use.
BaseRead == pc \in {"TCNT1", "OCF1A"} => base = g_micros_counter

\* Until the flag is raised, TCNT1 is ahead of tcnt by the time passed at most.
TcntRead == pc = "OCF1A" /\ ~ OCF1A => tcnt <= TCNT1 /\ TCNT1 <= tcnt + inside

TimerInv ==
  TimerTypeOK /\ CountKept /\ Masked /\ PendingCounted /\ BaseRead /\ TcntRead

LEMMA PeriodOK ==
  /\ PERIOD \in Nat \ {0} /\ CLOCK_MOD \in Nat \ {0} /\ PERIOD < CLOCK_MOD
  /\ OCR1A \in Nat /\ PERIOD = OCR1A + 1 /\ OCR1A \div 2 \in Nat
  /\ MaxLatency \in Nat /\ MaxLatency < OCR1A \div 2
  /\ MaxCall \in Nat /\ MaxCall <= OCR1A \div 2
  /\ 2 * (OCR1A \div 2) <= OCR1A
  BY TimerConstantsOK DEF PERIOD

\* A step of TCNT1.
LEMMA WrapPeriod ==
  ASSUME NEW x \in 0 .. PERIOD
  PROVE  x % PERIOD = IF x < PERIOD THEN x ELSE 0
  <1>1. PERIOD \in Nat \ {0} BY PeriodOK
  <1>2. x \in 0 .. 3 * PERIOD - 1 BY <1>1
  <1>3. x % PERIOD = IF x < PERIOD THEN x
                     ELSE IF x < 2 * PERIOD THEN x - PERIOD ELSE x - 2 * PERIOD
    BY <1>1, <1>2, ModByCases
  <1>. QED BY <1>1, <1>3

\* Two counts of the clock that are added.
LEMMA WrapClock ==
  ASSUME NEW x \in 0 .. 3 * CLOCK_MOD - 1
  PROVE  x % CLOCK_MOD =
           IF x < CLOCK_MOD THEN x
           ELSE IF x < 2 * CLOCK_MOD THEN x - CLOCK_MOD ELSE x - 2 * CLOCK_MOD
  <1>1. CLOCK_MOD \in Nat \ {0} BY PeriodOK
  <1>. QED BY <1>1, ModByCases

LEMMA InitTimerInv == TimerInit => TimerInv
  <1>. SUFFICES ASSUME TimerInit PROVE TimerInv OBVIOUS
  <1>. USE PeriodOK DEF TimerInit
  <1>1. TimerTypeOK
    <2>1. OCF1A \in BOOLEAN /\ SREG_I \in BOOLEAN OBVIOUS
    <2>. QED BY <2>1 DEF TimerTypeOK
  <1>2. CountKept
    <2>1. CASE OCF1A
      <3>1. PERIOD % CLOCK_MOD = PERIOD BY WrapClock
      <3>. QED BY <2>1, <3>1 DEF CountKept
    <2>2. CASE ~ OCF1A
      <3>1. 0 % CLOCK_MOD = 0 BY WrapClock
      <3>. QED BY <2>2, <3>1 DEF CountKept
    <2>. QED BY <2>1, <2>2
  <1>. QED BY <1>1, <1>2 DEF TimerInv, Masked, PendingCounted, BaseRead, TcntRead

\* A tick of the timer moves TCNT1 and, where it goes back to 0, raises the flag.
LEMMA TickKeeps ==
  ASSUME TimerInv, TimerTick PROVE TimerInv'
  <1>. USE PeriodOK DEF TimerTick, locals
  <1>t. TimerTypeOK BY DEF TimerInv
  <1>c. TCNT1' = IF TCNT1 = OCR1A THEN 0 ELSE TCNT1 + 1
    <2>1. TCNT1 + 1 \in 0 .. PERIOD /\ TCNT1 \in 0 .. OCR1A BY <1>t DEF TimerTypeOK
    <2>2. TCNT1' = (TCNT1 + 1) % PERIOD OBVIOUS
    <2>. QED BY <2>1, <2>2, WrapPeriod
  <1>n. now' = IF now = CLOCK_MOD - 1 THEN 0 ELSE now + 1
    <2>1. now + 1 \in 0 .. 3 * CLOCK_MOD - 1 /\ now \in 0 .. CLOCK_MOD - 1
      BY <1>t DEF TimerTypeOK
    <2>2. now' = (now + 1) % CLOCK_MOD OBVIOUS
    <2>. QED BY <2>1, <2>2, WrapClock
  <1>p. OCF1A => TCNT1 < OCR1A
    BY <1>t DEF TimerInv, PendingCounted, TimerTypeOK
  <1>1. TimerTypeOK' BY <1>t, <1>c, <1>n DEF TimerTypeOK
  <1>2. CountKept'
    <2>. DEFINE count == g_micros_counter + TCNT1 + (IF OCF1A THEN PERIOD ELSE 0)
    <2>1. count \in 0 .. 3 * CLOCK_MOD - 2
      <3>1. g_micros_counter \in 0 .. CLOCK_MOD - 1 /\ TCNT1 \in 0 .. OCR1A
        BY <1>t DEF TimerTypeOK
      <3>. QED BY <3>1
    <2>2. count' = count + 1
      <3>1. g_micros_counter \in Nat /\ TCNT1 \in Nat BY <1>t DEF TimerTypeOK
      <3>2. CASE TCNT1 = OCR1A
        <4>1. ~ OCF1A BY <3>1, <3>2, <1>p
        <4>2. OCF1A' BY <3>2, Zenon
        <4>3. TCNT1' = 0 /\ g_micros_counter' = g_micros_counter BY <3>2, <1>c
        <4>. QED BY <3>1, <3>2, <4>1, <4>2, <4>3
      <3>3. CASE TCNT1 # OCR1A
        <4>1. OCF1A' = OCF1A /\ TCNT1' = TCNT1 + 1 /\ g_micros_counter' = g_micros_counter
          BY <1>t, <3>3, <1>c DEF TimerTypeOK
        <4>. QED BY <3>1, <4>1
      <3>. QED BY <3>2, <3>3
    <2>3. now = count % CLOCK_MOD BY DEF TimerInv, CountKept
    <2>. HIDE DEF count
    <2>4. count % CLOCK_MOD =
            IF count < CLOCK_MOD THEN count
            ELSE IF count < 2 * CLOCK_MOD THEN count - CLOCK_MOD
            ELSE count - 2 * CLOCK_MOD
      BY <2>1, WrapClock
    <2>5. PICK next \in 0 .. 3 * CLOCK_MOD - 1 : next = count + 1 BY <2>1
    <2>6. next % CLOCK_MOD =
            IF next < CLOCK_MOD THEN next
            ELSE IF next < 2 * CLOCK_MOD THEN next - CLOCK_MOD
            ELSE next - 2 * CLOCK_MOD
      BY WrapClock
    <2>7. now' = next % CLOCK_MOD BY <1>n, <2>1, <2>3, <2>4, <2>5, <2>6
    <2>8. now' = count' % CLOCK_MOD BY <2>2, <2>5, <2>7
    <2>. USE DEF count
    <2>. QED BY <2>8 DEF CountKept
  <1>3. Masked' BY DEF TimerInv, Masked
  <1>4. PendingCounted' BY <1>t, <1>c, <1>p DEF TimerInv, PendingCounted, TimerTypeOK
  <1>5. BaseRead' BY DEF TimerInv, BaseRead
  <1>6. TcntRead'
    <2>1. SUFFICES ASSUME pc = "OCF1A", ~ OCF1A' PROVE tcnt <= TCNT1' /\ TCNT1' <= tcnt + inside'
      BY DEF TcntRead
    <2>2. ~ OCF1A /\ TCNT1 # OCR1A BY <2>1, Zenon
    <2>3. tcnt <= TCNT1 /\ TCNT1 <= tcnt + inside BY <2>1, <2>2 DEF TimerInv, TcntRead
    <2>4. TCNT1' = TCNT1 + 1 /\ inside' = inside + 1 BY <1>c, <2>1, <2>2
    <2>. QED BY <1>t, <2>3, <2>4 DEF TimerTypeOK
  <1>. QED BY <1>1, <1>2, <1>3, <1>4, <1>5, <1>6 DEF TimerInv

\* The interrupt moves a period from the flag to the counter.
LEMMA InterruptKeeps ==
  ASSUME TimerInv, Interrupt PROVE TimerInv'
  <1>. USE PeriodOK DEF Interrupt, locals
  <1>t. TimerTypeOK BY DEF TimerInv
  <1>g. g_micros_counter' =
          IF g_micros_counter + PERIOD < CLOCK_MOD THEN g_micros_counter + PERIOD
          ELSE g_micros_counter + PERIOD - CLOCK_MOD
    <2>1. PICK sum \in 0 .. 3 * CLOCK_MOD - 1 :
             sum = g_micros_counter + PERIOD /\ sum < 2 * CLOCK_MOD
      BY <1>t DEF TimerTypeOK
    <2>2. g_micros_counter' = sum % CLOCK_MOD BY <2>1
    <2>3. sum % CLOCK_MOD = IF sum < CLOCK_MOD THEN sum ELSE sum - CLOCK_MOD
      BY <2>1, WrapClock
    <2>4. g_micros_counter' = IF sum < CLOCK_MOD THEN sum ELSE sum - CLOCK_MOD
      BY <2>2, <2>3, Zenon
    <2>. HIDE DEF Interrupt
    <2>. QED BY <1>t, <2>1, <2>4 DEF TimerTypeOK
  <1>1. TimerTypeOK'
    <2>1. g_micros_counter' \in 0 .. CLOCK_MOD - 1 BY <1>t, <1>g DEF TimerTypeOK
    <2>2. OCF1A' \in BOOLEAN OBVIOUS
    <2>3. pending' \in 0 .. MaxLatency OBVIOUS
    <2>. QED BY <1>t, <2>1, <2>2, <2>3 DEF TimerTypeOK
  <1>2. CountKept'
    <2>. DEFINE count == g_micros_counter + PERIOD + TCNT1
    <2>1. count \in 0 .. 3 * CLOCK_MOD - 1 /\ now = count % CLOCK_MOD
      <3>1. count = g_micros_counter + TCNT1 + (IF OCF1A THEN PERIOD ELSE 0)
        BY <1>t DEF TimerTypeOK
      <3>. QED BY <1>t, <3>1 DEF TimerTypeOK, TimerInv, CountKept
    <2>2. g_micros_counter' + TCNT1 \in 0 .. 3 * CLOCK_MOD - 1
      BY <1>t, <1>1 DEF TimerTypeOK
    <2>3. (g_micros_counter' + TCNT1) % CLOCK_MOD = count % CLOCK_MOD
      <3>1. g_micros_counter' + TCNT1 = count \/ g_micros_counter' + TCNT1 = count - CLOCK_MOD
        BY <1>t, <1>g DEF TimerTypeOK
      <3>2. CASE g_micros_counter' + TCNT1 = count BY <3>2
      <3>3. CASE g_micros_counter' + TCNT1 = count - CLOCK_MOD
        <4>. HIDE DEF count
        <4>1. count - CLOCK_MOD \in 0 .. 3 * CLOCK_MOD - 1 BY <2>2, <3>3
        <4>. QED BY <2>1, <3>3, <4>1, WrapClock
      <3>. QED BY <3>1, <3>2, <3>3
    <2>4. g_micros_counter' + TCNT1' + (IF OCF1A' THEN PERIOD ELSE 0)
             = g_micros_counter' + TCNT1
      BY <1>t, <1>1 DEF TimerTypeOK
    <2>. QED BY <2>1, <2>3, <2>4 DEF CountKept
  <1>3. Masked' BY DEF TimerInv, Masked
  <1>4. PendingCounted' BY DEF PendingCounted
  <1>5. pc = "idle" BY <1>t DEF TimerInv, Masked
  <1>. QED BY <1>1, <1>2, <1>3, <1>4, <1>5 DEF TimerInv, BaseRead, TcntRead

\* The steps of getMicros move neither the timer nor the counter.
LEMMA CallKeeps ==
  ASSUME TimerInv, GetMicros \/ GetMicrosStep PROVE TimerInv'
  <1>. USE PeriodOK DEF hardware, locals
  <1>t. TimerTypeOK BY DEF TimerInv
  <1>u. UNCHANGED <<g_micros_counter, hardware>>
    BY DEF GetMicros, GetMicrosStep, ReadCounter, ReadTCNT1, ReadOCF1A
  <1>2. CountKept' BY <1>u DEF TimerInv, CountKept
  <1>4. PendingCounted' BY <1>u DEF TimerInv, PendingCounted
  <1>a. CASE GetMicros
    <2>. USE <1>a, <1>t DEF GetMicros
    <2>1. TimerTypeOK'
      <3>1. SREG_I' \in BOOLEAN BY Zenon
      <3>2. inside' \in 0 .. MaxCall OBVIOUS
      <3>. QED BY <3>1, <3>2 DEF TimerTypeOK
    <2>. QED BY <1>2, <1>4, <2>1 DEF TimerInv, Masked, BaseRead, TcntRead
  <1>b. CASE ReadCounter
    <2>. USE <1>b, <1>t DEF ReadCounter
    <2>1. TimerTypeOK' BY DEF TimerTypeOK
    <2>. QED BY <1>2, <1>4, <2>1 DEF TimerInv, Masked, BaseRead, TcntRead
  <1>c. CASE ReadTCNT1
    <2>. USE <1>c, <1>t DEF ReadTCNT1
    <2>1. TimerTypeOK' BY DEF TimerTypeOK
    <2>2. TcntRead' BY DEF TcntRead, TimerTypeOK
    <2>. QED BY <1>2, <1>4, <2>1, <2>2 DEF TimerInv, Masked, BaseRead
  <1>d. CASE ReadOCF1A
    <2>. USE <1>d, <1>t DEF ReadOCF1A
    <2>1. Micros \in 0 .. CLOCK_MOD - 1 BY ModRange DEF Micros, TimerTypeOK
    <2>2. TimerTypeOK' BY <2>1 DEF TimerTypeOK
    <2>. QED BY <1>2, <1>4, <2>2 DEF TimerInv, Masked, BaseRead, TcntRead
  <1>. QED BY <1>a, <1>b, <1>c, <1>d DEF GetMicrosStep

LEMMA TimerInvInductive == TimerInv /\ [TimerNext]_timerVars => TimerInv'
  <1>. SUFFICES ASSUME TimerInv, [TimerNext]_timerVars PROVE TimerInv' OBVIOUS
  <1>1. CASE TimerNext
    BY <1>1, TickKeeps, InterruptKeeps, CallKeeps DEF TimerNext
  <1>2. CASE UNCHANGED timerVars
    BY <1>2 DEF timerVars, hardware, locals, TimerInv, TimerTypeOK, CountKept, Masked,
               PendingCounted, BaseRead, TcntRead
  <1>. QED BY <1>1, <1>2

LEMMA TimerInvAlways == TimerSpec => []TimerInv
  BY InitTimerInv, TimerInvInductive, PTL DEF TimerSpec

-----------------------------------------------------------------------------
(***************************************************************************)
(* The theorems.                                                           *)
(***************************************************************************)

\* After init no period is lost or counted twice (TimerSys.cpp:18-20).
THEOREM CountKeptAlways == TimerSpec => []CountKept
  BY TimerInvAlways, PTL DEF TimerInv

\* What a reader would be told at this instant.
Told == IF pc = "OCF1A" THEN Micros ELSE result

\* The flag that decides on the period was raised before tcnt was read, or tcnt
\* was read late in the period: nothing changes once it has been read.
LEMMA TickSettled ==
  ASSUME TimerInv, TimerTick PROVE Told' = Told
  <1>. USE PeriodOK DEF TimerTick, locals
  <1>t. TimerTypeOK BY DEF TimerInv
  <1>1. CASE pc # "OCF1A" BY <1>1 DEF Told
  <1>2. CASE pc = "OCF1A" /\ OCF1A
    <2>1. OCF1A' BY <1>2, Zenon
    <2>2. Micros' = Micros BY <1>2, <2>1 DEF Micros
    <2>. QED BY <1>2, <2>2 DEF Told
  <1>3. CASE pc = "OCF1A" /\ ~ OCF1A /\ TCNT1 # OCR1A
    <2>1. ~ OCF1A' BY <1>3, Zenon
    <2>2. Micros' = Micros BY <1>3, <2>1 DEF Micros
    <2>. QED BY <1>3, <2>2 DEF Told
  <1>4. CASE pc = "OCF1A" /\ ~ OCF1A /\ TCNT1 = OCR1A
    <2>1. TCNT1 <= tcnt + inside BY <1>4 DEF TimerInv, TcntRead
    <2>2. inside < MaxCall BY <1>4
    <2>3. ~ (tcnt < OCR1A \div 2)
      BY <1>4, <1>t, <2>1, <2>2 DEF TimerTypeOK
    <2>4. Micros' = Micros BY <1>4, <2>3 DEF Micros
    <2>. QED BY <1>4, <2>4 DEF Told
  <1>. QED BY <1>1, <1>2, <1>3, <1>4

\* The reading of TCNT1 is the instant a call answers for.
LEMMA ReadIsNow ==
  ASSUME TimerInv, ReadTCNT1 PROVE Told' = now
  <1>. USE PeriodOK DEF ReadTCNT1, hardware
  <1>t. TimerTypeOK BY DEF TimerInv
  <1>1. pc' = "OCF1A" /\ tcnt' = TCNT1 /\ base' = g_micros_counter /\ OCF1A' = OCF1A
    BY DEF TimerInv, BaseRead
  <1>2. OCF1A => TCNT1 < OCR1A \div 2
    BY <1>t DEF TimerInv, PendingCounted, TimerTypeOK
  <1>3. Told' = (g_micros_counter + (IF OCF1A THEN PERIOD ELSE 0) + TCNT1) % CLOCK_MOD
    BY <1>1, <1>2 DEF Told, Micros
  <1>4. g_micros_counter + (IF OCF1A THEN PERIOD ELSE 0) + TCNT1
          = g_micros_counter + TCNT1 + (IF OCF1A THEN PERIOD ELSE 0)
    BY <1>t DEF TimerTypeOK
  <1>. QED BY <1>3, <1>4 DEF TimerInv, CountKept

LEMMA ClockStep ==
  TimerInv /\ [TimerNext]_timerVars
    => [Reading!Tick \/ Reading!Read]_<<now, Told>>
  <1>. SUFFICES ASSUME TimerInv, [TimerNext]_timerVars
                PROVE  Reading!Tick \/ Reading!Read \/ UNCHANGED <<now, Told>>
    OBVIOUS
  <1>1. CASE TimerTick
    BY <1>1, TickSettled DEF TimerTick, Reading!Tick, Told
  <1>2. CASE Interrupt
    <2>1. pc # "OCF1A" BY <1>2 DEF Interrupt, TimerInv, Masked
    <2>. QED BY <1>2, <2>1 DEF Interrupt, Told
  <1>3. CASE GetMicros
    BY <1>3 DEF GetMicros, hardware, Told
  <1>4. CASE ReadCounter
    BY <1>4 DEF ReadCounter, hardware, Told
  <1>5. CASE ReadTCNT1
    BY <1>5, ReadIsNow DEF ReadTCNT1, hardware, Reading!Read, Told
  <1>6. CASE ReadOCF1A
    BY <1>6 DEF ReadOCF1A, hardware, Told
  <1>7. CASE UNCHANGED timerVars
    BY <1>7 DEF timerVars, hardware, locals, Told, Micros
  <1>. QED BY <1>1, <1>2, <1>3, <1>4, <1>5, <1>6, <1>7 DEF TimerNext, GetMicrosStep

\* getMicros returns the true count of one instant of each call, so TimerSys
\* implements the clock that TimedTask is told the time by.
THEOREM MicrosImplementsClock == TimerSpec => MicrosAtOneInstant
  <1>1. TimerInit => Reading!Init BY PeriodOK DEF TimerInit, Reading!Init
  <1>2. TimerInv /\ [TimerNext]_timerVars
          => [Reading!Tick \/ Reading!Read]_<<now, IF pc = "OCF1A" THEN Micros ELSE result>>
    BY ClockStep DEF Told
  <1>. QED
    BY <1>1, <1>2, TimerInvAlways, PTL DEF TimerSpec, MicrosAtOneInstant, Reading!Spec
=============================================================================
