------------------------------ MODULE TimerSys ------------------------------
(***************************************************************************)
(* SystemTimer (src/TimerSys.cpp) and Timer1.  The timer counts TCNT1 from *)
(* 0 to OCR1A and raises OCF1A as it goes back to 0; the interrupt adds a  *)
(* period to g_micros_counter.  getMicros reads counter, TCNT1 and OCF1A   *)
(* one after the other, with the interrupt masked and the timer going on.  *)
(*                                                                         *)
(* The timer is hardware.  pending and inside are not in the program: they *)
(* carry the bounds on how long the interrupt waits and a call takes.      *)
(* Nothing under src/ masks interrupts but getMicros, which takes a few    *)
(* instructions; the ISRs of the Arduino core hold the interrupt back for  *)
(* a few microseconds of the 500 that half a period lasts.                 *)
(***************************************************************************)
EXTENDS Integers

CONSTANTS
  OCR1A,      \* 999: the period is one tick longer
  CLOCK_MOD,  \* a uint32_t: 2^32
  MaxLatency, \* ticks the interrupt waits at most
  MaxCall     \* ticks getMicros takes at most

PERIOD == OCR1A + 1

ASSUME TimerConstantsOK ==
  /\ OCR1A \in Nat /\ CLOCK_MOD \in Nat /\ CLOCK_MOD > PERIOD
  /\ MaxLatency \in Nat /\ MaxLatency < OCR1A \div 2
  /\ MaxCall \in Nat /\ MaxCall <= OCR1A \div 2

VARIABLES
  g_micros_counter,
  TCNT1, OCF1A, \* Timer1 and its interrupt flag
  SREG_I,       \* interrupts are enabled
  pc, base, tcnt, \* getMicros and its locals
  result,       \* what getMicros returned last
  now,          \* the ticks since init, from 0 or from a period on: see TimerInit
  pending,      \* ticks since OCF1A was raised
  inside        \* ticks since getMicros was called

hardware  == <<TCNT1, OCF1A, now, pending>>
locals    == <<base, tcnt>>
timerVars == <<g_micros_counter, hardware, SREG_I, pc, locals, result, inside>>

\* SystemTimer::init, sei included.  It leaves TIFR1 as it finds it, and starts
\* the timer before OCR1A is set: a flag that is up counts a period that has not
\* passed, and every reading is that period ahead from then on.
TimerInit ==
  /\ g_micros_counter = 0 /\ TCNT1 = 0 /\ OCF1A \in BOOLEAN /\ SREG_I = TRUE
  /\ pc = "idle" /\ base = 0 /\ tcnt = 0 /\ result = 0
  /\ now = IF OCF1A THEN PERIOD ELSE 0
  /\ pending = 0 /\ inside = 0

TimerTick ==
  /\ OCF1A => pending < MaxLatency
  /\ pc # "idle" => inside < MaxCall
  /\ now' = (now + 1) % CLOCK_MOD
  /\ TCNT1' = (TCNT1 + 1) % PERIOD
  /\ OCF1A' = (OCF1A \/ TCNT1 = OCR1A)
  /\ pending' = IF OCF1A THEN pending + 1 ELSE 0
  /\ inside' = IF pc = "idle" THEN 0 ELSE inside + 1
  /\ UNCHANGED <<g_micros_counter, SREG_I, pc, locals, result>>

\* Mutant of Interrupt: the period is taken for OCR1A ticks.
InterruptShort ==
  /\ OCF1A /\ SREG_I
  /\ OCF1A' = FALSE
  /\ pending' = 0
  /\ g_micros_counter' = (g_micros_counter + OCR1A) % CLOCK_MOD
  /\ UNCHANGED <<TCNT1, now, SREG_I, pc, locals, result, inside>>

\* TIMER1_COMPA_vect.  Entering it clears the flag; nothing of the program runs
\* until it returns.
Interrupt ==
  /\ OCF1A /\ SREG_I
  /\ OCF1A' = FALSE
  /\ pending' = 0
  /\ g_micros_counter' = (g_micros_counter + PERIOD) % CLOCK_MOD
  /\ UNCHANGED <<TCNT1, now, SREG_I, pc, locals, result, inside>>

-----------------------------------------------------------------------------
(***************************************************************************)
(* getMicros, from one reading to the next.                                *)
(***************************************************************************)

\* cli
GetMicros ==
  /\ pc = "idle"
  /\ pc' = "counter"
  /\ SREG_I' = FALSE
  /\ inside' = 0
  /\ UNCHANGED <<g_micros_counter, hardware, locals, result>>

ReadCounter ==
  /\ pc = "counter"
  /\ base' = g_micros_counter
  /\ pc' = "TCNT1"
  /\ UNCHANGED <<g_micros_counter, hardware, SREG_I, tcnt, result, inside>>

ReadTCNT1 ==
  /\ pc = "TCNT1"
  /\ tcnt' = TCNT1
  /\ pc' = "OCF1A"
  /\ UNCHANGED <<g_micros_counter, hardware, SREG_I, base, result, inside>>

\* Mutant of Micros: tcnt is not looked at.
MicrosAnyTcnt == (base + (IF OCF1A THEN PERIOD ELSE 0) + tcnt) % CLOCK_MOD

\* The count, with the period of a pending interrupt if tcnt was read after it.
Micros ==
  (base + (IF OCF1A /\ tcnt < OCR1A \div 2 THEN PERIOD ELSE 0) + tcnt) % CLOCK_MOD

\* SREG = oldSREG: getMicros is only called with interrupts enabled.
ReadOCF1A ==
  /\ pc = "OCF1A"
  /\ result' = Micros
  /\ SREG_I' = TRUE
  /\ pc' = "idle" /\ base' = 0 /\ tcnt' = 0 /\ inside' = 0
  /\ UNCHANGED <<g_micros_counter, hardware>>

GetMicrosStep == ReadCounter \/ ReadTCNT1 \/ ReadOCF1A

-----------------------------------------------------------------------------

TimerNext == TimerTick \/ Interrupt \/ GetMicros \/ GetMicrosStep

TimerSpec == TimerInit /\ [][TimerNext]_timerVars

-----------------------------------------------------------------------------
(***************************************************************************)
(* Properties.                                                             *)
(***************************************************************************)
TimerTypeOK ==
  /\ g_micros_counter \in 0 .. CLOCK_MOD - 1 /\ now \in 0 .. CLOCK_MOD - 1
  /\ TCNT1 \in 0 .. OCR1A /\ tcnt \in 0 .. OCR1A
  /\ OCF1A \in BOOLEAN /\ SREG_I \in BOOLEAN
  /\ pc \in {"idle", "counter", "TCNT1", "OCF1A"}
  /\ base \in 0 .. CLOCK_MOD - 1 /\ result \in 0 .. CLOCK_MOD - 1
  /\ pending \in 0 .. MaxLatency /\ inside \in 0 .. MaxCall

\* After init no period is lost and none is counted twice: the counter, the timer
\* and the pending interrupt always add up to the ticks that have passed, also
\* while a call masks the interrupt and when the counter wraps in a period.
CountKept ==
  now = (g_micros_counter + TCNT1 + (IF OCF1A THEN PERIOD ELSE 0)) % CLOCK_MOD

\* A call reads TCNT1 at the instant it answers for; what it returns is settled
\* from then on.
Reading == INSTANCE Clock WITH answer <- IF pc = "OCF1A" THEN Micros ELSE result

\* getMicros returns the count at an instant between its call and its
\* return, wherever the timer goes back to 0 or the interrupt comes in between
\* its readings (TimerSys.cpp:38-43): so it never goes back but where the clock
\* wraps, and it never jumps by a period.
MicrosAtOneInstant == Reading!Spec

=============================================================================
