----------------------------- MODULE TimedTask -----------------------------
(***************************************************************************)
(* The timed tasks and their scheduler (src/TimedTask.cpp).  loop() calls  *)
(* TaskScheduler::checkAll, which calls check on every registered task.    *)
(* Each call of SystemTimer::getMicros is a step of its own, because the   *)
(* clock goes on between two of them; the clock is external here and wraps *)
(* at CLOCK_MOD.                                                           *)
(*                                                                         *)
(* The variables since and corrected are history, which the program does   *)
(* not have: the true time since previous was last set to the clock, and   *)
(* whether check has changed previous by its rule for a wrapped clock.     *)
(***************************************************************************)
EXTENDS Integers, Sequences

CONSTANTS
  Task,            \* the TimedTask objects
  MAX_TIMED_TASKS, \* room in the scheduler
  CLOCK_MOD,       \* unsigned long: 2^32
  Intervals,       \* the intervals the tasks are given
  MaxGap           \* bound of the model: ticks from one step of checkAll to the next

ASSUME TimedConstantsOK ==
  /\ MAX_TIMED_TASKS \in Nat \ {0}
  /\ CLOCK_MOD \in Nat \ {0}
  /\ Intervals \subseteq 0 .. CLOCK_MOD - 1 /\ Intervals # {}
  /\ MaxGap \in Nat

VARIABLES
  now,       \* what getMicros would return
  gap,       \* ticks since the last step of checkAll
  active, previous, interval, \* the fields of the tasks
  tasks,     \* TaskScheduler::tasks, the first taskCount of them
  pc,        \* where checkAll is; "loop" outside of it
  i,         \* the task it is at
  due,       \* what the last isDue returned
  since, corrected

fields  == <<active, interval>>
control == <<pc, i>>
timedVars == <<now, gap, fields, previous, tasks, control, due, since, corrected>>

\* The constructors: that of the sketch's task makes previous 0 and the task
\* active, that of a process's task takes both from its caller.  A previous that
\* is given stands for the last time the clock showed it.
TimedInit ==
  /\ now = 0 /\ gap = 0
  /\ active \in [Task -> BOOLEAN]
  /\ previous \in [Task -> 0 .. CLOCK_MOD - 1]
  /\ interval \in [Task -> Intervals]
  /\ tasks = <<>>
  /\ pc = "loop" /\ i = 1
  /\ due = FALSE
  /\ since = [t \in Task |-> (0 - previous[t]) % CLOCK_MOD]
  /\ corrected = [t \in Task |-> FALSE]

-----------------------------------------------------------------------------

\* The timer; since stops counting at CLOCK_MOD, where the clock is back at the
\* value it had.
ClockTick ==
  /\ gap < MaxGap
  /\ gap' = gap + 1
  /\ now' = (now + 1) % CLOCK_MOD
  /\ since' = [t \in Task |-> IF since[t] = CLOCK_MOD THEN since[t] ELSE since[t] + 1]
  /\ UNCHANGED <<fields, previous, tasks, control, due, corrected>>

\* previous = getMicros()
SetPrevious(t) ==
  /\ previous' = [previous EXCEPT ![t] = now]
  /\ since' = [since EXCEPT ![t] = 0]
  /\ corrected' = [corrected EXCEPT ![t] = FALSE]

KeepPrevious == UNCHANGED <<previous, since, corrected>>

\* Mutant of Elapsed: the task is due at previous + interval, as the clock shows it.
ElapsedDeadline(t) == now >= (previous[t] + interval[t]) % CLOCK_MOD

\* Mutant of Elapsed: the task is due at one tick only.
ElapsedExactly(t) == (now - previous[t]) % CLOCK_MOD = interval[t]

\* getMicros() - previous >= interval, in unsigned arithmetic.
Elapsed(t) == (now - previous[t]) % CLOCK_MOD >= interval[t]

\* Mutant of ElapsedWrapped: one tick too many.
ElapsedWrappedOver(t) ==
  /\ now < previous[t]
  /\ (CLOCK_MOD - previous[t]) + now + 1 >= interval[t]

\* The second test of isDue: the elapsed time again, for a clock behind previous.
ElapsedWrapped(t) ==
  /\ now < previous[t]
  /\ (CLOCK_MOD - 1 - previous[t]) + now + 1 >= interval[t]

-----------------------------------------------------------------------------
(***************************************************************************)
(* The calls of the tasks' owners.                                         *)
(***************************************************************************)
CallBegins == pc = "loop" /\ UNCHANGED <<now, gap, control>>

reset(t) ==
  /\ CallBegins
  /\ SetPrevious(t)
  /\ UNCHANGED <<fields, tasks, due>>

enable(t) ==
  /\ CallBegins
  /\ active' = [active EXCEPT ![t] = TRUE]
  /\ KeepPrevious /\ UNCHANGED <<interval, tasks, due>>

disable(t) ==
  /\ CallBegins
  /\ active' = [active EXCEPT ![t] = FALSE]
  /\ KeepPrevious /\ UNCHANGED <<interval, tasks, due>>

setInterval(t, n) ==
  /\ CallBegins
  /\ interval' = [interval EXCEPT ![t] = n]
  /\ KeepPrevious /\ UNCHANGED <<active, tasks, due>>

isDue(t) ==
  /\ CallBegins
  /\ due' = (active[t] /\ (Elapsed(t) \/ ElapsedWrapped(t)))
  /\ IF due' THEN SetPrevious(t) ELSE KeepPrevious
  /\ UNCHANGED <<fields, tasks>>

\* A task for which there is no room is dropped without a sign.
registerTask(t) ==
  /\ CallBegins
  /\ tasks' = IF Len(tasks) < MAX_TIMED_TASKS THEN Append(tasks, t) ELSE tasks
  /\ KeepPrevious /\ UNCHANGED <<fields, due>>

-----------------------------------------------------------------------------
(***************************************************************************)
(* checkAll, and check from one reading of the clock to the next.          *)
(***************************************************************************)
Current == tasks[i]

Goto(where) == pc' = where /\ i' = i

\* The loop of checkAll goes on with the next task.
NextTask ==
  IF i < Len(tasks) THEN pc' = "check" /\ i' = i + 1 ELSE pc' = "loop" /\ i' = 1

\* A step of checkAll.
CheckStep == gap' = 0 /\ UNCHANGED <<now, fields, tasks, due>>

checkAll ==
  /\ pc = "loop"
  /\ CheckStep
  /\ Goto(IF tasks = <<>> THEN "loop" ELSE "check")
  /\ KeepPrevious

CheckInactive ==
  /\ pc = "check" /\ ~ active[Current]
  /\ CheckStep /\ NextTask /\ KeepPrevious

\* The first reading: is the task due?
CheckElapsed ==
  /\ pc = "check" /\ active[Current]
  /\ CheckStep
  /\ Goto(IF Elapsed(Current) THEN "run" ELSE "behind")
  /\ KeepPrevious

\* previous is set by a second reading and the task is executed.
Run ==
  /\ pc = "run"
  /\ CheckStep /\ NextTask
  /\ SetPrevious(Current)

\* The task is not due and the clock is not behind previous.
NotBehind ==
  /\ pc = "behind" /\ now >= previous[Current]
  /\ CheckStep /\ NextTask /\ KeepPrevious

TMr == CLOCK_MOD - 1 - previous[Current]

\* Mutant of CorrectPrevious: the correction has the wrong sign.
CorrectPreviousBack ==
  /\ pc = "behind" /\ now < previous[Current] /\ TMr < interval[Current]
  /\ CheckStep /\ NextTask
  /\ previous' = [previous EXCEPT ![Current] = (interval[Current] + TMr) % CLOCK_MOD]
  /\ corrected' = [corrected EXCEPT ![Current] = TRUE]
  /\ UNCHANGED since

\* The clock is behind previous: it has wrapped, or previous was corrected.
CorrectPrevious ==
  /\ pc = "behind" /\ now < previous[Current] /\ TMr < interval[Current]
  /\ CheckStep /\ NextTask
  /\ previous' = [previous EXCEPT ![Current] = interval[Current] - TMr]
  /\ corrected' = [corrected EXCEPT ![Current] = TRUE]
  /\ UNCHANGED since

\* So long behind that the task is executed, after one more reading.
LongBehind ==
  /\ pc = "behind" /\ now < previous[Current] /\ TMr >= interval[Current]
  /\ CheckStep /\ Goto("run") /\ KeepPrevious

Check ==
  \/ checkAll \/ CheckInactive \/ CheckElapsed
  \/ Run \/ NotBehind \/ CorrectPrevious \/ LongBehind

-----------------------------------------------------------------------------

\* A task is polled by isDue, as a process would poll its own (Process.cpp:24),
\* or registered, as the sketch does (.ino:234).
Registered == {tasks[k] : k \in DOMAIN tasks}

OwnerCall(t) ==
  \/ reset(t) \/ enable(t) \/ disable(t) \/ registerTask(t)
  \/ \E n \in Intervals : setInterval(t, n)
  \/ t \notin Registered /\ isDue(t)

TimedNext == ClockTick \/ Check \/ \E t \in Task : OwnerCall(t)

\* The clock goes on, and so does loop().
TimedSpec ==
  TimedInit /\ [][TimedNext]_timedVars /\ WF_timedVars(ClockTick) /\ WF_timedVars(Check)

-----------------------------------------------------------------------------
(***************************************************************************)
(* Properties.                                                             *)
(***************************************************************************)
TimedTypeOK ==
  /\ now \in 0 .. CLOCK_MOD - 1 /\ gap \in 0 .. MaxGap
  /\ active \in [Task -> BOOLEAN] /\ due \in BOOLEAN
  /\ previous \in [Task -> 0 .. CLOCK_MOD - 1]
  /\ interval \in [Task -> Intervals]
  /\ tasks \in Seq(Task) /\ Len(tasks) <= MAX_TIMED_TASKS
  /\ pc \in {"loop", "check", "run", "behind"}
  /\ pc # "loop" => i \in DOMAIN tasks
  /\ since \in [Task -> 0 .. CLOCK_MOD]
  /\ corrected \in [Task -> BOOLEAN]

Executes(t) == pc = "run" /\ pc' # "run" /\ Current = t

\* A task runs early only if the clock has gone through 0 since previous was last
\* set to it, which every run does: so at most once for each time the clock wraps,
\* whatever check has made of previous (TimedTask.cpp:47), setInterval of the
\* interval, and the clock between two readings.
EarlyOnlyOnWrap ==
  [][\A t \in Task :
       Executes(t) /\ since[t] < interval[t] => now < since[t]]_timedVars

\* What README.md:15 says of a clock that wraps, 'tolerante a overflow de 32
\* bits': a task never runs before its interval has passed.
RunsOnlyWhenDue ==
  [][\A t \in Task : Executes(t) => since[t] >= interval[t]]_timedVars

MaxInterval == CHOOSE n \in Intervals : \A k \in Intervals : k <= n

\* A check that finds its task due runs it; the correction may make the task
\* late, but by no more than one interval and a tick.
NoRunMissed ==
  [][\A t \in Task :
       /\ pc = "check" /\ pc' # pc /\ Current = t /\ active[t]
       /\ since[t] < CLOCK_MOD
       /\ since[t] >= IF corrected[t] THEN interval[t] + MaxInterval + 1 ELSE interval[t]
       => pc' = "run"]_timedVars

\* isDue is exact while less than a turn of the clock has passed, also when the
\* clock has wrapped (TimedTask.cpp:61-72).
IsDueExact ==
  [][\A t \in Task \ Registered :
       isDue(t) /\ since[t] < CLOCK_MOD =>
         due' = (active[t] /\ since[t] >= interval[t])]_timedVars

\* A registered task that stays active runs, or is reset, again and again.
KeepsRunning ==
  \A t \in Task :
    t \in Registered /\ active[t] ~> since[t] = 0 \/ ~ active[t]
=============================================================================
