-------------------------- MODULE TimedTask_proofs --------------------------
(***************************************************************************)
(* Proofs about TimedTask, for every set of tasks, width of the clock, set *)
(* of intervals and room in the scheduler that TimedConstantsOK allows.    *)
(***************************************************************************)
EXTENDS TimedTask, WellFoundedInduction, TLAPS

\* Unsigned subtraction of two readings of the clock.
LEMMA ModOfDifference ==
  ASSUME NEW m \in Nat \ {0}, NEW a \in 0 .. m - 1, NEW b \in 0 .. m - 1
  PROVE  (a - b) % m = IF a >= b THEN a - b ELSE a - b + m
  <1>1. CASE a >= b
    <2>1. a - b \in 0 .. m - 1 BY <1>1
    <2>2. \A x \in 0 .. m - 1 : x % m = x BY SMT
    <2>. QED BY <1>1, <2>1, <2>2
  <1>2. CASE a < b
    <2>1. a - b + m \in 0 .. m - 1 BY <1>2
    <2>2. \A x \in 0 .. m - 1 : (x - m) % m = x BY SMT
    <2>3. a - b + m - m = a - b BY <2>1
    <2>4. (a - b + m - m) % m = a - b + m BY <2>1, <2>2
    <2>. QED BY <1>2, <2>3, <2>4
  <1>. QED BY <1>1, <1>2

\* A step of the clock.
LEMMA ClockWraps ==
  ASSUME NEW m \in Nat \ {0}, NEW a \in 0 .. m - 1
  PROVE  (a + 1) % m = IF a + 1 < m THEN a + 1 ELSE 0
  <1>1. CASE a + 1 < m
    <2>1. a + 1 \in 0 .. m - 1 BY <1>1
    <2>2. \A x \in 0 .. m - 1 : x % m = x BY SMT
    <2>. QED BY <1>1, <2>1, <2>2
  <1>2. CASE a + 1 >= m
    <2>1. a + 1 = m BY <1>2
    <2>2. m % m = 0 BY SMT
    <2>. QED BY <2>1, <2>2
  <1>. QED BY <1>1, <1>2

-----------------------------------------------------------------------------
(***************************************************************************)
(* The inductive invariant.                                                *)
(***************************************************************************)

\* The true time since previous was set, as the clock shows it.
Shown(t) ==
  IF now >= previous[t] THEN now - previous[t] ELSE now - previous[t] + CLOCK_MOD

\* Unless check has corrected previous, the clock shows the true time.
Measured ==
  \A t \in Task : ~ corrected[t] /\ since[t] < CLOCK_MOD => since[t] = Shown(t)

\* check corrects the tasks of the scheduler only.
CorrectedRegistered == \A t \in Task : corrected[t] => t \in Registered

\* A task about to run has waited its interval, unless its previous was corrected.
RunsInTime ==
  pc = "run" => corrected[Current] \/ since[Current] >= interval[Current]

\* checkAll begins with the first task.
FirstTask == pc = "loop" => i = 1

TimedInv ==
  TimedTypeOK /\ Measured /\ CorrectedRegistered /\ RunsInTime /\ FirstTask

LEMMA ClockOK == CLOCK_MOD \in Nat \ {0} /\ MaxGap \in Nat
  BY TimedConstantsOK

\* Every interval is shorter than a turn of the clock.
LEMMA IntervalOK ==
  ASSUME TimedTypeOK, NEW t \in Task
  PROVE  /\ interval[t] \in 0 .. CLOCK_MOD - 1
         /\ previous[t] \in 0 .. CLOCK_MOD - 1
         /\ since[t] \in 0 .. CLOCK_MOD
         /\ now \in 0 .. CLOCK_MOD - 1
  BY TimedConstantsOK DEF TimedTypeOK

LEMMA CurrentTask ==
  ASSUME TimedTypeOK, pc # "loop"
  PROVE  Current \in Task /\ Current \in Registered
  BY DEF TimedTypeOK, Current, Registered

\* The test of check and isDue is the one on the time the clock shows.
LEMMA ElapsedShown ==
  ASSUME TimedTypeOK, NEW t \in Task
  PROVE  Elapsed(t) <=> Shown(t) >= interval[t]
  <1>1. /\ now \in 0 .. CLOCK_MOD - 1 /\ previous[t] \in 0 .. CLOCK_MOD - 1
        /\ CLOCK_MOD \in Nat \ {0}
    BY IntervalOK, ClockOK
  <1>. QED BY <1>1, ModOfDifference DEF Elapsed, Shown

\* The second test of isDue is the first one again.
LEMMA WrappedAgrees ==
  ASSUME TimedTypeOK, NEW t \in Task, ElapsedWrapped(t)
  PROVE  Shown(t) >= interval[t]
  BY IntervalOK, ClockOK DEF ElapsedWrapped, Shown

LEMMA InitTimedInv == TimedInit => TimedInv
  <1>. SUFFICES ASSUME TimedInit PROVE TimedInv OBVIOUS
  <1>0. ASSUME NEW t \in Task
        PROVE  since[t] = IF previous[t] = 0 THEN 0 ELSE CLOCK_MOD - previous[t]
    <2>1. CLOCK_MOD \in Nat \ {0} /\ 0 \in 0 .. CLOCK_MOD - 1 BY ClockOK
    <2>2. previous[t] \in 0 .. CLOCK_MOD - 1 BY DEF TimedInit
    <2>3. (0 - previous[t]) % CLOCK_MOD =
            IF 0 >= previous[t] THEN 0 - previous[t] ELSE 0 - previous[t] + CLOCK_MOD
      BY <2>1, <2>2, ModOfDifference
    <2>4. since[t] = (0 - previous[t]) % CLOCK_MOD BY DEF TimedInit
    <2>. QED BY <2>1, <2>2, <2>3, <2>4
  <1>1. TimedTypeOK
    <2>1. <<>> \in Seq(Task) /\ Len(<<>>) = 0 OBVIOUS
    <2>2. 0 \in 0 .. CLOCK_MOD - 1 /\ 0 \in 0 .. CLOCK_MOD /\ 0 \in 0 .. MaxGap
      BY ClockOK
    <2>3. 0 <= MAX_TIMED_TASKS BY TimedConstantsOK
    <2>4. since \in [Task -> 0 .. CLOCK_MOD] BY <1>0, ClockOK DEF TimedInit
    <2>. QED BY <2>1, <2>2, <2>3, <2>4 DEF TimedInit, TimedTypeOK
  <1>2. Measured
    <2>. SUFFICES ASSUME NEW t \in Task, since[t] < CLOCK_MOD PROVE since[t] = Shown(t)
      BY DEF Measured
    <2>1. now = 0 /\ previous[t] \in 0 .. CLOCK_MOD - 1 BY DEF TimedInit
    <2>. QED BY <1>0, <2>1, ClockOK DEF Shown
  <1>3. CorrectedRegistered /\ RunsInTime /\ FirstTask
    BY DEF TimedInit, CorrectedRegistered, RunsInTime, FirstTask
  <1>. QED BY <1>1, <1>2, <1>3 DEF TimedInv

-----------------------------------------------------------------------------
(***************************************************************************)
(* What the parts of the actions keep.                                     *)
(***************************************************************************)

\* Setting previous to the clock, or leaving it alone, keeps it measured.
LEMMA SetPreviousMeasures ==
  ASSUME TimedInv, NEW t \in Task, SetPrevious(t), now' = now
  PROVE  /\ previous' \in [Task -> 0 .. CLOCK_MOD - 1]
         /\ since' \in [Task -> 0 .. CLOCK_MOD]
         /\ corrected' \in [Task -> BOOLEAN]
         /\ Measured'
         /\ \A u \in Task : corrected'[u] => corrected[u]
  <1>1. now \in 0 .. CLOCK_MOD - 1 /\ CLOCK_MOD \in Nat \ {0}
    BY ClockOK DEF TimedInv, TimedTypeOK
  <1>2. /\ previous' \in [Task -> 0 .. CLOCK_MOD - 1]
        /\ since' \in [Task -> 0 .. CLOCK_MOD]
        /\ corrected' \in [Task -> BOOLEAN]
    BY <1>1 DEF TimedInv, TimedTypeOK, SetPrevious
  <1>3. Measured'
    BY <1>1 DEF TimedInv, TimedTypeOK, SetPrevious, Measured, Shown
  <1>4. \A u \in Task : corrected'[u] => corrected[u]
    BY DEF TimedInv, TimedTypeOK, SetPrevious
  <1>. QED BY <1>2, <1>3, <1>4

LEMMA KeepPreviousMeasures ==
  ASSUME TimedInv, KeepPrevious, now' = now
  PROVE  /\ previous' \in [Task -> 0 .. CLOCK_MOD - 1]
         /\ since' \in [Task -> 0 .. CLOCK_MOD]
         /\ corrected' \in [Task -> BOOLEAN]
         /\ Measured'
         /\ \A u \in Task : corrected'[u] => corrected[u]
  BY DEF TimedInv, TimedTypeOK, KeepPrevious, Measured, Shown

LEMMA TickKeepsTimed ==
  ASSUME TimedInv, ClockTick
  PROVE  TimedInv'
  <1>1. CLOCK_MOD \in Nat \ {0} /\ MaxGap \in Nat /\ now \in 0 .. CLOCK_MOD - 1
    BY ClockOK DEF TimedInv, TimedTypeOK
  <1>2. now' = IF now + 1 < CLOCK_MOD THEN now + 1 ELSE 0
    BY <1>1, ClockWraps DEF ClockTick
  <1>3. since' = [t \in Task |-> IF since[t] = CLOCK_MOD THEN since[t] ELSE since[t] + 1]
    BY DEF ClockTick
  <1>4. since' \in [Task -> 0 .. CLOCK_MOD]
    BY <1>1, <1>3 DEF TimedInv, TimedTypeOK
  <1>5. TimedTypeOK'
    BY <1>1, <1>2, <1>4 DEF TimedInv, TimedTypeOK, ClockTick, fields, control
  <1>6. Measured'
    <2>1. SUFFICES ASSUME NEW t \in Task, ~ corrected'[t], since'[t] < CLOCK_MOD
                   PROVE  since'[t] = Shown(t)'
      BY DEF Measured
    <2>2. since[t] < CLOCK_MOD /\ since'[t] = since[t] + 1 /\ ~ corrected[t]
          /\ previous' = previous
      BY <1>1, <1>3, <2>1 DEF TimedInv, TimedTypeOK, ClockTick
    <2>3. since[t] = Shown(t) /\ previous[t] \in 0 .. CLOCK_MOD - 1 /\ since[t] \in Nat
      BY <2>2 DEF TimedInv, TimedTypeOK, Measured
    <2>. QED BY <1>1, <1>2, <2>1, <2>2, <2>3 DEF Shown
  <1>7. CorrectedRegistered'
    BY DEF TimedInv, ClockTick, CorrectedRegistered, Registered
  <1>8. RunsInTime'
    <2>1. SUFFICES ASSUME pc' = "run"
                   PROVE  corrected'[Current'] \/ since'[Current'] >= interval'[Current']
      BY DEF RunsInTime
    <2>2. pc = "run" /\ Current' = Current /\ corrected' = corrected /\ interval' = interval
      BY <2>1 DEF ClockTick, control, fields, Current
    <2>3. Current \in Task BY <2>2, CurrentTask DEF TimedInv
    <2>4. since'[Current] >= since[Current] /\ since'[Current] \in Int /\ since[Current] \in Int
      BY <1>1, <1>3, <2>3 DEF TimedInv, TimedTypeOK
    <2>5. interval[Current] \in Int BY <2>3, IntervalOK DEF TimedInv
    <2>. QED BY <2>2, <2>4, <2>5 DEF TimedInv, RunsInTime
  <1>9. FirstTask' BY DEF TimedInv, FirstTask, ClockTick, control
  <1>. QED BY <1>5, <1>6, <1>7, <1>8, <1>9 DEF TimedInv

-----------------------------------------------------------------------------
(***************************************************************************)
(* The owners' calls.                                                      *)
(***************************************************************************)

\* A call between two turns of the loop, with what it leaves of its types.
LEMMA CallKeepsTimed ==
  ASSUME TimedInv, CallBegins,
         /\ previous' \in [Task -> 0 .. CLOCK_MOD - 1]
         /\ since' \in [Task -> 0 .. CLOCK_MOD]
         /\ corrected' \in [Task -> BOOLEAN]
         /\ Measured'
         /\ \A u \in Task : corrected'[u] => corrected[u],
         active' \in [Task -> BOOLEAN], interval' \in [Task -> Intervals],
         due' \in BOOLEAN,
         \/ tasks' = tasks
         \/ \E t \in Task : tasks' = Append(tasks, t) /\ Len(tasks) < MAX_TIMED_TASKS
  PROVE  TimedInv'
  <1>1. tasks' \in Seq(Task) /\ Len(tasks') <= MAX_TIMED_TASKS
    <2>1. tasks \in Seq(Task) /\ Len(tasks) <= MAX_TIMED_TASKS /\ MAX_TIMED_TASKS \in Nat
      BY TimedConstantsOK DEF TimedInv, TimedTypeOK
    <2>2. CASE tasks' = tasks BY <2>1, <2>2
    <2>3. CASE \E t \in Task : tasks' = Append(tasks, t) /\ Len(tasks) < MAX_TIMED_TASKS
      <3>1. PICK t \in Task : tasks' = Append(tasks, t) /\ Len(tasks) < MAX_TIMED_TASKS
        BY <2>3
      <3>2. Append(tasks, t) \in Seq(Task) /\ Len(Append(tasks, t)) = Len(tasks) + 1
        BY <2>1
      <3>3. Len(tasks) \in Nat BY <2>1
      <3>. QED BY <2>1, <3>1, <3>2, <3>3
    <2>. QED BY <2>2, <2>3
  <1>2. Registered \subseteq Registered'
    <2>1. CASE tasks' = tasks BY <2>1 DEF Registered
    <2>2. CASE \E t \in Task : tasks' = Append(tasks, t)
      <3>1. PICK t \in Task : tasks' = Append(tasks, t) BY <2>2
      <3>2. tasks \in Seq(Task) BY DEF TimedInv, TimedTypeOK
      <3>3. \A k \in DOMAIN tasks : k \in DOMAIN tasks' /\ tasks'[k] = tasks[k]
        BY <3>1, <3>2
      <3>. QED BY <3>3 DEF Registered
    <2>. QED BY <2>1, <2>2
  <1>3. pc = "loop" /\ pc' = "loop" /\ now' = now /\ gap' = gap
    BY DEF CallBegins, control
  <1>4. TimedTypeOK' BY <1>1, <1>3 DEF TimedInv, TimedTypeOK
  <1>5. CorrectedRegistered' BY <1>2 DEF TimedInv, CorrectedRegistered
  <1>6. RunsInTime' BY <1>3 DEF RunsInTime
  <1>7. FirstTask' BY DEF TimedInv, FirstTask, CallBegins, control
  <1>. QED BY <1>4, <1>5, <1>6, <1>7 DEF TimedInv

LEMMA OwnerCallKeeps ==
  ASSUME TimedInv, NEW t \in Task, OwnerCall(t)
  PROVE  TimedInv'
  <1>0. /\ active \in [Task -> BOOLEAN] /\ interval \in [Task -> Intervals]
        /\ due \in BOOLEAN
    BY DEF TimedInv, TimedTypeOK
  <1>1. CASE reset(t)
    <2>1. CallBegins /\ SetPrevious(t) /\ now' = now BY <1>1 DEF reset, CallBegins
    <2>2. active' = active /\ interval' = interval /\ due' = due /\ tasks' = tasks
      BY <1>1 DEF reset, fields
    <2>. QED BY <1>0, <2>1, <2>2, SetPreviousMeasures, CallKeepsTimed
  <1>2. CASE enable(t)
    <2>1. CallBegins /\ KeepPrevious /\ now' = now BY <1>2 DEF enable, CallBegins
    <2>2. active' \in [Task -> BOOLEAN] /\ interval' = interval /\ due' = due /\ tasks' = tasks
      BY <1>0, <1>2 DEF enable
    <2>. QED BY <1>0, <2>1, <2>2, KeepPreviousMeasures, CallKeepsTimed
  <1>3. CASE disable(t)
    <2>1. CallBegins /\ KeepPrevious /\ now' = now BY <1>3 DEF disable, CallBegins
    <2>2. active' \in [Task -> BOOLEAN] /\ interval' = interval /\ due' = due /\ tasks' = tasks
      BY <1>0, <1>3 DEF disable
    <2>. QED BY <1>0, <2>1, <2>2, KeepPreviousMeasures, CallKeepsTimed
  <1>4. CASE registerTask(t)
    <2>1. CallBegins /\ KeepPrevious /\ now' = now BY <1>4 DEF registerTask, CallBegins
    <2>2. active' = active /\ interval' = interval /\ due' = due
      BY <1>4 DEF registerTask, fields
    <2>3. \/ tasks' = tasks
          \/ \E u \in Task : tasks' = Append(tasks, u) /\ Len(tasks) < MAX_TIMED_TASKS
      BY <1>4 DEF registerTask
    <2>. QED BY <1>0, <2>1, <2>2, <2>3, KeepPreviousMeasures, CallKeepsTimed
  <1>5. CASE \E n \in Intervals : setInterval(t, n)
    <2>1. CallBegins /\ KeepPrevious /\ now' = now BY <1>5 DEF setInterval, CallBegins
    <2>2. active' = active /\ interval' \in [Task -> Intervals] /\ due' = due /\ tasks' = tasks
      BY <1>0, <1>5 DEF setInterval
    <2>. QED BY <1>0, <2>1, <2>2, KeepPreviousMeasures, CallKeepsTimed
  <1>6. CASE isDue(t)
    <2>1. CallBegins /\ now' = now /\ (SetPrevious(t) \/ KeepPrevious)
      BY <1>6 DEF isDue, CallBegins
    <2>2. active' = active /\ interval' = interval /\ tasks' = tasks
      BY <1>6 DEF isDue, fields
    <2>3. due' \in BOOLEAN BY <1>0, <1>6 DEF isDue
    <2>. QED BY <1>0, <2>1, <2>2, <2>3, SetPreviousMeasures, KeepPreviousMeasures, CallKeepsTimed
  <1>. QED BY <1>1, <1>2, <1>3, <1>4, <1>5, <1>6 DEF OwnerCall

-----------------------------------------------------------------------------
(***************************************************************************)
(* The steps of checkAll.                                                  *)
(***************************************************************************)

\* The control of checkAll stays inside the registered tasks.
LEMMA NextTaskInside ==
  ASSUME TimedInv, pc # "loop", NextTask, tasks' = tasks
  PROVE  /\ pc' \in {"loop", "check"}
         /\ pc' # "loop" => i' \in DOMAIN tasks'
         /\ FirstTask'
  BY DEF TimedInv, TimedTypeOK, NextTask, FirstTask

\* A step of checkAll that ends outside of run, or in run for good reason.
LEMMA CheckStepKeeps ==
  ASSUME TimedInv, CheckStep,
         /\ previous' \in [Task -> 0 .. CLOCK_MOD - 1]
         /\ since' \in [Task -> 0 .. CLOCK_MOD]
         /\ corrected' \in [Task -> BOOLEAN]
         /\ Measured',
         CorrectedRegistered',
         pc' \in {"loop", "check", "run", "behind"},
         pc' # "loop" => i' \in DOMAIN tasks',
         RunsInTime', FirstTask'
  PROVE  TimedInv'
  <1>1. TimedTypeOK' BY ClockOK DEF TimedInv, TimedTypeOK, CheckStep, fields
  <1>. QED BY <1>1 DEF TimedInv

\* Where previous is kept or set, no task becomes corrected.
LEMMA NoneCorrected ==
  ASSUME TimedInv, tasks' = tasks, \A u \in Task : corrected'[u] => corrected[u]
  PROVE  CorrectedRegistered'
  BY DEF TimedInv, CorrectedRegistered, Registered

\* A step that keeps previous, inside the tasks, and does not go to run.
LEMMA QuietStep ==
  ASSUME TimedInv, CheckStep, KeepPrevious,
         pc' \in {"loop", "check", "behind"},
         pc' # "loop" => i' \in DOMAIN tasks',
         FirstTask'
  PROVE  TimedInv'
  <1>1. now' = now /\ tasks' = tasks BY DEF CheckStep
  <1>2. RunsInTime' BY DEF RunsInTime
  <1>. QED BY <1>1, <1>2, KeepPreviousMeasures, NoneCorrected, CheckStepKeeps

\* A step to run, by a test on the time the clock shows.
LEMMA StepToRun ==
  ASSUME TimedInv, CheckStep, KeepPrevious, pc # "loop", Goto("run"),
         Shown(Current) >= interval[Current]
  PROVE  TimedInv'
  <1>1. now' = now /\ tasks' = tasks /\ interval' = interval BY DEF CheckStep, fields
  <1>2. pc' = "run" /\ i' = i /\ Current' = Current BY <1>1 DEF Goto, Current
  <1>3. i' \in DOMAIN tasks' BY <1>1, <1>2 DEF TimedInv, TimedTypeOK
  <1>4. corrected' = corrected /\ since' = since BY DEF KeepPrevious
  <1>5. Current \in Task BY CurrentTask DEF TimedInv
  <1>6. corrected[Current] \/ since[Current] >= interval[Current]
    <2>1. CASE since[Current] < CLOCK_MOD BY <1>5, <2>1 DEF TimedInv, Measured
    <2>2. CASE ~ (since[Current] < CLOCK_MOD)
      BY <1>5, <2>2, IntervalOK, ClockOK DEF TimedInv
    <2>. QED BY <2>1, <2>2
  <1>7. RunsInTime' BY <1>1, <1>2, <1>4, <1>6 DEF RunsInTime
  <1>8. FirstTask' BY <1>2 DEF FirstTask
  <1>. QED BY <1>1, <1>2, <1>3, <1>7, <1>8, KeepPreviousMeasures, NoneCorrected, CheckStepKeeps

\* The corrected previous is a value of the clock, and later than it.
LEMMA CorrectionInRange ==
  ASSUME TimedTypeOK, NEW t \in Task, CLOCK_MOD - 1 - previous[t] < interval[t]
  PROVE  interval[t] - (CLOCK_MOD - 1 - previous[t]) \in 0 .. CLOCK_MOD - 1
  BY IntervalOK, ClockOK

LEMMA CorrectKeeps ==
  ASSUME TimedInv, CorrectPrevious
  PROVE  TimedInv'
  <1>1. pc # "loop" BY DEF CorrectPrevious
  <1>2. Current \in Task /\ Current \in Registered BY <1>1, CurrentTask DEF TimedInv
  <1>3. interval[Current] - TMr \in 0 .. CLOCK_MOD - 1
    BY <1>2, CorrectionInRange DEF CorrectPrevious, TMr, TimedInv
  <1>4. /\ CheckStep /\ NextTask /\ now' = now /\ tasks' = tasks /\ since' = since
        /\ previous' = [previous EXCEPT ![Current] = interval[Current] - TMr]
        /\ corrected' = [corrected EXCEPT ![Current] = TRUE]
    BY DEF CorrectPrevious, CheckStep
  <1>5. /\ previous' \in [Task -> 0 .. CLOCK_MOD - 1]
        /\ since' \in [Task -> 0 .. CLOCK_MOD]
        /\ corrected' \in [Task -> BOOLEAN]
    BY <1>3, <1>4 DEF TimedInv, TimedTypeOK
  <1>6. \A t \in Task : t # Current =>
          corrected'[t] = corrected[t] /\ previous'[t] = previous[t]
    BY <1>4 DEF TimedInv, TimedTypeOK
  <1>7. corrected'[Current] BY <1>2, <1>4 DEF TimedInv, TimedTypeOK
  <1>8. Measured'
    BY <1>4, <1>6, <1>7 DEF TimedInv, Measured, Shown
  <1>9. CorrectedRegistered'
    BY <1>2, <1>4, <1>6 DEF TimedInv, CorrectedRegistered, Registered
  <1>10. pc' \in {"loop", "check"} /\ (pc' # "loop" => i' \in DOMAIN tasks') /\ FirstTask'
    BY <1>1, <1>4, NextTaskInside
  <1>11. RunsInTime' BY <1>10 DEF RunsInTime
  <1>. QED BY <1>4, <1>5, <1>8, <1>9, <1>10, <1>11, CheckStepKeeps

LEMMA CheckKeeps ==
  ASSUME TimedInv, Check
  PROVE  TimedInv'
  <1>1. CASE checkAll
    <2>1. CheckStep /\ KeepPrevious /\ tasks' = tasks BY <1>1 DEF checkAll, CheckStep
    <2>2. i' = i /\ i = 1 /\ pc' = IF tasks = <<>> THEN "loop" ELSE "check"
      BY <1>1 DEF checkAll, Goto, TimedInv, FirstTask
    <2>3. tasks # <<>> => 1 \in DOMAIN tasks BY DEF TimedInv, TimedTypeOK
    <2>4. FirstTask' BY <2>2 DEF FirstTask
    <2>. QED BY <2>1, <2>2, <2>3, <2>4, QuietStep
  <1>2. CASE CheckInactive
    BY <1>2, NextTaskInside, QuietStep DEF CheckInactive, CheckStep
  <1>3. CASE CheckElapsed
    <2>1. /\ CheckStep /\ KeepPrevious /\ pc = "check" /\ tasks' = tasks
          /\ Goto(IF Elapsed(Current) THEN "run" ELSE "behind")
      BY <1>3 DEF CheckElapsed, CheckStep
    <2>2. Current \in Task BY <2>1, CurrentTask DEF TimedInv
    <2>3. CASE Elapsed(Current)
      BY <2>1, <2>2, <2>3, ElapsedShown, StepToRun DEF TimedInv
    <2>4. CASE ~ Elapsed(Current)
      <3>1. pc' = "behind" /\ i' = i BY <2>1, <2>4 DEF Goto
      <3>2. i' \in DOMAIN tasks' BY <2>1, <3>1 DEF TimedInv, TimedTypeOK
      <3>3. FirstTask' BY <3>1 DEF FirstTask
      <3>. QED BY <2>1, <3>1, <3>2, <3>3, QuietStep
    <2>. QED BY <2>3, <2>4
  <1>4. CASE Run
    <2>1. /\ CheckStep /\ NextTask /\ pc = "run" /\ tasks' = tasks /\ now' = now
          /\ SetPrevious(Current)
      BY <1>4 DEF Run, CheckStep
    <2>2. Current \in Task BY <2>1, CurrentTask DEF TimedInv
    <2>3. pc' \in {"loop", "check"} /\ (pc' # "loop" => i' \in DOMAIN tasks') /\ FirstTask'
      BY <2>1, NextTaskInside
    <2>4. RunsInTime' BY <2>3 DEF RunsInTime
    <2>. QED BY <2>1, <2>2, <2>3, <2>4, SetPreviousMeasures, NoneCorrected, CheckStepKeeps
  <1>5. CASE NotBehind
    BY <1>5, NextTaskInside, QuietStep DEF NotBehind, CheckStep
  <1>6. CASE CorrectPrevious BY <1>6, CorrectKeeps
  <1>7. CASE LongBehind
    <2>1. /\ CheckStep /\ KeepPrevious /\ pc = "behind" /\ Goto("run")
          /\ now < previous[Current] /\ CLOCK_MOD - 1 - previous[Current] >= interval[Current]
      BY <1>7 DEF LongBehind, TMr
    <2>2. Current \in Task BY <2>1, CurrentTask DEF TimedInv
    <2>3. Shown(Current) >= interval[Current]
      BY <2>1, <2>2, IntervalOK, ClockOK DEF Shown, TimedInv
    <2>. QED BY <2>1, <2>3, StepToRun
  <1>. QED BY <1>1, <1>2, <1>3, <1>4, <1>5, <1>6, <1>7 DEF Check

LEMMA TimedInvInductive == TimedInv /\ [TimedNext]_timedVars => TimedInv'
  <1>. SUFFICES ASSUME TimedInv, [TimedNext]_timedVars PROVE TimedInv' OBVIOUS
  <1>1. CASE ClockTick BY <1>1, TickKeepsTimed
  <1>2. CASE Check BY <1>2, CheckKeeps
  <1>3. CASE \E t \in Task : OwnerCall(t) BY <1>3, OwnerCallKeeps
  <1>4. CASE UNCHANGED timedVars
    BY <1>4 DEF timedVars, fields, control, TimedInv, TimedTypeOK, Measured, Shown,
                CorrectedRegistered, Registered, RunsInTime, Current, FirstTask
  <1>. QED BY <1>1, <1>2, <1>3, <1>4 DEF TimedNext

LEMMA TimedInvAlways == TimedSpec => []TimedInv
  BY InitTimedInv, TimedInvInductive, PTL DEF TimedSpec

-----------------------------------------------------------------------------
(***************************************************************************)
(* How late the correction of previous can make a task.                    *)
(***************************************************************************)

\* The corrected previous lies past a wrap of the clock, and the time from the
\* wrong previous to the corrected one is at most an interval and a tick.  A
\* second correction only moves previous back.
CorrectedLate ==
  \A t \in Task : corrected[t] /\ since[t] < CLOCK_MOD =>
    /\ since[t] > now
    /\ previous[t] + (since[t] - now) <= MaxInterval + 1

\* The intervals are bounded, so there is a longest one.
LEMMA MaxIntervalOK ==
  /\ MaxInterval \in Intervals
  /\ \A k \in Intervals : k <= MaxInterval
  <1>1. CLOCK_MOD \in Nat \ {0} /\ Intervals \subseteq 0 .. CLOCK_MOD - 1 /\ Intervals # {}
    BY TimedConstantsOK
  <1>. DEFINE Bounds == {b \in Nat : \A k \in Intervals : k <= b}
  <1>2. CLOCK_MOD - 1 \in Bounds BY <1>1
  <1>3. PICK b \in Bounds : \A y \in Bounds : ~ (<<y, b>> \in OpToRel(<, Nat))
    <2>1. Bounds \subseteq Nat /\ Bounds # {} BY <1>2
    <2>. QED BY <2>1, WFMin, NatLessThanWellFounded
  <1>4. \A y \in Bounds : ~ (y < b) BY <1>3 DEF OpToRel
  <1>5. b \in Intervals
    <2>1. SUFFICES ASSUME b \notin Intervals PROVE FALSE OBVIOUS
    <2>2. b \in Nat /\ \A k \in Intervals : k \in Nat /\ k <= b
      <3>1. b \in Nat /\ \A k \in Intervals : k <= b BY <1>3
      <3>2. \A k \in Intervals : k \in Nat BY <1>1
      <3>. QED BY <3>1, <3>2
    <2>3. \A k \in Intervals : k <= b - 1 BY <2>1, <2>2
    <2>4. b > 0
      <3>1. PICK k \in Intervals : TRUE BY <1>1
      <3>2. k \in Nat /\ k <= b - 1 /\ b \in Nat BY <2>2, <2>3, <3>1
      <3>. QED BY <3>2
    <2>5. b - 1 \in Bounds BY <2>2, <2>3, <2>4
    <2>. QED BY <1>4, <2>2, <2>5
  <1>6. \E n \in Intervals : \A k \in Intervals : k <= n BY <1>3, <1>5
  <1>. QED BY <1>6 DEF MaxInterval

LEMMA TickKeepsLate ==
  ASSUME TimedInv, CorrectedLate, ClockTick
  PROVE  CorrectedLate'
  <1>1. SUFFICES ASSUME NEW t \in Task, corrected'[t], since'[t] < CLOCK_MOD
                 PROVE  /\ since'[t] > now'
                        /\ previous'[t] + (since'[t] - now') <= MaxInterval + 1
    BY DEF CorrectedLate
  <1>2. /\ since[t] \in 0 .. CLOCK_MOD /\ now \in 0 .. CLOCK_MOD - 1
        /\ previous[t] \in 0 .. CLOCK_MOD - 1 /\ CLOCK_MOD \in Nat \ {0}
    BY IntervalOK, ClockOK DEF TimedInv
  <1>3. now' = IF now + 1 < CLOCK_MOD THEN now + 1 ELSE 0
    BY <1>2, ClockWraps DEF ClockTick
  <1>4. /\ since'[t] = IF since[t] = CLOCK_MOD THEN since[t] ELSE since[t] + 1
        /\ corrected[t] /\ previous'[t] = previous[t]
    BY <1>1 DEF ClockTick
  <1>5. since[t] < CLOCK_MOD /\ since'[t] = since[t] + 1 BY <1>1, <1>2, <1>4
  <1>6. since[t] > now /\ previous[t] + (since[t] - now) <= MaxInterval + 1
    BY <1>4, <1>5 DEF CorrectedLate
  <1>7. now' = now + 1 BY <1>1, <1>2, <1>3, <1>5, <1>6
  <1>8. MaxInterval \in Int BY MaxIntervalOK, TimedConstantsOK
  <1>. QED BY <1>2, <1>4, <1>5, <1>6, <1>7, <1>8

LEMMA CorrectKeepsLate ==
  ASSUME TimedInv, CorrectedLate, CorrectPrevious
  PROVE  CorrectedLate'
  <1>1. pc # "loop" BY DEF CorrectPrevious
  <1>2. Current \in Task BY <1>1, CurrentTask DEF TimedInv
  <1>3. /\ now' = now /\ since' = since
        /\ previous' = [previous EXCEPT ![Current] = interval[Current] - TMr]
        /\ corrected' = [corrected EXCEPT ![Current] = TRUE]
        /\ now < previous[Current] /\ TMr < interval[Current]
    BY DEF CorrectPrevious, CheckStep
  <1>4. SUFFICES ASSUME NEW t \in Task, corrected'[t], since[t] < CLOCK_MOD
                 PROVE  /\ since[t] > now
                        /\ previous'[t] + (since[t] - now) <= MaxInterval + 1
    BY <1>3 DEF CorrectedLate
  <1>5. CASE t # Current
    <2>1. corrected[t] /\ previous'[t] = previous[t]
      BY <1>3, <1>4, <1>5 DEF TimedInv, TimedTypeOK
    <2>. QED BY <1>4, <2>1 DEF CorrectedLate
  <1>6. CASE t = Current
    <2>1. /\ since[t] \in 0 .. CLOCK_MOD /\ now \in 0 .. CLOCK_MOD - 1
          /\ previous[t] \in 0 .. CLOCK_MOD - 1 /\ CLOCK_MOD \in Nat \ {0}
          /\ interval[t] \in 0 .. CLOCK_MOD - 1
      BY IntervalOK, ClockOK DEF TimedInv
    <2>2. previous'[t] = interval[t] - (CLOCK_MOD - 1 - previous[t]) /\ now < previous[t]
      BY <1>3, <1>6 DEF TimedInv, TimedTypeOK, TMr
    <2>3. MaxInterval \in Int /\ interval[t] <= MaxInterval
      <3>1. interval[t] \in Intervals BY DEF TimedInv, TimedTypeOK
      <3>2. MaxInterval \in Int BY MaxIntervalOK, TimedConstantsOK
      <3>. QED BY <3>1, <3>2, MaxIntervalOK
    <2>4. CASE corrected[t]
      BY <1>4, <2>1, <2>2, <2>3, <2>4 DEF CorrectedLate
    <2>5. CASE ~ corrected[t]
      <3>1. since[t] = now - previous[t] + CLOCK_MOD
        BY <1>4, <2>1, <2>2, <2>5 DEF TimedInv, Measured, Shown
      <3>. QED BY <2>1, <2>2, <2>3, <3>1
    <2>. QED BY <2>4, <2>5
  <1>. QED BY <1>5, <1>6

\* A task that becomes uncorrected, or is left alone, gives the others no delay.
LEMMA PartKeepsLate ==
  ASSUME TimedInv, CorrectedLate, now' = now,
         KeepPrevious \/ \E t \in Task : SetPrevious(t)
  PROVE  CorrectedLate'
  <1>1. CASE KeepPrevious BY <1>1 DEF KeepPrevious, CorrectedLate
  <1>2. CASE \E t \in Task : SetPrevious(t)
    BY <1>2 DEF SetPrevious, CorrectedLate, TimedInv, TimedTypeOK
  <1>. QED BY <1>1, <1>2

LEMMA LateInductive ==
  TimedInv /\ CorrectedLate /\ [TimedNext]_timedVars => CorrectedLate'
  <1>. SUFFICES ASSUME TimedInv, CorrectedLate, [TimedNext]_timedVars
                PROVE  CorrectedLate'
    OBVIOUS
  <1>1. CASE ClockTick BY <1>1, TickKeepsLate
  <1>2. CASE CorrectPrevious BY <1>2, CorrectKeepsLate
  <1>3. CASE Check /\ ~ CorrectPrevious
    <2>1. CASE Run
      <3>1. Current \in Task BY <2>1, CurrentTask DEF Run, TimedInv
      <3>. QED BY <2>1, <3>1, PartKeepsLate DEF Run, CheckStep
    <2>2. CASE checkAll \/ CheckInactive \/ CheckElapsed \/ NotBehind \/ LongBehind
      BY <2>2, PartKeepsLate DEF checkAll, CheckInactive, CheckElapsed, NotBehind,
         LongBehind, CheckStep
    <2>. QED BY <1>3, <2>1, <2>2 DEF Check
  <1>4. CASE \E t \in Task : OwnerCall(t)
    <2>1. PICK t \in Task : OwnerCall(t) BY <1>4
    <2>2. now' = now /\ (SetPrevious(t) \/ KeepPrevious)
      BY <2>1 DEF OwnerCall, reset, enable, disable, registerTask, setInterval, isDue,
                  CallBegins
    <2>. QED BY <2>1, <2>2, PartKeepsLate
  <1>5. CASE UNCHANGED timedVars BY <1>5 DEF timedVars, fields, CorrectedLate
  <1>. QED BY <1>1, <1>2, <1>3, <1>4, <1>5 DEF TimedNext

LEMMA LateAlways == TimedSpec => [](TimedInv /\ CorrectedLate)
  <1>1. TimedInit => CorrectedLate BY DEF TimedInit, CorrectedLate
  <1>. QED BY <1>1, TimedInvAlways, LateInductive, PTL DEF TimedSpec

\* A task past its interval, and past the delay if it was corrected, is seen by
\* the test of check.
LEMMA LateSeen ==
  ASSUME TimedInv, CorrectedLate, NEW t \in Task, since[t] < CLOCK_MOD,
         since[t] >= IF corrected[t] THEN interval[t] + MaxInterval + 1 ELSE interval[t]
  PROVE  Elapsed(t)
  <1>1. /\ since[t] \in 0 .. CLOCK_MOD /\ now \in 0 .. CLOCK_MOD - 1
        /\ previous[t] \in 0 .. CLOCK_MOD - 1 /\ interval[t] \in 0 .. CLOCK_MOD - 1
        /\ CLOCK_MOD \in Nat \ {0}
    BY IntervalOK, ClockOK DEF TimedInv
  <1>2. MaxInterval \in Int BY MaxIntervalOK, TimedConstantsOK
  <1>3. CASE corrected[t]
    <2>1. previous[t] + (since[t] - now) <= MaxInterval + 1 BY <1>3 DEF CorrectedLate
    <2>2. Shown(t) >= interval[t] BY <1>1, <1>2, <1>3, <2>1 DEF Shown
    <2>. QED BY <2>2, ElapsedShown DEF TimedInv
  <1>4. CASE ~ corrected[t]
    BY <1>4, ElapsedShown DEF TimedInv, Measured
  <1>. QED BY <1>3, <1>4

\* Where the next step of checkAll goes on after the first test of check.
LEMMA CheckGoesOn ==
  ASSUME [TimedNext]_timedVars, pc = "check", pc' # pc, active[Current]
  PROVE  CheckElapsed
  <1>1. ~ (UNCHANGED timedVars) BY DEF timedVars, control
  <1>2. ~ ClockTick BY DEF ClockTick, control
  <1>3. ~ \E t \in Task : OwnerCall(t)
    BY DEF OwnerCall, reset, enable, disable, registerTask, setInterval, isDue, CallBegins
  <1>4. Check BY <1>1, <1>2, <1>3 DEF TimedNext
  <1>. QED BY <1>4 DEF Check, checkAll, CheckInactive, Run, NotBehind, CorrectPrevious, LongBehind

-----------------------------------------------------------------------------
(***************************************************************************)
(* Theorems.                                                               *)
(***************************************************************************)

\* The fields keep the width of the clock, also when check corrects previous
\* (TimedTask.cpp:47), and checkAll stays inside the registered tasks.
THEOREM TimedTypeCorrect == TimedSpec => []TimedTypeOK
  BY TimedInvAlways, PTL DEF TimedInv

\* A task runs before its interval has passed only when the clock has gone through
\* 0 since its previous was last set to it (TimedTask.cpp:38-57), so once for each
\* wrap at most: the clock may go on, and wrap, between the readings of one check.
THEOREM EarlyOnlyOnWrapAlways == TimedSpec => EarlyOnlyOnWrap
  <1>1. TimedInv /\ CorrectedLate =>
          \A t \in Task : Executes(t) /\ since[t] < interval[t] => now < since[t]
    <2>. SUFFICES ASSUME TimedInv, CorrectedLate, NEW t \in Task,
                         Executes(t), since[t] < interval[t]
                  PROVE  now < since[t]
      OBVIOUS
    <2>1. pc = "run" /\ Current = t BY DEF Executes
    <2>2. /\ since[t] \in 0 .. CLOCK_MOD /\ interval[t] \in 0 .. CLOCK_MOD - 1
          /\ now \in 0 .. CLOCK_MOD - 1 /\ CLOCK_MOD \in Nat
      BY IntervalOK, ClockOK DEF TimedInv
    <2>3. corrected[t] BY <2>1, <2>2 DEF TimedInv, RunsInTime
    <2>. QED BY <2>2, <2>3 DEF CorrectedLate
  <1>. QED BY <1>1, LateAlways, PTL DEF EarlyOnlyOnWrap

\* isDue is exact for less than a turn of the clock: its second formula
\* (TimedTask.cpp:67) never answers otherwise than the first.
THEOREM IsDueExactAlways == TimedSpec => IsDueExact
  <1>1. TimedInv => \A t \in Task \ Registered :
                      isDue(t) /\ since[t] < CLOCK_MOD =>
                        due' = (active[t] /\ since[t] >= interval[t])
    <2>. SUFFICES ASSUME TimedInv, NEW t \in Task \ Registered,
                         isDue(t), since[t] < CLOCK_MOD
                  PROVE  due' = (active[t] /\ since[t] >= interval[t])
      OBVIOUS
    <2>1. since[t] = Shown(t) BY DEF TimedInv, CorrectedRegistered, Measured
    <2>2. (Elapsed(t) \/ ElapsedWrapped(t)) = (since[t] >= interval[t])
      <3>1. (Elapsed(t) \/ ElapsedWrapped(t)) <=> Shown(t) >= interval[t]
        BY ElapsedShown, WrappedAgrees DEF TimedInv
      <3>2. Elapsed(t) \in BOOLEAN /\ ElapsedWrapped(t) \in BOOLEAN
        BY DEF Elapsed, ElapsedWrapped
      <3>. QED BY <2>1, <3>1, <3>2
    <2>. QED BY <2>2 DEF isDue
  <1>. QED BY <1>1, TimedInvAlways, PTL DEF IsDueExact

\* A check that finds its task due runs it: the correction of previous
\* (TimedTask.cpp:47) delays a task by at most the longest interval and a tick,
\* however often it is made and whatever setInterval does meanwhile.
THEOREM NoRunMissedAlways == TimedSpec => NoRunMissed
  <1>1. TimedInv /\ CorrectedLate /\ [TimedNext]_timedVars =>
          \A t \in Task :
            /\ pc = "check" /\ pc' # pc /\ Current = t /\ active[t]
            /\ since[t] < CLOCK_MOD
            /\ since[t] >= IF corrected[t] THEN interval[t] + MaxInterval + 1 ELSE interval[t]
            => pc' = "run"
    <2>. SUFFICES ASSUME TimedInv, CorrectedLate, [TimedNext]_timedVars, NEW t \in Task,
                         pc = "check", pc' # pc, Current = t, active[t],
                         since[t] < CLOCK_MOD,
                         since[t] >= IF corrected[t] THEN interval[t] + MaxInterval + 1
                                     ELSE interval[t]
                  PROVE  pc' = "run"
      OBVIOUS
    <2>1. Elapsed(t) BY LateSeen
    <2>2. CheckElapsed BY CheckGoesOn
    <2>. QED BY <2>1, <2>2 DEF CheckElapsed, Goto
  <1>. QED BY <1>1, LateAlways, PTL DEF TimedSpec, NoRunMissed
=============================================================================
