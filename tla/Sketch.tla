------------------------------- MODULE Sketch -------------------------------
(***************************************************************************)
(* The sketch (src/Arduino_RAM_Dinamica_V1.ino): tasks that allocate a     *)
(* block when they first run and use it from then on, the record proc_mem  *)
(* they keep of it, and cleanup_paginado, over the paged allocator of      *)
(* PageTable and the process tree of Process.                              *)
(*                                                                         *)
(* loop() hands the processor to one task at a time, and a task runs to    *)
(* its return.  Which one is next is up to PM.schedule, which has no code  *)
(* here: any that lives.  A process dies by prepareForDeath, which runs    *)
(* its cleanup_callback first; PM.create gives it none, PM.spawn takes     *)
(* one.  What the tasks write is a matter of module PageCache.             *)
(***************************************************************************)
EXTENDS PageTable, Process

CONSTANTS
  Sensors,  \* the processes that run tarea_sensor_paginado
  Loggers,  \* tarea_logger_paginado; the others run tarea_cache_stress
  Cleaned   \* the processes whose cleanup_callback is cleanup_paginado

\* What a sensor and a logger ask for.
SensorSize == 16
LoggerSize == 64

\* A page holds the block of every task, and its number is below PAGE_NUMBERS
\* (256 bytes, 16 pages and 2^16 in the code).
ASSUME SketchConstantsOK ==
  /\ Processes = Pids
  /\ Sensors \subseteq Pids /\ Loggers \subseteq Pids /\ Cleaned \subseteq Pids
  /\ Sensors \cap Loggers = {}
  /\ LoggerSize <= PAGE_SIZE
  /\ MAX_PAGES_PER_PROC <= PAGE_NUMBERS

VARIABLES
  proc_mem, \* pid |-> its ProcMemInfo
  turn      \* the task or the death in progress, and where it is

sketchVars == <<vars, treeVars, proc_mem, turn>>

NoBlock == [sensor_addr |-> 0, data_addr |-> 0, initialized |-> FALSE]

NoTurn == [pid |-> 0, at |-> "loop"]

\* setup(): proc_mem is cleared and the processes are created.
SketchInit ==
  /\ Init /\ TreeInit
  /\ proc_mem = [p \in Pids |-> NoBlock]
  /\ turn = NoTurn

\* What task p asks for.
TaskSize(p) ==
  CASE p \in Sensors -> SensorSize [] p \in Loggers -> LoggerSize [] OTHER -> PAGE_SIZE

\* The block of task p.
BlockAddr(p) == IF p \in Sensors THEN proc_mem[p].sensor_addr ELSE proc_mem[p].data_addr

\* The addresses task p reads or writes: two floats, a message of 32 characters
\* at most, or the whole page.
TaskAddrs(p) ==
  LET n == CASE p \in Sensors -> 8 [] p \in Loggers -> 32 [] OTHER -> PAGE_SIZE
  IN  BlockAddr(p) .. BlockAddr(p) + n - 1

-----------------------------------------------------------------------------

\* The call the turn has made has returned.
At(where) == turn.at = where /\ Idle

Goto(where) == turn' = [turn EXCEPT !.at = where]

\* Nothing asks again for what the last call returned.
AnswerTaken == ret' = NoRet /\ UNCHANGED <<phys_pages, page_table, call>>

\* loop() runs the task of p, which allocates its block unless it has one.
RunTask(p) ==
  /\ At("loop") /\ state[p] # "ZOMBIE"
  /\ IF proc_mem[p].initialized
     THEN turn' = [pid |-> p, at |-> "use"] /\ UNCHANGED vars
     ELSE turn' = [pid |-> p, at |-> "malloc"] /\ pagedMalloc(p, TaskSize(p))
  /\ UNCHANGED <<treeVars, proc_mem>>

\* pagedMalloc has returned; 0 is taken for a failure and ends the turn.
TaskHasBlock ==
  LET p == turn.pid
      addr == ret.val
  IN  /\ At("malloc")
      /\ proc_mem' = [proc_mem EXCEPT
           ![p].sensor_addr = IF p \in Sensors THEN addr ELSE @,
           ![p].data_addr   = IF p \in Sensors THEN @ ELSE addr,
           ![p].initialized = addr # 0]
      /\ turn' = IF addr = 0 THEN NoTurn ELSE [turn EXCEPT !.at = "use"]
      /\ AnswerTaken
      /\ UNCHANGED treeVars

\* The task reads and writes TaskAddrs(turn.pid) and returns.
TaskUses ==
  /\ At("use")
  /\ turn' = NoTurn
  /\ UNCHANGED <<vars, treeVars, proc_mem>>

\* prepareForDeath calls the callback, if there is one.
prepareForDeath(p) ==
  /\ At("loop") /\ CanDie(p)
  /\ turn' = [pid |-> p, at |-> IF p \in Cleaned THEN "sensor" ELSE "children"]
  /\ UNCHANGED <<vars, treeVars, proc_mem>>

\* cleanup_paginado frees a block it knows of.
CleanUp(where, addr, next) ==
  /\ At(where)
  /\ IF addr # 0 THEN pagedFree(turn.pid, addr) ELSE UNCHANGED vars
  /\ Goto(next)
  /\ UNCHANGED <<treeVars, proc_mem>>

CleanUpSensor == CleanUp("sensor", proc_mem[turn.pid].sensor_addr, "data")
CleanUpData   == CleanUp("data", proc_mem[turn.pid].data_addr, "reset")

\* Mutant of CleanUpReturns: the task still takes its block for allocated.
CleanUpReturnsInitialized ==
  /\ At("reset")
  /\ proc_mem' = [proc_mem EXCEPT ![turn.pid].sensor_addr = 0, ![turn.pid].data_addr = 0]
  /\ Goto("children")
  /\ AnswerTaken
  /\ UNCHANGED treeVars

CleanUpReturns ==
  /\ At("reset")
  /\ proc_mem' = [proc_mem EXCEPT ![turn.pid] = NoBlock]
  /\ Goto("children")
  /\ AnswerTaken
  /\ UNCHANGED treeVars

\* The rest of prepareForDeath.
Dies ==
  /\ At("children")
  /\ LeaveChildren(turn.pid)
  /\ turn' = NoTurn
  /\ UNCHANGED <<vars, proc_mem>>

\* An iteration of the allocator's call in progress.
AllocatorStep ==
  /\ \/ \E f \in Frames : MallocPage(f)
     \/ MallocOutOfFrames \/ MallocReturns \/ UnmapNext \/ UnmapReturns
  /\ UNCHANGED <<treeVars, proc_mem, turn>>

TurnStep ==
  \/ AllocatorStep
  \/ TaskHasBlock \/ TaskUses
  \/ CleanUpSensor \/ CleanUpData \/ CleanUpReturns \/ Dies

\* loop() finds no process to run.
NothingToRun ==
  /\ At("loop") /\ \A p \in Pids : state[p] = "ZOMBIE"
  /\ UNCHANGED sketchVars

SketchNext ==
  \/ NothingToRun
  \/ \E p \in Pids : RunTask(p) \/ prepareForDeath(p)
  \/ At("loop") /\ RuledCall /\ UNCHANGED <<vars, proc_mem, turn>>
  \/ TurnStep

SketchSpec == SketchInit /\ [][SketchNext]_sketchVars

-----------------------------------------------------------------------------
(***************************************************************************)
(* Properties.                                                             *)
(***************************************************************************)
BlockAddrs == {lp * PAGE_SIZE : lp \in LPs}

ProcMemInfo == [sensor_addr : BlockAddrs, data_addr : BlockAddrs, initialized : BOOLEAN]

SketchTypeOK ==
  /\ proc_mem \in [Pids -> ProcMemInfo]
  /\ turn \in [pid : Pids, at : {"loop", "malloc", "use", "sensor", "data", "reset", "children"}]
  /\ state \in [Processes -> {"READY", "KILL_PENDING", "ZOMBIE"}]
  /\ ref_count \in [Processes -> 0 .. 255]
  /\ {first_child, next_sibling, parent} \subseteq [Processes -> Processes \cup {NULL}]

MappedOf(p) == {lp \in LPs : page_table[p][lp] # Unmapped}

\* Between two turns the pages of a process are those its task knows of, and
\* page 0: the task that is told address 0 takes the call for failed (.ino:49),
\* so page 0 is mapped for good, and the block is page 1 for as long as the task
\* has one, in and out of frames, whatever the other processes do.
KnownOrPageZero ==
  turn.at = "loop" =>
    \A p \in Pids :
      /\ MappedOf(p) \subseteq {0, 1}
      /\ proc_mem[p].initialized <=> 1 \in MappedOf(p)
      /\ proc_mem[p].initialized => BlockAddr(p) = PAGE_SIZE /\ 0 \in MappedOf(p)

\* Every byte a task reads or writes is of a page the task has mapped: no access
\* of the sketch faults, also long after the allocation and when other tasks run
\* out of frames.
AccessesMapped ==
  turn.at = "use" =>
    \A a \in TaskAddrs(turn.pid) : LogicalPage(a) \in MappedOf(turn.pid)

\* A process that dies by way of cleanup_paginado leaves no page behind but page
\* 0, and no record of a block.
CleanedUp ==
  \A p \in Cleaned :
    state[p] = "ZOMBIE" => MappedOf(p) \subseteq {0} /\ proc_mem[p] = NoBlock

=============================================================================
