----------------------------- MODULE Scheduler -----------------------------
(***************************************************************************)
(* The preemptive round-robin scheduler of scheduler.rs, together with the *)
(* interrupt path that enters it: irq0 (asm.rs) pushes the registers of    *)
(* the interrupted task on that task's stack, timer_handler                *)
(* (interrupts.rs) ticks the clock and calls schedule, and irq0 pops the   *)
(* registers from whatever stack schedule returned.                        *)
(*                                                                         *)
(* The machine has one CPU.  The IRQ handler runs with interrupts off, so  *)
(* it is one action.  The shell runs in slot 0 and is the only caller of   *)
(* spawn and print_tasks; these two are split into the accesses they make  *)
(* to the task table, and the timer may preempt the shell between any two  *)
(* of them unless the interrupt flag is clear.                             *)
(*                                                                         *)
(* A register context is abstracted to the stack it lies on and a position *)
(* in that task's execution: enough to tell a context that was lost, mixed *)
(* up or rolled back from one that was preserved.                          *)
(***************************************************************************)
EXTENDS Integers

CONSTANTS
    MaxTasks,   \* MAX_TASKS
    PosMod,     \* positions of a task's execution that are told apart
    TickMod     \* TICKS wraps at TickMod (2^32 in the code)

ASSUME SchedulerAssumption ==
    /\ MaxTasks \in Nat \ {0}
    /\ PosMod \in Nat \ {0}
    /\ TickMod \in Nat \ {0}

VARIABLES
    state,      \* TASKS[_].state
    rsp,        \* TASKS[_].rsp, as the context stored at that address
    current,    \* CURRENT
    cpu,        \* the context the CPU is executing
    iflag,      \* RFLAGS.IF
    ticks,      \* TICKS
    pc,         \* where the shell task is in spawn / print_tasks
    i,          \* their loop variable
    row,        \* print_tasks: the row that was read
    result,     \* what the last call of spawn returned
    progress,   \* history: the position each task's execution has reached
    waited      \* history: timer interrupts each task has been passed over

vars == <<state, rsp, current, cpu, iflag, ticks, pc, i, row, result,
          progress, waited>>

Slots == 0 .. MaxTasks - 1
Positions == 0 .. PosMod - 1
NoStack == -1
Contexts == [stack : Slots \cup {NoStack}, at : Positions]
NoContext == [stack |-> NoStack, at |-> 0]
NoRow == [slot |-> 0, state |-> "Free", rsp |-> NoContext, seen |-> 0]

Critical == {"scan", "publish", "spawned", "ps_state", "ps_rsp"}
PCs == Critical \cup {"idle", "ps_print"}

Init ==
    /\ state = [s \in Slots |-> IF s = 0 THEN "Ready" ELSE "Free"]
    /\ rsp = [s \in Slots |-> NoContext]
    /\ current = 0
    /\ cpu = [stack |-> 0, at |-> 0]
    /\ iflag = TRUE
    /\ ticks = 0
    /\ pc = "idle"
    /\ i = 0
    /\ row = NoRow
    /\ result = 0
    /\ progress = [s \in Slots |-> 0]
    /\ waited = [s \in Slots |-> 0]

-----------------------------------------------------------------------------
(***************************************************************************)
(* The timer interrupt.                                                    *)
(***************************************************************************)

\* TASKS[cur].state after the save: Running is turned into Ready.
Requeue(st, cur) ==
    IF st[cur] = "Running" THEN [st EXCEPT ![cur] = "Ready"] ELSE st

\* Mutant of ReadyAt: the search starts at slot 0, not after cur.
ReadyFromZero(st, cur) ==
    {k \in 1 .. MaxTasks :
        /\ st[(cur + k) % MaxTasks] = "Ready"
        /\ \A l \in 1 .. MaxTasks :
              st[(cur + l) % MaxTasks] = "Ready"
                 => (cur + k) % MaxTasks <= (cur + l) % MaxTasks}

\* The values of tried + 1 at which the search meets a Ready slot.
ReadyAt(st, cur) == {k \in 1 .. MaxTasks : st[(cur + k) % MaxTasks] = "Ready"}

First(S) == CHOOSE k \in S : \A l \in S : k <= l

\* The slot the round-robin search settles on; cur when it finds none.
Pick(st, cur) ==
    LET found == ReadyAt(st, cur)
    IN  IF found = {} THEN cur ELSE (cur + First(found)) % MaxTasks

\* Mutant of Schedule: TASKS[cur].rsp is not saved.
ScheduleUnsaved(context) ==
    LET queued == Requeue(state, current)
        next == Pick(queued, current)
    IN  /\ rsp' = rsp
        /\ state' = [queued EXCEPT ![next] = "Running"]
        /\ current' = next
        /\ cpu' = IF next = current THEN context ELSE rsp[next]
        /\ waited' = [s \in Slots |->
                        IF s \in {current, next} \/ queued[s] = "Free"
                        THEN 0 ELSE waited[s] + 1]

\* schedule(current_rsp): save, requeue, search, mark Running, return rsp.
Schedule(context) ==
    LET saved == [rsp EXCEPT ![current] = context]
        queued == Requeue(state, current)
        next == Pick(queued, current)
    IN  /\ rsp' = saved
        /\ state' = [queued EXCEPT ![next] = "Running"]
        /\ current' = next
        /\ cpu' = saved[next]
        /\ waited' = [s \in Slots |->
                        IF s \in {current, next} \/ queued[s] = "Free"
                        THEN 0 ELSE waited[s] + 1]

\* Mutant of Tick: the counter does not wrap.
TickUnbounded == ticks' = ticks + 1

\* timer::tick
Tick == ticks' = (ticks + 1) % TickMod

\* irq0 and timer_handler.  eoi(0) acknowledges the controller before the
\* stack is switched, so the next interrupt can be delivered in any task.
TimerIrq ==
    /\ iflag
    /\ Tick
    /\ Schedule(cpu)
    /\ UNCHANGED <<iflag, pc, i, row, result, progress>>

-----------------------------------------------------------------------------
(***************************************************************************)
(* Steps of the tasks.  Each moves the executing context on by one.        *)
(***************************************************************************)

Advance ==
    LET p == (cpu.at + 1) % PosMod
    IN  /\ cpu' = [cpu EXCEPT !.at = p]
        /\ progress' = [progress EXCEPT ![cpu.stack] = p]

\* Mutant of Cli: interrupts stay as they are.
CliForgotten == iflag' = iflag

\* arch::disable_interrupts and arch::enable_interrupts
Cli == iflag' = FALSE
Sti == iflag' = TRUE

\* Code outside spawn and print_tasks: the shell's other work, test_task.
TaskStep ==
    /\ cpu.stack \in Slots
    /\ cpu.stack = 0 => pc = "idle"
    /\ Advance
    /\ UNCHANGED <<state, rsp, current, iflag, ticks, pc, i, row, result,
                   waited>>

\* A step of the shell from pc = from to pc = to.
ShellAt(from, to) ==
    /\ cpu.stack = 0
    /\ pc = from
    /\ pc' = to
    /\ Advance
    /\ UNCHANGED <<current, ticks, waited>>

\* Mutant of SpawnBegin: the search skips slot 1.
SpawnBeginLate ==
    /\ ShellAt("idle", "scan")
    /\ Cli
    /\ i' = 2
    /\ UNCHANGED <<state, rsp, row, result>>

SpawnBegin ==
    /\ ShellAt("idle", "scan")
    /\ Cli
    /\ i' = 1
    /\ UNCHANGED <<state, rsp, row, result>>

SpawnSkip ==
    /\ ShellAt("scan", "scan")
    /\ i < MaxTasks
    /\ state[i] # "Free"
    /\ i' = i + 1
    /\ UNCHANGED <<state, rsp, iflag, row, result>>

\* The initial iretq frame, at the top of the slot's own stack.
InitialFrame(s) == [stack |-> s, at |-> 0]

SpawnFrame ==
    /\ ShellAt("scan", "publish")
    /\ i < MaxTasks
    /\ state[i] = "Free"
    /\ rsp' = [rsp EXCEPT ![i] = InitialFrame(i)]
    /\ UNCHANGED <<state, iflag, i, row, result>>

SpawnPublish ==
    /\ ShellAt("publish", "spawned")
    /\ state' = [state EXCEPT ![i] = "Ready"]
    /\ UNCHANGED <<rsp, iflag, i, row, result>>

SpawnReturn ==
    /\ ShellAt("spawned", "idle")
    /\ Sti
    /\ result' = i
    /\ UNCHANGED <<state, rsp, i, row>>

\* Mutant of SpawnFull: the failing path leaves interrupts off.
SpawnFullNoSti ==
    /\ ShellAt("scan", "idle")
    /\ i >= MaxTasks
    /\ result' = -1
    /\ UNCHANGED <<state, rsp, iflag, i, row>>

SpawnFull ==
    /\ ShellAt("scan", "idle")
    /\ i >= MaxTasks
    /\ Sti
    /\ result' = -1
    /\ UNCHANGED <<state, rsp, i, row>>

PsBegin ==
    /\ ShellAt("idle", "ps_state")
    /\ Cli
    /\ i' = 0
    /\ UNCHANGED <<state, rsp, row, result>>

\* The row notes where the listed task had got to when its state was read.
PsReadState ==
    /\ ShellAt("ps_state", "ps_rsp")
    /\ i < MaxTasks
    /\ row' = [slot |-> i, state |-> state[i], rsp |-> NoContext,
               seen |-> progress[i]]
    /\ UNCHANGED <<state, rsp, iflag, i, result>>

PsReadRsp ==
    /\ ShellAt("ps_rsp", "ps_print")
    /\ row' = [row EXCEPT !.rsp = rsp[i]]
    /\ Sti
    /\ UNCHANGED <<state, rsp, i, result>>

\* The row is printed with interrupts on; then they go off for the next.
PsPrint ==
    /\ ShellAt("ps_print", "ps_state")
    /\ Cli
    /\ i' = i + 1
    /\ UNCHANGED <<state, rsp, row, result>>

PsEnd ==
    /\ ShellAt("ps_state", "idle")
    /\ i >= MaxTasks
    /\ Sti
    /\ UNCHANGED <<state, rsp, i, row, result>>

ShellStep ==
    \/ SpawnBegin \/ SpawnSkip \/ SpawnFrame \/ SpawnPublish
    \/ SpawnReturn \/ SpawnFull
    \/ PsBegin \/ PsReadState \/ PsReadRsp \/ PsPrint \/ PsEnd

Next == TimerIrq \/ TaskStep \/ ShellStep

Spec == Init /\ [][Next]_vars

-----------------------------------------------------------------------------
(***************************************************************************)
(* Fairness.  The PIT raises IRQ0 every millisecond and the PIC latches    *)
(* it, so an interrupt held off by cli is delivered after the next sti:    *)
(* strong fairness of TimerIrq.  A time slice is long compared with one    *)
(* table access, so a shell that is scheduled again and again gets its     *)
(* next access done: strong fairness of the steps inside a call.           *)
(***************************************************************************)
InCall == pc # "idle" /\ ShellStep

Fairness == SF_vars(TimerIrq) /\ SF_vars(InCall)

FairSpec == Spec /\ Fairness

-----------------------------------------------------------------------------
Live(s) == state[s] # "Free"

\* Type correctness of the task table, the CPU and the shell's locals.
TypeOK ==
    /\ state \in [Slots -> {"Free", "Ready", "Running"}]
    /\ rsp \in [Slots -> Contexts]
    /\ current \in Slots
    /\ cpu \in Contexts
    /\ iflag \in BOOLEAN
    /\ ticks \in 0 .. TickMod - 1
    /\ pc \in PCs
    /\ i \in 0 .. MaxTasks
    /\ row \in [slot : Slots, state : {"Free", "Ready", "Running"},
                rsp : Contexts, seen : Positions]
    /\ result \in Slots \cup {-1}
    /\ progress \in [Slots -> Positions]
    /\ waited \in [Slots -> Nat]

\* No context is lost, duplicated or rolled back by schedule / spawn: the
\* CPU executes the current task exactly where it left off, and every other
\* live task's saved rsp is on its own stack, exactly where it left off.
ContextsIntact ==
    /\ cpu = [stack |-> current, at |-> progress[current]]
    /\ \A s \in Slots :
          Live(s) /\ s # current
             => rsp[s] = [stack |-> s, at |-> progress[s]]

\* CURRENT and the states of the table agree: a Running slot is the current
\* one, and the current one is live (Ready only before the first tick).
OneRunning ==
    /\ \A s \in Slots : state[s] = "Running" => s = current
    /\ Live(current)

\* "accessed only with interrupts disabled to prevent races with timer IRQ"
\* (scheduler.rs:35): while spawn or print_tasks is between its accesses to
\* TASKS, interrupts are off and the shell is the current task; and they are
\* on again whenever the shell is outside those stretches.
TableGuarded ==
    /\ pc \in Critical => ~iflag /\ current = 0
    /\ pc \notin Critical => iflag

\* A row of print_tasks describes one moment: the state and the rsp it shows
\* belong together.  As the shell prints it, no other slot can be Running,
\* and a live slot's rsp is that slot's context when its state was read.
RowCoherent ==
    pc = "ps_print" =>
        /\ row.state = "Running" => row.slot = 0
        /\ row.state # "Free" /\ row.slot # 0
              => row.rsp = [stack |-> row.slot, at |-> row.seen]

\* spawn takes the lowest free slot, so the live slots are an initial
\* segment of the table, and it fails only when the table is full.
NoHoles ==
    /\ \A s, t \in Slots : s < t /\ Live(t) => Live(s)
    /\ result = -1 => \A s \in Slots : Live(s)

\* Round robin: a live task is passed over by at most MAX_TASKS - 2 timer
\* interrupts before it gets the CPU.
BoundedWait ==
    \A s \in Slots : Live(s) /\ s # current => waited[s] <= MaxTasks - 2

\* A slot that was handed to a task is never taken away from it: neither a
\* preemption nor a later spawn frees a live slot.
NeverFreed == [][\A s \in Slots : Live(s) => Live(s)']_vars

\* Every live task runs again and again, whatever the shell is doing.
NoStarvation == \A s \in Slots : Live(s) ~> cpu.stack = s

-----------------------------------------------------------------------------
(***************************************************************************)
(* The strengthening under which the invariants above are inductive.       *)
(***************************************************************************)

\* How many places after a the slot b comes in round-robin order (1 for the
\* next slot, MaxTasks for a itself).
Dist(a, b) == IF b > a THEN b - a ELSE MaxTasks + b - a

\* Where spawn and print_tasks are in the table, and what they know of it.
ShellLocals ==
    /\ pc = "scan" => i >= 1 /\ \A s \in Slots : s < i => Live(s)
    /\ pc \in {"publish", "spawned"} => i \in 1 .. MaxTasks - 1
    /\ pc = "publish" => /\ state[i] = "Free"
                         /\ rsp[i] = InitialFrame(i)
                         /\ \A s \in Slots : s < i => Live(s)
    /\ pc \in {"ps_rsp", "ps_print"} => i < MaxTasks /\ row.slot = i
    /\ pc = "ps_rsp" => /\ row.state = state[i]
                        /\ i # 0 => row.seen = progress[i]

\* A free slot has not run, and nobody has waited for it.
FreshSlots == \A s \in Slots : ~Live(s) => progress[s] = 0 /\ waited[s] = 0

\* The interrupts a task has waited and the places it still has to wait
\* never add up to more than a round.
WaitBudget ==
    \A s \in Slots : Live(s) /\ s # current
                        => waited[s] + Dist(current, s) <= MaxTasks - 1

\* The inductive invariant.
Inv == /\ TypeOK /\ ContextsIntact /\ OneRunning /\ TableGuarded
       /\ RowCoherent /\ NoHoles
       /\ ShellLocals /\ FreshSlots /\ WaitBudget
=============================================================================
