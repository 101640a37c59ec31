-------------------------- MODULE SchedulerProofs --------------------------
(***************************************************************************)
(* Safety of the scheduler for every size of the task table.               *)
(***************************************************************************)
EXTENDS Scheduler, WellFoundedInduction, TLAPS

-----------------------------------------------------------------------------
(***************************************************************************)
(* Lemmas about the round-robin search.                                    *)
(***************************************************************************)

\* Remainders below twice the modulus.
LEMMA ModWrap ==
    ASSUME NEW n \in Nat \ {0}, NEW x \in 0 .. 2 * n - 1
    PROVE  /\ x < n => x % n = x
           /\ x >= n => x % n = x - n
<1>1. ASSUME x < n PROVE x % n = x
  BY <1>1
<1>2. ASSUME x >= n PROVE x % n = x - n
  <2>1. x - n \in 0 .. n - 1
    BY <1>2
  <2>2. x % n = (x - n) % n
    BY <2>1, <1>2
  <2>. QED BY <2>1, <2>2, <1>2
<1>. QED BY <1>1, <1>2

\* The index arithmetic of schedule, (cur + k) % MAX_TASKS with k at most
\* MAX_TASKS, wraps at most once.
LEMMA Wrap ==
    ASSUME NEW a \in Slots, NEW k \in 1 .. MaxTasks
    PROVE  /\ a + k < MaxTasks => (a + k) % MaxTasks = a + k
           /\ a + k >= MaxTasks => (a + k) % MaxTasks = a + k - MaxTasks
<1>1. MaxTasks \in Nat \ {0} /\ a + k \in 0 .. 2 * MaxTasks - 1
  BY SchedulerAssumption DEF Slots
<1>2. ASSUME NEW x \in 0 .. 2 * MaxTasks - 1
      PROVE  /\ x < MaxTasks => x % MaxTasks = x
             /\ x >= MaxTasks => x % MaxTasks = x - MaxTasks
  BY <1>1, ModWrap
<1>3. PICK x \in 0 .. 2 * MaxTasks - 1 : x = a + k
  BY <1>1
<1>4. /\ x < MaxTasks => x % MaxTasks = x
      /\ x >= MaxTasks => x % MaxTasks = x - MaxTasks
  BY <1>2
<1>. QED BY <1>1, <1>3, <1>4, SchedulerAssumption DEF Slots

\* A non-empty set of naturals has a least element, so First is defined.
LEMMA FirstIsLeast ==
    ASSUME NEW S \in SUBSET Nat, S # {}
    PROVE  First(S) \in S /\ \A l \in S : First(S) <= l
<1>. DEFINE LT == {ss \in Nat \X Nat : ss[1] < ss[2]}
<1>1. IsWellFoundedOn(LT, Nat)
  BY NatLessThanWellFounded DEF OpToRel
<1>2. PICK k \in S : \A l \in S : ~(<<l, k>> \in LT)
  <2>. HIDE DEF LT
  <2>. QED BY <1>1, WFMin
<1>3. ASSUME NEW l \in S  PROVE  k <= l
  <2>1. l \in Nat /\ k \in Nat
    OBVIOUS
  <2>2. CASE l < k
    <3>1. <<l, k>> \in LT
      BY <2>1, <2>2
    <3>. QED BY <3>1, <1>2
  <2>. QED BY <2>1, <2>2
<1>. QED BY <1>3 DEF First

\* Dist(a, b) is the k at which the search from a looks at b.
LEMMA DistFacts ==
    ASSUME NEW a \in Slots, NEW b \in Slots
    PROVE  /\ Dist(a, b) \in 1 .. MaxTasks
           /\ (a + Dist(a, b)) % MaxTasks = b
<1>1. Dist(a, b) \in 1 .. MaxTasks
  BY SchedulerAssumption DEF Dist, Slots
<1>2. /\ a + Dist(a, b) < MaxTasks
            => (a + Dist(a, b)) % MaxTasks = a + Dist(a, b)
      /\ a + Dist(a, b) >= MaxTasks
            => (a + Dist(a, b)) % MaxTasks = a + Dist(a, b) - MaxTasks
  BY <1>1, Wrap, Zenon
<1>. QED BY <1>1, <1>2, SchedulerAssumption DEF Dist, Slots

\* And the other way round: k places after a comes a slot at distance k.
LEMMA DistInverse ==
    ASSUME NEW a \in Slots, NEW k \in 1 .. MaxTasks
    PROVE  /\ (a + k) % MaxTasks \in Slots
           /\ Dist(a, (a + k) % MaxTasks) = k
<1>1. /\ a + k < MaxTasks => (a + k) % MaxTasks = a + k
      /\ a + k >= MaxTasks => (a + k) % MaxTasks = a + k - MaxTasks
  BY Wrap
<1>2. CASE a + k < MaxTasks
  BY <1>1, <1>2, SchedulerAssumption DEF Dist, Slots
<1>3. CASE a + k >= MaxTasks
  BY <1>1, <1>3, SchedulerAssumption DEF Dist, Slots
<1>. QED BY <1>2, <1>3, SchedulerAssumption DEF Slots

\* The search of schedule finds a Ready slot whenever the outgoing task is
\* Ready, and the one it finds is the nearest in round-robin order.
LEMMA PickIsNearest ==
    ASSUME NEW st, NEW cur \in Slots, st[cur] = "Ready"
    PROVE  /\ Pick(st, cur) \in Slots
           /\ st[Pick(st, cur)] = "Ready"
           /\ \A s \in Slots :
                 st[s] = "Ready" => Dist(cur, Pick(st, cur)) <= Dist(cur, s)
<1>. DEFINE found == ReadyAt(st, cur)
            k == First(found)
<1>1. \A s \in Slots : st[s] = "Ready" => Dist(cur, s) \in found
  BY DistFacts DEF ReadyAt
<1>2. found # {}
  BY <1>1
<1>3. found \in SUBSET Nat /\ found \subseteq 1 .. MaxTasks
  BY SchedulerAssumption DEF ReadyAt
<1>4. k \in found /\ \A l \in found : k <= l
  <2>. HIDE DEF found
  <2>. QED BY <1>2, <1>3, FirstIsLeast
<1>5. Pick(st, cur) = (cur + k) % MaxTasks
  BY <1>2 DEF Pick
<1>6. k \in 1 .. MaxTasks /\ st[(cur + k) % MaxTasks] = "Ready"
  BY <1>4 DEF ReadyAt
<1>7. Pick(st, cur) \in Slots /\ Dist(cur, Pick(st, cur)) = k
  BY <1>5, <1>6, DistInverse
<1>8. \A s \in Slots : st[s] = "Ready" => k <= Dist(cur, s)
  BY <1>1, <1>4
<1>. HIDE DEF k, found
<1>. QED BY <1>5, <1>6, <1>7, <1>8

\* Handing the CPU from cur to p, a slot that is no further than s, brings
\* it closer to s.
LEMMA DistShrinks ==
    ASSUME NEW cur \in Slots, NEW p \in Slots, NEW s \in Slots,
           s # p, Dist(cur, p) <= Dist(cur, s)
    PROVE  Dist(p, s) + 1 <= Dist(cur, s)
BY SchedulerAssumption DEF Dist, Slots

-----------------------------------------------------------------------------
(***************************************************************************)
(* The inductive invariant.                                                *)
(***************************************************************************)

\* Inv holds when kernel_main enables interrupts and enters the shell.
LEMMA InitInv == Init => Inv
<1>. SUFFICES ASSUME Init PROVE Inv
  OBVIOUS
<1>. USE SchedulerAssumption DEF Init, Slots
<1>1. TypeOK
  BY DEF TypeOK, Contexts, NoContext, NoRow, NoStack, Positions, PCs, Critical
<1>2. ContextsIntact /\ OneRunning /\ NoHoles /\ FreshSlots
  BY DEF ContextsIntact, OneRunning, NoHoles, FreshSlots, Live
<1>3. TableGuarded /\ RowCoherent /\ ShellLocals
  BY DEF TableGuarded, RowCoherent, ShellLocals, Critical
<1>4. WaitBudget
  BY DEF WaitBudget, Live
<1>. QED BY <1>1, <1>2, <1>3, <1>4 DEF Inv

\* What Advance does to the executing task: its own position moves, its
\* context stays its own, and nobody else's position changes.
LEMMA AdvanceFacts ==
    ASSUME Inv, Advance
    PROVE  /\ cpu' \in Contexts
           /\ progress' \in [Slots -> Positions]
           /\ cpu' = [stack |-> current, at |-> progress'[current]]
           /\ \A s \in Slots : s # current => progress'[s] = progress[s]
<1>. USE SchedulerAssumption
<1>1. cpu = [stack |-> current, at |-> progress[current]] /\ current \in Slots
      /\ progress \in [Slots -> Positions]
  BY DEF Inv, ContextsIntact, TypeOK
<1>2. PICK p \in Positions : /\ cpu' = [cpu EXCEPT !.at = p]
                             /\ progress' = [progress EXCEPT ![current] = p]
  <2>1. (cpu.at + 1) % PosMod \in Positions
    BY <1>1 DEF Positions
  <2>. QED BY <1>1, <2>1 DEF Advance
<1>. QED BY <1>1, <1>2 DEF Contexts

\* The timer interrupt: schedule requeues the current task, hands the CPU to
\* the nearest Ready one and changes no task's liveness.
LEMMA TimerInv ==
    ASSUME Inv, TimerIrq
    PROVE  Inv'
<1>. DEFINE q == Requeue(state, current)
            p == Pick(q, current)
<1>. USE SchedulerAssumption
<1>1. /\ TypeOK /\ ContextsIntact /\ OneRunning /\ TableGuarded
      /\ RowCoherent /\ NoHoles /\ ShellLocals /\ FreshSlots /\ WaitBudget
  BY DEF Inv
<1>2. /\ q \in [Slots -> {"Free", "Ready"}]
      /\ q[current] = "Ready"
      /\ \A s \in Slots : q[s] = "Free" <=> ~Live(s)
  BY <1>1 DEF TypeOK, OneRunning, Live, Requeue
<1>3. current \in Slots /\ iflag
  BY <1>1 DEF TypeOK, TimerIrq
<1>. HIDE DEF q
<1>4. /\ p \in Slots
      /\ q[p] = "Ready"
      /\ \A s \in Slots : q[s] = "Ready" => Dist(current, p) <= Dist(current, s)
  BY <1>2, <1>3, PickIsNearest
<1>. HIDE DEF p
<1>5. /\ rsp' = [rsp EXCEPT ![current] = cpu]
      /\ state' = [q EXCEPT ![p] = "Running"]
      /\ current' = p
      /\ cpu' = rsp'[p]
      /\ waited' = [s \in Slots |->
                      IF s \in {current, p} \/ q[s] = "Free"
                      THEN 0 ELSE waited[s] + 1]
      /\ UNCHANGED <<iflag, pc, i, row, result, progress>>
  BY DEF TimerIrq, Schedule, q, p
<1>6. /\ state' \in [Slots -> {"Free", "Ready", "Running"}]
      /\ \A s \in Slots : Live(s)' <=> Live(s)
      /\ \A s \in Slots : state'[s] = "Running" <=> s = p
  BY <1>2, <1>4, <1>5 DEF Live
<1>7. ticks' \in 0 .. TickMod - 1
  BY <1>1 DEF TimerIrq, Tick, TypeOK
<1>8. TypeOK'
  <2>1. rsp' \in [Slots -> Contexts] /\ cpu' \in Contexts
    BY <1>1, <1>3, <1>4, <1>5 DEF TypeOK
  <2>2. waited' \in [Slots -> Nat]
    BY <1>1, <1>5 DEF TypeOK
  <2>. QED BY <1>1, <1>4, <1>5, <1>6, <1>7, <2>1, <2>2 DEF TypeOK
<1>9. ContextsIntact'
  <2>1. \A s \in Slots : Live(s) => rsp'[s] = [stack |-> s, at |-> progress[s]]
    BY <1>1, <1>3, <1>5 DEF ContextsIntact, TypeOK
  <2>2. Live(p)
    BY <1>2, <1>4
  <2>. QED BY <2>1, <2>2, <1>4, <1>5, <1>6 DEF ContextsIntact
<1>10. OneRunning' /\ NoHoles' /\ TableGuarded' /\ RowCoherent'
  <2>1. pc \notin Critical
    BY <1>1, <1>3 DEF TableGuarded
  <2>2. OneRunning' /\ NoHoles'
    BY <1>1, <1>2, <1>4, <1>5, <1>6 DEF OneRunning, NoHoles
  <2>. QED BY <1>1, <2>1, <2>2, <1>5 DEF TableGuarded, RowCoherent
<1>11. ShellLocals'
  BY <1>1, <1>3, <1>5 DEF ShellLocals, TableGuarded, Critical
<1>12. FreshSlots'
  BY <1>1, <1>2, <1>5, <1>6 DEF FreshSlots
<1>13. WaitBudget'
  <2>. SUFFICES ASSUME NEW s \in Slots, Live(s)', s # p
                PROVE  waited'[s] + Dist(p, s) <= MaxTasks - 1
    BY <1>5 DEF WaitBudget, Dist
  <2>1. q[s] = "Ready"
    BY <1>2, <1>6
  <2>2. Dist(p, s) + 1 <= Dist(current, s)
    BY <2>1, <1>3, <1>4, DistShrinks
  <2>3. Dist(current, s) \in 1 .. MaxTasks /\ Dist(p, s) \in 1 .. MaxTasks
    BY <1>3, <1>4, DistFacts
  <2>4. CASE s = current
    BY <2>2, <2>3, <2>4, <1>5
  <2>5. CASE s # current
    <3>1. waited[s] + Dist(current, s) <= MaxTasks - 1 /\ waited[s] \in Nat
      BY <1>1, <1>6, <2>5 DEF WaitBudget, TypeOK
    <3>2. waited'[s] = waited[s] + 1
      BY <2>1, <2>5, <1>5
    <3>. QED BY <3>1, <3>2, <2>2, <2>3
  <2>. QED BY <2>4, <2>5
<1>. QED BY <1>8, <1>9, <1>10, <1>11, <1>12, <1>13 DEF Inv

\* A step of a task outside spawn and print_tasks.
LEMMA TaskStepInv ==
    ASSUME Inv, TaskStep
    PROVE  Inv'
<1>. USE SchedulerAssumption
<1>1. /\ TypeOK /\ ContextsIntact /\ OneRunning /\ TableGuarded
      /\ RowCoherent /\ NoHoles /\ ShellLocals /\ FreshSlots /\ WaitBudget
  BY DEF Inv
<1>2. /\ cpu' \in Contexts
      /\ progress' \in [Slots -> Positions]
      /\ cpu' = [stack |-> current, at |-> progress'[current]]
      /\ \A s \in Slots : s # current => progress'[s] = progress[s]
  BY AdvanceFacts DEF TaskStep
<1>3. UNCHANGED <<state, rsp, current, iflag, ticks, pc, i, row, result, waited>>
  BY DEF TaskStep
<1>4. cpu.stack = current /\ (current = 0 => pc = "idle")
  BY <1>1 DEF ContextsIntact, TaskStep
<1>5. pc # "ps_rsp"
  BY <1>1, <1>4 DEF TableGuarded, Critical
<1>6. TypeOK'
  BY <1>1, <1>2, <1>3 DEF TypeOK
<1>7. ContextsIntact' /\ OneRunning' /\ NoHoles' /\ FreshSlots'
  BY <1>1, <1>2, <1>3
     DEF ContextsIntact, OneRunning, NoHoles, FreshSlots, Live
<1>8. TableGuarded' /\ RowCoherent' /\ WaitBudget'
  BY <1>1, <1>3 DEF TableGuarded, RowCoherent, WaitBudget, Live, Dist
<1>9. ShellLocals'
  BY <1>1, <1>3, <1>5 DEF ShellLocals, Live
<1>. QED BY <1>6, <1>7, <1>8, <1>9 DEF Inv

\* What every step of spawn and print_tasks has in common.
LEMMA ShellFacts ==
    ASSUME Inv, NEW from, NEW to, ShellAt(from, to)
    PROVE  /\ current = 0 /\ pc = from /\ pc' = to
           /\ UNCHANGED <<current, ticks, waited>>
           /\ cpu' \in Contexts
           /\ progress' \in [Slots -> Positions]
           /\ cpu' = [stack |-> current', at |-> progress'[current']]
           /\ \A s \in Slots : s # 0 => progress'[s] = progress[s]
<1>1. cpu.stack = current
  BY DEF Inv, ContextsIntact
<1>. QED BY <1>1, AdvanceFacts DEF ShellAt

\* The parts of Inv that a step of the shell cannot disturb as long as it
\* leaves the states and the rsp of live slots alone.
LEMMA ShellFrame ==
    ASSUME Inv, NEW from, NEW to, ShellAt(from, to), UNCHANGED state,
           rsp' \in [Slots -> Contexts],
           \A s \in Slots : Live(s) => rsp'[s] = rsp[s]
    PROVE  ContextsIntact' /\ OneRunning' /\ FreshSlots' /\ WaitBudget'
<1>. USE SchedulerAssumption
<1>1. TypeOK /\ ContextsIntact /\ OneRunning /\ FreshSlots /\ WaitBudget
  BY DEF Inv
<1>2. /\ current = 0
      /\ UNCHANGED <<current, waited>>
      /\ cpu' = [stack |-> current', at |-> progress'[current']]
      /\ \A s \in Slots : s # 0 => progress'[s] = progress[s]
  BY ShellFacts
<1>3. ContextsIntact' /\ OneRunning' /\ FreshSlots'
  BY <1>1, <1>2 DEF ContextsIntact, OneRunning, FreshSlots, Live
<1>4. WaitBudget'
  BY <1>1, <1>2 DEF WaitBudget, Live, Dist
<1>. QED BY <1>3, <1>4

\* The steps of spawn.
LEMMA SpawnInv ==
    ASSUME Inv,
           \/ SpawnBegin \/ SpawnSkip \/ SpawnFrame
           \/ SpawnPublish \/ SpawnReturn \/ SpawnFull
    PROVE  Inv'
<1>. USE SchedulerAssumption
<1>1. /\ TypeOK /\ ContextsIntact /\ OneRunning /\ TableGuarded
      /\ RowCoherent /\ NoHoles /\ ShellLocals /\ FreshSlots /\ WaitBudget
  BY DEF Inv
<1>2. CASE SpawnBegin
  <2>1. /\ current = 0 /\ pc = "idle" /\ pc' = "scan"
        /\ UNCHANGED <<current, ticks, waited>>
        /\ cpu' \in Contexts /\ progress' \in [Slots -> Positions]
    BY <1>2, ShellFacts DEF SpawnBegin
  <2>2. i' = 1 /\ iflag' = FALSE /\ UNCHANGED <<state, rsp, row, result>>
    BY <1>2 DEF SpawnBegin, Cli
  <2>3. TypeOK'
    <3>1. i' \in 0 .. MaxTasks /\ pc' \in PCs
      BY <2>1, <2>2 DEF PCs, Critical
    <3>. QED BY <1>1, <2>1, <2>2, <3>1 DEF TypeOK
  <2>4. ContextsIntact' /\ OneRunning' /\ FreshSlots' /\ WaitBudget'
    BY <1>1, <1>2, <2>2, ShellFrame DEF SpawnBegin, TypeOK
  <2>5. TableGuarded' /\ RowCoherent' /\ NoHoles' /\ ShellLocals'
    BY <1>1, <2>1, <2>2 DEF TableGuarded, RowCoherent, NoHoles, ShellLocals,
       Critical, Live, OneRunning, Slots
  <2>. QED BY <2>3, <2>4, <2>5 DEF Inv
<1>3. CASE SpawnSkip
  <2>1. /\ current = 0 /\ pc = "scan" /\ pc' = "scan"
        /\ UNCHANGED <<current, ticks, waited>>
        /\ cpu' \in Contexts /\ progress' \in [Slots -> Positions]
    BY <1>3, ShellFacts DEF SpawnSkip
  <2>2. /\ i < MaxTasks /\ Live(i) /\ i' = i + 1
        /\ UNCHANGED <<state, rsp, iflag, row, result>>
    BY <1>3 DEF SpawnSkip, Live
  <2>3. TypeOK'
    BY <1>1, <2>1, <2>2 DEF TypeOK
  <2>4. ContextsIntact' /\ OneRunning' /\ FreshSlots' /\ WaitBudget'
    BY <1>1, <1>3, <2>2, ShellFrame DEF SpawnSkip, TypeOK
  <2>5. TableGuarded' /\ RowCoherent' /\ NoHoles'
    BY <1>1, <2>1, <2>2 DEF TableGuarded, RowCoherent, NoHoles, Live
  <2>6. ShellLocals'
    BY <1>1, <2>1, <2>2 DEF ShellLocals, Live, TypeOK, Slots
  <2>. QED BY <2>3, <2>4, <2>5, <2>6 DEF Inv
<1>4. CASE SpawnFrame
  <2>1. /\ current = 0 /\ pc = "scan" /\ pc' = "publish"
        /\ UNCHANGED <<current, ticks, waited>>
        /\ cpu' \in Contexts /\ progress' \in [Slots -> Positions]
    BY <1>4, ShellFacts DEF SpawnFrame
  <2>2. /\ i < MaxTasks /\ ~Live(i) /\ rsp' = [rsp EXCEPT ![i] = InitialFrame(i)]
        /\ UNCHANGED <<state, iflag, i, row, result>>
    BY <1>4 DEF SpawnFrame, Live
  <2>3. i \in 1 .. MaxTasks - 1 /\ i \in Slots
    BY <1>1, <2>1, <2>2 DEF ShellLocals, TypeOK, Slots
  <2>4. rsp' \in [Slots -> Contexts]
    BY <1>1, <2>2, <2>3 DEF TypeOK, InitialFrame, Contexts, Positions
  <2>5. TypeOK'
    BY <1>1, <2>1, <2>2, <2>4 DEF TypeOK, PCs, Critical
  <2>6. ContextsIntact' /\ OneRunning' /\ FreshSlots' /\ WaitBudget'
    <3>1. \A s \in Slots : Live(s) => rsp'[s] = rsp[s]
      BY <1>1, <2>2, <2>3 DEF TypeOK
    <3>2. ShellAt("scan", "publish") /\ UNCHANGED state
      BY <1>4 DEF SpawnFrame
    <3>. QED BY <3>1, <3>2, <2>4, ShellFrame
  <2>7. TableGuarded' /\ RowCoherent' /\ NoHoles'
    BY <1>1, <2>1, <2>2 DEF TableGuarded, RowCoherent, NoHoles, Live, Critical
  <2>8. ShellLocals'
    BY <1>1, <2>1, <2>2, <2>3 DEF ShellLocals, Live, TypeOK, Slots
  <2>. QED BY <2>5, <2>6, <2>7, <2>8 DEF Inv
<1>5. CASE SpawnPublish
  <2>1. /\ current = 0 /\ pc = "publish" /\ pc' = "spawned"
        /\ UNCHANGED <<current, ticks, waited>>
        /\ cpu' \in Contexts /\ progress' \in [Slots -> Positions]
        /\ cpu' = [stack |-> current', at |-> progress'[current']]
        /\ \A s \in Slots : s # 0 => progress'[s] = progress[s]
    BY <1>5, ShellFacts DEF SpawnPublish
  <2>2. /\ state' = [state EXCEPT ![i] = "Ready"]
        /\ UNCHANGED <<rsp, iflag, i, row, result>>
    BY <1>5 DEF SpawnPublish
  <2>3. /\ i \in 1 .. MaxTasks - 1 /\ i \in Slots /\ state[i] = "Free"
        /\ rsp[i] = InitialFrame(i)
        /\ \A s \in Slots : s < i => Live(s)
    BY <1>1, <2>1 DEF ShellLocals, Slots
  <2>4. TypeOK'
    BY <1>1, <2>1, <2>2, <2>3 DEF TypeOK, PCs, Critical
  <2>5. /\ Live(i)'
        /\ \A s \in Slots : s # i => state'[s] = state[s] /\ (Live(s)' <=> Live(s))
    BY <1>1, <2>2, <2>3 DEF TypeOK, Live
  <2>6. progress[i] = 0 /\ waited[i] = 0
    BY <1>1, <2>3 DEF FreshSlots, Live
  <2>7. ContextsIntact'
    BY <1>1, <2>1, <2>2, <2>3, <2>5, <2>6 DEF ContextsIntact, InitialFrame
  <2>8. OneRunning' /\ FreshSlots'
    <3>1. state'[i] = "Ready"
      BY <1>1, <2>2, <2>3 DEF TypeOK
    <3>2. 0 \in Slots /\ i # 0
      BY <2>3 DEF Slots
    <3>. QED BY <1>1, <2>1, <2>3, <2>5, <3>1, <3>2 DEF OneRunning, FreshSlots, Live
  <2>9. WaitBudget'
    <3>1. waited[i] + Dist(0, i) <= MaxTasks - 1
      BY <2>3, <2>6 DEF Dist
    <3>. QED BY <1>1, <2>1, <2>5, <3>1 DEF WaitBudget, Dist
  <2>10. NoHoles'
    <3>1. ASSUME NEW s \in Slots, NEW t \in Slots, s < t, Live(t)'
          PROVE  Live(s)'
      <4>1. CASE t = i
        BY <2>3, <2>5, <3>1, <4>1 DEF Slots
      <4>2. CASE t # i
        <5>1. Live(s)
          BY <1>1, <2>5, <3>1, <4>2 DEF NoHoles
        <5>2. CASE s = i
          BY <2>2, <2>5, <5>2 DEF Live
        <5>3. CASE s # i
          BY <2>5, <5>1, <5>3
        <5>. QED BY <5>2, <5>3
      <4>. QED BY <4>1, <4>2
    <3>2. result' = -1 => \A s \in Slots : Live(s)'
      BY <1>1, <2>2, <2>5 DEF NoHoles
    <3>. QED BY <3>1, <3>2 DEF NoHoles
  <2>11. TableGuarded' /\ RowCoherent' /\ ShellLocals'
    BY <1>1, <2>1, <2>2, <2>3 DEF TableGuarded, RowCoherent, ShellLocals, Critical
  <2>. QED BY <2>4, <2>7, <2>8, <2>9, <2>10, <2>11 DEF Inv
<1>6. CASE SpawnReturn
  <2>1. /\ current = 0 /\ pc = "spawned" /\ pc' = "idle"
        /\ UNCHANGED <<current, ticks, waited>>
        /\ cpu' \in Contexts /\ progress' \in [Slots -> Positions]
    BY <1>6, ShellFacts DEF SpawnReturn
  <2>2. iflag' = TRUE /\ result' = i /\ UNCHANGED <<state, rsp, i, row>>
    BY <1>6 DEF SpawnReturn, Sti
  <2>3. i \in 1 .. MaxTasks - 1
    BY <1>1, <2>1 DEF ShellLocals
  <2>4. TypeOK'
    BY <1>1, <2>1, <2>2, <2>3 DEF TypeOK, PCs, Slots
  <2>5. ContextsIntact' /\ OneRunning' /\ FreshSlots' /\ WaitBudget'
    BY <1>1, <1>6, <2>2, ShellFrame DEF SpawnReturn, TypeOK
  <2>6. NoHoles'
    BY <1>1, <2>2, <2>3 DEF NoHoles, Live
  <2>7. TableGuarded' /\ RowCoherent' /\ ShellLocals'
    BY <2>1, <2>2 DEF TableGuarded, RowCoherent, ShellLocals, Critical
  <2>. QED BY <2>4, <2>5, <2>6, <2>7 DEF Inv
<1>7. CASE SpawnFull
  <2>1. /\ current = 0 /\ pc = "scan" /\ pc' = "idle"
        /\ UNCHANGED <<current, ticks, waited>>
        /\ cpu' \in Contexts /\ progress' \in [Slots -> Positions]
    BY <1>7, ShellFacts DEF SpawnFull
  <2>2. /\ i >= MaxTasks /\ iflag' = TRUE /\ result' = -1
        /\ UNCHANGED <<state, rsp, i, row>>
    BY <1>7 DEF SpawnFull, Sti
  <2>3. TypeOK'
    BY <1>1, <2>1, <2>2 DEF TypeOK, PCs
  <2>4. ContextsIntact' /\ OneRunning' /\ FreshSlots' /\ WaitBudget'
    BY <1>1, <1>7, <2>2, ShellFrame DEF SpawnFull, TypeOK
  <2>5. NoHoles'
    BY <1>1, <2>1, <2>2 DEF NoHoles, ShellLocals, Live, TypeOK, Slots
  <2>6. TableGuarded' /\ RowCoherent' /\ ShellLocals'
    BY <2>1, <2>2 DEF TableGuarded, RowCoherent, ShellLocals, Critical
  <2>. QED BY <2>3, <2>4, <2>5, <2>6 DEF Inv
<1>. QED BY <1>2, <1>3, <1>4, <1>5, <1>6, <1>7

\* The steps of print_tasks.
LEMMA PsInv ==
    ASSUME Inv, PsBegin \/ PsReadState \/ PsReadRsp \/ PsPrint \/ PsEnd
    PROVE  Inv'
<1>. USE SchedulerAssumption
<1>1. /\ TypeOK /\ ContextsIntact /\ OneRunning /\ TableGuarded
      /\ RowCoherent /\ NoHoles /\ ShellLocals /\ FreshSlots /\ WaitBudget
  BY DEF Inv
<1>2. UNCHANGED <<state, rsp, result>>
  BY DEF PsBegin, PsReadState, PsReadRsp, PsPrint, PsEnd
<1>3. PICK from, to : ShellAt(from, to)
  BY DEF PsBegin, PsReadState, PsReadRsp, PsPrint, PsEnd
<1>4. /\ current = 0 /\ UNCHANGED <<current, ticks, waited>>
      /\ cpu' \in Contexts /\ progress' \in [Slots -> Positions]
      /\ \A s \in Slots : s # 0 => progress'[s] = progress[s]
  BY <1>3, ShellFacts
<1>5. ContextsIntact' /\ OneRunning' /\ FreshSlots' /\ WaitBudget' /\ NoHoles'
  <2>1. ContextsIntact' /\ OneRunning' /\ FreshSlots' /\ WaitBudget'
    BY <1>1, <1>2, <1>3, ShellFrame DEF TypeOK
  <2>2. NoHoles'
    BY <1>1, <1>2 DEF NoHoles, Live
  <2>. QED BY <2>1, <2>2
<1>6. ASSUME i' \in 0 .. MaxTasks, pc' \in PCs, iflag' \in BOOLEAN,
             row' \in [slot : Slots, state : {"Free", "Ready", "Running"},
                       rsp : Contexts, seen : Positions]
      PROVE  TypeOK'
  BY <1>1, <1>2, <1>4, <1>6 DEF TypeOK
<1>7. CASE PsBegin
  <2>1. pc' = "ps_state" /\ iflag' = FALSE /\ i' = 0 /\ UNCHANGED row
    BY <1>7 DEF PsBegin, ShellAt, Cli
  <2>2. TypeOK'
    <3>1. i' \in 0 .. MaxTasks /\ pc' \in PCs
      BY <2>1 DEF PCs, Critical
    <3>2. iflag' \in BOOLEAN
      BY <2>1, Zenon
    <3>. QED BY <1>1, <1>6, <2>1, <3>1, <3>2 DEF TypeOK
  <2>3. TableGuarded' /\ RowCoherent' /\ ShellLocals'
    BY <1>4, <2>1 DEF TableGuarded, RowCoherent, ShellLocals, Critical
  <2>. QED BY <1>5, <2>2, <2>3 DEF Inv
<1>8. CASE PsReadState
  <2>1. /\ pc = "ps_state" /\ pc' = "ps_rsp" /\ i < MaxTasks
        /\ row' = [slot |-> i, state |-> state[i], rsp |-> NoContext,
                   seen |-> progress[i]]
        /\ UNCHANGED <<iflag, i>>
    BY <1>8 DEF PsReadState, ShellAt
  <2>2. i \in Slots /\ NoContext \in Contexts
    BY <1>1, <2>1 DEF TypeOK, Slots, NoContext, Contexts, Positions
  <2>3. TypeOK'
    BY <1>1, <1>6, <2>1, <2>2 DEF TypeOK, PCs, Critical
  <2>4. TableGuarded' /\ RowCoherent'
    BY <1>1, <1>4, <2>1 DEF TableGuarded, RowCoherent, Critical
  <2>5. ShellLocals'
    BY <1>2, <1>4, <2>1, <2>2 DEF ShellLocals
  <2>. QED BY <1>5, <2>3, <2>4, <2>5 DEF Inv
<1>9. CASE PsReadRsp
  <2>1. /\ pc = "ps_rsp" /\ pc' = "ps_print" /\ iflag' = TRUE
        /\ row' = [row EXCEPT !.rsp = rsp[i]]
        /\ UNCHANGED i
    BY <1>9 DEF PsReadRsp, ShellAt, Sti
  <2>2. /\ i \in Slots /\ row.slot = i /\ row.state = state[i]
        /\ i # 0 => row.seen = progress[i]
    BY <1>1, <2>1 DEF ShellLocals, TypeOK, Slots
  <2>3. /\ row'.slot = i /\ row'.state = state[i] /\ row'.rsp = rsp[i]
        /\ row'.seen = row.seen
    BY <1>1, <2>1, <2>2 DEF TypeOK
  <2>4. TypeOK'
    BY <1>1, <1>6, <2>1, <2>2 DEF TypeOK, PCs, Critical
  <2>5. TableGuarded' /\ ShellLocals'
    BY <1>1, <2>1, <2>2, <2>3 DEF TableGuarded, ShellLocals, Critical, TypeOK
  <2>6. RowCoherent'
    BY <1>1, <1>4, <2>2, <2>3 DEF RowCoherent, OneRunning, ContextsIntact, Live
  <2>. QED BY <1>5, <2>4, <2>5, <2>6 DEF Inv
<1>10. CASE PsPrint
  <2>1. /\ pc = "ps_print" /\ pc' = "ps_state" /\ iflag' = FALSE
        /\ i' = i + 1 /\ UNCHANGED row
    BY <1>10 DEF PsPrint, ShellAt, Cli
  <2>2. i < MaxTasks
    BY <1>1, <2>1 DEF ShellLocals
  <2>3. TypeOK'
    <3>1. i' \in 0 .. MaxTasks /\ pc' \in PCs
      BY <1>1, <2>1, <2>2 DEF TypeOK, PCs, Critical
    <3>2. iflag' \in BOOLEAN
      BY <2>1, Zenon
    <3>. QED BY <1>1, <1>6, <2>1, <3>1, <3>2 DEF TypeOK
  <2>4. TableGuarded' /\ RowCoherent' /\ ShellLocals'
    BY <1>4, <2>1 DEF TableGuarded, RowCoherent, ShellLocals, Critical
  <2>. QED BY <1>5, <2>3, <2>4 DEF Inv
<1>11. CASE PsEnd
  <2>1. pc' = "idle" /\ iflag' = TRUE /\ UNCHANGED <<i, row>>
    BY <1>11 DEF PsEnd, ShellAt, Sti
  <2>2. TypeOK'
    BY <1>1, <1>6, <2>1 DEF TypeOK, PCs, Critical
  <2>3. TableGuarded' /\ RowCoherent' /\ ShellLocals'
    BY <2>1 DEF TableGuarded, RowCoherent, ShellLocals, Critical
  <2>. QED BY <1>5, <2>2, <2>3 DEF Inv
<1>. QED BY <1>7, <1>8, <1>9, <1>10, <1>11

\* Inv is an invariant of the scheduler.
THEOREM Invariance == Spec => []Inv
<1>1. Init => Inv
  BY InitInv
<1>2. Inv /\ [Next]_vars => Inv'
  <2>. SUFFICES ASSUME Inv, [Next]_vars PROVE Inv'
    OBVIOUS
  <2>1. CASE TimerIrq
    BY <2>1, TimerInv
  <2>2. CASE TaskStep
    BY <2>2, TaskStepInv
  <2>3. CASE ShellStep
    BY <2>3, SpawnInv, PsInv DEF ShellStep
  <2>4. CASE UNCHANGED vars
    BY <2>4 DEF vars, Inv, TypeOK, ContextsIntact, OneRunning, TableGuarded,
       RowCoherent, NoHoles, ShellLocals, FreshSlots, WaitBudget, Live, Dist
  <2>. QED BY <2>1, <2>2, <2>3, <2>4 DEF Next
<1>. QED BY <1>1, <1>2, PTL DEF Spec

-----------------------------------------------------------------------------
(***************************************************************************)
(* The results.                                                            *)
(***************************************************************************)

\* Type correctness, for every size of the task table.
THEOREM TypeCorrect == Spec => []TypeOK
BY Invariance, PTL DEF Inv

\* No preemption, spawn or listing loses, duplicates or mixes up a task's
\* register context, and CURRENT agrees with the table.
THEOREM ContextSafety == Spec => [](ContextsIntact /\ OneRunning)
BY Invariance, PTL DEF Inv

\* The task table is touched by non-IRQ code only with interrupts disabled
\* and the shell on the CPU; so every printed row is coherent.
THEOREM TableSafety == Spec => [](TableGuarded /\ RowCoherent)
BY Invariance, PTL DEF Inv

\* spawn fills the table from the bottom and refuses only when it is full.
THEOREM SpawnSafety == Spec => []NoHoles
BY Invariance, PTL DEF Inv

\* A live task is passed over at most MaxTasks - 2 times in a row.
THEOREM RoundRobinBound == Spec => []BoundedWait
<1>1. Inv => BoundedWait
  <2>. SUFFICES ASSUME Inv, NEW s \in Slots, Live(s), s # current
                PROVE  waited[s] <= MaxTasks - 2
    BY DEF BoundedWait
  <2>1. waited[s] + Dist(current, s) <= MaxTasks - 1 /\ waited[s] \in Nat
        /\ current \in Slots
    BY DEF Inv, WaitBudget, TypeOK
  <2>2. Dist(current, s) \in 1 .. MaxTasks
    BY <2>1, DistFacts
  <2>. QED BY <2>1, <2>2, SchedulerAssumption
<1>. QED BY <1>1, Invariance, PTL

\* A slot that holds a task is never freed or reused.
THEOREM SlotsKept == Spec => NeverFreed
<1>1. Inv /\ [Next]_vars => [\A s \in Slots : Live(s) => Live(s)']_vars
  <2>. SUFFICES ASSUME Inv, [Next]_vars, NEW s \in Slots, Live(s)
                PROVE  Live(s)'
    OBVIOUS
  <2>1. state \in [Slots -> {"Free", "Ready", "Running"}] /\ current \in Slots
    BY DEF Inv, TypeOK
  <2>2. CASE TimerIrq
    <3>1. Requeue(state, current)[s] # "Free"
      BY <2>1 DEF Requeue, Live
    <3>2. state' = [Requeue(state, current) EXCEPT
                      ![Pick(Requeue(state, current), current)] = "Running"]
      BY <2>2 DEF TimerIrq, Schedule
    <3>3. Requeue(state, current) \in [Slots -> {"Free", "Ready", "Running"}]
      BY <2>1 DEF Requeue
    <3>. QED BY <3>1, <3>2, <3>3 DEF Live
  <2>3. CASE TaskStep
    BY <2>3 DEF TaskStep, Live
  <2>4. CASE SpawnPublish
    BY <2>1, <2>4 DEF SpawnPublish, Live
  <2>5. CASE ShellStep /\ ~SpawnPublish
    BY <2>5 DEF ShellStep, SpawnBegin, SpawnSkip, SpawnFrame, SpawnReturn,
       SpawnFull, PsBegin, PsReadState, PsReadRsp, PsPrint, PsEnd, Live
  <2>6. CASE UNCHANGED vars
    BY <2>6 DEF vars, Live
  <2>. QED BY <2>2, <2>3, <2>4, <2>5, <2>6 DEF Next
<1>. QED BY <1>1, Invariance, PTL DEF Spec, NeverFreed
=============================================================================
