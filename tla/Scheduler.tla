----------------------------- MODULE Scheduler ------------------------------
(***************************************************************************)
(* The preemptive round robin of kernel/task.c and switch.S, driven by the *)
(* timer (timer.c) through the interrupt path (isr_handler of idt.c, the   *)
(* end-of-interrupt of pic.c), with the critical sections of irq.h and the *)
(* part of kmain that starts the tasks with interrupts already on.         *)
(*                                                                         *)
(* A task is its stack, so a stack is what is modelled: the sequence of    *)
(* the activations that matter, oldest first, each with the interrupt flag *)
(* it will put back.  Every step happens on the stack the CPU is on.       *)
(***************************************************************************)
EXTENDS Integers, Sequences, FiniteSetsExt

CONSTANTS MAX_TASKS,
          Creations,       (* how many times kmain calls task_create       *)
          MaxNest,         (* bound: open critical sections and yields     *)
          TickWidth        (* ticks counts modulo this (2^32 in the code)  *)

ASSUME TasksAssumption == MAX_TASKS \in Nat /\ MAX_TASKS >= 2
ASSUME BoundsAssumption == Creations \in Nat /\ MaxNest \in Nat
ASSUME WidthAssumption == TickWidth \in Nat /\ TickWidth >= 2

Tasks == 0 .. MAX_TASKS - 1
Timer == "timer"           (* IRQ 0                                        *)
Kbd   == "kbd"             (* IRQ 1                                        *)
Lines == {Timer, Kbd}
AtLeastAsUrgent(l, k) == l = Timer \/ k = Kbd   (* the priority of the PIC *)
Nowhere == -1              (* an esp no one has written yet                *)

VARIABLES state,           (* tasks[i].state                               *)
          esp,             (* tasks[i].esp: whose stack it points into     *)
          stack,           (* what is on each stack                        *)
          current,         (* current_task                                 *)
          sp,              (* the stack the CPU is on                      *)
          flag,            (* the interrupt flag of the CPU                *)
          irr, isr,        (* PIC: lines requested, lines in service       *)
          ticks,           (* the counter of timer.c                       *)
          boot, slot, left,(* kmain: where it is, the slot task_create     *)
                           (* found, the calls still to make               *)
          passed           (* history: switches that passed a task over    *)

picVars  == <<irr, isr>>
bootVars == <<boot, slot, left>>
taskVars == <<state, esp, current, sp, passed>>
vars == <<state, esp, stack, current, sp, flag, irr, isr, ticks, boot, slot, left, passed>>

(* An activation: what it is, where it stands, the flag it restores.       *)
Act(kind, at, f) == [kind |-> kind, at |-> at, f |-> f]
Crit(f)      == Act("crit", "inside", f)       (* between save and restore *)
Yield(at, f) == Act("yield", at, f)            (* inside task_yield        *)
Irq(l, at)   == Act(l, at, TRUE)               (* inside isr_handler       *)
Switch(f)    == Act("switch", "saved", f)      (* the frame of task_switch *)

Pushed(s, a) == Append(s, a)
Popped(s)    == SubSeq(s, 1, Len(s) - 1)
Top(s)       == s[Len(s)]
TopIs(kind, at) ==
  /\ sp # Nowhere
  /\ stack[sp] # <<>>
  /\ Top(stack[sp]).kind = kind
  /\ Top(stack[sp]).at = at

(* the CPU is in a task's own code, perhaps inside a critical section *)
Running ==
  /\ sp # Nowhere
  /\ \A i \in DOMAIN stack[sp] : i = Len(stack[sp]) => stack[sp][i].kind = "crit"

-----------------------------------------------------------------------------
(* Just before the first sti: no task is registered, and the table, being  *)
(* static, is all TASK_FREE.                                               *)
Init ==
  /\ state = [t \in Tasks |-> "FREE"]
  /\ esp = [t \in Tasks |-> Nowhere]
  /\ stack = [t \in Tasks |-> <<>>]
  /\ current = 0 /\ sp = 0
  /\ flag = FALSE
  /\ irr = {} /\ isr = {}
  /\ ticks = 0
  /\ boot = "sti" /\ slot = Nowhere /\ left = Creations
  /\ passed = [t \in Tasks |-> 0]

-----------------------------------------------------------------------------
(* kmain, the future task 0: every line may be interrupted *)

Kmain(from, to) ==
  /\ boot = from /\ boot' = to
  /\ sp = 0 /\ stack[0] = <<>>

Sti ==
  /\ Kmain("sti", "clear")
  /\ flag' = TRUE
  /\ UNCHANGED <<taskVars, stack, picVars, ticks, slot, left>>

TaskInitClear ==
  /\ Kmain("clear", "self")
  /\ state' = [t \in Tasks |-> "FREE"]
  /\ UNCHANGED <<esp, stack, current, sp, flag, picVars, ticks, slot, left, passed>>

TaskInitSelf ==
  /\ Kmain("self", "current")
  /\ state' = [state EXCEPT ![0] = "READY"]
  /\ UNCHANGED <<esp, stack, current, sp, flag, picVars, ticks, slot, left, passed>>

TaskInitCurrent ==
  /\ Kmain("current", "find")
  /\ current' = 0
  /\ UNCHANGED <<state, esp, stack, sp, flag, picVars, ticks, slot, left, passed>>

(* mistakes: the slot made ready before it has a stack; a full table taken *)
(* for a slot; a new task born with interrupts off                         *)
TaskCreateFindEarly ==
  /\ left > 0
  /\ \E t \in Tasks :
       /\ state[t] = "FREE"
       /\ \A u \in Tasks : state[u] = "FREE" => t <= u
       /\ slot' = t
       /\ state' = [state EXCEPT ![t] = "READY"]
  /\ Kmain("find", "forge")
  /\ UNCHANGED <<esp, current, sp, passed, stack, flag, picVars, ticks, left>>

TaskCreateFullUnchecked ==
  /\ left > 0
  /\ \A t \in Tasks : state[t] # "FREE"
  /\ Kmain("find", "forge")
  /\ UNCHANGED <<taskVars, stack, flag, picVars, ticks, slot, left>>

TaskCreateForgeDeaf ==
  /\ Kmain("forge", "esp")
  /\ stack' = [stack EXCEPT ![slot] = <<Switch(FALSE)>>]
  /\ UNCHANGED <<taskVars, flag, picVars, ticks, slot, left>>

(* task_create: the first free slot, or -1 that kmain ignores *)
TaskCreateFind ==
  /\ left > 0
  /\ \E t \in Tasks :
       /\ state[t] = "FREE"
       /\ \A u \in Tasks : state[u] = "FREE" => t <= u
       /\ slot' = t
  /\ Kmain("find", "forge")
  /\ UNCHANGED <<taskVars, stack, flag, picVars, ticks, left>>

TaskCreateFull ==
  /\ left > 0
  /\ \A t \in Tasks : state[t] # "FREE"
  /\ left' = left - 1
  /\ Kmain("find", "find")
  /\ UNCHANGED <<taskVars, stack, flag, picVars, ticks, slot>>

(* the forged frame of a task_switch that never was, with the flag on *)
TaskCreateForge ==
  /\ Kmain("forge", "esp")
  /\ stack' = [stack EXCEPT ![slot] = <<Switch(TRUE)>>]
  /\ UNCHANGED <<taskVars, flag, picVars, ticks, slot, left>>

TaskCreateEsp ==
  /\ Kmain("esp", "ready")
  /\ esp' = [esp EXCEPT ![slot] = slot]
  /\ UNCHANGED <<state, stack, current, sp, flag, picVars, ticks, slot, left, passed>>

TaskCreateReady ==
  /\ Kmain("ready", "find")
  /\ state' = [state EXCEPT ![slot] = "READY"]
  /\ slot' = Nowhere
  /\ left' = left - 1
  /\ UNCHANGED <<esp, stack, current, sp, flag, picVars, ticks, passed>>

Boot ==
  \/ Sti
  \/ TaskInitClear \/ TaskInitSelf \/ TaskInitCurrent
  \/ TaskCreateFind \/ TaskCreateFull
  \/ TaskCreateForge \/ TaskCreateEsp \/ TaskCreateReady

-----------------------------------------------------------------------------
(* schedule and task_switch *)

(* mistake: the search starts from slot 0 and not from the current task *)
TaskNextFromZero(c) ==
  LET ready == {t \in Tasks : state[t] = "READY" /\ t # c}
  IN  IF ready = {} THEN Nowhere ELSE Min(ready)

(* task_next: the first other ready task after current, going round *)
TaskNext(c) ==
  LET ready == {k \in 1 .. MAX_TASKS - 1 : state[(c + k) % MAX_TASKS] = "READY"}
  IN  IF ready = {} THEN Nowhere ELSE (c + Min(ready)) % MAX_TASKS

(* Saves where prev is, goes to the stack next left its frame on, restores *)
(* the flag of that frame.  s is the stacks with the caller's own step     *)
(* done.  An esp never written would take the CPU nowhere.                 *)
TaskSwitch(prev, next, s) ==
  LET saved == [s EXCEPT ![sp] = Pushed(@, Switch(flag))]
      to    == esp[next]
  IN  /\ esp' = [esp EXCEPT ![prev] = sp]
      /\ sp' = to
      /\ \/ /\ to = Nowhere
            /\ stack' = saved
            /\ flag' = FALSE
         \/ /\ to # Nowhere
            /\ stack' = [saved EXCEPT ![to] = Popped(@)]
            /\ flag' = Top(saved[to]).f

(* mistake: the CPU moves and current_task does not *)
ScheduleForgetful(s) ==
  LET next == TaskNext(current)
  IN  /\ IF next = Nowhere
         THEN stack' = s /\ UNCHANGED <<esp, sp, flag>>
         ELSE TaskSwitch(current, next, s)
      /\ UNCHANGED <<current, passed>>

Schedule(s) ==
  LET next == TaskNext(current)
  IN  \/ /\ next = Nowhere
         /\ stack' = s
         /\ UNCHANGED <<esp, current, sp, flag, passed>>
      \/ /\ next # Nowhere
         /\ current' = next
         /\ TaskSwitch(current, next, s)
         /\ passed' = [t \in Tasks |->
                         IF t \in {current, next} \/ state[t] = "FREE"
                         THEN 0 ELSE passed[t] + 1]

(* the activation on top moves on to its next point *)
Advanced(at) == [stack EXCEPT ![sp][Len(stack[sp])].at = at]

-----------------------------------------------------------------------------
(* irq.h and task_yield, called by whichever task runs *)

(* mistakes: saving without turning the flag off; restoring with a sti *)
IrqSaveOpen ==
  /\ Running /\ Len(stack[sp]) < MaxNest
  /\ stack' = [stack EXCEPT ![sp] = Pushed(@, Crit(flag))]
  /\ UNCHANGED <<flag, taskVars, picVars, ticks, bootVars>>

IrqRestoreSti ==
  /\ TopIs("crit", "inside")
  /\ flag' = TRUE
  /\ stack' = [stack EXCEPT ![sp] = Popped(@)]
  /\ UNCHANGED <<taskVars, picVars, ticks, bootVars>>

IrqSave ==
  /\ Running /\ Len(stack[sp]) < MaxNest
  /\ stack' = [stack EXCEPT ![sp] = Pushed(@, Crit(flag))]
  /\ flag' = FALSE
  /\ UNCHANGED <<taskVars, picVars, ticks, bootVars>>

IrqRestore ==
  /\ TopIs("crit", "inside")
  /\ flag' = Top(stack[sp]).f
  /\ stack' = [stack EXCEPT ![sp] = Popped(@)]
  /\ UNCHANGED <<taskVars, picVars, ticks, bootVars>>

YieldEnter ==
  /\ Running /\ Len(stack[sp]) < MaxNest
  /\ boot \notin {"sti", "clear", "self", "current"}
  /\ stack' = [stack EXCEPT ![sp] = Pushed(@, Yield("schedule", flag))]
  /\ flag' = FALSE
  /\ UNCHANGED <<taskVars, picVars, ticks, bootVars>>

YieldSchedule ==
  /\ TopIs("yield", "schedule")
  /\ Schedule(Advanced("restore"))
  /\ UNCHANGED <<state, picVars, ticks, bootVars>>

YieldRestore ==
  /\ TopIs("yield", "restore")
  /\ flag' = Top(stack[sp]).f
  /\ stack' = [stack EXCEPT ![sp] = Popped(@)]
  /\ UNCHANGED <<taskVars, picVars, ticks, bootVars>>

-----------------------------------------------------------------------------
(* interrupts *)

(* A device raises its line; one already raised stays as it is: a tick     *)
(* that finds the previous one unserved is lost.                           *)
Raise(l) ==
  /\ l \notin irr
  /\ irr' = irr \cup {l}
  /\ UNCHANGED <<taskVars, stack, flag, isr, ticks, bootVars>>

(* The PIC offers the most urgent line, the CPU takes it between two       *)
(* instructions; the interrupt gate turns the flag off.                    *)
Interrupt(l) ==
  /\ flag /\ sp # Nowhere
  /\ l \in irr
  /\ \A k \in irr \cup isr : AtLeastAsUrgent(l, k)
  /\ l \notin isr
  /\ irr' = irr \ {l}
  /\ isr' = isr \cup {l}
  /\ stack' = [stack EXCEPT ![sp] = Pushed(@, Irq(l, "eoi"))]
  /\ flag' = FALSE
  /\ UNCHANGED <<taskVars, ticks, bootVars>>

(* mistake: the PIC is never told, or only after a switch that may not return *)
SendEoiMissing(l) ==
  /\ TopIs(l, "eoi")
  /\ stack' = Advanced("handler")
  /\ UNCHANGED <<taskVars, flag, irr, isr, ticks, bootVars>>

(* pic_eoi, before the handler: it ends the most urgent line in service *)
SendEoi(l) ==
  /\ TopIs(l, "eoi")
  /\ isr' = isr \ {k \in isr : \A j \in isr : AtLeastAsUrgent(k, j)}
  /\ stack' = Advanced("handler")
  /\ UNCHANGED <<taskVars, flag, irr, ticks, bootVars>>

TimerHandler ==
  /\ TopIs(Timer, "handler")
  /\ ticks' = (ticks + 1) % TickWidth
  /\ Schedule(Advanced("iret"))
  /\ UNCHANGED <<state, picVars, bootVars>>

(* module Keyboard says what happens here *)
KbdHandler ==
  /\ TopIs(Kbd, "handler")
  /\ stack' = Advanced("iret")
  /\ UNCHANGED <<taskVars, flag, picVars, ticks, bootVars>>

Iret(l) ==
  /\ TopIs(l, "iret")
  /\ flag' = Top(stack[sp]).f
  /\ stack' = [stack EXCEPT ![sp] = Popped(@)]
  /\ UNCHANGED <<taskVars, picVars, ticks, bootVars>>

Interrupts ==
  \/ \E l \in Lines : Raise(l) \/ Interrupt(l) \/ SendEoi(l) \/ Iret(l)
  \/ TimerHandler
  \/ KbdHandler

-----------------------------------------------------------------------------

Next ==
  \/ Boot
  \/ IrqSave \/ IrqRestore
  \/ YieldEnter \/ YieldSchedule \/ YieldRestore
  \/ Interrupts

Spec == Init /\ [][Next]_vars

(* What the machine and the code outside tasks guarantee: the timer keeps  *)
(* ticking; a line that keeps being offered is taken at some instruction   *)
(* boundary with the flag on (strong: the flag goes off and on); kernel    *)
(* code that runs with the flag off is finite; kmain goes on when it runs. *)
(* Of a task it is asked only that it ends the critical sections it opens, *)
(* whatever it nests in them: those of the kernel are straight-line code   *)
(* and loops with a bound.                                                 *)
Finite ==
  \/ IrqRestore \/ YieldSchedule \/ YieldRestore
  \/ TimerHandler \/ KbdHandler
  \/ \E l \in Lines : SendEoi(l) \/ Iret(l)

EndsSection(t) == sp = t /\ Len(stack[t]) = 1 /\ IrqRestore

FairSpec ==
  /\ Spec
  /\ \A t \in Tasks : SF_vars(EndsSection(t))
  /\ WF_vars(Raise(Timer))
  /\ SF_vars(Interrupt(Timer))
  /\ WF_vars(Finite)
  /\ SF_vars(Boot)

-----------------------------------------------------------------------------

Activations ==
  {Crit(f) : f \in BOOLEAN} \cup {Switch(f) : f \in BOOLEAN}
    \cup {Yield(at, f) : at \in {"schedule", "restore"}, f \in BOOLEAN}
    \cup {Irq(l, at) : l \in Lines, at \in {"eoi", "handler", "iret"}}

TypeOK ==
  /\ state \in [Tasks -> {"FREE", "READY"}]
  /\ esp \in [Tasks -> Tasks \cup {Nowhere}]
  /\ stack \in [Tasks -> Seq(Activations)]
  /\ current \in Tasks
  /\ sp \in Tasks \cup {Nowhere}
  /\ flag \in BOOLEAN
  /\ irr \subseteq Lines /\ isr \subseteq Lines
  /\ ticks \in 0 .. TickWidth - 1
  /\ left \in 0 .. Creations
  /\ boot \in {"sti", "clear", "self", "current", "find", "forge", "esp", "ready"}
  /\ slot \in IF boot \in {"forge", "esp", "ready"} THEN Tasks ELSE {Nowhere}
  /\ passed \in [Tasks -> Nat]

(* current_task and the stack the CPU is on always tell the same story:    *)
(* every reader of task_current (the descriptor table of the VFS is one)   *)
(* gets the task that called it.                                           *)
CurrentOwnsStack == sp = current

(* Any task the next tick may choose can be resumed: its esp points into   *)
(* its own stack, at the frame task_switch or task_create left there.      *)
ReadyIsResumable ==
  \A t \in Tasks :
    state[t] = "READY" /\ t # current =>
      /\ esp[t] = t
      /\ stack[t] # <<>>
      /\ Top(stack[t]).kind = "switch"

(* The flag is off exactly inside a critical section, a yield or an        *)
(* interrupt of the task that runs, whoever it was switched from: no task  *)
(* inherits the flag of another, none can be interrupted in a section it   *)
(* closed, none is left deaf outside one.                                  *)
FlagBelongsToTask == boot # "sti" => (flag <=> stack[current] = <<>>)

(* One stack: each activation puts back the flag as it was, on only below  *)
(* the first; an interrupt is at the bottom, never on top of a critical    *)
(* section or of another; a saved switch is the last word of a task that   *)
(* does not run.                                                           *)
WellFormed(s, runs) ==
  \A i \in 1 .. Len(s) :
    /\ s[i].f = (i = 1)
    /\ s[i].kind \in Lines => i = 1
    /\ s[i].kind = "switch" => i = Len(s) /\ ~runs

StacksWellFormed ==
  boot # "sti" => \A t \in Tasks : WellFormed(stack[t], t = current)

(* The round robin skips nobody: a ready task is passed over at most once  *)
(* by each of the others before its turn, also while tasks are created.    *)
BoundedBypass ==
  \A t \in Tasks : state[t] = "READY" => passed[t] <= MAX_TASKS - 2

(* Why: what a ready task has been passed over and what lies between the   *)
(* current one and it, going round, never exceed a turn of the table.      *)
Ahead(c, t) == IF c < t THEN t - c ELSE t - c + MAX_TASKS

TurnComes ==
  /\ \A t \in Tasks : state[t] = "FREE" \/ t = current => passed[t] = 0
  /\ \A t \in Tasks :
       state[t] = "READY" /\ t # current =>
         passed[t] + Ahead(current, t) <= MAX_TASKS - 1

(* Where kmain is says how much of the table is built: before task_init    *)
(* has run no task can be chosen, and the slot task_create is filling is   *)
(* free until the frame and esp are in place.                              *)
TableSoFar ==
  /\ boot = "sti" => /\ ~flag
                     /\ \A t \in Tasks \ {0} : stack[t] = <<>>
                     /\ \A i \in 1 .. Len(stack[0]) : stack[0][i] = Crit(FALSE)
  /\ IF boot \in {"sti", "clear", "self", "current"}
       THEN /\ current = 0
            /\ \A t \in Tasks : state[t] = "READY" <=> t = 0 /\ boot = "current"
       ELSE state[current] = "READY"
  /\ boot \in {"forge", "esp", "ready"} => state[slot] = "FREE" /\ left > 0
  /\ boot \in {"esp", "ready"} => stack[slot] = <<Switch(TRUE)>>
  /\ boot = "ready" => esp[slot] = slot

(* The inductive invariant. *)
IInv ==
  /\ TypeOK /\ CurrentOwnsStack /\ ReadyIsResumable /\ FlagBelongsToTask
  /\ StacksWellFormed /\ TableSoFar /\ TurnComes

(* A task leaves the CPU only at a tick or because it asked to, never      *)
(* inside a critical section it did not yield from.                        *)
NoPreemptionInCritical ==
  [][current' # current /\ boot # "current" =>
       \/ TopIs("yield", "schedule")
       \/ TopIs(Timer, "handler") /\ Len(stack[sp]) = 1]_vars

(* Ticks never stop arriving, whichever task is switched to, new ones      *)
(* included: the line is free again before the switch is made.             *)
ClockNeverStops == []<><<ticks' # ticks>>_vars

(* Every task made ready runs again and again, though no task ever yields. *)
NoStarvation ==
  \A t \in Tasks : []<>(state[t] = "READY" => sp = t /\ Running)

(* Preemption works for ever: the ticks go on and every task gets its turns *)
(* (task.c:66-117, idt.c:149-181).                                          *)
TasksProgress == ClockNeverStops /\ NoStarvation

=============================================================================
