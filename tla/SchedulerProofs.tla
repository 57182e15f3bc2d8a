-------------------------- MODULE SchedulerProofs ---------------------------
EXTENDS Scheduler, FiniteSetTheorems, WellFoundedInduction, SequenceTheorems, TLAPS

(* A non-empty set of numbers has a least one. *)
LEMMA MinExists ==
  ASSUME NEW S \in SUBSET Nat, S # {}
  PROVE  Min(S) \in S /\ \A k \in S : Min(S) <= k
<1> DEFINE Below(k) == {j \in S : j < k}
           T == {Below(k) : k \in S}
<1>1. T \subseteq FiniteSubsetsOf(Nat) /\ T # {}
  <2>1. ASSUME NEW k \in S PROVE IsFiniteSet(Below(k))
    <3>1. k \in Nat /\ \A j \in S : j \in Nat
      OBVIOUS
    <3>2. Below(k) \in SUBSET (0 .. k)
      <4>1. ASSUME NEW j \in Below(k) PROVE j \in 0 .. k
        <5>1. j \in Nat /\ j < k
          BY <3>1, <4>1
        <5>2. QED
          BY <3>1, <5>1
      <4> HIDE DEF Below
      <4>2. QED
        BY <4>1
    <3>3. IsFiniteSet(0 .. k)
      BY <3>1, FS_Interval
    <3> HIDE DEF Below
    <3>4. QED
      BY <3>2, <3>3, FS_Subset
  <2>2. QED
    BY <2>1 DEF FiniteSubsetsOf
<1>2. PICK B \in T : \A C \in T : ~(<<C, B>> \in StrictSubsetOrdering(Nat))
  <2> HIDE DEF T
  <2>1. QED
    BY <1>1, FS_StrictSubsetOrderingWellFounded, WFMin
<1>3. PICK m \in S : B = Below(m)
  OBVIOUS
<1>4. ASSUME NEW k \in S, k < m PROVE FALSE
  <2>0. k \in Nat /\ m \in Nat /\ \A j \in S : j \in Nat
    OBVIOUS
  <2>1. Below(k) \subseteq Below(m) /\ k \in Below(m) /\ k \notin Below(k)
    <3>1. ASSUME NEW j \in Below(k) PROVE j \in Below(m)
      <4>1. j \in S /\ j \in Nat /\ j < k
        BY <2>0, <3>1
      <4>2. QED
        BY <1>4, <2>0, <4>1
    <3>2. k \in Below(m) /\ k \notin Below(k)
      BY <1>4, <2>0
    <3> HIDE DEF Below
    <3>3. QED
      BY <3>1, <3>2
  <2>2. <<Below(k), B>> \in StrictSubsetOrdering(Nat)
    BY <1>3, <2>1 DEF StrictSubsetOrdering
  <2>3. QED
    BY <1>2, <2>2
<1>5. m \in S /\ \A k \in S : m <= k
  BY <1>4
<1>6. QED
  BY <1>5 DEF Min

(* Going round the table. *)
LEMMA RoundTable ==
  ASSUME NEW c \in Tasks, NEW k \in 1 .. MAX_TASKS - 1
  PROVE  (c + k) % MAX_TASKS = IF c + k < MAX_TASKS THEN c + k ELSE c + k - MAX_TASKS
<1>1. MAX_TASKS \in Nat /\ MAX_TASKS > 0 /\ c \in Nat /\ c < MAX_TASKS /\ k \in Nat /\ k < MAX_TASKS
  BY TasksAssumption DEF Tasks
<1>2. CASE c + k < MAX_TASKS
  BY <1>1, <1>2, SMTT(30)
<1>3. CASE c + k >= MAX_TASKS
  <2>1. (c + k - MAX_TASKS) % MAX_TASKS = c + k - MAX_TASKS
    BY <1>1, <1>3, SMTT(30)
  <2>2. (c + k) % MAX_TASKS = (c + k - MAX_TASKS) % MAX_TASKS
    BY <1>1, <1>3, SMTT(30)
  <2>3. QED
    BY <1>1, <1>3, <2>1, <2>2
<1>4. QED
  BY <1>1, <1>2, <1>3

-----------------------------------------------------------------------------
(* One stack. *)

(* What an activation carries, whoever opened it. *)
LEMMA ActivationFacts ==
  ASSUME NEW a \in Activations
  PROVE  /\ a.f \in BOOLEAN
         /\ a = Act(a.kind, a.at, a.f)
         /\ a.kind \in Lines => a.f = TRUE
<1>1. \/ \E f \in BOOLEAN : a = Crit(f) \/ a = Switch(f)
      \/ \E at \in {"schedule", "restore"}, f \in BOOLEAN : a = Yield(at, f)
      \/ \E l \in Lines, at \in {"eoi", "handler", "iret"} : a = Irq(l, at)
  BY DEF Activations
<1>2. ASSUME NEW f \in BOOLEAN, a = Crit(f) \/ a = Switch(f)
      PROVE  /\ a.f \in BOOLEAN /\ a = Act(a.kind, a.at, a.f) /\ a.kind \notin Lines
  BY <1>2 DEF Crit, Switch, Act, Lines, Timer, Kbd
<1>3. ASSUME NEW at, NEW f \in BOOLEAN, a = Yield(at, f)
      PROVE  /\ a.f \in BOOLEAN /\ a = Act(a.kind, a.at, a.f) /\ a.kind \notin Lines
  BY <1>3 DEF Yield, Act, Lines, Timer, Kbd
<1>4. ASSUME NEW l, NEW at, a = Irq(l, at)
      PROVE  /\ a.f = TRUE /\ a = Act(a.kind, a.at, a.f)
  BY <1>4 DEF Irq, Act
<1>5. QED
  BY <1>1, <1>2, <1>3, <1>4

(* Each kind of activation is one a stack may hold. *)
LEMMA ActivationKinds ==
  /\ \A f \in BOOLEAN : Crit(f) \in Activations /\ Switch(f) \in Activations
  /\ \A at \in {"schedule", "restore"}, f \in BOOLEAN : Yield(at, f) \in Activations
  /\ \A l \in Lines, at \in {"eoi", "handler", "iret"} : Irq(l, at) \in Activations
<1> DEFINE C == {Crit(g) : g \in BOOLEAN}
           S == {Switch(g) : g \in BOOLEAN}
           Y == {Yield(p, g) : p \in {"schedule", "restore"}, g \in BOOLEAN}
           I == {Irq(m, p) : m \in Lines, p \in {"eoi", "handler", "iret"}}
<1>1. \A f \in BOOLEAN : Crit(f) \in C
  OBVIOUS
<1>2. \A f \in BOOLEAN : Switch(f) \in S
  OBVIOUS
<1>3. \A at \in {"schedule", "restore"}, f \in BOOLEAN : Yield(at, f) \in Y
  OBVIOUS
<1>4. \A l \in Lines, at \in {"eoi", "handler", "iret"} : Irq(l, at) \in I
  OBVIOUS
<1>5. Activations = C \cup S \cup Y \cup I
  BY DEF Activations
<1> HIDE DEF C, S, Y, I
<1>6. QED
  BY <1>1, <1>2, <1>3, <1>4, <1>5

(* Moving to the next point keeps the owner of the activation and its flag. *)
LEMMA ActMoves ==
  ASSUME NEW l, NEW at, NEW to, NEW f
  PROVE  [Act(l, at, f) EXCEPT !.at = to] = Act(l, to, f)
BY DEF Act

(* The stack task_create forges, one activation high. *)
LEMMA OneIsASequence ==
  ASSUME NEW a \in Activations
  PROVE  <<a>> \in Seq(Activations)
OBVIOUS

(* Opening an activation leaves those below it as they were. *)
LEMMA PushedFacts ==
  ASSUME NEW s \in Seq(Activations), NEW a \in Activations
  PROVE  /\ Pushed(s, a) \in Seq(Activations)
         /\ Pushed(s, a) # <<>>
         /\ Len(Pushed(s, a)) = Len(s) + 1
         /\ Top(Pushed(s, a)) = a
         /\ \A i \in 1 .. Len(s) : Pushed(s, a)[i] = s[i]
         /\ Pushed(s, a)[Len(s) + 1] = a
BY AppendProperties DEF Pushed, Top

(* Closing one does too. *)
LEMMA PoppedFacts ==
  ASSUME NEW s \in Seq(Activations), s # <<>>
  PROVE  /\ Popped(s) \in Seq(Activations)
         /\ Len(s) \in Nat /\ Len(s) > 0
         /\ Len(Popped(s)) = Len(s) - 1
         /\ Popped(s) = <<>> <=> Len(s) = 1
         /\ \A i \in 1 .. Len(s) - 1 : Popped(s)[i] = s[i]
         /\ Top(s) = s[Len(s)] /\ Top(s) \in Activations
<1>1. Len(s) \in Nat /\ Len(s) > 0
  BY EmptySeq
<1>2. /\ Popped(s) \in Seq(Activations)
      /\ Len(Popped(s)) = Len(s) - 1
      /\ \A i \in 1 .. Len(s) - 1 : Popped(s)[i] = s[i]
  <2>1. Len(s) - 1 \in Int /\ 1 .. Len(s) - 1 \subseteq 1 .. Len(s)
    BY <1>1
  <2>2. Popped(s) = [i \in 1 .. Len(s) - 1 |-> s[i]]
    BY <1>1, <2>1 DEF Popped
  <2>3. \A i \in 1 .. Len(s) - 1 : s[i] \in Activations
    BY <2>1
  <2>4. QED
    BY <1>1, <2>2, <2>3
<1>3. Popped(s) = <<>> <=> Len(Popped(s)) = 0
  BY <1>2, EmptySeq
<1>4. Top(s) \in Activations
  BY <1>1 DEF Top
<1>5. QED
  BY <1>1, <1>2, <1>3, <1>4 DEF Top

(* Opening an activation, closing one and moving one on keep a stack well formed. *)
LEMMA PushedWellFormed ==
  ASSUME NEW s \in Seq(Activations), NEW a \in Activations,
         NEW c \in BOOLEAN, NEW d \in BOOLEAN,
         WellFormed(s, c), c,
         a.f = (s = <<>>),
         a.kind \in Lines => s = <<>>,
         a.kind = "switch" => ~d
  PROVE  WellFormed(Pushed(s, a), d)
<1>1. Len(s) \in Nat /\ (s = <<>> <=> Len(s) = 0)
  BY EmptySeq
<1>2. ASSUME NEW i \in 1 .. Len(s) + 1
      PROVE  /\ Pushed(s, a)[i].f = (i = 1)
             /\ Pushed(s, a)[i].kind \in Lines => i = 1
             /\ Pushed(s, a)[i].kind = "switch" => i = Len(s) + 1 /\ ~d
  <2>1. CASE i = Len(s) + 1
    <3>1. Pushed(s, a)[i] = a
      BY <2>1, PushedFacts
    <3>2. s = <<>> <=> i = 1
      BY <1>1, <2>1
    <3>3. QED
      BY <2>1, <3>1, <3>2
  <2>2. CASE i # Len(s) + 1
    <3>1. i \in 1 .. Len(s) /\ i # Len(s) + 1
      BY <1>1, <2>2
    <3>2. Pushed(s, a)[i] = s[i]
      BY <3>1, PushedFacts
    <3>3. QED
      BY <3>1, <3>2 DEF WellFormed
  <2>3. QED
    BY <2>1, <2>2
<1>3. QED
  BY <1>2, PushedFacts DEF WellFormed

(* Closing one leaves the flag the activation below expects. *)
LEMMA PoppedWellFormed ==
  ASSUME NEW s \in Seq(Activations), s # <<>>,
         NEW c \in BOOLEAN, NEW d \in BOOLEAN, WellFormed(s, c)
  PROVE  /\ WellFormed(Popped(s), d)
         /\ Top(s).f = (Popped(s) = <<>>)
<1>1. Top(s).f = (Popped(s) = <<>>)
  BY PoppedFacts DEF WellFormed
<1>2. ASSUME NEW i \in 1 .. Len(Popped(s))
      PROVE  /\ Popped(s)[i].f = (i = 1)
             /\ Popped(s)[i].kind \in Lines => i = 1
             /\ Popped(s)[i].kind # "switch"
  <2>1. i \in 1 .. Len(s) /\ i # Len(s) /\ Popped(s)[i] = s[i]
    BY <1>2, PoppedFacts
  <2>2. QED
    BY <2>1 DEF WellFormed
<1>3. QED
  BY <1>1, <1>2 DEF WellFormed

-----------------------------------------------------------------------------
(* The table before the first sti. *)
LEMMA InitIInv == Init => IInv
<1> SUFFICES ASSUME Init PROVE IInv
  OBVIOUS
<1>1. 0 \in Tasks /\ Nowhere \notin Tasks
  BY TasksAssumption DEF Tasks, Nowhere
<1>2. TypeOK
  BY <1>1, BoundsAssumption, WidthAssumption, EmptySeq DEF Init, TypeOK
<1>3. \A t \in Tasks : state[t] = "FREE" /\ stack[t] = <<>> /\ passed[t] = 0
  BY DEF Init
<1>4. CurrentOwnsStack /\ ReadyIsResumable /\ FlagBelongsToTask /\ StacksWellFormed
  BY <1>3 DEF Init, CurrentOwnsStack, ReadyIsResumable, FlagBelongsToTask,
              StacksWellFormed
<1>5. TableSoFar
  BY <1>1, <1>3, EmptySeq DEF Init, TableSoFar
<1>6. TurnComes
  BY <1>1, <1>3 DEF Init, TurnComes
<1>7. QED
  BY <1>2, <1>4, <1>5, <1>6 DEF IInv

(* What every step relies on. *)
LEMMA Facts ==
  ASSUME IInv
  PROVE  /\ 0 \in Tasks /\ Nowhere \notin Tasks
         /\ sp = current /\ current \in Tasks
         /\ stack \in [Tasks -> Seq(Activations)]
         /\ flag \in BOOLEAN
         /\ boot \in {"esp", "ready", "forge"} =>
              slot \in Tasks /\ slot # current /\ state[slot] = "FREE"
         /\ boot # "sti" => WellFormed(stack[current], TRUE)
<1> USE DEF IInv
<1>1. 0 \in Tasks /\ Nowhere \notin Tasks
  BY TasksAssumption DEF Tasks, Nowhere
<1>2. sp = current /\ current \in Tasks
  BY DEF TypeOK, CurrentOwnsStack
<1>3. stack \in [Tasks -> Seq(Activations)] /\ flag \in BOOLEAN
  BY DEF TypeOK
<1>4. ASSUME boot \in {"esp", "ready", "forge"}
      PROVE  slot \in Tasks /\ slot # current /\ state[slot] = "FREE"
  BY <1>4 DEF TypeOK, TableSoFar
<1>5. ASSUME boot # "sti" PROVE WellFormed(stack[current], TRUE)
  BY <1>2, <1>5 DEF StacksWellFormed
<1>6. QED
  BY <1>1, <1>2, <1>3, <1>4, <1>5

(* A step that changes only the stack the CPU is on, and the flag with it. *)
LEMMA OwnStackStep ==
  ASSUME IInv, NEW s \in Seq(Activations),
         stack' = [stack EXCEPT ![sp] = s],
         flag' \in BOOLEAN, irr' \subseteq Lines, isr' \subseteq Lines,
         ticks' \in 0 .. TickWidth - 1,
         UNCHANGED <<taskVars, bootVars>>,
         boot # "sti" => (flag' <=> s = <<>>) /\ WellFormed(s, TRUE),
         boot = "sti" => ~flag' /\ \A i \in 1 .. Len(s) : s[i] = Crit(FALSE)
  PROVE  IInv'
<1> USE DEF IInv, taskVars, bootVars
<1>1. /\ sp = current /\ current \in Tasks
      /\ stack \in [Tasks -> Seq(Activations)]
  BY Facts
<1>2. /\ stack' \in [Tasks -> Seq(Activations)]
      /\ stack'[current] = s
      /\ \A t \in Tasks : t # current => stack'[t] = stack[t]
  BY <1>1
<1>3. TypeOK'
  BY <1>2 DEF TypeOK
<1>4. CurrentOwnsStack'
  BY DEF CurrentOwnsStack
<1>5. ReadyIsResumable'
  BY <1>2 DEF ReadyIsResumable, Top
<1>6. FlagBelongsToTask'
  BY <1>2 DEF FlagBelongsToTask
<1>7. StacksWellFormed'
  BY <1>1, <1>2 DEF StacksWellFormed
<1>8. TableSoFar'
  <2>1. boot' = "sti" => current = 0
    BY DEF TableSoFar
  <2>2. boot' \in {"esp", "ready"} => slot \in Tasks /\ stack'[slot] = stack[slot]
    BY <1>2, Facts
  <2>3. QED
    BY <1>1, <1>2, <2>1, <2>2 DEF TableSoFar
<1>9. TurnComes'
  BY DEF TurnComes, Ahead
<1>10. QED
  BY <1>3, <1>4, <1>5, <1>6, <1>7, <1>8, <1>9

(* A step that changes at most the lines of the PIC. *)
LEMMA LinesStep ==
  ASSUME IInv, irr' \subseteq Lines, isr' \subseteq Lines,
         UNCHANGED <<taskVars, stack, flag, ticks, bootVars>>
  PROVE  IInv'
<1> DEFINE s == stack[sp]
<1>1. /\ sp = current /\ current \in Tasks /\ s \in Seq(Activations)
      /\ stack \in [Tasks -> Seq(Activations)]
      /\ boot # "sti" => WellFormed(s, TRUE)
      /\ flag' = flag /\ flag \in BOOLEAN
  BY Facts
<1>2. stack' = [stack EXCEPT ![sp] = s]
  BY <1>1
<1>3. boot # "sti" => (flag' <=> s = <<>>)
  BY <1>1 DEF IInv, FlagBelongsToTask
<1>4. ASSUME boot = "sti"
      PROVE  ~flag' /\ \A i \in 1 .. Len(s) : s[i] = Crit(FALSE)
  <2>1. /\ current = 0 /\ ~flag
        /\ \A i \in 1 .. Len(stack[0]) : stack[0][i] = Crit(FALSE)
    BY <1>4 DEF IInv, TableSoFar
  <2>2. s = stack[0]
    BY <1>1, <2>1
  <2>3. QED
    BY <1>1, <2>1, <2>2
<1>5. ticks' \in 0 .. TickWidth - 1
  BY DEF IInv, TypeOK
<1> HIDE DEF s
<1>6. QED
  BY <1>1, <1>2, <1>3, <1>4, <1>5, OwnStackStep

(* Opening an activation turns the flag off. *)
LEMMA PushStep ==
  ASSUME IInv, NEW a \in Activations, a.kind # "switch", a.f = flag,
         a.kind \in Lines => flag,
         boot = "sti" => a = Crit(FALSE),
         stack' = [stack EXCEPT ![sp] = Pushed(@, a)],
         flag' = FALSE, irr' \subseteq Lines, isr' \subseteq Lines,
         UNCHANGED <<taskVars, ticks, bootVars>>
  PROVE  IInv'
<1> DEFINE s == Pushed(stack[sp], a)
<1>1. /\ sp = current /\ current \in Tasks /\ stack[current] \in Seq(Activations)
      /\ boot # "sti" => WellFormed(stack[current], TRUE)
  BY Facts
<1>2. /\ s \in Seq(Activations) /\ s # <<>>
      /\ Len(s) = Len(stack[current]) + 1
      /\ \A i \in 1 .. Len(stack[current]) : s[i] = stack[current][i]
      /\ s[Len(stack[current]) + 1] = a
  BY <1>1, PushedFacts
<1>3. ASSUME boot # "sti" PROVE WellFormed(s, TRUE)
  <2>1. flag = (stack[current] = <<>>)
    BY <1>1, <1>3, Facts DEF IInv, FlagBelongsToTask
  <2>2. QED
    BY <1>1, <1>3, <2>1, PushedWellFormed
<1>4. ASSUME boot = "sti" PROVE \A i \in 1 .. Len(s) : s[i] = Crit(FALSE)
  <2>1. \A i \in 1 .. Len(stack[current]) : stack[current][i] = Crit(FALSE)
    BY <1>4 DEF IInv, TableSoFar
  <2>2. Len(stack[current]) \in Nat
    BY <1>1
  <2>3. ASSUME NEW i \in 1 .. Len(s) PROVE i = Len(stack[current]) + 1 \/ i \in 1 .. Len(stack[current])
    BY <1>2, <2>2
  <2>4. QED
    BY <1>2, <1>4, <2>1, <2>3
<1>5. ticks' \in 0 .. TickWidth - 1
  BY DEF IInv, TypeOK
<1>6. stack' = [stack EXCEPT ![sp] = s]
  OBVIOUS
<1> HIDE DEF s
<1>7. QED
  BY <1>2, <1>3, <1>4, <1>5, <1>6, OwnStackStep

(* Closing one puts back the flag it found. *)
LEMMA PopStep ==
  ASSUME IInv, stack[sp] # <<>>,
         stack' = [stack EXCEPT ![sp] = Popped(@)],
         flag' = Top(stack[sp]).f,
         UNCHANGED <<taskVars, picVars, ticks, bootVars>>
  PROVE  IInv'
<1> DEFINE s == Popped(stack[sp])
<1>1. /\ sp = current /\ current \in Tasks /\ stack[current] \in Seq(Activations)
      /\ boot # "sti" => WellFormed(stack[current], TRUE)
  BY Facts
<1>2. /\ s \in Seq(Activations)
      /\ Len(s) = Len(stack[current]) - 1
      /\ Len(stack[current]) \in Nat /\ Len(stack[current]) > 0
      /\ \A i \in 1 .. Len(stack[current]) - 1 : s[i] = stack[current][i]
      /\ Top(stack[current]) = stack[current][Len(stack[current])]
      /\ Top(stack[current]) \in Activations
  BY <1>1, PoppedFacts
<1>3. ASSUME boot # "sti" PROVE (flag' <=> s = <<>>) /\ WellFormed(s, TRUE)
  BY <1>1, <1>3, PoppedWellFormed
<1>4. ASSUME boot = "sti" PROVE ~flag' /\ \A i \in 1 .. Len(s) : s[i] = Crit(FALSE)
  <2>1. \A i \in 1 .. Len(stack[current]) : stack[current][i] = Crit(FALSE)
    BY <1>4 DEF IInv, TableSoFar
  <2>2. Top(stack[current]) = Crit(FALSE)
    <3>1. Len(stack[current]) \in 1 .. Len(stack[current])
      BY <1>2
    <3>2. QED
      BY <1>2, <2>1, <3>1
  <2>3. flag' = FALSE
    BY <1>1, <2>2 DEF Crit, Act
  <2>4. ASSUME NEW i \in 1 .. Len(s) PROVE s[i] = Crit(FALSE)
    <3>1. i \in 1 .. Len(stack[current]) - 1 /\ i \in 1 .. Len(stack[current])
      BY <1>2
    <3>2. QED
      BY <1>2, <2>1, <3>1
  <2>5. QED
    BY <2>3, <2>4
<1>5. ticks' \in 0 .. TickWidth - 1 /\ irr' \subseteq Lines /\ isr' \subseteq Lines
  BY DEF IInv, TypeOK, picVars
<1>6. flag' \in BOOLEAN
  BY <1>1, <1>2, ActivationFacts
<1>7. stack' = [stack EXCEPT ![sp] = s]
  OBVIOUS
<1> HIDE DEF s
<1>8. QED
  BY <1>2, <1>3, <1>4, <1>5, <1>6, <1>7, OwnStackStep

(* The activation on top of a well formed stack of the running task moves  *)
(* on to its next point.                                                   *)
LEMMA AdvancedFacts ==
  ASSUME IInv, boot # "sti", stack[sp] # <<>>, NEW to,
         [Top(stack[sp]) EXCEPT !.at = to] \in Activations
  PROVE  \E s \in Seq(Activations) :
           /\ Advanced(to) = [stack EXCEPT ![sp] = s]
           /\ s # <<>>
           /\ WellFormed(s, TRUE)
<1> DEFINE r == stack[current]
           s == [r EXCEPT ![Len(r)] = [r[Len(r)] EXCEPT !.at = to]]
<1>1. /\ sp = current /\ current \in Tasks /\ r \in Seq(Activations)
      /\ WellFormed(r, TRUE)
  BY Facts
<1>2. Len(r) \in Nat /\ Len(r) > 0
  BY <1>1, EmptySeq
<1>3. [r[Len(r)] EXCEPT !.at = to] \in Activations
  BY <1>1 DEF Top
<1>4. /\ s \in Seq(Activations) /\ Len(s) = Len(r) /\ s # <<>>
      /\ s[Len(r)] = [r[Len(r)] EXCEPT !.at = to]
      /\ \A i \in 1 .. Len(r) : i # Len(r) => s[i] = r[i]
  BY <1>1, <1>2, <1>3, ExceptSeq
<1>5. r[Len(r)] \in Activations
  BY <1>1, <1>2
<1>6. /\ s[Len(r)].f = r[Len(r)].f
      /\ s[Len(r)].kind = r[Len(r)].kind
  <2>1. r[Len(r)] = Act(r[Len(r)].kind, r[Len(r)].at, r[Len(r)].f)
    BY <1>5, ActivationFacts
  <2>2. QED
    BY <1>4, <2>1 DEF Act
<1>7. WellFormed(s, TRUE)
  <2>1. ASSUME NEW i \in 1 .. Len(s)
        PROVE  i \in 1 .. Len(r) /\ s[i].f = r[i].f /\ s[i].kind = r[i].kind
    BY <1>4, <1>6
  <2>2. QED
    BY <1>1, <1>4, <2>1 DEF WellFormed
<1>8. Advanced(to) = [stack EXCEPT ![sp] = s]
  BY <1>1 DEF Advanced
<1> HIDE DEF s
<1>9. QED
  BY <1>4, <1>7, <1>8

(* A task picked by task_next is another one, ready, and no ready task     *)
(* lies between the two.                                                   *)
LEMMA TaskNextFacts ==
  ASSUME NEW c \in Tasks, TaskNext(c) # Nowhere
  PROVE  /\ TaskNext(c) \in Tasks /\ TaskNext(c) # c
         /\ state[TaskNext(c)] = "READY"
         /\ \A t \in Tasks :
              state[t] = "READY" /\ t # c /\ t # TaskNext(c) =>
                Ahead(TaskNext(c), t) < Ahead(c, t)
<1> DEFINE n == TaskNext(c)
           ready == {k \in 1 .. MAX_TASKS - 1 : state[(c + k) % MAX_TASKS] = "READY"}
           k == Min(ready)
<1>1. MAX_TASKS \in Nat /\ MAX_TASKS >= 2 /\ c \in Nat /\ c < MAX_TASKS
  BY TasksAssumption DEF Tasks
<1>2. ready # {} /\ n = (c + k) % MAX_TASKS
  BY DEF TaskNext
<1>3. ready \in SUBSET Nat
  BY <1>1
<1>4. k \in ready /\ \A j \in ready : k <= j
  <2> HIDE DEF ready
  <2>1. QED
    BY <1>2, <1>3, MinExists
<1>5. k \in 1 .. MAX_TASKS - 1 /\ state[n] = "READY"
  BY <1>2, <1>4
<1>6. n = IF c + k < MAX_TASKS THEN c + k ELSE c + k - MAX_TASKS
  <2> HIDE DEF k
  <2>1. QED
    BY <1>2, <1>5, RoundTable
<1>7. n \in Tasks /\ n # c
  <2> HIDE DEF k, n
  <2>1. QED
    BY <1>1, <1>5, <1>6 DEF Tasks
<1>8. ASSUME NEW t \in Tasks, state[t] = "READY", t # c, t # n
      PROVE  Ahead(n, t) < Ahead(c, t)
  <2>1. t \in Nat /\ t < MAX_TASKS
    BY <1>1 DEF Tasks
  <2>2. Ahead(c, t) \in 1 .. MAX_TASKS - 1
    BY <1>1, <1>8, <2>1 DEF Ahead
  <2>3. t = IF c + Ahead(c, t) < MAX_TASKS THEN c + Ahead(c, t)
                                          ELSE c + Ahead(c, t) - MAX_TASKS
    BY <1>1, <1>8, <2>1 DEF Ahead
  <2>4. Ahead(c, t) \in ready
    BY <1>8, <2>2, <2>3, RoundTable
  <2>5. k <= Ahead(c, t)
    BY <1>4, <2>4
  <2> HIDE DEF k, n, ready
  <2>6. QED
    BY <1>1, <1>5, <1>6, <1>7, <1>8, <2>1, <2>2, <2>5 DEF Ahead, Tasks
<1>9. QED
  BY <1>5, <1>7, <1>8

(* schedule, from a task_yield or from the tick: the task it leaves can be *)
(* resumed, the one it goes to has its own stack, flag and turn.           *)
LEMMA ScheduleStep ==
  ASSUME IInv, boot # "sti", stack[sp] # <<>>,
         NEW s \in Seq(Activations), s # <<>>, WellFormed(s, TRUE),
         Schedule([stack EXCEPT ![sp] = s]),
         ticks' \in 0 .. TickWidth - 1, UNCHANGED <<state, picVars, bootVars>>
  PROVE  IInv'
<1> DEFINE c == current
           n == TaskNext(current)
           away == Pushed(s, Switch(flag))
           back == Popped(stack[n])
<1> USE DEF picVars, bootVars
<1>1. /\ sp = c /\ c \in Tasks /\ stack \in [Tasks -> Seq(Activations)]
      /\ flag = FALSE
      /\ irr' \subseteq Lines /\ isr' \subseteq Lines
  BY Facts DEF IInv, TypeOK, FlagBelongsToTask
<1>2. CASE n = Nowhere
  <2>1. /\ stack' = [stack EXCEPT ![sp] = s]
        /\ UNCHANGED <<taskVars, bootVars, flag>>
    BY <1>2 DEF Schedule, taskVars
  <2>2. QED
    BY <1>1, <2>1, OwnStackStep
<1>3. CASE n # Nowhere
  <2>1. /\ n \in Tasks /\ n # c /\ state[n] = "READY"
        /\ \A t \in Tasks : state[t] = "READY" /\ t # c /\ t # n =>
                            Ahead(n, t) < Ahead(c, t)
    BY <1>1, <1>3, TaskNextFacts
  <2>2. /\ esp[n] = n /\ stack[n] # <<>> /\ Top(stack[n]).kind = "switch"
    BY <2>1 DEF IInv, ReadyIsResumable
  <2>3. /\ current' = n
        /\ TaskSwitch(c, n, [stack EXCEPT ![sp] = s])
        /\ passed' = [t \in Tasks |-> IF t \in {c, n} \/ state[t] = "FREE"
                                     THEN 0 ELSE passed[t] + 1]
    BY <1>3 DEF Schedule
  <2>4. /\ Switch(flag) \in Activations /\ Switch(flag).kind = "switch"
        /\ Switch(flag).f = FALSE
    <3>1. Switch(flag) \in Activations
      BY <1>1, ActivationKinds
    <3>2. QED
      BY <1>1, <3>1 DEF Switch, Act
  <2>5. /\ away \in Seq(Activations) /\ away # <<>> /\ Top(away).kind = "switch"
        /\ WellFormed(away, FALSE)
    <3>1. Switch(flag).f = (s = <<>>) /\ Switch(flag).kind \notin Lines
      BY <2>4 DEF Lines, Timer, Kbd
    <3>2. QED
      BY <2>4, <3>1, PushedFacts, PushedWellFormed
  <2>6. /\ back \in Seq(Activations) /\ WellFormed(back, TRUE)
        /\ Top(stack[n]).f \in BOOLEAN
        /\ Top(stack[n]).f = (back = <<>>)
    <3>1. WellFormed(stack[n], FALSE) /\ stack[n] \in Seq(Activations)
      BY <1>1, <2>1 DEF IInv, StacksWellFormed
    <3>2. QED
      BY <2>2, <3>1, PoppedFacts, PoppedWellFormed, ActivationFacts
  <2> HIDE DEF away, back
  <2>7. /\ esp' = [esp EXCEPT ![c] = c] /\ sp' = n
        /\ flag' = Top(stack[n]).f
        /\ stack' \in [Tasks -> Seq(Activations)]
        /\ stack'[c] = away /\ stack'[n] = back
        /\ \A t \in Tasks : t # c /\ t # n => stack'[t] = stack[t]
    <3> DEFINE saved == [[stack EXCEPT ![sp] = s] EXCEPT ![sp] = away]
    <3>1. /\ saved \in [Tasks -> Seq(Activations)]
          /\ saved[c] = away
          /\ \A t \in Tasks : t # c => saved[t] = stack[t]
      BY <1>1, <2>5
    <3>2. n # Nowhere /\ esp[n] = n
      BY <1>3, <2>2
    <3>3. [[stack EXCEPT ![sp] = s] EXCEPT ![sp] = Pushed(@, Switch(flag))] = saved
      BY <1>1 DEF away
    <3>4. /\ esp' = [esp EXCEPT ![c] = sp] /\ sp' = n
          /\ flag' = Top(saved[n]).f
          /\ stack' = [saved EXCEPT ![n] = Popped(@)]
      BY <2>3, <3>2, <3>3 DEF TaskSwitch
    <3> HIDE DEF saved
    <3>5. QED
      BY <1>1, <2>1, <2>6, <3>1, <3>4 DEF back
  <2> HIDE DEF n
  <2>8. TypeOK'
    <3>1. esp' \in [Tasks -> Tasks \cup {Nowhere}] /\ sp' \in Tasks /\ flag' \in BOOLEAN
      BY <1>1, <2>1, <2>6, <2>7 DEF IInv, TypeOK
    <3>2. passed' \in [Tasks -> Nat]
      BY <2>3 DEF IInv, TypeOK
    <3>3. QED
      BY <1>1, <2>1, <2>3, <2>7, <3>1, <3>2 DEF IInv, TypeOK
  <2>9. CurrentOwnsStack'
    BY <2>3, <2>7 DEF CurrentOwnsStack
  <2>10. ReadyIsResumable'
    <3>1. ASSUME NEW t \in Tasks, state[t] = "READY", t # n
          PROVE  /\ esp'[t] = t /\ stack'[t] # <<>>
                 /\ Top(stack'[t]).kind = "switch"
      <4>1. CASE t = c
        BY <1>1, <2>5, <2>7, <4>1 DEF IInv, TypeOK
      <4>2. CASE t # c
        <5>1. esp'[t] = esp[t] /\ stack'[t] = stack[t]
          BY <1>1, <2>7, <3>1, <4>2 DEF IInv, TypeOK
        <5>2. QED
          BY <3>1, <4>2, <5>1 DEF IInv, ReadyIsResumable
      <4>3. QED
        BY <4>1, <4>2
    <3>2. QED
      BY <2>3, <3>1 DEF ReadyIsResumable, Top
  <2>11. FlagBelongsToTask'
    BY <2>3, <2>6, <2>7 DEF FlagBelongsToTask
  <2>12. StacksWellFormed'
    <3>1. ASSUME NEW t \in Tasks PROVE WellFormed(stack'[t], t = n)
      <4>1. CASE t = c
        BY <2>1, <2>5, <2>7, <4>1
      <4>2. CASE t = n
        BY <2>6, <2>7, <4>2
      <4>3. CASE t # c /\ t # n
        <5>1. WellFormed(stack[t], FALSE)
          BY <4>3 DEF IInv, StacksWellFormed
        <5>2. QED
          BY <2>7, <4>3, <5>1
      <4>4. QED
        BY <4>1, <4>2, <4>3
    <3>2. QED
      BY <2>3, <3>1 DEF StacksWellFormed, WellFormed
  <2>13. TableSoFar'
    <3>1. boot \notin {"sti", "clear", "self", "current"}
      BY <1>1, <2>1 DEF IInv, TableSoFar
    <3>2. ASSUME boot \in {"forge", "esp", "ready"}
          PROVE  slot \in Tasks /\ esp'[slot] = esp[slot] /\ stack'[slot] = stack[slot]
      <4>1. slot \in Tasks /\ slot # c /\ slot # n
        BY <2>1, <3>2, Facts
      <4>2. QED
        BY <1>1, <2>7, <4>1 DEF IInv, TypeOK
    <3>3. QED
      BY <2>1, <2>3, <3>1, <3>2 DEF IInv, TableSoFar
  <2>14. TurnComes'
    <3>1. ASSUME NEW t \in Tasks, state[t] = "FREE" \/ t = n PROVE passed'[t] = 0
      BY <2>3, <3>1
    <3>2. ASSUME NEW t \in Tasks, state[t] = "READY", t # n
          PROVE  passed'[t] + Ahead(n, t) <= MAX_TASKS - 1
      <4>1. /\ t \in Nat /\ t < MAX_TASKS /\ n \in Nat /\ n < MAX_TASKS
            /\ c \in Nat /\ c < MAX_TASKS /\ MAX_TASKS \in Nat
        BY <1>1, <2>1, TasksAssumption DEF Tasks
      <4>2. CASE t = c
        <5>1. passed'[t] = 0
          BY <2>3, <4>2
        <5>2. QED
          BY <3>2, <4>1, <5>1 DEF Ahead
      <4>3. CASE t # c
        <5>1. passed'[t] = passed[t] + 1 /\ passed[t] \in Nat
          BY <2>3, <3>2, <4>3 DEF IInv, TypeOK
        <5>2. passed[t] + Ahead(c, t) <= MAX_TASKS - 1
          BY <3>2, <4>3 DEF IInv, TurnComes
        <5>3. Ahead(n, t) < Ahead(c, t)
          BY <2>1, <3>2, <4>3
        <5>4. Ahead(n, t) \in Int /\ Ahead(c, t) \in Int
          BY <4>1 DEF Ahead
        <5>5. QED
          BY <4>1, <5>1, <5>2, <5>3, <5>4
      <4>4. QED
        BY <4>2, <4>3
    <3>3. QED
      BY <2>3, <3>1, <3>2 DEF TurnComes, Ahead
  <2>15. QED
    BY <2>8, <2>9, <2>10, <2>11, <2>12, <2>13, <2>14 DEF IInv
<1>4. QED
  BY <1>2, <1>3

-----------------------------------------------------------------------------
(* kmain: every store another task can see *)

(* The first sti, on a stack with nothing but critical sections open. *)
LEMMA StiIInv == IInv /\ Sti => IInv'
<1> SUFFICES ASSUME IInv, Sti PROVE IInv'
  OBVIOUS
<1> USE DEF IInv, taskVars, picVars
<1>1. /\ boot = "sti" /\ boot' = "clear" /\ stack[0] = <<>> /\ flag' = TRUE
      /\ UNCHANGED <<taskVars, stack, picVars, ticks, slot, left>>
  BY DEF Sti, Kmain
<1>2. current = 0 /\ \A t \in Tasks : stack[t] = <<>>
  BY <1>1 DEF TableSoFar
<1>3. TypeOK'
  BY <1>1 DEF TypeOK
<1>4. CurrentOwnsStack' /\ ReadyIsResumable' /\ TurnComes'
  BY <1>1 DEF CurrentOwnsStack, ReadyIsResumable, TurnComes, Ahead, Top
<1>5. FlagBelongsToTask'
  BY <1>1, <1>2 DEF FlagBelongsToTask
<1>6. StacksWellFormed'
  BY <1>1, <1>2, EmptySeq DEF StacksWellFormed, WellFormed
<1>7. TableSoFar'
  BY <1>1 DEF TableSoFar
<1>8. QED
  BY <1>3, <1>4, <1>5, <1>6, <1>7

(* task_init with interrupts on: no task can be chosen until slot 0 is. *)
LEMMA TaskInitIInv ==
  IInv /\ (TaskInitClear \/ TaskInitSelf \/ TaskInitCurrent) => IInv'
<1> SUFFICES ASSUME IInv, TaskInitClear \/ TaskInitSelf \/ TaskInitCurrent
             PROVE  IInv'
  OBVIOUS
<1> USE DEF IInv, picVars
<1>1. /\ boot \in {"clear", "self", "current"}
      /\ boot' \in {"self", "current", "find"}
      /\ UNCHANGED <<esp, stack, sp, flag, picVars, ticks, slot, left, passed>>
  BY DEF TaskInitClear, TaskInitSelf, TaskInitCurrent, Kmain
<1>2. current = 0 /\ current' = 0 /\ 0 \in Tasks
  BY <1>1, Facts DEF TableSoFar, TaskInitClear, TaskInitSelf, TaskInitCurrent
<1>3. /\ state' \in [Tasks -> {"FREE", "READY"}]
      /\ \A t \in Tasks : state'[t] = "READY" <=> t = 0 /\ boot' \in {"current", "find"}
      /\ \A t \in Tasks : t # 0 => state'[t] = state[t]
  <2>1. \A t \in Tasks : state[t] = "READY" <=> t = 0 /\ boot = "current"
    BY <1>1 DEF TableSoFar
  <2>2. state \in [Tasks -> {"FREE", "READY"}]
    BY DEF TypeOK
  <2>3. CASE TaskInitClear
    BY <2>1, <2>2, <2>3 DEF TaskInitClear, Kmain
  <2>4. CASE TaskInitSelf
    BY <1>2, <2>1, <2>2, <2>4 DEF TaskInitSelf, Kmain
  <2>5. CASE TaskInitCurrent
    BY <2>1, <2>2, <2>5 DEF TaskInitCurrent, Kmain
  <2>6. QED
    BY <2>3, <2>4, <2>5
<1>4. TypeOK'
  BY <1>1, <1>2, <1>3 DEF TypeOK
<1>5. CurrentOwnsStack'
  BY <1>1, <1>2 DEF CurrentOwnsStack
<1>6. ReadyIsResumable'
  BY <1>2, <1>3 DEF ReadyIsResumable
<1>7. FlagBelongsToTask' /\ StacksWellFormed'
  BY <1>1, <1>2 DEF FlagBelongsToTask, StacksWellFormed, WellFormed
<1>8. TableSoFar'
  BY <1>1, <1>2, <1>3 DEF TableSoFar
<1>9. TurnComes'
  BY <1>1, <1>2, <1>3 DEF TurnComes, TypeOK
<1>10. QED
  BY <1>4, <1>5, <1>6, <1>7, <1>8, <1>9

(* The search of task_create ends with a free slot, or is given up. *)
LEMMA TaskCreateFindIInv ==
  IInv /\ (TaskCreateFind \/ TaskCreateFull) => IInv'
<1> SUFFICES ASSUME IInv, TaskCreateFind \/ TaskCreateFull PROVE IInv'
  OBVIOUS
<1> USE DEF IInv, taskVars, picVars
<1>1. /\ boot = "find" /\ boot' \in {"find", "forge"} /\ left > 0
      /\ boot' = "forge" => slot' \in Tasks /\ state[slot'] = "FREE" /\ left' = left
      /\ boot' = "find" => slot' = slot /\ left' = left - 1
      /\ UNCHANGED <<taskVars, stack, flag, picVars, ticks>>
  BY DEF TaskCreateFind, TaskCreateFull, Kmain
<1>2. TypeOK'
  BY <1>1, BoundsAssumption DEF TypeOK
<1>3. CurrentOwnsStack' /\ ReadyIsResumable' /\ FlagBelongsToTask'
  BY <1>1 DEF CurrentOwnsStack, ReadyIsResumable, FlagBelongsToTask, Top
<1>4. StacksWellFormed' /\ TurnComes'
  BY <1>1 DEF StacksWellFormed, WellFormed, TurnComes, Ahead
<1>5. TableSoFar'
  BY <1>1 DEF TableSoFar
<1>6. QED
  BY <1>2, <1>3, <1>4, <1>5

(* Nobody else touches the slot being filled: it is free until the end. *)
LEMMA TaskCreateForgeIInv == IInv /\ TaskCreateForge => IInv'
<1> SUFFICES ASSUME IInv, TaskCreateForge PROVE IInv'
  OBVIOUS
<1> USE DEF IInv, taskVars, picVars
<1>1. /\ boot = "forge" /\ boot' = "esp"
      /\ stack' = [stack EXCEPT ![slot] = <<Switch(TRUE)>>]
      /\ UNCHANGED <<taskVars, flag, picVars, ticks, slot, left>>
  BY DEF TaskCreateForge, Kmain
<1>2. /\ slot \in Tasks /\ slot # current /\ state[slot] = "FREE"
      /\ current \in Tasks /\ stack \in [Tasks -> Seq(Activations)]
  BY <1>1, Facts
<1>3. Switch(TRUE) \in Activations /\ <<Switch(TRUE)>> \in Seq(Activations)
  <2>1. Switch(TRUE) \in Activations
    BY ActivationKinds
  <2>2. QED
    BY <2>1, OneIsASequence
<1>4. /\ stack' \in [Tasks -> Seq(Activations)]
      /\ stack'[slot] = <<Switch(TRUE)>>
      /\ \A t \in Tasks : t # slot => stack'[t] = stack[t]
  BY <1>1, <1>2, <1>3
<1>5. WellFormed(<<Switch(TRUE)>>, FALSE)
  <2> DEFINE s == <<Switch(TRUE)>>
  <2>1. Len(s) = 1 /\ s[1] = Switch(TRUE)
    OBVIOUS
  <2>2. Switch(TRUE).f = TRUE /\ Switch(TRUE).kind = "switch"
    BY DEF Switch, Act
  <2> HIDE DEF s
  <2>3. ASSUME NEW i \in 1 .. Len(s) PROVE i = 1
    BY <2>1
  <2>4. QED
    BY <2>1, <2>2, <2>3 DEF WellFormed, s, Lines, Timer, Kbd
<1>6. TypeOK'
  BY <1>1, <1>4 DEF TypeOK
<1>7. CurrentOwnsStack' /\ FlagBelongsToTask' /\ TurnComes'
  BY <1>1, <1>2, <1>4 DEF CurrentOwnsStack, FlagBelongsToTask, TurnComes, Ahead
<1>8. ReadyIsResumable'
  BY <1>1, <1>2, <1>4 DEF ReadyIsResumable, Top
<1>9. StacksWellFormed'
  <2>1. ASSUME NEW t \in Tasks PROVE WellFormed(stack'[t], t = current)
    BY <1>1, <1>2, <1>4, <1>5 DEF StacksWellFormed
  <2>2. QED
    BY <1>1, <2>1 DEF StacksWellFormed, WellFormed
<1>10. TableSoFar'
  BY <1>1, <1>2, <1>4 DEF TableSoFar
<1>11. QED
  BY <1>6, <1>7, <1>8, <1>9, <1>10

(* The frame is in place when esp points to it; the slot is still free. *)
LEMMA TaskCreateEspIInv == IInv /\ TaskCreateEsp => IInv'
<1> SUFFICES ASSUME IInv, TaskCreateEsp PROVE IInv'
  OBVIOUS
<1> USE DEF IInv, picVars
<1>1. /\ boot = "esp" /\ boot' = "ready"
      /\ esp' = [esp EXCEPT ![slot] = slot]
      /\ UNCHANGED <<state, stack, current, sp, flag, picVars, ticks, slot, left, passed>>
  BY DEF TaskCreateEsp, Kmain
<1>2. slot \in Tasks /\ state[slot] = "FREE"
  BY <1>1, Facts
<1>3. /\ esp' \in [Tasks -> Tasks \cup {Nowhere}]
      /\ esp'[slot] = slot
      /\ \A t \in Tasks : t # slot => esp'[t] = esp[t]
  BY <1>1, <1>2 DEF TypeOK
<1>4. TypeOK'
  BY <1>1, <1>3 DEF TypeOK
<1>5. CurrentOwnsStack' /\ FlagBelongsToTask' /\ TurnComes' /\ StacksWellFormed'
  BY <1>1 DEF CurrentOwnsStack, FlagBelongsToTask, TurnComes, Ahead,
              StacksWellFormed, WellFormed
<1>6. ReadyIsResumable'
  BY <1>1, <1>2, <1>3 DEF ReadyIsResumable, Top
<1>7. TableSoFar'
  BY <1>1, <1>3 DEF TableSoFar
<1>8. QED
  BY <1>4, <1>5, <1>6, <1>7

(* Only now may the tick choose it, and it can be resumed. *)
LEMMA TaskCreateReadyIInv == IInv /\ TaskCreateReady => IInv'
<1> SUFFICES ASSUME IInv, TaskCreateReady PROVE IInv'
  OBVIOUS
<1> USE DEF IInv, picVars
<1>1. /\ boot = "ready" /\ boot' = "find"
      /\ state' = [state EXCEPT ![slot] = "READY"]
      /\ slot' = Nowhere /\ left' = left - 1
      /\ UNCHANGED <<esp, stack, current, sp, flag, picVars, ticks, passed>>
  BY DEF TaskCreateReady, Kmain
<1>2. /\ slot \in Tasks /\ slot # current /\ state[slot] = "FREE"
      /\ current \in Tasks
      /\ stack[slot] = <<Switch(TRUE)>> /\ esp[slot] = slot /\ left > 0
  BY <1>1, Facts DEF TableSoFar
<1>3. /\ state' \in [Tasks -> {"FREE", "READY"}]
      /\ \A t \in Tasks : t # slot => state'[t] = state[t]
      /\ state'[slot] = "READY"
  BY <1>1, <1>2 DEF TypeOK
<1>4. TypeOK'
  BY <1>1, <1>2, <1>3, BoundsAssumption DEF TypeOK
<1>5. CurrentOwnsStack' /\ FlagBelongsToTask' /\ StacksWellFormed'
  BY <1>1 DEF CurrentOwnsStack, FlagBelongsToTask, StacksWellFormed, WellFormed
<1>6. ReadyIsResumable'
  <2>1. stack[slot] # <<>> /\ Top(stack[slot]).kind = "switch"
    BY <1>2 DEF Top, Switch, Act
  <2>2. QED
    BY <1>1, <1>2, <1>3, <2>1 DEF ReadyIsResumable, Top
<1>7. TableSoFar'
  BY <1>1, <1>2, <1>3 DEF TableSoFar
<1>8. TurnComes'
  <2>1. passed[slot] = 0
    BY <1>2 DEF TurnComes
  <2>2. Ahead(current, slot) <= MAX_TASKS - 1 /\ Ahead(current, slot) \in Int
    BY <1>2, TasksAssumption DEF Ahead, Tasks
  <2>3. QED
    BY <1>1, <1>2, <1>3, <2>1, <2>2 DEF TurnComes, Ahead
<1>9. QED
  BY <1>4, <1>5, <1>6, <1>7, <1>8

-----------------------------------------------------------------------------
(* critical sections, yields and interrupts *)

(* irq_save and irq_restore. *)
LEMMA SectionIInv == IInv /\ (IrqSave \/ IrqRestore) => IInv'
<1> USE DEF bootVars
<1>1. ASSUME IInv, IrqSave PROVE IInv'
  <2>1. Crit(flag) \in Activations /\ Crit(flag).f = flag /\ Crit(flag).kind = "crit"
    BY <1>1, Facts, ActivationKinds DEF Crit, Act
  <2>2. boot = "sti" => Crit(flag) = Crit(FALSE)
    BY <1>1, Facts DEF IInv, TableSoFar
  <2>3. Crit(flag).kind \notin Lines /\ Crit(flag).kind # "switch"
    BY <2>1 DEF Lines, Timer, Kbd
  <2>4. irr' \subseteq Lines /\ isr' \subseteq Lines
    BY <1>1 DEF IrqSave, IInv, TypeOK, picVars
  <2>5. QED
    BY <1>1, <2>1, <2>2, <2>3, <2>4, PushStep DEF IrqSave
<1>2. ASSUME IInv, IrqRestore PROVE IInv'
  BY <1>2, PopStep DEF IrqRestore, TopIs
<1>3. QED
  BY <1>1, <1>2

(* Only critical sections are open before the first sti. *)
LEMMA NotAtSti ==
  ASSUME IInv, NEW kind, NEW at, TopIs(kind, at), kind # "crit"
  PROVE  /\ boot # "sti" /\ stack[sp] # <<>>
         /\ Top(stack[sp]) \in Activations
         /\ Top(stack[sp]) = Act(kind, at, Top(stack[sp]).f)
         /\ kind \in Lines => Top(stack[sp]).f = TRUE
<1>1. /\ sp = current /\ current \in Tasks /\ stack[current] \in Seq(Activations)
      /\ stack[current] # <<>>
  BY Facts DEF TopIs
<1>2. /\ Top(stack[sp]) \in Activations
      /\ Top(stack[sp]) = stack[sp][Len(stack[sp])]
      /\ Len(stack[sp]) \in 1 .. Len(stack[sp])
  BY <1>1, PoppedFacts
<1>3. Top(stack[sp]) = Act(kind, at, Top(stack[sp]).f)
  BY <1>2, ActivationFacts DEF TopIs
<1>4. ASSUME boot = "sti" PROVE FALSE
  <2>1. current = 0 /\ \A i \in 1 .. Len(stack[0]) : stack[0][i] = Crit(FALSE)
    BY <1>4 DEF IInv, TableSoFar
  <2>2. Top(stack[sp]) = Crit(FALSE)
    BY <1>1, <1>2, <2>1
  <2>3. Top(stack[sp]).kind = "crit"
    BY <2>2 DEF Crit, Act
  <2>4. QED
    BY <2>3 DEF TopIs
<1>5. kind \in Lines => Top(stack[sp]).f = TRUE
  BY <1>2, ActivationFacts DEF TopIs
<1>6. QED
  BY <1>1, <1>2, <1>3, <1>4, <1>5

(* The three steps of task_yield. *)
LEMMA YieldIInv ==
  IInv /\ (YieldEnter \/ YieldSchedule \/ YieldRestore) => IInv'
<1> USE DEF bootVars
<1>1. ASSUME IInv, YieldEnter PROVE IInv'
  <2> DEFINE a == Yield("schedule", flag)
  <2>1. a \in Activations /\ a.f = flag /\ a.kind = "yield"
    BY <1>1, Facts, ActivationKinds DEF Yield, Act
  <2>2. a.kind \notin Lines /\ a.kind # "switch"
    BY <2>1 DEF Lines, Timer, Kbd
  <2>3. irr' \subseteq Lines /\ isr' \subseteq Lines /\ boot # "sti"
    BY <1>1 DEF YieldEnter, IInv, TypeOK, picVars
  <2>4. stack' = [stack EXCEPT ![sp] = Pushed(@, a)]
    BY <1>1 DEF YieldEnter
  <2> HIDE DEF a
  <2>5. QED
    BY <1>1, <2>1, <2>2, <2>3, <2>4, PushStep DEF YieldEnter
<1>2. ASSUME IInv, YieldSchedule PROVE IInv'
  <2>1. /\ boot # "sti" /\ stack[sp] # <<>>
        /\ Top(stack[sp]) \in Activations
        /\ Top(stack[sp]) = Act("yield", "schedule", Top(stack[sp]).f)
    BY <1>2, NotAtSti DEF YieldSchedule
  <2>2. [Top(stack[sp]) EXCEPT !.at = "restore"] = Yield("restore", Top(stack[sp]).f)
    BY <2>1 DEF Act, Yield
  <2>3. [Top(stack[sp]) EXCEPT !.at = "restore"] \in Activations
    BY <2>1, <2>2, ActivationFacts, ActivationKinds
  <2>4. PICK s \in Seq(Activations) :
          /\ Advanced("restore") = [stack EXCEPT ![sp] = s]
          /\ s # <<>> /\ WellFormed(s, TRUE)
    BY <1>2, <2>1, <2>3, AdvancedFacts
  <2>5. Schedule([stack EXCEPT ![sp] = s])
    BY <1>2, <2>4 DEF YieldSchedule
  <2>6. ticks' \in 0 .. TickWidth - 1 /\ UNCHANGED <<state, picVars, bootVars>>
    BY <1>2 DEF YieldSchedule, IInv, TypeOK
  <2>7. QED
    BY <1>2, <2>1, <2>4, <2>5, <2>6, ScheduleStep
<1>3. ASSUME IInv, YieldRestore PROVE IInv'
  BY <1>3, PopStep DEF YieldRestore, TopIs
<1>4. QED
  BY <1>1, <1>2, <1>3

(* The interrupt path, from the request to the end of interrupt and iret. *)
LEMMA InterruptIInv ==
  ASSUME IInv, NEW l \in Lines, Raise(l) \/ Interrupt(l) \/ SendEoi(l) \/ Iret(l)
  PROVE  IInv'
<1> USE DEF bootVars
<1>0. irr \subseteq Lines /\ isr \subseteq Lines /\ ticks \in 0 .. TickWidth - 1
  BY DEF IInv, TypeOK
<1>1. CASE Raise(l)
  BY <1>0, <1>1, LinesStep DEF Raise, taskVars
<1>2. CASE Interrupt(l)
  <2> DEFINE a == Irq(l, "eoi")
  <2>1. a \in Activations /\ a.f = TRUE /\ a.kind = l
    BY ActivationKinds DEF Irq, Act
  <2>2. flag = TRUE /\ boot # "sti"
    BY <1>2, Facts DEF Interrupt, IInv, TableSoFar
  <2>3. a.kind # "switch"
    BY <2>1 DEF Lines, Timer, Kbd
  <2>4. irr' \subseteq Lines /\ isr' \subseteq Lines
    BY <1>0, <1>2 DEF Interrupt
  <2>5. stack' = [stack EXCEPT ![sp] = Pushed(@, a)]
    BY <1>2 DEF Interrupt
  <2> HIDE DEF a
  <2>6. QED
    BY <1>2, <2>1, <2>2, <2>3, <2>4, <2>5, PushStep DEF Interrupt
<1>3. CASE SendEoi(l)
  <2>1. /\ boot # "sti" /\ stack[sp] # <<>>
        /\ Top(stack[sp]) \in Activations
        /\ Top(stack[sp]) = Act(l, "eoi", Top(stack[sp]).f)
        /\ Top(stack[sp]).f = TRUE
    BY <1>3, NotAtSti DEF SendEoi, Lines, Timer, Kbd
  <2>2. Top(stack[sp]) = Act(l, "eoi", TRUE)
    BY <2>1
  <2>3. [Top(stack[sp]) EXCEPT !.at = "handler"] = Irq(l, "handler")
    <3>1. PICK f : f = TRUE
      OBVIOUS
    <3>2. Top(stack[sp]) = Act(l, "eoi", f)
      BY <2>2, <3>1
    <3>3. [Top(stack[sp]) EXCEPT !.at = "handler"] = Act(l, "handler", f)
      BY <3>2, ActMoves
    <3>4. QED
      BY <3>1, <3>3, Zenon DEF Irq
  <2>4. [Top(stack[sp]) EXCEPT !.at = "handler"] \in Activations
    BY <2>3, ActivationKinds
  <2>5. PICK s \in Seq(Activations) :
          /\ Advanced("handler") = [stack EXCEPT ![sp] = s]
          /\ s # <<>> /\ WellFormed(s, TRUE)
    BY <2>1, <2>4, AdvancedFacts
  <2>6. flag' = FALSE
    BY <1>3, <2>1, Facts DEF SendEoi, IInv, FlagBelongsToTask
  <2>7. /\ stack' = [stack EXCEPT ![sp] = s]
        /\ irr' \subseteq Lines /\ isr' \subseteq Lines
        /\ ticks' \in 0 .. TickWidth - 1 /\ UNCHANGED <<taskVars, bootVars>>
    BY <1>0, <1>3, <2>5 DEF SendEoi
  <2>8. QED
    BY <2>1, <2>5, <2>6, <2>7, OwnStackStep
<1>4. CASE Iret(l)
  BY <1>4, PopStep DEF Iret, TopIs
<1>5. QED
  BY <1>1, <1>2, <1>3, <1>4

(* The timer's handler: one more tick, and the switch with it. *)
LEMMA HandlerIInv == IInv /\ (TimerHandler \/ KbdHandler) => IInv'
<1> USE DEF bootVars
<1> SUFFICES ASSUME IInv, NEW l \in Lines, TopIs(l, "handler"),
                    \/ l = Timer /\ TimerHandler
                    \/ l = Kbd /\ KbdHandler
             PROVE  IInv'
  BY DEF TimerHandler, KbdHandler, Lines
<1>1. /\ boot # "sti" /\ stack[sp] # <<>>
      /\ Top(stack[sp]) \in Activations
      /\ Top(stack[sp]) = Act(l, "handler", Top(stack[sp]).f)
      /\ Top(stack[sp]).f = TRUE
  BY NotAtSti DEF Lines, Timer, Kbd
<1>2. Top(stack[sp]) = Act(l, "handler", TRUE)
  BY <1>1
<1>3. [Top(stack[sp]) EXCEPT !.at = "iret"] = Irq(l, "iret")
  <2>1. PICK f : f = TRUE
    OBVIOUS
  <2>2. Top(stack[sp]) = Act(l, "handler", f)
    BY <1>2, <2>1
  <2>3. [Top(stack[sp]) EXCEPT !.at = "iret"] = Act(l, "iret", f)
    BY <2>2, ActMoves
  <2>4. QED
    BY <2>1, <2>3, Zenon DEF Irq
<1>4. [Top(stack[sp]) EXCEPT !.at = "iret"] \in Activations
  BY <1>3, ActivationKinds
<1>5. PICK s \in Seq(Activations) :
        /\ Advanced("iret") = [stack EXCEPT ![sp] = s]
        /\ s # <<>> /\ WellFormed(s, TRUE)
  BY <1>1, <1>4, AdvancedFacts
<1>6. ticks \in 0 .. TickWidth - 1 /\ (ticks + 1) % TickWidth \in 0 .. TickWidth - 1
  <2>1. ticks \in Nat /\ TickWidth \in Nat /\ TickWidth > 0 /\ ticks \in 0 .. TickWidth - 1
    BY WidthAssumption DEF IInv, TypeOK
  <2>2. (ticks + 1) % TickWidth \in 0 .. TickWidth - 1
    BY <2>1, SMTT(30)
  <2>3. QED
    BY <2>1, <2>2
<1>7. CASE TimerHandler
  <2>1. /\ Schedule([stack EXCEPT ![sp] = s])
        /\ ticks' \in 0 .. TickWidth - 1
        /\ UNCHANGED <<state, picVars, bootVars>>
    BY <1>5, <1>6, <1>7 DEF TimerHandler
  <2>2. QED
    BY <1>1, <1>5, <2>1, ScheduleStep
<1>8. CASE KbdHandler
  <2>1. flag' = FALSE
    BY <1>1, <1>8, Facts DEF KbdHandler, IInv, FlagBelongsToTask
  <2>2. /\ stack' = [stack EXCEPT ![sp] = s]
        /\ irr' \subseteq Lines /\ isr' \subseteq Lines
        /\ ticks' \in 0 .. TickWidth - 1 /\ UNCHANGED <<taskVars, bootVars>>
    BY <1>5, <1>6, <1>8 DEF KbdHandler, picVars, IInv, TypeOK
  <2>3. QED
    BY <1>1, <1>5, <2>1, <2>2, OwnStackStep
<1>9. QED
  BY <1>7, <1>8

(* Every step of kmain, of a task, of a handler and of the PIC preserves it. *)
LEMMA NextIInv == IInv /\ [Next]_vars => IInv'
<1>1. ASSUME IInv, UNCHANGED vars PROVE IInv'
  BY <1>1, LinesStep DEF vars, taskVars, bootVars, IInv, TypeOK
<1>2. ASSUME IInv, Boot PROVE IInv'
  BY <1>2, StiIInv, TaskInitIInv, TaskCreateFindIInv, TaskCreateForgeIInv,
     TaskCreateEspIInv, TaskCreateReadyIInv DEF Boot
<1>3. ASSUME IInv, Interrupts PROVE IInv'
  BY <1>3, InterruptIInv, HandlerIInv DEF Interrupts
<1>4. QED
  BY <1>1, <1>2, <1>3, SectionIInv, YieldIInv DEF Next

(* The invariant of the scheduler, for every number of tasks, any nesting  *)
(* of sections and yields, and a tick between any two stores of kmain.     *)
THEOREM SchedulerInvariant == Spec => []IInv
BY InitIInv, NextIInv, PTL DEF Spec

(* current_task is the owner of the stack the CPU is on. *)
THEOREM SchedulerCurrent == Spec => []CurrentOwnsStack
<1>1. IInv => CurrentOwnsStack
  BY DEF IInv
<1>2. QED
  BY <1>1, SchedulerInvariant, PTL

(* Whatever task the next tick picks, also in the middle of task_init or   *)
(* task_create, can be resumed.                                            *)
THEOREM SchedulerResumable == Spec => []ReadyIsResumable
<1>1. IInv => ReadyIsResumable
  BY DEF IInv
<1>2. QED
  BY <1>1, SchedulerInvariant, PTL

(* The interrupt flag is the one of the task that runs. *)
THEOREM SchedulerFlag == Spec => []FlagBelongsToTask
<1>1. IInv => FlagBelongsToTask
  BY DEF IInv
<1>2. QED
  BY <1>1, SchedulerInvariant, PTL

(* The search of task_next passes a ready task over at most MAX_TASKS - 2  *)
(* times before choosing it.                                               *)
THEOREM SchedulerBypass == Spec => []BoundedBypass
<1>1. IInv => BoundedBypass
  <2> SUFFICES ASSUME IInv, NEW t \in Tasks, state[t] = "READY"
               PROVE  passed[t] <= MAX_TASKS - 2
    BY DEF BoundedBypass
  <2>1. MAX_TASKS \in Nat /\ MAX_TASKS >= 2 /\ passed[t] \in Nat
    BY TasksAssumption DEF IInv, TypeOK
  <2>2. CASE t = current
    BY <2>1, <2>2 DEF IInv, TurnComes
  <2>3. CASE t # current
    <3>1. passed[t] + Ahead(current, t) <= MAX_TASKS - 1
      BY <2>3 DEF IInv, TurnComes
    <3>2. Ahead(current, t) \in Int /\ Ahead(current, t) >= 1
      BY <2>1, <2>3, Facts DEF Ahead, Tasks
    <3>3. QED
      BY <2>1, <3>1, <3>2
  <2>4. QED
    BY <2>2, <2>3
<1>2. QED
  BY <1>1, SchedulerInvariant, PTL

(* No task is switched away inside a critical section it did not yield     *)
(* from: a switch is a yield, or a tick on an otherwise empty stack.       *)
THEOREM SchedulerCritical == Spec => NoPreemptionInCritical
<1> DEFINE Left == current' # current /\ boot # "current" =>
                     \/ TopIs("yield", "schedule")
                     \/ TopIs(Timer, "handler") /\ Len(stack[sp]) = 1
<1>1. ASSUME IInv, [Next]_vars PROVE Left
  <2>1. CASE TimerHandler
    <3>1. /\ sp = current /\ current \in Tasks /\ stack[current] \in Seq(Activations)
          /\ stack[current] # <<>> /\ TopIs(Timer, "handler")
      BY <1>1, <2>1, Facts DEF TimerHandler, TopIs
    <3>2. boot # "sti"
      BY <1>1, <3>1, NotAtSti DEF Timer
    <3>3. WellFormed(stack[current], TRUE)
      BY <1>1, <3>2, Facts
    <3>4. Len(stack[current]) \in 1 .. Len(stack[current])
      BY <3>1, PoppedFacts
    <3>5. Len(stack[sp]) = 1
      BY <3>1, <3>3, <3>4 DEF WellFormed, TopIs, Top, Lines
    <3>6. QED
      BY <3>1, <3>5
  <2>2. CASE YieldSchedule
    BY <2>2 DEF YieldSchedule
  <2>3. CASE TaskInitCurrent
    BY <2>3 DEF TaskInitCurrent, Kmain
  <2>4. CASE UNCHANGED current
    BY <2>4
  <2>5. ASSUME ~TimerHandler, ~YieldSchedule, ~TaskInitCurrent PROVE UNCHANGED current
    BY <1>1, <2>5 DEF Next, Boot, Interrupts, vars, taskVars, Sti, TaskInitClear,
       TaskInitSelf, TaskCreateFind, TaskCreateFull, TaskCreateForge,
       TaskCreateEsp, TaskCreateReady, IrqSave, IrqRestore, YieldEnter,
       YieldRestore, Raise, Interrupt, SendEoi, KbdHandler, Iret
  <2>6. QED
    BY <2>1, <2>2, <2>3, <2>4, <2>5
<1>2. IInv /\ [Next]_vars => [Left]_vars
  BY <1>1
<1>3. QED
  BY <1>2, SchedulerInvariant, PTL DEF Spec, NoPreemptionInCritical

=============================================================================
