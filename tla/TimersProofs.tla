---------------------------- MODULE TimersProofs ----------------------------
(***************************************************************************)
(* The timers keep exact time: proofs for any number of timers, any        *)
(* counter width, any prescalers and any sequence of register writes.      *)
(***************************************************************************)
EXTENDS Timers, TLAPS

(* The initial state is of its type. *)
LEMMA InitTypeOK == Init => TypeOK
<1>. SUFFICES ASSUME Init
              PROVE  TypeOK
  OBVIOUS
<1>. DEFINE off == [prescaler |-> 1, cascade |-> FALSE, irq_enable |-> FALSE, enabled |-> FALSE]
<1>1. off \in Control
  BY TimersAssumption DEF Control
<1>2. control = [t \in Timer |-> off]
  BY DEF Init, timer_init
<1>. HIDE DEF off
<1>3. control \in [Timer -> Control]
  BY <1>1, <1>2
<1>4. /\ counter \in [Timer -> Counter] /\ reload \in [Timer -> Counter]
      /\ prescaler_counter \in [Timer -> Nat] /\ irf \subseteq Timer
      /\ cycles \in Nat /\ i \in Timer /\ next \in 0 .. Last + 1
  BY TimersAssumption DEF Init, timer_init, Counter, Timer
<1>. QED BY <1>3, <1>4 DEF Init, TypeOK

(* The fields of a control register. *)
LEMMA ControlFields ==
  ASSUME TypeOK, NEW t \in Timer
  PROVE  /\ Enabled(t) \in BOOLEAN /\ Cascade(t) \in BOOLEAN
         /\ Period(t) \in Nat \ {0}
  BY TimersAssumption DEF TypeOK, Enabled, Cascade, Period, Control

(* Counting up keeps the types. *)
LEMMA IncrementType ==
  ASSUME TypeOK, NEW t \in Timer, Increment(t)
  PROVE  counter' \in [Timer -> Counter] /\ irf' \subseteq Timer
<1>1. counter[t] \in Counter /\ reload[t] \in Counter
  BY DEF TypeOK
<1>2. ~Overflows(t) => counter[t] + 1 \in Counter
  BY <1>1, TimersAssumption DEF Overflows, Counter
<1>. QED BY <1>1, <1>2 DEF Increment, TypeOK

(* Going on to the next timer keeps the types. *)
LEMMA NextTimerType ==
  ASSUME TypeOK, NextTimer
  PROVE  i' \in Timer /\ phase' \in {"idle", "timer"}
  BY TimersAssumption DEF TypeOK, NextTimer, Timer

(* A tick keeps the types. *)
LEMMA TickTypeOK ==
  ASSUME TypeOK, timer_tick
  PROVE  TypeOK'
<1>1. CASE Skip
  BY <1>1, NextTimerType DEF Skip, regvars, TypeOK
<1>2. CASE Feed
  <2>1. prescaler_counter' \in [Timer -> Nat]
    BY <1>2 DEF Feed, TypeOK
  <2>2. phase' = "count" /\ Enabled(i)' /\ ~Cascade(i)'
    BY <1>2 DEF Feed, Enabled, Cascade
  <2>. QED BY <1>2, <2>1, <2>2 DEF Feed, TypeOK
<1>3. CASE Count
  <2>0. i \in Timer /\ Enabled(i) /\ ~Cascade(i)
    BY <1>3 DEF Count, TypeOK
  <2>1. counter' \in [Timer -> Counter] /\ irf' \subseteq Timer
    BY <1>3, <2>0, IncrementType DEF Count
  <2>2. prescaler_counter' \in [Timer -> Nat]
    <3>1. prescaler_counter[i] \in Nat /\ Period(i) \in Nat
      BY <2>0, ControlFields DEF TypeOK
    <3>2. prescaler_counter[i] - Period(i) \in Nat
      BY <1>3, <3>1 DEF Count
    <3>. QED BY <1>3, <3>2 DEF Count, TypeOK
  <2>3. /\ phase' \in {"count", "carry"} /\ Enabled(i)' /\ ~Cascade(i)'
        /\ next' \in 0 .. Last + 1 /\ (phase' = "carry" => next' > i')
    BY <1>3, <2>0, TimersAssumption DEF Count, TypeOK, Enabled, Cascade, Timer
  <2>. QED BY <1>3, <2>1, <2>2, <2>3 DEF Count, TypeOK
<1>4. CASE Carry
  <2>0. next \in Timer /\ i \in Timer /\ Enabled(i) /\ ~Cascade(i) /\ next > i
    BY <1>4, TimersAssumption DEF Carry, Chained, TypeOK, Timer
  <2>1. counter' \in [Timer -> Counter] /\ irf' \subseteq Timer
    BY <1>4, <2>0, IncrementType DEF Carry
  <2>2. /\ phase' \in {"count", "carry"} /\ Enabled(i)' /\ ~Cascade(i)'
        /\ next' \in 0 .. Last + 1 /\ (phase' = "carry" => next' > i')
    BY <1>4, <2>0, TimersAssumption DEF Carry, TypeOK, Enabled, Cascade, Timer
  <2>. QED BY <1>4, <2>1, <2>2 DEF Carry, TypeOK
<1>5. CASE CarryEnd
  BY <1>5, TimersAssumption DEF CarryEnd, regvars, TypeOK, Enabled, Cascade
<1>6. CASE Done
  BY <1>6, NextTimerType DEF Done, regvars, TypeOK
<1>. QED BY <1>1, <1>2, <1>3, <1>4, <1>5, <1>6 DEF timer_tick

(* So do writes to the registers. *)
LEMMA WriteTypeOK ==
  ASSUME TypeOK, NEW t \in Timer
  PROVE  /\ \A v \in Reloads : timer_write_reload(t, v) => TypeOK'
         /\ \A c \in Controls : timer_write_control(t, c) => TypeOK'
<1>1. ASSUME NEW v \in Reloads, timer_write_reload(t, v)
      PROVE  TypeOK'
  BY <1>1, TimersAssumption DEF timer_write_reload, tickvars, TypeOK, Enabled, Cascade
<1>2. ASSUME NEW c \in Controls, timer_write_control(t, c)
      PROVE  TypeOK'
  <2>1. control' \in [Timer -> Control]
    BY <1>2, TimersAssumption DEF timer_write_control, TypeOK
  <2>2. counter' \in [Timer -> Counter] /\ prescaler_counter' \in [Timer -> Nat]
    BY <1>2 DEF timer_write_control, TypeOK
  <2>. QED BY <1>2, <2>1, <2>2 DEF timer_write_control, tickvars, TypeOK
<1>. QED BY <1>1, <1>2

(* Every step keeps the types. *)
LEMMA StepTypeOK == TypeOK /\ [Next]_vars => TypeOK'
<1>. SUFFICES ASSUME TypeOK, [Next]_vars
              PROVE  TypeOK'
  OBVIOUS
<1>1. CASE interrupt_acknowledge(Timer)
  BY <1>1 DEF interrupt_acknowledge, tickvars, TypeOK, Enabled, Cascade
<1>2. ASSUME NEW n \in CycleCounts, Call(n)
      PROVE  TypeOK'
  BY <1>2, TimersAssumption DEF Call, regvars, TypeOK, Timer
<1>3. CASE UNCHANGED vars
  BY <1>3 DEF vars, TypeOK, Enabled, Cascade
<1>. QED BY <1>1, <1>2, <1>3, WriteTypeOK, TickTypeOK DEF Next

(* The counters keep their width, and the loops of timer_tick never leave  *)
(* the array of timers, whatever the program writes.                       *)
THEOREM TimersTypeCorrect == Spec => []TypeOK
  BY InitTypeOK, StepTypeOK, PTL DEF Spec

-----------------------------------------------------------------------------
(* Exact time.                                                             *)

WatchesOK == /\ fed \in [Timer -> Nat]
             /\ from \in [Timer -> Counter]
             /\ wraps \in [Timer -> Nat]

HInv == TypeOK /\ WatchesOK /\ NoCycleLost /\ CascadeCountsOverflows

(* Products of sums, which the provers take as facts. *)
LEMMA Distribute ==
  ASSUME NEW a \in Int, NEW b \in Int
  PROVE  (a + 1) * b = a * b + b
  OBVIOUS

(* The same on the right. *)
LEMMA DistributeRight ==
  ASSUME NEW a \in Int, NEW b \in Int
  PROVE  a * (b + 1) = a * b + a
  OBVIOUS

(* Products are integers. *)
LEMMA ProductInt ==
  ASSUME NEW a \in Int, NEW b \in Int
  PROVE  a * b \in Int
  OBVIOUS

(* The count of a timer since it was started. *)
LEMMA CountedInt ==
  ASSUME TypeOK, WatchesOK, NEW t \in Timer
  PROVE  /\ counter[t] \in Counter /\ reload[t] \in Counter /\ from[t] \in Counter
         /\ wraps[t] \in Nat /\ fed[t] \in Nat
         /\ Counted(t) \in Int
<1>1. /\ counter[t] \in Counter /\ reload[t] \in Counter /\ from[t] \in Counter
      /\ wraps[t] \in Nat /\ fed[t] \in Nat
  BY DEF TypeOK, WatchesOK
<1>2. wraps[t] * (Modulus - reload[t]) \in Int
  BY <1>1, ProductInt, TimersAssumption DEF Counter
<1>. QED BY <1>1, <1>2, TimersAssumption DEF Counted, Counter

(* One increment is worth one, whether or not the counter wraps. *)
LEMMA CountedStep ==
  ASSUME TypeOK, WatchesOK, NEW t \in Timer, Increment(t), Watch(t), UNCHANGED reload
  PROVE  /\ Counted(t)' = Counted(t) + 1
         /\ \A u \in Timer \ {t} : Counted(u)' = Counted(u)
<1>0. /\ counter[t] \in Counter /\ reload[t] \in Counter /\ from[t] \in Counter
      /\ wraps[t] \in Nat
  BY CountedInt
<1>1. from' = from
  BY DEF Watch
<1>2. CASE Overflows(t)
  <2>1. counter'[t] = reload[t] /\ wraps'[t] = wraps[t] + 1 /\ counter[t] = Modulus - 1
    BY <1>0, <1>2, TimersAssumption DEF Increment, Watch, Overflows, TypeOK, WatchesOK, Counter
  <2>. DEFINE d == Modulus - reload[t]
  <2>2. d \in Int /\ wraps[t] * d \in Int
    BY <1>0, ProductInt, TimersAssumption DEF Counter
  <2>3. (wraps[t] + 1) * d = wraps[t] * d + d
    BY <1>0, <2>2, Distribute
  <2>4. Counted(t)' = reload[t] - from[t] + (wraps[t] + 1) * d
    BY <1>1, <2>1 DEF Counted
  <2>5. Counted(t) = Modulus - 1 - from[t] + wraps[t] * d
    BY <2>1 DEF Counted
  <2>6. d = Modulus - reload[t]
    OBVIOUS
  <2>. DEFINE w == wraps[t] * d
  <2>7. Counted(t)' = Counted(t) + 1
    <3>1. w \in Int /\ d \in Int
      BY <2>2
    <3>2. Counted(t)' = reload[t] - from[t] + (w + d)
      BY <2>3, <2>4
    <3>3. Counted(t) = Modulus - 1 - from[t] + w
      BY <2>5
    <3>. HIDE DEF w, d
    <3>. QED BY <1>0, <2>6, <3>1, <3>2, <3>3, TimersAssumption DEF Counter
  <2>8. ASSUME NEW u \in Timer \ {t}
        PROVE  Counted(u)' = Counted(u)
    <3>1. counter'[u] = counter[u] /\ wraps'[u] = wraps[u]
      BY <1>2 DEF Increment, Watch, TypeOK, WatchesOK
    <3>. QED BY <1>1, <3>1 DEF Counted
  <2>. QED BY <2>7, <2>8
<1>3. CASE ~Overflows(t)
  <2>1. counter'[t] = counter[t] + 1 /\ wraps' = wraps
    BY <1>3 DEF Increment, Watch, TypeOK
  <2>2. wraps[t] * (Modulus - reload[t]) \in Int
    BY <1>0, ProductInt, TimersAssumption DEF Counter
  <2>3. Counted(t)' = (counter[t] + 1) - from[t] + wraps[t] * (Modulus - reload[t])
    <3>1. Counted(t)' = counter'[t] - from'[t] + wraps'[t] * (Modulus - reload'[t])
      BY DEF Counted
    <3>2. from'[t] = from[t] /\ wraps'[t] = wraps[t] /\ reload'[t] = reload[t]
      BY <1>1, <2>1
    <3>. QED BY <2>1, <3>1, <3>2, Zenon
  <2>4. Counted(t)' = Counted(t) + 1
    BY <1>0, <2>2, <2>3 DEF Counted, Counter
  <2>5. \A u \in Timer \ {t} : counter'[u] = counter[u]
    BY <1>3 DEF Increment, TypeOK
  <2>. QED BY <1>1, <2>1, <2>4, <2>5 DEF Counted
<1>. QED BY <1>2, <1>3

(* The history of a timer keeps its type. *)
LEMMA WatchType ==
  ASSUME TypeOK, WatchesOK, NEW t \in Timer, Watch(t)
  PROVE  WatchesOK'
  BY DEF Watch, WatchesOK, Chained, TypeOK

(* An overflow feeds the timer chained to it, and only that. *)
LEMMA WatchFed ==
  ASSUME TypeOK, WatchesOK, NEW t \in Timer, Watch(t), NEW u \in Timer
  PROVE  fed'[u] = IF Overflows(t) /\ Chained(t + 1) /\ u = t + 1 THEN fed[u] + 1 ELSE fed[u]
  BY DEF Watch, WatchesOK

(* A register write restarts the measurement of its timer. *)
LEMMA MeasureStep ==
  ASSUME HInv, NEW t \in Timer, Measure(t), TypeOK', phase = "idle", UNCHANGED tickvars,
         \A u \in Timer \ {t} : /\ counter'[u] = counter[u] /\ reload'[u] = reload[u]
                                /\ control'[u] = control[u]
                                /\ prescaler_counter'[u] = prescaler_counter[u]
  PROVE  HInv'
<1>1. phase' # "carry"
  BY DEF tickvars
<1>2. WatchesOK'
  <2>1. prescaler_counter'[t] \in Nat /\ counter'[t] \in Counter
    BY DEF TypeOK
  <2>. QED BY <2>1 DEF Measure, HInv, WatchesOK
<1>3. Counted(t)' = 0
  <2>1. counter'[t] \in Counter /\ from'[t] = counter'[t] /\ wraps'[t] = 0
    BY DEF Measure, HInv, WatchesOK, TypeOK
  <2>2. Modulus - reload'[t] \in Int
    BY TimersAssumption DEF TypeOK, Counter
  <2>3. 0 * (Modulus - reload'[t]) = 0
    BY <2>2
  <2>. QED BY <2>1, <2>3 DEF Counted, Counter
<1>4. fed'[t] = IF Cascade(t)' THEN 0 ELSE prescaler_counter'[t]
  BY DEF Measure, HInv, WatchesOK
<1>5. \A u \in Timer \ {t} : fed'[u] = fed[u] /\ from'[u] = from[u] /\ wraps'[u] = wraps[u]
  BY DEF Measure, HInv, WatchesOK
<1>6. \A u \in Timer \ {t} : /\ Counted(u)' = Counted(u) /\ Period(u)' = Period(u)
                             /\ (Enabled(u)' <=> Enabled(u)) /\ (Cascade(u)' <=> Cascade(u))
  BY <1>5 DEF Counted, Period, Enabled, Cascade
<1>7. NoCycleLost'
  <2>1. ASSUME NEW u \in Timer, Enabled(u)', ~Cascade(u)'
        PROVE  fed'[u] = Period(u)' * Counted(u)' + prescaler_counter'[u]
    <3>1. CASE u = t
      <4>1. Period(t)' \in Nat /\ prescaler_counter'[t] \in Nat
        BY TimersAssumption DEF TypeOK, Period, Control
      <4>2. Period(t)' * 0 = 0
        BY <4>1
      <4>. QED BY <1>3, <1>4, <2>1, <3>1, <4>1, <4>2
    <3>2. CASE u # t
      BY <1>5, <1>6, <2>1, <3>2 DEF HInv, NoCycleLost
    <3>. QED BY <3>1, <3>2
  <2>. QED BY <2>1 DEF NoCycleLost
<1>8. CascadeCountsOverflows'
  <2>1. ASSUME NEW u \in Timer, Enabled(u)', Cascade(u)'
        PROVE  fed'[u] = Counted(u)' + 0
    <3>1. CASE u = t
      BY <1>3, <1>4, <2>1, <3>1
    <3>2. CASE u # t
      BY <1>5, <1>6, <2>1, <3>2 DEF HInv, CascadeCountsOverflows
    <3>. QED BY <3>1, <3>2
  <2>. QED BY <1>1, <2>1 DEF CascadeCountsOverflows
<1>. QED BY <1>2, <1>7, <1>8 DEF HInv

(* Feeding cycles keeps both balances. *)
LEMMA FeedStep ==
  ASSUME HInv, TypeOK', Feed, fed' = [fed EXCEPT ![i] = @ + cycles], UNCHANGED <<from, wraps>>
  PROVE  HInv'
<1>0. i \in Timer /\ cycles \in Nat /\ prescaler_counter[i] \in Nat /\ TypeOK /\ WatchesOK
  BY DEF HInv, TypeOK
<1>1. WatchesOK'
  BY <1>0 DEF WatchesOK
<1>2. \A u \in Timer : /\ Counted(u)' = Counted(u) /\ Period(u)' = Period(u)
                       /\ (Enabled(u)' <=> Enabled(u)) /\ (Cascade(u)' <=> Cascade(u))
  BY DEF Feed, Counted, Period, Enabled, Cascade
<1>3. NoCycleLost'
  <2>1. ASSUME NEW u \in Timer, Enabled(u), ~Cascade(u)
        PROVE  fed'[u] = Period(u) * Counted(u) + prescaler_counter'[u]
    <3>1. fed[u] = Period(u) * Counted(u) + prescaler_counter[u]
      BY <2>1 DEF HInv, NoCycleLost
    <3>2. Period(u) \in Int /\ Counted(u) \in Int /\ prescaler_counter[u] \in Nat
      BY <1>0, CountedInt, ControlFields DEF TypeOK
    <3>. DEFINE prod == Period(u) * Counted(u)
    <3>3. prod \in Int
      BY <3>2, ProductInt
    <3>4. fed[u] = prod + prescaler_counter[u]
      BY <3>1
    <3>. HIDE DEF prod
    <3>5. fed'[u] = prod + prescaler_counter'[u]
      BY <1>0, <3>2, <3>3, <3>4 DEF Feed, WatchesOK, TypeOK
    <3>. QED BY <3>5 DEF prod
  <2>. QED BY <1>2, <2>1 DEF NoCycleLost
<1>4. CascadeCountsOverflows'
  <2>1. phase # "carry" /\ phase' # "carry" /\ ~Cascade(i)
    BY DEF Feed
  <2>2. ASSUME NEW u \in Timer, Enabled(u), Cascade(u)
        PROVE  fed'[u] = Counted(u) + 0
    <3>1. fed'[u] = fed[u]
      BY <1>0, <2>1, <2>2 DEF WatchesOK
    <3>. QED BY <2>1, <2>2, <3>1 DEF HInv, CascadeCountsOverflows
  <2>. QED BY <1>2, <2>1, <2>2 DEF CascadeCountsOverflows
<1>. QED BY <1>1, <1>3, <1>4 DEF HInv

(* Counting up by the prescaler keeps both balances. *)
LEMMA CountStep ==
  ASSUME HInv, TypeOK', Count, Watch(i)
  PROVE  HInv'
<1>n. PICK n \in Timer : n = i
  BY DEF HInv, TypeOK
<1>0. /\ n = i /\ n \in Nat /\ i' = i /\ TypeOK /\ WatchesOK
      /\ Enabled(n) /\ ~Cascade(n)
      /\ Increment(n) /\ Watch(n) /\ UNCHANGED <<reload, control>>
      /\ phase = "count"
  BY <1>n DEF HInv, TypeOK, Count, Timer
<1>1. WatchesOK'
  BY <1>0, WatchType
<1>2. /\ Counted(n)' = Counted(n) + 1
      /\ \A u \in Timer \ {n} : Counted(u)' = Counted(u)
  BY <1>0, CountedStep
<1>3. \A u \in Timer : /\ Period(u)' = Period(u)
                       /\ (Enabled(u)' <=> Enabled(u)) /\ (Cascade(u)' <=> Cascade(u))
  BY <1>0 DEF Period, Enabled, Cascade
<1>4. ASSUME NEW u \in Timer, Enabled(u), ~Cascade(u)
      PROVE  fed'[u] = Period(u) * Counted(u)' + prescaler_counter'[u]
  <2>0. fed[u] = Period(u) * Counted(u) + prescaler_counter[u]
    BY <1>4 DEF HInv, NoCycleLost
  <2>1. fed'[u] = fed[u]
    BY <1>0, <1>4, WatchFed DEF Chained
  <2>2. CASE u = n
    <3>1. Period(n) \in Int /\ Counted(n) \in Int /\ prescaler_counter[n] \in Nat
      BY <1>0, CountedInt, ControlFields DEF TypeOK
    <3>. DEFINE prod == Period(n) * Counted(n)
    <3>2. prod \in Int /\ Period(n) * (Counted(n) + 1) = prod + Period(n)
      BY <3>1, ProductInt, DistributeRight
    <3>3. prescaler_counter'[n] = prescaler_counter[n] - Period(n)
      BY <1>0 DEF Count, TypeOK
    <3>4. fed[n] = prod + prescaler_counter[n]
      BY <2>0, <2>2
    <3>. HIDE DEF prod
    <3>5. fed[n] = prod + Period(n) + prescaler_counter'[n]
      BY <3>1, <3>2, <3>3, <3>4
    <3>. QED BY <1>2, <2>1, <2>2, <3>2, <3>5
  <2>3. CASE u # n
    <3>1. prescaler_counter'[u] = prescaler_counter[u]
      BY <1>0, <2>3 DEF Count, TypeOK
    <3>. QED BY <1>2, <2>0, <2>1, <2>3, <3>1
  <2>. QED BY <2>2, <2>3
<1>5. NoCycleLost'
  BY <1>3, <1>4 DEF NoCycleLost
<1>6. ASSUME NEW u \in Timer, Enabled(u), Cascade(u)
      PROVE  fed'[u] = Counted(u)' + (IF phase' = "carry" /\ next' = u THEN 1 ELSE 0)
  <2>1. u # n /\ Counted(u)' = Counted(u) /\ Counted(u) \in Int /\ fed[u] \in Nat
    BY <1>0, <1>2, <1>6, CountedInt
  <2>2. fed[u] = Counted(u)
    BY <1>0, <1>6, <2>1 DEF HInv, CascadeCountsOverflows
  <2>3. (phase' = "carry" /\ next' = u) <=> (Overflows(n) /\ u = n + 1)
    BY <1>0 DEF Count
  <2>4. u = n + 1 => Chained(n + 1)
    BY <1>6 DEF Chained, Timer
  <2>5. fed'[u] = IF Overflows(n) /\ Chained(n + 1) /\ u = n + 1 THEN fed[u] + 1 ELSE fed[u]
    BY <1>0, WatchFed
  <2>. QED BY <2>1, <2>2, <2>3, <2>4, <2>5
<1>7. CascadeCountsOverflows'
  BY <1>3, <1>6 DEF CascadeCountsOverflows
<1>. QED BY <1>1, <1>5, <1>7 DEF HInv

(* Carrying an overflow to the next timer keeps both balances. *)
LEMMA CarryStep ==
  ASSUME HInv, TypeOK', Carry, Watch(next)
  PROVE  HInv'
<1>n. PICK n \in Timer : n = next
  BY TimersAssumption DEF HInv, TypeOK, Carry, Chained, Timer
<1>0. /\ n = next /\ n \in Nat /\ TypeOK /\ WatchesOK
      /\ Enabled(n) /\ Cascade(n)
      /\ Increment(n) /\ Watch(n) /\ UNCHANGED <<reload, control, prescaler_counter>>
      /\ phase = "carry"
  BY <1>n DEF HInv, TypeOK, Carry, Chained, Timer
<1>1. WatchesOK'
  BY <1>0, WatchType
<1>2. /\ Counted(n)' = Counted(n) + 1
      /\ \A u \in Timer \ {n} : Counted(u)' = Counted(u)
  BY <1>0, CountedStep
<1>3. \A u \in Timer : /\ Period(u)' = Period(u)
                       /\ (Enabled(u)' <=> Enabled(u)) /\ (Cascade(u)' <=> Cascade(u))
  BY <1>0 DEF Period, Enabled, Cascade
<1>4. ASSUME NEW u \in Timer, Enabled(u), ~Cascade(u)
      PROVE  fed'[u] = Period(u) * Counted(u)' + prescaler_counter'[u]
  <2>1. fed'[u] = fed[u]
    BY <1>0, <1>4, WatchFed DEF Chained
  <2>2. u # n /\ prescaler_counter'[u] = prescaler_counter[u]
    BY <1>0, <1>4
  <2>. QED BY <1>2, <1>4, <2>1, <2>2 DEF HInv, NoCycleLost
<1>5. NoCycleLost'
  BY <1>3, <1>4 DEF NoCycleLost
<1>6. ASSUME NEW u \in Timer, Enabled(u), Cascade(u)
      PROVE  fed'[u] = Counted(u)' + (IF phase' = "carry" /\ next' = u THEN 1 ELSE 0)
  <2>1. Counted(u) \in Int /\ fed[u] \in Nat /\ u \in Int
    BY <1>0, CountedInt DEF Timer
  <2>2. fed[u] = Counted(u) + (IF u = n THEN 1 ELSE 0)
    BY <1>0, <1>6 DEF HInv, CascadeCountsOverflows
  <2>3. (phase' = "carry" /\ next' = u) <=> (Overflows(n) /\ u = n + 1)
    BY <1>0 DEF Carry
  <2>4. u = n + 1 => Chained(n + 1)
    BY <1>6 DEF Chained, Timer
  <2>5. fed'[u] = IF Overflows(n) /\ Chained(n + 1) /\ u = n + 1
                  THEN fed[u] + 1 ELSE fed[u]
    BY <1>0, WatchFed
  <2>6. CASE u = n
    BY <1>0, <1>2, <2>1, <2>2, <2>3, <2>5, <2>6
  <2>7. CASE u # n
    BY <1>2, <2>1, <2>2, <2>3, <2>4, <2>5, <2>7
  <2>. QED BY <2>6, <2>7
<1>7. CascadeCountsOverflows'
  BY <1>3, <1>6 DEF CascadeCountsOverflows
<1>. QED BY <1>1, <1>5, <1>7 DEF HInv

(* Steps that only move the loops, or nothing at all. *)
LEMMA QuietStep ==
  ASSUME HInv, TypeOK', UNCHANGED <<counter, reload, control, prescaler_counter, fed, from, wraps>>,
         \A u \in Timer : Chained(u) =>
           ((phase' = "carry" /\ next' = u) <=> (phase = "carry" /\ next = u))
  PROVE  HInv'
<1>1. \A u \in Timer : /\ Counted(u)' = Counted(u) /\ Period(u)' = Period(u)
                       /\ (Enabled(u)' <=> Enabled(u)) /\ (Cascade(u)' <=> Cascade(u))
  BY DEF Counted, Period, Enabled, Cascade
<1>2. \A u \in Timer : Enabled(u) /\ Cascade(u) => Chained(u)
  BY TimersAssumption DEF Chained, Timer
<1>3. WatchesOK'
  BY DEF HInv, WatchesOK
<1>4. NoCycleLost'
  BY <1>1 DEF HInv, NoCycleLost
<1>5. CascadeCountsOverflows'
  <2>1. ASSUME NEW u \in Timer, Enabled(u), Cascade(u)
        PROVE  fed[u] = Counted(u) + (IF phase' = "carry" /\ next' = u THEN 1 ELSE 0)
    BY <1>2, <2>1 DEF HInv, CascadeCountsOverflows
  <2>. QED BY <1>1, <2>1 DEF CascadeCountsOverflows
<1>. QED BY <1>3, <1>4, <1>5 DEF HInv

(* Every step keeps the invariant. *)
LEMMA StepHInv == HInv /\ [HNext]_hvars => HInv'
<1>. SUFFICES ASSUME HInv, [HNext]_hvars
              PROVE  HInv'
  OBVIOUS
<1>0. TypeOK /\ (HNext => Next)
  BY DEF HInv, HNext, HWrite, HCall, HTick, Next, timer_tick
<1>1. TypeOK'
  BY <1>0, StepTypeOK DEF vars, hvars
<1>2. ASSUME NEW t \in Timer, NEW v \in Reloads, timer_write_reload(t, v), Measure(t)
      PROVE  HInv'
  BY <1>1, <1>2, MeasureStep DEF timer_write_reload, HInv, TypeOK
<1>3. ASSUME NEW t \in Timer, NEW c \in Controls, timer_write_control(t, c), Measure(t)
      PROVE  HInv'
  <2>1. \A u \in Timer \ {t} : /\ counter'[u] = counter[u] /\ reload'[u] = reload[u]
                               /\ control'[u] = control[u]
                               /\ prescaler_counter'[u] = prescaler_counter[u]
    BY <1>0, <1>3 DEF timer_write_control, TypeOK
  <2>. QED BY <1>1, <1>3, <2>1, MeasureStep DEF timer_write_control
<1>4. CASE interrupt_acknowledge(Timer) /\ UNCHANGED <<fed, from, wraps>>
  BY <1>1, <1>4, QuietStep DEF interrupt_acknowledge, tickvars
<1>5. ASSUME NEW n \in CycleCounts, Call(n), UNCHANGED <<fed, from, wraps>>
      PROVE  HInv'
  BY <1>1, <1>5, QuietStep DEF Call, regvars
<1>6. CASE Feed /\ fed' = [fed EXCEPT ![i] = @ + cycles] /\ UNCHANGED <<from, wraps>>
  BY <1>1, <1>6, FeedStep
<1>7. CASE Count /\ Watch(i)
  BY <1>1, <1>7, CountStep
<1>8. CASE Carry /\ Watch(next)
  BY <1>1, <1>8, CarryStep
<1>9. CASE (Skip \/ CarryEnd \/ Done) /\ UNCHANGED <<fed, from, wraps>>
  BY <1>1, <1>9, QuietStep DEF Skip, CarryEnd, Done, NextTimer, regvars
<1>10. CASE UNCHANGED hvars
  BY <1>1, <1>10, QuietStep DEF hvars
<1>. QED
  BY <1>2, <1>3, <1>4, <1>5, <1>6, <1>7, <1>8, <1>9, <1>10
     DEF HNext, HWrite, HCall, HTick

(* The balances hold in every state. *)
LEMMA HistoryInvariant == HSpec => []HInv
<1>1. HInit => HInv
  <2>. SUFFICES ASSUME HInit
                PROVE  HInv
    OBVIOUS
  <2>1. TypeOK
    BY InitTypeOK DEF HInit
  <2>2. WatchesOK
    BY TimersAssumption DEF HInit, WatchesOK, Counter
  <2>3. \A t \in Timer : ~Enabled(t)
    BY DEF HInit, Init, timer_init, Enabled
  <2>. QED BY <2>1, <2>2, <2>3 DEF HInv, NoCycleLost, CascadeCountsOverflows
<1>. QED BY <1>1, StepHInv, PTL DEF HSpec

(* A free-running timer keeps exact time: not one cycle given to           *)
(* timer_tick is lost or counted twice, for every prescaler, reload value, *)
(* counter width and length of the measurement, whatever is written in     *)
(* between.                                                                *)
THEOREM TimersLoseNoCycle == HSpec => []NoCycleLost
  BY HistoryInvariant, PTL DEF HInv

(* Chained timers count exactly the overflows of the timer before them.    *)
THEOREM TimersCascade == HSpec => []CascadeCountsOverflows
  BY HistoryInvariant, PTL DEF HInv
=============================================================================
