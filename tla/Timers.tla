------------------------------- MODULE Timers -------------------------------
(***************************************************************************)
(* The four hardware timers of timer/timer.c.  timer_tick is a loop in a   *)
(* loop in a loop (timers, prescaler periods, cascade chain); each of its  *)
(* iterations is a step here, so that every intermediate state is seen.    *)
(* The processor writes the registers between two ticks.                   *)
(***************************************************************************)
EXTENDS Integers

CONSTANTS Last,          \* the number of the last timer (3)
          Modulus,       \* the counters count modulo this (2^16)
          Prescalers,    \* prescaler_values (1, 64, 256, 1024)
          CycleCounts,   \* the arguments of timer_tick (960 and 272)
          Reloads,       \* the reload values the program uses
          Controls       \* the decoded control words the program uses

Timer   == 0..Last
Counter == 0 .. Modulus - 1
Control == [prescaler : Prescalers, cascade : BOOLEAN, irq_enable : BOOLEAN,
            enabled : BOOLEAN]

ASSUME TimersAssumption ==
  /\ Last \in Nat
  /\ Modulus \in Nat \ {0}
  /\ Prescalers \subseteq Nat \ {0}
  /\ CycleCounts \subseteq Nat
  /\ Reloads \subseteq Counter
  /\ Controls \subseteq Control
  /\ 1 \in Prescalers

VARIABLES counter, reload,
          control,             \* the decoded fields of TMxCNT_H
          prescaler_counter,
          irf,                 \* the timers whose bit is set in IF
          phase,               \* where timer_tick is
          cycles,              \* its argument
          i,                   \* its outer loop
          next                 \* its cascade loop (0 outside it)

regvars  == <<counter, reload, control, prescaler_counter, irf>>
tickvars == <<phase, cycles, i, next>>
vars     == <<counter, reload, control, prescaler_counter, irf, phase, cycles, i, next>>

Enabled(t) == control[t].enabled
Cascade(t) == control[t].cascade
Period(t)  == control[t].prescaler

-----------------------------------------------------------------------------
timer_init == /\ counter = [t \in Timer |-> 0]
              /\ reload  = [t \in Timer |-> 0]
              /\ control = [t \in Timer |-> [prescaler |-> 1, cascade |-> FALSE,
                                             irq_enable |-> FALSE, enabled |-> FALSE]]
              /\ prescaler_counter = [t \in Timer |-> 0]

Init == timer_init /\ irf = {} /\ phase = "idle" /\ cycles = 0 /\ i = 0 /\ next = 0

(* Register writes. *)
timer_write_reload(t, v) ==
  /\ phase = "idle"
  /\ reload' = [reload EXCEPT ![t] = v]
  /\ UNCHANGED <<counter, control, prescaler_counter, irf, tickvars>>

(* The rising edge of the enable bit reloads the counter and restarts the  *)
(* prescaler.                                                              *)
timer_write_control(t, c) ==
  LET rising == ~Enabled(t) /\ c.enabled IN
  /\ phase = "idle"
  /\ control' = [control EXCEPT ![t] = c]
  /\ counter' = IF rising THEN [counter EXCEPT ![t] = reload[t]] ELSE counter
  /\ prescaler_counter' = IF rising THEN [prescaler_counter EXCEPT ![t] = 0]
                          ELSE prescaler_counter
  /\ UNCHANGED <<reload, irf, tickvars>>

(* The program acknowledges timer interrupts in IF.                        *)
interrupt_acknowledge(S) ==
  /\ phase = "idle"
  /\ irf' = irf \ S
  /\ UNCHANGED <<counter, reload, control, prescaler_counter, tickvars>>

-----------------------------------------------------------------------------
(* timer_tick.                                                             *)
Call(n) == /\ phase = "idle"
           /\ phase' = "timer" /\ cycles' = n /\ i' = 0
           /\ UNCHANGED <<next, regvars>>

NextTimer == IF i = Last THEN phase' = "idle" /\ UNCHANGED i
             ELSE phase' = "timer" /\ i' = i + 1

\* Mutant: a timer that is skipped is looked at again and again.
SkipStays == /\ phase = "timer"
             /\ ~Enabled(i) \/ Cascade(i)
             /\ UNCHANGED <<phase, i, cycles, next, regvars>>

(* Timers that are off, or driven by the one before, are skipped. *)
Skip == /\ phase = "timer"
        /\ ~Enabled(i) \/ Cascade(i)
        /\ NextTimer
        /\ UNCHANGED <<cycles, next, regvars>>

Feed == /\ phase = "timer"
        /\ Enabled(i) /\ ~Cascade(i)
        /\ prescaler_counter' = [prescaler_counter EXCEPT ![i] = @ + cycles]
        /\ phase' = "count"
        /\ UNCHANGED <<counter, reload, control, irf, cycles, i, next>>

(* counter++ wraps to 0 in 16 bits: then the counter is reloaded and the   *)
(* interrupt requested.  The sound FIFOs hear of it too (module SoundFifo). *)
Overflows(t) == counter[t] + 1 = Modulus

Increment(t) ==
  /\ counter' = [counter EXCEPT ![t] = IF Overflows(t) THEN reload[t] ELSE @ + 1]
  /\ irf' = IF Overflows(t) /\ control[t].irq_enable THEN irf \cup {t} ELSE irf

\* Mutant: the whole backlog is dropped after one period.
CountDropsBacklog ==
  /\ phase = "count"
  /\ prescaler_counter[i] >= Period(i)
  /\ prescaler_counter' = [prescaler_counter EXCEPT ![i] = @ % Period(i)]
  /\ Increment(i)
  /\ IF Overflows(i) THEN phase' = "carry" /\ next' = i + 1
     ELSE UNCHANGED <<phase, next>>
  /\ UNCHANGED <<reload, control, cycles, i>>

(* One prescaler period. *)
Count == /\ phase = "count"
         /\ prescaler_counter[i] >= Period(i)
         /\ prescaler_counter' = [prescaler_counter EXCEPT ![i] = @ - Period(i)]
         /\ Increment(i)
         /\ IF Overflows(i) THEN phase' = "carry" /\ next' = i + 1
            ELSE UNCHANGED <<phase, next>>
         /\ UNCHANGED <<reload, control, cycles, i>>

Chained(t) == t <= Last /\ Enabled(t) /\ Cascade(t)

\* Mutant: the chain goes on only while the cascaded timer does not overflow.
CarryOnce ==
  /\ phase = "carry"
  /\ Chained(next)
  /\ Increment(next)
  /\ phase' = "count" /\ next' = 0
  /\ UNCHANGED <<reload, control, prescaler_counter, cycles, i>>

(* The timer after one that overflowed, if it cascades, counts one.        *)
Carry == /\ phase = "carry"
         /\ Chained(next)
         /\ Increment(next)
         /\ IF Overflows(next) THEN next' = next + 1 /\ UNCHANGED phase
            ELSE phase' = "count" /\ next' = 0
         /\ UNCHANGED <<reload, control, prescaler_counter, cycles, i>>

CarryEnd == /\ phase = "carry"
            /\ ~Chained(next)
            /\ phase' = "count" /\ next' = 0
            /\ UNCHANGED <<cycles, i, regvars>>

Done == /\ phase = "count"
        /\ prescaler_counter[i] < Period(i)
        /\ NextTimer
        /\ UNCHANGED <<cycles, next, regvars>>

timer_tick == Skip \/ Feed \/ Count \/ Carry \/ CarryEnd \/ Done

-----------------------------------------------------------------------------
Next == \/ \E t \in Timer, v \in Reloads : timer_write_reload(t, v)
        \/ \E t \in Timer, c \in Controls : timer_write_control(t, c)
        \/ interrupt_acknowledge(Timer)
        \/ \E n \in CycleCounts : Call(n)
        \/ timer_tick

Spec == Init /\ [][Next]_vars

-----------------------------------------------------------------------------
(* Type invariant: the counters keep their width and the loops of          *)
(* timer_tick stay inside the array of timers.                             *)
TypeOK == /\ counter \in [Timer -> Counter]
          /\ reload \in [Timer -> Counter]
          /\ control \in [Timer -> Control]
          /\ prescaler_counter \in [Timer -> Nat]
          /\ irf \subseteq Timer
          /\ phase \in {"idle", "timer", "count", "carry"}
          /\ cycles \in Nat
          /\ i \in Timer
          /\ next \in 0 .. Last + 1
          /\ phase \in {"count", "carry"} => Enabled(i) /\ ~Cascade(i)
          /\ phase = "carry" => next > i

(* Every call of timer_tick returns: neither the prescaler loop nor the    *)
(* cascade loop can run for ever, whatever the program configures.         *)
TickReturns == (phase # "idle") ~> (phase = "idle")

-----------------------------------------------------------------------------
(***************************************************************************)
(* The timers with a stopwatch beside each one: from the last write to its *)
(* registers on, what it was fed and how often it wrapped.  It says what   *)
(* the time kept by timer_tick has to be.                                  *)
(***************************************************************************)
CONSTANT MaxFed    \* bound: timer_tick is called while no stopwatch shows more

VARIABLES fed,     \* cycles (or, in a chain, overflows of the timer before)
          from,    \* the counter when the measurement started
          wraps    \* the overflows since

hvars == <<counter, reload, control, prescaler_counter, irf, phase, cycles, i, next,
           fed, from, wraps>>

HInit == /\ Init
         /\ fed   = [t \in Timer |-> 0]
         /\ from  = [t \in Timer |-> 0]
         /\ wraps = [t \in Timer |-> 0]

(* A write to the registers of t starts a new measurement: what the        *)
(* prescaler holds counts as fed, unless the timer is in a chain.          *)
Measure(t) ==
  /\ fed'   = [fed   EXCEPT ![t] = IF Cascade(t)' THEN 0 ELSE prescaler_counter'[t]]
  /\ from'  = [from  EXCEPT ![t] = counter'[t]]
  /\ wraps' = [wraps EXCEPT ![t] = 0]

(* Timer t counts one: it may wrap, and feeds the timer after it if that   *)
(* one cascades.                                                           *)
Watch(t) ==
  IF Overflows(t)
  THEN /\ wraps' = [wraps EXCEPT ![t] = @ + 1]
       /\ fed' = IF Chained(t + 1) THEN [fed EXCEPT ![t + 1] = @ + 1] ELSE fed
       /\ UNCHANGED from
  ELSE UNCHANGED <<fed, from, wraps>>

HWrite ==
  \/ \E t \in Timer, v \in Reloads : timer_write_reload(t, v) /\ Measure(t)
  \/ \E t \in Timer, c \in Controls : timer_write_control(t, c) /\ Measure(t)
  \/ interrupt_acknowledge(Timer) /\ UNCHANGED <<fed, from, wraps>>

HCall == /\ \A t \in Timer : fed[t] <= MaxFed
         /\ \E n \in CycleCounts : Call(n)
         /\ UNCHANGED <<fed, from, wraps>>

HTick ==
  \/ Feed /\ fed' = [fed EXCEPT ![i] = @ + cycles] /\ UNCHANGED <<from, wraps>>
  \/ Count /\ Watch(i)
  \/ Carry /\ Watch(next)
  \/ (Skip \/ CarryEnd \/ Done) /\ UNCHANGED <<fed, from, wraps>>

HNext == HWrite \/ HCall \/ HTick

(* timer_tick is ordinary sequential code: once called it keeps running.   *)
HSpec == HInit /\ [][HNext]_hvars /\ WF_hvars(HTick)

-----------------------------------------------------------------------------
(* How far the counter has come: a wrap takes it from the reload value     *)
(* through the modulus.                                                    *)
Counted(t) == counter[t] - from[t] + wraps[t] * (Modulus - reload[t])

(* No time is lost or made up: a running timer has counted exactly one per *)
(* prescaler period of the cycles timer_tick was given since its registers *)
(* were last written, and the rest waits in prescaler_counter - across     *)
(* ticks, wraps and reloads.                                               *)
NoCycleLost ==
  \A t \in Timer : Enabled(t) /\ ~Cascade(t) =>
    fed[t] = Period(t) * Counted(t) + prescaler_counter[t]

(* A cascading timer has counted exactly the overflows of the timer before *)
(* it, whichever of the two was served by timer_tick's loops; the one not  *)
(* counted yet is the one the cascade loop is about to deliver.            *)
CascadeCountsOverflows ==
  \A t \in Timer : Enabled(t) /\ Cascade(t) =>
    fed[t] = Counted(t) + (IF phase = "carry" /\ next = t THEN 1 ELSE 0)
=============================================================================
