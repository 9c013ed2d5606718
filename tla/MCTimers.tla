------------------------------ MODULE MCTimers ------------------------------
(* Instances of the timers for TLC. *)
EXTENDS Timers

Ctl(p, c, q, e) == [prescaler |-> p, cascade |-> c, irq_enable |-> q, enabled |-> e]

(* Off, on, and a link of a chain. *)
MCControls == {Ctl(1, FALSE, FALSE, FALSE), Ctl(2, FALSE, FALSE, TRUE),
               Ctl(1, TRUE, TRUE, TRUE)}
=============================================================================
