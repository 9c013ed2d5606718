------------------------------- MODULE MCDma --------------------------------
(* A small instance of the DMA controller for TLC. *)
EXTENDS Dma

On(d, n, a, r, t, q) == [dest |-> d, count |-> n, dest_adjust |-> a, repeat |-> r,
                         timing |-> t, irq_on_done |-> q, enabled |-> TRUE]
Off == [On(LastCh + 1, 1, "increment", FALSE, "immediate", FALSE) EXCEPT !.enabled = FALSE]

MCFullCount == [c \in Ch |-> 2]

(* Transfers into the control registers, counting up, down or staying on   *)
(* one of them, and into memory; repeating ones for the triggers.          *)
MCCpuSetups == {On(1, 0, "increment", FALSE, "immediate", FALSE),
                On(0, 2, "reload", TRUE, "vblank", FALSE),
                On(2, 1, "decrement", TRUE, "special", TRUE), Off}
MCDmaSetups == {On(0, 2, "fixed", FALSE, "immediate", FALSE),
                On(LastCh, 1, "fixed", TRUE, "hblank", FALSE), Off}

(* Bound: in one call, transfers switch a running channel off once. *)
MCNext == HNext /\ StopsOnce
MCSpec == /\ HInit /\ [][MCNext]_hvars
          /\ WF_hvars((Transfer \/ ScanNext \/ ScanEnds) /\ Record /\ StopsOnce)
=============================================================================
