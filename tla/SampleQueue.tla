----------------------------- MODULE SampleQueue ----------------------------
(***************************************************************************)
(* What a DirectSound channel promises: a bounded queue of samples that    *)
(* come out in the order they went in.  A sample that finds the queue full *)
(* empties it first; a pop that finds it empty keeps the last output.      *)
(***************************************************************************)
EXTENDS Naturals, Sequences

CONSTANTS Fifo,       \* the channels
          Size,       \* capacity
          Samples     \* what is played

VARIABLES queue,      \* queue[f]: the samples that wait
          out         \* out[f]: the sample being played

Init == /\ queue = [f \in Fifo |-> <<>>]
        /\ out \in [Fifo -> Samples]

Push(f, s) == /\ queue' = [queue EXCEPT ![f] = IF Len(@) = Size THEN <<s>> ELSE Append(@, s)]
              /\ UNCHANGED out

Pop(f) == /\ queue[f] # <<>>
          /\ out'   = [out EXCEPT ![f] = Head(queue[f])]
          /\ queue' = [queue EXCEPT ![f] = Tail(@)]

(* The program resets some of the channels. *)
Reset(S) == /\ queue' = [f \in Fifo |-> IF f \in S THEN <<>> ELSE queue[f]]
            /\ UNCHANGED out

Next == \/ \E f \in Fifo, s \in Samples : Push(f, s)
        \/ \E f \in Fifo : Pop(f)
        \/ \E S \in SUBSET Fifo : Reset(S)

Spec == Init /\ [][Next]_<<queue, out>>
=============================================================================
