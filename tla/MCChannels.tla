----------------------------- MODULE MCChannels -----------------------------
(* Channel 1, with its envelope and its sweep, and the wave channel. *)
EXTENDS SoundChannels

MCFullLength == [c \in Ch |-> 1]
=============================================================================
