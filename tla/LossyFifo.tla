------------------------------ MODULE LossyFifo -------------------------------
(***************************************************************************)
(* What a listener is promised about the audio of the assistant: frames    *)
(* come out in the order they went in and none twice.  Any may be lost.    *)
(* Frames are numbered by arrival.  Playback.tla implements this.          *)
(***************************************************************************)
EXTENDS Naturals, Sequences

VARIABLES
  pushed,   \* number of frames that went in
  out       \* frames that came out

FifoInit == pushed = 0 /\ out = <<>>

Push == pushed' = pushed + 1 /\ UNCHANGED out

Deliver(f) ==
  /\ \A n \in 1..Len(out) : out[n] < f
  /\ out' = Append(out, f)
  /\ UNCHANGED pushed

FifoNext == Push \/ \E f \in 1..pushed : Deliver(f)

FifoSpec == FifoInit /\ [][FifoNext]_<<pushed, out>>
===============================================================================
