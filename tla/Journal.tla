-------------------------------- MODULE Journal --------------------------------
(***************************************************************************)
(* What the recording of a session promises: a packet is stamped when it   *)
(* is handed over, later than those of its source before it, and may then  *)
(* be entered once.  An entry stays as it is.  Recorder.tla implements     *)
(* this.                                                                   *)
(***************************************************************************)
EXTENDS Naturals

CONSTANTS Packets, ReusedBuffers

VARIABLES
  stamp,   \* the time of a packet, 0 before its handover
  saved,   \* packets that were entered
  track    \* the entries

JournalInit ==
  /\ stamp = [f \in Packets |-> 0]
  /\ saved = {}
  /\ track = {}

Stamp(f) ==
  /\ stamp[f] = 0
  /\ stamp' = [stamp EXCEPT ![f] = stamp'[f]]
  /\ \A g \in Packets :
       g[1] = f[1] => stamp[g] < stamp'[f] /\ (stamp[g] # 0 => g[2] < f[2])
  /\ UNCHANGED <<saved, track>>

(* The entry shows the packet itself, or, if its source reuses its buffer, *)
(* a packet received later.                                                *)
Enter(f) ==
  /\ stamp[f] # 0
  /\ f \notin saved
  /\ saved' = saved \cup {f}
  /\ \E g \in Packets :
       /\ g = f \/ (f[1] \in ReusedBuffers /\ g[1] = f[1] /\ g[2] > f[2])
       /\ track' = track
            \cup {[source |-> f[1], time |-> stamp[f], bytes |-> g[2]]}
  /\ UNCHANGED stamp

JournalNext == \E f \in Packets : Stamp(f) \/ Enter(f)

JournalSpec == JournalInit /\ [][JournalNext]_<<stamp, saved, track>>
===============================================================================
