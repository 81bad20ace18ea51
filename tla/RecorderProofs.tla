---------------------------- MODULE RecorderProofs ----------------------------
(***************************************************************************)
(* What holds of Recorder.tla for any number of packets and any number of  *)
(* reported ends.                                                          *)
(***************************************************************************)
EXTENDS Recorder, FiniteSetTheorems, TLAPS

(* A packet that was not handed over has no goroutine.                     *)
Pending(f) ==
  \/ f[2] > got[f[1]]
  \/ f[2] = got[f[1]] /\ pump[f[1]] \in {"received", "checked"}

TypeInv ==
  /\ RecorderTypeOK
  /\ \A f \in Packets : Pending(f) => pkt[f] = "none"

(* The stamps of a source grow with the packets' numbers.                  *)
StampsGrow ==
  \A f, g \in Packets :
    f[1] = g[1] /\ f[2] < g[2] /\ pkt[f] # "none" /\ pkt[g] # "none"
      => stamp[f] < stamp[g]

(* A frame whose save succeeded stays on the track under its own time with *)
(* its own bytes, whatever the other goroutines save: no two of a source   *)
(* share a nanosecond.  Sources that reuse a buffer are excepted.          *)
FramesKept ==
  \A f \in Packets :
    f[1] \notin ReusedBuffers /\ pkt[f] \in Stored => Record(f, f[2]) \in track

(* Every record of a source with buffers of its own is a saved packet.     *)
TrackFromPackets ==
  \A r \in track :
    r.source \notin ReusedBuffers =>
      \E f \in Packets : /\ f[1] = r.source
                         /\ f[2] = r.bytes
                         /\ stamp[f] = r.time
                         /\ pkt[f] \in Stored

TrackInv == StampsGrow /\ TrackFromPackets /\ FramesKept

(* A recording exists only once its packet has created it.                 *)
CreatedByPacket ==
  \A r \in Packets :
    pkt[r] \in {"none", "spawned"} => finalized[r] = 0 /\ recording # r

(* Both parts of a packet's name are typed, and identify it.               *)
LEMMA PacketParts ==
  /\ \A f \in Packets : /\ f[1] \in Sources
                        /\ f[2] \in Nat
                        /\ f[2] \in 1..MaxPackets
                        /\ f = <<f[1], f[2]>>
  /\ \A f, g \in Packets : f[1] = g[1] /\ f[2] = g[2] => f = g
  /\ \A s \in Sources : \A n \in 1..MaxPackets : <<s, n>> \in Packets
BY DEF Packets

-------------------------------------------------------------------------------
(* Type correctness.                                                       *)

(* Initially nothing was received.                                         *)
LEMMA TypeInit == Init => TypeInv
BY RecorderAssumption, PacketParts
   DEF Init, TypeInv, RecorderTypeOK, Pending, Sources, Stored

(* The pumps keep the types, and hand each packet over once.               *)
LEMMA TypePump ==
  ASSUME TypeInv, NEW s \in Sources, Pump(s)
  PROVE  TypeInv'
<1> USE DEF TypeInv, Pending
<1>1. CASE Receive(s)
  <2>0. /\ got' \in [Sources -> Nat]
        /\ \A z \in Sources : got'[z] <= MaxPackets
        /\ got'[s] > 0
        /\ \A z \in Sources : z # s => got'[z] = got[z]
    <3>1. got[s] \in Nat /\ MaxPackets \in Nat /\ got[s] < MaxPackets
      BY <1>1, RecorderAssumption DEF RecorderTypeOK, Receive, Sources
    <3>2. /\ got' = [got EXCEPT ![s] = got[s] + 1]
          /\ got[s] + 1 \in Nat
          /\ got[s] + 1 <= MaxPackets
          /\ got[s] + 1 > 0
      BY <1>1, <3>1 DEF Receive
    <3> QED BY <3>2 DEF RecorderTypeOK
  <2>1. RecorderTypeOK'
    BY <1>1, <2>0
       DEF RecorderTypeOK, Receive, Move, objVars, endVars, mainVars, Stored
  <2>2. \A f \in Packets : Pending(f)' => Pending(f)
    BY <1>1, RecorderAssumption, PacketParts DEF RecorderTypeOK, Receive, Move
  <2> QED BY <1>1, <2>1, <2>2 DEF Receive
<1>2. CASE Check(s)
  <2>1. RecorderTypeOK'
    BY <1>2, PacketParts
       DEF RecorderTypeOK, Check, Move, objVars, endVars, mainVars, Stored
  <2>2. \A f \in Packets : Pending(f)' => Pending(f)
    BY <1>2, PacketParts DEF RecorderTypeOK, Check, Move
  <2> QED BY <1>2, <2>1, <2>2 DEF Check
<1>3. CASE HandOver(s)
  <2> DEFINE f == <<s, got[s]>>
  <2>1. PICK t \in {clock, clock + 1} :
          /\ clock' = t
          /\ stamp' = [stamp EXCEPT ![f] = t]
          /\ pkt' = [pkt EXCEPT ![f] = "spawned"]
    BY <1>3 DEF HandOver
  <2>2. f \in Packets
    <3>1. got[s] \in 1..MaxPackets
      BY <1>3, RecorderAssumption DEF HandOver, Move, RecorderTypeOK
    <3> QED BY <3>1, PacketParts
  <2>3. pkt[f] = "none"
    BY <1>3, <2>2 DEF HandOver, Move
  <2>4. clock' \in Nat /\ stamp' \in [Packets -> Nat]
    BY <2>1, <2>2 DEF RecorderTypeOK
  <2>5. /\ pkt' \in [Packets ->
                       {"none", "spawned", "entered", "failed"} \cup Stored]
        /\ \A g \in Packets : g # f => pkt'[g] = pkt[g]
        /\ pkt'[f] = "spawned"
    BY <2>1, <2>2 DEF RecorderTypeOK
  <2>6. \A g \in Packets :
          held'[g] = NoRecording <=> pkt'[g] \in {"none", "spawned"}
    BY <1>3, <2>2, <2>3, <2>5 DEF RecorderTypeOK, HandOver
  <2>7. pump' \in [Sources -> {"ready", "received", "checked", "exited"}]
        /\ pump'[s] = "ready" /\ \A z \in Sources : z # s => pump'[z] = pump[z]
    BY <1>3 DEF RecorderTypeOK, HandOver, Move
  <2>8. RecorderTypeOK'
    BY <1>3, <2>4, <2>5, <2>6, <2>7
       DEF RecorderTypeOK, HandOver, objVars, endVars, mainVars, Stored
  <2>9. \A g \in Packets : Pending(g)' => Pending(g) /\ g # f
    BY <1>3, <2>7, PacketParts DEF RecorderTypeOK, HandOver
  <2> QED BY <2>5, <2>8, <2>9
<1>4. CASE PumpExit(s)
  <2>1. RecorderTypeOK'
    BY <1>4, PacketParts
       DEF RecorderTypeOK, PumpExit, Move, objVars, endVars, mainVars, Stored
  <2>2. \A f \in Packets : Pending(f)' => Pending(f)
    BY <1>4, PacketParts DEF RecorderTypeOK, PumpExit, Move
  <2> QED BY <1>4, <2>1, <2>2 DEF PumpExit
<1> QED BY <1>1, <1>2, <1>3, <1>4 DEF Pump

(* A step that touches neither the pumps nor turns a packet without a      *)
(* goroutine into another keeps the second half of TypeInv.                *)
LEMMA PendingKept ==
  ASSUME TypeInv, UNCHANGED <<got, pump>>, NEW f \in Packets, pkt[f] # "none",
         NEW x, pkt' = [pkt EXCEPT ![f] = x]
  PROVE  \A g \in Packets : Pending(g)' => pkt'[g] = "none"
BY DEF TypeInv, RecorderTypeOK, Pending

(* So do the handler goroutines of a packet.                               *)
LEMMA TypePacket ==
  ASSUME TypeInv, NEW f \in Packets, PacketStep(f)
  PROVE  TypeInv'
<1> f[1] \in Sources /\ f[2] \in Nat
  BY PacketParts
<1> USE DEF TypeInv
<1>1. CASE EnterPacket(f)
  <2>1. recording' \in Packets
    BY <1>1 DEF EnterPacket, RecorderTypeOK
  <2>2. RecorderTypeOK'
    BY <1>1, <2>1, RecorderAssumption
       DEF RecorderTypeOK, EnterPacket, pumpVars, endVars, mainVars, Stored
  <2> QED BY <1>1, <2>2, PendingKept DEF EnterPacket, pumpVars
<1>2. CASE SavePacket(f)
  <2>1. Bytes(f) \in Nat
    BY DEF Bytes, RecorderTypeOK
  <2>2. Record(f, Bytes(f)) \in [source : Sources, time : Nat, bytes : Nat]
    BY <2>1 DEF Record, RecorderTypeOK
  <2>3. track' \subseteq [source : Sources, time : Nat, bytes : Nat]
    BY <1>2, <2>2 DEF SavePacket, RecorderTypeOK
  <2>4. PICK x \in {"saved", "failed"} : pkt' = [pkt EXCEPT ![f] = x]
    BY <1>2 DEF SavePacket
  <2>5. RecorderTypeOK'
    BY <1>2, <2>3, <2>4
       DEF RecorderTypeOK, SavePacket, pumpVars, objVars, endVars, mainVars,
           Stored
  <2> QED BY <1>2, <2>4, <2>5, PendingKept DEF SavePacket, pumpVars
<1>3. CASE SaveAfterClose(f)
  BY <1>3
     DEF RecorderTypeOK, SaveAfterClose, pumpVars, objVars, endVars, Pending
<1>4. CASE CountPacket(f)
  <2>1. held[f] \in Packets
    BY <1>4 DEF CountPacket, RecorderTypeOK
  <2>2. counts' \in [Packets -> [Sources -> Nat]]
    BY <1>4, <2>1 DEF CountPacket, RecorderTypeOK
  <2>3. RecorderTypeOK'
    BY <1>4, <2>2
       DEF RecorderTypeOK, CountPacket, pumpVars, endVars, mainVars, Stored
  <2> QED BY <1>4, <2>3, PendingKept DEF CountPacket, pumpVars
<1> QED BY <1>1, <1>2, <1>3, <1>4 DEF PacketStep

(* So do the session-end goroutines and main.                              *)
LEMMA TypeEnd ==
  ASSUME TypeInv, Notice \/ RemoveSession \/ Finalize \/ MainStep
  PROVE  TypeInv'
<1> USE DEF TypeInv, RecorderTypeOK, Pending, pumpVars, objVars, endVars
<1>1. CASE Notice
  BY <1>1 DEF Notice, Report, mainVars
<1>2. CASE RemoveSession
  <2>1. live' \in BOOLEAN
    BY <1>2, Zenon DEF RemoveSession
  <2> QED BY <1>2, <2>1 DEF RemoveSession, Report, mainVars
<1>3. CASE Finalize
  BY <1>3 DEF Finalize, mainVars
<1>4. CASE MainStep
  <2>1. CASE ShutdownRemove
    <3>1. live' \in BOOLEAN
      BY <2>1, Zenon DEF ShutdownRemove
    <3> QED BY <2>1, <3>1 DEF ShutdownRemove, Report
  <2> QED
    BY <1>4, <2>1
       DEF MainStep, ShutdownBegin, ShutdownNotify, CloseStore, MainExit, Report
<1> QED BY <1>1, <1>2, <1>3, <1>4

(* A step that changes nothing keeps everything.                           *)
LEMMA TypeNext == TypeInv /\ [Next]_vars => TypeInv'
<1> SUFFICES ASSUME TypeInv, [Next]_vars PROVE TypeInv'
  OBVIOUS
<1>1. CASE UNCHANGED vars
  BY <1>1 DEF TypeInv, RecorderTypeOK, Pending, vars, pumpVars, objVars, endVars,
              mainVars
<1>2. CASE Next
  BY <1>2, TypePump, TypePacket, TypeEnd DEF Next
<1> QED BY <1>1, <1>2

(* The recorder's state keeps its types, for any number of packets.        *)
THEOREM RecorderTypeCorrect == Spec => []RecorderTypeOK
<1>1. TypeInv => RecorderTypeOK
  BY DEF TypeInv
<1> QED BY <1>1, TypeInit, TypeNext, PTL DEF Spec

-------------------------------------------------------------------------------
(* The track.                                                              *)

(* A step that keeps stamps and goroutines apart from what is not stored,  *)
(* and the track, keeps what is said of the track.                         *)
LEMMA TrackUnmoved ==
  ASSUME TrackInv, TypeInv, UNCHANGED <<stamp, track>>,
         \A f \in Packets :
           /\ pkt'[f] = "none" <=> pkt[f] = "none"
           /\ pkt'[f] \in Stored <=> pkt[f] \in Stored
  PROVE  TrackInv'
BY DEF TrackInv, StampsGrow, TrackFromPackets, FramesKept, Record

(* A handover stamps its packet later than all of its source before it.    *)
LEMMA TrackHandOver ==
  ASSUME TrackInv, TypeInv, NEW s \in Sources, HandOver(s)
  PROVE  TrackInv'
<1> DEFINE f == <<s, got[s]>>
<1>1. PICK t \in {clock, clock + 1} :
        /\ \A g \in Packets : g[1] = s => stamp[g] < t
        /\ stamp' = [stamp EXCEPT ![f] = t]
        /\ pkt' = [pkt EXCEPT ![f] = "spawned"]
  BY DEF HandOver
<1>2. f \in Packets /\ pkt[f] = "none"
  <2>1. got[s] \in 1..MaxPackets
    BY RecorderAssumption DEF TypeInv, RecorderTypeOK, HandOver, Move
  <2>2. f \in Packets
    BY <2>1, PacketParts
  <2> QED BY <2>2 DEF HandOver, Move, TypeInv, Pending
<1>3. /\ stamp'[f] = t /\ pkt'[f] = "spawned"
      /\ \A g \in Packets : g # f => stamp'[g] = stamp[g] /\ pkt'[g] = pkt[g]
      /\ track' = track
  BY <1>1, <1>2 DEF TypeInv, RecorderTypeOK, HandOver
<1>4. StampsGrow'
  <2> SUFFICES ASSUME NEW g \in Packets, NEW h \in Packets,
                      g[1] = h[1], g[2] < h[2],
                      pkt'[g] # "none", pkt'[h] # "none"
               PROVE  stamp'[g] < stamp'[h]
    BY DEF StampsGrow
  <2>1. CASE g = f
    <3>1. h[2] > got[h[1]]
      BY <2>1
    <3>2. pkt[h] = "none"
      BY <3>1 DEF TypeInv, Pending
    <3>3. h # f
      BY <1>2, <2>1, PacketParts
    <3> QED BY <1>3, <3>2, <3>3
  <2>2. CASE g # f /\ h = f
    BY <1>1, <1>3, <2>2
  <2>3. CASE g # f /\ h # f
    BY <1>3, <2>3 DEF TrackInv, StampsGrow
  <2> QED BY <2>1, <2>2, <2>3
<1>5. \A g \in Packets : pkt[g] \in Stored => g # f
  BY <1>2 DEF Stored
<1>6. \A g \in Packets : pkt'[g] \in Stored <=> pkt[g] \in Stored
  BY <1>2, <1>3 DEF Stored
<1>7. TrackFromPackets'
  BY <1>3, <1>5, <1>6 DEF TrackInv, TrackFromPackets
<1>8. FramesKept'
  BY <1>3, <1>5, <1>6 DEF TrackInv, FramesKept, Record
<1> QED BY <1>4, <1>7, <1>8 DEF TrackInv

(* A save adds its packet's record.  The record it replaces is of the same *)
(* source and nanosecond, hence of the same packet.                        *)
LEMMA TrackSave ==
  ASSUME TrackInv, TypeInv, NEW f \in Packets, SavePacket(f)
  PROVE  TrackInv'
<1>0. UNCHANGED <<stamp, got>> /\ pkt[f] = "entered"
  BY DEF SavePacket, pumpVars
<1>1. CASE pkt' = [pkt EXCEPT ![f] = "failed"] /\ UNCHANGED track
  BY <1>0, <1>1, TrackUnmoved DEF TypeInv, RecorderTypeOK, Stored
<1>2. CASE /\ pkt' = [pkt EXCEPT ![f] = "saved"]
           /\ track' = {r \in track : r.source # f[1] \/ r.time # stamp[f]}
                         \cup {Record(f, Bytes(f))}
  <2>1. /\ pkt'[f] = "saved"
        /\ \A g \in Packets : g # f => pkt'[g] = pkt[g]
    BY <1>2 DEF TypeInv, RecorderTypeOK
  <2>2. StampsGrow'
    BY <1>0, <2>1 DEF TrackInv, StampsGrow
  <2>3. f[1] \notin ReusedBuffers => Bytes(f) = f[2]
    BY DEF Bytes
  <2>4. TrackFromPackets'
    <3> SUFFICES ASSUME NEW r \in track', r.source \notin ReusedBuffers
                 PROVE  \E g \in Packets : /\ g[1] = r.source
                                           /\ g[2] = r.bytes
                                           /\ stamp'[g] = r.time
                                           /\ pkt'[g] \in Stored
      BY DEF TrackFromPackets
    <3>1. CASE r = Record(f, Bytes(f))
      BY <1>0, <2>1, <2>3, <3>1 DEF Record, Stored
    <3>2. CASE r \in track
      <4>1. PICK g \in Packets : /\ g[1] = r.source
                                 /\ g[2] = r.bytes
                                 /\ stamp[g] = r.time
                                 /\ pkt[g] \in Stored
        BY <3>2 DEF TrackInv, TrackFromPackets
      <4>2. pkt'[g] \in Stored
        BY <2>1, <4>1 DEF Stored
      <4> QED BY <1>0, <4>1, <4>2
    <3> QED BY <1>2, <3>1, <3>2
  <2>5. FramesKept'
    <3> SUFFICES ASSUME NEW g \in Packets, g[1] \notin ReusedBuffers,
                        pkt'[g] \in Stored
                 PROVE  Record(g, g[2]) \in track'
      BY <1>0 DEF FramesKept, Record
    <3>1. CASE g = f
      BY <1>2, <2>3, <3>1
    <3>2. CASE g # f
      <4>1. pkt[g] \in Stored /\ Record(g, g[2]) \in track
        BY <2>1, <3>2 DEF TrackInv, FramesKept
      <4>2. CASE g[1] # f[1]
        BY <1>2, <4>1, <4>2 DEF Record
      <4>3. CASE g[1] = f[1]
        <5>1. g[2] # f[2] /\ g[2] \in Nat /\ f[2] \in Nat
          BY <3>2, <4>3, PacketParts
        <5>2. stamp[g] < stamp[f] \/ stamp[f] < stamp[g]
          BY <1>0, <4>1, <4>3, <5>1 DEF TrackInv, StampsGrow, Stored
        <5>3. stamp[g] # stamp[f]
          BY <5>2 DEF TypeInv, RecorderTypeOK
        <5> QED BY <1>2, <4>1, <5>3 DEF Record
      <4> QED BY <4>2, <4>3
    <3> QED BY <3>1, <3>2
  <2> QED BY <2>2, <2>4, <2>5 DEF TrackInv
<1> QED BY <1>1, <1>2 DEF SavePacket

(* No other step touches the track.                                        *)
LEMMA TrackNext ==
  ASSUME TrackInv, TypeInv, [Next]_vars
  PROVE  TrackInv'
<1> USE DEF pumpVars, objVars, endVars, mainVars
<1>1. CASE UNCHANGED vars
  BY <1>1, TrackUnmoved DEF vars
<1>2. ASSUME NEW s \in Sources, Pump(s)
      PROVE  TrackInv'
  BY <1>2, TrackHandOver, TrackUnmoved DEF Pump, Receive, Check, PumpExit
<1>3. ASSUME NEW f \in Packets, PacketStep(f)
      PROVE  TrackInv'
  <2>1. CASE EnterPacket(f)
    BY <2>1, TrackUnmoved DEF EnterPacket, TypeInv, RecorderTypeOK, Stored
  <2>2. CASE SaveAfterClose(f)
    BY <2>2, TrackUnmoved DEF SaveAfterClose
  <2>3. CASE CountPacket(f)
    BY <2>3, TrackUnmoved DEF CountPacket, TypeInv, RecorderTypeOK, Stored
  <2> QED BY <1>3, <2>1, <2>2, <2>3, TrackSave DEF PacketStep
<1>4. CASE Notice \/ RemoveSession \/ Finalize \/ MainStep
  BY <1>4, TrackUnmoved
     DEF Notice, RemoveSession, Finalize, MainStep, ShutdownBegin,
         ShutdownNotify, ShutdownRemove, CloseStore, MainExit
<1> QED BY <1>1, <1>2, <1>3, <1>4 DEF Next

(* Initially the track is empty.                                           *)
LEMMA TrackInit == Init => TrackInv
BY DEF Init, TrackInv, StampsGrow, TrackFromPackets, FramesKept, Stored

(* A saved frame stays on the track as it came, for any number of frames   *)
(* and of handler goroutines in any order.                                 *)
THEOREM SavedFramesKept == Spec => []FramesKept
<1>1. TrackInv => FramesKept
  BY DEF TrackInv
<1> QED BY <1>1, TypeInit, TypeNext, TrackInit, TrackNext, PTL DEF Spec

-------------------------------------------------------------------------------
(* The journal.                                                            *)

(* A packet has a stamp once it was handed over.                           *)
StampedAtHandOver == \A f \in Packets : stamp[f] = 0 <=> pkt[f] = "none"

(* Every record has the key of a saved packet, whatever bytes it shows.    *)
KeysFromPackets ==
  \A r \in track :
    \E f \in Packets : /\ f[1] = r.source
                       /\ stamp[f] = r.time
                       /\ pkt[f] \in Stored

JournalInv == StampedAtHandOver /\ KeysFromPackets

(* Initially the journal is empty.                                         *)
LEMMA JournalStart == Init => Log!JournalInit /\ JournalInv
BY DEF Init, Log!JournalInit, JournalInv, StampedAtHandOver, KeysFromPackets,
       Stored

(* A step that keeps stamps and track, and neither starts nor saves a      *)
(* packet, is not seen in the journal.                                     *)
LEMMA JournalUnmoved ==
  ASSUME JournalInv, UNCHANGED <<stamp, track>>,
         \A f \in Packets :
           /\ pkt'[f] = "none" <=> pkt[f] = "none"
           /\ pkt'[f] \in Stored <=> pkt[f] \in Stored
  PROVE  /\ JournalInv'
         /\ UNCHANGED <<stamp, {f \in Packets : pkt[f] \in Stored}, track>>
BY DEF JournalInv, StampedAtHandOver, KeysFromPackets

(* A handover stamps its packet in the journal.                            *)
LEMMA JournalHandOver ==
  ASSUME JournalInv, TypeInv, NEW s \in Sources, HandOver(s)
  PROVE  JournalInv' /\ \E f \in Packets : Log!Stamp(f)
<1> DEFINE f == <<s, got[s]>>
<1>1. PICK t \in {clock, clock + 1} :
        /\ \A g \in Packets : g[1] = s => stamp[g] < t
        /\ stamp' = [stamp EXCEPT ![f] = t]
        /\ pkt' = [pkt EXCEPT ![f] = "spawned"]
  BY DEF HandOver
<1>2. f \in Packets /\ pkt[f] = "none"
  <2>1. got[s] \in 1..MaxPackets
    BY RecorderAssumption DEF TypeInv, RecorderTypeOK, HandOver, Move
  <2>2. f \in Packets
    BY <2>1, PacketParts
  <2> QED BY <2>2 DEF HandOver, Move, TypeInv, Pending
<1>3. stamp[f] = 0
  BY <1>2 DEF JournalInv, StampedAtHandOver
<1>4. /\ stamp'[f] = t /\ t # 0 /\ pkt'[f] = "spawned"
      /\ \A g \in Packets : g # f => stamp'[g] = stamp[g] /\ pkt'[g] = pkt[g]
      /\ track' = track
  BY <1>1, <1>2, <1>3 DEF TypeInv, RecorderTypeOK, HandOver
<1>5. \A g \in Packets : pkt'[g] \in Stored <=> pkt[g] \in Stored
  BY <1>2, <1>4 DEF Stored
<1>6. StampedAtHandOver'
  BY <1>4 DEF JournalInv, StampedAtHandOver
<1>7. KeysFromPackets'
  <2>1. \A g \in Packets : pkt[g] \in Stored => g # f
    BY <1>2 DEF Stored
  <2> QED BY <1>4, <1>5, <2>1 DEF JournalInv, KeysFromPackets
<1>8. ASSUME NEW g \in Packets, g[1] = s, stamp[g] # 0
      PROVE  g[2] < got[s]
  <2>1. pkt[g] # "none"
    BY <1>8 DEF JournalInv, StampedAtHandOver
  <2>2. ~ Pending(g)
    BY <2>1 DEF TypeInv
  <2>3. g[2] \in Nat /\ got[s] \in Nat /\ pump[s] = "checked"
    BY PacketParts DEF TypeInv, RecorderTypeOK, HandOver, Move
  <2> QED BY <1>8, <2>2, <2>3 DEF Pending
<1>9. Log!Stamp(f)
  BY <1>1, <1>2, <1>3, <1>4, <1>5, <1>8 DEF Log!Stamp
<1> QED BY <1>2, <1>6, <1>7, <1>9 DEF JournalInv

(* A save enters its packet.  It replaces nothing: a record with its key   *)
(* would be of a packet with its stamp, which is the packet itself.        *)
LEMMA JournalSave ==
  ASSUME JournalInv, TrackInv, TypeInv, NEW f \in Packets, SavePacket(f),
         pkt' = [pkt EXCEPT ![f] = "saved"],
         track' = {r \in track : r.source # f[1] \/ r.time # stamp[f]}
                    \cup {Record(f, Bytes(f))}
  PROVE  JournalInv' /\ Log!Enter(f)
<1>1. UNCHANGED <<stamp, got>> /\ pkt[f] = "entered"
  BY DEF SavePacket, pumpVars
<1>2. /\ pkt'[f] = "saved"
      /\ \A g \in Packets : g # f => pkt'[g] = pkt[g]
  BY DEF TypeInv, RecorderTypeOK
<1>3. ASSUME NEW r \in track, r.source = f[1], r.time = stamp[f]
      PROVE  FALSE
  <2>1. PICK g \in Packets : /\ g[1] = f[1]
                             /\ stamp[g] = stamp[f]
                             /\ pkt[g] \in Stored
    BY <1>3 DEF JournalInv, KeysFromPackets
  <2>2. g # f /\ pkt[g] # "none" /\ pkt[f] # "none"
    BY <1>1, <2>1 DEF Stored
  <2>3. g[2] < f[2] \/ f[2] < g[2]
    BY <2>1, <2>2, PacketParts
  <2>4. stamp[g] < stamp[f] \/ stamp[f] < stamp[g]
    BY <2>1, <2>2, <2>3 DEF TrackInv, StampsGrow
  <2> QED BY <2>1, <2>4 DEF TypeInv, RecorderTypeOK
<1>4. track' = track \cup {Record(f, Bytes(f))}
  BY <1>3
<1>5. StampedAtHandOver'
  BY <1>1, <1>2 DEF JournalInv, StampedAtHandOver
<1>6. KeysFromPackets'
  <2> SUFFICES ASSUME NEW r \in track'
               PROVE  \E g \in Packets : /\ g[1] = r.source
                                         /\ stamp'[g] = r.time
                                         /\ pkt'[g] \in Stored
    BY DEF KeysFromPackets
  <2>1. CASE r = Record(f, Bytes(f))
    BY <1>1, <1>2, <2>1 DEF Record, Stored
  <2>2. CASE r \in track
    <3>1. PICK g \in Packets : /\ g[1] = r.source
                               /\ stamp[g] = r.time
                               /\ pkt[g] \in Stored
      BY <2>2 DEF JournalInv, KeysFromPackets
    <3>2. pkt'[g] \in Stored
      BY <1>2, <3>1 DEF Stored
    <3> QED BY <1>1, <3>1, <3>2
  <2> QED BY <1>4, <2>1, <2>2
<1>7. {g \in Packets : pkt'[g] \in Stored}
        = {g \in Packets : pkt[g] \in Stored} \cup {f}
  BY <1>2 DEF Stored
<1>8. \E g \in Packets :
        /\ g = f \/ (f[1] \in ReusedBuffers /\ g[1] = f[1] /\ g[2] > f[2])
        /\ g[2] = Bytes(f)
  <2>1. CASE f[1] \notin ReusedBuffers
    BY <2>1 DEF Bytes
  <2>2. CASE f[1] \in ReusedBuffers
    <3> DEFINE g == <<f[1], got[f[1]]>>
    <3>1. ~ Pending(f)
      BY <1>1 DEF TypeInv
    <3>2. /\ f[1] \in Sources /\ f[2] \in Nat /\ f[2] >= 1
          /\ got[f[1]] \in Nat /\ f[2] <= got[f[1]] /\ got[f[1]] <= MaxPackets
      BY <3>1, PacketParts, RecorderAssumption
         DEF TypeInv, RecorderTypeOK, Pending
    <3>3. g \in Packets
      BY <3>2, PacketParts, RecorderAssumption
    <3>4. CASE got[f[1]] = f[2]
      BY <2>2, <3>4 DEF Bytes
    <3>5. CASE got[f[1]] > f[2]
      BY <2>2, <3>3, <3>5 DEF Bytes
    <3> QED BY <3>2, <3>4, <3>5
  <2> QED BY <2>1, <2>2
<1>9. Log!Enter(f)
  <2>1. stamp[f] # 0
    BY <1>1 DEF JournalInv, StampedAtHandOver
  <2>2. f \notin {g \in Packets : pkt[g] \in Stored}
    BY <1>1 DEF Stored
  <2> QED BY <1>1, <1>4, <1>7, <1>8, <2>1, <2>2 DEF Log!Enter, Record
<1> QED BY <1>5, <1>6, <1>9 DEF JournalInv

(* Every step of the recorder is a step of the journal or leaves it alone. *)
LEMMA JournalStep ==
  ASSUME JournalInv, TrackInv, TypeInv, [Next]_vars
  PROVE  /\ JournalInv'
         /\ [Log!JournalNext]_<<stamp, {f \in Packets : pkt[f] \in Stored},
                                track>>
<1> USE DEF pumpVars, objVars, endVars, mainVars
<1>1. CASE UNCHANGED vars
  BY <1>1, JournalUnmoved DEF vars
<1>2. ASSUME NEW s \in Sources, Receive(s) \/ Check(s) \/ PumpExit(s)
      PROVE  UNCHANGED <<stamp, pkt, track>>
  BY <1>2 DEF Receive, Check, PumpExit
<1>3. ASSUME NEW s \in Sources, HandOver(s)
      PROVE  JournalInv' /\ Log!JournalNext
  BY <1>3, JournalHandOver DEF Log!JournalNext
<1>4. ASSUME NEW f \in Packets, SavePacket(f)
      PROVE  /\ JournalInv'
             /\ Log!JournalNext
                \/ UNCHANGED <<stamp, {g \in Packets : pkt[g] \in Stored},
                              track>>
  <2>1. CASE pkt' = [pkt EXCEPT ![f] = "failed"] /\ UNCHANGED track
    BY <1>4, <2>1, JournalUnmoved
       DEF SavePacket, TypeInv, RecorderTypeOK, Stored
  <2>2. CASE /\ pkt' = [pkt EXCEPT ![f] = "saved"]
             /\ track' = {r \in track : r.source # f[1] \/ r.time # stamp[f]}
                           \cup {Record(f, Bytes(f))}
    BY <1>4, <2>2, JournalSave DEF Log!JournalNext
  <2> QED BY <1>4, <2>1, <2>2 DEF SavePacket
<1>5. ASSUME NEW f \in Packets,
             EnterPacket(f) \/ SaveAfterClose(f) \/ CountPacket(f)
      PROVE  /\ UNCHANGED <<stamp, track>>
             /\ \A g \in Packets : /\ pkt'[g] = "none" <=> pkt[g] = "none"
                                   /\ pkt'[g] \in Stored <=> pkt[g] \in Stored
  <2>1. CASE EnterPacket(f)
    BY <2>1 DEF EnterPacket, TypeInv, RecorderTypeOK, Stored
  <2>2. CASE SaveAfterClose(f)
    BY <2>2 DEF SaveAfterClose
  <2>3. CASE CountPacket(f)
    BY <2>3 DEF CountPacket, TypeInv, RecorderTypeOK, Stored
  <2> QED BY <1>5, <2>1, <2>2, <2>3
<1>6. CASE Notice \/ RemoveSession \/ Finalize \/ MainStep
  <2>1. UNCHANGED <<stamp, pkt, track>>
    BY <1>6
       DEF Notice, RemoveSession, Finalize, MainStep, ShutdownBegin,
           ShutdownNotify, ShutdownRemove, CloseStore, MainExit
  <2> QED BY <2>1, JournalUnmoved
<1>7. CASE \E s \in Sources : Pump(s)
  BY <1>2, <1>3, <1>7, JournalUnmoved DEF Pump
<1>8. CASE \E f \in Packets : PacketStep(f)
  BY <1>4, <1>5, <1>8, JournalUnmoved DEF PacketStep
<1> QED BY <1>1, <1>6, <1>7, <1>8 DEF Next

(* The recorder implements Journal.tla, for any number of packets and of   *)
(* handler goroutines in any order, whichever sources reuse their buffer.  *)
THEOREM RecorderKeepsJournal == Spec => ImplementsJournal
<1>1. Init => Log!JournalInit /\ JournalInv
  BY JournalStart
<1>2. JournalInv /\ TrackInv /\ TypeInv /\ [Next]_vars
        => /\ JournalInv'
           /\ [Log!JournalNext]_<<stamp, {f \in Packets : pkt[f] \in Stored},
                                  track>>
  BY JournalStep
<1> QED BY <1>1, <1>2, TypeInit, TypeNext, TrackInit, TrackNext, PTL
        DEF Spec, ImplementsJournal, Log!JournalSpec

-------------------------------------------------------------------------------
(* The order of the track.                                                 *)

(* CreateWebMData sorts the records by time.  Of two records of one source *)
(* the earlier one is the entry of the packet that came first, although    *)
(* their goroutines save them in any order.  This holds of the caller's    *)
(* track too, but of its entries alone: what bytes they show is said only  *)
(* of a source with buffers of its own.  Where the buffer is reused, as by *)
(* the SIP reader, an entry may show those of a later packet.              *)
EntriesInOrder ==
  \A a, b \in track :
    a.source = b.source /\ a.time < b.time =>
      \E f, g \in Packets :
        /\ f[1] = a.source /\ stamp[f] = a.time
        /\ g[1] = b.source /\ stamp[g] = b.time
        /\ f[2] < g[2]
        /\ a.source \notin ReusedBuffers => a.bytes = f[2] /\ b.bytes = g[2]

(* A record is the entry of a saved packet, with its bytes if they were    *)
(* its own.                                                                *)
LEMMA EntryOfPacket ==
  ASSUME JournalInv, TrackInv, NEW r \in track
  PROVE  \E f \in Packets :
           /\ f[1] = r.source /\ stamp[f] = r.time /\ pkt[f] \in Stored
           /\ r.source \notin ReusedBuffers => r.bytes = f[2]
<1>1. CASE r.source \in ReusedBuffers
  BY <1>1 DEF JournalInv, KeysFromPackets
<1>2. CASE r.source \notin ReusedBuffers
  BY <1>2 DEF TrackInv, TrackFromPackets
<1> QED BY <1>1, <1>2

(* The order of the entries is that of their packets.                      *)
LEMMA OrderFromStamps == TypeInv /\ TrackInv /\ JournalInv => EntriesInOrder
<1> SUFFICES ASSUME TypeInv, TrackInv, JournalInv,
                    NEW a \in track, NEW b \in track,
                    a.source = b.source, a.time < b.time
             PROVE  \E f, g \in Packets :
                      /\ f[1] = a.source /\ stamp[f] = a.time
                      /\ g[1] = b.source /\ stamp[g] = b.time
                      /\ f[2] < g[2]
                      /\ a.source \notin ReusedBuffers =>
                           a.bytes = f[2] /\ b.bytes = g[2]
  BY DEF EntriesInOrder
<1>1. PICK f \in Packets :
        /\ f[1] = a.source /\ stamp[f] = a.time /\ pkt[f] \in Stored
        /\ a.source \notin ReusedBuffers => a.bytes = f[2]
  BY EntryOfPacket
<1>2. PICK g \in Packets :
        /\ g[1] = b.source /\ stamp[g] = b.time /\ pkt[g] \in Stored
        /\ b.source \notin ReusedBuffers => b.bytes = g[2]
  BY EntryOfPacket
<1>3. /\ f[2] \in Nat /\ g[2] \in Nat
      /\ stamp[f] \in Nat /\ stamp[g] \in Nat
      /\ pkt[f] # "none" /\ pkt[g] # "none"
  BY <1>1, <1>2, PacketParts DEF TypeInv, RecorderTypeOK, Stored
<1>4. f # g
  BY <1>1, <1>2, <1>3
<1>5. f[2] # g[2]
  BY <1>1, <1>2, <1>4, PacketParts
<1>6. ~(g[2] < f[2])
  BY <1>1, <1>2, <1>3 DEF TrackInv, StampsGrow
<1>7. f[2] < g[2]
  BY <1>3, <1>5, <1>6
<1> QED BY <1>1, <1>2, <1>7

(* The entries of both tracks, the caller's included, are in the order in  *)
(* which their packets came, for any number of packets and of handler      *)
(* goroutines in any order; the bytes they show are those packets' where   *)
(* buffers are not reused.                                                 *)
THEOREM EntriesAreOrdered == Spec => []EntriesInOrder
<1>1. Init => JournalInv
  BY JournalStart
<1>2. JournalInv /\ TrackInv /\ TypeInv /\ [Next]_vars => JournalInv'
  BY JournalStep
<1> QED BY <1>1, <1>2, OrderFromStamps, TypeInit, TypeNext, TrackInit, TrackNext, PTL
        DEF Spec

-------------------------------------------------------------------------------
(* Finalization.                                                           *)

(* No step finalizes a recording that is not the active one, or makes one  *)
(* active that already was.                                                *)
LEMMA FinalNext ==
  ASSUME TypeInv, CreatedByPacket, FinalizedOnce, [Next]_vars
  PROVE  CreatedByPacket' /\ FinalizedOnce'
<1> USE DEF CreatedByPacket, FinalizedOnce, pumpVars, objVars, endVars, mainVars
<1>1. CASE UNCHANGED vars
  BY <1>1 DEF vars
<1>2. ASSUME NEW s \in Sources, Pump(s)
      PROVE  CreatedByPacket' /\ FinalizedOnce'
  <2>1. UNCHANGED objVars
    BY <1>2 DEF Pump, Receive, Check, HandOver, PumpExit
  <2>2. \A r \in Packets : pkt'[r] \in {"none", "spawned"}
                            => pkt[r] \in {"none", "spawned"}
    <3>1. CASE HandOver(s)
      <4> DEFINE f == <<s, got[s]>>
      <4>1. got[s] \in 1..MaxPackets
        BY <3>1, RecorderAssumption DEF TypeInv, RecorderTypeOK, HandOver, Move
      <4>2. f \in Packets
        BY <4>1, PacketParts
      <4>3. pkt[f] = "none"
        BY <3>1, <4>2 DEF HandOver, Move, TypeInv, Pending
      <4>4. pkt' = [pkt EXCEPT ![f] = "spawned"]
        BY <3>1 DEF HandOver
      <4> QED BY <4>2, <4>3, <4>4 DEF TypeInv, RecorderTypeOK
    <3> QED BY <1>2, <3>1 DEF Pump, Receive, Check, PumpExit
  <2> QED BY <2>1, <2>2
<1>3. ASSUME NEW f \in Packets, PacketStep(f)
      PROVE  CreatedByPacket' /\ FinalizedOnce'
  <2>1. CASE EnterPacket(f)
    <3>1. /\ pkt[f] = "spawned" /\ pkt'[f] = "entered"
          /\ \A g \in Packets : g # f => pkt'[g] = pkt[g]
          /\ finalized' = finalized
          /\ recording' = recording \/ recording' = f
      BY <2>1 DEF EnterPacket, TypeInv, RecorderTypeOK
    <3> QED BY <3>1
  <2>2. CASE SavePacket(f) \/ CountPacket(f)
    BY <2>2 DEF SavePacket, CountPacket, TypeInv, RecorderTypeOK
  <2>3. CASE SaveAfterClose(f)
    BY <2>3 DEF SaveAfterClose
  <2> QED BY <1>3, <2>1, <2>2, <2>3 DEF PacketStep
<1>4. CASE Finalize
  <2>1. CASE recording = NoRecording
    BY <1>4, <2>1 DEF Finalize
  <2>2. CASE recording # NoRecording
    <3>1. recording \in Packets /\ finalized[recording] = 0
      BY <2>2 DEF TypeInv, RecorderTypeOK
    <3>2. /\ finalized'[recording] = 1
          /\ \A r \in Packets : r # recording => finalized'[r] = finalized[r]
          /\ recording' = NoRecording /\ pkt' = pkt
      BY <1>4, <2>2, <3>1 DEF Finalize, TypeInv, RecorderTypeOK
    <3>3. NoRecording \notin Packets
      BY RecorderAssumption
    <3> QED BY <3>1, <3>2, <3>3
  <2> QED BY <2>1, <2>2
<1>5. CASE Notice \/ RemoveSession \/ MainStep
  BY <1>5
     DEF Notice, RemoveSession, MainStep, ShutdownBegin, ShutdownNotify,
         ShutdownRemove, CloseStore, MainExit
<1> QED BY <1>1, <1>2, <1>3, <1>4, <1>5 DEF Next

(* However often the end of the session is reported, a recording is        *)
(* finalized at most once.                                                 *)
THEOREM NoDoubleFinalization == Spec => []FinalizedOnce
<1>1. Init => CreatedByPacket /\ FinalizedOnce
  BY RecorderAssumption DEF Init, CreatedByPacket, FinalizedOnce
<1> QED BY <1>1, TypeInit, TypeNext, FinalNext, PTL DEF Spec

-------------------------------------------------------------------------------
(* Statistics.                                                             *)

DoneOf(s) == {f \in Packets : f[1] = s /\ pkt[f] = "done"}

(* Before the first report there is one recording, made for the first      *)
(* packet that came to it, and it counts every packet that is done.        *)
OneRecording ==
  /\ finalizers <= reported
  /\ reported = 0 =>
       /\ \A f \in Packets : held[f] \in {recording, NoRecording}
       /\ recording = NoRecording =>
            \A f \in Packets : /\ pkt[f] \in {"none", "spawned"}
                               /\ \A s \in Sources : counts[f][s] = 0
       /\ recording # NoRecording =>
            \A s \in Sources : counts[recording][s] = Cardinality(DoneOf(s))

(* There are finitely many packets.                                        *)
LEMMA DoneFinite ==
  /\ \A s : IsFiniteSet(DoneOf(s)) /\ Cardinality(DoneOf(s)) \in Nat
  /\ Cardinality({}) = 0
<1>1. IsFiniteSet(1..MaxPackets)
  BY RecorderAssumption, FS_Interval
<1>2. IsFiniteSet(Sources)
  <2>1. IsFiniteSet({} \cup {"user"}) /\ {} \cup {"user"} = {"user"}
    BY FS_EmptySet, FS_AddElement
  <2>2. IsFiniteSet({"user"} \cup {"assistant"})
    BY <2>1, FS_AddElement
  <2>3. Sources = {"user"} \cup {"assistant"}
    BY DEF Sources
  <2> QED BY <2>2, <2>3
<1>3. IsFiniteSet(Packets)
  BY <1>1, <1>2, FS_Product DEF Packets
<1>4. \A s : DoneOf(s) \in SUBSET Packets
  BY DEF DoneOf
<1>5. \A s : IsFiniteSet(DoneOf(s))
  BY <1>3, <1>4, FS_Subset
<1> QED BY <1>5, FS_CardinalityType, FS_EmptySet

(* Initially nothing is counted.                                           *)
LEMMA StatsInit == Init => OneRecording
BY DEF Init, OneRecording

(* A step that neither reports nor counts nor assigns a recording.         *)
LEMMA StatsUnmoved ==
  ASSUME OneRecording,
         UNCHANGED <<held, recording, counts, finalizers, reported>>,
         \A f \in Packets :
           /\ pkt'[f] = "done" <=> pkt[f] = "done"
           /\ pkt[f] \in {"none", "spawned"} => pkt'[f] \in {"none", "spawned"}
  PROVE  OneRecording'
<1>1. \A s : DoneOf(s)' = DoneOf(s)
  BY DEF DoneOf
<1> QED BY <1>1 DEF OneRecording

(* A packet finds the recording or makes the first one.                    *)
LEMMA StatsEnter ==
  ASSUME TypeInv, OneRecording, NEW f \in Packets, EnterPacket(f)
  PROVE  OneRecording'
<1>1. /\ pkt[f] = "spawned" /\ pkt'[f] = "entered"
      /\ \A g \in Packets : g # f => pkt'[g] = pkt[g]
      /\ recording' = IF recording = NoRecording THEN f ELSE recording
      /\ held'[f] = recording' /\ \A g \in Packets : g # f => held'[g] = held[g]
      /\ UNCHANGED <<counts, finalizers, reported>>
      /\ f # NoRecording
  BY RecorderAssumption DEF EnterPacket, TypeInv, RecorderTypeOK, endVars
<1>2. \A s : DoneOf(s)' = DoneOf(s)
  BY <1>1 DEF DoneOf
<1>3. ASSUME reported = 0, recording = NoRecording
      PROVE  \A s \in Sources : counts[f][s] = Cardinality(DoneOf(s))
  <2>1. \A s \in Sources : DoneOf(s) = {} /\ counts[f][s] = 0
    BY <1>3 DEF OneRecording, DoneOf
  <2> QED BY <2>1, DoneFinite
<1> QED BY <1>1, <1>2, <1>3 DEF OneRecording

(* A packet is counted once, in the one recording.                         *)
LEMMA StatsCount ==
  ASSUME TypeInv, OneRecording, NEW f \in Packets, CountPacket(f)
  PROVE  OneRecording'
<1>1. /\ pkt[f] = "saved" /\ pkt'[f] = "done"
      /\ \A g \in Packets : g # f => pkt'[g] = pkt[g]
      /\ counts' = [counts EXCEPT ![held[f]][f[1]] = @ + 1]
      /\ held[f] \in Packets /\ f[1] \in Sources
      /\ UNCHANGED <<held, recording, finalizers, reported>>
  <2>1. pkt[f] = "saved"
    BY DEF CountPacket
  <2>2. held[f] \in Packets
    BY <2>1 DEF TypeInv, RecorderTypeOK
  <2> QED BY <2>2, PacketParts
          DEF CountPacket, TypeInv, RecorderTypeOK, endVars
<1>2. SUFFICES ASSUME reported = 0
               PROVE  \A s \in Sources :
                        counts'[recording][s] = Cardinality(DoneOf(s))'
  BY <1>1 DEF OneRecording
<1>3. held[f] = recording /\ recording # NoRecording
  BY <1>1, <1>2, RecorderAssumption DEF OneRecording
<1>4. TAKE s \in Sources
<1>5. /\ counts[recording][s] = Cardinality(DoneOf(s))
      /\ counts[recording][s] \in Nat
  BY <1>1, <1>2, <1>3 DEF OneRecording, TypeInv, RecorderTypeOK
<1>6. CASE s = f[1]
  <2>1. DoneOf(s)' = DoneOf(s) \cup {f} /\ f \notin DoneOf(s)
    BY <1>1, <1>6 DEF DoneOf
  <2>2. Cardinality(DoneOf(s) \cup {f}) = Cardinality(DoneOf(s)) + 1
    BY <2>1, DoneFinite, FS_AddElement
  <2>3. counts'[recording][s] = counts[recording][s] + 1
    BY <1>1, <1>3, <1>6 DEF TypeInv, RecorderTypeOK
  <2> QED BY <1>5, <2>1, <2>2, <2>3
<1>7. CASE s # f[1]
  <2>1. DoneOf(s)' = DoneOf(s)
    BY <1>1, <1>7 DEF DoneOf
  <2>2. counts'[recording][s] = counts[recording][s]
    BY <1>1, <1>3, <1>7 DEF TypeInv, RecorderTypeOK
  <2> QED BY <1>5, <2>1, <2>2
<1> QED BY <1>6, <1>7

(* Every step keeps the count.                                             *)
LEMMA StatsNext == TypeInv /\ OneRecording /\ [Next]_vars => OneRecording'
<1> SUFFICES ASSUME TypeInv, OneRecording, [Next]_vars PROVE OneRecording'
  OBVIOUS
<1>0. finalizers \in Nat /\ reported \in Nat
  BY DEF TypeInv, RecorderTypeOK
<1> USE DEF pumpVars, objVars, endVars, mainVars
<1>1. CASE UNCHANGED vars
  BY <1>1, StatsUnmoved DEF vars
<1>2. ASSUME NEW s \in Sources, Pump(s)
      PROVE  OneRecording'
  <2>1. CASE HandOver(s)
    <3> DEFINE f == <<s, got[s]>>
    <3>1. got[s] \in 1..MaxPackets
      BY <2>1, RecorderAssumption DEF TypeInv, RecorderTypeOK, HandOver, Move
    <3>2. f \in Packets
      BY <3>1, PacketParts
    <3>3. pkt[f] = "none"
      BY <2>1, <3>2 DEF HandOver, Move, TypeInv, Pending
    <3>4. pkt' = [pkt EXCEPT ![f] = "spawned"]
          /\ UNCHANGED <<held, recording, counts, finalizers, reported>>
      BY <2>1 DEF HandOver
    <3> QED BY <3>2, <3>3, <3>4, StatsUnmoved DEF TypeInv, RecorderTypeOK
  <2> QED BY <1>2, <2>1, StatsUnmoved DEF Pump, Receive, Check, PumpExit
<1>3. ASSUME NEW f \in Packets, PacketStep(f)
      PROVE  OneRecording'
  <2>1. CASE SavePacket(f)
    BY <2>1, StatsUnmoved DEF SavePacket, TypeInv, RecorderTypeOK
  <2>2. CASE SaveAfterClose(f)
    BY <2>2, StatsUnmoved DEF SaveAfterClose
  <2> QED BY <1>3, <2>1, <2>2, StatsEnter, StatsCount DEF PacketStep
<1>4. CASE Finalize
  BY <1>0, <1>4 DEF Finalize, OneRecording
<1>5. CASE Notice \/ RemoveSession \/ ShutdownNotify
  BY <1>0, <1>5
     DEF Notice, RemoveSession, ShutdownNotify, Report, OneRecording
<1>6. CASE ShutdownRemove
  <2>1. CASE live
    BY <1>0, <1>6, <2>1 DEF ShutdownRemove, Report, OneRecording
  <2>2. CASE ~live
    BY <1>0, <1>6, <2>2, StatsUnmoved DEF ShutdownRemove, Report
  <2> QED BY <2>1, <2>2
<1>7. CASE ShutdownBegin \/ CloseStore \/ MainExit
  BY <1>7, StatsUnmoved DEF ShutdownBegin, CloseStore, MainExit
<1> QED BY <1>1, <1>2, <1>3, <1>4, <1>5, <1>6, <1>7 DEF Next, MainStep

(* Until an end is reported, the statistics of a session count every saved *)
(* packet once, for any number of packets.                                 *)
THEOREM StatisticsAreExact == Spec => []StatsExact
<1>1. OneRecording => StatsExact
  BY DEF OneRecording, StatsExact, DoneOf
<1> QED BY <1>1, TypeInit, TypeNext, StatsInit, StatsNext, PTL DEF Spec

(* A recording counts exactly the packets that were given it and are done, *)
(* however often the session ended and began again meanwhile.              *)
DoneFor(r, s) == {f \in DoneOf(s) : held[f] = r}

EveryCountExact ==
  \A r \in Packets, s \in Sources : counts[r][s] = Cardinality(DoneFor(r, s))

LEMMA DoneForFinite ==
  /\ \A r, s : IsFiniteSet(DoneFor(r, s)) /\ Cardinality(DoneFor(r, s)) \in Nat
  /\ Cardinality({}) = 0
<1>1. \A r, s : DoneFor(r, s) \in SUBSET DoneOf(s)
  BY DEF DoneFor
<1>2. \A r, s : IsFiniteSet(DoneFor(r, s))
  BY <1>1, DoneFinite, FS_Subset
<1> QED BY <1>2, DoneFinite, FS_CardinalityType

LEMMA CountsInit == Init => EveryCountExact
<1> SUFFICES ASSUME Init PROVE EveryCountExact
  OBVIOUS
<1>1. ASSUME NEW r \in Packets, NEW s \in Sources
      PROVE  counts[r][s] = Cardinality(DoneFor(r, s))
  <2>1. DoneFor(r, s) = {} /\ counts[r][s] = 0
    BY DEF Init, DoneFor, DoneOf
  <2> QED BY <2>1, DoneForFinite
<1> QED BY <1>1 DEF EveryCountExact

(* A step that counts nothing, and moves no packet that is done.           *)
LEMMA CountsUnmoved ==
  ASSUME EveryCountExact, UNCHANGED counts,
         \A f \in Packets :
           /\ pkt'[f] = "done" <=> pkt[f] = "done"
           /\ pkt[f] = "done" => held'[f] = held[f]
  PROVE  EveryCountExact'
<1>1. \A r, s : DoneFor(r, s)' = DoneFor(r, s)
  BY DEF DoneFor, DoneOf
<1> QED BY <1>1 DEF EveryCountExact

LEMMA CountsCount ==
  ASSUME TypeInv, EveryCountExact, NEW f \in Packets, CountPacket(f)
  PROVE  EveryCountExact'
<1>1. /\ pkt[f] = "saved" /\ pkt'[f] = "done"
      /\ \A g \in Packets : g # f => pkt'[g] = pkt[g]
      /\ counts' = [counts EXCEPT ![held[f]][f[1]] = @ + 1]
      /\ held[f] \in Packets /\ f[1] \in Sources /\ held' = held
  <2>1. pkt[f] = "saved"
    BY DEF CountPacket
  <2>2. held[f] \in Packets
    BY <2>1 DEF TypeInv, RecorderTypeOK
  <2> QED BY <2>2, PacketParts DEF CountPacket, TypeInv, RecorderTypeOK
<1>2. ASSUME NEW r \in Packets, NEW s \in Sources
      PROVE  counts'[r][s] = Cardinality(DoneFor(r, s))'
  <2>1. counts[r][s] = Cardinality(DoneFor(r, s)) /\ counts[r][s] \in Nat
    BY DEF EveryCountExact, TypeInv, RecorderTypeOK
  <2>2. CASE r = held[f] /\ s = f[1]
    <3>1. DoneFor(r, s)' = DoneFor(r, s) \cup {f} /\ f \notin DoneFor(r, s)
      BY <1>1, <2>2 DEF DoneFor, DoneOf
    <3>2. Cardinality(DoneFor(r, s) \cup {f}) = Cardinality(DoneFor(r, s)) + 1
      BY <3>1, DoneForFinite, FS_AddElement
    <3>3. counts'[r][s] = counts[r][s] + 1
      BY <1>1, <2>2 DEF TypeInv, RecorderTypeOK
    <3> QED BY <2>1, <3>1, <3>2, <3>3
  <2>3. CASE r # held[f] \/ s # f[1]
    <3>1. DoneFor(r, s)' = DoneFor(r, s)
      BY <1>1, <2>3 DEF DoneFor, DoneOf
    <3>2. counts'[r][s] = counts[r][s]
      BY <1>1, <2>3 DEF TypeInv, RecorderTypeOK
    <3> QED BY <2>1, <3>1, <3>2
  <2> QED BY <2>2, <2>3
<1> QED BY <1>2 DEF EveryCountExact

LEMMA CountsNext == TypeInv /\ EveryCountExact /\ [Next]_vars => EveryCountExact'
<1> SUFFICES ASSUME TypeInv, EveryCountExact, [Next]_vars PROVE EveryCountExact'
  OBVIOUS
<1> USE DEF pumpVars, objVars, endVars, mainVars
<1>1. CASE UNCHANGED vars
  BY <1>1, CountsUnmoved DEF vars
<1>2. ASSUME NEW s \in Sources, Pump(s)
      PROVE  EveryCountExact'
  <2>1. CASE HandOver(s)
    <3> DEFINE f == <<s, got[s]>>
    <3>1. got[s] \in 1..MaxPackets
      BY <2>1, RecorderAssumption DEF TypeInv, RecorderTypeOK, HandOver, Move
    <3>2. f \in Packets
      BY <3>1, PacketParts
    <3>3. pkt[f] = "none"
      BY <2>1, <3>2 DEF HandOver, Move, TypeInv, Pending
    <3>4. pkt' = [pkt EXCEPT ![f] = "spawned"] /\ UNCHANGED <<held, counts>>
      BY <2>1 DEF HandOver
    <3> QED BY <3>2, <3>3, <3>4, CountsUnmoved DEF TypeInv, RecorderTypeOK
  <2> QED BY <1>2, <2>1, CountsUnmoved DEF Pump, Receive, Check, PumpExit
<1>3. ASSUME NEW f \in Packets, PacketStep(f)
      PROVE  EveryCountExact'
  <2>1. CASE EnterPacket(f)
    BY <2>1, CountsUnmoved DEF EnterPacket, TypeInv, RecorderTypeOK
  <2>2. CASE SavePacket(f)
    BY <2>2, CountsUnmoved DEF SavePacket, TypeInv, RecorderTypeOK
  <2>3. CASE SaveAfterClose(f)
    BY <2>3, CountsUnmoved DEF SaveAfterClose
  <2> QED BY <1>3, <2>1, <2>2, <2>3, CountsCount DEF PacketStep
<1>4. CASE Notice \/ RemoveSession \/ Finalize \/ MainStep
  BY <1>4, CountsUnmoved
     DEF Notice, RemoveSession, Finalize, MainStep, ShutdownBegin, ShutdownNotify,
         ShutdownRemove, CloseStore, MainExit
<1> QED BY <1>1, <1>2, <1>3, <1>4 DEF Next

(* No packet is counted twice or in a recording it was not given, for any  *)
(* number of packets and of session ends.                                  *)
THEOREM CountsAreExact == Spec => []EveryCountExact
BY TypeInit, TypeNext, CountsInit, CountsNext, PTL DEF Spec

===============================================================================
