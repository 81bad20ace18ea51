------------------------------- MODULE Recorder -------------------------------
(***************************************************************************)
(* The recording of one session: internal/controllers/recorder.go, driven  *)
(* by the bridge's packet and session-end handlers (main.go:84-126), each  *)
(* call of which is a goroutine of its own, and by the shutdown of main.   *)
(*                                                                         *)
(* Two pumps hand packets over: the reader of the caller's RTP ("user")    *)
(* and processOpusOutput ("assistant").  A packet is <<source, number of   *)
(* its arrival>>.  A SessionRecording is named by the packet that created  *)
(* it.  RemoveSession runs under b.mu and is one step here.                *)
(***************************************************************************)
EXTENDS Naturals, FiniteSets

CONSTANTS
  MaxPackets,     \* bound: packets received from both sources together
  MaxNotices,     \* bound: failures of the OpenAI leg reported
  ReusedBuffers,  \* sources whose reader receives into one buffer
  NoRecording

Sources == {"user", "assistant"}
Packets == Sources \X (1..MaxPackets)

ASSUME RecorderAssumption ==
  /\ MaxPackets \in Nat
  /\ MaxNotices \in Nat
  /\ ReusedBuffers \subseteq Sources
  /\ NoRecording \notin Packets

VARIABLES
  live,        \* BridgeSession.isActive, and ctx not cancelled
  pump,        \* where the goroutine that feeds a source stands
  got,         \* packets a source received; the last one fills its buffer
  clock,       \* time.Now in nanoseconds
  stamp,       \* metadata.Timestamp of a packet, 0 before the handover
  pkt,         \* progress of a packet's handler goroutine
  held,        \* the SessionRecording its addPacket works on
  recording,   \* recordings[sessionID]
  counts,      \* IncomingCount, OutgoingCount of a SessionRecording
  finalizers,  \* session-end goroutines that have not run
  finalized,   \* history: how often a SessionRecording was finalized
  reported,    \* history: session ends reported
  track,       \* the audio records of the session in the store
  shut,        \* progress of main's shutdown goroutine
  process      \* the process itself

pumpVars   == <<pump, got, clock, stamp>>
objVars    == <<recording, counts, finalized>>
endVars    == <<live, finalizers, reported>>
mainVars   == <<shut, process>>
vars       == <<pumpVars, pkt, held, objVars, endVars, track, mainVars>>

Stored == {"saved", "done"}
Record(f, n) == [source |-> f[1], time |-> stamp[f], bytes |-> n]

RecorderTypeOK ==
  /\ live \in BOOLEAN
  /\ pump \in [Sources -> {"ready", "received", "checked", "exited"}]
  /\ got \in [Sources -> Nat]
  /\ \A s \in Sources : got[s] <= MaxPackets
  /\ \A s \in Sources : pump[s] \in {"received", "checked"} => got[s] > 0
  /\ clock \in Nat
  /\ stamp \in [Packets -> Nat]
  /\ pkt \in [Packets -> {"none", "spawned", "entered", "failed"} \cup Stored]
  /\ held \in [Packets -> Packets \cup {NoRecording}]
  /\ \A f \in Packets : held[f] = NoRecording <=> pkt[f] \in {"none", "spawned"}
  /\ recording \in Packets \cup {NoRecording}
  /\ counts \in [Packets -> [Sources -> Nat]]
  /\ finalizers \in Nat
  /\ finalized \in [Packets -> Nat]
  /\ reported \in Nat
  /\ track \subseteq [source : Sources, time : Nat, bytes : Nat]
  /\ shut \in {"no", "walking", "notified", "removed", "closed"}
  /\ process \in {"running", "exited", "crashed"}

Init ==
  /\ live = TRUE
  /\ pump = [s \in Sources |-> "ready"]
  /\ got = [s \in Sources |-> 0]
  /\ clock = 1
  /\ stamp = [f \in Packets |-> 0]
  /\ pkt = [f \in Packets |-> "none"]
  /\ held = [f \in Packets |-> NoRecording]
  /\ recording = NoRecording
  /\ counts = [f \in Packets |-> [s \in Sources |-> 0]]
  /\ finalizers = 0
  /\ finalized = [f \in Packets |-> 0]
  /\ reported = 0
  /\ track = {}
  /\ shut = "no"
  /\ process = "running"

-------------------------------------------------------------------------------
(* The pumps.                                                              *)

Move(s, from, to) == pump[s] = from /\ pump' = [pump EXCEPT ![s] = to]

(* ReadFromUDP into the reader's buffer, ReadRTP into a fresh one, or a    *)
(* frame taken from opusBuffer.                                            *)
Receive(s) ==
  /\ Move(s, "ready", "received")
  /\ got["user"] + got["assistant"] < MaxPackets
  /\ got' = [got EXCEPT ![s] = @ + 1]
  /\ UNCHANGED <<clock, stamp, pkt, held, objVars, endVars, track, mainVars>>

(* ProcessIncomingOpus ignores packets of an inactive session; the output  *)
(* goroutine does not look at isActive.                                    *)
Check(s) ==
  /\ IF s = "user" /\ ~live THEN Move(s, "received", "ready")
                            ELSE Move(s, "received", "checked")
  /\ UNCHANGED <<got, clock, stamp, pkt, held, objVars, endVars, track, mainVars>>

HandOverCoarse(s) ==
  /\ Move(s, "checked", "ready")
  /\ LET f == <<s, got[s]>> IN
       \E t \in {clock, clock + 1} :
         /\ clock' = t
         /\ stamp' = [stamp EXCEPT ![f] = t]
         /\ pkt' = [pkt EXCEPT ![f] = "spawned"]
  /\ UNCHANGED <<got, held, objVars, endVars, track, mainVars>>

(* The pump stamps the packet and starts the handler's goroutine.  One     *)
(* pump never reads the same nanosecond twice; two pumps may.              *)
HandOver(s) ==
  /\ Move(s, "checked", "ready")
  /\ LET f == <<s, got[s]>> IN
       \E t \in {clock, clock + 1} :
         /\ \A g \in Packets : g[1] = s => stamp[g] < t
         /\ clock' = t
         /\ stamp' = [stamp EXCEPT ![f] = t]
         /\ pkt' = [pkt EXCEPT ![f] = "spawned"]
  /\ UNCHANGED <<got, held, objVars, endVars, track, mainVars>>

(* The endpoint is closed, the context cancelled.                          *)
PumpExit(s) ==
  /\ ~live
  /\ Move(s, "ready", "exited")
  /\ UNCHANGED <<got, clock, stamp, pkt, held, objVars, endVars, track, mainVars>>

-------------------------------------------------------------------------------
(* addPacket, in a goroutine of its own.                                   *)

EnterPacketBlind(f) ==
  /\ pkt[f] = "spawned"
  /\ pkt' = [pkt EXCEPT ![f] = "entered"]
  /\ recording' = f
  /\ held' = [held EXCEPT ![f] = recording']
  /\ UNCHANGED <<pumpVars, counts, finalized, endVars, track, mainVars>>

EnterPacketLiveOnly(f) ==
  /\ pkt[f] = "spawned"
  /\ pkt' = [pkt EXCEPT ![f] = IF live THEN "entered" ELSE "ignored"]
  /\ recording' = IF recording = NoRecording /\ live THEN f ELSE recording
  /\ held' = [held EXCEPT ![f] = recording']
  /\ UNCHANGED <<pumpVars, counts, finalized, endVars, track, mainVars>>

(* Under the map's mutex: the recording of the session, or a new one.      *)
EnterPacket(f) ==
  /\ pkt[f] = "spawned"
  /\ pkt' = [pkt EXCEPT ![f] = "entered"]
  /\ recording' = IF recording = NoRecording THEN f ELSE recording
  /\ held' = [held EXCEPT ![f] = recording']
  /\ UNCHANGED <<pumpVars, counts, finalized, endVars, track, mainVars>>

(* The bytes a packet's slice shows by now: Unmarshal leaves the payload   *)
(* in the buffer it was received into.                                     *)
Bytes(f) == IF f[1] \in ReusedBuffers THEN got[f[1]] ELSE f[2]

(* Put replaces a record of the same key.  On an error the packet is       *)
(* given up without being counted.                                         *)
SavePacket(f) ==
  /\ pkt[f] = "entered"
  /\ shut # "closed"
  /\ \/ /\ pkt' = [pkt EXCEPT ![f] = "saved"]
        /\ track' = {r \in track : r.source # f[1] \/ r.time # stamp[f]}
                      \cup {Record(f, Bytes(f))}
     \/ /\ pkt' = [pkt EXCEPT ![f] = "failed"]
        /\ UNCHANGED track
  /\ UNCHANGED <<pumpVars, held, objVars, endVars, mainVars>>

(* After Close the environment is nil: Update panics, in a goroutine       *)
(* nobody recovers.                                                        *)
SaveAfterClose(f) ==
  /\ pkt[f] = "entered"
  /\ shut = "closed"
  /\ process' = "crashed"
  /\ UNCHANGED <<pumpVars, pkt, held, objVars, endVars, track, shut>>

(* Under the recording's mutex, finalized or not.                          *)
CountPacket(f) ==
  /\ pkt[f] = "saved"
  /\ pkt' = [pkt EXCEPT ![f] = "done"]
  /\ counts' = [counts EXCEPT ![held[f]][f[1]] = @ + 1]
  /\ UNCHANGED <<pumpVars, held, recording, finalized, endVars, track, mainVars>>

PacketStep(f) ==
  \/ EnterPacket(f)
  \/ SavePacket(f)
  \/ SaveAfterClose(f)
  \/ CountPacket(f)

-------------------------------------------------------------------------------
(* Session ends.                                                           *)

Report(n) == finalizers' = finalizers + n /\ reported' = reported + n

(* OnError or OnClose: the session stays, its end is reported.             *)
Notice ==
  /\ live
  /\ reported < MaxNotices
  /\ Report(1)
  /\ UNCHANGED <<live, pumpVars, pkt, held, objVars, track, mainVars>>

(* RemoveSession by the endpoint.                                          *)
RemoveSession ==
  /\ live
  /\ live' = FALSE
  /\ Report(1)
  /\ UNCHANGED <<pumpVars, pkt, held, objVars, track, mainVars>>

FinalizeKeepsEntry ==
  /\ finalizers > 0
  /\ finalizers' = finalizers - 1
  /\ recording # NoRecording
  /\ finalized' = [finalized EXCEPT ![recording] = @ + 1]
  /\ UNCHANGED <<recording, live, reported, pumpVars, pkt, held, counts, track,
                 mainVars>>

(* finalizeSession takes the recording out of the map and logs what it     *)
(* counted, or warns that there is none.                                   *)
Finalize ==
  /\ finalizers > 0
  /\ finalizers' = finalizers - 1
  /\ recording' = NoRecording
  /\ finalized' = IF recording = NoRecording THEN finalized
                  ELSE [finalized EXCEPT ![recording] = @ + 1]
  /\ UNCHANGED <<live, reported, pumpVars, pkt, held, counts, track, mainVars>>

-------------------------------------------------------------------------------
(* main: Bridge.Shutdown over its snapshot, then contextStore.Close, then  *)
(* the end of the process, after 10 seconds at the latest.                 *)

ShutdownBegin ==
  /\ shut = "no"
  /\ shut' = IF live THEN "walking" ELSE "removed"
  /\ UNCHANGED <<pumpVars, pkt, held, objVars, endVars, track, process>>

ShutdownNotify ==
  /\ shut = "walking"
  /\ shut' = "notified"
  /\ Report(1)
  /\ UNCHANGED <<live, pumpVars, pkt, held, objVars, track, process>>

ShutdownRemove ==
  /\ shut = "notified"
  /\ shut' = "removed"
  /\ live' = FALSE
  /\ Report(IF live THEN 1 ELSE 0)
  /\ UNCHANGED <<pumpVars, pkt, held, objVars, track, process>>

CloseStore ==
  /\ shut = "removed"
  /\ shut' = "closed"
  /\ UNCHANGED <<pumpVars, pkt, held, objVars, endVars, track, process>>

MainExit ==
  /\ shut # "no"
  /\ process' = "exited"
  /\ UNCHANGED <<pumpVars, pkt, held, objVars, endVars, track, shut>>

-------------------------------------------------------------------------------
Pump(s) == Receive(s) \/ Check(s) \/ HandOver(s) \/ PumpExit(s)

MainStep ==
  \/ ShutdownBegin
  \/ ShutdownNotify
  \/ ShutdownRemove
  \/ CloseStore
  \/ MainExit

Next ==
  /\ process = "running"
  /\ \/ \E s \in Sources : Pump(s)
     \/ \E f \in Packets : PacketStep(f)
     \/ Notice
     \/ RemoveSession
     \/ Finalize
     \/ MainStep

Spec == Init /\ [][Next]_vars

(* Every handler goroutine runs while the process does.                    *)
FairSpec ==
  Spec /\ \A f \in Packets : WF_vars(process = "running" /\ PacketStep(f))

-------------------------------------------------------------------------------
(* PROPERTIES                                                              *)

(* Until an end is reported the statistics of the session count every      *)
(* packet that was saved once, however its goroutines interleave: all of   *)
(* them found one recording.                                               *)
StatsExact ==
  reported = 0 /\ recording # NoRecording =>
    \A s \in Sources :
      counts[recording][s]
        = Cardinality({f \in Packets : f[1] = s /\ pkt[f] = "done"})

(* The end of a session is reported several times (error, closed           *)
(* connection, removal, shutdown), but no recording is finalized twice,    *)
(* and none that was is active again.                                      *)
FinalizedOnce ==
  \A r \in Packets :
    finalized[r] = 0 \/ (finalized[r] = 1 /\ recording # r)

(* The recorder implements Journal.tla: although Put replaces what has the *)
(* same key, no save takes an entry away, none enters a packet twice, and  *)
(* none shows a packet received before its own.                            *)
Log == INSTANCE Journal WITH saved <- {f \in Packets : pkt[f] \in Stored}

ImplementsJournal == Log!JournalSpec

(* Every packet handed over is saved, or its save fails: a session end     *)
(* does not swallow the packets that are still under way.  Only the end of *)
(* the process does.                                                       *)
HandedIsSaved ==
  \A f \in Packets :
    pkt[f] = "spawned" ~> (pkt[f] \in {"done", "failed"} \/ process # "running")

(* What the comment on addPacket says: it saves the packet.  Fails where   *)
(* the reader receives the next packet into the buffer first.              *)
RecordedAsReceived ==
  \A f \in Packets : pkt[f] \in Stored => Record(f, f[2]) \in track

(* What the comment in main says of the shutdown: it is graceful.  Fails   *)
(* when a packet's goroutine saves after the store was closed.             *)
GracefulShutdown == process # "crashed"
===============================================================================
