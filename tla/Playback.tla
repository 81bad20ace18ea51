------------------------------- MODULE Playback -------------------------------
(***************************************************************************)
(* The audio of the assistant on its way to the caller, for one session of *)
(* internal/bridge/bridge.go: the track reader that calls OnOpusData, the  *)
(* bounded channel opusBuffer, the goroutine processOpusOutput, the events *)
(* of the data channel (internal/openai/openai.go) that stop and cut the   *)
(* playback, and the removal of the session.                               *)
(*                                                                         *)
(* A frame is the number of its arrival.  The track reader and the data    *)
(* channel each are one goroutine; so is each delayed clearBuffers.        *)
(***************************************************************************)
EXTENDS Naturals, Sequences, FiniteSets

CONSTANTS
  BufferCap,    \* capacity of opusBuffer (2000 in the code)
  MaxFrames,    \* bound: frames of the track
  MaxControl,   \* bound: events of the data channel
  NoFrame,      \* nothing offered, nothing in hand
  NoItem        \* the empty item id

ASSUME PlaybackAssumption ==
  /\ BufferCap \in Nat \ {0}
  /\ MaxFrames \in Nat
  /\ MaxControl \in Nat
  /\ NoFrame \notin Nat

VARIABLES
  isActive,     \* BridgeSession.isActive
  ctxDone,      \* BridgeSession.ctx is cancelled
  playing,      \* BridgeSession.isResponsePlaying
  opusBuffer,   \* BridgeSession.opusBuffer
  offered,      \* frame OnOpusData is sending to the channel
  outPc,        \* program counter of processOpusOutput
  hand,         \* frame processOpusOutput received
  played,       \* BridgeSession.playedSampleCount, in frames of 480 samples
  item,         \* BridgeSession.currentItemID
  clears,       \* clearBuffers goroutines that are due or running
  received,     \* history: frames that passed the isActive check
  sent,         \* history: frames SendOpusFrame accepted, in order
  lost,         \* history: frames lost, by cause
  doneMark,     \* history: "received" when the last response.done came
  responding,   \* history: OpenAI has a response in progress
  requests,     \* history: messages InterruptResponse sent meanwhile
  control       \* history: events of the data channel so far

Causes == {"full", "skipped", "cleared", "failed"}

flagVars    == <<isActive, ctxDone>>
queueVars   == <<opusBuffer, offered>>
outVars     == <<outPc, hand, played, sent>>
controlVars == <<item, clears, doneMark, responding, requests, control>>
vars        == <<flagVars, playing, queueVars, outVars, controlVars, received,
                 lost>>

FramesIn(q) == {q[n] : n \in 1..Len(q)}

TypeOK ==
  /\ isActive \in BOOLEAN
  /\ ctxDone \in BOOLEAN
  /\ playing \in BOOLEAN
  /\ opusBuffer \in Seq(Nat)
  /\ Len(opusBuffer) <= BufferCap
  /\ offered \in Nat \cup {NoFrame}
  /\ outPc \in {"none", "waiting", "dequeued", "sending", "exited"}
  /\ hand \in Nat \cup {NoFrame}
  /\ hand # NoFrame <=> outPc \in {"dequeued", "sending"}
  /\ played \in Nat
  /\ clears \in Nat
  /\ received \in Nat
  /\ sent \in Seq(Nat)
  /\ lost \in [Causes -> SUBSET Nat]
  /\ doneMark \in Nat
  /\ responding \in BOOLEAN
  /\ requests \in [{"cancel", "truncate"} -> Nat]
  /\ control \in Nat

Init ==
  /\ isActive = TRUE
  /\ ctxDone = FALSE
  /\ playing = FALSE
  /\ opusBuffer = <<>>
  /\ offered = NoFrame
  /\ outPc = "none"
  /\ hand = NoFrame
  /\ played = 0
  /\ item = NoItem
  /\ clears = 0
  /\ received = 0
  /\ sent = <<>>
  /\ lost = [c \in Causes |-> {}]
  /\ doneMark = 0
  /\ responding = FALSE
  /\ requests = [r \in {"cancel", "truncate"} |-> 0]
  /\ control = 0

-------------------------------------------------------------------------------
(* The track reader: OnOpusData.  It may run before CreateSession returns. *)

OnOpusDataSilent ==
  /\ isActive
  /\ offered = NoFrame
  /\ received < MaxFrames
  /\ received' = received + 1
  /\ offered' = received'
  /\ UNCHANGED <<flagVars, playing, opusBuffer, outVars, controlVars, lost>>

(* A frame for an active session marks a response as playing; a frame for  *)
(* an inactive one is ignored.                                             *)
OnOpusData ==
  /\ isActive
  /\ offered = NoFrame
  /\ received < MaxFrames
  /\ received' = received + 1
  /\ offered' = received'
  /\ playing' = TRUE
  /\ UNCHANGED <<flagVars, opusBuffer, outVars, controlVars, lost>>

EnqueueFrameFront ==
  /\ offered # NoFrame
  /\ Len(opusBuffer) < BufferCap
  /\ opusBuffer' = <<offered>> \o opusBuffer
  /\ offered' = NoFrame
  /\ UNCHANGED <<flagVars, playing, outVars, controlVars, received, lost>>

EnqueueFrame ==
  /\ offered # NoFrame
  /\ Len(opusBuffer) < BufferCap
  /\ opusBuffer' = Append(opusBuffer, offered)
  /\ offered' = NoFrame
  /\ UNCHANGED <<flagVars, playing, outVars, controlVars, received, lost>>

DropFrameRetries ==
  /\ offered # NoFrame
  /\ Len(opusBuffer) = BufferCap
  /\ lost' = [lost EXCEPT !["full"] = @ \cup {offered}]
  /\ UNCHANGED <<flagVars, playing, queueVars, outVars, controlVars, received>>

(* The channel stayed full for 10 ms.                                      *)
DropFrame ==
  /\ offered # NoFrame
  /\ Len(opusBuffer) = BufferCap
  /\ lost' = [lost EXCEPT !["full"] = @ \cup {offered}]
  /\ offered' = NoFrame
  /\ UNCHANGED <<flagVars, playing, opusBuffer, outVars, controlVars, received>>

-------------------------------------------------------------------------------
(* processOpusOutput.                                                      *)

StartOutput ==
  /\ outPc = "none"
  /\ outPc' = "waiting"
  /\ UNCHANGED <<flagVars, playing, queueVars, hand, played, sent, controlVars,
                 received, lost>>

(* Connect failed: the context is cancelled, the goroutine never started,  *)
(* and isActive stays set.                                                 *)
ConnectFail ==
  /\ outPc = "none"
  /\ isActive
  /\ outPc' = "exited"
  /\ ctxDone' = TRUE
  /\ UNCHANGED <<isActive, playing, queueVars, hand, played, sent, controlVars,
                 received, lost>>

(* select picks either case when the context is done and a frame waits.    *)
OutputExit ==
  /\ outPc = "waiting"
  /\ ctxDone
  /\ outPc' = "exited"
  /\ UNCHANGED <<flagVars, playing, queueVars, hand, played, sent, controlVars,
                 received, lost>>

Dequeue ==
  /\ outPc = "waiting"
  /\ opusBuffer # <<>>
  /\ outPc' = "dequeued"
  /\ hand' = Head(opusBuffer)
  /\ opusBuffer' = Tail(opusBuffer)
  /\ UNCHANGED <<flagVars, playing, offered, played, sent, controlVars, received,
                 lost>>

SkipFrameReturns ==
  /\ outPc = "dequeued"
  /\ ~playing
  /\ outPc' = "exited"
  /\ hand' = NoFrame
  /\ lost' = [lost EXCEPT !["skipped"] = @ \cup {hand}]
  /\ UNCHANGED <<flagVars, playing, queueVars, played, sent, controlVars,
                 received>>

SkipFrame ==
  /\ outPc = "dequeued"
  /\ ~playing
  /\ outPc' = "waiting"
  /\ hand' = NoFrame
  /\ lost' = [lost EXCEPT !["skipped"] = @ \cup {hand}]
  /\ UNCHANGED <<flagVars, playing, queueVars, played, sent, controlVars,
                 received>>

(* The frame goes to the recorder and counts as played.                    *)
CountFrame ==
  /\ outPc = "dequeued"
  /\ playing
  /\ outPc' = "sending"
  /\ played' = played + 1
  /\ UNCHANGED <<flagVars, playing, queueVars, hand, sent, controlVars, received,
                 lost>>

(* SendOpusFrame, which fails when the endpoint is closed, inactive or its *)
(* socket does not take the packet.                                        *)
SendFrame ==
  /\ outPc = "sending"
  /\ outPc' = "waiting"
  /\ hand' = NoFrame
  /\ \/ sent' = Append(sent, hand) /\ UNCHANGED lost
     \/ lost' = [lost EXCEPT !["failed"] = @ \cup {hand}] /\ UNCHANGED sent
  /\ UNCHANGED <<flagVars, playing, queueVars, played, controlVars, received>>

OutputStep ==
  \/ OutputExit
  \/ Dequeue
  \/ SkipFrame
  \/ CountFrame
  \/ SendFrame

-------------------------------------------------------------------------------
(* Events of the data channel.                                             *)

(* Message.Data is tagged "inline", which encoding/json does not know: the *)
(* field stays empty, and no handler finds an id in it.                    *)
DecodedItem == NoItem

(* response.created and response.output_item.added.                        *)
ResponseCreated ==
  /\ control < MaxControl
  /\ control' = control + 1
  /\ responding' = TRUE
  /\ item' = IF DecodedItem = NoItem THEN item ELSE DecodedItem
  /\ UNCHANGED <<flagVars, playing, queueVars, outVars, clears, doneMark,
                 requests, received, lost>>

ResponseDone ==
  /\ control < MaxControl
  /\ control' = control + 1
  /\ responding' = FALSE
  /\ playing' = FALSE
  /\ doneMark' = received
  /\ item' = NoItem
  /\ UNCHANGED <<flagVars, queueVars, outVars, clears, requests, received, lost>>

(* input_audio_buffer.speech_started while a response plays: response      *)
(* cancelled, item truncated if there is one, clearBuffers in 100 ms even  *)
(* if the messages could not be sent.  playing stays set.                  *)
SpeechStart ==
  /\ control < MaxControl
  /\ control' = control + 1
  /\ playing
  /\ clears' = clears + 1
  /\ \/ UNCHANGED requests
     \/ requests' = [requests EXCEPT
          !["cancel"] = IF responding THEN @ + 1 ELSE @,
          !["truncate"] = IF responding /\ item # NoItem THEN @ + 1 ELSE @]
  /\ UNCHANGED <<flagVars, playing, queueVars, outVars, item, doneMark,
                 responding, received, lost>>

(* clearBuffers receives frame by frame, in competition with               *)
(* processOpusOutput, until it finds the channel empty.                    *)
ClearFrame ==
  /\ clears > 0
  /\ opusBuffer # <<>>
  /\ opusBuffer' = Tail(opusBuffer)
  /\ lost' = [lost EXCEPT !["cleared"] = @ \cup {Head(opusBuffer)}]
  /\ UNCHANGED <<flagVars, playing, offered, outVars, controlVars, received>>

ClearEnd ==
  /\ clears > 0
  /\ opusBuffer = <<>>
  /\ clears' = clears - 1
  /\ UNCHANGED <<flagVars, playing, queueVars, outVars, item, doneMark,
                 responding, requests, control, received, lost>>

-------------------------------------------------------------------------------
(* RemoveSession: the flag first, the context after it.  After a failed    *)
(* Connect there is no session to remove.                                  *)

RemoveDeactivate ==
  /\ isActive
  /\ ~ctxDone
  /\ isActive' = FALSE
  /\ UNCHANGED <<ctxDone, playing, queueVars, outVars, controlVars, received,
                 lost>>

RemoveCancelForgotten ==
  /\ ~isActive
  /\ UNCHANGED vars

RemoveCancel ==
  /\ ~isActive
  /\ ctxDone' = TRUE
  /\ UNCHANGED <<isActive, playing, queueVars, outVars, controlVars, received,
                 lost>>

-------------------------------------------------------------------------------
Next ==
  \/ OnOpusData
  \/ EnqueueFrame
  \/ DropFrame
  \/ StartOutput
  \/ ConnectFail
  \/ OutputStep
  \/ ResponseCreated
  \/ ResponseDone
  \/ SpeechStart
  \/ ClearFrame
  \/ ClearEnd
  \/ RemoveDeactivate
  \/ RemoveCancel

Spec == Init /\ [][Next]_vars

(* Goroutines run, Connect returns, the 10 ms timer fires.  Frames, events *)
(* and the removal need not come.                                          *)
Fairness ==
  /\ WF_vars(EnqueueFrame \/ DropFrame)
  /\ WF_vars(StartOutput \/ ConnectFail)
  /\ WF_vars(OutputStep)
  /\ WF_vars(ClearFrame \/ ClearEnd)
  /\ WF_vars(RemoveCancel)

FairSpec == Spec /\ Fairness

-------------------------------------------------------------------------------
(* PROPERTIES                                                              *)

(* The caller hears frames in the order they arrived and none twice,       *)
(* although clearBuffers and processOpusOutput receive from one channel    *)
(* and frames are lost on the way.                                         *)
Fifo == INSTANCE LossyFifo WITH pushed <- received, out <- sent

ImplementsFifo == Fifo!FifoSpec

(* No frame vanishes or is handled twice: each one that arrived is on its  *)
(* way, was sent, or was lost for exactly one reason.  playedSampleCount   *)
(* covers those that were sent and those whose sending failed.             *)
Accounted ==
  LET pending == FramesIn(opusBuffer) \cup ({offered, hand} \ {NoFrame})
      places  == <<pending, FramesIn(sent), lost["full"], lost["skipped"],
                   lost["cleared"], lost["failed"]>>
  IN /\ UNION FramesIn(places) = 1..received
     /\ \A a, b \in 1..Len(places) : a # b => places[a] \cap places[b] = {}
     /\ played = Len(sent) + Cardinality(lost["failed"])
                   + (IF outPc = "sending" THEN 1 ELSE 0)

(* A frame is thrown away as stale only if a response.done was handled     *)
(* after it arrived: each arrival marks playback as running before the     *)
(* frame is queued.                                                        *)
SkippedOnlyAfterDone == \A f \in lost["skipped"] : f <= doneMark

(* As long as the session lives a queued frame is played or discarded in   *)
(* the end, whatever was skipped or failed before it.                      *)
FramesLeave ==
  \A f \in 1..MaxFrames :
    f \in FramesIn(opusBuffer)
      ~> (f \notin FramesIn(opusBuffer) \/ ctxDone)

(* After a removal the output goroutine ends, although select may prefer   *)
(* queued frames to the cancelled context.                                 *)
RemovalEndsOutput == (~isActive) ~> (outPc = "exited")
===============================================================================
