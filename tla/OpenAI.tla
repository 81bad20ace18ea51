-------------------------------- MODULE OpenAI --------------------------------
(***************************************************************************)
(* One OpenAIService of internal/openai/openai.go: its goroutines against  *)
(* Connect and Close.  (What its notices do to the session is Bridge.tla,  *)
(* what its events do to the playback Playback.tla.)                       *)
(*                                                                         *)
(* Senders are the goroutines that call sendMessage: Opener is configure,  *)
(* run when the data channel opens; the others handle events and interrupt *)
(* the response.  Uplinks are the readers of the caller's audio, which     *)
(* call SendOpusAudio.  The reader is handleIncomingAudio.                 *)
(*                                                                         *)
(* sendMessage holds writeMu, Close holds s.mu: nothing orders the three   *)
(* loads of s.dataChannel in the one and the store in the other.           *)
(***************************************************************************)
EXTENDS Naturals

CONSTANTS
  Opener,       \* goroutine of OnOpen
  Handlers,     \* goroutines that deliver events, the library has one
  Uplinks,      \* goroutines that call SendOpusAudio
  NoSender      \* writeMu is free

Senders == Handlers \cup {Opener}

ASSUME OpenAIAssumption ==
  /\ Opener \notin Handlers
  /\ NoSender \notin Senders
  /\ Uplinks \cap Senders = {}
  /\ "reader" \notin Uplinks

VARIABLES
  connect,      \* the step of Connect that is next
  peer,         \* peerConnection: "none", "open", "closed"
  channel,      \* state of the data channel
  field,        \* s.dataChannel is not nil
  link,         \* the network below the peer connection
  closed,       \* OpenAIService.closed
  closing,      \* program counter of Close
  at,           \* where a sender stands in sendMessage
  msg,          \* the message it sends
  writeMu,      \* its holder
  sent,         \* history: types of the messages handed to the channel
  process,      \* the process itself
  blamed,       \* history: holder of writeMu when Close cleared the field
  reader,       \* program counter of handleIncomingAudio
  uplink,       \* program counter of SendOpusAudio
  late          \* history: what a goroutine passed on after closed was set

linkVars == <<connect, peer, channel, link>>
sendVars == <<at, msg, writeMu, sent, process>>
closeVars == <<closed, closing, field, blamed>>
audioVars == <<reader, uplink, late>>
aiVars   == <<linkVars, sendVars, closeVars, audioVars>>

Messages == {"none", "session.update", "response.create", "response.cancel"}

OpenAITypeOK ==
  /\ connect \in {"key", "peer", "channel", "track", "signaling", "connected",
                  "failed"}
  /\ peer \in {"none", "open", "closed"}
  /\ channel \in {"none", "connecting", "open", "closed"}
  /\ field \in BOOLEAN /\ closed \in BOOLEAN
  /\ link \in {"down", "up", "lost"}
  /\ closing \in {"no", "channel", "field", "peer", "done"}
  /\ at \in [Senders -> {"idle", "called", "waiting", "locked", "found", "open",
                         "panic"}]
  /\ msg \in [Senders -> Messages]
  /\ writeMu \in Senders \cup {NoSender}
  /\ sent \subseteq Messages
  /\ process \in {"running", "crashed"}
  /\ blamed \in Senders \cup {NoSender}
  /\ reader \in {"none", "top", "reading", "exited"}
  /\ uplink \in [Uplinks -> {"idle", "passed"}]
  /\ late \in [Uplinks \cup {"reader"} -> 0..2]

OpenAIInit ==
  /\ connect = "key"
  /\ peer = "none"
  /\ channel = "none"
  /\ field = FALSE /\ closed = FALSE
  /\ link = "down"
  /\ closing = "no"
  /\ at = [s \in Senders |-> "idle"]
  /\ msg = [s \in Senders |-> "none"]
  /\ writeMu = NoSender
  /\ sent = {}
  /\ process = "running"
  /\ blamed = NoSender
  /\ reader = "none"
  /\ uplink = [u \in Uplinks |-> "idle"]
  /\ late = [g \in Uplinks \cup {"reader"} |-> 0]

(* History stops counting at two.                                          *)
CountLate(g) ==
  late' = [late EXCEPT ![g] = IF closed /\ @ < 2 THEN @ + 1 ELSE @]

-------------------------------------------------------------------------------
(* Connect.                                                                *)

NextStep == [key |-> "peer", peer |-> "channel", channel |-> "track",
             track |-> "signaling", signaling |-> "connected"]

ConnectStep ==
  /\ connect \in DOMAIN NextStep
  /\ connect' = NextStep[connect]
  /\ peer' = IF connect = "peer" THEN "open" ELSE peer
  /\ channel' = IF connect = "channel" THEN "connecting" ELSE channel
  /\ field' = (field \/ connect = "channel")
  /\ UNCHANGED <<link, closed, closing, blamed, sendVars, audioVars>>

(* An error at any step: what was created stays as it is.                  *)
ConnectFail ==
  /\ connect \in DOMAIN NextStep
  /\ link = "down"
  /\ connect' = "failed"
  /\ UNCHANGED <<peer, channel, link, sendVars, closeVars, audioVars>>

(* The answer is set before Connect returns; ICE and DTLS may complete     *)
(* before or after.                                                        *)
LinkUp ==
  /\ connect \in {"signaling", "connected"}
  /\ peer = "open"
  /\ link = "down"
  /\ link' = "up"
  /\ UNCHANGED <<connect, peer, channel, sendVars, closeVars, audioVars>>

(* OnOpen starts configure.                                                *)
ChannelOpens ==
  /\ link = "up"
  /\ peer = "open"
  /\ channel = "connecting"
  /\ channel' = "open"
  /\ at' = [at EXCEPT ![Opener] = "called"]
  /\ msg' = [msg EXCEPT ![Opener] = "session.update"]
  /\ UNCHANGED <<connect, peer, link, writeMu, sent, process, closeVars,
                 audioVars>>

(* OnTrack starts the reader.                                              *)
TrackArrives ==
  /\ link = "up"
  /\ peer = "open"
  /\ reader = "none"
  /\ reader' = "top"
  /\ UNCHANGED <<linkVars, sendVars, closeVars, uplink, late>>

(* The far end or the network goes away; the channel may not notice.       *)
LinkLost ==
  /\ link = "up"
  /\ link' = "lost"
  /\ channel' \in {channel, "closed"}
  /\ UNCHANGED <<connect, peer, sendVars, closeVars, audioVars>>

-------------------------------------------------------------------------------
(* sendMessage.                                                            *)

Move(s, from, to) == at[s] = from /\ at' = [at EXCEPT ![s] = to]

(* speech_started during a response: InterruptResponse, of a handler that  *)
(* runs while the channel delivers events.                                 *)
Interrupt(h) ==
  /\ channel = "open"
  /\ Move(h, "idle", "called")
  /\ msg' = [msg EXCEPT ![h] = "response.cancel"]
  /\ UNCHANGED <<linkVars, writeMu, sent, process, closeVars, audioVars>>

CheckClosed(s) ==
  /\ Move(s, "called", IF closed THEN "idle" ELSE "waiting")
  /\ UNCHANGED <<linkVars, msg, writeMu, sent, process, closeVars, audioVars>>

LockWrite(s) ==
  /\ writeMu = NoSender
  /\ Move(s, "waiting", "locked")
  /\ writeMu' = s
  /\ UNCHANGED <<linkVars, msg, sent, process, closeVars, audioVars>>

ReturnGoesOn(s, ok) ==
  LET more == msg[s] = "session.update" IN
    /\ at' = [at EXCEPT ![s] = IF more THEN "called" ELSE "idle"]
    /\ msg' = [msg EXCEPT ![s] = IF more THEN "response.create" ELSE @]
    /\ writeMu' = NoSender

(* The call returns and writeMu is released.  After session.update was     *)
(* sent, configure goes on to response.create.                             *)
Return(s, ok) ==
  LET more == ok /\ msg[s] = "session.update" IN
    /\ at' = [at EXCEPT ![s] = IF more THEN "called" ELSE "idle"]
    /\ msg' = [msg EXCEPT ![s] = IF more THEN "response.create" ELSE @]
    /\ writeMu' = NoSender

FindChannelUnchecked(s) ==
  /\ Move(s, "locked", "found")
  /\ UNCHANGED <<linkVars, msg, writeMu, sent, process, closeVars, audioVars>>

(* First load of s.dataChannel: "data channel not available".              *)
FindChannel(s) ==
  \/ /\ field
     /\ Move(s, "locked", "found")
     /\ UNCHANGED <<linkVars, msg, writeMu, sent, process, closeVars, audioVars>>
  \/ /\ ~field
     /\ at[s] = "locked"
     /\ Return(s, FALSE)
     /\ UNCHANGED <<linkVars, sent, process, closeVars, audioVars>>

(* A later load finds nil: the method's receiver is dereferenced, and      *)
(* nobody recovers.                                                        *)
Panic(s) ==
  /\ ~field
  /\ at[s] \in {"found", "open"}
  /\ at' = [at EXCEPT ![s] = "panic"]
  /\ process' = "crashed"
  /\ UNCHANGED <<linkVars, msg, writeMu, sent, closeVars, audioVars>>

(* Second load: ReadyState.                                                *)
CheckOpen(s) ==
  /\ field
  /\ \/ /\ channel = "open"
        /\ Move(s, "found", "open")
        /\ UNCHANGED <<linkVars, msg, writeMu, sent, process, closeVars,
                       audioVars>>
     \/ /\ channel # "open"
        /\ at[s] = "found"
        /\ Return(s, FALSE)
        /\ UNCHANGED <<linkVars, sent, process, closeVars, audioVars>>

(* Third load: Send, which may fail.                                       *)
Send(s) ==
  /\ field
  /\ at[s] = "open"
  /\ \/ /\ channel = "open"
        /\ Return(s, TRUE)
        /\ sent' = sent \cup {msg[s]}
     \/ /\ Return(s, FALSE)
        /\ UNCHANGED sent
  /\ UNCHANGED <<linkVars, process, closeVars, audioVars>>

-------------------------------------------------------------------------------
(* Close, called when the session is removed.                              *)

CloseBegin ==
  /\ connect = "connected"
  /\ closing = "no"
  /\ closing' = "channel"
  /\ closed' = TRUE
  /\ UNCHANGED <<linkVars, field, blamed, sendVars, audioVars>>

CloseChannel ==
  /\ closing = "channel"
  /\ closing' = "field"
  /\ channel' = "closed"
  /\ UNCHANGED <<connect, peer, link, closed, field, blamed, sendVars, audioVars>>

ForgetChannel ==
  /\ closing = "field"
  /\ closing' = "peer"
  /\ field' = FALSE
  /\ blamed' = writeMu
  /\ UNCHANGED <<linkVars, closed, sendVars, audioVars>>

ClosePeerForgotten ==
  /\ closing = "peer"
  /\ closing' = "done"
  /\ UNCHANGED <<linkVars, closed, field, blamed, sendVars, audioVars>>

ClosePeer ==
  /\ closing = "peer"
  /\ closing' = "done"
  /\ peer' = "closed"
  /\ UNCHANGED <<connect, channel, link, closed, field, blamed, sendVars,
                 audioVars>>

-------------------------------------------------------------------------------
(* handleIncomingAudio.                                                    *)

ReadMove(from, to) == reader = from /\ reader' = to

ReadCheck ==
  /\ ReadMove("top", IF closed THEN "exited" ELSE "reading")
  /\ UNCHANGED <<linkVars, sendVars, closeVars, uplink, late>>

(* A frame, received while the link was up, goes to OnOpusData; an empty   *)
(* one is skipped.                                                         *)
ReadFrame ==
  /\ link # "down"
  /\ ReadMove("reading", "top")
  /\ UNCHANGED late \/ CountLate("reader")
  /\ UNCHANGED <<linkVars, sendVars, closeVars, uplink>>

(* The track ended: notifyClose.                                           *)
ReadEOF ==
  /\ link = "lost" \/ peer = "closed"
  /\ ReadMove("reading", "exited")
  /\ CountLate("reader")
  /\ UNCHANGED <<linkVars, sendVars, closeVars, uplink>>

(* Any other error: notifyError, and the loop goes on at once.             *)
ReadError ==
  /\ ReadMove("reading", "top")
  /\ CountLate("reader")
  /\ UNCHANGED <<linkVars, sendVars, closeVars, uplink>>

-------------------------------------------------------------------------------
(* SendOpusAudio.                                                          *)

UplinkBeginBlind(u) ==
  /\ connect = "connected"
  /\ uplink[u] = "idle"
  /\ uplink' = [uplink EXCEPT ![u] = "passed"]
  /\ UNCHANGED <<linkVars, sendVars, closeVars, reader, late>>

(* The session is registered; a closed service refuses the frame.          *)
UplinkBegin(u) ==
  /\ connect = "connected"
  /\ ~closed
  /\ uplink[u] = "idle"
  /\ uplink' = [uplink EXCEPT ![u] = "passed"]
  /\ UNCHANGED <<linkVars, sendVars, closeVars, reader, late>>

UplinkWrite(u) ==
  /\ uplink[u] = "passed"
  /\ uplink' = [uplink EXCEPT ![u] = "idle"]
  /\ CountLate(u)
  /\ UNCHANGED <<linkVars, sendVars, closeVars, reader>>

-------------------------------------------------------------------------------
LinkStep ==
  \/ ConnectStep
  \/ ConnectFail
  \/ LinkUp
  \/ ChannelOpens
  \/ TrackArrives
  \/ LinkLost

SendStep(s) ==
  \/ CheckClosed(s)
  \/ LockWrite(s)
  \/ FindChannel(s)
  \/ Panic(s)
  \/ CheckOpen(s)
  \/ Send(s)

CloseStep == CloseChannel \/ ForgetChannel \/ ClosePeer

ReadReturns == ReadEOF \/ ReadError

OpenAINext ==
  /\ process = "running"
  /\ \/ LinkStep
     \/ \E h \in Handlers : Interrupt(h)
     \/ \E s \in Senders : SendStep(s)
     \/ CloseBegin
     \/ CloseStep
     \/ ReadCheck
     \/ ReadFrame
     \/ ReadReturns
     \/ \E u \in Uplinks : UplinkBegin(u) \/ UplinkWrite(u)

OpenAISpec == OpenAIInit /\ [][OpenAINext]_aiVars

(* Goroutines run, and a read of a closed peer connection returns.         *)
OpenAIFairness ==
  /\ WF_aiVars(process = "running" /\ CloseStep)
  /\ WF_aiVars(process = "running" /\ ReadCheck)
  /\ WF_aiVars(process = "running" /\ peer = "closed" /\ ReadReturns)

OpenAIFairSpec == OpenAISpec /\ OpenAIFairness

-------------------------------------------------------------------------------
(* PROPERTIES                                                              *)

(* Close takes the data channel away without writeMu, and a sendMessage    *)
(* that is past its test for nil then dereferences nil.  Only the          *)
(* goroutine that held writeMu at that moment can: all that come later are *)
(* refused.                                                                *)
CrashOnlyByHolder ==
  \A s \in Senders : at[s] = "panic" => s = blamed

(* The greeting is asked for only after the session was configured, also   *)
(* when a send fails or Close and an interruption come between.            *)
ConfiguredFirst == "response.create" \in sent => "session.update" \in sent

(* Once closed is set, each goroutine passes on at most one more thing:    *)
(* a frame to the caller, a report to the bridge, a frame to OpenAI.  The  *)
(* reader in particular, which repeats a failing read at once for as long  *)
(* as the service is open, reports at most one error more.                 *)
QuietAfterClose == \A g \in DOMAIN late : late[g] <= 1

(* The reader of a closed service ends, although it goes on after errors,  *)
(* unless the process crashed.                                             *)
ReaderEnds ==
  closed ~> (reader \in {"none", "exited"} \/ process = "crashed")
===============================================================================
