----------------------------- MODULE OpenAIProofs -----------------------------
(***************************************************************************)
(* What holds of OpenAI.tla for any number of goroutines that send and of  *)
(* readers of the caller's audio.                                          *)
(***************************************************************************)
EXTENDS OpenAI, TLAPS

(* Whoever is inside sendMessage's critical section holds writeMu; if it   *)
(* is past the test for nil and the field is gone, it held writeMu when    *)
(* the field went; and whoever panicked took the process down.             *)
SendInv ==
  \A s \in Senders :
    /\ at[s] \in {"locked", "found", "open"} => writeMu = s
    /\ at[s] \in {"found", "open"} /\ ~field => s = blamed
    /\ at[s] = "panic" => s = blamed /\ process = "crashed"

(* response.create is on its way only after session.update was sent.       *)
ConfigureInv ==
  /\ ConfiguredFirst
  /\ \A s \in Senders : msg[s] = "response.create" => "session.update" \in sent

(* A goroutine that is past its check of closed has passed on nothing      *)
(* since closed was set.                                                   *)
QuietInv ==
  /\ QuietAfterClose
  /\ ~closed => \A g \in DOMAIN late : late[g] = 0
  /\ \A u \in Uplinks : uplink[u] = "passed" => late[u] = 0
  /\ reader = "reading" => late["reader"] = 0

IInv == OpenAITypeOK /\ SendInv /\ ConfigureInv /\ QuietInv

-------------------------------------------------------------------------------
(* Initially nobody sends.                                                 *)
LEMMA Starts == OpenAIInit => IInv
<1> SUFFICES ASSUME OpenAIInit PROVE IInv
  OBVIOUS
<1> USE DEF OpenAIInit
<1>1. OpenAITypeOK
  <2>1. /\ at \in [Senders -> {"idle", "called", "waiting", "locked", "found",
                            "open", "panic"}]
        /\ msg \in [Senders -> Messages]
        /\ uplink \in [Uplinks -> {"idle", "passed"}]
        /\ late \in [Uplinks \cup {"reader"} -> 0..2]
    BY DEF Messages
  <2> QED BY <2>1 DEF OpenAITypeOK
<1>2. SendInv
  BY DEF SendInv
<1>3. ConfigureInv
  BY DEF ConfigureInv, ConfiguredFirst
<1>4. QuietInv
  BY DEF QuietInv, QuietAfterClose
<1> QED BY <1>1, <1>2, <1>3, <1>4 DEF IInv

(* What a step that does not send leaves of the senders' invariants: it    *)
(* suffices that senders and the field stay as they are.                   *)
LEMMA SendersUntouched ==
  ASSUME IInv, UNCHANGED <<at, msg, writeMu, sent, process, field, blamed>>
  PROVE  SendInv' /\ ConfigureInv'
BY DEF IInv, SendInv, ConfigureInv, ConfiguredFirst

(* The audio goroutines likewise.                                          *)
LEMMA AudioUntouched ==
  ASSUME IInv, UNCHANGED <<audioVars, closed>>
  PROVE  QuietInv'
BY DEF IInv, QuietInv, QuietAfterClose, audioVars

(* Connect, the library's callbacks and the network.                       *)
LEMMA LinkKeeps ==
  ASSUME IInv, LinkStep
  PROVE  IInv'
<1> USE DEF IInv
<1>1. CASE ConnectStep
  <2>1. OpenAITypeOK'
    BY <1>1 DEF ConnectStep, NextStep, OpenAITypeOK, sendVars, audioVars
  <2>2. SendInv'
    BY <1>1 DEF ConnectStep, SendInv, sendVars
  <2>3. ConfigureInv'
    BY <1>1 DEF ConnectStep, ConfigureInv, ConfiguredFirst, sendVars
  <2>4. QuietInv'
    BY <1>1, AudioUntouched DEF ConnectStep
  <2> QED BY <2>1, <2>2, <2>3, <2>4
<1>2. CASE ChannelOpens
  <2>1. /\ Opener \in Senders
        /\ at' = [at EXCEPT ![Opener] = "called"]
        /\ msg' = [msg EXCEPT ![Opener] = "session.update"]
        /\ channel' = "open"
        /\ UNCHANGED <<connect, peer, link, writeMu, sent, process, closeVars,
                       audioVars>>
    BY <1>2 DEF ChannelOpens, Senders
  <2>2. OpenAITypeOK'
    BY <2>1 DEF OpenAITypeOK, Messages, closeVars, audioVars
  <2>3. SendInv'
    BY <2>1 DEF SendInv, closeVars, OpenAITypeOK
  <2>4. ConfigureInv'
    BY <2>1 DEF ConfigureInv, ConfiguredFirst, OpenAITypeOK
  <2>5. QuietInv'
    BY <2>1, AudioUntouched DEF closeVars
  <2> QED BY <2>2, <2>3, <2>4, <2>5
<1>3. CASE TrackArrives
  <2>1. OpenAITypeOK'
    BY <1>3 DEF TrackArrives, OpenAITypeOK, linkVars, sendVars, closeVars
  <2>2. SendInv' /\ ConfigureInv'
    BY <1>3, SendersUntouched DEF TrackArrives, sendVars, closeVars
  <2>3. QuietInv'
    BY <1>3 DEF TrackArrives, QuietInv, QuietAfterClose, closeVars
  <2> QED BY <2>1, <2>2, <2>3
<1>4. CASE ConnectFail \/ LinkUp \/ LinkLost
  <2>1. OpenAITypeOK'
    BY <1>4
       DEF ConnectFail, LinkUp, LinkLost, OpenAITypeOK, sendVars, closeVars,
           audioVars
  <2>2. UNCHANGED <<sendVars, closeVars, audioVars>>
    BY <1>4 DEF ConnectFail, LinkUp, LinkLost
  <2>3. SendInv' /\ ConfigureInv' /\ QuietInv'
    BY <2>2, SendersUntouched, AudioUntouched DEF sendVars, closeVars
  <2> QED BY <2>1, <2>3
<1> QED BY <1>1, <1>2, <1>3, <1>4 DEF LinkStep

(* A call of sendMessage that returns leaves writeMu, and goes on to       *)
(* response.create only if it has sent session.update.                     *)
LEMMA ReturnKeeps ==
  ASSUME IInv, NEW s \in Senders, NEW ok \in BOOLEAN,
         at[s] \in {"locked", "found", "open"},
         Return(s, ok),
         IF ok THEN sent' = sent \cup {msg[s]} ELSE sent' = sent,
         UNCHANGED <<linkVars, process, closeVars, audioVars>>
  PROVE  IInv'
<1> USE DEF IInv
<1> DEFINE more == ok /\ msg[s] = "session.update"
<1>1. /\ at' = [at EXCEPT ![s] = IF more THEN "called" ELSE "idle"]
      /\ msg' = [msg EXCEPT ![s] = IF more THEN "response.create" ELSE msg[s]]
      /\ writeMu' = NoSender
  BY DEF Return
<1>2. sent \subseteq sent' /\ sent' \subseteq sent \cup {msg[s]}
  OBVIOUS
<1>3. OpenAITypeOK'
  BY <1>1, <1>2 DEF OpenAITypeOK, Messages, linkVars, closeVars, audioVars
<1>4. SendInv'
  <2>1. ASSUME NEW t \in Senders, t # s
        PROVE  at[t] \notin {"locked", "found", "open"}
    BY <2>1 DEF SendInv
  <2> QED BY <1>1, <2>1 DEF SendInv, OpenAITypeOK, closeVars
<1>5. ConfigureInv'
  <2>1. "response.create" \in sent' => "session.update" \in sent'
    BY <1>2 DEF ConfigureInv, ConfiguredFirst
  <2>2. more => "session.update" \in sent'
    OBVIOUS
  <2>3. ASSUME NEW t \in Senders, msg'[t] = "response.create"
        PROVE  "session.update" \in sent'
    BY <1>1, <1>2, <2>2, <2>3 DEF ConfigureInv, OpenAITypeOK
  <2> QED BY <2>1, <2>3 DEF ConfigureInv, ConfiguredFirst
<1>6. QuietInv'
  BY AudioUntouched DEF closeVars
<1> QED BY <1>3, <1>4, <1>5, <1>6

(* sendMessage.                                                            *)
LEMMA SendKeeps ==
  ASSUME IInv, process = "running", NEW s \in Senders, SendStep(s)
  PROVE  IInv'
<1> USE DEF IInv
<1>1. CASE CheckClosed(s) \/ LockWrite(s)
  <2>1. OpenAITypeOK'
    BY <1>1
       DEF CheckClosed, LockWrite, Move, OpenAITypeOK, linkVars, closeVars,
           audioVars
  <2>2. SendInv'
    BY <1>1, OpenAIAssumption
       DEF CheckClosed, LockWrite, Move, SendInv, closeVars, OpenAITypeOK
  <2>3. ConfigureInv'
    BY <1>1 DEF CheckClosed, LockWrite, ConfigureInv, ConfiguredFirst
  <2>4. QuietInv'
    BY <1>1, AudioUntouched DEF CheckClosed, LockWrite, closeVars
  <2> QED BY <2>1, <2>2, <2>3, <2>4
<1>2. ASSUME NEW f \in {"locked", "found"}, NEW t \in {"found", "open"}, field,
             Move(s, f, t),
             UNCHANGED <<linkVars, msg, writeMu, sent, process, closeVars,
                         audioVars>>
      PROVE  IInv'
  <2>1. OpenAITypeOK'
    BY <1>2 DEF Move, OpenAITypeOK, linkVars, closeVars, audioVars
  <2>2. SendInv'
    BY <1>2 DEF Move, SendInv, closeVars, OpenAITypeOK
  <2>3. ConfigureInv'
    BY <1>2 DEF ConfigureInv, ConfiguredFirst
  <2>4. QuietInv'
    BY <1>2, AudioUntouched DEF closeVars
  <2> QED BY <2>1, <2>2, <2>3, <2>4
<1>3. ASSUME at[s] \in {"locked", "found", "open"}, Return(s, FALSE),
             UNCHANGED <<linkVars, sent, process, closeVars, audioVars>>
      PROVE  IInv'
  BY <1>3, ReturnKeeps
<1>4. CASE FindChannel(s)
  BY <1>2, <1>3, <1>4 DEF FindChannel
<1>5. CASE Panic(s)
  <2>1. OpenAITypeOK'
    BY <1>5 DEF Panic, OpenAITypeOK, linkVars, closeVars, audioVars
  <2>2. SendInv'
    BY <1>5 DEF Panic, SendInv, closeVars, OpenAITypeOK
  <2>3. ConfigureInv'
    BY <1>5 DEF Panic, ConfigureInv, ConfiguredFirst
  <2>4. QuietInv'
    BY <1>5, AudioUntouched DEF Panic, closeVars
  <2> QED BY <2>1, <2>2, <2>3, <2>4
<1>6. CASE CheckOpen(s)
  BY <1>2, <1>3, <1>6 DEF CheckOpen
<1>7. CASE Send(s)
  <2>1. CASE Return(s, TRUE) /\ sent' = sent \cup {msg[s]}
    BY <1>7, <2>1, ReturnKeeps DEF Send
  <2>2. CASE Return(s, FALSE) /\ UNCHANGED sent
    BY <1>3, <1>7, <2>2 DEF Send
  <2> QED BY <1>7, <2>1, <2>2 DEF Send
<1> QED BY <1>1, <1>4, <1>5, <1>6, <1>7 DEF SendStep

(* An event of the data channel.                                           *)
LEMMA InterruptKeeps ==
  ASSUME IInv, NEW h \in Handlers, Interrupt(h)
  PROVE  IInv'
<1> USE DEF IInv
<1>1. /\ h \in Senders
      /\ at[h] = "idle"
      /\ at' = [at EXCEPT ![h] = "called"]
      /\ msg' = [msg EXCEPT ![h] = "response.cancel"]
      /\ UNCHANGED <<linkVars, writeMu, sent, process, closeVars, audioVars>>
  BY DEF Interrupt, Move, Senders
<1>2. OpenAITypeOK'
  BY <1>1 DEF OpenAITypeOK, Messages, linkVars, closeVars, audioVars
<1>3. SendInv'
  BY <1>1 DEF SendInv, closeVars, OpenAITypeOK
<1>4. ConfigureInv'
  BY <1>1 DEF ConfigureInv, ConfiguredFirst, OpenAITypeOK
<1>5. QuietInv'
  BY <1>1, AudioUntouched DEF closeVars
<1> QED BY <1>2, <1>3, <1>4, <1>5

(* Close: the field goes while somebody may hold writeMu.                  *)
LEMMA CloseKeeps ==
  ASSUME IInv, process = "running", CloseBegin \/ CloseStep
  PROVE  IInv'
<1> USE DEF IInv
<1>1. OpenAITypeOK'
  BY DEF CloseBegin, CloseStep, CloseChannel, ForgetChannel, ClosePeer,
         OpenAITypeOK, linkVars, sendVars, audioVars
<1>2. SendInv'
  BY DEF CloseBegin, CloseStep, CloseChannel, ForgetChannel, ClosePeer, SendInv,
         sendVars
<1>3. ConfigureInv'
  BY DEF CloseBegin, CloseStep, CloseChannel, ForgetChannel, ClosePeer,
         ConfigureInv, ConfiguredFirst, sendVars
<1>4. QuietInv'
  <2>1. (closed => closed') /\ UNCHANGED audioVars
    BY DEF CloseBegin, CloseStep, CloseChannel, ForgetChannel, ClosePeer
  <2> QED BY <2>1 DEF QuietInv, QuietAfterClose, audioVars
<1> QED BY <1>1, <1>2, <1>3, <1>4

(* The track reader and SendOpusAudio.                                     *)
LEMMA AudioKeeps ==
  ASSUME IInv,
         \/ ReadCheck \/ ReadFrame \/ ReadReturns
         \/ \E u \in Uplinks : UplinkBegin(u) \/ UplinkWrite(u)
  PROVE  IInv'
<1> USE DEF IInv
<1>0. /\ UNCHANGED <<linkVars, sendVars, closeVars>>
      /\ SendInv' /\ ConfigureInv'
  BY SendersUntouched
     DEF ReadCheck, ReadFrame, ReadReturns, ReadEOF, ReadError, UplinkBegin,
         UplinkWrite, sendVars, closeVars
<1>1. ASSUME NEW g \in Uplinks \cup {"reader"}, CountLate(g), late[g] = 0
      PROVE  /\ late' \in [Uplinks \cup {"reader"} -> 0..2]
             /\ \A z \in DOMAIN late' : late'[z] <= 1
             /\ ~closed => \A z \in DOMAIN late' : late'[z] = 0
             /\ \A z \in DOMAIN late' \ {g} : late'[z] = late[z]
             /\ DOMAIN late' = Uplinks \cup {"reader"}
  BY <1>1 DEF CountLate, OpenAITypeOK, QuietInv, QuietAfterClose
<1>2. CASE ReadCheck
  BY <1>0, <1>2
     DEF ReadCheck, ReadMove, OpenAITypeOK, QuietInv, QuietAfterClose, linkVars,
         sendVars, closeVars
<1>3. CASE ReadFrame \/ ReadReturns
  <2>1. /\ reader = "reading"
        /\ reader' \in {"top", "exited"}
        /\ UNCHANGED late \/ CountLate("reader")
        /\ UNCHANGED uplink
    BY <1>3 DEF ReadFrame, ReadReturns, ReadEOF, ReadError, ReadMove
  <2>2. CASE UNCHANGED late
    BY <1>0, <2>1, <2>2
       DEF OpenAITypeOK, QuietInv, QuietAfterClose, linkVars, sendVars, closeVars
  <2>3. CASE CountLate("reader")
    <3>1. late["reader"] = 0
      BY <2>1 DEF QuietInv
    <3>2. OpenAITypeOK'
      BY <1>0, <1>1, <2>1, <2>3, <3>1
         DEF OpenAITypeOK, linkVars, sendVars, closeVars
    <3>3. QuietInv'
      BY <1>0, <1>1, <2>1, <2>3, <3>1, OpenAIAssumption
         DEF QuietInv, QuietAfterClose, closeVars
    <3> QED BY <1>0, <3>2, <3>3
  <2> QED BY <2>1, <2>2, <2>3
<1>4. ASSUME NEW u \in Uplinks, UplinkBegin(u)
      PROVE  IInv'
  <2>1. ~closed /\ UNCHANGED <<reader, late>>
        /\ uplink' = [uplink EXCEPT ![u] = "passed"]
    BY <1>4 DEF UplinkBegin
  <2>2. OpenAITypeOK'
    BY <1>0, <2>1 DEF OpenAITypeOK, linkVars, sendVars, closeVars
  <2>3. QuietInv'
    BY <1>0, <2>1 DEF OpenAITypeOK, QuietInv, QuietAfterClose, closeVars
  <2> QED BY <1>0, <2>2, <2>3
<1>5. ASSUME NEW u \in Uplinks, UplinkWrite(u)
      PROVE  IInv'
  <2>1. /\ late[u] = 0 /\ CountLate(u) /\ UNCHANGED reader
        /\ uplink' = [uplink EXCEPT ![u] = "idle"]
    BY <1>5 DEF UplinkWrite, QuietInv
  <2>2. OpenAITypeOK'
    BY <1>0, <1>1, <2>1 DEF OpenAITypeOK, linkVars, sendVars, closeVars
  <2>3. QuietInv'
    BY <1>0, <1>1, <2>1, OpenAIAssumption
       DEF OpenAITypeOK, QuietInv, QuietAfterClose, closeVars
  <2> QED BY <1>0, <2>2, <2>3
<1> QED BY <1>2, <1>3, <1>4, <1>5

(* Every step keeps the invariant.                                         *)
LEMMA StepKeeps == IInv /\ [OpenAINext]_aiVars => IInv'
<1> SUFFICES ASSUME IInv, [OpenAINext]_aiVars PROVE IInv'
  OBVIOUS
<1>1. CASE OpenAINext
  <2>1. process = "running"
    BY <1>1 DEF OpenAINext
  <2> QED
    BY <1>1, <2>1, LinkKeeps, SendKeeps, InterruptKeeps, CloseKeeps, AudioKeeps
       DEF OpenAINext
<1>2. CASE UNCHANGED aiVars
  <2>1. UNCHANGED <<linkVars, sendVars, closeVars, audioVars>>
    BY <1>2 DEF aiVars
  <2>2. OpenAITypeOK'
    BY <2>1 DEF IInv, OpenAITypeOK, linkVars, sendVars, closeVars, audioVars
  <2>3. SendInv' /\ ConfigureInv' /\ QuietInv'
    BY <2>1, SendersUntouched, AudioUntouched DEF sendVars, closeVars
  <2> QED BY <2>2, <2>3 DEF IInv
<1> QED BY <1>1, <1>2

(* The invariant holds throughout.                                         *)
THEOREM Invariance == OpenAISpec => []IInv
BY Starts, StepKeeps, PTL DEF OpenAISpec

-------------------------------------------------------------------------------
(* Type correctness, for any number of goroutines.                         *)
THEOREM OpenAITypeCorrect == OpenAISpec => []OpenAITypeOK
<1>1. IInv => OpenAITypeOK
  BY DEF IInv
<1> QED BY <1>1, Invariance, PTL

(* However many goroutines send, only the one that held writeMu when Close *)
(* cleared the data channel can dereference nil.                           *)
THEOREM OnlyTheHolderPanics == OpenAISpec => []CrashOnlyByHolder
<1>1. IInv => CrashOnlyByHolder
  BY DEF IInv, SendInv, CrashOnlyByHolder
<1> QED BY <1>1, Invariance, PTL

(* The greeting never precedes the configuration.                          *)
THEOREM GreetingAfterConfiguration == OpenAISpec => []ConfiguredFirst
<1>1. IInv => ConfiguredFirst
  BY DEF IInv, ConfigureInv
<1> QED BY <1>1, Invariance, PTL

(* After Close every goroutine passes on at most one more thing.           *)
THEOREM ClosedServiceIsQuiet == OpenAISpec => []QuietAfterClose
<1>1. IInv => QuietAfterClose
  BY DEF IInv, QuietInv
<1> QED BY <1>1, Invariance, PTL

-------------------------------------------------------------------------------
(* The reader of a closed service.                                         *)

(* Close follows a Connect that succeeded and ends with the peer           *)
(* connection closed.                                                      *)
ClosingInv ==
  /\ closed <=> closing # "no"
  /\ closed => connect = "connected"
  /\ closing = "done" => peer = "closed"

ServiceInv == OpenAITypeOK /\ ClosingInv

Quiet        == reader \in {"none", "exited"} \/ process = "crashed"
Closing(p)   == process = "running" /\ closing = p
Closed(r)    == Closing("done") /\ reader = r

LEMMA ClosingStarts == OpenAIInit => ClosingInv
BY DEF OpenAIInit, ClosingInv

LEMMA ClosingKeeps == OpenAITypeOK /\ ClosingInv /\ [OpenAINext]_aiVars => ClosingInv'
<1> SUFFICES ASSUME OpenAITypeOK, ClosingInv, [OpenAINext]_aiVars
             PROVE  ClosingInv'
  OBVIOUS
<1> USE DEF ClosingInv
<1>1. CASE UNCHANGED <<closed, closing, connect, peer>>
  BY <1>1
<1>2. CASE LinkStep
  BY <1>2 DEF LinkStep, ConnectStep, NextStep, ConnectFail, LinkUp, ChannelOpens,
              TrackArrives, LinkLost, linkVars, closeVars
<1>3. CASE CloseBegin \/ CloseStep
  BY <1>3 DEF CloseBegin, CloseStep, CloseChannel, ForgetChannel, ClosePeer,
              linkVars
<1>4. CASE \/ \E h \in Handlers : Interrupt(h)
           \/ \E s \in Senders : SendStep(s)
  BY <1>1, <1>4
     DEF Interrupt, SendStep, CheckClosed, LockWrite, FindChannel, Panic,
         CheckOpen, Send, linkVars, closeVars
<1>5. CASE \/ ReadCheck \/ ReadFrame \/ ReadReturns
           \/ \E u \in Uplinks : UplinkBegin(u) \/ UplinkWrite(u)
           \/ UNCHANGED aiVars
  BY <1>1, <1>5
     DEF ReadCheck, ReadFrame, ReadReturns, ReadEOF, ReadError, UplinkBegin,
         UplinkWrite, aiVars, linkVars, closeVars
<1> QED BY <1>2, <1>3, <1>4, <1>5 DEF OpenAINext

(* Close goes forward, and the reader does not begin another read of a     *)
(* closed service.                                                         *)
LEMMA ClosingGoesOn ==
  ASSUME ServiceInv, [OpenAINext]_aiVars
  PROVE  /\ Closing("channel") =>
              Closing("channel")' \/ Closing("field")' \/ Quiet'
         /\ Closing("field") => Closing("field")' \/ Closing("peer")' \/ Quiet'
         /\ Closing("peer") => Closing("peer")' \/ Closing("done")' \/ Quiet'
         /\ Closed("reading") => Closed("reading")' \/ Closed("top")' \/ Quiet'
         /\ Closed("top") => Closed("top")' \/ Quiet'
<1> USE DEF Closing, Closed, Quiet, ServiceInv, ClosingInv
<1>1. CASE UNCHANGED <<closed, closing, reader, process>>
  BY <1>1
<1>2. CASE LinkStep
  BY <1>2 DEF LinkStep, ConnectStep, NextStep, ConnectFail, LinkUp, ChannelOpens,
              TrackArrives, LinkLost, sendVars, closeVars, audioVars
<1>3. CASE CloseBegin \/ CloseStep
  BY <1>3 DEF CloseBegin, CloseStep, CloseChannel, ForgetChannel, ClosePeer,
              sendVars, audioVars
<1>4. CASE \/ \E h \in Handlers : Interrupt(h)
           \/ \E s \in Senders : SendStep(s)
  <2>1. UNCHANGED <<closed, closing, reader>> /\ process' \in {process, "crashed"}
    BY <1>4 DEF Interrupt, SendStep, CheckClosed, LockWrite, FindChannel, Panic,
                CheckOpen, Send, closeVars, audioVars
  <2> QED BY <2>1
<1>5. CASE ReadCheck \/ ReadFrame \/ ReadReturns
  BY <1>5 DEF ReadCheck, ReadFrame, ReadReturns, ReadEOF, ReadError, ReadMove,
              sendVars, closeVars
<1>6. CASE \/ \E u \in Uplinks : UplinkBegin(u) \/ UplinkWrite(u)
           \/ UNCHANGED aiVars
  BY <1>1, <1>6
     DEF UplinkBegin, UplinkWrite, aiVars, sendVars, closeVars, audioVars
<1> QED BY <1>2, <1>3, <1>4, <1>5, <1>6 DEF OpenAINext

LEMMA ClosingAdvances ==
  ASSUME ServiceInv
  PROVE  /\ <<process = "running" /\ CloseStep>>_aiVars =>
              /\ Closing("channel") => Closing("field")'
              /\ Closing("field") => Closing("peer")'
              /\ Closing("peer") => Closing("done")'
         /\ <<process = "running" /\ ReadCheck>>_aiVars => (Closed("top") => Quiet')
         /\ <<process = "running" /\ peer = "closed" /\ ReadReturns>>_aiVars =>
              (Closed("reading") => Closed("top")' \/ Quiet')
BY DEF Closing, Closed, Quiet, ServiceInv, ClosingInv, CloseStep, CloseChannel,
       ForgetChannel, ClosePeer, ReadCheck, ReadReturns, ReadEOF, ReadError,
       ReadMove, sendVars, closeVars, audioVars

(* That each step on the way is possible when it is due: Close waits for   *)
(* nobody, and a read of a closed peer connection returns.  Each line      *)
(* assumes the guard of the step it names, so the actions say it is true;  *)
(* as the provers do not reason about ENABLED it is a hypothesis of the    *)
(* theorem.                                                                *)
CanClose  == ENABLED <<process = "running" /\ CloseStep>>_aiVars

CanCheck  == ENABLED <<process = "running" /\ ReadCheck>>_aiVars

CanReturn ==
  ENABLED <<process = "running" /\ peer = "closed" /\ ReadReturns>>_aiVars

CloseNeverStuck ==
  process = "running" =>
    /\ closing \in {"channel", "field", "peer"} => CanClose
    /\ reader = "top" => CanCheck
    /\ reader = "reading" /\ peer = "closed" => CanReturn

(* Under weak fairness the reader of a closed service ends, or the process *)
(* does, provided that the steps of Close and of the reader are possible   *)
(* when they are due.                                                      *)
THEOREM ClosedReaderEnds == OpenAIFairSpec /\ []CloseNeverStuck => ReaderEnds
<1>1. ServiceInv /\ closed =>
        \/ Closing("channel") \/ Closing("field") \/ Closing("peer")
        \/ Closing("done") \/ Quiet
  BY DEF ServiceInv, ClosingInv, OpenAITypeOK, Closing, Quiet
<1>2. ServiceInv /\ Closing("done") => Closed("reading") \/ Closed("top") \/ Quiet
  BY DEF ServiceInv, OpenAITypeOK, Closed, Quiet
<1>3. ServiceInv /\ [OpenAINext]_aiVars =>
        /\ Closing("channel") =>
             Closing("channel")' \/ Closing("field")' \/ Quiet'
        /\ Closing("field") => Closing("field")' \/ Closing("peer")' \/ Quiet'
        /\ Closing("peer") => Closing("peer")' \/ Closing("done")' \/ Quiet'
        /\ Closed("reading") => Closed("reading")' \/ Closed("top")' \/ Quiet'
        /\ Closed("top") => Closed("top")' \/ Quiet'
  BY ClosingGoesOn
<1>4. ServiceInv =>
        /\ <<process = "running" /\ CloseStep>>_aiVars =>
             /\ Closing("channel") => Closing("field")'
             /\ Closing("field") => Closing("peer")'
             /\ Closing("peer") => Closing("done")'
        /\ <<process = "running" /\ ReadCheck>>_aiVars => (Closed("top") => Quiet')
        /\ <<process = "running" /\ peer = "closed" /\ ReadReturns>>_aiVars =>
             (Closed("reading") => Closed("top")' \/ Quiet')
  BY ClosingAdvances
<1>5. ServiceInv /\ CloseNeverStuck =>
        /\ Closing("channel") \/ Closing("field") \/ Closing("peer") => CanClose
        /\ Closed("top") => CanCheck
        /\ Closed("reading") => CanReturn
  <2>1. CloseNeverStuck =>
          /\ Closing("channel") \/ Closing("field") \/ Closing("peer") => CanClose
          /\ Closed("top") => CanCheck
    BY DEF CloseNeverStuck, Closing, Closed
  <2>2. CloseNeverStuck /\ ServiceInv => (Closed("reading") => CanReturn)
    BY DEF CloseNeverStuck, ServiceInv, ClosingInv, Closing, Closed
  <2> QED BY <2>1, <2>2
<1>6. OpenAIInit => ServiceInv
  BY Starts, ClosingStarts DEF ServiceInv, IInv
<1>7. IInv /\ ServiceInv /\ [OpenAINext]_aiVars => ServiceInv'
  BY StepKeeps, ClosingKeeps DEF ServiceInv, IInv
<1> QED BY <1>1, <1>2, <1>3, <1>4, <1>5, <1>6, <1>7, Invariance, PTL
        DEF ReaderEnds, Quiet, OpenAIFairSpec, OpenAISpec, OpenAIFairness,
            CanClose, CanCheck, CanReturn
===============================================================================
