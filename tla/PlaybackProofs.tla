----------------------------- MODULE PlaybackProofs ----------------------------
(***************************************************************************)
(* Proofs about Playback.tla for every buffer capacity and every number of *)
(* frames and events: type correctness, the stale-frame rule, and that the *)
(* audio path is a lossy FIFO.                                             *)
(***************************************************************************)
EXTENDS Playback, FiniteSetTheorems, TLAPS

(* The queue of frames on their way, oldest first: sent, in hand, in the   *)
(* channel, offered.  Everything in it arrived, and nothing overtakes.     *)
SentOrdered ==
  \A n \in 1..Len(sent) :
    /\ sent[n] \in 1..received
    /\ hand # NoFrame => sent[n] < hand
    /\ \A m \in 1..Len(opusBuffer) : sent[n] < opusBuffer[m]
    /\ offered # NoFrame => sent[n] < offered

HandOrdered ==
  hand # NoFrame =>
    /\ hand \in 1..received
    /\ \A m \in 1..Len(opusBuffer) : hand < opusBuffer[m]
    /\ offered # NoFrame => hand < offered

BufferOrdered ==
  \A m \in 1..Len(opusBuffer) :
    /\ opusBuffer[m] \in 1..received
    /\ \A k \in 1..Len(opusBuffer) : k < m => opusBuffer[k] < opusBuffer[m]
    /\ offered # NoFrame => opusBuffer[m] < offered

OfferedLast == offered # NoFrame => offered \in 1..received

(* A response that is not marked as playing ended after the last arrival.  *)
SilentSinceDone ==
  /\ ~playing => doneMark = received
  /\ doneMark <= received

IInv ==
  /\ TypeOK
  /\ SentOrdered
  /\ HandOrdered
  /\ BufferOrdered
  /\ OfferedLast
  /\ SilentSinceDone
  /\ SkippedOnlyAfterDone

-------------------------------------------------------------------------------
(* What receiving from a channel leaves in it.                             *)
LEMMA TailFacts ==
  ASSUME NEW q \in Seq(Nat), q # <<>>
  PROVE  /\ Head(q) = q[1]
         /\ Head(q) \in Nat
         /\ Tail(q) \in Seq(Nat)
         /\ Len(q) \in Nat \ {0}
         /\ Len(Tail(q)) = Len(q) - 1
         /\ \A m \in 1..Len(Tail(q)) : Tail(q)[m] = q[m + 1]
         /\ \A m \in 1..Len(Tail(q)) : m + 1 \in 1..Len(q)
OBVIOUS

(* What sending to a channel, or to the caller, adds.                      *)
LEMMA AppendFacts ==
  ASSUME NEW q \in Seq(Nat), NEW f \in Nat
  PROVE  /\ Append(q, f) \in Seq(Nat)
         /\ Len(q) \in Nat
         /\ Len(Append(q, f)) = Len(q) + 1
         /\ \A m \in 1..Len(Append(q, f)) :
              Append(q, f)[m] = IF m = Len(q) + 1 THEN f ELSE q[m]
         /\ \A m \in 1..Len(Append(q, f)) :
              m # Len(q) + 1 => m \in 1..Len(q)
OBVIOUS

(* Nothing has arrived yet.                                                *)
LEMMA InitIInv == Init => IInv
<1> SUFFICES ASSUME Init PROVE IInv
  OBVIOUS
<1>1. TypeOK
  <2>1. Len(opusBuffer) = 0 /\ opusBuffer \in Seq(Nat) /\ sent \in Seq(Nat)
    BY DEF Init
  <2>2. lost \in [Causes -> SUBSET Nat]
    BY DEF Init
  <2>3. /\ isActive \in BOOLEAN /\ ctxDone \in BOOLEAN
        /\ playing \in BOOLEAN /\ responding \in BOOLEAN
    BY DEF Init
  <2> QED BY <2>1, <2>2, <2>3, PlaybackAssumption DEF Init, TypeOK
<1>2. SentOrdered /\ HandOrdered /\ BufferOrdered /\ OfferedLast
  BY DEF Init, SentOrdered, HandOrdered, BufferOrdered, OfferedLast
<1>3. SilentSinceDone /\ SkippedOnlyAfterDone
  BY DEF Init, SilentSinceDone, SkippedOnlyAfterDone, Causes
<1> QED BY <1>1, <1>2, <1>3 DEF IInv

(* Every action keeps the variables in their types.                        *)
LEMMA TypeStep == IInv /\ [Next]_vars => TypeOK'
<1> SUFFICES ASSUME IInv, [Next]_vars PROVE TypeOK'
  OBVIOUS
<1> USE PlaybackAssumption DEF IInv, TypeOK, flagVars, queueVars, outVars,
        controlVars
<1>1. CASE OnOpusData
  BY <1>1 DEF OnOpusData
<1>2. CASE EnqueueFrame
  BY <1>2, AppendFacts DEF EnqueueFrame
<1>3. CASE DropFrame
  BY <1>3 DEF DropFrame, Causes
<1>4. CASE StartOutput \/ ConnectFail \/ OutputExit
  BY <1>4 DEF StartOutput, ConnectFail, OutputExit
<1>5. CASE Dequeue
  BY <1>5, TailFacts DEF Dequeue
<1>6. CASE SkipFrame
  BY <1>6 DEF SkipFrame, Causes
<1>7. CASE CountFrame
  BY <1>7 DEF CountFrame
<1>8. CASE SendFrame
  <2>1. hand \in Nat /\ hand' = NoFrame /\ outPc' = "waiting"
        /\ UNCHANGED <<flagVars, playing, queueVars, played, controlVars,
                       received>>
    BY <1>8 DEF SendFrame
  <2>2. sent' \in Seq(Nat)
    <3>1. sent' = sent \/ sent' = Append(sent, hand)
      BY <1>8 DEF SendFrame
    <3>2. sent \in Seq(Nat)
      OBVIOUS
    <3>3. Append(sent, hand) \in Seq(Nat)
      BY ONLY <2>1, <3>2, AppendFacts
    <3> QED BY ONLY <3>1, <3>2, <3>3
  <2>3. lost' \in [Causes -> SUBSET Nat]
    <3>1. lost \in [Causes -> SUBSET Nat] /\ "failed" \in Causes
      BY DEF Causes
    <3>2. lost' = lost \/ lost' = [lost EXCEPT !["failed"] = @ \cup {hand}]
      BY <1>8 DEF SendFrame
    <3>3. [lost EXCEPT !["failed"] = @ \cup {hand}] \in [Causes -> SUBSET Nat]
      BY ONLY <2>1, <3>1
    <3> QED BY ONLY <3>1, <3>2, <3>3
  <2> QED BY <2>1, <2>2, <2>3
<1>9. CASE ResponseCreated \/ ResponseDone
  <2>1. CASE ResponseCreated
    BY <2>1 DEF ResponseCreated
  <2>2. CASE ResponseDone
    <3>1. playing' \in BOOLEAN /\ responding' \in BOOLEAN
      BY <2>2 DEF ResponseDone
    <3> QED BY <2>2, <3>1 DEF ResponseDone
  <2> QED BY <1>9, <2>1, <2>2
<1>10. CASE SpeechStart
  BY <1>10 DEF SpeechStart
<1>11. CASE ClearFrame
  BY <1>11, TailFacts DEF ClearFrame, Causes
<1>12. CASE ClearEnd
  BY <1>12 DEF ClearEnd
<1>13. CASE RemoveDeactivate \/ RemoveCancel
  BY <1>13 DEF RemoveDeactivate, RemoveCancel
<1>14. CASE UNCHANGED vars
  BY <1>14 DEF vars
<1> QED BY <1>1, <1>2, <1>3, <1>4, <1>5, <1>6, <1>7, <1>8, <1>9, <1>10, <1>11,
           <1>12, <1>13, <1>14 DEF Next, OutputStep

-------------------------------------------------------------------------------
(* The queue variables change in six ways only.                            *)
QueueStep ==
  \/ OnOpusData
  \/ EnqueueFrame
  \/ DropFrame
  \/ Dequeue
  \/ hand' = NoFrame /\ UNCHANGED <<opusBuffer, offered, sent, received>>
  \/ SendFrame
  \/ ClearFrame
  \/ UNCHANGED <<opusBuffer, offered, hand, sent, received>>

(* Every step is one of them.                                              *)
LEMMA StepIsQueueStep == [Next]_vars => QueueStep
BY DEF Next, OutputStep, QueueStep, vars, queueVars, outVars, controlVars,
       StartOutput, ConnectFail, OutputExit, SkipFrame, CountFrame,
       ResponseCreated, ResponseDone, SpeechStart, ClearEnd, RemoveDeactivate,
       RemoveCancel

(* Frames move along the queue, join it at the end, or leave it; none of   *)
(* this changes the order of the others.                                   *)
LEMMA OrderStep ==
  IInv /\ TypeOK' /\ QueueStep
    => SentOrdered' /\ HandOrdered' /\ BufferOrdered' /\ OfferedLast'
<1> SUFFICES ASSUME IInv, TypeOK', QueueStep
             PROVE  SentOrdered' /\ HandOrdered' /\ BufferOrdered' /\ OfferedLast'
  OBVIOUS
<1> USE PlaybackAssumption DEF IInv, TypeOK, flagVars, queueVars, outVars,
        controlVars
<1>1. CASE OnOpusData
  <2>1. /\ received \in Nat /\ received' = received + 1 /\ offered' = received + 1
        /\ offered = NoFrame /\ UNCHANGED <<hand, sent, opusBuffer>>
    BY <1>1 DEF OnOpusData
  <2>2. \A f \in 1..received : f \in 1..received' /\ f < offered'
    BY ONLY <2>1
  <2>3. SentOrdered'
    BY <2>1, <2>2 DEF SentOrdered
  <2>4. HandOrdered'
    BY <2>1, <2>2 DEF HandOrdered
  <2>5. BufferOrdered'
    BY <2>1, <2>2 DEF BufferOrdered
  <2>6. OfferedLast'
    BY ONLY <2>1 DEF OfferedLast
  <2> QED BY <2>3, <2>4, <2>5, <2>6
<1>2. CASE EnqueueFrame
  <2>1. offered \in Nat /\ opusBuffer' = Append(opusBuffer, offered)
        /\ offered' = NoFrame /\ UNCHANGED <<hand, sent, received>>
    BY <1>2 DEF EnqueueFrame
  <2>2. /\ Len(opusBuffer) \in Nat /\ Len(opusBuffer') = Len(opusBuffer) + 1
        /\ \A m \in 1..Len(opusBuffer') :
             \/ m = Len(opusBuffer) + 1 /\ opusBuffer'[m] = offered
             \/ m \in 1..Len(opusBuffer) /\ opusBuffer'[m] = opusBuffer[m]
    <3>1. opusBuffer \in Seq(Nat) /\ offered \in Nat
      BY <2>1
    <3> QED BY ONLY <2>1, <3>1, AppendFacts
  <2>3. /\ offered \in 1..received
        /\ \A m \in 1..Len(opusBuffer) :
             opusBuffer[m] \in 1..received /\ opusBuffer[m] < offered
        /\ \A k, m \in 1..Len(opusBuffer) : k < m => opusBuffer[k] < opusBuffer[m]
        /\ received \in Nat
    BY <1>2 DEF EnqueueFrame, BufferOrdered, OfferedLast
  <2>4. BufferOrdered'
    BY ONLY <2>1, <2>2, <2>3 DEF BufferOrdered
  <2>5. SentOrdered'
    BY <2>1, <2>2 DEF SentOrdered
  <2>6. HandOrdered' /\ OfferedLast'
    BY <2>1, <2>2 DEF HandOrdered, OfferedLast
  <2> QED BY <2>4, <2>5, <2>6
<1>3. CASE DropFrame
  BY <1>3 DEF DropFrame, SentOrdered, HandOrdered, BufferOrdered, OfferedLast
<1>4. CASE Dequeue
  <2>1. opusBuffer # <<>> /\ hand' = Head(opusBuffer)
        /\ opusBuffer' = Tail(opusBuffer)
        /\ UNCHANGED <<offered, sent, received>>
    BY <1>4 DEF Dequeue
  <2>2. BufferOrdered'
    BY <2>1, TailFacts DEF BufferOrdered
  <2>3. hand' = opusBuffer[1] /\ 1 \in 1..Len(opusBuffer)
    BY <2>1, TailFacts
  <2>4. \A m \in 1..Len(opusBuffer') :
          opusBuffer'[m] = opusBuffer[m + 1] /\ m + 1 \in 1..Len(opusBuffer)
    BY <2>1, TailFacts
  <2>5. SentOrdered'
    <3> SUFFICES ASSUME NEW n \in 1..Len(sent)
                 PROVE  /\ sent[n] \in 1..received
                        /\ sent[n] < opusBuffer[1]
                        /\ \A m \in 1..Len(opusBuffer') :
                             sent[n] < opusBuffer'[m]
                        /\ offered # NoFrame => sent[n] < offered
      BY <2>1, <2>3 DEF SentOrdered
    <3> QED BY <2>3, <2>4 DEF SentOrdered
  <2>6. \A m \in 1..Len(opusBuffer') : hand' < opusBuffer'[m]
    <3> SUFFICES ASSUME NEW m \in 1..Len(opusBuffer')
                 PROVE  opusBuffer[1] < opusBuffer[m + 1]
      BY <2>3, <2>4
    <3>1. m + 1 \in 1..Len(opusBuffer) /\ 1 < m + 1
      BY <2>1, <2>4, TailFacts
    <3> QED BY <2>3, <3>1 DEF BufferOrdered
  <2>7. HandOrdered' /\ OfferedLast'
    BY <2>1, <2>3, <2>6 DEF HandOrdered, OfferedLast, BufferOrdered
  <2> QED BY <2>2, <2>5, <2>7
<1>5. CASE hand' = NoFrame /\ UNCHANGED <<opusBuffer, offered, sent, received>>
  BY <1>5 DEF SentOrdered, HandOrdered, BufferOrdered, OfferedLast
<1>6. CASE SendFrame
  <2>1. hand \in Nat /\ hand' = NoFrame
        /\ UNCHANGED <<opusBuffer, offered, received>>
        /\ (sent' = Append(sent, hand) \/ sent' = sent)
    BY <1>6 DEF SendFrame
  <2>2. SentOrdered'
    <3>1. CASE sent' = Append(sent, hand)
      <4> SUFFICES ASSUME NEW n \in 1..Len(sent')
                   PROVE  /\ sent'[n] \in 1..received
                          /\ \A m \in 1..Len(opusBuffer) :
                               sent'[n] < opusBuffer[m]
                          /\ offered # NoFrame => sent'[n] < offered
        BY <2>1 DEF SentOrdered
      <4>1. CASE n = Len(sent) + 1
        <5>1. sent \in Seq(Nat) /\ hand \in Nat /\ hand # NoFrame
          BY <2>1
        <5>2. sent'[n] = hand
          BY ONLY <3>1, <4>1, <5>1, AppendFacts
        <5> QED BY <5>1, <5>2 DEF HandOrdered
      <4>2. CASE n # Len(sent) + 1
        <5>1. n \in 1..Len(sent) /\ sent'[n] = sent[n]
          BY <2>1, <3>1, <4>2, AppendFacts
        <5> QED BY <5>1 DEF SentOrdered
      <4> QED BY <4>1, <4>2
    <3>2. CASE sent' = sent
      BY <2>1, <3>2 DEF SentOrdered
    <3> QED BY <2>1, <3>1, <3>2
  <2> QED BY <2>1, <2>2 DEF HandOrdered, BufferOrdered, OfferedLast
<1>7. CASE ClearFrame
  <2>1. opusBuffer # <<>> /\ opusBuffer' = Tail(opusBuffer)
        /\ UNCHANGED <<offered, hand, sent, received>>
    BY <1>7 DEF ClearFrame
  <2>2. BufferOrdered'
    BY <2>1, TailFacts DEF BufferOrdered
  <2>3. SentOrdered'
    BY <2>1, TailFacts DEF SentOrdered
  <2>4. HandOrdered' /\ OfferedLast'
    BY <2>1, TailFacts DEF HandOrdered, OfferedLast
  <2> QED BY <2>2, <2>3, <2>4
<1>8. CASE UNCHANGED <<opusBuffer, offered, hand, sent, received>>
  BY <1>8 DEF SentOrdered, HandOrdered, BufferOrdered, OfferedLast
<1> QED BY <1>1, <1>2, <1>3, <1>4, <1>5, <1>6, <1>7, <1>8 DEF QueueStep

(* An arrival sets the mark, only response.done clears it.                 *)
LEMMA SilentStep == IInv /\ TypeOK' /\ [Next]_vars => SilentSinceDone'
<1> SUFFICES ASSUME IInv, TypeOK', [Next]_vars PROVE SilentSinceDone'
  OBVIOUS
<1> USE DEF IInv, TypeOK, SilentSinceDone
<1>1. CASE OnOpusData
  BY <1>1 DEF OnOpusData, controlVars
<1>2. CASE ResponseDone
  BY <1>2 DEF ResponseDone
<1>3. CASE UNCHANGED <<playing, doneMark, received>>
  BY <1>3
<1> QED BY <1>1, <1>2, <1>3
        DEF Next, OutputStep, vars, controlVars, EnqueueFrame, DropFrame,
            StartOutput, ConnectFail, OutputExit, Dequeue, SkipFrame,
            CountFrame, SendFrame, ResponseCreated, SpeechStart, ClearFrame,
            ClearEnd, RemoveDeactivate, RemoveCancel

(* A frame is skipped while nothing plays, that is after the last          *)
(* response.done, and it arrived before.                                   *)
LEMMA SkippedStep == IInv /\ TypeOK' /\ [Next]_vars => SkippedOnlyAfterDone'
<1> SUFFICES ASSUME IInv, TypeOK', [Next]_vars PROVE SkippedOnlyAfterDone'
  OBVIOUS
<1> USE DEF IInv, TypeOK, SkippedOnlyAfterDone, Causes
<1>1. CASE SkipFrame
  BY <1>1 DEF SkipFrame, HandOrdered, SilentSinceDone, controlVars
<1>2. CASE ResponseDone
  <2>1. doneMark' = received /\ lost' = lost
    BY <1>2 DEF ResponseDone
  <2> QED BY <2>1 DEF SilentSinceDone
<1>3. CASE lost'["skipped"] = lost["skipped"] /\ doneMark' = doneMark
  BY <1>3
<1>4. CASE DropFrame \/ ClearFrame \/ SendFrame
  BY <1>3, <1>4 DEF DropFrame, ClearFrame, SendFrame, controlVars
<1> QED BY <1>1, <1>2, <1>3, <1>4
        DEF Next, OutputStep, vars, controlVars, OnOpusData, EnqueueFrame,
            StartOutput, ConnectFail, OutputExit, Dequeue, CountFrame,
            ResponseCreated, SpeechStart, ClearEnd, RemoveDeactivate,
            RemoveCancel

(* The invariant is inductive.                                             *)
LEMMA NextIInv == IInv /\ [Next]_vars => IInv'
BY TypeStep, StepIsQueueStep, OrderStep, SilentStep, SkippedStep DEF IInv

(* Hence it holds throughout.                                              *)
LEMMA Invariance == Spec => []IInv
BY InitIInv, NextIInv, PTL DEF Spec

-------------------------------------------------------------------------------
(* Type correctness, with the channel within its capacity.                 *)
THEOREM PlaybackTypeCorrect == Spec => []TypeOK
<1>1. IInv => TypeOK
  BY DEF IInv
<1> QED BY <1>1, Invariance, PTL

(* processOpusOutput throws a frame away as stale only if a response.done  *)
(* was handled after the frame arrived.                                    *)
THEOREM StaleFramesOnly == Spec => []SkippedOnlyAfterDone
<1>1. IInv => SkippedOnlyAfterDone
  BY DEF IInv
<1> QED BY <1>1, Invariance, PTL

(* Frames are sent to the caller in the order they arrived, none twice.    *)
THEOREM PlaybackIsLossyFifo == Spec => ImplementsFifo
<1>1. Init => Fifo!FifoInit
  BY DEF Init, Fifo!FifoInit
<1>2. IInv /\ [Next]_vars => [Fifo!FifoNext]_<<received, sent>>
  <2> SUFFICES ASSUME IInv, QueueStep
               PROVE  Fifo!FifoNext \/ UNCHANGED <<received, sent>>
    BY StepIsQueueStep
  <2> USE DEF IInv, TypeOK
  <2>1. CASE OnOpusData
    BY <2>1 DEF OnOpusData, outVars, Fifo!FifoNext, Fifo!Push
  <2>2. CASE SendFrame
    <3>1. CASE sent' = Append(sent, hand)
      <4>1. hand \in 1..received /\ \A n \in 1..Len(sent) : sent[n] < hand
        BY <2>2, PlaybackAssumption DEF SendFrame, HandOrdered, SentOrdered
      <4> QED BY <2>2, <3>1, <4>1 DEF SendFrame, Fifo!FifoNext, Fifo!Deliver
    <3> QED BY <2>2, <3>1 DEF SendFrame
  <2> QED BY <2>1, <2>2 DEF QueueStep, EnqueueFrame, DropFrame, Dequeue,
             ClearFrame, outVars
<1> QED BY <1>1, <1>2, Invariance, PTL DEF Spec, ImplementsFifo, Fifo!FifoSpec

-------------------------------------------------------------------------------
(* Accounting.                                                             *)

(* Frames on their way to the caller.                                      *)
Pending == FramesIn(opusBuffer) \cup ({offered, hand} \ {NoFrame})

(* Every frame that arrived is in one place.                               *)
Partition ==
  /\ Pending \cup FramesIn(sent) \subseteq 1..received
  /\ \A c \in Causes : lost[c] \subseteq 1..received
  /\ \A f \in 1..received :
       f \in Pending \cup FramesIn(sent) \/ \E c \in Causes : f \in lost[c]
  /\ Pending \cap FramesIn(sent) = {}
  /\ \A c \in Causes : lost[c] \cap (Pending \cup FramesIn(sent)) = {}
  /\ \A c, d \in Causes : c # d => lost[c] \cap lost[d] = {}

(* The counter is one ahead while a frame is being sent.                   *)
PlayedExact ==
  played = Len(sent) + Cardinality(lost["failed"])
             + (IF outPc = "sending" THEN 1 ELSE 0)

(* The frames of a channel that sends or receives.                         *)
LEMMA FramesInAppend ==
  ASSUME NEW q \in Seq(Nat), NEW f \in Nat
  PROVE  FramesIn(Append(q, f)) = FramesIn(q) \cup {f}
<1>1. \A m \in 1..Len(Append(q, f)) : Append(q, f)[m] \in FramesIn(q) \cup {f}
  BY AppendFacts DEF FramesIn
<1>2. \A m \in 1..Len(q) :
        m \in 1..Len(Append(q, f)) /\ Append(q, f)[m] = q[m]
  BY AppendFacts
<1>3. Len(q) + 1 \in 1..Len(Append(q, f)) /\ Append(q, f)[Len(q) + 1] = f
  BY AppendFacts
<1> QED BY <1>1, <1>2, <1>3 DEF FramesIn

LEMMA FramesInTail ==
  ASSUME NEW q \in Seq(Nat), q # <<>>
  PROVE  FramesIn(q) = {Head(q)} \cup FramesIn(Tail(q))
<1>1. 1 \in 1..Len(q) /\ q[1] = Head(q)
  BY TailFacts
<1>2. \A m \in 1..Len(Tail(q)) : m + 1 \in 1..Len(q) /\ Tail(q)[m] = q[m + 1]
  BY TailFacts
<1>3. \A m \in 1..Len(q) : m # 1 =>
        m - 1 \in 1..Len(Tail(q)) /\ Tail(q)[m - 1] = q[m]
  BY TailFacts
<1>4. ASSUME NEW f \in FramesIn(q)
      PROVE  f = Head(q) \/ f \in FramesIn(Tail(q))
  <2>1. PICK m \in 1..Len(q) : f = q[m]
    BY DEF FramesIn
  <2>2. CASE m = 1
    BY <1>1, <2>1, <2>2
  <2>3. CASE m # 1
    BY <1>3, <2>1, <2>3 DEF FramesIn
  <2> QED BY <2>2, <2>3
<1>5. \A f \in FramesIn(Tail(q)) : f \in FramesIn(q)
  BY <1>2 DEF FramesIn
<1>6. Head(q) \in FramesIn(q)
  BY <1>1 DEF FramesIn
<1> QED BY <1>4, <1>5, <1>6

(* The order of the frames under way tells them apart.                     *)
LEMMA PendingApart ==
  ASSUME IInv
  PROVE  /\ offered # NoFrame => offered \notin FramesIn(opusBuffer)
         /\ hand # NoFrame => hand \notin FramesIn(opusBuffer)
         /\ offered # NoFrame => offered # hand
         /\ opusBuffer # <<>> =>
              /\ Head(opusBuffer) \notin FramesIn(Tail(opusBuffer))
              /\ Head(opusBuffer) # offered /\ Head(opusBuffer) # hand
              /\ Head(opusBuffer) \in FramesIn(opusBuffer)
         /\ NoFrame \notin FramesIn(opusBuffer)
<1>1. \A m \in 1..Len(opusBuffer) :
        /\ opusBuffer[m] \in Nat
        /\ offered # NoFrame => opusBuffer[m] < offered
        /\ hand # NoFrame => hand < opusBuffer[m]
  BY DEF IInv, TypeOK, BufferOrdered, HandOrdered
<1>2. /\ offered # NoFrame => offered \in Nat
      /\ hand # NoFrame => hand \in Nat
      /\ offered # NoFrame /\ hand # NoFrame => hand < offered
  BY DEF IInv, TypeOK, HandOrdered
<1>3. ASSUME opusBuffer # <<>>
      PROVE  /\ Head(opusBuffer) \notin FramesIn(Tail(opusBuffer))
             /\ Head(opusBuffer) # offered /\ Head(opusBuffer) # hand
             /\ Head(opusBuffer) \in FramesIn(opusBuffer)
  <2>1. opusBuffer \in Seq(Nat)
    BY DEF IInv, TypeOK
  <2>2. Head(opusBuffer) = opusBuffer[1] /\ 1 \in 1..Len(opusBuffer)
    BY <1>3, <2>1, TailFacts
  <2>3. \A m \in 1..Len(Tail(opusBuffer)) :
          /\ Tail(opusBuffer)[m] = opusBuffer[m + 1]
          /\ m + 1 \in 1..Len(opusBuffer) /\ 1 < m + 1
    BY <1>3, <2>1, TailFacts
  <2>4. \A m \in 1..Len(Tail(opusBuffer)) : opusBuffer[1] < Tail(opusBuffer)[m]
    BY <2>2, <2>3 DEF IInv, BufferOrdered
  <2>5. Head(opusBuffer) \notin FramesIn(Tail(opusBuffer))
    BY <1>1, <2>2, <2>3, <2>4 DEF FramesIn
  <2>6. Head(opusBuffer) \in FramesIn(opusBuffer)
    BY <2>2 DEF FramesIn
  <2>7. Head(opusBuffer) # offered /\ Head(opusBuffer) # hand
    BY <1>1, <1>2, <2>2, PlaybackAssumption
  <2> QED BY <2>5, <2>6, <2>7
<1> QED BY <1>1, <1>2, <1>3, PlaybackAssumption DEF FramesIn

(* A frame arrives, moves on among those under way, is lost or is sent.    *)
Unmoved == Pending' = Pending /\ UNCHANGED <<sent, lost, received>>

Arrives ==
  /\ received' = received + 1
  /\ Pending' = Pending \cup {received'}
  /\ UNCHANGED <<sent, lost>>

Lost(f, c) ==
  /\ f \in Pending
  /\ Pending' = Pending \ {f}
  /\ lost' = [lost EXCEPT ![c] = @ \cup {f}]
  /\ UNCHANGED <<sent, received>>

Sent(f) ==
  /\ f \in Pending
  /\ Pending' = Pending \ {f}
  /\ FramesIn(sent') = FramesIn(sent) \cup {f}
  /\ UNCHANGED <<lost, received>>

(* Every step is one of these.                                             *)
LEMMA Flow ==
  ASSUME IInv, [Next]_vars
  PROVE  \/ Unmoved \/ Arrives
         \/ \E f \in Nat, c \in Causes : Lost(f, c)
         \/ \E f \in Nat : Sent(f)
<1> DEFINE Moved == \/ Unmoved \/ Arrives
                    \/ \E f \in Nat, c \in Causes : Lost(f, c)
                    \/ \E f \in Nat : Sent(f)
<1>1. /\ opusBuffer \in Seq(Nat) /\ sent \in Seq(Nat) /\ received \in Nat
      /\ offered \in Nat \cup {NoFrame} /\ hand \in Nat \cup {NoFrame}
      /\ hand # NoFrame <=> outPc \in {"dequeued", "sending"}
      /\ NoFrame \notin Nat
  BY PlaybackAssumption DEF IInv, TypeOK
<1>2. CASE OnOpusData
  BY <1>1, <1>2 DEF OnOpusData, outVars, Arrives, Pending
<1>3. CASE EnqueueFrame
  <2>1. /\ offered \in Nat /\ opusBuffer' = Append(opusBuffer, offered)
        /\ offered' = NoFrame /\ UNCHANGED <<hand, sent, lost, received>>
    BY <1>1, <1>3 DEF EnqueueFrame, outVars
  <2>2. FramesIn(opusBuffer') = FramesIn(opusBuffer) \cup {offered}
    BY <1>1, <2>1, FramesInAppend
  <2> QED BY <1>1, <2>1, <2>2 DEF Unmoved, Pending
<1>4. CASE DropFrame
  <2>1. /\ offered \in Nat /\ offered' = NoFrame
        /\ lost' = [lost EXCEPT !["full"] = @ \cup {offered}]
        /\ UNCHANGED <<opusBuffer, hand, sent, received>>
    BY <1>1, <1>4 DEF DropFrame, outVars
  <2>2. Lost(offered, "full")
    BY <1>1, <2>1, PendingApart DEF Lost, Pending
  <2> QED BY <2>1, <2>2 DEF Causes
<1>5. CASE Dequeue
  <2>1. /\ opusBuffer # <<>> /\ hand = NoFrame /\ hand' = Head(opusBuffer)
        /\ opusBuffer' = Tail(opusBuffer)
        /\ UNCHANGED <<offered, sent, lost, received>>
    BY <1>1, <1>5 DEF Dequeue
  <2>2. FramesIn(opusBuffer) = {Head(opusBuffer)} \cup FramesIn(opusBuffer')
        /\ Head(opusBuffer) # NoFrame
    BY <1>1, <2>1, FramesInTail, PendingApart
  <2> QED BY <2>1, <2>2 DEF Unmoved, Pending
<1>6. CASE SkipFrame
  <2>1. /\ hand \in Nat /\ hand' = NoFrame
        /\ lost' = [lost EXCEPT !["skipped"] = @ \cup {hand}]
        /\ UNCHANGED <<opusBuffer, offered, sent, received>>
    BY <1>1, <1>6 DEF SkipFrame, queueVars
  <2>2. Lost(hand, "skipped")
    BY <1>1, <2>1, PendingApart DEF Lost, Pending
  <2> QED BY <2>1, <2>2 DEF Causes
<1>7. CASE SendFrame
  <2>1. /\ hand \in Nat /\ hand' = NoFrame
        /\ UNCHANGED <<opusBuffer, offered, received>>
        /\ \/ sent' = Append(sent, hand) /\ UNCHANGED lost
           \/ lost' = [lost EXCEPT !["failed"] = @ \cup {hand}] /\ UNCHANGED sent
    BY <1>1, <1>7 DEF SendFrame, queueVars
  <2>2. hand \in Pending /\ Pending' = Pending \ {hand}
    BY <1>1, <2>1, PendingApart DEF Pending
  <2>3. CASE sent' = Append(sent, hand) /\ UNCHANGED lost
    BY <1>1, <2>1, <2>2, <2>3, FramesInAppend DEF Sent
  <2>4. CASE lost' = [lost EXCEPT !["failed"] = @ \cup {hand}] /\ UNCHANGED sent
    BY <2>1, <2>2, <2>4 DEF Lost, Causes
  <2> QED BY <2>1, <2>3, <2>4
<1>8. CASE ClearFrame
  <2>1. /\ opusBuffer # <<>> /\ opusBuffer' = Tail(opusBuffer)
        /\ lost' = [lost EXCEPT !["cleared"] = @ \cup {Head(opusBuffer)}]
        /\ UNCHANGED <<offered, hand, sent, received>>
    BY <1>8 DEF ClearFrame, outVars
  <2>2. /\ FramesIn(opusBuffer) = {Head(opusBuffer)} \cup FramesIn(opusBuffer')
        /\ Head(opusBuffer) \in Nat
    BY <1>1, <2>1, FramesInTail, TailFacts
  <2>3. Lost(Head(opusBuffer), "cleared")
    BY <2>1, <2>2, PendingApart DEF Lost, Pending
  <2> QED BY <2>2, <2>3 DEF Causes
<1>9. CASE UNCHANGED <<opusBuffer, offered, hand, sent, lost, received>>
  BY <1>9 DEF Unmoved, Pending
<1> QED
  BY <1>2, <1>3, <1>4, <1>5, <1>6, <1>7, <1>8, <1>9
     DEF Next, OutputStep, vars, queueVars, outVars, controlVars, StartOutput,
         ConnectFail, OutputExit, CountFrame, ResponseCreated, ResponseDone,
         SpeechStart, ClearEnd, RemoveDeactivate, RemoveCancel

(* None of them puts a frame in two places, or in none.                    *)
LEMMA PartitionStep == IInv /\ Partition /\ [Next]_vars => Partition'
<1> SUFFICES ASSUME IInv, Partition, [Next]_vars PROVE Partition'
  OBVIOUS
<1>1. received \in Nat /\ lost \in [Causes -> SUBSET Nat]
  BY DEF IInv, TypeOK
<1>2. CASE Unmoved
  BY <1>2 DEF Unmoved, Partition
<1>3. CASE Arrives
  <2>1. /\ 1..received' = (1..received) \cup {received'}
        /\ received' \notin 1..received
    BY <1>1, <1>3 DEF Arrives
  <2> QED BY <1>3, <2>1 DEF Arrives, Partition
<1>4. ASSUME NEW f \in Nat, NEW c \in Causes, Lost(f, c)
      PROVE  Partition'
  <2>1. /\ lost'[c] = lost[c] \cup {f}
        /\ \A d \in Causes : d # c => lost'[d] = lost[d]
    BY <1>1, <1>4 DEF Lost
  <2> QED BY <1>4, <2>1 DEF Lost, Partition
<1>5. ASSUME NEW f \in Nat, Sent(f)
      PROVE  Partition'
  BY <1>5 DEF Sent, Partition
<1> QED BY <1>2, <1>3, <1>4, <1>5, Flow

(* The counter follows the sending.                                        *)
LEMMA PlayedStep ==
  IInv /\ Partition /\ PlayedExact /\ [Next]_vars => PlayedExact'
<1> SUFFICES ASSUME IInv, Partition, PlayedExact, [Next]_vars PROVE PlayedExact'
  OBVIOUS
<1>1. /\ played \in Nat /\ sent \in Seq(Nat) /\ Len(sent) \in Nat
      /\ lost \in [Causes -> SUBSET Nat] /\ "failed" \in Causes
  BY DEF IInv, TypeOK, Causes
<1>2. IsFiniteSet(lost["failed"]) /\ Cardinality(lost["failed"]) \in Nat
  <2>1. lost["failed"] \in SUBSET (1..received) /\ received \in Nat
    BY <1>1 DEF Partition, IInv, TypeOK
  <2>2. IsFiniteSet(1..received)
    BY <2>1, FS_Interval
  <2>3. IsFiniteSet(lost["failed"])
    BY <2>1, <2>2, FS_Subset
  <2> QED BY <2>3, FS_CardinalityType
<1>3. CASE CountFrame
  BY <1>1, <1>2, <1>3 DEF CountFrame, PlayedExact
<1>4. CASE SendFrame
  <2>1. /\ outPc = "sending" /\ outPc' = "waiting" /\ played' = played
        /\ hand \in Nat /\ hand # NoFrame
        /\ \/ sent' = Append(sent, hand) /\ UNCHANGED lost
           \/ lost' = [lost EXCEPT !["failed"] = @ \cup {hand}] /\ UNCHANGED sent
    BY <1>4, PlaybackAssumption DEF SendFrame, IInv, TypeOK
  <2>2. CASE sent' = Append(sent, hand) /\ UNCHANGED lost
    <3>1. Len(sent') = Len(sent) + 1
      BY <1>1, <2>1, <2>2, AppendFacts
    <3> QED BY <1>1, <1>2, <2>1, <2>2, <3>1 DEF PlayedExact
  <2>3. CASE lost' = [lost EXCEPT !["failed"] = @ \cup {hand}] /\ UNCHANGED sent
    <3>1. hand \in Pending
      BY <2>1 DEF Pending
    <3>2. /\ hand \notin lost["failed"]
          /\ lost'["failed"] = lost["failed"] \cup {hand}
      BY <1>1, <2>3, <3>1 DEF Partition
    <3>3. Cardinality(lost'["failed"]) = Cardinality(lost["failed"]) + 1
      BY <1>2, <3>2, FS_AddElement
    <3> QED BY <1>1, <1>2, <2>1, <2>3, <3>3 DEF PlayedExact
  <2> QED BY <2>1, <2>2, <2>3
<1>5. CASE /\ UNCHANGED <<played, sent>>
           /\ lost'["failed"] = lost["failed"]
           /\ outPc' = "sending" <=> outPc = "sending"
  BY <1>5 DEF PlayedExact
<1>6. CASE SkipFrame \/ DropFrame \/ ClearFrame
  <2>1. lost'["failed"] = lost["failed"] /\ UNCHANGED <<played, sent>>
    BY <1>1, <1>6 DEF SkipFrame, DropFrame, ClearFrame, outVars, Causes
  <2>2. outPc' = "sending" <=> outPc = "sending"
    BY <1>6 DEF SkipFrame, DropFrame, ClearFrame, outVars
  <2> QED BY <1>5, <2>1, <2>2
<1> QED
  BY <1>3, <1>4, <1>5, <1>6
     DEF Next, OutputStep, vars, queueVars, outVars, controlVars, OnOpusData,
         EnqueueFrame, StartOutput, ConnectFail, OutputExit, Dequeue,
         ResponseCreated, ResponseDone, SpeechStart, ClearEnd, RemoveDeactivate,
         RemoveCancel

(* Initially there is no frame.                                            *)
LEMMA AccountInit == Init => Partition /\ PlayedExact
<1> SUFFICES ASSUME Init PROVE Partition /\ PlayedExact
  OBVIOUS
<1>1. /\ FramesIn(opusBuffer) = {} /\ FramesIn(sent) = {} /\ Len(sent) = 0
      /\ \A c \in Causes : lost[c] = {}
      /\ offered = NoFrame /\ hand = NoFrame /\ received = 0
      /\ played = 0 /\ outPc = "none" /\ "failed" \in Causes
  BY DEF Init, FramesIn, Causes
<1>2. Partition
  BY <1>1 DEF Partition, Pending
<1>3. Cardinality(lost["failed"]) = 0
  BY <1>1, FS_EmptySet
<1> QED BY <1>1, <1>2, <1>3 DEF PlayedExact

(* Partition and counter are what Accounted says.                          *)
LEMMA AccountedParts == IInv /\ Partition /\ PlayedExact => Accounted
<1> SUFFICES ASSUME IInv, Partition, PlayedExact PROVE Accounted
  OBVIOUS
<1> DEFINE places == <<Pending, FramesIn(sent), lost["full"], lost["skipped"],
                       lost["cleared"], lost["failed"]>>
<1>1. /\ Len(places) = 6
      /\ places[1] = Pending /\ places[2] = FramesIn(sent)
      /\ places[3] = lost["full"] /\ places[4] = lost["skipped"]
      /\ places[5] = lost["cleared"] /\ places[6] = lost["failed"]
  OBVIOUS
<1>2. 1..6 = {1, 2, 3, 4, 5, 6}
  OBVIOUS
<1>3. \A c : c \in Causes <=> c \in {"full", "skipped", "cleared", "failed"}
  BY DEF Causes
<1> HIDE DEF places
<1>4. UNION FramesIn(places) = 1..received
  <2>1. FramesIn(places) = {Pending, FramesIn(sent), lost["full"],
                            lost["skipped"], lost["cleared"], lost["failed"]}
    BY <1>1, <1>2 DEF FramesIn
  <2>2. \A f \in 1..received : \/ f \in Pending \/ f \in FramesIn(sent)
                               \/ f \in lost["full"] \/ f \in lost["skipped"]
                               \/ f \in lost["cleared"] \/ f \in lost["failed"]
    BY <1>3 DEF Partition
  <2>3. \A q \in FramesIn(places) : q \subseteq 1..received
    BY <1>3, <2>1 DEF Partition
  <2> QED BY <2>1, <2>2, <2>3
<1>5. \A a, b \in 1..6 : a # b => places[a] \cap places[b] = {}
  <2>1. \A c, d \in {"full", "skipped", "cleared", "failed"} :
          c # d => lost[c] \cap lost[d] = {}
    BY <1>3 DEF Partition
  <2>2. \A c \in {"full", "skipped", "cleared", "failed"} :
          lost[c] \cap Pending = {} /\ lost[c] \cap FramesIn(sent) = {}
    BY <1>3 DEF Partition
  <2>3. Pending \cap FramesIn(sent) = {}
    BY DEF Partition
  <2>4. /\ lost["full"] \cap lost["skipped"] = {}
        /\ lost["full"] \cap lost["cleared"] = {}
        /\ lost["full"] \cap lost["failed"] = {}
        /\ lost["skipped"] \cap lost["cleared"] = {}
        /\ lost["skipped"] \cap lost["failed"] = {}
        /\ lost["cleared"] \cap lost["failed"] = {}
    BY <2>1
  <2> QED BY <1>1, <1>2, <2>2, <2>3, <2>4
<1> QED BY <1>1, <1>4, <1>5 DEF Accounted, PlayedExact, Pending, places

(* Each frame that arrived is in one place, and playedSampleCount covers   *)
(* those that were sent and those whose sending failed.                    *)
THEOREM FramesAreAccounted == Spec => []Accounted
BY InitIInv, NextIInv, AccountInit, PartitionStep, PlayedStep, AccountedParts, PTL
   DEF Spec
===============================================================================
