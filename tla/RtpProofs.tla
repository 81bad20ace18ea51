------------------------------- MODULE RtpProofs -------------------------------
(***************************************************************************)
(* What holds of Rtp.tla for any number of goroutines, addresses, attempts *)
(* and packets.                                                            *)
(***************************************************************************)
EXTENDS Rtp, FiniteSetTheorems, TLAPS

(* Media packets whose sequence number is drawn and whose time stamp is    *)
(* not.                                                                    *)
Numbered == {s \in Media : pc[s] = "numbered"}

(* The two counters differ by the packets between the two additions.       *)
LagInv ==
  /\ drawn = timestamp + Cardinality(Numbered)
  /\ \A s \in Media :
       /\ pc[s] = "numbered" => place[s] <= drawn
       /\ pc[s] = "stamped" => place[s] < ts[s] + Cardinality(Media)
  /\ TimestampLag

Holding == {"ready", "numbered", "stamped"}

(* Who has sent to an old address has read the present one since; the      *)
(* reader, who alone changes it, never holds an old one.                   *)
StaleInv ==
  /\ StaleAddressOnce
  /\ \A o \in Outputs : stale[o] = 1 /\ pc[o] \in Holding => dest[o] = remoteAddr
  /\ pc[Reader] \in Holding => dest[Reader] = remoteAddr

(* Who is past its look at closed has sent nothing since closed was set.   *)
LateInv ==
  /\ LastWords
  /\ \A s \in Senders :
       /\ ~closed => late[s] = 0
       /\ pc[s] \in Holding => late[s] = 0
       /\ pc[s] = "looking" /\ s \in Media => late[s] = 0

(* A goroutine with a packet in its hand whose number is drawn.            *)
Carrying(s) == pc[s] \in {"numbered", "stamped"}

(* What was sent carries different numbers, and time stamps in the order   *)
(* of the numbers as far as one goroutine is concerned.                    *)
WireOrdered ==
  \A p, q \in wire : p # q =>
    /\ p.seq # q.seq
    /\ p.from = q.from /\ p.seq < q.seq => p.ts < q.ts

(* A number in somebody's hand is on no packet and in no other hand; it is *)
(* above all that its holder sent.                                         *)
CarriedFresh ==
  \A s \in Senders : Carrying(s) =>
    /\ seq[s] <= seqNum
    /\ \A p \in wire : p.seq # seq[s] /\ (p.from = s => p.seq < seq[s])
    /\ \A z \in Senders \ {s} : Carrying(z) => seq[z] # seq[s]

(* So is a time stamp.  Media packets take theirs from the common counter, *)
(* a punching goroutine from its own.                                      *)
StampFresh ==
  /\ \A p \in wire : p.from \in Media => p.ts <= timestamp
  /\ \A s \in Media : pc[s] = "stamped" =>
       ts[s] <= timestamp /\ \A p \in wire : p.from = s => p.ts < ts[s]
  /\ \A s \in Punchers :
       /\ pc[s] = "stamped" => ts[s] = tries[s]
       /\ \A p \in wire : p.from = s => p.ts < tries[s]

SeqInv ==
  /\ \A p \in wire : p.seq <= seqNum
  /\ WireOrdered
  /\ CarriedFresh
  /\ StampFresh

IInv == RtpTypeOK /\ LagInv /\ StaleInv /\ LateInv /\ SeqInv

(* The kinds of goroutines are disjoint.                                   *)
LEMMA Kinds ==
  /\ Outputs \subseteq Media /\ Reader \in Media
  /\ Media \subseteq Senders /\ Punchers \subseteq Senders
  /\ \A p \in Punchers : p \notin Media
  /\ \A o \in Outputs : o # Reader
  /\ \A s \in Senders : s \in Media \/ s \in Punchers
BY RtpAssumption DEF Media, Senders

(* The media goroutines are finitely many, and so are those between the    *)
(* two additions.                                                          *)
LEMMA Finite ==
  /\ IsFiniteSet(Media) /\ Cardinality(Media) \in Nat
  /\ IsFiniteSet(Numbered) /\ Cardinality(Numbered) \in Nat
  /\ Cardinality(Numbered) <= Cardinality(Media)
<1>1. IsFiniteSet(Media)
  BY RtpAssumption, FS_AddElement DEF Media
<1>2. Numbered \subseteq Media
  BY DEF Numbered
<1> QED BY <1>1, <1>2, FS_Subset, FS_CardinalityType

(* The fields of a packet that was sent.                                   *)
LEMMA PacketTypes ==
  ASSUME RtpTypeOK, NEW p \in wire
  PROVE  p.from \in Senders /\ p.seq \in Nat /\ p.ts \in Nat
BY DEF RtpTypeOK, Packet

-------------------------------------------------------------------------------
(* Initially nothing was sent.                                             *)
LEMMA Starts == RtpInit => IInv
<1> SUFFICES ASSUME RtpInit PROVE IInv
  OBVIOUS
<1> USE DEF RtpInit
<1>1. RtpTypeOK
  BY DEF RtpTypeOK
<1>2. LagInv
  <2>1. Numbered = {}
    BY Kinds DEF Numbered
  <2>2. Cardinality(Numbered) = 0
    BY <2>1, FS_EmptySet
  <2> QED BY <2>2, Kinds DEF LagInv, TimestampLag
<1>3. StaleInv
  BY Kinds DEF StaleInv, StaleAddressOnce, Holding
<1>4. LateInv
  BY Kinds DEF LateInv, LastWords, Holding
<1>5. SeqInv
  BY Kinds DEF SeqInv, WireOrdered, CarriedFresh, StampFresh, Carrying
<1> QED BY <1>1, <1>2, <1>3, <1>4, <1>5 DEF IInv

(* Steps of one goroutine from one place to another that draw nothing,     *)
(* send nothing and do not enter or leave the place between the additions. *)
Moves(s, from, to) ==
  /\ Go(s, from, to)
  /\ from # "numbered" /\ to \notin {"numbered", "stamped"}
  /\ \A p \in Punchers : tries'[p] = tries[p]
  /\ UNCHANGED <<flagVars, remoteAddr, drawVars, histVars>>

(* Such a step leaves the lag as it is.                                    *)
LEMMA MoveKeepsLag ==
  ASSUME IInv, NEW s \in Senders, NEW from, NEW to, Moves(s, from, to)
  PROVE  LagInv'
<1>1. Numbered' = Numbered
  BY Kinds DEF Moves, Go, Numbered, IInv, RtpTypeOK
<1> QED BY <1>1 DEF IInv, LagInv, TimestampLag, Moves, Go, RtpTypeOK, drawVars,
                    histVars

(* And the numbers drawn and sent.                                         *)
LEMMA MoveKeepsNumbers ==
  ASSUME IInv, NEW s \in Senders, NEW from, NEW to, Moves(s, from, to)
  PROVE  SeqInv'
<1>1. /\ wire' = wire /\ seq' = seq /\ ts' = ts
      /\ seqNum' = seqNum /\ timestamp' = timestamp
      /\ \A p \in Punchers : tries'[p] = tries[p]
  BY DEF Moves, drawVars, histVars
<1>2. \A z \in Senders : /\ Carrying(z)' => Carrying(z)
                         /\ (pc[z] = "stamped")' => pc[z] = "stamped"
  BY DEF Moves, Go, Carrying, IInv, RtpTypeOK
<1>3. (\A p \in wire : p.seq <= seqNum)' /\ WireOrdered'
  BY <1>1 DEF IInv, SeqInv, WireOrdered
<1>4. CarriedFresh'
  BY <1>1, <1>2 DEF IInv, SeqInv, CarriedFresh
<1>5. StampFresh'
  BY <1>1, <1>2, Kinds DEF IInv, SeqInv, StampFresh
<1> QED BY <1>3, <1>4, <1>5 DEF SeqInv

(* And if whoever takes up a packet reads the address first, the rest.     *)
LEMMA MoveKeeps ==
  ASSUME IInv, NEW s \in Senders, NEW from, NEW to, Moves(s, from, to),
         RtpTypeOK',
         \A z \in Senders \ {s} : dest'[z] = dest[z],
         to \in Holding => \/ s \in Media /\ dest'[s] = remoteAddr
                           \/ s \in Punchers /\ dest' = dest,
         to \in Holding \/ (to = "looking" /\ s \in Media)
           => ~closed \/ (s \in Media /\ from = "looking")
  PROVE  IInv'
<1>1. LagInv'
  BY MoveKeepsLag
<1>2. /\ stale' = stale /\ late' = late /\ remoteAddr' = remoteAddr
      /\ closed' = closed
      /\ pc'[s] = to /\ pc[s] = from
      /\ \A z \in Senders \ {s} : pc'[z] = pc[z]
  BY DEF Moves, Go, histVars, flagVars, IInv, RtpTypeOK
<1>3. StaleInv'
  BY <1>2, Kinds DEF IInv, StaleInv, StaleAddressOnce, Holding
<1>4. LateInv'
  BY <1>2, Kinds DEF IInv, LateInv, LastWords, Holding
<1>5. SeqInv'
  BY MoveKeepsNumbers
<1> QED BY <1>1, <1>3, <1>4, <1>5 DEF IInv

-------------------------------------------------------------------------------
(* SendOpusFrame up to the additions.                                      *)
LEMMA FrameKeeps ==
  ASSUME IInv, NEW o \in Outputs, FrameStep(o)
  PROVE  IInv'
<1>0. o \in Senders /\ o \in Media
  BY Kinds
<1>1. CASE FrameBegin(o)
  <2>1. Moves(o, "idle", "looking") /\ RtpTypeOK' /\ dest' = dest /\ ~closed
    BY <1>0, <1>1
       DEF FrameBegin, Moves, Go, IInv, RtpTypeOK, flagVars, drawVars, histVars
  <2> QED BY <1>0, <2>1, MoveKeeps DEF Holding
<1>2. CASE Capture(o)
  <2>1. Moves(o, "looking", "ready") /\ RtpTypeOK' /\ dest'[o] = remoteAddr
        /\ \A z \in Senders \ {o} : dest'[z] = dest[z]
    BY <1>0, <1>2
       DEF Capture, Moves, Go, IInv, RtpTypeOK, flagVars, drawVars, histVars
  <2> QED BY <1>0, <2>1, MoveKeeps DEF Holding
<1>3. CASE NotReady(o)
  <2>1. Moves(o, "looking", "looking") /\ RtpTypeOK' /\ dest' = dest
    BY <1>0, <1>3, Kinds
       DEF NotReady, Moves, Go, IInv, RtpTypeOK, flagVars, drawVars, histVars
  <2> QED BY <1>0, <2>1, MoveKeeps DEF Holding
<1>4. CASE GiveUp(o)
  <2>1. Moves(o, "looking", "idle") /\ RtpTypeOK' /\ dest' = dest
    BY <1>0, <1>4, Kinds
       DEF GiveUp, Moves, Go, IInv, RtpTypeOK, flagVars, drawVars, histVars
  <2> QED BY <1>0, <2>1, MoveKeeps DEF Holding
<1> QED BY <1>1, <1>2, <1>3, <1>4 DEF FrameStep

(* processRTP up to the additions.                                         *)
LEMMA ReaderKeeps ==
  ASSUME IInv, ReaderStep
  PROVE  IInv'
<1>0. Reader \in Senders /\ Reader \in Media
  BY Kinds
<1>1. CASE ReadBegin
  <2>1. Moves(Reader, "idle", "looking") /\ RtpTypeOK' /\ dest' = dest /\ ~closed
    BY <1>0, <1>1
       DEF ReadBegin, Moves, Go, IInv, RtpTypeOK, flagVars, drawVars, histVars
  <2> QED BY <1>0, <2>1, MoveKeeps DEF Holding
<1>2. ASSUME NEW from \in {"idle", "looking", "ready"},
             NEW to \in {"idle", "exited"}, Go(Reader, from, to),
             UNCHANGED <<flagVars, remoteAddr, drawVars, tries, dest, histVars>>
      PROVE  IInv'
  <2>1. Moves(Reader, from, to) /\ RtpTypeOK' /\ dest' = dest
    BY <1>0, <1>2 DEF Moves, Go, IInv, RtpTypeOK, flagVars, drawVars, histVars
  <2> QED BY <1>0, <2>1, MoveKeeps DEF Holding
<1>3. CASE ReaderExit \/ ReadNothing \/ DummyRefused
  BY <1>2, <1>3 DEF ReaderExit, ReadNothing, DummyRefused
<1>4. CASE ReadTimeout
  <2>1. Moves(Reader, "looking", "ready") /\ RtpTypeOK'
        /\ dest'[Reader] = remoteAddr
        /\ \A z \in Senders \ {Reader} : dest'[z] = dest[z]
    BY <1>0, <1>4
       DEF ReadTimeout, Moves, Go, IInv, RtpTypeOK, flagVars, drawVars, histVars
  <2> QED BY <1>0, <2>1, MoveKeeps DEF Holding
<1>5. ASSUME NEW a \in Addrs, ReadPacket(a)
      PROVE  IInv'
  <2>1. /\ pc[Reader] = "looking" /\ pc' = [pc EXCEPT ![Reader] = "idle"]
        /\ remoteAddr' = a
        /\ stale' = IF a = remoteAddr THEN stale ELSE [s \in Senders |-> 0]
        /\ UNCHANGED <<flagVars, drawVars, tries, dest, wire, late>>
    BY <1>5 DEF ReadPacket, Go
  <2>2. RtpTypeOK'
    BY <1>0, <2>1 DEF IInv, RtpTypeOK, flagVars, drawVars
  <2>3. LagInv'
    <3>1. Numbered' = Numbered
      BY <1>0, <2>1 DEF Numbered, IInv, RtpTypeOK
    <3> QED BY <1>0, <2>1, <3>1
            DEF IInv, LagInv, TimestampLag, RtpTypeOK, drawVars
  <2>4. StaleInv'
    BY <1>0, <2>1, Kinds
       DEF IInv, RtpTypeOK, StaleInv, StaleAddressOnce, Holding
  <2>5. LateInv'
    BY <1>0, <2>1 DEF IInv, RtpTypeOK, LateInv, LastWords, Holding, flagVars
  <2>6. SeqInv'
    <3>1. \A z \in Senders : /\ Carrying(z)' => Carrying(z)
                             /\ (pc[z] = "stamped")' => pc[z] = "stamped"
      BY <1>0, <2>1 DEF Carrying, IInv, RtpTypeOK
    <3> QED BY <2>1, <3>1, Kinds
            DEF IInv, SeqInv, WireOrdered, CarriedFresh, StampFresh, drawVars
  <2> QED BY <2>2, <2>3, <2>4, <2>5, <2>6 DEF IInv
<1> QED BY <1>1, <1>3, <1>4, <1>5 DEF ReaderStep

(* sendDummyRTPPackets.                                                    *)
LEMMA PunchKeeps ==
  ASSUME IInv, NEW p \in Punchers, PunchStep(p)
  PROVE  IInv'
<1>0. p \in Senders /\ p \notin Media
  BY Kinds
<1>1. CASE PunchStart(p)
  <2>1. Moves(p, "idle", "looking") /\ RtpTypeOK'
        /\ \A z \in Senders \ {p} : dest'[z] = dest[z]
    BY <1>0, <1>1
       DEF PunchStart, Moves, Go, IInv, RtpTypeOK, flagVars, drawVars, histVars
  <2> QED BY <1>0, <2>1, MoveKeeps DEF Holding
<1>2. CASE PunchNext(p)
  <2>1. Moves(p, "looking", "ready") /\ RtpTypeOK' /\ dest' = dest /\ ~closed
    BY <1>0, <1>2
       DEF PunchNext, Moves, Go, IInv, RtpTypeOK, flagVars, drawVars, histVars
  <2> QED BY <1>0, <2>1, MoveKeeps DEF Holding
<1>3. CASE PunchExit(p)
  <2>1. Moves(p, "looking", "exited") /\ RtpTypeOK' /\ dest' = dest
    BY <1>0, <1>3
       DEF PunchExit, Moves, Go, IInv, RtpTypeOK, flagVars, drawVars, histVars
  <2> QED BY <1>0, <2>1, MoveKeeps DEF Holding
<1>4. CASE DrawDummy(p)
  <2>1. /\ pc[p] = "ready" /\ pc' = [pc EXCEPT ![p] = "stamped"]
        /\ seqNum' = seqNum + 1
        /\ seq' = [seq EXCEPT ![p] = seqNum']
        /\ ts' = [ts EXCEPT ![p] = tries[p]]
        /\ UNCHANGED <<flagVars, remoteAddr, timestamp, drawn, place, tries, dest,
                       histVars>>
    BY <1>4 DEF DrawDummy, Go
  <2>2. RtpTypeOK'
    BY <1>0, <2>1 DEF IInv, RtpTypeOK, flagVars, histVars
  <2>3. LagInv'
    <3>1. Numbered' = Numbered
      BY <1>0, <2>1 DEF Numbered, IInv, RtpTypeOK
    <3> QED BY <1>0, <2>1, <3>1, Kinds
            DEF IInv, LagInv, TimestampLag, RtpTypeOK, histVars
  <2>4. StaleInv'
    BY <1>0, <2>1, Kinds
       DEF IInv, RtpTypeOK, StaleInv, StaleAddressOnce, Holding, histVars
  <2>5. LateInv'
    BY <1>0, <2>1
       DEF IInv, RtpTypeOK, LateInv, LastWords, Holding, flagVars, histVars
  <2>6. SeqInv'
    <3>1. /\ seq'[p] = seqNum + 1 /\ ts'[p] = tries[p] /\ seqNum \in Nat
          /\ \A z \in Senders \ {p} :
               pc'[z] = pc[z] /\ seq'[z] = seq[z] /\ ts'[z] = ts[z]
      BY <1>0, <2>1 DEF IInv, RtpTypeOK
    <3>2. (\A q \in wire : q.seq <= seqNum)' /\ WireOrdered'
      BY <2>1, <3>1, PacketTypes DEF IInv, SeqInv, WireOrdered, histVars
    <3>3. CarriedFresh'
      BY <2>1, <3>1, PacketTypes
         DEF IInv, SeqInv, CarriedFresh, Carrying, RtpTypeOK, histVars
    <3>4. StampFresh'
      BY <1>0, <2>1, <3>1, Kinds DEF IInv, SeqInv, StampFresh, histVars
    <3> QED BY <3>2, <3>3, <3>4 DEF SeqInv
  <2> QED BY <2>2, <2>3, <2>4, <2>5, <2>6 DEF IInv
<1> QED BY <1>1, <1>2, <1>3, <1>4 DEF PunchStep

-------------------------------------------------------------------------------
(* The first addition puts one more packet between the two.                *)
LEMMA DrawSeqKeeps ==
  ASSUME IInv, NEW s \in Media, DrawSeq(s)
  PROVE  IInv'
<1>0. s \in Senders
  BY Kinds
<1>1. /\ pc[s] = "ready" /\ pc' = [pc EXCEPT ![s] = "numbered"]
      /\ seqNum' = seqNum + 1
      /\ seq' = [seq EXCEPT ![s] = seqNum']
      /\ drawn' = drawn + 1
      /\ place' = [place EXCEPT ![s] = drawn']
      /\ UNCHANGED <<flagVars, remoteAddr, timestamp, ts, tries, dest, histVars>>
  BY DEF DrawSeq, Go
<1>2. RtpTypeOK'
  BY <1>0, <1>1 DEF IInv, RtpTypeOK, flagVars, histVars
<1>3. LagInv'
  <2>1. Numbered' = Numbered \cup {s} /\ s \notin Numbered
    BY <1>0, <1>1, Kinds DEF Numbered, IInv, RtpTypeOK
  <2>2. Cardinality(Numbered') = Cardinality(Numbered) + 1
    BY <2>1, Finite, FS_AddElement
  <2>3. drawn' = timestamp' + Cardinality(Numbered')
    BY <1>1, <2>2, Finite DEF IInv, LagInv, RtpTypeOK
  <2>4. ASSUME NEW z \in Media
        PROVE  /\ pc'[z] = "numbered" => place'[z] <= drawn'
               /\ pc'[z] = "stamped" => place'[z] < ts'[z] + Cardinality(Media)
    BY <1>0, <1>1, <2>4, Kinds DEF IInv, LagInv, RtpTypeOK
  <2>5. TimestampLag'
    BY <1>1 DEF IInv, LagInv, TimestampLag, histVars
  <2> QED BY <2>3, <2>4, <2>5 DEF LagInv
<1>4. StaleInv'
  BY <1>0, <1>1, Kinds
     DEF IInv, RtpTypeOK, StaleInv, StaleAddressOnce, Holding, histVars
<1>5. LateInv'
  BY <1>0, <1>1
     DEF IInv, RtpTypeOK, LateInv, LastWords, Holding, flagVars, histVars
<1>6. SeqInv'
  <2>1. /\ seq'[s] = seqNum + 1 /\ seqNum \in Nat /\ pc'[s] = "numbered"
        /\ \A z \in Senders \ {s} : pc'[z] = pc[z] /\ seq'[z] = seq[z]
    BY <1>0, <1>1 DEF IInv, RtpTypeOK
  <2>2. (\A q \in wire : q.seq <= seqNum)' /\ WireOrdered'
    BY <1>1, <2>1, PacketTypes DEF IInv, SeqInv, WireOrdered, histVars
  <2>3. CarriedFresh'
    BY <1>1, <2>1, PacketTypes
       DEF IInv, SeqInv, CarriedFresh, Carrying, RtpTypeOK, histVars
  <2>4. StampFresh'
    BY <1>0, <1>1, <2>1, Kinds DEF IInv, SeqInv, StampFresh, histVars
  <2> QED BY <2>2, <2>3, <2>4 DEF SeqInv
<1> QED BY <1>2, <1>3, <1>4, <1>5, <1>6 DEF IInv

(* The second takes it out again: its place is at most the new time stamp  *)
(* plus the packets that are still between the two.                        *)
LEMMA DrawTsKeeps ==
  ASSUME IInv, NEW s \in Media, DrawTs(s)
  PROVE  IInv'
<1>0. s \in Senders
  BY Kinds
<1>1. /\ pc[s] = "numbered" /\ pc' = [pc EXCEPT ![s] = "stamped"]
      /\ timestamp' = timestamp + 1
      /\ ts' = [ts EXCEPT ![s] = timestamp']
      /\ UNCHANGED <<flagVars, remoteAddr, seqNum, seq, drawn, place, tries, dest,
                     histVars>>
  BY DEF DrawTs, Go
<1>2. RtpTypeOK'
  BY <1>0, <1>1 DEF IInv, RtpTypeOK, flagVars, histVars
<1>3. LagInv'
  <2>1. Numbered' = Numbered \ {s} /\ s \in Numbered
    BY <1>0, <1>1, Kinds DEF Numbered, IInv, RtpTypeOK
  <2>2. Cardinality(Numbered') = Cardinality(Numbered) - 1
    BY <2>1, Finite, FS_RemoveElement
  <2>3. drawn' = timestamp' + Cardinality(Numbered')
    BY <1>1, <2>2, Finite DEF IInv, LagInv, RtpTypeOK
  <2>4. place[s] <= timestamp + Cardinality(Media)
    BY <1>1, Finite, <1>0 DEF IInv, LagInv, RtpTypeOK
  <2>5. ASSUME NEW z \in Media
        PROVE  /\ pc'[z] = "numbered" => place'[z] <= drawn'
               /\ pc'[z] = "stamped" => place'[z] < ts'[z] + Cardinality(Media)
    BY <1>0, <1>1, <2>4, <2>5, Kinds, Finite DEF IInv, LagInv, RtpTypeOK
  <2>6. TimestampLag'
    BY <1>1 DEF IInv, LagInv, TimestampLag, histVars
  <2> QED BY <2>3, <2>5, <2>6 DEF LagInv
<1>4. StaleInv'
  BY <1>0, <1>1, Kinds
     DEF IInv, RtpTypeOK, StaleInv, StaleAddressOnce, Holding, histVars
<1>5. LateInv'
  BY <1>0, <1>1
     DEF IInv, RtpTypeOK, LateInv, LastWords, Holding, flagVars, histVars
<1>6. SeqInv'
  <2>1. /\ ts'[s] = timestamp + 1 /\ timestamp \in Nat
        /\ \A z \in Senders \ {s} : pc'[z] = pc[z] /\ ts'[z] = ts[z]
        /\ \A z \in Senders : Carrying(z)' <=> Carrying(z)
    BY <1>0, <1>1 DEF IInv, RtpTypeOK, Carrying
  <2>2. (\A q \in wire : q.seq <= seqNum)' /\ WireOrdered'
    BY <1>1 DEF IInv, SeqInv, WireOrdered, histVars
  <2>3. CarriedFresh'
    BY <1>1, <2>1 DEF IInv, SeqInv, CarriedFresh, histVars
  <2>4. StampFresh'
    BY <1>0, <1>1, <2>1, Kinds, PacketTypes
       DEF IInv, SeqInv, StampFresh, RtpTypeOK, histVars
  <2> QED BY <2>2, <2>3, <2>4 DEF SeqInv
<1> QED BY <1>2, <1>3, <1>4, <1>5, <1>6 DEF IInv

(* The write, whether it succeeds or fails.                                *)
LEMMA WriteKeeps ==
  ASSUME IInv, NEW s \in Senders, WriteSucceeds(s) \/ WriteFails(s)
  PROVE  IInv'
<1>1. PICK next \in {"looking", "idle"} :
        /\ pc[s] = "stamped" /\ pc' = [pc EXCEPT ![s] = next]
        /\ s = Reader => next = "idle"
        /\ WriteSucceeds(s) /\ s \in Media => next = "idle"
  BY Kinds DEF WriteSucceeds, WriteFails, AfterWrite, Go
<1>2. /\ tries' \in [Senders -> Nat]
      /\ \A z \in Senders \ {s} : tries'[z] = tries[z]
      /\ s \in Punchers => tries'[s] = tries[s] + 1
      /\ seq' = [seq EXCEPT ![s] = 0]
      /\ ts' = [ts EXCEPT ![s] = 0]
      /\ place' = [place EXCEPT ![s] = 0]
      /\ UNCHANGED <<flagVars, remoteAddr, seqNum, timestamp, drawn, dest>>
  BY DEF WriteSucceeds, WriteFails, AfterWrite, IInv, RtpTypeOK
<1>3. \/ /\ wire' = wire \cup {InHand(s)}
         /\ stale' = [stale EXCEPT ![s] =
                        IF dest[s] = remoteAddr THEN stale[s] ELSE stale[s] + 1]
         /\ late' = [late EXCEPT ![s] = IF closed THEN late[s] + 1 ELSE late[s]]
         /\ s \in Media => next = "idle"
      \/ UNCHANGED <<wire, stale, late>>
  BY <1>1 DEF WriteSucceeds, WriteFails, histVars
<1>4. InHand(s) \in Packet
  BY DEF InHand, Packet, IInv, RtpTypeOK
<1>5. RtpTypeOK'
  BY <1>1, <1>2, <1>3, <1>4 DEF IInv, RtpTypeOK, flagVars
<1>6. LagInv'
  <2>1. Numbered' = Numbered
    BY <1>1 DEF Numbered, IInv, RtpTypeOK
  <2>2. s \in Media => InHand(s).place < InHand(s).ts + Cardinality(Media)
    BY <1>1 DEF InHand, IInv, LagInv
  <2>3. TimestampLag'
    BY <1>3, <2>2 DEF IInv, LagInv, TimestampLag, InHand
  <2>4. ASSUME NEW z \in Media
        PROVE  /\ pc'[z] = "numbered" => place'[z] <= drawn'
               /\ pc'[z] = "stamped" => place'[z] < ts'[z] + Cardinality(Media)
    BY <1>1, <1>2, <2>4, Kinds DEF IInv, LagInv, RtpTypeOK
  <2> QED BY <1>2, <2>1, <2>3, <2>4 DEF IInv, LagInv
<1>7. StaleInv'
  BY <1>1, <1>2, <1>3, Kinds
     DEF IInv, RtpTypeOK, StaleInv, StaleAddressOnce, Holding
<1>8. LateInv'
  BY <1>1, <1>2, <1>3, Kinds
     DEF IInv, RtpTypeOK, LateInv, LastWords, Holding, flagVars
<1>9. SeqInv'
  <2>1. /\ pc[s] = "stamped" /\ pc'[s] \in {"looking", "idle"}
        /\ \A z \in Senders \ {s} : /\ pc'[z] = pc[z] /\ seq'[z] = seq[z]
                                  /\ ts'[z] = ts[z] /\ tries'[z] = tries[z]
    BY <1>1, <1>2 DEF IInv, RtpTypeOK
  <2>2. \A p \in wire' : p \in wire \/ p = InHand(s)
    BY <1>3
  <2>3. /\ InHand(s).seq = seq[s] /\ InHand(s).ts = ts[s] /\ InHand(s).from = s
        /\ seq[s] \in Nat /\ ts[s] \in Nat /\ tries[s] \in Nat
    BY DEF InHand, IInv, RtpTypeOK
  <2>4. /\ seq[s] <= seqNum
        /\ \A p \in wire : p.seq # seq[s] /\ (p.from = s => p.seq < seq[s])
        /\ \A z \in Senders \ {s} : Carrying(z) => seq[z] # seq[s]
    BY <2>1 DEF IInv, SeqInv, CarriedFresh, Carrying
  <2>5. /\ \A p \in wire : p.from = s => p.ts < ts[s]
        /\ s \in Media => ts[s] <= timestamp
        /\ s \in Punchers => ts[s] = tries[s]
    BY <2>1, Kinds DEF IInv, SeqInv, StampFresh
  <2>6. (\A p \in wire : p.seq <= seqNum)'
    BY <1>2, <2>2, <2>3, <2>4 DEF IInv, SeqInv
  <2>7. WireOrdered'
    BY <2>2, <2>3, <2>4, <2>5, PacketTypes DEF IInv, SeqInv, WireOrdered
  <2>8. CarriedFresh'
    <3> SUFFICES ASSUME NEW z \in Senders, Carrying(z)'
                 PROVE  /\ seq'[z] <= seqNum'
                        /\ \A p \in wire' :
                             p.seq # seq'[z] /\ (p.from = z => p.seq < seq'[z])
                        /\ \A y \in Senders \ {z} :
                             Carrying(y)' => seq'[y] # seq'[z]
      BY DEF CarriedFresh
    <3>1. z # s /\ Carrying(z) /\ seq'[z] = seq[z] /\ seqNum' = seqNum
      BY <1>2, <2>1 DEF Carrying
    <3>2. /\ seq[z] <= seqNum /\ seq[z] # seq[s]
          /\ \A p \in wire : p.seq # seq[z] /\ (p.from = z => p.seq < seq[z])
          /\ \A y \in Senders \ {z} : Carrying(y) => seq[y] # seq[z]
      BY <2>1, <3>1 DEF IInv, SeqInv, CarriedFresh, Carrying
    <3>3. \A y \in Senders \ {z} : Carrying(y)' => Carrying(y) /\ seq'[y] = seq[y]
      BY <2>1 DEF Carrying
    <3> QED BY <2>2, <2>3, <3>1, <3>2, <3>3
  <2>9. StampFresh'
    <3>1. timestamp' = timestamp
      BY <1>2
    <3>2. (\A p \in wire : p.from \in Media => p.ts <= timestamp)'
      BY <2>2, <2>3, <2>5, <3>1 DEF IInv, SeqInv, StampFresh
    <3>3. ASSUME NEW z \in Media, pc'[z] = "stamped"
          PROVE  ts'[z] <= timestamp' /\ \A p \in wire' : p.from = z => p.ts < ts'[z]
      <4>1. z \in Senders \ {s}
        BY <2>1, <3>3, Kinds
      <4>2. pc[z] = "stamped" /\ ts'[z] = ts[z]
        BY <2>1, <3>3, <4>1
      <4>3. ts[z] <= timestamp /\ \A p \in wire : p.from = z => p.ts < ts[z]
        BY <4>2 DEF IInv, SeqInv, StampFresh
      <4> QED BY <2>2, <2>3, <3>1, <4>1, <4>2, <4>3
    <3>4. ASSUME NEW z \in Punchers
          PROVE  /\ pc'[z] = "stamped" => ts'[z] = tries'[z]
                 /\ \A p \in wire' : p.from = z => p.ts < tries'[z]
      <4>1. \A p \in wire : p.from = z => p.ts < tries[z] /\ p.ts \in Nat
        BY PacketTypes DEF IInv, SeqInv, StampFresh
      <4>2. CASE z = s
        <5>1. tries'[s] = tries[s] + 1 /\ ts[s] = tries[s] /\ pc'[s] # "stamped"
          BY <1>2, <2>1, <2>5, <4>2
        <5>2. \A p \in wire' : p.from = s => p.ts < tries[s] + 1
          BY <2>2, <2>3, <4>1, <4>2, <5>1
        <5> QED BY <4>2, <5>1, <5>2
      <4>3. CASE z # s
        <5>1. z \in Senders \ {s}
          BY <4>3, Kinds
        <5>2. pc'[z] = pc[z] /\ ts'[z] = ts[z] /\ tries'[z] = tries[z]
          BY <2>1, <5>1
        <5> QED BY <2>2, <2>3, <4>1, <4>3, <5>2 DEF IInv, SeqInv, StampFresh
      <4> QED BY <4>2, <4>3
    <3> QED BY <3>2, <3>3, <3>4 DEF StampFresh
  <2> QED BY <2>6, <2>7, <2>8, <2>9 DEF SeqInv
<1> QED BY <1>5, <1>6, <1>7, <1>8, <1>9 DEF IInv

(* The flags.                                                              *)
LEMMA FlagsKeep ==
  ASSUME IInv, EndpointStep
  PROVE  IInv'
<1>1. /\ UNCHANGED <<remoteAddr, drawVars, pc, tries, dest, histVars>>
      /\ active' \in BOOLEAN /\ closed' \in BOOLEAN /\ socket' \in BOOLEAN
      /\ closed => closed'
  BY DEF EndpointStep, Activate, Deactivate, MarkClosed, CloseSocket, IInv,
         RtpTypeOK
<1>2. RtpTypeOK'
  BY <1>1 DEF IInv, RtpTypeOK, drawVars, histVars
<1>3. LagInv'
  BY <1>1 DEF IInv, LagInv, TimestampLag, Numbered, drawVars, histVars
<1>4. StaleInv'
  BY <1>1 DEF IInv, StaleInv, StaleAddressOnce, histVars
<1>5. LateInv'
  BY <1>1 DEF IInv, LateInv, LastWords, histVars
<1>6. SeqInv'
  BY <1>1
     DEF IInv, SeqInv, WireOrdered, CarriedFresh, StampFresh, Carrying, drawVars,
         histVars
<1> QED BY <1>2, <1>3, <1>4, <1>5, <1>6 DEF IInv

(* Every step keeps the invariant.                                         *)
LEMMA StepKeeps == IInv /\ [RtpNext]_rtpVars => IInv'
<1> SUFFICES ASSUME IInv, [RtpNext]_rtpVars PROVE IInv'
  OBVIOUS
<1>1. CASE RtpNext
  BY <1>1, FrameKeeps, ReaderKeeps, PunchKeeps, DrawSeqKeeps, DrawTsKeeps,
     WriteKeeps, FlagsKeep
     DEF RtpNext
<1>2. CASE UNCHANGED rtpVars
  BY <1>2
     DEF IInv, RtpTypeOK, LagInv, TimestampLag, Numbered, StaleInv,
         StaleAddressOnce, LateInv, LastWords, SeqInv, WireOrdered,
         CarriedFresh, StampFresh, Carrying, rtpVars, flagVars, drawVars,
         histVars
<1> QED BY <1>1, <1>2

(* The invariant holds throughout.                                         *)
THEOREM Invariance == RtpSpec => []IInv
BY Starts, StepKeeps, PTL DEF RtpSpec

-------------------------------------------------------------------------------
(* Counters cut to a number of bits.  A number is a multiple of the        *)
(* modulus and its remainder.                                              *)
LEMMA DivMod ==
  ASSUME NEW M \in Nat \ {0}, NEW a \in Int
  PROVE  /\ a % M \in 0..(M - 1)
         /\ \E k \in Int : a = M * k + (a % M)
<1>1. a % M \in 0..(M - 1)
  OBVIOUS
<1>2. a \div M \in Int
  OBVIOUS
<1>3. a = M * (a \div M) + (a % M)
  OBVIOUS
<1> QED BY <1>1, <1>2, <1>3

(* Two numbers less than a turn apart keep their distance.                 *)
LEMMA Distance ==
  ASSUME NEW M \in Nat \ {0}, NEW x \in Int, NEW y \in Int, y - x \in 0..(M - 1)
  PROVE  ((y % M) - (x % M)) % M = y - x
<1>1. PICK j \in Int : x = M * j + (x % M)
  BY DivMod
<1>2. PICK k \in Int : y = M * k + (y % M)
  BY DivMod
<1> DEFINE d == y - x
           z == (y % M) - (x % M)
<1>3. x % M \in 0..(M - 1) /\ y % M \in 0..(M - 1)
  BY DivMod
<1>4. z \in Int /\ z > -M /\ z < M
  BY <1>3
<1>5. d - z = M * k - M * j
  BY <1>1, <1>2, <1>3
<1>6. M * k - M * j = M * (k - j)
  OBVIOUS
<1> HIDE DEF z
<1>7. k - j = 0 \/ k - j = 1
  BY <1>4, <1>5, <1>6
<1>8. z = d \/ z = d - M
  BY <1>4, <1>5, <1>6, <1>7
<1>9. z % M = d
  BY <1>8
<1> QED BY <1>9 DEF z

(* Numbers less than a turn apart look different on the wire, and up to    *)
(* half a turn a receiver sees which one is ahead.                         *)
LEMMA OnTheWire ==
  ASSUME NEW M \in Nat \ {0}, NEW x \in Int, NEW y \in Int, y - x \in Nat \ {0}
  PROVE  /\ y - x < M => x % M # y % M
         /\ y - x <= M \div 2 => Ahead(x % M, y % M, M)
<1>1. ASSUME y - x < M
      PROVE  x % M # y % M
  <2>1. ((y % M) - (x % M)) % M = y - x
    <3>1. y - x \in 0..(M - 1)
      BY <1>1
    <3> QED BY <3>1, Distance
  <2>2. x % M \in Int /\ 0 % M = 0
    OBVIOUS
  <2> QED BY <2>1, <2>2
<1>2. ASSUME y - x <= M \div 2
      PROVE  Ahead(x % M, y % M, M)
  <2>1. y - x \in 0..(M - 1)
    BY <1>2
  <2>2. ((y % M) - (x % M)) % M = y - x
    BY <2>1, Distance
  <2> QED BY <1>2, <2>2 DEF Ahead
<1> QED BY <1>1, <1>2

-------------------------------------------------------------------------------
(* Type correctness, for any number of goroutines and packets.             *)
THEOREM RtpTypeCorrect == RtpSpec => []RtpTypeOK
<1>1. IInv => RtpTypeOK
  BY DEF IInv
<1> QED BY <1>1, Invariance, PTL

(* A media packet's time stamp is behind its place by less than the number *)
(* of goroutines, however many there are and however often they retry.     *)
THEOREM LagIsBounded == RtpSpec => []TimestampLag
<1>1. IInv => TimestampLag
  BY DEF IInv, LagInv
<1> QED BY <1>1, Invariance, PTL

(* Packets are numbered uniquely and in order, whatever the widths of the  *)
(* counters and however long the call lasts: the invariant speaks of the   *)
(* numbers drawn, the arithmetic takes it to the numbers on the wire.      *)
THEOREM NumbersAdvance == RtpSpec => []WireConsistent
<1>1. IInv => WireConsistent
  <2> SUFFICES ASSUME IInv, NEW p \in wire, NEW q \in wire, p # q
               PROVE  /\ p.seq # q.seq
                      /\ q.seq - p.seq \in 1..(SeqModulus - 1)
                           => WireSeq(p.seq) # WireSeq(q.seq)
                      /\ p.from = q.from /\ p.seq < q.seq =>
                           /\ p.ts < q.ts
                           /\ q.seq - p.seq <= SeqModulus \div 2 =>
                                Ahead(WireSeq(p.seq), WireSeq(q.seq), SeqModulus)
                           /\ TsStep * (q.ts - p.ts) <= TsModulus \div 2 =>
                                Ahead(WireTs(p.ts), WireTs(q.ts), TsModulus)
    BY DEF WireConsistent
  <2>1. /\ p.seq # q.seq
        /\ p.from = q.from /\ p.seq < q.seq => p.ts < q.ts
        /\ p.seq \in Nat /\ q.seq \in Nat /\ p.ts \in Nat /\ q.ts \in Nat
    BY PacketTypes DEF IInv, SeqInv, WireOrdered
  <2>2. ASSUME p.seq < q.seq
        PROVE  /\ q.seq - p.seq < SeqModulus => WireSeq(p.seq) # WireSeq(q.seq)
               /\ q.seq - p.seq <= SeqModulus \div 2 =>
                    Ahead(WireSeq(p.seq), WireSeq(q.seq), SeqModulus)
    <3> DEFINE x == SeqBase + p.seq
               y == SeqBase + q.seq
    <3>1. x \in Int /\ y \in Int /\ y - x \in Nat \ {0} /\ y - x = q.seq - p.seq
          /\ SeqModulus \in Nat \ {0}
      BY <2>1, <2>2, RtpAssumption
    <3>2. /\ y - x < SeqModulus => x % SeqModulus # y % SeqModulus
          /\ y - x <= SeqModulus \div 2 =>
               Ahead(x % SeqModulus, y % SeqModulus, SeqModulus)
      BY <3>1, OnTheWire
    <3> QED BY <3>1, <3>2 DEF WireSeq
  <2>3. ASSUME p.ts < q.ts
        PROVE  TsStep * (q.ts - p.ts) <= TsModulus \div 2 =>
                 Ahead(WireTs(p.ts), WireTs(q.ts), TsModulus)
    <3> DEFINE x == TsBase + TsStep * p.ts
               y == TsBase + TsStep * q.ts
    <3>1. TsStep \in Nat \ {0} /\ TsBase \in Nat /\ TsModulus \in Nat \ {0}
      BY RtpAssumption
    <3>2. TsStep * q.ts - TsStep * p.ts = TsStep * (q.ts - p.ts)
      BY <2>1, <3>1
    <3>3. TsStep * (q.ts - p.ts) \in Nat \ {0}
      BY <2>1, <2>3, <3>1
    <3>4. TsStep * p.ts \in Int /\ TsStep * q.ts \in Int
      BY <2>1, <3>1
    <3>5. x \in Int /\ y \in Int /\ y - x = TsStep * (q.ts - p.ts)
      BY <3>1, <3>2, <3>4
    <3> HIDE DEF x, y
    <3>6. y - x <= TsModulus \div 2 =>
            Ahead(x % TsModulus, y % TsModulus, TsModulus)
      BY <3>1, <3>3, <3>5, OnTheWire
    <3> QED BY <3>5, <3>6 DEF WireTs, x, y
  <2>4. q.seq - p.seq \in 1..(SeqModulus - 1)
          => p.seq < q.seq /\ q.seq - p.seq < SeqModulus
    BY <2>1, RtpAssumption
  <2> HIDE DEF WireSeq, WireTs, Ahead
  <2> QED BY <2>1, <2>2, <2>3, <2>4
<1> QED BY <1>1, Invariance, PTL

(* An old address gets at most one more packet of each output goroutine.   *)
THEOREM OldAddressGetsOne == RtpSpec => []StaleAddressOnce
<1>1. IInv => StaleAddressOnce
  BY DEF IInv, StaleInv
<1> QED BY <1>1, Invariance, PTL

(* A closed endpoint sends at most one more packet per goroutine.          *)
THEOREM ClosedEndpointFallsSilent == RtpSpec => []LastWords
<1>1. IInv => LastWords
  BY DEF IInv, LateInv
<1> QED BY <1>1, Invariance, PTL
===============================================================================
