---------------------------------- MODULE Rtp ----------------------------------
(***************************************************************************)
(* RTP towards the caller: the packets one SIPEndpoint of                  *)
(* internal/sip/sip.go sends, and the sequence numbers, time stamps and    *)
(* addresses it puts on them.                                              *)
(*                                                                         *)
(* Three kinds of goroutines send.  A member of Outputs is the             *)
(* processOpusOutput of a session, which calls SendOpusFrame; there are    *)
(* several when the ACK was retransmitted.  Reader is processRTP, which    *)
(* sends a silence dummy when nothing was received for 500 ms, and learns  *)
(* the caller's address.  A member of Punchers is one sendDummyRTPPackets. *)
(* Sequence number and time stamp are drawn by two atomic additions.       *)
(*                                                                         *)
(* seqNum and timestamp count the additions; on the wire the first is cut  *)
(* to 16 bits, the second advances by 960 and is cut to 32.                *)
(***************************************************************************)
EXTENDS Integers, FiniteSets

CONSTANTS
  Outputs,      \* goroutines processOpusOutput of the endpoint's sessions
  Reader,       \* goroutine processRTP
  Punchers,     \* goroutines sendDummyRTPPackets
  Addrs,        \* addresses the caller's packets come from
  NoAddr,       \* remoteAddr is nil
  MaxAttempts,  \* attempts of SendOpusFrame, 5 in the code
  MaxDummies,   \* packets of sendDummyRTPPackets, 5 in the code
  SeqModulus,   \* 2^16
  SeqBase,      \* initial seqNum, random
  TsModulus,    \* 2^32
  TsStep,       \* opusSamplesPerFrame, 960
  TsBase,       \* timestampBase, random
  MaxPackets    \* bound: sequence numbers drawn

Media   == Outputs \cup {Reader}
Senders == Media \cup Punchers

ASSUME RtpAssumption ==
  /\ IsFiniteSet(Outputs)
  /\ Reader \notin Outputs
  /\ Punchers \cap Media = {}
  /\ NoAddr \notin Addrs
  /\ MaxAttempts \in Nat /\ MaxDummies \in Nat /\ MaxPackets \in Nat
  /\ SeqModulus \in Nat \ {0} /\ TsModulus \in Nat \ {0}
  /\ SeqBase \in Nat /\ TsBase \in Nat /\ TsStep \in Nat \ {0}

VARIABLES
  active, closed,  \* flags of the endpoint
  socket,          \* rtpConn is set and open
  remoteAddr,      \* SIPEndpoint.remoteAddr
  seqNum,          \* additions to seqNum
  timestamp,       \* additions to timestamp
  pc,              \* where a sender stands
  tries,           \* attempts made, or dummies sent
  dest,            \* address a sender read
  seq, ts,         \* what it drew for the packet in its hand
  drawn, place,    \* history: media packets numbered; which of them this one is
  wire,            \* history: packets sent
  stale,           \* history: packets to an old address since the last update
  late             \* history: packets sent since closed was set

flagVars  == <<active, closed, socket>>
drawVars  == <<seqNum, timestamp, seq, ts, drawn, place>>
histVars  == <<wire, stale, late>>
rtpVars   == <<flagVars, remoteAddr, drawVars, pc, tries, dest, histVars>>

Packet == [from : Senders, seq : Nat, ts : Nat, place : Nat]

RtpTypeOK ==
  /\ active \in BOOLEAN /\ closed \in BOOLEAN /\ socket \in BOOLEAN
  /\ remoteAddr \in Addrs \cup {NoAddr}
  /\ seqNum \in Nat /\ timestamp \in Nat /\ drawn \in Nat
  /\ pc \in [Senders -> {"idle", "looking", "ready", "numbered", "stamped",
                         "exited"}]
  /\ tries \in [Senders -> Nat]
  /\ dest \in [Senders -> Addrs \cup {NoAddr}]
  /\ seq \in [Senders -> Nat]
  /\ ts \in [Senders -> Nat]
  /\ place \in [Senders -> Nat]
  /\ wire \subseteq Packet
  /\ stale \in [Senders -> Nat]
  /\ late \in [Senders -> Nat]

(* The endpoint after the INVITE: the address of the SDP, if it had one.   *)
RtpInit ==
  /\ active = FALSE /\ closed = FALSE /\ socket = TRUE
  /\ remoteAddr \in Addrs \cup {NoAddr}
  /\ seqNum = 0 /\ timestamp = 0 /\ drawn = 0
  /\ pc = [s \in Senders |-> "idle"]
  /\ tries = [s \in Senders |-> 0]
  /\ dest = [s \in Senders |-> NoAddr]
  /\ seq = [s \in Senders |-> 0]
  /\ ts = [s \in Senders |-> 0]
  /\ place = [s \in Senders |-> 0]
  /\ wire = {}
  /\ stale = [s \in Senders |-> 0]
  /\ late = [s \in Senders |-> 0]

Go(s, from, to) == pc[s] = from /\ pc' = [pc EXCEPT ![s] = to]

-------------------------------------------------------------------------------
(* SendOpusFrame.  A call that finds the endpoint inactive or closed, or a *)
(* frame below five bytes, returns nil and changes nothing.                *)

FrameBeginActiveOnly(o) ==
  /\ Go(o, "idle", "looking")
  /\ active
  /\ UNCHANGED <<flagVars, remoteAddr, drawVars, tries, dest, histVars>>

FrameBegin(o) ==
  /\ Go(o, "idle", "looking")
  /\ active /\ ~closed
  /\ UNCHANGED <<flagVars, remoteAddr, drawVars, tries, dest, histVars>>

CaptureOnce(o) ==
  /\ tries[o] < MaxAttempts
  /\ Go(o, "looking", "ready")
  /\ socket /\ remoteAddr # NoAddr
  /\ dest' = [dest EXCEPT ![o] = IF @ = NoAddr THEN remoteAddr ELSE @]
  /\ UNCHANGED <<flagVars, remoteAddr, drawVars, tries, histVars>>

(* An attempt reads the socket and the address under e.mu.                 *)
Capture(o) ==
  /\ tries[o] < MaxAttempts
  /\ Go(o, "looking", "ready")
  /\ socket /\ remoteAddr # NoAddr
  /\ dest' = [dest EXCEPT ![o] = remoteAddr]
  /\ UNCHANGED <<flagVars, remoteAddr, drawVars, tries, histVars>>

(* One of them is nil: the attempt waits 100 ms and is over.               *)
NotReady(o) ==
  /\ pc[o] = "looking"
  /\ tries[o] < MaxAttempts
  /\ ~socket \/ remoteAddr = NoAddr
  /\ tries' = [tries EXCEPT ![o] = @ + 1]
  /\ UNCHANGED <<flagVars, remoteAddr, drawVars, pc, dest, histVars>>

(* "failed after retries".                                                 *)
GiveUp(o) ==
  /\ tries[o] = MaxAttempts
  /\ Go(o, "looking", "idle")
  /\ tries' = [tries EXCEPT ![o] = 0]
  /\ UNCHANGED <<flagVars, remoteAddr, drawVars, dest, histVars>>

-------------------------------------------------------------------------------
(* processRTP.                                                             *)

(* The loop's checks of the context and of closed, then the read.          *)
ReadBegin ==
  /\ Go(Reader, "idle", "looking")
  /\ ~closed
  /\ UNCHANGED <<flagVars, remoteAddr, drawVars, tries, dest, histVars>>

(* The endpoint is closed, or the context of the server is cancelled,      *)
(* which may happen at any time.                                           *)
ReaderExit ==
  /\ Go(Reader, "idle", "exited")
  /\ UNCHANGED <<flagVars, remoteAddr, drawVars, tries, dest, histVars>>

(* Nothing came for 500 ms: the address is read for a silence dummy.       *)
ReadTimeout ==
  /\ Go(Reader, "looking", "ready")
  /\ remoteAddr # NoAddr /\ active
  /\ dest' = [dest EXCEPT ![Reader] = remoteAddr]
  /\ UNCHANGED <<flagVars, remoteAddr, drawVars, tries, histVars>>

(* There is nobody to send one to, or the read failed.                     *)
ReadNothing ==
  /\ Go(Reader, "looking", "idle")
  /\ UNCHANGED <<flagVars, remoteAddr, drawVars, tries, dest, histVars>>

(* sendSilenceDummy finds the endpoint closed by now.                      *)
DummyRefused ==
  /\ Go(Reader, "ready", "idle")
  /\ closed
  /\ UNCHANGED <<flagVars, remoteAddr, drawVars, tries, dest, histVars>>

(* A packet came.  If its source is another address, the caller is taken   *)
(* to have moved.                                                          *)
ReadPacket(a) ==
  /\ socket
  /\ Go(Reader, "looking", "idle")
  /\ remoteAddr' = a
  /\ stale' = IF a = remoteAddr THEN stale ELSE [s \in Senders |-> 0]
  /\ UNCHANGED <<flagVars, drawVars, tries, dest, wire, late>>

-------------------------------------------------------------------------------
(* sendDummyRTPPackets, started by an ACK with the address of that time.   *)

PunchStart(p) ==
  /\ Go(p, "idle", "looking")
  /\ socket /\ remoteAddr # NoAddr
  /\ dest' = [dest EXCEPT ![p] = remoteAddr]
  /\ UNCHANGED <<flagVars, remoteAddr, drawVars, tries, histVars>>

PunchNext(p) ==
  /\ tries[p] < MaxDummies
  /\ active /\ ~closed
  /\ Go(p, "looking", "ready")
  /\ UNCHANGED <<flagVars, remoteAddr, drawVars, tries, dest, histVars>>

PunchExit(p) ==
  /\ tries[p] = MaxDummies \/ ~active \/ closed
  /\ Go(p, "looking", "exited")
  /\ UNCHANGED <<flagVars, remoteAddr, drawVars, tries, dest, histVars>>

DrawDummyPeeks(p) ==
  /\ Go(p, "ready", "stamped")
  /\ seqNum < MaxPackets
  /\ seq' = [seq EXCEPT ![p] = seqNum]
  /\ ts' = [ts EXCEPT ![p] = tries[p]]
  /\ UNCHANGED <<flagVars, remoteAddr, seqNum, timestamp, drawn, place, tries,
                 dest, histVars>>

(* A dummy takes a sequence number; its time stamp is its own count from   *)
(* timestampBase on.                                                       *)
DrawDummy(p) ==
  /\ Go(p, "ready", "stamped")
  /\ seqNum < MaxPackets
  /\ seqNum' = seqNum + 1
  /\ seq' = [seq EXCEPT ![p] = seqNum']
  /\ ts' = [ts EXCEPT ![p] = tries[p]]
  /\ UNCHANGED <<flagVars, remoteAddr, timestamp, drawn, place, tries, dest,
                 histVars>>

-------------------------------------------------------------------------------
(* What SendOpusFrame and sendSilenceDummy have in common: two additions,  *)
(* each atomic, then the write.                                            *)

DrawSeq(s) ==
  /\ Go(s, "ready", "numbered")
  /\ seqNum < MaxPackets
  /\ s = Reader => ~closed
  /\ seqNum' = seqNum + 1
  /\ seq' = [seq EXCEPT ![s] = seqNum']
  /\ drawn' = drawn + 1
  /\ place' = [place EXCEPT ![s] = drawn']
  /\ UNCHANGED <<flagVars, remoteAddr, timestamp, ts, tries, dest, histVars>>

DrawTsFramesOnly(s) ==
  /\ Go(s, "numbered", "stamped")
  /\ timestamp' = IF s = Reader THEN timestamp ELSE timestamp + 1
  /\ ts' = [ts EXCEPT ![s] = timestamp']
  /\ UNCHANGED <<flagVars, remoteAddr, seqNum, seq, drawn, place, tries, dest,
                 histVars>>

DrawTs(s) ==
  /\ Go(s, "numbered", "stamped")
  /\ timestamp' = timestamp + 1
  /\ ts' = [ts EXCEPT ![s] = timestamp']
  /\ UNCHANGED <<flagVars, remoteAddr, seqNum, seq, drawn, place, tries, dest,
                 histVars>>

(* Where a sender goes on: SendOpusFrame retries after an error, with new  *)
(* numbers; a dummy is sent once.  The numbers drawn are forgotten.        *)
AfterWrite(s, ok) ==
  LET again == s \in Punchers \/ (s \in Outputs /\ ~ok) IN
    /\ Go(s, "stamped", IF again THEN "looking" ELSE "idle")
    /\ tries' = [tries EXCEPT ![s] = IF again THEN @ + 1 ELSE 0]
    /\ seq' = [seq EXCEPT ![s] = 0]
    /\ ts' = [ts EXCEPT ![s] = 0]
    /\ place' = [place EXCEPT ![s] = 0]

InHand(s) == [from |-> s, seq |-> seq[s], ts |-> ts[s], place |-> place[s]]

WriteSucceeds(s) ==
  /\ socket
  /\ AfterWrite(s, TRUE)
  /\ wire' = wire \cup {InHand(s)}
  /\ stale' = [stale EXCEPT ![s] = IF dest[s] = remoteAddr THEN @ ELSE @ + 1]
  /\ late' = [late EXCEPT ![s] = IF closed THEN @ + 1 ELSE @]
  /\ UNCHANGED <<flagVars, remoteAddr, seqNum, timestamp, drawn, dest>>

(* Always possible, and certain on a closed socket.                        *)
WriteFails(s) ==
  /\ AfterWrite(s, FALSE)
  /\ UNCHANGED <<flagVars, remoteAddr, seqNum, timestamp, drawn, dest, histVars>>

-------------------------------------------------------------------------------
(* The endpoint's flags.                                                   *)

(* An ACK; a late one may come after Close.                                *)
Activate ==
  /\ ~active
  /\ active' = TRUE
  /\ UNCHANGED <<closed, socket, remoteAddr, drawVars, pc, tries, dest,
                 histVars>>

(* closeEndpoint, before the session is removed from the bridge.           *)
Deactivate ==
  /\ active
  /\ active' = FALSE
  /\ UNCHANGED <<closed, socket, remoteAddr, drawVars, pc, tries, dest,
                 histVars>>

(* Close swaps closed, clears active and cancels the reader's context.     *)
MarkClosed ==
  /\ ~closed
  /\ closed' = TRUE
  /\ active' = FALSE
  /\ UNCHANGED <<socket, remoteAddr, drawVars, pc, tries, dest, histVars>>

(* 50 ms later, under e.mu, the socket is closed and rtpConn cleared.      *)
CloseSocket ==
  /\ closed
  /\ socket
  /\ socket' = FALSE
  /\ UNCHANGED <<active, closed, remoteAddr, drawVars, pc, tries, dest,
                 histVars>>

-------------------------------------------------------------------------------
FrameStep(o) == FrameBegin(o) \/ Capture(o) \/ NotReady(o) \/ GiveUp(o)

ReaderStep ==
  \/ ReadBegin
  \/ ReaderExit
  \/ ReadTimeout
  \/ ReadNothing
  \/ DummyRefused
  \/ \E a \in Addrs : ReadPacket(a)

PunchStep(p) == PunchStart(p) \/ PunchNext(p) \/ PunchExit(p) \/ DrawDummy(p)

EndpointStep ==
  \/ Activate
  \/ Deactivate
  \/ MarkClosed
  \/ CloseSocket

RtpNext ==
  \/ \E o \in Outputs : FrameStep(o)
  \/ ReaderStep
  \/ \E p \in Punchers : PunchStep(p)
  \/ \E s \in Media : DrawSeq(s) \/ DrawTs(s)
  \/ \E s \in Senders : WriteSucceeds(s) \/ WriteFails(s)
  \/ EndpointStep

RtpSpec == RtpInit /\ [][RtpNext]_rtpVars

-------------------------------------------------------------------------------
(* PROPERTIES                                                              *)

WireSeq(n) == (SeqBase + n) % SeqModulus
WireTs(n)  == (TsBase + TsStep * n) % TsModulus

(* Serial number arithmetic, as a receiver compares: b is ahead of a.      *)
Ahead(a, b, M) == (b - a) % M \in 1..(M \div 2)

(* No two packets carry the same sequence number within one turn of the    *)
(* counter, whichever goroutines sent them; and the packets of one         *)
(* goroutine advance in sequence number and in time stamp, retries         *)
(* included, also where the 16 and 32 bits wrap, as far as half a turn     *)
(* lets a receiver tell.                                                   *)
WireConsistent ==
  \A p, q \in wire : p # q =>
    /\ p.seq # q.seq
    /\ q.seq - p.seq \in 1..(SeqModulus - 1) => WireSeq(p.seq) # WireSeq(q.seq)
    /\ p.from = q.from /\ p.seq < q.seq =>
         /\ p.ts < q.ts
         /\ q.seq - p.seq <= SeqModulus \div 2
              => Ahead(WireSeq(p.seq), WireSeq(q.seq), SeqModulus)
         /\ TsStep * (q.ts - p.ts) <= TsModulus \div 2
              => Ahead(WireTs(p.ts), WireTs(q.ts), TsModulus)

(* Sequence number and time stamp are not drawn together, so a frame and a *)
(* silence dummy can carry them crosswise.  A packet's time stamp stays    *)
(* behind its place among the media packets by less than the number of     *)
(* goroutines that send them.                                              *)
TimestampLag ==
  \A p \in wire :
    p.from \in Media => p.place < p.ts + Cardinality(Media)

(* Once the caller's address has changed, each output goroutine sends at   *)
(* most one more packet to an old one, however often it changed and        *)
(* whatever was being retried; the reader sends none.                      *)
StaleAddressOnce ==
  /\ \A o \in Outputs : stale[o] <= 1
  /\ stale[Reader] = 0

(* Once the endpoint is closed each goroutine sends at most one more       *)
(* packet, although the socket stays open for 50 ms, attempts do not look  *)
(* at closed and a late ACK sets active again.                             *)
LastWords == \A s \in Senders : late[s] <= 1
===============================================================================
