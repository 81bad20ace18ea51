# openai-gate in TLA+

openai-gate connects SIP and WebRTC callers to the OpenAI realtime API. These
modules model its concurrent core and its store, the configurations check them
with TLC on small instances, and the `*Proofs` modules prove with TLAPS what
holds for instances of any size.

    tlc -config Bridge.cfg MCBridge.tla              # any run: its cfg and MC module
    tlapm BridgeProofs.tla                           # any module of proofs

`PROJECT.json` lists components, runs, seeded faults that each property detects,
the source lines behind every definition, findings, hazards and theorems. A seeded
fault stands just before the definition it alters and carries that definition's
name with a suffix (`RemoveEndKeepsEntry` before `RemoveEnd`); no specification
uses it.

## 1. The system

| part | source | state | operations |
|---|---|---|---|
| session registry | `internal/bridge/bridge.go` | `sessions`, `mu`; per session `isActive`, `ctx`, `openAI` | CreateSession, RemoveSession(WithReason), OnError/OnClose, Shutdown |
| playback | `bridge.go`, `internal/openai/openai.go` | `opusBuffer`, `isResponsePlaying`, `playedSampleCount`, `currentItemID` | OnOpusData, processOpusOutput, clearBuffers, data-channel events |
| OpenAI connection | `internal/openai/openai.go` | `peerConnection`, `dataChannel`, `closed`, `writeMu` | Connect, configure, notifyError/notifyClose, InterruptResponse, sendMessage, SendOpusAudio, handleIncomingAudio, Close |
| SIP server | `internal/sip/sip.go` | `endpoints`; per endpoint socket, `active`, `closed`, `cancel`, `session` | INVITE, ACK, BYE, CANCEL, processRTP, Close, Stop |
| RTP to the caller | `internal/sip/sip.go` | `seqNum`, `timestamp`, `remoteAddr`, `active`, `closed` | SendOpusFrame, sendSilenceDummy, sendDummyRTPPackets, the reader's address update |
| WebRTC endpoints | `internal/webrtc/webrtc.go` | `endpoints`; per endpoint `isClosed`, `session`, `peerConnection` | HandleWebSocket, handleMessages, handleOffer, SendOpusFrame, Close, removeEndpoint |
| context store | `internal/store/*.go` | one MDBX map of prefixed keys | Save*, Delete*, Get*, List*, Close |
| recorder, transcript | `internal/controllers/*.go` | `recordings` (counters), audio and text in the store | addPacket, finalizeSession, CreateWebMData, AddMessage |
| HTTP API | `internal/api/api.go` | none of its own | calls of the store and the recorder |
| main | `cmd/openai-gate/main.go` | handlers | wiring, shutdown with a limit of 10 s |

How they interact. A SIP ACK or a WebSocket makes the endpoint call
`Bridge.CreateSession`, which connects to OpenAI, puts the session in the map
and starts `processOpusOutput`. RTP readers push the caller's frames through
`ProcessIncomingOpus`; the track of the OpenAI connection pushes the assistant's
through `OnOpusData` into `opusBuffer`. Every frame of both directions is also
given to the recorder, *each in a goroutine of its own*, which writes it to the
store; every end of a session (error, closed connection, removal, shutdown) is
reported to the recorder, again by a goroutine each. BYE, CANCEL, a closed
WebSocket, `Stop` and `Shutdown` remove sessions. `main` stops SIP, then HTTP,
then the bridge, then closes the store.

Hard behaviour, and what correct means:

* **Requests of one call overlap.** sipgo runs each request in a goroutine. A
  hangup must leave neither session, socket nor reader behind whenever it comes.
* **Two owners of one id.** Call-IDs are chosen by the caller: a retransmitted
  ACK or a second INVITE reuses one. What is leaked must be known exactly.
* **Removal is not atomic.** `isActive` is cleared before the connection is
  closed and the entry deleted, and readers of `isActive` take no lock. Nothing
  is removed twice, and the bridge never takes its own closing for a failure.
* **A queue with two readers, an overflow and a stale filter.** The caller must
  hear frames in order and once; each lost frame has one cause; none
  stays queued while the session lives.
* **Unsynchronized counters and flags of an endpoint.** Three kinds of goroutines
  number packets by two separate atomic additions, retry, and read address and
  flags once before several attempts. The receiver must see unique, advancing
  sequence numbers and a bounded lag of the time stamps; an old address and a
  closed endpoint must fall silent.
* **Two mutexes around one data channel.** `sendMessage` holds `writeMu`, `Close`
  holds `s.mu`. Who can use a channel that is gone must be known exactly.
* **Goroutine per packet.** The recorded track must hold every frame, in order,
  as it was received, also across the end of the session.
* **One key space.** Records of all sessions share one ordered map: a prefix
  must match what it names, and all of it.
* **Shutdown against everything else.**

All hazards, with their lines and the properties that watch them, are in
`PROJECT.json`.

## 2. Modules

    Registry  <- implemented by -  Bridge      <- BridgeProofs   (MCBridge)
        ^ client ----------------  SipServer   <- SipProofs      (MCSipServer)
        ^ client ----------------  WebRtc      <- WebRtcProofs   (MCWebRtc)
    LossyFifo <- implemented by -  Playback    <- PlaybackProofs (MCPlayback)
    Archive   <- implemented by -  Store       <- StoreProofs    (MCStore)
    Journal   <- implemented by -  Recorder    <- RecorderProofs (MCRecorder)
                                   Rtp         <- RtpProofs      (MCRtp)
                                   OpenAI      <- OpenAIProofs   (MCOpenAI)

### Registry, Bridge

`Registry` is the session map as its callers see it: `BeginCreate`, then
`FailCreate` or `PutSession`; `DropSession` is one atomic deletion. `Bridge` is
the code: a member of `Sessions` is one `BridgeSession` object (one call of
CreateSession), `SessionIds` are keys, and two objects may share a key.
`stage` is where CreateSession stands, `peerConn` the OpenAI peer connection,
`output` the output goroutine, `notices`/`checked` the goroutines of
`notifyError`/`notifyClose` before and after they read `isActive`, `endCalls`
what the end handler was told, and `mu` the id whose removal holds `b.mu`.
`RemoveBegin` runs from the lock to `OpenAIService.Close`, `RemoveEnd` from there
to the unlock: the goroutines that take no lock run in between. Shutdown is
split at the snapshot, each report and each removal.

### SipServer

A client of `Registry` (not of `Bridge`: that is what `ImplementsRegistry` is
for). A member of `Endpoints` is one INVITE whose socket was bound. INVITE is
split where `s.endpoints` and `cancel` become visible; ACK where it reads the
endpoint, calls CreateSession and assigns `endpoint.session`; `closeEndpoint`
where it reads the session, removes it, swaps `closed`, calls `cancel`, and
closes the socket after 50 ms. Several closers can be in it at once. `Stop` visits
the entries of `s.endpoints` in any order, as `sync.Map.Range` may.

### WebRtc

The second client of `Registry`, with the part of `main`'s shutdown that concerns
it: the HTTP server takes no new connections and waits for those it has, until
none is left (`HttpDrained`) or five seconds are over (`HttpTimeout`, an error
that `main.go:224` only logs); then the bridge takes a snapshot and removes its
sessions one by one. A member of `Sockets` is one connection of the server:
`Requested` before the upgrade, when `http.Server.Shutdown` waits for it, and
unknown to the server after it. A request it gave up on may still be refused or
accepted, whatever `main` does meanwhile; `unanswered` remembers those requests.
Which connections `http.Server` waits for is external and taken at its word.
`Accept` joins the upgrade (`webrtc.go:59`) with the store of the endpoint
(`webrtc.go:77`): between the two nobody else can see the endpoint, for only its
own handler looks into `s.endpoints`.
`serve`, `handler`, `closeAt` and `sending` are the places of HandleWebSocket,
handleMessages, Close and SendOpusFrame in the code. Offers that a client sent
before it left are still answered. Nobody closes these endpoints. `b.mu` is not
here: RemoveSession is one step of `Registry`, and that whoever holds the lock
lets go of it is a matter of `Bridge` (`RemovedQuiesces`, `ShutdownTerminates`).
Peer
connections are numbered by the offer they answer. Close holds `e.mu` from its
check of `isClosed` to its end, SendOpusFrame holds it for reading.

### Rtp

One SIP endpoint and everybody who sends on its socket: the output goroutines
(several after a retransmitted ACK), the reader with its silence dummies, and the
goroutines of `sendDummyRTPPackets`, which use an address and time stamps of
their own. A packet is numbered, stamped and written in three steps; a failed
write starts the next attempt, which draws again. `active`, `closed` and
`remoteAddr` are read where the code reads them, and changed by ACK, hangup and
the reader at any time. On the wire the counters are cut to `SeqModulus` and
`TsModulus`.

### OpenAI

One `OpenAIService`: `connect` walks through Connect, whose failures leave what
was made so far; `OnOpen` runs `configure`; `sendMessage` is split at its test of
`closed`, the lock, the test for nil and the use of `dataChannel`; Close is split
at the store of nil and the closing of the peer connection. The track reader
repeats a failing read at once, as the code does, and ends at EOF or when it
finds the service closed. A nil dereference makes the process `crashed`.

### LossyFifo, Playback

One session. A frame is its number. The track reader offers a frame, which is
queued or dropped after 10 ms; `processOpusOutput` is split where it receives,
reads `isResponsePlaying`, counts and sends; each `clearBuffers` goroutine is a
count in `clears` and competes for the same channel. `DecodedItem` is the id
found in an event of the data channel, which is none (section 3).

### Archive, Store

A string is the sequence of its parts between colons, so a key is a sequence and
the range from `prefix:` to `prefix;` that `Filter` scans is "a proper extension
of the prefix". Ids may have several parts. Every call is one MDBX transaction.
The store runs on a single map; `Archive` is four tables. The refinement maps
the tables to what the *readers* (`GetOpusFrames`, `GetDialogTexts`,
`ListContexts`, the prefix of `GetUserSessions`) return, so it covers them too;
only where an id has several parts, and the readers look for the time in the wrong
part, are frames and phrases taken from the map itself (`FramesKept`,
`PhrasesKept`). The refinement needs names of which none goes on where another one
ends (`PrefixFree`: not `a` and `a:b`); the run assumes it of its instance, the
theorem of any. Assumed of MDBX: transactions are atomic, and a cursor whose entry
was deleted continues with the next one.

### Journal, Recorder

One session and its recordings. The two pumps (the caller's RTP reader and
`processOpusOutput`) receive, check and hand over; each packet then is a
goroutine: find or create the recording, save, count. `held` is the
`SessionRecording` it works on, which may be finalized under it. `Bytes` is what
a packet's slice shows when it is saved: the payload is a slice of the buffer
`processRTP` reuses. `clock` is the wall clock in nanoseconds; it is assumed not
to be set back, and one pump never reads one nanosecond twice (20 ms and a system
call lie between two packets), while two pumps may. The shutdown of `main` is
part of the module as far as it ends the session, closes the store and exits,
which may happen at any time after its begin because of the 10 s limit.
`Journal` is what the recording promises: a packet is stamped at its handover,
later than those of its source before it, is entered at most once, and its entry
stays. In the code a save replaces whatever has the same key (`Put`).

## 3. Runs

Passing:

| run | question | instance |
|---|---|---|
| bridge | Is every entry usable, removed once, leaked only in the known ways, gone after Shutdown; is the bridge's own closing silent; is the bridge an atomic map; do Shutdown and a removed session come to an end? | 2 objects, 2 ids (distinct ids or one twice), one failure or disconnect per leg |
| sip_safety | Who closes the socket; what does Stop leave open? | 2 INVITEs, the same Call-ID or two, all closers |
| sip_hangup | Is a session removed before its endpoint is closed; does a hangup release port and reader; does Stop return? | 1 call, ACK twice: the second session takes the Call-ID over |
| webrtc | Does a client that leaves at any point leave a session, an entry or a peer connection behind; which sessions survive the shutdown, when its wait for the HTTP server succeeds or times out? | 2 clients, 2 sessions, one offer of each or two of one |
| playback | Order, accounting and staleness of frames; do queued frames leave, does the output end? | 4 frames, buffer of 2, 2 events: it overflows, is cleared and refilled |
| rtp | Are numbers unique and advancing on the wire, how far do time stamps lag, what still goes to an old address or from a closed endpoint? | 1 output goroutine, the reader, 1 punching goroutine; 2 addresses, 2 attempts, 3 packets; moduli 4 and 12, started so that both counters wrap and pass half a turn |
| openai | Who can use the cleared data channel, in which order do the first messages go, what passes after Close, does the reader end? | `configure`, 1 event handler, 1 uplink, the reader; every failure of Connect |
| store_archive | Does a call touch only what it names? | 2 ids, one with a colon, both sources, 2 times, 2 values, 3 writing calls: save, overwrite or save aside, delete |
| recorder | Is the track a journal, hence complete and ordered, are the statistics exact, is nothing finalized twice, is a packet saved after its session ended? | 2 packets, of one source or one of each, those of the caller in one buffer; a failure of the leg, a removal and a shutdown report the end |

The bounds are small because the faults are local: two objects suffice for a
collision of ids, two frames of a source suffice to swap them, two offers to
replace a peer connection, three packets of three kinds of senders to cross a
number with a time stamp. `MaxEvents = 1` bounds the failures of one leg; a second
failure finds it closed. Where the size could matter the theorems of section 5
remove the bound. `CHECK_DEADLOCK FALSE` is set everywhere since the pools of
objects, frames and calls are finite, and a run ends when they are used up; that
nothing hangs is what the liveness properties say. Symmetry is used for safety
only.

Violated, each by what a document or comment promises and the code does not do:

| run | promise | what happens |
|---|---|---|
| sip_closed_has_no_session | `sip.go:715` "Remove from bridge first" | a BYE during the ACK handler's CreateSession leaves the session registered |
| recorder_as_received | `recorder.go:131` addPacket saves the packet | the next packet overwrites the buffer before the goroutine saves it |
| recorder_graceful_shutdown | `main.go:208` "Graceful shutdown" | a late packet uses the closed store and panics |

Deviations that the models show and no run is spent on:

* An interrupted response is never truncated: the tag `json:",inline"`
  (`openai.go:57`) decodes nothing, so `openai.go:536` "Truncate if we have current
  item" never has one. This is `DecodedItem` of Playback.
* A `sendMessage` that is past its test for nil when Close stores nil
  (`openai.go:563`, `openai.go:730`) dereferences nil and ends the process.
  `CrashOnlyByHolder` says that only the goroutine that held `writeMu` then can.
* WebSocket endpoints are closed by their own client alone: neither the shutdown
  nor the end of the OpenAI connection closes them.
* A failed CreateSession leaves its endpoint in `s.endpoints` (`webrtc.go:87`):
  `EntryLeftOnlyByFailure`. A second offer leaves the first peer connection open
  (`webrtc.go:234`): `PeerLeakOnlyByRenegotiation`.
* A session that is being created while `main` shuts down survives
  `Bridge.Shutdown`, and so does one whose request `httpServer.Shutdown` gave up
  on after five seconds (`main.go:222`): `ShutdownLeavesOnlyUnderway`.
* Each retry of a frame advances sequence number and time stamp, although
  `sip.go:604` advances the time stamp "per frame". The first may be lost while
  the second is not: a time stamp may run ahead of its packet's place without bound,
  and `TimestampLag` bounds how far it falls behind.
* A late ACK sets `active` of a closed endpoint again (`sip.go:221`), and the five
  attempts of a frame look at `closed` once (`sip.go:586`): `LastWords`.
* Stop does not see an endpoint that a second INVITE, once stored, replaced (`sip.go:190`
  against "Close all endpoints", `sip.go:119`); this is the exception named in
  `StopClosesUnlessReplaced`.
* `DELETE /record/:sessionid` without `?source` deletes nothing (`api.go:120`
  against `README.md:41`): the action `DropUnnamed` of Archive.
* `GET /user/:user` lists WebRTC sessions only (`api.go:99`, `README.md:44`).
* What is saved under a session id with a colon is not found again, or under a
  wrong time: readers split the key at every colon and take the fourth part for
  the time (`store.go:121`, `store.go:161` "split key: audio:sessionId:source:time").
  The session id is the Call-ID, which may have one: `StoreLosesColonIds`.
* An id that goes on where another one ends (`a` and `a:b`) breaks the separation
  of the sessions, since a deletion goes by prefix (`db.go:162`): the hypothesis
  `PrefixFree` of `ImplementsArchive`.
* A packet handled after the last `finalizeSession` makes the ended session an
  active recording (`recorder.go:143` against `recorder.go:252`).
* A frame that could not be sent counts as played (`bridge.go:359` against
  `bridge.go:55`): see the last conjunct of `Accounted`.

## 4. Fairness

Weak fairness is given only to steps that a goroutine takes by itself once they
are possible: the Go scheduler runs every runnable goroutine, timers fire, and
`Connect` returns (its HTTP calls have time limits). Nothing is assumed of peers:
frames, events, requests, failures and removals need not come. In `Bridge`,
Shutdown's removals compete with others for `b.mu`; `sync.RWMutex` hands the
lock over to a waiting writer, hence strong fairness for `ShutdownRemove`.
In `SipServer`, the 50 ms sleep ends and the reader's deadline
makes it look at `closed` again. In `Recorder`, handler goroutines run while the
process does. In `WebRtc`, the closing goroutine waits for `e.mu` against the
readers of SendOpusFrame: a waiting writer of a `sync.RWMutex` keeps new readers
out, hence strong fairness for `CloseBegin`; a client that is gone makes
`ReadMessage` return. In `OpenAI`, Close goes on once begun, and a read of the
track returns once its peer connection is closed; nothing makes it return before.
`Rtp` has no liveness property: packets are sent without any promise of arrival.

## 5. Proofs

| theorem | module | for every |
|---|---|---|
| TypeCorrect, MapHoldsLiveSessions, NoDoubleRemoval, NoOtherLeak, OwnClosureNeverReported, ShutdownEmptiesSnapshot | BridgeProofs | set of ids and objects, number of failures |
| BridgeImplementsRegistry | BridgeProofs | as above: initial states and steps map to `Registry` |
| RemovedComesToRest | BridgeProofs | as above, under `FairSpec` and the hypothesis `[]RemovalNeverStuck` |
| SipTypeCorrect, SessionGoesFirst, SocketHasOneCloser, StopIsComplete | SipProofs | set of Call-IDs, calls and sessions |
| SipUsesRegistry | SipProofs | as above: what SipServer does with the registry, `Registry` allows |
| HangupGivesBack | SipProofs | as above, under `SipFairSpec` and the hypothesis `[]CallNeverStuck` |
| WsTypeCorrect, CloseIsComplete, EntriesLeft, PeersLeft, ShutdownLeavesUnderway, WsUsesRegistry | WebRtcProofs | set of connections, sessions and ids, number of offers |
| GoneClientReleases | WebRtcProofs | as above, under `WsFairSpec` and the hypothesis `[]EndpointNeverStuck` |
| PlaybackTypeCorrect, StaleFramesOnly, FramesAreAccounted, PlaybackIsLossyFifo | PlaybackProofs | capacity, number of frames and events |
| RtpTypeCorrect, NumbersAdvance, LagIsBounded, OldAddressGetsOne, ClosedEndpointFallsSilent | RtpProofs | set of goroutines and addresses, number of attempts and packets, moduli and step of the time stamps |
| OpenAITypeCorrect, OnlyTheHolderPanics, GreetingAfterConfiguration, ClosedServiceIsQuiet | OpenAIProofs | set of event handlers and uplinks |
| ClosedReaderEnds | OpenAIProofs | as above, under `OpenAIFairSpec` and the hypothesis `[]CloseNeverStuck` |
| StoreTypeCorrect | StoreProofs | set of ids, users, times and values, number of calls |
| StoreIsArchive, StoreFindsOnePart, StoreLosesColonIds | StoreProofs | as above, where no name goes on where another one ends (`PrefixFree`) |
| RecorderTypeCorrect, SavedFramesKept, EntriesAreOrdered, NoDoubleFinalization, StatisticsAreExact, CountsAreExact, RecorderKeepsJournal | RecorderProofs | number of packets and reported ends, set of reused buffers |

Assumptions are those on the constants, named in the modules: the null values are
no members of the sets they stand beside, bounds are natural numbers, a buffer
holds at least one frame, the goroutines of an endpoint are finitely many, ids and
users are sequences of strings.

None of the properties but the simplest is inductive; each module of proofs names
what has to be added, joins it in `IInv`, and shows action by action that it is
kept.

*Bridge.* That a removal closes the right connection needs to know that `b.mu` is
held for an entry whose object is inactive (`LockedEntry`), that an object is
untouched before it is registered (`Fresh`), that an active object was not removed
(`RemovalsOnce`); silence about the own closing needs a count of the goroutines
under way that is tight only while the object is active (`NoticesCounted`).

*SipServer.* What a closer found in an endpoint was registered under the
endpoint's Call-ID and cannot come back (`AckInv`, `RegInv`); an endpoint that is
in no entry of the map was replaced or is being closed (`MapInv`); one closer is
past the swap of `closed` (`CloseInv`); and what Stop saw at its start is behind
it, before it or replaced (`StopInv`).

*WebRtc.* Ids are never shared (`IdInv`), which is what SIP lacks: the entry and
the session of an id belong to the one connection that drew it. `SessionInv` ties
the place of HandleWebSocket to the state of its session, `CloseInv` says where
HandleWebSocket can stand when Close has begun, `ShutInv` that a registered
session is in the rest of the snapshot or belongs to a connection that was under
way.

*Playback.* A frame anywhere between arrival and loudspeaker is younger than all
that were sent and ordered with the others in flight; the order of arrival
survives because the two readers of the channel only ever take its head.
`Accounted` follows from a partition: the frames that arrived are the disjoint
union of those on the way, sent, and lost for each cause (`Partition`), and the
counter is the size of two of these parts (`PlayedExact`).

*Rtp.* The number of additions to the time stamp plus the goroutines that hold a
number and no stamp yet is the number of packets numbered; a goroutine holds one
packet at a time, so the difference is below the number of goroutines. An old
address or a closed endpoint can be met only by a packet in hand at that moment.
A number is drawn by an addition, so all numbers ever drawn differ and none is
above the counter; those one goroutine sends grow with it, and so do its time
stamps, since an addition precedes every packet. Two numbers less than a turn
apart have different residues, and of two at most half a turn apart the later one
is ahead by serial number arithmetic: `NumbersAdvance` needs no bound on the
packets and no particular width.

*OpenAI.* Whoever is between lock and unlock is the holder of `writeMu`, and whoever
comes after the store of nil is refused; so a goroutine that dereferences nil held
the lock when Close stored it. The greeting follows in one goroutine.

*Store.* A key is a kind, a name and up to two parts more (`Begins`). Keys of one
kind and length that are equal have equal names (`SameBeginning`), so two keys
are equal only if they name the same record, whatever the names look like
(`KeysDiffer`). A key in the range of a prefix agrees with it in the kind and in
the name as far as both names go, and such names are one name under `PrefixFree`
(`AgreeingNames`, `RangeAgrees`): a prefix finds exactly the keys of what it names
(`RangeOfFrames` and the lemmas after it). Each reader then returns the table it
is meant to return (`Readers`), and each call changes one entry of one table.
What the readers do with a colon in an id follows from the fourth part of a key:
the time for an id of one part (`StoreFindsOnePart`), the source for one of two,
the third part of the id for longer ones (`StoreLosesColonIds`).

*Recorder.* `StampsGrow`: the packets of one source carry growing stamps, since
`HandOver` is the only step that stamps and takes a later time than any before.
Hence a record that `SavePacket` replaces could only be the packet's own, which
keeps `FramesKept` and `TrackFromPackets` (every record is a saved packet), both
of the sources with buffers of their own. From the order of the stamps follows
that of the entries, for both sources (`EntriesInOrder`): an entry stands where
its packet came. The caller's buffer is reused, so an entry of the caller's track
may show bytes of a later packet, at the place of its own; about the bytes
`EntriesAreOrdered` therefore speaks only of the other source. The run checks
`ImplementsJournal`, which implies the order of the entries. `CreatedByPacket` says
that a recording is new to the map when its packet creates it, which makes
`FinalizedOnce` inductive. `OneRecording`: before an end is reported, every packet
under way holds the one recording, so its counters are cardinalities of the
packets counted. After an end, a late packet opens another recording:
`EveryCountExact` says of each recording, finalized or not, that it counts just the
packets it was given. For the refinement of `Journal` the records of sources that reuse
their buffer matter too: `KeysFromPackets` says of every record, whatever bytes it
shows, that source and time are those of a saved packet, so the record that a save
would replace does not exist; the bytes come from the packet itself or from a
later one, since the buffer shows the last packet received.

*Liveness.* Four leads-to properties are proved from the fairness of the
specifications. Each proof names the phases of what has to end, shows that no
step leaves a phase but to a later one (`HangupGoesOn`, `RestGoesOn`,
`EndpointGoesOn`, `ClosingGoesOn`), that the fair step of a phase does leave it
(`HangupAdvances` and its like), and chains the phases with the temporal prover.
Fairness obliges a step only while it is possible, and the prover cannot reason
about ENABLED. That the fair step of a phase is possible is therefore the
hypothesis of the four theorems: `RemovalNeverStuck`, `CallNeverStuck`,
`EndpointNeverStuck`, `CloseNeverStuck`, defined beside them. Each says that a
step whose guard holds is possible, which is read off the actions: their guards
are the conditions it names and their other conjuncts only assign. No run spends
a property on that, for it holds by the shape of the definitions; a goroutine that
waits for ever is what the leads-to properties of the runs would show. So the
theorems say that the conclusion follows, for any number of actors, from the
safety of the phases and from fairness; they do not discharge the hypothesis.

Only model-checked, and why:

* `ShutdownTerminates` and `StopTerminates` (a snapshot that gets shorter),
  `FramesLeave` and `RemovalEndsOutput` (a queue that drains): each needs induction
  over the size of data inside a temporal argument;
* `HandedIsSaved`: three fair steps of one goroutine that nobody hinders; apart
  from ENABLED there is nothing to prove.

## 6. Not modelled

* SDP, ICE, STUN, DTLS, the SIP transport and its transactions, JSON, HTTP
  routing, the WebM writer: libraries or formatting. They appear as the choice
  between success and failure.
* The ports of `getPort`: whether two probes return one port is the operating
  system's choice, and the loser answers 500 and keeps nothing.
* Statistics, logging, configuration, start-up, packaging.
* MDBX's own errors, except that a save of audio may fail.
* `recorder.Close`, `ForceFinalize`, `GetRecordingStats`,
  `Bridge.GetSession`, `DeleteUserSession`: nothing calls them.
* The race between `Database.Close` and a transaction that already runs.

## 7. Plan

Done: Registry, Bridge, SipServer, WebRtc; Playback against LossyFifo; Store
against Archive; Recorder against Journal; Rtp; OpenAI; proofs of each. Left: shutdown as one
composition, that is SIP, HTTP, bridge and store in `main`'s order, with the limit
of 10 s, over the two clients of `Registry` at once.
