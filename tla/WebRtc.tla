-------------------------------- MODULE WebRtc --------------------------------
(***************************************************************************)
(* The WebSocket endpoints of internal/webrtc/webrtc.go as a second client *)
(* of Registry.tla, with the part of main's shutdown that concerns them:   *)
(* the HTTP server stops listening and waits up to five seconds for the    *)
(* requests it has, then the bridge is shut down, whether they were served *)
(* or not.  Nobody closes the endpoints: an upgraded connection is not the *)
(* server's.                                                               *)
(*                                                                         *)
(* A member of Sockets is one WebRTCEndpoint, that is one upgraded         *)
(* connection.  Its goroutines are HandleWebSocket (variable serve),       *)
(* handleMessages (handler) and the bridge's output goroutine inside       *)
(* SendOpusFrame (sending); handleIncomingAudio hands packets to the       *)
(* bridge and changes nothing here.  Peer connections are numbered by the  *)
(* offer they answer.                                                      *)
(*                                                                         *)
(* Close holds e.mu from its check of isClosed to its end, SendOpusFrame   *)
(* holds it for reading while it writes.                                   *)
(***************************************************************************)
EXTENDS Registry, Naturals

CONSTANTS
  Sockets,      \* WebRTCEndpoint objects
  NoSocket,     \* absent entry of s.endpoints
  MaxOffers     \* bound: offers of any two clients together

ASSUME WebRtcAssumption ==
  /\ NoSocket \notin Sockets
  /\ NoSession \notin Sessions
  /\ NoId \notin SessionIds
  /\ MaxOffers \in Nat

Peers == 1..MaxOffers

VARIABLES
  endpoints,  \* WebRTCService.endpoints
  id,         \* WebRTCEndpoint.id
  serve,      \* program counter of HandleWebSocket
  creates,    \* the session its CreateSession call makes
  session,    \* WebRTCEndpoint.session
  handler,    \* program counter of handleMessages
  client,     \* whether the client's side of the WebSocket is there
  closeAt,    \* program counter of Close
  isClosed,   \* WebRTCEndpoint.isClosed
  peer,       \* WebRTCEndpoint.peerConnection, 0 is nil
  peers,      \* state of every peer connection of the endpoint
  sending,    \* SendOpusFrame is in WriteSample and holds e.mu for reading
  main,       \* main's shutdown
  shutTodo,   \* ids of Bridge.Shutdown's snapshot still to be removed
  unanswered, \* history: requests httpServer.Shutdown gave up waiting for
  underway    \* history: endpoints without a session yet at the snapshot

serviceVars == <<endpoints, id, serve, creates, session>>
wsVars      == <<handler, client>>
closeVars   == <<closeAt, isClosed>>
mediaVars   == <<peer, peers, sending>>
mainVars    == <<main, shutTodo, unanswered, underway>>
allVars     == <<regVars, serviceVars, wsVars, closeVars, mediaVars, mainVars>>

WsTypeOK ==
  /\ endpoints \in [SessionIds -> Sockets \cup {NoSocket}]
  /\ id \in [Sockets -> SessionIds \cup {NoId}]
  /\ serve \in [Sockets -> {"idle", "requested", "stored", "creating", "failed",
                            "waiting", "returned"}]
  /\ creates \in [Sockets -> Sessions \cup {NoSession}]
  /\ session \in [Sockets -> Sessions \cup {NoSession}]
  /\ handler \in [Sockets -> {"none", "reading", "offering", "leaving"}]
  /\ client \in [Sockets -> {"none", "connected", "gone"}]
  /\ closeAt \in [Sockets -> {"no", "remove", "media", "done"}]
  /\ isClosed \in [Sockets -> BOOLEAN]
  /\ peer \in [Sockets -> 0..MaxOffers]
  /\ peers \in [Sockets -> [Peers -> {"none", "offered", "open", "closed"}]]
  /\ sending \in [Sockets -> BOOLEAN]
  /\ main \in {"serving", "draining", "http_down", "looping", "done"}
  /\ shutTodo \in SUBSET SessionIds
  /\ unanswered \in SUBSET Sockets
  /\ underway \in SUBSET Sockets

WsInit ==
  /\ RegInit
  /\ endpoints = [i \in SessionIds |-> NoSocket]
  /\ id = [w \in Sockets |-> NoId]
  /\ serve = [w \in Sockets |-> "idle"]
  /\ creates = [w \in Sockets |-> NoSession]
  /\ session = [w \in Sockets |-> NoSession]
  /\ handler = [w \in Sockets |-> "none"]
  /\ client = [w \in Sockets |-> "none"]
  /\ closeAt = [w \in Sockets |-> "no"]
  /\ isClosed = [w \in Sockets |-> FALSE]
  /\ peer = [w \in Sockets |-> 0]
  /\ peers = [w \in Sockets |-> [n \in Peers |-> "none"]]
  /\ sending = [w \in Sockets |-> FALSE]
  /\ main = "serving"
  /\ shutTodo = {}
  /\ unanswered = {}
  /\ underway = {}

-------------------------------------------------------------------------------
(* HandleWebSocket.                                                        *)

(* The HTTP server has a connection: its request comes now or later.       *)
Arrive(w) ==
  /\ main = "serving"
  /\ serve[w] = "idle"
  /\ serve' = [serve EXCEPT ![w] = "requested"]
  /\ UNCHANGED <<regVars, endpoints, id, creates, session, wsVars, closeVars,
                 mediaVars, mainVars>>

(* No upgrade: the request is not one for a WebSocket, is malformed or     *)
(* never comes.                                                            *)
Refuse(w) ==
  /\ serve[w] = "requested"
  /\ serve' = [serve EXCEPT ![w] = "idle"]
  /\ UNCHANGED <<regVars, endpoints, id, creates, session, wsVars, closeVars,
                 mediaVars, mainVars>>

(* The connection is upgraded and the endpoint stored under the time in    *)
(* nanoseconds, which no other endpoint has.  Where main stands does not   *)
(* matter to a handler that runs.                                          *)
Accept(w, i) ==
  /\ serve[w] = "requested"
  /\ \A v \in Sockets : id[v] # i
  /\ serve' = [serve EXCEPT ![w] = "stored"]
  /\ id' = [id EXCEPT ![w] = i]
  /\ endpoints' = [endpoints EXCEPT ![i] = w]
  /\ client' = [client EXCEPT ![w] = "connected"]
  /\ UNCHANGED <<regVars, creates, session, handler, closeVars, mediaVars,
                 mainVars>>

BeginSessionServes(w, s) ==
  /\ serve[w] = "stored"
  /\ BeginCreate(s, id[w])
  /\ serve' = [serve EXCEPT ![w] = "creating"]
  /\ creates' = [creates EXCEPT ![w] = s]
  /\ handler' = [handler EXCEPT ![w] = "reading"]
  /\ UNCHANGED <<endpoints, id, session, client, closeVars, mediaVars, mainVars>>

BeginSession(w, s) ==
  /\ serve[w] = "stored"
  /\ BeginCreate(s, id[w])
  /\ serve' = [serve EXCEPT ![w] = "creating"]
  /\ creates' = [creates EXCEPT ![w] = s]
  /\ UNCHANGED <<endpoints, id, session, wsVars, closeVars, mediaVars, mainVars>>

(* CreateSession returned an error: Close follows, then the return.        *)
SessionFailed(w) ==
  /\ serve[w] = "creating"
  /\ status[creates[w]] = "failed"
  /\ serve' = [serve EXCEPT ![w] = "failed"]
  /\ UNCHANGED <<regVars, endpoints, id, creates, session, wsVars, closeVars,
                 mediaVars, mainVars>>

ReturnFailed(w) ==
  /\ serve[w] = "failed"
  /\ closeAt[w] = "done"
  /\ serve' = [serve EXCEPT ![w] = "returned"]
  /\ UNCHANGED <<regVars, endpoints, id, creates, session, wsVars, closeVars,
                 mediaVars, mainVars>>

(* Only now is the WebSocket read: a client that left in the meantime is   *)
(* noticed here.                                                           *)
AssignSession(w) ==
  /\ serve[w] = "creating"
  /\ status[creates[w]] = "registered"
  /\ serve' = [serve EXCEPT ![w] = "waiting"]
  /\ session' = [session EXCEPT ![w] = creates[w]]
  /\ handler' = [handler EXCEPT ![w] = "reading"]
  /\ UNCHANGED <<regVars, endpoints, id, creates, client, closeVars, mediaVars,
                 mainVars>>

RemoveEndpointKeepsEntry(w) ==
  /\ serve[w] = "waiting"
  /\ closeAt[w] = "done"
  /\ serve' = [serve EXCEPT ![w] = "returned"]
  /\ UNCHANGED <<regVars, endpoints, id, creates, session, wsVars, closeVars,
                 mediaVars, mainVars>>

(* ctx is done, removeEndpoint deletes the entry.  Its own call of Close   *)
(* finds isClosed set.                                                     *)
RemoveEndpoint(w) ==
  /\ serve[w] = "waiting"
  /\ closeAt[w] = "done"
  /\ serve' = [serve EXCEPT ![w] = "returned"]
  /\ endpoints' = [endpoints EXCEPT ![id[w]] = NoSocket]
  /\ UNCHANGED <<regVars, id, creates, session, wsVars, closeVars, mediaVars,
                 mainVars>>

-------------------------------------------------------------------------------
(* handleMessages.  A message of another type and a candidate that is      *)
(* accepted change nothing.                                                *)

(* handleOffer: a new peer connection takes the field, the one before is   *)
(* not closed.  An offer sent before the client left is still read.        *)
OfferPeer(w) ==
  /\ handler[w] = "reading"
  /\ peer[w] < MaxOffers
  /\ \A v \in Sockets \ {w} : peer[v] + peer[w] < MaxOffers
  /\ ~sending[w]
  /\ handler' = [handler EXCEPT ![w] = "offering"]
  /\ peer' = [peer EXCEPT ![w] = @ + 1]
  /\ peers' = [peers EXCEPT ![w][peer[w] + 1] = "offered"]
  /\ UNCHANGED <<regVars, serviceVars, client, closeVars, sending,
                 mainVars>>

(* Local track, callbacks and descriptions are set, the answer is out.     *)
OfferAnswer(w) ==
  /\ handler[w] = "offering"
  /\ handler' = [handler EXCEPT ![w] = "reading"]
  /\ peers' = [peers EXCEPT ![w][peer[w]] = "open"]
  /\ UNCHANGED <<regVars, serviceVars, client, closeVars, peer, sending,
                 mainVars>>

(* The read fails, a message is malformed, a candidate precedes every      *)
(* offer, or a step of handleOffer fails.                                  *)
Leave(w) ==
  /\ handler[w] \in {"reading", "offering"}
  /\ handler' = [handler EXCEPT ![w] = "leaving"]
  /\ UNCHANGED <<regVars, serviceVars, client, closeVars, mediaVars, mainVars>>

-------------------------------------------------------------------------------
(* Close, deferred by handleMessages or called after a failed              *)
(* CreateSession.                                                          *)

(* e.mu is taken once no frame is being written.                           *)
CloseBegin(w) ==
  /\ handler[w] = "leaving" \/ serve[w] = "failed"
  /\ closeAt[w] = "no"
  /\ ~sending[w]
  /\ isClosed' = [isClosed EXCEPT ![w] = TRUE]
  /\ closeAt' = [closeAt EXCEPT ![w] =
                   IF session[w] = NoSession THEN "media" ELSE "remove"]
  /\ UNCHANGED <<regVars, serviceVars, wsVars, mediaVars, mainVars>>

(* RemoveSession(e.session.GetID()).                                       *)
CloseRemove(w) ==
  /\ closeAt[w] = "remove"
  /\ closeAt' = [closeAt EXCEPT ![w] = "media"]
  /\ IF sessions[id[w]] = NoSession THEN UNCHANGED regVars
                                    ELSE DropSession(id[w])
  /\ UNCHANGED <<serviceVars, wsVars, isClosed, mediaVars, mainVars>>

CloseMediaKeepsPeer(w) ==
  /\ closeAt[w] = "media"
  /\ closeAt' = [closeAt EXCEPT ![w] = "done"]
  /\ UNCHANGED <<regVars, serviceVars, wsVars, isClosed, mediaVars, mainVars>>

CloseMediaNeedsPeer(w) ==
  /\ closeAt[w] = "media"
  /\ peer[w] # 0
  /\ closeAt' = [closeAt EXCEPT ![w] = "done"]
  /\ peers' = [peers EXCEPT ![w][peer[w]] = "closed"]
  /\ UNCHANGED <<regVars, serviceVars, wsVars, isClosed, peer, sending,
                 mainVars>>

(* The peer connection of the field and the WebSocket are closed, ctx is   *)
(* cancelled and e.mu released.                                            *)
CloseMedia(w) ==
  /\ closeAt[w] = "media"
  /\ closeAt' = [closeAt EXCEPT ![w] = "done"]
  /\ peers' = [peers EXCEPT ![w] = [n \in Peers |->
                 IF n = peer[w] THEN "closed" ELSE peers[w][n]]]
  /\ UNCHANGED <<regVars, serviceVars, wsVars, isClosed, peer, sending,
                 mainVars>>

-------------------------------------------------------------------------------
(* Audio.                                                                  *)

(* processOpusOutput has a frame, from the registration on and possibly    *)
(* once after the removal.  Before the first offer there is no local track *)
(* and the frame is refused, as it is once isClosed is set.                *)
SendBegin(w) ==
  /\ creates[w] # NoSession
  /\ status[creates[w]] = "registered"
  /\ closeAt[w] \notin {"remove", "media"}
  /\ ~isClosed[w]
  /\ peer[w] # 0
  /\ sending' = [sending EXCEPT ![w] = TRUE]
  /\ UNCHANGED <<regVars, serviceVars, wsVars, closeVars, peer, peers, mainVars>>

SendEnd(w) ==
  /\ sending[w]
  /\ sending' = [sending EXCEPT ![w] = FALSE]
  /\ UNCHANGED <<regVars, serviceVars, wsVars, closeVars, peer, peers, mainVars>>

-------------------------------------------------------------------------------
(* The environment, and main's shutdown.                                   *)

ClientLeaves(w) ==
  /\ client[w] = "connected"
  /\ client' = [client EXCEPT ![w] = "gone"]
  /\ UNCHANGED <<regVars, serviceVars, handler, closeVars, mediaVars, mainVars>>

(* What CreateSession does inside the bridge.                              *)
BridgeStep(w) ==
  /\ serve[w] = "creating"
  /\ CreateStep(creates[w])
  /\ UNCHANGED <<serviceVars, wsVars, closeVars, mediaVars, mainVars>>

Requested == {w \in Sockets : serve[w] = "requested"}

(* httpServer.Shutdown: no new connections from here on.                   *)
HttpShutdown ==
  /\ main = "serving"
  /\ main' = "draining"
  /\ UNCHANGED <<regVars, serviceVars, wsVars, closeVars, mediaVars, shutTodo,
                 unanswered, underway>>

(* It returns once no connection is left that was not upgraded...          *)
HttpDrained ==
  /\ main = "draining"
  /\ Requested = {}
  /\ main' = "http_down"
  /\ UNCHANGED <<regVars, serviceVars, wsVars, closeVars, mediaVars, shutTodo,
                 unanswered, underway>>

(* ...or after five seconds with an error, which is only logged.  Handlers *)
(* of requests it waited for run on.                                       *)
HttpTimeout ==
  /\ main = "draining"
  /\ main' = "http_down"
  /\ unanswered' = Requested
  /\ UNCHANGED <<regVars, serviceVars, wsVars, closeVars, mediaVars, shutTodo,
                 underway>>

WithoutSession == {w \in Sockets :
  \/ serve[w] = "stored"
  \/ serve[w] = "creating" /\ status[creates[w]] = "creating"}

ShutdownBeginFirst ==
  /\ main = "serving"
  /\ main' = "looping"
  /\ shutTodo' = {i \in SessionIds : sessions[i] # NoSession}
  /\ unanswered' = unanswered \cap Requested
  /\ underway' = WithoutSession
  /\ UNCHANGED <<regVars, serviceVars, wsVars, closeVars, mediaVars>>

(* Bridge.Shutdown takes its snapshot.                                     *)
ShutdownBegin ==
  /\ main = "http_down"
  /\ main' = "looping"
  /\ shutTodo' = {i \in SessionIds : sessions[i] # NoSession}
  /\ unanswered' = unanswered \cap Requested
  /\ underway' = WithoutSession
  /\ UNCHANGED <<regVars, serviceVars, wsVars, closeVars, mediaVars>>

ShutdownRemove(i) ==
  /\ main = "looping"
  /\ i \in shutTodo
  /\ shutTodo' = shutTodo \ {i}
  /\ IF sessions[i] = NoSession THEN UNCHANGED regVars ELSE DropSession(i)
  /\ UNCHANGED <<serviceVars, wsVars, closeVars, mediaVars, main, unanswered,
                 underway>>

ShutdownDone ==
  /\ main = "looping"
  /\ shutTodo = {}
  /\ main' = "done"
  /\ UNCHANGED <<regVars, serviceVars, wsVars, closeVars, mediaVars, shutTodo,
                 unanswered, underway>>

-------------------------------------------------------------------------------
ServeStep(w) ==
  \/ SessionFailed(w)
  \/ ReturnFailed(w)
  \/ AssignSession(w)
  \/ RemoveEndpoint(w)

CloseStep(w) ==
  \/ CloseBegin(w)
  \/ CloseRemove(w)
  \/ CloseMedia(w)

HandlerStep(w) ==
  \/ OfferPeer(w)
  \/ OfferAnswer(w)
  \/ Leave(w)

AudioStep(w) ==
  \/ SendBegin(w)
  \/ SendEnd(w)

MainStep ==
  \/ HttpShutdown
  \/ HttpDrained
  \/ HttpTimeout
  \/ ShutdownBegin
  \/ \E i \in SessionIds : ShutdownRemove(i)
  \/ ShutdownDone

WsNext ==
  \/ \E w \in Sockets :
       \/ Arrive(w)
       \/ Refuse(w)
       \/ \E i \in SessionIds : Accept(w, i)
       \/ \E s \in Sessions : BeginSession(w, s)
       \/ BridgeStep(w)
       \/ ServeStep(w)
       \/ CloseStep(w)
       \/ HandlerStep(w)
       \/ AudioStep(w)
       \/ ClientLeaves(w)
  \/ MainStep

WsSpec == WsInit /\ [][WsNext]_allVars

(* Goroutines run; Connect returns; a WebSocket whose client is gone fails *)
(* to be read, for the server keeps TCP alive; an audio write ends.  A     *)
(* writer that waits for e.mu keeps new readers out, hence strong fairness *)
(* for taking it.                                                          *)
Creates(w) == \E s \in Sessions : BeginSession(w, s)

LeavesAsGone(w) == client[w] = "gone" /\ Leave(w)

CloseGoesOn(w) == CloseRemove(w) \/ CloseMedia(w)

SocketFairness(w) ==
  /\ WF_allVars(Creates(w))
  /\ WF_allVars(BridgeStep(w))
  /\ WF_allVars(ServeStep(w))
  /\ WF_allVars(LeavesAsGone(w))
  /\ SF_allVars(CloseBegin(w))
  /\ WF_allVars(CloseGoesOn(w))
  /\ WF_allVars(SendEnd(w))

WsFairness == \A w \in Sockets : SocketFairness(w)

WsFairSpec == WsSpec /\ WsFairness

-------------------------------------------------------------------------------
(* PROPERTIES                                                              *)

(* Unlike a SIP endpoint, a closed WebSocket endpoint has no session in    *)
(* the bridge, whenever the client left: nobody can call Close between the *)
(* start of CreateSession and the assignment of its result, and the id is  *)
(* no one else's.                                                          *)
ClosedHasNoSession ==
  \A w \in Sockets :
    closeAt[w] \in {"media", "done"} /\ creates[w] # NoSession
      => ~Registered(creates[w])

(* HandleWebSocket leaves an entry in s.endpoints behind when, and only    *)
(* when, its CreateSession failed.                                         *)
EntryLeftOnlyByFailure ==
  \A w \in Sockets :
    serve[w] = "returned"
      => (endpoints[id[w]] = w <=> session[w] = NoSession)

(* A closed endpoint has no open peer connection but those that a later    *)
(* offer of the same client replaced in the field.                         *)
PeerLeakOnlyByRenegotiation ==
  \A w \in Sockets, n \in Peers :
    closeAt[w] = "done" /\ peers[w][n] \in {"offered", "open"} => n < peer[w]

(* When Bridge.Shutdown has returned, the sessions still registered are    *)
(* those of endpoints whose CreateSession had not come to the map at the   *)
(* snapshot, and of requests that were still not upgraded by then although *)
(* the HTTP server had been given five seconds for them: none, if its      *)
(* shutdown returned without an error.                                     *)
ShutdownLeavesOnlyUnderway ==
  main = "done" =>
    \A w \in Sockets :
      creates[w] # NoSession /\ Registered(creates[w])
        => w \in underway \cup unanswered

(* When the client of an endpoint is gone, HandleWebSocket returns and the *)
(* session is out of the bridge, also if the client left during            *)
(* CreateSession.                                                          *)
DisconnectReleases ==
  \A w \in Sockets :
    client[w] = "gone" ~>
      /\ serve[w] = "returned"
      /\ creates[w] # NoSession => ~Registered(creates[w])
===============================================================================
