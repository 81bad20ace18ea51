------------------------------ MODULE SipServer -------------------------------
(***************************************************************************)
(* The SIP server of internal/sip/sip.go as a client of Registry.tla: the  *)
(* endpoint map, the goroutines of INVITE, ACK, BYE and CANCEL, the RTP    *)
(* reader of each call, Stop, and main's order of shutting down.           *)
(*                                                                         *)
(* A member of Endpoints is one SIPEndpoint object, that is one INVITE     *)
(* whose UDP socket could be bound.  A Call-ID keys both s.endpoints and,  *)
(* as the endpoint's id, Bridge.sessions.  Each request is handled by a    *)
(* goroutine of its own, so requests of one call overlap; the handler of   *)
(* an ACK is identified by the BridgeSession it creates.                   *)
(*                                                                         *)
(* Requests are accepted until Stop has returned: its cancellation of the  *)
(* listener reaches the transport at some time in between.                 *)
(***************************************************************************)
EXTENDS Registry

CONSTANTS Endpoints, NoEndpoint

ASSUME SipAssumption ==
  /\ NoEndpoint \notin Endpoints
  /\ NoSession \notin Sessions
  /\ NoId \notin SessionIds

(* Who calls closeEndpoint: the handler of a BYE or CANCEL (at most one    *)
(* finds the endpoint in the map), or Stop.                                *)
Closers == {"bye", "stop"}

VARIABLES
  endpoints,   \* s.endpoints (a sync.Map)
  callID,      \* SIPEndpoint.callID
  invite,      \* program counter of handleInvite
  sock,        \* SIPEndpoint.rtpConn
  active,      \* SIPEndpoint.active
  closed,      \* SIPEndpoint.closed
  cancelled,   \* the context of the endpoint's RTP reader is cancelled
  rtp,         \* goroutine processRTP: "none", "running", "exited"
  session,     \* SIPEndpoint.session
  ack,         \* program counter of the handleAck that owns a session
  owner,       \* the endpoint that handleAck loaded
  closing,     \* program counter of closeEndpoint, by caller
  found,       \* what closeEndpoint read in endpoint.session, till it returns
  stop,        \* program counter of Stop
  stopTodo,    \* Call-IDs its Range did not visit yet
  stopCur,     \* endpoint Stop is closing
  atStop       \* history: endpoints stored when Stop was called

inviteVars == <<callID, invite>>
mediaVars  == <<sock, cancelled, rtp>>
ackVars    == <<session, ack, owner>>
closeVars  == <<closing, found>>
stopVars   == <<stop, stopTodo, stopCur, atStop>>
sipVars    == <<endpoints, active, closed, inviteVars, mediaVars, ackVars,
                closeVars, stopVars>>
allVars    == <<regVars, sipVars>>

SipTypeOK ==
  /\ endpoints \in [SessionIds -> Endpoints \cup {NoEndpoint}]
  /\ callID \in [Endpoints -> SessionIds \cup {NoId}]
  /\ invite \in [Endpoints -> {"idle", "bound", "stored", "running"}]
  /\ sock \in [Endpoints -> {"none", "open", "closed"}]
  /\ active \in [Endpoints -> BOOLEAN]
  /\ closed \in [Endpoints -> BOOLEAN]
  /\ cancelled \in [Endpoints -> BOOLEAN]
  /\ rtp \in [Endpoints -> {"none", "running", "exited"}]
  /\ session \in [Endpoints -> Sessions \cup {NoSession}]
  /\ ack \in [Sessions -> {"idle", "loaded", "creating", "done"}]
  /\ owner \in [Sessions -> Endpoints \cup {NoEndpoint}]
  /\ closing \in [Endpoints -> [Closers -> {"idle", "remove", "removed",
                  "sleeping", "done"}]]
  /\ found \in [Endpoints -> [Closers -> Sessions \cup {NoSession}]]
  /\ stop \in {"serving", "stopping", "stopped"}
  /\ stopTodo \in SUBSET SessionIds
  /\ stopCur \in Endpoints \cup {NoEndpoint}
  /\ atStop \in SUBSET Endpoints
  /\ \A e \in Endpoints : invite[e] = "idle" <=> callID[e] = NoId
  /\ \A s \in Sessions : ack[s] = "idle" <=> owner[s] = NoEndpoint

SipInit ==
  /\ RegInit
  /\ endpoints = [i \in SessionIds |-> NoEndpoint]
  /\ callID = [e \in Endpoints |-> NoId]
  /\ invite = [e \in Endpoints |-> "idle"]
  /\ sock = [e \in Endpoints |-> "none"]
  /\ active = [e \in Endpoints |-> FALSE]
  /\ closed = [e \in Endpoints |-> FALSE]
  /\ cancelled = [e \in Endpoints |-> FALSE]
  /\ rtp = [e \in Endpoints |-> "none"]
  /\ session = [e \in Endpoints |-> NoSession]
  /\ ack = [s \in Sessions |-> "idle"]
  /\ owner = [s \in Sessions |-> NoEndpoint]
  /\ closing = [e \in Endpoints |-> [k \in Closers |-> "idle"]]
  /\ found = [e \in Endpoints |-> [k \in Closers |-> NoSession]]
  /\ stop = "serving"
  /\ stopTodo = {}
  /\ stopCur = NoEndpoint
  /\ atStop = {}

-------------------------------------------------------------------------------
(* handleInvite.  A failure to bind the socket answers 500 and leaves no   *)
(* trace.                                                                  *)

InviteBind(e, i) ==
  /\ stop # "stopped"
  /\ invite[e] = "idle"
  /\ invite' = [invite EXCEPT ![e] = "bound"]
  /\ callID' = [callID EXCEPT ![e] = i]
  /\ sock' = [sock EXCEPT ![e] = "open"]
  /\ UNCHANGED <<regVars, endpoints, active, closed, cancelled, rtp,
                 ackVars, closeVars, stopVars>>

(* After STUN: the endpoint becomes visible, replacing one of the same     *)
(* Call-ID if there is any.                                                *)
InviteStore(e) ==
  /\ invite[e] = "bound"
  /\ invite' = [invite EXCEPT ![e] = "stored"]
  /\ endpoints' = [endpoints EXCEPT ![callID[e]] = e]
  /\ UNCHANGED <<regVars, active, closed, callID, mediaVars, ackVars,
                 closeVars, stopVars>>

(* 200 OK is out; cancel is set and the RTP reader started, even if the    *)
(* call was cancelled in the meantime.                                     *)
InviteStartRtp(e) ==
  /\ invite[e] = "stored"
  /\ invite' = [invite EXCEPT ![e] = "running"]
  /\ rtp' = [rtp EXCEPT ![e] = "running"]
  /\ UNCHANGED <<regVars, endpoints, active, closed, callID, sock, cancelled,
                 ackVars, closeVars, stopVars>>

RtpExitOnCancel(e) ==
  /\ rtp[e] = "running"
  /\ cancelled[e] \/ stop # "serving"
  /\ rtp' = [rtp EXCEPT ![e] = "exited"]
  /\ UNCHANGED <<regVars, endpoints, active, closed, inviteVars, sock, cancelled,
                 ackVars, closeVars, stopVars>>

(* processRTP returns when its context, a child of the server's, is done   *)
(* or the endpoint is marked closed.                                       *)
RtpExit(e) ==
  /\ rtp[e] = "running"
  /\ cancelled[e] \/ stop # "serving" \/ closed[e]
  /\ rtp' = [rtp EXCEPT ![e] = "exited"]
  /\ UNCHANGED <<regVars, endpoints, active, closed, inviteVars, sock, cancelled,
                 ackVars, closeVars, stopVars>>

-------------------------------------------------------------------------------
(* handleAck.  Every ACK that finds the endpoint creates a session.  When  *)
(* CreateSession fails the handler ends; the endpoint stays active.        *)

AckLoad(s, i) ==
  /\ stop # "stopped"
  /\ ack[s] = "idle"
  /\ endpoints[i] # NoEndpoint
  /\ ack' = [ack EXCEPT ![s] = "loaded"]
  /\ owner' = [owner EXCEPT ![s] = endpoints[i]]
  /\ UNCHANGED <<regVars, endpoints, active, closed, inviteVars, mediaVars,
                 session, closeVars, stopVars>>

AckCreateSession(s) ==
  /\ ack[s] = "loaded"
  /\ ack' = [ack EXCEPT ![s] = "creating"]
  /\ active' = [active EXCEPT ![owner[s]] = TRUE]
  /\ BeginCreate(s, callID[owner[s]])
  /\ UNCHANGED <<endpoints, closed, inviteVars, mediaVars, session,
                 owner, closeVars, stopVars>>

AckAssign(s) ==
  /\ ack[s] = "creating"
  /\ status[s] = "registered"
  /\ ack' = [ack EXCEPT ![s] = "done"]
  /\ session' = [session EXCEPT ![owner[s]] = s]
  /\ UNCHANGED <<regVars, endpoints, active, closed, inviteVars, mediaVars, owner,
                 closeVars, stopVars>>

-------------------------------------------------------------------------------
(* closeEndpoint and SIPEndpoint.Close.                                    *)

(* The endpoint is marked inactive and its session read.  This is part of  *)
(* the step that finds the endpoint: whatever comes between the two does   *)
(* not depend on their order.                                              *)
Deactivate(e, k) ==
  /\ active' = [active EXCEPT ![e] = FALSE]
  /\ found' = [found EXCEPT ![e][k] = session[e]]
  /\ closing' = [closing EXCEPT ![e][k] =
                   IF session[e] = NoSession THEN "removed" ELSE "remove"]

CloseRemoveSkips(e, k) ==
  /\ closing[e][k] = "remove"
  /\ closing' = [closing EXCEPT ![e][k] = "removed"]
  /\ UNCHANGED <<regVars, endpoints, active, closed, inviteVars, mediaVars,
                 ackVars, found, stopVars>>

(* RemoveSession(endpoint.id): whatever session holds the Call-ID goes.    *)
CloseRemove(e, k) ==
  /\ closing[e][k] = "remove"
  /\ closing' = [closing EXCEPT ![e][k] = "removed"]
  /\ IF sessions[callID[e]] = NoSession THEN UNCHANGED regVars
                                        ELSE DropSession(callID[e])
  /\ UNCHANGED <<endpoints, active, closed, inviteVars, mediaVars, ackVars,
                 found, stopVars>>

CloseCancelNoSwap(e, k) ==
  /\ closing[e][k] = "removed"
  /\ closing' = [closing EXCEPT ![e][k] = "sleeping"]
  /\ closed' = [closed EXCEPT ![e] = TRUE]
  /\ active' = [active EXCEPT ![e] = FALSE]
  /\ cancelled' = IF invite[e] = "running"
                    THEN [cancelled EXCEPT ![e] = TRUE] ELSE cancelled
  /\ UNCHANGED <<regVars, endpoints, inviteVars, sock, rtp, ackVars, found,
                 stopVars>>

CloseCancelSpins(e, k) ==
  /\ closing[e][k] = "removed"
  /\ ~closed[e]
  /\ closing' = [closing EXCEPT ![e][k] = "sleeping"]
  /\ closed' = [closed EXCEPT ![e] = TRUE]
  /\ active' = [active EXCEPT ![e] = FALSE]
  /\ cancelled' = IF invite[e] = "running"
                    THEN [cancelled EXCEPT ![e] = TRUE] ELSE cancelled
  /\ UNCHANGED <<regVars, endpoints, inviteVars, sock, rtp, ackVars, found,
                 stopVars>>

(* The first closer wins the compare-and-swap; the other one is done.      *)
CloseCancel(e, k) ==
  /\ closing[e][k] = "removed"
  /\ closing' = [closing EXCEPT ![e][k] = IF closed[e] THEN "done"
                                                       ELSE "sleeping"]
  /\ closed' = [closed EXCEPT ![e] = TRUE]
  /\ active' = IF closed[e] THEN active ELSE [active EXCEPT ![e] = FALSE]
  /\ cancelled' = IF ~closed[e] /\ invite[e] = "running"
                    THEN [cancelled EXCEPT ![e] = TRUE] ELSE cancelled
  /\ found' = IF closed[e] THEN [found EXCEPT ![e][k] = NoSession] ELSE found
  /\ UNCHANGED <<regVars, endpoints, inviteVars, sock, rtp, ackVars, stopVars>>

(* 50 ms later the socket is closed.                                       *)
CloseSocket(e, k) ==
  /\ closing[e][k] = "sleeping"
  /\ closing' = [closing EXCEPT ![e][k] = "done"]
  /\ sock' = [sock EXCEPT ![e] = "closed"]
  /\ found' = [found EXCEPT ![e][k] = NoSession]
  /\ UNCHANGED <<regVars, endpoints, active, closed, inviteVars, cancelled, rtp,
                 ackVars, stopVars>>

CloseStep(e, k) ==
  \/ CloseRemove(e, k)
  \/ CloseCancel(e, k)
  \/ CloseSocket(e, k)

(* handleBye and handleCancel take the endpoint out of the map.            *)
ByeLoadAndDelete(i) ==
  /\ stop # "stopped"
  /\ endpoints[i] # NoEndpoint
  /\ endpoints' = [endpoints EXCEPT ![i] = NoEndpoint]
  /\ Deactivate(endpoints[i], "bye")
  /\ UNCHANGED <<regVars, closed, inviteVars, mediaVars, ackVars, stopVars>>

-------------------------------------------------------------------------------
(* Stop closes the endpoints one after the other and leaves them in the    *)
(* map.  Range sees an entry stored meanwhile or not, as it happens.       *)

StopBegin ==
  /\ stop = "serving"
  /\ stop' = "stopping"
  /\ stopTodo' = SessionIds
  /\ atStop' = {e \in Endpoints : invite[e] \in {"stored", "running"}}
  /\ UNCHANGED <<regVars, endpoints, active, closed, inviteVars, mediaVars,
                 ackVars, closeVars, stopCur>>

StopVisit(i) ==
  /\ stop = "stopping"
  /\ stopCur = NoEndpoint
  /\ i \in stopTodo
  /\ stopTodo' = stopTodo \ {i}
  /\ stopCur' = endpoints[i]
  /\ IF endpoints[i] = NoEndpoint THEN UNCHANGED <<active, closeVars>>
                                   ELSE Deactivate(endpoints[i], "stop")
  /\ UNCHANGED <<regVars, endpoints, closed, inviteVars, mediaVars, ackVars,
                 stop, atStop>>

StopVisited ==
  /\ stopCur # NoEndpoint
  /\ closing[stopCur]["stop"] = "done"
  /\ stopCur' = NoEndpoint
  /\ UNCHANGED <<regVars, endpoints, active, closed, inviteVars, mediaVars,
                 ackVars, closeVars, stop, stopTodo, atStop>>

StopReturnEarly ==
  /\ stop = "stopping"
  /\ stopCur = NoEndpoint
  /\ stop' = "stopped"
  /\ UNCHANGED <<regVars, endpoints, active, closed, inviteVars, mediaVars,
                 ackVars, closeVars, stopTodo, stopCur, atStop>>

StopReturn ==
  /\ stop = "stopping"
  /\ stopCur = NoEndpoint
  /\ stopTodo = {}
  /\ stop' = "stopped"
  /\ UNCHANGED <<regVars, endpoints, active, closed, inviteVars, mediaVars,
                 ackVars, closeVars, stopTodo, stopCur, atStop>>

-------------------------------------------------------------------------------
InviteStep(e) == InviteStore(e) \/ InviteStartRtp(e)

AckStep(s) == AckCreateSession(s) \/ AckAssign(s)

Request ==
  \/ \E e \in Endpoints, i \in SessionIds : InviteBind(e, i)
  \/ \E s \in Sessions, i \in SessionIds : AckLoad(s, i)
  \/ \E i \in SessionIds : ByeLoadAndDelete(i)

StopStep ==
  \/ StopBegin
  \/ \E i \in SessionIds : StopVisit(i)
  \/ StopVisited
  \/ StopReturn

(* The goroutines inside the bridge; main shuts it down once Stop has      *)
(* returned.                                                               *)
BridgeStep ==
  /\ \/ \E s \in Sessions : CreateStep(s)
     \/ stop = "stopped" /\ \E i \in SessionIds : DropSession(i)
  /\ UNCHANGED sipVars

SipNext ==
  \/ Request
  \/ \E e \in Endpoints : InviteStep(e) \/ RtpExit(e)
  \/ \E s \in Sessions : AckStep(s)
  \/ \E e \in Endpoints, k \in Closers : CloseStep(e, k)
  \/ StopStep
  \/ BridgeStep

SipSpec == SipInit /\ [][SipNext]_allVars

(* Goroutines run.  Requests, Stop and Shutdown need not come.             *)
CallFairness(e) ==
  /\ WF_allVars(InviteStep(e))
  /\ WF_allVars(RtpExit(e))
  /\ WF_allVars(CloseStep(e, "bye"))
  /\ WF_allVars(CloseStep(e, "stop"))

StopFairness ==
  /\ \A i \in SessionIds : WF_allVars(StopVisit(i))
  /\ WF_allVars(StopVisited)
  /\ WF_allVars(StopReturn)

SipFairness == (\A e \in Endpoints : CallFairness(e)) /\ StopFairness

SipFairSpec == SipSpec /\ SipFairness

-------------------------------------------------------------------------------
(* PROPERTIES                                                              *)

(* The session closeEndpoint read in the endpoint is out of the bridge     *)
(* before the endpoint is marked closed, even when the Call-ID was taken   *)
(* over by another call in the meantime and whoever else removed it.       *)
FoundRemovedFirst ==
  \A e \in Endpoints, k \in Closers :
    closing[e][k] \in {"removed", "sleeping"} /\ found[e][k] # NoSession
      => ~Registered(found[e][k])

Visible == {"stored", "running"}     \* endpoints that were in the map

(* When Stop has returned, every endpoint that was stored when it was      *)
(* called has been closed or is being closed by a BYE or CANCEL, unless    *)
(* the endpoint of another INVITE with its Call-ID was stored too, which   *)
(* takes the map's only entry.                                             *)
StopClosesUnlessReplaced ==
  stop = "stopped" =>
    \A e \in atStop :
      \/ closed[e]
      \/ closing[e]["bye"] # "idle"
      \/ \E f \in Endpoints \ {e} : callID[f] = callID[e] /\ invite[f] \in Visible

(* A socket is closed once, by the closer that marked the endpoint closed, *)
(* and until then no closer is past that mark.                             *)
OneCloserCloses ==
  \A e \in Endpoints :
    /\ ~(closing[e]["bye"] = "sleeping" /\ closing[e]["stop"] = "sleeping")
    /\ closed[e] /\ sock[e] = "open" =>
         \E k \in Closers : closing[e][k] = "sleeping"

(* After BYE or CANCEL the UDP port is given back and the RTP reader ends, *)
(* also when the request overtook the INVITE handler and found no cancel   *)
(* function to call.                                                       *)
HangupReleases ==
  \A e \in Endpoints :
    closing[e]["bye"] # "idle" ~> sock[e] = "closed" /\ rtp[e] = "exited"

(* Stop returns, whatever calls come and go while it runs.                 *)
StopTerminates == (stop = "stopping") ~> (stop = "stopped")

(* What closeEndpoint is written for: remove the session from the bridge   *)
(* first, then close the endpoint, so that a closed endpoint has no        *)
(* session in the bridge.  Fails when a BYE arrives while the ACK handler  *)
(* is still in CreateSession.                                              *)
ClosedHasNoSession ==
  \A e \in Endpoints, s \in Sessions :
    closed[e] /\ owner[s] = e => ~Registered(s)
===============================================================================
