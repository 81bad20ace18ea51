----------------------------- MODULE WebRtcProofs -----------------------------
(***************************************************************************)
(* Proofs that the safety properties of WebRtc.tla hold for every set of   *)
(* connections and sessions and any number of offers.                      *)
(***************************************************************************)
EXTENDS WebRtc, TLAPS

(* The registry maps an id to a registered object of that id.              *)
RegInv ==
  /\ RegTypeOK
  /\ \A i \in SessionIds :
       sessions[i] # NoSession =>
         sid[sessions[i]] = i /\ status[sessions[i]] = "registered"

(* Ids are never shared, and an endpoint is stored under its id until      *)
(* HandleWebSocket returns.                                                *)
IdInv ==
  /\ \A w \in Sockets : serve[w] \in {"idle", "requested"} <=> id[w] = NoId
  /\ \A v, w \in Sockets : id[v] = id[w] /\ id[w] # NoId => v = w
  /\ \A w \in Sockets :
       serve[w] \notin {"idle", "requested", "returned"} => endpoints[id[w]] = w
  /\ EntryLeftOnlyByFailure

(* How the session HandleWebSocket creates becomes the endpoint's.         *)
SessionInv ==
  \A w \in Sockets :
    /\ creates[w] = NoSession <=> serve[w] \in {"idle", "requested", "stored"}
    /\ creates[w] # NoSession =>
         sid[creates[w]] = id[w] /\ status[creates[w]] # "idle"
    /\ serve[w] \in {"idle", "requested", "stored", "creating", "failed"} =>
         session[w] = NoSession /\ handler[w] = "none"
    /\ serve[w] = "failed" => status[creates[w]] = "failed"
    /\ serve[w] = "waiting" =>
         session[w] = creates[w] /\ status[creates[w]] = "registered"

(* Close comes when CreateSession is over, and HandleWebSocket waits for   *)
(* it.                                                                     *)
CloseInv ==
  /\ \A w \in Sockets :
       /\ closeAt[w] # "no" =>
            /\ serve[w] \in {"failed", "waiting", "returned"}
            /\ handler[w] \in {"none", "leaving"}
            /\ status[creates[w]] \in {"failed", "registered"}
       /\ serve[w] = "returned" => closeAt[w] = "done"
  /\ ClosedHasNoSession

(* Peer connections are opened in the order of their numbers.              *)
PeerInv ==
  /\ PeerLeakOnlyByRenegotiation
  /\ \A w \in Sockets, n \in Peers :
       peers[w][n] \in {"offered", "open"} => n <= peer[w]

(* A session that did not come too late for the snapshot of Shutdown is in *)
(* it, or out of the bridge.  A request the HTTP server did not give up on *)
(* was answered before the bridge is shut down, and none comes after it.   *)
ShutInv ==
  /\ main \in {"looping", "done"} =>
       \A w \in Sockets \ (underway \cup unanswered) :
         /\ serve[w] \notin {"requested", "stored"}
         /\ creates[w] # NoSession =>
              /\ status[creates[w]] # "creating"
              /\ Registered(creates[w]) => id[w] \in shutTodo
  /\ main = "http_down" =>
       \A w \in Sockets \ unanswered : serve[w] # "requested"
  /\ main = "done" => shutTodo = {}

IInv ==
  /\ WsTypeOK
  /\ RegInv
  /\ IdInv
  /\ SessionInv
  /\ CloseInv
  /\ PeerInv
  /\ ShutInv

-------------------------------------------------------------------------------
(* Initially there is no connection.                                       *)
LEMMA Starts == WsInit => IInv
<1> SUFFICES ASSUME WsInit PROVE IInv
  OBVIOUS
<1> USE DEF WsInit, RegInit
<1>1. WsTypeOK
  BY WebRtcAssumption DEF WsTypeOK, Peers
<1>2. RegInv
  BY DEF RegInv, RegTypeOK, Statuses
<1>3. IdInv
  BY DEF IdInv, EntryLeftOnlyByFailure
<1>4. SessionInv /\ CloseInv /\ PeerInv
  BY DEF SessionInv, CloseInv, ClosedHasNoSession, PeerInv,
         PeerLeakOnlyByRenegotiation
<1>5. ShutInv
  BY DEF ShutInv
<1> QED BY <1>1, <1>2, <1>3, <1>4, <1>5 DEF IInv

(* What each part of the invariant depends on.                             *)
LEMMA Frames ==
  ASSUME IInv
  PROVE  /\ UNCHANGED regVars => RegInv'
         /\ UNCHANGED <<endpoints, id, serve, session>> => IdInv'
         /\ UNCHANGED <<sid, status, id, serve, creates, session, handler>>
              => SessionInv'
         /\ UNCHANGED <<sessions, status, serve, creates, handler, closeAt>>
              => CloseInv'
         /\ UNCHANGED <<closeAt, peer, peers>> => PeerInv'
         /\ UNCHANGED <<sessions, status, id, serve, creates, main, shutTodo,
                        unanswered, underway>> => ShutInv'
<1> USE DEF IInv
<1>1. UNCHANGED regVars => RegInv'
  BY DEF RegInv, RegTypeOK, regVars
<1>2. UNCHANGED <<endpoints, id, serve, session>> => IdInv'
  BY DEF IdInv, EntryLeftOnlyByFailure
<1>3. UNCHANGED <<sid, status, id, serve, creates, session, handler>>
        => SessionInv'
  BY DEF SessionInv
<1>4. UNCHANGED <<sessions, status, serve, creates, handler, closeAt>>
        => CloseInv'
  BY DEF CloseInv, ClosedHasNoSession, Registered
<1>5. UNCHANGED <<closeAt, peer, peers>> => PeerInv'
  BY DEF PeerInv, PeerLeakOnlyByRenegotiation
<1>6. UNCHANGED <<sessions, status, id, serve, creates, main, shutTodo,
                  unanswered, underway>> => ShutInv'
  BY DEF ShutInv, Registered
<1> QED BY <1>1, <1>2, <1>3, <1>4, <1>5, <1>6

(* A session of an endpoint is registered under the endpoint's id or not   *)
(* at all.                                                                 *)
LEMMA RegisteredAtId ==
  ASSUME IInv, NEW w \in Sockets, creates[w] # NoSession
  PROVE  /\ creates[w] \in Sessions /\ id[w] \in SessionIds
         /\ Registered(creates[w]) <=> sessions[id[w]] = creates[w]
         /\ Registered(creates[w]) => status[creates[w]] = "registered"
         /\ \A v \in Sockets : creates[v] = creates[w] => v = w
<1>1. creates[w] \in Sessions /\ id[w] \in SessionIds /\ sid[creates[w]] = id[w]
  <2>1. serve[w] \notin {"idle", "requested"}
    BY DEF IInv, SessionInv
  <2> QED BY <2>1 DEF IInv, WsTypeOK, SessionInv, IdInv
<1>2. \A i \in SessionIds : sessions[i] = creates[w] =>
        i = id[w] /\ status[creates[w]] = "registered"
  BY <1>1, WebRtcAssumption DEF IInv, RegInv
<1>3. \A v \in Sockets : creates[v] = creates[w] => v = w
  BY <1>1, WebRtcAssumption DEF IInv, SessionInv, IdInv
<1> QED BY <1>1, <1>2, <1>3 DEF Registered

-------------------------------------------------------------------------------
(* A request comes while the server listens, and is answered or not.       *)
LEMMA RequestKeeps ==
  ASSUME IInv, NEW w \in Sockets, Arrive(w) \/ Refuse(w)
  PROVE  IInv'
<1> USE DEF serviceVars, wsVars, closeVars, mediaVars, mainVars, regVars
<1>0. /\ serve[w] \in {"idle", "requested"} /\ main' = main
      /\ \/ serve' = [serve EXCEPT ![w] = "idle"]
         \/ serve' = [serve EXCEPT ![w] = "requested"] /\ main = "serving"
      /\ UNCHANGED <<regVars, endpoints, id, creates, session, wsVars, closeVars,
                     mediaVars, mainVars>>
  BY DEF Arrive, Refuse
<1>1. WsTypeOK'
  BY <1>0, WebRtcAssumption DEF IInv, WsTypeOK
<1>2. RegInv' /\ PeerInv'
  BY <1>0, Frames
<1>3. IdInv'
  BY <1>0 DEF IInv, WsTypeOK, IdInv, EntryLeftOnlyByFailure
<1>4. SessionInv'
  BY <1>0 DEF IInv, WsTypeOK, SessionInv
<1>5. CloseInv'
  BY <1>0 DEF IInv, WsTypeOK, CloseInv, ClosedHasNoSession, Registered
<1>6. ShutInv'
  BY <1>0 DEF IInv, WsTypeOK, ShutInv, Registered
<1> QED BY <1>1, <1>2, <1>3, <1>4, <1>5, <1>6 DEF IInv

(* A new connection takes an unused id and an entry of its own.            *)
LEMMA AcceptKeeps ==
  ASSUME IInv, NEW w \in Sockets, NEW i \in SessionIds, Accept(w, i)
  PROVE  IInv'
<1> USE DEF serviceVars, wsVars, closeVars, mediaVars, mainVars, regVars
<1>1. WsTypeOK'
  BY WebRtcAssumption DEF Accept, IInv, WsTypeOK
<1>2. RegInv' /\ PeerInv'
  BY Frames DEF Accept
<1>3. IdInv'
  BY WebRtcAssumption DEF Accept, IInv, WsTypeOK, IdInv, EntryLeftOnlyByFailure
<1>4. SessionInv'
  BY DEF Accept, IInv, WsTypeOK, SessionInv
<1>5. CloseInv'
  BY DEF Accept, IInv, WsTypeOK, CloseInv, ClosedHasNoSession, Registered
<1>6. ShutInv'
  BY DEF Accept, IInv, WsTypeOK, SessionInv, ShutInv, Registered
<1> QED BY <1>1, <1>2, <1>3, <1>4, <1>5, <1>6 DEF IInv

(* CreateSession begins with an object nobody else has.                    *)
LEMMA BeginSessionKeeps ==
  ASSUME IInv, NEW w \in Sockets, NEW s \in Sessions, BeginSession(w, s)
  PROVE  IInv'
<1> USE DEF serviceVars, wsVars, closeVars, mediaVars, mainVars, regVars
<1>1. WsTypeOK'
  BY WebRtcAssumption DEF BeginSession, IInv, WsTypeOK
<1>2. PeerInv'
  BY Frames DEF BeginSession
<1>3. RegInv'
  BY DEF BeginSession, BeginCreate, IInv, RegInv, RegTypeOK, Statuses, WsTypeOK
<1>4. IdInv'
  BY DEF BeginSession, IInv, WsTypeOK, IdInv, EntryLeftOnlyByFailure
<1>5. SessionInv'
  BY WebRtcAssumption
     DEF BeginSession, BeginCreate, IInv, RegInv, RegTypeOK, WsTypeOK, SessionInv
<1>6. CloseInv'
  BY WebRtcAssumption
     DEF BeginSession, BeginCreate, IInv, RegInv, RegTypeOK, WsTypeOK, SessionInv,
         CloseInv, ClosedHasNoSession, Registered
<1>7. ShutInv'
  BY WebRtcAssumption
     DEF BeginSession, BeginCreate, IInv, RegInv, RegTypeOK, WsTypeOK, SessionInv,
         ShutInv, Registered
<1> QED BY <1>1, <1>2, <1>3, <1>4, <1>5, <1>6, <1>7 DEF IInv

(* CreateSession failed.                                                   *)
LEMMA SessionFailedKeeps ==
  ASSUME IInv, NEW w \in Sockets, SessionFailed(w)
  PROVE  IInv'
<1> USE DEF serviceVars, wsVars, closeVars, mediaVars, mainVars, regVars
<1>1. WsTypeOK'
  BY WebRtcAssumption DEF SessionFailed, IInv, WsTypeOK
<1>2. RegInv' /\ PeerInv'
  BY Frames DEF SessionFailed
<1>3. IdInv'
  BY WebRtcAssumption
     DEF SessionFailed, IInv, WsTypeOK, IdInv, EntryLeftOnlyByFailure,
         SessionInv, CloseInv
<1>4. SessionInv'
  BY DEF SessionFailed, IInv, WsTypeOK, SessionInv
<1>5. CloseInv'
  BY DEF SessionFailed, IInv, WsTypeOK, SessionInv, CloseInv,
         ClosedHasNoSession, Registered
<1>6. ShutInv'
  BY DEF SessionFailed, IInv, WsTypeOK, ShutInv, Registered
<1> QED BY <1>1, <1>2, <1>3, <1>4, <1>5, <1>6 DEF IInv

(* The endpoint is closed, the entry stays.                                *)
LEMMA ReturnFailedKeeps ==
  ASSUME IInv, NEW w \in Sockets, ReturnFailed(w)
  PROVE  IInv'
<1> USE DEF serviceVars, wsVars, closeVars, mediaVars, mainVars, regVars
<1>1. WsTypeOK'
  BY WebRtcAssumption DEF ReturnFailed, IInv, WsTypeOK
<1>2. RegInv' /\ PeerInv'
  BY Frames DEF ReturnFailed
<1>3. IdInv'
  BY WebRtcAssumption
     DEF ReturnFailed, IInv, WsTypeOK, IdInv, EntryLeftOnlyByFailure,
         SessionInv, CloseInv
<1>4. SessionInv'
  BY DEF ReturnFailed, IInv, WsTypeOK, SessionInv
<1>5. CloseInv'
  BY DEF ReturnFailed, IInv, WsTypeOK, SessionInv, CloseInv,
         ClosedHasNoSession, Registered
<1>6. ShutInv'
  BY DEF ReturnFailed, IInv, WsTypeOK, ShutInv, Registered
<1> QED BY <1>1, <1>2, <1>3, <1>4, <1>5, <1>6 DEF IInv

(* CreateSession succeeded: the handler starts.                            *)
LEMMA AssignSessionKeeps ==
  ASSUME IInv, NEW w \in Sockets, AssignSession(w)
  PROVE  IInv'
<1> USE DEF serviceVars, wsVars, closeVars, mediaVars, mainVars, regVars
<1>1. WsTypeOK'
  BY WebRtcAssumption DEF AssignSession, IInv, WsTypeOK
<1>2. RegInv' /\ PeerInv'
  BY Frames DEF AssignSession
<1>3. IdInv'
  BY WebRtcAssumption
     DEF AssignSession, IInv, WsTypeOK, IdInv, EntryLeftOnlyByFailure,
         SessionInv, CloseInv
<1>4. SessionInv'
  BY DEF AssignSession, IInv, WsTypeOK, SessionInv
<1>5. CloseInv'
  BY DEF AssignSession, IInv, WsTypeOK, SessionInv, CloseInv,
         ClosedHasNoSession, Registered
<1>6. ShutInv'
  BY DEF AssignSession, IInv, WsTypeOK, ShutInv, Registered
<1> QED BY <1>1, <1>2, <1>3, <1>4, <1>5, <1>6 DEF IInv

(* The endpoint is closed, its entry goes.                                 *)
LEMMA RemoveEndpointKeeps ==
  ASSUME IInv, NEW w \in Sockets, RemoveEndpoint(w)
  PROVE  IInv'
<1> USE DEF serviceVars, wsVars, closeVars, mediaVars, mainVars, regVars
<1>1. WsTypeOK'
  BY WebRtcAssumption DEF RemoveEndpoint, IInv, WsTypeOK
<1>2. RegInv' /\ PeerInv'
  BY Frames DEF RemoveEndpoint
<1>3. IdInv'
  BY WebRtcAssumption
     DEF RemoveEndpoint, IInv, WsTypeOK, IdInv, EntryLeftOnlyByFailure,
         SessionInv, CloseInv
<1>4. SessionInv'
  BY DEF RemoveEndpoint, IInv, WsTypeOK, SessionInv
<1>5. CloseInv'
  BY DEF RemoveEndpoint, IInv, WsTypeOK, SessionInv, CloseInv,
         ClosedHasNoSession, Registered
<1>6. ShutInv'
  BY DEF RemoveEndpoint, IInv, WsTypeOK, ShutInv, Registered
<1> QED BY <1>1, <1>2, <1>3, <1>4, <1>5, <1>6 DEF IInv

-------------------------------------------------------------------------------
(* An offer opens the next peer connection.                                *)
LEMMA OfferPeerKeeps ==
  ASSUME IInv, NEW w \in Sockets, OfferPeer(w)
  PROVE  IInv'
<1> USE DEF serviceVars, wsVars, closeVars, mediaVars, mainVars, regVars
<1>1. WsTypeOK'
  BY WebRtcAssumption DEF OfferPeer, IInv, WsTypeOK, Peers
<1>2. RegInv' /\ IdInv' /\ ShutInv'
  BY Frames DEF OfferPeer
<1>3. SessionInv'
  BY DEF OfferPeer, IInv, WsTypeOK, SessionInv
<1>4. CloseInv'
  BY DEF OfferPeer, IInv, WsTypeOK, SessionInv, CloseInv, ClosedHasNoSession,
         Registered
<1>5. PeerInv'
  <2>1. closeAt[w] = "no" /\ peer[w] \in Nat /\ MaxOffers \in Nat
    <3>1. closeAt[w] = "no"
      BY DEF OfferPeer, IInv, CloseInv
    <3>2. peer[w] \in 0..MaxOffers
      BY DEF IInv, WsTypeOK
    <3> QED BY ONLY <3>1, <3>2, WebRtcAssumption DEF WebRtcAssumption
  <2>2. /\ peer'[w] = peer[w] + 1
        /\ \A n \in Peers : n # peer[w] + 1 => peers'[w][n] = peers[w][n]
        /\ \A v \in Sockets : v # w => peer'[v] = peer[v] /\ peers'[v] = peers[v]
        /\ closeAt' = closeAt
    BY DEF OfferPeer, IInv, WsTypeOK
  <2> QED BY <2>1, <2>2 DEF IInv, PeerInv, PeerLeakOnlyByRenegotiation, Peers
<1> QED BY <1>1, <1>2, <1>3, <1>4, <1>5 DEF IInv

(* Its answer is out.                                                      *)
LEMMA OfferAnswerKeeps ==
  ASSUME IInv, NEW w \in Sockets, OfferAnswer(w)
  PROVE  IInv'
<1> USE DEF serviceVars, wsVars, closeVars, mediaVars, mainVars, regVars
<1>1. WsTypeOK'
  BY WebRtcAssumption DEF OfferAnswer, IInv, WsTypeOK, Peers
<1>2. RegInv' /\ IdInv' /\ ShutInv'
  BY Frames DEF OfferAnswer
<1>3. SessionInv'
  BY DEF OfferAnswer, IInv, WsTypeOK, SessionInv
<1>4. CloseInv'
  BY DEF OfferAnswer, IInv, WsTypeOK, SessionInv, CloseInv,
         ClosedHasNoSession, Registered
<1>5. PeerInv'
  <2>1. closeAt[w] = "no" /\ peer[w] \in Nat /\ MaxOffers \in Nat
    <3>1. closeAt[w] = "no"
      BY DEF OfferAnswer, IInv, CloseInv
    <3>2. peer[w] \in 0..MaxOffers
      BY DEF IInv, WsTypeOK
    <3> QED BY ONLY <3>1, <3>2, WebRtcAssumption DEF WebRtcAssumption
  <2>2. /\ \A n \in Peers : n # peer[w] => peers'[w][n] = peers[w][n]
        /\ \A v \in Sockets : v # w => peers'[v] = peers[v]
        /\ UNCHANGED <<closeAt, peer>>
    BY DEF OfferAnswer, IInv, WsTypeOK
  <2> QED BY <2>1, <2>2 DEF IInv, PeerInv, PeerLeakOnlyByRenegotiation, Peers
<1> QED BY <1>1, <1>2, <1>3, <1>4, <1>5 DEF IInv

(* The handler ends.                                                       *)
LEMMA LeaveKeeps ==
  ASSUME IInv, NEW w \in Sockets, Leave(w)
  PROVE  IInv'
<1> USE DEF serviceVars, wsVars, closeVars, mediaVars, mainVars, regVars
<1>1. WsTypeOK'
  BY WebRtcAssumption DEF Leave, IInv, WsTypeOK
<1>2. RegInv' /\ IdInv' /\ PeerInv' /\ ShutInv'
  BY Frames DEF Leave
<1>3. SessionInv'
  BY DEF Leave, IInv, WsTypeOK, SessionInv
<1>4. CloseInv'
  BY DEF Leave, IInv, WsTypeOK, SessionInv, CloseInv, ClosedHasNoSession,
         Registered
<1> QED BY <1>1, <1>2, <1>3, <1>4 DEF IInv

-------------------------------------------------------------------------------
(* Close begins: without a session to remove only if CreateSession failed. *)
LEMMA CloseBeginKeeps ==
  ASSUME IInv, NEW w \in Sockets, CloseBegin(w)
  PROVE  IInv'
<1> USE DEF serviceVars, wsVars, closeVars, mediaVars, mainVars, regVars
<1>1. WsTypeOK'
  BY WebRtcAssumption DEF CloseBegin, IInv, WsTypeOK
<1>2. RegInv' /\ IdInv' /\ SessionInv' /\ ShutInv'
  BY Frames DEF CloseBegin
<1>3. CloseInv'
  <2>1. /\ serve[w] \in {"failed", "waiting"}
        /\ creates[w] # NoSession
        /\ session[w] = NoSession => ~Registered(creates[w])
    <3>1. serve[w] \in {"failed", "waiting", "returned"}
      BY DEF CloseBegin, IInv, WsTypeOK, SessionInv
    <3>2. serve[w] # "returned"
      BY DEF CloseBegin, IInv, CloseInv
    <3>3. creates[w] # NoSession
      BY <3>1 DEF IInv, SessionInv
    <3>4. session[w] = NoSession => status[creates[w]] = "failed"
      BY <3>1, <3>2, <3>3 DEF IInv, SessionInv
    <3> QED BY <3>1, <3>2, <3>3, <3>4, RegisteredAtId
  <2> QED BY <2>1
          DEF CloseBegin, IInv, WsTypeOK, SessionInv, CloseInv,
              ClosedHasNoSession, Registered
<1>4. PeerInv'
  BY DEF CloseBegin, IInv, WsTypeOK, PeerInv, PeerLeakOnlyByRenegotiation
<1> QED BY <1>1, <1>2, <1>3, <1>4 DEF IInv

(* Removing what an id maps to.                                            *)
LEMMA DropKeeps ==
  ASSUME IInv, NEW i \in SessionIds,
         \/ sessions[i] = NoSession /\ UNCHANGED regVars
         \/ DropSession(i)
  PROVE  /\ RegInv' /\ UNCHANGED <<sid, status>>
         /\ \A s \in Sessions : Registered(s)' => Registered(s)
         /\ \A w \in Sockets, j \in SessionIds :
              creates[w] # NoSession /\ id[w] = i => sessions'[j] # creates[w]
<1>1. /\ sessions' = [sessions EXCEPT ![i] = NoSession]
      /\ UNCHANGED <<sid, status>>
  BY DEF DropSession, regVars, IInv, RegInv, RegTypeOK
<1>2. RegInv'
  BY <1>1 DEF IInv, RegInv, RegTypeOK
<1>3. /\ sessions'[i] = NoSession
      /\ \A j \in SessionIds : j # i => sessions'[j] = sessions[j]
  BY <1>1 DEF IInv, RegInv, RegTypeOK
<1>4. \A s \in Sessions : Registered(s)' => Registered(s)
  BY <1>3, WebRtcAssumption DEF Registered
<1>5. ASSUME NEW w \in Sockets, NEW j \in SessionIds,
             creates[w] # NoSession, id[w] = i, sessions'[j] = creates[w]
      PROVE  FALSE
  <2>1. j # i /\ sessions[j] = creates[w]
    BY <1>3, <1>5
  <2>2. creates[w] \in Sessions /\ sid[creates[w]] = i
    BY <1>5, RegisteredAtId DEF IInv, SessionInv
  <2> QED BY <1>5, <2>1, <2>2 DEF IInv, RegInv
<1> QED BY <1>1, <1>2, <1>4, <1>5

(* The endpoint's session leaves the bridge.                               *)
LEMMA CloseRemoveKeeps ==
  ASSUME IInv, NEW w \in Sockets, CloseRemove(w)
  PROVE  IInv'
<1> USE DEF serviceVars, wsVars, closeVars, mediaVars, mainVars, regVars
<1>0. /\ id[w] \in SessionIds
      /\ \/ sessions[id[w]] = NoSession /\ UNCHANGED regVars
         \/ DropSession(id[w])
  <2>1. serve[w] \notin {"idle", "requested"}
    BY DEF CloseRemove, IInv, CloseInv
  <2> QED BY <2>1 DEF CloseRemove, IInv, WsTypeOK, IdInv
<1>1. WsTypeOK'
  BY WebRtcAssumption DEF CloseRemove, IInv, WsTypeOK
<1>2. IdInv'
  BY Frames DEF CloseRemove
<1>3. RegInv'
  BY <1>0, DropKeeps
<1>4. SessionInv'
  BY <1>0, DropKeeps DEF CloseRemove, IInv, SessionInv
<1>5. CloseInv'
  <2>1. \A v \in Sockets : creates[v] # NoSession => creates[v] \in Sessions
    BY DEF IInv, WsTypeOK
  <2>2. UNCHANGED <<status, serve, creates, handler, id>>
    BY <1>0, DropKeeps DEF CloseRemove
  <2>3. /\ closeAt[w] = "remove" /\ closeAt'[w] = "media"
        /\ \A v \in Sockets : v # w => closeAt'[v] = closeAt[v]
    BY DEF CloseRemove, IInv, WsTypeOK
  <2>4. ClosedHasNoSession'
    BY <1>0, <2>1, <2>2, <2>3, DropKeeps
       DEF IInv, CloseInv, ClosedHasNoSession, Registered
  <2> QED BY <2>2, <2>3, <2>4 DEF IInv, CloseInv
<1>6. PeerInv'
  BY DEF CloseRemove, IInv, WsTypeOK, PeerInv, PeerLeakOnlyByRenegotiation
<1>7. ShutInv'
  <2>1. UNCHANGED <<serve, creates, id, main, shutTodo, unanswered, underway>>
    BY DEF CloseRemove
  <2>2. /\ UNCHANGED status
        /\ \A s \in Sessions : Registered(s)' => Registered(s)
    BY <1>0, DropKeeps
  <2>3. \A v \in Sockets : creates[v] # NoSession => creates[v] \in Sessions
    BY DEF IInv, WsTypeOK
  <2> QED BY <2>1, <2>2, <2>3 DEF IInv, ShutInv
<1> QED BY <1>1, <1>2, <1>3, <1>4, <1>5, <1>6, <1>7 DEF IInv

(* The last peer connection and the WebSocket are closed.                  *)
LEMMA CloseMediaKeeps ==
  ASSUME IInv, NEW w \in Sockets, CloseMedia(w)
  PROVE  IInv'
<1> USE DEF serviceVars, wsVars, closeVars, mediaVars, mainVars, regVars
<1>1. WsTypeOK'
  BY WebRtcAssumption DEF CloseMedia, IInv, WsTypeOK, Peers
<1>2. RegInv' /\ IdInv' /\ SessionInv' /\ ShutInv'
  BY Frames DEF CloseMedia
<1>3. CloseInv'
  BY DEF CloseMedia, IInv, WsTypeOK, CloseInv, ClosedHasNoSession, Registered
<1>4. PeerInv'
  BY WebRtcAssumption
     DEF CloseMedia, IInv, WsTypeOK, PeerInv, PeerLeakOnlyByRenegotiation, Peers
<1> QED BY <1>1, <1>2, <1>3, <1>4 DEF IInv

-------------------------------------------------------------------------------
(* A frame is being written.                                               *)
LEMMA SendBeginKeeps ==
  ASSUME IInv, NEW w \in Sockets, SendBegin(w)
  PROVE  IInv'
<1> USE DEF serviceVars, wsVars, closeVars, mediaVars, mainVars, regVars
<1>1. WsTypeOK'
  BY WebRtcAssumption DEF SendBegin, IInv, WsTypeOK
<1>2. RegInv' /\ IdInv' /\ SessionInv' /\ CloseInv' /\ PeerInv' /\ ShutInv'
  BY Frames DEF SendBegin
<1> QED BY <1>1, <1>2 DEF IInv

(* It was.                                                                 *)
LEMMA SendEndKeeps ==
  ASSUME IInv, NEW w \in Sockets, SendEnd(w)
  PROVE  IInv'
<1> USE DEF serviceVars, wsVars, closeVars, mediaVars, mainVars, regVars
<1>1. WsTypeOK'
  BY WebRtcAssumption DEF SendEnd, IInv, WsTypeOK
<1>2. RegInv' /\ IdInv' /\ SessionInv' /\ CloseInv' /\ PeerInv' /\ ShutInv'
  BY Frames DEF SendEnd
<1> QED BY <1>1, <1>2 DEF IInv

(* The client's side goes away.                                            *)
LEMMA ClientLeavesKeeps ==
  ASSUME IInv, NEW w \in Sockets, ClientLeaves(w)
  PROVE  IInv'
<1> USE DEF serviceVars, wsVars, closeVars, mediaVars, mainVars, regVars
<1>1. WsTypeOK'
  BY WebRtcAssumption DEF ClientLeaves, IInv, WsTypeOK
<1>2. RegInv' /\ IdInv' /\ SessionInv' /\ CloseInv' /\ PeerInv' /\ ShutInv'
  BY Frames DEF ClientLeaves
<1> QED BY <1>1, <1>2 DEF IInv

(* CreateSession ends: it fails, or its session takes the id of the        *)
(* endpoint, which no other endpoint has.                                  *)
LEMMA BridgeKeeps ==
  ASSUME IInv, NEW w \in Sockets, BridgeStep(w)
  PROVE  IInv'
<1> USE DEF serviceVars, wsVars, closeVars, mediaVars, mainVars, regVars
<1> DEFINE s == creates[w]
<1>1. /\ serve[w] = "creating" /\ closeAt[w] = "no"
      /\ s \in Sessions /\ s # NoSession
      /\ status[s] = "creating" /\ sid[s] = id[w] /\ id[w] \in SessionIds
      /\ \A v \in Sockets : v # w => creates[v] # s
      /\ UNCHANGED <<serviceVars, wsVars, closeVars, mediaVars, mainVars>>
  <2>1. serve[w] = "creating" /\ s # NoSession
    BY DEF BridgeStep, IInv, SessionInv
  <2>2. status[s] = "creating"
    BY DEF BridgeStep, CreateStep, FailCreate, PutSession
  <2> QED BY <2>1, <2>2, RegisteredAtId DEF BridgeStep, IInv, SessionInv,
                                            CloseInv, WsTypeOK
<1>2. /\ sid' = sid /\ status'[s] \in {"failed", "registered"}
      /\ \A t \in Sessions : t # s => /\ status'[t] = status[t]
                                      /\ Registered(t)' => Registered(t)
      /\ RegInv'
  <2>1. CASE FailCreate(s)
    BY <1>1, <2>1 DEF FailCreate, IInv, RegInv, RegTypeOK, Statuses, Registered
  <2>2. CASE PutSession(s)
    <3>1. /\ sessions' = [sessions EXCEPT ![id[w]] = s] /\ sid' = sid
          /\ status' = [status EXCEPT ![s] = "registered"]
      BY <1>1, <2>2 DEF PutSession
    <3>2. RegInv'
      BY <1>1, <3>1 DEF IInv, RegInv, RegTypeOK, Statuses
    <3>3. \A t \in Sessions : t # s => (Registered(t)' => Registered(t))
      BY <1>1, <3>1 DEF IInv, RegInv, RegTypeOK, Registered
    <3> QED BY <1>1, <3>1, <3>2, <3>3 DEF IInv, RegInv, RegTypeOK
  <2> QED BY <2>1, <2>2 DEF BridgeStep, CreateStep
<1>3. WsTypeOK'
  BY <1>1 DEF IInv, WsTypeOK
<1>4. IdInv' /\ PeerInv'
  BY <1>1, Frames
<1>5. \A v \in Sockets : v # w /\ creates[v] # NoSession =>
        creates[v] \in Sessions /\ creates[v] # s
  BY <1>1 DEF IInv, WsTypeOK
<1>6. SessionInv'
  BY <1>1, <1>2, <1>5 DEF IInv, SessionInv
<1>7. CloseInv'
  <2>1. \A v \in Sockets : closeAt[v] # "no" => v # w /\ creates[v] # NoSession
    BY <1>1 DEF IInv, CloseInv, SessionInv
  <2>2. ClosedHasNoSession'
    BY <1>1, <1>2, <1>5, <2>1 DEF IInv, CloseInv, ClosedHasNoSession
  <2> QED BY <1>1, <1>2, <1>5, <2>1, <2>2 DEF IInv, CloseInv
<1>8. ShutInv'
  BY <1>1, <1>2, <1>5 DEF IInv, ShutInv
<1> QED BY <1>2, <1>3, <1>4, <1>6, <1>7, <1>8 DEF IInv

(* The HTTP server stops listening, and returns when it has answered every *)
(* request or gives up on the ones that are left.                          *)
LEMMA HttpKeeps ==
  ASSUME IInv, HttpShutdown \/ HttpDrained \/ HttpTimeout
  PROVE  IInv'
<1> USE DEF serviceVars, wsVars, closeVars, mediaVars, mainVars, regVars, Requested
<1>1. WsTypeOK'
  BY DEF HttpShutdown, HttpDrained, HttpTimeout, IInv, WsTypeOK
<1>2. RegInv' /\ IdInv' /\ SessionInv' /\ CloseInv' /\ PeerInv'
  BY Frames DEF HttpShutdown, HttpDrained, HttpTimeout
<1>3. ShutInv'
  BY DEF HttpShutdown, HttpDrained, HttpTimeout, ShutInv
<1> QED BY <1>1, <1>2, <1>3 DEF IInv

(* The snapshot holds every session that is registered.                    *)
LEMMA ShutdownBeginKeeps ==
  ASSUME IInv, ShutdownBegin
  PROVE  IInv'
<1> USE DEF serviceVars, wsVars, closeVars, mediaVars, mainVars, regVars
<1>1. WsTypeOK'
  BY WebRtcAssumption DEF ShutdownBegin, WithoutSession, Requested, IInv, WsTypeOK
<1>2. RegInv' /\ IdInv' /\ SessionInv' /\ CloseInv' /\ PeerInv'
  BY Frames DEF ShutdownBegin
<1>3. ShutInv'
  <2>1. ASSUME NEW w \in Sockets \ (underway' \cup unanswered')
        PROVE  /\ serve[w] \notin {"requested", "stored"}
               /\ creates[w] # NoSession =>
                    /\ status[creates[w]] # "creating"
                    /\ Registered(creates[w]) => id[w] \in shutTodo'
    <3>1. /\ serve[w] \notin {"requested", "stored"}
          /\ ~(serve[w] = "creating" /\ status[creates[w]] = "creating")
      BY <2>1 DEF ShutdownBegin, WithoutSession, Requested, IInv, ShutInv
    <3>2. creates[w] # NoSession => status[creates[w]] # "creating"
      BY <3>1 DEF IInv, WsTypeOK, SessionInv, CloseInv
    <3>3. creates[w] # NoSession /\ Registered(creates[w]) => id[w] \in shutTodo'
      BY RegisteredAtId, WebRtcAssumption DEF ShutdownBegin
    <3> QED BY <3>1, <3>2, <3>3
  <2>2. UNCHANGED <<sessions, status, serve, creates, id>> /\ main' = "looping"
    BY DEF ShutdownBegin
  <2> QED BY <2>1, <2>2 DEF ShutInv, Registered
<1> QED BY <1>1, <1>2, <1>3 DEF IInv

(* One session of the snapshot is removed.                                 *)
LEMMA ShutdownRemoveKeeps ==
  ASSUME IInv, NEW i \in SessionIds, ShutdownRemove(i)
  PROVE  IInv'
<1> USE DEF serviceVars, wsVars, closeVars, mediaVars, mainVars, regVars
<1>0. \/ sessions[i] = NoSession /\ UNCHANGED regVars
      \/ DropSession(i)
  BY DEF ShutdownRemove
<1>1. WsTypeOK'
  BY WebRtcAssumption DEF ShutdownRemove, IInv, WsTypeOK
<1>2. IdInv' /\ PeerInv'
  BY Frames DEF ShutdownRemove
<1>3. RegInv'
  BY <1>0, DropKeeps
<1>4. SessionInv'
  BY <1>0, DropKeeps DEF ShutdownRemove, IInv, SessionInv
<1>5. CloseInv'
  <2>1. \A v \in Sockets : creates[v] # NoSession => creates[v] \in Sessions
    BY DEF IInv, WsTypeOK
  <2>2. UNCHANGED <<status, serve, creates, handler, closeAt>>
    BY <1>0, DropKeeps DEF ShutdownRemove
  <2>3. ClosedHasNoSession'
    BY <1>0, <2>1, <2>2, DropKeeps
       DEF IInv, CloseInv, ClosedHasNoSession, Registered
  <2> QED BY <2>2, <2>3 DEF IInv, CloseInv
<1>6. ShutInv'
  <2>1. \A v \in Sockets : creates[v] # NoSession => creates[v] \in Sessions
    BY DEF IInv, WsTypeOK
  <2>2. /\ UNCHANGED <<status, serve, creates, id, main, unanswered, underway>>
        /\ main = "looping" /\ shutTodo' = shutTodo \ {i}
    BY <1>0, DropKeeps DEF ShutdownRemove
  <2> QED BY <1>0, <2>1, <2>2, DropKeeps DEF IInv, ShutInv, Registered
<1> QED BY <1>1, <1>2, <1>3, <1>4, <1>5, <1>6 DEF IInv

(* None is left.                                                           *)
LEMMA ShutdownDoneKeeps ==
  ASSUME IInv, ShutdownDone
  PROVE  IInv'
<1> USE DEF serviceVars, wsVars, closeVars, mediaVars, mainVars, regVars
<1>1. WsTypeOK'
  BY WebRtcAssumption DEF ShutdownDone, IInv, WsTypeOK
<1>2. RegInv' /\ IdInv' /\ SessionInv' /\ CloseInv' /\ PeerInv'
  BY Frames DEF ShutdownDone
<1>3. ShutInv'
  BY DEF ShutdownDone, IInv, ShutInv, Registered
<1> QED BY <1>1, <1>2, <1>3 DEF IInv

-------------------------------------------------------------------------------
(* Every step keeps the invariant.                                         *)
LEMMA StepKeeps == IInv /\ [WsNext]_allVars => IInv'
<1> SUFFICES ASSUME IInv, [WsNext]_allVars PROVE IInv'
  OBVIOUS
<1>1. ASSUME NEW w \in Sockets,
             \/ Arrive(w) \/ Refuse(w)
             \/ \E i \in SessionIds : Accept(w, i)
             \/ \E s \in Sessions : BeginSession(w, s)
             \/ BridgeStep(w)
             \/ ServeStep(w)
      PROVE  IInv'
  BY <1>1, RequestKeeps, AcceptKeeps, BeginSessionKeeps, BridgeKeeps, SessionFailedKeeps,
     ReturnFailedKeeps, AssignSessionKeeps, RemoveEndpointKeeps
     DEF ServeStep
<1>2. ASSUME NEW w \in Sockets,
             \/ CloseStep(w)
             \/ HandlerStep(w)
             \/ AudioStep(w)
             \/ ClientLeaves(w)
      PROVE  IInv'
  BY <1>2, CloseBeginKeeps, CloseRemoveKeeps, CloseMediaKeeps, OfferPeerKeeps,
     OfferAnswerKeeps, LeaveKeeps, SendBeginKeeps, SendEndKeeps, ClientLeavesKeeps
     DEF CloseStep, HandlerStep, AudioStep
<1>3. CASE MainStep
  BY <1>3, HttpKeeps, ShutdownBeginKeeps, ShutdownRemoveKeeps,
     ShutdownDoneKeeps DEF MainStep
<1>4. CASE UNCHANGED allVars
  <2> USE <1>4 DEF allVars, serviceVars, wsVars, closeVars, mediaVars, mainVars,
                   regVars
  <2>1. WsTypeOK'
    BY DEF IInv, WsTypeOK
  <2>2. RegInv' /\ IdInv' /\ SessionInv' /\ CloseInv' /\ PeerInv' /\ ShutInv'
    BY Frames
  <2> QED BY <2>1, <2>2 DEF IInv
<1> QED BY <1>1, <1>2, <1>3, <1>4 DEF WsNext

(* The invariant holds throughout.                                         *)
THEOREM Invariance == WsSpec => []IInv
BY Starts, StepKeeps, PTL DEF WsSpec

-------------------------------------------------------------------------------
(* Type correctness, for any number of connections.                        *)
THEOREM WsTypeCorrect == WsSpec => []WsTypeOK
<1>1. IInv => WsTypeOK
  BY DEF IInv
<1> QED BY <1>1, Invariance, PTL

(* A closed WebSocket endpoint has no session in the bridge.               *)
THEOREM CloseIsComplete == WsSpec => []ClosedHasNoSession
<1>1. IInv => ClosedHasNoSession
  BY DEF IInv, CloseInv
<1> QED BY <1>1, Invariance, PTL

(* Entries are left behind by failed calls of CreateSession alone.         *)
THEOREM EntriesLeft == WsSpec => []EntryLeftOnlyByFailure
<1>1. IInv => EntryLeftOnlyByFailure
  BY DEF IInv, IdInv
<1> QED BY <1>1, Invariance, PTL

(* Peer connections are left open by renegotiation alone.                  *)
THEOREM PeersLeft == WsSpec => []PeerLeakOnlyByRenegotiation
<1>1. IInv => PeerLeakOnlyByRenegotiation
  BY DEF IInv, PeerInv
<1> QED BY <1>1, Invariance, PTL

(* Shutdown leaves the sessions that were underway at its snapshot and     *)
(* those of requests the HTTP server had given up on after its five        *)
(* seconds.                                                                *)
THEOREM ShutdownLeavesUnderway == WsSpec => []ShutdownLeavesOnlyUnderway
<1>1. IInv => ShutdownLeavesOnlyUnderway
  BY DEF IInv, ShutInv, ShutdownLeavesOnlyUnderway
<1> QED BY <1>1, Invariance, PTL

(* The WebSocket service uses the bridge only as Registry.tla allows.      *)
THEOREM WsUsesRegistry == WsSpec => RegSpec
<1>1. WsInit => RegInit
  BY DEF WsInit
<1>2. IInv /\ [WsNext]_allVars => [RegNext]_regVars
  <2> SUFFICES ASSUME IInv, [WsNext]_allVars PROVE [RegNext]_regVars
    OBVIOUS
  <2>1. ASSUME NEW w \in Sockets, BridgeStep(w)
        PROVE  RegNext
    <3>1. creates[w] \in Sessions
      BY <2>1 DEF BridgeStep, IInv, WsTypeOK, SessionInv
    <3> QED BY <2>1, <3>1 DEF BridgeStep, RegNext
  <2>2. ASSUME NEW w \in Sockets, NEW s \in Sessions, BeginSession(w, s)
        PROVE  RegNext
    <3>1. id[w] \in SessionIds
      BY <2>2 DEF BeginSession, IInv, WsTypeOK, IdInv
    <3> QED BY <2>2, <3>1 DEF BeginSession, RegNext
  <2>3. ASSUME NEW w \in Sockets, CloseRemove(w)
        PROVE  [RegNext]_regVars
    <3>1. serve[w] \notin {"idle", "requested"}
      BY <2>3 DEF CloseRemove, IInv, CloseInv
    <3>2. id[w] \in SessionIds
      BY <3>1 DEF IInv, WsTypeOK, IdInv
    <3> QED BY <2>3, <3>2 DEF CloseRemove, RegNext
  <2>4. ASSUME NEW i \in SessionIds, ShutdownRemove(i)
        PROVE  [RegNext]_regVars
    BY <2>4 DEF ShutdownRemove, RegNext
  <2>5. ASSUME NEW w \in Sockets,
               \/ Arrive(w) \/ Refuse(w)
               \/ \E i \in SessionIds : Accept(w, i)
               \/ ServeStep(w)
               \/ CloseBegin(w)
               \/ CloseMedia(w)
               \/ HandlerStep(w)
               \/ AudioStep(w)
               \/ ClientLeaves(w)
        PROVE  UNCHANGED regVars
    BY <2>5
       DEF Arrive, Refuse, Accept, ServeStep, SessionFailed, ReturnFailed,
           AssignSession, RemoveEndpoint, CloseBegin, CloseMedia, HandlerStep,
           OfferPeer, OfferAnswer, Leave, AudioStep, SendBegin, SendEnd,
           ClientLeaves
  <2>6. CASE \/ HttpShutdown \/ HttpDrained \/ HttpTimeout
             \/ ShutdownBegin \/ ShutdownDone
             \/ UNCHANGED allVars
    BY <2>6 DEF HttpShutdown, HttpDrained, HttpTimeout, ShutdownBegin, ShutdownDone,
                allVars
  <2> QED BY <2>1, <2>2, <2>3, <2>4, <2>5, <2>6 DEF WsNext, CloseStep, MainStep
<1> QED BY <1>1, <1>2, Invariance, PTL DEF WsSpec, RegSpec

-------------------------------------------------------------------------------
(* An endpoint whose client is gone.                                       *)

(* A client is there from the upgrade on, and its messages are read once   *)
(* CreateSession has returned.                                             *)
GoneInv ==
  \A w \in Sockets :
    /\ serve[w] \in {"idle", "requested"} => client[w] = "none"
    /\ serve[w] = "waiting" => handler[w] # "none"

EndInv == IInv /\ GoneInv

(* When each goroutine of an endpoint is due, and that its step is then    *)
(* possible.  Each line assumes the guard of the step it names, so the     *)
(* actions say it is true; as the provers do not reason about ENABLED it   *)
(* is a hypothesis of GoneClientReleases.                                  *)
CanCreate(w)   == ENABLED <<Creates(w)>>_allVars
CanConnect(w)  == ENABLED <<BridgeStep(w)>>_allVars
CanServe(w)    == ENABLED <<ServeStep(w)>>_allVars
CanLeave(w)    == ENABLED <<LeavesAsGone(w)>>_allVars
CanBegin(w)    == ENABLED <<CloseBegin(w)>>_allVars
CanClose(w)    == ENABLED <<CloseGoesOn(w)>>_allVars
CanFinish(w)   == ENABLED <<SendEnd(w)>>_allVars

ServeDue(w) ==
  \/ serve[w] = "creating" /\ status[creates[w]] # "creating"
  \/ serve[w] \in {"failed", "waiting"} /\ closeAt[w] = "done"

CloseDue(w) ==
  /\ handler[w] = "leaving" \/ serve[w] = "failed"
  /\ closeAt[w] = "no"

EndpointNeverStuck ==
  \A w \in Sockets :
    /\ serve[w] = "stored" => CanCreate(w)
    /\ serve[w] = "creating" /\ status[creates[w]] = "creating" => CanConnect(w)
    /\ ServeDue(w) => CanServe(w)
    /\ client[w] = "gone" /\ handler[w] \in {"reading", "offering"} => CanLeave(w)
    /\ CloseDue(w) /\ ~sending[w] => CanBegin(w)
    /\ closeAt[w] \in {"remove", "media"} => CanClose(w)
    /\ sending[w] => CanFinish(w)

Gone(w)       == client[w] = "gone"
Stored(w)     == serve[w] = "stored"
Connecting(w) == serve[w] = "creating" /\ status[creates[w]] = "creating"
Decided(w)    == serve[w] = "creating" /\ status[creates[w]] # "creating"
Ends(w)       == serve[w] \in {"failed", "waiting"}
Talking(w)    == Ends(w) /\ closeAt[w] = "no" /\ handler[w] \in {"reading", "offering"}
Due(w)        == Ends(w) /\ CloseDue(w)
Close(w, p)   == Ends(w) /\ closeAt[w] = p
Returned(w)   == serve[w] = "returned"
Writing(w)    == sending[w]

(* The way of an endpoint from the upgrade to the return.                  *)
GoesOn(w) ==
  /\ Gone(w) => Gone(w)'
  /\ Stored(w) => Stored(w)' \/ Connecting(w)'
  /\ Connecting(w) => Connecting(w)' \/ Decided(w)'
  /\ Decided(w) => Decided(w)' \/ Due(w)' \/ Talking(w)'
  /\ Talking(w) => Talking(w)' \/ Due(w)'
  /\ Due(w) => Due(w)' \/ Close(w, "remove")' \/ Close(w, "media")'
  /\ Close(w, "remove") => Close(w, "remove")' \/ Close(w, "media")'
  /\ Close(w, "media") => Close(w, "media")' \/ Close(w, "done")'
  /\ Close(w, "done") => Close(w, "done")' \/ Returned(w)'

LEMMA GoneStarts == WsInit => GoneInv
BY DEF WsInit, GoneInv

LEMMA GoneKeeps == IInv /\ GoneInv /\ [WsNext]_allVars => GoneInv'
<1> SUFFICES ASSUME IInv, GoneInv, [WsNext]_allVars PROVE GoneInv'
  OBVIOUS
<1> USE DEF GoneInv
<1>0. WsTypeOK
  BY DEF IInv
<1>1. CASE UNCHANGED <<serve, handler, client>>
  BY <1>1
<1>2. ASSUME NEW w \in Sockets,
             Arrive(w) \/ Refuse(w) \/ \E i \in SessionIds : Accept(w, i)
      PROVE  GoneInv'
  BY <1>0, <1>2 DEF Arrive, Refuse, Accept, wsVars, WsTypeOK
<1>3. ASSUME NEW w \in Sockets, NEW s \in Sessions, BeginSession(w, s)
      PROVE  GoneInv'
  BY <1>0, <1>3 DEF BeginSession, wsVars, WsTypeOK
<1>4. ASSUME NEW w \in Sockets, ServeStep(w)
      PROVE  GoneInv'
  BY <1>0, <1>4
     DEF ServeStep, SessionFailed, ReturnFailed, AssignSession, RemoveEndpoint,
         wsVars, WsTypeOK
<1>5. ASSUME NEW w \in Sockets, HandlerStep(w) \/ ClientLeaves(w)
      PROVE  GoneInv'
  BY <1>0, <1>5
     DEF HandlerStep, OfferPeer, OfferAnswer, Leave, ClientLeaves, serviceVars,
         WsTypeOK
<1>6. ASSUME NEW w \in Sockets,
             BridgeStep(w) \/ CloseStep(w) \/ AudioStep(w)
      PROVE  GoneInv'
  BY <1>1, <1>6
     DEF BridgeStep, CloseStep, CloseBegin, CloseRemove, CloseMedia, AudioStep,
         SendBegin, SendEnd, serviceVars, wsVars
<1>7. CASE MainStep \/ UNCHANGED allVars
  BY <1>1, <1>7
     DEF MainStep, HttpShutdown, HttpDrained, HttpTimeout, ShutdownBegin, ShutdownRemove, ShutdownDone,
         allVars, serviceVars, wsVars
<1> QED BY <1>2, <1>3, <1>4, <1>5, <1>6, <1>7 DEF WsNext

LEMMA EndpointGoesOn ==
  ASSUME EndInv, [WsNext]_allVars, NEW w \in Sockets
  PROVE  GoesOn(w)
<1> USE DEF GoesOn, Gone, Stored, Connecting, Decided, Ends, Talking, Due, CloseDue,
      Close, Returned
<1>0. /\ WsTypeOK /\ RegTypeOK /\ GoneInv
      /\ SessionInv /\ CloseInv
  BY DEF EndInv, IInv, RegInv
<1>1. CASE UNCHANGED <<status, serve, creates, handler, client, closeAt>>
  BY <1>1
<1>2. ASSUME NEW v \in Sockets,
             Arrive(v) \/ Refuse(v) \/ \E i \in SessionIds : Accept(v, i)
      PROVE  GoesOn(w)
  BY <1>0, <1>2
     DEF Arrive, Refuse, Accept, WsTypeOK, regVars, wsVars, closeVars, GoneInv
<1>3. ASSUME NEW v \in Sockets, NEW s \in Sessions, BeginSession(v, s)
      PROVE  GoesOn(w)
  BY <1>0, <1>3
     DEF BeginSession, BeginCreate, WsTypeOK, RegTypeOK, wsVars, closeVars,
         SessionInv
<1>4. ASSUME NEW v \in Sockets, ServeStep(v)
      PROVE  GoesOn(w)
  <2> USE <1>0 DEF WsTypeOK, regVars, wsVars, closeVars, SessionInv, CloseInv
  <2>1. CASE SessionFailed(v)
    BY <2>1 DEF SessionFailed
  <2>2. CASE ReturnFailed(v) \/ RemoveEndpoint(v)
    BY <2>2 DEF ReturnFailed, RemoveEndpoint
  <2>3. CASE AssignSession(v)
    BY <2>3 DEF AssignSession
  <2> QED BY <1>4, <2>1, <2>2, <2>3 DEF ServeStep
<1>5. ASSUME NEW v \in Sockets, HandlerStep(v) \/ ClientLeaves(v)
      PROVE  GoesOn(w)
  BY <1>0, <1>5
     DEF HandlerStep, OfferPeer, OfferAnswer, Leave, ClientLeaves, WsTypeOK,
         regVars, serviceVars, closeVars, SessionInv
<1>6. ASSUME NEW v \in Sockets, BridgeStep(v)
      PROVE  GoesOn(w)
  <2>1. /\ UNCHANGED <<serve, creates, handler, client, closeAt>>
        /\ status' = [status EXCEPT ![creates[v]] = "failed"]
             \/ status' = [status EXCEPT ![creates[v]] = "registered"]
    BY <1>6 DEF BridgeStep, CreateStep, FailCreate, PutSession, serviceVars,
                wsVars, closeVars
  <2>2. serve[w] = "creating" => creates[w] \in Sessions /\ status[creates[w]] # "idle"
    <3>1. serve[w] = "creating" => creates[w] # NoSession
      BY <1>0 DEF SessionInv
    <3>2. creates[w] \in Sessions \cup {NoSession}
      BY <1>0 DEF WsTypeOK
    <3> QED BY <1>0, <3>1, <3>2 DEF SessionInv
  <2>3. status[creates[w]] # "creating" /\ serve[w] = "creating"
          => status'[creates[w]] # "creating"
    BY <1>0, <2>1, <2>2 DEF RegTypeOK
  <2> QED BY <2>1, <2>2, <2>3
<1>7. ASSUME NEW v \in Sockets, CloseStep(v)
      PROVE  GoesOn(w)
  <2>1. /\ UNCHANGED <<status, serve, creates, handler, client>>
        /\ \A z \in Sockets \ {v} : closeAt'[z] = closeAt[z]
        /\ \/ closeAt[v] = "no" /\ closeAt'[v] \in {"remove", "media"}
           \/ closeAt[v] = "remove" /\ closeAt'[v] = "media"
           \/ closeAt[v] = "media" /\ closeAt'[v] = "done"
        /\ closeAt[v] = "no" => handler[v] = "leaving" \/ serve[v] = "failed"
    BY <1>0, <1>7
       DEF CloseStep, CloseBegin, CloseRemove, CloseMedia, DropSession, WsTypeOK,
           regVars, serviceVars, wsVars
  <2> QED BY <1>0, <2>1 DEF SessionInv
<1>8. ASSUME NEW v \in Sockets, AudioStep(v)
      PROVE  GoesOn(w)
  BY <1>1, <1>8
     DEF AudioStep, SendBegin, SendEnd, regVars, serviceVars, wsVars, closeVars
<1>9. CASE MainStep \/ UNCHANGED allVars
  BY <1>1, <1>9
     DEF MainStep, HttpShutdown, HttpDrained, HttpTimeout, ShutdownBegin, ShutdownRemove, ShutdownDone,
         DropSession, allVars, regVars, serviceVars, wsVars, closeVars
<1> QED BY <1>2, <1>3, <1>4, <1>5, <1>6, <1>7, <1>8, <1>9 DEF WsNext

(* Each goroutine's step brings the endpoint nearer to its end.            *)
Advances(w) ==
  /\ <<Creates(w)>>_allVars => (Stored(w) => Connecting(w)')
  /\ <<BridgeStep(w)>>_allVars => (Connecting(w) => Decided(w)')
  /\ <<ServeStep(w)>>_allVars =>
       /\ Decided(w) => Due(w)' \/ Talking(w)'
       /\ Close(w, "done") => Returned(w)'
  /\ <<LeavesAsGone(w)>>_allVars => (Talking(w) => Due(w)')
  /\ <<CloseBegin(w)>>_allVars =>
       (Due(w) => Close(w, "remove")' \/ Close(w, "media")')
  /\ <<CloseGoesOn(w)>>_allVars =>
       /\ Close(w, "remove") => Close(w, "media")'
       /\ Close(w, "media") => Close(w, "done")'
  /\ <<SendEnd(w)>>_allVars => ~Writing(w)'

LEMMA EndpointAdvances ==
  ASSUME EndInv, NEW w \in Sockets
  PROVE  Advances(w)
<1> USE DEF Stored, Connecting, Decided, Ends, Talking, Due, CloseDue, Close, Returned,
      Writing
<1>0. WsTypeOK /\ RegTypeOK /\ SessionInv /\ CloseInv
  BY DEF EndInv, IInv, RegInv
<1>1. Creates(w) => (Stored(w) => Connecting(w)')
  BY <1>0 DEF Creates, BeginSession, BeginCreate, WsTypeOK, RegTypeOK
<1>2. BridgeStep(w) => (Connecting(w) => Decided(w)')
  BY <1>0 DEF BridgeStep, CreateStep, FailCreate, PutSession, WsTypeOK, RegTypeOK,
              serviceVars, SessionInv
<1>3. ServeStep(w) =>
        /\ Decided(w) => Due(w)' \/ Talking(w)'
        /\ Close(w, "done") => Returned(w)'
  BY <1>0 DEF ServeStep, SessionFailed, ReturnFailed, AssignSession,
              RemoveEndpoint, WsTypeOK, closeVars, wsVars, CloseInv
<1>4. LeavesAsGone(w) => (Talking(w) => Due(w)')
  BY <1>0 DEF LeavesAsGone, Leave, WsTypeOK, serviceVars, closeVars
<1>5. CloseBegin(w) => (Due(w) => Close(w, "remove")' \/ Close(w, "media")')
  BY <1>0 DEF CloseBegin, WsTypeOK, serviceVars
<1>6. CloseGoesOn(w) =>
        /\ Close(w, "remove") => Close(w, "media")'
        /\ Close(w, "media") => Close(w, "done")'
  BY <1>0 DEF CloseGoesOn, CloseRemove, CloseMedia, WsTypeOK, serviceVars
<1>7. SendEnd(w) => ~Writing(w)'
  BY <1>0 DEF SendEnd, WsTypeOK
<1> QED BY <1>1, <1>2, <1>3, <1>4, <1>5, <1>6, <1>7 DEF Advances

(* Under weak fairness, and strong fairness for taking e.mu, the endpoint  *)
(* of a client that is gone ends, for any number of clients, provided that *)
(* the steps of its goroutines are possible when they are due.             *)
THEOREM GoneClientReleases == WsFairSpec /\ []EndpointNeverStuck => DisconnectReleases
<1> SUFFICES ASSUME NEW w \in Sockets
             PROVE  WsFairSpec /\ []EndpointNeverStuck =>
                      (Gone(w) ~>
                         /\ Returned(w)
                         /\ creates[w] # NoSession => ~Registered(creates[w]))
  BY DEF DisconnectReleases, Gone, Returned
<1>1. EndInv /\ Gone(w) =>
        \/ Stored(w) \/ Connecting(w) \/ Decided(w) \/ Talking(w)
        \/ Due(w) \/ Close(w, "remove") \/ Close(w, "media") \/ Close(w, "done")
        \/ Returned(w)
  <2> SUFFICES ASSUME EndInv
               PROVE  Gone(w) =>
                 \/ Stored(w) \/ Connecting(w) \/ Decided(w) \/ Talking(w)
                 \/ Due(w) \/ Close(w, "remove") \/ Close(w, "media")
                 \/ Close(w, "done") \/ Returned(w)
    OBVIOUS
  <2>1. /\ serve[w] \in {"idle", "requested", "stored", "creating", "failed",
                         "waiting", "returned"}
        /\ closeAt[w] \in {"no", "remove", "media", "done"}
        /\ handler[w] \in {"none", "reading", "offering", "leaving"}
        /\ serve[w] \in {"idle", "requested"} => client[w] = "none"
        /\ serve[w] = "waiting" => handler[w] # "none"
    BY DEF EndInv, GoneInv, IInv, WsTypeOK
  <2> QED BY <2>1 DEF Gone, Stored, Connecting, Decided, Ends, Talking, Due, CloseDue,
                      Close, Returned
<1>2. EndInv /\ [WsNext]_allVars => GoesOn(w)
  BY EndpointGoesOn
<1>3. EndInv => Advances(w)
  BY EndpointAdvances
<1>4. EndpointNeverStuck =>
        /\ Stored(w) => CanCreate(w)
        /\ Connecting(w) => CanConnect(w)
        /\ Decided(w) \/ Close(w, "done") => CanServe(w)
        /\ Gone(w) /\ Talking(w) => CanLeave(w)
        /\ Due(w) /\ ~Writing(w) => CanBegin(w)
        /\ Close(w, "remove") \/ Close(w, "media") => CanClose(w)
        /\ Writing(w) => CanFinish(w)
  <2> SUFFICES ASSUME EndpointNeverStuck
               PROVE  /\ serve[w] = "stored" => CanCreate(w)
                      /\ serve[w] = "creating" /\ status[creates[w]] = "creating"
                           => CanConnect(w)
                      /\ ServeDue(w) => CanServe(w)
                      /\ client[w] = "gone" /\ handler[w] \in {"reading", "offering"}
                           => CanLeave(w)
                      /\ CloseDue(w) /\ ~sending[w] => CanBegin(w)
                      /\ closeAt[w] \in {"remove", "media"} => CanClose(w)
                      /\ sending[w] => CanFinish(w)
    BY DEF ServeDue, Stored, Connecting, Decided, Ends, Gone, Talking, Due, Close,
           Writing
  <2> QED BY Zenon DEF EndpointNeverStuck
<1>5. EndInv /\ Returned(w) =>
        (creates[w] # NoSession => ~Registered(creates[w]))
  BY DEF EndInv, IInv, CloseInv, ClosedHasNoSession, Returned
<1>6. WsFairness => SocketFairness(w)
  BY DEF WsFairness
<1>7. WsInit => EndInv
  BY Starts, GoneStarts DEF EndInv
<1>8. EndInv /\ [WsNext]_allVars => EndInv'
  BY StepKeeps, GoneKeeps DEF EndInv
<1> DEFINE Live == WsFairSpec /\ []EndpointNeverStuck
<1>9. Live => []EndInv /\ [](Gone(w) => []Gone(w))
  BY <1>2, <1>7, <1>8, PTL DEF WsFairSpec, WsSpec, GoesOn
<1>10. Live =>
        /\ (Stored(w) ~> Connecting(w))
        /\ (Connecting(w) ~> Decided(w))
  BY <1>2, <1>3, <1>4, <1>6, <1>9, PTL
     DEF WsFairSpec, WsSpec, SocketFairness, GoesOn, Advances, CanCreate,
         CanConnect
<1>11. Live =>
        /\ (Decided(w) ~> Due(w) \/ Talking(w))
        /\ (Close(w, "done") ~> Returned(w))
  BY <1>2, <1>3, <1>4, <1>6, <1>9, PTL
     DEF WsFairSpec, WsSpec, SocketFairness, GoesOn, Advances, CanServe
<1>12. Live => (Gone(w) /\ Talking(w) ~> Due(w))
  BY <1>2, <1>3, <1>4, <1>6, <1>9, PTL
     DEF WsFairSpec, WsSpec, SocketFairness, GoesOn, Advances, CanLeave
<1>13. Live => (Due(w) ~> Close(w, "remove") \/ Close(w, "media"))
  BY <1>2, <1>3, <1>4, <1>6, <1>9, PTL
     DEF WsFairSpec, WsSpec, SocketFairness, GoesOn, Advances, CanBegin,
         CanFinish
<1>14. Live =>
        /\ (Close(w, "remove") ~> Close(w, "media"))
        /\ (Close(w, "media") ~> Close(w, "done"))
  BY <1>2, <1>3, <1>4, <1>6, <1>9, PTL
     DEF WsFairSpec, WsSpec, SocketFairness, GoesOn, Advances, CanClose
<1> QED BY <1>1, <1>5, <1>9, <1>10, <1>11, <1>12, <1>13, <1>14, PTL
===============================================================================
