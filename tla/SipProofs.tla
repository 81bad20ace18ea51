------------------------------ MODULE SipProofs -------------------------------
(***************************************************************************)
(* Proofs that the safety properties of SipServer.tla hold for every set   *)
(* of Call-IDs, endpoints and sessions.                                    *)
(***************************************************************************)
EXTENDS SipServer, TLAPS

(* The registry maps an id to a registered object of that id.              *)
RegInv ==
  /\ RegTypeOK
  /\ \A i \in SessionIds :
       sessions[i] # NoSession =>
         sid[sessions[i]] = i /\ status[sessions[i]] = "registered"
  /\ \A s \in Sessions : status[s] # "idle" => sid[s] \in SessionIds

(* Another INVITE with the Call-ID of e was stored.                        *)
Replaced(e) ==
  \E f \in Endpoints \ {e} : callID[f] = callID[e] /\ invite[f] \in Visible

(* s.endpoints holds a visible endpoint under its Call-ID, until a BYE     *)
(* takes it out; and one that is not there was hung up or replaced.        *)
MapInv ==
  /\ \A i \in SessionIds :
       endpoints[i] # NoEndpoint =>
         /\ callID[endpoints[i]] = i
         /\ invite[endpoints[i]] \in Visible
         /\ closing[endpoints[i]]["bye"] = "idle"
  /\ \A e \in Endpoints :
       invite[e] \in Visible =>
         \/ endpoints[callID[e]] = e
         \/ closing[e]["bye"] # "idle"
         \/ Replaced(e)

(* Sessions that an endpoint or a closer refers to are registered under    *)
(* the endpoint's Call-ID.                                                 *)
AckInv ==
  /\ \A s \in Sessions :
       /\ owner[s] # NoEndpoint => invite[owner[s]] \in Visible
       /\ ack[s] \in {"creating", "done"} =>
            status[s] # "idle" /\ sid[s] = callID[owner[s]]
  /\ \A e \in Endpoints :
       /\ session[e] # NoSession =>
            status[session[e]] = "registered" /\ sid[session[e]] = callID[e]
       /\ \A k \in Closers :
            found[e][k] # NoSession =>
              status[found[e][k]] = "registered" /\ sid[found[e][k]] = callID[e]

(* Nobody closes an endpoint that is not visible, and whoever is past the  *)
(* compare-and-swap has seen it closed.                                    *)
CloseInv ==
  /\ OneCloserCloses
  /\ \A e \in Endpoints :
       /\ invite[e] \notin Visible =>
            ~closed[e] /\ \A k \in Closers : closing[e][k] = "idle"
       /\ \A k \in Closers : closing[e][k] \in {"sleeping", "done"} => closed[e]

(* Stop closes an endpoint at most once and waits for it; an endpoint of   *)
(* its beginning that is still in the map it has visited or will visit.    *)
StopInv ==
  /\ StopClosesUnlessReplaced
  /\ \A e \in Endpoints :
       closing[e]["stop"] # "idle" =>
         /\ callID[e] \notin stopTodo
         /\ stop # "serving"
         /\ closing[e]["stop"] = "done" \/ stopCur = e
  /\ \A e \in atStop :
       /\ invite[e] \in Visible
       /\ endpoints[callID[e]] = e =>
            callID[e] \in stopTodo \/ closing[e]["stop"] # "idle"

IInv ==
  /\ SipTypeOK
  /\ RegInv
  /\ MapInv
  /\ AckInv
  /\ CloseInv
  /\ StopInv
  /\ FoundRemovedFirst

-------------------------------------------------------------------------------
(* The closers of an endpoint.                                             *)
LEMMA TwoClosers == \A k : k \in Closers <=> k = "bye" \/ k = "stop"
BY DEF Closers

(* Initially there is no call.                                             *)
LEMMA Starts == SipInit => IInv
<1> SUFFICES ASSUME SipInit PROVE IInv
  OBVIOUS
<1> USE DEF SipInit, RegInit
<1>1. SipTypeOK
  BY SipAssumption DEF SipTypeOK
<1>2. RegInv
  BY DEF RegInv, RegTypeOK, Statuses
<1>3. MapInv
  BY DEF MapInv, Visible
<1>4. AckInv
  BY DEF AckInv
<1>5. CloseInv
  <2>1. \A e \in Endpoints, k \in Closers : closing[e][k] = "idle"
    OBVIOUS
  <2>2. OneCloserCloses
    BY <2>1, TwoClosers DEF OneCloserCloses
  <2> QED BY <2>1, <2>2 DEF CloseInv
<1>6. StopInv
  <2>1. \A e \in Endpoints : closing[e]["stop"] = "idle"
    BY TwoClosers
  <2> QED BY <2>1 DEF StopInv, StopClosesUnlessReplaced
<1>7. FoundRemovedFirst
  BY DEF FoundRemovedFirst
<1> QED BY <1>1, <1>2, <1>3, <1>4, <1>5, <1>6, <1>7 DEF IInv

(* An endpoint has its Call-ID from its INVITE on.                         *)
LEMMA InvitedHasId ==
  ASSUME IInv
  PROVE  \A e \in Endpoints : invite[e] # "idle" <=> callID[e] \in SessionIds
BY SipAssumption DEF IInv, SipTypeOK

(* A replaced endpoint stays replaced.                                     *)
LEMMA StaysReplaced ==
  ASSUME IInv,
         \A f \in Endpoints : invite[f] \in Visible =>
           invite'[f] \in Visible /\ callID'[f] = callID[f]
  PROVE  \A e \in Endpoints : invite[e] \in Visible /\ Replaced(e) => Replaced(e)'
BY DEF Replaced

(* A step that leaves the registry and the closers alone.                  *)
LEMMA FoundUntouched ==
  ASSUME IInv, UNCHANGED <<sessions, closing, found>>
  PROVE  FoundRemovedFirst'
BY DEF IInv, FoundRemovedFirst, Registered

LEMMA RegistryUntouched ==
  ASSUME IInv, UNCHANGED regVars
  PROVE  RegInv'
BY DEF IInv, RegInv, RegTypeOK, regVars

-------------------------------------------------------------------------------
(* A new endpoint, not visible yet.                                        *)
LEMMA InviteBindKeeps ==
  ASSUME IInv, NEW e \in Endpoints, NEW i \in SessionIds,
         InviteBind(e, i)
  PROVE  IInv'
<1>0. /\ invite[e] = "idle" /\ invite' = [invite EXCEPT ![e] = "bound"]
      /\ callID' = [callID EXCEPT ![e] = i]
      /\ sock' = [sock EXCEPT ![e] = "open"]
      /\ UNCHANGED <<regVars, endpoints, active, closed, cancelled, rtp,
                     ackVars, closeVars, stopVars>>
  BY DEF InviteBind
<1>1. SipTypeOK'
  BY <1>0, SipAssumption
     DEF IInv, SipTypeOK, inviteVars, mediaVars, ackVars, closeVars, stopVars,
         regVars
<1>2. RegInv'
  BY <1>0, RegistryUntouched DEF regVars
<1>3. MapInv'
  <2>1. /\ \A f \in Endpoints : invite[f] \in Visible =>
               f # e /\ invite'[f] \in Visible /\ callID'[f] = callID[f]
        /\ \A f \in Endpoints : invite'[f] \in Visible => invite[f] \in Visible
        /\ UNCHANGED <<endpoints, closing>>
    BY <1>0 DEF IInv, SipTypeOK, Visible, closeVars
  <2>2. \A f \in Endpoints : invite[f] \in Visible /\ Replaced(f) => Replaced(f)'
    BY <2>1, StaysReplaced
  <2>3. \A j \in SessionIds :
          endpoints[j] \in Endpoints \/ endpoints[j] = NoEndpoint
    BY DEF IInv, SipTypeOK
  <2> QED BY <2>1, <2>2, <2>3 DEF IInv, MapInv
<1>4. AckInv'
  <2>1. \A s \in Sessions : status[s] # "idle" => sid[s] # callID[e]
    BY <1>0, InvitedHasId DEF IInv, RegInv
  <2>2. /\ session[e] = NoSession
        /\ \A k \in Closers : found[e][k] = NoSession
        /\ \A s \in Sessions : owner[s] # e
    <3>1. /\ session[e] \in Sessions \cup {NoSession}
          /\ \A k \in Closers : found[e][k] \in Sessions \cup {NoSession}
          /\ invite[e] \notin Visible /\ e # NoEndpoint
      BY <1>0, SipAssumption DEF IInv, SipTypeOK, Visible
    <3> QED BY <2>1, <3>1 DEF IInv, AckInv
  <2>3. /\ \A f \in Endpoints : f # e => callID'[f] = callID[f]
        /\ \A f \in Endpoints : invite[f] \in Visible => invite'[f] \in Visible
        /\ UNCHANGED <<status, sid, session, ack, owner, found>>
    BY <1>0 DEF IInv, SipTypeOK, Visible, ackVars, closeVars, regVars
  <2> QED BY <2>2, <2>3 DEF IInv, SipTypeOK, AckInv
<1>5. CloseInv'
  <2>1. /\ UNCHANGED <<closing, closed>>
        /\ \A f \in Endpoints : f # e => sock'[f] = sock[f]
        /\ \A f \in Endpoints : invite'[f] \notin Visible =>
             invite[f] \notin Visible
        /\ ~closed[e]
    <3>1. UNCHANGED <<closing, closed>>
      BY <1>0 DEF closeVars
    <3>2. /\ \A f \in Endpoints : f # e => sock'[f] = sock[f]
          /\ \A f \in Endpoints : f # e => invite'[f] = invite[f]
      BY <1>0 DEF IInv, SipTypeOK
    <3>3. invite[e] \notin Visible
      BY <1>0 DEF Visible
    <3>4. ~closed[e]
      BY <3>3 DEF IInv, CloseInv
    <3> QED BY ONLY <3>1, <3>2, <3>3, <3>4
  <2>2. OneCloserCloses'
    BY <2>1 DEF IInv, CloseInv, OneCloserCloses
  <2> QED BY <2>1, <2>2 DEF IInv, CloseInv
<1>6. StopInv'
  <2>1. /\ \A f \in Endpoints : f # e => callID'[f] = callID[f]
        /\ \A f \in Endpoints : invite[f] # "idle" => f # e /\ invite'[f] # "idle"
        /\ \A f \in Endpoints : invite[f] \in Visible =>
             f # e /\ invite'[f] \in Visible
        /\ UNCHANGED <<endpoints, closed, closing, stop, stopTodo, stopCur,
                       atStop>>
    BY <1>0 DEF IInv, SipTypeOK, Visible, closeVars, stopVars
  <2>2. e \notin atStop /\ closing[e]["stop"] = "idle"
    BY <1>0, TwoClosers DEF IInv, StopInv, CloseInv, Visible
  <2>3. \A f \in atStop : f \in Endpoints /\ f # e
    BY <2>2 DEF IInv, SipTypeOK
  <2>4. \A f \in atStop : Replaced(f) => Replaced(f)'
    BY <2>1, <2>3 DEF Replaced
  <2>5. StopClosesUnlessReplaced'
    BY <2>1, <2>3, <2>4 DEF IInv, StopInv, StopClosesUnlessReplaced, Replaced
  <2> QED BY <2>1, <2>2, <2>3, <2>5 DEF IInv, StopInv
<1>7. FoundRemovedFirst'
  BY <1>0, FoundUntouched DEF regVars, closeVars
<1> QED BY <1>1, <1>2, <1>3, <1>4, <1>5, <1>6, <1>7 DEF IInv

(* The endpoint becomes visible; another one of its Call-ID is replaced.   *)
LEMMA InviteStoreKeeps ==
  ASSUME IInv, NEW e \in Endpoints, InviteStore(e)
  PROVE  IInv'
<1>0. /\ invite[e] = "bound" /\ invite' = [invite EXCEPT ![e] = "stored"]
      /\ endpoints' = [endpoints EXCEPT ![callID[e]] = e]
      /\ callID[e] \in SessionIds
      /\ UNCHANGED <<regVars, active, closed, callID, mediaVars, ackVars,
                     closeVars, stopVars>>
  BY DEF InviteStore, IInv, SipTypeOK
<1>1. SipTypeOK'
  BY <1>0, SipAssumption
     DEF IInv, SipTypeOK, inviteVars, mediaVars, ackVars, closeVars, stopVars,
         regVars
<1>2. RegInv'
  BY <1>0, RegistryUntouched DEF regVars
<1>3. MapInv'
  <2>1. /\ \A i \in SessionIds : i # callID[e] => endpoints'[i] = endpoints[i]
        /\ endpoints'[callID[e]] = e
        /\ invite'[e] = "stored"
        /\ \A f \in Endpoints : f # e => invite'[f] = invite[f]
        /\ UNCHANGED <<callID, closing>>
    BY <1>0 DEF IInv, SipTypeOK, closeVars
  <2>2. closing[e]["bye"] = "idle"
    BY <1>0, TwoClosers DEF IInv, CloseInv, Visible
  <2>3. \A f \in Endpoints : f # e /\ callID[f] = callID[e] => Replaced(f)'
    BY <2>1 DEF Replaced, Visible
  <2>4. \A f \in Endpoints : Replaced(f) => Replaced(f)'
    BY <2>1 DEF Replaced, Visible
  <2>5. \A f \in Endpoints : invite[f] \in Visible => callID[f] \in SessionIds
    BY InvitedHasId DEF Visible
  <2>6. ASSUME NEW i \in SessionIds, endpoints'[i] # NoEndpoint
        PROVE  /\ callID[endpoints'[i]] = i
               /\ invite'[endpoints'[i]] \in Visible
               /\ closing[endpoints'[i]]["bye"] = "idle"
    BY <1>0, <2>1, <2>2, <2>6 DEF IInv, SipTypeOK, MapInv, Visible
  <2>7. ASSUME NEW f \in Endpoints, invite'[f] \in Visible
        PROVE  \/ endpoints'[callID[f]] = f
               \/ closing[f]["bye"] # "idle"
               \/ Replaced(f)'
    BY <2>1, <2>3, <2>4, <2>5, <2>7 DEF IInv, MapInv
  <2> QED BY <2>1, <2>6, <2>7 DEF MapInv
<1>4. AckInv'
  BY <1>0
     DEF IInv, SipTypeOK, AckInv, Visible, inviteVars, mediaVars, ackVars,
         closeVars, stopVars, regVars
<1>5. CloseInv'
  BY <1>0, TwoClosers
     DEF IInv, SipTypeOK, CloseInv, OneCloserCloses, Visible, inviteVars,
         mediaVars, ackVars, closeVars, stopVars, regVars
<1>6. StopInv'
  <2>1. /\ \A f \in Endpoints : invite[f] \in Visible =>
               f # e /\ invite'[f] \in Visible /\ callID'[f] = callID[f]
        /\ \A i \in SessionIds : endpoints'[i] # e => endpoints'[i] = endpoints[i]
    BY <1>0 DEF IInv, SipTypeOK, Visible
  <2>2. UNCHANGED <<callID, closed, closing, stop, stopTodo, stopCur, atStop>>
    BY <1>0 DEF closeVars, stopVars
  <2>3. \A f \in atStop :
          f \in Endpoints /\ invite[f] \in Visible /\ callID[f] \in SessionIds
    BY InvitedHasId DEF IInv, SipTypeOK, StopInv, Visible
  <2>4. \A f \in atStop : Replaced(f) => Replaced(f)'
    BY <2>1, <2>3, StaysReplaced
  <2>5. StopClosesUnlessReplaced'
    BY <2>2, <2>4 DEF IInv, StopInv, StopClosesUnlessReplaced, Replaced
  <2>6. \A f \in atStop :
          endpoints'[callID[f]] = f => endpoints[callID[f]] = f
    BY <2>1, <2>3
  <2> QED BY <2>1, <2>2, <2>3, <2>5, <2>6 DEF IInv, StopInv
<1>7. FoundRemovedFirst'
  BY <1>0, FoundUntouched DEF regVars, closeVars
<1> QED BY <1>1, <1>2, <1>3, <1>4, <1>5, <1>6, <1>7 DEF IInv

(* The RTP reader starts.                                                  *)
LEMMA InviteStartRtpKeeps ==
  ASSUME IInv, NEW e \in Endpoints, InviteStartRtp(e)
  PROVE  IInv'
<1>0. /\ invite[e] = "stored" /\ invite' = [invite EXCEPT ![e] = "running"]
      /\ rtp' = [rtp EXCEPT ![e] = "running"]
      /\ UNCHANGED <<regVars, endpoints, active, closed, callID, sock,
                     cancelled, ackVars, closeVars, stopVars>>
  BY DEF InviteStartRtp
<1>1. SipTypeOK'
  BY <1>0, SipAssumption
     DEF IInv, SipTypeOK, inviteVars, mediaVars, ackVars, closeVars, stopVars,
         regVars
<1>2. RegInv'
  BY <1>0, RegistryUntouched DEF regVars
<1>3. MapInv'
  BY <1>0
     DEF IInv, SipTypeOK, MapInv, Replaced, Visible, inviteVars, mediaVars,
         ackVars, closeVars, stopVars, regVars
<1>4. AckInv'
  BY <1>0
     DEF IInv, SipTypeOK, AckInv, Visible, inviteVars, mediaVars, ackVars,
         closeVars, stopVars, regVars
<1>5. CloseInv'
  BY <1>0, TwoClosers
     DEF IInv, SipTypeOK, CloseInv, OneCloserCloses, Visible, inviteVars,
         mediaVars, ackVars, closeVars, stopVars, regVars
<1>6. StopInv'
  <2>1. \A f \in Endpoints : invite[f] \in Visible =>
          invite'[f] \in Visible /\ callID'[f] = callID[f]
    BY <1>0 DEF IInv, SipTypeOK, Visible
  <2>2. UNCHANGED <<endpoints, callID, closed, closing, stop, stopTodo, stopCur,
                    atStop>>
    BY <1>0 DEF closeVars, stopVars
  <2>3. \A f \in atStop : f \in Endpoints /\ invite[f] \in Visible
    BY DEF IInv, SipTypeOK, StopInv
  <2>4. \A f \in atStop : Replaced(f) => Replaced(f)'
    BY <2>1, <2>3, StaysReplaced
  <2>5. StopClosesUnlessReplaced'
    BY <2>2, <2>4 DEF IInv, StopInv, StopClosesUnlessReplaced, Replaced
  <2> QED BY <2>1, <2>2, <2>3, <2>5 DEF IInv, StopInv
<1>7. FoundRemovedFirst'
  BY <1>0, FoundUntouched DEF regVars, closeVars
<1> QED BY <1>1, <1>2, <1>3, <1>4, <1>5, <1>6, <1>7 DEF IInv

(* And ends.                                                               *)
LEMMA RtpExitKeeps ==
  ASSUME IInv, NEW e \in Endpoints, RtpExit(e)
  PROVE  IInv'
<1>0. /\ rtp' = [rtp EXCEPT ![e] = "exited"]
      /\ UNCHANGED <<regVars, endpoints, active, closed, inviteVars, sock,
                     cancelled, ackVars, closeVars, stopVars>>
  BY DEF RtpExit
<1>1. SipTypeOK'
  BY <1>0, SipAssumption
     DEF IInv, SipTypeOK, inviteVars, mediaVars, ackVars, closeVars, stopVars,
         regVars
<1>2. RegInv'
  BY <1>0, RegistryUntouched DEF regVars
<1>3. MapInv'
  BY <1>0
     DEF IInv, SipTypeOK, MapInv, Replaced, Visible, inviteVars, mediaVars,
         ackVars, closeVars, stopVars, regVars
<1>4. AckInv'
  BY <1>0
     DEF IInv, SipTypeOK, AckInv, Visible, inviteVars, mediaVars, ackVars,
         closeVars, stopVars, regVars
<1>5. CloseInv'
  BY <1>0, TwoClosers
     DEF IInv, SipTypeOK, CloseInv, OneCloserCloses, Visible, inviteVars,
         mediaVars, ackVars, closeVars, stopVars, regVars
<1>6. StopInv'
  BY <1>0
     DEF IInv, SipTypeOK, StopInv, StopClosesUnlessReplaced, Visible,
         inviteVars, mediaVars, ackVars, closeVars, stopVars, regVars
<1>7. FoundRemovedFirst'
  BY <1>0, FoundUntouched DEF regVars, closeVars
<1> QED BY <1>1, <1>2, <1>3, <1>4, <1>5, <1>6, <1>7 DEF IInv

-------------------------------------------------------------------------------
(* An ACK finds a visible endpoint.                                        *)
LEMMA AckLoadKeeps ==
  ASSUME IInv, NEW s \in Sessions, NEW i \in SessionIds,
         AckLoad(s, i)
  PROVE  IInv'
<1>0. /\ ack[s] = "idle" /\ ack' = [ack EXCEPT ![s] = "loaded"]
      /\ endpoints[i] \in Endpoints /\ endpoints[i] # NoEndpoint
      /\ owner' = [owner EXCEPT ![s] = endpoints[i]]
      /\ UNCHANGED <<regVars, endpoints, active, closed, inviteVars, mediaVars,
                     session, closeVars, stopVars>>
  BY SipAssumption DEF AckLoad, IInv, SipTypeOK
<1>1. SipTypeOK'
  BY <1>0, SipAssumption
     DEF IInv, SipTypeOK, inviteVars, mediaVars, ackVars, closeVars, stopVars,
         regVars
<1>2. RegInv'
  BY <1>0, RegistryUntouched DEF regVars
<1>3. MapInv'
  BY <1>0
     DEF IInv, SipTypeOK, MapInv, Replaced, Visible, inviteVars, mediaVars,
         ackVars, closeVars, stopVars, regVars
<1>4. AckInv'
  BY <1>0
     DEF IInv, SipTypeOK, AckInv, MapInv, Visible, inviteVars, mediaVars,
         ackVars, closeVars, stopVars, regVars
<1>5. CloseInv'
  BY <1>0, TwoClosers
     DEF IInv, SipTypeOK, CloseInv, OneCloserCloses, Visible, inviteVars,
         mediaVars, ackVars, closeVars, stopVars, regVars
<1>6. StopInv'
  BY <1>0
     DEF IInv, SipTypeOK, StopInv, StopClosesUnlessReplaced, Visible,
         inviteVars, mediaVars, ackVars, closeVars, stopVars, regVars
<1>7. FoundRemovedFirst'
  BY <1>0, FoundUntouched DEF regVars, closeVars
<1> QED BY <1>1, <1>2, <1>3, <1>4, <1>5, <1>6, <1>7 DEF IInv

(* It calls CreateSession with the Call-ID of the endpoint.                *)
LEMMA AckCreateKeeps ==
  ASSUME IInv, NEW s \in Sessions, AckCreateSession(s)
  PROVE  IInv'
<1>0. /\ ack[s] = "loaded" /\ ack' = [ack EXCEPT ![s] = "creating"]
      /\ owner[s] \in Endpoints /\ callID[owner[s]] \in SessionIds
      /\ active' = [active EXCEPT ![owner[s]] = TRUE]
      /\ status[s] = "idle" /\ status' = [status EXCEPT ![s] = "creating"]
      /\ sid' = [sid EXCEPT ![s] = callID[owner[s]]]
      /\ UNCHANGED <<sessions, endpoints, closed, inviteVars, mediaVars,
                     session, owner, closeVars, stopVars>>
  <2>1. owner[s] \in Endpoints /\ owner[s] # NoEndpoint
    BY DEF AckCreateSession, IInv, SipTypeOK
  <2>2. callID[owner[s]] \in SessionIds
    BY <2>1, InvitedHasId DEF IInv, AckInv, Visible
  <2> QED BY <2>1, <2>2 DEF AckCreateSession, BeginCreate
<1>1. SipTypeOK'
  BY <1>0, SipAssumption
     DEF IInv, SipTypeOK, inviteVars, mediaVars, ackVars, closeVars, stopVars,
         regVars
<1>2. RegInv'
  BY <1>0, SipAssumption DEF IInv, RegInv, RegTypeOK, Statuses
<1>3. MapInv'
  BY <1>0
     DEF IInv, SipTypeOK, MapInv, Replaced, Visible, inviteVars, mediaVars,
         ackVars, closeVars, stopVars, regVars
<1>4. AckInv'
  BY <1>0, SipAssumption
     DEF IInv, SipTypeOK, RegInv, RegTypeOK, AckInv, Visible, inviteVars,
         mediaVars, ackVars, closeVars, stopVars, regVars
<1>5. CloseInv'
  BY <1>0, TwoClosers
     DEF IInv, SipTypeOK, CloseInv, OneCloserCloses, Visible, inviteVars,
         mediaVars, ackVars, closeVars, stopVars, regVars
<1>6. StopInv'
  BY <1>0
     DEF IInv, SipTypeOK, StopInv, StopClosesUnlessReplaced, Visible,
         inviteVars, mediaVars, ackVars, closeVars, stopVars, regVars
<1>7. FoundRemovedFirst'
  BY <1>0, FoundUntouched DEF closeVars
<1> QED BY <1>1, <1>2, <1>3, <1>4, <1>5, <1>6, <1>7 DEF IInv

(* The session it created becomes the endpoint's.                          *)
LEMMA AckAssignKeeps ==
  ASSUME IInv, NEW s \in Sessions, AckAssign(s)
  PROVE  IInv'
<1>0. /\ ack[s] = "creating" /\ ack' = [ack EXCEPT ![s] = "done"]
      /\ status[s] = "registered" /\ owner[s] \in Endpoints
      /\ session' = [session EXCEPT ![owner[s]] = s]
      /\ UNCHANGED <<regVars, endpoints, active, closed, inviteVars, mediaVars,
                     owner, closeVars, stopVars>>
  BY DEF AckAssign, IInv, SipTypeOK
<1>1. SipTypeOK'
  BY <1>0, SipAssumption
     DEF IInv, SipTypeOK, inviteVars, mediaVars, ackVars, closeVars, stopVars,
         regVars
<1>2. RegInv'
  BY <1>0, RegistryUntouched DEF regVars
<1>3. MapInv'
  BY <1>0
     DEF IInv, SipTypeOK, MapInv, Replaced, Visible, inviteVars, mediaVars,
         ackVars, closeVars, stopVars, regVars
<1>4. AckInv'
  BY <1>0
     DEF IInv, SipTypeOK, AckInv, Visible, inviteVars, mediaVars, ackVars,
         closeVars, stopVars, regVars
<1>5. CloseInv'
  BY <1>0, TwoClosers
     DEF IInv, SipTypeOK, CloseInv, OneCloserCloses, Visible, inviteVars,
         mediaVars, ackVars, closeVars, stopVars, regVars
<1>6. StopInv'
  BY <1>0
     DEF IInv, SipTypeOK, StopInv, StopClosesUnlessReplaced, Visible,
         inviteVars, mediaVars, ackVars, closeVars, stopVars, regVars
<1>7. FoundRemovedFirst'
  BY <1>0, FoundUntouched DEF regVars, closeVars
<1> QED BY <1>1, <1>2, <1>3, <1>4, <1>5, <1>6, <1>7 DEF IInv

-------------------------------------------------------------------------------
(* closeEndpoint is entered by k for a visible endpoint that k did not     *)
(* close before.                                                           *)
LEMMA DeactivateKeeps ==
  ASSUME IInv, NEW e \in Endpoints, NEW k \in Closers,
         Deactivate(e, k), invite[e] \in Visible, closing[e][k] = "idle",
         UNCHANGED <<regVars, closed, inviteVars, mediaVars, ackVars>>
  PROVE  /\ active' \in [Endpoints -> BOOLEAN]
         /\ closing' \in [Endpoints -> [Closers -> {"idle", "remove", "removed",
                           "sleeping", "done"}]]
         /\ found' \in [Endpoints -> [Closers -> Sessions \cup {NoSession}]]
         /\ closing'[e][k] \in {"remove", "removed"}
         /\ \A f \in Endpoints, j \in Closers :
              f # e \/ j # k => closing'[f][j] = closing[f][j]
         /\ RegInv' /\ AckInv' /\ CloseInv' /\ FoundRemovedFirst'
<1>1. /\ active' = [active EXCEPT ![e] = FALSE]
      /\ found' = [found EXCEPT ![e][k] = session[e]]
      /\ closing' = [closing EXCEPT ![e][k] =
                       IF session[e] = NoSession THEN "removed" ELSE "remove"]
  BY DEF Deactivate
<1>2. /\ active' \in [Endpoints -> BOOLEAN]
      /\ closing' \in [Endpoints -> [Closers -> {"idle", "remove", "removed",
                        "sleeping", "done"}]]
      /\ found' \in [Endpoints -> [Closers -> Sessions \cup {NoSession}]]
  BY <1>1 DEF IInv, SipTypeOK
<1>3. /\ closing'[e][k] = IF session[e] = NoSession THEN "removed" ELSE "remove"
      /\ found'[e][k] = session[e]
      /\ \A f \in Endpoints, j \in Closers :
           f # e \/ j # k => /\ closing'[f][j] = closing[f][j]
                            /\ found'[f][j] = found[f][j]
  BY <1>1 DEF IInv, SipTypeOK
<1>4. RegInv'
  BY RegistryUntouched
<1>5. AckInv'
  <2>1. UNCHANGED <<status, sid, callID, invite, owner, ack, session>>
    BY DEF regVars, inviteVars, ackVars
  <2>2. \A f \in Endpoints, j \in Closers :
          found'[f][j] = found[f][j] \/ (f = e /\ found'[f][j] = session[f])
    BY <1>3
  <2> QED BY <2>1, <2>2 DEF IInv, AckInv
<1>6. CloseInv'
  <2>1. /\ \A f \in Endpoints : f # e => closing'[f] = closing[f]
        /\ \A j \in Closers : closing'[e][j] \in {"sleeping", "done"} =>
             closing[e][j] \in {"sleeping", "done"}
        /\ \A j \in Closers : closing[e][j] = "sleeping" =>
             closing'[e][j] = "sleeping"
    BY <1>1, <1>3 DEF IInv, SipTypeOK
  <2>2. OneCloserCloses'
    BY <1>3, <2>1, TwoClosers DEF IInv, CloseInv, OneCloserCloses, mediaVars
  <2>3. \A f \in Endpoints : invite'[f] \notin Visible => f # e
    BY DEF inviteVars
  <2> QED BY <1>3, <2>1, <2>2, <2>3 DEF IInv, CloseInv, inviteVars
<1>7. FoundRemovedFirst'
  BY <1>3 DEF IInv, FoundRemovedFirst, Registered, regVars
<1> QED BY <1>2, <1>3, <1>4, <1>5, <1>6, <1>7

(* BYE or CANCEL: the endpoint leaves the map.                             *)
LEMMA ByeKeeps ==
  ASSUME IInv, NEW i \in SessionIds, ByeLoadAndDelete(i)
  PROVE  IInv'
<1> DEFINE e == endpoints[i]
<1>0. /\ e \in Endpoints /\ e # NoEndpoint
      /\ callID[e] = i /\ invite[e] \in Visible /\ closing[e]["bye"] = "idle"
      /\ "bye" \in Closers
      /\ endpoints' = [endpoints EXCEPT ![i] = NoEndpoint]
      /\ Deactivate(e, "bye")
      /\ UNCHANGED <<regVars, closed, inviteVars, mediaVars, ackVars, stopVars>>
  BY SipAssumption, TwoClosers DEF ByeLoadAndDelete, IInv, SipTypeOK, MapInv
<1>1. /\ closing'[e]["bye"] # "idle"
      /\ \A f \in Endpoints, j \in Closers :
           f # e \/ j # "bye" => closing'[f][j] = closing[f][j]
      /\ RegInv' /\ AckInv' /\ CloseInv' /\ FoundRemovedFirst'
  BY <1>0, DeactivateKeeps
<1>2. SipTypeOK'
  BY <1>0, DeactivateKeeps
     DEF IInv, SipTypeOK, inviteVars, mediaVars, ackVars, stopVars
<1>3. /\ \A j \in SessionIds : j # i => endpoints'[j] = endpoints[j]
      /\ endpoints'[i] = NoEndpoint
      /\ UNCHANGED <<callID, invite, closed, stop, stopTodo, stopCur, atStop>>
      /\ \A f \in Endpoints : Replaced(f)' = Replaced(f)
      /\ \A f \in Endpoints : closing'[f]["stop"] = closing[f]["stop"]
      /\ \A f \in Endpoints : f # e => closing'[f]["bye"] = closing[f]["bye"]
  BY <1>0, <1>1, TwoClosers DEF IInv, SipTypeOK, Replaced, inviteVars, stopVars
<1>4. \A f \in Endpoints : invite[f] \in Visible => callID[f] \in SessionIds
  BY InvitedHasId DEF Visible
<1>5. MapInv'
  <2>1. ASSUME NEW j \in SessionIds, endpoints'[j] # NoEndpoint
        PROVE  /\ callID[endpoints'[j]] = j
               /\ invite[endpoints'[j]] \in Visible
               /\ closing'[endpoints'[j]]["bye"] = "idle"
    <3>1. j # i /\ endpoints'[j] = endpoints[j] /\ endpoints[j] \in Endpoints
      BY <1>3, <2>1 DEF IInv, SipTypeOK
    <3>2. endpoints[j] # e
      BY <1>0, <2>1, <3>1 DEF IInv, MapInv
    <3> QED BY <1>3, <2>1, <3>1, <3>2 DEF IInv, MapInv
  <2>2. ASSUME NEW f \in Endpoints, invite[f] \in Visible
        PROVE  \/ endpoints'[callID[f]] = f
               \/ closing'[f]["bye"] # "idle"
               \/ Replaced(f)
    <3>1. CASE f = e
      BY <1>1, <3>1
    <3>2. CASE f # e
      <4>1. endpoints[callID[f]] = f => callID[f] # i
        BY <3>2
      <4> QED BY <1>3, <1>4, <2>2, <3>2, <4>1 DEF IInv, MapInv
    <3> QED BY <3>1, <3>2
  <2> QED BY <1>3, <2>1, <2>2 DEF MapInv
<1>6. StopInv'
  <2>1. StopClosesUnlessReplaced'
    <3>1. \A f \in atStop : f \in Endpoints
      BY DEF IInv, SipTypeOK
    <3> QED BY <1>1, <1>3, <3>1
            DEF IInv, StopInv, StopClosesUnlessReplaced, Replaced
  <2>2. ASSUME NEW f \in atStop, endpoints'[callID[f]] = f
        PROVE  endpoints[callID[f]] = f
    <3>1. f \in Endpoints /\ invite[f] \in Visible
      BY DEF IInv, SipTypeOK, StopInv
    <3>2. f # NoEndpoint /\ callID[f] \in SessionIds
      BY <1>4, <3>1, SipAssumption
    <3> QED BY <1>3, <2>2, <3>2
  <2>3. \A f \in atStop : f \in Endpoints
    BY DEF IInv, SipTypeOK
  <2> QED BY <1>3, <2>1, <2>2, <2>3 DEF IInv, StopInv
<1> QED BY <1>1, <1>2, <1>5, <1>6 DEF IInv

(* RemoveSession: the Call-ID has no session afterwards, hence the one the *)
(* closer found is not registered.                                         *)
LEMMA CloseRemoveKeeps ==
  ASSUME IInv, NEW e \in Endpoints, NEW k \in Closers,
         CloseRemove(e, k)
  PROVE  IInv'
<1>0. /\ closing[e][k] = "remove" /\ invite[e] \in Visible
      /\ closing' = [closing EXCEPT ![e][k] = "removed"]
      /\ callID[e] \in SessionIds
      /\ sessions' = [sessions EXCEPT ![callID[e]] = NoSession]
      /\ sid' = sid /\ status' = status
      /\ closing'[e][k] = "removed"
      /\ \A f \in Endpoints, j \in Closers :
           f # e \/ j # k => closing'[f][j] = closing[f][j]
      /\ UNCHANGED <<endpoints, active, closed, inviteVars, mediaVars, ackVars,
                     found, stopVars>>
  BY DEF CloseRemove, DropSession, regVars, IInv, SipTypeOK, RegInv, RegTypeOK,
         CloseInv, Visible
<1>1. SipTypeOK'
  BY <1>0, SipAssumption
     DEF IInv, SipTypeOK, inviteVars, mediaVars, ackVars, closeVars, stopVars,
         regVars
<1>2. RegInv'
  BY <1>0 DEF IInv, RegInv, RegTypeOK
<1>3. MapInv'
  BY <1>0, TwoClosers
     DEF IInv, SipTypeOK, MapInv, Replaced, Visible, inviteVars
<1>4. AckInv'
  BY <1>0 DEF IInv, SipTypeOK, AckInv, Visible, inviteVars, ackVars
<1>5. CloseInv'
  BY <1>0, TwoClosers
     DEF IInv, SipTypeOK, CloseInv, OneCloserCloses, Visible, inviteVars,
         mediaVars
<1>6. StopInv'
  BY <1>0, TwoClosers
     DEF IInv, SipTypeOK, StopInv, StopClosesUnlessReplaced, Visible,
         inviteVars, stopVars
<1>7. FoundRemovedFirst'
  <2>1. \A s \in Sessions : Registered(s)' => Registered(s)
    BY <1>0, SipAssumption DEF IInv, RegInv, RegTypeOK, Registered
  <2>2. found[e][k] # NoSession => ~Registered(found[e][k])'
    BY <1>0 DEF IInv, SipTypeOK, AckInv, RegInv, RegTypeOK, Registered
  <2>3. \A f \in Endpoints, j \in Closers :
          found[f][j] \in Sessions \cup {NoSession}
    BY DEF IInv, SipTypeOK
  <2> QED BY <1>0, <2>1, <2>2, <2>3 DEF IInv, FoundRemovedFirst
<1> QED BY <1>1, <1>2, <1>3, <1>4, <1>5, <1>6, <1>7 DEF IInv

(* The compare-and-swap: one closer at most goes on to the socket.         *)
LEMMA CloseCancelKeeps ==
  ASSUME IInv, NEW e \in Endpoints, NEW k \in Closers,
         CloseCancel(e, k)
  PROVE  IInv'
<1>0. /\ closing[e][k] = "removed" /\ invite[e] \in Visible
      /\ closing' = [closing EXCEPT ![e][k] = IF closed[e] THEN "done"
                                                           ELSE "sleeping"]
      /\ closed' = [closed EXCEPT ![e] = TRUE]
      /\ active' \in [Endpoints -> BOOLEAN]
      /\ cancelled' \in [Endpoints -> BOOLEAN]
      /\ found' \in [Endpoints -> [Closers -> Sessions \cup {NoSession}]]
      /\ found'[e][k] # NoSession => found'[e][k] = found[e][k]
      /\ \A f \in Endpoints, j \in Closers :
           f # e \/ j # k => /\ closing'[f][j] = closing[f][j]
                            /\ found'[f][j] = found[f][j]
      /\ closing'[e][k] = IF closed[e] THEN "done" ELSE "sleeping"
      /\ UNCHANGED <<regVars, endpoints, inviteVars, sock, rtp, ackVars,
                     stopVars>>
  BY DEF CloseCancel, IInv, SipTypeOK, CloseInv, Visible
<1>1. SipTypeOK'
  BY <1>0, SipAssumption
     DEF IInv, SipTypeOK, inviteVars, mediaVars, ackVars, closeVars, stopVars,
         regVars
<1>2. RegInv'
  BY <1>0, RegistryUntouched DEF regVars
<1>3. MapInv'
  BY <1>0, TwoClosers
     DEF IInv, SipTypeOK, MapInv, Replaced, Visible, inviteVars
<1>4. AckInv'
  <2>1. /\ \A f \in Endpoints, j \in Closers :
             found'[f][j] # NoSession => found'[f][j] = found[f][j]
        /\ UNCHANGED <<invite, callID, status, sid, session, ack, owner>>
    BY <1>0 DEF inviteVars, ackVars, regVars
  <2> QED BY <2>1 DEF IInv, AckInv
<1>5. CloseInv'
  BY <1>0, TwoClosers
     DEF IInv, SipTypeOK, CloseInv, OneCloserCloses, Visible, inviteVars
<1>6. StopInv'
  BY <1>0, TwoClosers
     DEF IInv, SipTypeOK, StopInv, StopClosesUnlessReplaced, Visible,
         inviteVars, stopVars
<1>7. FoundRemovedFirst'
  BY <1>0 DEF IInv, SipTypeOK, FoundRemovedFirst, Registered, regVars
<1> QED BY <1>1, <1>2, <1>3, <1>4, <1>5, <1>6, <1>7 DEF IInv

(* The socket is closed.                                                   *)
LEMMA CloseSocketKeeps ==
  ASSUME IInv, NEW e \in Endpoints, NEW k \in Closers,
         CloseSocket(e, k)
  PROVE  IInv'
<1>0. /\ closing[e][k] = "sleeping" /\ invite[e] \in Visible
      /\ closing' = [closing EXCEPT ![e][k] = "done"]
      /\ sock' = [sock EXCEPT ![e] = "closed"]
      /\ found' \in [Endpoints -> [Closers -> Sessions \cup {NoSession}]]
      /\ found'[e][k] = NoSession
      /\ \A f \in Endpoints, j \in Closers :
           f # e \/ j # k => /\ closing'[f][j] = closing[f][j]
                            /\ found'[f][j] = found[f][j]
      /\ closing'[e][k] = "done"
      /\ UNCHANGED <<regVars, endpoints, active, closed, inviteVars, cancelled,
                     rtp, ackVars, stopVars>>
  BY DEF CloseSocket, IInv, SipTypeOK, CloseInv, Visible
<1>1. SipTypeOK'
  BY <1>0, SipAssumption
     DEF IInv, SipTypeOK, inviteVars, mediaVars, ackVars, closeVars, stopVars,
         regVars
<1>2. RegInv'
  BY <1>0, RegistryUntouched DEF regVars
<1>3. MapInv'
  BY <1>0, TwoClosers
     DEF IInv, SipTypeOK, MapInv, Replaced, Visible, inviteVars
<1>4. AckInv'
  <2>1. /\ \A f \in Endpoints, j \in Closers :
             found'[f][j] # NoSession => found'[f][j] = found[f][j]
        /\ UNCHANGED <<invite, callID, status, sid, session, ack, owner>>
    BY <1>0 DEF inviteVars, ackVars, regVars
  <2> QED BY <2>1 DEF IInv, AckInv
<1>5. CloseInv'
  BY <1>0, TwoClosers
     DEF IInv, SipTypeOK, CloseInv, OneCloserCloses, Visible, inviteVars
<1>6. StopInv'
  BY <1>0, TwoClosers
     DEF IInv, SipTypeOK, StopInv, StopClosesUnlessReplaced, Visible,
         inviteVars, stopVars
<1>7. FoundRemovedFirst'
  BY <1>0 DEF IInv, SipTypeOK, FoundRemovedFirst, Registered, regVars
<1> QED BY <1>1, <1>2, <1>3, <1>4, <1>5, <1>6, <1>7 DEF IInv

-------------------------------------------------------------------------------
(* What was stored is in the map, hung up or replaced; none is being closed *)
(* by Stop yet.                                                            *)
LEMMA StopBeginKeeps ==
  ASSUME IInv, StopBegin
  PROVE  IInv'
<1>0. /\ stop = "serving" /\ stop' = "stopping"
      /\ stopTodo' = SessionIds
      /\ atStop' = {e \in Endpoints : invite[e] \in Visible}
      /\ UNCHANGED <<regVars, endpoints, active, closed, inviteVars, mediaVars,
                     ackVars, closeVars, stopCur>>
  BY DEF StopBegin, Visible
<1>1. SipTypeOK'
  BY <1>0, SipAssumption
     DEF IInv, SipTypeOK, inviteVars, mediaVars, ackVars, closeVars, stopVars,
         regVars
<1>2. RegInv'
  BY <1>0, RegistryUntouched DEF regVars
<1>3. MapInv'
  BY <1>0
     DEF IInv, SipTypeOK, MapInv, Replaced, Visible, inviteVars, mediaVars,
         ackVars, closeVars, stopVars, regVars
<1>4. AckInv'
  BY <1>0
     DEF IInv, SipTypeOK, AckInv, Visible, inviteVars, mediaVars, ackVars,
         closeVars, stopVars, regVars
<1>5. CloseInv'
  BY <1>0, TwoClosers
     DEF IInv, SipTypeOK, CloseInv, OneCloserCloses, Visible, inviteVars,
         mediaVars, ackVars, closeVars, stopVars, regVars
<1>6. StopInv'
  BY <1>0
     DEF IInv, SipTypeOK, StopInv, StopClosesUnlessReplaced, Visible,
         inviteVars, mediaVars, ackVars, closeVars, stopVars, regVars
<1>7. FoundRemovedFirst'
  BY <1>0, FoundUntouched DEF regVars, closeVars
<1> QED BY <1>1, <1>2, <1>3, <1>4, <1>5, <1>6, <1>7 DEF IInv

(* Stop comes to an entry: it takes up the endpoint, or there is none.     *)
LEMMA StopVisitKeeps ==
  ASSUME IInv, NEW i \in SessionIds, StopVisit(i)
  PROVE  IInv'
<1> DEFINE e == endpoints[i]
<1>0. /\ stop = "stopping" /\ stopCur = NoEndpoint /\ i \in stopTodo
      /\ stopTodo' = stopTodo \ {i}
      /\ stopCur' = e
      /\ e \in Endpoints \cup {NoEndpoint}
      /\ UNCHANGED <<regVars, endpoints, closed, inviteVars, mediaVars, ackVars,
                     stop, atStop>>
  BY DEF StopVisit, IInv, SipTypeOK
<1>1. CASE e = NoEndpoint
  <2>1. UNCHANGED <<active, closeVars, stopCur>>
    BY <1>0, <1>1 DEF StopVisit
  <2>2. SipTypeOK'
    BY <1>0, <2>1
       DEF IInv, SipTypeOK, inviteVars, mediaVars, ackVars, closeVars
  <2>3. RegInv' /\ FoundRemovedFirst'
    BY <1>0, <2>1, RegistryUntouched, FoundUntouched DEF regVars, closeVars
  <2>4. MapInv' /\ AckInv'
    BY <1>0, <2>1
       DEF IInv, MapInv, Replaced, AckInv, regVars, inviteVars, ackVars, closeVars
  <2>5. CloseInv'
    BY <1>0, <2>1
       DEF IInv, CloseInv, OneCloserCloses, inviteVars, mediaVars, closeVars
  <2>6. StopInv'
    BY <1>0, <1>1, <2>1, SipAssumption
       DEF IInv, SipTypeOK, StopInv, StopClosesUnlessReplaced, inviteVars,
           closeVars
  <2> QED BY <2>2, <2>3, <2>4, <2>5, <2>6 DEF IInv
<1>2. CASE e # NoEndpoint
  <2>1. /\ e \in Endpoints /\ "stop" \in Closers
        /\ callID[e] = i /\ invite[e] \in Visible /\ closing[e]["stop"] = "idle"
        /\ Deactivate(e, "stop")
    BY <1>0, <1>2, TwoClosers DEF StopVisit, IInv, MapInv, StopInv
  <2>2. /\ closing'[e]["stop"] \in {"remove", "removed"}
        /\ \A f \in Endpoints, j \in Closers :
             f # e \/ j # "stop" => closing'[f][j] = closing[f][j]
        /\ RegInv' /\ AckInv' /\ CloseInv' /\ FoundRemovedFirst'
    BY <1>0, <2>1, DeactivateKeeps
  <2>3. SipTypeOK'
    BY <1>0, <2>1, DeactivateKeeps
       DEF IInv, SipTypeOK, inviteVars, mediaVars, ackVars
  <2>4. /\ UNCHANGED <<endpoints, callID, invite, closed, stop, atStop>>
        /\ \A f \in Endpoints : Replaced(f)' = Replaced(f)
        /\ \A f \in Endpoints : closing'[f]["bye"] = closing[f]["bye"]
        /\ \A f \in Endpoints : f # e => closing'[f]["stop"] = closing[f]["stop"]
        /\ closing'[e]["stop"] # "idle"
    BY <1>0, <2>2, TwoClosers DEF Replaced, inviteVars
  <2>5. MapInv'
    BY <2>4 DEF IInv, SipTypeOK, MapInv
  <2>6. StopInv'
    <3>1. StopClosesUnlessReplaced'
      BY <1>0 DEF StopClosesUnlessReplaced
    <3>2. ASSUME NEW f \in Endpoints, closing'[f]["stop"] # "idle"
          PROVE  /\ callID[f] \notin stopTodo'
                 /\ closing'[f]["stop"] = "done" \/ stopCur' = f
      <4>1. CASE f = e
        BY <1>0, <2>1, <4>1
      <4>2. CASE f # e
        BY <1>0, <2>4, <3>2, <4>2, SipAssumption DEF IInv, StopInv
      <4> QED BY <4>1, <4>2
    <3>3. ASSUME NEW f \in atStop, endpoints[callID[f]] = f
          PROVE  callID[f] \in stopTodo' \/ closing'[f]["stop"] # "idle"
      <4>1. f \in Endpoints
        BY DEF IInv, SipTypeOK
      <4>2. CASE f = e
        BY <2>4, <4>2
      <4>3. CASE f # e
        BY <1>0, <2>1, <2>4, <3>3, <4>1, <4>3 DEF IInv, StopInv
      <4> QED BY <4>2, <4>3
    <3> QED BY <1>0, <2>4, <3>1, <3>2, <3>3 DEF IInv, StopInv
  <2> QED BY <2>2, <2>3, <2>5, <2>6 DEF IInv
<1> QED BY <1>1, <1>2

(* It goes on once that endpoint is closed.                                *)
LEMMA StopVisitedKeeps ==
  ASSUME IInv, StopVisited
  PROVE  IInv'
<1>0. /\ stopCur \in Endpoints /\ closing[stopCur]["stop"] = "done"
      /\ stopCur' = NoEndpoint
      /\ UNCHANGED <<regVars, endpoints, active, closed, inviteVars, mediaVars,
                     ackVars, closeVars, stop, stopTodo, atStop>>
  BY DEF StopVisited, IInv, SipTypeOK
<1>1. SipTypeOK'
  BY <1>0, SipAssumption
     DEF IInv, SipTypeOK, inviteVars, mediaVars, ackVars, closeVars, stopVars,
         regVars
<1>2. RegInv'
  BY <1>0, RegistryUntouched DEF regVars
<1>3. MapInv'
  BY <1>0
     DEF IInv, SipTypeOK, MapInv, Replaced, Visible, inviteVars, mediaVars,
         ackVars, closeVars, stopVars, regVars
<1>4. AckInv'
  BY <1>0
     DEF IInv, SipTypeOK, AckInv, Visible, inviteVars, mediaVars, ackVars,
         closeVars, stopVars, regVars
<1>5. CloseInv'
  BY <1>0, TwoClosers
     DEF IInv, SipTypeOK, CloseInv, OneCloserCloses, Visible, inviteVars,
         mediaVars, ackVars, closeVars, stopVars, regVars
<1>6. StopInv'
  BY <1>0
     DEF IInv, SipTypeOK, StopInv, StopClosesUnlessReplaced, Visible,
         inviteVars, mediaVars, ackVars, closeVars, stopVars, regVars
<1>7. FoundRemovedFirst'
  BY <1>0, FoundUntouched DEF regVars, closeVars
<1> QED BY <1>1, <1>2, <1>3, <1>4, <1>5, <1>6, <1>7 DEF IInv

(* It returns with no entry left, so every endpoint of its beginning that  *)
(* is still in the map was visited, and closed.                            *)
LEMMA StopReturnKeeps ==
  ASSUME IInv, StopReturn
  PROVE  IInv'
<1>0. /\ stopCur = NoEndpoint /\ stopTodo = {} /\ stop' = "stopped"
      /\ UNCHANGED <<regVars, endpoints, active, closed, inviteVars, mediaVars,
                     ackVars, closeVars, stopTodo, stopCur, atStop>>
  BY DEF StopReturn
<1>1. SipTypeOK'
  BY <1>0, SipAssumption
     DEF IInv, SipTypeOK, inviteVars, mediaVars, ackVars, closeVars, stopVars,
         regVars
<1>2. RegInv'
  BY <1>0, RegistryUntouched DEF regVars
<1>3. MapInv'
  BY <1>0
     DEF IInv, SipTypeOK, MapInv, Replaced, Visible, inviteVars, mediaVars,
         ackVars, closeVars, stopVars, regVars
<1>4. AckInv'
  BY <1>0
     DEF IInv, SipTypeOK, AckInv, Visible, inviteVars, mediaVars, ackVars,
         closeVars, stopVars, regVars
<1>5. CloseInv'
  BY <1>0, TwoClosers
     DEF IInv, SipTypeOK, CloseInv, OneCloserCloses, Visible, inviteVars,
         mediaVars, ackVars, closeVars, stopVars, regVars
<1>6. StopInv'
  <2>1. ASSUME NEW e \in atStop, closing[e]["bye"] = "idle", ~Replaced(e)
        PROVE  closed[e]
    <3>1. e \in Endpoints /\ endpoints[callID[e]] = e
      BY <2>1 DEF IInv, SipTypeOK, StopInv, MapInv
    <3>2. closing[e]["stop"] # "idle"
      BY <1>0, <2>1, <3>1 DEF IInv, StopInv
    <3>3. closing[e]["stop"] = "done"
      BY <1>0, <3>1, <3>2, SipAssumption DEF IInv, StopInv
    <3> QED BY <3>1, <3>3, TwoClosers DEF IInv, CloseInv
  <2>2. StopClosesUnlessReplaced'
    BY <1>0, <2>1
       DEF StopClosesUnlessReplaced, Replaced, inviteVars, closeVars
  <2> QED BY <1>0, <2>2 DEF IInv, SipTypeOK, StopInv, inviteVars, closeVars
<1>7. FoundRemovedFirst'
  BY <1>0, FoundUntouched DEF regVars, closeVars
<1> QED BY <1>1, <1>2, <1>3, <1>4, <1>5, <1>6, <1>7 DEF IInv

(* The bridge creates and removes sessions on its own; what is registered  *)
(* once does not come back after a removal.                                *)
LEMMA BridgeKeeps ==
  ASSUME IInv, BridgeStep
  PROVE  IInv'
<1>0. UNCHANGED sipVars
  BY DEF BridgeStep
<1>1. SipTypeOK' /\ MapInv' /\ CloseInv' /\ StopInv'
  <2>1. SipTypeOK'
    BY <1>0
       DEF IInv, SipTypeOK, sipVars, inviteVars, mediaVars, ackVars, closeVars,
           stopVars
  <2>2. MapInv'
    BY <1>0 DEF IInv, MapInv, Replaced, sipVars, inviteVars, closeVars
  <2>3. CloseInv'
    BY <1>0
       DEF IInv, CloseInv, OneCloserCloses, sipVars, inviteVars, mediaVars,
           closeVars
  <2>4. StopInv'
    BY <1>0
       DEF IInv, StopInv, StopClosesUnlessReplaced, sipVars, inviteVars,
           closeVars, stopVars
  <2> QED BY <2>1, <2>2, <2>3, <2>4
<1> DEFINE Kept(s) ==
      /\ status[s] # "idle" => status'[s] # "idle"
      /\ status[s] = "registered" =>
           status'[s] = "registered" /\ (Registered(s)' => Registered(s))
<1>2. RegInv' /\ sid' = sid /\ \A t \in Sessions : Kept(t)
  <2>1. CASE \E s \in Sessions : FailCreate(s)
    BY <2>1 DEF FailCreate, IInv, RegInv, RegTypeOK, Statuses, Registered
  <2>2. ASSUME NEW s \in Sessions, PutSession(s)
        PROVE  RegInv' /\ sid' = sid /\ \A t \in Sessions : Kept(t)
    <3>1. /\ status[s] = "creating" /\ sid[s] \in SessionIds /\ sid' = sid
          /\ status' = [status EXCEPT ![s] = "registered"]
          /\ sessions' = [sessions EXCEPT ![sid[s]] = s]
      BY <2>2 DEF PutSession, IInv, RegInv
    <3>2. RegInv'
      BY <3>1 DEF IInv, RegInv, RegTypeOK, Statuses
    <3> QED BY <3>1, <3>2 DEF IInv, RegInv, RegTypeOK, Registered
  <2>3. ASSUME NEW i \in SessionIds, DropSession(i)
        PROVE  RegInv' /\ sid' = sid /\ \A t \in Sessions : Kept(t)
    <3>1. /\ sessions' = [sessions EXCEPT ![i] = NoSession]
          /\ sid' = sid /\ status' = status
      BY <2>3 DEF DropSession
    <3>2. RegInv'
      BY <3>1 DEF IInv, RegInv, RegTypeOK
    <3>3. ASSUME NEW s \in Sessions, Registered(s)' PROVE Registered(s)
      <4>1. PICK j \in SessionIds : sessions'[j] = s
        BY <3>3 DEF Registered
      <4>2. sessions[j] = s
        BY <3>1, <4>1, SipAssumption DEF IInv, RegInv, RegTypeOK
      <4> QED BY <4>2 DEF Registered
    <3> QED BY <3>1, <3>2, <3>3
  <2>4. \/ \E s \in Sessions : FailCreate(s) \/ PutSession(s)
        \/ \E i \in SessionIds : DropSession(i)
    BY DEF BridgeStep, CreateStep
  <2> QED BY <2>1, <2>2, <2>3, <2>4
<1>3. AckInv'
  <2>1. /\ \A e \in Endpoints : session[e] \in Sessions \cup {NoSession}
        /\ \A e \in Endpoints, k \in Closers :
             found[e][k] \in Sessions \cup {NoSession}
        /\ UNCHANGED <<invite, callID, session, ack, owner, found>>
    BY <1>0 DEF IInv, SipTypeOK, sipVars, inviteVars, ackVars, closeVars
  <2> QED BY <1>2, <2>1 DEF IInv, AckInv
<1>4. FoundRemovedFirst'
  <2>1. /\ \A e \in Endpoints, k \in Closers :
             found[e][k] \in Sessions \cup {NoSession}
        /\ UNCHANGED <<closing, found>>
    BY <1>0 DEF IInv, SipTypeOK, sipVars, closeVars
  <2>2. \A e \in Endpoints, k \in Closers : found[e][k] # NoSession =>
          found[e][k] \in Sessions /\ status[found[e][k]] = "registered"
    BY <2>1 DEF IInv, AckInv
  <2>3. \A s \in Sessions : status[s] = "registered" /\ ~Registered(s)
          => ~Registered(s)'
    BY <1>2
  <2> QED BY <2>1, <2>2, <2>3 DEF IInv, FoundRemovedFirst
<1> QED BY <1>1, <1>2, <1>3, <1>4 DEF IInv

(* Every step keeps the invariant.                                         *)
LEMMA StepKeeps == IInv /\ [SipNext]_allVars => IInv'
<1> SUFFICES ASSUME IInv, [SipNext]_allVars PROVE IInv'
  OBVIOUS
<1>1. CASE Request
  BY <1>1, InviteBindKeeps, AckLoadKeeps, ByeKeeps DEF Request
<1>2. CASE \E e \in Endpoints : InviteStep(e) \/ RtpExit(e)
  BY <1>2, InviteStoreKeeps, InviteStartRtpKeeps, RtpExitKeeps DEF InviteStep
<1>3. CASE \E s \in Sessions : AckStep(s)
  BY <1>3, AckCreateKeeps, AckAssignKeeps DEF AckStep
<1>4. CASE \E e \in Endpoints, k \in Closers : CloseStep(e, k)
  BY <1>4, CloseRemoveKeeps, CloseCancelKeeps, CloseSocketKeeps DEF CloseStep
<1>5. CASE StopStep
  BY <1>5, StopBeginKeeps, StopVisitKeeps, StopVisitedKeeps, StopReturnKeeps
     DEF StopStep
<1>6. CASE BridgeStep
  BY <1>6, BridgeKeeps
<1>7. CASE UNCHANGED allVars
  <2> USE <1>7
      DEF allVars, sipVars, inviteVars, mediaVars, ackVars, closeVars, stopVars,
          IInv
  <2>1. SipTypeOK'
    BY DEF SipTypeOK
  <2>2. RegInv' /\ FoundRemovedFirst'
    BY RegistryUntouched, FoundUntouched DEF regVars
  <2>3. MapInv' /\ AckInv'
    BY DEF MapInv, Replaced, AckInv, regVars
  <2>4. CloseInv' /\ StopInv'
    BY DEF CloseInv, OneCloserCloses, StopInv, StopClosesUnlessReplaced
  <2> QED BY <2>1, <2>2, <2>3, <2>4
<1> QED BY <1>1, <1>2, <1>3, <1>4, <1>5, <1>6, <1>7 DEF SipNext

(* The invariant holds throughout.                                         *)
THEOREM Invariance == SipSpec => []IInv
BY Starts, StepKeeps, PTL DEF SipSpec

-------------------------------------------------------------------------------
(* Type correctness, for any number of calls.                              *)
THEOREM SipTypeCorrect == SipSpec => []SipTypeOK
<1>1. IInv => SipTypeOK
  BY DEF IInv
<1> QED BY <1>1, Invariance, PTL

(* The session a closer found is out of the bridge before the endpoint is  *)
(* marked closed, however many calls share the Call-ID.                    *)
THEOREM SessionGoesFirst == SipSpec => []FoundRemovedFirst
<1>1. IInv => FoundRemovedFirst
  BY DEF IInv
<1> QED BY <1>1, Invariance, PTL

(* A socket has one closer.                                                *)
THEOREM SocketHasOneCloser == SipSpec => []OneCloserCloses
<1>1. IInv => OneCloserCloses
  BY DEF IInv, CloseInv
<1> QED BY <1>1, Invariance, PTL

(* Stop leaves open only what a second INVITE replaced or a BYE is         *)
(* closing.                                                                *)
THEOREM StopIsComplete == SipSpec => []StopClosesUnlessReplaced
<1>1. IInv => StopClosesUnlessReplaced
  BY DEF IInv, StopInv
<1> QED BY <1>1, Invariance, PTL

(* The server uses the bridge only as Registry.tla allows: every step of   *)
(* it is a step of the registry or leaves it alone.                        *)
THEOREM SipUsesRegistry == SipSpec => RegSpec
<1>1. SipInit => RegInit
  BY DEF SipInit
<1>2. IInv /\ [SipNext]_allVars => [RegNext]_regVars
  <2> SUFFICES ASSUME IInv, [SipNext]_allVars PROVE [RegNext]_regVars
    OBVIOUS
  <2>1. CASE BridgeStep
    BY <2>1 DEF BridgeStep, RegNext
  <2>2. ASSUME NEW s \in Sessions, AckCreateSession(s)
        PROVE  RegNext
    <3>1. owner[s] \in Endpoints /\ owner[s] # NoEndpoint
      BY <2>2 DEF AckCreateSession, IInv, SipTypeOK
    <3>2. callID[owner[s]] \in SessionIds
      BY <3>1, InvitedHasId DEF IInv, AckInv, Visible
    <3> QED BY <2>2, <3>2 DEF AckCreateSession, RegNext
  <2>3. ASSUME NEW e \in Endpoints, NEW k \in Closers, CloseRemove(e, k)
        PROVE  [RegNext]_regVars
    <3>1. callID[e] \in SessionIds
      BY <2>3, InvitedHasId DEF CloseRemove, IInv, CloseInv, Visible
    <3> QED BY <2>3, <3>1 DEF CloseRemove, RegNext
  <2>4. CASE \/ Request \/ StopStep \/ UNCHANGED allVars
             \/ \E e \in Endpoints : InviteStep(e) \/ RtpExit(e)
             \/ \E s \in Sessions : AckAssign(s)
             \/ \E e \in Endpoints, k \in Closers :
                  CloseCancel(e, k) \/ CloseSocket(e, k)
    <3>1. UNCHANGED regVars
      BY <2>4
         DEF Request, InviteBind, AckLoad, ByeLoadAndDelete, StopStep, StopBegin,
             StopVisit, StopVisited, StopReturn, InviteStep, InviteStore,
             InviteStartRtp, RtpExit, AckAssign, CloseCancel, CloseSocket,
             allVars
    <3> QED BY <3>1
  <2> QED BY <2>1, <2>2, <2>3, <2>4 DEF SipNext, AckStep, CloseStep
<1> QED BY <1>1, <1>2, Invariance, PTL DEF SipSpec, RegSpec

-------------------------------------------------------------------------------
(* A call that is hung up.                                                 *)

(* A socket is there from the INVITE on, a reader from the answer on.      *)
MediaInv ==
  \A e \in Endpoints :
    /\ invite[e] # "idle" <=> sock[e] # "none"
    /\ invite[e] = "running" <=> rtp[e] # "none"

HungInv == IInv /\ MediaInv

Hung(e, p)  == closing[e]["bye"] = p
Shut(e)     == Hung(e, "done") /\ sock[e] = "closed"
Answered(e) == Shut(e) /\ invite[e] = "running"
Gone(e)     == sock[e] = "closed" /\ rtp[e] = "exited"

LEMMA MediaStarts == SipInit => MediaInv
BY DEF SipInit, MediaInv

LEMMA MediaKeeps ==
  ASSUME IInv, MediaInv, [SipNext]_allVars
  PROVE  MediaInv'
<1> USE DEF MediaInv
<1>0. /\ SipTypeOK
      /\ \A e \in Endpoints, k \in Closers :
           closing[e][k] # "idle" => invite[e] # "idle"
  BY DEF IInv, CloseInv, Visible
<1>1. CASE UNCHANGED <<invite, sock, rtp>>
  BY <1>1
<1>2. ASSUME NEW e \in Endpoints, NEW i \in SessionIds, InviteBind(e, i)
      PROVE  MediaInv'
  BY <1>0, <1>2 DEF InviteBind, SipTypeOK
<1>3. ASSUME NEW e \in Endpoints, InviteStep(e)
      PROVE  MediaInv'
  BY <1>0, <1>3
     DEF InviteStep, InviteStore, InviteStartRtp, mediaVars, SipTypeOK
<1>4. ASSUME NEW e \in Endpoints, RtpExit(e)
      PROVE  MediaInv'
  BY <1>0, <1>4 DEF RtpExit, inviteVars, SipTypeOK
<1>5. ASSUME NEW e \in Endpoints, NEW k \in Closers, CloseStep(e, k)
      PROVE  MediaInv'
  BY <1>0, <1>5
     DEF CloseStep, CloseRemove, CloseCancel, CloseSocket, inviteVars, mediaVars,
         SipTypeOK
<1>6. CASE \/ \E s \in Sessions, i \in SessionIds : AckLoad(s, i)
           \/ \E i \in SessionIds : ByeLoadAndDelete(i)
           \/ \E s \in Sessions : AckStep(s)
           \/ StopStep \/ BridgeStep
  BY <1>6, <1>1
     DEF AckLoad, ByeLoadAndDelete, AckStep, AckCreateSession, AckAssign,
         StopStep, StopBegin, StopVisit, StopVisited, StopReturn, BridgeStep,
         sipVars, inviteVars, mediaVars
<1>7. CASE UNCHANGED allVars
  BY <1>7, <1>1 DEF allVars, sipVars, inviteVars, mediaVars
<1> QED BY <1>2, <1>3, <1>4, <1>5, <1>6, <1>7 DEF SipNext, Request

(* closeEndpoint goes forward for the hangup of e, and what a call has     *)
(* given back it does not take again.                                      *)
LEMMA HangupGoesOn ==
  ASSUME HungInv, NEW e \in Endpoints, [SipNext]_allVars
  PROVE  /\ Hung(e, "remove") => Hung(e, "remove")' \/ Hung(e, "removed")'
         /\ Hung(e, "removed") => \/ Hung(e, "removed")'
                                  \/ Hung(e, "sleeping")'
                                  \/ Hung(e, "done")'
         /\ Hung(e, "sleeping") => Hung(e, "sleeping")' \/ Hung(e, "done")'
         /\ Hung(e, "done") => Hung(e, "done")'
         /\ Shut(e) => Shut(e)'
         /\ Answered(e) => Answered(e)'
         /\ Gone(e) => Gone(e)'
<1> USE DEF Hung, Shut, Answered, Gone
<1>0. /\ SipTypeOK /\ MediaInv
      /\ "bye" \in Closers /\ "stop" \in Closers
      /\ \A i \in SessionIds : endpoints[i] # NoEndpoint =>
           closing[endpoints[i]]["bye"] = "idle"
  BY DEF HungInv, IInv, MapInv, Closers
<1>1. CASE UNCHANGED <<closing, invite, sock, rtp>>
  BY <1>1
<1>2. ASSUME NEW f \in Endpoints, NEW i \in SessionIds, InviteBind(f, i)
      PROVE  /\ UNCHANGED <<closing, rtp>>
             /\ f # e => UNCHANGED <<sock[e], invite[e]>>
             /\ f = e => sock[e] = "none"
  BY <1>0, <1>2 DEF InviteBind, closeVars, SipTypeOK, MediaInv
<1>3. ASSUME NEW f \in Endpoints, InviteStep(f)
      PROVE  /\ UNCHANGED <<closing, sock>>
             /\ invite[e] = "running" => UNCHANGED <<invite[e], rtp[e]>>
             /\ rtp[e] = "exited" => rtp'[e] = "exited"
  BY <1>0, <1>3 DEF InviteStep, InviteStore, InviteStartRtp, closeVars,
                    mediaVars, SipTypeOK, MediaInv
<1>4. ASSUME NEW f \in Endpoints, RtpExit(f)
      PROVE  /\ UNCHANGED <<closing, sock, invite>>
             /\ rtp[e] = "exited" => rtp'[e] = "exited"
  BY <1>0, <1>4 DEF RtpExit, closeVars, inviteVars, SipTypeOK
<1>5. ASSUME NEW f \in Endpoints, NEW k \in Closers, CloseStep(f, k)
      PROVE  /\ UNCHANGED <<invite, rtp>>
             /\ sock[e] = "closed" => sock'[e] = "closed"
             /\ \/ closing'[e]["bye"] = closing[e]["bye"]
                \/ closing[e]["bye"] = "remove" /\ closing'[e]["bye"] = "removed"
                \/ closing[e]["bye"] = "removed"
                     /\ closing'[e]["bye"] \in {"sleeping", "done"}
                \/ closing[e]["bye"] = "sleeping" /\ closing'[e]["bye"] = "done"
  <2> USE <1>0 DEF inviteVars, mediaVars, SipTypeOK
  <2>1. CASE CloseRemove(f, k)
    BY <2>1 DEF CloseRemove
  <2>2. CASE CloseCancel(f, k)
    BY <2>2 DEF CloseCancel
  <2>3. CASE CloseSocket(f, k)
    BY <2>3 DEF CloseSocket
  <2> QED BY <1>5, <2>1, <2>2, <2>3 DEF CloseStep
<1>6. ASSUME NEW f \in Endpoints, NEW k \in Closers, Deactivate(f, k),
             f = e => k # "bye" \/ closing[e]["bye"] = "idle"
      PROVE  closing[e]["bye"] # "idle" => closing'[e]["bye"] = closing[e]["bye"]
  BY <1>0, <1>6 DEF Deactivate, SipTypeOK
<1>7. ASSUME NEW i \in SessionIds, ByeLoadAndDelete(i)
      PROVE  /\ UNCHANGED <<invite, sock, rtp>>
             /\ closing[e]["bye"] # "idle" =>
                  closing'[e]["bye"] = closing[e]["bye"]
  BY <1>0, <1>6, <1>7 DEF ByeLoadAndDelete, inviteVars, mediaVars, SipTypeOK
<1>8. ASSUME NEW i \in SessionIds, StopVisit(i)
      PROVE  /\ UNCHANGED <<invite, sock, rtp>>
             /\ closing[e]["bye"] # "idle" =>
                  closing'[e]["bye"] = closing[e]["bye"]
  <2>1. CASE endpoints[i] = NoEndpoint
    BY <1>8, <2>1 DEF StopVisit, closeVars, inviteVars, mediaVars
  <2>2. CASE endpoints[i] # NoEndpoint
    BY <1>0, <1>6, <1>8, <2>2 DEF StopVisit, inviteVars, mediaVars, SipTypeOK
  <2> QED BY <2>1, <2>2
<1>9. CASE \/ \E s \in Sessions, i \in SessionIds : AckLoad(s, i)
           \/ \E s \in Sessions : AckStep(s)
           \/ StopBegin \/ StopVisited \/ StopReturn \/ BridgeStep
           \/ UNCHANGED allVars
  BY <1>9, <1>1
     DEF AckLoad, AckStep, AckCreateSession, AckAssign, StopBegin, StopVisited,
         StopReturn, BridgeStep, allVars, sipVars, inviteVars, mediaVars,
         closeVars
<1>10. CASE \/ \E f \in Endpoints, i \in SessionIds : InviteBind(f, i)
            \/ \E f \in Endpoints : InviteStep(f) \/ RtpExit(f)
            \/ \E f \in Endpoints, k \in Closers : CloseStep(f, k)
  BY <1>2, <1>3, <1>4, <1>5, <1>10
<1>11. CASE \/ \E i \in SessionIds : ByeLoadAndDelete(i)
            \/ \E i \in SessionIds : StopVisit(i)
  BY <1>7, <1>8, <1>11
<1> QED BY <1>9, <1>10, <1>11 DEF SipNext, Request, StopStep

(* A call whose BYE is done with was answered or is being answered, and    *)
(* its socket is closed or about to be closed by Stop.                     *)
LEMMA HungUp ==
  ASSUME HungInv, NEW e \in Endpoints, closing[e]["bye"] = "done"
  PROVE  /\ closed[e]
         /\ invite[e] \in Visible /\ sock[e] \in {"open", "closed"}
         /\ sock[e] = "open" => closing[e]["stop"] = "sleeping"
<1>1. /\ invite[e] \in Visible
      /\ closed[e]
  BY TwoClosers DEF HungInv, IInv, CloseInv
<1>2. closed[e] /\ sock[e] = "open" =>
        \E k \in Closers : closing[e][k] = "sleeping"
  BY DEF HungInv, IInv, CloseInv, OneCloserCloses
<1>3. sock[e] \in {"open", "closed"}
  BY <1>1 DEF HungInv, IInv, MediaInv, SipTypeOK, Visible
<1> QED BY <1>1, <1>2, <1>3, TwoClosers

(* Each of its goroutines' steps brings the call nearer to its end.        *)
LEMMA HangupAdvances ==
  ASSUME HungInv, NEW e \in Endpoints
  PROVE  /\ <<CloseStep(e, "bye")>>_allVars =>
              /\ Hung(e, "remove") => Hung(e, "removed")'
              /\ Hung(e, "removed") => Hung(e, "sleeping")' \/ Hung(e, "done")'
              /\ Hung(e, "sleeping") => Hung(e, "done")'
         /\ <<CloseStep(e, "stop")>>_allVars =>
              (Hung(e, "done") /\ ~Shut(e) => Shut(e)')
         /\ <<InviteStep(e)>>_allVars =>
              (Shut(e) /\ ~Answered(e) => Answered(e)')
         /\ <<RtpExit(e)>>_allVars => (Shut(e) => Gone(e)')
<1> USE DEF Hung, Shut, Answered, Gone
<1>0. /\ SipTypeOK /\ MediaInv
      /\ "bye" \in Closers /\ "stop" \in Closers
  BY DEF HungInv, IInv, Closers
<1>1. Hung(e, "done") =>
        /\ invite[e] \in Visible /\ sock[e] \in {"open", "closed"}
        /\ sock[e] = "open" => closing[e]["stop"] = "sleeping"
  BY HungUp
<1>2. ASSUME NEW k \in Closers, CloseStep(e, k)
      PROVE  /\ closing[e][k] = "remove" => closing'[e][k] = "removed"
             /\ closing[e][k] = "removed" => closing'[e][k] \in {"sleeping", "done"}
             /\ closing[e][k] = "sleeping" =>
                  closing'[e][k] = "done" /\ sock'[e] = "closed"
             /\ k # "bye" => closing'[e]["bye"] = closing[e]["bye"]
  BY <1>0, <1>2
     DEF CloseStep, CloseRemove, CloseCancel, CloseSocket, SipTypeOK
<1>3. <<CloseStep(e, "bye")>>_allVars =>
        /\ Hung(e, "remove") => Hung(e, "removed")'
        /\ Hung(e, "removed") => Hung(e, "sleeping")' \/ Hung(e, "done")'
        /\ Hung(e, "sleeping") => Hung(e, "done")'
  <2> HAVE CloseStep(e, "bye")
  <2> QED BY <1>0, <1>2
<1>4. <<CloseStep(e, "stop")>>_allVars =>
        (Hung(e, "done") /\ ~Shut(e) => Shut(e)')
  <2> HAVE CloseStep(e, "stop")
  <2> QED BY <1>0, <1>1, <1>2
<1>5. <<InviteStep(e)>>_allVars => (Shut(e) /\ ~Answered(e) => Answered(e)')
  BY <1>0, <1>1
     DEF InviteStep, InviteStore, InviteStartRtp, closeVars, mediaVars, SipTypeOK,
         Visible
<1>6. <<RtpExit(e)>>_allVars => (Shut(e) => Gone(e)')
  BY <1>0 DEF RtpExit, SipTypeOK
<1> QED BY <1>3, <1>4, <1>5, <1>6

(* That each step on the way is possible when it is due: closeEndpoint's   *)
(* until it returns, handleInvite's until the call runs, the RTP reader's  *)
(* once the endpoint is closed.  Each line assumes the guard of the step   *)
(* it names, so the actions say it is true; as the provers do not reason   *)
(* about ENABLED it is a hypothesis of the theorem.                        *)
CanClose(e, k) == ENABLED <<CloseStep(e, k)>>_allVars

CanAnswer(e) == ENABLED <<InviteStep(e)>>_allVars

CanExit(e) == ENABLED <<RtpExit(e)>>_allVars

CallNeverStuck ==
  \A e \in Endpoints :
    /\ \A k \in Closers : closing[e][k] \notin {"idle", "done"} => CanClose(e, k)
    /\ invite[e] \in {"bound", "stored"} => CanAnswer(e)
    /\ closed[e] /\ rtp[e] = "running" => CanExit(e)

(* Under weak fairness a hangup gives everything back, for any number of   *)
(* calls, provided that the steps of its goroutines are possible when they *)
(* are due.                                                                *)
THEOREM HangupGivesBack == SipFairSpec /\ []CallNeverStuck => HangupReleases
<1> SUFFICES ASSUME NEW e \in Endpoints
             PROVE  SipFairSpec /\ []CallNeverStuck
                      => (closing[e]["bye"] # "idle" ~> Gone(e))
  BY DEF HangupReleases, Gone
<1>1. HungInv /\ closing[e]["bye"] # "idle"
        => Hung(e, "remove") \/ Hung(e, "removed") \/ Hung(e, "sleeping")
             \/ Hung(e, "done")
  BY DEF HungInv, IInv, SipTypeOK, Hung, Closers
<1>2. HungInv /\ [SipNext]_allVars =>
        /\ Hung(e, "remove") => Hung(e, "remove")' \/ Hung(e, "removed")'
        /\ Hung(e, "removed") =>
             Hung(e, "removed")' \/ Hung(e, "sleeping")' \/ Hung(e, "done")'
        /\ Hung(e, "sleeping") => Hung(e, "sleeping")' \/ Hung(e, "done")'
        /\ Hung(e, "done") => Hung(e, "done")'
        /\ Shut(e) => Shut(e)'
        /\ Answered(e) => Answered(e)'
        /\ Gone(e) => Gone(e)'
  BY HangupGoesOn
<1>3. HungInv =>
        /\ <<CloseStep(e, "bye")>>_allVars =>
             /\ Hung(e, "remove") => Hung(e, "removed")'
             /\ Hung(e, "removed") => Hung(e, "sleeping")' \/ Hung(e, "done")'
             /\ Hung(e, "sleeping") => Hung(e, "done")'
        /\ <<CloseStep(e, "stop")>>_allVars =>
             (Hung(e, "done") /\ ~Shut(e) => Shut(e)')
        /\ <<InviteStep(e)>>_allVars =>
             (Shut(e) /\ ~Answered(e) => Answered(e)')
        /\ <<RtpExit(e)>>_allVars => (Shut(e) => Gone(e)')
  BY HangupAdvances
<1>4. HungInv /\ CallNeverStuck =>
        /\ Hung(e, "remove") \/ Hung(e, "removed") \/ Hung(e, "sleeping")
             => CanClose(e, "bye")
        /\ Hung(e, "done") /\ ~Shut(e) => CanClose(e, "stop")
        /\ Shut(e) /\ ~Answered(e) => CanAnswer(e)
        /\ Answered(e) /\ ~Gone(e) => CanExit(e)
  <2> SUFFICES ASSUME HungInv, CallNeverStuck
               PROVE  /\ closing[e]["bye"] \in {"remove", "removed", "sleeping"}
                           => CanClose(e, "bye")
                      /\ closing[e]["bye"] = "done" /\ sock[e] # "closed"
                           => CanClose(e, "stop")
                      /\ closing[e]["bye"] = "done" /\ invite[e] # "running"
                           => CanAnswer(e)
                      /\ (closing[e]["bye"] = "done" /\ invite[e] = "running"
                            /\ rtp[e] # "exited")
                           => CanExit(e)
    BY DEF Hung, Shut, Answered, Gone
  <2>1. /\ closing[e]["bye"] \in {"remove", "removed", "sleeping"}
             => closing[e]["bye"] \notin {"idle", "done"}
        /\ closing[e]["bye"] = "done" /\ sock[e] # "closed"
             => closing[e]["stop"] \notin {"idle", "done"}
        /\ closing[e]["bye"] = "done" /\ invite[e] # "running"
             => invite[e] \in {"bound", "stored"}
        /\ (closing[e]["bye"] = "done" /\ invite[e] = "running"
              /\ rtp[e] # "exited")
             => closed[e] /\ rtp[e] = "running"
    <3>1. /\ invite[e] \in {"idle", "bound", "stored", "running"}
          /\ rtp[e] \in {"none", "running", "exited"}
          /\ invite[e] = "running" => rtp[e] # "none"
      BY DEF HungInv, IInv, MediaInv, SipTypeOK
    <3>2. closing[e]["bye"] = "done" =>
            /\ closed[e] /\ invite[e] \in {"stored", "running"}
            /\ sock[e] # "closed" => closing[e]["stop"] = "sleeping"
      BY HungUp DEF Visible
    <3> QED BY <3>1, <3>2
  <2>2. /\ \A k \in Closers :
             closing[e][k] \notin {"idle", "done"} => CanClose(e, k)
        /\ invite[e] \in {"bound", "stored"} => CanAnswer(e)
        /\ closed[e] /\ rtp[e] = "running" => CanExit(e)
    BY Zenon DEF CallNeverStuck
  <2>3. "bye" \in Closers /\ "stop" \in Closers
    BY DEF Closers
  <2> QED BY <2>1, <2>2, <2>3, Zenon
<1>5. SipFairness => CallFairness(e)
  BY DEF SipFairness
<1>6. SipInit => HungInv
  BY Starts, MediaStarts DEF HungInv
<1>7. HungInv /\ [SipNext]_allVars => HungInv'
  BY StepKeeps, MediaKeeps DEF HungInv
<1> QED BY <1>1, <1>2, <1>3, <1>4, <1>5, <1>6, <1>7, PTL
        DEF SipFairSpec, SipSpec, CallFairness, CanClose, CanAnswer, CanExit
===============================================================================
