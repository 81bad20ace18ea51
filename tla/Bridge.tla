-------------------------------- MODULE Bridge --------------------------------
(***************************************************************************)
(* The session registry of internal/bridge/bridge.go together with the     *)
(* OpenAI leg each session owns (internal/openai/openai.go).               *)
(*                                                                         *)
(* A member of Sessions is one BridgeSession object, that is one call of   *)
(* CreateSession; SessionIds are the keys of Bridge.sessions, which the    *)
(* endpoints choose, so that two objects may carry the same id.  Callers   *)
(* (SIP handlers, WebSocket handlers, main) may create and remove sessions *)
(* concurrently and in any order.                                          *)
(*                                                                         *)
(* b.mu is modelled: RemoveSession holds it from the moment it clears      *)
(* isActive until the OpenAI leg is closed and the entry deleted, and the  *)
(* goroutines that do not take b.mu run in between.  To its callers the    *)
(* bridge is the simpler Registry.tla.  The store writes of CreateSession  *)
(* and the audio itself are left to other modules.                         *)
(***************************************************************************)
EXTENDS Naturals

CONSTANTS
  SessionIds,   \* keys of Bridge.sessions (SIP Call-IDs, WebRTC endpoint ids)
  Sessions,     \* BridgeSession objects, one per call of CreateSession
  NoSession,    \* absent map entry, nil pointer
  NoId,         \* id of an object not allocated yet; also "b.mu is free"
  MaxEvents     \* bound: no more reports once a leg made so many of a kind

ASSUME BridgeAssumption ==
  /\ NoSession \notin Sessions
  /\ NoId \notin SessionIds
  /\ MaxEvents \in Nat

(* Reasons passed to the session-end handler.  RemoveSessionWithReason is  *)
(* RemoveSession but for its reason, which "manual_removal" stands for.    *)
OpenAIReasons  == {"openai_error", "openai_connection_closed"}
RemovalReasons == {"manual_removal"}
Reasons        == OpenAIReasons \cup RemovalReasons \cup {"bridge_shutdown"}

(* How far the CreateSession call that owns an object has come.            *)
Stages == {"idle", "connecting", "signaling", "connected", "registered",
           "returned", "failed"}

VARIABLES
  sessions,   \* Bridge.sessions, guarded by b.mu
  mu,         \* NoId, or the id whose removal holds b.mu
  sid,        \* BridgeSession.id
  stage,      \* program counter of CreateSession
  isActive,   \* BridgeSession.isActive (a plain bool, no lock)
  ctxDone,    \* BridgeSession.ctx is cancelled
  peerConn,   \* OpenAIService.peerConnection: "none", "open" or "closed"
  output,     \* goroutine processOpusOutput: "none", "running", "exited"
  events,     \* history: failures and disconnections of the leg so far
  notices,    \* OnError / OnClose goroutines that did not read isActive yet
  checked,    \* those that found it set and did not call the handler yet
  endCalls,   \* calls of the session-end handler, by reason
  shutPc,     \* program counter of Shutdown
  shutTodo,   \* sessions of Shutdown's snapshot still to be visited
  shutCur     \* session Shutdown has just notified

objVars    == <<sid, stage, peerConn, output>>
flagVars   == <<isActive, ctxDone>>
noticeVars == <<events, notices, checked, endCalls>>
shutVars   == <<shutPc, shutTodo, shutCur>>
vars       == <<sessions, mu, objVars, flagVars, noticeVars, shutVars>>

TypeOK ==
  /\ sessions \in [SessionIds -> Sessions \cup {NoSession}]
  /\ mu \in SessionIds \cup {NoId}
  /\ sid \in [Sessions -> SessionIds \cup {NoId}]
  /\ stage \in [Sessions -> Stages]
  /\ isActive \in [Sessions -> BOOLEAN]
  /\ ctxDone \in [Sessions -> BOOLEAN]
  /\ peerConn \in [Sessions -> {"none", "open", "closed"}]
  /\ output \in [Sessions -> {"none", "running", "exited"}]
  /\ events \in [Sessions -> [OpenAIReasons -> Nat]]
  /\ notices \in [Sessions -> [OpenAIReasons -> Nat]]
  /\ checked \in [Sessions -> [OpenAIReasons -> Nat]]
  /\ endCalls \in [Sessions -> [Reasons -> Nat]]
  /\ shutPc \in {"idle", "looping", "removing", "done"}
  /\ shutTodo \in SUBSET Sessions
  /\ shutCur \in Sessions \cup {NoSession}

Init ==
  /\ sessions = [i \in SessionIds |-> NoSession]
  /\ mu = NoId
  /\ sid = [s \in Sessions |-> NoId]
  /\ stage = [s \in Sessions |-> "idle"]
  /\ isActive = [s \in Sessions |-> FALSE]
  /\ ctxDone = [s \in Sessions |-> FALSE]
  /\ peerConn = [s \in Sessions |-> "none"]
  /\ output = [s \in Sessions |-> "none"]
  /\ events = [s \in Sessions |-> [k \in OpenAIReasons |-> 0]]
  /\ notices = [s \in Sessions |-> [k \in OpenAIReasons |-> 0]]
  /\ checked = [s \in Sessions |-> [k \in OpenAIReasons |-> 0]]
  /\ endCalls = [s \in Sessions |-> [r \in Reasons |-> 0]]
  /\ shutPc = "idle"
  /\ shutTodo = {}
  /\ shutCur = NoSession

-------------------------------------------------------------------------------
(* CreateSession, one action per point at which another goroutine can see  *)
(* its effect.                                                             *)

(* Allocation of the object, up to the call of Connect.                    *)
CreateSession(s, i) ==
  /\ stage[s] = "idle"
  /\ stage' = [stage EXCEPT ![s] = "connecting"]
  /\ sid' = [sid EXCEPT ![s] = i]
  /\ isActive' = [isActive EXCEPT ![s] = TRUE]
  /\ UNCHANGED <<sessions, mu, ctxDone, peerConn, output, noticeVars>>

(* Connect obtained the ephemeral key and created the peer connection,     *)
(* whose callbacks are live from here on.                                  *)
CreatePeerConnection(s) ==
  /\ stage[s] = "connecting"
  /\ stage' = [stage EXCEPT ![s] = "signaling"]
  /\ peerConn' = [peerConn EXCEPT ![s] = "open"]
  /\ UNCHANGED <<sessions, mu, sid, flagVars, output, noticeVars>>

(* Data channel, audio track and the offer/answer exchange succeeded.      *)
PerformSignaling(s) ==
  /\ stage[s] = "signaling"
  /\ stage' = [stage EXCEPT ![s] = "connected"]
  /\ UNCHANGED <<sessions, mu, sid, flagVars, peerConn, output, noticeVars>>

(* A step of Connect failed: OnError is spawned, CreateSession cancels the *)
(* context and returns the error.  A peer connection that was created      *)
(* already is not closed, and isActive stays set.                          *)
ConnectFail(s) ==
  /\ stage[s] \in {"connecting", "signaling"}
  /\ stage' = [stage EXCEPT ![s] = "failed"]
  /\ ctxDone' = [ctxDone EXCEPT ![s] = TRUE]
  /\ events' = [events EXCEPT ![s]["openai_error"] = @ + 1]
  /\ notices' = [notices EXCEPT ![s]["openai_error"] = @ + 1]
  /\ UNCHANGED <<sessions, mu, sid, isActive, peerConn, output, checked,
                 endCalls>>

RegisterKeepsOld(s) ==
  /\ stage[s] = "connected"
  /\ mu = NoId
  /\ stage' = [stage EXCEPT ![s] = "registered"]
  /\ sessions' = IF sessions[sid[s]] = NoSession
                   THEN [sessions EXCEPT ![sid[s]] = s] ELSE sessions
  /\ UNCHANGED <<mu, sid, flagVars, peerConn, output, noticeVars>>

(* The entry is written under b.mu; an entry of the same id is replaced.   *)
Register(s) ==
  /\ stage[s] = "connected"
  /\ mu = NoId
  /\ stage' = [stage EXCEPT ![s] = "registered"]
  /\ sessions' = [sessions EXCEPT ![sid[s]] = s]
  /\ UNCHANGED <<mu, sid, flagVars, peerConn, output, noticeVars>>

StartOutput(s) ==
  /\ stage[s] = "registered"
  /\ stage' = [stage EXCEPT ![s] = "returned"]
  /\ output' = [output EXCEPT ![s] = "running"]
  /\ UNCHANGED <<sessions, mu, sid, flagVars, peerConn, noticeVars>>

(* processOpusOutput leaves its loop once the context is cancelled.        *)
OutputExit(s) ==
  /\ output[s] = "running"
  /\ ctxDone[s]
  /\ output' = [output EXCEPT ![s] = "exited"]
  /\ UNCHANGED <<sessions, mu, sid, stage, flagVars, peerConn, noticeVars>>

-------------------------------------------------------------------------------
(* Notifications of the OpenAI leg.  notifyError / notifyClose spawn a     *)
(* goroutine, which reads isActive without a lock and then calls the       *)
(* session-end handler; the session stays registered.                      *)

(* The peer connection, the data channel or the audio track reports a      *)
(* failure or a disconnection.                                             *)
Notify(s, k) ==
  /\ peerConn[s] # "none"
  /\ \A t \in Sessions, j \in OpenAIReasons : events[t][j] < MaxEvents
  /\ events' = [events EXCEPT ![s][k] = @ + 1]
  /\ notices' = [notices EXCEPT ![s][k] = @ + 1]
  /\ UNCHANGED <<sessions, mu, objVars, flagVars, checked, endCalls>>

OnNoticeAlways(s, k) ==
  /\ notices[s][k] > 0
  /\ notices' = [notices EXCEPT ![s][k] = @ - 1]
  /\ checked' = [checked EXCEPT ![s][k] = @ + 1]
  /\ UNCHANGED <<sessions, mu, objVars, flagVars, events, endCalls>>

(* The spawned OnError / OnClose goroutine reads isActive.                 *)
OnNotice(s, k) ==
  /\ notices[s][k] > 0
  /\ notices' = [notices EXCEPT ![s][k] = @ - 1]
  /\ checked' = IF isActive[s] THEN [checked EXCEPT ![s][k] = @ + 1]
                               ELSE checked
  /\ UNCHANGED <<sessions, mu, objVars, flagVars, events, endCalls>>

(* Having found it set, it calls the end handler, possibly after the       *)
(* session was removed in between.                                         *)
CallSessionEndHandler(s, k) ==
  /\ checked[s][k] > 0
  /\ checked' = [checked EXCEPT ![s][k] = @ - 1]
  /\ endCalls' = [endCalls EXCEPT ![s][k] = @ + 1]
  /\ UNCHANGED <<sessions, mu, objVars, flagVars, events, notices>>

-------------------------------------------------------------------------------
(* RemoveSession and RemoveSessionWithReason.  An id without an entry is a *)
(* no-op.                                                                  *)

RemoveBeginKeepsCtx(i, r) ==
  /\ mu = NoId
  /\ sessions[i] # NoSession
  /\ mu' = i
  /\ LET s == sessions[i] IN
       /\ isActive' = [isActive EXCEPT ![s] = FALSE]
       /\ endCalls' = [endCalls EXCEPT ![s][r] = @ + 1]
  /\ UNCHANGED <<sessions, objVars, ctxDone, events, notices, checked>>

(* b.mu taken, isActive cleared, the end handler spawned, ctx cancelled.   *)
RemoveBegin(i, r) ==
  /\ mu = NoId
  /\ sessions[i] # NoSession
  /\ mu' = i
  /\ LET s == sessions[i] IN
       /\ isActive' = [isActive EXCEPT ![s] = FALSE]
       /\ endCalls' = [endCalls EXCEPT ![s][r] = @ + 1]
       /\ ctxDone' = [ctxDone EXCEPT ![s] = TRUE]
  /\ UNCHANGED <<sessions, objVars, events, notices, checked>>

(* OpenAIService.Close: data channel and peer connection are closed and    *)
(* OnClose is spawned once more.                                           *)
CloseOpenAI(s) ==
  /\ peerConn' = [peerConn EXCEPT ![s] = "closed"]
  /\ notices' = [notices EXCEPT ![s]["openai_connection_closed"] = @ + 1]
  /\ UNCHANGED <<sid, stage, output, flagVars, events, checked, endCalls>>

RemoveEndKeepsEntry(i) ==
  /\ mu = i
  /\ mu' = NoId
  /\ CloseOpenAI(sessions[i])
  /\ UNCHANGED sessions

RemoveEndKeepsPeer(i) ==
  /\ mu = i
  /\ mu' = NoId
  /\ sessions' = [sessions EXCEPT ![i] = NoSession]
  /\ UNCHANGED <<objVars, flagVars, noticeVars>>

RemoveEndKeepsLock(i) ==
  /\ mu = i
  /\ sessions[i] # NoSession
  /\ CloseOpenAI(sessions[i])
  /\ sessions' = [sessions EXCEPT ![i] = NoSession]
  /\ UNCHANGED mu

(* The OpenAI leg is closed, the entry deleted and b.mu released.          *)
RemoveEnd(i) ==
  /\ mu = i
  /\ mu' = NoId
  /\ CloseOpenAI(sessions[i])
  /\ sessions' = [sessions EXCEPT ![i] = NoSession]

-------------------------------------------------------------------------------
(* Shutdown: a snapshot of the map, then for every session of it the end   *)
(* handler and RemoveSession(session.id).                                  *)

Registered(s) == \E i \in SessionIds : sessions[i] = s

ShutdownBegin ==
  /\ shutPc = "idle"
  /\ mu = NoId
  /\ shutPc' = "looping"
  /\ shutTodo' = {s \in Sessions : Registered(s)}
  /\ UNCHANGED <<sessions, mu, objVars, flagVars, noticeVars, shutCur>>

ShutdownNotify(s) ==
  /\ shutPc = "looping"
  /\ shutCur = NoSession
  /\ s \in shutTodo
  /\ shutTodo' = shutTodo \ {s}
  /\ shutCur' = s
  /\ endCalls' = [endCalls EXCEPT ![s]["bridge_shutdown"] = @ + 1]
  /\ UNCHANGED <<sessions, mu, objVars, flagVars, events, notices, checked,
                 shutPc>>

ShutdownRemoveSkips ==
  /\ shutPc = "looping"
  /\ shutCur # NoSession
  /\ shutCur' = NoSession
  /\ UNCHANGED <<sessions, mu, objVars, flagVars, noticeVars, shutPc, shutTodo>>

(* The id may have been removed, or re-registered, since the snapshot.     *)
ShutdownRemove ==
  /\ shutPc = "looping"
  /\ shutCur # NoSession
  /\ mu = NoId
  /\ UNCHANGED shutTodo
  /\ \/ /\ sessions[sid[shutCur]] = NoSession
        /\ shutCur' = NoSession
        /\ UNCHANGED <<sessions, mu, objVars, flagVars, noticeVars, shutPc>>
     \/ /\ RemoveBegin(sid[shutCur], "manual_removal")
        /\ shutPc' = "removing"
        /\ UNCHANGED shutCur

ShutdownRemoved ==
  /\ shutPc = "removing"
  /\ RemoveEnd(sid[shutCur])
  /\ shutPc' = "looping"
  /\ shutCur' = NoSession
  /\ UNCHANGED shutTodo

ShutdownDone ==
  /\ shutPc = "looping"
  /\ shutCur = NoSession
  /\ shutTodo = {}
  /\ shutPc' = "done"
  /\ UNCHANGED <<sessions, mu, objVars, flagVars, noticeVars, shutTodo, shutCur>>

-------------------------------------------------------------------------------
(* What the goroutines of one session do on their own.                     *)
SessionStep(s) ==
  \/ CreatePeerConnection(s)
  \/ PerformSignaling(s)
  \/ ConnectFail(s)
  \/ Register(s)
  \/ StartOutput(s)
  \/ OutputExit(s)
  \/ \E k \in OpenAIReasons :
       Notify(s, k) \/ OnNotice(s, k) \/ CallSessionEndHandler(s, k)

ShutdownStep ==
  \/ ShutdownBegin
  \/ \E s \in Sessions : ShutdownNotify(s)
  \/ ShutdownRemove
  \/ ShutdownRemoved
  \/ ShutdownDone

(* What the owners of the endpoints ask for.                               *)
CallerStep ==
  \/ \E s \in Sessions, i \in SessionIds : CreateSession(s, i)
  \/ \E i \in SessionIds, r \in RemovalReasons : RemoveBegin(i, r)
  \/ shutPc # "removing" /\ \E i \in SessionIds : RemoveEnd(i)

Next ==
  \/ CallerStep /\ UNCHANGED shutVars
  \/ (\E s \in Sessions : SessionStep(s)) /\ UNCHANGED shutVars
  \/ ShutdownStep

Spec == Init /\ [][Next]_vars

(* Goroutines run, the HTTP calls of Connect time out after 30 s, and      *)
(* whoever holds b.mu finishes.  Nothing makes a caller create or remove a *)
(* session or call Shutdown.                                               *)
SessionFairness(s) ==
  /\ WF_vars(CreatePeerConnection(s) /\ UNCHANGED shutVars)
  /\ WF_vars((PerformSignaling(s) \/ ConnectFail(s)) /\ UNCHANGED shutVars)
  /\ WF_vars(StartOutput(s) /\ UNCHANGED shutVars)
  /\ WF_vars(OutputExit(s) /\ UNCHANGED shutVars)
  /\ WF_vars(ShutdownNotify(s))

SessionsFair == \A s \in Sessions : SessionFairness(s)

CallerRemoves ==
  /\ shutPc # "removing"
  /\ \E i \in SessionIds : RemoveEnd(i)
  /\ UNCHANGED shutVars

Fairness ==
  /\ SessionsFair
  /\ WF_vars(CallerRemoves)
  /\ SF_vars(ShutdownRemove)
  /\ WF_vars(ShutdownRemoved)
  /\ WF_vars(ShutdownDone)

FairSpec == Spec /\ Fairness

-------------------------------------------------------------------------------
(* PROPERTIES                                                              *)

(* A session found in the map is usable: it carries the key it is stored   *)
(* under, CreateSession got past Connect for it, and unless its removal is *)
(* under way (b.mu held) it is active, its context is live and its OpenAI  *)
(* connection open.  bridge.go:303-306 against bridge.go:389-401.          *)
RegisteredLive ==
  \A i \in SessionIds : sessions[i] # NoSession =>
    LET s == sessions[i] IN
      /\ sid[s] = i
      /\ stage[s] \in {"registered", "returned"}
      /\ peerConn[s] = "open"
      /\ mu # i => isActive[s] /\ ~ctxDone[s]

(* However many callers remove an id concurrently (endpoint close, server  *)
(* stop, bridge shutdown), one session object is removed at most once, so  *)
(* the end handler hears of at most one removal of it.                     *)
RemovedOnce ==
  \A s \in Sessions : endCalls[s]["manual_removal"] <= 1

(* A session that was registered and is out of the map has its OpenAI      *)
(* connection closed, unless another session was registered under the same *)
(* id, before or after it.  (The other way to leave a connection open is a *)
(* Connect that failed after creating it: such a session is never          *)
(* registered.)                                                            *)
LeakOnlyByFailureOrCollision ==
  \A s \in Sessions :
    /\ peerConn[s] = "open"
    /\ stage[s] \in {"registered", "returned"}
    /\ ~Registered(s)
    => \E t \in Sessions \ {s} :
         sid[t] = sid[s] /\ stage[t] \in {"registered", "returned"}

(* OpenAIService.Close makes the leg report its own closure.  The end      *)
(* handler never hears of that report: whatever it was told with an OpenAI *)
(* reason, some failure or disconnection of the leg stands for it, even    *)
(* though the goroutines read isActive without a lock.                     *)
OwnClosureSilent ==
  \A s \in Sessions, k \in OpenAIReasons :
    checked[s][k] + endCalls[s][k] <= events[s][k]

(* A session told of "bridge_shutdown" is out of the map when Shutdown     *)
(* moves on, even if its id was removed or taken over in the meantime.     *)
ShutdownRemovesNotified ==
  \A s \in Sessions :
    endCalls[s]["bridge_shutdown"] > 0 /\ shutCur # s => ~Registered(s)

(* To its callers the bridge is an atomic map: the two phases of a removal *)
(* under b.mu, Shutdown's loop over a snapshot and the goroutines around   *)
(* them amount to registrations and single deletions (Registry.tla).       *)
RegistryStatus ==
  [s \in Sessions |->
     IF stage[s] \in {"connecting", "signaling", "connected"} THEN "creating"
     ELSE IF stage[s] = "returned" THEN "registered"
     ELSE stage[s]]

Map == INSTANCE Registry WITH status <- RegistryStatus

ImplementsRegistry == Map!RegSpec

(* Shutdown gets through its snapshot whatever the other goroutines do.    *)
ShutdownTerminates == (shutPc = "looping") ~> (shutPc = "done")

(* A session that was deactivated ends with its OpenAI connection closed   *)
(* and its output goroutine gone, also when the removal came between the   *)
(* registration and the start of that goroutine.                           *)
RemovedQuiesces ==
  \A s \in Sessions :
    (stage[s] # "idle" /\ ~isActive[s])
      ~> (peerConn[s] = "closed" /\ output[s] = "exited")
===============================================================================
