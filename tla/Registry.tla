------------------------------- MODULE Registry -------------------------------
(***************************************************************************)
(* What the bridge promises its callers about sessions, without locks,     *)
(* OpenAI connections or notifications: CreateSession either fails or puts *)
(* its object in the map before it returns, and a removal is one atomic    *)
(* deletion of whatever the id maps to.  Bridge.tla implements this        *)
(* specification (property ImplementsRegistry there); SipServer.tla is a   *)
(* client of it.                                                           *)
(***************************************************************************)
CONSTANTS
  SessionIds,   \* keys of Bridge.sessions (SIP Call-IDs, WebRTC endpoint ids)
  Sessions,     \* BridgeSession objects, one per call of CreateSession
  NoSession,    \* absent map entry, nil pointer
  NoId          \* id of an object that is not allocated yet

VARIABLES
  sessions,     \* Bridge.sessions
  sid,          \* BridgeSession.id
  status        \* how far the CreateSession that owns an object has come

regVars == <<sessions, sid, status>>

Statuses == {"idle", "creating", "registered", "failed"}

RegTypeOK ==
  /\ sessions \in [SessionIds -> Sessions \cup {NoSession}]
  /\ sid \in [Sessions -> SessionIds \cup {NoId}]
  /\ status \in [Sessions -> Statuses]

RegInit ==
  /\ sessions = [i \in SessionIds |-> NoSession]
  /\ sid = [s \in Sessions |-> NoId]
  /\ status = [s \in Sessions |-> "idle"]

BeginCreate(s, i) ==
  /\ status[s] = "idle"
  /\ status' = [status EXCEPT ![s] = "creating"]
  /\ sid' = [sid EXCEPT ![s] = i]
  /\ UNCHANGED sessions

FailCreate(s) ==
  /\ status[s] = "creating"
  /\ status' = [status EXCEPT ![s] = "failed"]
  /\ UNCHANGED <<sessions, sid>>

(* An entry of the same id is replaced.                                    *)
PutSession(s) ==
  /\ status[s] = "creating"
  /\ status' = [status EXCEPT ![s] = "registered"]
  /\ sessions' = [sessions EXCEPT ![sid[s]] = s]
  /\ UNCHANGED sid

(* RemoveSession, RemoveSessionWithReason, or the same from Shutdown.      *)
DropSession(i) ==
  /\ sessions[i] # NoSession
  /\ sessions' = [sessions EXCEPT ![i] = NoSession]
  /\ UNCHANGED <<sid, status>>

CreateStep(s) == FailCreate(s) \/ PutSession(s)

RegNext ==
  \/ \E s \in Sessions, i \in SessionIds : BeginCreate(s, i)
  \/ \E s \in Sessions : CreateStep(s)
  \/ \E i \in SessionIds : DropSession(i)

RegSpec == RegInit /\ [][RegNext]_regVars

Registered(s) == \E i \in SessionIds : sessions[i] = s
===============================================================================
