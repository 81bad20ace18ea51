----------------------------- MODULE BridgeProofs -----------------------------
(***************************************************************************)
(* Proofs that the safety properties of Bridge.tla hold for every set of   *)
(* ids and session objects.  IInv is the inductive invariant; each of its  *)
(* conjuncts is named after what it adds to the properties.                *)
(***************************************************************************)
EXTENDS Bridge, TLAPS

InMap  == {"registered", "returned"}        \* stages after b.sessions[id] = s
Before == {"connecting", "signaling", "connected"}

Removals(s) == endCalls[s]["manual_removal"]

(* An object has an id once CreateSession allocated it.                    *)
Allocated == \A s \in Sessions : stage[s] # "idle" => sid[s] \in SessionIds

(* Until it is registered an object's context is live, and from its        *)
(* allocation on it is active; from signaling on its connection is open.   *)
Fresh ==
  \A s \in Sessions :
    /\ stage[s] = "idle" => ~ctxDone[s]
    /\ stage[s] \in Before => isActive[s] /\ ~ctxDone[s]
    /\ stage[s] \in {"signaling", "connected"} => peerConn[s] = "open"

(* b.mu is held for the id of an entry whose object is inactive already.   *)
LockedEntry ==
  mu # NoId => sessions[mu] # NoSession /\ ~isActive[sessions[mu]]

(* An active object was not removed yet, and no removal precedes creation. *)
RemovalsOnce ==
  \A s \in Sessions :
    /\ Removals(s) <= 1
    /\ isActive[s] \/ stage[s] = "idle" => Removals(s) = 0

(* While the object is active every goroutine stands for an event; the one *)
(* spawned by Close comes on top when isActive is already clear.           *)
NoticesCounted ==
  \A s \in Sessions, k \in OpenAIReasons :
    /\ checked[s][k] + endCalls[s][k] <= events[s][k]
    /\ isActive[s] \/ stage[s] = "idle" =>
         notices[s][k] + checked[s][k] + endCalls[s][k] <= events[s][k]

(* Shutdown only ever handles objects that were in the map, and holds b.mu *)
(* for the id of the current one while removing it.                        *)
ShutdownKnown ==
  /\ \A s \in Sessions :
       s \in shutTodo \/ s = shutCur \/ endCalls[s]["bridge_shutdown"] > 0
         => stage[s] \in InMap
  /\ shutPc = "removing" => shutCur # NoSession /\ mu = sid[shutCur]

IInv ==
  /\ TypeOK
  /\ Allocated
  /\ Fresh
  /\ RegisteredLive
  /\ LockedEntry
  /\ RemovalsOnce
  /\ LeakOnlyByFailureOrCollision
  /\ NoticesCounted
  /\ ShutdownKnown
  /\ ShutdownRemovesNotified
-------------------------------------------------------------------------------
(* The steps as the registry sees them: a step of Shutdown is a removal,   *)
(* one call of the end handler, or nothing at all.                         *)
ShutdownCall(s) ==
  /\ endCalls' = [endCalls EXCEPT ![s]["bridge_shutdown"] = @ + 1]
  /\ UNCHANGED <<sessions, mu, objVars, flagVars, events, notices, checked>>

RegistryStep ==
  \/ \E s \in Sessions, i \in SessionIds : CreateSession(s, i)
  \/ \E i \in SessionIds, r \in RemovalReasons : RemoveBegin(i, r)
  \/ \E i \in SessionIds : RemoveEnd(i)
  \/ \E s \in Sessions : SessionStep(s)
  \/ \E s \in Sessions : ShutdownCall(s)
  \/ UNCHANGED <<sessions, mu, objVars, flagVars, noticeVars>>

(* Shutdown's own variables aside, every step is one of these.             *)
LEMMA StepIsRegistryStep == IInv /\ [Next]_vars => RegistryStep
<1> SUFFICES ASSUME IInv, [Next]_vars PROVE RegistryStep
  OBVIOUS
<1> USE DEF RegistryStep
<1>1. CASE CallerStep
  BY <1>1 DEF CallerStep
<1>2. CASE \E s \in Sessions : SessionStep(s)
  BY <1>2
<1>3. CASE \E s \in Sessions : ShutdownNotify(s)
  BY <1>3 DEF ShutdownNotify, ShutdownCall
<1>4. CASE ShutdownRemove
  <2>1. sid[shutCur] \in SessionIds
    BY <1>4 DEF ShutdownRemove, IInv, TypeOK, Allocated, ShutdownKnown, InMap
  <2> QED BY <1>4, <2>1 DEF ShutdownRemove, RemovalReasons
<1>5. CASE ShutdownRemoved
  <2>1. sid[shutCur] \in SessionIds
    BY <1>5 DEF ShutdownRemoved, IInv, TypeOK, Allocated, ShutdownKnown, InMap
  <2> QED BY <1>5, <2>1 DEF ShutdownRemoved
<1>6. CASE ShutdownBegin \/ ShutdownDone \/ UNCHANGED vars
  BY <1>6 DEF ShutdownBegin, ShutdownDone, vars
<1> QED BY <1>1, <1>2, <1>3, <1>4, <1>5, <1>6 DEF Next, ShutdownStep

(* An entry of the map is an object that carries its key.                  *)
LEMMA EntryFacts ==
  ASSUME IInv, NEW i \in SessionIds, sessions[i] # NoSession
  PROVE  /\ sessions[i] \in Sessions
         /\ sid[sessions[i]] = i
         /\ stage[sessions[i]] \in InMap
         /\ peerConn[sessions[i]] = "open"
         /\ mu = NoId => isActive[sessions[i]]
BY BridgeAssumption DEF IInv, TypeOK, RegisteredLive, InMap

(* Every action keeps the variables in their types.                        *)
LEMMA TypeStep == IInv /\ [Next]_vars => TypeOK'
<1> SUFFICES ASSUME IInv, [Next]_vars PROVE TypeOK'
  OBVIOUS
<1>1. RegistryStep
  BY StepIsRegistryStep
<1>2. (/\ shutPc \in {"idle", "looping", "removing", "done"}
       /\ shutTodo \in SUBSET Sessions
       /\ shutCur \in Sessions \cup {NoSession})'
  BY DEF IInv, TypeOK, Next, ShutdownStep, ShutdownBegin, ShutdownNotify,
         ShutdownRemove, ShutdownRemoved, ShutdownDone, vars, shutVars
<1> DEFINE RegistryTypeOK ==
      /\ sessions \in [SessionIds -> Sessions \cup {NoSession}]
      /\ mu \in SessionIds \cup {NoId}
      /\ sid \in [Sessions -> SessionIds \cup {NoId}]
      /\ stage \in [Sessions -> Stages]
      /\ isActive \in [Sessions -> BOOLEAN]
      /\ ctxDone \in [Sessions -> BOOLEAN]
      /\ peerConn \in [Sessions -> {"none", "open", "closed"}]
      /\ output \in [Sessions -> {"none", "running", "exited"}]
      /\ events \in [Sessions -> [OpenAIReasons -> Nat]]
      /\ notices \in [Sessions -> [OpenAIReasons -> Nat]]
      /\ checked \in [Sessions -> [OpenAIReasons -> Nat]]
      /\ endCalls \in [Sessions -> [Reasons -> Nat]]
<1>3. RegistryTypeOK'
  <2> USE BridgeAssumption DEF IInv, TypeOK, objVars, flagVars, noticeVars,
        Stages
  <2>0. /\ OpenAIReasons \subseteq Reasons
        /\ RemovalReasons \subseteq Reasons
        /\ "bridge_shutdown" \in Reasons
    BY DEF Reasons
  <2>1. ASSUME NEW s \in Sessions, NEW i \in SessionIds, CreateSession(s, i)
        PROVE  RegistryTypeOK'
    BY <2>1 DEF CreateSession
  <2>2. ASSUME NEW i \in SessionIds, NEW r \in RemovalReasons, RemoveBegin(i, r)
        PROVE  RegistryTypeOK'
    BY <2>0, <2>2, EntryFacts DEF RemoveBegin
  <2>3. ASSUME NEW i \in SessionIds, RemoveEnd(i)
        PROVE  RegistryTypeOK'
    BY <2>3, EntryFacts DEF RemoveEnd, CloseOpenAI, LockedEntry, OpenAIReasons
  <2>4. ASSUME NEW s \in Sessions,
               CreatePeerConnection(s) \/ PerformSignaling(s)
        PROVE  RegistryTypeOK'
    BY <2>4 DEF CreatePeerConnection, PerformSignaling
  <2>5. ASSUME NEW s \in Sessions, ConnectFail(s)
        PROVE  RegistryTypeOK'
    BY <2>5 DEF ConnectFail, OpenAIReasons
  <2>6. ASSUME NEW s \in Sessions, Register(s)
        PROVE  RegistryTypeOK'
    BY <2>6 DEF Register
  <2>7. ASSUME NEW s \in Sessions, StartOutput(s) \/ OutputExit(s)
        PROVE  RegistryTypeOK'
    BY <2>7 DEF StartOutput, OutputExit
  <2>8. ASSUME NEW s \in Sessions, NEW k \in OpenAIReasons,
               Notify(s, k) \/ OnNotice(s, k)
        PROVE  RegistryTypeOK'
    <3>1. CASE Notify(s, k)
      BY <3>1 DEF Notify
    <3>2. CASE OnNotice(s, k)
      BY <3>2 DEF OnNotice
    <3> QED BY <2>8, <3>1, <3>2
  <2>9. ASSUME NEW s \in Sessions, NEW k \in OpenAIReasons,
               CallSessionEndHandler(s, k)
        PROVE  RegistryTypeOK'
    BY <2>0, <2>9 DEF CallSessionEndHandler
  <2>10. ASSUME NEW s \in Sessions, ShutdownCall(s)
         PROVE  RegistryTypeOK'
    BY <2>0, <2>10 DEF ShutdownCall
  <2>11. CASE UNCHANGED <<sessions, mu, objVars, flagVars, noticeVars>>
    BY <2>11
  <2> QED BY <1>1, <2>1, <2>2, <2>3, <2>4, <2>5, <2>6, <2>7, <2>8, <2>9,
             <2>10, <2>11 DEF RegistryStep, SessionStep
<1> QED BY <1>2, <1>3 DEF TypeOK

(* An id is given once and never taken back.                               *)
LEMMA AllocatedStep == IInv /\ TypeOK' /\ RegistryStep => Allocated'
<1> SUFFICES ASSUME IInv, TypeOK', RegistryStep PROVE Allocated'
  OBVIOUS
<1> USE BridgeAssumption DEF IInv, TypeOK, objVars, flagVars, noticeVars,
      Allocated, Stages
<1>1. ASSUME NEW s \in Sessions, NEW i \in SessionIds,
             CreateSession(s, i)
      PROVE  Allocated'
  BY <1>1 DEF CreateSession
<1>2. ASSUME NEW i \in SessionIds, NEW r \in RemovalReasons,
             RemoveBegin(i, r)
      PROVE  Allocated'
  BY <1>2, EntryFacts DEF RemoveBegin
<1>3. ASSUME NEW i \in SessionIds,
             RemoveEnd(i)
      PROVE  Allocated'
  BY <1>3, EntryFacts DEF RemoveEnd, CloseOpenAI
<1>4. ASSUME NEW s \in Sessions,
             CreatePeerConnection(s) \/ PerformSignaling(s) \/ ConnectFail(s)
      PROVE  Allocated'
  BY <1>4 DEF CreatePeerConnection, PerformSignaling, ConnectFail
<1>5. ASSUME NEW s \in Sessions,
             Register(s)
      PROVE  Allocated'
  BY <1>5 DEF Register
<1>6. ASSUME NEW s \in Sessions,
             StartOutput(s) \/ OutputExit(s)
      PROVE  Allocated'
  BY <1>6 DEF StartOutput, OutputExit
<1>7. ASSUME NEW s \in Sessions, NEW k \in OpenAIReasons,
             Notify(s, k) \/ OnNotice(s, k) \/ CallSessionEndHandler(s, k)
      PROVE  Allocated'
  BY <1>7 DEF Notify, OnNotice, CallSessionEndHandler
<1>8. ASSUME NEW s \in Sessions,
             ShutdownCall(s)
      PROVE  Allocated'
  BY <1>8 DEF ShutdownCall
<1>9. CASE UNCHANGED <<sessions, mu, objVars, flagVars, noticeVars>>
  BY <1>9
<1> QED BY <1>1, <1>2, <1>3, <1>4, <1>5, <1>6, <1>7, <1>8, <1>9
        DEF RegistryStep, SessionStep

(* Only an object that was registered can be in the map, and only objects  *)
(* in the map are removed; so what was not registered yet keeps its flags. *)
LEMMA FreshStep == IInv /\ TypeOK' /\ RegistryStep => Fresh'
<1> SUFFICES ASSUME IInv, TypeOK', RegistryStep PROVE Fresh'
  OBVIOUS
<1> USE BridgeAssumption DEF IInv, TypeOK, objVars, flagVars, noticeVars,
      Fresh, Before, Stages
<1>1. ASSUME NEW s \in Sessions, NEW i \in SessionIds,
             CreateSession(s, i)
      PROVE  Fresh'
  BY <1>1 DEF CreateSession
<1>2. ASSUME NEW i \in SessionIds, NEW r \in RemovalReasons,
             RemoveBegin(i, r)
      PROVE  Fresh'
  <2>1. sessions[i] \in Sessions /\ stage[sessions[i]] \in InMap
    BY <1>2, EntryFacts DEF RemoveBegin, RemoveEnd, LockedEntry
  <2> QED BY <1>2, <2>1 DEF RemoveBegin, InMap
<1>3. ASSUME NEW i \in SessionIds,
             RemoveEnd(i)
      PROVE  Fresh'
  <2>1. sessions[i] \in Sessions /\ stage[sessions[i]] \in InMap
    BY <1>3, EntryFacts DEF RemoveBegin, RemoveEnd, LockedEntry
  <2> QED BY <1>3, <2>1 DEF RemoveEnd, CloseOpenAI, InMap
<1>4. ASSUME NEW s \in Sessions,
             CreatePeerConnection(s) \/ PerformSignaling(s) \/ ConnectFail(s)
      PROVE  Fresh'
  BY <1>4 DEF CreatePeerConnection, PerformSignaling, ConnectFail
<1>5. ASSUME NEW s \in Sessions,
             Register(s)
      PROVE  Fresh'
  BY <1>5 DEF Register
<1>6. ASSUME NEW s \in Sessions,
             StartOutput(s) \/ OutputExit(s)
      PROVE  Fresh'
  BY <1>6 DEF StartOutput, OutputExit
<1>7. ASSUME NEW s \in Sessions, NEW k \in OpenAIReasons,
             Notify(s, k) \/ OnNotice(s, k) \/ CallSessionEndHandler(s, k)
      PROVE  Fresh'
  BY <1>7 DEF Notify, OnNotice, CallSessionEndHandler
<1>8. ASSUME NEW s \in Sessions,
             ShutdownCall(s)
      PROVE  Fresh'
  BY <1>8 DEF ShutdownCall
<1>9. CASE UNCHANGED <<sessions, mu, objVars, flagVars, noticeVars>>
  BY <1>9
<1> QED BY <1>1, <1>2, <1>3, <1>4, <1>5, <1>6, <1>7, <1>8, <1>9
        DEF RegistryStep, SessionStep

(* The entry written by Register is fresh; RemoveBegin deactivates an      *)
(* entry only while it holds b.mu for it, and RemoveEnd deletes it before  *)
(* letting go.                                                             *)
LEMMA RegisteredLiveStep == IInv /\ TypeOK' /\ RegistryStep => RegisteredLive'
<1> SUFFICES ASSUME IInv, TypeOK', RegistryStep PROVE RegisteredLive'
  OBVIOUS
<1> USE BridgeAssumption DEF IInv, TypeOK, objVars, flagVars, noticeVars,
      RegisteredLive, Fresh, Before
<1>1. ASSUME NEW s \in Sessions, NEW i \in SessionIds,
             CreateSession(s, i)
      PROVE  RegisteredLive'
  BY <1>1 DEF CreateSession
<1>2. ASSUME NEW i \in SessionIds, NEW r \in RemovalReasons,
             RemoveBegin(i, r)
      PROVE  RegisteredLive'
  BY <1>2, EntryFacts DEF RemoveBegin
<1>3. ASSUME NEW i \in SessionIds,
             RemoveEnd(i)
      PROVE  RegisteredLive'
  BY <1>3, EntryFacts DEF RemoveEnd, CloseOpenAI
<1>4. ASSUME NEW s \in Sessions,
             CreatePeerConnection(s) \/ PerformSignaling(s) \/ ConnectFail(s)
      PROVE  RegisteredLive'
  BY <1>4 DEF CreatePeerConnection, PerformSignaling, ConnectFail
<1>5. ASSUME NEW s \in Sessions,
             Register(s)
      PROVE  RegisteredLive'
  BY <1>5 DEF Register
<1>6. ASSUME NEW s \in Sessions,
             StartOutput(s) \/ OutputExit(s)
      PROVE  RegisteredLive'
  BY <1>6 DEF StartOutput, OutputExit
<1>7. ASSUME NEW s \in Sessions, NEW k \in OpenAIReasons,
             Notify(s, k) \/ OnNotice(s, k) \/ CallSessionEndHandler(s, k)
      PROVE  RegisteredLive'
  BY <1>7 DEF Notify, OnNotice, CallSessionEndHandler
<1>8. ASSUME NEW s \in Sessions,
             ShutdownCall(s)
      PROVE  RegisteredLive'
  BY <1>8 DEF ShutdownCall
<1>9. CASE UNCHANGED <<sessions, mu, objVars, flagVars, noticeVars>>
  BY <1>9
<1> QED BY <1>1, <1>2, <1>3, <1>4, <1>5, <1>6, <1>7, <1>8, <1>9
        DEF RegistryStep, SessionStep

(* Only RemoveBegin takes b.mu, and nobody else writes the map while it is *)
(* held.                                                                   *)
LEMMA LockedEntryStep == IInv /\ TypeOK' /\ RegistryStep => LockedEntry'
<1> SUFFICES ASSUME IInv, TypeOK', RegistryStep PROVE LockedEntry'
  OBVIOUS
<1> USE BridgeAssumption DEF IInv, TypeOK, objVars, flagVars, noticeVars,
      LockedEntry, RegisteredLive
<1>1. ASSUME NEW s \in Sessions, NEW i \in SessionIds,
             CreateSession(s, i)
      PROVE  LockedEntry'
  BY <1>1, EntryFacts DEF CreateSession, InMap
<1>2. ASSUME NEW i \in SessionIds, NEW r \in RemovalReasons,
             RemoveBegin(i, r)
      PROVE  LockedEntry'
  BY <1>2, EntryFacts DEF RemoveBegin, InMap
<1>3. ASSUME NEW i \in SessionIds,
             RemoveEnd(i)
      PROVE  LockedEntry'
  BY <1>3, EntryFacts DEF RemoveEnd, CloseOpenAI, InMap
<1>4. ASSUME NEW s \in Sessions,
             CreatePeerConnection(s) \/ PerformSignaling(s) \/ ConnectFail(s)
      PROVE  LockedEntry'
  BY <1>4, EntryFacts DEF CreatePeerConnection, PerformSignaling,
                          ConnectFail, InMap
<1>5. ASSUME NEW s \in Sessions,
             Register(s)
      PROVE  LockedEntry'
  BY <1>5, EntryFacts DEF Register, InMap
<1>6. ASSUME NEW s \in Sessions,
             StartOutput(s) \/ OutputExit(s)
      PROVE  LockedEntry'
  BY <1>6, EntryFacts DEF StartOutput, OutputExit, InMap
<1>7. ASSUME NEW s \in Sessions, NEW k \in OpenAIReasons,
             Notify(s, k) \/ OnNotice(s, k) \/ CallSessionEndHandler(s, k)
      PROVE  LockedEntry'
  BY <1>7, EntryFacts DEF Notify, OnNotice, CallSessionEndHandler, InMap
<1>8. ASSUME NEW s \in Sessions,
             ShutdownCall(s)
      PROVE  LockedEntry'
  BY <1>8, EntryFacts DEF ShutdownCall, InMap
<1>9. CASE UNCHANGED <<sessions, mu, objVars, flagVars, noticeVars>>
  BY <1>9, EntryFacts
<1> QED BY <1>1, <1>2, <1>3, <1>4, <1>5, <1>6, <1>7, <1>8, <1>9
        DEF RegistryStep, SessionStep

(* A removal needs an active entry, and an object never becomes active     *)
(* again.                                                                  *)
LEMMA RemovalsOnceStep == IInv /\ TypeOK' /\ RegistryStep => RemovalsOnce'
<1> SUFFICES ASSUME IInv, TypeOK', RegistryStep PROVE RemovalsOnce'
  OBVIOUS
<1> USE BridgeAssumption DEF IInv, TypeOK, objVars, flagVars, noticeVars,
      RemovalsOnce, Removals, Reasons, RemovalReasons, OpenAIReasons
<1>1. ASSUME NEW s \in Sessions, NEW i \in SessionIds,
             CreateSession(s, i)
      PROVE  RemovalsOnce'
  BY <1>1 DEF CreateSession
<1>2. ASSUME NEW i \in SessionIds, NEW r \in RemovalReasons,
             RemoveBegin(i, r)
      PROVE  RemovalsOnce'
  <2>1. PICK t \in Sessions : t = sessions[i] /\ isActive[t]
    BY <1>2, EntryFacts DEF RemoveBegin
  <2>2. Removals(t) = 0 /\ Removals(t)' = 1
    BY <1>2, <2>1 DEF RemoveBegin
  <2>3. \A u \in Sessions \ {t} : Removals(u)' = Removals(u)
    BY <1>2, <2>1 DEF RemoveBegin
  <2>4. ~isActive'[t] /\ stage'[t] = stage[t] /\ stage[t] # "idle"
    <3>1. stage[t] # "idle"
      BY <1>2, <2>1, EntryFacts DEF RemoveBegin, InMap
    <3> QED BY <1>2, <2>1, <3>1 DEF RemoveBegin
  <2>5. \A u \in Sessions \ {t} :
          isActive'[u] = isActive[u] /\ stage'[u] = stage[u]
    BY <1>2, <2>1 DEF RemoveBegin
  <2>6. ASSUME NEW u \in Sessions
        PROVE  /\ Removals(u)' <= 1
               /\ isActive'[u] \/ stage'[u] = "idle" => Removals(u)' = 0
    <3>1. CASE u = t
      BY <2>2, <2>4, <3>1
    <3>2. CASE u # t
      BY <2>3, <2>5, <3>2
    <3> QED BY <3>1, <3>2
  <2> QED BY <2>6
<1>3. ASSUME NEW i \in SessionIds,
             RemoveEnd(i)
      PROVE  RemovalsOnce'
  BY <1>3, EntryFacts DEF RemoveEnd, CloseOpenAI
<1>4. ASSUME NEW s \in Sessions,
             CreatePeerConnection(s) \/ PerformSignaling(s) \/ ConnectFail(s)
      PROVE  RemovalsOnce'
  BY <1>4 DEF CreatePeerConnection, PerformSignaling, ConnectFail
<1>5. ASSUME NEW s \in Sessions,
             Register(s)
      PROVE  RemovalsOnce'
  BY <1>5 DEF Register
<1>6. ASSUME NEW s \in Sessions,
             StartOutput(s) \/ OutputExit(s)
      PROVE  RemovalsOnce'
  BY <1>6 DEF StartOutput, OutputExit
<1>7. ASSUME NEW s \in Sessions, NEW k \in OpenAIReasons,
             Notify(s, k) \/ OnNotice(s, k) \/ CallSessionEndHandler(s, k)
      PROVE  RemovalsOnce'
  <2>1. CASE Notify(s, k)
    BY <2>1 DEF Notify
  <2>2. CASE OnNotice(s, k)
    BY <2>2 DEF OnNotice
  <2>3. CASE CallSessionEndHandler(s, k)
    BY <2>3 DEF CallSessionEndHandler
  <2> QED BY <1>7, <2>1, <2>2, <2>3
<1>8. ASSUME NEW s \in Sessions,
             ShutdownCall(s)
      PROVE  RemovalsOnce'
  BY <1>8 DEF ShutdownCall
<1>9. CASE UNCHANGED <<sessions, mu, objVars, flagVars, noticeVars>>
  BY <1>9
<1> QED BY <1>1, <1>2, <1>3, <1>4, <1>5, <1>6, <1>7, <1>8, <1>9
        DEF RegistryStep, SessionStep

(* Each goroutine is counted from its event on; the one Close spawns finds *)
(* the object inactive.                                                    *)
LEMMA NoticesCountedStep == IInv /\ TypeOK' /\ RegistryStep => NoticesCounted'
<1> SUFFICES ASSUME IInv, TypeOK', RegistryStep PROVE NoticesCounted'
  OBVIOUS
<1> USE BridgeAssumption DEF IInv, TypeOK, objVars, flagVars, noticeVars,
      NoticesCounted, Reasons, RemovalReasons, OpenAIReasons
<1>1. ASSUME NEW s \in Sessions, NEW i \in SessionIds,
             CreateSession(s, i)
      PROVE  NoticesCounted'
  BY <1>1 DEF CreateSession
<1>2. ASSUME NEW i \in SessionIds, NEW r \in RemovalReasons,
             RemoveBegin(i, r)
      PROVE  NoticesCounted'
  BY <1>2, EntryFacts DEF RemoveBegin
<1>3. ASSUME NEW i \in SessionIds,
             RemoveEnd(i)
      PROVE  NoticesCounted'
  <2>1. sessions[i] # NoSession /\ ~isActive[sessions[i]]
    BY <1>3 DEF RemoveEnd, LockedEntry
  <2>2. sessions[i] \in Sessions /\ stage[sessions[i]] # "idle"
    BY <2>1, EntryFacts DEF InMap
  <2> QED BY <1>3, <2>1, <2>2 DEF RemoveEnd, CloseOpenAI
<1>4. ASSUME NEW s \in Sessions,
             CreatePeerConnection(s) \/ PerformSignaling(s) \/ ConnectFail(s)
      PROVE  NoticesCounted'
  BY <1>4 DEF CreatePeerConnection, PerformSignaling, ConnectFail
<1>5. ASSUME NEW s \in Sessions,
             Register(s)
      PROVE  NoticesCounted'
  BY <1>5 DEF Register
<1>6. ASSUME NEW s \in Sessions,
             StartOutput(s) \/ OutputExit(s)
      PROVE  NoticesCounted'
  BY <1>6 DEF StartOutput, OutputExit
<1>7. ASSUME NEW s \in Sessions, NEW k \in OpenAIReasons,
             Notify(s, k) \/ OnNotice(s, k) \/ CallSessionEndHandler(s, k)
      PROVE  NoticesCounted'
  <2>1. CASE Notify(s, k)
    BY <2>1 DEF Notify
  <2>2. CASE OnNotice(s, k)
    BY <2>2 DEF OnNotice
  <2>3. CASE CallSessionEndHandler(s, k)
    BY <2>3 DEF CallSessionEndHandler
  <2> QED BY <1>7, <2>1, <2>2, <2>3
<1>8. ASSUME NEW s \in Sessions,
             ShutdownCall(s)
      PROVE  NoticesCounted'
  BY <1>8 DEF ShutdownCall
<1>9. CASE UNCHANGED <<sessions, mu, objVars, flagVars, noticeVars>>
  BY <1>9
<1> QED BY <1>1, <1>2, <1>3, <1>4, <1>5, <1>6, <1>7, <1>8, <1>9
        DEF RegistryStep, SessionStep

(* What is in the map once stays past Register, under the same id.         *)
LEMMA InMapStays ==
  IInv /\ TypeOK' /\ RegistryStep =>
    \A s \in Sessions : stage[s] \in InMap =>
      stage'[s] \in InMap /\ sid'[s] = sid[s]
<1> SUFFICES ASSUME IInv, TypeOK', RegistryStep, NEW u \in Sessions,
                    stage[u] \in InMap
             PROVE  stage'[u] \in InMap /\ sid'[u] = sid[u]
  OBVIOUS
<1> USE DEF IInv, TypeOK, InMap, objVars
<1>1. ASSUME NEW s \in Sessions, NEW i \in SessionIds, CreateSession(s, i)
      PROVE  stage'[u] \in InMap /\ sid'[u] = sid[u]
  BY <1>1 DEF CreateSession
<1>2. ASSUME NEW i \in SessionIds, NEW r \in RemovalReasons, RemoveBegin(i, r)
      PROVE  stage'[u] \in InMap /\ sid'[u] = sid[u]
  BY <1>2 DEF RemoveBegin
<1>3. ASSUME NEW i \in SessionIds, RemoveEnd(i)
      PROVE  stage'[u] \in InMap /\ sid'[u] = sid[u]
  BY <1>3 DEF RemoveEnd, CloseOpenAI
<1>4. ASSUME NEW s \in Sessions, SessionStep(s)
      PROVE  stage'[u] \in InMap /\ sid'[u] = sid[u]
  BY <1>4 DEF SessionStep, CreatePeerConnection, PerformSignaling, ConnectFail,
              Register, StartOutput, OutputExit, Notify, OnNotice,
              CallSessionEndHandler
<1>5. ASSUME NEW s \in Sessions, ShutdownCall(s)
      PROVE  stage'[u] \in InMap /\ sid'[u] = sid[u]
  BY <1>5 DEF ShutdownCall
<1>6. CASE UNCHANGED <<sessions, mu, objVars, flagVars, noticeVars>>
  BY <1>6
<1> QED BY <1>1, <1>2, <1>3, <1>4, <1>5, <1>6 DEF RegistryStep

(* An object leaves the map with its connection closed, or because another *)
(* one with the same id came to be registered.                             *)
LEMMA LeavesClosedOrReplaced ==
  IInv /\ TypeOK' /\ RegistryStep =>
    \A s \in Sessions : Registered(s) /\ ~Registered(s)' =>
      \/ peerConn'[s] = "closed"
      \/ \E t \in Sessions \ {s} : sid'[t] = sid'[s] /\ stage'[t] \in InMap
<1> SUFFICES ASSUME IInv, TypeOK', RegistryStep, NEW u \in Sessions,
                    Registered(u), ~Registered(u)'
             PROVE  \/ peerConn'[u] = "closed"
                    \/ \E t \in Sessions \ {u} :
                         sid'[t] = sid'[u] /\ stage'[t] \in InMap
  OBVIOUS
<1>1. PICK j \in SessionIds : sessions[j] = u
  BY DEF Registered
<1>2. sessions'[j] # u
  BY DEF Registered
<1>3. sid[u] = j /\ stage[u] \in InMap
  BY <1>1, EntryFacts, BridgeAssumption
<1> USE DEF IInv, TypeOK, objVars
<1>4. ASSUME NEW i \in SessionIds, RemoveEnd(i)
      PROVE  peerConn'[u] = "closed"
  <2>1. i = j
    BY <1>1, <1>2, <1>4 DEF RemoveEnd
  <2> QED BY <1>1, <1>4, <2>1 DEF RemoveEnd, CloseOpenAI
<1>5. ASSUME NEW s \in Sessions, Register(s)
      PROVE  s \in Sessions \ {u} /\ sid'[s] = sid'[u] /\ stage'[s] \in InMap
  <2>1. sid[s] = j
    BY <1>1, <1>2, <1>5 DEF Register
  <2> QED BY <1>3, <1>5, <2>1 DEF Register, InMap
<1>6. ASSUME NEW s \in Sessions, SessionStep(s), ~Register(s)
      PROVE  UNCHANGED sessions
  BY <1>6 DEF SessionStep, CreatePeerConnection, PerformSignaling, ConnectFail,
              StartOutput, OutputExit, Notify, OnNotice, CallSessionEndHandler
<1>7. CASE UNCHANGED sessions
  BY <1>1, <1>2, <1>7
<1> QED BY <1>4, <1>5, <1>6, <1>7
        DEF RegistryStep, CreateSession, RemoveBegin, ShutdownCall

(* A connection is opened before its object is registered, so only leaving *)
(* the map could leave one open.                                           *)
LEMMA LeakOnlyByFailureOrCollisionStep ==
  IInv /\ TypeOK' /\ RegistryStep => LeakOnlyByFailureOrCollision'
<1> SUFFICES ASSUME IInv, TypeOK', RegistryStep, NEW u \in Sessions,
                    peerConn'[u] = "open", stage'[u] \in InMap, ~Registered(u)'
             PROVE  \E t \in Sessions \ {u} :
                      sid'[t] = sid'[u] /\ stage'[t] \in InMap
  BY DEF LeakOnlyByFailureOrCollision, InMap
<1>1. stage[u] \in InMap /\ peerConn[u] = "open"
  <2> USE DEF IInv, TypeOK, objVars, InMap, Stages
  <2>1. ASSUME NEW s \in Sessions, Register(s)
        PROVE  s # u
    BY <2>1 DEF Register, Registered, Allocated
  <2>2. ASSUME NEW s \in Sessions, SessionStep(s)
        PROVE  stage[u] \in InMap /\ peerConn[u] = "open"
    BY <2>1, <2>2 DEF SessionStep, CreatePeerConnection, PerformSignaling,
          ConnectFail, Register, StartOutput, OutputExit, Notify, OnNotice,
          CallSessionEndHandler
  <2>3. ASSUME NEW i \in SessionIds, RemoveEnd(i)
        PROVE  stage[u] \in InMap /\ peerConn[u] = "open"
    BY <2>3 DEF RemoveEnd, CloseOpenAI
  <2>4. ASSUME NEW s \in Sessions, NEW i \in SessionIds, CreateSession(s, i)
        PROVE  stage[u] \in InMap /\ peerConn[u] = "open"
    BY <2>4 DEF CreateSession
  <2> QED BY <2>2, <2>3, <2>4 DEF RegistryStep, RemoveBegin, ShutdownCall
<1>2. CASE Registered(u)
  BY <1>2, LeavesClosedOrReplaced
<1>3. CASE ~Registered(u)
  <2>1. PICK t \in Sessions \ {u} : sid[t] = sid[u] /\ stage[t] \in InMap
    BY <1>1, <1>3 DEF IInv, LeakOnlyByFailureOrCollision, InMap
  <2>2. /\ stage'[t] \in InMap /\ sid'[t] = sid[t]
        /\ sid'[u] = sid[u]
    BY <1>1, <2>1, InMapStays
  <2> QED BY <2>1, <2>2
<1> QED BY <1>2, <1>3

-------------------------------------------------------------------------------
(* The conjuncts about Shutdown itself.                                    *)

(* Only Shutdown calls the end handler with "bridge_shutdown".             *)
LEMMA OnlyShutdownTells ==
  ASSUME IInv, [Next]_vars, NEW u \in Sessions, ~ShutdownNotify(u)
  PROVE  endCalls'[u]["bridge_shutdown"] = endCalls[u]["bridge_shutdown"]
<1> DEFINE Told == endCalls[u]["bridge_shutdown"]
<1> SUFFICES Told' = Told
  OBVIOUS
<1> USE DEF IInv, TypeOK, noticeVars
<1>1. ASSUME NEW i \in SessionIds, NEW r \in RemovalReasons, RemoveBegin(i, r)
      PROVE  Told' = Told
  <2>1. sessions[i] \in Sessions /\ r \in Reasons /\ r # "bridge_shutdown"
    BY <1>1, EntryFacts DEF RemoveBegin, Reasons, RemovalReasons
  <2> QED BY <1>1, <2>1 DEF RemoveBegin
<1>2. ASSUME NEW s \in Sessions, NEW k \in OpenAIReasons,
             CallSessionEndHandler(s, k)
      PROVE  Told' = Told
  <2>1. k \in Reasons /\ k # "bridge_shutdown"
    BY DEF Reasons, OpenAIReasons
  <2> QED BY <1>2, <2>1 DEF CallSessionEndHandler
<1>3. ASSUME NEW s \in Sessions, s # u, ShutdownNotify(s)
      PROVE  Told' = Told
  BY <1>3 DEF ShutdownNotify
<1>4. CASE UNCHANGED endCalls
  BY <1>4
<1>5. CASE CallerStep
  BY <1>1, <1>4, <1>5 DEF CallerStep, CreateSession, RemoveEnd, CloseOpenAI
<1>6. CASE \E s \in Sessions : SessionStep(s)
  BY <1>2, <1>4, <1>6 DEF SessionStep, CreatePeerConnection, PerformSignaling,
        ConnectFail, Register, StartOutput, OutputExit, Notify, OnNotice
<1>7. CASE ShutdownRemove
  <2>1. sid[shutCur] \in SessionIds
    BY <1>7 DEF ShutdownRemove, Allocated, ShutdownKnown, InMap
  <2> QED BY <1>1, <1>4, <1>7, <2>1 DEF ShutdownRemove, RemovalReasons
<1>8. CASE ShutdownBegin \/ ShutdownRemoved \/ ShutdownDone \/ UNCHANGED vars
  BY <1>4, <1>8 DEF ShutdownBegin, ShutdownRemoved, RemoveEnd, CloseOpenAI,
                    ShutdownDone, vars
<1> QED BY <1>3, <1>5, <1>6, <1>7, <1>8 DEF Next, ShutdownStep

(* The snapshot is taken of the map, and what was in the map stays past    *)
(* Register; b.mu is held from ShutdownRemove to ShutdownRemoved.          *)
LEMMA ShutdownKnownStep == IInv /\ TypeOK' /\ [Next]_vars => ShutdownKnown'
<1> SUFFICES ASSUME IInv, TypeOK', [Next]_vars PROVE ShutdownKnown'
  OBVIOUS
<1>1. ASSUME NEW s \in Sessions, stage[s] \in InMap
      PROVE  stage'[s] \in InMap /\ sid'[s] = sid[s]
  BY <1>1, StepIsRegistryStep, InMapStays
<1>2. ASSUME NEW s \in Sessions,
             \/ s \in shutTodo' \/ s = shutCur'
             \/ endCalls'[s]["bridge_shutdown"] > 0
      PROVE  stage[s] \in InMap
  <2> USE BridgeAssumption DEF IInv, TypeOK, ShutdownKnown
  <2>1. CASE ShutdownBegin
    BY <1>2, <2>1, EntryFacts DEF ShutdownBegin, noticeVars, Registered
  <2>2. CASE ShutdownNotify(s)
    BY <2>2 DEF ShutdownNotify
  <2>3. CASE ~ShutdownBegin /\ ~ShutdownNotify(s)
    <3>1. endCalls'[s]["bridge_shutdown"] = endCalls[s]["bridge_shutdown"]
      BY <2>3, OnlyShutdownTells
    <3>2. /\ s \in shutTodo' => s \in shutTodo
          /\ s = shutCur' => s = shutCur
      BY <2>3 DEF Next, ShutdownStep, ShutdownNotify, ShutdownRemove,
                  ShutdownRemoved, ShutdownDone, vars, shutVars
    <3> QED BY <1>2, <3>1, <3>2
  <2> QED BY <2>1, <2>2, <2>3
<1>3. shutPc' = "removing" => shutCur' # NoSession /\ mu' = sid'[shutCur']
  <2> USE BridgeAssumption DEF IInv, TypeOK, ShutdownKnown, objVars
  <2>1. CASE ShutdownRemove
    BY <2>1 DEF ShutdownRemove, RemoveBegin
  <2>2. CASE ShutdownStep /\ ~ShutdownRemove
    BY <2>2 DEF ShutdownStep, ShutdownBegin, ShutdownNotify, ShutdownRemoved,
                ShutdownDone
  <2>3. ASSUME shutPc = "removing", mu' = mu, UNCHANGED shutVars
        PROVE  shutCur' # NoSession /\ mu' = sid'[shutCur']
    BY <1>1, <2>3 DEF shutVars
  <2>4. CASE CallerStep /\ UNCHANGED shutVars
    <3>1. mu' = mu \/ mu = NoId \/ shutPc # "removing"
      BY <2>4 DEF CallerStep, CreateSession, RemoveBegin
    <3>2. shutPc = "removing" => mu # NoId
      <4>1. shutCur \in Sessions => sid[shutCur] \in SessionIds
        BY DEF Allocated, InMap
      <4> QED BY <4>1
    <3> QED BY <2>3, <2>4, <3>1, <3>2 DEF shutVars
  <2>5. CASE (\E s \in Sessions : SessionStep(s)) /\ UNCHANGED shutVars
    BY <2>3, <2>5 DEF SessionStep, CreatePeerConnection, PerformSignaling,
          ConnectFail, Register, StartOutput, OutputExit, Notify, OnNotice,
          CallSessionEndHandler, shutVars
  <2>6. CASE UNCHANGED vars
    BY <2>3, <2>6 DEF vars, shutVars
  <2> QED BY <2>1, <2>2, <2>4, <2>5, <2>6 DEF Next
<1> QED BY <1>1, <1>2, <1>3 DEF ShutdownKnown

(* Only Register adds an object to the map, and Shutdown has told none     *)
(* that was not in it; it lets go of one when its id has no entry.         *)
LEMMA ShutdownRemovesNotifiedStep ==
  IInv /\ TypeOK' /\ [Next]_vars => ShutdownRemovesNotified'
<1> SUFFICES ASSUME IInv, TypeOK', [Next]_vars, NEW u \in Sessions,
                    endCalls'[u]["bridge_shutdown"] > 0, shutCur' # u
             PROVE  ~Registered(u)'
  BY DEF ShutdownRemovesNotified
<1> USE BridgeAssumption DEF IInv, TypeOK
<1>1. ASSUME shutCur # u, ~ShutdownNotify(u)
      PROVE  ~Registered(u)
  BY <1>1, OnlyShutdownTells DEF ShutdownRemovesNotified
<1>2. ~ShutdownNotify(u)
  BY DEF ShutdownNotify
<1>3. CASE shutCur = u
  <2>1. ShutdownRemove \/ ShutdownRemoved
    BY <1>3 DEF Next, ShutdownStep, ShutdownBegin, ShutdownNotify,
                ShutdownDone, vars, shutVars
  <2>2. \A i \in SessionIds : sessions[i] = u => i = sid[u]
    BY DEF RegisteredLive
  <2>3. sid[u] \in SessionIds
    BY <1>3 DEF ShutdownKnown, Allocated, InMap
  <2>4. sessions'[sid[u]] = NoSession
    BY <1>3, <2>1, <2>3 DEF ShutdownRemove, ShutdownRemoved, RemoveEnd
  <2>5. \A i \in SessionIds \ {sid[u]} : sessions'[i] = sessions[i]
    BY <1>3, <2>1, <2>3 DEF ShutdownRemove, ShutdownRemoved, RemoveEnd
  <2>6. ASSUME NEW i \in SessionIds, sessions'[i] = u
        PROVE  FALSE
    <3>1. CASE i = sid[u]
      BY <2>4, <2>6, <3>1
    <3>2. CASE i # sid[u]
      BY <2>2, <2>5, <2>6, <3>2
    <3> QED BY <3>1, <3>2
  <2> QED BY <2>6 DEF Registered
<1>4. CASE shutCur # u
  <2>1. ~Registered(u)
    BY <1>1, <1>2, <1>4
  <2>2. ~Register(u)
    <3>1. endCalls[u]["bridge_shutdown"] > 0
      BY <1>2, OnlyShutdownTells
    <3> QED BY <3>1 DEF Register, ShutdownKnown, InMap
  <2>3. \A i \in SessionIds : sessions'[i] = u => sessions[i] = u
    <3>1. ASSUME NEW s \in Sessions, SessionStep(s)
          PROVE  \A i \in SessionIds : sessions'[i] = u => sessions[i] = u
      BY <2>2, <3>1 DEF SessionStep, CreatePeerConnection, PerformSignaling,
            ConnectFail, Register, StartOutput, OutputExit, Notify, OnNotice,
            CallSessionEndHandler
    <3>2. ASSUME NEW j \in SessionIds, RemoveEnd(j)
          PROVE  \A i \in SessionIds : sessions'[i] = u => sessions[i] = u
      BY <3>2 DEF RemoveEnd
    <3> QED BY <3>1, <3>2, StepIsRegistryStep
            DEF RegistryStep, CreateSession, RemoveBegin, ShutdownCall
  <2> QED BY <2>1, <2>3 DEF Registered
<1> QED BY <1>3, <1>4

-------------------------------------------------------------------------------
(* The inductive invariant holds of the empty bridge.                      *)
LEMMA InitIInv == Init => IInv
BY BridgeAssumption
   DEF Init, IInv, TypeOK, Allocated, Fresh, Before, RegisteredLive,
       LockedEntry, RemovalsOnce, Removals, LeakOnlyByFailureOrCollision,
       NoticesCounted, ShutdownKnown, ShutdownRemovesNotified, Registered,
       InMap, Stages, Reasons, RemovalReasons, OpenAIReasons

(* Every action preserves it: one lemma per conjunct above.                *)
LEMMA NextIInv == IInv /\ [Next]_vars => IInv'
<1> SUFFICES ASSUME IInv, [Next]_vars PROVE IInv'
  OBVIOUS
<1>1. RegistryStep
  BY StepIsRegistryStep
<1>2. TypeOK'
  BY TypeStep
<1> QED BY <1>1, <1>2, AllocatedStep, FreshStep, RegisteredLiveStep,
           LockedEntryStep, RemovalsOnceStep, NoticesCountedStep,
           LeakOnlyByFailureOrCollisionStep, ShutdownKnownStep,
           ShutdownRemovesNotifiedStep DEF IInv

(* Hence it holds throughout.                                              *)
LEMMA Invariance == Spec => []IInv
BY InitIInv, NextIInv, PTL DEF Spec

(* Type correctness: the variables of the bridge keep to their types, for  *)
(* any number of ids and session objects.                                  *)
THEOREM TypeCorrect == Spec => []TypeOK
<1>1. IInv => TypeOK
  BY DEF IInv
<1> QED BY <1>1, Invariance, PTL

(* What GetSession or RemoveSession finds in the map is a usable session,  *)
(* whatever callers create and remove around it.                           *)
THEOREM MapHoldsLiveSessions == Spec => []RegisteredLive
<1>1. IInv => RegisteredLive
  BY DEF IInv
<1> QED BY <1>1, Invariance, PTL

(* No session object is removed twice, by however many callers.            *)
THEOREM NoDoubleRemoval == Spec => []RemovedOnce
<1>1. IInv => RemovedOnce
  BY DEF IInv, RemovalsOnce, Removals, RemovedOnce
<1> QED BY <1>1, Invariance, PTL

(* An OpenAI connection is left open only by a failed Connect or by a      *)
(* second session under the same id.                                       *)
THEOREM NoOtherLeak == Spec => []LeakOnlyByFailureOrCollision
<1>1. IInv => LeakOnlyByFailureOrCollision
  BY DEF IInv
<1> QED BY <1>1, Invariance, PTL

(* The report a leg makes of being closed by RemoveSession never reaches   *)
(* the session-end handler.                                                *)
THEOREM OwnClosureNeverReported == Spec => []OwnClosureSilent
<1>1. IInv => OwnClosureSilent
  BY DEF IInv, NoticesCounted, OwnClosureSilent
<1> QED BY <1>1, Invariance, PTL

(* Shutdown leaves no session it has announced in the map.                 *)
THEOREM ShutdownEmptiesSnapshot == Spec => []ShutdownRemovesNotified
<1>1. IInv => ShutdownRemovesNotified
  BY DEF IInv
<1> QED BY <1>1, Invariance, PTL

-------------------------------------------------------------------------------
(* The bridge implements the atomic map of Registry.tla.                   *)

(* The empty bridge is the empty map.                                      *)
LEMMA RefinesInit == Init => Map!RegInit
BY DEF Init, Map!RegInit, RegistryStatus

(* CreateSession, ConnectFail, Register and RemoveEnd are the operations   *)
(* of the map; every other step leaves it alone.                           *)
LEMMA RefinesStep ==
  IInv /\ TypeOK' /\ RegistryStep => [Map!RegNext]_Map!regVars
<1> SUFFICES ASSUME IInv, TypeOK', RegistryStep
             PROVE  Map!RegNext \/ UNCHANGED Map!regVars
  BY DEF Map!regVars
<1> USE DEF IInv, TypeOK, objVars, RegistryStatus
<1>1. ASSUME NEW s \in Sessions, NEW i \in SessionIds, CreateSession(s, i)
      PROVE  Map!BeginCreate(s, i)
  BY <1>1 DEF CreateSession, Map!BeginCreate, Stages
<1>2. ASSUME NEW i \in SessionIds, RemoveEnd(i)
      PROVE  Map!DropSession(i)
  <2>1. sessions[i] # NoSession
    BY <1>2, BridgeAssumption DEF RemoveEnd, LockedEntry
  <2> QED BY <1>2, <2>1 DEF RemoveEnd, CloseOpenAI, Map!DropSession
<1>3. ASSUME NEW s \in Sessions, ConnectFail(s)
      PROVE  Map!FailCreate(s)
  BY <1>3 DEF ConnectFail, Map!FailCreate, Stages
<1>4. ASSUME NEW s \in Sessions, Register(s)
      PROVE  Map!PutSession(s)
  BY <1>4 DEF Register, Map!PutSession, Stages
<1>5. ASSUME NEW s \in Sessions,
             CreatePeerConnection(s) \/ PerformSignaling(s) \/ StartOutput(s)
      PROVE  UNCHANGED Map!regVars
  BY <1>5 DEF CreatePeerConnection, PerformSignaling, StartOutput,
              Map!regVars, Stages
<1>6. CASE UNCHANGED <<sessions, sid, stage>>
  BY <1>6 DEF Map!regVars
<1>7. ASSUME NEW s \in Sessions, SessionStep(s)
      PROVE  Map!RegNext \/ UNCHANGED Map!regVars
  BY <1>3, <1>4, <1>5, <1>6, <1>7
     DEF SessionStep, OutputExit, Notify, OnNotice, CallSessionEndHandler,
         Map!RegNext, Map!CreateStep
<1> QED BY <1>1, <1>2, <1>6, <1>7
        DEF RegistryStep, RemoveBegin, ShutdownCall, Map!RegNext

(* Every behaviour of the bridge is, to its callers, one of an atomic map. *)
THEOREM BridgeImplementsRegistry == Spec => ImplementsRegistry
<1>1. Init => Map!RegInit
  BY RefinesInit
<1>2. IInv /\ [Next]_vars => [Map!RegNext]_Map!regVars
  BY StepIsRegistryStep, TypeStep, RefinesStep
<1> QED BY <1>1, <1>2, Invariance, PTL DEF Spec, ImplementsRegistry, Map!RegSpec

-------------------------------------------------------------------------------
(* A session that was deactivated.                                         *)

Dead(s) == stage[s] # "idle" /\ ~isActive[s]

(* b.mu is held for its removal.                                           *)
Locked(s) == mu # NoId /\ sessions[mu] = s

(* It was registered, its context is cancelled, and its connection is      *)
(* closed once the removal is over.  The output goroutine comes with the   *)
(* return of CreateSession.                                                *)
DeadInv ==
  \A s \in Sessions :
    /\ Dead(s) => ctxDone[s] /\ stage[s] \in InMap
    /\ Dead(s) /\ peerConn[s] # "closed" => Locked(s)
    /\ stage[s] = "returned" <=> output[s] # "none"

RestInv == IInv /\ DeadInv

Removing(s) == Dead(s) /\ Locked(s) /\ shutPc # "removing"
Stopping(s) == Dead(s) /\ Locked(s) /\ shutPc = "removing"
Cut(s)      == Dead(s) /\ peerConn[s] = "closed"
Draining(s) == Cut(s) /\ output[s] = "running"
AtRest(s)   == peerConn[s] = "closed" /\ output[s] = "exited"

LEMMA DeadStarts == Init => DeadInv
BY DEF Init, DeadInv, Dead

LEMMA DeadKeeps == IInv /\ TypeOK' /\ DeadInv /\ RegistryStep => DeadInv'
<1> SUFFICES ASSUME IInv, TypeOK', DeadInv, RegistryStep PROVE DeadInv'
  OBVIOUS
<1> USE BridgeAssumption DEF IInv, TypeOK, objVars, flagVars, noticeVars, DeadInv,
      Dead, Locked, InMap
<1>1. ASSUME NEW s \in Sessions, NEW i \in SessionIds,
             CreateSession(s, i)
      PROVE  DeadInv'
  BY <1>1 DEF CreateSession
<1>2. ASSUME NEW i \in SessionIds, NEW r \in RemovalReasons,
             RemoveBegin(i, r)
      PROVE  DeadInv'
  <2>1. sessions[i] \in Sessions /\ stage[sessions[i]] \in InMap
    BY <1>2, EntryFacts DEF RemoveBegin
  <2> QED BY <1>2, <2>1 DEF RemoveBegin
<1>3. ASSUME NEW i \in SessionIds,
             RemoveEnd(i)
      PROVE  DeadInv'
  <2>1. sessions[i] \in Sessions
    BY <1>3 DEF RemoveEnd, LockedEntry
  <2> QED BY <1>3, <2>1 DEF RemoveEnd, CloseOpenAI
<1>4. ASSUME NEW s \in Sessions,
             CreatePeerConnection(s) \/ PerformSignaling(s) \/ ConnectFail(s)
      PROVE  DeadInv'
  BY <1>4 DEF CreatePeerConnection, PerformSignaling, ConnectFail, Fresh, Before
<1>5. ASSUME NEW s \in Sessions,
             Register(s)
      PROVE  DeadInv'
  BY <1>5 DEF Register, Fresh, Before
<1>6. ASSUME NEW s \in Sessions,
             StartOutput(s) \/ OutputExit(s)
      PROVE  DeadInv'
  BY <1>6 DEF StartOutput, OutputExit
<1>7. ASSUME NEW s \in Sessions, NEW k \in OpenAIReasons,
             Notify(s, k) \/ OnNotice(s, k) \/ CallSessionEndHandler(s, k)
      PROVE  DeadInv'
  BY <1>7 DEF Notify, OnNotice, CallSessionEndHandler
<1>8. ASSUME NEW s \in Sessions,
             ShutdownCall(s)
      PROVE  DeadInv'
  BY <1>8 DEF ShutdownCall
<1>9. CASE UNCHANGED <<sessions, mu, objVars, flagVars, noticeVars>>
  BY <1>9
<1> QED BY <1>1, <1>2, <1>3, <1>4, <1>5, <1>6, <1>7, <1>8, <1>9
        DEF RegistryStep, SessionStep

(* What became of a removed session stays so: it is not active again, its  *)
(* connection not opened again, b.mu not passed on before it is closed.    *)
DeadAsBefore(s) ==
  /\ Dead(s) => Dead(s)'
  /\ Dead(s) /\ Locked(s) => (Locked(s)' /\ UNCHANGED mu) \/ Cut(s)'
  /\ Cut(s) => Cut(s)'
  /\ Draining(s) => Draining(s)' \/ AtRest(s)'

LEMMA DeadStays ==
  ASSUME RestInv, RegistryStep, NEW s \in Sessions
  PROVE  DeadAsBefore(s)
<1> USE BridgeAssumption DEF RestInv, IInv, TypeOK, objVars, flagVars, noticeVars,
      DeadAsBefore, Dead, Locked, Cut, Draining, AtRest, InMap
<1>1. ASSUME NEW t \in Sessions, NEW i \in SessionIds,
             CreateSession(t, i)
      PROVE  DeadAsBefore(s)
  BY <1>1 DEF CreateSession
<1>2. ASSUME NEW i \in SessionIds, NEW r \in RemovalReasons,
             RemoveBegin(i, r)
      PROVE  DeadAsBefore(s)
  BY <1>2 DEF RemoveBegin
<1>3. ASSUME NEW i \in SessionIds,
             RemoveEnd(i)
      PROVE  DeadAsBefore(s)
  BY <1>3 DEF RemoveEnd, CloseOpenAI
<1>4. ASSUME NEW t \in Sessions,
             CreatePeerConnection(t) \/ PerformSignaling(t) \/ ConnectFail(t)
      PROVE  DeadAsBefore(s)
  BY <1>4 DEF CreatePeerConnection, PerformSignaling, ConnectFail, Fresh, Before
<1>5. ASSUME NEW t \in Sessions,
             Register(t)
      PROVE  DeadAsBefore(s)
  BY <1>5 DEF Register, Fresh, Before
<1>6. ASSUME NEW t \in Sessions,
             StartOutput(t) \/ OutputExit(t)
      PROVE  DeadAsBefore(s)
  BY <1>6 DEF StartOutput, OutputExit, DeadInv
<1>7. ASSUME NEW t \in Sessions, NEW k \in OpenAIReasons,
             Notify(t, k) \/ OnNotice(t, k) \/ CallSessionEndHandler(t, k)
      PROVE  DeadAsBefore(s)
  BY <1>7 DEF Notify, OnNotice, CallSessionEndHandler
<1>8. ASSUME NEW t \in Sessions,
             ShutdownCall(t)
      PROVE  DeadAsBefore(s)
  BY <1>8 DEF ShutdownCall
<1>9. CASE UNCHANGED <<sessions, mu, objVars, flagVars, noticeVars>>
  BY <1>9
<1> QED BY <1>1, <1>2, <1>3, <1>4, <1>5, <1>6, <1>7, <1>8, <1>9
        DEF RegistryStep, SessionStep

(* While b.mu is held Shutdown does not begin a removal, and the one it    *)
(* has begun it ends itself.                                               *)
LEMMA LockStays ==
  ASSUME [Next]_vars, mu # NoId, mu' = mu
  PROVE  shutPc = "removing" <=> shutPc' = "removing"
BY DEF Next, ShutdownStep, ShutdownBegin, ShutdownNotify, ShutdownRemove,
       ShutdownRemoved, ShutdownDone, RemoveEnd, RemoveBegin, shutVars, vars

LEMMA RestGoesOn ==
  ASSUME RestInv, [Next]_vars, NEW s \in Sessions
  PROVE  /\ Removing(s) => Removing(s)' \/ Cut(s)'
         /\ Stopping(s) => Stopping(s)' \/ Cut(s)'
         /\ Cut(s) => Cut(s)'
         /\ Draining(s) => Draining(s)' \/ AtRest(s)'
<1>1. DeadAsBefore(s)
  BY StepIsRegistryStep, DeadStays DEF RestInv
<1>2. Dead(s) /\ Locked(s) =>
        Cut(s)' \/ (Dead(s)' /\ Locked(s)' /\ mu # NoId /\ mu' = mu)
  BY <1>1 DEF DeadAsBefore, Locked
<1>3. Removing(s) => Removing(s)' \/ Cut(s)'
  BY <1>2, LockStays DEF Removing
<1>4. Stopping(s) => Stopping(s)' \/ Cut(s)'
  BY <1>2, LockStays DEF Stopping
<1> QED BY <1>1, <1>3, <1>4 DEF DeadAsBefore

LEMMA RestAdvances ==
  ASSUME RestInv, NEW s \in Sessions
  PROVE  /\ <<CallerRemoves>>_vars => (Removing(s) => Cut(s)')
         /\ <<ShutdownRemoved>>_vars => (Stopping(s) => Cut(s)')
         /\ <<StartOutput(s) /\ UNCHANGED shutVars>>_vars
              => (Cut(s) /\ stage[s] = "registered" => Draining(s)')
         /\ <<OutputExit(s) /\ UNCHANGED shutVars>>_vars
              => (Draining(s) => AtRest(s)')
<1> USE DEF RestInv, IInv, TypeOK, Dead, Locked, Cut
<1>1. ASSUME NEW i \in SessionIds, RemoveEnd(i), Dead(s), Locked(s)
      PROVE  Cut(s)'
  BY <1>1 DEF RemoveEnd, CloseOpenAI, flagVars
<1>2. ShutdownRemoved => (Stopping(s) => Cut(s)')
  BY <1>1 DEF ShutdownRemoved, Stopping, RemoveEnd
<1>3. StartOutput(s) => (Cut(s) /\ stage[s] = "registered" => Draining(s)')
  BY DEF StartOutput, Draining, flagVars
<1>4. OutputExit(s) => (Draining(s) => AtRest(s)')
  BY DEF OutputExit, Draining, AtRest
<1> QED BY <1>1, <1>2, <1>3, <1>4 DEF Removing, CallerRemoves

(* That each step on the way is possible when it is due: b.mu is released  *)
(* by whoever holds it, CreateSession starts the output goroutine, and     *)
(* that goroutine can leave.  Each line assumes the guard of the step it   *)
(* names, so the actions say it is true; as the provers do not reason      *)
(* about ENABLED it is a hypothesis of the theorem.                        *)
LockedElsewhere == mu # NoId /\ shutPc # "removing"

CanFinish == ENABLED <<CallerRemoves>>_vars

CanFinishShutdown == ENABLED <<ShutdownRemoved>>_vars

CanStart(s) == ENABLED <<StartOutput(s) /\ UNCHANGED shutVars>>_vars

CanExit(s) == ENABLED <<OutputExit(s) /\ UNCHANGED shutVars>>_vars

RemovalNeverStuck ==
  /\ LockedElsewhere => CanFinish
  /\ shutPc = "removing" => CanFinishShutdown
  /\ \A s \in Sessions :
       /\ stage[s] = "registered" => CanStart(s)
       /\ output[s] = "running" /\ ctxDone[s] => CanExit(s)

(* Under weak fairness a removed session ends with its connection closed   *)
(* and its output goroutine gone, for any number of sessions, provided     *)
(* that the steps of its goroutines are possible when they are due.        *)
THEOREM RemovedComesToRest == FairSpec /\ []RemovalNeverStuck => RemovedQuiesces
<1> SUFFICES ASSUME NEW s \in Sessions
             PROVE  FairSpec /\ []RemovalNeverStuck => (Dead(s) ~> AtRest(s))
  BY DEF RemovedQuiesces, Dead, AtRest
<1>1. RestInv /\ Dead(s) => Removing(s) \/ Stopping(s) \/ Cut(s)
  BY DEF RestInv, DeadInv, Dead, Removing, Stopping, Cut
<1>2. RestInv /\ Cut(s) => stage[s] = "registered" \/ Draining(s) \/ AtRest(s)
  BY DEF RestInv, IInv, TypeOK, DeadInv, InMap, Cut, Draining, AtRest
<1>3. RestInv /\ [Next]_vars =>
        /\ Removing(s) => Removing(s)' \/ Cut(s)'
        /\ Stopping(s) => Stopping(s)' \/ Cut(s)'
        /\ Cut(s) => Cut(s)'
        /\ Draining(s) => Draining(s)' \/ AtRest(s)'
  BY RestGoesOn
<1>4. RestInv =>
        /\ <<CallerRemoves>>_vars => (Removing(s) => Cut(s)')
        /\ <<ShutdownRemoved>>_vars => (Stopping(s) => Cut(s)')
        /\ <<StartOutput(s) /\ UNCHANGED shutVars>>_vars
             => (Cut(s) /\ stage[s] = "registered" => Draining(s)')
        /\ <<OutputExit(s) /\ UNCHANGED shutVars>>_vars
             => (Draining(s) => AtRest(s)')
  BY RestAdvances
<1>5. RestInv /\ RemovalNeverStuck =>
        /\ Removing(s) => CanFinish
        /\ Stopping(s) => CanFinishShutdown
        /\ stage[s] = "registered" => CanStart(s)
        /\ Draining(s) => CanExit(s)
  <2> SUFFICES ASSUME RestInv, RemovalNeverStuck
               PROVE  /\ mu # NoId /\ shutPc # "removing" => CanFinish
                      /\ shutPc = "removing" => CanFinishShutdown
                      /\ stage[s] = "registered" => CanStart(s)
                      /\ output[s] = "running" /\ ctxDone[s] => CanExit(s)
    BY DEF RestInv, DeadInv, Removing, Stopping, Cut, Draining, Locked
  <2> QED BY Zenon DEF RemovalNeverStuck, LockedElsewhere
<1>6. SessionsFair => SessionFairness(s)
  BY DEF SessionsFair
<1>7. Init => RestInv
  BY InitIInv, DeadStarts DEF RestInv
<1>8. RestInv /\ [Next]_vars => RestInv'
  <2> SUFFICES ASSUME RestInv, [Next]_vars PROVE RestInv'
    OBVIOUS
  <2>1. IInv'
    BY NextIInv DEF RestInv
  <2>2. TypeOK'
    BY TypeStep DEF RestInv
  <2> QED BY <2>1, <2>2, DeadKeeps, StepIsRegistryStep DEF RestInv
<1> QED BY <1>1, <1>2, <1>3, <1>4, <1>5, <1>6, <1>7, <1>8, PTL
        DEF FairSpec, Spec, Fairness, SessionFairness, CanFinish,
            CanFinishShutdown, CanStart, CanExit
===============================================================================
