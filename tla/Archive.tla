------------------------------- MODULE Archive --------------------------------
(***************************************************************************)
(* What the context store promises the gateway and the HTTP API: for every *)
(* session and source its frames by time, for every session its phrases,   *)
(* for every phone its context, for every user and origin the sessions.    *)
(* No call touches more than what it names.  Store.tla implements this on  *)
(* one ordered map of strings.                                             *)
(***************************************************************************)
EXTENDS Naturals

CONSTANTS
  Ids,       \* session ids
  Users,     \* phone numbers or other identifiers of callers
  Sources,   \* "user", "assistant"
  Origins,   \* "sip", "webrtc"
  Times,     \* time stamps
  Values     \* frames, phrases, contexts

VARIABLES
  frames,    \* per session and source: frame at a time
  phrases,   \* per session: phrase of a source at a time
  contexts,  \* context of a user
  visits,    \* per user and origin: session at a time
  request    \* the last call, its arguments and its number

archiveVars == <<frames, phrases, contexts, visits, request>>

Called(name, args) ==
  request' = [call |-> name, args |-> args, number |-> request.number + 1]

Nothing == [t \in {} |-> t]

Insert(f, t, v) == [u \in DOMAIN f \cup {t} |-> IF u = t THEN v ELSE f[u]]

ArchiveInit ==
  /\ frames = [i \in Ids |-> [s \in Sources |-> Nothing]]
  /\ phrases = [i \in Ids |-> Nothing]
  /\ contexts = Nothing
  /\ visits = [u \in Users |-> [o \in Origins |-> Nothing]]
  /\ request = [call |-> "none", args |-> <<>>, number |-> 0]

PutFrame(i, s, t, v) ==
  /\ Called("SaveOpusFrame", <<i, s, t, v>>)
  /\ frames' = [frames EXCEPT ![i][s] = Insert(@, t, v)]
  /\ UNCHANGED <<phrases, contexts, visits>>

DropFrames(i, s) ==
  /\ Called("DeleteOpusFrames", <<i, s>>)
  /\ frames' = [frames EXCEPT ![i][s] = Nothing]
  /\ UNCHANGED <<phrases, contexts, visits>>

(* A deletion that names no source finds nothing.                          *)
DropUnnamed(i) ==
  /\ Called("DeleteOpusFrames", <<i, "">>)
  /\ UNCHANGED <<frames, phrases, contexts, visits>>

(* A second phrase of one source at one time replaces the first.           *)
PutPhrase(i, s, t, v) ==
  /\ Called("SaveDialogPhrase", <<i, s, t, v>>)
  /\ phrases' = [phrases EXCEPT ![i] = Insert(@, <<s, t>>, v)]
  /\ UNCHANGED <<frames, contexts, visits>>

DropPhrases(i) ==
  /\ Called("DeleteDialogTexts", <<i>>)
  /\ phrases' = [phrases EXCEPT ![i] = Nothing]
  /\ UNCHANGED <<frames, contexts, visits>>

PutContext(u, v) ==
  /\ Called("SetContext", <<u, v>>)
  /\ contexts' = Insert(contexts, u, v)
  /\ UNCHANGED <<frames, phrases, visits>>

DropContext(u) ==
  /\ Called("DeleteContext", <<u>>)
  /\ contexts' = [p \in DOMAIN contexts \ {u} |-> contexts[p]]
  /\ UNCHANGED <<frames, phrases, visits>>

PutVisit(u, o, t, i) ==
  /\ Called("SaveUserSession", <<u, o, t, i>>)
  /\ visits' = [visits EXCEPT ![u][o] = Insert(@, t, i)]
  /\ UNCHANGED <<frames, phrases, contexts>>

ArchiveNext ==
  \/ \E i \in Ids, s \in Sources, t \in Times, v \in Values :
       PutFrame(i, s, t, v) \/ PutPhrase(i, s, t, v)
  \/ \E i \in Ids, s \in Sources : DropFrames(i, s)
  \/ \E i \in Ids : DropPhrases(i) \/ DropUnnamed(i)
  \/ \E u \in Users, v \in Values : PutContext(u, v)
  \/ \E u \in Users : DropContext(u)
  \/ \E u \in Users, o \in Origins, t \in Times, i \in Ids : PutVisit(u, o, t, i)

ArchiveSpec == ArchiveInit /\ [][ArchiveNext]_archiveVars
===============================================================================
