-------------------------------- MODULE Store ---------------------------------
(***************************************************************************)
(* The context store of internal/store: every record is one entry of an    *)
(* MDBX map from strings to bytes, and what belongs together is found by   *)
(* the prefix of its key.  Each call is one transaction.                   *)
(*                                                                         *)
(* A string is the sequence of its parts between colons, so that joining   *)
(* with ":" is concatenation and strings.Split is the identity.  Ids and   *)
(* user names come from SIP headers and may have more than one part (a     *)
(* Call-ID may contain a colon).  The calls of internal/api are those of   *)
(* the store, with the source of deleteRecord taken from the query string. *)
(***************************************************************************)
EXTENDS Naturals, Sequences

CONSTANTS
  Ids,       \* session ids, sequences of parts
  Users,     \* phone numbers or other identifiers, sequences of parts
  Times,     \* decimal time stamps
  Values,    \* frames, phrases, contexts
  MaxCalls   \* bound: calls that write

Sources == {"user", "assistant"}
Origins == {"sip", "webrtc"}
Empty   == ""        \* the query parameter "source" was not given

ASSUME StoreAssumption ==
  /\ Ids \subseteq Seq(STRING) \ {<<>>}
  /\ Users \subseteq Seq(STRING) \ {<<>>}
  /\ Times \subseteq STRING \ (Sources \cup Origins)
  /\ MaxCalls \in Nat

VARIABLES
  db,        \* the map
  request    \* history: the last call, its arguments and its number

vars == <<db, request>>

-------------------------------------------------------------------------------
(* Database (internal/store/db.go).                                        *)

(* Filter's range "prefix:" to "prefix;": the keys that go on after the    *)
(* colon.                                                                  *)
InRange(k, prefix) ==
  /\ Len(prefix) < Len(k)
  /\ \A n \in 1..Len(prefix) : k[n] = prefix[n]

Filter(prefix) == {k \in DOMAIN db : InRange(k, prefix)}

Set(key, value) ==
  db' = [k \in DOMAIN db \cup {key} |-> IF k = key THEN value ELSE db[k]]

Retain(keys) == db' = [k \in keys |-> db[k]]

Delete(key) == Retain(DOMAIN db \ {key})

DeleteByPrefixKeepsFirst(prefix) ==
  Retain((DOMAIN db \ Filter(prefix)) \cup
           {k \in Filter(prefix) : k = CHOOSE j \in Filter(prefix) : TRUE})

DeleteByPrefix(prefix) == Retain(DOMAIN db \ Filter(prefix))

-------------------------------------------------------------------------------
(* Keys (internal/store/store.go).                                         *)

AudioPrefix(i, s) == <<"audio">> \o i \o <<s>>
FrameKey(i, s, t) == AudioPrefix(i, s) \o <<t>>
TextPrefix(i) == <<"text">> \o i
PhraseKey(i, s, t) == TextPrefix(i) \o <<s, t>>
ContextKey(u) == <<"context">> \o u
VisitPrefix(u, o) == <<"user">> \o u \o <<o>>
VisitKey(u, o, t) == VisitPrefix(u, o) \o <<t>>

(* parts[3] is there and is a number.                                      *)
TimeInFourth(k) == Len(k) >= 4 /\ k[4] \in Times

(* Frames by the time found in their keys.                                 *)
GetOpusFrames(i, s) ==
  LET keys == {k \in Filter(AudioPrefix(i, s)) : TimeInFourth(k)}
  IN [t \in {k[4] : k \in keys} |-> db[CHOOSE k \in keys : k[4] = t]]

GetDialogTexts(i) ==
  {[time |-> k[4], source |-> k[3], phrase |-> db[k]] :
     k \in {k \in Filter(TextPrefix(i)) : TimeInFourth(k)}}

ListContexts ==
  LET keys == Filter(<<"context">>)
  IN [u \in {Tail(k) : k \in keys} |-> db[<<"context">> \o u]]

-------------------------------------------------------------------------------
Called(name, args) ==
  /\ request.number < MaxCalls
  /\ request' = [call |-> name, args |-> args, number |-> request.number + 1]

SaveOpusFrame(i, s, t, v) ==
  /\ Called("SaveOpusFrame", <<i, s, t, v>>)
  /\ Set(FrameKey(i, s, t), v)

SaveDialogPhrase(i, s, t, v) ==
  /\ Called("SaveDialogPhrase", <<i, s, t, v>>)
  /\ Set(PhraseKey(i, s, t), v)

SaveUserSession(u, o, t, i) ==
  /\ Called("SaveUserSession", <<u, o, t, i>>)
  /\ Set(VisitKey(u, o, t), i)

SetContext(u, v) ==
  /\ Called("SetContext", <<u, v>>)
  /\ Set(ContextKey(u), v)

DeleteContext(u) ==
  /\ Called("DeleteContext", <<u>>)
  /\ Delete(ContextKey(u))

(* deleteRecord: DELETE /record/:sessionid, with or without ?source.       *)
DeleteOpusFrames(i, s) ==
  /\ Called("DeleteOpusFrames", <<i, s>>)
  /\ DeleteByPrefix(AudioPrefix(i, s))

DeleteDialogTexts(i) ==
  /\ Called("DeleteDialogTexts", <<i>>)
  /\ DeleteByPrefix(TextPrefix(i))

Init ==
  /\ db = [k \in {} |-> k]
  /\ request = [call |-> "none", args |-> <<>>, number |-> 0]

Next ==
  \/ \E i \in Ids, s \in Sources, t \in Times, v \in Values :
       SaveOpusFrame(i, s, t, v) \/ SaveDialogPhrase(i, s, t, v)
  \/ \E u \in Users, o \in Origins, t \in Times, i \in Ids :
       SaveUserSession(u, o, t, i)
  \/ \E u \in Users, v \in Values : SetContext(u, v)
  \/ \E u \in Users : DeleteContext(u)
  \/ \E i \in Ids, s \in Sources \cup {Empty} : DeleteOpusFrames(i, s)
  \/ \E i \in Ids : DeleteDialogTexts(i)

Spec == Init /\ [][Next]_vars

-------------------------------------------------------------------------------
(* PROPERTIES                                                              *)

(* Every key has one of the four shapes, and holds what the readers of     *)
(* that shape take it for.                                                 *)
TypeOK ==
  /\ \A k \in DOMAIN db :
       \/ /\ \E i \in Ids, s \in Sources, t \in Times :
               k \in {FrameKey(i, s, t), PhraseKey(i, s, t)}
          /\ db[k] \in Values
       \/ /\ \E u \in Users : k = ContextKey(u)
          /\ db[k] \in Values
       \/ /\ \E u \in Users, o \in Origins, t \in Times : k = VisitKey(u, o, t)
          /\ db[k] \in Ids
  /\ request.number \in 0..MaxCalls

(* What is stored under the keys of a session or user, found or not.       *)
FramesKept(i, s) ==
  [t \in {m \in Times : FrameKey(i, s, m) \in DOMAIN db} |->
     db[FrameKey(i, s, t)]]

PhrasesKept(i) ==
  [st \in {sm \in Sources \X Times : PhraseKey(i, sm[1], sm[2]) \in DOMAIN db} |->
     db[PhraseKey(i, st[1], st[2])]]

(* What the readers return, arranged as Archive.tla has it.                *)
PhrasesFound(i) ==
  LET said == GetDialogTexts(i)
  IN [st \in {<<p.source, p.time>> : p \in said} |->
        (CHOOSE p \in said : <<p.source, p.time>> = st).phrase]

VisitsOf(u, o) ==
  LET keys == Filter(VisitPrefix(u, o))
  IN [t \in {k[Len(k)] : k \in keys} |-> db[VisitKey(u, o, t)]]

(* Readers find the time of a frame or phrase only in ids of one part.     *)
FramesOf(i, s) == IF Len(i) = 1 THEN GetOpusFrames(i, s) ELSE FramesKept(i, s)

PhrasesOf(i) == IF Len(i) = 1 THEN PhrasesFound(i) ELSE PhrasesKept(i)

(* Sessions, users and kinds of record share one map, and reads go by      *)
(* prefix; still no call loses, changes or deletes anything but what it    *)
(* names, and reads return it where an id has one part.  Holds if no name  *)
(* goes on where another one ends (PrefixFree).                            *)
Records == INSTANCE Archive WITH
  frames   <- [i \in Ids |-> [s \in Sources |-> FramesOf(i, s)]],
  phrases  <- [i \in Ids |-> PhrasesOf(i)],
  contexts <- ListContexts,
  visits   <- [u \in Users |-> [o \in Origins |-> VisitsOf(u, o)]]

ImplementsArchive == Records!ArchiveSpec

PrefixFree ==
  /\ \A i, j \in Ids : ~InRange(i, j)
  /\ \A u, w \in Users : ~InRange(u, w)
===============================================================================
