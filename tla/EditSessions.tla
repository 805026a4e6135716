---------------------------- MODULE EditSessions ----------------------------
(***************************************************************************)
(* What a store of drafts promises, with no ancestors, versions, stamps or *)
(* registrations in sight.  An edit session is a set of pending edits over *)
(* the LIVE canonical entity, each of which may be contested:              *)
(*                                                                         *)
(*  - a field without an edit shows, and submits, what canonical says now; *)
(*  - a canonical change never touches an edit, except that an edit it     *)
(*    agrees with may dissolve, and it contests every edit it moves under; *)
(*  - a submit is a merge of the edits into canonical, and needs every     *)
(*    contested edit to have been settled by the user first.               *)
(*                                                                         *)
(* Store (through StoreSessions) is shown to implement it.                 *)
(***************************************************************************)
EXTENDS Naturals

CONSTANTS Fields, Raws, Values, NoValue

VARIABLES
  canonical,   \* [Fields -> Values], or NoValue
  sessions     \* id -> SessionType, the open sessions only

svars == <<canonical, sessions>>

SessionType == [kind      : {"based", "create", "orphan"},
                edits     : [Fields -> Raws \cup {NoValue}],
                contested : SUBSET Fields]

\* A based session has an entity under it and contests only what it edits; a
\* create-flow session has nothing to contest.
WellFormed(s, entity) ==
  /\ s \in SessionType
  /\ s.kind = "based" => entity # NoValue
  /\ s.kind = "create" => s.contested = {}
  /\ s.kind # "orphan" => \A f \in s.contested : s.edits[f] # NoValue

\* t is what based session s may have become now that canonical is `entity`.
\* An agreeing edit may dissolve and any other stays; an untouched dispute
\* stays or is dropped; a new one arises exactly where the entity moved under
\* an edit that does not agree with it.
FollowsTo(s, t, entity) ==
  /\ t.kind = s.kind
  /\ \A f \in Fields :
       /\ \/ t.edits[f] = s.edits[f]
          \/ t.edits[f] = NoValue /\ s.edits[f] = entity[f]
       /\ f \in t.contested =>
            /\ t.edits[f] # NoValue
            /\ f \in s.contested \/ entity[f] # canonical[f]
       /\ f \notin s.contested /\ entity[f] # canonical[f] =>
            f \in t.contested \/ t.edits[f] = NoValue

\* Every session follows the new canonical; only based ones can tell.
AllFollow(ids, entity) ==
  /\ canonical' = entity
  /\ DOMAIN sessions' = ids
  /\ \A id \in ids :
       IF sessions[id].kind = "based"
       THEN FollowsTo(sessions[id], sessions'[id], entity)
       ELSE sessions'[id] = sessions[id]

Keeps(ids) == \A id \in ids : sessions'[id] = sessions[id]

-----------------------------------------------------------------------------
Open ==
  \E id \in DOMAIN sessions' \ DOMAIN sessions :
    /\ DOMAIN sessions' = DOMAIN sessions \cup {id}
    /\ WellFormed(sessions'[id], canonical)
    /\ Keeps(DOMAIN sessions)
    /\ UNCHANGED canonical

\* The user edits one field or settles the dispute about it.  Nothing the
\* user does starts a dispute.
Edit ==
  \E id \in DOMAIN sessions, f \in Fields :
    /\ DOMAIN sessions' = DOMAIN sessions
    /\ Keeps(DOMAIN sessions \ {id})
    /\ sessions'[id].kind = sessions[id].kind
    /\ \A g \in Fields \ {f} : sessions'[id].edits[g] = sessions[id].edits[g]
    /\ sessions[id].contested \ {f} \subseteq sessions'[id].contested
    /\ sessions'[id].contested \subseteq sessions[id].contested
    /\ UNCHANGED canonical

Close ==
  \E id \in DOMAIN sessions :
    /\ DOMAIN sessions' = DOMAIN sessions \ {id}
    /\ Keeps(DOMAIN sessions \ {id})
    /\ UNCHANGED canonical

CanonicalChanges ==
  canonical' # NoValue /\ AllFollow(DOMAIN sessions, canonical')

CanonicalDeleted ==
  /\ canonical' = NoValue
  /\ DOMAIN sessions' = DOMAIN sessions
  /\ \A id \in DOMAIN sessions :
       sessions'[id] = IF sessions[id].kind = "based"
                       THEN [sessions[id] EXCEPT !.kind = "orphan"]
                       ELSE sessions[id]

\* A based session merges its edits; a create-flow one supplies every field.
Submit ==
  \E id \in DOMAIN sessions :
    LET s == sessions[id]
    IN  /\ s.kind # "orphan" /\ s.contested = {}
        /\ \A f \in Fields : s.edits[f] \in Values \cup {NoValue}
        /\ s.kind = "create" => \A f \in Fields : s.edits[f] # NoValue
        /\ canonical' # NoValue
        /\ \A f \in Fields :
             canonical'[f] = IF s.edits[f] # NoValue THEN s.edits[f] ELSE canonical[f]
        /\ AllFollow(DOMAIN sessions \ {id}, canonical')

\* The process died: every session is gone, and canonical is whatever the
\* server says to the next one.
Restart == DOMAIN sessions' = {}

SInit == DOMAIN sessions = {}

SNext == Open \/ Edit \/ Close \/ CanonicalChanges \/ CanonicalDeleted
           \/ Submit \/ Restart

SSpec == SInit /\ [][SNext]_svars
=============================================================================
