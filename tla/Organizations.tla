--------------------------- MODULE Organizations ---------------------------
(***************************************************************************)
(* The members of one organization (organizations.service.ts) and the      *)
(* calls that add, remove and promote them.  Every call checks once that   *)
(* its caller is an admin and acts later, without looking again.  VIEWER   *)
(* is treated everywhere as MEMBER is and left out.                        *)
(***************************************************************************)
EXTENDS Naturals, FiniteSets

CONSTANTS Users,
          Requests,     \* calls that may be under way at once
          NoRequest

VARIABLES role,         \* role of each user, "none" without a membership
          request,      \* each call under way
          cleared,      \* those that have looked at the members
          weakened          \* history: an admin has lost the role since these
                        \* were admitted

orgVars == <<role, request, cleared, weakened>>

Roles == {"ADMIN", "MEMBER", "none"}
Admins == {u \in Users : role[u] = "ADMIN"}

-----------------------------------------------------------------------------
OrgTypeOK ==
  /\ role \in [Users -> Roles]
  /\ request \in
       [Requests -> [op : {"add", "remove", "update"}, by : Users, target : Users,
                     to : Roles] \cup {NoRequest}]
  /\ \A r \in Requests : request[r] # NoRequest =>
       (request[r].op = "remove" <=> request[r].to = "none")
  /\ cleared \cup weakened \subseteq {r \in Requests : request[r] # NoRequest}

OrgInit ==
  /\ \E creator \in Users :
       role = [u \in Users |-> IF u = creator THEN "ADMIN" ELSE "none"]
  /\ request = [r \in Requests |-> NoRequest] /\ cleared = {} /\ weakened = {}

-----------------------------------------------------------------------------
\* The check every call begins with.
Admit(r, op, by, target, to) ==
  /\ request[r] = NoRequest /\ role[by] = "ADMIN"
  /\ op = "remove" <=> to = "none"
  /\ request' = [request EXCEPT ![r] =
                   [op |-> op, by |-> by, target |-> target, to |-> to]]
  /\ UNCHANGED <<role, cleared, weakened>>

Waits(r, op) == request[r] # NoRequest /\ request[r].op = op

\* addMember looks for the membership before it inserts one.
LookForMember(r) ==
  /\ Waits(r, "add") /\ role[request[r].target] = "none"
  /\ cleared' = cleared \cup {r}
  /\ UNCHANGED <<role, request, weakened>>

\* Mutant of CountAdmins: the count is not looked at.
CountNobody(r) ==
  /\ Waits(r, "remove") /\ request[r].by = request[r].target
  /\ cleared' = cleared \cup {r}
  /\ UNCHANGED <<role, request, weakened>>

\* removeMember counts the admins when its caller removes himself.
CountAdmins(r) ==
  /\ Waits(r, "remove") /\ request[r].by = request[r].target
  /\ Cardinality(Admins) # 1
  /\ cleared' = cleared \cup {r}
  /\ UNCHANGED <<role, request, weakened>>

EndRequest(r) ==
  /\ request' = [request EXCEPT ![r] = NoRequest] /\ cleared' = cleared \ {r}

Others(r) == {q \in Requests : q # r /\ request[q] # NoRequest}

\* The last write of a call.
SetRole(r) ==
  LET v == request[r].target
      x == request[r].to
  IN  /\ role' = [role EXCEPT ![v] = x]
      /\ weakened' = IF role[v] = "ADMIN" /\ x # "ADMIN" THEN Others(r) ELSE weakened \ {r}
      /\ EndRequest(r)

AddMember(r) ==
  /\ Waits(r, "add") /\ r \in cleared
  /\ role[request[r].target] = "none"
  /\ SetRole(r)

RemoveMember(r) ==
  /\ Waits(r, "remove")
  /\ r \in cleared \/ request[r].by # request[r].target
  /\ role[request[r].target] # "none"
  /\ SetRole(r)

UpdateMemberRole(r) ==
  /\ Waits(r, "update") /\ role[request[r].target] # "none"
  /\ SetRole(r)

\* A call that is refused, rejected by the database, or lost with the process.
Refused(r) ==
  /\ request[r] # NoRequest /\ EndRequest(r) /\ weakened' = weakened \ {r}
  /\ UNCHANGED role

OrgNext ==
  \E r \in Requests :
    \/ \E by, target \in Users, to \in Roles :
         \E op \in {"add", "remove", "update"} : Admit(r, op, by, target, to)
    \/ LookForMember(r) \/ CountAdmins(r)
    \/ AddMember(r) \/ RemoveMember(r) \/ UpdateMemberRole(r)
    \/ Refused(r)

OrgSpec == OrgInit /\ [][OrgNext]_orgVars

-----------------------------------------------------------------------------
(* Properties *)

\* "Prevent removing the last admin": the step that leaves an organization
\* without one is a change of roles, which does not look, or a removal during
\* which another admin lost the role.
LastAdminStays ==
  [][(Admins # {} /\ Admins' = {}) =>
       \E r \in Requests :
         /\ request[r] # NoRequest /\ request'[r] = NoRequest
         /\ request[r].op = "update" \/ r \in weakened]_orgVars
=============================================================================
