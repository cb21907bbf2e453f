------------------------------ MODULE Sessions ------------------------------
(***************************************************************************)
(* The sessions of one user (auth/auth.service.ts): the rows of            *)
(* refresh_tokens that are neither revoked nor expired.  generateTokens    *)
(* stores a session, counts the active ones and revokes the oldest beyond  *)
(* the cap in three calls of the database; logins and refreshes of the     *)
(* same user run it at once.  A session is the number of its row in the    *)
(* order of createdAt.  Sessions also end with the password: at once when  *)
(* it is reset, by a second call when it is changed, and not at all when   *)
(* the user is the master account and a login, a request of a reset or the *)
(* resolution of its identity provisions it (ensureMasterAccount-          *)
(* Provisioned), which puts the configured password back.                  *)
(***************************************************************************)
EXTENDS Integers, FiniteSets

CONSTANTS Calls,          \* logins and refreshes that may be under way at once
          Cap,            \* MAX_SESSIONS
          MaxSessions,    \* bound: rows of refresh_tokens
          MaxPasswords,   \* bound: changes of the password
          MaxAuthFaults   \* bound: rejected calls and restarts

ASSUME SessionsAssumption ==
  /\ Cap \in Nat \ {0} /\ MaxSessions \in Nat /\ MaxPasswords \in Nat
  /\ MaxAuthFaults \in Nat

VARIABLES created,     \* how many sessions were stored
          active,      \* those neither revoked nor expired
          underOf,     \* the password each session was opened under
          cpc,         \* where each call is
          from,        \* the session it refreshes, 0 for a login
          under,       \* the password the user was read with
          view,        \* the active sessions it counted; like the other two
                       \* cleared where the call no longer needs it
          password,    \* how often the password was replaced
          ending,      \* changes that have yet to revoke the sessions
          drifted,     \* the user is the master account and its password is
                       \* not the configured one
          provisioning,  \* calls that found it so and have yet to write
          late,        \* history: sessions stored after the password moved on
          behind,      \* history: a fault ended a call that had stored, and
                       \* no call has counted since
          unended,     \* history: a replacement of the password revoked
                       \* nothing, by a fault or because it is none of those
                       \* that do, and nothing has revoked all sessions since
          authFaults

callVars == <<cpc, from, under, view>>
masterVars == <<drifted, provisioning>>
sessionVars == <<created, active, underOf, callVars, password, ending,
                 masterVars, late, behind, unended, authFaults>>

Sessions == 1 .. created

-----------------------------------------------------------------------------
SessionTypeOK ==
  /\ created \in 0 .. MaxSessions /\ active \subseteq Sessions
  /\ underOf \in [Sessions -> 0 .. MaxPasswords]
  /\ cpc \in [Calls -> {"idle", "revoke", "store", "count", "evict"}]
  /\ from \in [Calls -> 0 .. created] /\ under \in [Calls -> 0 .. MaxPasswords]
  /\ view \in [Calls -> SUBSET Sessions]
  /\ \A c \in Calls : /\ cpc[c] = "revoke" => from[c] \in Sessions
                      /\ cpc[c] = "evict" => Cardinality(view[c]) > Cap
  /\ password \in 0 .. MaxPasswords /\ ending \in 0 .. password
  /\ drifted \in BOOLEAN /\ provisioning \in 0 .. MaxPasswords
  /\ late \subseteq Sessions
  /\ behind \in BOOLEAN /\ unended \in BOOLEAN
  /\ authFaults \in 0 .. MaxAuthFaults

SessionInit ==
  /\ created = 0 /\ active = {} /\ underOf = [s \in 1 .. 0 |-> 0]
  /\ cpc = [c \in Calls |-> "idle"] /\ from = [c \in Calls |-> 0]
  /\ under = [c \in Calls |-> 0] /\ view = [c \in Calls |-> {}]
  /\ password = 0 /\ ending = 0
  /\ drifted \in BOOLEAN /\ provisioning = 0
  /\ late = {} /\ behind = FALSE /\ unended = FALSE /\ authFaults = 0

Goes(c, at, to) == cpc[c] = at /\ cpc' = [cpc EXCEPT ![c] = to]

-----------------------------------------------------------------------------
\* login and refreshTokens, up to generateTokens.

Login(c) ==
  /\ Goes(c, "idle", "store")
  /\ under' = [under EXCEPT ![c] = password]
  /\ UNCHANGED <<created, active, underOf, from, view, password, ending,
                 masterVars, late, behind, unended, authFaults>>

FindSession(c) ==
  /\ Goes(c, "idle", "revoke")
  /\ \E s \in active : from' = [from EXCEPT ![c] = s]
  /\ UNCHANGED <<created, active, underOf, under, view, password, ending,
                 masterVars, late, behind, unended, authFaults>>

RevokeOld(c) ==
  /\ Goes(c, "revoke", "store")
  /\ active' = active \ {from[c]}
  /\ under' = [under EXCEPT ![c] = underOf[from[c]]]
  /\ from' = [from EXCEPT ![c] = 0]
  /\ UNCHANGED <<created, underOf, view, password, ending,
                 masterVars, late, behind, unended, authFaults>>

\* generateTokens

Store(c) ==
  /\ created < MaxSessions /\ Goes(c, "store", "count")
  /\ created' = created + 1 /\ active' = active \cup {created'}
  /\ underOf' = [s \in 1 .. created' |->
                   IF s = created' THEN under[c] ELSE underOf[s]]
  /\ late' = IF under[c] = password THEN late ELSE late \cup {created'}
  /\ under' = [under EXCEPT ![c] = 0]
  /\ UNCHANGED <<from, view, password, ending, masterVars, behind, unended,
                 authFaults>>

\* Mutant of Count: the session just stored is not counted.
CountOthers(c) ==
  /\ LET others == active \ {created} IN
     \/ /\ Cardinality(others) > Cap /\ Goes(c, "count", "evict")
        /\ view' = [view EXCEPT ![c] = others]
     \/ /\ Cardinality(others) <= Cap /\ Goes(c, "count", "idle")
        /\ UNCHANGED view
  /\ behind' = FALSE
  /\ UNCHANGED <<created, active, underOf, from, under, password, ending,
                 masterVars, late, unended, authFaults>>

\* Mutant of Count: the length of the list is not looked at.
CountAndEvict(c) ==
  /\ Goes(c, "count", "evict")
  /\ view' = [view EXCEPT ![c] = active]
  /\ behind' = FALSE
  /\ UNCHANGED <<created, active, underOf, from, under, password, ending,
                 masterVars, late, unended, authFaults>>

Count(c) ==
  /\ \/ /\ Cardinality(active) > Cap /\ Goes(c, "count", "evict")
        /\ view' = [view EXCEPT ![c] = active]
     \/ /\ Cardinality(active) <= Cap /\ Goes(c, "count", "idle")
        /\ UNCHANGED view
  /\ behind' = FALSE
  /\ UNCHANGED <<created, active, underOf, from, under, password, ending,
                 masterVars, late, unended, authFaults>>

\* The first Cardinality(v) - Cap of the sessions v.
Newer(v, s) == {t \in v : t > s}
Oldest(v) == {s \in v : Cardinality(Newer(v, s)) >= Cap}

\* Mutant of Evict: every session but the first Cap of the list is revoked.
EvictTheRest(c) ==
  /\ Goes(c, "evict", "idle")
  /\ active' = active \ {s \in view[c] :
                           Cardinality({t \in view[c] : t < s}) >= Cap}
  /\ view' = [view EXCEPT ![c] = {}]
  /\ UNCHANGED <<created, underOf, from, under, password, ending,
                 masterVars, late, behind, unended, authFaults>>

Evict(c) ==
  /\ Goes(c, "evict", "idle")
  /\ active' = active \ Oldest(view[c])
  /\ view' = [view EXCEPT ![c] = {}]
  /\ UNCHANGED <<created, underOf, from, under, password, ending,
                 masterVars, late, behind, unended, authFaults>>

-----------------------------------------------------------------------------
\* logout, and the time a session expires.
EndSession(s) ==
  /\ s \in active /\ active' = active \ {s}
  /\ UNCHANGED <<created, underOf, callVars, password, ending,
                 masterVars, late, behind, unended, authFaults>>

\* The new password may or may not be the configured one, if that matters.
Replace ==
  /\ password < MaxPasswords /\ password' = password + 1
  /\ drifted' \in BOOLEAN

\* changePassword writes the hash and then calls revokeAllUserTokens.
ChangePassword ==
  /\ Replace /\ ending' = ending + 1
  /\ UNCHANGED <<created, active, underOf, callVars, provisioning, late, behind,
                 unended, authFaults>>

\* Mutant of RevokeAll: sessions being refreshed are kept.
RevokeIdle ==
  /\ ending > 0 /\ ending' = ending - 1
  /\ active' = {s \in active : \E c \in Calls : cpc[c] = "revoke" /\ from[c] = s}
  /\ unended' = FALSE
  /\ UNCHANGED <<created, underOf, callVars, password, masterVars, late, behind,
                 authFaults>>

RevokeAll ==
  /\ ending > 0 /\ ending' = ending - 1
  /\ active' = {} /\ unended' = FALSE
  /\ UNCHANGED <<created, underOf, callVars, password, masterVars, late, behind,
                 authFaults>>

\* resetPassword does both in one transaction.
ResetPassword ==
  /\ Replace /\ active' = {} /\ unended' = FALSE
  /\ UNCHANGED <<created, underOf, callVars, ending, provisioning, late, behind,
                 authFaults>>

\* ensureMasterAccountProvisioned compares the configured password with the hash
\* it has read ...
FindDrift ==
  /\ drifted /\ password + provisioning < MaxPasswords
  /\ provisioning' = provisioning + 1
  /\ UNCHANGED <<created, active, underOf, callVars, password, ending, drifted,
                 late, behind, unended, authFaults>>

\* ... and writes the configured one over whatever is there; no session ends.
ProvisionMaster ==
  /\ provisioning > 0 /\ provisioning' = provisioning - 1
  /\ password < MaxPasswords /\ password' = password + 1
  /\ drifted' = FALSE /\ unended' = TRUE
  /\ UNCHANGED <<created, active, underOf, callVars, ending, late, behind,
                 authFaults>>

-----------------------------------------------------------------------------
\* Faults.

AuthFault == authFaults < MaxAuthFaults /\ authFaults' = authFaults + 1

Stored(c) == cpc[c] \in {"count", "evict"}

CallThrows(c) ==
  /\ cpc[c] # "idle" /\ cpc' = [cpc EXCEPT ![c] = "idle"]
  /\ from' = [from EXCEPT ![c] = 0] /\ under' = [under EXCEPT ![c] = 0]
  /\ view' = [view EXCEPT ![c] = {}]
  /\ behind' = (behind \/ Stored(c))
  /\ AuthFault
  /\ UNCHANGED <<created, active, underOf, password, ending, masterVars, late,
                 unended>>

RevokeAllThrows ==
  /\ ending > 0 /\ ending' = ending - 1 /\ unended' = TRUE
  /\ AuthFault
  /\ UNCHANGED <<created, active, underOf, callVars, password, masterVars, late,
                 behind>>

ProvisionThrows ==
  /\ provisioning > 0 /\ provisioning' = provisioning - 1
  /\ AuthFault
  /\ UNCHANGED <<created, active, underOf, callVars, password, ending, drifted,
                 late, behind, unended>>

\* The process may come back with another password configured.
AuthRestart ==
  /\ AuthFault
  /\ cpc' = [c \in Calls |-> "idle"] /\ ending' = 0
  /\ from' = [c \in Calls |-> 0] /\ under' = [c \in Calls |-> 0]
  /\ view' = [c \in Calls |-> {}]
  /\ behind' = (behind \/ \E c \in Calls : Stored(c))
  /\ unended' = (unended \/ ending > 0)
  /\ drifted' \in BOOLEAN /\ provisioning' = 0
  /\ UNCHANGED <<created, active, underOf, password, late>>

SessionNext ==
  \/ \E c \in Calls : \/ Login(c) \/ FindSession(c) \/ RevokeOld(c)
                      \/ Store(c) \/ Count(c) \/ Evict(c) \/ CallThrows(c)
  \/ \E s \in active : EndSession(s)
  \/ ChangePassword \/ RevokeAll \/ ResetPassword
  \/ FindDrift \/ ProvisionMaster
  \/ RevokeAllThrows \/ ProvisionThrows \/ AuthRestart

SessionSpec == SessionInit /\ [][SessionNext]_sessionVars

-----------------------------------------------------------------------------
(* Properties *)

\* Logins and refreshes count and evict independently, each from a list that
\* may be stale when it is used; still, when none is in between its insert and
\* its eviction, at most Cap sessions are active, or a fault ended one in
\* between and nobody has counted since.
SessionCap ==
  (\A c \in Calls : ~Stored(c)) => Cardinality(active) <= Cap \/ behind

\* However stale the list is, no eviction ends one of the Cap sessions stored
\* last: a device that has just signed in is never the one signed out.
NewestStay ==
  [][\A c \in Calls : cpc[c] = "evict" /\ cpc'[c] = "idle" /\ authFaults' = authFaults
       => \A s \in active \ active' : s + Cap <= created]_sessionVars

\* A password that a change or a reset replaced leaves no session behind, once
\* that has revoked, whatever logins and refreshes cross it: an active session
\* was opened under the present password, or stored by a call that had read the
\* user before, or it waits for a revocation that is under way, that a fault has
\* prevented or that the provisioning of the master account never makes.
PasswordEndsSessions ==
  \A s \in active :
    underOf[s] = password \/ s \in late \/ ending > 0 \/ unended
=============================================================================
