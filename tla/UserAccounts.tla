---------------------------- MODULE UserAccounts ----------------------------
(***************************************************************************)
(* Users, sessions and grants (store.go) under the requests that read and  *)
(* change them (auth.go, server.go).                                       *)
(*                                                                         *)
(* A request works in steps and others run between them: a sign-in reads   *)
(* the user and inserts the session later; a protected request looks its   *)
(* session up, loads the grants of the user it found there and only then   *)
(* reaches its handler; a change of the own password compares, stores and  *)
(* signs in again.  Every transaction takes the writer slot of SQLite when *)
(* it begins (_txlock=immediate) and is one step.                          *)
(*                                                                         *)
(* A user is identified by its id, which its name is taken for; display    *)
(* names, addresses, cookies, the access log and the limit on failed       *)
(* sign-ins are left out.  What a client knows of a password is an input.  *)
(* A session that expires is not accepted by any reader, and the row is    *)
(* deleted by the next use or sign-in: it is taken out when it expires.    *)
(***************************************************************************)
EXTENDS Integers, FiniteSets, ScopedAccess

CONSTANTS
    User,       \* ids; one of them is created at the first start
    FirstAdmin,
    Role,       \* the roles in use
    Client,     \* requests that may be in progress at a time
    Token,      \* session tokens
    Pattern,    \* [action, scope] a grant may have
    Grantee,    \* users that are given grants
    MaxResets,  \* ends of all sessions of a user, by password or disabling
    None

ASSUME AccountsAssumption ==
    /\ IsFiniteSet(User) /\ FirstAdmin \in User
    /\ "admin" \in Role /\ Role \subseteq {"viewer", "operator", "admin"}
    /\ MaxResets \in Nat /\ Grantee \subseteq User
    /\ \A p \in Pattern : p.action \in Seq(STRING) /\ p.scope \in Seq(STRING)
    /\ None \notin User \cup Token

VARIABLES
    user,      \* users
    session,   \* sessions, by token
    grants,    \* user_grants
    request    \* what each request in progress has read

vars == <<user, session, grants, request>>

\* What a protected request is for: a method and a path.
Purpose == {"change password", "create user", "update user", "set grant", "change grant"}

ActionOf(purpose) ==
    CASE purpose = "change password"                -> <<"profile", "write">>
      [] purpose \in {"create user", "update user"} -> <<"users", "write">>
      [] purpose \in {"set grant", "change grant"}  -> <<"roles", "write">>

\* The id in a path is left open: "id" stands for any of them.
ScopeOf(purpose) ==
    CASE purpose = "change password" -> <<"profile", "self">>
      [] purpose = "create user"     -> <<"users", Wildcard>>
      [] purpose = "update user"     -> <<"user", "id">>
      [] purpose = "set grant"       -> <<"grants", Wildcard>>
      [] purpose = "change grant"    -> <<"grant", "id">>

\* A row absent from users; resets counts what ended all its sessions and
\* setBy is who chose the password.
NoUser == [known |-> FALSE, role |-> "viewer", enabled |-> FALSE,
           mustChange |-> FALSE, resets |-> 0, setBy |-> None]

NoSession == [user |-> None, resets |-> 0]

NoRequest == [stage |-> "none", user |-> None, role |-> "viewer", purpose |-> "change password"]

UserRecord ==
    [known: BOOLEAN, role: Role \cup {"viewer"}, enabled: BOOLEAN, mustChange: BOOLEAN,
     resets: 0..MaxResets, setBy: User \cup {None}]

SessionRecord == [user: User \cup {None}, resets: 0..MaxResets]

RequestRecord ==
    [stage: {"none", "signing in", "known", "permitted", "compared"},
     user: User \cup {None}, role: Role \cup {"viewer"}, purpose: Purpose]

Grant ==
    {[user |-> u, action |-> p.action, scope |-> p.scope, effect |-> e] :
        u \in Grantee, p \in Pattern, e \in {"allow", "deny"}}

TypeOK ==
    /\ user \in [User -> UserRecord]
    /\ session \in [Token -> SessionRecord]
    /\ grants \subseteq Grant
    /\ request \in [Client -> RequestRecord]

GrantsOf(u) == {g \in grants : g.user = u}

EnabledAdmins == {u \in User : user[u].known /\ user[u].enabled /\ user[u].role = "admin"}

-----------------------------------------------------------------------------
(* The first start: the administrator of the environment.  Its password is *)
(* temporary when it is read from a file.                                  *)

Init ==
    /\ \E temporary \in BOOLEAN :
          user = [u \in User |->
                    IF u = FirstAdmin
                    THEN [known |-> TRUE, role |-> "admin", enabled |-> TRUE,
                          mustChange |-> temporary, resets |-> 0,
                          setBy |-> IF temporary THEN None ELSE u]
                    ELSE NoUser]
    /\ session = [t \in Token |-> NoSession]
    /\ grants = {}
    /\ request = [c \in Client |-> NoRequest]

-----------------------------------------------------------------------------
(* Sign-in, sign-out and the lookup of a session.                          *)

\* The right password of an enabled user.
SignIn(c, u) ==
    /\ request[c].stage = "none"
    /\ user[u].known /\ user[u].enabled
    /\ request' = [request EXCEPT ![c] =
                     [NoRequest EXCEPT !.stage = "signing in", !.user = u]]
    /\ UNCHANGED <<user, session, grants>>

\* Inserts the row; nothing is read again.
CreateSession(c, t) ==
    /\ request[c].stage = "signing in"
    /\ session[t] = NoSession
    /\ session' = [session EXCEPT ![t] =
                     [user |-> request[c].user, resets |-> user[request[c].user].resets]]
    /\ request' = [request EXCEPT ![c] = NoRequest]
    /\ UNCHANGED <<user, grants>>

\* A sign-out, or the session's time is over.
Logout(t) ==
    /\ session[t] # NoSession
    /\ session' = [session EXCEPT ![t] = NoSession]
    /\ UNCHANGED <<user, grants, request>>

\* A session whose user is disabled is deleted on use. The DELETE is a statement of its
\* own after the SELECT (store.go:515, 525); one that comes later is a Logout here.
LookUpSession(c, t, purpose) ==
    LET found == user[session[t].user]
    IN /\ request[c].stage = "none"
       /\ session[t] # NoSession
       /\ IF ~found.enabled
          THEN /\ session' = [session EXCEPT ![t] = NoSession]
               /\ UNCHANGED request
          ELSE /\ found.mustChange => purpose = "change password"
               /\ request' = [request EXCEPT ![c] =
                    [stage |-> "known", user |-> session[t].user,
                     role |-> found.role, purpose |-> purpose]]
               /\ UNCHANGED session
       /\ UNCHANGED <<user, grants>>

\* The grants of today for the role of the lookup.
CheckPermission(c) ==
    LET r == request[c]
    IN /\ r.stage = "known"
       /\ request' = [request EXCEPT ![c] =
             IF Allows(r.role, GrantsOf(r.user), ActionOf(r.purpose), ScopeOf(r.purpose))
             THEN [r EXCEPT !.stage = "permitted"]
             ELSE NoRequest]
       /\ UNCHANGED <<user, session, grants>>

\* The client goes away, a step fails or the process ends.
Abandon(c) ==
    /\ request[c].stage # "none"
    /\ request' = [request EXCEPT ![c] = NoRequest]
    /\ UNCHANGED <<user, session, grants>>

-----------------------------------------------------------------------------
(* The handlers.                                                           *)

Handles(c, purpose) == request[c].stage = "permitted" /\ request[c].purpose = purpose

Finish(c) == request' = [request EXCEPT ![c] = NoRequest]

\* Fault: the first session found is ended and the others stay.
EndSessions_One(u) ==
    \/ /\ \A t \in Token : session[t].user # u
       /\ UNCHANGED session
    \/ \E t \in Token : /\ session[t].user = u
                        /\ session' = [session EXCEPT ![t] = NoSession]

EndSessions(u) ==
    session' = [t \in Token |-> IF session[t].user = u THEN NoSession ELSE session[t]]

CreateUser(c, u, role) ==
    /\ Handles(c, "create user")
    /\ ~user[u].known
    /\ user' = [user EXCEPT ![u] =
                  [known |-> TRUE, role |-> role, enabled |-> TRUE, mustChange |-> TRUE,
                   resets |-> 0, setBy |-> request[c].user]]
    /\ Finish(c)
    /\ UNCHANGED <<session, grants>>

\* Fault: one administrator too few is counted.
LastAdmin_NoneLeft(u, role, enabled) ==
    /\ user[u].role = "admin" /\ user[u].enabled
    /\ role # "admin" \/ ~enabled
    /\ Cardinality(EnabledAdmins) < 1

\* The last enabled administrator keeps role and access.
LastAdmin(u, role, enabled) ==
    /\ user[u].role = "admin" /\ user[u].enabled
    /\ role # "admin" \/ ~enabled
    /\ Cardinality(EnabledAdmins) <= 1

\* Fault: a new password leaves the mark of a temporary one as it was.
UpdateUser_KeepsMark(c, u, role, enabled, reset) ==
    LET ends == ~enabled \/ reset
    IN /\ Handles(c, "update user")
       /\ user[u].known
       /\ ~LastAdmin(u, role, enabled)
       /\ ends => user[u].resets < MaxResets
       /\ user' = [user EXCEPT ![u].role = role, ![u].enabled = enabled,
                               ![u].resets = IF ends THEN @ + 1 ELSE @,
                               ![u].setBy = IF reset THEN request[c].user ELSE @]
       /\ IF ends THEN EndSessions(u) ELSE UNCHANGED session
       /\ Finish(c)
       /\ UNCHANGED grants

\* A new password may be part of it; it is a temporary one.
UpdateUser(c, u, role, enabled, reset) ==
    LET ends == ~enabled \/ reset
    IN /\ Handles(c, "update user")
       /\ user[u].known
       /\ ~LastAdmin(u, role, enabled)
       /\ ends => user[u].resets < MaxResets
       /\ user' = [user EXCEPT ![u] =
                     [known |-> TRUE, role |-> role, enabled |-> enabled,
                      mustChange |-> reset \/ @.mustChange,
                      resets |-> IF ends THEN @.resets + 1 ELSE @.resets,
                      setBy |-> IF reset THEN request[c].user ELSE @.setBy]]
       /\ IF ends THEN EndSessions(u) ELSE UNCHANGED session
       /\ Finish(c)
       /\ UNCHANGED grants

\* The current password is compared with the stored one of this moment.
ComparePassword(c) ==
    /\ Handles(c, "change password")
    /\ request' = [request EXCEPT ![c].stage = "compared"]
    /\ UNCHANGED <<user, session, grants>>

\* A user disabled meanwhile fails; else the request signs in again.
ChangeOwnPassword(c) ==
    LET u == request[c].user
    IN /\ request[c].stage = "compared"
       /\ user[u].enabled
       /\ user[u].resets < MaxResets
       /\ user' = [user EXCEPT ![u].mustChange = FALSE, ![u].setBy = u,
                               ![u].resets = @ + 1]
       /\ EndSessions(u)
       /\ request' = [request EXCEPT ![c].stage = "signing in"]
       /\ UNCHANGED grants

\* One row for a user, an action and a scope; the effect is replaced.
UpsertGrant(c, g) ==
    /\ Handles(c, "set grant")
    /\ user[g.user].known
    /\ grants' = {h \in grants : <<h.user, h.action, h.scope>> # <<g.user, g.action, g.scope>>}
                    \cup {g}
    /\ Finish(c)
    /\ UNCHANGED <<user, session>>

DeleteGrant(c, g) ==
    /\ Handles(c, "change grant")
    /\ g \in grants
    /\ grants' = grants \ {g}
    /\ Finish(c)
    /\ UNCHANGED <<user, session>>

\* All columns of one row; fails on those of another one.
UpdateGrant(c, g, new) ==
    /\ Handles(c, "change grant")
    /\ g \in grants
    /\ user[new.user].known
    /\ \A h \in grants \ {g} : <<h.user, h.action, h.scope>> # <<new.user, new.action, new.scope>>
    /\ grants' = (grants \ {g}) \cup {new}
    /\ Finish(c)
    /\ UNCHANGED <<user, session>>

-----------------------------------------------------------------------------
RequestStep(c) ==
    \/ \E u \in User : SignIn(c, u)
    \/ \E t \in Token : CreateSession(c, t)
    \/ \E t \in Token, purpose \in Purpose : LookUpSession(c, t, purpose)
    \/ CheckPermission(c)
    \/ Abandon(c)
    \/ ComparePassword(c)
    \/ ChangeOwnPassword(c)
    \/ \E u \in User, role \in Role : CreateUser(c, u, role)
    \/ \E u \in User, role \in Role, enabled, reset \in BOOLEAN :
          UpdateUser(c, u, role, enabled, reset)
    \/ \E g \in Grant : UpsertGrant(c, g) \/ DeleteGrant(c, g)
    \/ \E g, new \in Grant : UpdateGrant(c, g, new)

Next ==
    \/ \E c \in Client : RequestStep(c)
    \/ \E t \in Token : Logout(t)

Spec == Init /\ [][Next]_vars

-----------------------------------------------------------------------------
(* Two administrators who disable or demote each other, or themselves, at  *)
(* the same time leave one who can sign in: the guard of updateUser holds  *)
(* for every order of their requests.                                      *)
EnabledAdminRemains == EnabledAdmins # {}

(* Changing a password, resetting it or disabling the user ends what was   *)
(* signed in before: no row of sessions is older than the last of these,   *)
(* although a request of the user may be between two steps meanwhile.      *)
(* (store_test.go: "changing password must invalidate prior sessions".)    *)
NoEarlierSession ==
    \A t \in Token : session[t] # NoSession => session[t].resets = user[session[t].user].resets

(* A password someone else chose is temporary: a user that need not change *)
(* the password has chosen it, whatever resets and own changes cross.      *)
LastingPasswordIsOwn ==
    \A u \in User : user[u].known /\ ~user[u].mustChange => user[u].setBy = u

(* What is permitted is offered: the summary for the user interface leaves *)
(* out no action that the check of a request would allow on some scope.    *)
AllowedIsOffered ==
    \A u \in User :
       LET hidden == UiPermissionActions \ EffectivePermissionActions(user[u].role, GrantsOf(u))
       IN \A a \in hidden, p \in Pattern : ~Allows(user[u].role, GrantsOf(u), a, p.scope)
=============================================================================
