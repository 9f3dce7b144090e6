------------------------ MODULE UserAccounts_proofs ------------------------
(* Proofs about UserAccounts and ScopedAccess.                             *)
EXTENDS UserAccounts, FiniteSetTheorems, SequenceTheorems, TLAPS

-----------------------------------------------------------------------------
(* Patterns.                                                               *)

\* The stem of an open pattern is the pattern without its last segment.
LEMMA StemOfOpen ==
    ASSUME NEW S, NEW p \in Seq(S), IsOpen(p)
    PROVE  /\ Len(p) \in Nat \ {0} /\ p[Len(p)] = Wildcard
           /\ Stem(p) \in Seq(S) /\ Len(Stem(p)) = Len(p) - 1
           /\ \A i \in 1..Len(Stem(p)) : Stem(p)[i] = p[i]
<1>1. Len(p) \in Nat \ {0} /\ p[Len(p)] = Wildcard
  BY DEF IsOpen
<1>2. Len(p) - 1 \in Int /\ 1 \in Int /\ \A i \in 1..Len(p) - 1 : p[i] \in S
  BY <1>1
<1>3. Stem(p) = SubSeq(p, 1, Len(p) - 1)
  BY DEF Stem
<1>4. /\ Stem(p) \in Seq(S)
      /\ Len(Stem(p)) = IF 1 <= Len(p) - 1 THEN Len(p) - 1 - 1 + 1 ELSE 0
      /\ \A i \in 1..Len(p) - 1 - 1 + 1 : Stem(p)[i] = p[1 + i - 1]
  BY <1>2, <1>3, SubSeqProperties
<1>5. Len(Stem(p)) = Len(p) - 1
  <2>1. Len(Stem(p)) = IF 1 <= Len(p) - 1 THEN Len(p) - 1 - 1 + 1 ELSE 0
    BY <1>4
  <2>2. PICK n \in Nat : n = Len(p) /\ n # 0
    BY <1>1
  <2>3. n = 1 \/ 1 <= n - 1
    BY <2>2
  <2> QED
    BY <2>1, <2>2, <2>3
<1>6. ASSUME NEW i \in 1..Len(Stem(p)) PROVE Stem(p)[i] = p[i]
  <2>1. i \in 1..Len(p) - 1 - 1 + 1 /\ 1 + i - 1 = i
    BY <1>1, <1>5
  <2> QED
    BY <1>4, <2>1
<1> QED
  BY <1>1, <1>4, <1>5, <1>6

\* A name that is matched by two patterns shows that they overlap.
LEMMA CommonNameOverlaps ==
    ASSUME NEW S, NEW l \in Seq(S), NEW r \in Seq(S), NEW v \in Seq(S),
           WildcardMatch(l, v), WildcardMatch(r, v)
    PROVE  ScopePatternsOverlap(l, r)
<1>1. CASE ~IsOpen(l) /\ ~IsOpen(r)
  BY <1>1 DEF WildcardMatch, ScopePatternsOverlap
<1>2. CASE IsOpen(l) /\ ~IsOpen(r)
  <2>1. r = v /\ l # v
    BY <1>2 DEF WildcardMatch
  <2> QED
    BY <1>2, <2>1 DEF WildcardMatch, ScopePatternsOverlap
<1>3. CASE ~IsOpen(l) /\ IsOpen(r)
  <2>1. l = v /\ r # v
    BY <1>3 DEF WildcardMatch
  <2> QED
    BY <1>3, <2>1 DEF WildcardMatch, ScopePatternsOverlap
<1>4. CASE IsOpen(l) /\ IsOpen(r)
  <2>1. ASSUME NEW p \in Seq(S), IsOpen(p), WildcardMatch(p, v)
        PROVE  /\ Stem(p) \in Seq(S)
               /\ StartsWith(v, Stem(p))
    <3>1. /\ Len(p) \in Nat \ {0}
          /\ Stem(p) \in Seq(S) /\ Len(Stem(p)) = Len(p) - 1
          /\ \A i \in 1..Len(Stem(p)) : Stem(p)[i] = p[i]
      BY <2>1, StemOfOpen
    <3> QED
      BY <2>1, <3>1 DEF WildcardMatch, StartsWith
  <2>2. /\ Stem(l) \in Seq(S) /\ StartsWith(v, Stem(l))
        /\ Stem(r) \in Seq(S) /\ StartsWith(v, Stem(r))
    BY <1>4, <2>1
  <2>3. StartsWith(Stem(l), Stem(r)) \/ StartsWith(Stem(r), Stem(l))
    <3>1. Len(Stem(l)) \in Nat /\ Len(Stem(r)) \in Nat
      BY <2>2
    <3>2. CASE Len(Stem(r)) <= Len(Stem(l))
      BY <2>2, <3>1, <3>2 DEF StartsWith
    <3>3. CASE Len(Stem(l)) <= Len(Stem(r))
      BY <2>2, <3>1, <3>3 DEF StartsWith
    <3> QED
      BY <3>1, <3>2, <3>3
  <2> QED
    BY <1>4, <2>3 DEF ScopePatternsOverlap
<1> QED
  BY <1>1, <1>2, <1>3, <1>4

\* What matches a pattern as a word matches every name of it.
LEMMA MatchIsTransitive ==
    ASSUME NEW S, NEW g \in Seq(S), NEW p \in Seq(S), NEW v \in Seq(S),
           ~IsOpen(Stem(g)), WildcardMatch(g, p), WildcardMatch(p, v)
    PROVE  WildcardMatch(g, v)
<1>1. CASE g = p \/ p = v
  BY <1>1 DEF WildcardMatch
<1>2. CASE g # p /\ p # v
  <2>1. /\ IsOpen(g) /\ StartsWith(p, Stem(g))
        /\ IsOpen(p) /\ StartsWith(v, Stem(p))
    BY <1>2 DEF WildcardMatch
  <2>2. /\ Len(g) \in Nat \ {0}
        /\ Stem(g) \in Seq(S) /\ Len(Stem(g)) = Len(g) - 1
    BY <2>1, StemOfOpen
  <2>3. /\ Len(p) \in Nat \ {0}
        /\ Stem(p) \in Seq(S) /\ Len(Stem(p)) = Len(p) - 1
        /\ \A i \in 1..Len(Stem(p)) : Stem(p)[i] = p[i]
        /\ p[Len(p)] = Wildcard
    BY <2>1, StemOfOpen
  <2>4. Len(Stem(g)) <= Len(Stem(p))
    <3>1. SUFFICES ASSUME Len(Stem(g)) = Len(p) PROVE FALSE
      BY <2>1, <2>2, <2>3 DEF StartsWith
    <3>2. Stem(g)[Len(Stem(g))] = Wildcard /\ Len(Stem(g)) # 0
      BY <2>1, <2>3, <3>1 DEF StartsWith
    <3>3. Stem(g) # <<>>
      BY <3>2
    <3> QED
      BY <3>2, <3>3 DEF IsOpen
  <2>5. Len(v) \in Nat
    OBVIOUS
  <2>6. StartsWith(v, Stem(g))
    BY <2>1, <2>2, <2>3, <2>4, <2>5 DEF StartsWith
  <2> QED
    BY <2>1, <2>6 DEF WildcardMatch
<1> QED
  BY <1>1, <1>2

\* Permission for a pattern is permission for every name of it: what the
\* handlers of aggregates check at once (allowsScopeCoverage) never lets
\* through what the check of one resource (allows) would refuse.
THEOREM CoverageIsSound ==
    ASSUME NEW S, NEW role, NEW grants_, NEW action,
           NEW pattern \in Seq(S), NEW scope \in Seq(S),
           \A g \in grants_ : g.scope \in Seq(S) /\ ~IsOpen(Stem(g.scope)),
           WildcardMatch(pattern, scope),
           AllowsScopeCoverage(role, grants_, action, pattern)
    PROVE  Allows(role, grants_, action, scope)
<1>1. CASE role = "admin"
  BY <1>1 DEF Allows
<1>2. CASE role # "admin"
  <2>1. ASSUME NEW g \in Covering(grants_, action, "deny"), WildcardMatch(g.scope, scope)
        PROVE  FALSE
    <3>1. g \in grants_
      BY DEF Covering
    <3>2. ScopePatternsOverlap(g.scope, pattern)
      BY <2>1, <3>1, CommonNameOverlaps
    <3> QED
      BY <1>2, <3>2 DEF AllowsScopeCoverage
  <2>2. ASSUME NEW g \in Covering(grants_, action, "allow"), WildcardMatch(g.scope, pattern)
        PROVE  WildcardMatch(g.scope, scope)
    <3>1. g \in grants_
      BY DEF Covering
    <3> QED
      BY <2>2, <3>1, MatchIsTransitive
  <2> QED
    BY <1>2, <2>1, <2>2 DEF AllowsScopeCoverage, Allows
<1> QED
  BY <1>1, <1>2

\* An action that some scope is allowed for is in the summary that the user
\* interface is given (effectivePermissionActions).
LEMMA AllowedIsAdvertised ==
    ASSUME NEW S, NEW role, NEW grants_, NEW a \in UiPermissionActions, NEW scope \in Seq(S),
           Allows(role, grants_, a, scope)
    PROVE  a \in EffectivePermissionActions(role, grants_)
<1>1. CASE role = "admin"
  BY <1>1 DEF EffectivePermissionActions
<1>2. CASE role # "admin"
  <2>1. ASSUME NEW g \in Covering(grants_, a, "deny"), g.scope = Anything PROVE FALSE
    <3>1. WildcardMatch(g.scope, scope)
      <4>1. IsOpen(Anything) /\ Stem(Anything) = <<>>
        BY SubSeqEmpty DEF IsOpen, Anything, Stem
      <4>2. StartsWith(scope, <<>>)
        BY DEF StartsWith
      <4> QED
        BY <2>1, <4>1, <4>2 DEF WildcardMatch
    <3> QED
      BY <1>2, <3>1 DEF Allows
  <2> QED
    BY <1>2, <2>1 DEF Allows, EffectivePermissionActions
<1> QED
  BY <1>1, <1>2

-----------------------------------------------------------------------------
(* The inductive invariant: requests and sessions belong to users that     *)
(* were created, an absent user has never been signed out, and the three   *)
(* properties.                                                             *)

Belonging ==
    /\ \A c \in Client : request[c].stage # "none" =>
          request[c].user \in User /\ user[request[c].user].known
    /\ \A t \in Token : session[t] # NoSession =>
          session[t].user \in User /\ user[session[t].user].known
    /\ \A u \in User : user[u].known \/ user[u].resets = 0

IInv ==
    /\ TypeOK
    /\ Belonging
    /\ EnabledAdminRemains
    /\ NoEarlierSession
    /\ LastingPasswordIsOwn

LEMMA InitIInv == Init => IInv
<1> SUFFICES ASSUME Init PROVE IInv
  OBVIOUS
<1> USE AccountsAssumption
<1>1. PICK temporary \in BOOLEAN :
         user = [u \in User |->
                   IF u = FirstAdmin
                   THEN [known |-> TRUE, role |-> "admin", enabled |-> TRUE,
                         mustChange |-> temporary, resets |-> 0,
                         setBy |-> IF temporary THEN None ELSE u]
                   ELSE NoUser]
  BY DEF Init
<1>2. 0 \in 0..MaxResets
  OBVIOUS
<1>3. TypeOK
  <2>1. user \in [User -> UserRecord]
    BY <1>1, <1>2 DEF UserRecord, NoUser
  <2>2. session \in [Token -> SessionRecord]
    BY <1>2 DEF Init, NoSession, SessionRecord
  <2>3. request \in [Client -> RequestRecord]
    BY DEF Init, NoRequest, RequestRecord, Purpose
  <2> QED
    BY <2>1, <2>2, <2>3 DEF Init, TypeOK
<1>4. Belonging /\ NoEarlierSession
  BY <1>1 DEF Init, Belonging, NoEarlierSession, NoRequest, NoUser
<1>5. EnabledAdminRemains
  BY <1>1 DEF EnabledAdminRemains, EnabledAdmins
<1>6. LastingPasswordIsOwn
  BY <1>1 DEF LastingPasswordIsOwn, NoUser
<1> QED
  BY <1>3, <1>4, <1>5, <1>6 DEF IInv

\* Steps that leave the users alone and write one request and one session.
LEMMA UsersUnchanged ==
    ASSUME IInv, NEW c \in Client, NEW r \in RequestRecord,
           r.stage # "none" => r.user \in User /\ user[r.user].known,
           request' = [request EXCEPT ![c] = r] \/ UNCHANGED request,
           \A t \in Token : session'[t] \in {session[t], NoSession} \/
               /\ session'[t].user \in User /\ user[session'[t].user].known
               /\ session'[t] \in SessionRecord
               /\ session'[t].resets = user[session'[t].user].resets,
           session' = [t \in Token |-> session'[t]],
           UNCHANGED user, grants' \subseteq Grant
    PROVE  IInv'
<1> USE DEF IInv
<1>1. NoSession \in SessionRecord
  BY AccountsAssumption DEF NoSession, SessionRecord
<1>2. TypeOK'
  <2>1. request' \in [Client -> RequestRecord]
    BY DEF TypeOK
  <2>2. \A t \in Token : session'[t] \in SessionRecord
    BY <1>1 DEF TypeOK
  <2>3. session' \in [Token -> SessionRecord]
    BY <2>2
  <2> QED
    BY <2>1, <2>3 DEF TypeOK
<1>3. Belonging'
  <2>1. \A d \in Client : request'[d] = request[d] \/ request'[d] = r
    BY DEF TypeOK
  <2> QED
    BY <2>1 DEF Belonging
<1>4. NoEarlierSession'
  BY DEF NoEarlierSession
<1>5. EnabledAdminRemains' /\ LastingPasswordIsOwn'
  BY DEF EnabledAdminRemains, EnabledAdmins, LastingPasswordIsOwn
<1> QED
  BY <1>2, <1>3, <1>4, <1>5

\* Removing one administrator of several leaves one.
LEMMA AnotherAdmin ==
    ASSUME IInv, NEW u \in EnabledAdmins, ~(Cardinality(EnabledAdmins) <= 1)
    PROVE  \E v \in EnabledAdmins : v # u
<1>1. IsFiniteSet(EnabledAdmins)
  BY AccountsAssumption, FS_Subset DEF EnabledAdmins
<1>2. SUFFICES ASSUME EnabledAdmins = {u} PROVE FALSE
  OBVIOUS
<1>3. Cardinality(EnabledAdmins) = 1
  BY <1>2, FS_Singleton
<1> QED
  BY <1>3

\* A step that writes user u and leaves every other user alone keeps the
\* invariant if the sessions of u end with its count of resets.
LEMMA OneUserWritten ==
    ASSUME IInv, NEW u \in User, NEW w \in UserRecord, NEW c \in Client,
           NEW r \in RequestRecord,
           r.stage # "none" => r.user = u,
           w.known, w.mustChange \/ w.setBy = u,
           user' = [user EXCEPT ![u] = w],
           request' = [request EXCEPT ![c] = r],
           EndSessions(u) \/ (UNCHANGED session /\ w.resets = user[u].resets),
           u \in EnabledAdmins => (w.enabled /\ w.role = "admin") \/
                                  ~(Cardinality(EnabledAdmins) <= 1),
           UNCHANGED grants
    PROVE  IInv'
<1> USE DEF IInv
<1>1. NoSession \in SessionRecord /\ None \notin User /\ NoSession.user = None
  BY AccountsAssumption DEF NoSession, SessionRecord
<1>2. /\ user'[u] = w /\ \A v \in User \ {u} : user'[v] = user[v]
      /\ request'[c] = r /\ \A d \in Client \ {c} : request'[d] = request[d]
  BY DEF TypeOK
<1>3. \A t \in Token : session'[t] = session[t] \/ session'[t] = NoSession
  BY DEF EndSessions, TypeOK
<1>4. TypeOK'
  <2>1. session' \in [Token -> SessionRecord]
    BY <1>1 DEF EndSessions, TypeOK
  <2> QED
    BY <2>1 DEF TypeOK
<1>5. Belonging'
  BY <1>2, <1>3 DEF Belonging
<1>6. ASSUME NEW t \in Token, session'[t] # NoSession
      PROVE  session'[t].resets = user'[session'[t].user].resets
  <2>1. session'[t] = session[t] /\ session[t] # NoSession /\ session[t].user \in User
    BY <1>3, <1>6 DEF Belonging
  <2>2. CASE session[t].user = u
    <3>1. UNCHANGED session /\ w.resets = user[u].resets
      BY <1>6, <2>2 DEF EndSessions
    <3> QED
      BY <1>2, <2>1, <2>2, <3>1 DEF NoEarlierSession
  <2>3. CASE session[t].user # u
    BY <1>2, <2>1, <2>3 DEF NoEarlierSession
  <2> QED
    BY <2>2, <2>3
<1>7. EnabledAdminRemains'
  <2>1. PICK v \in EnabledAdmins : v # u \/ (v = u /\ w.enabled /\ w.role = "admin")
    <3>1. PICK a \in EnabledAdmins : TRUE
      BY DEF EnabledAdminRemains
    <3> QED
      BY <3>1, AnotherAdmin
  <2>2. v \in User /\ user[v].known /\ user[v].enabled /\ user[v].role = "admin"
    BY DEF EnabledAdmins
  <2>3. user'[v].known /\ user'[v].enabled /\ user'[v].role = "admin"
    BY <1>2, <2>1, <2>2
  <2> QED
    BY <2>2, <2>3 DEF EnabledAdminRemains, EnabledAdmins
<1>8. LastingPasswordIsOwn'
  BY <1>2 DEF LastingPasswordIsOwn
<1>9. NoEarlierSession'
  BY <1>6 DEF NoEarlierSession
<1> QED
  BY <1>4, <1>5, <1>7, <1>8, <1>9

LEMMA NoRequestType == NoRequest \in RequestRecord /\ NoRequest.stage = "none"
BY DEF NoRequest, RequestRecord, Purpose

\* Every step of a request that is not a handler's.
LEMMA RequestStepsKeep ==
    ASSUME IInv, NEW c \in Client,
           \/ \E u \in User : SignIn(c, u)
           \/ \E t \in Token : CreateSession(c, t)
           \/ \E t \in Token, purpose \in Purpose : LookUpSession(c, t, purpose)
           \/ CheckPermission(c)
           \/ Abandon(c)
           \/ ComparePassword(c)
    PROVE  IInv'
<1> USE DEF IInv
<1>1. /\ grants \subseteq Grant
      /\ \A t \in Token : session[t] \in SessionRecord
      /\ session = [t \in Token |-> session[t]]
      /\ \A d \in Client : request[d] \in RequestRecord
  BY DEF TypeOK
<1>2. ASSUME NEW u \in User, SignIn(c, u) PROVE IInv'
  <2> DEFINE r == [NoRequest EXCEPT !.stage = "signing in", !.user = u]
  <2>1. r \in RequestRecord /\ r.user = u
    BY DEF NoRequest, RequestRecord, Purpose
  <2>2. /\ request' = [request EXCEPT ![c] = r] /\ user[u].known
        /\ UNCHANGED <<user, session, grants>>
    BY <1>2 DEF SignIn
  <2> HIDE DEF r
  <2> QED
    BY <1>1, <2>1, <2>2, UsersUnchanged
<1>3. ASSUME NEW t \in Token, CreateSession(c, t) PROVE IInv'
  <2> DEFINE n == [user |-> request[c].user, resets |-> user[request[c].user].resets]
  <2>1. request[c].user \in User /\ user[request[c].user].known
    BY <1>3 DEF CreateSession, Belonging
  <2>2. n \in SessionRecord /\ n.user = request[c].user /\ n.resets = user[n.user].resets
    BY <2>1 DEF TypeOK, UserRecord, SessionRecord
  <2>3. /\ session' = [session EXCEPT ![t] = n]
        /\ request' = [request EXCEPT ![c] = NoRequest] /\ UNCHANGED <<user, grants>>
    BY <1>3 DEF CreateSession
  <2> HIDE DEF n
  <2>4. \A s \in Token : session'[s] = IF s = t THEN n ELSE session[s]
    BY <1>1, <2>3
  <2>5. session' = [s \in Token |-> session'[s]]
    BY <1>1, <2>3
  <2> QED
    BY <1>1, <2>1, <2>2, <2>3, <2>4, <2>5, NoRequestType, UsersUnchanged
<1>4. ASSUME NEW t \in Token, NEW purpose \in Purpose, LookUpSession(c, t, purpose)
      PROVE  IInv'
  <2> DEFINE r == [stage |-> "known", user |-> session[t].user,
                   role |-> user[session[t].user].role, purpose |-> purpose]
  <2>1. session[t].user \in User /\ user[session[t].user].known
    BY <1>4 DEF LookUpSession, Belonging
  <2>2. r \in RequestRecord /\ r.user = session[t].user
    BY <2>1 DEF TypeOK, UserRecord, RequestRecord
  <2>3. /\ UNCHANGED <<user, grants>>
        /\ \/ session' = [session EXCEPT ![t] = NoSession] /\ UNCHANGED request
           \/ request' = [request EXCEPT ![c] = r] /\ UNCHANGED session
    BY <1>4 DEF LookUpSession
  <2> HIDE DEF r
  <2>4. \A s \in Token : session'[s] \in {session[s], NoSession}
    BY <1>1, <2>3
  <2>5. session' = [s \in Token |-> session'[s]]
    BY <1>1, <2>3
  <2> QED
    BY <1>1, <2>1, <2>2, <2>3, <2>4, <2>5, UsersUnchanged
<1>5. ASSUME CheckPermission(c) PROVE IInv'
  <2>1. request[c].user \in User /\ user[request[c].user].known
    BY <1>5 DEF CheckPermission, Belonging
  <2> DEFINE r == [request[c] EXCEPT !.stage = "permitted"]
  <2>2. r \in RequestRecord /\ r.user = request[c].user
    BY <1>1 DEF RequestRecord
  <2>3. /\ request' = [request EXCEPT ![c] = r] \/ request' = [request EXCEPT ![c] = NoRequest]
        /\ UNCHANGED <<user, session, grants>>
    BY <1>5 DEF CheckPermission
  <2> HIDE DEF r
  <2> QED
    BY <1>1, <2>1, <2>2, <2>3, NoRequestType, UsersUnchanged
<1>6. ASSUME Abandon(c) PROVE IInv'
  BY <1>1, <1>6, NoRequestType, UsersUnchanged DEF Abandon
<1>7. ASSUME ComparePassword(c) PROVE IInv'
  <2>1. request[c].user \in User /\ user[request[c].user].known
    BY <1>7 DEF ComparePassword, Handles, Belonging
  <2> DEFINE r == [request[c] EXCEPT !.stage = "compared"]
  <2>2. r \in RequestRecord /\ r.user = request[c].user
    BY <1>1 DEF RequestRecord
  <2>3. request' = [request EXCEPT ![c] = r] /\ UNCHANGED <<user, session, grants>>
    BY <1>7 DEF ComparePassword, TypeOK
  <2> HIDE DEF r
  <2> QED
    BY <1>1, <2>1, <2>2, <2>3, UsersUnchanged
<1> QED
  BY <1>2, <1>3, <1>4, <1>5, <1>6, <1>7
\* Every handler.
LEMMA HandlersKeep ==
    ASSUME IInv, NEW c \in Client,
           \/ ChangeOwnPassword(c)
           \/ \E u \in User, role \in Role : CreateUser(c, u, role)
           \/ \E u \in User, role \in Role, enabled, reset \in BOOLEAN :
                 UpdateUser(c, u, role, enabled, reset)
           \/ \E g \in Grant : UpsertGrant(c, g) \/ DeleteGrant(c, g)
           \/ \E g, new \in Grant : UpdateGrant(c, g, new)
    PROVE  IInv'
<1> USE DEF IInv
<1>1. /\ grants \subseteq Grant
      /\ \A t \in Token : session[t] \in SessionRecord
      /\ session = [t \in Token |-> session[t]]
      /\ request[c] \in RequestRecord
      /\ \A u \in User : user[u] \in UserRecord
      /\ None \notin User
  BY AccountsAssumption DEF TypeOK
<1>2. ASSUME ChangeOwnPassword(c) PROVE IInv'
  <2> DEFINE u == request[c].user
             w == [user[u] EXCEPT !.mustChange = FALSE, !.setBy = u, !.resets = @ + 1]
             r == [request[c] EXCEPT !.stage = "signing in"]
  <2>1. u \in User /\ user[u].known
    BY <1>2 DEF ChangeOwnPassword, Belonging
  <2>2. w \in UserRecord /\ w.known /\ w.setBy = u /\ w.enabled = user[u].enabled
        /\ w.role = user[u].role
    <3>1. user[u] \in UserRecord
      BY <1>1, <2>1
    <3>2. user[u].resets < MaxResets
      BY <1>2 DEF ChangeOwnPassword
    <3> HIDE DEF u
    <3>3. user[u].resets + 1 \in 0..MaxResets
      BY <3>1, <3>2, AccountsAssumption DEF UserRecord
    <3> QED
      BY <2>1, <3>1, <3>3 DEF UserRecord
  <2>3. r \in RequestRecord /\ r.user = u
    BY <1>1 DEF RequestRecord
  <2>4. /\ user' = [user EXCEPT ![u] = w] /\ request' = [request EXCEPT ![c] = r]
        /\ EndSessions(u) /\ UNCHANGED grants
    BY <1>2, <2>1 DEF ChangeOwnPassword, TypeOK
  <2>5. u \in EnabledAdmins => w.enabled /\ w.role = "admin"
    BY <2>2 DEF EnabledAdmins
  <2> HIDE DEF u, w, r
  <2> QED
    BY <2>1, <2>2, <2>3, <2>4, <2>5, OneUserWritten
<1>3. ASSUME NEW u \in User, NEW role \in Role, CreateUser(c, u, role) PROVE IInv'
  <2> DEFINE w == [known |-> TRUE, role |-> role, enabled |-> TRUE, mustChange |-> TRUE,
                   resets |-> 0, setBy |-> request[c].user]
  <2>1. w \in UserRecord /\ w.known /\ w.mustChange /\ w.resets = user[u].resets
    BY <1>1, <1>3, AccountsAssumption DEF CreateUser, UserRecord, RequestRecord, Belonging
  <2>2. /\ user' = [user EXCEPT ![u] = w] /\ request' = [request EXCEPT ![c] = NoRequest]
        /\ UNCHANGED <<session, grants>>
    BY <1>3 DEF CreateUser, Finish
  <2>3. u \notin EnabledAdmins
    BY <1>3 DEF CreateUser, EnabledAdmins
  <2> HIDE DEF w
  <2> QED
    BY <2>1, <2>2, <2>3, NoRequestType, OneUserWritten
<1>4. ASSUME NEW u \in User, NEW role \in Role, NEW enabled \in BOOLEAN,
             NEW reset \in BOOLEAN, UpdateUser(c, u, role, enabled, reset)
      PROVE  IInv'
  <2> DEFINE ends == ~enabled \/ reset
             w == [known |-> TRUE, role |-> role, enabled |-> enabled,
                   mustChange |-> reset \/ user[u].mustChange,
                   resets |-> IF ends THEN user[u].resets + 1 ELSE user[u].resets,
                   setBy |-> IF reset THEN request[c].user ELSE user[u].setBy]
  <2>1. w \in UserRecord /\ w.known /\ w.role = role /\ w.enabled = enabled
        /\ (~ends => w.resets = user[u].resets)
    <3>1. w.resets \in 0..MaxResets
      <4>1. user[u].resets \in 0..MaxResets /\ (ends => user[u].resets < MaxResets)
        BY <1>1, <1>4 DEF UpdateUser, UserRecord
      <4> QED
        BY <4>1, AccountsAssumption
    <3>2. w.mustChange \in BOOLEAN /\ w.setBy \in User \cup {None}
      BY <1>1 DEF UserRecord, RequestRecord
    <3> QED
      BY <3>1, <3>2 DEF UserRecord
  <2>2. w.mustChange \/ w.setBy = u
    BY <1>4 DEF UpdateUser, LastingPasswordIsOwn
  <2>3. /\ user' = [user EXCEPT ![u] = w] /\ request' = [request EXCEPT ![c] = NoRequest]
        /\ UNCHANGED grants
        /\ IF ends THEN EndSessions(u) ELSE UNCHANGED session
    BY <1>4 DEF UpdateUser, Finish, TypeOK
  <2>4. u \in EnabledAdmins => (enabled /\ role = "admin") \/ ~(Cardinality(EnabledAdmins) <= 1)
    BY <1>4 DEF UpdateUser, LastAdmin, EnabledAdmins
  <2> HIDE DEF w, ends
  <2>5. EndSessions(u) \/ (UNCHANGED session /\ w.resets = user[u].resets)
    BY <2>1, <2>3
  <2> QED
    BY <2>1, <2>2, <2>3, <2>4, <2>5, NoRequestType, OneUserWritten
<1>5. ASSUME request' = [request EXCEPT ![c] = NoRequest], UNCHANGED <<user, session>>,
             grants' \subseteq Grant
      PROVE  IInv'
  BY <1>1, <1>5, NoRequestType, UsersUnchanged
<1>6. ASSUME NEW g \in Grant, UpsertGrant(c, g) \/ DeleteGrant(c, g) PROVE IInv'
  <2>1. request' = [request EXCEPT ![c] = NoRequest] /\ UNCHANGED <<user, session>>
    BY <1>6 DEF UpsertGrant, DeleteGrant, Finish
  <2>2. grants' \subseteq Grant
    BY <1>1, <1>6 DEF UpsertGrant, DeleteGrant
  <2> QED
    BY <1>5, <2>1, <2>2
<1>7. ASSUME NEW g \in Grant, NEW new \in Grant, UpdateGrant(c, g, new) PROVE IInv'
  <2>1. request' = [request EXCEPT ![c] = NoRequest] /\ UNCHANGED <<user, session>>
    BY <1>7 DEF UpdateGrant, Finish
  <2>2. grants' \subseteq Grant
    BY <1>1, <1>7 DEF UpdateGrant
  <2> QED
    BY <1>5, <2>1, <2>2
<1> QED
  BY <1>2, <1>3, <1>4, <1>6, <1>7

THEOREM Inductive == Spec => []IInv
<1>1. Init => IInv
  BY InitIInv
<1>2. IInv /\ [Next]_vars => IInv'
  <2> SUFFICES ASSUME IInv, [Next]_vars PROVE IInv'
    OBVIOUS
  <2>1. ASSUME NEW c \in Client, RequestStep(c) PROVE IInv'
    BY <2>1, RequestStepsKeep, HandlersKeep DEF RequestStep
  <2>2. ASSUME NEW t \in Token, Logout(t) PROVE IInv'
    <3>1. /\ \A s \in Token : session'[s] = session[s] \/ session'[s] = NoSession
          /\ session' \in [Token -> SessionRecord] /\ UNCHANGED <<user, grants, request>>
      BY <2>2, AccountsAssumption DEF Logout, IInv, TypeOK, NoSession, SessionRecord
    <3>2. TypeOK' /\ Belonging' /\ NoEarlierSession'
      BY <3>1 DEF IInv, TypeOK, Belonging, NoEarlierSession
    <3>3. EnabledAdminRemains' /\ LastingPasswordIsOwn'
      BY <3>1 DEF IInv, EnabledAdminRemains, EnabledAdmins, LastingPasswordIsOwn
    <3> QED
      BY <3>2, <3>3 DEF IInv
  <2>3. CASE UNCHANGED vars
    BY <2>3 DEF vars, IInv, TypeOK, Belonging, EnabledAdminRemains, EnabledAdmins,
       NoEarlierSession, LastingPasswordIsOwn
  <2> QED
    BY <2>1, <2>2, <2>3 DEF Next
<1> QED
  BY <1>1, <1>2, PTL DEF Spec

-----------------------------------------------------------------------------
(* The tables and the requests have their types.                           *)
THEOREM TypeCorrect == Spec => []TypeOK
<1>1. IInv => TypeOK
  BY DEF IInv
<1> QED
  BY <1>1, Inductive, PTL

(* At every moment some administrator is enabled, for any number of        *)
(* administrators who update each other in any order.                      *)
THEOREM AdminRemains == Spec => []EnabledAdminRemains
<1>1. IInv => EnabledAdminRemains
  BY DEF IInv
<1> QED
  BY <1>1, Inductive, PTL

(* A password change, a reset or disabling a user leaves no earlier        *)
(* session of the user.                                                    *)
THEOREM SessionsAreLater == Spec => []NoEarlierSession
<1>1. IInv => NoEarlierSession
  BY DEF IInv
<1> QED
  BY <1>1, Inductive, PTL

(* A password that need not be changed was chosen by its user.             *)
THEOREM LastingIsOwn == Spec => []LastingPasswordIsOwn
<1>1. IInv => LastingPasswordIsOwn
  BY DEF IInv
<1> QED
  BY <1>1, Inductive, PTL

(* The summary of the user interface offers every action that the check of *)
(* a request would allow on the scope of some grant.                       *)
THEOREM AllowedOffered == Spec => []AllowedIsOffered
<1>1. AllowedIsOffered
  <2> SUFFICES ASSUME NEW u \in User, NEW p \in Pattern, NEW a \in UiPermissionActions,
                      Allows(user[u].role, GrantsOf(u), a, p.scope)
               PROVE  a \in EffectivePermissionActions(user[u].role, GrantsOf(u))
    BY DEF AllowedIsOffered
  <2>1. p.scope \in Seq(STRING)
    BY AccountsAssumption
  <2> QED
    BY <2>1, AllowedIsAdvertised
<1> QED
  BY <1>1, PTL
=============================================================================
