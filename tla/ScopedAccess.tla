---------------------------- MODULE ScopedAccess ----------------------------
(***************************************************************************)
(* Who may do what: roles, grants and their patterns (scoped_acl.go and    *)
(* the end of store.go).                                                   *)
(*                                                                         *)
(* An action ("streams:read") or a scope ("stream:redis:orders") is a      *)
(* sequence of segments; a pattern is a name whose last segment may be the *)
(* wildcard.  A pattern that cuts a segment ("streams:r*") is a finer      *)
(* segmentation of the same names.                                         *)
(*                                                                         *)
(* A set of grants is the rows of one user in user_grants.                 *)
(***************************************************************************)
EXTENDS Integers, Sequences

Wildcard == "*"

Anything == <<Wildcard>>

IsOpen(p) == p # <<>> /\ p[Len(p)] = Wildcard

Stem(p) == IF IsOpen(p) THEN SubSeq(p, 1, Len(p) - 1) ELSE p

StartsWith(v, p) == Len(p) <= Len(v) /\ \A i \in 1..Len(p) : v[i] = p[i]

WildcardMatch(p, v) ==
    \/ p = v
    \/ IsOpen(p) /\ StartsWith(v, Stem(p))

\* Whether some name is matched by both patterns.
ScopePatternsOverlap(l, r) ==
    CASE IsOpen(l) /\ IsOpen(r) ->
            StartsWith(Stem(l), Stem(r)) \/ StartsWith(Stem(r), Stem(l))
      [] IsOpen(l) /\ ~IsOpen(r) -> StartsWith(r, Stem(l))
      [] ~IsOpen(l) /\ IsOpen(r) -> StartsWith(l, Stem(r))
      [] OTHER -> l = r

ViewerActions == {<<"connections", "read">>, <<"streams", "read">>,
                  <<"groups", "read">>, <<"alerts", "read">>}

OperatorActions == ViewerActions \cup {<<"streams", "write">>, <<"groups", "manage">>}

UiPermissionActions ==
    OperatorActions \cup
    {<<"profile", "write">>, <<"alerts", "write">>, <<"settings", "read">>,
     <<"settings", "write">>, <<"access-logs", "read">>, <<"users", "read">>,
     <<"users", "write">>, <<"roles", "read">>, <<"roles", "write">>}

RoleAllows(role, action) ==
    \/ role = "admin"
    \/ action = <<"profile", "write">>
    \/ role = "viewer" /\ action \in ViewerActions
    \/ role = "operator" /\ action \in OperatorActions

Covering(grants, action, effect) ==
    {g \in grants : g.effect = effect /\ WildcardMatch(g.action, action)}

\* One resource: a deny that matches it wins over the role and every allow.
Allows(role, grants, action, scope) ==
    \/ role = "admin"
    \/ /\ \A g \in Covering(grants, action, "deny") : ~WildcardMatch(g.scope, scope)
       /\ \/ RoleAllows(role, action)
          \/ \E g \in Covering(grants, action, "allow") : WildcardMatch(g.scope, scope)

\* All the resources of a pattern at once, before anything is filtered.
AllowsScopeCoverage(role, grants, action, pattern) ==
    \/ role = "admin"
    \/ /\ \A g \in Covering(grants, action, "deny") :
              ~ScopePatternsOverlap(g.scope, pattern)
       /\ \/ RoleAllows(role, action)
          \/ \E g \in Covering(grants, action, "allow") : WildcardMatch(g.scope, pattern)

\* Fault: a deny for some of the resources hides the action for all.
EffectivePermissionActions_AnyDeny(role, grants) ==
    IF role = "admin" THEN UiPermissionActions
    ELSE {a \in UiPermissionActions :
            /\ Covering(grants, a, "deny") = {}
            /\ RoleAllows(role, a) \/ Covering(grants, a, "allow") # {}}

\* What the user interface is told to offer.
EffectivePermissionActions(role, grants) ==
    IF role = "admin" THEN UiPermissionActions
    ELSE {a \in UiPermissionActions :
            /\ \A g \in Covering(grants, a, "deny") : g.scope # Anything
            /\ RoleAllows(role, a) \/ Covering(grants, a, "allow") # {}}
=============================================================================
