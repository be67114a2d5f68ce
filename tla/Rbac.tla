-------------------------------- MODULE Rbac --------------------------------
(***************************************************************************)
(* The static authorization rules of internal/auth/rbac.go.                *)
(*                                                                         *)
(* A rule is a record [group, resources, permissions] of the configuration *)
(* file's auth.rbac list.  The code scans the list in order and returns at *)
(* the first match, so the list is a set here.  Claims enter as the set of *)
(* groups they carry; nil claims carry none, which yields the answers the  *)
(* code's nil checks return (false, and no resource).                      *)
(***************************************************************************)

\* The resource name a rule uses to cover every resource.
Wildcard == "*"

\* The rules whose group is one of the claims' groups.
RulesFor(rules, groups) == {rule \in rules : rule.group \in groups}

\* resourceMatches: a rule's resource list names the target or the wildcard.
ResourceMatches(resources, target) ==
    target \in resources \/ Wildcard \in resources

\* A plausible bug in Check: the resource is granted by one of the caller's
\* rules and the permission by another.
CheckAcrossRules(rules, groups, resource, permission) ==
    /\ \E rule \in RulesFor(rules, groups) :
          ResourceMatches(rule.resources, resource)
    /\ \E rule \in RulesFor(rules, groups) : permission \in rule.permissions

\* Check: one rule has to match the group, the resource and the permission.
Check(rules, groups, resource, permission) ==
    \E rule \in RulesFor(rules, groups) :
        /\ ResourceMatches(rule.resources, resource)
        /\ permission \in rule.permissions

\* AllowedResources: every name the caller's rules list, the wildcard as it
\* is written.  The permissions of a rule play no part.
AllowedResources(rules, groups) ==
    UNION {rule.resources : rule \in RulesFor(rules, groups)}

\* A plausible bug in the list_resources handler: the names of the rules go
\* out as they are, the wildcard and names that are not configured included.
ListedAsAllowed(allowed, configured) == allowed

\* A plausible bug in the list_resources handler: the wildcard is compared
\* with the names like any other entry.
ListedNoWildcard(allowed, configured) == configured \cap allowed

\* The filter of the list_resources handler over the configured resources.
Listed(allowed, configured) ==
    {name \in configured : ResourceMatches(allowed, name)}

=============================================================================
