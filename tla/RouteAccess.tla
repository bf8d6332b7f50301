----------------------------- MODULE RouteAccess -----------------------------
(***************************************************************************)
(* What a route is and who may use it: route.Resolve over the route's own  *)
(* fields and the RouteGroups whose selector matches its labels, while an  *)
(* operator adds, removes and reorders the groups' documents.              *)
(*                                                                         *)
(* A type or auth value is spelled as its lower-case form or with a        *)
(* capital ("Service"); "odd" stands for every value Resolve refuses.      *)
(* onDeny is a pointer: "nil" when a document leaves it out, else its      *)
(* redirect, which may be empty. projection is merged the same way.        *)
(***************************************************************************)
EXTENDS Naturals, Sequences, Functions

CONSTANTS
    Labels,      \* label maps of the route: functions from keys to values
    Selector,    \* [matchLabels : set of <<key, value>>, matchExpressions : set of
                 \*  [key, operator, values]]
    DocSpec,     \* spec of a document: [type, auth, authorize, onDeny], the last three of
                 \* spec.access; "", <<>> and "nil" when it does not set the field
    MaxGroups    \* bound: RouteGroup documents

VARIABLES
    rt,          \* the Route document
    groups       \* the RouteGroup documents in document order

ASSUME AccessAssumption ==
    /\ MaxGroups \in Nat
    /\ DocSpec \subseteq [type : STRING, auth : STRING, authorize : Seq(STRING), onDeny : STRING]

editVars == <<rt, groups>>

Group == [selector : Selector, spec : DocSpec]
Route == [labels : Labels, handler : {"static", "api"}, spec : DocSpec]

-----------------------------------------------------------------------------
(* selector.Matches                                                        *)

\* labels[k] of a Go map: "" when the key is absent.
Lookup(labels, k) == IF k \in DOMAIN labels THEN labels[k] ELSE ""

MatchesTerm(r, labels) ==
    LET present == r.key \in DOMAIN labels
    IN  \/ r.operator = "In" /\ present /\ labels[r.key] \in r.values
        \/ r.operator = "NotIn" /\ (present => labels[r.key] \notin r.values)
        \/ r.operator = "Exists" /\ present
        \/ r.operator = "DoesNotExist" /\ ~present

Matches(s, labels) ==
    /\ \A kv \in s.matchLabels : Lookup(labels, kv[1]) = kv[2]
    /\ \A r \in s.matchExpressions : MatchesTerm(r, labels)

-----------------------------------------------------------------------------
(* route.Resolve                                                           *)

ToLower(v) == CASE v = "Service" -> "service" [] v = "Required" -> "required" [] OTHER -> v

firstNonEmpty(a, b) == IF a # "" THEN a ELSE b

firstNonNil(a, b) == IF a # "nil" THEN a ELSE b

inferType(handler) == IF handler = "api" THEN "service" ELSE "app"

own == rt.spec

\* for _, x := range s { acc = body(acc, x) }
ForRange(body(_, _), acc0, s) ==
    LET acc[i \in 0 .. Len(s)] == IF i = 0 THEN acc0 ELSE body(acc[i - 1], s[i])
    IN  acc[Len(s)]

Applies(g) == Matches(g.selector, rt.labels)

\* What the first of two blocks sets, and where it sets nothing the second.
Override(first, second) ==
    [type |-> firstNonEmpty(first.type, second.type),
     auth |-> firstNonEmpty(first.auth, second.auth),
     onDeny |-> firstNonNil(first.onDeny, second.onDeny)]

\* The loop over the groups: later wins.
Earlier(acc, g) == IF Applies(g) THEN Override(acc, g.spec) ELSE acc
Later(acc, g) == IF Applies(g) THEN Override(g.spec, acc) ELSE acc

Unset == [type |-> "", auth |-> "", onDeny |-> "nil"]

FromGroupsFirst == ForRange(Earlier, Unset, groups)
FromGroups == ForRange(Later, Unset, groups)

EffectiveTypeOf(first, second) ==
    LET set == firstNonEmpty(first, second)
    IN  ToLower(IF set = "" THEN inferType(rt.handler) ELSE set)

EffectiveTypeGroupWins == EffectiveTypeOf(FromGroups.type, own.type)
EffectiveType == EffectiveTypeOf(own.type, FromGroups.type)

EffectiveAuth ==
    LET set == firstNonEmpty(own.auth, FromGroups.auth)
    IN  ToLower(IF set # "" THEN set
                ELSE IF EffectiveType = "service" THEN "required" ELSE "public")

EffectiveOnDeny == firstNonNil(own.onDeny, FromGroups.onDeny)

AddNew(seen, n) == IF n = "" \/ n \in Range(seen) THEN seen ELSE Append(seen, n)

\* add(names), and its use on a group.
AddAll(seen, names) == ForRange(AddNew, seen, names)
AddGroupsOwn(seen, g) == IF Applies(g) THEN AddAll(seen, g.spec.authorize) ELSE seen

AuthorizeOwn == AddAll(<<>>, own.authorize)

\* The route's own policies, then those of every group that matches, each once.
Authorize == ForRange(AddGroupsOwn, AuthorizeOwn, groups)

\* Resolve returns no error.
Valid ==
    /\ EffectiveType \in {"app", "service"}
    /\ EffectiveAuth \in {"required", "public"}
    /\ EffectiveOnDeny # "cross-origin"

Resolved == [type |-> EffectiveType, auth |-> EffectiveAuth, onDeny |-> EffectiveOnDeny,
             authorize |-> Authorize]

-----------------------------------------------------------------------------
(* The operator                                                            *)

EditInit == rt \in Route /\ groups = <<>>

AddGroup ==
    /\ Len(groups) < MaxGroups
    /\ \E g \in Group, i \in 1 .. Len(groups) + 1 :
         groups' = SubSeq(groups, 1, i - 1) \o <<g>> \o SubSeq(groups, i, Len(groups))
    /\ UNCHANGED rt

RemoveGroup ==
    /\ \E i \in DOMAIN groups :
         groups' = SubSeq(groups, 1, i - 1) \o SubSeq(groups, i + 1, Len(groups))
    /\ UNCHANGED rt

\* A file is renamed: Load reads files in lexical order.
Reorder ==
    /\ groups' = [i \in DOMAIN groups |-> groups[Len(groups) + 1 - i]]
    /\ UNCHANGED rt

EditNext == AddGroup \/ RemoveGroup \/ Reorder

EditSpec == EditInit /\ [][EditNext]_editVars

-----------------------------------------------------------------------------
(* Properties                                                              *)

EditTypeOK ==
    /\ rt \in Route /\ groups \in Seq(Group) /\ Len(groups) <= MaxGroups
    /\ Valid => Resolved \in
         [type : {"app", "service"}, auth : {"required", "public"},
          onDeny : {a.onDeny : a \in DocSpec},
          authorize : Seq(UNION {Range(a.authorize) : a \in DocSpec})]

\* Some matching group's value of a field that no later matching group overrides.
LastOf(value(_), unset) ==
    LET setting == {i \in DOMAIN groups :
                      Applies(groups[i]) /\ value(groups[i].spec) # unset}
    IN  IF setting = {} THEN unset
        ELSE value(groups[CHOOSE i \in setting : \A j \in setting : j <= i].spec)

\* "Matching groups apply in document order" (concepts.md): what Resolve's loop leaves is
\* the value of the last matching group that sets the field at all; and policies are
\* "unioned (not replaced)" (hog.schema.json): the route's own and those of every matching
\* group, each once, its own ahead of the others.
GroupsApply ==
    /\ FromGroups.type = LastOf(LAMBDA g : g.type, "")
    /\ FromGroups.auth = LastOf(LAMBDA g : g.auth, "")
    /\ FromGroups.onDeny = LastOf(LAMBDA g : g.onDeny, "nil")
    /\ Range(Authorize) =
         (Range(own.authorize) \cup UNION {Range(groups[i].spec.authorize) :
             i \in {j \in DOMAIN groups : Applies(groups[j])}}) \ {""}
    /\ IsInjective(Authorize)
    /\ SubSeq(Authorize, 1, Len(AuthorizeOwn)) = AuthorizeOwn

\* "A route's own spec.access always wins" (concepts.md): no edit of the groups changes
\* a type, auth or onDeny the route sets itself.
RouteWins ==
    [][rt' = rt =>
         /\ own.type # "" => EffectiveType' = EffectiveType
         /\ own.auth # "" => EffectiveAuth' = EffectiveAuth
         /\ own.onDeny # "nil" => EffectiveOnDeny' = EffectiveOnDeny]_editVars

\* matchLabels is an "exact-match map" (configuration.md): a group selects only routes
\* that have the labels it names.
\* (The code does not keep this: README, Disagreements.)
MatchLabelsNeedLabel == \A s \in Selector :
    Matches(s, rt.labels) => \A kv \in s.matchLabels : kv[1] \in DOMAIN rt.labels
=============================================================================
