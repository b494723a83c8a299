--------------------------- MODULE FakeBackupEntries ---------------------------
(***************************************************************************)
(* The generated fake clientset of BackupEntries (fake_backupentry.go).    *)
(* Every method builds a client-go testing Action, hands it to             *)
(* Fake.Invokes, which records it and asks the reaction chain: the first   *)
(* reactor that handles the action answers (obj, err); when none does,     *)
(* Invokes answers (defaultReturnObj, nil).  Tests prepend reactors; the   *)
(* default chain holds client-go's ObjectReaction over an object tracker,  *)
(* which handles get, list, create, update, delete and patch and no other  *)
(* verb.  The tracker is this model's environment: a store of entries per  *)
(* namespace and name.  Several FakeBackupEntries (one per namespace)      *)
(* share one Fake.                                                         *)
(*                                                                         *)
(* An entry is abstracted to its label and an opaque content value.        *)
(***************************************************************************)
EXTENDS Naturals

CONSTANTS
    Name,         \* backup entry names
    Namespace,    \* namespaces of the FakeBackupEntries clients
    Label,        \* values of the one label the selectors look at
    Content,      \* opaque spec/status contents
    None,         \* no object (nil): a model value, no entry
    MaxCalls,     \* bound on recorded actions
    MaxPrepends   \* bound on reactors prepended by a test

Entry == [label: Label, content: Content]

Verbs == {"get", "list", "watch", "create", "update", "update-status",
          "delete", "delete-collection", "patch"}

\* What a reactor prepended by a test answers: (true, nil, err), or
\* (true, nil, nil).
Reactions == {"tracker", "error", "nil"}

Errors == {"none", "NotFound", "AlreadyExists", "injected", "panic"}

\* ListOptions: a label selector ("" selects everything) and a field
\* selector on metadata.name ("" selects everything).
ListOpts == [label: Label \cup {""}, field: Name \cup {""}]

VARIABLES
    store,     \* the tracker: the entry stored under every namespace and name
    reactor,   \* for every verb, the reactor at the head of the chain
    actions,   \* len(Fake.Actions()): every call records its action
    result,    \* what the last call returned
    prepends

vars == <<store, reactor, actions, result, prepends>>

-----------------------------------------------------------------------------
Init ==
    /\ store \in [Namespace \X Name -> Entry \cup {None}]
    /\ reactor = [v \in Verbs |-> "tracker"]
    /\ actions = 0
    /\ result = [verb |-> "none", ns |-> None, opts |-> None,
                 obj |-> None, err |-> "none"]
    /\ prepends = 0

\* The entries of namespace ns a selector selects on labels alone.
LabelMatches(ns, opts) ==
    {<<n, store[ns, n]>> : n \in {m \in Name : store[ns, m] # None
                                   /\ opts.label \in {"", store[ns, m].label}}}

\* ObjectReaction's answer, as (handled, obj, err), over the tracker.
TrackerGet(ns, n) ==
    IF store[ns, n] = None THEN <<TRUE, None, "NotFound">>
    ELSE <<TRUE, store[ns, n], "none">>

\* Invokes(action, defaultReturnObj): the reactor at the head of the chain
\* for the verb, then ObjectReaction, then the default answer.
Invokes(verb, tracker) ==
    CASE reactor[verb] = "error" -> <<None, "injected">>
      [] reactor[verb] = "nil"   -> <<None, "none">>
      [] tracker[1]              -> <<tracker[2], tracker[3]>>
      [] OTHER                   -> <<None, "none">>

Record(verb, ns, opts) ==
    /\ actions < MaxCalls
    /\ actions' = actions + 1

Return(verb, ns, opts, obj, err) ==
    result' = [verb |-> verb, ns |-> ns, opts |-> opts, obj |-> obj, err |-> err]

-----------------------------------------------------------------------------
\* Get: (nil, err) when Invokes answers no object, else the object and err.
Get(ns, n) ==
    LET ans == Invokes("get", TrackerGet(ns, n)) IN
    /\ Record("get", ns, None)
    /\ Return("get", ns, None, ans[1], ans[2])
    /\ UNCHANGED <<store, reactor, prepends>>

\* List: the tracker's list of the namespace, filtered by the label
\* selector only (the field selector is extracted and dropped).
List(ns, opts) ==
    LET ans == Invokes("list", <<TRUE, {<<n, store[ns, n]>> : n \in
                          {m \in Name : store[ns, m] # None}}, "none">>)
    IN
    /\ Record("list", ns, opts)
    /\ Return("list", ns, opts,
              IF ans[1] = None THEN None
              ELSE {p \in ans[1] : opts.label \in {"", p[2].label}},
              ans[2])
    /\ UNCHANGED <<store, reactor, prepends>>

\* Watch: InvokesWatch records the action; event delivery is not modelled.
Watch(ns, opts) ==
    /\ Record("watch", ns, opts)
    /\ Return("watch", ns, opts, None,
              IF reactor["watch"] = "error" THEN "injected" ELSE "none")
    /\ UNCHANGED <<store, reactor, prepends>>

\* Create, Update, UpdateStatus and Patch: the tracker adds or replaces the
\* object (an update of a subresource replaces the whole object) and
\* answers it read back; Create of an existing name is AlreadyExists, the
\* others of a missing name NotFound.
Write(verb, ns, n, obj) ==
    LET exists  == store[ns, n] # None
        tracker == IF (verb = "create") = exists
                   THEN <<TRUE, None, IF exists THEN "AlreadyExists"
                                                ELSE "NotFound">>
                   ELSE <<TRUE, obj, "none">>
        ans     == Invokes(verb, tracker)
    IN
    /\ Record(verb, ns, None)
    /\ store' = IF reactor[verb] = "tracker" /\ tracker[3] = "none"
                THEN [store EXCEPT ![<<ns, n>>] = obj] ELSE store
    /\ Return(verb, ns, None, ans[1], ans[2])
    /\ UNCHANGED <<reactor, prepends>>

Create(ns, n, e)       == Write("create", ns, n, e)
Update(ns, n, e)       == Write("update", ns, n, e)
UpdateStatus(ns, n, e) == Write("update-status", ns, n, e)
Patch(ns, n, e)        == Write("patch", ns, n, e)

\* Delete: the tracker removes the object and answers (nil, nil), or
\* NotFound; the fake returns the error only.
Delete(ns, n) ==
    LET tracker == IF store[ns, n] = None THEN <<TRUE, None, "NotFound">>
                   ELSE <<TRUE, None, "none">>
        ans     == Invokes("delete", tracker)
    IN
    /\ Record("delete", ns, None)
    /\ store' = IF reactor["delete"] = "tracker" /\ store[ns, n] # None
                THEN [store EXCEPT ![<<ns, n>>] = None] ELSE store
    /\ Return("delete", ns, None, None, ans[2])
    /\ UNCHANGED <<reactor, prepends>>

\* DeleteCollection: ObjectReaction does not handle the action, so Invokes
\* answers the default object and no error.
DeleteCollection(ns, opts) ==
    LET ans == Invokes("delete-collection", <<FALSE, None, "none">>) IN
    /\ Record("delete-collection", ns, opts)
    /\ Return("delete-collection", ns, opts, None, ans[2])
    /\ UNCHANGED <<store, reactor, prepends>>

\* A test prepends a reactor for one verb (it shadows the earlier ones).
PrependReactor ==
    /\ prepends < MaxPrepends
    /\ \E v \in Verbs, r \in Reactions \ {"tracker"} :
          reactor' = [reactor EXCEPT ![v] = r]
    /\ prepends' = prepends + 1
    /\ UNCHANGED <<store, actions, result>>

Next ==
    \/ PrependReactor
    \/ \E ns \in Namespace :
          \/ \E n \in Name :
                \/ Get(ns, n)
                \/ Delete(ns, n)
                \/ \E e \in Entry :
                      \/ Create(ns, n, e) \/ Update(ns, n, e)
                      \/ UpdateStatus(ns, n, e) \/ Patch(ns, n, e)
          \/ \E opts \in ListOpts :
                List(ns, opts) \/ Watch(ns, opts) \/ DeleteCollection(ns, opts)

Spec == Init /\ [][Next]_vars

-----------------------------------------------------------------------------
\* List's doc comment: it returns the BackupEntries that match the label
\* and the field selectors.
ListHonoursFieldSelector ==
    result.verb = "list" /\ result.obj # None
        => \A p \in result.obj : result.opts.field \in {"", p[1]}

\* The entries of namespace ns that both selectors of opts select.
Selected(ns, opts) == {p \in LabelMatches(ns, opts) : opts.field \in {"", p[1]}}

\* DeleteCollection's doc comment: it deletes a collection of objects; once
\* it returned no error, nothing its label and field selectors select is
\* left in the namespace.
DeleteCollectionDeletes ==
    result.verb = "delete-collection" /\ result.err = "none"
        => Selected(result.ns, result.opts) = {}

=============================================================================
