------------------------------ MODULE Settings ------------------------------
(***************************************************************************)
(* The columns of one row and the partial updates (PATCH) of it.  `kind'   *)
(* says which table a behaviour is about.  A handler reads the row, checks *)
(* what was sent and then runs one UPDATE that merges it into the row as   *)
(* it is by then; other calls may run in between.                          *)
(*                                                                         *)
(* Columns that are merely replaced behave alike, so each kind keeps one   *)
(* of them (`name') beside those with a rule of their own.                 *)
(***************************************************************************)
EXTENDS Integers, FiniteSets

CONSTANTS
    Handler,
    Proxy,      \* proxies of all projects
    OwnProxy,   \* those of the row's own project
    MaxBody     \* MaxExampleBodySize

VARIABLES kind, status, row, proxies, pc, call

tables == <<kind, status, row, proxies>>
vars == <<tables, pc, call>>

Kinds == {"team", "project", "environment", "variable", "folder", "request",
          "proxy", "example", "webhook"}
Nodes == {"folder", "request"}

NULL == "NULL"
Text == {"a", "b"}
NoBody == -1    \* a body is its number of bytes

\* The columns of a row, with the values they may hold.
Columns(k) ==
    CASE k = "variable" ->
            [name : Text, type : {"regular", "secret"}, value : {NULL, "", "a"}]
      [] k \in Nodes ->
            [auth_type : {"inherit", "bearer"}, auth_value : Text,
             proxy_mode : {"inherit", "none", "proxy"}, proxy_id : Proxy \cup {NULL}]
      [] k = "example" ->
            [name : Text, body : {NoBody} \cup 1 .. MaxBody, body_size : 0 .. MaxBody]
      [] OTHER -> [name : Text]

\* What is sent: some columns, but not none.
Empty == [f \in {} |-> NULL]
Optional(f, S) == {Empty} \cup [{f} -> S]
Both(P, Q) == {[f \in DOMAIN p \cup DOMAIN q |->
                    IF f \in DOMAIN p THEN p[f] ELSE q[f]] : p \in P, q \in Q}

VariablePatch ==
    Both(Optional("name", Text),
         Both(Optional("type", {"regular", "secret"}),
              Optional("value", {NULL, "", "a"})))

\* auth.type is required; the other fields are kept unless they are sent.
parseAuthPatch ==
    {Empty} \cup Both([{"auth_type"} -> {"inherit", "bearer"}],
                      Optional("auth_value", Text))

\* The mode and the id are sent together: an id with mode "proxy" and only then.
\* ("global" is stored as "none" is.)
parseProxyPatch ==
    {Empty} \cup {p \in [proxy_mode : {"inherit", "none", "proxy"},
                         proxy_id : Proxy \cup {NULL}] :
                     p.proxy_mode = "proxy" <=> p.proxy_id # NULL}

\* A body of up to MaxBody bytes; an empty one is stored as NULL, with its size.
decodeExampleBody ==
    {Empty} \cup {[body |-> IF n = 0 THEN NoBody ELSE n, body_size |-> n] :
                     n \in 0 .. MaxBody}

Patches(k) ==
    (CASE k = "variable" -> VariablePatch
       [] k \in Nodes -> Both(parseAuthPatch, parseProxyPatch)
       [] k = "example" -> Both(Optional("name", Text), decodeExampleBody)
       [] OTHER -> Optional("name", Text)) \ {Empty}

NoCall == [sent |-> Empty, params |-> Empty]

TypeOK ==
    /\ kind \in Kinds
    /\ status \in {"unused", "live", "gone"}
    /\ row \in Columns(kind)
    /\ proxies \in SUBSET Proxy
    /\ pc \in [Handler -> {"idle", "write"}]
    /\ \A h \in Handler : pc[h] = "write" => call[h].sent \in Patches(kind)

-----------------------------------------------------------------------------
(* Rows come to be with these columns; nodes start with the defaults.      *)

\* A secret is created without a value, an empty one included.
NewVariable ==
    {r \in Columns("variable") : r.type = "secret" => r.value = NULL}

NewNode ==
    {r \in Columns("request") : r.auth_type = "inherit" /\ r.auth_value = "a"
                                /\ r.proxy_mode = "inherit" /\ r.proxy_id = NULL}

NewExample ==
    {r \in Columns("example") :
        r.body_size = (IF r.body = NoBody THEN 0 ELSE r.body)}

New(k) ==
    CASE k = "variable" -> NewVariable
      [] k \in Nodes -> NewNode
      [] k = "example" -> NewExample
      [] OTHER -> Columns(k)

Init ==
    /\ kind \in Kinds
    /\ status = "unused"
    /\ row \in New(kind)
    /\ proxies = Proxy
    /\ pc = [h \in Handler |-> "idle"]
    /\ call = [h \in Handler |-> NoCall]

Create ==
    /\ status = "unused" /\ status' = "live"
    /\ UNCHANGED <<kind, row, proxies, pc, call>>

\* By its own handler or by the cascade from its parent.
Delete ==
    /\ status = "live" /\ status' = "gone"
    /\ UNCHANGED <<kind, row, proxies, pc, call>>

-----------------------------------------------------------------------------
(* An update.                                                              *)

Fail(h) ==
    /\ pc' = [pc EXCEPT ![h] = "idle"]
    /\ call' = [call EXCEPT ![h] = NoCall]
    /\ UNCHANGED tables

\* A database error, or a name that the unique index refuses.
Abort(h) == pc[h] # "idle" /\ Fail(h)

\* Mutant: the handler fills in what was not sent from the row it has read.
WholeRow(patch) == [f \in DOMAIN row |-> IF f \in DOMAIN patch THEN patch[f] ELSE row[f]]

\* Only what was sent is passed on.
Params(patch) == patch

\* The access check reads the row; then the checks of what was sent.
Begin(h, k, allowed) ==
    /\ kind = k /\ pc[h] = "idle" /\ status = "live"
    /\ \E patch \in allowed :
          call' = [call EXCEPT ![h] = [sent |-> patch, params |-> Params(patch)]]
    /\ pc' = [pc EXCEPT ![h] = "write"]
    /\ UNCHANGED tables

\* A value is judged against the type sent or else the type read.
NoSecretValue(patch) ==
    LET finalType == IF "type" \in DOMAIN patch THEN patch.type ELSE row.type
    IN  ~(finalType = "secret" /\ "value" \in DOMAIN patch /\ patch.value = "a")

\* Mutant: the proxy has to exist, in whatever project.
ProxyExists(patch) ==
    "proxy_id" \in DOMAIN patch =>
        patch.proxy_id = NULL \/ patch.proxy_id \in proxies

requireProxyInProject(patch) ==
    "proxy_id" \in DOMAIN patch =>
        patch.proxy_id = NULL \/ patch.proxy_id \in proxies \cap OwnProxy

NodePatches(k) == {patch \in Patches(k) : requireProxyInProject(patch)}

handleUpdateTeam(h) == Begin(h, "team", Patches("team"))
handleUpdateProject(h) == Begin(h, "project", Patches("project"))
handleUpdateEnvironment(h) == Begin(h, "environment", Patches("environment"))
handleUpdateVariable(h) ==
    Begin(h, "variable", {patch \in Patches("variable") : NoSecretValue(patch)})
handleUpdateFolder(h) == Begin(h, "folder", NodePatches("folder"))
handleUpdateRequest(h) == Begin(h, "request", NodePatches("request"))
handleUpdateProxy(h) == Begin(h, "proxy", Patches("proxy"))
handleUpdateExample(h) == Begin(h, "example", Patches("example"))
handleUpdateWebhook(h) == Begin(h, "webhook", Patches("webhook"))

\* COALESCE and CASE WHEN set: a column that is not sent keeps its value.
Coalesce(p) == [f \in DOMAIN row |-> IF f \in DOMAIN p THEN p[f] ELSE row[f]]

\* Mutant: the value is dropped only when this update makes the variable secret.
MergedByPatch(p) ==
    IF "type" \in DOMAIN p /\ p.type = "secret"
    THEN [Coalesce(p) EXCEPT !.value = NULL] ELSE Coalesce(p)

\* CASE WHEN COALESCE(type sent, type) = 'secret' THEN NULL
MergedVariable(p) ==
    IF Coalesce(p).type = "secret" THEN [Coalesce(p) EXCEPT !.value = NULL]
    ELSE Coalesce(p)

Merged(p) == IF kind = "variable" THEN MergedVariable(p) ELSE Coalesce(p)

\* The table's CHECK constraints.
Checks(r) ==
    CASE kind = "variable" -> r.type = "secret" => r.value = NULL
      [] kind = "example" -> /\ r.body_size = (IF r.body = NoBody THEN 0 ELSE r.body)
                             /\ r.body_size <= MaxBody
      [] OTHER -> TRUE

\* The foreign key of folders and requests: a proxy that has gone is refused.
ProxyThere(p) ==
    "proxy_id" \in DOMAIN p => p.proxy_id = NULL \/ p.proxy_id \in proxies

Update(h, k) ==
    /\ kind = k /\ pc[h] = "write"
    /\ LET p == call[h].params
           accepted == status = "live" /\ ProxyThere(p) /\ Checks(Merged(p))
       IN  \/ /\ accepted
              /\ row' = Merged(p)
              /\ pc' = [pc EXCEPT ![h] = "idle"]
              /\ call' = [call EXCEPT ![h] = NoCall]
              /\ UNCHANGED <<kind, status, proxies>>
           \/ ~accepted /\ Fail(h)

UpdateTeamName(h) == Update(h, "team")
UpdateProjectName(h) == Update(h, "project")
UpdateEnvironmentName(h) == Update(h, "environment")
UpdateVariable(h) == Update(h, "variable")
UpdateFolder(h) == Update(h, "folder")
UpdateRequest(h) == Update(h, "request")
UpdateProxy(h) == Update(h, "proxy")
UpdateRequestExample(h) == Update(h, "example")
UpdateWebhookEndpoint(h) == Update(h, "webhook")

\* ON DELETE SET NULL: the mode stays "proxy".
DeleteProxy(x) ==
    /\ kind \in Nodes /\ x \in proxies
    /\ proxies' = proxies \ {x}
    /\ row' = IF row.proxy_id = x THEN [row EXCEPT !.proxy_id = NULL] ELSE row
    /\ UNCHANGED <<kind, status, pc, call>>

-----------------------------------------------------------------------------

Write(h) ==
    \/ UpdateTeamName(h) \/ UpdateProjectName(h) \/ UpdateEnvironmentName(h)
    \/ UpdateVariable(h) \/ UpdateFolder(h) \/ UpdateRequest(h)
    \/ UpdateProxy(h) \/ UpdateRequestExample(h) \/ UpdateWebhookEndpoint(h)

Next ==
    \/ Create \/ Delete
    \/ \E x \in Proxy : DeleteProxy(x)
    \/ \E h \in Handler :
          \/ handleUpdateTeam(h) \/ handleUpdateProject(h)
          \/ handleUpdateEnvironment(h) \/ handleUpdateVariable(h)
          \/ handleUpdateFolder(h) \/ handleUpdateRequest(h)
          \/ handleUpdateProxy(h) \/ handleUpdateExample(h)
          \/ handleUpdateWebhook(h)
          \/ Write(h) \/ Abort(h)

Spec == Init /\ [][Next]_vars

-----------------------------------------------------------------------------

\* No update that passed the handler's checks is left for the CHECK constraints
\* to refuse, whatever another update has made of the row since: above all a
\* value sent to a variable that has become secret is dropped, not stored and
\* not an error.
ChecksSuffice ==
    \A h \in Handler : pc[h] = "write" => Checks(Merged(call[h].params))

\* A node that does not use a proxy names none, and the proxy that one names is
\* there and of its own project, although proxies are deleted between the check
\* of an update and its write.
ProxySettingConsistent ==
    kind \in Nodes =>
        /\ row.proxy_mode # "proxy" => row.proxy_id = NULL
        /\ row.proxy_id # NULL => row.proxy_id \in proxies \cap OwnProxy

\* The columns that are settled by more than what was sent.
Derived(f) ==
    \/ f = "value" /\ row'.type = "secret" /\ row'.value = NULL
    \/ f = "proxy_id" /\ proxies' # proxies /\ row'.proxy_id = NULL

\* Two updates of different columns are both kept: a column changes only to what
\* an update has sent for it, and the columns that do not fit the auth type stay
\* for when the type is switched back.
UpdatesMerge ==
    [][\A f \in DOMAIN row :
          \/ row'[f] = row[f] \/ Derived(f)
          \/ \E h \in Handler : /\ pc[h] = "write" /\ f \in DOMAIN call[h].sent
                                /\ row'[f] = call[h].sent[f]]_vars

-----------------------------------------------------------------------------
(* The invariant behind them, which the proofs show to be inductive.       *)

\* A call passes on what was sent and checked.
CallsChecked ==
    /\ call = [h \in Handler |-> [sent |-> call[h].sent, params |-> call[h].params]]
    /\ \A h \in Handler : pc[h] = "write" =>
          LET p == call[h].sent
          IN  /\ call[h].params = p
              /\ "proxy_id" \in DOMAIN p => p.proxy_id \in OwnProxy \cup {NULL}

IInv == TypeOK /\ CallsChecked /\ Checks(row) /\ ProxySettingConsistent
=============================================================================
