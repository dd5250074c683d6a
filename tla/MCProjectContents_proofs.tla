----------------------- MODULE MCProjectContents_proofs -----------------------
(***************************************************************************)
(* What holds of the ordered lists and of partial updates for any sets of  *)
(* rows, proxies and handlers.  Each part is proved about on its own; the  *)
(* last section carries the results over to the specification that runs    *)
(* the parts one beside the other.                                         *)
(***************************************************************************)
EXTENDS MCProjectContents, WebhookEndpoints_proofs, Sequences, WellFoundedInduction

USE ContentsAssumption

-----------------------------------------------------------------------------
(* Partial updates: what a patch can hold.                                 *)

LEMMA VariableFields ==
    ASSUME NEW p \in Setting!Patches("variable")
    PROVE  /\ DOMAIN p \subseteq {"name", "type", "value"}
           /\ "name" \in DOMAIN p => p["name"] \in {"a", "b"}
           /\ "type" \in DOMAIN p => p["type"] \in {"regular", "secret"}
           /\ "value" \in DOMAIN p => p["value"] \in {"NULL", "", "a"}
<1> DEFINE T == Setting!Optional("type", {"regular", "secret"})
           V == Setting!Optional("value", {"NULL", "", "a"})
           N == Setting!Optional("name", Setting!Text)
           B == Setting!Both(T, V)
<1>1. p \in Setting!Both(N, B)
  BY DEF Setting!Patches, Setting!VariablePatch, Setting!NULL, Setting!Nodes
<1> HIDE DEF T, V, N, B
<1>2. PICK a \in N, b \in B :
              /\ DOMAIN p = DOMAIN a \cup DOMAIN b
              /\ \A f \in DOMAIN a : p[f] = a[f]
              /\ \A f \in DOMAIN b : f \in DOMAIN a \/ p[f] = b[f]
  BY <1>1 DEF Setting!Both
<1>5. b \in Setting!Both(T, V)
  BY <1>2 DEF B
<1>3. PICK c \in T, d \in V :
              /\ DOMAIN b = DOMAIN c \cup DOMAIN d
              /\ \A f \in DOMAIN c : b[f] = c[f]
              /\ \A f \in DOMAIN d : f \in DOMAIN c \/ b[f] = d[f]
  BY <1>5 DEF Setting!Both
<1>4. /\ \A g \in DOMAIN a : g = "name" /\ a[g] \in {"a", "b"}
      /\ \A g \in DOMAIN c : g = "type" /\ c[g] \in {"regular", "secret"}
      /\ \A g \in DOMAIN d : g = "value" /\ d[g] \in {"NULL", "", "a"}
  BY DEF T, V, N, Setting!Optional, Setting!Empty, Setting!Text
<1> QED
  BY <1>2, <1>3, <1>4

LEMMA NodeFields ==
    ASSUME NEW k \in Setting!Nodes, NEW p \in Setting!Patches(k)
    PROVE  /\ DOMAIN p \subseteq {"auth_type", "auth_value", "proxy_mode", "proxy_id"}
           /\ "auth_type" \in DOMAIN p => p["auth_type"] \in {"inherit", "bearer"}
           /\ "auth_value" \in DOMAIN p => p["auth_value"] \in {"a", "b"}
           /\ "proxy_mode" \in DOMAIN p => p["proxy_mode"] \in {"inherit", "none", "proxy"}
           /\ "proxy_id" \in DOMAIN p => p["proxy_id"] \in Proxy \cup {"NULL"}
           /\ "proxy_mode" \in DOMAIN p <=> "proxy_id" \in DOMAIN p
           /\ "proxy_id" \in DOMAIN p => (p["proxy_mode"] = "proxy" <=> p["proxy_id"] # "NULL")
<1> DEFINE T == [{"auth_type"} -> {"inherit", "bearer"}]
           V == Setting!Optional("auth_value", Setting!Text)
<1>1. p \in Setting!Both(Setting!parseAuthPatch, Setting!parseProxyPatch)
  BY DEF Setting!Patches, Setting!Nodes
<1> HIDE DEF T, V
<1>2. PICK a \in Setting!parseAuthPatch, b \in Setting!parseProxyPatch :
              /\ DOMAIN p = DOMAIN a \cup DOMAIN b
              /\ \A f \in DOMAIN a : p[f] = a[f]
              /\ \A f \in DOMAIN b : f \in DOMAIN a \/ p[f] = b[f]
  BY <1>1 DEF Setting!Both
<1>3. /\ DOMAIN a \subseteq {"auth_type", "auth_value"}
      /\ "auth_type" \in DOMAIN a => a["auth_type"] \in {"inherit", "bearer"}
      /\ "auth_value" \in DOMAIN a => a["auth_value"] \in {"a", "b"}
  <2>1. CASE a = Setting!Empty
    BY <2>1 DEF Setting!Empty
  <2>2. CASE a \in Setting!Both(T, V)
    <3>1. PICK c \in T, d \in V :
              /\ DOMAIN a = DOMAIN c \cup DOMAIN d
              /\ \A f \in DOMAIN c : a[f] = c[f]
              /\ \A f \in DOMAIN d : f \in DOMAIN c \/ a[f] = d[f]
      BY <2>2 DEF Setting!Both
    <3>2. /\ DOMAIN c = {"auth_type"} /\ c["auth_type"] \in {"inherit", "bearer"}
          /\ \A g \in DOMAIN d : g = "auth_value" /\ d[g] \in {"a", "b"}
      BY DEF T, V, Setting!Optional, Setting!Empty, Setting!Text
    <3> QED
      BY <3>1, <3>2
  <2> QED
    BY <2>1, <2>2 DEF Setting!parseAuthPatch, T, V
<1>4. \/ DOMAIN b = {}
      \/ /\ DOMAIN b = {"proxy_mode", "proxy_id"}
         /\ b["proxy_mode"] \in {"inherit", "none", "proxy"}
         /\ b["proxy_id"] \in Proxy \cup {"NULL"}
         /\ b["proxy_mode"] = "proxy" <=> b["proxy_id"] # "NULL"
  BY DEF Setting!parseProxyPatch, Setting!Empty, Setting!NULL
<1> QED
  BY <1>2, <1>3, <1>4

LEMMA ExampleFields ==
    ASSUME NEW p \in Setting!Patches("example")
    PROVE  /\ DOMAIN p \subseteq {"name", "body", "body_size"}
           /\ "name" \in DOMAIN p => p["name"] \in {"a", "b"}
           /\ "body" \in DOMAIN p <=> "body_size" \in DOMAIN p
           /\ "body" \in DOMAIN p =>
                 /\ p["body"] \in {-1} \cup 1 .. MaxBody
                 /\ p["body_size"] \in 0 .. MaxBody
                 /\ p["body_size"] = IF p["body"] = -1 THEN 0 ELSE p["body"]
<1> DEFINE N == Setting!Optional("name", Setting!Text)
<1>1. p \in Setting!Both(N, Setting!decodeExampleBody)
  BY DEF Setting!Patches, Setting!Nodes
<1> HIDE DEF N
<1>2. PICK a \in N, b \in Setting!decodeExampleBody :
              /\ DOMAIN p = DOMAIN a \cup DOMAIN b
              /\ \A f \in DOMAIN a : p[f] = a[f]
              /\ \A f \in DOMAIN b : f \in DOMAIN a \/ p[f] = b[f]
  BY <1>1 DEF Setting!Both
<1>3. \A g \in DOMAIN a : g = "name" /\ a[g] \in {"a", "b"}
  BY DEF N, Setting!Optional, Setting!Empty, Setting!Text
<1>4. \/ DOMAIN b = {}
      \/ /\ DOMAIN b = {"body", "body_size"}
         /\ b["body"] \in {-1} \cup 1 .. MaxBody
         /\ b["body_size"] \in 0 .. MaxBody
         /\ b["body_size"] = IF b["body"] = -1 THEN 0 ELSE b["body"]
  BY DEF Setting!decodeExampleBody, Setting!Empty, Setting!NoBody
<1> QED
  BY <1>2, <1>3, <1>4

LEMMA OtherFields ==
    ASSUME NEW k \in {"team", "project", "environment", "proxy", "webhook"},
           NEW p \in Setting!Patches(k)
    PROVE  DOMAIN p \subseteq {"name"} /\ ("name" \in DOMAIN p => p["name"] \in {"a", "b"})
<1>1. p \in Setting!Optional("name", Setting!Text)
  BY DEF Setting!Patches, Setting!Nodes
<1> QED
  BY <1>1 DEF Setting!Optional, Setting!Empty, Setting!Text

-----------------------------------------------------------------------------
(* What an update makes of a row.                                          *)

LEMMA KindCases ==
    ASSUME NEW k \in Setting!Kinds
    PROVE  \/ k = "variable" \/ k = "example" \/ k \in Setting!Nodes
           \/ k \in {"team", "project", "environment", "proxy", "webhook"}
  BY DEF Setting!Kinds, Setting!Nodes

\* A patch laid over a row of its kind is a row of that kind.
LEMMA CoalesceTyped ==
    ASSUME Setting!TypeOK, NEW p \in Setting!Patches(rowKind)
    PROVE  Setting!Coalesce(p) \in Setting!Columns(rowKind)
<1> DEFINE q == Setting!Coalesce(p)
<1>0. row \in Setting!Columns(rowKind)
  BY DEF Setting!TypeOK
<1>1. CASE rowKind = "variable"
  BY <1>0, <1>1, VariableFields
     DEF Setting!Coalesce, Setting!Columns, Setting!Text, Setting!NULL, Setting!Nodes
<1>2. CASE rowKind \in Setting!Nodes
  BY <1>0, <1>2, NodeFields
     DEF Setting!Coalesce, Setting!Columns, Setting!Text, Setting!NULL, Setting!Nodes
<1>3. CASE rowKind = "example"
  BY <1>0, <1>3, ExampleFields
     DEF Setting!Coalesce, Setting!Columns, Setting!Text, Setting!NoBody, Setting!Nodes
<1>4. CASE rowKind \in {"team", "project", "environment", "proxy", "webhook"}
  BY <1>0, <1>4, OtherFields
     DEF Setting!Coalesce, Setting!Columns, Setting!Text, Setting!Nodes
<1> QED
  BY <1>1, <1>2, <1>3, <1>4, KindCases DEF Setting!TypeOK

LEMMA MergedTyped ==
    ASSUME Setting!TypeOK, NEW p \in Setting!Patches(rowKind)
    PROVE  Setting!Merged(p) \in Setting!Columns(rowKind)
<1>1. CASE rowKind = "variable"
  BY <1>1, CoalesceTyped
     DEF Setting!Merged, Setting!MergedVariable, Setting!Columns, Setting!NULL, Setting!Nodes
<1>2. CASE rowKind # "variable"
  BY <1>2, CoalesceTyped DEF Setting!Merged
<1> QED
  BY <1>1, <1>2

\* No patch, however stale the row its handler saw, breaks a CHECK constraint.
LEMMA MergedChecks ==
    ASSUME Setting!TypeOK, Setting!Checks(row), NEW p \in Setting!Patches(rowKind)
    PROVE  Setting!Checks(Setting!Merged(p))
<1>0. /\ row \in Setting!Columns(rowKind)
      /\ Setting!Coalesce(p) \in Setting!Columns(rowKind)
  BY CoalesceTyped DEF Setting!TypeOK
<1>1. CASE rowKind = "variable"
  BY <1>0, <1>1
     DEF Setting!Checks, Setting!Merged, Setting!MergedVariable, Setting!Columns, Setting!Nodes
<1>2. CASE rowKind = "example"
  <2>1. Setting!Merged(p) = Setting!Coalesce(p)
    BY <1>2 DEF Setting!Merged
  <2>2. row \in [name : {"a", "b"}, body : {-1} \cup 1 .. MaxBody, body_size : 0 .. MaxBody]
    BY <1>0, <1>2 DEF Setting!Columns, Setting!Text, Setting!NoBody, Setting!Nodes
  <2>3. row.body_size = IF row.body = -1 THEN 0 ELSE row.body
    BY <1>2 DEF Setting!Checks, Setting!NoBody
  <2>4. /\ Setting!Coalesce(p).body_size \in 0 .. MaxBody
        /\ Setting!Coalesce(p).body_size =
              IF Setting!Coalesce(p).body = -1 THEN 0 ELSE Setting!Coalesce(p).body
    BY <1>2, <2>2, <2>3, ExampleFields DEF Setting!Coalesce
  <2> QED
    BY <1>2, <2>1, <2>4 DEF Setting!Checks, Setting!NoBody
<1>3. CASE rowKind \notin {"variable", "example"}
  BY <1>3 DEF Setting!Checks
<1> QED
  BY <1>1, <1>2, <1>3

\* Nor does one make a node name a proxy that is not there, or one it has no use for.
LEMMA MergedProxy ==
    ASSUME Setting!TypeOK, Setting!ProxySettingConsistent,
           NEW p \in Setting!Patches(rowKind), Setting!ProxyThere(p), rowKind \in Setting!Nodes,
           "proxy_id" \in DOMAIN p => p.proxy_id \in OwnProxy \cup {"NULL"}
    PROVE  LET r == Setting!Merged(p)
           IN  /\ r.proxy_mode # "proxy" => r.proxy_id = "NULL"
               /\ r.proxy_id # "NULL" => r.proxy_id \in proxies \cap OwnProxy
<1>1. Setting!Merged(p) = Setting!Coalesce(p)
  BY DEF Setting!Merged, Setting!Nodes
<1>2. row \in [auth_type : {"inherit", "bearer"}, auth_value : {"a", "b"},
               proxy_mode : {"inherit", "none", "proxy"}, proxy_id : Proxy \cup {"NULL"}]
  BY DEF Setting!TypeOK, Setting!Columns, Setting!Text, Setting!NULL, Setting!Nodes
<1>3. /\ row.proxy_mode # "proxy" => row.proxy_id = "NULL"
      /\ row.proxy_id # "NULL" => row.proxy_id \in proxies \cap OwnProxy
  BY DEF Setting!ProxySettingConsistent, Setting!NULL
<1>4. CASE "proxy_id" \in DOMAIN p
  BY <1>1, <1>2, <1>4, NodeFields DEF Setting!Coalesce, Setting!ProxyThere, Setting!NULL
<1>5. CASE "proxy_id" \notin DOMAIN p
  BY <1>1, <1>2, <1>3, <1>5, NodeFields DEF Setting!Coalesce
<1> QED
  BY <1>4, <1>5

LEMMA SettingInit == Setting!Init => Setting!IInv
<1> SUFFICES ASSUME Setting!Init PROVE Setting!IInv
  OBVIOUS
<1>1. row \in Setting!Columns(rowKind) /\ Setting!Checks(row)
  <2>1. row \in Setting!New(rowKind) /\ rowKind \in Setting!Kinds
    BY DEF Setting!Init
  <2>2. CASE rowKind = "example"
    <3>1. /\ row \in [name : Setting!Text, body : {Setting!NoBody} \cup 1 .. MaxBody,
                      body_size : 0 .. MaxBody]
          /\ row.body_size = IF row.body = Setting!NoBody THEN 0 ELSE row.body
      BY <2>1, <2>2 DEF Setting!New, Setting!NewExample, Setting!Columns, Setting!Nodes
    <3> QED
      BY <2>2, <3>1 DEF Setting!Columns, Setting!Checks, Setting!Nodes
  <2>3. CASE rowKind # "example"
    BY <2>1, <2>3
       DEF Setting!New, Setting!NewVariable, Setting!NewNode, Setting!Columns,
           Setting!Checks, Setting!Nodes
  <2> QED
    BY <2>2, <2>3
<1>2. Setting!TypeOK
  BY <1>1 DEF Setting!Init, Setting!TypeOK
<1>3. Setting!CallsChecked
  BY DEF Setting!Init, Setting!CallsChecked, Setting!NoCall
<1>4. Setting!ProxySettingConsistent
  BY DEF Setting!Init, Setting!New, Setting!NewNode, Setting!Nodes,
         Setting!ProxySettingConsistent
<1> QED
  BY <1>1, <1>2, <1>3, <1>4 DEF Setting!IInv

\* A call that ends, or one that fails, leaves what is known of the others.
LEMMA SettingEnds ==
    ASSUME Setting!IInv, NEW h \in Handler,
           rowPc' = [rowPc EXCEPT ![h] = "idle"], rowKind' = rowKind,
           rowCall' = [rowCall EXCEPT ![h] = Setting!NoCall]
    PROVE  /\ Setting!CallsChecked'
           /\ rowPc' \in [Handler -> {"idle", "write"}]
           /\ \A g \in Handler : rowPc'[g] = "write" =>
                 rowCall'[g].sent \in Setting!Patches(rowKind)
<1>1. \A g \in Handler : rowPc'[g] = "write" => rowPc[g] = "write" /\ rowCall'[g] = rowCall[g]
  BY DEF Setting!IInv, Setting!TypeOK, Setting!CallsChecked
<1>2. Setting!CallsChecked'
  BY <1>1 DEF Setting!IInv, Setting!CallsChecked, Setting!NoCall
<1> QED
  BY <1>1, <1>2 DEF Setting!IInv, Setting!TypeOK

LEMMA SettingFails ==
    ASSUME Setting!IInv, NEW h \in Handler, Setting!Fail(h)
    PROVE  Setting!IInv'
<1>1. UNCHANGED <<rowKind, rowStatus, row, proxies>>
  BY DEF Setting!Fail, Setting!tables
<1>2. /\ Setting!CallsChecked'
      /\ rowPc' \in [Handler -> {"idle", "write"}]
      /\ \A g \in Handler : rowPc'[g] = "write" =>
            rowCall'[g].sent \in Setting!Patches(rowKind)
  BY <1>1, SettingEnds DEF Setting!Fail
<1>3. Setting!TypeOK' /\ Setting!Checks(row)' /\ Setting!ProxySettingConsistent'
  BY <1>1, <1>2
     DEF Setting!IInv, Setting!TypeOK, Setting!Checks, Setting!ProxySettingConsistent
<1> QED
  BY <1>2, <1>3 DEF Setting!IInv

LEMMA SettingBegins ==
    ASSUME Setting!IInv, NEW h \in Handler, NEW k, NEW A \in SUBSET Setting!Patches(k),
           Setting!Begin(h, k, A),
           \A p \in A : "proxy_id" \in DOMAIN p => p.proxy_id \in OwnProxy \cup {"NULL"}
    PROVE  Setting!IInv'
<1>1. PICK p \in A : rowCall' = [rowCall EXCEPT ![h] = [sent |-> p, params |-> p]]
  BY DEF Setting!Begin, Setting!Params
<1>2. /\ UNCHANGED <<rowKind, rowStatus, row, proxies>> /\ rowKind = k
      /\ rowPc' = [rowPc EXCEPT ![h] = "write"]
  BY DEF Setting!Begin, Setting!tables
<1>3. \A g \in Handler \ {h} : rowCall'[g] = rowCall[g] /\ rowPc'[g] = rowPc[g]
  BY <1>1, <1>2 DEF Setting!IInv, Setting!TypeOK, Setting!CallsChecked
<1>4. rowCall'[h] = [sent |-> p, params |-> p]
  BY <1>1 DEF Setting!IInv, Setting!CallsChecked
<1>5. Setting!CallsChecked'
  <2>1. rowCall' = [g \in Handler |-> [sent |-> rowCall'[g].sent, params |-> rowCall'[g].params]]
    BY <1>1, <1>3, <1>4 DEF Setting!IInv, Setting!CallsChecked
  <2> QED
    BY <1>2, <1>3, <1>4, <2>1 DEF Setting!IInv, Setting!CallsChecked, Setting!NULL
<1>6. Setting!TypeOK'
  BY <1>2, <1>3, <1>4 DEF Setting!IInv, Setting!TypeOK
<1>7. Setting!Checks(row)' /\ Setting!ProxySettingConsistent'
  BY <1>2 DEF Setting!IInv, Setting!Checks, Setting!ProxySettingConsistent
<1> QED
  BY <1>5, <1>6, <1>7 DEF Setting!IInv

LEMMA SettingUpdates ==
    ASSUME Setting!IInv, NEW h \in Handler, NEW k, Setting!Update(h, k)
    PROVE  Setting!IInv'
<1> DEFINE p == rowCall[h].params
           accepted == /\ rowStatus = "live" /\ Setting!ProxyThere(p)
                       /\ Setting!Checks(Setting!Merged(p))
<1>1. CASE accepted
  <2>1. /\ row' = Setting!Merged(p) /\ UNCHANGED <<rowKind, rowStatus, proxies>>
        /\ rowPc' = [rowPc EXCEPT ![h] = "idle"] /\ rowPc[h] = "write"
        /\ rowCall' = [rowCall EXCEPT ![h] = Setting!NoCall]
    BY <1>1 DEF Setting!Update
  <2>2. /\ p \in Setting!Patches(rowKind)
        /\ "proxy_id" \in DOMAIN p => p.proxy_id \in OwnProxy \cup {"NULL"}
    BY <2>1 DEF Setting!IInv, Setting!TypeOK, Setting!CallsChecked, Setting!NULL
  <2>3. /\ Setting!CallsChecked'
        /\ rowPc' \in [Handler -> {"idle", "write"}]
        /\ \A g \in Handler : rowPc'[g] = "write" =>
              rowCall'[g].sent \in Setting!Patches(rowKind)
    BY <2>1, SettingEnds
  <2>4. Setting!TypeOK'
    <3>1. row' \in Setting!Columns(rowKind)
      BY <2>1, <2>2, MergedTyped DEF Setting!IInv
    <3> QED
      BY <2>1, <2>3, <3>1 DEF Setting!IInv, Setting!TypeOK
  <2>5. Setting!Checks(row)'
    BY <1>1, <2>1 DEF Setting!Checks
  <2>6. Setting!ProxySettingConsistent'
    BY <1>1, <2>1, <2>2, MergedProxy
       DEF Setting!IInv, Setting!ProxySettingConsistent, Setting!NULL
  <2> QED
    BY <2>3, <2>4, <2>5, <2>6 DEF Setting!IInv
<1>2. CASE ~accepted
  BY <1>2, SettingFails DEF Setting!Update
<1> QED
  BY <1>1, <1>2

LEMMA SettingInductive == Setting!IInv /\ [Setting!Next]_(Setting!vars) => Setting!IInv'
<1> SUFFICES ASSUME Setting!IInv, [Setting!Next]_(Setting!vars) PROVE Setting!IInv'
  OBVIOUS
<1>1. CASE Setting!Create \/ Setting!Delete
  BY <1>1 DEF Setting!Create, Setting!Delete, Setting!IInv, Setting!TypeOK,
              Setting!CallsChecked, Setting!Checks, Setting!ProxySettingConsistent
<1>2. ASSUME NEW x \in Proxy, Setting!DeleteProxy(x) PROVE Setting!IInv'
  <2>1. /\ rowKind \in Setting!Nodes /\ proxies' = proxies \ {x}
        /\ UNCHANGED <<rowKind, rowStatus, rowPc, rowCall>>
        /\ row' = IF row.proxy_id = x THEN [row EXCEPT !.proxy_id = "NULL"] ELSE row
    BY <1>2 DEF Setting!DeleteProxy, Setting!NULL
  <2>2. row \in [auth_type : {"inherit", "bearer"}, auth_value : {"a", "b"},
                 proxy_mode : {"inherit", "none", "proxy"}, proxy_id : Proxy \cup {"NULL"}]
    BY <2>1 DEF Setting!IInv, Setting!TypeOK, Setting!Columns, Setting!Text, Setting!NULL,
                Setting!Nodes
  <2>3. row' \in Setting!Columns(rowKind)
    BY <2>1, <2>2 DEF Setting!Columns, Setting!Text, Setting!NULL, Setting!Nodes
  <2>4. Setting!TypeOK'
    BY <2>1, <2>3 DEF Setting!IInv, Setting!TypeOK
  <2>5. Setting!ProxySettingConsistent'
    BY <2>1, <2>2 DEF Setting!IInv, Setting!ProxySettingConsistent, Setting!NULL
  <2>6. Setting!Checks(row)' /\ Setting!CallsChecked'
    BY <2>1 DEF Setting!IInv, Setting!Checks, Setting!CallsChecked, Setting!Nodes
  <2> QED
    BY <2>4, <2>5, <2>6 DEF Setting!IInv
<1>3. ASSUME NEW h \in Handler,
             \/ Setting!handleUpdateTeam(h) \/ Setting!handleUpdateProject(h)
             \/ Setting!handleUpdateEnvironment(h) \/ Setting!handleUpdateVariable(h)
             \/ Setting!handleUpdateProxy(h) \/ Setting!handleUpdateExample(h)
             \/ Setting!handleUpdateWebhook(h)
      PROVE  Setting!IInv'
  <2>1. PICK k \in Setting!Kinds \ Setting!Nodes :
           \E A \in SUBSET Setting!Patches(k) : Setting!Begin(h, k, A)
    BY <1>3 DEF Setting!handleUpdateTeam, Setting!handleUpdateProject,
                Setting!handleUpdateEnvironment, Setting!handleUpdateVariable,
                Setting!handleUpdateProxy, Setting!handleUpdateExample,
                Setting!handleUpdateWebhook, Setting!Kinds, Setting!Nodes
  <2>2. \A p \in Setting!Patches(k) : "proxy_id" \notin DOMAIN p
    BY <2>1, KindCases, VariableFields, ExampleFields, OtherFields
  <2> QED
    BY <2>1, <2>2, SettingBegins
<1>4. ASSUME NEW h \in Handler,
             Setting!handleUpdateFolder(h) \/ Setting!handleUpdateRequest(h)
      PROVE  Setting!IInv'
  <2>1. PICK k \in Setting!Nodes : Setting!Begin(h, k, Setting!NodePatches(k))
    BY <1>4 DEF Setting!handleUpdateFolder, Setting!handleUpdateRequest, Setting!Nodes
  <2>2. /\ Setting!NodePatches(k) \in SUBSET Setting!Patches(k)
        /\ \A p \in Setting!NodePatches(k) :
              "proxy_id" \in DOMAIN p => p.proxy_id \in OwnProxy \cup {"NULL"}
    BY DEF Setting!NodePatches, Setting!requireProxyInProject, Setting!NULL
  <2> QED
    BY <2>1, <2>2, SettingBegins
<1>5. ASSUME NEW h \in Handler, Setting!Write(h) PROVE Setting!IInv'
  BY <1>5, SettingUpdates
     DEF Setting!Write, Setting!UpdateTeamName, Setting!UpdateProjectName,
         Setting!UpdateEnvironmentName, Setting!UpdateVariable, Setting!UpdateFolder,
         Setting!UpdateRequest, Setting!UpdateProxy, Setting!UpdateRequestExample,
         Setting!UpdateWebhookEndpoint
<1>6. ASSUME NEW h \in Handler, Setting!Abort(h) PROVE Setting!IInv'
  BY <1>6, SettingFails DEF Setting!Abort
<1>7. CASE UNCHANGED Setting!vars
  BY <1>7 DEF Setting!vars, Setting!tables, Setting!IInv, Setting!TypeOK,
              Setting!CallsChecked, Setting!Checks, Setting!ProxySettingConsistent
<1> QED
  BY <1>1, <1>2, <1>3, <1>4, <1>5, <1>6, <1>7 DEF Setting!Next

\* An update writes what its patch says, and drops the value of a secret.
LEMMA UpdateMerges ==
    ASSUME Setting!IInv, NEW h \in Handler, NEW k, Setting!Update(h, k), NEW f \in DOMAIN row
    PROVE  \/ row'[f] = row[f]
           \/ f = "value" /\ row'.type = "secret" /\ row'.value = "NULL"
           \/ /\ rowPc[h] = "write" /\ f \in DOMAIN rowCall[h].sent
              /\ row'[f] = rowCall[h].sent[f]
<1> DEFINE p == rowCall[h].sent
<1>1. CASE Setting!Fail(h)
  BY <1>1 DEF Setting!Fail, Setting!tables
<1>2. CASE row' = Setting!Merged(rowCall[h].params)
  <2>1. rowPc[h] = "write" /\ p \in Setting!Patches(rowKind) /\ row' = Setting!Merged(p)
    BY <1>2 DEF Setting!Update, Setting!IInv, Setting!TypeOK, Setting!CallsChecked
  <2>2. Setting!Coalesce(p)[f] = IF f \in DOMAIN p THEN p[f] ELSE row[f]
    BY DEF Setting!Coalesce
  <2>3. CASE row' = Setting!Coalesce(p)
    BY <2>1, <2>2, <2>3
  <2>4. CASE row' # Setting!Coalesce(p)
    <3>1. /\ rowKind = "variable"
          /\ row' = [Setting!Coalesce(p) EXCEPT !.value = "NULL"]
          /\ Setting!Coalesce(p).type = "secret"
      BY <2>1, <2>4 DEF Setting!Merged, Setting!MergedVariable, Setting!NULL
    <3>2. Setting!Coalesce(p) \in [name : {"a", "b"}, type : {"regular", "secret"},
                                   value : {"NULL", "", "a"}]
      BY <2>1, <3>1, CoalesceTyped
         DEF Setting!IInv, Setting!Columns, Setting!Text, Setting!NULL, Setting!Nodes
    <3>3. row'.type = "secret" /\ row'.value = "NULL"
      BY <3>1, <3>2
    <3>4. f # "value" => row'[f] = Setting!Coalesce(p)[f]
      <4>1. f \in DOMAIN Setting!Coalesce(p)
        BY DEF Setting!Coalesce
      <4> QED
        BY <3>1, <4>1
    <3> QED
      BY <2>1, <2>2, <3>3, <3>4
  <2> QED
    BY <2>3, <2>4
<1> QED
  BY <1>1, <1>2 DEF Setting!Update

-----------------------------------------------------------------------------
(* Ordered lists: sequences of distinct rows, and positions.               *)

\* The lists' module counts as this one does.
LEMMA ListCardinality == \A S : List!Cardinality(S) = Cardinality(S)
  BY Zenon DEF Cardinality, List!Cardinality

LEMMA ListMember ==
    ASSUME NEW S, NEW s
    PROVE  s \in List!Lists(S) <=>
              \E n \in 0 .. Cardinality(S) :
                 s \in [1 .. n -> S] /\ \A i, j \in 1 .. n : s[i] = s[j] => i = j
  BY ListCardinality DEF List!Lists

\* A list of distinct rows is as long as the set of its rows is large.
LEMMA ListShape ==
    ASSUME NEW S \in SUBSET Row, NEW s \in List!Lists(S)
    PROVE  /\ Len(s) \in Nat /\ DOMAIN s = 1 .. Len(s) /\ s \in [1 .. Len(s) -> S]
           /\ \A i, j \in 1 .. Len(s) : s[i] = s[j] => i = j
           /\ List!Rows(s) \subseteq S
           /\ Len(s) = Cardinality(List!Rows(s)) /\ Len(s) <= Cardinality(S)
           /\ Len(s) = Cardinality(S) => List!Rows(s) = S
<1>1. IsFiniteSet(S) /\ Cardinality(S) \in Nat
  BY FS_Subset, FS_CardinalityType
<1>2. PICK n \in 0 .. Cardinality(S) :
              s \in [1 .. n -> S] /\ \A i, j \in 1 .. n : s[i] = s[j] => i = j
  BY ListMember
<1>3. /\ n \in Nat /\ Len(s) = n /\ DOMAIN s = 1 .. n /\ s \in [1 .. n -> S]
      /\ \A i, j \in 1 .. n : s[i] = s[j] => i = j
  BY <1>1, <1>2
<1>4. List!Rows(s) \subseteq S
  BY <1>3 DEF List!Rows
<1>5. s \in Bijection(1 .. n, List!Rows(s))
  <2>1. s \in [1 .. n -> List!Rows(s)] /\ \A r \in List!Rows(s) : \E i \in 1 .. n : s[i] = r
    BY <1>3 DEF List!Rows
  <2>2. s \in Injection(1 .. n, List!Rows(s))
    BY <1>3, <2>1 DEF Injection, IsInjective
  <2> QED
    BY <2>1, <2>2 DEF Bijection, Surjection
<1>6. IsFiniteSet(1 .. n) /\ Cardinality(1 .. n) = n
  BY <1>3, FS_Interval
<1>7. Cardinality(List!Rows(s)) = n
  BY <1>5, <1>6, FS_Bijection DEF ExistsBijection
<1>8. n <= Cardinality(S) /\ (n = Cardinality(S) => List!Rows(s) = S)
  BY <1>1, <1>4, <1>7, FS_Subset
<1> QED
  BY <1>3, <1>4, <1>7, <1>8

LEMMA SmallerLists ==
    ASSUME NEW S \in SUBSET Row, NEW T \in SUBSET S
    PROVE  List!Lists(T) \subseteq List!Lists(S)
<1>1. /\ IsFiniteSet(S) /\ Cardinality(S) \in Nat
      /\ Cardinality(T) \in Nat /\ Cardinality(T) <= Cardinality(S)
  BY FS_Subset, FS_CardinalityType
<1>2. ASSUME NEW s \in List!Lists(T) PROVE s \in List!Lists(S)
  <2>1. /\ Len(s) \in 0 .. Cardinality(S) /\ s \in [1 .. Len(s) -> S]
        /\ \A i, j \in 1 .. Len(s) : s[i] = s[j] => i = j
    BY <1>1, ListShape
  <2> QED
    BY <2>1, ListMember
<1> QED
  BY <1>2

LEMMA EmptyList == <<>> \in List!Lists(Row) /\ List!Rows(<<>>) = {}
<1> DEFINE e == <<>>
<1>1. e \in [1 .. 0 -> Row] /\ DOMAIN e = {}
  OBVIOUS
<1> HIDE DEF e
<1>2. 0 \in 0 .. Cardinality(Row) /\ \A i, j \in 1 .. 0 : e[i] = e[j] => i = j
  BY FS_CardinalityType
<1>3. e \in List!Lists(Row)
  BY <1>1, <1>2, ListMember
<1>4. List!Rows(e) = {}
  BY <1>1 DEF List!Rows
<1> QED
  BY <1>3, <1>4 DEF e

LEMMA SequenceIsFunction ==
    ASSUME NEW S, NEW s \in Seq(S)
    PROVE  s \in [1 .. Len(s) -> S]
  OBVIOUS

\* What is left of a list without its first row.
LEMMA RestOfList ==
    ASSUME NEW s \in List!Lists(Row), s # <<>>
    PROVE  /\ Tail(s) \in List!Lists(Row)
           /\ List!Rows(s) = {Head(s)} \cup List!Rows(Tail(s))
           /\ Head(s) \in Row
<1>1. /\ Len(s) \in Nat /\ DOMAIN s = 1 .. Len(s) /\ s \in [1 .. Len(s) -> Row]
      /\ \A i, j \in 1 .. Len(s) : s[i] = s[j] => i = j
      /\ Len(s) <= Cardinality(Row) /\ Cardinality(Row) \in Nat
  BY ListShape, FS_CardinalityType
<1>2. s \in Seq(Row) /\ Len(s) # 0
  BY <1>1
<1>3. /\ Head(s) = s[1] /\ Len(Tail(s)) = Len(s) - 1
      /\ \A i \in 1 .. Len(s) - 1 : Tail(s)[i] = s[i + 1]
      /\ Tail(s) \in Seq(Row)
  BY <1>2
<1>4. Tail(s) \in List!Lists(Row)
  <2>1. Tail(s) \in [1 .. Len(s) - 1 -> Row] /\ Len(s) - 1 \in 0 .. Cardinality(Row)
    <3>1. Tail(s) \in [1 .. Len(Tail(s)) -> Row]
      BY <1>3, SequenceIsFunction
    <3>2. Len(s) - 1 \in 0 .. Cardinality(Row)
      BY <1>1, <1>2
    <3> QED
      BY <1>3, <3>1, <3>2
  <2>2. \A i, j \in 1 .. Len(s) - 1 : Tail(s)[i] = Tail(s)[j] => i = j
    <3> SUFFICES ASSUME NEW i \in 1 .. Len(s) - 1, NEW j \in 1 .. Len(s) - 1, s[i + 1] = s[j + 1]
                 PROVE  i = j
      BY <1>3
    <3>1. i + 1 \in 1 .. Len(s) /\ j + 1 \in 1 .. Len(s) /\ i \in Int /\ j \in Int
      BY <1>1
    <3>2. i + 1 = j + 1
      BY <1>1, <3>1
    <3> QED
      BY <3>1, <3>2
  <2> QED
    BY <2>1, <2>2, ListMember
<1>5. List!Rows(s) = {Head(s)} \cup List!Rows(Tail(s))
  <2>1. DOMAIN Tail(s) = 1 .. Len(s) - 1
    BY <1>3
  <2>2. \A i \in 1 .. Len(s) : i = 1 \/ i - 1 \in 1 .. Len(s) - 1
    BY <1>1
  <2>3. \A r : r \in List!Rows(Tail(s)) => r \in List!Rows(s)
    BY <1>1, <1>3, <2>1 DEF List!Rows
  <2>4. \A r \in List!Rows(s) : r = Head(s) \/ r \in List!Rows(Tail(s))
    <3> SUFFICES ASSUME NEW i \in 1 .. Len(s), i # 1 PROVE s[i] \in List!Rows(Tail(s))
      BY <1>1, <1>3 DEF List!Rows
    <3>1. i - 1 \in 1 .. Len(s) - 1 /\ Tail(s)[i - 1] = s[i]
      BY <1>1, <1>3
    <3> QED
      BY <2>1, <3>1 DEF List!Rows
  <2>5. Head(s) \in List!Rows(s)
    BY <1>1, <1>2, <1>3 DEF List!Rows
  <2> QED
    BY <2>3, <2>4, <2>5
<1> QED
  BY <1>1, <1>2, <1>3, <1>4, <1>5

\* Every row of a list has one position in it.
LEMMA PositionInList ==
    ASSUME NEW S \in SUBSET Row, NEW s \in List!Lists(S), NEW r \in List!Rows(s)
    PROVE  /\ List!Position(s, r) \in 1 .. Len(s) /\ s[List!Position(s, r)] = r
           /\ \A i \in 1 .. Len(s) : s[i] = r => List!Position(s, r) = i
<1>1. DOMAIN s = 1 .. Len(s) /\ \A i, j \in 1 .. Len(s) : s[i] = s[j] => i = j
  BY ListShape
<1>2. \E i \in DOMAIN s : s[i] = r
  BY DEF List!Rows
<1>3. List!Position(s, r) \in DOMAIN s /\ s[List!Position(s, r)] = r
  BY <1>2 DEF List!Position
<1> QED
  BY <1>1, <1>3

\* Appending takes a position beyond all others.
LEMMA AppendIsBeyond ==
    ASSUME List!TypeOK, NEW n \in Nat, \A r \in Row : order[r] <= n
    PROVE  /\ List!Append1 \in 0 .. n + 1
           /\ \A r \in List!Live : order[r] < List!Append1
<1> DEFINE D == {n - order[r] : r \in List!Live}
<1>0. \A r \in Row : order[r] \in Nat
  BY DEF List!TypeOK
<1>1. CASE List!Live = {}
  BY <1>1 DEF List!Append1
<1>2. CASE List!Live # {}
  <2>1. D \in SUBSET Nat /\ D # {}
    BY <1>0, <1>2 DEF List!Live
  <2>2. PICK d \in D : \A e \in D : ~(e < d)
    <3>1. \E d \in D : \A e \in D : <<e, d>> \notin OpToRel(<, Nat)
      BY <2>1, WFMin, NatLessThanWellFounded
    <3> QED
      BY <2>1, <3>1 DEF OpToRel
  <2>3. PICK q \in List!Live : d = n - order[q]
    OBVIOUS
  <2>4. \A r \in List!Live : order[r] <= order[q]
    <3> SUFFICES ASSUME NEW r \in List!Live PROVE order[r] <= order[q]
      OBVIOUS
    <3>1. ~(n - order[r] < d)
      BY <2>2
    <3> QED
      BY <1>0, <2>3, <3>1 DEF List!Live
  <2>5. \E m \in {order[r] : r \in List!Live} : \A r \in List!Live : order[r] <= m
    BY <2>4
  <2> DEFINE m == CHOOSE m \in {order[r] : r \in List!Live} :
                      \A r \in List!Live : order[r] <= m
  <2>6. m \in {order[r] : r \in List!Live} /\ \A r \in List!Live : order[r] <= m
    BY <2>5
  <2>7. List!Append1 = 1 + m
    BY <1>2 DEF List!Append1
  <2> HIDE DEF m
  <2> QED
    BY <1>0, <2>6, <2>7 DEF List!Live
<1> QED
  BY <1>1, <1>2

-----------------------------------------------------------------------------
(* Ordered lists: the invariant.                                           *)

Calls == [list : List!Lists(Row), next : 0 .. Cardinality(Row) + 1,
          todo : List!Lists(Row), held : SUBSET Row, stale : BOOLEAN]

Labels == {"idle", "max", "insert", "read", "lock", "write", "delete", "cascade"}

\* The rows on which a call c that stands at statement l has locks.
LocksAt(l, c) == IF listKind = "project" /\ l = "lock" THEN {} ELSE c.held

\* What the invariant says of a call c that stands at statement l.
Knows(l, c) ==
    /\ l \in {"idle", "max", "read", "delete"} => c = List!NoCall
    /\ c.next <= Cardinality(List!Used) + 1
    /\ c.held \subseteq List!Used
    /\ LocksAt(l, c) \subseteq List!Live
    /\ l = "write" => IF listKind = "project" THEN List!Rows(c.list) \subseteq List!Used
                     ELSE List!Rows(c.list) = c.held
    /\ ~c.stale =>
          /\ l = "insert" => \A r \in List!Live : order[r] < c.next
          /\ l = "lock" => List!Live \subseteq c.held \cup List!Rows(c.todo)
          /\ l = "write" => List!Live \subseteq List!Rows(c.list)

\* No row is locked by two calls.
LocksApart ==
    \A g, h \in Handler :
        g # h => LocksAt(listPc[g], listCall[g]) \cap LocksAt(listPc[h], listCall[h]) = {}

\* What it says of the tables.
TablesFit ==
    /\ listKind \in List!Kinds /\ parent \in BOOLEAN /\ tied \in BOOLEAN
    /\ listStatus \in [Row -> {"unused", "live", "gone"}]
    /\ order \in [Row -> 0 .. Cardinality(Row)]
    /\ \A r \in Row : order[r] <= Cardinality(List!Used)
    /\ List!TiesComeFromOverlap

ListInv ==
    /\ TablesFit
    /\ listPc \in [Handler -> Labels] /\ listCall \in [Handler -> Calls]
    /\ \A h \in Handler : Knows(listPc[h], listCall[h])
    /\ LocksApart

LEMMA ListParts == List!IInv <=> ListInv
<1>1. List!TypeOK <=>
         /\ listKind \in List!Kinds /\ parent \in BOOLEAN /\ tied \in BOOLEAN
         /\ listStatus \in [Row -> {"unused", "live", "gone"}]
         /\ order \in [Row -> 0 .. Cardinality(Row)]
         /\ listPc \in [Handler -> Labels] /\ listCall \in [Handler -> Calls]
  BY ListCardinality DEF List!TypeOK, List!MaxOrder, Labels, Calls
<1>2. List!PositionsBounded <=>
         /\ \A r \in Row : order[r] <= Cardinality(List!Used)
         /\ \A h \in Handler : listCall[h].next <= Cardinality(List!Used) + 1
  BY ListCardinality DEF List!PositionsBounded
<1>3. /\ List!CallShape /\ List!HeldAreThere /\ List!FreshCallsKnowAll
      /\ \A h \in Handler : listCall[h].next <= Cardinality(List!Used) + 1
      <=> \A h \in Handler : Knows(listPc[h], listCall[h])
  BY DEF List!CallShape, List!HeldAreThere, List!FreshCallsKnowAll, Knows, LocksAt,
         List!Locks
<1>4. List!LocksExclude <=> LocksApart
  BY DEF List!LocksExclude, LocksApart, LocksAt, List!Locks
<1> QED
  BY <1>1, <1>2, <1>3, <1>4 DEF List!IInv, ListInv, TablesFit

LEMMA ListPartsNext == List!IInv' <=> ListInv'
  BY ListParts, PTL

LEMMA NothingKnown ==
    /\ List!NoCall \in Calls /\ List!NoCall.held = {} /\ List!NoCall.next = 0
    /\ ~List!NoCall.stale /\ List!NoCall.todo = <<>> /\ List!NoCall.list = <<>>
    /\ Cardinality(List!Used) \in Nat /\ Cardinality(List!Used) <= Cardinality(Row)
    /\ Cardinality(Row) \in Nat
    /\ \A l \in {"idle", "max", "read", "delete"} : Knows(l, List!NoCall)
    /\ \A l \in Labels : LocksAt(l, List!NoCall) = {}
<1>1. /\ Cardinality(List!Used) \in Nat /\ Cardinality(List!Used) <= Cardinality(Row)
      /\ Cardinality(Row) \in Nat
  BY FS_Subset, FS_CardinalityType DEF List!Used
<1>2. /\ List!NoCall \in Calls /\ List!NoCall.held = {} /\ List!NoCall.next = 0
      /\ ~List!NoCall.stale /\ List!NoCall.todo = <<>> /\ List!NoCall.list = <<>>
  BY <1>1, EmptyList DEF List!NoCall, Calls
<1>3. \A l \in Labels : LocksAt(l, List!NoCall) = {}
  BY <1>2 DEF LocksAt
<1>4. \A l \in {"idle", "max", "read", "delete"} : Knows(l, List!NoCall)
  BY <1>1, <1>2, <1>3 DEF Knows, Labels
<1> QED
  BY <1>1, <1>2, <1>3, <1>4

LEMMA ListInit == List!Init => List!IInv
<1> SUFFICES ASSUME List!Init PROVE List!IInv
  OBVIOUS
<1>1. List!Live = {}
  BY DEF List!Init, List!Live
<1>2. TablesFit
  <2>1. 0 \in 0 .. Cardinality(Row) /\ 0 <= Cardinality(List!Used)
    BY NothingKnown
  <2>2. List!TiesComeFromOverlap
    BY <1>1 DEF List!TiesComeFromOverlap
  <2> QED
    BY <2>1, <2>2 DEF List!Init, TablesFit
<1>3. /\ listPc \in [Handler -> Labels] /\ listCall \in [Handler -> Calls]
      /\ \A h \in Handler : Knows(listPc[h], listCall[h])
  BY NothingKnown DEF List!Init, Labels
<1>4. LocksApart
  BY NothingKnown DEF List!Init, Labels, LocksApart
<1> QED
  BY <1>2, <1>3, <1>4, ListParts DEF ListInv

\* A statement that only moves its own call on.
LEMMA ListLocal ==
    ASSUME List!IInv, NEW h \in Handler, NEW l \in Labels, NEW c \in Calls, Knows(l, c),
           \A g \in Handler \ {h} :
               LocksAt(l, c) \cap LocksAt(listPc[g], listCall[g]) = {},
           UNCHANGED <<listKind, parent, listStatus, order, tied>>,
           listPc' = [listPc EXCEPT ![h] = l], listCall' = [listCall EXCEPT ![h] = c]
    PROVE  List!IInv'
<1>1. /\ TablesFit
      /\ listPc \in [Handler -> Labels] /\ listCall \in [Handler -> Calls]
      /\ \A g \in Handler : Knows(listPc[g], listCall[g])
      /\ LocksApart
  BY ListParts DEF ListInv
<1>2. UNCHANGED <<List!Live, List!Used>>
  BY DEF List!Live, List!Used
<1>3. TablesFit'
  BY <1>1, <1>2 DEF TablesFit, List!TiesComeFromOverlap
<1>4. \A g \in Handler : Knows(listPc'[g], listCall'[g])
  BY <1>1
<1>5. ASSUME NEW g \in Handler PROVE Knows(listPc[g], listCall[g])'
  BY <1>2, <1>4 DEF Knows, LocksAt
<1>6. listPc' \in [Handler -> Labels] /\ listCall' \in [Handler -> Calls]
  BY <1>1
<1>7. LocksApart'
  <2>1. \A g \in Handler : LocksAt(listPc[g], listCall[g])'
                            = IF g = h THEN LocksAt(l, c) ELSE LocksAt(listPc[g], listCall[g])
    BY <1>1 DEF LocksAt
  <2>2. \A g, j \in Handler :
           g # j => LocksAt(listPc[g], listCall[g]) \cap LocksAt(listPc[j], listCall[j]) = {}
    BY <1>1 DEF LocksApart
  <2>3. ASSUME NEW g \in Handler, NEW j \in Handler, g # j
        PROVE  LocksAt(listPc[g], listCall[g])' \cap LocksAt(listPc[j], listCall[j])' = {}
    <3>1. CASE g = h
      BY <2>1, <2>3, <3>1
    <3>2. CASE j = h
      BY <2>1, <2>3, <3>2
    <3>3. CASE g # h /\ j # h
      BY <2>1, <2>2, <2>3, <3>3
    <3> QED
      BY <3>1, <3>2, <3>3
  <2> QED
    BY <2>3 DEF LocksApart
<1> QED
  BY <1>3, <1>5, <1>6, <1>7, ListPartsNext DEF ListInv

LEMMA ListFails ==
    ASSUME List!IInv, NEW h \in Handler, List!Fail(h)
    PROVE  List!IInv'
<1>1. /\ UNCHANGED <<listKind, parent, listStatus, order, tied>>
      /\ listPc' = [listPc EXCEPT ![h] = "idle"]
      /\ listCall' = [listCall EXCEPT ![h] = List!NoCall]
  BY DEF List!Fail, List!Goto, List!tables
<1>2. /\ "idle" \in Labels /\ List!NoCall \in Calls /\ Knows("idle", List!NoCall)
      /\ LocksAt("idle", List!NoCall) = {}
  BY NothingKnown DEF Labels
<1> QED
  BY <1>1, <1>2, ListLocal

LEMMA ListBegins ==
    ASSUME List!IInv, NEW h \in Handler, NEW k \in List!Kinds,
           NEW l \in {"max", "read", "delete"}, List!Begin(h, k, l)
    PROVE  List!IInv'
<1>1. /\ UNCHANGED <<listKind, parent, listStatus, order, tied, listCall>>
      /\ listPc' = [listPc EXCEPT ![h] = l] /\ listPc[h] = "idle"
  BY DEF List!Begin, List!Goto, List!tables
<1>2. listCall[h] = List!NoCall /\ listCall \in [Handler -> Calls]
  BY <1>1, ListParts DEF ListInv, Knows
<1>3. /\ l \in Labels /\ List!NoCall \in Calls /\ Knows(l, List!NoCall)
      /\ LocksAt(l, List!NoCall) = {}
  BY NothingKnown DEF Labels
<1>4. listCall' = [listCall EXCEPT ![h] = List!NoCall]
  BY <1>1, <1>2
<1> QED
  BY <1>1, <1>3, <1>4, ListLocal

LEMMA ReadsMax ==
    ASSUME List!IInv, NEW h \in Handler, List!ReadMax(h)
    PROVE  List!IInv'
<1> DEFINE c == [List!NoCall EXCEPT !.next = List!Append1]
<1>1. ListInv
  BY ListParts
<1>2. /\ UNCHANGED <<listKind, parent, listStatus, order, tied>>
      /\ listPc' = [listPc EXCEPT ![h] = "insert"] /\ listPc[h] = "max"
      /\ listCall' = [listCall EXCEPT ![h].next = List!Append1]
  BY DEF List!ReadMax, List!Goto, List!tables
<1>3. listCall[h] = List!NoCall /\ listCall' = [listCall EXCEPT ![h] = c]
  BY <1>1, <1>2 DEF ListInv, Knows
<1>4. /\ List!Append1 \in 0 .. Cardinality(List!Used) + 1
      /\ \A r \in List!Live : order[r] < List!Append1
  <2>1. List!TypeOK /\ \A r \in Row : order[r] <= Cardinality(List!Used)
    BY <1>1 DEF List!IInv, ListInv, TablesFit
  <2> QED
    BY <2>1, NothingKnown, AppendIsBeyond
<1>5. List!Append1 \in 0 .. Cardinality(Row) + 1 /\ List!Append1 <= Cardinality(List!Used) + 1
  BY <1>4, NothingKnown
<1>6. /\ c \in Calls /\ c.next = List!Append1 /\ c.held = {}
  BY <1>5, NothingKnown DEF Calls
<1>7. Knows("insert", c) /\ LocksAt("insert", c) = {}
  BY <1>4, <1>5, <1>6 DEF Knows, LocksAt
<1>8. \A g \in Handler \ {h} :
         LocksAt("insert", c) \cap LocksAt(listPc[g], listCall[g]) = {}
  BY <1>7
<1> HIDE DEF c
<1> QED
  BY <1>2, <1>3, <1>6, <1>7, <1>8, ListLocal DEF Labels

LEMMA ReadsRows ==
    ASSUME List!IInv, NEW h \in Handler, NEW k \in List!Kinds, List!ListForUpdate(h, k)
    PROVE  List!IInv'
<1>1. ListInv
  BY ListParts
<1>2. PICK s \in List!Lists(List!Live) :
           Len(s) = Cardinality(List!Live) /\ listCall' = [listCall EXCEPT ![h].todo = s]
  BY ListCardinality DEF List!ListForUpdate
<1> DEFINE c == [List!NoCall EXCEPT !.todo = s]
<1>3. /\ UNCHANGED <<listKind, parent, listStatus, order, tied>>
      /\ listPc' = [listPc EXCEPT ![h] = "lock"] /\ listPc[h] = "read"
  BY DEF List!ListForUpdate, List!Goto, List!tables
<1>4. listCall[h] = List!NoCall /\ listCall' = [listCall EXCEPT ![h] = c]
  BY <1>1, <1>2, <1>3 DEF ListInv, Knows
<1>5. List!Live \in SUBSET Row
  BY DEF List!Live
<1>6. s \in List!Lists(Row) /\ List!Rows(s) = List!Live
  BY <1>2, <1>5, SmallerLists, ListShape
<1>7. c \in Calls /\ c.todo = s /\ c.held = {} /\ c.next = 0
  BY <1>6, NothingKnown DEF Calls
<1>8. Knows("lock", c) /\ LocksAt("lock", c) = {}
  BY <1>6, <1>7, NothingKnown DEF Knows, LocksAt
<1>9. \A g \in Handler \ {h} :
         LocksAt("lock", c) \cap LocksAt(listPc[g], listCall[g]) = {}
  BY <1>8
<1> HIDE DEF c
<1> QED
  BY <1>3, <1>4, <1>7, <1>8, <1>9, ListLocal DEF Labels

LEMMA ReadsProjects ==
    ASSUME List!IInv, NEW h \in Handler, List!ListTeamProjectIDs(h)
    PROVE  List!IInv'
<1> DEFINE c == [List!NoCall EXCEPT !.held = List!Live]
<1>1. ListInv
  BY ListParts
<1>2. /\ UNCHANGED <<listKind, parent, listStatus, order, tied>> /\ listKind = "project"
      /\ listPc' = [listPc EXCEPT ![h] = "lock"] /\ listPc[h] = "read"
      /\ listCall' = [listCall EXCEPT ![h].held = List!Live]
  BY DEF List!ListTeamProjectIDs, List!Goto, List!tables
<1>3. listCall[h] = List!NoCall /\ listCall' = [listCall EXCEPT ![h] = c]
  BY <1>1, <1>2 DEF ListInv, Knows
<1>4. c \in Calls /\ c.held = List!Live /\ c.next = 0
  BY NothingKnown DEF Calls, List!Live
<1>5. Knows("lock", c) /\ LocksAt("lock", c) = {}
  BY <1>2, <1>4, NothingKnown DEF Knows, LocksAt, List!Live, List!Used
<1>6. \A g \in Handler \ {h} :
         LocksAt("lock", c) \cap LocksAt(listPc[g], listCall[g]) = {}
  BY <1>5
<1> HIDE DEF c
<1> QED
  BY <1>2, <1>3, <1>4, <1>5, <1>6, ListLocal DEF Labels

LEMMA LocksNext ==
    ASSUME List!IInv, NEW h \in Handler, List!LockNext(h)
    PROVE  List!IInv'
<1> DEFINE b == listCall[h]
           r == Head(b.todo)
           c == [b EXCEPT !.todo = Tail(b.todo),
                          !.held = IF r \in List!Live THEN b.held \cup {r} ELSE b.held]
<1>1. ListInv
  BY ListParts
<1>2. /\ UNCHANGED <<listKind, parent, listStatus, order, tied, listPc>>
      /\ listPc[h] = "lock" /\ b.todo # <<>>
      /\ listCall' = [listCall EXCEPT ![h] = c]
  BY DEF List!LockNext, List!tables
<1>3. b \in Calls /\ Knows("lock", b) /\ listPc \in [Handler -> Labels]
  BY <1>1, <1>2 DEF ListInv
<1>4. /\ Tail(b.todo) \in List!Lists(Row) /\ r \in Row
      /\ List!Rows(b.todo) = {r} \cup List!Rows(Tail(b.todo))
  BY <1>2, <1>3, RestOfList DEF Calls
<1>5. /\ c \in Calls /\ c.todo = Tail(b.todo) /\ c.next = b.next /\ c.stale = b.stale
      /\ c.held = IF r \in List!Live THEN b.held \cup {r} ELSE b.held
  BY <1>3, <1>4 DEF Calls
<1> HIDE DEF b, c, r
<1>6. Knows("lock", c)
  BY <1>3, <1>4, <1>5 DEF Knows, LocksAt, List!Live, List!Used
<1>7. listPc' = [listPc EXCEPT ![h] = "lock"]
  BY <1>2, <1>3
<1>8. ASSUME NEW g \in Handler \ {h}
      PROVE  LocksAt("lock", c) \cap LocksAt(listPc[g], listCall[g]) = {}
  <2>1. r \notin LocksAt(listPc[g], listCall[g])
    BY DEF List!LockNext, List!Locked, List!Locks, LocksAt, b, r
  <2>2. LocksAt("lock", b) \cap LocksAt(listPc[g], listCall[g]) = {}
    BY <1>1, <1>2 DEF ListInv, LocksApart, b
  <2>3. LocksAt("lock", c) \subseteq LocksAt("lock", b) \cup {r}
    BY <1>5 DEF LocksAt
  <2> QED
    BY <2>1, <2>2, <2>3
<1> QED
  BY <1>2, <1>5, <1>6, <1>7, <1>8, ListLocal DEF Labels

LEMMA LocksRow ==
    ASSUME List!IInv, NEW h \in Handler, NEW rows \in SUBSET List!Live,
           listPc[h] = "cascade" \/ (listPc[h] = "write" /\ listKind = "project"),
           List!LockOneOf(h, rows)
    PROVE  List!IInv'
<1> DEFINE b == listCall[h]
<1>1. ListInv
  BY ListParts
<1>2. PICK r \in rows : /\ ~List!Locked(h, r)
                        /\ listCall' = [listCall EXCEPT ![h].held = b.held \cup {r}]
  BY DEF List!LockOneOf
<1> DEFINE c == [b EXCEPT !.held = b.held \cup {r}]
<1>3. /\ UNCHANGED <<listKind, parent, listStatus, order, tied, listPc>>
      /\ listCall' = [listCall EXCEPT ![h] = c]
  BY <1>2 DEF List!LockOneOf, List!tables
<1>4. b \in Calls /\ Knows(listPc[h], b) /\ listPc \in [Handler -> Labels]
  BY <1>1 DEF ListInv
<1>5. r \in Row /\ r \in List!Live
  BY DEF List!Live
<1>6. c \in Calls
  BY <1>4, <1>5 DEF Calls
<1>7. /\ c.todo = b.todo /\ c.next = b.next /\ c.stale = b.stale /\ c.list = b.list
      /\ c.held = b.held \cup {r}
  BY <1>4 DEF Calls
<1> HIDE DEF b, c
<1>8. Knows(listPc[h], c)
  BY <1>4, <1>5, <1>7 DEF Knows, LocksAt, List!Live, List!Used
<1>9. ASSUME NEW g \in Handler \ {h}
      PROVE  LocksAt(listPc[h], c) \cap LocksAt(listPc[g], listCall[g]) = {}
  <2>1. r \notin LocksAt(listPc[g], listCall[g])
    BY <1>2 DEF List!Locked, List!Locks, LocksAt
  <2>2. LocksAt(listPc[h], b) \cap LocksAt(listPc[g], listCall[g]) = {}
    BY <1>1 DEF ListInv, LocksApart, b
  <2>3. LocksAt(listPc[h], c) \subseteq LocksAt(listPc[h], b) \cup {r}
    BY <1>7 DEF LocksAt
  <2> QED
    BY <2>1, <2>2, <2>3
<1>10. listPc' = [listPc EXCEPT ![h] = listPc[h]] /\ listPc[h] \in Labels
  BY <1>3, <1>4
<1> QED
  BY <1>3, <1>6, <1>8, <1>9, <1>10, ListLocal

LEMMA ChecksRows ==
    ASSUME List!IInv, NEW h \in Handler, List!checkSameIDSet(h)
    PROVE  List!IInv'
<1>1. ListInv
  BY ListParts
<1>2. PICK list \in List!Lists(Row) :
         \/ /\ List!Rows(list) = listCall[h].held
            /\ listCall' = [listCall EXCEPT ![h].list = list, ![h].held = List!Locks(h)]
            /\ listPc' = [listPc EXCEPT ![h] = "write"]
            /\ UNCHANGED <<listKind, parent, listStatus, order, tied>>
         \/ List!Fail(h)
  BY DEF List!checkSameIDSet, List!Goto, List!tables, List!Rows
<1> DEFINE b == listCall[h]
           locks == LocksAt("lock", b)
           c == [b EXCEPT !.list = list, !.held = locks]
<1>3. CASE /\ List!Rows(list) = b.held
           /\ listCall' = [listCall EXCEPT ![h].list = list, ![h].held = List!Locks(h)]
           /\ listPc' = [listPc EXCEPT ![h] = "write"]
           /\ UNCHANGED <<listKind, parent, listStatus, order, tied>>
  <2>1. b \in Calls /\ Knows("lock", b) /\ b.todo = <<>> /\ listPc[h] = "lock"
    BY <1>1 DEF ListInv, List!checkSameIDSet
  <2>2. List!Locks(h) = locks /\ locks \in SUBSET Row
    BY <2>1 DEF List!Locks, LocksAt, Calls
  <2> HIDE DEF locks
  <2>3. listCall' = [listCall EXCEPT ![h] = c] /\ c \in Calls
    BY <1>3, <2>1, <2>2 DEF Calls
  <2>4. /\ c.list = list /\ c.next = b.next /\ c.stale = b.stale
        /\ c.held = locks
    BY <2>1 DEF Calls
  <2> HIDE DEF b, c
  <2>5. Knows("write", c)
    BY <1>3, <2>1, <2>4, EmptyList DEF Knows, LocksAt, locks
  <2>6. LocksAt("write", c) = locks
    BY <2>4 DEF LocksAt
  <2>7. ASSUME NEW g \in Handler \ {h}
        PROVE  LocksAt("write", c) \cap LocksAt(listPc[g], listCall[g]) = {}
    BY <1>1, <2>1, <2>6 DEF ListInv, LocksApart, locks, b
  <2> QED
    BY <1>3, <2>3, <2>5, <2>7, ListLocal DEF Labels
<1>4. CASE List!Fail(h)
  BY <1>4, ListFails
<1> QED
  BY <1>2, <1>3, <1>4

\* After a commit no other call that has looked is fresh, and what it holds is there.
LEMMA OthersAfterCommit ==
    ASSUME List!IInv, NEW h \in Handler, List!Commit(h), listKind' = listKind,
           List!Used \subseteq List!Used', List!Live \subseteq List!Live',
           Cardinality(List!Used)' \in Nat,
           Cardinality(List!Used) <= Cardinality(List!Used)'
    PROVE  /\ listPc' \in [Handler -> Labels] /\ listCall' \in [Handler -> Calls]
           /\ \A g \in Handler : Knows(listPc[g], listCall[g])'
           /\ LocksApart'
<1>1. ListInv
  BY ListParts
<1>2. /\ listPc' = [listPc EXCEPT ![h] = "idle"]
      /\ listCall' = [g \in Handler |->
            IF g = h THEN List!NoCall
            ELSE [listCall[g] EXCEPT !.stale = @ \/ listPc[g] \in {"insert", "lock", "write"}]]
  BY DEF List!Commit, List!Goto
<1>3. listPc' \in [Handler -> Labels] /\ listPc'[h] = "idle"
  BY <1>1, <1>2 DEF ListInv, Labels
<1>4. listCall'[h] = List!NoCall /\ Knows(listPc[h], listCall[h])'
  <2>1. listCall'[h] = List!NoCall
    BY <1>2
  <2> QED
    BY <1>3, <2>1, NothingKnown DEF Knows, LocksAt
<1>5. ASSUME NEW g \in Handler, g # h
      PROVE  /\ listCall'[g] \in Calls /\ Knows(listPc[g], listCall[g])'
             /\ LocksAt(listPc[g], listCall[g])' = LocksAt(listPc[g], listCall[g])
  <2> DEFINE b == listCall[g]
             c == listCall'[g]
  <2>1. b \in Calls /\ Knows(listPc[g], b) /\ listPc'[g] = listPc[g] /\ listPc[g] \in Labels
    BY <1>1, <1>2, <1>5 DEF ListInv
  <2> DEFINE st == b.stale \/ listPc[g] \in {"insert", "lock", "write"}
  <2>2. c = [b EXCEPT !.stale = st]
    BY <1>2, <1>5
  <2>6. /\ st \in BOOLEAN /\ (listPc[g] \in {"insert", "lock", "write"} => st)
        /\ listPc[g] \in {"idle", "max", "read", "delete"} => st = b.stale
    BY <2>1 DEF Calls
  <2> HIDE DEF st
  <2>3. /\ c \in Calls /\ c.list = b.list /\ c.next = b.next /\ c.todo = b.todo
        /\ c.held = b.held /\ c.next \in Nat
        /\ listPc[g] \in {"insert", "lock", "write"} => c.stale
    BY <2>1, <2>2, <2>6 DEF Calls
  <2>4. listPc[g] \in {"idle", "max", "read", "delete"} => c = List!NoCall
    <3> SUFFICES ASSUME listPc[g] \in {"idle", "max", "read", "delete"}
                 PROVE  c = List!NoCall
      OBVIOUS
    <3>1. b = List!NoCall /\ b.stale = FALSE
      BY <2>1, NothingKnown DEF Knows, List!NoCall
    <3>2. c = [b EXCEPT !.stale = b.stale]
      BY <2>2, <2>6
    <3> QED
      BY <2>1, <3>1, <3>2 DEF Calls
  <2> HIDE DEF b, c
  <2>5. Knows(listPc[g], listCall[g])'
    <3>1. c.next <= Cardinality(List!Used)' + 1
      BY <2>1, <2>3, NothingKnown DEF Knows
    <3> DEFINE locks == IF listKind' = "project" /\ listPc[g] = "lock" THEN {} ELSE c.held
    <3>2. c.held \subseteq List!Used' /\ LocksAt(listPc[g], b) \subseteq List!Live'
      BY <2>1, <2>3 DEF Knows
    <3>3. listPc[g] = "write" => IF listKind = "project" THEN List!Rows(c.list) \subseteq List!Used'
                                ELSE List!Rows(c.list) = c.held
      BY <2>1, <2>3 DEF Knows
    <3>4. /\ listPc[g] \in {"idle", "max", "read", "delete"} => c = List!NoCall
          /\ c.next <= Cardinality(List!Used)' + 1
          /\ c.held \subseteq List!Used' /\ locks \subseteq List!Live'
          /\ listPc[g] = "write" =>
                IF listKind' = "project" THEN List!Rows(c.list) \subseteq List!Used'
                ELSE List!Rows(c.list) = c.held
          /\ listPc[g] \in {"insert", "lock", "write"} => c.stale
      BY <2>3, <2>4, <3>1, <3>2, <3>3 DEF LocksAt
    <3> QED
      BY <2>1, <3>4 DEF Knows, LocksAt, List!Rows, List!NoCall, c
  <2>7. LocksAt(listPc[g], listCall[g])' = LocksAt(listPc[g], listCall[g])
    BY <2>1, <2>3 DEF LocksAt, b, c
  <2> QED
    BY <2>3, <2>5, <2>7 DEF c
<1>6. listCall' \in [Handler -> Calls]
  BY <1>2, <1>4, <1>5, NothingKnown
<1>7. LocksApart'
  <2>1. LocksAt(listPc[h], listCall[h])' = {}
    BY <1>4, NothingKnown DEF LocksAt
  <2>2. ASSUME NEW g \in Handler, NEW j \in Handler, g # j
        PROVE  LocksAt(listPc[g], listCall[g])' \cap LocksAt(listPc[j], listCall[j])' = {}
    <3>1. CASE g = h \/ j = h
      BY <2>1, <3>1
    <3>2. CASE g # h /\ j # h
      BY <1>1, <1>5, <2>2, <3>2 DEF ListInv, LocksApart
    <3> QED
      BY <3>1, <3>2
  <2> QED
    BY <2>2 DEF LocksApart
<1> QED
  BY <1>3, <1>4, <1>5, <1>6, <1>7

LEMMA Inserts ==
    ASSUME List!IInv, NEW h \in Handler, NEW k \in List!Kinds, List!Insert(h, k)
    PROVE  List!IInv'
<1> DEFINE unused == {r \in Row : listStatus[r] = "unused"}
           r == CHOOSE u \in unused : TRUE
           next == listCall[h].next
<1>1. ListInv
  BY ListParts
<1>2. CASE /\ unused # {} /\ listPc[h] = "insert"
           /\ listStatus' = [listStatus EXCEPT ![r] = "live"]
           /\ order' = [order EXCEPT ![r] = next]
           /\ tied' = (tied \/ listCall[h].stale)
           /\ List!Commit(h)
           /\ UNCHANGED <<listKind, parent>>
  <2>1. r \in Row /\ listStatus[r] = "unused"
    BY <1>2
  <2> HIDE DEF r
  <2>2. /\ List!Used' = List!Used \cup {r} /\ r \notin List!Used
        /\ List!Live' = List!Live \cup {r} /\ r \notin List!Live
    BY <1>1, <1>2, <2>1 DEF ListInv, TablesFit, List!Used, List!Live
  <2>3. /\ Cardinality(List!Used)' = Cardinality(List!Used) + 1
        /\ Cardinality(List!Used) + 1 <= Cardinality(Row)
    <3>1. IsFiniteSet(List!Used) /\ IsFiniteSet(List!Used \cup {r})
      BY <2>1, FS_Subset DEF List!Used
    <3>2. Cardinality(List!Used \cup {r}) = Cardinality(List!Used) + 1
      BY <2>2, <3>1, FS_AddElement
    <3>3. Cardinality(List!Used \cup {r}) <= Cardinality(Row)
      BY <2>1, FS_Subset DEF List!Used
    <3> QED
      BY <2>2, <3>2, <3>3
  <2>4. /\ next \in Nat /\ next <= Cardinality(List!Used) + 1
        /\ listCall[h].stale \in BOOLEAN
        /\ ~listCall[h].stale => \A q \in List!Live : order[q] < next
    BY <1>1, <1>2 DEF ListInv, Calls, Knows
  <2> HIDE DEF next
  <2>5. TablesFit'
    <3>1. order' \in [Row -> 0 .. Cardinality(Row)]
      BY <1>1, <1>2, <2>1, <2>3, <2>4, NothingKnown DEF ListInv, TablesFit
    <3>2. \A q \in Row : order'[q] <= Cardinality(List!Used)'
      BY <1>1, <1>2, <2>1, <2>3, <2>4, NothingKnown DEF ListInv, TablesFit
    <3>3. List!TiesComeFromOverlap'
      <4> SUFFICES ASSUME ~tied', NEW q \in List!Live', NEW t \in List!Live', order'[q] = order'[t]
                   PROVE  q = t
        BY DEF List!TiesComeFromOverlap
      <4>1. /\ \A u, v \in List!Live : order[u] = order[v] => u = v
            /\ \A u \in List!Live : order[u] < next /\ order[u] \in Nat
        BY <1>1, <1>2, <2>4 DEF ListInv, TablesFit, List!TiesComeFromOverlap, List!Live
      <4>2. order'[r] = next /\ \A u \in List!Live : order'[u] = order[u]
        BY <1>1, <1>2, <2>1, <2>2 DEF ListInv, TablesFit, List!Live
      <4> QED
        BY <2>2, <2>4, <4>1, <4>2
    <3>4. /\ listStatus' \in [Row -> {"unused", "live", "gone"}] /\ tied' \in BOOLEAN
          /\ listKind' \in List!Kinds /\ parent' \in BOOLEAN
      BY <1>1, <1>2, <2>1, <2>4 DEF ListInv, TablesFit
    <3> QED
      BY <3>1, <3>2, <3>3, <3>4 DEF TablesFit, List!Kinds
  <2>6. /\ listPc' \in [Handler -> Labels] /\ listCall' \in [Handler -> Calls]
        /\ \A g \in Handler : Knows(listPc[g], listCall[g])'
        /\ LocksApart'
    <3>1. /\ List!Commit(h) /\ listKind' = listKind
          /\ List!Used \subseteq List!Used' /\ List!Live \subseteq List!Live'
          /\ Cardinality(List!Used)' \in Nat
          /\ Cardinality(List!Used) <= Cardinality(List!Used)'
      BY <1>2, <2>2, <2>3, NothingKnown
    <3> QED
      BY <3>1, OthersAfterCommit
  <2> QED
    BY <2>5, <2>6, ListPartsNext DEF ListInv
<1>3. CASE List!Fail(h)
  BY <1>3, ListFails
<1> QED
  BY <1>2, <1>3 DEF List!Insert

LEMMA BulkUpdates ==
    ASSUME List!IInv, NEW h \in Handler, NEW k \in List!Kinds, NEW first \in {0, 1},
           List!BulkUpdate(h, k, first)
    PROVE  List!IInv'
<1> DEFINE list == listCall[h].list
           mine == List!Rows(list) \cap List!Live
<1>1. ListInv
  BY ListParts
<1>2. /\ listPc[h] = "write" /\ tied' = listCall[h].stale /\ List!Commit(h)
      /\ order' = [r \in Row |-> IF r \in mine THEN List!Position(list, r) - 1 + first
                                                ELSE order[r]]
      /\ UNCHANGED <<listKind, parent, listStatus>>
  BY DEF List!BulkUpdate, List!Matched, List!Rows
<1>3. /\ listCall[h] \in Calls /\ list \in List!Lists(Row)
      /\ List!Rows(list) \subseteq List!Used
      /\ ~listCall[h].stale => List!Live \subseteq List!Rows(list)
  BY <1>1, <1>2 DEF ListInv, Knows, Calls
<1> HIDE DEF list
<1>4. UNCHANGED <<List!Used, List!Live>>
  BY <1>2 DEF List!Used, List!Live
<1>5. Len(list) \in Nat /\ Len(list) <= Cardinality(List!Used)
  <2>1. Len(list) = Cardinality(List!Rows(list)) /\ Len(list) \in Nat
    BY <1>3, ListShape
  <2>2. IsFiniteSet(List!Used)
    BY FS_Subset DEF List!Used
  <2> QED
    BY <1>3, <2>1, <2>2, FS_Subset
<1>6. \A r \in mine : /\ List!Position(list, r) \in 1 .. Len(list)
                      /\ list[List!Position(list, r)] = r
  BY <1>3, PositionInList
<1>7. \A r \in Row : order'[r] \in Nat /\ order'[r] <= Cardinality(List!Used)
  <2> SUFFICES ASSUME NEW r \in Row PROVE order'[r] \in Nat /\ order'[r] <= Cardinality(List!Used)
    OBVIOUS
  <2>1. CASE r \in mine
    <3>1. List!Position(list, r) - 1 + first \in 0 .. Len(list)
      BY <1>5, <1>6, <2>1
    <3> QED
      BY <1>2, <1>5, <2>1, <3>1, NothingKnown
  <2>2. CASE r \notin mine
    BY <1>1, <1>2, <2>2 DEF ListInv, TablesFit
  <2> QED
    BY <2>1, <2>2
<1>8. TablesFit'
  <2>1. order' \in [Row -> 0 .. Cardinality(Row)]
    BY <1>2, <1>7, NothingKnown
  <2>2. \A r \in Row : order'[r] <= Cardinality(List!Used)'
    BY <1>4, <1>7
  <2>3. List!TiesComeFromOverlap'
    <3> SUFFICES ASSUME ~tied', NEW r \in List!Live', NEW q \in List!Live', order'[r] = order'[q]
                 PROVE  r = q
      BY DEF List!TiesComeFromOverlap
    <3>1. r \in mine /\ q \in mine /\ r \in Row /\ q \in Row
      BY <1>2, <1>3, <1>4 DEF List!Live
    <3>2. List!Position(list, r) - 1 + first = List!Position(list, q) - 1 + first
      BY <1>2, <3>1
    <3>3. List!Position(list, r) = List!Position(list, q)
      BY <1>5, <1>6, <3>1, <3>2
    <3> QED
      BY <1>6, <3>1, <3>3
  <2>4. tied' \in BOOLEAN
    BY <1>2, <1>3 DEF Calls
  <2> QED
    BY <1>1, <1>2, <2>1, <2>2, <2>3, <2>4 DEF ListInv, TablesFit, List!Kinds
<1>9. /\ listPc' \in [Handler -> Labels] /\ listCall' \in [Handler -> Calls]
      /\ \A g \in Handler : Knows(listPc[g], listCall[g])'
      /\ LocksApart'
  BY <1>2, <1>4, NothingKnown, OthersAfterCommit
<1> QED
  BY <1>8, <1>9, ListPartsNext DEF ListInv

\* Rows that go take nothing from a call that holds none of them or ends.
LEMMA RowsGo ==
    ASSUME List!IInv, UNCHANGED <<listKind, tied>>, parent' \in BOOLEAN,
           NEW G \in SUBSET List!Live,
           listPc' \in [Handler -> Labels], listCall' \in [Handler -> Calls],
           \A h \in Handler :
               \/ /\ listPc'[h] = listPc[h] /\ listCall'[h] = listCall[h]
                  /\ G \cap LocksAt(listPc[h], listCall[h]) = {}
               \/ listPc'[h] = "idle" /\ listCall'[h] = List!NoCall,
           listStatus' = [r \in Row |-> IF r \in G THEN "gone" ELSE listStatus[r]],
           order' \in [Row -> Nat],
           \A r \in Row : order'[r] \in {0, order[r]},
           \A r \in List!Live \ G : order'[r] = order[r]
    PROVE  List!IInv'
<1>1. ListInv
  BY ListParts
<1>2. List!Used' = List!Used /\ List!Live' = List!Live \ G
  BY <1>1 DEF ListInv, TablesFit, List!Used, List!Live
<1>3. Cardinality(List!Used)' = Cardinality(List!Used)
  BY <1>2
<1>4. TablesFit'
  <2>0. /\ Cardinality(List!Used) \in Nat /\ Cardinality(Row) \in Nat
        /\ order \in [Row -> 0 .. Cardinality(Row)]
        /\ \A r \in Row : order[r] <= Cardinality(List!Used)
    BY <1>1, NothingKnown DEF ListInv, TablesFit
  <2>1. order' \in [Row -> 0 .. Cardinality(Row)]
    BY <2>0
  <2>2. \A r \in Row : order'[r] <= Cardinality(List!Used)'
    BY <1>3, <2>0
  <2>3. List!TiesComeFromOverlap'
    BY <1>1, <1>2 DEF ListInv, TablesFit, List!TiesComeFromOverlap
  <2>4. listStatus' \in [Row -> {"unused", "live", "gone"}]
    BY <1>1 DEF ListInv, TablesFit
  <2> QED
    BY <1>1, <2>1, <2>2, <2>3, <2>4 DEF ListInv, TablesFit, List!Kinds
<1>5. ASSUME NEW h \in Handler PROVE Knows(listPc[h], listCall[h])'
  <2> DEFINE c == listCall[h]
  <2>1. c \in Calls /\ Knows(listPc[h], c)
    BY <1>1 DEF ListInv
  <2>2. \A r \in List!Live' : r \in List!Live /\ order'[r] = order[r]
    BY <1>2
  <2>3. CASE /\ listPc'[h] = listPc[h] /\ listCall'[h] = c
             /\ G \cap LocksAt(listPc[h], c) = {}
    <3>1. LocksAt(listPc[h], c) \subseteq List!Live'
      BY <1>2, <2>1, <2>3 DEF Knows
    <3> QED
      BY <1>2, <1>3, <2>1, <2>2, <2>3, <3>1 DEF Knows, LocksAt, List!Rows, List!NoCall
  <2>4. CASE listPc'[h] = "idle" /\ listCall'[h] = List!NoCall
    BY <1>3, <2>4, NothingKnown DEF Knows, LocksAt, List!NoCall
  <2> QED
    BY <2>3, <2>4
<1>6. LocksApart'
  <2>1. \A h \in Handler : LocksAt(listPc[h], listCall[h])'
                              \subseteq LocksAt(listPc[h], listCall[h])
    BY NothingKnown DEF LocksAt
  <2> QED
    BY <1>1, <2>1 DEF ListInv, LocksApart
<1> QED
  BY <1>1, <1>4, <1>5, <1>6, ListPartsNext DEF ListInv

LEMMA Deletes ==
    ASSUME List!IInv, NEW k \in List!Kinds, List!Delete(k)
    PROVE  List!IInv'
<1>1. ListInv
  BY ListParts
<1>2. PICK r \in List!Live : /\ List!Unlocked(r)
                            /\ listStatus' = [listStatus EXCEPT ![r] = "gone"]
                            /\ order' = [order EXCEPT ![r] = 0]
  BY DEF List!Delete
<1>3. UNCHANGED <<listKind, parent, tied, listPc, listCall>> /\ parent' \in BOOLEAN
  BY <1>1 DEF List!Delete, ListInv, TablesFit
<1>4. /\ listStatus' = [q \in Row |-> IF q \in {r} THEN "gone" ELSE listStatus[q]]
      /\ order' \in [Row -> Nat] /\ \A q \in Row : order'[q] \in {0, order[q]}
      /\ \A q \in List!Live \ {r} : order'[q] = order[q]
      /\ {r} \in SUBSET List!Live
  <2>1. r \in Row /\ order \in [Row -> Nat] /\ listStatus \in [Row -> {"unused", "live", "gone"}]
    BY <1>1 DEF ListInv, TablesFit, List!Live
  <2>2. listStatus' = [q \in Row |-> IF q \in {r} THEN "gone" ELSE listStatus[q]]
    BY <1>2, <2>1
  <2>3. /\ order' \in [Row -> Nat] /\ \A q \in Row : order'[q] \in {0, order[q]}
        /\ \A q \in List!Live \ {r} : order'[q] = order[q]
    BY <1>2, <2>1 DEF List!Live
  <2> QED
    BY <1>2, <2>2, <2>3
<1>5. \A h \in Handler : {r} \cap LocksAt(listPc[h], listCall[h]) = {}
  BY <1>2 DEF List!Unlocked, List!Locks, LocksAt
<1>6. listPc' \in [Handler -> Labels] /\ listCall' \in [Handler -> Calls]
  BY <1>1, <1>3 DEF ListInv
<1> QED
  BY <1>3, <1>4, <1>5, <1>6, RowsGo

LEMMA LocksParent ==
    ASSUME List!IInv, NEW h \in Handler, List!LockParent(h)
    PROVE  List!IInv'
<1>1. CASE List!Fail(h)
  BY <1>1, ListFails
<1>2. CASE List!Goto(h, "cascade") /\ UNCHANGED <<List!tables, tied, listCall>>
  <2>1. /\ UNCHANGED <<listKind, parent, listStatus, order, tied, listCall>>
        /\ listPc' = [listPc EXCEPT ![h] = "cascade"] /\ listPc[h] = "delete"
    BY <1>2 DEF List!LockParent, List!Goto, List!tables
  <2>2. listCall[h] = List!NoCall /\ listCall \in [Handler -> Calls]
    BY <2>1, ListParts DEF ListInv, Knows
  <2>3. /\ "cascade" \in Labels /\ List!NoCall \in Calls
        /\ LocksAt("cascade", List!NoCall) = {}
    BY NothingKnown DEF Labels
  <2>4. Knows("cascade", List!NoCall)
    BY <2>3, NothingKnown DEF Knows
  <2>5. listCall' = [listCall EXCEPT ![h] = List!NoCall]
    BY <2>1, <2>2
  <2> QED
    BY <2>1, <2>3, <2>4, <2>5, ListLocal
<1> QED
  BY <1>1, <1>2 DEF List!LockParent

LEMMA DeletesParent ==
    ASSUME List!IInv, NEW h \in Handler, List!DeleteParent(h)
    PROVE  List!IInv'
<1>1. ListInv
  BY ListParts
<1>2. /\ UNCHANGED <<listKind, tied>> /\ parent' \in BOOLEAN
      /\ List!Live \in SUBSET List!Live
      /\ listStatus' = [r \in Row |-> IF r \in List!Live THEN "gone" ELSE listStatus[r]]
      /\ order' \in [Row -> Nat] /\ \A r \in Row : order'[r] \in {0, order[r]}
      /\ \A r \in List!Live \ List!Live : order'[r] = order[r]
  BY DEF List!DeleteParent
<1>3. /\ listPc' = [listPc EXCEPT ![h] = "idle"] /\ listPc[h] = "cascade"
      /\ listCall' = [listCall EXCEPT ![h] = List!NoCall]
      /\ List!Live \subseteq listCall[h].held
  BY DEF List!DeleteParent, List!Goto
<1>4. listPc' \in [Handler -> Labels] /\ listCall' \in [Handler -> Calls]
  BY <1>1, <1>3, NothingKnown DEF ListInv, Labels
<1>5. LocksAt(listPc[h], listCall[h]) = listCall[h].held
  BY <1>3 DEF LocksAt
<1>6. ASSUME NEW g \in Handler
      PROVE  \/ /\ listPc'[g] = listPc[g] /\ listCall'[g] = listCall[g]
                /\ List!Live \cap LocksAt(listPc[g], listCall[g]) = {}
             \/ listPc'[g] = "idle" /\ listCall'[g] = List!NoCall
  <2>1. CASE g = h
    BY <1>1, <1>3, <2>1 DEF ListInv
  <2>2. CASE g # h
    <3>1. List!Live \cap LocksAt(listPc[g], listCall[g]) = {}
      BY <1>1, <1>3, <1>5, <2>2 DEF ListInv, LocksApart
    <3> QED
      BY <1>1, <1>3, <2>2, <3>1 DEF ListInv
  <2> QED
    BY <2>1, <2>2
<1> QED
  BY <1>2, <1>4, <1>6, RowsGo

LEMMA ListInductive == List!IInv /\ [List!Next]_(List!vars) => List!IInv'
<1> SUFFICES ASSUME List!IInv, [List!Next]_(List!vars) PROVE List!IInv'
  OBVIOUS
<1>0. {"project", "environment", "variable", "proxy", "example"} \subseteq List!Kinds
  BY DEF List!Kinds
<1>1. ASSUME NEW h \in Handler,
             \/ List!handleCreateProject(h) \/ List!handleCreateEnvironment(h)
             \/ List!handleCreateVariable(h) \/ List!handleCreateProxy(h)
             \/ List!handleCreateExample(h)
             \/ List!handleReorderProjects(h) \/ List!handleReorderEnvironments(h)
             \/ List!handleReorderVariables(h) \/ List!handleReorderProxies(h)
             \/ List!handleReorderExamples(h) \/ List!handleDeleteParent(h)
      PROVE  List!IInv'
  <2>0. listKind \in List!Kinds
    BY ListParts DEF ListInv, TablesFit
  <2>1. \E k \in List!Kinds, l \in {"max", "read", "delete"} : List!Begin(h, k, l)
    BY <1>0, <1>1, <2>0
       DEF List!handleCreateProject, List!handleCreateEnvironment, List!handleCreateVariable,
           List!handleCreateProxy, List!handleCreateExample, List!handleReorderProjects,
           List!handleReorderEnvironments, List!handleReorderVariables,
           List!handleReorderProxies, List!handleReorderExamples,
           List!handleDeleteParent
  <2> QED
    BY <2>1, ListBegins
<1>2. ASSUME NEW h \in Handler, List!Create(h) PROVE List!IInv'
  BY <1>0, <1>2, Inserts
     DEF List!Create, List!CreateProject, List!CreateEnvironment, List!CreateVariable,
         List!CreateProxy, List!CreateRequestExample
<1>3. ASSUME NEW h \in Handler,
             \/ List!ListEnvironmentIDsForUpdate(h) \/ List!ListVariableIDsForUpdate(h)
             \/ List!ListProxyIDsForUpdate(h) \/ List!ListRequestExampleIDsForUpdate(h)
      PROVE  List!IInv'
  BY <1>0, <1>3, ReadsRows
     DEF List!ListEnvironmentIDsForUpdate, List!ListVariableIDsForUpdate,
         List!ListProxyIDsForUpdate, List!ListRequestExampleIDsForUpdate
<1>4. ASSUME NEW h \in Handler, List!Write(h) PROVE List!IInv'
  BY <1>0, <1>4, BulkUpdates
     DEF List!Write, List!BulkUpdateProjectOrder, List!BulkUpdateEnvironmentOrder,
         List!BulkUpdateVariableOrder, List!BulkUpdateProxyOrder,
         List!BulkUpdateRequestExampleOrder
<1>5. ASSUME NEW h \in Handler, List!Advance(h) PROVE List!IInv'
  <2>1. List!Live \in SUBSET List!Live /\ List!Matched(h) \in SUBSET List!Live
    BY DEF List!Matched
  <2>2. CASE List!LockProjectRow(h) \/ List!LockCascade(h)
    <3>1. PICK rows \in SUBSET List!Live :
             /\ List!LockOneOf(h, rows)
             /\ listPc[h] = "cascade" \/ (listPc[h] = "write" /\ listKind = "project")
      BY <2>1, <2>2 DEF List!LockProjectRow, List!LockCascade
    <3> QED
      BY <3>1, LocksRow
  <2> QED
    BY <1>2, <1>3, <1>4, <1>5, <2>2, ReadsMax, ReadsProjects, LocksNext, ChecksRows,
       LocksParent, DeletesParent
       DEF List!Advance
<1>6. ASSUME NEW h \in Handler, List!Abort(h) PROVE List!IInv'
  BY <1>6, ListFails DEF List!Abort
<1>7. CASE List!DeadlockVictim
  BY <1>6, <1>7 DEF List!DeadlockVictim
<1>8. CASE \/ List!DeleteProject \/ List!DeleteEnvironment \/ List!DeleteVariable
           \/ List!DeleteProxy \/ List!DeleteRequestExample
  BY <1>0, <1>8, Deletes
     DEF List!DeleteProject, List!DeleteEnvironment, List!DeleteVariable, List!DeleteProxy,
         List!DeleteRequestExample
<1>9. CASE UNCHANGED List!vars
  <2>1. UNCHANGED <<listKind, parent, listStatus, order, tied, listPc, listCall>>
    BY <1>9 DEF List!vars, List!tables
  <2>2. UNCHANGED ListInv
    BY <2>1 DEF ListInv, TablesFit, Knows, LocksAt, LocksApart, List!TiesComeFromOverlap,
                List!Used, List!Live, List!Kinds, List!Rows, List!NoCall
  <2> QED
    BY <2>2, ListParts, ListPartsNext
<1> QED
  BY <1>1, <1>5, <1>6, <1>7, <1>8, <1>9 DEF List!Next

\* A reorder gives the rows of its list, of those that are there, their places in it.
LEMMA WritesPlaces ==
    ASSUME List!IInv, NEW h \in Handler, List!Write(h)
    PROVE  LET list == listCall[h].list
               there == {i \in DOMAIN list : listStatus'[list[i]] = "live"}
           IN  /\ \A i, j \in there : i < j => order'[list[i]] < order'[list[j]]
               /\ listKind # "project" => there = DOMAIN list
<1> DEFINE list == listCall[h].list
           there == {i \in DOMAIN list : listStatus'[list[i]] = "live"}
           mine == List!Rows(list) \cap List!Live
<1>1. ListInv
  BY ListParts
<1>2. PICK k \in List!Kinds, first \in {0, 1} : List!BulkUpdate(h, k, first)
  BY DEF List!Kinds, List!Write, List!BulkUpdateProjectOrder, List!BulkUpdateEnvironmentOrder,
         List!BulkUpdateVariableOrder, List!BulkUpdateProxyOrder,
         List!BulkUpdateRequestExampleOrder
<1>3. /\ listPc[h] = "write" /\ listStatus' = listStatus
      /\ order' = [r \in Row |-> IF r \in mine THEN List!Position(list, r) - 1 + first
                                                ELSE order[r]]
  BY <1>2 DEF List!BulkUpdate, List!Matched, List!Rows
<1>4. /\ list \in List!Lists(Row) /\ List!Rows(list) \subseteq Row
      /\ listKind # "project" => List!Rows(list) \subseteq List!Live
  <2>1. Knows("write", listCall[h]) /\ list \in List!Lists(Row)
    BY <1>1, <1>3 DEF ListInv, Calls
  <2>2. List!Rows(list) \subseteq List!Used
    BY <2>1 DEF Knows
  <2>3. listKind # "project" => List!Rows(list) \subseteq List!Live
    BY <2>1 DEF Knows, LocksAt
  <2> QED
    BY <2>1, <2>2, <2>3 DEF List!Used
<1>5. Len(list) \in Nat /\ DOMAIN list = 1 .. Len(list)
  BY <1>4, ListShape
<1> HIDE DEF list
<1>6. ASSUME NEW i \in there PROVE i \in 1 .. Len(list) /\ order'[list[i]] = i - 1 + first
  <2>1. i \in DOMAIN list /\ list[i] \in mine /\ list[i] \in Row
    BY <1>3, <1>4 DEF List!Rows, List!Live
  <2>2. List!Position(list, list[i]) = i
    BY <1>4, <1>5, <2>1, PositionInList
  <2> QED
    BY <1>3, <1>5, <2>1, <2>2
<1>7. \A i, j \in there : i < j => order'[list[i]] < order'[list[j]]
  BY <1>5, <1>6
<1>8. listKind # "project" => there = DOMAIN list
  BY <1>3, <1>4 DEF List!Rows, List!Live
<1> QED
  BY <1>7, <1>8 DEF list

-----------------------------------------------------------------------------
(* The parts beside each other.                                            *)

LEMMA SettingSteps == [ContentsNext]_allVars => [Setting!Next]_(Setting!vars)
  BY DEF ContentsNext, allVars, rowVars, Setting!vars, Setting!tables

LEMMA SettingInvariance == ContentsSpec => [](Setting!IInv) /\ [][Setting!Next]_(Setting!vars)
<1>1. ContentsInit => Setting!Init
  BY DEF ContentsInit
<1> QED
  BY <1>1, SettingInit, SettingInductive, SettingSteps, PTL DEF ContentsSpec

\* No update whose handler let it through is refused by a CHECK constraint, whatever
\* other updates have made of the row since the handler read it.
THEOREM ChecksAlwaysSuffice == ContentsSpec => []ChecksSuffice
<1>1. Setting!IInv => ChecksSuffice
  <2> SUFFICES ASSUME Setting!IInv, NEW h \in Handler, rowPc[h] = "write"
               PROVE  Setting!Checks(Setting!Merged(rowCall[h].params))
    BY DEF ChecksSuffice, Setting!ChecksSuffice
  <2>1. rowCall[h].params \in Setting!Patches(rowKind)
    BY DEF Setting!IInv, Setting!TypeOK, Setting!CallsChecked
  <2> QED
    BY <2>1, MergedChecks DEF Setting!IInv
<1> QED
  BY <1>1, SettingInvariance, PTL

\* A node's proxy exists, is one of its project and is named only where it is used,
\* however updates of the node and deletions of proxies overlap.
THEOREM ProxySettingStaysConsistent == ContentsSpec => []ProxySettingConsistent
<1>1. Setting!IInv => ProxySettingConsistent
  BY DEF Setting!IInv, ProxySettingConsistent
<1> QED
  BY <1>1, SettingInvariance, PTL

\* An update changes the columns that were sent and no others, whatever other updates
\* have written since its handler read the row.
THEOREM UpdatesAlwaysMerge == ContentsSpec => UpdatesMerge
<1>1. Setting!IInv /\ [Setting!Next]_(Setting!vars) =>
         [\A f \in DOMAIN row :
             \/ row'[f] = row[f] \/ Setting!Derived(f)
             \/ \E h \in Handler : /\ rowPc[h] = "write" /\ f \in DOMAIN rowCall[h].sent
                                   /\ row'[f] = rowCall[h].sent[f]]_(Setting!vars)
  <2> SUFFICES ASSUME Setting!IInv, Setting!Next, NEW f \in DOMAIN row
               PROVE  \/ row'[f] = row[f] \/ Setting!Derived(f)
                      \/ \E h \in Handler : /\ rowPc[h] = "write"
                                            /\ f \in DOMAIN rowCall[h].sent
                                            /\ row'[f] = rowCall[h].sent[f]
    OBVIOUS
  <2>1. CASE \E h \in Handler : Setting!Write(h)
    BY <2>1, UpdateMerges
       DEF Setting!Write, Setting!UpdateTeamName, Setting!UpdateProjectName,
           Setting!UpdateEnvironmentName, Setting!UpdateVariable, Setting!UpdateFolder,
           Setting!UpdateRequest, Setting!UpdateProxy, Setting!UpdateRequestExample,
           Setting!UpdateWebhookEndpoint, Setting!Derived, Setting!NULL
  <2>2. ASSUME NEW x \in Proxy, Setting!DeleteProxy(x)
        PROVE  row'[f] = row[f] \/ Setting!Derived(f)
    <3>1. x \in proxies /\ proxies' = proxies \ {x} /\ rowKind \in Setting!Nodes
      BY <2>2 DEF Setting!DeleteProxy
    <3>2. row \in [auth_type : {"inherit", "bearer"}, auth_value : {"a", "b"},
                   proxy_mode : {"inherit", "none", "proxy"}, proxy_id : Proxy \cup {"NULL"}]
      BY <3>1 DEF Setting!IInv, Setting!TypeOK, Setting!Columns, Setting!Text, Setting!NULL,
                  Setting!Nodes
    <3> QED
      BY <2>2, <3>1, <3>2 DEF Setting!DeleteProxy, Setting!Derived, Setting!NULL
  <2>3. CASE UNCHANGED row
    BY <2>3
  <2> QED
    BY <2>1, <2>2, <2>3
       DEF Setting!Next, Setting!Create, Setting!Delete, Setting!Abort, Setting!Fail,
           Setting!tables, Setting!Begin, Setting!handleUpdateTeam,
           Setting!handleUpdateProject, Setting!handleUpdateEnvironment,
           Setting!handleUpdateVariable, Setting!handleUpdateFolder,
           Setting!handleUpdateRequest, Setting!handleUpdateProxy,
           Setting!handleUpdateExample, Setting!handleUpdateWebhook
<1> QED
  BY <1>1, SettingInvariance, PTL DEF UpdatesMerge, Setting!UpdatesMerge

LEMMA ListSteps == [ContentsNext]_allVars => [List!Next]_(List!vars)
  BY DEF ContentsNext, allVars, listVars, List!vars, List!tables

LEMMA ListInvariance == ContentsSpec => [](List!IInv) /\ [][List!Next]_(List!vars)
<1>1. ContentsInit => List!Init
  BY DEF ContentsInit
<1> QED
  BY <1>1, ListInit, ListInductive, ListSteps, PTL DEF ContentsSpec

LEMMA EndpointsInvariance == ContentsSpec => []IInv
<1>1. ContentsInit => Init
  BY DEF ContentsInit
<1>2. [ContentsNext]_allVars => [Next]_vars
  BY DEF ContentsNext, allVars
<1> QED
  BY <1>1, <1>2, InitOK, Inductive, PTL DEF ContentsSpec

\* Two rows of a list share a position only if calls that overlapped gave them to them:
\* an append never does alone, nor does a reorder, whatever was deleted in between.
THEOREM TiesAlwaysComeFromOverlap == ContentsSpec => []TiesComeFromOverlap
<1>1. List!IInv => TiesComeFromOverlap
  BY DEF List!IInv, TiesComeFromOverlap
<1> QED
  BY <1>1, ListInvariance, PTL

\* The rows of a reorder stand in the order that was sent once it has committed, and
\* where it locks them every one of them is still there.
THEOREM ReordersAreExact == ContentsSpec => ReorderIsExact
<1>1. List!IInv /\ [List!Next]_(List!vars) =>
         [\A h \in Handler : List!Write(h) =>
            LET list == listCall[h].list
                there == {i \in DOMAIN list : listStatus'[list[i]] = "live"}
            IN  /\ \A i, j \in there : i < j => order'[list[i]] < order'[list[j]]
                /\ listKind # "project" => there = DOMAIN list]_(List!vars)
  BY WritesPlaces
<1> QED
  BY <1>1, ListInvariance, PTL DEF ReorderIsExact, List!ReorderIsExact

\* The three parts keep their types: positions never outgrow the rows ever created.
THEOREM ContentsTypes == ContentsSpec => []TypesOK
<1>1. IInv /\ List!IInv /\ Setting!IInv => TypesOK
  BY DEF IInv, List!IInv, Setting!IInv, TypesOK
<1> QED
  BY <1>1, EndpointsInvariance, ListInvariance, SettingInvariance, PTL
=============================================================================
