----------------------------- MODULE ApiRouting -----------------------------
(***************************************************************************)
(* The REST server's request pipeline (api/server.go, Server.build): each *)
(* route is a chain of gin handlers, run by gin's Context.Next loop:      *)
(*                                                                         *)
(*     c.index++; for c.index < len(handlers) { handlers[c.index](c);    *)
(*                                              c.index++ }               *)
(*                                                                         *)
(* A handler stops the chain only by Abort (index set past the end);      *)
(* returning without calling c.Next() does NOT stop it: the loop goes on  *)
(* with the next handler. Every middleware here calls c.Next() last, so   *)
(* the nested call is the same as returning and letting the loop go on,   *)
(* and a chain is modelled as one handler per step. The first status      *)
(* written is the one sent; later writes are ignored by gin.              *)
(***************************************************************************)
EXTENDS Naturals, Sequences, FiniteSetsExt, TLC

CONSTANTS
    Requests,         \* concurrent request slots (model values)
    FMaintenanceMode  \* utask.FMaintenanceMode, fixed at start-up

ASSUME FMaintenanceMode \in BOOLEAN

\* Callers as the auth middleware classifies them.
Callers == {"admin", "user", "anonymous"}

\* Status codes: "none" until one is written; "ok" stands for 200/201/204.
Statuses == {"none", "ok", "400", "401", "405", "500"}

(***************************************************************************)
(* The route table of Server.build: each route, by its fizz ID, with the  *)
(* handlers registered after its group's middlewares.                     *)
(***************************************************************************)
Read == <<"handler">>
Write == <<"maintenanceMode", "handler">>
AdminWrite == <<"requireAdmin", "maintenanceMode", "handler">>
Admin == <<"requireAdmin", "handler">>

\* templateRoutes and functionRoutes
TemplateRoutes ==
    ("ListTemplates" :> Read) @@ ("GetTemplate" :> Read)
    @@ ("ListFunctions" :> Read) @@ ("GetFunction" :> Read)

\* Variant: DELETE /task/:id registered without requireAdmin
TaskRoutesDeleteOpen ==
    ("BatchCreateTask" :> Write) @@ ("CreateTask" :> Write) @@ ("ListTasks" :> Read)
    @@ ("GetTask" :> Read) @@ ("EditTask" :> Write) @@ ("CancelTask" :> Write)
    @@ ("DeleteTask" :> Write)

\* taskRoutes
TaskRoutes ==
    ("BatchCreateTask" :> Write) @@ ("CreateTask" :> Write) @@ ("ListTasks" :> Read)
    @@ ("GetTask" :> Read) @@ ("EditTask" :> Write) @@ ("CancelTask" :> Write)
    @@ ("DeleteTask" :> AdminWrite)

\* commentsRoutes
CommentRoutes ==
    ("AddTaskComment" :> Write) @@ ("ListTaskComments" :> Read)
    @@ ("GetTaskComment" :> Read) @@ ("EditTaskComment" :> Write)
    @@ ("DeleteTaskComment" :> Write)

\* resolutionRoutes
ResolutionRoutes ==
    ("CreateTaskResolution" :> Write) @@ ("GetTaskResolution" :> Read)
    @@ ("EditTaskResolution" :> AdminWrite) @@ ("ExecuteTask" :> Write)
    @@ ("PauseTaskExecution" :> Write) @@ ("ExtendTaskResolution" :> Write)
    @@ ("CancelTaskResolution" :> Write) @@ ("GetTaskResolutionStep" :> Read)
    @@ ("EditTaskResolutionStep" :> AdminWrite)
    @@ ("EditTaskResolutionStepState" :> Write)

\* the routes on authRoutes itself ("/" redirects to /meta; key-rotate is "// admin")
MiscRoutes ==
    ("RedirectToMeta" :> Read) @@ ("GetMetadata" :> Read) @@ ("ReencryptData" :> Admin)

\* router.GET("/unsecured/..."): no group middleware
UnsecuredRoutes == ("Ping" :> Read) @@ ("OpenAPISpec" :> Read) @@ ("Stats" :> Read)

\* authRoutes := router.Group("/", ..., s.authMiddleware): auth runs first.
RouteChains ==
    LET secured == TemplateRoutes @@ TaskRoutes @@ CommentRoutes @@ ResolutionRoutes
                   @@ MiscRoutes
    IN  [r \in DOMAIN secured |-> <<"auth">> \o secured[r]] @@ UnsecuredRoutes

\* Variant: a secured plugin route in maintenance gets no auth (else-if)
PluginChainElseIf(maintenance, secured) ==
    (IF maintenance THEN <<"maintenanceMode">> ELSE <<>>)
    \o (IF secured /\ ~maintenance THEN <<"auth">> ELSE <<>>)
    \o <<"handler">>

\* Plugin routes: maintenanceMode if r.Maintenance, auth if r.Secured, then handlers.
PluginChain(maintenance, secured) ==
    (IF maintenance THEN <<"maintenanceMode">> ELSE <<>>)
    \o (IF secured THEN <<"auth">> ELSE <<>>)
    \o <<"handler">>

PluginShapes == [maintenance : BOOLEAN, secured : BOOLEAN]

\* A plugin route as build reads it; handlers: it has at least one handler.
PluginRoutes == [maintenance : BOOLEAN, secured : BOOLEAN, handlers : BOOLEAN]

\* The PluginRouterGroups a plugin may pass (up to two routes each).
PluginGroups == {g \in SUBSET PluginRoutes : Cardinality(g) <= 2}

\* The routes build registers, with their chain and whether they are meant
\* to be secured: the fixed routes (all but /unsecured/...), then the plugin routes.
Routes(plugins) ==
    {[route |-> r, chain |-> RouteChains[r], secured |-> r \notin DOMAIN UnsecuredRoutes]
        : r \in DOMAIN RouteChains}
    \cup {[route |-> "plugin", chain |-> PluginChain(p.maintenance, p.secured),
           secured |-> p.secured] : p \in plugins}

(***************************************************************************)
(* The Stats handler's input (StatsIn.Tags, one query parameter "tag" per *)
(* tag).  A tag is represented by strings.Split(t, "="): the list of its  *)
(* "="-separated parts, which determines the tag string and is determined *)
(* by it.                                                                  *)
(***************************************************************************)
TagParts == {<<"env", "prod">>, <<"env", "dev">>, <<"env">>, <<"", "prod">>,
             <<"env", "">>, <<"env", "prod", "dev">>}

\* Requests carry up to two tags.
StatsInputs == {<<>>} \cup {<<t>> : t \in TagParts} \cup {<<t, u>> : t, u \in TagParts}

\* Variant: a tag with an empty key or value is kept
RECURSIVE ParseTagsNoEmptyCheck(_, _)
ParseTagsNoEmptyCheck(in, tags) ==
    IF in = <<>> THEN [ok |-> TRUE, tags |-> tags]
    ELSE IF Len(Head(in)) # 2 THEN [ok |-> FALSE, tags |-> tags]
    ELSE ParseTagsNoEmptyCheck(Tail(in), (Head(in)[1] :> Head(in)[2]) @@ tags)

\* The tag loop of Stats: the first malformed tag ends it with a 400;
\* tags[parts[0]] = parts[1] overwrites an earlier tag with the same key.
RECURSIVE ParseTags(_, _)
ParseTags(in, tags) ==
    IF in = <<>> THEN [ok |-> TRUE, tags |-> tags]
    ELSE LET parts == Head(in) IN
         IF Len(parts) # 2 \/ parts[1] = "" \/ parts[2] = ""
           THEN [ok |-> FALSE, tags |-> tags]
           ELSE ParseTags(Tail(in), (parts[1] :> parts[2]) @@ tags)

\* The auth middlewares: NewServer's no-op default, authMiddleware, groupAuthMiddleware.
AuthMiddlewares == {"noop", "auth", "groupAuth"}

VARIABLES
    server,       \* the Server's fields: authMiddleware and pluginRoutes
    httpHandler,  \* built: build has run; auth, plugins: what it captured
    slot          \* per request slot: its chain, caller, gin index, abort flag, status, effect

vars == <<server, httpHandler, slot>>

Idle == [route |-> "none", chain |-> <<>>, secured |-> FALSE, caller |-> "anonymous", index |-> 1,
         aborted |-> FALSE, status |-> "none", ran |-> FALSE, busy |-> FALSE,
         tags |-> <<>>, queried |-> FALSE, filter |-> <<>>, rotated |-> 0]

\* gin's ResponseWriter: a status once written stays.
WriteStatus(q, code) ==
    IF slot[q].status = "none" THEN code ELSE slot[q].status

\* The handler the gin loop is about to call for request q.
Current(q) == slot[q].chain[slot[q].index]

Running(q) ==
    /\ slot[q].busy
    /\ ~slot[q].aborted
    /\ slot[q].index <= Len(slot[q].chain)

\* The gin loop moves on to the next handler.
Continue(q) == [slot[q] EXCEPT !.index = @ + 1]

\* c.AbortWithStatus(code)
AbortWithStatus(q, code) == [slot[q] EXCEPT !.status = WriteStatus(q, code), !.aborted = TRUE]

-----------------------------------------------------------------------------
\* NewServer: the no-op auth middleware, no plugin routes, nothing built.
Init ==
    /\ server = [auth |-> "noop", plugins |-> {}]
    /\ httpHandler = [built |-> FALSE, auth |-> "noop", plugins |-> {}]
    /\ slot = [q \in Requests |-> Idle]

(***************************************************************************)
(* WithAuth / WithGroupAuth: a nil provider is ignored; otherwise the     *)
(* field is replaced.  Both may be called at any time, also after build,  *)
(* where the new middleware is no longer read.                           *)
(***************************************************************************)
WithAuth(provided) ==
    /\ server' = IF provided THEN [server EXCEPT !.auth = "auth"] ELSE server
    /\ UNCHANGED <<httpHandler, slot>>

WithGroupAuth(provided) ==
    /\ server' = IF provided THEN [server EXCEPT !.auth = "groupAuth"] ELSE server
    /\ UNCHANGED <<httpHandler, slot>>

\* Variant: the group is appended as given, routes without handler included
RegisterPluginRoutesUnchecked(group) ==
    /\ server' = [server EXCEPT !.plugins = @ \cup group]
    /\ UNCHANGED <<httpHandler, slot>>

\* RegisterPluginRoutes: refuses the whole group if a route has no handler.
RegisterPluginRoutes(group) ==
    /\ server' = IF \A r \in group : r.handlers
                   THEN [server EXCEPT !.plugins = @ \cup
                            {[maintenance |-> r.maintenance, secured |-> r.secured] : r \in group}]
                   ELSE server
    /\ UNCHANGED <<httpHandler, slot>>

(***************************************************************************)
(* build, called by Handler(ctx) and by ListenAndServe: only the first    *)
(* call does anything; it reads s.authMiddleware and s.pluginRoutes once. *)
(***************************************************************************)
build ==
    /\ httpHandler' = IF httpHandler.built THEN httpHandler
                      ELSE [built |-> TRUE, auth |-> server.auth, plugins |-> server.plugins]
    /\ UNCHANGED <<server, slot>>

\* The caller's identity as the middlewares see it: the no-op middleware
\* puts none in the context, so auth.IsAdmin fails for everybody.
Identity(q) == IF httpHandler.auth = "noop" THEN "anonymous" ELSE slot[q].caller

\* A request reaches the built router on some route, from some caller.
Arrive(q) ==
    /\ httpHandler.built /\ ~slot[q].busy
    /\ \E rt \in Routes(httpHandler.plugins), who \in Callers :
          slot' = [slot EXCEPT ![q] = [Idle EXCEPT !.chain = rt.chain, !.secured = rt.secured,
                                                   !.route = rt.route,
                                                   !.caller = who, !.busy = TRUE]]
    /\ UNCHANGED <<server, httpHandler>>

\* The captured auth middleware: the no-op one lets everybody through;
\* authMiddleware / groupAuthMiddleware refuse an unauthenticated caller with 401.
Auth(q) ==
    /\ Running(q) /\ Current(q) = "auth"
    /\ slot' = [slot EXCEPT ![q] = IF httpHandler.auth # "noop" /\ slot[q].caller = "anonymous"
                                     THEN AbortWithStatus(q, "401")
                                     ELSE Continue(q)]
    /\ UNCHANGED <<server, httpHandler>>

\* Variant: requireAdmin refusing without stopping the chain
RequireAdminNoAbort(q) ==
    /\ Running(q) /\ Current(q) = "requireAdmin"
    /\ slot' = [slot EXCEPT ![q] = IF Identity(q) # "admin"
                                     THEN [Continue(q) EXCEPT !.status = WriteStatus(q, "401")]
                                     ELSE Continue(q)]
    /\ UNCHANGED <<server, httpHandler>>

\* requireAdmin: auth.IsAdmin fails -> c.AbortWithStatus(401); else c.Next().
RequireAdmin(q) ==
    /\ Running(q) /\ Current(q) = "requireAdmin"
    /\ slot' = [slot EXCEPT ![q] = IF Identity(q) # "admin"
                                     THEN AbortWithStatus(q, "401")
                                     ELSE Continue(q)]
    /\ UNCHANGED <<server, httpHandler>>

(***************************************************************************)
(* maintenanceMode: in maintenance it writes a 405 JSON body and returns  *)
(* without c.Next() and without c.Abort(), so gin's loop goes on.         *)
(***************************************************************************)
MaintenanceMode(q) ==
    /\ Running(q) /\ Current(q) = "maintenanceMode"
    /\ slot' = [slot EXCEPT ![q] = IF FMaintenanceMode
                                     THEN [Continue(q) EXCEPT !.status = WriteStatus(q, "405")]
                                     ELSE Continue(q)]
    /\ UNCHANGED <<server, httpHandler>>

\* The route's tonic handler: does its work and writes its success status.
Handler(q) ==
    /\ Running(q) /\ Current(q) = "handler"
    /\ slot[q].route \notin {"Stats", "Ping", "ReencryptData"}
    /\ slot' = [slot EXCEPT ![q] = [Continue(q) EXCEPT !.ran = TRUE,
                                                      !.status = WriteStatus(q, "ok")]]
    /\ UNCHANGED <<server, httpHandler>>

(***************************************************************************)
(* Stats, called by tonic with the query's tags bound into StatsIn:       *)
(* NewDBProvider may fail (500); a malformed tag is a 400; else           *)
(* task.LoadStateCount(dbp, tags) runs with the parsed filter and may     *)
(* fail (500).                                                            *)
(***************************************************************************)
Stats(q) ==
    /\ Running(q) /\ Current(q) = "handler" /\ slot[q].route = "Stats"
    /\ \E in \in StatsInputs, dbOK, loadOK \in BOOLEAN :
         LET parsed == ParseTags(in, <<>>)
             query  == dbOK /\ parsed.ok
         IN  slot' = [slot EXCEPT ![q] =
                        [Continue(q) EXCEPT
                            !.ran = TRUE, !.tags = in, !.queried = query,
                            !.filter = IF query THEN parsed.tags ELSE <<>>,
                            !.status = WriteStatus(q, IF query /\ loadOK THEN "ok"
                                                      ELSE IF query \/ ~dbOK THEN "500"
                                                      ELSE "400")]]
    /\ UNCHANGED <<server, httpHandler>>

\* pingHandler: NewDBProvider, then SELECT 1; a failure of either, or a
\* result other than 1, is a 500; else "pong".
Ping(q) ==
    /\ Running(q) /\ Current(q) = "handler" /\ slot[q].route = "Ping"
    /\ \E status \in {"ok", "500"} :
         slot' = [slot EXCEPT ![q] = [Continue(q) EXCEPT !.ran = TRUE,
                                                           !.status = WriteStatus(q, status)]]
    /\ UNCHANGED <<server, httpHandler>>

\* The calls of keyRotate, in order, after NewDBProvider.
Rotations == <<"CallKeyRotations", "RotateTasks", "RotateResolutions">>

\* keyRotate: NewDBProvider, then the rotations in order; the first error is
\* returned (500) and the later calls are skipped.  rotated counts the
\* rotations that returned nil.
KeyRotate(q) ==
    /\ Running(q) /\ Current(q) = "handler" /\ slot[q].route = "ReencryptData"
    /\ \/ slot' = [slot EXCEPT ![q] = [Continue(q) EXCEPT     \* NewDBProvider fails
                     !.ran = TRUE, !.status = WriteStatus(q, "500")]]
       \/ \E failed \in 1..Len(Rotations) :                      \* a rotation fails
            slot' = [slot EXCEPT ![q] = [Continue(q) EXCEPT
                        !.ran = TRUE, !.rotated = failed - 1, !.status = WriteStatus(q, "500")]]
       \/ slot' = [slot EXCEPT ![q] = [Continue(q) EXCEPT     \* all succeed
                     !.ran = TRUE, !.rotated = Len(Rotations), !.status = WriteStatus(q, "ok")]]
    /\ UNCHANGED <<server, httpHandler>>

\* The chain is over (ran to its end or aborted): the response is sent.
Respond(q) ==
    /\ slot[q].busy /\ ~Running(q)
    /\ slot' = [slot EXCEPT ![q].busy = FALSE]
    /\ UNCHANGED <<server, httpHandler>>

Next ==
    \/ \E p \in BOOLEAN : WithAuth(p) \/ WithGroupAuth(p)
    \/ \E g \in PluginGroups : RegisterPluginRoutes(g)
    \/ build
    \/ \E q \in Requests :
          Arrive(q) \/ Auth(q) \/ RequireAdmin(q) \/ MaintenanceMode(q)
          \/ Handler(q) \/ Stats(q) \/ Ping(q) \/ KeyRotate(q) \/ Respond(q)

Spec == Init /\ [][Next]_vars

-----------------------------------------------------------------------------
\* Tag filters: maps from a tag key to a tag value.
TagFilters == UNION {[K -> {"prod", "dev", ""}] : K \in SUBSET {"env", ""}}

TypeOK ==
    /\ server \in [auth : AuthMiddlewares, plugins : SUBSET PluginShapes]
    /\ httpHandler \in [built : BOOLEAN, auth : AuthMiddlewares, plugins : SUBSET PluginShapes]
    /\ slot \in [Requests -> [chain : {rt.chain : rt \in Routes(PluginShapes)} \cup {<<>>},
                              route : DOMAIN RouteChains \cup {"plugin", "none"},
                              secured : BOOLEAN, caller : Callers,
                              index : 1..5, aborted : BOOLEAN, status : Statuses,
                              ran : BOOLEAN, busy : BOOLEAN, tags : StatsInputs,
                              queried : BOOLEAN, filter : TagFilters,
                              rotated : 0..Len(Rotations)]]

(***************************************************************************)
(* A request answered with an error status had no effect: when auth,      *)
(* requireAdmin or maintenanceMode refuse a request, the route's handler  *)
(* never runs, so nothing a refused caller asked for is done.             *)
(***************************************************************************)
RefusedRequestHasNoEffect ==
    \A q \in Requests :
        (~slot[q].busy /\ slot[q].status \in {"401", "405"}) => ~slot[q].ran

(***************************************************************************)
(* A handler runs only for a caller its route admits: on a server built   *)
(* with an auth provider, a secured route (fixed, or plugin with Secured, *)
(* whatever its other flag) never serves an unauthenticated caller; an    *)
(* admin-only route (DELETE task, PUT resolution or step, key-rotate)     *)
(* serves only an admin identity, so nobody when no provider was set.    *)
(* Set-up calls after build change none of this.                          *)
(***************************************************************************)
\* The routes the code documents as admin-only: "Admin rights required",
\* "Admin users only." in their fizz descriptions, and the "// admin" comment.
AdminDocumented == {"DeleteTask", "EditTaskResolution", "EditTaskResolutionStep", "ReencryptData"}

ServedCallerIsAuthorized ==
    \A q \in Requests :
        slot[q].ran =>
            /\ slot[q].secured /\ httpHandler.auth # "noop" => slot[q].caller # "anonymous"
            /\ slot[q].route \in AdminDocumented => Identity(q) = "admin"

(***************************************************************************)
(* What a tag list means as a filter, stated over the whole list: it is   *)
(* accepted iff every tag has the form key=value with both parts          *)
(* non-empty, and each key is filtered by the value of its last tag.      *)
(***************************************************************************)
TagsWellFormed(in) == \A i \in DOMAIN in : Len(in[i]) = 2 /\ in[i][1] # "" /\ in[i][2] # ""

TagFilterOf(in) ==
    LET Last(k) == Max({i \in DOMAIN in : in[i][1] = k})
    IN  [k \in {in[i][1] : i \in DOMAIN in} |-> in[Last(k)][2]]

\* The Stats handler queries the task counts only for a well-formed tag
\* list, and with exactly the filter that list means; a malformed tag is
\* answered 400 and never reaches task.LoadStateCount.
StatsFiltersByItsTags ==
    \A q \in Requests :
        /\ slot[q].queried => /\ TagsWellFormed(slot[q].tags)
                              /\ slot[q].filter = TagFilterOf(slot[q].tags)
        /\ slot[q].status = "400" => ~TagsWellFormed(slot[q].tags)


=============================================================================
