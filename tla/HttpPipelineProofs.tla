------------------------- MODULE HttpPipelineProofs -------------------------
(***************************************************************************)
(* TLAPS proofs about HttpPipeline, for every environment, all size limits *)
(* and bodies cut into messages of any size.                               *)
(*                                                                         *)
(* The properties follow from the inductive invariant PipelineInv.  Its    *)
(* parts: an exception travels outwards past layers that know whether a    *)
(* response has begun (OneAnswerBegins), what is raised is one of six      *)
(* kinds whose status the route declares (RaisedAsDeclared), the bytes     *)
(* counted and the bytes spooled agree until the limit (BytesAreCounted),  *)
(* and the dependencies solved so far were all met (GuardsMet).            *)
(***************************************************************************)
EXTENDS HttpPipeline, TLAPS

----------------------------------------------------------------------------
(* The inductive invariant.                                                *)

\* No response has begun.
Working == {"enter", "json", "guards", "form", "handler"}

Framework == {"RequestValidationError", "SQLAlchemyError", "HTTPException",
              "_RequestBodyTooLarge", "Exception"}

Raisable == [kind : {"ApiError"}, status : 400 .. 499] \cup [kind : Framework]

\* Control is where the phase says.
WhereControlIs ==
    /\ wire \in Seq(Answer)
    /\ phase # "idle" => req.route \in Routes /\ req.origin \in Origins
    /\ phase = "enter" => at \in 1 .. 6
    /\ phase \in {"json", "guards", "form", "handler"} => at = 7
    /\ phase \in {"idle", "enter", "json"} => step = 0
    /\ phase \in {"guards", "form", "handler"} => step <= Len(Route.guards)
    /\ phase \in {"form", "handler"} => step = Len(Route.guards)
    /\ phase = "json" => Route.body = "json"
    /\ phase = "form" => IsUpload
    /\ raised # None => raised \in Raisable
    /\ phase = "raise" => raised \in Raisable

\* At most one response begins; the exception that follows a failed send is
\* outside the layer that answered, and the layers it will meet know.
OneAnswerBegins ==
    /\ Len(wire) <= 1
    /\ phase \in Working \cup {"idle"} => wire = <<>> /\ started = {}
    /\ phase = "raise" => at \in 1 .. 6
    /\ phase = "raise" /\ wire = <<>> => at >= 4 /\ started = {}
    /\ phase = "raise" /\ wire # <<>> =>
          /\ at < Level(wire[1].from)
          /\ \A l \in Trackers : Level(l) < Level(wire[1].from) => l \in started
    /\ phase = "done" => Len(wire) = 1

\* What is on its way out has a status the route declares, or becomes the 500
\* of SanitizedExceptionMiddleware.
RaisedAsDeclared ==
    phase = "raise" /\ wire = <<>> =>
        /\ raised.kind = "ApiError" => raised.status \in Route.declares
        /\ raised.kind = "RequestValidationError" => Route.params \/ 422 \in Route.declares
        /\ raised.kind = "_RequestBodyTooLarge" => at >= 5 /\ IsUpload

\* The bytes of the upload, and what an exception on its way out says of them.
BytesAreCounted ==
    /\ phase \in Working \cup {"idle"} => received = spooled
    /\ spooled <= MAX_UPLOAD_REQUEST_BYTES
    /\ phase = "raise" /\ wire = <<>> /\ received > MAX_UPLOAD_REQUEST_BYTES =>
          raised.kind = "_RequestBodyTooLarge"
    /\ phase = "raise" /\ wire = <<>> =>
          /\ raised.kind = "_RequestBodyTooLarge" => received > MAX_UPLOAD_REQUEST_BYTES
          /\ raised.kind = "ApiError" /\ raised.status = 413 => spooled > MAX_CSV_BYTES

\* What a dependency has seen of the request when it let it pass.
Met(guard) ==
    /\ guard = "origin" =>
          /\ TrustedOrigin(req.origin, req.referer)
          /\ req.origin = <<>> => req.referer \in Origins
    /\ guard = "session" => req.cookies \in Cookies /\ req.cookies[CookieName] = "live"
    /\ guard = "csrf" =>
          req.csrf \in HeaderValues(CsrfTokens) /\ ParseCsrf(req.csrf) = "own"

GuardsMet ==
    phase \in {"guards", "form", "handler"} =>
        \A k \in 1 .. step : Met(Route.guards[k])

\* Where an answer comes from and what that says of it.
AnswersFitTheirLayer ==
    \A i \in DOMAIN wire :
        /\ wire[i].from \in Layers \ {"server_error", "trace"}
        /\ wire[i].from = "cors" => req.preflight /\ wire[i].status \in {200, 400}

PipelineInv ==
    /\ PipelineTypeOK
    /\ WhereControlIs
    /\ OneAnswerBegins
    /\ RaisedAsDeclared
    /\ BytesAreCounted
    /\ GuardsMet
    /\ AnswersFitTheirLayer
    /\ AnswersCarryTraceAndCors
    /\ SizeLimitIsExact
    /\ AnswersAsDeclared

----------------------------------------------------------------------------
(* The stack and the routes.                                               *)

LEMMA StackFacts ==
    /\ Len(Stack) = 7
    /\ Stack[1] = "server_error" /\ Stack[2] = "trace" /\ Stack[3] = "cors"
    /\ Stack[4] = "sanitized" /\ Stack[5] = "limit" /\ Stack[6] = "exceptions"
    /\ Stack[7] = "router"
    /\ Layers = {"server_error", "trace", "cors", "sanitized", "limit", "exceptions",
                 "router"}
<1>1. /\ Len(Stack) = 7
      /\ Stack[1] = "server_error" /\ Stack[2] = "trace" /\ Stack[3] = "cors"
      /\ Stack[4] = "sanitized" /\ Stack[5] = "limit" /\ Stack[6] = "exceptions"
      /\ Stack[7] = "router"
    BY DEF Stack
<1>2. \A i \in 1 .. 7 : i \in {1, 2, 3, 4, 5, 6, 7}
    OBVIOUS
<1> QED
    BY <1>1, <1>2 DEF Layers

LEMMA LevelIs ==
    ASSUME NEW i \in 1 .. 7
    PROVE  Level(Stack[i]) = i
<1>1. \A j \in 1 .. 7 : Stack[j] = Stack[i] => j = i
    BY StackFacts
<1> QED
    BY <1>1, StackFacts DEF Level

LEMMA LevelFacts ==
    /\ Level("server_error") = 1 /\ Level("trace") = 2 /\ Level("cors") = 3
    /\ Level("sanitized") = 4 /\ Level("limit") = 5 /\ Level("exceptions") = 6
    /\ Level("router") = 7
BY LevelIs, StackFacts

LEMMA RoutesFact ==
    Routes = {"register", "login", "me", "logout", "create_dataset", "list_datasets",
              "get_dataset", "upload_csv", "create_rule", "list_rules", "delete_rule",
              "create_analysis", "list_analyses", "get_analysis"}
BY DEF Routes, Endpoint

\* The success status of a route, and what it declares of the errors that any
\* of its layers can raise.
StatusesFit(r, e) ==
    /\ e.ok \in 200 .. 299
    /\ e.params \in BOOLEAN
    /\ 500 \in e.declares /\ 503 \in e.declares
    /\ e.body = "json" => 422 \in e.declares
    /\ e.body = "form" <=> r = "upload_csv"
    /\ \A o \in DOMAIN e.maps :
          /\ e.maps[o] \in 400 .. 499
          /\ e.maps[o] \in e.declares
          /\ e.maps[o] = 413 => r = "upload_csv" /\ o = "FileTooLarge"
    /\ r = "upload_csv" =>
          /\ 413 \in e.declares
          /\ "HTTPException" \in DOMAIN e.maps
          /\ e.maps["HTTPException"] = 400

\* The dependencies of a route: their number, the errors they deny with, and
\* which of them the routes that need a session or a token have.
GuardsFit(r, e) ==
    /\ Len(e.guards) \in 1 .. 4
    /\ \A k \in 1 .. Len(e.guards) :
          /\ e.guards[k] \in {"origin", "csrf"} => 403 \in e.declares
          /\ e.guards[k] = "session" => 401 \in e.declares
          /\ e.guards[k] \in {"json", "multipart"} => 415 \in e.declares
    /\ r \notin SigningRoutes => \E k \in 1 .. Len(e.guards) : e.guards[k] = "session"
    /\ r \in Mutations \cup SigningRoutes =>
          \E k \in 1 .. Len(e.guards) : e.guards[k] = "origin"
    /\ r \in Mutations => \E k \in 1 .. Len(e.guards) : e.guards[k] = "csrf"

LEMMA RouteStatuses ==
    ASSUME NEW r \in Routes
    PROVE  StatusesFit(r, Endpoint[r])
<1>1. StatusesFit("register", Register)
    BY DEF StatusesFit, Register
<1>2. StatusesFit("login", Login)
    BY DEF StatusesFit, Login
<1>3. StatusesFit("me", Me)
    BY DEF StatusesFit, Me, NoErrors
<1>4. StatusesFit("logout", Logout)
    BY DEF StatusesFit, Logout
<1>5. StatusesFit("create_dataset", CreateDataset)
    BY DEF StatusesFit, CreateDataset
<1>6. StatusesFit("list_datasets", ListDatasets)
    BY DEF StatusesFit, ListDatasets, NoErrors
<1>7. StatusesFit("get_dataset", GetDataset)
    BY DEF StatusesFit, GetDataset
<1>8. StatusesFit("upload_csv", UploadCsv)
    BY DEF StatusesFit, UploadCsv
<1>9. StatusesFit("create_rule", CreateRule)
    BY DEF StatusesFit, CreateRule
<1>10. StatusesFit("list_rules", ListRules)
    BY DEF StatusesFit, ListRules
<1>11. StatusesFit("delete_rule", DeleteRule)
    BY DEF StatusesFit, DeleteRule
<1>12. StatusesFit("create_analysis", CreateAnalysis)
    BY DEF StatusesFit, CreateAnalysis
<1>13. StatusesFit("list_analyses", ListAnalyses)
    BY DEF StatusesFit, ListAnalyses
<1>14. StatusesFit("get_analysis", GetAnalysis)
    BY DEF StatusesFit, GetAnalysis
<1> QED
    BY <1>1, <1>2, <1>3, <1>4, <1>5, <1>6, <1>7,
       <1>8, <1>9, <1>10, <1>11, <1>12, <1>13, <1>14, RoutesFact DEF Endpoint

LEMMA RouteGuards ==
    ASSUME NEW r \in Routes
    PROVE  GuardsFit(r, Endpoint[r])
<1>1. GuardsFit("register", Register)
    BY DEF GuardsFit, Register, Mutations, SigningRoutes
<1>2. GuardsFit("login", Login)
    BY DEF GuardsFit, Login, Mutations, SigningRoutes
<1>3. GuardsFit("me", Me)
    BY DEF GuardsFit, Me, Mutations, SigningRoutes
<1>4. GuardsFit("logout", Logout)
    BY DEF GuardsFit, Logout, Mutations, SigningRoutes
<1>5. GuardsFit("create_dataset", CreateDataset)
    BY DEF GuardsFit, CreateDataset, Mutations, SigningRoutes
<1>6. GuardsFit("list_datasets", ListDatasets)
    BY DEF GuardsFit, ListDatasets, Mutations, SigningRoutes
<1>7. GuardsFit("get_dataset", GetDataset)
    BY DEF GuardsFit, GetDataset, Mutations, SigningRoutes
<1>8. GuardsFit("upload_csv", UploadCsv)
    BY DEF GuardsFit, UploadCsv, Mutations, SigningRoutes
<1>9. GuardsFit("create_rule", CreateRule)
    BY DEF GuardsFit, CreateRule, Mutations, SigningRoutes
<1>10. GuardsFit("list_rules", ListRules)
    BY DEF GuardsFit, ListRules, Mutations, SigningRoutes
<1>11. GuardsFit("delete_rule", DeleteRule)
    BY DEF GuardsFit, DeleteRule, Mutations, SigningRoutes
<1>12. GuardsFit("create_analysis", CreateAnalysis)
    BY DEF GuardsFit, CreateAnalysis, Mutations, SigningRoutes
<1>13. GuardsFit("list_analyses", ListAnalyses)
    BY DEF GuardsFit, ListAnalyses, Mutations, SigningRoutes
<1>14. GuardsFit("get_analysis", GetAnalysis)
    BY DEF GuardsFit, GetAnalysis, Mutations, SigningRoutes
<1> QED
    BY <1>1, <1>2, <1>3, <1>4, <1>5, <1>6, <1>7,
       <1>8, <1>9, <1>10, <1>11, <1>12, <1>13, <1>14, RoutesFact DEF Endpoint

\* Every refusal of a service has an except clause in its route.
LEMMA RefusalsAreCaught ==
    ASSUME NEW r \in Routes
    PROVE  Raises[r] \subseteq DOMAIN Endpoint[r].maps
BY RoutesFact DEF Raises, IdentityRaises, DatasetRaises, AnalysisRaises, Endpoint,
   NoErrors, Register, Login, Me, Logout, CreateDataset, ListDatasets, GetDataset,
   UploadCsv, CreateRule, ListRules, DeleteRule, CreateAnalysis, ListAnalyses, GetAnalysis

\* The services' refusals are none of the framework's exceptions.
LEMMA RefusalFacts ==
    /\ Refusals \cap Framework = {}
    /\ "ApiError" \notin Refusals
    /\ "ok" \notin Refusals
    /\ \A r \in Routes : Raises[r] \subseteq Refusals
<1>1. \A r \in Routes : Raises[r] \cap (Framework \cup {"ApiError", "ok"}) = {}
    BY RoutesFact DEF Raises, IdentityRaises, DatasetRaises, AnalysisRaises, Framework
<1> QED
    BY <1>1 DEF Refusals

----------------------------------------------------------------------------
(* Answering, raising and passing on.                                      *)

\* What the one answer of a layer inside the two outermost leaves behind.
Answered(layer, status, envelope) ==
    /\ wire' \in Seq(Answer)
    /\ Len(wire') = 1 /\ DOMAIN wire' = {1} /\ wire' # <<>>
    /\ wire'[1] \in Answer
    /\ wire'[1].status = status /\ wire'[1].from = layer
    /\ wire'[1].envelope <=> envelope
    /\ wire'[1].traced
    /\ wire'[1].cors <=> layer # "cors" /\ CorsAllows(req.origin)
    /\ started' \subseteq Trackers
    /\ \A l \in Trackers : Level(l) < Level(layer) => l \in started'
    /\ \/ phase' = "done" /\ UNCHANGED <<at, raised>>
       \/ /\ phase' = "raise"
          /\ at' = Level(layer) - 1
          /\ raised' = [kind |-> "Exception"]

LEMMA RespondFacts ==
    ASSUME wire = <<>>, started = {},
           NEW layer \in {"cors", "sanitized", "limit", "exceptions", "router"},
           NEW status \in 200 .. 503, NEW envelope \in BOOLEAN,
           Respond(layer, status, envelope)
    PROVE  Answered(layer, status, envelope)
<1> DEFINE outer == {l \in Layers : Level(l) < Level(layer)}
           a == [status |-> status, envelope |-> envelope, traced |-> "trace" \in outer,
                 cors |-> "cors" \in outer /\ CorsAllows(req.origin), from |-> layer]
<1>1. /\ wire' = Append(wire, a)
      /\ started' = started \cup (outer \cap Trackers)
      /\ \/ phase' = "done" /\ UNCHANGED <<at, raised>>
         \/ /\ phase' = "raise"
            /\ at' = Level(layer) - 1
            /\ raised' = [kind |-> "Exception"]
    BY DEF Respond, RaiseFrom, TrackedSend
<1>2. /\ "trace" \in outer
      /\ "cors" \in outer <=> layer # "cors"
      /\ layer \in Layers
    BY StackFacts, LevelFacts
<1>3. /\ a \in Answer
      /\ a.status = status /\ a.from = layer /\ (a.envelope <=> envelope)
      /\ a.traced
      /\ a.cors <=> layer # "cors" /\ CorsAllows(req.origin)
    <2> HIDE DEF outer
    <2>1. CorsAllows(req.origin) \in BOOLEAN
        BY DEF CorsAllows
    <2> QED
        BY <1>2, <2>1 DEF Answer
<1>4. \A l \in Trackers : Level(l) < Level(layer) => l \in started'
    BY <1>1, StackFacts DEF Trackers
<1>5. /\ wire' \in Seq(Answer) /\ Len(wire') = 1 /\ DOMAIN wire' = {1}
      /\ wire' # <<>> /\ wire'[1] = a
    <2> HIDE DEF a
    <2>1. wire' = <<a>>
        BY <1>1
    <2> QED
        BY <2>1, <1>3
<1> HIDE DEF a, outer
<1> QED
    BY <1>1, <1>3, <1>4, <1>5 DEF Answered

\* The first answer of a request: what its layer has to know of it.
AnswerFits(layer, status, envelope) ==
    /\ layer = "cors" => req.preflight /\ status \in {200, 400}
    /\ status >= 500 => envelope
    /\ status = 413 => \/ received > MAX_UPLOAD_REQUEST_BYTES
                       \/ DeclaredTooLarge(req'.length)
                       \/ spooled > MAX_CSV_BYTES
    /\ received > MAX_UPLOAD_REQUEST_BYTES => status = 413
    /\ ~req.preflight /\ (status = 400 => envelope) =>
          status \in {Route.ok} \cup Route.declares \cup (IF Route.params THEN {422} ELSE {})

\* Nothing is on the wire, and the step reads no body and leaves the request as it is but
\* for its declared length.
FirstAnswer ==
    /\ phase \in Working \cup {"raise"}
    /\ wire = <<>>
    /\ req' \in Request
    /\ req'.route = req.route /\ req'.preflight = req.preflight /\ req'.origin = req.origin
    /\ UNCHANGED <<step, received, spooled>>

LEMMA Answering ==
    ASSUME PipelineInv, FirstAnswer,
           NEW layer \in {"cors", "sanitized", "limit", "exceptions", "router"},
           NEW status \in 200 .. 503, NEW envelope \in BOOLEAN,
           AnswerFits(layer, status, envelope), Respond(layer, status, envelope)
    PROVE  PipelineInv'
<1> USE DEF FirstAnswer
<1>0. /\ started = {} /\ req.route \in Routes /\ req.origin \in Origins
      /\ raised \in Exceptions \cup {None}
    BY DEF PipelineInv, OneAnswerBegins, WhereControlIs, PipelineTypeOK, Working
<1>1. /\ wire' \in Seq(Answer)
      /\ Len(wire') = 1 /\ DOMAIN wire' = {1} /\ wire' # <<>>
      /\ wire'[1] \in Answer
      /\ wire'[1].status = status /\ wire'[1].from = layer
      /\ wire'[1].envelope <=> envelope
      /\ wire'[1].traced
      /\ wire'[1].cors <=> layer # "cors" /\ CorsAllows(req.origin)
      /\ started' \subseteq Trackers
      /\ \A l \in Trackers : Level(l) < Level(layer) => l \in started'
      /\ \/ phase' = "done" /\ UNCHANGED <<at, raised>>
         \/ /\ phase' = "raise"
            /\ at' = Level(layer) - 1
            /\ raised' = [kind |-> "Exception"]
    <2>1. Answered(layer, status, envelope)
        <3>1. CASE envelope = TRUE
            BY <1>0, <3>1, RespondFacts
        <3>2. CASE envelope = FALSE
            BY <1>0, <3>2, RespondFacts
        <3> QED
            BY <3>1, <3>2
    <2> QED
        BY <2>1 DEF Answered
<1>2. [kind |-> "Exception"] \in Exceptions /\ [kind |-> "Exception"] \in Raisable
      /\ [kind |-> "Exception"].kind \notin Refusals
    BY RefusalFacts DEF Exceptions, Raisable, Framework
<1>3. PipelineTypeOK'
    <2>1. /\ at \in 0 .. Len(Stack) /\ Level(layer) - 1 \in 0 .. Len(Stack)
          /\ step \in 0 .. 4 /\ spooled \in 0 .. received
          /\ received \in 0 .. MAX_UPLOAD_REQUEST_BYTES + MaxChunk
        BY StackFacts, LevelFacts DEF PipelineInv, PipelineTypeOK
    <2> QED
        BY <1>0, <1>1, <1>2, <2>1 DEF PipelineTypeOK
<1>4. WhereControlIs'
    BY <1>0, <1>1, <1>2 DEF PipelineInv, WhereControlIs
<1>5. OneAnswerBegins'
    <2>1. Level(layer) \in 3 .. 7
        BY LevelFacts
    <2> QED
        BY <1>0, <1>1, <2>1 DEF OneAnswerBegins, Working
<1>6. RaisedAsDeclared' /\ GuardsMet'
    BY <1>1 DEF RaisedAsDeclared, GuardsMet
<1>7. BytesAreCounted'
    BY <1>1 DEF BytesAreCounted, PipelineInv, Working
<1>8. AnswersFitTheirLayer'
    BY <1>1, StackFacts DEF AnswersFitTheirLayer, AnswerFits
<1>9. AnswersCarryTraceAndCors'
    BY <1>1 DEF AnswersCarryTraceAndCors, AnswerFits, CorsAllows
<1>10. SizeLimitIsExact'
    BY <1>1 DEF SizeLimitIsExact, AnswerFits, PipelineInv, DeclaredTooLarge
<1>11. AnswersAsDeclared'
    <2>1. raised' # None => raised'.kind \notin Refusals
        BY <1>1, <1>2, RefusalFacts DEF PipelineInv, WhereControlIs, Raisable
    <2>2. Route' = Route
        BY DEF Route
    <2> QED
        BY <1>1, <2>1, <2>2 DEF AnswersAsDeclared, AnswerFits
<1> QED
    BY <1>3, <1>4, <1>5, <1>6, <1>7, <1>8, <1>9, <1>10, <1>11 DEF PipelineInv

\* What the router may raise.
RaiseFits(e) ==
    /\ e.kind = "ApiError" =>
          /\ e.status \in Route.declares
          /\ e.status = 413 => spooled > MAX_CSV_BYTES
    /\ e.kind = "RequestValidationError" => Route.params \/ 422 \in Route.declares
    /\ e.kind = "_RequestBodyTooLarge" => IsUpload
    /\ e.kind = "_RequestBodyTooLarge" <=> received' > MAX_UPLOAD_REQUEST_BYTES

LEMMA Raising ==
    ASSUME PipelineInv, phase \in Working, NEW e \in Raisable,
           RaiseFits(e), RaiseFrom("router", e),
           req' \in Request, req'.route = req.route, req'.origin = req.origin,
           received' \in 0 .. MAX_UPLOAD_REQUEST_BYTES + MaxChunk, spooled <= received',
           UNCHANGED <<step, spooled, started, wire>>
    PROVE  PipelineInv'
<1>0. /\ wire = <<>> /\ started = {} /\ req.route \in Routes /\ req.origin \in Origins
      /\ spooled \in 0 .. received /\ spooled <= MAX_UPLOAD_REQUEST_BYTES
      /\ step \in 0 .. 4 /\ received \in Nat
    BY PipelineAssumption DEF PipelineInv, OneAnswerBegins, WhereControlIs, BytesAreCounted,
       PipelineTypeOK, Working
<1>1. phase' = "raise" /\ at' = 6 /\ raised' = e
    BY LevelFacts DEF RaiseFrom
<1>2. Route' = Route /\ (IsUpload <=> IsUpload')
    BY DEF Route, IsUpload
<1>3. e \in Exceptions
    BY DEF Raisable, Exceptions, Framework
<1>4. PipelineTypeOK'
    BY <1>0, <1>1, <1>3, StackFacts, PipelineAssumption DEF PipelineTypeOK, Trackers
<1>5. WhereControlIs'
    BY <1>0, <1>1 DEF WhereControlIs
<1>6. OneAnswerBegins'
    BY <1>0, <1>1 DEF OneAnswerBegins, Working
<1>7. RaisedAsDeclared' /\ GuardsMet'
    BY <1>1, <1>2 DEF RaisedAsDeclared, GuardsMet, RaiseFits
<1>8. BytesAreCounted'
    BY <1>0, <1>1 DEF BytesAreCounted, RaiseFits, Working
<1>9. /\ AnswersFitTheirLayer' /\ AnswersCarryTraceAndCors' /\ SizeLimitIsExact'
      /\ AnswersAsDeclared'
    BY <1>0 DEF AnswersFitTheirLayer, AnswersCarryTraceAndCors, SizeLimitIsExact,
       AnswersAsDeclared
<1> QED
    BY <1>4, <1>5, <1>6, <1>7, <1>8, <1>9 DEF PipelineInv

LEMMA Propagating ==
    ASSUME PipelineInv, phase = "raise", at \in 2 .. 6, Propagate,
           UNCHANGED <<step, req, received, spooled>>,
           wire = <<>> => /\ at >= 5
                          /\ raised.kind = "_RequestBodyTooLarge" => at >= 6
    PROVE  PipelineInv'
<1>1. /\ phase' = "raise" /\ at' = at - 1 /\ at' \in 1 .. 5
      /\ UNCHANGED <<started, raised, wire>>
    BY DEF Propagate
<1>2. Route' = Route /\ (IsUpload <=> IsUpload')
    BY DEF Route, IsUpload
<1>3. PipelineTypeOK'
    BY <1>1, StackFacts DEF PipelineInv, PipelineTypeOK
<1>4. WhereControlIs'
    BY <1>1, <1>2 DEF PipelineInv, WhereControlIs
<1>5. OneAnswerBegins'
    <2>1. wire # <<>> => Level(wire[1].from) \in 1 .. 7
        <3> SUFFICES ASSUME wire # <<>>
                     PROVE  Level(wire[1].from) \in 1 .. 7
            OBVIOUS
        <3>1. 1 \in DOMAIN wire
            BY DEF PipelineInv, WhereControlIs
        <3> QED
            BY <3>1, LevelFacts, StackFacts DEF PipelineInv, AnswersFitTheirLayer
    <2> QED
        BY <1>1, <2>1 DEF PipelineInv, OneAnswerBegins, Working
<1>6. RaisedAsDeclared' /\ GuardsMet'
    BY <1>1, <1>2 DEF PipelineInv, RaisedAsDeclared, GuardsMet
<1>7. BytesAreCounted'
    BY <1>1 DEF PipelineInv, BytesAreCounted, Working
<1>8. AnswersFitTheirLayer' /\ AnswersCarryTraceAndCors'
    BY <1>1 DEF PipelineInv, AnswersFitTheirLayer, AnswersCarryTraceAndCors, CorsAllows
<1>9. SizeLimitIsExact' /\ AnswersAsDeclared'
    BY <1>1, <1>2 DEF PipelineInv, SizeLimitIsExact, AnswersAsDeclared, DeclaredTooLarge
<1> QED
    BY <1>3, <1>4, <1>5, <1>6, <1>7, <1>8, <1>9 DEF PipelineInv

\* A step on the way down or in the route: nothing is answered or raised.
LEMMA Proceeding ==
    ASSUME PipelineInv, phase \in Working, phase' \in Working,
           UNCHANGED <<started, raised, wire>>,
           req' \in Request, req'.route = req.route, req'.origin = req.origin,
           phase' = "enter" => at' \in 1 .. 6,
           phase' # "enter" => at' = 7,
           step' \in 0 .. Len(Route.guards),
           phase' \in {"enter", "json"} => step' = 0,
           phase' \in {"form", "handler"} => step' = Len(Route.guards),
           phase' = "json" => Route.body = "json",
           phase' = "form" => IsUpload,
           received' = spooled', spooled' \in 0 .. MAX_UPLOAD_REQUEST_BYTES,
           GuardsMet'
    PROVE  PipelineInv'
<1>0. /\ wire = <<>> /\ started = {} /\ req.route \in Routes /\ req.origin \in Origins
      /\ raised \in Exceptions \cup {None}
      /\ raised # None => raised \in Raisable
    BY DEF PipelineInv, OneAnswerBegins, WhereControlIs, PipelineTypeOK, Working
<1>1. Route' = Route /\ (IsUpload <=> IsUpload')
    BY DEF Route, IsUpload
<1>2. Len(Route.guards) \in 1 .. 4
    BY <1>0, RouteGuards DEF GuardsFit, Route
<1>3. PipelineTypeOK'
    <2>0. at' \in 0 .. Len(Stack)
        <3>1. CASE phase' = "enter"
            BY <3>1, StackFacts
        <3>2. CASE phase' # "enter"
            BY <3>2, StackFacts
        <3> QED
            BY <3>1, <3>2
    <2>1. step' \in 0 .. 4
        <3>1. \A n \in 1 .. 4 : 0 .. n \subseteq 0 .. 4
            OBVIOUS
        <3> QED
            BY <1>2, <3>1
    <2>2. /\ received' \in 0 .. MAX_UPLOAD_REQUEST_BYTES + MaxChunk
          /\ spooled' \in 0 .. received'
        BY PipelineAssumption
    <2> QED
        BY <1>0, <2>0, <2>1, <2>2 DEF PipelineTypeOK, Working
<1>4. WhereControlIs'
    BY <1>0, <1>1 DEF WhereControlIs, Working
<1>5. OneAnswerBegins' /\ RaisedAsDeclared'
    BY <1>0 DEF OneAnswerBegins, RaisedAsDeclared, Working
<1>6. BytesAreCounted'
    BY <1>0 DEF BytesAreCounted, Working
<1>7. /\ AnswersFitTheirLayer' /\ AnswersCarryTraceAndCors' /\ SizeLimitIsExact'
      /\ AnswersAsDeclared'
    BY <1>0 DEF AnswersFitTheirLayer, AnswersCarryTraceAndCors, SizeLimitIsExact,
       AnswersAsDeclared
<1> QED
    BY <1>3, <1>4, <1>5, <1>6, <1>7 DEF PipelineInv

----------------------------------------------------------------------------
(* Down the middleware and through the route.                              *)

\* What is known while no response has begun.
LEMMA WhileWorking ==
    ASSUME PipelineInv, phase \in Working
    PROVE  /\ wire = <<>> /\ started = {}
           /\ req \in Request /\ req.route \in Routes /\ req.origin \in Origins
           /\ received = spooled /\ spooled \in 0 .. MAX_UPLOAD_REQUEST_BYTES
           /\ Len(Route.guards) \in 1 .. 4
           /\ step \in 0 .. Len(Route.guards)
           /\ GuardsFit(req.route, Route)
           /\ StatusesFit(req.route, Route)
<1>1. /\ wire = <<>> /\ started = {}
      /\ req \in Request /\ req.route \in Routes /\ req.origin \in Origins
      /\ received = spooled
    BY DEF PipelineInv, PipelineTypeOK, OneAnswerBegins, WhereControlIs, BytesAreCounted,
       Working
<1>2. spooled \in 0 .. MAX_UPLOAD_REQUEST_BYTES
    <2>1. /\ received \in 0 .. MAX_UPLOAD_REQUEST_BYTES + MaxChunk /\ spooled \in 0 .. received
          /\ spooled <= MAX_UPLOAD_REQUEST_BYTES
        BY DEF PipelineInv, PipelineTypeOK, BytesAreCounted
    <2> QED
        BY <2>1, PipelineAssumption
<1>3. GuardsFit(req.route, Route) /\ StatusesFit(req.route, Route)
    BY <1>1, RouteGuards, RouteStatuses DEF Route
<1>4. Len(Route.guards) \in 1 .. 4
    BY <1>3 DEF GuardsFit
<1>5. step \in 0 .. Len(Route.guards)
    <2>1. step \in 0 .. 4 /\ (step = 0 \/ step <= Len(Route.guards))
        BY DEF PipelineInv, PipelineTypeOK, WhereControlIs, Working
    <2> QED
        BY <2>1, <1>4
<1> QED
    BY <1>1, <1>2, <1>3, <1>4, <1>5

LEMMA InitInv ==
    ASSUME Init
    PROVE  PipelineInv
<1> USE DEF Init
<1>1. PipelineTypeOK
    <2>1. NoRequest \in Request
        BY DEF NoRequest, Request, Lengths
    <2> QED
        BY <2>1, StackFacts, PipelineAssumption DEF PipelineTypeOK, Trackers
<1>2. WhereControlIs /\ OneAnswerBegins /\ RaisedAsDeclared
    BY DEF WhereControlIs, OneAnswerBegins, RaisedAsDeclared, Working
<1>3. BytesAreCounted /\ GuardsMet
    BY PipelineAssumption DEF BytesAreCounted, GuardsMet, Working
<1>4. /\ AnswersFitTheirLayer /\ AnswersCarryTraceAndCors /\ SizeLimitIsExact
      /\ AnswersAsDeclared
    BY PipelineAssumption DEF AnswersFitTheirLayer, AnswersCarryTraceAndCors,
       SizeLimitIsExact, AnswersAsDeclared
<1> QED
    BY <1>1, <1>2, <1>3, <1>4 DEF PipelineInv

LEMMA ArriveInv ==
    ASSUME PipelineInv, NEW route \in Routes, NEW origin \in Origins,
           NEW preflight \in BOOLEAN, Arrive(route, origin, preflight)
    PROVE  PipelineInv'
<1>0. /\ phase = "idle" /\ phase' = "enter" /\ at' = 1
      /\ UNCHANGED <<step, received, spooled, started, raised, wire>>
    BY DEF Arrive
<1>1. req' \in Request /\ req'.route = route /\ req'.origin = origin
    BY DEF Arrive, NoRequest, Request, Lengths
<1>2. /\ wire = <<>> /\ started = {} /\ step = 0 /\ received = spooled
      /\ raised \in Exceptions \cup {None}
      /\ raised # None => raised \in Raisable
    BY <1>0 DEF PipelineInv, OneAnswerBegins, WhereControlIs, PipelineTypeOK, BytesAreCounted
<1>3. PipelineTypeOK'
    BY <1>0, <1>1, <1>2, StackFacts DEF PipelineInv, PipelineTypeOK
<1>4. WhereControlIs'
    BY <1>0, <1>1, <1>2 DEF WhereControlIs
<1>5. OneAnswerBegins' /\ RaisedAsDeclared' /\ GuardsMet'
    BY <1>0, <1>2 DEF OneAnswerBegins, RaisedAsDeclared, GuardsMet, Working
<1>6. BytesAreCounted'
    BY <1>0, <1>2 DEF PipelineInv, BytesAreCounted
<1>7. /\ AnswersFitTheirLayer' /\ AnswersCarryTraceAndCors' /\ SizeLimitIsExact'
      /\ AnswersAsDeclared'
    BY <1>0, <1>2, <1>6 DEF BytesAreCounted, AnswersFitTheirLayer, AnswersCarryTraceAndCors,
       SizeLimitIsExact, AnswersAsDeclared
<1> QED
    BY <1>3, <1>4, <1>5, <1>6, <1>7 DEF PipelineInv

LEMMA DescendInv ==
    ASSUME PipelineInv, phase = "enter", at \in 1 .. 5, Descend,
           req' \in Request, req'.route = req.route, req'.origin = req.origin,
           UNCHANGED <<step, received, spooled>>
    PROVE  PipelineInv'
<1>1. phase \in Working
    BY DEF Working
<1>2. phase' = "enter" /\ at' \in 1 .. 6 /\ UNCHANGED <<started, raised, wire>>
    BY DEF Descend
<1>3. step = 0
    BY DEF PipelineInv, WhereControlIs
<1>4. GuardsMet'
    BY <1>2 DEF GuardsMet
<1> QED
    BY <1>1, <1>2, <1>3, <1>4, WhileWorking, Proceeding DEF Working

LEMMA PassDownInv ==
    ASSUME PipelineInv, PassDown
    PROVE  PipelineInv'
<1>1. /\ phase = "enter" /\ at \in 1 .. 6
      /\ Stack[at] \in {"server_error", "trace", "sanitized"}
      /\ req \in Request /\ Descend /\ UNCHANGED <<step, req, received, spooled>>
    BY DEF PassDown, PipelineInv, WhereControlIs, PipelineTypeOK
<1>2. at \in 1 .. 5
    BY <1>1, StackFacts
<1> QED
    BY <1>1, <1>2, DescendInv

LEMMA CorsInv ==
    ASSUME PipelineInv, Cors
    PROVE  PipelineInv'
<1>1. /\ phase = "enter" /\ at \in 1 .. 6 /\ Stack[at] = "cors"
      /\ UNCHANGED <<step, req, received, spooled>>
    BY DEF Cors, PipelineInv, WhereControlIs
<1>2. at \in 1 .. 5 /\ phase \in Working
    BY <1>1, StackFacts DEF Working
<1>3. /\ wire = <<>> /\ req \in Request /\ req' = req
      /\ received \in 0 .. MAX_UPLOAD_REQUEST_BYTES
    BY <1>1, <1>2, WhileWorking
<1>4. CASE req.preflight
    <2> DEFINE status == IF CorsAllows(req.origin) THEN 200 ELSE 400
    <2>1. Respond("cors", status, FALSE)
        BY <1>4 DEF Cors
    <2>2. status \in {200, 400}
        OBVIOUS
    <2> HIDE DEF status
    <2>3. AnswerFits("cors", status, FALSE)
        BY <1>3, <1>4, <2>2, PipelineAssumption DEF AnswerFits
    <2> QED
        <3>1. FALSE \in BOOLEAN /\ status \in 200 .. 503
            BY <2>2
        <3>2. FirstAnswer
            BY <1>1, <1>2, <1>3 DEF FirstAnswer
        <3> QED
            BY <2>1, <2>3, <3>1, <3>2, Answering, ZenonT(60)
<1>5. CASE ~req.preflight
    BY <1>1, <1>2, <1>3, <1>5, DescendInv DEF Cors
<1> QED
    BY <1>4, <1>5

LEMMA LimitInv ==
    ASSUME PipelineInv, Limit
    PROVE  PipelineInv'
<1>1. /\ phase = "enter" /\ at \in 1 .. 6 /\ Stack[at] = "limit"
      /\ UNCHANGED <<step, received, spooled>>
    BY DEF Limit, PipelineInv, WhereControlIs
<1>2. at \in 1 .. 5 /\ phase \in Working
    BY <1>1, StackFacts DEF Working
<1>3. /\ wire = <<>> /\ req \in Request
      /\ received \in 0 .. MAX_UPLOAD_REQUEST_BYTES
      /\ StatusesFit(req.route, Route)
    BY <1>2, WhileWorking
<1>4. CASE ~IsUpload
    BY <1>1, <1>2, <1>3, <1>4, DescendInv DEF Limit
<1>5. CASE IsUpload
    <2>1. PICK length \in Lengths :
             /\ req' = [req EXCEPT !.length = length]
             /\ IF DeclaredTooLarge(length) THEN Respond("limit", 413, TRUE) ELSE Descend
        BY <1>5 DEF Limit
    <2>2. /\ req' \in Request /\ req'.length = length
          /\ req'.route = req.route /\ req'.preflight = req.preflight
          /\ req'.origin = req.origin
        BY <1>3, <2>1 DEF Request
    <2>3. CASE DeclaredTooLarge(length)
        <3>1. AnswerFits("limit", 413, TRUE)
            BY <1>3, <1>5, <2>2, <2>3, PipelineAssumption DEF AnswerFits, StatusesFit, IsUpload
        <3> QED
            <4>1. TRUE \in BOOLEAN /\ 413 \in 200 .. 503
                OBVIOUS
            <4>2. Respond("limit", 413, TRUE)
                BY <2>1, <2>3, Zenon
            <4>3. FirstAnswer
                BY <1>1, <1>2, <1>3, <2>2 DEF FirstAnswer
            <4> QED
                BY <3>1, <4>1, <4>2, <4>3, Answering, ZenonT(60)
    <2>4. CASE ~DeclaredTooLarge(length)
        BY <1>1, <1>2, <2>1, <2>2, <2>4, DescendInv
    <2> QED
        BY <2>3, <2>4
<1> QED
    BY <1>4, <1>5

LEMMA DispatchInv ==
    ASSUME PipelineInv, Dispatch
    PROVE  PipelineInv'
<1>1. /\ phase = "enter" /\ at \in 1 .. 6 /\ Stack[at] = "exceptions" /\ at' = at + 1
      /\ (phase' = "json" /\ Route.body = "json") \/ phase' = "guards"
      /\ step = 0
      /\ UNCHANGED <<step, req, received, spooled, started, raised, wire>>
    BY DEF Dispatch, PipelineInv, WhereControlIs
<1>2. at' = 7 /\ phase \in Working /\ phase' \in Working
    BY <1>1, StackFacts DEF Working
<1>3. GuardsMet'
    BY <1>1 DEF GuardsMet
<1> QED
    BY <1>1, <1>2, <1>3, WhileWorking, Proceeding

LEMMA ReadJsonInv ==
    ASSUME PipelineInv, ReadJson
    PROVE  PipelineInv'
<1>1. /\ phase = "json" /\ at = 7 /\ step = 0 /\ phase \in Working
      /\ Route.body = "json"
      /\ UNCHANGED <<step, req, received, spooled, started, wire>>
    BY DEF ReadJson, PipelineInv, WhereControlIs, Working
<1>2. CASE phase' = "guards" /\ UNCHANGED <<at, raised>>
    <2>1. GuardsMet'
        BY <1>1 DEF GuardsMet
    <2> QED
        BY <1>1, <1>2, <2>1, WhileWorking, Proceeding DEF Working
<1>3. ASSUME NEW kind \in {"RequestValidationError", "HTTPException"},
             RaiseFrom("router", [kind |-> kind])
      PROVE  PipelineInv'
    <2>1. [kind |-> kind] \in Raisable
        BY DEF Raisable, Framework
    <2>2. RaiseFits([kind |-> kind])
        BY <1>1, WhileWorking, PipelineAssumption DEF RaiseFits, StatusesFit
    <2>3. received' \in 0 .. MAX_UPLOAD_REQUEST_BYTES + MaxChunk /\ spooled <= received'
        BY <1>1, WhileWorking, PipelineAssumption
    <2> QED
        BY <1>1, <1>3, <2>1, <2>2, <2>3, WhileWorking, Raising
<1> QED
    BY <1>2, <1>3 DEF ReadJson

----------------------------------------------------------------------------
(* The dependencies.                                                       *)

\* The dependency that is solved next lets the request pass.
LEMMA AdmitInv ==
    ASSUME PipelineInv, NEW name, GuardIs(name), Admit,
           req' \in Request, req'.route = req.route, req'.origin = req.origin,
           \A guard : Met(guard) \/ guard = name => Met(guard)',
           UNCHANGED <<received, spooled, started, wire>>
    PROVE  PipelineInv'
<1>1. /\ phase = "guards" /\ phase' = "guards" /\ phase \in Working /\ at = 7 /\ at' = 7
      /\ step' = step + 1 /\ step < Len(Route.guards) /\ Route.guards[step + 1] = name
      /\ raised' = raised
    BY DEF GuardIs, Admit, Working, PipelineInv, WhereControlIs
<1>2. step \in Nat /\ step' \in 0 .. Len(Route.guards)
    BY <1>1, WhileWorking
<1>3. GuardsMet'
    <2>1. Route' = Route
        BY DEF Route
    <2>2. ASSUME NEW k \in 1 .. step'
          PROVE  Met(Route.guards[k])'
        <3>1. k \in 1 .. step \/ k = step + 1
            BY <1>1, <1>2
        <3>2. k \in 1 .. step => Met(Route.guards[k])
            BY <1>1 DEF PipelineInv, GuardsMet
        <3>3. \A guard : Met(guard) \/ guard = name => Met(guard)'
            OBVIOUS
        <3>4. (Route.guards[k])' = Route.guards[k]
            BY <2>1
        <3> QED
            BY <1>1, <3>1, <3>2, <3>3, <3>4
    <2> QED
        BY <2>2 DEF GuardsMet
<1> QED
    BY <1>1, <1>2, <1>3, WhileWorking, Proceeding DEF Working

LEMMA DenyInv ==
    ASSUME PipelineInv, phase = "guards", NEW e \in Raisable,
           \/ e.kind = "ApiError" /\ e.status \in Route.declares /\ e.status # 413
           \/ e.kind = "SQLAlchemyError",
           RaiseFrom("router", e), req' \in Request, req'.route = req.route,
           req'.origin = req.origin,
           UNCHANGED <<step, received, spooled, started, wire>>
    PROVE  PipelineInv'
<1>1. phase \in Working
    BY DEF Working
<1>2. RaiseFits(e)
    BY <1>1, WhileWorking, PipelineAssumption DEF RaiseFits
<1>3. received' \in 0 .. MAX_UPLOAD_REQUEST_BYTES + MaxChunk /\ spooled <= received'
    BY <1>1, WhileWorking, PipelineAssumption
<1> QED
    BY <1>1, <1>2, <1>3, Raising

LEMMA ApiErrorIsRaisable ==
    ASSUME NEW status \in 400 .. 499
    PROVE  /\ [kind |-> "ApiError", status |-> status] \in Raisable
           /\ [kind |-> "ApiError", status |-> status].kind = "ApiError"
           /\ [kind |-> "ApiError", status |-> status].status = status
BY DEF Raisable

LEMMA GuardIsNext ==
    ASSUME PipelineInv, NEW name, GuardIs(name)
    PROVE  /\ phase = "guards" /\ req \in Request
           /\ name \in {"origin", "csrf"} => 403 \in Route.declares
           /\ name = "session" => 401 \in Route.declares
           /\ name \in {"json", "multipart"} => 415 \in Route.declares
<1>1. /\ phase = "guards" /\ phase \in Working /\ step < Len(Route.guards)
      /\ Route.guards[step + 1] = name
    BY DEF GuardIs, Working
<1>2. step + 1 \in 1 .. Len(Route.guards)
    BY <1>1, WhileWorking
<1> QED
    BY <1>1, <1>2, WhileWorking DEF GuardsFit

LEMMA OriginInv ==
    ASSUME PipelineInv, EnforceTrustedOrigin
    PROVE  PipelineInv'
<1>1. /\ GuardIs("origin") /\ phase = "guards" /\ req \in Request /\ 403 \in Route.declares
      /\ UNCHANGED <<received, spooled, started, wire>>
    BY GuardIsNext DEF EnforceTrustedOrigin
<1>2. PICK referer \in Origins \cup {None} :
         /\ req.origin = <<>> => referer \in Origins
         /\ req' = [req EXCEPT !.referer = referer]
         /\ IF TrustedOrigin(req.origin, referer) THEN Admit ELSE Deny(403)
    BY DEF EnforceTrustedOrigin
<1>3. /\ req' \in Request /\ req'.referer = referer /\ req'.route = req.route
      /\ req'.origin = req.origin /\ req'.cookies = req.cookies /\ req'.csrf = req.csrf
    BY <1>1, <1>2 DEF Request
<1>4. CASE TrustedOrigin(req.origin, referer)
    <2>1. \A guard : Met(guard) \/ guard = "origin" => Met(guard)'
        BY <1>2, <1>3, <1>4 DEF Met
    <2> QED
        BY <1>1, <1>2, <1>3, <1>4, <2>1, AdmitInv
<1>5. CASE ~TrustedOrigin(req.origin, referer)
    <2>1. Deny(403)
        BY <1>2, <1>5
    <2> QED
        BY <1>1, <1>3, <2>1, ApiErrorIsRaisable, DenyInv DEF Deny
<1> QED
    BY <1>4, <1>5

LEMMA ContentTypeInv ==
    ASSUME PipelineInv, EnforceContentType
    PROVE  PipelineInv'
<1>1. PICK name \in {"json", "multipart"} : GuardIs(name)
    BY DEF EnforceContentType
<1>2. /\ phase = "guards" /\ req \in Request /\ 415 \in Route.declares
      /\ UNCHANGED <<received, spooled, started, wire>>
    BY <1>1, GuardIsNext DEF EnforceContentType
<1>3. PICK media \in HeaderValues(MediaTypes) :
         /\ req' = [req EXCEPT !.media = media]
         /\ Admit \/ Deny(415)
    BY DEF EnforceContentType
<1>4. /\ req' \in Request /\ req'.referer = req.referer /\ req'.route = req.route
      /\ req'.origin = req.origin /\ req'.cookies = req.cookies /\ req'.csrf = req.csrf
    BY <1>2, <1>3 DEF Request
<1>5. CASE Admit
    <2>1. \A guard : Met(guard) \/ guard = name => Met(guard)'
        BY <1>1, <1>4 DEF Met
    <2> QED
        BY <1>1, <1>2, <1>4, <1>5, <2>1, AdmitInv
<1>6. CASE Deny(415)
    BY <1>2, <1>4, <1>6, ApiErrorIsRaisable, DenyInv DEF Deny
<1> QED
    BY <1>3, <1>5, <1>6

LEMMA AuthenticateInv ==
    ASSUME PipelineInv, Authenticate
    PROVE  PipelineInv'
<1>1. /\ GuardIs("session") /\ phase = "guards" /\ req \in Request /\ 401 \in Route.declares
      /\ UNCHANGED <<received, spooled, started, wire>>
    BY GuardIsNext DEF Authenticate
<1>2. PICK cookies \in Cookies :
         /\ req' = [req EXCEPT !.cookies = cookies]
         /\ \/ SessionCookie(cookies) = "live" /\ Admit
            \/ Deny(401)
            \/ RaiseFrom("router", [kind |-> "SQLAlchemyError"]) /\ UNCHANGED step
    BY DEF Authenticate
<1>3. /\ req' \in Request /\ req'.cookies = cookies /\ req'.route = req.route
      /\ req'.origin = req.origin /\ req'.referer = req.referer /\ req'.csrf = req.csrf
    BY <1>1, <1>2 DEF Request
<1>4. CASE SessionCookie(cookies) = "live" /\ Admit
    <2>1. \A guard : Met(guard) \/ guard = "session" => Met(guard)'
        BY <1>3, <1>4 DEF Met, SessionCookie
    <2> QED
        BY <1>1, <1>3, <1>4, <2>1, AdmitInv
<1>5. CASE Deny(401)
    BY <1>1, <1>3, <1>5, ApiErrorIsRaisable, DenyInv DEF Deny
<1>6. CASE RaiseFrom("router", [kind |-> "SQLAlchemyError"]) /\ UNCHANGED step
    <2>1. [kind |-> "SQLAlchemyError"] \in Raisable
        BY DEF Raisable, Framework
    <2> QED
        BY <1>1, <1>3, <1>6, <2>1, DenyInv
<1> QED
    BY <1>2, <1>4, <1>5, <1>6

LEMMA CheckCsrfInv ==
    ASSUME PipelineInv, CheckCsrf
    PROVE  PipelineInv'
<1>1. /\ GuardIs("csrf") /\ phase = "guards" /\ req \in Request /\ 403 \in Route.declares
      /\ UNCHANGED <<received, spooled, started, wire>>
    BY GuardIsNext DEF CheckCsrf
<1>2. PICK values \in HeaderValues(CsrfTokens) :
         /\ req' = [req EXCEPT !.csrf = values]
         /\ IF ParseCsrf(values) = "own" THEN Admit ELSE Deny(403)
    BY DEF CheckCsrf
<1>3. /\ req' \in Request /\ req'.csrf = values /\ req'.route = req.route
      /\ req'.origin = req.origin /\ req'.referer = req.referer /\ req'.cookies = req.cookies
    BY <1>1, <1>2 DEF Request
<1>4. CASE ParseCsrf(values) = "own"
    <2>1. \A guard : Met(guard) \/ guard = "csrf" => Met(guard)'
        BY <1>3, <1>4 DEF Met
    <2> QED
        BY <1>1, <1>2, <1>3, <1>4, <2>1, AdmitInv
<1>5. CASE ParseCsrf(values) # "own"
    <2>1. Deny(403)
        BY <1>2, <1>5
    <2> QED
        BY <1>1, <1>3, <2>1, ApiErrorIsRaisable, DenyInv DEF Deny
<1> QED
    BY <1>4, <1>5

LEMMA EnterHandlerInv ==
    ASSUME PipelineInv, EnterHandler
    PROVE  PipelineInv'
<1>1. /\ phase = "guards" /\ phase \in Working /\ at = 7 /\ step = Len(Route.guards)
      /\ UNCHANGED <<step, req, received, spooled, started, wire>>
    BY DEF EnterHandler, PipelineInv, WhereControlIs, Working
<1>2. CASE /\ phase' = IF Route.body = "form" THEN "form" ELSE "handler"
           /\ UNCHANGED <<at, raised>>
    <2>1. GuardsMet'
        BY <1>1 DEF PipelineInv, GuardsMet, Met, Route
    <2>2. phase' = "form" => IsUpload
        BY <1>1, <1>2, WhileWorking DEF StatusesFit, IsUpload
    <2> QED
        BY <1>1, <1>2, <2>1, <2>2, WhileWorking, Proceeding DEF Working
<1>3. CASE /\ Route.params \/ Route.body = "json"
           /\ RaiseFrom("router", [kind |-> "RequestValidationError"])
    <2>1. [kind |-> "RequestValidationError"] \in Raisable
        BY DEF Raisable, Framework
    <2>2. RaiseFits([kind |-> "RequestValidationError"])
        BY <1>1, <1>3, WhileWorking, PipelineAssumption DEF RaiseFits, StatusesFit
    <2>3. received' \in 0 .. MAX_UPLOAD_REQUEST_BYTES + MaxChunk /\ spooled <= received'
        BY <1>1, WhileWorking, PipelineAssumption
    <2> QED
        BY <1>1, <1>3, <2>1, <2>2, <2>3, WhileWorking, Raising
<1> QED
    BY <1>2, <1>3 DEF EnterHandler

----------------------------------------------------------------------------
(* The upload's body, the handler and its service.                         *)

LEMMA DisconnectInv ==
    ASSUME PipelineInv, Disconnect
    PROVE  PipelineInv'
<1>1. /\ phase \in Working /\ RaiseFrom("router", [kind |-> "Exception"])
      /\ UNCHANGED <<step, req, received, spooled, started, wire>>
    BY DEF Disconnect, Working
<1>2. [kind |-> "Exception"] \in Raisable
    BY DEF Raisable, Framework
<1>3. RaiseFits([kind |-> "Exception"])
    BY <1>1, WhileWorking, PipelineAssumption DEF RaiseFits
<1>4. received' \in 0 .. MAX_UPLOAD_REQUEST_BYTES + MaxChunk /\ spooled <= received'
    BY <1>1, WhileWorking, PipelineAssumption
<1> QED
    BY <1>1, <1>2, <1>3, <1>4, WhileWorking, Raising

LEMMA ReceiveChunkInv ==
    ASSUME PipelineInv, NEW size \in 0 .. MaxChunk, NEW more \in BOOLEAN,
           ReceiveChunk(size, more)
    PROVE  PipelineInv'
<1>1. /\ phase = "form" /\ phase \in Working /\ at = 7 /\ step = Len(Route.guards) /\ IsUpload
      /\ received' = received + size /\ UNCHANGED <<step, req, started, wire>>
    BY DEF ReceiveChunk, PipelineInv, WhereControlIs, Working
<1>2. /\ received = spooled /\ spooled \in 0 .. MAX_UPLOAD_REQUEST_BYTES
      /\ received' \in 0 .. MAX_UPLOAD_REQUEST_BYTES + MaxChunk /\ spooled <= received'
    BY <1>1, WhileWorking, PipelineAssumption
<1>3. CASE Exceeds(received, size)
    <2>1. [kind |-> "_RequestBodyTooLarge"] \in Raisable
        BY DEF Raisable, Framework
    <2>2. /\ RaiseFrom("router", [kind |-> "_RequestBodyTooLarge"]) /\ spooled' = spooled
        BY <1>3 DEF ReceiveChunk
    <2>3. RaiseFits([kind |-> "_RequestBodyTooLarge"])
        BY <1>1, <1>3 DEF RaiseFits, Exceeds
    <2> QED
        BY <1>1, <1>2, <2>1, <2>2, <2>3, WhileWorking, Raising
<1>4. CASE ~Exceeds(received, size)
    <2>1. /\ spooled' = received + size /\ phase' \in {"form", "handler"}
          /\ UNCHANGED <<at, raised>>
        BY <1>4 DEF ReceiveChunk
    <2>2. received' = spooled' /\ spooled' \in 0 .. MAX_UPLOAD_REQUEST_BYTES
        BY <1>1, <1>2, <1>4, <2>1, PipelineAssumption DEF Exceeds
    <2>3. GuardsMet'
        BY <1>1 DEF PipelineInv, GuardsMet, Met, Route
    <2> QED
        BY <1>1, <2>1, <2>2, <2>3, WhileWorking, Proceeding DEF Working
<1> QED
    BY <1>3, <1>4

LEMMA RefuseFormInv ==
    ASSUME PipelineInv, RefuseForm
    PROVE  PipelineInv'
<1> DEFINE status == Route.maps["HTTPException"]
<1>1. /\ phase \in Working /\ RaiseFrom("router", [kind |-> "ApiError", status |-> status])
      /\ UNCHANGED <<step, req, received, spooled, started, wire>>
    BY DEF RefuseForm, Working
<1>2. IsUpload
    BY <1>1, WhileWorking DEF RefuseForm, PipelineInv, WhereControlIs, StatusesFit, IsUpload
<1>3. status = 400 /\ status \in Route.declares
    BY <1>1, <1>2, WhileWorking DEF StatusesFit, IsUpload
<1> HIDE DEF status
<1>4. RaiseFits([kind |-> "ApiError", status |-> status])
    BY <1>1, <1>3, WhileWorking, PipelineAssumption DEF RaiseFits
<1>5. received' \in 0 .. MAX_UPLOAD_REQUEST_BYTES + MaxChunk /\ spooled <= received'
    BY <1>1, WhileWorking, PipelineAssumption
<1> QED
    BY <1>1, <1>3, <1>4, <1>5, ApiErrorIsRaisable, WhileWorking, Raising

LEMMA CallServiceInv ==
    ASSUME PipelineInv, NEW outcome, CallService(outcome)
    PROVE  PipelineInv'
<1>1. /\ phase \in Working /\ UNCHANGED <<step, req, received, spooled>>
      /\ outcome \in {"ok", "SQLAlchemyError", "Exception"} \cup Raises[req.route]
    BY DEF CallService, Working
<1>2. /\ req \in Request /\ wire = <<>> /\ req.route \in Routes
      /\ spooled \in 0 .. MAX_UPLOAD_REQUEST_BYTES /\ received = spooled
      /\ StatusesFit(req.route, Route)
    BY <1>1, WhileWorking
<1>3. received' \in 0 .. MAX_UPLOAD_REQUEST_BYTES + MaxChunk /\ spooled <= received'
    BY <1>1, <1>2, PipelineAssumption
<1>4. CASE outcome = "ok" /\ Respond("router", Route.ok, FALSE)
    <2>1. FALSE \in BOOLEAN /\ Route.ok \in 200 .. 299
        BY <1>2 DEF StatusesFit
    <2>2. AnswerFits("router", Route.ok, FALSE)
        <3>1. \A n \in 200 .. 299 : ~(n >= 500) /\ n # 413
            OBVIOUS
        <3>2. ~(received > MAX_UPLOAD_REQUEST_BYTES)
            BY <1>2, PipelineAssumption
        <3> QED
            BY <2>1, <3>1, <3>2, Zenon DEF AnswerFits
    <2>3. Route.ok \in 200 .. 503
        BY <2>1
    <2>4. FirstAnswer
        BY <1>1, <1>2 DEF FirstAnswer
    <2> QED
        BY <1>4, <2>1, <2>2, <2>3, <2>4, Answering, ZenonT(60)
<1>5. CASE /\ outcome \in DOMAIN Route.maps
           /\ RaiseFrom("router", [kind |-> "ApiError", status |-> Route.maps[outcome]])
           /\ UNCHANGED <<started, wire>>
    <2> DEFINE status == Route.maps[outcome]
    <2>1. /\ status \in 400 .. 499 /\ status \in Route.declares
          /\ status = 413 => IsUpload /\ outcome = "FileTooLarge"
        BY <1>2, <1>5 DEF StatusesFit, IsUpload
    <2>2. status = 413 => spooled > MAX_CSV_BYTES
        BY <1>2, <2>1, PipelineAssumption DEF CallService, FileAgrees
    <2>3. RaiseFrom("router", [kind |-> "ApiError", status |-> status])
        BY <1>5
    <2> HIDE DEF status
    <2>4. RaiseFits([kind |-> "ApiError", status |-> status])
        BY <1>1, <1>2, <2>1, <2>2, PipelineAssumption DEF RaiseFits
    <2> QED
        BY <1>1, <1>2, <1>3, <1>5, <2>1, <2>3, <2>4, ApiErrorIsRaisable, Raising
<1>6. CASE /\ outcome \notin DOMAIN Route.maps \cup {"ok"}
           /\ RaiseFrom("router", [kind |-> outcome])
           /\ UNCHANGED <<started, wire>>
    <2>1. outcome \in {"SQLAlchemyError", "Exception"}
        BY <1>1, <1>2, <1>6, RefusalsAreCaught DEF Route
    <2>2. [kind |-> outcome] \in Raisable
        BY <2>1 DEF Raisable, Framework
    <2>3. RaiseFits([kind |-> outcome])
        BY <1>1, <1>2, <2>1, PipelineAssumption DEF RaiseFits
    <2> QED
        BY <1>1, <1>2, <1>3, <1>6, <2>2, <2>3, Raising
<1> QED
    BY <1>4, <1>5, <1>6 DEF CallService

----------------------------------------------------------------------------
(* Back up: the except clauses.                                            *)

\* What is known of an exception on its way out before any response.
LEMMA WhileRaising ==
    ASSUME PipelineInv, phase = "raise"
    PROVE  /\ req \in Request /\ req.route \in Routes /\ at \in 1 .. 6
           /\ raised \in Raisable
           /\ spooled \in 0 .. MAX_UPLOAD_REQUEST_BYTES /\ received \in Nat
           /\ StatusesFit(req.route, Route)
           /\ wire = <<>> => started = {} /\ at >= 4
           /\ wire # <<>> => \A l \in Trackers : Level(l) <= at => l \in started
<1>1. /\ req \in Request /\ req.route \in Routes /\ at \in 1 .. 6
      /\ raised \in Raisable
      /\ wire = <<>> => started = {} /\ at >= 4
    BY DEF PipelineInv, PipelineTypeOK, OneAnswerBegins, WhereControlIs
<1>2. spooled \in 0 .. MAX_UPLOAD_REQUEST_BYTES /\ received \in Nat
    <2>1. /\ received \in 0 .. MAX_UPLOAD_REQUEST_BYTES + MaxChunk /\ spooled \in 0 .. received
          /\ spooled <= MAX_UPLOAD_REQUEST_BYTES
        BY DEF PipelineInv, PipelineTypeOK, BytesAreCounted
    <2> QED
        BY <2>1, PipelineAssumption
<1>3. StatusesFit(req.route, Route)
    BY <1>1, RouteStatuses DEF Route
<1>4. ASSUME wire # <<>>, NEW l \in Trackers, Level(l) <= at
      PROVE  l \in started
    <2>1. 1 \in DOMAIN wire
        BY <1>4 DEF PipelineInv, WhereControlIs
    <2>2. Level(wire[1].from) \in 1 .. 7 /\ Level(l) \in 1 .. 7
        BY <2>1, LevelFacts, StackFacts DEF PipelineInv, AnswersFitTheirLayer, Trackers
    <2>3. /\ at < Level(wire[1].from)
          /\ Level(l) < Level(wire[1].from) => l \in started
        BY <1>4 DEF PipelineInv, OneAnswerBegins
    <2> QED
        BY <1>1, <1>4, <2>2, <2>3
<1> QED
    BY <1>1, <1>2, <1>3, <1>4

\* The status and the body of what the registered handlers answer.
HandlerFits(e, answer) ==
    /\ answer.status \in 200 .. 503
    /\ answer.envelope \in BOOLEAN
    /\ answer.status >= 500 => answer.envelope
    /\ answer.status = 413 => e.kind = "ApiError" /\ e.status = 413
    /\ (answer.status = 400 => answer.envelope) =>
          \/ e.kind = "ApiError" /\ answer.status = e.status
          \/ e.kind = "RequestValidationError" /\ answer.status = 422
          \/ answer.status = 503

LEMMA ErrorHandlerFits ==
    ASSUME NEW e \in Raisable, e.kind \in Handled
    PROVE  HandlerFits(e, ErrorHandler(e))
<1>1. CASE e.kind = "ApiError"
    <2>1. ErrorHandler(e) = [status |-> e.status, envelope |-> TRUE]
        BY <1>1, Zenon DEF ErrorHandler
    <2>2. e.status \in 400 .. 499
        BY <1>1 DEF Raisable, Framework
    <2> QED
        BY <1>1, <2>1, <2>2 DEF HandlerFits
<1>2. CASE e.kind = "RequestValidationError"
    <2>1. ErrorHandler(e) = [status |-> 422, envelope |-> TRUE]
        BY <1>2, Zenon DEF ErrorHandler
    <2> QED
        BY <1>2, <2>1 DEF HandlerFits
<1>3. CASE e.kind = "SQLAlchemyError"
    <2>1. ErrorHandler(e) = [status |-> 503, envelope |-> TRUE]
        BY <1>3, Zenon DEF ErrorHandler
    <2> QED
        BY <1>3, <2>1 DEF HandlerFits
<1>4. CASE e.kind = "HTTPException"
    <2>1. ErrorHandler(e) = [status |-> 400, envelope |-> FALSE]
        BY <1>4, Zenon DEF ErrorHandler
    <2> QED
        BY <1>4, <2>1 DEF HandlerFits
<1> QED
    BY <1>1, <1>2, <1>3, <1>4 DEF Handled

LEMMA HandleExceptionInv ==
    ASSUME PipelineInv, HandleException
    PROVE  PipelineInv'
<1>1. /\ phase = "raise" /\ Stack[at] = "exceptions"
      /\ UNCHANGED <<step, req, received, spooled>>
    BY DEF HandleException
<1>2. /\ req \in Request /\ at = 6 /\ raised \in Raisable
      /\ spooled \in 0 .. MAX_UPLOAD_REQUEST_BYTES /\ received \in Nat
      /\ StatusesFit(req.route, Route)
      /\ wire # <<>> => "exceptions" \in started
    BY <1>1, WhileRaising, StackFacts, LevelFacts DEF Trackers
<1>3. CASE raised.kind \in Handled /\ "exceptions" \notin started
    <2> DEFINE status == ErrorHandler(raised).status
               envelope == ErrorHandler(raised).envelope
    <2>1. wire = <<>> /\ Respond("exceptions", status, envelope)
        BY <1>2, <1>3 DEF HandleException
    <2>2. /\ raised.kind = "ApiError" => /\ raised.status \in Route.declares
                                         /\ raised.status \in 400 .. 499
                                         /\ raised.status = 413 => spooled > MAX_CSV_BYTES
          /\ raised.kind = "RequestValidationError" => Route.params \/ 422 \in Route.declares
          /\ received > MAX_UPLOAD_REQUEST_BYTES => raised.kind = "_RequestBodyTooLarge"
        BY <1>1, <1>2, <2>1 DEF PipelineInv, RaisedAsDeclared, BytesAreCounted, Raisable,
           Framework
    <2>3. ~(received > MAX_UPLOAD_REQUEST_BYTES)
        BY <1>3, <2>2 DEF Handled
    <2>4. 503 \in Route.declares
        BY <1>2 DEF StatusesFit
    <2>5. /\ status \in 200 .. 503 /\ envelope \in BOOLEAN
          /\ status >= 500 => envelope
          /\ status = 413 => raised.kind = "ApiError" /\ raised.status = 413
          /\ (status = 400 => envelope) =>
                \/ raised.kind = "ApiError" /\ status = raised.status
                \/ raised.kind = "RequestValidationError" /\ status = 422
                \/ status = 503
        <3>1. HandlerFits(raised, ErrorHandler(raised))
            BY <1>2, <1>3, ErrorHandlerFits
        <3> QED
            BY <3>1 DEF HandlerFits
    <2> HIDE DEF status, envelope
    <2>6. AnswerFits("exceptions", status, envelope)
        BY <2>2, <2>3, <2>4, <2>5 DEF AnswerFits
    <2>7. FirstAnswer
        BY <1>1, <1>2, <2>1 DEF FirstAnswer
    <2>8. status \in 200 .. 503
        BY <2>5
    <2>9. CASE envelope = TRUE
        <3>1. Respond("exceptions", status, TRUE) /\ AnswerFits("exceptions", status, TRUE)
            BY <2>1, <2>6, <2>9
        <3> QED
            BY <2>7, <2>8, <3>1, Answering, ZenonT(60)
    <2>10. CASE envelope = FALSE
        <3>1. Respond("exceptions", status, FALSE) /\ AnswerFits("exceptions", status, FALSE)
            BY <2>1, <2>6, <2>10
        <3> QED
            BY <2>7, <2>8, <3>1, Answering, ZenonT(60)
    <2> QED
        BY <2>5, <2>9, <2>10
<1>4. CASE ~(raised.kind \in Handled /\ "exceptions" \notin started)
    BY <1>1, <1>2, <1>4, Propagating DEF HandleException
<1> QED
    BY <1>3, <1>4

LEMMA CatchTooLargeInv ==
    ASSUME PipelineInv, CatchTooLarge
    PROVE  PipelineInv'
<1>1. /\ phase = "raise" /\ Stack[at] = "limit" /\ phase \in Working \cup {"raise"}
      /\ UNCHANGED <<step, req, received, spooled>>
    BY DEF CatchTooLarge
<1>2. /\ req \in Request /\ at = 5 /\ StatusesFit(req.route, Route)
      /\ wire = <<>> => "limit" \notin started
      /\ wire # <<>> => "limit" \in started
    BY <1>1, WhileRaising, StackFacts, LevelFacts DEF Trackers
<1>3. CASE raised.kind = "_RequestBodyTooLarge" /\ "limit" \notin started
    <2>1. wire = <<>>
        BY <1>2, <1>3
    <2>2. Respond("limit", 413, TRUE)
        BY <1>3, Zenon DEF CatchTooLarge
    <2>3. received > MAX_UPLOAD_REQUEST_BYTES /\ IsUpload
        BY <1>1, <1>3, <2>1 DEF PipelineInv, BytesAreCounted, RaisedAsDeclared
    <2>4. AnswerFits("limit", 413, TRUE)
        BY <1>2, <2>3 DEF AnswerFits, StatusesFit, IsUpload
    <2>5. TRUE \in BOOLEAN /\ 413 \in 200 .. 503
        OBVIOUS
    <2>6. FirstAnswer
        BY <1>1, <1>2, <2>1 DEF FirstAnswer
    <2> QED
        BY <2>2, <2>4, <2>5, <2>6, Answering, ZenonT(60)
<1>4. CASE ~(raised.kind = "_RequestBodyTooLarge" /\ "limit" \notin started)
    <2>1. Propagate
        BY <1>4, Zenon DEF CatchTooLarge
    <2> QED
        BY <1>1, <1>2, <1>4, <2>1, Propagating
<1> QED
    BY <1>3, <1>4

LEMMA SanitizeInv ==
    ASSUME PipelineInv, Sanitize
    PROVE  PipelineInv'
<1>1. /\ phase = "raise" /\ Stack[at] = "sanitized" /\ phase \in Working \cup {"raise"}
      /\ UNCHANGED <<step, req, received, spooled>>
    BY DEF Sanitize
<1>2. /\ req \in Request /\ at = 4 /\ StatusesFit(req.route, Route)
      /\ wire = <<>> => "sanitized" \notin started
      /\ wire # <<>> => "sanitized" \in started
    BY <1>1, WhileRaising, StackFacts, LevelFacts DEF Trackers
<1>3. CASE "sanitized" \notin started
    <2>1. wire = <<>>
        BY <1>2, <1>3
    <2>2. Respond("sanitized", 500, TRUE)
        BY <1>3, Zenon DEF Sanitize
    <2>3. ~(received > MAX_UPLOAD_REQUEST_BYTES)
        BY <1>1, <1>2, <2>1 DEF PipelineInv, BytesAreCounted, RaisedAsDeclared
    <2>4. AnswerFits("sanitized", 500, TRUE)
        BY <1>2, <2>3 DEF AnswerFits, StatusesFit
    <2>5. TRUE \in BOOLEAN /\ 500 \in 200 .. 503
        OBVIOUS
    <2>6. FirstAnswer
        BY <1>1, <1>2, <2>1 DEF FirstAnswer
    <2> QED
        BY <2>2, <2>4, <2>5, <2>6, Answering, ZenonT(60)
<1>4. CASE "sanitized" \in started
    <2>1. Propagate /\ wire # <<>>
        BY <1>2, <1>4, Zenon DEF Sanitize
    <2> QED
        BY <1>1, <1>2, <2>1, Propagating
<1> QED
    BY <1>3, <1>4

LEMMA PassUpInv ==
    ASSUME PipelineInv, PassUp
    PROVE  PipelineInv'
<1>1. /\ phase = "raise" /\ Stack[at] \in {"cors", "trace"} /\ Propagate
      /\ UNCHANGED <<step, req, received, spooled>>
    BY DEF PassUp
<1>2. at \in {2, 3} /\ wire # <<>>
    BY <1>1, WhileRaising, StackFacts
<1> QED
    BY <1>1, <1>2, Propagating

\* ServerErrorMiddleware never has to answer itself: an exception that leaves
\* SanitizedExceptionMiddleware follows a response that has begun.
LEMMA ServerErrorInv ==
    ASSUME PipelineInv, ServerError
    PROVE  PipelineInv'
<1>1. phase = "raise" /\ Stack[at] = "server_error"
    BY DEF ServerError
<1>2. at = 1 /\ wire # <<>> /\ "server_error" \in started
    BY <1>1, WhileRaising, StackFacts, LevelFacts DEF Trackers
<1>3. /\ phase' = "done"
      /\ UNCHANGED <<at, step, req, received, spooled, started, raised, wire>>
    BY <1>2 DEF ServerError
<1>4. Route' = Route
    BY <1>3 DEF Route
<1>5. PipelineTypeOK' /\ WhereControlIs'
    BY <1>1, <1>3 DEF PipelineInv, PipelineTypeOK, WhereControlIs
<1>6. OneAnswerBegins'
    <2>1. Len(wire) = 1
        <3>1. wire \in Seq(Answer) /\ Len(wire) <= 1
            BY DEF PipelineInv, OneAnswerBegins, WhereControlIs
        <3>2. 1 \in DOMAIN wire /\ Len(wire) \in Nat /\ DOMAIN wire = 1 .. Len(wire)
            BY <1>2, <3>1
        <3> QED
            BY <3>1, <3>2
    <2> QED
        BY <1>3, <2>1 DEF OneAnswerBegins, Working
<1>7. RaisedAsDeclared' /\ BytesAreCounted' /\ GuardsMet'
    BY <1>1, <1>3 DEF PipelineInv, RaisedAsDeclared, BytesAreCounted, GuardsMet, Working
<1>8. AnswersFitTheirLayer' /\ AnswersCarryTraceAndCors'
    BY <1>3 DEF PipelineInv, AnswersFitTheirLayer, AnswersCarryTraceAndCors, CorsAllows
<1>9. SizeLimitIsExact' /\ AnswersAsDeclared'
    BY <1>3, <1>4 DEF PipelineInv, SizeLimitIsExact, AnswersAsDeclared, DeclaredTooLarge
<1> QED
    BY <1>5, <1>6, <1>7, <1>8, <1>9 DEF PipelineInv

LEMMA StutterInv ==
    ASSUME PipelineInv, UNCHANGED vars
    PROVE  PipelineInv'
<1> USE DEF vars
<1>1. Route' = Route /\ (IsUpload <=> IsUpload')
    BY DEF Route, IsUpload
<1>2. PipelineTypeOK' /\ WhereControlIs'
    BY <1>1 DEF PipelineInv, PipelineTypeOK, WhereControlIs
<1>3. OneAnswerBegins' /\ RaisedAsDeclared'
    BY <1>1 DEF PipelineInv, OneAnswerBegins, RaisedAsDeclared
<1>4. BytesAreCounted' /\ GuardsMet'
    BY <1>1 DEF PipelineInv, BytesAreCounted, GuardsMet, Met
<1>5. AnswersFitTheirLayer' /\ AnswersCarryTraceAndCors'
    BY DEF PipelineInv, AnswersFitTheirLayer, AnswersCarryTraceAndCors, CorsAllows
<1>6. SizeLimitIsExact' /\ AnswersAsDeclared'
    BY <1>1 DEF PipelineInv, SizeLimitIsExact, AnswersAsDeclared, DeclaredTooLarge
<1> QED
    BY <1>2, <1>3, <1>4, <1>5, <1>6 DEF PipelineInv

----------------------------------------------------------------------------
(* The theorems.                                                           *)

\* The inductive invariant holds of every request.
THEOREM PipelineInvariance == Spec => []PipelineInv
<1>1. Init => PipelineInv
    BY InitInv
<1>2. PipelineInv /\ [Next]_vars => PipelineInv'
    <2> SUFFICES ASSUME PipelineInv, [Next]_vars
                 PROVE  PipelineInv'
        OBVIOUS
    <2>1. CASE \E route \in Routes, origin \in Origins, preflight \in BOOLEAN :
                  Arrive(route, origin, preflight)
        BY <2>1, ArriveInv
    <2>2. CASE PassDown \/ Cors \/ Limit \/ Dispatch \/ ReadJson
        BY <2>2, PassDownInv, CorsInv, LimitInv, DispatchInv, ReadJsonInv
    <2>3. CASE \/ EnforceTrustedOrigin \/ EnforceContentType \/ Authenticate \/ CheckCsrf
               \/ EnterHandler
        BY <2>3, OriginInv, ContentTypeInv, AuthenticateInv, CheckCsrfInv, EnterHandlerInv
    <2>4. CASE Disconnect \/ RefuseForm
        BY <2>4, DisconnectInv, RefuseFormInv
    <2>5. CASE \E size \in 0 .. MaxChunk, more \in BOOLEAN : ReceiveChunk(size, more)
        BY <2>5, ReceiveChunkInv
    <2>6. CASE \E outcome \in {"ok", "SQLAlchemyError", "Exception"} \cup Refusals :
                  CallService(outcome)
        BY <2>6, CallServiceInv
    <2>7. CASE HandleException \/ CatchTooLarge \/ Sanitize \/ PassUp \/ ServerError
        BY <2>7, HandleExceptionInv, CatchTooLargeInv, SanitizeInv, PassUpInv, ServerErrorInv
    <2>8. CASE UNCHANGED vars
        BY <2>8, StutterInv
    <2> QED
        BY <2>1, <2>2, <2>3, <2>4, <2>5, <2>6, <2>7, <2>8 DEF Next, Serve, Finished
<1> QED
    BY <1>1, <1>2, PTL DEF Spec

\* Every variable of the pipeline stays in its type.
THEOREM PipelineTypes == Spec => []PipelineTypeOK
<1>1. PipelineInv => PipelineTypeOK
    BY DEF PipelineInv
<1> QED
    BY <1>1, PipelineInvariance, PTL

\* However the layers are interrupted, by an exception of their own or of the
\* server's send: one response begins, and no request ends without one.
THEOREM OneAnswer == Spec => []ExactlyOneAnswer
<1>1. PipelineInv => ExactlyOneAnswer
    BY DEF PipelineInv, OneAnswerBegins, ExactlyOneAnswer
<1> QED
    BY <1>1, PipelineInvariance, PTL

\* Every answer has passed the trace and CORS layers, errors of the middleware
\* included, and a failure of the server is the sanitised envelope.
THEOREM AnswersAreDecorated == Spec => []AnswersCarryTraceAndCors
<1>1. PipelineInv => AnswersCarryTraceAndCors
    BY DEF PipelineInv
<1> QED
    BY <1>1, PipelineInvariance, PTL

\* For all limits and all ways to cut a body into messages: the form parser
\* never gets more than the limit, a body counted above it is answered with 413,
\* and a 413 is given only for a body or a file that is too large.
THEOREM SizeLimitHolds == Spec => []SizeLimitIsExact
<1>1. PipelineInv => SizeLimitIsExact
    BY DEF PipelineInv
<1> QED
    BY <1>1, PipelineInvariance, PTL

\* A header that was sent once.
LEMMA OneValue ==
    ASSUME NEW S, NEW values \in HeaderValues(S), Len(values) = 1
    PROVE  values = <<values[1]>>
BY DEF HeaderValues

\* No route, in no environment, does its work before its dependencies were all
\* met.
THEOREM WorkAlwaysAuthorized == Spec => []WorkIsAuthorized
<1>1. PipelineInv => WorkIsAuthorized
    <2> SUFFICES ASSUME PipelineInv, phase \in {"form", "handler"}
                 PROVE  /\ req.route \notin SigningRoutes =>
                              req.cookies # None /\ req.cookies[CookieName] = "live"
                        /\ req.route \in Mutations \cup SigningRoutes =>
                              \/ req.origin \in {<<"canonical">>, <<"variant">>}
                              \/ /\ req.origin = <<>>
                                 /\ req.referer \in {<<"canonical">>, <<"variant">>}
                        /\ req.route \in Mutations => req.csrf = <<"own">>
        BY DEF WorkIsAuthorized
    <2>1. /\ req \in Request /\ GuardsFit(req.route, Route)
          /\ \A k \in 1 .. Len(Route.guards) : Met(Route.guards[k])
        BY WhileWorking DEF Working, PipelineInv, GuardsMet, WhereControlIs
    <2>2. ASSUME req.route \notin SigningRoutes
          PROVE  req.cookies # None /\ req.cookies[CookieName] = "live"
        <3>1. Met("session")
            BY <2>1, <2>2 DEF GuardsFit
        <3> QED
            BY <3>1, NoneAssumption DEF Met
    <2>3. ASSUME req.route \in Mutations \cup SigningRoutes
          PROVE  \/ req.origin \in {<<"canonical">>, <<"variant">>}
                 \/ req.origin = <<>> /\ req.referer \in {<<"canonical">>, <<"variant">>}
        <3>1. Met("origin")
            BY <2>1, <2>3 DEF GuardsFit
        <3>2. CASE req.origin # <<>>
            <4>1. /\ Len(req.origin) = 1 /\ req.origin[1] \in {"canonical", "variant"}
                  /\ req.origin \in HeaderValues(Spellings)
                BY <3>1, <3>2, WhileWorking DEF Met, TrustedOrigin, Canonical, Working, Origins
            <4>2. req.origin = <<req.origin[1]>>
                BY <4>1, OneValue
            <4> QED
                BY <4>1, <4>2
        <3>3. CASE req.origin = <<>>
            <4>1. /\ Len(req.referer) = 1 /\ req.referer[1] \in {"canonical", "variant"}
                  /\ req.referer \in HeaderValues(Spellings)
                BY <3>1, <3>3 DEF Met, TrustedOrigin, Canonical, OriginFromReferer, Origins
            <4>2. req.referer = <<req.referer[1]>>
                BY <4>1, OneValue
            <4> QED
                BY <3>3, <4>1, <4>2
        <3> QED
            BY <3>2, <3>3
    <2>4. ASSUME req.route \in Mutations
          PROVE  req.csrf = <<"own">>
        <3>1. Met("csrf")
            BY <2>1, <2>4 DEF GuardsFit
        <3>2. req.csrf \in HeaderValues(CsrfTokens) /\ ParseCsrf(req.csrf) = "own"
            BY <3>1 DEF Met
        <3>3. Len(req.csrf) = 1 /\ req.csrf[1] = "own"
            BY <3>2, NoneAssumption DEF ParseCsrf, CsrfTokens
        <3> QED
            BY <3>2, <3>3, OneValue
    <2> QED
        BY <2>2, <2>3, <2>4
<1> QED
    BY <1>1, PipelineInvariance, PTL

\* Every answer of a route has its success status or one that it declares, and
\* no refusal of a service ends as a failure of the server.
THEOREM AnswersDeclared == Spec => []AnswersAsDeclared
<1>1. PipelineInv => AnswersAsDeclared
    BY DEF PipelineInv
<1> QED
    BY <1>1, PipelineInvariance, PTL

=============================================================================
