----------------------------- MODULE HttpPipeline -----------------------------
(***************************************************************************)
(* One HTTP request on its way through the ASGI stack of main.create_app:  *)
(* down the middleware of api/middleware.py, through the dependencies of   *)
(* api/dependencies.py and api/security.py, the body, the route handler of *)
(* api/v1 and its service, and back up as a response or as an exception.   *)
(*                                                                         *)
(* The request reveals itself as the code reads it: a header, a cookie or  *)
(* a chunk is chosen when it is looked at and recorded in req.  The        *)
(* per-call variables of the middleware (received, response_started) make  *)
(* requests independent of each other, so one request is enough.           *)
(***************************************************************************)
EXTENDS Naturals, Sequences, FiniteSets

CONSTANTS
    Environment,                \* ApiSettings.environment
    MAX_CSV_BYTES,
    MAX_UPLOAD_REQUEST_BYTES,
    MaxChunk,                   \* bound on one http.request message
    None

ASSUME PipelineAssumption ==
    /\ Environment \in {"development", "test", "production"}
    /\ MAX_CSV_BYTES \in Nat \ {0}
    /\ MAX_UPLOAD_REQUEST_BYTES \in Nat
    /\ MAX_UPLOAD_REQUEST_BYTES > MAX_CSV_BYTES
    /\ MaxChunk \in Nat \ {0}

VARIABLES
    phase,      \* what the request is doing
    at,         \* the layer control is in, an index of Stack
    step,       \* how many dependencies of the route have been solved
    req,        \* what has been read of the request so far
    received,   \* limited_receive: bytes counted
    spooled,    \* bytes the form parser has been given
    started,    \* layers whose response_started is set
    raised,     \* the exception on its way out
    wire        \* every http.response.start handed to the server

vars == <<phase, at, step, req, received, spooled, started, raised, wire>>

----------------------------------------------------------------------------
(* create_app: add_middleware puts each layer around the earlier ones.     *)

\* Mutant: trace ids are added inside CORS.
StackTraceInside ==
    <<"server_error", "cors", "trace", "sanitized", "limit", "exceptions", "router">>

Stack ==
    <<"server_error", "trace", "cors", "sanitized", "limit", "exceptions", "router">>

Layers == {Stack[i] : i \in 1 .. Len(Stack)}

Level(layer) == CHOOSE i \in 1 .. Len(Stack) : Stack[i] = layer

\* The layers that keep a response_started of their own.
Trackers == {"server_error", "sanitized", "limit", "exceptions"}

----------------------------------------------------------------------------
(* The routes.  guards: the dependencies, in the order FastAPI solves      *)
(* them; maps: the except clauses of the handler and the status of the     *)
(* ApiError each raises; declares: the route's responses=.                 *)

NoErrors == [e \in {} |-> 0]

Register ==
    [guards |-> <<"origin", "json">>, body |-> "json", params |-> FALSE, ok |-> 201,
     maps |-> [EmailPolicyError |-> 422, PasswordPolicyError |-> 422,
               DuplicateIdentity |-> 409],
     declares |-> {403, 409, 415, 422, 500, 503}]

Login ==
    [guards |-> <<"origin", "json">>, body |-> "json", params |-> FALSE, ok |-> 200,
     maps |-> [PasswordPolicyError |-> 422, InvalidCredentials |-> 401],
     declares |-> {401, 403, 415, 422, 500, 503}]

Me ==
    [guards |-> <<"session">>, body |-> "none", params |-> FALSE, ok |-> 200,
     maps |-> NoErrors, declares |-> {401, 500, 503}]

Logout ==
    [guards |-> <<"origin">>, body |-> "none", params |-> FALSE, ok |-> 204,
     maps |-> [InvalidCsrf |-> 403], declares |-> {403, 500, 503}]

CreateDataset ==
    [guards |-> <<"origin", "json", "session", "csrf">>, body |-> "json",
     params |-> FALSE, ok |-> 201, maps |-> [DatasetPolicyError |-> 422],
     declares |-> {401, 403, 415, 422, 500, 503}]

ListDatasets ==
    [guards |-> <<"session">>, body |-> "none", params |-> TRUE, ok |-> 200,
     maps |-> NoErrors, declares |-> {401, 422, 500, 503}]

GetDataset ==
    [guards |-> <<"session">>, body |-> "none", params |-> TRUE, ok |-> 200,
     maps |-> [DatasetNotFound |-> 404], declares |-> {401, 404, 422, 500, 503}]

UploadCsv ==
    [guards |-> <<"origin", "multipart", "session", "csrf">>, body |-> "form",
     params |-> TRUE, ok |-> 200,
     maps |-> [HTTPException |-> 400, DatasetNotFound |-> 404,
               DatasetPolicyError |-> 422, CsvStructureError |-> 422,
               FileTooLarge |-> 413, IncompatibleUpload |-> 409],
     declares |-> {400, 401, 403, 404, 409, 413, 415, 422, 500, 503}]

\* Mutant: DuplicateRule is not caught.
CreateRuleUncaught ==
    [guards |-> <<"origin", "json", "session", "csrf">>, body |-> "json",
     params |-> TRUE, ok |-> 201,
     maps |-> [DatasetNotFound |-> 404, DatasetNotReady |-> 409,
               UnknownColumn |-> 422, DatasetPolicyError |-> 422],
     declares |-> {401, 403, 404, 409, 415, 422, 500, 503}]

CreateRule ==
    [guards |-> <<"origin", "json", "session", "csrf">>, body |-> "json",
     params |-> TRUE, ok |-> 201,
     maps |-> [DatasetNotFound |-> 404, DatasetNotReady |-> 409,
               UnknownColumn |-> 422, DuplicateRule |-> 409,
               DatasetPolicyError |-> 422],
     declares |-> {401, 403, 404, 409, 415, 422, 500, 503}]

ListRules ==
    [guards |-> <<"session">>, body |-> "none", params |-> TRUE, ok |-> 200,
     maps |-> [DatasetNotFound |-> 404], declares |-> {401, 404, 422, 500, 503}]

DeleteRule ==
    [guards |-> <<"origin", "session", "csrf">>, body |-> "none", params |-> TRUE,
     ok |-> 204, maps |-> [DatasetNotFound |-> 404],
     declares |-> {401, 403, 404, 500, 503}]

\* Mutant: the route forgets enforce_trusted_origin.
CreateAnalysisAnyOrigin ==
    [guards |-> <<"session", "csrf">>, body |-> "none", params |-> TRUE, ok |-> 201,
     maps |-> [DatasetNotFound |-> 404, DatasetNotReady |-> 409,
               AnalysisRequiresRules |-> 409],
     declares |-> {401, 403, 404, 409, 422, 500, 503}]

CreateAnalysis ==
    [guards |-> <<"origin", "session", "csrf">>, body |-> "none", params |-> TRUE,
     ok |-> 201,
     maps |-> [DatasetNotFound |-> 404, DatasetNotReady |-> 409,
               AnalysisRequiresRules |-> 409],
     declares |-> {401, 403, 404, 409, 422, 500, 503}]

ListAnalyses ==
    [guards |-> <<"session">>, body |-> "none", params |-> TRUE, ok |-> 200,
     maps |-> [DatasetNotFound |-> 404], declares |-> {401, 404, 422, 500, 503}]

GetAnalysis ==
    [guards |-> <<"session">>, body |-> "none", params |-> TRUE, ok |-> 200,
     maps |-> [DatasetNotFound |-> 404], declares |-> {401, 404, 422, 500, 503}]

Endpoint ==
    [register |-> Register, login |-> Login, me |-> Me, logout |-> Logout,
     create_dataset |-> CreateDataset, list_datasets |-> ListDatasets,
     get_dataset |-> GetDataset, upload_csv |-> UploadCsv,
     create_rule |-> CreateRule, list_rules |-> ListRules,
     delete_rule |-> DeleteRule, create_analysis |-> CreateAnalysis,
     list_analyses |-> ListAnalyses, get_analysis |-> GetAnalysis]

Routes == DOMAIN Endpoint

Mutations == {"create_dataset", "upload_csv", "create_rule", "delete_rule",
              "create_analysis"}

SigningRoutes == {"register", "login", "logout"}

\* What the services refuse with; anything else they raise is unexpected.
IdentityRaises ==
    [register |-> {"EmailPolicyError", "PasswordPolicyError", "DuplicateIdentity"},
     login |-> {"PasswordPolicyError", "InvalidCredentials"},
     me |-> {}, logout |-> {"InvalidCsrf"}]

DatasetRaises ==
    [create_dataset |-> {"DatasetPolicyError"}, list_datasets |-> {},
     get_dataset |-> {"DatasetNotFound"},
     upload_csv |-> {"DatasetPolicyError", "DatasetNotFound", "FileTooLarge",
                     "CsvStructureError", "IncompatibleUpload"},
     create_rule |-> {"DatasetPolicyError", "DatasetNotFound", "DatasetNotReady",
                      "UnknownColumn", "DuplicateRule"},
     list_rules |-> {"DatasetNotFound"}, delete_rule |-> {"DatasetNotFound"}]

AnalysisRaises ==
    [create_analysis |-> {"DatasetNotFound", "DatasetNotReady", "AnalysisRequiresRules"},
     list_analyses |-> {"DatasetNotFound"}, get_analysis |-> {"DatasetNotFound"}]

Raises ==
    [r \in Routes |-> IF r \in DOMAIN IdentityRaises THEN IdentityRaises[r]
                      ELSE IF r \in DOMAIN DatasetRaises THEN DatasetRaises[r]
                      ELSE AnalysisRaises[r]]

Refusals == UNION {Raises[r] : r \in Routes}

Route == Endpoint[req.route]

----------------------------------------------------------------------------
(* The request.                                                            *)

\* An origin in the canonical spelling of trusted_origins, the same origin
\* spelled otherwise, a foreign one, and one canonicalize_origin rejects.
Spellings == {"canonical", "variant", "foreign", "malformed"}

HeaderValues(S) == {<<>>} \cup {<<v>> : v \in S} \cup {<<v, v>> : v \in S}

Origins == HeaderValues(Spellings)

MediaTypes == {"json", "json_latin1", "multipart", "text"}

\* The token of the session, of another session, and a text that is no token.
CsrfTokens == {"own", "other", "malformed"}

Cookies == [{"__Host-datacheck_session", "datacheck_session"} -> {None, "live", "dead"}]

\* None is what Python's None is: no token and no cookie jar.
ASSUME NoneAssumption == None \notin CsrfTokens \cup Cookies

\* Content-Length: absent, several, unparsable, or a number.
Lengths == {None} \cup 0 .. MAX_UPLOAD_REQUEST_BYTES + 1

NoRequest ==
    [route |-> None, origin |-> None, preflight |-> FALSE, referer |-> None,
     media |-> None, cookies |-> None, csrf |-> None, length |-> None]

Request ==
    [route : Routes \cup {None}, origin : Origins \cup {None}, preflight : BOOLEAN,
     referer : Origins \cup {None}, media : HeaderValues(MediaTypes) \cup {None},
     cookies : Cookies \cup {None}, csrf : HeaderValues(CsrfTokens) \cup {None},
     length : Lengths]

Exceptions ==
    [kind : {"ApiError"}, status : 400 .. 503]
    \cup [kind : {"RequestValidationError", "SQLAlchemyError", "HTTPException",
                  "_RequestBodyTooLarge", "Exception"} \cup Refusals]

Answer ==
    [status : 200 .. 503, envelope : BOOLEAN, traced : BOOLEAN, cors : BOOLEAN,
     from : Layers]

PipelineTypeOK ==
    /\ phase \in {"idle", "enter", "json", "guards", "form", "handler", "raise", "done"}
    /\ at \in 0 .. Len(Stack)
    /\ step \in 0 .. 4
    /\ req \in Request
    /\ received \in 0 .. MAX_UPLOAD_REQUEST_BYTES + MaxChunk
    /\ spooled \in 0 .. received
    /\ started \subseteq Trackers
    /\ raised \in Exceptions \cup {None}
    /\ \A i \in DOMAIN wire : wire[i] \in Answer

Init ==
    /\ phase = "idle"
    /\ at = 0
    /\ step = 0
    /\ req = NoRequest
    /\ received = 0
    /\ spooled = 0
    /\ started = {}
    /\ raised = None
    /\ wire = <<>>

Arrive(route, origin, preflight) ==
    /\ phase = "idle"
    /\ preflight => origin # <<>>
    /\ phase' = "enter"
    /\ at' = 1
    /\ req' = [NoRequest EXCEPT !.route = route, !.origin = origin,
                                !.preflight = preflight]
    /\ UNCHANGED <<step, received, spooled, started, raised, wire>>

----------------------------------------------------------------------------
(* Responses and exceptions.                                               *)

\* The exception leaves the layer and meets the except clauses around it.
RaiseFrom(layer, e) ==
    /\ phase' = "raise"
    /\ at' = Level(layer) - 1
    /\ raised' = e

\* Mutant: response_started is set after the send.
TrackedSendLate(outer, sent) == IF sent THEN outer \cap Trackers ELSE {}

\* tracked_send: the flag is set before the message is passed on, so it is
\* set even when the send raises.
TrackedSend(outer, sent) == outer \cap Trackers

\* CORSMiddleware compares the header as it is with trusted_origins.
CorsAllows(origin) == origin # <<>> /\ Head(origin) = "canonical"

\* A layer answers: the start message passes tracked_send and the header
\* hooks of every layer outside it.  The server's send may raise.
Respond(layer, status, envelope) ==
    LET outer == {l \in Layers : Level(l) < Level(layer)} IN
    /\ wire' = Append(wire,
           [status |-> status, envelope |-> envelope, traced |-> "trace" \in outer,
            cors |-> "cors" \in outer /\ CorsAllows(req.origin), from |-> layer])
    /\ \/ /\ phase' = "done"
          /\ started' = started \cup TrackedSend(outer, TRUE)
          /\ UNCHANGED <<at, raised>>
       \/ /\ RaiseFrom(layer, [kind |-> "Exception"])
          /\ started' = started \cup TrackedSend(outer, FALSE)

Descend ==
    /\ at' = at + 1
    /\ UNCHANGED <<phase, started, raised, wire>>

----------------------------------------------------------------------------
(* Down the middleware.                                                    *)

\* ServerErrorMiddleware, TraceIdMiddleware and SanitizedExceptionMiddleware
\* only wrap send on the way down.
PassDown ==
    /\ phase = "enter"
    /\ Stack[at] \in {"server_error", "trace", "sanitized"}
    /\ Descend
    /\ UNCHANGED <<step, req, received, spooled>>

\* A preflight is answered by CORSMiddleware itself.
Cors ==
    /\ phase = "enter"
    /\ Stack[at] = "cors"
    /\ IF req.preflight
       THEN Respond("cors", IF CorsAllows(req.origin) THEN 200 ELSE 400, FALSE)
       ELSE Descend
    /\ UNCHANGED <<step, req, received, spooled>>

IsUpload == req.route = "upload_csv"

DeclaredTooLarge(length) == length # None /\ length > MAX_UPLOAD_REQUEST_BYTES

\* DatasetUploadSizeLimitMiddleware.__call__ up to the application's call.
Limit ==
    /\ phase = "enter"
    /\ Stack[at] = "limit"
    /\ IF IsUpload
       THEN \E length \in Lengths :
               /\ req' = [req EXCEPT !.length = length]
               /\ IF DeclaredTooLarge(length) THEN Respond("limit", 413, TRUE) ELSE Descend
       ELSE Descend /\ UNCHANGED req
    /\ UNCHANGED <<step, received, spooled>>

\* The router found the route: FastAPI reads a JSON body before it solves the
\* dependencies.
Dispatch ==
    /\ phase = "enter"
    /\ Stack[at] = "exceptions"
    /\ at' = at + 1
    /\ phase' = IF Route.body = "json" THEN "json" ELSE "guards"
    /\ UNCHANGED <<step, req, received, spooled, started, raised, wire>>

\* A JSON body: parsed, refused as invalid, or refused by the framework with
\* an HTTPException of its own (a disconnect, an undecodable body).
ReadJson ==
    /\ phase = "json"
    /\ \/ phase' = "guards" /\ UNCHANGED <<at, raised>>
       \/ RaiseFrom("router", [kind |-> "RequestValidationError"])
       \/ RaiseFrom("router", [kind |-> "HTTPException"])
    /\ UNCHANGED <<step, req, received, spooled, started, wire>>

----------------------------------------------------------------------------
(* The dependencies.                                                       *)

GuardIs(name) ==
    /\ phase = "guards"
    /\ step < Len(Route.guards)
    /\ Route.guards[step + 1] = name

Admit == step' = step + 1 /\ UNCHANGED <<phase, at, raised>>

Deny(status) ==
    /\ RaiseFrom("router", [kind |-> "ApiError", status |-> status])
    /\ UNCHANGED step

\* canonicalize_origin gives a trusted origin.
Canonical(value) == value \in {"canonical", "variant"}

\* Path, query and fragment are dropped first; the spelling is that of the rest.
OriginFromReferer(value) == Canonical(value)

\* require_trusted_origin: one Origin, or no Origin and one Referer.
TrustedOrigin(origin, referer) ==
    IF origin # <<>>
    THEN Len(origin) = 1 /\ Canonical(origin[1])
    ELSE Len(referer) = 1 /\ OriginFromReferer(referer[1])

EnforceTrustedOrigin ==
    /\ GuardIs("origin")
    /\ \E referer \in IF req.origin = <<>> THEN Origins ELSE {None} :
          /\ req' = [req EXCEPT !.referer = referer]
          /\ IF TrustedOrigin(req.origin, referer) THEN Admit ELSE Deny(403)
    /\ UNCHANGED <<received, spooled, started, wire>>

\* require_json_content_type and require_multipart_content_type: exactly one
\* value, and the expected one.
EnforceContentType ==
    /\ GuardIs("json") \/ GuardIs("multipart")
    /\ \E media \in HeaderValues(MediaTypes) :
          /\ req' = [req EXCEPT !.media = media]
          /\ IF media = <<Route.guards[step + 1]>> THEN Admit ELSE Deny(415)
    /\ UNCHANGED <<received, spooled, started, wire>>

CookieName ==
    IF Environment = "production" THEN "__Host-datacheck_session" ELSE "datacheck_session"

\* get_session_cookie.
SessionCookie(cookies) == cookies[CookieName]

\* require_authenticated_context: 401, or the database fails.
Authenticate ==
    /\ GuardIs("session")
    /\ \E cookies \in Cookies :
          /\ req' = [req EXCEPT !.cookies = cookies]
          /\ \/ SessionCookie(cookies) = "live" /\ Admit
             \/ SessionCookie(cookies) # "live" /\ Deny(401)
             \/ /\ SessionCookie(cookies) # None
                /\ RaiseFrom("router", [kind |-> "SQLAlchemyError"])
                /\ UNCHANGED step
    /\ UNCHANGED <<received, spooled, started, wire>>

\* parse_csrf_header.
ParseCsrf(values) ==
    IF Len(values) = 1 /\ values[1] # "malformed" THEN values[1] ELSE None

\* require_authenticated_mutation.
CheckCsrf ==
    /\ GuardIs("csrf")
    /\ \E values \in HeaderValues(CsrfTokens) :
          /\ req' = [req EXCEPT !.csrf = values]
          /\ IF ParseCsrf(values) = "own" THEN Admit ELSE Deny(403)
    /\ UNCHANGED <<received, spooled, started, wire>>

\* The dependencies are solved; what was wrong with parameters or payload is
\* reported only now.
EnterHandler ==
    /\ phase = "guards"
    /\ step = Len(Route.guards)
    /\ \/ /\ phase' = IF Route.body = "form" THEN "form" ELSE "handler"
          /\ UNCHANGED <<at, raised>>
       \/ /\ Route.params \/ Route.body = "json"
          /\ RaiseFrom("router", [kind |-> "RequestValidationError"])
    /\ UNCHANGED <<step, req, received, spooled, started, wire>>

----------------------------------------------------------------------------
(* The upload's body.                                                      *)

\* Mutant: the total is compared before the message is added.
ExceedsLate(total, size) == total > MAX_UPLOAD_REQUEST_BYTES

\* Mutant: the limit itself is refused.
ExceedsEarly(total, size) == total + size >= MAX_UPLOAD_REQUEST_BYTES

\* limited_receive.
Exceeds(total, size) == total + size > MAX_UPLOAD_REQUEST_BYTES

\* http.disconnect: the form parser raises ClientDisconnect.
Disconnect ==
    /\ phase = "form"
    /\ RaiseFrom("router", [kind |-> "Exception"])
    /\ UNCHANGED <<step, req, received, spooled, started, wire>>

\* Mutant: received is overwritten by each message.
ReceiveChunkUncounted(size, more) ==
    /\ phase = "form"
    /\ req.length # None => received + size <= req.length
    /\ received' = size
    /\ spooled' = size
    /\ phase' = IF more THEN "form" ELSE "handler"
    /\ UNCHANGED <<at, step, req, started, raised, wire>>

\* One http.request message.  The server never delivers more than a declared
\* Content-Length, and ends the body when it is reached.
ReceiveChunk(size, more) ==
    /\ phase = "form"
    /\ req.length # None =>
          /\ received + size <= req.length
          /\ more <=> received + size < req.length
    /\ received' = received + size
    /\ IF Exceeds(received, size)
       THEN RaiseFrom("router", [kind |-> "_RequestBodyTooLarge"]) /\ UNCHANGED spooled
       ELSE /\ spooled' = received + size
            /\ phase' = IF more THEN "form" ELSE "handler"
            /\ UNCHANGED <<at, raised>>
    /\ UNCHANGED <<step, req, started, wire>>

\* MultiPartException, which Starlette turns into HTTPException, or parts
\* other than one file: invalid_multipart.
RefuseForm ==
    /\ phase = "form" \/ (phase = "handler" /\ Route.body = "form")
    /\ RaiseFrom("router", [kind |-> "ApiError", status |-> Route.maps["HTTPException"]])
    /\ UNCHANGED <<step, req, received, spooled, started, wire>>

----------------------------------------------------------------------------
(* The handler and its service.                                            *)

\* write_candidate refuses a file above MAX_CSV_BYTES, after the checks of
\* name and owner and before the scan; file is the size of the file part.
FileAgrees(outcome, file) ==
    /\ outcome = "FileTooLarge" => file > MAX_CSV_BYTES
    /\ outcome \in {"ok", "CsvStructureError", "IncompatibleUpload"} => file <= MAX_CSV_BYTES

CallService(outcome) ==
    /\ phase = "handler"
    /\ outcome \in {"ok", "SQLAlchemyError", "Exception"} \cup Raises[req.route]
    /\ IsUpload => \E file \in 0 .. spooled : FileAgrees(outcome, file)
    /\ \/ outcome = "ok" /\ Respond("router", Route.ok, FALSE)
       \/ /\ outcome \in DOMAIN Route.maps
          /\ RaiseFrom("router", [kind |-> "ApiError", status |-> Route.maps[outcome]])
          /\ UNCHANGED <<started, wire>>
       \/ /\ outcome \notin DOMAIN Route.maps \cup {"ok"}
          /\ RaiseFrom("router", [kind |-> outcome])
          /\ UNCHANGED <<started, wire>>
    /\ UNCHANGED <<step, req, received, spooled>>

----------------------------------------------------------------------------
(* Back up: the except clauses.                                            *)

Propagate ==
    /\ at' = at - 1
    /\ UNCHANGED <<phase, started, raised, wire>>

\* register_error_handlers, and the framework's own handler of HTTPException.
ErrorHandler(e) ==
    CASE e.kind = "ApiError"               -> [status |-> e.status, envelope |-> TRUE]
      [] e.kind = "RequestValidationError" -> [status |-> 422, envelope |-> TRUE]
      [] e.kind = "SQLAlchemyError"        -> [status |-> 503, envelope |-> TRUE]
      [] e.kind = "HTTPException"          -> [status |-> 400, envelope |-> FALSE]

Handled == {"ApiError", "RequestValidationError", "SQLAlchemyError", "HTTPException"}

HandleException ==
    /\ phase = "raise"
    /\ at > 0 /\ Stack[at] = "exceptions"
    /\ IF raised.kind \in Handled /\ "exceptions" \notin started
       THEN Respond("exceptions", ErrorHandler(raised).status, ErrorHandler(raised).envelope)
       ELSE Propagate
    /\ UNCHANGED <<step, req, received, spooled>>

\* except _RequestBodyTooLarge.
CatchTooLarge ==
    /\ phase = "raise"
    /\ at > 0 /\ Stack[at] = "limit"
    /\ IF raised.kind = "_RequestBodyTooLarge" /\ "limit" \notin started
       THEN Respond("limit", 413, TRUE)
       ELSE Propagate
    /\ UNCHANGED <<step, req, received, spooled>>

\* SanitizedExceptionMiddleware: whatever is left becomes a sanitised 500.
Sanitize ==
    /\ phase = "raise"
    /\ at > 0 /\ Stack[at] = "sanitized"
    /\ IF "sanitized" \notin started THEN Respond("sanitized", 500, TRUE) ELSE Propagate
    /\ UNCHANGED <<step, req, received, spooled>>

\* CORSMiddleware and TraceIdMiddleware let exceptions through.
PassUp ==
    /\ phase = "raise"
    /\ at > 0 /\ Stack[at] \in {"cors", "trace"}
    /\ Propagate
    /\ UNCHANGED <<step, req, received, spooled>>

\* ServerErrorMiddleware answers a plain 500 if nothing was answered, and the
\* exception ends in the server either way.
ServerError ==
    /\ phase = "raise"
    /\ at > 0 /\ Stack[at] = "server_error"
    /\ phase' = "done"
    /\ wire' = IF "server_error" \in started THEN wire
               ELSE Append(wire, [status |-> 500, envelope |-> FALSE, traced |-> FALSE,
                                  cors |-> FALSE, from |-> "server_error"])
    /\ UNCHANGED <<at, step, req, received, spooled, started, raised>>

----------------------------------------------------------------------------
Finished == phase = "done" /\ UNCHANGED vars

\* Every step after the arrival: the server's, and the client's next message.
Serve ==
    \/ PassDown \/ Cors \/ Limit \/ Dispatch \/ ReadJson
    \/ EnforceTrustedOrigin \/ EnforceContentType \/ Authenticate \/ CheckCsrf
    \/ EnterHandler
    \/ Disconnect \/ RefuseForm
    \/ \E size \in 0 .. MaxChunk, more \in BOOLEAN : ReceiveChunk(size, more)
    \/ \E outcome \in {"ok", "SQLAlchemyError", "Exception"} \cup Refusals :
          CallService(outcome)
    \/ HandleException \/ CatchTooLarge \/ Sanitize \/ PassUp \/ ServerError

Next ==
    \/ \E route \in Routes, origin \in Origins, preflight \in BOOLEAN :
          Arrive(route, origin, preflight)
    \/ Serve
    \/ Finished

Spec == Init /\ [][Next]_vars /\ WF_vars(Serve)

----------------------------------------------------------------------------
(* Properties.                                                             *)

\* Every request gets exactly one response start: no layer answers after
\* another has begun to, even when the server's send raises midway, and none
\* leaves the request unanswered.
ExactlyOneAnswer ==
    /\ Len(wire) <= 1
    /\ phase = "done" => Len(wire) = 1

\* "expose it on every HTTP response" and "even middleware-owned preflight
\* responses receive one": every response carries the trace id; a browser on a
\* trusted origin may read every one, errors of the middleware included; and a
\* failure of the server is always the sanitised envelope.
AnswersCarryTraceAndCors ==
    \A i \in DOMAIN wire :
        /\ wire[i].traced
        /\ ~req.preflight /\ CorsAllows(req.origin) => wire[i].cors
        /\ wire[i].status >= 500 => wire[i].envelope

\* "Bound upload bytes before Starlette can spool an oversized file part": the
\* form parser never gets more than the limit, a 413 is given only for a body
\* or a file that really is too large, and a body that is gets nothing else.
SizeLimitIsExact ==
    /\ spooled <= MAX_UPLOAD_REQUEST_BYTES
    /\ \A i \in DOMAIN wire :
          /\ wire[i].status = 413 =>
                \/ received > MAX_UPLOAD_REQUEST_BYTES
                \/ DeclaredTooLarge(req.length)
                \/ spooled > MAX_CSV_BYTES
          /\ received > MAX_UPLOAD_REQUEST_BYTES => wire[i].status = 413

\* "Cookie-authenticated mutations validate an exact trusted Origin, with a
\* validated Referer fallback, before domain work, and require the session-
\* bound synchronizer token": before a mutation reads a byte of the upload or
\* calls its service it has shown one trusted origin, the live session cookie
\* of this environment and one token of that session; a reader, the cookie;
\* register, login and logout, the origin.
WorkIsAuthorized ==
    phase \in {"form", "handler"} =>
        /\ req.route \notin SigningRoutes =>
              req.cookies # None /\ req.cookies[CookieName] = "live"
        /\ req.route \in Mutations \cup SigningRoutes =>
              \/ req.origin \in {<<"canonical">>, <<"variant">>}
              \/ req.origin = <<>> /\ req.referer \in {<<"canonical">>, <<"variant">>}
        /\ req.route \in Mutations => req.csrf = <<"own">>

\* Every response of a route has its success status or one it declares (422 is
\* declared by FastAPI itself for a route with parameters), and a refusal of a
\* service is never reported as a failure of the server.  The framework's own
\* HTTPException, the one error answer of the routes that is no ErrorEnvelope,
\* is outside the routes' declarations (FailuresUseEnvelope).
AnswersAsDeclared ==
    \A i \in DOMAIN wire :
        /\ ~req.preflight /\ (wire[i].status = 400 => wire[i].envelope) =>
              wire[i].status \in {Route.ok} \cup Route.declares
                                  \cup (IF Route.params THEN {422} ELSE {})
        /\ wire[i].status >= 500 /\ raised # None => raised.kind \notin Refusals

\* "Product API failures use a stable envelope containing a safe code, message,
\* optional field issues, and a server-generated trace ID": every error answer
\* to a request for a route is the ErrorEnvelope of error_response.  It is not:
\* register_error_handlers has no handler for the HTTPException that FastAPI
\* raises for a JSON body it cannot decode.
FailuresUseEnvelope ==
    \A i \in DOMAIN wire :
        ~req.preflight /\ wire[i].status >= 400 => wire[i].envelope

\* Every request ends, however its body is cut into messages: an endless body
\* runs into the limit.
EveryRequestEnds == phase = "enter" ~> phase = "done"

=============================================================================
