----------------------------- MODULE HttpClient -----------------------------
(***************************************************************************)
(* A request of the HTTP client that the CAP and the public API share:   *)
(* makeRequest and DoRequest of internal/client/client.go.                 *)
(*                                                                         *)
(* A path is a sequence of parts: a Hole of a parameter, the same text     *)
(* once it is percent-encoded, or other text.  A value of a parameter is   *)
(* such a sequence, too, for nothing keeps a test from using braces in it. *)
(* The placeholders are filled in the arbitrary order in which Go visits   *)
(* the map of parameters, one per step.                                    *)
(*                                                                         *)
(* A definition named X_Something is X with one plausible slip; it is used *)
(* only to show that the properties notice that slip.                      *)
(***************************************************************************)
EXTENDS Integers, Sequences, SequencesExt

CONSTANTS Keys,        \* names of path parameters
          Templates,   \* paths as the API methods write them
          Parameters,  \* maps of path parameters that a caller may give
          Statuses,    \* status codes the server may answer with
          Timeout      \* cfg.HTTP.Timeout in seconds; 0 means none

Text == [kind |-> "text", key |-> "none"]
Hole(k) == [kind |-> "hole", key |-> k]
Encoded(k) == [kind |-> "encoded", key |-> k]
Part == {Text} \cup {Hole(k) : k \in Keys} \cup {Encoded(k) : k \in Keys}

ASSUME PathAssumption ==
    /\ Templates \subseteq Seq(Part)
    /\ \A given \in Parameters : DOMAIN given \subseteq Keys /\ \A k \in DOMAIN given : given[k] \in Seq(Part)
ASSUME NumberAssumption == Statuses \subseteq 100 .. 599 /\ Timeout \in Nat

VARIABLES
    \* the request as the caller made it
    template, params, body, multipart, header,
    \* makeRequest
    path, todo, contentType,
    pc,          \* "idle", "path", "body", "headers", "send", "read", "decode", "returned"
    expired,     \* the timer of http.Client has fired
    \* the server's answer: its status, and what the body is (external)
    status, answer,
    \* the Response
    statusCode,  \* Response.StatusCode
    decoded,     \* Response.Body: "zero", "part" of the answer, "all" of it
    error        \* Response.Error: "nil", "client", "server"

request == <<template, params, body, multipart, header>>
response == <<statusCode, decoded, error>>
vars == <<request, path, todo, contentType, pc, expired, status, answer, response>>

\* No call yet.
Idle ==
    /\ template = << >> /\ params = << >>
    /\ body = FALSE /\ multipart = FALSE /\ header = "none"
    /\ path = << >> /\ todo = {} /\ contentType = "none"
    /\ pc = "idle" /\ expired = FALSE
    /\ status = 0 /\ answer = "none"
    /\ statusCode = 0 /\ decoded = "zero" /\ error = "nil"

-----------------------------------------------------------------------------
(* makeRequest. *)

\* DoRequest is called with a path, parameters, a body, a form, a Content-Type.
DoRequest(to, given, hasBody, hasForm, type) ==
    /\ pc = "idle"
    /\ template' = to /\ params' = given
    /\ body' = hasBody /\ multipart' = hasForm /\ header' = type
    /\ path' = to /\ todo' = DOMAIN given
    /\ pc' = "path"
    /\ UNCHANGED <<contentType, expired, status, answer, response>>

\* url.PathEscape: the braces of a value are encoded.
PathEscape_None(value) == value
PathEscape(value) == [n \in DOMAIN value |->
                        IF value[n].kind = "hole" THEN Encoded(value[n].key) ELSE value[n]]

\* strings.ReplaceAll(path, "{key}", url.PathEscape(value))
Filled(p, key, value) ==
    FlattenSeq([n \in DOMAIN p |-> IF p[n] = Hole(key) THEN PathEscape(value) ELSE <<p[n]>>])

FillIn(key) ==
    /\ pc = "path"
    /\ key \in todo
    /\ todo' = todo \ {key}
    /\ path' = Filled(path, key, params[key])
    /\ UNCHANGED <<request, contentType, pc, expired, status, answer, response>>

\* The loop over the parameters is over.
AllFilled == todo = {}

\* The path and the base URL parse.
Resolve ==
    /\ pc = "path"
    /\ AllFilled
    /\ pc' = "body"
    /\ UNCHANGED <<request, path, todo, contentType, expired, status, answer, response>>

\* A form takes precedence over a body, which is then not sent.
BodyType == IF multipart THEN "multipart" ELSE IF body THEN "json" ELSE "none"

WriteBody ==
    /\ pc = "body"
    /\ contentType' = BodyType
    /\ pc' = "headers"
    /\ UNCHANGED <<request, path, todo, expired, status, answer, response>>

\* req.Header.Set for the headers of the caller, which come last.
HeaderWins == header = "own"

SetHeaders ==
    /\ pc = "headers"
    /\ contentType' = IF HeaderWins THEN header ELSE contentType
    /\ pc' = "send"
    /\ UNCHANGED <<request, path, todo, expired, status, answer, response>>

\* Response{Error: &ErrorResponse{Body: err.Error()}}, without a status code.
Abandon ==
    /\ pc' = "returned"
    /\ error' = "client"
    /\ UNCHANGED <<statusCode, decoded>>

\* A URL that does not parse, or a body that cannot be encoded.
RequestFails ==
    /\ (pc = "path" /\ AllFilled) \/ pc = "body"
    /\ Abandon
    /\ UNCHANGED <<request, path, todo, contentType, expired, status, answer>>

-----------------------------------------------------------------------------
(* DoRequest. *)

\* The timer covers the exchange up to the end of the body.
Covered_Do == {"send"}
Covered == {"send", "read"}

Expire ==
    /\ Timeout > 0
    /\ pc \in Covered
    /\ ~expired
    /\ expired' = TRUE
    /\ UNCHANGED <<request, path, todo, contentType, pc, status, answer, response>>

\* The server answers (external).
Respond ==
    /\ pc = "send"
    /\ status' \in Statuses
    /\ pc' = "read"
    /\ UNCHANGED <<request, path, todo, contentType, expired, answer, response>>

\* The connection breaks.
ConnectionFails ==
    /\ pc \in {"send", "read"}
    /\ Abandon
    /\ UNCHANGED <<request, path, todo, contentType, expired, status, answer>>

\* Do or ReadAll comes back because the time is over.
TimesOut ==
    /\ pc \in {"send", "read"}
    /\ expired
    /\ Abandon
    /\ UNCHANGED <<request, path, todo, contentType, expired, status, answer>>

\* The body has arrived: nothing, the JSON of the expected type, other JSON,
\* of which json.Unmarshal decodes what fits before it fails, or no JSON.
ReadBody ==
    /\ pc = "read"
    /\ answer' \in {"empty", "fits", "other", "garbage"}
    /\ pc' = "decode"
    /\ UNCHANGED <<request, path, todo, contentType, expired, status, response>>

IsError == status >= 400

\* The body of an error is kept as text, and decoded as an error if it can be.
ReturnError ==
    /\ pc = "decode"
    /\ IsError
    /\ statusCode' = status
    /\ error' = "server"
    /\ pc' = "returned"
    /\ UNCHANGED <<request, path, todo, contentType, expired, status, answer, decoded>>

\* A body that does not decode sets Error and leaves the status code alone.
DecodeError_Dropped == "nil"
DecodeError == IF answer \in {"other", "garbage"} THEN "client" ELSE "nil"

ReturnBody ==
    /\ pc = "decode"
    /\ ~IsError
    /\ statusCode' = status
    /\ decoded' = CASE answer = "fits" -> "all"
                    [] answer = "other" -> "part"
                    [] OTHER -> "zero"
    /\ error' = DecodeError
    /\ pc' = "returned"
    /\ UNCHANGED <<request, path, todo, contentType, expired, status, answer>>

\* The caller has what it wants of the Response; nothing else is kept.
Forget ==
    /\ pc = "returned"
    /\ template' = << >> /\ params' = << >>
    /\ body' = FALSE /\ multipart' = FALSE /\ header' = "none"
    /\ path' = << >> /\ todo' = {} /\ contentType' = "none"
    /\ pc' = "idle" /\ expired' = FALSE
    /\ status' = 0 /\ answer' = "none"
    /\ statusCode' = 0 /\ decoded' = "zero" /\ error' = "nil"

-----------------------------------------------------------------------------

\* The client's own steps; the server need not answer nor finish.
ClientStep ==
    \/ \E key \in Keys : FillIn(key)
    \/ Resolve \/ WriteBody \/ SetHeaders \/ TimesOut \/ ReturnError \/ ReturnBody

Next ==
    \/ ClientStep \/ RequestFails \/ Expire \/ Respond \/ ConnectionFails \/ ReadBody
    \/ \E to \in Templates, given \in Parameters, b, form \in BOOLEAN, type \in {"none", "own"} :
          DoRequest(to, given, b, form, type)

Spec == Idle /\ [][Next]_vars

-----------------------------------------------------------------------------

\* Whatever the order in which the parameters are visited and whatever braces
\* their values contain, every placeholder of the template is replaced by the
\* value of its own parameter, and one without a parameter stays in the path
\* (client.go:25-30).
PathIsOrderFree ==
    pc \notin {"idle", "path", "returned"} =>
        path = FlattenSeq([n \in DOMAIN template |->
                 IF template[n].kind = "hole" /\ template[n].key \in DOMAIN params
                 THEN PathEscape(params[template[n].key])
                 ELSE <<template[n]>>])

\* A caller can tell the outcomes apart: no error means that the server
\* accepted and that its whole body was understood; an error with a status
\* below 400 means that the body was not; no status means no answer
\* (client.go:138-205).
OutcomeIsTold ==
    pc = "returned" =>
        /\ (error = "nil") <=> (statusCode \in 1 .. 399 /\ answer \in {"empty", "fits"})
        /\ (error = "server") <=> (statusCode >= 400)
        /\ statusCode = 0 => decoded = "zero" /\ answer = "none"
        /\ decoded = "all" <=> (error = "nil" /\ answer = "fits")
=============================================================================
