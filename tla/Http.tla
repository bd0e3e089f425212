------------------------------- MODULE Http --------------------------------
(***************************************************************************)
(* One request on its way through the server's HTTP edge                   *)
(* (internal/platform/httpx): the router, bearerAuth, transfers and the    *)
(* OpenAPI validator, the generated wrapper and strict handler, the        *)
(* module's handler, the reply, and Recover around all of it.  Requests    *)
(* share nothing here, so one at a time is enough.                         *)
(*                                                                         *)
(* A request is what the layers tell apart: its operation, its             *)
(* Authorization header, the one parameter that is missing or malformed,   *)
(* If-Match, its body and (for an upload) whether its Content-Type is one  *)
(* the operation takes.  An error of a use case is any error its module's  *)
(* `problem' knows, or "other".                                            *)
(***************************************************************************)
EXTENDS Api, Sequences

VARIABLE web      \* the request being served, and what was answered

httpVars == <<web>>

\* What an Authorization header may be, and what a body may be.
Headers == {"none", "basic", "bad token", "good token"}
Bodies  == {"none", "json", "broken", "huge"}
IfMatches == {"junk", "0", "1"}

Operations == DOMAIN Bound

\* What stands for a path or a method the router does not know.
Unknown == {"no such route", "wrong method"}

\* A fact about the tables of Api, which have no parameters: evaluated once.
ASSUME UnknownAssumption == Operations \intersect Unknown = {}

Params(o) == Bound[o][1] \union Bound[o][2]

\* operationKinds: an operation that takes a file is an upload.
Upload(o) == Decoded[o] = "file"

\* api/openapi.yaml: protected, unless it says `security: []'.
PublicOperations ==
  {"RequestOTP", "VerifyOTP", "RefreshTokens", "ListCities", "SearchBranches",
   "GetBranchPage", "GetAvailability", "ListServiceCategories", "DownloadMedia"}

Protected(o) == o \notin PublicOperations

\* A header, a parameter or a body that the operation does not read is left
\* at its plainest value.
Plain(r) ==
  \/ /\ r.op \notin Operations
     /\ r.match = "1" /\ r.body = "none" /\ r.typed
  \/ /\ r.op \in Operations
     /\ "If-Match" \in Params(r.op) \/ r.match = "1"
     /\ Upload(r.op) \/ r.typed
     /\ r.fault = "none" \/ r.body \in {"none", "json"}

Faults(o) == {"none"} \union IF o \in Operations THEN Params(o) ELSE {}

Idle == [step |-> "idle"]

-----------------------------------------------------------------------------
(* Answering                                                               *)

\* The status line goes out: only the first one reaches the client.
Sent(w, status) == [w EXCEPT !.sent = Append(@, status)]

Answer(w, status) == [Sent(w, status) EXCEPT !.step = "done"]

responseStarted(w) == w.sent # <<>>

\* A request arrives: an unknown path or method is answered by the router.
NewRouter ==
  /\ web = Idle
  /\ \E o \in Operations \union Unknown, h \in Headers,
        v \in IfMatches, b \in Bodies, t \in BOOLEAN :
       \E f \in Faults(o) :
         LET r == [op |-> o, header |-> h, fault |-> f, match |-> v,
                   body |-> b, typed |-> t]
             w == [step |-> "auth", req |-> r, principal |-> FALSE, body |-> b,
                   seen |-> "none", ran |-> FALSE, reply |-> 0, sent |-> <<>>,
                   cut |-> FALSE, aborts |-> FALSE]
         IN  /\ Plain(r)
             /\ web' = CASE o = "no such route" -> Answer(w, 404)
                         [] o = "wrong method"  -> Answer(w, 405)
                         [] OTHER               -> w

\* The token of an "Authorization: Bearer <token>" header, if it is one.
bearerToken(header) == header \in {"bad token", "good token"}

\* bearerAuth refuses nobody: a bad token is no token.
BearerAuth ==
  /\ web.step = "auth"
  /\ web' = [web EXCEPT !.step = "transfer",
                        !.principal = /\ bearerToken(web.req.header)
                                      /\ web.req.header = "good token"]

\* transfers: an upload's body is kept aside and hidden from the validator;
\* any other is capped.
Transfers ==
  /\ web.step = "transfer"
  /\ web' = [web EXCEPT !.step = "validate",
                         !.body = IF Upload(web.req.op) THEN "none" ELSE @]

\* The OpenAPI validator, a library: security, then parameters, then the
\* body, of which the security check may already have read too much.  What
\* it lets through (200) it may have checked less strictly than the wrapper.
Validator(w) ==
  LET o    == w.req.op
      Huge == IF w.body = "huge" THEN {413} ELSE {}
  IN  IF Protected(o) /\ ~w.principal THEN {401} \union Huge
      ELSE IF w.req.fault # "none" THEN {400, 200} \union Huge
      ELSE IF Decoded[o] = "json"
           THEN IF w.body = "json" THEN {200}
                ELSE IF w.body = "huge" THEN {413} ELSE {400}
      ELSE IF Decoded[o] = "optional"
           THEN IF w.body = "huge" THEN {413}
                ELSE IF w.body = "broken" THEN {400} ELSE {200}
      ELSE {200} \union Huge

Validate ==
  /\ web.step = "validate"
  /\ \E s \in Validator(web) :
       web' = IF s # 200 THEN Answer(web, s)
              ELSE [web EXCEPT !.step = IF Upload(web.req.op) THEN "restore"
                                        ELSE "bind"]

\* After the security check: the upload's type, and its body put back.
CheckedUpload ==
  /\ web.step = "restore"
  /\ web' = IF ~web.req.typed THEN Answer(web, 400)
            ELSE [web EXCEPT !.step = "bind", !.body = web.req.body]

\* The wrapper binds the parameters.
Bind ==
  /\ web.step = "bind"
  /\ web' = IF web.req.fault # "none" THEN Answer(web, 400)
            ELSE [web EXCEPT !.step = "decode"]

\* The strict handler decodes the body.
DecodeBody ==
  LET kind == Decoded[web.req.op]
      bad  == \/ kind = "json" /\ web.body # "json"
              \/ kind = "optional" /\ web.body \in {"broken", "huge"}
  IN  /\ web.step = "decode"
      /\ web' = IF bad THEN Answer(web, 400) ELSE [web EXCEPT !.step = "handle"]

ParseIfMatch(v, lowest) == v = "1" \/ (v = "0" /\ lowest = 0)

\* The module's handler: the caller, If-Match, then the use case, which
\* succeeds or returns an error for `problem', or panics, with
\* http.ErrAbortHandler or anything else.
Handle ==
  LET h == Handlers[web.req.op]
      Refuse(e) == web' = [web EXCEPT !.step = "visit", !.reply = problem(h.module, e)]
  IN  /\ web.step = "handle"
      /\ IF h.principal /\ ~web.principal
         THEN Refuse(IF h.module = "iam" THEN "ErrUnauthenticated"
                     ELSE "ErrNoPrincipal")
         ELSE IF h.lowest # NoVersion /\ ~ParseIfMatch(web.req.match, h.lowest)
         THEN Refuse("ErrBadIfMatch")
         ELSE \/ web' = [web EXCEPT !.step = "visit", !.ran = TRUE, !.seen = web.body,
                                    !.reply = Replies[web.req.op]]
              \/ \E e \in DOMAIN Problems[h.module] \union {"other"} :
                   web' = [web EXCEPT !.step = "visit", !.ran = TRUE,
                                      !.seen = web.body,
                                      !.reply = problem(h.module, e)]
              \/ \E deliberate \in BOOLEAN :
                   web' = [web EXCEPT !.step = "panic", !.ran = TRUE, !.seen = web.body,
                                      !.aborts = deliberate]

\* The reply is encoded; its status goes out, then its body.
Visit ==
  /\ web.step = "visit"
  /\ \/ web' = [web EXCEPT !.step = "failed"]
     \/ web' = [Sent(web, web.reply) EXCEPT !.step = "sending"]

\* Its body is written, cut short (the client went away, the file's reader
\* failed), or its reader panics.
Sending ==
  /\ web.step = "sending"
  /\ \/ web' = [web EXCEPT !.step = "done"]
     \/ web' = [web EXCEPT !.step = "failed"]
     \/ web.req.op = "DownloadMedia" /\ web' = [web EXCEPT !.step = "panic"]

\* ResponseErrorHandlerFunc: too late for a status, or a 500.
ResponseError ==
  /\ web.step = "failed"
  /\ web' = IF responseStarted(web) THEN [web EXCEPT !.step = "done", !.cut = TRUE]
            ELSE Answer(web, 500)

\* Mutant: a problem is written whether or not a reply began.
RecoverAlways(w) == Answer(w, 500)

\* Recover: a panic is a 500, or a connection cut off: once a reply began, or
\* when the panic asked for that.
Recover(w) ==
  IF w.aborts \/ responseStarted(w) THEN [w EXCEPT !.step = "done", !.cut = TRUE]
  ELSE Answer(w, 500)

Recovered == web.step = "panic" /\ web' = Recover(web)

\* The connection takes its next request.
NextRequest == web.step = "done" /\ web' = Idle

HttpInit == web = Idle

HttpNext ==
  \/ NewRouter \/ NextRequest
  \/ /\ web # Idle
     /\ \/ BearerAuth \/ Transfers \/ Validate \/ CheckedUpload \/ Bind
        \/ DecodeBody \/ Handle \/ Visit \/ Sending \/ ResponseError \/ Recovered

HttpSpec == HttpInit /\ [][HttpNext]_httpVars

-----------------------------------------------------------------------------
\* A stranger (no token, or not a good one) gets nothing from a protected
\* operation but 401, whatever else is wrong with the request: no use case
\* runs, and a missing parameter, a wrong type or a broken body is not looked
\* at first.  Only a body over the cap may answer 413 before it, and never an
\* upload's, which the validator does not see (api.go, transfers: "after the
\* security check, so strangers still get 401").
StrangersGet401 ==
  (/\ web # Idle
   /\ web.req.op \in Operations /\ Protected(web.req.op)
   /\ web.req.header # "good token")
    => /\ ~web.ran
       /\ web.step = "done" => \/ web.sent = <<401>>
                               \/ /\ web.sent = <<413>> /\ web.req.body = "huge"
                                  /\ ~Upload(web.req.op)

\* Every request is answered once: one status line, whichever layer refused,
\* failed or panicked and however late (middleware.go, Recover: a second one
\* would glue JSON onto the body), and none only when the handler panicked to
\* have the connection cut off; a reply is cut off only after it began; and
\* a use case that ran saw the body the client sent, an upload's too, which
\* went around the validator.
AnsweredOnce ==
  web # Idle =>
    /\ Len(web.sent) <= 1
    /\ web.step = "done" => Len(web.sent) = 1 \/ (web.aborts /\ web.cut)
    /\ web.ran => web.seen = web.req.body

\* What the middleware promises every handler behind it, in whatever order its
\* layers refuse, fail or panic: strangers get 401, and everyone one answer.
EdgeIsSound == StrangersGet401 /\ AnsweredOnce
=============================================================================
