------------------------------ MODULE Requests ------------------------------
(***************************************************************************)
(* A request's way through the API (apps/api/src/app.ts): the protections  *)
(* of every request in their order, the guards registered on path          *)
(* patterns, the validation of the contract, the handler, and the envelope *)
(* its failure is answered in.  Each file of routes is a table of what its *)
(* contract says and one of what its handlers answer.                      *)
(*                                                                         *)
(* What handlers do to their rows is in the modules of their slices: here  *)
(* a handler is the statuses it can answer with, and what it does to the   *)
(* caller.  Between any two steps another request of the same person may   *)
(* sign out or erase the account, and a role may be taken away.            *)
(***************************************************************************)
EXTENDS Naturals, Sequences, Functions, TLC

CONSTANTS None, Param,
          Provisions   \* what this deployment was given: [broker, media, production]

VARIABLES
  given,    \* one of Provisions
  caller,   \* the person's session: "live", "expired", "revoked" or "erased"
  role,     \* the member of staff's: "moderator", "researcher", None; "ended" is the session
  call      \* the request on its way; None between two

vars == <<given, caller, role, call>>

-----------------------------------------------------------------------------
(* The routes: method, path, what the contract validates, its statuses     *)

Route(method, path, validates, statuses) ==
  [method |-> method, path |-> path, validates |-> validates, statuses |-> statuses]

authRoutes ==
  [start         |-> Route("GET",  <<"auth", "start">>, TRUE, {302, 400, 503}),
   callback      |-> Route("GET",  <<"auth", "callback">>, TRUE, {302}),
   exchange      |-> Route("POST", <<"auth", "exchange">>, TRUE, {200, 400, 401}),
   refresh       |-> Route("POST", <<"auth", "refresh">>, TRUE, {200, 400, 401}),
   session       |-> Route("GET",  <<"auth", "session">>, FALSE, {200, 401}),
   logout        |-> Route("POST", <<"auth", "logout">>, FALSE, {204, 401}),
   logoutAll     |-> Route("POST", <<"auth", "logout-all">>, FALSE, {204, 401}),
   adminStart    |-> Route("GET",  <<"admin", "auth", "start">>, TRUE, {302, 400, 503}),
   adminExchange |-> Route("POST", <<"admin", "auth", "exchange">>, TRUE, {200, 400, 401, 403}),
   adminWhoAmI   |-> Route("GET",  <<"admin", "whoami">>, FALSE, {200, 401}),
   adminLogout   |-> Route("POST", <<"admin", "auth", "logout">>, FALSE, {204, 401})]

accountRoutes ==
  [delete |-> Route("POST", <<"account", "delete">>, TRUE, {204, 400, 401, 404}),
   export |-> Route("GET",  <<"account", "export">>, FALSE, {200, 401})]

photoRoutes ==
  [photos |-> Route("GET",    <<"photos">>, FALSE, {200, 401}),
   upload |-> Route("POST",   <<"photos">>, TRUE, {201, 400, 401, 409, 413, 415, 422, 503}),
   remove |-> Route("DELETE", <<"photos", Param>>, TRUE, {204, 400, 401, 404}),
   order  |-> Route("PUT",    <<"photos", "order">>, TRUE, {200, 400, 401}),
   url    |-> Route("GET",    <<"photos", Param, Param>>, TRUE, {200, 400, 401, 404, 429, 503})]

staffErrors == {401, 403}

photoAdminRoutes ==
  [queue    |-> Route("GET",  <<"admin", "photos", "queue">>, TRUE, {200, 400} \cup staffErrors),
   review   |-> Route("GET",  <<"admin", "photos", Param, "card">>, TRUE,
                      {200, 400, 404, 503} \cup staffErrors),
   decision |-> Route("POST", <<"admin", "photos", Param, "decision">>, TRUE,
                      {200, 400, 404, 409} \cup staffErrors)]

onboardingRoutes ==
  [status   |-> Route("GET",    <<"onboarding">>, FALSE, {200, 401}),
   gender   |-> Route("PUT",    <<"account", "gender">>, TRUE, {204, 400, 401, 404}),
   consents |-> Route("GET",    <<"consents">>, FALSE, {200, 401}),
   consent  |-> Route("POST",   <<"consents">>, TRUE, {200, 400, 401, 404, 409, 429}),
   withdraw |-> Route("DELETE", <<"consents", "research">>, FALSE, {200, 401, 404})]

pondRoutes ==
  [ponds    |-> Route("GET", <<"ponds">>, FALSE, {200, 401}),
   choose   |-> Route("PUT", <<"account", "pond">>, TRUE, {204, 400, 401, 404}),
   waitlist |-> Route("GET", <<"waitlist">>, FALSE, {200}),
   gate     |-> Route("GET", <<"gate">>, FALSE, {200, 401})]

profileRoutes ==
  [profile     |-> Route("GET", <<"profile">>, FALSE, {200, 401}),
   saveProfile |-> Route("PUT", <<"profile">>, TRUE, {200, 400, 401, 403, 404}),
   card        |-> Route("GET", <<"profile", "card">>, FALSE, {200, 401})]

preferencesRoutes ==
  [preferences     |-> Route("GET", <<"preferences">>, FALSE, {200, 401}),
   savePreferences |-> Route("PUT", <<"preferences">>, TRUE, {200, 400, 401, 404})]

healthRoutes == [health |-> Route("GET", <<"health">>, FALSE, {200, 503})]

wellKnownRoutes ==
  [assetlinks |-> Route("GET", <<".well-known", "assetlinks.json">>, FALSE, {200, 404}),
   siteAssociation |-> Route("GET", <<".well-known", "apple-app-site-association">>, FALSE, {200, 404})]

doc == [openapi |-> Route("GET", <<"openapi.json">>, FALSE, {200, 404})]

ROUTES ==
  healthRoutes @@ authRoutes @@ accountRoutes @@ wellKnownRoutes @@ photoRoutes @@ photoAdminRoutes
    @@ profileRoutes @@ onboardingRoutes @@ pondRoutes @@ preferencesRoutes @@ doc

PUBLIC_ROUTES ==
  {"health", "openapi", "waitlist", "start", "callback", "exchange", "refresh", "assetlinks",
   "siteAssociation", "adminStart", "adminExchange"}

UNLIMITED == {"health", "openapi"}

\* A guard is registered on the paths of the routes that need it, and holds for every
\* method there.
PathsOf(routes) == {routes[r].path : r \in DOMAIN routes}
Guard(roles, paths) == {[roles |-> roles, path |-> p] : p \in paths}

requireSession ==
  Guard({}, {authRoutes[r].path : r \in {"session", "logout", "logoutAll"}}
            \cup PathsOf(accountRoutes) \cup PathsOf(photoRoutes) \cup PathsOf(profileRoutes)
            \cup PathsOf(onboardingRoutes) \cup (PathsOf(pondRoutes) \ {pondRoutes.waitlist.path})
            \cup PathsOf(preferencesRoutes))

requireAdmin ==
  Guard({"moderator", "admin", "researcher"}, {authRoutes[r].path : r \in {"adminWhoAmI", "adminLogout"}})
    \cup Guard({"moderator", "admin"}, PathsOf(photoAdminRoutes))

Matches(pattern, path) ==
  /\ Len(pattern) = Len(path)
  /\ \A i \in DOMAIN path : pattern[i] \in {path[i], Param}

-----------------------------------------------------------------------------
(* What the handlers answer                                                *)

\* Every refusal of the callback goes to the app, and to the panel, as a redirect.
authHandlers ==
  [start |-> IF given.broker THEN {302} ELSE {503}, callback |-> {302},
   exchange |-> {200, 401}, refresh |-> {200, 401},
   session |-> IF caller = "erased" THEN {401} ELSE {200}, logout |-> {204}, logoutAll |-> {204},
   adminStart |-> IF given.broker THEN {302} ELSE {503}, adminExchange |-> {200, 401, 403},
   adminWhoAmI |-> {200}, adminLogout |-> {204}]

Live(answers, refusals) == IF caller = "erased" THEN refusals \cup {404} ELSE answers \cup refusals

accountHandlers == [delete |-> Live({204}, {}), export |-> {200}]

WithMedia(answers) == IF given.media THEN answers ELSE {503}

\* An upload that finds its account erased is answered as one over the limit.
photoHandlers ==
  [photos |-> WithMedia({200}),
   upload |-> WithMedia({409, 415, 422, 503} \cup IF caller = "erased" THEN {} ELSE {201}),
   remove |-> WithMedia(Live({204, 404}, {})), order |-> WithMedia({200, 400}),
   url |-> WithMedia(Live({200, 404, 429}, {}))]

photoAdminHandlers ==
  [queue |-> {200}, review |-> WithMedia({200, 404}), decision |-> {200, 404, 409}]

onboardingHandlers ==
  [status |-> Live({200}, {}), gender |-> Live({204}, {}), consents |-> {200},
   consent |-> Live({200, 429}, {409}), withdraw |-> Live({200}, {})]

pondHandlers ==
  [ponds |-> {200}, choose |-> Live({204}, {400}), waitlist |-> {200}, gate |-> {200}]

profileHandlers ==
  [profile |-> {200}, saveProfile |-> Live({200}, {400, 403}), card |-> Live({200}, {})]

preferencesHandlers == [preferences |-> {200}, savePreferences |-> Live({200}, {})]

Handlers ==
  [health |-> {200, 503}, assetlinks |-> {200, 404}, siteAssociation |-> {200, 404},
   openapi |-> IF given.production THEN {404} ELSE {200}]
    @@ authHandlers @@ accountHandlers @@ photoHandlers @@ photoAdminHandlers
    @@ profileHandlers @@ onboardingHandlers @@ pondHandlers @@ preferencesHandlers

\* Who may keep an answer: nobody the person's own gate and export, anybody the counter
\* and the files of the links, and only when they are there.
CacheControl(route, status) ==
  IF route \in {"gate", "export"} /\ status = 200 THEN "no-store"
  ELSE IF route \in {"waitlist", "assetlinks", "siteAssociation"} /\ status = 200 THEN "public"
  ELSE None

-----------------------------------------------------------------------------
Init ==
  /\ given \in Provisions /\ caller = "live" /\ role \in {"moderator", "researcher"} /\ call = None

\* A path of its own, one of another method's, and one nothing is at.
Concrete(path) == [i \in DOMAIN path |-> IF path[i] = Param THEN "x" ELSE path[i]]

Paths ==
  LET routes == ROUTES IN
  {<<routes[r].method, Concrete(routes[r].path)>> : r \in DOMAIN routes}
    \cup {<<"GET", <<"photos", "order">>>>, <<"GET", <<"nowhere">>>>}

RouteOf(method, path) ==
  LET routes == ROUTES IN
  {r \in DOMAIN routes : routes[r].method = method /\ Matches(routes[r].path, path)}

Arrive ==
  /\ call = None
  /\ \E p \in Paths, token \in {None, "session", "admin"}, flaw \in {None, "invalid", "large"} :
       /\ flaw = "large" => p[1] \in {"POST", "PUT"}
       /\ call' = [at |-> "arrived", path |-> p[2], route |-> RouteOf(p[1], p[2]),
                   token |-> token, flaw |-> flaw, body |-> "unread",
                   passed |-> {}, found |-> "live"]
  /\ UNCHANGED <<given, caller, role>>

At(c, status) == [at |-> "answered", status |-> status, cache |-> None, body |-> c.body,
                  route |-> c.route, path |-> c.path, passed |-> c.passed, found |-> c.found]

\* The cap on bodies, but for the upload, and after it the limiter (Limiter).
Protect ==
  /\ call # None /\ call.at = "arrived"
  /\ IF call.flaw = "large" /\ call.route # {"upload"} THEN call' = At(call, 413)
     ELSE \/ call' = [call EXCEPT !.at = "guards"]
          \/ call.route \cap UNLIMITED = {} /\ call' = At(call, 429)
  /\ UNCHANGED <<given, caller, role>>

GuardsOf(path) == {g \in requireSession \cup requireAdmin : Matches(g.path, path)}

\* The guard of people: a token of a session whose account is live and not sanctioned.
CheckSession ==
  IF call.token # "session" \/ caller \in {"erased", "revoked", "expired"} THEN 401 ELSE None

\* The guard of staff: the role is the one the row says now.
CheckAdmin(roles) ==
  IF call.token # "admin" \/ role \in {None, "ended"} THEN 401
  ELSE IF role \notin roles THEN 403 ELSE None

CheckGuard ==
  /\ call # None /\ call.at = "guards"
  /\ LET left == GuardsOf(call.path) \ call.passed IN
     IF left = {} THEN call' = [call EXCEPT !.at = "guarded"]
     ELSE \E g \in left :
       LET refusal == IF g.roles = {} THEN CheckSession ELSE CheckAdmin(g.roles) IN
       call' = IF refusal # None THEN At(call, refusal)
               ELSE [call EXCEPT !.passed = @ \cup {g},
                                 !.found = IF g.roles = {} THEN caller ELSE role]
  /\ UNCHANGED <<given, caller, role>>

\* The upload's own cap, the contract's validation, or no such route.
Validate ==
  /\ call # None /\ call.at = "guarded"
  /\ LET c == [call EXCEPT !.body = "read"] IN
     call' = IF call.route = {} THEN At(call, 404)
             ELSE IF call.flaw = "large" THEN At(c, 413)
             ELSE IF call.flaw = "invalid" /\ \E r \in call.route : ROUTES[r].validates
             THEN At(c, 400)
             ELSE [c EXCEPT !.at = "valid"]
  /\ UNCHANGED <<given, caller, role>>

\* The handler, with what it does to the caller.
Handle ==
  /\ call # None /\ call.at = "valid"
  /\ \E r \in call.route : \E status \in Handlers[r] :
       /\ call' = [At(call, status) EXCEPT !.cache = CacheControl(r, status)]
       /\ caller' = IF r = "delete" THEN "erased"
                    ELSE IF r \in {"logout", "logoutAll"} /\ caller # "erased" THEN "revoked"
                    ELSE caller
       /\ role' = IF r = "adminLogout" /\ role # None THEN "ended" ELSE role
  /\ UNCHANGED given

End == call # None /\ call.at = "answered" /\ call' = None /\ UNCHANGED <<given, caller, role>>

\* Meanwhile: another request of theirs, the clock, or the operator.
LoseSession ==
  /\ caller = "live" /\ caller' \in {"expired", "revoked", "erased"}
  /\ UNCHANGED <<given, role, call>>

LoseRole == role # None /\ role' \in {None, "researcher"} /\ UNCHANGED <<given, caller, call>>

Next ==
  Arrive \/ Protect \/ CheckGuard \/ Validate \/ Handle \/ End \/ LoseSession \/ LoseRole

Spec == Init /\ [][Next]_vars

-----------------------------------------------------------------------------
TypeOK ==
  /\ given \in Provisions /\ caller \in {"live", "expired", "revoked", "erased"}
  /\ role \in {None, "moderator", "researcher", "ended"}
  /\ call # None => call.at \in {"arrived", "guards", "guarded", "valid", "answered"}

\* No body is read before the guards of its path have passed, "so the body of an
\* unauthenticated upload is never read" (media/routes.ts:134), and a route outside the
\* public list has one.
GuardedFirst ==
  call # None /\ call.body = "read" =>
    /\ call.passed = GuardsOf(call.path)
    /\ call.route \subseteq PUBLIC_ROUTES <=> call.passed = {}

\* Every answer is one the contract names, but for those of the protections; for storage
\* that was not given, which only two of the photo routes name; for two reads of an
\* account erased behind their guard; and for the callback of a bank that sent no state,
\* which is answered in the browser.
AppWide == {413, 429}
Unnamed(r) ==
  CASE r \in {"photos", "remove", "order"} /\ ~given.media -> {503}
    [] r \in {"status", "card"} /\ caller = "erased" -> {404}
    [] r = "callback" -> {400}
    [] OTHER -> {}

AnswersAreInContract ==
  call # None /\ call.at = "answered" =>
    \A r \in call.route : call.status \in AppWide \cup ROUTES[r].statuses \cup Unnamed(r)

\* What anybody in between may keep is nobody's own, and no refusal: a failure is not kept
\* for an hour (pond/routes.ts:110).
KeptIsNobodysOwn ==
  call # None /\ call.at = "answered" /\ call.cache = "public" =>
    call.status = 200 /\ call.passed = {} /\ GuardsOf(call.path) = {}
=============================================================================
