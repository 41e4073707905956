------------------------------- MODULE Surface -------------------------------
(***************************************************************************)
(* The auth surface of crates/surface, derived from a contract, and the    *)
(* dispatch of crates/server/src/server.rs that serves it: which requests  *)
(* the control plane answers, which an auth operation, and which go on to  *)
(* the application.                                                        *)
(*                                                                         *)
(* A path is the sequence of its segments.                                 *)
(***************************************************************************)
EXTENDS Declaration

-----------------------------------------------------------------------------
(* Features and routes. *)

\* ExperienceState::is_invokable: required and admin_only are exposed too.
Bug_is_invokable(state) == state \in {"enabled", "required"}
is_invokable(state) == state # "disabled"
Enabled(config, experience) == is_invokable(config.experience[experience])

Features == {"login", "signup", "sessions", "tenants", "account_linking", "profile", "devices",
    "email_verification", "mfa", "passkeys", "recovery", "agents", "delegation", "control_plane"}
Several(seq) == \E i, j \in DOMAIN seq : i # j
AuthFeatures(config) ==
    [f \in Features |->
        CASE f \in {"login", "signup", "sessions", "control_plane"} -> TRUE
          [] f = "tenants" -> config.multi_tenant
          [] f = "account_linking" -> Several(config.providers)
          [] f = "devices" -> Enabled(config, "device_management")
          [] f \in {"agents", "delegation"} -> config.agents
          [] OTHER -> Enabled(config, f)]

\* A row of the table: what exposes it (an experience, a feature, or both),
\* its spellings, its methods and whether it needs a session.
Row(experience, feature, spellings, methods, operation, session) ==
    [experience |-> experience, needs |-> feature, spellings |-> spellings,
     methods |-> methods, operation |-> operation, requires_session |-> session]

RouteTable == <<
    Row("sign_in", None, {<<"auth", "login">>, <<"auth", "sign-in">>, <<"login">>}, {"GET", "POST"}, "login", FALSE),
    Row("sign_up", None, {<<"auth", "signup">>, <<"signup">>}, {"GET", "POST"}, "signup", FALSE),
    Row("password_change", None, {<<"auth", "password", "change">>}, {"POST"}, "password_change", FALSE),
    Row("password_reset", None, {<<"auth", "password", "forgot">>, <<"forgot-password">>},
        {"GET", "POST"}, "password_forgot", FALSE),
    Row("password_reset", None, {<<"auth", "password", "reset">>, <<"reset-password">>},
        {"GET", "POST"}, "password_reset", FALSE),
    Row(None, None, {<<"_authboundry", "password-policy">>}, {"GET"}, "password_policy", FALSE),
    Row("sign_out", None, {<<"auth", "logout">>, <<"auth", "sign-out">>}, {"POST"}, "logout", TRUE),
    Row("session_management", None, {<<"auth", "session">>}, {"GET", "DELETE"}, "session", TRUE),
    Row("session_management", None, {<<"auth", "sessions">>}, {"GET"}, "sessions", TRUE),
    Row("profile", None, {<<"auth", "profile">>}, {"GET"}, "profile", TRUE),
    Row("device_management", None, {<<"auth", "devices">>}, {"GET"}, "devices", TRUE),
    Row("email_verification", None, {<<"auth", "email", "verification">>, <<"verify-email">>},
        {"GET", "POST"}, "email_verification", FALSE),
    Row("mfa", None, {<<"auth", "mfa">>}, {"GET", "POST"}, "mfa", TRUE),
    Row("passkeys", None, {<<"auth", "passkeys">>}, {"GET", "POST"}, "passkeys", TRUE),
    Row("recovery", None, {<<"auth", "recovery">>}, {"POST"}, "recovery", FALSE),
    Row("sign_in", None, {<<"auth", "providers">>}, {"GET"}, "providers", FALSE),
    Row(None, None, {<<"auth", "authorize">>}, {"POST"}, "authorize", TRUE),
    Row(None, None, {<<"_authboundry", "policies">>}, {"GET"}, "policies", TRUE),
    Row(None, None, {<<"_authboundry", "authorization", "decisions">>}, {"GET"}, "authorization_decisions", TRUE),
    Row(None, None, {<<"_authboundry", "authorization", "explain">>}, {"GET"}, "authorization_explain", TRUE),
    Row("account_linking", "account_linking", {<<"auth", "account", "links">>},
        {"GET", "POST", "DELETE"}, "account_links", TRUE),
    Row("tenant_switching", "tenants", {<<"auth", "tenant">>}, {"GET"}, "current_tenant", TRUE),
    Row("tenant_switching", "tenants", {<<"auth", "tenants">>}, {"GET"}, "tenants", TRUE),
    Row(None, "agents", {<<"auth", "agents">>}, {"GET", "POST", "DELETE"}, "agents", TRUE),
    Row(None, "delegation", {<<"auth", "delegations">>}, {"GET", "POST", "DELETE"}, "delegations", TRUE)>>

\* The rows that are exposed, by their places in the table.
Exposed(config, row) ==
    /\ row.experience = None \/ Enabled(config, row.experience)
    /\ row.needs = None \/ AuthFeatures(config)[row.needs]
Routes(config) == [i \in {i \in DOMAIN RouteTable : Exposed(config, RouteTable[i])} |-> RouteTable[i]]

\* AuthSurface::route: the first one with this path or alias.
route(routes, path) ==
    LET hits == {i \in DOMAIN routes : path \in routes[i].spellings}
    IN IF hits = {} THEN None ELSE routes[Least(hits)]

-----------------------------------------------------------------------------
(* What the surface says of itself. *)

\* The connector catalog: local can authenticate, the others are declared.
Catalog == {"local", "password", "google", "github", "microsoft", "apple", "email",
            "magic_link", "sso", "jwt"}
ConnectorStatus(provider) ==
    CASE provider = "local" -> "supported"
      [] provider \in Catalog \ {"local"} -> "declared"
      [] OTHER -> "unknown"

\* ConnectorRegistry::from_config_with: the server brings the local directory,
\* which must be declared, and every provider must be in the catalog.
from_config_with(config) == "local" \in ToSet(config.providers) /\ ToSet(config.providers) \subseteq Catalog

\* ExperienceSurface: each experience's state, operation and assurance.
OperationOf == [sign_in |-> "login", sign_up |-> "signup", sign_out |-> "logout",
    password |-> None, password_reset |-> "password_reset", password_change |-> "password_change",
    external_identity |-> "providers", account_linking |-> "account_links",
    email_verification |-> "email_verification", mfa |-> "mfa", passkeys |-> "passkeys",
    device_management |-> "devices", session_management |-> "sessions", profile |-> "profile",
    tenant_switching |-> "tenants", recovery |-> "recovery"]
Assurance(experience) ==
    CASE experience \in {"mfa", "device_management"} -> "strong"
      [] experience = "passkeys" -> "phishing_resistant"
      [] OTHER -> "basic"
Listed(config) ==
    {e \in Experiences : /\ e = "tenant_switching" => AuthFeatures(config)["tenants"]
                         /\ e = "account_linking" => AuthFeatures(config)["account_linking"]}
ExperienceSurface(config) ==
    [e \in Listed(config) |-> [state |-> config.experience[e], operation |-> OperationOf[e],
                               assurance |-> Assurance(e)]]

PrincipalKinds(config) == {"human", "service"} \cup (IF config.agents THEN {"agent"} ELSE {})

\* The screens of the default UI, shown whether or not their experience is
\* enabled, with the providers that can authenticate on the ones for entry.
ScreenMode(config, screen) ==
    LET named == {s \in ToSet(config.ui.screens) : s.screen = screen}
    IN IF named = {} THEN "default" ELSE (CHOOSE s \in named : TRUE).mode
EntryScreens == {"login", "signup", "account", "password_forgot", "password_reset",
    "password_change", "email_verification", "account_links"}
AuthUi(config) ==
    LET shown == {s \in Screens : /\ s = "tenant" => config.multi_tenant
                                  /\ s = "agents" => config.agents}
    IN [renderer |-> config.ui.renderer, theme |-> config.ui.theme,
        mode |-> IF \E s \in ToSet(config.ui.screens) : s.mode = "custom" THEN "custom" ELSE "default",
        screens |-> [s \in shown |->
            [mode |-> ScreenMode(config, s),
             providers |-> IF s \in EntryScreens
                           THEN {p \in ToSet(config.providers) : ConnectorStatus(p) = "supported"}
                           ELSE {}]]]

AuthSurface(config) ==
    [routes |-> Routes(config), providers |-> {<<p, ConnectorStatus(p)>> : p \in ToSet(config.providers)},
     claims |-> {CanonicalClaim(c) : c \in ToSet(config.claims)},
     principals |-> PrincipalKinds(config), features |-> AuthFeatures(config),
     ui |-> AuthUi(config), experiences |-> ExperienceSurface(config),
     multi_tenant |-> config.multi_tenant, isolation |-> config.isolation]

-----------------------------------------------------------------------------
(* Dispatch. *)

\* handle_control_route: the pairs of a method and a path it answers.  A rest
\* of "*" stands for an id, and what follows it.
ControlRoute(method, name) == [method |-> method, name |-> name]
ControlRoutes ==
    {ControlRoute("GET", <<n>>) : n \in {"overview", "routes", "authority-state", "authority-proposal",
        "authority-reconciliation", "authority-drift", "password-policy", "storage", "audit", "reporting",
        "policies", "providers", "agents", "delegations", "history", "proposals"}}
    \cup {ControlRoute("POST", <<n>>) : n \in {"agents", "delegations", "propose", "approve", "apply",
        "reject", "revert"}}
    \cup {ControlRoute("GET", <<"storage", "capabilities">>), ControlRoute("GET", <<"audit", "events">>),
          ControlRoute("GET", <<"audit", "export">>), ControlRoute("GET", <<"authorization", "decisions">>),
          ControlRoute("GET", <<"authorization", "explain">>),
          ControlRoute("POST", <<"authority-reconciliation", "run">>),
          ControlRoute("POST", <<"authority-proposals", "approve">>),
          ControlRoute("POST", <<"authority-proposals", "apply">>)}
    \cup {ControlRoute("GET", <<n, "*">>) : n \in {"policies", "runs", "agents", "delegations", "proposals"}}
    \cup {ControlRoute("GET", <<"authorization", "decisions", "*">>),
          ControlRoute("GET", <<"authorization", "decisions", "*", "explain">>)}
    \cup {ControlRoute("POST", <<"authority-proposal", "*", n>>) : n \in {"approve", "apply"}}
    \cup {ControlRoute("POST", <<"agents", "*", n>>) : n \in {"runs", "suspend", "revoke", "retire"}}
    \cup {ControlRoute("POST", <<"runs", "*", "cancel">>), ControlRoute("POST", <<"delegations", "*", "revoke">>),
          ControlRoute("GET", <<"agents", "*", "runs">>)}
IsControl(method, path) ==
    Len(path) > 1 /\ Head(path) = "_authboundry" /\ ControlRoute(method, Tail(path)) \in ControlRoutes

\* handle_auth_route, as the status of its answer to a request that is
\* well-formed: with no session, where the operation looks for one, 401.
Bug_LooksForSession == {"logout", "sessions", "profile", "devices", "authorize",
    "current_tenant", "tenants", "agents"}
LooksForSession == {"logout", "session", "sessions", "profile", "devices", "authorize",
    "current_tenant", "tenants", "agents", "delegations"}
NotEnabled == {"mfa", "passkeys", "recovery", "account_links"}
handle_auth_route(operation, method, session) ==
    IF operation \in LooksForSession /\ ~session THEN 401 ELSE
    CASE operation \in NotEnabled -> 501
      [] operation \in {"policies", "authorization_decisions", "authorization_explain"} -> 404
      [] operation \in {"agents", "delegations"} /\ method # "GET" -> 501
      [] operation = "email_verification" \/ (operation = "password_forgot" /\ method = "POST") -> 202
      [] OTHER -> 200

\* AuthPortServer::handle, without Studio: who answers, and with what.
Answer(by, status) == [by |-> by, status |-> status]
handle(config, request) ==
    LET found == route(Routes(config), request.path)
    IN IF request.path = <<"authboundry", "client.js">> THEN Answer("client", 200)
       ELSE IF IsControl(request.method, request.path) THEN Answer("control", 200)
       ELSE IF found # None
            THEN IF request.method \in found.methods
                 THEN Answer(found.operation,
                             handle_auth_route(found.operation, request.method, request.session))
                 ELSE Answer("boundary", 405)
       ELSE IF Len(request.path) > 1 /\ Head(request.path) = "auth" THEN Answer("boundary", 404)
       ELSE Answer("application", None)

Methods == {"GET", "POST", "DELETE", "PUT"}
Spellings == UNION {RouteTable[i].spellings : i \in DOMAIN RouteTable}
Reaches(config, operation) ==
    \E method \in Methods, path \in Spellings :
        handle(config, [method |-> method, path |-> path, session |-> TRUE]).by = operation
=============================================================================
