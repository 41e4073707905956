----------------------------- MODULE MCBoundary -----------------------------
(* Small deployments of the boundary for TLC. *)
EXTENDS Boundary

CONSTANTS r1, r2

-----------------------------------------------------------------------------
(* Declarations, and the ways to write one. *)

Of(key, text) == Entry(key, Scalar(text))
OfBlocks(key, entries) == Entry(key, Block(entries))

Style(assign, comma, comment, backwards) ==
    [assign |-> assign, comma |-> comma, comment |-> comment, backwards |-> backwards]
Plain == Style(":", <<>>, <<>>, FALSE)
Fancy == Style("=", <<Mark(",")>>, <<Comment("")>>, TRUE)

Turned(seq, style) == IF style.backwards THEN Reverse(seq) ELSE seq
Items(seq) == FlattenSeq([i \in DOMAIN seq |-> <<Word(seq[i]), Mark(",")>>])
Bracketed(seq) == <<Mark("[")>> \o Items(seq) \o <<Mark("]")>>

\* Lists of a claim's values in a policy keep their order in the canonical form.
RECURSIVE Written(_, _, _)
Written(entries, style, inPolicy) ==
    LET value(e) ==
            CASE e.value.kind = "scalar" -> <<String(e.value.text)>>
              [] e.value.kind = "list" -> Bracketed(IF inPolicy THEN e.value.items ELSE Turned(e.value.items, style))
              [] e.value.kind = "enum" -> <<Word("enum")>> \o Bracketed(Turned(e.value.items, style))
              [] e.value.kind = "block" ->
                   <<Mark("{")>> \o Written(e.value.entries, style, inPolicy \/ e.key = "policy") \o <<Mark("}")>>
        entry(e) ==
            <<Word(e.key)>> \o (IF e.value.kind = "block" THEN <<>> ELSE <<Mark(style.assign)>>)
              \o value(e) \o style.comma \o style.comment
    IN FlattenSeq([i \in DOMAIN entries |-> entry(Turned(entries, style)[i])])
Source(entries, style) ==
    <<UseAuth, Mark("{")>> \o style.comment \o Written(entries, style, FALSE) \o <<Mark("}")>>

Full(mode) == <<
    Entry("providers", List(<<"local", "google", "github">>)),
    Of("tenant", "true"), Of("multi_tenant", "true"), Of("agents", "true"),
    Of("isolation", "shared_storage_with_policy"),
    OfBlocks("claims", <<Entry("role", Enum(<<"admin", "member">>)), Of("level", "integer")>>),
    OfBlocks("policy", <<OfBlocks("invoice.read",
        <<Of("tenant", "current"), Entry("role", List(<<"member", "admin">>)), Of("level", "8")>>)>>),
    OfBlocks("experience", <<Of("sign_up", "admin_only"), Of("mfa", "required"), Of("devices", "true"),
                             Of("password_reset", "false"), Of("tenant_switcher", "enabled")>>),
    OfBlocks("password", <<Of("min_length", "8"), Of("expiration_days", "90"), Of("require_number", "true")>>),
    OfBlocks("storage", <<Of("audit", "object_store")>>),
    OfBlocks("ui", <<Of("mode", mode), Of("login", "custom"), Of("signup", "default"), Of("theme", "own")>>)>>
Sparse == <<OfBlocks("experience", <<Of("sessions", "false"), Of("profile", "true"), Of("passkeys", "true"),
                                     Of("recovery", "required"), Of("email_verification", "disabled"),
                                     Of("sign_out", "disabled"), Of("password_change", "disabled")>>)>>
NoEntry == <<OfBlocks("experience", <<Of("sign_in", "false"), Of("sign_up", "disabled")>>)>>
Repeated == <<Of("agents", "true"), Of("agents", "true")>>
AtOdds == <<Of("tenant", "true"), Of("multi_tenant", "false")>>
TooShort == <<OfBlocks("password_policy", <<Of("min_length", "16"), Of("max_length", "12")>>)>>
Twice == <<Entry("providers", List(<<"local", "local">>))>>
Unknown == <<Entry("providers", List(<<"local", "pigeon">>))>>
NoLocal == <<Entry("providers", List(<<"google">>))>>
Mail == <<OfBlocks("identities", <<Of("auth", "a@b")>>),
          OfBlocks("templates", <<Of("password_reset", "x"), Of("email_verification", "y")>>)>>
HalfMail == <<OfBlocks("identities", <<Of("auth", "a@b")>>)>>

AuthRequests ==
    {[method |-> m, path |-> [i \in DOMAIN p |-> Segment(p[i], "lower")], session |-> s] :
        m \in Methods, p \in Spellings \cup {<<"auth", "nowhere">>, <<"_authboundry", "overview">>,
                                             <<"authboundry", "client.js">>, <<"elsewhere">>},
        s \in BOOLEAN}
Declared(entries, style, mail) ==
    Deployment(entries, Source(entries, style), mail, {}, AuthRequests, {}, {}, 0)
Declarations ==
    {Declared(e, s, None) : e \in {<<>>, Full("headless"), Full("embedded"), Sparse, NoEntry, Repeated,
                                   AtOdds, TooShort, Twice}, s \in {Plain, Fancy}}
    \cup {Declared(<<>>, Plain, m) : m \in {Mail, HalfMail}}
    \cup {Declared(e, Plain, None) : e \in {Unknown, NoLocal}}
    \cup {Deployment(<<>>, <<UseAuth>>, None, {}, AuthRequests, {}, {}, 0)}

-----------------------------------------------------------------------------
(* An application, and the clients that change its authority. *)

Path(words) == [i \in DOMAIN words |-> Segment(words[i], "lower")]
Invoices == Key("POST", Path(<<"invoices">>))
Policies == Key("POST", Path(<<"policies">>))
Reports == Key("POST", Path(<<"reports">>))
OneRoute == {RouteCandidate("POST", Path(<<"invoices">>), Requirement("authenticated", None))}
Routes2 == {RouteCandidate("POST", Path(<<"invoices">>), Requirement("authenticated", None)),
            RouteCandidate("POST", Path(<<"policies">>), Requirement("public", None))}
AppRequests == {[method |-> k.method, path |-> k.path, session |-> TRUE] :
                    k \in {Invoices, Reports, Key("GET", Invoices.path)}}

Billing == <<"billing", "write">>
ProtectBody(key, capability) == [method |-> key.method, path |-> key.path, capability |-> capability]
Edits == {Command("cli", "protect_route", ProtectBody(Invoices, Billing)),
          Command("cli", "protect_route", ProtectBody(Reports, Billing)),
          Command("cli", "set_policy", [capability |-> Billing, policy |-> "p"])}
Asks(method, path, capability) == [method |-> method, path |-> Path(path), capability |-> capability]
MethodTexts == [m \in {"POST", "post", "GET", "get", "PUT", "put", "PATCH", "patch", "DELETE", "delete",
                       "HEAD", "head", "OPTIONS", "options"} |->
    CASE m \in {"POST", "post"} -> "POST" [] m \in {"GET", "get"} -> "GET" [] m \in {"PUT", "put"} -> "PUT"
      [] m \in {"PATCH", "patch"} -> "PATCH" [] m \in {"DELETE", "delete"} -> "DELETE"
      [] m \in {"HEAD", "head"} -> "HEAD" [] OTHER -> "OPTIONS"]
Mentioned == [path |-> {[text |-> Path(<<"reports">>), word |-> "revert"]},
              policy |-> {[text |-> "q", word |-> "revert"], [text |-> "s", word |-> "unprotect_route"]}]
Forms == {Command("cli", "protect_route", Asks("post", <<"invoices">>, Billing)),
          Command("page", "protect_route", Asks("fetch", <<"invoices">>, Billing)),
          Command("cli", "protect_route", Asks("POST", <<"reports">>, Billing)),
          Command("cli", "set_policy", [capability |-> Billing, policy |-> "q"]),
          Command("cli", "protect_route", ProtectBody(Invoices, Billing)),
          Command("page", "protect_route", ProtectBody(Invoices, Billing)),
          Command("cli", "protect_route", [method |-> "POST"]),
          Command("cli", "set_policy", [capability |-> Billing, policy |-> "p"]),
          Command("page", "set_capability_policy", [capability |-> Billing, policy |-> "p", roles |-> "admin"]),
          Command("cli", "enable_provider", [provider |-> "google"]),
          Command("cli", "disable_provider", [provider |-> "google"]),
          Command("cli", "password_policy", [min_length |-> 16, require_number |-> TRUE, history_count |-> 3]),
          Command("cli", "password_policy", [expiration_days |-> 90, allow_password_change |-> FALSE]),
          Command("cli", "password_policy", [no_expiration |-> TRUE])}
Unprotects == {Command("cli", "unprotect_route", [method |-> "POST", path |-> Path(<<"invoices">>)])}

Serving(routes, requests, commands, readers, max_proposals) ==
    Deployment(<<>>, Source(<<>>, Plain), None, routes, requests, commands, readers, max_proposals)

AllDeployments ==
    Declarations
    \cup {Serving(Routes2, AppRequests, Edits, {r1}, 3), Serving(OneRoute, {}, {}, {r1, r2}, 2), Serving({}, {}, Forms, {}, 2)}
UnprotectOnly == {Serving(Routes2, AppRequests, Unprotects \cup Edits, {r1}, 2)}

AppKeys == {Invoices, Policies, Reports}
Capabilities == {<<"invoice", "create">>, <<"policy", "create">>, Billing}
PolicyValues == {[id |-> "p", roles |-> None], [id |-> "q", roles |-> None], [id |-> "p", roles |-> "admin"]}
PasswordPolicies == {Meant(c).policy : c \in {f \in Forms : f.verb = "password_policy"}}

ASSUME PlainAssumption == PlainRoutes
\* A policy named like a command of an earlier test: it would be read as that.
Misleads == Command("cli", "set_policy", [capability |-> Billing, policy |-> "s"])
ASSUME MisreadAssumption == ~Clear(Misleads) /\ parse_authority_change(BodyOf(Misleads)) # Meant(Misleads)
ASSUME ClearAssumption == \A command \in Forms \cup Edits : Clear(command)
=============================================================================
