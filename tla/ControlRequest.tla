---------------------------- MODULE ControlRequest ----------------------------
(***************************************************************************)
(* How a change of the authority travels to the control plane: the JSON    *)
(* body each client writes (the command line, Studio's page, the revert    *)
(* route) and what parse_authority_change reads out of it, which it does   *)
(* by looking for words in the text.                                       *)
(*                                                                         *)
(* A body is a sequence of fields.  A "word" is a quoted value that names  *)
(* the kind of the change, a "text" any other quoted value, without quotes *)
(* of its own.  The command line puts a space after a colon, the page does *)
(* not.                                                                    *)
(***************************************************************************)
EXTENDS Declaration

CONSTANTS
    MethodText,  \* the texts that to_uppercase makes a method of, each with its method
    Mentions     \* by the name of their field, the texts that hold such a word

BodyField(name, kind, value, spaced) ==
    [name |-> name, kind |-> kind, value |-> value, spaced |-> spaced]

-----------------------------------------------------------------------------
(* The clients.  A command has the options the user gave. *)

Command(client, verb, options) == [client |-> client, verb |-> verb, options |-> options]

\* What the command line asks for, in the order it writes the fields.
TypeWord == [protect_route |-> "protect_route", unprotect_route |-> "unprotect_route",
             set_policy |-> "set_policy", enable_provider |-> "enable_provider",
             disable_provider |-> "disable_provider"]
Needs == [protect_route |-> <<"method", "path", "capability">>,
          unprotect_route |-> <<"method", "path">>,
          set_policy |-> <<"capability", "policy">>,
          enable_provider |-> <<"provider">>, disable_provider |-> <<"provider">>]
Switch(verb, spaced) ==
    IF verb \in {"enable_provider", "disable_provider"}
    THEN <<BodyField("enabled", "bool", verb = "enable_provider", spaced)>> ELSE <<>>

proposal_body(verb, options) ==
    IF ToSet(Needs[verb]) \subseteq DOMAIN options
    THEN <<BodyField("type", "word", TypeWord[verb], TRUE)>>
           \o [i \in DOMAIN Needs[verb] |->
                  BodyField(Needs[verb][i], "text", options[Needs[verb][i]], TRUE)]
           \o Switch(verb, TRUE)
    ELSE Error

\* The settings first, then what is switched on, then what is switched off.
Settings == <<"min_length", "max_length", "expiration_days", "history_count">>
Switches == <<"require_uppercase", "require_lowercase", "require_number",
              "require_special_character", "allow_password_change", "allow_password_reset">>
password_policy_body(options) ==
    LET field(n, kind, value) ==
            IF n \in DOMAIN options /\ (kind # "bool" \/ options[n] = value)
            THEN <<BodyField(n, kind, options[n], TRUE)>> ELSE <<>>
        given(names, kind, value) == FlattenSeq([i \in DOMAIN names |-> field(names[i], kind, value)])
        fields == given(Settings, "number", None) \o given(Switches, "bool", TRUE)
                    \o given(Switches, "bool", FALSE)
                    \o (IF "no_expiration" \in DOMAIN options
                        THEN <<BodyField("expiration_days", "null", None, TRUE)>> ELSE <<>>)
    IN IF fields = <<>> THEN Error
       ELSE <<BodyField("type", "word", "set_password_policy", TRUE)>> \o fields

\* Studio's page: what it sends for one choice of access, without the spaces.
PageFields == [set_capability_policy |-> <<"capability", "policy", "roles">>,
               protect_route |-> <<"method", "path", "capability">>,
               unprotect_route |-> <<"method", "path">>]
PageBody(verb, options) ==
    <<BodyField("type", "word", verb, FALSE)>>
      \o [i \in DOMAIN PageFields[verb] |->
             BodyField(PageFields[verb][i], "text", options[PageFields[verb][i]], FALSE)]

RevertBody(options) ==
    <<BodyField("type", "word", "revert", TRUE), BodyField("change_id", "text", options["change_id"], TRUE)>>

BodyOf(command) ==
    IF command.client = "page" THEN PageBody(command.verb, command.options) ELSE
    CASE command.verb = "password_policy" -> password_policy_body(command.options)
      [] command.verb = "revert" -> RevertBody(command.options)
      [] OTHER -> proposal_body(command.verb, command.options)

-----------------------------------------------------------------------------
(* The control plane. *)

\* str::contains: a longer word holds the shorter ones it is made of.
Within == {<<"unprotect_route", "protect_route">>, <<"set_password_policy", "password_policy">>}
Holds(longer, word) == longer = word \/ <<longer, word>> \in Within
HoldsWord(body, word) ==
    \E i \in DOMAIN body :
        \/ body[i].kind = "word" /\ Holds(body[i].value, word)
        \/ body[i].name = word
        \/ /\ body[i].kind = "text" /\ body[i].name \in DOMAIN Mentions
           /\ \E m \in Mentions[body[i].name] : m.text = body[i].value /\ Holds(m.word, word)

\* The first field of a name; only a value of the kind asked for is read.
Extract(body, name, kinds) ==
    LET at == {i \in DOMAIN body : body[i].name = name}
        field == body[Least(at)]
    IN IF at = {} THEN None ELSE IF field.kind \in kinds THEN field.value ELSE None
extract_quoted_field(body, name) == Extract(body, name, {"word", "text"})
extract_number_field(body, name) == Extract(body, name, {"number"})
extract_bool_field(body, name) == Extract(body, name, {"bool"})

OrElse(x, y) == IF x # None THEN x ELSE y

\* A number below zero is not a length.
password_policy_from_body(body) ==
    LET number(name, field) ==
            LET value == OrElse(extract_number_field(body, name), extract_number_field(body, field))
            IN OrElse(value, DefaultPassword[field])
        forever == \E i \in DOMAIN body : /\ body[i].name \in {"expiration_days", "password_expiration_days"}
                                          /\ body[i].kind = "null" /\ body[i].spaced
        policy == [f \in DOMAIN DefaultPassword |->
                      CASE f \in {"min_length", "max_length"} -> number(f, f)
                        [] f = "password_expiration_days" -> IF forever THEN None
                                                             ELSE number("expiration_days", f)
                        [] f = "password_history_count" -> number("history_count", f)
                        [] OTHER -> OrElse(extract_bool_field(body, f), DefaultPassword[f])]
        numbers == {"min_length", "max_length", "password_history_count", "password_expiration_days"}
    IN IF \E f \in numbers : policy[f] # None /\ policy[f] < 0 THEN Error
       ELSE IF ValidPassword(policy) THEN policy ELSE Error

\* A rule for the roles that are listed, no rule where none is.
RolePolicy(body) ==
    [id |-> extract_quoted_field(body, "policy"),
     roles |-> OrElse(extract_quoted_field(body, "roles"), extract_quoted_field(body, "role"))]

Bug_SwitchesOn(body) == HoldsWord(body, "enabled")
SwitchesOn(body) ==
    \/ \E i \in DOMAIN body : body[i].name = "enabled" /\ body[i].value = TRUE /\ body[i].spaced
    \/ HoldsWord(body, "enable_provider")

Required(body, names, change) ==
    IF \E n \in names : extract_quoted_field(body, n) = None THEN Error ELSE change

\* A method in any case, or none.
method_of(text) == IF text \in DOMAIN MethodText THEN MethodText[text] ELSE Error
RouteNamed(method, path) == [method |-> method_of(method), path |-> path]
RouteIn(body) == RouteNamed(extract_quoted_field(body, "method"), extract_quoted_field(body, "path"))
OnRoute(route, change) == IF route.method = Error THEN Error ELSE change

\* The tests, in the order of the code: the first word that is found decides.
Test(words, kind) == [words |-> words, kind |-> kind]
Tests == <<
    Test({"protect_route"}, "ProtectRoute"),
    Test({"unprotect_route"}, "UnprotectRoute"),
    Test({"set_policy", "set_capability_policy"}, "SetCapabilityPolicy"),
    Test({"set_provider_enabled", "enable_provider", "disable_provider"}, "SetProviderEnabled"),
    Test({"password_policy", "set_password_policy"}, "SetPasswordPolicy"),
    Test({"revert"}, "Revert")>>
CommandWords == UNION {Tests[i].words : i \in DOMAIN Tests}
ASSUME RequestAssumption ==
    /\ DOMAIN Mentions \subseteq {"method", "path", "capability", "policy", "roles", "provider"}
    /\ \A name \in DOMAIN Mentions : \A m \in Mentions[name] : m.word \in CommandWords
    /\ \A text \in DOMAIN MethodText : MethodText[text] # Error

KindOf(body) ==
    LET found == {i \in DOMAIN Tests : \E word \in Tests[i].words : HoldsWord(body, word)}
    IN IF found = {} THEN None ELSE Tests[Least(found)].kind

parse_authority_change(body) ==
    LET capability == extract_quoted_field(body, "capability")
        policy == password_policy_from_body(body)
        kind == KindOf(body)
    IN CASE kind = "ProtectRoute" ->
              OnRoute(RouteIn(body), Required(body, {"path", "capability"},
                       [type |-> kind, route |-> RouteIn(body), capability |-> capability]))
         [] kind = "UnprotectRoute" ->
              OnRoute(RouteIn(body), Required(body, {"path"}, [type |-> kind, route |-> RouteIn(body)]))
         [] kind = "SetCapabilityPolicy" ->
              Required(body, {"capability", "policy"},
                       [type |-> kind, capability |-> capability, policy |-> RolePolicy(body)])
         [] kind = "SetProviderEnabled" ->
              Required(body, {"provider"},
                       [type |-> kind, provider |-> extract_quoted_field(body, "provider"),
                        enabled |-> SwitchesOn(body)])
         [] kind = "SetPasswordPolicy" ->
              IF policy = Error THEN Error ELSE [type |-> kind, policy |-> policy]
         [] kind = "Revert" ->
              Required(body, {"change_id"}, [type |-> kind, change_id |-> extract_quoted_field(body, "change_id")])
         [] OTHER -> Error

-----------------------------------------------------------------------------
(* What the user of a client asked for, whatever the body looks like. *)

PolicySetting(options, field) ==
    CASE field = "password_expiration_days" ->
           IF "expiration_days" \in DOMAIN options THEN options["expiration_days"] ELSE None
      [] field = "password_history_count" ->
           IF "history_count" \in DOMAIN options THEN options["history_count"] ELSE DefaultPassword[field]
      [] OTHER -> IF field \in DOMAIN options THEN options[field] ELSE DefaultPassword[field]

Meant(command) ==
    LET o == command.options  v == command.verb
        asked == RouteNamed(o["method"], o["path"])
    IN CASE v = "protect_route" ->
              OnRoute(asked, [type |-> "ProtectRoute", route |-> asked, capability |-> o["capability"]])
         [] v = "unprotect_route" -> OnRoute(asked, [type |-> "UnprotectRoute", route |-> asked])
         [] v \in {"set_policy", "set_capability_policy"} ->
              [type |-> "SetCapabilityPolicy", capability |-> o["capability"],
               policy |-> [id |-> o["policy"], roles |-> IF "roles" \in DOMAIN o THEN o["roles"] ELSE None]]
         [] v \in {"enable_provider", "disable_provider"} ->
              [type |-> "SetProviderEnabled", provider |-> o["provider"], enabled |-> v = "enable_provider"]
         [] v = "password_policy" ->
              [type |-> "SetPasswordPolicy",
               policy |-> [f \in DOMAIN DefaultPassword |-> PolicySetting(o, f)]]
         [] v = "revert" -> [type |-> "Revert", change_id |-> o["change_id"]]

\* The words that are looked for before the word of a verb, anywhere in its
\* body, and the one that switches a provider on.
Misleading(verb) ==
    {word \in CommandWords : \E i, j \in DOMAIN Tests :
        j < i /\ verb \in Tests[i].words /\ word \in Tests[j].words}
    \cup (IF verb = "disable_provider" THEN {"enable_provider"} ELSE {})

\* The commands whose bodies say what they mean: all but unprotect_route, whose
\* word holds the word protect_route, with the options that they need, none of
\* which holds a misleading word, a policy that is valid and one wish for the
\* expiration.
Clear(command) ==
    LET o == command.options  v == command.verb
    IN /\ \A n \in DOMAIN o : o[n] # None
       /\ \A n \in DOMAIN o \cap DOMAIN Mentions : \A m \in Mentions[n] :
              o[n] = m.text => m.word \notin Misleading(v)
       /\ IF command.client = "page"
          THEN v \in {"protect_route", "set_capability_policy"} /\ ToSet(PageFields[v]) \subseteq DOMAIN o
          ELSE v \in (DOMAIN TypeWord \ {"unprotect_route"}) \cup {"password_policy"}
       /\ v = "set_policy" => "roles" \notin DOMAIN o
       /\ v = "password_policy" =>
            /\ \A n \in DOMAIN o : /\ n \in ToSet(Settings) => o[n] \in Nat
                                   /\ n \in ToSet(Switches) => o[n] \in BOOLEAN
            /\ ~({"no_expiration", "expiration_days"} \subseteq DOMAIN o)
            /\ ValidPassword(Meant(command).policy) /\ Meant(command).policy # Error
=============================================================================
