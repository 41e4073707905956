---------------------------- MODULE Declaration ----------------------------
(***************************************************************************)
(* The declaration language of crates/dsl: what parse_auth_block makes of  *)
(* a `use auth { ... }` declaration, what AuthConfig::validate refuses,    *)
(* and the canonical form behind the contract's fingerprint.               *)
(*                                                                         *)
(* A source is a sequence of tokens.  A word or a string has its text; a   *)
(* comment, and a string, may also hold a brace or the words `use auth`,   *)
(* which the searches over the raw text find there too.                    *)
(***************************************************************************)
EXTENDS Integers, Sequences, SequencesExt, Outcome

Mark(t) == [t |-> t, text |-> "", holds |-> ""]
Word(x) == [t |-> "word", text |-> x, holds |-> ""]
String(x) == [t |-> "string", text |-> x, holds |-> ""]
Comment(x) == [t |-> "comment", text |-> "", holds |-> x]
UseAuth == Mark("use auth")

\* The values of a block: what `key: value` and `key = value` both become.
Scalar(x) == [kind |-> "scalar", text |-> x]
List(items) == [kind |-> "list", items |-> items]
Enum(items) == [kind |-> "enum", items |-> items]
Block(entries) == [kind |-> "block", entries |-> entries]
Entry(key, value) == [key |-> key, value |-> value]

-----------------------------------------------------------------------------
(* From the source to the entries. *)

Shows(token, x) == token.t = x \/ token.holds = x
Count(src, x) == Cardinality({i \in DOMAIN src : Shows(src[i], x)})
Least(S) == CHOOSE i \in S : \A j \in S : i <= j

\* The braces between the opening one and a place, wherever they stand.
Depth(src, open, i) == Count(SubSeq(src, open, i), "{") - Count(SubSeq(src, open, i), "}")

\* The text up to the brace that closes the block.  A string cut there is
\* not terminated; a comment cut there is still a comment.
extract_auth_block(src) ==
    LET starts == {i \in DOMAIN src : Shows(src[i], "use auth")}
        opens == {i \in DOMAIN src : starts # {} /\ i > Least(starts) /\ Shows(src[i], "{")}
        closes == {i \in DOMAIN src : opens # {} /\ i > Least(opens)
                                      /\ Depth(src, Least(opens), i) = 0}
    IN IF closes = {} THEN Error
       ELSE SubSeq(src, Least(opens) + 1, Least(closes) - 1)
              \o (IF src[Least(closes)].t = "string" THEN <<Mark("unterminated")>> ELSE <<>>)

TriviaKinds == {",", "comment"}
PeekAt(ts, pos) == IF pos \in DOMAIN ts THEN ts[pos].t ELSE "end"

\* The first place from pos on that has a token of another kind, or none.
SkipFrom(ts, pos, kinds) == Least({i \in pos..pos + Len(ts) : PeekAt(ts, i) \notin kinds})
skip_trivia(ts, pos) == SkipFrom(ts, pos, TriviaKinds)

\* Each parser gives what it read and where it stopped, or Error.
parse_list(ts, at) ==
    LET close == SkipFrom(ts, at, TriviaKinds \cup {"word", "string"})
        items == SelectSeq(SubSeq(ts, at, close - 1), LAMBDA token : token.t \notin TriviaKinds)
    IN IF PeekAt(ts, close) = "]"
       THEN [value |-> [i \in DOMAIN items |-> items[i].text], pos |-> close + 1] ELSE Error

\* blocks gives the entries of the block that is open at a place.
parse_value(ts, at, blocks) ==
    LET pos == skip_trivia(ts, at)  next == PeekAt(ts, pos)
        as(read, Kind(_)) == IF read = Error THEN Error
                             ELSE [value |-> Kind(read.value), pos |-> read.pos]
        isEnum == next = "word" /\ ts[pos].text = "enum" /\ PeekAt(ts, pos + 1) = "["
    IN CASE next = "{" -> as(blocks[pos + 1, TRUE], Block)
         [] next = "[" -> as(parse_list(ts, pos + 1), List)
         [] isEnum -> as(parse_list(ts, pos + 2), Enum)
         [] ~isEnum /\ next \in {"word", "string"} -> [value |-> Scalar(ts[pos].text), pos |-> pos + 1]
         [] OTHER -> Error

parse_entries(ts) ==
    LET entries[at \in 1..Len(ts) + 1, nested \in BOOLEAN] ==
            LET pos == skip_trivia(ts, at)
                after == skip_trivia(ts, pos + 1)
                read == CASE PeekAt(ts, after) \in {":", "="} -> parse_value(ts, after + 1, entries)
                          [] PeekAt(ts, after) = "{" -> parse_value(ts, after, entries)
                          [] OTHER -> Error
                rest == IF read = Error THEN Error ELSE entries[read.pos, nested]
            IN CASE PeekAt(ts, pos) = "end" -> IF nested THEN Error ELSE [value |-> <<>>, pos |-> pos]
                 [] PeekAt(ts, pos) = "}" -> IF nested THEN [value |-> <<>>, pos |-> pos + 1] ELSE Error
                 [] PeekAt(ts, pos) = "word" ->
                      IF rest = Error THEN Error
                      ELSE [value |-> <<Entry(ts[pos].text, read.value)>> \o rest.value, pos |-> rest.pos]
                 [] OTHER -> Error
    IN entries[1, FALSE]

-----------------------------------------------------------------------------
(* From the entries to the contract. *)

Numeral == [x \in {"0", "8", "12", "16", "90"} |->
               CASE x = "0" -> 0 [] x = "8" -> 8 [] x = "12" -> 12 [] x = "16" -> 16 [] OTHER -> 90]
expect_usize(x) == IF x \in DOMAIN Numeral THEN Numeral[x] ELSE Error
expect_optional_u32(x) == IF x = "null" THEN None ELSE expect_usize(x)
expect_bool(x) == CASE x = "true" -> TRUE [] x = "false" -> FALSE [] OTHER -> Error

DefaultPassword ==
    [min_length |-> 12, max_length |-> 128, require_uppercase |-> FALSE,
     require_lowercase |-> FALSE, require_number |-> FALSE, require_special_character |-> FALSE,
     password_expiration_days |-> None, password_history_count |-> 5,
     allow_password_change |-> TRUE, allow_password_reset |-> TRUE]

Experiences == {"sign_in", "sign_up", "sign_out", "password", "password_reset",
    "password_change", "external_identity", "account_linking", "email_verification", "mfa",
    "passkeys", "device_management", "session_management", "profile", "tenant_switching",
    "recovery"}
DefaultExperience ==
    [e \in Experiences |->
        IF e \in {"mfa", "passkeys", "device_management", "profile", "recovery"}
        THEN "disabled" ELSE "enabled"]
ExperienceName(key) ==
    CASE key = "devices" -> "device_management"
      [] key = "sessions" -> "session_management"
      [] key = "tenant_switcher" -> "tenant_switching"
      [] OTHER -> key
ExperienceState(x) ==
    CASE x \in {"false", "disabled"} -> "disabled"
      [] x \in {"true", "enabled"} -> "enabled"
      [] x \in {"required", "admin_only"} -> x
      [] OTHER -> Error

DefaultStorage == [authority |-> "feltdb", audit |-> "feltdb", reporting |-> "authboundry_projection"]
DefaultUi == [renderer |-> "generated", theme |-> "authboundry-default", screens |-> <<>>]
Screens == {"login", "signup", "account", "password_forgot", "password_reset",
    "password_change", "email_verification", "account_links", "profile", "devices", "sessions",
    "mfa", "passkeys", "recovery", "tenant", "agents"}
Renderer(x) ==
    CASE x \in {"generated", "default"} -> "generated"
      [] x \in {"embedded", "headless", "custom"} -> x
      [] OTHER -> Error

AuthConfig ==
    [multi_tenant |-> FALSE, providers |-> <<>>, claims |-> <<>>, isolation |-> "strict",
     agents |-> FALSE, policies |-> <<>>, ui |-> DefaultUi, experience |-> DefaultExperience,
     password_policy |-> DefaultPassword, storage |-> DefaultStorage, mail |-> None]

\* A fold over the entries of a block that stops at the first error, and,
\* where the code keeps a set of the keys it saw, at the first repeated key.
Each(entries, Step(_, _), init) ==
    FoldLeft(LAMBDA acc, e : IF acc = Error THEN Error ELSE Step(acc, e), init, entries)
Repeats(entries) == \E i, j \in DOMAIN entries : i # j /\ entries[i].key = entries[j].key
Once(entries, Step(_, _), init) == IF Repeats(entries) THEN Error ELSE Each(entries, Step, init)

\* A setting that is an error, or a value no block accepts, is an error.
Set(record, field, value) == IF value = Error THEN Error ELSE [record EXCEPT ![field] = value]
IsBlock(value) == value.kind = "block"
IsScalar(value) == value.kind = "scalar"

expect_providers(value) ==
    LET items == IF value.kind = "list" THEN SelectSeq(value.items, LAMBDA x : x # "") ELSE <<>>
    IN IF items = <<>> THEN Error ELSE items

parse_claim_kind(value) ==
    LET variants == SelectSeq(value.items, LAMBDA x : x # "")
    IN CASE value.kind = "enum" -> IF variants = <<>> \/ ~IsInjective(variants) THEN Error
                                   ELSE [type |-> "enum", values |-> variants]
         [] IsScalar(value) /\ value.text \in {"string", "integer", "boolean"}
              -> [type |-> value.text, values |-> <<>>]
         [] OTHER -> Error

parse_claims(entries) ==
    Each(entries, LAMBDA acc, e :
            LET kind == parse_claim_kind(e.value)
            IN IF kind = Error THEN Error ELSE Append(acc, [name |-> e.key, kind |-> kind]),
         <<>>)

\* The part of a capability after its first dot.
ActionOf(capability) == IF capability = "invoice.read" THEN "read" ELSE None

PolicyField(policy, e) ==
    LET scalar == IF IsScalar(e.value) THEN e.value.text ELSE Error
        values == IF IsScalar(e.value) THEN <<e.value.text>> ELSE e.value.items
    IN CASE e.key = "tenant" -> IF scalar = "current" THEN [policy EXCEPT !.tenant_current = TRUE]
                                ELSE Error
         [] e.key \in {"resource", "action"} -> Set(policy, e.key, scalar)
         [] OTHER -> IF IsBlock(e.value) THEN Error
                     ELSE [policy EXCEPT !.claims = Append(@, [claim |-> e.key, values |-> values])]

parse_policies(entries) ==
    Each(entries, LAMBDA acc, e :
            LET new == [capability |-> e.key, tenant_current |-> FALSE, resource |-> None,
                        action |-> ActionOf(e.key), claims |-> <<>>]
                policy == IF IsBlock(e.value) THEN Each(e.value.entries, PolicyField, new) ELSE Error
            IN IF policy = Error THEN Error ELSE Append(acc, policy),
         <<>>)

parse_storage(entries) ==
    Once(entries, LAMBDA acc, e :
            IF e.key \in DOMAIN acc /\ IsScalar(e.value) THEN Set(acc, e.key, e.value.text) ELSE Error,
         DefaultStorage)

PasswordField(policy, e) ==
    LET x == e.value.text IN
    IF ~IsScalar(e.value) THEN Error ELSE
    CASE e.key \in {"min_length", "max_length"} -> Set(policy, e.key, expect_usize(x))
      [] e.key \in {"require_uppercase", "require_lowercase", "require_number",
                    "require_special_character", "allow_password_change", "allow_password_reset"}
           -> Set(policy, e.key, expect_bool(x))
      [] e.key \in {"expiration_days", "password_expiration_days"}
           -> Set(policy, "password_expiration_days", expect_optional_u32(x))
      [] e.key \in {"history_count", "password_history_count"}
           -> Set(policy, "password_history_count", expect_usize(x))
      [] OTHER -> Error

ValidPassword(p) == p.min_length > 0 /\ p.max_length >= p.min_length
parse_password(entries) ==
    LET policy == Once(entries, PasswordField, DefaultPassword)
    IN IF policy = Error \/ ~ValidPassword(policy) THEN Error ELSE policy

ValidExperience(e) == e["sign_in"] # "disabled" \/ e["sign_up"] # "disabled"
parse_experience(entries) ==
    LET read == Once(entries, LAMBDA acc, e :
                        IF ExperienceName(e.key) \in Experiences /\ IsScalar(e.value)
                        THEN Set(acc, ExperienceName(e.key), ExperienceState(e.value.text))
                        ELSE Error,
                     DefaultExperience)
    IN IF read = Error \/ ~ValidExperience(read) THEN Error ELSE read

UiField(ui, e) ==
    IF ~IsScalar(e.value) THEN Error ELSE
    CASE e.key = "theme" -> [ui EXCEPT !.theme = e.value.text]
      [] e.key = "mode" -> Set(ui, "renderer", Renderer(e.value.text))
      [] e.key \in Screens /\ e.value.text \in {"default", "custom"}
           -> [ui EXCEPT !.screens = Append(@, [screen |-> e.key, mode |-> e.value.text])]
      [] OTHER -> Error
parse_ui(entries) ==
    LET ui == Once(entries, UiField, DefaultUi)
    IN IF ui = Error \/ ui.theme = "" THEN Error ELSE ui

\* The `mail` block: maps, in which a repeated name replaces the first.
StringMap(entries) ==
    Each(entries, LAMBDA acc, e :
            IF IsScalar(e.value) THEN [x \in DOMAIN acc \cup {e.key} |->
                                          IF x = e.key THEN e.value.text ELSE acc[x]]
            ELSE Error,
         <<>>)
parse_mail_contract(entries) ==
    Each(entries, LAMBDA acc, e :
            IF e.key \in DOMAIN acc /\ IsBlock(e.value)
            THEN Set(acc, e.key, StringMap(e.value.entries)) ELSE Error,
         [identities |-> <<>>, templates |-> <<>>])
ValidMail(mail) ==
    /\ "auth" \in DOMAIN mail.identities
    /\ {"password_reset", "email_verification"} \subseteq DOMAIN mail.templates

\* One field of the declaration.
Blocks == [claims |-> "claims", policy |-> "policies", password |-> "password_policy",
           password_policy |-> "password_policy", storage |-> "storage",
           experience |-> "experience", ui |-> "ui"]
OfBlock(key, entries) ==
    CASE key = "claims" -> parse_claims(entries)
      [] key = "policy" -> parse_policies(entries)
      [] key \in {"password", "password_policy"} -> parse_password(entries)
      [] key = "storage" -> parse_storage(entries)
      [] key = "experience" -> parse_experience(entries)
      [] key = "ui" -> parse_ui(entries)

Tenancy == {"multi_tenant", "tenant"}
SettingField(acc, key, x) ==
    CASE key = "isolation" -> IF x \in {"strict", "shared_storage_with_policy"}
                              THEN [acc EXCEPT !.isolation = x] ELSE Error
      [] key = "agents" -> Set(acc, "agents", expect_bool(x))
      [] key \in Tenancy -> Set(acc, "multi_tenant", expect_bool(x))
      [] OTHER -> Error
Field(acc, e) ==
    CASE e.key \in DOMAIN Blocks ->
           IF IsBlock(e.value) THEN Set(acc, Blocks[e.key], OfBlock(e.key, e.value.entries)) ELSE Error
      [] e.key = "providers" -> Set(acc, "providers", expect_providers(e.value))
      [] OTHER -> IF IsScalar(e.value) THEN SettingField(acc, e.key, e.value.text) ELSE Error

\* `tenant` and `multi_tenant` may both be given, if they agree.
Conflicting(entries) ==
    \E i, j \in DOMAIN entries : /\ {entries[i].key, entries[j].key} \subseteq Tenancy
                                 /\ entries[i].value # entries[j].value

Unique(seq, Key(_)) == \A i, j \in DOMAIN seq : Key(seq[i]) = Key(seq[j]) => i = j
validate(config) ==
    /\ config.providers # <<>> /\ IsInjective(config.providers)
    /\ Unique(config.claims, LAMBDA c : c.name)
    /\ Unique(config.policies, LAMBDA p : p.capability)
    /\ ValidExperience(config.experience) /\ ValidPassword(config.password_policy)
    /\ config.mail = None \/ ValidMail(config.mail)

\* A declaration without providers has the local one.
Resolved(config) == IF config.providers = <<>> THEN [config EXCEPT !.providers = <<"local">>] ELSE config

FromEntries(entries, mail) ==
    LET read == IF Conflicting(entries) THEN Error ELSE Once(entries, Field, AuthConfig)
        mailed == IF mail = None THEN None ELSE parse_mail_contract(mail)
        config == IF read = Error \/ mailed = Error THEN Error
                  ELSE [Resolved(read) EXCEPT !.mail = mailed]
    IN IF config = Error \/ ~validate(config) THEN Error ELSE config

\* src is the text from `use auth` on; mail the entries of a `mail` block
\* when the text also says `use mail`.  The bare words are a declaration too.
parse_auth_block(src, mail) ==
    IF src = <<UseAuth>> /\ mail = None THEN Resolved(AuthConfig) ELSE
    LET body == IF Count(src, "use auth") > 1 THEN Error ELSE extract_auth_block(src)
        read == IF body = Error THEN Error ELSE parse_entries(body)
    IN IF read = Error THEN Error ELSE FromEntries(read.value, mail)

-----------------------------------------------------------------------------
(* The canonical form.  Sorting what validate has found free of duplicates *)
(* leaves a set; the values of a policy's claim are not sorted.            *)

CanonicalClaim(c) == [name |-> c.name, type |-> c.kind.type, values |-> ToSet(c.kind.values)]
Occurrences(seq) == [x \in ToSet(seq) |-> Cardinality({i \in DOMAIN seq : seq[i] = x})]
CanonicalPolicy(p) == [p EXCEPT !.claims = Occurrences(@)]
Bug_canonical(config) ==
    [config EXCEPT !.providers = ToSet(config.providers),
                   !.claims = {c : c \in ToSet(config.claims)},
                   !.policies = {CanonicalPolicy(p) : p \in ToSet(config.policies)},
                   !.ui.screens = ToSet(config.ui.screens)]
canonical(config) ==
    [multi_tenant |-> config.multi_tenant, isolation |-> config.isolation, agents |-> config.agents,
     providers |-> ToSet(config.providers),
     claims |-> {CanonicalClaim(c) : c \in ToSet(config.claims)},
     policies |-> {CanonicalPolicy(p) : p \in ToSet(config.policies)},
     ui |-> [renderer |-> config.ui.renderer, theme |-> config.ui.theme,
             screens |-> ToSet(config.ui.screens)],
     experience |-> config.experience, password_policy |-> config.password_policy,
     storage |-> config.storage, mail |-> config.mail]

\* What is hashed: every field of the canonical form, one after the other.
Bug_fingerprint(config) == [canonical(config) EXCEPT !.ui.renderer = ""]
fingerprint(config) == canonical(config)
=============================================================================
