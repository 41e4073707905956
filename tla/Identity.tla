------------------------------- MODULE Identity -------------------------------
(***************************************************************************)
(* How people get in: sign-up, sign-in and sign-out, account linking,      *)
(* password changes, and the recovery and verification ceremonies          *)
(* (crates/boundary/src/runtime.rs, crates/runtime/src/mesh.rs and         *)
(* resolution.rs), over the local connector.                               *)
(*                                                                         *)
(* The accounts, identities, bindings and sessions are each behind a mutex *)
(* held for one call; the challenges are behind one that consume_with      *)
(* holds while it changes the account.  An action is what a request thread *)
(* does up to its next shared access.  One tenant, one connector.          *)
(*                                                                         *)
(* A principal's id is derived from the user it is provisioned for, so the *)
(* user stands for it.                                                     *)
(***************************************************************************)
EXTENDS LocalAccount, FiniteSets

CONSTANTS
    Thread,             \* request threads
    NoThread,           \* nobody holds the challenge store
    EmailVerification,  \* the feature of the same name
    ContractPolicy,     \* the declared password policy
    LivePasswords,      \* policies a SetPasswordPolicy change may install
    SignUps, SignIns, Links, PasswordChanges,  \* what clients ask for
    NewPasswords,       \* the passwords clients send with a reset token
    MailCanFail, AuditCanFail,
    ResetLife,          \* life of a reset challenge, 900 seconds in the code
    VerifyLife,         \* life of a verification challenge, 3600 seconds
    SessionLife,        \* session_ttl
    StartTime,          \* what the clock shows when the process starts
    MaxSessions, MaxChallenges, MaxTime  \* bounds

SignUpRequest == [op : {"sign_up", "studio"}, user : User, password : Password, email : BOOLEAN]
SignInRequest == [op : {"sign_in"}, user : User, password : Password]
LinkRequest == [op : {"link"}, user : User, password : Password, principal : User]
ChangeRequest == [op : {"change"}, user : User, password : Password, new : Password]
MailRequest == [op : {"mail"}, user : User, kind : CeremonyKind]
TokenRequest == [op : {"token"}, challenge : Nat \ {0}, kind : CeremonyKind, new : Password \cup {None}]

ASSUME IdentityAssumption ==
    /\ NoThread \notin Thread
    /\ EmailVerification \in BOOLEAN /\ MailCanFail \in BOOLEAN /\ AuditCanFail \in BOOLEAN
    /\ ContractPolicy \in PasswordPolicy
    /\ LivePasswords \subseteq PasswordPolicy
    /\ SignUps \subseteq SignUpRequest
    /\ SignIns \subseteq SignInRequest
    /\ Links \subseteq LinkRequest
    /\ PasswordChanges \subseteq ChangeRequest
    /\ NewPasswords \subseteq Password
    /\ {ResetLife, VerifyLife, SessionLife} \subseteq Nat \ {0}
    /\ {StartTime, MaxSessions, MaxChallenges, MaxTime} \subseteq Nat

VARIABLES
    clock,       \* the boundary's clock
    policy,      \* effective_password_policy
    accounts,    \* LocalConnector.accounts
    identities,  \* MemoryIdentityStore: the users that have an identity
    principals,  \* the principal store
    bindings,    \* the principal each external identity is bound to
    sessions,    \* MemorySessionStore, in the order of creation
    challenges,  \* ChallengeStore.entries, in the order of issue
    holder,      \* the thread in consume_with, holding the challenge store
    local        \* what each request thread holds on its stack

vars == <<clock, policy, accounts, identities, principals, bindings, sessions, challenges,
          holder, local>>

\* given is history: the credential of the session was handed to the client.
Session == [identity : User, expires_at : Nat, revoked : BOOLEAN, given : BOOLEAN]

PC == {"idle", "account", "external", "link_identity", "bind", "open", "verify", "logout",
       "resolve", "check", "refuse", "link", "link_bind", "change", "issue",
       "consume", "operate", "consumed"}

Local ==
    [pc : PC,
     request : SignUpRequest \cup SignInRequest \cup LinkRequest \cup ChangeRequest
                 \cup MailRequest \cup TokenRequest \cup {None},
     now : Nat, policy : PasswordPolicy \cup {None}, account : Account \cup {None},
     session : Nat]

Idle == [pc |-> "idle", request |-> None, now |-> 0, policy |-> None, account |-> None,
         session |-> 0]

TypeOK ==
    /\ clock \in Nat
    /\ policy \in PasswordPolicy
    /\ accounts \in [User -> Account \cup {None}]
    /\ identities \subseteq User
    /\ principals \subseteq User
    /\ bindings \in [User -> User \cup {None}]
    /\ sessions \in Seq(Session)
    /\ challenges \in Seq(Challenge)
    /\ holder \in Thread \cup {NoThread}
    /\ local \in [Thread -> Local]

Goto(t, pc) == local' = [local EXCEPT ![t].pc = pc]
Return(t) == local' = [local EXCEPT ![t] = Idle]
Begin(t, pc, q) ==
    local' = [local EXCEPT ![t] = [Idle EXCEPT !.pc = pc, !.request = q, !.now = clock]]

\* LocalConnector::authenticate
Authenticates(user, password) == accounts[user] # None /\ accounts[user].password = password

StoreFree == holder = NoThread

\* bind_external_identity: (connector, external_subject) has one principal.
CanBind(user, principal) == bindings[user] \in {None, principal}

(***************************************************************************)
(* Sign-up, by the public route or by Studio                               *)
(***************************************************************************)

\* The bounds count the sessions and challenges that are still being made.
Doing(pcs) == Cardinality({u \in Thread : local[u].pc \in pcs})
RoomForSession ==
    Len(sessions) + Doing({"account", "external", "link_identity", "bind", "open", "resolve"})
        < MaxSessions
RoomForChallenge ==
    Len(challenges)
        + Doing({"account", "external", "link_identity", "bind", "open", "verify", "issue"})
        < MaxChallenges

\* The password must be one the policy in force accepts.
SignUp(t) ==
    /\ local[t].pc = "idle"
    /\ RoomForSession /\ RoomForChallenge
    /\ \E q \in SignUps :
        /\ q.password \in policy.accepts
        /\ Begin(t, "account", q)
    /\ UNCHANGED <<clock, policy, accounts, identities, principals, bindings, sessions,
                   challenges, holder>>

\* sign_up creates the account if the credentials fit none, and creation fails
\* where there is one already: trying first and registering then is one step.
\* Studio (create_local_user) always creates.
SignupAccount(t) ==
    LET q == local[t].request
    IN  /\ local[t].pc = "account"
        /\ \/ /\ accounts[q.user] = None
              /\ accounts' = [accounts EXCEPT ![q.user] =
                    NewAccount(q.password, q.email,
                               q.email /\ EmailVerification /\ q.op = "sign_up")]
              /\ Goto(t, "external")
           \/ /\ accounts[q.user] # None
              /\ IF q.op = "sign_up" /\ Authenticates(q.user, q.password)
                 THEN Goto(t, "external") ELSE Return(t)
              /\ UNCHANGED accounts
        /\ UNCHANGED <<clock, policy, identities, principals, bindings, sessions, challenges,
                       holder>>

\* AuthMesh::sign_up authenticates once more.
SignupExternal(t) ==
    LET q == local[t].request
    IN  /\ local[t].pc = "external"
        /\ IF Authenticates(q.user, q.password) THEN Goto(t, "link_identity") ELSE Return(t)
        /\ UNCHANGED <<clock, policy, accounts, identities, principals, bindings, sessions,
                       challenges, holder>>

\* provision_principal: an identity that is bound, or being bound, is refused.
\* What is bound has an identity, so looking for both is one step.
SignupIdentity(t) ==
    LET q == local[t].request
    IN  /\ local[t].pc = "link_identity"
        /\ IF q.user \in identities
           THEN Return(t) /\ UNCHANGED identities
           ELSE Goto(t, "bind") /\ identities' = identities \cup {q.user}
        /\ UNCHANGED <<clock, policy, accounts, principals, bindings, sessions, challenges,
                       holder>>

\* put_principal, then bind_external_identity, which fails when a link came first.
SignupBind(t) ==
    LET q == local[t].request
    IN  /\ local[t].pc = "bind"
        /\ principals' = principals \cup {q.user}
        /\ IF CanBind(q.user, q.user)
           THEN bindings' = [bindings EXCEPT ![q.user] = q.user] /\ Goto(t, "open")
           ELSE UNCHANGED bindings /\ Return(t)
        /\ UNCHANGED <<clock, policy, accounts, identities, sessions, challenges, holder>>

\* create_session; then the request goes on as `next`.  When the audit write
\* fails the answer is an error and the session stays.
CreateSession(t, next) ==
    /\ sessions' = Append(sessions,
            [identity |-> local[t].request.user, expires_at |-> local[t].now + SessionLife,
             revoked |-> FALSE, given |-> FALSE])
    /\ \/ local' = [local EXCEPT ![t] = next]
       \/ AuditCanFail /\ Return(t)

Opened(t, pc) == [local[t] EXCEPT !.pc = pc, !.session = Len(sessions) + 1]

\* Studio is done here, and keeps no credential.
SignupOpen(t) ==
    /\ local[t].pc = "open"
    /\ CreateSession(t, IF local[t].request.op = "studio" THEN Idle ELSE Opened(t, "verify"))
    /\ UNCHANGED <<clock, policy, accounts, identities, principals, bindings, challenges, holder>>

Give(t) == sessions' = [sessions EXCEPT ![local[t].session].given = TRUE]

\* With the feature on, a verification challenge is issued if the account has an
\* address (request_email_verification); without it the session is handed out.
SignupVerify(t) ==
    LET me == local[t]
        email == accounts[me.request.user].email
    IN  /\ me.pc = "verify"
        /\ IF EmailVerification
           THEN /\ local' = [local EXCEPT ![t] = [me EXCEPT !.now = clock,
                                !.pc = IF email THEN "issue" ELSE "logout"]]
                /\ UNCHANGED sessions
           ELSE Give(t) /\ Return(t)
        /\ UNCHANGED <<clock, policy, accounts, identities, principals, bindings, challenges,
                       holder>>

\* Only a request with an address ends the session before handing it out.
SignupLogout(t) ==
    /\ local[t].pc = "logout"
    /\ sessions' = [sessions EXCEPT ![local[t].session] =
                        [@ EXCEPT !.given = TRUE, !.revoked = local[t].request.email]]
    /\ Return(t)
    /\ UNCHANGED <<clock, policy, accounts, identities, principals, bindings, challenges, holder>>

(***************************************************************************)
(* Sign-in and sign-out                                                    *)
(***************************************************************************)

SignIn(t) ==
    /\ local[t].pc = "idle"
    /\ RoomForSession
    /\ \E q \in SignIns :
        /\ Authenticates(q.user, q.password)
        /\ local' = [local EXCEPT ![t] = [Idle EXCEPT !.pc = "resolve", !.request = q,
                        !.now = clock, !.account = accounts[q.user]]]
    /\ UNCHANGED <<clock, policy, accounts, identities, principals, bindings, sessions,
                   challenges, holder>>

\* resolve_principal, which never provisions, and open_session.  A binding is
\* never taken back, so the two are one step.
SigninOpen(t) ==
    /\ local[t].pc = "resolve"
    /\ IF bindings[local[t].request.user] = None
       THEN Return(t) /\ UNCHANGED sessions
       ELSE CreateSession(t, Opened(t, "check"))
    /\ UNCHANGED <<clock, policy, accounts, identities, principals, bindings, challenges, holder>>

Bug_NoVerification(account) == FALSE
MustVerify(account) == EmailVerification /\ account.must_verify /\ ~ account.email_verified

\* ensure_password_not_expired, under the policy in force by now: a refusal
\* leaves the session.  Then the verification of the address.
SigninCheck(t) ==
    LET me == local[t]
    IN  /\ me.pc = "check"
        /\ IF Expired(me.account.password_changed_at, policy, me.now)
           THEN Return(t) /\ UNCHANGED sessions
           ELSE IF MustVerify(me.account)
                THEN Goto(t, "refuse") /\ UNCHANGED sessions
                ELSE Give(t) /\ Return(t)
        /\ UNCHANGED <<clock, policy, accounts, identities, principals, bindings, challenges,
                       holder>>

SigninRefuse(t) ==
    /\ local[t].pc = "refuse"
    /\ sessions' = [sessions EXCEPT ![local[t].session].revoked = TRUE]
    /\ Return(t)
    /\ UNCHANGED <<clock, policy, accounts, identities, principals, bindings, challenges, holder>>

\* sign_out: the credential must stand for a valid session; ending one that has
\* meanwhile been ended changes nothing, so the two calls are one step.
SignOut ==
    /\ \E i \in DOMAIN sessions :
        /\ sessions[i].given /\ ~ sessions[i].revoked /\ clock < sessions[i].expires_at
        /\ sessions' = [sessions EXCEPT ![i].revoked = TRUE]
    /\ UNCHANGED <<clock, policy, accounts, identities, principals, bindings, challenges,
                   holder, local>>
(***************************************************************************)
(* Account linking                                                         *)
(***************************************************************************)

\* AuthMesh::link_account: a second external identity for a principal.
Link(t) ==
    /\ local[t].pc = "idle"
    /\ \E q \in Links : Authenticates(q.user, q.password) /\ Begin(t, "link", q)
    /\ UNCHANGED <<clock, policy, accounts, identities, principals, bindings, sessions,
                   challenges, holder>>

\* The principal must be known; the identity is made if it is missing.
Bug_IdentityFirst(t) ==
    LET q == local[t].request
    IN  /\ local[t].pc = "link"
        /\ identities' = identities \cup {q.user}
        /\ IF q.principal \in principals THEN Goto(t, "link_bind") ELSE Return(t)
        /\ UNCHANGED <<clock, policy, accounts, principals, bindings, sessions, challenges,
                       holder>>

LinkIdentity(t) ==
    LET q == local[t].request
    IN  /\ local[t].pc = "link"
        /\ IF q.principal \in principals
           THEN identities' = identities \cup {q.user} /\ Goto(t, "link_bind")
           ELSE UNCHANGED identities /\ Return(t)
        /\ UNCHANGED <<clock, policy, accounts, principals, bindings, sessions, challenges,
                       holder>>

LinkBind(t) ==
    LET q == local[t].request
    IN  /\ local[t].pc = "link_bind"
        /\ IF CanBind(q.user, q.principal)
           THEN bindings' = [bindings EXCEPT ![q.user] = q.principal]
           ELSE UNCHANGED bindings
        /\ Return(t)
        /\ UNCHANGED <<clock, policy, accounts, identities, principals, sessions, challenges,
                       holder>>

(***************************************************************************)
(* Passwords                                                               *)
(***************************************************************************)

\* Read the policy in force; from here on the request goes by this copy.
WithPolicy(t, pc, q) ==
    local' = [local EXCEPT ![t] = [Idle EXCEPT !.pc = pc, !.request = q, !.now = clock,
                                               !.policy = policy]]

ChangePassword(t) ==
    /\ local[t].pc = "idle"
    /\ policy.allow_password_change
    /\ \E q \in PasswordChanges : q.new \in policy.accepts /\ WithPolicy(t, "change", q)
    /\ UNCHANGED <<clock, policy, accounts, identities, principals, bindings, sessions,
                   challenges, holder>>

\* set_password refuses a recent password.
MaySet(user, new, copy) ==
    /\ accounts[user] # None
    /\ ~ matches_current_or_history(accounts[user], new, copy.password_history_count)

SetPassword(user, new, copy) ==
    accounts' = [accounts EXCEPT ![user] = WithPassword(accounts[user], new, copy, clock)]

ConnectorChange(t) ==
    LET me == local[t]
        q == me.request
    IN  /\ me.pc = "change"
        /\ IF Authenticates(q.user, q.password) /\ MaySet(q.user, q.new, me.policy)
           THEN SetPassword(q.user, q.new, me.policy)
           ELSE UNCHANGED accounts
        /\ Return(t)
        /\ UNCHANGED <<clock, policy, identities, principals, bindings, sessions, challenges,
                       holder>>

(***************************************************************************)
(* Ceremonies                                                              *)
(***************************************************************************)

\* forgot_password and request_email_verification.  An account without an
\* address gets the same answer and nothing happens.
RequestMail(t) ==
    /\ local[t].pc = "idle"
    /\ RoomForChallenge
    /\ \E user \in User, kind \in CeremonyKind :
        /\ kind = "PasswordReset" => policy.allow_password_reset
        /\ accounts[user] # None /\ accounts[user].email
        /\ Begin(t, "issue", [op |-> "mail", user |-> user, kind |-> kind])
    /\ UNCHANGED <<clock, policy, accounts, identities, principals, bindings, sessions,
                   challenges, holder>>

Life(kind) == IF kind = "PasswordReset" THEN ResetLife ELSE VerifyLife

\* The challenge is stored, then mailed; a mail that is refused leaves it.
Issue(t) ==
    LET me == local[t]
        q == me.request
        kind == IF q.op = "mail" THEN q.kind ELSE "EmailVerification"
    IN  /\ me.pc = "issue"
        /\ StoreFree
        /\ \E mailed \in IF MailCanFail THEN BOOLEAN ELSE {TRUE} :
            /\ challenges' = Append(challenges,
                                NewChallenge(kind, q.user, me.now + Life(kind), mailed))
            /\ IF mailed /\ q.op # "mail" THEN Goto(t, "logout") ELSE Return(t)
        /\ UNCHANGED <<clock, policy, accounts, identities, principals, bindings, sessions,
                       holder>>

\* reset_password and verify_email, with a token that came by mail: the new
\* password must be one the policy accepts.
Redeem(t) ==
    /\ local[t].pc = "idle"
    /\ \E i \in DOMAIN challenges :
        /\ challenges[i].mailed
        /\ \/ \E new \in NewPasswords \cap policy.accepts :
                WithPolicy(t, "consume", [op |-> "token", challenge |-> i,
                                          kind |-> "PasswordReset", new |-> new])
           \/ Begin(t, "consume", [op |-> "token", challenge |-> i,
                                   kind |-> "EmailVerification", new |-> None])
    /\ UNCHANGED <<clock, policy, accounts, identities, principals, bindings, sessions,
                   challenges, holder>>

\* consume_with: take the store and look at the challenge.
Bug_ReplayGetsIn(t) ==
    LET me == local[t]
        q == me.request
    IN  /\ me.pc = "consume"
        /\ IF IsOpen(challenges[q.challenge], q.kind, me.now)
           THEN Goto(t, "operate") /\ holder' = t
           ELSE Return(t) /\ UNCHANGED holder
        /\ UNCHANGED <<clock, policy, accounts, identities, principals, bindings, sessions,
                       challenges>>

Consume(t) ==
    LET me == local[t]
        q == me.request
    IN  /\ me.pc = "consume"
        /\ StoreFree
        /\ IF IsOpen(challenges[q.challenge], q.kind, me.now)
           THEN Goto(t, "operate") /\ holder' = t
           ELSE Return(t) /\ UNCHANGED holder
        /\ UNCHANGED <<clock, policy, accounts, identities, principals, bindings, sessions,
                       challenges>>

Release(t) == Return(t) /\ holder' = NoThread

\* The operation, with the store still taken.  One that fails leaves the
\* challenge open.
Operate(t) ==
    LET me == local[t]
        q == me.request
        user == challenges[q.challenge].account
        used == challenges' = [challenges EXCEPT ![q.challenge].uses = @ + 1]
    IN  /\ me.pc = "operate"
        /\ \/ /\ q.kind = "PasswordReset" /\ MaySet(user, q.new, me.policy)
              /\ SetPassword(user, q.new, me.policy) /\ used
              /\ Goto(t, "consumed") /\ UNCHANGED holder
           \/ /\ q.kind = "EmailVerification"
              /\ accounts' = [accounts EXCEPT ![user].email_verified = TRUE] /\ used
              /\ Goto(t, "consumed") /\ UNCHANGED holder
           \/ /\ q.kind = "PasswordReset" /\ ~ MaySet(user, q.new, me.policy)
              /\ UNCHANGED <<accounts, challenges>> /\ Release(t)
        /\ UNCHANGED <<clock, policy, identities, principals, bindings, sessions>>

Consumed(t) ==
    /\ local[t].pc = "consumed"
    /\ challenges' = [challenges EXCEPT ![local[t].request.challenge].consumed = TRUE]
    /\ Release(t)
    /\ UNCHANGED <<clock, policy, accounts, identities, principals, bindings, sessions>>

RevokeChallenge ==
    /\ StoreFree
    /\ \E i \in DOMAIN challenges :
        /\ ~ challenges[i].revoked
        /\ challenges' = [challenges EXCEPT ![i].revoked = TRUE]
    /\ UNCHANGED <<clock, policy, accounts, identities, principals, bindings, sessions, holder,
                   local>>

(***************************************************************************)
(* The specification                                                       *)
(***************************************************************************)

\* The control plane applies a SetPasswordPolicy change.
SetPolicy ==
    /\ policy' \in LivePasswords \ {policy}
    /\ UNCHANGED <<clock, accounts, identities, principals, bindings, sessions, challenges,
                   holder, local>>

Tick ==
    /\ clock < MaxTime
    /\ clock' = clock + 1
    /\ UNCHANGED <<policy, accounts, identities, principals, bindings, sessions, challenges,
                   holder, local>>

\* A request answered without a change of state.
Answer(t) == local[t].pc = "idle" /\ UNCHANGED vars

Init ==
    /\ clock = StartTime
    /\ policy = ContractPolicy
    /\ accounts = [u \in User |-> None]
    /\ identities = {}
    /\ principals = {}
    /\ bindings = [u \in User |-> None]
    /\ sessions = <<>>
    /\ challenges = <<>>
    /\ holder = NoThread
    /\ local = [t \in Thread |-> Idle]

Start(t) ==
    \/ SignUp(t) \/ SignIn(t) \/ Link(t) \/ ChangePassword(t) \/ RequestMail(t) \/ Redeem(t)
    \/ Answer(t)

Continue(t) ==
    \/ SignupAccount(t) \/ SignupExternal(t) \/ SignupIdentity(t) \/ SignupBind(t)
    \/ SignupOpen(t) \/ SignupVerify(t) \/ SignupLogout(t)
    \/ SigninOpen(t) \/ SigninCheck(t) \/ SigninRefuse(t)
    \/ LinkIdentity(t) \/ LinkBind(t) \/ ConnectorChange(t)
    \/ Issue(t) \/ Consume(t) \/ Operate(t) \/ Consumed(t)

Next ==
    \/ \E t \in Thread : Start(t) \/ Continue(t)
    \/ SignOut \/ RevokeChallenge \/ SetPolicy \/ Tick

Spec == Init /\ [][Next]_vars
(***************************************************************************)
(* Properties                                                              *)
(***************************************************************************)

\* A challenge changes an account at most once, and then it is consumed as soon
\* as the request that used it lets go of the store, however replays of the
\* token interleave (README.md: "single-use challenges").
ChallengeWorksOnce ==
    \A i \in DOMAIN challenges :
        /\ challenges[i].uses <= 1
        /\ challenges[i].uses = 1 =>
            \/ challenges[i].consumed
            \/ /\ holder # NoThread
               /\ local[holder].pc = "consumed" /\ local[holder].request.challenge = i

\* A challenge works only while it is neither revoked nor consumed, for a request
\* that came in before its end, and only does what it is for: a reset verifies no
\* address and a verification sets no password (ceremony.rs, consume_with).
ChallengeKeepsToPurpose ==
    [][\A i \in DOMAIN challenges :
        LET it == challenges[i]
        IN  challenges'[i].uses > it.uses =>
                /\ ~ it.revoked /\ ~ it.consumed
                /\ \E t \in Thread :
                    /\ local[t].pc = "operate" /\ local[t].request.challenge = i
                    /\ local[t].now < it.expires_at
                /\ IF it.kind = "PasswordReset"
                   THEN accounts'[it.account].email_verified = accounts[it.account].email_verified
                   ELSE accounts'[it.account].password = accounts[it.account].password]_vars

\* The least number of old passwords any policy of this process keeps.
KeptPasswords ==
    CHOOSE n \in {p.password_history_count : p \in LivePasswords \cup {ContractPolicy}} :
        \A p \in LivePasswords \cup {ContractPolicy} : n <= p.password_history_count

\* Nobody gets back the password they had last, nor one that every policy kept
\* before that, by whichever mix of changes, resets and policy changes it was set, a reset
\* that still goes by an older policy among them (local.rs, set_password).
PasswordNotReused ==
    \A u \in User :
        accounts[u] # None =>
            \A k \in 1..Least(KeptPasswords + 1, Len(accounts[u].past)) :
                accounts[u].past[k] # accounts[u].password

\* No client holds a live session of an account whose address must still be
\* verified (runtime.rs, sign_up: "does not grant a live session until the
\* address has been verified"; sign_in: "Please verify your email address").
UnverifiedIsShutOut ==
    \A i \in DOMAIN sessions :
        LET account == accounts[sessions[i].identity]
        IN  sessions[i].given /\ ~ sessions[i].revoked /\ account.must_verify
                => account.email_verified

\* An identity that no request is working on is bound to a known principal: no
\* mix of sign-ups and links leaves one that can neither sign in nor sign up.
NoOrphanIdentity ==
    \A u \in identities :
        \/ bindings[u] # None /\ bindings[u] \in principals
        \/ \E t \in Thread : local[t].pc \in {"bind", "link_bind"} /\ local[t].request.user = u
=============================================================================
