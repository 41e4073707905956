---------------------------- MODULE IdentityProofs ----------------------------
(***************************************************************************)
(* Theorems about sign-up, sign-in, linking, passwords and ceremonies, for *)
(* every set of threads, users, passwords and requests, any number of      *)
(* sessions and challenges and any course of the clock.                    *)
(***************************************************************************)
EXTENDS Identity, SequenceTheorems, WellFoundedInduction, NaturalsInduction, TLAPS

(***************************************************************************)
(* Sequences                                                               *)
(***************************************************************************)

\* Updating a sequence at an index keeps its type and its domain.
LEMMA SeqUpdate ==
    ASSUME NEW S, NEW s \in Seq(S), NEW i, NEW v, i \in DOMAIN s => v \in S
    PROVE  /\ [s EXCEPT ![i] = v] \in Seq(S)
           /\ DOMAIN [s EXCEPT ![i] = v] = DOMAIN s
<1>1. DOMAIN s = 1..Len(s) /\ s \in [1..Len(s) -> S]
  BY LenProperties
<1>2. CASE i \in DOMAIN s
  BY <1>1, <1>2, ExceptSeq
<1>3. CASE i \notin DOMAIN s
  <2>1. [s EXCEPT ![i] = v] = s
    BY <1>1, <1>3
  <2> QED BY <2>1
<1> QED BY <1>2, <1>3

\* Appending to a sequence keeps what is there and puts the new element last.
LEMMA SeqAppend ==
    ASSUME NEW S, NEW s \in Seq(S), NEW x \in S
    PROVE  /\ Append(s, x) \in Seq(S) /\ Len(s) \in Nat
           /\ DOMAIN s = 1..Len(s) /\ DOMAIN Append(s, x) = DOMAIN s \cup {Len(s) + 1}
           /\ Append(s, x)[Len(s) + 1] = x /\ Len(s) + 1 \notin DOMAIN s
           /\ \A j \in DOMAIN s : Append(s, x)[j] = s[j]
OBVIOUS

\* An element of a sequence is of its type.
LEMMA SeqElement ==
    ASSUME NEW S, NEW s \in Seq(S), NEW i \in DOMAIN s
    PROVE  s[i] \in S /\ i \in Nat \ {0}
OBVIOUS

(***************************************************************************)
(* The stack of a request                                                  *)
(***************************************************************************)

Request == SignUpRequest \cup SignInRequest \cup LinkRequest \cup ChangeRequest
             \cup MailRequest \cup TokenRequest \cup {None}

SigningUp == {"account", "external", "link_identity", "bind", "open", "verify", "logout"}
SigningIn == {"resolve", "check", "refuse"}
Redeeming == {"consume", "operate", "consumed"}

\* What a thread's variables hold at each point of its request, beyond types.
Fits(l, acc, chs) ==
    /\ l.pc \in SigningUp => l.request \in SignUps
    /\ l.pc \in SigningIn => l.request \in SignIns /\ l.account \in Account
    /\ l.pc \in {"link", "link_bind"} => l.request \in Links
    /\ l.pc = "change" => l.request \in PasswordChanges /\ l.policy \in PasswordPolicy
    /\ l.pc = "issue" => l.request \in SignUps \cup MailRequest
    /\ l.pc \in (SigningUp \ {"account"}) \cup {"issue"} => acc[l.request.user] # None
    /\ l.pc \in Redeeming =>
        /\ l.request \in TokenRequest /\ l.request.challenge \in DOMAIN chs
        /\ l.request.kind = "PasswordReset" =>
              l.request.new \in Password /\ l.policy \in PasswordPolicy

\* A challenge is for somebody who has an account.
ChallengesOfAccounts == \A i \in DOMAIN challenges : accounts[challenges[i].account] # None

TypeInv == TypeOK /\ ChallengesOfAccounts /\ \A t \in Thread : Fits(local[t], accounts, challenges)

\* Accounts and challenges are never removed.
Grows ==
    /\ \A u \in User : accounts[u] # None => accounts'[u] # None
    /\ DOMAIN challenges \subseteq DOMAIN challenges'

\* The type of a stack, with the requests taken together.
LEMMA LocalDef ==
    Local = [pc : PC, request : Request, now : Nat, policy : PasswordPolicy \cup {None},
             account : Account \cup {None}, session : Nat]
BY DEF Local, Request

\* A thread between requests is well typed.
LEMMA IdleFits ==
    ASSUME NEW acc, NEW chs
    PROVE  Idle \in Local /\ Fits(Idle, acc, chs) /\ Idle.pc = "idle"
<1>1. Idle \in Local
  BY LocalDef DEF Idle, PC, Request
<1> QED BY <1>1 DEF Idle, Fits, SigningUp, SigningIn, Redeeming

\* The users that requests are about.
LEMMA RequestUsers ==
    /\ \A q \in SignUps : q.user \in User /\ q.password \in Password /\ q.email \in BOOLEAN
                          /\ q.op \in {"sign_up", "studio"}
    /\ \A q \in SignIns : q.user \in User
    /\ \A q \in Links : q.user \in User /\ q.principal \in User
    /\ \A q \in PasswordChanges : q.user \in User /\ q.new \in Password
    /\ \A q \in MailRequest : q.user \in User /\ q.kind \in CeremonyKind /\ q.op = "mail"
    /\ \A q \in TokenRequest : q.challenge \in Nat \ {0} /\ q.kind \in CeremonyKind
    /\ SignUps \cup SignIns \cup Links \cup PasswordChanges \cup MailRequest \cup TokenRequest
         \subseteq Request
<1> USE IdentityAssumption
<1>1. \A q \in SignUps : q.user \in User /\ q.password \in Password /\ q.email \in BOOLEAN
                         /\ q.op \in {"sign_up", "studio"}
  BY DEF SignUpRequest
<1>2. \A q \in SignIns : q.user \in User
  BY DEF SignInRequest
<1>3. \A q \in Links : q.user \in User /\ q.principal \in User
  BY DEF LinkRequest
<1>4. \A q \in PasswordChanges : q.user \in User /\ q.new \in Password
  BY DEF ChangeRequest
<1>5. \A q \in MailRequest : q.user \in User /\ q.kind \in CeremonyKind /\ q.op = "mail"
  BY DEF MailRequest
<1>6. \A q \in TokenRequest : q.challenge \in Nat \ {0} /\ q.kind \in CeremonyKind
  BY DEF TokenRequest
<1>7. SignUps \cup SignIns \cup Links \cup PasswordChanges \cup MailRequest \cup TokenRequest
        \subseteq Request
  BY DEF Request
<1> QED BY <1>1, <1>2, <1>3, <1>4, <1>5, <1>6, <1>7

\* A stack that fits goes on fitting while accounts and challenges are kept.
LEMMA FitsKept ==
    ASSUME Grows, NEW l, Fits(l, accounts, challenges)
    PROVE  Fits(l, accounts', challenges')
<1>1. ASSUME l.pc \in (SigningUp \ {"account"}) \cup {"issue"}
      PROVE  accounts'[l.request.user] # None
  <2>1. l.request \in SignUps \cup MailRequest /\ accounts[l.request.user] # None
    BY <1>1 DEF Fits, SigningUp
  <2>2. l.request.user \in User
    BY <2>1, RequestUsers
  <2> QED BY <2>1, <2>2 DEF Grows
<1> QED BY <1>1 DEF Fits, Grows

\* A step that replaces the stack of one thread by one that fits.
LEMMA StackStep ==
    ASSUME TypeInv, Grows, NEW t \in Thread, NEW l \in Local, Fits(l, accounts', challenges'),
           local' = [local EXCEPT ![t] = l]
    PROVE  local' \in [Thread -> Local] /\ \A u \in Thread : Fits(local'[u], accounts', challenges')
<1>1. local \in [Thread -> Local] /\ \A u \in Thread : Fits(local[u], accounts, challenges)
  BY DEF TypeInv, TypeOK
<1>2. local' \in [Thread -> Local]
  BY <1>1
<1>3. ASSUME NEW u \in Thread PROVE Fits(local'[u], accounts', challenges')
  <2>1. CASE u = t
    <3>1. local'[u] = l
      BY <1>1, <2>1
    <3> QED BY <3>1 DEF Fits
  <2>2. CASE u # t
    <3>1. local'[u] = local[u] /\ Fits(local[u], accounts, challenges)
      BY <1>1, <2>2
    <3>2. \A x : Fits(x, accounts, challenges) => Fits(x, accounts', challenges')
      BY FitsKept
    <3> QED BY <3>1, <3>2 DEF Fits
  <2> QED BY <2>1, <2>2
<1> QED BY <1>2, <1>3

\* Returning leaves an idle thread.
LEMMA ReturnStep ==
    ASSUME TypeInv, Grows, NEW t \in Thread, Return(t)
    PROVE  local' \in [Thread -> Local] /\ \A u \in Thread : Fits(local'[u], accounts', challenges')
<1>1. Idle \in Local /\ Fits(Idle, accounts', challenges')
  BY IdleFits
<1> QED BY <1>1, StackStep DEF Return

(***************************************************************************)
(* The inductive invariants                                                *)
(***************************************************************************)

\* The challenge store is held by the thread that runs an operation in it, and
\* the challenge it has looked at stays open until the operation is done.
HolderInv ==
    \A t \in Thread :
        /\ local[t].pc \in {"operate", "consumed"} <=> holder = t
        /\ local[t].pc = "operate" =>
              IsOpen(challenges[local[t].request.challenge], local[t].request.kind, local[t].now)

CeremonyInv == TypeInv /\ HolderInv /\ ChallengeWorksOnce

\* Identities are only ever bound to principals that are stored.
BindingsKnown ==
    /\ \A u \in User : bindings[u] # None => bindings[u] \in principals
    /\ \A t \in Thread : local[t].pc = "link_bind" => local[t].request.principal \in principals

BindInv == TypeInv /\ BindingsKnown /\ NoOrphanIdentity

\* A thread that still has to hand out or end its session knows which it is.
HasSession(l) == l.pc \in {"verify", "logout", "check", "refuse"} \/ (l.pc = "issue" /\ l.request \in SignUps)

SessionsKnown ==
    /\ \A i \in DOMAIN sessions : accounts[sessions[i].identity] # None
    /\ \A t \in Thread : HasSession(local[t]) =>
        /\ local[t].session \in DOMAIN sessions
        /\ sessions[local[t].session].identity = local[t].request.user
        /\ local[t].request \in SignUps => local[t].request.op = "sign_up"

\* The copy of an account that a sign-in goes by: whether the address must be
\* verified never changes, and a verified one stays so.
CopyOfAccount(copy, account) ==
    /\ account # None
    /\ copy.must_verify <=> account.must_verify
    /\ copy.email_verified => account.email_verified

SignInCopies ==
    \A t \in Thread : local[t].pc \in SigningIn =>
        CopyOfAccount(local[t].account, accounts[local[t].request.user])

\* Whoever must verify an address gave it at sign-up.
GaveAddress(u) == \E q \in SignUps : q.op = "sign_up" /\ q.user = u /\ q.email
AddressFromSignUp ==
    \A u \in User : accounts[u] # None /\ accounts[u].must_verify => EmailVerification /\ GaveAddress(u)

ShutOutInv == TypeInv /\ SessionsKnown /\ SignInCopies /\ AddressFromSignUp /\ UnverifiedIsShutOut

\* All who sign up for one account give an address, or none does.
OneAddressEach ==
    \A p, q \in SignUps :
        p.op = "sign_up" /\ q.op = "sign_up" /\ p.user = q.user => p.email = q.email

\* The policies that can be in force, and the copies requests go by.
Policies == LivePasswords \cup {ContractPolicy}
PoliciesKnown ==
    /\ policy \in Policies
    /\ \A t \in Thread :
        local[t].pc = "change" \/ (local[t].pc \in Redeeming /\ local[t].request.kind = "PasswordReset")
            => local[t].policy \in Policies

\* The stored history of an account is the beginning of its past and as long as
\* the least strict policy asks for.
HistoryIsPast(a) ==
    /\ \A k \in DOMAIN a.password_history :
          k \in DOMAIN a.past /\ a.past[k] = a.password_history[k]
    /\ Least(KeptPasswords, Len(a.past)) <= Len(a.password_history)

HistoriesKept == \A u \in User : accounts[u] # None => HistoryIsPast(accounts[u])

PasswordInv == TypeInv /\ PoliciesKnown /\ HistoriesKept /\ PasswordNotReused

(***************************************************************************)
(* Types                                                                   *)
(***************************************************************************)

\* What the types say of a thread, its request and the stores.
LEMMA TypeFacts ==
    ASSUME TypeInv, NEW t \in Thread
    PROVE  /\ local[t] \in Local /\ Fits(local[t], accounts, challenges) /\ local \in [Thread -> Local]
           /\ accounts \in [User -> Account \cup {None}]
           /\ challenges \in Seq(Challenge) /\ sessions \in Seq(Session)
           /\ clock \in Nat /\ policy \in PasswordPolicy
           /\ local[t].now \in Nat /\ local[t].request \in Request /\ local[t].session \in Nat
<1>1. local[t] \in Local
  BY DEF TypeInv, TypeOK
<1>2. local[t].now \in Nat /\ local[t].request \in Request /\ local[t].session \in Nat
  BY <1>1, LocalDef
<1> QED BY <1>1, <1>2 DEF TypeInv, TypeOK

\* Challenges stay with their accounts while neither is removed.
LEMMA ChallengesKept ==
    ASSUME TypeInv, Grows, DOMAIN challenges' = DOMAIN challenges,
           \A i \in DOMAIN challenges : challenges'[i].account = challenges[i].account
    PROVE  ChallengesOfAccounts'
<1>1. \A i \in DOMAIN challenges : challenges[i] \in Challenge
  BY SeqElement DEF TypeInv, TypeOK
<1>2. \A i \in DOMAIN challenges : challenges[i].account \in User
  BY <1>1 DEF Challenge
<1> QED BY <1>2 DEF ChallengesOfAccounts, TypeInv, Grows

\* The steps that change neither accounts nor challenges.
LEMMA Stable ==
    ASSUME TypeInv, UNCHANGED <<accounts, challenges>>
    PROVE  Grows /\ ChallengesOfAccounts'
<1>1. Grows
  BY DEF Grows
<1> QED BY <1>1, ChallengesKept

\* The rest of the stores.
StoresTyped ==
    /\ clock \in Nat /\ policy \in PasswordPolicy
    /\ identities \subseteq User /\ principals \subseteq User
    /\ bindings \in [User -> User \cup {None}]
    /\ sessions \in Seq(Session)
    /\ holder \in Thread \cup {NoThread}

\* A step that replaces one stack and keeps the types of the stores.
LEMMA Assemble ==
    ASSUME TypeInv, Grows, ChallengesOfAccounts', StoresTyped',
           accounts' \in [User -> Account \cup {None}], challenges' \in Seq(Challenge),
           \/ \E t \in Thread : \E l \in Local :
                Fits(l, accounts', challenges') /\ local' = [local EXCEPT ![t] = l]
           \/ UNCHANGED local
    PROVE  TypeInv'
<1>1. local' \in [Thread -> Local] /\ \A u \in Thread : Fits(local'[u], accounts', challenges')
  <2>1. CASE UNCHANGED local
    <3>1. \A x : Fits(x, accounts, challenges) => Fits(x, accounts', challenges')
      BY FitsKept
    <3> QED BY <2>1, <3>1 DEF TypeInv, TypeOK
  <2>2. ASSUME NEW t \in Thread, NEW l \in Local, Fits(l, accounts', challenges'),
               local' = [local EXCEPT ![t] = l]
        PROVE  local' \in [Thread -> Local] /\ \A u \in Thread : Fits(local'[u], accounts', challenges')
    BY <2>2, StackStep
  <2> QED BY <2>1, <2>2
<1> QED BY <1>1 DEF TypeInv, TypeOK, StoresTyped

\* The same for a step that moves a thread on, or lets it return, and leaves
\* accounts and challenges alone.
LEMMA MoveOn ==
    ASSUME TypeInv, UNCHANGED <<accounts, challenges>>, StoresTyped', NEW t \in Thread,
           \/ Return(t)
           \/ \E pc \in PC : Goto(t, pc) /\ Fits([local[t] EXCEPT !.pc = pc], accounts, challenges)
    PROVE  TypeInv'
<1>1. Grows /\ ChallengesOfAccounts'
  BY Stable
<1>2. accounts' \in [User -> Account \cup {None}] /\ challenges' \in Seq(Challenge)
  BY TypeFacts
<1>3. \E l \in Local : Fits(l, accounts', challenges') /\ local' = [local EXCEPT ![t] = l]
  <2>1. CASE Return(t)
    <3>1. Idle \in Local /\ Fits(Idle, accounts', challenges')
      BY IdleFits
    <3> QED BY <2>1, <3>1 DEF Return
  <2>2. ASSUME NEW pc \in PC, Goto(t, pc), Fits([local[t] EXCEPT !.pc = pc], accounts, challenges)
        PROVE  \E l \in Local : Fits(l, accounts', challenges') /\ local' = [local EXCEPT ![t] = l]
    <3> DEFINE l == [local[t] EXCEPT !.pc = pc]
    <3>1. l \in Local
      BY TypeFacts, LocalDef
    <3>2. local' = [local EXCEPT ![t] = l]
      BY <2>2, TypeFacts DEF Goto
    <3>3. Fits(l, accounts', challenges')
      BY <2>2
    <3> QED BY <3>1, <3>2, <3>3
  <2> QED BY <2>1, <2>2
<1> QED BY <1>1, <1>2, <1>3, Assemble

\* The same for a step that starts a request.
LEMMA GoIn ==
    ASSUME TypeInv, UNCHANGED <<accounts, challenges>>, StoresTyped', NEW t \in Thread,
           NEW l \in Local, local' = [local EXCEPT ![t] = l], Fits(l, accounts, challenges)
    PROVE  TypeInv'
<1>1. Grows /\ ChallengesOfAccounts'
  BY Stable
<1>2. accounts' \in [User -> Account \cup {None}] /\ challenges' \in Seq(Challenge)
  BY TypeFacts
<1> QED BY <1>1, <1>2, Assemble

\* Requests start well typed.
LEMMA TypeStart ==
    ASSUME TypeInv, NEW t \in Thread, Start(t)
    PROVE  TypeInv'
<1>s. StoresTyped /\ clock \in Nat /\ policy \in PasswordPolicy
  BY DEF TypeInv, TypeOK, StoresTyped
<1>1. CASE SignUp(t)
  <2>1. UNCHANGED <<accounts, challenges>> /\ StoresTyped'
    BY <1>1, <1>s DEF SignUp, StoresTyped
  <2>2. PICK q \in SignUps : Begin(t, "account", q)
    BY <1>1 DEF SignUp
  <2> DEFINE l == [Idle EXCEPT !.pc = "account", !.request = q, !.now = clock]
  <2>3. l \in Local /\ Fits(l, accounts, challenges)
    BY <1>s, RequestUsers, LocalDef DEF Fits, Idle, SigningUp, SigningIn, Redeeming, PC
  <2> QED BY <2>1, <2>2, <2>3, GoIn DEF Begin
<1>2. CASE SignIn(t)
  <2>1. UNCHANGED <<accounts, challenges>> /\ StoresTyped'
    BY <1>2, <1>s DEF SignIn, StoresTyped
  <2>2. PICK q \in SignIns : Authenticates(q.user, q.password) /\
          local' = [local EXCEPT ![t] = [Idle EXCEPT !.pc = "resolve", !.request = q,
                        !.now = clock, !.account = accounts[q.user]]]
    BY <1>2 DEF SignIn
  <2> DEFINE l == [Idle EXCEPT !.pc = "resolve", !.request = q, !.now = clock,
                               !.account = accounts[q.user]]
  <2>3. accounts[q.user] \in Account /\ q \in Request
    BY <2>2, RequestUsers, TypeFacts DEF Authenticates
  <2>4. l \in Local /\ Fits(l, accounts, challenges)
    BY <1>s, <2>3, LocalDef DEF Fits, Idle, SigningUp, SigningIn, Redeeming, PC
  <2> QED BY <2>1, <2>2, <2>4, GoIn
<1>3. CASE Link(t)
  <2>1. UNCHANGED <<accounts, challenges>> /\ StoresTyped'
    BY <1>3, <1>s DEF Link, StoresTyped
  <2>2. PICK q \in Links : Begin(t, "link", q)
    BY <1>3 DEF Link
  <2> DEFINE l == [Idle EXCEPT !.pc = "link", !.request = q, !.now = clock]
  <2>3. l \in Local /\ Fits(l, accounts, challenges)
    BY <1>s, RequestUsers, LocalDef DEF Fits, Idle, SigningUp, SigningIn, Redeeming, PC
  <2> QED BY <2>1, <2>2, <2>3, GoIn DEF Begin
<1>4. CASE ChangePassword(t)
  <2>1. UNCHANGED <<accounts, challenges>> /\ StoresTyped'
    BY <1>4, <1>s DEF ChangePassword, StoresTyped
  <2>2. PICK q \in PasswordChanges : WithPolicy(t, "change", q)
    BY <1>4 DEF ChangePassword
  <2> DEFINE l == [Idle EXCEPT !.pc = "change", !.request = q, !.now = clock, !.policy = policy]
  <2>3. l \in Local /\ Fits(l, accounts, challenges)
    BY <1>s, RequestUsers, LocalDef DEF Fits, Idle, SigningUp, SigningIn, Redeeming, PC
  <2> QED BY <2>1, <2>2, <2>3, GoIn DEF WithPolicy
<1>5. CASE RequestMail(t)
  <2>1. UNCHANGED <<accounts, challenges>> /\ StoresTyped'
    BY <1>5, <1>s DEF RequestMail, StoresTyped
  <2>2. PICK user \in User, kind \in CeremonyKind :
          accounts[user] # None /\ Begin(t, "issue", [op |-> "mail", user |-> user, kind |-> kind])
    BY <1>5 DEF RequestMail
  <2> DEFINE q == [op |-> "mail", user |-> user, kind |-> kind]
             l == [Idle EXCEPT !.pc = "issue", !.request = q, !.now = clock]
  <2>3. q \in MailRequest /\ q \in Request /\ accounts[q.user] # None
    BY <2>2, RequestUsers DEF MailRequest
  <2>4. local' = [local EXCEPT ![t] = l]
    BY <2>2 DEF Begin
  <2> HIDE DEF q
  <2>5. l \in Local /\ Fits(l, accounts, challenges)
    BY <1>s, <2>3, LocalDef DEF Fits, Idle, SigningUp, SigningIn, Redeeming, PC
  <2> QED BY <2>1, <2>4, <2>5, GoIn
<1>6. CASE Redeem(t)
  <2>1. UNCHANGED <<accounts, challenges>> /\ StoresTyped'
    BY <1>6, <1>s DEF Redeem, StoresTyped
  <2>2. PICK i \in DOMAIN challenges :
           \/ \E new \in NewPasswords \cap policy.accepts :
                WithPolicy(t, "consume", [op |-> "token", challenge |-> i,
                                          kind |-> "PasswordReset", new |-> new])
           \/ Begin(t, "consume", [op |-> "token", challenge |-> i,
                                   kind |-> "EmailVerification", new |-> None])
    BY <1>6 DEF Redeem
  <2>3. i \in Nat \ {0}
    BY SeqElement, TypeFacts
  <2>4. ASSUME NEW new \in NewPasswords,
               WithPolicy(t, "consume", [op |-> "token", challenge |-> i,
                                         kind |-> "PasswordReset", new |-> new])
        PROVE  TypeInv'
    <3> DEFINE q == [op |-> "token", challenge |-> i, kind |-> "PasswordReset", new |-> new]
               l == [Idle EXCEPT !.pc = "consume", !.request = q, !.now = clock, !.policy = policy]
    <3>1. q \in TokenRequest /\ q.challenge = i /\ q.new \in Password
      BY <2>3, IdentityAssumption DEF TokenRequest, CeremonyKind
    <3>2. q \in Request
      BY <3>1, RequestUsers
    <3>3. local' = [local EXCEPT ![t] = l]
      BY <2>4 DEF WithPolicy
    <3> HIDE DEF q
    <3>4. l \in Local /\ Fits(l, accounts, challenges)
      BY <1>s, <3>1, <3>2, LocalDef DEF Fits, Idle, SigningUp, SigningIn, Redeeming, PC
    <3> QED BY <2>1, <3>3, <3>4, GoIn
  <2>5. CASE Begin(t, "consume", [op |-> "token", challenge |-> i,
                                  kind |-> "EmailVerification", new |-> None])
    <3> DEFINE q == [op |-> "token", challenge |-> i, kind |-> "EmailVerification", new |-> None]
               l == [Idle EXCEPT !.pc = "consume", !.request = q, !.now = clock]
    <3>1. q \in TokenRequest /\ q.challenge = i /\ q.kind # "PasswordReset"
      BY <2>3 DEF TokenRequest, CeremonyKind
    <3>2. q \in Request
      BY <3>1, RequestUsers
    <3>3. local' = [local EXCEPT ![t] = l]
      BY <2>5 DEF Begin
    <3> HIDE DEF q
    <3>4. l \in Local /\ Fits(l, accounts, challenges)
      BY <1>s, <3>1, <3>2, LocalDef DEF Fits, Idle, SigningUp, SigningIn, Redeeming, PC
    <3> QED BY <2>1, <3>3, <3>4, GoIn
  <2> QED BY <2>2, <2>4, <2>5
<1>7. CASE Answer(t)
  <2>1. UNCHANGED <<accounts, challenges, local>> /\ StoresTyped'
    BY <1>7, <1>s DEF Answer, vars, StoresTyped
  <2>2. accounts' \in [User -> Account \cup {None}] /\ challenges' \in Seq(Challenge)
    BY <2>1, TypeFacts
  <2> QED BY <2>1, <2>2, Assemble, Stable
<1> QED BY <1>1, <1>2, <1>3, <1>4, <1>5, <1>6, <1>7 DEF Start

\* The beginning of a sequence, cut at a length.
LEMMA TakeFacts ==
    ASSUME NEW S, NEW s \in Seq(S), NEW n \in Nat
    PROVE  /\ Take(s, n) \in Seq(S) /\ Len(Take(s, n)) = Least(n, Len(s))
           /\ Least(n, Len(s)) \in 0..Len(s)
           /\ \A k \in 1..Least(n, Len(s)) : Take(s, n)[k] = s[k]
<1> DEFINE m == Least(n, Len(s))
<1>1. m \in 0..Len(s)
  BY DEF Least
<1>2. Take(s, n) = SubSeq(s, 1, m)
  BY DEF Take
<1> HIDE DEF m
<1>3. SubSeq(s, 1, m) \in Seq(S) /\ Len(SubSeq(s, 1, m)) = m
      /\ \A k \in 1..m : SubSeq(s, 1, m)[k] = s[k]
  BY <1>1
<1> QED BY <1>1, <1>2, <1>3 DEF m

\* Putting an element in front of a sequence.
LEMMA Prepend ==
    ASSUME NEW S, NEW x \in S, NEW s \in Seq(S)
    PROVE  /\ <<x>> \o s \in Seq(S) /\ Len(<<x>> \o s) = Len(s) + 1
           /\ (<<x>> \o s)[1] = x
           /\ \A k \in 1..Len(s) : (<<x>> \o s)[k + 1] = s[k]
OBVIOUS

\* set_password: what becomes of the passwords.
LEMMA SetFacts ==
    ASSUME NEW a \in Account, NEW new \in Password, NEW p \in PasswordPolicy, NEW now \in Nat
    PROVE  LET b == WithPassword(a, new, p, now)
           IN  /\ b \in Account /\ b.password = new
               /\ b.past = <<a.password>> \o a.past
               /\ b.password_history
                    = Take(<<a.password>> \o a.password_history, p.password_history_count)
<1>1. /\ a.password \in Password /\ a.password_history \in Seq(Password)
      /\ a.past \in Seq(Password)
  BY DEF Account
<1>2. p.password_history_count \in Nat
  BY DEF PasswordPolicy
<1> DEFINE h == Take(<<a.password>> \o a.password_history, p.password_history_count)
           e == <<a.password>> \o a.past
<1>3. h \in Seq(Password) /\ e \in Seq(Password)
  <2>1. <<a.password>> \o a.password_history \in Seq(Password)
    BY <1>1, Prepend
  <2> QED BY <2>1, <1>1, <1>2, Prepend, TakeFacts
<1>4. WithPassword(a, new, p, now) =
        [a EXCEPT !.password = new, !.password_history = h, !.password_changed_at = now, !.past = e]
  BY DEF WithPassword
<1> HIDE DEF h, e
<1>5. [a EXCEPT !.password = new, !.password_history = h, !.password_changed_at = now, !.past = e]
        \in Account
  BY <1>3 DEF Account
<1>6. LET b == [a EXCEPT !.password = new, !.password_history = h, !.password_changed_at = now,
                         !.past = e]
      IN  b.password = new /\ b.password_history = h /\ b.past = e
  BY DEF Account
<1> QED BY <1>4, <1>5, <1>6 DEF h, e

\* Replacing the account of one user.
LEMMA AccountStep ==
    ASSUME TypeInv, NEW u \in User, NEW a \in Account, accounts' = [accounts EXCEPT ![u] = a],
           DOMAIN challenges \subseteq DOMAIN challenges'
    PROVE  /\ Grows /\ accounts' \in [User -> Account \cup {None}]
           /\ accounts'[u] = a /\ a # None
           /\ \A v \in User : v # u => accounts'[v] = accounts[v]
<1>1. accounts \in [User -> Account \cup {None}] /\ a # None
  BY NoneIsNoAccount DEF TypeInv, TypeOK
<1> QED BY <1>1 DEF Grows

\* Appending a session.
LEMMA SessionTyped ==
    ASSUME TypeInv, NEW t \in Thread, local[t].request.user \in User
    PROVE  [identity |-> local[t].request.user, expires_at |-> local[t].now + SessionLife,
            revoked |-> FALSE, given |-> FALSE] \in Session
<1>1. local[t].now + SessionLife \in Nat
  BY TypeFacts, IdentityAssumption
<1> QED BY <1>1 DEF Session

\* Sign-up, up to the session.
LEMMA TypeSignUp ==
    ASSUME TypeInv, NEW t \in Thread,
           SignupAccount(t) \/ SignupExternal(t) \/ SignupIdentity(t) \/ SignupBind(t)
    PROVE  TypeInv'
<1> DEFINE q == local[t].request
<1>t. /\ local[t] \in Local /\ Fits(local[t], accounts, challenges)
      /\ accounts \in [User -> Account \cup {None}] /\ challenges \in Seq(Challenge)
  BY TypeFacts
<1>s. StoresTyped
  BY DEF TypeInv, TypeOK, StoresTyped
<1>p. "external" \in PC /\ "link_identity" \in PC /\ "bind" \in PC /\ "open" \in PC
  BY DEF PC
<1>q. q \in SignUps /\ q.user \in User
  BY <1>t, RequestUsers
  DEF SignupAccount, SignupExternal, SignupIdentity, SignupBind, Fits, SigningUp
<1>f. ASSUME NEW pc \in SigningUp, accounts[q.user] # None
      PROVE  Fits([local[t] EXCEPT !.pc = pc], accounts, challenges)
  BY <1>f, <1>q, <1>t, LocalDef DEF Fits, SigningUp, SigningIn, Redeeming
<1>2. CASE SignupAccount(t)
  <2>2. StoresTyped' /\ UNCHANGED challenges
    BY <1>2, <1>s DEF SignupAccount, StoresTyped
  <2>3. CASE accounts[q.user] = None
    <3> DEFINE a == NewAccount(q.password, q.email, q.email /\ EmailVerification /\ q.op = "sign_up")
               l == [local[t] EXCEPT !.pc = "external"]
    <3>1. accounts' = [accounts EXCEPT ![q.user] = a] /\ Goto(t, "external")
      BY <1>2, <2>3, Zenon DEF SignupAccount
    <3>2. a \in Account
      BY <1>q, RequestUsers, IdentityAssumption DEF NewAccount, Account
    <3> HIDE DEF a
    <3>3. /\ Grows /\ accounts' \in [User -> Account \cup {None}]
          /\ accounts'[q.user] # None
      BY <3>1, <3>2, <2>2, <1>q, AccountStep
    <3>4. ChallengesOfAccounts'
      BY <3>3, <2>2, ChallengesKept
    <3>5. l \in Local /\ local' = [local EXCEPT ![t] = l]
      BY <3>1, <1>p, LocalDef, TypeFacts DEF Goto
    <3>6. Fits(l, accounts', challenges')
      BY <3>3, <1>q, <1>t, LocalDef DEF Fits, SigningUp, SigningIn, Redeeming
    <3> QED BY <3>3, <3>4, <3>5, <3>6, <2>2, <1>t, Assemble
  <2>4. CASE accounts[q.user] # None
    <3>1. UNCHANGED accounts /\ (Goto(t, "external") \/ Return(t))
      BY <1>2, <2>4, Zenon DEF SignupAccount
    <3>2. Fits([local[t] EXCEPT !.pc = "external"], accounts, challenges)
      BY <1>f, <2>4 DEF SigningUp
    <3> QED BY <3>1, <3>2, <2>2, <1>p, MoveOn
  <2> QED BY <2>3, <2>4
<1>3. CASE SignupExternal(t)
  <2>1. StoresTyped' /\ UNCHANGED <<accounts, challenges>> /\ accounts[q.user] # None
    BY <1>3, <1>s, <1>t DEF SignupExternal, StoresTyped, Fits, SigningUp
  <2>2. Goto(t, "link_identity") \/ Return(t)
    BY <1>3, Zenon DEF SignupExternal
  <2>3. Fits([local[t] EXCEPT !.pc = "link_identity"], accounts, challenges)
    BY <1>f, <2>1 DEF SigningUp
  <2> QED BY <2>1, <2>2, <2>3, <1>p, MoveOn
<1>4. CASE SignupIdentity(t)
  <2>1. StoresTyped' /\ UNCHANGED <<accounts, challenges>> /\ accounts[q.user] # None
    BY <1>4, <1>s, <1>t, <1>q DEF SignupIdentity, StoresTyped, Fits, SigningUp
  <2>2. Goto(t, "bind") \/ Return(t)
    BY <1>4, Zenon DEF SignupIdentity
  <2>3. Fits([local[t] EXCEPT !.pc = "bind"], accounts, challenges)
    BY <1>f, <2>1 DEF SigningUp
  <2> QED BY <2>1, <2>2, <2>3, <1>p, MoveOn
<1>5. CASE SignupBind(t)
  <2>1. StoresTyped' /\ UNCHANGED <<accounts, challenges>> /\ accounts[q.user] # None
    BY <1>5, <1>s, <1>t, <1>q DEF SignupBind, StoresTyped, Fits, SigningUp
  <2>2. Goto(t, "open") \/ Return(t)
    BY <1>5, Zenon DEF SignupBind
  <2>3. Fits([local[t] EXCEPT !.pc = "open"], accounts, challenges)
    BY <1>f, <2>1 DEF SigningUp
  <2> QED BY <2>1, <2>2, <2>3, <1>p, MoveOn
<1> QED BY <1>2, <1>3, <1>4, <1>5

\* A step that changes only sessions, one at a time, and one stack.
LEMMA SessionUpdate ==
    ASSUME TypeInv, NEW i, NEW b \in BOOLEAN,
           \/ sessions' = [sessions EXCEPT ![i].given = TRUE]
           \/ sessions' = [sessions EXCEPT ![i].revoked = TRUE]
           \/ sessions' = [sessions EXCEPT ![i] = [@ EXCEPT !.given = TRUE, !.revoked = b]]
    PROVE  /\ sessions' \in Seq(Session) /\ DOMAIN sessions' = DOMAIN sessions
           /\ \A j \in DOMAIN sessions :
                /\ sessions'[j].identity = sessions[j].identity
                /\ j # i => sessions'[j] = sessions[j]
<1>1. sessions \in Seq(Session)
  BY DEF TypeInv, TypeOK
<1>2. PICK v : /\ sessions' = [sessions EXCEPT ![i] = v]
               /\ i \in DOMAIN sessions => v \in Session /\ v.identity = sessions[i].identity
  <2>1. i \in DOMAIN sessions => sessions[i] \in Session
    BY <1>1, SeqElement
  <2>2. CASE sessions' = [sessions EXCEPT ![i].given = TRUE]
    <3> DEFINE v == [sessions[i] EXCEPT !.given = TRUE]
    <3>1. i \in DOMAIN sessions => v \in Session /\ v.identity = sessions[i].identity
      BY <2>1 DEF Session
    <3> QED BY <2>2, <3>1
  <2>3. CASE sessions' = [sessions EXCEPT ![i].revoked = TRUE]
    <3> DEFINE v == [sessions[i] EXCEPT !.revoked = TRUE]
    <3>1. i \in DOMAIN sessions => v \in Session /\ v.identity = sessions[i].identity
      BY <2>1 DEF Session
    <3> QED BY <2>3, <3>1
  <2>4. CASE sessions' = [sessions EXCEPT ![i] = [@ EXCEPT !.given = TRUE, !.revoked = b]]
    <3> DEFINE v == [sessions[i] EXCEPT !.given = TRUE, !.revoked = b]
    <3>1. i \in DOMAIN sessions => v \in Session /\ v.identity = sessions[i].identity
      BY <2>1 DEF Session
    <3> QED BY <2>4, <3>1
  <2> QED BY <2>2, <2>3, <2>4
<1>3. sessions' \in Seq(Session) /\ DOMAIN sessions' = DOMAIN sessions
  BY <1>1, <1>2, SeqUpdate
<1>4. \A j \in DOMAIN sessions : sessions'[j] = IF j = i THEN v ELSE sessions[j]
  BY <1>1, <1>2
<1> QED BY <1>2, <1>3, <1>4

\* Opening a session.
LEMMA OpenSession ==
    ASSUME TypeInv, NEW t \in Thread, NEW next, CreateSession(t, next), local[t].request.user \in User
    PROVE  /\ sessions' \in Seq(Session) /\ Len(sessions) + 1 \in Nat
           /\ DOMAIN sessions' = DOMAIN sessions \cup {Len(sessions) + 1}
           /\ sessions'[Len(sessions) + 1] =
                [identity |-> local[t].request.user, expires_at |-> local[t].now + SessionLife,
                 revoked |-> FALSE, given |-> FALSE]
           /\ Len(sessions) + 1 \notin DOMAIN sessions
           /\ \A j \in DOMAIN sessions : sessions'[j] = sessions[j]
           /\ local' = [local EXCEPT ![t] = next] \/ Return(t)
<1> DEFINE x == [identity |-> local[t].request.user, expires_at |-> local[t].now + SessionLife,
                 revoked |-> FALSE, given |-> FALSE]
<1>1. x \in Session
  BY SessionTyped
<1>2. sessions' = Append(sessions, x) /\ sessions \in Seq(Session)
  BY DEF CreateSession, TypeInv, TypeOK
<1>3. local' = [local EXCEPT ![t] = next] \/ Return(t)
  BY DEF CreateSession
<1> HIDE DEF x
<1>4. /\ sessions' \in Seq(Session) /\ Len(sessions) \in Nat
      /\ DOMAIN sessions' = DOMAIN sessions \cup {Len(sessions) + 1}
      /\ sessions'[Len(sessions) + 1] = x
      /\ Len(sessions) + 1 \notin DOMAIN sessions
      /\ \A j \in DOMAIN sessions : sessions'[j] = sessions[j]
  BY <1>1, <1>2, SeqAppend
<1> QED BY <1>3, <1>4 DEF x

\* Sign-up, from the session on.
LEMMA TypeSignUpEnd ==
    ASSUME TypeInv, NEW t \in Thread, SignupOpen(t) \/ SignupVerify(t) \/ SignupLogout(t)
    PROVE  TypeInv'
<1> DEFINE q == local[t].request
<1>t. /\ local[t] \in Local /\ Fits(local[t], accounts, challenges) /\ clock \in Nat
  BY TypeFacts
<1>s. StoresTyped
  BY DEF TypeInv, TypeOK, StoresTyped
<1>q. q \in SignUps /\ q.user \in User /\ q.email \in BOOLEAN /\ accounts[q.user] # None
  BY <1>t, RequestUsers
  DEF SignupOpen, SignupVerify, SignupLogout, Fits, SigningUp
<1>u. UNCHANGED <<accounts, challenges>>
  BY DEF SignupOpen, SignupVerify, SignupLogout
<1>1. CASE SignupOpen(t)
  <2> DEFINE l == IF q.op = "studio" THEN Idle ELSE Opened(t, "verify")
  <2>1. CreateSession(t, l)
    BY <1>1, Zenon DEF SignupOpen
  <2>2. sessions' \in Seq(Session) /\ (local' = [local EXCEPT ![t] = l] \/ Return(t))
        /\ Len(sessions) + 1 \in Nat
    BY <2>1, <1>q, OpenSession
  <2>3. Opened(t, "verify") \in Local /\ Fits(Opened(t, "verify"), accounts, challenges)
    BY <2>2, <1>q, <1>t, LocalDef DEF Opened, Fits, SigningUp, SigningIn, Redeeming, PC
  <2>4. l \in Local /\ Fits(l, accounts, challenges)
    BY <2>3, IdleFits
  <2>5. StoresTyped'
    BY <2>2, <1>1, <1>s DEF SignupOpen, StoresTyped
  <2> HIDE DEF l
  <2> QED BY <2>2, <2>4, <2>5, <1>u, GoIn, MoveOn
<1>2. CASE SignupVerify(t)
  <2>1. CASE EmailVerification
    <3> DEFINE l == [local[t] EXCEPT !.now = clock,
                        !.pc = IF accounts[q.user].email THEN "issue" ELSE "logout"]
    <3>1. local' = [local EXCEPT ![t] = l] /\ UNCHANGED sessions
      BY <1>2, <2>1 DEF SignupVerify
    <3>2. l \in Local /\ Fits(l, accounts, challenges)
      BY <1>q, <1>t, LocalDef DEF Fits, SigningUp, SigningIn, Redeeming, PC
    <3>3. StoresTyped'
      BY <1>2, <1>s, <3>1 DEF SignupVerify, StoresTyped
    <3> HIDE DEF l
    <3> QED BY <3>1, <3>2, <3>3, <1>u, GoIn
  <2>2. CASE ~ EmailVerification
    <3>1. Return(t) /\ sessions' = [sessions EXCEPT ![local[t].session].given = TRUE]
      BY <1>2, <2>2 DEF SignupVerify, Give
    <3>2. StoresTyped'
      BY <1>2, <1>s, <3>1, SessionUpdate DEF SignupVerify, StoresTyped
    <3> QED BY <3>1, <3>2, <1>u, MoveOn
  <2> QED BY <2>1, <2>2
<1>3. CASE SignupLogout(t)
  <2>1. Return(t) /\ sessions' = [sessions EXCEPT ![local[t].session] =
                                    [@ EXCEPT !.given = TRUE, !.revoked = q.email]]
    BY <1>3 DEF SignupLogout
  <2>2. sessions' \in Seq(Session)
    BY <2>1, <1>q, SessionUpdate
  <2>3. StoresTyped'
    BY <1>3, <1>s, <2>2 DEF SignupLogout, StoresTyped
  <2> QED BY <2>1, <2>3, <1>u, MoveOn
<1> QED BY <1>1, <1>2, <1>3

\* Sign-in and sign-out.
LEMMA TypeSignIn ==
    ASSUME TypeInv, NEW t \in Thread, SigninOpen(t) \/ SigninCheck(t) \/ SigninRefuse(t)
    PROVE  TypeInv'
<1> DEFINE q == local[t].request
<1>t. /\ local[t] \in Local /\ Fits(local[t], accounts, challenges)
  BY TypeFacts
<1>s. StoresTyped
  BY DEF TypeInv, TypeOK, StoresTyped
<1>q. q \in SignIns /\ q.user \in User /\ local[t].account \in Account
  BY <1>t, RequestUsers DEF SigninOpen, SigninCheck, SigninRefuse, Fits, SigningIn
<1>u. UNCHANGED <<accounts, challenges>>
  BY DEF SigninOpen, SigninCheck, SigninRefuse
<1>1. CASE SigninOpen(t)
  <2>1. CASE bindings[q.user] = None
    <3>1. Return(t) /\ UNCHANGED sessions
      BY <1>1, <2>1 DEF SigninOpen
    <3>2. StoresTyped'
      BY <1>1, <1>s, <3>1 DEF SigninOpen, StoresTyped
    <3> QED BY <3>1, <3>2, <1>u, MoveOn
  <2>2. CASE bindings[q.user] # None
    <3> DEFINE l == Opened(t, "check")
    <3>1. CreateSession(t, l)
      BY <1>1, <2>2 DEF SigninOpen
    <3>2. sessions' \in Seq(Session) /\ (local' = [local EXCEPT ![t] = l] \/ Return(t))
          /\ Len(sessions) + 1 \in Nat
      BY <3>1, <1>q, OpenSession
    <3>3. l \in Local /\ Fits(l, accounts, challenges)
      BY <3>2, <1>q, <1>t, LocalDef DEF Opened, Fits, SigningUp, SigningIn, Redeeming, PC
    <3>4. StoresTyped'
      BY <3>2, <1>1, <1>s DEF SigninOpen, StoresTyped
    <3> HIDE DEF l
    <3> QED BY <3>2, <3>3, <3>4, <1>u, GoIn, MoveOn
  <2> QED BY <2>1, <2>2
<1>2. CASE SigninCheck(t)
  <2>1. \/ Return(t) /\ UNCHANGED sessions
        \/ Goto(t, "refuse") /\ UNCHANGED sessions
        \/ Return(t) /\ sessions' = [sessions EXCEPT ![local[t].session].given = TRUE]
    BY <1>2, Zenon DEF SigninCheck, Give
  <2>2. sessions' \in Seq(Session)
    BY <2>1, <1>s, SessionUpdate DEF StoresTyped
  <2>3. StoresTyped'
    BY <2>2, <1>2, <1>s DEF SigninCheck, StoresTyped
  <2>4. "refuse" \in PC /\ Fits([local[t] EXCEPT !.pc = "refuse"], accounts, challenges)
    BY <1>q, <1>t, LocalDef DEF Fits, SigningUp, SigningIn, Redeeming, PC
  <2> QED BY <2>1, <2>3, <2>4, <1>u, MoveOn
<1>3. CASE SigninRefuse(t)
  <2>1. Return(t) /\ sessions' = [sessions EXCEPT ![local[t].session].revoked = TRUE]
    BY <1>3 DEF SigninRefuse
  <2>2. sessions' \in Seq(Session)
    BY <2>1, SessionUpdate
  <2>3. StoresTyped'
    BY <1>3, <1>s, <2>2 DEF SigninRefuse, StoresTyped
  <2> QED BY <2>1, <2>3, <1>u, MoveOn
<1> QED BY <1>1, <1>2, <1>3

\* Linking and changing a password.
LEMMA TypeLinkChange ==
    ASSUME TypeInv, NEW t \in Thread, LinkIdentity(t) \/ LinkBind(t) \/ ConnectorChange(t)
    PROVE  TypeInv'
<1> DEFINE q == local[t].request
<1>t. /\ local[t] \in Local /\ Fits(local[t], accounts, challenges) /\ clock \in Nat
      /\ accounts \in [User -> Account \cup {None}] /\ challenges \in Seq(Challenge)
  BY TypeFacts
<1>s. StoresTyped
  BY DEF TypeInv, TypeOK, StoresTyped
<1>1. CASE LinkIdentity(t)
  <2>1. q \in Links /\ q.user \in User
    BY <1>1, <1>t, RequestUsers DEF LinkIdentity, Fits
  <2>2. UNCHANGED <<accounts, challenges>> /\ StoresTyped'
    BY <1>1, <1>s, <2>1 DEF LinkIdentity, StoresTyped
  <2>3. Goto(t, "link_bind") \/ Return(t)
    BY <1>1, Zenon DEF LinkIdentity
  <2>4. "link_bind" \in PC /\ Fits([local[t] EXCEPT !.pc = "link_bind"], accounts, challenges)
    BY <2>1, <1>t, LocalDef DEF Fits, SigningUp, SigningIn, Redeeming, PC
  <2> QED BY <2>2, <2>3, <2>4, MoveOn
<1>2. CASE LinkBind(t)
  <2>1. q \in Links /\ q.user \in User /\ q.principal \in User
    BY <1>2, <1>t, RequestUsers DEF LinkBind, Fits
  <2>2. UNCHANGED <<accounts, challenges>> /\ StoresTyped'
    BY <1>2, <1>s, <2>1 DEF LinkBind, StoresTyped
  <2>3. Return(t)
    BY <1>2, Zenon DEF LinkBind
  <2> QED BY <2>2, <2>3, MoveOn
<1>3. CASE ConnectorChange(t)
  <2>1. q.user \in User /\ q.new \in Password /\ local[t].policy \in PasswordPolicy
    BY <1>3, <1>t, RequestUsers DEF ConnectorChange, Fits
  <2>2. UNCHANGED challenges /\ StoresTyped' /\ Return(t)
    BY <1>3, <1>s DEF ConnectorChange, StoresTyped
  <2>3. CASE UNCHANGED accounts
    BY <2>2, <2>3, MoveOn
  <2>4. CASE MaySet(q.user, q.new, local[t].policy) /\ SetPassword(q.user, q.new, local[t].policy)
    <3> DEFINE a == WithPassword(accounts[q.user], q.new, local[t].policy, clock)
    <3>1. accounts[q.user] \in Account
      BY <2>1, <2>4, <1>t DEF MaySet
    <3>2. a \in Account
      BY <2>1, <3>1, <1>t, SetFacts
    <3>3. accounts' = [accounts EXCEPT ![q.user] = a]
      BY <2>4 DEF SetPassword
    <3> HIDE DEF a
    <3>4. Grows /\ accounts' \in [User -> Account \cup {None}]
      BY <2>1, <2>2, <3>2, <3>3, AccountStep
    <3>5. ChallengesOfAccounts'
      BY <3>4, <2>2, ChallengesKept
    <3>6. Idle \in Local /\ Fits(Idle, accounts', challenges') /\ local' = [local EXCEPT ![t] = Idle]
      BY <2>2, IdleFits DEF Return
    <3> QED BY <3>4, <3>5, <3>6, <2>2, <1>t, Assemble
  <2> QED BY <1>3, <2>3, <2>4, Zenon DEF ConnectorChange
<1> QED BY <1>1, <1>2, <1>3

\* Issuing a challenge.
LEMMA IssueFacts ==
    ASSUME TypeInv, NEW t \in Thread, Issue(t)
    PROVE  \E x \in Challenge :
             /\ x.account = local[t].request.user /\ x.uses = 0 /\ accounts[x.account] # None
             /\ x.account \in User
             /\ challenges' = Append(challenges, x)
             /\ \/ Return(t)
                \/ Goto(t, "logout") /\ local[t].request \in SignUps
<1> DEFINE me == local[t]
           q == me.request
           kind == IF q.op = "mail" THEN q.kind ELSE "EmailVerification"
<1>1. me \in Local /\ me.pc = "issue" /\ Fits(me, accounts, challenges) /\ me.now \in Nat
  BY TypeFacts DEF Issue
<1>2. q \in SignUps \cup MailRequest /\ accounts[q.user] # None
  BY <1>1 DEF Fits
<1>3. q.user \in User /\ kind \in CeremonyKind
  BY <1>2, RequestUsers DEF CeremonyKind
<1>4. q.op # "mail" => q \in SignUps
  BY <1>2, RequestUsers
<1>5. me.now + Life(kind) \in Nat
  <2>1. Life(kind) \in Nat
    BY IdentityAssumption DEF Life
  <2> QED BY <2>1, <1>1
<1>6. PICK mailed \in BOOLEAN :
        /\ challenges' = Append(challenges, NewChallenge(kind, q.user, me.now + Life(kind), mailed))
        /\ IF mailed /\ q.op # "mail" THEN Goto(t, "logout") ELSE Return(t)
  BY DEF Issue
<1> DEFINE x == NewChallenge(kind, q.user, me.now + Life(kind), mailed)
<1>7. x \in Challenge /\ x.account = q.user /\ x.uses = 0
  BY <1>3, <1>5 DEF NewChallenge, Challenge
<1>8. \/ Return(t)
      \/ Goto(t, "logout") /\ q \in SignUps
  BY <1>4, <1>6, Zenon
<1>9. challenges' = Append(challenges, x)
  BY <1>6
<1> HIDE DEF x
<1> QED BY <1>2, <1>3, <1>7, <1>8, <1>9

\* Changing one field of a challenge.
LEMMA ChallengeUpdate ==
    ASSUME TypeInv, NEW i \in DOMAIN challenges,
           \/ challenges' = [challenges EXCEPT ![i].uses = @ + 1]
           \/ challenges' = [challenges EXCEPT ![i].consumed = TRUE]
           \/ challenges' = [challenges EXCEPT ![i].revoked = TRUE]
    PROVE  /\ challenges' \in Seq(Challenge) /\ DOMAIN challenges' = DOMAIN challenges
           /\ \A j \in DOMAIN challenges :
                /\ challenges'[j].account = challenges[j].account
                /\ j # i => challenges'[j] = challenges[j]
<1>1. challenges \in Seq(Challenge) /\ challenges[i] \in Challenge
  BY SeqElement DEF TypeInv, TypeOK
<1>2. PICK v \in Challenge : challenges' = [challenges EXCEPT ![i] = v]
                             /\ v.account = challenges[i].account
  <2>1. CASE challenges' = [challenges EXCEPT ![i].uses = @ + 1]
    <3> DEFINE v == [challenges[i] EXCEPT !.uses = @ + 1]
    <3>1. challenges[i].uses + 1 \in Nat
      BY <1>1 DEF Challenge
    <3>2. v \in Challenge /\ v.account = challenges[i].account
      BY <1>1, <3>1 DEF Challenge
    <3> QED BY <2>1, <3>2
  <2>2. CASE challenges' = [challenges EXCEPT ![i].consumed = TRUE]
    <3> DEFINE v == [challenges[i] EXCEPT !.consumed = TRUE]
    <3>1. v \in Challenge /\ v.account = challenges[i].account
      BY <1>1 DEF Challenge
    <3> QED BY <2>2, <3>1
  <2>3. CASE challenges' = [challenges EXCEPT ![i].revoked = TRUE]
    <3> DEFINE v == [challenges[i] EXCEPT !.revoked = TRUE]
    <3>1. v \in Challenge /\ v.account = challenges[i].account
      BY <1>1 DEF Challenge
    <3> QED BY <2>3, <3>1
  <2> QED BY <2>1, <2>2, <2>3
<1>3. challenges' \in Seq(Challenge) /\ DOMAIN challenges' = DOMAIN challenges
  BY <1>1, <1>2, SeqUpdate
<1>4. \A j \in DOMAIN challenges : challenges'[j] = IF j = i THEN v ELSE challenges[j]
  BY <1>1, <1>2
<1> QED BY <1>2, <1>3, <1>4

\* What the holder of the challenge store does to the account and the challenge.
LEMMA OperateFacts ==
    ASSUME TypeInv, NEW t \in Thread, Operate(t)
    PROVE  LET q == local[t].request
               user == challenges[q.challenge].account
           IN  /\ q.challenge \in DOMAIN challenges /\ challenges[q.challenge] \in Challenge
               /\ user \in User /\ accounts[user] \in Account
               /\ \/ /\ \E a \in Account :
                          /\ accounts' = [accounts EXCEPT ![user] = a]
                          /\ a.must_verify = accounts[user].must_verify
                          /\ \/ /\ q.kind = "PasswordReset" /\ q.new \in Password
                                /\ local[t].policy \in PasswordPolicy
                                /\ MaySet(user, q.new, local[t].policy)
                                /\ a = WithPassword(accounts[user], q.new, local[t].policy, clock)
                                /\ a.email_verified = accounts[user].email_verified
                             \/ /\ q.kind = "EmailVerification" /\ a.email_verified
                                /\ a.password = accounts[user].password
                                /\ a.past = accounts[user].past
                                /\ a.password_history = accounts[user].password_history
                     /\ challenges' = [challenges EXCEPT ![q.challenge].uses = @ + 1]
                     /\ Goto(t, "consumed") /\ UNCHANGED holder
                  \/ UNCHANGED <<accounts, challenges>> /\ Release(t)
<1> DEFINE me == local[t]
           q == me.request
           user == challenges[q.challenge].account
<1>t. /\ me \in Local /\ me.pc = "operate" /\ Fits(me, accounts, challenges) /\ clock \in Nat
      /\ accounts \in [User -> Account \cup {None}] /\ challenges \in Seq(Challenge)
  BY TypeFacts DEF Operate
<1>1. q \in TokenRequest /\ q.challenge \in DOMAIN challenges
      /\ (q.kind = "PasswordReset" => q.new \in Password /\ me.policy \in PasswordPolicy)
  BY <1>t DEF Fits, Redeeming
<1>2. challenges[q.challenge] \in Challenge
  BY <1>1, <1>t, SeqElement
<1>3. user \in User /\ accounts[user] # None
  BY <1>1, <1>2 DEF Challenge, TypeInv, ChallengesOfAccounts
<1>4. accounts[user] \in Account
  BY <1>3, <1>t
<1>5. CASE /\ q.kind = "PasswordReset" /\ MaySet(user, q.new, me.policy)
           /\ SetPassword(user, q.new, me.policy)
           /\ challenges' = [challenges EXCEPT ![q.challenge].uses = @ + 1]
           /\ Goto(t, "consumed") /\ UNCHANGED holder
  <2> DEFINE a == WithPassword(accounts[user], q.new, me.policy, clock)
  <2>3. q.new \in Password /\ me.policy \in PasswordPolicy
    BY <1>1, <1>5
  <2>1. a \in Account /\ a.must_verify = accounts[user].must_verify
        /\ a.email_verified = accounts[user].email_verified
    <3>1. clock \in Nat
      BY <1>t
    <3> HIDE DEF me, q, user
    <3>2. a \in Account
      BY <2>3, <1>4, <3>1, SetFacts
    <3>3. a.must_verify = accounts[user].must_verify
      BY <1>4 DEF WithPassword, Account
    <3>4. a.email_verified = accounts[user].email_verified
      BY <1>4 DEF WithPassword, Account
    <3> QED BY <3>2, <3>3, <3>4
  <2>2. accounts' = [accounts EXCEPT ![user] = a]
    BY <1>5 DEF SetPassword
  <2> HIDE DEF q, user
  <2> QED BY <1>1, <1>2, <1>3, <1>4, <1>5, <2>1, <2>2, <2>3 DEF q, user
<1>6. CASE /\ q.kind = "EmailVerification"
           /\ accounts' = [accounts EXCEPT ![user].email_verified = TRUE]
           /\ challenges' = [challenges EXCEPT ![q.challenge].uses = @ + 1]
           /\ Goto(t, "consumed") /\ UNCHANGED holder
  <2> DEFINE a == [accounts[user] EXCEPT !.email_verified = TRUE]
  <2>1. /\ a \in Account /\ a.must_verify = accounts[user].must_verify /\ a.email_verified
        /\ a.password = accounts[user].password /\ a.past = accounts[user].past
        /\ a.password_history = accounts[user].password_history
    BY <1>4 DEF Account
  <2>2. accounts' = [accounts EXCEPT ![user] = a]
    BY <1>6
  <2> HIDE DEF a
  <2> QED BY <1>1, <1>2, <1>3, <1>4, <1>6, <2>1, <2>2
<1>7. CASE UNCHANGED <<accounts, challenges>> /\ Release(t)
  BY <1>1, <1>2, <1>3, <1>4, <1>7
<1> QED BY <1>5, <1>6, <1>7, Zenon DEF Operate

\* The ceremonies.
LEMMA TypeCeremony ==
    ASSUME TypeInv, NEW t \in Thread, Issue(t) \/ Consume(t) \/ Operate(t) \/ Consumed(t)
    PROVE  TypeInv'
<1> DEFINE q == local[t].request
<1>t. /\ local[t] \in Local /\ Fits(local[t], accounts, challenges) /\ clock \in Nat
      /\ accounts \in [User -> Account \cup {None}] /\ challenges \in Seq(Challenge)
  BY TypeFacts
<1>s. StoresTyped
  BY DEF TypeInv, TypeOK, StoresTyped
<1>1. CASE Issue(t)
  <2>1. PICK x \in Challenge :
             /\ x.account = local[t].request.user /\ accounts[x.account] # None
             /\ challenges' = Append(challenges, x)
             /\ \/ Return(t)
                \/ Goto(t, "logout") /\ local[t].request \in SignUps
    BY <1>1, IssueFacts
  <2>2. UNCHANGED accounts /\ StoresTyped'
    BY <1>1, <1>s DEF Issue, StoresTyped
  <2>3. /\ challenges' \in Seq(Challenge) /\ DOMAIN challenges \subseteq DOMAIN challenges'
        /\ \A i \in DOMAIN challenges' :
              (i \in DOMAIN challenges /\ challenges'[i] = challenges[i]) \/ challenges'[i] = x
    BY <2>1, <1>t, SeqAppend
  <2>4. Grows /\ ChallengesOfAccounts'
    BY <2>1, <2>2, <2>3 DEF Grows, ChallengesOfAccounts, TypeInv
  <2>5. \E l \in Local : Fits(l, accounts', challenges') /\ local' = [local EXCEPT ![t] = l]
    <3>1. CASE Return(t)
      BY <3>1, IdleFits DEF Return
    <3>2. CASE Goto(t, "logout") /\ q \in SignUps
      <4> DEFINE l == [local[t] EXCEPT !.pc = "logout"]
      <4>1. l \in Local /\ local' = [local EXCEPT ![t] = l]
        BY <3>2, <1>t, LocalDef, TypeFacts DEF Goto, PC
      <4>2. Fits(l, accounts', challenges')
        BY <3>2, <2>1, <2>2, <1>t, LocalDef DEF Fits, SigningUp, SigningIn, Redeeming
      <4> QED BY <4>1, <4>2
    <3> QED BY <2>1, <3>1, <3>2
  <2> QED BY <2>2, <2>3, <2>4, <2>5, <1>t, Assemble
<1>2. CASE Consume(t)
  <2>1. local[t].pc = "consume" /\ UNCHANGED <<accounts, challenges>> /\ StoresTyped'
    BY <1>2, <1>s DEF Consume, StoresTyped
  <2>2. Goto(t, "operate") \/ Return(t)
    BY <1>2, Zenon DEF Consume
  <2>3. "operate" \in PC /\ Fits([local[t] EXCEPT !.pc = "operate"], accounts, challenges)
    BY <2>1, <1>t, LocalDef DEF Fits, SigningUp, SigningIn, Redeeming, PC
  <2> QED BY <2>1, <2>2, <2>3, MoveOn
<1>3. CASE Operate(t)
  <2> DEFINE user == challenges[q.challenge].account
  <2>1. local[t].pc = "operate" /\ StoresTyped'
    BY <1>3, <1>s, OperateFacts DEF Operate, StoresTyped, Release
  <2>2. CASE UNCHANGED <<accounts, challenges>> /\ Release(t)
    BY <2>1, <2>2, MoveOn DEF Release
  <2>3. CASE /\ \E a \in Account : accounts' = [accounts EXCEPT ![user] = a]
             /\ challenges' = [challenges EXCEPT ![q.challenge].uses = @ + 1]
             /\ Goto(t, "consumed")
    <3>1. PICK a \in Account : accounts' = [accounts EXCEPT ![user] = a]
      BY <2>3
    <3>2. q.challenge \in DOMAIN challenges /\ user \in User
      BY <1>3, OperateFacts
    <3>3. /\ challenges' \in Seq(Challenge) /\ DOMAIN challenges' = DOMAIN challenges
          /\ \A j \in DOMAIN challenges : challenges'[j].account = challenges[j].account
      BY <2>3, <3>2, ChallengeUpdate
    <3>4. Grows /\ accounts' \in [User -> Account \cup {None}]
      BY <3>1, <3>2, <3>3, AccountStep
    <3>5. ChallengesOfAccounts'
      BY <3>3, <3>4, ChallengesKept
    <3> DEFINE l == [local[t] EXCEPT !.pc = "consumed"]
    <3>6. l \in Local /\ local' = [local EXCEPT ![t] = l]
      BY <2>3, <1>t, LocalDef, TypeFacts DEF Goto, PC
    <3>7. Fits(l, accounts', challenges')
      BY <2>1, <3>3, <1>t, LocalDef DEF Fits, SigningUp, SigningIn, Redeeming
    <3> HIDE DEF l
    <3> QED BY <2>1, <3>3, <3>4, <3>5, <3>6, <3>7, Assemble
  <2> QED BY <2>2, <2>3, <1>3, OperateFacts
<1>4. CASE Consumed(t)
  <2>1. /\ local[t].pc = "consumed" /\ StoresTyped' /\ UNCHANGED accounts
        /\ challenges' = [challenges EXCEPT ![q.challenge].consumed = TRUE]
        /\ local' = [local EXCEPT ![t] = Idle]
    BY <1>4, <1>s DEF Consumed, StoresTyped, Release, Return
  <2>2. q.challenge \in DOMAIN challenges
    BY <2>1, <1>t DEF Fits, Redeeming
  <2>3. /\ challenges' \in Seq(Challenge) /\ DOMAIN challenges' = DOMAIN challenges
        /\ \A j \in DOMAIN challenges : challenges'[j].account = challenges[j].account
    BY <2>1, <2>2, ChallengeUpdate
  <2>4. Grows
    BY <2>1, <2>3 DEF Grows
  <2>5. ChallengesOfAccounts'
    BY <2>3, <2>4, ChallengesKept
  <2>6. Idle \in Local /\ Fits(Idle, accounts', challenges')
    BY IdleFits
  <2> QED BY <2>1, <2>3, <2>4, <2>5, <2>6, <1>t, Assemble
<1> QED BY <1>1, <1>2, <1>3, <1>4

\* The steps of no request.
LEMMA TypeOthers ==
    ASSUME TypeInv, SignOut \/ RevokeChallenge \/ SetPolicy \/ Tick \/ UNCHANGED vars
    PROVE  TypeInv'
<1>t. accounts \in [User -> Account \cup {None}] /\ challenges \in Seq(Challenge)
  BY DEF TypeInv, TypeOK
<1>s. StoresTyped
  BY DEF TypeInv, TypeOK, StoresTyped
<1>1. CASE RevokeChallenge
  <2>1. StoresTyped' /\ UNCHANGED <<accounts, local>>
    BY <1>1, <1>s DEF RevokeChallenge, StoresTyped
  <2>2. PICK i \in DOMAIN challenges : challenges' = [challenges EXCEPT ![i].revoked = TRUE]
    BY <1>1 DEF RevokeChallenge
  <2>3. /\ challenges' \in Seq(Challenge) /\ DOMAIN challenges' = DOMAIN challenges
        /\ \A j \in DOMAIN challenges : challenges'[j].account = challenges[j].account
    BY <2>2, ChallengeUpdate
  <2>4. Grows
    BY <2>1, <2>3 DEF Grows
  <2>5. ChallengesOfAccounts'
    BY <2>3, <2>4, ChallengesKept
  <2> QED BY <2>1, <2>3, <2>4, <2>5, <1>t, Assemble
<1>2. CASE SignOut \/ SetPolicy \/ Tick \/ UNCHANGED vars
  <2>1. UNCHANGED <<accounts, challenges, local>>
    BY <1>2 DEF SignOut, SetPolicy, Tick, vars
  <2>2. StoresTyped'
    <3>1. CASE SignOut
      <4>1. PICK i \in DOMAIN sessions : sessions' = [sessions EXCEPT ![i].revoked = TRUE]
        BY <3>1 DEF SignOut
      <4>2. sessions' \in Seq(Session)
        BY <4>1, SessionUpdate
      <4> QED BY <3>1, <4>2, <1>s DEF SignOut, StoresTyped
    <3>2. CASE SetPolicy
      <4>1. policy' \in PasswordPolicy
        BY <3>2, IdentityAssumption DEF SetPolicy
      <4> QED BY <3>2, <4>1, <1>s DEF SetPolicy, StoresTyped
    <3>3. CASE Tick
      BY <3>3, <1>s DEF Tick, StoresTyped
    <3>4. CASE UNCHANGED vars
      BY <3>4, <1>s DEF vars, StoresTyped
    <3> QED BY <1>2, <3>1, <3>2, <3>3, <3>4
  <2> QED BY <2>1, <2>2, <1>t, Stable, Assemble
<1> QED BY <1>1, <1>2

\* Every step keeps the types.
LEMMA TypeNext == TypeInv /\ [Next]_vars => TypeInv'
<1> SUFFICES ASSUME TypeInv, [Next]_vars PROVE TypeInv'
  OBVIOUS
<1>1. ASSUME NEW t \in Thread, Start(t) PROVE TypeInv'
  BY <1>1, TypeStart
<1>2. ASSUME NEW t \in Thread, Continue(t) PROVE TypeInv'
  BY <1>2, TypeSignUp, TypeSignUpEnd, TypeSignIn, TypeLinkChange, TypeCeremony DEF Continue
<1>3. CASE SignOut \/ RevokeChallenge \/ SetPolicy \/ Tick \/ UNCHANGED vars
  BY <1>3, TypeOthers
<1> QED BY <1>1, <1>2, <1>3 DEF Next

\* The empty stores are well typed.
LEMMA TypeInit == Init => TypeInv
<1> SUFFICES ASSUME Init PROVE TypeInv
  OBVIOUS
<1>1. TypeOK
  BY IdleFits, IdentityAssumption DEF Init, TypeOK
<1>2. ChallengesOfAccounts
  BY DEF Init, ChallengesOfAccounts
<1>3. \A t \in Thread : Fits(local[t], accounts, challenges)
  BY IdleFits DEF Init
<1> QED BY <1>1, <1>2, <1>3 DEF TypeInv

\* The stores and the stacks of the requests are well typed in every reachable
\* state, whichever requests run together: a request that is in the middle of a
\* sign-up, a change or a ceremony holds what that part of the code needs.
THEOREM IdentityTypes == Spec => []TypeOK
<1>1. TypeInv => TypeOK
  BY DEF TypeInv
<1> QED BY TypeInit, TypeNext, <1>1, PTL DEF Spec

(***************************************************************************)
(* Challenges                                                              *)
(***************************************************************************)

\* The stacks after a step of thread t.
LEMMA StackOf ==
    ASSUME TypeInv, NEW t \in Thread, NEW l, local' = [local EXCEPT ![t] = l]
    PROVE  local'[t] = l /\ \A u \in Thread : u # t => local'[u] = local[u]
BY DEF TypeInv, TypeOK

\* Where a thread is after it returned or moved on, and what it still holds.
LEMMA StackMoved ==
    ASSUME TypeInv, NEW t \in Thread, NEW pc \in PC, Return(t) \/ Goto(t, pc)
    PROVE  /\ \A u \in Thread : u # t => local'[u] = local[u]
           /\ Return(t) => local'[t] = Idle
           /\ Goto(t, pc) =>
                /\ local'[t].pc = pc /\ local'[t].request = local[t].request
                /\ local'[t].now = local[t].now /\ local'[t].policy = local[t].policy
                /\ local'[t].account = local[t].account /\ local'[t].session = local[t].session
<1>1. ASSUME Return(t) PROVE local'[t] = Idle /\ \A u \in Thread : u # t => local'[u] = local[u]
  BY <1>1 DEF Return, TypeInv, TypeOK
<1>2. ASSUME Goto(t, pc)
      PROVE /\ \A u \in Thread : u # t => local'[u] = local[u]
            /\ local'[t].pc = pc /\ local'[t].request = local[t].request
            /\ local'[t].now = local[t].now /\ local'[t].policy = local[t].policy
            /\ local'[t].account = local[t].account /\ local'[t].session = local[t].session
  <2>1. local' = [local EXCEPT ![t] = [local[t] EXCEPT !.pc = pc]]
    BY <1>2, TypeFacts DEF Goto
  <2>2. local[t] \in Local
    BY TypeFacts
  <2>3. local'[t] = [local[t] EXCEPT !.pc = pc] /\ \A u \in Thread : u # t => local'[u] = local[u]
    BY <2>1, TypeFacts
  <2> QED BY <2>2, <2>3, LocalDef
<1> QED BY <1>1, <1>2

Holding == {"operate", "consumed"}

\* The challenge store is not concerned: thread t is in no operation before or
\* after the step, and no other thread moves.
Quiet(t) ==
    /\ local[t].pc \notin Holding /\ local'[t].pc \notin Holding
    /\ \A u \in Thread : u # t => local'[u] = local[u]
    /\ UNCHANGED <<challenges, holder>>

\* Starting a request is quiet.
LEMMA StartIsQuiet ==
    ASSUME TypeInv, NEW t \in Thread, Start(t)
    PROVE  Quiet(t) /\ local[t].pc = "idle"
<1>1. UNCHANGED <<challenges, holder>> /\ local[t].pc = "idle"
  BY DEF Start, SignUp, SignIn, Link, ChangePassword, RequestMail, Redeem, Answer, vars
<1>2. UNCHANGED local \/ \E l : l.pc \notin Holding /\ local' = [local EXCEPT ![t] = l]
  <2>1. ASSUME NEW pc, NEW q, pc \notin Holding, Begin(t, pc, q)
        PROVE  \E l : l.pc \notin Holding /\ local' = [local EXCEPT ![t] = l]
    <3>1. [Idle EXCEPT !.pc = pc, !.request = q, !.now = clock].pc \notin Holding
      BY <2>1 DEF Idle
    <3> QED BY <2>1, <3>1 DEF Begin
  <2>2. ASSUME NEW pc, NEW q, pc \notin Holding, WithPolicy(t, pc, q)
        PROVE  \E l : l.pc \notin Holding /\ local' = [local EXCEPT ![t] = l]
    <3>1. [Idle EXCEPT !.pc = pc, !.request = q, !.now = clock, !.policy = policy].pc \notin Holding
      BY <2>2 DEF Idle
    <3> QED BY <2>2, <3>1 DEF WithPolicy
  <2>3. CASE SignIn(t)
    <3>1. PICK q \in SignIns : local' = [local EXCEPT ![t] = [Idle EXCEPT !.pc = "resolve", !.request = q,
                        !.now = clock, !.account = accounts[q.user]]]
      BY <2>3 DEF SignIn
    <3>2. [Idle EXCEPT !.pc = "resolve", !.request = q, !.now = clock,
                       !.account = accounts[q.user]].pc \notin Holding
      BY DEF Idle, Holding
    <3> QED BY <3>1, <3>2
  <2>4. "account" \notin Holding /\ "link" \notin Holding /\ "change" \notin Holding
        /\ "issue" \notin Holding /\ "consume" \notin Holding
    BY DEF Holding
  <2>5. CASE SignUp(t)
    BY <2>1, <2>4, <2>5 DEF SignUp
  <2>6. CASE Link(t)
    BY <2>1, <2>4, <2>6 DEF Link
  <2>7. CASE ChangePassword(t)
    BY <2>2, <2>4, <2>7 DEF ChangePassword
  <2>8. CASE RequestMail(t)
    <3>1. \E q : Begin(t, "issue", q)
      BY <2>8 DEF RequestMail
    <3> QED BY <2>1, <2>4, <3>1
  <2>9. CASE Redeem(t)
    <3>1. (\E q : Begin(t, "consume", q)) \/ (\E q : WithPolicy(t, "consume", q))
      BY <2>9 DEF Redeem
    <3> QED BY <2>1, <2>2, <2>4, <3>1
  <2>10. CASE Answer(t)
    BY <2>10 DEF Answer, vars
  <2> QED BY <2>3, <2>5, <2>6, <2>7, <2>8, <2>9, <2>10 DEF Start
<1>3. "idle" \notin Holding
  BY DEF Holding
<1> QED BY <1>1, <1>2, <1>3, StackOf DEF Quiet

\* So is every step of a request that is not in a ceremony.
LEMMA ContinueIsQuiet ==
    ASSUME TypeInv, NEW t \in Thread, Continue(t),
           ~ Issue(t), ~ Consume(t), ~ Operate(t), ~ Consumed(t)
    PROVE  Quiet(t)
<1> DEFINE Mid == {"account", "external", "link_identity", "bind", "open", "verify", "logout",
                   "resolve", "check", "refuse", "link", "link_bind", "change"}
<1>1. UNCHANGED <<challenges, holder>> /\ local[t].pc \in Mid
  BY Zenon DEF Continue, SignupAccount, SignupExternal, SignupIdentity, SignupBind, SignupOpen,
     SignupVerify, SignupLogout, SigninOpen, SigninCheck, SigninRefuse, LinkIdentity, LinkBind,
     ConnectorChange
<1>2. \A pc \in Mid \cup {"issue", "idle"} : pc \notin Holding
  BY DEF Holding
<1>3. Mid \cup {"issue"} \subseteq PC
  BY DEF PC
<1>4. \/ Return(t)
      \/ \E pc \in Mid : Goto(t, pc)
      \/ \E l : l.pc \in Mid \cup {"issue"} /\ local' = [local EXCEPT ![t] = l]
  <2> HIDE DEF Mid
  <2>m. {"external", "link_identity", "bind", "open", "refuse", "link_bind"} \subseteq Mid
        /\ {"verify", "check", "logout"} \subseteq Mid
    BY DEF Mid
  <2>1. CASE \/ SignupAccount(t) \/ SignupExternal(t) \/ SignupIdentity(t) \/ SignupBind(t)
             \/ SigninCheck(t) \/ LinkIdentity(t)
    <3>1. Return(t) \/ \E pc \in {"external", "link_identity", "bind", "open", "refuse", "link_bind"} :
                          Goto(t, pc)
      BY <2>1 DEF SignupAccount, SignupExternal, SignupIdentity, SignupBind, SigninCheck, LinkIdentity
    <3> QED BY <3>1, <2>m
  <2>2. CASE SignupLogout(t) \/ SigninRefuse(t) \/ LinkBind(t) \/ ConnectorChange(t)
    BY <2>2 DEF SignupLogout, SigninRefuse, LinkBind, ConnectorChange
  <2>3. CASE SignupOpen(t) \/ SigninOpen(t)
    <3>1. Opened(t, "verify").pc = "verify" /\ Opened(t, "check").pc = "check"
      BY TypeFacts, LocalDef DEF Opened
    <3>2. \/ Return(t)
          \/ local' = [local EXCEPT ![t] = Opened(t, "verify")]
          \/ local' = [local EXCEPT ![t] = Opened(t, "check")]
      BY <2>3 DEF SignupOpen, SigninOpen, CreateSession, Return
    <3> QED BY <3>1, <3>2, <2>m
  <2>4. CASE SignupVerify(t)
    <3> DEFINE l == [local[t] EXCEPT !.now = clock,
                        !.pc = IF accounts[local[t].request.user].email THEN "issue" ELSE "logout"]
    <3>1. l.pc \in {"issue", "logout"}
      BY TypeFacts, LocalDef
    <3>2. Return(t) \/ local' = [local EXCEPT ![t] = l]
      BY <2>4 DEF SignupVerify
    <3> HIDE DEF l
    <3> QED BY <3>1, <3>2, <2>m
  <2> QED BY <2>1, <2>2, <2>3, <2>4 DEF Continue
<1>5. Idle.pc = "idle"
  BY DEF Idle
<1> HIDE DEF Mid
<1>6. local'[t].pc \in Mid \cup {"issue", "idle"} /\ \A u \in Thread : u # t => local'[u] = local[u]
  <2>1. CASE Return(t)
    BY <2>1, <1>5, StackOf DEF Return
  <2>2. ASSUME NEW pc \in Mid, Goto(t, pc)
        PROVE  local'[t].pc \in Mid \cup {"issue", "idle"} /\ \A u \in Thread : u # t => local'[u] = local[u]
    BY <2>2, <1>3, StackMoved
  <2>3. ASSUME NEW l, l.pc \in Mid \cup {"issue"}, local' = [local EXCEPT ![t] = l]
        PROVE  local'[t].pc \in Mid \cup {"issue", "idle"} /\ \A u \in Thread : u # t => local'[u] = local[u]
    <3>1. local'[t] = l /\ \A u \in Thread : u # t => local'[u] = local[u]
      BY <2>3 DEF TypeInv, TypeOK
    <3> QED BY <2>3, <3>1
  <2> QED BY <1>4, <2>1, <2>2, <2>3
<1> QED BY <1>1, <1>2, <1>6 DEF Quiet

\* What a quiet step, or one that moves no thread, leaves as it was.
LEMMA CeremonyQuiet ==
    ASSUME CeremonyInv,
           \/ \E t \in Thread : Quiet(t)
           \/ UNCHANGED <<challenges, holder, local>>
    PROVE  HolderInv' /\ ChallengeWorksOnce'
<1>1. UNCHANGED <<challenges, holder>>
  BY DEF Quiet
<1>2. \A u \in Thread : \/ local'[u] = local[u]
                        \/ local[u].pc \notin Holding /\ local'[u].pc \notin Holding
  BY DEF Quiet
<1>3. HolderInv'
  <2> SUFFICES ASSUME NEW u \in Thread
               PROVE  /\ local'[u].pc \in Holding <=> holder' = u
                      /\ local'[u].pc = "operate" =>
                           IsOpen(challenges'[local'[u].request.challenge], local'[u].request.kind,
                                  local'[u].now)
    BY DEF HolderInv, Holding
  <2>1. /\ local[u].pc \in Holding <=> holder = u
        /\ local[u].pc = "operate" =>
             IsOpen(challenges[local[u].request.challenge], local[u].request.kind, local[u].now)
    BY DEF CeremonyInv, HolderInv, Holding
  <2>2. CASE local'[u] = local[u]
    BY <1>1, <2>1, <2>2
  <2>3. CASE local[u].pc \notin Holding /\ local'[u].pc \notin Holding
    BY <1>1, <2>1, <2>3 DEF Holding
  <2> QED BY <1>2, <2>2, <2>3
<1>4. ChallengeWorksOnce'
  <2>1. holder # NoThread => holder \in Thread
    BY DEF CeremonyInv, TypeInv, TypeOK
  <2>2. holder # NoThread => local'[holder] = local[holder]
    BY <2>1, <1>2 DEF CeremonyInv, HolderInv, Holding
  <2> QED BY <1>1, <2>2 DEF CeremonyInv, ChallengeWorksOnce
<1> QED BY <1>3, <1>4

\* A challenge is used up by the step that consumes it, and by no other.
LEMMA ChallengeFields ==
    ASSUME TypeInv, NEW i \in DOMAIN challenges
    PROVE  /\ challenges' = [challenges EXCEPT ![i].uses = @ + 1] =>
                /\ challenges'[i].uses = challenges[i].uses + 1
                /\ challenges'[i].consumed = challenges[i].consumed
           /\ challenges' = [challenges EXCEPT ![i].consumed = TRUE] =>
                challenges'[i].uses = challenges[i].uses /\ challenges'[i].consumed
           /\ challenges' = [challenges EXCEPT ![i].revoked = TRUE] =>
                /\ challenges'[i].uses = challenges[i].uses
                /\ challenges'[i].consumed <=> challenges[i].consumed
           /\ challenges[i].uses \in Nat
<1>1. challenges \in Seq(Challenge) /\ challenges[i] \in Challenge
  BY SeqElement DEF TypeInv, TypeOK
<1>2. ASSUME challenges' = [challenges EXCEPT ![i].uses = @ + 1]
      PROVE  /\ challenges'[i].uses = challenges[i].uses + 1
             /\ challenges'[i].consumed = challenges[i].consumed
  BY <1>1, <1>2 DEF Challenge
<1>3. ASSUME challenges' = [challenges EXCEPT ![i].consumed = TRUE]
      PROVE  challenges'[i].uses = challenges[i].uses /\ challenges'[i].consumed
  BY <1>1, <1>3 DEF Challenge
<1>4. ASSUME challenges' = [challenges EXCEPT ![i].revoked = TRUE]
      PROVE  /\ challenges'[i].uses = challenges[i].uses
             /\ challenges'[i].consumed <=> challenges[i].consumed
  BY <1>1, <1>4 DEF Challenge
<1>5. challenges[i].uses \in Nat
  BY <1>1 DEF Challenge
<1> QED BY <1>2, <1>3, <1>4, <1>5

\* While the store is free nobody is in an operation and what was used is consumed.
LEMMA StoreIsFree ==
    ASSUME CeremonyInv, StoreFree
    PROVE  /\ \A u \in Thread : local[u].pc \notin Holding
           /\ \A i \in DOMAIN challenges : challenges[i].uses <= 1
                /\ (challenges[i].uses = 1 => challenges[i].consumed)
BY IdentityAssumption DEF CeremonyInv, HolderInv, ChallengeWorksOnce, StoreFree, Holding

\* With the store free, a step after which it is free again and nothing new is used.
LEMMA FreeToFree ==
    ASSUME CeremonyInv, holder' = NoThread, \A u \in Thread : local'[u].pc \notin Holding,
           \A i \in DOMAIN challenges' : challenges'[i].uses <= 1
                /\ (challenges'[i].uses = 1 => challenges'[i].consumed)
    PROVE  HolderInv' /\ ChallengeWorksOnce'
BY IdentityAssumption DEF HolderInv, ChallengeWorksOnce, Holding

\* Issuing a challenge and revoking one.
LEMMA CeremonyIssue ==
    ASSUME CeremonyInv, RevokeChallenge \/ \E t \in Thread : Issue(t)
    PROVE  HolderInv' /\ ChallengeWorksOnce'
<1>t. TypeInv /\ challenges \in Seq(Challenge)
  BY DEF CeremonyInv, TypeInv, TypeOK
<1>f. StoreFree /\ holder' = NoThread
  BY DEF RevokeChallenge, Issue, StoreFree
<1>o. /\ \A u \in Thread : local[u].pc \notin Holding
      /\ \A i \in DOMAIN challenges : challenges[i].uses <= 1
           /\ (challenges[i].uses = 1 => challenges[i].consumed)
  BY <1>f, StoreIsFree
<1>1. CASE RevokeChallenge
  <2>1. PICK i \in DOMAIN challenges : challenges' = [challenges EXCEPT ![i].revoked = TRUE]
    BY <1>1 DEF RevokeChallenge
  <2>2. UNCHANGED local
    BY <1>1 DEF RevokeChallenge
  <2>3. /\ DOMAIN challenges' = DOMAIN challenges
        /\ \A j \in DOMAIN challenges : j # i => challenges'[j] = challenges[j]
    BY <1>t, <2>1, ChallengeUpdate
  <2>4. challenges'[i].uses = challenges[i].uses /\ (challenges'[i].consumed <=> challenges[i].consumed)
    BY <1>t, <2>1, ChallengeFields
  <2>5. \A j \in DOMAIN challenges' : challenges'[j].uses <= 1
                /\ (challenges'[j].uses = 1 => challenges'[j].consumed)
    BY <1>o, <2>3, <2>4
  <2> QED BY <1>f, <1>o, <2>2, <2>5, FreeToFree
<1>2. ASSUME NEW t \in Thread, Issue(t) PROVE HolderInv' /\ ChallengeWorksOnce'
  <2>1. PICK x \in Challenge : x.uses = 0 /\ challenges' = Append(challenges, x)
                               /\ (Return(t) \/ Goto(t, "logout"))
    BY <1>2, <1>t, IssueFacts
  <2>2. \A i \in DOMAIN challenges' :
          (i \in DOMAIN challenges /\ challenges'[i] = challenges[i]) \/ challenges'[i] = x
    BY <1>t, <2>1, SeqAppend
  <2>3. \A j \in DOMAIN challenges' : challenges'[j].uses <= 1
                /\ (challenges'[j].uses = 1 => challenges'[j].consumed)
    BY <1>o, <2>1, <2>2
  <2>4. \A u \in Thread : local'[u].pc \notin Holding
    <3>1. "logout" \in PC /\ "logout" \notin Holding /\ Idle.pc \notin Holding
      BY DEF PC, Holding, Idle
    <3> QED BY <1>t, <1>o, <2>1, <3>1, StackMoved
  <2> QED BY <1>f, <2>3, <2>4, FreeToFree
<1> QED BY <1>1, <1>2

\* consume_with
LEMMA CeremonyConsume ==
    ASSUME CeremonyInv, NEW t \in Thread, Consume(t)
    PROVE  HolderInv' /\ ChallengeWorksOnce'
<1>t. TypeInv /\ "operate" \in PC /\ t # NoThread
  BY IdentityAssumption DEF CeremonyInv, PC
<1>f. StoreFree /\ UNCHANGED challenges
  BY DEF Consume
<1>o. /\ \A u \in Thread : local[u].pc \notin Holding
      /\ \A i \in DOMAIN challenges : challenges[i].uses <= 1
           /\ (challenges[i].uses = 1 => challenges[i].consumed)
  BY <1>f, StoreIsFree
<1>1. CASE Return(t) /\ UNCHANGED holder
  <2>1. Idle.pc \notin Holding
    BY DEF Holding, Idle
  <2>2. \A u \in Thread : local'[u].pc \notin Holding
    BY <1>t, <1>o, <1>1, <2>1, StackMoved
  <2> QED BY <1>f, <1>o, <1>1, <2>2, FreeToFree DEF StoreFree
<1>2. CASE /\ IsOpen(challenges[local[t].request.challenge], local[t].request.kind, local[t].now)
           /\ Goto(t, "operate") /\ holder' = t
  <2>1. /\ \A u \in Thread : u # t => local'[u] = local[u]
        /\ local'[t].pc = "operate" /\ local'[t].request = local[t].request
        /\ local'[t].now = local[t].now
    BY <1>t, <1>2, StackMoved
  <2>2. HolderInv'
    BY <1>f, <1>o, <1>2, <2>1 DEF HolderInv, Holding
  <2>3. ChallengeWorksOnce'
    BY <1>f, <1>o DEF ChallengeWorksOnce
  <2> QED BY <2>2, <2>3
<1> QED BY <1>1, <1>2, Zenon DEF Consume

\* The operation and its end.
LEMMA CeremonyOperate ==
    ASSUME CeremonyInv, NEW t \in Thread, Operate(t) \/ Consumed(t)
    PROVE  HolderInv' /\ ChallengeWorksOnce'
<1> DEFINE i == local[t].request.challenge
<1>t. TypeInv /\ "consumed" \in PC /\ t # NoThread /\ local[t].pc \in Holding
  BY IdentityAssumption DEF CeremonyInv, PC, Operate, Consumed, Holding
<1>h. holder = t /\ \A u \in Thread : u # t => local[u].pc \notin Holding
  BY <1>t DEF CeremonyInv, HolderInv, Holding
<1>i. i \in DOMAIN challenges
  BY <1>t, TypeFacts DEF Fits, Redeeming, Holding
<1>w. /\ \A j \in DOMAIN challenges : challenges[j].uses <= 1 /\ challenges[j].uses \in Nat
      /\ \A j \in DOMAIN challenges : challenges[j].uses = 1 =>
            challenges[j].consumed \/ (local[t].pc = "consumed" /\ i = j)
  BY <1>h, <1>t, ChallengeFields DEF CeremonyInv, ChallengeWorksOnce
<1>e. Idle.pc \notin Holding
  BY DEF Holding, Idle
<1>r. ASSUME Return(t) PROVE \A u \in Thread : local'[u].pc \notin Holding
  BY <1>r, <1>h, <1>e, <1>t, StackMoved
<1>1. CASE local[t].pc = "operate" /\ UNCHANGED challenges /\ Release(t)
  <2>1. \A u \in Thread : local'[u].pc \notin Holding
    BY <1>1, <1>r DEF Release
  <2> QED BY <1>1, <1>w, <2>1, FreeToFree DEF Release
<1>2. CASE /\ local[t].pc = "operate" /\ Goto(t, "consumed") /\ UNCHANGED holder
           /\ challenges' = [challenges EXCEPT ![i].uses = @ + 1]
  <2>1. ~ challenges[i].consumed
    BY <1>2 DEF CeremonyInv, HolderInv, IsOpen
  <2>2. challenges[i].uses = 0
    BY <1>i, <1>w, <1>2, <2>1
  <2> HIDE DEF i
  <2>u. challenges'[i].uses = challenges[i].uses + 1
    BY <1>t, <1>i, <1>2, ChallengeFields
  <2>v. /\ DOMAIN challenges' = DOMAIN challenges
        /\ \A j \in DOMAIN challenges : j # i => challenges'[j] = challenges[j]
    BY <1>t, <1>i, <1>2, ChallengeUpdate
  <2>3. /\ DOMAIN challenges' = DOMAIN challenges /\ challenges'[i].uses = 1
        /\ \A j \in DOMAIN challenges : j # i => challenges'[j] = challenges[j]
    BY <2>2, <2>u, <2>v
  <2>4. /\ \A u \in Thread : u # t => local'[u] = local[u]
        /\ local'[t].pc = "consumed" /\ local'[t].request.challenge = i
    BY <1>t, <1>2, StackMoved DEF i
  <2>5. HolderInv'
    BY <1>h, <1>2, <2>4 DEF HolderInv, Holding
  <2>6. ChallengeWorksOnce'
    BY <1>t, <1>h, <1>w, <1>2, <2>3, <2>4 DEF ChallengeWorksOnce
  <2> QED BY <2>5, <2>6
<1>3. CASE Consumed(t)
  <2>1. challenges' = [challenges EXCEPT ![i].consumed = TRUE] /\ Return(t) /\ holder' = NoThread
    BY <1>3 DEF Consumed, Release
  <2>2. /\ DOMAIN challenges' = DOMAIN challenges
        /\ challenges'[i].uses = challenges[i].uses /\ challenges'[i].consumed
        /\ \A j \in DOMAIN challenges : j # i => challenges'[j] = challenges[j]
    BY <1>t, <1>i, <2>1, ChallengeUpdate, ChallengeFields
  <2>3. \A j \in DOMAIN challenges' : challenges'[j].uses <= 1
                /\ (challenges'[j].uses = 1 => challenges'[j].consumed)
    BY <1>i, <1>w, <2>2
  <2> QED BY <1>r, <2>1, <2>3, FreeToFree
<1>4. ASSUME Operate(t) PROVE HolderInv' /\ ChallengeWorksOnce'
  <2>1. local[t].pc = "operate"
    BY <1>4 DEF Operate
  <2> QED BY <1>1, <1>2, <1>4, <2>1, <1>t, OperateFacts
<1> QED BY <1>3, <1>4

\* Every step keeps the invariant of the ceremonies.
LEMMA CeremonyNext == CeremonyInv /\ [Next]_vars => CeremonyInv'
<1> SUFFICES ASSUME CeremonyInv, [Next]_vars PROVE CeremonyInv'
  OBVIOUS
<1>t. TypeInv
  BY DEF CeremonyInv
<1>n. TypeInv'
  BY <1>t, TypeNext
<1>1. ASSUME NEW t \in Thread, Start(t) PROVE HolderInv' /\ ChallengeWorksOnce'
  BY <1>1, <1>t, StartIsQuiet, CeremonyQuiet
<1>2. ASSUME NEW t \in Thread, Continue(t) PROVE HolderInv' /\ ChallengeWorksOnce'
  <2>1. CASE Issue(t)
    BY <2>1, CeremonyIssue
  <2>2. CASE Consume(t)
    BY <2>2, CeremonyConsume
  <2>3. CASE Operate(t) \/ Consumed(t)
    BY <2>3, CeremonyOperate
  <2>4. CASE ~ Issue(t) /\ ~ Consume(t) /\ ~ Operate(t) /\ ~ Consumed(t)
    BY <2>4, <1>2, <1>t, ContinueIsQuiet, CeremonyQuiet
  <2> QED BY <2>1, <2>2, <2>3, <2>4
<1>3. ASSUME RevokeChallenge PROVE HolderInv' /\ ChallengeWorksOnce'
  BY <1>3, CeremonyIssue
<1>4. ASSUME SignOut \/ SetPolicy \/ Tick \/ UNCHANGED vars
      PROVE  HolderInv' /\ ChallengeWorksOnce'
  <2>1. UNCHANGED <<challenges, holder, local>>
    BY <1>4 DEF SignOut, SetPolicy, Tick, vars
  <2> QED BY <2>1, CeremonyQuiet
<1>5. HolderInv' /\ ChallengeWorksOnce'
  BY <1>1, <1>2, <1>3, <1>4 DEF Next
<1> QED BY <1>n, <1>5 DEF CeremonyInv

\* There is nothing to use at the start.
LEMMA CeremonyInit == Init => CeremonyInv
<1> SUFFICES ASSUME Init PROVE CeremonyInv
  OBVIOUS
<1>1. TypeInv
  BY TypeInit
<1>2. HolderInv
  BY IdentityAssumption DEF Init, HolderInv, Idle
<1>3. ChallengeWorksOnce
  BY DEF Init, ChallengeWorksOnce
<1> QED BY <1>1, <1>2, <1>3 DEF CeremonyInv

\* No recovery or verification challenge ever changes an account twice, and one
\* that did is consumed as soon as the store is let go: because the check, the
\* operation and the consumption of consume_with are under one hold of the store,
\* with any number of threads replaying one token.
THEOREM ChallengeWorksOnceHolds == Spec => []ChallengeWorksOnce
<1>1. CeremonyInv => ChallengeWorksOnce
  BY DEF CeremonyInv
<1> QED BY CeremonyInit, CeremonyNext, <1>1, PTL DEF Spec

\* What is asked of a step that uses challenge i.
KeepsToPurpose(i) ==
    LET it == challenges[i]
    IN  challenges'[i].uses > it.uses =>
            /\ ~ it.revoked /\ ~ it.consumed
            /\ \E t \in Thread :
                /\ local[t].pc = "operate" /\ local[t].request.challenge = i
                /\ local[t].now < it.expires_at
            /\ IF it.kind = "PasswordReset"
               THEN accounts'[it.account].email_verified = accounts[it.account].email_verified
               ELSE accounts'[it.account].password = accounts[it.account].password

\* The operation itself.
LEMMA OperateKeepsToPurpose ==
    ASSUME CeremonyInv, NEW t \in Thread, Operate(t), NEW i \in DOMAIN challenges
    PROVE  KeepsToPurpose(i)
<1> DEFINE q == local[t].request
           n == q.challenge
           user == challenges[n].account
<1>t. TypeInv /\ local[t].pc = "operate"
  BY DEF CeremonyInv, Operate
<1>n. n \in DOMAIN challenges /\ user \in User
  BY <1>t, OperateFacts
<1>o. IsOpen(challenges[n], q.kind, local[t].now)
  BY <1>t DEF CeremonyInv, HolderInv
<1>1. CASE UNCHANGED challenges
  <2>1. challenges[i].uses \in Nat
    BY <1>t, ChallengeFields
  <2>2. ~ (challenges'[i].uses > challenges[i].uses)
    BY <1>1, <2>1
  <2> QED BY <2>2 DEF KeepsToPurpose
<1>2. CASE challenges' = [challenges EXCEPT ![n].uses = @ + 1] /\ i # n
  <2>1. challenges[i].uses \in Nat
    BY <1>t, ChallengeFields
  <2>2. challenges'[i] = challenges[i]
    BY <1>t, <1>n, <1>2, ChallengeUpdate
  <2>3. ~ (challenges'[i].uses > challenges[i].uses)
    BY <2>1, <2>2
  <2> QED BY <2>3 DEF KeepsToPurpose
<1>3. ASSUME i = n, NEW a \in Account, accounts' = [accounts EXCEPT ![user] = a],
             \/ q.kind = "PasswordReset" /\ a.email_verified = accounts[user].email_verified
             \/ q.kind = "EmailVerification" /\ a.password = accounts[user].password
      PROVE  KeepsToPurpose(i)
  <2>1. accounts'[user] = a
    BY <1>3, <1>n, <1>t, TypeFacts
  <2>2. IF challenges[i].kind = "PasswordReset"
        THEN accounts'[user].email_verified = accounts[user].email_verified
        ELSE accounts'[user].password = accounts[user].password
    <3> HIDE DEF user, q
    <3>1. challenges[i].kind = q.kind
      BY <1>o, <1>3 DEF IsOpen
    <3> QED BY <1>3, <2>1, <3>1, Zenon
  <2>3. /\ ~ challenges[i].revoked /\ ~ challenges[i].consumed
        /\ local[t].now < challenges[i].expires_at
    BY <1>o, <1>3 DEF IsOpen
  <2> QED BY <1>t, <1>3, <2>2, <2>3 DEF KeepsToPurpose
<1> QED BY <1>1, <1>2, <1>3, <1>t, OperateFacts

\* No other step uses a challenge.
LEMMA PurposeStep ==
    ASSUME CeremonyInv, [Next]_vars, NEW i \in DOMAIN challenges
    PROVE  KeepsToPurpose(i)
<1>t. TypeInv /\ challenges \in Seq(Challenge) /\ challenges[i].uses \in Nat
  BY ChallengeFields DEF CeremonyInv, TypeInv, TypeOK
<1>u. ASSUME challenges'[i].uses = challenges[i].uses PROVE KeepsToPurpose(i)
  <2>1. ~ (challenges'[i].uses > challenges[i].uses)
    BY <1>t, <1>u
  <2> QED BY <2>1 DEF KeepsToPurpose
<1>v. ASSUME NEW n \in DOMAIN challenges,
             \/ challenges' = [challenges EXCEPT ![n].consumed = TRUE]
             \/ challenges' = [challenges EXCEPT ![n].revoked = TRUE]
      PROVE  challenges'[i].uses = challenges[i].uses
  <2>1. i # n => challenges'[i] = challenges[i]
    BY <1>t, <1>v, ChallengeUpdate
  <2>2. challenges'[n].uses = challenges[n].uses
    BY <1>t, <1>v, ChallengeFields
  <2> QED BY <2>1, <2>2
<1>1. ASSUME NEW t \in Thread, Start(t) PROVE KeepsToPurpose(i)
  <2>1. UNCHANGED challenges
    BY <1>1, <1>t, StartIsQuiet DEF Quiet
  <2> QED BY <2>1, <1>u
<1>2. ASSUME NEW t \in Thread, Continue(t) PROVE KeepsToPurpose(i)
  <2>1. CASE Issue(t)
    <3>1. PICK x \in Challenge : challenges' = Append(challenges, x)
      BY <1>t, <2>1, IssueFacts
    <3>2. challenges'[i] = challenges[i]
      BY <1>t, <3>1, SeqAppend
    <3> QED BY <3>2, <1>u
  <2>2. CASE Consume(t)
    BY <2>2, <1>u DEF Consume
  <2>3. CASE Operate(t)
    BY <2>3, OperateKeepsToPurpose
  <2>4. CASE Consumed(t)
    <3>1. local[t].request.challenge \in DOMAIN challenges
      BY <1>t, <2>4, TypeFacts DEF Consumed, Fits, Redeeming
    <3>2. challenges' = [challenges EXCEPT ![local[t].request.challenge].consumed = TRUE]
      BY <2>4 DEF Consumed
    <3> QED BY <3>1, <3>2, <1>u, <1>v
  <2>5. CASE ~ Issue(t) /\ ~ Consume(t) /\ ~ Operate(t) /\ ~ Consumed(t)
    <3>1. UNCHANGED challenges
      BY <2>5, <1>2, <1>t, ContinueIsQuiet DEF Quiet
    <3> QED BY <3>1, <1>u
  <2> QED BY <2>1, <2>2, <2>3, <2>4, <2>5
<1>3. CASE RevokeChallenge
  <2>1. PICK n \in DOMAIN challenges : challenges' = [challenges EXCEPT ![n].revoked = TRUE]
    BY <1>3 DEF RevokeChallenge
  <2> QED BY <2>1, <1>u, <1>v
<1>4. CASE SignOut \/ SetPolicy \/ Tick \/ UNCHANGED vars
  <2>1. UNCHANGED challenges
    BY <1>4 DEF SignOut, SetPolicy, Tick, vars
  <2> QED BY <2>1, <1>u
<1> QED BY <1>1, <1>2, <1>3, <1>4 DEF Next

\* Whenever a challenge changes an account it is neither revoked nor consumed,
\* the request that presents it came in before its end, and the change is the one
\* the challenge is for.
THEOREM ChallengeKeepsToPurposeHolds == Spec => ChallengeKeepsToPurpose
<1>1. CeremonyInv /\ [Next]_vars => [\A i \in DOMAIN challenges : KeepsToPurpose(i)]_vars
  BY PurposeStep
<1>2. [\A i \in DOMAIN challenges : KeepsToPurpose(i)]_vars =>
        [\A i \in DOMAIN challenges :
          LET it == challenges[i]
          IN  challenges'[i].uses > it.uses =>
                /\ ~ it.revoked /\ ~ it.consumed
                /\ \E t \in Thread :
                    /\ local[t].pc = "operate" /\ local[t].request.challenge = i
                    /\ local[t].now < it.expires_at
                /\ IF it.kind = "PasswordReset"
                   THEN accounts'[it.account].email_verified = accounts[it.account].email_verified
                   ELSE accounts'[it.account].password = accounts[it.account].password]_vars
  BY DEF KeepsToPurpose
<1> QED BY <1>1, <1>2, CeremonyInit, CeremonyNext, PTL DEF Spec, ChallengeKeepsToPurpose

(***************************************************************************)
(* The course of a request                                                 *)
(***************************************************************************)

\* Where a request can go from where it is.
Follows(from, to) ==
    \/ to = "idle"
    \/ from = "idle" /\ to \in {"account", "resolve", "link", "change", "issue", "consume"}
    \/ from = "account" /\ to = "external"
    \/ from = "external" /\ to = "link_identity"
    \/ from = "link_identity" /\ to = "bind"
    \/ from = "bind" /\ to = "open"
    \/ from = "open" /\ to = "verify"
    \/ from = "verify" /\ to \in {"issue", "logout"}
    \/ from = "issue" /\ to = "logout"
    \/ from = "resolve" /\ to = "check"
    \/ from = "check" /\ to = "refuse"
    \/ from = "link" /\ to = "link_bind"
    \/ from = "consume" /\ to = "operate"
    \/ from = "operate" /\ to = "consumed"

\* One thread moves, and a request goes on with what it was asked.
Moves(t) ==
    /\ \A u \in Thread : u # t => local'[u] = local[u]
    /\ Follows(local[t].pc, local'[t].pc)
    /\ local[t].pc # "idle" /\ local'[t].pc # "idle" =>
          /\ local'[t].request = local[t].request /\ local'[t].account = local[t].account
          /\ local'[t].policy = local[t].policy
          /\ local[t].pc \in {"open", "resolve"} \/ local'[t].session = local[t].session

\* A step that puts a stack with these fields.
LEMMA MovesTo ==
    ASSUME TypeInv, NEW t \in Thread, NEW l, local' = [local EXCEPT ![t] = l],
           Follows(local[t].pc, l.pc),
           \/ l.pc = "idle" \/ local[t].pc = "idle"
           \/ /\ l.request = local[t].request /\ l.account = local[t].account
              /\ l.policy = local[t].policy
              /\ local[t].pc \in {"open", "resolve"} \/ l.session = local[t].session
    PROVE  Moves(t)
<1>1. local'[t] = l /\ \A u \in Thread : u # t => local'[u] = local[u]
  BY StackOf
<1> QED BY <1>1 DEF Moves

\* Returning and moving on.
LEMMA MovesOn ==
    ASSUME TypeInv, NEW t \in Thread, NEW pc \in PC,
           Return(t) \/ (Goto(t, pc) /\ Follows(local[t].pc, pc))
    PROVE  Moves(t)
<1>1. CASE Return(t)
  <2>1. Idle.pc = "idle"
    BY DEF Idle
  <2> QED BY <1>1, <2>1, StackMoved DEF Moves, Follows
<1>2. CASE Goto(t, pc) /\ Follows(local[t].pc, pc)
  BY <1>2, StackMoved DEF Moves
<1> QED BY <1>1, <1>2

\* Requests begin at one of these places.
LEMMA StartMoves ==
    ASSUME TypeInv, NEW t \in Thread, Start(t)
    PROVE  Moves(t) /\ local[t].pc = "idle"
<1> DEFINE First == {"account", "resolve", "link", "change", "issue", "consume", "idle"}
<1>1. local[t].pc = "idle"
  BY StartIsQuiet
<1>2. \A pc \in First : Follows(local[t].pc, pc)
  BY <1>1 DEF Follows
<1>f. \A pc \in First \ {"idle"} : pc \in First
  OBVIOUS
<1>3. \E l : l.pc \in First /\ local' = [local EXCEPT ![t] = l]
  <2>b. {"account", "resolve", "link", "change", "issue", "consume", "idle"} \subseteq First
    OBVIOUS
  <2> HIDE DEF First
  <2>1. ASSUME NEW pc \in First, NEW q, Begin(t, pc, q)
        PROVE  \E l : l.pc \in First /\ local' = [local EXCEPT ![t] = l]
    <3>1. [Idle EXCEPT !.pc = pc, !.request = q, !.now = clock].pc \in First
      BY <2>1 DEF Idle
    <3> QED BY <2>1, <3>1 DEF Begin
  <2>2. ASSUME NEW pc \in First, NEW q, WithPolicy(t, pc, q)
        PROVE  \E l : l.pc \in First /\ local' = [local EXCEPT ![t] = l]
    <3>1. [Idle EXCEPT !.pc = pc, !.request = q, !.now = clock, !.policy = policy].pc \in First
      BY <2>2 DEF Idle
    <3> QED BY <2>2, <3>1 DEF WithPolicy
  <2>3. CASE SignIn(t)
    <3>1. PICK q \in SignIns : local' = [local EXCEPT ![t] = [Idle EXCEPT !.pc = "resolve", !.request = q,
                        !.now = clock, !.account = accounts[q.user]]]
      BY <2>3 DEF SignIn
    <3>2. [Idle EXCEPT !.pc = "resolve", !.request = q, !.now = clock,
                       !.account = accounts[q.user]].pc \in First
      BY <2>b DEF Idle
    <3> QED BY <3>1, <3>2
  <2>5. CASE SignUp(t)
    BY <2>1, <2>b, <2>5 DEF SignUp
  <2>6. CASE Link(t)
    BY <2>1, <2>b, <2>6 DEF Link
  <2>7. CASE ChangePassword(t)
    BY <2>2, <2>b, <2>7 DEF ChangePassword
  <2>8. CASE RequestMail(t)
    <3>1. \E q : Begin(t, "issue", q)
      BY <2>8 DEF RequestMail
    <3> QED BY <2>1, <2>b, <3>1
  <2>9. CASE Redeem(t)
    <3>1. (\E q : Begin(t, "consume", q)) \/ (\E q : WithPolicy(t, "consume", q))
      BY <2>9 DEF Redeem
    <3> QED BY <2>1, <2>2, <2>b, <3>1
  <2>10. CASE Answer(t)
    <3>1. local' = [local EXCEPT ![t] = local[t]]
      BY <2>10, TypeFacts DEF Answer, vars
    <3> QED BY <1>1, <2>b, <3>1
  <2> QED BY <2>3, <2>5, <2>6, <2>7, <2>8, <2>9, <2>10 DEF Start
<1> HIDE DEF First
<1> QED BY <1>1, <1>2, <1>3, MovesTo

\* Requests go on along their course.
LEMMA ContinueMoves ==
    ASSUME TypeInv, NEW t \in Thread, Continue(t)
    PROVE  Moves(t)
<1>p. {"external", "link_identity", "bind", "open", "refuse", "link_bind", "logout", "operate",
       "consumed"} \subseteq PC
  BY DEF PC
<1>1. CASE SignupAccount(t)
  <2>1. local[t].pc = "account" /\ (Return(t) \/ Goto(t, "external"))
    BY <1>1 DEF SignupAccount
  <2> QED BY <2>1, <1>p, MovesOn DEF Follows
<1>2. CASE SignupExternal(t)
  <2>1. local[t].pc = "external" /\ (Return(t) \/ Goto(t, "link_identity"))
    BY <1>2 DEF SignupExternal
  <2> QED BY <2>1, <1>p, MovesOn DEF Follows
<1>3. CASE SignupIdentity(t)
  <2>1. local[t].pc = "link_identity" /\ (Return(t) \/ Goto(t, "bind"))
    BY <1>3 DEF SignupIdentity
  <2> QED BY <2>1, <1>p, MovesOn DEF Follows
<1>4. CASE SignupBind(t)
  <2>1. local[t].pc = "bind" /\ (Return(t) \/ Goto(t, "open"))
    BY <1>4 DEF SignupBind
  <2> QED BY <2>1, <1>p, MovesOn DEF Follows
<1>5. CASE SigninCheck(t)
  <2>1. local[t].pc = "check" /\ (Return(t) \/ Goto(t, "refuse"))
    BY <1>5 DEF SigninCheck
  <2> QED BY <2>1, <1>p, MovesOn DEF Follows
<1>6. CASE LinkIdentity(t)
  <2>1. local[t].pc = "link" /\ (Return(t) \/ Goto(t, "link_bind"))
    BY <1>6 DEF LinkIdentity
  <2> QED BY <2>1, <1>p, MovesOn DEF Follows
<1>7. CASE Issue(t)
  <2>1. local[t].pc = "issue" /\ (Return(t) \/ Goto(t, "logout"))
    BY <1>7 DEF Issue
  <2> QED BY <2>1, <1>p, MovesOn DEF Follows
<1>8. CASE Consume(t)
  <2>1. local[t].pc = "consume" /\ (Return(t) \/ Goto(t, "operate"))
    BY <1>8 DEF Consume
  <2> QED BY <2>1, <1>p, MovesOn DEF Follows
<1>9. CASE Operate(t)
  <2>1. local[t].pc = "operate" /\ (Return(t) \/ Goto(t, "consumed"))
    BY <1>9 DEF Operate, Release
  <2> QED BY <2>1, <1>p, MovesOn DEF Follows
<1>10. CASE SignupLogout(t) \/ SigninRefuse(t) \/ LinkBind(t) \/ ConnectorChange(t) \/ Consumed(t)
  <2>1. Return(t)
    BY <1>10 DEF SignupLogout, SigninRefuse, LinkBind, ConnectorChange, Consumed, Release
  <2> QED BY <2>1, <1>p, MovesOn
<1>11. CASE SignupOpen(t)
  <2> DEFINE l == Opened(t, "verify")
  <2>1. l.pc = "verify" /\ l.request = local[t].request /\ l.account = local[t].account
        /\ l.policy = local[t].policy
    BY TypeFacts, LocalDef DEF Opened
  <2>2. local[t].pc = "open" /\ (local' = [local EXCEPT ![t] = l] \/ Return(t))
    BY <1>11 DEF SignupOpen, CreateSession, Return
  <2> HIDE DEF l
  <2>3. CASE Return(t)
    BY <2>3, <1>p, MovesOn
  <2>4. CASE local' = [local EXCEPT ![t] = l]
    BY <2>1, <2>2, <2>4, MovesTo DEF Follows
  <2> QED BY <2>2, <2>3, <2>4
<1>12. CASE SigninOpen(t)
  <2> DEFINE l == Opened(t, "check")
  <2>1. l.pc = "check" /\ l.request = local[t].request /\ l.account = local[t].account
        /\ l.policy = local[t].policy
    BY TypeFacts, LocalDef DEF Opened
  <2>2. local[t].pc = "resolve" /\ (local' = [local EXCEPT ![t] = l] \/ Return(t))
    BY <1>12 DEF SigninOpen, CreateSession
  <2> HIDE DEF l
  <2>3. CASE Return(t)
    BY <2>3, <1>p, MovesOn
  <2>4. CASE local' = [local EXCEPT ![t] = l]
    BY <2>1, <2>2, <2>4, MovesTo DEF Follows
  <2> QED BY <2>2, <2>3, <2>4
<1>13. CASE SignupVerify(t)
  <2> DEFINE l == [local[t] EXCEPT !.now = clock,
                      !.pc = IF accounts[local[t].request.user].email THEN "issue" ELSE "logout"]
  <2>1. l.pc \in {"issue", "logout"} /\ l.request = local[t].request
        /\ l.account = local[t].account /\ l.policy = local[t].policy
        /\ l.session = local[t].session
    BY TypeFacts, LocalDef
  <2>2. local[t].pc = "verify" /\ (local' = [local EXCEPT ![t] = l] \/ Return(t))
    BY <1>13 DEF SignupVerify
  <2> HIDE DEF l
  <2>3. CASE Return(t)
    BY <2>3, <1>p, MovesOn
  <2>4. CASE local' = [local EXCEPT ![t] = l]
    BY <2>1, <2>2, <2>4, MovesTo DEF Follows
  <2> QED BY <2>2, <2>3, <2>4
<1> QED BY <1>1, <1>2, <1>3, <1>4, <1>5, <1>6, <1>7, <1>8, <1>9, <1>10, <1>11, <1>12, <1>13
        DEF Continue

(***************************************************************************)
(* Identities and bindings                                                 *)
(***************************************************************************)

Binding == {"bind", "link_bind"}

\* A step that leaves the identity stores alone and takes no thread to or from
\* the place where it binds.
LEMMA BindQuiet ==
    ASSUME BindInv, UNCHANGED <<identities, principals, bindings>>,
           \A u \in Thread : \/ local'[u] = local[u]
                             \/ local[u].pc \notin Binding /\ local'[u].pc \notin Binding
    PROVE  BindingsKnown' /\ NoOrphanIdentity'
<1>1. BindingsKnown'
  BY DEF BindInv, BindingsKnown, Binding
<1>2. NoOrphanIdentity'
  BY DEF BindInv, NoOrphanIdentity, Binding
<1> QED BY <1>1, <1>2

\* The steps that bind.
LEMMA BindSteps ==
    ASSUME BindInv, NEW t \in Thread,
           SignupIdentity(t) \/ SignupBind(t) \/ LinkIdentity(t) \/ LinkBind(t)
    PROVE  BindingsKnown' /\ NoOrphanIdentity'
<1> DEFINE q == local[t].request
<1>t. TypeInv /\ Moves(t) /\ local[t].pc # "idle"
  BY ContinueMoves DEF BindInv, Continue, SignupIdentity, SignupBind, LinkIdentity, LinkBind
<1>o. \A u \in Thread : u # t => local'[u] = local[u]
  BY <1>t DEF Moves
<1>b. bindings \in [User -> User \cup {None}] /\ identities \subseteq User /\ None \notin User
  BY LocalAccountAssumption DEF BindInv, TypeInv, TypeOK
<1>p. "bind" \in PC /\ "link_bind" \in PC /\ "open" \in PC /\ Idle.pc = "idle"
  BY DEF PC, Idle
<1>1. CASE SignupIdentity(t)
  <2>1. local[t].pc = "link_identity" /\ UNCHANGED <<principals, bindings>>
    BY <1>1 DEF SignupIdentity
  <2>2. CASE Return(t) /\ UNCHANGED identities
    <3>1. local'[t].pc = "idle"
      BY <2>2, <1>p, <1>t, StackMoved
    <3> QED BY <2>1, <2>2, <3>1, <1>o, BindQuiet DEF Binding
  <2>3. CASE Goto(t, "bind") /\ identities' = identities \cup {q.user}
    <3>1. local'[t].pc = "bind" /\ local'[t].request = q
      BY <2>3, <1>p, <1>t, StackMoved
    <3>2. BindingsKnown'
      BY <2>1, <3>1, <1>o DEF BindInv, BindingsKnown
    <3>3. NoOrphanIdentity'
      BY <2>1, <2>3, <3>1, <1>o DEF BindInv, NoOrphanIdentity
    <3> QED BY <3>2, <3>3
  <2> QED BY <1>1, <2>2, <2>3, Zenon DEF SignupIdentity
<1>2. CASE SignupBind(t)
  <2>1. /\ local[t].pc = "bind" /\ q.user \in User /\ UNCHANGED identities
        /\ principals' = principals \cup {q.user}
    BY <1>2, <1>t, TypeFacts, RequestUsers DEF SignupBind, Fits, SigningUp
  <2>2. local'[t].pc \notin Binding
    BY <1>t, <2>1 DEF Moves, Follows, Binding
  <2>3. /\ bindings' \in [User -> User \cup {None}]
        /\ \A u \in User : u # q.user => bindings'[u] = bindings[u]
        /\ bindings'[q.user] # None
        /\ bindings'[q.user] \in {q.user, bindings[q.user]}
    <3>1. CASE CanBind(q.user, q.user) /\ bindings' = [bindings EXCEPT ![q.user] = q.user]
      BY <2>1, <3>1, <1>b
    <3>2. CASE ~ CanBind(q.user, q.user) /\ UNCHANGED bindings
      BY <2>1, <3>2, <1>b DEF CanBind
    <3> QED BY <1>2, <3>1, <3>2, Zenon DEF SignupBind
  <2>4. BindingsKnown'
    BY <1>o, <2>1, <2>2, <2>3 DEF BindInv, BindingsKnown, Binding
  <2>5. NoOrphanIdentity'
    <3> SUFFICES ASSUME NEW u \in identities
                 PROVE  \/ bindings'[u] # None /\ bindings'[u] \in principals'
                        \/ \E s \in Thread : local'[s].pc \in Binding /\ local'[s].request.user = u
      BY <2>1 DEF NoOrphanIdentity, Binding
    <3>1. CASE u = q.user
      BY <2>1, <2>3, <2>4, <3>1 DEF BindingsKnown
    <3>2. CASE u # q.user /\ bindings[u] # None /\ bindings[u] \in principals
      BY <2>1, <2>3, <3>2, <1>b
    <3>3. ASSUME u # q.user, NEW s \in Thread, local[s].pc \in Binding, local[s].request.user = u
          PROVE  local'[s].pc \in Binding /\ local'[s].request.user = u
      <4>1. s # t
        BY <3>3
      <4> QED BY <1>o, <3>3, <4>1
    <3> QED BY <3>1, <3>2, <3>3 DEF BindInv, NoOrphanIdentity, Binding
  <2> QED BY <2>4, <2>5
<1>3. CASE LinkIdentity(t)
  <2>1. local[t].pc = "link" /\ UNCHANGED <<principals, bindings>>
    BY <1>3 DEF LinkIdentity
  <2>2. CASE Return(t) /\ UNCHANGED identities
    <3>1. local'[t].pc = "idle"
      BY <2>2, <1>p, <1>t, StackMoved
    <3> QED BY <2>1, <2>2, <3>1, <1>o, BindQuiet DEF Binding
  <2>3. CASE q.principal \in principals /\ Goto(t, "link_bind") /\ identities' = identities \cup {q.user}
    <3>1. local'[t].pc = "link_bind" /\ local'[t].request = q
      BY <2>3, <1>p, <1>t, StackMoved
    <3>2. BindingsKnown'
      BY <2>1, <2>3, <3>1, <1>o DEF BindInv, BindingsKnown
    <3>3. NoOrphanIdentity'
      BY <2>1, <2>3, <3>1, <1>o DEF BindInv, NoOrphanIdentity
    <3> QED BY <3>2, <3>3
  <2> QED BY <1>3, <2>2, <2>3, Zenon DEF LinkIdentity
<1>4. CASE LinkBind(t)
  <2>1. /\ local[t].pc = "link_bind" /\ q.user \in User /\ q.principal \in User
        /\ UNCHANGED <<identities, principals>> /\ Return(t)
    BY <1>4, <1>t, TypeFacts, RequestUsers DEF LinkBind, Fits
  <2>2. local'[t].pc \notin Binding
    BY <2>1, <1>p, <1>t, StackMoved DEF Binding
  <2>p. q.principal \in principals
    BY <2>1 DEF BindInv, BindingsKnown
  <2>3. /\ bindings' \in [User -> User \cup {None}]
        /\ \A u \in User : u # q.user => bindings'[u] = bindings[u]
        /\ bindings'[q.user] # None
        /\ bindings'[q.user] \in {q.principal, bindings[q.user]}
    <3>1. CASE bindings' = [bindings EXCEPT ![q.user] = q.principal]
      BY <2>1, <3>1, <1>b
    <3>2. CASE ~ CanBind(q.user, q.principal) /\ UNCHANGED bindings
      BY <2>1, <3>2, <1>b DEF CanBind
    <3> QED BY <1>4, <3>1, <3>2, Zenon DEF LinkBind
  <2>4. BindingsKnown'
    BY <1>o, <2>1, <2>2, <2>3, <2>p DEF BindInv, BindingsKnown, Binding
  <2>5. NoOrphanIdentity'
    <3> SUFFICES ASSUME NEW u \in identities
                 PROVE  \/ bindings'[u] # None /\ bindings'[u] \in principals'
                        \/ \E s \in Thread : local'[s].pc \in Binding /\ local'[s].request.user = u
      BY <2>1 DEF NoOrphanIdentity, Binding
    <3>1. CASE u = q.user
      BY <2>1, <2>3, <2>4, <3>1 DEF BindingsKnown
    <3>2. CASE u # q.user /\ bindings[u] # None /\ bindings[u] \in principals
      BY <2>1, <2>3, <3>2, <1>b
    <3>3. ASSUME u # q.user, NEW s \in Thread, local[s].pc \in Binding, local[s].request.user = u
          PROVE  local'[s].pc \in Binding /\ local'[s].request.user = u
      <4>1. s # t
        BY <3>3
      <4> QED BY <1>o, <3>3, <4>1
    <3> QED BY <3>1, <3>2, <3>3 DEF BindInv, NoOrphanIdentity, Binding
  <2> QED BY <2>4, <2>5
<1> QED BY <1>1, <1>2, <1>3, <1>4

\* Every step keeps the invariant.
LEMMA BindNext == BindInv /\ [Next]_vars => BindInv'
<1> SUFFICES ASSUME BindInv, [Next]_vars PROVE BindInv'
  OBVIOUS
<1>t. TypeInv
  BY DEF BindInv
<1>n. TypeInv'
  BY <1>t, TypeNext
<1>m. ASSUME NEW t \in Thread, Moves(t), local[t].pc \notin Binding \cup {"link", "link_identity"},
             UNCHANGED <<identities, principals, bindings>>
      PROVE  BindingsKnown' /\ NoOrphanIdentity'
  <2>1. local'[t].pc \notin Binding
    BY <1>m DEF Moves, Follows, Binding
  <2>2. \A u \in Thread : u # t => local'[u] = local[u]
    BY <1>m DEF Moves
  <2> QED BY <1>m, <2>1, <2>2, BindQuiet
<1>1. ASSUME NEW t \in Thread, Start(t) PROVE BindingsKnown' /\ NoOrphanIdentity'
  <2>1. Moves(t) /\ local[t].pc \notin Binding \cup {"link", "link_identity"}
    BY <1>1, <1>t, StartMoves DEF Binding
  <2>2. UNCHANGED <<identities, principals, bindings>>
    BY <1>1 DEF Start, SignUp, SignIn, Link, ChangePassword, RequestMail, Redeem, Answer, vars
  <2> QED BY <2>1, <2>2, <1>m
<1>2. ASSUME NEW t \in Thread, Continue(t) PROVE BindingsKnown' /\ NoOrphanIdentity'
  <2>1. CASE SignupIdentity(t) \/ SignupBind(t) \/ LinkIdentity(t) \/ LinkBind(t)
    BY <2>1, BindSteps
  <2>2. CASE ~ (SignupIdentity(t) \/ SignupBind(t) \/ LinkIdentity(t) \/ LinkBind(t))
    <3>1. /\ UNCHANGED <<identities, principals, bindings>>
          /\ local[t].pc \notin Binding \cup {"link", "link_identity"}
      BY <1>2, <2>2 DEF Continue, SignupAccount, SignupExternal, SignupOpen, SignupVerify, SignupLogout,
         SigninOpen, SigninCheck, SigninRefuse, ConnectorChange, Issue, Consume, Operate, Consumed,
         Binding
    <3>2. Moves(t)
      BY <1>2, <1>t, ContinueMoves
    <3> QED BY <3>1, <3>2, <1>m
  <2> QED BY <2>1, <2>2
<1>3. ASSUME SignOut \/ RevokeChallenge \/ SetPolicy \/ Tick \/ UNCHANGED vars
      PROVE  BindingsKnown' /\ NoOrphanIdentity'
  <2>1. UNCHANGED <<identities, principals, bindings, local>>
    BY <1>3 DEF SignOut, RevokeChallenge, SetPolicy, Tick, vars
  <2> QED BY <2>1, BindQuiet
<1>4. BindingsKnown' /\ NoOrphanIdentity'
  BY <1>1, <1>2, <1>3 DEF Next
<1> QED BY <1>n, <1>4 DEF BindInv

\* Every identity that is stored is bound to a principal that is stored, or the
\* request that is about to bind it is still running: no interleaving of sign-ups
\* and links locks a user out for good.
THEOREM NoOrphanIdentityHolds == Spec => []NoOrphanIdentity
<1>1. Init => BindInv
  <2> SUFFICES ASSUME Init PROVE BindInv
    OBVIOUS
  <2>1. TypeInv
    BY TypeInit
  <2>2. BindingsKnown /\ NoOrphanIdentity
    BY DEF Init, BindingsKnown, NoOrphanIdentity, Idle
  <2> QED BY <2>1, <2>2 DEF BindInv
<1>2. BindInv => NoOrphanIdentity
  BY DEF BindInv
<1> QED BY <1>1, <1>2, BindNext, PTL DEF Spec

(***************************************************************************)
(* Addresses                                                               *)
(***************************************************************************)

\* What a step does to the accounts: an account stays, whether its address must
\* be verified stays, and a verified address stays so; a new account must verify
\* its address only if it was given one.
LEMMA AccountsKept ==
    ASSUME TypeInv, [Next]_vars, NEW u \in User
    PROVE  /\ accounts[u] # None => CopyOfAccount(accounts[u], accounts'[u])
           /\ accounts[u] = None /\ accounts'[u] # None =>
                (accounts'[u].must_verify => EmailVerification /\ GaveAddress(u))
<1>a. accounts \in [User -> Account \cup {None}]
  BY DEF TypeInv, TypeOK
<1>u. ASSUME UNCHANGED accounts
      PROVE  /\ accounts[u] # None => CopyOfAccount(accounts[u], accounts'[u])
             /\ ~ (accounts[u] = None /\ accounts'[u] # None)
  BY <1>u DEF CopyOfAccount
<1>v. ASSUME NEW v \in User, NEW b \in Account, accounts' = [accounts EXCEPT ![v] = b],
             accounts[v] # None,
             b.must_verify <=> accounts[v].must_verify,
             accounts[v].email_verified => b.email_verified
      PROVE  /\ accounts[u] # None => CopyOfAccount(accounts[u], accounts'[u])
             /\ ~ (accounts[u] = None /\ accounts'[u] # None)
  <2>1. accounts'[v] = b /\ b # None /\ (u # v => accounts'[u] = accounts[u])
    BY <1>v, <1>a, NoneIsNoAccount
  <2> QED BY <1>v, <2>1 DEF CopyOfAccount
<1>1. ASSUME NEW t \in Thread, SignupAccount(t)
      PROVE  /\ accounts[u] # None => CopyOfAccount(accounts[u], accounts'[u])
             /\ accounts[u] = None /\ accounts'[u] # None =>
                  (accounts'[u].must_verify => EmailVerification /\ GaveAddress(u))
  <2> DEFINE q == local[t].request
             b == NewAccount(q.password, q.email, q.email /\ EmailVerification /\ q.op = "sign_up")
  <2>1. q \in SignUps /\ q.user \in User
    BY <1>1, TypeFacts, RequestUsers DEF SignupAccount, Fits, SigningUp
  <2>2. CASE accounts[q.user] = None /\ accounts' = [accounts EXCEPT ![q.user] = b]
    <3>1. accounts'[q.user] = b /\ (u # q.user => accounts'[u] = accounts[u])
      BY <2>1, <2>2, <1>a
    <3>2. b.must_verify => EmailVerification /\ q.op = "sign_up" /\ q.email
      BY DEF NewAccount
    <3>3. b.must_verify => EmailVerification /\ GaveAddress(q.user)
      BY <2>1, <3>2 DEF GaveAddress
    <3> HIDE DEF b, q
    <3> QED BY <2>2, <3>1, <3>3 DEF CopyOfAccount
  <2>3. CASE UNCHANGED accounts
    BY <2>3, <1>u
  <2> QED BY <1>1, <2>2, <2>3, Zenon DEF SignupAccount
<1>2. ASSUME NEW t \in Thread, ConnectorChange(t)
      PROVE  /\ accounts[u] # None => CopyOfAccount(accounts[u], accounts'[u])
             /\ ~ (accounts[u] = None /\ accounts'[u] # None)
  <2> DEFINE q == local[t].request
             b == WithPassword(accounts[q.user], q.new, local[t].policy, clock)
  <2>1. q.user \in User /\ q.new \in Password /\ local[t].policy \in PasswordPolicy /\ clock \in Nat
    BY <1>2, TypeFacts, RequestUsers DEF ConnectorChange, Fits
  <2>2. CASE MaySet(q.user, q.new, local[t].policy) /\ SetPassword(q.user, q.new, local[t].policy)
    <3>1. accounts[q.user] \in Account /\ accounts[q.user] # None
      BY <2>1, <2>2, <1>a DEF MaySet
    <3>2. b \in Account
      BY <2>1, <3>1, SetFacts
    <3>3. /\ b.must_verify <=> accounts[q.user].must_verify
          /\ accounts[q.user].email_verified => b.email_verified
      BY <3>1 DEF WithPassword, Account
    <3>4. accounts' = [accounts EXCEPT ![q.user] = b]
      BY <2>2 DEF SetPassword
    <3> HIDE DEF b, q
    <3> QED BY <2>1, <3>1, <3>2, <3>3, <3>4, <1>v
  <2>3. CASE UNCHANGED accounts
    BY <2>3, <1>u
  <2> QED BY <1>2, <2>2, <2>3, Zenon DEF ConnectorChange
<1>3. ASSUME NEW t \in Thread, Operate(t)
      PROVE  /\ accounts[u] # None => CopyOfAccount(accounts[u], accounts'[u])
             /\ ~ (accounts[u] = None /\ accounts'[u] # None)
  <2> DEFINE user == challenges[local[t].request.challenge].account
  <2>1. user \in User /\ accounts[user] \in Account
    BY <1>3, OperateFacts
  <2>2. \/ UNCHANGED accounts
        \/ \E b \in Account : /\ accounts' = [accounts EXCEPT ![user] = b]
                              /\ b.must_verify = accounts[user].must_verify
                              /\ b.email_verified \/ b.email_verified = accounts[user].email_verified
    BY <1>3, OperateFacts
  <2>3. ASSUME NEW b \in Account, accounts' = [accounts EXCEPT ![user] = b],
               b.must_verify = accounts[user].must_verify,
               b.email_verified \/ b.email_verified = accounts[user].email_verified
        PROVE  /\ accounts[u] # None => CopyOfAccount(accounts[u], accounts'[u])
               /\ ~ (accounts[u] = None /\ accounts'[u] # None)
    <3> HIDE DEF user
    <3>1. accounts[user] # None
      BY <2>1, NoneIsNoAccount
    <3>2. (b.must_verify <=> accounts[user].must_verify)
          /\ (accounts[user].email_verified => b.email_verified)
      BY <2>3
    <3> QED BY <2>1, <2>3, <3>1, <3>2, <1>v
  <2> HIDE DEF user
  <2> QED BY <2>2, <2>3, <1>u
<1>4. ASSUME NEW t \in Thread, Start(t) \/ Continue(t),
             ~ SignupAccount(t), ~ ConnectorChange(t), ~ Operate(t)
      PROVE  UNCHANGED accounts
  BY <1>4 DEF Start, SignUp, SignIn, Link, ChangePassword, RequestMail, Redeem, Answer, vars,
     Continue, SignupExternal, SignupIdentity, SignupBind, SignupOpen, SignupVerify, SignupLogout,
     SigninOpen, SigninCheck, SigninRefuse, LinkIdentity, LinkBind, Issue, Consume, Consumed
<1>5. ASSUME SignOut \/ RevokeChallenge \/ SetPolicy \/ Tick \/ UNCHANGED vars
      PROVE  UNCHANGED accounts
  BY <1>5 DEF SignOut, RevokeChallenge, SetPolicy, Tick, vars
<1>6. CASE UNCHANGED accounts
  BY <1>6, <1>u
<1> QED BY <1>1, <1>2, <1>3, <1>4, <1>5, <1>6 DEF Next

\* What a step does to session i of those there are.
SessionKept(i) ==
    /\ i \in DOMAIN sessions' /\ sessions'[i].identity = sessions[i].identity
    /\ sessions'[i].given => sessions[i].given
    /\ sessions[i].revoked => sessions'[i].revoked

\* A session is handed out by the request that opened it, and only once that has
\* found nothing to verify or ends the session at the same time.
HandedOut(i) ==
    /\ i \in DOMAIN sessions' /\ sessions'[i].identity = sessions[i].identity
    /\ \E t \in Thread :
        /\ local[t].session = i /\ HasSession(local[t])
        /\ \/ ~ EmailVerification
           \/ local[t].pc = "logout" /\ sessions'[i].revoked = local[t].request.email
           \/ local[t].pc = "check" /\ ~ MustVerify(local[t].account)

\* Sessions are only added, by the request that opens one.
Opens(i) ==
    \E t \in Thread :
        /\ i = Len(sessions) + 1 /\ local[t].request.user \in User
        /\ local[t].pc \in {"open", "resolve"}
        /\ sessions'[i].identity = local[t].request.user /\ ~ sessions'[i].given

\* The two ways to change a session.
LEMMA SessionFields ==
    ASSUME TypeInv, NEW i \in DOMAIN sessions, NEW b \in BOOLEAN
    PROVE  /\ sessions' = [sessions EXCEPT ![i].revoked = TRUE] => SessionKept(i)
           /\ sessions' = [sessions EXCEPT ![i].given = TRUE] =>
                i \in DOMAIN sessions' /\ sessions'[i].identity = sessions[i].identity
           /\ sessions' = [sessions EXCEPT ![i] = [@ EXCEPT !.given = TRUE, !.revoked = b]] =>
                i \in DOMAIN sessions' /\ sessions'[i].identity = sessions[i].identity
                /\ sessions'[i].revoked = b
<1>1. sessions \in Seq(Session) /\ sessions[i] \in Session
  BY SeqElement DEF TypeInv, TypeOK
<1>2. ASSUME sessions' = [sessions EXCEPT ![i].revoked = TRUE] PROVE SessionKept(i)
  <2>1. DOMAIN sessions' = DOMAIN sessions /\ sessions'[i] = [sessions[i] EXCEPT !.revoked = TRUE]
    BY <1>1, <1>2
  <2> QED BY <1>1, <2>1 DEF SessionKept, Session
<1>3. ASSUME sessions' = [sessions EXCEPT ![i].given = TRUE]
      PROVE  i \in DOMAIN sessions' /\ sessions'[i].identity = sessions[i].identity
  <2>1. DOMAIN sessions' = DOMAIN sessions /\ sessions'[i] = [sessions[i] EXCEPT !.given = TRUE]
    BY <1>1, <1>3
  <2> QED BY <1>1, <2>1 DEF Session
<1>4. ASSUME sessions' = [sessions EXCEPT ![i] = [@ EXCEPT !.given = TRUE, !.revoked = b]]
      PROVE  i \in DOMAIN sessions' /\ sessions'[i].identity = sessions[i].identity
             /\ sessions'[i].revoked = b
  <2>1. DOMAIN sessions' = DOMAIN sessions
        /\ sessions'[i] = [sessions[i] EXCEPT !.given = TRUE, !.revoked = b]
    BY <1>1, <1>4
  <2> QED BY <1>1, <2>1 DEF Session
<1> QED BY <1>2, <1>3, <1>4

\* A step keeps a session, hands it out, or opens it.
LEMMA SessionSteps ==
    ASSUME ShutOutInv, [Next]_vars
    PROVE  /\ \A i \in DOMAIN sessions : SessionKept(i) \/ HandedOut(i)
           /\ \A i \in DOMAIN sessions' \ DOMAIN sessions : Opens(i)
<1> DEFINE Goal == /\ \A i \in DOMAIN sessions : SessionKept(i) \/ HandedOut(i)
                   /\ \A i \in DOMAIN sessions' \ DOMAIN sessions : Opens(i)
<1>t. TypeInv
  BY DEF ShutOutInv
<1>u. ASSUME UNCHANGED sessions PROVE Goal
  BY <1>u DEF SessionKept
<1>1. ASSUME NEW n \in DOMAIN sessions, NEW b \in BOOLEAN,
             \/ sessions' = [sessions EXCEPT ![n].revoked = TRUE]
             \/ sessions' = [sessions EXCEPT ![n].given = TRUE] /\ HandedOut(n)
             \/ sessions' = [sessions EXCEPT ![n] = [@ EXCEPT !.given = TRUE, !.revoked = b]]
                  /\ HandedOut(n)
      PROVE  Goal
  <2>1. /\ DOMAIN sessions' = DOMAIN sessions
        /\ \A j \in DOMAIN sessions : j # n => sessions'[j] = sessions[j]
    BY <1>1, <1>t, SessionUpdate
  <2>2. SessionKept(n) \/ HandedOut(n)
    BY <1>1, <1>t, SessionFields
  <2>3. \A j \in DOMAIN sessions : j # n => SessionKept(j)
    BY <2>1 DEF SessionKept
  <2> QED BY <2>1, <2>2, <2>3
<1>2. ASSUME NEW t \in Thread, NEW next, CreateSession(t, next), local[t].request.user \in User,
             local[t].pc \in {"open", "resolve"}
      PROVE  Goal
  <2>0. /\ DOMAIN sessions' = DOMAIN sessions \cup {Len(sessions) + 1}
        /\ sessions'[Len(sessions) + 1] =
             [identity |-> local[t].request.user, expires_at |-> local[t].now + SessionLife,
              revoked |-> FALSE, given |-> FALSE]
        /\ \A j \in DOMAIN sessions : sessions'[j] = sessions[j]
    BY <1>2, <1>t, OpenSession, Zenon
  <2>1. /\ DOMAIN sessions' = DOMAIN sessions \cup {Len(sessions) + 1}
        /\ sessions'[Len(sessions) + 1].identity = local[t].request.user
        /\ ~ sessions'[Len(sessions) + 1].given
        /\ \A j \in DOMAIN sessions : sessions'[j] = sessions[j]
    BY <2>0
  <2>2. \A j \in DOMAIN sessions : SessionKept(j)
    BY <2>1 DEF SessionKept
  <2>3. \A i \in DOMAIN sessions' \ DOMAIN sessions : Opens(i)
    BY <1>2, <2>1 DEF Opens
  <2> QED BY <2>2, <2>3
<1>3. ASSUME NEW t \in Thread, HasSession(local[t])
      PROVE  local[t].session \in DOMAIN sessions
  BY <1>3 DEF ShutOutInv, SessionsKnown
<1>4. ASSUME NEW t \in Thread, SignupOpen(t) PROVE Goal
  <2>1. local[t].request.user \in User /\ local[t].pc = "open"
    BY <1>4, <1>t, TypeFacts, RequestUsers DEF SignupOpen, Fits, SigningUp
  <2> QED BY <2>1, <1>4, <1>2 DEF SignupOpen
<1>5. ASSUME NEW t \in Thread, SigninOpen(t) PROVE Goal
  <2>1. local[t].request.user \in User /\ local[t].pc = "resolve"
    BY <1>5, <1>t, TypeFacts, RequestUsers DEF SigninOpen, Fits, SigningIn
  <2>2. UNCHANGED sessions \/ CreateSession(t, Opened(t, "check"))
    BY <1>5 DEF SigninOpen
  <2> QED BY <2>1, <2>2, <1>u, <1>2
<1>6. ASSUME NEW t \in Thread, SignupVerify(t) PROVE Goal
  <2>1. CASE UNCHANGED sessions
    BY <2>1, <1>u
  <2>2. CASE ~ EmailVerification /\ sessions' = [sessions EXCEPT ![local[t].session].given = TRUE]
    <3>1. HasSession(local[t])
      BY <1>6 DEF SignupVerify, HasSession
    <3>2. local[t].session \in DOMAIN sessions
      BY <3>1, <1>3
    <3>3. HandedOut(local[t].session)
      BY <1>t, <2>2, <3>1, <3>2, SessionFields DEF HandedOut
    <3> QED BY <2>2, <3>2, <3>3, <1>1
  <2> QED BY <1>6, <2>1, <2>2, Zenon DEF SignupVerify, Give
<1>7. ASSUME NEW t \in Thread, SignupLogout(t) PROVE Goal
  <2>1. local[t].request.email \in BOOLEAN /\ local[t].pc = "logout"
    BY <1>7, <1>t, TypeFacts, RequestUsers DEF SignupLogout, Fits, SigningUp
  <2>2. HasSession(local[t])
    BY <2>1 DEF HasSession
  <2>3. sessions' = [sessions EXCEPT ![local[t].session] =
                        [@ EXCEPT !.given = TRUE, !.revoked = local[t].request.email]]
    BY <1>7 DEF SignupLogout
  <2>4. local[t].session \in DOMAIN sessions
    BY <2>2, <1>3
  <2>5. HandedOut(local[t].session)
    BY <1>t, <2>1, <2>2, <2>3, <2>4, SessionFields DEF HandedOut
  <2> QED BY <2>1, <2>3, <2>4, <2>5, <1>1
<1>8. ASSUME NEW t \in Thread, SigninCheck(t) PROVE Goal
  <2>1. CASE UNCHANGED sessions
    BY <2>1, <1>u
  <2>2. CASE /\ ~ MustVerify(local[t].account)
             /\ sessions' = [sessions EXCEPT ![local[t].session].given = TRUE]
    <3>1. HasSession(local[t]) /\ local[t].pc = "check"
      BY <1>8 DEF SigninCheck, HasSession
    <3>2. local[t].session \in DOMAIN sessions
      BY <3>1, <1>3
    <3>3. HandedOut(local[t].session)
      BY <1>t, <2>2, <3>1, <3>2, SessionFields DEF HandedOut
    <3> QED BY <2>2, <3>2, <3>3, <1>1
  <2> QED BY <1>8, <2>1, <2>2, Zenon DEF SigninCheck, Give
<1>9. ASSUME NEW t \in Thread, SigninRefuse(t) PROVE Goal
  <2>1. local[t].session \in DOMAIN sessions
    BY <1>9, <1>3 DEF SigninRefuse, HasSession
  <2>2. sessions' = [sessions EXCEPT ![local[t].session].revoked = TRUE]
    BY <1>9 DEF SigninRefuse
  <2> QED BY <2>1, <2>2, <1>1
<1>10. ASSUME SignOut PROVE Goal
  <2>1. PICK n \in DOMAIN sessions : sessions' = [sessions EXCEPT ![n].revoked = TRUE]
    BY <1>10 DEF SignOut
  <2> QED BY <2>1, <1>1
<1>11. ASSUME NEW t \in Thread, Start(t) \/ Continue(t), ~ SignupOpen(t), ~ SigninOpen(t),
              ~ SignupVerify(t), ~ SignupLogout(t), ~ SigninCheck(t), ~ SigninRefuse(t)
       PROVE  UNCHANGED sessions
  BY <1>11 DEF Start, SignUp, SignIn, Link, ChangePassword, RequestMail, Redeem, Answer, vars,
     Continue, SignupAccount, SignupExternal, SignupIdentity, SignupBind, LinkIdentity, LinkBind,
     ConnectorChange, Issue, Consume, Operate, Consumed
<1>12. ASSUME RevokeChallenge \/ SetPolicy \/ Tick \/ UNCHANGED vars PROVE UNCHANGED sessions
  BY <1>12 DEF RevokeChallenge, SetPolicy, Tick, vars
<1> HIDE DEF Goal
<1>13. Goal
  BY <1>u, <1>4, <1>5, <1>6, <1>7, <1>8, <1>9, <1>10, <1>11, <1>12 DEF Next
<1> QED BY <1>13 DEF Goal

\* What the request of a sign-up or sign-in looks like where it has a session.
LEMMA WithSession ==
    ASSUME ShutOutInv, NEW t \in Thread, HasSession(local[t])
    PROVE  /\ local[t].request.user \in User
           /\ local[t].session \in DOMAIN sessions
           /\ sessions[local[t].session].identity = local[t].request.user
           /\ accounts[local[t].request.user] # None
           /\ local[t].pc = "logout" =>
                 local[t].request \in SignUps /\ local[t].request.op = "sign_up"
<1>1. Fits(local[t], accounts, challenges)
  BY TypeFacts DEF ShutOutInv
<1>2. /\ local[t].session \in DOMAIN sessions
      /\ sessions[local[t].session].identity = local[t].request.user
      /\ local[t].request \in SignUps => local[t].request.op = "sign_up"
  BY DEF ShutOutInv, SessionsKnown
<1>3. accounts[local[t].request.user] # None
  BY <1>2 DEF ShutOutInv, SessionsKnown
<1>4. local[t].request \in SignUps \cup SignIns
  BY <1>1 DEF HasSession, Fits, SigningUp, SigningIn
<1>5. local[t].pc = "logout" => local[t].request \in SignUps
  BY <1>1 DEF Fits, SigningUp
<1> QED BY <1>2, <1>3, <1>4, <1>5, RequestUsers

\* No step gives an unverified account a live session.
LEMMA ShutOutStep ==
    ASSUME OneAddressEach, ShutOutInv, [Next]_vars
    PROVE  UnverifiedIsShutOut'
<1> SUFFICES ASSUME NEW i \in DOMAIN sessions',
                    sessions'[i].given, ~ sessions'[i].revoked,
                    accounts'[sessions'[i].identity].must_verify
             PROVE  accounts'[sessions'[i].identity].email_verified
  BY DEF UnverifiedIsShutOut
<1>t. TypeInv /\ sessions \in Seq(Session)
  BY DEF ShutOutInv, TypeInv, TypeOK
<1>1. i \in DOMAIN sessions
  BY SessionSteps DEF Opens
<1> DEFINE u == sessions[i].identity
<1>2. u \in User /\ accounts[u] # None
  <2>1. sessions[i] \in Session
    BY <1>t, <1>1, SeqElement
  <2> QED BY <1>1, <2>1 DEF Session, ShutOutInv, SessionsKnown
<1>3. CopyOfAccount(accounts[u], accounts'[u])
  BY <1>t, <1>2, AccountsKept
<1>4. SessionKept(i) \/ HandedOut(i)
  BY <1>1, SessionSteps
<1>5. sessions'[i].identity = u
  BY <1>4 DEF SessionKept, HandedOut
<1>6. accounts[u].must_verify
  BY <1>3, <1>5 DEF CopyOfAccount
<1>7. EmailVerification /\ GaveAddress(u)
  BY <1>2, <1>6 DEF ShutOutInv, AddressFromSignUp
<1>8. accounts[u].email_verified
  <2>1. CASE SessionKept(i)
    BY <1>1, <1>6, <2>1 DEF SessionKept, ShutOutInv, UnverifiedIsShutOut
  <2>2. CASE HandedOut(i)
    <3>1. PICK t \in Thread :
            /\ local[t].session = i /\ HasSession(local[t])
            /\ \/ ~ EmailVerification
               \/ local[t].pc = "logout" /\ sessions'[i].revoked = local[t].request.email
               \/ local[t].pc = "check" /\ ~ MustVerify(local[t].account)
      BY <2>2 DEF HandedOut
    <3>2. local[t].request.user = u
      BY <3>1, WithSession
    <3>3. ~ (local[t].pc = "logout" /\ sessions'[i].revoked = local[t].request.email)
      <4> SUFFICES ASSUME local[t].pc = "logout", sessions'[i].revoked = local[t].request.email
                   PROVE  FALSE
        OBVIOUS
      <4>1. local[t].request \in SignUps /\ local[t].request.op = "sign_up"
        BY <3>1, WithSession
      <4>2. PICK q \in SignUps : q.op = "sign_up" /\ q.user = u /\ q.email
        BY <1>7 DEF GaveAddress
      <4>3. local[t].request.email = q.email
        BY <3>2, <4>1, <4>2 DEF OneAddressEach
      <4> QED BY <4>2, <4>3
    <3>4. local[t].pc = "check" /\ ~ MustVerify(local[t].account)
      BY <1>7, <3>1, <3>3
    <3>5. CopyOfAccount(local[t].account, accounts[u])
      BY <3>2, <3>4 DEF ShutOutInv, SignInCopies, SigningIn
    <3> QED BY <1>6, <1>7, <3>4, <3>5 DEF MustVerify, CopyOfAccount
  <2> QED BY <1>4, <2>1, <2>2
<1> QED BY <1>3, <1>5, <1>8 DEF CopyOfAccount

\* A step moves one thread or none.
LEMMA OneMoves ==
    ASSUME TypeInv, [Next]_vars
    PROVE  \/ UNCHANGED local
           \/ \E t \in Thread : Moves(t) /\ (Start(t) \/ Continue(t))
<1>1. ASSUME SignOut \/ RevokeChallenge \/ SetPolicy \/ Tick \/ UNCHANGED vars
      PROVE  UNCHANGED local
  BY <1>1 DEF SignOut, RevokeChallenge, SetPolicy, Tick, vars
<1> QED BY <1>1, StartMoves, ContinueMoves DEF Next

\* A sign-in goes by a copy of the account it authenticated against.
LEMMA CopiesStep ==
    ASSUME ShutOutInv, [Next]_vars
    PROVE  SignInCopies'
<1> SUFFICES ASSUME NEW u \in Thread, local'[u].pc \in SigningIn
             PROVE  CopyOfAccount(local'[u].account, accounts'[local'[u].request.user])
  BY DEF SignInCopies
<1>t. TypeInv
  BY DEF ShutOutInv
<1>1. ASSUME local[u].pc \in SigningIn, local'[u].account = local[u].account,
             local'[u].request = local[u].request
      PROVE  CopyOfAccount(local'[u].account, accounts'[local'[u].request.user])
  <2> DEFINE v == local[u].request.user
  <2>1. v \in User
    BY <1>1, <1>t, TypeFacts, RequestUsers DEF Fits
  <2>2. CopyOfAccount(local[u].account, accounts[v])
    BY <1>1 DEF ShutOutInv, SignInCopies
  <2>3. CopyOfAccount(accounts[v], accounts'[v])
    BY <1>t, <2>1, <2>2, AccountsKept DEF CopyOfAccount
  <2> QED BY <1>1, <2>2, <2>3 DEF CopyOfAccount
<1>2. CASE local'[u] = local[u]
  BY <1>1, <1>2
<1>3. CASE Moves(u) /\ local[u].pc # "idle"
  <2>1. local[u].pc \in SigningIn
    BY <1>3 DEF Moves, Follows, SigningIn
  <2> QED BY <1>1, <1>3, <2>1 DEF Moves, SigningIn
<1>4. CASE SignIn(u)
  <2>1. PICK q \in SignIns : Authenticates(q.user, q.password) /\
          local' = [local EXCEPT ![u] = [Idle EXCEPT !.pc = "resolve", !.request = q,
                        !.now = clock, !.account = accounts[q.user]]]
    BY <1>4 DEF SignIn
  <2>2. local'[u] = [Idle EXCEPT !.pc = "resolve", !.request = q,
                        !.now = clock, !.account = accounts[q.user]]
    BY <2>1, <1>t, StackOf
  <2>3. local'[u].account = accounts[q.user] /\ local'[u].request = q
    BY <2>2 DEF Idle
  <2>4. accounts[q.user] # None /\ UNCHANGED accounts
    BY <1>4, <2>1 DEF Authenticates, SignIn
  <2> QED BY <2>3, <2>4 DEF CopyOfAccount
<1>5. ASSUME Start(u), ~ SignIn(u), ~ Answer(u) PROVE FALSE
  <2>0. \A pc \in {"account", "link", "change", "issue", "consume"} : pc \notin SigningIn
    BY DEF SigningIn
  <2>1. ASSUME NEW pc \in {"account", "link", "change", "issue", "consume"}, NEW q, Begin(u, pc, q)
        PROVE  FALSE
    <3>1. local'[u] = [Idle EXCEPT !.pc = pc, !.request = q, !.now = clock]
      BY <2>1, <1>t, StackOf DEF Begin
    <3>2. local'[u].pc = pc
      BY <3>1 DEF Idle
    <3> QED BY <2>0, <3>2
  <2>2. ASSUME NEW pc \in {"account", "link", "change", "issue", "consume"}, NEW q, WithPolicy(u, pc, q)
        PROVE  FALSE
    <3>1. local'[u] = [Idle EXCEPT !.pc = pc, !.request = q, !.now = clock, !.policy = policy]
      BY <2>2, <1>t, StackOf DEF WithPolicy
    <3>2. local'[u].pc = pc
      BY <3>1 DEF Idle
    <3> QED BY <2>0, <3>2
  <2>3. \/ \E pc \in {"account", "link", "change", "issue", "consume"} : \E q : Begin(u, pc, q)
        \/ \E pc \in {"account", "link", "change", "issue", "consume"} : \E q : WithPolicy(u, pc, q)
    BY <1>5 DEF Start, SignUp, Link, ChangePassword, RequestMail, Redeem
  <2> QED BY <2>1, <2>2, <2>3
<1>6. ASSUME Answer(u) PROVE local'[u] = local[u]
  BY <1>6 DEF Answer, vars
<1>7. ASSUME Continue(u) PROVE local[u].pc # "idle"
  BY <1>7 DEF Continue, SignupAccount, SignupExternal, SignupIdentity, SignupBind, SignupOpen,
     SignupVerify, SignupLogout, SigninOpen, SigninCheck, SigninRefuse, LinkIdentity, LinkBind,
     ConnectorChange, Issue, Consume, Operate, Consumed
<1>8. CASE Moves(u) /\ (Start(u) \/ Continue(u))
  BY <1>2, <1>3, <1>4, <1>5, <1>6, <1>7, <1>8
<1>9. ASSUME NEW t \in Thread, t # u, Moves(t) PROVE local'[u] = local[u]
  BY <1>9 DEF Moves
<1> QED BY <1>t, <1>2, <1>8, <1>9, OneMoves

\* A request that opens a session remembers which it is.
LEMMA SessionOpened ==
    ASSUME TypeInv, NEW t \in Thread, SignupOpen(t) \/ SigninOpen(t), local'[t].pc # "idle"
    PROVE  /\ local'[t].session \in DOMAIN sessions'
           /\ sessions'[local'[t].session].identity = local'[t].request.user
           /\ local'[t].request \in SignUps => local'[t].request.op = "sign_up"
<1> DEFINE n == Len(sessions) + 1
<1>1. local[t].request.user \in User /\ local[t].request \in SignUps \cup SignIns
      /\ (SigninOpen(t) => local[t].request \in SignIns)
  BY TypeFacts, RequestUsers DEF SignupOpen, SigninOpen, Fits, SigningUp, SigningIn
<1>2. PICK pc \in {"verify", "check"} :
        /\ \E next : CreateSession(t, next)
        /\ local' = [local EXCEPT ![t] = Opened(t, pc)]
        /\ SignupOpen(t) => local[t].request.op # "studio"
  <2>1. Idle.pc = "idle"
    BY DEF Idle
  <2>2. ~ Return(t) /\ local' # [local EXCEPT ![t] = Idle]
    BY <2>1, StackOf DEF Return
  <2>3. CASE SignupOpen(t)
    <3>1. CreateSession(t, IF local[t].request.op = "studio" THEN Idle ELSE Opened(t, "verify"))
      BY <2>3 DEF SignupOpen
    <3>2. CASE local[t].request.op = "studio"
      BY <2>2, <3>1, <3>2 DEF CreateSession
    <3>3. CASE local[t].request.op # "studio"
      BY <2>2, <3>1, <3>3, <2>3 DEF CreateSession
    <3> QED BY <3>2, <3>3
  <2>4. CASE ~ SignupOpen(t)
    <3>1. CreateSession(t, Opened(t, "check"))
      BY <2>2, <2>4 DEF SigninOpen
    <3> QED BY <2>2, <2>4, <3>1 DEF CreateSession
  <2> QED BY <2>3, <2>4
<1>3. /\ DOMAIN sessions' = DOMAIN sessions \cup {n}
      /\ sessions'[n] = [identity |-> local[t].request.user, expires_at |-> local[t].now + SessionLife,
                         revoked |-> FALSE, given |-> FALSE]
  <2>1. PICK next : CreateSession(t, next)
    BY <1>2
  <2> QED BY <2>1, <1>1, OpenSession, Zenon
<1>4. local'[t] = Opened(t, pc)
  BY <1>2, StackOf
<1>5. local'[t].session = n /\ local'[t].request = local[t].request
  BY <1>4, TypeFacts, LocalDef DEF Opened
<1>6. sessions'[n].identity = local[t].request.user
  BY <1>3
<1>7. local[t].request \in SignUps => local[t].request.op = "sign_up"
  <2>1. \A q \in SignIns : q.op = "sign_in"
    BY IdentityAssumption DEF SignInRequest
  <2>2. SignupOpen(t) \/ local[t].request \in SignIns
    BY <1>1
  <2> QED BY <1>2, <2>1, <2>2, RequestUsers
<1> HIDE DEF n
<1> QED BY <1>3, <1>5, <1>6, <1>7

\* Requests know their sessions.
LEMMA SessionsKnownStep ==
    ASSUME ShutOutInv, [Next]_vars
    PROVE  SessionsKnown'
<1>t. TypeInv /\ sessions \in Seq(Session)
  BY DEF ShutOutInv, TypeInv, TypeOK
<1>1. ASSUME NEW i \in DOMAIN sessions
      PROVE  /\ i \in DOMAIN sessions' /\ sessions'[i].identity = sessions[i].identity
             /\ accounts'[sessions'[i].identity] # None
  <2>1. i \in DOMAIN sessions' /\ sessions'[i].identity = sessions[i].identity
    BY SessionSteps DEF SessionKept, HandedOut
  <2>2. sessions[i] \in Session
    BY <1>t, SeqElement
  <2>3. sessions[i].identity \in User /\ accounts[sessions[i].identity] # None
    BY <2>2 DEF Session, ShutOutInv, SessionsKnown
  <2>4. accounts'[sessions[i].identity] # None
    BY <1>t, <2>3, AccountsKept DEF CopyOfAccount
  <2> QED BY <2>1, <2>4
<1>2. ASSUME NEW i \in DOMAIN sessions' PROVE accounts'[sessions'[i].identity] # None
  <2>1. CASE i \in DOMAIN sessions
    BY <2>1, <1>1
  <2>2. CASE i \notin DOMAIN sessions
    <3>1. PICK t \in Thread :
            /\ local[t].request.user \in User /\ local[t].pc \in {"open", "resolve"}
            /\ sessions'[i].identity = local[t].request.user
      BY <2>2, SessionSteps DEF Opens
    <3>2. CASE local[t].pc = "open"
      <4>1. accounts[local[t].request.user] # None
        BY <3>2, <1>t, TypeFacts DEF Fits, SigningUp
      <4> QED BY <1>t, <3>1, <4>1, AccountsKept DEF CopyOfAccount
    <3>3. CASE local[t].pc = "resolve"
      <4>1. accounts[local[t].request.user] # None
        BY <3>3 DEF ShutOutInv, SignInCopies, SigningIn, CopyOfAccount
      <4> QED BY <1>t, <3>1, <4>1, AccountsKept DEF CopyOfAccount
    <3> QED BY <3>1, <3>2, <3>3
  <2> QED BY <2>1, <2>2
<1>3. ASSUME NEW u \in Thread, HasSession(local'[u])
      PROVE  /\ local'[u].session \in DOMAIN sessions'
             /\ sessions'[local'[u].session].identity = local'[u].request.user
             /\ local'[u].request \in SignUps => local'[u].request.op = "sign_up"
  <2>1. ASSUME HasSession(local[u]), local'[u].session = local[u].session,
               local'[u].request = local[u].request
        PROVE  /\ local'[u].session \in DOMAIN sessions'
               /\ sessions'[local'[u].session].identity = local'[u].request.user
               /\ local'[u].request \in SignUps => local'[u].request.op = "sign_up"
    <3>1. /\ local[u].session \in DOMAIN sessions
          /\ sessions[local[u].session].identity = local[u].request.user
          /\ local[u].request \in SignUps => local[u].request.op = "sign_up"
      BY <2>1 DEF ShutOutInv, SessionsKnown
    <3> QED BY <2>1, <3>1, <1>1
  <2>2. CASE local'[u] = local[u]
    BY <2>1, <2>2, <1>3
  <2>p. local'[u].pc \in {"verify", "logout", "check", "refuse", "issue"}
    BY <1>3 DEF HasSession
  <2>3. ASSUME Moves(u), local[u].pc \notin {"idle", "open", "resolve"}
        PROVE  HasSession(local[u]) /\ local'[u].session = local[u].session
               /\ local'[u].request = local[u].request
    <3>1. local'[u].session = local[u].session /\ local'[u].request = local[u].request
      BY <2>3, <2>p DEF Moves
    <3>2. local[u].pc \in {"verify", "issue", "check"} /\ Follows(local[u].pc, local'[u].pc)
      BY <2>3, <2>p DEF Moves, Follows
    <3>3. local[u].pc = "issue" => local[u].request \in SignUps
      <4>1. local[u].pc = "issue" => local'[u].pc = "logout"
        BY <3>2, <2>p DEF Follows
      <4>2. local'[u].pc = "logout" => local'[u].request \in SignUps
        <5>1. TypeInv'
          BY <1>t, TypeNext
        <5> QED BY <5>1 DEF TypeInv, Fits, SigningUp
      <4> QED BY <3>1, <4>1, <4>2
    <3> QED BY <3>1, <3>2, <3>3 DEF HasSession
  <2>4. ASSUME Continue(u), local[u].pc \in {"open", "resolve"} PROVE SignupOpen(u) \/ SigninOpen(u)
    BY <2>4 DEF Continue, SignupAccount, SignupExternal, SignupIdentity, SignupBind, SignupOpen,
       SignupVerify, SignupLogout, SigninOpen, SigninCheck, SigninRefuse, LinkIdentity, LinkBind,
       ConnectorChange, Issue, Consume, Operate, Consumed
  <2>5. ASSUME Start(u) PROVE FALSE
    <3>1. Moves(u) /\ local[u].pc = "idle"
      BY <1>t, <2>5, StartMoves
    <3>2. local'[u].pc = "issue" /\ local'[u].request \in SignUps
      BY <1>3, <2>p, <3>1 DEF HasSession, Moves, Follows
    <3>3. RequestMail(u)
      <4>0. \A pc \in {"account", "link", "change", "consume", "resolve", "idle"} : pc # "issue"
        OBVIOUS
      <4>1. ASSUME NEW pc \in {"account", "link", "consume"}, NEW q, Begin(u, pc, q) PROVE FALSE
        <5>1. local'[u] = [Idle EXCEPT !.pc = pc, !.request = q, !.now = clock]
          BY <4>1, <1>t, StackOf DEF Begin
        <5>2. local'[u].pc = pc
          BY <5>1 DEF Idle
        <5> QED BY <3>2, <4>0, <5>2
      <4>2. ASSUME NEW pc \in {"change", "consume"}, NEW q, WithPolicy(u, pc, q) PROVE FALSE
        <5>1. local'[u] = [Idle EXCEPT !.pc = pc, !.request = q, !.now = clock, !.policy = policy]
          BY <4>2, <1>t, StackOf DEF WithPolicy
        <5>2. local'[u].pc = pc
          BY <5>1 DEF Idle
        <5> QED BY <3>2, <4>0, <5>2
      <4>3. ASSUME SignIn(u) PROVE FALSE
        <5>1. PICK q \in SignIns : local' = [local EXCEPT ![u] = [Idle EXCEPT !.pc = "resolve",
                        !.request = q, !.now = clock, !.account = accounts[q.user]]]
          BY <4>3 DEF SignIn
        <5>2. local'[u] = [Idle EXCEPT !.pc = "resolve", !.request = q, !.now = clock,
                                       !.account = accounts[q.user]]
          BY <5>1, <1>t, StackOf
        <5>3. local'[u].pc = "resolve"
          BY <5>2 DEF Idle
        <5> QED BY <3>2, <5>3
      <4>4. ASSUME Answer(u) PROVE FALSE
        BY <4>4, <3>1, <3>2 DEF Answer, vars
      <4>5. \/ \E pc \in {"account", "link", "consume"} : \E q : Begin(u, pc, q)
            \/ \E pc \in {"change", "consume"} : \E q : WithPolicy(u, pc, q)
            \/ SignIn(u) \/ RequestMail(u) \/ Answer(u)
        BY <2>5 DEF Start, SignUp, Link, ChangePassword, Redeem
      <4> QED BY <4>1, <4>2, <4>3, <4>4, <4>5
    <3>4. PICK q : q.op = "mail" /\ Begin(u, "issue", q)
      <4>1. PICK user \in User, kind \in CeremonyKind :
              Begin(u, "issue", [op |-> "mail", user |-> user, kind |-> kind])
        BY <3>3 DEF RequestMail
      <4>2. [op |-> "mail", user |-> user, kind |-> kind].op = "mail"
        OBVIOUS
      <4> QED BY <4>1, <4>2
    <3>5. local'[u] = [Idle EXCEPT !.pc = "issue", !.request = q, !.now = clock]
      BY <3>4, <1>t, StackOf DEF Begin
    <3>6. local'[u].request = q
      BY <3>5 DEF Idle
    <3> QED BY <3>2, <3>4, <3>6, RequestUsers
  <2>6. ASSUME Continue(u) PROVE local[u].pc # "idle"
    BY <2>6 DEF Continue, SignupAccount, SignupExternal, SignupIdentity, SignupBind, SignupOpen,
       SignupVerify, SignupLogout, SigninOpen, SigninCheck, SigninRefuse, LinkIdentity, LinkBind,
       ConnectorChange, Issue, Consume, Operate, Consumed
  <2>7. CASE Moves(u) /\ (Start(u) \/ Continue(u))
    <3>1. CASE local[u].pc \in {"open", "resolve"}
      <4>1. SignupOpen(u) \/ SigninOpen(u)
        BY <2>4, <2>5, <2>7, <3>1
      <4>2. local'[u].pc # "idle"
        BY <2>p
      <4> QED BY <4>1, <4>2, <1>t, SessionOpened
    <3>2. CASE local[u].pc \notin {"open", "resolve"}
      BY <2>1, <2>3, <2>5, <2>6, <2>7, <3>2
    <3> QED BY <3>1, <3>2
  <2>8. ASSUME NEW t \in Thread, t # u, Moves(t) PROVE local'[u] = local[u]
    BY <2>8 DEF Moves
  <2> QED BY <1>t, <2>2, <2>7, <2>8, OneMoves
<1> QED BY <1>2, <1>3 DEF SessionsKnown, HasSession

\* Every step keeps the invariant.
LEMMA ShutOutNext ==
    ASSUME OneAddressEach, ShutOutInv, [Next]_vars
    PROVE  ShutOutInv'
<1>1. TypeInv'
  BY TypeNext DEF ShutOutInv
<1>2. SessionsKnown' /\ SignInCopies' /\ UnverifiedIsShutOut'
  BY SessionsKnownStep, CopiesStep, ShutOutStep
<1>3. AddressFromSignUp'
  <2> SUFFICES ASSUME NEW u \in User, accounts'[u] # None, accounts'[u].must_verify
               PROVE  EmailVerification /\ GaveAddress(u)
    BY DEF AddressFromSignUp, GaveAddress
  <2>1. CASE accounts[u] = None
    BY <2>1, AccountsKept DEF ShutOutInv
  <2>2. CASE accounts[u] # None
    <3>1. CopyOfAccount(accounts[u], accounts'[u])
      BY <2>2, AccountsKept DEF ShutOutInv
    <3> QED BY <2>2, <3>1 DEF CopyOfAccount, ShutOutInv, AddressFromSignUp
  <2> QED BY <2>1, <2>2
<1> QED BY <1>1, <1>2, <1>3 DEF ShutOutInv

\* Where all who sign up for an account agree on whether it has an address, no
\* client ever holds a live session of an account whose address is still to be
\* verified, whatever verifications, sign-ins and sign-outs run at once.
THEOREM UnverifiedIsShutOutHolds == OneAddressEach => (Spec => []UnverifiedIsShutOut)
<1> SUFFICES ASSUME OneAddressEach PROVE Spec => []UnverifiedIsShutOut
  OBVIOUS
<1>1. Init => ShutOutInv
  <2> SUFFICES ASSUME Init PROVE ShutOutInv
    OBVIOUS
  <2>1. TypeInv
    BY TypeInit
  <2>2. SessionsKnown /\ SignInCopies /\ UnverifiedIsShutOut
    BY DEF Init, SessionsKnown, HasSession, SignInCopies, SigningIn, UnverifiedIsShutOut, Idle
  <2>3. AddressFromSignUp
    BY DEF Init, AddressFromSignUp
  <2> QED BY <2>1, <2>2, <2>3 DEF ShutOutInv
<1>2. ShutOutInv /\ [Next]_vars => ShutOutInv'
  BY ShutOutNext
<1>3. ShutOutInv => UnverifiedIsShutOut
  BY DEF ShutOutInv
<1> QED BY <1>1, <1>2, <1>3, PTL DEF Spec

(***************************************************************************)
(* Passwords                                                               *)
(***************************************************************************)

\* A set of numbers that is not empty has a least one.
LEMMA LeastNumber ==
    ASSUME NEW T, T \subseteq Nat, T # {}
    PROVE  \E n \in T : \A m \in T : n <= m
<1>1. \E x \in T : \A y \in T : ~ (<<y, x>> \in OpToRel(<, Nat))
  BY NatLessThanWellFounded, WFMin
<1>2. PICK x \in T : \A y \in T : ~ (<<y, x>> \in OpToRel(<, Nat))
  BY <1>1
<1>3. ASSUME NEW y \in T PROVE x <= y
  <2>1. ~ (y < x)
    BY <1>2 DEF OpToRel
  <2> QED BY <2>1
<1> QED BY <1>3

\* KeptPasswords is what it says.
LEMMA KeptFacts ==
    /\ KeptPasswords \in Nat
    /\ \A p \in Policies : KeptPasswords <= p.password_history_count /\ p \in PasswordPolicy
                           /\ p.password_history_count \in Nat
<1> DEFINE T == {p.password_history_count : p \in LivePasswords \cup {ContractPolicy}}
<1>1. Policies \subseteq PasswordPolicy
  BY IdentityAssumption DEF Policies
<1>2. \A p \in Policies : p \in PasswordPolicy /\ p.password_history_count \in Nat
  BY <1>1 DEF PasswordPolicy
<1>3. T \subseteq Nat /\ T # {}
  BY <1>2 DEF Policies
<1>4. PICK n \in T : \A m \in T : n <= m
  BY <1>3, LeastNumber
<1>5. \A p \in Policies : n <= p.password_history_count
  BY <1>4 DEF Policies
<1>6. KeptPasswords \in T /\ \A p \in Policies : KeptPasswords <= p.password_history_count
  BY <1>4, <1>5 DEF KeptPasswords, Policies
<1> QED BY <1>2, <1>3, <1>6

\* No password is one of those that are kept.
Fresh(a) ==
    \A k \in 1..Least(KeptPasswords + 1, Len(a.past)) : a.past[k] # a.password

\* What set_password leaves is again a history of the past and a fresh password.
LEMMA SetKeepsHistory ==
    ASSUME NEW a \in Account, NEW new \in Password, NEW p \in Policies, NEW now \in Nat,
           HistoryIsPast(a), ~ matches_current_or_history(a, new, p.password_history_count)
    PROVE  LET b == WithPassword(a, new, p, now) IN HistoryIsPast(b) /\ Fresh(b)
<1> DEFINE K == KeptPasswords
           c == p.password_history_count
           h == a.password_history
           e == a.past
           w == <<a.password>> \o h
           g == Take(w, c)
           d == <<a.password>> \o e
           b == WithPassword(a, new, p, now)
<1>1. K \in Nat /\ c \in Nat /\ K <= c /\ p \in PasswordPolicy
  BY KeptFacts
<1>2. a.password \in Password /\ h \in Seq(Password) /\ e \in Seq(Password)
  BY DEF Account
<1>3. b.password = new /\ b.password_history = g /\ b.past = d
  BY <1>1, SetFacts
<1>4. /\ w \in Seq(Password) /\ Len(w) = Len(h) + 1 /\ w[1] = a.password
      /\ \A k \in 1..Len(h) : w[k + 1] = h[k]
  BY <1>2, Prepend
<1>5. /\ d \in Seq(Password) /\ Len(d) = Len(e) + 1 /\ d[1] = a.password
      /\ \A k \in 1..Len(e) : d[k + 1] = e[k]
  BY <1>2, Prepend
<1>6. /\ g \in Seq(Password) /\ Len(g) = Least(c, Len(w))
      /\ \A k \in 1..Len(g) : g[k] = w[k]
  <2>1. w \in Seq(Password) /\ c \in Nat
    BY <1>1, <1>4
  <2> HIDE DEF w, c, h, e, d, b, K
  <2> QED BY <2>1, TakeFacts
<1>7. /\ Len(h) \in Nat /\ Len(e) \in Nat /\ Len(g) \in Nat
      /\ DOMAIN h = 1..Len(h) /\ DOMAIN e = 1..Len(e) /\ DOMAIN g = 1..Len(g)
      /\ DOMAIN d = 1..Len(d)
  <2> HIDE DEF g, d, h, e
  <2> QED BY <1>2, <1>5, <1>6
<1>8. /\ \A k \in 1..Len(h) : k \in 1..Len(e) /\ e[k] = h[k]
      /\ Least(K, Len(e)) <= Len(h)
  BY <1>7 DEF HistoryIsPast
<1>9. new # a.password /\ \A k \in 1..Least(c, Len(h)) : h[k] # new
  BY DEF matches_current_or_history
<1> HIDE DEF K, c, h, e, w, g, d
<1>10. ASSUME NEW k \in 1..Len(g) PROVE k \in 1..Len(d) /\ d[k] = g[k]
  <2>1. k \in Nat /\ 1 <= k /\ k <= Len(h) + 1 /\ g[k] = w[k]
    BY <1>1, <1>4, <1>6, <1>7 DEF Least
  <2>2. CASE k = 1
    BY <1>4, <1>5, <1>7, <2>1, <2>2
  <2>3. CASE k # 1
    <3>1. k - 1 \in 1..Len(h) /\ (k - 1) + 1 = k
      BY <1>7, <2>1, <2>3
    <3>2. k - 1 \in 1..Len(e) /\ e[k - 1] = h[k - 1]
      BY <1>8, <3>1
    <3>3. w[(k - 1) + 1] = h[k - 1] /\ d[(k - 1) + 1] = e[k - 1]
      BY <1>4, <1>5, <3>1, <3>2
    <3>4. k \in 1..Len(d)
      BY <1>5, <1>7, <3>2
    <3> QED BY <2>1, <3>1, <3>2, <3>3, <3>4
  <2> QED BY <2>2, <2>3
<1>11. Least(K, Len(d)) <= Len(g)
  BY <1>1, <1>4, <1>5, <1>6, <1>7, <1>8 DEF Least
<1>12. ASSUME NEW k \in 1..Least(K + 1, Len(d)) PROVE d[k] # new
  <2>1. k \in Nat /\ 1 <= k /\ k <= K + 1 /\ k <= Len(e) + 1
    BY <1>1, <1>5, <1>7 DEF Least
  <2>2. CASE k = 1
    BY <1>5, <1>9, <2>2
  <2>3. CASE k # 1
    <3>1. k - 1 \in 1..Len(e) /\ (k - 1) + 1 = k /\ k - 1 <= K
      BY <1>1, <1>7, <2>1, <2>3
    <3>2. k - 1 <= Len(h) /\ k - 1 <= c
      BY <1>1, <1>7, <1>8, <3>1 DEF Least
    <3>3. k - 1 \in 1..Len(h) /\ k - 1 \in 1..Least(c, Len(h))
      BY <1>1, <1>7, <3>1, <3>2 DEF Least
    <3>4. d[(k - 1) + 1] = e[k - 1] /\ e[k - 1] = h[k - 1] /\ h[k - 1] # new
      BY <1>5, <1>8, <1>9, <3>1, <3>3
    <3> QED BY <3>1, <3>4
  <2> QED BY <2>2, <2>3
<1> HIDE DEF b
<1>13. HistoryIsPast(b)
  BY <1>3, <1>7, <1>10, <1>11 DEF HistoryIsPast, K
<1>14. Fresh(b)
  BY <1>3, <1>12 DEF Fresh, K
<1> QED BY <1>13, <1>14 DEF b

Sound(a) == HistoryIsPast(a) /\ Fresh(a)

\* A new account has no past.
LEMMA NewIsSound ==
    ASSUME NEW password, NEW email, NEW must
    PROVE  Sound(NewAccount(password, email, must))
<1> DEFINE a == NewAccount(password, email, must)
<1>1. a.past = <<>> /\ a.password_history = <<>>
  BY DEF NewAccount
<1>2. KeptPasswords \in Nat
  BY KeptFacts
<1>3. Least(KeptPasswords, 0) = 0 /\ 1..Least(KeptPasswords + 1, 0) = {}
  BY <1>2 DEF Least
<1> HIDE DEF a
<1>4. HistoryIsPast(a)
  BY <1>1, <1>3 DEF HistoryIsPast
<1>5. Fresh(a)
  BY <1>1, <1>3 DEF Fresh
<1> QED BY <1>4, <1>5 DEF Sound, a

\* Every step leaves every account sound.
LEMMA SoundStep ==
    ASSUME PasswordInv, [Next]_vars, NEW u \in User, accounts'[u] # None
    PROVE  Sound(accounts'[u])
<1>t. TypeInv /\ accounts \in [User -> Account \cup {None}]
  BY DEF PasswordInv, TypeInv, TypeOK
<1>s. \A v \in User : accounts[v] # None => Sound(accounts[v])
  BY DEF PasswordInv, HistoriesKept, PasswordNotReused, Sound, Fresh
<1>u. ASSUME UNCHANGED accounts PROVE Sound(accounts'[u])
  BY <1>u, <1>s
<1>v. ASSUME NEW v \in User, NEW b, accounts' = [accounts EXCEPT ![v] = b], Sound(b)
      PROVE  Sound(accounts'[u])
  <2>1. accounts'[v] = b /\ (u # v => accounts'[u] = accounts[u])
    BY <1>t, <1>v
  <2> QED BY <1>s, <1>v, <2>1
<1>w. ASSUME NEW v \in User, NEW new \in Password, NEW p \in Policies, MaySet(v, new, p),
             accounts' = [accounts EXCEPT ![v] = WithPassword(accounts[v], new, p, clock)]
      PROVE  Sound(accounts'[u])
  <2>1. accounts[v] \in Account /\ Sound(accounts[v]) /\ clock \in Nat
        /\ ~ matches_current_or_history(accounts[v], new, p.password_history_count)
    BY <1>s, <1>t, <1>w DEF MaySet, TypeInv, TypeOK
  <2>2. Sound(WithPassword(accounts[v], new, p, clock))
    BY <2>1, SetKeepsHistory DEF Sound
  <2> QED BY <1>v, <1>w, <2>2
<1>1. ASSUME NEW t \in Thread, SignupAccount(t) PROVE Sound(accounts'[u])
  <2> DEFINE q == local[t].request
             b == NewAccount(q.password, q.email, q.email /\ EmailVerification /\ q.op = "sign_up")
  <2>1. q.user \in User
    BY <1>1, <1>t, TypeFacts, RequestUsers DEF SignupAccount, Fits, SigningUp
  <2>2. Sound(b)
    BY NewIsSound
  <2>3. UNCHANGED accounts \/ accounts' = [accounts EXCEPT ![q.user] = b]
    BY <1>1, Zenon DEF SignupAccount
  <2> HIDE DEF b, q
  <2> QED BY <2>1, <2>2, <2>3, <1>u, <1>v
<1>2. ASSUME NEW t \in Thread, ConnectorChange(t) PROVE Sound(accounts'[u])
  <2> DEFINE q == local[t].request
             p == local[t].policy
  <2>1. q.user \in User /\ q.new \in Password /\ p \in Policies
    BY <1>2, <1>t, TypeFacts, RequestUsers DEF ConnectorChange, Fits, PasswordInv, PoliciesKnown
  <2>2. \/ UNCHANGED accounts
        \/ MaySet(q.user, q.new, p) /\ SetPassword(q.user, q.new, p)
    BY <1>2, Zenon DEF ConnectorChange
  <2> HIDE DEF q, p
  <2> QED BY <2>1, <2>2, <1>u, <1>w DEF SetPassword
<1>3. ASSUME NEW t \in Thread, Operate(t) PROVE Sound(accounts'[u])
  <2> DEFINE q == local[t].request
             p == local[t].policy
             user == challenges[q.challenge].account
  <2>1. user \in User /\ accounts[user] \in Account
    BY <1>3, <1>t, OperateFacts
  <2>2. \/ UNCHANGED accounts
        \/ \E b \in Account : accounts' = [accounts EXCEPT ![user] = b] /\
             \/ /\ q.kind = "PasswordReset" /\ q.new \in Password
                /\ MaySet(user, q.new, p) /\ b = WithPassword(accounts[user], q.new, p, clock)
             \/ /\ b.password = accounts[user].password /\ b.past = accounts[user].past
                /\ b.password_history = accounts[user].password_history
    BY <1>3, <1>t, OperateFacts
  <2>3. q.kind = "PasswordReset" => p \in Policies
    BY <1>3 DEF Operate, Redeeming, PasswordInv, PoliciesKnown
  <2>4. ASSUME NEW b \in Account, accounts' = [accounts EXCEPT ![user] = b],
               b.password = accounts[user].password, b.past = accounts[user].past,
               b.password_history = accounts[user].password_history
        PROVE  Sound(accounts'[u])
    <3> HIDE DEF user
    <3>1. Sound(accounts[user])
      BY <1>s, <2>1, NoneIsNoAccount
    <3>2. Sound(b)
      BY <2>4, <3>1 DEF Sound, HistoryIsPast, Fresh
    <3> QED BY <1>v, <2>1, <2>4, <3>2
  <2> HIDE DEF q, p, user
  <2> QED BY <2>1, <2>2, <2>3, <2>4, <1>u, <1>w
<1>4. ASSUME NEW t \in Thread, Start(t) \/ Continue(t),
             ~ SignupAccount(t), ~ ConnectorChange(t), ~ Operate(t)
      PROVE  UNCHANGED accounts
  BY <1>4 DEF Start, SignUp, SignIn, Link, ChangePassword, RequestMail, Redeem, Answer, vars,
     Continue, SignupExternal, SignupIdentity, SignupBind, SignupOpen, SignupVerify, SignupLogout,
     SigninOpen, SigninCheck, SigninRefuse, LinkIdentity, LinkBind, Issue, Consume, Consumed
<1>5. ASSUME SignOut \/ RevokeChallenge \/ SetPolicy \/ Tick \/ UNCHANGED vars
      PROVE  UNCHANGED accounts
  BY <1>5 DEF SignOut, RevokeChallenge, SetPolicy, Tick, vars
<1> QED BY <1>u, <1>1, <1>2, <1>3, <1>4, <1>5 DEF Next

\* Where a request goes by a copy of the policy.
GoesByCopy(l) == l.pc = "change" \/ (l.pc \in Redeeming /\ l.request.kind = "PasswordReset")

\* A request that starts copies the policy in force.
LEMMA StartCopies ==
    ASSUME TypeInv, NEW t \in Thread, Start(t), GoesByCopy(local'[t])
    PROVE  local'[t].policy = policy
<1>n. GoesByCopy(local'[t]) => local'[t].pc \in {"change", "consume", "operate", "consumed"}
  BY DEF GoesByCopy, Redeeming
<1>1. ASSUME NEW pc, NEW q, WithPolicy(t, pc, q) PROVE local'[t].policy = policy
  <2>1. local'[t] = [Idle EXCEPT !.pc = pc, !.request = q, !.now = clock, !.policy = policy]
    BY <1>1, StackOf DEF WithPolicy
  <2> QED BY <2>1 DEF Idle
<1>2. ASSUME NEW pc \in {"account", "link", "issue"}, NEW q, Begin(t, pc, q) PROVE FALSE
  <2>1. local'[t] = [Idle EXCEPT !.pc = pc, !.request = q, !.now = clock]
    BY <1>2, StackOf DEF Begin
  <2>2. local'[t].pc = pc
    BY <2>1 DEF Idle
  <2> QED BY <1>n, <2>2
<1>3. ASSUME NEW i, Begin(t, "consume", [op |-> "token", challenge |-> i,
                                         kind |-> "EmailVerification", new |-> None])
      PROVE FALSE
  <2> DEFINE q == [op |-> "token", challenge |-> i, kind |-> "EmailVerification", new |-> None]
  <2>0. q.kind # "PasswordReset"
    OBVIOUS
  <2>1. local'[t] = [Idle EXCEPT !.pc = "consume", !.request = q, !.now = clock]
    BY <1>3, StackOf DEF Begin
  <2> HIDE DEF q
  <2>2. local'[t].pc = "consume" /\ local'[t].request = q
    BY <2>1 DEF Idle
  <2> QED BY <2>0, <2>2 DEF GoesByCopy
<1>4. ASSUME SignIn(t) PROVE FALSE
  <2>1. PICK q \in SignIns : local' = [local EXCEPT ![t] = [Idle EXCEPT !.pc = "resolve",
                !.request = q, !.now = clock, !.account = accounts[q.user]]]
    BY <1>4 DEF SignIn
  <2>2. local'[t] = [Idle EXCEPT !.pc = "resolve", !.request = q, !.now = clock,
                                 !.account = accounts[q.user]]
    BY <2>1, StackOf
  <2>3. local'[t].pc = "resolve"
    BY <2>2 DEF Idle
  <2> QED BY <1>n, <2>3
<1>5. ASSUME Answer(t) PROVE FALSE
  BY <1>5, <1>n DEF Answer, vars
<1>6. ASSUME SignUp(t) \/ Link(t) \/ RequestMail(t) PROVE FALSE
  <2>1. \E pc \in {"account", "link", "issue"} : \E q : Begin(t, pc, q)
    BY <1>6 DEF SignUp, Link, RequestMail
  <2> QED BY <1>2, <2>1
<1>7. ASSUME ChangePassword(t) \/ Redeem(t) PROVE local'[t].policy = policy
  <2>1. \/ \E pc : \E q : WithPolicy(t, pc, q)
        \/ \E i : Begin(t, "consume", [op |-> "token", challenge |-> i,
                                       kind |-> "EmailVerification", new |-> None])
    BY <1>7 DEF ChangePassword, Redeem
  <2> QED BY <1>1, <1>3, <2>1
<1> QED BY <1>4, <1>5, <1>6, <1>7 DEF Start

\* Only policies that can be in force are in force or copied.
LEMMA PoliciesStep ==
    ASSUME PasswordInv, [Next]_vars
    PROVE  PoliciesKnown'
<1>t. TypeInv
  BY DEF PasswordInv
<1>1. policy \in Policies /\ \A u \in Thread : GoesByCopy(local[u]) => local[u].policy \in Policies
  BY DEF PasswordInv, PoliciesKnown, GoesByCopy
<1>2. policy' \in Policies
  <2>1. ASSUME SetPolicy PROVE policy' \in Policies
    BY <2>1 DEF SetPolicy, Policies
  <2>2. ASSUME ~ SetPolicy PROVE UNCHANGED policy
    <3>1. ASSUME NEW t \in Thread, Start(t) \/ Continue(t) PROVE UNCHANGED policy
      BY <3>1 DEF Start, SignUp, SignIn, Link, ChangePassword, RequestMail, Redeem, Answer, vars,
         Continue, SignupAccount, SignupExternal, SignupIdentity, SignupBind, SignupOpen, SignupVerify,
         SignupLogout, SigninOpen, SigninCheck, SigninRefuse, LinkIdentity, LinkBind, ConnectorChange,
         Issue, Consume, Operate, Consumed
    <3>2. ASSUME SignOut \/ RevokeChallenge \/ Tick \/ UNCHANGED vars PROVE UNCHANGED policy
      BY <3>2 DEF SignOut, RevokeChallenge, Tick, vars
    <3> QED BY <2>2, <3>1, <3>2 DEF Next
  <2> QED BY <1>1, <2>1, <2>2
<1>3. ASSUME NEW u \in Thread, GoesByCopy(local'[u]) PROVE local'[u].policy \in Policies
  <2>1. CASE local'[u] = local[u]
    BY <1>1, <1>3, <2>1
  <2>2. CASE Start(u)
    BY <1>1, <1>3, <1>t, <2>2, StartCopies
  <2>3. CASE Continue(u) /\ Moves(u)
    <3>1. local[u].pc # "idle"
      BY <2>3 DEF Continue, SignupAccount, SignupExternal, SignupIdentity, SignupBind, SignupOpen,
         SignupVerify, SignupLogout, SigninOpen, SigninCheck, SigninRefuse, LinkIdentity, LinkBind,
         ConnectorChange, Issue, Consume, Operate, Consumed
    <3>2. local'[u].pc # "idle"
      BY <1>3 DEF GoesByCopy, Redeeming
    <3>3. local'[u].policy = local[u].policy /\ local'[u].request = local[u].request
          /\ Follows(local[u].pc, local'[u].pc)
      BY <2>3, <3>1, <3>2 DEF Moves
    <3>4. GoesByCopy(local[u])
      BY <1>3, <3>1, <3>3 DEF GoesByCopy, Redeeming, Follows
    <3> QED BY <1>1, <3>3, <3>4
  <2>4. ASSUME NEW t \in Thread, t # u, Moves(t) PROVE local'[u] = local[u]
    BY <2>4 DEF Moves
  <2> QED BY <1>t, <2>1, <2>2, <2>3, <2>4, OneMoves
<1> QED BY <1>2, <1>3 DEF PoliciesKnown, GoesByCopy

\* Nobody gets a password back that every policy of the process would still have
\* kept, nor the last one, whatever policies change while changes and resets run:
\* each of them goes by a copy of the policy that can be out of date.
THEOREM PasswordNotReusedHolds == Spec => []PasswordNotReused
<1>1. Init => PasswordInv
  <2> SUFFICES ASSUME Init PROVE PasswordInv
    OBVIOUS
  <2>1. TypeInv
    BY TypeInit
  <2>2. PoliciesKnown
    BY DEF Init, PoliciesKnown, Policies, Redeeming, Idle
  <2>3. HistoriesKept /\ PasswordNotReused
    BY DEF Init, HistoriesKept, PasswordNotReused
  <2> QED BY <2>1, <2>2, <2>3 DEF PasswordInv
<1>2. PasswordInv /\ [Next]_vars => PasswordInv'
  <2> SUFFICES ASSUME PasswordInv, [Next]_vars PROVE PasswordInv'
    OBVIOUS
  <2>1. TypeInv'
    BY TypeNext DEF PasswordInv
  <2>2. PoliciesKnown'
    BY PoliciesStep
  <2>3. \A u \in User : accounts'[u] # None => Sound(accounts'[u])
    BY SoundStep
  <2>4. HistoriesKept' /\ PasswordNotReused'
    BY <2>3 DEF HistoriesKept, PasswordNotReused, Sound, HistoryIsPast, Fresh
  <2> QED BY <2>1, <2>2, <2>4 DEF PasswordInv
<1>3. PasswordInv => PasswordNotReused
  BY DEF PasswordInv
<1> QED BY <1>1, <1>2, <1>3, PTL DEF Spec
=============================================================================
