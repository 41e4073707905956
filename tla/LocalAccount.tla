----------------------------- MODULE LocalAccount -----------------------------
(***************************************************************************)
(* Accounts of the local connector and their passwords                     *)
(* (crates/providers/src/connectors/local.rs), and the challenges of the   *)
(* recovery and verification ceremonies (crates/boundary/src/ceremony.rs). *)
(*                                                                         *)
(* Hashing is external: a stored hash verifies the password it was made of *)
(* and no other, so the password itself stands for it.  Tokens are opaque  *)
(* and random: a challenge is known by its position in the store.          *)
(***************************************************************************)
EXTENDS Integers, Sequences

CONSTANTS
    User,      \* user names
    Password,
    None       \* Option::None

ASSUME LocalAccountAssumption == None \notin User \cup Password \cup Nat

(***************************************************************************)
(* Password policies: the passwords that validate_password_with accepts,   *)
(* how many old ones may not be used again, the life of a password, and    *)
(* what users may do.                                                      *)
(***************************************************************************)

PasswordPolicy ==
    [accepts : SUBSET Password, password_history_count : Nat,
     password_expiration : Nat \cup {None},
     allow_password_change : BOOLEAN, allow_password_reset : BOOLEAN]

\* email: there is an address; must_verify: email_verification_required.
\* past is history, which only the properties read: all earlier passwords.
Account ==
    [password : Password, password_history : Seq(Password), password_changed_at : Nat,
     email : BOOLEAN, must_verify : BOOLEAN, email_verified : BOOLEAN, past : Seq(Password)]

\* An absent account is told from every account.
ASSUME NoneIsNoAccount == None \notin Account

\* LocalAccount::new.  The password counts as changed at 0, not at its creation.
NewAccount(password, email, must_verify) ==
    [password |-> password, password_history |-> <<>>, password_changed_at |-> 0,
     email |-> email, must_verify |-> must_verify, email_verified |-> FALSE, past |-> <<>>]

Least(a, b) == IF a <= b THEN a ELSE b

\* Iterator::take and Vec::truncate
Take(seq, count) == SubSeq(seq, 1, Least(count, Len(seq)))

Bug_OnlyCurrent(account, password, count) == password = account.password

matches_current_or_history(account, password, count) ==
    \/ password = account.password
    \/ \E k \in 1..Least(count, Len(account.password_history)) :
            account.password_history[k] = password

\* set_password where it succeeds
WithPassword(account, password, policy, now) ==
    [account EXCEPT
        !.password = password,
        !.password_history =
            Take(<<account.password>> \o account.password_history, policy.password_history_count),
        !.password_changed_at = now,
        !.past = <<account.password>> \o account.past]

\* ensure_password_not_expired, on the attribute authenticate returned
Expired(changed_at, policy, now) ==
    policy.password_expiration # None /\ now - changed_at > policy.password_expiration

(***************************************************************************)
(* Challenges                                                              *)
(***************************************************************************)

CeremonyKind == {"PasswordReset", "EmailVerification"}

\* mailed: the mail with the token went out, so somebody can present it.  uses
\* is history: how often the challenge's operation went through.
Challenge ==
    [kind : CeremonyKind, account : User, expires_at : Nat, consumed : BOOLEAN,
     revoked : BOOLEAN, mailed : BOOLEAN, uses : Nat]

NewChallenge(kind, account, expires_at, mailed) ==
    [kind |-> kind, account |-> account, expires_at |-> expires_at, consumed |-> FALSE,
     revoked |-> FALSE, mailed |-> mailed, uses |-> 0]

Bug_IgnoreEnd(challenge, kind, now) ==
    challenge.kind = kind /\ ~ challenge.revoked /\ ~ challenge.consumed

\* The check at the start of consume_with
IsOpen(challenge, kind, now) ==
    /\ challenge.kind = kind
    /\ ~ challenge.revoked /\ ~ challenge.consumed
    /\ now < challenge.expires_at
=============================================================================
