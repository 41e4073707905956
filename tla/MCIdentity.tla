------------------------------ MODULE MCIdentity ------------------------------
(* Small instances of identity, sessions and ceremonies for TLC. *)
EXTENDS Identity, TLC

CONSTANTS t1, t2, alice, bob, a, b, c

Policy(history, expiration) ==
    [accepts |-> Password, password_history_count |-> history,
     password_expiration |-> expiration,
     allow_password_change |-> TRUE, allow_password_reset |-> TRUE]
Declared == Policy(1, None)
Stricter == [Policy(2, 1) EXCEPT !.allow_password_change = FALSE, !.accepts = Password \ {a}]
Changing == {Stricter}

Registers(op, u, p, email) == [op |-> op, user |-> u, password |-> p, email |-> email]
Enters(u, p) == [op |-> "sign_in", user |-> u, password |-> p]
Joins(u, p, principal) == [op |-> "link", user |-> u, password |-> p, principal |-> principal]
Changes(u, p, new) == [op |-> "change", user |-> u, password |-> p, new |-> new]

StudioOnly == {Registers("studio", alice, a, TRUE)}
SignUpAndStudio == {Registers("sign_up", alice, a, TRUE), Registers("studio", bob, b, FALSE)}
AliceEnters == {Enters(alice, a), Enters(alice, b)}
BobJoins == {Joins(bob, b, alice)}
AliceChanges == {Changes(alice, a, b)}

Threads == Permutations(Thread)
=============================================================================
