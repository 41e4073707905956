----------------------------- MODULE AuthorityLog -----------------------------
(***************************************************************************)
(* What the authority control plane promises, with no threads, locks or    *)
(* statuses: a versioned state with optimistic concurrency and a history.  *)
(* A proposal is based on a revision the state has had.  A commit applies  *)
(* proposals that are all based on the revision the state has now, one     *)
(* revision each, and logs each of them together with the states before    *)
(* and after it.                                                           *)
(***************************************************************************)
EXTENDS Integers, Sequences

CONSTANT Initial  \* the state before the first commit, at revision 0

VARIABLES
    live,  \* the state in force, with its revision
    log,   \* the set of records of all commits
    base   \* base[i]: the revision proposal i was made for

vars == <<live, log, base>>

Init == live = Initial /\ log = {} /\ base = <<>>

Propose ==
    /\ \E revision \in 0..live.revision : base' = Append(base, revision)
    /\ UNCHANGED <<live, log>>

\* The new records take the state, revision by revision, from live to live'.
Commit ==
    LET new == log' \ log
        Logged(n) == {r \in new : r.resulting_state.revision = n}
    IN  /\ log \subseteq log'
        /\ live'.revision > live.revision
        /\ \A r \in new :
            /\ base[r.proposal_id] = live.revision
            /\ r.resulting_state.revision \in (live.revision + 1)..live'.revision
            /\ r.previous_state.revision = r.resulting_state.revision - 1
            /\ r.previous_state.revision = live.revision => r.previous_state = live
            /\ r.resulting_state.revision = live'.revision => r.resulting_state = live'
            /\ \A s \in Logged(r.previous_state.revision) :
                  s.resulting_state = r.previous_state
        /\ \A n \in (live.revision + 1)..live'.revision :
            \E r \in new : Logged(n) = {r}
        /\ UNCHANGED base

Next == Propose \/ Commit

Spec == Init /\ [][Next]_vars
=============================================================================
