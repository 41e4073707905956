---------------------------- MODULE AuditTrail ----------------------------
(***************************************************************************)
(* The audit trail behind AuthMesh::authorize (crates/runtime/src/mesh.rs) *)
(* with MemoryAuditLog (crates/storage/src/memory.rs): every request that  *)
(* is audited takes a number, writes an event, and, when it is an          *)
(* authorization, cites an event id and leaves evidence in the ring that   *)
(* the decision routes of crates/server/src/control_routes.rs read.  The   *)
(* server handles each request on a thread of its own, so all those steps  *)
(* interleave.                                                             *)
(***************************************************************************)
EXTENDS Integers, Sequences, FiniteSets, SequencesExt

CONSTANTS
    Requests,     \* the requests that reach the trail, each handled once
    Decides,      \* those of them that are authorizations
    TenantOf,     \* the tenant of each request
    Rank(_),      \* the order of the hashed ids, by sequence number
    Keep,         \* how much evidence the ring keeps: 100 in the code
    MaxClock,     \* bound: the last second of the wall clock
    MaxFaults     \* bound: how many writes the store refuses

ASSUME AuditTrailAssumption ==
    /\ Decides \subseteq Requests
    /\ Keep \in Nat \ {0}
    /\ MaxClock \in Nat /\ MaxFaults \in Nat

VARIABLES
    clock,        \* the wall clock, in seconds
    audit_sequence, \* the mesh's counter of event numbers, shared by tenants
    log,          \* the events, in the order they were appended
    decisions,    \* the ring of recent evidence
    req,          \* what each request has done so far
    remembered,   \* history: every request that left evidence, in order
    faults

vars == <<clock, audit_sequence, log, decisions, req, remembered, faults>>

Tenants == {TenantOf[r] : r \in Requests}

None == -1

(***************************************************************************)
(* An event id is a hash of the tenant and the number, so two ids are      *)
(* equal exactly when both agree.                                          *)
(***************************************************************************)
audit_event_id(tenant, number) == [tenant |-> tenant, number |-> number]

Idle == [at |-> None, step |-> "idle", number |-> None, cites |-> None,
         overlapped |-> FALSE]

Init ==
    /\ clock = 0
    /\ audit_sequence = 0
    /\ log = <<>>
    /\ decisions = <<>>
    /\ req = [r \in Requests |-> Idle]
    /\ remembered = <<>>
    /\ faults = 0

InFlight(r) == req[r].step \in {"stamped", "numbered", "written", "cited"}

(* The handler reads the clock once and passes it down as `now`; requests  *)
(* in flight together are marked, for the properties only.                 *)
Arrive(r) ==
    /\ req[r].step = "idle"
    /\ LET busy == {q \in Requests : InFlight(q)}
       IN req' = [q \in Requests |->
                    IF q = r
                    THEN [Idle EXCEPT !.at = clock, !.step = "stamped",
                                      !.overlapped = busy # {}]
                    ELSE IF q \in busy
                    THEN [req[q] EXCEPT !.overlapped = TRUE]
                    ELSE req[q]]
    /\ UNCHANGED <<clock, audit_sequence, log, decisions, remembered, faults>>

(* next_audit_event_id: one atomic fetch_add. *)
next_audit_event_id(r) ==
    /\ req[r].step = "stamped"
    /\ req' = [req EXCEPT ![r].step = "numbered", ![r].number = audit_sequence]
    /\ audit_sequence' = audit_sequence + 1
    /\ UNCHANGED <<clock, log, decisions, remembered, faults>>

(* record_event appends; a request that is no authorization ends here. *)
record_event(r) ==
    /\ req[r].step = "numbered"
    /\ log' = Append(log, [id |-> audit_event_id(TenantOf[r], req[r].number),
                           of |-> r, at |-> req[r].at])
    /\ req' = [req EXCEPT ![r].step = IF r \in Decides THEN "written" ELSE "done"]
    /\ UNCHANGED <<clock, audit_sequence, decisions, remembered, faults>>

Bug_FailOpen(r) ==
    /\ req[r].step = "numbered"
    /\ faults < MaxFaults
    /\ faults' = faults + 1
    /\ req' = [req EXCEPT ![r].step = IF r \in Decides THEN "written" ELSE "done"]
    /\ UNCHANGED <<clock, audit_sequence, log, decisions, remembered>>

(* The store refuses the write: the number is spent, an authorization is   *)
(* answered with a denial, and it leaves no evidence.                      *)
AuditUnavailable(r) ==
    /\ req[r].step = "numbered"
    /\ faults < MaxFaults
    /\ faults' = faults + 1
    /\ req' = [req EXCEPT ![r].step = "refused"]
    /\ UNCHANGED <<clock, audit_sequence, log, decisions, remembered>>

Bug_LastId(r) ==
    /\ req[r].step = "written"
    /\ req' = [req EXCEPT ![r].step = "cited", ![r].cites = audit_sequence]
    /\ UNCHANGED <<clock, audit_sequence, log, decisions, remembered, faults>>

(* last_audit_event_id: the newest number taken, by anybody. *)
last_audit_event_id(r) ==
    /\ req[r].step = "written"
    /\ req' = [req EXCEPT ![r].step = "cited", ![r].cites = audit_sequence - 1]
    /\ UNCHANGED <<clock, audit_sequence, log, decisions, remembered, faults>>

Bug_KeepOldest(ring) == IF Len(ring) > Keep THEN Front(ring) ELSE ring

(* The ring drops its oldest entry once it is over its limit. *)
Trimmed(ring) == IF Len(ring) > Keep THEN Tail(ring) ELSE ring

remember_decision(r) ==
    /\ req[r].step = "cited"
    /\ decisions' = Trimmed(Append(decisions,
           [decision_id |-> audit_event_id(TenantOf[r], req[r].cites),
            of |-> r]))
    /\ remembered' = Append(remembered, r)
    /\ req' = [req EXCEPT ![r].step = "done"]
    /\ UNCHANGED <<clock, audit_sequence, log, faults>>

Tick ==
    /\ clock < MaxClock
    /\ clock' = clock + 1
    /\ UNCHANGED <<audit_sequence, log, decisions, req, remembered, faults>>

Next ==
    \/ Tick
    \/ \E r \in Requests :
          \/ Arrive(r)
          \/ next_audit_event_id(r)
          \/ record_event(r)
          \/ AuditUnavailable(r)
          \/ last_audit_event_id(r)
          \/ remember_decision(r)

Spec == Init /\ [][Next]_vars

(***************************************************************************)
(* The read side.                                                          *)
(***************************************************************************)
Earlier(a, b) ==
    \/ a.at < b.at
    \/ a.at = b.at /\ Rank(a.id.number) < Rank(b.id.number)

(* sort_by keeps the order of the trail where it finds no other.           *)
Before(i, j) == IF i < j THEN ~Earlier(log[j], log[i]) ELSE Earlier(log[i], log[j])

Found(tenant, since) == {i \in DOMAIN log : log[i].id.tenant = tenant /\ log[i].at >= since}
Cut(size, limit) == IF limit = 0 \/ limit >= size THEN size ELSE limit

Bug_events(tenant, since, limit) ==
    LET found == Found(tenant, since)
        place == [i \in found |-> Cardinality({j \in found : j <= i})]
    IN [k \in 1..Cut(Cardinality(found), limit) |-> log[CHOOSE i \in found : place[i] = k]]

(* events: the tenant's events since a time, each in its place by time and *)
(* id, cut to the oldest `limit` of them; 0 asks for all.                  *)
events(tenant, since, limit) ==
    LET found == Found(tenant, since)
        place == [i \in found |-> Cardinality({j \in found : Before(j, i)}) + 1]
    IN [k \in 1..Cut(Cardinality(found), limit) |-> log[CHOOSE i \in found : place[i] = k]]

(* authorization_decision: the first evidence with that id; its request,   *)
(* or none (the 404 of the route).                                         *)
authorization_decision(id) ==
    LET hits == {i \in DOMAIN decisions : decisions[i].decision_id = id}
    IN IF hits = {} THEN {}
       ELSE {decisions[CHOOSE i \in hits : \A j \in hits : i <= j].of}

-----------------------------------------------------------------------------

(* Fail closed: an authorization that was answered with its own decision,  *)
(* and every piece of evidence, has the event of that very request in the  *)
(* trail.                                                                  *)
AnsweredIsRecorded ==
    /\ \A r \in Requests :
          req[r].step = "done" => \E i \in 1..Len(log) : log[i].of = r
    /\ \A i \in 1..Len(decisions) :
          \E j \in 1..Len(log) : log[j].of = decisions[i].of

(* The ring is the last Keep decisions that were remembered, in order.     *)
RingIsRecent ==
    LET n == Len(remembered)
        kept == IF n > Keep THEN Keep ELSE n
    IN [i \in 1..Len(decisions) |-> decisions[i].of]
         = SubSeq(remembered, n - kept + 1, n)

Explained(r) ==
    authorization_decision(audit_event_id(TenantOf[r], req[r].cites)) = {r}

(* A decision that was made while no other request was in flight cites its *)
(* own event, and looking its id up explains that decision and no other,   *)
(* for as long as the ring keeps it.                                       *)
LoneDecisionExplained ==
    \A i \in 1..Len(decisions) :
        LET r == decisions[i].of
        IN ~req[r].overlapped => req[r].cites = req[r].number /\ Explained(r)

(* Reading on from the last time a page shows misses nothing that is in    *)
(* the trail: what a page leaves out is not older than its last event,     *)
(* although requests append out of the order of their times.               *)
PagesCoverTrail ==
    \A tenant \in Tenants, since \in 0..MaxClock, limit \in 1..Len(log) :
        LET page == events(tenant, since, limit)
        IN /\ \A i \in 1..Len(page) : page[i].id.tenant = tenant
           /\ \A i \in 1..Len(log) :
                 \/ log[i].id.tenant # tenant \/ log[i].at < since
                 \/ \E j \in 1..Len(page) : page[j] = log[i]
                 \/ Len(page) = limit /\ log[i].at >= Last(page).at
=============================================================================
