--------------------------- MODULE AuditTrailProofs ---------------------------
(***************************************************************************)
(* Theorems about the audit trail, for any number of requests, of any      *)
(* tenants, whatever the ring keeps and however many writes fail.          *)
(***************************************************************************)
EXTENDS AuditTrail, SequenceTheorems, FiniteSetTheorems, WellFoundedInduction, TLAPS

Steps == {"idle", "stamped", "numbered", "written", "cited", "done", "refused"}

EventId == [tenant : Tenants, number : Int]
Progress == [at : Int, step : Steps, number : Int, cites : Int, overlapped : BOOLEAN]

AuditTypes ==
    /\ clock \in Nat /\ audit_sequence \in Nat /\ faults \in Nat
    /\ log \in Seq([id : EventId, of : Requests, at : Int])
    /\ decisions \in Seq([decision_id : EventId, of : Requests])
    /\ req \in [Requests -> Progress]
    /\ remembered \in Seq(Requests)

\* The event of request r is in the trail.
Recorded(r) == \E i \in 1..Len(log) : log[i].of = r

\* What has been written is recorded, and evidence comes from requests that are
\* done.
TrailInv ==
    /\ AuditTypes
    /\ \A r \in Requests : req[r].step \in {"written", "cited", "done"} => Recorded(r)
    /\ \A i \in DOMAIN decisions : req[decisions[i].of].step = "done"

\* The ring holds the newest evidence, as much as it may.
RingInv ==
    /\ AuditTypes
    /\ Len(decisions) = IF Len(remembered) > Keep THEN Keep ELSE Len(remembered)
    /\ \A i \in DOMAIN decisions :
          decisions[i].of = remembered[Len(remembered) - Len(decisions) + i]

Taken(r) == req[r].step \in {"numbered", "written", "cited", "done", "refused"}
Cited(r) == req[r].step \in {"cited", "done"} /\ r \in Decides

\* What a request that is alone can rely on: nobody else is in flight with it;
\* the number it took is the newest until it is through; whoever comes after it
\* takes a greater number; and nobody else cites its number.
Alone(r) ==
    /\ InFlight(r) =>
          /\ \A q \in Requests \ {r} : ~ InFlight(q)
          /\ req[r].step \in {"numbered", "written", "cited"} => audit_sequence = req[r].number + 1
    /\ ~ InFlight(r) /\ Taken(r) =>
          \A q \in Requests \ {r} : InFlight(q) /\ Taken(q) => req[q].number > req[r].number
    /\ Taken(r) => \A q \in Requests \ {r} : req[q].cites # req[r].number
    /\ Cited(r) => req[r].cites = req[r].number

LoneInv ==
    /\ AuditTypes
    /\ \A r \in Requests :
          /\ Taken(r) => req[r].number \in Nat /\ req[r].number < audit_sequence
          /\ req[r].cites < audit_sequence
          /\ req[r].step \in {"idle", "stamped"} => req[r].cites = None
          /\ req[r].step \in {"written", "cited"} => r \in Decides
          /\ req[r].step # "idle" /\ ~ req[r].overlapped => Alone(r)
    /\ \A i \in DOMAIN decisions :
          LET r == decisions[i].of
          IN  /\ req[r].step = "done" /\ r \in Decides
              /\ decisions[i].decision_id = audit_event_id(TenantOf[r], req[r].cites)

(***************************************************************************)
(* Types                                                                   *)
(***************************************************************************)

\* Nobody has arrived at the start.
LEMMA TypesInit == Init => AuditTypes
BY DEF Init, AuditTypes, Idle, None, Progress, Steps

\* What a step of request r does to its progress and to that of the others.
Advances(r, step) ==
    /\ req'[r].step = step
    /\ req'[r].overlapped = req[r].overlapped
    /\ \A q \in Requests \ {r} : req'[q] = req[q]

\* The fields of the progress after each step but the arrival.
LEMMA Advance ==
    ASSUME AuditTypes, NEW r \in Requests
    PROVE  /\ next_audit_event_id(r) =>
                Advances(r, "numbered") /\ req'[r].number = audit_sequence
                /\ req'[r].cites = req[r].cites
           /\ record_event(r) =>
                Advances(r, IF r \in Decides THEN "written" ELSE "done")
                /\ req'[r].number = req[r].number /\ req'[r].cites = req[r].cites
           /\ AuditUnavailable(r) =>
                Advances(r, "refused") /\ req'[r].number = req[r].number /\ req'[r].cites = req[r].cites
           /\ last_audit_event_id(r) =>
                Advances(r, "cited") /\ req'[r].number = req[r].number
                /\ req'[r].cites = audit_sequence - 1
           /\ remember_decision(r) =>
                Advances(r, "done") /\ req'[r].number = req[r].number /\ req'[r].cites = req[r].cites
<1>t. req \in [Requests -> Progress] /\ req[r] \in Progress
  BY DEF AuditTypes
<1>1. ASSUME next_audit_event_id(r)
      PROVE  Advances(r, "numbered") /\ req'[r].number = audit_sequence /\ req'[r].cites = req[r].cites
  BY <1>1, <1>t DEF next_audit_event_id, Advances, Progress
<1>2. ASSUME record_event(r)
      PROVE  Advances(r, IF r \in Decides THEN "written" ELSE "done")
                /\ req'[r].number = req[r].number /\ req'[r].cites = req[r].cites
  BY <1>2, <1>t DEF record_event, Advances, Progress
<1>3. ASSUME AuditUnavailable(r)
      PROVE  Advances(r, "refused") /\ req'[r].number = req[r].number /\ req'[r].cites = req[r].cites
  BY <1>3, <1>t DEF AuditUnavailable, Advances, Progress
<1>4. ASSUME last_audit_event_id(r)
      PROVE  Advances(r, "cited") /\ req'[r].number = req[r].number
             /\ req'[r].cites = audit_sequence - 1
  BY <1>4, <1>t DEF last_audit_event_id, Advances, Progress
<1>5. ASSUME remember_decision(r)
      PROVE  Advances(r, "done") /\ req'[r].number = req[r].number /\ req'[r].cites = req[r].cites
  BY <1>5, <1>t DEF remember_decision, Advances, Progress
<1> QED BY <1>1, <1>2, <1>3, <1>4, <1>5

\* The ring never outgrows what a sequence can be.
LEMMA TrimmedTyped ==
    ASSUME NEW S, NEW ring \in Seq(S)
    PROVE  Trimmed(ring) \in Seq(S)
<1>1. CASE Len(ring) > Keep
  <2>1. ring # <<>>
    BY <1>1, AuditTrailAssumption
  <2>2. Tail(ring) \in Seq(S)
    BY <2>1
  <2> QED BY <1>1, <2>2 DEF Trimmed
<1>2. CASE ~ (Len(ring) > Keep)
  BY <1>2 DEF Trimmed
<1> QED BY <1>1, <1>2

\* Every step keeps the types.
LEMMA TypesNext == AuditTypes /\ [Next]_vars => AuditTypes'
<1> SUFFICES ASSUME AuditTypes, [Next]_vars PROVE AuditTypes'
  OBVIOUS
<1>t. /\ clock \in Nat /\ audit_sequence \in Nat /\ faults \in Nat
      /\ log \in Seq([id : EventId, of : Requests, at : Int])
      /\ decisions \in Seq([decision_id : EventId, of : Requests])
      /\ req \in [Requests -> Progress]
      /\ remembered \in Seq(Requests)
  BY DEF AuditTypes
<1>i. \A r \in Requests, n \in Int : audit_event_id(TenantOf[r], n) \in EventId
  BY DEF audit_event_id, EventId, Tenants
<1>1. CASE Tick
  BY <1>1, <1>t DEF Tick, AuditTypes
<1>2. ASSUME NEW r \in Requests, Arrive(r) PROVE AuditTypes'
  <2>1. \A q \in Requests : req'[q] \in Progress
    <3> SUFFICES ASSUME NEW q \in Requests PROVE req'[q] \in Progress
      OBVIOUS
    <3>1. \/ \E b \in BOOLEAN : req'[q] = [Idle EXCEPT !.at = clock, !.step = "stamped", !.overlapped = b]
          \/ req'[q] = [req[q] EXCEPT !.overlapped = TRUE]
          \/ req'[q] = req[q]
      BY <1>2 DEF Arrive
    <3>2. req[q] \in Progress
      BY <1>t
    <3>3. ASSUME NEW b \in BOOLEAN
          PROVE  [Idle EXCEPT !.at = clock, !.step = "stamped", !.overlapped = b] \in Progress
      <4>1. Idle \in Progress
        BY DEF Idle, Progress, Steps, None
      <4>2. clock \in Int /\ None \in Int /\ "stamped" \in Steps
        BY <1>t DEF None, Steps
      <4> QED BY <4>1, <4>2 DEF Progress
    <3>4. [req[q] EXCEPT !.overlapped = TRUE] \in Progress
      BY <3>2 DEF Progress
    <3> QED BY <3>1, <3>2, <3>3, <3>4
  <2>2. req' \in [Requests -> Progress]
    BY <1>2, <2>1 DEF Arrive
  <2> QED BY <1>2, <1>t, <2>2 DEF Arrive, AuditTypes
<1>3. ASSUME NEW r \in Requests, next_audit_event_id(r) PROVE AuditTypes'
  <2>1. req' \in [Requests -> Progress]
    <3> DEFINE x == [req[r] EXCEPT !.step = "numbered", !.number = audit_sequence]
    <3>1. req' = [req EXCEPT ![r] = x]
      BY <1>3, Zenon DEF next_audit_event_id
    <3>2. x \in Progress
      <4>1. audit_sequence \in Int /\ "numbered" \in Steps /\ req[r] \in Progress
        BY <1>t DEF Steps
      <4> QED BY <4>1 DEF Progress
    <3> HIDE DEF x
    <3> QED BY <3>1, <3>2, <1>t
  <2> QED BY <1>3, <1>t, <2>1 DEF next_audit_event_id, AuditTypes
<1>4. ASSUME NEW r \in Requests, record_event(r) PROVE AuditTypes'
  <2>1. req' \in [Requests -> Progress]
    BY <1>4, <1>t DEF record_event, Progress, Steps
  <2>2. req[r].number \in Int /\ req[r].at \in Int
    BY <1>t DEF Progress
  <2>3. [id |-> audit_event_id(TenantOf[r], req[r].number), of |-> r, at |-> req[r].at]
          \in [id : EventId, of : Requests, at : Int]
    BY <2>2, <1>i
  <2>4. log' \in Seq([id : EventId, of : Requests, at : Int])
    BY <1>4, <1>t, <2>3 DEF record_event
  <2> QED BY <1>4, <1>t, <2>1, <2>4 DEF record_event, AuditTypes
<1>5. ASSUME NEW r \in Requests, AuditUnavailable(r) PROVE AuditTypes'
  <2>1. req' \in [Requests -> Progress]
    BY <1>5, <1>t DEF AuditUnavailable, Progress, Steps
  <2> QED BY <1>5, <1>t, <2>1 DEF AuditUnavailable, AuditTypes
<1>6. ASSUME NEW r \in Requests, last_audit_event_id(r) PROVE AuditTypes'
  <2>1. req' \in [Requests -> Progress]
    <3> DEFINE x == [req[r] EXCEPT !.step = "cited", !.cites = audit_sequence - 1]
    <3>1. req' = [req EXCEPT ![r] = x]
      BY <1>6, Zenon DEF last_audit_event_id
    <3>2. x \in Progress
      <4>1. audit_sequence - 1 \in Int /\ "cited" \in Steps /\ req[r] \in Progress
        BY <1>t DEF Steps
      <4> QED BY <4>1 DEF Progress
    <3> HIDE DEF x
    <3> QED BY <3>1, <3>2, <1>t
  <2> QED BY <1>6, <1>t, <2>1 DEF last_audit_event_id, AuditTypes
<1>7. ASSUME NEW r \in Requests, remember_decision(r) PROVE AuditTypes'
  <2>1. req' \in [Requests -> Progress]
    BY <1>7, <1>t DEF remember_decision, Progress, Steps
  <2>2. req[r].cites \in Int
    BY <1>t DEF Progress
  <2> DEFINE x == [decision_id |-> audit_event_id(TenantOf[r], req[r].cites), of |-> r]
  <2>3. x \in [decision_id : EventId, of : Requests]
    BY <2>2, <1>i
  <2>4. decisions' = Trimmed(Append(decisions, x)) /\ remembered' = Append(remembered, r)
    BY <1>7 DEF remember_decision
  <2> HIDE DEF x
  <2>5. Append(decisions, x) \in Seq([decision_id : EventId, of : Requests])
        /\ remembered' \in Seq(Requests)
    BY <1>t, <2>3, <2>4
  <2>6. decisions' \in Seq([decision_id : EventId, of : Requests])
    BY <2>4, <2>5, TrimmedTyped
  <2> QED BY <1>7, <1>t, <2>1, <2>5, <2>6 DEF remember_decision, AuditTypes
<1>8. CASE UNCHANGED vars
  BY <1>8, <1>t DEF vars, AuditTypes
<1> QED BY <1>1, <1>2, <1>3, <1>4, <1>5, <1>6, <1>7, <1>8 DEF Next

(***************************************************************************)
(* The trail has every answer                                              *)
(***************************************************************************)

\* Nothing has been written or answered at the start.
LEMMA TrailInit == Init => TrailInv
<1> SUFFICES ASSUME Init PROVE TrailInv
  OBVIOUS
<1>1. AuditTypes
  BY TypesInit
<1>2. \A r \in Requests : req[r].step = "idle"
  BY DEF Init, Idle
<1>3. DOMAIN decisions = {}
  BY DEF Init
<1> QED BY <1>1, <1>2, <1>3 DEF TrailInv

\* What is in the trail stays there.
LEMMA RecordedStays ==
    ASSUME AuditTypes, NEW q \in Requests, Recorded(q),
           log' = log \/ \E e : log' = Append(log, e)
    PROVE  Recorded(q)'
<1>1. PICK i \in 1..Len(log) : log[i].of = q
  BY DEF Recorded
<1>2. log \in Seq([id : EventId, of : Requests, at : Int])
  BY DEF AuditTypes
<1>3. CASE log' = log
  BY <1>1, <1>3 DEF Recorded
<1>4. ASSUME NEW e, log' = Append(log, e) PROVE Recorded(q)'
  <2>1. i \in 1..Len(log') /\ log'[i] = log[i]
    BY <1>1, <1>2, <1>4
  <2> QED BY <2>1, <1>1 DEF Recorded
<1> QED BY <1>3, <1>4

\* What becomes of a ring when x is added and the oldest may have to go.
Pushed(ring, x, new, S) ==
    /\ new \in Seq(S)
    /\ Len(new) = IF Len(ring) >= Keep THEN Len(ring) ELSE Len(ring) + 1
    /\ \A i \in 1..Len(new) :
          new[i] = IF i = Len(new) THEN x
                   ELSE IF Len(ring) >= Keep THEN ring[i + 1] ELSE ring[i]

\* The entries of the trimmed ring with one more piece of evidence.
LEMMA RingStep ==
    ASSUME NEW S, NEW ring \in Seq(S), NEW x \in S
    PROVE  Pushed(ring, x, Trimmed(Append(ring, x)), S)
<1> DEFINE app == Append(ring, x)
<1>1. app \in Seq(S) /\ Len(app) = Len(ring) + 1 /\ Len(ring) \in Nat /\ Len(app) \in Nat
  OBVIOUS
<1>2. \A i \in 1..Len(app) : app[i] = IF i = Len(ring) + 1 THEN x ELSE ring[i]
  OBVIOUS
<1>3. Keep \in Nat \ {0}
  BY AuditTrailAssumption
<1> HIDE DEF app
<1>4. CASE Len(ring) >= Keep
  <2>1. Trimmed(app) = Tail(app)
    BY <1>1, <1>3, <1>4 DEF Trimmed
  <2>2. app # <<>>
    BY <1>1
  <2>3. /\ Tail(app) \in Seq(S) /\ Len(Tail(app)) = Len(app) - 1
        /\ \A i \in 1..Len(Tail(app)) : Tail(app)[i] = app[i + 1]
    BY <1>1, <2>2
  <2>4. Len(Tail(app)) = Len(ring)
    BY <2>3, <1>1
  <2>5. \A i \in 1..Len(ring) : i + 1 \in 1..Len(app)
    BY <1>1
  <2>6. ASSUME NEW i \in 1..Len(ring)
        PROVE  Tail(app)[i] = IF i = Len(ring) THEN x ELSE ring[i + 1]
    <3>1. Tail(app)[i] = app[i + 1]
      BY <2>3, <2>4
    <3>2. app[i + 1] = IF i + 1 = Len(ring) + 1 THEN x ELSE ring[i + 1]
      BY <2>5, <1>2
    <3> QED BY <3>1, <3>2, <1>1
  <2> QED BY <1>4, <2>1, <2>3, <2>4, <2>6 DEF app, Pushed
<1>5. CASE ~ (Len(ring) >= Keep)
  <2>1. Trimmed(app) = app
    BY <1>1, <1>3, <1>5 DEF Trimmed
  <2> QED BY <1>5, <2>1, <1>1, <1>2 DEF app, Pushed
<1> QED BY <1>4, <1>5

\* Every step keeps the trail ahead of the answers.
LEMMA TrailNext == TrailInv /\ [Next]_vars => TrailInv'
<1> SUFFICES ASSUME TrailInv, [Next]_vars PROVE TrailInv'
  OBVIOUS
<1>a. AuditTypes /\ AuditTypes'
  BY TypesNext DEF TrailInv
<1>t. /\ log \in Seq([id : EventId, of : Requests, at : Int])
      /\ decisions \in Seq([decision_id : EventId, of : Requests])
      /\ \A q \in Requests : req[q] \in Progress
  BY <1>a DEF AuditTypes
<1>o. /\ \A q \in Requests : req[q].step \in {"written", "cited", "done"} => Recorded(q)
      /\ \A i \in DOMAIN decisions : req[decisions[i].of].step = "done"
  BY DEF TrailInv
<1>p. \A i \in DOMAIN decisions : decisions[i].of \in Requests
  <2>1. \A i \in DOMAIN decisions : decisions[i] \in [decision_id : EventId, of : Requests]
    BY <1>t, ElementOfSeq, LenProperties
  <2> QED BY <2>1
<1>l. log' = log \/ \E e : log' = Append(log, e)
  BY DEF Next, vars, Tick, Arrive, next_audit_event_id, record_event, AuditUnavailable,
         last_audit_event_id, remember_decision
<1>r. \A q \in Requests : Recorded(q) => Recorded(q)'
  BY <1>a, <1>l, RecordedStays
\* A step of r that leaves the ring alone and takes r to a step that is
\* recorded, or to none that has to be.
<1>s. ASSUME NEW r \in Requests, decisions' = decisions, req[r].step # "done",
             \A q \in Requests \ {r} : req'[q].step = req[q].step,
             req'[r].step \in {"written", "cited", "done"} => Recorded(r)'
      PROVE  TrailInv'
  <2>1. \A q \in Requests : req'[q].step \in {"written", "cited", "done"} => Recorded(q)'
    BY <1>s, <1>o, <1>r
  <2>2. ASSUME NEW i \in DOMAIN decisions PROVE req'[decisions[i].of].step = "done"
    BY <1>s, <1>o, <1>p
  <2> QED BY <1>a, <1>s, <2>1, <2>2 DEF TrailInv
<1>1. ASSUME req' = req, decisions' = decisions PROVE TrailInv'
  <2>1. \A q \in Requests : req'[q].step \in {"written", "cited", "done"} => Recorded(q)'
    BY <1>1, <1>o, <1>r
  <2> QED BY <1>1, <1>a, <1>o, <2>1 DEF TrailInv
<1>2. ASSUME NEW r \in Requests, Arrive(r) PROVE TrailInv'
  <2>1. \A q \in Requests \ {r} : req'[q].step = req[q].step
    <3> SUFFICES ASSUME NEW q \in Requests \ {r} PROVE req'[q].step = req[q].step
      OBVIOUS
    <3>1. req'[q] = [req[q] EXCEPT !.overlapped = TRUE] \/ req'[q] = req[q]
      BY <1>2, Zenon DEF Arrive
    <3> QED BY <3>1, <1>t DEF Progress
  <2>2. req'[r].step = "stamped"
    BY <1>2 DEF Arrive, Idle
  <2> QED BY <1>2, <1>s, <2>1, <2>2 DEF Arrive
<1>3. ASSUME NEW r \in Requests, next_audit_event_id(r) PROVE TrailInv'
  <2>1. Advances(r, "numbered")
    BY <1>3, <1>a, Advance
  <2> QED BY <1>3, <1>s, <2>1 DEF next_audit_event_id, Advances
<1>4. ASSUME NEW r \in Requests, record_event(r) PROVE TrailInv'
  <2>1. Advances(r, IF r \in Decides THEN "written" ELSE "done")
    BY <1>4, <1>a, Advance
  <2> DEFINE e == [id |-> audit_event_id(TenantOf[r], req[r].number), of |-> r, at |-> req[r].at]
  <2>2. log' = Append(log, e) /\ e.of = r
    BY <1>4 DEF record_event
  <2> HIDE DEF e
  <2>3. Len(log) + 1 \in 1..Len(log') /\ log'[Len(log) + 1] = e
    BY <2>2, <1>t
  <2>4. Recorded(r)'
    BY <2>2, <2>3 DEF Recorded
  <2> QED BY <1>4, <1>s, <2>1, <2>4 DEF record_event, Advances
<1>5. ASSUME NEW r \in Requests, AuditUnavailable(r) PROVE TrailInv'
  <2>1. Advances(r, "refused")
    BY <1>5, <1>a, Advance
  <2> QED BY <1>5, <1>s, <2>1 DEF AuditUnavailable, Advances
<1>6. ASSUME NEW r \in Requests, last_audit_event_id(r) PROVE TrailInv'
  <2>1. Advances(r, "cited")
    BY <1>6, <1>a, Advance
  <2>2. req[r].step = "written" /\ decisions' = decisions
    BY <1>6 DEF last_audit_event_id
  <2>3. Recorded(r)'
    BY <2>2, <1>o, <1>r
  <2> QED BY <1>s, <2>1, <2>2, <2>3 DEF Advances
<1>7. ASSUME NEW r \in Requests, remember_decision(r) PROVE TrailInv'
  <2>1. Advances(r, "done")
    BY <1>7, <1>a, Advance
  <2>2. req[r].step = "cited"
    BY <1>7 DEF remember_decision
  <2>3. Recorded(r)'
    BY <2>2, <1>o, <1>r
  <2>4. \A q \in Requests : req'[q].step \in {"written", "cited", "done"} => Recorded(q)'
    BY <2>1, <2>3, <1>o, <1>r DEF Advances
  <2>5. \A q \in Requests : req[q].step = "done" => req'[q].step = "done"
    BY <2>1 DEF Advances
  <2> DEFINE x == [decision_id |-> audit_event_id(TenantOf[r], req[r].cites), of |-> r]
             S == [decision_id : EventId, of : Requests]
  <2>6. decisions' = Trimmed(Append(decisions, x)) /\ x.of = r
    BY <1>7 DEF remember_decision
  <2>7. x \in S
    BY <1>t DEF audit_event_id, EventId, Tenants, Progress
  <2> HIDE DEF x, S
  <2>8. decisions \in Seq(S)
    BY <1>t DEF S
  <2>9. /\ decisions' \in Seq(S)
        /\ Len(decisions') = IF Len(decisions) >= Keep THEN Len(decisions) ELSE Len(decisions) + 1
        /\ \A i \in 1..Len(decisions') :
              decisions'[i] = IF i = Len(decisions') THEN x
                              ELSE IF Len(decisions) >= Keep THEN decisions[i + 1] ELSE decisions[i]
    <3>1. Pushed(decisions, x, Trimmed(Append(decisions, x)), S)
      BY <2>6, <2>7, <2>8, RingStep, Zenon
    <3> QED BY <3>1, <2>6, Zenon DEF Pushed
  <2>10. ASSUME NEW i \in DOMAIN decisions' PROVE req'[decisions'[i].of].step = "done"
    <3>1. i \in 1..Len(decisions') /\ Len(decisions) \in Nat /\ Len(decisions') \in Nat
      BY <2>8, <2>9
    <3>2. CASE i = Len(decisions')
      BY <3>1, <3>2, <2>9, <2>6, <2>1 DEF Advances
    <3>3. CASE i # Len(decisions')
      <4>1. PICK j \in 1..Len(decisions) : decisions'[i] = decisions[j]
        BY <3>1, <3>3, <2>9
      <4>2. j \in DOMAIN decisions
        BY <2>8
      <4> QED BY <4>1, <4>2, <1>o, <1>p, <2>5
    <3> QED BY <3>2, <3>3
  <2> QED BY <1>a, <2>4, <2>10 DEF TrailInv
<1> QED BY <1>1, <1>2, <1>3, <1>4, <1>5, <1>6, <1>7 DEF Next, Tick, vars

\* An authorization that was answered by its own decision, and every piece of
\* evidence, has its event in the trail, although the store may refuse a write
\* between any two steps of any request (AuthMesh::authorize fails closed).
THEOREM AnsweredIsRecordedHolds == Spec => []AnsweredIsRecorded
<1>1. TrailInv => AnsweredIsRecorded
  <2> SUFFICES ASSUME TrailInv PROVE AnsweredIsRecorded
    OBVIOUS
  <2>1. \A r \in Requests : req[r].step = "done" => Recorded(r)
    BY DEF TrailInv
  <2>2. ASSUME NEW i \in 1..Len(decisions) PROVE Recorded(decisions[i].of)
    <3>0. decisions \in Seq([decision_id : EventId, of : Requests])
      BY DEF TrailInv, AuditTypes
    <3>1. i \in DOMAIN decisions /\ decisions[i] \in [decision_id : EventId, of : Requests]
      BY <3>0, ElementOfSeq, LenProperties
    <3> QED BY <3>1, <2>1 DEF TrailInv
  <2> QED BY <2>1, <2>2 DEF AnsweredIsRecorded, Recorded
<1> QED BY <1>1, TrailInit, TrailNext, PTL DEF Spec

(***************************************************************************)
(* The ring is the newest evidence                                         *)
(***************************************************************************)

\* Every step keeps the ring at the newest of what was remembered.
LEMMA RingNext == RingInv /\ [Next]_vars => RingInv'
<1> SUFFICES ASSUME RingInv, [Next]_vars PROVE RingInv'
  OBVIOUS
<1>a. AuditTypes /\ AuditTypes'
  BY TypesNext DEF RingInv
<1>1. ASSUME decisions' = decisions, remembered' = remembered PROVE RingInv'
  BY <1>1, <1>a DEF RingInv
<1>2. ASSUME NEW r \in Requests, remember_decision(r) PROVE RingInv'
  <2> DEFINE x == [decision_id |-> audit_event_id(TenantOf[r], req[r].cites), of |-> r]
             S == [decision_id : EventId, of : Requests]
  <2>1. decisions' = Trimmed(Append(decisions, x)) /\ x.of = r /\ remembered' = Append(remembered, r)
    BY <1>2 DEF remember_decision
  <2>2. req[r] \in Progress
    BY <1>a DEF AuditTypes
  <2>3. x \in S
    BY <2>2 DEF audit_event_id, EventId, Tenants, Progress
  <2> HIDE DEF x, S
  <2>4. decisions \in Seq(S) /\ remembered \in Seq(Requests)
    BY <1>a DEF AuditTypes, S
  <2>5. /\ decisions' \in Seq(S)
        /\ Len(decisions') = IF Len(decisions) >= Keep THEN Len(decisions) ELSE Len(decisions) + 1
        /\ \A i \in 1..Len(decisions') :
              decisions'[i] = IF i = Len(decisions') THEN x
                              ELSE IF Len(decisions) >= Keep THEN decisions[i + 1] ELSE decisions[i]
    <3>1. Pushed(decisions, x, Trimmed(Append(decisions, x)), S)
      BY <2>1, <2>3, <2>4, RingStep, Zenon
    <3> QED BY <3>1, <2>1, Zenon DEF Pushed
  <2>6. /\ Len(remembered') = Len(remembered) + 1 /\ remembered'[Len(remembered) + 1] = r
        /\ \A k \in 1..Len(remembered) : remembered'[k] = remembered[k]
        /\ Len(remembered) \in Nat /\ Len(decisions) \in Nat /\ Keep \in Nat \ {0}
    BY <2>1, <2>4, AuditTrailAssumption
  <2>7. /\ Len(decisions) = IF Len(remembered) > Keep THEN Keep ELSE Len(remembered)
        /\ \A i \in 1..Len(decisions) :
              decisions[i].of = remembered[Len(remembered) - Len(decisions) + i]
    BY <2>4 DEF RingInv
  <2>8. Len(decisions') = IF Len(remembered') > Keep THEN Keep ELSE Len(remembered')
    BY <2>5, <2>6, <2>7
  <2>9. ASSUME NEW i \in 1..Len(decisions')
        PROVE  decisions'[i].of = remembered'[Len(remembered') - Len(decisions') + i]
    <3>1. CASE i = Len(decisions')
      BY <3>1, <2>1, <2>5, <2>6
    <3>2. CASE i # Len(decisions') /\ Len(decisions) >= Keep
      <4>1. decisions'[i] = decisions[i + 1] /\ i + 1 \in 1..Len(decisions) /\ Len(decisions') = Len(decisions)
        BY <3>2, <2>5, <2>6
      <4>2. Len(remembered) - Len(decisions) + (i + 1) \in 1..Len(remembered)
        BY <4>1, <2>6, <2>7
      <4>3. Len(remembered) - Len(decisions) + (i + 1) = Len(remembered') - Len(decisions') + i
        BY <4>1, <2>6
      <4>4. decisions[i + 1].of = remembered[Len(remembered) - Len(decisions) + (i + 1)]
        BY <4>1, <2>7
      <4> QED BY <4>1, <4>2, <4>3, <4>4, <2>6
    <3>3. CASE i # Len(decisions') /\ ~ (Len(decisions) >= Keep)
      <4>1. decisions'[i] = decisions[i] /\ i \in 1..Len(decisions) /\ Len(decisions') = Len(decisions) + 1
        BY <3>3, <2>5, <2>6
      <4>2. Len(remembered) - Len(decisions) + i \in 1..Len(remembered)
        BY <4>1, <2>6, <2>7
      <4>3. Len(remembered) - Len(decisions) + i = Len(remembered') - Len(decisions') + i
        BY <4>1, <2>6
      <4> QED BY <4>1, <4>2, <4>3, <2>6, <2>7
    <3> QED BY <3>1, <3>2, <3>3
  <2>10. DOMAIN decisions' = 1..Len(decisions')
    BY <2>5
  <2> QED BY <1>a, <2>8, <2>9, <2>10 DEF RingInv
<1> QED BY <1>1, <1>2 DEF Next, Tick, vars, Arrive, next_audit_event_id, record_event,
                          AuditUnavailable, last_audit_event_id

\* The ring of recent decisions is the last Keep of those that were remembered,
\* in their order (remember_decision pops the front after each push).
THEOREM RingIsRecentHolds == Spec => []RingIsRecent
<1>1. Init => RingInv
  <2> SUFFICES ASSUME Init PROVE RingInv
    OBVIOUS
  <2>1. decisions = <<>> /\ remembered = <<>>
    BY DEF Init
  <2>2. AuditTypes /\ Keep \in Nat
    BY TypesInit, AuditTrailAssumption
  <2> QED BY <2>1, <2>2 DEF RingInv
<1>2. RingInv => RingIsRecent
  <2> SUFFICES ASSUME RingInv PROVE RingIsRecent
    OBVIOUS
  <2> DEFINE n == Len(remembered)
             d == Len(decisions)
             of == [i \in 1..d |-> decisions[i].of]
  <2>1. /\ remembered \in Seq(Requests) /\ n \in Nat /\ d \in Nat
        /\ decisions \in Seq([decision_id : EventId, of : Requests])
        /\ Keep \in Nat \ {0}
    BY AuditTrailAssumption DEF RingInv, AuditTypes
  <2>2. d = IF n > Keep THEN Keep ELSE n
    BY DEF RingInv
  <2>3. \A i \in 1..d : decisions[i].of = remembered[n - d + i]
    BY <2>1 DEF RingInv
  <2>4. SubSeq(remembered, n - d + 1, n) = [i \in 1..d |-> remembered[i + (n - d + 1) - 1]]
    <3>1. n - (n - d + 1) + 1 = d
      BY <2>1
    <3>2. SubSeq(remembered, n - d + 1, n)
            = [i \in 1..(n - (n - d + 1) + 1) |-> remembered[i + (n - d + 1) - 1]]
      BY <2>1 DEF SubSeq
    <3> QED BY <3>1, <3>2
  <2>5. \A i \in 1..d : n - d + i = i + (n - d + 1) - 1
    BY <2>1
  <2>6. of = SubSeq(remembered, n - d + 1, n)
    BY <2>3, <2>4, <2>5
  <2> QED BY <2>2, <2>6 DEF RingIsRecent
<1> QED BY <1>1, <1>2, RingNext, PTL DEF Spec

(***************************************************************************)
(* A decision made alone is explained                                      *)
(***************************************************************************)

\* What LoneInv says of one request.
Sound(r) ==
    /\ Taken(r) => req[r].number \in Nat /\ req[r].number < audit_sequence
    /\ req[r].cites < audit_sequence
    /\ req[r].step \in {"idle", "stamped"} => req[r].cites = None
    /\ req[r].step \in {"written", "cited"} => r \in Decides
    /\ req[r].step # "idle" /\ ~ req[r].overlapped => Alone(r)

\* What LoneInv says of one piece of evidence x.
Cites(x) ==
    /\ req[x.of].step = "done" /\ x.of \in Decides
    /\ x.decision_id = audit_event_id(TenantOf[x.of], req[x.of].cites)

\* LoneInv, request by request and entry by entry.
LEMMA LoneParts ==
    LoneInv <=> /\ AuditTypes
                /\ \A r \in Requests : Sound(r)
                /\ \A i \in DOMAIN decisions : Cites(decisions[i])
BY DEF LoneInv, Sound, Cites

\* Evidence comes from requests.
LEMMA EvidenceTyped ==
    ASSUME AuditTypes, NEW i \in DOMAIN decisions
    PROVE  decisions[i].of \in Requests /\ i \in 1..Len(decisions)
<1>1. decisions \in Seq([decision_id : EventId, of : Requests])
  BY DEF AuditTypes
<1>2. i \in 1..Len(decisions) /\ decisions[i] \in [decision_id : EventId, of : Requests]
  BY <1>1, ElementOfSeq, LenProperties
<1> QED BY <1>2

\* While r is in flight, whoever is alone is through; so a step of r that gives
\* it a newer number, or leaves its number, and lets it cite nobody else's,
\* leaves what the others rely on.
LEMMA OthersStaySound ==
    ASSUME LoneInv, AuditTypes', NEW r \in Requests, NEW q \in Requests \ {r},
           InFlight(r),
           \A p \in Requests \ {r} : req'[p] = req[p],
           audit_sequence' \in {audit_sequence, audit_sequence + 1},
           Taken(r)' /\ InFlight(r)' =>
               req'[r].number = audit_sequence \/ (Taken(r) /\ req'[r].number = req[r].number),
           req'[r].cites = req[r].cites \/ (Taken(r) /\ req'[r].cites = audit_sequence - 1)
    PROVE  Sound(q)'
<1>a. /\ req[q] \in Progress /\ req[r] \in Progress /\ req'[r] \in Progress
      /\ audit_sequence \in Nat /\ req'[q] = req[q]
  BY DEF LoneInv, AuditTypes
<1>t. /\ req[q].number \in Int /\ req[q].cites \in Int /\ req[r].number \in Int
      /\ req'[r].number \in Int /\ req'[r].cites \in Int
  BY <1>a DEF Progress
<1>s. Sound(q) /\ Sound(r)
  BY LoneParts
<1>1. /\ Taken(q)' => req'[q].number \in Nat /\ req'[q].number < audit_sequence'
      /\ req'[q].cites < audit_sequence'
      /\ req'[q].step \in {"idle", "stamped"} => req'[q].cites = None
      /\ req'[q].step \in {"written", "cited"} => q \in Decides
  BY <1>a, <1>t, <1>s DEF Sound, Taken
<1>2. ASSUME req[q].step # "idle", ~ req[q].overlapped PROVE Alone(q)'
  <2>1. Alone(q)
    BY <1>2, <1>s DEF Sound
  <2>2. ~ InFlight(q) /\ ~ InFlight(q)'
    BY <2>1, <1>a DEF Alone, InFlight
  <2>3. ASSUME Taken(q) PROVE Taken(r)' /\ InFlight(r)' => req'[r].number > req'[q].number
    <3>1. req[q].number < audit_sequence
      BY <1>s, <2>3 DEF Sound
    <3>2. Taken(r) => req[r].number > req[q].number
      BY <2>1, <2>2, <2>3 DEF Alone
    <3> QED BY <3>1, <3>2, <1>a, <1>t
  <2>4. ASSUME Taken(q) PROVE req'[r].cites # req'[q].number
    <3>1. req[r].cites # req[q].number
      BY <2>1, <2>4 DEF Alone
    <3>2. Taken(r) => req[r].number > req[q].number /\ req[r].number < audit_sequence
      BY <2>1, <2>2, <2>4, <1>s DEF Alone, Sound
    <3> QED BY <3>1, <3>2, <1>a, <1>t
  <2>5. ASSUME Taken(q), NEW p \in Requests \ {q}
        PROVE  /\ Taken(p)' /\ InFlight(p)' => req'[p].number > req'[q].number
               /\ req'[p].cites # req'[q].number
    <3>1. CASE p = r
      BY <3>1, <2>3, <2>4, <2>5
    <3>2. CASE p # r
      <4>1. req'[p] = req[p]
        BY <3>2
      <4>2. /\ Taken(p) /\ InFlight(p) => req[p].number > req[q].number
            /\ req[p].cites # req[q].number
        BY <2>1, <2>2, <2>5 DEF Alone
      <4> QED BY <4>1, <4>2, <1>a DEF Taken, InFlight
    <3> QED BY <3>1, <3>2
  <2>6. Taken(q)' <=> Taken(q)
    BY <1>a DEF Taken
  <2>7. Cited(q)' => req'[q].cites = req'[q].number
    BY <2>1, <1>a DEF Alone, Cited
  <2> QED BY <2>2, <2>5, <2>6, <2>7 DEF Alone
<1> QED BY <1>1, <1>2, <1>a DEF Sound

\* A request in flight has left no evidence yet; what there is, stays.
LEMMA EvidenceStays ==
    ASSUME LoneInv, AuditTypes', NEW r \in Requests, req[r].step # "done",
           \A p \in Requests \ {r} : req'[p].step = req[p].step /\ req'[p].cites = req[p].cites
    PROVE  \A i \in DOMAIN decisions : Cites(decisions[i]) /\
              (/\ req'[decisions[i].of].step = "done" /\ decisions[i].of \in Decides
               /\ decisions[i].decision_id
                    = audit_event_id(TenantOf[decisions[i].of], req'[decisions[i].of].cites))
<1> SUFFICES ASSUME NEW i \in DOMAIN decisions
             PROVE  Cites(decisions[i]) /\
              (/\ req'[decisions[i].of].step = "done" /\ decisions[i].of \in Decides
               /\ decisions[i].decision_id
                    = audit_event_id(TenantOf[decisions[i].of], req'[decisions[i].of].cites))
  OBVIOUS
<1>1. Cites(decisions[i])
  BY LoneParts
<1>2. decisions[i].of \in Requests \ {r}
  BY <1>1, EvidenceTyped DEF LoneInv, Cites
<1> QED BY <1>1, <1>2 DEF Cites

\* Every step but the last of a request leaves the ring alone.
LEMMA LoneFrame ==
    ASSUME LoneInv, AuditTypes', NEW r \in Requests, req[r].step # "done",
           \A p \in Requests \ {r} : req'[p].step = req[p].step /\ req'[p].cites = req[p].cites,
           decisions' = decisions,
           \A q \in Requests : Sound(q)'
    PROVE  LoneInv'
<1>1. \A i \in DOMAIN decisions' : Cites(decisions[i])'
  BY EvidenceStays DEF Cites
<1>2. (/\ AuditTypes /\ \A q \in Requests : Sound(q)
       /\ \A i \in DOMAIN decisions : Cites(decisions[i]))'
  BY <1>1
<1> QED BY <1>2 DEF LoneInv, Sound, Cites

\* An arrival marks whoever is in flight, itself included when it is not alone.
LEMMA LoneArrive ==
    ASSUME LoneInv, AuditTypes', NEW r \in Requests, Arrive(r)
    PROVE  LoneInv'
<1>t. /\ audit_sequence \in Nat /\ audit_sequence' = audit_sequence /\ decisions' = decisions
      /\ \A q \in Requests : req[q] \in Progress
      /\ req[r].step = "idle"
  BY DEF LoneInv, AuditTypes, Arrive
<1>n. \A q \in Requests : req[q].number \in Int /\ req[q].cites \in Int
  BY <1>t DEF Progress
<1>s. \A q \in Requests : Sound(q)
  BY LoneParts
<1> DEFINE busy == {q \in Requests : InFlight(q)}
<1>1. req'[r] = [Idle EXCEPT !.at = clock, !.step = "stamped", !.overlapped = busy # {}]
  BY Zenon DEF Arrive
<1>2. \A q \in Requests \ {r} :
         /\ req'[q].step = req[q].step /\ req'[q].number = req[q].number
         /\ req'[q].cites = req[q].cites
         /\ ~ req'[q].overlapped => ~ InFlight(q) /\ ~ req[q].overlapped
  <2> SUFFICES ASSUME NEW q \in Requests \ {r}
               PROVE  /\ req'[q].step = req[q].step /\ req'[q].number = req[q].number
                      /\ req'[q].cites = req[q].cites
                      /\ ~ req'[q].overlapped => ~ InFlight(q) /\ ~ req[q].overlapped
    OBVIOUS
  <2>1. req'[q] = IF q \in busy THEN [req[q] EXCEPT !.overlapped = TRUE] ELSE req[q]
    BY Zenon DEF Arrive
  <2>2. CASE InFlight(q)
    <3>1. req'[q] = [req[q] EXCEPT !.overlapped = TRUE]
      BY <2>1, <2>2
    <3> QED BY <3>1, <1>t DEF Progress
  <2>3. CASE ~ InFlight(q)
    <3>1. req'[q] = req[q]
      BY <2>1, <2>3
    <3> QED BY <3>1, <2>3
  <2> QED BY <2>2, <2>3
<1>3. req'[r].step = "stamped" /\ req'[r].cites = None
  BY <1>1 DEF Idle
<1>4. ~ req'[r].overlapped => \A q \in Requests : ~ InFlight(q)
  <2>1. req'[r].overlapped = (busy # {})
    BY <1>1 DEF Idle
  <2> QED BY <2>1
<1>5. \A q \in Requests \ {r} : (InFlight(q)' <=> InFlight(q)) /\ (Taken(q)' <=> Taken(q))
  BY <1>2 DEF InFlight, Taken
<1>6. InFlight(r)' /\ ~ Taken(r)'
  BY <1>3 DEF InFlight, Taken
<1>7. Sound(r)'
  <2>1. ~ req'[r].overlapped => Alone(r)'
    BY <1>3, <1>4, <1>5, <1>6 DEF Alone, Cited
  <2>2. req'[r].cites < audit_sequence'
    BY <1>3, <1>t DEF None
  <2> QED BY <1>3, <1>6, <2>1, <2>2 DEF Sound
<1>8. ASSUME NEW q \in Requests \ {r} PROVE Sound(q)'
  <2>1. ASSUME req'[q].step # "idle", ~ req'[q].overlapped PROVE Alone(q)'
    <3>1. Alone(q) /\ ~ InFlight(q) /\ ~ InFlight(q)'
      BY <2>1, <1>2, <1>5, <1>s DEF Sound
    <3>2. ASSUME Taken(q), NEW p \in Requests \ {q}
          PROVE  /\ InFlight(p)' /\ Taken(p)' => req'[p].number > req'[q].number
                 /\ req'[p].cites # req'[q].number
      <4>1. req'[q].number = req[q].number /\ req[q].number \in Nat
        BY <3>2, <1>2, <1>s DEF Sound
      <4>2. CASE p = r
        BY <4>1, <4>2, <1>3, <1>6 DEF None
      <4>3. CASE p # r
        <5>1. /\ InFlight(p) /\ Taken(p) => req[p].number > req[q].number
              /\ req[p].cites # req[q].number
          BY <3>1, <3>2 DEF Alone
        <5> QED BY <5>1, <4>1, <4>3, <1>2, <1>5
      <4> QED BY <4>2, <4>3
    <3>3. Cited(q)' => req'[q].cites = req'[q].number
      BY <3>1, <1>2 DEF Alone, Cited
    <3> QED BY <3>1, <3>2, <3>3, <1>5 DEF Alone
  <2> QED BY <2>1, <1>2, <1>5, <1>t, <1>s DEF Sound
<1>9. \A q \in Requests : Sound(q)'
  BY <1>7, <1>8
<1> QED BY <1>2, <1>9, <1>t, LoneFrame

\* The atomic fetch_add gives a number nobody has or cites.
LEMMA LoneNumber ==
    ASSUME LoneInv, AuditTypes', NEW r \in Requests, next_audit_event_id(r)
    PROVE  LoneInv'
<1>t. /\ audit_sequence \in Nat /\ audit_sequence' = audit_sequence + 1 /\ decisions' = decisions
      /\ req[r].step = "stamped" /\ AuditTypes
      /\ \A q \in Requests : req[q] \in Progress /\ req'[q] \in Progress
  BY DEF LoneInv, AuditTypes, next_audit_event_id
<1>n. \A q \in Requests : req[q].cites \in Int /\ req[q].number \in Int
  BY <1>t DEF Progress
<1>s. \A q \in Requests : Sound(q)
  BY LoneParts
<1>1. Advances(r, "numbered") /\ req'[r].number = audit_sequence /\ req'[r].cites = req[r].cites
  BY <1>t, Advance
<1>2. InFlight(r) /\ InFlight(r)' /\ ~ Taken(r) /\ Taken(r)'
  BY <1>t, <1>1 DEF Advances, InFlight, Taken
<1>3. ASSUME NEW q \in Requests \ {r} PROVE Sound(q)'
  BY <1>t, <1>1, <1>2, OthersStaySound DEF Advances
<1>4. Sound(r)'
  <2>1. ASSUME ~ req[r].overlapped PROVE Alone(r)'
    <3>1. Alone(r)
      BY <2>1, <1>t, <1>s DEF Sound
    <3>2. \A q \in Requests \ {r} : ~ InFlight(q) /\ req[q].cites < audit_sequence
      BY <3>1, <1>2, <1>s DEF Alone, Sound
    <3>3. \A q \in Requests \ {r} : ~ InFlight(q)' /\ req'[q].cites # req'[r].number
      BY <3>2, <1>1, <1>n, <1>t DEF Advances, InFlight
    <3> QED BY <3>3, <1>1, <1>2, <1>t DEF Alone, Cited, Advances
  <2>2. req[r].cites < audit_sequence
    BY <1>s DEF Sound
  <2> QED BY <2>1, <2>2, <1>1, <1>2, <1>n, <1>t DEF Sound, Advances
<1>5. \A q \in Requests : Sound(q)'
  BY <1>3, <1>4
<1> QED BY <1>1, <1>5, <1>t, LoneFrame DEF Advances

\* The steps of r from its number on that keep its number: writing the event,
\* failing to, citing and remembering.
LEMMA LoneKeepsNumber ==
    ASSUME LoneInv, AuditTypes', NEW r \in Requests, NEW step,
           req[r].step \in {"numbered", "written", "cited"},
           Advances(r, step), req'[r].number = req[r].number,
           audit_sequence' = audit_sequence,
           \/ step \in {"written", "refused"} /\ req'[r].cites = req[r].cites
           \/ step = "cited" /\ req'[r].cites = audit_sequence - 1
           \/ step = "done" /\ req'[r].cites = req[r].cites /\ (r \notin Decides \/ req[r].step = "cited"),
           step \in {"written", "cited"} => r \in Decides
    PROVE  \A q \in Requests : Sound(q)'
<1>t. /\ audit_sequence \in Nat /\ req[r] \in Progress
      /\ \A q \in Requests : req[q] \in Progress
  BY DEF LoneInv, AuditTypes
<1>n. \A q \in Requests : req[q].cites \in Int /\ req[q].number \in Int
  BY <1>t DEF Progress
<1>s. Sound(r)
  BY LoneParts
<1>1. InFlight(r) /\ Taken(r) /\ Taken(r)' /\ req'[r].step = step
  BY DEF Advances, InFlight, Taken
<1>2. ASSUME NEW q \in Requests \ {r} PROVE Sound(q)'
  <2>1. req'[r].cites = req[r].cites \/ (Taken(r) /\ req'[r].cites = audit_sequence - 1)
    BY <1>1
  <2>2. \A p \in Requests \ {r} : req'[p] = req[p]
    BY DEF Advances
  <2> QED BY <1>1, <2>1, <2>2, OthersStaySound
<1>3. Sound(r)'
  <2>1. ASSUME ~ req[r].overlapped PROVE Alone(r)'
    <3>1. Alone(r)
      BY <2>1, <1>1, <1>s DEF Sound, InFlight
    <3>2. /\ \A q \in Requests \ {r} : ~ InFlight(q) /\ req[q].cites # req[r].number
          /\ audit_sequence = req[r].number + 1
      BY <3>1, <1>1 DEF Alone
    <3>3. \A q \in Requests \ {r} : ~ InFlight(q)' /\ req'[q].cites # req'[r].number
      BY <3>2 DEF Advances, InFlight
    <3>4. Cited(r)' => req'[r].cites = req'[r].number
      <4>1. CASE step = "cited"
        BY <4>1, <3>2, <1>n
      <4>2. CASE step = "done" /\ r \in Decides
        <5>1. Cited(r)
          BY <4>2 DEF Cited
        <5> QED BY <5>1, <4>2, <3>1 DEF Alone
      <4> QED BY <4>1, <4>2, <1>1 DEF Cited
    <3> QED BY <3>2, <3>3, <3>4, <1>1 DEF Alone
  <2>2. req'[r].cites < audit_sequence'
    BY <1>s, <1>n, <1>t DEF Sound
  <2> QED BY <2>1, <2>2, <1>1, <1>s DEF Sound, Advances
<1> QED BY <1>2, <1>3

\* Every step leaves a lone request what it relies on.
LEMMA LoneNext == LoneInv /\ [Next]_vars => LoneInv'
<1> SUFFICES ASSUME LoneInv, [Next]_vars PROVE LoneInv'
  OBVIOUS
<1>a. AuditTypes /\ AuditTypes'
  BY TypesNext DEF LoneInv
<1>1. ASSUME req' = req, decisions' = decisions, audit_sequence' = audit_sequence PROVE LoneInv'
  BY <1>1, <1>a DEF LoneInv, Alone, InFlight, Taken, Cited
<1>2. ASSUME NEW r \in Requests, Arrive(r) PROVE LoneInv'
  BY <1>2, <1>a, LoneArrive
<1>3. ASSUME NEW r \in Requests, next_audit_event_id(r) PROVE LoneInv'
  BY <1>3, <1>a, LoneNumber
<1>4. ASSUME NEW r \in Requests, record_event(r) PROVE LoneInv'
  <2> DEFINE step == IF r \in Decides THEN "written" ELSE "done"
  <2>1. /\ Advances(r, step)
        /\ req'[r].number = req[r].number /\ req'[r].cites = req[r].cites
    BY <1>4, <1>a, Advance
  <2>2. /\ req[r].step = "numbered" /\ audit_sequence' = audit_sequence /\ decisions' = decisions
        /\ \/ step = "written" /\ r \in Decides
           \/ step = "done" /\ r \notin Decides
    BY <1>4 DEF record_event
  <2> HIDE DEF step
  <2>3. \A q \in Requests : Sound(q)'
    BY <1>a, <2>1, <2>2, LoneKeepsNumber
  <2> QED BY <1>a, <2>1, <2>2, <2>3, LoneFrame DEF Advances
<1>5. ASSUME NEW r \in Requests, AuditUnavailable(r) PROVE LoneInv'
  <2>1. /\ Advances(r, "refused")
        /\ req'[r].number = req[r].number /\ req'[r].cites = req[r].cites
    BY <1>5, <1>a, Advance
  <2>2. req[r].step = "numbered" /\ audit_sequence' = audit_sequence /\ decisions' = decisions
    BY <1>5 DEF AuditUnavailable
  <2>3. \A q \in Requests : Sound(q)'
    BY <1>a, <2>1, <2>2, LoneKeepsNumber
  <2> QED BY <1>a, <2>1, <2>2, <2>3, LoneFrame DEF Advances
<1>6. ASSUME NEW r \in Requests, last_audit_event_id(r) PROVE LoneInv'
  <2>1. /\ Advances(r, "cited")
        /\ req'[r].number = req[r].number /\ req'[r].cites = audit_sequence - 1
    BY <1>6, <1>a, Advance
  <2>2. req[r].step = "written" /\ audit_sequence' = audit_sequence /\ decisions' = decisions
    BY <1>6 DEF last_audit_event_id
  <2>3. r \in Decides
    BY <2>2 DEF LoneInv
  <2>4. \A q \in Requests : Sound(q)'
    BY <1>a, <2>1, <2>2, <2>3, LoneKeepsNumber
  <2> QED BY <1>a, <2>1, <2>2, <2>4, LoneFrame DEF Advances
<1>7. ASSUME NEW r \in Requests, remember_decision(r) PROVE LoneInv'
  <2>1. /\ Advances(r, "done")
        /\ req'[r].number = req[r].number /\ req'[r].cites = req[r].cites
    BY <1>7, <1>a, Advance
  <2>2. req[r].step = "cited" /\ audit_sequence' = audit_sequence
    BY <1>7 DEF remember_decision
  <2>3. r \in Decides /\ req[r] \in Progress
    BY <2>2 DEF LoneInv, AuditTypes
  <2>4. \A q \in Requests : Sound(q)'
    BY <1>a, <2>1, <2>2, <2>3, LoneKeepsNumber
  <2> DEFINE x == [decision_id |-> audit_event_id(TenantOf[r], req[r].cites), of |-> r]
             S == [decision_id : EventId, of : Requests]
  <2>5. decisions' = Trimmed(Append(decisions, x))
    BY <1>7 DEF remember_decision
  <2>6. x \in S
    BY <2>3 DEF audit_event_id, EventId, Tenants, Progress
  <2>7. /\ req'[x.of].step = "done" /\ x.of \in Decides
        /\ x.decision_id = audit_event_id(TenantOf[x.of], req'[x.of].cites)
    BY <2>1, <2>3 DEF Advances
  <2> HIDE DEF x, S
  <2>8. decisions \in Seq(S)
    BY <1>a DEF AuditTypes, S
  <2>9. /\ decisions' \in Seq(S)
        /\ Len(decisions') = IF Len(decisions) >= Keep THEN Len(decisions) ELSE Len(decisions) + 1
        /\ \A i \in 1..Len(decisions') :
              decisions'[i] = IF i = Len(decisions') THEN x
                              ELSE IF Len(decisions) >= Keep THEN decisions[i + 1] ELSE decisions[i]
    <3>1. Pushed(decisions, x, Trimmed(Append(decisions, x)), S)
      BY <2>6, <2>8, RingStep, Zenon
    <3> QED BY <3>1, <2>5, Zenon DEF Pushed
  <2>10. \A p \in Requests \ {r} : req'[p].step = req[p].step /\ req'[p].cites = req[p].cites
    BY <2>1 DEF Advances
  <2>11. \A i \in DOMAIN decisions :
            /\ req'[decisions[i].of].step = "done" /\ decisions[i].of \in Decides
            /\ decisions[i].decision_id
                 = audit_event_id(TenantOf[decisions[i].of], req'[decisions[i].of].cites)
    BY <1>a, <2>2, <2>10, EvidenceStays
  <2>12. ASSUME NEW i \in DOMAIN decisions' PROVE Cites(decisions[i])'
    <3>1. i \in 1..Len(decisions') /\ Len(decisions) \in Nat /\ Len(decisions') \in Nat
          /\ DOMAIN decisions = 1..Len(decisions)
      BY <2>8, <2>9
    <3>2. CASE i = Len(decisions')
      <4>1. decisions'[i] = x
        BY <3>1, <3>2, <2>9
      <4> QED BY <4>1, <2>7 DEF Cites
    <3>3. CASE i # Len(decisions')
      <4>1. PICK j \in 1..Len(decisions) : decisions'[i] = decisions[j]
        <5>1. CASE Len(decisions) >= Keep
          <6>1. decisions'[i] = decisions[i + 1] /\ Len(decisions') = Len(decisions)
            BY <3>1, <3>3, <5>1, <2>9, Zenon
          <6>2. i + 1 \in 1..Len(decisions)
            BY <3>1, <3>3, <6>1
          <6> QED BY <6>1, <6>2
        <5>2. CASE ~ (Len(decisions) >= Keep)
          <6>1. i \in 1..Len(decisions) /\ decisions'[i] = decisions[i]
            BY <3>1, <3>3, <5>2, <2>9
          <6> QED BY <6>1
        <5> QED BY <5>1, <5>2
      <4> QED BY <4>1, <3>1, <2>11 DEF Cites
    <3> QED BY <3>2, <3>3
  <2> QED BY <1>a, <2>4, <2>12 DEF LoneInv, Sound, Cites
<1> QED BY <1>1, <1>2, <1>3, <1>4, <1>5, <1>6, <1>7 DEF Next, Tick, vars

\* Nobody has arrived at the start.
LEMMA LoneInit == Init => LoneInv
<1> SUFFICES ASSUME Init PROVE LoneInv
  OBVIOUS
<1>1. AuditTypes /\ DOMAIN decisions = {} /\ audit_sequence = 0
  BY TypesInit DEF Init
<1>2. \A r \in Requests : req[r].step = "idle" /\ req[r].cites = None
  BY DEF Init, Idle
<1> QED BY <1>1, <1>2 DEF LoneInv, Taken, None

\* A set of positions has a first one.
LEMMA FirstPosition ==
    ASSUME NEW T, T \subseteq Nat, T # {}
    PROVE  \E i \in T : \A j \in T : i <= j
<1>1. \E x \in T : \A y \in T : ~ (<<y, x>> \in OpToRel(<, Nat))
  BY NatLessThanWellFounded, WFMin
<1>2. PICK x \in T : \A y \in T : ~ (<<y, x>> \in OpToRel(<, Nat))
  BY <1>1
<1>3. \A y \in T : ~ (y < x)
  BY <1>2 DEF OpToRel
<1> QED BY <1>3

\* A decision made while no other request was in flight cites its own event,
\* and its id leads to its own evidence and no other, as long as the ring keeps
\* it (last_audit_event_id reads the counter that every request advances).
THEOREM LoneDecisionExplainedHolds == Spec => []LoneDecisionExplained
<1>1. LoneInv => LoneDecisionExplained
  <2> SUFFICES ASSUME LoneInv, NEW i \in 1..Len(decisions),
                      ~ req[decisions[i].of].overlapped
               PROVE  /\ req[decisions[i].of].cites = req[decisions[i].of].number
                      /\ Explained(decisions[i].of)
    BY DEF LoneDecisionExplained
  <2>1. AuditTypes /\ DOMAIN decisions = 1..Len(decisions) /\ Len(decisions) \in Nat
    BY LenProperties DEF LoneInv, AuditTypes
  <2> DEFINE r == decisions[i].of
             id == audit_event_id(TenantOf[r], req[r].cites)
             hits == {k \in DOMAIN decisions : decisions[k].decision_id = id}
             first == CHOOSE k \in hits : \A j \in hits : k <= j
  <2>2. Cites(decisions[i]) /\ r \in Requests /\ Sound(r)
    BY <2>1, EvidenceTyped, LoneParts
  <2>3. Alone(r) /\ Taken(r) /\ req[r].cites = req[r].number
    BY <2>2 DEF Sound, Cites, Alone, Taken, Cited
  <2>4. i \in hits
    BY <2>1, <2>2 DEF Cites
  <2>5. ASSUME NEW k \in hits PROVE decisions[k].of = r
    <3>1. /\ k \in DOMAIN decisions /\ decisions[k].decision_id = id
          /\ Cites(decisions[k]) /\ decisions[k].of \in Requests
      BY <2>1, EvidenceTyped, LoneParts
    <3>2. req[decisions[k].of].cites = req[r].cites
      BY <3>1 DEF Cites, audit_event_id
    <3> QED BY <3>1, <3>2, <2>3 DEF Alone
  <2>6. first \in hits
    <3>1. hits \subseteq Nat /\ hits # {}
      BY <2>1, <2>4
    <3> HIDE DEF hits
    <3>2. \E k \in hits : \A j \in hits : k <= j
      BY <3>1, FirstPosition
    <3> QED BY <3>2
  <2>7. authorization_decision(id) = {decisions[first].of}
    BY <2>4, Zenon DEF authorization_decision
  <2> QED BY <2>3, <2>5, <2>6, <2>7 DEF Explained
<1> QED BY <1>1, LoneInit, LoneNext, PTL DEF Spec

(***************************************************************************)
(* Pages                                                                   *)
(***************************************************************************)

\* The hashed ids have an order.
RankTyped == \A n \in Int : Rank(n) \in Int

\* The order of a page: every two positions of the trail have one.
LEMMA BeforeOrders ==
    ASSUME AuditTypes, RankTyped
    PROVE  /\ DOMAIN log \subseteq Nat /\ IsFiniteSet(DOMAIN log)
           /\ \A i \in DOMAIN log : log[i].at \in Int /\ ~Before(i, i)
           /\ \A i, j \in DOMAIN log : i # j => Before(i, j) \/ Before(j, i)
           /\ \A i, j \in DOMAIN log : Before(i, j) => log[i].at <= log[j].at
           /\ \A i, j, k \in DOMAIN log : Before(i, j) /\ Before(j, k) => Before(i, k)
<1>1. log \in Seq([id : EventId, of : Requests, at : Int])
  BY DEF AuditTypes
<1>2. Len(log) \in Nat /\ DOMAIN log = 1..Len(log) /\ \A i \in 1..Len(log) : log[i] \in [id : EventId, of : Requests, at : Int]
  BY <1>1, ElementOfSeq, LenProperties
<1> DEFINE rank(i) == Rank(log[i].id.number)
<1>3. ASSUME NEW i \in DOMAIN log PROVE i \in Int /\ log[i].at \in Int /\ rank(i) \in Int
  <2>1. i \in 1..Len(log)
    BY <1>2
  <2>2. log[i].id \in EventId /\ log[i].at \in Int
    BY <1>2, <2>1
  <2>3. log[i].id.number \in Int
    BY <2>2 DEF EventId
  <2>4. Rank(log[i].id.number) \in Int
    BY <2>3 DEF RankTyped
  <2>5. i \in Int
    BY <1>2, <2>1
  <2> QED BY <2>2, <2>4, <2>5
<1>4. \A i, j : Earlier(log[i], log[j]) <=> log[i].at < log[j].at \/ (log[i].at = log[j].at /\ rank(i) < rank(j))
  BY DEF Earlier
<1> HIDE DEF rank
<1>5. IsFiniteSet(DOMAIN log)
  <2>1. IsFiniteSet(1..Len(log))
    BY <1>2, FS_Interval
  <2> QED BY <1>2, <2>1
<1>6. \A i, j \in DOMAIN log :
         Before(i, j) <=> \/ log[i].at < log[j].at
                          \/ log[i].at = log[j].at /\ rank(i) < rank(j)
                          \/ log[i].at = log[j].at /\ rank(i) = rank(j) /\ i < j
  BY <1>3, <1>4 DEF Before
<1>7. \A i, j \in DOMAIN log : i # j => Before(i, j) \/ Before(j, i)
  BY <1>3, <1>6
<1>8. \A i \in DOMAIN log : log[i].at \in Int /\ ~Before(i, i)
  BY <1>3, <1>6
<1>9. \A i, j, k \in DOMAIN log : Before(i, j) /\ Before(j, k) => Before(i, k)
  BY <1>3, <1>6
<1>10. \A i, j \in DOMAIN log : Before(i, j) => log[i].at <= log[j].at
  BY <1>3, <1>6
<1> QED BY <1>2, <1>5, <1>7, <1>8, <1>9, <1>10

Ahead(found, i) == {j \in found : Before(j, i)}
Place(found, i) == Cardinality(Ahead(found, i)) + 1

\* The places are counted without gaps: each event has one of its own, and each
\* place has its event.
LEMMA Places ==
    ASSUME AuditTypes, RankTyped, NEW found, found \subseteq DOMAIN log
    PROVE  /\ IsFiniteSet(found) /\ Cardinality(found) \in Nat
           /\ \A i \in found : Place(found, i) \in 1..Cardinality(found)
           /\ \A i, j \in found : Before(i, j) => Place(found, i) < Place(found, j)
           /\ \A k \in 1..Cardinality(found) : \E i \in found : Place(found, i) = k
<1> DEFINE n == Cardinality(found)
<1>1. IsFiniteSet(found) /\ n \in Nat
  BY BeforeOrders, FS_Subset, FS_CardinalityType
<1>2. ASSUME NEW i \in found
      PROVE  /\ IsFiniteSet(Ahead(found, i)) /\ Cardinality(Ahead(found, i)) \in Nat
             /\ Cardinality(Ahead(found, i)) < n
  <2>1. Ahead(found, i) \subseteq found /\ i \notin Ahead(found, i)
    BY BeforeOrders DEF Ahead
  <2> DEFINE A == Ahead(found, i)
  <2> HIDE DEF A
  <2>2. IsFiniteSet(A) /\ Cardinality(A) <= n /\ (n = Cardinality(A) => found = A)
    BY <1>1, <2>1, FS_Subset DEF A
  <2>3. Cardinality(A) \in Nat
    BY <2>2, FS_CardinalityType
  <2>4. Cardinality(A) # n
    BY <2>1, <2>2 DEF A
  <2> HIDE DEF n
  <2> QED BY <1>1, <2>2, <2>3, <2>4 DEF A
<1>3. ASSUME NEW i \in found, NEW j \in found, Before(i, j)
      PROVE  Cardinality(Ahead(found, i)) < Cardinality(Ahead(found, j))
  <2> DEFINE A == Ahead(found, i)
             B == Ahead(found, j)
  <2>1. A \subseteq B /\ i \in B /\ i \notin A
    BY <1>3, BeforeOrders DEF Ahead
  <2>2. IsFiniteSet(B) /\ Cardinality(A) \in Nat /\ Cardinality(B) \in Nat
    BY <1>2
  <2> HIDE DEF A, B
  <2>3. Cardinality(A) <= Cardinality(B) /\ (Cardinality(B) = Cardinality(A) => B = A)
    BY <2>1, <2>2, FS_Subset
  <2>4. Cardinality(A) # Cardinality(B)
    BY <2>1, <2>3
  <2>5. Cardinality(A) < Cardinality(B)
    BY <2>2, <2>3, <2>4
  <2> QED BY <2>5 DEF A, B
<1>4. \A i \in found : Place(found, i) \in 1..n
  <2> TAKE i \in found
  <2> DEFINE a == Cardinality(Ahead(found, i))
  <2>1. a \in Nat /\ a < n /\ Place(found, i) = a + 1
    BY <1>2 DEF Place
  <2> HIDE DEF a, n
  <2> QED BY <1>1, <2>1
<1>5. ASSUME NEW i \in found, NEW j \in found, Before(i, j) PROVE Place(found, i) < Place(found, j)
  <2> DEFINE a == Cardinality(Ahead(found, i))
             b == Cardinality(Ahead(found, j))
  <2>1. a \in Nat /\ b \in Nat /\ a < b /\ Place(found, i) = a + 1 /\ Place(found, j) = b + 1
    BY <1>2, <1>3, <1>5 DEF Place
  <2> HIDE DEF a, b
  <2> QED BY <2>1
<1>6. \A k \in 1..n : \E i \in found : Place(found, i) = k
  <2> DEFINE f == [i \in found |-> Place(found, i)]
  <2>1. \A i, j \in found : i # j => Place(found, i) # Place(found, j)
    <3> SUFFICES ASSUME NEW i \in found, NEW j \in found, i # j PROVE Place(found, i) # Place(found, j)
      OBVIOUS
    <3>1. Before(i, j) \/ Before(j, i)
      BY BeforeOrders
    <3>2. Place(found, i) \in Int /\ Place(found, j) \in Int
      BY <1>4
    <3> QED BY <1>5, <3>1, <3>2
  <2> HIDE DEF n
  <2>2. f \in Injection(found, 1..n)
    BY <1>4, <2>1 DEF Injection, IsInjective
  <2>3. IsFiniteSet(1..n) /\ Cardinality(1..n) = n
    BY <1>1, FS_Interval
  <2>4. Cardinality(found) = Cardinality(1..n) <=> f \in Surjection(found, 1..n)
    <3> HIDE DEF f
    <3> DEFINE T == 1..n
    <3>1. f \in Injection(found, T) /\ IsFiniteSet(T)
      BY <2>2, <2>3
    <3> HIDE DEF T
    <3>2. Cardinality(found) = Cardinality(T) <=> f \in Surjection(found, T)
      BY <3>1, FS_Injection
    <3> QED BY <3>2 DEF T
  <2>5. f \in Surjection(found, 1..n)
    BY <2>3, <2>4 DEF n
  <2> QED BY <2>5 DEF Surjection
<1> QED BY <1>1, <1>4, <1>5, <1>6

\* Reading on from the last time that a page shows misses nothing of the trail,
\* although requests append their events out of the order of their times
\* (MemoryAuditLog::events sorts, then truncates).
THEOREM PagesCoverTrailHolds ==
    ASSUME RankTyped
    PROVE  Spec => []PagesCoverTrail
<1>1. AuditTypes => PagesCoverTrail
  <2> SUFFICES ASSUME AuditTypes, NEW tenant \in Tenants, NEW since \in 0..MaxClock, NEW limit \in 1..Len(log)
               PROVE  LET page == events(tenant, since, limit)
                      IN /\ \A i \in 1..Len(page) : page[i].id.tenant = tenant
                         /\ \A i \in 1..Len(log) :
                               \/ log[i].id.tenant # tenant \/ log[i].at < since
                               \/ \E j \in 1..Len(page) : page[j] = log[i]
                               \/ Len(page) = limit /\ log[i].at >= Last(page).at
    BY DEF PagesCoverTrail
  <2> DEFINE page == events(tenant, since, limit)
             found == Found(tenant, since)
             n == Cardinality(found)
             cut == Cut(n, limit)
             place == [i \in found |-> Place(found, i)]
             holder(k) == CHOOSE i \in found : place[i] = k
  <2>1. page = [k \in 1..cut |-> log[holder(k)]]
    BY DEF events, Place, Ahead
  <2>2. Len(log) \in Nat /\ DOMAIN log = 1..Len(log)
    BY LenProperties DEF AuditTypes
  <2>3. found \subseteq DOMAIN log /\ \A i \in DOMAIN log : i \in found <=> log[i].id.tenant = tenant /\ log[i].at >= since
    BY DEF Found
  <2> HIDE DEF found
  <2>4. /\ n \in Nat
        /\ \A i \in found : Place(found, i) \in 1..n
        /\ \A i, j \in found : Before(i, j) => Place(found, i) < Place(found, j)
        /\ \A k \in 1..n : \E i \in found : Place(found, i) = k
    BY <2>3, Places
  <2> HIDE DEF n
  <2>5. cut \in Nat /\ cut <= n /\ (cut = n \/ cut = limit)
    BY <2>2, <2>4 DEF Cut
  <2> HIDE DEF cut
  <2>6. \A k \in 1..cut : holder(k) \in found /\ Place(found, holder(k)) = k
    <3> SUFFICES ASSUME NEW k \in 1..cut PROVE holder(k) \in found /\ Place(found, holder(k)) = k
      OBVIOUS
    <3>1. k \in 1..n
      BY <2>4, <2>5
    <3>2. \E i \in found : place[i] = k
      BY <2>4, <3>1
    <3>3. holder(k) \in found /\ place[holder(k)] = k
      BY <3>2
    <3> QED BY <3>3
  <2> HIDE DEF holder
  <2>7. Len(page) = cut /\ DOMAIN page = 1..cut /\ \A k \in 1..cut : page[k] = log[holder(k)]
    <3> HIDE DEF page
    <3>1. page \in Seq({log[holder(k)] : k \in 1..cut})
      BY <2>1, <2>5
    <3>2. DOMAIN page = 1..cut /\ \A k \in 1..cut : page[k] = log[holder(k)]
      BY <2>1
    <3> QED BY <2>5, <3>1, <3>2, LenProperties
  <2> HIDE DEF page
  <2>8. \A k \in 1..Len(page) : page[k].id.tenant = tenant
    BY <2>3, <2>6, <2>7
  <2>9. ASSUME NEW i \in 1..Len(log), ~(log[i].id.tenant # tenant \/ log[i].at < since),
               ~ \E j \in 1..Len(page) : page[j] = log[i]
        PROVE  Len(page) = limit /\ log[i].at >= Last(page).at
    <3>1. i \in found
      <4>1. log[i].at \in Int
        BY <2>2, BeforeOrders
      <4> QED BY <2>2, <2>3, <2>9, <4>1
    <3> DEFINE k == Place(found, i)
    <3>2. k \in 1..n
      BY <2>4, <3>1
    <3>3. ASSUME k <= cut PROVE FALSE
      <4>1. k \in 1..cut
        BY <2>5, <3>2, <3>3
      <4> HIDE DEF k
      <4> DEFINE h == holder(k)
      <4>2. h \in found /\ Place(found, h) = k /\ page[k] = log[h]
        BY <2>6, <2>7, <4>1
      <4> HIDE DEF h
      <4>3. h = i
        <5>1. Place(found, i) = k
          BY DEF k
        <5>2. h # i => Before(h, i) \/ Before(i, h)
          BY <2>3, <3>1, <4>2, BeforeOrders
        <5> QED BY <2>4, <3>1, <3>2, <4>2, <5>1, <5>2
      <4> QED BY <2>7, <2>9, <4>1, <4>2, <4>3
    <3> HIDE DEF k
    <3>4. cut = limit /\ limit \in 1..cut /\ limit < k
      BY <2>2, <2>4, <2>5, <3>2, <3>3
    <3> DEFINE h == holder(limit)
    <3>5. h \in found /\ Place(found, h) = limit /\ page[limit] = log[h]
      BY <2>6, <2>7, <3>4
    <3>6. Last(page) = log[h]
      BY <2>7, <3>4, <3>5 DEF Last
    <3> HIDE DEF h
    <3>7. Before(h, i)
      <4>1. Place(found, i) = k
        BY DEF k
      <4>2. ~Before(i, h) /\ h # i
        BY <2>4, <3>1, <3>2, <3>4, <3>5, <4>1
      <4> QED BY <2>3, <3>1, <3>5, <4>2, BeforeOrders
    <3>8. log[h].at \in Int /\ log[i].at \in Int /\ log[h].at <= log[i].at
      BY <2>3, <3>1, <3>5, <3>7, BeforeOrders
    <3> QED BY <2>7, <3>4, <3>6, <3>8
  <2> QED BY <2>8, <2>9 DEF page
<1>2. Spec => []AuditTypes
  BY TypesInit, TypesNext, PTL DEF Spec
<1> QED BY <1>1, <1>2, PTL
=============================================================================
