----------------------------- MODULE Elevation -----------------------------
(***************************************************************************)
(* The decisions of the governance tools: agents ask for a higher tier,    *)
(* people approve or deny the request, and the agent asks for its status;  *)
(* log_decision and get_audit_log write and read a bounded audit list.     *)
(* The store takes its lock to find a request and reads the fields of the  *)
(* request after it has released it, while an approval writes them one     *)
(* after the other: which of the old and the new values are read is left   *)
(* to the race, and so is what a status consists of that is overwritten    *)
(* while it is read.                                                       *)
(***************************************************************************)
EXTENDS Integers, Sequences, FiniteSets, SequencesExt

CONSTANTS Requests,      \* ids request_elevation gives out
          Lookups,       \* calls of check_elevation_status
          WantedTiers,   \* tiers the agents ask for
          MaxDecisions,  \* bound on the decisions of people
          Loggers,       \* agents that log decisions
          MaxAudit,      \* InMemoryAuditStore.maxSize
          MaxLogged,     \* bound on the decisions logged
          ReadLimit      \* limit of get_audit_log

ASSUME ElevationConstants ==
  /\ WantedTiers \subseteq Int /\ MaxAudit \in Nat \ {0} /\ ReadLimit \in Nat \ {0}
  /\ MaxDecisions \in Nat /\ MaxLogged \in Nat

VARIABLES
  request,   \* request[q]: the ElevationRequest, or NoRequest
  decider,   \* the approval or denial under way, which holds the store's lock
  decided,   \* history: the decisions taken on each request, in order
  lookup,    \* lookup[l]: where GetElevationStatus is, and what it has answered
  audit,     \* InMemoryAuditStore.entries
  loggedAll  \* history: every decision that was logged

elevationVars == <<request, decider, decided, lookup, audit, loggedAll>>

NoRequest == [status |-> "none", tier |-> 0, expires |-> 0]
NoDecision == [at |-> "idle"]
NoLookup == [at |-> "idle"]

ElevationInit ==
  /\ request = [q \in Requests |-> NoRequest] /\ decider = NoDecision
  /\ decided = [q \in Requests |-> <<>>]
  /\ lookup = [l \in Lookups |-> NoLookup]
  /\ audit = <<>> /\ loggedAll = <<>>

Known(q) == request[q].status # "none"
Decisions == FoldSet(LAMBDA q, n : Len(decided[q]) + n, 0, Requests)

\* The values the fields of a request have had since a lookup found it, brought up to
\* date by every step that writes one.
Watched(status, expires) ==
  [l \in Lookups |->
     IF lookup[l].at = "found" /\ lookup[l].of = decider.of
     THEN [lookup[l] EXCEPT !.statuses = @ \cup {status}, !.expiries = @ \cup {expires}]
     ELSE lookup[l]]

-----------------------------------------------------------------------------
\* request_elevation; a tier outside 0-4 or an empty reason is refused.
RequestElevation(q) ==
  /\ ~Known(q) /\ decider.at = "idle"
  /\ \E t \in WantedTiers : t \in 0 .. 4 /\ request' = [request EXCEPT ![q] =
                               [status |-> "pending", tier |-> t, expires |-> 0]]
  /\ UNCHANGED <<decider, decided, lookup, audit, loggedAll>>

\* ApproveElevation and DenyElevation take the lock and find the request, whatever has
\* been decided on it before.  An approval is numbered by the decisions so far, which
\* stands for the time it expires.
TakeDecision(q) ==
  /\ decider.at = "idle" /\ Known(q) /\ Decisions < MaxDecisions
  /\ \E verdict \in {"approved", "denied"} :
       /\ decider' = [at |-> "status", of |-> q, verdict |-> verdict]
       /\ decided' = [decided EXCEPT ![q] = Append(@, verdict)]
  /\ UNCHANGED <<request, lookup, audit, loggedAll>>

\* req.Status is assigned; a denial is complete then.
WriteStatus ==
  /\ decider.at = "status"
  /\ request' = [request EXCEPT ![decider.of].status = decider.verdict]
  /\ lookup' = Watched(decider.verdict, request[decider.of].expires)
  /\ decider' = IF decider.verdict = "denied" THEN NoDecision ELSE [decider EXCEPT !.at = "expiry"]
  /\ UNCHANGED <<decided, audit, loggedAll>>

\* req.ApprovedAt and req.ExpiresAt, and the lock is released.
WriteExpiry ==
  /\ decider.at = "expiry"
  /\ LET expires == Len(decided[decider.of])
     IN /\ request' = [request EXCEPT ![decider.of].expires = expires]
        /\ lookup' = Watched(request[decider.of].status, expires)
  /\ decider' = NoDecision
  /\ UNCHANGED <<decided, audit, loggedAll>>

\* GetElevationStatus under the read lock; an unknown id is an error.
FindRequest(l, q) ==
  /\ lookup[l].at = "idle" /\ Known(q) /\ decider.at = "idle"
  /\ lookup' = [lookup EXCEPT ![l] =
       [at |-> "found", of |-> q, statuses |-> {request[q].status},
        expiries |-> {request[q].expires}, seen |-> Len(decided[q])]]
  /\ UNCHANGED <<request, decider, decided, audit, loggedAll>>

\* What a string can be that is read while it changes from one to the other.
Read(statuses) == statuses \cup (IF Cardinality(statuses) > 1 THEN {"torn"} ELSE {})

\* The copy of the request, after the lock is released, and the answer of
\* check_elevation_status: the tier and the expiry only with an approval.
AnswerStatus(l) ==
  /\ lookup[l].at = "found"
  /\ \E status \in Read(lookup[l].statuses), expires \in lookup[l].expiries :
       lookup' = [lookup EXCEPT ![l] =
         [at |-> "answered", of |-> lookup[l].of, status |-> status, seen |-> lookup[l].seen,
          overlapped |-> Len(decided[lookup[l].of]) > lookup[l].seen,
          tier |-> IF status = "approved" THEN request[lookup[l].of].tier ELSE 0,
          expires |-> IF status = "approved" THEN expires ELSE 0]]
  /\ UNCHANGED <<request, decider, decided, audit, loggedAll>>

-----------------------------------------------------------------------------
\* LogDecision evicts the oldest entries when the list is over its cap.
CappedAudit(entries) ==
  IF Len(entries) > MaxAudit
  THEN SubSeq(entries, Len(entries) - MaxAudit + 1, Len(entries)) ELSE entries

\* log_decision, by an authenticated agent.
LogDecision(a) ==
  /\ Len(loggedAll) < MaxLogged
  /\ LET entry == [agent |-> a, id |-> Len(loggedAll) + 1]
     IN loggedAll' = Append(loggedAll, entry) /\ audit' = CappedAudit(Append(audit, entry))
  /\ UNCHANGED <<request, decider, decided, lookup>>

\* InMemoryAuditStore.Read for get_audit_log: backwards from the newest over the entries
\* of the agents the filter lets through, until the limit is reached.
AuditRead(agents) ==
  FoldRight(LAMBDA e, found : IF e.agent \in agents /\ Len(found) < ReadLimit
                              THEN Append(found, e) ELSE found, audit, <<>>)

ElevationNext ==
  \/ \E q \in Requests : RequestElevation(q) \/ TakeDecision(q)
  \/ WriteStatus \/ WriteExpiry
  \/ \E l \in Lookups : AnswerStatus(l) \/ \E q \in Requests : FindRequest(l, q)
  \/ \E a \in Loggers : LogDecision(a)

-----------------------------------------------------------------------------
\* Type invariant, with the cap on the audit list.
ElevationTypeOK ==
  /\ \A q \in Requests : request[q].status \in {"none", "pending", "approved", "denied"}
  /\ decider.at \in {"idle", "status", "expiry"} /\ Len(audit) <= MaxAudit
  /\ \A l \in Lookups : lookup[l].at \in {"idle", "found", "answered"}

\* Whatever races, an agent is told of an approval only when one has been decided on its
\* request, with the tier that was asked for; a lookup no decision overlapped reports the
\* last decision, with its expiry when that is an approval; and an expiry that is told is
\* the one of an approval (GetElevationStatus against ApproveElevation).
AnswersAreOfTheRequest ==
  \A l \in Lookups : lookup[l].at = "answered" =>
    LET a == lookup[l]
        past == decided[a.of]
    IN /\ a.status = "approved" =>
            /\ \E i \in DOMAIN past : past[i] = "approved"
            /\ a.tier = request[a.of].tier
            /\ a.expires > 0 => past[a.expires] = "approved"
       /\ ~a.overlapped =>
            /\ a.status = IF a.seen = 0 THEN "pending" ELSE past[a.seen]
            /\ a.status = "approved" => a.expires = a.seen

\* What get_audit_log returns, of an agent or without a filter of all, is the newest of
\* the decisions that were logged, newest first, as many as the limit allows; the cap of
\* the list costs it only older ones, so that none is missing between two it returns.
AuditIsNewest ==
  \A agents \in {{a} : a \in Loggers} \cup {Loggers} :
    LET newest == Reverse(SelectSeq(loggedAll, LAMBDA e : e.agent \in agents))
        kept == Len(SelectSeq(audit, LAMBDA e : e.agent \in agents))
        read == AuditRead(agents)
    IN /\ read = SubSeq(newest, 1, Len(read))
       /\ Len(read) = IF kept < ReadLimit THEN kept ELSE ReadLimit
       /\ Len(loggedAll) <= MaxAudit => kept = Len(newest)
=============================================================================
