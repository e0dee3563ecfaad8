------------------------------ MODULE Approvals ------------------------------
(***************************************************************************)
(* The maker-checker approval workflow of fintwinos/policy/approvals.py.   *)
(*                                                                         *)
(* ApprovalWorkflow is shared by threads.  approve runs its whole          *)
(* check-sign-grant sequence under the workflow's lock; reject and         *)
(* escalate take the lock only to look the request up (_get), then check   *)
(* that it is open and write its status without it.  So a reject or an     *)
(* escalate interleaves with a grant, and every read of a status that is   *)
(* followed by a write of it is two steps here.                            *)
(*                                                                         *)
(* A thread's call captures the time on entry (now = now or utcnow()), and *)
(* may then wait for the lock: its now is stale when its checks run.       *)
(*                                                                         *)
(* Definitions named Bug_... are the mutated forms used to test the        *)
(* properties; no specification mentions them.                             *)
(*                                                                         *)
(* Abstracted: identifiers, reasons, scopes and token signatures; the      *)
(* audit trail is the set of events appended, which carry approvers' names *)
(* only where a property asks who signed.                                  *)
(***************************************************************************)
EXTENDS Naturals, Sequences, Rbac

CONSTANTS
    Threads,        \* threads calling into one ApprovalWorkflow
    Actors,         \* the people named as requester, approver or actor
    Requests,       \* identifiers of the requests that are ever opened
    Tiers,          \* the risk tiers of those requests
    CallRoles,      \* the roles callers pass
    DualControl,    \* Settings.dual_control_required
    AuditMayFail,   \* whether the trail's file write can raise (disk full)
    RequestTTL,     \* request_ttl_minutes
    TokenTTL,       \* token_ttl_minutes
    MaxTime,        \* bound of the clock
    NoRequest,      \* an identifier not opened yet
    Free            \* the lock when no thread holds it

DUAL_CONTROL_TIERS == {"high", "critical"}
RiskTiers == {"low", "medium"} \cup DUAL_CONTROL_TIERS

ASSUME RolesAssumption == CallRoles \subseteq Roles
ASSUME TiersAssumption == Tiers \subseteq RiskTiers
ASSUME SwitchAssumption == DualControl \in BOOLEAN /\ AuditMayFail \in BOOLEAN
ASSUME TimeAssumption ==
    /\ RequestTTL \in Nat \ {0}
    /\ TokenTTL \in Nat \ {0}
    /\ MaxTime \in Nat
ASSUME FreeAssumption == Free \notin Threads

VARIABLES
    clock,      \* utcnow()
    requests,   \* _requests: identifier -> ApprovalRequest or NoRequest
    lock,       \* _lock: its holder, or Free
    call,       \* the call each thread is in, and how far it has got
    audit       \* the events appended to the AuditTrail

vars == <<clock, requests, lock, call, audit>>

-----------------------------------------------------------------------------
(* Types *)

OpenStatuses == {"pending", "escalated"}
ResolvedStatuses == {"approved", "rejected"}

Token == [granted_by : Actors, expires_at : Nat]

ApprovalRequest ==
    [requested_by : Actors, required : {1, 2}, expires_at : Nat,
     status : OpenStatuses \cup ResolvedStatuses,
     approvals : Seq(Actors), tokens : Seq(Token)]

Ops == {"approve", "reject", "escalate"}

\* Where a call stands: entered, with its now captured and the lock not yet
\* taken; approve's steps under the lock (sign, mint, publish); the steps
\* reject and escalate take after _get (check, write).
Points == {"entered", "sign", "mint", "publish", "check", "write"}

Call ==
    [pc : Points, op : Ops, request : Requests, actor : Actors,
     role : CallRoles, now : Nat]

Idle == [pc |-> "idle"]

Event ==
    [action : {"requested", "approved", "granted", "rejected", "escalated",
               "expired", "blocked"},
     request : Requests, by : SUBSET Actors]

\* No ApprovalRequest is the absence of one.
ASSUME NoRequestAssumption == NoRequest \notin ApprovalRequest

Opened == {r \in Requests : requests[r] # NoRequest}
\* Bug: an approved request counts as open.
Bug_is_open(r) == requests[r].status # "rejected"

is_open(r) == requests[r].status \in OpenStatuses

SignersOf(r) == {requests[r].approvals[i] : i \in DOMAIN requests[r].approvals}
GrantorsOf(r) ==
    {requests[r].tokens[i].granted_by : i \in DOMAIN requests[r].tokens}

\* Bug: critical actions ask for a third signature.
Bug_required_approvals(tier) ==
    IF DualControl /\ tier \in DUAL_CONTROL_TIERS THEN 3 ELSE 1

_required_approvals(tier) ==
    IF DualControl /\ tier \in DUAL_CONTROL_TIERS THEN 2 ELSE 1

-----------------------------------------------------------------------------
(* What every operation uses *)

Appended(action, r, by) ==
    audit' = audit \cup {[action |-> action, request |-> r, by |-> by]}

Return(t) == call' = [call EXCEPT ![t] = Idle]
Goto(t, point) == call' = [call EXCEPT ![t].pc = point]

SetStatus(r, status) ==
    requests' = [requests EXCEPT ![r].status = status]

At(t, op, point) == call[t].pc = point /\ call[t].op = op

-----------------------------------------------------------------------------
(* The handlers *)

\* request: a role that may not ask is audited and refused (the event names no
\* request and is left out); otherwise the new request is stored under the lock
\* and audited.  Nobody knows its identifier before it is stored, so one step.
OpenRequest(r, actor, role, tier) ==
    /\ requests[r] = NoRequest
    /\ can(role, "approval_request")
    /\ lock = Free
    /\ requests' = [requests EXCEPT ![r] =
           [requested_by |-> actor,
            required |-> _required_approvals(tier),
            expires_at |-> clock + RequestTTL,
            status |-> "pending", approvals |-> <<>>, tokens |-> <<>>]]
    /\ Appended("requested", r, {actor})
    /\ UNCHANGED <<clock, lock, call>>

\* A thread enters approve, reject or escalate and captures its now.
Enter(t, op, r, actor, role) ==
    /\ call[t] = Idle
    /\ call' = [call EXCEPT ![t] =
           [pc |-> "entered", op |-> op, request |-> r, actor |-> actor,
            role |-> role, now |-> clock]]
    /\ UNCHANGED <<clock, requests, lock, audit>>

\* approve, the refusals: with the lock taken and released in the step.
ApproveUnknownOrClosed(t) ==
    LET r == call[t].request IN
    /\ At(t, "approve", "entered")
    /\ lock = Free
    /\ r \in Opened => ~is_open(r)
    /\ Return(t)
    /\ UNCHANGED <<clock, requests, lock, audit>>

ApproveExpired(t) ==
    LET r == call[t].request IN
    /\ At(t, "approve", "entered")
    /\ lock = Free
    /\ r \in Opened /\ is_open(r)
    /\ call[t].now > requests[r].expires_at
    /\ SetStatus(r, "rejected")
    /\ Appended("expired", r, {})
    /\ Return(t)
    /\ UNCHANGED <<clock, lock>>

\* Bug: one approver may give both dual-control signatures.
Bug_MayNotSign(r, actor, role) ==
    \/ ~can(role, "approval_approve")
    \/ actor = requests[r].requested_by

\* The role lacks approval.approve, the maker would check their own request,
\* or the approver has already signed it.
MayNotSign(r, actor, role) ==
    \/ ~can(role, "approval_approve")
    \/ actor = requests[r].requested_by
    \/ actor \in SignersOf(r)

\* Bug: the deadline is not checked.
Bug_ApproveReady(t) ==
    LET r == call[t].request IN
    /\ At(t, "approve", "entered")
    /\ lock = Free
    /\ r \in Opened /\ is_open(r)

ApproveReady(t) ==
    LET r == call[t].request IN
    /\ At(t, "approve", "entered")
    /\ lock = Free
    /\ r \in Opened /\ is_open(r)
    /\ call[t].now <= requests[r].expires_at

ApproveBlocked(t) ==
    /\ ApproveReady(t)
    /\ MayNotSign(call[t].request, call[t].actor, call[t].role)
    /\ Appended("blocked", call[t].request, {})
    /\ Return(t)
    /\ UNCHANGED <<clock, requests, lock>>

ApproveAcquire(t) ==
    /\ ApproveReady(t)
    /\ ~MayNotSign(call[t].request, call[t].actor, call[t].role)
    /\ lock' = t
    /\ Goto(t, "sign")
    /\ UNCHANGED <<clock, requests, audit>>

\* Bug: the number of signatures is compared with > instead of >=.
Bug_Quorate(r, signatures) == Len(signatures) > requests[r].required

Quorate(r, signatures) == Len(signatures) >= requests[r].required

\* Bug: the lock is released by hand and the exception skips it.
Bug_LeaveOnError(t) == Return(t) /\ UNCHANGED lock

\* An exception leaves the with block of the lock.
LeaveOnError(t) == Return(t) /\ lock' = Free

\* The signature is recorded and audited.  AuditTrail.append keeps the record
\* in memory before it writes the file, so when the write raises the event is
\* there, the signature stays, and the exception leaves approve (releasing the
\* lock) before the grant.
ApproveSign(t) ==
    LET r == call[t].request
        signed == Append(requests[r].approvals, call[t].actor)
    IN
    /\ At(t, "approve", "sign")
    /\ requests' = [requests EXCEPT ![r].approvals = signed]
    /\ Appended("approved", r, {call[t].actor})
    /\ \/ Quorate(r, signed) /\ Goto(t, "mint") /\ UNCHANGED lock
       \/ ~Quorate(r, signed) /\ Return(t) /\ lock' = Free
       \/ AuditMayFail /\ LeaveOnError(t)
    /\ UNCHANGED clock

\* _grant: one token per signature, all expiring TokenTTL after this call's
\* now; then the status and the audit record of the grant.
ApproveMint(t) ==
    LET r == call[t].request
        grant(approver) == [granted_by |-> approver,
                            expires_at |-> call[t].now + TokenTTL]
    IN
    /\ At(t, "approve", "mint")
    /\ requests' = [requests EXCEPT ![r].tokens =
           [i \in 1..Len(requests[r].approvals) |->
                grant(requests[r].approvals[i])]]
    /\ Goto(t, "publish")
    /\ UNCHANGED <<clock, lock, audit>>

\* Bug: the grant is audited under the last approver's name only.
Bug_approver_names(r) == {requests[r].approvals[Len(requests[r].approvals)]}

approver_names(r) == SignersOf(r)

ApprovePublish(t) ==
    LET r == call[t].request IN
    /\ At(t, "approve", "publish")
    /\ SetStatus(r, "approved")
    /\ Appended("granted", r, approver_names(r))
    /\ lock' = Free
    /\ Return(t)
    /\ UNCHANGED clock

\* reject and escalate look the request up under the lock, ...
Lookup(t) ==
    /\ call[t].pc = "entered"
    /\ call[t].op \in {"reject", "escalate"}
    /\ lock = Free
    /\ IF call[t].request \in Opened THEN Goto(t, "check") ELSE Return(t)
    /\ UNCHANGED <<clock, requests, lock, audit>>

ActionOf(op) ==
    IF op = "reject" THEN "approval_reject" ELSE "approval_escalate"

\* ... check without it that it is open (neither reads expires_at) and that the
\* role holds the permission, ...
CheckOpen(t) ==
    LET r == call[t].request
        permitted == can(call[t].role, ActionOf(call[t].op))
    IN
    /\ call[t].pc = "check"
    /\ IF is_open(r) /\ permitted THEN Goto(t, "write") ELSE Return(t)
    /\ IF is_open(r) /\ ~permitted
       THEN Appended("blocked", r, {}) ELSE UNCHANGED audit
    /\ UNCHANGED <<clock, requests, lock>>

\* ... and write the status whatever it has become since.  The tokens of a
\* grant that came in between are left as they are.
RejectWrite(t) ==
    /\ At(t, "reject", "write")
    /\ SetStatus(call[t].request, "rejected")
    /\ Appended("rejected", call[t].request, {})
    /\ Return(t)
    /\ UNCHANGED <<clock, lock>>

EscalateWrite(t) ==
    /\ At(t, "escalate", "write")
    /\ SetStatus(call[t].request, "escalated")
    /\ Appended("escalated", call[t].request, {})
    /\ Return(t)
    /\ UNCHANGED <<clock, lock>>

Tick ==
    /\ clock < MaxTime
    /\ clock' = clock + 1
    /\ UNCHANGED <<requests, lock, call, audit>>

-----------------------------------------------------------------------------
(* The specification *)

Init ==
    /\ clock = 0
    /\ requests = [r \in Requests |-> NoRequest]
    /\ lock = Free
    /\ call = [t \in Threads |-> Idle]
    /\ audit = {}

\* The steps of a call already entered.
Step(t) ==
    \/ ApproveUnknownOrClosed(t)
    \/ ApproveExpired(t)
    \/ ApproveBlocked(t)
    \/ ApproveAcquire(t)
    \/ ApproveSign(t)
    \/ ApproveMint(t)
    \/ ApprovePublish(t)
    \/ Lookup(t)
    \/ CheckOpen(t)
    \/ RejectWrite(t)
    \/ EscalateWrite(t)

Next ==
    \/ \E r \in Requests, actor \in Actors, role \in CallRoles, tier \in Tiers :
           OpenRequest(r, actor, role, tier)
    \/ \E t \in Threads, op \in Ops, r \in Requests, actor \in Actors,
          role \in CallRoles : Enter(t, op, r, actor, role)
    \/ \E t \in Threads : Step(t)
    \/ Tick

Spec == Init /\ [][Next]_vars

-----------------------------------------------------------------------------
(* Properties *)

\* Requests, calls and audit events have their types, and the lock is free or
\* held by a thread.
TypeOK ==
    /\ clock \in Nat
    /\ requests \in [Requests -> ApprovalRequest \cup {NoRequest}]
    /\ lock \in Threads \cup {Free}
    /\ call \in [Threads -> Call \cup {Idle}]
    /\ audit \subseteq Event

\* "Maker-checker is absolute" and dual control (module docstring, _grant):
\* tokens exist only when at least the required number of approvers signed,
\* they were granted by that many different people, and none of them is the
\* requester -- however approve, reject and escalate interleave.
TokensNeedQuorum ==
    \A r \in Opened :
        LET tokens == requests[r].tokens IN
        tokens # <<>> =>
            /\ Len(tokens) >= requests[r].required
            /\ \A i, j \in DOMAIN tokens :
                   i # j => tokens[i].granted_by # tokens[j].granted_by
            /\ requests[r].requested_by \notin GrantorsOf(r)

\* A request cannot be granted after its deadline, so no token lives longer
\* than the request's expires_at plus the token lifetime, although the now a
\* call captured may be older than the lock it waited for.
TokensExpireInTime ==
    \A r \in Opened :
        \A i \in DOMAIN requests[r].tokens :
            requests[r].tokens[i].expires_at
                <= requests[r].expires_at + TokenTTL

\* A grant leaves evidence: once the granting call is over, one granted event
\* of the trail names everybody whose token exists, and each of them has an
\* approved event of their own.
GrantsAreAudited ==
    \A r \in Opened :
        /\ requests[r].tokens # <<>> /\ lock = Free =>
               \E e \in audit : /\ e.action = "granted" /\ e.request = r
                               /\ GrantorsOf(r) \subseteq e.by
        /\ \A a \in GrantorsOf(r) :
               [action |-> "approved", request |-> r, by |-> {a}] \in audit

\* A call on r that is past its checks: it will still write the request.
PastItsCheck(r) ==
    \E t \in Threads :
        call[t] # Idle /\ call[t].request = r
            /\ call[t].pc \in {"sign", "mint", "publish", "write"}

Settled(r) ==
    requests[r].status \in ResolvedStatuses /\ ~PastItsCheck(r)

\* How long a resolution can be in doubt: only the calls that had passed their
\* checks when it was made can still overwrite it.  Once the last of them is
\* done, no sequence of further calls changes the status, the signatures or
\* the tokens again, and none even gets past its checks.
ResolutionSettles ==
    [][\A r \in Opened :
          Settled(r) => requests'[r] = requests[r] /\ Settled(r)']_vars

\* Whoever holds the workflow's lock is at work under it, on every path out of
\* approve: a refusal, a missing signature, a failed audit write, a grant.
LockIsReleased ==
    lock # Free => call[lock] # Idle /\ call[lock].pc \in {"sign", "mint", "publish"}

=============================================================================
