------------------------------ MODULE BreakGlass ------------------------------
(***************************************************************************)
(* The emergency override of fintwinos/policy/breakglass.py.  An operator  *)
(* activates a window, a second person countersigns it and gets a token    *)
(* for every tool, anybody permitted revokes it, and listing the           *)
(* activations expires the ones whose window has closed.                   *)
(*                                                                         *)
(* The lock only guards the dictionary.  countersign, revoke and _refresh  *)
(* read an activation's status and write it later without it, and write    *)
(* its status and its token one after the other, so the calls of two       *)
(* threads interleave at each of those points.                             *)
(*                                                                         *)
(* Tokens are objects: the activation points at the last one issued, and   *)
(* an earlier one stays in the hands of whoever got it.  Definitions named *)
(* Bug_... are mutated forms used to test the properties.  The reasons,    *)
(* banners and audit records are left out: no property is about them.      *)
(***************************************************************************)
EXTENDS Naturals, Sequences, Rbac

CONSTANTS
    Threads,      \* threads calling into one BreakGlass
    Actors,       \* the people named as activator, countersigner, revoker
    Activations,  \* identifiers of the activations that are ever opened
    CallRoles,    \* the roles callers pass
    TTL,          \* ttl_minutes: the window, and the tokens' lifetime
    MaxTime,      \* bound of the clock
    NoActivation  \* an identifier not opened yet

ASSUME RolesAssumption == CallRoles \subseteq Roles
ASSUME TimeAssumption == TTL \in Nat \ {0} /\ MaxTime \in Nat

VARIABLES
    clock,        \* utcnow()
    activations,  \* _activations: identifier -> BreakGlassActivation
    issued,       \* the token objects of each activation, oldest first
    call          \* the call each thread is in

vars == <<clock, activations, issued, call>>

Statuses == {"pending", "active", "expired", "revoked"}
Final == {"expired", "revoked"}

\* token: which of the issued tokens the activation points at, 0 for none.
Activation == [requested_by : Actors, expires_at : Nat,
               status : Statuses, token : Nat]

ASSUME NoActivationAssumption == NoActivation \notin Activation

\* An ApprovalToken for the subject "*": granted_by names two people.  Its
\* status is approved until a revoke of its activation sets it to rejected.
Token == [activated_by : Actors, countersigned_by : Actors,
          expires_at : Nat, status : {"approved", "rejected"}]

\* countersign: entered, status (all checks passed), token (status written).
\* revoke: entered, status, token.  refresh: status (found stale).
Call == [op : {"countersign", "revoke", "refresh"},
         pc : {"entered", "status", "token"}, activation : Activations,
         actor : Actors, role : CallRoles, now : Nat]

Idle == [pc |-> "idle"]

Opened == {b \in Activations : activations[b] # NoActivation}

At(t, op, point) == call[t].pc = point /\ call[t].op = op
Goto(t, point) == call' = [call EXCEPT ![t].pc = point]
Return(t) == call' = [call EXCEPT ![t] = Idle]
SetStatus(b, status) ==
    activations' = [activations EXCEPT ![b].status = status]

-----------------------------------------------------------------------------
(* The handlers *)

\* activate: the new activation is known to nobody before it is stored.
Activate(b, actor, role) ==
    /\ activations[b] = NoActivation
    /\ can(role, "breakglass_activate")
    /\ activations' = [activations EXCEPT ![b] =
           [requested_by |-> actor, expires_at |-> clock + TTL,
            status |-> "pending", token |-> 0]]
    /\ UNCHANGED <<clock, issued, call>>

\* countersign and revoke: capture now, look the activation up.  revoke checks
\* the role before anything else.
Enter(t, op, b, actor, role) ==
    /\ call[t] = Idle
    /\ b \in Opened
    /\ op = "revoke" => can(role, "breakglass_revoke")
    /\ call' = [call EXCEPT ![t] =
           [op |-> op, pc |-> "entered", activation |-> b, actor |-> actor,
            role |-> role, now |-> clock]]
    /\ UNCHANGED <<clock, activations, issued>>

MayCountersign(b, actor, role) ==
    /\ can(role, "breakglass_countersign")
    /\ actor # activations[b].requested_by

Awaiting(b) == activations[b].status = "pending"

CountersignRefused(t) ==
    LET b == call[t].activation IN
    /\ At(t, "countersign", "entered")
    /\ \/ ~Awaiting(b)
       \/ /\ call[t].now <= activations[b].expires_at
          /\ ~MayCountersign(b, call[t].actor, call[t].role)
    /\ Return(t)
    /\ UNCHANGED <<clock, activations, issued>>

\* A late countersignature flips the activation to expired.
CountersignExpired(t) ==
    LET b == call[t].activation IN
    /\ At(t, "countersign", "entered")
    /\ Awaiting(b)
    /\ call[t].now > activations[b].expires_at
    /\ SetStatus(b, "expired")
    /\ Return(t)
    /\ UNCHANGED <<clock, issued>>

CountersignAccepted(t) ==
    LET b == call[t].activation IN
    /\ At(t, "countersign", "entered")
    /\ Awaiting(b)
    /\ call[t].now <= activations[b].expires_at
    /\ MayCountersign(b, call[t].actor, call[t].role)
    /\ Goto(t, "status")
    /\ UNCHANGED <<clock, activations, issued>>

CountersignStatus(t) ==
    /\ At(t, "countersign", "status")
    /\ SetStatus(call[t].activation, "active")
    /\ Goto(t, "token")
    /\ UNCHANGED <<clock, issued>>

\* Bug: the token lives a full ttl from the countersignature.
Bug_WindowOf(b, now) == now + TTL

WindowOf(b, now) == activations[b].expires_at

CountersignToken(t) ==
    LET b == call[t].activation IN
    /\ At(t, "countersign", "token")
    /\ issued' = [issued EXCEPT ![b] = Append(@,
           [activated_by |-> activations[b].requested_by,
            countersigned_by |-> call[t].actor,
            expires_at |-> WindowOf(b, call[t].now),
            status |-> "approved"])]
    /\ activations' = [activations EXCEPT ![b].token = Len(issued[b]) + 1]
    /\ Return(t)
    /\ UNCHANGED clock

RevokeRefused(t) ==
    /\ At(t, "revoke", "entered")
    /\ activations[call[t].activation].status \in Final
    /\ Return(t)
    /\ UNCHANGED <<clock, activations, issued>>

RevokeAccepted(t) ==
    /\ At(t, "revoke", "entered")
    /\ activations[call[t].activation].status \notin Final
    /\ Goto(t, "status")
    /\ UNCHANGED <<clock, activations, issued>>

RevokeStatus(t) ==
    /\ At(t, "revoke", "status")
    /\ SetStatus(call[t].activation, "revoked")
    /\ Goto(t, "token")
    /\ UNCHANGED <<clock, issued>>

\* Bug: the activation is marked, its token is not.
Bug_Rejected(b) == issued

Rejected(b) ==
    IF activations[b].token = 0 THEN issued
    ELSE [issued EXCEPT ![b][activations[b].token].status = "rejected"]

RevokeToken(t) ==
    /\ At(t, "revoke", "token")
    /\ issued' = Rejected(call[t].activation)
    /\ Return(t)
    /\ UNCHANGED <<clock, activations>>

\* Bug: listing looks at the window and not at the status.
Bug_Stale(b, now) == now > activations[b].expires_at

Stale(b, now) ==
    /\ activations[b].status \in {"pending", "active"}
    /\ now > activations[b].expires_at

\* activations / active: the listing found b stale, and expires it later.
\* A listing that finds nothing stale changes nothing.
RefreshFind(t, b, actor, role) ==
    /\ call[t] = Idle
    /\ b \in Opened
    /\ Stale(b, clock)
    /\ call' = [call EXCEPT ![t] =
           [op |-> "refresh", pc |-> "status", activation |-> b,
            actor |-> actor, role |-> role, now |-> clock]]
    /\ UNCHANGED <<clock, activations, issued>>

RefreshStatus(t) ==
    /\ At(t, "refresh", "status")
    /\ SetStatus(call[t].activation, "expired")
    /\ Return(t)
    /\ UNCHANGED <<clock, issued>>

Tick ==
    /\ clock < MaxTime
    /\ clock' = clock + 1
    /\ UNCHANGED <<activations, issued, call>>

-----------------------------------------------------------------------------
(* The specification *)

Init ==
    /\ clock = 0
    /\ activations = [b \in Activations |-> NoActivation]
    /\ issued = [b \in Activations |-> <<>>]
    /\ call = [t \in Threads |-> Idle]

Step(t) ==
    \/ CountersignRefused(t)
    \/ CountersignExpired(t)
    \/ CountersignAccepted(t)
    \/ CountersignStatus(t)
    \/ CountersignToken(t)
    \/ RevokeRefused(t)
    \/ RevokeAccepted(t)
    \/ RevokeStatus(t)
    \/ RevokeToken(t)
    \/ RefreshStatus(t)

Next ==
    \/ \E b \in Activations, actor \in Actors, role \in CallRoles :
           Activate(b, actor, role)
    \/ \E t \in Threads, b \in Activations, actor \in Actors, role \in CallRoles :
           \/ \E op \in {"countersign", "revoke"} : Enter(t, op, b, actor, role)
           \/ RefreshFind(t, b, actor, role)
    \/ \E t \in Threads : Step(t)
    \/ Tick

Spec == Init /\ [][Next]_vars

-----------------------------------------------------------------------------
(* Properties *)

\* Activations, tokens and calls have their types, and an activation points at
\* a token that was issued for it.
TypeOK ==
    /\ clock \in Nat
    /\ activations \in [Activations -> Activation \cup {NoActivation}]
    /\ issued \in [Activations -> Seq(Token)]
    /\ call \in [Threads -> Call \cup {Idle}]
    /\ \A b \in Opened : activations[b].token <= Len(issued[b])

\* ApprovalToken.is_valid_for, for the holder of the token object.
Live(b, i) ==
    issued[b][i].status = "approved" /\ clock <= issued[b][i].expires_at

\* "Two people" and "the override cannot outlive the emergency" (module
\* docstring): every wildcard token names an activator and a different
\* countersigner, and none is live once the activation's window has closed --
\* whatever other threads do to the activation meanwhile.
OverrideIsBounded ==
    \A b \in Opened : \A i \in DOMAIN issued[b] :
        /\ issued[b][i].activated_by = activations[b].requested_by
        /\ issued[b][i].countersigned_by # issued[b][i].activated_by
        /\ Live(b, i) => clock <= activations[b].expires_at

Quiet(b) ==
    \A t \in Threads : call[t] = Idle \/ call[t].activation # b

DeadIfRevoked(b) ==
    activations[b].status = "revoked" /\ Quiet(b) =>
        \A i \in DOMAIN issued[b] : ~Live(b, i)

=============================================================================
