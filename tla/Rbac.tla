-------------------------------- MODULE Rbac --------------------------------
(***************************************************************************)
(* The role matrix of fintwinos/policy/rbac.py: five roles, thirteen       *)
(* governed actions (the four tool bands and nine governance actions), and *)
(* can(role, action), which fails closed on a name outside either          *)
(* enumeration.  A pure module: the components that check a permission     *)
(* extend it.                                                              *)
(***************************************************************************)

Roles == {"viewer", "analyst", "approver", "operator", "admin"}

Bands == {"observe", "simulate", "propose", "execute"}

GovernanceActions ==
    {"approval_request", "approval_approve", "approval_reject",
     "approval_escalate", "breakglass_activate", "breakglass_countersign",
     "breakglass_revoke", "killswitch_engage", "killswitch_release"}

Actions == Bands \cup GovernanceActions

PERMISSIONS ==
    [viewer   |-> {"observe"},
     analyst  |-> {"observe", "simulate", "propose",
                   "approval_request", "approval_escalate"},
     approver |-> {"observe", "simulate", "approval_approve", "approval_reject",
                   "approval_escalate", "breakglass_countersign",
                   "breakglass_revoke"},
     operator |-> {"observe", "simulate", "propose", "execute",
                   "approval_request", "approval_escalate",
                   "breakglass_activate", "breakglass_revoke",
                   "killswitch_engage"},
     admin    |-> Actions]

\* An unknown role or an unknown action is never permitted.
can(role, action) ==
    /\ role \in Roles
    /\ action \in Actions
    /\ action \in PERMISSIONS[role]

=============================================================================
