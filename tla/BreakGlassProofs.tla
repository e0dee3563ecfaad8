-------------------------- MODULE BreakGlassProofs --------------------------
(***************************************************************************)
(* Proofs about BreakGlass for any number of threads, people and           *)
(* activations: types, and that every wildcard token is countersigned by a *)
(* second person and dies with its window.                                 *)
(***************************************************************************)
EXTENDS MCBreakGlass, SequenceTheorems, TLAPS

-----------------------------------------------------------------------------
(* The inductive invariant *)

\* A call works on an activation that exists.
InFlight == \A t \in Threads : call[t] # Idle => call[t].activation \in Opened

\* A countersign that passed its checks is by somebody else than the activator.
Checked ==
    \A t \in Threads :
        call[t] # Idle /\ call[t].op = "countersign"
                       /\ call[t].pc \in {"status", "token"} =>
            call[t].actor # activations[call[t].activation].requested_by

\* No token precedes its activation.
Unissued == \A b \in Activations \ Opened : issued[b] = <<>>

\* What a token says, whatever its status.
TokensOK ==
    \A b \in Opened : \A i \in DOMAIN issued[b] :
        /\ issued[b][i].activated_by = activations[b].requested_by
        /\ issued[b][i].countersigned_by # issued[b][i].activated_by
        /\ issued[b][i].expires_at = activations[b].expires_at

IInv == TypeOK /\ InFlight /\ Checked /\ Unissued /\ TokensOK

-----------------------------------------------------------------------------
(* What the shared steps do *)

LEMMA CallMoves ==
    ASSUME TypeOK, NEW t \in Threads, call[t] # Idle,
           NEW point \in {"entered", "status", "token"}, Goto(t, point)
    PROVE  /\ call' \in [Threads -> Call \cup {Idle}]
           /\ call'[t] = [call[t] EXCEPT !.pc = point]
           /\ \A u \in Threads \ {t} : call'[u] = call[u]
<1>1. call[t] \in Call
  BY DEF TypeOK
<1>2. [call[t] EXCEPT !.pc = point] \in Call
  BY <1>1 DEF Call
<1>3. call' = [call EXCEPT ![t] = [call[t] EXCEPT !.pc = point]]
  BY DEF Goto
<1>4. QED BY <1>2, <1>3 DEF TypeOK

LEMMA ReturnEffect ==
    ASSUME TypeOK, NEW t \in Threads, Return(t)
    PROVE  /\ call' \in [Threads -> Call \cup {Idle}]
           /\ call'[t] = Idle
           /\ \A u \in Threads \ {t} : call'[u] = call[u]
  BY DEF TypeOK, Return

\* A status write changes no other field, and opens no activation.
LEMMA SetStatusEffect ==
    ASSUME TypeOK, NEW b \in Opened, NEW s \in Statuses, SetStatus(b, s)
    PROVE  /\ activations' \in [Activations -> Activation \cup {NoActivation}]
           /\ Opened' = Opened
           /\ \A c \in Opened :
                  /\ activations'[c].requested_by = activations[c].requested_by
                  /\ activations'[c].expires_at = activations[c].expires_at
                  /\ activations'[c].token = activations[c].token
<1>1. activations[b] \in Activation /\ b \in Activations
  BY DEF TypeOK, Opened
<1>2. [activations[b] EXCEPT !.status = s] \in Activation
  BY <1>1 DEF Activation
<1>3. activations' = [activations EXCEPT ![b] = [activations[b] EXCEPT !.status = s]]
  BY DEF SetStatus
<1>4. activations' \in [Activations -> Activation \cup {NoActivation}]
  BY <1>2, <1>3 DEF TypeOK
<1>5. Opened' = Opened
  BY <1>1, <1>2, <1>3, NoActivationAssumption DEF TypeOK, Opened
<1>6. ASSUME NEW c \in Opened
      PROVE  /\ activations'[c].requested_by = activations[c].requested_by
             /\ activations'[c].expires_at = activations[c].expires_at
             /\ activations'[c].token = activations[c].token
  BY <1>1, <1>3 DEF TypeOK, Opened, Activation
<1>7. QED BY <1>4, <1>5, <1>6

\* A step that moves or ends one call and writes no more than a status.
LEMMA StatusOnly ==
    ASSUME IInv, NEW t \in Threads, call[t] # Idle,
           call' \in [Threads -> Call \cup {Idle}],
           \A u \in Threads \ {t} : call'[u] = call[u],
           \/ call'[t] = Idle
           \/ /\ call'[t].activation = call[t].activation
              /\ call'[t].op = call[t].op
              /\ call'[t].actor = call[t].actor
              /\ \/ call'[t].pc \notin {"status", "token"}
                 \/ call[t].pc \in {"status", "token"}
                 \/ call[t].op # "countersign"
                 \/ call[t].actor # activations[call[t].activation].requested_by,
           \/ activations' = activations
           \/ \E s \in Statuses : SetStatus(call[t].activation, s),
           UNCHANGED <<clock, issued>>
    PROVE  IInv'
<1> USE DEF IInv
<1>1. call[t].activation \in Opened
  BY DEF InFlight
<1>2. /\ activations' \in [Activations -> Activation \cup {NoActivation}]
      /\ Opened' = Opened
      /\ \A c \in Opened :
             /\ activations'[c].requested_by = activations[c].requested_by
             /\ activations'[c].expires_at = activations[c].expires_at
             /\ activations'[c].token = activations[c].token
  <2>1. CASE activations' = activations
    BY <2>1 DEF TypeOK, Opened
  <2>2. CASE \E s \in Statuses : SetStatus(call[t].activation, s)
    BY <1>1, <2>2, SetStatusEffect
  <2>3. QED BY <2>1, <2>2
<1>3. TypeOK'
  BY <1>2 DEF TypeOK
<1>4. InFlight'
  BY <1>1, <1>2 DEF InFlight
<1>5. Checked'
  BY <1>1, <1>2 DEF Checked, InFlight
<1>6. Unissued' /\ TokensOK'
  BY <1>2 DEF Unissued, TokensOK
<1>7. QED BY <1>3, <1>4, <1>5, <1>6

-----------------------------------------------------------------------------
(* Every step preserves the invariant *)

LEMMA StatusStep ==
    ASSUME IInv, NEW t \in Threads,
           \/ CountersignRefused(t) \/ CountersignExpired(t)
           \/ CountersignAccepted(t) \/ CountersignStatus(t)
           \/ RevokeRefused(t) \/ RevokeAccepted(t) \/ RevokeStatus(t)
           \/ RefreshStatus(t)
    PROVE  IInv'
<1>1. call[t] # Idle /\ TypeOK /\ UNCHANGED <<clock, issued>>
  BY DEF IInv, CountersignRefused, CountersignExpired, CountersignAccepted,
         CountersignStatus, RevokeRefused, RevokeAccepted, RevokeStatus,
         RefreshStatus, At, Idle
<1>2. call[t] \in Call
  BY <1>1 DEF TypeOK
<1>3. \/ activations' = activations
      \/ \E s \in Statuses : SetStatus(call[t].activation, s)
  BY DEF CountersignRefused, CountersignExpired, CountersignAccepted,
         CountersignStatus, RevokeRefused, RevokeAccepted, RevokeStatus,
         RefreshStatus, Statuses
<1>4. CASE Return(t)
  BY <1>1, <1>3, <1>4, ReturnEffect, StatusOnly
<1>5. ASSUME NEW point \in {"status", "token"}, Goto(t, point),
             \/ call[t].pc \in {"status", "token"}
             \/ call[t].op # "countersign"
             \/ call[t].actor # activations[call[t].activation].requested_by
      PROVE  IInv'
  <2>1. /\ call' \in [Threads -> Call \cup {Idle}]
        /\ call'[t] = [call[t] EXCEPT !.pc = point]
        /\ \A u \in Threads \ {t} : call'[u] = call[u]
    BY <1>1, <1>5, CallMoves
  <2>2. /\ call'[t].activation = call[t].activation
        /\ call'[t].op = call[t].op
        /\ call'[t].actor = call[t].actor
    BY <1>2, <2>1 DEF Call
  <2>3. QED BY <1>1, <1>3, <1>5, <2>1, <2>2, StatusOnly
<1>6. CASE CountersignAccepted(t) \/ CountersignStatus(t)
           \/ RevokeAccepted(t) \/ RevokeStatus(t)
  BY <1>5, <1>6 DEF CountersignAccepted, CountersignStatus, RevokeAccepted,
     RevokeStatus, At, MayCountersign
<1>7. QED
  BY <1>4, <1>6 DEF CountersignRefused, CountersignExpired, RevokeRefused,
     RefreshStatus

LEMMA CountersignTokenStep ==
    ASSUME IInv, NEW t \in Threads, CountersignToken(t)
    PROVE  IInv'
<1> DEFINE b == call[t].activation
           token == [activated_by |-> activations[b].requested_by,
                     countersigned_by |-> call[t].actor,
                     expires_at |-> WindowOf(b, call[t].now),
                     status |-> "approved"]
           tokens == Append(issued[b], token)
<1> USE DEF IInv
<1>1. /\ call[t] # Idle /\ call[t].op = "countersign" /\ call[t].pc = "token"
      /\ issued' = [issued EXCEPT ![b] = tokens]
      /\ activations' = [activations EXCEPT ![b].token = Len(issued[b]) + 1]
      /\ Return(t) /\ clock' = clock
  BY DEF CountersignToken, At, Idle
<1>2. call[t] \in Call /\ call[t].actor \in Actors
  BY <1>1 DEF TypeOK, Call
<1>3. b \in Opened /\ b \in Activations /\ activations[b] \in Activation
  BY <1>1 DEF InFlight, TypeOK, Opened
<1>4. call[t].actor # activations[b].requested_by
  BY <1>1 DEF Checked
<1>5. token \in Token
  BY <1>2, <1>3 DEF Token, Activation, WindowOf
<1>6. /\ token.activated_by = activations[b].requested_by
      /\ token.countersigned_by # token.activated_by
      /\ token.expires_at = activations[b].expires_at
  BY <1>4 DEF WindowOf
<1>7. issued[b] \in Seq(Token)
  BY <1>3 DEF TypeOK
<1> HIDE DEF token
<1>8. /\ tokens \in Seq(Token)
      /\ Len(tokens) = Len(issued[b]) + 1
      /\ \A i \in 1..Len(issued[b]) : tokens[i] = issued[b][i]
      /\ tokens[Len(issued[b]) + 1] = token
  BY <1>5, <1>7, AppendProperties
<1> HIDE DEF tokens
<1>9. \A i \in DOMAIN tokens :
          i \in DOMAIN issued[b] \/ i = Len(issued[b]) + 1
  BY <1>7, <1>8
<1>10. /\ issued' \in [Activations -> Seq(Token)]
       /\ issued'[b] = tokens
       /\ \A c \in Activations \ {b} : issued'[c] = issued[c]
  BY <1>1, <1>3, <1>8 DEF TypeOK
<1>11. Len(issued[b]) + 1 \in Nat
  BY <1>7
<1>12. [activations[b] EXCEPT !.token = Len(issued[b]) + 1] \in Activation
  BY <1>3, <1>11 DEF Activation
<1>13. /\ activations' \in [Activations -> Activation \cup {NoActivation}]
       /\ activations'[b] = [activations[b] EXCEPT !.token = Len(issued[b]) + 1]
       /\ \A c \in Activations \ {b} : activations'[c] = activations[c]
  BY <1>1, <1>3, <1>12 DEF TypeOK
<1>14. Opened' = Opened
  BY <1>3, <1>12, <1>13, NoActivationAssumption DEF Opened
<1>15. /\ activations'[b].token = Len(issued[b]) + 1
       /\ \A c \in Opened :
              /\ activations'[c].requested_by = activations[c].requested_by
              /\ activations'[c].expires_at = activations[c].expires_at
  BY <1>3, <1>13 DEF Activation, Opened
<1>16. /\ call' \in [Threads -> Call \cup {Idle}]
       /\ call'[t] = Idle
       /\ \A u \in Threads \ {t} : call'[u] = call[u]
  BY <1>1, ReturnEffect
<1>17. TypeOK'
  <2>1. \A c \in Opened : activations'[c].token <= Len(issued'[c])
    <3>1. activations'[b].token <= Len(issued'[b])
      BY <1>7, <1>8, <1>10, <1>15
    <3>2. \A c \in Opened \ {b} : activations'[c].token <= Len(issued'[c])
      BY <1>10, <1>13 DEF TypeOK, Opened
    <3>3. QED BY <3>1, <3>2
  <2>2. QED BY <1>1, <1>10, <1>13, <1>14, <1>16, <2>1 DEF TypeOK
<1>18. InFlight' /\ Checked'
  BY <1>14, <1>15, <1>16 DEF InFlight, Checked
<1>19. Unissued'
  BY <1>3, <1>10, <1>14 DEF Unissued
<1>20. TokensOK'
  <2>1. ASSUME NEW c \in Opened, NEW i \in DOMAIN issued'[c]
        PROVE  /\ issued'[c][i].activated_by = activations'[c].requested_by
               /\ issued'[c][i].countersigned_by # issued'[c][i].activated_by
               /\ issued'[c][i].expires_at = activations'[c].expires_at
    <3>1. CASE c # b \/ i \in DOMAIN issued[b]
      <4>1. i \in DOMAIN issued[c] /\ issued'[c][i] = issued[c][i]
        BY <1>7, <1>8, <1>10, <2>1, <3>1 DEF Opened
      <4>2. QED BY <1>15, <4>1 DEF TokensOK
    <3>2. CASE c = b /\ i = Len(issued[b]) + 1
      BY <1>6, <1>8, <1>10, <1>15, <3>2
    <3>3. QED BY <1>9, <1>10, <3>1, <3>2
  <2>2. QED BY <1>14, <2>1 DEF TokensOK
<1>21. QED BY <1>17, <1>18, <1>19, <1>20

\* Revoking writes nothing but the status of one token.
LEMMA RejectedEffect ==
    ASSUME IInv, NEW b \in Opened
    PROVE  /\ Rejected(b) \in [Activations -> Seq(Token)]
           /\ \A c \in Activations :
                  /\ DOMAIN Rejected(b)[c] = DOMAIN issued[c]
                  /\ Len(Rejected(b)[c]) = Len(issued[c])
                  /\ issued[c] = <<>> => Rejected(b)[c] = <<>>
                  /\ \A i \in DOMAIN issued[c] :
                         /\ Rejected(b)[c][i].activated_by = issued[c][i].activated_by
                         /\ Rejected(b)[c][i].countersigned_by
                                = issued[c][i].countersigned_by
                         /\ Rejected(b)[c][i].expires_at = issued[c][i].expires_at
<1> DEFINE k == activations[b].token
<1> USE DEF IInv
<1>1. activations[b] \in Activation /\ b \in Activations /\ k \in Nat
  BY DEF TypeOK, Opened, Activation
<1>2. issued[b] \in Seq(Token) /\ k <= Len(issued[b])
  BY <1>1 DEF TypeOK
<1>3. CASE k = 0
  BY <1>3 DEF Rejected, TypeOK
<1>4. CASE k # 0
  <2> DEFINE revoked == [issued[b][k] EXCEPT !.status = "rejected"]
             tokens == [issued[b] EXCEPT ![k] = revoked]
  <2>1. k \in DOMAIN issued[b] /\ issued[b][k] \in Token
    BY <1>1, <1>2, <1>4
  <2>2. /\ revoked \in Token
        /\ revoked.activated_by = issued[b][k].activated_by
        /\ revoked.countersigned_by = issued[b][k].countersigned_by
        /\ revoked.expires_at = issued[b][k].expires_at
    BY <2>1 DEF Token
  <2> HIDE DEF revoked
  <2>3. /\ tokens \in Seq(Token)
        /\ DOMAIN tokens = DOMAIN issued[b]
        /\ Len(tokens) = Len(issued[b])
        /\ tokens[k] = revoked
        /\ \A i \in DOMAIN issued[b] : i # k => tokens[i] = issued[b][i]
    BY <1>2, <2>1, <2>2, ExceptSeq
  <2> HIDE DEF tokens
  <2>4. Rejected(b) = [issued EXCEPT ![b] = tokens]
    BY <1>4 DEF Rejected, tokens, revoked
  <2>5. /\ Rejected(b)[b] = tokens
        /\ \A c \in Activations \ {b} : Rejected(b)[c] = issued[c]
        /\ Rejected(b) \in [Activations -> Seq(Token)]
    BY <1>1, <2>3, <2>4 DEF TypeOK
  <2>6. issued[b] # <<>>
    BY <2>1
  <2>7. QED BY <2>2, <2>3, <2>5, <2>6
<1>5. QED BY <1>3, <1>4

LEMMA RevokeTokenStep ==
    ASSUME IInv, NEW t \in Threads, RevokeToken(t)
    PROVE  IInv'
<1> DEFINE b == call[t].activation
<1> USE DEF IInv
<1>1. /\ call[t] # Idle /\ issued' = Rejected(b)
      /\ Return(t) /\ UNCHANGED <<clock, activations>>
  BY DEF RevokeToken, At, Idle
<1>2. b \in Opened
  BY <1>1 DEF InFlight
<1>3. /\ issued' \in [Activations -> Seq(Token)]
      /\ \A c \in Activations :
             /\ DOMAIN issued'[c] = DOMAIN issued[c]
             /\ Len(issued'[c]) = Len(issued[c])
             /\ issued[c] = <<>> => issued'[c] = <<>>
             /\ \A i \in DOMAIN issued[c] :
                    /\ issued'[c][i].activated_by = issued[c][i].activated_by
                    /\ issued'[c][i].countersigned_by
                           = issued[c][i].countersigned_by
                    /\ issued'[c][i].expires_at = issued[c][i].expires_at
  BY <1>1, <1>2, RejectedEffect
<1>4. /\ call' \in [Threads -> Call \cup {Idle}]
      /\ call'[t] = Idle
      /\ \A u \in Threads \ {t} : call'[u] = call[u]
  BY <1>1, ReturnEffect
<1>5. Opened' = Opened /\ Opened \subseteq Activations
  BY <1>1 DEF Opened
<1>6. TypeOK'
  BY <1>1, <1>3, <1>4, <1>5 DEF TypeOK
<1>7. InFlight' /\ Checked'
  BY <1>1, <1>4, <1>5 DEF InFlight, Checked
<1>8. Unissued'
  BY <1>3, <1>5 DEF Unissued
<1>9. TokensOK'
  BY <1>1, <1>3, <1>5 DEF TokensOK
<1>10. QED BY <1>6, <1>7, <1>8, <1>9

LEMMA ActivateStep ==
    ASSUME IInv, NEW b \in Activations, NEW actor \in Actors,
           NEW role \in CallRoles, Activate(b, actor, role)
    PROVE  IInv'
<1> DEFINE new == [requested_by |-> actor, expires_at |-> clock + TTL,
                   status |-> "pending", token |-> 0]
<1> USE DEF IInv
<1>1. /\ activations[b] = NoActivation
      /\ activations' = [activations EXCEPT ![b] = new]
      /\ UNCHANGED <<clock, issued, call>>
  BY DEF Activate
<1>2. new \in Activation /\ new.token = 0
  BY TimeAssumption DEF TypeOK, Activation, Statuses
<1> HIDE DEF new
<1>3. /\ activations' \in [Activations -> Activation \cup {NoActivation}]
      /\ activations'[b] = new
      /\ \A c \in Activations \ {b} : activations'[c] = activations[c]
  BY <1>1, <1>2 DEF TypeOK
<1>4. /\ Opened' = Opened \cup {b} /\ b \notin Opened
      /\ \A c \in Opened : activations'[c] = activations[c]
  BY <1>1, <1>2, <1>3, NoActivationAssumption DEF Opened
<1>5. issued[b] = <<>>
  BY <1>4 DEF Unissued
<1>6. TypeOK'
  BY <1>1, <1>2, <1>3, <1>4, <1>5 DEF TypeOK
<1>7. InFlight' /\ Checked'
  BY <1>1, <1>4 DEF InFlight, Checked
<1>8. Unissued' /\ TokensOK'
  BY <1>1, <1>4, <1>5 DEF Unissued, TokensOK
<1>9. QED BY <1>6, <1>7, <1>8

LEMMA NewCallStep ==
    ASSUME IInv, NEW t \in Threads, NEW b \in Activations, NEW actor \in Actors,
           NEW role \in CallRoles,
           \/ \E op \in {"countersign", "revoke"} : Enter(t, op, b, actor, role)
           \/ RefreshFind(t, b, actor, role)
    PROVE  IInv'
<1> USE DEF IInv
<1>1. PICK c \in Call :
          /\ call' = [call EXCEPT ![t] = c]
          /\ c.activation = b
          /\ ~(c.op = "countersign" /\ c.pc \in {"status", "token"})
  <2>1. CASE \E op \in {"countersign", "revoke"} : Enter(t, op, b, actor, role)
    <3>1. PICK op \in {"countersign", "revoke"} : Enter(t, op, b, actor, role)
      BY <2>1
    <3> DEFINE c == [op |-> op, pc |-> "entered", activation |-> b,
                     actor |-> actor, role |-> role, now |-> clock]
    <3>2. c \in Call /\ c.activation = b /\ c.pc = "entered"
      BY DEF Call, TypeOK
    <3>3. call' = [call EXCEPT ![t] = c]
      BY <3>1 DEF Enter
    <3> HIDE DEF c
    <3>4. QED BY <3>2, <3>3
  <2>2. CASE RefreshFind(t, b, actor, role)
    <3> DEFINE c == [op |-> "refresh", pc |-> "status", activation |-> b,
                     actor |-> actor, role |-> role, now |-> clock]
    <3>1. c \in Call /\ c.activation = b /\ c.op = "refresh"
      BY DEF Call, TypeOK
    <3>2. call' = [call EXCEPT ![t] = c]
      BY <2>2 DEF RefreshFind
    <3> HIDE DEF c
    <3>3. QED BY <3>1, <3>2
  <2>3. QED BY <2>1, <2>2
<1>2. b \in Opened /\ UNCHANGED <<clock, activations, issued>>
  BY DEF Enter, RefreshFind
<1>3. /\ call' \in [Threads -> Call \cup {Idle}]
      /\ call'[t] = c
      /\ \A u \in Threads \ {t} : call'[u] = call[u]
  BY <1>1 DEF TypeOK
<1>4. Opened' = Opened
  BY <1>2 DEF Opened
<1>5. TypeOK'
  BY <1>2, <1>3, <1>4 DEF TypeOK
<1>6. InFlight' /\ Checked'
  BY <1>1, <1>2, <1>3, <1>4 DEF InFlight, Checked
<1>7. Unissued' /\ TokensOK'
  BY <1>2, <1>4 DEF Unissued, TokensOK
<1>8. QED BY <1>5, <1>6, <1>7

LEMMA QuietStep ==
    ASSUME IInv, Tick \/ UNCHANGED vars
    PROVE  IInv'
<1>1. clock' \in Nat /\ UNCHANGED <<activations, issued, call>>
  BY DEF IInv, TypeOK, Tick, vars
<1>2. Opened' = Opened
  BY <1>1 DEF Opened
<1>3. QED
  BY <1>1, <1>2 DEF IInv, TypeOK, InFlight, Checked, Unissued, TokensOK

-----------------------------------------------------------------------------
(* The theorems *)

LEMMA InitIInv == Init => IInv
<1> SUFFICES ASSUME Init PROVE IInv
  OBVIOUS
<1>1. Opened = {} /\ \A t \in Threads : call[t] = Idle
  BY DEF Init, Opened
<1>2. <<>> \in Seq(Token)
  OBVIOUS
<1>3. TypeOK
  BY <1>1, <1>2 DEF Init, TypeOK
<1>4. QED BY <1>1, <1>3 DEF Init, IInv, InFlight, Checked, Unissued, TokensOK

LEMMA NextIInv == IInv /\ [Next]_vars => IInv'
<1> SUFFICES ASSUME IInv, [Next]_vars PROVE IInv'
  OBVIOUS
<1>1. ASSUME NEW b \in Activations, NEW actor \in Actors, NEW role \in CallRoles,
             Activate(b, actor, role)
      PROVE  IInv'
  BY <1>1, ActivateStep
<1>2. ASSUME NEW t \in Threads, NEW b \in Activations, NEW actor \in Actors,
             NEW role \in CallRoles,
             \/ \E op \in {"countersign", "revoke"} : Enter(t, op, b, actor, role)
             \/ RefreshFind(t, b, actor, role)
      PROVE  IInv'
  BY <1>2, NewCallStep
<1>3. ASSUME NEW t \in Threads, Step(t)
      PROVE  IInv'
  BY <1>3, StatusStep, CountersignTokenStep, RevokeTokenStep DEF Step
<1>4. CASE Tick \/ UNCHANGED vars
  BY <1>4, QuietStep
<1>5. QED BY <1>1, <1>2, <1>3, <1>4 DEF Next

\* The inductive invariant holds in every reachable state.
THEOREM Invariance == Spec => []IInv
  BY InitIInv, NextIInv, PTL DEF Spec

\* Every reachable state of break-glass is well typed.
THEOREM TypeCorrect == Spec => []TypeOK
<1>1. IInv => TypeOK
  BY DEF IInv
<1>2. QED BY <1>1, Invariance, PTL

\* A wildcard token always has two different people behind it and is dead once
\* its activation's window has closed, however calls interleave.
THEOREM BoundedOverride == Spec => []OverrideIsBounded
<1>1. IInv => OverrideIsBounded
  BY DEF IInv, TokensOK, OverrideIsBounded, Live
<1>2. QED BY <1>1, Invariance, PTL

-----------------------------------------------------------------------------
(* Which overlaps the promises survive *)

On(t, b, op, points) ==
    /\ call[t] # Idle
    /\ call[t].activation = b /\ call[t].op = op /\ call[t].pc \in points

\* The history variable knows of the calls that overlap now.
OverlapsSeen == \A b \in Activations : Overlaps(b) \subseteq together[b]

\* An activation points at the last token issued for it.
PointsAtLast == \A b \in Opened : activations[b].token = Len(issued[b])

\* Without overlapping countersigns one of them at most gets past its checks,
\* and no other after it, because nothing makes an activation pending again.
Once(b) ==
    /\ Len(issued[b]) <= 1
    /\ Len(issued[b]) # 0 => ~Awaiting(b)
    /\ \A t \in Threads :
           On(t, b, "countersign", {"status", "token"}) => Len(issued[b]) = 0
    /\ \A t \in Threads : On(t, b, "countersign", {"token"}) => ~Awaiting(b)

\* Without a revoke overlapping a countersign, a revoked activation gets no
\* token, and the one it had is rejected or about to be.
Killed(b) ==
    /\ \A t \in Threads :
           On(t, b, "countersign", {"status", "token"}) =>
               activations[b].status # "revoked"
    /\ activations[b].status = "revoked" =>
           \/ \E t \in Threads : On(t, b, "revoke", {"token"})
           \/ \A i \in DOMAIN issued[b] : issued[b][i].status = "rejected"

\* Without calls of different operations, what a call is about to write is no
\* change of a final status.
Ends(b) ==
    \A t \in Threads :
        /\ On(t, b, "countersign", {"status"}) => activations[b].status \notin Final
        /\ On(t, b, "revoke", {"status"}) => activations[b].status # "expired"
        /\ On(t, b, "refresh", {"status"}) => activations[b].status # "revoked"

Alike == {{"revoke"}, {"refresh"}}

Promised(b) ==
    /\ {"countersign"} \in together[b] \/ Once(b)
    /\ {{"countersign"}, {"countersign", "revoke"}} \cap together[b] # {} \/ Killed(b)
    /\ together[b] \subseteq Alike => Ends(b)

OInv == OverlapsSeen /\ PointsAtLast /\ \A b \in Opened : Promised(b)

LEMMA TogetherGrows ==
    ASSUME MCNext
    PROVE  /\ OverlapsSeen'
           /\ \A b \in Activations : together[b] \subseteq together'[b]
  BY DEF MCNext, OverlapsSeen

LEMMA OverlapIsSeen ==
    ASSUME OverlapsSeen, NEW b \in Activations, NEW t \in Threads, NEW u \in Threads,
           t # u, call[t] # Idle, call[u] # Idle,
           call[t].activation = b, call[u].activation = b
    PROVE  {call[t].op, call[u].op} \in together[b]
<1>1. t \in Busy(b) /\ u \in Busy(b)
  BY DEF Busy
<1>2. {call[t].op, call[u].op} \in Overlaps(b)
  <2> DEFINE pair == <<t, u>>
  <2>1. pair \in Busy(b) \X Busy(b) /\ pair[1] = t /\ pair[2] = u
    BY <1>1
  <2>2. pair \in {q \in Busy(b) \X Busy(b) : q[1] # q[2]}
    BY <2>1
  <2> HIDE DEF pair
  <2>3. QED BY <2>1, <2>2 DEF Overlaps
<1>3. QED BY <1>2 DEF OverlapsSeen

\* An activation whose own state is the same, and on which no call is at
\* another point, keeps its promises.
LEMMA PromisedStays ==
    ASSUME NEW b, Promised(b), together[b] \subseteq together'[b],
           activations'[b] = activations[b], issued'[b] = issued[b],
           \A t \in Threads, op \in {"countersign", "revoke", "refresh"},
              points \in {{"status"}, {"token"}, {"status", "token"}} :
                  On(t, b, op, points)' <=> On(t, b, op, points)
    PROVE  Promised(b)'
<1>1. Once(b) => Once(b)'
  BY DEF Once, Awaiting
<1>2. Killed(b) => Killed(b)'
  BY DEF Killed
<1>3. Ends(b) => Ends(b)'
  BY DEF Ends
<1>4. QED BY <1>1, <1>2, <1>3 DEF Promised

LEMMA StatusWritten ==
    ASSUME TypeOK, NEW b \in Opened, NEW s \in Statuses, SetStatus(b, s)
    PROVE  /\ activations'[b].status = s
           /\ activations'[b].token = activations[b].token
           /\ \A c \in Activations \ {b} : activations'[c] = activations[c]
           /\ Opened' = Opened
<1>1. activations[b] \in Activation /\ b \in Activations
  BY DEF TypeOK, Opened
<1>2. activations' = [activations EXCEPT ![b] = [activations[b] EXCEPT !.status = s]]
  BY DEF SetStatus
<1>3. /\ activations'[b].status = s
      /\ activations'[b].token = activations[b].token
  BY <1>1, <1>2 DEF TypeOK, Activation
<1>4. QED BY <1>2, <1>3, SetStatusEffect DEF TypeOK

\* What a step of thread t changes: t's own call, and the activation it works
\* on.
LEMMA StepIsLocal ==
    ASSUME IInv, NEW t \in Threads, Step(t)
    PROVE  /\ call[t] \in Call /\ call[t].activation \in Opened
           /\ Opened' = Opened
           /\ \/ call'[t] = Idle
              \/ \E p \in {"status", "token"} : call'[t] = [call[t] EXCEPT !.pc = p]
           /\ \A u \in Threads \ {t} : call'[u] = call[u]
           /\ \A c \in Activations \ {call[t].activation} :
                  activations'[c] = activations[c] /\ issued'[c] = issued[c]
           /\ call[t] # Idle
<1> DEFINE b == call[t].activation
<1>1. TypeOK /\ call[t] # Idle
  BY DEF IInv, Step, CountersignRefused, CountersignExpired, CountersignAccepted,
         CountersignStatus, CountersignToken, RevokeRefused, RevokeAccepted,
         RevokeStatus, RevokeToken, RefreshStatus, At, Idle
<1>2. call[t] \in Call /\ b \in Opened /\ b \in Activations
  BY <1>1 DEF IInv, TypeOK, InFlight, Opened
<1>3. /\ \/ call'[t] = Idle
         \/ \E p \in {"status", "token"} : call'[t] = [call[t] EXCEPT !.pc = p]
      /\ \A u \in Threads \ {t} : call'[u] = call[u]
  <2>1. Return(t) \/ \E p \in {"status", "token"} : Goto(t, p)
    BY DEF Step, CountersignRefused, CountersignExpired, CountersignAccepted,
           CountersignStatus, CountersignToken, RevokeRefused, RevokeAccepted,
           RevokeStatus, RevokeToken, RefreshStatus
  <2>2. QED BY <1>1, <2>1, ReturnEffect, CallMoves
<1>4. Opened' = Opened /\ \A c \in Activations \ {b} : activations'[c] = activations[c]
  <2>1. CASE UNCHANGED activations
    BY <2>1 DEF Opened
  <2>2. CASE \E s \in Statuses : SetStatus(b, s)
    BY <1>1, <1>2, <2>2, StatusWritten
  <2>3. CASE activations' = [activations EXCEPT ![b].token = Len(issued[b]) + 1]
    <3>1. activations[b] \in Activation /\ Len(issued[b]) + 1 \in Nat
      BY <1>1, <1>2, LenProperties DEF TypeOK, Opened
    <3>2. [activations[b] EXCEPT !.token = Len(issued[b]) + 1] \in Activation
      BY <3>1 DEF Activation
    <3>3. QED BY <1>1, <1>2, <2>3, <3>2, NoActivationAssumption DEF TypeOK, Opened
  <2>4. QED BY <2>1, <2>2, <2>3
    DEF Step, CountersignRefused, CountersignExpired, CountersignAccepted,
        CountersignStatus, CountersignToken, RevokeRefused, RevokeAccepted,
        RevokeStatus, RevokeToken, RefreshStatus, Statuses
<1>5. \A c \in Activations \ {b} : issued'[c] = issued[c]
  <2>1. \A c \in Activations \ {b} : Rejected(b)[c] = issued[c]
    BY <1>1 DEF Rejected, TypeOK
  <2>2. QED BY <1>1, <2>1
    DEF TypeOK, Step, CountersignRefused, CountersignExpired, CountersignAccepted,
        CountersignStatus, CountersignToken, RevokeRefused, RevokeAccepted,
        RevokeStatus, RevokeToken, RefreshStatus
<1>6. QED BY <1>1, <1>2, <1>3, <1>4, <1>5

LEMMA StepPromises ==
    ASSUME IInv, OInv, MCNext, NEW t \in Threads, Step(t),
           NEW b \in Opened, b = call[t].activation
    PROVE  OInv'
<1> USE DEF IInv, OInv
<1>1. /\ call[t] \in Call /\ call[t] # Idle
      /\ Opened' = Opened
      /\ \/ call'[t] = Idle
         \/ \E p \in {"status", "token"} : call'[t] = [call[t] EXCEPT !.pc = p]
      /\ \A u \in Threads \ {t} : call'[u] = call[u]
      /\ \A c \in Activations \ {b} :
             activations'[c] = activations[c] /\ issued'[c] = issued[c]
  BY StepIsLocal
<1>2. /\ b \in Activations /\ activations[b] \in Activation /\ issued[b] \in Seq(Token)
      /\ TypeOK
  BY DEF TypeOK, Opened
<1>3. /\ OverlapsSeen'
      /\ \A c \in Activations : together[c] \subseteq together'[c]
  BY TogetherGrows
<1>4. ASSUME NEW c \in Opened, c # b PROVE Promised(c)'
  <2>1. ASSUME NEW u \in Threads, NEW op, NEW points
        PROVE  On(u, c, op, points)' <=> On(u, c, op, points)
    <3>1. CASE u = t
      <4>1. call'[t] = Idle \/ call'[t].activation = b
        BY <1>1 DEF Call
      <4>2. QED BY <1>4, <3>1, <4>1 DEF On
    <3>2. CASE u # t
      BY <1>1, <3>2 DEF On
    <3>3. QED BY <3>1, <3>2
  <2>2. c \in Activations
    BY DEF Opened
  <2>3. QED BY <1>1, <1>3, <1>4, <2>1, <2>2, PromisedStays
<1>5. ASSUME NEW u \in Threads, u # t, NEW op, NEW points
      PROVE  On(u, b, op, points)' <=> On(u, b, op, points)
  BY <1>1, <1>5 DEF On
<1>6. ASSUME NEW u \in Threads, u # t, NEW op, NEW points, On(u, b, op, points)
      PROVE  {call[t].op, op} \in together[b]
  BY <1>1, <1>2, <1>6, OverlapIsSeen DEF On
<1>7. call'[t] # Idle =>
          /\ call'[t].op = call[t].op /\ call'[t].activation = b
          /\ call'[t].pc \in {"status", "token"}
  BY <1>1 DEF Call
<1>8. PointsAtLast /\ Promised(b) /\ activations[b].token = Len(issued[b])
  BY DEF PointsAtLast
<1>0. ASSUME together[b] \subseteq Alike,
             NEW u \in Threads, u # t, NEW op, NEW points, On(u, b, op, points)
      PROVE  op = call[t].op /\ op \in {"revoke", "refresh"}
  <2>1. {call[t].op, op} = {"revoke"} \/ {call[t].op, op} = {"refresh"}
    BY <1>0, <1>6 DEF Alike
  <2>2. call[t].op \in {call[t].op, op} /\ op \in {call[t].op, op}
    OBVIOUS
  <2>3. QED BY <2>1, <2>2
<1>9. /\ activations'[b].token = Len(issued'[b])
      /\ {"countersign"} \notin together[b] => Once(b)'
      /\ {{"countersign"}, {"countersign", "revoke"}} \cap together[b] = {} => Killed(b)'
      /\ together[b] \subseteq Alike => Ends(b)'
  <2>1. CASE CountersignRefused(t) \/ RevokeRefused(t)
    <3>1. /\ call'[t] = Idle /\ UNCHANGED <<activations, issued>>
          /\ call[t].pc = "entered"
      BY <1>2, <2>1, ReturnEffect DEF CountersignRefused, RevokeRefused, At
    <3>2. ASSUME NEW op, NEW points \in {{"status"}, {"token"}, {"status", "token"}},
                 NEW u \in Threads
          PROVE  On(u, b, op, points)' <=> On(u, b, op, points)
      <4>1. u = t => ~On(u, b, op, points) /\ ~On(u, b, op, points)'
        BY <3>1 DEF On
      <4>2. QED BY <1>5, <4>1
    <3>3. Once(b) => Once(b)'
      BY <3>1, <3>2 DEF Once, Awaiting
    <3>4. Killed(b) => Killed(b)'
      BY <3>1, <3>2 DEF Killed
    <3>5. Ends(b) => Ends(b)'
      BY <3>1, <3>2 DEF Ends
    <3>6. QED BY <1>8, <3>1, <3>3, <3>4, <3>5 DEF Promised
  <2>2. CASE CountersignExpired(t)
    <3>1. /\ call'[t] = Idle /\ issued' = issued
          /\ call[t].pc = "entered" /\ call[t].op = "countersign"
          /\ activations[b].status = "pending"
          /\ activations'[b].status = "expired"
          /\ activations'[b].token = activations[b].token
      BY <1>2, <2>2, ReturnEffect, StatusWritten
         DEF CountersignExpired, At, Awaiting, Statuses
    <3>2. Once(b) => Once(b)'
      BY <1>5, <3>1 DEF Once, Awaiting, On
    <3>3. Killed(b)'
      BY <3>1 DEF Killed
    <3>4. together[b] \subseteq Alike => Ends(b)'
      <4> SUFFICES ASSUME together[b] \subseteq Alike, NEW u \in Threads
                   PROVE  /\ ~On(u, b, "countersign", {"status"})'
                          /\ ~On(u, b, "revoke", {"status"})'
        BY <3>1 DEF Ends
      <4>1. CASE u = t
        BY <3>1, <4>1 DEF On
      <4>2. CASE u # t
        BY <1>0, <1>5, <3>1, <4>2
      <4>3. QED BY <4>1, <4>2
    <3>5. QED BY <1>8, <3>1, <3>2, <3>3, <3>4 DEF Promised
  <2>3. CASE CountersignAccepted(t)
    <3>1. /\ call'[t].op = "countersign" /\ call'[t].pc = "status"
          /\ call[t].op = "countersign" /\ call[t].pc = "entered"
          /\ UNCHANGED <<activations, issued>>
          /\ activations[b].status = "pending"
      BY <1>1, <1>2, <2>3, CallMoves DEF CountersignAccepted, At, Awaiting, Call
    <3>2. Once(b) => Once(b)'
      BY <1>5, <3>1 DEF Once, Awaiting, On
    <3>3. Killed(b)'
      BY <3>1 DEF Killed
    <3>4. Ends(b) => Ends(b)'
      BY <1>5, <3>1 DEF Ends, On, Final
    <3>5. QED BY <1>8, <3>1, <3>2, <3>3, <3>4 DEF Promised
  <2>4. CASE CountersignStatus(t)
    <3>1. /\ call'[t].op = "countersign" /\ call'[t].pc = "token"
          /\ call[t].op = "countersign" /\ call[t].pc = "status"
          /\ issued' = issued
          /\ activations'[b].status = "active"
          /\ activations'[b].token = activations[b].token
      <4>1. /\ call[t].op = "countersign" /\ call[t].pc = "status"
            /\ Goto(t, "token") /\ SetStatus(b, "active") /\ issued' = issued
        BY <2>4 DEF CountersignStatus, At
      <4>2. call'[t] = [call[t] EXCEPT !.pc = "token"]
        BY <1>1, <1>2, <4>1, CallMoves
      <4>3. call'[t].op = "countersign" /\ call'[t].pc = "token"
        BY <1>1, <4>1, <4>2 DEF Call
      <4>4. /\ activations'[b].status = "active"
            /\ activations'[b].token = activations[b].token
        BY <1>2, <4>1, StatusWritten DEF Statuses
      <4>5. QED BY <4>1, <4>3, <4>4
    <3>2. On(t, b, "countersign", {"status", "token"})
      BY <1>1, <3>1 DEF On
    <3>3. Once(b) => Once(b)'
      BY <1>5, <3>1, <3>2 DEF Once, Awaiting
    <3>4. Killed(b)'
      BY <3>1 DEF Killed
    <3>5. together[b] \subseteq Alike => Ends(b)'
      BY <1>5, <1>6, <3>1 DEF Ends, On, Alike, Final
    <3>6. QED BY <1>8, <3>1, <3>3, <3>4, <3>5 DEF Promised
  <2>5. CASE CountersignToken(t)
    <3>1. /\ call'[t] = Idle
          /\ call[t].op = "countersign" /\ call[t].pc = "token"
          /\ activations'[b].status = activations[b].status
          /\ activations'[b].token = Len(issued[b]) + 1
          /\ Len(issued'[b]) = Len(issued[b]) + 1 /\ Len(issued[b]) \in Nat
      <4>1. PICK token : issued' = [issued EXCEPT ![b] = Append(@, token)]
        BY <2>5 DEF CountersignToken
      <4>2. /\ call[t].op = "countersign" /\ call[t].pc = "token"
            /\ activations' = [activations EXCEPT ![b].token = Len(issued[b]) + 1]
            /\ Return(t)
        BY <2>5 DEF CountersignToken, At
      <4>3. call'[t] = Idle
        BY <1>2, <4>2, ReturnEffect
      <4>4. /\ activations'[b].status = activations[b].status
            /\ activations'[b].token = Len(issued[b]) + 1
        BY <1>2, <4>2 DEF TypeOK, Activation
      <4>5. issued'[b] = Append(issued[b], token) /\ issued[b] \in Seq(Token \cup {token})
        BY <1>2, <4>1, SeqMonotonic DEF TypeOK
      <4>6. Len(issued'[b]) = Len(issued[b]) + 1 /\ Len(issued[b]) \in Nat
        BY <4>5, AppendProperties, LenProperties
      <4>7. QED BY <4>2, <4>3, <4>4, <4>6
    <3>2. On(t, b, "countersign", {"status", "token"})
          /\ On(t, b, "countersign", {"token"})
      BY <1>1, <3>1 DEF On
    <3>3. {"countersign"} \notin together[b] /\ Once(b) => Once(b)'
      <4> SUFFICES ASSUME {"countersign"} \notin together[b], Once(b)
                   PROVE  Once(b)'
        OBVIOUS
      <4>1. Len(issued'[b]) = 1 /\ ~Awaiting(b)'
        BY <3>1, <3>2 DEF Once, Awaiting
      <4>2. ASSUME NEW u \in Threads, NEW points
            PROVE  ~On(u, b, "countersign", points)'
        <5>1. CASE u = t
          BY <3>1, <5>1 DEF On
        <5>2. CASE u # t
          <6>1. {"countersign", "countersign"} = {"countersign"}
            OBVIOUS
          <6>2. QED BY <1>5, <1>6, <3>1, <5>2, <6>1
        <5>3. QED BY <5>1, <5>2
      <4>3. QED BY <4>1, <4>2 DEF Once
    <3>4. Killed(b) => Killed(b)'
      BY <1>5, <3>1, <3>2 DEF Killed, On
    <3>5. Ends(b) => Ends(b)'
      <4> SUFFICES ASSUME Ends(b), NEW u \in Threads, NEW op,
                          On(u, b, op, {"status"})'
                   PROVE  On(u, b, op, {"status"})
        BY <3>1 DEF Ends
      <4>1. u # t
        BY <3>1 DEF On
      <4>2. QED BY <1>5, <4>1
    <3>6. QED BY <1>8, <3>1, <3>3, <3>4, <3>5 DEF Promised
  <2>6. CASE RevokeAccepted(t)
    <3>1. /\ call'[t].op = "revoke" /\ call'[t].pc = "status"
          /\ call[t].op = "revoke" /\ call[t].pc = "entered"
          /\ UNCHANGED <<activations, issued>>
          /\ activations[b].status \notin Final
      BY <1>1, <1>2, <2>6, CallMoves DEF RevokeAccepted, At, Call
    <3>2. Once(b) => Once(b)'
      BY <1>5, <3>1 DEF Once, Awaiting, On
    <3>3. Killed(b)'
      BY <3>1 DEF Killed, Final
    <3>4. Ends(b) => Ends(b)'
      BY <1>5, <3>1 DEF Ends, On, Final
    <3>5. QED BY <1>8, <3>1, <3>2, <3>3, <3>4 DEF Promised
  <2>7. CASE RevokeStatus(t)
    <3>1. /\ call'[t] # Idle /\ call'[t].op = "revoke" /\ call'[t].pc = "token"
          /\ call[t].op = "revoke" /\ call[t].pc = "status"
          /\ issued' = issued
          /\ activations'[b].status = "revoked"
          /\ activations'[b].token = activations[b].token
      <4>1. /\ call[t].op = "revoke" /\ call[t].pc = "status"
            /\ Goto(t, "token") /\ SetStatus(b, "revoked") /\ issued' = issued
        BY <2>7 DEF RevokeStatus, At
      <4>2. call'[t] = [call[t] EXCEPT !.pc = "token"]
        BY <1>1, <1>2, <4>1, CallMoves
      <4>3. call'[t].op = "revoke" /\ call'[t].pc = "token" /\ call'[t] # Idle
        BY <1>1, <4>1, <4>2 DEF Call, Idle
      <4>4. /\ activations'[b].status = "revoked"
            /\ activations'[b].token = activations[b].token
        BY <1>2, <4>1, StatusWritten DEF Statuses
      <4>5. QED BY <4>1, <4>3, <4>4
    <3>2. Once(b) => Once(b)'
      BY <1>5, <3>1 DEF Once, Awaiting, On
    <3>3. {{"countersign"}, {"countersign", "revoke"}} \cap together[b] = {}
              => Killed(b)'
      <4> SUFFICES ASSUME {"countersign", "revoke"} \notin together[b]
                   PROVE  Killed(b)'
        OBVIOUS
      <4>1. On(t, b, "revoke", {"token"})'
        BY <1>7, <3>1 DEF On
      <4>2. ASSUME NEW u \in Threads, NEW points
            PROVE  ~On(u, b, "countersign", points)'
        <5>1. CASE u = t
          BY <3>1, <5>1 DEF On
        <5>2. CASE u # t
          <6>1. {"revoke", "countersign"} = {"countersign", "revoke"}
            OBVIOUS
          <6>2. QED BY <1>5, <1>6, <3>1, <5>2, <6>1
        <5>3. QED BY <5>1, <5>2
      <4>3. QED BY <4>1, <4>2 DEF Killed
    <3>4. together[b] \subseteq Alike => Ends(b)'
      <4> SUFFICES ASSUME together[b] \subseteq Alike, NEW u \in Threads
                   PROVE  /\ ~On(u, b, "countersign", {"status"})'
                          /\ ~On(u, b, "refresh", {"status"})'
        BY <3>1 DEF Ends
      <4>1. CASE u = t
        BY <3>1, <4>1 DEF On
      <4>2. CASE u # t
        BY <1>0, <1>5, <3>1, <4>2
      <4>3. QED BY <4>1, <4>2
    <3>5. QED BY <1>8, <3>1, <3>2, <3>3, <3>4 DEF Promised
  <2>8. CASE RevokeToken(t)
    <3>1. /\ call'[t] = Idle
          /\ call[t].op = "revoke" /\ call[t].pc = "token"
          /\ activations' = activations
          /\ issued' = Rejected(b)
      BY <1>2, <2>8, ReturnEffect DEF RevokeToken, At
    <3>2. Len(issued'[b]) = Len(issued[b]) /\ DOMAIN issued'[b] = DOMAIN issued[b]
      BY <1>2, <3>1, RejectedEffect
    <3>3. Once(b) => Once(b)'
      BY <1>5, <3>1, <3>2 DEF Once, Awaiting, On
    <3>4. Once(b) /\ Killed(b) => Killed(b)'
      <4> SUFFICES ASSUME Once(b), Killed(b) PROVE Killed(b)'
        OBVIOUS
      <4>1. ASSUME NEW i \in DOMAIN issued'[b] PROVE issued'[b][i].status = "rejected"
        <5>1. Len(issued[b]) = 1 /\ i = 1 /\ activations[b].token = 1
          <6>1. i \in 1..Len(issued[b]) /\ Len(issued[b]) \in Nat
            BY <1>2, <3>2, <4>1, LenProperties
          <6>2. Len(issued[b]) <= 1
            BY DEF Once
          <6>3. ASSUME NEW n \in Nat, i \in 1..n, n <= 1 PROVE n = 1 /\ i = 1
            BY <6>3
          <6>4. Len(issued[b]) = 1 /\ i = 1
            BY <6>1, <6>2, <6>3
          <6>5. QED BY <1>8, <6>4
        <5>2. issued' = [issued EXCEPT ![b][1].status = "rejected"]
          BY <3>1, <5>1 DEF Rejected
        <5>3. 1 \in DOMAIN issued[b] /\ issued[b][1] \in Token
          BY <1>2, <5>1, LenProperties, ElementOfSeq
        <5>4. issued'[b][1] = [issued[b][1] EXCEPT !.status = "rejected"]
          BY <1>2, <5>2, <5>3 DEF TypeOK
        <5>5. issued'[b][1].status = "rejected"
          BY <5>3, <5>4 DEF Token
        <5>6. QED BY <5>1, <5>5
      <4>2. ASSUME NEW u \in Threads, On(u, b, "countersign", {"status", "token"})'
            PROVE  (activations[b].status # "revoked")'
        <5>1. u # t
          BY <3>1, <4>2 DEF On
        <5>2. QED BY <1>5, <3>1, <4>2, <5>1 DEF Killed
      <4>3. QED BY <4>1, <4>2 DEF Killed
    <3>5. Ends(b) => Ends(b)'
      BY <1>5, <3>1 DEF Ends, On
    <3>6. QED BY <1>8, <3>1, <3>2, <3>3, <3>4, <3>5 DEF Promised
  <2>9. CASE RefreshStatus(t)
    <3>1. /\ call'[t] = Idle /\ issued' = issued
          /\ call[t].pc = "status" /\ call[t].op = "refresh"
          /\ activations'[b].status = "expired"
          /\ activations'[b].token = activations[b].token
      BY <1>2, <2>9, ReturnEffect, StatusWritten DEF RefreshStatus, At, Statuses
    <3>2. Once(b) => Once(b)'
      BY <1>5, <3>1 DEF Once, Awaiting, On
    <3>3. Killed(b)'
      BY <3>1 DEF Killed
    <3>4. together[b] \subseteq Alike => Ends(b)'
      <4> SUFFICES ASSUME together[b] \subseteq Alike, NEW u \in Threads
                   PROVE  /\ ~On(u, b, "countersign", {"status"})'
                          /\ ~On(u, b, "revoke", {"status"})'
        BY <3>1 DEF Ends
      <4>1. CASE u = t
        BY <3>1, <4>1 DEF On
      <4>2. CASE u # t
        BY <1>0, <1>5, <3>1, <4>2
      <4>3. QED BY <4>1, <4>2
    <3>5. QED BY <1>8, <3>1, <3>2, <3>3, <3>4 DEF Promised
  <2>10. QED
    BY <2>1, <2>2, <2>3, <2>4, <2>5, <2>6, <2>7, <2>8, <2>9 DEF Step
<1>10. Promised(b)'
  BY <1>2, <1>3, <1>9 DEF Promised
<1>11. PointsAtLast'
  BY <1>1, <1>8, <1>9 DEF PointsAtLast, Opened
<1>12. QED BY <1>1, <1>3, <1>4, <1>10, <1>11

\* Opening an activation, and a call that starts, keep the promises.
LEMMA StartPromises ==
    ASSUME IInv, OInv, MCNext,
           NEW b \in Activations, NEW actor \in Actors, NEW role \in CallRoles,
           \/ Activate(b, actor, role)
           \/ \E t \in Threads :
                  \/ \E op \in {"countersign", "revoke"} : Enter(t, op, b, actor, role)
                  \/ RefreshFind(t, b, actor, role)
    PROVE  OInv'
<1> USE DEF IInv, OInv
<1>1. /\ OverlapsSeen' /\ TypeOK /\ PointsAtLast
      /\ \A c \in Activations : together[c] \subseteq together'[c]
  BY TogetherGrows
<1>2. CASE Activate(b, actor, role)
  <2> DEFINE new == [requested_by |-> actor, expires_at |-> clock + TTL,
                     status |-> "pending", token |-> 0]
  <2>1. /\ activations[b] = NoActivation
        /\ activations' = [activations EXCEPT ![b] = new]
        /\ UNCHANGED <<clock, issued, call>>
    BY <1>2 DEF Activate
  <2>2. new \in Activation /\ new.token = 0 /\ new.status = "pending"
    BY <1>1, TimeAssumption DEF TypeOK, Activation, Statuses
  <2> HIDE DEF new
  <2>3. /\ activations'[b] = new
        /\ \A c \in Activations \ {b} : activations'[c] = activations[c]
    BY <1>1, <2>1 DEF TypeOK
  <2>4. Opened' = Opened \cup {b} /\ b \notin Opened
    BY <2>1, <2>2, <2>3, NoActivationAssumption DEF Opened
  <2>5. issued'[b] = <<>>
    BY <2>1, <2>4 DEF Unissued
  <2>6. ASSUME NEW u \in Threads, NEW op, NEW points
        PROVE  ~On(u, b, op, points)'
    BY <2>1, <2>4 DEF InFlight, On
  <2>7. Promised(b)'
    <3>1. Once(b)' /\ Killed(b)'
      BY <2>2, <2>3, <2>5, <2>6 DEF Once, Killed
    <3>2. Ends(b)'
      BY <2>6 DEF Ends
    <3>3. QED BY <3>1, <3>2 DEF Promised
  <2>8. ASSUME NEW c \in Opened PROVE Promised(c)'
    <3>1. c # b /\ c \in Activations
      BY <2>4 DEF Opened
    <3>2. activations'[c] = activations[c] /\ issued'[c] = issued[c]
      BY <2>1, <2>3, <3>1
    <3>3. ASSUME NEW u \in Threads, NEW op, NEW points
          PROVE  On(u, c, op, points)' <=> On(u, c, op, points)
      BY <2>1 DEF On
    <3>4. QED BY <1>1, <3>1, <3>2, <3>3, PromisedStays
  <2>9. PointsAtLast'
    <3>1. Len(<<>>) = 0
      OBVIOUS
    <3>2. ASSUME NEW c \in Opened
          PROVE  activations'[c].token = Len(issued'[c])
      BY <1>1, <2>1, <2>3, <2>4, <3>2 DEF PointsAtLast, Opened
    <3>3. activations'[b].token = Len(issued'[b])
      BY <2>2, <2>3, <2>5, <3>1
    <3>4. QED BY <2>4, <3>2, <3>3 DEF PointsAtLast
  <2>10. QED BY <1>1, <2>4, <2>7, <2>8, <2>9
<1>3. ASSUME NEW t \in Threads,
             \/ \E op \in {"countersign", "revoke"} : Enter(t, op, b, actor, role)
             \/ RefreshFind(t, b, actor, role)
      PROVE  OInv'
  <2>1. /\ call[t] = Idle /\ UNCHANGED <<clock, activations, issued>>
        /\ \A u \in Threads \ {t} : call'[u] = call[u]
        /\ call'[t].activation = b
        /\ \/ call'[t].pc = "entered"
           \/ call'[t].op = "refresh" /\ call'[t].pc = "status" /\ Stale(b, clock)
    BY <1>1, <1>3 DEF Enter, RefreshFind, TypeOK
  <2>2. Opened' = Opened /\ PointsAtLast'
    BY <1>1, <2>1 DEF Opened, PointsAtLast
  <2>3. ASSUME NEW c \in Opened PROVE Promised(c)'
    <3>1. /\ c \in Activations /\ Promised(c)
          /\ activations'[c] = activations[c] /\ issued'[c] = issued[c]
      BY <2>1 DEF Opened
    <3>2. ASSUME NEW u \in Threads, NEW op \in {"countersign", "revoke"},
                 NEW points \in {{"status"}, {"token"}, {"status", "token"}}
          PROVE  On(u, c, op, points)' <=> On(u, c, op, points)
      <4>1. u = t => ~On(u, c, op, points) /\ ~On(u, c, op, points)'
        BY <2>1 DEF On
      <4>2. u # t => (On(u, c, op, points)' <=> On(u, c, op, points))
        BY <2>1 DEF On
      <4>3. QED BY <4>1, <4>2
    <3>3. ASSUME NEW u \in Threads, On(u, c, "refresh", {"status"})'
          PROVE  On(u, c, "refresh", {"status"}) \/ activations[c].status # "revoked"
      <4>1. CASE u = t
        BY <2>1, <3>3, <4>1 DEF On, Stale
      <4>2. CASE u # t
        BY <2>1, <3>3, <4>2 DEF On
      <4>3. QED BY <4>1, <4>2
    <3>4. Once(c) => Once(c)'
      BY <3>1, <3>2 DEF Once, Awaiting
    <3>5. Killed(c) => Killed(c)'
      BY <3>1, <3>2 DEF Killed
    <3>6. Ends(c) => Ends(c)'
      BY <3>1, <3>2, <3>3 DEF Ends
    <3>7. QED BY <1>1, <3>1, <3>4, <3>5, <3>6 DEF Promised
  <2>4. QED BY <1>1, <2>2, <2>3
<1>4. QED BY <1>2, <1>3

LEMMA InitOInv == MCInit => OInv
<1> SUFFICES ASSUME MCInit PROVE OInv
  OBVIOUS
<1>1. Opened = {} /\ \A t \in Threads : call[t] = Idle
  BY DEF MCInit, Init, Opened
<1>2. \A b \in Activations : Overlaps(b) = {}
  BY <1>1 DEF Overlaps, Busy
<1>3. QED BY <1>1, <1>2 DEF OInv, OverlapsSeen, PointsAtLast

LEMMA NextOInv == IInv /\ OInv /\ [MCNext]_<<vars, together>> => OInv'
<1> SUFFICES ASSUME IInv, OInv, [MCNext]_<<vars, together>> PROVE OInv'
  OBVIOUS
<1>1. ASSUME NEW b, activations' = activations, issued' = issued, call' = call,
             Promised(b), together[b] \subseteq together'[b]
      PROVE  Promised(b)'
  <2>1. \A u \in Threads, op \in {"countersign", "revoke", "refresh"},
           points \in {{"status"}, {"token"}, {"status", "token"}} :
            On(u, b, op, points)' <=> On(u, b, op, points)
    BY <1>1 DEF On
  <2>2. QED BY <1>1, <2>1, PromisedStays
<1>2. CASE UNCHANGED <<vars, together>>
  <2>1. UNCHANGED <<activations, issued, call, together, Opened>>
    BY <1>2 DEF vars, Opened
  <2>2. OverlapsSeen' /\ PointsAtLast'
    BY <2>1 DEF OInv, OverlapsSeen, PointsAtLast, Overlaps, Busy
  <2>3. QED BY <1>1, <2>1, <2>2 DEF OInv
<1>3. CASE MCNext
  <2>1. ASSUME Tick PROVE OInv'
    <3>1. UNCHANGED <<activations, issued, call, Opened>>
      BY <2>1 DEF Tick, Opened
    <3>2. OverlapsSeen' /\ PointsAtLast'
      BY <1>3, <3>1, TogetherGrows DEF OInv, PointsAtLast
    <3>3. \A b \in Opened : together[b] \subseteq together'[b]
      BY <1>3, TogetherGrows DEF Opened
    <3>4. QED BY <1>1, <3>1, <3>2, <3>3 DEF OInv
  <2>2. ASSUME NEW t \in Threads, Step(t) PROVE OInv'
    BY <1>3, <2>2, StepIsLocal, StepPromises
  <2>3. QED BY <1>3, <2>1, <2>2, StartPromises DEF MCNext, Next
<1>4. QED BY <1>2, <1>3

LEMMA OverlapInvariance == MCSpec => [](IInv /\ OInv)
<1>1. MCInit => IInv /\ OInv
  BY InitIInv, InitOInv DEF MCInit
<1>2. IInv /\ [MCNext]_<<vars, together>> => IInv'
  BY NextIInv DEF MCNext
<1>3. QED BY <1>1, <1>2, NextOInv, PTL DEF MCSpec

\* A revoke kills the override, and there is never a second token, unless a
\* countersign overlapped a revoke or another countersign.
THEOREM RevocationKills == MCSpec => []RevokeKills
<1>1. IInv /\ OInv => RevokeKills
  <2> SUFFICES ASSUME IInv, OInv, NEW b \in Opened,
                      {"countersign"} \notin together[b]
               PROVE  /\ Len(issued[b]) <= 1
                      /\ {"countersign", "revoke"} \notin together[b] => DeadIfRevoked(b)
    BY DEF RevokeKills
  <2>1. Once(b) /\ ({"countersign", "revoke"} \notin together[b] => Killed(b))
    BY DEF OInv, Promised
  <2>2. Killed(b) => DeadIfRevoked(b)
    BY DEF Killed, DeadIfRevoked, Quiet, On, Live
  <2>3. QED BY <2>1, <2>2 DEF Once
<1>2. QED BY <1>1, OverlapInvariance, PTL

\* A revoked or expired activation never changes status again, unless calls of
\* different operations, or two countersigns, overlapped on it.
THEOREM EndsHold == MCSpec => EndHolds
<1>1. IInv /\ OInv /\ [MCNext]_<<vars, together>> =>
          [\A b \in Opened :
               \/ together[b] \ {{"revoke"}, {"refresh"}} # {}
               \/ activations[b].status \in Final =>
                      activations'[b].status = activations[b].status
          ]_<<vars, together>>
  <2> SUFFICES ASSUME IInv, OInv, MCNext, NEW b \in Opened,
                      together[b] \subseteq Alike, activations[b].status \in Final
               PROVE  activations'[b].status = activations[b].status
    BY DEF Alike
  <2>1. Ends(b) /\ TypeOK
    BY DEF OInv, IInv, Promised
  <2>2. CASE Tick
    BY <2>2 DEF Tick
  <2>3. ASSUME NEW c \in Activations, NEW actor \in Actors, NEW role \in CallRoles,
               \/ Activate(c, actor, role)
               \/ \E t \in Threads :
                      \/ \E op \in {"countersign", "revoke"} :
                             Enter(t, op, c, actor, role)
                      \/ RefreshFind(t, c, actor, role)
        PROVE  activations'[b].status = activations[b].status
    BY <2>1, <2>3 DEF Activate, Enter, RefreshFind, TypeOK, Opened
  <2>4. ASSUME NEW t \in Threads, Step(t)
        PROVE  activations'[b].status = activations[b].status
    <3>1. CASE call[t].activation # b
      BY <2>4, <3>1, StepIsLocal DEF Opened
    <3>2. CASE call[t].activation = b
      <4>1. b \in Activations /\ activations[b] \in Activation
            /\ call[t] # Idle /\ issued[b] \in Seq(Token)
        BY <2>1, <2>4, StepIsLocal DEF TypeOK, Opened
      <4>2. CASE CountersignRefused(t) \/ CountersignAccepted(t) \/ RevokeRefused(t)
                 \/ RevokeAccepted(t) \/ RevokeToken(t)
        BY <4>2 DEF CountersignRefused, CountersignAccepted, RevokeRefused,
                    RevokeAccepted, RevokeToken
      <4>3. CASE CountersignExpired(t)
        BY <3>2, <4>3 DEF CountersignExpired, Awaiting, Final
      <4>4. CASE CountersignStatus(t)
        <5>1. On(t, b, "countersign", {"status"})
          BY <3>2, <4>1, <4>4 DEF CountersignStatus, At, On
        <5>2. QED BY <2>1, <5>1 DEF Ends
      <4>5. CASE CountersignToken(t)
        <5>1. activations' = [activations EXCEPT ![b].token = Len(issued[b]) + 1]
          BY <3>2, <4>5 DEF CountersignToken
        <5>2. QED BY <2>1, <4>1, <5>1 DEF TypeOK, Activation
      <4>6. CASE RevokeStatus(t)
        <5>1. On(t, b, "revoke", {"status"}) /\ SetStatus(b, "revoked")
          BY <3>2, <4>1, <4>6 DEF RevokeStatus, At, On
        <5>2. activations[b].status = "revoked"
          BY <2>1, <5>1 DEF Ends, Final
        <5>3. QED BY <2>1, <5>1, <5>2, StatusWritten DEF Statuses
      <4>7. CASE RefreshStatus(t)
        <5>1. On(t, b, "refresh", {"status"}) /\ SetStatus(b, "expired")
          BY <3>2, <4>1, <4>7 DEF RefreshStatus, At, On
        <5>2. activations[b].status = "expired"
          BY <2>1, <5>1 DEF Ends, Final
        <5>3. QED BY <2>1, <5>1, <5>2, StatusWritten DEF Statuses
      <4>8. QED
        BY <2>4, <4>2, <4>3, <4>4, <4>5, <4>6, <4>7 DEF Step
    <3>3. QED BY <3>1, <3>2
  <2>5. QED BY <2>2, <2>3, <2>4 DEF MCNext, Next
<1>2. QED BY <1>1, OverlapInvariance, PTL DEF MCSpec, EndHolds

=============================================================================
