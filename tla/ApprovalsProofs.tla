--------------------------- MODULE ApprovalsProofs ---------------------------
(***************************************************************************)
(* Proofs about Approvals for any number of threads, people and requests:  *)
(* types, the quorum behind every token, the lifetime of tokens, and when a *)
(* resolution is final.                                                    *)
(***************************************************************************)
EXTENDS MCApprovals, SequenceTheorems, TLAPS

-----------------------------------------------------------------------------
(* The inductive invariant *)

UnderLock == {"sign", "mint", "publish"}

\* The lock's holder is the thread inside approve's critical section.
Holder ==
    \A t \in Threads :
        /\ call[t].pc \in UnderLock <=> lock = t
        /\ call[t].pc \in UnderLock => call[t].op = "approve"

\* A call past its lookup works on a request that exists.
InFlight ==
    \A t \in Threads :
        call[t].pc \notin {"idle", "entered"} => call[t].request \in Opened

\* What approve has checked stays true until it acts on it: nobody else adds a
\* signature, because the lock is held.
CheckedBy(t) ==
    LET r == call[t].request IN
    /\ call[t].pc = "sign" =>
           /\ call[t].actor # requests[r].requested_by
           /\ \A i \in DOMAIN requests[r].approvals :
                  requests[r].approvals[i] # call[t].actor
    /\ call[t].pc = "mint" =>
           Len(requests[r].approvals) >= requests[r].required
    /\ call[t].pc \in {"sign", "mint"} =>
           call[t].now <= requests[r].expires_at

Checked == \A t \in Threads : CheckedBy(t)

\* Signatures come from different people, none of them the requester.
Signatures ==
    \A r \in Opened :
        LET approvals == requests[r].approvals IN
        /\ \A i, j \in DOMAIN approvals : i # j => approvals[i] # approvals[j]
        /\ \A i \in DOMAIN approvals : approvals[i] # requests[r].requested_by

\* TokensNeedQuorum and TokensExpireInTime, one quantifier deep.
TokensOK ==
    \A r \in Opened :
        LET tokens == requests[r].tokens IN
        /\ tokens # <<>> => Len(tokens) >= requests[r].required
        /\ \A i, j \in DOMAIN tokens :
               i # j => tokens[i].granted_by # tokens[j].granted_by
        /\ \A i \in DOMAIN tokens :
               /\ tokens[i].granted_by # requests[r].requested_by
               /\ tokens[i].expires_at <= requests[r].expires_at + TokenTTL

IInv == TypeOK /\ Holder /\ InFlight /\ Checked /\ Signatures /\ TokensOK

-----------------------------------------------------------------------------
(* What the shared steps of the handlers do *)

\* Writing a status touches nothing else of a request, and opens no other.
LEMMA SetStatusEffect ==
    ASSUME TypeOK, NEW r \in Opened,
           NEW s \in OpenStatuses \cup ResolvedStatuses, SetStatus(r, s)
    PROVE  /\ requests' \in [Requests -> ApprovalRequest \cup {NoRequest}]
           /\ Opened' = Opened
           /\ \A q \in Opened :
                  /\ requests'[q].approvals = requests[q].approvals
                  /\ requests'[q].tokens = requests[q].tokens
                  /\ requests'[q].required = requests[q].required
                  /\ requests'[q].requested_by = requests[q].requested_by
                  /\ requests'[q].expires_at = requests[q].expires_at
<1>1. requests[r] \in ApprovalRequest
  BY DEF TypeOK, Opened
<1>2. [requests[r] EXCEPT !.status = s] \in ApprovalRequest
  BY <1>1 DEF ApprovalRequest
<1>3. /\ requests' = [requests EXCEPT ![r] = [requests[r] EXCEPT !.status = s]]
      /\ r \in Requests
  BY DEF SetStatus, Opened
<1>4. requests' \in [Requests -> ApprovalRequest \cup {NoRequest}]
  BY <1>2, <1>3 DEF TypeOK
<1>5. Opened' = Opened
  BY <1>2, <1>3, NoRequestAssumption DEF TypeOK, Opened
<1>6. ASSUME NEW q \in Opened
      PROVE  /\ requests'[q].approvals = requests[q].approvals
             /\ requests'[q].tokens = requests[q].tokens
             /\ requests'[q].required = requests[q].required
             /\ requests'[q].requested_by = requests[q].requested_by
             /\ requests'[q].expires_at = requests[q].expires_at
  BY <1>1, <1>3 DEF TypeOK, Opened, ApprovalRequest
<1>7. QED BY <1>4, <1>5, <1>6

LEMMA ReturnEffect ==
    ASSUME TypeOK, NEW t \in Threads, Return(t)
    PROVE  /\ call' \in [Threads -> Call \cup {Idle}]
           /\ call'[t].pc = "idle"
           /\ \A u \in Threads \ {t} : call'[u] = call[u]
  BY DEF TypeOK, Return, Idle

LEMMA GotoEffect ==
    ASSUME TypeOK, NEW t \in Threads, NEW point \in Points,
           call[t].pc # "idle", Goto(t, point)
    PROVE  /\ call' \in [Threads -> Call \cup {Idle}]
           /\ call'[t].pc = point
           /\ call'[t].op = call[t].op
           /\ call'[t].request = call[t].request
           /\ call'[t].actor = call[t].actor
           /\ call'[t].now = call[t].now
           /\ \A u \in Threads \ {t} : call'[u] = call[u]
<1>1. call[t] \in Call
  BY DEF TypeOK, Idle
<1>2. [call[t] EXCEPT !.pc = point] \in Call
  BY <1>1 DEF Call
<1>3. call' = [call EXCEPT ![t] = [call[t] EXCEPT !.pc = point]]
  BY DEF Goto
<1>4. call'[t] = [call[t] EXCEPT !.pc = point]
  BY <1>3 DEF TypeOK
<1>5. call' \in [Threads -> Call \cup {Idle}]
  BY <1>2, <1>3 DEF TypeOK
<1>6. \A u \in Threads \ {t} : call'[u] = call[u]
  BY <1>3 DEF TypeOK
<1>7. QED BY <1>1, <1>4, <1>5, <1>6 DEF Call

LEMMA AppendedEffect ==
    ASSUME TypeOK, NEW r \in Requests, NEW by \in SUBSET Actors,
           NEW action \in {"requested", "approved", "granted", "rejected",
                           "escalated", "expired", "blocked"},
           Appended(action, r, by)
    PROVE  audit' \subseteq Event
  BY DEF TypeOK, Appended, Event

\* A call in progress has the fields of a call.
LEMMA BusyCall ==
    ASSUME TypeOK, NEW t \in Threads, call[t].pc # "idle"
    PROVE  /\ call[t] \in Call
           /\ call[t].op \in Ops
           /\ call[t].request \in Requests
           /\ call[t].actor \in Actors
           /\ call[t].now \in Nat
  BY DEF TypeOK, Call, Idle

-----------------------------------------------------------------------------
(* Two shapes most steps have *)

\* A step that moves one call between points outside the lock, and no request.
LEMMA CallMoves ==
    ASSUME IInv, NEW t \in Threads,
           call[t].pc \notin UnderLock, call'[t].pc \notin UnderLock,
           call' \in [Threads -> Call \cup {Idle}],
           \A u \in Threads \ {t} : call'[u] = call[u],
           call'[t].pc \notin {"idle", "entered"} => call'[t].request \in Opened,
           audit' \subseteq Event,
           UNCHANGED <<clock, requests, lock>>
    PROVE  IInv'
<1> USE DEF IInv
<1>1. TypeOK'
  BY DEF TypeOK
<1>2. Holder'
  BY DEF Holder
<1>3. Opened' = Opened
  BY DEF Opened
<1>4. InFlight'
  BY <1>3 DEF InFlight
<1>5. Checked'
  <2>1. ASSUME NEW u \in Threads PROVE CheckedBy(u)'
    <3>1. CASE u = t
      BY <3>1 DEF CheckedBy, UnderLock
    <3>2. CASE u # t
      BY <3>2 DEF Checked, CheckedBy
    <3>3. QED BY <3>1, <3>2
  <2>2. QED BY <2>1 DEF Checked
<1>6. Signatures' /\ TokensOK'
  BY <1>3 DEF Signatures, TokensOK
<1>7. QED BY <1>1, <1>2, <1>4, <1>5, <1>6

\* A step that ends a call by writing a status, giving up the lock if it had it.
LEMMA StatusWritten ==
    ASSUME IInv, NEW t \in Threads, NEW r \in Opened,
           NEW s \in OpenStatuses \cup ResolvedStatuses,
           SetStatus(r, s), Return(t),
           \/ lock' = lock /\ call[t].pc \notin UnderLock
           \/ lock' = Free /\ call[t].pc \in UnderLock,
           audit' \subseteq Event, clock' = clock
    PROVE  IInv'
<1> USE DEF IInv
<1>1. /\ requests' \in [Requests -> ApprovalRequest \cup {NoRequest}]
      /\ Opened' = Opened
      /\ \A q \in Opened :
             /\ requests'[q].approvals = requests[q].approvals
             /\ requests'[q].tokens = requests[q].tokens
             /\ requests'[q].required = requests[q].required
             /\ requests'[q].requested_by = requests[q].requested_by
             /\ requests'[q].expires_at = requests[q].expires_at
  BY SetStatusEffect
<1>2. /\ call' \in [Threads -> Call \cup {Idle}]
      /\ call'[t].pc = "idle"
      /\ \A u \in Threads \ {t} : call'[u] = call[u]
  BY ReturnEffect
<1>3. TypeOK'
  BY <1>1, <1>2 DEF TypeOK
<1>4. Holder'
  BY <1>2, FreeAssumption DEF Holder, UnderLock
<1>5. InFlight'
  BY <1>1, <1>2 DEF InFlight
<1>6. Checked'
  <2>1. ASSUME NEW u \in Threads PROVE CheckedBy(u)'
    <3>1. CASE u = t
      BY <1>2, <3>1 DEF CheckedBy
    <3>2. CASE u # t
      <4>1. call'[u] = call[u]
        BY <1>2, <3>2
      <4>2. CASE call[u].pc \in {"sign", "mint"}
        <5>1. call[u].request \in Opened
          BY <4>2 DEF InFlight
        <5>2. CheckedBy(u)
          BY DEF Checked
        <5>3. QED BY <1>1, <4>1, <5>1, <5>2 DEF CheckedBy
      <4>3. CASE call[u].pc \notin {"sign", "mint"}
        BY <4>1, <4>3 DEF CheckedBy
      <4>4. QED BY <4>2, <4>3
    <3>3. QED BY <3>1, <3>2
  <2>2. QED BY <2>1 DEF Checked
<1>7. Signatures'
  BY <1>1 DEF Signatures
<1>8. TokensOK'
  BY <1>1 DEF TokensOK
<1>9. QED BY <1>3, <1>4, <1>5, <1>6, <1>7, <1>8

-----------------------------------------------------------------------------
(* Every step of a call preserves the invariant *)

LEMMA OutsideLockStep ==
    ASSUME IInv, NEW t \in Threads,
           \/ ApproveUnknownOrClosed(t)
           \/ ApproveBlocked(t)
           \/ Lookup(t)
           \/ CheckOpen(t)
    PROVE  IInv'
<1> USE DEF IInv
<1>1. /\ call[t].pc \in {"entered", "check"}
      /\ UNCHANGED <<clock, requests, lock>>
  BY DEF ApproveUnknownOrClosed, ApproveBlocked, ApproveReady, Lookup,
         CheckOpen, At
<1>2. call[t].request \in Requests /\ TypeOK
  BY <1>1, BusyCall
<1>3. audit' \subseteq Event
  BY <1>2, AppendedEffect DEF ApproveUnknownOrClosed, ApproveBlocked, Lookup,
     CheckOpen, TypeOK
<1>4. CASE Return(t)
  <2>1. /\ call' \in [Threads -> Call \cup {Idle}]
        /\ call'[t].pc = "idle"
        /\ \A u \in Threads \ {t} : call'[u] = call[u]
    BY <1>2, <1>4, ReturnEffect
  <2>2. QED BY <1>1, <1>3, <2>1, CallMoves DEF UnderLock
<1>5. ASSUME NEW point \in {"check", "write"}, Goto(t, point)
      PROVE  IInv'
  <2>1. /\ call' \in [Threads -> Call \cup {Idle}]
        /\ call'[t].pc = point
        /\ call'[t].request = call[t].request
        /\ \A u \in Threads \ {t} : call'[u] = call[u]
    BY <1>1, <1>2, <1>5, GotoEffect DEF Points
  <2>2. call[t].request \in Opened
    <3>1. CASE call[t].pc = "check"
      BY <3>1 DEF InFlight
    <3>2. CASE call[t].pc = "entered"
      <4>1. CASE Lookup(t)
        <5>1. call'[t].pc = "idle" \/ call[t].request \in Opened
          BY <1>2, <4>1, ReturnEffect DEF Lookup
        <5>2. QED BY <2>1, <5>1
      <4>2. CASE ApproveUnknownOrClosed(t) \/ ApproveBlocked(t)
        BY <1>2, <2>1, <4>2, ReturnEffect DEF ApproveUnknownOrClosed, ApproveBlocked
      <4>3. QED BY <3>2, <4>1, <4>2 DEF CheckOpen
    <3>3. QED BY <1>1, <3>1, <3>2
  <2>3. QED BY <1>1, <1>3, <2>1, <2>2, CallMoves DEF UnderLock
<1>6. QED
  BY <1>4, <1>5 DEF ApproveUnknownOrClosed, ApproveBlocked, Lookup, CheckOpen

LEMMA StatusStep ==
    ASSUME IInv, NEW t \in Threads,
           \/ ApproveExpired(t)
           \/ ApprovePublish(t)
           \/ RejectWrite(t)
           \/ EscalateWrite(t)
    PROVE  IInv'
<1> DEFINE r == call[t].request
<1> USE DEF IInv
<1>1. call[t].pc \in {"entered", "publish", "write"} /\ clock' = clock /\ TypeOK
  BY DEF ApproveExpired, ApprovePublish, RejectWrite, EscalateWrite, At
<1>2. r \in Opened /\ r \in Requests
  BY <1>1, BusyCall DEF InFlight, ApproveExpired, ApprovePublish, RejectWrite,
     EscalateWrite, At
<1>3. SignersOf(r) \in SUBSET Actors
  <2>1. requests[r] \in ApprovalRequest
    BY <1>2 DEF TypeOK, Opened
  <2>2. requests[r].approvals \in Seq(Actors)
    BY <2>1 DEF ApprovalRequest
  <2>3. QED BY <2>2 DEF SignersOf
<1>4. audit' \subseteq Event
  BY <1>1, <1>2, <1>3, AppendedEffect
     DEF ApproveExpired, ApprovePublish, RejectWrite, EscalateWrite,
         approver_names
<1>5. Return(t) /\ \E s \in OpenStatuses \cup ResolvedStatuses : SetStatus(r, s)
  BY DEF ApproveExpired, ApprovePublish, RejectWrite, EscalateWrite,
         OpenStatuses, ResolvedStatuses
<1>6. \/ lock' = lock /\ call[t].pc \notin UnderLock
      \/ lock' = Free /\ call[t].pc \in UnderLock
  BY DEF ApproveExpired, ApprovePublish, RejectWrite, EscalateWrite, At, UnderLock
<1>7. QED BY <1>1, <1>2, <1>4, <1>5, <1>6, StatusWritten

LEMMA AcquireStep ==
    ASSUME IInv, NEW t \in Threads, ApproveAcquire(t)
    PROVE  IInv'
<1> DEFINE r == call[t].request
<1> USE DEF IInv
<1>1. /\ call[t].pc = "entered" /\ call[t].op = "approve"
      /\ lock = Free /\ lock' = t
      /\ r \in Opened /\ call[t].now <= requests[r].expires_at
      /\ UNCHANGED <<clock, requests, audit>>
  BY DEF ApproveAcquire, ApproveReady, At
<1>2. /\ call[t].actor # requests[r].requested_by
      /\ \A i \in DOMAIN requests[r].approvals :
             requests[r].approvals[i] # call[t].actor
  BY DEF ApproveAcquire, MayNotSign, SignersOf
<1>3. /\ call' \in [Threads -> Call \cup {Idle}]
      /\ call'[t].pc = "sign"
      /\ call'[t].op = call[t].op
      /\ call'[t].request = call[t].request
      /\ call'[t].actor = call[t].actor
      /\ call'[t].now = call[t].now
      /\ \A u \in Threads \ {t} : call'[u] = call[u]
  BY <1>1, GotoEffect DEF ApproveAcquire, Points
<1>4. TypeOK'
  BY <1>1, <1>3 DEF TypeOK
<1>5. Holder'
  BY <1>1, <1>3, FreeAssumption DEF Holder, UnderLock
<1>6. Opened' = Opened
  BY <1>1 DEF Opened
<1>7. InFlight'
  BY <1>1, <1>3, <1>6 DEF InFlight
<1>8. Checked'
  <2>1. ASSUME NEW u \in Threads PROVE CheckedBy(u)'
    <3>1. CASE u = t
      BY <1>1, <1>2, <1>3, <3>1 DEF CheckedBy
    <3>2. CASE u # t
      BY <1>1, <1>3, <3>2 DEF Checked, CheckedBy
    <3>3. QED BY <3>1, <3>2
  <2>2. QED BY <2>1 DEF Checked
<1>9. Signatures' /\ TokensOK'
  BY <1>1, <1>6 DEF Signatures, TokensOK
<1>10. QED BY <1>4, <1>5, <1>7, <1>8, <1>9

\* A step under the lock rewrites one field of the request it works on; the
\* other threads are outside the lock, so nothing they checked is disturbed.
LEMMA OthersOutside ==
    ASSUME IInv, NEW t \in Threads, call[t].pc \in UnderLock,
           NEW u \in Threads \ {t}, call'[u] = call[u]
    PROVE  CheckedBy(u)' /\ call[u].pc \notin UnderLock
  BY FreeAssumption DEF IInv, Holder, CheckedBy, UnderLock

LEMMA AppendFacts ==
    ASSUME NEW S, NEW q \in Seq(S), NEW e \in S
    PROVE  /\ q \in Seq(S)
           /\ Append(q, e) \in Seq(S)
           /\ Len(Append(q, e)) = Len(q) + 1
           /\ DOMAIN Append(q, e) = 1..Len(Append(q, e))
           /\ DOMAIN q = 1..Len(q)
           /\ Len(q) \in Nat
           /\ Append(q, e)[Len(Append(q, e))] = e
           /\ \A i \in DOMAIN q : Append(q, e)[i] = q[i]
<1>1. /\ Append(q, e) \in Seq(S)
      /\ Len(Append(q, e)) = Len(q) + 1
      /\ \A i \in 1..Len(q) : Append(q, e)[i] = q[i]
      /\ Append(q, e)[Len(q) + 1] = e
  BY AppendProperties
<1>2. DOMAIN q = 1..Len(q) /\ Len(q) \in Nat
  OBVIOUS
<1>3. DOMAIN Append(q, e) = 1..Len(Append(q, e))
  BY <1>1
<1>4. QED BY <1>1, <1>2, <1>3

\* What a signature changes: the request's signatures, by one, and nothing else
\* of any request.
LEMMA SignEffect ==
    ASSUME IInv, NEW t \in Threads, ApproveSign(t)
    PROVE  LET r == call[t].request
               signed == Append(requests[r].approvals, call[t].actor)
           IN
           /\ call[t].pc = "sign" /\ lock = t /\ r \in Opened /\ r \in Requests
           /\ clock' = clock
           /\ call[t].actor # requests[r].requested_by
           /\ \A i \in DOMAIN requests[r].approvals :
                  requests[r].approvals[i] # call[t].actor
           /\ call[t].now <= requests[r].expires_at
           /\ Len(signed) \in Nat /\ DOMAIN signed = 1..Len(signed)
           /\ DOMAIN requests[r].approvals = 1..(Len(signed) - 1)
           /\ signed[Len(signed)] = call[t].actor
           /\ \A i \in DOMAIN requests[r].approvals : signed[i] = requests[r].approvals[i]
           /\ requests' \in [Requests -> ApprovalRequest \cup {NoRequest}]
           /\ Opened' = Opened
           /\ \A q \in Opened \ {r} : requests'[q] = requests[q]
           /\ requests'[r].approvals = signed
           /\ requests'[r].tokens = requests[r].tokens
           /\ requests'[r].required = requests[r].required
           /\ requests'[r].requested_by = requests[r].requested_by
           /\ requests'[r].expires_at = requests[r].expires_at
           /\ audit' = audit \cup {[action |-> "approved", request |-> r, by |-> {call[t].actor}]}
           /\ audit' \subseteq Event
           /\ call' \in [Threads -> Call \cup {Idle}]
           /\ \A u \in Threads \ {t} : call'[u] = call[u]
           /\ \/ /\ call'[t].pc = "mint" /\ lock' = lock
                 /\ call'[t].op = call[t].op
                 /\ call'[t].request = r /\ call'[t].now = call[t].now
                 /\ Len(signed) >= requests[r].required
              \/ call'[t] = Idle /\ lock' = Free
<1> DEFINE r == call[t].request
           signed == Append(requests[r].approvals, call[t].actor)
<1> USE DEF IInv
<1>1. /\ call[t].pc = "sign" /\ lock = t /\ r \in Opened /\ r \in Requests
      /\ clock' = clock /\ TypeOK
      /\ requests' = [requests EXCEPT ![r].approvals = signed]
      /\ audit' = audit \cup {[action |-> "approved", request |-> r, by |-> {call[t].actor}]}
  BY DEF ApproveSign, Appended, At, Holder, InFlight, UnderLock, Opened
<1>2. call[t].actor \in Actors /\ call[t].now \in Nat
  BY <1>1, BusyCall
<1>3. /\ call[t].actor # requests[r].requested_by
      /\ \A i \in DOMAIN requests[r].approvals :
             requests[r].approvals[i] # call[t].actor
      /\ call[t].now <= requests[r].expires_at
  BY <1>1 DEF Checked, CheckedBy
<1>4. requests[r] \in ApprovalRequest
  BY <1>1 DEF TypeOK, Opened
<1>5. /\ requests[r].approvals \in Seq(Actors)
      /\ signed \in Seq(Actors)
      /\ Len(signed) = Len(requests[r].approvals) + 1
      /\ DOMAIN signed = 1..Len(signed)
      /\ DOMAIN requests[r].approvals = 1..Len(requests[r].approvals)
      /\ Len(requests[r].approvals) \in Nat
      /\ signed[Len(signed)] = call[t].actor
      /\ \A i \in DOMAIN requests[r].approvals :
             signed[i] = requests[r].approvals[i]
  <2>1. requests[r].approvals \in Seq(Actors)
    BY <1>4 DEF ApprovalRequest
  <2> DEFINE q == requests[r].approvals
             e == call[t].actor
  <2>2. q \in Seq(Actors) /\ e \in Actors
    BY <1>2, <2>1
  <2> HIDE DEF q, e
  <2>3. /\ Append(q, e) \in Seq(Actors)
        /\ Len(Append(q, e)) = Len(q) + 1
        /\ DOMAIN Append(q, e) = 1..Len(Append(q, e))
        /\ DOMAIN q = 1..Len(q)
        /\ Len(q) \in Nat
        /\ Append(q, e)[Len(Append(q, e))] = e
        /\ \A i \in DOMAIN q : Append(q, e)[i] = q[i]
    BY <2>2, AppendFacts
  <2>4. QED BY <2>1, <2>3 DEF q, e
<1> HIDE DEF signed
<1>6. [requests[r] EXCEPT !.approvals = signed] \in ApprovalRequest
  BY <1>4, <1>5 DEF ApprovalRequest
<1>7. requests' = [requests EXCEPT ![r] = [requests[r] EXCEPT !.approvals = signed]]
  BY <1>1
<1>8. /\ requests' \in [Requests -> ApprovalRequest \cup {NoRequest}]
      /\ requests'[r] = [requests[r] EXCEPT !.approvals = signed]
      /\ \A q \in Requests \ {r} : requests'[q] = requests[q]
  BY <1>1, <1>6, <1>7 DEF TypeOK
<1>9. Opened' = Opened
  BY <1>1, <1>6, <1>8, NoRequestAssumption DEF Opened
<1>10. /\ requests'[r].approvals = signed
       /\ requests'[r].tokens = requests[r].tokens
       /\ requests'[r].required = requests[r].required
       /\ requests'[r].requested_by = requests[r].requested_by
       /\ requests'[r].expires_at = requests[r].expires_at
  BY <1>4, <1>8 DEF ApprovalRequest
<1>11. audit' \subseteq Event
  BY <1>1, <1>2, AppendedEffect DEF ApproveSign
<1>12. /\ call' \in [Threads -> Call \cup {Idle}]
       /\ \A u \in Threads \ {t} : call'[u] = call[u]
       /\ \/ /\ call'[t].pc = "mint" /\ lock' = lock
             /\ call'[t].op = call[t].op
             /\ call'[t].request = r /\ call'[t].now = call[t].now
             /\ Len(signed) >= requests[r].required
          \/ call'[t] = Idle /\ lock' = Free
  <2>1. CASE Return(t) /\ lock' = Free
    BY <1>1, <2>1, ReturnEffect DEF Return, TypeOK
  <2>2. CASE Quorate(r, signed) /\ Goto(t, "mint") /\ UNCHANGED lock
    BY <1>1, <2>2, GotoEffect DEF Points, Quorate
  <2>3. QED BY <2>1, <2>2 DEF ApproveSign, LeaveOnError, signed
<1>13. DOMAIN requests[r].approvals = 1..(Len(signed) - 1) /\ Len(signed) \in Nat
  BY <1>5
<1>14. QED BY <1>1, <1>3, <1>5, <1>8, <1>9, <1>10, <1>11, <1>12, <1>13 DEF Opened, signed

LEMMA SignStep ==
    ASSUME IInv, NEW t \in Threads, ApproveSign(t)
    PROVE  IInv'
<1> DEFINE r == call[t].request
           signed == Append(requests[r].approvals, call[t].actor)
<1> USE DEF IInv
<1>1. /\ call[t].pc = "sign" /\ lock = t /\ r \in Opened /\ r \in Requests
      /\ clock' = clock /\ audit' \subseteq Event
      /\ requests' \in [Requests -> ApprovalRequest \cup {NoRequest}]
      /\ \A q \in Opened \ {r} : requests'[q] = requests[q]
  BY SignEffect
<1>2. /\ call[t].actor # requests[r].requested_by
      /\ \A i \in DOMAIN requests[r].approvals :
             requests[r].approvals[i] # call[t].actor
      /\ call[t].now <= requests[r].expires_at
  BY SignEffect
<1>3. /\ DOMAIN signed = 1..Len(signed) /\ Len(signed) \in Nat
      /\ DOMAIN requests[r].approvals = 1..(Len(signed) - 1)
      /\ signed[Len(signed)] = call[t].actor
      /\ \A i \in DOMAIN requests[r].approvals :
             signed[i] = requests[r].approvals[i]
  BY SignEffect
<1>4. Opened' = Opened
  BY SignEffect
<1>5. /\ requests'[r].approvals = signed
      /\ requests'[r].tokens = requests[r].tokens
      /\ requests'[r].required = requests[r].required
      /\ requests'[r].requested_by = requests[r].requested_by
      /\ requests'[r].expires_at = requests[r].expires_at
  BY SignEffect
<1>6. /\ call' \in [Threads -> Call \cup {Idle}]
      /\ \A u \in Threads \ {t} : call'[u] = call[u]
      /\ \/ /\ call'[t].pc = "mint" /\ lock' = lock
            /\ call'[t].op = call[t].op
            /\ call'[t].request = r /\ call'[t].now = call[t].now
            /\ Len(signed) >= requests[r].required
         \/ call'[t].pc = "idle" /\ lock' = Free
  BY SignEffect DEF Idle
<1> HIDE DEF signed
<1>7. TypeOK'
  BY <1>1, <1>6 DEF TypeOK
<1>8. Holder'
  BY <1>1, <1>6, FreeAssumption DEF Holder, UnderLock
<1>9. InFlight'
  BY <1>1, <1>4, <1>6 DEF InFlight
<1>10. Checked'
  <2>1. CheckedBy(t)'
    BY <1>2, <1>5, <1>6 DEF CheckedBy
  <2>2. ASSUME NEW u \in Threads \ {t} PROVE CheckedBy(u)'
    BY <1>1, <1>6, OthersOutside DEF UnderLock
  <2>3. QED BY <2>1, <2>2 DEF Checked
<1>11. Signatures'
  <2> DEFINE approvals == requests[r].approvals
  <2>0. /\ \A i, j \in DOMAIN approvals : i # j => approvals[i] # approvals[j]
        /\ \A i \in DOMAIN approvals : approvals[i] # requests[r].requested_by
    BY <1>1 DEF Signatures
  <2>1. \A i, j \in DOMAIN signed : i # j => signed[i] # signed[j]
    <3>1. \A i \in DOMAIN signed : i \in DOMAIN approvals \/ i = Len(signed)
      BY <1>3
    <3>2. QED BY <1>2, <1>3, <2>0, <3>1
  <2>2. \A i \in DOMAIN signed : signed[i] # requests[r].requested_by
    <3>1. \A i \in DOMAIN signed : i \in DOMAIN approvals \/ i = Len(signed)
      BY <1>3
    <3>2. QED BY <1>2, <1>3, <2>0, <3>1
  <2>3. \A q \in Opened \ {r} : requests'[q] = requests[q]
    BY <1>1
  <2>4. QED BY <1>4, <1>5, <2>1, <2>2, <2>3 DEF Signatures
<1>12. TokensOK'
  <2>1. \A q \in Opened : /\ requests'[q].tokens = requests[q].tokens
                          /\ requests'[q].required = requests[q].required
                          /\ requests'[q].requested_by = requests[q].requested_by
                          /\ requests'[q].expires_at = requests[q].expires_at
    BY <1>1, <1>5
  <2>2. QED BY <1>4, <2>1 DEF TokensOK
<1>13. QED BY <1>7, <1>8, <1>9, <1>10, <1>11, <1>12

\* What minting changes: the request has one token for each signature.
LEMMA MintEffect ==
    ASSUME IInv, NEW t \in Threads, ApproveMint(t)
    PROVE  LET r == call[t].request
               approvals == requests[r].approvals
               minted == requests'[r].tokens
           IN
           /\ call[t].pc = "mint" /\ lock = t /\ r \in Opened /\ r \in Requests
           /\ UNCHANGED <<clock, lock, audit>>
           /\ requests[r].required \in {1, 2} /\ requests[r].expires_at \in Nat
           /\ Len(approvals) \in Nat /\ Len(approvals) >= requests[r].required
           /\ call[t].now \in Nat /\ call[t].now <= requests[r].expires_at
           /\ DOMAIN approvals = 1..Len(approvals)
           /\ DOMAIN minted = 1..Len(approvals) /\ Len(minted) = Len(approvals)
           /\ \A i \in DOMAIN minted : /\ minted[i].granted_by = approvals[i]
                                        /\ minted[i].expires_at = call[t].now + TokenTTL
           /\ requests' \in [Requests -> ApprovalRequest \cup {NoRequest}]
           /\ Opened' = Opened
           /\ \A q \in Opened \ {r} : requests'[q] = requests[q]
           /\ requests'[r].approvals = approvals
           /\ requests'[r].required = requests[r].required
           /\ requests'[r].requested_by = requests[r].requested_by
           /\ requests'[r].expires_at = requests[r].expires_at
           /\ call' \in [Threads -> Call \cup {Idle}]
           /\ call'[t].pc = "publish"
           /\ call'[t].op = call[t].op
           /\ call'[t].request = r
           /\ \A u \in Threads \ {t} : call'[u] = call[u]
<1> DEFINE r == call[t].request
           approvals == requests[r].approvals
           minted == [i \in 1..Len(approvals) |->
                         [granted_by |-> approvals[i],
                          expires_at |-> call[t].now + TokenTTL]]
<1> USE DEF IInv
<1>1. /\ call[t].pc = "mint" /\ lock = t /\ r \in Opened /\ r \in Requests
      /\ UNCHANGED <<clock, lock, audit>> /\ TypeOK
      /\ requests' = [requests EXCEPT ![r].tokens = minted]
  BY DEF ApproveMint, At, Holder, InFlight, UnderLock, Opened
<1>2. /\ Len(approvals) >= requests[r].required
      /\ call[t].now <= requests[r].expires_at
      /\ call[t].now \in Nat
  BY <1>1, BusyCall DEF Checked, CheckedBy
<1>3. requests[r] \in ApprovalRequest
  BY <1>1 DEF TypeOK, Opened
<1>4. /\ approvals \in Seq(Actors) /\ Len(approvals) \in Nat
      /\ DOMAIN approvals = 1..Len(approvals)
      /\ requests[r].expires_at \in Nat /\ requests[r].required \in {1, 2}
  BY <1>3 DEF ApprovalRequest
<1>5. /\ minted \in Seq(Token)
      /\ Len(minted) = Len(approvals)
      /\ DOMAIN minted = 1..Len(approvals)
  BY <1>2, <1>4, TimeAssumption DEF Token
<1>6. \A i \in DOMAIN minted : /\ minted[i].granted_by = approvals[i]
                               /\ minted[i].expires_at = call[t].now + TokenTTL
  OBVIOUS
<1> HIDE DEF minted
<1>7. [requests[r] EXCEPT !.tokens = minted] \in ApprovalRequest
  BY <1>3, <1>5 DEF ApprovalRequest
<1>8. requests' = [requests EXCEPT ![r] = [requests[r] EXCEPT !.tokens = minted]]
  BY <1>1
<1>9. /\ requests' \in [Requests -> ApprovalRequest \cup {NoRequest}]
      /\ requests'[r] = [requests[r] EXCEPT !.tokens = minted]
      /\ \A q \in Requests \ {r} : requests'[q] = requests[q]
  BY <1>1, <1>7, <1>8 DEF TypeOK
<1>10. Opened' = Opened
  BY <1>1, <1>7, <1>9, NoRequestAssumption DEF Opened
<1>11. /\ requests'[r].tokens = minted
       /\ requests'[r].approvals = approvals
       /\ requests'[r].required = requests[r].required
       /\ requests'[r].requested_by = requests[r].requested_by
       /\ requests'[r].expires_at = requests[r].expires_at
  BY <1>3, <1>9 DEF ApprovalRequest
<1>12. /\ call' \in [Threads -> Call \cup {Idle}]
       /\ call'[t].pc = "publish"
       /\ call'[t].op = call[t].op
       /\ call'[t].request = r
       /\ \A u \in Threads \ {t} : call'[u] = call[u]
  BY <1>1, GotoEffect DEF ApproveMint, Points
<1>13. /\ DOMAIN requests'[r].tokens = 1..Len(approvals)
       /\ Len(requests'[r].tokens) = Len(approvals)
       /\ \A i \in DOMAIN requests'[r].tokens :
              /\ requests'[r].tokens[i].granted_by = approvals[i]
              /\ requests'[r].tokens[i].expires_at = call[t].now + TokenTTL
  BY <1>5, <1>6, <1>11
<1>14. \A q \in Opened \ {r} : requests'[q] = requests[q]
  BY <1>9 DEF Opened
<1>15. QED BY <1>1, <1>2, <1>4, <1>9, <1>10, <1>11, <1>12, <1>13, <1>14

LEMMA MintStep ==
    ASSUME IInv, NEW t \in Threads, ApproveMint(t)
    PROVE  IInv'
<1> DEFINE r == call[t].request
           approvals == requests[r].approvals
           minted == requests'[r].tokens
<1> USE DEF IInv
<1>1. /\ call[t].pc = "mint" /\ lock = t /\ r \in Opened /\ r \in Requests
      /\ UNCHANGED <<clock, lock, audit>>
      /\ requests' \in [Requests -> ApprovalRequest \cup {NoRequest}]
      /\ \A q \in Opened \ {r} : requests'[q] = requests[q]
      /\ Opened' = Opened
  BY MintEffect
<1>2. /\ requests[r].required \in {1, 2} /\ requests[r].expires_at \in Nat
      /\ Len(approvals) \in Nat /\ Len(approvals) >= requests[r].required
      /\ call[t].now \in Nat /\ call[t].now <= requests[r].expires_at
      /\ DOMAIN approvals = 1..Len(approvals)
  BY MintEffect
<1>3. /\ DOMAIN minted = 1..Len(approvals) /\ Len(minted) = Len(approvals)
      /\ \A i \in DOMAIN minted : /\ minted[i].granted_by = approvals[i]
                                   /\ minted[i].expires_at = call[t].now + TokenTTL
  BY MintEffect
<1>4. /\ requests'[r].approvals = approvals
      /\ requests'[r].required = requests[r].required
      /\ requests'[r].requested_by = requests[r].requested_by
      /\ requests'[r].expires_at = requests[r].expires_at
  BY MintEffect
<1>5. /\ call' \in [Threads -> Call \cup {Idle}]
      /\ call'[t].pc = "publish"
      /\ call'[t].op = call[t].op
      /\ call'[t].request = r
      /\ \A u \in Threads \ {t} : call'[u] = call[u]
  BY MintEffect
<1>6. TypeOK'
  BY <1>1, <1>5 DEF TypeOK
<1>7. Holder'
  BY <1>1, <1>5 DEF Holder, UnderLock
<1>8. InFlight'
  BY <1>1, <1>5 DEF InFlight
<1>9. Checked'
  <2>1. CheckedBy(t)'
    BY <1>5 DEF CheckedBy
  <2>2. ASSUME NEW u \in Threads \ {t} PROVE CheckedBy(u)'
    BY <1>1, <1>5, OthersOutside DEF UnderLock
  <2>3. QED BY <2>1, <2>2 DEF Checked
<1>10. Signatures'
  <2>1. \A q \in Opened : /\ requests'[q].approvals = requests[q].approvals
                          /\ requests'[q].requested_by = requests[q].requested_by
    BY <1>1, <1>4
  <2>2. QED BY <1>1, <2>1 DEF Signatures
<1>11. TokensOK'
  <2>0. /\ \A i, j \in DOMAIN approvals : i # j => approvals[i] # approvals[j]
        /\ \A i \in DOMAIN approvals : approvals[i] # requests[r].requested_by
    BY <1>1 DEF Signatures
  <2>1. /\ \A i, j \in DOMAIN minted :
               i # j => minted[i].granted_by # minted[j].granted_by
        /\ \A i \in DOMAIN minted :
               minted[i].granted_by # requests[r].requested_by
    BY <1>2, <1>3, <2>0
  <2>2. \A i \in DOMAIN minted :
            minted[i].expires_at <= requests[r].expires_at + TokenTTL
    BY <1>2, <1>3, TimeAssumption
  <2>3. Len(minted) >= requests[r].required
    BY <1>2, <1>3
  <2>4. minted = requests'[r].tokens
    OBVIOUS
  <2> HIDE DEF minted
  <2>5. \A q \in Opened \ {r} : requests'[q] = requests[q]
    BY <1>1
  <2>6. TokensOK /\ Opened' = Opened
    BY <1>1
  <2>7. QED BY ONLY <1>4, <2>1, <2>2, <2>3, <2>4, <2>5, <2>6 DEF TokensOK
<1>12. QED BY <1>6, <1>7, <1>8, <1>9, <1>10, <1>11

LEMMA OpenRequestStep ==
    ASSUME IInv, NEW r \in Requests, NEW actor \in Actors,
           NEW role \in CallRoles, NEW tier \in Tiers,
           OpenRequest(r, actor, role, tier)
    PROVE  IInv'
<1> DEFINE new == [requested_by |-> actor,
                   required |-> _required_approvals(tier),
                   expires_at |-> clock + RequestTTL,
                   status |-> "pending", approvals |-> <<>>, tokens |-> <<>>]
<1> USE DEF IInv
<1>1. /\ requests[r] = NoRequest
      /\ requests' = [requests EXCEPT ![r] = new]
      /\ UNCHANGED <<clock, lock, call>>
  BY DEF OpenRequest
<1>2. new \in ApprovalRequest
  <2>1. _required_approvals(tier) \in {1, 2}
    BY DEF _required_approvals
  <2>2. clock + RequestTTL \in Nat
    BY TimeAssumption DEF TypeOK
  <2>3. <<>> \in Seq(Actors) /\ <<>> \in Seq(Token)
    OBVIOUS
  <2>4. QED BY <2>1, <2>2, <2>3 DEF ApprovalRequest, OpenStatuses
<1>3. new.approvals = <<>> /\ new.tokens = <<>>
  OBVIOUS
<1> HIDE DEF new
<1>4. /\ requests' \in [Requests -> ApprovalRequest \cup {NoRequest}]
      /\ requests'[r] = new
      /\ \A q \in Requests \ {r} : requests'[q] = requests[q]
  BY <1>1, <1>2 DEF TypeOK
<1>5. /\ Opened' = Opened \cup {r} /\ r \notin Opened
      /\ \A q \in Opened : requests'[q] = requests[q]
  BY <1>1, <1>2, <1>4, NoRequestAssumption DEF Opened
<1>6. audit' \subseteq Event
  BY AppendedEffect DEF OpenRequest
<1>7. TypeOK'
  BY <1>1, <1>4, <1>6 DEF TypeOK
<1>8. Holder' /\ InFlight'
  BY <1>1, <1>5 DEF Holder, InFlight
<1>9. Checked'
  <2>1. ASSUME NEW t \in Threads PROVE CheckedBy(t)'
    <3>1. CASE call[t].pc \in {"sign", "mint"}
      <4>1. call[t].request \in Opened
        BY <3>1 DEF InFlight
      <4>2. QED BY <1>1, <1>5, <4>1 DEF Checked, CheckedBy
    <3>2. CASE call[t].pc \notin {"sign", "mint"}
      BY <1>1, <3>2 DEF CheckedBy
    <3>3. QED BY <3>1, <3>2
  <2>2. QED BY <2>1 DEF Checked
<1>10. Signatures' /\ TokensOK'
  BY <1>3, <1>4, <1>5 DEF Signatures, TokensOK
<1>11. QED BY <1>7, <1>8, <1>9, <1>10

LEMMA EnterStep ==
    ASSUME IInv, NEW t \in Threads, NEW op \in Ops, NEW r \in Requests,
           NEW actor \in Actors, NEW role \in CallRoles,
           Enter(t, op, r, actor, role)
    PROVE  IInv'
<1> DEFINE entered == [pc |-> "entered", op |-> op, request |-> r,
                       actor |-> actor, role |-> role, now |-> clock]
<1> USE DEF IInv
<1>1. /\ call[t].pc = "idle"
      /\ call' = [call EXCEPT ![t] = entered]
      /\ UNCHANGED <<clock, requests, lock, audit>>
  BY DEF Enter, Idle
<1>2. entered \in Call /\ entered.pc = "entered"
  BY DEF TypeOK, Call, Points
<1> HIDE DEF entered
<1>3. /\ call' \in [Threads -> Call \cup {Idle}]
      /\ call'[t].pc = "entered"
      /\ \A u \in Threads \ {t} : call'[u] = call[u]
  BY <1>1, <1>2 DEF TypeOK
<1>4. QED BY <1>1, <1>3, CallMoves DEF UnderLock, TypeOK

LEMMA TickStep ==
    ASSUME IInv, Tick
    PROVE  IInv'
<1>1. UNCHANGED <<requests, lock, call, audit>> /\ clock' \in Nat
  BY DEF IInv, TypeOK, Tick
<1>2. Opened' = Opened /\ \A t \in Threads : CheckedBy(t)' = CheckedBy(t)
  BY <1>1 DEF Opened, CheckedBy
<1>3. QED
  BY <1>1, <1>2 DEF IInv, TypeOK, Holder, InFlight, Checked, Signatures, TokensOK

-----------------------------------------------------------------------------
(* The theorems *)

LEMMA InitIInv == Init => IInv
<1> SUFFICES ASSUME Init PROVE IInv
  OBVIOUS
<1>1. Opened = {}
  BY DEF Init, Opened
<1>2. \A t \in Threads : call[t].pc = "idle"
  BY DEF Init, Idle
<1>3. TypeOK
  BY DEF Init, TypeOK
<1>4. Holder
  BY <1>2, FreeAssumption DEF Init, Holder, UnderLock
<1>5. InFlight /\ Checked
  BY <1>2 DEF InFlight, Checked, CheckedBy
<1>6. QED BY <1>1, <1>3, <1>4, <1>5 DEF IInv, Signatures, TokensOK

LEMMA NextIInv == IInv /\ [Next]_vars => IInv'
<1> SUFFICES ASSUME IInv, [Next]_vars PROVE IInv'
  OBVIOUS
<1>1. ASSUME NEW r \in Requests, NEW actor \in Actors, NEW role \in CallRoles,
             NEW tier \in Tiers, OpenRequest(r, actor, role, tier)
      PROVE  IInv'
  BY <1>1, OpenRequestStep
<1>2. ASSUME NEW t \in Threads, NEW op \in Ops, NEW r \in Requests,
             NEW actor \in Actors, NEW role \in CallRoles,
             Enter(t, op, r, actor, role)
      PROVE  IInv'
  BY <1>2, EnterStep
<1>3. ASSUME NEW t \in Threads, Step(t)
      PROVE  IInv'
  BY <1>3, OutsideLockStep, StatusStep, AcquireStep, SignStep, MintStep DEF Step
<1>4. CASE Tick
  BY <1>4, TickStep
<1>5. CASE UNCHANGED vars
  <2>1. UNCHANGED <<clock, requests, lock, call, audit>>
    BY <1>5 DEF vars
  <2>2. Opened' = Opened /\ \A t \in Threads : CheckedBy(t)' = CheckedBy(t)
    BY <2>1 DEF Opened, CheckedBy
  <2>3. QED
    BY <2>1, <2>2 DEF IInv, TypeOK, Holder, InFlight, Checked, Signatures, TokensOK
<1>6. QED BY <1>1, <1>2, <1>3, <1>4, <1>5 DEF Next

\* The inductive invariant holds in every reachable state.
THEOREM Invariance == Spec => []IInv
  BY InitIInv, NextIInv, PTL DEF Spec

\* Every reachable state of the workflow is well typed.
THEOREM TypeCorrect == Spec => []TypeOK
<1>1. IInv => TypeOK
  BY DEF IInv
<1>2. QED BY <1>1, Invariance, PTL

\* Maker-checker and dual control, for any number of threads and people: tokens
\* exist only with a quorum of different approvers, none of them the requester.
THEOREM QuorumBehindTokens == Spec => []TokensNeedQuorum
<1>1. IInv => TokensNeedQuorum
  BY DEF IInv, TokensOK, TokensNeedQuorum, GrantorsOf
<1>2. QED BY <1>1, Invariance, PTL

\* No token outlives its request's deadline by more than the token lifetime.
THEOREM TokenLifetime == Spec => []TokensExpireInTime
<1>1. IInv => TokensExpireInTime
  BY DEF IInv, TokensOK, TokensExpireInTime
<1>2. QED BY <1>1, Invariance, PTL

-----------------------------------------------------------------------------
(* When a resolution is final *)

Past == {"sign", "mint", "publish", "write"}

\* Nobody working on r past the checks, spelled with the program counter alone.
LEMMA NobodyPast ==
    ASSUME NEW r \in Requests
    PROVE  PastItsCheck(r) <=>
               \E t \in Threads : call[t].pc \in Past /\ call[t].request = r
  BY DEF PastItsCheck, Past, Idle

\* A step that leaves r alone and takes no call on r past its checks.
LEMMA KeepsSettled ==
    ASSUME NEW r \in Opened, Settled(r), NEW t \in Threads,
           requests'[r] = requests[r],
           \A u \in Threads \ {t} : call'[u] = call[u],
           call'[t].pc \in Past => call'[t].request # r
    PROVE  Settled(r)'
<1>1. r \in Requests
  BY DEF Opened
<1>2. ~ \E u \in Threads : call[u].pc \in Past /\ call[u].request = r
  BY <1>1, NobodyPast DEF Settled
<1>3. ~ \E u \in Threads : call'[u].pc \in Past /\ call'[u].request = r
  BY <1>2
<1>4. PastItsCheck(r)' <=>
          \E u \in Threads : call'[u].pc \in Past /\ call'[u].request = r
  BY DEF PastItsCheck, Past, Idle
<1>5. QED BY <1>3, <1>4 DEF Settled

\* The steps of a call: on another request they leave r alone, and on r they
\* find it closed.
LEMMA StepSettled ==
    ASSUME TypeOK, NEW r \in Opened, Settled(r), NEW t \in Threads, Step(t)
    PROVE  requests'[r] = requests[r] /\ Settled(r)'
<1>1. r \in Requests /\ ~is_open(r)
  BY DEF Opened, Settled, is_open, OpenStatuses, ResolvedStatuses
<1>2. call[t].pc \in Past => call[t].request # r
  BY <1>1, NobodyPast DEF Settled
<1>3. call[t].pc # "idle"
  BY DEF Step, ApproveUnknownOrClosed, ApproveExpired, ApproveBlocked,
         ApproveAcquire, ApproveReady, ApproveSign, ApproveMint, ApprovePublish,
         Lookup, CheckOpen, RejectWrite, EscalateWrite, At
<1>4. \/ Return(t)
      \/ \E point \in Points : Goto(t, point)
  BY DEF Step, ApproveUnknownOrClosed, ApproveExpired, ApproveBlocked,
         ApproveAcquire, ApproveSign, LeaveOnError, ApproveMint, ApprovePublish,
         Lookup, CheckOpen, RejectWrite, EscalateWrite, Points
<1>5. /\ \A u \in Threads \ {t} : call'[u] = call[u]
      /\ call'[t].pc = "idle" \/ call'[t].request = call[t].request
  BY <1>3, <1>4, ReturnEffect, GotoEffect
<1>6. CASE call[t].request # r
  <2>1. requests'[r] = requests[r]
    BY <1>1, <1>6
    DEF TypeOK, Step, ApproveUnknownOrClosed, ApproveExpired, ApproveBlocked,
        ApproveAcquire, ApproveSign, ApproveMint, ApprovePublish, Lookup,
        CheckOpen, RejectWrite, EscalateWrite, SetStatus
  <2>2. QED BY <1>5, <1>6, <2>1, KeepsSettled DEF Past
<1>7. CASE call[t].request = r
  <2>1. ApproveUnknownOrClosed(t) \/ Lookup(t) \/ CheckOpen(t)
    BY <1>1, <1>2, <1>7
    DEF Step, ApproveExpired, ApproveBlocked, ApproveAcquire, ApproveReady,
        ApproveSign, ApproveMint, ApprovePublish, RejectWrite, EscalateWrite,
        At, Past
  <2>2. requests' = requests /\ (Return(t) \/ Goto(t, "check"))
    BY <1>1, <1>7, <2>1 DEF ApproveUnknownOrClosed, Lookup, CheckOpen
  <2>3. call'[t].pc \in {"idle", "check"}
    BY <1>3, <2>2, ReturnEffect, GotoEffect DEF Points
  <2>4. QED BY <1>5, <2>2, <2>3, KeepsSettled DEF Past
<1>8. QED BY <1>6, <1>7

LEMMA NextSettled ==
    ASSUME TypeOK, [Next]_vars, NEW r \in Opened, Settled(r)
    PROVE  requests'[r] = requests[r] /\ Settled(r)'
<1>1. ASSUME NEW q \in Requests, NEW actor \in Actors, NEW role \in CallRoles,
             NEW tier \in Tiers, OpenRequest(q, actor, role, tier)
      PROVE  requests'[r] = requests[r] /\ Settled(r)'
  <2>1. requests'[r] = requests[r] /\ call' = call
    BY <1>1 DEF OpenRequest, Opened, TypeOK
  <2>2. QED BY <2>1 DEF Settled, PastItsCheck
<1>2. ASSUME NEW t \in Threads, NEW op \in Ops, NEW q \in Requests,
             NEW actor \in Actors, NEW role \in CallRoles,
             Enter(t, op, q, actor, role)
      PROVE  requests'[r] = requests[r] /\ Settled(r)'
  <2>1. /\ requests' = requests
        /\ call'[t].pc = "entered"
        /\ \A u \in Threads \ {t} : call'[u] = call[u]
    BY <1>2 DEF Enter, TypeOK
  <2>2. QED BY <2>1, KeepsSettled DEF Past
<1>3. ASSUME NEW t \in Threads, Step(t)
      PROVE  requests'[r] = requests[r] /\ Settled(r)'
  BY <1>3, StepSettled
<1>4. CASE Tick \/ UNCHANGED vars
  <2>1. requests' = requests /\ call' = call
    BY <1>4 DEF Tick, vars
  <2>2. QED BY <2>1 DEF Settled, PastItsCheck
<1>5. QED BY <1>1, <1>2, <1>3, <1>4 DEF Next

\* Only calls that had passed their checks when a request was resolved can
\* overwrite the resolution: once they are done, nothing about it changes again.
THEOREM ResolutionIsSettled == Spec => ResolutionSettles
<1>1. TypeOK /\ [Next]_vars =>
          [\A r \in Opened :
              Settled(r) => requests'[r] = requests[r] /\ Settled(r)']_vars
  BY NextSettled
<1>2. QED BY <1>1, TypeCorrect, PTL DEF Spec, ResolutionSettles

-----------------------------------------------------------------------------
(* The lock, the evidence of a grant, and signatures that count *)

\* The lock is never left behind by a call that is over.
THEOREM LockIsHeldAtWork == Spec => []LockIsReleased
<1>1. IInv => LockIsReleased
  BY DEF IInv, TypeOK, Holder, UnderLock, Idle, LockIsReleased
<1>2. QED BY <1>1, Invariance, PTL

\* Some call on r stands at a point of approve.
Standing(r, point) == \E t \in Threads : call[t].pc = point /\ call[t].request = r

Approved(r, who) == [action |-> "approved", request |-> r, by |-> {who}]

Published(r) ==
    \E e \in audit : e.action = "granted" /\ e.request = r /\ GrantorsOf(r) \subseteq e.by

\* What the trail says of r: every signature has its event, only signatories
\* have tokens, and a grant is on the trail or about to be.
Evidence(r) ==
    /\ \A a \in SignersOf(r) : Approved(r, a) \in audit
    /\ GrantorsOf(r) \subseteq SignersOf(r)
    /\ requests[r].tokens # <<>> => Published(r) \/ Standing(r, "publish")

\* A complete quorum has its tokens, or the call that completed it is minting.
Counted(r) ==
    Len(requests[r].approvals) >= requests[r].required
        => requests[r].tokens # <<>> \/ Standing(r, "mint")

Witnessed == \A r \in Opened : Evidence(r)
EInv == IInv /\ Witnessed
QInv == IInv /\ \A r \in Opened \ stranded : Counted(r)

\* What a step does that neither signs nor mints nor publishes: the signatures
\* and tokens of what was opened stay, the trail grows, and nobody leaves or
\* reaches the points in between.
QuietOn(r) ==
    /\ requests'[r].approvals = requests[r].approvals
    /\ requests'[r].tokens = requests[r].tokens
    /\ requests'[r].required = requests[r].required

Quiet ==
    /\ \A r \in Opened : QuietOn(r)
    /\ audit \subseteq audit'
    /\ \A t \in Threads : call[t].pc \in {"mint", "publish"} => call'[t] = call[t]

\* Status writes are quiet.
LEMMA StatusIsQuiet ==
    ASSUME TypeOK, NEW r \in Opened, NEW s \in OpenStatuses \cup ResolvedStatuses,
           SetStatus(r, s)
    PROVE  Opened' = Opened /\ \A q \in Opened : QuietOn(q)
  BY SetStatusEffect DEF QuietOn

LEMMA QuietSteps ==
    ASSUME IInv, NEW t \in Threads, Step(t), ~ApproveSign(t), ~ApproveMint(t), ~ApprovePublish(t)
    PROVE  Quiet /\ Opened' = Opened
<1>1. TypeOK
  BY DEF IInv
<1>2. /\ call[t].pc \notin {"idle", "mint", "publish"}
      /\ audit \subseteq audit'
      /\ Return(t) \/ \E point \in Points : Goto(t, point)
  BY DEF Step, ApproveUnknownOrClosed, ApproveExpired, ApproveBlocked, ApproveAcquire,
         ApproveReady, Lookup, CheckOpen, RejectWrite, EscalateWrite, At, Appended, Points
<1>3. \A u \in Threads \ {t} : call'[u] = call[u]
  BY <1>1, <1>2, ReturnEffect, GotoEffect
<1>4. Opened' = Opened /\ \A q \in Opened : QuietOn(q)
  <2>1. CASE UNCHANGED requests
    BY <2>1 DEF QuietOn, Opened
  <2>2. CASE ApproveExpired(t) \/ RejectWrite(t) \/ EscalateWrite(t)
    <3>1. call[t].request \in Opened
      BY <2>2 DEF IInv, InFlight, ApproveExpired, RejectWrite, EscalateWrite, At
    <3>2. \E s \in OpenStatuses \cup ResolvedStatuses : SetStatus(call[t].request, s)
      BY <2>2 DEF ApproveExpired, RejectWrite, EscalateWrite, OpenStatuses, ResolvedStatuses
    <3>3. QED BY <1>1, <3>1, <3>2, StatusIsQuiet
  <2>3. QED BY <2>1, <2>2 DEF Step, ApproveUnknownOrClosed, ApproveBlocked, ApproveAcquire,
                              Lookup, CheckOpen
<1>5. QED BY <1>2, <1>3, <1>4 DEF Quiet

\* Quiet steps lose no evidence and no quorum.
LEMMA QuietKeeps ==
    ASSUME Quiet, NEW r \in Opened
    PROVE  /\ Evidence(r) => Evidence(r)'
           /\ Counted(r) => Counted(r)'
<1>1. /\ requests'[r].approvals = requests[r].approvals
      /\ requests'[r].tokens = requests[r].tokens
      /\ requests'[r].required = requests[r].required
      /\ audit \subseteq audit'
  BY DEF Quiet, QuietOn
<1>2. SignersOf(r)' = SignersOf(r) /\ GrantorsOf(r)' = GrantorsOf(r)
  BY <1>1 DEF SignersOf, GrantorsOf
<1>3. (Standing(r, "mint") => Standing(r, "mint")') /\ (Standing(r, "publish") => Standing(r, "publish")')
  BY DEF Quiet, Standing
<1>4. Published(r) => Published(r)'
  BY <1>1, <1>2 DEF Published
<1>5. QED BY <1>1, <1>2, <1>3, <1>4 DEF Evidence, Counted

\* Nobody knows of a request before it is opened, and it starts empty.
LEMMA OpenedEmpty ==
    ASSUME TypeOK, NEW r \in Requests, NEW actor \in Actors,
           NEW role \in CallRoles, NEW tier \in Tiers, OpenRequest(r, actor, role, tier)
    PROVE  /\ Quiet
           /\ Opened' \subseteq Opened \cup {r}
           /\ r \notin Opened
           /\ requests'[r].approvals = <<>> /\ requests'[r].tokens = <<>>
           /\ requests'[r].required \in {1, 2}
<1>1. /\ requests[r] = NoRequest /\ audit \subseteq audit' /\ UNCHANGED call
      /\ requests' = [requests EXCEPT ![r] =
             [requested_by |-> actor, required |-> _required_approvals(tier),
              expires_at |-> clock + RequestTTL,
              status |-> "pending", approvals |-> <<>>, tokens |-> <<>>]]
  BY DEF OpenRequest, Appended
<1>2. requests \in [Requests -> ApprovalRequest \cup {NoRequest}]
  BY DEF TypeOK
<1>3. \A q \in Requests \ {r} : requests'[q] = requests[q]
  BY <1>1, <1>2
<1>4. /\ requests'[r].approvals = <<>> /\ requests'[r].tokens = <<>>
      /\ requests'[r].required = _required_approvals(tier)
  BY <1>1, <1>2
<1>5. QED BY <1>1, <1>3, <1>4 DEF Quiet, QuietOn, Opened, _required_approvals

\* Under the lock only its holder stands at a point of approve.
LEMMA OnlyHolderStands ==
    ASSUME IInv, NEW t \in Threads, call[t].pc \in UnderLock,
           NEW r, NEW point \in UnderLock, Standing(r, point)
    PROVE  call[t].pc = point /\ call[t].request = r
  BY FreeAssumption DEF IInv, Holder, Standing

\* A signature comes with its event; evidence and quorums of others stand.
LEMMA SignKeeps ==
    ASSUME EInv, NEW t \in Threads, ApproveSign(t), NEW q \in Opened
    PROVE  /\ Evidence(q)'
           /\ q # call[t].request /\ Counted(q) => Counted(q)'
           /\ q = call[t].request =>
                 \/ Standing(q, "mint")'
                 \/ /\ call'[t] = Idle
                    /\ requests'[q].required = requests[q].required
<1> DEFINE r == call[t].request
           signed == Append(requests[r].approvals, call[t].actor)
<1>1. IInv /\ Evidence(q)
  BY DEF EInv, Witnessed
<1>2. /\ call[t].pc = "sign" /\ r \in Opened
      /\ DOMAIN signed = 1..Len(signed) /\ Len(signed) \in Nat
      /\ DOMAIN requests[r].approvals = 1..(Len(signed) - 1)
      /\ signed[Len(signed)] = call[t].actor
      /\ \A i \in DOMAIN requests[r].approvals : signed[i] = requests[r].approvals[i]
      /\ \A p \in Opened \ {r} : requests'[p] = requests[p]
      /\ requests'[r].approvals = signed
      /\ requests'[r].tokens = requests[r].tokens
      /\ requests'[r].required = requests[r].required
      /\ audit' = audit \cup {[action |-> "approved", request |-> r, by |-> {call[t].actor}]}
  BY <1>1, SignEffect
<1>3. (call'[t].pc = "mint" /\ call'[t].request = r) \/ call'[t] = Idle
  BY <1>1, SignEffect
<1>4. ~Standing(q, "mint") /\ ~Standing(q, "publish")
  BY <1>1, <1>2, OnlyHolderStands DEF UnderLock
<1> HIDE DEF signed
<1>5. GrantorsOf(q)' = GrantorsOf(q)
  <2>1. requests'[q].tokens = requests[q].tokens
    BY <1>2
  <2>2. QED BY <2>1 DEF GrantorsOf
<1>6. SignersOf(q)' = IF q = r THEN SignersOf(q) \cup {call[t].actor} ELSE SignersOf(q)
  <2>1. CASE q = r
    <3>1. \A i \in DOMAIN signed : i \in DOMAIN requests[r].approvals \/ i = Len(signed)
      BY <1>2
    <3>2. \A i \in DOMAIN requests[r].approvals : i \in DOMAIN signed
      BY <1>2
    <3>3. Len(signed) \in DOMAIN signed
      <4>1. r \in Requests /\ requests[r] \in ApprovalRequest /\ call[t].actor \in Actors
        BY <1>1, <1>2, BusyCall DEF IInv, TypeOK, Opened
      <4>2. requests[r].approvals \in Seq(Actors)
        BY <4>1 DEF ApprovalRequest
      <4>3. Len(signed) = Len(requests[r].approvals) + 1 /\ Len(requests[r].approvals) \in Nat
        BY <4>1, <4>2, AppendFacts DEF signed
      <4>4. QED BY <1>2, <4>3
    <3>4. SignersOf(q)' = {signed[i] : i \in DOMAIN signed}
      BY <1>2, <2>1 DEF SignersOf
    <3>5. SignersOf(q) = {requests[r].approvals[i] : i \in DOMAIN requests[r].approvals}
      BY <2>1 DEF SignersOf
    <3>6. {signed[i] : i \in DOMAIN signed}
            = {requests[r].approvals[i] : i \in DOMAIN requests[r].approvals} \cup {call[t].actor}
      BY <1>2, <3>1, <3>2, <3>3
    <3>7. QED BY <2>1, <3>4, <3>5, <3>6
  <2>2. CASE q # r
    BY <1>2, <2>2 DEF SignersOf
  <2>3. QED BY <2>1, <2>2
<1>7. Published(q) => Published(q)'
  BY <1>2, <1>5 DEF Published
<1>8. Evidence(q)'
  BY <1>1, <1>2, <1>4, <1>5, <1>6, <1>7 DEF Evidence, Approved
<1>9. ASSUME q # r, Counted(q) PROVE Counted(q)'
  BY <1>2, <1>4, <1>9 DEF Counted
<1>10. ASSUME q = r, call'[t] # Idle PROVE Standing(q, "mint")'
  BY <1>3, <1>10 DEF Standing
<1>11. QED BY <1>2, <1>8, <1>9, <1>10

\* Minting gives tokens to the signatories, and the grant is announced next.
LEMMA MintKeeps ==
    ASSUME EInv, NEW t \in Threads, ApproveMint(t), NEW q \in Opened
    PROVE  Evidence(q)' /\ (Counted(q) => Counted(q)')
<1> DEFINE r == call[t].request
           minted == requests'[r].tokens
<1>1. IInv /\ Evidence(q)
  BY DEF EInv, Witnessed
<1>2. /\ call[t].pc = "mint" /\ r \in Opened /\ UNCHANGED audit
      /\ requests[r].required \in {1, 2} /\ Len(requests[r].approvals) \in Nat
      /\ Len(requests[r].approvals) >= requests[r].required
      /\ DOMAIN requests[r].approvals = 1..Len(requests[r].approvals)
      /\ DOMAIN minted = 1..Len(requests[r].approvals)
      /\ Len(minted) = Len(requests[r].approvals)
      /\ \A i \in DOMAIN minted : minted[i].granted_by = requests[r].approvals[i]
      /\ \A p \in Opened \ {r} : requests'[p] = requests[p]
      /\ requests'[r].approvals = requests[r].approvals
      /\ requests'[r].required = requests[r].required
      /\ call'[t].pc = "publish" /\ call'[t].request = r
  BY <1>1, MintEffect
<1>3. CASE q = r
  <2>1. SignersOf(q)' = SignersOf(q)
    BY <1>2, <1>3 DEF SignersOf
  <2>2. GrantorsOf(q)' = SignersOf(q)
    <3>1. GrantorsOf(q)' = {minted[i].granted_by : i \in DOMAIN minted}
      BY <1>3 DEF GrantorsOf
    <3>2. SignersOf(q) = {requests[r].approvals[i] : i \in DOMAIN requests[r].approvals}
      BY <1>3 DEF SignersOf
    <3>3. DOMAIN minted = DOMAIN requests[r].approvals
      BY <1>2
    <3>4. \A i \in DOMAIN minted : minted[i].granted_by = requests[r].approvals[i]
      BY <1>2
    <3> HIDE DEF minted, r
    <3>5. {minted[i].granted_by : i \in DOMAIN minted}
            = {requests[r].approvals[i] : i \in DOMAIN requests[r].approvals}
      BY <3>3, <3>4
    <3>6. QED BY <3>1, <3>2, <3>5
  <2>3. minted # <<>>
    BY <1>2
  <2>4. Standing(q, "publish")'
    BY <1>2, <1>3 DEF Standing
  <2>5. Evidence(q)'
    BY <1>1, <1>2, <2>1, <2>2, <2>4 DEF Evidence, Approved
  <2>6. QED BY <1>3, <2>3, <2>5 DEF Counted
<1>4. CASE q # r
  <2>1. requests'[q] = requests[q]
    BY <1>2, <1>4
  <2>2. ~Standing(q, "mint") /\ ~Standing(q, "publish")
    BY <1>1, <1>2, <1>4, OnlyHolderStands DEF UnderLock
  <2>3. SignersOf(q)' = SignersOf(q) /\ GrantorsOf(q)' = GrantorsOf(q)
    BY <2>1 DEF SignersOf, GrantorsOf
  <2>4. Published(q) => Published(q)'
    BY <1>2, <2>3 DEF Published
  <2>5. Evidence(q)'
    BY <1>1, <1>2, <2>1, <2>2, <2>3, <2>4 DEF Evidence, Approved
  <2>6. QED BY <2>1, <2>2, <2>5 DEF Counted
<1>5. QED BY <1>3, <1>4

\* Publishing puts the grant on the trail under the names of the signatories.
LEMMA PublishKeeps ==
    ASSUME EInv, NEW t \in Threads, ApprovePublish(t), NEW q \in Opened
    PROVE  Opened' = Opened /\ Evidence(q)' /\ (Counted(q) => Counted(q)')
<1> DEFINE r == call[t].request
<1>1. IInv /\ TypeOK /\ Evidence(q)
  BY DEF EInv, IInv, Witnessed
<1>2. /\ call[t].pc = "publish" /\ SetStatus(r, "approved")
      /\ audit' = audit \cup {[action |-> "granted", request |-> r, by |-> SignersOf(r)]}
  BY DEF ApprovePublish, At, Appended, approver_names
<1>3. r \in Opened /\ "approved" \in OpenStatuses \cup ResolvedStatuses
  BY <1>1, <1>2 DEF IInv, InFlight, ResolvedStatuses
<1>4. Opened' = Opened /\ QuietOn(q)
  BY <1>1, <1>2, <1>3, StatusIsQuiet
<1>5. SignersOf(q)' = SignersOf(q) /\ GrantorsOf(q)' = GrantorsOf(q)
  BY <1>4 DEF QuietOn, SignersOf, GrantorsOf
<1>6. ~Standing(q, "mint") /\ (Standing(q, "publish") => q = r)
  BY <1>1, <1>2, OnlyHolderStands DEF UnderLock
<1>7. Published(q) => Published(q)'
  BY <1>2, <1>5 DEF Published
<1>8. ASSUME q = r PROVE Published(q)'
  <2> DEFINE e == [action |-> "granted", request |-> r, by |-> SignersOf(r)]
  <2>1. e \in audit' /\ e.action = "granted" /\ e.request = q /\ e.by = SignersOf(q)
    BY <1>2, <1>8
  <2>2. GrantorsOf(q)' \subseteq SignersOf(q)
    BY <1>1, <1>5 DEF Evidence
  <2> HIDE DEF e
  <2>3. QED BY <2>1, <2>2 DEF Published
<1>9. Evidence(q)'
  BY <1>1, <1>2, <1>4, <1>5, <1>6, <1>7, <1>8 DEF Evidence, Approved, QuietOn
<1>10. Counted(q) => Counted(q)'
  BY <1>4, <1>6 DEF Counted, QuietOn
<1>11. QED BY <1>4, <1>9, <1>10

LEMMA NextEInv == EInv /\ [Next]_vars => EInv'
<1> SUFFICES ASSUME EInv, [Next]_vars PROVE Witnessed'
  BY NextIInv DEF EInv
<1>1. IInv /\ TypeOK /\ \A r \in Opened : Evidence(r)
  BY DEF EInv, IInv, Witnessed
<1>2. ASSUME NEW r \in Requests, NEW actor \in Actors, NEW role \in CallRoles,
             NEW tier \in Tiers, OpenRequest(r, actor, role, tier)
      PROVE  Witnessed'
  <2>1. /\ Quiet /\ Opened' \subseteq Opened \cup {r}
        /\ requests'[r].approvals = <<>> /\ requests'[r].tokens = <<>>
    BY <1>1, <1>2, OpenedEmpty
  <2>2. Evidence(r)'
    <3>1. SignersOf(r)' = {} /\ GrantorsOf(r)' = {}
      BY <2>1 DEF SignersOf, GrantorsOf
    <3>2. QED BY <2>1, <3>1 DEF Evidence
  <2>3. \A q \in Opened : Evidence(q)'
    BY <1>1, <2>1, QuietKeeps
  <2>4. QED BY <2>1, <2>2, <2>3 DEF Witnessed
<1>3. ASSUME NEW t \in Threads, Step(t)
      PROVE  Witnessed'
  <2>1. CASE ApproveSign(t)
    BY <1>1, <2>1, SignEffect, SignKeeps DEF Witnessed
  <2>2. CASE ApproveMint(t)
    BY <1>1, <2>2, MintEffect, MintKeeps DEF Witnessed
  <2>3. CASE ApprovePublish(t)
    <3>1. Opened' = Opened
      <4>1. CASE Opened = {}
        BY <1>1, <2>3, <4>1 DEF ApprovePublish, At, IInv, InFlight
      <4>2. QED BY <2>3, <4>1, PublishKeeps
    <3>2. QED BY <2>3, <3>1, PublishKeeps DEF Witnessed
  <2>4. CASE ~ApproveSign(t) /\ ~ApproveMint(t) /\ ~ApprovePublish(t)
    BY <1>1, <1>3, <2>4, QuietSteps, QuietKeeps DEF Witnessed
  <2>5. QED BY <2>1, <2>2, <2>3, <2>4
<1>4. ASSUME UNCHANGED <<requests, audit>>,
             \A t \in Threads : call[t].pc \in {"mint", "publish"} => call'[t] = call[t]
      PROVE  Witnessed'
  <2>1. Quiet /\ Opened' = Opened
    BY <1>4 DEF Quiet, QuietOn, Opened
  <2>2. QED BY <1>1, <2>1, QuietKeeps DEF Witnessed
<1>5. ASSUME NEW t \in Threads, NEW op \in Ops, NEW r \in Requests, NEW actor \in Actors,
             NEW role \in CallRoles, Enter(t, op, r, actor, role)
      PROVE  Witnessed'
  BY <1>1, <1>4, <1>5 DEF Enter, Idle, TypeOK
<1>6. QED BY <1>2, <1>3, <1>4, <1>5 DEF Next, Tick, vars

\* Whoever holds a token is on the trail twice: with the signature it rests on
\* and, once the granting call is over, in the event of the grant (approve and
\* _grant), for any number of people, threads and requests.
THEOREM GrantsLeaveEvidence == Spec => []GrantsAreAudited
<1>1. Init => EInv
  BY InitIInv DEF EInv, Witnessed, Init, Opened
<1>2. EInv => GrantsAreAudited
  <2> SUFFICES ASSUME EInv, NEW r \in Opened
               PROVE  /\ requests[r].tokens # <<>> /\ lock = Free => Published(r)
                      /\ \A a \in GrantorsOf(r) : Approved(r, a) \in audit
    BY DEF GrantsAreAudited, Published, Approved
  <2>1. Evidence(r) /\ IInv
    BY DEF EInv, Witnessed
  <2>2. lock = Free => ~Standing(r, "publish")
    BY <2>1, FreeAssumption DEF IInv, Holder, UnderLock, Standing
  <2>3. QED BY <2>1, <2>2 DEF Evidence
<1>3. QED BY <1>1, <1>2, NextEInv, PTL DEF Spec

LEMMA NextQInv == EInv /\ QInv /\ [MCNext]_<<vars, stranded>> => QInv'
<1> SUFFICES ASSUME EInv, QInv, [MCNext]_<<vars, stranded>>
             PROVE  \A r \in Opened' \ stranded' : Counted(r)'
  <2>1. [MCNext]_<<vars, stranded>> => [Next]_vars
    BY DEF MCNext, vars
  <2>2. QED BY <2>1, NextIInv DEF QInv
<1>1. IInv /\ TypeOK /\ \A r \in Opened \ stranded : Counted(r)
  BY DEF QInv, IInv
<1> DEFINE Noted == \A t \in Threads : Strands(t) => call[t].request \in stranded'
<1>2. stranded \subseteq stranded' /\ (UNCHANGED vars \/ (Next /\ Noted))
  BY DEF MCNext
<1>3. ASSUME NEW r \in Requests, NEW actor \in Actors, NEW role \in CallRoles,
             NEW tier \in Tiers, OpenRequest(r, actor, role, tier)
      PROVE  \A q \in Opened' \ stranded' : Counted(q)'
  <2>1. /\ Quiet /\ Opened' \subseteq Opened \cup {r}
        /\ requests'[r].approvals = <<>> /\ requests'[r].required \in {1, 2}
    BY <1>1, <1>3, OpenedEmpty
  <2>2. Counted(r)'
    BY <2>1 DEF Counted
  <2>3. QED BY <1>1, <1>2, <2>1, <2>2, QuietKeeps
<1>4. ASSUME NEW t \in Threads, Step(t), Noted
      PROVE  \A q \in Opened' \ stranded' : Counted(q)'
  <2>1. CASE ApproveSign(t)
    <3> SUFFICES ASSUME NEW q \in Opened', q \notin stranded' PROVE Counted(q)'
      OBVIOUS
    <3>1. q \in Opened /\ q \notin stranded
      BY <1>1, <1>2, <2>1, SignEffect
    <3>2. CASE q # call[t].request
      BY <1>1, <2>1, <3>1, <3>2, SignKeeps
    <3>3. CASE q = call[t].request
      <4>1. CASE Standing(q, "mint")'
        BY <4>1 DEF Counted
      <4>2. CASE call'[t] = Idle /\ requests'[q].required = requests[q].required
        <5>1. ~Strands(t)
          BY <1>4, <3>3
        <5>2. At(t, "approve", "sign")
          BY <2>1 DEF ApproveSign
        <5>3. ~(Len(requests'[q].approvals) >= requests[q].required)
          BY <3>3, <4>2, <5>1, <5>2 DEF Strands, Quorate
        <5>4. QED BY <4>2, <5>3 DEF Counted
      <4>3. QED BY <2>1, <3>1, <3>3, <4>1, <4>2, SignKeeps
    <3>4. QED BY <3>2, <3>3
  <2>2. CASE ApproveMint(t)
    BY <1>1, <1>2, <2>2, MintEffect, MintKeeps
  <2>3. CASE ApprovePublish(t)
    <3>1. Opened' = Opened
      <4>1. CASE Opened = {}
        BY <1>1, <2>3, <4>1 DEF ApprovePublish, At, IInv, InFlight
      <4>2. QED BY <2>3, <4>1, PublishKeeps
    <3>2. QED BY <1>1, <1>2, <2>3, <3>1, PublishKeeps
  <2>4. CASE ~ApproveSign(t) /\ ~ApproveMint(t) /\ ~ApprovePublish(t)
    BY <1>1, <1>2, <1>4, <2>4, QuietSteps, QuietKeeps
  <2>5. QED BY <2>1, <2>2, <2>3, <2>4
<1>5. ASSUME UNCHANGED <<requests, audit>>,
             \A t \in Threads : call[t].pc \in {"mint", "publish"} => call'[t] = call[t]
      PROVE  \A q \in Opened' \ stranded' : Counted(q)'
  <2>1. Quiet /\ Opened' = Opened
    BY <1>5 DEF Quiet, QuietOn, Opened
  <2>2. QED BY <1>1, <1>2, <2>1, QuietKeeps
<1>6. ASSUME NEW t \in Threads, NEW op \in Ops, NEW r \in Requests, NEW actor \in Actors,
             NEW role \in CallRoles, Enter(t, op, r, actor, role)
      PROVE  \A q \in Opened' \ stranded' : Counted(q)'
  BY <1>1, <1>5, <1>6 DEF Enter, Idle, TypeOK
<1>7. QED BY <1>2, <1>3, <1>4, <1>5, <1>6 DEF Next, Tick, vars

\* No complete quorum goes without its tokens once no approve is in progress,
\* but for the requests whose last signature the trail failed to write.
THEOREM QuorumCounts == MCSpec => []QuorumIsGranted
<1>1. MCInit => EInv /\ QInv
  BY InitIInv DEF MCInit, EInv, QInv, Witnessed, Init, Opened
<1>2. EInv /\ [MCNext]_<<vars, stranded>> => EInv'
  BY NextEInv DEF MCNext, vars
<1>3. QInv => QuorumIsGranted
  <2> SUFFICES ASSUME QInv, NEW r \in Opened \ stranded, lock = Free,
                      Len(requests[r].approvals) >= requests[r].required
               PROVE  requests[r].tokens # <<>>
    BY DEF QuorumIsGranted
  <2>1. ~Standing(r, "mint")
    BY FreeAssumption DEF QInv, IInv, Holder, UnderLock, Standing
  <2>2. QED BY <2>1 DEF QInv, Counted
<1>4. QED BY <1>1, <1>2, <1>3, NextQInv, PTL DEF MCSpec

=============================================================================
