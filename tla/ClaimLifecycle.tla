--------------------------- MODULE ClaimLifecycle ---------------------------
(***************************************************************************)
(* What the inheritance-claim engine promises, with every request taken   *)
(* as one atomic step: a claim is created Pending with its delay fixed at *)
(* creation, at most one claim per relationship is active (Pending or     *)
(* Locked), a claim locks only once its delay has elapsed, and the        *)
(* lifecycle only moves forward.  InheritanceClaims refines this module.  *)
(***************************************************************************)
EXTENDS Integers

CONSTANTS Rels, ClaimIds, DELAY, MaxTime, NoValue

VARIABLES status,    \* [ClaimIds -> status or NoValue]: NoValue = not created
          rel,       \* [ClaimIds -> Rels \cup {NoValue}]
          createdAt, \* [ClaimIds -> Nat \cup {NoValue}]: creation time
          delayEnd,  \* [ClaimIds -> Nat \cup {NoValue}]
          now

vars == <<status, rel, createdAt, delayEnd, now>>

Active == {"Pending", "Locked"}

ActiveFor(r) == {c \in ClaimIds : status[c] \in Active /\ rel[c] = r}

Init ==
  /\ status = [c \in ClaimIds |-> NoValue]
  /\ rel = [c \in ClaimIds |-> NoValue]
  /\ createdAt = [c \in ClaimIds |-> NoValue]
  /\ delayEnd = [c \in ClaimIds |-> NoValue]
  /\ now = 0

\* A claim becomes visible with a creation time that has passed, and its
\* delay end is that time plus the policy delay.
Start(c, r, t) ==
  /\ status[c] = NoValue
  /\ ActiveFor(r) = {}
  /\ status' = [status EXCEPT ![c] = "Pending"]
  /\ rel' = [rel EXCEPT ![c] = r]
  /\ createdAt' = [createdAt EXCEPT ![c] = t]
  /\ delayEnd' = [delayEnd EXCEPT ![c] = t + DELAY]
  /\ UNCHANGED now

Lock(c) ==
  /\ status[c] = "Pending"
  /\ now >= delayEnd[c]
  /\ status' = [status EXCEPT ![c] = "Locked"]
  /\ UNCHANGED <<rel, createdAt, delayEnd, now>>

Cancel(c) ==
  /\ status[c] \in Active
  /\ status' = [status EXCEPT ![c] = "Canceled"]
  /\ UNCHANGED <<rel, createdAt, delayEnd, now>>

Complete(c) ==
  /\ status[c] = "Locked"
  /\ status' = [status EXCEPT ![c] = "Completed"]
  /\ UNCHANGED <<rel, createdAt, delayEnd, now>>

Tick ==
  /\ now < MaxTime
  /\ now' = now + 1
  /\ UNCHANGED <<status, rel, createdAt, delayEnd>>

Next ==
  \/ \E c \in ClaimIds, r \in Rels, t \in 0..now : Start(c, r, t)
  \/ \E c \in ClaimIds : Lock(c) \/ Cancel(c) \/ Complete(c)
  \/ Tick

Spec == Init /\ [][Next]_vars
=============================================================================
