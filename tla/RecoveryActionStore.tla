------------------------- MODULE RecoveryActionStore -------------------------
(***************************************************************************)
(* RecoveryRepository::update_recovery_action: concurrent callers set the  *)
(* action of a wallet recovery, keyed by (account id, initiation time).    *)
(* The call reads the clock for updated_at and builds its attributes, then *)
(* awaits one DynamoDB update_item "SET recovery_action = :l,             *)
(* updated_at = :u" with no condition expression: it overwrites whatever  *)
(* is stored, and creates the item when the key is absent.  Any failure   *)
(* before or of the request returns DatabaseError with nothing written.   *)
(***************************************************************************)
EXTENDS Integers, Sequences

CONSTANTS
  Keys,           \* WalletRecoveryCompositeKey values
  Existing,       \* keys whose recovery has been created
  Callers,        \* concurrent invocations of update_recovery_action
  Actions,        \* RecoveryAction values
  InitialAction,  \* the action a recovery is created with
  MaxTime,
  NoValue

ASSUME Existing \subseteq Keys /\ InitialAction \in Actions

VARIABLES
  store,    \* [Keys -> item or NoValue]
  now,
  call      \* [Callers -> state of one invocation]

vars == <<store, now, call>>

\* An item: `recovery` is TRUE when the rest of the recovery's attributes
\* were written by its creation, FALSE for an item update_item created.
Item == [recovery: BOOLEAN, action: Actions, updatedAt: 0..MaxTime]

Idle == [pc |-> "idle", key |-> NoValue, action |-> NoValue, at |-> 0, result |-> "none"]

\* Lines 21-28: get_table_name, the attribute conversions and the clock
\* read for updated_at, before the request is sent.  A failure returns
\* DatabaseError.
UpdateRecoveryAction(c, k, a) ==
  /\ call[c].pc = "idle"
  /\ \/ call' = [call EXCEPT ![c] = [pc |-> "send", key |-> k, action |-> a,
                                     at |-> now, result |-> "none"]]
     \/ call' = [call EXCEPT ![c] = [Idle EXCEPT !.result = "Err"]]
  /\ UNCHANGED <<store, now>>

\* The unconditional write of update_item.
Written(q) ==
  [store EXCEPT ![q.key] =
     IF @ = NoValue
     THEN [recovery |-> FALSE, action |-> q.action, updatedAt |-> q.at]
     ELSE [@ EXCEPT !.action = q.action, !.updatedAt = q.at]]

\* Lines 30-52: the unconditional update_item.  The result is Ok after the
\* write, or DatabaseError::UpdateError: the request failed with nothing
\* written, or the response was lost after DynamoDB applied it.
SendUpdateItem(c) ==
  LET q == call[c] IN
  /\ q.pc = "send"
  /\ \/ /\ store' = Written(q)
        /\ call' = [call EXCEPT ![c] = [Idle EXCEPT !.result = "Ok"]]
     \/ /\ store' \in {store, Written(q)}
        /\ call' = [call EXCEPT ![c] = [Idle EXCEPT !.result = "Err"]]
  /\ UNCHANGED now

Tick ==
  /\ now < MaxTime
  /\ now' = now + 1
  /\ UNCHANGED <<store, call>>

Init ==
  /\ store = [k \in Keys |-> IF k \in Existing
                              THEN [recovery |-> TRUE, action |-> InitialAction, updatedAt |-> 0]
                              ELSE NoValue]
  /\ now = 0
  /\ call = [c \in Callers |-> Idle]

Next ==
  \/ \E c \in Callers :
       \/ \E k \in Keys, a \in Actions : UpdateRecoveryAction(c, k, a)
       \/ SendUpdateItem(c)
  \/ Tick

Spec == Init /\ [][Next]_vars
=============================================================================
