-------------------------- MODULE InheritanceClaims --------------------------
(***************************************************************************)
(* The inheritance-claim engine: the claim store, the authorization rules  *)
(* of every request, the claim state machine and the completion pipeline. *)
(*                                                                         *)
(* Each request is handled by an independent task (a member of Procs).    *)
(* A handler reads the claim, decides, and stages the record it will      *)
(* write; the write is a separate step conditioned on the revision read   *)
(* (optimistic concurrency), so handlers of the same claim interleave.     *)
(* Completion additionally calls the external broadcaster between its     *)
(* read and its write.  Errors are replied before any mutation.           *)
(***************************************************************************)
EXTENDS Integers, Sequences, FiniteSets

CONSTANTS
  Rels,            \* recovery relationships (benefactor <-> beneficiary)
  ClaimIds,        \* pool of claim identifiers; bounds the claims created
  Procs,           \* request-handling tasks that may run concurrently
  Addresses,       \* well-formed destination addresses
  BadAddr,         \* a destination that fails address validation
  Blocked,         \* the compliance block-list, a subset of Addresses
  Txs,             \* sweep transactions a beneficiary may submit
  TxOutput,        \* [Txs -> Addresses]: the sole output of each transaction
  TxSignedInputs,  \* [Txs -> Nat]: inputs carrying a finalized signature
  BeneficiaryType, \* [Rels -> {"Full", "Lite"}]: account type of the beneficiary
  DELAY,           \* claim delay period, in ticks
  MaxTime, MaxRev, MaxUploads, MaxKeyRotations, MaxBroadcasts,
  NoValue

ASSUME Blocked \subseteq Addresses /\ BadAddr \notin Addresses
ASSUME DELAY \in Nat \ {0} /\ MaxRev \in Nat \ {0}

VARIABLES
  claims,     \* the Claim Store: [ClaimIds -> claim record or NoValue]
  endorsed,   \* relationship registry: [Rels -> BOOLEAN]
  packages,   \* [Rels -> Nat]: version of the uploaded escrow package, 0 = none
  keyset,     \* [Rels -> Nat]: version of the benefactor's active descriptor keyset
  now,        \* wall clock, in ticks
  req,        \* [Procs -> request record]: state of each handler task
  notices,    \* declared notification events, in order
  broadcasts  \* transactions handed to the broadcaster, in order

vars == <<claims, endorsed, packages, keyset, now, req, notices, broadcasts>>
env == <<endorsed, keyset, now>>

Roles == {"Benefactor", "Beneficiary"}
Statuses == {"Pending", "Locked", "Completed", "Canceled"}
Active == {"Pending", "Locked"}
Codes == {"OK", "BadRequest", "Unauthorized", "Forbidden", "NotFound",
          "Conflict", "Blocked", "Internal"}

ClaimRec == [rel: Rels, status: Statuses, createdAt: Nat, delayEnd: Nat,
             dest: Addresses \cup {NoValue}, rev: Nat,
             canceledAt: Nat \cup {NoValue}, pkg: Nat, keys: Nat,
             tx: Txs \cup {NoValue}]
Notice == [kind: {"PeriodInitiated", "PeriodCompleted", "Canceled"},
           claim: ClaimIds, at: Nat]
Idle == [pc |-> "idle", op |-> "none", claim |-> NoValue, rev |-> 0,
         new |-> NoValue, notes |-> <<>>, resp |-> "none"]

Exists(c) == claims[c] # NoValue
ClaimsOf(r) == {c \in ClaimIds : Exists(c) /\ claims[c].rel = r}
ActiveFor(r) == {c \in ClaimsOf(r) : claims[c].status \in Active}
InFlight == {req[p].claim : p \in Procs}

\* An actor is the benefactor or the beneficiary of some relationship;
\* towards a claim of another relationship it is an external account.
AccountType(r, a) == IF a = "Beneficiary" THEN BeneficiaryType[r] ELSE "Full"
RoleIn(c, r, a) == IF claims[c].rel = r THEN a ELSE "External"

Reply(p, op, code) ==
  /\ req' = [req EXCEPT ![p] = [Idle EXCEPT !.resp = code]]
  /\ UNCHANGED <<claims, packages, notices, broadcasts, env>>

\* Stage the record the handler will write, remembering the revision read.
Stage(p, op, c, pc, new, notes) ==
  /\ Exists(c) => claims[c].rev < MaxRev
  /\ req' = [req EXCEPT ![p] = [pc |-> pc, op |-> op, claim |-> c,
                                rev |-> IF Exists(c) THEN claims[c].rev ELSE 0,
                                new |-> new, notes |-> notes,
                                resp |-> "none"]]
  /\ UNCHANGED <<claims, packages, notices, broadcasts, env>>

-----------------------------------------------------------------------------
(* Request handlers: read, authorize, validate, then reply or stage.      *)

\* Faulty variant: a start that does not look for an active claim.
StartErrorNoActiveCheck(r, a) ==
  CASE AccountType(r, a) = "Lite"             -> "Forbidden"
    [] a # "Beneficiary" \/ ~endorsed[r]      -> "Forbidden"
    [] OTHER                                  -> "Write"

\* start_inheritance_claim_test: a Lite beneficiary gets 403 and an existing
\* active claim 400; only an endorsed relationship's beneficiary may start
\* (spec.md 4.1, no test covers it).
StartError(r, a) ==
  CASE AccountType(r, a) = "Lite"             -> "Forbidden"
    [] a # "Beneficiary" \/ ~endorsed[r]      -> "Forbidden"
    [] ActiveFor(r) # {}                      -> "BadRequest"
    [] OTHER                                  -> "Write"

StartInheritanceClaim(p, r, a) ==
  /\ req[p].pc = "idle"
  /\ \/ /\ StartError(r, a) # "Write"
        /\ Reply(p, "start", StartError(r, a))
     \/ /\ StartError(r, a) = "Write"
        /\ \E c \in ClaimIds \ InFlight :
             /\ ~Exists(c)
             /\ Stage(p, "start", c, "commit",
                      [rel |-> r, status |-> "Pending", createdAt |-> now,
                       delayEnd |-> now + DELAY,
                       dest |-> NoValue, rev |-> 0, canceledAt |-> NoValue,
                       pkg |-> 0, keys |-> 0, tx |-> NoValue],
                      <<[kind |-> "PeriodInitiated", claim |-> c, at |-> now],
                        [kind |-> "PeriodCompleted", claim |-> c, at |-> now + DELAY]>>)

\* Faulty variant: cancel rewrites an already canceled claim.
CancelErrorRewritesCanceled(c, r, a) ==
  CASE AccountType(r, a) = "Lite"             -> "Forbidden"
    [] ~Exists(c)                             -> "NotFound"
    [] RoleIn(c, r, a) = "External"           -> "Unauthorized"
    [] claims[c].status = "Completed"         -> "BadRequest"
    [] OTHER                                  -> "Write"

CancelError(c, r, a) ==
  CASE AccountType(r, a) = "Lite"             -> "Forbidden"
    [] ~Exists(c)                             -> "NotFound"
    [] RoleIn(c, r, a) = "External"           -> "Unauthorized"
    [] claims[c].status = "Canceled"          -> "OK"
    [] claims[c].status = "Completed"         -> "BadRequest"
    [] OTHER                                  -> "Write"

CancelInheritanceClaim(p, c, r, a) ==
  /\ req[p].pc = "idle"
  /\ \/ /\ CancelError(c, r, a) # "Write"
        /\ Reply(p, "cancel", CancelError(c, r, a))
     \/ /\ CancelError(c, r, a) = "Write"
        /\ Stage(p, "cancel", c, "commit",
                 [claims[c] EXCEPT !.status = "Canceled", !.canceledAt = now],
                 <<[kind |-> "Canceled", claim |-> c, at |-> now]>>)

\* Faulty variants: a lock that does not check the status, or the delay.
LockErrorAnyStatus(c, r, a, sigsOk) ==
  CASE AccountType(r, a) = "Lite"             -> "Forbidden"
    [] ~Exists(c)                             -> "NotFound"
    [] RoleIn(c, r, a) # "Beneficiary"        -> "Unauthorized"
    [] now < claims[c].delayEnd               -> "BadRequest"
    [] packages[r] = 0                        -> "BadRequest"
    [] ~sigsOk                                -> "Unauthorized"
    [] OTHER                                  -> "Write"

LockErrorNoDelay(c, r, a, sigsOk) ==
  CASE AccountType(r, a) = "Lite"             -> "Forbidden"
    [] ~Exists(c)                             -> "NotFound"
    [] RoleIn(c, r, a) # "Beneficiary"        -> "Unauthorized"
    [] claims[c].status # "Pending"           -> "BadRequest"
    [] packages[r] = 0                        -> "BadRequest"
    [] ~sigsOk                                -> "Unauthorized"
    [] OTHER                                  -> "Write"

LockError(c, r, a, sigsOk) ==
  CASE AccountType(r, a) = "Lite"             -> "Forbidden"
    [] ~Exists(c)                             -> "NotFound"
    [] RoleIn(c, r, a) # "Beneficiary"        -> "Unauthorized"
    [] claims[c].status # "Pending"           -> "BadRequest"
    [] now < claims[c].delayEnd               -> "BadRequest"
    [] packages[r] = 0                        -> "BadRequest"
    [] ~sigsOk                                -> "Unauthorized"
    [] OTHER                                  -> "Write"

\* sigsOk: both the app and the hardware signature verify over the challenge.
LockInheritanceClaim(p, c, r, a, sigsOk) ==
  /\ req[p].pc = "idle"
  /\ \/ /\ LockError(c, r, a, sigsOk) # "Write"
        /\ Reply(p, "lock", LockError(c, r, a, sigsOk))
     \/ /\ LockError(c, r, a, sigsOk) = "Write"
        /\ Stage(p, "lock", c, "commit",
                 [claims[c] EXCEPT !.status = "Locked", !.pkg = packages[r],
                                   !.keys = keyset[r]], <<>>)

\* Faulty variant: the destination address is not validated.
UpdateErrorNoAddressCheck(c, r, a, d) ==
  CASE AccountType(r, a) = "Lite"             -> "Forbidden"
    [] ~Exists(c)                             -> "NotFound"
    [] RoleIn(c, r, a) # "Beneficiary"        -> "BadRequest"
    [] claims[c].status \notin Active         -> "BadRequest"
    [] OTHER                                  -> "Write"

\* update_inheritance_claim_test, which is #[ignore]d ("not required for
\* V1"): the responses it expects of the update handler.
UpdateError(c, r, a, d) ==
  CASE AccountType(r, a) = "Lite"             -> "Forbidden"
    [] ~Exists(c)                             -> "NotFound"
    [] RoleIn(c, r, a) # "Beneficiary"        -> "BadRequest"
    [] d = BadAddr                            -> "BadRequest"
    [] claims[c].status \notin Active         -> "BadRequest"
    [] OTHER                                  -> "Write"

UpdateInheritanceProcessWithDestination(p, c, r, a, d) ==
  /\ req[p].pc = "idle"
  /\ \/ /\ UpdateError(c, r, a, d) # "Write"
        /\ Reply(p, "update", UpdateError(c, r, a, d))
     \/ /\ UpdateError(c, r, a, d) = "Write"
        /\ Stage(p, "update", c, "commit", [claims[c] EXCEPT !.dest = d], <<>>)

\* A Completed claim may be completed again with a fee-bumped transaction.
CompleteError(c, r, a, tx) ==
  CASE AccountType(r, a) = "Lite"             -> "Forbidden"
    [] ~Exists(c)                             -> "NotFound"
    [] RoleIn(c, r, a) # "Beneficiary"        -> "Unauthorized"
    [] claims[c].status \notin {"Locked", "Completed"} -> "BadRequest"
    [] TxSignedInputs[tx] # 1                 -> "Internal"
    [] TxOutput[tx] \in Blocked               -> "Blocked"
    [] OTHER                                  -> "Write"

CompleteInheritanceClaim(p, c, r, a, tx) ==
  /\ req[p].pc = "idle"
  /\ \/ /\ CompleteError(c, r, a, tx) # "Write"
        /\ Reply(p, "complete", CompleteError(c, r, a, tx))
     \/ /\ CompleteError(c, r, a, tx) = "Write"
        /\ Len(broadcasts) < MaxBroadcasts
        /\ Stage(p, "complete", c, "broadcast",
                 [claims[c] EXCEPT !.status = "Completed", !.tx = tx], <<>>)

\* Faulty variant: a broadcaster error is ignored and the claim written.
BroadcastTransactionIgnoringFailure(p) ==
  /\ req[p].pc = "broadcast"
  /\ \/ /\ broadcasts' = Append(broadcasts, [claim |-> req[p].claim, tx |-> req[p].new.tx])
        /\ req' = [req EXCEPT ![p].pc = "commit"]
        /\ UNCHANGED <<claims, packages, notices, env>>
     \/ /\ req' = [req EXCEPT ![p].pc = "commit"]
        /\ UNCHANGED <<claims, packages, notices, broadcasts, env>>

\* The broadcaster call; a failure is a server error and nothing is written.
BroadcastTransaction(p) ==
  /\ req[p].pc = "broadcast"
  /\ \/ /\ broadcasts' = Append(broadcasts, [claim |-> req[p].claim, tx |-> req[p].new.tx])
        /\ req' = [req EXCEPT ![p].pc = "commit"]
        /\ UNCHANGED <<claims, packages, notices, env>>
     \/ Reply(p, "complete", "Internal")

\* The benefactor uploads the escrow package for relationship s.
UploadInheritancePackages(p, r, s) ==
  /\ req[p].pc = "idle"
  /\ \/ /\ (s # r \/ ~endorsed[s])
        /\ Reply(p, "upload", "BadRequest")
     \/ /\ s = r /\ endorsed[s]
        /\ packages[s] < MaxUploads
        /\ packages' = [packages EXCEPT ![s] = @ + 1]
        /\ req' = [req EXCEPT ![p] = [Idle EXCEPT !.resp = "OK"]]
        /\ UNCHANGED <<claims, notices, broadcasts, env>>

-----------------------------------------------------------------------------
(* The conditional write of the Claim Store.                               *)

\* Faulty variant: an update that overwrites whatever revision is stored.
WriteAllowedIgnoringRevision(p) ==
  IF req[p].op = "start" THEN ~Exists(req[p].claim) ELSE Exists(req[p].claim)

\* A create succeeds if the id is fresh (a put conditioned on the record
\* not existing); an update if the revision is as read (spec.md 4.2).
WriteAllowed(p) ==
  LET q == req[p] IN
  IF q.op = "start"
  THEN ~Exists(q.claim)
  ELSE /\ Exists(q.claim)
       /\ claims[q.claim].rev = q.rev

PersistInheritanceClaim(p) ==
  /\ req[p].pc = "commit"
  /\ \/ /\ WriteAllowed(p)
        /\ claims' = [claims EXCEPT ![req[p].claim] = [req[p].new EXCEPT !.rev = req[p].rev + 1]]
        /\ notices' = notices \o req[p].notes
        /\ req' = [req EXCEPT ![p] = [Idle EXCEPT !.resp = "OK"]]
        /\ UNCHANGED <<packages, broadcasts, env>>
     \/ /\ ~WriteAllowed(p)
        /\ Reply(p, req[p].op, "Conflict")

-----------------------------------------------------------------------------
(* The environment: the relationship registry, key rotation and time.      *)

EndorseRelationship(r) ==
  /\ ~endorsed[r]
  /\ endorsed' = [endorsed EXCEPT ![r] = TRUE]
  /\ UNCHANGED <<claims, packages, keyset, now, req, notices, broadcasts>>

RotateDescriptorKeyset(r) ==
  /\ keyset[r] < MaxKeyRotations
  /\ keyset' = [keyset EXCEPT ![r] = @ + 1]
  /\ UNCHANGED <<claims, endorsed, packages, now, req, notices, broadcasts>>

Tick ==
  /\ now < MaxTime
  /\ now' = now + 1
  /\ UNCHANGED <<claims, endorsed, packages, keyset, req, notices, broadcasts>>

Init ==
  /\ claims = [c \in ClaimIds |-> NoValue]
  /\ endorsed = [r \in Rels |-> FALSE]
  /\ packages = [r \in Rels |-> 0]
  /\ keyset = [r \in Rels |-> 0]
  /\ now = 0
  /\ req = [p \in Procs |-> Idle]
  /\ notices = <<>>
  /\ broadcasts = <<>>

Next ==
  \/ \E p \in Procs :
       \/ \E r \in Rels, a \in Roles :
            \/ StartInheritanceClaim(p, r, a)
            \/ \E c \in ClaimIds :
                 \/ CancelInheritanceClaim(p, c, r, a)
                 \/ \E ok \in BOOLEAN : LockInheritanceClaim(p, c, r, a, ok)
                 \/ \E d \in Addresses \cup {BadAddr} :
                      UpdateInheritanceProcessWithDestination(p, c, r, a, d)
                 \/ \E tx \in Txs : CompleteInheritanceClaim(p, c, r, a, tx)
       \/ \E r, s \in Rels : UploadInheritancePackages(p, r, s)
       \/ BroadcastTransaction(p)
       \/ PersistInheritanceClaim(p)
  \/ \E r \in Rels : EndorseRelationship(r) \/ RotateDescriptorKeyset(r)
  \/ Tick

Spec == Init /\ [][Next]_vars

-----------------------------------------------------------------------------
(* Properties.                                                             *)

TypeOK ==
  /\ claims \in [ClaimIds -> ClaimRec \cup {NoValue}]
  /\ endorsed \in [Rels -> BOOLEAN]
  /\ packages \in [Rels -> 0..MaxUploads]
  /\ keyset \in [Rels -> 0..MaxKeyRotations]
  /\ now \in 0..MaxTime
  /\ \A p \in Procs : /\ req[p].pc \in {"idle", "broadcast", "commit"}
                     /\ req[p].resp \in Codes \cup {"none"}
                     /\ req[p].pc # "idle" => req[p].new \in ClaimRec
  /\ notices \in Seq(Notice)
  /\ broadcasts \in Seq([claim: ClaimIds, tx: Txs])

\* At most one claim per relationship is Pending or Locked (spec.md
\* sections 3 and 8): start refuses while one is active, and no other
\* handler brings a claim back to Pending or Locked.
OneActiveClaimPerRelationship == \A r \in Rels : Cardinality(ActiveFor(r)) <= 1

NoticeCount(k, c) ==
  Cardinality({i \in DOMAIN notices : notices[i].kind = k /\ notices[i].claim = c})

\* The notifications declared match the transitions persisted: every claim
\* created has one "period initiated" and one "period completed" scheduled
\* at its delay end, and a "claim canceled" was declared exactly once for
\* each canceled claim, stamped with its cancellation time - even when the
\* benefactor and the beneficiary cancel at the same time, or a cancel
\* repeats on an already canceled claim.
NoticesMatchLifecycle ==
  \A c \in ClaimIds :
    /\ NoticeCount("PeriodInitiated", c) = IF Exists(c) THEN 1 ELSE 0
    /\ NoticeCount("PeriodCompleted", c) = IF Exists(c) THEN 1 ELSE 0
    /\ NoticeCount("Canceled", c) =
         IF Exists(c) /\ claims[c].status = "Canceled" THEN 1 ELSE 0
    /\ \A i \in DOMAIN notices :
         notices[i].claim = c =>
           CASE notices[i].kind = "PeriodCompleted" -> notices[i].at = claims[c].delayEnd
             [] notices[i].kind = "Canceled"        -> notices[i].at = claims[c].canceledAt
             [] OTHER                               -> TRUE

Forward == {<<"Pending", "Pending">>, <<"Pending", "Locked">>,
            <<"Pending", "Canceled">>, <<"Locked", "Locked">>,
            <<"Locked", "Completed">>, <<"Locked", "Canceled">>,
            <<"Completed", "Completed">>, <<"Canceled", "Canceled">>}

ClaimStep(c) ==
  LET o == claims[c]
      n == claims'[c]
  IN o # NoValue =>
       /\ <<o.status, n.status>> \in Forward
       /\ n.rel = o.rel /\ n.createdAt = o.createdAt /\ n.delayEnd = o.delayEnd
       /\ o.status = "Canceled" => n = o
       /\ o.status = "Completed" => n = [o EXCEPT !.tx = n.tx, !.rev = n.rev]
       /\ o.status = "Locked" => n.pkg = o.pkg /\ n.keys = o.keys
       /\ n.dest # o.dest => o.status \in Active

\* Every write to a stored claim moves its lifecycle forward, never changes
\* its relationship or delay end, never touches a canceled claim, keeps the
\* escrow package and descriptor keyset captured at lock, changes only the
\* transaction of a completed claim (fee bump), and changes the destination
\* only of a Pending or Locked claim.
LifecycleStep == [][\A c \in ClaimIds : ClaimStep(c)]_claims

\* A claim is recorded Completed only with a transaction that was handed
\* to the broadcaster for that claim: a failed broadcast answers 500 and
\* leaves the claim as it was (spec: broadcast failures leave the claim
\* Locked so that completion can be retried), whatever other completes of
\* the same claim do in between.
StoredTxWasBroadcast ==
  \A c \in ClaimIds :
    Exists(c) /\ claims[c].status = "Completed" =>
      \E i \in DOMAIN broadcasts : broadcasts[i] = [claim |-> c, tx |-> claims[c].tx]

\* Funds are swept only for claims that end Completed: no transaction handed
\* to the broadcaster belongs to a claim that is, or later becomes, Canceled
\* (spec: completion gates irreversible fund movement; cancel voids a claim).
SweptClaimNotCanceled ==
  \A i \in DOMAIN broadcasts : claims[broadcasts[i].claim].status # "Canceled"

LastBroadcast(c) ==
  LET is == {i \in DOMAIN broadcasts : broadcasts[i].claim = c}
  IN broadcasts[CHOOSE i \in is : \A j \in is : j <= i].tx

\* Once no request is in flight, a Completed claim stores the transaction
\* broadcast last for it (spec: after a fee-bump re-completion the stored
\* transaction reference reflects the newest transaction).
StoredTxIsNewest ==
  (\A p \in Procs : req[p].pc = "idle") =>
    \A c \in ClaimIds :
      Exists(c) /\ claims[c].status = "Completed" => claims[c].tx = LastBroadcast(c)

Lifecycle == INSTANCE ClaimLifecycle WITH
  status <- [c \in ClaimIds |-> IF Exists(c) THEN claims[c].status ELSE NoValue],
  rel <- [c \in ClaimIds |-> IF Exists(c) THEN claims[c].rel ELSE NoValue],
  createdAt <- [c \in ClaimIds |-> IF Exists(c) THEN claims[c].createdAt ELSE NoValue],
  delayEnd <- [c \in ClaimIds |-> IF Exists(c) THEN claims[c].delayEnd ELSE NoValue]

\* The engine implements the atomic claim lifecycle of ClaimLifecycle.
ImplementsClaimLifecycle == Lifecycle!Spec
=============================================================================
