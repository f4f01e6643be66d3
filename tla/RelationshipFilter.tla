-------------------------- MODULE RelationshipFilter --------------------------
(***************************************************************************)
(* Service::get_recovery_relationships: fetch an account's recovery        *)
(* relationships, in four lists (invitations, endorsed and unendorsed      *)
(* trusted contacts, customers), keep in each list the relationships that  *)
(* have the requested TrustedContactRole (filter_by_role), and convert the *)
(* result into GetRecoveryRelationshipsOutput.  The relationship registry  *)
(* that fills the lists is outside src/ and is modelled from spec.md:      *)
(* invitations are created, accepted, endorsed and deleted, while the      *)
(* endpoint is called.                                                     *)
(***************************************************************************)
EXTENDS Sequences, SequencesExt

CONSTANTS
  Rels,    \* RecoveryRelationship ids
  Roles,   \* TrustedContactRole values
  NoValue

Categories == {"invitations", "endorsed_trusted_contacts",
               "unendorsed_trusted_contacts", "customers"}

VARIABLES
  lists,   \* RecoveryRelationshipsForAccount: [Categories -> Seq(Rels)]
  roles,   \* [Rels -> SUBSET Roles]: the roles a relationship was created
           \* with; {} for an id not yet used (ids are never reused)
  resp     \* the last response: [role, out] or NoValue; out is the
           \* output, or "Err" when the fetch failed

vars == <<lists, roles, resp>>

Listed == UNION {ToSet(lists[k]) : k \in Categories}

\* r.has_role(role)
HasRole(r, role) == role \in roles[r]

\* filter_by_role: relationships.into_iter().filter(has_role).collect()
RECURSIVE FilterByRole(_, _)
FilterByRole(rs, role) ==
  IF rs = <<>> THEN <<>>
  ELSE (IF HasRole(Head(rs), role) THEN <<Head(rs)>> ELSE <<>>) \o FilterByRole(Tail(rs), role)

\* From<RecoveryRelationshipsForAccount> for GetRecoveryRelationshipsOutput.
ToOutput(f) ==
  [invitations                 |-> f.invitations,
   endorsed_trusted_contacts   |-> f.endorsed_trusted_contacts,
   unendorsed_trusted_contacts |-> f.unendorsed_trusted_contacts,
   customers                   |-> f.customers]

\* get_recovery_relationships: one fetch, each list filtered by the role;
\* a repository error is returned by `?` before any filtering.
GetRecoveryRelationships(role) ==
  /\ \/ resp' = [role |-> role,
                  out  |-> ToOutput([k \in Categories |-> FilterByRole(lists[k], role)])]
     \/ resp' = [role |-> role, out |-> "Err"]
  /\ UNCHANGED <<lists, roles>>

\* The registry (spec.md, Relationship registry).
CreateInvitation(r, rs) ==
  /\ roles[r] = {}
  /\ rs # {}
  /\ lists' = [lists EXCEPT !["invitations"] = Append(@, r)]
  /\ roles' = [roles EXCEPT ![r] = rs]
  /\ UNCHANGED resp

AddCustomer(r, rs) ==
  /\ roles[r] = {}
  /\ rs # {}
  /\ lists' = [lists EXCEPT !["customers"] = Append(@, r)]
  /\ roles' = [roles EXCEPT ![r] = rs]
  /\ UNCHANGED resp

Move(r, from, to) ==
  /\ r \in ToSet(lists[from])
  /\ lists' = [lists EXCEPT ![from] = Remove(@, r), ![to] = Append(@, r)]
  /\ UNCHANGED <<roles, resp>>

AcceptInvitation(r) == Move(r, "invitations", "unendorsed_trusted_contacts")

EndorseRelationship(r) == Move(r, "unendorsed_trusted_contacts", "endorsed_trusted_contacts")

DeleteRelationship(r) ==
  /\ r \in Listed
  /\ lists' = [k \in Categories |-> Remove(lists[k], r)]
  /\ UNCHANGED <<roles, resp>>

Init ==
  /\ lists = [k \in Categories |-> <<>>]
  /\ roles = [r \in Rels |-> {}]
  /\ resp = NoValue

Next ==
  \/ \E role \in Roles : GetRecoveryRelationships(role)
  \/ \E r \in Rels :
       \/ \E rs \in SUBSET Roles : CreateInvitation(r, rs) \/ AddCustomer(r, rs)
       \/ AcceptInvitation(r) \/ EndorseRelationship(r) \/ DeleteRelationship(r)

Spec == Init /\ [][Next]_vars
=============================================================================
