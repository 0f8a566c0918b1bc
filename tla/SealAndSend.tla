---------------------------- MODULE SealAndSend ----------------------------
(***************************************************************************)
(* The two human authorizations over one invoice: the approval that seals   *)
(* a frozen recommendation, and the second one that sends correspondence    *)
(* drafted from a seal (authority_seal_repository and                      *)
(* correspondence_repository).                                             *)
(*                                                                         *)
(* Approval, draft and send are SERIALIZABLE transactions.  The send calls  *)
(* the mail provider INSIDE its transaction, so it is split there: the      *)
(* call cannot be rolled back, everything else can.                         *)
(***************************************************************************)
EXTENDS Integers, FiniteSets, Sequences

CONSTANTS
  ApprovalKey,      \* Idempotency-Key headers of approvals
  SendKey,          \* Idempotency-Key headers of sends
  NoDraft,          \* no attempt or open call under a key
  MaxRevisions,     \* bound on the reconstructions of the invoice
  MaxRollbacks      \* bound on the rolled-back send transactions

ASSUME RevisionAssumption == MaxRevisions \in Nat \ {0}

ASSUME RollbackAssumption == MaxRollbacks \in Nat

Version == 1 .. MaxRevisions

ASSUME NoDraftAssumption == NoDraft \notin Version

VARIABLES
  revs,         \* the reconstructions: complete, rule verified, judged
  approvals,    \* approvals by idempotency key: the version, or 0
  seal,         \* decision_seals.revision by version, or 0
  draft,        \* correspondence_drafts.validation_state by sealed version
  attempt,      \* send_attempts by idempotency key
  status,       \* invoices.status: the pipeline's, the sealed outcome, SEND_FAILED
  call,         \* send transactions between provider.send and COMMIT
  mail,         \* history: what the provider delivered, for which key
  rollbacks     \* number of rolled-back sends, for the bound

vars == <<revs, approvals, seal, draft, attempt, status, call, mail, rollbacks>>

Revision == [complete : BOOLEAN, verified : BOOLEAN, judged : BOOLEAN]

Attempt ==
  [draft : Version \cup {NoDraft},
   state : {"NONE", "SENT", "SEND_BLOCKED", "SEND_FAILED_RETRYABLE"}]

Call == [draft : Version \cup {NoDraft}, read : Seq(Revision)]

NoAttempt == [draft |-> NoDraft, state |-> "NONE"]
NoCall == [draft |-> NoDraft, read |-> <<>>]

\* The type invariant of the authorization and correspondence tables.
TypeOK ==
  /\ revs \in Seq(Revision) /\ Len(revs) <= MaxRevisions
  /\ approvals \in [ApprovalKey -> Version \cup {0}]
  /\ seal \in [Version -> Nat]
  /\ draft \in [Version -> {"NONE", "VALIDATED", "INVALID"}]
  /\ attempt \in [SendKey -> Attempt]
  /\ status \in {"PIPELINE", "OUTCOME", "SEND_FAILED"}
  /\ call \in [SendKey -> Call]
  /\ mail \in Seq([key : SendKey, draft : Version])
  /\ rollbacks \in Nat

Init ==
  /\ revs = <<>>
  /\ approvals = [k \in ApprovalKey |-> 0]
  /\ seal = [v \in Version |-> 0]
  /\ draft = [v \in Version |-> "NONE"]
  /\ attempt = [k \in SendKey |-> NoAttempt]
  /\ status = "PIPELINE"
  /\ call = [k \in SendKey |-> NoCall]
  /\ mail = <<>>
  /\ rollbacks = 0

authority == <<approvals, seal>>
sending == <<draft, attempt, call, mail, rollbacks>>

-----------------------------------------------------------------------------
\* complete_reconstruction, as far as the gates can see it.
Reconstruct(complete) ==
  /\ Len(revs) < MaxRevisions
  /\ revs' = Append(revs, [complete |-> complete, verified |-> FALSE, judged |-> FALSE])
  /\ status' = "PIPELINE"
  /\ UNCHANGED <<authority, sending>>

\* complete_rule: an applicable_rules row exists only for a verified rule.
FindRule(v) ==
  /\ v <= Len(revs)
  /\ ~revs[v].judged /\ ~revs[v].verified
  /\ revs' = [revs EXCEPT ![v].verified = TRUE]
  /\ status' = "PIPELINE"
  /\ UNCHANGED <<authority, sending>>

\* complete_judgment: a version without a rule is judged only when its
\* reconstruction is complete.  The recommendation is FROZEN from the start.
Freeze(v) ==
  /\ v <= Len(revs)
  /\ ~revs[v].judged
  /\ revs[v].verified \/ revs[v].complete
  /\ revs' = [revs EXCEPT ![v].judged = TRUE]
  /\ status' = "PIPELINE"
  /\ UNCHANGED <<authority, sending>>

Sealed == {v \in Version : seal[v] > 0}

\* Nothing forbids a second approval of one recommendation.
ApproveAgain(k, v) ==
  /\ v <= Len(revs) /\ revs[v].judged
  /\ approvals[k] = 0
  /\ approvals' = [approvals EXCEPT ![k] = v]
  /\ seal' = [seal EXCEPT ![v] = IF @ > 0 THEN @ ELSE Cardinality(Sealed) + 1]
  /\ status' = "OUTCOME"
  /\ UNCHANGED <<revs, sending>>

\* A key that was used is bound to the new request.
ApproveRebinds(k, v) ==
  /\ v <= Len(revs) /\ revs[v].judged
  /\ v \notin Sealed
  /\ approvals' = [approvals EXCEPT ![k] = v]
  /\ seal' = [seal EXCEPT ![v] = Cardinality(Sealed) + 1]
  /\ status' = "OUTCOME"
  /\ UNCHANGED <<revs, sending>>

\* approve_and_seal: of a frozen recommendation, under a fresh key.  A used
\* key is replayed or refused without a change, and a second approval of one
\* recommendation fails on approval_active_idx.  _next_revision numbers the
\* seals of the invoice.
Approve(k, v) ==
  /\ v <= Len(revs) /\ revs[v].judged
  /\ approvals[k] = 0
  /\ \A j \in ApprovalKey : approvals[j] # v
  /\ approvals' = [approvals EXCEPT ![k] = v]
  /\ seal' = [seal EXCEPT ![v] = Cardinality(Sealed) + 1]
  /\ status' = "OUTCOME"
  /\ UNCHANGED <<revs, sending>>

-----------------------------------------------------------------------------
\* draft_from_sealed: once per seal.  The route reads the newest seal before
\* the model writes the prose, so any seal may turn out to be drafted.  The
\* draft is INVALID when the prose states a fact the seal does not support.
Draft(v, ok) ==
  /\ v \in Sealed
  /\ draft[v] = "NONE"
  /\ draft' = [draft EXCEPT ![v] = IF ok THEN "VALIDATED" ELSE "INVALID"]
  /\ UNCHANGED <<revs, authority, attempt, status, call, mail, rollbacks>>

\* The locked fields gate is skipped.
GatesOpenUnlocked(v) ==
  /\ revs[Len(revs)].complete
  /\ \E u \in 1 .. Len(revs) : revs[u].verified

\* The memory gate looks at the sealed version's rule only.
GatesOpenNoMemory(v) == draft[v] = "VALIDATED" /\ revs[v].verified

\* The six gates, read in the send transaction: the draft is valid, the NEWEST
\* reconstruction is complete, and the invoice has SOME applicable rule.  The
\* others hold for every received invoice and authenticated actor.
GatesOpen(v) ==
  /\ draft[v] = "VALIDATED"
  /\ revs[Len(revs)].complete
  /\ \E u \in 1 .. Len(revs) : revs[u].verified

\* A send can start: its key is fresh and no other transaction has locked the
\* draft.  The newest draft was looked up earlier; any draft may be the one.
CanSend(k, v) ==
  /\ draft[v] # "NONE"
  /\ attempt[k] = NoAttempt
  /\ call[k] = NoCall
  /\ \A j \in SendKey : call[j].draft # v

Record(k, v, st) == attempt' = [attempt EXCEPT ![k] = [draft |-> v, state |-> st]]

\* approve_and_send, a gate is closed: the attempt is kept, nothing is sent.
SendBlocked(k, v) ==
  /\ CanSend(k, v)
  /\ ~GatesOpen(v)
  /\ Record(k, v, "SEND_BLOCKED")
  /\ status' = "SEND_FAILED"
  /\ UNCHANGED <<revs, authority, draft, call, mail, rollbacks>>

\* The provider refuses: the key is used up although the state says retryable.
SendRefused(k, v) ==
  /\ CanSend(k, v)
  /\ GatesOpen(v)
  /\ Record(k, v, "SEND_FAILED_RETRYABLE")
  /\ status' = "SEND_FAILED"
  /\ UNCHANGED <<revs, authority, draft, call, mail, rollbacks>>

\* The provider delivers, under a provider key made for this execution of the
\* transaction; nothing of it is committed yet.
ProviderDelivers(k, v) ==
  /\ CanSend(k, v)
  /\ GatesOpen(v)
  /\ mail' = Append(mail, [key |-> k, draft |-> v])
  /\ call' = [call EXCEPT ![k] = [draft |-> v, read |-> revs]]
  /\ UNCHANGED <<revs, authority, draft, attempt, status, rollbacks>>

\* COMMIT of the send: SERIALIZABLE only while the rows the gates read are as
\* they were.  The invoice keeps the status it has.
CommitSend(k) ==
  /\ call[k] # NoCall
  /\ call[k].read = revs
  /\ Record(k, call[k].draft, "SENT")
  /\ call' = [call EXCEPT ![k] = NoCall]
  /\ UNCHANGED <<revs, authority, draft, status, mail, rollbacks>>

\* SQLSTATE 40001, after which run_with_retry runs the function again from
\* scratch, or a crash, after which the client may repeat the request.
RollbackSend(k) ==
  /\ call[k] # NoCall
  /\ rollbacks < MaxRollbacks
  /\ call' = [call EXCEPT ![k] = NoCall]
  /\ rollbacks' = rollbacks + 1
  /\ UNCHANGED <<revs, authority, draft, attempt, status, mail>>

Next ==
  \/ \E complete \in BOOLEAN : Reconstruct(complete)
  \/ \E v \in Version : FindRule(v) \/ Freeze(v) \/ \E ok \in BOOLEAN : Draft(v, ok)
  \/ \E k \in ApprovalKey, v \in Version : Approve(k, v)
  \/ \E k \in SendKey, v \in Version :
       SendBlocked(k, v) \/ SendRefused(k, v) \/ ProviderDelivers(k, v)
  \/ \E k \in SendKey : CommitSend(k) \/ RollbackSend(k)

Spec == Init /\ [][Next]_vars

-----------------------------------------------------------------------------
\* Properties.

\* Every seal has exactly one approval behind it and every approval its seal,
\* and the revisions of an invoice's seals are 1, 2, ... without a gap.
SealsMatchApprovals ==
  /\ \A v \in Version :
       Cardinality({k \in ApprovalKey : approvals[k] = v}) = IF seal[v] > 0 THEN 1 ELSE 0
  /\ {seal[v] : v \in Sealed} = 1 .. Cardinality(Sealed)

\* "Sealed records are never edited in place", and a repeated request is
\* answered from the first one: approvals, seals, drafts and send attempts
\* never change once they exist.
RecordsFinal ==
  [][/\ \A k \in ApprovalKey : approvals[k] # 0 => approvals'[k] = approvals[k]
     /\ \A v \in Version : seal[v] # 0 => seal'[v] = seal[v]
     /\ \A v \in Version : draft[v] # "NONE" => draft'[v] = draft[v]
     /\ \A k \in SendKey : attempt[k] # NoAttempt => attempt'[k] = attempt[k]]_vars

\* What was mailed, committed or not, was drafted from a seal and validated,
\* and an attempt that says SENT was really delivered.
DeliveryIsAuthorized ==
  /\ \A n \in 1 .. Len(mail) : mail[n].draft \in Sealed /\ draft[mail[n].draft] = "VALIDATED"
  /\ \A k \in SendKey : attempt[k].state = "SENT" =>
       \E n \in 1 .. Len(mail) : mail[n] = [key |-> k, draft |-> attempt[k].draft]

\* When a send is recorded, the memory behind the invoice is complete at that
\* very moment, although the provider was called in between.
SentOnCompleteMemory ==
  [][\A k \in SendKey :
       attempt[k].state # "SENT" /\ attempt'[k].state = "SENT"
         => revs[Len(revs)].complete]_vars

\* correspondence_repository.py: "a retry never duplicates delivery".
DeliveredOncePerKey ==
  \A m, n \in 1 .. Len(mail) : mail[m].key = mail[n].key => m = n

=============================================================================
