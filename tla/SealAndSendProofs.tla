------------------------- MODULE SealAndSendProofs -------------------------
(***************************************************************************)
(* Proofs about SealAndSend, for any keys and any number of revisions and   *)
(* rollbacks: seals match approvals, records are final, what is mailed is   *)
(* authorized, and a recorded send rests on complete memory.                *)
(***************************************************************************)
EXTENDS SealAndSend, FiniteSetTheorems, SequenceTheorems, TLAPS

USE RevisionAssumption, RollbackAssumption, NoDraftAssumption

\* Only sealed versions are drafted.
DraftInv == \A v \in Version : draft[v] # "NONE" => v \in Sealed

\* A send between the provider's delivery and its COMMIT: its key has no
\* record, its draft is valid, the mail is out, the memory it read complete.
CallInv ==
  \A k \in SendKey : call[k] # NoCall =>
    /\ attempt[k] = NoAttempt
    /\ call[k].draft \in Version
    /\ draft[call[k].draft] = "VALIDATED"
    /\ \E n \in 1 .. Len(mail) : mail[n] = [key |-> k, draft |-> call[k].draft]
    /\ call[k].read[Len(call[k].read)].complete

IInv == TypeOK /\ SealsMatchApprovals /\ DraftInv /\ CallInv /\ DeliveryIsAuthorized

-----------------------------------------------------------------------------
\* Replacing an element of a sequence leaves a sequence of the same length.
LEMMA SetElement ==
  ASSUME NEW S, NEW s \in Seq(S), NEW n, NEW e \in S
  PROVE  /\ [s EXCEPT ![n] = e] \in Seq(S)
         /\ Len([s EXCEPT ![n] = e]) = Len(s)
<1> DEFINE r == [s EXCEPT ![n] = e]
<1>1. s \in [1 .. Len(s) -> S] /\ Len(s) \in Nat
  BY LenProperties
<1>2. r \in [1 .. Len(s) -> S]
  BY <1>1
<1>3. QED
  BY <1>1, <1>2, SeqDef

\* Nothing is sealed, drafted or sent in the beginning.
LEMMA InitIInv == Init => IInv
<1> SUFFICES ASSUME Init PROVE IInv
  OBVIOUS
<1> USE DEF Init, NoAttempt, NoCall
<1>1. TypeOK
  BY DEF TypeOK, Attempt, Call, Revision
<1>2. Sealed = {}
  BY DEF Sealed
<1>3. SealsMatchApprovals
  <2>1. ASSUME NEW v \in Version
        PROVE  Cardinality({k \in ApprovalKey : approvals[k] = v})
                 = IF seal[v] > 0 THEN 1 ELSE 0
    <3>1. {k \in ApprovalKey : approvals[k] = v} = {}
      BY DEF Version
    <3>2. Cardinality({k \in ApprovalKey : approvals[k] = v}) = 0
      BY <3>1, FS_EmptySet
    <3>3. seal[v] = 0
      OBVIOUS
    <3>4. QED
      BY <3>2, <3>3
  <2>3. Cardinality(Sealed) = 0 /\ Cardinality({}) = 0
    BY <1>2, FS_EmptySet
  <2>4. {seal[v] : v \in Sealed} = {}
    BY <1>2
  <2>5. 1 .. 0 = {}
    OBVIOUS
  <2>6. {seal[v] : v \in Sealed} = 1 .. Cardinality(Sealed)
    BY <2>3, <2>4, <2>5
  <2>7. QED
    BY <2>1, <2>6 DEF SealsMatchApprovals
<1>4. DraftInv /\ CallInv /\ DeliveryIsAuthorized
  BY DEF DraftInv, CallInv, DeliveryIsAuthorized
<1>5. QED
  BY <1>1, <1>3, <1>4 DEF IInv

\* An approval finds its version unsealed and gives it the next number.
LEMMA ApproveSeals ==
  ASSUME TypeOK, SealsMatchApprovals, NEW k \in ApprovalKey, NEW v \in Version,
         Approve(k, v)
  PROVE  /\ seal[v] = 0
         /\ Cardinality(Sealed) \in Nat
         /\ IsFiniteSet(Sealed)
         /\ seal' = [seal EXCEPT ![v] = Cardinality(Sealed) + 1]
         /\ Sealed' = Sealed \cup {v}
<1>1. seal[v] = 0
  <2>1. {j \in ApprovalKey : approvals[j] = v} = {}
    BY DEF Approve
  <2>2. Cardinality({j \in ApprovalKey : approvals[j] = v}) = 0
    BY <2>1, FS_EmptySet
  <2>3. Cardinality({j \in ApprovalKey : approvals[j] = v})
          = IF seal[v] > 0 THEN 1 ELSE 0
    BY DEF SealsMatchApprovals
  <2>4. seal[v] \in Nat
    BY DEF TypeOK
  <2>5. QED
    BY ONLY <2>2, <2>3, <2>4
<1>2. IsFiniteSet(Sealed) /\ Cardinality(Sealed) \in Nat
  <2>1. IsFiniteSet(Version)
    <3>1. 1 \in Int /\ MaxRevisions \in Int
      OBVIOUS
    <3>2. QED
      BY ONLY <3>1, FS_Interval DEF Version
  <2>2. Sealed \in SUBSET Version
    BY DEF Sealed
  <2>3. QED
    BY <2>1, <2>2, FS_Subset, FS_CardinalityType
<1>3. seal' = [seal EXCEPT ![v] = Cardinality(Sealed) + 1]
  BY DEF Approve
<1>4. Sealed' = Sealed \cup {v}
  <2>1. \A u \in Version : seal'[u] > 0 <=> u = v \/ seal[u] > 0
    BY <1>2, <1>3 DEF TypeOK
  <2>2. QED
    BY <2>1 DEF Sealed
<1>5. QED
  BY <1>1, <1>2, <1>3, <1>4

\* Seals and approvals stay in step.
LEMMA NextSeals == IInv /\ [Next]_vars => SealsMatchApprovals'
<1> SUFFICES ASSUME IInv, [Next]_vars PROVE SealsMatchApprovals'
  OBVIOUS
<1>1. CASE UNCHANGED authority
  <2>1. Sealed' = Sealed /\ approvals' = approvals /\ seal' = seal
    BY <1>1 DEF authority, Sealed
  <2>2. QED
    BY <2>1 DEF IInv, SealsMatchApprovals
<1>2. ASSUME NEW k \in ApprovalKey, NEW v \in Version, Approve(k, v)
      PROVE  SealsMatchApprovals'
  <2> DEFINE n == Cardinality(Sealed)
             By(u) == {j \in ApprovalKey : approvals[j] = u}
  <2> USE DEF IInv, TypeOK
  <2>1. /\ seal[v] = 0 /\ n \in Nat /\ IsFiniteSet(Sealed)
        /\ seal' = [seal EXCEPT ![v] = n + 1] /\ Sealed' = Sealed \cup {v}
    BY <1>2, ApproveSeals
  <2>2. v \notin Sealed
    BY <2>1 DEF Sealed
  <2>3. Cardinality(Sealed') = n + 1
    BY <2>1, <2>2, FS_AddElement
  <2>4. ASSUME NEW u \in Version
        PROVE  Cardinality(By(u)') = IF seal'[u] > 0 THEN 1 ELSE 0
    <3>1. CASE u = v
      <4>1. By(u)' = {k}
        BY <1>2, <3>1 DEF Approve, Version
      <4>2. seal'[u] > 0
        BY <2>1, <3>1
      <4>3. QED
        BY <4>1, <4>2, FS_Singleton
    <3>2. CASE u # v
      <4>1. By(u)' = By(u)
        BY <1>2, <3>2 DEF Approve, Version
      <4>2. seal'[u] = seal[u]
        BY <2>1, <3>2
      <4>3. QED
        BY <4>1, <4>2 DEF SealsMatchApprovals
    <3>3. QED
      BY <3>1, <3>2
  <2>5. {seal'[u] : u \in Sealed'} = {seal[u] : u \in Sealed} \cup {n + 1}
    <3>1. \A u \in Sealed : u \in Version /\ seal'[u] = seal[u]
      BY <2>1, <2>2 DEF Sealed
    <3>2. seal'[v] = n + 1
      BY <2>1
    <3>3. QED
      BY <2>1, <3>1, <3>2
  <2>6. 1 .. (n + 1) = (1 .. n) \cup {n + 1}
    BY <2>1
  <2>7. {seal'[u] : u \in Sealed'} = 1 .. Cardinality(Sealed')
    BY <2>3, <2>5, <2>6 DEF SealsMatchApprovals
  <2>8. QED
    BY <2>4, <2>7 DEF SealsMatchApprovals
<1>3. QED
  BY <1>1, <1>2 DEF Next, vars, authority, Reconstruct, FindRule, Freeze, Draft,
     SendBlocked, SendRefused, ProviderDelivers, CommitSend, RollbackSend

\* The tables, the open calls and the history are well typed.
LEMMA NextTypeOK == IInv /\ [Next]_vars => TypeOK'
<1> SUFFICES ASSUME IInv, [Next]_vars PROVE TypeOK'
  OBVIOUS
<1> USE DEF IInv, TypeOK, Revision, Attempt, Call, NoAttempt, NoCall, authority, sending
<1>1. ASSUME NEW complete \in BOOLEAN, Reconstruct(complete) PROVE TypeOK'
  <2>1. PICK r \in Revision : revs' = Append(revs, r)
    BY <1>1 DEF Reconstruct
  <2>2. revs' \in Seq(Revision) /\ Len(revs') = Len(revs) + 1
    BY ONLY <2>1, revs \in Seq(Revision), AppendProperties
  <2>3. QED
    BY <1>1, <2>2 DEF Reconstruct
<1>2. ASSUME NEW v \in Version, FindRule(v) \/ Freeze(v) PROVE TypeOK'
  <2>1. revs[v] \in Revision
    <3>1. v \in 1 .. Len(revs)
      BY <1>2 DEF FindRule, Freeze, Version
    <3>2. QED
      BY ONLY <3>1, revs \in Seq(Revision), ElementOfSeq
  <2>2. revs' \in Seq(Revision) /\ Len(revs') = Len(revs)
    <3>1. PICK r \in Revision : revs' = [revs EXCEPT ![v] = r]
      <4>1. CASE FindRule(v)
        <5>1. [revs[v] EXCEPT !.verified = TRUE] \in Revision
          BY <2>1
        <5>2. revs' = [revs EXCEPT ![v] = [revs[v] EXCEPT !.verified = TRUE]]
          BY <4>1 DEF FindRule
        <5>3. QED
          BY <5>1, <5>2
      <4>2. CASE Freeze(v)
        <5>1. [revs[v] EXCEPT !.judged = TRUE] \in Revision
          BY <2>1
        <5>2. revs' = [revs EXCEPT ![v] = [revs[v] EXCEPT !.judged = TRUE]]
          BY <4>2 DEF Freeze
        <5>3. QED
          BY <5>1, <5>2
      <4>3. QED
        BY <1>2, <4>1, <4>2
    <3>2. QED
      BY ONLY <3>1, revs \in Seq(Revision), SetElement, SMTT(20)
  <2>3. QED
    BY <1>2, <2>2 DEF FindRule, Freeze
<1>3. ASSUME NEW v \in Version, NEW ok \in BOOLEAN, Draft(v, ok) PROVE TypeOK'
  BY <1>3 DEF Draft
<1>4. ASSUME NEW k \in ApprovalKey, NEW v \in Version, Approve(k, v) PROVE TypeOK'
  <2>1. seal' \in [Version -> Nat]
    BY <1>4, ApproveSeals
  <2>2. QED
    BY <1>4, <2>1 DEF Approve
<1>5. ASSUME NEW k \in SendKey, NEW v \in Version, SendBlocked(k, v) \/ SendRefused(k, v)
      PROVE  TypeOK'
  <2>1. PICK a \in Attempt : attempt' = [attempt EXCEPT ![k] = a]
    BY <1>5 DEF SendBlocked, SendRefused, Record
  <2>2. QED
    BY <1>5, <2>1 DEF SendBlocked, SendRefused
<1>6. ASSUME NEW k \in SendKey, NEW v \in Version, ProviderDelivers(k, v) PROVE TypeOK'
  <2>1. [key |-> k, draft |-> v] \in [key : SendKey, draft : Version]
    OBVIOUS
  <2>2. mail' = Append(mail, [key |-> k, draft |-> v])
    BY <1>6 DEF ProviderDelivers
  <2>3. mail' \in Seq([key : SendKey, draft : Version])
    BY ONLY <2>1, <2>2, mail \in Seq([key : SendKey, draft : Version]), AppendProperties
  <2>4. call' \in [SendKey -> Call]
    BY <1>6 DEF ProviderDelivers
  <2>5. QED
    BY <1>6, <2>3, <2>4 DEF ProviderDelivers
<1>7. ASSUME NEW k \in SendKey, CommitSend(k) \/ RollbackSend(k) PROVE TypeOK'
  <2>1. NoCall \in Call
    OBVIOUS
  <2>2. call' = [call EXCEPT ![k] = NoCall]
    BY <1>7 DEF CommitSend, RollbackSend
  <2>3. call' \in [SendKey -> Call]
    BY ONLY <2>1, <2>2, call \in [SendKey -> Call]
  <2>4. call[k].draft \in Version \cup {NoDraft}
    OBVIOUS
  <2>5. attempt' \in [SendKey -> Attempt]
    <3>1. [draft |-> call[k].draft, state |-> "SENT"] \in Attempt
      BY <2>4
    <3>2. attempt' = attempt
            \/ attempt' = [attempt EXCEPT ![k] = [draft |-> call[k].draft, state |-> "SENT"]]
      BY <1>7 DEF CommitSend, RollbackSend, Record
    <3>3. QED
      BY ONLY <3>1, <3>2, attempt \in [SendKey -> Attempt]
  <2>6. rollbacks' \in Nat
    BY <1>7 DEF CommitSend, RollbackSend
  <2>7. UNCHANGED <<revs, approvals, seal, draft, status, mail>>
    BY <1>7 DEF CommitSend, RollbackSend
  <2>8. QED
    BY ONLY <2>3, <2>5, <2>6, <2>7, TypeOK DEF TypeOK
<1>8. CASE UNCHANGED vars
  BY <1>8 DEF vars
<1>9. QED
  BY <1>1, <1>2, <1>3, <1>4, <1>5, <1>6, <1>7, <1>8 DEF Next

-----------------------------------------------------------------------------
\* What one step may do to seals, drafts and mail: nothing is withdrawn.
LEMMA Monotone ==
  ASSUME IInv, [Next]_vars
  PROVE  /\ \A v \in Version : seal[v] # 0 => seal'[v] = seal[v]
         /\ Sealed \subseteq Sealed'
         /\ \A v \in Version : draft[v] # "NONE" => draft'[v] = draft[v]
         /\ Len(mail) <= Len(mail') /\ Len(mail) \in Nat
         /\ \A n \in 1 .. Len(mail) : mail'[n] = mail[n]
<1> USE DEF IInv, TypeOK
<1>1. \A v \in Version : seal[v] # 0 => seal'[v] = seal[v]
  <2>1. ASSUME NEW k \in ApprovalKey, NEW u \in Version, Approve(k, u)
        PROVE  \A v \in Version : seal[v] # 0 => seal'[v] = seal[v]
    BY <2>1, ApproveSeals
  <2>2. CASE UNCHANGED seal
    BY <2>2
  <2>3. QED
    BY <2>1, <2>2 DEF Next, vars, authority, Reconstruct, FindRule, Freeze, Draft,
       SendBlocked, SendRefused, ProviderDelivers, CommitSend, RollbackSend
<1>2. Sealed \subseteq Sealed'
  <2>1. ASSUME NEW v \in Version, seal[v] > 0 PROVE seal'[v] > 0
    <3>1. seal[v] \in Nat
      OBVIOUS
    <3>2. seal[v] # 0
      BY ONLY <3>1, <2>1
    <3>3. seal'[v] = seal[v]
      BY <1>1, <3>2
    <3>4. QED
      BY ONLY <2>1, <3>3
  <2>2. QED
    BY ONLY <2>1 DEF Sealed
<1>3. \A v \in Version : draft[v] # "NONE" => draft'[v] = draft[v]
  <2>1. CASE \E v \in Version, ok \in BOOLEAN : Draft(v, ok)
    BY <2>1 DEF Draft
  <2>2. CASE UNCHANGED draft
    BY <2>2
  <2>3. QED
    BY <2>1, <2>2 DEF Next, vars, sending, Reconstruct, FindRule, Freeze, Approve,
       SendBlocked, SendRefused, ProviderDelivers, CommitSend, RollbackSend
<1>4. /\ Len(mail) <= Len(mail') /\ Len(mail) \in Nat
      /\ \A n \in 1 .. Len(mail) : mail'[n] = mail[n]
  <2> DEFINE M == [key : SendKey, draft : Version]
  <2>1. mail \in Seq(M) /\ Len(mail) \in Nat
    BY LenProperties
  <2>2. ASSUME NEW k \in SendKey, NEW v \in Version, ProviderDelivers(k, v)
        PROVE  <1>4
    <3>1. [key |-> k, draft |-> v] \in M /\ mail' = Append(mail, [key |-> k, draft |-> v])
      BY <2>2 DEF ProviderDelivers
    <3>2. Len(mail') = Len(mail) + 1 /\ \A n \in 1 .. Len(mail) : mail'[n] = mail[n]
      BY ONLY <2>1, <3>1, AppendProperties
    <3>3. QED
      BY <2>1, <3>2
  <2>3. CASE UNCHANGED mail
    BY <2>1, <2>3
  <2>4. QED
    BY <2>2, <2>3 DEF Next, vars, sending, Reconstruct, FindRule, Freeze, Approve,
       Draft, SendBlocked, SendRefused, CommitSend, RollbackSend
<1>5. QED
  BY <1>1, <1>2, <1>3, <1>4

\* A draft is made of a sealed version.
LEMMA NextDraft == IInv /\ [Next]_vars => DraftInv'
<1> SUFFICES ASSUME IInv, [Next]_vars, NEW v \in Version, draft'[v] # "NONE"
             PROVE  v \in Sealed'
  BY DEF DraftInv
<1>1. v \in Sealed
  <2>1. CASE draft[v] # "NONE"
    BY <2>1 DEF IInv, DraftInv
  <2>2. CASE draft[v] = "NONE"
    BY <2>2 DEF IInv, TypeOK, Next, vars, sending, Reconstruct, FindRule, Freeze,
       Approve, Draft, SendBlocked, SendRefused, ProviderDelivers, CommitSend,
       RollbackSend
  <2>3. QED
    BY <2>1, <2>2
<1>2. QED
  BY <1>1, Monotone

\* An open call keeps everything it rests on until it commits or is undone.
LEMMA NextCall == IInv /\ [Next]_vars => CallInv'
<1> SUFFICES ASSUME IInv, [Next]_vars, NEW k \in SendKey, call'[k] # NoCall
             PROVE  /\ attempt'[k] = NoAttempt
                    /\ call'[k].draft \in Version
                    /\ draft'[call'[k].draft] = "VALIDATED"
                    /\ \E n \in 1 .. Len(mail') :
                         mail'[n] = [key |-> k, draft |-> call'[k].draft]
                    /\ call'[k].read[Len(call'[k].read)].complete
  BY DEF CallInv
<1> USE DEF IInv, TypeOK
<1>1. CASE call'[k] = call[k]
  <2>1. attempt'[k] = attempt[k]
    BY <1>1 DEF Next, vars, sending, Reconstruct, FindRule, Freeze, Approve,
       Draft, SendBlocked, SendRefused, CanSend, ProviderDelivers, CommitSend,
       RollbackSend, Record
  <2>2. /\ attempt[k] = NoAttempt /\ call[k].draft \in Version
        /\ draft[call[k].draft] = "VALIDATED"
        /\ \E n \in 1 .. Len(mail) : mail[n] = [key |-> k, draft |-> call[k].draft]
        /\ call[k].read[Len(call[k].read)].complete
    BY <1>1 DEF CallInv
  <2>3. draft'[call[k].draft] = "VALIDATED"
    BY <2>2, Monotone
  <2>4. \E n \in 1 .. Len(mail') : mail'[n] = [key |-> k, draft |-> call[k].draft]
    <3>1. PICK n \in 1 .. Len(mail) : mail[n] = [key |-> k, draft |-> call[k].draft]
      BY <2>2
    <3>2. Len(mail) <= Len(mail') /\ mail'[n] = mail[n] /\ Len(mail) \in Nat
      BY Monotone
    <3>3. Len(mail') \in Nat
      BY NextTypeOK, LenProperties
    <3>4. QED
      BY <3>1, <3>2, <3>3
  <2>5. QED
    BY <1>1, <2>1, <2>2, <2>3, <2>4
<1>2. CASE call'[k] # call[k]
  <2>1. PICK v \in Version : ProviderDelivers(k, v)
    BY <1>2 DEF Next, vars, sending, Reconstruct, FindRule, Freeze, Approve,
       Draft, SendBlocked, SendRefused, ProviderDelivers, CommitSend, RollbackSend
  <2>2. /\ call'[k].draft = v /\ call'[k].read = revs
        /\ attempt'[k] = NoAttempt
        /\ draft'[v] = "VALIDATED"
        /\ revs[Len(revs)].complete
    BY <2>1 DEF ProviderDelivers, CanSend, GatesOpen
  <2>3. mail' = Append(mail, [key |-> k, draft |-> v])
    BY <2>1 DEF ProviderDelivers
  <2>4. Len(mail') \in 1 .. Len(mail') /\ mail'[Len(mail')] = [key |-> k, draft |-> v]
    <3>1. [key |-> k, draft |-> v] \in [key : SendKey, draft : Version]
      OBVIOUS
    <3>2. Len(mail') = Len(mail) + 1 /\ mail'[Len(mail) + 1] = [key |-> k, draft |-> v]
      BY ONLY <2>3, <3>1, mail \in Seq([key : SendKey, draft : Version]), AppendProperties
    <3>3. Len(mail) \in Nat
      BY LenProperties
    <3>4. QED
      BY ONLY <3>2, <3>3
  <2>5. QED
    BY <2>2, <2>4
<1>3. QED
  BY <1>1, <1>2

\* Only the COMMIT of a send records SENT.
LEMMA SentByCommit ==
  ASSUME TypeOK, [Next]_vars, NEW k \in SendKey,
         attempt'[k] # attempt[k], attempt'[k].state = "SENT"
  PROVE  CommitSend(k)
<1>1. attempt \in [SendKey -> Attempt]
  BY DEF TypeOK
<1>2. ASSUME NEW j \in SendKey, NEW v \in Version, SendBlocked(j, v) \/ SendRefused(j, v)
      PROVE  FALSE
  <2>1. PICK st \in {"SEND_BLOCKED", "SEND_FAILED_RETRYABLE"} :
          attempt' = [attempt EXCEPT ![j] = [draft |-> v, state |-> st]]
    BY <1>2 DEF SendBlocked, SendRefused, Record
  <2>2. CASE j = k
    <3>1. attempt'[k] = [draft |-> v, state |-> st]
      BY ONLY <1>1, <2>1, <2>2, k \in SendKey
    <3>2. QED
      BY <3>1
  <2>3. CASE j # k
    BY ONLY <1>1, <2>1, <2>3, k \in SendKey, attempt'[k] # attempt[k]
  <2>4. QED
    BY <2>2, <2>3
<1>3. ASSUME NEW j \in SendKey, CommitSend(j) PROVE j = k
  BY <1>1, <1>3 DEF CommitSend, Record
<1>4. CASE UNCHANGED attempt
  BY <1>4
<1>5. QED
  BY <1>2, <1>3, <1>4 DEF Next, vars, sending, Reconstruct, FindRule, Freeze, Approve,
     Draft, ProviderDelivers, RollbackSend

\* What the provider delivered stays authorized, and SENT stays true.
LEMMA NextDelivery == IInv /\ [Next]_vars => DeliveryIsAuthorized'
<1> SUFFICES ASSUME IInv, [Next]_vars PROVE DeliveryIsAuthorized'
  OBVIOUS
<1> USE DEF IInv
<1> DEFINE M == [key : SendKey, draft : Version]
<1>1. mail \in Seq(M) /\ Len(mail) \in Nat /\ Len(mail') \in Nat
  BY NextTypeOK, LenProperties DEF TypeOK
<1>2. ASSUME NEW n \in 1 .. Len(mail')
      PROVE  mail'[n].draft \in Sealed' /\ draft'[mail'[n].draft] = "VALIDATED"
  <2>1. ASSUME NEW v \in Sealed, draft[v] = "VALIDATED"
        PROVE  v \in Sealed' /\ draft'[v] = "VALIDATED"
    BY <2>1, Monotone DEF Sealed
  <2>2. CASE n \in 1 .. Len(mail)
    <3>1. mail'[n] = mail[n]
      BY <2>2, Monotone
    <3>2. mail[n].draft \in Sealed /\ draft[mail[n].draft] = "VALIDATED"
      BY <2>2 DEF DeliveryIsAuthorized
    <3>3. QED
      BY <2>1, <3>1, <3>2
  <2>3. CASE n \notin 1 .. Len(mail)
    <3>1. mail' # mail
      BY <2>3
    <3>2. PICK k \in SendKey, v \in Version : ProviderDelivers(k, v)
      BY <3>1 DEF Next, vars, sending, Reconstruct, FindRule, Freeze, Approve, Draft,
         SendBlocked, SendRefused, CommitSend, RollbackSend
    <3>3. mail' = Append(mail, [key |-> k, draft |-> v]) /\ draft[v] = "VALIDATED"
      BY <3>2 DEF ProviderDelivers, GatesOpen
    <3>4. v \in Sealed
      BY <3>3 DEF DraftInv
    <3>5. [key |-> k, draft |-> v] \in M
      OBVIOUS
    <3>6. /\ Len(mail') = Len(mail) + 1
          /\ mail'[Len(mail) + 1] = [key |-> k, draft |-> v]
      BY ONLY <1>1, <3>3, <3>5, AppendProperties
    <3>7. n = Len(mail) + 1
      BY ONLY <1>1, <2>3, <3>6, n \in 1 .. Len(mail')
    <3>8. QED
      BY <2>1, <3>3, <3>4, <3>6, <3>7
  <2>4. QED
    BY <2>2, <2>3
<1>3. ASSUME NEW k \in SendKey, attempt'[k].state = "SENT"
      PROVE  \E n \in 1 .. Len(mail') : mail'[n] = [key |-> k, draft |-> attempt'[k].draft]
  <2>1. ASSUME NEW d, NEW n \in 1 .. Len(mail), mail[n] = [key |-> k, draft |-> d]
        PROVE  \E m \in 1 .. Len(mail') : mail'[m] = [key |-> k, draft |-> d]
    <3>1. mail'[n] = mail[n] /\ Len(mail) <= Len(mail')
      BY Monotone
    <3>2. n \in 1 .. Len(mail')
      BY ONLY <1>1, <3>1, n \in 1 .. Len(mail)
    <3>3. QED
      BY <2>1, <3>1, <3>2
  <2>2. CASE attempt'[k] = attempt[k]
    <3>1. PICK n \in 1 .. Len(mail) : mail[n] = [key |-> k, draft |-> attempt[k].draft]
      BY <1>3, <2>2 DEF DeliveryIsAuthorized
    <3>2. QED
      BY <2>1, <2>2, <3>1
  <2>3. CASE attempt'[k] # attempt[k]
    <3>1. CommitSend(k)
      BY <1>3, <2>3, SentByCommit
    <3>2. attempt'[k].draft = call[k].draft
      BY <3>1 DEF CommitSend, Record, TypeOK
    <3>3. PICK n \in 1 .. Len(mail) : mail[n] = [key |-> k, draft |-> call[k].draft]
      BY <3>1 DEF CommitSend, CallInv
    <3>4. QED
      BY <2>1, <3>2, <3>3
  <2>4. QED
    BY <2>2, <2>3
<1>4. QED
  BY <1>2, <1>3 DEF DeliveryIsAuthorized

\* The invariant is inductive.
LEMMA Inductive == Spec => []IInv
<1>1. IInv /\ [Next]_vars => IInv'
  BY NextTypeOK, NextSeals, NextDraft, NextCall, NextDelivery DEF IInv
<1>2. QED
  BY InitIInv, <1>1, PTL DEF Spec

-----------------------------------------------------------------------------
\* The authorization and correspondence tables stay well typed.
THEOREM TypeCorrect == Spec => []TypeOK
<1>1. IInv => TypeOK
  BY DEF IInv
<1>2. QED
  BY Inductive, <1>1, PTL

\* approve_and_seal: every seal has exactly one approval and every approval its
\* seal, and the seals of the invoice are numbered without a gap.
THEOREM SealsFollowApprovals == Spec => []SealsMatchApprovals
<1>1. IInv => SealsMatchApprovals
  BY DEF IInv
<1>2. QED
  BY Inductive, <1>1, PTL

\* approve_and_send: whatever the provider delivered, in a transaction that
\* committed or not, was validated prose over a seal.
THEOREM MailIsAuthorized == Spec => []DeliveryIsAuthorized
<1>1. IInv => DeliveryIsAuthorized
  BY DEF IInv
<1>2. QED
  BY Inductive, <1>1, PTL

\* Approvals, seals, drafts and send attempts never change once they exist.
THEOREM RecordsKept == Spec => RecordsFinal
<1> DEFINE Kept ==
      /\ \A k \in ApprovalKey : approvals[k] # 0 => approvals'[k] = approvals[k]
      /\ \A v \in Version : seal[v] # 0 => seal'[v] = seal[v]
      /\ \A v \in Version : draft[v] # "NONE" => draft'[v] = draft[v]
      /\ \A k \in SendKey : attempt[k] # NoAttempt => attempt'[k] = attempt[k]
<1>1. IInv /\ [Next]_vars => Kept
  <2> SUFFICES ASSUME IInv, [Next]_vars PROVE Kept
    OBVIOUS
  <2>1. ASSUME NEW k \in ApprovalKey, approvals[k] # 0
        PROVE  approvals'[k] = approvals[k]
    BY <2>1 DEF IInv, TypeOK, Next, vars, authority, Reconstruct, FindRule, Freeze,
       Approve, Draft, SendBlocked, SendRefused, ProviderDelivers, CommitSend,
       RollbackSend
  <2>2. ASSUME NEW k \in SendKey, attempt[k] # NoAttempt
        PROVE  attempt'[k] = attempt[k]
    <3>1. ~CommitSend(k)
      BY <2>2 DEF IInv, CallInv, CommitSend
    <3>2. \A v \in Version : ~SendBlocked(k, v) /\ ~SendRefused(k, v)
      BY <2>2 DEF SendBlocked, SendRefused, CanSend
    <3>3. ASSUME NEW j \in SendKey, j # k, NEW v, NEW st, Record(j, v, st)
          PROVE  attempt'[k] = attempt[k]
      BY <3>3 DEF Record, IInv, TypeOK
    <3>4. ASSUME NEW j \in SendKey, NEW v \in Version, SendBlocked(j, v) \/ SendRefused(j, v)
          PROVE  attempt'[k] = attempt[k]
      BY <3>2, <3>3, <3>4 DEF SendBlocked, SendRefused
    <3>5. ASSUME NEW j \in SendKey, CommitSend(j) PROVE attempt'[k] = attempt[k]
      BY <3>1, <3>3, <3>5 DEF CommitSend
    <3>6. CASE UNCHANGED attempt
      BY <3>6
    <3>7. QED
      BY <3>4, <3>5, <3>6 DEF Next, vars, sending, Reconstruct, FindRule, Freeze,
         Approve, Draft, ProviderDelivers, RollbackSend
  <2>3. QED
    BY <2>1, <2>2, Monotone
<1>2. IInv /\ [Next]_vars => [Kept]_vars
  BY <1>1
<1>3. QED
  BY Inductive, <1>2, PTL DEF Spec, RecordsFinal

\* The gates are read before the provider is called and the send is recorded
\* after it; SERIALIZABLE makes the reading hold at the COMMIT.
THEOREM SentOnComplete == Spec => SentOnCompleteMemory
<1> DEFINE Complete ==
      \A k \in SendKey :
        attempt[k].state # "SENT" /\ attempt'[k].state = "SENT"
          => revs[Len(revs)].complete
<1>1. IInv /\ [Next]_vars => Complete
  <2> SUFFICES ASSUME IInv, [Next]_vars, NEW k \in SendKey,
                      attempt[k].state # "SENT", attempt'[k].state = "SENT"
               PROVE  revs[Len(revs)].complete
    OBVIOUS
  <2>1. CommitSend(k)
    <3>1. attempt'[k] # attempt[k]
      OBVIOUS
    <3>2. QED
      BY <3>1, SentByCommit DEF IInv
  <2>2. QED
    BY <2>1 DEF CommitSend, IInv, CallInv
<1>2. IInv /\ [Next]_vars => [Complete]_vars
  BY <1>1
<1>3. QED
  BY Inductive, <1>2, PTL DEF Spec, SentOnCompleteMemory

=============================================================================
