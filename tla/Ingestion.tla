----------------------------- MODULE Ingestion -----------------------------
(***************************************************************************)
(* The upload of carrier invoices: receive_invoice of intake_api over the   *)
(* transactions of intake_repository and the versioned S3 source store.     *)
(*                                                                         *)
(* An HTTP request runs through several transactions, an unlocked lookup    *)
(* and an S3 write, and may die between any two of them; a client repeats   *)
(* it under the same Idempotency-Key, or sends the same file under another. *)
(***************************************************************************)
EXTENDS Integers

CONSTANTS
  Key,          \* Idempotency-Key headers; also the invoice a key reserves
  Body,         \* uploaded files, by sha256
  Request,      \* HTTP requests in flight
  None,
  MaxVersions   \* bound on the S3 versions of one source

ASSUME NoneAssumption == None \notin Key \cup Body

ASSUME VersionsAssumption == MaxVersions \in Nat \ {0}

VARIABLES
  ingestion,    \* ingestion_requests by idempotency key
  invoice,      \* invoices and invoice_sources, by the key that reserved them
  stored,       \* number of S3 versions under the source of a key
  request       \* the local state of each request in flight

vars == <<ingestion, invoice, stored, request>>

NoVersion == 0

\* body: request_hash; source: the S3 version; answer: response_snapshot.
IngestionRow ==
  [body : Body \cup {None},
   state : {"NONE", "RESERVED", "SOURCE_STORED_DB_PENDING", "COMPLETED"},
   source : Nat, answer : Key \cup {None}]

InvoiceRow == [sha256 : Body \cup {None}, source : Nat]

RequestState ==
  [at : {"idle", "lookup", "link", "preserve", "record", "finalize"},
   key : Key \cup {None}, body : Body \cup {None},
   source : Nat, duplicate : Key \cup {None}]

\* The type invariant of the ingestion tables and the requests.
TypeOK ==
  /\ ingestion \in [Key -> IngestionRow]
  /\ invoice \in [Key -> InvoiceRow]
  /\ stored \in [Key -> Nat]
  /\ request \in [Request -> RequestState]

NoRow == [body |-> None, state |-> "NONE", source |-> NoVersion, answer |-> None]
NoInvoice == [sha256 |-> None, source |-> NoVersion]
Idle == [at |-> "idle", key |-> None, body |-> None,
         source |-> NoVersion, duplicate |-> None]

Init ==
  /\ ingestion = [k \in Key |-> NoRow]
  /\ invoice = [k \in Key |-> NoInvoice]
  /\ stored = [k \in Key |-> 0]
  /\ request = [r \in Request |-> Idle]

\* The request is answered, refused or dead: its local state is gone.
Ends(r) == request' = [request EXCEPT ![r] = Idle]

At(r, place) == request[r].at = place

-----------------------------------------------------------------------------
\* The request hash is not compared: another file takes the key over.
ReserveRebinds(r, k, b) ==
  /\ At(r, "idle")
  /\ ingestion[k].body # b
  /\ ingestion' = [ingestion EXCEPT ![k] = [NoRow EXCEPT !.body = b, !.state = "RESERVED"]]
  /\ request' = [request EXCEPT ![r] =
       [Idle EXCEPT !.at = "lookup", !.key = k, !.body = b]]
  /\ UNCHANGED <<invoice, stored>>

\* reserve_ingestion: the first request under a key reserves it; a later one
\* goes on only from a stored source.  One with another body, one that finds
\* the key COMPLETED, and one that finds it RESERVED change nothing.
Reserve(r, k, b) ==
  /\ At(r, "idle")
  /\ \/ /\ ingestion[k].state = "NONE"
        /\ ingestion' = [ingestion EXCEPT ![k].body = b, ![k].state = "RESERVED"]
     \/ /\ ingestion[k].state = "SOURCE_STORED_DB_PENDING"
        /\ ingestion[k].body = b
        /\ UNCHANGED ingestion
  /\ request' = [request EXCEPT ![r] =
       [Idle EXCEPT !.at = "lookup", !.key = k, !.body = b,
                    !.source = ingestion[k].source]]
  /\ UNCHANGED <<invoice, stored>>

\* find_invoice_by_sha, outside any transaction: link to the invoice of the
\* same file, or go on to preserve the source or to finalize.
Lookup(r) ==
  LET same == {k \in Key : invoice[k].sha256 = request[r].body}
  IN  /\ At(r, "lookup")
      /\ \/ \E k \in same :
              request' = [request EXCEPT ![r].at = "link", ![r].duplicate = k]
         \/ /\ same = {}
            /\ request' = [request EXCEPT ![r].at =
                 IF request[r].source = NoVersion THEN "preserve" ELSE "finalize"]
      /\ UNCHANGED <<ingestion, invoice, stored>>

\* complete_duplicate_ingestion: answer the key with the invoice found.  It
\* exists for good, so the binding check of the code holds.
Link(r) ==
  LET k == request[r].key
  IN  /\ At(r, "link")
      /\ IF ingestion[k].state = "COMPLETED" THEN UNCHANGED ingestion
         ELSE ingestion' = [ingestion EXCEPT ![k].state = "COMPLETED",
                                             ![k].answer = request[r].duplicate]
      /\ Ends(r)
      /\ UNCHANGED <<invoice, stored>>

\* The answer of S3 is not checked for a version.
PreserveUnchecked(r) ==
  /\ At(r, "preserve")
  /\ request' = [request EXCEPT ![r].at = "record",
                                 ![r].source = stored[request[r].key] + 1]
  /\ UNCHANGED <<ingestion, invoice, stored>>

\* VersionedInvoiceSourceStore.preserve: a new version of the source's object.
Preserve(r) ==
  LET k == request[r].key
  IN  /\ At(r, "preserve")
      /\ stored[k] < MaxVersions
      /\ stored' = [stored EXCEPT ![k] = @ + 1]
      /\ request' = [request EXCEPT ![r].at = "record", ![r].source = stored[k] + 1]
      /\ UNCHANGED <<ingestion, invoice>>

\* record_source_stored.
RecordStored(r) ==
  LET k == request[r].key
  IN  /\ At(r, "record")
      /\ IF ingestion[k].state = "COMPLETED" THEN UNCHANGED ingestion
         ELSE ingestion' = [ingestion EXCEPT ![k].state = "SOURCE_STORED_DB_PENDING",
                                             ![k].source = request[r].source]
      /\ request' = [request EXCEPT ![r].at = "finalize"]
      /\ UNCHANGED <<invoice, stored>>

\* The unique index over the hash of the file is missing.
FinalizeAnyBody(r) ==
  LET k == request[r].key
  IN  /\ At(r, "finalize")
      /\ ingestion[k].state = "SOURCE_STORED_DB_PENDING"
      /\ invoice' = [invoice EXCEPT ![k] =
           [sha256 |-> request[r].body, source |-> request[r].source]]
      /\ ingestion' = [ingestion EXCEPT ![k].state = "COMPLETED", ![k].answer = k]
      /\ Ends(r)
      /\ UNCHANGED stored

\* The invoice is inserted and the key left pending.
FinalizeKeepsPending(r) ==
  LET k == request[r].key
  IN  /\ At(r, "finalize")
      /\ ingestion[k].state = "SOURCE_STORED_DB_PENDING"
      /\ \A j \in Key : invoice[j].sha256 # request[r].body
      /\ invoice' = [invoice EXCEPT ![k] =
           [sha256 |-> request[r].body, source |-> request[r].source]]
      /\ ingestion' = [ingestion EXCEPT ![k].answer = k]
      /\ Ends(r)
      /\ UNCHANGED stored

\* finalize_received_invoice: the invoice, its source, its first task and
\* event and the answer, at once.  invoices_sha256_idx admits one invoice per
\* file; a key that was completed, or has another source, changes nothing.
Finalize(r) ==
  LET k == request[r].key
  IN  /\ At(r, "finalize")
      /\ ingestion[k].state = "SOURCE_STORED_DB_PENDING"
      /\ ingestion[k].source = request[r].source
      /\ \A j \in Key : invoice[j].sha256 # request[r].body
      /\ invoice' = [invoice EXCEPT ![k] =
           [sha256 |-> request[r].body, source |-> request[r].source]]
      /\ ingestion' = [ingestion EXCEPT ![k].state = "COMPLETED", ![k].answer = k]
      /\ Ends(r)
      /\ UNCHANGED stored

\* The request fails or dies between two of its steps: the key is completed
\* or mismatched, the file is known by now, S3 is out of reach, the process
\* is gone.
Abandon(r) ==
  /\ ~At(r, "idle")
  /\ Ends(r)
  /\ UNCHANGED <<ingestion, invoice, stored>>

Next ==
  \E r \in Request :
    \/ \E k \in Key, b \in Body : Reserve(r, k, b)
    \/ Lookup(r) \/ Link(r) \/ Preserve(r) \/ RecordStored(r) \/ Finalize(r)
    \/ Abandon(r)

Spec == Init /\ [][Next]_vars

-----------------------------------------------------------------------------
\* Properties.

Invoices == {k \in Key : invoice[k].sha256 # None}

\* One file is answered with one invoice, whatever keys it was sent under,
\* although the lookup that should find the first invoice is not part of the
\* transaction that inserts the second.
SameFileSameInvoice ==
  \A j, k \in Key :
    /\ ingestion[j].state = "COMPLETED" /\ ingestion[k].state = "COMPLETED"
    /\ ingestion[j].body = ingestion[k].body
    => ingestion[j].answer = ingestion[k].answer

\* The answer kept for a key names an invoice of the very file that was sent
\* under it, and a pending key has not made its invoice yet.
AnswerIsOwnFile ==
  \A k \in Key :
    /\ ingestion[k].state = "COMPLETED" =>
         /\ ingestion[k].answer \in Invoices
         /\ invoice[ingestion[k].answer].sha256 = ingestion[k].body
    /\ k \in Invoices => ingestion[k].state = "COMPLETED" /\ ingestion[k].answer = k

\* An invoice is bound to a version that S3 really holds and that its key
\* recorded; whoever dies in between leaves no invoice without a source.
SourceIsPreserved ==
  \A k \in Invoices :
    /\ invoice[k].source \in 1 .. stored[k]
    /\ invoice[k].source = ingestion[k].source

\* The file of a key is written to S3 at most once, however often the request
\* is repeated and wherever it died.
PreservedOnce == \A k \in Key : stored[k] <= 1

\* A repeated request never gets another answer, and invoices are immutable.
AnswersFinal ==
  [][\A k \in Key :
       /\ ingestion[k].state = "COMPLETED" => ingestion'[k] = ingestion[k]
       /\ k \in Invoices => invoice'[k] = invoice[k]]_vars

=============================================================================
