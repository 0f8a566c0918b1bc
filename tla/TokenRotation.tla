--------------------------- MODULE TokenRotation ---------------------------
(***************************************************************************)
(* The OAuth bundle of the Managed MCP client: one SSM parameter whose      *)
(* refresh token rotates with every use (oauth_tokens), the 60 second       *)
(* DynamoDB lease around the rotation, and its three kinds of users: the    *)
(* reconstruction worker (which falls back to the driver), the public       *)
(* replay (which retries once after a 401) and the scheduled canary.        *)
(*                                                                         *)
(* Bundles are numbered in the order in which the provider issues them; the *)
(* number stands for the access and the refresh token of the bundle.  Every *)
(* caller is a process with an OAuthTokenManager of its own; callers that   *)
(* share a manager take its lock in turn and count as one.                  *)
(***************************************************************************)
EXTENDS Naturals

CONSTANTS
  Memory,       \* reconstruction workers
  Public,       \* the public replay of an application process
  Canary,       \* invocations of the refresh canary
  None,         \* no bundle, no owner
  MaxBundles    \* bound on the bundles the provider issues

Caller == Memory \cup Public \cup Canary

ASSUME CallerKinds ==
  Memory \cap Public = {} /\ Memory \cap Canary = {} /\ Public \cap Canary = {}

ASSUME BundleAssumption == MaxBundles \in Nat \ {0}

Bundle == 0 .. MaxBundles - 1

ASSUME NoneAssumption == None \notin Bundle /\ None \notin Caller

VARIABLES
  stored,    \* the bundle in the SSM parameter
  issued,    \* number of bundles the provider has issued
  next,      \* the bundle a refresh token was rotated into, or None
  dropped,   \* history: rotated bundles that no caller could save
  stale,     \* bundles whose access token is within the refresh margin
  lease,     \* owner of the DynamoDB item; None: no item, or one that has expired
  overrun,   \* history: a lease expired while its holder was rotating
  reused,    \* history: refresh tokens presented after they had been rotated
  call       \* where each caller is

vars == <<stored, issued, next, dropped, stale, lease, overrun, reused, call>>
provider == <<issued, next, dropped, reused>>

Place ==
  {"idle",      \* next: Start
   "acquire",   \* next: Acquire, AcquireDenied, AcquireLost
   "denied",    \* next: SettleUnleased
   "reload",    \* next: SettleLeased
   "post",      \* next: Rotate, LoseAnswer, RefreshRefused
   "save",      \* next: Put, PutFails
   "confirm",   \* next: Confirm
   "release",   \* next: Release
   "session",   \* next: Answer, SessionFails
   "rejected",  \* next: AfterUnauthorized
   "driver"}    \* next: DriverRead

Call ==
  [at : Place,
   observed : Bundle \cup {None},    \* the bundle first loaded
   current : Bundle \cup {None},     \* the bundle loaded again under the lease
   answer : Bundle \cup {None},      \* what the provider returned, not saved yet
   got : Bundle \cup {None},         \* the bundle the manager returns; None: it raised
   rejected : Bundle \cup {None}]    \* the access token that met a 401

Idle ==
  [at |-> "idle", observed |-> None, current |-> None, answer |-> None,
   got |-> None, rejected |-> None]

\* The type invariant of the store, the provider, the lease and the callers.
TypeOK ==
  /\ stored \in Bundle
  /\ issued \in 1 .. MaxBundles
  /\ next \in [Bundle -> Bundle \cup {None}]
  /\ dropped \subseteq Bundle
  /\ stale \subseteq Bundle
  /\ lease \in Caller \cup {None}
  /\ overrun \in BOOLEAN
  /\ reused \subseteq Bundle
  /\ call \in [Caller -> Call]

Init ==
  /\ stored = 0
  /\ issued = 1
  /\ next = [b \in Bundle |-> None]
  /\ dropped = {}
  /\ stale = {}
  /\ lease = None
  /\ overrun = FALSE
  /\ reused = {}
  /\ call = [c \in Caller |-> Idle]

Goes(c, place) == call' = [call EXCEPT ![c].at = place]

Ends(c) == call' = [call EXCEPT ![c] = Idle]

\* The manager returns bundle b, or raises if b is None: the canary is done, a
\* reader opens a session, and of those without a token the worker reads
\* through the driver and the public replay is unavailable.  Only the public
\* replay remembers the token, for the case of a 401.
Returns(c, b) ==
  call' = [call EXCEPT ![c] =
             [Idle EXCEPT !.at = IF c \in Canary THEN "idle"
                                 ELSE IF b # None THEN "session"
                                 ELSE IF c \in Memory THEN "driver" ELSE "idle",
                          !.got = IF c \in Public THEN b ELSE None,
                          !.rejected = IF b # None THEN call[c].rejected ELSE None]]

\* The refresh under the lease has ended with bundle b, or raised.
Releases(c, b) ==
  call' = [call EXCEPT ![c] = [Idle EXCEPT !.at = "release", !.got = b,
                                           !.rejected = call[c].rejected]]

-----------------------------------------------------------------------------
\* Finding out whether a refresh is needed.

\* access_token() and refresh() load the bundle; a fresh one is used as it is,
\* except by the canary.
Start(c) ==
  /\ call[c].at = "idle"
  /\ IF c \in Canary \/ stored \in stale
       THEN call' = [call EXCEPT ![c].at = "acquire", ![c].observed = stored]
       ELSE Returns(c, stored)
  /\ UNCHANGED <<stored, provider, stale, lease, overrun>>

\* A caller that met a 401 refreshes whatever the store holds by then.
AfterUnauthorizedBlindly(c) ==
  /\ call[c].at = "rejected"
  /\ call' = [call EXCEPT ![c].at = "acquire", ![c].observed = stored]
  /\ UNCHANGED <<stored, provider, stale, lease, overrun>>

\* refresh_after_unauthorized(): if another caller has replaced the rejected
\* token, the replacement is used.
AfterUnauthorized(c) ==
  /\ call[c].at = "rejected"
  /\ IF stored = call[c].rejected
       THEN call' = [call EXCEPT ![c].at = "acquire", ![c].observed = stored]
       ELSE Returns(c, stored)
  /\ UNCHANGED <<stored, provider, stale, lease, overrun>>

-----------------------------------------------------------------------------
\* The lease.

\* A lease is granted to anybody while another one runs.
LeaseAlwaysFree == TRUE

\* The put's condition: no item, or one that has expired.
LeaseFree == lease = None

Acquire(c) ==
  /\ call[c].at = "acquire"
  /\ LeaseFree
  /\ lease' = c
  /\ Goes(c, "reload")
  /\ UNCHANGED <<stored, provider, stale, overrun>>

AcquireDenied(c) ==
  /\ call[c].at = "acquire"
  /\ ~LeaseFree
  /\ Goes(c, "denied")
  /\ UNCHANGED <<stored, provider, stale, lease, overrun>>

\* Any exception counts as "no lease", although the item may have been written:
\* its owner is forgotten, and only its expiry frees the lease.
AcquireLost(c) ==
  /\ call[c].at = "acquire"
  /\ LeaseFree
  /\ lease' \in {lease, c}
  /\ Goes(c, "denied")
  /\ UNCHANGED <<stored, provider, stale, overrun>>

\* refresh() and refresh_after_unauthorized() ask for a rotation.
Required(c) == c \in Canary \/ call[c].rejected # None

\* A bundle loaded after the first look is used when it is another one, or when
\* a rotation is not required and it is fresh after all.
Usable(c) ==
  \/ stored # call[c].observed
  \/ ~Required(c) /\ stored \notin stale

\* Without the lease: use what its holder wrote, or give up.
SettleUnleased(c) ==
  /\ call[c].at = "denied"
  /\ Returns(c, IF Usable(c) THEN stored ELSE None)
  /\ UNCHANGED <<stored, provider, stale, lease, overrun>>

\* The bundle seen before the lease is rotated without another look.
SettleWithoutReload(c) ==
  /\ call[c].at = "reload"
  /\ call' = [call EXCEPT ![c].at = "post", ![c].observed = None, ![c].current = call[c].observed]
  /\ UNCHANGED <<stored, provider, stale, lease, overrun>>

\* Under the lease: the same test, then the rotation of what was just loaded.
SettleLeased(c) ==
  /\ call[c].at = "reload"
  /\ IF Usable(c)
       THEN Releases(c, stored)
       ELSE call' = [call EXCEPT ![c].at = "post", ![c].observed = None, ![c].current = stored]
  /\ UNCHANGED <<stored, provider, stale, lease, overrun>>

\* load() raises, at the first look or at a later one.
LoadFails(c) ==
  /\ \/ call[c].at \in {"idle", "rejected", "denied"} /\ Returns(c, None)
     \/ call[c].at = "reload" /\ Releases(c, None)
  /\ UNCHANGED <<stored, provider, stale, lease, overrun>>

-----------------------------------------------------------------------------
\* The rotation: the provider spends the refresh token and issues the next
\* bundle; the manager writes it over whatever the parameter holds and reads it
\* back.

Spent(b) == next[b] # None

RotateInto(c) ==
  /\ call[c].at = "post"
  /\ ~Spent(call[c].current)
  /\ issued < MaxBundles
  /\ next' = [next EXCEPT ![call[c].current] = issued]
  /\ issued' = issued + 1

\* The new bundle is built with the prior refresh token.
RotateKeepsPrior(c) ==
  /\ RotateInto(c)
  /\ call' = [call EXCEPT ![c].at = "save", ![c].answer = call[c].current]
  /\ UNCHANGED <<stored, dropped, reused, stale, lease, overrun>>

Rotate(c) ==
  /\ RotateInto(c)
  /\ call' = [call EXCEPT ![c].at = "save", ![c].answer = issued]
  /\ UNCHANGED <<stored, dropped, reused, stale, lease, overrun>>

\* The answer is lost, late or not a valid bundle, after the provider rotated.
LoseAnswer(c) ==
  /\ RotateInto(c)
  /\ dropped' = dropped \cup {issued}
  /\ Releases(c, None)
  /\ UNCHANGED <<stored, reused, stale, lease, overrun>>

\* The provider cannot be reached or refuses: a spent token is always refused.
RefreshRefused(c) ==
  /\ call[c].at = "post"
  /\ reused' = IF Spent(call[c].current) THEN reused \cup {call[c].current} ELSE reused
  /\ Releases(c, None)
  /\ UNCHANGED <<stored, issued, next, dropped, stale, lease, overrun>>

\* put_parameter(Overwrite=True) takes effect; its answer may be lost.
Put(c) ==
  /\ call[c].at = "save"
  /\ stored' = call[c].answer
  /\ Goes(c, "confirm") \/ Releases(c, None)
  /\ UNCHANGED <<provider, stale, lease, overrun>>

\* oauth_rotated_token_persistence_uncertain
PutFails(c) ==
  /\ call[c].at = "save"
  /\ dropped' = dropped \cup {call[c].answer}
  /\ Releases(c, None)
  /\ UNCHANGED <<stored, issued, next, reused, stale, lease, overrun>>

\* The read-back must return what was written.
Confirm(c) ==
  /\ call[c].at = "confirm"
  /\ \/ stored = call[c].answer /\ Releases(c, call[c].answer)
     \/ Releases(c, None)
  /\ UNCHANGED <<stored, provider, stale, lease, overrun>>

\* finally: the item is deleted if it is still the caller's; a failure to do so
\* leaves it to expire.
Release(c) ==
  /\ call[c].at = "release"
  /\ lease' \in {lease, IF lease = c THEN None ELSE lease}
  /\ Returns(c, call[c].got)
  /\ UNCHANGED <<stored, provider, stale, overrun>>

-----------------------------------------------------------------------------
\* The MCP session that uses the token, seen as a whole: initialize, discovery
\* of the tools, one SELECT.

Answer(c) ==
  /\ call[c].at = "session"
  /\ Ends(c)
  /\ UNCHANGED <<stored, provider, stale, lease, overrun>>

\* Any of its requests fails.  The worker reads through the driver whatever the
\* failure is; the public replay has one more try, and only after a 401.
SessionFails(c, unauthorized) ==
  /\ call[c].at = "session"
  /\ call' = [call EXCEPT ![c] =
                IF c \in Memory THEN [Idle EXCEPT !.at = "driver"]
                ELSE IF unauthorized /\ call[c].rejected = None
                  THEN [Idle EXCEPT !.at = "rejected", !.rejected = call[c].got]
                ELSE Idle]
  /\ UNCHANGED <<stored, provider, stale, lease, overrun>>

\* The same SELECT over the database connection; it may fail as well.
DriverRead(c) ==
  /\ call[c].at = "driver"
  /\ Ends(c)
  /\ UNCHANGED <<stored, provider, stale, lease, overrun>>

-----------------------------------------------------------------------------
\* The environment.

\* The access token of the stored bundle comes within the refresh margin.  Those
\* of other bundles age as well, but nobody looks at their expiry.
TokenAges ==
  /\ stored \notin stale
  /\ stale' = stale \cup {stored}
  /\ UNCHANGED <<stored, provider, lease, overrun, call>>

\* Callers between the grant of the lease and the write of the parameter.
Rotating == {c \in Caller : call[c].at \in {"reload", "post", "save"}}

\* 60 seconds have passed: nothing stops a holder that still rotates.  An item
\* that has expired is as good as none, for the next put and for the old owner's
\* delete alike.
LeaseExpires ==
  /\ lease # None
  /\ lease' = None
  /\ overrun' = (overrun \/ lease \in Rotating)
  /\ UNCHANGED <<stored, provider, stale, call>>

\* The process ends; a rotated bundle in its memory is gone.
Crash(c) ==
  /\ call[c].at # "idle"
  /\ dropped' = IF call[c].at = "save" THEN dropped \cup {call[c].answer} ELSE dropped
  /\ Ends(c)
  /\ UNCHANGED <<stored, issued, next, reused, stale, lease, overrun>>

\* An operator authorizes anew in a browser: a bundle of a new chain is written
\* over the parameter, without the lease.
Remint ==
  /\ issued < MaxBundles
  /\ issued' = issued + 1
  /\ stored' = issued
  /\ UNCHANGED <<next, dropped, reused, stale, lease, overrun, call>>

CallerStep(c) ==
  \/ Start(c) \/ AfterUnauthorized(c)
  \/ Acquire(c) \/ AcquireDenied(c) \/ AcquireLost(c)
  \/ SettleUnleased(c) \/ SettleLeased(c) \/ LoadFails(c)
  \/ Rotate(c) \/ LoseAnswer(c) \/ RefreshRefused(c)
  \/ Put(c) \/ PutFails(c) \/ Confirm(c) \/ Release(c)
  \/ Answer(c) \/ (\E unauthorized \in BOOLEAN : SessionFails(c, unauthorized))
  \/ DriverRead(c) \/ Crash(c)

Next ==
  \/ \E c \in Caller : CallerStep(c)
  \/ TokenAges
  \/ LeaseExpires
  \/ Remint

Spec == Init /\ [][Next]_vars

-----------------------------------------------------------------------------
\* Properties.

\* oauth_tokens.py: "do not risk reusing a rotating refresh token without the
\* lease".  A refresh token that was rotated is presented again only if a lease
\* expired under its holder or the bundle it was rotated into was never saved.
SpentNeverPresented ==
  \A b \in reused : overrun \/ next[b] \in dropped

\* "It keeps a live one alive": the parameter holds a refresh token that still
\* works, or the caller that rotated it is about to write the next one, or that
\* next one was lost.  However late a write comes, it never takes the parameter
\* back to a spent token.
ChainAlive ==
  \/ ~Spent(stored)
  \/ next[stored] \in dropped
  \/ \E c \in Caller : call[c].at = "save" /\ call[c].answer = next[stored]

\* A token is rotated only by the canary, because it came within the margin, or
\* because the caller met a 401 with this very token: what another caller has
\* just rotated is not rotated again.
RotationHasCause ==
  \A c \in Caller \ Canary :
    call[c].at = "post" =>
      call[c].current \in stale \/ call[c].current = call[c].rejected

=============================================================================
