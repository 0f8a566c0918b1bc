------------------------ MODULE TokenRotationProofs ------------------------
(***************************************************************************)
(* Proofs about TokenRotation, for any callers and any number of bundles: a  *)
(* spent refresh token is presented again only after a lease expired under  *)
(* its holder or a rotated bundle was lost, the parameter never falls back   *)
(* to a spent token, and no rotation lacks a cause.                         *)
(***************************************************************************)
EXTENDS TokenRotation, TLAPS

USE CallerKinds, BundleAssumption, NoneAssumption DEF Bundle

At(c, place) == call[c].at = place

\* Bundles in use are bundles that were issued.
IssuedInv ==
  /\ stored < issued
  /\ \A b \in Bundle : next[b] # None => b < issued /\ next[b] < issued
  /\ \A c \in Caller :
       /\ At(c, "post") => call[c].current \in Bundle /\ call[c].current < issued
       /\ At(c, "save") => call[c].answer \in Bundle /\ call[c].answer < issued

\* What a caller has got from the provider and not written yet is known to it alone.
FreshInv ==
  \A c \in Caller : At(c, "save") =>
    LET a == call[c].answer
    IN  /\ ~Spent(a)
        /\ stored # a
        /\ \A d \in Caller : At(d, "post") => call[d].current # a
        /\ \A d \in Caller : At(d, "save") /\ call[d].answer = a => d = c

\* As long as no lease has expired under its holder, one caller at most rotates.
LeaseInv == ~overrun => \A c \in Rotating : lease = c

\* A token about to be presented works, unless a lease expired or the rotated bundle
\* was lost.
PostInv ==
  ~overrun => \A c \in Caller :
    At(c, "post") => ~Spent(call[c].current) \/ next[call[c].current] \in dropped

\* A reader after a 401 goes for the rotation of the token that met it, and no
\* other one remembers a 401.
CauseInv ==
  \A c \in Caller \ Canary :
    /\ At(c, "idle") => call[c].rejected = None
    /\ call[c].at \in {"acquire", "denied", "reload"} /\ call[c].rejected # None =>
         call[c].observed = call[c].rejected

IInv ==
  /\ TypeOK /\ IssuedInv /\ FreshInv /\ LeaseInv /\ PostInv /\ CauseInv
  /\ SpentNeverPresented /\ ChainAlive /\ RotationHasCause

-----------------------------------------------------------------------------
\* In the beginning there is one bundle and nobody uses it.
LEMMA InitIInv == Init => IInv
<1> SUFFICES ASSUME Init PROVE IInv
  OBVIOUS
<1> USE DEF Init
<1>1. Idle \in Call
  BY DEF Idle, Call, Place
<1>2. TypeOK
  <2>1. overrun \in BOOLEAN
    OBVIOUS
  <2>2. stored \in Bundle /\ issued \in 1 .. MaxBundles /\ next \in [Bundle -> Bundle \cup {None}]
    OBVIOUS
  <2>3. dropped \subseteq Bundle /\ stale \subseteq Bundle /\ reused \subseteq Bundle
    OBVIOUS
  <2>4. lease \in Caller \cup {None} /\ call \in [Caller -> Call]
    BY <1>1
  <2>5. QED
    BY <2>1, <2>2, <2>3, <2>4 DEF TypeOK
<1>3. \A c \in Caller : call[c].at = "idle" /\ call[c].rejected = None
  BY DEF Idle
<1>4. IssuedInv /\ FreshInv /\ CauseInv /\ RotationHasCause
  BY <1>3 DEF IssuedInv, FreshInv, CauseInv, RotationHasCause, At
<1>5. LeaseInv /\ PostInv
  BY <1>3 DEF LeaseInv, PostInv, Rotating, At
<1>6. SpentNeverPresented /\ ChainAlive
  BY DEF SpentNeverPresented, ChainAlive, Spent
<1>7. QED
  BY <1>2, <1>4, <1>5, <1>6 DEF IInv

-----------------------------------------------------------------------------
\* A caller moves itself only.
LEMMA OthersStay ==
  ASSUME TypeOK, NEW c \in Caller, CallerStep(c)
  PROVE  \A d \in Caller : d # c => call'[d] = call[d]
  BY DEF TypeOK, CallerStep, Start, AfterUnauthorized, Acquire, AcquireDenied, AcquireLost,
         SettleUnleased, SettleLeased, LoadFails, Rotate, LoseAnswer, RefreshRefused, Put,
         PutFails, Confirm, Release, Answer, SessionFails, DriverRead, Crash, Goes, Ends,
         Returns, Releases

\* What the moves of a caller have in common.
LEMMA Moves ==
  ASSUME TypeOK, NEW c \in Caller
  PROVE  /\ \A p \in Place : Goes(c, p) =>
              call' \in [Caller -> Call] /\ call'[c] = [call[c] EXCEPT !.at = p]
         /\ Ends(c) => call' \in [Caller -> Call] /\ call'[c] = Idle
         /\ \A b \in Bundle \cup {None} : Returns(c, b) =>
              /\ call' \in [Caller -> Call]
              /\ call'[c].at \in {"idle", "session", "driver"}
              /\ c \notin Canary /\ call'[c].at = "idle" => call'[c].rejected = None
         /\ \A b \in Bundle \cup {None} : Releases(c, b) =>
              call' \in [Caller -> Call] /\ call'[c].at = "release"
<1>1. call \in [Caller -> Call] /\ call[c] \in Call /\ Idle \in Call
  BY DEF TypeOK, Idle, Call, Place
<1>2. ASSUME NEW p \in Place, Goes(c, p)
      PROVE  call' \in [Caller -> Call] /\ call'[c] = [call[c] EXCEPT !.at = p]
  BY <1>1, <1>2 DEF Goes, Call
<1>3. ASSUME Ends(c) PROVE call' \in [Caller -> Call] /\ call'[c] = Idle
  BY <1>1, <1>3 DEF Ends
<1>4. ASSUME NEW b \in Bundle \cup {None}, Returns(c, b)
      PROVE  /\ call' \in [Caller -> Call]
             /\ call'[c].at \in {"idle", "session", "driver"}
             /\ c \notin Canary /\ call'[c].at = "idle" => call'[c].rejected = None
  <2> DEFINE place == IF c \in Canary THEN "idle"
                      ELSE IF b # None THEN "session"
                      ELSE IF c \in Memory THEN "driver" ELSE "idle"
             got == IF c \in Public THEN b ELSE None
             rejected == IF b # None THEN call[c].rejected ELSE None
             x == [Idle EXCEPT !.at = place, !.got = got, !.rejected = rejected]
  <2>1. /\ place \in {"idle", "session", "driver"}
        /\ got \in Bundle \cup {None}
        /\ rejected \in Bundle \cup {None}
    BY <1>1 DEF Call
  <2>2. c \notin Canary /\ place = "idle" => rejected = None
    OBVIOUS
  <2>3. call' = [call EXCEPT ![c] = x]
    BY <1>4 DEF Returns
  <2> HIDE DEF place, got, rejected
  <2>4. x \in Call /\ x.at = place /\ x.rejected = rejected
    BY <2>1 DEF Idle, Call, Place
  <2>5. QED
    BY <1>1, <2>1, <2>2, <2>3, <2>4
<1>5. ASSUME NEW b \in Bundle \cup {None}, Releases(c, b)
      PROVE  call' \in [Caller -> Call] /\ call'[c].at = "release"
  <2> DEFINE x == [Idle EXCEPT !.at = "release", !.got = b, !.rejected = call[c].rejected]
  <2>1. call[c].rejected \in Bundle \cup {None}
    BY <1>1 DEF Call
  <2>2. x \in Call /\ x.at = "release"
    BY <2>1 DEF Idle, Call, Place
  <2>3. QED
    BY <1>1, <1>5, <2>2 DEF Releases
<1>6. QED
  BY <1>2, <1>3, <1>4, <1>5

\* A caller that neither enters the rotation nor holds what it got from it
\* disturbs nobody.
LEMMA QuietStep ==
  ASSUME IInv, NEW c \in Caller, \A d \in Caller : d # c => call'[d] = call[d],
         call[c].at # "save", call'[c].at \notin {"post", "save"},
         UNCHANGED <<stored, provider, overrun>>, stale \subseteq stale',
         c \notin Canary =>
           /\ call'[c].at = "idle" => call'[c].rejected = None
           /\ call'[c].at \in {"acquire", "denied", "reload"} /\ call'[c].rejected # None =>
                call'[c].observed = call'[c].rejected
  PROVE  /\ IssuedInv' /\ FreshInv' /\ PostInv' /\ CauseInv'
         /\ SpentNeverPresented' /\ ChainAlive' /\ RotationHasCause'
<1> USE DEF IInv, provider, At
<1>1. IssuedInv'
  BY DEF IssuedInv
<1>2. FreshInv'
  BY DEF FreshInv, Spent
<1>3. PostInv'
  BY DEF PostInv, Spent
<1>4. CauseInv'
  BY DEF CauseInv
<1>5. SpentNeverPresented'
  BY DEF SpentNeverPresented
<1>6. ChainAlive'
  BY DEF ChainAlive, Spent
<1>7. RotationHasCause'
  BY DEF RotationHasCause
<1>8. QED
  BY <1>1, <1>2, <1>3, <1>4, <1>5, <1>6, <1>7

\* A step that changes nothing but the caller, and not into the rotation.
LEMMA StillIInv ==
  ASSUME IInv, NEW c \in Caller, CallerStep(c), call' \in [Caller -> Call],
         call[c].at # "save", call'[c].at \notin {"reload", "post", "save"},
         UNCHANGED <<stored, provider, overrun, stale, lease>>,
         c \notin Canary =>
           /\ call'[c].at = "idle" => call'[c].rejected = None
           /\ call'[c].at \in {"acquire", "denied"} /\ call'[c].rejected # None =>
                call'[c].observed = call'[c].rejected
  PROVE  IInv'
<1>1. TypeOK /\ \A d \in Caller : d # c => call'[d] = call[d]
  BY OthersStay DEF IInv
<1>2. TypeOK'
  BY <1>1 DEF TypeOK, provider
<1>3. LeaseInv'
  BY <1>1 DEF IInv, LeaseInv, Rotating
<1>4. QED
  BY <1>1, <1>2, <1>3, QuietStep DEF IInv

\* Each of them is such a step.
LEMMA LooksIInv ==
  ASSUME IInv, NEW c \in Caller,
         \/ Start(c) \/ AfterUnauthorized(c) \/ AcquireDenied(c) \/ SettleUnleased(c)
         \/ LoadFails(c) \/ Confirm(c) \/ Answer(c) \/ DriverRead(c)
         \/ \E unauthorized \in BOOLEAN : SessionFails(c, unauthorized)
  PROVE  IInv'
<1> DEFINE Good ==
      /\ call' \in [Caller -> Call]
      /\ call[c].at # "save" /\ call'[c].at \notin {"reload", "post", "save"}
      /\ UNCHANGED <<stored, provider, overrun, stale, lease>>
      /\ c \notin Canary =>
           /\ call'[c].at = "idle" => call'[c].rejected = None
           /\ call'[c].at \in {"acquire", "denied"} /\ call'[c].rejected # None =>
                call'[c].observed = call'[c].rejected
<1>1. CallerStep(c)
  BY DEF CallerStep
<1>2. TypeOK /\ call[c] \in Call /\ call \in [Caller -> Call] /\ stored \in Bundle
  BY DEF IInv, TypeOK
<1>3. /\ c \notin Canary /\ At(c, "idle") => call[c].rejected = None
      /\ c \notin Canary /\ call[c].at \in {"acquire", "denied", "reload"}
           /\ call[c].rejected # None => call[c].observed = call[c].rejected
  BY DEF IInv, CauseInv
<1>4. ASSUME Start(c) PROVE Good
  <2>1. CASE call' = [call EXCEPT ![c].at = "acquire", ![c].observed = stored]
    BY <1>2, <1>3, <1>4, <2>1 DEF Start, Call, Place, At
  <2>2. CASE Returns(c, stored)
    BY <1>2, <1>4, <2>2, Moves DEF Start
  <2>3. QED
    BY <1>4, <2>1, <2>2 DEF Start
<1>5. ASSUME AfterUnauthorized(c) PROVE Good
  <2>1. CASE stored = call[c].rejected
    BY <1>2, <1>5, <2>1 DEF AfterUnauthorized, Call, Place
  <2>2. CASE stored # call[c].rejected
    BY <1>2, <1>5, <2>2, Moves DEF AfterUnauthorized
  <2>3. QED
    BY <2>1, <2>2
<1>6. ASSUME AcquireDenied(c) PROVE Good
  BY <1>2, <1>3, <1>6 DEF AcquireDenied, Goes, Call, Place
<1>7. ASSUME SettleUnleased(c) PROVE Good
  BY <1>2, <1>7, Moves DEF SettleUnleased
<1>8. ASSUME LoadFails(c) PROVE Good
  BY <1>2, <1>8, Moves DEF LoadFails
<1>9. ASSUME Confirm(c) PROVE Good
  BY <1>2, <1>9, Moves DEF Confirm
<1>10. ASSUME Answer(c) \/ DriverRead(c) PROVE Good
  BY <1>2, <1>10, Moves DEF Answer, DriverRead, Idle
<1>11. ASSUME NEW unauthorized \in BOOLEAN, SessionFails(c, unauthorized) PROVE Good
  <2>1. \/ call' = [call EXCEPT ![c] = [Idle EXCEPT !.at = "driver"]]
        \/ call' = [call EXCEPT ![c] = [Idle EXCEPT !.at = "rejected", !.rejected = call[c].got]]
        \/ call' = [call EXCEPT ![c] = Idle]
    BY <1>11 DEF SessionFails
  <2>2. /\ [Idle EXCEPT !.at = "driver"] \in Call
        /\ [Idle EXCEPT !.at = "rejected", !.rejected = call[c].got] \in Call
        /\ Idle \in Call
    BY <1>2 DEF Idle, Call, Place
  <2>3. QED
    BY <1>2, <1>11, <2>1, <2>2 DEF SessionFails, Idle
<1>12. Good
  BY <1>4, <1>5, <1>6, <1>7, <1>8, <1>9, <1>10, <1>11
<1>13. QED
  BY <1>1, <1>12, StillIInv

-----------------------------------------------------------------------------
\* The steps that change the lease.
LEMMA LeaseIInv ==
  ASSUME IInv, NEW c \in Caller, Acquire(c) \/ AcquireLost(c) \/ Release(c)
  PROVE  IInv'
<1>1. /\ CallerStep(c) /\ TypeOK /\ call[c] \in Call /\ call \in [Caller -> Call]
      /\ UNCHANGED <<stored, provider, overrun, stale>>
  BY DEF CallerStep, IInv, TypeOK, Acquire, AcquireLost, Release
<1>2. \A d \in Caller : d # c => call'[d] = call[d]
  BY <1>1, OthersStay
<1>3. /\ c \notin Canary /\ At(c, "idle") => call[c].rejected = None
      /\ c \notin Canary /\ call[c].at \in {"acquire", "denied", "reload"}
           /\ call[c].rejected # None => call[c].observed = call[c].rejected
  BY DEF IInv, CauseInv
<1> DEFINE Good ==
      /\ call' \in [Caller -> Call]
      /\ call[c].at # "save" /\ call'[c].at \notin {"post", "save"}
      /\ c \notin Canary =>
           /\ call'[c].at = "idle" => call'[c].rejected = None
           /\ call'[c].at \in {"acquire", "denied", "reload"} /\ call'[c].rejected # None =>
                call'[c].observed = call'[c].rejected
      /\ lease' \in Caller \cup {None}
      /\ LeaseInv'
<1>4. ASSUME Acquire(c) PROVE Good
  <2>1. call'[c] = [call[c] EXCEPT !.at = "reload"] /\ call' \in [Caller -> Call]
    BY <1>1, <1>4, Moves DEF Acquire, Place
  <2>2. LeaseInv'
    BY <1>1, <1>2, <1>4 DEF Acquire, LeaseFree, IInv, LeaseInv, Rotating
  <2>3. QED
    BY <1>1, <1>3, <1>4, <2>1, <2>2 DEF Acquire, Call
<1>5. ASSUME AcquireLost(c) PROVE Good
  <2>1. call'[c] = [call[c] EXCEPT !.at = "denied"] /\ call' \in [Caller -> Call]
    BY <1>1, <1>5, Moves DEF AcquireLost, Place
  <2>2. call'[c].at = "denied" /\ lease' \in Caller \cup {None}
    BY <1>1, <1>5, <2>1 DEF AcquireLost, LeaseFree, Call
  <2>3. LeaseInv'
    BY <1>1, <1>2, <1>5, <2>2 DEF AcquireLost, LeaseFree, IInv, LeaseInv, Rotating
  <2>4. QED
    BY <1>1, <1>3, <1>5, <2>1, <2>2, <2>3 DEF AcquireLost, Call
<1>6. ASSUME Release(c) PROVE Good
  <2>1. /\ call' \in [Caller -> Call] /\ call'[c].at \in {"idle", "session", "driver"}
        /\ c \notin Canary /\ call'[c].at = "idle" => call'[c].rejected = None
    <3>1. call[c].got \in Bundle \cup {None}
      BY <1>1 DEF Call
    <3>2. QED
      BY <1>1, <1>6, <3>1, Moves DEF Release
  <2>2. lease' \in Caller \cup {None} /\ (lease' = lease \/ lease = c)
    BY <1>1, <1>6 DEF Release, TypeOK
  <2>3. LeaseInv'
    BY <1>1, <1>2, <1>6, <2>1, <2>2 DEF Release, IInv, LeaseInv, Rotating
  <2>4. QED
    BY <1>1, <1>6, <2>1, <2>2, <2>3 DEF Release
<1>7. Good
  BY <1>4, <1>5, <1>6
<1>8. TypeOK'
  BY <1>1, <1>7 DEF TypeOK, provider
<1>9. QED
  BY <1>1, <1>2, <1>7, <1>8, QuietStep DEF IInv

\* The lease expires, the access token ages, an operator authorizes anew.
LEMMA EnvironmentIInv ==
  ASSUME IInv, LeaseExpires \/ TokenAges \/ Remint
  PROVE  IInv'
<1> USE DEF At
<1>1. CASE LeaseExpires
  <2>1. UNCHANGED <<stored, provider, stale, call>> /\ lease' = None
        /\ overrun' = (overrun \/ lease \in Rotating)
    BY <1>1 DEF LeaseExpires
  <2>2. ~overrun' => ~overrun /\ Rotating = {}
    BY <2>1 DEF IInv, LeaseInv
  <2>3. overrun' \in BOOLEAN
    BY <2>1
  <2>4. TypeOK'
    BY <2>1, <2>3 DEF IInv, TypeOK, provider
  <2>5. LeaseInv' /\ PostInv'
    BY <2>1, <2>2 DEF LeaseInv, PostInv, Rotating
  <2>6. SpentNeverPresented'
    BY <2>1, <2>2 DEF IInv, SpentNeverPresented, provider
  <2>7. IssuedInv' /\ FreshInv' /\ CauseInv' /\ ChainAlive' /\ RotationHasCause'
    BY <2>1 DEF IInv, IssuedInv, FreshInv, CauseInv, ChainAlive, RotationHasCause, Spent,
       provider
  <2>8. QED
    BY <2>4, <2>5, <2>6, <2>7 DEF IInv
<1>2. CASE TokenAges
  <2>1. /\ UNCHANGED <<stored, provider, lease, overrun, call>>
        /\ stale' = stale \cup {stored}
    BY <1>2 DEF TokenAges
  <2>2. TypeOK'
    BY <2>1 DEF IInv, TypeOK, provider
  <2>3. LeaseInv' /\ PostInv'
    BY <2>1 DEF IInv, LeaseInv, PostInv, Rotating, Spent, provider
  <2>4. SpentNeverPresented'
    BY <2>1 DEF IInv, SpentNeverPresented, provider
  <2>5. IssuedInv' /\ FreshInv' /\ CauseInv' /\ ChainAlive' /\ RotationHasCause'
    BY <2>1 DEF IInv, IssuedInv, FreshInv, CauseInv, ChainAlive, RotationHasCause, Spent,
       provider
  <2>6. QED
    BY <2>2, <2>3, <2>4, <2>5 DEF IInv
<1>3. CASE Remint
  <2>1. /\ issued < MaxBundles /\ issued' = issued + 1 /\ stored' = issued
        /\ UNCHANGED <<next, dropped, reused, stale, lease, overrun, call>>
    BY <1>3 DEF Remint
  <2>2. issued \in Bundle /\ issued' \in 1 .. MaxBundles
    BY <2>1 DEF IInv, TypeOK
  <2>3. next[issued] = None
    BY <2>2 DEF IInv, IssuedInv
  <2>4. TypeOK'
    BY <2>1, <2>2 DEF IInv, TypeOK
  <2>5. IssuedInv'
    BY <2>1, <2>2 DEF IInv, IssuedInv, TypeOK
  <2>6. FreshInv'
    BY <2>1, <2>2 DEF IInv, FreshInv, IssuedInv, Spent
  <2>7. ChainAlive'
    BY <2>1, <2>3 DEF ChainAlive, Spent
  <2>8. LeaseInv' /\ PostInv' /\ SpentNeverPresented'
    BY <2>1 DEF IInv, LeaseInv, PostInv, SpentNeverPresented, Rotating, Spent
  <2>9. CauseInv' /\ RotationHasCause'
    BY <2>1 DEF IInv, CauseInv, RotationHasCause
  <2>10. QED
    BY <2>4, <2>5, <2>6, <2>7, <2>8, <2>9 DEF IInv
<1>4. QED
  BY <1>1, <1>2, <1>3

-----------------------------------------------------------------------------
\* The decision under the lease: what was just loaded is used or rotated.
LEMMA SettleIInv ==
  ASSUME IInv, NEW c \in Caller, SettleLeased(c)
  PROVE  IInv'
<1> USE DEF At
<1>1. /\ CallerStep(c) /\ TypeOK /\ call[c] \in Call /\ call \in [Caller -> Call]
      /\ UNCHANGED <<stored, provider, stale, lease, overrun>> /\ call[c].at = "reload"
      /\ stored \in Bundle
  BY DEF CallerStep, IInv, TypeOK, SettleLeased
<1>2. \A d \in Caller : d # c => call'[d] = call[d]
  BY <1>1, OthersStay
<1>3. CASE Usable(c)
  <2>1. call' \in [Caller -> Call] /\ call'[c].at = "release"
    BY <1>1, <1>3, Moves DEF SettleLeased
  <2>2. QED
    BY <1>1, <2>1, StillIInv
<1>4. CASE ~Usable(c)
  <2>1. call' = [call EXCEPT ![c].at = "post", ![c].observed = None, ![c].current = stored]
    BY <1>4 DEF SettleLeased
  <2>2. /\ call' \in [Caller -> Call] /\ call'[c].at = "post" /\ call'[c].current = stored
        /\ call'[c].rejected = call[c].rejected
    BY <1>1, <2>1 DEF Call, Place
  <2>3. TypeOK'
    BY <1>1, <2>2 DEF TypeOK, provider
  <2>4. IssuedInv'
    BY <1>1, <1>2, <2>2 DEF IInv, IssuedInv, provider
  <2>5. FreshInv'
    BY <1>1, <1>2, <2>2 DEF IInv, FreshInv, provider, Spent
  <2>6. LeaseInv'
    BY <1>1, <1>2, <2>2 DEF IInv, LeaseInv, Rotating
  <2>7. ~overrun => ~Spent(stored) \/ next[stored] \in dropped
    <3>1. SUFFICES ASSUME ~overrun, NEW d \in Caller, call[d].at = "save" PROVE FALSE
      BY DEF IInv, ChainAlive
    <3>2. lease = c /\ lease = d
      BY <1>1, <3>1 DEF IInv, LeaseInv, Rotating
    <3>3. QED
      BY <1>1, <3>1, <3>2
  <2>8. PostInv'
    BY <1>1, <1>2, <2>2, <2>7 DEF IInv, PostInv, Spent, provider
  <2>9. CauseInv'
    BY <1>1, <1>2, <2>2 DEF IInv, CauseInv
  <2>10. c \notin Canary => stored \in stale \/ stored = call[c].rejected
    BY <1>1, <1>4 DEF Usable, Required, IInv, CauseInv
  <2>11. RotationHasCause'
    BY <1>1, <1>2, <2>2, <2>10 DEF IInv, RotationHasCause
  <2>12. SpentNeverPresented' /\ ChainAlive'
    BY <1>1, <1>2, <2>2 DEF IInv, SpentNeverPresented, ChainAlive, Spent, provider
  <2>13. QED
    BY <2>3, <2>4, <2>5, <2>6, <2>8, <2>9, <2>11, <2>12 DEF IInv
<1>5. QED
  BY <1>3, <1>4

\* The provider rotates; its answer arrives or is lost.
LEMMA RotateIInv ==
  ASSUME IInv, NEW c \in Caller, Rotate(c) \/ LoseAnswer(c)
  PROVE  IInv'
<1> USE DEF At
<1> DEFINE b == call[c].current
<1>1. /\ CallerStep(c) /\ TypeOK /\ call[c] \in Call /\ call \in [Caller -> Call]
      /\ UNCHANGED <<stored, reused, stale, lease, overrun>> /\ call[c].at = "post"
      /\ ~Spent(b) /\ issued < MaxBundles /\ issued' = issued + 1
      /\ next' = [next EXCEPT ![b] = issued]
  BY DEF CallerStep, IInv, TypeOK, Rotate, LoseAnswer, RotateInto
<1>2. \A d \in Caller : d # c => call'[d] = call[d]
  BY <1>1, OthersStay
<1>3. issued \in Bundle /\ issued' \in 1 .. MaxBundles
  BY <1>1 DEF TypeOK
<1>4. b \in Bundle /\ b < issued
  BY <1>1 DEF IInv, IssuedInv
<1>5. /\ next'[b] = issued /\ \A a \in Bundle : a # b => next'[a] = next[a]
      /\ next' \in [Bundle -> Bundle \cup {None}]
  BY <1>1, <1>3, <1>4 DEF TypeOK
<1>6. /\ call' \in [Caller -> Call]
      /\ \/ /\ call'[c].at = "save" /\ call'[c].answer = issued /\ dropped' = dropped
         \/ call'[c].at = "release" /\ dropped' = dropped \cup {issued}
  <2>1. CASE Rotate(c)
    <3>1. call' = [call EXCEPT ![c].at = "save", ![c].answer = issued] /\ dropped' = dropped
      BY <2>1 DEF Rotate
    <3>2. QED
      BY <1>1, <1>3, <3>1 DEF Call, Place
  <2>2. CASE LoseAnswer(c)
    BY <1>1, <2>2, Moves DEF LoseAnswer
  <2>3. QED
    BY <2>1, <2>2
<1>7. TypeOK'
  BY <1>1, <1>3, <1>5, <1>6 DEF TypeOK
<1>8. IssuedInv'
  <2>1. \A a \in Bundle : next'[a] # None => a < issued' /\ next'[a] < issued'
    BY <1>1, <1>3, <1>4, <1>5 DEF IInv, IssuedInv, TypeOK
  <2>2. \A d \in Caller :
          /\ call'[d].at = "post" => call'[d].current \in Bundle /\ call'[d].current < issued'
          /\ call'[d].at = "save" => call'[d].answer \in Bundle /\ call'[d].answer < issued'
    BY <1>1, <1>2, <1>3, <1>6 DEF IInv, IssuedInv
  <2>3. stored' < issued'
    BY <1>1, <1>3 DEF IInv, IssuedInv, TypeOK
  <2>4. QED
    BY <2>1, <2>2, <2>3 DEF IssuedInv
<1>9. FreshInv'
  <2>1. next'[issued] = None /\ stored # issued
    BY <1>3, <1>4, <1>5 DEF IInv, IssuedInv, TypeOK
  <2>2. \A d \in Caller :
          /\ call[d].at = "post" => call[d].current # issued
          /\ call[d].at = "save" => call[d].answer # issued /\ call[d].answer # b
               /\ call[d].answer \in Bundle
    BY <1>1, <1>3 DEF IInv, IssuedInv, FreshInv, TypeOK
  <2>3. QED
    BY <1>1, <1>2, <1>5, <1>6, <2>1, <2>2 DEF IInv, FreshInv, Spent
<1>10. LeaseInv'
  BY <1>1, <1>2, <1>6 DEF IInv, LeaseInv, Rotating
<1>11. PostInv'
  <2>1. ASSUME ~overrun, NEW d \in Caller, d # c, call[d].at = "post" PROVE FALSE
    BY <1>1, <2>1 DEF IInv, LeaseInv, Rotating
  <2>2. QED
    BY <1>1, <1>2, <1>6, <2>1 DEF PostInv
<1>12. CauseInv' /\ RotationHasCause'
  BY <1>1, <1>2, <1>6 DEF IInv, CauseInv, RotationHasCause
<1>13. \A a \in Bundle : Spent(a) => a # b /\ next'[a] = next[a]
  BY <1>1, <1>5
<1>14. SpentNeverPresented'
  <2>1. \A a \in reused : overrun \/ (next[a] \in dropped /\ next'[a] = next[a])
    <3>1. SUFFICES ASSUME NEW a \in reused, ~overrun
                   PROVE  next[a] \in dropped /\ next'[a] = next[a]
      OBVIOUS
    <3>2. a \in Bundle /\ next[a] \in dropped /\ dropped \subseteq Bundle
      BY <3>1 DEF IInv, SpentNeverPresented, TypeOK
    <3>3. Spent(a)
      BY <3>2 DEF Spent
    <3>4. QED
      BY <1>13, <3>2, <3>3
  <2>2. QED
    BY <1>1, <1>6, <2>1 DEF SpentNeverPresented
<1>15. ChainAlive'
  <2>1. CASE stored = b
    BY <1>1, <1>5, <1>6, <2>1 DEF ChainAlive
  <2>2. CASE stored # b
    <3>1. next'[stored] = next[stored]
      BY <1>5, <2>2 DEF IInv, TypeOK
    <3>2. dropped \subseteq dropped'
      BY <1>6
    <3>3. QED
      BY <1>1, <1>2, <3>1, <3>2 DEF IInv, ChainAlive, Spent
  <2>3. QED
    BY <2>1, <2>2
<1>16. QED
  BY <1>7, <1>8, <1>9, <1>10, <1>11, <1>12, <1>14, <1>15 DEF IInv

\* A spent token is refused.
LEMMA RefusedIInv ==
  ASSUME IInv, NEW c \in Caller, RefreshRefused(c)
  PROVE  IInv'
<1> USE DEF At
<1> DEFINE b == call[c].current
<1>1. /\ CallerStep(c) /\ TypeOK /\ call[c].at = "post" /\ b \in Bundle
      /\ UNCHANGED <<stored, issued, next, dropped, stale, lease, overrun>>
      /\ reused' = IF Spent(b) THEN reused \cup {b} ELSE reused
  BY DEF CallerStep, IInv, IssuedInv, RefreshRefused
<1>2. \A d \in Caller : d # c => call'[d] = call[d]
  BY <1>1, OthersStay
<1>3. call' \in [Caller -> Call] /\ call'[c].at = "release"
  BY <1>1, Moves DEF RefreshRefused
<1>4. TypeOK'
  BY <1>1, <1>3 DEF TypeOK
<1>5. IssuedInv' /\ FreshInv'
  BY <1>1, <1>2, <1>3 DEF IInv, IssuedInv, FreshInv, Spent
<1>6. LeaseInv' /\ PostInv'
  BY <1>1, <1>2, <1>3 DEF IInv, LeaseInv, PostInv, Rotating, Spent
<1>7. CauseInv' /\ RotationHasCause' /\ ChainAlive'
  BY <1>1, <1>2, <1>3 DEF IInv, CauseInv, RotationHasCause, ChainAlive, Spent
<1>8. SpentNeverPresented'
  <2>1. Spent(b) => overrun \/ next[b] \in dropped
    BY <1>1 DEF IInv, PostInv
  <2>2. QED
    BY <1>1, <2>1 DEF IInv, SpentNeverPresented
<1>9. QED
  BY <1>4, <1>5, <1>6, <1>7, <1>8 DEF IInv

\* The rotated bundle is written over whatever the parameter holds.
LEMMA PutIInv ==
  ASSUME IInv, NEW c \in Caller, Put(c)
  PROVE  IInv'
<1> USE DEF At
<1> DEFINE a == call[c].answer
<1>1. /\ CallerStep(c) /\ TypeOK /\ call[c] \in Call /\ call \in [Caller -> Call]
      /\ UNCHANGED <<provider, stale, lease, overrun>> /\ call[c].at = "save" /\ stored' = a
  BY DEF CallerStep, IInv, TypeOK, Put
<1>2. \A d \in Caller : d # c => call'[d] = call[d]
  BY <1>1, OthersStay
<1>3. call' \in [Caller -> Call] /\ call'[c].at \in {"confirm", "release"}
  <2>1. CASE Goes(c, "confirm")
    BY <1>1, <2>1 DEF Goes, Call, Place
  <2>2. CASE Releases(c, None)
    BY <1>1, <2>2, Moves
  <2>3. QED
    BY <2>1, <2>2 DEF Put
<1>4. a \in Bundle /\ a < issued /\ ~Spent(a)
  BY <1>1 DEF IInv, IssuedInv, FreshInv
<1>5. TypeOK'
  BY <1>1, <1>3, <1>4 DEF TypeOK, provider
<1>6. IssuedInv'
  BY <1>1, <1>2, <1>3, <1>4 DEF IInv, IssuedInv, provider
<1>7. FreshInv'
  BY <1>1, <1>2, <1>3 DEF IInv, FreshInv, Spent, provider
<1>8. LeaseInv' /\ PostInv'
  BY <1>1, <1>2, <1>3 DEF IInv, LeaseInv, PostInv, Rotating, Spent, provider
<1>9. CauseInv' /\ RotationHasCause' /\ SpentNeverPresented'
  BY <1>1, <1>2, <1>3 DEF IInv, CauseInv, RotationHasCause, SpentNeverPresented, provider
<1>10. ChainAlive'
  BY <1>1, <1>4 DEF ChainAlive, Spent, provider
<1>11. QED
  BY <1>5, <1>6, <1>7, <1>8, <1>9, <1>10 DEF IInv

\* The rotated bundle is lost with the write or with the process.
LEMMA LossIInv ==
  ASSUME IInv, NEW c \in Caller, PutFails(c) \/ Crash(c)
  PROVE  IInv'
<1> USE DEF At
<1> DEFINE a == call[c].answer
<1>1. /\ CallerStep(c) /\ TypeOK /\ UNCHANGED <<stored, issued, next, reused, stale, lease, overrun>>
  BY DEF CallerStep, IInv, PutFails, Crash
<1>2. \A d \in Caller : d # c => call'[d] = call[d]
  BY <1>1, OthersStay
<1>3. /\ call' \in [Caller -> Call] /\ call'[c].at \in {"idle", "release"}
      /\ call'[c].at = "idle" => call'[c].rejected = None
  BY <1>1, Moves DEF PutFails, Crash, Idle
<1>4. CASE call[c].at # "save"
  <2>1. dropped' = dropped
    BY <1>4 DEF PutFails, Crash
  <2>2. QED
    BY <1>1, <1>3, <1>4, <2>1, StillIInv DEF provider
<1>5. CASE call[c].at = "save"
  <2>1. dropped' = dropped \cup {a} /\ a \in Bundle
    BY <1>5 DEF PutFails, Crash, IInv, IssuedInv
  <2>2. TypeOK'
    BY <1>1, <1>3, <2>1 DEF TypeOK
  <2>3. IssuedInv' /\ FreshInv'
    BY <1>1, <1>2, <1>3 DEF IInv, IssuedInv, FreshInv, Spent
  <2>4. LeaseInv' /\ PostInv'
    BY <1>1, <1>2, <1>3, <2>1 DEF IInv, LeaseInv, PostInv, Rotating, Spent
  <2>5. CauseInv' /\ RotationHasCause' /\ SpentNeverPresented'
    BY <1>1, <1>2, <1>3, <2>1 DEF IInv, CauseInv, RotationHasCause, SpentNeverPresented
  <2>6. ChainAlive'
    BY <1>1, <1>2, <2>1 DEF IInv, ChainAlive, Spent
  <2>7. QED
    BY <2>2, <2>3, <2>4, <2>5, <2>6 DEF IInv
<1>6. QED
  BY <1>4, <1>5

-----------------------------------------------------------------------------
\* Every step keeps the inductive invariant.
LEMMA NextIInv == IInv /\ [Next]_vars => IInv'
<1> SUFFICES ASSUME IInv, [Next]_vars PROVE IInv'
  OBVIOUS
<1>1. CASE UNCHANGED vars
  <2> USE <1>1 DEF vars, IInv
  <2>1. TypeOK' /\ IssuedInv' /\ FreshInv'
    BY DEF TypeOK, IssuedInv, FreshInv, At, Spent
  <2>2. LeaseInv' /\ PostInv' /\ CauseInv'
    BY DEF LeaseInv, PostInv, CauseInv, Rotating, At, Spent
  <2>3. SpentNeverPresented' /\ ChainAlive' /\ RotationHasCause'
    BY DEF SpentNeverPresented, ChainAlive, RotationHasCause, Spent
  <2>4. QED
    BY <2>1, <2>2, <2>3
<1>2. ASSUME NEW c \in Caller, CallerStep(c) PROVE IInv'
  BY <1>2, LooksIInv, LeaseIInv, SettleIInv, RotateIInv, RefusedIInv, PutIInv, LossIInv
  DEF CallerStep
<1>3. QED
  BY <1>1, <1>2, EnvironmentIInv DEF Next

\* The inductive invariant holds of every reachable state.
THEOREM Invariance == Spec => []IInv
  BY InitIInv, NextIInv, PTL DEF Spec

\* The variables keep their types.
THEOREM TypeCorrect == Spec => []TypeOK
<1>1. IInv => TypeOK
  BY DEF IInv
<1>2. QED
  BY <1>1, Invariance, PTL

\* refresh_if_needed under its lease: a spent refresh token is presented only after
\* an overrun lease or the loss of the bundle it was rotated into.
THEOREM NoReuse == Spec => []SpentNeverPresented
<1>1. IInv => SpentNeverPresented
  BY DEF IInv
<1>2. QED
  BY <1>1, Invariance, PTL

\* The parameter never falls back to a spent token that somebody replaced.
THEOREM ParameterAlive == Spec => []ChainAlive
<1>1. IInv => ChainAlive
  BY DEF IInv
<1>2. QED
  BY <1>1, Invariance, PTL

\* Nobody but the canary rotates a token that is fresh and was not refused.
THEOREM RotationJustified == Spec => []RotationHasCause
<1>1. IInv => RotationHasCause
  BY DEF IInv
<1>2. QED
  BY <1>1, Invariance, PTL

=============================================================================
