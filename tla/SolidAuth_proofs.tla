-------------------------- MODULE SolidAuth_proofs --------------------------
(***************************************************************************)
(* TypeOK, AcceptedOnce and CapacityWellSpent of SolidAuth, for any set of *)
(* proofs, whatever ids and instants they carry, any age limit, capacity   *)
(* and number of keys.                                                     *)
(***************************************************************************)
EXTENDS SolidAuth, FiniteSetTheorems, TLAPS

(* Once a proof is decoded the request has one.                            *)
ProofAtHand == pc \in {"decoded", "binding"} => request.proof \in Proof

(* What this process has accepted and no longer remembers had expired when *)
(* it last pruned, or before, whatever the clock has done since.           *)
ForgottenIsExpired == \A p \in used \ seen : pruned >= Expiry(p)

IInv ==
    /\ TypeOK /\ ProofAtHand /\ ForgottenIsExpired /\ AcceptedOnce
    /\ CapacityWellSpent /\ IsFiniteSet(seen)

-----------------------------------------------------------------------------
(* Expiry dates are integers, comparable with the clock.                   *)
LEMMA ExpiryIsInt == ASSUME NEW p \in Proof PROVE Expiry(p) \in Int
BY IatAssumption, TimeAssumption DEF Expiry

(* The entries that have not expired are entries, at most as many.         *)
LEMMA PrunedIsSmaller ==
  ASSUME IsFiniteSet(seen)
  PROVE  /\ Unexpired \subseteq seen
         /\ IsFiniteSet(Unexpired)
         /\ Cardinality(Unexpired) <= Cardinality(seen)
<1>1. Unexpired \subseteq seen
  BY DEF Unexpired
<1> QED
  BY <1>1, FS_Subset

(* The initial state.                                                      *)
LEMMA InitIInv == Init => IInv
<1> SUFFICES ASSUME Init PROVE IInv
  OBVIOUS
<1>1. TypeOK
  <2>1. request \in Request
    BY DEF Init, Request, Defect
  <2>2. clock \in 0 .. MaxTime /\ pruned \in 0 .. MaxTime
    BY TimeAssumption DEF Init
  <2> QED
    BY <2>1, <2>2 DEF Init, TypeOK
<1>2. IsFiniteSet(seen) /\ Cardinality(seen) <= Capacity
  BY FS_EmptySet, CapacityAssumption DEF Init
<1> QED
  BY <1>1, <1>2 DEF Init, IInv, ProofAtHand, ForgottenIsExpired, AcceptedOnce, CapacityWellSpent

(* A step that leaves the replay cache alone disturbs only the types and   *)
(* what is known of the request.                                           *)
LEMMA CacheUntouched ==
  ASSUME IInv, TypeOK', ProofAtHand', UNCHANGED <<seen, used, reused, pruned>>
  PROVE  IInv'
<1>1. ForgottenIsExpired' /\ AcceptedOnce' /\ IsFiniteSet(seen)'
  BY DEF IInv, ForgottenIsExpired, AcceptedOnce, Expiry
<1>2. CapacityWellSpent'
  BY DEF IInv, CapacityWellSpent
<1> QED
  BY <1>1, <1>2 DEF IInv

(* Time passes, or the clock is set back: the cache is pruned by neither.  *)
LEMMA ClockIInv == IInv /\ (Tick \/ SetBack) => IInv'
<1> SUFFICES ASSUME IInv, Tick \/ SetBack PROVE IInv'
  OBVIOUS
<1>1. TypeOK' /\ ProofAtHand'
  BY TimeAssumption DEF IInv, Tick, SetBack, TypeOK, ProofAtHand, processVars, Request
<1> QED
  BY <1>1, CacheUntouched DEF Tick, SetBack, processVars

(* What pruning adds to the history: the clock it used, and what had       *)
(* expired by an earlier one still has.                                    *)
LEMMA PruneMovesForward ==
  ASSUME TypeOK, Prune
  PROVE  /\ pruned' \in 0 .. MaxTime /\ pruned' >= clock
         /\ \A p \in Proof : pruned >= Expiry(p) => pruned' >= Expiry(p)
<1>1. clock \in Int /\ pruned \in Int
  BY DEF TypeOK
<1>2. \A p \in Proof : Expiry(p) \in Int
  BY ExpiryIsInt
<1> QED
  BY <1>1, <1>2 DEF TypeOK, Prune

(* A proof that was accepted and is not among the unexpired had expired by *)
(* the instant of this pruning, or of an earlier one.                      *)
LEMMA NotUnexpired ==
  ASSUME IInv, Prune
  PROVE  \A p \in used \ Unexpired : pruned' >= Expiry(p)
<1> SUFFICES ASSUME NEW p \in used \ Unexpired PROVE pruned' >= Expiry(p)
  OBVIOUS
<1>1. p \in Proof /\ Expiry(p) \in Int /\ clock \in Int /\ TypeOK
  BY ExpiryIsInt DEF IInv, TypeOK
<1>2. /\ pruned' \in Int /\ pruned' >= clock
      /\ pruned >= Expiry(p) => pruned' >= Expiry(p)
  BY <1>1, PruneMovesForward
<1>3. CASE p \in seen
  BY <1>1, <1>2, <1>3 DEF Unexpired
<1>4. CASE p \notin seen
  BY <1>2, <1>4 DEF IInv, ForgottenIsExpired
<1> QED
  BY <1>3, <1>4

(* The steps before the replay cache.                                      *)
LEMMA EarlyStepIInv ==
  ASSUME IInv,
         \/ \E K \in SUBSET Key : Rotate(K)
         \/ \E r \in Request : Begin(r)
         \/ RejectToken \/ UseCachedKeys \/ FetchKeys \/ FetchKeysFails \/ RejectClaims
         \/ RejectScheme \/ AcceptBearer \/ RejectProof \/ DecodeProof \/ RejectStale
         \/ ProofIsFresh \/ RejectBinding
  PROVE  IInv'
<1>0. TypeOK /\ ProofAtHand
  BY DEF IInv
<1> SUFFICES TypeOK' /\ ProofAtHand' /\ UNCHANGED <<seen, used, reused, pruned>>
  BY CacheUntouched
<1>1. CASE \E K \in SUBSET Key : Rotate(K)
  BY <1>0, <1>1 DEF Rotate, TypeOK, ProofAtHand, processVars
<1>2. CASE \E r \in Request : Begin(r)
  BY <1>0, <1>2 DEF Begin, TypeOK, ProofAtHand, processVars
<1>3. CASE RejectToken \/ FetchKeysFails \/ RejectClaims \/ RejectScheme
  BY <1>0, <1>3 DEF RejectToken, FetchKeysFails, RejectClaims, RejectScheme, Finish,
     TypeOK, ProofAtHand, processVars
<1>4. CASE AcceptBearer \/ RejectProof
  BY <1>0, <1>4 DEF AcceptBearer, RejectProof, Finish, TypeOK, ProofAtHand, processVars
<1>8. CASE RejectStale \/ RejectBinding
  BY <1>0, <1>8 DEF RejectStale, RejectBinding, Finish, TypeOK, ProofAtHand, processVars
<1>5. CASE UseCachedKeys
  BY <1>0, <1>5 DEF UseCachedKeys, GoOn, TypeOK, ProofAtHand, processVars
<1>6. CASE FetchKeys
  <2>1. jwksCached' \in BOOLEAN /\ jwks' \in SUBSET Key
    BY <1>0, <1>6 DEF FetchKeys, TypeOK
  <2> QED
    BY <1>0, <1>6, <2>1 DEF FetchKeys, GoOn, TypeOK, ProofAtHand
<1>7. CASE DecodeProof \/ ProofIsFresh
  BY <1>0, <1>7 DEF DecodeProof, ProofIsFresh, HasProof, GoOn, TypeOK, ProofAtHand, processVars, Request
<1> QED
  BY <1>1, <1>2, <1>3, <1>4, <1>5, <1>6, <1>7, <1>8

(* A request refused at the replay cache leaves it pruned.                 *)
LEMMA PruneIInv == IInv /\ (RejectReplay \/ RejectCapacity) => IInv'
<1> SUFFICES ASSUME IInv, RejectReplay \/ RejectCapacity PROVE IInv'
  OBVIOUS
<1>1. /\ seen' = Unexpired /\ Prune
      /\ UNCHANGED <<clock, published, request, requireDpop, jwksCached, jwks, used, reused>>
      /\ pc' = "idle"
      /\ result' \in [status : {401, 503}, error : {"replay", "capacity"}]
  BY DEF RejectReplay, RejectCapacity, Finish
<1>2. /\ Unexpired \subseteq seen /\ IsFiniteSet(Unexpired)
      /\ Cardinality(Unexpired) <= Cardinality(seen)
  BY PrunedIsSmaller DEF IInv
<1>3. TypeOK' /\ ProofAtHand'
  BY <1>1, <1>2, PruneMovesForward DEF IInv, TypeOK, ProofAtHand
<1>4. ForgottenIsExpired'
  BY <1>1, NotUnexpired DEF ForgottenIsExpired, Expiry
<1>5. AcceptedOnce'
  BY <1>1, PruneMovesForward DEF IInv, TypeOK, AcceptedOnce, Expiry
<1>6. Cardinality(seen) \in Nat /\ Cardinality(Unexpired) \in Nat
  BY <1>2, FS_CardinalityType DEF IInv
<1>7. CapacityWellSpent'
  BY <1>1, <1>2, <1>6, CapacityAssumption DEF IInv, CapacityWellSpent
<1> QED
  BY <1>1, <1>2, <1>3, <1>4, <1>5, <1>7 DEF IInv

(* An accepted proof: it was not remembered, hence, if it was used before, *)
(* it had expired by a reading of the clock that pruned the cache.         *)
LEMMA AcceptProofIInv == IInv /\ AcceptProof => IInv'
<1> SUFFICES ASSUME IInv, AcceptProof PROVE IInv'
  OBVIOUS
<1> DEFINE p == request.proof
<1>1. p \in Proof
  BY DEF IInv, ProofAtHand, AcceptProof
<1>2. /\ Unexpired \subseteq seen /\ IsFiniteSet(Unexpired)
      /\ Cardinality(Unexpired) \in Nat
  BY PrunedIsSmaller, FS_CardinalityType DEF IInv
<1>3. p \notin Unexpired /\ \A q \in used : Jti[q] = Jti[p] => q \in used \ Unexpired
  BY DEF AcceptProof, Replayed
<1>4. TypeOK' /\ ProofAtHand'
  BY <1>1, <1>2, PruneMovesForward DEF IInv, AcceptProof, Finish, TypeOK, ProofAtHand
<1>5. \A q \in used \ Unexpired : pruned' >= Expiry(q)
  BY NotUnexpired DEF AcceptProof
<1>6. ForgottenIsExpired'
  BY <1>5 DEF AcceptProof, ForgottenIsExpired, Expiry
<1>7. AcceptedOnce'
  BY <1>3, <1>5, PruneMovesForward DEF IInv, TypeOK, AcceptProof, AcceptedOnce, Expiry
<1>8. /\ IsFiniteSet(Unexpired \cup {p})
      /\ Cardinality(Unexpired \cup {p}) = Cardinality(Unexpired) + 1
  BY <1>2, <1>3, FS_AddElement
<1>9. CapacityWellSpent'
  <2>1. seen' \subseteq used'
    BY <1>2 DEF IInv, CapacityWellSpent, AcceptProof
  <2>2. Cardinality(seen') <= Capacity
    BY <1>2, <1>8, CapacityAssumption DEF AcceptProof
  <2>3. \A q, r \in seen' : Jti[q] = Jti[r] => q = r
    BY <1>2 DEF IInv, CapacityWellSpent, AcceptProof, Replayed
  <2> QED
    BY <2>1, <2>2, <2>3 DEF CapacityWellSpent
<1> QED
  BY <1>4, <1>6, <1>7, <1>8, <1>9 DEF IInv, AcceptProof

(* A new process has accepted nothing yet.                                 *)
LEMMA RestartIInv == IInv /\ Restart => IInv'
<1> SUFFICES ASSUME IInv, Restart PROVE IInv'
  OBVIOUS
<1>1. TypeOK'
  <2>1. pruned' \in 0 .. MaxTime
    BY TimeAssumption DEF Restart
  <2> QED
    BY <2>1 DEF IInv, Restart, TypeOK
<1>2. IsFiniteSet(seen') /\ Cardinality(seen') <= Capacity
  BY FS_EmptySet, CapacityAssumption DEF Restart
<1> QED
  BY <1>1, <1>2 DEF Restart, IInv, ProofAtHand, ForgottenIsExpired, AcceptedOnce,
     CapacityWellSpent

(* Every step.                                                             *)
LEMMA NextIInv == IInv /\ [Next]_vars => IInv'
<1> SUFFICES ASSUME IInv, [Next]_vars PROVE IInv'
  OBVIOUS
<1>1. CASE UNCHANGED vars
  BY <1>1, CacheUntouched DEF IInv, TypeOK, ProofAtHand, vars, processVars
<1> QED
  BY <1>1, ClockIInv, EarlyStepIInv, PruneIInv, AcceptProofIInv, RestartIInv
     DEF Next, AuthStep

(* The invariant in every reachable state.                                 *)
LEMMA AuthInvariance == Spec => []IInv
BY InitIInv, NextIInv, PTL DEF Spec

(* The types of the authentication, and the statuses it raises.            *)
THEOREM AuthTypeCorrect == Spec => []TypeOK
<1>1. IInv => TypeOK
  BY DEF IInv
<1> QED
  BY <1>1, AuthInvariance, PTL

(* No process accepts the id of a proof again before it has pruned its     *)
(* cache at the proof's expiry or later: the readings of the clock that    *)
(* _verify_dpop_proof makes leave no gap, also when the clock is set back. *)
THEOREM ProofsAreAcceptedOnce == Spec => []AcceptedOnce
<1>1. IInv => AcceptedOnce
  BY DEF IInv
<1> QED
  BY <1>1, AuthInvariance, PTL

(* Only accepted proofs occupy the replay cache, one entry for each id, and *)
(* never more than its capacity.                                            *)
THEOREM CapacityIsWellSpent == Spec => []CapacityWellSpent
<1>1. IInv => CapacityWellSpent
  BY DEF IInv
<1> QED
  BY <1>1, AuthInvariance, PTL
=============================================================================
