----------------------------- MODULE SolidAuth -----------------------------
(***************************************************************************)
(* OidcSolidAuth.authenticate (catalog/modes/solid/auth.py): the access    *)
(* token is verified against the issuer's keys, then the DPoP proof, which *)
(* a process accepts once.                                                 *)
(*                                                                         *)
(* authenticate runs on the event loop, so requests pass through it one    *)
(* after another; but it blocks on HTTP (discovery and JWKS) and the wall  *)
(* clock is read three times, by PyJWT and in lines 246 and 257, so time   *)
(* passes inside it, and the clock may be set back.  Signatures, hashes    *)
(* and claims are abstracted to the check a request fails, if any.  Two    *)
(* proofs may carry one jti: a client that re-signs with a new iat keeps   *)
(* the id.                                                                 *)
(***************************************************************************)
EXTENDS Integers, FiniteSets

CONSTANTS
    Proof,     \* DPoP proofs
    Jti,       \* the proof_id (key thumbprint and jti) of each
    Iat,       \* the iat of each
    Key,       \* signing keys the issuer may publish
    MaxAge,    \* dpop_max_age_seconds
    Capacity,  \* 10000 in the code
    MaxTime,   \* bound: the clock stops here
    NoProof    \* a request without a DPoP header

ASSUME TimeAssumption == MaxAge \in Nat /\ MaxTime \in Nat
ASSUME IatAssumption == Iat \in [Proof -> Int]
ASSUME CapacityAssumption == Capacity \in Nat \ {0}
ASSUME NoProofAssumption == NoProof \notin Proof

VARIABLES
    requireDpop, \* require_dpop, read when the process starts
    clock,     \* time.time(), in whole seconds
    published, \* the keys the issuer publishes
    jwksCached, \* the issuer is in _jwks_cache
    jwks,      \* the keys cached for it
    seen,      \* _seen_proofs: a proof p stands for the entry Jti[p] |-> Expiry(p)
    pc,        \* where authenticate is
    request,   \* the request it works on
    result,    \* the HTTP status and error of the last request, 200 for a user
    used,      \* history: the proofs this process has accepted
    reused,    \* history: those whose proof_id it has accepted again
    pruned     \* history: the latest `now` at which it has pruned seen

processVars == <<requireDpop, jwksCached, jwks, seen, used, reused, pruned>>
vars == <<clock, published, processVars, pc, request, result>>

\* The first check a request fails, in the order of the code.
Defect == {"none",
           "token",    \* lines 114-123: header, form, issuer
           "claims",   \* lines 182-189 and 126-128: signature, expiry, WebID
           "scheme",   \* lines 131-135: not DPoP, or no proof header
           "proof",    \* lines 216-243: proof form, signature, htm, htu, jti
           "binding"}  \* lines 249-255: cnf.jkt, ath

Request == [proof : Proof \cup {NoProof}, key : Key, defect : Defect]

Expiry(p) == Iat[p] + MaxAge

\* abs(time.time() - iat) <= dpop_max_age_seconds
Fresh(p) == clock - Iat[p] <= MaxAge /\ Iat[p] - clock <= MaxAge

-----------------------------------------------------------------------------
(* The environment. *)

Tick ==
    /\ clock < MaxTime
    /\ clock' = clock + 1
    /\ UNCHANGED <<published, processVars, pc, request, result>>

\* The wall clock is corrected: time.time() is not monotonic.
SetBack ==
    /\ \E t \in 0 .. MaxTime : t < clock /\ clock' = t
    /\ UNCHANGED <<published, processVars, pc, request, result>>

\* The issuer rotates its keys.
Rotate(K) ==
    /\ published' = K
    /\ UNCHANGED <<clock, processVars, pc, request, result>>

-----------------------------------------------------------------------------
(* authenticate. *)

\* An exception, or a user: the call is over.  500 stands for an exception that is
\* no SolidAuthError: push_catalog does not catch it and the framework answers.
Finish(status, error) ==
    /\ pc' = "idle"
    /\ result' = [status |-> status, error |-> error]
    /\ UNCHANGED <<clock, published, request>>

GoOn(next) ==
    /\ pc' = next
    /\ UNCHANGED <<clock, published, request, result>>

Begin(r) ==
    /\ pc = "idle"
    /\ request' = r
    /\ pc' = "token"
    /\ result' = [status |-> 0, error |-> "none"]
    /\ UNCHANGED <<clock, published, processVars>>

\* Lines 114-123: 401 for the token, 503 without a configured issuer.
RejectToken ==
    /\ pc = "token"
    /\ request.defect = "token"
    /\ \E s \in {401, 503} : Finish(s, "token")
    /\ UNCHANGED processVars

\* Line 162: the issuer's keys are cached for the life of the process.
UseCachedKeys ==
    /\ pc = "token"
    /\ request.defect # "token"
    /\ jwksCached
    /\ GoOn("claims")
    /\ UNCHANGED processVars

\* Lines 163-167: discovery document, then JWKS.
FetchKeys ==
    /\ pc = "token"
    /\ request.defect # "token"
    /\ ~jwksCached
    /\ jwksCached' = TRUE
    /\ jwks' = published
    /\ GoOn("claims")
    /\ UNCHANGED <<requireDpop, seen, used, reused, pruned>>

\* Mutant of FetchKeysFails: the upstream failure is passed on as one.
FetchKeysFails502 ==
    /\ pc = "token"
    /\ request.defect # "token"
    /\ ~jwksCached
    /\ Finish(502, "keys")
    /\ UNCHANGED processVars

\* Any failure of those requests becomes a 401 (line 193).
FetchKeysFails ==
    /\ pc = "token"
    /\ request.defect # "token"
    /\ ~jwksCached
    /\ Finish(401, "keys")
    /\ UNCHANGED processVars

\* Lines 170-193 and 126-128.
RejectClaims ==
    /\ pc = "claims"
    /\ request.key \notin jwks \/ request.defect = "claims"
    /\ Finish(401, "claims")
    /\ UNCHANGED processVars

TokenVerified ==
    pc = "claims" /\ request.key \in jwks /\ request.defect # "claims"

\* Lines 130-135: a proof is demanded and the request brings none.
RejectScheme ==
    /\ TokenVerified
    /\ requireDpop
    /\ request.defect = "scheme" \/ request.proof = NoProof
    /\ Finish(401, "scheme")
    /\ UNCHANGED processVars

\* Line 145 with require_dpop off and no proof to verify.
AcceptBearer ==
    /\ TokenVerified
    /\ ~requireDpop
    /\ request.defect = "scheme" \/ request.proof = NoProof
    /\ Finish(200, "none")
    /\ UNCHANGED processVars

HasProof == TokenVerified /\ request.defect # "scheme" /\ request.proof # NoProof

\* Lines 215-243: form, signature, method, URL and id.  jwt.decode checks iat,
\* too: a proof issued after its reading of the clock is not valid yet.
RejectProof ==
    /\ HasProof
    /\ request.defect = "proof" \/ Iat[request.proof] > clock
    /\ Finish(401, "proof")
    /\ UNCHANGED processVars

DecodeProof ==
    /\ HasProof
    /\ request.defect # "proof" /\ Iat[request.proof] <= clock
    /\ GoOn("decoded")
    /\ UNCHANGED processVars

\* Lines 245-247, by a reading of its own.  An iat too far in the past to be
\* subtracted from a float raises OverflowError.
RejectStale ==
    /\ pc = "decoded"
    /\ ~Fresh(request.proof)
    /\ \E s \in {401, 500} : Finish(s, "proof")
    /\ UNCHANGED processVars

\* Mutant of ProofIsFresh: the proof is recorded before its binding is checked.
RecordEarly ==
    /\ pc = "decoded"
    /\ Fresh(request.proof)
    /\ seen' = seen \cup {request.proof}
    /\ GoOn("binding")
    /\ UNCHANGED <<requireDpop, jwksCached, jwks, used, reused, pruned>>

ProofIsFresh ==
    /\ pc = "decoded"
    /\ Fresh(request.proof)
    /\ GoOn("binding")
    /\ UNCHANGED processVars

\* Lines 249-255: a token whose signature part is not ASCII raises where it is
\* encoded to be hashed.
RejectBinding ==
    /\ pc = "binding"
    /\ request.defect = "binding"
    /\ \E s \in {401, 500} : Finish(s, "binding")
    /\ UNCHANGED processVars

\* Mutant of Unexpired: entries are pruned by their iat.
UnexpiredByIat == {p \in seen : Iat[p] >= clock}

\* Line 258: what is left of _seen_proofs at this reading of the clock.
Unexpired == {p \in seen : Expiry(p) > clock}

\* The latest instant the process has pruned by.
Prune == pruned' = IF clock > pruned THEN clock ELSE pruned

Replayed(p) == \E q \in Unexpired : Jti[q] = Jti[p]

\* Lines 256-264: the entries are pruned whatever the outcome.
RejectReplay ==
    /\ pc = "binding"
    /\ request.defect # "binding"
    /\ Replayed(request.proof)
    /\ seen' = Unexpired
    /\ Prune
    /\ Finish(401, "replay")
    /\ UNCHANGED <<requireDpop, jwksCached, jwks, used, reused>>

\* Mutant of RejectCapacity: the request waits for room.
AwaitCapacity ==
    /\ pc = "binding"
    /\ request.defect # "binding"
    /\ ~Replayed(request.proof)
    /\ Cardinality(Unexpired) >= Capacity
    /\ UNCHANGED vars

RejectCapacity ==
    /\ pc = "binding"
    /\ request.defect # "binding"
    /\ ~Replayed(request.proof)
    /\ Cardinality(Unexpired) >= Capacity
    /\ seen' = Unexpired
    /\ Prune
    /\ Finish(503, "capacity")
    /\ UNCHANGED <<requireDpop, jwksCached, jwks, used, reused>>

AcceptProof ==
    /\ pc = "binding"
    /\ request.defect # "binding"
    /\ ~Replayed(request.proof)
    /\ Cardinality(Unexpired) < Capacity
    /\ seen' = Unexpired \cup {request.proof}
    /\ Prune
    /\ used' = used \cup {request.proof}
    /\ reused' = reused \cup {p \in used : Jti[p] = Jti[request.proof]}
    /\ Finish(200, "none")
    /\ UNCHANGED <<requireDpop, jwksCached, jwks>>

\* The process dies and restarts, maybe with another setting: nothing is kept.
Restart ==
    /\ requireDpop' \in BOOLEAN
    /\ jwksCached' = FALSE
    /\ jwks' = {}
    /\ seen' = {}
    /\ used' = {}
    /\ reused' = {}
    /\ pruned' = 0
    /\ pc' = "idle"
    /\ result' = [status |-> 0, error |-> "none"]
    /\ UNCHANGED <<clock, published, request>>

-----------------------------------------------------------------------------
Init ==
    /\ requireDpop \in BOOLEAN
    /\ clock = 0
    /\ published \in SUBSET Key
    /\ jwksCached = FALSE
    /\ jwks = {}
    /\ seen = {}
    /\ pc = "idle"
    /\ request \in [proof : {NoProof}, key : Key, defect : {"none"}]
    /\ result = [status |-> 0, error |-> "none"]
    /\ used = {}
    /\ reused = {}
    /\ pruned = 0

AuthStep ==
    \/ RejectToken
    \/ UseCachedKeys
    \/ FetchKeys
    \/ FetchKeysFails
    \/ RejectClaims
    \/ RejectScheme
    \/ AcceptBearer
    \/ RejectProof
    \/ DecodeProof
    \/ RejectStale
    \/ ProofIsFresh
    \/ RejectBinding
    \/ RejectReplay
    \/ RejectCapacity
    \/ AcceptProof

Next ==
    \/ Tick
    \/ SetBack
    \/ \E K \in SUBSET Key : Rotate(K)
    \/ \E r \in Request : Begin(r)
    \/ AuthStep
    \/ Restart

\* The thread runs and its HTTP requests end: the timeout of httpx bounds each read
\* of a reply, and that a reply has an end is assumed of the issuer.
FairSpec == Init /\ [][Next]_vars /\ WF_vars(AuthStep)

Spec == Init /\ [][Next]_vars

-----------------------------------------------------------------------------
(* What must hold. *)

(* Every variable of the authentication keeps its shape; authenticate      *)
(* refuses a request with 401 or 503 (SolidAuthError), but for a number or *)
(* a character the checks of the proof do not expect, which raises.        *)
TypeOK ==
    /\ requireDpop \in BOOLEAN
    /\ clock \in 0 .. MaxTime
    /\ published \in SUBSET Key
    /\ jwksCached \in BOOLEAN
    /\ jwks \in SUBSET Key
    /\ seen \in SUBSET Proof
    /\ pc \in {"idle", "token", "claims", "decoded", "binding"}
    /\ request \in Request
    /\ result \in [status : {0, 200, 401, 500, 503},
                   error : {"none", "token", "keys", "claims", "scheme", "proof",
                            "binding", "replay", "capacity"}]
    /\ used \in SUBSET Proof
    /\ reused \in SUBSET Proof
    /\ pruned \in 0 .. MaxTime

(* A process accepts the id of a proof again, with that proof or another,  *)
(* only after it has pruned its cache at iat + max_age or later: entries   *)
(* are forgotten as they expire, freshness is judged by an earlier reading *)
(* of the clock, and the clock may be set back in between; while it is     *)
(* not, no id is accepted twice in the validity of the first proof that    *)
(* carried it (_verify_dpop_proof; catalog/tests/test_auth_hardening.py,   *)
(* test_replay_rejected).                                                  *)
AcceptedOnce == \A p \in reused : pruned >= Expiry(p)

(* Only accepted proofs occupy the replay cache: requests refused by any   *)
(* check, late ones included, never use up its capacity, and the cache     *)
(* never exceeds it, with one entry per proof id.                          *)
CapacityWellSpent ==
    /\ seen \subseteq used
    /\ Cardinality(seen) <= Capacity
    /\ \A p, q \in seen : Jti[p] = Jti[q] => p = q

(* Every call of authenticate ends, whatever the issuer answers.           *)
AuthEnds == pc # "idle" ~> pc = "idle"
=============================================================================
