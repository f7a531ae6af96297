-------------------------- MODULE Publication_proofs --------------------------
(***************************************************************************)
(* Proofs about Publication: the handler composed with the registry check  *)
(* and the store.  The composition takes only steps that the registry      *)
(* check may take, so what SolidRegistry_proofs establishes holds in it;   *)
(* the rest relates a push to the place of its coroutine, and that it      *)
(* implements CatalogIndex follows step by step.                           *)
(***************************************************************************)
EXTENDS Publication, SolidRegistry_proofs

\* The stages behind the registry check.
AdmittedStages == {"body", "waiting", "ready", "validate", "put"}

\* The check under way is about the author of the push that awaits it.
ChecksTheAuthor == \A p \in Push : stage[p] = "check" => asked = Normal[Author[p]]

\* A push is answered once, when its coroutine ends.
AnsweredWhenDone == \A p \in Push : stage[p] = "done" <=> answer[p].status # 0

\* Only a push that passed every stage was sent, and what its answer says of it.
SentAtTheEnd ==
    \A p \in Push :
        /\ wire[p] # "none" => stage[p] \in {"put", "done", "lost"}
        /\ wire[p] # "none" => answer[p].status \in {0, 200, 502}
        /\ answer[p].status = 200 => wire[p] = "applied"

\* A snapshot that was applied is shown until the loop is given up, but for one
\* of a push that failed.
AppliedIsShown ==
    \A p \in Push :
        stage[p] = "put" /\ wire[p] = "applied" => Index!Shows(Author[p], p)

\* Whoever is past the check, or sent, was a member by the check that admitted it.
AdmittedWasMember ==
    \A p \in Push : stage[p] \in AdmittedStages \/ wire[p] # "none" =>
        /\ Normal[Author[p]] \in WebId
        /\ \E r \in Resource : SeenNear(p, r)

\* The invariant the proofs are by induction on.
PubInv ==
    /\ IInv
    /\ PubTypeOK
    /\ OneHandlerRuns
    /\ ChecksTheAuthor
    /\ AnsweredWhenDone
    /\ SentAtTheEnd
    /\ AppliedIsShown
    /\ AdmittedWasMember
-----------------------------------------------------------------------------
(* The composition and the registry. *)

(* Whatever the handler, the store and the process do, the registry check  *)
(* does what it may do on its own, or nothing.                             *)
LEMMA RegistryStepOrStutter == [PubNext]_pubVars => [Next]_vars
<1> SUFFICES ASSUME [PubNext]_pubVars PROVE [Next]_vars
    OBVIOUS
<1> USE DEF regVars
<1>1. ASSUME NEW p \in Push, AuthAccept(p)
      PROVE  [Next]_vars
    <2>1. Author[p] \in Id /\ BeginCheck(Author[p])
        BY <1>1, AuthorAssumption DEF AuthAccept
    <2> QED BY <2>1 DEF Next
<1>2. ASSUME NEW p \in Push, HandlerStep(p), ~ AuthAccept(p)
      PROVE  UNCHANGED vars
    BY <1>2 DEF HandlerStep, AuthReject, RegistryUnavailable, NotRegistered, Admit, CheckedAs,
                BodyBuffered, AwaitBody, AuthRaises, Undecodable, Invalid, StoreUnreachable, SendPut,
                PutSucceeded, PutFailed
<1>3. ASSUME NEW p \in Push, Scheduled(p) \/ ClientStep(p) \/ StoreStep(p)
      PROVE  UNCHANGED vars
    BY <1>3 DEF Scheduled, ClientStep, StoreStep, Begin, Resume, Arrive, BodyArrives, Disconnect,
                Commit, Abort
<1>4. CASE RegistryStep
    BY <1>4 DEF RegistryStep, Next
<1>5. CASE Elsewhere
    BY <1>5 DEF Elsewhere, Next
<1>6. CASE Crash
    BY <1>6 DEF Crash, Next
<1>7. CASE UNCHANGED pubVars
    BY <1>7 DEF pubVars
<1> QED BY <1>1, <1>2, <1>3, <1>4, <1>5, <1>6, <1>7 DEF PubNext

(* What a resource was last seen to list only moves forward. *)
LEMMA ListingsMoveForward ==
    ASSUME IInv, IInv', [Next]_vars
    PROVE  \A r \in Resource, w \in WebId : /\ LastListed(r, w)' >= LastListed(r, w)
                                            /\ LastListed(r, w) \in Int
                                            /\ LastListed(r, w)' \in Int
<1>1. \A r \in Resource, w \in WebId : LastListed(r, w) \in Int /\ LastListed(r, w)' \in Int
    BY DEF IInv, TypeOK, Instant, LastListed
<1>2. CASE Tick \/ RegistryEdit
    BY <1>1, <1>2, EnvironmentHistory DEF IInv, HistoryGrows
<1>3. CASE UNCHANGED <<clock, registryVars>>
    BY <1>1, <1>3, CallerFrame
<1>4. Tick \/ RegistryEdit \/ UNCHANGED <<clock, registryVars>>
    BY DEF Next, vars, RefuseBlank, BeginCheck, BeginProbe, CheckStep, UseCache, MissCache,
           LoadStep, FetchContainer, ContainerUnreadable, FetchResource, ResourceUnreadable,
           Install, InstallAs, Restart
<1> QED BY <1>2, <1>3, <1>4

(* Hence a push that was admitted by a listing stays admitted by it. *)
LEMMA SeenNearKept ==
    ASSUME IInv, IInv', [Next]_vars, PubTypeOK, NEW p \in Push, NEW r \in Resource,
           Normal[Author[p]] \in WebId, SeenNear(p, r), admittedAt'[p] = admittedAt[p]
    PROVE  SeenNear(p, r)'
<1>1. admittedAt[p] \in Int /\ Ttl \in Int
    BY TimeAssumption DEF PubTypeOK, Instant
<1> QED BY <1>1, ListingsMoveForward DEF SeenNear

(* Between two stages that a push is admitted in, AdmittedWasMember holds on. *)
LEMMA AdmittedKept ==
    ASSUME IInv, IInv', [Next]_vars, PubTypeOK, AdmittedWasMember, NEW p \in Push,
           stage[p] \in AdmittedStages \/ wire[p] # "none", admittedAt'[p] = admittedAt[p]
    PROVE  /\ Normal[Author[p]] \in WebId
           /\ \E r \in Resource : SeenNear(p, r)'
BY SeenNearKept DEF AdmittedWasMember

(* What the steps of the registry leave alone while the loop is held. *)
LEMMA RegistryFrame ==
    ASSUME TypeOK
    PROVE  /\ CheckStep => asked' = asked /\ pc[Checker] # "idle"
           /\ Elsewhere => asked' = asked /\ pc'[Checker] = pc[Checker]
<1>1. ASSUME NEW c \in Probe, BeginProbe(c) \/ LoadStep(c)
      PROVE  asked' = asked /\ pc'[Checker] = pc[Checker]
    <2>1. c # Checker /\ c \in Caller /\ Checker \in Caller
        BY CheckerAssumption DEF Caller
    <2> QED BY <1>1, <2>1 DEF BeginProbe, LoadStep, FetchContainer, ContainerUnreadable,
               FetchResource, ResourceUnreadable, Install, InstallAs, Return, TypeOK
<1>2. CheckStep => asked' = asked
    BY DEF CheckStep, UseCache, MissCache, LoadStep, FetchContainer, ContainerUnreadable,
           FetchResource, ResourceUnreadable, Install, InstallAs
<1>3. CheckStep => pc[Checker] # "idle"
    BY DEF CheckStep, UseCache, MissCache, LoadStep, FetchContainer, ContainerUnreadable,
           FetchResource, ResourceUnreadable, IsNext, Install, InstallAs
<1>4. Elsewhere => Tick \/ RegistryEdit \/ \E c \in Probe : BeginProbe(c) \/ LoadStep(c)
    BY DEF Elsewhere
<1>5. (Tick \/ RegistryEdit) => asked' = asked /\ pc'[Checker] = pc[Checker]
    BY DEF Tick, RegistryEdit, WriteResource, DeleteResource, Relist, callVars
<1> QED BY <1>1, <1>2, <1>3, <1>4, <1>5
-----------------------------------------------------------------------------
(* Types. *)

(* Nothing is sent, answered or stored before the first push. *)
LEMMA InitPubTypeOK == PubInit => PubTypeOK
<1> SUFFICES ASSUME PubInit PROVE PubTypeOK
    OBVIOUS
<1>1. TypeOK
    BY InitTypeOK DEF PubInit
<1>2. /\ loop \in Push \cup {NoPush}
      /\ stage \in [Push -> Stages]
      /\ wire \in [Push -> {"none", "sent", "applied", "aborted"}]
      /\ graphs \in [Id -> Push \cup {NoPush}]
      /\ latest \in [Id -> Push \cup {NoPush}]
    BY DEF PubInit, Stages
<1>3. answer \in [Push -> [status : {0, 200, 401, 403, 422, 500, 502, 503},
                           at : {"none", "auth", "registry", "validation", "store"}]]
    BY DEF PubInit, NoAnswer
<1>4. admittedAt \in [Push -> Instant]
    BY TimeAssumption DEF PubInit, Instant
<1> QED BY <1>1, <1>2, <1>3, <1>4 DEF PubTypeOK

(* A response has one of the statuses, and one of the stages, of the handler. *)
LEMMA AnswerTyped ==
    ASSUME PubTypeOK, NEW p \in Push,
           NEW status \in {200, 401, 403, 422, 500, 502, 503},
           NEW at \in {"none", "auth", "registry", "validation", "store"},
           Answer(p, status, at)
    PROVE  /\ loop' \in Push \cup {NoPush}
           /\ stage' \in [Push -> Stages]
           /\ answer' \in [Push -> [status : {0, 200, 401, 403, 422, 500, 502, 503},
                                    at : {"none", "auth", "registry", "validation", "store"}]]
<1>1. [status |-> status, at |-> at] \in
         [status : {0, 200, 401, 403, 422, 500, 502, 503},
          at : {"none", "auth", "registry", "validation", "store"}]
    OBVIOUS
<1>2. stage' \in [Push -> Stages] /\ loop' \in Push \cup {NoPush}
    BY DEF Answer, PubTypeOK, Stages
<1> QED BY <1>1, <1>2 DEF Answer, PubTypeOK

(* Every step keeps the types. *)
LEMMA NextPubTypeOK ==
    ASSUME TypeOK', TypeOK, PubTypeOK, [PubNext]_pubVars
    PROVE  PubTypeOK'
<1>1. ASSUME NEW p \in Push, HandlerStep(p)
      PROVE  PubTypeOK'
    <2>1. CASE \E status \in {401, 503} : AuthReject(p, status)
        BY <2>1, AnswerTyped DEF AuthReject, PubTypeOK
    <2>2. CASE AuthAccept(p) \/ BodyBuffered(p)
        BY <2>2 DEF AuthAccept, BodyBuffered, Continue, PubTypeOK, Stages
    <2>3. CASE RegistryUnavailable(p) \/ NotRegistered(p)
        <3>1. \E status \in {403, 422} : Answer(p, status, "registry")
            BY <2>3 DEF RegistryUnavailable, NotRegistered
        <3>2. UNCHANGED <<wire, graphs, admittedAt, latest>>
            BY <2>3 DEF RegistryUnavailable, NotRegistered, CheckedAs
        <3> QED BY <3>1, <3>2, AnswerTyped DEF PubTypeOK
    <2>4. CASE Admit(p)
        <3>1. startedAt[Checker] \in Instant
            BY TimeAssumption, Callers DEF TypeOK, Instant
        <3>2. UNCHANGED <<loop, answer, wire, graphs, latest>>
            BY <2>4 DEF Admit, CheckedAs, Continue
        <3>3. stage' \in [Push -> Stages]
            BY <2>4 DEF Admit, Continue, PubTypeOK, Stages
        <3>4. admittedAt' \in [Push -> Instant]
            BY <2>4, <3>1 DEF Admit, PubTypeOK
        <3> QED BY <3>2, <3>3, <3>4 DEF PubTypeOK
    <2>5. CASE AwaitBody(p)
        BY <2>5 DEF AwaitBody, PubTypeOK, Stages
    <2>6. CASE AuthRaises(p) \/ Undecodable(p) \/ Invalid(p) \/ StoreUnreachable(p) \/ PutFailed(p)
        BY <2>6, AnswerTyped DEF AuthRaises, Undecodable, Invalid, StoreUnreachable, PutFailed, PubTypeOK
    <2>7. CASE SendPut(p)
        BY <2>7 DEF SendPut, Continue, PubTypeOK, Stages
    <2>8. CASE PutSucceeded(p)
        <3>1. latest' \in [Id -> Push \cup {NoPush}]
            BY <2>8 DEF PutSucceeded, PubTypeOK
        <3> QED BY <2>8, <3>1, AnswerTyped DEF PutSucceeded, PubTypeOK
    <2> QED BY <1>1, <2>1, <2>2, <2>3, <2>4, <2>5, <2>6, <2>7, <2>8 DEF HandlerStep
<1>2. ASSUME NEW p \in Push, Scheduled(p) \/ ClientStep(p)
      PROVE  PubTypeOK'
    <2>1. UNCHANGED <<answer, wire, graphs, admittedAt, latest>>
        BY <1>2 DEF Scheduled, ClientStep, Begin, Resume, Arrive, BodyArrives, Disconnect
    <2>2. stage' \in [Push -> Stages]
        BY <1>2 DEF Scheduled, ClientStep, Begin, Resume, Arrive, BodyArrives, Disconnect,
                    PubTypeOK, Stages
    <2>3. loop' \in Push \cup {NoPush}
        BY <1>2 DEF Scheduled, ClientStep, Begin, Resume, Arrive, BodyArrives, Disconnect,
                    PubTypeOK
    <2> QED BY <2>1, <2>2, <2>3 DEF PubTypeOK
<1>3. ASSUME NEW p \in Push, StoreStep(p)
      PROVE  PubTypeOK'
    <2>1. UNCHANGED <<loop, stage, answer, admittedAt, latest>>
        BY <1>3 DEF StoreStep, Commit, Abort
    <2>2. wire' \in [Push -> {"none", "sent", "applied", "aborted"}]
        BY <1>3 DEF StoreStep, Commit, Abort, PubTypeOK
    <2>3. graphs' \in [Id -> Push \cup {NoPush}]
        BY <1>3 DEF StoreStep, Commit, Abort, PubTypeOK
    <2> QED BY <2>1, <2>2, <2>3 DEF PubTypeOK
<1>4. CASE RegistryStep \/ Elsewhere
    BY <1>4 DEF RegistryStep, Elsewhere, pushVars, PubTypeOK
<1>5. CASE Crash
    BY <1>5 DEF Crash, PubTypeOK, Stages
<1>6. CASE UNCHANGED pubVars
    BY <1>6 DEF pubVars, pushVars, PubTypeOK
<1> QED BY <1>1, <1>2, <1>3, <1>4, <1>5, <1>6 DEF PubNext
-----------------------------------------------------------------------------
(* The inductive invariant. *)

(* What an answer changes of the push it is given to, and of no other push. *)
LEMMA AnswerEffect ==
    ASSUME PubTypeOK, NEW p \in Push, NEW status, NEW at, Answer(p, status, at)
    PROVE  /\ stage'[p] = "done" /\ answer'[p].status = status /\ loop' = NoPush
           /\ \A q \in Push \ {p} : stage'[q] = stage[q] /\ answer'[q] = answer[q]
BY DEF Answer, PubTypeOK

(* What the handler, the scheduler and the client of p change. *)
LEMMA StageEffect ==
    ASSUME PubTypeOK, NEW p \in Push, HandlerStep(p) \/ Scheduled(p) \/ ClientStep(p)
    PROVE  /\ graphs' = graphs
           /\ \A q \in Push \ {p} : /\ stage'[q] = stage[q] /\ answer'[q] = answer[q]
                                    /\ wire'[q] = wire[q] /\ admittedAt'[q] = admittedAt[q]
<1>1. CASE \/ \E status \in {401, 503} : AuthReject(p, status)
           \/ RegistryUnavailable(p) \/ NotRegistered(p) \/ AuthRaises(p) \/ Undecodable(p) \/ Invalid(p)
           \/ StoreUnreachable(p) \/ PutSucceeded(p) \/ PutFailed(p)
    <2>1. UNCHANGED <<wire, graphs, admittedAt>>
        BY <1>1 DEF AuthReject, RegistryUnavailable, NotRegistered, CheckedAs, AuthRaises, Undecodable, Invalid,
                    StoreUnreachable, PutSucceeded, PutFailed
    <2>2. \E status, at : Answer(p, status, at)
        BY <1>1 DEF AuthReject, RegistryUnavailable, NotRegistered, AuthRaises, Undecodable, Invalid,
                    StoreUnreachable, PutSucceeded, PutFailed
    <2> QED BY <2>1, <2>2, AnswerEffect
<1>2. CASE AuthAccept(p) \/ Admit(p) \/ BodyBuffered(p) \/ AwaitBody(p) \/ SendPut(p)
    BY <1>2 DEF AuthAccept, Admit, CheckedAs, BodyBuffered, AwaitBody, SendPut, Continue, PubTypeOK
<1>3. CASE Scheduled(p) \/ ClientStep(p)
    BY <1>3 DEF Scheduled, ClientStep, Begin, Resume, Arrive, BodyArrives, Disconnect, PubTypeOK
<1> QED BY <1>1, <1>2, <1>3 DEF HandlerStep

(* The loop is given to one coroutine at a time, and a check runs while it is *)
(* held only.                                                                *)
LEMMA NextOneHandlerRuns ==
    ASSUME TypeOK, PubTypeOK, OneHandlerRuns, [PubNext]_pubVars
    PROVE  OneHandlerRuns'
<1> USE NoPushAssumption DEF HoldingStages
<1>0. \A q \in Push : stage[q] \in HoldingStages <=> loop = q
    BY DEF OneHandlerRuns
<1>1. ASSUME NEW p \in Push, HandlerStep(p)
      PROVE  OneHandlerRuns'
    <2>1. stage[p] \in HoldingStages
        BY <1>1 DEF HandlerStep, AuthReject, AuthAccept, RegistryUnavailable, NotRegistered,
                    Admit, CheckedAs, BodyBuffered, AwaitBody, AuthRaises, Undecodable, Invalid,
                    StoreUnreachable, SendPut, PutSucceeded, PutFailed
    <2>2. loop = p /\ \A q \in Push \ {p} : stage'[q] \notin HoldingStages
        BY <1>0, <1>1, <2>1, StageEffect
    <2>3. \/ loop' = NoPush /\ stage'[p] \notin HoldingStages
          \/ loop' = p /\ stage'[p] \in HoldingStages
        <3>1. CASE \/ \E status \in {401, 503} : AuthReject(p, status)
                   \/ RegistryUnavailable(p) \/ NotRegistered(p) \/ AuthRaises(p) \/ Undecodable(p) \/ Invalid(p)
                   \/ StoreUnreachable(p) \/ PutSucceeded(p) \/ PutFailed(p)
            BY <3>1, AnswerEffect DEF AuthReject, RegistryUnavailable, NotRegistered, AuthRaises, Undecodable,
                     Invalid, StoreUnreachable, PutSucceeded, PutFailed
        <3>2. CASE AuthAccept(p) \/ Admit(p) \/ BodyBuffered(p) \/ AwaitBody(p) \/ SendPut(p)
            BY <2>2, <3>2 DEF AuthAccept, Admit, BodyBuffered, AwaitBody, SendPut, Continue, PubTypeOK
        <3> QED BY <1>1, <3>1, <3>2 DEF HandlerStep
    <2>4. pc'[Checker] # "idle" => AuthAccept(p)
        <3>1. pc[Checker] # "idle" => stage[p] = "check"
            BY <2>2 DEF OneHandlerRuns
        <3>2. AuthAccept(p) \/ UNCHANGED vars
            BY <1>1 DEF HandlerStep, AuthReject, RegistryUnavailable, NotRegistered, Admit,
                    CheckedAs, BodyBuffered, AwaitBody, AuthRaises, Undecodable, Invalid, StoreUnreachable,
                    SendPut, PutSucceeded, PutFailed, regVars
        <3>3. stage[p] = "check" => AuthAccept(p) \/ pc[Checker] = "idle"
            BY <1>1 DEF HandlerStep, AuthReject, RegistryUnavailable, NotRegistered, Admit,
                    CheckedAs, BodyBuffered, AwaitBody, AuthRaises, Undecodable, Invalid, StoreUnreachable,
                    SendPut, PutSucceeded, PutFailed
        <3> QED BY <3>1, <3>2, <3>3 DEF vars, callVars
    <2>5. AuthAccept(p) => stage'[p] = "check" /\ loop' = p
        BY <2>2 DEF AuthAccept, Continue, PubTypeOK
    <2> QED BY <2>2, <2>3, <2>4, <2>5 DEF OneHandlerRuns
<1>2. ASSUME NEW p \in Push, Scheduled(p)
      PROVE  OneHandlerRuns'
    <2>1. loop = NoPush /\ loop' = p /\ stage'[p] \in HoldingStages /\ pc' = pc
        BY <1>2 DEF Scheduled, Begin, Resume, PubTypeOK, regVars, vars, callVars
    <2>2. \A q \in Push \ {p} : stage'[q] = stage[q]
        BY <1>2, StageEffect
    <2> QED BY <1>0, <2>1, <2>2 DEF OneHandlerRuns
<1>3. ASSUME NEW p \in Push, ClientStep(p)
      PROVE  OneHandlerRuns'
    <2>1. /\ loop' = loop /\ pc' = pc
          /\ stage[p] \notin HoldingStages /\ stage'[p] \notin HoldingStages
        BY <1>3 DEF ClientStep, Arrive, BodyArrives, Disconnect, PubTypeOK, regVars, vars, callVars
    <2>2. \A q \in Push \ {p} : stage'[q] = stage[q]
        BY <1>3, StageEffect
    <2> QED BY <1>0, <2>1, <2>2 DEF OneHandlerRuns, PubTypeOK
<1>4. ASSUME NEW p \in Push, StoreStep(p)
      PROVE  OneHandlerRuns'
    BY <1>4 DEF StoreStep, Commit, Abort, OneHandlerRuns, regVars, vars, callVars
<1>5. CASE RegistryStep \/ Elsewhere
    <2>1. stage' = stage /\ loop' = loop /\ (pc'[Checker] = "idle" \/ pc[Checker] # "idle")
        BY <1>5, RegistryFrame DEF RegistryStep, Elsewhere, pushVars
    <2> QED BY <2>1 DEF OneHandlerRuns
<1>6. CASE Crash
    <2>1. pc'[Checker] = "idle" /\ loop' = NoPush
        BY <1>6, Callers DEF Crash, Restart
    <2>2. \A q \in Push : stage'[q] \notin HoldingStages
        BY <1>6 DEF Crash, InFlight, PubTypeOK
    <2> QED BY <2>1, <2>2 DEF OneHandlerRuns
<1>7. CASE UNCHANGED pubVars
    BY <1>7 DEF pubVars, pushVars, regVars, vars, callVars, OneHandlerRuns
<1> QED BY <1>1, <1>2, <1>3, <1>4, <1>5, <1>6, <1>7 DEF PubNext

\* Where a push may go without an answer, the registry or the store.
Moves == {<<"new", "queued">>, <<"queued", "auth">>, <<"body", "validate">>,
          <<"body", "waiting">>, <<"waiting", "ready">>, <<"waiting", "lost">>,
          <<"ready", "validate">>}

\* The kinds of steps of a push.
Moved(p) ==
    /\ <<stage[p], stage'[p]>> \in Moves
    /\ UNCHANGED <<vars, answer, wire, admittedAt, latest>>
Checking(p) ==
    /\ stage[p] = "auth" /\ stage'[p] = "check" /\ asked' = Normal[Author[p]]
    /\ UNCHANGED <<answer, wire, admittedAt, latest>>
Admitted(p) ==
    /\ stage[p] = "check" /\ stage'[p] = "body"
    /\ outcome[Checker] = "granted" /\ admittedAt'[p] = startedAt[Checker]
    /\ UNCHANGED <<vars, answer, wire, latest>>
Sent(p) ==
    /\ stage[p] = "validate" /\ stage'[p] = "put" /\ wire'[p] = "sent"
    /\ UNCHANGED <<vars, answer, admittedAt, latest>>
Refused(p) ==
    /\ stage[p] \in {"auth", "check", "validate"} /\ stage'[p] = "done"
    /\ answer'[p].status \in {401, 403, 422, 500, 502, 503}
    /\ UNCHANGED <<vars, wire, admittedAt, latest>>
Accepted(p) ==
    /\ stage[p] = "put" /\ stage'[p] = "done" /\ wire[p] = "applied"
    /\ answer'[p].status = 200
    /\ latest' = [latest EXCEPT ![Author[p]] = p]
    /\ UNCHANGED <<vars, wire, admittedAt>>
GivenUp(p) ==
    /\ stage[p] = "put" /\ stage'[p] = "done"
    /\ answer'[p].status = 502
    /\ UNCHANGED <<vars, wire, admittedAt, latest>>

(* Every step of a push is of one of these kinds. *)
LEMMA StageSteps ==
    ASSUME PubTypeOK, NEW p \in Push, HandlerStep(p) \/ Scheduled(p) \/ ClientStep(p)
    PROVE  \/ Moved(p) \/ Checking(p) \/ Admitted(p) \/ Sent(p)
           \/ Refused(p) \/ Accepted(p) \/ GivenUp(p)
<1> USE DEF regVars
<1>1. CASE BodyBuffered(p) \/ AwaitBody(p) \/ Scheduled(p) \/ ClientStep(p)
    <2>1. <<stage[p], stage'[p]>> \in Moves
        BY <1>1 DEF BodyBuffered, AwaitBody, Scheduled, ClientStep, Begin, Resume, Arrive,
                    BodyArrives, Disconnect, Continue, Moves, PubTypeOK
    <2>2. UNCHANGED <<vars, answer, wire, admittedAt, latest>>
        BY <1>1 DEF BodyBuffered, AwaitBody, Scheduled, ClientStep, Begin, Resume, Arrive,
                    BodyArrives, Disconnect, Continue
    <2> QED BY <2>1, <2>2 DEF Moved
<1>2. CASE AuthAccept(p)
    <2>1. stage[p] = "auth" /\ stage'[p] = "check" /\ answer' = answer
        BY <1>2 DEF AuthAccept, Continue, PubTypeOK
    <2>2. asked' = Normal[Author[p]] /\ UNCHANGED <<wire, admittedAt, latest>>
        BY <1>2 DEF AuthAccept, BeginCheck
    <2> QED BY <2>1, <2>2 DEF Checking
<1>3. CASE Admit(p)
    <2>1. stage[p] = "check" /\ stage'[p] = "body" /\ answer' = answer
        BY <1>3 DEF Admit, CheckedAs, Continue, PubTypeOK
    <2>2. outcome[Checker] = "granted" /\ UNCHANGED <<vars, wire, latest>>
        BY <1>3 DEF Admit, CheckedAs
    <2>3. admittedAt'[p] = startedAt[Checker]
        BY <1>3 DEF Admit, PubTypeOK
    <2> QED BY <2>1, <2>2, <2>3 DEF Admitted
<1>4. CASE SendPut(p)
    BY <1>4 DEF SendPut, Continue, PubTypeOK, Sent
<1>5. CASE \/ \E status \in {401, 503} : AuthReject(p, status)
           \/ RegistryUnavailable(p) \/ NotRegistered(p)
           \/ AuthRaises(p) \/ Undecodable(p) \/ Invalid(p) \/ StoreUnreachable(p)
    <2>1. \E status \in {401, 403, 422, 500, 502, 503} : \E at : Answer(p, status, at)
        BY <1>5 DEF AuthReject, RegistryUnavailable, NotRegistered, AuthRaises, Undecodable, Invalid,
                    StoreUnreachable
    <2>2. /\ stage[p] \in {"auth", "check", "validate"}
          /\ UNCHANGED <<vars, wire, admittedAt, latest>>
        BY <1>5 DEF AuthReject, RegistryUnavailable, NotRegistered, CheckedAs, AuthRaises, Undecodable, Invalid,
                    StoreUnreachable
    <2> QED BY <2>1, <2>2, AnswerEffect DEF Refused
<1>6. CASE PutSucceeded(p)
    BY <1>6, AnswerEffect DEF PutSucceeded, Accepted
<1>7. CASE PutFailed(p)
    BY <1>7, AnswerEffect DEF PutFailed, GivenUp
<1> QED BY <1>1, <1>2, <1>3, <1>4, <1>5, <1>6, <1>7 DEF HandlerStep

(* The check under way is about the push that awaits it: nobody begins another *)
(* one as long as the loop is held.                                            *)
LEMMA NextChecksTheAuthor ==
    ASSUME TypeOK, PubTypeOK, OneHandlerRuns, ChecksTheAuthor, [PubNext]_pubVars
    PROVE  ChecksTheAuthor'
<1>1. ASSUME NEW p \in Push, HandlerStep(p) \/ Scheduled(p) \/ ClientStep(p)
      PROVE  ChecksTheAuthor'
    <2>1. \A q \in Push \ {p} : stage'[q] = stage[q]
        BY <1>1, StageEffect
    <2>2. CASE Checking(p)
        <3>1. \A q \in Push \ {p} : stage[q] # "check"
            BY <2>2 DEF Checking, OneHandlerRuns, HoldingStages
        <3> QED BY <2>1, <2>2, <3>1 DEF Checking, ChecksTheAuthor
    <2>3. CASE ~ Checking(p)
        <3>1. asked' = asked /\ stage'[p] # "check"
            BY <1>1, <2>3, StageSteps DEF Moved, Moves, Admitted, Sent, Refused, Accepted, GivenUp,
                     vars, callVars
        <3> QED BY <2>1, <3>1 DEF ChecksTheAuthor
    <2> QED BY <2>2, <2>3
<1>2. ASSUME NEW p \in Push, StoreStep(p)
      PROVE  ChecksTheAuthor'
    BY <1>2 DEF StoreStep, Commit, Abort, ChecksTheAuthor, regVars, vars, callVars
<1>3. CASE RegistryStep \/ Elsewhere
    BY <1>3, RegistryFrame DEF RegistryStep, Elsewhere, pushVars, ChecksTheAuthor
<1>4. CASE Crash
    BY <1>4 DEF Crash, InFlight, PubTypeOK, ChecksTheAuthor
<1>5. CASE UNCHANGED pubVars
    BY <1>5 DEF pubVars, pushVars, regVars, vars, callVars, ChecksTheAuthor
<1> QED BY <1>1, <1>2, <1>3, <1>4, <1>5 DEF PubNext

(* A push is answered when its coroutine ends, and what was sent is answered  *)
(* with what the store said, or with nothing.                                 *)
LEMMA NextAnswers ==
    ASSUME TypeOK, PubTypeOK, AnsweredWhenDone, SentAtTheEnd, [PubNext]_pubVars
    PROVE  AnsweredWhenDone' /\ SentAtTheEnd'
<1>1. ASSUME NEW p \in Push, HandlerStep(p) \/ Scheduled(p) \/ ClientStep(p)
      PROVE  AnsweredWhenDone' /\ SentAtTheEnd'
    <2>1. \A q \in Push \ {p} : stage'[q] = stage[q] /\ answer'[q] = answer[q] /\ wire'[q] = wire[q]
        BY <1>1, StageEffect
    <2>2. /\ stage[p] = "done" <=> answer[p].status # 0
          /\ wire[p] # "none" => stage[p] \in {"put", "done", "lost"}
        BY DEF AnsweredWhenDone, SentAtTheEnd
    <2>3. /\ stage'[p] = "done" <=> answer'[p].status # 0
          /\ wire'[p] # "none" => stage'[p] \in {"put", "done", "lost"}
          /\ wire'[p] # "none" => answer'[p].status \in {0, 200, 502}
          /\ answer'[p].status = 200 => wire'[p] = "applied"
        BY <1>1, <2>2, StageSteps DEF Moved, Moves, Checking, Admitted, Sent, Refused, Accepted, GivenUp
    <2> QED BY <2>1, <2>3 DEF AnsweredWhenDone, SentAtTheEnd
<1>2. ASSUME NEW p \in Push, StoreStep(p)
      PROVE  AnsweredWhenDone' /\ SentAtTheEnd'
    <2>1. /\ stage' = stage /\ answer' = answer /\ wire[p] = "sent"
          /\ \A q \in Push \ {p} : wire'[q] = wire[q]
        BY <1>2 DEF StoreStep, Commit, Abort, PubTypeOK
    <2> QED BY <2>1 DEF AnsweredWhenDone, SentAtTheEnd
<1>3. CASE RegistryStep \/ Elsewhere
    BY <1>3 DEF RegistryStep, Elsewhere, pushVars, AnsweredWhenDone, SentAtTheEnd
<1>4. CASE Crash
    <2>1. /\ answer' = answer /\ wire' = wire
          /\ \A q \in Push : stage'[q] = IF stage[q] \in {"new", "done", "lost"}
                                         THEN stage[q] ELSE "lost"
        BY <1>4 DEF Crash, InFlight, PubTypeOK
    <2> QED BY <2>1 DEF AnsweredWhenDone, SentAtTheEnd
<1>5. CASE UNCHANGED pubVars
    BY <1>5 DEF pubVars, pushVars, AnsweredWhenDone, SentAtTheEnd
<1> QED BY <1>1, <1>2, <1>3, <1>4, <1>5 DEF PubNext

\* What the abstract index takes for the verdict on a push.
VerdictTable ==
    \A p \in Push :
        /\ VerdictOf(p) \in {"open", "accepted", "refused", "failed"}
        /\ VerdictOf(p) = "open" <=> stage[p] \notin {"done", "lost"}
        /\ VerdictOf(p) = "accepted" <=> answer[p].status = 200
        /\ VerdictOf(p) = "failed" <=> answer[p].status = 502 \/ stage[p] = "lost"

(* The verdicts follow the place of the coroutine and its answer. *)
LEMMA Verdicts == AnsweredWhenDone => VerdictTable
BY DEF AnsweredWhenDone, VerdictTable, VerdictOf

(* A push that failed stays one. *)
LEMMA FailedStays ==
    ASSUME PubTypeOK, AnsweredWhenDone, AnsweredWhenDone', NEW p \in Push,
           HandlerStep(p) \/ Scheduled(p) \/ ClientStep(p),
           NEW q \in Push, VerdictOf(q) = "failed"
    PROVE  VerdictOf(q)' = "failed"
<1>1. VerdictTable /\ VerdictTable'
    <2>1. AnsweredWhenDone' => VerdictTable'
        BY Verdicts, PTL
    <2> QED BY <2>1, Verdicts
<1>2. stage[q] \in {"done", "lost"}
    BY <1>1 DEF VerdictTable
<1>3. q # p
    BY <1>2, StageSteps DEF Moved, Moves, Checking, Admitted, Sent, Refused, Accepted, GivenUp
<1>4. stage'[q] = stage[q] /\ answer'[q] = answer[q]
    BY <1>3, StageEffect
<1> QED BY <1>1, <1>4 DEF VerdictTable

(* Only a PUT that the catalog has given up on lands over the one it awaits. *)
LEMMA NextAppliedIsShown ==
    ASSUME TypeOK, PubTypeOK, OneHandlerRuns, AnsweredWhenDone, AnsweredWhenDone', SentAtTheEnd,
           AppliedIsShown, [PubNext]_pubVars
    PROVE  AppliedIsShown'
<1> USE DEF Index!Shows
<1>0. VerdictTable /\ VerdictTable'
    <2>1. AnsweredWhenDone' => VerdictTable'
        BY Verdicts, PTL
    <2> QED BY <2>1, Verdicts
<1>1. ASSUME NEW p \in Push, HandlerStep(p) \/ Scheduled(p) \/ ClientStep(p)
      PROVE  AppliedIsShown'
    <2> SUFFICES ASSUME NEW q \in Push, stage'[q] = "put", wire'[q] = "applied"
                 PROVE  \/ graphs'[Author[q]] = q
                        \/ graphs'[Author[q]] \in Push /\ VerdictOf(graphs[Author[q]])' = "failed"
        BY DEF AppliedIsShown
    <2>1. q # p
        BY <1>1, StageSteps DEF Moved, Moves, Checking, Admitted, Sent, Refused, Accepted, GivenUp
    <2>2. stage[q] = "put" /\ wire[q] = "applied" /\ graphs' = graphs
        BY <1>1, <2>1, StageEffect
    <2>3. \/ graphs[Author[q]] = q
          \/ graphs[Author[q]] \in Push /\ VerdictOf(graphs[Author[q]]) = "failed"
        BY <2>2 DEF AppliedIsShown
    <2> QED BY <1>1, <2>2, <2>3, FailedStays
<1>2. ASSUME NEW p \in Push, StoreStep(p)
      PROVE  AppliedIsShown'
    <2> SUFFICES ASSUME NEW q \in Push, stage'[q] = "put", wire'[q] = "applied"
                 PROVE  \/ graphs'[Author[q]] = q
                        \/ graphs'[Author[q]] \in Push /\ VerdictOf(graphs[Author[q]])' = "failed"
        BY DEF AppliedIsShown
    <2>1. stage' = stage /\ answer' = answer /\ wire[p] = "sent"
        BY <1>2 DEF StoreStep, Commit, Abort
    <2>2. \A x \in Push : VerdictOf(x)' = VerdictOf(x)
        BY <2>1 DEF VerdictOf
    <2>3. \A x \in Id : graphs'[x] = graphs[x] \/ (x = Author[p] /\ graphs'[x] = p)
        BY <1>2 DEF StoreStep, Commit, Abort, PubTypeOK
    <2>4. Author[q] \in Id
        BY AuthorAssumption
    <2>5. CASE q = p
        BY <1>2, <2>4, <2>5 DEF StoreStep, Commit, Abort, PubTypeOK
    <2>6. CASE q # p
        <3>1. wire[q] = "applied"
            BY <1>2, <2>6 DEF StoreStep, Commit, Abort, PubTypeOK
        <3>2. \/ graphs[Author[q]] = q
              \/ graphs[Author[q]] \in Push /\ VerdictOf(graphs[Author[q]]) = "failed"
            BY <2>1, <3>1 DEF AppliedIsShown
        <3>3. stage[p] \in {"done", "lost"}
            BY <2>1, <2>6 DEF SentAtTheEnd, OneHandlerRuns, HoldingStages
        <3>4. VerdictOf(p) = "failed"
            BY <1>0, <2>1, <3>3 DEF VerdictTable, SentAtTheEnd, AnsweredWhenDone
        <3>5. CASE graphs'[Author[q]] = graphs[Author[q]]
            BY <2>2, <3>2, <3>5
        <3>6. CASE graphs'[Author[q]] = p
            BY <2>2, <3>4, <3>6
        <3> QED BY <2>3, <2>4, <3>5, <3>6
    <2> QED BY <2>5, <2>6
<1>3. CASE RegistryStep \/ Elsewhere
    BY <1>3 DEF RegistryStep, Elsewhere, pushVars, AppliedIsShown, VerdictOf
<1>4. CASE Crash
    BY <1>4 DEF Crash, InFlight, PubTypeOK, AppliedIsShown
<1>5. CASE UNCHANGED pubVars
    BY <1>5 DEF pubVars, pushVars, AppliedIsShown, VerdictOf
<1> QED BY <1>1, <1>2, <1>3, <1>4, <1>5 DEF PubNext

(* Admission is what the registry check bounds, and it is kept to the end. *)
LEMMA NextAdmittedWasMember ==
    ASSUME IInv, IInv', PubTypeOK, ChecksTheAuthor, SentAtTheEnd, AdmittedWasMember,
           [PubNext]_pubVars
    PROVE  AdmittedWasMember'
<1>0. [Next]_vars
    BY RegistryStepOrStutter
<1>1. ASSUME NEW p \in Push, HandlerStep(p) \/ Scheduled(p) \/ ClientStep(p)
      PROVE  AdmittedWasMember'
    <2> SUFFICES ASSUME NEW q \in Push, stage'[q] \in AdmittedStages \/ wire'[q] # "none"
                 PROVE  Normal[Author[q]] \in WebId /\ \E r \in Resource : SeenNear(q, r)'
        BY DEF AdmittedWasMember
    <2>1. CASE q # p
        <3>1. stage'[q] = stage[q] /\ wire'[q] = wire[q] /\ admittedAt'[q] = admittedAt[q]
            BY <1>1, <2>1, StageEffect
        <3> QED BY <1>0, <3>1, AdmittedKept
    <2>2. CASE q = p /\ Admitted(p)
        <3>1. asked = Normal[Author[p]] /\ outcome[Checker] = "granted"
            BY <2>2 DEF Admitted, ChecksTheAuthor
        <3>2. PICK r \in Resource :
                 /\ LastListed(r, asked) >= 0
                 /\ \/ LastListed(r, asked) >= startedAt[Checker]
                    \/ LastListed(r, asked) + Ttl > startedAt[Checker]
            BY <3>1 DEF IInv, RevocationBound
        <3>3. asked \in WebId
            BY <3>1 DEF IInv, RevocationBound
        <3>4. LastListed(r, asked)' = LastListed(r, asked) /\ asked' = asked
            BY <2>2 DEF Admitted, vars, registryVars, callVars, LastListed
        <3>5. SeenNear(p, r)'
            BY <2>2, <3>1, <3>2, <3>4 DEF Admitted, SeenNear
        <3> QED BY <2>2, <3>1, <3>3, <3>5
    <2>3. CASE q = p /\ ~ Admitted(p)
        <3>1. admittedAt' = admittedAt /\ (stage[p] \in AdmittedStages \/ wire[p] # "none")
            BY <1>1, <2>3, StageSteps DEF Moved, Moves, Checking, Sent, Refused, Accepted, GivenUp,
                     AdmittedStages
        <3> QED BY <1>0, <2>3, <3>1, AdmittedKept
    <2> QED BY <2>1, <2>2, <2>3
<1>2. CASE \/ RegistryStep \/ Elsewhere \/ Crash \/ UNCHANGED pubVars
           \/ \E p \in Push : StoreStep(p)
    <2> SUFFICES ASSUME NEW q \in Push, stage'[q] \in AdmittedStages \/ wire'[q] # "none"
                 PROVE  Normal[Author[q]] \in WebId /\ \E r \in Resource : SeenNear(q, r)'
        BY DEF AdmittedWasMember
    <2>1. admittedAt' = admittedAt /\ (stage[q] \in AdmittedStages \/ wire[q] # "none")
        BY <1>2 DEF RegistryStep, Elsewhere, Crash, InFlight, StoreStep, Commit, Abort, pubVars,
                    pushVars, PubTypeOK, AdmittedStages
    <2> QED BY <1>0, <2>1, AdmittedKept
<1> QED BY <1>1, <1>2 DEF PubNext

(* The invariant holds before the first push. *)
LEMMA InitPubInv == PubInit => PubInv
<1> SUFFICES ASSUME PubInit PROVE PubInv
    OBVIOUS
<1>1. IInv /\ PubTypeOK
    BY InitIInv, InitPubTypeOK DEF PubInit
<1>2. /\ pc[Checker] = "idle" /\ loop = NoPush
      /\ \A p \in Push : stage[p] = "new" /\ answer[p].status = 0 /\ wire[p] = "none"
    BY Callers DEF PubInit, Init, NoAnswer
<1>3. OneHandlerRuns
    BY <1>2, NoPushAssumption DEF OneHandlerRuns, HoldingStages
<1>4. ChecksTheAuthor /\ AnsweredWhenDone /\ SentAtTheEnd /\ AppliedIsShown
    BY <1>2 DEF ChecksTheAuthor, AnsweredWhenDone, SentAtTheEnd, AppliedIsShown
<1>5. AdmittedWasMember
    BY <1>2 DEF AdmittedWasMember, AdmittedStages
<1> QED BY <1>1, <1>3, <1>4, <1>5 DEF PubInv

(* Every step keeps it. *)
LEMMA NextPubInv == PubInv /\ [PubNext]_pubVars => PubInv'
<1> SUFFICES ASSUME PubInv, [PubNext]_pubVars PROVE PubInv'
    OBVIOUS
<1> USE DEF PubInv
<1>1. IInv'
    BY RegistryStepOrStutter, NextIInv
<1>2. TypeOK /\ TypeOK'
    BY <1>1 DEF IInv
<1>3. PubTypeOK'
    BY <1>2, NextPubTypeOK
<1>4. OneHandlerRuns' /\ ChecksTheAuthor'
    BY <1>2, NextOneHandlerRuns, NextChecksTheAuthor
<1>5. AnsweredWhenDone' /\ SentAtTheEnd'
    BY <1>2, NextAnswers
<1>6. AppliedIsShown'
    BY <1>2, <1>5, NextAppliedIsShown
<1>7. AdmittedWasMember'
    BY <1>1, NextAdmittedWasMember
<1> QED BY <1>1, <1>3, <1>4, <1>5, <1>6, <1>7

LEMMA PubInvariance == PubSpec => []PubInv
<1> QED BY InitPubInv, NextPubInv, PTL DEF PubSpec

(* PubTypeOK: every variable keeps its shape, and every push is answered with *)
(* a status of the handler or not at all.                                     *)
THEOREM PublicationTypeCorrect == PubSpec => []PubTypeOK
<1>1. PubInv => PubTypeOK
    BY DEF PubInv
<1> QED BY <1>1, PubInvariance, PTL

(* OneHandlerRuns: from admission to answer the handler gives the event loop   *)
(* up nowhere but at the body, however many pushes, checks and probes overlap. *)
THEOREM OneHandlerAtATime == PubSpec => []OneHandlerRuns
<1>1. PubInv => OneHandlerRuns
    BY DEF PubInv
<1> QED BY <1>1, PubInvariance, PTL

(* StoredWasMember: nothing is sent to the store for a push unless some         *)
(* resource listed its author at most Ttl before the check that admitted it,    *)
(* whatever the registry, the cache, other pushes and restarts did in between.  *)
THEOREM StoredWereMembers == PubSpec => []StoredWasMember
<1>1. PubInv => StoredWasMember
    BY DEF PubInv, AdmittedWasMember, StoredWasMember
<1> QED BY <1>1, PubInvariance, PTL
-----------------------------------------------------------------------------
(* The loop is given up. *)

(* One step takes the holder of the loop nearer, or leaves it where it is. *)
Place == <<stage[loop], pc[Checker], todo[Checker]>>
Nearer == \/ Distance' < Distance
          \/ Distance' = Distance /\ todo'[Checker] \subseteq todo[Checker]

(* The registry and its probes leave the position of the checker alone. *)
LEMMA ElsewhereFrame ==
    ASSUME TypeOK, Elsewhere
    PROVE  UNCHANGED <<stage, loop, pc[Checker], todo[Checker]>>
<1>1. ASSUME NEW c \in Probe, BeginProbe(c) \/ LoadStep(c)
      PROVE  UNCHANGED <<pc[Checker], todo[Checker]>>
    <2>1. c # Checker /\ c \in Caller /\ Checker \in Caller
        BY CheckerAssumption DEF Caller
    <2> QED BY <1>1, <2>1 DEF BeginProbe, LoadStep, FetchContainer, ContainerUnreadable,
               FetchResource, ResourceUnreadable, Install, InstallAs, Return, TypeOK
<1>2. ASSUME Tick \/ RegistryEdit
      PROVE  UNCHANGED <<pc[Checker], todo[Checker]>>
    BY <1>2 DEF Tick, RegistryEdit, WriteResource, DeleteResource, Relist, callVars
<1> QED BY <1>1, <1>2 DEF Elsewhere, pushVars

(* A step of the check: a phase further, or the same with less to fetch. *)
LEMMA CheckAdvances ==
    ASSUME TypeOK, PubTypeOK, OneHandlerRuns, RegistryStep
    PROVE  Nearer
<1>1. CheckStep /\ stage' = stage /\ loop' = loop /\ Checker \in Caller
    BY Callers DEF RegistryStep, pushVars
<1>2. stage[loop] = "check"
    BY <1>1, RegistryFrame DEF OneHandlerRuns
<1>3. CASE UseCache \/ MissCache
    BY <1>1, <1>2, <1>3 DEF UseCache, MissCache, Return, TypeOK, Nearer, Distance
<1>4. CASE FetchContainer(Checker) \/ ContainerUnreadable(Checker) \/ Install(Checker)
    BY <1>1, <1>2, <1>4 DEF FetchContainer, ContainerUnreadable, Install, InstallAs, Return,
       TypeOK, Nearer, Distance
<1>5. ASSUME NEW r \in Resource,
             FetchResource(Checker, r) \/ ResourceUnreadable(Checker, r)
      PROVE  Nearer
    <2>1. pc[Checker] = "resources"
        BY <1>5 DEF FetchResource, ResourceUnreadable, IsNext
    <2>2. \/ pc'[Checker] = "idle"
          \/ pc'[Checker] = "resources" /\ todo'[Checker] = todo[Checker] \ {r}
        BY <1>1, <1>5, <2>1 DEF FetchResource, ResourceUnreadable, Return, TypeOK
    <2> QED BY <1>1, <1>2, <2>1, <2>2 DEF Nearer, Distance
<1> QED BY <1>1, <1>3, <1>4, <1>5 DEF CheckStep, LoadStep

(* A step of the handler goes on to a later stage, or gives the loop up. *)
LEMMA HandlerAdvances ==
    ASSUME TypeOK, PubTypeOK, OneHandlerRuns, NEW p \in Push, HandlerStep(p), loop' = loop
    PROVE  Nearer
<1>1. stage[p] \in HoldingStages
    BY DEF HoldingStages, HandlerStep, AuthReject, AuthAccept, RegistryUnavailable, NotRegistered,
           Admit, CheckedAs, BodyBuffered, AwaitBody, AuthRaises, Undecodable, Invalid,
           StoreUnreachable, SendPut, PutSucceeded, PutFailed
<1>2. loop = p /\ loop # NoPush
    BY <1>1, NoPushAssumption DEF OneHandlerRuns
<1>3. CASE AuthAccept(p)
    <2>1. pc'[Checker] = "compare" /\ stage[p] = "auth" /\ stage'[p] = "check"
        BY <1>3, Callers DEF AuthAccept, BeginCheck, Continue, TypeOK, PubTypeOK
    <2> QED BY <1>2, <2>1 DEF Nearer, Distance
<1>4. CASE Admit(p) \/ BodyBuffered(p) \/ SendPut(p)
    <2>1. \/ stage[p] = "check" /\ pc[Checker] = "idle" /\ stage'[p] = "body"
          \/ stage[p] = "body" /\ stage'[p] = "validate"
          \/ stage[p] = "validate" /\ stage'[p] = "put"
        BY <1>4 DEF Admit, CheckedAs, BodyBuffered, SendPut, Continue, PubTypeOK
    <2> QED BY <1>2, <2>1 DEF Nearer, Distance
<1>5. CASE \/ \E status \in {401, 503} : AuthReject(p, status)
           \/ RegistryUnavailable(p) \/ NotRegistered(p) \/ AwaitBody(p) \/ AuthRaises(p) \/ Undecodable(p)
           \/ Invalid(p) \/ StoreUnreachable(p) \/ PutSucceeded(p) \/ PutFailed(p)
    BY <1>2, <1>5 DEF AuthReject, RegistryUnavailable, NotRegistered, AwaitBody, AuthRaises, Undecodable,
       Invalid, StoreUnreachable, PutSucceeded, PutFailed, Answer
<1> QED BY <1>3, <1>4, <1>5 DEF HandlerStep

LEMMA HolderMoves ==
    ASSUME TypeOK, PubTypeOK, OneHandlerRuns, [PubNext]_pubVars, loop # NoPush, loop' = loop
    PROVE  UNCHANGED Place \/ Nearer
<1>1. ASSUME NEW p \in Push, HandlerStep(p)
      PROVE  Nearer
    BY <1>1, HandlerAdvances
<1>2. ASSUME NEW p \in Push, Scheduled(p)
      PROVE  FALSE
    BY <1>2 DEF Scheduled, Begin, Resume
<1>3. ASSUME NEW p \in Push, ClientStep(p)
      PROVE  UNCHANGED Place
    <2>1. stage[p] \notin HoldingStages /\ UNCHANGED <<pc, todo>>
        BY <1>3 DEF ClientStep, Arrive, BodyArrives, Disconnect, HoldingStages, regVars, vars,
           callVars
    <2>2. loop # p
        BY <2>1 DEF OneHandlerRuns
    <2>3. stage'[loop] = stage[loop]
        BY <1>3, <2>2, StageEffect DEF PubTypeOK
    <2> QED BY <2>1, <2>3 DEF Place
<1>4. ASSUME NEW p \in Push, StoreStep(p)
      PROVE  UNCHANGED Place
    BY <1>4 DEF StoreStep, Commit, Abort, regVars, vars, callVars, Place
<1>5. CASE RegistryStep
    BY <1>5, CheckAdvances
<1>6. CASE Elsewhere
    BY <1>6, ElsewhereFrame DEF Place
<1>7. CASE Crash
    BY <1>7 DEF Crash
<1>8. CASE UNCHANGED pubVars
    BY <1>8 DEF pubVars, pushVars, regVars, vars, callVars, Place
<1> QED BY <1>1, <1>2, <1>3, <1>4, <1>5, <1>6, <1>7, <1>8 DEF PubNext

(* HolderAdvances: the coroutine on the event loop only ever comes nearer to   *)
(* giving it up, whatever its client, the registry, the probes and the store do. *)
THEOREM HolderKeepsAdvancing == PubSpec => HolderAdvances
<1>1. PubInv /\ [PubNext]_pubVars =>
          [loop # NoPush /\ loop' = loop => UNCHANGED Place \/ Nearer]_pubVars
    BY HolderMoves DEF PubInv, IInv
<1>2. [loop # NoPush /\ loop' = loop => UNCHANGED Place \/ Nearer]_pubVars <=>
      [loop # NoPush /\ loop' = loop =>
          \/ UNCHANGED <<stage[loop], pc[Checker], todo[Checker]>>
          \/ Distance' < Distance
          \/ Distance' = Distance /\ todo'[Checker] \subseteq todo[Checker]]_pubVars
    BY DEF Place, Nearer
<1> QED BY <1>1, <1>2, PubInvariance, PTL DEF PubSpec, HolderAdvances
-----------------------------------------------------------------------------
(* The refinement of CatalogIndex. *)

(* A step that changes no verdict and no snapshot. *)
LEMMA MapStutter ==
    ASSUME UNCHANGED <<graphs, latest>>,
           \A q \in Push : /\ VerdictOf(q)' = VerdictOf(q)
                           /\ wire'[q] = "applied" <=> wire[q] = "applied"
    PROVE  UNCHANGED Index!vars
BY DEF Index!vars

(* A step in which the pushes of S fail. *)
LEMMA MapFail ==
    ASSUME UNCHANGED <<graphs, latest>>, NEW S \in SUBSET Push,
           \A q \in S : VerdictOf(q) = "open",
           \A q \in Push : /\ VerdictOf(q)' = IF q \in S THEN "failed" ELSE VerdictOf(q)
                           /\ wire'[q] = "applied" <=> wire[q] = "applied"
    PROVE  Index!Fail(S)
BY DEF Index!Fail

(* A step of a push is a step of the index, or none. *)
LEMMA StageMaps ==
    ASSUME PubInv, PubInv', NEW p \in Push, HandlerStep(p) \/ Scheduled(p) \/ ClientStep(p)
    PROVE  [Index!Next]_(Index!vars)
<1>0. VerdictTable /\ VerdictTable'
    <2>1. AnsweredWhenDone' => VerdictTable'
        BY Verdicts, PTL
    <2> QED BY <2>1, Verdicts DEF PubInv
<1>1. /\ graphs' = graphs
      /\ \A q \in Push \ {p} : stage'[q] = stage[q] /\ answer'[q] = answer[q] /\ wire'[q] = wire[q]
    BY StageEffect DEF PubInv
<1>2. \A q \in Push \ {p} : VerdictOf(q)' = VerdictOf(q)
    BY <1>1 DEF VerdictOf
<1>3. CASE (Moved(p) /\ stage'[p] # "lost") \/ Checking(p) \/ Admitted(p) \/ Sent(p)
    <2>1. VerdictOf(p) = "open" /\ VerdictOf(p)' = "open" /\ latest' = latest
        BY <1>0, <1>3 DEF VerdictTable, Moved, Moves, Checking, Admitted, Sent
    <2>2. wire'[p] = "applied" <=> wire[p] = "applied"
        BY <1>3 DEF Moved, Checking, Admitted, Sent, PubInv, SentAtTheEnd
    <2> QED BY <1>1, <1>2, <2>1, <2>2, MapStutter
<1>4. CASE \/ Moved(p) /\ stage'[p] = "lost"
           \/ Refused(p) /\ answer'[p].status = 502
           \/ GivenUp(p)
    <2>1. VerdictOf(p) = "open" /\ VerdictOf(p)' = "failed" /\ latest' = latest /\ wire' = wire
        BY <1>0, <1>4 DEF VerdictTable, Moved, Moves, Refused, GivenUp
    <2>2. Index!Fail({p})
        BY <1>1, <1>2, <2>1, MapFail
    <2> QED BY <2>2 DEF Index!Next
<1>5. CASE Refused(p) /\ answer'[p].status # 502
    <2>1. VerdictOf(p) = "open" /\ VerdictOf(p)' = "refused" /\ latest' = latest /\ wire' = wire
        BY <1>0, <1>5 DEF VerdictTable, Refused
    <2>2. wire[p] # "applied"
        BY <1>5 DEF Refused, PubInv, SentAtTheEnd
    <2>3. Index!Refuse(p)
        BY <1>1, <1>2, <2>1, <2>2 DEF Index!Refuse
    <2> QED BY <2>3 DEF Index!Next
<1>6. CASE Accepted(p)
    <2>1. VerdictOf(p) = "open" /\ VerdictOf(p)' = "accepted" /\ wire' = wire
        BY <1>0, <1>6 DEF VerdictTable, Accepted
    <2>2. Index!Shows(Author[p], p)
        BY <1>6 DEF Accepted, PubInv, AppliedIsShown
    <2>3. p \in {q \in Push : wire[q] = "applied"}
        BY <1>6 DEF Accepted, PubInv, AppliedIsShown
    <2>4. latest' = [latest EXCEPT ![Author[p]] = p]
        BY <1>6 DEF Accepted
    <2>5. [q \in Push |-> VerdictOf(q)'] = [[q \in Push |-> VerdictOf(q)] EXCEPT ![p] = "accepted"]
        BY <1>2, <2>1
    <2>6. Index!Accept(p)
        BY <1>1, <2>1, <2>2, <2>3, <2>4, <2>5 DEF Index!Accept
    <2> QED BY <2>6 DEF Index!Next
<1> QED BY <1>3, <1>4, <1>5, <1>6, StageSteps DEF PubInv

(* A commit is the replacement of the snapshot; an abort is nothing. *)
LEMMA StoreMaps ==
    ASSUME PubInv, PubInv', NEW p \in Push, StoreStep(p)
    PROVE  [Index!Next]_(Index!vars)
<1>0. VerdictTable
    BY Verdicts DEF PubInv
<1>1. /\ stage' = stage /\ answer' = answer /\ latest' = latest /\ wire[p] = "sent"
      /\ \A q \in Push \ {p} : wire'[q] = wire[q]
    BY DEF StoreStep, Commit, Abort, PubInv, PubTypeOK
<1>2. \A q \in Push : VerdictOf(q)' = VerdictOf(q)
    BY <1>1 DEF VerdictOf
<1>3. CASE Commit(p)
    <2>1. wire'[p] = "applied" /\ graphs' = [graphs EXCEPT ![Author[p]] = p]
        BY <1>3 DEF Commit, PubInv, PubTypeOK
    <2>2. VerdictOf(p) \in {"open", "failed"}
        BY <1>0, <1>1 DEF VerdictTable, PubInv, SentAtTheEnd, AnsweredWhenDone
    <2>3. Index!Apply(p)
        BY <1>1, <1>2, <2>1, <2>2 DEF Index!Apply
    <2> QED BY <2>3 DEF Index!Next
<1>4. CASE Abort(p)
    <2>1. wire'[p] = "aborted" /\ graphs' = graphs
        BY <1>4 DEF Abort, PubInv, PubTypeOK
    <2> QED BY <1>1, <1>2, <2>1, MapStutter
<1> QED BY <1>3, <1>4 DEF StoreStep

(* Every step of the composition is one of the index, or none. *)
LEMMA NextMaps == PubInv /\ PubInv' /\ [PubNext]_pubVars => [Index!Next]_(Index!vars)
<1> SUFFICES ASSUME PubInv, PubInv', [PubNext]_pubVars PROVE [Index!Next]_(Index!vars)
    OBVIOUS
<1>1. ASSUME NEW p \in Push, HandlerStep(p) \/ Scheduled(p) \/ ClientStep(p) \/ StoreStep(p)
      PROVE  [Index!Next]_(Index!vars)
    BY <1>1, StageMaps, StoreMaps
<1>2. CASE RegistryStep \/ Elsewhere \/ UNCHANGED pubVars
    <2>1. UNCHANGED pushVars
        BY <1>2 DEF RegistryStep, Elsewhere, pubVars
    <2>2. \A q \in Push : VerdictOf(q)' = VerdictOf(q)
        BY <2>1 DEF VerdictOf, pushVars
    <2> QED BY <2>1, <2>2, MapStutter DEF pushVars
<1>3. CASE Crash
    <2>1. VerdictTable
        BY Verdicts DEF PubInv
    <2>2. /\ answer' = answer /\ wire' = wire /\ graphs' = graphs /\ latest' = latest
          /\ \A q \in Push : stage'[q] = IF q \in InFlight THEN "lost" ELSE stage[q]
        BY <1>3 DEF Crash, PubInv, PubTypeOK
    <2>3. \A q \in InFlight : VerdictOf(q) = "open"
        BY <2>1 DEF VerdictTable, InFlight
    <2>4. \A q \in InFlight : answer[q].status = 0
        BY DEF InFlight, PubInv, AnsweredWhenDone
    <2>5. \A q \in Push : VerdictOf(q)' = IF q \in InFlight THEN "failed" ELSE VerdictOf(q)
        BY <2>2, <2>4 DEF VerdictOf
    <2>6. InFlight \in SUBSET Push
        BY DEF InFlight
    <2>7. Index!Fail(InFlight)
        BY <2>2, <2>3, <2>5, <2>6, MapFail
    <2> QED BY <2>6, <2>7 DEF Index!Next
<1> QED BY <1>1, <1>2, <1>3 DEF PubNext

(* ImplementsIndex: the handler, the store and their failures do to the graphs *)
(* what the abstract index allows, for any pushes, authors and registry.       *)
THEOREM PublicationImplementsIndex == PubSpec => ImplementsIndex
<1>1. PubInit => Index!Init
    BY DEF PubInit, Index!Init, VerdictOf, NoAnswer
<1> QED BY <1>1, PubInvariance, NextMaps, PTL DEF PubSpec, ImplementsIndex, Index!Spec

-----------------------------------------------------------------------------
(* What the abstract index promises, of the graphs of the store. *)

\* LatestAcceptedShown of one participant, the index's functions applied.
ShownFor(i) ==
    /\ graphs[i] # NoPush =>
          /\ Author[graphs[i]] = i
          /\ wire[graphs[i]] = "applied"
          /\ VerdictOf(graphs[i]) # "refused"
          /\ VerdictOf(graphs[i]) = "accepted" => graphs[i] = latest[i]
    /\ graphs[i] = NoPush => latest[i] = NoPush

Shown == \A i \in Id : ShownFor(i)

GraphsTyped ==
    /\ graphs \in [Id -> Push \cup {NoPush}]
    /\ latest \in [Id -> Push \cup {NoPush}]

LEMMA ShownIsIndexed ==
    ASSUME GraphsTyped, Shown
    PROVE  LatestAcceptedShown
<1>1. ASSUME NEW i \in Id, graphs[i] # NoPush
      PROVE  /\ graphs[i] \in {p \in Push : wire[p] = "applied"}
             /\ [p \in Push |-> VerdictOf(p)][graphs[i]] = VerdictOf(graphs[i])
    <2>1. graphs[i] \in Push
        BY <1>1 DEF GraphsTyped
    <2> QED BY <1>1, <2>1 DEF Shown, ShownFor
<1>2. Index!LatestAcceptedShown
    BY <1>1, Zenon DEF Index!LatestAcceptedShown, Shown, ShownFor
<1> QED BY <1>2 DEF LatestAcceptedShown

\* A snapshot that replaces its author's is of an open or failed push.
LEMMA ApplyShown ==
    ASSUME GraphsTyped, Shown, NEW p \in Push, Index!Apply(p)
    PROVE  Shown'
<1>1. \A q \in Push : VerdictOf(q)' = VerdictOf(q)
    <2>1. [q \in Push |-> VerdictOf(q)'] = [q \in Push |-> VerdictOf(q)]
        BY DEF Index!Apply
    <2> QED BY <2>1
<1>2. VerdictOf(p) \in {"open", "failed"}
    BY DEF Index!Apply
<1>3. \A q \in Push : wire'[q] = "applied" <=> wire[q] = "applied" \/ q = p
    <2>1. {q \in Push : wire'[q] = "applied"} = {q \in Push : wire[q] = "applied"} \cup {p}
        BY DEF Index!Apply
    <2> QED BY <2>1
<1>4. graphs' = [graphs EXCEPT ![Author[p]] = p] /\ latest' = latest
    BY DEF Index!Apply
<1> SUFFICES ASSUME NEW i \in Id PROVE ShownFor(i)'
    BY DEF Shown
<1>5. graphs[i] \in Push \cup {NoPush} /\ Author[p] \in Id
    BY AuthorAssumption DEF GraphsTyped
<1>6. CASE i = Author[p]
    <2>1. graphs'[i] = p
        BY <1>4, <1>6 DEF GraphsTyped
    <2> QED BY <1>1, <1>2, <1>3, <1>6, <2>1, NoPushAssumption DEF ShownFor
<1>7. CASE i # Author[p]
    <2>1. graphs'[i] = graphs[i]
        BY <1>4, <1>7 DEF GraphsTyped
    <2> QED BY <1>1, <1>3, <1>4, <1>5, <2>1 DEF Shown, ShownFor
<1> QED BY <1>6, <1>7

\* The author's graph shows the accepted push, or a failed one over it.
LEMMA AcceptShown ==
    ASSUME GraphsTyped, Shown, NEW p \in Push, Index!Accept(p)
    PROVE  Shown'
<1>1. \A q \in Push : VerdictOf(q)' = IF q = p THEN "accepted" ELSE VerdictOf(q)
    <2>1. [q \in Push |-> VerdictOf(q)'] = [[q \in Push |-> VerdictOf(q)] EXCEPT ![p] = "accepted"]
        BY DEF Index!Accept
    <2>2. ASSUME NEW q \in Push
          PROVE  VerdictOf(q)' = IF q = p THEN "accepted" ELSE VerdictOf(q)
        <3>1. VerdictOf(q)' = [[r \in Push |-> VerdictOf(r)] EXCEPT ![p] = "accepted"][q]
            BY <2>1
        <3> QED BY <3>1
    <2> QED BY <2>2
<1>2. VerdictOf(p) = "open"
    BY DEF Index!Accept
<1>3. \A q \in Push : wire'[q] = "applied" <=> wire[q] = "applied"
    <2>1. {q \in Push : wire'[q] = "applied"} = {q \in Push : wire[q] = "applied"}
        BY DEF Index!Accept
    <2> QED BY <2>1
<1>4. graphs' = graphs /\ latest' = [latest EXCEPT ![Author[p]] = p]
    BY DEF Index!Accept
<1>5. \/ graphs[Author[p]] = p
      \/ graphs[Author[p]] \in Push /\ VerdictOf(graphs[Author[p]]) = "failed"
    BY DEF Index!Accept, Index!Shows
<1> SUFFICES ASSUME NEW i \in Id PROVE ShownFor(i)'
    BY DEF Shown
<1>6. graphs[i] \in Push \cup {NoPush} /\ Author[p] \in Id
    BY AuthorAssumption DEF GraphsTyped
<1>7. CASE i = Author[p]
    <2>1. latest'[i] = p
        BY <1>4, <1>7 DEF GraphsTyped
    <2> QED BY <1>1, <1>2, <1>3, <1>4, <1>5, <1>6, <1>7, <2>1, NoPushAssumption DEF Shown, ShownFor
<1>8. CASE i # Author[p]
    <2>1. latest'[i] = latest[i]
        BY <1>4, <1>8 DEF GraphsTyped
    <2>2. graphs[i] # NoPush => graphs[i] # p
        BY <1>8 DEF Shown, ShownFor
    <2> QED BY <1>1, <1>3, <1>4, <1>6, <2>1, <2>2 DEF Shown, ShownFor
<1> QED BY <1>7, <1>8

\* A refused push is in no graph, because it was never applied.
LEMMA RefuseShown ==
    ASSUME GraphsTyped, Shown, NEW p \in Push, Index!Refuse(p)
    PROVE  Shown'
<1>1. \A q \in Push : VerdictOf(q)' = IF q = p THEN "refused" ELSE VerdictOf(q)
    <2>1. [q \in Push |-> VerdictOf(q)'] = [[q \in Push |-> VerdictOf(q)] EXCEPT ![p] = "refused"]
        BY DEF Index!Refuse
    <2>2. ASSUME NEW q \in Push
          PROVE  VerdictOf(q)' = IF q = p THEN "refused" ELSE VerdictOf(q)
        <3>1. VerdictOf(q)' = [[r \in Push |-> VerdictOf(r)] EXCEPT ![p] = "refused"][q]
            BY <2>1
        <3> QED BY <3>1
    <2> QED BY <2>2
<1>2. \A q \in Push : wire'[q] = "applied" <=> wire[q] = "applied"
    <2>1. {q \in Push : wire'[q] = "applied"} = {q \in Push : wire[q] = "applied"}
        BY DEF Index!Refuse
    <2> QED BY <2>1
<1>3. graphs' = graphs /\ latest' = latest /\ wire[p] # "applied"
    BY DEF Index!Refuse
<1> SUFFICES ASSUME NEW i \in Id PROVE ShownFor(i)'
    BY DEF Shown
<1>4. graphs[i] \in Push \cup {NoPush}
    BY DEF GraphsTyped
<1> QED BY <1>1, <1>2, <1>3, <1>4 DEF Shown, ShownFor

\* Only open pushes fail, so no accepted or refused verdict changes.
LEMMA FailShown ==
    ASSUME GraphsTyped, Shown, NEW S \in SUBSET Push, Index!Fail(S)
    PROVE  Shown'
<1>1. \A q \in Push : VerdictOf(q)' = IF q \in S THEN "failed" ELSE VerdictOf(q)
    <2>1. [q \in Push |-> VerdictOf(q)']
              = [q \in Push |-> IF q \in S THEN "failed" ELSE [r \in Push |-> VerdictOf(r)][q]]
        BY DEF Index!Fail
    <2>2. ASSUME NEW q \in Push
          PROVE  VerdictOf(q)' = IF q \in S THEN "failed" ELSE VerdictOf(q)
        <3>1. VerdictOf(q)' = IF q \in S THEN "failed" ELSE [r \in Push |-> VerdictOf(r)][q]
            BY <2>1
        <3> QED BY <3>1
    <2> QED BY <2>2
<1>2. \A q \in Push : wire'[q] = "applied" <=> wire[q] = "applied"
    <2>1. {q \in Push : wire'[q] = "applied"} = {q \in Push : wire[q] = "applied"}
        BY DEF Index!Fail
    <2> QED BY <2>1
<1>3. graphs' = graphs /\ latest' = latest
    BY DEF Index!Fail
<1> SUFFICES ASSUME NEW i \in Id PROVE ShownFor(i)'
    BY DEF Shown
<1>4. graphs[i] \in Push \cup {NoPush}
    BY DEF GraphsTyped
<1> QED BY <1>1, <1>2, <1>3, <1>4 DEF Shown, ShownFor

\* A step of something else leaves the verdicts and the graphs alone.
LEMMA StutterShown ==
    ASSUME GraphsTyped, Shown, UNCHANGED Index!vars
    PROVE  Shown'
<1>1. \A q \in Push : VerdictOf(q)' = VerdictOf(q)
    <2>1. [q \in Push |-> VerdictOf(q)'] = [q \in Push |-> VerdictOf(q)]
        BY DEF Index!vars
    <2> QED BY <2>1
<1>2. \A q \in Push : wire'[q] = "applied" <=> wire[q] = "applied"
    <2>1. {q \in Push : wire'[q] = "applied"} = {q \in Push : wire[q] = "applied"}
        BY DEF Index!vars
    <2> QED BY <2>1
<1>3. graphs' = graphs /\ latest' = latest
    BY DEF Index!vars
<1> SUFFICES ASSUME NEW i \in Id PROVE ShownFor(i)'
    BY DEF Shown
<1>4. graphs[i] \in Push \cup {NoPush}
    BY DEF GraphsTyped
<1> QED BY <1>1, <1>2, <1>3, <1>4 DEF Shown, ShownFor

\* No step puts anything but pushes into the graphs.
LEMMA NextGraphsTyped == GraphsTyped /\ [Index!Next]_(Index!vars) => GraphsTyped'
<1> SUFFICES ASSUME GraphsTyped, [Index!Next]_(Index!vars) PROVE GraphsTyped'
    OBVIOUS
<1>1. ASSUME NEW p \in Push, Index!Apply(p) PROVE GraphsTyped'
    BY <1>1, AuthorAssumption DEF GraphsTyped, Index!Apply
<1>2. ASSUME NEW p \in Push, Index!Accept(p) PROVE GraphsTyped'
    BY <1>2, AuthorAssumption DEF GraphsTyped, Index!Accept
<1>3. ASSUME NEW p \in Push, Index!Refuse(p) PROVE GraphsTyped'
    BY <1>3 DEF GraphsTyped, Index!Refuse
<1>4. ASSUME NEW S \in SUBSET Push, Index!Fail(S) PROVE GraphsTyped'
    BY <1>4 DEF GraphsTyped, Index!Fail
<1>5. CASE UNCHANGED Index!vars
    BY <1>5 DEF GraphsTyped, Index!vars
<1> QED BY <1>1, <1>2, <1>3, <1>4, <1>5 DEF Index!Next

LEMMA NextShown == GraphsTyped /\ Shown /\ [Index!Next]_(Index!vars) => Shown'
<1> SUFFICES ASSUME GraphsTyped, Shown, [Index!Next]_(Index!vars) PROVE Shown'
    OBVIOUS
<1>1. ASSUME NEW p \in Push, Index!Apply(p) \/ Index!Accept(p) \/ Index!Refuse(p) PROVE Shown'
    BY <1>1, ApplyShown, AcceptShown, RefuseShown
<1>2. ASSUME NEW S \in SUBSET Push, Index!Fail(S) PROVE Shown'
    BY <1>2, FailShown
<1>3. CASE UNCHANGED Index!vars
    BY <1>3, StutterShown
<1> QED BY <1>1, <1>2, <1>3 DEF Index!Next

(* LatestAcceptedShown, of the abstract index alone: whatever the pushes, their *)
(* authors and their number, a graph shows a snapshot of its owner that was     *)
(* stored and not refused, and no accepted one but the last accepted.           *)
THEOREM IndexShowsLatestAccepted == Index!Spec => []LatestAcceptedShown
<1>1. Index!Init => GraphsTyped /\ Shown
    <2>1. Index!Init => /\ graphs = [i \in Id |-> NoPush]
                        /\ latest = [i \in Id |-> NoPush]
        BY DEF Index!Init
    <2> QED BY <2>1 DEF GraphsTyped, Shown, ShownFor
<1>2. GraphsTyped /\ Shown /\ [Index!Next]_(Index!vars) => GraphsTyped' /\ Shown'
    BY NextGraphsTyped, NextShown
<1>3. GraphsTyped /\ Shown => LatestAcceptedShown
    BY ShownIsIndexed
<1> QED BY <1>1, <1>2, <1>3, PTL DEF Index!Spec

(* LatestAcceptedShown, of push_catalog with its registry, its store and their  *)
(* failures: it implements the index, and so keeps what the index promises.     *)
THEOREM PublicationShowsLatestAccepted == PubSpec => []LatestAcceptedShown
<1> QED BY PublicationImplementsIndex, IndexShowsLatestAccepted, PTL DEF ImplementsIndex
=============================================================================
