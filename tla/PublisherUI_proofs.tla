------------------------ MODULE PublisherUI_proofs -------------------------
(***************************************************************************)
(* A publication that carries somebody's credentials names that somebody,  *)
(* for any number of identities, catalogues and jobs.                      *)
(***************************************************************************)
EXTENDS PublisherUI, TLAPS

Screens == [of : States, bound : BOOLEAN]

-----------------------------------------------------------------------------
(* Type correctness. *)

(* Setting state now or later keeps state and screen in their types. *)
LEMMA SetTypes ==
    ASSUME NEW s \in States, session' \in Sessions, screen \in Screens,
           SetNow(s) \/ SetLater(s)
    PROVE  state' \in States /\ screen' \in Screens
<1>1. session'.loggedIn \in BOOLEAN
  BY DEF Sessions
<1>2. s.restored \in BOOLEAN
  BY DEF States
<1>3. Rendering(s, session'.loggedIn) \in Screens
  BY <1>1, <1>2 DEF Rendering, Screens
<1> QED BY <1>3 DEF SetNow, SetLater

(* The updates of the React state that the handlers make. *)
LEMMA StateUpdates ==
    ASSUME NEW s \in States
    PROVE  /\ \A e \in Errors : [s EXCEPT !.error = e] \in States
           /\ \A c \in Catalog : [s EXCEPT !.catalog = c] \in States
           /\ \A j \in Job : [s EXCEPT !.result = j] \in States
           /\ \A w \in Person : [s EXCEPT !.input = w] \in States
           /\ \A w \in Person : [s EXCEPT !.restored = TRUE, !.webId = w] \in States
           /\ \A w, i \in Person :
                [s EXCEPT !.restored = TRUE, !.webId = w, !.input = i] \in States
  BY DEF States

(* The errors that are set. *)
LEMMA ErrorTypes ==
    /\ NoError \in Errors
    /\ [about |-> "session", job |-> 0] \in Errors
    /\ [about |-> "malformed", job |-> 0] \in Errors
    /\ \A j \in Job : Failure(j) \in Errors
  BY DEF NoError, Errors, Failure

(* Jobs that are over or have not begun. *)
LEMMA IdleTypes ==
    /\ Unused \in Jobs
    /\ \A s \in {"ended", "answered", "failed"}, b \in BOOLEAN : Idle(s, b) \in Jobs
  BY DEF Unused, Idle, Jobs, Person

(* Ending a job keeps the jobs in their type. *)
LEMMA EndTypes ==
    ASSUME job \in [Job -> Jobs], NEW j \in Job,
           End(j, "ended") \/ End(j, "answered") \/ End(j, "failed")
    PROVE  job' \in [Job -> Jobs]
<1>1. job[j].delivered \in BOOLEAN
  BY DEF Jobs
<1> QED BY <1>1, IdleTypes DEF End

(* So does starting one. *)
LEMMA StartTypes ==
    ASSUME job \in [Job -> Jobs], NEW j \in Job, NEW r \in Jobs, Start(j, r)
    PROVE  job' \in [Job -> Jobs]
  BY DEF Start

(* Initially every variable has its type. *)
LEMMA InitTypeOK == Init => TypeOK
<1> SUFFICES ASSUME Init PROVE TypeOK
  OBVIOUS
<1>1. FreshState \in States
  BY ErrorTypes DEF FreshState, States, Person
<1>2. screen \in Screens
  BY <1>1 DEF Init, Rendering, Screens, FreshState
<1>3. session \in Sessions
  BY DEF Init, LoggedOut, Sessions, Person
<1> QED BY <1>1, <1>2, <1>3, IdleTypes DEF Init, TypeOK, Screens

(* The steps of the session and of the form preserve the types. *)
LEMMA SessionTypeOK == ASSUME TypeOK, SessionStep PROVE TypeOK'
<1> USE DEF TypeOK, Screens
<1>1. CASE Login
  <2>1. FreshState \in States
    BY ErrorTypes DEF FreshState, States, Person
  <2>2. session' \in Sessions
    BY <1>1 DEF Login, LoggedOut, Sessions, Person
  <2> QED BY <1>1, <2>1, <2>2, SetTypes, IdleTypes DEF Login
<1>2. CASE RestoreSession
  <2>1. session' \in Sessions
    <3>1. Account \cup {NoOne} \subseteq Person
      BY WebIdAssumption DEF Person
    <3> QED BY <1>2, <3>1 DEF RestoreSession, Sessions
  <2>2. session'.webId \in Person /\ state.input \in Person
    BY <2>1 DEF Sessions, States
  <2> DEFINE i == IF session'.webId # NoOne THEN session'.webId ELSE state.input
             s == [state EXCEPT !.restored = TRUE, !.webId = session'.webId, !.input = i]
  <2>3. s \in States
    BY <2>2, StateUpdates
  <2>4. SetLater(s)
    BY <1>2 DEF RestoreSession
  <2> HIDE DEF s
  <2> QED BY <1>2, <2>1, <2>3, <2>4, SetTypes DEF RestoreSession
<1>3. CASE RestoreFails
  BY <1>3, StateUpdates, ErrorTypes, SetTypes DEF RestoreFails
<1>4. CASE Expire
  BY <1>4 DEF Expire, Sessions
<1>5. CASE Logout
  BY <1>5 DEF Logout
<1>6. CASE LogoutDone
  BY <1>6 DEF LogoutDone, Sessions, Person
<1>7. CASE RestoreAgain
  <2>1. session.webId \in Person
    BY DEF Sessions
  <2> QED BY <1>7, <2>1, StateUpdates, SetTypes DEF RestoreAgain
<1>8. CASE LogoutFails
  BY <1>8 DEF LogoutFails
<1>9. ASSUME NEW w \in Person, EditWebId(w) PROVE TypeOK'
  BY <1>9, StateUpdates, SetTypes DEF EditWebId
<1> QED
  BY <1>1, <1>2, <1>3, <1>4, <1>5, <1>6, <1>7, <1>8, <1>9 DEF SessionStep

(* So do the steps of a job. *)
LEMMA JobTypeOK ==
    ASSUME TypeOK, NEW j \in Job, JobBegins(j) \/ Deliver(j) \/ JobEnds(j)
    PROVE  TypeOK'
<1> USE DEF TypeOK, Screens
<1>1. CASE HandleFetchCatalog(j)
  <2>1. [Unused EXCEPT !.kind = "fetch", !.stage = "running"] \in Jobs
    BY IdleTypes DEF Jobs
  <2> QED
    BY <1>1, <2>1, StartTypes, StateUpdates, ErrorTypes, SetTypes DEF HandleFetchCatalog
<1>2. CASE ReadCatalogFile(j)
  <2>1. [Unused EXCEPT !.kind = "file", !.stage = "running"] \in Jobs
    BY IdleTypes DEF Jobs
  <2> QED BY <1>2, <2>1, StartTypes DEF ReadCatalogFile
<1>3. CASE HandlePublish(j)
  <2>1. screen.of \in States
    OBVIOUS
  <2>2. /\ screen.of.catalog \in Catalog \ Malformed
        /\ Named(screen.of) \in Person
    BY <1>3, <2>1 DEF HandlePublish, CanPublish, States, Named
  <2>3. Credentials \in Person
    BY DEF Credentials, Sessions, Person
  <2>4. Request(screen.of) \in Jobs
    BY <2>2, <2>3 DEF Request, Jobs
  <2> HIDE DEF Screens
  <2>5. job' \in [Job -> Jobs]
    BY <1>3, <2>4, StartTypes DEF HandlePublish
  <2>6. state' \in States /\ screen' \in Screens
    BY <1>3, StateUpdates, ErrorTypes, SetTypes DEF HandlePublish, Screens
  <2> QED BY <1>3, <2>5, <2>6 DEF HandlePublish, Screens
<1>4. CASE Deliver(j)
  BY <1>4 DEF Deliver, Jobs
<1>5. ASSUME NEW c \in Catalog, FetchSucceeds(j, c) \/ FileRead(j, c) PROVE TypeOK'
  BY <1>5, EndTypes, StateUpdates, SetTypes DEF FetchSucceeds, FileRead
<1>6. CASE FetchFails(j) \/ PublishFails(j)
  BY <1>6, EndTypes, StateUpdates, ErrorTypes, SetTypes DEF FetchFails, PublishFails
<1>7. CASE FileUnreadable(j)
  BY <1>7, EndTypes DEF FileUnreadable
<1>8. CASE PublishAnswered(j)
  BY <1>8, EndTypes, StateUpdates, SetTypes DEF PublishAnswered
<1> QED
  BY <1>1, <1>2, <1>3, <1>4, <1>5, <1>6, <1>7, <1>8 DEF JobBegins, JobEnds

(* Every step preserves the types. *)
LEMMA NextTypeOK == TypeOK /\ [Next]_vars => TypeOK'
<1> SUFFICES ASSUME TypeOK, [Next]_vars PROVE TypeOK'
  OBVIOUS
<1>1. CASE Render
  BY <1>1 DEF Render, Rendering, TypeOK, Sessions, States
<1>2. CASE PublishMalformed
  BY <1>2, StateUpdates, ErrorTypes, SetTypes DEF PublishMalformed, TypeOK, Screens
<1>3. CASE SessionStep
  BY <1>3, SessionTypeOK
<1>4. ASSUME NEW j \in Job, JobBegins(j) \/ Deliver(j) \/ JobEnds(j) PROVE TypeOK'
  BY <1>4, JobTypeOK
<1>5. CASE UNCHANGED vars
  BY <1>5 DEF vars, TypeOK
<1> QED BY <1>1, <1>2, <1>3, <1>4, <1>5 DEF Next

(* Type correctness of the page in every reachable state: in particular no   *)
(* publication is sent whose catalogue does not parse.                       *)
THEOREM PageTypeCorrect == Spec => []TypeOK
<1>1. QED BY InitTypeOK, NextTypeOK, PTL DEF Spec

-----------------------------------------------------------------------------
(* A publication names the session that it is sent with. *)

\* A login comes into being only through the pending restoration of the page,
\* and no render has bound its fetch before.
MountedOnce == mounting => ~ session.loggedIn /\ ~ screen.bound

\* While the session is logged in, App knows as whom, and so does every
\* render that bound the session's fetch.
LoginIsKnown ==
    session.loggedIn =>
        /\ state.webId = session.webId
        /\ screen.bound => screen.of.webId = session.webId

IInv == TypeOK /\ MountedOnce /\ LoginIsKnown /\ HeaderNamesSession

(* A render of the present state knows the session, if it knows any. *)
LEMMA RenderingKnows ==
    ASSUME session \in Sessions, LoginIsKnown,
           NEW s \in States, s.webId = state.webId, UNCHANGED session,
           SetNow(s) \/ SetLater(s), MountedOnce, UNCHANGED mounting
    PROVE  LoginIsKnown' /\ MountedOnce'
<1>1. session.loggedIn \in BOOLEAN
  BY DEF Sessions
<1>2. s.restored \in BOOLEAN
  BY DEF States
<1> QED
  BY <1>1, <1>2 DEF SetNow, SetLater, Rendering, LoginIsKnown, MountedOnce

(* Ending a job removes its request, the others are as before. *)
LEMMA EndKeepsHeaders ==
    ASSUME job \in [Job -> Jobs], NEW k \in Job, HeaderNamesSession,
           End(k, "ended") \/ End(k, "answered") \/ End(k, "failed")
    PROVE  HeaderNamesSession'
  BY DEF End, Idle, HeaderNamesSession

(* Starting a job with a request of the right header, or with none. *)
LEMMA StartKeepsHeaders ==
    ASSUME job \in [Job -> Jobs], NEW k \in Job, NEW r \in Jobs, Start(k, r),
           HeaderNamesSession, r.credentials # NoOne => r.header = r.credentials
    PROVE  HeaderNamesSession'
  BY DEF Start, HeaderNamesSession

(* Initially nobody is logged in and nothing is sent. *)
LEMMA InitIInv == Init => IInv
<1> SUFFICES ASSUME Init PROVE IInv
  OBVIOUS
<1>1. MountedOnce /\ LoginIsKnown
  BY DEF Init, LoggedOut, Rendering, FreshState, MountedOnce, LoginIsKnown
<1>2. HeaderNamesSession
  BY DEF Init, Unused, Idle, HeaderNamesSession
<1> QED BY <1>1, <1>2, InitTypeOK DEF IInv

(* The steps of the session and of the form preserve what App knows of it. *)
LEMMA SessionIInv ==
    ASSUME IInv, SessionStep PROVE MountedOnce' /\ LoginIsKnown' /\ HeaderNamesSession'
<1>0. /\ session \in Sessions /\ state \in States /\ screen \in [of : States, bound : BOOLEAN]
      /\ mounting \in BOOLEAN /\ MountedOnce /\ LoginIsKnown /\ HeaderNamesSession
  BY DEF IInv, TypeOK
<1>1. CASE Login
  <2>1. MountedOnce' /\ LoginIsKnown'
    BY <1>1 DEF Login, LoggedOut, SetNow, Rendering, FreshState, MountedOnce, LoginIsKnown
  <2>2. HeaderNamesSession'
    BY <1>1 DEF Login, Unused, Idle, HeaderNamesSession
  <2> QED BY <2>1, <2>2
<1>2. CASE RestoreSession
  <2>1. mounting' = FALSE /\ UNCHANGED <<screen, job>> /\ ~ screen.bound
    BY <1>0, <1>2 DEF RestoreSession, SetLater, MountedOnce
  <2>2. state'.webId = session'.webId
    BY <1>0, <1>2 DEF RestoreSession, SetLater, States
  <2> QED
    BY <1>0, <2>1, <2>2 DEF MountedOnce, LoginIsKnown, HeaderNamesSession
<1>3. CASE RestoreFails
  BY <1>0, <1>3 DEF RestoreFails, SetLater, States, MountedOnce, LoginIsKnown, HeaderNamesSession
<1>4. CASE Expire
  BY <1>0, <1>4 DEF Expire, Sessions, MountedOnce, LoginIsKnown, HeaderNamesSession
<1>5. CASE Logout \/ LogoutFails
  BY <1>0, <1>5 DEF Logout, LogoutFails, MountedOnce, LoginIsKnown, HeaderNamesSession
<1>6. CASE LogoutDone
  BY <1>0, <1>6 DEF LogoutDone, MountedOnce, LoginIsKnown, HeaderNamesSession
<1>7. CASE RestoreAgain
  BY <1>0, <1>7
     DEF RestoreAgain, SetLater, States, MountedOnce, LoginIsKnown, HeaderNamesSession
<1>8. ASSUME NEW w \in Person, EditWebId(w)
      PROVE  MountedOnce' /\ LoginIsKnown' /\ HeaderNamesSession'
  <2> DEFINE s == [state EXCEPT !.input = w]
  <2>1. s \in States /\ s.webId = state.webId
    BY <1>0 DEF States
  <2>2. SetNow(s) /\ UNCHANGED <<session, mounting, job>>
    BY <1>8 DEF EditWebId
  <2> HIDE DEF s
  <2> QED BY <1>0, <2>1, <2>2, RenderingKnows DEF HeaderNamesSession
<1> QED BY <1>1, <1>2, <1>3, <1>4, <1>5, <1>6, <1>7, <1>8 DEF SessionStep

(* The steps of a job preserve it too; a publication takes the WebID and     *)
(* the fetch from the same render.                                           *)
LEMMA JobIInv ==
    ASSUME IInv, NEW j \in Job, JobBegins(j) \/ Deliver(j) \/ JobEnds(j)
    PROVE  MountedOnce' /\ LoginIsKnown' /\ HeaderNamesSession'
<1>0. /\ session \in Sessions /\ state \in States /\ screen \in [of : States, bound : BOOLEAN]
      /\ mounting \in BOOLEAN /\ job \in [Job -> Jobs]
      /\ MountedOnce /\ LoginIsKnown /\ HeaderNamesSession
  BY DEF IInv, TypeOK
<1> DEFINE cleared == [state EXCEPT !.error = NoError]
<1>a. cleared \in States /\ cleared.webId = state.webId
  BY <1>0, ErrorTypes DEF States
<1> HIDE DEF cleared
<1>1. CASE HandleFetchCatalog(j)
  <2>1. MountedOnce' /\ LoginIsKnown'
    BY <1>0, <1>a, <1>1, RenderingKnows DEF HandleFetchCatalog, cleared
  <2> DEFINE r == [Unused EXCEPT !.kind = "fetch", !.stage = "running"]
  <2>2. r \in Jobs /\ r.credentials = NoOne
    BY IdleTypes DEF Jobs, Unused, Idle
  <2>3. Start(j, r)
    BY <1>1 DEF HandleFetchCatalog
  <2> HIDE DEF r
  <2> QED BY <1>0, <2>1, <2>2, <2>3, StartKeepsHeaders
<1>2. CASE ReadCatalogFile(j)
  <2> DEFINE r == [Unused EXCEPT !.kind = "file", !.stage = "running"]
  <2>1. r \in Jobs /\ r.credentials = NoOne
    BY IdleTypes DEF Jobs, Unused, Idle
  <2>2. Start(j, r) /\ UNCHANGED <<session, mounting, state, screen>>
    BY <1>2 DEF ReadCatalogFile
  <2> HIDE DEF r
  <2> QED BY <1>0, <2>1, <2>2, StartKeepsHeaders DEF MountedOnce, LoginIsKnown
<1>3. CASE HandlePublish(j)
  <2>1. MountedOnce' /\ LoginIsKnown'
    BY <1>0, <1>a, <1>3, RenderingKnows DEF HandlePublish, cleared
  <2> DEFINE r == Request(screen.of)
  <2>2. r \in Jobs
    <3>1. /\ screen.of.catalog \in Catalog \ Malformed
          /\ Named(screen.of) \in Person
      BY <1>0, <1>3 DEF HandlePublish, CanPublish, States, Named
    <3>2. Credentials \in Person
      BY <1>0 DEF Credentials, Sessions, Person
    <3> QED BY <3>1, <3>2 DEF Request, Jobs
  <2>3. r.credentials # NoOne => r.header = r.credentials
    BY <1>0 DEF Request, Credentials, Named, LoginIsKnown
  <2>4. Start(j, r)
    BY <1>3 DEF HandlePublish
  <2> HIDE DEF r
  <2> QED BY <1>0, <2>1, <2>2, <2>3, <2>4, StartKeepsHeaders
<1>4. CASE Deliver(j)
  BY <1>0, <1>4 DEF Deliver, Jobs, MountedOnce, LoginIsKnown, HeaderNamesSession
<1>5. CASE JobEnds(j)
  <2>1. End(j, "ended") \/ End(j, "answered") \/ End(j, "failed")
    BY <1>5 DEF JobEnds, FetchSucceeds, FetchFails, FileRead, FileUnreadable,
                PublishAnswered, PublishFails
  <2>2. UNCHANGED <<session, mounting, screen>>
    BY <1>5 DEF JobEnds, FetchSucceeds, FetchFails, FileRead, FileUnreadable,
                PublishAnswered, PublishFails, SetLater
  <2>3. state'.webId = state.webId
    BY <1>0, <1>5 DEF JobEnds, FetchSucceeds, FetchFails, FileRead, FileUnreadable,
                      PublishAnswered, PublishFails, SetLater, States
  <2> QED BY <1>0, <2>1, <2>2, <2>3, EndKeepsHeaders DEF MountedOnce, LoginIsKnown
<1> QED BY <1>1, <1>2, <1>3, <1>4, <1>5 DEF JobBegins

(* The invariant is inductive. *)
LEMMA NextIInv == IInv /\ [Next]_vars => IInv'
<1> SUFFICES ASSUME IInv, [Next]_vars PROVE IInv'
  OBVIOUS
<1>0. /\ TypeOK' /\ session \in Sessions /\ state \in States
      /\ MountedOnce /\ LoginIsKnown /\ HeaderNamesSession
  BY NextTypeOK DEF IInv, TypeOK
<1> SUFFICES MountedOnce' /\ LoginIsKnown' /\ HeaderNamesSession'
  BY <1>0 DEF IInv
<1>1. CASE Render
  BY <1>0, <1>1 DEF Render, Rendering, MountedOnce, LoginIsKnown, HeaderNamesSession
<1>2. CASE PublishMalformed
  <2> DEFINE s == [state EXCEPT !.error = [about |-> "malformed", job |-> 0]]
  <2>1. s \in States /\ s.webId = state.webId
    BY <1>0, ErrorTypes DEF States
  <2>2. SetNow(s) /\ UNCHANGED <<session, mounting, job>>
    BY <1>2 DEF PublishMalformed
  <2> HIDE DEF s
  <2> QED BY <1>0, <2>1, <2>2, RenderingKnows DEF HeaderNamesSession
<1>3. CASE SessionStep
  BY <1>3, SessionIInv
<1>4. ASSUME NEW j \in Job, JobBegins(j) \/ Deliver(j) \/ JobEnds(j)
      PROVE  MountedOnce' /\ LoginIsKnown' /\ HeaderNamesSession'
  BY <1>4, JobIInv
<1>5. CASE UNCHANGED vars
  BY <1>0, <1>5 DEF vars, MountedOnce, LoginIsKnown, HeaderNamesSession
<1> QED BY <1>1, <1>2, <1>3, <1>4, <1>5 DEF Next

(* In every reachable state, a publication with the credentials of a WebID   *)
(* names that WebID in its headers.                                          *)
THEOREM PublicationsNameTheirSession == Spec => []HeaderNamesSession
<1>1. IInv => HeaderNamesSession
  BY DEF IInv
<1> QED BY <1>1, InitIInv, NextIInv, PTL DEF Spec

=============================================================================
