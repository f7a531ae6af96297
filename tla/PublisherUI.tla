---------------------------- MODULE PublisherUI ----------------------------
(***************************************************************************)
(* The publisher's page (publisher/apps/publisher-ui/src/App.tsx): the     *)
(* operator logs in, loads a catalogue, inspects it and posts it to the    *)
(* central catalogue.  Every handler is asynchronous: it runs with the     *)
(* values of the render it was clicked on, and sets React state when its   *)
(* request ends, whatever happened meanwhile.                              *)
(*                                                                         *)
(* `state` is the React state, `screen` the last render of it.  A handler  *)
(* that sets state at once is followed by a render before the next event;  *)
(* one that sets it after an await is rendered some time later (Render).   *)
(* Both renders show all of `state`: React's priorities are left out.      *)
(*                                                                         *)
(* The session of the Solid library is external.  A login navigates away,  *)
(* so an identity comes into being only while a page restores its session. *)
(* The target URL and the URL of the catalogue are data that no property   *)
(* tells apart.  The bearer override is left out: with it the operator     *)
(* sends a token of his own choice, and nothing relates it to the WebID    *)
(* that the headers name; HeaderNamesSession is about publications without *)
(* it.                                                                     *)
(***************************************************************************)
EXTENDS Integers

CONSTANTS
    WebId,      \* identities that may be typed
    Account,    \* those the operator can log in as
    NoOne,      \* the empty string in place of a WebID
    Catalog,    \* catalogues that may be loaded
    Malformed,  \* those that buildRdfPreview cannot parse
    NoCatalog,  \* the initial `catalog`, null
    MaxJobs     \* bound: loads and publications started on one page

ASSUME WebIdAssumption == Account \subseteq WebId /\ NoOne \notin WebId
ASSUME CatalogAssumption == Malformed \subseteq Catalog /\ NoCatalog \notin Catalog
ASSUME MaxJobsAssumption == MaxJobs \in Nat

VARIABLES
    session,   \* session.info of the library
    mounting,  \* whether the restoreSession of the effect is pending
    logout,    \* where the handler of the logout button is
    state,     \* the React state of App
    screen,    \* the last render: what is shown, and which fetch is bound
    job        \* the loads and publications started on this page

vars == <<session, mounting, logout, state, screen, job>>

Job == 1..MaxJobs
Person == WebId \cup {NoOne}

NoError == [about |-> "nothing", job |-> 0]
Failure(j) == [about |-> "request", job |-> j]
Errors == [about : {"nothing", "session", "malformed"}, job : {0}]
            \cup [about : {"request"}, job : Job]

\* A job that has not started or is over; `delivered` outlives a failure.
Idle(stage, delivered) ==
    [kind |-> "none", stage |-> stage, catalog |-> NoCatalog,
     header |-> NoOne, credentials |-> NoOne, delivered |-> delivered]

Unused == Idle("unused", FALSE)

\* Mutant of Named: what was typed goes first.
NamedAsTyped(s) == IF s.input # NoOne THEN s.input ELSE s.webId

\* webId: sessionState?.webId || webIdInput, in the preview and in the POST.
Named(s) == IF s.webId # NoOne THEN s.webId ELSE s.input

\* One render of App: authFetch is chosen by the library's state at this time.
Rendering(s, loggedIn) == [of |-> s, bound |-> s.restored /\ loggedIn]

\* A handler of an event sets state: it is rendered before the next event.
SetNow(s) == state' = s /\ screen' = Rendering(s, session'.loggedIn)

\* Code after an await sets state: Render follows.
SetLater(s) == state' = s /\ UNCHANGED screen

Render ==
    /\ screen.of # state
    /\ screen' = Rendering(state, session.loggedIn)
    /\ UNCHANGED <<session, mounting, logout, state, job>>

-----------------------------------------------------------------------------
(* The session. *)

LoggedOut == [loggedIn |-> FALSE, webId |-> NoOne]

FreshState ==
    [restored |-> FALSE, webId |-> NoOne, input |-> NoOne,
     catalog |-> NoCatalog, error |-> NoError, result |-> 0]

\* The login button leaves the page for the identity provider; the page is
\* loaded again when the operator comes back, or reloads it.
Login ==
    /\ session' = LoggedOut
    /\ mounting' = TRUE
    /\ logout' = "idle"
    /\ SetNow(FreshState)
    /\ job' = [j \in Job |-> Unused]

\* The library restores a login, with or without a WebID, or finds none.
\* A restoration under way survives a logout.
RestoreSession ==
    /\ mounting
    /\ session' \in {session} \cup [loggedIn : {TRUE}, webId : Account \cup {NoOne}]
    /\ mounting' = FALSE
    /\ SetLater([state EXCEPT !.restored = TRUE, !.webId = session'.webId,
                              !.input = IF session'.webId # NoOne THEN session'.webId ELSE @])
    /\ UNCHANGED <<logout, job>>

RestoreFails ==
    /\ mounting
    /\ mounting' = FALSE
    /\ SetLater([state EXCEPT !.error = [about |-> "session", job |-> 0]])
    /\ UNCHANGED <<session, logout, job>>

\* The library ends a session that has expired; no state of App is set.
Expire ==
    /\ session.loggedIn
    /\ session' = [session EXCEPT !.loggedIn = FALSE]
    /\ UNCHANGED <<mounting, logout, state, screen, job>>

Logout ==
    /\ logout = "idle"
    /\ logout' = "leaving"
    /\ UNCHANGED <<session, mounting, state, screen, job>>

\* logoutSession resolves; whether info keeps the WebID is the library's.
LogoutDone ==
    /\ logout = "leaving"
    /\ session' \in [loggedIn : {FALSE}, webId : {session.webId, NoOne}]
    /\ logout' = "restoring"
    /\ UNCHANGED <<mounting, state, screen, job>>

\* The session after a logout is read back; the typed WebID stays.
RestoreAgain ==
    /\ logout = "restoring"
    /\ logout' = "idle"
    /\ SetLater([state EXCEPT !.restored = TRUE, !.webId = session.webId])
    /\ UNCHANGED <<session, mounting, job>>

\* The handler of the button has no catch.
LogoutFails ==
    /\ logout # "idle"
    /\ logout' = "idle"
    /\ UNCHANGED <<session, mounting, state, screen, job>>

EditWebId(w) ==
    /\ w # state.input
    /\ UNCHANGED <<session, mounting, logout, job>>
    /\ SetNow([state EXCEPT !.input = w])

-----------------------------------------------------------------------------
(* Loading a catalogue. *)

Start(j, started) ==
    /\ job[j] = Unused
    /\ \A i \in 1..(j - 1) : job[i] # Unused
    /\ job' = [job EXCEPT ![j] = started]

Running(j, kind) == job[j].stage = "running" /\ job[j].kind = kind

End(j, stage) == job' = [job EXCEPT ![j] = Idle(stage, @.delivered)]

HandleFetchCatalog(j) ==
    /\ Start(j, [Unused EXCEPT !.kind = "fetch", !.stage = "running"])
    /\ UNCHANGED <<session, mounting, logout>>
    /\ SetNow([state EXCEPT !.error = NoError])

\* The answers of two loads may come in either order; the last one stays.
FetchSucceeds(j, c) ==
    /\ Running(j, "fetch")
    /\ End(j, "ended")
    /\ SetLater([state EXCEPT !.catalog = c])
    /\ UNCHANGED <<session, mounting, logout>>

\* Mutant of FetchFails: the handler has no catch.
FetchFailsUncaught(j) ==
    /\ Running(j, "fetch")
    /\ End(j, "failed")
    /\ UNCHANGED <<session, mounting, logout, state, screen>>

\* The network fails, or the pod answers with an error.
FetchFails(j) ==
    /\ Running(j, "fetch")
    /\ End(j, "failed")
    /\ SetLater([state EXCEPT !.error = Failure(j)])
    /\ UNCHANGED <<session, mounting, logout>>

\* onFile: an earlier error stays on the screen.
ReadCatalogFile(j) ==
    /\ Start(j, [Unused EXCEPT !.kind = "file", !.stage = "running"])
    /\ UNCHANGED <<session, mounting, logout, state, screen>>

FileRead(j, c) ==
    /\ Running(j, "file")
    /\ End(j, "ended")
    /\ SetLater([state EXCEPT !.catalog = c])
    /\ UNCHANGED <<session, mounting, logout>>

\* onFile has no catch: an unreadable file changes nothing.
FileUnreadable(j) ==
    /\ Running(j, "file")
    /\ End(j, "failed")
    /\ UNCHANGED <<session, mounting, logout, state, screen>>

-----------------------------------------------------------------------------
(* Publishing. *)

\* session.fetch adds credentials only while the session is logged in.
Credentials == IF screen.bound /\ session.loggedIn THEN session.webId ELSE NoOne

\* The request of handlePublish, with the values of one render.
Request(s) ==
    [kind |-> "publish", stage |-> "running", catalog |-> s.catalog,
     header |-> Named(s), credentials |-> Credentials, delivered |-> FALSE]

\* The button is enabled, and the catalogue parses.
CanPublish(s) == s.catalog \notin {NoCatalog} \cup Malformed

\* Mutant of HandlePublish: only the button's condition is tested.
HandlePublishUnparsed(j) ==
    /\ screen.of.catalog # NoCatalog
    /\ Start(j, Request(screen.of))
    /\ UNCHANGED <<session, mounting, logout>>
    /\ SetNow([state EXCEPT !.error = NoError])

HandlePublish(j) ==
    /\ CanPublish(screen.of)
    /\ Start(j, Request(screen.of))
    /\ UNCHANGED <<session, mounting, logout>>
    /\ SetNow([state EXCEPT !.error = NoError])

\* The second early return of handlePublish.
PublishMalformed ==
    /\ screen.of.catalog \in Malformed
    /\ UNCHANGED <<session, mounting, logout, job>>
    /\ SetNow([state EXCEPT !.error = [about |-> "malformed", job |-> 0]])

\* The central catalogue receives the request and decides it.
Deliver(j) ==
    /\ Running(j, "publish")
    /\ ~ job[j].delivered
    /\ job' = [job EXCEPT ![j].delivered = TRUE]
    /\ UNCHANGED <<session, mounting, logout, state, screen>>

\* The whole answer came in, whatever its status: an earlier error stays gone.
PublishAnswered(j) ==
    /\ Running(j, "publish")
    /\ job[j].delivered
    /\ End(j, "answered")
    /\ SetLater([state EXCEPT !.result = j])
    /\ UNCHANGED <<session, mounting, logout>>

\* fetch rejects, or response.text() does when the connection breaks after
\* the head of the answer: the same catch, with an earlier result left shown.
PublishFails(j) ==
    /\ Running(j, "publish")
    /\ End(j, "failed")
    /\ SetLater([state EXCEPT !.error = Failure(j)])
    /\ UNCHANGED <<session, mounting, logout>>

-----------------------------------------------------------------------------
Init ==
    /\ session = LoggedOut
    /\ mounting = TRUE
    /\ logout = "idle"
    /\ state = FreshState
    /\ screen = Rendering(FreshState, FALSE)
    /\ job = [j \in Job |-> Unused]

SessionStep ==
    \/ Login \/ RestoreSession \/ RestoreFails \/ Expire
    \/ Logout \/ LogoutDone \/ RestoreAgain \/ LogoutFails
    \/ \E w \in Person : EditWebId(w)

JobBegins(j) == HandleFetchCatalog(j) \/ ReadCatalogFile(j) \/ HandlePublish(j)

JobEnds(j) ==
    \/ \E c \in Catalog : FetchSucceeds(j, c) \/ FileRead(j, c)
    \/ FetchFails(j) \/ FileUnreadable(j)
    \/ PublishAnswered(j) \/ PublishFails(j)

Next ==
    \/ Render \/ PublishMalformed \/ SessionStep
    \/ \E j \in Job : JobBegins(j) \/ Deliver(j) \/ JobEnds(j)

Spec == Init /\ [][Next]_vars

\* The browser ends every request some day, and renders.
Fairness == WF_vars(Render) /\ \A j \in Job : WF_vars(JobEnds(j))

FairSpec == Spec /\ Fairness

-----------------------------------------------------------------------------
(* Properties. *)

Sessions == [loggedIn : BOOLEAN, webId : Person]

States ==
    [restored : BOOLEAN, webId : Person, input : Person,
     catalog : Catalog \cup {NoCatalog}, error : Errors, result : {0} \cup Job]

Jobs ==
    [kind : {"none", "fetch", "file", "publish"},
     stage : {"unused", "running", "ended", "answered", "failed"},
     catalog : (Catalog \ Malformed) \cup {NoCatalog},
     header : Person, credentials : Person, delivered : BOOLEAN]

\* Every variable keeps to its values; in particular the body of a
\* publication is a catalogue that parses (App.tsx:63-67), although another
\* one may have been loaded since the preview.
TypeOK ==
    /\ session \in Sessions
    /\ mounting \in BOOLEAN
    /\ logout \in {"idle", "leaving", "restoring"}
    /\ state \in States
    /\ screen \in [of : States, bound : BOOLEAN]
    /\ job \in [Job -> Jobs]

\* A publication that carries the credentials of a WebID names that WebID in
\* its headers (App.tsx:74 and centralCatalogClient.ts:20-23), through every
\* overlap of a restored session, a logout, an expiry and typing.
HeaderNamesSession ==
    \A j \in Job :
        job[j].credentials # NoOne => job[j].header = job[j].credentials

Started(j) == Running(j, "fetch") \/ Running(j, "publish")

\* The page shows what came of j: a catalogue that was loaded, the answer to
\* the publication, or its error.
Told(j) ==
    \/ job[j].stage = "ended" /\ state.catalog # NoCatalog
    \/ job[j].stage = "answered" /\ state.result = j
    \/ job[j].stage = "failed" /\ state.error = Failure(j)

\* A load from a URL and a publication end with their result or with an error
\* that is theirs on the page, unless the page is left first (App.tsx:52-84).
\* It is not said of the file button and of the logout button, whose handlers
\* have no catch.
NothingFailsSilently ==
    \A j \in Job : Started(j) ~> (Told(j) \/ job[j] = Unused)

=============================================================================
