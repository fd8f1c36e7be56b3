------------------------------ MODULE Session ------------------------------
(***************************************************************************)
(* The shopper's session in the browser: the entry `session' of            *)
(* localStorage, which every tab of the shop shares, and what each tab has *)
(* copied out of it.  The head script (global-attributes.js) creates the   *)
(* session, the bundles capture its user id when they are evaluated, and a *)
(* click on the logo of the home page replaces the user: it waits for the  *)
(* flag rumBlueGreen, toggles the payment path, writes a new session and   *)
(* reloads the page half a second later.                                   *)
(*                                                                         *)
(* A callback of a tab runs to its end before another callback of the tab; *)
(* callbacks of two tabs are taken to be atomic towards each other too.    *)
(***************************************************************************)
EXTENDS Integers, FiniteSets

CONSTANTS
    Tabs,        \* tabs of one browser
    MaxUsers,    \* bound: user ids that are generated
    MaxClicks,   \* bound: resets of one document that are pending
    MaxInits     \* bound: initialisations of one document that are pending

ASSUME SessionAssumption ==
    /\ IsFiniteSet(Tabs)
    /\ MaxUsers \in Nat
    /\ MaxClicks \in Nat
    /\ MaxInits \in Nat \ {0}

Paths == {"payment-a", "payment-b"}

VARIABLES
    session,     \* localStorage: the user (0: no session), paymentPath, unexpired timestamp
    users,       \* user ids generated so far
    stage,       \* of a tab: "closed", "head" (the head's scripts ran), "ready"
    apiUser,     \* userId captured by Api.gateway.ts (0: not evaluated)
    cartUser,    \* userId captured by CartDetail.tsx (0: not evaluated)
    rum,         \* the RUM agent's attributes (user 0: the agent did not load)
    inits,       \* initPaymentPath calls waiting for their timer or for the flag
    toggles,     \* handleLogoClick calls waiting for the flag
    reloads,     \* pending setTimeout(reload, 500)
    alone,       \* history: no other tab was open since the document was loaded
    flips        \* history: toggles since the session got its first path, modulo 2

stored == <<session, users, flips>>
captured == <<apiUser, cartUser>>
pending == <<inits, toggles, reloads>>
sessionVars == <<stored, stage, captured, alone, rum, pending>>

-----------------------------------------------------------------------------
(* Operators on the session and the attributes.                            *)

NoSession == [user |-> 0, path |-> "none", live |-> FALSE]
NoRum == [user |-> 0, type |-> "env"]

NewSession(user, path) == [user |-> user, path |-> path, live |-> TRUE]

\* deploymentType: the stored path, or DEPLOYMENT_TYPE or "green".
DeploymentType(s) == IF s.path = "none" THEN "env" ELSE s.path

\* togglePaymentPath: a missing path counts as payment-a.
togglePaymentPath(path) == IF path = "payment-b" THEN "payment-a" ELSE "payment-b"

\* The default written over whatever is stored.  (Mutant of InitialPath.)
InitialPath_Overwrites(path) == "payment-a"

\* initPaymentPath keeps a stored path and otherwise stores the default.
InitialPath(path) == IF path = "none" THEN "payment-a" ELSE path

\* The path changes and the agent is not told.  (Mutant of SetAttributes.)
SetAttributes_Never(t, user, type) == UNCHANGED rum

\* getSplunkGlobalAttributes and setGlobalAttributes: only where the agent is loaded.
SetAttributes(t, user, type) ==
    rum' = [rum EXCEPT ![t] = IF @ = NoRum THEN @ ELSE [user |-> user, type |-> type]]

-----------------------------------------------------------------------------
SessionInit ==
    /\ session = NoSession
    /\ users = 0
    /\ stage = [t \in Tabs |-> "closed"]
    /\ apiUser = [t \in Tabs |-> 0]
    /\ cartUser = [t \in Tabs |-> 0]
    /\ rum = [t \in Tabs |-> NoRum]
    /\ inits = [t \in Tabs |-> 0]
    /\ toggles = [t \in Tabs |-> 0]
    /\ reloads = [t \in Tabs |-> 0]
    /\ alone = [t \in Tabs |-> FALSE]
    /\ flips = 0

\* The document of tab t goes away: the values its modules captured, its
\* requests and its reload timers go with it.
Unload(t) ==
    /\ apiUser' = [apiUser EXCEPT ![t] = 0]
    /\ cartUser' = [cartUser EXCEPT ![t] = 0]
    /\ toggles' = [toggles EXCEPT ![t] = 0]
    /\ reloads' = [reloads EXCEPT ![t] = 0]

Close(t) ==
    /\ stage[t] # "closed"
    /\ stage' = [stage EXCEPT ![t] = "closed"]
    /\ rum' = [rum EXCEPT ![t] = NoRum]
    /\ inits' = [inits EXCEPT ![t] = 0]
    /\ alone' = [alone EXCEPT ![t] = FALSE]
    /\ Unload(t)
    /\ UNCHANGED stored

\* getSessionId: a session that is missing or has no live timestamp is
\* replaced, and its payment path with it.
getSessionId ==
    IF session.live
    THEN UNCHANGED stored
    ELSE /\ users < MaxUsers
         /\ users' = users + 1
         /\ session' = NewSession(users + 1, "none")
         /\ flips' = 0

\* A new document, opened or reloaded, and the scripts of its head, which end in
\* getSplunkGlobalAttributes.  Where the agent's script could not be fetched,
\* SplunkRum.init throws before its argument is evaluated.
LoadHead(t, agent) ==
    /\ stage' = [stage EXCEPT ![t] = "head"]
    /\ Unload(t)
    /\ alone' = IF \A u \in Tabs \ {t} : stage[u] = "closed"
                THEN [alone EXCEPT ![t] = TRUE]
                ELSE [u \in Tabs |-> FALSE]
    /\ IF agent
       THEN /\ getSessionId
            /\ rum' = [rum EXCEPT ![t] = [user |-> session'.user,
                                          type |-> DeploymentType(session')]]
            /\ inits' = [inits EXCEPT ![t] = 1]
       ELSE /\ rum' = [rum EXCEPT ![t] = NoRum]
            /\ inits' = [inits EXCEPT ![t] = 0]
            /\ UNCHANGED stored

\* The bundles: getSession stores a default session, without a timestamp,
\* where there is none, and the modules of the page capture its user, that of
\* the cart page too if the document was opened there.
LoadBundles(t, onCart) ==
    /\ stage[t] = "head"
    /\ stage' = [stage EXCEPT ![t] = "ready"]
    /\ IF session # NoSession
       THEN UNCHANGED stored
       ELSE /\ users < MaxUsers
            /\ users' = users + 1
            /\ session' = [NewSession(users + 1, "none") EXCEPT !.live = FALSE]
            /\ UNCHANGED flips
    /\ apiUser' = [apiUser EXCEPT ![t] = session'.user]
    /\ cartUser' = [cartUser EXCEPT ![t] = IF onCart THEN session'.user ELSE 0]
    /\ UNCHANGED <<alone, rum, pending>>

\* The cart page's bundle is evaluated, when the router has prefetched it or
\* when the shopper goes to the cart.  Going to a page inside the document
\* evaluates nothing else and keeps everything, so that pages are no state.
EvaluateCart(t) ==
    /\ stage[t] = "ready"
    /\ cartUser[t] = 0
    /\ cartUser' = [cartUser EXCEPT ![t] = session.user]
    /\ UNCHANGED <<stored, stage, apiUser, alone, rum, pending>>

-----------------------------------------------------------------------------
(* The callbacks that wait for the flag.  The operator switches            *)
(* rumBlueGreen at any time, and getFlagValue answers FALSE when its       *)
(* request fails, so that either answer may arrive at any time.            *)

\* initPaymentPath after its await: storePaymentPath writes into the session
\* there is then.
initPaymentPath(t, rumBlueGreen) ==
    /\ inits[t] > 0
    /\ inits' = [inits EXCEPT ![t] = @ - 1]
    /\ IF rumBlueGreen
       THEN /\ session' = [session EXCEPT !.path = InitialPath(@)]
            /\ SetAttributes(t, rum[t].user, InitialPath(session.path))
       ELSE UNCHANGED <<session, rum>>
    /\ UNCHANGED <<users, flips, stage, captured, alone, toggles, reloads>>

\* handleLogoClick up to its await, on the home page, where the shopper can
\* always go; nothing stops a second click while the first one waits.
LogoClick(t) ==
    /\ stage[t] = "ready"
    /\ toggles[t] + reloads[t] < MaxClicks
    /\ toggles' = [toggles EXCEPT ![t] = @ + 1]
    /\ UNCHANGED <<stored, stage, captured, alone, rum, inits, reloads>>

\* The session is removed, getSessionId makes a new one and the path is restored.
ResetSession(path) == NewSession(users + 1, path)

\* A reset that leaves the document as it is.  (Mutant of ReloadAfterReset.)
ReloadAfterReset_Never(t) == UNCHANGED reloads

\* setTimeout(() => window.location.href = '/', 500)
ReloadAfterReset(t) == reloads' = [reloads EXCEPT ![t] = @ + 1]

\* handleLogoClick after its await, toggleAndStorePaymentPath included.  The
\* attributes are computed from the new session before the path is restored.
ResetUser(t, rumBlueGreen) ==
    /\ toggles[t] > 0
    /\ users < MaxUsers
    /\ inits[t] < MaxInits
    /\ toggles' = [toggles EXCEPT ![t] = @ - 1]
    /\ users' = users + 1
    /\ session' = ResetSession(IF rumBlueGreen THEN togglePaymentPath(session.path)
                                               ELSE session.path)
    /\ flips' = IF rumBlueGreen THEN 1 - flips ELSE flips
    /\ SetAttributes(t, users + 1, DeploymentType(NoSession))
    /\ inits' = [inits EXCEPT ![t] = @ + 1]
    /\ ReloadAfterReset(t)
    /\ UNCHANGED <<stage, captured, alone>>

Reload(t) == reloads[t] > 0 /\ \E agent \in BOOLEAN : LoadHead(t, agent)

-----------------------------------------------------------------------------
\* Thirty minutes pass since the session was created.
Expire ==
    /\ session.live
    /\ session' = [session EXCEPT !.live = FALSE]
    /\ UNCHANGED <<users, flips, stage, captured, alone, rum, pending>>

SessionNext ==
    \/ \E t \in Tabs :
          \/ Close(t) \/ EvaluateCart(t) \/ LogoClick(t) \/ Reload(t)
          \/ \E agent \in BOOLEAN : LoadHead(t, agent)
          \/ \E onCart \in BOOLEAN : LoadBundles(t, onCart)
          \/ \E rumBlueGreen \in BOOLEAN :
                initPaymentPath(t, rumBlueGreen) \/ ResetUser(t, rumBlueGreen)
    \/ Expire

\* A browser's timers fire.
SessionSpec == SessionInit /\ [][SessionNext]_sessionVars /\ \A t \in Tabs : WF_sessionVars(Reload(t))

-----------------------------------------------------------------------------
(* Properties.                                                             *)

\* Api.gateway.ts and CartDetail.tsx capture the user at different times.  As
\* long as no other tab of the shop is open, the user an order is placed for
\* is the one whose cart the page shows, except between a reset and the
\* reload that follows it.
OrderIsForShownCart ==
    \A t \in Tabs :
        stage[t] = "ready" /\ cartUser[t] # apiUser[t] /\ cartUser[t] # 0
            => ~alone[t] \/ reloads[t] > 0

\* The path is read after the flag arrived, not before: whatever the order in
\* which the answers of toggles and initialisations arrive, in all tabs, each
\* reset with the flag on changes the path exactly once and nothing else
\* changes it ("First reset: switches to 'payment-b', second reset: back to
\* 'payment-a'").
EveryResetTogglesOnce == (session.path = "payment-b") = (flips = 1)

\* A tab alone reports the user and the path that its orders carry, except
\* between a reset, which sets the attributes before the path is restored,
\* and the reload that follows it.
RumTellsTheSession ==
    \A t \in Tabs :
        stage[t] = "ready" /\ alone[t] /\ reloads[t] = 0 /\ rum[t] # NoRum
            => rum[t] = [user |-> session.user, type |-> DeploymentType(session)]

\* The cart shown by a tab that is alone does not stay that of a former user.
OldCartGoesAway ==
    \A t \in Tabs :
        (alone[t] /\ stage[t] = "ready" /\ apiUser[t] # session.user)
            ~> ~(alone[t] /\ stage[t] = "ready" /\ apiUser[t] # session.user)
=============================================================================
