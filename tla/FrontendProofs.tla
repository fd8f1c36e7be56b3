--------------------------- MODULE FrontendProofs ---------------------------
(* What the shop's pages guarantee: the session in the browser, for every    *)
(* number of tabs, users, clicks and initialisations (module Session), and   *)
(* what the pages show of the cart, for every set of products and every      *)
(* number of mutations under way (module CartView).                          *)
EXTENDS Session, CartView, TLAPS

SessionTypeOK ==
    /\ session \in [user : 0..MaxUsers, path : {"none"} \cup Paths, live : BOOLEAN]
    /\ users \in 0..MaxUsers
    /\ stage \in [Tabs -> {"closed", "head", "ready"}]
    /\ apiUser \in [Tabs -> 0..MaxUsers]
    /\ cartUser \in [Tabs -> 0..MaxUsers]
    /\ rum \in [Tabs -> [user : 0..MaxUsers, type : {"env"} \cup Paths]]
    /\ inits \in [Tabs -> 0..MaxInits]
    /\ toggles \in [Tabs -> 0..MaxClicks]
    /\ reloads \in [Tabs -> 0..MaxClicks]
    /\ \A t \in Tabs : toggles[t] + reloads[t] <= MaxClicks
    /\ alone \in [Tabs -> BOOLEAN]
    /\ flips \in {0, 1}

\* A closed tab has nothing pending, and a tab that is alone has no open one
\* beside it.
ClosedIsQuiet ==
    \A t \in Tabs :
        /\ stage[t] = "closed" => /\ inits[t] = 0 /\ toggles[t] = 0 /\ reloads[t] = 0
                                  /\ ~alone[t]
        /\ stage[t] = "head" => toggles[t] = 0 /\ reloads[t] = 0
        /\ alone[t] => \A u \in Tabs \ {t} : stage[u] = "closed"

\* An agent that is loaded, and an initialisation, come behind a session, and
\* sessions are only replaced.
SessionStays ==
    /\ session.user = 0 => session = NoSession
    /\ \A t \in Tabs : rum[t] # NoRum \/ inits[t] > 0 => session.user # 0

\* As long as it is alone and has not reset the user, a tab's copies are those
\* of the session.
CopiesAreFresh ==
    \A t \in Tabs : alone[t] /\ reloads[t] = 0 =>
        /\ stage[t] = "ready" => /\ apiUser[t] = session.user
                                 /\ cartUser[t] \in {0, session.user}
        /\ stage[t] # "closed" /\ rum[t] # NoRum =>
              rum[t] = [user |-> session.user, type |-> DeploymentType(session)]

SessionInv ==
    /\ SessionTypeOK /\ ClosedIsQuiet /\ SessionStays /\ CopiesAreFresh
    /\ EveryResetTogglesOnce

-----------------------------------------------------------------------------
\* A head that has run: a new document, with a session if the agent loaded.
LEMMA LoadHeadKeepsSession ==
    ASSUME SessionInv, NEW t \in Tabs, NEW agent \in BOOLEAN, LoadHead(t, agent)
    PROVE  SessionInv'
<1> USE SessionAssumption DEF SessionInv, SessionTypeOK, Paths, LoadHead, Unload, NoRum,
        NoSession, NewSession, getSessionId, stored
<1>0. \/ UNCHANGED <<session, users, flips>> /\ (agent => session.live)
      \/ /\ users < MaxUsers /\ users' = users + 1 /\ flips' = 0
         /\ session' = [user |-> users + 1, path |-> "none", live |-> TRUE]
  OBVIOUS
<1>1. /\ session' \in [user : 0..MaxUsers, path : {"none"} \cup Paths, live : BOOLEAN]
      /\ users' \in 0..MaxUsers /\ flips' \in {0, 1}
  <2>1. CASE UNCHANGED <<session, users, flips>> BY <2>1
  <2>2. CASE /\ users < MaxUsers /\ users' = users + 1 /\ flips' = 0
             /\ session' = [user |-> users + 1, path |-> "none", live |-> TRUE]
    <3>1. users + 1 \in 0..MaxUsers BY <2>2
    <3> QED BY <2>2, <3>1
  <2> QED BY <1>0, <2>1, <2>2
<1>2. rum' \in [Tabs -> [user : 0..MaxUsers, type : {"env"} \cup Paths]]
  BY <1>1 DEF DeploymentType
<1>3. SessionTypeOK'
  <2>1. alone' \in [Tabs -> BOOLEAN] OBVIOUS
  <2>2. /\ inits' \in [Tabs -> 0..MaxInits] /\ toggles' \in [Tabs -> 0..MaxClicks]
        /\ reloads' \in [Tabs -> 0..MaxClicks]
        /\ \A u \in Tabs : toggles'[u] + reloads'[u] <= MaxClicks
    OBVIOUS
  <2>3. /\ stage' \in [Tabs -> {"closed", "head", "ready"}]
        /\ apiUser' \in [Tabs -> 0..MaxUsers] /\ cartUser' \in [Tabs -> 0..MaxUsers]
    OBVIOUS
  <2> QED BY <1>1, <1>2, <2>1, <2>2, <2>3
<1>4. ClosedIsQuiet' BY DEF ClosedIsQuiet
<1>5. /\ agent => session'.user # 0
      /\ session'.user = 0 => session' = NoSession
      /\ session.user # 0 => session'.user # 0
  BY <1>0 DEF SessionStays
<1>6. SessionStays' BY <1>5 DEF SessionStays
<1>7. CopiesAreFresh'
  <2> SUFFICES ASSUME NEW u \in Tabs, alone'[u], stage'[u] # "closed"
               PROVE  /\ stage'[u] # "ready"
                      /\ rum'[u] # NoRum =>
                            rum'[u] = [user |-> session'.user, type |-> DeploymentType(session')]
    BY DEF CopiesAreFresh
  <2>1. u = t BY DEF ClosedIsQuiet
  <2> QED BY <2>1
<1>8. EveryResetTogglesOnce' BY DEF EveryResetTogglesOnce
<1> QED BY <1>3, <1>4, <1>6, <1>7, <1>8

\* The bundles capture the user of the session there is, or of a new one if
\* no agent has made one.
LEMMA LoadBundlesKeepsSession ==
    ASSUME SessionInv, NEW t \in Tabs, NEW onCart \in BOOLEAN, LoadBundles(t, onCart)
    PROVE  SessionInv'
<1> USE SessionAssumption DEF SessionInv, SessionTypeOK, Paths, LoadBundles, NoRum,
        NoSession, NewSession, stored, pending
<1>0. \/ session # NoSession /\ UNCHANGED <<session, users, flips>>
      \/ /\ session = NoSession /\ users < MaxUsers /\ users' = users + 1 /\ flips' = flips
         /\ session' = [user |-> users + 1, path |-> "none", live |-> FALSE]
  OBVIOUS
<1>1. /\ session' \in [user : 0..MaxUsers, path : {"none"} \cup Paths, live : BOOLEAN]
      /\ users' \in 0..MaxUsers /\ flips' = flips
      /\ session = NoSession \/ session' = session
      /\ session'.user # 0
  <2>1. CASE session # NoSession /\ UNCHANGED <<session, users, flips>>
    BY <2>1 DEF SessionStays
  <2>2. CASE /\ session = NoSession /\ users < MaxUsers /\ users' = users + 1 /\ flips' = flips
             /\ session' = [user |-> users + 1, path |-> "none", live |-> FALSE]
    <3>1. users + 1 \in 0..MaxUsers /\ users + 1 # 0 BY <2>2
    <3> QED BY <2>2, <3>1
  <2> QED BY <1>0, <2>1, <2>2
<1>2. SessionTypeOK' BY <1>1
<1>3. ClosedIsQuiet' BY DEF ClosedIsQuiet
<1>4. SessionStays' BY <1>1 DEF SessionStays
<1>5. CopiesAreFresh'
  <2> SUFFICES ASSUME NEW u \in Tabs, alone'[u], reloads'[u] = 0
               PROVE  /\ stage'[u] = "ready" => /\ apiUser'[u] = session'.user
                                                /\ cartUser'[u] \in {0, session'.user}
                      /\ stage'[u] # "closed" /\ rum'[u] # NoRum =>
                            rum'[u] = [user |-> session'.user, type |-> DeploymentType(session')]
    BY DEF CopiesAreFresh
  <2>1. CASE u = t
    <3>1. rum[u] # NoRum => session' = session BY <1>1 DEF SessionStays
    <3> QED BY <2>1, <3>1 DEF CopiesAreFresh
  <2>2. CASE u # t
    <3>1. stage[u] = "ready" \/ stage[u] = "head" => ~alone[u] BY <2>2 DEF ClosedIsQuiet
    <3> QED BY <2>2, <3>1
  <2> QED BY <2>1, <2>2
<1>6. EveryResetTogglesOnce' BY <1>1 DEF EveryResetTogglesOnce
<1> QED BY <1>2, <1>3, <1>4, <1>5, <1>6

\* An initialisation gives a session without a path the first one and tells
\* the agent, whatever else has happened since it was started.
LEMMA InitPathKeepsSession ==
    ASSUME SessionInv, NEW t \in Tabs, NEW rumBlueGreen \in BOOLEAN,
           initPaymentPath(t, rumBlueGreen)
    PROVE  SessionInv'
<1> USE SessionAssumption DEF SessionInv, SessionTypeOK, Paths, initPaymentPath, NoRum,
        NoSession, captured, SetAttributes, InitialPath
<1>1. SessionTypeOK'
  <2>1. session' \in [user : 0..MaxUsers, path : {"none"} \cup Paths, live : BOOLEAN] OBVIOUS
  <2>2. rum' \in [Tabs -> [user : 0..MaxUsers, type : {"env"} \cup Paths]] OBVIOUS
  <2>3. inits' \in [Tabs -> 0..MaxInits] OBVIOUS
  <2> QED BY <2>1, <2>2, <2>3
<1>2. ClosedIsQuiet' BY DEF ClosedIsQuiet
<1>3. stage[t] # "closed" BY DEF ClosedIsQuiet
<1>4. session'.user = session.user OBVIOUS
<1>5. \A u \in Tabs : rum[u] = NoRum => rum'[u] = NoRum OBVIOUS
<1>6. SessionStays'
  <2>1. session.user # 0 BY DEF SessionStays
  <2> QED BY <1>4, <2>1 DEF SessionStays
<1>7. CopiesAreFresh'
  <2> SUFFICES ASSUME NEW u \in Tabs, alone[u], reloads[u] = 0, stage[u] # "closed"
               PROVE  /\ stage[u] = "ready" => /\ apiUser[u] = session'.user
                                               /\ cartUser[u] \in {0, session'.user}
                      /\ rum'[u] # NoRum =>
                            rum'[u] = [user |-> session'.user, type |-> DeploymentType(session')]
    BY DEF CopiesAreFresh
  <2>1. u = t BY <1>3 DEF ClosedIsQuiet
  <2>2. rum'[u] # NoRum => rum[u] # NoRum BY <1>5
  <2> QED BY <1>4, <2>1, <2>2 DEF CopiesAreFresh, DeploymentType
<1>8. EveryResetTogglesOnce' BY DEF EveryResetTogglesOnce
<1> QED BY <1>1, <1>2, <1>6, <1>7, <1>8

\* A reset replaces the user under the tab that did it, which is to reload;
\* a tab that is alone is never reset by another one.
LEMMA ResetKeepsSession ==
    ASSUME SessionInv, NEW t \in Tabs, NEW rumBlueGreen \in BOOLEAN, ResetUser(t, rumBlueGreen)
    PROVE  SessionInv'
<1> USE SessionAssumption DEF SessionInv, SessionTypeOK, Paths, ResetUser, NoRum, NoSession,
        NewSession, ResetSession, ReloadAfterReset, captured, SetAttributes, togglePaymentPath,
        DeploymentType
<1>1. /\ session' \in [user : 0..MaxUsers, path : {"none"} \cup Paths, live : BOOLEAN]
      /\ users' \in 0..MaxUsers /\ flips' \in {0, 1} /\ session'.user # 0
  OBVIOUS
<1>2. toggles[t] + reloads[t] <= MaxClicks /\ toggles[t] > 0 OBVIOUS
<1>3. SessionTypeOK' BY <1>1, <1>2
<1>4. stage[t] = "ready" BY DEF ClosedIsQuiet
<1>5. ClosedIsQuiet' BY <1>4 DEF ClosedIsQuiet
<1>6. SessionStays' BY <1>1 DEF SessionStays
<1>7. CopiesAreFresh'
  <2> SUFFICES ASSUME NEW u \in Tabs, alone[u], reloads'[u] = 0, stage[u] # "closed" PROVE FALSE
    BY DEF CopiesAreFresh
  <2>1. u # t BY <1>2
  <2> QED BY <1>4, <2>1 DEF ClosedIsQuiet
<1>8. EveryResetTogglesOnce' BY DEF EveryResetTogglesOnce
<1> QED BY <1>3, <1>5, <1>6, <1>7, <1>8

\* The steps that leave the session's user and path alone.
LEMMA QuietKeepsSession ==
    ASSUME SessionInv,
           (\E t \in Tabs : Close(t) \/ EvaluateCart(t) \/ LogoClick(t))
              \/ Expire \/ UNCHANGED sessionVars
    PROVE  SessionInv'
<1> USE SessionAssumption DEF SessionInv, SessionTypeOK, stored, captured, pending
<1>1. ASSUME NEW t \in Tabs, Close(t) PROVE SessionInv'
  <2> USE <1>1 DEF Close, Unload, NoRum
  <2>1. SessionTypeOK' OBVIOUS
  <2>2. ClosedIsQuiet' BY DEF ClosedIsQuiet
  <2>3. SessionStays' BY DEF SessionStays
  <2>4. CopiesAreFresh' BY DEF CopiesAreFresh
  <2>5. EveryResetTogglesOnce' BY DEF EveryResetTogglesOnce
  <2> QED BY <2>1, <2>2, <2>3, <2>4, <2>5
<1>2. ASSUME NEW t \in Tabs, EvaluateCart(t) PROVE SessionInv'
  <2> USE <1>2 DEF EvaluateCart
  <2>1. SessionTypeOK' OBVIOUS
  <2>2. ClosedIsQuiet' BY DEF ClosedIsQuiet
  <2>3. SessionStays' BY DEF SessionStays
  <2>4. CopiesAreFresh' BY DEF CopiesAreFresh
  <2>5. EveryResetTogglesOnce' BY DEF EveryResetTogglesOnce
  <2> QED BY <2>1, <2>2, <2>3, <2>4, <2>5
<1>3. ASSUME NEW t \in Tabs, LogoClick(t) PROVE SessionInv'
  <2> USE <1>3 DEF LogoClick
  <2>1. SessionTypeOK'
    <3>1. toggles[t] + 1 \in 0..MaxClicks BY DEF LogoClick
    <3> QED BY <3>1
  <2>2. ClosedIsQuiet' BY DEF ClosedIsQuiet
  <2>3. SessionStays' BY DEF SessionStays
  <2>4. CopiesAreFresh' BY DEF CopiesAreFresh
  <2>5. EveryResetTogglesOnce' BY DEF EveryResetTogglesOnce
  <2> QED BY <2>1, <2>2, <2>3, <2>4, <2>5
<1>4. CASE Expire
  <2> USE <1>4 DEF Expire
  <2>1. SessionTypeOK' OBVIOUS
  <2>2. ClosedIsQuiet' BY DEF ClosedIsQuiet
  <2>3. SessionStays' BY DEF SessionStays, NoSession
  <2>4. CopiesAreFresh' BY DEF CopiesAreFresh, DeploymentType
  <2>5. EveryResetTogglesOnce' BY DEF EveryResetTogglesOnce
  <2> QED BY <2>1, <2>2, <2>3, <2>4, <2>5
<1>5. CASE UNCHANGED sessionVars
  BY <1>5 DEF sessionVars, ClosedIsQuiet, SessionStays, CopiesAreFresh, DeploymentType,
     EveryResetTogglesOnce
<1> QED BY <1>1, <1>2, <1>3, <1>4, <1>5

LEMMA SessionInvariant == SessionSpec => []SessionInv
<1>1. SessionInit => SessionInv
  BY SessionAssumption DEF SessionInit, SessionInv, SessionTypeOK, Paths, NoSession, NoRum,
     ClosedIsQuiet, SessionStays, CopiesAreFresh, EveryResetTogglesOnce
<1>2. SessionInv /\ [SessionNext]_sessionVars => SessionInv'
  BY LoadHeadKeepsSession, LoadBundlesKeepsSession, InitPathKeepsSession, ResetKeepsSession,
     QuietKeepsSession DEF SessionNext, Reload
<1> QED BY <1>1, <1>2, PTL DEF SessionSpec

(* The session, the copies of it and the callbacks that wait keep their types,
   so that no document has more than MaxClicks resets pending. *)
THEOREM SessionTypeCorrect == SessionSpec => []SessionTypeOK
<1>1. SessionInv => SessionTypeOK BY DEF SessionInv
<1> QED BY <1>1, SessionInvariant, PTL

(* A tab that is alone orders for the user whose cart it shows, except between
   a reset and its reload, whenever the two modules were evaluated. *)
THEOREM SessionOrderIsForShownCart == SessionSpec => []OrderIsForShownCart
<1>1. SessionInv => OrderIsForShownCart
  BY DEF SessionInv, SessionTypeOK, CopiesAreFresh, OrderIsForShownCart
<1> QED BY <1>1, SessionInvariant, PTL

(* The payment path is payment-b after an odd number of resets with the flag
   on and payment-a or missing otherwise, in whatever order the answers of all
   tabs arrive. *)
THEOREM SessionEveryResetTogglesOnce == SessionSpec => []EveryResetTogglesOnce
<1>1. SessionInv => EveryResetTogglesOnce BY DEF SessionInv
<1> QED BY <1>1, SessionInvariant, PTL

(* A tab that is alone reports the user and the path its orders carry, except
   between a reset and its reload. *)
THEOREM SessionRumTellsTheSession == SessionSpec => []RumTellsTheSession
<1>1. SessionInv => RumTellsTheSession
  BY DEF SessionInv, CopiesAreFresh, RumTellsTheSession
<1> QED BY <1>1, SessionInvariant, PTL

-----------------------------------------------------------------------------
Carts == SUBSET Products

MutationType ==
    [kind : {Unused, "add", "empty", "order"}, item : Carts \cup {NoData},
     server : {Unused, "sent", "reading", "applied", "ok", "error", "failed", "lost"},
     client : {Unused, "waiting", "rejected"}, shown : Carts \cup {NoData},
     ordered : {Unused, "as shown", "other"}, excused : BOOLEAN]

ViewTypeOK ==
    /\ cart \in Carts
    /\ data \in Carts \cup {NoData}
    /\ fetch \in {Idle, Sent} \cup {Read(snap) : snap \in Carts}
    /\ mutation \in [Mutations -> MutationType]
    /\ caused \in BOOLEAN

\* A request that the page waits for is of a known kind, one that adds has a
\* product, and one whose checkout has read the cart has noted what it ordered.
RequestsAreKnown ==
    \A m \in Mutations :
        /\ Waiting(m) => mutation[m].kind \in {"add", "empty", "order"}
        /\ mutation[m].kind = "add" => mutation[m].item \in Carts
        /\ Working(m) => mutation[m].client \in {"waiting", "rejected"}
        /\ mutation[m].server = "reading" => mutation[m].ordered # Unused

\* The page is going to hear of a change, and will fetch the cart again.
Owed == \E m \in Mutations : Waiting(m) /\ TookEffect(m)

\* Without a cause, what is shown is the cart, or a fetch that will read it or
\* has read it is under way, or the page is still to hear of the change.
FreshUnlessCaused ==
    ~caused =>
        \/ fetch = Sent
        \/ fetch = Read(cart)
        \/ fetch = Idle /\ View = cart
        \/ Owed

\* An order without an excuse was placed for the cart there is, and nothing
\* else is at work that could change it.
OrderSeesShown ==
    \A m \in Mutations :
        mutation[m].kind = "order" /\ mutation[m].server = "sent" /\ ~mutation[m].excused =>
            /\ mutation[m].shown = cart
            /\ \A n \in Mutations \ {m} : ~Working(n)

ViewInv ==
    /\ ViewTypeOK /\ RequestsAreKnown /\ FreshUnlessCaused /\ OrderSeesShown
    /\ OrderedAsShown
-----------------------------------------------------------------------------
\* No cart is the absence of data, and the three states of a fetch differ.
LEMMA FetchStates ==
    /\ NoData \notin Carts
    /\ \A snap \in Carts : /\ Read(snap).state = "read" /\ Read(snap).snap = snap
                           /\ Read(snap) # Idle /\ Read(snap) # Sent
    /\ Idle # Sent /\ Idle.state = "idle" /\ Sent.state = "sent"
<1>1. NoData \notin Carts BY CartViewAssumption DEF NoData, Carts
<1> QED BY <1>1 DEF Read, Idle, Sent

\* The steps of the fetch, which leave the cart and the mutations alone.
LEMMA FetchKeepsView ==
    ASSUME ViewInv, SelectCurrency \/ Focus \/ ReadCart \/ Arrive \/ FetchFails
    PROVE  ViewInv'
<1> USE FetchStates DEF ViewInv, ViewTypeOK
<1>1. UNCHANGED <<cart, mutation>>
  BY DEF SelectCurrency, Focus, ReadCart, Arrive, FetchFails
<1>2. /\ data' \in Carts \cup {NoData}
      /\ caused' \in BOOLEAN
      /\ fetch' \in {Idle, Sent} \cup {Read(snap) : snap \in Carts}
  <2>1. CASE SelectCurrency
    <3>1. data' \in Carts \cup {NoData} BY <2>1 DEF SelectCurrency, Carts
    <3>2. CASE fetch' = Sent /\ UNCHANGED caused BY <3>1, <3>2
    <3>3. CASE \E snap \in SUBSET Products : fetch' = Read(snap) /\ caused' = TRUE
      BY <3>1, <3>3 DEF Carts
    <3> QED BY <2>1, <3>2, <3>3 DEF SelectCurrency
  <2>2. CASE Focus
    <3>1. UNCHANGED <<data, caused>> /\ fetch' = Joined BY <2>2 DEF Focus
    <3>2. fetch' \in {fetch, Sent} BY <3>1 DEF Joined
    <3> QED BY <3>1, <3>2
  <2>3. CASE ReadCart
    <3>1. UNCHANGED <<data, caused>> /\ fetch' = Read(cart) BY <2>3 DEF ReadCart
    <3> QED BY <3>1
  <2>4. CASE Arrive
    <3>1. /\ fetch.state = "read" /\ data' = fetch.snap /\ fetch' = Idle
          /\ caused' = (caused /\ (fetch.snap # cart \/ \E m \in Mutations : Unwatched(m)))
      BY <2>4 DEF Arrive
    <3>2. PICK snap \in Carts : fetch = Read(snap) BY <3>1
    <3>3. data' \in Carts BY <3>1, <3>2
    <3>4. caused' \in BOOLEAN BY ONLY <3>1
    <3> QED BY <3>1, <3>3, <3>4
  <2>5. CASE FetchFails
    <3>1. UNCHANGED data BY <2>5 DEF FetchFails
    <3>2. CASE fetch' = Sent /\ UNCHANGED caused BY <3>1, <3>2
    <3>3. CASE fetch' = Idle /\ caused' = TRUE BY <3>1, <3>3
    <3> QED BY <2>5, <3>2, <3>3 DEF FetchFails
  <2> QED BY <2>1, <2>2, <2>3, <2>4, <2>5
<1>4. Owed' <=> Owed BY <1>1 DEF Owed, Waiting, TookEffect
<1>5. FreshUnlessCaused'
  <2>1. CASE SelectCurrency BY <2>1 DEF SelectCurrency, FreshUnlessCaused
  <2>2. CASE Focus BY <2>2, <1>4 DEF Focus, Joined, FreshUnlessCaused, View
  <2>3. CASE ReadCart BY <2>3 DEF ReadCart, FreshUnlessCaused
  <2>4. CASE Arrive
    <3>1. CASE fetch.snap = cart
      BY <2>4, <3>1 DEF Arrive, FreshUnlessCaused, View
    <3>2. CASE fetch.snap # cart
      BY <2>4, <3>2, <1>4 DEF Arrive, FreshUnlessCaused
    <3> QED BY <3>1, <3>2
  <2>5. CASE FetchFails BY <2>5 DEF FetchFails, FreshUnlessCaused
  <2> QED BY <2>1, <2>2, <2>3, <2>4, <2>5
<1>6. RequestsAreKnown' /\ OrderSeesShown' /\ OrderedAsShown'
  BY <1>1 DEF RequestsAreKnown, OrderSeesShown, OrderedAsShown, Waiting, Working
<1> QED BY <1>1, <1>2, <1>5, <1>6

\* Forget keeps a mutation, or makes its number free again.
LEMMA ForgetOneByOne ==
    ASSUME NEW muts, NEW m \in Mutations
    PROVE  /\ Forget(muts)[m] \in {muts[m], Request}
           /\ muts[m].client = "waiting" => Forget(muts)[m] = muts[m]
           /\ muts[m].client \in {"resolved", "error"} /\ muts[m].server \in {"ok", "error"}
                 => Forget(muts)[m] = Request
BY DEF Forget

\* A number that is free is of no mutation.
LEMMA FreeIsIdle ==
    /\ Request \in MutationType
    /\ Request.client = Unused /\ Request.server = Unused /\ Request.kind = Unused
    /\ Request.ordered = Unused /\ ~Request.excused
BY DEF Request, MutationType, Unused

\* Excuse notes an excuse with the orders that wait, and nothing else.
LEMMA ExcuseOneByOne ==
    ASSUME ViewTypeOK, NEW m \in Mutations
    PROVE  /\ Excuse(mutation) \in [Mutations -> MutationType]
           /\ LET e == Excuse(mutation)[m]
                  o == mutation[m]
              IN  /\ e.kind = o.kind /\ e.item = o.item /\ e.server = o.server
                  /\ e.client = o.client /\ e.shown = o.shown /\ e.ordered = o.ordered
                  /\ o.excused => e.excused
                  /\ o.kind = "order" /\ o.server = "sent" => e.excused
<1> USE DEF ViewTypeOK
<1>1. ASSUME NEW n \in Mutations
      PROVE  /\ Excuse(mutation)[n] \in MutationType
             /\ LET e == Excuse(mutation)[n]
                    o == mutation[n]
                IN  /\ e.kind = o.kind /\ e.item = o.item /\ e.server = o.server
                    /\ e.client = o.client /\ e.shown = o.shown /\ e.ordered = o.ordered
                    /\ o.excused => e.excused
                    /\ o.kind = "order" /\ o.server = "sent" => e.excused
  BY DEF Excuse, MutationType
<1>2. Excuse(mutation) \in [Mutations -> MutationType] BY <1>1 DEF Excuse
<1> QED BY <1>1, <1>2

\* A mutation that starts takes a free number and excuses every order that
\* waits; an order without an excuse is placed when all is quiet.
LEMMA StartKeepsView ==
    ASSUME ViewInv, NEW m \in Mutations,
           emptyCart(m) \/ placeOrder(m) \/ \E p \in Products : addItem(m, p)
    PROVE  ViewInv'
<1> USE FetchStates, FreeIsIdle, ExcuseOneByOne DEF ViewInv
<1> DEFINE old == mutation[m]
           new == mutation'[m]
<1> DEFINE Started ==
      /\ UNCHANGED <<cart, data, fetch, caused>> /\ old = Request
      /\ \A n \in Mutations \ {m} : mutation'[n] = Excuse(mutation)[n]
      /\ mutation' \in [Mutations -> MutationType]
      /\ new.server = "sent" /\ new.client = "waiting" /\ new.ordered = Unused
      /\ \/ new.kind = "add" /\ new.item \in Carts
         \/ new.kind = "empty"
         \/ /\ new.kind = "order" /\ new.shown = View
            /\ new.excused \/ /\ ~caused /\ fetch = Idle
                              /\ \A n \in Mutations : ~Working(n) /\ ~Waiting(n)
<1>1. Started
  <2>1. ASSUME NEW kind \in {"add", "empty"}, NEW item \in Carts, Start(m, kind, item)
        PROVE  Started
    <3>1. /\ UNCHANGED <<cart, data, fetch, caused>> /\ old = Request
          /\ mutation' = [Excuse(mutation) EXCEPT
                            ![m] = [@ EXCEPT !.kind = kind, !.item = item, !.server = "sent",
                                             !.client = "waiting"]]
      BY <2>1 DEF Start, Free
    <3>2. new = [Excuse(mutation)[m] EXCEPT !.kind = kind, !.item = item, !.server = "sent",
                                            !.client = "waiting"]
      BY <3>1
    <3>3. Excuse(mutation)[m] \in MutationType OBVIOUS
    <3>4. /\ new \in MutationType /\ new.server = "sent" /\ new.client = "waiting"
          /\ new.kind = kind /\ new.item = item /\ new.ordered = Excuse(mutation)[m].ordered
      <4> DEFINE excused == Excuse(mutation)[m]
      <4>1. excused \in MutationType BY <3>3
      <4>2. new = [excused EXCEPT !.kind = kind, !.item = item, !.server = "sent",
                                  !.client = "waiting"]
        BY <3>2
      <4> HIDE DEF excused, new
      <4>3. /\ new \in MutationType /\ new.server = "sent" /\ new.client = "waiting"
            /\ new.kind = kind /\ new.item = item /\ new.ordered = excused.ordered
        BY ONLY <2>1, <4>1, <4>2 DEF MutationType
      <4> QED BY <4>3 DEF excused
    <3>5. new.ordered = Unused BY <3>1, <3>4
    <3>6. mutation' \in [Mutations -> MutationType] BY <3>1, <3>2, <3>4
    <3> QED BY <3>1, <3>4, <3>5, <3>6
  <2>2. CASE placeOrder(m)
    <3>1. /\ UNCHANGED <<cart, data, fetch, caused>> /\ old = Request
      BY <2>2 DEF placeOrder, Free
    <3> DEFINE busy == caused \/ fetch # Idle \/ \E n \in Mutations : Working(n) \/ Waiting(n)
    <3>2. /\ mutation' = [Excuse(mutation) EXCEPT ![m] = new]
          /\ new = [Excuse(mutation)[m] EXCEPT !.kind = "order", !.server = "sent",
                        !.client = "waiting", !.shown = View, !.excused = busy]
      BY <2>2 DEF placeOrder
    <3>3. Excuse(mutation)[m] \in MutationType /\ View \in Carts /\ busy \in BOOLEAN
      BY DEF View, ViewTypeOK, Carts
    <3>4. /\ new \in MutationType /\ new.server = "sent" /\ new.client = "waiting"
          /\ new.kind = "order" /\ new.shown = View /\ new.excused = busy
          /\ new.ordered = Excuse(mutation)[m].ordered
      <4> HIDE DEF busy, new
      <4> QED BY <3>2, <3>3 DEF MutationType
    <3>5. new.ordered = Unused BY <3>1, <3>4
    <3>6. mutation' \in [Mutations -> MutationType] BY <3>2, <3>4
    <3>7. \A n \in Mutations \ {m} : mutation'[n] = Excuse(mutation)[n] BY <3>2
    <3>8. ~busy => /\ ~caused /\ fetch = Idle
                   /\ \A n \in Mutations : ~Working(n) /\ ~Waiting(n)
      OBVIOUS
    <3> HIDE DEF busy
    <3> QED BY <3>1, <3>4, <3>5, <3>6, <3>7, <3>8
  <2>3. emptyCart(m) => Start(m, "empty", {}) BY DEF emptyCart
  <2>4. ASSUME NEW p \in Products, addItem(m, p) PROVE Start(m, "add", {p}) /\ {p} \in Carts
    BY <2>4 DEF addItem, Carts
  <2>5. {} \in Carts BY DEF Carts
  <2> QED BY <2>1, <2>2, <2>3, <2>4, <2>5
<1> HIDE DEF new, old
<1>2. ViewTypeOK' BY <1>1 DEF ViewTypeOK
<1>3. RequestsAreKnown' BY <1>1 DEF RequestsAreKnown, Waiting, Working, new
<1>4. Owed => Owed' BY <1>1 DEF Owed, Waiting, TookEffect, old
<1>5. FreshUnlessCaused' BY <1>1, <1>4 DEF FreshUnlessCaused, View
<1>6. OrderSeesShown'
  <2> SUFFICES ASSUME NEW n \in Mutations, mutation'[n].kind = "order",
                      mutation'[n].server = "sent", ~mutation'[n].excused
               PROVE  /\ mutation'[n].shown = cart'
                      /\ \A k \in Mutations \ {n} : ~Working(k)'
    BY DEF OrderSeesShown
  <2>1. n = m BY <1>1
  <2>2. ~caused /\ fetch = Idle /\ ~Owed BY <1>1, <2>1 DEF Owed, new
  <2>3. View = cart BY <2>2 DEF FreshUnlessCaused, ViewTypeOK
  <2> QED BY <1>1, <2>1, <2>3 DEF Working, new
<1>7. OrderedAsShown'
  <2> SUFFICES ASSUME NEW n \in Mutations, ~mutation'[n].excused
               PROVE  mutation'[n].ordered \in {Unused, "as shown"}
    BY DEF OrderedAsShown
  <2>1. CASE n = m BY <1>1, <2>1 DEF new
  <2>2. CASE n # m
    <3>1. mutation'[n] = Excuse(mutation)[n] BY <1>1, <2>2
    <3>2. mutation'[n].ordered = mutation[n].ordered /\ ~mutation[n].excused BY <3>1
    <3> QED BY ONLY <3>2, OrderedAsShown DEF OrderedAsShown
  <2> QED BY <2>1, <2>2
<1> QED BY <1>2, <1>3, <1>5, <1>6, <1>7

\* A step of mutation m, of its page or of its server, and what it leaves of
\* the other mutations.
LEMMA StepOfOne ==
    ASSUME ViewTypeOK, NEW m \in Mutations, NEW rec,
           mutation' = Forget([mutation EXCEPT ![m] = rec])
    PROVE  /\ mutation'[m] \in {rec, Request}
           /\ rec.client = "waiting" => mutation'[m] = rec
           /\ \A n \in Mutations \ {m} :
                 /\ mutation'[n] \in {mutation[n], Request}
                 /\ mutation[n].client = "waiting" => mutation'[n] = mutation[n]
           /\ rec \in MutationType => mutation' \in [Mutations -> MutationType]
<1> DEFINE muts == [mutation EXCEPT ![m] = rec]
<1>1. muts[m] = rec /\ \A n \in Mutations \ {m} : muts[n] = mutation[n] BY DEF ViewTypeOK
<1>2. \A n \in Mutations : /\ mutation'[n] \in {muts[n], Request}
                           /\ muts[n].client = "waiting" => mutation'[n] = muts[n]
  BY ForgetOneByOne
<1>3. ASSUME rec \in MutationType PROVE mutation' \in [Mutations -> MutationType]
  <2>1. \A n \in Mutations : mutation'[n] \in MutationType
    BY <1>1, <1>2, <1>3, FreeIsIdle DEF ViewTypeOK
  <2> QED BY <2>1 DEF Forget
<1> HIDE DEF muts
<1> QED BY <1>1, <1>2, <1>3

\* What a step of m's server must keep to for the invariants on mutations.
LEMMA ServerKeepsMutations ==
    ASSUME ViewInv, NEW m \in Mutations, NEW rec \in MutationType,
           mutation' = Forget([mutation EXCEPT ![m] = rec]),
           Working(m) \/ Waiting(m),
           cart' = cart \/ (Working(m) /\ mutation[m].kind # "order") \/ mutation[m].server = "reading",
           rec.kind = mutation[m].kind, rec.item = mutation[m].item,
           rec.client = mutation[m].client \/ rec.client = "rejected",
           rec.excused = mutation[m].excused,
           rec.server # "sent" \/ (rec.server = mutation[m].server /\ cart' = cart /\ rec.shown = mutation[m].shown),
           rec.server \in {"sent", "reading", "applied"} => Working(m),
           rec.server = "reading" => rec.ordered # Unused,
           rec.ordered = mutation[m].ordered \/ rec.excused \/ rec.ordered \in {Unused, "as shown"}
    PROVE  RequestsAreKnown' /\ OrderSeesShown' /\ OrderedAsShown'
<1> USE FreeIsIdle DEF ViewInv
<1>0. /\ mutation'[m] \in {rec, Request}
      /\ \A n \in Mutations \ {m} : mutation'[n] \in {mutation[n], Request}
  BY StepOfOne
<1>1. RequestsAreKnown'
  <2> SUFFICES ASSUME NEW n \in Mutations, mutation'[n] # Request
               PROVE  /\ Waiting(n)' => mutation'[n].kind \in {"add", "empty", "order"}
                      /\ mutation'[n].kind = "add" => mutation'[n].item \in Carts
                      /\ Working(n)' => mutation'[n].client \in {"waiting", "rejected"}
                      /\ mutation'[n].server = "reading" => mutation'[n].ordered # Unused
    BY DEF RequestsAreKnown, Working, Waiting, Unused
  <2>1. CASE n = m
    <3>1. mutation'[n] = rec BY <1>0, <2>1
    <3>2. mutation[m].kind = "add" => mutation[m].item \in Carts BY DEF RequestsAreKnown
    <3>3. Waiting(m) => mutation[m].kind \in {"add", "empty", "order"} BY DEF RequestsAreKnown
    <3>4. Working(m) => mutation[m].client \in {"waiting", "rejected"} BY DEF RequestsAreKnown
    <3> QED BY <3>1, <3>2, <3>3, <3>4 DEF Working, Waiting
  <2>2. CASE n # m
    <3>1. mutation'[n] = mutation[n] BY <1>0, <2>2
    <3> QED BY <3>1 DEF RequestsAreKnown, Working, Waiting
  <2> QED BY <2>1, <2>2
<1>2. \A n \in Mutations : Working(n)' => Working(n) BY <1>0 DEF Working, Unused
<1>3. OrderSeesShown'
  <2> SUFFICES ASSUME NEW n \in Mutations, mutation'[n].kind = "order",
                      mutation'[n].server = "sent", ~mutation'[n].excused
               PROVE  /\ mutation'[n].shown = cart'
                      /\ \A k \in Mutations \ {n} : ~Working(k)'
    BY DEF OrderSeesShown
  <2>0. mutation'[n] # Request BY DEF Unused
  <2>1. CASE n = m
    <3>1. mutation'[n] = rec BY <1>0, <2>0, <2>1
    <3>2. mutation[n].kind = "order" /\ mutation[n].server = "sent" /\ ~mutation[n].excused
      BY <2>1, <3>1
    <3> QED BY <1>2, <2>1, <3>1, <3>2 DEF OrderSeesShown
  <2>2. CASE n # m
    <3>1. mutation'[n] = mutation[n] BY <1>0, <2>0, <2>2
    <3>2. ~Working(m) BY <2>2, <3>1 DEF OrderSeesShown
    <3>3. cart' = cart BY <3>2 DEF Working
    <3> QED BY <1>2, <2>2, <3>1, <3>3 DEF OrderSeesShown
  <2> QED BY <2>1, <2>2
<1>4. OrderedAsShown'
  <2> SUFFICES ASSUME NEW n \in Mutations, ~mutation'[n].excused, mutation'[n] # Request
               PROVE  mutation'[n].ordered \in {Unused, "as shown"}
    BY DEF OrderedAsShown
  <2>1. CASE n = m BY <1>0, <2>1 DEF OrderedAsShown
  <2>2. CASE n # m BY <1>0, <2>2 DEF OrderedAsShown
  <2> QED BY <2>1, <2>2
<1> QED BY <1>1, <1>3, <1>4

\* A change of the cart that the page still waits for is owed to it; one that
\* it has given up is a cause.
LEMMA EffectKeepsView ==
    ASSUME ViewInv, NEW m \in Mutations, NEW c \in Carts,
           NEW server \in {"applied", "ok", "lost", "error"}, Effect(m, c, server),
           \/ mutation[m].server = "sent" /\ mutation[m].kind # "order" /\ server # "error"
           \/ mutation[m].server = "reading"
    PROVE  ViewInv'
<1> DEFINE rec == [mutation[m] EXCEPT !.server = server]
<1>1. mutation[m] \in MutationType BY DEF ViewInv, ViewTypeOK
<1>2. /\ rec \in MutationType /\ rec.server = server
      /\ rec.kind = mutation[m].kind /\ rec.item = mutation[m].item
      /\ rec.client = mutation[m].client /\ rec.excused = mutation[m].excused
      /\ rec.ordered = mutation[m].ordered
  BY <1>1 DEF MutationType
<1>3. /\ mutation' = Forget([mutation EXCEPT ![m] = rec]) /\ cart' = c
      /\ caused' = (caused \/ mutation[m].client = "rejected") /\ UNCHANGED <<data, fetch>>
  BY DEF Effect
<1> HIDE DEF rec
<1>4. Working(m) BY DEF Working
<1>5. RequestsAreKnown' /\ OrderSeesShown' /\ OrderedAsShown'
  <2>1. cart' = cart \/ (Working(m) /\ mutation[m].kind # "order") \/ mutation[m].server = "reading"
    BY <1>4
  <2> QED BY <1>2, <1>3, <1>4, <2>1, ServerKeepsMutations
<1>6. mutation' \in [Mutations -> MutationType]
  BY <1>2, <1>3, StepOfOne DEF ViewInv
<1>7. ViewTypeOK' BY <1>3, <1>6 DEF ViewInv, ViewTypeOK
<1>8. ~caused' => Owed'
  <2> SUFFICES ASSUME ~caused' PROVE Waiting(m)' /\ TookEffect(m)' BY DEF Owed
  <2>1. mutation[m].client = "waiting"
    BY <1>3, <1>4 DEF ViewInv, RequestsAreKnown
  <2>2. mutation'[m] = rec BY <1>2, <1>3, <2>1, StepOfOne DEF ViewInv
  <2>3. server = "error" => mutation[m].ordered # Unused
    BY DEF ViewInv, RequestsAreKnown
  <2> QED BY <1>2, <2>1, <2>2, <2>3 DEF Waiting, TookEffect
<1> QED BY <1>5, <1>7, <1>8 DEF ViewInv, FreshUnlessCaused

\* Whatever is owed to the page stays owed by a step of m's server that has no
\* effect on the cart.
LEMMA NoEffectKeepsView ==
    ASSUME ViewInv, NEW m \in Mutations, NEW server \in {"failed", "error", "ok", "lost"},
           NoEffect(m, server), Working(m),
           mutation[m].server = "applied" => server \in {"ok", "lost"}
    PROVE  ViewInv'
<1> DEFINE rec == [mutation[m] EXCEPT !.server = server]
<1>1. mutation[m] \in MutationType BY DEF ViewInv, ViewTypeOK
<1>2. /\ rec \in MutationType /\ rec.server = server
      /\ rec.kind = mutation[m].kind /\ rec.item = mutation[m].item
      /\ rec.client = mutation[m].client /\ rec.excused = mutation[m].excused
      /\ rec.ordered = mutation[m].ordered
  BY <1>1 DEF MutationType
<1>3. /\ mutation' = Forget([mutation EXCEPT ![m] = rec])
      /\ UNCHANGED <<cart, data, fetch, caused>>
  BY DEF NoEffect
<1> HIDE DEF rec
<1>4. RequestsAreKnown' /\ OrderSeesShown' /\ OrderedAsShown'
  BY <1>2, <1>3, ServerKeepsMutations
<1>5. mutation' \in [Mutations -> MutationType]
  BY <1>2, <1>3, StepOfOne DEF ViewInv
<1>6. ViewTypeOK' BY <1>3, <1>5 DEF ViewInv, ViewTypeOK
<1>7. Owed => Owed'
  <2> SUFFICES ASSUME NEW n \in Mutations, Waiting(n), TookEffect(n)
               PROVE  Waiting(n)' /\ TookEffect(n)'
    BY DEF Owed
  <2>1. CASE n = m
    <3>1. mutation'[m] = rec BY <1>2, <1>3, <2>1, StepOfOne DEF ViewInv, Waiting
    <3>2. mutation[m].server = "applied" BY <2>1 DEF Working, TookEffect
    <3> QED BY <1>2, <2>1, <3>1, <3>2 DEF Waiting, TookEffect
  <2>2. CASE n # m
    <3>1. mutation'[n] = mutation[n] BY <1>3, <2>2, StepOfOne DEF ViewInv, Waiting
    <3> QED BY <3>1 DEF Waiting, TookEffect
  <2> QED BY <2>1, <2>2
<1> QED BY <1>3, <1>4, <1>6, <1>7 DEF ViewInv, FreshUnlessCaused, View

\* Checkout reads the cart: an order without an excuse finds what was shown.
LEMMA CheckoutReadsKeepsView ==
    ASSUME ViewInv, NEW m \in Mutations, CheckoutReads(m) PROVE ViewInv'
<1> DEFINE what == CASE cart = {} -> Unused
                     [] cart # {} /\ cart = mutation[m].shown -> "as shown"
                     [] OTHER -> "other"
           server == IF cart = {} THEN "error" ELSE "reading"
           rec == [mutation[m] EXCEPT !.server = server, !.shown = NoData, !.ordered = what]
<1>1. mutation[m] \in MutationType BY DEF ViewInv, ViewTypeOK
<1>2. /\ what \in {Unused, "as shown", "other"} /\ server \in {"error", "reading"}
      /\ server = "reading" => what # Unused
      /\ cart = mutation[m].shown => what \in {Unused, "as shown"}
  BY DEF Unused
<1>3. /\ mutation' = Forget([mutation EXCEPT ![m] = rec])
      /\ UNCHANGED <<cart, data, fetch, caused>>
      /\ mutation[m].kind = "order" /\ mutation[m].server = "sent"
  BY DEF CheckoutReads
<1> HIDE DEF what, server
<1>4. /\ rec \in MutationType /\ rec.server = server /\ rec.ordered = what
      /\ rec.kind = mutation[m].kind /\ rec.item = mutation[m].item
      /\ rec.client = mutation[m].client /\ rec.excused = mutation[m].excused
  BY <1>1, <1>2 DEF MutationType
<1> HIDE DEF rec
<1>5. Working(m) /\ ~TookEffect(m) BY <1>3 DEF Working, TookEffect
<1>6. rec.excused \/ rec.ordered \in {Unused, "as shown"}
  BY <1>2, <1>3, <1>4 DEF ViewInv, OrderSeesShown
<1>7. RequestsAreKnown' /\ OrderSeesShown' /\ OrderedAsShown'
  BY <1>2, <1>3, <1>4, <1>5, <1>6, ServerKeepsMutations
<1>8. mutation' \in [Mutations -> MutationType]
  BY <1>3, <1>4, StepOfOne DEF ViewInv
<1>9. ViewTypeOK' BY <1>3, <1>8 DEF ViewInv, ViewTypeOK
<1>10. Owed => Owed'
  <2> SUFFICES ASSUME NEW n \in Mutations, Waiting(n), TookEffect(n)
               PROVE  Waiting(n)' /\ TookEffect(n)'
    BY DEF Owed
  <2>1. mutation'[n] = mutation[n] BY <1>3, <1>5, StepOfOne DEF ViewInv, Waiting
  <2> QED BY <2>1 DEF Waiting, TookEffect
<1> QED BY <1>3, <1>7, <1>9, <1>10 DEF ViewInv, FreshUnlessCaused, View

\* A promise that rejects leaves a change unseen and is a cause; the other
\* changes stay owed.
LEMMA RejectKeepsView ==
    ASSUME ViewInv, NEW m \in Mutations, Reject(m) PROVE ViewInv'
<1> DEFINE rec == [mutation[m] EXCEPT !.client = "rejected"]
<1>1. mutation[m] \in MutationType BY DEF ViewInv, ViewTypeOK
<1>2. /\ rec \in MutationType /\ rec.server = mutation[m].server
      /\ rec.kind = mutation[m].kind /\ rec.item = mutation[m].item
      /\ rec.client = "rejected" /\ rec.excused = mutation[m].excused
      /\ rec.ordered = mutation[m].ordered /\ rec.shown = mutation[m].shown
  BY <1>1 DEF MutationType
<1>3. /\ mutation' = Forget([mutation EXCEPT ![m] = rec])
      /\ caused' = (caused \/ TookEffect(m)) /\ Waiting(m) /\ UNCHANGED <<cart, data, fetch>>
  BY DEF Reject
<1> HIDE DEF rec
<1>4. RequestsAreKnown' /\ OrderSeesShown' /\ OrderedAsShown'
  <2>1. rec.server = "reading" => rec.ordered # Unused
    BY <1>2 DEF ViewInv, RequestsAreKnown
  <2>2. rec.server \in {"sent", "reading", "applied"} => Working(m) BY <1>2 DEF Working
  <2> QED BY <1>2, <1>3, <2>1, <2>2, ServerKeepsMutations
<1>5. mutation' \in [Mutations -> MutationType]
  BY <1>2, <1>3, StepOfOne DEF ViewInv
<1>6. ViewTypeOK' BY <1>3, <1>5 DEF ViewInv, ViewTypeOK
<1>7. Owed /\ ~caused' => Owed'
  <2> SUFFICES ASSUME NEW n \in Mutations, Waiting(n), TookEffect(n), ~caused'
               PROVE  Waiting(n)' /\ TookEffect(n)'
    BY DEF Owed
  <2>1. n # m BY <1>3
  <2>2. mutation'[n] = mutation[n] BY <1>3, <2>1, StepOfOne DEF ViewInv, Waiting
  <2> QED BY <2>2 DEF Waiting, TookEffect
<1> QED BY <1>3, <1>4, <1>6, <1>7 DEF ViewInv, FreshUnlessCaused, View

\* A promise that resolves fetches the cart again, whatever the answer says.
LEMMA ResolveKeepsView ==
    ASSUME ViewInv, NEW m \in Mutations, Resolve(m) PROVE ViewInv'
<1> DEFINE client == IF mutation[m].server = "ok" THEN "resolved" ELSE "error"
           muts == [mutation EXCEPT ![m].client = client]
<1>1. mutation[m] \in MutationType /\ mutation \in [Mutations -> MutationType]
  BY DEF ViewInv, ViewTypeOK
<1>2. /\ mutation' = Forget(muts) /\ UNCHANGED <<cart, data>>
      /\ Waiting(m) /\ mutation[m].server \in {"ok", "error"}
  BY DEF Resolve
<1>3. /\ muts[m].client \in {"resolved", "error"} /\ muts[m].server = mutation[m].server
      /\ \A n \in Mutations \ {m} : muts[n] = mutation[n]
  BY <1>1 DEF MutationType
<1> HIDE DEF muts
<1>4. /\ mutation'[m] = Request
      /\ \A n \in Mutations : mutation'[n] \in {mutation[n], Request}
  BY <1>2, <1>3, ForgetOneByOne
<1>5. mutation' \in [Mutations -> MutationType]
  <2>1. \A n \in Mutations : mutation'[n] \in MutationType BY <1>1, <1>4, FreeIsIdle
  <2> QED BY <1>2, <2>1 DEF Forget
<1>6. /\ fetch' = Invalidated
      /\ caused' = (caused \/ (data = NoData /\ fetch.state = "read"))
  BY <1>2 DEF Resolve, Invalidates, ViewInv, RequestsAreKnown
<1>7. ViewTypeOK'
  BY <1>2, <1>5, <1>6 DEF Invalidated, Joined, ViewInv, ViewTypeOK
<1>8. FreshUnlessCaused'
  <2> SUFFICES ASSUME ~caused' PROVE fetch' = Sent BY DEF FreshUnlessCaused
  <2>1. CASE data = NoData
    <3>1. fetch = Idle \/ fetch = Sent
      <4>1. fetch.state # "read" BY ONLY <1>6, <2>1, ~caused'
      <4>2. fetch \in {Idle, Sent} \cup {Read(snap) : snap \in Carts} BY DEF ViewInv, ViewTypeOK
      <4> QED BY <4>1, <4>2, FetchStates
    <3> QED BY <1>6, <2>1, <3>1 DEF Invalidated, Joined
  <2>2. CASE data # NoData BY <1>6, <2>2 DEF Invalidated
  <2> QED BY <2>1, <2>2
<1>9. RequestsAreKnown'
  BY <1>4, FreeIsIdle DEF ViewInv, RequestsAreKnown, Waiting, Working, Unused
<1>10. OrderSeesShown'
  <2>1. \A n \in Mutations : Working(n)' => Working(n)
    BY <1>4, FreeIsIdle DEF Working, Unused
  <2>2. \A n \in Mutations : mutation'[n].kind = "order" => mutation'[n] = mutation[n]
    BY <1>4, FreeIsIdle DEF Unused
  <2> QED BY <1>2, <2>1, <2>2 DEF ViewInv, OrderSeesShown
<1>11. OrderedAsShown' BY <1>4, FreeIsIdle DEF ViewInv, OrderedAsShown
<1> QED BY <1>7, <1>8, <1>9, <1>10, <1>11 DEF ViewInv

\* A change by another tab is a cause, and an excuse to every order that waits.
LEMMA OtherTabKeepsView == ASSUME ViewInv, OtherTab PROVE ViewInv'
<1> USE ExcuseOneByOne DEF ViewInv
<1>1. /\ mutation' = Excuse(mutation) /\ caused' = TRUE /\ UNCHANGED <<data, fetch>>
      /\ cart' \in Carts
  BY DEF OtherTab, ViewTypeOK, Carts
<1>2. ViewTypeOK'
  <2>1. CASE Mutations = {} BY <1>1, <2>1 DEF ViewTypeOK, Excuse
  <2>2. CASE Mutations # {} BY <1>1, <2>2 DEF ViewTypeOK
  <2> QED BY <2>1, <2>2
<1>3. RequestsAreKnown' BY <1>1 DEF RequestsAreKnown, Waiting, Working
<1>4. OrderSeesShown' BY <1>1 DEF OrderSeesShown
<1>5. OrderedAsShown' BY <1>1 DEF OrderedAsShown
<1> QED BY <1>1, <1>2, <1>3, <1>4, <1>5 DEF FreshUnlessCaused

LEMMA ViewInvariant == ViewSpec => []ViewInv
<1>1. ViewInit => ViewInv
  <2> SUFFICES ASSUME ViewInit PROVE ViewInv OBVIOUS
  <2>1. \A m \in Mutations : mutation[m] = Request BY DEF ViewInit
  <2>2. ViewTypeOK BY FreeIsIdle DEF ViewInit, ViewTypeOK, Carts
  <2>3. RequestsAreKnown /\ OrderSeesShown /\ OrderedAsShown
    BY <2>1, FreeIsIdle DEF RequestsAreKnown, OrderSeesShown, OrderedAsShown, Waiting, Working,
       Unused
  <2> QED BY <2>2, <2>3 DEF ViewInit, ViewInv, FreshUnlessCaused
<1>2. ViewInv /\ [ViewNext]_viewVars => ViewInv'
  <2> SUFFICES ASSUME ViewInv, [ViewNext]_viewVars PROVE ViewInv' OBVIOUS
  <2>1. ASSUME NEW m \in Mutations, ChangeCart(m) PROVE ViewInv'
    <3>1. {} \in Carts /\ (mutation[m].kind = "add" => cart \cup mutation[m].item \in Carts)
      BY DEF ViewInv, ViewTypeOK, RequestsAreKnown, Carts
    <3>2. Working(m) BY <2>1 DEF ChangeCart, Working
    <3>3. ASSUME NoEffect(m, "failed") PROVE ViewInv'
      BY <2>1, <3>2, <3>3, NoEffectKeepsView DEF ChangeCart
    <3> QED BY <2>1, <3>1, <3>3, EffectKeepsView DEF ChangeCart
  <2>2. ASSUME NEW m \in Mutations, CheckoutEnds(m) PROVE ViewInv'
    <3>1. {} \in Carts /\ cart \in Carts BY DEF ViewInv, ViewTypeOK, Carts
    <3>2. Working(m) /\ mutation[m].server = "reading" BY <2>2 DEF CheckoutEnds, Working
    <3> QED BY <2>2, <3>1, <3>2, NoEffectKeepsView, EffectKeepsView DEF CheckoutEnds
  <2>3. ASSUME NEW m \in Mutations, Complete(m) PROVE ViewInv'
    BY <2>3, NoEffectKeepsView DEF Complete, Working
  <2>4. CASE UNCHANGED viewVars
    BY <2>4 DEF viewVars, ViewInv, ViewTypeOK, RequestsAreKnown, FreshUnlessCaused, Owed,
       OrderSeesShown, OrderedAsShown, View, Waiting, Working, TookEffect
  <2> QED BY <2>1, <2>2, <2>3, <2>4, FetchKeepsView, StartKeepsView, CheckoutReadsKeepsView,
             RejectKeepsView, ResolveKeepsView, OtherTabKeepsView DEF ViewNext
<1> QED BY <1>1, <1>2, PTL DEF ViewSpec

(* The pages, the fetch and the mutations keep their types: the answer of a
   mutation never arrives twice, and a mutation is forgotten when both sides
   are through. *)
THEOREM CartViewTypeCorrect == ViewSpec => []ViewTypeOK
<1>1. ViewInv => ViewTypeOK BY DEF ViewInv
<1> QED BY <1>1, ViewInvariant, PTL

(* A page at rest shows the cart there is, unless another tab changed it, a
   mutation took effect and its promise rejected, the last fetch gave up, or an
   entry without data joined a fetch that was older than the change. *)
THEOREM CartViewStaleViewHasCause == ViewSpec => []StaleViewHasCause
<1>1. ViewInv => StaleViewHasCause
  BY FetchStates DEF ViewInv, ViewTypeOK, FreshUnlessCaused, Owed, StaleViewHasCause, Quiet
<1> QED BY <1>1, ViewInvariant, PTL

(* An order is of the cart that the shopper saw when placing it, unless the
   page was not quiet or not current then or the cart changed before checkout
   read it. *)
THEOREM CartViewOrderedAsShown == ViewSpec => []OrderedAsShown
<1>1. ViewInv => OrderedAsShown BY DEF ViewInv
<1> QED BY <1>1, ViewInvariant, PTL
=============================================================================
