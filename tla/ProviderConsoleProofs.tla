----------------------- MODULE ProviderConsoleProofs -----------------------
(***************************************************************************)
(* Proofs about ProviderConsole: what is proved of ProviderSessions holds  *)
(* of the whole console, and a save writes what its own provider sent.     *)
(***************************************************************************)
EXTENDS ProviderConsole, ProviderSessionsProofs

\* The sign-ins before the first page leave the tables as sign-ins do.
LEMMA InitIsVouched == Init => SessionInv
<1> SUFFICES ASSUME Init PROVE SessionInv OBVIOUS
<1>1. PICK c \in Clients, p \in Providers : SignedIn(c, p) BY DEF Init
<1>2. PICK row : row = [hash |-> ProviderHash(Raw(1)), provider |-> p, expires |-> Lifetime]
  OBVIOUS
<1>3. PICK login : login = [token |-> 1, provider |-> p, at |-> 0] OBVIOUS
<1>4. /\ now = 0 /\ issued = 1 /\ sessions = {row} /\ logins = {login}
      /\ adminSessions = {} /\ ended = {}
  BY <1>1, <1>2, <1>3 DEF SignedIn
<1>5. Lifetime \in Nat BY SessionsAssumption
<1>6. NumbersOK BY <1>3, <1>4 DEF NumbersOK, Drawn
<1>7. JarOK
  <2>1. jar.provider.value = Encoded(1) /\ jar.admin.value = None
    BY <1>1 DEF SignedIn, NoCookie
  <2>2. jar = [client |-> jar.client, provider |-> jar.provider, admin |-> jar.admin]
    BY <1>1 DEF SignedIn
  <2> QED BY <1>4, <2>1, <2>2 DEF JarOK, CookieOK, Drawn
<1>8. RowsVouched
  <2>1. VouchedBy(row, login) BY <1>2, <1>3, <1>4, <1>5 DEF VouchedBy
  <2> QED BY <1>4, <2>1 DEF RowsVouched
<1> QED BY <1>4, <1>6, <1>7, <1>8 DEF SessionInv, SaltsDrawn

\* Pages and requests touch cookies and sessions only through ProviderSessions.
LEMMA StepIsSessionStep == [Next]_vars => [SessionNext]_sessionVars
<1> SUFFICES ASSUME [Next]_vars PROVE [SessionNext]_sessionVars OBVIOUS
<1> USE DEF OnScreen
<1>1. CASE UNCHANGED vars BY <1>1 DEF vars
<1>2. ASSUME NEW p, Open(p) PROVE UNCHANGED sessionVars BY <1>2 DEF Open
<1>3. ASSUME NEW c \in Clients, LogIn(c) PROVE SessionNext BY <1>3 DEF LogIn, SessionNext
<1>4. CASE LogOut BY <1>4 DEF LogOut, SessionNext
<1>5. ASSUME NEW f, SetFilter(f) \/ SetSearch(f) \/ Type(f) \/ OpenDrawer(f) \/ Click(f)
                    \/ EditSlug(f) \/ ChooseNotice(f)
      PROVE  UNCHANGED sessionVars
  BY <1>5 DEF SetFilter, SetSearch, Type, OpenDrawer, Click, EditSlug, ChooseNotice
<1>6. ASSUME NEW do, NEW b, Press(do, b) \/ Elsewhere(b, do) PROVE UNCHANGED sessionVars
  BY <1>6 DEF Press, Elsewhere
<1>7. ASSUME NEW i, Serve(i) \/ Admit(i) \/ UpdateMe(i) \/ Fail(i) \/ Deliver(i)
      PROVE  UNCHANGED sessionVars
  BY <1>7 DEF Serve, Admit, UpdateMe, Fail, Deliver
<1>8. CASE Retry \/ HandleRetry \/ CloseDrawer \/ HandleSearch \/ Save
  BY <1>8 DEF Retry, HandleRetry, CloseDrawer, HandleSearch, Save
<1>9. CASE Session
  BY <1>9 DEF Session, SessionNext
<1> QED BY <1>1, <1>2, <1>3, <1>4, <1>5, <1>6, <1>7, <1>8, <1>9 DEF Next

\* With pages, requests in flight and other people at work, a cookie still stands
\* for the provider who opened its session, within its lifetime and not after its
\* revocation.
THEOREM ConsoleCookiesAreVouched == Spec => []GuardIsVouched
<1>1. SessionInv /\ [Next]_vars => SessionInv' BY StepIsSessionStep, SessionStepKeeps
<1> QED BY <1>1, InitIsVouched, InvVouches, PTL DEF Spec

\* The rows of table providers keep their columns.
RowsOK ==
  /\ rows = [p \in Providers |-> rows[p]]
  /\ \A p \in Providers : rows[p] = [slug |-> rows[p].slug, notice |-> rows[p].notice]

\* Only UpdateMe writes to table providers.
LEMMA RowsChangeInUpdateMe ==
  ASSUME [Next]_vars
  PROVE  UNCHANGED rows \/ \E i \in DOMAIN net : UpdateMe(i)
<1> USE DEF OnScreen, screen
<1>1. CASE UNCHANGED vars BY <1>1 DEF vars
<1>2. ASSUME NEW p, Open(p) \/ LogIn(p) PROVE UNCHANGED rows BY <1>2 DEF Open, LogIn
<1>3. ASSUME NEW f, SetFilter(f) \/ SetSearch(f) \/ Type(f) \/ OpenDrawer(f) \/ Click(f)
                    \/ EditSlug(f) \/ ChooseNotice(f)
      PROVE  UNCHANGED rows
  BY <1>3 DEF SetFilter, SetSearch, Type, OpenDrawer, Click, EditSlug, ChooseNotice
<1>4. ASSUME NEW do, NEW b, Press(do, b) \/ Elsewhere(b, do) PROVE UNCHANGED rows
  BY <1>4 DEF Press, Elsewhere
<1>5. ASSUME NEW i, Serve(i) \/ Admit(i) \/ Fail(i) \/ Deliver(i) PROVE UNCHANGED rows
  BY <1>5 DEF Serve, Admit, Fail, Deliver
<1>6. CASE LogOut \/ Retry \/ HandleRetry \/ CloseDrawer \/ HandleSearch \/ Save \/ Session
  BY <1>6 DEF LogOut, Retry, HandleRetry, CloseDrawer, HandleSearch, Save, Session
<1> QED BY <1>1, <1>2, <1>3, <1>4, <1>5, <1>6 DEF Next

LEMMA RowsStep ==
  ASSUME RowsOK, [Next]_vars
  PROVE  /\ RowsOK'
         /\ \A p \in Providers, column \in {"slug", "notice"} :
              rows'[p][column] # rows[p][column] =>
                \E i \in DOMAIN net : /\ net[i].phase = "admitted" /\ net[i].who = p
                                      /\ net[i].ask[column] = rows'[p][column]
<1>1. CASE UNCHANGED rows BY <1>1 DEF RowsOK
<1>2. ASSUME NEW i \in DOMAIN net, UpdateMe(i), rows' # rows
      PROVE  /\ RowsOK'
             /\ \A p \in Providers, column \in {"slug", "notice"} :
                  rows'[p][column] # rows[p][column] =>
                    /\ net[i].phase = "admitted" /\ net[i].who = p
                    /\ net[i].ask[column] = rows'[p][column]
  <2>1. PICK m : m = net[i] OBVIOUS
  <2>2. m.phase = "admitted" /\ rows' = [rows EXCEPT ![m.who] = Updated(rows[m.who], m.ask)]
    BY <1>2, <2>1 DEF UpdateMe
  <2>3. \A p \in Providers : rows'[p] = IF p = m.who THEN Updated(rows[p], m.ask) ELSE rows[p]
    BY <2>2 DEF RowsOK
  <2>4. rows' = [p \in Providers |-> rows'[p]] BY <2>2 DEF RowsOK
  <2>5. ASSUME NEW p \in Providers
        PROVE  rows'[p] = [slug |-> rows'[p].slug, notice |-> rows'[p].notice]
    BY <2>3 DEF RowsOK, Updated
  <2>6. ASSUME NEW p \in Providers, NEW column \in {"slug", "notice"},
               rows'[p][column] # rows[p][column]
        PROVE  m.who = p /\ m.ask[column] = rows'[p][column]
    <3>1. m.who = p /\ rows'[p] = Updated(rows[p], m.ask) BY <2>3, <2>6
    <3>2. CASE column = "slug" BY <2>6, <3>1, <3>2 DEF Updated
    <3>3. CASE column = "notice" BY <2>6, <3>1, <3>3 DEF Updated
    <3> QED BY <3>1, <3>2, <3>3
  <2> QED BY <2>1, <2>2, <2>4, <2>5, <2>6 DEF RowsOK
<1> QED BY <1>1, <1>2, RowsChangeInUpdateMe

\* Between the guard's look-up and the UPDATE of a save, cookies, sessions and
\* other saves change as they like: a column still changes only to what a save of
\* that provider carries.
THEOREM SavesAreTheirProviders == Spec => SavedByItsProvider
<1>1. Init => RowsOK
  BY ConsoleAssumption DEF Init, RowsOK
<1>2. RowsOK /\ [Next]_vars => RowsOK' BY RowsStep
<1>3. RowsOK /\ [Next]_vars =>
        [\A p \in Providers, column \in {"slug", "notice"} :
           rows'[p][column] # rows[p][column] =>
             \E i \in DOMAIN net : /\ net[i].phase = "admitted" /\ net[i].who = p
                                   /\ net[i].ask[column] = rows'[p][column]]_vars
  BY RowsStep
<1> QED BY <1>1, <1>2, <1>3, PTL DEF Spec, SavedByItsProvider
=============================================================================
