---------------------- MODULE ProviderSessionsProofs ----------------------
(***************************************************************************)
(* Proofs about ProviderSessions: a cookie stands for the provider who     *)
(* opened its session and for nobody once it has ended, and no administra- *)
(* tor is let in, for any users, lifetimes and number of sessions.         *)
(***************************************************************************)
EXTENDS ProviderSessions, TLAPS

Drawn(n) == n \in Int /\ 1 <= n /\ n <= issued

NumbersOK ==
  /\ now \in Int /\ issued \in Int /\ 0 <= issued
  /\ \A l \in logins : Drawn(l.token)
  /\ \A t \in ended : Drawn(t)

\* A cookie is empty or a number drawn, encoded.
CookieOK(cookie) == cookie = None \/ \E n \in Int : Drawn(n) /\ cookie = Encoded(n)
JarOK ==
  /\ jar = [client |-> jar.client, provider |-> jar.provider, admin |-> jar.admin]
  /\ CookieOK(jar.provider.value) /\ CookieOK(jar.admin.value)

\* A row of provider_sessions is what a sign-in stored and no sign-out deleted.
VouchedBy(s, l) ==
  /\ s.hash = ProviderHash(Raw(l.token))
  /\ s.provider = l.provider
  /\ s.expires = l.at + Lifetime
  /\ l.token \notin ended
RowsVouched == \A s \in sessions : \E l \in logins : VouchedBy(s, l)

\* The salt of an administrator's row has been drawn before.
SaltsDrawn == \A s \in adminSessions : Drawn(s.hash.salt)

SessionInv == NumbersOK /\ JarOK /\ RowsVouched /\ SaltsDrawn

\* Two tokens with the same hash are the same token.
LEMMA HashIsInjective ==
  ASSUME NEW m, NEW n, ProviderHash(Raw(m)) = ProviderHash(Raw(n))
  PROVE  m = n
<1>1. ProviderHash(Raw(m)).of = ProviderHash(Raw(n)).of OBVIOUS
<1>2. Raw(m) = Raw(n) BY <1>1 DEF ProviderHash, Scrypt
<1>3. Raw(m).token = Raw(n).token BY <1>2
<1> QED BY <1>3 DEF Raw

LEMMA DecodedIsRaw ==
  ASSUME NEW n PROVE Decoded(Encoded(n)) = Raw(n) /\ Encoded(n).token = n
BY DEF Decoded, Encoded, Raw

\* A salt drawn for the occasion finds no row.
LEMMA FindByTokenFindsNothing ==
  ASSUME NumbersOK, SaltsDrawn, NEW cookie
  PROVE  FindByToken(cookie) = {}
<1>1. SUFFICES ASSUME NEW s \in FindByToken(cookie) PROVE FALSE OBVIOUS
<1>2. s \in adminSessions /\ s.hash = AdminHash(cookie, issued + 1)
  BY <1>1 DEF FindByToken
<1>3. s.hash.salt = issued + 1 BY <1>2 DEF AdminHash, Scrypt
<1>4. Drawn(s.hash.salt) BY <1>2 DEF SaltsDrawn
<1> QED BY <1>3, <1>4 DEF Drawn, NumbersOK

\* k is issued + 1 under a name that priming leaves alone.
LEMMA SignInKeeps ==
  ASSUME SessionInv, NEW p, NEW typed, NEW heard, ProviderLogin(p, typed, heard)
  PROVE  SessionInv'
<1>1. PICK k \in Int : k = issued + 1 BY DEF SessionInv, NumbersOK
<1>2. PICK row : row = [hash |-> ProviderHash(Raw(k)), provider |-> p, expires |-> now + Lifetime]
  OBVIOUS
<1>3. PICK login : login = [token |-> k, provider |-> p, at |-> now] OBVIOUS
<1>4. /\ issued' = k /\ now' = now /\ ended' = ended
      /\ sessions' = sessions \cup {row} /\ logins' = logins \cup {login}
      /\ adminSessions' = adminSessions
      /\ jar' = jar \/ jar' = [jar EXCEPT !.provider = Holding(Encoded(k), Lifetime)]
  BY <1>1, <1>2, <1>3 DEF ProviderLogin
<1>5. \A n : Drawn(n) => Drawn(n)' BY <1>1, <1>4 DEF SessionInv, NumbersOK, Drawn
<1>6. Drawn(k)' BY <1>1, <1>4 DEF SessionInv, NumbersOK, Drawn
<1>7. NumbersOK'
  <2>1. login.token = k BY <1>3
  <2>2. \A l \in logins' : Drawn(l.token)' BY <1>4, <1>5, <1>6, <2>1 DEF SessionInv, NumbersOK
  <2> QED BY <1>1, <1>4, <1>5, <2>2 DEF SessionInv, NumbersOK
<1>8. JarOK'
  <2>1. \A c : CookieOK(c) => CookieOK(c)' BY <1>5 DEF CookieOK
  <2>2. CookieOK(Encoded(k))' BY <1>6 DEF CookieOK, Drawn
  <2>3. CASE jar' = jar BY <2>1, <2>3 DEF SessionInv, JarOK
  <2>4. CASE jar' = [jar EXCEPT !.provider = Holding(Encoded(k), Lifetime)]
    <3>1. jar'.provider.value = Encoded(k) /\ jar'.admin = jar.admin
      BY <2>4 DEF SessionInv, JarOK, Holding
    <3>2. jar' = [client |-> jar'.client, provider |-> jar'.provider, admin |-> jar'.admin]
      BY <2>4 DEF SessionInv, JarOK
    <3>3. CookieOK(jar.admin.value) BY DEF SessionInv, JarOK
    <3> QED BY <2>1, <2>2, <3>1, <3>2, <3>3 DEF JarOK
  <2> QED BY <1>4, <2>3, <2>4
<1>9. RowsVouched'
  <2>1. ASSUME NEW s \in sessions PROVE \E l \in logins' : VouchedBy(s, l)'
    BY <1>4, <2>1 DEF SessionInv, RowsVouched, VouchedBy
  <2>2. k \notin ended BY <1>1 DEF SessionInv, NumbersOK, Drawn
  <2>3. /\ row.hash = ProviderHash(Raw(k)) /\ row.provider = p /\ row.expires = now + Lifetime
        /\ login.token = k /\ login.provider = p /\ login.at = now
    BY <1>2, <1>3
  <2>4. VouchedBy(row, login)' BY <1>4, <2>2, <2>3 DEF VouchedBy
  <2> QED BY <1>4, <2>1, <2>4 DEF RowsVouched
<1>10. SaltsDrawn' BY <1>4, <1>5 DEF SessionInv, SaltsDrawn
<1> QED BY <1>4, <1>7, <1>8, <1>9, <1>10 DEF SessionInv

LEMMA SignOutKeeps ==
  ASSUME SessionInv, NEW works, NEW heard, ProviderLogout(works, heard)
  PROVE  SessionInv'
<1>1. /\ issued' = issued /\ now' = now /\ logins' = logins
      /\ adminSessions' = adminSessions
      /\ jar' = jar \/ jar' = [jar EXCEPT !.provider = NoCookie]
  BY DEF ProviderLogout
<1>2. \A n : Drawn(n)' <=> Drawn(n) BY <1>1 DEF Drawn
<1>3. JarOK'
  <2>1. \A c : CookieOK(c) => CookieOK(c)' BY <1>2 DEF CookieOK
  <2>2. CASE jar' = jar BY <2>1, <2>2 DEF SessionInv, JarOK
  <2>3. CASE jar' = [jar EXCEPT !.provider = NoCookie]
    <3>1. jar'.provider.value = None /\ jar'.admin = jar.admin
      BY <2>3 DEF SessionInv, JarOK, NoCookie
    <3>2. jar' = [client |-> jar'.client, provider |-> jar'.provider, admin |-> jar'.admin]
      BY <2>3 DEF SessionInv, JarOK
    <3> QED BY <2>1, <3>1, <3>2 DEF SessionInv, JarOK, CookieOK
  <2> QED BY <1>1, <2>2, <2>3
<1>4. SaltsDrawn' BY <1>1, <1>2 DEF SessionInv, SaltsDrawn
<1>5. NumbersOK' /\ RowsVouched'
  <2> DEFINE cookie == Cookie("provider")
  <2>1. CASE sessions' = sessions /\ ended' = ended
    BY <1>1, <1>2, <2>1 DEF SessionInv, NumbersOK, RowsVouched, VouchedBy
  <2>2. CASE /\ cookie # None /\ sessions' = sessions \ Revoked(cookie)
             /\ ended' = ended \cup {cookie.token}
    <3>1. PICK n \in Int : Drawn(n) /\ cookie = Encoded(n)
      BY <2>2 DEF SessionInv, JarOK, Cookie, CookieOK
    <3>2. cookie.token = n /\ Revoked(cookie) = {s \in sessions : s.hash = ProviderHash(Raw(n))}
      BY <3>1, DecodedIsRaw DEF Revoked
    <3>3. NumbersOK' BY <1>1, <1>2, <2>2, <3>1, <3>2 DEF SessionInv, NumbersOK
    <3>4. ASSUME NEW s \in sessions' PROVE \E l \in logins' : VouchedBy(s, l)'
      <4>1. s \in sessions /\ s.hash # ProviderHash(Raw(n)) BY <2>2, <3>2, <3>4
      <4>2. PICK l \in logins : VouchedBy(s, l) BY <4>1 DEF SessionInv, RowsVouched
      <4>3. l.token # n BY <4>1, <4>2 DEF VouchedBy
      <4> QED BY <1>1, <2>2, <3>2, <4>2, <4>3 DEF VouchedBy
    <3> QED BY <3>3, <3>4 DEF RowsVouched
  <2> QED BY <2>1, <2>2 DEF ProviderLogout
<1> QED BY <1>1, <1>3, <1>4, <1>5 DEF SessionInv

LEMMA AdminSignInKeeps ==
  ASSUME SessionInv, NEW a, NEW typed, AdminLogin(a, typed)
  PROVE  SessionInv'
<1>1. PICK k \in Int : k = issued + 1 BY DEF SessionInv, NumbersOK
<1>2. PICK row : row = [hash |-> AdminHash(Raw(k), k + 1),
                        admin |-> a, expires |-> now + AdminLifetime]
  OBVIOUS
<1>3. /\ issued' = k + 1 /\ now' = now /\ logins' = logins /\ ended' = ended
      /\ sessions' = sessions
      /\ adminSessions' = adminSessions \cup {row}
      /\ jar' = [jar EXCEPT !.admin = Holding(Encoded(k), AdminLifetime)]
  <2>1. issued + 2 = k + 1 BY <1>1 DEF SessionInv, NumbersOK
  <2> QED BY <1>1, <1>2, <2>1 DEF AdminLogin
<1>4. \A n : Drawn(n) => Drawn(n)' BY <1>1, <1>3 DEF SessionInv, NumbersOK, Drawn
<1>5. Drawn(k)' /\ Drawn(k + 1)' BY <1>1, <1>3 DEF SessionInv, NumbersOK, Drawn
<1>6. NumbersOK'
  BY <1>1, <1>3, <1>4 DEF SessionInv, NumbersOK
<1>7. JarOK'
  <2>1. \A c : CookieOK(c) => CookieOK(c)' BY <1>4 DEF CookieOK
  <2>2. CookieOK(Encoded(k))' BY <1>5 DEF CookieOK
  <2>3. jar'.admin.value = Encoded(k) /\ jar'.provider = jar.provider
    BY <1>3 DEF SessionInv, JarOK, Holding
  <2>4. jar' = [client |-> jar'.client, provider |-> jar'.provider, admin |-> jar'.admin]
    BY <1>3 DEF SessionInv, JarOK
  <2>5. CookieOK(jar.provider.value) BY DEF SessionInv, JarOK
  <2> QED BY <2>1, <2>2, <2>3, <2>4, <2>5 DEF JarOK
<1>8. RowsVouched' BY <1>3 DEF SessionInv, RowsVouched, VouchedBy
<1>9. SaltsDrawn'
  <2>1. row.hash.salt = k + 1 BY <1>2 DEF AdminHash, Scrypt
  <2> QED BY <1>3, <1>4, <1>5, <2>1 DEF SessionInv, SaltsDrawn
<1> QED BY <1>3, <1>6, <1>7, <1>8, <1>9 DEF SessionInv

LEMMA StutterKeeps ==
  ASSUME SessionInv, UNCHANGED <<issued, sessions, adminSessions, logins, ended>>,
         now' \in Int, JarOK'
  PROVE  SessionInv'
BY DEF SessionInv, NumbersOK, RowsVouched, VouchedBy, SaltsDrawn, Drawn

\* The requests of administrators find no row, so they change no table.
LEMMA AdminRequestKeeps ==
  ASSUME SessionInv, NEW leaving, AdminRequest(leaving)
  PROVE  SessionInv'
<1>1. FindByToken(Cookie("admin")) = {} BY FindByTokenFindsNothing DEF SessionInv
<1>2. UNCHANGED <<now, issued, jar, sessions, adminSessions, logins, ended>>
  BY <1>1 DEF AdminRequest
<1>3. JarOK' BY <1>2 DEF SessionInv, JarOK, CookieOK, Drawn
<1> QED BY <1>2, <1>3, StutterKeeps DEF SessionInv, NumbersOK

\* The parts of the jar that the other requests change.
LEMMA OtherCookiesKeep ==
  ASSUME SessionInv, UNCHANGED <<now, issued, sessions, logins, ended>>,
         adminSessions' = adminSessions,
         NEW name \in {"client", "admin"}, NEW cookie,
         jar' = [jar EXCEPT ![name] = cookie],
         name = "admin" => cookie = NoCookie
  PROVE  SessionInv'
<1>1. jar' = [client |-> jar'.client, provider |-> jar'.provider, admin |-> jar'.admin]
  BY DEF SessionInv, JarOK
<1>2. \A c : CookieOK(c) => CookieOK(c)' BY DEF CookieOK, Drawn
<1>3. jar'.provider = jar.provider BY DEF SessionInv, JarOK
<1>4. jar'.admin = jar.admin \/ jar'.admin = NoCookie BY DEF SessionInv, JarOK
<1>5. CookieOK(NoCookie.value)' BY DEF CookieOK, NoCookie
<1>6. JarOK' BY <1>1, <1>2, <1>3, <1>4, <1>5 DEF SessionInv, JarOK
<1> QED BY <1>6, StutterKeeps DEF SessionInv, NumbersOK

LEMMA SessionInitHolds == SessionInit => SessionInv
<1> SUFFICES ASSUME SessionInit PROVE SessionInv OBVIOUS
<1>1. jar.provider = NoCookie /\ jar.admin = NoCookie
      /\ jar = [client |-> jar.client, provider |-> jar.provider, admin |-> jar.admin]
  BY DEF SessionInit
<1>2. JarOK BY <1>1 DEF JarOK, CookieOK, NoCookie
<1> QED BY <1>2 DEF SessionInit, SessionInv, NumbersOK, RowsVouched, SaltsDrawn

LEMMA SessionStepKeeps ==
  ASSUME SessionInv, [SessionNext]_sessionVars
  PROVE  SessionInv'
<1>1. CASE UNCHANGED sessionVars
  BY <1>1 DEF sessionVars, SessionInv, NumbersOK, JarOK, CookieOK, RowsVouched, VouchedBy,
              SaltsDrawn, Drawn
<1>2. ASSUME NEW p \in Providers, NEW typed \in Passwords, NEW heard \in BOOLEAN,
             ProviderLogin(p, typed, heard)
      PROVE  SessionInv'
  BY <1>2, SignInKeeps
<1>3. ASSUME NEW works \in BOOLEAN, NEW heard \in BOOLEAN, ProviderLogout(works, heard)
      PROVE  SessionInv'
  BY <1>3, SignOutKeeps
<1>4. ASSUME NEW a \in Admins, NEW typed \in Passwords, AdminLogin(a, typed)
      PROVE  SessionInv'
  BY <1>4, AdminSignInKeeps
<1>5. ASSUME NEW leaving \in BOOLEAN, AdminRequest(leaving) PROVE SessionInv'
  BY <1>5, AdminRequestKeeps
<1>6. CASE AdminLogout
  <2>1. adminSessions' = adminSessions
    BY <1>6, FindByTokenFindsNothing DEF AdminLogout, SessionInv
  <2> QED BY <1>6, <2>1, OtherCookiesKeep DEF AdminLogout
<1>7. ASSUME NEW c \in Clients, ClientLogin(c) PROVE SessionInv'
  BY <1>7, OtherCookiesKeep DEF ClientLogin
<1>8. CASE ClientLogout BY <1>8, OtherCookiesKeep DEF ClientLogout
<1>9. CASE Tick
  <2>1. \A c : CookieOK(c) => CookieOK(c)' BY <1>9 DEF Tick, CookieOK, Drawn
  <2>2. JarOK' BY <1>9, <2>1 DEF Tick, SessionInv, JarOK
  <2> QED BY <1>9, <2>2, StutterKeeps DEF Tick, SessionInv, NumbersOK
<1> QED BY <1>1, <1>2, <1>3, <1>4, <1>5, <1>6, <1>7, <1>8, <1>9 DEF SessionNext

LEMMA InvVouches == SessionInv => GuardIsVouched
<1> SUFFICES ASSUME SessionInv, NEW n \in 1 .. issued, Guard(Encoded(n)) # None
             PROVE  \E l \in logins : /\ l.token = n /\ l.provider = Guard(Encoded(n))
                                      /\ now < l.at + Lifetime /\ n \notin ended
  BY DEF GuardIsVouched
<1> DEFINE hash == ProviderHash(Raw(n))
           found == CHOOSE s \in Live(hash) : TRUE
<1>1. Guard(Encoded(n)) = FindProviderByTokenHash(hash) BY DecodedIsRaw DEF Guard
<1>2. Live(hash) # {} /\ Guard(Encoded(n)) = found.provider
  BY <1>1 DEF FindProviderByTokenHash
<1>3. found \in Live(hash) BY <1>2
<1>4. found \in sessions /\ found.hash = hash /\ found.expires > now BY <1>3 DEF Live
<1>5. PICK l \in logins : VouchedBy(found, l) BY <1>4 DEF SessionInv, RowsVouched
<1>6. l.token = n BY <1>4, <1>5, HashIsInjective DEF VouchedBy
<1>7. now < l.at + Lifetime BY <1>4, <1>5 DEF VouchedBy
<1> QED BY <1>2, <1>5, <1>6, <1>7 DEF VouchedBy

\* However many sessions of however many providers a browser opens, closes or
\* loses the answer of, the guard of the API takes a cookie for the provider who
\* opened that session, before it expires and before it is revoked.
THEOREM CookiesAreVouched == SessionSpec => []GuardIsVouched
<1>1. SessionSpec => []SessionInv
  BY SessionInitHolds, SessionStepKeeps, PTL DEF SessionSpec
<1> QED BY <1>1, InvVouches, PTL

\* Hashing with a salt of its own finds no row for any cookie the browser may hold:
\* AdminAuthGuard lets nobody in, and no sign-out of an administrator deletes a row.
THEOREM AdminsAreTurnedAway == SessionSpec => []AdminIsTurnedAway
<1>1. SessionSpec => []SessionInv
  BY SessionInitHolds, SessionStepKeeps, PTL DEF SessionSpec
<1>2. SessionInv => AdminIsTurnedAway
  BY FindByTokenFindsNothing DEF SessionInv, AdminIsTurnedAway
<1> QED BY <1>1, <1>2, PTL
=============================================================================
