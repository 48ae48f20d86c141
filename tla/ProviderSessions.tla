-------------------------- MODULE ProviderSessions --------------------------
(***************************************************************************)
(* Who a request comes from: the cookies of one browser and the two tables *)
(* of sessions behind them.                                                *)
(*                                                                         *)
(* A provider's token is hashed with a fixed salt, an administrator's with *)
(* a salt drawn anew by every call; a client's cookie is the client's id   *)
(* and has no row behind it. Random values are numbers never drawn twice.  *)
(***************************************************************************)
EXTENDS Integers, FiniteSets

CONSTANTS
  Providers, Admins, Clients,
  Passwords,                \* what may be typed at a sign-in
  PasswordOf,               \* [Providers \cup Admins -> Passwords]
  Lifetime,                 \* a provider's and a client's session: 24 hours
  AdminLifetime,            \* an administrator's: 8 hours
  MaxNow, MaxIssued,        \* bounds: time, and random values kept
  None

ASSUME SessionsAssumption ==
  /\ {Lifetime, AdminLifetime, MaxNow, MaxIssued} \subseteq Nat
  /\ None \notin Providers \cup Admins \cup Clients

VARIABLES
  now,
  issued,         \* the random values drawn and kept so far are 1 .. issued
  jar,            \* the browser's cookies
  sessions,       \* table provider_sessions
  adminSessions,  \* table admin_sessions
  logins,         \* history: the provider sessions opened, with their tokens
  ended,          \* history: the tokens whose sign-out deleted the row
  refused         \* history: the cookies AdminAuthGuard turned away, and when

sessionVars ==
  <<now, issued, jar, sessions, adminSessions, logins, ended, refused>>

Raw(n) == [coding |-> "base64", token |-> n]
\* res.cookie() escapes the + / = of base64.
Encoded(n) == [coding |-> "uri", token |-> n]
Decoded(cookie) == [cookie EXCEPT !.coding = "base64"]

NoCookie == [value |-> None, until |-> 0]
Holding(value, lifetime) == [value |-> value, until |-> now + lifetime]

\* What a request carries: a browser drops a cookie at its maxAge.
Cookie(name) == IF jar[name].until > now THEN jar[name].value ELSE None

(***************************************************************************)
(* Passwords                                                               *)
(***************************************************************************)
Scrypt(secret, salt) == [salt |-> salt, of |-> secret]
VerifyPassword(typed, encoded) == Scrypt(typed, encoded.salt) = encoded

\* hashPassword, run when the account was made; its salt names the account.
StoredPassword(who) == Scrypt(PasswordOf[who], who)

(***************************************************************************)
(* Provider sessions                                                       *)
(***************************************************************************)
ProviderHash(token) == Scrypt(token, 0)

Live(hash) == {s \in sessions : s.hash = hash /\ s.expires > now}

FindProviderByTokenHash(hash) ==
  IF Live(hash) = {} THEN None ELSE (CHOOSE s \in Live(hash) : TRUE).provider

\* ProviderAuthGuard: the provider a cookie stands for, None for a 401.
Guard(cookie) ==
  IF cookie = None THEN None
  ELSE FindProviderByTokenHash(ProviderHash(Decoded(cookie)))

\* The row is stored before the answer, and the answer may not arrive.
ProviderLogin(p, typed, heard) ==
  /\ issued < MaxIssued
  /\ VerifyPassword(typed, StoredPassword(p))
  /\ issued' = issued + 1
  /\ sessions' = sessions \cup {[hash |-> ProviderHash(Raw(issued')),
                                 provider |-> p, expires |-> now + Lifetime]}
  /\ logins' = logins \cup {[token |-> issued', provider |-> p, at |-> now]}
  /\ jar' = IF heard THEN [jar EXCEPT !.provider = Holding(Encoded(issued'), Lifetime)]
                     ELSE jar
  /\ UNCHANGED <<now, adminSessions, ended, refused>>

RevokedUndecoded(cookie) ==
  {s \in sessions : s.hash = ProviderHash(cookie)}  \* mutant: the cookie is hashed as it came
Revoked(cookie) == {s \in sessions : s.hash = ProviderHash(Decoded(cookie))}

\* A revocation that fails is ignored: the cookie is cleared all the same.
ProviderLogout(works, heard) ==
  LET cookie == Cookie("provider")
      revoked == works /\ cookie # None
  IN /\ sessions' = IF revoked THEN sessions \ Revoked(cookie) ELSE sessions
     /\ ended' = IF revoked THEN ended \cup {cookie.token} ELSE ended
     /\ jar' = IF heard THEN [jar EXCEPT !.provider = NoCookie] ELSE jar
     /\ UNCHANGED <<now, issued, adminSessions, logins, refused>>

(***************************************************************************)
(* Administrator sessions                                                  *)
(***************************************************************************)
AdminHash(token, salt) == Scrypt(token, salt)

\* findByToken hashes with a salt of its own, which is kept nowhere.
FindByToken(cookie) ==
  {s \in adminSessions : s.hash = AdminHash(cookie, issued + 1)}

AdminLogin(a, typed) ==
  /\ issued + 1 < MaxIssued
  /\ VerifyPassword(typed, StoredPassword(a))
  /\ issued' = issued + 2
  /\ adminSessions' = adminSessions \cup
       {[hash |-> AdminHash(Raw(issued + 1), issued'),
         admin |-> a, expires |-> now + AdminLifetime]}
  /\ jar' = [jar EXCEPT !.admin = Holding(Encoded(issued + 1), AdminLifetime)]
  /\ UNCHANGED <<now, sessions, logins, ended, refused>>

\* AdminAuthGuard, which hashes the cookie as it came, and behind it GET
\* /admin/status or, leaving, POST /admin/logout.
AdminRequest(leaving) ==
  LET cookie == Cookie("admin")
      found == {s \in FindByToken(cookie) : now <= s.expires}
  IN /\ cookie # None
     /\ adminSessions' = IF leaving THEN adminSessions \ found ELSE adminSessions
     /\ refused' = IF found # {} THEN refused
                   ELSE refused \cup {[token |-> cookie.token, at |-> now]}
     /\ UNCHANGED <<now, issued, jar, sessions, logins, ended>>

\* POST /auth/admin/logout, which has no guard.
AdminLogout ==
  /\ Cookie("admin") # None
  /\ adminSessions' = adminSessions \ FindByToken(Cookie("admin"))
  /\ jar' = [jar EXCEPT !.admin = NoCookie]
  /\ UNCHANGED <<now, issued, sessions, logins, ended, refused>>

(***************************************************************************)
(* Client sign-in: an address is enough, and the cookie is the id.         *)
(***************************************************************************)
ClientLogin(c) ==
  /\ jar' = [jar EXCEPT !.client = Holding(c, Lifetime)]
  /\ UNCHANGED <<now, issued, sessions, adminSessions, logins, ended, refused>>

ClientLogout ==
  /\ jar' = [jar EXCEPT !.client = NoCookie]
  /\ UNCHANGED <<now, issued, sessions, adminSessions, logins, ended, refused>>

Tick ==
  /\ now < MaxNow
  /\ now' = now + 1
  /\ UNCHANGED <<issued, jar, sessions, adminSessions, logins, ended, refused>>

SessionInit ==
  /\ now = 0 /\ issued = 0
  /\ jar = [name \in {"client", "provider", "admin"} |-> NoCookie]
  /\ sessions = {} /\ adminSessions = {}
  /\ logins = {} /\ ended = {} /\ refused = {}

SessionNext ==
  \/ \E p \in Providers, typed \in Passwords, heard \in BOOLEAN :
       ProviderLogin(p, typed, heard)
  \/ \E works, heard \in BOOLEAN : ProviderLogout(works, heard)
  \/ \E a \in Admins, typed \in Passwords : AdminLogin(a, typed)
  \/ \E leaving \in BOOLEAN : AdminRequest(leaving)
  \/ AdminLogout
  \/ \E c \in Clients : ClientLogin(c)
  \/ ClientLogout \/ Tick

SessionSpec == SessionInit /\ [][SessionNext]_sessionVars

(***************************************************************************)
(* Properties                                                              *)
(***************************************************************************)
\* A cookie stands for the provider who opened that session, for 24 hours and
\* not after a sign-out that reached the table, however many sessions of how
\* many providers one browser has opened, closed, or lost the answer of.
GuardIsVouched ==
  \A n \in 1 .. issued :
     LET p == Guard(Encoded(n))
     IN p # None => \E l \in logins : /\ l.token = n /\ l.provider = p
                                      /\ now < l.at + Lifetime
                                      /\ n \notin ended

\* What the repository says of the administrators' half (PHASE_6_ADMIN_AUTH_DESIGN.md:18,
\* PHASE_6_EVIDENCE.md:13): after POST /auth/admin/login, GET /admin/status answers
\* 200. No request is turned away with the cookie of a session that is stored and
\* has not expired.
SignedInAdminIsLetIn ==
  \A r \in refused, s \in adminSessions :
     s.hash.of.token = r.token => r.at > s.expires

\* Why it fails: no cookie finds a row, so every administrator is turned away and
\* no sign-out deletes anything.
AdminIsTurnedAway == \A n \in 1 .. issued : FindByToken(Encoded(n)) = {}
=============================================================================
