---------------------------- MODULE AuthSessions ----------------------------
(***************************************************************************)
(* internal/auth: the login with its per-address ban, the session tokens   *)
(* with their sliding expiry, the janitor goroutine, and the cookie the    *)
(* browser keeps (internal/api/auth.go).                                   *)
(*                                                                         *)
(* A client is one browser on one address. Each method of SessionStore is  *)
(* one critical section of SessionStore.mu, hence one action; a handler is *)
(* split between them. The janitor reads the clock before it locks. A      *)
(* login refused because of a ban, and a request without a cookie, change  *)
(* nothing and are left out.                                               *)
(***************************************************************************)
EXTENDS Naturals

CONSTANTS
    Clients, Handlers, Tokens,
    MaxFailures, BanTime, TTL,   \* maxFailures, banDuration, SessionTTL
    Horizon,                     \* the clock stops here
    None                         \* no token, no record, no time

ASSUME LimitAssumption ==
    MaxFailures \in Nat \ {0} /\ BanTime \in Nat /\ TTL \in Nat /\ Horizon \in Nat

VARIABLES
    now,        \* time.Now(); the zero time.Time is 0
    sessions,   \* token -> expiresAt, or None
    failures,   \* client -> [count, until], or None
    janitor,    \* the time purgeExpired read, while it waits for the lock
    jar,        \* client -> the cookie its browser keeps, with its Max-Age
    pc, job,    \* where each handler is; the client and the token of its request
    used,       \* history: token -> when it was issued or let a request through
    revoked,    \* history: tokens whose logout was carried out
    banEnd      \* history: client -> the end of its last ban

vars == <<now, sessions, failures, janitor, jar, pc, job, used, revoked, banEnd>>
history == <<used, revoked, banEnd>>

Records == [count: Nat, until: Nat]
NoRecord == [count |-> 0, until |-> 0]
Cookies == [token: Tokens, dies: Nat]
Jobs == [client: Clients \cup {None}, token: Tokens \cup {None}]
NoJob == [client |-> None, token |-> None]

ASSUME NoneAssumption == None \notin Nat \cup Tokens \cup Clients \cup Records \cup Cookies

TypeOK ==
    /\ now \in Nat
    /\ sessions \in [Tokens -> Nat \cup {None}]
    /\ failures \in [Clients -> Records \cup {None}]
    /\ janitor \in Nat \cup {None}
    /\ jar \in [Clients -> Cookies \cup {None}]
    /\ pc \in [Handlers -> {"idle", "accepted", "sent", "serving"}]
    /\ job \in [Handlers -> Jobs]
    /\ used \in [Tokens -> Nat \cup {None}]
    /\ revoked \subseteq Tokens
    /\ banEnd \in [Clients -> Nat]

Init ==
    /\ now = 1
    /\ sessions = [t \in Tokens |-> None]
    /\ failures = [c \in Clients |-> None]
    /\ janitor = None
    /\ jar = [c \in Clients |-> None]
    /\ pc = [h \in Handlers |-> "idle"]
    /\ job = [h \in Handlers |-> NoJob]
    /\ used = [t \in Tokens |-> None]
    /\ revoked = {}
    /\ banEnd = [c \in Clients |-> 0]

-----------------------------------------------------------------------------
Banned(c) == failures[c] # None /\ now < failures[c].until

Done(h) == /\ pc' = [pc EXCEPT ![h] = "idle"]
           /\ job' = [job EXCEPT ![h] = NoJob]

Tick ==
    /\ now < Horizon
    /\ now' = now + 1
    /\ UNCHANGED <<sessions, failures, janitor, jar, pc, job, history>>

\* Authenticate with a wrong password: the address is banned at the threshold.
WrongPassword(c) ==
    /\ ~Banned(c)
    /\ LET rec == IF failures[c] = None THEN NoRecord ELSE failures[c]
       IN IF rec.count + 1 >= MaxFailures
            THEN /\ failures' = [failures EXCEPT ![c] = [count |-> 0, until |-> now + BanTime]]
                 /\ banEnd' = [banEnd EXCEPT ![c] = now + BanTime]
            ELSE /\ failures' = [failures EXCEPT ![c] = [rec EXCEPT !.count = @ + 1]]
                 /\ UNCHANGED banEnd
    /\ UNCHANGED <<now, sessions, janitor, jar, pc, job, used, revoked>>

\* Authenticate with the right password.
RightPassword(h, c) ==
    /\ pc[h] = "idle"
    /\ ~Banned(c)
    /\ failures' = [failures EXCEPT ![c] = None]
    /\ pc' = [pc EXCEPT ![h] = "accepted"]
    /\ job' = [job EXCEPT ![h] = [client |-> c, token |-> None]]
    /\ UNCHANGED <<now, sessions, janitor, jar, history>>

\* Create draws a new token, and the response sets the cookie.
Create(h, t) ==
    /\ pc[h] = "accepted"
    /\ used[t] = None
    /\ sessions' = [sessions EXCEPT ![t] = now + TTL]
    /\ used' = [used EXCEPT ![t] = now]
    /\ jar' = [jar EXCEPT ![job[h].client] = [token |-> t, dies |-> now + TTL]]
    /\ Done(h)
    /\ UNCHANGED <<now, failures, janitor, revoked, banEnd>>

\* A request is on its way, with the cookie of the moment it was sent.
Request(h, c) ==
    /\ pc[h] = "idle"
    /\ jar[c] # None
    /\ pc' = [pc EXCEPT ![h] = "sent"]
    /\ job' = [job EXCEPT ![h] = [client |-> c, token |-> jar[c].token]]
    /\ UNCHANGED <<now, sessions, failures, janitor, jar, history>>

\* The session is renewed and the request let through.
Renew(h, t) ==
    /\ sessions' = [sessions EXCEPT ![t] = now + TTL]
    /\ used' = [used EXCEPT ![t] = now]
    /\ pc' = [pc EXCEPT ![h] = "serving"]
    /\ UNCHANGED <<now, failures, janitor, jar, job, revoked, banEnd>>

\* Variant: the session is renewed without looking whether it still exists.
ValidateBlindly(h) == pc[h] = "sent" /\ Renew(h, job[h].token)

\* Middleware: Validate the token of the cookie, and renew it; or answer 401.
Validate(h) ==
    /\ pc[h] = "sent"
    /\ LET t == job[h].token
       IN IF sessions[t] = None \/ now > sessions[t]
            THEN /\ sessions' = [sessions EXCEPT ![t] = None]
                 /\ Done(h)
                 /\ UNCHANGED <<now, failures, janitor, jar, history>>
            ELSE Renew(h, t)

\* The request is served.
Serve(h) ==
    /\ pc[h] = "serving"
    /\ Done(h)
    /\ UNCHANGED <<now, sessions, failures, janitor, jar, history>>

\* The request is a logout: Revoke, and the cookie is taken back.
Logout(h) ==
    /\ pc[h] = "serving"
    /\ sessions' = [sessions EXCEPT ![job[h].token] = None]
    /\ revoked' = revoked \cup {job[h].token}
    /\ jar' = [jar EXCEPT ![job[h].client] = None]
    /\ Done(h)
    /\ UNCHANGED <<now, failures, janitor, used, banEnd>>

\* The browser forgets a cookie at the end of its Max-Age.
CookieDies(c) ==
    /\ jar[c] # None
    /\ now >= jar[c].dies
    /\ jar' = [jar EXCEPT ![c] = None]
    /\ UNCHANGED <<now, sessions, failures, janitor, pc, job, history>>

\* purgeExpired: read the clock ...
PurgeBegins ==
    /\ janitor = None
    /\ janitor' = now
    /\ UNCHANGED <<now, sessions, failures, jar, pc, job, history>>

\* Variant: what ends right now is purged as well.
PurgeEarly ==
    /\ janitor # None
    /\ sessions' = [t \in Tokens |->
                      IF sessions[t] # None /\ janitor >= sessions[t] THEN None ELSE sessions[t]]
    /\ janitor' = None
    /\ UNCHANGED <<now, failures, jar, pc, job, history>>

\* Variant: every failure record goes.
PurgeBans ==
    /\ janitor # None
    /\ failures' = [c \in Clients |-> None]
    /\ janitor' = None
    /\ UNCHANGED <<now, sessions, jar, pc, job, history>>

\* ... and later, under the lock, drop what had expired by then. A record that
\* never led to a ban has the zero time for its end.
Purge ==
    /\ janitor # None
    /\ sessions' = [t \in Tokens |->
                      IF sessions[t] # None /\ janitor > sessions[t] THEN None ELSE sessions[t]]
    /\ failures' = [c \in Clients |->
                      IF failures[c] # None /\ janitor > failures[c].until
                        THEN None ELSE failures[c]]
    /\ janitor' = None
    /\ UNCHANGED <<now, jar, pc, job, history>>

-----------------------------------------------------------------------------
Next ==
    \/ Tick
    \/ \E c \in Clients : WrongPassword(c) \/ CookieDies(c)
    \/ \E h \in Handlers, c \in Clients : RightPassword(h, c) \/ Request(h, c)
    \/ \E h \in Handlers, t \in Tokens : Create(h, t)
    \/ \E h \in Handlers : Validate(h) \/ Serve(h) \/ Logout(h)
    \/ PurgeBegins \/ Purge

Spec == Init /\ [][Next]_vars

\* The ticker keeps firing and the janitor gets the lock.
FairSpec == Spec /\ WF_vars(PurgeBegins) /\ WF_vars(Purge)

-----------------------------------------------------------------------------
(* Properties *)

\* A token that was logged out is never accepted again, although requests that
\* carried it are still running and others arrive late.
LogoutIsFinal == \A t \in revoked : sessions[t] = None

\* Until it was idle for longer than SessionTTL a session is not lost: neither
\* Validate nor a janitor that read the clock long ago takes it.
ActiveSessionKept ==
    \A t \in Tokens : used[t] # None /\ t \notin revoked /\ now <= used[t] + TTL
                        => sessions[t] # None

\* And a request is let through only within SessionTTL of the one before it.
OnlyLiveSessions ==
    [][\A h \in Handlers :
         pc[h] = "sent" /\ pc'[h] = "serving" =>
           LET t == job'[h].token
           IN t \notin revoked /\ used[t] # None /\ now <= used[t] + TTL]_vars

\* Until its end a ban stays in force, whatever the janitor and other logins do:
\* no attempt of the address, right or wrong, is looked at.
BanHolds == \A c \in Clients : now < banEnd[c] => Banned(c)

\* A session that was not used in time is forgotten, used or not.
ExpiredForgotten ==
    \A t \in Tokens : (sessions[t] # None /\ now > sessions[t]) ~> sessions[t] = None

\* A browser is logged out after 24 hours of inactivity, or by a logout: it
\* does not lose the cookie of a session that was used within SessionTTL.
InactivityOnly ==
    [][\A c \in Clients :
         jar[c] # None /\ jar'[c] = None =>
           LET t == jar[c].token IN t \in revoked' \/ now >= used[t] + TTL]_vars

-----------------------------------------------------------------------------
(* The inductive invariant *)

\* Tokens that are in use anywhere were issued.
JobOK ==
    /\ \A h \in Handlers : pc[h] = "accepted" => job[h].client \in Clients
    /\ \A h \in Handlers : pc[h] \in {"sent", "serving"} =>
         job[h].client \in Clients /\ job[h].token \in Tokens /\ used[job[h].token] # None
    /\ \A c \in Clients : jar[c] # None => used[jar[c].token] # None
    /\ \A t \in revoked : used[t] # None

\* The clock of the janitor is not ahead, and a session ends SessionTTL after
\* its last use.
ClockOK ==
    /\ janitor # None => janitor <= now
    /\ \A t \in Tokens : sessions[t] # None => used[t] # None /\ sessions[t] = used[t] + TTL

BanOK == \A c \in Clients : now < banEnd[c] => failures[c] # None /\ failures[c].until = banEnd[c]

Inv == TypeOK /\ JobOK /\ ClockOK /\ BanOK /\ LogoutIsFinal /\ ActiveSessionKept
=============================================================================
