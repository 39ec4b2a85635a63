------------------------- MODULE AuthSessionsProofs -------------------------
(***************************************************************************)
(* For any number of clients, handlers and tokens, any limits and any      *)
(* clock: logout is final, a session in use is kept, and a ban holds to    *)
(* its end.                                                                *)
(***************************************************************************)
EXTENDS AuthSessions, TLAPS

USE LimitAssumption, NoneAssumption

USE DEF Jobs, NoJob, Records, NoRecord, Cookies, history

\* At first nobody is logged in and nobody is banned.
LEMMA InitInv == Init => Inv
  BY DEF Init, Inv, TypeOK, JobOK, ClockOK, BanOK, LogoutIsFinal, ActiveSessionKept

\* Time passes: what is live may become expired, never the other way.
LEMMA TickKeeps == ASSUME Inv, Tick PROVE Inv'
  BY DEF Tick, Inv, TypeOK, JobOK, ClockOK, BanOK, LogoutIsFinal, ActiveSessionKept

\* A login attempt is only looked at when the address is not banned.
LEMMA PasswordKeeps ==
    ASSUME Inv, NEW c \in Clients,
           WrongPassword(c) \/ \E h \in Handlers : RightPassword(h, c)
    PROVE  Inv'
<1>1. CASE WrongPassword(c)
  <2> DEFINE rec == IF failures[c] = None THEN NoRecord ELSE failures[c]
  <2>1. rec \in Records
    BY DEF Inv, TypeOK
  <2>2. TypeOK'
    BY <1>1, <2>1 DEF WrongPassword, Inv, TypeOK
  <2>3. BanOK'
    <3>1. ~(now < banEnd[c])
      BY <1>1 DEF WrongPassword, Banned, Inv, BanOK
    <3>2. CASE rec.count + 1 >= MaxFailures
      <4>1. /\ failures' = [failures EXCEPT ![c] = [count |-> 0, until |-> now + BanTime]]
            /\ banEnd' = [banEnd EXCEPT ![c] = now + BanTime]
            /\ now' = now
        BY <1>1, <3>2 DEF WrongPassword
      <4>2. failures'[c] # None /\ failures'[c].until = banEnd'[c]
        BY <2>2, <4>1 DEF Inv, TypeOK
      <4>3. \A d \in Clients \ {c} : failures'[d] = failures[d] /\ banEnd'[d] = banEnd[d]
        BY <4>1 DEF Inv, TypeOK
      <4> QED
        BY <4>1, <4>2, <4>3 DEF Inv, BanOK
    <3>3. CASE ~(rec.count + 1 >= MaxFailures)
      BY <1>1, <2>1, <3>1, <3>3 DEF WrongPassword, Inv, TypeOK, BanOK
    <3> QED
      BY <3>2, <3>3
  <2> QED
    BY <1>1, <2>2, <2>3 DEF WrongPassword, Inv, JobOK, ClockOK, LogoutIsFinal, ActiveSessionKept
<1>2. ASSUME NEW h \in Handlers, RightPassword(h, c) PROVE Inv'
  <2>1. TypeOK'
    BY <1>2 DEF RightPassword, Inv, TypeOK
  <2>2. BanOK'
    BY <1>2 DEF RightPassword, Banned, Inv, TypeOK, BanOK
  <2>3. JobOK'
    BY <1>2 DEF RightPassword, Inv, TypeOK, JobOK
  <2> QED
    BY <1>2, <2>1, <2>2, <2>3 DEF RightPassword, Inv, ClockOK, LogoutIsFinal, ActiveSessionKept
<1> QED
  BY <1>1, <1>2

\* A token is new when it is issued.
LEMMA CreateKeeps == ASSUME Inv, NEW h \in Handlers, NEW t \in Tokens, Create(h, t) PROVE Inv'
<1> USE DEF Create, Done, Inv
<1>1. job[h].client \in Clients
  BY DEF JobOK
<1>2. TypeOK'
  BY <1>1 DEF TypeOK
<1>3. JobOK'
  BY <1>1 DEF TypeOK, JobOK
<1>4. ClockOK' /\ BanOK'
  BY DEF TypeOK, ClockOK, BanOK
<1>5. LogoutIsFinal' /\ ActiveSessionKept'
  BY DEF TypeOK, JobOK, LogoutIsFinal, ActiveSessionKept
<1> QED
  BY <1>2, <1>3, <1>4, <1>5

\* A request carries a token that was issued.
LEMMA RequestKeeps == ASSUME Inv, NEW h \in Handlers, NEW c \in Clients, Request(h, c) PROVE Inv'
<1> DEFINE j == [client |-> c, token |-> jar[c].token]
<1>1. j \in Jobs /\ j.client = c /\ j.token \in Tokens /\ used[j.token] # None
  BY DEF Inv, TypeOK, JobOK, Jobs, Cookies, Request
<1> HIDE DEF j
<1>2. /\ pc' = [pc EXCEPT ![h] = "sent"] /\ job' = [job EXCEPT ![h] = j]
      /\ UNCHANGED <<now, sessions, failures, janitor, jar, history>>
  BY DEF Request, j
<1> USE <1>1, <1>2 DEF Inv, history
<1>3. TypeOK'
  BY DEF TypeOK
<1>4. JobOK'
  BY DEF TypeOK, JobOK
<1>5. ClockOK' /\ BanOK' /\ LogoutIsFinal' /\ ActiveSessionKept'
  BY DEF ClockOK, BanOK, LogoutIsFinal, ActiveSessionKept
<1> QED
  BY <1>3, <1>4, <1>5

\* Validate renews a session that exists, under the lock it looked it up with.
LEMMA ValidateKeeps == ASSUME Inv, NEW h \in Handlers, Validate(h) PROVE Inv'
<1> DEFINE t == job[h].token
<1>1. pc[h] = "sent" /\ t \in Tokens /\ used[t] # None
  BY DEF Inv, JobOK, Validate
<1>2. UNCHANGED <<now, failures, janitor, jar, revoked, banEnd>>
  BY DEF Validate, Renew, history
<1>3. now \in Nat /\ now + TTL \in Nat
  BY LimitAssumption DEF Inv, TypeOK
<1>4. CASE /\ sessions[t] = None \/ now > sessions[t]
           /\ sessions' = [sessions EXCEPT ![t] = None] /\ UNCHANGED used /\ Done(h)
  <2> HIDE DEF t
  <2> USE <1>1, <1>2, <1>3, <1>4 DEF Inv
  <2>1. TypeOK' /\ JobOK'
    BY DEF TypeOK, JobOK, Done
  <2>2. ClockOK' /\ BanOK' /\ LogoutIsFinal' /\ ActiveSessionKept'
    BY DEF TypeOK, ClockOK, BanOK, LogoutIsFinal, ActiveSessionKept
  <2> QED
    BY <2>1, <2>2
<1>5. CASE /\ ~(sessions[t] = None \/ now > sessions[t])
           /\ sessions' = [sessions EXCEPT ![t] = now + TTL] /\ used' = [used EXCEPT ![t] = now]
           /\ pc' = [pc EXCEPT ![h] = "serving"] /\ UNCHANGED job
  <2> HIDE DEF t, Jobs
  <2> USE <1>1, <1>2, <1>3, <1>5 DEF Inv
  <2>1. TypeOK'
    BY DEF TypeOK
  <2>2. JobOK'
    BY DEF TypeOK, JobOK
  <2>3. ClockOK' /\ BanOK' /\ LogoutIsFinal' /\ ActiveSessionKept'
    BY DEF TypeOK, ClockOK, BanOK, LogoutIsFinal, ActiveSessionKept
  <2> QED
    BY <2>1, <2>2, <2>3
<1> QED
  BY <1>4, <1>5 DEF Validate, Renew, history

\* Serving, logging out, and a cookie that ends.
LEMMA ServeKeeps ==
    ASSUME Inv, \/ \E h \in Handlers : Serve(h) \/ Logout(h)
                \/ \E c \in Clients : CookieDies(c)
    PROVE  Inv'
<1> USE DEF Serve, Logout, CookieDies, Done, Inv
<1>1. TypeOK'
  <2>1. ASSUME NEW h \in Handlers, Serve(h) PROVE TypeOK'
    BY <2>1 DEF TypeOK
  <2>2. ASSUME NEW h \in Handlers, Logout(h) PROVE TypeOK'
    <3>1. job[h].token \in Tokens /\ job[h].client \in Clients
      BY <2>2 DEF JobOK
    <3> QED
      BY <2>2, <3>1 DEF TypeOK
  <2>3. ASSUME NEW c \in Clients, CookieDies(c) PROVE TypeOK'
    BY <2>3 DEF TypeOK
  <2> QED
    BY <2>1, <2>2, <2>3
<1>2. JobOK'
  <2>1. ASSUME NEW h \in Handlers, Serve(h) PROVE JobOK'
    BY <2>1 DEF TypeOK, JobOK
  <2>2. ASSUME NEW h \in Handlers, Logout(h) PROVE JobOK'
    BY <2>2 DEF TypeOK, JobOK
  <2>3. ASSUME NEW c \in Clients, CookieDies(c) PROVE JobOK'
    BY <2>3 DEF TypeOK, JobOK
  <2> QED
    BY <2>1, <2>2, <2>3
<1>3. ClockOK' /\ BanOK'
  BY DEF TypeOK, ClockOK, BanOK, JobOK
<1>4. LogoutIsFinal' /\ ActiveSessionKept'
  BY DEF TypeOK, JobOK, LogoutIsFinal, ActiveSessionKept
<1> QED
  BY <1>1, <1>2, <1>3, <1>4

\* The janitor's clock is behind, so that it only takes what expired long ago.
LEMMA PurgeKeeps == ASSUME Inv, PurgeBegins \/ Purge PROVE Inv'
<1>1. CASE PurgeBegins
  BY <1>1 DEF PurgeBegins, Inv, TypeOK, JobOK, ClockOK, BanOK, LogoutIsFinal, ActiveSessionKept
<1>2. CASE Purge
  <2> USE <1>2 DEF Purge, Inv
  <2>1. TypeOK' /\ JobOK'
    BY DEF TypeOK, JobOK
  <2>2. ClockOK' /\ BanOK'
    BY DEF TypeOK, ClockOK, BanOK
  <2>3. LogoutIsFinal' /\ ActiveSessionKept'
    BY DEF TypeOK, ClockOK, LogoutIsFinal, ActiveSessionKept
  <2> QED
    BY <2>1, <2>2, <2>3
<1> QED
  BY <1>1, <1>2

\* Every step keeps the invariant.
LEMMA NextInv == Inv /\ [Next]_vars => Inv'
<1> SUFFICES ASSUME Inv, [Next]_vars PROVE Inv'
  OBVIOUS
<1>1. CASE UNCHANGED vars
  BY <1>1 DEF vars, Inv, TypeOK, JobOK, ClockOK, BanOK, LogoutIsFinal, ActiveSessionKept
<1> QED
  BY <1>1, TickKeeps, PasswordKeeps, CreateKeeps, RequestKeeps, ValidateKeeps, ServeKeeps,
     PurgeKeeps DEF Next

\* The inductive invariant holds throughout.
THEOREM AuthInv == Spec => []Inv
<1>1. Inv /\ [Next]_vars => Inv'
  BY NextInv
<1> QED
  BY <1>1, InitInv, PTL DEF Spec

\* A token that was logged out is never in the session map again.
THEOREM LogoutsAreFinal == Spec => []LogoutIsFinal
<1>1. Inv => LogoutIsFinal
  BY DEF Inv
<1> QED
  BY <1>1, AuthInv, PTL

\* Neither Validate nor the janitor takes a session that was used in time.
THEOREM ActiveSessionsAreKept == Spec => []ActiveSessionKept
<1>1. Inv => ActiveSessionKept
  BY DEF Inv
<1> QED
  BY <1>1, AuthInv, PTL

\* A ban is in force until its end.
THEOREM BansHold == Spec => []BanHolds
<1>1. Inv => BanHolds
  BY DEF Inv, BanOK, BanHolds, Banned
<1> QED
  BY <1>1, AuthInv, PTL

\* Requests pass the middleware only with a session that is live.
THEOREM OnlyLiveSessionsPass == Spec => OnlyLiveSessions
<1> DEFINE Passes ==
      \A h \in Handlers : pc[h] = "sent" /\ pc'[h] = "serving" =>
        LET t == job'[h].token IN t \notin revoked /\ used[t] # None /\ now <= used[t] + TTL
<1>1. Inv /\ [Next]_vars => [Passes]_vars
  <2> SUFFICES ASSUME Inv, Next PROVE Passes
    BY DEF vars
  <2>1. ASSUME NEW h \in Handlers, Validate(h) PROVE Passes
    BY <2>1 DEF Validate, Renew, Done, Inv, TypeOK, JobOK, ClockOK, LogoutIsFinal
  <2>2. CASE ~\E h \in Handlers : Validate(h)
    BY <2>2 DEF Next, Tick, WrongPassword, RightPassword, Create, Request, Serve, Logout, CookieDies,
                PurgeBegins, Purge, Done, Inv, TypeOK
  <2> QED
    BY <2>1, <2>2
<1> QED
  BY <1>1, AuthInv, PTL DEF Spec, OnlyLiveSessions
=============================================================================
