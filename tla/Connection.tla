----------------------------- MODULE Connection -----------------------------
(***************************************************************************)
(* One terminal pane and the server behind it: connectWs of lib/ws.ts with *)
(* the handlers useTerminal.ts gives it, and for every socket it opens the *)
(* bridge of internal/api/ws.go, a "tmux attach" in a PTY.                 *)
(*                                                                         *)
(* The client is one JavaScript thread: every event handler and every      *)
(* timer callback is an action. A browser delivers no event of a socket    *)
(* that close() was called on but the close event. On the server OnOpen    *)
(* and OnClose are the first and the last step of ReadLoop, and the pipe   *)
(* from the PTY is a goroutine of its own.                                 *)
(*                                                                         *)
(* Timers fire at any time after they were set, so the delays and the      *)
(* backoff are left out; so are terminal data and resizing, which change   *)
(* nothing here. A socket is used again when both ends are done with it.   *)
(***************************************************************************)
EXTENDS Naturals

CONSTANTS
    Sockets,
    Trouble,    \* how many losses, refusals, restarts, late pongs and returns
                \* to the foreground a behaviour may contain
    None

ASSUME SocketAssumption == None \notin Sockets /\ Sockets # {}
ASSUME TroubleAssumption == Trouble \in Nat

VARIABLES
    \* the client
    cur,        \* socket
    closed, vetoed,
    status,     \* what the pane shows
    retries,    \* pending calls of open that scheduleReconnect asked for
    ticks, pongs,          \* sockets that a pending tick, or pong timer, is about
    pingTimer, pongTimer,  \* the one of them set last
    awaitingPong,
    attached,   \* sockets whose onclose is set
    ready,      \* readyState
    \* the wire
    link,       \* FALSE once nothing gets through any more
    frame,      \* the code of the server's close frame that is under way
    asked,      \* sockets in use whose last ping was not answered yet
    \* the server
    srv,        \* the connection: asked for, in OnOpen, in ReadLoop, to be ended,
                \* ended
    pty,        \* the terminal behind it
    session,    \* tmux finds a session for the terminal's name
    listed,     \* the store has the terminal's record
    trouble     \* what may still go wrong

timers == <<ticks, pongs, pingTimer, pongTimer, awaitingPong>>
client == <<cur, closed, vetoed, status, retries, timers, attached>>
server == <<srv, pty, session, listed>>
vars == <<client, ready, link, frame, asked, server, trouble>>

Clean == 1000
Abnormal == 1006
PingTimeout == 4000
Codes == {Clean, Abnormal, PingTimeout}

TypeOK ==
    /\ cur \in Sockets \cup {None}
    /\ closed \in BOOLEAN /\ vetoed \in BOOLEAN
    /\ status \in {"connecting", "open", "closed", "reconnecting"}
    /\ retries \in Nat
    /\ ticks \subseteq Sockets /\ pongs \subseteq Sockets
    /\ pingTimer \in Sockets \cup {None} /\ pongTimer \in Sockets \cup {None}
    /\ awaitingPong \in BOOLEAN
    /\ attached \subseteq Sockets
    /\ ready \in [Sockets -> {"connecting", "open", "closing", "closed"}]
    /\ link \in [Sockets -> BOOLEAN]
    /\ frame \in [Sockets -> Codes \cup {None}]
    /\ asked \subseteq Sockets
    /\ srv \in [Sockets -> {"none", "requested", "opening", "live", "ending", "gone"}]
    /\ pty \in [Sockets -> {"none", "attached", "eof"}]
    /\ session \in BOOLEAN /\ listed \in BOOLEAN
    /\ trouble \in Nat

\* connectWs has just returned.
Init ==
    /\ cur = CHOOSE s \in Sockets : TRUE
    /\ closed = FALSE /\ vetoed = FALSE
    /\ status = "connecting"
    /\ retries = 0
    /\ ticks = {} /\ pongs = {}
    /\ pingTimer = None /\ pongTimer = None
    /\ awaitingPong = FALSE
    /\ attached = {cur}
    /\ ready = [s \in Sockets |-> IF s = cur THEN "connecting" ELSE "closed"]
    /\ link = [s \in Sockets |-> s = cur]
    /\ frame = [s \in Sockets |-> None]
    /\ asked = {}
    /\ srv = [s \in Sockets |-> IF s = cur THEN "requested" ELSE "none"]
    /\ pty = [s \in Sockets |-> "none"]
    /\ session = TRUE /\ listed = TRUE
    /\ trouble = Trouble

-----------------------------------------------------------------------------
(* Helpers of the client *)

Spend == trouble > 0 /\ trouble' = trouble - 1

\* The socket objects that do not exist yet; which one is made next does not
\* matter.
Unused == {s \in Sockets : /\ s # cur /\ ready[s] = "closed" /\ srv[s] \in {"none", "gone"}
                           /\ s \notin ticks \cup pongs}
IsNew(s) == s = CHOOSE t \in Sockets : Unused # {} => t \in Unused

\* clearTimeout(retryTimer), which names the last one set.
WithoutRetry == IF retries > 0 THEN retries - 1 ELSE 0

ClearTimers == /\ ticks' = ticks \ {pingTimer}
               /\ pongs' = pongs \ {pongTimer}
               /\ awaitingPong' = FALSE
               /\ UNCHANGED <<pingTimer, pongTimer>>

\* ws.close() leaves a socket that is already closing or closed alone.
CloseOf(s) == IF ready[s] \in {"connecting", "open"} THEN "closing" ELSE ready[s]

\* Variant: the socket in flight is forgotten.
OpenOrphaning(s) ==
    /\ s \in Unused /\ IsNew(s)
    /\ cur' = s
    /\ attached' = attached \cup {s}
    /\ ready' = [ready EXCEPT ![s] = "connecting"]
    /\ link' = [link EXCEPT ![s] = TRUE]
    /\ frame' = [frame EXCEPT ![s] = None]
    /\ asked' = asked \ {s}
    /\ srv' = [srv EXCEPT ![s] = "requested"]

\* open: detach and close the socket there is, then make a new one.
Open(s) ==
    /\ s \in Unused /\ IsNew(s)
    /\ cur' = s
    /\ attached' = (attached \ {cur}) \cup {s}
    /\ ready' = [t \in Sockets |-> IF t = s THEN "connecting"
                                   ELSE IF t = cur THEN CloseOf(t) ELSE ready[t]]
    /\ link' = [link EXCEPT ![s] = TRUE]
    /\ frame' = [frame EXCEPT ![s] = None]
    /\ asked' = asked \ {s}
    /\ srv' = [srv EXCEPT ![s] = "requested"]

-----------------------------------------------------------------------------
(* Timers and calls *)

\* The retry timer fires: open, which does nothing after close.
Retry(s) ==
    /\ retries > 0
    /\ retries' = retries - 1
    /\ IF closed THEN UNCHANGED <<cur, attached, ready, link, frame, asked, srv>> ELSE Open(s)
    /\ UNCHANGED <<closed, vetoed, status, timers, pty, session, listed, trouble>>

\* Variant: a veto is not remembered.
VisibleUnvetoed(s) ==
    /\ ~closed
    /\ Spend
    /\ cur = None \/ ready[cur] # "open"
    /\ retries' = WithoutRetry
    /\ Open(s)
    /\ UNCHANGED <<closed, vetoed, status, timers, pty, session, listed>>

\* onVisibility; nothing happens when the socket looks open.
Visible(s) ==
    /\ ~closed /\ ~vetoed
    /\ Spend
    /\ cur = None \/ ready[cur] # "open"
    /\ retries' = WithoutRetry
    /\ Open(s)
    /\ UNCHANGED <<closed, vetoed, status, timers, pty, session, listed>>

\* The pane is unmounted: WsConn.close. Only onclose is detached, but no other
\* event is delivered any more.
Close ==
    /\ ~closed
    /\ closed' = TRUE
    /\ ClearTimers
    /\ retries' = WithoutRetry
    /\ attached' = attached \ {cur}
    /\ ready' = [s \in Sockets |-> IF s = cur THEN CloseOf(s) ELSE ready[s]]
    /\ cur' = None
    /\ UNCHANGED <<vetoed, status, link, frame, asked, server, trouble>>


\* The heartbeat gives s up. A pong over a link that works may be late.
GiveUp(s) ==
    /\ ready' = [ready EXCEPT ![s] = CloseOf(s)]
    /\ IF link[s] /\ s \in asked THEN Spend ELSE UNCHANGED trouble

\* tick of the heartbeat of s.
Tick(s) ==
    /\ s \in ticks
    /\ \/ /\ closed \/ ready[s] # "open"
          /\ ticks' = ticks \ {s}
          /\ UNCHANGED <<ready, asked, trouble, pongs, pingTimer, pongTimer, awaitingPong>>
       \/ /\ ~closed /\ ready[s] = "open" /\ awaitingPong
          /\ ticks' = ticks \ {s}
          /\ GiveUp(s)
          /\ UNCHANGED <<asked, pongs, pingTimer, pongTimer, awaitingPong>>
       \/ /\ ~closed /\ ready[s] = "open" /\ ~awaitingPong
          /\ awaitingPong' = TRUE
          /\ asked' = asked \cup {s}
          /\ pongs' = pongs \cup {s} /\ pongTimer' = s
          /\ pingTimer' = s
          /\ UNCHANGED <<ready, trouble, ticks>>
    /\ UNCHANGED <<cur, closed, vetoed, status, retries, attached, link, frame, server>>

PongMissing(s) ==
    /\ s \in pongs
    /\ pongs' = pongs \ {s}
    /\ IF awaitingPong THEN GiveUp(s) ELSE UNCHANGED <<ready, trouble>>
    /\ UNCHANGED <<ticks, pingTimer, pongTimer, awaitingPong>>
    /\ UNCHANGED <<cur, closed, vetoed, status, retries, attached, link, frame, asked, server>>

-----------------------------------------------------------------------------
(* Events of a socket *)

\* Variant: the timers and the flag of an earlier socket are left in place.
StartHeartbeatUncleared(s) == /\ ticks' = ticks \cup {s}
                              /\ pingTimer' = s
                              /\ UNCHANGED <<pongs, pongTimer, awaitingPong>>

\* startHeartbeat: clearTimers, then the first tick.
StartHeartbeat(s) == /\ ticks' = (ticks \ {pingTimer}) \cup {s}
                     /\ pongs' = pongs \ {pongTimer}
                     /\ awaitingPong' = FALSE
                     /\ pingTimer' = s
                     /\ UNCHANGED pongTimer

\* onopen.
Opened(s) ==
    /\ ready[s] = "connecting"
    /\ link[s] /\ srv[s] \notin {"none", "requested"}
    /\ ready' = [ready EXCEPT ![s] = "open"]
    /\ IF s \in attached
         THEN StartHeartbeat(s) /\ status' = "open"
         ELSE UNCHANGED <<timers, status>>
    /\ UNCHANGED <<cur, closed, vetoed, retries, attached, link, frame, asked, server, trouble>>

\* onmessage with the pong OnMessage sent.
Pong(s) ==
    /\ ready[s] = "open"
    /\ link[s] /\ srv[s] = "live"
    /\ s \in asked
    /\ asked' = asked \ {s}
    /\ IF s \in attached
         THEN pongs' = pongs \ {pongTimer} /\ awaitingPong' = FALSE
         ELSE UNCHANGED <<pongs, awaitingPong>>
    /\ UNCHANGED <<ticks, pingTimer, pongTimer>>
    /\ UNCHANGED <<cur, closed, vetoed, status, retries, attached, ready, link, frame, server, trouble>>


\* onclose with a code: the handler of useTerminal shows it, and vetoes a
\* reconnection after a clean close.
OnCloseEvent(s, code) ==
    /\ ready' = [ready EXCEPT ![s] = "closed"]
    /\ link' = [link EXCEPT ![s] = FALSE]
    /\ frame' = [frame EXCEPT ![s] = None]
    /\ asked' = asked \ {s}
    /\ attached' = attached \ {s}
    /\ IF s \notin attached
         THEN UNCHANGED <<timers, status, vetoed, retries>>
         ELSE /\ ClearTimers
              /\ status' = IF code = Clean THEN "closed" ELSE "reconnecting"
              /\ vetoed' = (vetoed \/ (~closed /\ code = Clean))
              /\ retries' = IF closed THEN retries
                            ELSE IF code = Clean THEN WithoutRetry ELSE retries + 1
    /\ UNCHANGED <<cur, closed, server>>

\* A close frame arrives.
CloseReceived(s) ==
    /\ ready[s] \in {"open", "closing"}
    /\ link[s] /\ frame[s] # None
    /\ OnCloseEvent(s, frame[s])
    /\ UNCHANGED trouble

\* The browser is done with a socket it was told to close, or that it could not
\* connect. The server may still be about to handle the request.
CloseDone(s) ==
    /\ \/ ready[s] = "closing"
       \/ ready[s] = "connecting" /\ ~link[s]
    /\ OnCloseEvent(s, Abnormal)
    /\ UNCHANGED trouble

\* An open socket is found dead - or not, and then only the heartbeat tells.
FoundDead(s) ==
    /\ ready[s] = "open" /\ ~link[s]
    /\ OnCloseEvent(s, Abnormal)
    /\ UNCHANGED trouble

-----------------------------------------------------------------------------
(* The server *)

\* handleWS: the connection is upgraded, even if the client no longer waits, or
\* refused with 404, for good, when the store has no such terminal.
HandleWS(s) ==
    /\ srv[s] = "requested"
    /\ IF listed
         THEN srv' = [srv EXCEPT ![s] = "opening"] /\ UNCHANGED link
         ELSE srv' = [srv EXCEPT ![s] = "gone"] /\ link' = [link EXCEPT ![s] = FALSE]
    /\ UNCHANGED <<client, ready, frame, asked, pty, session, listed, trouble>>

\* The request is refused for another reason, or never reaches a server.
Refuse(s) ==
    /\ srv[s] = "requested"
    /\ IF link[s] THEN Spend ELSE UNCHANGED trouble
    /\ srv' = [srv EXCEPT ![s] = "gone"]
    /\ link' = [link EXCEPT ![s] = FALSE]
    /\ UNCHANGED <<client, ready, frame, asked, pty, session, listed>>

\* A close frame is sent; over a link that is lost it is lost too, and a second
\* one is not sent.
Sends(s, code) == IF link[s] /\ frame[s] = None THEN [frame EXCEPT ![s] = code] ELSE frame

\* OnOpen: tmux attach is started, or the connection is given up.
OnOpen(s) ==
    /\ srv[s] = "opening"
    /\ \/ /\ pty' = [pty EXCEPT ![s] = "attached"]
          /\ srv' = [srv EXCEPT ![s] = "live"]
          /\ UNCHANGED <<frame, trouble>>
       \/ /\ Spend
          /\ srv' = [srv EXCEPT ![s] = "ending"]
          /\ frame' = Sends(s, Abnormal)
          /\ UNCHANGED pty
    /\ UNCHANGED <<client, ready, link, asked, session, listed>>

\* tmux attach ends: there is no such session any more, or it was detached.
PtyEnds(s) ==
    /\ pty[s] = "attached"
    /\ pty' = [pty EXCEPT ![s] = "eof"]
    /\ UNCHANGED <<client, ready, link, frame, asked, srv, session, listed, trouble>>

\* terminalCleanup.close, which runs once.
CleanUp(s) ==
    /\ pty' = [pty EXCEPT ![s] = "none"]
    /\ frame' = IF srv[s] = "live" THEN Sends(s, Clean) ELSE frame

\* pipePTYToSocket returns: the PTY is at its end, or output cannot be sent.
PipeEnds(s) ==
    /\ \/ pty[s] = "eof"
       \/ pty[s] = "attached" /\ ~link[s]
    /\ CleanUp(s)
    /\ srv' = [srv EXCEPT ![s] = "ending"]
    /\ UNCHANGED <<client, ready, link, asked, session, listed, trouble>>

\* Variant: OnClose leaves the PTY to the pipe.
OnCloseLeaving(s) ==
    /\ srv[s] \in {"live", "ending"}
    /\ \/ srv[s] = "ending"
       \/ ~link[s]
       \/ ready[s] = "closing"
    /\ frame' = IF ready[s] = "closing" THEN Sends(s, PingTimeout) ELSE frame
    /\ srv' = [srv EXCEPT ![s] = "gone"]
    /\ UNCHANGED <<client, ready, link, asked, pty, session, listed, trouble>>

\* ReadLoop ends - the server closed the connection, the link is found dead, or
\* the client's close frame came in and is answered - and calls OnClose.
OnClose(s) ==
    /\ srv[s] \in {"live", "ending"}
    /\ \/ srv[s] = "ending"
       \/ ~link[s]
       \/ ready[s] = "closing"
    /\ frame' = IF ready[s] = "closing" THEN Sends(s, PingTimeout) ELSE frame
    /\ pty' = [pty EXCEPT ![s] = "none"]
    /\ srv' = [srv EXCEPT ![s] = "gone"]
    /\ UNCHANGED <<client, ready, link, asked, session, listed, trouble>>

-----------------------------------------------------------------------------
(* The rest of the world *)

\* A tab is suspended, a cable pulled: both ends find out later, if ever.
Lose(s) ==
    /\ link[s]
    /\ Spend
    /\ link' = [link EXCEPT ![s] = FALSE]
    /\ frame' = [frame EXCEPT ![s] = None]
    /\ UNCHANGED <<client, ready, asked, server>>

\* The server process stops and is started again; pruneDead takes out a
\* terminal without a session.
Restart ==
    /\ Spend
    /\ link' = [s \in Sockets |-> link[s] /\ srv[s] = "requested"]
    /\ srv' = [s \in Sockets |-> IF srv[s] \in {"none", "requested"} THEN srv[s] ELSE "gone"]
    /\ pty' = [s \in Sockets |-> "none"]
    /\ frame' = [s \in Sockets |-> None]
    /\ listed' = (listed /\ session)
    /\ UNCHANGED <<client, ready, asked, session>>

\* The shell exits, or the session is killed.
SessionEnds ==
    /\ session
    /\ session' = FALSE
    /\ UNCHANGED <<client, ready, link, frame, asked, srv, pty, listed, trouble>>

\* A session appears that the name finds, as it is one or the start of one.
SessionFound ==
    /\ ~session
    /\ session' = TRUE
    /\ UNCHANGED <<client, ready, link, frame, asked, srv, pty, listed, trouble>>

\* The terminal or its workspace is deleted, from this page or another one.
RemoveTerminal ==
    /\ listed
    /\ listed' = FALSE
    /\ UNCHANGED <<client, ready, link, frame, asked, srv, pty, session, trouble>>

-----------------------------------------------------------------------------
Timer(s) == Tick(s) \/ PongMissing(s)
Event(s) == Opened(s) \/ Pong(s) \/ CloseReceived(s) \/ CloseDone(s)
Bridge(s) == HandleWS(s) \/ OnOpen(s) \/ PipeEnds(s) \/ OnClose(s)

Next ==
    \/ \E s \in Sockets : \/ Timer(s) \/ Event(s) \/ Bridge(s)
                          \/ Retry(s) \/ Visible(s) \/ FoundDead(s) \/ Refuse(s) \/ PtyEnds(s) \/ Lose(s)
    \/ Close \/ Restart \/ SessionEnds \/ SessionFound \/ RemoveTerminal

Spec == Init /\ [][Next]_vars

\* Timers fire, frames arrive and goroutines run on. A dead link is noticed by
\* the server (TCP keep-alive) but not by a client whose socket looks open;
\* tmux attach ends when there is no session, and need not end before.
Fairness ==
    /\ WF_vars(\E s \in Sockets : Retry(s))
    /\ \A s \in Sockets :
         /\ WF_vars(Timer(s)) /\ WF_vars(Event(s))
         /\ WF_vars(HandleWS(s) \/ OnOpen(s) \/ OnClose(s))
         /\ WF_vars(pty[s] = "eof" /\ PipeEnds(s))
         /\ WF_vars(~session /\ PtyEnds(s))

FairSpec == Spec /\ Fairness

-----------------------------------------------------------------------------
(* Properties *)

\* However reconnections, returns to the foreground and late events overlap,
\* a pane never has two live connections: every socket but the current one is
\* closed or being closed, and is not listened to.
OneConnection ==
    \A s \in Sockets \ {cur} : ready[s] \in {"closing", "closed"} /\ s \notin attached

\* After close(), and after the server has ended the session, nothing connects
\* again: no timer is left that could, and no socket is alive.
StaysClosed ==
    closed \/ vetoed =>
        retries = 0 /\ \A s \in Sockets : ready[s] \in {"closing", "closed"}

\* The heartbeat - the only one to close a socket that is open and in use -
\* gives up only a socket that left a ping of its own without an answer, never
\* one that inherited the flag or a timer of an earlier socket.
OnlyDeafSocketsGivenUp ==
    [][\A s \in Sockets :
         ready[s] = "open" /\ ready'[s] = "closing" /\ closed' = closed => s \in asked]_vars

\* OnClose tears the PTY down: a connection that is gone has none.
NoPtyLeft ==
    \A s \in Sockets : srv[s] \in {"none", "requested", "gone"} => pty[s] = "none"

\* A pane whose connection was refused, closed or silently lost - the socket
\* looks open and no event tells - is connected again, unless it was closed,
\* the server has ended the session, or its terminal is no longer in the store.
Connected == cur # None /\ ready[cur] = "open" /\ link[cur]


\* A pane that was neither closed nor told that its session ended is never
\* stranded: a retry is pending, or the socket it listens to is one of whom an
\* event is due - it is being closed, or is connecting over a link that is lost
\* or to a server that was asked - or has a heartbeat to find out.
NeverStranded ==
    ~closed /\ ~vetoed =>
        \/ retries = 1
        \/ \E s \in attached :
             \/ ready[s] = "closing"
             \/ ready[s] = "connecting" /\ (link[s] => srv[s] # "none")
             \/ ready[s] = "open" /\ s \in ticks

\* No PTY is abandoned: that of a socket which was replaced, or whose pane is
\* gone, is in a ReadLoop that has a reason to end and to call OnClose.
NoPtyAbandoned ==
    \A s \in Sockets \ {cur} : pty[s] # "none" =>
        \/ srv[s] = "ending"
        \/ srv[s] = "live" /\ (ready[s] = "closing" \/ ~link[s])

\* The PTY of a socket that was replaced or whose pane is gone is released.
PtyReleased == \A s \in Sockets : (s # cur /\ pty[s] # "none") ~> pty[s] = "none"

-----------------------------------------------------------------------------
(* The inductive invariant *)

\* Only the current socket is listened to, from its creation to its close event.
ListenOK ==
    /\ cur = None <=> closed
    /\ attached \subseteq {cur}
    /\ \A s \in attached : ready[s] # "closed"
    /\ \A s \in Sockets : ready[s] \in {"connecting", "open"} => s \in attached

\* A retry is pending only between a close event and the next socket.
RetryOK ==
    /\ retries <= 1
    /\ retries = 1 => attached = {} /\ ~closed /\ ~vetoed
    /\ vetoed => attached = {}

\* An open socket inherits no unanswered ping.
PingOK == awaitingPong => \A s \in Sockets : ready[s] = "open" => s \in asked

\* What is over has no link, a socket that is used was asked for and, once it
\* is open, has its tick; without a socket to listen to a retry is pending. On
\* the server a PTY belongs to a ReadLoop.
DueOK ==
    /\ \A s \in Sockets : /\ ready[s] = "closed" => ~link[s]
                          /\ ready[s] = "connecting" => srv[s] # "none"
                          /\ ready[s] = "open" => s \in ticks
                          /\ pty[s] # "none" => srv[s] \in {"live", "ending"}
    /\ attached = {} => closed \/ vetoed \/ retries = 1

Inv == TypeOK /\ OneConnection /\ ListenOK /\ RetryOK /\ PingOK /\ NoPtyLeft
=============================================================================
