-------------------------- MODULE ConnectionProofs --------------------------
(***************************************************************************)
(* For any number of sockets and any amount of trouble: a pane has one     *)
(* connection, stays closed once it is, gives up only a socket that did    *)
(* not answer, no PTY outlives its connection, and neither a pane nor a    *)
(* PTY is ever left without somebody who is about to deal with it.         *)
(***************************************************************************)
EXTENDS Connection, TLAPS

USE DEF client, server, timers

\* What connectWs leaves when it returns.
LEMMA InitInv == Init => Inv
<1> SUFFICES ASSUME Init PROVE Inv
  OBVIOUS
<1>1. cur \in Sockets
  BY SocketAssumption DEF Init
<1>2. link \in [Sockets -> BOOLEAN]
  BY <1>1 DEF Init
<1>3. TypeOK
  BY <1>1, <1>2, TroubleAssumption DEF Init, TypeOK, Codes
<1>4. OneConnection
  BY <1>1 DEF Init, OneConnection
<1>5. closed = FALSE /\ cur # None /\ attached = {cur}
  BY <1>1, SocketAssumption DEF Init
<1>6. \A s \in Sockets : ready[s] = IF s = cur THEN "connecting" ELSE "closed"
  BY <1>1 DEF Init
<1>7. ListenOK
  BY <1>1, <1>5, <1>6 DEF ListenOK
<1>8. RetryOK
  <2>1. retries = 0 /\ ~vetoed
    BY DEF Init
  <2> QED
    BY <2>1 DEF RetryOK
<1>9. PingOK
  BY <1>6 DEF Init, PingOK
<1>10. NoPtyLeft
  BY DEF Init, NoPtyLeft
<1> QED
  BY <1>3, <1>4, <1>7, <1>8, <1>9, <1>10 DEF Inv

\* clearTimeout keeps the type of what it changes.
LEMMA ClearType == ASSUME TypeOK PROVE WithoutRetry \in Nat
  BY DEF TypeOK, WithoutRetry

\* A spent fault leaves a natural number.
LEMMA SpendType == ASSUME TypeOK, Spend PROVE trouble' \in Nat
  BY DEF TypeOK, Spend

\* open replaces a socket that is not open, with nothing left to listen to.
LEMMA OpenKeeps ==
  ASSUME Inv, NEW s \in Sockets, Open(s), ~closed, ~vetoed, ready[cur] # "open",
         retries' \in Nat, retries' = 0, trouble' \in Nat,
         UNCHANGED <<closed, vetoed, status, timers, pty, session, listed>>
  PROVE  Inv'
<1> USE DEF Inv, Open, Unused
<1>1. TypeOK'
  BY DEF TypeOK, CloseOf
<1>2. OneConnection'
  BY DEF TypeOK, OneConnection, CloseOf, ListenOK
<1>3. ListenOK'
  BY SocketAssumption DEF TypeOK, ListenOK, OneConnection, CloseOf
<1>4. RetryOK'
  BY DEF TypeOK, RetryOK
<1>5. PingOK'
  BY DEF TypeOK, PingOK, CloseOf
<1>6. NoPtyLeft'
  BY DEF TypeOK, NoPtyLeft
<1> QED
  BY <1>1, <1>2, <1>3, <1>4, <1>5, <1>6

\* The two callers of open.
LEMMA ReopenKeeps == ASSUME Inv, NEW s \in Sockets, Retry(s) \/ Visible(s) PROVE Inv'
<1>1. CASE Retry(s)
  <2>1. retries = 1 /\ ~closed /\ ~vetoed /\ attached = {} /\ cur # None
    BY <1>1 DEF Retry, Inv, RetryOK, TypeOK, ListenOK
  <2>2. ready[cur] # "open"
    BY <2>1 DEF Inv, ListenOK, TypeOK
  <2>3. Open(s) /\ retries' = 0 /\ UNCHANGED <<closed, vetoed, status, timers, pty, session, listed, trouble>>
    BY <1>1, <2>1 DEF Retry
  <2> QED
    BY <2>1, <2>2, <2>3, OpenKeeps DEF Inv, TypeOK
<1>2. CASE Visible(s)
  <2>1. cur # None /\ ready[cur] # "open"
    BY <1>2 DEF Visible, Inv, ListenOK
  <2>2. retries' = 0
    BY <1>2 DEF Visible, WithoutRetry, Inv, RetryOK, TypeOK
  <2>3. trouble' \in Nat
    BY <1>2, SpendType DEF Visible, Inv
  <2> QED
    BY <1>2, <2>1, <2>2, <2>3, OpenKeeps DEF Visible
<1> QED
  BY <1>1, <1>2

\* WsConn.close.
LEMMA CloseKeeps == ASSUME Inv, Close PROVE Inv'
<1> USE DEF Inv, Close
<1>1. TypeOK'
  BY ClearType DEF TypeOK, CloseOf, ClearTimers
<1>2. OneConnection' /\ ListenOK'
  BY SocketAssumption DEF TypeOK, OneConnection, ListenOK, CloseOf
<1>3. RetryOK'
  BY DEF TypeOK, RetryOK, WithoutRetry, ListenOK
<1>4. PingOK' /\ NoPtyLeft'
  BY DEF PingOK, ClearTimers, NoPtyLeft
<1> QED
  BY <1>1, <1>2, <1>3, <1>4

\* tick and the pong timer close no socket but an open or connecting one.
LEMMA TimerKeeps == ASSUME Inv, NEW s \in Sockets, Timer(s) PROVE Inv'
<1> USE DEF Inv, Timer, Tick, PongMissing, GiveUp
<1>1. TypeOK'
  <2>1. /\ ticks' \subseteq Sockets /\ pongs' \subseteq Sockets
        /\ pingTimer' \in Sockets \cup {None} /\ pongTimer' \in Sockets \cup {None}
        /\ awaitingPong' \in BOOLEAN /\ asked' \subseteq Sockets
    BY DEF TypeOK
  <2>2. trouble' \in Nat
    BY SpendType DEF TypeOK
  <2>3. ready' \in [Sockets -> {"connecting", "open", "closing", "closed"}]
    BY DEF TypeOK, CloseOf
  <2> QED
    BY <2>1, <2>2, <2>3 DEF TypeOK
<1>2. \A t \in Sockets : ready'[t] = ready[t] \/ (ready[t] \in {"connecting", "open"} /\ ready'[t] = "closing")
  BY DEF TypeOK, CloseOf
<1>3. OneConnection' /\ ListenOK' /\ RetryOK'
  BY <1>1, <1>2 DEF TypeOK, OneConnection, ListenOK, RetryOK
<1>4. PingOK'
  BY <1>2 DEF TypeOK, PingOK, ListenOK, OneConnection
<1>5. NoPtyLeft'
  BY DEF NoPtyLeft
<1> QED
  BY <1>1, <1>3, <1>4, <1>5

\* onopen starts a heartbeat that knows nothing of earlier sockets.
LEMMA OpenedKeeps == ASSUME Inv, NEW s \in Sockets, Opened(s) PROVE Inv'
<1> USE DEF Inv, Opened
<1>1. s \in attached
  BY DEF ListenOK
<1>2. TypeOK'
  BY <1>1, ClearType DEF TypeOK, StartHeartbeat
<1>3. OneConnection' /\ ListenOK' /\ RetryOK'
  BY <1>1 DEF TypeOK, OneConnection, ListenOK, RetryOK
<1>4. PingOK' /\ NoPtyLeft'
  BY <1>1, ClearType DEF PingOK, NoPtyLeft, StartHeartbeat, ClearTimers, TypeOK
<1> QED
  BY <1>2, <1>3, <1>4

\* A pong clears the flag of the socket it came over.
LEMMA PongKeeps == ASSUME Inv, NEW s \in Sockets, Pong(s) PROVE Inv'
<1> USE DEF Inv, Pong
<1>1. s \in attached
  BY DEF ListenOK
<1>2. TypeOK'
  BY <1>1 DEF TypeOK
<1>3. OneConnection' /\ ListenOK' /\ RetryOK' /\ NoPtyLeft'
  BY DEF OneConnection, ListenOK, RetryOK, NoPtyLeft
<1>4. PingOK'
  BY <1>1 DEF PingOK, TypeOK
<1> QED
  BY <1>2, <1>3, <1>4

\* onclose: of the current socket, or of one nobody listens to.
LEMMA CloseEventKeeps ==
  ASSUME Inv, NEW s \in Sockets, NEW code \in Codes, OnCloseEvent(s, code), trouble' \in Nat
  PROVE  Inv'
<1> USE DEF Inv, OnCloseEvent
<1>1. TypeOK'
  <2>1. vetoed' \in BOOLEAN
    BY DEF TypeOK
  <2>2. link' \in [Sockets -> BOOLEAN] /\ awaitingPong' \in BOOLEAN
    BY DEF TypeOK, ClearTimers
  <2>3. retries' \in Nat
    BY ClearType DEF TypeOK
  <2> QED
    BY <2>1, <2>2, <2>3 DEF TypeOK, ClearTimers
<1>2. OneConnection' /\ ListenOK'
  BY DEF TypeOK, OneConnection, ListenOK
<1>3. RetryOK'
  BY DEF TypeOK, RetryOK, ListenOK, WithoutRetry
<1>4. PingOK' /\ NoPtyLeft'
  BY DEF TypeOK, PingOK, ClearTimers, NoPtyLeft
<1> QED
  BY <1>1, <1>2, <1>3, <1>4

\* The three ways to a close event.
LEMMA ClosedKeeps ==
  ASSUME Inv, NEW s \in Sockets,
         CloseReceived(s) \/ CloseDone(s) \/ FoundDead(s)
  PROVE  Inv'
<1>1. trouble' \in Nat
  BY SpendType DEF CloseReceived, CloseDone, FoundDead, Inv, TypeOK
<1>2. PICK code \in Codes : OnCloseEvent(s, code)
  BY DEF CloseReceived, CloseDone, FoundDead, Inv, TypeOK, Codes
<1> QED
  BY <1>1, <1>2, CloseEventKeeps

\* What happens to the session and to the record.
World == SessionEnds \/ SessionFound \/ RemoveTerminal

\* The steps of the server and of the world do not touch the client.
LEMMA ServerKeeps ==
  ASSUME Inv, NEW s \in Sockets,
         Bridge(s) \/ Refuse(s) \/ PtyEnds(s) \/ Lose(s) \/ Restart \/ World
  PROVE  Inv'
<1> USE DEF Inv, Bridge, HandleWS, Refuse, OnOpen, PipeEnds, OnClose, PtyEnds, Lose, Restart, SessionEnds, SessionFound,
           RemoveTerminal, World, CleanUp, Sends
<1>1. trouble' \in Nat
  BY SpendType DEF TypeOK
<1>2. TypeOK'
  <2>1. link' \in [Sockets -> BOOLEAN] /\ session' \in BOOLEAN /\ listed' \in BOOLEAN
    <3> HIDE DEF Sends, CleanUp
    <3>1. link' \in [Sockets -> BOOLEAN] /\ session' \in BOOLEAN
      <4>1. CASE Restart
        BY <4>1 DEF TypeOK
      <4>2. CASE ~Restart
        <5>1. link' = link \/ link' = [link EXCEPT ![s] = FALSE]
          BY <4>2 DEF server
        <5> QED
          BY <4>2, <5>1 DEF TypeOK, server
      <4> QED
        BY <4>1, <4>2
    <3>2. listed' \in {listed, FALSE, listed /\ session}
      BY DEF server
    <3>3. listed' \in BOOLEAN
      BY <3>2 DEF TypeOK
    <3> QED
      BY <3>1, <3>3
  <2>2. /\ frame' \in [Sockets -> Codes \cup {None}]
        /\ srv' \in [Sockets -> {"none", "requested", "opening", "live", "ending", "gone"}]
        /\ pty' \in [Sockets -> {"none", "attached", "eof"}]
    BY DEF TypeOK, Codes
  <2> QED
    BY <1>1, <2>1, <2>2 DEF TypeOK
<1>3. OneConnection' /\ ListenOK' /\ RetryOK' /\ PingOK'
  BY DEF OneConnection, ListenOK, RetryOK, PingOK
<1>4. NoPtyLeft'
  BY DEF TypeOK, NoPtyLeft
<1> QED
  BY <1>2, <1>3, <1>4

\* Every step keeps the invariant.
LEMMA NextInv == Inv /\ [Next]_vars => Inv'
<1> SUFFICES ASSUME Inv, [Next]_vars PROVE Inv'
  OBVIOUS
<1>1. CASE UNCHANGED vars
  BY <1>1 DEF vars, Inv, TypeOK, OneConnection, ListenOK, RetryOK, PingOK, NoPtyLeft
<1>2. ASSUME NEW s \in Sockets, Event(s) \/ FoundDead(s) PROVE Inv'
  BY <1>2, OpenedKeeps, PongKeeps, ClosedKeeps DEF Event
<1> QED
  BY <1>1, <1>2, ReopenKeeps, CloseKeeps, TimerKeeps, ServerKeeps, SocketAssumption DEF Next, World

\* The inductive invariant holds throughout: only the current socket is
\* listened to, and a retry is pending only when there is none.
THEOREM ConnectionInv == Spec => []Inv
<1>1. Inv /\ [Next]_vars => Inv'
  BY NextInv
<1> QED
  BY <1>1, InitInv, PTL DEF Spec

\* A pane never has two live connections.
THEOREM OnlyOneConnection == Spec => []OneConnection
<1>1. Inv => OneConnection
  BY DEF Inv
<1> QED
  BY <1>1, ConnectionInv, PTL

\* Nothing connects again after close() or a veto.
THEOREM ClosedStaysClosed == Spec => []StaysClosed
<1>1. Inv => StaysClosed
  <2> SUFFICES ASSUME Inv, closed \/ vetoed
               PROVE  retries = 0 /\ \A s \in Sockets : ready[s] \in {"closing", "closed"}
    BY DEF StaysClosed
  <2>1. attached = {}
    BY SocketAssumption DEF Inv, TypeOK, ListenOK, RetryOK
  <2> QED
    BY <2>1 DEF Inv, TypeOK, ListenOK, RetryOK
<1> QED
  BY <1>1, ConnectionInv, PTL

\* OnClose leaves no PTY behind, whoever cleaned up first.
THEOREM NoPtyIsLeft == Spec => []NoPtyLeft
<1>1. Inv => NoPtyLeft
  BY DEF Inv
<1> QED
  BY <1>1, ConnectionInv, PTL

\* The heartbeat closes only a socket that left its own ping unanswered.
THEOREM OnlyTheDeaf == Spec => OnlyDeafSocketsGivenUp
<1> DEFINE Fair == \A s \in Sockets :
             ready[s] = "open" /\ ready'[s] = "closing" /\ closed' = closed => s \in asked
<1>1. Inv /\ [Next]_vars => [Fair]_vars
  <2> SUFFICES ASSUME Inv, Next, NEW t \in Sockets,
                      ready[t] = "open", ready'[t] = "closing", closed' = closed
               PROVE  t \in asked
    OBVIOUS
  <2> USE DEF Inv
  <2>1. ASSUME NEW s \in Sockets, Timer(s) PROVE t \in asked
    BY <2>1 DEF Timer, Tick, PongMissing, GiveUp, PingOK, TypeOK
  <2>2. ASSUME NEW s \in Sockets, Retry(s) \/ Visible(s) PROVE t \in asked
    <3>1. t = cur
      BY DEF OneConnection
    <3>2. ready[cur] # "open" \/ closed
      BY <2>2 DEF Retry, Visible, RetryOK, ListenOK, TypeOK
    <3> QED
      BY <3>1, <3>2, SocketAssumption DEF ListenOK
  <2>3. ASSUME NEW s \in Sockets, Event(s) \/ FoundDead(s) PROVE FALSE
    BY <2>3 DEF Event, Opened, Pong, CloseReceived, CloseDone, FoundDead, OnCloseEvent, TypeOK
  <2>4. ASSUME NEW s \in Sockets, Bridge(s) \/ Refuse(s) \/ PtyEnds(s) \/ Lose(s) PROVE FALSE
    BY <2>4 DEF Bridge, HandleWS, Refuse, OnOpen, PipeEnds, OnClose, PtyEnds, Lose
  <2>5. ASSUME Close \/ Restart \/ World PROVE FALSE
    BY <2>5 DEF Close, Restart, SessionEnds, SessionFound, RemoveTerminal, World
  <2> QED
    BY <2>1, <2>2, <2>3, <2>4, <2>5 DEF Next, World
<1> QED
  BY <1>1, ConnectionInv, PTL DEF Spec, OnlyDeafSocketsGivenUp

\* The sockets, their timers and the server's ends of them stay in the states
\* ws.ts and ws.go know.
THEOREM ConnectionTypes == Spec => []TypeOK
<1>1. Inv => TypeOK
  BY DEF Inv
<1> QED
  BY <1>1, ConnectionInv, PTL

-----------------------------------------------------------------------------
(* What has to happen is always on its way *)

\* The first socket is connecting and was asked for.
LEMMA DueInit == Init => DueOK
<1> SUFFICES ASSUME Init PROVE DueOK
  OBVIOUS
<1>1. cur \in Sockets /\ attached = {cur}
  BY SocketAssumption DEF Init
<1>2. \A s \in Sockets : /\ ready[s] = IF s = cur THEN "connecting" ELSE "closed"
                         /\ link[s] = (s = cur)
                         /\ srv[s] = IF s = cur THEN "requested" ELSE "none"
                         /\ pty[s] = "none"
  BY <1>1 DEF Init
<1> QED
  BY <1>1, <1>2 DEF DueOK

\* A retry or a return to the foreground puts a new socket in the place of one
\* that is not open.
LEMMA DueReopen == ASSUME Inv, DueOK, NEW s \in Sockets, Retry(s) \/ Visible(s) PROVE DueOK'
<1>1. Open(s) /\ UNCHANGED <<ticks, pty, closed, vetoed>>
  BY DEF Inv, TypeOK, RetryOK, Retry, Visible
<1>2. s \in Unused /\ pty[s] = "none" /\ s # cur
  BY <1>1 DEF Open, Unused, Inv, NoPtyLeft
<1>3. attached' # {}
  BY <1>1 DEF Open
<1>4. \A t \in Sockets \ {s} : /\ ready'[t] \in {ready[t], "closing"}
                               /\ link'[t] = link[t] /\ srv'[t] = srv[t]
  BY <1>1 DEF Open, CloseOf, Inv, TypeOK
<1>5. ready'[s] = "connecting" /\ srv'[s] = "requested"
  BY <1>1 DEF Open, Inv, TypeOK
<1> QED
  BY <1>1, <1>2, <1>3, <1>4, <1>5 DEF DueOK

\* close() leaves no socket that is open or connecting.
LEMMA DueClose == ASSUME Inv, DueOK, Close PROVE DueOK'
<1>1. closed' /\ UNCHANGED <<link, srv, pty>>
  BY DEF Close
<1>2. \A s \in Sockets : ready'[s] \in {"closing", "closed"} /\ (ready'[s] = "closed" => ready[s] = "closed")
  BY DEF Close, CloseOf, Inv, TypeOK, OneConnection
<1> QED
  BY <1>1, <1>2 DEF DueOK

\* A tick is set again unless it finds its socket closed or closes it.
LEMMA DueTimer == ASSUME Inv, DueOK, NEW s \in Sockets, Timer(s) PROVE DueOK'
<1>1. UNCHANGED <<link, srv, pty, attached, closed, vetoed, retries>>
  BY DEF Timer, Tick, PongMissing
<1>2. \A t \in Sockets : ready'[t] = ready[t] \/ ready'[t] = "closing"
  BY DEF Timer, Tick, PongMissing, GiveUp, CloseOf, Inv, TypeOK
<1>3. \A t \in Sockets : ready[t] = "open" => ~closed
  BY SocketAssumption DEF Inv, ListenOK
<1>4. \A t \in Sockets : t \in ticks /\ ready'[t] = "open" => t \in ticks'
  BY <1>3 DEF Timer, Tick, PongMissing, GiveUp, CloseOf, Inv, TypeOK
<1> QED
  BY <1>1, <1>2, <1>4 DEF DueOK

\* onopen starts the heartbeat of the only socket that is listened to.
LEMMA DueOpened == ASSUME Inv, DueOK, NEW s \in Sockets, Opened(s) \/ Pong(s) PROVE DueOK'
<1>1. CASE Pong(s)
  BY <1>1 DEF Pong, DueOK
<1>2. CASE Opened(s)
  <2>1. s \in attached /\ s = cur
    BY <1>2 DEF Opened, Inv, ListenOK
  <2>2. s \in ticks' /\ UNCHANGED <<link, srv, pty, attached, closed, vetoed, retries>>
    BY <1>2, <2>1 DEF Opened, StartHeartbeat
  <2>3. \A t \in Sockets \ {s} : ready'[t] = ready[t] /\ ready[t] \in {"closing", "closed"}
    BY <1>2, <2>1 DEF Opened, Inv, TypeOK, OneConnection
  <2>4. ready'[s] = "open"
    BY <1>2 DEF Opened, Inv, TypeOK
  <2> QED
    BY <2>2, <2>3, <2>4 DEF DueOK
<1> QED
  BY <1>1, <1>2

\* A close event of the socket in use sets a retry, unless the pane is closed
\* or the server has ended the session.
LEMMA DueClosed ==
    ASSUME Inv, DueOK, NEW s \in Sockets, CloseReceived(s) \/ CloseDone(s) \/ FoundDead(s)
    PROVE  DueOK'
<1>1. PICK code : OnCloseEvent(s, code)
  BY DEF CloseReceived, CloseDone, FoundDead
<1>2. /\ ready'[s] = "closed" /\ ~link'[s] /\ UNCHANGED <<srv, pty, closed>>
      /\ \A t \in Sockets \ {s} : ready'[t] = ready[t] /\ link'[t] = link[t]
  BY <1>1 DEF OnCloseEvent, Inv, TypeOK
<1>3. CASE s \in attached
  <2>1. \A t \in Sockets \ {s} : ready[t] \in {"closing", "closed"}
    BY <1>3 DEF Inv, ListenOK, OneConnection
  <2>2. retries = 0
    BY <1>3 DEF Inv, TypeOK, RetryOK
  <2>3. closed' \/ vetoed' \/ retries' = 1
    <3>1. CASE code = Clean
      <4>1. vetoed' = (vetoed \/ (~closed /\ code = Clean))
        BY <1>1, <1>3 DEF OnCloseEvent
      <4> QED
        BY <1>2, <3>1, <4>1
    <3>2. CASE code # Clean /\ ~closed
      BY <1>1, <1>3, <2>2, <3>2 DEF OnCloseEvent
    <3> QED
      BY <1>2, <3>1, <3>2
  <2> QED
    BY <1>2, <2>1, <2>3 DEF DueOK
<1>4. CASE s \notin attached
  <2>1. UNCHANGED <<attached, ticks, vetoed, retries>>
    BY <1>1, <1>4 DEF OnCloseEvent
  <2> QED
    BY <1>2, <2>1 DEF DueOK
<1> QED
  BY <1>3, <1>4

\* The server and the world take links away and give PTYs to a ReadLoop only.
LEMMA DueServer ==
    ASSUME Inv, DueOK, NEW s \in Sockets,
           Bridge(s) \/ Refuse(s) \/ PtyEnds(s) \/ Lose(s) \/ Restart \/ World
    PROVE  DueOK'
<1> USE DEF Bridge, HandleWS, Refuse, OnOpen, PipeEnds, OnClose, PtyEnds, Lose, Restart, SessionEnds, SessionFound,
           RemoveTerminal, World, CleanUp, Sends
<1>1. UNCHANGED <<ready, ticks, attached, closed, vetoed, retries>>
  OBVIOUS
<1>2. \A t \in Sockets : /\ link'[t] => link[t]
                         /\ srv[t] # "none" => srv'[t] # "none"
                         /\ pty'[t] # "none" => srv'[t] \in {"live", "ending"}
  BY DEF Inv, TypeOK, DueOK
<1> QED
  BY <1>1, <1>2 DEF DueOK

\* Every step keeps DueOK.
LEMMA DueNext == Inv /\ DueOK /\ [Next]_vars => DueOK'
<1> SUFFICES ASSUME Inv, DueOK, [Next]_vars PROVE DueOK'
  OBVIOUS
<1>1. CASE UNCHANGED vars
  BY <1>1 DEF vars, DueOK
<1>2. ASSUME NEW s \in Sockets, Event(s) \/ FoundDead(s) PROVE DueOK'
  BY <1>2, DueOpened, DueClosed DEF Event
<1> QED
  BY <1>1, <1>2, DueReopen, DueClose, DueTimer, DueServer, SocketAssumption DEF Next, World

\* DueOK holds throughout, next to Inv.
LEMMA DueInv == Spec => [](Inv /\ DueOK)
  BY DueInit, DueNext, ConnectionInv, PTL DEF Spec

\* However losses, refusals, restarts, late pongs and returns to the foreground
\* fall together, a mounted pane always has a retry pending, a socket of which
\* an event is due, or an open one with its heartbeat: connectWs never stops
\* trying. This is what Reconnects rests on, together with fairness.
THEOREM NoPaneIsStranded == Spec => []NeverStranded
<1>1. Inv /\ DueOK => NeverStranded
  <2> SUFFICES ASSUME Inv, DueOK, ~closed, ~vetoed, retries # 1
               PROVE  \E s \in attached :
                        \/ ready[s] = "closing"
                        \/ ready[s] = "connecting" /\ (link[s] => srv[s] # "none")
                        \/ ready[s] = "open" /\ s \in ticks
    BY DEF NeverStranded
  <2>1. PICK s \in attached : TRUE
    BY DEF DueOK
  <2>2. s \in Sockets /\ ready[s] \in {"connecting", "open", "closing"}
    BY DEF Inv, TypeOK, ListenOK
  <2> QED
    BY <2>1, <2>2 DEF DueOK
<1> QED
  BY <1>1, DueInv, PTL

\* The PTY behind a socket that was replaced, or whose pane is gone, is always
\* in a ReadLoop with a reason to end. This is what PtyReleased rests on.
THEOREM NoPtyIsAbandoned == Spec => []NoPtyAbandoned
<1>1. Inv /\ DueOK => NoPtyAbandoned
  BY DEF Inv, OneConnection, DueOK, NoPtyAbandoned
<1> QED
  BY <1>1, DueInv, PTL
=============================================================================
