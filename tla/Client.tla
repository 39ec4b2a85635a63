------------------------------- MODULE Client -------------------------------
(***************************************************************************)
(* What the modules of the browser client share. The client is a single    *)
(* JavaScript thread: an action of these modules is one event handler, one *)
(* timer callback or one continuation after an await, with the renders and *)
(* effects it causes. An answer of the server is two steps, the server     *)
(* doing its part and the client applying the answer, so that answers      *)
(* overtake each other and arrive after what they were asked for is gone.  *)
(***************************************************************************)
CONSTANTS
    Null,      \* null and undefined
    Sessions   \* terminal ids, the sessions that panes show
=============================================================================
