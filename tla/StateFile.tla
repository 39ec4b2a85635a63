------------------------------ MODULE StateFile ------------------------------
(***************************************************************************)
(* What internal/store promises of state.json: the value in memory is      *)
(* changed by one writer at a time, the file takes that value as a whole   *)
(* or not at all, and a restart begins with what the file holds.           *)
(***************************************************************************)
CONSTANTS Values, Empty, Smaller(_, _)

VARIABLES mode, shown, busy, saved

vars == <<mode, shown, busy, saved>>

Init == mode = "down" /\ shown = Empty /\ busy = FALSE /\ saved = Empty

\* A mutator takes the lock and changes the value.
Change == /\ mode = "up" /\ ~busy
          /\ shown' \in Values
          /\ busy' = TRUE
          /\ UNCHANGED <<mode, saved>>

\* Loading may take dead terminals out of the value, and then locks it.
Shrink == /\ mode = "loading" /\ ~busy
          /\ shown' \in Values /\ Smaller(shown', shown)
          /\ UNCHANGED <<mode, busy, saved>>
LockLoaded == mode = "loading" /\ ~busy /\ busy' = TRUE /\ UNCHANGED <<mode, shown, saved>>
Serve == mode = "loading" /\ ~busy /\ mode' = "up" /\ UNCHANGED <<shown, busy, saved>>

\* The file takes the value of memory, or stays as it is; the lock is released.
Release == /\ busy /\ busy' = FALSE
           /\ saved' \in {saved, shown}
           /\ \/ mode' = (IF mode = "loading" THEN "up" ELSE mode) /\ UNCHANGED shown
              \/ mode = "loading" /\ mode' = "down" /\ shown' = Empty

Begin == /\ mode = "down"
         /\ mode' \in {"loading", "up"}
         /\ shown' = saved
         /\ UNCHANGED <<busy, saved>>

End == /\ mode # "down"
       /\ mode' = "down" /\ shown' = Empty /\ busy' = FALSE
       /\ UNCHANGED saved

Next == Change \/ Shrink \/ LockLoaded \/ Serve \/ Release \/ Begin \/ End

Spec == Init /\ [][Next]_vars
=============================================================================
