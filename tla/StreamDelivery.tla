--------------------------- MODULE StreamDelivery ---------------------------
(***************************************************************************)
(* What the pump of a run promises the screen: what the runner yields is   *)
(* shown in order and, until the run is cancelled, without a gap, and a    *)
(* run that is not cancelled ends with an error or with all of it shown.   *)
(* An item is its position among those yielded.                            *)
(***************************************************************************)
EXTENDS Integers, Sequences

VARIABLES
  kinds,    (* per item yielded, whether it is a delta, an event or an error *)
  shown,    (* the items handleADK has been given, in order                  *)
  ended,    (* handleADK has finished the run                                *)
  stopped   (* the context of the run is cancelled                           *)

vars == << kinds, shown, ended, stopped >>

Upto(a, b) == [i \in 1 .. b - a + 1 |-> a + i - 1]
Last(s) == IF s = << >> THEN 0 ELSE s[Len(s)]

Init ==
  /\ kinds = << >>
  /\ shown = << >>
  /\ ended = FALSE
  /\ stopped = FALSE

\* The runner goes on after an error and may go on after the context is
\* cancelled, never after a run that came to its end.
Yield ==
  /\ ended => stopped \/ (shown # << >> /\ kinds[Last(shown)] = "error")
  /\ \E kind \in {"delta", "event", "error"} : kinds' = Append(kinds, kind)
  /\ UNCHANGED << shown, ended, stopped >>

\* One message is shown, a batch of deltas or a single item: the very next ones,
\* or, of a cancelled run, some that come later. An error ends the run.
Show ==
  /\ ~ ended
  /\ \E a, b \in 1 .. Len(kinds) :
       /\ IF stopped THEN a > Last(shown) ELSE a = Last(shown) + 1
       /\ a = b \/ (a < b /\ \A n \in a .. b : kinds[n] = "delta")
       /\ shown' = shown \o Upto(a, b)
       /\ ended' = (kinds[a] = "error")
  /\ UNCHANGED << kinds, stopped >>

End ==
  /\ stopped \/ Last(shown) = Len(kinds)
  /\ ended' = TRUE
  /\ UNCHANGED << kinds, shown, stopped >>

Stop ==
  /\ stopped' = TRUE
  /\ UNCHANGED << kinds, shown, ended >>

Next == Yield \/ Show \/ End \/ Stop

Spec == Init /\ [][Next]_vars
=============================================================================
