----------------------------- MODULE EventFeed ------------------------------
(***************************************************************************)
(* What SseClient promises whoever enumerates ReadAllAsync, whatever the   *)
(* connections under it do: a feed that only grows, ends once, and says    *)
(* once and for all whether it ended or broke; a terminal event ends it.   *)
(***************************************************************************)
EXTENDS Sequences

CONSTANTS Events,     (* what can be given                                 *)
          Terminal    (* those that end the feed                           *)

VARIABLES given, outcome

Init == given = <<>> /\ outcome = "no"

Give(e) ==
  /\ outcome = "no"
  /\ given' = Append(given, e)
  /\ outcome' = IF e \in Terminal THEN "ended" ELSE "no"

End ==
  /\ outcome = "no"
  /\ outcome' \in {"ended", "error"}
  /\ UNCHANGED given

Next == (\E e \in Events : Give(e)) \/ End

Spec == Init /\ [][Next]_<<given, outcome>>
=============================================================================
