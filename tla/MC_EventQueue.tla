--------------------------- MODULE MC_EventQueue ---------------------------
(***************************************************************************)
(* Two contexts (the engine's default context and a frameserver's), a     *)
(* ring of two slots so that saturation, overwrite and the transfer       *)
(* ceiling are all reached within four events, one source-less and one   *)
(* source-carrying category, and two object ids.                         *)
(***************************************************************************)
EXTENDS EventQueue

MCCategories  == {EVENT_IO, EVENT_VIDEO}
(* The saturation 0.5 of spec.md section 8: with two slots the ceiling is *)
(* one event, so a transfer both moves events and stops at the ceiling.   *)
MCSaturations == {<<1, 2>>}

(* Only the unread region [back, front) of a ring is ever read again, and *)
(* only through cursor mod capacity and front - back: the view forgets    *)
(* stale slots and the absolute cursor values.                            *)
CtxView(x) ==
  LET b == x.back % Cap
  IN [x EXCEPT !.buf = [j \in Slots |->
                          IF \E i \in 1..Used(x) : (x.back + i - 1) % Cap = j
                          THEN x.buf[j] ELSE NoEvent],
               !.back = b, !.front = b + Used(x)]

(* No action reads fate; the properties only tell queued, leaked and     *)
(* otherwise-consumed events apart.                                       *)
FateView(f) ==
  IF f \in {"masked", "overwritten", "dropped"} THEN "leaked"
  ELSE IF f \in {"delivered", "skipped", "erased"} THEN "consumed"
  ELSE f

QueueView ==
  <<[c \in Contexts |-> CtxView(ctx[c])], polled, nextId,
    [i \in Ids |-> FateView(fate[i])]>>
=============================================================================
