------------------------------- MODULE Subsurf -------------------------------
(***************************************************************************)
(* The wl_subsurface handlers of the Wayland bridge,                       *)
(* src/src/tools/waybridge/wlimpl/subsurf.c.  Each sub-surface keeps a     *)
(* viewport hint (position and a stacking order, an int8_t in the shmif   *)
(* viewport event) and sends the whole hint to the arcan side with        *)
(* arcan_shmif_enqueue after every change.  place_above / place_below     *)
(* set the order one above / below the sibling's, unless that would       *)
(* leave the int8_t range.                                                *)
(***************************************************************************)
EXTENDS Integers

CONSTANTS
  Surfaces,   \* the sub-surfaces of one parent
  Coords      \* the positions the client requests

VARIABLES
  viewport,   \* surf->viewport.ext.viewport: [x, y, order] per surface
  sent,       \* the hint the arcan side last received (zero before any)
  last,       \* the last request: [op, surf, sibl]
  broken      \* the resources whose user data (struct comp_surf) is NULL

vars == <<viewport, sent, last, broken>>

(* int8_t *)
OrderMin == -128
OrderMax == 127
Int8 == OrderMin..OrderMax

Viewport == [x: Coords, y: Coords, order: Int8]
NoHint == [x |-> 0, y |-> 0, order |-> 0]
NoOp == [op |-> "none", surf |-> CHOOSE s \in Surfaces : TRUE,
         sibl |-> CHOOSE s \in Surfaces : TRUE]

Init ==
  /\ viewport = [s \in Surfaces |-> NoHint]
  /\ sent = [s \in Surfaces |-> NoHint]
  /\ last = NoOp
  /\ broken \in SUBSET Surfaces

(* The handler's change followed by arcan_shmif_enqueue of the hint.      *)
Commit(s, vp, op, t) ==
  /\ viewport' = [viewport EXCEPT ![s] = vp]
  /\ sent' = [sent EXCEPT ![s] = vp]
  /\ last' = [op |-> op, surf |-> s, sibl |-> t]
  /\ UNCHANGED broken

(* The early return on a broken sub-surface (or sibling): only a trace,   *)
(* nothing changes and nothing is sent.                                    *)
Broken(s, t) ==
  /\ {s, t} \cap broken # {}
  /\ last' = [op |-> "ignored", surf |-> s, sibl |-> t]
  /\ UNCHANGED <<viewport, sent, broken>>

(* subsurf_position                                                       *)
Position(s, x, y) ==
  IF s \in broken THEN Broken(s, s)
  ELSE Commit(s, [viewport[s] EXCEPT !.x = x, !.y = y], "position", s)

(* Mutant: the range guard tests <= 127.                                 *)
PlaceAboveUnguarded(s, t) ==
  LET o == viewport[t].order
  IN IF {s, t} \cap broken # {} THEN Broken(s, t) ELSE
     Commit(s, IF o <= OrderMax THEN [viewport[s] EXCEPT !.order = o + 1]
               ELSE viewport[s], "above", t)

(* subsurf_placeabove: the sibling's order read, the own order set to one *)
(* above it if the sibling is below 127, the hint sent either way.        *)
PlaceAbove(s, t) ==
  LET o == viewport[t].order
  IN IF {s, t} \cap broken # {} THEN Broken(s, t) ELSE
     Commit(s, IF o < OrderMax THEN [viewport[s] EXCEPT !.order = o + 1]
               ELSE viewport[s], "above", t)

(* subsurf_placebelow                                                     *)
PlaceBelow(s, t) ==
  LET o == viewport[t].order
  IN IF {s, t} \cap broken # {} THEN Broken(s, t) ELSE
     Commit(s, IF o > OrderMin THEN [viewport[s] EXCEPT !.order = o - 1]
               ELSE viewport[s], "below", t)

(* subsurf_destroy, subsurf_setsync and subsurf_setdesync only trace: the *)
(* resource is not destroyed, the sync mode not kept, and nothing is      *)
(* sent.  subsurf_shmifev_handler returns false for every event the arcan *)
(* side sends the sub-surface.                                            *)
TraceOnly(s, op) ==
  /\ last' = [op |-> op, surf |-> s, sibl |-> s]
  /\ UNCHANGED <<viewport, sent, broken>>

TraceOps == {"destroy", "set_sync", "set_desync", "shmif_event"}

Next ==
  \/ \E s \in Surfaces, x, y \in Coords : Position(s, x, y)
  \/ \E s \in Surfaces, op \in TraceOps : TraceOnly(s, op)
  \/ \E s, t \in Surfaces : s # t /\ (PlaceAbove(s, t) \/ PlaceBelow(s, t))

Spec == Init /\ [][Next]_vars

-----------------------------------------------------------------------------
(* The stacking order stays an int8_t: place_above on a sibling at the    *)
(* top and place_below on one at the bottom must not wrap it around.      *)
TypeOK ==
  /\ viewport \in [Surfaces -> Viewport]
  /\ sent \in [Surfaces -> Viewport]
  /\ last.op \in {"none", "position", "above", "below", "ignored"} \cup TraceOps
  /\ broken \subseteq Surfaces

=============================================================================
