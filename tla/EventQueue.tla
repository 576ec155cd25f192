----------------------------- MODULE EventQueue -----------------------------
(***************************************************************************)
(* The event contexts of src/arcan_event.h (struct arcan_evctx): a fixed  *)
(* ring of n_eventbuf events with monotonically increasing front (write) *)
(* and back (read) cursors, the input category mask, the leak counter and *)
(* the advisory key-repeat rate, with the operations the header declares: *)
(* enqueue, poll, poll_masked, maskall, clearmask, setmask, keyrepeat,     *)
(* erase_vobj and queuetransfer.  The bodies of these operations live in  *)
(* arcan_event.c, which is not part of this repository; they are modelled *)
(* from the specification (section 4) and marked so in PROJECT.json.      *)
(*                                                                         *)
(* Each event carries a ghost id; the ghost function fate records what    *)
(* became of every id, so that properties can say that no event is        *)
(* duplicated, invented or silently lost.                                 *)
(***************************************************************************)
EXTENDS EventTypes, Naturals, Sequences, SequencesExt

CONSTANTS
  Contexts,     \* the event contexts in the model
  Cap,          \* n_eventbuf: the fixed ring capacity of every context
  MaxEvents,    \* bound on the number of enqueue calls (ghost ids 1..MaxEvents)
  Categories,   \* the categories producers use in the model
  Rates,        \* kbdrepeat values a script may set
  Saturations,  \* queuetransfer saturation values, as <<num, den>> fractions
  NoEvent       \* the "no event" sentinel of poll and an unwritten slot

ASSUME /\ Cap \in Nat \ {0}
       /\ MaxEvents \in Nat
       /\ Categories \subseteq AllCategories
       /\ \A s \in Saturations : s[2] > 0 /\ s[1] <= s[2]

VARIABLES
  ctx,      \* ctx[c]: the fields of struct arcan_evctx the queue uses
  polled,   \* polled[c]: the event the last poll / poll_masked returned
  nextId,   \* ghost: id of the next event a producer enqueues
  fate      \* ghost: fate[i] is what happened to the event with id i

vars == <<ctx, polled, nextId, fate>>

Ids    == 1..MaxEvents
Slots  == 0..(Cap - 1)
Events == {e \in Event(Ids, Categories) : WellFormed(e)}

Fates == {"unborn", "queued", "delivered", "skipped", "masked",
          "overwritten", "erased", "dropped"}

CtxRec ==
  [buf: [Slots -> Events \cup {NoEvent}], front: Nat, back: Nat,
   maskInp: SUBSET Categories, leaks: Nat, kbdrepeat: Rates]

(***************************************************************************)
(* Cursor arithmetic.  Position in the ring is cursor mod capacity; the   *)
(* unread region is [back, front).                                        *)
(***************************************************************************)
Used(x) == x.front - x.back

Live(x) == [i \in 1..Used(x) |-> x.buf[(x.back + i - 1) % Cap]]

(* Mutant: front placed one short of the kept events.                    *)
CompactShort(x, s) ==
  [x EXCEPT !.buf = [j \in Slots |->
                       IF \E i \in 1..Len(s) : (x.back + i - 1) % Cap = j
                       THEN s[CHOOSE i \in 1..Len(s) : (x.back + i - 1) % Cap = j]
                       ELSE x.buf[j]],
            !.front = x.back + Len(s) - 1]

(* Rewrite the unread region of x to hold exactly the sequence s: the      *)
(* compaction done by erase_vobj and by queuetransfer on its source.      *)
Compact(x, s) ==
  [x EXCEPT !.buf = [j \in Slots |->
                       IF \E i \in 1..Len(s) : (x.back + i - 1) % Cap = j
                       THEN s[CHOOSE i \in 1..Len(s) : (x.back + i - 1) % Cap = j]
                       ELSE x.buf[j]],
            !.front = x.back + Len(s)]

(* Enqueue filter: mask_cat_inp holds the categories that are rejected.   *)
Accepts(x, e) == e.cat \notin x.maskInp

(* Mutant: the overwrite does not move back past the overwritten slot.   *)
PushKeepBack(x, e) ==
  IF Used(x) >= Cap
  THEN [x EXCEPT !.buf[x.front % Cap] = e, !.front = @ + 1, !.leaks = @ + 1]
  ELSE [x EXCEPT !.buf[x.front % Cap] = e, !.front = @ + 1]

(* Commit an accepted event: write slot front mod capacity and advance    *)
(* front; when the ring is saturated the oldest unread event is           *)
(* overwritten, back moves past it and the leak counter increments.      *)
Push(x, e) ==
  IF Used(x) >= Cap
  THEN [x EXCEPT !.buf[x.front % Cap] = e, !.front = @ + 1,
                 !.back = @ + 1, !.leaks = @ + 1]
  ELSE [x EXCEPT !.buf[x.front % Cap] = e, !.front = @ + 1]

(* The ids Push(x, _) overwrites.                                         *)
Overwritten(x) == IF Used(x) >= Cap THEN {x.buf[x.back % Cap].id} ELSE {}

(* Set the fate of every id in S to f.                                    *)
SetFate(fa, S, f) == [i \in Ids |-> IF i \in S THEN f ELSE fa[i]]

IdsOf(s) == {s[i].id : i \in DOMAIN s}

(***************************************************************************)
(* arcan_event_init: cursors, masks and counters zeroed.                  *)
(***************************************************************************)
InitCtx ==
  [buf |-> [j \in Slots |-> NoEvent], front |-> 0, back |-> 0,
   maskInp |-> {}, leaks |-> 0, kbdrepeat |-> CHOOSE r \in Rates : TRUE]

Init ==
  /\ ctx = [c \in Contexts |-> InitCtx]
  /\ polled = [c \in Contexts |-> NoEvent]
  /\ nextId = 1
  /\ fate = [i \in Ids |-> "unborn"]

(* Mutant: a masked event is dropped without counting it.                *)
EnqueueUncounted(c, e) ==
  /\ ctx' = [ctx EXCEPT ![c] = IF Accepts(@, e) THEN Push(@, e) ELSE @]
  /\ fate' = IF Accepts(ctx[c], e)
             THEN SetFate([fate EXCEPT ![e.id] = "queued"],
                          Overwritten(ctx[c]), "overwritten")
             ELSE [fate EXCEPT ![e.id] = "masked"]
  /\ UNCHANGED polled

(***************************************************************************)
(* arcan_event_enqueue(c, e): drop and count a masked event, otherwise    *)
(* commit it (newest-biased on saturation).                               *)
(***************************************************************************)
Enqueue(c, e) ==
  /\ ctx' = [ctx EXCEPT ![c] = IF Accepts(@, e) THEN Push(@, e)
                                ELSE [@ EXCEPT !.leaks = @ + 1]]
  /\ fate' = IF Accepts(ctx[c], e)
             THEN SetFate([fate EXCEPT ![e.id] = "queued"],
                          Overwritten(ctx[c]), "overwritten")
             ELSE [fate EXCEPT ![e.id] = "masked"]
  /\ UNCHANGED polled

(* A producer enqueues a fresh, well-formed event.                        *)
Produce(c) ==
  /\ nextId <= MaxEvents
  /\ \E e \in Events :
       /\ e.id = nextId
       /\ Enqueue(c, e)
  /\ nextId' = nextId + 1

(* Mutant: the newest matching event is returned instead of the oldest.  *)
PollMaskedNewest(c, cats, kinds) ==
  LET x   == ctx[c]
      L   == Live(x)
      Hit == {i \in 1..Len(L) : L[i].cat \in cats /\ L[i].kind \in kinds}
      k   == IF Hit = {} THEN Len(L) ELSE CHOOSE i \in Hit : \A j \in Hit : i >= j
      skipped == IdsOf(SubSeq(L, 1, IF Hit = {} THEN k ELSE k - 1))
  IN /\ ctx' = [ctx EXCEPT ![c].back = @ + k]
     /\ polled' = [polled EXCEPT ![c] = IF Hit = {} THEN NoEvent ELSE L[k]]
     /\ fate' = IF Hit = {} THEN SetFate(fate, skipped, "skipped")
                ELSE [SetFate(fate, skipped, "skipped") EXCEPT ![L[k].id] = "delivered"]
     /\ UNCHANGED nextId

(***************************************************************************)
(* arcan_event_poll_masked(c, cats, kinds): return the first unread event *)
(* whose category is in cats and kind in kinds; back advances past it and *)
(* past every event skipped on the way (those are consumed).  With no     *)
(* match back reaches front and the sentinel is returned.                 *)
(***************************************************************************)
PollMasked(c, cats, kinds) ==
  LET x   == ctx[c]
      L   == Live(x)
      Hit == {i \in 1..Len(L) : L[i].cat \in cats /\ L[i].kind \in kinds}
      k   == IF Hit = {} THEN Len(L) ELSE CHOOSE i \in Hit : \A j \in Hit : i <= j
      skipped == IdsOf(SubSeq(L, 1, IF Hit = {} THEN k ELSE k - 1))
  IN /\ ctx' = [ctx EXCEPT ![c].back = @ + k]
     /\ polled' = [polled EXCEPT ![c] = IF Hit = {} THEN NoEvent ELSE L[k]]
     /\ fate' = IF Hit = {} THEN SetFate(fate, skipped, "skipped")
                ELSE [SetFate(fate, skipped, "skipped") EXCEPT ![L[k].id] = "delivered"]
     /\ UNCHANGED nextId

(* arcan_event_poll: the output mask mask_cat_out is zeroed by init and   *)
(* no operation sets it, so every buffered event passes.                  *)
Poll(c) == PollMasked(c, Categories, Kinds)

(***************************************************************************)
(* Mask & filter engine.                                                  *)
(***************************************************************************)
MaskAll(c) ==
  /\ ctx' = [ctx EXCEPT ![c].maskInp = Categories]
  /\ UNCHANGED <<polled, nextId, fate>>

ClearMask(c) ==
  /\ ctx' = [ctx EXCEPT ![c].maskInp = {}]
  /\ UNCHANGED <<polled, nextId, fate>>

SetMask(c, m) ==
  /\ ctx' = [ctx EXCEPT ![c].maskInp = m]
  /\ UNCHANGED <<polled, nextId, fate>>

KeyRepeat(c, r) ==
  /\ ctx' = [ctx EXCEPT ![c].kbdrepeat = r]
  /\ UNCHANGED <<polled, nextId, fate>>

(***************************************************************************)
(* arcan_event_erase_vobj(c, cat, s): remove every unread event of        *)
(* category cat whose source is s, compacting the rest in order; front    *)
(* decrements by the number removed.                                      *)
(***************************************************************************)
Erases(cat, s, e) == e.cat = cat /\ e.src = s

EraseVobj(c, cat, s) ==
  LET L    == Live(ctx[c])
      kept == SelectSeq(L, LAMBDA e : ~Erases(cat, s, e))
  IN /\ ctx' = [ctx EXCEPT ![c] = Compact(@, kept)]
     /\ fate' = SetFate(fate, IdsOf(L) \ IdsOf(kept), "erased")
     /\ UNCHANGED <<polled, nextId>>

(***************************************************************************)
(* arcan_event_queuetransfer(dst, src, allowed, sat, id).  The source is  *)
(* scanned in FIFO order.  An event of a category outside allowed stays   *)
(* in src.  An allowed one is consumed: while dst occupancy is below      *)
(* sat * capacity it is rewritten (when id is not the ARCAN_EID sentinel, *)
(* here NoSource) and enqueued into dst (subject to dst's input mask);    *)
(* once the ceiling is reached the allowed event in hand is dropped and   *)
(* counted, and the scan stops leaving the rest of src in place.          *)
(***************************************************************************)
BelowCeiling(x, sat) == Used(x) * sat[2] < sat[1] * Cap

(* Mutants of one scan step: a disallowed event is not put back; the     *)
(* event dropped at the ceiling is not counted; the source rewrite is     *)
(* applied exactly when it should not be.                                 *)
TransferStepLoseOthers(allowed, sat, id, t, e) ==
    IF t.stop \/ e.cat \notin allowed
    THEN t
    ELSE IF ~BelowCeiling(t.dst, sat)
    THEN [t EXCEPT !.dst.leaks = @ + 1, !.dropped = @ \cup {e.id}, !.stop = TRUE]
    ELSE LET m == IF id = NoSource THEN e ELSE WithSource(e, id)
         IN IF Accepts(t.dst, m)
            THEN [t EXCEPT !.dst = Push(@, m), !.over = @ \cup Overwritten(t.dst)]
            ELSE [t EXCEPT !.dst.leaks = @ + 1, !.masked = @ \cup {e.id}]

TransferStepUncounted(allowed, sat, id, t, e) ==
    IF t.stop \/ e.cat \notin allowed
    THEN [t EXCEPT !.kept = Append(@, e)]
    ELSE IF ~BelowCeiling(t.dst, sat)
    THEN [t EXCEPT !.dropped = @ \cup {e.id}, !.stop = TRUE]
    ELSE LET m == IF id = NoSource THEN e ELSE WithSource(e, id)
         IN IF Accepts(t.dst, m)
            THEN [t EXCEPT !.dst = Push(@, m), !.over = @ \cup Overwritten(t.dst)]
            ELSE [t EXCEPT !.dst.leaks = @ + 1, !.masked = @ \cup {e.id}]

TransferStepRewriteSwapped(allowed, sat, id, t, e) ==
    IF t.stop \/ e.cat \notin allowed
    THEN [t EXCEPT !.kept = Append(@, e)]
    ELSE IF ~BelowCeiling(t.dst, sat)
    THEN [t EXCEPT !.dst.leaks = @ + 1, !.dropped = @ \cup {e.id}, !.stop = TRUE]
    ELSE LET m == IF id # NoSource THEN e ELSE WithSource(e, id)
         IN IF Accepts(t.dst, m)
            THEN [t EXCEPT !.dst = Push(@, m), !.over = @ \cup Overwritten(t.dst)]
            ELSE [t EXCEPT !.dst.leaks = @ + 1, !.masked = @ \cup {e.id}]

TransferStep(allowed, sat, id, t, e) ==
    IF t.stop \/ e.cat \notin allowed
    THEN [t EXCEPT !.kept = Append(@, e)]
    ELSE IF ~BelowCeiling(t.dst, sat)
    THEN [t EXCEPT !.dst.leaks = @ + 1, !.dropped = @ \cup {e.id}, !.stop = TRUE]
    ELSE LET m == IF id = NoSource THEN e ELSE WithSource(e, id)
         IN IF Accepts(t.dst, m)
            THEN [t EXCEPT !.dst = Push(@, m), !.over = @ \cup Overwritten(t.dst)]
            ELSE [t EXCEPT !.dst.leaks = @ + 1, !.masked = @ \cup {e.id}]

(* The scan over the unread events of the source, oldest first.          *)
RECURSIVE TransferScan(_, _, _, _, _)
TransferScan(allowed, sat, id, t, s) ==
  IF s = <<>> THEN t
  ELSE TransferScan(allowed, sat, id,
                    TransferStep(allowed, sat, id, t, Head(s)), Tail(s))

QueueTransfer(dst, src, allowed, sat, id) ==
  LET t == TransferScan(allowed, sat, id,
                        [kept |-> <<>>, dst |-> ctx[dst], stop |-> FALSE,
                         dropped |-> {}, masked |-> {}, over |-> {}],
                        Live(ctx[src]))
  IN /\ dst # src
     /\ ctx' = [ctx EXCEPT ![dst] = t.dst, ![src] = Compact(@, t.kept)]
     /\ fate' = SetFate(SetFate(SetFate(fate, t.dropped, "dropped"),
                                t.masked, "masked"), t.over, "overwritten")
     /\ UNCHANGED <<polled, nextId>>

(***************************************************************************)
(* The specification: producers, the consumer and the script-facing mask, *)
(* erase and transfer calls, in any interleaving (each call is atomic:    *)
(* the queue serialises enqueue internally and poll is single-consumer).  *)
(***************************************************************************)
Next ==
  \/ \E c \in Contexts : Produce(c)
  \/ \E c \in Contexts : Poll(c)
  \/ \E c \in Contexts, cats \in SUBSET Categories, ks \in SUBSET Kinds :
       PollMasked(c, cats, ks)
  \/ \E c \in Contexts : MaskAll(c) \/ ClearMask(c)
  \/ \E c \in Contexts, m \in SUBSET Categories : SetMask(c, m)
  \/ \E c \in Contexts, r \in Rates : KeyRepeat(c, r)
  \/ \E c \in Contexts, cat \in Categories \cap SourceCategories, s \in Sources :
       EraseVobj(c, cat, s)
  \/ \E d, s \in Contexts, a \in SUBSET Categories, sat \in Saturations,
        id \in Sources \cup {NoSource} :
       QueueTransfer(d, s, a, sat, id)

Spec == Init /\ [][Next]_vars

(***************************************************************************)
(* Properties.                                                            *)
(***************************************************************************)
(* The contexts have the fields of struct arcan_evctx and the read cursor *)
(* never passes the write cursor.                                         *)
TypeOK ==
  /\ ctx \in [Contexts -> CtxRec]
  /\ \A c \in Contexts : ctx[c].back <= ctx[c].front
  /\ polled \in [Contexts -> Events \cup {NoEvent}]
  /\ nextId \in 1..(MaxEvents + 1)
  /\ fate \in [Ids -> Fates]

LiveIds == UNION {IdsOf(Live(ctx[c])) : c \in Contexts}

(* No event is lost, duplicated or invented by enqueue, overwrite, poll,  *)
(* erase_vobj or queuetransfer: the unread regions of all contexts hold   *)
(* exactly the events whose fate is "queued", each of them once, and no   *)
(* region ever holds more than capacity events.                           *)
NoLossNoDup ==
  /\ \A c \in Contexts : Used(ctx[c]) <= Cap
  /\ LiveIds = {i \in Ids : fate[i] = "queued"}
  /\ \A c, d \in Contexts : \A i \in 1..Used(ctx[c]), j \in 1..Used(ctx[d]) :
        Live(ctx[c])[i].id = Live(ctx[d])[j].id => c = d /\ i = j

(* The leak counters count exactly the events dropped by the input mask,  *)
(* by saturation (overwrite of the oldest) and by a transfer reaching its *)
(* ceiling: every silent drop is counted once and nothing else is.        *)
LeakAccounting ==
  LET leaked == {i \in Ids : fate[i] \in {"masked", "overwritten", "dropped"}}
  IN FoldFunctionOnSet(LAMBDA a, b : a + b, 0,
                       [c \in Contexts |-> ctx[c].leaks], Contexts)
     = Cardinality(leaked)

(* The ring with its cursors implements the abstract FIFO of the last Cap *)
(* events: reading [back, front) mod capacity always yields the sequence  *)
(* the abstract queue holds, in the order the events entered.             *)
Abs == INSTANCE EventQueueAbstract
         WITH q <- [c \in Contexts |-> Live(ctx[c])], Events <- Events

AbsSpec == Abs!Spec

=============================================================================
