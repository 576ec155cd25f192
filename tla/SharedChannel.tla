---------------------------- MODULE SharedChannel ----------------------------
(***************************************************************************)
(* What a shared event context promises its two sides, without slots,     *)
(* cursors or the timed wait: two FIFO channels of at most Cap events,     *)
(* out (frameserver to main) and inp (main to frameserver), guarded by one *)
(* lock.  Only the side holding the lock changes a channel, and it gives  *)
(* the lock back with that change: the frameserver appends to out or      *)
(* takes the head of inp, the main side takes the head of out or appends  *)
(* to inp.  An append to a full channel drops its oldest event.  The main *)
(* side may revoke a frameserver that holds the lock: the channel is      *)
(* closed, both directions emptied, and nothing moves again.             *)
(***************************************************************************)
EXTENDS Naturals, Sequences

CONSTANTS Cap, Ids

VARIABLES out, inp, holder, open

chanVars == <<out, inp, holder, open>>

Sides == {"main", "fsrv"}

(* Append i to ch, keeping the newest Cap events.                          *)
Put(ch, i) == IF Len(ch) >= Cap THEN Append(Tail(ch), i) ELSE Append(ch, i)

Init == out = <<>> /\ inp = <<>> /\ holder = "free" /\ open = TRUE

Acquire(s) ==
  /\ open /\ holder = "free" /\ holder' = s
  /\ UNCHANGED <<out, inp, open>>

(* The holder gives the lock back without a change (a poll of an empty    *)
(* channel).                                                              *)
Release(s) ==
  /\ holder = s /\ holder' = "free"
  /\ UNCHANGED <<out, inp, open>>

(* The holder appends to its outgoing channel and releases.               *)
Send(s) ==
  /\ holder = s /\ holder' = "free"
  /\ \E i \in Ids :
       IF s = "fsrv" THEN out' = Put(out, i) /\ UNCHANGED inp
                     ELSE inp' = Put(inp, i) /\ UNCHANGED out
  /\ UNCHANGED open

(* The holder takes the head of its incoming channel and releases.        *)
Receive(s) ==
  /\ holder = s /\ holder' = "free"
  /\ IF s = "main" THEN out # <<>> /\ out' = Tail(out) /\ UNCHANGED inp
                   ELSE inp # <<>> /\ inp' = Tail(inp) /\ UNCHANGED out
  /\ UNCHANGED open

(* The main side revokes a frameserver that holds the lock.               *)
Revoke ==
  /\ open /\ holder = "fsrv"
  /\ open' = FALSE /\ holder' = "free" /\ out' = <<>> /\ inp' = <<>>

Next ==
  \/ \E s \in Sides : Acquire(s) \/ Release(s) \/ Send(s) \/ Receive(s)
  \/ Revoke

Spec == Init /\ [][Next]_chanVars

=============================================================================
