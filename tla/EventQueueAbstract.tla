-------------------------- MODULE EventQueueAbstract --------------------------
(***************************************************************************)
(* What an event context promises, without cursors or slots: each context *)
(* is a FIFO sequence of at most Cap events that keeps the newest ones.   *)
(* An event enters only at the tail, poll takes from the head (dropping    *)
(* the events it skips), erase_vobj removes the events of one object and  *)
(* keeps the order of the rest, and a transfer removes a scanned prefix's *)
(* allowed events from one context and appends some of them, possibly     *)
(* with a new source, to another.                                         *)
(***************************************************************************)
EXTENDS EventTypes, Naturals, Sequences, SequencesExt

CONSTANTS Contexts, Cap, Categories, Events, NoEvent

VARIABLES q, polled

(* Append s2 to s1 keeping only the newest Cap events.                    *)
KeepNewest(s1, s2) ==
  LET s == s1 \o s2
  IN IF Len(s) <= Cap THEN s ELSE SubSeq(s, Len(s) - Cap + 1, Len(s))

(* The subsequences of s: s with any set of its elements removed, the     *)
(* rest in their order.                                                   *)
OrderedSubSeqs(s) ==
  LET idx == [i \in DOMAIN s |-> i]
  IN {LET ks == SelectSeq(idx, LAMBDA i : i \in D)
      IN [j \in DOMAIN ks |-> s[ks[j]]] : D \in SUBSET DOMAIN s}

(* An enqueue either commits an event e at the tail or drops it (input   *)
(* mask); a committed e is the new last element.                          *)
Put(c) ==
  /\ LET nq == q' IN
       \/ nq = q
       \/ /\ nq[c] # <<>> /\ Last(nq[c]) \in Events
          /\ nq = [q EXCEPT ![c] = KeepNewest(@, <<Last(nq[c])>>)]
  /\ UNCHANGED polled

(* Poll: the first event matching cats/kinds is returned, the events      *)
(* before it are consumed; with no match all are consumed.                *)
Take(c) ==
  LET s  == q[c]
      nq == q'
  IN \E cats \in SUBSET Categories, kinds \in SUBSET Kinds :
       LET Hit == {i \in 1..Len(s) : s[i].cat \in cats /\ s[i].kind \in kinds}
       IN IF Hit = {}
          THEN /\ nq = [q EXCEPT ![c] = <<>>]
               /\ polled' = [polled EXCEPT ![c] = NoEvent]
          ELSE LET k == CHOOSE i \in Hit : \A j \in Hit : i <= j
               IN /\ nq = [q EXCEPT ![c] = SubSeq(s, k + 1, Len(s))]
                  /\ polled' = [polled EXCEPT ![c] = s[k]]

EraseAbs(c) ==
  /\ LET nq == q' IN
       \E cat \in Categories, src \in Sources :
         nq = [q EXCEPT ![c] = SelectSeq(@, LAMBDA e : ~(e.cat = cat /\ e.src = src))]
  /\ UNCHANGED polled

Move(d, s) ==
  /\ d # s
  /\ LET nq  == q'
         src == q[s]
     IN \E allowed \in SUBSET Categories, k \in 0..Len(src) :
          LET P    == SubSeq(src, 1, k)
              Rest == SubSeq(src, k + 1, Len(src))
              R    == SelectSeq(P, LAMBDA e : e.cat \in allowed)
          IN /\ nq[s] = SelectSeq(P, LAMBDA e : e.cat \notin allowed) \o Rest
             /\ \E id \in Sources \cup {NoSource} :
                  LET Rw == [i \in DOMAIN R |-> IF id = NoSource THEN R[i]
                                                 ELSE WithSource(R[i], id)]
                  IN \E M \in OrderedSubSeqs(Rw) :
                       nq = [q EXCEPT ![s] = nq[s], ![d] = KeepNewest(@, M)]
  /\ UNCHANGED polled

Init ==
  /\ q = [c \in Contexts |-> <<>>]
  /\ polled = [c \in Contexts |-> NoEvent]

Next ==
  \E c \in Contexts :
    Put(c) \/ Take(c) \/ EraseAbs(c) \/ \E d \in Contexts : Move(d, c)

Spec == Init /\ [][Next]_<<q, polled>>

=============================================================================
