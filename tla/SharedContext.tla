---------------------------- MODULE SharedContext ----------------------------
(***************************************************************************)
(* An event context shared between the main process and one frameserver   *)
(* (struct arcan_evctx with local = false: synch.external holds the       *)
(* killswitch, "NULL or frameserver", and the semaphore).  The            *)
(* frameserver produces into its output ring, which the main process      *)
(* consumes; the main process produces into the frameserver's input ring *)
(* (target_input, through arcan_frameserver_pushevent), which the         *)
(* frameserver consumes.  Each side takes the semaphore around its        *)
(* enqueue or poll; the main side,                                        *)
(* which is authoritative, waits at most DEFAULT_EVENT_TIMEOUT for it and *)
(* otherwise "will forcibly free the frameserver" (arcan_event.h 29-31).  *)
(* The ring itself is the one of EventQueue, whose operators are reused.  *)
(* The bodies of enqueue, poll and the timed wait are in arcan_event.c,   *)
(* outside the repository, and follow spec.md sections 4.1 and 5.        *)
(*                                                                         *)
(* The frameserver is untrusted: it may stop at any point, the critical   *)
(* section included.  arcan_event_poll returns a pointer into the ring,   *)
(* which the main side reads after the call (and the semaphore) is done.  *)
(***************************************************************************)
EXTENDS EventTypes, Naturals, FiniteSets

CONSTANTS
  Cap,        \* n_eventbuf
  MaxEvents,  \* bound on the events the frameserver produces
  Timeout,    \* DEFAULT_EVENT_TIMEOUT, in clock ticks of the timed wait
  NoEvent     \* an unwritten slot

ASSUME Cap \in Nat \ {0} /\ MaxEvents \in Nat /\ Timeout \in Nat \ {0}

Ids   == 1..MaxEvents
Slots == 0..(Cap - 1)

VARIABLES
  q,          \* the output ring: buf, front, back, leaks (Q!CtxRec)
  inq,        \* the input ring the main side fills
  mop,        \* what the main side's wait is for: "poll" or "push"
  fop,        \* what the frameserver holds the semaphore for: "enq", "poll"
  sem,        \* the semaphore: "free" or the side holding it
  peer,       \* the frameserver: "alive", "hung" or "freed"
  killswitch, \* synch.external.killswitch is the frameserver (not NULL)
  mpc,        \* main side: "idle", "wait" (timed wait), "crit", "use"
  elapsed,    \* clock ticks spent in the current timed wait
  fpc,        \* frameserver side: "idle" or "crit"
  ptr,        \* the slot arcan_event_poll returned a pointer to
  pid,        \* ghost: the id of the event that poll returned
  nextId,     \* ghost: id of the next event the frameserver produces
  fate,       \* ghost: what became of each event
  inNext,     \* ghost: id of the next input the script sends
  infate      \* ghost: what became of each input

(* The ring operators of the in-process context: Push (overwrite of the   *)
(* oldest when saturated), Used, Live, Overwritten and InitCtx.           *)
Q == INSTANCE EventQueue
       WITH Contexts <- {"shared"}, Categories <- {EVENT_IO}, Rates <- {0},
            Saturations <- {<<1, 1>>},
            ctx <- [c \in {"shared"} |-> q],
            polled <- [c \in {"shared"} |-> NoEvent]

vars == <<q, inq, mop, fop, sem, peer, killswitch, mpc, elapsed, fpc, ptr, pid,
          nextId, fate, inNext, infate>>

Fates == {"unborn", "queued", "delivered", "overwritten", "torn"}

Init ==
  /\ q = Q!InitCtx /\ inq = Q!InitCtx /\ mop = "poll" /\ fop = "enq"
  /\ sem = "free" /\ peer = "alive" /\ killswitch = TRUE
  /\ mpc = "idle" /\ elapsed = 0 /\ fpc = "idle"
  /\ ptr = 0 /\ pid = 0
  /\ nextId = 1 /\ fate = [i \in Ids |-> "unborn"]
  /\ inNext = 1 /\ infate = [i \in Ids |-> "unborn"]

-----------------------------------------------------------------------------
(* The frameserver side.                                                  *)

(* Variables the output direction leaves alone, and the input direction. *)
outVars == <<q, ptr, pid, nextId, fate>>
inVars  == <<inq, inNext, infate>>

(* It takes the semaphore to enqueue an event of its own (while it has    *)
(* any left) or to poll its input ring.                                   *)
FsrvLock ==
  /\ peer = "alive" /\ fpc = "idle" /\ sem = "free"
  /\ \E op \in {"enq", "poll"} :
       /\ op = "enq" => nextId <= MaxEvents
       /\ fop' = op
  /\ sem' = "fsrv" /\ fpc' = "crit"
  /\ UNCHANGED <<outVars, inVars, mop, peer, killswitch, mpc, elapsed>>

(* arcan_event_enqueue into the output ring, then the semaphore is        *)
(* released.                                                              *)
FsrvEnqueue ==
  /\ peer = "alive" /\ fpc = "crit" /\ fop = "enq"
  /\ \E k \in Kinds :
       LET e == [id |-> nextId, cat |-> EVENT_IO, kind |-> k, src |-> NoSource]
       IN /\ q' = Q!Push(q, e)
          /\ fate' = Q!SetFate([fate EXCEPT ![nextId] = "queued"],
                                Q!Overwritten(q), "overwritten")
  /\ nextId' = nextId + 1
  /\ sem' = "free" /\ fpc' = "idle"
  /\ UNCHANGED <<inVars, mop, fop, peer, killswitch, mpc, elapsed, ptr, pid>>

(* Mutant: emptiness of the input ring tested on ring positions.          *)
FsrvPollModEmpty ==
  /\ peer = "alive" /\ fpc = "crit" /\ fop = "poll"
  /\ IF inq.front % Cap # inq.back % Cap
     THEN /\ infate' = [infate EXCEPT ![inq.buf[inq.back % Cap].id] = "delivered"]
          /\ inq' = [inq EXCEPT !.back = @ + 1]
     ELSE UNCHANGED <<inq, infate>>
  /\ sem' = "free" /\ fpc' = "idle"
  /\ UNCHANGED <<outVars, inNext, mop, fop, peer, killswitch, mpc, elapsed>>

(* arcan_event_poll on the input ring: the next input, if any, is taken   *)
(* (copied out under the semaphore), then the semaphore is released.     *)
FsrvPoll ==
  /\ peer = "alive" /\ fpc = "crit" /\ fop = "poll"
  /\ IF Q!Used(inq) > 0
     THEN /\ infate' = [infate EXCEPT ![inq.buf[inq.back % Cap].id] = "delivered"]
          /\ inq' = [inq EXCEPT !.back = @ + 1]
     ELSE UNCHANGED <<inq, infate>>
  /\ sem' = "free" /\ fpc' = "idle"
  /\ UNCHANGED <<outVars, inNext, mop, fop, peer, killswitch, mpc, elapsed>>

(* The untrusted process stops responding, wherever it is.                *)
FsrvHang ==
  /\ peer = "alive"
  /\ peer' = "hung"
  /\ UNCHANGED <<outVars, inVars, mop, fop, sem, killswitch, mpc, elapsed, fpc>>

-----------------------------------------------------------------------------
(* The main (authoritative) side, once per engine tick.                   *)

(* With a frameserver attached, the tick starts a timed wait, to poll the *)
(* output ring or, when the script calls target_input, to push an input. *)
MainWait ==
  /\ mpc = "idle" /\ killswitch
  /\ \E op \in {"poll", "push"} :
       /\ op = "push" => inNext <= MaxEvents
       /\ mop' = op
  /\ mpc' = "wait" /\ elapsed' = 0
  /\ UNCHANGED <<outVars, inVars, fop, sem, peer, killswitch, fpc>>

MainAcquire ==
  /\ mpc = "wait" /\ sem = "free"
  /\ sem' = "main" /\ mpc' = "crit"
  /\ UNCHANGED <<outVars, inVars, mop, fop, peer, killswitch, elapsed, fpc>>

(* Mutant: the clock stops one tick short of the deadline.               *)
MainTickShort ==
  /\ mpc = "wait" /\ sem # "free" /\ elapsed < Timeout - 1
  /\ elapsed' = elapsed + 1
  /\ UNCHANGED <<outVars, inVars, mop, fop, sem, peer, killswitch, mpc, fpc>>

(* Time passes while the semaphore is held by the other side.             *)
MainTick ==
  /\ mpc = "wait" /\ sem # "free" /\ elapsed < Timeout
  /\ elapsed' = elapsed + 1
  /\ UNCHANGED <<outVars, inVars, mop, fop, sem, peer, killswitch, mpc, fpc>>

(* Mutant: the forced free drops the killswitch and the output ring but   *)
(* leaves the input ring, with its unread inputs, in place.               *)
MainTimeoutKeepInput ==
  /\ mpc = "wait" /\ sem # "free" /\ elapsed = Timeout
  /\ peer' = "freed" /\ killswitch' = FALSE
  /\ mpc' = "idle" /\ fpc' = "idle" /\ sem' = "free"
  /\ fate' = [i \in Ids |-> IF fate[i] = "queued" THEN "torn" ELSE fate[i]]
  /\ q' = Q!InitCtx
  /\ UNCHANGED <<mop, fop, elapsed, ptr, pid, nextId, inq, inNext, infate>>

(* arcan_event.h 29-31: no lock within DEFAULT_EVENT_TIMEOUT, so the      *)
(* frameserver is forcibly freed: the killswitch is dropped and both      *)
(* rings, with their unread events, go with the frameserver.             *)
MainTimeout ==
  /\ mpc = "wait" /\ sem # "free" /\ elapsed = Timeout
  /\ peer' = "freed" /\ killswitch' = FALSE
  /\ mpc' = "idle" /\ fpc' = "idle" /\ sem' = "free"
  /\ fate' = [i \in Ids |-> IF fate[i] = "queued" THEN "torn" ELSE fate[i]]
  /\ infate' = [i \in Ids |-> IF infate[i] = "queued" THEN "torn" ELSE infate[i]]
  /\ q' = Q!InitCtx /\ inq' = Q!InitCtx
  /\ UNCHANGED <<mop, fop, elapsed, ptr, pid, nextId, inNext>>

(* Mutant: emptiness tested on ring positions, so a full ring reads as   *)
(* empty.                                                                 *)
MainPollModEmpty ==
  /\ mpc = "crit" /\ mop = "poll"
  /\ sem' = "free"
  /\ IF q.front % Cap # q.back % Cap
     THEN /\ ptr' = q.back % Cap /\ pid' = q.buf[q.back % Cap].id
          /\ q' = [q EXCEPT !.back = @ + 1]
          /\ mpc' = "use"
     ELSE UNCHANGED <<q, ptr, pid>> /\ mpc' = "idle"
  /\ UNCHANGED <<inVars, mop, fop, peer, killswitch, elapsed, fpc, nextId, fate>>

(* Mutant: poll does not check for an unread event before taking one.    *)
MainPollUnguarded ==
  /\ mpc = "crit" /\ mop = "poll"
  /\ sem' = "free"
  /\ ptr' = q.back % Cap
  /\ pid' = IF q.buf[q.back % Cap] = NoEvent THEN 0 ELSE q.buf[q.back % Cap].id
  /\ q' = [q EXCEPT !.back = @ + 1]
  /\ mpc' = IF Q!Used(q) > 0 THEN "use" ELSE "idle"
  /\ UNCHANGED <<inVars, mop, fop, peer, killswitch, elapsed, fpc, nextId, fate>>

(* arcan_event_poll under the semaphore: with an unread event, back moves *)
(* past it and a pointer to its slot is returned; the semaphore is        *)
(* released when the call returns.                                        *)
MainPoll ==
  /\ mpc = "crit" /\ mop = "poll"
  /\ sem' = "free"
  /\ IF Q!Used(q) > 0
     THEN /\ ptr' = q.back % Cap /\ pid' = q.buf[q.back % Cap].id
          /\ q' = [q EXCEPT !.back = @ + 1]
          /\ mpc' = "use"
     ELSE UNCHANGED <<q, ptr, pid>> /\ mpc' = "idle"
  /\ UNCHANGED <<inVars, mop, fop, peer, killswitch, elapsed, fpc, nextId, fate>>

(* The event is read through the pointer and dispatched.                  *)
MainDispatch ==
  /\ mpc = "use"
  /\ fate' = [fate EXCEPT ![pid] = "delivered"]
  /\ mpc' = "idle" /\ ptr' = 0 /\ pid' = 0
  /\ UNCHANGED <<q, inVars, mop, fop, sem, peer, killswitch, elapsed, fpc, nextId>>

(* target_input on a frameserver-backed object (arcan_lua.c 1041-1042):   *)
(* arcan_frameserver_pushevent enqueues the input into the frameserver's  *)
(* ring under the semaphore, which is then released.                      *)
MainPush ==
  /\ mpc = "crit" /\ mop = "push"
  /\ \E k \in Kinds :
       LET e == [id |-> inNext, cat |-> EVENT_IO, kind |-> k, src |-> NoSource]
       IN /\ inq' = Q!Push(inq, e)
          /\ infate' = Q!SetFate([infate EXCEPT ![inNext] = "queued"],
                                  Q!Overwritten(inq), "overwritten")
  /\ inNext' = inNext + 1
  /\ sem' = "free" /\ mpc' = "idle"
  /\ UNCHANGED <<outVars, mop, fop, peer, killswitch, elapsed, fpc>>

MainStep ==
  \/ MainWait \/ MainAcquire \/ MainTick \/ MainTimeout
  \/ MainPoll \/ MainDispatch \/ MainPush

FsrvStep == FsrvLock \/ FsrvEnqueue \/ FsrvPoll

Next == MainStep \/ FsrvStep \/ FsrvHang

(* The main loop runs every tick and the timed wait returns when the      *)
(* clock passes the deadline, so the main side is weakly fair.  A         *)
(* frameserver that has not hung keeps running its loop; when it waits on *)
(* the semaphore it is the only waiter, so a post by the main side wakes  *)
(* it, even though the main side takes the semaphore again on later      *)
(* ticks: its steps are strongly fair.  Hanging is never forced.          *)
Spec == Init /\ [][Next]_vars /\ WF_vars(MainStep) /\ SF_vars(FsrvStep)

-----------------------------------------------------------------------------
TypeOK ==
  /\ q \in Q!CtxRec /\ q.back <= q.front
  /\ inq \in Q!CtxRec /\ inq.back <= inq.front
  /\ mop \in {"poll", "push"} /\ fop \in {"enq", "poll"}
  /\ sem \in {"free", "main", "fsrv"}
  /\ peer \in {"alive", "hung", "freed"} /\ killswitch \in BOOLEAN
  /\ mpc \in {"idle", "wait", "crit", "use"} /\ elapsed \in 0..Timeout
  /\ fpc \in {"idle", "crit"} /\ ptr \in Slots /\ pid \in Ids \cup {0}
  /\ fate \in [Ids -> Fates] /\ infate \in [Ids -> Fates]

(* The authoritative side never blocks indefinitely: every timed wait     *)
(* ends, with the semaphore or with the frameserver freed, whatever the   *)
(* frameserver does (spec.md section 5, arcan_event.h 29-31).             *)
WaitBounded == mpc = "wait" ~> mpc # "wait"

(* Every event the frameserver commits is eventually dispatched by the    *)
(* main side, overwritten by saturation, or lost with a frameserver that  *)
(* was freed: none stays queued forever.                                  *)
EventuallyConsumed ==
  \A i \in Ids : fate[i] = "queued" ~> fate[i] \in {"delivered", "overwritten", "torn"}

(* Every input the script sends to the frameserver with target_input is  *)
(* eventually taken by the frameserver, overwritten by saturation, or     *)
(* lost with the freed frameserver, unless the frameserver hangs.        *)
InputDelivered ==
  \A i \in Ids :
    infate[i] = "queued"
      ~> (infate[i] \in {"delivered", "overwritten", "torn"} \/ peer = "hung")

(* The ids of a ring's unread region, oldest first.                       *)
Unread(x) == [j \in DOMAIN Q!Live(x) |-> Q!Live(x)[j].id]

Chan == INSTANCE SharedChannel
          WITH out <- Unread(q), inp <- Unread(inq), holder <- sem,
               open <- killswitch

(* The two rings, the semaphore and the killswitch together implement the *)
(* shared channel of SharedChannel: only the side holding the semaphore   *)
(* changes a ring and it releases with the change, each ring is a FIFO    *)
(* that keeps its newest Cap events, and the forced free happens only     *)
(* against a frameserver holding the semaphore and empties both           *)
(* directions for good (spec.md section 5, arcan_event.h 29-31).          *)
ImplementsChannel == Chan!Spec

(* The event the main side reads through the pointer poll returned is the *)
(* event poll took off the ring.                                          *)
PolledIntact == mpc = "use" => q.buf[ptr].id = pid

=============================================================================
