---------------------------- MODULE LuaDispatch ----------------------------
(***************************************************************************)
(* The scripting side of the event core, src/arcan_lua.c: the script     *)
(* operations that create, feed and delete video objects and register    *)
(* Lua callbacks (luaL_ref), the engine producers that enqueue events    *)
(* about those objects, and arcan_lua_pushevent, which the main loop      *)
(* calls for every polled event.                                          *)
(*                                                                         *)
(* A video object is reduced to the tag of its feed state (vfunc_state):  *)
(* "none" (deleted or never allocated, feedstate NULL), "loading" and     *)
(* "image" (a feed state without a frameserver), "fsrv" (ARCAN_TAG_       *)
(* FRAMESERV: a movie or a libretro target) and "target" (ARCAN_TAG_      *)
(* TARGET: an internal launch).  The engine reuses a free id for a new    *)
(* object, so an id can name several objects over time.  The event queue  *)
(* is the FIFO of EventQueueAbstract without masks or saturation; each     *)
(* event carries, as a ghost field "owner", the callback ref registered   *)
(* by the object that produced it.                                        *)
(***************************************************************************)
EXTENDS Naturals, Sequences

CONSTANTS
  Vids,       \* the video object ids (arcan_vobj_id) the engine hands out
  NoVid,      \* the source field of events that name no object
  Handlers,   \* the theme functions the script defines
  Debug,      \* lua_ctx_store.debug (the -g launch flag)
  MaxRefs,    \* bound on luaL_ref registrations
  MaxEvents,  \* bound on events the engine produces
  TargetExts  \* the extensions of the target resources in the database

(* A target resource's extension after its last '.', case folded.        *)
Exts == {"so", "dll", "other", "none"}

ASSUME NoVid \notin Vids /\ Debug \in 0..3 /\ TargetExts \subseteq Exts

NoRef == 0
Refs  == 1..MaxRefs

VARIABLES
  vobj,       \* feed state tag of each id
  fsrv,       \* life of the frameserver behind an "fsrv"/"target" object
  ftag,       \* srv->tag: the callback ref stored in the frameserver
  loadref,    \* the ref handed to arcan_video_loadimageasynch
  evq,        \* the main event queue, oldest first
  nextRef,    \* the next ref luaL_ref returns (refs are never released)
  nEv,        \* events produced so far (bounded by MaxEvents)
  stack,      \* values left on the Lua stack between two dispatches
  lastCall,   \* what the last pushevent invoked
  lastInput,  \* what the last target_input did
  status      \* "running", "fatal" (arcan_fatal) or where a NULL deref hit

vars == <<vobj, fsrv, ftag, loadref, evq, nextRef, nEv, stack, lastCall,
          lastInput, status>>

ObjTags    == {"none", "loading", "image", "fsrv", "target"}
FsrvStates == {"none", "spawned", "ready", "dead"}
Cats       == {"SYSTEM", "IO", "TIMER", "AUDIO", "VIDEO", "TARGET"}
VideoKinds == {"MOVIEREADY", "ASYNCHIMAGE_LOADED", "ASYNCHIMAGE_LOAD_FAILED",
               "FRAMESERVER_TERMINATED", "EXPIRE"}
AsynchKinds == {"ASYNCHIMAGE_LOADED", "ASYNCHIMAGE_LOAD_FAILED"}
(* The kind an engine event of each source-less category carries.        *)
EngineKind == [SYSTEM |-> "EXIT", IO |-> "KEYB_PRESS", TIMER |-> "PULSE",
               AUDIO |-> "PLAYBACK_FINISHED"]
Kinds      == VideoKinds \cup {"INTERNAL_STATUS"} \cup
              {EngineKind[c] : c \in DOMAIN EngineKind}
EventRec   == [cat: Cats, kind: Kinds, src: Vids \cup {NoVid},
               data: {NoRef} \cup Refs, owner: {NoRef} \cup Refs]
CallRec    == [fn: Handlers \cup {"callback", "none"}, kind: Kinds \cup {"none"},
               ref: {NoRef} \cup Refs, owner: {NoRef} \cup Refs]
NoCall     == [fn |-> "none", kind |-> "none", ref |-> NoRef, owner |-> NoRef]
NoInput    == [ret |-> FALSE, delivered |-> FALSE]

(* lastCall and lastInput describe the step just taken: a step that is   *)
(* not a dispatch or a target_input clears them.                          *)
NoObservation == lastCall' = NoCall /\ lastInput' = NoInput

(* arcan_lua_grabthemefunction: the theme defines the function.           *)
HasHandler(f) == f \in Handlers

(* The feed state has a frameserver pointer behind it.  The pointer stays *)
(* until the object is deleted, also after the frameserver died.           *)
FeedAlive(v) == v \in Vids /\ vobj[v] \in {"fsrv", "target"}

(* luaL_ref when the argument is a Lua function, else no ref.             *)
NewRef(cb) == IF cb THEN nextRef ELSE NoRef
TakeRef(cb) == /\ cb => nextRef <= MaxRefs
               /\ nextRef' = IF cb THEN nextRef + 1 ELSE nextRef

Init ==
  /\ vobj = [v \in Vids |-> "none"]
  /\ fsrv = [v \in Vids |-> "none"]
  /\ ftag = [v \in Vids |-> NoRef]
  /\ loadref = [v \in Vids |-> NoRef]
  /\ evq = <<>>
  /\ nextRef = 1
  /\ nEv = 0
  /\ stack = 0
  /\ lastCall = NoCall
  /\ lastInput = NoInput
  /\ status = "running"

-----------------------------------------------------------------------------
(* Engine producers: they enqueue into the main queue.                    *)

Emit(e) == /\ status = "running"
           /\ nEv < MaxEvents
           /\ evq' = Append(evq, e)
           /\ nEv' = nEv + 1

(* The asynchronous loader finishes and reports with the ref as data.    *)
AsynchDone(v) ==
  /\ vobj[v] = "loading"
  /\ \E k \in AsynchKinds :
       Emit([cat |-> "VIDEO", kind |-> k, src |-> v,
             data |-> loadref[v], owner |-> loadref[v]])
  /\ vobj' = [vobj EXCEPT ![v] = "image"]
  /\ loadref' = [loadref EXCEPT ![v] = NoRef]
  /\ UNCHANGED <<fsrv, ftag, nextRef, stack, status>>
  /\ NoObservation

(* A movie frameserver has decoded its first frame.                      *)
FsrvReady(v) ==
  /\ vobj[v] = "fsrv" /\ fsrv[v] = "spawned"
  /\ Emit([cat |-> "VIDEO", kind |-> "MOVIEREADY", src |-> v,
           data |-> NoRef, owner |-> ftag[v]])
  /\ fsrv' = [fsrv EXCEPT ![v] = "ready"]
  /\ UNCHANGED <<vobj, ftag, loadref, nextRef, stack, status>>
  /\ NoObservation

(* A frameserver or launched target dies; the object stays until deleted. *)
FsrvDied(v) ==
  /\ vobj[v] \in {"fsrv", "target"} /\ fsrv[v] \in {"spawned", "ready"}
  /\ Emit(IF vobj[v] = "fsrv"
          THEN [cat |-> "VIDEO", kind |-> "FRAMESERVER_TERMINATED", src |-> v,
                data |-> NoRef, owner |-> ftag[v]]
          ELSE [cat |-> "TARGET", kind |-> "INTERNAL_STATUS", src |-> v,
                data |-> NoRef, owner |-> ftag[v]])
  /\ fsrv' = [fsrv EXCEPT ![v] = "dead"]
  /\ UNCHANGED <<vobj, ftag, loadref, nextRef, stack, status>>
  /\ NoObservation

(* System, input, timer and audio events, which name no video object.   *)
EngineEvent ==
  /\ \E c \in DOMAIN EngineKind :
       Emit([cat |-> c, kind |-> EngineKind[c], src |-> NoVid,
             data |-> NoRef, owner |-> NoRef])
  /\ UNCHANGED <<vobj, fsrv, ftag, loadref, nextRef, stack, status>>
  /\ NoObservation

-----------------------------------------------------------------------------
(* Script operations (the Lua functions of arcan_lua.c).  A script runs   *)
(* in the main thread between two dispatches, so each is one step.        *)

Running == status = "running"

(* load_image_asynch(res, fn): the engine allocates a free id v when the  *)
(* resource is found; the ref is taken before that, and kept either way. *)
LoadImageAsynch(v, cb, found) ==
  /\ Running /\ vobj[v] = "none"
  /\ TakeRef(cb)
  /\ IF found
     THEN /\ vobj' = [vobj EXCEPT ![v] = "loading"]
          /\ loadref' = [loadref EXCEPT ![v] = NewRef(cb)]
     ELSE UNCHANGED <<vobj, loadref>>
  /\ UNCHANGED <<fsrv, ftag, evq, nEv, stack, status>>
  /\ NoObservation

(* Spawning a frameserver for id v with ref r as its tag.                 *)
Spawn(v, tagname, r) ==
  /\ vobj' = [vobj EXCEPT ![v] = tagname]
  /\ fsrv' = [fsrv EXCEPT ![v] = "spawned"]
  /\ ftag' = [ftag EXCEPT ![v] = r]

(* load_movie(res, loop, fn): the tag is set only after a successful      *)
(* spawn; on failure the context is freed and the ref kept.               *)
LoadMovie(v, cb, ok) ==
  /\ Running /\ vobj[v] = "none"
  /\ TakeRef(cb)
  /\ IF ok THEN Spawn(v, "fsrv", NewRef(cb)) ELSE UNCHANGED <<vobj, fsrv, ftag>>
  /\ UNCHANGED <<loadref, evq, nEv, stack, status>>
  /\ NoObservation

(* use_loader: the resource's extension after the last '.', compared     *)
(* without case, is .so or .dll ("none": no '.' in the name).             *)
UseLoader(ext) == ext # "none" /\ ext \in {"so", "dll"}

(* launch_target(id, internal, fn).  The ref is taken first.  Without a   *)
(* database match or a resolved resource nothing is launched.  An         *)
(* internal launch of a loader resource spawns a libretro frameserver     *)
(* (on failure it is freed and EID returned); any other internal launch   *)
(* calls arcan_target_launch_internal, whose result gets intarget->tag    *)
(* before the NULL check; an external launch blocks until the target      *)
(* exits and leaves no object.                                            *)
TargetLaunch(v, cb, match, internal, ext, ok) ==
  /\ Running /\ vobj[v] = "none"
  /\ TakeRef(cb)
  /\ CASE ~match                        -> UNCHANGED <<vobj, fsrv, ftag, status>>
       [] internal /\ UseLoader(ext) /\ ok -> Spawn(v, "fsrv", NewRef(cb)) /\ UNCHANGED status
       [] internal /\ UseLoader(ext)       -> UNCHANGED <<vobj, fsrv, ftag, status>>
       [] internal /\ ok                  -> Spawn(v, "target", NewRef(cb)) /\ UNCHANGED status
       [] internal                        -> status' = "crash_launch" /\ UNCHANGED <<vobj, fsrv, ftag>>
       [] OTHER                           -> UNCHANGED <<vobj, fsrv, ftag, status>>
  /\ UNCHANGED <<loadref, evq, nEv, stack>>
  /\ NoObservation

(* Mutant: the frameserver tag outlives the deleted object.              *)
DeleteImageKeepTag(v) ==
  /\ Running
  /\ IF vobj[v] = "none"
     THEN /\ status' = IF Debug > 0 THEN status ELSE "fatal"
          /\ UNCHANGED <<vobj, fsrv, ftag, loadref>>
     ELSE /\ vobj' = [vobj EXCEPT ![v] = "none"]
          /\ fsrv' = [fsrv EXCEPT ![v] = "none"]
          /\ loadref' = [loadref EXCEPT ![v] = NoRef]
          /\ UNCHANGED <<status, ftag>>
  /\ UNCHANGED <<evq, nextRef, nEv, stack>>
  /\ NoObservation

(* delete_image(vid): arcan_video_deleteobject.  A bad id is a warning    *)
(* with debug flags and arcan_fatal without.  Events already queued about *)
(* the object stay queued (erase_vobj is not called).                     *)
DeleteImage(v) ==
  /\ Running
  /\ IF vobj[v] = "none"
     THEN /\ status' = IF Debug > 0 THEN status ELSE "fatal"
          /\ UNCHANGED <<vobj, fsrv, ftag, loadref>>
     ELSE /\ vobj' = [vobj EXCEPT ![v] = "none"]
          /\ fsrv' = [fsrv EXCEPT ![v] = "none"]
          /\ ftag' = [ftag EXCEPT ![v] = NoRef]
          /\ loadref' = [loadref EXCEPT ![v] = NoRef]
          /\ UNCHANGED status
  /\ UNCHANGED <<evq, nextRef, nEv, stack>>
  /\ NoObservation

(* expire_image(vid, ttl): a ttl of 0 or less is delete_image; otherwise  *)
(* arcan_video_setlife stores the lifetime in the engine, which the model *)
(* does not hold.                                                         *)
SetLife(v, ttl) ==
  IF ttl <= 0 THEN DeleteImage(v)
  ELSE /\ Running
       /\ UNCHANGED <<vobj, fsrv, ftag, loadref, evq, nextRef, nEv, stack, status>>
       /\ NoObservation

(* pause_movie, resume_movie and play_movie act through the frameserver  *)
(* of an ARCAN_TAG_FRAMESERV feed state (arcan_frameserver_pause, _resume *)
(* and _playback, outside the repository); on any other id they do        *)
(* nothing.  The pointer stays valid until the object is deleted, so none *)
(* of them changes the state the model holds.                             *)
MovieControl(v) ==
  /\ Running
  /\ UNCHANGED <<vobj, fsrv, ftag, loadref, evq, nextRef, nEv, stack, status>>
  /\ NoObservation

(* suspend_target and resume_target: the suspend/resume calls on an       *)
(* ARCAN_TAG_TARGET feed state are commented out, so both only check the  *)
(* id.                                                                    *)
TargetControl(v) ==
  /\ Running
  /\ UNCHANGED <<vobj, fsrv, ftag, loadref, evq, nextRef, nEv, stack, status>>
  /\ NoObservation

(* arcan_lua_shutdown: EVENT_SYSTEM_EXIT enqueued on the engine's queue;  *)
(* the engine leaves when the main loop polls it.  The optional message    *)
(* is only logged.                                                         *)
Shutdown ==
  /\ Emit([cat |-> "SYSTEM", kind |-> "EXIT", src |-> NoVid,
          data |-> NoRef, owner |-> NoRef])
  /\ UNCHANGED <<vobj, fsrv, ftag, loadref, nextRef, stack, status>>
  /\ NoObservation

(* target_input(vid, tbl): false unless v has a target or frameserver     *)
(* feed state and the table's kind is analog or digital; the event is     *)
(* pushed only to an ARCAN_TAG_FRAMESERV object, true is returned for    *)
(* both tags.                                                             *)
TargetInput(v, kind) ==
  /\ Running
  /\ lastInput' =
       IF ~FeedAlive(v) \/ kind \notin {"analog", "digital"}
       THEN [ret |-> FALSE, delivered |-> FALSE]
       ELSE [ret |-> TRUE, delivered |-> vobj[v] = "fsrv"]
  /\ UNCHANGED <<vobj, fsrv, ftag, loadref, evq, nextRef, nEv, stack, status>>
  /\ lastCall' = NoCall

-----------------------------------------------------------------------------
(* arcan_lua_pushevent, one branch per category.  A branch calls a theme  *)
(* function (lua_pcall consumes the function and its arguments), calls a  *)
(* registry callback, or clears the stack with lua_settop(ctx, 0).         *)

Call(f, r, e) == lastCall' = [fn |-> f, kind |-> e.kind, ref |-> r, owner |-> e.owner]

(* arcan_lua_wraperr on a failed lua_pcall: it returns only when debug is *)
(* above 2, and otherwise ends in arcan_fatal.                            *)
WrapErr == IF Debug > 2 THEN status ELSE "fatal"

(* lua_pcall(ctx, n, 0, 0) handed to arcan_lua_wraperr.  The script may   *)
(* raise an error; the error value is then left on the stack.             *)
PCall(f, r, e) ==
  /\ Call(f, r, e)
  /\ \E err \in BOOLEAN :
       /\ status' = IF err THEN WrapErr ELSE status
       /\ stack' = IF err THEN stack + 1 ELSE stack
Invoke(f, e) == PCall(f, NoRef, e)

(* arcan_lua_callvoidfun: the main loop (outside the repository) calls a  *)
(* theme function by name, with no arguments, through lua_pcall and       *)
(* arcan_lua_wraperr; a name that is no function is popped again.  Each   *)
(* call counts against the bound MaxEvents on engine activity.            *)
CallVoidFun(f) ==
  /\ Running /\ nEv < MaxEvents
  /\ nEv' = nEv + 1
  /\ IF HasHandler(f) THEN PCall(f, NoRef, [kind |-> "none", owner |-> NoRef])
     ELSE /\ lastCall' = NoCall /\ UNCHANGED <<stack, status>>
  /\ lastInput' = NoInput
  /\ UNCHANGED <<vobj, fsrv, ftag, loadref, evq, nextRef>>

(* A registry callback is followed by lua_settop(ctx, 0) and a return.    *)
Callback(r, e) ==
  /\ Call("callback", r, e)
  /\ status' \in {status, WrapErr}
  /\ stack' = 0

(* Without a handler the branch pushes nothing it leaves behind, or       *)
(* clears the stack.                                                      *)
Skip(e) == lastCall' = [NoCall EXCEPT !.kind = e.kind, !.owner = e.owner]

(* SYSTEM: the function and two tables are pushed, nothing is called.     *)
PushSystem(e) ==
  /\ e.cat = "SYSTEM"
  /\ Skip(e)
  /\ stack' = IF HasHandler("system") THEN stack + 3 ELSE stack
  /\ UNCHANGED status

(* IO: the input table is built and passed to the input function.         *)
PushInput(e) ==
  /\ e.cat = "IO"
  /\ IF HasHandler("input") THEN Invoke("input", e) ELSE Skip(e) /\ UNCHANGED <<stack, status>>

(* TIMER: the CLOCK global is set (not modelled) and clock_pulse called  *)
(* when the theme defines it.                                             *)
PushTimer(e) ==
  /\ e.cat = "TIMER"
  /\ IF HasHandler("clock_pulse") THEN Invoke("clock_pulse", e)
     ELSE Skip(e) /\ UNCHANGED <<stack, status>>

(* AUDIO: audio_event with the aid and a table, when the theme defines it. *)
PushAudio(e) ==
  /\ e.cat = "AUDIO"
  /\ IF HasHandler("audio_event") THEN Invoke("audio_event", e)
     ELSE Skip(e) /\ UNCHANGED <<stack, status>>

(* TARGET: arcan_video_feedstate(source) is dereferenced unchecked, then  *)
(* the frameserver tag picks the callback, else target_event, else the    *)
(* stack is cleared.                                                       *)
PushTarget(e) ==
  /\ e.cat = "TARGET"
  /\ IF ~FeedAlive(e.src)
     THEN status' = "crash_target" /\ Skip(e) /\ UNCHANGED stack
     ELSE CASE ftag[e.src] # NoRef -> PCall("callback", ftag[e.src], e)
            [] HasHandler("target_event") -> Invoke("target_event", e)
            [] OTHER -> Skip(e) /\ stack' = 0 /\ UNCHANGED status

(* VIDEO: video_event is grabbed first; a branch that finds a callback   *)
(* calls it and returns, the others end in video_event or lua_settop(0).  *)
VideoFallback(e) ==
  IF HasHandler("video_event") THEN Invoke("video_event", e)
  ELSE Skip(e) /\ stack' = 0 /\ UNCHANGED status

PushVideo(e) ==
  /\ e.cat = "VIDEO"
  /\ CASE e.kind = "MOVIEREADY" ->
            IF FeedAlive(e.src) /\ ftag[e.src] # NoRef
            THEN Callback(ftag[e.src], e) ELSE VideoFallback(e)
       [] e.kind \in AsynchKinds ->
            IF e.data # NoRef THEN Callback(e.data, e) ELSE VideoFallback(e)
       [] e.kind = "FRAMESERVER_TERMINATED" ->
            IF ~FeedAlive(e.src)
            THEN status' = "crash_terminated" /\ Skip(e) /\ UNCHANGED stack
            ELSE IF ftag[e.src] # NoRef
                 THEN Callback(ftag[e.src], e) ELSE VideoFallback(e)
       [] OTHER -> VideoFallback(e)

(* The main loop polls the oldest event and dispatches it.                *)
Dispatch ==
  /\ Running /\ evq # <<>>
  /\ evq' = Tail(evq)
  /\ LET e == Head(evq) IN
       \/ PushSystem(e) \/ PushInput(e) \/ PushTimer(e)
       \/ PushTarget(e) \/ PushVideo(e) \/ PushAudio(e)
  /\ UNCHANGED <<vobj, fsrv, ftag, loadref, nextRef, nEv>>
  /\ lastInput' = NoInput

Next ==
  \/ \E v \in Vids : AsynchDone(v) \/ FsrvReady(v) \/ FsrvDied(v)
  \/ EngineEvent \/ Shutdown
  \/ \E f \in Handlers \cup {"none"} : CallVoidFun(f)
  \/ \E v \in Vids, cb, ok \in BOOLEAN :
       LoadImageAsynch(v, cb, ok) \/ LoadMovie(v, cb, ok)
  \/ \E v \in Vids, cb, match, internal, ok \in BOOLEAN, ext \in TargetExts :
       TargetLaunch(v, cb, match, internal, ext, ok)
  \/ \E v \in Vids : DeleteImage(v) \/ MovieControl(v) \/ TargetControl(v)
  \/ \E v \in Vids, ttl \in {0, 1} : SetLife(v, ttl)
  \/ \E v \in Vids, k \in {"analog", "digital", "other"} : TargetInput(v, k)
  \/ Dispatch

Spec == Init /\ [][Next]_vars

-----------------------------------------------------------------------------
(* Properties.                                                            *)

TypeOK ==
  /\ vobj \in [Vids -> ObjTags]
  /\ fsrv \in [Vids -> FsrvStates]
  /\ ftag \in [Vids -> {NoRef} \cup Refs]
  /\ loadref \in [Vids -> {NoRef} \cup Refs]
  /\ evq \in Seq(EventRec) /\ Len(evq) <= MaxEvents
  /\ nextRef \in 1..MaxRefs + 1 /\ nEv \in 0..MaxEvents
  /\ stack \in Nat /\ lastCall \in CallRec
  /\ lastInput \in [ret: BOOLEAN, delivered: BOOLEAN]
  /\ status \in {"running", "fatal", "crash_launch", "crash_target", "crash_terminated"}
  /\ \A v \in Vids : /\ ftag[v] # NoRef => vobj[v] \in {"fsrv", "target"}
                     /\ loadref[v] # NoRef => vobj[v] = "loading"

(* Every registry callback pushevent invokes is the one registered by the *)
(* object the event is about (MOVIEREADY and FRAMESERVER_TERMINATED read  *)
(* the tag from the object that now has the id).                          *)
CallbackIdentity ==
  lastCall.fn = "callback" => lastCall.ref = lastCall.owner

(* pushevent never dereferences the feed state of an object that has     *)
(* been deleted (or replaced by an image) while its event was queued, as *)
(* the comment on arcan_event_erase_vobj says consumers must tolerate.   *)
NoStaleDeref == status \notin {"crash_target", "crash_terminated"}

=============================================================================
