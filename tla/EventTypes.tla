----------------------------- MODULE EventTypes -----------------------------
(***************************************************************************)
(* The event record of src/arcan_event.h, abstracted to what the queue    *)
(* and its consumers tell apart: an identity (a ghost sequence number so  *)
(* that properties can follow one event), the category bit, the kind and  *)
(* the embedded source-object id of the categories that carry one.        *)
(***************************************************************************)
EXTENDS Naturals

CONSTANTS
  Kinds,        \* the kinds the model enqueues (kind is scoped by category)
  Sources,      \* object ids (arcan_vobj_id / arcan_aobj_id) in the model
  NoSource      \* stands for "this category has no source field"

ASSUME NoSource \notin Sources

(* enum ARCAN_EVENT_CATEGORY: one bit per category, byte-stable values.   *)
EVENT_SYSTEM      == 1
EVENT_IO          == 2
EVENT_TIMER       == 4
EVENT_VIDEO       == 8
EVENT_AUDIO       == 16
EVENT_TARGET      == 32
EVENT_FRAMESERVER == 64
EVENT_EXTERNAL    == 128
EVENT_NET         == 256

AllCategories ==
  {EVENT_SYSTEM, EVENT_IO, EVENT_TIMER, EVENT_VIDEO, EVENT_AUDIO,
   EVENT_TARGET, EVENT_FRAMESERVER, EVENT_EXTERNAL, EVENT_NET}

(* The categories whose payload struct starts with an object id:          *)
(* arcan_vevent.source, arcan_aevent.source, arcan_fsrvevent.video,       *)
(* arcan_extevent.source and arcan_netevent.source.  IO, TIMER, SYSTEM   *)
(* and TARGET payloads have no such field.                                *)
SourceCategories ==
  {EVENT_VIDEO, EVENT_AUDIO, EVENT_FRAMESERVER, EVENT_EXTERNAL, EVENT_NET}

(* struct arcan_event with the payload reduced to its source field.       *)
Event(ids, cats) ==
  [id: ids, cat: cats, kind: Kinds, src: Sources \cup {NoSource}]

(* An event is well formed when it carries a source exactly when its      *)
(* category has a source field.                                           *)
WellFormed(e) == (e.src = NoSource) <=> (e.cat \notin SourceCategories)

(* The source field of an event, replaced by id: what queuetransfer does  *)
(* to the categories that carry a source field.                           *)
WithSource(e, id) ==
  IF e.cat \in SourceCategories THEN [e EXCEPT !.src = id] ELSE e

=============================================================================
