---------------------------- MODULE TransformMask ----------------------------
(***************************************************************************)
(* The video objects a script creates and deletes, and their transform    *)
(* masks, as the Lua binding handles them, src/arcan_lua.c: the calls that *)
(* create an object (load_image, render_text, build_3dmodel,              *)
(* build_3dplane, fill_surface, random_surface), delete_image, link_image, *)
(* instance_image (arcan_lua_instanceimage), and                          *)
(* image_mask_toggle / _set / _clear / _clearall (arcan_lua_togglemask,   *)
(* _setmask, _clearmask, _clearall).  A mask is an unsigned value, kept   *)
(* as the set of its one bits: the bits of MASK_ALL (the flags the binding *)
(* exports as MASK_POSITION, MASK_SCALE, ...) and bits outside it.  The   *)
(* engine's arcan_video_getmask / arcan_video_transformmask read and      *)
(* store the mask of a live object and do nothing for a free id.          *)
(***************************************************************************)
EXTENDS FiniteSets

CONSTANTS
  Objs,         \* the video object ids
  MaskBits,     \* the one bits of MASK_ALL
  LMaskBits,    \* MASK_SCALE | MASK_OPACITY | MASK_POSITION | MASK_ORIENTATION
  OutsideBits,  \* the bits of an unsigned that are not in MASK_ALL
  Bit0,         \* the bit of value 1
  Vals          \* the values a script passes

ASSUME /\ LMaskBits \subseteq MaskBits /\ MaskBits # {}
       /\ MaskBits \cap OutsideBits = {}
       /\ Bit0 \in MaskBits \cup OutsideBits

(* All bits of an unsigned; ~x is their complement.                       *)
Bits == MaskBits \cup OutsideBits
Compl(x) == Bits \ x
Xor(x, y) == (x \ y) \cup (y \ x)

(* The C operator !: 1 for 0, otherwise 0.                                *)
LogNot(x) == IF x = {} THEN {Bit0} ELSE {}

(* The guard (val & !(MASK_ALL)) == 0 of the three mask functions.        *)
MaskAccepts(val) == val \cap LogNot(MaskBits) = {}

VARIABLES
  alive,   \* the ids that name a live object
  mask,    \* the transform mask of each object
  last     \* the last script call: [op, obj, val] (ghost)

vars == <<alive, mask, last>>

NoCall == [op |-> "none", obj |-> CHOOSE o \in Objs : TRUE, val |-> {}]

Init ==
  /\ alive \in SUBSET Objs /\ alive # {}
  /\ mask \in [Objs -> SUBSET MaskBits]
  /\ \A o \in Objs \ alive : mask[o] = {}
  /\ last = NoCall

(* arcan_video_transformmask(id, m): stored for a live object only.       *)
TransformMaskOf(o, m) ==
  mask' = IF o \in alive THEN [mask EXCEPT ![o] = m] ELSE mask

(* The engine creates an object under a free id with the mask its         *)
(* allocation gives it (outside the repository), or fails and returns     *)
(* ARCAN_EID.                                                             *)
Create(n, ok) ==
  \/ /\ ok /\ n \notin alive
     /\ alive' = alive \cup {n}
     /\ \E m \in SUBSET MaskBits : mask' = [mask EXCEPT ![n] = m]
  \/ ~ok /\ UNCHANGED <<alive, mask>>

Created(n) == last' = [op |-> "create", obj |-> n, val |-> {}]

(* arcan_lua_loadimage: the resource is found and arcan_video_loadimage   *)
(* succeeds, or EID.                                                       *)
LoadImage(n, ok) == Created(n) /\ Create(n, ok)

(* arcan_lua_buildstr: arcan_video_renderstring.                          *)
BuildStr(n, ok) == Created(n) /\ Create(n, ok)

(* arcan_lua_buildmodel: arcan_3d_emptymodel, made transparent.           *)
BuildModel(n, ok) == Created(n) /\ Create(n, ok)

(* arcan_lua_buildplane: arcan_3d_buildplane.                             *)
BuildPlane(n, ok) == Created(n) /\ Create(n, ok)

(* arcan_lua_fillsurface and arcan_lua_randomsurface: a malloc'ed buffer  *)
(* of w * h pixels handed to arcan_video_rawobject.                       *)
FillSurface(n, ok) == Created(n) /\ Create(n, ok)
RandomSurface(n, ok) == Created(n) /\ Create(n, ok)

(* arcan_lua_deleteimage of a live object (a bad id is a warning or       *)
(* arcan_fatal, see LuaDispatch).                                          *)
DeleteImage(o) ==
  /\ o \in alive
  /\ last' = [op |-> "delete", obj |-> o, val |-> {}]
  /\ alive' = alive \ {o}
  /\ mask' = [mask EXCEPT ![o] = {}]

(* arcan_lua_instanceimage: the clone gets a new id (or ARCAN_EID when    *)
(* the engine refuses) and the mask SCALE|OPACITY|POSITION|ORIENTATION.   *)
InstanceImage(o) ==
  /\ last' = [op |-> "instance", obj |-> o, val |-> LMaskBits]
  /\ \/ \E n \in Objs \ alive :
          /\ o \in alive
          /\ alive' = alive \cup {n}
          /\ mask' = [mask EXCEPT ![n] = LMaskBits]
     \/ UNCHANGED <<alive, mask>>

(* arcan_lua_linkimage: arcan_video_linkobjs(sid, did, lmask), outside    *)
(* the repository, links sid to did and stores lmask as sid's mask when   *)
(* both ids are live and differ, and otherwise refuses.                   *)
LinkImage(o, p) ==
  /\ last' = [op |-> "link", obj |-> o, val |-> LMaskBits]
  /\ IF o \in alive /\ p \in alive /\ o # p
     THEN TransformMaskOf(o, LMaskBits) ELSE UNCHANGED mask
  /\ UNCHANGED alive

(* Mutant: the toggle written as intended, mask ^= val.                   *)
ToggleMaskXorVal(o, val) ==
  /\ last' = [op |-> "toggle", obj |-> o, val |-> val]
  /\ IF MaskAccepts(val) THEN TransformMaskOf(o, Xor(mask[o], val))
     ELSE UNCHANGED mask
  /\ UNCHANGED alive

(* arcan_lua_togglemask: mask ^= ~val.                                    *)
ToggleMask(o, val) ==
  /\ last' = [op |-> "toggle", obj |-> o, val |-> val]
  /\ IF MaskAccepts(val) THEN TransformMaskOf(o, Xor(mask[o], Compl(val)))
     ELSE UNCHANGED mask
  /\ UNCHANGED alive

(* arcan_lua_clearall: if (id) -- the ids here are objects, never 0.      *)
ClearAll(o) ==
  /\ last' = [op |-> "clearall", obj |-> o, val |-> {}]
  /\ TransformMaskOf(o, {})
  /\ UNCHANGED alive

(* arcan_lua_clearmask: mask &= ~val.                                     *)
ClearMask(o, val) ==
  /\ last' = [op |-> "clear", obj |-> o, val |-> val]
  /\ IF MaskAccepts(val) THEN TransformMaskOf(o, mask[o] \cap Compl(val))
     ELSE UNCHANGED mask
  /\ UNCHANGED alive

(* arcan_lua_setmask: mask |= val, or the "bad mask" warning.             *)
SetMask(o, val) ==
  /\ last' = [op |-> "set", obj |-> o, val |-> val]
  /\ IF MaskAccepts(val) THEN TransformMaskOf(o, mask[o] \cup val)
     ELSE UNCHANGED mask
  /\ UNCHANGED alive

Next ==
  \/ \E o \in Objs, ok \in BOOLEAN :
       \/ LoadImage(o, ok) \/ BuildStr(o, ok) \/ BuildModel(o, ok)
       \/ BuildPlane(o, ok) \/ FillSurface(o, ok) \/ RandomSurface(o, ok)
  \/ \E o \in Objs : InstanceImage(o) \/ ClearAll(o) \/ DeleteImage(o)
  \/ \E o, p \in Objs : LinkImage(o, p)
  \/ \E o \in Objs, v \in Vals : ToggleMask(o, v) \/ ClearMask(o, v) \/ SetMask(o, v)

Spec == Init /\ [][Next]_vars

-----------------------------------------------------------------------------
TypeOK ==
  /\ alive \subseteq Objs
  /\ mask \in [Objs -> SUBSET Bits]
  /\ last.op \in {"none", "create", "delete", "instance", "link", "toggle", "clearall", "clear", "set"}

(* image_mask_toggle(vid, val) with a valid val flips exactly the bits of *)
(* val in the object's mask, as its name and the mask_clear / mask_set    *)
(* pair (which touch only the bits of val) say.                           *)
ToggleFlipsGiven ==
  [][ (last'.op = "toggle" /\ last'.obj \in alive /\ last'.val \subseteq MaskBits)
        => mask'[last'.obj] = Xor(mask[last'.obj], last'.val) ]_vars

=============================================================================
