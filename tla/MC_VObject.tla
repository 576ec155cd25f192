----------------------------- MODULE MC_VObject -----------------------------
(***************************************************************************)
(* The state a video object carries below and beside the Lua binding: its *)
(* GLES texture store (VStore) and its transform mask (TransformMask).    *)
(* The two are changed by different calls and read each other's state    *)
(* nowhere, so a step of the object is a step of one of them.             *)
(***************************************************************************)
EXTENDS Naturals

CONSTANTS Dims, MaxAllocs, Objs, MaskBits, LMaskBits, OutsideBits, Bit0, Vals

VARIABLES w, h, bpp, glid, raw, s_raw, heap, nextBlock, alive, mask, last

VS == INSTANCE VStore
TM == INSTANCE TransformMask

vsvars == <<w, h, bpp, glid, raw, s_raw, heap, nextBlock>>
tmvars == <<alive, mask, last>>
vars == <<vsvars, tmvars>>

Init == VS!Init /\ TM!Init
Next == \/ VS!Next /\ UNCHANGED tmvars
        \/ TM!Next /\ UNCHANGED vsvars
Spec == Init /\ [][Next]_vars

(* Three of MASK_ALL's flags, two of them in instance_image's mask, and   *)
(* one bit outside MASK_ALL; the values a script passes: none, one flag   *)
(* inside and one outside the instance mask, MASK_ALL and an out-of-range *)
(* bit.                                                                    *)
MCMaskBits    == {"MASK_POSITION", "MASK_SCALE", "MASK_LIVING"}
MCLMaskBits   == {"MASK_POSITION", "MASK_SCALE"}
MCOutsideBits == {"bit31"}
MCVals == {{}, {"MASK_POSITION"}, {"MASK_LIVING"}, MCMaskBits, {"bit31"}}

-----------------------------------------------------------------------------
TypeOK == VS!TypeOK /\ TM!TypeOK

(* See VStore and TransformMask.                                          *)
RawMatchesSize == VS!RawMatchesSize

(* image_mask_toggle flips exactly the bits it is given (TransformMask).  *)
ToggleFlipsGiven == TM!ToggleFlipsGiven
=============================================================================
