\* One texture store through resizes, streams and drops (up to four buffer
\* allocations) beside the masks of two object ids, one of them free for
\* instance_image.
CONSTANTS
  Dims = {1, 2}
  MaxAllocs = 4
  Objs = {o1, o2}
  MaskBits <- MCMaskBits
  LMaskBits <- MCLMaskBits
  OutsideBits <- MCOutsideBits
  Bit0 = "MASK_POSITION"
  Vals <- MCVals
SPECIFICATION Spec
INVARIANT TypeOK RawMatchesSize
