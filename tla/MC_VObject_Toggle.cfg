\* image_mask_toggle against the flip its name promises.
CONSTANTS
  Dims = {1}
  MaxAllocs = 1
  Objs = {o1, o2}
  MaskBits <- MCMaskBits
  LMaskBits <- MCLMaskBits
  OutsideBits <- MCOutsideBits
  Bit0 = "MASK_POSITION"
  Vals <- MCVals
SPECIFICATION Spec
PROPERTY ToggleFlipsGiven
