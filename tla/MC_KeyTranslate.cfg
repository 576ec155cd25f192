\* to_utf8, utf8kind, decode_modifiers and the translated key round trip on every uint16_t value.
\* Encode repeats itself once done
\* (the same call on the same unit), so no state lacks a successor.
CONSTANTS
  Units <- AllUnits
SPECIFICATION Spec
INVARIANT TypeOK EncodesScalars Utf8KindAgrees KeyRoundTrip
