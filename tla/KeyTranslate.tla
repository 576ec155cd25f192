----------------------------- MODULE KeyTranslate -----------------------------
(***************************************************************************)
(* The pure translations src/arcan_lua.c offers for keyboard input:       *)
(* to_utf8, utf8kind and decode_modifiers.                                 *)
(*                                                                         *)
(* to_utf8 of src/arcan_lua.c: the UTF-16 code unit of a translated key   *)
(* event (its subid) turned into the "utf8" string of the input table.    *)
(* The function is pure apart from its static result buffer, which         *)
(* lua_pushstring copies at once.  ToUtf8 follows the C code (a byte count *)
(* from five shifted thresholds, then the bytes from the highest group    *)
(* down, the lead byte or-ed with 0xff << (8 - count) truncated to a      *)
(* char); RefUtf8 is the encoding of RFC 3629.  The behaviour checks      *)
(* every code unit: Init picks one, Encode runs the function on it.       *)
(* decode_modifiers turns the 16-bit SDL modifier mask of a translated    *)
(* key into a table of names; DecodeModifiers runs it on the same value.  *)
(* The translated key's table also goes the other way: SendBack is the    *)
(* script handing it to target_input, which rebuilds the event.           *)
(***************************************************************************)
EXTENDS Naturals, Sequences, FiniteSets, Bitwise

CONSTANTS Units   \* the uint16_t inputs checked

VARIABLES u, out, mods, tbl, back

Byte(n) == n % 256

(* Mutant: the first threshold compared as 0x400 instead of 0x800.       *)
ByteCountLow(c) ==
  1 + (IF c >= 128 THEN 1 ELSE 0)
    + Cardinality({k \in 0..4 : 10 + 5 * k < 16 /\ c >= 2^(10 + 5 * k)})

(* count = 1, +1 from 0x80, +1 for each of the masks 0x800 << 5k, k < 5  *)
(* (uint32_t).  A uint16_t is below 2^16, so the masks from 2^16 up are   *)
(* not compared (2^31 is beyond TLC's integers).                          *)
ByteCount(c) ==
  1 + (IF c >= 128 THEN 1 ELSE 0)
    + Cardinality({k \in 0..4 : 11 + 5 * k < 16 /\ c >= 2^(11 + 5 * k)})

(* The byte written for group i of a count-byte encoding.                *)
GroupByte(c, i, count) ==
  LET ch == (shiftR(c, 6 * i) & 63) | 128
  IN IF i = count - 1 THEN ch | Byte(255 * 2^(8 - count)) ELSE ch

(* to_utf8: one byte for count 1, else groups count-1 .. 0; the result is  *)
(* a C string, so a zero byte ends it.                                    *)
ToUtf8(c) ==
  LET count == ByteCount(c)
  IN IF count = 1
     THEN IF c = 0 THEN <<>> ELSE <<c>>
     ELSE [j \in 1..count |-> GroupByte(c, count - j, count)]

(* RFC 3629 for a scalar value below 0x10000.                              *)
RefUtf8(c) ==
  CASE c < 128  -> <<c>>
    [] c < 2048 -> <<192 + (c \div 64), 128 + (c % 64)>>
    [] OTHER    -> <<224 + (c \div 4096), 128 + ((c \div 64) % 64), 128 + (c % 64)>>

Surrogates == 55296..57343   \* 0xD800 .. 0xDFFF

(* Mutant: the test on bit 6 inverted.                                    *)
Utf8KindSwapped(c) ==
  IF (c % 256) & 128 # 0 THEN (IF (c % 256) & 64 # 0 THEN 2 ELSE 1) ELSE 0

(* arcan_lua_utf8kind: the int argument stored in a char; 0 for a byte    *)
(* below 0x80, 1 with bits 7 and 6 set (a lead byte), 2 with bit 7 only   *)
(* (a continuation byte).                                                 *)
Utf8Kind(c) ==
  IF (c % 256) & 128 # 0 THEN (IF (c % 256) & 64 # 0 THEN 1 ELSE 2) ELSE 0

(* The KMOD_ values of SDL_keysym.h (SDL 1.2), which src/ does not hold.  *)
KMOD == [lshift |-> 1, rshift |-> 2, lctrl |-> 64, rctrl |-> 128,
         lalt |-> 256, ralt |-> 512, lmeta |-> 1024, rmeta |-> 2048,
         num |-> 4096, caps |-> 8192, mode |-> 16384]

(* arcan_lua_decodemod: one name per modifier bit held, in the order of   *)
(* the tests (shift, alt, ctrl, meta, num, caps); KMOD_MODE is not tested. *)
DecodeMod(m) ==
  SelectSeq(<<"lshift", "rshift", "lalt", "ralt", "lctrl", "rctrl",
              "lmeta", "rmeta", "num", "caps">>, LAMBDA n : m & KMOD[n] > 0)

(* A translated key event (arcan_event.h 190-199) whose fields all come  *)
(* from the code unit c: across the 16-bit inputs every field takes every *)
(* value of its width, and the key is pressed for an even c.              *)
KeyEvent(c) ==
  [kind |-> IF c % 2 = 0 THEN "KEYB_PRESS" ELSE "KEYB_RELEASE",
   devkind |-> "KEYBOARD", datatype |-> "TRANSLATED",
   scancode |-> c % 256, keysym |-> c, modifiers |-> c, devid |-> c \div 256,
   subid |-> c]

(* Mutant: "number" filled from the keysym instead of the scancode.       *)
PushKeyTableKeysymNumber(ev) ==
  [kind |-> "digital", translated |-> TRUE, number |-> ev.keysym,
   keysym |-> ev.keysym, modifiers |-> ev.modifiers, devid |-> ev.devid,
   subid |-> ev.subid, active |-> ev.kind = "KEYB_PRESS",
   device |-> "translated", subdevice |-> "keyboard"]

(* The input table arcan_lua_pushevent builds for a keyboard event, less  *)
(* its "utf8" field (out).  The numeric kind arcan_lua_funtable stores is *)
(* overwritten by the string "digital".                                   *)
PushKeyTable(ev) ==
  [kind |-> "digital", translated |-> TRUE, number |-> ev.scancode,
   keysym |-> ev.keysym, modifiers |-> ev.modifiers, devid |-> ev.devid,
   subid |-> ev.subid, active |-> ev.kind = "KEYB_PRESS",
   device |-> "translated", subdevice |-> "keyboard"]

NoTable == [kind |-> "none"]
NoEvent == [kind |-> "none"]

(* Mutant: the event kind left at the initializer's 0                     *)
(* (EVENT_IO_BUTTON_PRESS), as the untranslated digital branch does.      *)
TargetInputKeyNoKind(t) ==
  [kind |-> "BUTTON_PRESS", devkind |-> "KEYBOARD", datatype |-> "TRANSLATED",
   scancode |-> t.number % 256, keysym |-> t.keysym % 65536,
   modifiers |-> t.modifiers % 65536, devid |-> t.devid % 256,
   subid |-> t.subid % 65536]

(* arcan_lua_targetinput on a table whose kind is "digital" and which is  *)
(* translated: every number read with lua_tointeger and stored in its     *)
(* field of the translated payload, the kind chosen by "active".          *)
TargetInputKey(t) ==
  [kind |-> IF t.active THEN "KEYB_PRESS" ELSE "KEYB_RELEASE",
   devkind |-> "KEYBOARD", datatype |-> "TRANSLATED",
   scancode |-> t.number % 256, keysym |-> t.keysym % 65536,
   modifiers |-> t.modifiers % 65536, devid |-> t.devid % 256,
   subid |-> t.subid % 65536]

Init == u \in Units /\ out = <<>> /\ mods = <<>> /\ tbl = NoTable /\ back = NoEvent

(* arcan_lua_pushevent for a translated key: the table, with to_utf8 of   *)
(* the subid as its "utf8".                                               *)
Encode ==
  /\ out' = ToUtf8(KeyEvent(u).subid) /\ tbl' = PushKeyTable(KeyEvent(u))
  /\ UNCHANGED <<u, mods, back>>

(* decode_modifiers(modval) on the same 16-bit value.                     *)
DecodeModifiers == mods' = DecodeMod(u) /\ UNCHANGED <<u, out, tbl, back>>

(* The script hands the table it received back to target_input for a     *)
(* frameserver, which converts it into the event it pushes.               *)
SendBack ==
  /\ tbl # NoTable
  /\ back' = TargetInputKey(tbl)
  /\ UNCHANGED <<u, out, mods, tbl>>

Spec == Init /\ [][Encode \/ DecodeModifiers \/ SendBack]_<<u, out, mods, tbl, back>>

-----------------------------------------------------------------------------
TypeOK ==
  /\ u \in Units /\ out \in Seq(0..255) /\ Len(out) <= 3 /\ Len(mods) <= 10
  /\ tbl \in {NoTable} \cup
       [kind: {"digital"}, translated: BOOLEAN, number: 0..255, keysym: 0..65535,
        modifiers: 0..65535, devid: 0..255, subid: 0..65535, active: BOOLEAN,
        device: {"translated"}, subdevice: {"keyboard"}]
  /\ back \in {NoEvent} \cup
       [kind: {"KEYB_PRESS", "KEYB_RELEASE", "BUTTON_PRESS"}, devkind: {"KEYBOARD"},
        datatype: {"TRANSLATED"}, scancode: 0..255, keysym: 0..65535,
        modifiers: 0..65535, devid: 0..255, subid: 0..65535]

(* A script walking the string to_utf8 produced with utf8kind sees one    *)
(* plain byte, or a lead byte followed only by continuation bytes.        *)
Utf8KindAgrees ==
  \A k \in DOMAIN out :
    Utf8Kind(out[k]) = IF k > 1 THEN 2 ELSE IF Len(out) = 1 THEN 0 ELSE 1

(* For a code unit that is a Unicode scalar value, other than NUL which   *)
(* the C string cannot carry, the string pushed to the script is its      *)
(* UTF-8 encoding.                                                        *)
EncodesScalars ==
  (out # <<>> /\ u \notin Surrogates) => out = RefUtf8(u)

(* The comment before target_input: a table pushevent delivered is        *)
(* "converted back into an arcan event".  For a translated key the event  *)
(* the frameserver receives is the one the script was shown, press or     *)
(* release, in every field of the translated payload.                     *)
KeyRoundTrip == back # NoEvent => back = KeyEvent(u)

=============================================================================
