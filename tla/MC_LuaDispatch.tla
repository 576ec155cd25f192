--------------------------- MODULE MC_LuaDispatch ---------------------------
(* Instantiation of LuaDispatch for TLC.                                  *)
EXTENDS LuaDispatch, TLC

(* A theme with input, clock, audio, video and target handlers and no   *)
(* system handler.                                                      *)
MCHandlers == {"input", "video_event", "target_event", "clock_pulse", "audio_event"}

(* A theme that also defines <theme>_system.                               *)
MCHandlersSystem == MCHandlers \cup {"system"}

(* No operation tells two object ids apart: the engine hands out any   *)
(* free id, and events and refs name ids only by equality.              *)
MCSymmetry == Permutations(Vids)

=============================================================================
