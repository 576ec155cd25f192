------------------------------- MODULE VStore -------------------------------
(***************************************************************************)
(* The texture store of the GLES back-end, src/src/platform/agp/gles.c:    *)
(* one struct storage_info_t with its dimensions, its GL texture and the  *)
(* optional raw pixel buffer (vinf.text.raw, vinf.text.s_raw) that         *)
(* streaming writes into before agp_stream_commit uploads it.  Heap        *)
(* blocks are numbered so that a buffer handed to a caller, freed or lost *)
(* can be told apart; arcan_alloc_mem without ARCAN_MEM_NONFATAL does not *)
(* return NULL.                                                           *)
(***************************************************************************)
EXTENDS Naturals, FiniteSets

CONSTANTS
  Dims,       \* widths and heights requested
  MaxAllocs   \* bound on heap allocations

(* GL_PIXEL_BPP: four bytes per pixel.                                    *)
GL_PIXEL_BPP == 4
NULL == 0
Blocks == 1..MaxAllocs
StreamTypes == {"STREAM_RAW", "STREAM_RAW_DIRECT", "STREAM_RAW_DIRECT_SYNCHRONOUS",
                "STREAM_HANDLE"}

VARIABLES
  w, h, bpp,  \* s->w, s->h, s->bpp
  glid,       \* the texture exists (vinf.text.glid # 0)
  raw,        \* vinf.text.raw: a block or NULL
  s_raw,      \* vinf.text.s_raw
  heap,       \* blocks allocated and not freed
  nextBlock   \* the next block the allocator returns

vars == <<w, h, bpp, glid, raw, s_raw, heap, nextBlock>>

Init ==
  /\ w \in Dims /\ h \in Dims /\ bpp = GL_PIXEL_BPP
  /\ glid = TRUE
  /\ raw = NULL /\ s_raw = 0
  /\ heap = {} /\ nextBlock = 1

(* arcan_alloc_mem                                                        *)
Alloc == nextBlock <= MaxAllocs /\ nextBlock' = nextBlock + 1

(* agp_drop_vstore: the texture and buffers are deleted, then the whole   *)
(* struct is cleared with memset, raw pointer included.                   *)
DropVstore ==
  /\ glid' = FALSE
  /\ w' = 0 /\ h' = 0 /\ bpp' = 0 /\ raw' = NULL /\ s_raw' = 0
  /\ UNCHANGED <<heap, nextBlock>>

(* Mutants: the old buffer freed but the pointer kept; bpp not reset,    *)
(* so a store cleared by agp_drop_vstore keeps bpp 0.                     *)
ResizeVstoreDangling(nw, nh) ==
  /\ w' = nw /\ h' = nh /\ bpp' = GL_PIXEL_BPP
  /\ IF raw # NULL
     THEN /\ Alloc
          /\ s_raw' = nw * nh * GL_PIXEL_BPP
          /\ heap' = (heap \ {raw}) \cup {nextBlock}
          /\ UNCHANGED raw
     ELSE UNCHANGED <<raw, s_raw, heap, nextBlock>>
  /\ glid' = TRUE

ResizeVstoreKeepBpp(nw, nh) ==
  /\ w' = nw /\ h' = nh /\ UNCHANGED bpp
  /\ IF raw # NULL
     THEN /\ Alloc
          /\ raw' = nextBlock
          /\ s_raw' = nw * nh * GL_PIXEL_BPP
          /\ heap' = (heap \ {raw}) \cup {nextBlock}
     ELSE UNCHANGED <<raw, s_raw, heap, nextBlock>>
  /\ glid' = TRUE

(* agp_resize_vstore: new dimensions; an existing raw buffer is freed and *)
(* a new zeroed one of w * h * bpp allocated; agp_update_vstore uploads.  *)
ResizeVstore(nw, nh) ==
  /\ w' = nw /\ h' = nh /\ bpp' = GL_PIXEL_BPP
  /\ IF raw # NULL
     THEN /\ Alloc
          /\ raw' = nextBlock
          /\ s_raw' = nw * nh * GL_PIXEL_BPP
          /\ heap' = (heap \ {raw}) \cup {nextBlock}
     ELSE UNCHANGED <<raw, s_raw, heap, nextBlock>>
  /\ glid' = TRUE

(* agp_stream_prepare.  STREAM_RAW allocates the buffer on first use and  *)
(* hands it out.  The direct types upload the caller's buffer and fall    *)
(* through into STREAM_HANDLE, which maps a handle (no change to the      *)
(* store's buffers either way).                                           *)
StreamPrepare(type) ==
  /\ IF type = "STREAM_RAW"
     THEN IF raw = NULL
          THEN /\ Alloc
               /\ raw' = nextBlock /\ heap' = heap \cup {nextBlock}
               /\ s_raw' = w * h * GL_PIXEL_BPP
          ELSE UNCHANGED <<raw, s_raw, heap, nextBlock>>
     ELSE UNCHANGED <<raw, s_raw, heap, nextBlock>>
  /\ UNCHANGED <<w, h, bpp, glid>>

(* agp_stream_commit uploads the raw buffer into the texture: only the   *)
(* texture's pixels change, which the model does not hold.                *)
StreamCommit == UNCHANGED vars

Next ==
  \/ DropVstore
  \/ \E nw, nh \in Dims : ResizeVstore(nw, nh)
  \/ \E t \in StreamTypes : StreamPrepare(t)
  \/ StreamCommit

Spec == Init /\ [][Next]_vars

-----------------------------------------------------------------------------
TypeOK ==
  /\ w \in Dims \cup {0} /\ h \in Dims \cup {0} /\ bpp \in {0, GL_PIXEL_BPP}
  /\ glid \in BOOLEAN /\ s_raw \in Nat
  /\ heap \subseteq Blocks /\ nextBlock \in 1..MaxAllocs + 1
  /\ raw \in {NULL} \cup heap    \* the pointer is NULL or a live block

(* The raw buffer holds exactly w * h * bpp bytes, the                    *)
(* amount agp_stream_commit uploads, across resizes and first use.        *)
RawMatchesSize == raw # NULL => s_raw = w * h * bpp

=============================================================================
