-------------------------- MODULE XedIldTruncation --------------------------
(***************************************************************************)
(* The same instruction text decoded twice: once with the bytes up to some *)
(* limit (the end of a page), and again, into a zeroed structure, with     *)
(* more of them, as the comment on xed_decode in xed-decode.h has the      *)
(* client do.  The variables of XedIld are the first decode; those of the  *)
(* second start with more_ and share the configuration.  more_itext is the *)
(* text of the second: the same, unless XedPatch changes it in between.    *)
(***************************************************************************)
EXTENDS XedIldProps

VARIABLES more_pc, more_itext, more_max_bytes, more_length, more_out_of_bytes, more_error,
          more_reads, more_pfx, more_enc, more_mrm, more_imd

more_vars == <<more_pc, more_itext, more_max_bytes, more_length, more_out_of_bytes, more_error,
               more_reads, more_pfx, more_enc, more_mrm, more_imd>>

More == INSTANCE XedIld WITH
          pc <- more_pc, itext <- more_itext, max_bytes <- more_max_bytes, length <- more_length,
          out_of_bytes <- more_out_of_bytes, error <- more_error, reads <- more_reads,
          pfx <- more_pfx, enc <- more_enc, mrm <- more_mrm, imd <- more_imd

InitBoth ==
    /\ Init
    /\ max_bytes < MaxInstructionBytes
    /\ more_max_bytes \in {n \in {max_bytes + 1, MaxInstructionBytes} : n <= Len(itext)}
    /\ more_pc = "prefix"
    /\ more_itext = itext
    /\ more_length = 0
    /\ more_out_of_bytes = FALSE
    /\ more_error = "NONE"
    /\ more_reads = 0
    /\ more_pfx = NoPfx /\ more_enc = NoEnc /\ more_mrm = NoMrm /\ more_imd = NoImd

First == Next /\ UNCHANGED more_vars
Second == Done /\ More!Next /\ UNCHANGED vars

NextBoth == First \/ Second
SpecBoth == InitBoth /\ [][NextBoth]_<<vars, more_vars>> /\ WF_<<vars, more_vars>>(NextBoth)

-----------------------------------------------------------------------------
BothDone == Done /\ more_pc = "done"
MoreSuccess == more_pc = "done" /\ more_error = "NONE"

(* An answer that does not ask for more bytes, good or bad, is final:      *)
(* offered more bytes the decoder gives the same answer in every field.    *)
MoreBytesKeepTheAnswer ==
    BothDone /\ ~out_of_bytes /\ more_itext = itext =>
       <<more_length, more_out_of_bytes, more_error, more_pfx, more_enc, more_mrm, more_imd>>
     = <<length, out_of_bytes, error, pfx, enc, mrm, imd>>

(* Bytes are asked for only when needed: an instruction that decodes with  *)
(* more bytes is longer than what was offered when it did not.             *)
AsksOnlyWhenNeeded ==
    BothDone /\ out_of_bytes /\ MoreSuccess => more_length > max_bytes
=============================================================================
