---------------------------- MODULE MCXedIldAgain ----------------------------
(* Two decodes of one text, the second with more bytes or after a patch:    *)
(* MCXedIld's tables.                                                       *)
EXTENDS MCXedIld, XedPatch

TruncPrefixes == {<<>>, <<\h66>>, <<\h48>>, <<\hF2, \h67>>}
TruncOffers == 0..14
=============================================================================
