--------------------------- MODULE MCOtteryState ---------------------------
(***************************************************************************)
(* OtteryState for TLC, with blocks of a few bytes: small enough to        *)
(* explore, large enough that requests stop short of, exactly at and       *)
(* beyond every boundary of the buffer.                                    *)
(***************************************************************************)
EXTENDS OtteryState

(* Nothing, one byte, what a fresh buffer holds, a block, one byte more,   *)
(* and a bulk request that crosses two blocks.                             *)
EdgeRequests ==
  {0, 1, OutputLen - StateBytes, OutputLen, OutputLen + 1,
   2 * OutputLen + StateBytes + 1}

(* The bulk and the small request that are enough where calls in several   *)
(* processes are interleaved.                                              *)
OneOfEach == {OutputLen \div 2, 2 * OutputLen - StateBytes}
=============================================================================
