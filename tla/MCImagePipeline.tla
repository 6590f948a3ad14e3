-------------------------- MODULE MCImagePipeline --------------------------
(***************************************************************************)
(* Images of three rows of three pixels, made two by two: the last row and *)
(* the last column of squares are cut.  The hash is small, so that         *)
(* different images meet in one slot.                                      *)
(***************************************************************************)
EXTENDS ImagePipeline

PatternByte(c, k) == (97 * c * c + 31 * c * k + 7 * k) % 256
SumHash(s) == SumOf([i \in DOMAIN s |-> i * s[i]], DOMAIN s)

SmallPrograms ==
    [command : {"insert_list", "compress"}, disk : 1..3, compressor : 1..2, db : 1..3]
      \cup [command : {"fill_db"}, disk : {1}, compressor : 1..2, db : 1..2]
      \cup [command : {"load"}, disk : 1..3, compressor : {1}, db : {1}]
      \cup [command : {"insert_list_seq"}, disk : 1..2, compressor : 1..2, db : 1..2]
=============================================================================
