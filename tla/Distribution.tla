---------------------------- MODULE Distribution ----------------------------
(***************************************************************************)
(* The arithmetic of distributed vectors: how elements are divided among   *)
(* the processes of an actor, which piece of which part a reader asks for, *)
(* how processes are given to actors, and how the descriptor of a vector   *)
(* lies in memory while it is gathered from the processes.                 *)
(*                                                                         *)
(* Every operator is a function of its arguments: other modules use them   *)
(* in their actions and MCDistribution checks them over bounded inputs.    *)
(***************************************************************************)
EXTENDS Integers, Sequences, FiniteSetsExt

CONSTANT IntMax    \* the largest int: 2^31 - 1 in the program, small in the runs

ASSUME IntMaxAssumption == IntMax \in Nat \ {0}

(***************************************************************************)
(* The conversions of C++ integers.  Word is the number of values of an    *)
(* int (and of a 32-bit word of memory); an unsigned long is two words.    *)
(* A product of ints that overflows is undefined behaviour; the builds the *)
(* CMake files describe wrap it, as ToInt does.                            *)
(***************************************************************************)
Word == 2 * (IntMax + 1)

ToInt(x) == IF x \in -(IntMax + 1)..IntMax THEN x
            ELSE ((x + IntMax + 1) % Word) - (IntMax + 1)

ToULong(x) == IF x >= 0 /\ x < Word * Word THEN x ELSE x % (Word * Word)

(***************************************************************************)
(* div_range: the elements beg..end-1 of a vector of n elements that       *)
(* process s of p holds.  block and rem are ints, n, beg and end unsigned  *)
(* longs.                                                                  *)
(***************************************************************************)
Block(n, p) == ToInt(n \div p)
Rem(n, p) == ToInt(n % p)

\* Mutant: the remainder is given to the last processes, the blocks start as if to the first.
BegOfEqualBlocks(n, s, p) == ToULong(ToInt(Block(n, p) * s))

Beg(n, s, p) ==
    IF s < Rem(n, p) THEN ToULong(ToInt(ToInt(Block(n, p) + 1) * s))
                     ELSE ToULong(n - ToInt((p - s) * Block(n, p)))
End(n, s, p) ==
    IF s < Rem(n, p) THEN ToULong(ToInt(Block(n, p) + 1) + Beg(n, s, p))
                     ELSE ToULong(Block(n, p) + Beg(n, s, p))

PartSize(n, s, p) == ToULong(End(n, s, p) - Beg(n, s, p))

(***************************************************************************)
(* The parts of a vector of n elements of elemSize bytes on the processes  *)
(* pids, under the keys of the sequence keys: handleDistributeVectorMessage*)
(* divides the elements and registers bytes.                               *)
(***************************************************************************)
BlockParts(n, elemSize, pids, keys) ==
    [i \in 1..Len(pids) |->
        [pid |-> pids[i], resid |-> keys[i],
         size |-> PartSize(n, i - 1, Len(pids)) * elemSize,
         offset |-> Beg(n, i - 1, Len(pids)) * elemSize]]

PartEnd(part) == part.offset + part.size

(***************************************************************************)
(* The elements of s at the places I, in their order: a loop over s that   *)
(* goes on to the next element where a condition fails.                    *)
(***************************************************************************)
Nth(I, k) == CHOOSE i \in I : Cardinality({j \in I : j <= i}) = k

Chosen(s, I) == [k \in 1..Cardinality(I) |-> s[Nth(I, k)]]

(***************************************************************************)
(* The size of the vector a descriptor describes.                          *)
(***************************************************************************)
VecSize(dv) == Max({0} \cup {PartEnd(dv[i]) : i \in DOMAIN dv})

(***************************************************************************)
(* dv_get_part and fetchDv: whether a part meets the bytes offset..end-1,  *)
(* and the piece of the part that does: where it starts in the part, its   *)
(* length, and where it goes in the reader's buffer.                       *)
(***************************************************************************)
Meets(part, offset, end) == ~ (PartEnd(part) <= offset \/ part.offset >= end)

ReqOffset(part, offset) == IF offset >= part.offset THEN offset - part.offset ELSE 0

\* Mutant: the bytes of the part before the range are not subtracted.
ReqSizeFromStart(part, offset, end) == Min({part.size, end - part.offset})

ReqSize(part, offset, end) == Min({part.size, end - part.offset}) - ReqOffset(part, offset)
ReqDst(part, offset) == ReqOffset(part, offset) + part.offset - offset

Piece(part, offset, end) ==
    [pid |-> part.pid, resid |-> part.resid, offset |-> ReqOffset(part, offset),
     size |-> ReqSize(part, offset, end), dst |-> ReqDst(part, offset)]

\* The places of the parts that meet the bytes, and the pieces of the parts at the places I.
Met(dv, offset, size) == {i \in DOMAIN dv : Meets(dv[i], offset, offset + size)}

PiecesAt(dv, I, offset, size) ==
    LET parts == Chosen(dv, I)
    IN  [k \in 1..Len(parts) |-> Piece(parts[k], offset, offset + size)]

Pieces(dv, offset, size) == PiecesAt(dv, Met(dv, offset, size), offset, size)

(***************************************************************************)
(* A descriptor in memory, in words numbered from 0: the number of parts,  *)
(* a word of padding, and six words per part.  Sizes and offsets take two  *)
(* words, the low one first.                                               *)
(***************************************************************************)
PartWords == 6

\* Mutant: the parts are taken to start with the descriptor.
PartsFirst == 0

PartsOffset == 1    \* parts_offset = sizeof(int): the padding is not counted

PartWord(part, w) ==
    CASE w = 0 -> part.pid
      [] w = 1 -> part.resid
      [] w = 2 -> part.size % Word
      [] w = 3 -> part.size \div Word
      [] w = 4 -> part.offset % Word
      [] w = 5 -> part.offset \div Word

Buf(dv) ==
    [w \in 0..(1 + PartWords * Len(dv)) |->
        CASE w = 0 -> Len(dv)
          [] w = 1 -> 0
          [] OTHER -> PartWord(dv[((w - 2) \div PartWords) + 1], (w - 2) % PartWords)]

GetPart(buf, i) ==
    LET at == 2 + PartWords * (i - 1)
    IN  [pid |-> buf[at], resid |-> buf[at + 1],
         size |-> buf[at + 2] + Word * buf[at + 3],
         offset |-> buf[at + 4] + Word * buf[at + 5]]

(***************************************************************************)
(* gather_distr_parts: the head copies from the descriptor of each process *)
(* as many words as its parts take, from parts_offset on, one after the    *)
(* other into a new descriptor from parts_offset on.                       *)
(***************************************************************************)
GatheredBuf(dvs) ==
    LET p == Len(dvs)
        nparts == Len(dvs[1])
        partSize == PartWords * nparts
    IN  [w \in 0..(1 + partSize * p) |->
            CASE w = 0 -> nparts * p
              [] w \in PartsOffset..(PartsOffset + partSize * p - 1) ->
                    LET s == (w - PartsOffset) \div partSize
                    IN  Buf(dvs[s + 1])[PartsOffset + ((w - PartsOffset) % partSize)]
              [] OTHER -> 0]

Gathered(dvs) ==
    LET buf == GatheredBuf(dvs)
    IN  [i \in 1..buf[0] |-> GetPart(buf, i)]

(***************************************************************************)
(* receiveDistrVector: the number of parts, from the bytes (here words) of *)
(* the message.                                                            *)
(***************************************************************************)
ReceivedParts(count) == (count - PartsOffset) \div PartWords

(***************************************************************************)
(* ContiguousProcessAllocator: the next process to give and the number     *)
(* left.                                                                   *)
(***************************************************************************)
Allocator(offset, p) == [cur_offset |-> offset, cur_p |-> p]

AllocatedProcs(alloc, p) ==
    IF alloc.cur_p < p THEN << >> ELSE [i \in 1..p |-> alloc.cur_offset + i - 1]

\* Mutant: the processes given are counted but the next allocation starts at the same one.
AllocateFromStart(alloc, p) ==
    IF alloc.cur_p < p THEN alloc
    ELSE [cur_offset |-> alloc.cur_offset, cur_p |-> alloc.cur_p - p]

AfterAllocate(alloc, p) ==
    IF alloc.cur_p < p THEN alloc
    ELSE [cur_offset |-> alloc.cur_offset + p, cur_p |-> alloc.cur_p - p]
=============================================================================
