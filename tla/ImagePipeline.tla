--------------------------- MODULE ImagePipeline ---------------------------
(***************************************************************************)
(* The image processing program: a disk actor that stores and loads images *)
(* in one file per process, a compressor that turns an image into a small  *)
(* monochrome one, and a database, a hash table spread over the processes  *)
(* of a third actor.  The program stores images, then runs one command:    *)
(* the asynchronous pipeline load, compress, insert over a list of images  *)
(* (insert_list), the same with whole images instead of distributed        *)
(* vectors (insert_list_seq), the insertion of images the program itself   *)
(* reads and distributes (fill_db), or the loading or the compression of   *)
(* images for the program (load, compress).                                *)
(*                                                                         *)
(* An SPMD function is a sequence of supersteps whose outcome does not     *)
(* depend on the order in which the processes reach them: it is one step   *)
(* here, and what is interleaved are the calls of the three actors.  Reads *)
(* of distributed vectors return the bytes of their parts (ResultParts);   *)
(* the actor that used a vector releases it, and nothing reads it later.   *)
(***************************************************************************)
EXTENDS Distribution, SequencesExt

CONSTANTS
    NImages,                            \* bound: images on the list
    Contents,                           \* the different images
    Byte(_, _),                         \* Byte(c, k): byte k of the pixels of image c
    Width, Height,                      \* of every image
    HeaderBytes,                        \* the header of an image, and the one
    OutHeaderBytes,                     \*   of a compressed image
    CompressWidth, CompressHeight,
    HashSize,                           \* HASH_SIZE
    HashRange(_),                       \* boost::hash_range
    Programs                            \* the commands and numbers of processes to run them with

ASSUME SizeAssumption ==
    /\ {NImages, Width, Height, CompressWidth, CompressHeight, HashSize} \subseteq Nat \ {0}
    /\ {HeaderBytes, OutHeaderBytes} \subseteq Nat
    /\ OutHeaderBytes <= HeaderBytes
ASSUME ProgramAssumption ==
    Programs \subseteq [command : {"insert_list", "insert_list_seq", "fill_db", "load", "compress"},
                        disk : Nat \ {0}, compressor : Nat \ {0}, db : Nat \ {0}]

PixelSize == 3          \* sizeof(pixel_t)
MaxVal == 255           \* COMPRESS_BIT_PER_PIXEL = 8
Stale == 0              \* a byte of a buffer that nothing was read into
Header(k) == 256 + k    \* byte k of a header, apart from those of pixels

ImageSize == HeaderBytes + Width * Height * PixelSize
FullSize == CompressWidth * CompressHeight

VARIABLES
    prog,       \* the command and the sizes of the actors
    content,    \* content[i]: the image that is i-th on the list
    files,      \* files[i][s]: what process s of the disk actor wrote of image i, by its path
    images,     \* images[i]: the parts of the loaded image
    thumbs,     \* thumbs[i]: the parts of the compressed image
    inserted,   \* images inserted in the database
    table,      \* table[s][h]: ImageDatabase::_hashTable of process s
    saved       \* the files saveDb writes, by process

vars == <<prog, content, files, images, thumbs, inserted, table, saved>>

Procs(p) == 0..(p - 1)
Sequential == prog.command = "insert_list_seq"

(***************************************************************************)
(* A vector is a sequence of parts, each an offset and its bytes.          *)
(***************************************************************************)
AsPart(offset, data) == [offset |-> offset, size |-> Len(data), data |-> data]

SizeOf(parts) == Max({0} \cup {PartEnd(parts[j]) : j \in DOMAIN parts})

ByteAt(parts, u) ==
    LET holders == {j \in DOMAIN parts : parts[j].offset <= u /\ u < PartEnd(parts[j])}
    IN  IF holders = {} THEN Stale ELSE LET j == Max(holders) IN parts[j].data[u - parts[j].offset + 1]

\* dv_get_part.
Read(parts, offset, size) == [k \in 1..size |-> ByteAt(parts, offset + k - 1)]

Image(c) == [k \in 1..ImageSize |-> IF k <= HeaderBytes THEN Header(k) ELSE Byte(c, k - HeaderBytes - 1)]

(***************************************************************************)
(* The hash table: the slots are divided in blocks of equal size, rounded  *)
(* up.                                                                     *)
(***************************************************************************)
HashBlock(p) == (HashSize \div p) + (IF HashSize % p # 0 THEN 1 ELSE 0)
HashStart(s, p) == HashBlock(p) * s
NHash(s, p) == IF HashStart(s, p) + HashBlock(p) <= HashSize THEN HashBlock(p) ELSE HashSize - HashStart(s, p)

Init ==
    /\ prog \in Programs
    /\ content \in [1..NImages -> Contents]
    /\ files = << >>
    /\ images = << >>
    /\ thumbs = << >>
    /\ inserted = 0
    /\ table = [s \in Procs(prog.db) |-> [h \in Procs(NHash(s, prog.db)) |-> << >>]]
    /\ saved = << >>

-----------------------------------------------------------------------------
(***************************************************************************)
(* storeImage: process s writes its range of the image (div_range) to the  *)
(* file of its own.                                                        *)
(***************************************************************************)
StoreImage ==
    /\ Len(files) < NImages
    /\ files' = Append(files, [s \in Procs(prog.disk) |->
                    Read(<<AsPart(0, Image(content[Len(files) + 1]))>>,
                         Beg(ImageSize, s, prog.disk), PartSize(ImageSize, s, prog.disk))])
    /\ UNCHANGED <<prog, content, images, thumbs, inserted, table, saved>>

(***************************************************************************)
(* loadImage: the processes tell each other the size of their files, and   *)
(* each registers its bytes at its rank times the largest size.            *)
(***************************************************************************)
\* Mutant: every process counts with the size of its own file.
OwnBlock(file, s) == Len(file[s])

MaxBlock(file, s) == Max({Len(file[t]) : t \in DOMAIN file})

LoadImage ==
    LET file == files[Len(images) + 1]
    IN  /\ Len(files) = NImages /\ Len(images) < NImages
        /\ images' = Append(images, [j \in 1..prog.disk |-> AsPart((j - 1) * MaxBlock(file, j - 1), file[j - 1])])
        /\ UNCHANGED <<prog, content, files, thumbs, inserted, table, saved>>

(***************************************************************************)
(* fillDb: the program distributes the image it decoded over the processes *)
(* of the compressor (block_distribute), once the image before it is in    *)
(* the database.                                                           *)
(***************************************************************************)
DistributeImage ==
    LET p == prog.compressor
        whole == <<AsPart(0, Image(content[Len(images) + 1]))>>
    IN  /\ Len(images) < NImages /\ Len(images) = inserted
        /\ images' = Append(images, [j \in 1..p |->
                AsPart(Beg(ImageSize, j - 1, p), Read(whole, Beg(ImageSize, j - 1, p), PartSize(ImageSize, j - 1, p)))])
        /\ UNCHANGED <<prog, content, files, thumbs, inserted, table, saved>>

(***************************************************************************)
(* loadImageSeq: the head's buffer has room for one file per process, and  *)
(* each process puts its own there.  The files are of one size: a process  *)
(* is told one size only, the one some process wrote last, and otherwise   *)
(* they would disagree on the places and on the bsp_sync that follows.     *)
(***************************************************************************)
LoadImageSeq ==
    LET file == files[Len(images) + 1]
        block == Len(file[0])
        puts == [j \in 1..prog.disk |-> AsPart((j - 1) * block, file[j - 1])]
    IN  /\ Len(files) = NImages /\ Len(images) < NImages
        /\ \A t \in DOMAIN file : Len(file[t]) = block
        /\ images' = Append(images, <<AsPart(0, Read(puts, 0, prog.disk * block))>>)
        /\ UNCHANGED <<prog, content, files, thumbs, inserted, table, saved>>

-----------------------------------------------------------------------------
(***************************************************************************)
(* compress on process s of p: the rows of the small image are divided,    *)
(* the rows of pixels they cover are read behind the header of the small   *)
(* image (which the head writes unless it is left out), and the averages   *)
(* are written over the pixels they are computed from.                     *)
(***************************************************************************)
CeilDiv(a, b) == (a + b - 1) \div b
NRows == CeilDiv(Height, CompressHeight)
NCols == CeilDiv(Width, CompressWidth)

FirstRow(s, p) == Beg(CompressHeight, s, p)
Rows(s, p) == PartSize(CompressHeight, s, p)
PartY1(s, p) == FirstRow(s, p) * NRows
PartY2(s, p) == Min({End(CompressHeight, s, p) * NRows, Height})
PartHeight(s, p) == PartY2(s, p) - PartY1(s, p)

\* A process that is given rows past the last one of the image would ask for
\* a buffer of a negative size: no program runs with so many processes.
ASSUME RowsAssumption ==
    \A pr \in Programs : \A s \in Procs(pr.compressor) : PartHeight(s, pr.compressor) >= 0

PixelAt(buf, start, y, x) ==
    LET at == start + PixelSize * (y * Width + x)
    IN  (buf[at + 1] + buf[at + 2] + buf[at + 3]) \div 3

SumOf(f, S) == FoldSet(LAMBDA e, acc : f[e] + acc, 0, S)

\* Value k of the small image, of the pixels in buf after start, in height
\* rows; the doubles of the code are taken as exact.
Average(buf, start, height, k) ==
    LET x1 == (k % CompressWidth) * NCols
        y1 == (k \div CompressWidth) * NRows
        square == (y1..(Min({y1 + NRows, height}) - 1)) \X (x1..(Min({x1 + NCols, Width}) - 1))
        pixel == [yx \in square |-> PixelAt(buf, start, yx[1], yx[2])]
    IN  (SumOf(pixel, square) * MaxVal) \div (256 * Max({1, Cardinality(square)}))

\* Mutant: the values are written where the pixels are, not one after the other.
OutAtPixel(start, k) == start + (PixelSize * NCols * k) + 1

OutAt(start, k) == start + k + 1

Compressed(buf, start, height, n) ==
    LET after[k \in 0..n] ==
            IF k = 0 THEN buf
            ELSE LET b == after[k - 1]
                 IN  [b EXCEPT ![OutAt(start, k - 1)] = Average(b, start, height, k - 1)]
    IN  SubSeq(after[n], 1, start + n)

OutHeader == IF prog.command = "compress" THEN OutHeaderBytes ELSE 0

CompressPart(parts, s, p) ==
    LET start == IF s = 0 THEN OutHeader ELSE 0
        offset == Width * PartY1(s, p) * PixelSize
        size == Width * PartHeight(s, p) * PixelSize
        header == [k \in 1..start |-> Header(k)]
        pixels == Read(parts, offset + HeaderBytes, size)
        room == [k \in 1..(IF s = 0 THEN HeaderBytes - start ELSE 0) |-> Stale]
        first == FirstRow(s, p) * CompressWidth
    IN  AsPart(IF s = 0 THEN first ELSE OutHeader + first,
               Compressed(header \o pixels \o room, start, PartHeight(s, p), CompressWidth * Rows(s, p)))

SmallImage(parts, p) == [j \in 1..p |-> CompressPart(parts, j - 1, p)]

Compress ==
    /\ Len(thumbs) < Len(images)
    /\ thumbs' = Append(thumbs, SmallImage(images[Len(thumbs) + 1], prog.compressor))
    /\ UNCHANGED <<prog, content, files, images, inserted, table, saved>>

(***************************************************************************)
(* compressSeq: the head hands out the rows and collects the results.      *)
(***************************************************************************)
CompressSeq ==
    /\ Len(thumbs) < Len(images)
    /\ thumbs' = Append(thumbs,
            <<AsPart(0, Read(SmallImage(images[Len(thumbs) + 1], prog.compressor), 0, FullSize))>>)
    /\ UNCHANGED <<prog, content, files, images, inserted, table, saved>>

-----------------------------------------------------------------------------
(***************************************************************************)
(* insert: every process hashes its range of the small image, the hash of  *)
(* the hashes gives the slot and the process that has it, and every        *)
(* process puts its range into a buffer there.                             *)
(***************************************************************************)
RangeOf(parts, s, p) == Read(parts, Beg(FullSize, s, p), PartSize(FullSize, s, p))

Slot(parts, p) == HashRange([j \in 1..p |-> HashRange(RangeOf(parts, j - 1, p))]) % HashSize
DstProc(slot, p) == slot \div HashBlock(p)

Thumbnail(parts, p) == Read([j \in 1..p |-> AsPart(Beg(FullSize, j - 1, p), RangeOf(parts, j - 1, p))], 0, FullSize)

\* Mutant: the images that are there are not compared.
EntryAppended(entry, thumbnail) == Append(entry, thumbnail)

EntryWith(entry, thumbnail) == IF Contains(entry, thumbnail) THEN entry ELSE Append(entry, thumbnail)

Insert ==
    LET parts == thumbs[inserted + 1]
        slot == Slot(parts, prog.db)
        dst == DstProc(slot, prog.db)
    IN  /\ inserted < Len(thumbs)
        /\ table' = [table EXCEPT ![dst][slot - HashStart(dst, prog.db)] = EntryWith(@, Thumbnail(parts, prog.db))]
        /\ inserted' = inserted + 1
        /\ UNCHANGED <<prog, content, files, images, thumbs, saved>>

(***************************************************************************)
(* insertSeq: the head puts every process's range into its buffer, and in  *)
(* doing so sets its own size to what is between its start and the end of  *)
(* the last range; it then puts that much, from a buffer of its range.     *)
(***************************************************************************)
HeadPut(parts, p) == AsPart(0, [k \in 1..FullSize |-> IF k <= PartSize(FullSize, 0, p) THEN ByteAt(parts, k - 1) ELSE Stale])

InsertSeq ==
    LET parts == thumbs[inserted + 1]
        p == prog.db
        slot == Slot(parts, p)
        dst == DstProc(slot, p)
        others == [j \in 1..(p - 1) |-> AsPart(Beg(FullSize, j, p), RangeOf(parts, j, p))]
    IN  /\ inserted < Len(thumbs)
        /\ \E puts \in {<<HeadPut(parts, p)>> \o others, others \o <<HeadPut(parts, p)>>} :
              table' = [table EXCEPT ![dst][slot - HashStart(dst, p)] = EntryWith(@, Read(puts, 0, FullSize))]
        /\ inserted' = inserted + 1
        /\ UNCHANGED <<prog, content, files, images, thumbs, saved>>

(***************************************************************************)
(* saveDb: one file per image, numbered by each process, with its slot.    *)
(***************************************************************************)
SavedSlot(s, p, h) == HashStart(s, p) + h

SavedBy(s, p) ==
    FlattenSeq([h \in 1..NHash(s, p) |->
        [k \in 1..Len(table[s][h - 1]) |-> [hash |-> SavedSlot(s, p, h - 1), thumbnail |-> table[s][h - 1][k]]]])

SaveDb ==
    /\ inserted = NImages /\ saved = << >>
    /\ saved' = [s \in 1..prog.db |-> SavedBy(s - 1, prog.db)]
    /\ UNCHANGED <<prog, content, files, images, thumbs, inserted, table>>

-----------------------------------------------------------------------------
(***************************************************************************)
(* The commands.  Each makes its calls image by image without waiting, so  *)
(* that the three actors work on different images at a time, each on one   *)
(* after the other; the database is saved when all have been inserted.     *)
(* Only fillDb waits for each call.                                        *)
(***************************************************************************)
StoreImagesOnDisk ==
    /\ prog.command # "fill_db"
    /\ StoreImage

InsertDir ==
    /\ prog.command = "insert_list"
    /\ LoadImage \/ Compress \/ Insert \/ SaveDb

InsertDirSeq ==
    /\ Sequential
    /\ LoadImageSeq \/ CompressSeq \/ InsertSeq \/ SaveDb

FillDb ==
    /\ prog.command = "fill_db"
    /\ DistributeImage \/ Compress \/ Insert \/ SaveDb

LoadImg ==
    /\ prog.command = "load"
    /\ LoadImage

CompressImg ==
    /\ prog.command = "compress"
    /\ LoadImage \/ Compress

Next == StoreImagesOnDisk \/ InsertDir \/ InsertDirSeq \/ FillDb \/ LoadImg \/ CompressImg

Spec == Init /\ [][Next]_vars

-----------------------------------------------------------------------------
(***************************************************************************)
(* A loaded image is the image that was stored, as long as the files of    *)
(* all processes but the last have one size.                               *)
(***************************************************************************)
EvenFiles == ImageSize % prog.disk \in {0, prog.disk - 1}

LoadedIsStored ==
    EvenFiles => \A i \in DOMAIN images :
        /\ SizeOf(images[i]) = ImageSize
        /\ Read(images[i], 0, ImageSize) = Image(content[i])

(***************************************************************************)
(* What the processes of the compressor register together is the small     *)
(* image that a single process would compute from a copy of the pixels:    *)
(* nothing is overwritten before it is used, and the parts fit together    *)
(* behind the header.                                                      *)
(***************************************************************************)
SmallImageOf(c) ==
    LET pixels == [k \in 1..(Width * Height * PixelSize) |-> Byte(c, k - 1)]
    IN  [k \in 1..(OutHeader + FullSize) |->
            IF k <= OutHeader THEN Header(k) ELSE Average(pixels, 0, Height, k - OutHeader - 1)]

CompressedIsRight ==
    EvenFiles => \A i \in DOMAIN thumbs :
        Read(thumbs[i], 0, SizeOf(thumbs[i])) = SmallImageOf(content[i])

(***************************************************************************)
(* The saved database has every inserted image exactly once, however often *)
(* it was inserted and however many processes the database has, under the  *)
(* slot its hash gives, and nothing else.  (insertSeq puts too much from   *)
(* the head once the database has a second process.)                       *)
(***************************************************************************)
SavedOnce ==
    EvenFiles /\ (Sequential => prog.db = 1) /\ saved # << >> =>
        LET all == FlattenSeq(saved)
            want == {SmallImageOf(content[i]) : i \in 1..NImages}
        IN  /\ {all[k].thumbnail : k \in DOMAIN all} = want
            /\ Len(all) = Cardinality(want)
            /\ \A k \in DOMAIN all : all[k].hash = Slot(<<AsPart(0, all[k].thumbnail)>>, prog.db)
=============================================================================
