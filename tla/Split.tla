------------------------------- MODULE Split -------------------------------
(***************************************************************************)
(* How the edge client cuts a range of a file into chunks, and how it      *)
(* reads one chunk of the source (client-plugin/upload/split, util.go and  *)
(* the download adaptors).  A file of n bytes is the numbers 0 .. n - 1,   *)
(* what is read of it a sequence of them.                                  *)
(***************************************************************************)
EXTENDS Integers, Sequences, FiniteSetsExt, SequencesExt

CONSTANTS
  TargetParts,  \* about so many chunks are aimed at (10)
  ChunkSizes    \* the powers of two a chunk may have (64 MB to 2 GB)

ASSUME ChunkAssumption ==
  /\ TargetParts \in Nat \ {0}
  /\ ChunkSizes \subseteq Nat \ {0}
  /\ \E largest \in ChunkSizes : \A size \in ChunkSizes : size <= largest
  /\ \A small, large \in ChunkSizes : small <= large => large % small = 0

Bytes(from, to) == [k \in 1..(to - from) |-> from + k - 1]
Least(a, b) == IF a < b THEN a ELSE b
RoundedDiv(a, b) == (a + b \div 2) \div b

(* The next power of two, between the least and the greatest; the least    *)
(* for a total of 0 or less.                                               *)
AutoSelectChunkSize(total) ==
  LET wanted == RoundedDiv(total, TargetParts)
      enough == {size \in ChunkSizes : size >= wanted}
  IN IF enough = {} THEN Max(ChunkSizes) ELSE Min(enough)

(* The block size of dd is spelled out and parsed again ("64M"): every     *)
(* size AutoSelectChunkSize can return has a name that parses to it.       *)
AutoSelectBs(total) == AutoSelectChunkSize(total)

RangeEnd(size, start, length) ==
  IF length <= 0 THEN size ELSE Least(start + length, size)

SplitFails(size, start) == start < 0 \/ start >= size

(* The chunk table, in the order of the indexes, when the range is valid;  *)
(* an end beyond the file is cut off.                                      *)
SplitFilebyRange(size, start, length, noSplit) ==
  LET end == RangeEnd(size, start, length)
      chunkSize == IF noSplit THEN end - start ELSE AutoSelectChunkSize(end - start)
      n == (end - start + chunkSize - 1) \div chunkSize
      Offset(i) == start + (i - 1) * chunkSize
  IN [i \in 1..n |-> [offset |-> Offset(i), size |-> Least(chunkSize, end - Offset(i))]]

(* DownloadFile of the four sources; a length of 0 or less is the whole    *)
(* file.  S3: a Range header, which names the last byte.                   *)
ReadS3(size, start, length) ==
  IF length <= 0 THEN Bytes(0, size)
  ELSE LET last == start + length - 1 IN Bytes(start, Least(last, size - 1) + 1)

(* GCS: NewRangeReader, which ends with the object.                        *)
ReadGCS(size, start, length) ==
  IF length <= 0 THEN Bytes(0, size) ELSE Bytes(start, Least(start + length, size))

(* The client's own disk: Seek, and a reader limited to what there is.     *)
ReadLocal(size, start, length) ==
  LET actualStart == IF length <= 0 THEN 0 ELSE start
      actualLength == CASE length <= 0 -> size
                        [] length > 0 /\ start + length > size -> size - start
                        [] OTHER -> length
  IN Bytes(actualStart, actualStart + actualLength)

(* A remote disk: dd over ssh, in whole blocks, when all goes well.        *)
ReadRemote(size, start, length) ==
  LET bs == AutoSelectBs(length)
      skip == start \div bs
      count == (length + bs - 1) \div bs
  IN Bytes(Least(skip * bs, size), Least((skip + count) * bs, size))

DownloadFile(source, size, start, length) ==
  CASE source = "s3"     -> ReadS3(size, start, length)
    [] source = "gcs"    -> ReadGCS(size, start, length)
    [] source = "local"  -> ReadLocal(size, start, length)
    [] source = "remote" -> ReadRemote(size, start, length)

Beginnings(content) == {SubSeq(content, 1, n) : n \in 0..Len(content)}

(* What the reader of DownloadFile may give before its end.  A failing dd  *)
(* and a lost connection look like the end of the file; the others refuse  *)
(* to start beyond it, and tell a connection that broke from the end.      *)
Reads(source, size, start, length) ==
  LET whole == DownloadFile(source, size, start, length)
  IN CASE source = "remote" -> Beginnings(whole)
       [] source # "remote" /\ start < size -> {whole}
       [] OTHER -> {}

(* What all chunks of a range are, one after the other.                    *)
DownloadRange(source, size, start, length, noSplit) ==
  LET chunks == SplitFilebyRange(size, start, length, noSplit)
  IN FlattenSeq([i \in DOMAIN chunks |->
                   DownloadFile(source, size, chunks[i].offset, chunks[i].size)])

(* And what may be read of them.                                           *)
RangeReads(source, size, start, length, noSplit) ==
  LET chunks == SplitFilebyRange(size, start, length, noSplit)
      Of(i) == Reads(source, size, chunks[i].offset, chunks[i].size)
  IN {FlattenSeq(pieces) : pieces \in
        {p \in [DOMAIN chunks -> UNION {Of(i) : i \in DOMAIN chunks}] :
           \A i \in DOMAIN chunks : p[i] \in Of(i)}}
=============================================================================
