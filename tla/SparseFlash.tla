----------------------------- MODULE SparseFlash -----------------------------
(***************************************************************************)
(* flash_sparse (src/fastboot/commands/flash.rs): an Android sparse image  *)
(* is expanded into a partition chunk by chunk. What a chunk says is known *)
(* only when the loop reads it, after earlier chunks have been written.    *)
(*                                                                         *)
(* Sizes are in blocks; the content of a block is the number of the chunk  *)
(* it came from, or 0 for what was there before.                           *)
(***************************************************************************)
EXTENDS Integers, Sequences, SequencesExt

CONSTANTS
    PartBlocks,     \* blocks of the partition
    MaxTotal,       \* bound: blocks a header declares
    MaxChunks       \* bound: chunks a header declares

VARIABLES
    pc,             \* "header", "chunk", "copy", "ok" or "error"
    total,          \* header.total_blocks
    chunks,         \* header.total_chunks
    image,          \* the chunk headers read so far: [type, blocks]
    position,       \* blocks of the image accounted for
    cursor,         \* file position of the target
    remaining,      \* blocks the chunk still has to write
    target          \* content of the partition

vars == <<pc, total, chunks, image, position, cursor, remaining, target>>

Init ==
    /\ pc = "header" /\ total = 0 /\ chunks = 0 /\ image = <<>>
    /\ position = 0 /\ cursor = 0 /\ remaining = 0
    /\ target = [b \in 1..(PartBlocks + MaxTotal) |-> 0]

Reject == pc' = "error"

(* SparseHeader::read_from, expanded_size: magic, version or sizes may be  *)
(* wrong, and the image may be too large for the partition.                *)
ReadHeader ==
    /\ pc = "header"
    /\ total' \in 0..MaxTotal /\ chunks' \in 0..MaxChunks
    /\ \E valid \in BOOLEAN :
         IF valid /\ total' <= PartBlocks THEN pc' = "chunk" ELSE Reject
    /\ UNCHANGED <<image, position, cursor, remaining, target>>

\* Fault: the file position stays where it was.
Seek_none(to) == cursor

(* target.seek(SeekFrom::Start(next_position)) *)
Seek(to) == to

(* SparseChunkHeader::read_from and the tests of the loop: a chunk stays   *)
(* within the declared size and carries the data its type needs.           *)
ReadChunk ==
    /\ pc = "chunk" /\ Len(image) < chunks
    /\ \E type \in {"raw", "fill", "dont_care", "crc32", "unknown"},
          blocks \in 0..MaxTotal, sized \in BOOLEAN :
         /\ image' = Append(image, [type |-> type, blocks |-> blocks])
         /\ IF \/ position + blocks > total \/ ~sized
               \/ type = "unknown" \/ (type = "crc32" /\ blocks # 0)
            THEN Reject /\ UNCHANGED <<position, cursor, remaining>>
            ELSE /\ pc' = IF type \in {"raw", "fill"} THEN "copy" ELSE "chunk"
                 /\ remaining' = IF type \in {"raw", "fill"} THEN blocks ELSE 0
                 /\ position' = IF type \in {"raw", "fill"} THEN position ELSE position + blocks
                 /\ cursor' = IF type = "dont_care" THEN Seek(position + blocks) ELSE cursor
    /\ UNCHANGED <<total, chunks, target>>

(* copy_exact and write_fill *)
CopyBlock ==
    /\ pc = "copy" /\ remaining > 0
    /\ target' = [target EXCEPT ![cursor + 1] = Len(image)]
    /\ cursor' = cursor + 1 /\ remaining' = remaining - 1
    /\ UNCHANGED <<pc, total, chunks, image, position>>

(* position = next_position *)
ChunkWritten ==
    /\ pc = "copy" /\ remaining = 0
    /\ position' = position + Last(image).blocks
    /\ pc' = "chunk"
    /\ UNCHANGED <<total, chunks, image, cursor, remaining, target>>

(* The payload is too short, or the device fails. *)
CopyFails ==
    /\ pc = "copy" /\ Reject
    /\ UNCHANGED <<total, chunks, image, position, cursor, remaining, target>>

(* The tests behind the loop: the declared size is reached, no data is     *)
(* left over, and sync_all succeeds.                                       *)
Finish ==
    /\ pc = "chunk" /\ Len(image) = chunks
    /\ \E rest, synced \in BOOLEAN :
         pc' = IF position = total /\ ~rest /\ synced THEN "ok" ELSE "error"
    /\ UNCHANGED <<total, chunks, image, position, cursor, remaining, target>>

Next == ReadHeader \/ ReadChunk \/ CopyBlock \/ ChunkWritten \/ CopyFails \/ Finish

Spec == Init /\ [][Next]_vars

(***************************************************************************)
(* Properties                                                              *)
(***************************************************************************)

(* Blocks of an image before each of its chunks, and in all of them. *)
Starts(img) ==
    LET at[k \in 1 .. Len(img) + 1] ==
          IF k = 1 THEN 0 ELSE at[k - 1] + img[k - 1].blocks
    IN at

(* What an image says a block should hold. *)
Expanded(img, b) ==
    LET of == {k \in DOMAIN img : /\ img[k].type \in {"raw", "fill"}
                                  /\ Starts(img)[k] < b /\ b <= Starts(img)[k + 1]}
    IN  IF of = {} THEN 0 ELSE CHOOSE k \in of : TRUE

(* An OKAY means that each block holds what the image says, blocks it does *)
(* not care for included; and whatever goes wrong half way, no block       *)
(* outside the declared size is touched, nor one the image left alone.     *)
SparseExact ==
    /\ pc = "ok" => \A b \in DOMAIN target : target[b] = Expanded(image, b)
    /\ \A b \in DOMAIN target : target[b] \in {0, Expanded(image, b)} /\ (b > total => target[b] = 0)
=============================================================================
