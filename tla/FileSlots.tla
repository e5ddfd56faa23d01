----------------------------- MODULE FileSlots -----------------------------
(***************************************************************************)
(* The anonymous file behind a filesystem retention buffer                 *)
(* (playback/input/filesystem.rs, Buffer).  Logical segments are named by  *)
(* the stream offset they start at and never come back; the file's slots   *)
(* of SEGMENT_BYTES each are recycled.                                     *)
(*                                                                         *)
(* disk holds <<slot, start>> while any byte written for the segment at    *)
(* start can be read from slot; a slot without a pair is a hole.           *)
(* Positions inside a slot are abstracted away.  What LiveStore names too  *)
(* is called File... here, as LiveStoreProofs extends both.                *)
(***************************************************************************)
EXTENDS Naturals, FiniteSets

CONSTANTS
  Offsets,  \* the stream offsets a segment may start at
  NoSlot    \* "this segment has no slot"

ASSUME NoSlotAssumption == NoSlot \notin Nat

VARIABLES
  slots,    \* slots[start]: the slot of a retained segment, or NoSlot
  vacant,   \* released slots, to be used again
  extent,   \* the slots the file has grown to
  disk,     \* what the file holds
  peak      \* the most segments retained at once (history variable)

fileVars == <<slots, vacant, extent, disk, peak>>

Mapped == {start \in Offsets : slots[start] # NoSlot}

FileInit ==
  /\ slots = [start \in Offsets |-> NoSlot]
  /\ vacant = {}
  /\ extent = 0
  /\ disk = {}
  /\ peak = 0

----------------------------------------------------------------------------
(* The bytes of a write_all that fails may have reached the file or not. *)
WriteAll(slot, start) ==
  \/ disk' = disk \cup {<<slot, start>>}
  \/ UNCHANGED disk

(* A slip: the slot is recycled with its bytes. *)
NotReleased(slot) == {entry \in disk : entry[1] \in Nat}

(* What fallocate(PUNCH_HOLE) leaves of the file. *)
Released(slot) == {entry \in disk : entry[1] # slot}

Peak == IF Cardinality(Mapped) + 1 > peak THEN Cardinality(Mapped) + 1 ELSE peak

(* write: a segment that has a slot keeps it. *)
WriteMapped(start) ==
  /\ slots[start] # NoSlot
  /\ WriteAll(slots[start], start)
  /\ UNCHANGED <<slots, vacant, extent, peak>>

(* write: a new segment takes the lowest vacant slot.  The entry stays even
   if the file write then fails. *)
WriteReusing(start) ==
  /\ slots[start] = NoSlot
  /\ \E slot \in vacant :
       /\ \A other \in vacant : slot <= other
       /\ slots' = [slots EXCEPT ![start] = slot]
       /\ vacant' = vacant \ {slot}
       /\ WriteAll(slot, start)
  /\ peak' = Peak
  /\ UNCHANGED extent

(* A slip: the new end is taken for the new slot. *)
WriteBelowExtent(start) ==
  /\ slots[start] = NoSlot
  /\ vacant = {}
  /\ slots' = [slots EXCEPT ![start] = extent - 1]
  /\ extent' = extent + 1
  /\ WriteAll(extent - 1, start)
  /\ peak' = Peak
  /\ UNCHANGED vacant

(* write: with no vacant slot the file grows. *)
WriteExtending(start) ==
  /\ slots[start] = NoSlot
  /\ vacant = {}
  /\ slots' = [slots EXCEPT ![start] = extent]
  /\ extent' = extent + 1
  /\ WriteAll(extent, start)
  /\ peak' = Peak
  /\ UNCHANGED vacant

(* A slip: the slot is forgotten with its segment. *)
RemoveForgetting(start) ==
  /\ slots[start] # NoSlot
  /\ disk' = Released(slots[start])
  /\ slots' = [slots EXCEPT ![start] = NoSlot]
  /\ UNCHANGED <<vacant, extent, peak>>

(* remove: punch the hole, then forget the segment and recycle its slot.  A
   hole that cannot be punched changes nothing: the segment stays mapped. *)
Remove(start) ==
  /\ slots[start] # NoSlot
  /\ disk' = Released(slots[start])
  /\ slots' = [slots EXCEPT ![start] = NoSlot]
  /\ vacant' = vacant \cup {slots[start]}
  /\ UNCHANGED <<extent, peak>>

FileNext ==
  \E start \in Offsets :
    \/ WriteMapped(start)
    \/ WriteReusing(start)
    \/ WriteExtending(start)
    \/ Remove(start)

FileSpec == FileInit /\ [][FileNext]_fileVars

----------------------------------------------------------------------------
(* Types. *)
FileTypeOK ==
  /\ slots \in [Offsets -> Nat \cup {NoSlot}]
  /\ vacant \in SUBSET Nat
  /\ extent \in Nat
  /\ disk \in SUBSET (Nat \X Offsets)
  /\ peak \in Nat

(* What read(start) may find in the file. *)
Readable(start) == {other \in Offsets : <<slots[start], other>> \in disk}

(* Reading a retained segment never returns bytes another segment left in
   the recycled slot, whatever writes failed half way ("a logical segment can
   only reuse physical bytes after remove() has successfully released them"). *)
NoForeignBytes == \A start \in Mapped : Readable(start) \subseteq {start}

(* Two retained segments never share a slot. *)
SlotsInjective ==
  \A one, other \in Mapped : slots[one] = slots[other] => one = other

(* Every slot the file has grown to is in use by a segment or waits to be
   reused, and never both: no slot leaks and none is handed out twice. *)
SlotsPartition ==
  /\ {slots[start] : start \in Mapped} \cap vacant = {}
  /\ {slots[start] : start \in Mapped} \cup vacant = 0 .. extent - 1

(* Released slots are holes: history that was dropped is given back to the
   file system at once. *)
VacantIsReleased == \A entry \in disk : entry[1] \notin vacant /\ entry[1] < extent

(* The file never grows past the most segments ever retained together. *)
ExtentIsPeak == extent <= peak

(* What recycling promises, whatever writes and hole punches fail: no slot is
   shared, leaked, handed out dirty, or added while another is vacant. *)
SlotsRecycled == SlotsInjective /\ SlotsPartition /\ VacantIsReleased /\ ExtentIsPeak

(* The file serves the store: each retained segment reads its own bytes, and
   the space of the others is reused or given back. *)
SlotsHold == NoForeignBytes /\ SlotsRecycled
============================================================================
