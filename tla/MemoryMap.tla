----------------------------- MODULE MemoryMap ------------------------------
(***************************************************************************)
(* load_memory_map and allocate_legacy_kernel_pages (linux/aarch64.c): what *)
(* a raw Image is told about the machine's memory, and where an old one is  *)
(* put.  The memory map of the firmware is read descriptor by descriptor    *)
(* into an array of ranges, which is sorted by insertion and then merged in *)
(* place.  Addresses are counted in pages; MaxAddress is MAX_UINT64.        *)
(***************************************************************************)
EXTENDS Integers, Sequences

CONSTANTS
    MaxAddress, \* the greatest address
    Alignment,  \* ARM64_IMAGE_ALIGNMENT
    MaxPages,   \* bound on the pages of a descriptor
    MaxLen,     \* bound on the number of descriptors
    Pages       \* pages the kernel needs

ASSUME MapAssumption ==
    /\ MaxAddress \in Nat /\ MaxPages \in Nat /\ MaxLen \in Nat
    /\ Alignment \in Nat \ {0} /\ Pages \in Nat \ {0}
    /\ (MaxAddress + 1) % Alignment = 0

\* A descriptor.  "free" is EfiConventionalMemory, "used" one of the other
\* types of include_memory_descriptor, "kept" any other type or a range with
\* EFI_MEMORY_RUNTIME.
Descriptor == [start : 0..MaxAddress, pages : 0..MaxPages,
               kind : {"free", "used", "kept"}]

VARIABLES
    descs,      \* the memory map of the firmware, a sequence of descriptors
    memory,     \* *memory, a sequence of ranges
    pos,        \* the position of the running loop
    last,       \* the last range of the merged part
    place,      \* where a kernel that cannot be placed anywhere goes
    phase

mapVars == <<descs, memory, pos, last, place, phase>>

MemoryRange == [address : 0..MaxAddress, size : 1..MaxAddress]
End(r) == r.address + r.size

\* include_memory_descriptor
Include(d) == d.pages # 0 /\ d.kind # "kept"

\* The end of the descriptor does not fit 64 bits.
Overflows(d) == d.start > MaxAddress - d.pages

MapInit ==
    /\ descs \in UNION {[1..n -> Descriptor] : n \in 1..MaxLen}
    /\ memory = <<>> /\ pos = 1 /\ last = 1 /\ place = MaxAddress
    /\ phase = "place"

-----------------------------------------------------------------------------
\* The start of the descriptor, aligned, and whether the kernel fits after it.
AlignUp(a) == ((a + Alignment - 1) \div Alignment) * Alignment

\* Mutant: the size is compared with the whole descriptor.
FitsUnaligned(d) == d.kind = "free" /\ ~Overflows(d) /\ Pages <= d.pages

Fits(d) ==
    /\ d.kind = "free" /\ ~Overflows(d)
    /\ d.start <= MaxAddress - (Alignment - 1)
    /\ AlignUp(d.start) <= d.start + d.pages
    /\ Pages <= d.start + d.pages - AlignUp(d.start)

\* One turn of the loop of allocate_legacy_kernel_pages.
PlaceKernel ==
    /\ phase = "place" /\ pos <= Len(descs)
    /\ place' = IF Fits(descs[pos]) /\ AlignUp(descs[pos].start) < place
                THEN AlignUp(descs[pos].start) ELSE place
    /\ pos' = pos + 1
    /\ UNCHANGED <<descs, memory, last, phase>>

PlaceDone ==
    /\ phase = "place" /\ pos > Len(descs)
    /\ phase' = "collect" /\ pos' = 1
    /\ UNCHANGED <<descs, memory, last, place>>

-----------------------------------------------------------------------------
\* A descriptor that starts where the last range ends extends it.
Extends(d) == memory # <<>> /\ End(memory[Len(memory)]) = d.start
NewRange(d) == [address |-> d.start, size |-> d.pages]

\* The next descriptor.
Advance(d) == pos + 1

\* One turn of the loop that fills *memory: EFI_COMPROMISED_DATA for a
\* descriptor whose end overflows.
Collect ==
    /\ phase = "collect" /\ pos <= Len(descs)
    /\ LET d == descs[pos]
       IN  IF Include(d) /\ Overflows(d)
           THEN phase' = "compromised" /\ memory' = <<>> /\ UNCHANGED pos
           ELSE /\ memory' = IF ~Include(d) THEN memory
                          ELSE IF Extends(d)
                          THEN [memory EXCEPT ![Len(memory)].size = @ + d.pages]
                          ELSE Append(memory, NewRange(d))
                /\ pos' = Advance(d) /\ UNCHANGED phase
    /\ UNCHANGED <<descs, last, place>>

\* EFI_NOT_FOUND without a usable descriptor, which the code counts before.
CollectDone ==
    /\ phase = "collect" /\ pos > Len(descs)
    /\ phase' = IF memory = <<>> THEN "notFound" ELSE "sort"
    /\ pos' = 2
    /\ UNCHANGED <<descs, memory, last, place>>

\* Where the inner loop of the insertion sort puts memory[pos].
Insertion ==
    LET before == {j \in 1..(pos - 1) : memory[j].address <= memory[pos].address}
    IN  IF before = {} THEN 1
        ELSE 1 + (CHOOSE j \in before : \A k \in before : k <= j)

\* One turn of the outer loop.
SortStep ==
    /\ phase = "sort" /\ pos <= Len(memory)
    /\ memory' = [k \in DOMAIN memory |-> IF k < Insertion \/ k > pos THEN memory[k]
                                       ELSE IF k = Insertion THEN memory[pos]
                                       ELSE memory[k - 1]]
    /\ pos' = pos + 1
    /\ UNCHANGED <<descs, last, place, phase>>

SortDone ==
    /\ phase = "sort" /\ pos > Len(memory)
    /\ phase' = "merge" /\ pos' = 2 /\ last' = 1
    /\ UNCHANGED <<descs, memory, place>>

\* Mutant: a range inside the merged one replaces its end.
TakeEnd(a, b) == End(b)

\* The end of two ranges that touch.
LaterEnd(a, b) == IF End(b) > End(a) THEN End(b) ELSE End(a)

\* The next range belongs to the merged one.
Touch(a, b) == End(a) >= b.address

\* One turn of the loop that merges in place.
MergeStep ==
    /\ phase = "merge" /\ pos <= Len(memory)
    /\ IF Touch(memory[last], memory[pos])
       THEN /\ memory' = [memory EXCEPT ![last].size =
                         LaterEnd(memory[last], memory[pos]) - memory[last].address]
            /\ UNCHANGED last
       ELSE /\ last' = last + 1
            /\ memory' = [memory EXCEPT ![last + 1] = memory[pos]]
    /\ pos' = pos + 1
    /\ UNCHANGED <<descs, place, phase>>

\* output = merged + 1
MergeDone ==
    /\ phase = "merge" /\ pos > Len(memory)
    /\ memory' = SubSeq(memory, 1, last)
    /\ phase' = "done"
    /\ UNCHANGED <<descs, pos, last, place>>

MapNext == \/ PlaceKernel \/ PlaceDone \/ Collect \/ CollectDone \/ SortStep
           \/ SortDone \/ MergeStep \/ MergeDone

MapSpec == MapInit /\ [][MapNext]_mapVars

-----------------------------------------------------------------------------
(***************************************************************************)
(* Properties                                                               *)
(***************************************************************************)

\* The pages of a set of ranges.
PagesOf(S) == {p \in 0..MaxAddress : \E r \in S : r.address <= p /\ p < End(r)}
Ranges(s) == {s[k] : k \in DOMAIN s}

\* The usable pages of the first n descriptors.
UsablePages(n) ==
    {p \in 0..MaxAddress : \E k \in 1..n :
        Include(descs[k]) /\ descs[k].start <= p /\ p < descs[k].start + descs[k].pages}

\* The variables hold values of their types; no range wraps around.
MapTypeOK ==
    /\ \A k \in DOMAIN descs : descs[k] \in Descriptor
    /\ memory \in Seq(MemoryRange) /\ \A k \in DOMAIN memory : End(memory[k]) <= MaxAddress
    /\ Len(memory) <= Len(descs)
    /\ pos \in Nat /\ last \in Nat /\ place \in 0..MaxAddress

\* The kernel is told of exactly the usable pages: none is lost by the
\* sorting and merging in place, none is invented, whatever the order and
\* the overlaps of the firmware's descriptors.
PagesExact == phase = "done" => PagesOf(Ranges(memory)) = UsablePages(Len(descs))

\* The ranges it is told of are in order and leave a gap between them.
MemorySorted ==
    phase = "done" => \A k \in 1..(Len(memory) - 1) :
                      End(memory[k]) < memory[k + 1].address

\* What load_memory_map returns describes the usable memory exactly and in the
\* one form that has no two ranges to merge.
MemoryExact == MapTypeOK /\ PagesExact /\ MemorySorted

\* An old kernel goes to the lowest aligned address where it fits in one free
\* descriptor, so that no memory below it is lost to it.
LowestPlace ==
    phase = "collect" =>
        LET Place(a) == \E k \in DOMAIN descs :
                          /\ descs[k].kind = "free" /\ ~Overflows(descs[k])
                          /\ descs[k].start <= a
                          /\ a + Pages <= descs[k].start + descs[k].pages
        IN  /\ place # MaxAddress => place % Alignment = 0 /\ Place(place)
            /\ \A a \in 0..MaxAddress : a % Alignment = 0 /\ Place(a) => place <= a

=============================================================================
