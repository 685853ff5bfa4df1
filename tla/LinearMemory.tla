---------------------------- MODULE LinearMemory ----------------------------
(***************************************************************************)
(* LinearMemory: the memory of a plugin as a sparse map of fixed-size      *)
(* pages, allocated on the first write.  Ranges are read and written chunk *)
(* by chunk, one page at a time.  Addresses are u64: sums in the code's    *)
(* bounds check are checked, the position of the unchecked range write     *)
(* wraps (release build).                                                  *)
(***************************************************************************)
EXTENDS Naturals, Sequences, Loops

CONSTANTS
    PageSize,   \* 4096 in the code
    MaxAddr,    \* u64::MAX
    Byte,       \* the values of a byte
    MaxData     \* bound on the length of the data written by one call; a
                \* slice is always shorter than the address space

ASSUME MemoryAssumption ==
    /\ PageSize \in Nat \ {0} /\ MaxAddr \in Nat /\ (MaxAddr + 1) % PageSize = 0
    /\ 0 \in Byte /\ MaxData \in Nat /\ MaxData <= MaxAddr

VARIABLES
    pages,      \* LinearMemory.pages
    bounds,     \* LinearMemory.bounds
    bytes       \* history: the flat map of bytes the memory stands for

memoryVars == <<pages, bounds, bytes>>

MemAddr == 0..MaxAddr
Offset == 0..(PageSize - 1)
PageNo == 0..(MaxAddr \div PageSize)
Pages == UNION {[D -> [Offset -> Byte]] : D \in SUBSET PageNo}
Data == UNION {[1..n -> Byte] : n \in 0..MaxData}

PageOf(a) == a \div PageSize
OffsetInPage(a) == a % PageSize
ZeroPage == [o \in Offset |-> 0]

\* The page with number p, a page of zeros when it is not there yet.
PageIn(pgs, p) == IF p \in DOMAIN pgs THEN pgs[p] ELSE ZeroPage

\* The smaller of the rest of the page and the rest of the range.
Chunk(pos, remaining) ==
    IF PageSize - OffsetInPage(pos) < remaining
    THEN PageSize - OffsetInPage(pos) ELSE remaining

\* addr_in_bounds, with checked_add.
AddrInBounds(a, len) == a + len <= MaxAddr /\ a + len <= bounds

Read(a) == IF PageOf(a) \in DOMAIN pages THEN pages[PageOf(a)][OffsetInPage(a)] ELSE 0

\* The state of the loop of read_range.
ReadState == [pos : MemAddr, result : Seq(Byte)]

\* Mutant: a missing page contributes one byte instead of a chunk of zeros.
ReadChunkShort(x, end) ==
    LET chunk == Chunk(x.pos, end - x.pos)
        off == OffsetInPage(x.pos)
        part == IF PageOf(x.pos) \in DOMAIN pages
                THEN [i \in 1..chunk |-> pages[PageOf(x.pos)][off + i - 1]]
                ELSE <<0>>
    IN  [pos |-> x.pos + chunk, result |-> x.result \o part]

\* One round of read_range: the rest of the page or of the range.
ReadChunk(x, end) ==
    LET chunk == Chunk(x.pos, end - x.pos)
        off == OffsetInPage(x.pos)
        part == IF PageOf(x.pos) \in DOMAIN pages
                THEN [i \in 1..chunk |-> pages[PageOf(x.pos)][off + i - 1]]
                ELSE [i \in 1..chunk |-> 0]
    IN  [pos |-> x.pos + chunk, result |-> x.result \o part]

\* The loop of read_range, in as many rounds as there are bytes at most.
ReadChunks(addr, len) ==
    LET body == [x \in ReadState |-> IF x.pos < addr + len THEN ReadChunk(x, addr + len) ELSE x]
    IN  Rounds(body, [pos |-> addr, result |-> <<>>])[len].result

\* The state of the loop of write_range_mut.
WriteState == [pages : Pages, pos : MemAddr, srcOff : 0..MaxData]

\* Mutant: every chunk is copied from the start of the data.
WriteChunkRepeats(x, data) ==
    LET chunk == Chunk(x.pos, Len(data) - x.srcOff)
        off == OffsetInPage(x.pos)
        old == PageIn(x.pages, PageOf(x.pos))
        new == [o \in Offset |-> IF o \in off..(off + chunk - 1)
                                 THEN data[o - off + 1] ELSE old[o]]
    IN  [pages |-> [p \in DOMAIN x.pages \cup {PageOf(x.pos)} |->
                       IF p = PageOf(x.pos) THEN new ELSE x.pages[p]],
         pos |-> (x.pos + chunk) % (MaxAddr + 1),
         srcOff |-> x.srcOff + chunk]

\* One round of write_range_mut: the rest of the page or of the data, into a
\* page that is allocated if it is not there yet.
WriteChunk(x, data) ==
    LET chunk == Chunk(x.pos, Len(data) - x.srcOff)
        off == OffsetInPage(x.pos)
        old == PageIn(x.pages, PageOf(x.pos))
        new == [o \in Offset |-> IF o \in off..(off + chunk - 1)
                                 THEN data[x.srcOff + (o - off) + 1] ELSE old[o]]
    IN  [pages |-> [p \in DOMAIN x.pages \cup {PageOf(x.pos)} |->
                       IF p = PageOf(x.pos) THEN new ELSE x.pages[p]],
         pos |-> (x.pos + chunk) % (MaxAddr + 1),
         srcOff |-> x.srcOff + chunk]

\* The loop of write_range_mut: the pages after data is written at addr.
WriteChunks(addr, data) ==
    LET body == [x \in WriteState |-> IF x.srcOff < Len(data) THEN WriteChunk(x, data) ELSE x]
    IN  Rounds(body, [pages |-> pages, pos |-> addr, srcOff |-> 0])[Len(data)].pages

-----------------------------------------------------------------------------
\* LinearMemory::empty, with any bounds.
MemoryInit ==
    /\ pages = [p \in {} |-> ZeroPage]
    /\ bounds \in MemAddr
    /\ bytes = [a \in MemAddr |-> 0]

\* The flat map after data is written from address a on, wrapping at the top.
FlatWrite(a, data) ==
    [x \in MemAddr |->
        LET i == (x + MaxAddr + 1 - a) % (MaxAddr + 1)
        IN  IF i < Len(data) THEN data[i + 1] ELSE bytes[x]]

\* write and write_mut: one byte, at any address.
WriteByte(a, v) ==
    /\ pages' = [p \in DOMAIN pages \cup {PageOf(a)} |->
                    IF p = PageOf(a)
                    THEN [PageIn(pages, p) EXCEPT ![OffsetInPage(a)] = v]
                    ELSE pages[p]]
    /\ bytes' = FlatWrite(a, <<v>>)
    /\ UNCHANGED bounds

\* write_range: refused unless the whole range is in bounds.
WriteRange(a, data) ==
    /\ AddrInBounds(a, Len(data))
    /\ pages' = WriteChunks(a, data)
    /\ bytes' = FlatWrite(a, data)
    /\ UNCHANGED bounds

\* write_range_mut, public too, checks nothing.
WriteRangeMut(a, data) ==
    /\ pages' = WriteChunks(a, data)
    /\ bytes' = FlatWrite(a, data)
    /\ UNCHANGED bounds

MemoryNext ==
    \/ \E a \in MemAddr, v \in Byte : WriteByte(a, v)
    \/ \E a \in MemAddr, d \in Data : WriteRange(a, d) \/ WriteRangeMut(a, d)

MemorySpec == MemoryInit /\ [][MemoryNext]_memoryVars

-----------------------------------------------------------------------------
\* After any sequence of byte and range writes every address reads as the flat
\* map does: the addressed bytes took the data, no other byte changed, and a
\* byte never written is zero, whether or not the pages existed and however
\* many page borders a range crossed.
PagesRepresentBytes == \A a \in MemAddr : Read(a) = bytes[a]

\* A range that read_range accepts lies within the bounds even where the sum
\* of address and length overflows, and what it returns is, byte for byte, the
\* flat map: the chunks meet at page borders and missing pages read as zeros.
RangeReadsMatchBytes ==
    \A a \in MemAddr, len \in MemAddr : AddrInBounds(a, len) =>
        /\ \A i \in 1..len : a + i - 1 < bounds
        /\ ReadChunks(a, len) = [i \in 1..len |-> bytes[a + i - 1]]
=============================================================================
