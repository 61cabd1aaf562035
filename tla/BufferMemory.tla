---------------------------- MODULE BufferMemory ----------------------------
(***************************************************************************)
(* Memory of buffers (native/renderer/buffer.cpp, memory-type.h): small    *)
(* buffers take slots of shared blocks, large shared ones take blocks of   *)
(* their own that are kept when idle, the rest allocate for themselves.    *)
(* bufferMemoryMutex makes each creation and each release one step.        *)
(***************************************************************************)
EXTENDS Naturals, Sequences, SequencesExt, FiniteSetsExt

CONSTANTS
    Buffers,        \* PrivateBuffer objects
    MemoryTypes,    \* the driver's table: sequence of [flags, heap]
    TypeBits,       \* the sets of types a buffer may be offered
    HeapSize,       \* bytes of each heap
    Requirements,   \* [size, alignment, dedicated] the driver may require
    MinSlot, PoolLimit, LargeLimit, BlockBytes, MinCapacity, MaxCapacity,
                    \* 256 bytes, 1 MiB, 16 MiB, 4 MiB, 4 and 256 in the code
    HeapShare, IdleCap,         \* 16 and 2 GiB in the code
    Atom,           \* nonCoherentAtomSize
    MaxBlocks       \* bound: blocks alive at once

VARIABLES
    blocks,     \* memory alive: block id -> [type, slotSize, capacity, freeSlots]
    list,       \* bufferMemoryBlocks: the ids of the blocks the device keeps
    buffers     \* live buffers: [type, host, size, alignment, block, offset]

vars == <<blocks, list, buffers>>
Modes == {"Shared", "Managed", "Private"}
Own == 0        \* block of a buffer with memory of its own
Init == blocks = <<>> /\ list = <<>> /\ buffers = <<>>

\* The first type offered that has the preferred flags, or else the first usable.
buffer_memory_type(bits, mode, writeCombined) ==
    LET required == CASE mode = "Shared" -> {"HostVisible", "HostCoherent"}
                      [] mode = "Managed" -> {"HostVisible"} [] OTHER -> {}
        preferred == IF mode = "Private" THEN {"DeviceLocal"}
                     ELSE IF writeCombined THEN {} ELSE {"HostCached"}
        usable == {i \in bits : required \subseteq MemoryTypes[i].flags}
        best == {i \in usable : preferred \subseteq MemoryTypes[i].flags}
    IN  IF best # {} THEN Min(best) ELSE IF usable # {} THEN Min(usable) ELSE 0

hostCoherent(type) == "HostCoherent" \in MemoryTypes[type].flags
visible(type) == "HostVisible" \in MemoryTypes[type].flags

\* Which buffers share blocks, and the slot each size takes.
pooled(type, mode, dedicated, required) ==
    /\ ~dedicated /\ (~visible(type) \/ hostCoherent(type))
    /\ required <= PoolLimit \/ (mode = "Shared" /\ required <= LargeLimit)
slotSize(size, alignment) ==
    LET required == Max({size, alignment})
    IN  IF required <= PoolLimit THEN MinSlot * Min({2^k : k \in {k \in 0..required : MinSlot * 2^k >= required}})
        ELSE ((size + alignment - 1) \div alignment) * alignment
capacity(slot) == IF slot > PoolLimit THEN 1 ELSE Max({MinCapacity, Min({MaxCapacity, BlockBytes \div slot})})

NewId == Min((1..MaxBlocks + 1) \ DOMAIN blocks)
BufferMemoryBlock(type, slot) ==
    [type |-> type, slotSize |-> slot, capacity |-> capacity(slot),
     freeSlots |-> [i \in 1..capacity(slot) |-> capacity(slot) - i]]
Fits(id, type, slot) ==
    blocks[id].type = type /\ blocks[id].slotSize = slot /\ blocks[id].freeSlots # <<>>

\* Creation from a pool: the first listed block with room, or a new one.
takeSlot(b, type, mode, size, alignment) ==
    LET slot == slotSize(size, alignment)
        fitting == SelectSeq(list, LAMBDA id : Fits(id, type, slot))
        id == IF fitting # <<>> THEN Head(fitting) ELSE NewId
        block == IF fitting # <<>> THEN blocks[id] ELSE BufferMemoryBlock(type, slot)
    IN  /\ id <= MaxBlocks
        /\ blocks' = (id :> [block EXCEPT !.freeSlots = Front(@)]) @@ blocks
        /\ list' = IF fitting # <<>> THEN list ELSE Append(list, id)
        /\ buffers' = (b :> [type |-> type, host |-> mode # "Private", size |-> size, alignment |-> alignment, block |-> id,
                            offset |-> Last(block.freeSlots) * slot]) @@ buffers
takeOwn(b, type, mode, size, alignment) ==
    /\ buffers' = (b :> [type |-> type, host |-> mode # "Private", size |-> size, alignment |-> alignment, block |-> Own,
                         offset |-> 0]) @@ buffers
    /\ UNCHANGED <<blocks, list>>

\* PrivateBuffer(device, length, options). With no usable type, or when a block
\* cannot be allocated, the constructor throws and nothing has changed.
PrivateBuffer(b) ==
    /\ b \notin DOMAIN buffers
    /\ \E mode \in Modes, bits \in TypeBits, writeCombined \in BOOLEAN, r \in Requirements :
         LET type == buffer_memory_type(bits, mode, writeCombined)
         IN  /\ type # 0
             /\ IF pooled(type, mode, r.dedicated, Max({r.size, r.alignment}))
                THEN takeSlot(b, type, mode, r.size, r.alignment)
                ELSE takeOwn(b, type, mode, r.size, r.alignment)

\* Where in its memory contents() lets the application write.
contents(b) == IF buffers[b].block = Own THEN 0 ELSE buffers[b].offset

Idle(bs, id) == bs[id].capacity = 1 /\ bs[id].freeSlots # <<>>
IdleBytes(bs, ids) == MapThenSumSet(LAMBDA id : bs[id].slotSize, {id \in ids : Idle(bs, id)})
limit(type) == Min({HeapSize[MemoryTypes[type].heap] \div HeapShare, IdleCap})

\* The oldest idle large blocks go until the rest is within the limit.
evicted(bs, type) ==
    LET idle == SelectSeq(list, LAMBDA id : Idle(bs, id))
        fits(n) == IdleBytes(bs, ToSet(SubSeq(idle, n + 1, Len(idle)))) <= limit(type)
    IN  ToSet(SubSeq(idle, 1, Min({n \in 0..Len(idle) : fits(n)})))
\* A block all free again goes when another like it is all free.
Mut_surplus(bs, id) ==
    IF \E o \in ToSet(list) \ {id} : bs[o].type = bs[id].type /\ bs[o].slotSize = bs[id].slotSize
    THEN {o \in ToSet(list) \ {id} : bs[o].type = bs[id].type /\ bs[o].slotSize = bs[id].slotSize} ELSE {}
surplus(bs, id) ==
    IF \E o \in ToSet(list) \ {id} : /\ bs[o].type = bs[id].type /\ bs[o].slotSize = bs[id].slotSize
                                     /\ Len(bs[o].freeSlots) = bs[o].capacity
    THEN {id} ELSE {}

\* ~PrivateBuffer: the slot returns, and the list lets blocks go. The memory of
\* a block is freed when neither the list nor a buffer holds it.
Release(b) ==
    LET id == buffers[b].block
        bs == [blocks EXCEPT ![id].freeSlots = Append(@, buffers[b].offset \div blocks[id].slotSize)]
        gone == IF Len(bs[id].freeSlots) < bs[id].capacity THEN {}
                ELSE IF bs[id].capacity = 1 THEN evicted(bs, bs[id].type) ELSE surplus(bs, id)
        held == (ToSet(list) \ gone) \cup {buffers[o].block : o \in DOMAIN buffers \ {b}}
    IN  /\ list' = SelectSeq(list, LAMBDA o : o \notin gone)
        /\ blocks' = [o \in DOMAIN blocks \cap held |-> bs[o]]
destroyBuffer(b) ==
    /\ b \in DOMAIN buffers
    /\ buffers' = [o \in DOMAIN buffers \ {b} |-> buffers[o]]
    /\ IF buffers[b].block = Own THEN UNCHANGED <<blocks, list>> ELSE Release(b)

\* The range of its memory that didModifyRange flushes: the bytes written,
\* widened to whole atoms, but not past the allocation.
didModifyRange(b, start, length) ==
    LET end == start + length
        padding == (Atom - (end % Atom)) % Atom
    IN  [from |-> start - (start % Atom), to |-> end + Min({padding, buffers[b].size - end})]

Next == \E b \in Buffers : PrivateBuffer(b) \/ destroyBuffer(b)
Spec == Init /\ [][Next]_vars

-----------------------------------------------------------------------------
Bytes(b) == buffers[b].offset .. buffers[b].offset + buffers[b].size - 1
AllocationSize(b) ==
    IF buffers[b].block = Own THEN buffers[b].size
    ELSE blocks[buffers[b].block].slotSize * blocks[buffers[b].block].capacity

\* Live buffers never share a byte of memory, each lies whole and aligned inside
\* memory that is still allocated, and the device still lists that block, so
\* that its slots can be used again (slots returned in any order, blocks erased
\* from bufferMemoryBlocks while other buffers live).
BuffersApart ==
    \A b \in DOMAIN buffers :
      /\ buffers[b].block # Own => buffers[b].block \in DOMAIN blocks \cap ToSet(list)
      /\ buffers[b].offset % buffers[b].alignment = 0
      /\ buffers[b].offset + buffers[b].size <= AllocationSize(b)
      /\ \A o \in DOMAIN buffers \ {b} :
           buffers[o].block = buffers[b].block /\ buffers[o].block # Own => Bytes(b) \cap Bytes(o) = {}

\* The idle large blocks of a heap never exceed that heap's share, whichever
\* heap's buffer was released last; and of small blocks at most one of each type
\* and slot size is kept empty ("not the peak load", buffer.cpp:220).
IdleBounded ==
    /\ \A h \in DOMAIN HeapSize :
         IdleBytes(blocks, {id \in DOMAIN blocks : MemoryTypes[blocks[id].type].heap = h})
            <= Min({HeapSize[h] \div HeapShare, IdleCap})
    /\ \A i, j \in DOMAIN blocks :
         /\ i # j /\ blocks[i].capacity > 1 /\ blocks[i].type = blocks[j].type
         /\ blocks[i].slotSize = blocks[j].slotSize
         /\ Len(blocks[i].freeSlots) = blocks[i].capacity
         => Len(blocks[j].freeSlots) < blocks[j].capacity

\* What didModifyRange flushes of a non-coherent buffer is a range
\* Vulkan accepts (whole atoms, or up to the end of the allocation), covers every
\* byte the application wrote, and touches no other buffer's bytes.
FlushExact ==
    \A b \in DOMAIN buffers : buffers[b].host /\ ~hostCoherent(buffers[b].type) =>
      \A start \in 0..buffers[b].size : \A length \in 1..(buffers[b].size - start) :
        LET r == didModifyRange(b, start, length)
        IN  /\ r.from % Atom = 0 /\ (r.to % Atom = 0 \/ r.to = AllocationSize(b)) /\ r.to <= AllocationSize(b)
            /\ contents(b) + start >= r.from /\ contents(b) + start + length <= r.to
            /\ \A o \in DOMAIN buffers \ {b} :
                 buffers[o].block = buffers[b].block /\ buffers[o].block # Own => Bytes(o) \cap (r.from..r.to - 1) = {}

Safety == BuffersApart /\ IdleBounded /\ FlushExact
=============================================================================
