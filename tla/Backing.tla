------------------------------ MODULE Backing ------------------------------
(***************************************************************************)
(* Who owns the memory: chunk_t of lib/types.hpp, the chunk list of        *)
(* lib/runner.hpp and owned_memory of lib/owned_memory.hpp, over one heap. *)
(*                                                                         *)
(* The heap is the set of regions the system has given out.  A region is   *)
(* given back by operator delete[], which needs the address and the        *)
(* alignment it was obtained with, or by munmap, which needs the address   *)
(* and the length.  Chunk objects of a pool are created, moved, assigned   *)
(* and destroyed in any order a container may choose.                      *)
(***************************************************************************)
EXTENDS GranuleLayout, FiniteSets

CONSTANTS Chunks,       \* the names of chunk_t objects
          Pools,        \* the pools that stamp them
          ListNodes,    \* chunk_nodes of one runner
          NodeTypes,    \* value types: size and alignment
          Sysconf,      \* what sysconf(_SC_PAGESIZE) may return
          SlotCounts,   \* chunk sizes asked for
          ByteCounts,   \* sizes asked of owned memory
          Alignments,   \* alignments asked of owned memory
          DefaultPage,  \* the page size assumed when sysconf has no answer
          RunAlignment, \* run_alignment
          HugeBytes,    \* explicit_huge_page_bytes
          MemBytes,     \* addresses are 0 .. MemBytes - 1
          WordBits,     \* the width of size_t
          Null

VARIABLES
  page,     \* the page size
  T,        \* the value type of the chunks
  headers,  \* template parameter OwnerHeaders of the chunks
  huge,     \* template parameter Huge of the owned memory
  client,   \* which of the three is at work; they share nothing but the heap
  heap,     \* the regions given out
  chunk,    \* the chunk_t objects
  stamped,  \* the owner word of each granule header
  list,     \* the runner's chunk list, as a set of chunk_nodes
  adding,   \* the chunk_node that _add_owned_chunk has in hand
  owner,    \* the memory of an owned_memory_owner
  asked,    \* history: what it was constructed with
  wrong     \* history: a release did not match a region

config == <<page, T, headers, huge, client>>
vars == <<config, heap, chunk, stamped, list, adding, owner, asked, wrong>>

SizeMax == 2 ^ WordBits - 1
HasSingleBit(n) == \E e \in 0 .. WordBits - 1 : n = 2 ^ e
RoundUp(n, m) == ((n + m - 1) \div m) * m

NoMemory == [base |-> Null, bytes |-> 0, align |-> 0]
NoChunk == [alive |-> FALSE, count |-> 0, align |-> 0, nodes |-> Null]
EmptyChunk == [alive |-> TRUE, count |-> 0, align |-> NodeAlignment(T), nodes |-> Null]
NoNode == [used |-> FALSE, memory |-> NoMemory, external |-> FALSE]

(* detect_page_size                                                        *)
DetectPageSize(answer) == IF answer > 0 THEN answer ELSE DefaultPage

(* A chunk has at least one slot: pool sizes are powers of two.            *)
ASSUME SizesAssumption ==
  /\ \A type \in NodeTypes : type.size \in Nat /\ type.align \in Nat
  /\ SlotCounts \subseteq Nat \ {0}
  /\ ByteCounts \subseteq Nat /\ Alignments \subseteq Nat
  /\ RunAlignment \in Nat /\ MemBytes \in Nat

ASSUME PageAssumption == Sysconf \subseteq Int /\ DefaultPage \in Nat \ {0}

(* A huge page is a power of two, which every smaller one divides.         *)
ASSUME HugeAssumption ==
  /\ HugeBytes \in Nat \ {0} /\ WordBits \in Nat
  /\ \A e \in 0 .. WordBits - 1 : 2 ^ e <= HugeBytes => HugeBytes % 2 ^ e = 0

ASSUME NullAssumption == Null \notin Int /\ Null \notin ListNodes

(* What the constructor asserts of a layout, "granule must hold at least   *)
(* one node", holds of every type and page size.                           *)
ASSUME LayoutAssumption ==
  \A type \in NodeTypes, answer \in Sysconf :
     LayoutFor(type, DetectPageSize(answer)) \in Layouts

Init ==
  /\ \E answer \in Sysconf : page = DetectPageSize(answer)
  /\ T \in NodeTypes
  /\ client \in {"chunks", "runner", "owner"}
  /\ headers \in (IF client = "chunks" THEN BOOLEAN ELSE {FALSE})
  /\ huge \in (IF client = "chunks" THEN {FALSE} ELSE BOOLEAN)
  /\ heap = {}
  /\ chunk = [c \in Chunks |-> NoChunk]
  /\ stamped = [a \in {} |-> Null]
  /\ list = [n \in ListNodes |-> NoNode]
  /\ adding = Null
  /\ owner = NoMemory /\ asked = NoMemory
  /\ wrong = FALSE

-----------------------------------------------------------------------------
(* The system.                                                             *)

Overlaps(r, base, bytes) == base < r.base + r.bytes /\ r.base < base + bytes

(* The lowest place that is free; the request may be refused instead.      *)
Fits(base, bytes, align) ==
  /\ base % align = 0 /\ base + bytes <= MemBytes
  /\ \A r \in heap : ~Overlaps(r, base, bytes)
Place(base, bytes, align) ==
  /\ Fits(base, bytes, align)
  /\ \A b \in 0 .. base - 1 : ~Fits(b, bytes, align)

Region(base, bytes, align, how) ==
  [base |-> base, bytes |-> bytes, align |-> align, how |-> how]

Deleted(base, align) == {r \in heap : r.how = "new" /\ r.base = base /\ r.align = align}
Unmapped(base, bytes) == {r \in heap : r.how = "mmap" /\ r.base = base /\ r.bytes = bytes}

-----------------------------------------------------------------------------
(* chunk_t                                                                 *)

ChunkLayout == LayoutFor(T, page)

(* The memory a chunk of sz slots asks for; sums and products that exceed  *)
(* size_t throw.                                                           *)
Granules(sz) == GranuleCount(ChunkLayout, sz)
ChunkBytes(sz) == IF headers THEN Granules(sz) * ChunkLayout.granule
                  ELSE RoundUp(sz * NodeBytes(T), page)
ChunkAlign == IF headers THEN ChunkLayout.granule
              ELSE IF HasSingleBit(page) /\ page > NodeAlignment(T) THEN page
              ELSE NodeAlignment(T)
Representable(sz) ==
  IF headers THEN sz + NodesPerGranule(ChunkLayout) - 1 <= SizeMax /\ ChunkBytes(sz) <= SizeMax
  ELSE sz * NodeBytes(T) <= SizeMax /\ ChunkBytes(sz) <= SizeMax

GranuleBases(base, sz) == {base + g * ChunkLayout.granule : g \in 0 .. Granules(sz) - 1}

Construct(c, sz) ==
  /\ ~chunk[c].alive
  /\ Representable(sz)
  /\ \E base \in 0 .. MemBytes - 1 :
        /\ Place(base, ChunkBytes(sz), ChunkAlign)
        /\ heap' = heap \cup {Region(base, ChunkBytes(sz), ChunkAlign, "new")}
        /\ chunk' = [chunk EXCEPT ![c] = [alive |-> TRUE, count |-> sz,
                                          align |-> ChunkAlign, nodes |-> base]]
        /\ stamped' = IF ~headers THEN stamped
                      ELSE [a \in DOMAIN stamped \cup GranuleBases(base, sz) |->
                              IF a \in DOMAIN stamped THEN stamped[a] ELSE Null]
  /\ UNCHANGED <<config, list, adding, owner, asked, wrong>>

ConstructEmpty(c) ==
  /\ ~chunk[c].alive
  /\ chunk' = [chunk EXCEPT ![c] = EmptyChunk]
  /\ UNCHANGED <<config, heap, stamped, list, adding, owner, asked, wrong>>

(* stamp_owner, which the pool calls on its new chunk.                     *)
StampOwner(c, p) ==
  /\ headers /\ chunk[c].nodes # Null
  /\ \A a \in GranuleBases(chunk[c].nodes, chunk[c].count) : stamped[a] = Null
  /\ stamped' = [a \in DOMAIN stamped |->
                   IF a \in GranuleBases(chunk[c].nodes, chunk[c].count) THEN p
                   ELSE stamped[a]]
  /\ UNCHANGED <<config, heap, chunk, list, adding, owner, asked, wrong>>

(* release(): what happens to the heap and to the header words.            *)
Release(k) ==
  IF k.nodes = Null THEN UNCHANGED <<heap, stamped, wrong>>
  ELSE LET gone == Deleted(k.nodes, k.align)
       IN  /\ heap' = heap \ gone
           /\ wrong' = (wrong \/ gone = {})
           /\ stamped' = [a \in {a \in DOMAIN stamped :
                                   \A r \in gone : a \notin r.base .. r.base + r.bytes - 1}
                            |-> stamped[a]]

Destroy(c) ==
  /\ chunk[c].alive
  /\ Release(chunk[c])
  /\ chunk' = [chunk EXCEPT ![c] = NoChunk]
  /\ UNCHANGED <<config, list, adding, owner, asked>>

MoveConstruct(c, d) ==
  /\ ~chunk[c].alive /\ chunk[d].alive
  /\ chunk' = [chunk EXCEPT ![c] = chunk[d], ![d] = EmptyChunk]
  /\ UNCHANGED <<config, heap, stamped, list, adding, owner, asked, wrong>>

(* Mutant: the alignment, which is the granule size, stays behind.         *)
AssignKeepsAlign(c, d) ==
  /\ c # d /\ chunk[c].alive /\ chunk[d].alive
  /\ Release(chunk[c])
  /\ chunk' = [chunk EXCEPT ![c] = [chunk[d] EXCEPT !.align = chunk[c].align],
                            ![d] = EmptyChunk]
  /\ UNCHANGED <<config, list, adding, owner, asked>>

(* Assignment to itself does nothing.                                      *)
MoveAssign(c, d) ==
  /\ c # d /\ chunk[c].alive /\ chunk[d].alive
  /\ Release(chunk[c])
  /\ chunk' = [chunk EXCEPT ![c] = chunk[d], ![d] = EmptyChunk]
  /\ UNCHANGED <<config, list, adding, owner, asked>>

-----------------------------------------------------------------------------
(* Owned memory.                                                           *)

(* allocate_owned_memory: the memory m for a request, if it is granted.    *)
Accepts(bytes, align) ==
  /\ bytes # 0 /\ align >= PointerBytes /\ HasSingleBit(align)
  /\ huge => align <= HugeBytes /\ RoundUp(bytes, HugeBytes) <= SizeMax

Granted(bytes, align, m) ==
  /\ Accepts(bytes, align)
  /\ m.bytes = (IF huge THEN RoundUp(bytes, HugeBytes) ELSE bytes)
  /\ m.align = (IF huge THEN HugeBytes ELSE align)
  /\ Place(m.base, m.bytes, m.align)

HowOwned == IF huge THEN "mmap" ELSE "new"

(* release_owned_memory                                                    *)
ReleasedBy(m) == IF m.base = Null THEN {}
                 ELSE IF huge THEN Unmapped(m.base, m.bytes)
                 ELSE Deleted(m.base, m.align)
Matches(m) == m.base # Null => ReleasedBy(m) # {}

(* owned_memory_owner                                                      *)
OwnerConstruct(bytes, align) ==
  /\ owner = NoMemory
  /\ \E base \in 0 .. MemBytes - 1 :
        LET m == [base |-> base,
                  bytes |-> IF huge THEN RoundUp(bytes, HugeBytes) ELSE bytes,
                  align |-> IF huge THEN HugeBytes ELSE align]
        IN  /\ Granted(bytes, align, m)
            /\ owner' = m
            /\ heap' = heap \cup {Region(m.base, m.bytes, m.align, HowOwned)}
  /\ asked' = [base |-> Null, bytes |-> bytes, align |-> align]
  /\ UNCHANGED <<config, chunk, stamped, list, adding, wrong>>

OwnerDestroy ==
  /\ owner # NoMemory
  /\ heap' = heap \ ReleasedBy(owner)
  /\ wrong' = (wrong \/ ~Matches(owner))
  /\ owner' = NoMemory /\ asked' = NoMemory
  /\ UNCHANGED <<config, chunk, stamped, list, adding>>

-----------------------------------------------------------------------------
(* The runner's chunk list.                                                *)

(* _add_owned_chunk: a list node first, then the memory, which may be      *)
(* refused; then the node goes back.                                       *)
NewListNode(n) ==
  /\ adding = Null /\ ~list[n].used
  /\ adding' = n
  /\ list' = [list EXCEPT ![n].used = TRUE]
  /\ UNCHANGED <<config, heap, chunk, stamped, owner, asked, wrong>>

AddOwnedChunk(bytes) ==
  /\ adding # Null
  /\ \E base \in 0 .. MemBytes - 1 :
        LET m == [base |-> base,
                  bytes |-> IF huge THEN RoundUp(bytes, HugeBytes) ELSE bytes,
                  align |-> IF huge THEN HugeBytes ELSE RunAlignment]
        IN  /\ Granted(bytes, RunAlignment, m)
            /\ list' = [list EXCEPT ![adding].memory = m]
            /\ heap' = heap \cup {Region(m.base, m.bytes, m.align, HowOwned)}
  /\ adding' = Null
  /\ UNCHANGED <<config, chunk, stamped, owner, asked, wrong>>

AddRefused ==
  /\ adding # Null
  /\ list' = [list EXCEPT ![adding] = NoNode]
  /\ adding' = Null
  /\ UNCHANGED <<config, heap, chunk, stamped, owner, asked, wrong>>

(* _add_external_chunk: the caller's memory is not part of the heap.       *)
AddExternalChunk(n) ==
  /\ adding = Null /\ \A x \in ListNodes : ~list[x].used
  /\ list' = [list EXCEPT ![n] = [used |-> TRUE, memory |-> NoMemory, external |-> TRUE]]
  /\ UNCHANGED <<config, heap, chunk, stamped, adding, owner, asked, wrong>>

(* _release_owned_chunks, called by the destructor.                        *)
ReleaseOwnedChunks ==
  /\ adding = Null /\ \E n \in ListNodes : list[n].used
  /\ LET mine == {n \in ListNodes : list[n].memory.base # Null}
         back == [n \in ListNodes |->
                    [list[n].memory EXCEPT !.align = IF huge THEN HugeBytes
                                                     ELSE RunAlignment]]
     IN  /\ heap' = heap \ UNION {ReleasedBy(back[n]) : n \in mine}
         /\ wrong' = (wrong \/ \E n \in mine : ~Matches(back[n]))
  /\ list' = [n \in ListNodes |-> NoNode]
  /\ UNCHANGED <<config, chunk, stamped, adding, owner, asked>>

-----------------------------------------------------------------------------
ChunkStep(c) ==
  \/ ConstructEmpty(c) \/ Destroy(c)
  \/ \E sz \in SlotCounts : Construct(c, sz)
  \/ \E p \in Pools : StampOwner(c, p)
  \/ \E d \in Chunks : MoveConstruct(c, d) \/ MoveAssign(c, d)

RunnerStep ==
  \/ \E n \in ListNodes : NewListNode(n) \/ AddExternalChunk(n)
  \/ \E bytes \in ByteCounts : AddOwnedChunk(bytes)
  \/ AddRefused \/ ReleaseOwnedChunks

OwnerStep ==
  \/ \E bytes \in ByteCounts, align \in Alignments : OwnerConstruct(bytes, align)
  \/ OwnerDestroy

Next ==
  \/ client = "chunks" /\ \E c \in Chunks : ChunkStep(c)
  \/ client = "runner" /\ RunnerStep
  \/ client = "owner" /\ OwnerStep

Spec == Init /\ [][Next]_vars

-----------------------------------------------------------------------------
(* Properties.                                                             *)

(* Memory is given back exactly once, and the way it was obtained: every   *)
(* region in the heap belongs to one object, no object refers to memory    *)
(* that is not in the heap, no release ever failed to match a region, and  *)
(* what an owner got is as large and as aligned as it asked for.  This is  *)
(* across moves and assignments of chunks, refused mappings, huge and      *)
(* ordinary pages, and a caller's own buffer, which is never released.     *)
OwnedOnce ==
  LET ofChunk(r) == {c \in Chunks : chunk[c].nodes = r.base}
      ofList(r) == {n \in ListNodes : list[n].memory.base = r.base}
      ofOwner(r) == IF owner.base = r.base THEN 1 ELSE 0
      bases == {r.base : r \in heap}
  IN  /\ ~wrong
      /\ \A r \in heap : Cardinality(ofChunk(r)) + Cardinality(ofList(r)) + ofOwner(r) = 1
      /\ \A c \in Chunks : chunk[c].nodes \in bases \cup {Null}
      /\ \A n \in ListNodes :
            /\ list[n].memory.base \in bases \cup {Null}
            /\ list[n].used => list[n].memory.base # Null \/ list[n].external \/ adding = n
      /\ owner.base # Null => /\ owner.bytes >= asked.bytes
                              /\ owner.align >= asked.align
                              /\ owner.base % asked.align = 0

(* The arithmetic of a headered chunk agrees with itself, wherever its     *)
(* object has moved: contains() accepts an address exactly when it is      *)
(* at(i) for some i below count, so neither header bytes nor gaps nor the  *)
(* tail of the last granule; every byte of every node lies in the chunk's  *)
(* memory, behind its header, apart from all other nodes; and masking it   *)
(* finds the header, stamped with the pool that stamped the chunk.         *)
LayoutExact ==
  \A c \in Chunks : headers /\ chunk[c].nodes # Null =>
    LET k == chunk[c]
        L == [ChunkLayout EXCEPT !.granule = k.align]
        ours == {r \in heap : r.base = k.nodes}
        bytes(i) == At(L, i) .. At(L, i) + L.node - 1
        slots == 0 .. k.count - 1
    IN  /\ \A r \in ours :
              /\ {b \in -k.nodes .. r.bytes + 2 * L.granule : Contains(L, k.count, b)}
                   = {At(L, i) : i \in slots}
              /\ \A i \in slots : bytes(i) \subseteq 0 .. r.bytes - 1
        /\ \A i, j \in slots : i # j => bytes(i) \cap bytes(j) = {}
        /\ \A i \in slots : \A b \in bytes(i) :
              LET h == HeaderOf(k.align, k.nodes + b)
              IN  /\ h \in DOMAIN stamped
                  /\ h + GranuleHeaderBytes <= k.nodes + At(L, i)
                  /\ stamped[h] = stamped[k.nodes]
=============================================================================
