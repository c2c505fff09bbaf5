--------------------------- MODULE GranuleLayout ---------------------------
(***************************************************************************)
(* Where the nodes of a chunk lie: node_t and chunk_t of lib/types.hpp.    *)
(*                                                                         *)
(* The memory of a chunk with owner headers is a row of granules.  Each    *)
(* starts with a header that names the owning pool, followed by as many    *)
(* nodes as fit; the header of a node is found by masking its address.     *)
(* A layout L has the node size, the offset of the first node and the      *)
(* granule size, all in bytes.                                             *)
(***************************************************************************)
EXTENDS Integers

PointerBytes == 8
GranuleHeaderBytes == 16

Larger(a, b) == IF a >= b THEN a ELSE b

(* A node holds a T or a link, aligned for both.                           *)
NodeAlignment(T) == Larger(T.align, PointerBytes)
NodeBytes(T) ==
  LET bytes == Larger(T.size, PointerBytes)
  IN  ((bytes + NodeAlignment(T) - 1) \div NodeAlignment(T)) * NodeAlignment(T)

HeaderOffset(T) == Larger(GranuleHeaderBytes, NodeAlignment(T))

BitCeil(n) == 2 ^ (CHOOSE e \in 0 .. n : /\ 2 ^ e >= n
                                         /\ \A d \in 0 .. e - 1 : 2 ^ d < n)

GranuleFor(T, page) == Larger(page, BitCeil(NodeBytes(T) + HeaderOffset(T)))

LayoutFor(T, page) == [node |-> NodeBytes(T), offset |-> HeaderOffset(T),
                       granule |-> GranuleFor(T, page)]

(* Every layout has room for a node behind the header.                     *)
Layouts == {L \in [node : Nat \ {0}, offset : Nat \ {0}, granule : Nat \ {0}] :
              L.offset + L.node <= L.granule}

NodesPerGranule(L) == (L.granule - L.offset) \div L.node
GranuleCount(L, count) == (count + NodesPerGranule(L) - 1) \div NodesPerGranule(L)

(* at(i), as an offset from the chunk's first byte.                        *)
At(L, i) == (i \div NodesPerGranule(L)) * L.granule + L.offset
              + (i % NodesPerGranule(L)) * L.node

(* Mutant: the tail of the last granule counts as part of the chunk.       *)
ContainsTail(L, count, delta) ==
  LET offset == delta % L.granule
  IN  /\ delta >= 0 /\ delta < GranuleCount(L, count) * L.granule
      /\ offset >= L.offset /\ (offset - L.offset) % L.node = 0
      /\ (offset - L.offset) \div L.node < NodesPerGranule(L)

(* contains(), for an address delta bytes from the chunk's first.          *)
Contains(L, count, delta) ==
  LET offset == delta % L.granule
      idx == (offset - L.offset) \div L.node
  IN  /\ delta >= 0 /\ delta < GranuleCount(L, count) * L.granule
      /\ offset >= L.offset /\ (offset - L.offset) % L.node = 0
      /\ idx < NodesPerGranule(L)
      /\ (delta \div L.granule) * NodesPerGranule(L) + idx < count

(* The granule an address lies in; granules are powers of two.             *)
HeaderOf(granule, address) == address - (address % granule)
=============================================================================
