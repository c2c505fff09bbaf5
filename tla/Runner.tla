------------------------------- MODULE Runner -------------------------------
(***************************************************************************)
(* The boundary-tag allocator of variable-size runs, runner::allocator of  *)
(* lib/runner.hpp.                                                         *)
(*                                                                         *)
(* A chunk is a row of runs closed by an epilogue.  A run is a 16-byte     *)
(* header followed by its payload; the header packs the run's size, whether*)
(* it is free and whether the run before it is free.  A free run repeats   *)
(* its size in a footer, through which its successor finds it, and sits in *)
(* a bin chosen by its size.  Only the owner's thread touches any of this. *)
(* Every thread may free a run by parking it on the remote stack, which    *)
(* the owner takes over in one exchange when no free run fits, and replays *)
(* through deallocate_bytes.                                               *)
(*                                                                         *)
(* Addresses are byte addresses of one arena in which chunks are mapped    *)
(* side by side.  The remote stack has the protocol of module NodePool,    *)
(* where its interleavings are studied; here it is the set of parked runs. *)
(***************************************************************************)
EXTENDS Integers, FiniteSets, FiniteSetsExt, Functions

CONSTANTS PageSize,      \* what detect_page_size() returns
          MaxBytes,      \* bytes that can be mapped
          WordBits,      \* the width of size_t
          InitialBytes,  \* constructor arguments considered
          ExternalBytes, \* sizes of caller-provided backings considered
          Requests       \* payload sizes asked for

RunAlignment == 16
HeaderSize == 16
MinFreeRunSize == 48
SplitThreshold == 64
EpilogueSize == 16
MinChunkBytes == MinFreeRunSize + EpilogueSize

SizeMax == 2 ^ WordBits - 1   \* numeric_limits<size_t>::max()

(* The last assumption is arithmetic: it spares a reader of the proofs a   *)
(* definition of powers.                                                   *)
ASSUME WordAssumption == /\ WordBits \in Nat /\ SizeMax \in Nat
                         /\ (SizeMax + 1) % RunAlignment = 0
                         /\ \A w \in 0 .. WordBits - 1 : 2 ^ w \in Nat
ASSUME PageAssumption == PageSize \in Nat /\ PageSize > 0 /\ PageSize % RunAlignment = 0
ASSUME BytesAssumption == MaxBytes \in Nat /\ MaxBytes < SizeMax
ASSUME RequestAssumption == Requests \subseteq 0 .. SizeMax
ASSUME ChunkAssumption == /\ InitialBytes \subseteq 0 .. MaxBytes
                          /\ ExternalBytes \subseteq MinChunkBytes .. MaxBytes

VARIABLES
  canGrow,      \* template parameter CanGrow
  mem,          \* headers, footers and bins
  chunks,       \* [begin, bytes] of each chunk
  top,          \* first byte never mapped
  nextGrowth,   \* _next_growth
  deferred,     \* _deferred_bytes
  liveBytes,    \* _stats.live_bytes
  held,         \* bytes asked for each run in use (the callers' state)
  remote,       \* runs parked on the remote stack
  walk,         \* runs exchanged away from it and not yet replayed
  pc,           \* where the owner is inside allocate_bytes
  asked,        \* the payload bytes of that call
  owed          \* history: runs parked when that call first missed

(* What the owner's memory holds.                                          *)
hdr == mem.hdr     \* the header word at each run or epilogue address
foot == mem.foot   \* the footer word, by the address just past it
bin == mem.bin     \* the bin each linked run is in
mask == mem.mask   \* _bin_nonempty_mask

growth == <<chunks, top, nextGrowth, deferred>>
call == <<pc, asked, owed>>
vars == <<canGrow, mem, growth, liveBytes, held, remote, walk, call>>

-----------------------------------------------------------------------------
(* Sizes and bins.                                                         *)

AlignUp(v, a) == ((v + a - 1) \div a) * a

NormalizesAnything(bytes) == TRUE   \* mutant: the sums are not checked

(* _normalized_run_bytes_for_payload: it reports failure on overflow, and  *)
(* what it computes is in size_t, which wraps around.                      *)
Normalizes(bytes) ==
  /\ bytes + RunAlignment - 1 <= SizeMax
  /\ HeaderSize + AlignUp(bytes, RunAlignment) + RunAlignment - 1 <= SizeMax
RunBytesFor(bytes) ==
  Max({(HeaderSize + AlignUp(bytes, RunAlignment)) % (SizeMax + 1), MinFreeRunSize})

MinBinBytes == 8
LinearCutoff == 4096
LinearBins == LinearCutoff \div MinBinBytes
BinCount == LinearBins + 24

(* The digits of v: as many as there are powers of two up to v.            *)
BitWidth(v) == Cardinality({w \in 0 .. WordBits - 1 : 2 ^ w <= v})
Odd(v) == IF v % 2 = 0 THEN v + 1 ELSE v     \* v | 1

(* _bin_index_for.                                                         *)
BinIndexFor(bytes) ==
  LET aligned == AlignUp(Odd(bytes), MinBinBytes)
      log == BitWidth(aligned - 1) - BitWidth(LinearCutoff)
  IN  IF aligned <= LinearCutoff THEN (aligned \div MinBinBytes) - 1
      ELSE Min({LinearBins + log, BinCount - 1})

-----------------------------------------------------------------------------
(* The primitives on the owner's memory m.                                 *)

SetHeader(m, h, size, free, prev) ==
  [m EXCEPT !.hdr = [x \in (DOMAIN m.hdr) \cup {h} |->
                       IF x = h THEN [size |-> size, free |-> free, prevFree |-> prev]
                       ELSE m.hdr[x]]]

(* The words of headers swallowed by a larger run hold no header any more. *)
Forget(m, h) == [m EXCEPT !.hdr = Restrict(@, (DOMAIN @) \ {h})]

(* Footers left behind inside the run are stale words nobody may read.     *)
WriteFooter(m, h) ==
  LET end == h + m.hdr[h].size
      outside == {x \in DOMAIN m.foot : x <= h \/ x > end}
  IN  [m EXCEPT !.foot = [x \in outside \cup {end} |->
                            IF x = end THEN m.hdr[h].size ELSE m.foot[x]]]

(* Footers inside the run at h are overwritten by payload.                 *)
HandOver(m, h) ==
  [m EXCEPT !.foot = Restrict(@, {x \in DOMAIN @ : x <= h \/ x > h + m.hdr[h].size})]

(* _next_run: null at the epilogue, whose size field is zero.              *)
HasNext(m, h) == m.hdr[h + m.hdr[h].size].size # 0
NextRun(m, h) == h + m.hdr[h].size
PrevRun(m, h) == h - m.foot[h]

SetNextPrevFree(m, h, flag) ==
  IF HasNext(m, h) THEN [m EXCEPT !.hdr[NextRun(m, h)].prevFree = flag] ELSE m

LinkFree(m, h) ==
  LET idx == BinIndexFor(m.hdr[h].size)
  IN  [m EXCEPT !.bin = [x \in (DOMAIN @) \cup {h} |-> IF x = h THEN idx ELSE @[x]],
                !.mask = @ \cup {idx}]

(* Mutant: the bit of the bin is left as it is.                            *)
UnlinkKeepsBit(m, h) == [m EXCEPT !.bin = Restrict(@, (DOMAIN @) \ {h})]

UnlinkFree(m, h) ==
  LET idx == BinIndexFor(m.hdr[h].size)
      rest == (DOMAIN m.bin) \ {h}
  IN  [m EXCEPT !.bin = Restrict(@, rest),
                !.mask = IF \E x \in rest : m.bin[x] = idx THEN @ ELSE @ \ {idx}]

(* Mutants of _find_fit: a logarithmic start bin supplies its head unseen; *)
(* and the scan does not go on past the start bin.                         *)
FitsUnseen(needed) ==
  LET from == {i \in mask : i >= BinIndexFor(needed)}
  IN  IF from = {} THEN {} ELSE {h \in DOMAIN bin : bin[h] = Min(from)}

FitsStartBinOnly(needed) ==
  {h \in DOMAIN bin : bin[h] = BinIndexFor(needed) /\ hdr[h].size >= needed}

(* _find_fit: the runs it may return.  The first non-empty bin from the    *)
(* start bin on supplies its head unseen, except that a logarithmic start  *)
(* bin is searched for a run that is large enough.  The order inside a bin *)
(* is not tracked.                                                         *)
Fits(needed) ==
  LET start == BinIndexFor(needed)
      roomy == {h \in DOMAIN bin :
                  bin[h] = start /\ (start < LinearBins \/ hdr[h].size >= needed)}
      above == {i \in mask : i > start}
  IN  IF start \in mask /\ (start < LinearBins \/ roomy # {}) THEN roomy
      ELSE IF above = {} THEN {}
      ELSE {h \in DOMAIN bin : bin[h] = Min(above)}

(* Mutants of the split: any remainder is split off; and the successor of  *)
(* a run taken whole still believes its predecessor is free.               *)
OccupySplitsAlways(m, h, needed, total) ==
  LET kept == SetHeader(m, h, needed, FALSE, m.hdr[h].prevFree)
      cut == LinkFree(WriteFooter(SetHeader(kept, h + needed, total - needed, TRUE, FALSE),
                                  h + needed), h + needed)
  IN  HandOver(IF total > needed THEN SetNextPrevFree(cut, h + needed, TRUE)
               ELSE SetNextPrevFree(kept, h, FALSE), h)

OccupySilently(m, h, needed, total) ==
  LET prev == m.hdr[h].prevFree
      kept == SetHeader(m, h, needed, FALSE, prev)
      cut == LinkFree(WriteFooter(SetHeader(kept, h + needed, total - needed, TRUE, FALSE),
                                  h + needed), h + needed)
  IN  HandOver(IF total - needed >= MinFreeRunSize + SplitThreshold
               THEN SetNextPrevFree(cut, h + needed, TRUE)
               ELSE SetHeader(m, h, total, FALSE, prev), h)

(* The tail shared by _allocate_from_free_run and expand: the run at h is  *)
(* in use with the first needed bytes of total, and the rest is split off  *)
(* when it is worth a run of its own.                                      *)
Occupy(m, h, needed, total) ==
  LET prev == m.hdr[h].prevFree
      rem == total - needed
      kept == SetHeader(m, h, needed, FALSE, prev)
      cut == LinkFree(WriteFooter(SetHeader(kept, h + needed, rem, TRUE, FALSE),
                                  h + needed), h + needed)
      whole == SetHeader(m, h, total, FALSE, prev)
  IN  HandOver(IF rem >= MinFreeRunSize + SplitThreshold
               THEN SetNextPrevFree(cut, h + needed, TRUE)
               ELSE SetNextPrevFree(whole, h, FALSE), h)

AllocateFromFreeRun(m, h, needed) ==
  Occupy(UnlinkFree(m, h), h, needed, m.hdr[h].size)

(* deallocate_bytes: absorb a free successor, then a free predecessor,     *)
(* mark, write the footer, tell the successor, link.                       *)
AbsorbNext(m, h) ==
  LET n == NextRun(m, h)
  IN  IF HasNext(m, h) /\ m.hdr[n].free
      THEN Forget([UnlinkFree(m, n) EXCEPT !.hdr[h].size = @ + m.hdr[n].size], n)
      ELSE m

FreeWithoutPrev(m0, h0) ==   \* mutant: a free predecessor is not absorbed
  LET m1 == AbsorbNext(m0, h0)
      m3 == SetHeader(m1, h0, m1.hdr[h0].size, TRUE, m1.hdr[h0].prevFree)
  IN  LinkFree(SetNextPrevFree(WriteFooter(m3, h0), h0, TRUE), h0)

FreeRun(m0, h0) ==
  LET m1 == AbsorbNext(m0, h0)
      merge == m1.hdr[h0].prevFree /\ m1.hdr[PrevRun(m1, h0)].free
      h == IF merge THEN PrevRun(m1, h0) ELSE h0
      m2 == IF merge
            THEN Forget([UnlinkFree(m1, h) EXCEPT !.hdr[h].size = @ + m1.hdr[h0].size], h0)
            ELSE m1
      m3 == SetHeader(m2, h, m2.hdr[h].size, TRUE, m2.hdr[h].prevFree)
  IN  LinkFree(SetNextPrevFree(WriteFooter(m3, h), h, TRUE), h)

(* _initialize_free_run over the chunk at begin: one free run, and the     *)
(* epilogue behind it.                                                     *)
InitializeFreeRun(m, begin, bytes) ==
  LET run == bytes - EpilogueSize
  IN  SetHeader(LinkFree(WriteFooter(SetHeader(m, begin, run, TRUE, FALSE), begin), begin),
                begin + run, 0, FALSE, TRUE)

Payload(size) == size - HeaderSize

-----------------------------------------------------------------------------
(* Construction.                                                           *)

(* _owned_chunk_bytes_for.                                                 *)
ChunkBytesFor(bytes) == AlignUp(Max({bytes, MinChunkBytes}), PageSize)

NoMem == [hdr |-> <<>>, foot |-> <<>>, bin |-> <<>>, mask |-> {}]

(* A constructor that begins with one chunk of the given bytes.            *)
StartWith(bytes) ==
  /\ mem = InitializeFreeRun(NoMem, 0, bytes)
  /\ chunks = {[begin |-> 0, bytes |-> bytes]}
  /\ top = bytes
  /\ deferred = 0

StartEager == \E b \in InitialBytes :
  /\ ChunkBytesFor(b) <= MaxBytes
  /\ StartWith(ChunkBytesFor(b))
  /\ nextGrowth = ChunkBytesFor(b)
  /\ canGrow \in BOOLEAN

StartLazy == \E b \in InitialBytes :
  /\ mem = NoMem
  /\ chunks = {} /\ top = 0
  /\ nextGrowth = Max({b, 65536})
  /\ deferred = Max({b, 1})
  /\ canGrow \in BOOLEAN

(* A caller's backing: what is left after aligning its end down.           *)
StartExternal == \E b \in ExternalBytes :
  /\ StartWith(b - (b % RunAlignment))
  /\ nextGrowth = 0
  /\ canGrow \in BOOLEAN

Init == /\ StartEager \/ StartLazy \/ StartExternal
        /\ liveBytes = 0
        /\ held = <<>>
        /\ remote = {} /\ walk = {}
        /\ pc = "idle" /\ asked = 0 /\ owed = {}

-----------------------------------------------------------------------------
(* allocate_bytes.                                                         *)

(* A request for no bytes is a request for one.                            *)
AtLeastOne(bytes) == Max({bytes, 1})
Needed(bytes) == RunBytesFor(AtLeastOne(bytes))

(* The call ends with the run at h in the caller's hands.                  *)
Grant(h, bytes) ==
  /\ mem' = AllocateFromFreeRun(mem, h, Needed(bytes))
  /\ liveBytes' = liveBytes + Payload(hdr'[h].size)
  /\ held' = [x \in (DOMAIN held) \cup {h} |-> IF x = h THEN bytes ELSE held[x]]
  /\ pc' = "idle" /\ asked' = 0 /\ owed' = {}
  /\ UNCHANGED <<canGrow, growth, remote, walk>>

(* An alignment above run_alignment, or a size whose run would overflow,   *)
(* is refused with nullptr and changes nothing.                            *)
AllocateHit(bytes) ==
  /\ pc = "idle"
  /\ Normalizes(AtLeastOne(bytes))
  /\ \E h \in Fits(Needed(bytes)) : Grant(h, bytes)

MissWithoutDrain(bytes) ==   \* mutant: the remote stack is not consulted
  /\ pc = "idle"
  /\ Normalizes(AtLeastOne(bytes))
  /\ Fits(Needed(bytes)) = {}
  /\ pc' = "miss"
  /\ asked' = bytes
  /\ owed' = remote
  /\ UNCHANGED <<canGrow, mem, growth, liveBytes, held, remote, walk>>

AllocateMiss(bytes) ==
  /\ pc = "idle"
  /\ Normalizes(AtLeastOne(bytes))
  /\ Fits(Needed(bytes)) = {}
  /\ pc' = "drain"
  /\ asked' = bytes
  /\ owed' = remote
  /\ UNCHANGED <<canGrow, mem, growth, liveBytes, held, remote, walk>>

(* _drain_remote: the exchange ...                                         *)
DrainExchange ==
  /\ pc = "drain"
  /\ remote' = {}
  /\ walk' = remote
  /\ pc' = IF remote = {} THEN "miss" ELSE "replay"
  /\ UNCHANGED <<canGrow, mem, growth, liveBytes, held, asked, owed>>

(* ... and the replay of one parked run.                                   *)
Replay(h) ==
  /\ pc = "replay"
  /\ h \in walk
  /\ mem' = FreeRun(mem, h)
  /\ liveBytes' = liveBytes - Payload(hdr[h].size)
  /\ walk' = walk \ {h}
  /\ pc' = IF walk = {h} THEN "refit" ELSE "replay"
  /\ UNCHANGED <<canGrow, growth, held, remote, asked, owed>>

(* _find_fit after a drain, a first chunk or a growth.                     *)
Refit ==
  /\ pc \in {"refit", "last"}
  /\ \E h \in Fits(Needed(asked)) : Grant(h, asked)

RefitMiss ==
  /\ pc = "refit"
  /\ Fits(Needed(asked)) = {}
  /\ pc' = "miss"
  /\ UNCHANGED <<canGrow, mem, growth, liveBytes, held, remote, walk, asked, owed>>

(* _add_owned_chunk, when the system has the memory.                       *)
AddOwnedChunk(bytes) ==
  LET size == ChunkBytesFor(bytes)
  IN  /\ top + size <= MaxBytes
      /\ mem' = InitializeFreeRun(mem, top, size)
      /\ chunks' = chunks \cup {[begin |-> top, bytes |-> size]}
      /\ top' = top + size

(* The deferred chunk of a lazily constructed runner.                      *)
FirstChunk ==
  /\ pc = "miss"
  /\ deferred # 0
  /\ AddOwnedChunk(deferred)
  /\ nextGrowth' = ChunkBytesFor(deferred)
  /\ deferred' = 0
  /\ pc' = "refit"
  /\ UNCHANGED <<canGrow, liveBytes, held, remote, walk, asked, owed>>

GrowthBare(needed) == Max({nextGrowth, needed})   \* mutant: no room for the epilogue

(* _grow_for.                                                              *)
GrowthFor(needed) == Max({nextGrowth, needed + MinChunkBytes})

Grow ==
  /\ pc = "miss"
  /\ deferred = 0
  /\ canGrow
  /\ AddOwnedChunk(GrowthFor(Needed(asked)))
  /\ nextGrowth' = Min({2 * ChunkBytesFor(GrowthFor(Needed(asked))), SizeMax})
  /\ pc' = "last"
  /\ UNCHANGED <<canGrow, deferred, liveBytes, held, remote, walk, asked, owed>>

(* Mutant: the call starts over instead of giving up.                      *)
AllocateRetries ==
  /\ pc = "miss"
  /\ pc' = "drain"
  /\ UNCHANGED <<canGrow, mem, growth, liveBytes, held, remote, walk, asked, owed>>

(* The call ends without a run: nullptr when the runner may not grow, an   *)
(* exception when the system refuses the chunk.                            *)
AllocateFails ==
  /\ pc = "miss"
  /\ pc' = "idle" /\ asked' = 0 /\ owed' = {}
  /\ UNCHANGED <<canGrow, mem, growth, liveBytes, held, remote, walk>>

-----------------------------------------------------------------------------
(* deallocate_bytes by the owner, expand, and remote_push by any thread.   *)

Drop(h) == held' = Restrict(held, (DOMAIN held) \ {h})

Deallocate(h) ==
  /\ pc = "idle"
  /\ h \in DOMAIN held
  /\ mem' = FreeRun(mem, h)
  /\ liveBytes' = liveBytes - Payload(hdr[h].size)
  /\ Drop(h)
  /\ UNCHANGED <<canGrow, growth, remote, walk, call>>

(* Mutant: the successor may be in use.                                    *)
ExpandFitsAnyNext(h, bytes) ==
  /\ bytes > Payload(hdr[h].size)
  /\ Normalizes(bytes)
  /\ HasNext(mem, h)
  /\ hdr[h].size + hdr[NextRun(mem, h)].size >= RunBytesFor(bytes)

(* expand returns early, changing nothing, when the run is large enough,   *)
(* when its successor is not free, or when both together are too small;    *)
(* otherwise it absorbs the successor and gives back what it can spare.    *)
ExpandFits(h, bytes) ==
  /\ bytes > Payload(hdr[h].size)
  /\ Normalizes(bytes)
  /\ HasNext(mem, h)
  /\ hdr[NextRun(mem, h)].free
  /\ hdr[h].size + hdr[NextRun(mem, h)].size >= RunBytesFor(bytes)

Expanded(h, bytes) ==
  LET n == NextRun(mem, h)
  IN  Occupy(Forget(UnlinkFree(mem, n), n), h, RunBytesFor(bytes), hdr[h].size + hdr[n].size)

ExpandUncounted(h, bytes) ==   \* mutant: live_bytes is forgotten
  /\ pc = "idle"
  /\ h \in DOMAIN held
  /\ ExpandFits(h, bytes)
  /\ mem' = Expanded(h, bytes)
  /\ held' = [held EXCEPT ![h] = bytes]
  /\ UNCHANGED <<canGrow, growth, liveBytes, remote, walk, call>>

Expand(h, bytes) ==
  /\ pc = "idle"
  /\ h \in DOMAIN held
  /\ ExpandFits(h, bytes)
  /\ mem' = Expanded(h, bytes)
  /\ liveBytes' = liveBytes + hdr'[h].size - hdr[h].size
  /\ held' = [held EXCEPT ![h] = bytes]
  /\ UNCHANGED <<canGrow, growth, remote, walk, call>>

RemotePush(h) ==
  /\ h \in DOMAIN held
  /\ remote' = remote \cup {h}
  /\ Drop(h)
  /\ UNCHANGED <<canGrow, mem, growth, liveBytes, walk, call>>

-----------------------------------------------------------------------------
OwnerContinues == \/ DrainExchange \/ Refit \/ RefitMiss
                  \/ FirstChunk \/ Grow \/ AllocateFails
                  \/ \E h \in walk : Replay(h)

Next == \/ \E b \in Requests : AllocateHit(b) \/ AllocateMiss(b)
        \/ OwnerContinues
        \/ \E h \in DOMAIN held :
              \/ Deallocate(h) \/ RemotePush(h)
              \/ \E b \in Requests : Expand(h, b)

Spec == Init /\ [][Next]_vars

(* The owner's thread keeps running once inside a call.                    *)
FairSpec == Spec /\ WF_vars(OwnerContinues)

-----------------------------------------------------------------------------
(* Properties.                                                             *)

Runs == {h \in DOMAIN hdr : hdr[h].size # 0}
FreeRuns == {h \in Runs : hdr[h].free}
UsedRuns == Runs \ FreeRuns
End(h) == h + hdr[h].size

TypeOK ==
  /\ canGrow \in BOOLEAN
  /\ \A h \in DOMAIN hdr : /\ h \in 0 .. MaxBytes
                           /\ hdr[h] \in [size : 0 .. MaxBytes, free : BOOLEAN,
                                          prevFree : BOOLEAN]
  /\ mask \subseteq 0 .. BinCount - 1
  /\ DOMAIN held \subseteq DOMAIN hdr
  /\ remote \cup walk \subseteq DOMAIN hdr
  /\ liveBytes \in 0 .. MaxBytes
  /\ pc \in {"idle", "drain", "replay", "refit", "miss", "last"}

(* Splitting, coalescing and expanding never lose or share a byte: the     *)
(* runs of every chunk tile it from its first byte to its epilogue, each   *)
(* aligned and large enough to hold free-list links and a footer.  And no  *)
(* runner is left without memory for ever: one that has no chunk yet, as   *)
(* when the system has refused the first, still has that chunk to map.     *)
RunsTile ==
  /\ TypeOK
  /\ chunks = {} => deferred # 0
  /\ \A c \in chunks :
        LET epilogue == c.begin + c.bytes - EpilogueSize
            inside == {h \in Runs : h \in c.begin .. epilogue - 1}
        IN  /\ c.begin \in Runs
            /\ epilogue \in DOMAIN hdr /\ hdr[epilogue].size = 0
            /\ \A h \in inside : /\ End(h) \in inside \cup {epilogue}
                                 /\ \A g \in inside : g > h => g >= End(h)
  /\ \A h \in Runs : /\ hdr[h].size >= MinFreeRunSize
                     /\ hdr[h].size % RunAlignment = 0
                     /\ \E c \in chunks : h \in c.begin .. c.begin + c.bytes - 1

(* Two neighbouring free runs are always merged, whichever of them was     *)
(* freed last and by whichever path: deallocate, replay, split or expand.  *)
Coalesced == \A h \in FreeRuns : End(h) \notin FreeRuns

(* The boundary tags tell the truth: a run's prev-free flag is set exactly *)
(* when the run before it is free, and a free run's footer has its size.   *)
BoundaryTagsExact ==
  /\ \A h \in Runs : End(h) \in Runs => hdr[End(h)].prevFree = hdr[h].free
  /\ \A c \in chunks : ~ hdr[c.begin].prevFree
  /\ \A h \in FreeRuns : End(h) \in DOMAIN foot /\ foot[End(h)] = hdr[h].size

(* Every free run, and nothing else, is linked, in the bin of its current  *)
(* size, and the bitmask has exactly the non-empty bins.                   *)
BinsExact ==
  /\ DOMAIN bin = FreeRuns
  /\ \A h \in FreeRuns : bin[h] = BinIndexFor(hdr[h].size)
  /\ mask = {bin[h] : h \in DOMAIN bin}

(* A run is marked in use exactly while a caller has it or its remote free *)
(* has not been replayed, and a caller's run holds what it was promised.   *)
UsedRunsAccounted ==
  /\ UsedRuns = (DOMAIN held) \cup remote \cup walk
  /\ (DOMAIN held) \cap (remote \cup walk) = {} /\ remote \cap walk = {}
  /\ \A h \in DOMAIN held : Payload(hdr[h].size) >= held[h]

(* _find_fit trusts the bins for the size of what it returns.              *)
FitsAreLargeEnough ==
  \A b \in Requests : \A h \in Fits(Needed(b)) : hdr[h].size >= Needed(b)

(* It also misses nothing: it comes back empty only if no free run is      *)
(* large enough.                                                           *)
NoFitOverlooked ==
  \A b \in Requests : Fits(Needed(b)) = {} => \A h \in FreeRuns : hdr[h].size < Needed(b)

(* What the comment on binning says: runs above 2 KiB are in logarithmic   *)
(* bins.  The code's cutoff is 4096.                                       *)
LogBinsAbove2KiB ==
  \A h \in FreeRuns : hdr[h].size > 2048 => bin[h] >= LinearBins

(* The chunk _grow_for maps always satisfies the request it was mapped for,*)
(* epilogue and rounding included.                                         *)
GrowthSuffices == pc = "last" => Fits(Needed(asked)) # {}

(* The boundary tags, bins and replays keep the contract of                *)
(* RunnerContract: a run in use is at its caller's disposal where it was   *)
(* granted, large enough, apart from every other run, until it is freed or *)
(* a remote free of it is replayed; nothing shrinks or moves it when its   *)
(* neighbours are split, merged or expanded; live_bytes is exact.          *)
Contract == INSTANCE RunnerContract WITH
  Align <- RunAlignment,
  chunk <- chunks,
  run <- [a \in {h + HeaderSize : h \in (DOMAIN held) \cup remote \cup walk} |->
            LET h == a - HeaderSize
            IN  [room |-> Payload(hdr[h].size),
                 asked |-> IF h \in DOMAIN held THEN held[h] ELSE 0,
                 back |-> h \notin DOMAIN held]],
  live <- liveBytes

ContractSpec == Contract!Spec

(* A call fails, or maps another chunk, only after replaying everything    *)
(* that was parked when it first missed.                                   *)
DrainBeforeFail ==
  [][(pc = "miss" /\ (pc' = "idle" \/ chunks' # chunks))
        => owed \cap UsedRuns = {}]_vars

(* Every allocate_bytes returns.                                           *)
CallsReturn == pc # "idle" ~> pc = "idle"
=============================================================================
