--------------------------- MODULE StompAllocator ---------------------------
(***************************************************************************)
(* StompAllocator (ServerCore/Allocator.cpp), which xnew, MakeShared and   *)
(* StlAllocator use in debug builds: whole pages for each block, with the  *)
(* block at their end, so that what runs over it meets a page that is not  *)
(* there.  The names carry a prefix so that a run can extend this module   *)
(* beside others.                                                          *)
(*                                                                         *)
(* Addresses are numbers; the first page is never mapped, as NULL is in    *)
(* it.  VirtualAlloc places a region at a multiple of the allocation       *)
(* granularity, anywhere, and may fail; VirtualFree with MEM_RELEASE takes *)
(* the base address of a region and fails for any other.                   *)
(***************************************************************************)
EXTENDS Naturals, FiniteSets

CONSTANTS
  PageSize,   \* PAGE_SIZE (4096)
  Granule,    \* pages of an allocation granule (16)
  LastPage,   \* bound on the address space
  BlockSizes  \* sizes that are asked for

ASSUME StompAssumption ==
  /\ PageSize \in Nat \ {0} /\ Granule \in Nat \ {0} /\ LastPage \in Nat
  /\ BlockSizes \subseteq Nat \ {0}

VARIABLES
  regions,  \* what VirtualAlloc has reserved: <<base, bytes>>
  blocks,   \* what Alloc has given out: <<dataAddress, size>>
  faulted   \* an access to memory that is not there ended the process

stompVars == <<regions, blocks, faulted>>

Bytes(r) == r[1] .. r[1] + r[2] - 1
Mapped == UNION {Bytes(r) : r \in regions}

PageCount(size) == (size + PageSize - 1) \div PageSize

(* Mutant: the block is put at the start of its pages. *)
FrontOffset(size) == 0
DataOffset(size) == PageCount(size) * PageSize - size

(* Mutant: Release forgets that Alloc moved the address. *)
GivenAddress(address) == address
BaseAddress(address) == address - (address % PageSize)

StompInit == regions = {} /\ blocks = {} /\ faulted = FALSE

-----------------------------------------------------------------------------
(* StompAllocator::Alloc: *)
Alloc(size) ==
  /\ ~faulted
  /\ LET bytes == PageCount(size) * PageSize
     IN  \E page \in 1 .. LastPage :
           LET region == <<page * PageSize, bytes>>
           IN  /\ page % Granule = 0
               /\ page * PageSize + bytes <= (LastPage + 1) * PageSize
               /\ Bytes(region) \cap Mapped = {}
               /\ regions' = regions \cup {region}
               /\ blocks' = blocks \cup
                    {<<page * PageSize + DataOffset(size), size>>}
  /\ UNCHANGED faulted

(* VirtualAlloc returns NULL and Alloc an address in the first page, which *)
(* is NULL only for whole pages; nobody looks, and the constructor of      *)
(* xnew or the container writes there.                                     *)
AllocFails(size) ==
  /\ ~faulted
  /\ faulted' = (DataOffset(size) \notin Mapped)
  /\ UNCHANGED <<regions, blocks>>

(* StompAllocator::Release. *)
Release(block) ==
  /\ ~faulted
  /\ blocks' = blocks \ {block}
  /\ regions' = {r \in regions : r[1] # BaseAddress(block[1])}
  /\ UNCHANGED faulted

StompNext ==
  \/ \E size \in BlockSizes : Alloc(size) \/ AllocFails(size)
  \/ \E block \in blocks : Release(block)
  \/ faulted /\ UNCHANGED stompVars

StompSpec == StompInit /\ [][StompNext]_stompVars

-----------------------------------------------------------------------------
(* Each block has a region of its own that ends where it ends, and no      *)
(* region outlives its block: Release finds the address that Alloc got     *)
(* from VirtualAlloc, for every size, and frees no other block's pages.    *)
OneRegionEach ==
  /\ Cardinality(regions) = Cardinality(blocks)
  /\ \A b \in blocks :
       /\ \E r \in regions :
            Bytes(b) \subseteq Bytes(r) /\ b[1] + b[2] = r[1] + r[2]
       /\ \A c \in blocks \ {b} : Bytes(b) \cap Bytes(c) = {}

(* The byte after a block is not mapped, so that an overrun faults at      *)
(* once.  It may be when the block fills whole granules, as the 640 KB of  *)
(* a RecvBuffer do: then another region may begin there.                   *)
OverrunFaults ==
  \A b \in blocks :
    PageCount(b[2]) % Granule # 0 => b[1] + b[2] \notin Mapped
=============================================================================
