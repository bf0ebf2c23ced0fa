----------------------------- MODULE MemoryPool -----------------------------
(***************************************************************************)
(* threadlocal_memorypool.cc: the pool of small objects of a thread.  An   *)
(* object is cut from the current block in exactly the size asked for, or  *)
(* taken from the free list of its size class.  An address is a block and  *)
(* an offset in it; malloc, for what is larger than the largest class, is  *)
(* not modelled.                                                           *)
(***************************************************************************)
EXTENDS Integers, Sequences, SequencesExt, FiniteSets

CONSTANTS
  Align,      \* the alignment, and the size of a pointer and of the first class
  Classes,    \* kMemoryListsLength
  BlockSize,  \* kMemoryBlockSize
  Sizes,      \* the sizes that the program asks for
  MaxBlocks   \* bound of the number of blocks

ASSUME PoolAssumption ==
  /\ Align \in Nat \ {0} /\ Classes \in Nat \ {0} /\ MaxBlocks \in Nat
  /\ BlockSize \in Nat /\ BlockSize % Align = 0
  /\ Sizes \subseteq 1 .. BlockSize /\ Sizes \subseteq 1 .. Align * 2 ^ (Classes - 1)

VARIABLES
  lists,   \* memorylists_: the free objects of each class, the head first
  blocks,  \* how many blocks memoryblocks_ holds; the last one is cut from
  used,    \* alloc_ptr_, as an offset in the last block; bytes_remaining_ is the rest
  live     \* the objects that the program holds: address and size asked for

poolvars == <<lists, blocks, used, live>>

Class == 0 .. Classes - 1
PoolInit == lists = [c \in Class |-> <<>>] /\ blocks = 0 /\ used = BlockSize /\ live = {}

MemorylistsIndex(bytes) ==
  CHOOSE c \in Class : bytes <= Align * 2 ^ c /\ \A d \in 0 .. c - 1 : bytes > Align * 2 ^ d

\* Fault: the next object begins where the last one ended.
SlopNone(at) == 0
\* What is left out so that the next object is aligned.
Slop(at) == (Align - (at % Align)) % Align

\* LogWriter, which is the only caller, asks for objects of one size.
Aligned(bytes) == bytes + Slop(bytes)
ASSUME OneRoomPerClass ==
  \A b, d \in Sizes : MemorylistsIndex(b) = MemorylistsIndex(d) => Aligned(b) = Aligned(d)

Holds(at, bytes) == live' = live \cup {[at |-> at, bytes |-> bytes]}
\* allocateInMemoryblocks
AllocateInMemoryblocks(bytes) ==
  IF bytes + Slop(used) <= BlockSize - used /\ blocks > 0
  THEN /\ used' = used + Slop(used) + bytes /\ blocks' = blocks
       /\ Holds(<<blocks, used + Slop(used)>>, bytes)
  ELSE /\ blocks < MaxBlocks
       /\ blocks' = blocks + 1 /\ used' = bytes /\ Holds(<<blocks + 1, 0>>, bytes)
Allocate(bytes) ==
  LET c == MemorylistsIndex(bytes)
  IN  IF lists[c] = <<>> THEN AllocateInMemoryblocks(bytes) /\ UNCHANGED lists
      ELSE /\ lists' = [lists EXCEPT ![c] = Tail(@)] /\ Holds(Head(lists[c]), bytes)
           /\ UNCHANGED <<blocks, used>>
\* The program names the size that it asked for.
Deallocate(o) ==
  /\ live' = live \ {o}
  /\ lists' = [lists EXCEPT ![MemorylistsIndex(o.bytes)] = <<o.at>> \o @]
  /\ UNCHANGED <<blocks, used>>

PoolNext == (\E bytes \in Sizes : Allocate(bytes)) \/ (\E o \in live : Deallocate(o))
PoolSpec == PoolInit /\ [][PoolNext]_poolvars

-----------------------------------------------------------------------------
(* Objects that the program holds do not overlap, lie in their block and are *)
(* aligned, and no write to one touches the link that a free object keeps in *)
(* its first bytes: as long as the sizes of a class are equal when aligned.   *)
FreeAddresses == UNION {ToSet(lists[c]) : c \in Class}
Taken == {[at |-> o.at, end |-> o.at[2] + o.bytes] : o \in live}
         \cup {[at |-> a, end |-> a[2] + Align] : a \in FreeAddresses}
ObjectsAreDisjoint ==
  /\ \A x \in Taken : x.end <= BlockSize /\ x.at[2] % Align = 0
  /\ \A x, y \in Taken : x # y /\ x.at[1] = y.at[1] => x.end <= y.at[2] \/ y.end <= x.at[2]
  /\ Cardinality(Taken) = Cardinality(live) + Cardinality(FreeAddresses)
=============================================================================
