-------------------------------- MODULE OSMem --------------------------------
(***************************************************************************)
(* A memory partition (os_mem.c).  The free blocks are a linked list whose *)
(* links are in the blocks themselves: whoever holds a block may have      *)
(* written over the link, and OSMemPut cannot tell a block that is handed  *)
(* back twice.                                                             *)
(***************************************************************************)
EXTENDS Integers, FiniteSets

CONSTANTS Block,   \* the blocks of the partition
          Nil      \* the null pointer, and what a block holds as data

ASSUME MemAssumption == IsFiniteSet(Block) /\ Block # {} /\ Nil \notin Block

VARIABLES OSMemFreeList, OSMemNFree,
          link     \* the first word of each block

memVars == <<OSMemFreeList, OSMemNFree, link>>

NBlks == Cardinality(Block)

MemTypeOK == /\ OSMemFreeList \in Block \cup {Nil}
             /\ OSMemNFree \in 0..NBlks
             /\ link \in [Block -> Block \cup {Nil}]

\* The first n blocks of the list that starts at b.
ListFrom(b, n) ==
  LET at[i \in 0..NBlks] == IF i = 0 THEN b
                            ELSE IF at[i - 1] = Nil THEN Nil ELSE link[at[i - 1]]
  IN [i \in 1..n |-> at[i - 1]]

FreeBlocks == {ListFrom(OSMemFreeList, OSMemNFree)[i] : i \in 1..OSMemNFree}

\* OSMemCreate: the blocks in the order of their addresses.
MemInit ==
  /\ OSMemNFree = NBlks
  /\ OSMemFreeList \in Block
  /\ link \in [Block -> Block \cup {Nil}]
  /\ FreeBlocks = Block
  /\ link[ListFrom(OSMemFreeList, NBlks)[NBlks]] = Nil

\* It returns OSMemFreeList.
OSMemGet ==
  /\ OSMemNFree > 0
  /\ OSMemFreeList' = link[OSMemFreeList]
  /\ OSMemNFree' = OSMemNFree - 1
  /\ UNCHANGED link

\* Mutant: the block becomes the head of the list but not linked to the rest.
OSMemPut_NoLink(b) ==
  /\ OSMemNFree < NBlks
  /\ OSMemFreeList' = b
  /\ OSMemNFree' = OSMemNFree + 1
  /\ UNCHANGED link

OSMemPut(b) ==
  /\ OSMemNFree < NBlks
  /\ link' = [link EXCEPT ![b] = OSMemFreeList]
  /\ OSMemFreeList' = b
  /\ OSMemNFree' = OSMemNFree + 1

=============================================================================
