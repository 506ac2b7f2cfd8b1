------------------------------ MODULE MemPool ------------------------------
(***************************************************************************)
(* A pool of memory for objects of one size, mem_pool.c: connections are   *)
(* taken from one and given back.  Memory comes in chunks, which are never *)
(* returned.  An object is its chunk and its place in it.                  *)
(***************************************************************************)
EXTENDS Integers, Sequences

CONSTANT Num     \* chunksize / size, 0 if an object is larger than a chunk

VARIABLES
  free,          \* free_list
  num,           \* the counter of the pool
  chunks,        \* the chunks so far
  given          \* the objects that the program has

pool == <<free, num, chunks, given>>

Objects == (0..(chunks - 1)) \X (0..(Num - 1))
FreeObjects == {free[i] : i \in 1..Len(free)}

\* mem_pool_create
PoolInit == free = <<>> /\ num = 0 /\ chunks = 0 /\ given = {}

\* mem_pool_alloc: slist_del_first, when the list is not empty
AllocFree ==
  /\ free # <<>>
  /\ free' = Tail(free)
  /\ given' = given \cup {Head(free)}
  /\ num' = num - 1
  /\ UNCHANGED chunks

\* _mem_pool_alloc_chunk puts the objects of a chunk before one another, and the last is taken
AllocChunk ==
  /\ free = <<>> /\ Num > 0
  /\ chunks' = chunks + 1
  /\ free' = [i \in 1..(Num - 1) |-> <<chunks, (Num - 1) - i>>]
  /\ given' = given \cup {<<chunks, Num - 1>>}
  /\ num' = (num + Num) - 1

\* mem_pool_alloc returns NULL; a chunk that is too small is not returned
AllocFails ==
  /\ free = <<>>
  /\ \/ UNCHANGED pool
     \/ Num = 0 /\ chunks' = chunks + 1 /\ UNCHANGED <<free, num, given>>

\* mem_pool_free, of an object that the program has: slist_add
FreeObject(node) ==
  /\ node \in given
  /\ given' = given \ {node}
  /\ free' = <<node>> \o free
  /\ num' = num + 1
  /\ UNCHANGED chunks

PoolNext == AllocFree \/ AllocChunk \/ AllocFails \/ \E node \in given : FreeObject(node)

PoolSpec == PoolInit /\ [][PoolNext]_pool

-----------------------------------------------------------------------------
\* No object is twice in the free list, nor there while the program has it: what is
\* allocated next is not in use.
NoneTwice ==
  /\ \A i, j \in 1..Len(free) : free[i] = free[j] => i = j
  /\ \A i \in 1..Len(free) : free[i] \notin given

\* All memory of all chunks is in use or can be allocated, and the counter tells how much of
\* it is free.
NoneLost == given \cup FreeObjects = Objects /\ num = Len(free)
=============================================================================
