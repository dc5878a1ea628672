------------------------------- MODULE Memory -------------------------------
(***************************************************************************)
(* The page allocator (pintos/src/threads/palloc.c) and the block          *)
(* allocator on top of it (pintos/src/threads/malloc.c), used by several   *)
(* kernel threads at once.                                                 *)
(*                                                                         *)
(* A pool's bitmap is searched and marked under the pool's lock, but       *)
(* palloc_free_multiple clears its bits one by one without it.  A          *)
(* descriptor's lock covers its free list and the arenas of its size.      *)
(* pc[t] is what thread t has still to do of its call; a critical section  *)
(* is one step where no other thread can see inside it.                    *)
(***************************************************************************)
EXTENDS Bitmap, SequencesExt

CONSTANTS MemThread, NoThread,
          FreePages,         \* pages above 1 MB
          UserPageLimit,     \* -ul
          PGSIZE, MinBlock,  \* MinBlock is 16 in malloc_init
          ArenaSize,         \* sizeof (struct arena)
          SizeMax,           \* the values of a size_t: 0 .. SizeMax - 1
          Sizes,             \* sizes the threads ask malloc for
          PageCounts,        \* numbers of pages they ask palloc for
          MaxHeld            \* bound on what one thread holds

ASSUME MemoryAssumption ==
  /\ FreePages \in Nat /\ UserPageLimit \in Nat /\ MaxHeld \in Nat
  /\ PGSIZE \in Nat \ {0} /\ MinBlock \in 1 .. PGSIZE /\ ArenaSize < PGSIZE
  /\ Sizes \subseteq 0 .. SizeMax - 1 /\ PageCounts \subseteq Nat

VARIABLES used_map,    \* of each pool
          pool_lock,   \* the thread that holds each pool's lock
          free_list,   \* of each descriptor: blocks <<page, index>>
          desc_lock,
          arena,       \* the arena headers: [desc, free_cnt] by kernel page
          held,        \* what each thread has got from the allocators
          mem_pc

memVars == <<used_map, pool_lock, free_list, desc_lock, arena, held, mem_pc>>

NULL == [kind |-> "null"]

DivRoundUp(x, y) == ((x + y - 1) % SizeMax) \div y

-----------------------------------------------------------------------------
(* Sizes *)

\* malloc_init: block sizes double while they are below half a page.
block_size(d) == MinBlock * 2 ^ (d - 1)
Desc == {d \in 1 .. 10 : block_size(d) < PGSIZE \div 2}
blocks_per_arena(d) == (PGSIZE - ArenaSize) \div block_size(d)

\* palloc_init gives half of the memory, or the limit, to the user pool.
user_pages == IF FreePages \div 2 > UserPageLimit THEN UserPageLimit
                                                  ELSE FreePages \div 2
Pools == {"kernel", "user"}

\* init_pool puts the bitmap into the first page of its pool.
init_pool(page_cnt) == bitmap_create(page_cnt - 1)
KernelPages == 0 .. FreePages - user_pages - 2

BigBlock == 0
NoArena == [desc |-> -1, free_cnt |-> 0]
arena_blocks(page, d) == [i \in 1 .. blocks_per_arena(d) |-> <<page, i>>]

-----------------------------------------------------------------------------
(* What a thread has still to do *)

MemIdle == [at |-> "idle"]

palloc_get_multiple(pool, cnt, caller) ==
  IF cnt = 0 THEN MemIdle
  ELSE [at |-> "lock", pool |-> pool, cnt |-> cnt, caller |-> caller]

\* old is the block that realloc moves, or NULL.
malloc(size, old) ==
  LET fits == {d \in Desc : block_size(d) >= size}
  IN  IF size = 0 THEN MemIdle
      ELSE IF fits = {}
      THEN palloc_get_multiple("kernel", DivRoundUp(size + ArenaSize, PGSIZE),
                               [op |-> "big", old |-> old])
      ELSE [at |-> "desc", desc |-> Min(fits), old |-> old]

calloc(a, b) ==
  LET size == (a * b) % SizeMax
  IN  IF size < a \/ size < b THEN MemIdle ELSE malloc(size, NULL)

free(obj) == IF obj = NULL THEN MemIdle ELSE [at |-> "free", obj |-> obj]

realloc(old, new_size) ==
  IF new_size = 0 THEN free(old) ELSE malloc(new_size, old)

palloc_free_multiple(pool, page, cnt, desc) ==
  [at |-> "clear", pool |-> pool, page |-> page, cnt |-> cnt, desc |-> desc]

-----------------------------------------------------------------------------
MemInit ==
  /\ used_map = [p \in Pools |-> IF p = "user" THEN init_pool(user_pages)
                                 ELSE init_pool(FreePages - user_pages)]
  /\ pool_lock = [p \in Pools |-> NoThread]
  /\ free_list = [d \in Desc |-> <<>>]
  /\ desc_lock = [d \in Desc |-> NoThread]
  /\ arena = [p \in KernelPages |-> NoArena]
  /\ held = [t \in MemThread |-> {}]
  /\ mem_pc = [t \in MemThread |-> MemIdle]

\* What a thread outside of any call may call.  free(obj) gives obj up.
MemCall(t) ==
  /\ mem_pc[t] = MemIdle
  /\ \/ /\ Cardinality(held[t]) < MaxHeld
        /\ \/ \E pool \in Pools, cnt \in PageCounts :
                mem_pc' = [mem_pc EXCEPT ![t] =
                  palloc_get_multiple(pool, cnt, [op |-> "pages", old |-> NULL])]
           \/ \E a \in Sizes, b \in Sizes :
                mem_pc' = [mem_pc EXCEPT ![t] = calloc(a, b)]
           \/ \E size \in Sizes, old \in {o \in held[t] : o.kind # "pages"} \cup {NULL} :
                mem_pc' = [mem_pc EXCEPT ![t] = realloc(old, size)]
     \/ \E obj \in held[t] : mem_pc' = [mem_pc EXCEPT ![t] = free(obj)]
  /\ UNCHANGED <<used_map, pool_lock, free_list, desc_lock, arena, held>>

-----------------------------------------------------------------------------
(* palloc_get_multiple *)

\* The search runs without the pool's lock.
LockPool_NoLock(t) ==
  /\ mem_pc[t].at = "lock"
  /\ mem_pc' = [mem_pc EXCEPT ![t] =
                 [at |-> "scan", pool |-> mem_pc[t].pool, cnt |-> mem_pc[t].cnt,
                  caller |-> mem_pc[t].caller, page |-> 0]]
  /\ UNCHANGED <<used_map, pool_lock, free_list, desc_lock, arena, held>>

LockPool(t) ==
  /\ mem_pc[t].at = "lock"
  /\ pool_lock[mem_pc[t].pool] = NoThread
  /\ pool_lock' = [pool_lock EXCEPT ![mem_pc[t].pool] = t]
  /\ mem_pc' = [mem_pc EXCEPT ![t] =
                 [at |-> "scan", pool |-> mem_pc[t].pool, cnt |-> mem_pc[t].cnt,
                  caller |-> mem_pc[t].caller, page |-> 0]]
  /\ UNCHANGED <<used_map, free_list, desc_lock, arena, held>>

\* bitmap_scan tries one start after the other; bits may be cleared
\* meanwhile, by a palloc_free_multiple.
ScanPages(t) ==
  LET pc == mem_pc[t] IN
  /\ pc.at = "scan"
  /\ pc.page + pc.cnt <= bitmap_size(used_map[pc.pool])
  /\ mem_pc' = [mem_pc EXCEPT ![t] =
       IF bitmap_contains(used_map[pc.pool], pc.page, pc.cnt, TRUE)
       THEN [pc EXCEPT !.page = @ + 1] ELSE [pc EXCEPT !.at = "flip"]]
  /\ UNCHANGED <<used_map, pool_lock, free_list, desc_lock, arena, held>>

\* The rest of malloc once it has its block: realloc goes on to free the old one.
Return(t, obj, old) ==
  /\ held' = [held EXCEPT ![t] = @ \cup {obj}]
  /\ mem_pc' = [mem_pc EXCEPT ![t] = free(old)]

\* malloc takes the first block of list, and counts it in its arena.
TakeBlock(t, d, list, headers, old) ==
  LET page == Head(list)[1] IN
  /\ free_list' = [free_list EXCEPT ![d] = Tail(list)]
  /\ arena' = [headers EXCEPT ![page].free_cnt = @ - 1]
  /\ desc_lock' = [desc_lock EXCEPT ![d] = NoThread]
  /\ Return(t, [kind |-> "block", page |-> page, i |-> Head(list)[2]], old)

\* The pages are marked, the lock is released, and the caller goes on.
TakePages(t) ==
  LET pc == mem_pc[t]  caller == pc.caller IN
  /\ pc.at = "flip"
  /\ used_map' = [used_map EXCEPT ![pc.pool] =
                    bitmap_set_multiple(@, pc.page, pc.cnt, TRUE)]
  /\ pool_lock' = [pool_lock EXCEPT ![pc.pool] = NoThread]
  /\ \/ /\ caller.op = "pages"
        /\ Return(t, [kind |-> "pages", pool |-> pc.pool, page |-> pc.page,
                      cnt |-> pc.cnt], NULL)
        /\ UNCHANGED <<free_list, desc_lock, arena>>
     \/ /\ caller.op = "big"
        /\ arena' = [arena EXCEPT ![pc.page] =
                       [desc |-> BigBlock, free_cnt |-> pc.cnt]]
        /\ Return(t, [kind |-> "big", page |-> pc.page], caller.old)
        /\ UNCHANGED <<free_list, desc_lock>>
     \/ /\ caller.op = "arena"
        /\ LET d == caller.desc
               new == [desc |-> d, free_cnt |-> blocks_per_arena(d)]
           IN  TakeBlock(t, d, free_list[d] \o arena_blocks(pc.page, d),
                         [arena EXCEPT ![pc.page] = new], caller.old)

\* No pages: the caller returns a null pointer, and realloc keeps the old block.
OutOfPages(t) ==
  LET pc == mem_pc[t] IN
  /\ pc.at = "scan"
  /\ pc.page + pc.cnt > bitmap_size(used_map[pc.pool])
  /\ pool_lock' = [pool_lock EXCEPT ![pc.pool] = NoThread]
  /\ desc_lock' = IF pc.caller.op = "arena"
                  THEN [desc_lock EXCEPT ![pc.caller.desc] = NoThread]
                  ELSE desc_lock
  /\ mem_pc' = [mem_pc EXCEPT ![t] = MemIdle]
  /\ UNCHANGED <<used_map, free_list, arena, held>>

-----------------------------------------------------------------------------
(* malloc and free of a block *)

\* A block is taken without looking whether another thread holds the lock.
MallocBlock_NoLock(t) ==
  LET pc == mem_pc[t] IN
  /\ pc.at = "desc"
  /\ \/ /\ free_list[pc.desc] # <<>>
        /\ TakeBlock(t, pc.desc, free_list[pc.desc], arena, pc.old)
     \/ /\ free_list[pc.desc] = <<>>
        /\ mem_pc' = [mem_pc EXCEPT ![t] = palloc_get_multiple("kernel", 1,
             [op |-> "arena", desc |-> pc.desc, old |-> pc.old])]
        /\ UNCHANGED <<free_list, desc_lock, arena, held>>
  /\ UNCHANGED <<used_map, pool_lock>>

MallocBlock(t) ==
  LET pc == mem_pc[t] IN
  /\ pc.at = "desc"
  /\ desc_lock[pc.desc] = NoThread
  /\ \/ /\ free_list[pc.desc] # <<>>
        /\ TakeBlock(t, pc.desc, free_list[pc.desc], arena, pc.old)
     \/ /\ free_list[pc.desc] = <<>>
        /\ desc_lock' = [desc_lock EXCEPT ![pc.desc] = t]
        /\ mem_pc' = [mem_pc EXCEPT ![t] = palloc_get_multiple("kernel", 1,
             [op |-> "arena", desc |-> pc.desc, old |-> pc.old])]
        /\ UNCHANGED <<free_list, arena, held>>
  /\ UNCHANGED <<used_map, pool_lock>>

\* The blocks of an unused arena stay in the free list.
WithoutArena_Kept(list, page) == list

WithoutArena(list, page) == SelectSeq(list, LAMBDA b : b[1] # page)

\* free of a block: an arena whose blocks are all free gives its page back,
\* with the descriptor's lock held.
FreeBlock(t) ==
  LET obj == mem_pc[t].obj
      d == arena[obj.page].desc
      list == <<<<obj.page, obj.i>>>> \o free_list[d]
      full == arena[obj.page].free_cnt + 1 >= blocks_per_arena(d)
  IN
  /\ mem_pc[t].at = "free" /\ obj.kind = "block"
  /\ desc_lock[d] = NoThread
  /\ held' = [held EXCEPT ![t] = @ \ {obj}]
  /\ \/ /\ ~full
        /\ free_list' = [free_list EXCEPT ![d] = list]
        /\ arena' = [arena EXCEPT ![obj.page].free_cnt = @ + 1]
        /\ mem_pc' = [mem_pc EXCEPT ![t] = MemIdle]
        /\ UNCHANGED desc_lock
     \/ /\ full
        /\ free_list' = [free_list EXCEPT ![d] = WithoutArena(list, obj.page)]
        /\ arena' = [arena EXCEPT ![obj.page] = NoArena]
        /\ desc_lock' = [desc_lock EXCEPT ![d] = t]
        /\ mem_pc' = [mem_pc EXCEPT ![t] =
                        palloc_free_multiple("kernel", obj.page, 1, d)]
  /\ UNCHANGED <<used_map, pool_lock>>

\* free of a big block, and palloc_free_multiple of a thread's own pages.
FreePagesOf(t) ==
  LET obj == mem_pc[t].obj IN
  /\ mem_pc[t].at = "free" /\ obj.kind \in {"pages", "big"}
  /\ held' = [held EXCEPT ![t] = @ \ {obj}]
  /\ IF obj.kind = "pages"
     THEN /\ mem_pc' = [mem_pc EXCEPT ![t] =
                palloc_free_multiple(obj.pool, obj.page, obj.cnt, BigBlock)]
          /\ UNCHANGED arena
     ELSE /\ mem_pc' = [mem_pc EXCEPT ![t] =
                palloc_free_multiple("kernel", obj.page,
                                     arena[obj.page].free_cnt, BigBlock)]
          /\ arena' = [arena EXCEPT ![obj.page] = NoArena]
  /\ UNCHANGED <<used_map, pool_lock, free_list, desc_lock>>

\* palloc_free_multiple clears the next bit.
ClearBit(t) ==
  LET pc == mem_pc[t] IN
  /\ pc.at = "clear"
  /\ used_map' = [used_map EXCEPT ![pc.pool] = bitmap_reset(@, pc.page)]
  /\ IF pc.cnt > 1
     THEN /\ mem_pc' = [mem_pc EXCEPT ![t].page = @ + 1, ![t].cnt = @ - 1]
          /\ UNCHANGED desc_lock
     ELSE /\ mem_pc' = [mem_pc EXCEPT ![t] = MemIdle]
          /\ desc_lock' = [d \in Desc |-> IF d = pc.desc THEN NoThread
                                                         ELSE desc_lock[d]]
  /\ UNCHANGED <<pool_lock, free_list, arena, held>>

MemStep(t) ==
  \/ LockPool(t) \/ ScanPages(t) \/ TakePages(t) \/ OutOfPages(t)
  \/ MallocBlock(t) \/ FreeBlock(t) \/ FreePagesOf(t) \/ ClearBit(t)

MemNext == \E t \in MemThread : MemCall(t) \/ MemStep(t)

MemSpec == MemInit /\ [][MemNext]_memVars

-----------------------------------------------------------------------------
(* Properties *)

\* Everything that claims kernel or user pages: what threads hold, the
\* arenas with blocks, and the pages a palloc_free_multiple is still clearing.
Claims ==
  {[pool |-> IF o.kind = "pages" THEN o.pool ELSE "kernel", page |-> o.page,
    cnt |-> IF o.kind = "pages" THEN o.cnt ELSE arena[o.page].free_cnt] :
      o \in {o \in UNION {held[t] : t \in MemThread} : o.kind # "block"}}
  \cup {[pool |-> "kernel", page |-> p, cnt |-> 1] :
          p \in {p \in KernelPages : arena[p].desc \in Desc}}
  \cup {[pool |-> mem_pc[t].pool, page |-> mem_pc[t].page, cnt |-> mem_pc[t].cnt] :
          t \in {t \in MemThread : mem_pc[t].at = "clear"}}

(* A page is marked in its pool exactly when one claim, and only one, has  *)
(* it: palloc_get_multiple never hands out a page that is in use, although *)
(* palloc_free_multiple clears bits without the pool's lock, and no path   *)
(* of malloc, realloc or free loses a page.                                *)
PagesClaimedOnce ==
  \A pool \in Pools : \A p \in DOMAIN used_map[pool] :
    Cardinality({c \in Claims : c.pool = pool /\ p \in c.page .. c.page + c.cnt - 1})
      = IF used_map[pool][p] THEN 1 ELSE 0

(* Each block of an arena is in its descriptor's free list, once, or with  *)
(* one thread, and free_cnt counts the free ones; an arena whose blocks    *)
(* are all free is given back before its descriptor's lock is released,    *)
(* and leaves no block of its page in a list.                              *)
BlocksAccounted ==
  /\ \A d \in Desc : \A k \in DOMAIN free_list[d] :
       arena[free_list[d][k][1]].desc = d
  /\ \A p \in {p \in KernelPages : arena[p].desc \in Desc} :
    LET d == arena[p].desc IN
    /\ \A i \in 1 .. blocks_per_arena(d) :
         Cardinality({k \in DOMAIN free_list[d] : free_list[d][k] = <<p, i>>})
         + Cardinality({t \in MemThread :
             [kind |-> "block", page |-> p, i |-> i] \in held[t]}) = 1
    /\ arena[p].free_cnt = Cardinality({k \in DOMAIN free_list[d] :
                                          free_list[d][k][1] = p})
    /\ arena[p].free_cnt < blocks_per_arena(d)

(* Memory is handed out to one holder at a time and never lost, whatever   *)
(* the interleaving of the calls of palloc.c and malloc.c.                 *)
MemoryAccounted == PagesClaimedOnce /\ BlocksAccounted
=============================================================================
