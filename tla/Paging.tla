------------------------------- MODULE Paging -------------------------------
(***************************************************************************)
(* The page frame allocator, src/src/memory/paging.c: 4 MiB frames, one    *)
(* page directory (_paging_kernel_page_directory, the only one the kernel  *)
(* loads), and the translation cache of the processor, which may load an   *)
(* entry of the directory whenever it likes.                               *)
(***************************************************************************)
EXTENDS Integers, FiniteSets

CONSTANTS
  PAGE_FRAME_MAX_COUNT,  \* physical frames
  PAGE_ENTRY_COUNT,      \* entries of a page directory
  KERNEL_PAGE,           \* entry 0x300: virtual 0xC0000000
  PAGE_FRAME_SIZE,       \* bytes of a frame
  WORD                   \* 2^32: size of the uint32_t range

ASSUME PagingAssumption ==
  /\ PAGE_FRAME_MAX_COUNT \in Nat \ {0}
  /\ PAGE_ENTRY_COUNT \in Nat \ {0}
  /\ KERNEL_PAGE \in 1 .. PAGE_ENTRY_COUNT - 1
  /\ PAGE_FRAME_SIZE \in Nat \ {0} /\ WORD \in Nat \ {0}

VARIABLES
  page_frame_map,         \* frames in use
  free_page_frame_count,
  table,                  \* the page directory
  tlb,                    \* what the processor has cached of it
  flush                   \* page whose cached entry is about to be invalidated

vars == <<page_frame_map, free_page_frame_count, table, tlb, flush>>

Frames == 0 .. PAGE_FRAME_MAX_COUNT - 1
Pages == 0 .. PAGE_ENTRY_COUNT - 1
KernelPages == {0, KERNEL_PAGE}
NoPage == -1

(* lower_address is the frame; the write and size bits never vary.          *)
Entry == [present : BOOLEAN, user : BOOLEAN, frame : Frames]
Absent == [present |-> FALSE, user |-> FALSE, frame |-> 0]
KernelEntry == [present |-> TRUE, user |-> FALSE, frame |-> 0]
UserEntry(f) == [present |-> TRUE, user |-> TRUE, frame |-> f]

(* Frame 0 holds the kernel and is mapped twice.                            *)
Init ==
  /\ page_frame_map = {0}
  /\ free_page_frame_count = PAGE_FRAME_MAX_COUNT - 1
  /\ table = [p \in Pages |-> IF p \in KernelPages THEN KernelEntry ELSE Absent]
  /\ tlb = [p \in Pages |-> Absent]
  /\ flush = NoPage

FreeFrames == Frames \ (page_frame_map \cup {0})

(* Fault: a page that is already mapped is mapped again.                    *)
allocate_mapped(p) ==
  /\ flush = NoPage
  /\ p \notin KernelPages
  /\ \E f \in FreeFrames :
       /\ \A g \in FreeFrames : f <= g
       /\ page_frame_map' = page_frame_map \cup {f}
       /\ table' = [table EXCEPT ![p] = UserEntry(f)]
  /\ free_page_frame_count' = free_page_frame_count - 1
  /\ flush' = p
  /\ UNCHANGED tlb

(* paging_allocate_user_page_frame up to the flush; it returns false and does
   nothing when the page is mapped or no frame is free.                     *)
paging_allocate_user_page_frame(p) ==
  /\ flush = NoPage
  /\ ~table[p].present
  /\ \E f \in FreeFrames :
       /\ \A g \in FreeFrames : f <= g
       /\ page_frame_map' = page_frame_map \cup {f}
       /\ table' = [table EXCEPT ![p] = UserEntry(f)]
  /\ free_page_frame_count' = free_page_frame_count - 1
  /\ flush' = p
  /\ UNCHANGED tlb

(* Faults: the counter is not raised, the kernel's frame is not protected, the
   cached translation is not invalidated.                                   *)
free_uncounted(p) ==
  /\ flush = NoPage
  /\ table[p].present /\ table[p].frame # 0
  /\ page_frame_map' = page_frame_map \ {table[p].frame}
  /\ table' = [table EXCEPT ![p] = Absent]
  /\ flush' = p
  /\ UNCHANGED <<free_page_frame_count, tlb>>

free_any(p) ==
  /\ flush = NoPage
  /\ table[p].present
  /\ page_frame_map' = page_frame_map \ {table[p].frame}
  /\ free_page_frame_count' = free_page_frame_count + 1
  /\ table' = [table EXCEPT ![p] = Absent]
  /\ flush' = p
  /\ UNCHANGED tlb

free_unflushed(p) ==
  /\ flush = NoPage
  /\ table[p].present /\ table[p].frame # 0
  /\ page_frame_map' = page_frame_map \ {table[p].frame}
  /\ free_page_frame_count' = free_page_frame_count + 1
  /\ table' = [table EXCEPT ![p] = Absent]
  /\ UNCHANGED <<flush, tlb>>

(* paging_free_user_page_frame up to the flush; it returns false and does
   nothing when the page is not mapped or belongs to the kernel's frame.  Its
   third test, of the frame number, cannot fail: entries hold numbers of
   frames (TypeOK).                                                         *)
paging_free_user_page_frame(p) ==
  /\ flush = NoPage
  /\ table[p].present
  /\ table[p].frame # 0
  /\ IF table[p].frame \in page_frame_map
     THEN /\ page_frame_map' = page_frame_map \ {table[p].frame}
          /\ free_page_frame_count' = free_page_frame_count + 1
     ELSE UNCHANGED <<page_frame_map, free_page_frame_count>>
  /\ table' = [table EXCEPT ![p] = Absent]
  /\ flush' = p
  /\ UNCHANGED tlb

(* invlpg, the last statement of both.                                      *)
flush_single_tlb ==
  /\ flush # NoPage
  /\ tlb' = [tlb EXCEPT ![flush] = Absent]
  /\ flush' = NoPage
  /\ UNCHANGED <<page_frame_map, free_page_frame_count, table>>

(* The processor caches a present entry, on an access or by speculation.    *)
TlbFill(p) ==
  /\ table[p].present
  /\ tlb' = [tlb EXCEPT ![p] = table[p]]
  /\ UNCHANGED <<page_frame_map, free_page_frame_count, table, flush>>

(* The processor drops a cached entry.                                      *)
TlbEvict(p) ==
  /\ tlb' = [tlb EXCEPT ![p] = Absent]
  /\ UNCHANGED <<page_frame_map, free_page_frame_count, table, flush>>

Next ==
  \/ flush_single_tlb
  \/ \E p \in Pages : \/ paging_allocate_user_page_frame(p)
                      \/ paging_free_user_page_frame(p)
                      \/ TlbFill(p) \/ TlbEvict(p)

Spec == Init /\ [][Next]_vars

(* Fault: the amount is rounded down.                                       *)
check_rounding_down(amount) ==
  (amount % WORD) \div PAGE_FRAME_SIZE <= free_page_frame_count

(* paging_allocate_check, in uint32_t arithmetic.                           *)
paging_allocate_check(amount) ==
  ((amount + PAGE_FRAME_SIZE - 1) % WORD) \div PAGE_FRAME_SIZE
    <= free_page_frame_count

-----------------------------------------------------------------------------
(* Every variable keeps its type.                                           *)
TypeOK ==
  /\ page_frame_map \subseteq Frames
  /\ free_page_frame_count \in Nat
  /\ table \in [Pages -> Entry]
  /\ tlb \in [Pages -> Entry]
  /\ flush \in Pages \cup {NoPage}

(* The counter paging_allocate_check trusts is the number of free frames, so
   it neither underflows nor promises a frame that is not there.            *)
CountExact == free_page_frame_count = Cardinality(Frames \ page_frame_map)

(* Two user pages never share a frame, none has the kernel's, and the map
   marks exactly the frames that are mapped: nothing leaks.                 *)
FramesExclusive ==
  /\ \A p, q \in Pages :
       /\ table[p].present /\ table[q].present /\ p # q
       /\ table[p].frame = table[q].frame
       => p \in KernelPages /\ q \in KernelPages
  /\ page_frame_map = {table[p].frame : p \in {q \in Pages : table[q].present}}

(* No sequence of calls unmaps or remaps the kernel, or opens it to ring 3. *)
KernelStaysMapped == \A p \in KernelPages : table[p] = KernelEntry

(* Between calls the processor uses no translation the directory no longer
   has: a freed frame cannot be reached through its old page.               *)
NoStaleTranslation ==
  flush = NoPage => \A p \in Pages : tlb[p].present => tlb[p] = table[p]

(* paging_allocate_check says yes exactly when the free frames hold that many
   bytes, for every amount whose rounding does not overflow.                *)
CheckIsExact ==
  \A amount \in 0 .. WORD - PAGE_FRAME_SIZE :
    paging_allocate_check(amount)
      <=> amount <= Cardinality(Frames \ page_frame_map) * PAGE_FRAME_SIZE
=============================================================================
