---------------------------- MODULE PagingProofs ----------------------------
(***************************************************************************)
(* For every number of frames and of directory entries: the allocator's    *)
(* counter is exact, frames are never shared nor leaked, the kernel stays  *)
(* mapped, and no stale translation survives a call.                       *)
(***************************************************************************)
EXTENDS Paging, FiniteSetTheorems, TLAPS

(* While a page is about to be flushed, it alone may be cached stale.       *)
TlbInv == \A p \in Pages : tlb[p].present => tlb[p] = table[p] \/ p = flush

Inv == TypeOK /\ CountExact /\ FramesExclusive /\ KernelStaysMapped /\ TlbInv

(* The kernel's pages and its frame are pages and a frame.                  *)
LEMMA PageFacts ==
  /\ 0 \in Pages /\ KERNEL_PAGE \in Pages /\ KernelPages \subseteq Pages
  /\ 0 \in Frames
  /\ NoPage \notin Pages
  BY PagingAssumption DEF Pages, KernelPages, Frames, NoPage

(* There are finitely many frames, PAGE_FRAME_MAX_COUNT of them.            *)
LEMMA FramesFinite ==
  IsFiniteSet(Frames) /\ Cardinality(Frames) = PAGE_FRAME_MAX_COUNT
  BY FS_Interval, PagingAssumption DEF Frames

(* The statically initialised state satisfies the invariant.                *)
LEMMA InitInv == Init => Inv
  <1>. SUFFICES ASSUME Init PROVE Inv
    OBVIOUS
  <1>. USE DEF Init
  <1>1. TypeOK
    BY PageFacts, PagingAssumption
    DEF TypeOK, Entry, Absent, KernelEntry
  <1>2. CountExact
    <2>1. Cardinality(Frames \ {0}) = Cardinality(Frames) - 1
      BY FS_RemoveElement, FramesFinite, PageFacts
    <2>. QED  BY <2>1, FramesFinite DEF CountExact
  <1>3. FramesExclusive
    BY PageFacts DEF FramesExclusive, KernelEntry, Absent, KernelPages
  <1>4. KernelStaysMapped /\ TlbInv
    BY PageFacts DEF KernelStaysMapped, TlbInv, Absent
  <1>. QED  BY <1>1, <1>2, <1>3, <1>4 DEF Inv

(* Taking a frame from the free ones, and giving a used one back.           *)
LEMMA TakeFrame ==
  ASSUME CountExact, page_frame_map \subseteq Frames,
         NEW f \in Frames \ page_frame_map
  PROVE  /\ Cardinality(Frames \ (page_frame_map \cup {f}))
              = free_page_frame_count - 1
         /\ free_page_frame_count - 1 \in Nat
  <1>. DEFINE S == Frames \ page_frame_map
  <1>1. IsFiniteSet(S) /\ f \in S
    BY FS_Difference, FramesFinite
  <1>2. S \ {f} = Frames \ (page_frame_map \cup {f})
    OBVIOUS
  <1>3. Cardinality(S \ {f}) = Cardinality(S) - 1 /\ IsFiniteSet(S \ {f})
    BY <1>1, FS_RemoveElement
  <1>4. Cardinality(S \ {f}) \in Nat
    BY <1>3, FS_CardinalityType
  <1>. QED  BY <1>2, <1>3, <1>4 DEF CountExact

(* Marking a used frame free raises the number of free frames by one.       *)
LEMMA GiveFrame ==
  ASSUME CountExact, free_page_frame_count \in Nat,
         NEW f \in Frames, f \in page_frame_map
  PROVE  Cardinality(Frames \ (page_frame_map \ {f})) = free_page_frame_count + 1
  <1>. DEFINE S == Frames \ page_frame_map
  <1>1. IsFiniteSet(S) /\ f \notin S
    BY FS_Difference, FramesFinite
  <1>2. S \cup {f} = Frames \ (page_frame_map \ {f})
    OBVIOUS
  <1>3. Cardinality(S \cup {f}) = Cardinality(S) + 1
    BY <1>1, FS_AddElement
  <1>. QED  BY <1>2, <1>3 DEF CountExact

(* paging_allocate_user_page_frame keeps the invariant.                     *)
LEMMA AllocateInv ==
  ASSUME Inv, NEW p \in Pages, paging_allocate_user_page_frame(p)
  PROVE  Inv'
  <1>. USE DEF Inv, TypeOK
  <1>1. PICK f \in FreeFrames :
          /\ page_frame_map' = page_frame_map \cup {f}
          /\ table' = [table EXCEPT ![p] = UserEntry(f)]
    BY DEF paging_allocate_user_page_frame
  <1>2. /\ f \in Frames /\ f \notin page_frame_map /\ f # 0
        /\ flush = NoPage /\ ~table[p].present /\ flush' = p /\ tlb' = tlb
        /\ free_page_frame_count' = free_page_frame_count - 1
    BY DEF FreeFrames, paging_allocate_user_page_frame
  <1>3. UserEntry(f) \in Entry /\ UserEntry(f).present /\ UserEntry(f).frame = f
    BY <1>2 DEF UserEntry, Entry
  <1>4. TypeOK'
    BY <1>1, <1>2, <1>3, TakeFrame
  <1>5. CountExact'
    BY <1>1, <1>2, TakeFrame DEF CountExact
  <1>6. \A q \in Pages : q # p => table'[q] = table[q]
    BY <1>1
  <1>7. table'[p] = UserEntry(f)
    BY <1>1
  <1>8. \A q \in Pages : table[q].present => table[q].frame # f
    BY <1>2 DEF FramesExclusive
  <1>9. FramesExclusive'
    <2>1. ASSUME NEW a \in Pages, NEW b \in Pages,
                 table'[a].present, table'[b].present, a # b,
                 table'[a].frame = table'[b].frame
          PROVE  a \in KernelPages /\ b \in KernelPages
      BY <2>1, <1>3, <1>6, <1>7, <1>8 DEF FramesExclusive
    <2>2. {table'[q].frame : q \in {r \in Pages : table'[r].present}}
            = {table[q].frame : q \in {r \in Pages : table[r].present}} \cup {f}
      BY <1>2, <1>3, <1>6, <1>7
    <2>. QED  BY <2>1, <2>2, <1>1 DEF FramesExclusive
  <1>10. KernelStaysMapped'
    BY <1>2, <1>6, PageFacts DEF KernelStaysMapped, KernelEntry
  <1>11. TlbInv'
    BY <1>2, <1>6, PageFacts DEF TlbInv
  <1>. QED  BY <1>4, <1>5, <1>9, <1>10, <1>11

(* paging_free_user_page_frame keeps the invariant.                         *)
LEMMA FreeInv ==
  ASSUME Inv, NEW p \in Pages, paging_free_user_page_frame(p)
  PROVE  Inv'
  <1>. USE DEF Inv, TypeOK
  <1>. DEFINE f == table[p].frame
  <1>1. /\ flush = NoPage /\ table[p].present /\ f # 0 /\ f \in Frames
        /\ table' = [table EXCEPT ![p] = Absent] /\ flush' = p /\ tlb' = tlb
    BY DEF paging_free_user_page_frame, Entry
  <1>2. f \in page_frame_map
    BY <1>1 DEF FramesExclusive
  <1>3. /\ page_frame_map' = page_frame_map \ {f}
        /\ free_page_frame_count' = free_page_frame_count + 1
    BY <1>2 DEF paging_free_user_page_frame
  <1>4. TypeOK'
    BY <1>1, <1>3, PageFacts DEF Absent, Entry
  <1>5. CountExact'
    BY <1>1, <1>2, <1>3, GiveFrame DEF CountExact
  <1>6. \A q \in Pages : q # p => table'[q] = table[q]
    BY <1>1
  <1>7. table'[p] = Absent /\ ~table'[p].present
    BY <1>1 DEF Absent
  <1>8. p \notin KernelPages
    BY <1>1 DEF KernelStaysMapped, KernelEntry
  <1>9. FramesExclusive'
    <2>1. ASSUME NEW a \in Pages, NEW b \in Pages,
                 table'[a].present, table'[b].present, a # b,
                 table'[a].frame = table'[b].frame
          PROVE  a \in KernelPages /\ b \in KernelPages
      BY <2>1, <1>6, <1>7 DEF FramesExclusive
    <2>2. \A q \in Pages : q # p /\ table[q].present => table[q].frame # f
      BY <1>1, <1>8 DEF FramesExclusive
    <2>3. {table'[q].frame : q \in {r \in Pages : table'[r].present}}
            = {table[q].frame : q \in {r \in Pages : table[r].present}} \ {f}
      BY <2>2, <1>1, <1>6, <1>7
    <2>. QED  BY <2>1, <2>3, <1>3 DEF FramesExclusive
  <1>10. KernelStaysMapped'
    BY <1>6, <1>8, PageFacts DEF KernelStaysMapped
  <1>11. TlbInv'
    BY <1>1, <1>6, PageFacts DEF TlbInv
  <1>. QED  BY <1>4, <1>5, <1>9, <1>10, <1>11

(* Every step of the allocator and of the processor keeps it.               *)
LEMMA StepInv == Inv /\ [Next]_vars => Inv'
  <1>. SUFFICES ASSUME Inv, [Next]_vars PROVE Inv'
    OBVIOUS
  <1>. USE DEF Inv
  <1>0. ASSUME UNCHANGED <<page_frame_map, free_page_frame_count, table>>
        PROVE  CountExact' /\ FramesExclusive' /\ KernelStaysMapped'
    BY <1>0 DEF CountExact, FramesExclusive, KernelStaysMapped
  <1>1. ASSUME NEW p \in Pages, TlbFill(p) PROVE Inv'
    BY <1>0, <1>1 DEF TlbFill, TypeOK, TlbInv
  <1>2. ASSUME NEW p \in Pages, TlbEvict(p) PROVE Inv'
    BY <1>0, <1>2, PageFacts DEF TlbEvict, TypeOK, TlbInv, Absent, Entry
  <1>3. CASE flush_single_tlb
    <2>1. TypeOK'
      BY <1>3, PageFacts DEF flush_single_tlb, TypeOK, Absent, Entry
    <2>2. TlbInv'
      BY <1>3, PageFacts DEF flush_single_tlb, TypeOK, TlbInv, Absent
    <2>. QED  BY <1>0, <1>3, <2>1, <2>2 DEF flush_single_tlb
  <1>4. CASE UNCHANGED vars
    BY <1>4 DEF vars, TypeOK, CountExact, FramesExclusive, KernelStaysMapped, TlbInv
  <1>. QED  BY <1>1, <1>2, <1>3, <1>4, AllocateInv, FreeInv DEF Next

(* The invariant holds in every state of the allocator.                     *)
LEMMA InvAlways == Spec => []Inv
  BY InitInv, StepInv, PTL DEF Spec

(* The allocator is exact: its counter counts the free frames, every frame in
   use is mapped by one user page (or is the kernel's), and the kernel's own
   mappings survive every sequence of calls.                                *)
THEOREM AllocatorExact ==
  Spec => [](TypeOK /\ CountExact /\ FramesExclusive /\ KernelStaysMapped)
  <1>1. Inv => TypeOK /\ CountExact /\ FramesExclusive /\ KernelStaysMapped
    BY DEF Inv
  <1>. QED  BY InvAlways, <1>1, PTL

(* No sequence of allocations and frees maps a frame twice or loses one: the
   frames page_frame_map marks are those the directory maps.                *)
THEOREM FramesAlwaysExclusive == Spec => []FramesExclusive
  BY AllocatorExact, PTL

(* paging_free_user_page_frame never reaches the kernel's two entries, and
   paging_allocate_user_page_frame never overwrites them.                   *)
THEOREM KernelAlwaysMapped == Spec => []KernelStaysMapped
  BY AllocatorExact, PTL

(* Dividing by a frame's size and rounding up: the quotient is at most c just
   when c frames hold the amount.                                           *)
LEMMA RoundingUp ==
  ASSUME NEW a \in Nat, NEW c \in Nat, NEW P \in Nat \ {0}
  PROVE  (a + P - 1) \div P <= c <=> a <= c * P
  <1>. PICK q : q = (a + P - 1) \div P
    OBVIOUS
  <1>1. q \in Nat /\ q * P <= a + P - 1 /\ a + P - 1 < q * P + P
    OBVIOUS
  <1>2. q * P \in Nat /\ c * P \in Nat
    BY <1>1
  <1>3. CASE q <= c
    <2>1. q * P <= c * P
      BY <1>1, <1>3
    <2>. QED  BY <1>1, <1>2, <1>3, <2>1
  <1>4. CASE ~(q <= c)
    <2>1. (c + 1) * P <= q * P
      BY <1>1, <1>4
    <2>2. (c + 1) * P = c * P + P
      OBVIOUS
    <2>. QED  BY <1>1, <1>2, <1>4, <2>1, <2>2
  <1>. QED  BY <1>3, <1>4

(* paging_allocate_check rounds up in uint32_t arithmetic and trusts the
   counter: it says yes exactly when the free frames hold the amount, short of
   the amounts whose rounding overflows.                                    *)
THEOREM CheckAlwaysExact == Spec => []CheckIsExact
  <1>1. ASSUME Inv PROVE CheckIsExact
    <2>. DEFINE c == free_page_frame_count
    <2>1. c \in Nat /\ c = Cardinality(Frames \ page_frame_map)
      BY <1>1 DEF Inv, TypeOK, CountExact
    <2>. HIDE DEF c
    <2>2. ASSUME NEW a \in 0 .. WORD - PAGE_FRAME_SIZE
          PROVE  paging_allocate_check(a) <=> a <= c * PAGE_FRAME_SIZE
      <3>1. /\ PAGE_FRAME_SIZE \in Nat \ {0} /\ WORD \in Nat \ {0} /\ a \in Nat
            /\ a + PAGE_FRAME_SIZE - 1 \in 0 .. WORD - 1
        BY <2>2, PagingAssumption
      <3>2. (a + PAGE_FRAME_SIZE - 1) % WORD = a + PAGE_FRAME_SIZE - 1
        BY <3>1
      <3>3. (a + PAGE_FRAME_SIZE - 1) \div PAGE_FRAME_SIZE <= c <=> a <= c * PAGE_FRAME_SIZE
        BY <2>1, <3>1, RoundingUp
      <3>. QED  BY <3>2, <3>3 DEF paging_allocate_check, c
    <2>. QED  BY <2>1, <2>2 DEF CheckIsExact
  <1>. QED  BY InvAlways, <1>1, PTL

(* After a call has returned, the processor holds no translation that the
   directory has lost.                                                      *)
THEOREM TranslationsFresh == Spec => []NoStaleTranslation
  <1>1. Inv => NoStaleTranslation
    BY PageFacts DEF Inv, TlbInv, NoStaleTranslation
  <1>. QED  BY InvAlways, <1>1, PTL
=============================================================================
