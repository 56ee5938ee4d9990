SPECIFICATION Spec
CONSTANTS
  PAGE_FRAME_MAX_COUNT = 4
  PAGE_ENTRY_COUNT = 6
  KERNEL_PAGE = 4
  PAGE_FRAME_SIZE = 4
  WORD = 64
INVARIANTS CountExact FramesExclusive KernelStaysMapped NoStaleTranslation CheckIsExact
