SPECIFICATION GraphicsSpec
CONSTANTS
  Parts = {"pmem", "adsp", "post", "slots", "sizes"}
  NoThread = NoThread
  Threads = {t1, t2}
  PmemSize = 12288
  Requests = {4096, 8192, 12288}
  Errnos = {1, 12}
  MaxFd = 5
  MaxPage = 3
  MaxStuck = 1
SYMMETRY Symmetry
INVARIANTS
  NothingLeaks
  PostsInOrder
  SlotsExact
  SizesFit
