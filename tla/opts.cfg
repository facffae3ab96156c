SPECIFICATION FairSpec
CONSTANTS
  c1 = c1
  c2 = c2
  h1 = h1
  h2 = h2
  Free = Free
  NoCloud = NoCloud
  Clouds = {c1, c2}
  Handlers = {h1, h2}
  CloudArg = c1
  Collector = h1
  Configured <- ComputeAndIdentity
  Orders <- AnyOrder
  Readers <- ProjectReaders
INVARIANTS TypeOK Excluded OptionsFound OwnWhenTrusted
PROPERTIES ScrapesEnd
