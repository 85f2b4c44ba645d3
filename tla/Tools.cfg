SPECIFICATION ToolsSpec
CONSTANTS
  noByte     = noByte
  NoByte     <- noByte
  noFilter   = noFilter
  NoFilter   <- noFilter
  WordBits   = 4
  Packets    <- MCPackets
  OddBytes   <- MCOddBytes
  Damages    <- MCDamages
  ReadWords  = 4
  PingProgs  <- MCPingProgs
  Lists      <- MCLists
  Filters    <- MCFilters
  Short      <- MCShort
  Begins     <- MCBegins
  PciSlots   <- MCPciSlots
  Cards      <- MCCards
  KnownPciId <- MCKnownPciId
  cpu_list   <- MCcpu_list
  Brands     <- MCBrands
  Nodes      = 2
  Pulls      = 2
INVARIANTS
  ChecksumDecides
  SumFits
  SetupSound
  ArpVerdictHeld
  ReportExact
