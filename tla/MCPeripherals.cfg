CONSTANTS
  Addrs <- MCAddrs
  Vals <- MCVals
  Invalid = Invalid
  TOTAL_CORES = 2
  CLKS_PER_BIT = 8
  DataBits = 2
  SpiBits = 2
  TimeBits = 2
  Programs <- MCPrograms
  Sent = {1, 2}
  Paces = {7, 8}
SPECIFICATION FairSpec
INVARIANTS TypeOK ByteWaits
PROPERTIES LoadsCurrent StoresLand HeardInOrder ByteReadOnce WholeExchange OwnInterrupts BytesAreSent AccessCompletes
