\* Pages in the chat and from the MCP server, over a table that changes.
CONSTANTS
  alice = alice
  bob = bob
  client = client
  NoRow = NoRow
  NoPage = NoPage
  Users <- MCUsers
  Clients <- MCClients
  Readers <- MCReadersOf
  Rows <- MCRows
  OwnerOf <- MCOwnerOf
  Values <- MCValues
  Queries <- MCQueries
  Tables <- MCTables
  MaxWrites = 1
  Limit = 3
  ChatSpan = 2
  MaxInt = 9
  MaxPlain = 3
  Numbers = {2, 7, 10}
  MaxTokens = 2
  McpSpan = 1
  DefaultLimit = 1
  MaxLimit = 2
  Limits = {0, 3}
  Offsets <- MCOffsets
SPECIFICATION MCSpec
INVARIANTS TypeOK WalkShowsAll SummaryBalances RevokedGetsNothing OwnRowsOnly PagesCoverList
PROPERTY LabelsTrue
CHECK_DEADLOCK FALSE
