\* Every code matrix of four rows (two of header) or two (a terminator) over three
\* columns, with every choice of the dry ones.
SPECIFICATION FairSpec
CONSTANTS
  BlockBits = 3
  NoOfColumns = 3
  HeaderSize = 2
  InitialRows = {2, 4}
  ParityChoices = {{1,2}}
  MessageChoices = {{0}, {1}}
INVARIANTS DropsExactlyWhenDependent EliminationKeepsTheSolutions SolvedRowsStaySolved RunCarriesItsBits
PROPERTY CodingEnds
