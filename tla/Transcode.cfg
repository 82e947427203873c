SPECIFICATION Spec
CONSTANTS
  NUM_QUANT_TBLS = 3
  NUM_HUFF_TBLS = 2
  MAX_COMPS_IN_SCAN = 4
  MAX_BLOCKS_IN_MCU = 10
  NoOfRows = 2
  INPUT_BUF_SIZE = 4
  OUTPUT_BUF_SIZE = 3
  StdLuminance = 16
  StdChrominance = 17
  MAX_COMPONENTS = 10
  Jobs <- MCJobs
INVARIANTS
  StegoComesBack
  StepsBelongToTheCoefficients
  HalfAnImageIsNoticed
  OnlyTheStegoImageChanges
  ArraysOutliveTheirWriter
PROPERTIES
  CommandsEnd
