\* Sections with parallel, serial, capped, inline and disabled stages.
CONSTANTS
  Sections <- AllSections
  MaxDevices = 3
  NoFlag = NoFlag
SPECIFICATION FairSpec
INVARIANTS GroupsInOrder CapIsKept SerialRunsAlone ErrorsComeOut
PROPERTIES Ends
