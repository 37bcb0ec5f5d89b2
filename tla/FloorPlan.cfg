SPECIFICATION Spec
CONSTANTS
  t1 = t1  t2 = t2  z1 = z1  c1 = c1  c2 = c2
  None = None
  Tables <- MCTables
  Zones <- MCZones
  Calls <- MCCalls
  Words <- MCWords
  Piso = "PISO"
  Prefix <- MCPrefix
  Codes <- MCCodes
  TableNames <- MCTableNames
SYMMETRY Interchangeable
INVARIANTS TypeOK NamesDistinct SuggestionFree
PROPERTY ZoneRemovalClean
