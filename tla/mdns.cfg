CONSTANTS
  BufferSize = 512
  MaxLabelSize = 63
  LocalSize = 5
  NameSize = {1, 61, 63}
  EntrySize = {10, 250, 254}
  Port = {80, 81}
  Packet <- Reading
  OutsideByte = {0, 12, 200}
  None = None
  MaxSets = 4
  MaxPackets = 2
SPECIFICATION FairSpec
INVARIANTS ResponseIsUnderstood QuestionsReadInTurn
 
CHECK_DEADLOCK FALSE
