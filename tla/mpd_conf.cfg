\* Deadlock: the calls end.
CONSTANTS
  Texts <- AnyText
  Devices <- OneDevice
  Files <- SmallFiles
  MaxLines = 2
  MaxCalls = 2
  MaxShort = 1
SPECIFICATION Spec
INVARIANTS TypeOK DeviceSet RestKept ScannerAgrees OldOrNew
PROPERTY SetterSpec
CHECK_DEADLOCK FALSE
