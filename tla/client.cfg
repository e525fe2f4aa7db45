\* Three requests by every codec, with every failure; two once a message came in pieces.
CONSTANTS
  a = a
  b = b
  plain = plain
  binary = binary
  large = large
  remote = remote
  Names = {a, b}
  Absent = Absent
  Contents = {plain, binary, large, remote}
  Original <- MCOriginal
  FirstDisk <- MCDisk
  FirstStore <- MCStore
  BufSize = 3
  TlvRoom = 2
  Wrap = 16
  Other = Other
  Eof = Eof
  Lines <- MCLines
  MaxReq = 3
  MaxCut = 2
  Faults <- AllFaults
SPECIFICATION Spec
INVARIANTS TypeOK Aligned WhatSurvives OnlyJsonLeaks OnlyTyped CrashHasCause
PROPERTIES ListComplete RequestEnds Exchanged
CHECK_DEADLOCK FALSE
