CONSTANTS
  UsbDisks = {"sda", "sdb"}
  SdDisks = {"mmcblk0"}
  Readers = {"sdb"}
  LeftFolders = {0}
  MaxMedia = 3
  MaxLost = 1
  MaxHdc = 2
  Unreadable = {2}
SPECIFICATION Spec
INVARIANTS
  TypeOK
  FolderIsTheDrives
  NoMountLeaks
PROPERTIES
  EndsUpRight
CHECK_DEADLOCK FALSE
