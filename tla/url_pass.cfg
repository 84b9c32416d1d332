SPECIFICATION FairSpec
CONSTANTS
  a = a
  b = b
  Names <- MCNames
  Share <- MCShare
  Closed <- MCClosed
  Saved <- MCSaved
  Beyond <- MCBeyond
  Big <- MCBig
  Looped <- MCLooped
  Kinds = {"smb", "smbwin", "webdav"}
  File = file
  CommandLines <- MCCommandLines
  RootFile = FALSE
  MaxStray = 2
CHECK_DEADLOCK FALSE
INVARIANTS TypeOK FramesSuffice ReadsWhereItIs SuccessIsComplete
PROPERTIES WalkSpec Terminates
