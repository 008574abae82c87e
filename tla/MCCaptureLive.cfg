SPECIFICATION FairSpec
CONSTANTS
  LINE = 4
  HDR = 0
  PKT = 1
  HALF = 1
  BUF = 8
  FLAGS = {0, 1, 2, 3}
  STARTYS = {}
  AOI <- MCAoiRow
  U32 = 1
CONSTRAINT FromFirstRow
PROPERTIES RequestServed CaptureResumes
