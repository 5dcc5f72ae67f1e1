\* Ring of 3 bytes, calls of up to 2 bytes, 5 bytes over the pipe's life:
\* enough for the ring to fill, wrap and drain from any starting position.
\* struct pipe is kept off the ring here (HdrSize 0); MCPipeHeader.cfg
\* checks the aliasing.  The system stops once both ends are closed, and
\* a writer asleep on a full pipe whose reader closed never runs again.
CONSTANTS
  BufSize = 3
  HdrSize = 0
  MaxN = 2
  MaxBytes = 5
SPECIFICATION Spec
CHECK_DEADLOCK FALSE
INVARIANT TypeOK
PROPERTY ReaderWakes WriterWakes
