---------------------------- MODULE StreamChannel ----------------------------
(***************************************************************************)
(* What a stream promises: chunks are read in the order in which they were *)
(* written, each once, and nothing is written after the closing chunk.     *)
(***************************************************************************)
EXTENDS Naturals, Sequences

CONSTANT
  Chunks,   \* what may be written
  Closing   \* the chunks that close a stream

VARIABLES
  written,  \* the chunks written so far
  read      \* those of them that have been read

Init == written = <<>> /\ read = <<>>

Open == \A i \in 1..Len(written) : written[i] \notin Closing

Write(c) ==
  /\ Open
  /\ written' = Append(written, c)
  /\ UNCHANGED read

\* The next chunk that nobody has read.
Read ==
  /\ Len(read) < Len(written)
  /\ read' = Append(read, written[Len(read) + 1])
  /\ UNCHANGED written

\* A reader is waiting, so the chunk is read as it is written.
Pass(c) ==
  /\ Open
  /\ Len(read) = Len(written)
  /\ written' = Append(written, c)
  /\ read' = Append(read, c)

Next == Read \/ \E c \in Chunks : Write(c) \/ Pass(c)

Spec == Init /\ [][Next]_<<written, read>>
=============================================================================
