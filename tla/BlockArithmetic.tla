-------------------------- MODULE BlockArithmetic --------------------------
(***************************************************************************)
(* The arithmetic both ends of a file transfer are built on: into how many *)
(* blocks a file is cut, how many bytes a block carries, how many bytes    *)
(* count as completed and when the transfer counts as done.  Sizes are     *)
(* natural numbers: the program computes them in 64 bits and a file that   *)
(* exists on a disk stays far below 2^64 - 65536.                          *)
(***************************************************************************)
EXTENDS Naturals

\* std::min on sizes.
SmallerOf(a, b) == IF a <= b THEN a ELSE b

\* FileTransfer::getNumBlocks.
GetNumBlocks(fileSize, blockSize) ==
  IF fileSize + blockSize = 0
  THEN 0
  ELSE (fileSize + blockSize - 1) \div blockSize

\* The bytes a read of blockSize bytes at num * blockSize yields (gcount).
BlockLength(fileSize, blockSize, num) ==
  SmallerOf(blockSize, fileSize - num * blockSize)

\* bytesCompleted of either end, for a number of blocks it counts as handled:
\* the sender counts the blocks it has taken off its queue, the receiver the
\* distinct blocks it has stored.
BytesCompleted(fileSize, blockSize, blocks) ==
  SmallerOf(fileSize, blocks * blockSize)

\* FileTransfer::isDone: bytesCompleted() >= bytesTotal().  MutDoneStrict
\* requires more bytes than the file has, MutDoneEarly counts one block too many.
MutDoneStrict(fileSize, blockSize, blocks) ==
  BytesCompleted(fileSize, blockSize, blocks) > fileSize

MutDoneEarly(fileSize, blockSize, blocks) ==
  BytesCompleted(fileSize, blockSize, blocks + 1) >= fileSize

IsDone(fileSize, blockSize, blocks) ==
  BytesCompleted(fileSize, blockSize, blocks) >= fileSize

=============================================================================
