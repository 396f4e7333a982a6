----------------------- MODULE BlockArithmeticProofs -----------------------
(***************************************************************************)
(* What the block arithmetic guarantees for every file and block size.     *)
(***************************************************************************)
EXTENDS BlockArithmetic, TLAPS

\* Multiplying by a block size keeps the order of two block counts.  Stated
\* apart because the solver needs it as a named fact.
LEMMA ProductMonotone ==
  ASSUME NEW i \in Nat, NEW j \in Nat, NEW b \in Nat, i <= j
  PROVE  i * b <= j * b
<1>1. PICK d \in Nat : j = i + d
  BY j - i \in Nat, j = i + (j - i)
<1>2. j * b = i * b + d * b
  BY <1>1
<1>3. d * b \in Nat /\ i * b \in Nat
  OBVIOUS
<1> QED BY <1>2, <1>3

\* The block count of getNumBlocks is the file size divided by the block size,
\* rounded up: all blocks together cover the file, one block less does not.
LEMMA NumBlocksRoundsUp ==
  ASSUME NEW f \in Nat, NEW b \in Nat \ {0}
  PROVE  /\ GetNumBlocks(f, b) \in Nat
         /\ f <= GetNumBlocks(f, b) * b
         /\ GetNumBlocks(f, b) * b < f + b
<1>1. \A x \in Nat : x \div b \in Nat /\ (x \div b) * b <= x /\ x < (x \div b) * b + b
  BY Z3
<1>2. f + b # 0 /\ f + b - 1 \in Nat
  OBVIOUS
<1> QED BY <1>1, <1>2 DEF GetNumBlocks

\* A number of blocks covers the file exactly when it is all of them.
LEMMA CoversIffAllBlocks ==
  ASSUME NEW f \in Nat \ {0}, NEW b \in Nat \ {0},
         NEW k \in 0 .. GetNumBlocks(f, b)
  PROVE  f <= k * b <=> k = GetNumBlocks(f, b)
<1> DEFINE n == GetNumBlocks(f, b)
<1>1. n \in Nat /\ f <= n * b /\ n * b < f + b
  BY NumBlocksRoundsUp
<1>2. ASSUME k # n PROVE k * b < f
  <2>1. n - 1 \in Nat /\ k <= n - 1
    BY <1>1, <1>2
  <2>2. k * b <= (n - 1) * b
    BY <2>1, ProductMonotone
  <2>3. (n - 1) * b = n * b - b
    BY <1>1
  <2>4. k * b \in Nat /\ n * b \in Nat
    BY <1>1
  <2> QED BY <1>1, <2>2, <2>3, <2>4
<1>3. k * b \in Nat
  BY <1>1
<1> QED BY <1>1, <1>2, <1>3

\* isDone of a file that is not empty: either end counts as done exactly when
\* the blocks it counts are all the blocks of the file.  The sender closes its
\* input file and the receiver its output file on this test.
THEOREM DoneIffAllBlocks ==
  ASSUME NEW f \in Nat \ {0}, NEW b \in Nat \ {0},
         NEW k \in 0 .. GetNumBlocks(f, b)
  PROVE  IsDone(f, b, k) <=> k = GetNumBlocks(f, b)
<1>1. k \in Nat /\ k * b \in Nat
  BY NumBlocksRoundsUp
<1>2. IsDone(f, b, k) <=> f <= k * b
  BY <1>1 DEF IsDone, BytesCompleted, SmallerOf
<1> QED BY <1>2, CoversIffAllBlocks

\* An empty file has no block and counts as done at once, although no worker
\* ever gets to evaluate isDone for it.
THEOREM EmptyFileHasNoBlocks ==
  ASSUME NEW b \in Nat \ {0}
  PROVE  GetNumBlocks(0, b) = 0 /\ IsDone(0, b, 0)
<1>1. GetNumBlocks(0, b) \in Nat /\ GetNumBlocks(0, b) * b < b
  BY NumBlocksRoundsUp
<1>2. GetNumBlocks(0, b) = 0
  <2>1. SUFFICES ASSUME GetNumBlocks(0, b) >= 1 PROVE FALSE
    BY <1>1
  <2>2. 1 * b <= GetNumBlocks(0, b) * b
    BY <1>1, <2>1, ProductMonotone
  <2>3. GetNumBlocks(0, b) * b \in Nat
    BY <1>1
  <2> QED BY <1>1, <2>2, <2>3
<1> QED BY <1>2 DEF IsDone, BytesCompleted, SmallerOf

\* Every block that is taken off the queue has at least one byte of the file
\* at its offset, and no block is longer than the block size: a read that
\* yields no byte is therefore always a failed read, never an empty block.
THEOREM EveryBlockCarriesData ==
  ASSUME NEW f \in Nat \ {0}, NEW b \in Nat \ {0},
         NEW k \in 0 .. (GetNumBlocks(f, b) - 1)
  PROVE  BlockLength(f, b, k) \in 1 .. b
<1>1. GetNumBlocks(f, b) \in Nat
  BY NumBlocksRoundsUp
<1>2. k \in 0 .. GetNumBlocks(f, b) /\ k # GetNumBlocks(f, b)
  BY <1>1
<1>3. k * b \in Nat /\ k * b < f
  BY <1>1, <1>2, CoversIffAllBlocks
<1> QED BY <1>3 DEF BlockLength, SmallerOf

\* bytesCompleted grows, block by block, by exactly the bytes the block carries,
\* also when the last one is short: the progress shown is the bytes handled.
THEOREM CompletedGrowsByLength ==
  ASSUME NEW f \in Nat \ {0}, NEW b \in Nat \ {0},
         NEW k \in 0 .. (GetNumBlocks(f, b) - 1)
  PROVE  BytesCompleted(f, b, k + 1) = BytesCompleted(f, b, k) + BlockLength(f, b, k)
<1>1. GetNumBlocks(f, b) \in Nat
  BY NumBlocksRoundsUp
<1>2. k \in 0 .. GetNumBlocks(f, b) /\ k # GetNumBlocks(f, b)
  BY <1>1
<1>3. k * b \in Nat /\ k * b < f
  BY <1>1, <1>2, CoversIffAllBlocks
<1>4. (k + 1) * b = k * b + b
  BY <1>1
<1> QED BY <1>3, <1>4 DEF BytesCompleted, BlockLength, SmallerOf
=============================================================================
