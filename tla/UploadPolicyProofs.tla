------------------------- MODULE UploadPolicyProofs -------------------------
(***************************************************************************)
(* The parts of a file, for every size and every part size: the browser    *)
(* cuts a file into exactly the parts the Worker accepts.                  *)
(***************************************************************************)
EXTENDS UploadPolicy, TLAPS

LEMMA ProductsOrdered ==
    ASSUME NEW p \in Nat, NEW a \in Nat, NEW b \in Nat, a <= b
    PROVE  a * p <= b * p
  OBVIOUS

LEMMA QuotientRoundsUp ==
    ASSUME NEW p \in Nat \ {0}, NEW d \in Nat \ {0}
    PROVE  LET n == (d + p - 1) \div p
           IN  n \in Nat \ {0} /\ (n - 1) * p < d /\ d <= n * p
  OBVIOUS

\* The last part is the one the size falls into.
LEMMA CountBounds ==
    ASSUME LimitsAssumption, NEW size \in Nat \ {0}
    PROVE  LET n == ExpectedPartCount(size)
           IN  /\ n \in Nat \ {0} /\ n <= size
               /\ (n - 1) * PartSize < size /\ size <= n * PartSize
               /\ (n - 1) * PartSize \in Nat /\ n * PartSize = (n - 1) * PartSize + PartSize
  <1> DEFINE n == ExpectedPartCount(size)
  <1>1. PartSize \in Nat \ {0}
    BY DEF LimitsAssumption
  <1>2. n = (size + PartSize - 1) \div PartSize
    BY DEF ExpectedPartCount
  <1>3. n \in Nat \ {0} /\ (n - 1) * PartSize < size /\ size <= n * PartSize
    BY <1>1, <1>2, QuotientRoundsUp
  <1> HIDE DEF n
  <1>4. (n - 1) * PartSize \in Nat /\ n * PartSize = (n - 1) * PartSize + PartSize
    BY <1>1, <1>3
  <1>5. n - 1 <= (n - 1) * PartSize
    BY <1>1, <1>3
  <1>6. n <= size
    BY <1>3, <1>4, <1>5
  <1> QED
    BY <1>3, <1>4, <1>6 DEF n

\* The chunks of a file are numbered from one to the count the Worker expects.
THEOREM ChunksAreExpected ==
    ASSUME LimitsAssumption, NEW size \in Nat \ {0}
    PROVE  DOMAIN SliceIntoChunks(size) = 1 .. ExpectedPartCount(size)
  <1> DEFINE n == ExpectedPartCount(size)
  <1>1. PartSize \in Nat \ {0}
    BY DEF LimitsAssumption
  <1>2. /\ n \in Nat \ {0} /\ n <= size
        /\ (n - 1) * PartSize < size /\ size <= n * PartSize
    BY CountBounds
  <1> HIDE DEF n
  <1>3. ASSUME NEW k \in 1 .. size
        PROVE  (k - 1) * PartSize < size <=> k <= n
    <2>1. CASE k <= n
      <3>1. (k - 1) * PartSize <= (n - 1) * PartSize
        BY <1>1, <1>2, <2>1, ProductsOrdered
      <3>2. (k - 1) * PartSize \in Nat /\ (n - 1) * PartSize \in Nat
        BY <1>1, <1>2
      <3> QED
        BY <1>2, <2>1, <3>1, <3>2
    <2>2. CASE n < k
      <3>1. n * PartSize <= (k - 1) * PartSize
        BY <1>1, <1>2, <2>2, ProductsOrdered
      <3>2. (k - 1) * PartSize \in Nat /\ n * PartSize \in Nat
        BY <1>1, <1>2
      <3> QED
        BY <1>2, <2>2, <3>1, <3>2
    <2> QED
      BY <1>2, <2>1, <2>2
  <1>4. {k \in 1 .. size : (k - 1) * PartSize < size} = 1 .. n
    BY <1>2, <1>3
  <1> QED
    BY <1>4 DEF SliceIntoChunks, n

\* sign-part accepts every chunk of a file that init has let through, with its
\* number and its length: no upload is refused for an arithmetic slip at a
\* boundary (upload.ts:69-86, web upload.ts:61-76).
THEOREM ChunksAccepted ==
    ASSUME LimitsAssumption, NEW size \in Nat \ {0}, ExpectedPartCount(size) <= MaxParts,
           NEW i \in DOMAIN SliceIntoChunks(size)
    PROVE  SignPartAccepts(size, i, SliceIntoChunks(size)[i])
  <1> DEFINE n == ExpectedPartCount(size)
             length == SliceIntoChunks(size)[i]
  <1>1. PartSize \in Nat \ {0} /\ PartSize <= R2MaxPartSize /\ R2MaxPartSize \in Nat
        /\ MaxParts \in Nat
    BY DEF LimitsAssumption, MaxParts
  <1>2. /\ n \in Nat \ {0} /\ n <= size /\ (n - 1) * PartSize < size /\ size <= n * PartSize
        /\ (n - 1) * PartSize \in Nat /\ n * PartSize = (n - 1) * PartSize + PartSize
        /\ n <= MaxParts
    BY CountBounds
  <1>3. i \in 1 .. n
    BY ChunksAreExpected
  <1>4. length = IF i * PartSize <= size THEN PartSize ELSE size - (i - 1) * PartSize
    BY DEF SliceIntoChunks
  <1>5. PartSize * (n - 1) = (n - 1) * PartSize
    BY <1>1, <1>2
  <1> HIDE DEF n, length
  <1>6. CASE i < n
    <2>1. i * PartSize <= (n - 1) * PartSize
      BY <1>1, <1>2, <1>3, <1>6, ProductsOrdered
    <2>2. i * PartSize \in Nat
      BY <1>1, <1>3
    <2>3. length = PartSize
      BY <1>2, <1>4, <2>1, <2>2
    <2> QED
      BY <1>1, <1>2, <1>3, <1>6, <2>3 DEF SignPartAccepts, n, length
  <1>7. CASE i = n
    <2>1. length = size - (n - 1) * PartSize /\ length > 0 /\ length <= PartSize
      BY <1>1, <1>2, <1>4, <1>7
    <2> QED
      BY <1>1, <1>2, <1>5, <1>7, <2>1 DEF SignPartAccepts, n, length
  <1> QED
    BY <1>2, <1>3, <1>6, <1>7

\* And complete accepts the list of their numbers.
THEOREM NumbersAccepted ==
    ASSUME LimitsAssumption, NEW size \in Nat \ {0}, ExpectedPartCount(size) <= MaxParts
    PROVE  CompletePartsAccepted(size, [i \in DOMAIN SliceIntoChunks(size) |-> i])
  <1> DEFINE n == ExpectedPartCount(size)
             numbers == [i \in DOMAIN SliceIntoChunks(size) |-> i]
  <1>1. n \in Nat \ {0} /\ DOMAIN numbers = 1 .. n /\ n <= MaxParts /\ MaxParts \in Nat
    BY CountBounds, ChunksAreExpected DEF LimitsAssumption, MaxParts
  <1>2. \A i \in 1 .. n : numbers[i] = i
    BY <1>1
  <1>3. Len(numbers) = n
    BY <1>1
  <1> HIDE DEF n, numbers
  <1>4. \A i \in 1 .. n : numbers[i] <= MaxParts /\ numbers[i] > IF i = 1 THEN 0 ELSE numbers[i - 1]
    BY <1>1, <1>2
  <1> QED
    BY <1>1, <1>3, <1>4 DEF CompletePartsAccepted, n, numbers
=============================================================================
