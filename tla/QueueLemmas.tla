----------------------------- MODULE QueueLemmas -----------------------------
(***************************************************************************)
(* What Append and Tail make of a queue, element by element.  The queues   *)
(* of this development are sequences that grow at the end and are taken    *)
(* from at the front, and their invariants speak of their elements.  The   *)
(* byte streams are sequences as well, of frames without marks between     *)
(* them: the last part says where in a stream the frames lie.              *)
(***************************************************************************)
EXTENDS Integers, Sequences, WellFoundedInduction, TLAPS

\* The elements of a queue.
LEMMA QueueElements ==
  ASSUME NEW S, NEW q \in Seq(S)
  PROVE  /\ Len(q) \in Nat
         /\ DOMAIN q = 1..Len(q)
         /\ \A k \in DOMAIN q : q[k] \in S
OBVIOUS

\* What is posted to a queue comes last.
LEMMA AppendElements ==
  ASSUME NEW S, NEW q \in Seq(S), NEW e \in S, NEW new, new = Append(q, e)
  PROVE  /\ new \in Seq(S)
         /\ Len(new) = Len(q) + 1
         /\ DOMAIN new = 1..Len(q) + 1
         /\ \A k \in DOMAIN new : IF k \in DOMAIN q THEN new[k] = q[k]
                                                    ELSE k = Len(q) + 1 /\ new[k] = e
OBVIOUS

\* What is taken from a queue was first.
LEMMA TailElements ==
  ASSUME NEW S, NEW q \in Seq(S), q # << >>, NEW new, new = Tail(q)
  PROVE  /\ Head(q) \in S /\ 1 \in DOMAIN q /\ Head(q) = q[1]
         /\ new \in Seq(S)
         /\ Len(new) = Len(q) - 1 /\ Len(q) \in Nat \ {0}
         /\ DOMAIN new = 1..Len(q) - 1
         /\ \A k \in DOMAIN new : k + 1 \in DOMAIN q /\ new[k] = q[k + 1]
OBVIOUS

\* What is cut off from a queue comes last.
LEMMA PrefixElements ==
  ASSUME NEW S, NEW q \in Seq(S), NEW n \in 0..Len(q), NEW new, new = SubSeq(q, 1, n),
         NEW lost, lost = SubSeq(q, n + 1, Len(q))
  PROVE  /\ new \in Seq(S) /\ Len(new) = n
         /\ \A k \in 1..n : new[k] = q[k]
         /\ DOMAIN lost = 1..Len(q) - n
         /\ \A k \in DOMAIN lost : lost[k] = q[n + k]
OBVIOUS

\* Two sequences one after the other.
LEMMA ConcatElements ==
  ASSUME NEW S, NEW q \in Seq(S), NEW r \in Seq(S), NEW new, new = q \o r
  PROVE  /\ new \in Seq(S)
         /\ Len(q) \in Nat /\ Len(r) \in Nat /\ Len(new) = Len(q) + Len(r)
         /\ \A k \in 1..Len(q) : new[k] = q[k]
         /\ \A k \in 1..Len(r) : new[Len(q) + k] = r[k]
OBVIOUS

\* Two elements before others.
LEMMA TwoBefore ==
  ASSUME NEW S, NEW first \in S, NEW second \in S, NEW rest \in Seq(S),
         NEW q, q = <<first, second>> \o rest
  PROVE  /\ q \in Seq(S) /\ Len(q) = 2 + Len(rest)
         /\ q[1] = first /\ q[2] = second
         /\ \A k \in 1..Len(rest) : q[2 + k] = rest[k]
OBVIOUS

\* One element more is an Append.
LEMMA AppendIs ==
  ASSUME NEW S, NEW old \in Seq(S), NEW new \in Seq(S), Len(new) = Len(old) + 1,
         \A k \in 1..Len(old) : new[k] = old[k]
  PROVE  new = Append(old, new[Len(old) + 1])
<1>1. PICK e, more : e = new[Len(old) + 1] /\ more = Append(old, e)
  OBVIOUS
<1>2. Len(old) \in Nat /\ Len(old) + 1 \in 1..Len(new) /\ e \in S
  BY <1>1
<1>3. /\ more \in Seq(S) /\ Len(more) = Len(old) + 1 /\ more[Len(old) + 1] = e
      /\ \A k \in 1..Len(old) : more[k] = old[k]
  BY <1>1, <1>2
<1>4. \A k \in 1..Len(new) : new[k] = more[k]
  BY <1>1, <1>2, <1>3
<1>5. new = more
  BY <1>3, <1>4
<1> QED
  BY <1>1, <1>5

\* Of the elements before place n, the last one in S is m; none is in S.
LastBefore(q, n, S, m) == \E j \in 1..n - 1 : /\ q[j] = m /\ m \in S
                                             /\ \A i \in j + 1..n - 1 : q[i] \notin S
NoneBefore(q, n, S) == \A i \in 1..n - 1 : q[i] \notin S

\* Both look only at the elements before the place.
LEMMA BeforeSame ==
  ASSUME NEW q, NEW new, NEW n \in Nat, \A i \in 1..n - 1 : new[i] = q[i], NEW S
  PROVE  /\ NoneBefore(new, n, S) => NoneBefore(q, n, S)
         /\ \A m : LastBefore(new, n, S, m) => LastBefore(q, n, S, m)
BY DEF NoneBefore, LastBefore

\* One place further.
LEMMA BeforeNext ==
  ASSUME NEW q, NEW n \in Nat \ {0}, NEW S
  PROVE  /\ NoneBefore(q, n + 1, S) => NoneBefore(q, n, S) /\ q[n] \notin S
         /\ \A m : LastBefore(q, n + 1, S, m) =>
              IF q[n] \in S THEN m = q[n] ELSE LastBefore(q, n, S, m)
BY DEF NoneBefore, LastBefore

\* The first element is taken: every place moves by one.
LEMMA BeforeTail ==
  ASSUME NEW q, NEW new, NEW n \in Nat \ {0}, \A i \in 1..n - 1 : new[i] = q[i + 1], NEW S
  PROVE  /\ \A m : LastBefore(new, n, S, m) => LastBefore(q, n + 1, S, m)
         /\ NoneBefore(new, n, S) => IF q[1] \in S THEN LastBefore(q, n + 1, S, q[1])
                                                  ELSE NoneBefore(q, n + 1, S)
<1>1. ASSUME NEW m, LastBefore(new, n, S, m) PROVE LastBefore(q, n + 1, S, m)
  <2>1. PICK j \in 1..n - 1 : /\ new[j] = m /\ m \in S
                              /\ \A i \in j + 1..n - 1 : new[i] \notin S
    BY <1>1 DEF LastBefore
  <2>2. j + 1 \in 1..(n + 1) - 1 /\ q[j + 1] = m
    BY <2>1
  <2>3. ASSUME NEW i \in (j + 1) + 1..(n + 1) - 1 PROVE q[i] \notin S
    <3>1. i - 1 \in j + 1..n - 1 /\ i - 1 \in 1..n - 1 /\ (i - 1) + 1 = i
      OBVIOUS
    <3> QED
      BY <2>1, <3>1
  <2> QED
    BY <2>1, <2>2, <2>3 DEF LastBefore
<1>2. ASSUME NoneBefore(new, n, S), NEW i \in 2..n PROVE q[i] \notin S
  <2>1. i - 1 \in 1..n - 1 /\ (i - 1) + 1 = i
    OBVIOUS
  <2> QED
    BY <1>2, <2>1 DEF NoneBefore
<1>3. ASSUME NoneBefore(new, n, S), q[1] \in S PROVE LastBefore(q, n + 1, S, q[1])
  <2>1. 1 \in 1..(n + 1) - 1 /\ \A i \in 1 + 1..(n + 1) - 1 : i \in 2..n
    OBVIOUS
  <2> QED
    BY <1>2, <1>3, <2>1 DEF LastBefore
<1>4. ASSUME NoneBefore(new, n, S), q[1] \notin S PROVE NoneBefore(q, n + 1, S)
  <2>1. \A i \in 1..(n + 1) - 1 : i = 1 \/ i \in 2..n
    OBVIOUS
  <2> QED
    BY <1>2, <1>4, <2>1 DEF NoneBefore
<1> QED
  BY <1>1, <1>3, <1>4

\* What is cut off was not in S.
LEMMA BeforeCut ==
  ASSUME NEW q, NEW n \in Nat, NEW l \in Nat, n <= l, NEW S,
         \A i \in n + 1..l : q[i] \notin S
  PROVE  /\ NoneBefore(q, n + 1, S) => NoneBefore(q, l + 1, S)
         /\ \A m : LastBefore(q, n + 1, S, m) => LastBefore(q, l + 1, S, m)
<1>1. NoneBefore(q, n + 1, S) => NoneBefore(q, l + 1, S)
  BY DEF NoneBefore
<1>2. ASSUME NEW m, LastBefore(q, n + 1, S, m) PROVE LastBefore(q, l + 1, S, m)
  <2>1. PICK j \in 1..(n + 1) - 1 : /\ q[j] = m /\ m \in S
                                    /\ \A i \in j + 1..(n + 1) - 1 : q[i] \notin S
    BY <1>2 DEF LastBefore
  <2>2. /\ j \in 1..(l + 1) - 1
        /\ \A i \in j + 1..(l + 1) - 1 : i \in j + 1..(n + 1) - 1 \/ i \in n + 1..l
    OBVIOUS
  <2> QED
    BY <2>1, <2>2 DEF LastBefore
<1> QED
  BY <1>1, <1>2

-----------------------------------------------------------------------------
(* Numbers *)

\* A set of numbers that is not empty has a least one.
LEMMA LeastNumber ==
  ASSUME NEW S \in SUBSET Nat, S # {}
  PROVE  \E n \in S : \A k \in S : n <= k
<1>1. \A R : IsWellFoundedOn(R, Nat) => \E n \in S : \A k \in S : <<k, n>> \notin R
  BY WFMin
<1>2. OpToRel(<, Nat) = {r \in Nat \X Nat : r[1] < r[2]}
  BY DEF OpToRel
<1>3. IsWellFoundedOn({r \in Nat \X Nat : r[1] < r[2]}, Nat)
  BY <1>2, NatLessThanWellFounded, Zenon
<1>4. PICK n \in S : \A k \in S : <<k, n>> \notin {r \in Nat \X Nat : r[1] < r[2]}
  BY <1>1, <1>3, Zenon
<1>5. ASSUME NEW k \in S PROVE n <= k
  <2>1. n \in Nat /\ k \in Nat /\ <<k, n>> \in Nat \X Nat
    OBVIOUS
  <2>2. ~(<<k, n>>[1] < <<k, n>>[2])
    BY <1>4, <2>1, Zenon
  <2> QED
    BY <2>1, <2>2
<1> QED
  BY <1>5

\* The two digits of a number below the square of the base.
LEMMA TwoDigits ==
  ASSUME NEW b \in Nat, b > 1, NEW n \in Nat
  PROVE  /\ n % b \in 0..b - 1
         /\ n \div b \in Nat
         /\ n = b * (n \div b) + (n % b)
         /\ n < b * b => (n \div b) % b = n \div b
<1>1. n % b \in 0..b - 1
  OBVIOUS
<1>2. n \div b \in Nat
  OBVIOUS
<1>3. n = b * (n \div b) + (n % b)
  OBVIOUS
<1>4. n < b * b => n \div b < b
  BY <1>1, <1>2, <1>3
<1>5. n \div b < b => (n \div b) % b = n \div b
  <2>1. PICK m \in Nat : m = n \div b
    BY <1>2
  <2>2. m < b => m % b = m
    OBVIOUS
  <2> QED
    BY <2>1, <2>2
<1> QED
  BY <1>1, <1>2, <1>3, <1>4, <1>5

-----------------------------------------------------------------------------
(* Frames in a stream *)

\* In bytes the frames first to last of frames begin after the places in mark, and
\* end with bytes if they end with frames; what a frame has before bytes begins was
\* read already.
Marks(mark, bytes, frames, first, last) ==
  /\ \A k \in Nat : mark[k] \in Int
  /\ \A k \in first..last : mark[k + 1] = mark[k] + Len(frames[k])
  /\ \A k \in first..last : \A j \in 1..Len(frames[k]) :
       mark[k] + j >= 1 => /\ mark[k] + j <= Len(bytes)
                           /\ bytes[mark[k] + j] = frames[k][j]
  /\ last = Len(frames) => mark[last + 1] = Len(bytes)

\* What is left of bytes when n are read, and where the marks are then.
Rest(rest, bytes, n) == /\ Len(rest) \in Nat /\ Len(bytes) = n + Len(rest)
                        /\ \A k \in 1..Len(rest) : rest[k] = bytes[n + k]
Moved(moved, mark, n) == \A k \in Nat : moved[k] = mark[k] - n
\* What of bytes came first.
Begins(come, bytes) == \A k \in 1..Len(come) : come[k] = bytes[k]

\* When bytes are read every mark moves by their number.
LEMMA MarksRead ==
  ASSUME NEW S, NEW frames \in Seq(Seq(S)), NEW bytes \in Seq(S),
         NEW first \in Nat \ {0}, NEW last \in Nat, last <= Len(frames),
         NEW mark, Marks(mark, bytes, frames, first, last),
         NEW n \in Nat, NEW rest, Rest(rest, bytes, n), NEW moved, Moved(moved, mark, n)
  PROVE  Marks(moved, rest, frames, first, last)
<1>1. /\ Len(frames) \in Nat /\ last + 1 \in Nat
      /\ \A k \in first..last : /\ k \in Nat /\ k + 1 \in Nat /\ k \in 1..Len(frames)
                                /\ Len(frames[k]) \in Nat
  OBVIOUS
<1>2. \A k \in Nat : /\ mark[k] \in Int /\ moved[k] \in Int
                     /\ moved[k] = mark[k] - n /\ mark[k] = n + moved[k]
  BY DEF Marks, Moved
<1>3. ASSUME NEW k \in first..last
      PROVE  moved[k + 1] = moved[k] + Len(frames[k])
  <2>1. mark[k + 1] = mark[k] + Len(frames[k])
    BY DEF Marks
  <2>2. PICK l \in Nat : l = Len(frames[k])
    BY <1>1
  <2>3. PICK a \in Int : a = mark[k] /\ moved[k] = a - n
    BY <1>1, <1>2
  <2>4. PICK b \in Int : b = mark[k + 1] /\ moved[k + 1] = b - n
    BY <1>1, <1>2
  <2>5. b = a + l
    BY <2>1, <2>2, <2>3, <2>4
  <2>6. b - n = a - n + l
    BY <2>5
  <2> QED
    BY <2>2, <2>3, <2>4, <2>6
<1>4. ASSUME NEW k \in first..last, NEW j \in 1..Len(frames[k]), moved[k] + j >= 1
      PROVE  moved[k] + j <= Len(rest) /\ rest[moved[k] + j] = frames[k][j]
  <2>1. PICK i : i = moved[k] + j
    OBVIOUS
  <2>2. k \in Nat /\ j \in Nat
    BY <1>1
  <2>3. PICK a \in Int : a = moved[k] /\ mark[k] = n + a
    BY <1>2, <2>2
  <2>4. i = a + j /\ i \in Int /\ i >= 1
    <3>1. a + j \in Int
      BY <2>2
    <3>2. moved[k] + j = a + j
      BY <2>3
    <3> QED
      BY <1>4, <2>1, <3>1, <3>2
  <2>5. n + a + j = n + i /\ n + a + j >= 1
    BY <2>2, <2>4
  <2>6. i \in Int /\ i >= 1 /\ mark[k] + j = n + i /\ mark[k] + j >= 1
    BY <2>3, <2>4, <2>5
  <2>7. mark[k] + j <= Len(bytes) /\ bytes[mark[k] + j] = frames[k][j]
    BY <2>6 DEF Marks
  <2>8. n + i <= Len(bytes) /\ bytes[n + i] = frames[k][j]
    BY <2>6, <2>7
  <2>9. i \in 1..Len(rest) /\ rest[i] = bytes[n + i]
    <3>1. /\ Len(rest) \in Nat /\ Len(bytes) = n + Len(rest)
          /\ \A l \in 1..Len(rest) : rest[l] = bytes[n + l]
      BY Zenon DEF Rest
    <3>2. i \in 1..Len(rest)
      BY <2>6, <2>8, <3>1
    <3> QED
      BY <3>1, <3>2
  <2> QED
    BY <2>1, <2>8, <2>9
<1>5. ASSUME last = Len(frames) PROVE moved[last + 1] = Len(rest)
  <2>1. mark[last + 1] = Len(bytes)
    BY <1>5 DEF Marks
  <2>2. Len(bytes) = n + Len(rest) /\ Len(rest) \in Nat
    BY DEF Rest
  <2> QED
    BY <1>1, <1>2, <2>1, <2>2
<1>6. \A k \in Nat : moved[k] \in Int
  BY <1>2
<1> QED
  BY <1>3, <1>4, <1>5, <1>6 DEF Marks

\* What is left after n bytes were read.
LEMMA RestIs ==
  ASSUME NEW S, NEW bytes \in Seq(S), NEW n \in Nat, n <= Len(bytes),
         NEW rest, rest = SubSeq(bytes, n + 1, Len(bytes))
  PROVE  rest \in Seq(S) /\ Rest(rest, bytes, n)
<1>1. rest \in Seq(S) /\ Len(rest) = Len(bytes) - n /\ Len(rest) \in Nat
  OBVIOUS
<1>2. \A k \in 1..Len(bytes) - n : rest[k] = bytes[n + k]
  OBVIOUS
<1>3. Len(bytes) = n + Len(rest)
  BY <1>1
<1>4. 1..Len(rest) = 1..Len(bytes) - n
  BY <1>1
<1> QED
  BY <1>1, <1>2, <1>3, <1>4, Zenon DEF Rest

\* What is read from the first of two parts is read from the whole.
LEMMA RestOfParts ==
  ASSUME NEW S, NEW part \in Seq(S), NEW ahead \in Seq(S), NEW n \in Nat,
         NEW rest \in Seq(S), Rest(rest, part, n)
  PROVE  Rest(rest \o ahead, part \o ahead, n)
<1>1. /\ Len(part) \in Nat /\ Len(rest) \in Nat /\ Len(part) = n + Len(rest)
      /\ \A k \in 1..Len(rest) : rest[k] = part[n + k]
  BY DEF Rest
<1>2. PICK bytes, left : bytes = part \o ahead /\ left = rest \o ahead
  OBVIOUS
<1>3. /\ Len(ahead) \in Nat /\ Len(bytes) = Len(part) + Len(ahead)
      /\ \A k \in 1..Len(part) : bytes[k] = part[k]
      /\ \A k \in 1..Len(ahead) : bytes[Len(part) + k] = ahead[k]
  BY <1>2, ConcatElements
<1>4. /\ Len(left) = Len(rest) + Len(ahead)
      /\ \A k \in 1..Len(rest) : left[k] = rest[k]
      /\ \A k \in 1..Len(ahead) : left[Len(rest) + k] = ahead[k]
  BY <1>2, ConcatElements
<1>5. ASSUME NEW k \in 1..Len(left) PROVE left[k] = bytes[n + k]
  <2>1. CASE k \in 1..Len(rest)
    <3>1. n + k \in 1..Len(part)
      BY <1>1, <1>4, <2>1
    <3> QED
      BY <1>1, <1>3, <1>4, <2>1, <3>1
  <2>2. CASE k \notin 1..Len(rest)
    <3>1. PICK i \in 1..Len(ahead) : k = Len(rest) + i
      <4>1. k - Len(rest) \in 1..Len(ahead) /\ k = Len(rest) + (k - Len(rest))
        BY <1>3, <1>4, <2>2
      <4> QED
        BY <4>1
    <3>2. n + k = Len(part) + i
      BY <1>1, <1>4, <3>1
    <3> QED
      BY <1>3, <1>4, <3>1, <3>2
  <2> QED
    BY <2>1, <2>2
<1>6. Len(left) \in Nat /\ Len(bytes) = n + Len(left)
  BY <1>1, <1>3, <1>4
<1> QED
  BY <1>1, <1>2, <1>5, <1>6 DEF Rest

\* A sequence cut in two.
LEMMA CutAndConcat ==
  ASSUME NEW S, NEW part \in Seq(S), NEW ahead \in Seq(S),
         NEW come \in Seq(S), NEW rest \in Seq(S),
         Begins(come, ahead), Rest(rest, ahead, Len(come))
  PROVE  (part \o come) \o rest = part \o ahead
<1>1. PICK n \in Nat : n = Len(come)
  OBVIOUS
<1>2. /\ Len(part) \in Nat /\ Len(rest) \in Nat /\ Len(ahead) = n + Len(rest)
      /\ \A k \in 1..Len(rest) : rest[k] = ahead[n + k]
      /\ \A k \in 1..n : come[k] = ahead[k]
  <2>1. /\ Len(rest) \in Nat /\ Len(ahead) = Len(come) + Len(rest)
        /\ \A k \in 1..Len(rest) : rest[k] = ahead[Len(come) + k]
    BY Zenon DEF Rest
  <2>2. Len(part) \in Nat
    OBVIOUS
  <2>3. \A k \in 1..n : come[k] = ahead[k]
    BY <1>1, Zenon DEF Begins
  <2> QED
    BY <1>1, <2>1, <2>2, <2>3, Zenon
<1>3. PICK first, left, right : /\ first = part \o come
                                /\ left = first \o rest /\ right = part \o ahead
  OBVIOUS
<1>4. /\ first \in Seq(S) /\ Len(first) = Len(part) + n
      /\ \A k \in 1..Len(part) : first[k] = part[k]
      /\ \A k \in 1..n : first[Len(part) + k] = ahead[k]
  <2>1. /\ first \in Seq(S) /\ Len(first) = Len(part) + Len(come)
        /\ \A k \in 1..Len(part) : first[k] = part[k]
        /\ \A k \in 1..Len(come) : first[Len(part) + k] = come[k]
    BY <1>3, ConcatElements
  <2> QED
    BY <1>1, <1>2, <2>1
<1>5. /\ left \in Seq(S) /\ Len(left) = Len(first) + Len(rest)
      /\ \A k \in 1..Len(first) : left[k] = first[k]
      /\ \A k \in 1..Len(rest) : left[Len(first) + k] = rest[k]
  <2>1. first \in Seq(S)
    BY <1>4
  <2> QED
    BY <1>3, <2>1, ConcatElements
<1>6. /\ right \in Seq(S) /\ Len(right) = Len(part) + Len(ahead)
      /\ \A k \in 1..Len(part) : right[k] = part[k]
      /\ \A k \in 1..Len(ahead) : right[Len(part) + k] = ahead[k]
  BY <1>3, ConcatElements
<1>7. Len(left) = Len(right)
  BY <1>1, <1>2, <1>4, <1>5, <1>6
<1>8. ASSUME NEW k \in 1..Len(right) PROVE left[k] = right[k]
  <2>1. CASE k <= Len(part)
    <3>1. k \in 1..Len(part) /\ k \in 1..Len(first)
      BY <1>1, <1>2, <1>4, <2>1
    <3> QED
      BY <1>4, <1>5, <1>6, <3>1
  <2>2. CASE k > Len(part) /\ k <= Len(part) + n
    <3>1. PICK i \in 1..n : k = Len(part) + i
      <4>1. k - Len(part) \in 1..n /\ k = Len(part) + (k - Len(part))
        BY <1>1, <1>2, <1>6, <2>2
      <4> QED
        BY <4>1
    <3>2. i \in 1..Len(ahead) /\ k \in 1..Len(first)
      BY <1>1, <1>2, <1>4, <3>1
    <3>3. left[k] = first[k] /\ first[k] = ahead[i]
      BY <1>4, <1>5, <3>1, <3>2
    <3>4. right[k] = ahead[i]
      BY <1>6, <3>1, <3>2
    <3> QED
      BY <3>3, <3>4
  <2>3. CASE k > Len(part) + n
    <3>1. PICK i \in 1..Len(rest) : k = Len(part) + n + i
      <4>1. /\ k - (Len(part) + n) \in 1..Len(rest)
            /\ k = Len(part) + n + (k - (Len(part) + n))
        BY <1>1, <1>2, <1>6, <2>3
      <4> QED
        BY <4>1
    <3>2. n + i \in 1..Len(ahead) /\ k = Len(part) + (n + i) /\ k = Len(first) + i
      BY <1>1, <1>2, <1>4, <3>1
    <3>3. left[k] = rest[i] /\ rest[i] = ahead[n + i]
      BY <1>1, <1>2, <1>5, <3>1, <3>2
    <3>4. right[k] = ahead[n + i]
      BY <1>6, <3>2
    <3> QED
      BY <3>3, <3>4
  <2> QED
    BY <1>1, <1>2, <1>6, <2>1, <2>2, <2>3
<1>9. left \in Seq(S) /\ right \in Seq(S)
  BY <1>5, <1>6
<1>10. \A k \in 1..Len(left) : left[k] = right[k]
  BY <1>7, <1>8
<1>11. left = right
  BY <1>7, <1>9, <1>10
<1> QED
  BY <1>3, <1>11

\* What is read keeps the marks.
LEMMA MarksAfterRead ==
  ASSUME NEW S, NEW frames \in Seq(Seq(S)), NEW bytes \in Seq(S),
         NEW first \in Nat \ {0}, NEW last \in Nat, last <= Len(frames),
         NEW mark, Marks(mark, bytes, frames, first, last),
         NEW n \in Nat, NEW rest, Rest(rest, bytes, n)
  PROVE  \E new : /\ Marks(new, rest, frames, first, last)
                  /\ \A k \in Nat : new[k] = mark[k] - n
<1>1. PICK new : new = [k \in Nat |-> mark[k] - n]
  OBVIOUS
<1>2. Moved(new, mark, n)
  BY <1>1 DEF Moved
<1>3. Marks(new, rest, frames, first, last)
  BY <1>2, MarksRead
<1> QED
  BY <1>2, <1>3 DEF Moved

\* A frame that follows is written: the marks stay, and it is the last one if the ones
\* before it were all of them.
LEMMA MarksWritten ==
  ASSUME NEW S, NEW frames \in Seq(Seq(S)), NEW bytes \in Seq(S),
         NEW first \in Nat \ {0}, NEW last \in Nat, last <= Len(frames), first <= last + 1,
         NEW mark, Marks(mark, bytes, frames, first, last),
         NEW frame \in Seq(S)
  PROVE  /\ Marks(mark, bytes \o frame, Append(frames, frame), first, last)
         /\ last = Len(frames) =>
              \E new : /\ Marks(new, bytes \o frame, Append(frames, frame), first, last + 1)
                       /\ new[first] = mark[first]
<1> PICK more : more = Append(frames, frame)
  OBVIOUS
<1> PICK longer : longer = bytes \o frame
  OBVIOUS
<1>1. /\ more \in Seq(Seq(S)) /\ Len(frames) \in Nat /\ Len(more) = Len(frames) + 1
      /\ more[Len(frames) + 1] = frame
      /\ \A k \in 1..Len(frames) : more[k] = frames[k] /\ Len(frames[k]) \in Nat
  OBVIOUS
<1>2. /\ longer \in Seq(S)
      /\ Len(bytes) \in Nat /\ Len(frame) \in Nat /\ Len(longer) = Len(bytes) + Len(frame)
      /\ \A k \in 1..Len(bytes) : longer[k] = bytes[k]
      /\ \A k \in 1..Len(frame) : longer[Len(bytes) + k] = frame[k]
  BY ConcatElements
<1>3. \A k \in Nat : mark[k] \in Int
  BY DEF Marks
<1>4. ASSUME NEW k \in first..last
      PROVE  /\ k \in Nat /\ k \in 1..Len(frames) /\ more[k] = frames[k]
             /\ mark[k + 1] = mark[k] + Len(more[k])
             /\ \A j \in 1..Len(more[k]) :
                  mark[k] + j >= 1 => /\ mark[k] + j <= Len(longer)
                                      /\ longer[mark[k] + j] = more[k][j]
  <2>1. k \in Nat /\ k \in 1..Len(frames) /\ more[k] = frames[k]
    BY <1>1
  <2>2. mark[k + 1] = mark[k] + Len(more[k])
    BY <2>1 DEF Marks
  <2>3. ASSUME NEW j \in 1..Len(more[k]), mark[k] + j >= 1
        PROVE  mark[k] + j <= Len(longer) /\ longer[mark[k] + j] = more[k][j]
    <3>1. PICK b \in Int : b = mark[k]
      BY <1>3, <2>1
    <3>2. PICK a \in Int : a = mark[k] + j
      BY <1>1, <2>1, <3>1
    <3>3. a <= Len(bytes) /\ bytes[a] = frames[k][j]
      BY <2>1, <2>3, <3>2 DEF Marks
    <3>4. a \in 1..Len(bytes)
      <4>1. a >= 1
        BY <2>3, <3>2
      <4> QED
        BY <1>2, <3>3, <4>1
    <3>5. longer[a] = bytes[a] /\ a <= Len(longer)
      BY <1>2, <3>4
    <3> QED
      BY <2>1, <3>2, <3>3, <3>5
  <2> QED
    BY <2>1, <2>2, <2>3
<1>5. ~(last = Len(more))
  BY <1>1
<1>6. Marks(mark, longer, more, first, last)
  BY <1>3, <1>4, <1>5 DEF Marks
<1>7. ASSUME last = Len(frames)
      PROVE  \E new : /\ Marks(new, longer, more, first, last + 1)
                      /\ new[first] = mark[first]
  <2>1. PICK new : new = [k \in Nat |-> IF k = last + 2 THEN Len(longer) ELSE mark[k]]
    OBVIOUS
  <2>2. new[last + 2] = Len(longer) /\ \A k \in Nat : k # last + 2 => new[k] = mark[k]
    BY <2>1
  <2>3. mark[last + 1] = Len(bytes)
    BY <1>7 DEF Marks
  <2>4. \A k \in Nat : new[k] \in Int
    <3>1. Len(longer) \in Int
      BY <1>2
    <3> QED
      BY <1>3, <2>2, <3>1
  <2>5. /\ last + 1 \in Nat /\ last + 1 # last + 2
        /\ Len(more) = last + 1 /\ more[last + 1] = frame
        /\ last + 1 + 1 = last + 2
    BY <1>1, <1>7
  <2>6. new[last + 1] = Len(bytes)
    BY <2>2, <2>3, <2>5
  <2>7. ASSUME NEW k \in first..last + 1
        PROVE  /\ new[k + 1] = new[k] + Len(more[k])
               /\ \A j \in 1..Len(more[k]) :
                    new[k] + j >= 1 => /\ new[k] + j <= Len(longer)
                                       /\ longer[new[k] + j] = more[k][j]
    <3>1. CASE k \in first..last
      <4>1. k \in Nat /\ k + 1 \in Nat /\ k # last + 2 /\ k + 1 # last + 2
        BY <3>1
      <4>2. new[k] = mark[k] /\ new[k + 1] = mark[k + 1]
        BY <2>2, <4>1
      <4>3. /\ mark[k + 1] = mark[k] + Len(more[k])
            /\ \A j \in 1..Len(more[k]) :
                 mark[k] + j >= 1 => /\ mark[k] + j <= Len(longer)
                                     /\ longer[mark[k] + j] = more[k][j]
        BY <1>4, <3>1
      <4> QED
        BY <4>2, <4>3
    <3>2. CASE k = last + 1
      <4>1. new[k + 1] = Len(longer) /\ new[k] = Len(bytes) /\ more[k] = frame
        BY <2>2, <2>5, <2>6, <3>2
      <4>2. ASSUME NEW j \in 1..Len(frame)
            PROVE  Len(bytes) + j <= Len(longer) /\ longer[Len(bytes) + j] = frame[j]
        BY <1>2
      <4>3. Len(longer) = Len(bytes) + Len(frame)
        BY <1>2
      <4> QED
        BY <4>1, <4>2, <4>3, Zenon
    <3>3. k \in first..last \/ k = last + 1
      OBVIOUS
    <3> QED
      BY <3>1, <3>2, <3>3
  <2>8. new[last + 1 + 1] = Len(longer)
    BY <2>2, <2>5
  <2>9. Marks(new, longer, more, first, last + 1)
    BY <2>4, <2>7, <2>8 DEF Marks
  <2>10. first \in Nat /\ first # last + 2
    OBVIOUS
  <2> QED
    BY <2>2, <2>9, <2>10
<1> QED
  BY <1>6, <1>7, Zenon

=============================================================================
