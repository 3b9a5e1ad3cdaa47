--------------------------- MODULE FramingProofs ---------------------------
(***************************************************************************)
(* Proof that readData stays inside its buffer, for every size of header,  *)
(* buffer and message, and whatever the bytes received are.                *)
(***************************************************************************)
EXTENDS Framing, SequenceTheorems, WellFoundedInduction, TLAPS

IInv == TypeOK /\ CopyInBounds

LEMMA ConstantFacts ==
    /\ Header \in Nat /\ Header >= 2
    /\ BufSize \in Nat /\ BufSize >= Header
    /\ \A m \in Messages : m \in Seq(Nat)
    /\ \A j \in Junk : j \in Nat
    /\ MaxSent \in Nat
BY FramingAssumption

LEMMA InitInv == Init => IInv
<1> SUFFICES ASSUME Init PROVE IInv
  OBVIOUS
<1>1. rx_buf \in [Addresses -> Nat]
  BY ConstantFacts DEF Init
<1>2. /\ stream \in Seq(Nat) /\ sent \in Seq(Messages) /\ dispatched \in Seq(Seq(Nat))
      /\ leftover_data_size = 0
      /\ base \in Nat /\ total \in Nat /\ current_location \in Nat /\ left \in Nat
  BY DEF Init
<1>3. pc = "idle" /\ cut = FALSE /\ torn = FALSE
  BY DEF Init
<1>4. TypeOK
  BY <1>1, <1>2, <1>3 DEF TypeOK
<1>5. CopyInBounds
  BY <1>2, <1>3, ConstantFacts DEF CopyInBounds
<1> QED
  BY <1>4, <1>5 DEF IInv

(* A cell read while parsing is a natural number, wherever it is read.     *)
LEMMA CellType ==
    ASSUME TypeOK, NEW i \in Nat, NEW junk \in Junk
    PROVE  Cell(i, junk) \in Nat
<1>1. base + current_location + i \in Nat
  BY DEF TypeOK
<1>2. base + current_location + i < BufSize => base + current_location + i \in Addresses
  BY <1>1, ConstantFacts DEF Addresses
<1> QED
  BY <1>2, ConstantFacts DEF Cell, TypeOK

(* Every outcome of the memcpy is a buffer of cells.                       *)
LEMMA CopiesType ==
    ASSUME TypeOK, NEW from \in Nat, NEW n \in Nat, from + n <= BufSize,
           NEW copy \in Copies(from, n)
    PROVE  copy \in [Addresses -> Nat]
<1>1. CASE copy = Moved(from, n)
  <2>1. \A a \in Addresses : a < n => from + a \in Addresses
    BY ConstantFacts DEF Addresses
  <2> QED
    BY <1>1, <2>1 DEF Moved, TypeOK
<1>2. CASE from \in 1 .. (n - 1) /\ copy = MovedBackward(from, n)
  <2>1. \A a \in Addresses : a < n => n + ((a - n) % from) \in Addresses
    <3> TAKE a \in Addresses
    <3>1. (a - n) % from \in 0 .. (from - 1)
      BY <1>2 DEF Addresses
    <3> QED
      BY <1>2, <3>1, ConstantFacts DEF Addresses
  <2> QED
    BY <1>2, <2>1 DEF MovedBackward, TypeOK
<1> QED
  BY <1>1, <1>2 DEF Copies

LEMMA PeerInv ==
    ASSUME IInv, \/ \E m \in Messages : Send(m)
                 \/ \E kept \in 0 .. Len(stream) : PeerGone(kept)
    PROVE  IInv'
<1> USE DEF IInv
<1>1. ASSUME NEW m \in Messages, Send(m)
      PROVE  IInv'
  <2>1. stream' \in Seq(Nat) /\ sent' \in Seq(Messages)
    BY <1>1, ConstantFacts DEF Send, TypeOK
  <2> QED
    BY <1>1, <2>1 DEF Send, parseVars, TypeOK, CopyInBounds
<1>2. ASSUME NEW kept \in 0 .. Len(stream), PeerGone(kept)
      PROVE  IInv'
  <2>1. stream' \in Seq(Nat) /\ cut' = TRUE
    BY <1>2 DEF PeerGone, TypeOK
  <2> QED
    BY <1>2, <2>1 DEF PeerGone, parseVars, TypeOK, CopyInBounds
<1> QED
  BY <1>1, <1>2

(* A read of n cells after the leftover fills at most the buffer.          *)
LEMMA ReadInv ==
    ASSUME IInv, NEW n \in 0 .. Len(stream), Read(n)
    PROVE  IInv'
<1> USE DEF IInv
<1>1. /\ n \in Nat /\ n <= Len(stream) /\ leftover_data_size \in Nat
      /\ stream \in Seq(Nat) /\ leftover_data_size + n <= BufSize
  BY ConstantFacts DEF Read, ReadSpace, TypeOK
<1>2. rx_buf' \in [Addresses -> Nat]
  <2>1. \A a \in leftover_data_size .. (leftover_data_size + n - 1) :
           stream[a - leftover_data_size + 1] \in Nat
    BY <1>1
  <2> QED
    BY <2>1 DEF Read, TypeOK
<1>3. stream' \in Seq(Nat)
  BY <1>1 DEF Read
<1>4. torn' \in BOOLEAN
  BY <1>1, Zenon DEF Read, TypeOK
<1>5. /\ pc' = "parse" /\ base' \in Nat /\ current_location' = 0
      /\ total' \in Nat /\ left' = total' /\ total' <= BufSize
      /\ UNCHANGED <<sent, cut, leftover_data_size, dispatched>>
  BY <1>1 DEF Read
<1>6. TypeOK'
  BY <1>2, <1>3, <1>4, <1>5 DEF TypeOK
<1>7. CopyInBounds'
  <2>1. leftover_data_size' <= BufSize
    BY <1>5 DEF CopyInBounds
  <2>2. left' <= total' /\ current_location' = total' - left'
    BY <1>1 DEF Read
  <2> QED
    BY <1>5, <2>1, <2>2 DEF CopyInBounds
<1> QED
  BY <1>6, <1>7

(* A message that is skipped or handled is no longer than what is left.    *)
LEMMA AdvanceInv ==
    ASSUME IInv, pc = "parse", NEW len \in Nat, IsWhole(len), Advanced(len),
           dispatched' \in Seq(Seq(Nat))
    PROVE  IInv'
<1> USE DEF IInv
<1>1. /\ left' = left - len /\ current_location' = current_location + len
      /\ len <= left
  BY DEF Advanced, Advance, IsWhole, TypeOK
<1>2. UNCHANGED <<stream, sent, cut, rx_buf, leftover_data_size, pc, base, total, torn>>
  BY DEF Advanced, peerVars
<1>3. TypeOK'
  BY <1>1, <1>2 DEF TypeOK
<1>4. CopyInBounds'
  BY <1>1, <1>2 DEF CopyInBounds, TypeOK
<1> QED
  BY <1>3, <1>4

LEMMA FinishInv ==
    ASSUME IInv, pc = "parse", NEW len \in Nat, Finish(len)
    PROVE  IInv'
<1> USE DEF IInv
<1>1. /\ Remains(len) \in Nat /\ Remains(len) <= total
      /\ total - Remains(len) \in Nat
      /\ (total - Remains(len)) + Remains(len) <= BufSize
  BY ConstantFacts DEF Remains, TypeOK, CopyInBounds
<1>2. rx_buf' \in [Addresses -> Nat]
  BY <1>1, CopiesType DEF Finish
<1>3. /\ leftover_data_size' = Remains(len) /\ pc' = "idle"
      /\ base' = 0 /\ total' = 0 /\ current_location' = 0 /\ left' = 0
      /\ UNCHANGED <<stream, sent, cut, dispatched, torn>>
  BY DEF Finish, peerVars
<1>4. TypeOK'
  BY <1>1, <1>2, <1>3 DEF TypeOK
<1>5. CopyInBounds'
  BY <1>1, <1>3, ConstantFacts DEF CopyInBounds, TypeOK
<1> QED
  BY <1>4, <1>5

LEMMA ParseInv ==
    ASSUME IInv, NEW junk \in Junk, ProcessMsg(junk)
    PROVE  IInv'
<1> DEFINE len  == Cell(0, junk)
           type == Cell(1, junk)
<1>1. len \in Nat /\ type \in Nat /\ pc = "parse"
  BY CellType DEF IInv, ProcessMsg
<1>2. CASE EmptyMessage(len)
  <2>1. IsWhole(len) /\ Advanced(len) /\ dispatched' \in Seq(Seq(Nat))
    BY <1>2 DEF EmptyMessage, IInv, TypeOK
  <2>2. PICK n \in Nat : n = len
    BY <1>1
  <2> QED
    BY <1>1, <2>1, <2>2, AdvanceInv
<1>3. CASE Dispatch(len, type, junk)
  <2>1. [i \in 1 .. len |-> Cell(i - 1, junk)] \in Seq(Nat)
    <3>1. \A i \in 1 .. len : Cell(i - 1, junk) \in Nat
      BY <1>1, CellType DEF IInv
    <3> QED
      BY <1>1, <3>1
  <2>2. dispatched' \in Seq(Seq(Nat))
    BY <1>3, <2>1 DEF Dispatch, IInv, TypeOK
  <2>3. IsWhole(len) /\ Advanced(len)
    BY <1>3 DEF Dispatch
  <2> QED
    BY <1>1, <2>2, <2>3, AdvanceInv
<1>4. CASE OffByOne(len, type)
  BY <1>4 DEF OffByOne, IInv, TypeOK, CopyInBounds, peerVars, parseVars
<1>5. CASE Finish(len)
  BY <1>1, <1>5, FinishInv
<1> QED
  BY <1>2, <1>3, <1>4, <1>5 DEF ProcessMsg

LEMMA NextInv == IInv /\ [Next]_vars => IInv'
<1> SUFFICES ASSUME IInv, [Next]_vars PROVE IInv'
  OBVIOUS
<1>1. CASE UNCHANGED vars
  BY <1>1 DEF vars, peerVars, parseVars, IInv, TypeOK, CopyInBounds
<1>2. CASE AllocAbort
  BY <1>2 DEF AllocAbort, IInv, TypeOK, CopyInBounds, peerVars, parseVars
<1>3. CASE Eof
  BY <1>3, ConstantFacts DEF Eof, IInv, TypeOK, CopyInBounds, peerVars, parseVars
<1>4. CASE ReadSome \/ ReadNothing
  <2>1. \E n \in 0 .. Len(stream) : Read(n)
    BY <1>4 DEF ReadSome, ReadNothing, IInv, TypeOK
  <2> QED
    BY <2>1, ReadInv
<1>5. CASE Parse
  BY <1>5, ParseInv DEF Parse
<1> QED
  BY <1>1, <1>2, <1>3, <1>4, <1>5, PeerInv DEF Next

(* Every variable of the receive path keeps its type.                      *)
THEOREM TypeCorrect == Spec => []TypeOK
<1>1. Init => IInv
  BY InitInv
<1>2. IInv /\ [Next]_vars => IInv'
  BY NextInv
<1>3. IInv => TypeOK
  BY DEF IInv
<1> QED
  BY <1>1, <1>2, <1>3, PTL DEF Spec

(* process_msg never says more is left than there is, so readData copies   *)
(* inside the buffer and allocBuffer never offers a negative space,        *)
(* whatever the peer sends and wherever a message was torn.                *)
THEOREM CopyStaysInBounds == Spec => []CopyInBounds
<1>1. Init => IInv
  BY InitInv
<1>2. IInv /\ [Next]_vars => IInv'
  BY NextInv
<1>3. IInv => CopyInBounds
  BY DEF IInv
<1> QED
  BY <1>1, <1>2, <1>3, PTL DEF Spec

-----------------------------------------------------------------------------
(* What the recursive functions are: least counterexamples.                *)

LEMMA SmallestNumber == ASSUME NEW T \in SUBSET Nat, T # {} PROVE \E x \in T : \A y \in T : x <= y
<1> DEFINE R == {ss \in Nat \X Nat : ss[1] < ss[2]}
<1>1. IsWellFoundedOn(R, Nat)
  BY NatLessThanWellFounded, Zenon DEF OpToRel
<1> HIDE DEF R
<1>2. \E x \in T : \A y \in T : ~(<<y, x>> \in R)
  BY <1>1, WFMin
<1>3. \A x, y \in Nat : y < x => <<y, x>> \in R
  BY DEF R
<1>4. \A x, y \in Nat : y < x \/ x <= y
  OBVIOUS
<1> QED
  BY <1>2, <1>3, <1>4

\* The smallest of the numbers up to n that are not in T.
LEMMA FirstOutside ==
    ASSUME NEW n \in Nat, NEW T, 0 \in T,
           \A k \in 0 .. n : k # 0 /\ k - 1 \in T => k \in T
    PROVE  \A k \in 0 .. n : k \in T
<1> DEFINE U == {k \in 0 .. n : k \notin T}
<1> SUFFICES ASSUME U # {} PROVE FALSE
  OBVIOUS
<1>1. U \in SUBSET Nat
  OBVIOUS
<1> HIDE DEF U
<1>2. PICK x \in U : \A y \in U : x <= y
  BY <1>1, SmallestNumber
<1>3. x \in 0 .. n /\ x \notin T /\ x # 0
  BY <1>2 DEF U
<1>4. x - 1 \in 0 .. n /\ ~(x <= x - 1)
  BY <1>3
<1>5. x - 1 \in T
  BY <1>2, <1>4 DEF U
<1> QED
  BY <1>3, <1>5

SizeUpTo(s, n, f) == f = [k \in 0 .. n |-> IF k = 0 THEN 0 ELSE f[k - 1] + Len(s[k])]

LEMMA SizeIs ==
    ASSUME NEW s \in Seq(Seq(Nat))
    PROVE  /\ Size(s)[0] = 0
           /\ \A k \in 1 .. Len(s) : Size(s)[k] = Size(s)[k - 1] + Len(s[k])
<1> DEFINE N == Len(s)
           T == {n \in 0 .. N : \E f : SizeUpTo(s, n, f)}
<1>1. N \in Nat
  BY LenProperties
<1>2. 0 \in T
  <2>1. SizeUpTo(s, 0, [k \in 0 .. 0 |-> 0])
    BY DEF SizeUpTo
  <2> QED
    BY <1>1, <2>1
<1>3. ASSUME NEW n \in 0 .. N, n # 0, n - 1 \in T PROVE n \in T
  <2>1. PICK f : SizeUpTo(s, n - 1, f)
    BY <1>3
  <2> DEFINE g == [k \in 0 .. n |-> IF k = n THEN f[n - 1] + Len(s[n]) ELSE f[k]]
  <2>2. \A k \in 0 .. n - 1 : f[k] = IF k = 0 THEN 0 ELSE f[k - 1] + Len(s[k])
    BY <2>1 DEF SizeUpTo
  <2>3. \A k \in 0 .. n : k = n \/ k \in 0 .. n - 1
    BY <1>1
  <2>4. \A k \in 0 .. n : k # 0 => k - 1 \in 0 .. n /\ k - 1 # n
    BY <1>1
  <2>5. \A k \in 0 .. n : g[k] = IF k = 0 THEN 0 ELSE g[k - 1] + Len(s[k])
    <3> TAKE k \in 0 .. n
    <3>1. CASE k = n
      <4>1. g[k] = f[n - 1] + Len(s[n])
        BY <3>1
      <4>2. g[n - 1] = f[n - 1]
        BY <1>3, <2>4, <3>1
      <4> QED
        BY <1>3, <3>1, <4>1, <4>2
    <3>2. CASE k # n
      <4>1. k \in 0 .. n - 1 /\ g[k] = f[k]
        BY <2>3, <3>2
      <4>2. k # 0 => g[k - 1] = f[k - 1]
        BY <2>4
      <4> QED
        BY <2>2, <4>1, <4>2
    <3> QED
      BY <3>1, <3>2
  <2>6. SizeUpTo(s, n, g)
    <3>1. g = [k \in 0 .. n |-> g[k]]
      BY Zenon
    <3> HIDE DEF g
    <3> QED
      BY <2>5, <3>1 DEF SizeUpTo
  <2> HIDE DEF g
  <2> QED
    BY <2>6
<1>4. N \in T
  <2>1. N \in 0 .. N
    BY <1>1
  <2> HIDE DEF N, T
  <2> QED
    BY <1>1, <1>2, <1>3, <2>1, FirstOutside
<1>5. \E f : f = [k \in 0 .. Len(s) |-> IF k = 0 THEN 0 ELSE f[k - 1] + Len(s[k])]
  BY <1>4 DEF SizeUpTo
<1>6. Size(s) = [k \in 0 .. Len(s) |-> IF k = 0 THEN 0 ELSE Size(s)[k - 1] + Len(s[k])]
  BY <1>5 DEF Size
<1> DEFINE z == Size(s)
<1> HIDE DEF z
<1>7. z = [k \in 0 .. Len(s) |-> IF k = 0 THEN 0 ELSE z[k - 1] + Len(s[k])]
  BY <1>6 DEF z
<1>8. z[0] = 0 /\ \A k \in 1 .. Len(s) : z[k] = z[k - 1] + Len(s[k])
  <2>1. \A k \in 0 .. Len(s) : z[k] = IF k = 0 THEN 0 ELSE z[k - 1] + Len(s[k])
    BY <1>7
  <2>2. 0 \in 0 .. Len(s) /\ \A k \in 1 .. Len(s) : k \in 0 .. Len(s) /\ k # 0
    BY <1>1
  <2> QED
    BY <2>1, <2>2
<1> QED
  BY <1>8 DEF z

Also(msgs, m) == IF Len(m) > Header THEN Append(msgs, m) ELSE msgs

HandledUpTo(s, n, f) == f = [k \in 0 .. n |-> IF k = 0 THEN << >> ELSE Also(f[k - 1], s[k])]

LEMMA HandledIs ==
    ASSUME NEW s \in Seq(Seq(Nat))
    PROVE  /\ Handled(s)[0] = << >>
           /\ \A k \in 1 .. Len(s) : Handled(s)[k] = Also(Handled(s)[k - 1], s[k])
<1> DEFINE N == Len(s)
           T == {n \in 0 .. N : \E f : HandledUpTo(s, n, f)}
<1>1. N \in Nat
  BY LenProperties
<1>2. 0 \in T
  <2>1. HandledUpTo(s, 0, [k \in 0 .. 0 |-> << >>])
    BY DEF HandledUpTo
  <2> QED
    BY <1>1, <2>1
<1>3. ASSUME NEW n \in 0 .. N, n # 0, n - 1 \in T PROVE n \in T
  <2>1. PICK f : HandledUpTo(s, n - 1, f)
    BY <1>3
  <2> DEFINE g == [k \in 0 .. n |-> IF k = n THEN Also(f[n - 1], s[n]) ELSE f[k]]
  <2>2. \A k \in 0 .. n - 1 : f[k] = IF k = 0 THEN << >> ELSE Also(f[k - 1], s[k])
    BY <2>1 DEF HandledUpTo
  <2>3. \A k \in 0 .. n : k = n \/ k \in 0 .. n - 1
    BY <1>1
  <2>4. \A k \in 0 .. n : k # 0 => k - 1 \in 0 .. n /\ k - 1 # n
    BY <1>1
  <2>5. \A k \in 0 .. n : g[k] = IF k = 0 THEN << >> ELSE Also(g[k - 1], s[k])
    <3> TAKE k \in 0 .. n
    <3>1. CASE k = n
      <4>1. g[k] = Also(f[n - 1], s[n])
        BY <3>1
      <4>2. g[n - 1] = f[n - 1]
        BY <1>3, <2>4, <3>1
      <4> QED
        BY <1>3, <3>1, <4>1, <4>2
    <3>2. CASE k # n
      <4>1. k \in 0 .. n - 1 /\ g[k] = f[k]
        BY <2>3, <3>2
      <4>2. k # 0 => g[k - 1] = f[k - 1]
        BY <2>4
      <4> QED
        BY <2>2, <4>1, <4>2
    <3> QED
      BY <3>1, <3>2
  <2>6. HandledUpTo(s, n, g)
    <3>1. g = [k \in 0 .. n |-> g[k]]
      BY Zenon
    <3> HIDE DEF g
    <3> QED
      BY <2>5, <3>1 DEF HandledUpTo
  <2> HIDE DEF g
  <2> QED
    BY <2>6
<1>4. N \in T
  <2>1. N \in 0 .. N
    BY <1>1
  <2> HIDE DEF N, T
  <2> QED
    BY <1>1, <1>2, <1>3, <2>1, FirstOutside
<1>5. \E f : f = [k \in 0 .. Len(s) |->
                    IF k = 0 THEN << >>
                    ELSE IF Len(s[k]) > Header THEN Append(f[k - 1], s[k]) ELSE f[k - 1]]
  BY <1>4 DEF HandledUpTo, Also
<1>6. Handled(s) = [k \in 0 .. Len(s) |->
                      IF k = 0 THEN << >>
                      ELSE IF Len(s[k]) > Header THEN Append(Handled(s)[k - 1], s[k])
                                                 ELSE Handled(s)[k - 1]]
  BY <1>5 DEF Handled
<1> DEFINE z == Handled(s)
<1> HIDE DEF z
<1>7. z = [k \in 0 .. Len(s) |-> IF k = 0 THEN << >> ELSE Also(z[k - 1], s[k])]
  BY <1>6 DEF z, Also
<1>8. z[0] = << >> /\ \A k \in 1 .. Len(s) : z[k] = Also(z[k - 1], s[k])
  <2>1. \A k \in 0 .. Len(s) : z[k] = IF k = 0 THEN << >> ELSE Also(z[k - 1], s[k])
    BY <1>7
  <2>2. 0 \in 0 .. Len(s) /\ \A k \in 1 .. Len(s) : k \in 0 .. Len(s) /\ k # 0
    BY <1>1
  <2> QED
    BY <2>1, <2>2
<1> QED
  BY <1>8 DEF z

LEMMA SizeTyped ==
    ASSUME NEW s \in Seq(Seq(Nat)) PROVE \A k \in 0 .. Len(s) : Size(s)[k] \in Nat
<1> DEFINE T == {k \in 0 .. Len(s) : Size(s)[k] \in Nat}
<1>1. Len(s) \in Nat
  BY LenProperties
<1>2. 0 \in T
  BY <1>1, SizeIs
<1>3. ASSUME NEW k \in 0 .. Len(s), k # 0, k - 1 \in T PROVE k \in T
  <2>1. k \in 1 .. Len(s)
    BY <1>1, <1>3
  <2>2. Len(s[k]) \in Nat
    <3>1. s[k] \in Seq(Nat)
      BY <2>1, ElementOfSeq
    <3> QED
      BY <3>1, LenProperties
  <2>3. Size(s)[k] = Size(s)[k - 1] + Len(s[k])
    BY <2>1, SizeIs
  <2> QED
    BY <1>3, <2>2, <2>3
<1> HIDE DEF T
<1>4. \A k \in 0 .. Len(s) : k \in T
  BY <1>1, <1>2, <1>3, FirstOutside
<1> QED
  BY <1>4 DEF T

LEMMA SizeGrows ==
    ASSUME NEW s \in Seq(Seq(Nat)), NEW j \in 0 .. Len(s)
    PROVE  \A k \in 0 .. Len(s) : j <= k => Size(s)[j] <= Size(s)[k]
<1> DEFINE T == {k \in 0 .. Len(s) : j <= k => Size(s)[j] <= Size(s)[k]}
<1>1. Len(s) \in Nat /\ Size(s)[j] \in Nat
  BY LenProperties, SizeTyped
<1>2. 0 \in T
  BY <1>1
<1>3. ASSUME NEW k \in 0 .. Len(s), k # 0, k - 1 \in T PROVE k \in T
  <2>1. k \in 1 .. Len(s) /\ k - 1 \in 0 .. Len(s)
    BY <1>1, <1>3
  <2>2. Len(s[k]) \in Nat
    <3>1. s[k] \in Seq(Nat)
      BY <2>1, ElementOfSeq
    <3> QED
      BY <3>1, LenProperties
  <2>3. Size(s)[k] = Size(s)[k - 1] + Len(s[k]) /\ Size(s)[k - 1] \in Nat
    BY <2>1, SizeIs, SizeTyped
  <2>4. j <= k => j = k \/ j <= k - 1
    BY <1>1
  <2> QED
    BY <1>1, <1>3, <2>2, <2>3, <2>4
<1> HIDE DEF T
<1>4. \A k \in 0 .. Len(s) : k \in T
  BY <1>1, <1>2, <1>3, FirstOutside
<1> QED
  BY <1>4 DEF T

(* One more message changes nothing about those before it. *)
LEMMA OneMoreMessage ==
    ASSUME NEW s \in Seq(Seq(Nat)), NEW m \in Seq(Nat)
    PROVE  LET t == Append(s, m)
           IN  /\ t \in Seq(Seq(Nat)) /\ Len(s) \in Nat /\ Len(t) = Len(s) + 1
               /\ \A k \in 1 .. Len(s) : t[k] = s[k]
               /\ t[Len(s) + 1] = m
               /\ \A k \in 0 .. Len(s) : Size(t)[k] = Size(s)[k] /\ Handled(t)[k] = Handled(s)[k]
               /\ Size(t)[Len(s) + 1] = Size(s)[Len(s)] + Len(m)
<1> DEFINE t == Append(s, m)
           T == {k \in 0 .. Len(s) : Size(t)[k] = Size(s)[k] /\ Handled(t)[k] = Handled(s)[k]}
<1>1. /\ t \in Seq(Seq(Nat)) /\ Len(s) \in Nat /\ Len(t) = Len(s) + 1
      /\ \A k \in 1 .. Len(s) : t[k] = s[k]
      /\ t[Len(s) + 1] = m
  BY AppendProperties, LenProperties
<1> HIDE DEF t
<1>2. 0 \in T
  <2>1. 0 \in 0 .. Len(s)
    BY <1>1
  <2> QED
    BY <1>1, <2>1, SizeIs, HandledIs
<1>3. ASSUME NEW k \in 0 .. Len(s), k # 0, k - 1 \in T PROVE k \in T
  <2>1. k \in 1 .. Len(s) /\ k \in 1 .. Len(t)
    BY <1>1, <1>3
  <2>2. /\ Size(s)[k] = Size(s)[k - 1] + Len(s[k])
        /\ Handled(s)[k] = Also(Handled(s)[k - 1], s[k])
    BY <2>1, SizeIs, HandledIs
  <2>3. /\ Size(t)[k] = Size(t)[k - 1] + Len(t[k])
        /\ Handled(t)[k] = Also(Handled(t)[k - 1], t[k])
    BY <1>1, <2>1, SizeIs, HandledIs
  <2>4. t[k] = s[k] /\ Size(t)[k - 1] = Size(s)[k - 1] /\ Handled(t)[k - 1] = Handled(s)[k - 1]
    BY <1>1, <1>3, <2>1
  <2>5. Size(t)[k] = Size(s)[k] /\ Handled(t)[k] = Handled(s)[k]
    BY <2>2, <2>3, <2>4, Zenon
  <2> QED
    BY <2>5
<1>4. \A k \in 0 .. Len(s) : Size(t)[k] = Size(s)[k] /\ Handled(t)[k] = Handled(s)[k]
  <2>1. \A k \in 0 .. Len(s) : k \in T
    <3> HIDE DEF T
    <3> QED
      BY <1>1, <1>2, <1>3, FirstOutside
  <2> QED
    BY <2>1
<1>5. Size(t)[Len(s) + 1] = Size(s)[Len(s)] + Len(m)
  <2>1. Len(s) + 1 \in 1 .. Len(t) /\ (Len(s) + 1) - 1 = Len(s) /\ Len(s) \in 0 .. Len(s)
    BY <1>1
  <2>2. Size(t)[Len(s) + 1] = Size(t)[(Len(s) + 1) - 1] + Len(t[Len(s) + 1])
    BY <1>1, <2>1, SizeIs
  <2> QED
    BY <1>1, <1>4, <2>1, <2>2
<1> QED
  BY <1>1, <1>4, <1>5 DEF t

-----------------------------------------------------------------------------
(* While no read begins after a partial message.                           *)

(* Where cell i of message j is, if the first k messages are handled: the  *)
(* p-th of the cells that are not, in the buffer or to be read.            *)
Placed(k) ==
    \A j \in 1 .. Len(sent) : \A i \in 1 .. Len(sent[j]) :
        LET p == Size(sent)[j - 1] + i - Size(sent)[k]
        IN  /\ p \in 1 .. Unhandled => rx_buf[current_location + (p - 1)] = sent[j][i]
            /\ p \in Unhandled + 1 .. Unhandled + Len(stream) =>
                  stream[p - Unhandled] = sent[j][i]

(* The cells that are not handled; the end of the peer takes some away. *)
Accounted(k) ==
    LET rest == Size(sent)[k] + Unhandled + Len(stream)
    IN  /\ rest <= Size(sent)[Len(sent)]
        /\ ~cut => Size(sent)[Len(sent)] = rest

Framed(k) ==
    /\ dispatched = Handled(sent)[k]
    /\ pc \in {"idle", "parse"} => Accounted(k)
    /\ pc = "parse" \/ (pc = "idle" /\ leftover_data_size = 0) => Placed(k)

(* What holds until a read begins after a partial message. *)
Aligned ==
    /\ pc # "aborted"
    /\ pc = "parse" => base = 0
    /\ pc = "idle" => leftover_data_size < BufSize
    /\ \E k \in 0 .. Len(sent) : Framed(k)

FInv == IInv /\ (~torn => Aligned)

LEMMA SentTyped ==
    ASSUME TypeOK
    PROVE  /\ sent \in Seq(Seq(Nat)) /\ Len(sent) \in Nat
           /\ stream \in Seq(Nat) /\ Len(stream) \in Nat
           /\ \A j \in 1 .. Len(sent) : /\ sent[j] \in Messages /\ sent[j] \in Seq(Nat)
                                        /\ Len(sent[j]) \in Nat
           /\ \A k \in 0 .. Len(sent) : Size(sent)[k] \in Nat
           /\ \A j \in 1 .. Len(sent) : Size(sent)[j] = Size(sent)[j - 1] + Len(sent[j])
           /\ Unhandled \in Nat
<1>1. sent \in Seq(Messages) /\ stream \in Seq(Nat) /\ Messages \subseteq Seq(Nat)
  BY ConstantFacts DEF TypeOK
<1>2. sent \in Seq(Seq(Nat)) /\ Len(sent) \in Nat /\ Len(stream) \in Nat
  BY <1>1, SeqMonotonic, LenProperties
<1>3. \A j \in 1 .. Len(sent) : sent[j] \in Messages /\ sent[j] \in Seq(Nat)
  BY <1>1, ElementOfSeq
<1>4. \A j \in 1 .. Len(sent) : Len(sent[j]) \in Nat
  BY <1>3, LenProperties
<1>5. \A k \in 0 .. Len(sent) : Size(sent)[k] \in Nat
  BY <1>2, SizeTyped
<1>6. \A j \in 1 .. Len(sent) : Size(sent)[j] = Size(sent)[j - 1] + Len(sent[j])
  BY <1>2, SizeIs
<1>7. Unhandled \in Nat
  BY DEF Unhandled, TypeOK
<1> QED
  BY <1>1, <1>2, <1>3, <1>4, <1>5, <1>6, <1>7

LEMMA Distance ==
    \A a, i, c, u, l, n \in Nat : a + i <= n /\ n = c + u + l => a + i - c \in Int /\ a + i - c <= u + l
OBVIOUS

LEMMA InitAligned == Init => FInv
<1> SUFFICES ASSUME Init PROVE FInv
  OBVIOUS
<1>1. IInv
  BY InitInv
<1>2. /\ stream = << >> /\ sent = << >> /\ cut = FALSE /\ leftover_data_size = 0
      /\ pc = "idle" /\ dispatched = << >>
  BY DEF Init
<1>3. << >> \in Seq(Seq(Nat)) /\ Len(<< >>) = 0
  BY EmptySeq
<1>4. Size(sent)[0] = 0 /\ Handled(sent)[0] = << >>
  BY <1>2, <1>3, SizeIs, HandledIs
<1>5. Unhandled = 0
  BY <1>2 DEF Unhandled
<1>6. 0 < BufSize /\ 0 \in 0 .. 0 /\ 1 .. 0 = {}
  BY ConstantFacts
<1>7. Accounted(0)
  BY <1>2, <1>3, <1>4, <1>5 DEF Accounted
<1>8. Placed(0)
  BY <1>2, <1>3, <1>6 DEF Placed
<1>9. Framed(0)
  BY <1>2, <1>4, <1>7, <1>8 DEF Framed
<1> QED
  BY <1>1, <1>2, <1>3, <1>6, <1>9 DEF FInv, Aligned

LEMMA SendAligned ==
    ASSUME IInv, Aligned, NEW m \in Messages, Send(m)
    PROVE  Aligned'
<1> DEFINE z == Size(sent)
           N == Len(sent)
           U == Unhandled
           L == Len(stream)
<1>1. /\ ~cut /\ sent' = Append(sent, m) /\ stream' = stream \o m
      /\ UNCHANGED <<cut, rx_buf, leftover_data_size, pc, base, total, current_location, left,
                     dispatched, torn>>
  BY DEF Send, parseVars
<1>2. PICK k \in 0 .. N : Framed(k)
  BY DEF Aligned
<1>3. /\ sent \in Seq(Seq(Nat)) /\ N \in Nat /\ stream \in Seq(Nat) /\ L \in Nat
      /\ (\A j \in 0 .. N : z[j] \in Nat) /\ U \in Nat
      /\ \A j \in 1 .. N : z[j] = z[j - 1] + Len(sent[j]) /\ Len(sent[j]) \in Nat
  BY SentTyped DEF IInv
<1>4. m \in Seq(Nat) /\ Len(m) \in Nat
  BY ConstantFacts, LenProperties
<1>5. /\ Len(sent') = N + 1
      /\ \A j \in 1 .. N : sent'[j] = sent[j]
      /\ sent'[N + 1] = m
      /\ \A j \in 0 .. N : z'[j] = z[j] /\ Handled(sent')[j] = Handled(sent)[j]
      /\ z'[N + 1] = z[N] + Len(m)
  <2>1. LET t == Append(sent, m)
        IN  /\ Len(t) = N + 1
            /\ \A j \in 1 .. N : t[j] = sent[j]
            /\ t[N + 1] = m
            /\ \A j \in 0 .. N : Size(t)[j] = Size(sent)[j] /\ Handled(t)[j] = Handled(sent)[j]
            /\ Size(t)[N + 1] = Size(sent)[N] + Len(m)
    BY <1>3, <1>4, OneMoreMessage
  <2> QED
    BY <1>1, <2>1, Zenon
<1>6. /\ Len(stream') = L + Len(m)
      /\ \A i \in 1 .. L : stream'[i] = stream[i]
      /\ \A i \in 1 .. Len(m) : stream'[L + i] = m[i]
  <2>1. /\ Len(stream \o m) = L + Len(m)
        /\ \A i \in 1 .. L + Len(m) : (stream \o m)[i] = IF i <= L THEN stream[i] ELSE m[i - L]
    BY <1>3, <1>4, ConcatProperties
  <2> DEFINE c == stream \o m
  <2> HIDE DEF c, L
  <2>2. c = stream'
    BY <1>1 DEF c
  <2>3. \A i \in 1 .. L : i \in 1 .. L + Len(m) /\ i <= L
    BY <1>3, <1>4
  <2>4. \A i \in 1 .. Len(m) : L + i \in 1 .. L + Len(m) /\ ~(L + i <= L) /\ (L + i) - L = i
    BY <1>3, <1>4
  <2>5. Len(c) = L + Len(m) /\ \A i \in 1 .. L + Len(m) : c[i] = IF i <= L THEN stream[i] ELSE m[i - L]
    BY <2>1 DEF c
  <2> QED
    BY <2>2, <2>3, <2>4, <2>5
<1>7. U' = U
  BY <1>1 DEF Unhandled
<1>8. \A j \in 0 .. N : z[j] <= z[N]
  BY <1>3, SizeGrows
<1>9. pc \in {"idle", "parse"} => Accounted(k)'
  <2> SUFFICES ASSUME pc \in {"idle", "parse"} PROVE Accounted(k)'
    OBVIOUS
  <2>1. z[N] = z[k] + U + L
    BY <1>1, <1>2 DEF Framed, Accounted
  <2>2. z'[Len(sent')] = z'[k] + U' + Len(stream')
    <3> HIDE DEF z, N, U, L
    <3> QED
      BY <1>2, <1>3, <1>4, <1>5, <1>6, <1>7, <2>1
  <2>3. z'[k] + U' + Len(stream') <= z'[Len(sent')]
    <3>1. z'[k] + U' + Len(stream') \in Nat
      <4>1. z'[k] = z[k] /\ z[k] \in Nat
        BY <1>2, <1>3, <1>5
      <4>2. Len(stream') \in Nat
        BY <1>3, <1>4, <1>6
      <4> HIDE DEF z, N, U, L
      <4> QED
        BY <1>3, <1>7, <4>1, <4>2
    <3> QED
      BY <2>2, <3>1
  <2> QED
    BY <2>2, <2>3 DEF Accounted
<1>10. pc = "parse" \/ (pc = "idle" /\ leftover_data_size = 0) => Placed(k)'
  <2> SUFFICES ASSUME pc = "parse" \/ (pc = "idle" /\ leftover_data_size = 0)
               PROVE  Placed(k)'
    OBVIOUS
  <2>1. Placed(k) /\ z[N] = z[k] + U + L
    BY <1>1, <1>2 DEF Framed, Accounted
  <2> SUFFICES ASSUME NEW j \in 1 .. Len(sent'), NEW i \in 1 .. Len(sent'[j])
               PROVE  LET p == z'[j - 1] + i - z'[k]
                      IN  /\ p \in 1 .. U' => rx_buf'[current_location' + (p - 1)] = sent'[j][i]
                          /\ p \in U' + 1 .. U' + Len(stream') => stream'[p - U'] = sent'[j][i]
    BY DEF Placed
  <2> DEFINE p == z'[j - 1] + i - z'[k]
  <2>0. j \in 1 .. N + 1
    BY <1>5
  <2> SUFFICES /\ p \in 1 .. U => rx_buf[current_location + (p - 1)] = sent'[j][i]
               /\ p \in U + 1 .. U + Len(stream') => stream'[p - U] = sent'[j][i]
    BY <1>1, <1>7, Zenon
  <2>2. j - 1 \in 0 .. N /\ i \in Nat /\ i > 0 /\ (j \in 1 .. N \/ j = N + 1)
    BY <1>3, <2>0
  <2>3. p = z[j - 1] + i - z[k]
    BY <1>2, <1>5, <2>2
  <2>4. CASE j \in 1 .. N
    <3>1. sent'[j] = sent[j] /\ i \in 1 .. Len(sent[j])
      BY <1>5, <2>4
    <3>2. z[j - 1] + i <= z[j] /\ z[j] <= z[N] /\ z[j] \in Nat /\ z[N] \in Nat /\ z[j - 1] \in Nat
      <4> HIDE DEF z, N
      <4>1. j \in 0 .. N /\ N \in 0 .. N
        BY <1>3, <2>4
      <4>2. z[j] = z[j - 1] + Len(sent[j]) /\ i <= Len(sent[j]) /\ Len(sent[j]) \in Nat
        BY <1>3, <2>4, <3>1
      <4>3. z[j] <= z[N] /\ z[j] \in Nat /\ z[N] \in Nat /\ z[j - 1] \in Nat
        BY <1>3, <1>8, <2>2, <4>1
      <4> QED
        BY <2>2, <4>2, <4>3
    <3>3. p \in Int /\ p <= U + L
      <4> HIDE DEF z, N, U, L
      <4>1. z[k] \in Nat /\ U \in Nat /\ L \in Nat
        BY <1>2, <1>3
      <4>2. z[N] = z[k] + U + L /\ z[j - 1] + i <= z[N]
        BY <2>1, <2>2, <3>2, <4>1
      <4>3. z[j - 1] + i - z[k] \in Int /\ z[j - 1] + i - z[k] <= U + L
        BY <2>2, <3>2, <4>1, <4>2, Distance
      <4> QED
        BY <2>3, <4>3
    <3>4. /\ p \in 1 .. U => rx_buf[current_location + (p - 1)] = sent[j][i]
          /\ p \in U + 1 .. U + L => stream[p - U] = sent[j][i]
      BY <2>1, <2>3, <2>4, <3>1 DEF Placed
    <3> HIDE DEF p, U, L
    <3>5. p \in U + 1 .. U + Len(stream') => p \in U + 1 .. U + L /\ p - U \in 1 .. L
      BY <1>3, <3>3
    <3>6. p \in U + 1 .. U + Len(stream') => stream'[p - U] = sent[j][i]
      BY <1>6, <3>4, <3>5
    <3> QED
      BY <3>1, <3>4, <3>6 DEF p, U
  <2>5. CASE j = N + 1
    <3>1. sent'[j] = m /\ i \in 1 .. Len(m) /\ j - 1 = N
      BY <1>3, <1>5, <2>5
    <3>2. p = U + L + i
      <4> HIDE DEF z, N, U, L, p
      <4>1. z[k] \in Nat /\ p = z[N] + i - z[k]
        BY <1>2, <1>3, <2>3, <3>1
      <4> QED
        BY <1>3, <2>1, <2>2, <4>1
    <3> HIDE DEF p, U, L
    <3>3. p \notin 1 .. U /\ p - U = L + i
      BY <1>3, <2>2, <3>2
    <3>4. stream'[p - U] = sent'[j][i]
      BY <1>6, <3>1, <3>3
    <3> QED
      BY <3>3, <3>4 DEF p, U
  <2> QED
    BY <2>2, <2>4, <2>5
<1>11. Framed(k)'
  <2>1. dispatched' = Handled(sent')[k]
    BY <1>1, <1>2, <1>5 DEF Framed
  <2> QED
    BY <1>1, <1>9, <1>10, <2>1 DEF Framed
<1>12. k \in 0 .. Len(sent')
  <2> HIDE DEF N
  <2> QED
    BY <1>2, <1>3, <1>5
<1> QED
  BY <1>1, <1>11, <1>12 DEF Aligned

LEMMA PeerGoneAligned ==
    ASSUME IInv, Aligned, NEW kept \in 0 .. Len(stream), PeerGone(kept)
    PROVE  Aligned'
<1> DEFINE z == Size(sent)
           U == Unhandled
           L == Len(stream)
<1>1. /\ cut' = TRUE /\ stream' = SubSeq(stream, 1, kept)
      /\ UNCHANGED <<sent, rx_buf, leftover_data_size, pc, base, total, current_location, left,
                     dispatched, torn>>
  BY DEF PeerGone, parseVars
<1>2. PICK k \in 0 .. Len(sent) : Framed(k)
  BY DEF Aligned
<1>3. stream \in Seq(Nat) /\ L \in Nat /\ U \in Nat /\ z[k] \in Nat /\ z[Len(sent)] \in Nat
  <2>1. Len(sent) \in 0 .. Len(sent)
    BY SentTyped DEF IInv
  <2> QED
    BY <1>2, <2>1, SentTyped DEF IInv
<1>4. Len(stream') = kept /\ \A i \in 1 .. kept : stream'[i] = stream[i]
  <2>1. /\ Len(SubSeq(stream, 1, kept)) = kept
        /\ \A i \in 1 .. kept : SubSeq(stream, 1, kept)[i] = stream[i]
    BY <1>3, SubSeqProperties
  <2> QED
    BY <1>1, <2>1, Zenon
<1>5. U' = U /\ z' = z
  BY <1>1 DEF Unhandled
<1>6. Accounted(k) => Accounted(k)'
  <2> SUFFICES ASSUME Accounted(k) PROVE Accounted(k)'
    OBVIOUS
  <2>1. z[k] + U + L <= z[Len(sent)]
    BY DEF Accounted
  <2>2. z[k] + U + kept <= z[Len(sent)]
    <3> HIDE DEF z, U
    <3> QED
      BY <1>3, <2>1
  <2> QED
    BY <1>1, <1>4, <1>5, <2>2 DEF Accounted
<1>7. Placed(k) => Placed(k)'
  <2> SUFFICES ASSUME Placed(k), NEW j \in 1 .. Len(sent), NEW i \in 1 .. Len(sent[j])
               PROVE  LET p == z[j - 1] + i - z[k]
                      IN  /\ p \in 1 .. U => rx_buf[current_location + (p - 1)] = sent[j][i]
                          /\ p \in U + 1 .. U + kept => stream'[p - U] = sent[j][i]
    BY <1>1, <1>4, <1>5 DEF Placed
  <2> DEFINE p == z[j - 1] + i - z[k]
  <2>1. /\ p \in 1 .. U => rx_buf[current_location + (p - 1)] = sent[j][i]
        /\ p \in U + 1 .. U + L => stream[p - U] = sent[j][i]
    BY DEF Placed
  <2> HIDE DEF p, U, L
  <2>2. p \in U + 1 .. U + kept => p \in U + 1 .. U + L /\ p - U \in 1 .. kept
    BY <1>3 DEF L
  <2> QED
    BY <1>4, <2>1, <2>2 DEF p, U, L
<1>8. Framed(k)'
  BY <1>1, <1>2, <1>6, <1>7 DEF Framed
<1> QED
  BY <1>1, <1>2, <1>8 DEF Aligned

(* A read that begins with an empty buffer. *)
LEMMA ReadAligned ==
    ASSUME IInv, Aligned, NEW n \in 0 .. Len(stream), Read(n), ~torn'
    PROVE  Aligned'
<1> DEFINE z == Size(sent)
           L == Len(stream)
<1>1. /\ leftover_data_size = 0 /\ pc = "idle"
      /\ pc' = "parse" /\ base' = 0 /\ left' = n /\ current_location' = 0
      /\ stream' = SubSeq(stream, n + 1, L)
      /\ rx_buf' = [a \in Addresses |-> IF a \in 0 .. n - 1 THEN stream[a + 1] ELSE rx_buf[a]]
      /\ n <= BufSize
      /\ UNCHANGED <<sent, cut, dispatched>>
  <2>1. leftover_data_size = 0
    <3>1. ~(leftover_data_size > 0) /\ leftover_data_size \in Nat
      BY DEF Read, IInv, TypeOK
    <3> QED
      BY <3>1
  <2>2. n \in Nat
    OBVIOUS
  <2>3. /\ pc = "idle" /\ n <= BufSize - 0
        /\ rx_buf' = [a \in Addresses |-> IF a \in 0 .. (0 + n - 1) THEN stream[a - 0 + 1] ELSE rx_buf[a]]
        /\ stream' = SubSeq(stream, n + 1, L)
        /\ pc' = "parse" /\ base' = 0 /\ left' = 0 + n /\ current_location' = 0
        /\ UNCHANGED <<sent, cut, dispatched>>
    BY <2>1 DEF Read, ReadSpace
  <2>4. 0 + n = n /\ 0 + n - 1 = n - 1 /\ \A a \in Addresses : a - 0 + 1 = a + 1
    BY <2>2 DEF Addresses
  <2>5. n <= BufSize
    BY <2>2, <2>3, ConstantFacts
  <2> QED
    BY <2>1, <2>3, <2>4, <2>5
<1>2. PICK k \in 0 .. Len(sent) : Framed(k)
  BY DEF Aligned
<1>3. stream \in Seq(Nat) /\ L \in Nat /\ n \in Nat /\ z[k] \in Nat /\ z[Len(sent)] \in Nat
  <2>1. Len(sent) \in 0 .. Len(sent)
    BY SentTyped DEF IInv
  <2> QED
    BY <1>2, <2>1, SentTyped DEF IInv
<1>4. Len(stream') = L - n /\ \A i \in 1 .. L - n : stream'[i] = stream[n + i]
  <2>1. /\ Len(SubSeq(stream, n + 1, L)) = L - n
        /\ \A i \in 1 .. L - n : SubSeq(stream, n + 1, L)[i] = stream[n + i]
    <3>1. n + 1 \in 1 .. L + 1 /\ L \in n + 1 - 1 .. L /\ L + 1 - (n + 1) = L - n
      BY <1>3
    <3> QED
      BY <1>3, <3>1, SubSeqProperties
  <2> QED
    BY <1>1, <2>1, Zenon
<1>5. Unhandled = 0 /\ Unhandled' = n /\ z' = z
  BY <1>1 DEF Unhandled
<1>6. Accounted(k) /\ Placed(k) /\ dispatched = Handled(sent)[k]
  BY <1>1, <1>2 DEF Framed
<1>7. Accounted(k)'
  <2>1. z[k] + 0 + L <= z[Len(sent)] /\ (~cut => z[Len(sent)] = z[k] + 0 + L)
    BY <1>5, <1>6 DEF Accounted
  <2>2. z[k] + n + (L - n) <= z[Len(sent)] /\ (~cut => z[Len(sent)] = z[k] + n + (L - n))
    <3> HIDE DEF z, L
    <3> QED
      BY <1>3, <2>1
  <2> QED
    BY <1>1, <1>4, <1>5, <2>2 DEF Accounted
<1>8. Placed(k)'
  <2> SUFFICES ASSUME NEW j \in 1 .. Len(sent), NEW i \in 1 .. Len(sent[j])
               PROVE  LET p == z[j - 1] + i - z[k]
                      IN  /\ p \in 1 .. n => rx_buf'[0 + (p - 1)] = sent[j][i]
                          /\ p \in n + 1 .. n + (L - n) => stream'[p - n] = sent[j][i]
    BY <1>1, <1>4, <1>5 DEF Placed
  <2> DEFINE p == z[j - 1] + i - z[k]
  <2>1. p \in 0 + 1 .. 0 + L => stream[p - 0] = sent[j][i]
    BY <1>5, <1>6 DEF Placed
  <2> HIDE DEF p, L
  <2>2. p \in 1 .. L => stream[p] = sent[j][i]
    <3>1. p \in 1 .. L => p \in 0 + 1 .. 0 + L /\ p - 0 = p
      BY <1>3
    <3> QED
      BY <2>1, <3>1, Zenon
  <2>3. ASSUME p \in 1 .. n PROVE rx_buf'[0 + (p - 1)] = sent[j][i]
    <3>1. 0 + (p - 1) \in Addresses /\ 0 + (p - 1) \in 0 .. n - 1 /\ 0 + (p - 1) + 1 = p /\ p \in 1 .. L
      BY <1>1, <1>3, <2>3, ConstantFacts DEF Addresses, L
    <3> QED
      BY <1>1, <2>2, <3>1
  <2>4. ASSUME p \in n + 1 .. n + (L - n) PROVE stream'[p - n] = sent[j][i]
    <3>1. p - n \in 1 .. L - n /\ n + (p - n) = p /\ p \in 1 .. L
      BY <1>3, <2>4
    <3> QED
      BY <1>4, <2>2, <3>1
  <2> QED
    BY <2>3, <2>4 DEF p, L
<1>9. Framed(k)'
  BY <1>1, <1>6, <1>7, <1>8 DEF Framed
<1> QED
  BY <1>1, <1>2, <1>9 DEF Aligned

LEMMA AsFunction == \A s \in Seq(Nat) : s = [i \in 1 .. Len(s) |-> s[i]]
OBVIOUS

LEMMA Difference ==
    \A a, i, c, l \in Nat : a + i - c = (a + i - (c + l)) + l /\ a + i - (c + l) \in Int
OBVIOUS

(* process_msg finds a message where it looks for one, and its cells are   *)
(* as they were sent.                                                      *)
LEMMA MessageFound ==
    ASSUME IInv, Aligned, pc = "parse", HasHeader, NEW junk \in Junk,
           NEW k \in 0 .. Len(sent), Framed(k)
    PROVE  /\ k + 1 \in 1 .. Len(sent)
           /\ \A i \in Nat : i < left /\ i < Len(sent[k + 1]) => Cell(i, junk) = sent[k + 1][i + 1]
           /\ Cell(0, junk) = Len(sent[k + 1])
           /\ Cell(1, junk) \in 1 .. (MtMax - 1)
           /\ Header <= Len(sent[k + 1]) /\ Len(sent[k + 1]) <= BufSize
<1> DEFINE z == Size(sent)
           N == Len(sent)
           m == sent[k + 1]
<1>1. /\ base = 0 /\ current_location = total - left /\ total <= BufSize
      /\ total \in Nat /\ left \in Nat /\ left >= 2 /\ Unhandled = left
      /\ Accounted(k) /\ Placed(k)
  BY ConstantFacts DEF Aligned, IInv, CopyInBounds, TypeOK, HasHeader, Framed, Unhandled
<1>2. /\ N \in Nat /\ Len(stream) \in Nat
      /\ \A j \in 0 .. N : z[j] \in Nat
  BY SentTyped DEF IInv
<1>3. k + 1 \in 1 .. N
  <2>1. z[k] + left + Len(stream) <= z[N]
    BY <1>1 DEF Accounted
  <2>2. k # N
    <3>1. z[k] \in Nat
      BY <1>2
    <3>2. ~(z[k] + left + Len(stream) <= z[k])
      <4> HIDE DEF z
      <4> QED
        BY <1>1, <1>2, <3>1
    <3> QED
      BY <2>1, <3>2, Zenon
  <2> QED
    BY <1>2, <2>2
<1>4. /\ m \in Messages /\ Len(m) \in Nat
      /\ Header <= Len(m) /\ Len(m) <= BufSize /\ m[1] = Len(m) /\ m[2] \in 1 .. (MtMax - 1)
  BY <1>3, SentTyped, MessageAssumption DEF IInv
<1>5. ASSUME NEW i \in Nat, i < left, i < Len(m) PROVE Cell(i, junk) = m[i + 1]
  <2>1. i + 1 \in 1 .. Len(m) /\ (k + 1) - 1 = k
    BY <1>2, <1>4, <1>5
  <2>2. z[(k + 1) - 1] + (i + 1) - z[k] = i + 1
    <3>1. z[k] \in Nat
      BY <1>2
    <3> HIDE DEF z
    <3> QED
      BY <2>1, <3>1
  <2>3. i + 1 \in 1 .. left => rx_buf[current_location + ((i + 1) - 1)] = m[i + 1]
    <3>1. LET p == z[(k + 1) - 1] + (i + 1) - z[k]
          IN  p \in 1 .. Unhandled => rx_buf[current_location + (p - 1)] = m[i + 1]
      BY <1>1, <1>3, <2>1 DEF Placed
    <3> QED
      BY <1>1, <2>2, <3>1, Zenon
  <2>4. /\ i + 1 \in 1 .. left /\ current_location + ((i + 1) - 1) = base + current_location + i
        /\ base + current_location + i < BufSize
    BY <1>1, <1>5, ConstantFacts
  <2> QED
    BY <2>3, <2>4 DEF Cell
<1>6. Cell(0, junk) = m[1] /\ Cell(1, junk) = m[2]
  <2>1. 0 \in Nat /\ 1 \in Nat /\ 0 < left /\ 1 < left /\ 0 < Len(m) /\ 1 < Len(m) /\ 0 + 1 = 1 /\ 1 + 1 = 2
    BY <1>1, <1>4, ConstantFacts
  <2> HIDE DEF m
  <2>2. Cell(0, junk) = m[0 + 1] /\ Cell(1, junk) = m[1 + 1]
    BY <1>5, <2>1
  <2> QED
    BY <2>1, <2>2
<1> QED
  BY <1>3, <1>4, <1>5, <1>6

LEMMA AdvanceAligned ==
    ASSUME IInv, Aligned, pc = "parse", HasHeader, NEW junk \in Junk,
           NEW k \in 0 .. Len(sent), Framed(k),
           IsWhole(Len(sent[k + 1])), Advanced(Len(sent[k + 1])),
           dispatched' = Also(dispatched, sent[k + 1])
    PROVE  Aligned'
<1> DEFINE z == Size(sent)
           len == Len(sent[k + 1])
<1>1. /\ left' = left - len /\ current_location' = current_location + len /\ len <= left
      /\ UNCHANGED <<stream, sent, cut, rx_buf, leftover_data_size, pc, base, total, torn>>
  BY DEF Advanced, Advance, IsWhole, peerVars
<1>2. k + 1 \in 1 .. Len(sent)
  BY MessageFound
<1>3. /\ left \in Nat /\ total \in Nat /\ current_location = total - left
      /\ Unhandled = left /\ Unhandled' = left - len
      /\ Accounted(k) /\ Placed(k)
  BY <1>1 DEF IInv, CopyInBounds, TypeOK, Framed, Unhandled
<1>4. /\ len \in Nat /\ z[k] \in Nat /\ z[k + 1] = z[k] + len
      /\ Len(sent) \in Nat /\ Len(stream) \in Nat /\ z[Len(sent)] \in Nat
      /\ \A j \in 1 .. Len(sent) : z[j - 1] \in Nat
  <2>1. Len(sent) \in 0 .. Len(sent) /\ (k + 1) - 1 = k /\ \A j \in 1 .. Len(sent) : j - 1 \in 0 .. Len(sent)
    BY SentTyped DEF IInv
  <2>2. z[k + 1] = z[(k + 1) - 1] + len
    BY <1>2, SentTyped DEF IInv
  <2> QED
    BY <1>2, <2>1, <2>2, SentTyped DEF IInv
<1>5. Accounted(k + 1)'
  <2>1. z[k] + left + Len(stream) <= z[Len(sent)] /\ (~cut => z[Len(sent)] = z[k] + left + Len(stream))
    BY <1>3 DEF Accounted
  <2>2. /\ z[k + 1] + (left - len) + Len(stream) <= z[Len(sent)]
        /\ ~cut => z[Len(sent)] = z[k + 1] + (left - len) + Len(stream)
    <3> HIDE DEF z, len
    <3>1. z[k + 1] + (left - len) + Len(stream) = z[k] + left + Len(stream)
      BY <1>3, <1>4
    <3> QED
      BY <2>1, <3>1
  <2>3. z' = z
    BY <1>1
  <2> QED
    BY <1>1, <1>3, <2>2, <2>3 DEF Accounted
<1>6. Placed(k + 1)'
  <2>1. z' = z /\ (k + 1)' = k + 1
    BY <1>1
  <2> SUFFICES ASSUME NEW j \in 1 .. Len(sent), NEW i \in 1 .. Len(sent[j])
               PROVE  LET p == z[j - 1] + i - z[k + 1]
                      IN  /\ p \in 1 .. (left - len) =>
                                rx_buf[current_location + len + (p - 1)] = sent[j][i]
                          /\ p \in (left - len) + 1 .. (left - len) + Len(stream) =>
                                stream[p - (left - len)] = sent[j][i]
    BY <1>1, <1>3, <2>1 DEF Placed
  <2> DEFINE p == z[j - 1] + i - z[k + 1]
             q == z[j - 1] + i - z[k]
  <2>2. q = p + len /\ p \in Int
    <3>1. z[j - 1] \in Nat /\ i \in Nat /\ z[k] \in Nat /\ len \in Nat
      BY <1>4
    <3>2. z[k + 1] = z[k] + len
      BY <1>4
    <3> HIDE DEF z, len
    <3>3. /\ z[j - 1] + i - z[k] = (z[j - 1] + i - (z[k] + len)) + len
          /\ z[j - 1] + i - (z[k] + len) \in Int
      BY <3>1, Difference
    <3> QED
      BY <3>2, <3>3, Zenon
  <2>3. /\ q \in 1 .. left => rx_buf[current_location + (q - 1)] = sent[j][i]
        /\ q \in left + 1 .. left + Len(stream) => stream[q - left] = sent[j][i]
    BY <1>3 DEF Placed
  <2> HIDE DEF p, q, len
  <2>4. /\ p \in 1 .. (left - len) => /\ q \in 1 .. left
                                      /\ current_location + (q - 1) = current_location + len + (p - 1)
        /\ p \in (left - len) + 1 .. (left - len) + Len(stream) =>
              q \in left + 1 .. left + Len(stream) /\ q - left = p - (left - len)
    BY <1>1, <1>3, <1>4, <2>2 DEF len
  <2>5. /\ p \in 1 .. (left - len) => rx_buf[current_location + len + (p - 1)] = sent[j][i]
        /\ p \in (left - len) + 1 .. (left - len) + Len(stream) => stream[p - (left - len)] = sent[j][i]
    BY <2>3, <2>4, Zenon
  <2> QED
    BY <2>5 DEF p, len
<1>7. dispatched' = Handled(sent)[k + 1]
  <2>1. Handled(sent)[k + 1] = Also(Handled(sent)[(k + 1) - 1], sent[k + 1]) /\ (k + 1) - 1 = k
    BY <1>2, HandledIs, SentTyped DEF IInv
  <2> QED
    BY <2>1 DEF Framed
<1>8. Framed(k + 1)'
  BY <1>1, <1>5, <1>6, <1>7 DEF Framed
<1>9. k + 1 \in 0 .. Len(sent')
  BY <1>1, <1>2
<1> QED
  BY <1>1, <1>8, <1>9 DEF Aligned

LEMMA FinishAligned ==
    ASSUME IInv, Aligned, pc = "parse", NEW junk \in Junk, Finish(Cell(0, junk))
    PROVE  Aligned'
<1> DEFINE len == Cell(0, junk)
<1>1. PICK k \in 0 .. Len(sent) : Framed(k)
  BY DEF Aligned
<1>2. left \in Nat /\ Unhandled = left /\ Accounted(k) /\ Placed(k)
  BY <1>1 DEF IInv, TypeOK, Framed, Unhandled
<1>3. HasHeader => Header <= len /\ len <= BufSize
  BY <1>1, MessageFound
<1>4. Remains(len) = left /\ left < BufSize
  <2>1. CASE ~HasHeader
    BY <1>2, <2>1, ConstantFacts DEF Remains, HasHeader
  <2>2. CASE HasHeader
    <3>1. len \in Nat
      <4>1. 0 \in Nat
        OBVIOUS
      <4> QED
        BY <4>1, CellType DEF IInv
    <3>2. ~(len < Header) /\ len <= BufSize
      BY <1>3, <2>2, <3>1, ConstantFacts
    <3>3. ~IsWhole(len)
      BY <2>2, <3>2 DEF Finish, Leaves
    <3> HIDE DEF len
    <3>4. left < BufSize
      BY <1>2, <3>1, <3>2, <3>3, ConstantFacts DEF IsWhole
    <3> QED
      BY <3>2, <3>4 DEF Remains
  <2> QED
    BY <2>1, <2>2
<1>5. /\ leftover_data_size' = left /\ pc' = "idle" /\ current_location' = 0
      /\ UNCHANGED <<stream, sent, cut, dispatched, torn>>
  BY <1>4 DEF Finish, peerVars
<1>6. Unhandled' = left
  BY <1>5 DEF Unhandled
<1>7. Accounted(k)'
  BY <1>2, <1>5, <1>6 DEF Accounted
<1>8. left = 0 => Placed(k)'
  <2> SUFFICES ASSUME left = 0, NEW j \in 1 .. Len(sent), NEW i \in 1 .. Len(sent[j])
               PROVE  LET p == Size(sent)[j - 1] + i - Size(sent)[k]
                      IN  /\ p \in 1 .. left => rx_buf'[0 + (p - 1)] = sent[j][i]
                          /\ p \in left + 1 .. left + Len(stream) => stream[p - left] = sent[j][i]
    BY <1>5, <1>6 DEF Placed
  <2>1. LET p == Size(sent)[j - 1] + i - Size(sent)[k]
        IN  p \in left + 1 .. left + Len(stream) => stream[p - left] = sent[j][i]
    BY <1>2 DEF Placed
  <2>2. \A p : p \notin 1 .. 0
    OBVIOUS
  <2> QED
    BY <2>1, <2>2
<1>9. Framed(k)'
  BY <1>1, <1>5, <1>7, <1>8 DEF Framed
<1> QED
  BY <1>1, <1>4, <1>5, <1>9 DEF Aligned

LEMMA ParseAligned ==
    ASSUME IInv, Aligned, NEW junk \in Junk, ProcessMsg(junk)
    PROVE  Aligned'
<1> DEFINE len  == Cell(0, junk)
           type == Cell(1, junk)
<1>1. PICK k \in 0 .. Len(sent) : Framed(k)
  BY DEF Aligned
<1>2. pc = "parse"
  BY DEF ProcessMsg
<1> DEFINE m == sent[k + 1]
<1>3. HasHeader => /\ k + 1 \in 1 .. Len(sent)
                   /\ \A i \in Nat : i < left /\ i < Len(m) => Cell(i, junk) = m[i + 1]
                   /\ len = Len(m) /\ type \in 1 .. (MtMax - 1) /\ Header <= Len(m)
  BY <1>1, <1>2, MessageFound
<1>4. CASE EmptyMessage(len)
  <2>1. HasHeader /\ IsWhole(Len(m)) /\ Advanced(Len(m)) /\ dispatched' = dispatched /\ Len(m) = Header
    BY <1>3, <1>4 DEF EmptyMessage, IsEmpty
  <2>2. dispatched' = Also(dispatched, m)
    BY <2>1, ConstantFacts DEF Also
  <2> QED
    BY <1>1, <1>2, <2>1, <2>2, AdvanceAligned
<1>5. CASE Dispatch(len, type, junk)
  <2>1. /\ HasHeader /\ IsWhole(Len(m)) /\ Advanced(Len(m)) /\ Len(m) # Header
        /\ dispatched' = Append(dispatched, [i \in 1 .. Len(m) |-> Cell(i - 1, junk)])
    BY <1>3, <1>5 DEF Dispatch, IsEmpty, Registered
  <2>2. m \in Seq(Nat) /\ Len(m) \in Nat /\ left \in Nat /\ Len(m) <= left
    BY <1>3, <2>1, SentTyped DEF IInv, TypeOK, IsWhole
  <2>3. [i \in 1 .. Len(m) |-> Cell(i - 1, junk)] = m
    <3>1. \A i \in 1 .. Len(m) : Cell(i - 1, junk) = m[i]
      <4> TAKE i \in 1 .. Len(m)
      <4>1. i - 1 \in Nat /\ i - 1 < left /\ i - 1 < Len(m) /\ (i - 1) + 1 = i
        BY <2>2
      <4>2. Cell(i - 1, junk) = m[(i - 1) + 1]
        BY <1>3, <2>1, <4>1
      <4> QED
        BY <4>1, <4>2
    <3>2. m = [i \in 1 .. Len(m) |-> m[i]]
      BY <2>2, AsFunction, Zenon
    <3> HIDE DEF m
    <3> QED
      BY <3>1, <3>2
  <2>4. Len(m) > Header
    BY <1>3, <2>1, <2>2, ConstantFacts
  <2>5. dispatched' = Also(dispatched, m)
    BY <2>1, <2>3, <2>4 DEF Also
  <2> QED
    BY <1>1, <1>2, <2>1, <2>5, AdvanceAligned
<1>6. CASE OffByOne(len, type)
  <2>1. type \in 1 .. (MtMax - 1) /\ type = MtMax
    BY <1>3, <1>6 DEF OffByOne
  <2> QED
    BY <2>1, FramingAssumption
<1>7. CASE Finish(len)
  BY <1>2, <1>7, FinishAligned
<1> QED
  BY <1>4, <1>5, <1>6, <1>7 DEF ProcessMsg

LEMMA NextAligned == FInv /\ [Next]_vars => FInv'
<1> SUFFICES ASSUME FInv, [Next]_vars PROVE FInv'
  OBVIOUS
<1>1. IInv /\ IInv'
  BY NextInv DEF FInv
<1> SUFFICES ASSUME ~torn' PROVE Aligned'
  BY <1>1 DEF FInv
<1>2. ~torn
  <2>1. CASE UNCHANGED vars
    BY <2>1 DEF vars
  <2>2. ASSUME NEW m \in Messages, Send(m) PROVE ~torn
    BY <2>2 DEF Send
  <2>3. ASSUME NEW kept \in 0 .. Len(stream), PeerGone(kept) PROVE ~torn
    BY <2>3 DEF PeerGone
  <2>4. CASE ReadSome \/ ReadNothing
    BY <2>4 DEF ReadSome, ReadNothing, Read
  <2>5. CASE AllocAbort \/ Eof
    BY <2>5 DEF AllocAbort, Eof
  <2>6. CASE Parse
    BY <2>6 DEF Parse, ProcessMsg, EmptyMessage, Dispatch, OffByOne, Finish, Advanced
  <2> QED
    BY <2>1, <2>2, <2>3, <2>4, <2>5, <2>6 DEF Next
<1>3. Aligned
  BY <1>2 DEF FInv
<1>4. CASE UNCHANGED vars
  <2>1. UNCHANGED <<stream, sent, cut, rx_buf, leftover_data_size, pc, base, total,
                    current_location, left, dispatched, torn>>
    BY <1>4 DEF vars, peerVars, parseVars
  <2> QED
    BY <1>3, <2>1 DEF Aligned, Framed, Accounted, Placed, Unhandled
<1>5. ASSUME NEW m \in Messages, Send(m) PROVE Aligned'
  BY <1>1, <1>3, <1>5, SendAligned
<1>6. ASSUME NEW kept \in 0 .. Len(stream), PeerGone(kept) PROVE Aligned'
  BY <1>1, <1>3, <1>6, PeerGoneAligned
<1>7. CASE ReadSome \/ ReadNothing
  <2>1. \E n \in 0 .. Len(stream) : Read(n)
    BY <1>1, <1>7 DEF ReadSome, ReadNothing, IInv, TypeOK
  <2> QED
    BY <1>1, <1>3, <2>1, ReadAligned
<1>8. CASE AllocAbort
  <2>1. pc = "idle" /\ BufSize - leftover_data_size = 0
    BY <1>8 DEF AllocAbort, ReadSpace
  <2>2. leftover_data_size < BufSize /\ leftover_data_size \in Nat
    BY <1>1, <1>3, <2>1 DEF Aligned, IInv, TypeOK
  <2> QED
    BY <2>1, <2>2, ConstantFacts
<1>9. CASE Eof
  <2>1. pc' = "closed" /\ UNCHANGED <<sent, dispatched>>
    BY <1>9 DEF Eof, peerVars
  <2>2. \A k \in 0 .. Len(sent) : Framed(k) => Framed(k)'
    BY <2>1 DEF Framed
  <2> QED
    BY <1>3, <2>1, <2>2 DEF Aligned
<1>10. CASE Parse
  BY <1>1, <1>3, <1>10, ParseAligned DEF Parse
<1> QED
  BY <1>4, <1>5, <1>6, <1>7, <1>8, <1>9, <1>10 DEF Next

LEMMA AlignedInvariance == Spec => []FInv
BY InitAligned, NextAligned, PTL DEF Spec

(* Until a read begins after a partial message, whatever the sizes of      *)
(* header, buffer and messages and however the stream is cut into reads,   *)
(* the handlers get the messages the peer sent, each whole, once and in    *)
(* order, and no cell is lost.                                             *)
THEOREM FramingIsExact == Spec => []FramedWhenAligned
<1>1. FInv => FramedWhenAligned
  <2> SUFFICES ASSUME FInv, ~torn PROVE FramedExactly
    BY DEF FramedWhenAligned
  <2>1. PICK k \in 0 .. Len(sent) : Framed(k)
    BY DEF FInv, Aligned
  <2>2. dispatched = Handled(sent)[k]
    BY <2>1 DEF Framed
  <2>3. pc \in {"idle", "parse"} /\ ~cut =>
           Size(sent)[Len(sent)] = Size(sent)[k] + Unhandled + Len(stream)
    BY <2>1 DEF Framed, Accounted
  <2> QED
    BY <2>2, <2>3 DEF FramedExactly
<1> QED
  BY <1>1, AlignedInvariance, PTL

(* Until then the program does not stop either: there is room for the next *)
(* read, and no type is past the end of pbcbs.                             *)
THEOREM OnlyTornAborts == Spec => []AbortsOnlyWhenTorn
<1>1. FInv => AbortsOnlyWhenTorn
  BY DEF FInv, Aligned, AbortsOnlyWhenTorn
<1> QED
  BY <1>1, AlignedInvariance, PTL
=============================================================================
